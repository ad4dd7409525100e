----------------------------- MODULE BindProofs -----------------------------
(***************************************************************************)
(* Bind paths and the order of the rules on a create, for every policy and  *)
(* payload.  normalize_bind_path walks a path from its start; the reference *)
(* cancels components anywhere until none is left to cancel.  Cancelling    *)
(* does not change where the walk ends (CancelledAlike), and a path with    *)
(* nothing left to cancel is walked to itself (NothingToCancel), so the two *)
(* agree (LeadsIsNormal).                                                   *)
(***************************************************************************)
EXTENDS PolicyEvalProofs, WellFoundedInduction

-----------------------------------------------------------------------------
(* Least counterexamples *)

LEMMA LeastExists ==
    ASSUME NEW S \in SUBSET Nat, S # {}
    PROVE  \E n \in S : \A m \in S : n <= m
<1>1. \E n \in S : \A m \in S : ~(<<m, n>> \in OpToRel(<, Nat))
  BY NatLessThanWellFounded, WFMin, Zenon
<1>2. PICK n \in S : \A m \in S : ~(<<m, n>> \in OpToRel(<, Nat))
  BY <1>1
<1>3. \A m \in S : ~(m < n)
  BY <1>2 DEF OpToRel
<1>4. QED
  BY <1>3

-----------------------------------------------------------------------------
(* The walk *)

\* A walk along the first n components.
IsWalk(w, p, n) ==
    /\ DOMAIN w = 0 .. n
    /\ w[0] = <<>>
    /\ \A k \in 1 .. n : w[k] = Enter(w[k - 1], p[k])

LEMMA WalkExists ==
    ASSUME NEW p, NEW n \in Nat
    PROVE  \E w : IsWalk(w, p, n) /\ w = [k \in 0 .. n |-> w[k]]
<1> DEFINE Has(m) == \E w : IsWalk(w, p, m) /\ w = [k \in 0 .. m |-> w[k]]
           S == {m \in Nat : ~Has(m)}
<1>1. SUFFICES ASSUME S # {} PROVE FALSE
  OBVIOUS
<1>2. PICK m \in S : \A l \in S : m <= l
  BY <1>1, LeastExists
<1>3. Has(0)
  <2> DEFINE w == [k \in 0 .. 0 |-> <<>>]
  <2>1. IsWalk(w, p, 0) /\ w = [k \in 0 .. 0 |-> w[k]]
    BY DEF IsWalk
  <2>2. QED
    BY <2>1
<1>4. m # 0 /\ m - 1 \in Nat /\ m \in Nat /\ Has(m - 1)
  <2>1. m \in Nat /\ ~Has(m)
    BY <1>2
  <2> HIDE DEF Has
  <2>2. m # 0 /\ m - 1 \in Nat /\ m - 1 \notin S
    BY <1>2, <1>3, <2>1
  <2>3. QED
    BY <2>1, <2>2
<1>5. PICK w : IsWalk(w, p, m - 1)
  BY <1>4
<1> DEFINE v == [k \in 0 .. m |-> IF k < m THEN w[k] ELSE Enter(w[m - 1], p[m])]
<1>6. IsWalk(v, p, m)
  <2>1. DOMAIN v = 0 .. m /\ v[0] = <<>>
    BY <1>4, <1>5 DEF IsWalk
  <2>2. ASSUME NEW k \in 1 .. m PROVE v[k] = Enter(v[k - 1], p[k])
    <3>1. CASE k < m
      <4>1. v[k] = w[k] /\ v[k - 1] = w[k - 1] /\ k \in 1 .. m - 1
        BY <1>4, <3>1
      <4>2. QED
        BY <1>5, <4>1 DEF IsWalk
    <3>2. CASE k = m
      BY <1>4, <3>2
    <3>3. QED
      BY <1>4, <3>1, <3>2
  <2>3. QED
    BY <2>1, <2>2 DEF IsWalk
<1>7. v = [k \in 0 .. m |-> v[k]]
  OBVIOUS
<1>8. Has(m)
  BY <1>6, <1>7
<1>9. QED
  BY <1>2, <1>8

LEMMA WalkIs ==
    ASSUME NEW S, NEW p \in Seq(S)
    PROVE  IsWalk(Walk(p), p, Len(p))
<1> DEFINE n == Len(p)
           Next1(w) == [k \in 0 .. n |-> IF k = 0 THEN <<>> ELSE Enter(w[k - 1], p[k])]
<1>1. n \in Nat
  BY LenProperties
<1>2. Walk(p) = CHOOSE w : w = Next1(w)
  BY DEF Walk
<1>3. \E w : w = Next1(w)
  <2>1. PICK w : IsWalk(w, p, n) /\ w = [k \in 0 .. n |-> w[k]]
    BY <1>1, WalkExists
  <2>2. \A k \in 0 .. n : w[k] = Next1(w)[k]
    BY <1>1, <2>1 DEF IsWalk
  <2>3. QED
    BY <2>1, <2>2
<1>4. Walk(p) = Next1(Walk(p))
  BY <1>2, <1>3
<1> HIDE DEF n
<1>5. QED
  BY <1>1, <1>4 DEF IsWalk, n

LEMMA FrontStays ==
    ASSUME NEW S, NEW dir \in Seq(S)
    PROVE  Front(dir) \in Seq(S)
<1>1. Len(dir) \in Nat
  BY LenProperties
<1>2. \A i \in 1 .. Len(dir) - 1 : dir[i] \in S
  BY <1>1, ElementOfSeq
<1>3. QED
  BY <1>1, <1>2, SubSeqProperties DEF Front

LEMMA WalkStays ==
    ASSUME NEW S, NEW p \in Seq(S), NEW k \in 0 .. Len(p)
    PROVE  Walk(p)[k] \in Seq(S)
<1> DEFINE Out == {j \in Nat : j <= Len(p) /\ Walk(p)[j] \notin Seq(S)}
<1>1. Len(p) \in Nat
  BY LenProperties
<1>2. SUFFICES ASSUME Out # {} PROVE FALSE
  BY <1>1
<1>3. PICK j \in Out : \A i \in Out : j <= i
  <2>1. Out \in SUBSET Nat
    OBVIOUS
  <2> HIDE DEF Out
  <2>2. QED
    BY <1>2, <2>1, LeastExists
<1>4. IsWalk(Walk(p), p, Len(p))
  BY WalkIs
<1>5. j \in Nat /\ j <= Len(p) /\ Walk(p)[j] \notin Seq(S)
  BY <1>3
<1>6. j # 0
  BY <1>4, <1>5, EmptySeq DEF IsWalk
<1>7. Walk(p)[j - 1] \in Seq(S)
  BY <1>1, <1>3, <1>5, <1>6
<1>8. Walk(p)[j] = Enter(Walk(p)[j - 1], p[j]) /\ p[j] \in S
  <2>1. j \in 1 .. Len(p)
    BY <1>1, <1>5, <1>6
  <2>2. QED
    BY <1>4, <2>1, ElementOfSeq DEF IsWalk
<1>9. \A dir \in Seq(S) : Front(dir) \in Seq(S)
  BY FrontStays
<1>10. QED
  BY <1>5, <1>7, <1>8, <1>9, AppendProperties DEF Enter

\* From i and j two paths are at one place and go on alike, to a and b.
GoAlike(p, i, a, q, j, b) ==
    /\ i \in 0 .. Len(p) /\ a \in i .. Len(p) /\ j \in 0 .. Len(q) /\ b \in j .. Len(q)
    /\ a - i = b - j
    /\ Walk(p)[i] = Walk(q)[j]
    /\ \A m \in 1 .. a - i : p[i + m] = q[j + m]

LEMMA WalkAlike ==
    ASSUME NEW S, NEW p \in Seq(S), NEW q \in Seq(S), NEW i, NEW a, NEW j, NEW b, GoAlike(p, i, a, q, j, b)
    PROVE  Walk(p)[a] = Walk(q)[b]
<1> DEFINE n == a - i
<1>0. Len(p) \in Nat /\ Len(q) \in Nat
  BY LenProperties
<1>1. /\ i \in Nat /\ j \in Nat /\ n \in Nat /\ i + n = a /\ j + n = b
      /\ a <= Len(p) /\ b <= Len(q) /\ Walk(p)[i] = Walk(q)[j]
  BY <1>0 DEF GoAlike
<1>2. \A m \in 1 .. n : p[i + m] = q[j + m]
  BY DEF GoAlike
<1> HIDE DEF n
<1>3. SUFFICES ASSUME Walk(p)[i + n] # Walk(q)[j + n] PROVE FALSE
  BY <1>1
<1> DEFINE Apart == {m \in Nat : m <= n /\ Walk(p)[i + m] # Walk(q)[j + m]}
<1>4. Apart # {}
  <2>1. n \in Apart
    BY <1>1, <1>3
  <2>2. QED
    BY <2>1
<1>5. PICK m \in Apart : \A l \in Apart : m <= l
  <2>1. Apart \in SUBSET Nat
    OBVIOUS
  <2> HIDE DEF Apart
  <2>2. QED
    BY <1>4, <2>1, LeastExists
<1>6. m \in Nat /\ m <= n /\ Walk(p)[i + m] # Walk(q)[j + m] /\ m # 0
  BY <1>1, <1>5
<1>7. Walk(p)[i + (m - 1)] = Walk(q)[j + (m - 1)]
  <2>1. m - 1 \in Nat /\ m - 1 <= n /\ ~(m <= m - 1)
    BY <1>1, <1>6
  <2>2. m - 1 \notin Apart
    BY <1>5, <2>1
  <2>3. QED
    BY <2>1, <2>2
<1>8. IsWalk(Walk(p), p, Len(p)) /\ IsWalk(Walk(q), q, Len(q))
  BY WalkIs
<1>9. /\ Walk(p)[i + m] = Enter(Walk(p)[(i + m) - 1], p[i + m])
      /\ Walk(q)[j + m] = Enter(Walk(q)[(j + m) - 1], q[j + m])
  <2>1. i + m \in 1 .. Len(p) /\ j + m \in 1 .. Len(q)
    BY <1>0, <1>1, <1>6
  <2>2. QED
    BY <1>8, <2>1 DEF IsWalk
<1>10. (i + m) - 1 = i + (m - 1) /\ (j + m) - 1 = j + (m - 1) /\ m \in 1 .. n
  BY <1>1, <1>6
<1>11. p[i + m] = q[j + m]
  BY <1>2, <1>10
<1>12. QED
  BY <1>6, <1>7, <1>9, <1>10, <1>11

LEMMA SamePrefix ==
    ASSUME NEW S, NEW p \in Seq(S), NEW q \in Seq(S), NEW n \in Nat, n <= Len(p), n <= Len(q),
           \A m \in 1 .. n : p[m] = q[m]
    PROVE  Walk(p)[n] = Walk(q)[n]
<1>1. Len(p) \in Nat /\ Len(q) \in Nat
  BY LenProperties
<1>2. Walk(p)[0] = Walk(q)[0]
  BY WalkIs DEF IsWalk
<1>3. GoAlike(p, 0, n, q, 0, n)
  BY <1>1, <1>2 DEF GoAlike
<1>4. QED
  BY <1>3, WalkAlike

-----------------------------------------------------------------------------
(* Cancelling components *)

LEMMA RemovedIs ==
    ASSUME NEW S, NEW p \in Seq(S), NEW k \in 1 .. Len(p)
    PROVE  /\ RemoveAt(p, k) \in Seq(S)
           /\ Len(RemoveAt(p, k)) = Len(p) - 1
           /\ \A i \in 1 .. Len(p) - 1 : RemoveAt(p, k)[i] = IF i < k THEN p[i] ELSE p[i + 1]
<1> DEFINE s == SubSeq(p, 1, k - 1)
           t == SubSeq(p, k + 1, Len(p))
<1>1. Len(p) \in Nat /\ k \in Nat
  BY LenProperties
<1>2. \A i \in 1 .. Len(p) : p[i] \in S
  BY ElementOfSeq
<1>3. s \in Seq(S) /\ Len(s) = k - 1 /\ \A i \in 1 .. k - 1 : s[i] = p[i]
  <2>1. \A i \in 1 .. k - 1 : p[i] \in S
    BY <1>1, <1>2
  <2>2. QED
    BY <1>1, <2>1, SubSeqProperties
<1>4. t \in Seq(S) /\ Len(t) = Len(p) - k /\ \A i \in 1 .. Len(p) - k : t[i] = p[k + i]
  <2>1. \A i \in k + 1 .. Len(p) : p[i] \in S
    BY <1>1, <1>2
  <2>2. /\ t \in Seq(S) /\ Len(t) = IF k + 1 <= Len(p) THEN Len(p) - (k + 1) + 1 ELSE 0
        /\ \A i \in 1 .. Len(p) - (k + 1) + 1 : t[i] = p[(k + 1) + i - 1]
    BY <1>1, <2>1, SubSeqProperties
  <2>3. Len(p) - (k + 1) + 1 = Len(p) - k
    BY <1>1
  <2>4. ASSUME NEW i \in 1 .. Len(p) - k PROVE t[i] = p[k + i]
    <3>1. (k + 1) + i - 1 = k + i
      BY <1>1
    <3>2. QED
      BY <2>2, <2>3, <3>1
  <2>5. Len(t) = Len(p) - k
    BY <1>1, <2>2
  <2>6. QED
    BY <2>2, <2>4, <2>5
<1> HIDE DEF s, t
<1>5. /\ s \o t \in Seq(S) /\ Len(s \o t) = Len(s) + Len(t)
      /\ \A i \in 1 .. Len(s) + Len(t) : (s \o t)[i] = IF i <= Len(s) THEN s[i] ELSE t[i - Len(s)]
  BY <1>3, <1>4, ConcatProperties
<1>6. Len(s) + Len(t) = Len(p) - 1
  BY <1>1, <1>3, <1>4
<1>7. ASSUME NEW i \in 1 .. Len(p) - 1 PROVE (s \o t)[i] = IF i < k THEN p[i] ELSE p[i + 1]
  <2>1. CASE i < k
    <3>1. i \in 1 .. k - 1 /\ i <= Len(s) /\ i \in 1 .. Len(s) + Len(t)
      BY <1>1, <1>3, <1>6, <2>1
    <3>2. QED
      BY <1>3, <1>5, <2>1, <3>1
  <2>2. CASE i >= k
    <3>1. /\ i - Len(s) \in 1 .. Len(p) - k /\ k + (i - Len(s)) = i + 1
          /\ ~(i <= Len(s)) /\ ~(i < k) /\ i \in 1 .. Len(s) + Len(t)
      BY <1>1, <1>3, <1>6, <2>2
    <3>2. (s \o t)[i] = t[i - Len(s)]
      BY <1>5, <3>1
    <3>3. t[i - Len(s)] = p[k + (i - Len(s))]
      BY <1>4, <3>1
    <3>4. QED
      BY <3>1, <3>2, <3>3
  <2>3. i < k \/ i >= k
    BY <1>1
  <2>4. QED
    BY <2>1, <2>2, <2>3, Zenon
<1>8. QED
  BY <1>5, <1>6, <1>7 DEF s, t, RemoveAt

\* The walk of a path with nothing left to take off its end.
End(p) == Walk(p)[Len(p)]

\* "." cancels, and ".." at the root.
LEMMA OneCancelled ==
    ASSUME NEW S, NEW p \in Seq(S), NEW k \in 1 .. Len(p), p[k] = "." \/ (p[k] = ".." /\ k = 1)
    PROVE  End(RemoveAt(p, k)) = End(p)
<1> DEFINE q == RemoveAt(p, k)
<1>1. Len(p) \in Nat /\ k \in Nat
  BY LenProperties
<1>2. /\ q \in Seq(S) /\ Len(q) = Len(p) - 1
      /\ \A i \in 1 .. Len(p) - 1 : q[i] = IF i < k THEN p[i] ELSE p[i + 1]
  BY RemovedIs
<1>3. IsWalk(Walk(p), p, Len(p)) /\ IsWalk(Walk(q), q, Len(q))
  BY <1>2, WalkIs
<1> HIDE DEF q
<1>4. Walk(p)[k] = Walk(p)[k - 1]
  <2>1. Walk(p)[k] = Enter(Walk(p)[k - 1], p[k]) /\ (k = 1 => Walk(p)[k - 1] = <<>>)
    BY <1>1, <1>3 DEF IsWalk
  <2>2. QED
    BY <2>1 DEF Enter
<1>5. Walk(q)[k - 1] = Walk(p)[k - 1]
  <2>1. \A m \in 1 .. k - 1 : q[m] = p[m]
    BY <1>1, <1>2
  <2>2. k - 1 \in Nat /\ k - 1 <= Len(p) /\ k - 1 <= Len(q)
    BY <1>1, <1>2
  <2>3. QED
    BY <1>2, <2>1, <2>2, SamePrefix
<1>6. Walk(p)[Len(p)] = Walk(q)[Len(q)]
  <2>1. \A m \in 1 .. Len(p) - k : p[k + m] = q[(k - 1) + m]
    <3> SUFFICES ASSUME NEW m \in 1 .. Len(p) - k PROVE q[(k - 1) + m] = p[k + m]
      OBVIOUS
    <3>1. (k - 1) + m \in 1 .. Len(p) - 1 /\ ~((k - 1) + m < k) /\ ((k - 1) + m) + 1 = k + m
      BY <1>1
    <3>2. QED
      BY <1>2, <3>1
  <2>2. k \in 0 .. Len(p) /\ k - 1 \in 0 .. Len(q) /\ Len(p) - k = Len(q) - (k - 1)
    BY <1>1, <1>2
  <2>3. GoAlike(p, k, Len(p), q, k - 1, Len(q))
    BY <1>1, <1>2, <1>4, <1>5, <2>1, <2>2 DEF GoAlike
  <2>4. QED
    BY <1>2, <2>3, WalkAlike
<1>7. QED
  BY <1>6 DEF End, q

LEMMA FrontOfAppend ==
    ASSUME NEW S, NEW s \in Seq(S), NEW e \in S
    PROVE  Append(s, e) # <<>> /\ Front(Append(s, e)) = s
<1>1. Len(s) \in Nat
  BY LenProperties
<1>2. /\ Append(s, e) \in Seq(S) /\ Append(s, e) # <<>>
      /\ Len(Append(s, e)) = Len(s) + 1
      /\ \A i \in 1 .. Len(s) : Append(s, e)[i] = s[i]
  BY AppendProperties
<1>3. \A i \in 1 .. Len(s) : Append(s, e)[i] \in S
  BY <1>2, ElementOfSeq
<1>4. /\ SubSeq(Append(s, e), 1, Len(s)) \in Seq(S)
      /\ Len(SubSeq(Append(s, e), 1, Len(s))) = Len(s)
      /\ \A i \in 1 .. Len(s) : SubSeq(Append(s, e), 1, Len(s))[i] = Append(s, e)[i]
  BY <1>1, <1>3, SubSeqProperties
<1>5. SubSeq(Append(s, e), 1, Len(s)) = s
  BY <1>2, <1>4, SeqEqual
<1>6. QED
  BY <1>1, <1>2, <1>5 DEF Front

\* A component and the parent reference after it cancel.
LEMMA TwoCancelled ==
    ASSUME NEW S, NEW p \in Seq(S), NEW k \in 1 .. Len(p),
           k < Len(p), p[k] \notin {".", ".."}, p[k + 1] = ".."
    PROVE  /\ RemoveAt(RemoveAt(p, k), k) \in Seq(S)
           /\ Len(RemoveAt(RemoveAt(p, k), k)) = Len(p) - 2
           /\ End(RemoveAt(RemoveAt(p, k), k)) = End(p)
<1> DEFINE r == RemoveAt(p, k)
           q == RemoveAt(r, k)
<1>1. Len(p) \in Nat /\ k \in Nat
  BY LenProperties
<1>2. /\ r \in Seq(S) /\ Len(r) = Len(p) - 1
      /\ \A i \in 1 .. Len(p) - 1 : r[i] = IF i < k THEN p[i] ELSE p[i + 1]
  BY RemovedIs
<1>3. /\ q \in Seq(S) /\ Len(q) = Len(p) - 2
      /\ \A i \in 1 .. Len(p) - 2 : q[i] = IF i < k THEN p[i] ELSE p[i + 2]
  <2> HIDE DEF r
  <2>1. k \in 1 .. Len(r)
    BY <1>1, <1>2
  <2>2. /\ q \in Seq(S) /\ Len(q) = Len(r) - 1
        /\ \A i \in 1 .. Len(r) - 1 : q[i] = IF i < k THEN r[i] ELSE r[i + 1]
    BY <1>2, <2>1, RemovedIs
  <2>3. Len(r) - 1 = Len(p) - 2
    BY <1>1, <1>2
  <2>4. ASSUME NEW i \in 1 .. Len(p) - 2 PROVE q[i] = IF i < k THEN p[i] ELSE p[i + 2]
    <3>1. i \in 1 .. Len(p) - 1 /\ i + 1 \in 1 .. Len(p) - 1 /\ (i + 1) + 1 = i + 2 /\ (~(i < k) => ~(i + 1 < k))
      BY <1>1
    <3>2. QED
      BY <1>2, <2>2, <2>3, <3>1
  <2>5. QED
    BY <2>2, <2>3, <2>4
<1>4. IsWalk(Walk(p), p, Len(p)) /\ IsWalk(Walk(q), q, Len(q))
  BY <1>3, WalkIs
<1> HIDE DEF q
<1>5. Walk(p)[k + 1] = Walk(p)[k - 1]
  <2>1. k \in 1 .. Len(p) /\ k + 1 \in 1 .. Len(p) /\ (k + 1) - 1 = k /\ k - 1 \in 0 .. Len(p)
    BY <1>1
  <2>2. /\ Walk(p)[k] = Enter(Walk(p)[k - 1], p[k])
        /\ Walk(p)[k + 1] = Enter(Walk(p)[k], p[k + 1])
    BY <1>4, <2>1 DEF IsWalk
  <2>3. Walk(p)[k - 1] \in Seq(S) /\ p[k] \in S
    BY <2>1, WalkStays, ElementOfSeq
  <2>4. Walk(p)[k] = Append(Walk(p)[k - 1], p[k])
    BY <2>2 DEF Enter
  <2>5. QED
    BY <2>2, <2>3, <2>4, FrontOfAppend DEF Enter
<1>6. Walk(q)[k - 1] = Walk(p)[k - 1]
  <2>1. \A m \in 1 .. k - 1 : q[m] = p[m]
    BY <1>1, <1>3
  <2>2. k - 1 \in Nat /\ k - 1 <= Len(p) /\ k - 1 <= Len(q)
    BY <1>1, <1>3
  <2>3. QED
    BY <1>3, <2>1, <2>2, SamePrefix
<1>7. Walk(p)[Len(p)] = Walk(q)[Len(q)]
  <2>1. \A m \in 1 .. Len(p) - (k + 1) : p[(k + 1) + m] = q[(k - 1) + m]
    <3> SUFFICES ASSUME NEW m \in 1 .. Len(p) - (k + 1) PROVE q[(k - 1) + m] = p[(k + 1) + m]
      OBVIOUS
    <3>1. (k - 1) + m \in 1 .. Len(p) - 2 /\ ~((k - 1) + m < k) /\ ((k - 1) + m) + 2 = (k + 1) + m
      BY <1>1
    <3>2. QED
      BY <1>3, <3>1
  <2>2. k + 1 \in 0 .. Len(p) /\ k - 1 \in 0 .. Len(q) /\ Len(p) - (k + 1) = Len(q) - (k - 1)
    BY <1>1, <1>3
  <2>3. GoAlike(p, k + 1, Len(p), q, k - 1, Len(q))
    BY <1>1, <1>3, <1>5, <1>6, <2>1, <2>2 DEF GoAlike
  <2>4. QED
    BY <1>3, <2>3, WalkAlike
<1>8. End(q) = End(p)
  BY <1>7 DEF End
<1>9. QED
  BY <1>3, <1>8 DEF q, r

\* Cancelling shortens a path and does not change where it ends.
LEMMA CancelledAlike ==
    ASSUME NEW S, NEW p \in Seq(S), NEW q \in Shorter(p)
    PROVE  q \in Seq(S) /\ Len(q) < Len(p) /\ End(q) = End(p)
<1>1. Len(p) \in Nat /\ DOMAIN p = 1 .. Len(p)
  BY LenProperties
<1>2. CASE \E k \in DOMAIN p : q = RemoveAt(p, k) /\ (p[k] = "." \/ (p[k] = ".." /\ k = 1))
  BY <1>1, <1>2, RemovedIs, OneCancelled
<1>3. CASE \E k \in DOMAIN p : /\ q = RemoveAt(RemoveAt(p, k), k)
                               /\ k < Len(p) /\ p[k] \notin {".", ".."} /\ p[k + 1] = ".."
  BY <1>1, <1>3, TwoCancelled
<1>4. QED
  BY <1>2, <1>3 DEF Shorter

\* A path with nothing left to cancel has neither "." nor "..", and ends where
\* it says.
LEMMA NothingToCancel ==
    ASSUME NEW S, NEW p \in Seq(S), Shorter(p) = {}
    PROVE  End(p) = p
<1>1. Len(p) \in Nat /\ DOMAIN p = 1 .. Len(p)
  BY LenProperties
<1>2. ASSUME NEW k \in 1 .. Len(p), p[k] = "." \/ (p[k] = ".." /\ k = 1) PROVE FALSE
  <2>1. RemoveAt(p, k) \in Shorter(p)
    BY <1>1, <1>2 DEF Shorter
  <2>2. QED
    BY <2>1
<1>3. ASSUME NEW k \in 1 .. Len(p), k < Len(p), p[k] \notin {".", ".."}, p[k + 1] = ".." PROVE FALSE
  <2>1. RemoveAt(RemoveAt(p, k), k) \in Shorter(p)
    BY <1>1, <1>3 DEF Shorter
  <2>2. QED
    BY <2>1
<1>4. \A k \in 1 .. Len(p) : p[k] \notin {".", ".."}
  <2> DEFINE Up == {k \in Nat : k \in 1 .. Len(p) /\ p[k] = ".."}
  <2>1. SUFFICES ASSUME Up # {} PROVE FALSE
    BY <1>1, <1>2
  <2>2. PICK k \in Up : \A l \in Up : k <= l
    <3>1. Up \in SUBSET Nat
      OBVIOUS
    <3> HIDE DEF Up
    <3>2. QED
      BY <2>1, <3>1, LeastExists
  <2>3. k \in 1 .. Len(p) /\ p[k] = ".." /\ k # 1
    BY <1>2, <2>2
  <2>4. k - 1 \in 1 .. Len(p) /\ k - 1 < Len(p) /\ (k - 1) + 1 = k /\ ~(k <= k - 1) /\ k - 1 \in Nat
    BY <1>1, <2>3
  <2>5. p[k - 1] # ".."
    BY <2>2, <2>4
  <2>6. p[k - 1] # "."
    BY <1>2, <2>4
  <2> DEFINE j == k - 1
  <2>7. j \in 1 .. Len(p) /\ j < Len(p) /\ p[j] \notin {".", ".."} /\ p[j + 1] = ".."
    BY <2>3, <2>4, <2>5, <2>6
  <2> HIDE DEF j
  <2>8. QED
    BY <1>3, <2>7
<1> DEFINE Off == {k \in Nat : k <= Len(p) /\ Walk(p)[k] # SubSeq(p, 1, k)}
<1>5. Off = {}
  <2> SUFFICES ASSUME Off # {} PROVE FALSE
    OBVIOUS
  <2>1. PICK k \in Off : \A l \in Off : k <= l
    <3>1. Off \in SUBSET Nat
      OBVIOUS
    <3> HIDE DEF Off
    <3>2. QED
      BY <3>1, LeastExists
  <2>2. IsWalk(Walk(p), p, Len(p))
    BY WalkIs
  <2>3. k \in Nat /\ k <= Len(p) /\ Walk(p)[k] # SubSeq(p, 1, k)
    BY <2>1
  <2>4. k # 0
    <3>1. SubSeq(p, 1, 0) = <<>>
      BY SubSeqEmpty
    <3>2. QED
      BY <2>2, <2>3, <3>1 DEF IsWalk
  <2>5. k \in 1 .. Len(p) /\ k - 1 \in Nat /\ k - 1 <= Len(p) /\ ~(k <= k - 1)
    BY <1>1, <2>3, <2>4
  <2>6. Walk(p)[k - 1] = SubSeq(p, 1, k - 1)
    BY <2>1, <2>5
  <2>7. Walk(p)[k] = Append(Walk(p)[k - 1], p[k])
    BY <1>4, <2>2, <2>5 DEF IsWalk, Enter
  <2>8. SubSeq(p, 1, k) = Append(SubSeq(p, 1, k - 1), p[k])
    <3>1. 1 \in 1 .. Len(p) /\ k \in 1 .. Len(p)
      BY <1>1, <2>5
    <3>2. SubSeq(p, 1, k) = SubSeq(p, 1, k - 1) \o <<p[k]>>
      BY <3>1, SubSeqRecursiveSecond
    <3>3. SubSeq(p, 1, k - 1) \in Seq(S) /\ p[k] \in S
      <4>1. \A i \in 1 .. k - 1 : p[i] \in S
        BY <1>1, <2>5, ElementOfSeq
      <4>2. QED
        BY <2>5, <4>1, SubSeqProperties, ElementOfSeq
    <3>4. QED
      BY <3>2, <3>3, AppendIsConcat
  <2>9. QED
    BY <2>3, <2>6, <2>7, <2>8
<1>6. Walk(p)[Len(p)] = SubSeq(p, 1, Len(p))
  BY <1>1, <1>5
<1>7. QED
  BY <1>6, SubSeqFull DEF End

-----------------------------------------------------------------------------
(* The reference agrees *)

Somewhere(f) ==
    [p \in Seq(STRING) |-> IF Shorter(p) = {} THEN {p} ELSE UNION {f[q] : q \in Shorter(p)}]

\* The normal form solves the equation of Leads, and nothing else does.
LEMMA LeadsIsNormal == \A p \in Seq(STRING) : Leads[p] = {End(p)}
<1>1. Leads = CHOOSE f : f = Somewhere(f)
  BY DEF Leads, Somewhere
<1>2. ASSUME NEW f, NEW p \in Seq(STRING), \A q \in Shorter(p) : f[q] = {End(q)}
      PROVE  Somewhere(f)[p] = {End(p)}
  <2>1. CASE Shorter(p) = {}
    BY <2>1, NothingToCancel DEF Somewhere
  <2>2. CASE Shorter(p) # {}
    <3>1. \A q \in Shorter(p) : f[q] = {End(p)}
      BY <1>2, CancelledAlike
    <3>2. Somewhere(f)[p] = UNION {f[q] : q \in Shorter(p)}
      BY <2>2 DEF Somewhere
    <3>3. QED
      BY <2>2, <3>1, <3>2
  <2>3. QED
    BY <2>1, <2>2
<1>3. Leads = Somewhere(Leads)
  <2> DEFINE f == [p \in Seq(STRING) |-> {End(p)}]
  <2>1. ASSUME NEW p \in Seq(STRING) PROVE Somewhere(f)[p] = {End(p)}
    <3>1. \A q \in Shorter(p) : f[q] = {End(q)}
      BY CancelledAlike
    <3> HIDE DEF f
    <3>2. QED
      BY <1>2, <3>1
  <2>2. f = Somewhere(f)
    BY <2>1 DEF Somewhere
  <2> HIDE DEF f
  <2>3. QED
    BY <1>1, <2>2
<1> DEFINE Bad(n) == \E p \in Seq(STRING) : Len(p) = n /\ Leads[p] # {End(p)}
           Lengths == {n \in Nat : Bad(n)}
<1>4. SUFFICES ASSUME Lengths # {} PROVE FALSE
  <2>1. ASSUME NEW p \in Seq(STRING), Leads[p] # {End(p)} PROVE Len(p) \in Lengths
    BY <2>1, LenProperties
  <2>2. QED
    BY <2>1
<1>5. PICK n \in Lengths : \A m \in Lengths : n <= m
  <2>1. Lengths \in SUBSET Nat
    OBVIOUS
  <2> HIDE DEF Lengths
  <2>2. QED
    BY <1>4, <2>1, LeastExists
<1>6. PICK p \in Seq(STRING) : Len(p) = n /\ Leads[p] # {End(p)}
  BY <1>5
<1>7. ASSUME NEW q \in Shorter(p) PROVE Leads[q] = {End(q)}
  <2>1. q \in Seq(STRING) /\ Len(q) < Len(p) /\ Len(q) \in Nat
    BY CancelledAlike, LenProperties
  <2>2. Len(q) \notin Lengths
    <3>1. ~(n <= Len(q))
      BY <1>5, <1>6, <2>1
    <3> HIDE DEF Lengths
    <3>2. QED
      BY <1>5, <3>1
  <2>3. QED
    BY <2>1, <2>2
<1>8. QED
  BY <1>2, <1>3, <1>6, <1>7

LEMMA EndStays == ASSUME NEW S, NEW p \in Seq(S) PROVE End(p) \in Seq(S)
<1>1. Len(p) \in 0 .. Len(p)
  BY LenProperties
<1>2. QED
  BY <1>1, WalkStays DEF End

\* BindMountPolicy::is_allowed is containment, but for an entry for the root.
LEMMA BindsAgree ==
    ASSUME NEW p, NEW s, IsPath(s), \A e \in p.binds : IsPath(e) /\ <<>> \notin Leads[e.comps]
    PROVE  BindAllowed(p, s) <=> \E e \in p.binds : Under(s, e)
<1> DEFINE place == End(s.comps)
<1>1. place \in Seq(STRING) /\ Leads[s.comps] = {place} /\ NormalPath(s) = place
  BY LeadsIsNormal, EndStays DEF IsPath, NormalPath, End
<1>2. s.comps = <<>> => place = <<>>
  <2> SUFFICES ASSUME s.comps = <<>> PROVE place = <<>>
    OBVIOUS
  <2>1. IsWalk(Walk(<<>>), <<>>, Len(<<>>)) /\ Len(<<>>) = 0
    BY WalkIs, EmptySeq
  <2>2. QED
    BY <2>1 DEF IsWalk, End
<1> HIDE DEF place
<1>3. ASSUME NEW e \in p.binds
      PROVE  /\ \/ NormalPath(s) = NormalPath(e)
                \/ NormalPath(e) # <<>> /\ IsStrictPrefix(NormalPath(e), NormalPath(s))
             <=> Under(s, e)
  <2> DEFINE top == End(e.comps)
  <2>1. top \in Seq(STRING) /\ Leads[e.comps] = {top} /\ NormalPath(e) = top /\ top # <<>>
    BY LeadsIsNormal, EndStays DEF IsPath, NormalPath, End
  <2> HIDE DEF top
  <2>2. Under(s, e) <=> Len(top) <= Len(place) /\ top = SubSeq(place, 1, Len(top))
    BY <1>1, <2>1 DEF Under
  <2>3. SubSeq(top, 1, Len(top)) = top /\ Len(top) \in Nat /\ Len(place) \in Nat
    BY <1>1, <2>1, SubSeqFull, LenProperties
  <2>4. place = top => Len(top) <= Len(place) /\ top = SubSeq(place, 1, Len(top))
    BY <2>3
  <2>5. QED
    BY <1>1, <2>1, <2>2, <2>3, <2>4 DEF IsStrictPrefix, IsPrefix
<1>4. ASSUME NEW e \in p.binds, Under(s, e) PROVE place # <<>>
  <2> DEFINE top == End(e.comps)
  <2>1. top \in Seq(STRING) /\ Leads[e.comps] = {top} /\ top # <<>>
    BY LeadsIsNormal, EndStays DEF IsPath
  <2> HIDE DEF top
  <2>2. Len(top) <= Len(place)
    BY <1>1, <1>4, <2>1 DEF Under
  <2>3. Len(top) \in Nat \ {0} /\ Len(<<>>) = 0
    BY <2>1, EmptySeq
  <2>4. QED
    BY <2>2, <2>3
<1>5. QED
  BY <1>2, <1>3, <1>4 DEF BindAllowed

-----------------------------------------------------------------------------
(* Images *)

ImageParts == STRING \cup {"docker.io", "library"}

\* A normal form is the meaning, written out.
LEMMA NormalIsMeaning ==
    ASSUME NEW i, IsImage(i)
    PROVE  LET m == Meaning(i) IN
           /\ m.repository \in Seq(ImageParts) /\ m.registry \in ImageParts
           /\ NormalImage(i) = [parts |-> <<m.registry>> \o m.repository, tag |-> m.version[1], digest |-> m.version[2]]
           /\ m = [registry |-> m.registry, repository |-> m.repository, version |-> <<m.version[1], m.version[2]>>]
<1> DEFINE m == Meaning(i)
           parts == i.parts
           normal == IF Len(parts) = 1 THEN <<"docker.io", "library">> \o parts
                     ELSE IF Len(parts) = 2 /\ Head(parts) \notin Registries THEN <<"docker.io">> \o parts
                     ELSE parts
           tag == IF i.tag = Nothing /\ i.digest = Nothing THEN "latest" ELSE i.tag
<1>1. parts \in Seq(ImageParts) /\ parts # <<>> /\ Len(parts) \in Nat \ {0} /\ Head(parts) = parts[1]
  BY SeqMonotonic, EmptySeq DEF IsImage, ImageParts
<1>2. NormalImage(i) = [parts |-> normal, tag |-> tag, digest |-> i.digest]
  BY DEF NormalImage
<1>3. "docker.io" \in ImageParts /\ "library" \in ImageParts
  BY DEF ImageParts
<1>4. /\ parts[1] \in ImageParts /\ Tail(parts) \in Seq(ImageParts)
      /\ <<parts[1]>> \o Tail(parts) = parts
  <2>1. Len(parts) \in Nat /\ 1 \in 1 .. Len(parts) /\ Len(parts) \in 1 .. Len(parts)
    BY <1>1
  <2>2. SubSeq(parts, 1, Len(parts)) = <<parts[1]>> \o SubSeq(parts, 1 + 1, Len(parts))
    BY <1>1, <2>1, SubSeqRecursiveFirst
  <2>3. Tail(parts) = SubSeq(parts, 2, Len(parts)) /\ SubSeq(parts, 1, Len(parts)) = parts
    BY <1>1, TailIsSubSeq, SubSeqFull
  <2>4. 1 + 1 = 2
    OBVIOUS
  <2>5. parts[1] \in ImageParts /\ Tail(parts) \in Seq(ImageParts)
    BY <1>1, <2>1, ElementOfSeq, HeadTailProperties
  <2>6. QED
    BY <2>2, <2>3, <2>4, <2>5
<1>5. <<"docker.io">> \o (<<"library">> \o parts) = <<"docker.io", "library">> \o parts
  <2> DEFINE d == <<"docker.io">>
             l == <<"library">>
             both == <<"docker.io", "library">>
  <2>1. d \in Seq(ImageParts) /\ l \in Seq(ImageParts) /\ both \in Seq(ImageParts)
    BY <1>3
  <2>2. d \o l \in Seq(ImageParts) /\ Len(d \o l) = 2 /\ (d \o l)[1] = "docker.io" /\ (d \o l)[2] = "library"
    BY <2>1, ConcatProperties
  <2>3. d \o l = both
    <3>1. \A k \in 1 .. 2 : (d \o l)[k] = both[k]
      BY <2>2
    <3>2. Len(both) = 2
      OBVIOUS
    <3> HIDE DEF d, l, both
    <3>3. QED
      BY <2>1, <2>2, <3>1, <3>2, SeqEqual
  <2>4. (d \o l) \o parts = d \o (l \o parts)
    BY <1>1, <2>1, ConcatAssociative
  <2>5. QED
    BY <2>3, <2>4
<1>6. <<"library">> \o parts \in Seq(ImageParts)
  BY <1>1, <1>3, PrependProperties
<1> HIDE DEF parts
<1>7. /\ m.registry = IF Len(parts) > 1 /\ (Len(parts) > 2 \/ parts[1] \in Registries) THEN parts[1] ELSE "docker.io"
      /\ m.repository = IF Len(parts) = 1 THEN <<"library">> \o parts
                        ELSE IF Len(parts) > 2 \/ parts[1] \in Registries THEN Tail(parts) ELSE parts
      /\ m.version = IF i.digest # Nothing THEN <<i.tag, i.digest>>
                     ELSE IF i.tag = Nothing THEN <<"latest", Nothing>> ELSE <<i.tag, Nothing>>
      /\ m = [registry |-> m.registry, repository |-> m.repository, version |-> m.version]
  BY DEF Meaning, parts
<1>8. m.version = <<tag, i.digest>> /\ m.version[1] = tag /\ m.version[2] = i.digest
  BY <1>7
<1>9. /\ m.repository \in Seq(ImageParts) /\ m.registry \in ImageParts
      /\ <<m.registry>> \o m.repository = normal
  <2>1. CASE Len(parts) = 1
    BY <1>3, <1>5, <1>6, <1>7, <2>1
  <2>2. CASE Len(parts) # 1 /\ (Len(parts) > 2 \/ parts[1] \in Registries)
    BY <1>1, <1>4, <1>7, <2>2
  <2>3. CASE Len(parts) # 1 /\ ~(Len(parts) > 2 \/ parts[1] \in Registries)
    BY <1>1, <1>3, <1>7, <2>3
  <2>4. QED
    BY <2>1, <2>2, <2>3
<1> HIDE DEF m, normal, tag
<1>10. QED
  BY <1>2, <1>7, <1>8, <1>9 DEF m

LEMMA ImagesAgree ==
    ASSUME NEW i, NEW j, IsImage(i), IsImage(j)
    PROVE  NormalImage(i) = NormalImage(j) <=> Meaning(i) = Meaning(j)
<1> DEFINE m == Meaning(i)
           n == Meaning(j)
<1>1. /\ m.repository \in Seq(ImageParts) /\ m.registry \in ImageParts
      /\ NormalImage(i) = [parts |-> <<m.registry>> \o m.repository, tag |-> m.version[1], digest |-> m.version[2]]
      /\ m = [registry |-> m.registry, repository |-> m.repository, version |-> <<m.version[1], m.version[2]>>]
  BY NormalIsMeaning
<1>2. /\ n.repository \in Seq(ImageParts) /\ n.registry \in ImageParts
      /\ NormalImage(j) = [parts |-> <<n.registry>> \o n.repository, tag |-> n.version[1], digest |-> n.version[2]]
      /\ n = [registry |-> n.registry, repository |-> n.repository, version |-> <<n.version[1], n.version[2]>>]
  BY NormalIsMeaning
<1> HIDE DEF m, n
<1>3. <<m.registry>> \o m.repository = <<n.registry>> \o n.repository
      => m.registry = n.registry /\ m.repository = n.repository
  <2>1. Head(<<m.registry>> \o m.repository) = m.registry /\ Tail(<<m.registry>> \o m.repository) = m.repository
    BY <1>1, PrependProperties
  <2>2. Head(<<n.registry>> \o n.repository) = n.registry /\ Tail(<<n.registry>> \o n.repository) = n.repository
    BY <1>2, PrependProperties
  <2>3. QED
    BY <2>1, <2>2
<1>4. NormalImage(i) = NormalImage(j) =>
          /\ <<m.registry>> \o m.repository = <<n.registry>> \o n.repository
          /\ m.version[1] = n.version[1] /\ m.version[2] = n.version[2]
  BY <1>1, <1>2
<1>5. NormalImage(i) = NormalImage(j) => m = n
  BY <1>1, <1>2, <1>3, <1>4
<1>6. m = n => NormalImage(i) = NormalImage(j)
  BY <1>1, <1>2
<1>7. QED
  BY <1>5, <1>6 DEF m, n

LEMMA ListsAgree ==
    ASSUME NEW list, NEW i, IsImage(i), \A e \in list : IsImage(e)
    PROVE  Lists(list, i) <=> Means(list, i)
BY ImagesAgree DEF Lists, Means

-----------------------------------------------------------------------------
(* The order of the rules *)

LEMMA MinIs ==
    ASSUME NEW I \in SUBSET Nat, NEW n \in I, \A j \in I : n <= j
    PROVE  Min(I) = n
<1>1. \A m \in I : (\A j \in I : m <= j) => m = n
  OBVIOUS
<1>2. QED
  BY <1>1 DEF Min

FirstToFail(p, r) ==
    IF r.privileged THEN "privileged"
    ELSE IF r.modes \cap HostModes # {} THEN "host namespace"
    ELSE IF r.devices # {} THEN "device mount"
    ELSE IF r.caps # {} THEN "cap add"
    ELSE IF UnlistedSource(p, r) THEN "bind mount"
    ELSE ImageVerdict(p, r.image)

\* SelectInSeq finds the first check that fails.
LEMMA FirstCheck ==
    ASSUME NEW p, NEW r, r.privileged \in BOOLEAN
    PROVE  CreateVerdict(p, r) = FirstToFail(p, r)
<1> DEFINE checks == Checks(p, r)
           I == {i \in 1 .. Len(checks) : checks[i].fails}
<1>1. /\ Len(checks) = 5
      /\ checks[1].rule = "privileged" /\ (checks[1].fails <=> r.privileged)
      /\ checks[2].rule = "host namespace" /\ (checks[2].fails <=> r.modes \cap HostModes # {})
      /\ checks[3].rule = "device mount" /\ (checks[3].fails <=> r.devices # {})
      /\ checks[4].rule = "cap add" /\ (checks[4].fails <=> r.caps # {})
      /\ checks[5].rule = "bind mount" /\ (checks[5].fails <=> UnlistedSource(p, r))
  BY DEF Checks, UnlistedSource
<1>2. CreateVerdict(p, r) = LET first == IF I = {} THEN 0 ELSE Min(I)
                            IN  IF first # 0 THEN checks[first].rule ELSE ImageVerdict(p, r.image)
  BY DEF CreateVerdict, SelectInSeq
<1> HIDE DEF checks
<1>3. /\ I \in SUBSET Nat
      /\ 1 \in I <=> r.privileged
      /\ 2 \in I <=> r.modes \cap HostModes # {}
      /\ 3 \in I <=> r.devices # {}
      /\ 4 \in I <=> r.caps # {}
      /\ 5 \in I <=> UnlistedSource(p, r)
      /\ \A i \in I : i = 1 \/ i = 2 \/ i = 3 \/ i = 4 \/ i = 5
  <2>1. I = {i \in 1 .. 5 : checks[i].fails}
    BY <1>1, Zenon
  <2>2. /\ I \in SUBSET Nat
        /\ \A i \in I : i = 1 \/ i = 2 \/ i = 3 \/ i = 4 \/ i = 5
    BY <2>1
  <2>3. /\ 1 \in 1 .. 5 /\ 2 \in 1 .. 5 /\ 3 \in 1 .. 5 /\ 4 \in 1 .. 5 /\ 5 \in 1 .. 5
    OBVIOUS
  <2>4. \A i \in 1 .. 5 : i \in I <=> checks[i].fails
    BY <2>1, Zenon
  <2>5. QED
    BY <1>1, <2>2, <2>3, <2>4, Zenon
<1>4. /\ I = {} => CreateVerdict(p, r) = ImageVerdict(p, r.image)
      /\ \A n \in I : Min(I) = n /\ n # 0 => CreateVerdict(p, r) = checks[n].rule
  <2> HIDE DEF I
  <2>1. QED
    BY <1>2
<1> HIDE DEF I
<1>5. CASE 1 \in I
  <2>1. Min(I) = 1 /\ 1 # 0
    BY <1>3, <1>5, MinIs
  <2>2. CreateVerdict(p, r) = checks[1].rule
    BY <1>4, <1>5, <2>1
  <2>3. QED
    BY <1>1, <1>3, <1>5, <2>2 DEF FirstToFail
<1>6. CASE 1 \notin I /\ 2 \in I
  <2>1. Min(I) = 2 /\ 2 # 0
    BY <1>3, <1>6, MinIs
  <2>2. CreateVerdict(p, r) = checks[2].rule
    BY <1>4, <1>6, <2>1
  <2>3. QED
    BY <1>1, <1>3, <1>6, <2>2 DEF FirstToFail
<1>7. CASE 1 \notin I /\ 2 \notin I /\ 3 \in I
  <2>1. Min(I) = 3 /\ 3 # 0
    BY <1>3, <1>7, MinIs
  <2>2. CreateVerdict(p, r) = checks[3].rule
    BY <1>4, <1>7, <2>1
  <2>3. QED
    BY <1>1, <1>3, <1>7, <2>2 DEF FirstToFail
<1>8. CASE 1 \notin I /\ 2 \notin I /\ 3 \notin I /\ 4 \in I
  <2>1. Min(I) = 4 /\ 4 # 0
    BY <1>3, <1>8, MinIs
  <2>2. CreateVerdict(p, r) = checks[4].rule
    BY <1>4, <1>8, <2>1
  <2>3. QED
    BY <1>1, <1>3, <1>8, <2>2 DEF FirstToFail
<1>9. CASE 1 \notin I /\ 2 \notin I /\ 3 \notin I /\ 4 \notin I /\ 5 \in I
  <2>1. Min(I) = 5 /\ 5 # 0
    BY <1>3, <1>9, MinIs
  <2>2. CreateVerdict(p, r) = checks[5].rule
    BY <1>4, <1>9, <2>1
  <2>3. QED
    BY <1>1, <1>3, <1>9, <2>2 DEF FirstToFail
<1>10. CASE 1 \notin I /\ 2 \notin I /\ 3 \notin I /\ 4 \notin I /\ 5 \notin I
  <2>1. I = {}
    BY <1>3, <1>10
  <2>2. QED
    BY <1>3, <1>4, <1>10, <2>1 DEF FirstToFail
<1>11. QED
  BY <1>5, <1>6, <1>7, <1>8, <1>9, <1>10

LEMMA OrderIs ==
    /\ DOMAIN DocumentedOrder = 1 .. 8
    /\ DocumentedOrder[1] = "parse error" /\ DocumentedOrder[2] = "privileged"
    /\ DocumentedOrder[3] = "host namespace" /\ DocumentedOrder[4] = "device mount"
    /\ DocumentedOrder[5] = "cap add" /\ DocumentedOrder[6] = "bind mount"
    /\ DocumentedOrder[7] = "image denylist" /\ DocumentedOrder[8] = "image allowlist"
BY DEF DocumentedOrder

LEMMA EightRules ==
    ASSUME NEW k \in DOMAIN DocumentedOrder
    PROVE  k = 1 \/ k = 2 \/ k = 3 \/ k = 4 \/ k = 5 \/ k = 6 \/ k = 7 \/ k = 8
<1>1. k \in 1 .. 8
  BY OrderIs, Zenon
<1>2. QED
  BY <1>1

LEMMA RankIs ==
    /\ Rank("privileged") = 2 /\ Rank("host namespace") = 3 /\ Rank("device mount") = 4
    /\ Rank("cap add") = 5 /\ Rank("bind mount") = 6 /\ Rank("image denylist") = 7
    /\ Rank("image allowlist") = 8
<1>1. ASSUME NEW n \in DOMAIN DocumentedOrder PROVE Rank(DocumentedOrder[n]) = n
  <2>1. ASSUME NEW k \in DOMAIN DocumentedOrder, DocumentedOrder[k] = DocumentedOrder[n] PROVE k = n
    BY <2>1, EightRules, OrderIs, Zenon
  <2>2. QED
    BY <2>1 DEF Rank
<1>2. 2 \in 1 .. 8 /\ 3 \in 1 .. 8 /\ 4 \in 1 .. 8 /\ 5 \in 1 .. 8 /\ 6 \in 1 .. 8 /\ 7 \in 1 .. 8 /\ 8 \in 1 .. 8
  OBVIOUS
<1>3. QED
  BY <1>1, <1>2, OrderIs, Zenon

\* What a policy and a create hold.
Given(p, r) ==
    /\ \A e \in p.binds : IsPath(e) /\ <<>> \notin Leads[e.comps]
    /\ \A i \in p.imageAllow \cup p.imageDeny : IsImage(i)
    /\ r.privileged \in BOOLEAN /\ IsImage(r.image)
    /\ Nothing \notin r.binds /\ \A s \in Sources(r) : IsPath(s)

\* Each check fails if its rule is broken.
LEMMA ChecksAgree ==
    ASSUME NEW r, Given(policy, r)
    PROVE  /\ "privileged" \in Broken(r) <=> r.privileged
           /\ "host namespace" \in Broken(r) <=> r.modes \cap HostModes # {}
           /\ "device mount" \in Broken(r) <=> r.devices # {}
           /\ "cap add" \in Broken(r) <=> r.caps # {}
           /\ "bind mount" \in Broken(r) <=> UnlistedSource(policy, r)
           /\ "image denylist" \in Broken(r) <=> Lists(policy.imageDeny, r.image)
           /\ "image allowlist" \in Broken(r) <=>
                  policy.imageAllow # {} /\ ~Lists(policy.imageAllow, r.image)
<1>1. "privileged" \in Broken(r) <=> r.privileged
  BY DEF Broken, Given
<1>2. "host namespace" \in Broken(r) <=> r.modes \cap HostModes # {}
  BY DEF Broken
<1>3. "device mount" \in Broken(r) <=> r.devices # {}
  BY DEF Broken
<1>4. "cap add" \in Broken(r) <=> r.caps # {}
  BY DEF Broken
<1>5. "bind mount" \in Broken(r) <=> UnlistedSource(policy, r)
  <2>1. "bind mount" \in Broken(r) <=>
            \E s \in r.binds \cup r.mounts :
                s = Nothing \/ (s # Nothing /\ ~\E e \in policy.binds : Under(s, e))
    BY DEF Broken
  <2>2. \A s \in Sources(r) : BindAllowed(policy, s) <=> \E e \in policy.binds : Under(s, e)
    BY BindsAgree DEF Given
  <2>3. \A s : s \in Sources(r) <=> s \in r.binds \cup r.mounts /\ s # Nothing
    BY DEF Sources, Given
  <2>4. Nothing \in r.binds \cup r.mounts <=> Nothing \in r.mounts
    BY DEF Given
  <2>5. QED
    BY <2>1, <2>2, <2>3, <2>4 DEF UnlistedSource
<1>6. /\ Lists(policy.imageDeny, r.image) <=> Means(policy.imageDeny, r.image)
      /\ Lists(policy.imageAllow, r.image) <=> Means(policy.imageAllow, r.image)
  BY ListsAgree DEF Given
<1>7. "image denylist" \in Broken(r) <=> Lists(policy.imageDeny, r.image)
  BY <1>6 DEF Broken
<1>8. "image allowlist" \in Broken(r) <=> policy.imageAllow # {} /\ ~Lists(policy.imageAllow, r.image)
  BY <1>6 DEF Broken
<1>9. QED
  BY <1>1, <1>2, <1>3, <1>4, <1>5, <1>7, <1>8

LEMMA FirstIsAnswer ==
    ASSUME NEW r, Given(policy, r)
    PROVE  IF Broken(r) = {} THEN CreateVerdict(policy, r) = "allowed"
           ELSE /\ CreateVerdict(policy, r) \in Broken(r)
                /\ \A rule \in Broken(r) : Rank(CreateVerdict(policy, r)) <= Rank(rule)
<1> DEFINE v == CreateVerdict(policy, r)
           B == Broken(r)
<1>1. v = IF "privileged" \in B THEN "privileged"
          ELSE IF "host namespace" \in B THEN "host namespace"
          ELSE IF "device mount" \in B THEN "device mount"
          ELSE IF "cap add" \in B THEN "cap add"
          ELSE IF "bind mount" \in B THEN "bind mount"
          ELSE IF "image denylist" \in B THEN "image denylist"
          ELSE IF "image allowlist" \in B THEN "image allowlist"
          ELSE "allowed"
  <2>1. r.privileged \in BOOLEAN
    BY DEF Given
  <2>2. v = IF r.privileged THEN "privileged"
            ELSE IF r.modes \cap HostModes # {} THEN "host namespace"
            ELSE IF r.devices # {} THEN "device mount"
            ELSE IF r.caps # {} THEN "cap add"
            ELSE IF UnlistedSource(policy, r) THEN "bind mount"
            ELSE IF Lists(policy.imageDeny, r.image) THEN "image denylist"
            ELSE IF policy.imageAllow # {} /\ ~Lists(policy.imageAllow, r.image) THEN "image allowlist"
            ELSE "allowed"
    <3>1. v = FirstToFail(policy, r)
      BY <2>1, FirstCheck
    <3>2. ImageVerdict(policy, r.image) =
              IF Lists(policy.imageDeny, r.image) THEN "image denylist"
              ELSE IF policy.imageAllow # {} /\ ~Lists(policy.imageAllow, r.image) THEN "image allowlist"
              ELSE "allowed"
      BY DEF ImageVerdict
    <3>3. QED
      BY <3>1, <3>2 DEF FirstToFail
  <2> HIDE DEF v, B
  <2>3. /\ "privileged" \in B <=> r.privileged
        /\ "host namespace" \in B <=> r.modes \cap HostModes # {}
        /\ "device mount" \in B <=> r.devices # {}
        /\ "cap add" \in B <=> r.caps # {}
        /\ "bind mount" \in B <=> UnlistedSource(policy, r)
        /\ "image denylist" \in B <=> Lists(policy.imageDeny, r.image)
        /\ "image allowlist" \in B <=> policy.imageAllow # {} /\ ~Lists(policy.imageAllow, r.image)
    BY ChecksAgree DEF B
  <2>4. QED
    BY <2>2, <2>3
<1>2. \A rule \in B : \/ rule = "privileged" \/ rule = "host namespace" \/ rule = "device mount"
                      \/ rule = "cap add" \/ rule = "bind mount" \/ rule = "image denylist"
                      \/ rule = "image allowlist"
  BY DEF Broken
<1> HIDE DEF v, B
<1>3. CASE B = {}
  BY <1>1, <1>3 DEF v, B
<1>4. CASE B # {}
  <2>1. v \in B
    BY <1>1, <1>2, <1>4
  <2>2. ASSUME NEW rule \in B PROVE Rank(v) <= Rank(rule)
    <3>1. CASE v = "privileged"
      <4>1. Rank(v) = 2
        BY <3>1, RankIs
      <4>2. Rank(rule) = 2 \/ Rank(rule) = 3 \/ Rank(rule) = 4 \/ Rank(rule) = 5 \/ Rank(rule) = 6 \/ Rank(rule) = 7 \/ Rank(rule) = 8
        BY <1>1, <1>2, <3>1, RankIs, Zenon
      <4>3. QED
        BY <4>1, <4>2
    <3>2. CASE v = "host namespace"
      <4>1. Rank(v) = 3
        BY <3>2, RankIs
      <4>2. Rank(rule) = 3 \/ Rank(rule) = 4 \/ Rank(rule) = 5 \/ Rank(rule) = 6 \/ Rank(rule) = 7 \/ Rank(rule) = 8
        BY <1>1, <1>2, <3>2, RankIs, Zenon
      <4>3. QED
        BY <4>1, <4>2
    <3>3. CASE v = "device mount"
      <4>1. Rank(v) = 4
        BY <3>3, RankIs
      <4>2. Rank(rule) = 4 \/ Rank(rule) = 5 \/ Rank(rule) = 6 \/ Rank(rule) = 7 \/ Rank(rule) = 8
        BY <1>1, <1>2, <3>3, RankIs, Zenon
      <4>3. QED
        BY <4>1, <4>2
    <3>4. CASE v = "cap add"
      <4>1. Rank(v) = 5
        BY <3>4, RankIs
      <4>2. Rank(rule) = 5 \/ Rank(rule) = 6 \/ Rank(rule) = 7 \/ Rank(rule) = 8
        BY <1>1, <1>2, <3>4, RankIs, Zenon
      <4>3. QED
        BY <4>1, <4>2
    <3>5. CASE v = "bind mount"
      <4>1. Rank(v) = 6
        BY <3>5, RankIs
      <4>2. Rank(rule) = 6 \/ Rank(rule) = 7 \/ Rank(rule) = 8
        BY <1>1, <1>2, <3>5, RankIs, Zenon
      <4>3. QED
        BY <4>1, <4>2
    <3>6. CASE v = "image denylist"
      <4>1. Rank(v) = 7
        BY <3>6, RankIs
      <4>2. Rank(rule) = 7 \/ Rank(rule) = 8
        BY <1>1, <1>2, <3>6, RankIs, Zenon
      <4>3. QED
        BY <4>1, <4>2
    <3>7. CASE v = "image allowlist"
      <4>1. Rank(v) = 8
        BY <3>7, RankIs
      <4>2. Rank(rule) = 8
        BY <1>1, <1>2, <3>7, RankIs, Zenon
      <4>3. QED
        BY <4>1, <4>2
    <3>8. QED
      BY <1>2, <2>1, <3>1, <3>2, <3>3, <3>4, <3>5, <3>6, <3>7, Zenon
  <2>3. QED
    BY <1>4, <2>1, <2>2 DEF v, B
<1>5. QED
  BY <1>3, <1>4

-----------------------------------------------------------------------------
(* The theorem *)

\* The policy is one that was loaded, and the request one that came.
Handed == policy \in Policies /\ request \in Requests \cup {NoRequest}

LEMMA HandedStays == Spec => []Handed
<1>1. Init => Handed
  BY DEF Init, Handed
<1>2. Handed /\ [Next]_vars => Handed'
  BY DEF Handed, Next, Decide, Respond, Deliver, vars
<1>3. QED
  BY <1>1, <1>2, PTL DEF Spec

\* A create is answered by the first rule it breaks in the documented order, and
\* allowed if it breaks none (evaluate_container_create_inner): for every policy
\* without an entry for the root, every payload and all paths and references.
THEOREM CreateIsJudged == Spec => []FirstBrokenRule
<1>1. ASSUME DecisionInv, Handed PROVE FirstBrokenRule
  <2> SUFFICES ASSUME /\ \A e \in policy.binds : <<>> \notin Leads[e.comps]
                      /\ verdict \in ToSet(DocumentedOrder) \cup {"allowed"}
                      /\ request.method = "POST"
                      /\ Normalized(request.path) = <<"containers", "create">>
                      /\ request.payload # Nothing
               PROVE  IF Broken(request.payload) = {} THEN verdict = "allowed"
                      ELSE /\ verdict \in Broken(request.payload)
                           /\ \A rule \in Broken(request.payload) : Rank(verdict) <= Rank(rule)
    BY DEF FirstBrokenRule
  <2>1. Kind(request.method, Normalized(request.path)) = "create"
    BY DEF Kind
  <2>2. request \in Requests
    BY <1>1 DEF Handed, NoRequest
  <2>3. Given(policy, request.payload)
    <3>1. /\ request.payload.privileged \in BOOLEAN /\ IsImage(request.payload.image)
          /\ Nothing \notin request.payload.binds /\ \A s \in Sources(request.payload) : IsPath(s)
      BY <2>1, <2>2, PayloadsAssumption
    <3>2. (\A e \in policy.binds : IsPath(e)) /\ \A i \in policy.imageAllow \cup policy.imageDeny : IsImage(i)
      BY <1>1, PoliciesAssumption DEF Handed
    <3>3. QED
      BY <3>1, <3>2 DEF Given
  <2>4. verdict \in Rules \cup {"allowed"}
    <3>1. ToSet(DocumentedOrder) \subseteq Rules
      <4>1. ASSUME NEW k \in DOMAIN DocumentedOrder PROVE DocumentedOrder[k] \in Rules
        BY EightRules, OrderIs, Zenon DEF Rules
      <4>2. QED
        BY <4>1 DEF ToSet
    <3>2. QED
      BY <3>1
  <2>5. verdict = Decision(request) /\ verdict \notin {"session required", "unsupported", "container denied"}
    BY <1>1, <2>4 DEF DecisionInv, Rules
  <2>6. verdict = Verdict(policy, [kind |-> "create", payload |-> request.payload])
    BY <2>1, <2>5 DEF Decision
  <2>7. verdict = CreateVerdict(policy, request.payload)
    BY <2>6 DEF Verdict
  <2>8. QED
    BY <2>3, <2>7, FirstIsAnswer
<1>2. QED
  BY <1>1, DecisionsStand, HandedStays, PTL
=============================================================================
