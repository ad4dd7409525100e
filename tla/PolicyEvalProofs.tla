-------------------------- MODULE PolicyEvalProofs --------------------------
(***************************************************************************)
(* The handler's decisions, for every policy, backend, method and path:    *)
(* versions, the endpoint table and the container listing.                 *)
(***************************************************************************)
EXTENDS PolicyEval, SequenceTheorems, TLAPS

\* Paths are sequences of segments; the proofs use nothing of strings but that
\* two different ones are different.
Segments == STRING

Paths == Seq(Segments)

LEMMA VersionsAreSegments == Versions \subseteq Segments
BY RoutesAssumption DEF Segments

\* A request as the process may see it.
IsRequest(r) ==
    /\ r = [method |-> r.method, path |-> r.path, session |-> r.session, payload |-> r.payload]
    /\ r.path \in Paths

-----------------------------------------------------------------------------
(* A version in front of a path *)

LEMMA PrependProperties ==
    ASSUME NEW S, NEW v \in S, NEW p \in Seq(S)
    PROVE  /\ <<v>> \o p \in Seq(S) /\ <<v>> \o p # <<>>
           /\ Len(<<v>> \o p) = Len(p) + 1
           /\ Head(<<v>> \o p) = v
           /\ Tail(<<v>> \o p) = p
           /\ p # <<>> => Len(<<v>> \o p) > 1 /\ Last(<<v>> \o p) = Last(p)
<1> DEFINE q == <<v>> \o p
<1>1. <<v>> \in Seq(S) /\ Len(<<v>>) = 1 /\ <<v>>[1] = v
  OBVIOUS
<1>2. /\ q \in Seq(S)
      /\ Len(q) = 1 + Len(p)
      /\ \A i \in 1 .. 1 + Len(p) : q[i] = IF i <= 1 THEN v ELSE p[i - 1]
  BY <1>1, ConcatProperties
<1>3. Len(p) \in Nat /\ (p # <<>> => Len(p) # 0)
  BY LenProperties, EmptySeq
<1> HIDE DEF q
<1>4. q # <<>>
  BY <1>2, <1>3, EmptySeq
<1>5. /\ Tail(q) \in Seq(S)
      /\ Len(Tail(q)) = Len(q) - 1
      /\ \A i \in 1 .. Len(Tail(q)) : Tail(q)[i] = q[i + 1]
  BY <1>2, <1>4, HeadTailProperties
<1>6. Tail(q) = p
  <2>1. Len(Tail(q)) = Len(p)
    BY <1>2, <1>3, <1>5
  <2>2. \A i \in 1 .. Len(p) : Tail(q)[i] = p[i]
    BY <1>2, <1>3, <1>5, <2>1
  <2>3. QED
    BY <1>5, <2>1, <2>2, SeqEqual
<1>7. Head(q) = v
  BY <1>2, <1>3
<1>8. ASSUME p # <<>> PROVE Last(q) = Last(p)
  BY <1>2, <1>3, <1>8 DEF Last
<1>9. QED
  BY <1>2, <1>3, <1>4, <1>6, <1>7, <1>8 DEF q

\* normalize_versioned_path takes one version off, and leaves other paths alone.
LEMMA NormalizedPath ==
    ASSUME NEW p \in Paths, p # <<>>, p[1] \notin Versions, NEW v \in Versions
    PROVE  Normalized(p) = p /\ Normalized(<<v>> \o p) = p
<1>1. Head(p) = p[1]
  OBVIOUS
<1>2. v \in Segments /\ p \in Seq(Segments)
  BY VersionsAreSegments DEF Paths
<1>3. Len(<<v>> \o p) > 1 /\ Head(<<v>> \o p) = v /\ Tail(<<v>> \o p) = p
  BY <1>2, PrependProperties
<1>4. QED
  BY <1>1, <1>3 DEF Normalized

\* Nothing that is decided, asked or rewritten depends on the version.
LEMMA VersionedAlike ==
    ASSUME NEW r, IsRequest(r), r.path # <<>>, r.path[1] \notin Versions, NEW v \in Versions
    PROVE  /\ Decision(Versioned(r, v)) = Decision(r)
           /\ Answer(Versioned(r, v)) = Answer(r)
           /\ \A a : Rewritten(Versioned(r, v).method, Versioned(r, v).path, a)
                      = Rewritten(r.method, r.path, a)
<1> DEFINE other == Versioned(r, v)
<1>1. /\ other.method = r.method /\ other.session = r.session /\ other.payload = r.payload
      /\ other.path = <<v>> \o r.path
  BY DEF Versioned, IsRequest
<1>2. v \in Segments /\ r.path \in Seq(Segments)
  BY VersionsAreSegments DEF Paths, IsRequest
<1> HIDE DEF other
<1>3. Normalized(other.path) = Normalized(r.path)
  BY <1>1, NormalizedPath DEF IsRequest
<1>4. other.path # <<>> /\ Last(other.path) = Last(r.path)
  BY <1>1, <1>2, PrependProperties
<1>5. Decision(other) = Decision(r)
  BY <1>1, <1>3 DEF Decision
<1>6. Answer(other) = Answer(r)
  BY <1>1, <1>3, <1>4 DEF Answer
<1>7. ASSUME NEW a PROVE Rewritten(other.method, other.path, a) = Rewritten(r.method, r.path, a)
  BY <1>1, <1>3 DEF Rewritten
<1>8. QED
  BY <1>5, <1>6, <1>7 DEF other

-----------------------------------------------------------------------------
(* The policy's verdicts *)

Rules == {"parse error", "privileged", "host namespace", "device mount", "cap add",
          "bind mount", "image denylist", "image allowlist"}

LEMMA FirstOfFive ==
    ASSUME NEW I \in SUBSET (1 .. 5), I # {}
    PROVE  Min(I) \in 1 .. 5
<1>1. \E m \in I : \A j \in I : m <= j
  <2>1. CASE 1 \in I
    BY <2>1
  <2>2. CASE 1 \notin I /\ 2 \in I
    BY <2>2
  <2>3. CASE 1 \notin I /\ 2 \notin I /\ 3 \in I
    BY <2>3
  <2>4. CASE 1 \notin I /\ 2 \notin I /\ 3 \notin I /\ 4 \in I
    BY <2>4
  <2>5. CASE 1 \notin I /\ 2 \notin I /\ 3 \notin I /\ 4 \notin I
    <3>1. \A j \in I : j = 5
      BY <2>5
    <3>2. 5 \in I
      BY <3>1
    <3>3. QED
      BY <3>1, <3>2
  <2>6. QED
    BY <2>1, <2>2, <2>3, <2>4, <2>5
<1>2. QED
  BY <1>1 DEF Min

\* The policy answers with one of its rules, or lets the request pass.
LEMMA VerdictIsRule ==
    ASSUME NEW p, NEW q
    PROVE  Verdict(p, q) \in Rules \cup {"allowed"}
<1>1. ASSUME NEW i PROVE ImageVerdict(p, i) \in Rules \cup {"allowed"}
  BY DEF ImageVerdict, Rules
<1>2. ASSUME NEW r PROVE CreateVerdict(p, r) \in Rules \cup {"allowed"}
  <2> DEFINE I == {i \in 1 .. Len(Checks(p, r)) : Checks(p, r)[i].fails}
  <2>1. Len(Checks(p, r)) = 5
    BY DEF Checks
  <2>2. \A i \in 1 .. 5 : Checks(p, r)[i].rule \in Rules
    <3>1. /\ Checks(p, r)[1].rule \in Rules /\ Checks(p, r)[2].rule \in Rules
          /\ Checks(p, r)[3].rule \in Rules /\ Checks(p, r)[4].rule \in Rules
          /\ Checks(p, r)[5].rule \in Rules
      BY DEF Checks, Rules
    <3>2. \A i \in 1 .. 5 : i = 1 \/ i = 2 \/ i = 3 \/ i = 4 \/ i = 5
      OBVIOUS
    <3>3. QED
      BY <3>1, <3>2
  <2>3. CASE I = {}
    BY <1>1, <2>3 DEF CreateVerdict, SelectInSeq
  <2>4. CASE I # {}
    <3>1. Min(I) \in 1 .. 5
      BY <2>1, <2>4, FirstOfFive
    <3>2. CreateVerdict(p, r) = Checks(p, r)[Min(I)].rule
      BY <2>4, <3>1 DEF CreateVerdict, SelectInSeq
    <3>3. QED
      BY <2>2, <3>1, <3>2
  <2>5. QED
    BY <2>3, <2>4
<1>3. QED
  BY <1>1, <1>2 DEF Verdict, Rules

-----------------------------------------------------------------------------
(* What is known of the request at hand *)

DecisionInv ==
    /\ containers \in Backends
    /\ IsRequest(request)
    /\ verdict = "none" => reply = {}
    /\ verdict \notin {"none", "answered"} => verdict = Decision(request)
    /\ verdict = "answered" => Decision(request) = "allowed"
    /\ reply \in {Rewritten(request.method, request.path, a) : a \in {Answer(request), {}}}

LEMMA NothingRewritten == ASSUME NEW m, NEW p PROVE Rewritten(m, p, {}) = {}
BY DEF Rewritten

LEMMA DecisionIsNoState == ASSUME NEW r PROVE Decision(r) \notin {"none", "answered"}
BY VerdictIsRule DEF Decision, Rules

LEMMA NoRequestIsRequest == IsRequest(NoRequest)
BY EmptySeq DEF IsRequest, NoRequest, Paths

LEMMA RequestsAreRequests == \A r \in Requests : IsRequest(r)
BY RequestsAssumption DEF IsRequest, Paths, Segments

LEMMA InitDecision == Init => DecisionInv
BY NoRequestIsRequest, NothingRewritten DEF Init, DecisionInv

LEMMA NextDecision == DecisionInv /\ [Next]_vars => DecisionInv'
<1> SUFFICES ASSUME DecisionInv, [Next]_vars PROVE DecisionInv'
  OBVIOUS
<1> USE DEF DecisionInv
<1>1. CASE Respond
  <2>1. PICK a \in {Answer(request), {}} : reply' = Rewritten(request.method, request.path, a)
    BY <1>1 DEF Respond
  <2>2. UNCHANGED <<policy, containers, request>> /\ verdict = "allowed" /\ verdict' = "answered"
    BY <1>1 DEF Respond
  <2>3. Decision(request)' = Decision(request)
    BY <2>2 DEF Decision, Refused, Named
  <2>4. Answer(request)' = Answer(request)
    BY <2>2 DEF Answer, Named
  <2>5. QED
    BY <2>1, <2>2, <2>3, <2>4
<1>2. CASE Deliver
  BY <1>2, NoRequestIsRequest, NothingRewritten DEF Deliver
<1>3. ASSUME NEW r \in Requests, Decide(r) PROVE DecisionInv'
  <2>1. /\ UNCHANGED <<policy, containers, reply>> /\ reply = {}
        /\ request' = r /\ verdict' = Decision(r) /\ IsRequest(r)
    BY <1>3, RequestsAreRequests DEF Decide
  <2>2. Decision(request)' = Decision(r)
    BY <2>1 DEF Decision, Refused, Named
  <2>3. QED
    BY <2>1, <2>2, NothingRewritten, DecisionIsNoState
<1>4. CASE UNCHANGED vars
  BY <1>4 DEF vars, Decision, Refused, Named, Answer
<1>5. QED
  BY <1>1, <1>2, <1>3, <1>4 DEF Next

\* Decisions and answers are those of the request at hand.
THEOREM DecisionsStand == Spec => []DecisionInv
BY InitDecision, NextDecision, PTL DEF Spec

\* A version in front of a path decides nothing (normalize_versioned_path).
THEOREM VersionsDecideNothing == Spec => []VersionsAreAlike
<1>1. DecisionInv => VersionsAreAlike
  BY VersionedAlike DEF DecisionInv, VersionsAreAlike
<1>2. QED
  BY <1>1, DecisionsStand, PTL

-----------------------------------------------------------------------------
(* The container listing *)

\* A listing leaves out no container that PSP created, and a client may use each
\* of those (filter_managed_containers, evaluate_container_access).
THEOREM ManagedContainersAreListed == Spec => []ManagedAreListed
<1>1. ASSUME DecisionInv, request.method = "GET", Normalized(request.path) = Listing, reply # {},
             NEW c \in containers, c.managed
      PROVE  c \in reply /\ ~Refused(c.id)
  <2>1. Answer(request) = containers
    BY <1>1 DEF Answer
  <2>2. reply = {d \in containers : d.managed \/ d.reusable}
    BY <1>1, <2>1, NothingRewritten DEF DecisionInv, Rewritten
  <2>3. Named(c.id) = {c}
    BY <1>1, BackendsAssumption DEF DecisionInv, Named
  <2>4. QED
    BY <1>1, <2>2, <2>3 DEF Refused
<1>2. DecisionInv => ManagedAreListed
  BY <1>1 DEF ManagedAreListed
<1>3. QED
  BY <1>2, DecisionsStand, PTL

-----------------------------------------------------------------------------
(* The endpoint table *)

LEMMA OneSegment ==
    ASSUME NEW p \in Paths, NEW a
    PROVE  p = <<a>> <=> Len(p) = 1 /\ p[1] = a
<1>1. ASSUME Len(p) = 1, p[1] = a PROVE p = <<a>>
  BY <1>1, LenProperties DEF Paths
<1>2. QED
  BY <1>1

LEMMA TwoSegments ==
    ASSUME NEW p \in Paths, NEW a, NEW b
    PROVE  p = <<a, b>> <=> Len(p) = 2 /\ p[1] = a /\ p[2] = b
<1>1. ASSUME Len(p) = 2, p[1] = a, p[2] = b PROVE p = <<a, b>>
  BY <1>1, LenProperties DEF Paths
<1>2. QED
  BY <1>1

LEMMA Positions ==
    ASSUME NEW p \in Paths
    PROVE  /\ Len(p) = 1 => (\A k \in DOMAIN p : k = 1) /\ 1 \in DOMAIN p
           /\ Len(p) = 2 => (\A k \in DOMAIN p : k = 1 \/ k = 2) /\ 1 \in DOMAIN p /\ 2 \in DOMAIN p
           /\ Len(p) = 3 => /\ \A k \in DOMAIN p : k = 1 \/ k = 2 \/ k = 3
                            /\ 1 \in DOMAIN p /\ 2 \in DOMAIN p /\ 3 \in DOMAIN p
<1>1. DOMAIN p = 1 .. Len(p) /\ Len(p) \in Nat
  BY LenProperties DEF Paths
<1>2. ASSUME Len(p) = 1 PROVE (\A k \in DOMAIN p : k = 1) /\ 1 \in DOMAIN p
  BY <1>1, <1>2
<1>3. ASSUME Len(p) = 2
      PROVE  (\A k \in DOMAIN p : k = 1 \/ k = 2) /\ 1 \in DOMAIN p /\ 2 \in DOMAIN p
  BY <1>1, <1>3
<1>4. ASSUME Len(p) = 3
      PROVE  /\ \A k \in DOMAIN p : k = 1 \/ k = 2 \/ k = 3
             /\ 1 \in DOMAIN p /\ 2 \in DOMAIN p /\ 3 \in DOMAIN p
  BY <1>1, <1>4
<1>5. QED
  BY <1>2, <1>3, <1>4

LEMMA FitsOne ==
    ASSUME NEW p \in Paths, NEW a, a # "{}"
    PROVE  Fits(p, <<a>>) <=> Len(p) = 1 /\ p[1] = a
<1>1. Len(<<a>>) = 1 /\ <<a>>[1] = a
  OBVIOUS
<1>2. CASE Len(p) = 1
  <2>1. (\A k \in DOMAIN p : k = 1) /\ 1 \in DOMAIN p
    BY <1>2, Positions
  <2>2. QED
    BY <1>1, <1>2, <2>1 DEF Fits
<1>3. CASE Len(p) # 1
  BY <1>1, <1>3 DEF Fits
<1>4. QED
  BY <1>2, <1>3

LEMMA FitsTwo ==
    ASSUME NEW p \in Paths, NEW a, NEW b, a # "{}"
    PROVE  Fits(p, <<a, b>>) <=> Len(p) = 2 /\ p[1] = a /\ b \in {p[2], "{}"}
<1>1. Len(<<a, b>>) = 2 /\ <<a, b>>[1] = a /\ <<a, b>>[2] = b
  OBVIOUS
<1>2. CASE Len(p) = 2
  <2>1. (\A k \in DOMAIN p : k = 1 \/ k = 2) /\ 1 \in DOMAIN p /\ 2 \in DOMAIN p
    BY <1>2, Positions
  <2>2. QED
    BY <1>1, <1>2, <2>1 DEF Fits
<1>3. CASE Len(p) # 2
  BY <1>1, <1>3 DEF Fits
<1>4. QED
  BY <1>2, <1>3

LEMMA FitsThree ==
    ASSUME NEW p \in Paths, NEW a, NEW c, a # "{}", c # "{}"
    PROVE  Fits(p, <<a, "{}", c>>) <=> Len(p) = 3 /\ p[1] = a /\ p[3] = c
<1> DEFINE pattern == <<a, "{}", c>>
<1>1. Len(pattern) = 3 /\ pattern[1] = a /\ pattern[2] = "{}" /\ pattern[3] = c
  OBVIOUS
<1> HIDE DEF pattern
<1>2. CASE Len(p) = 3
  <2>1. (\A k \in DOMAIN p : k = 1 \/ k = 2 \/ k = 3) /\ 1 \in DOMAIN p /\ 2 \in DOMAIN p /\ 3 \in DOMAIN p
    BY <1>2, Positions
  <2>2. Fits(p, pattern) <=> p[1] = a /\ p[3] = c
    BY <1>1, <1>2, <2>1 DEF Fits
  <2>3. QED
    BY <1>2, <2>2 DEF pattern
<1>3. CASE Len(p) # 3
  <2>1. ~Fits(p, pattern)
    BY <1>1, <1>3 DEF Fits
  <2>2. QED
    BY <1>3, <2>1 DEF pattern
<1>4. QED
  BY <1>2, <1>3

\* The endpoint table, by the number of segments.
LEMMA SupportedPaths ==
    ASSUME NEW m, NEW p \in Paths
    PROVE  IsSupported(m, p) <=>
             \/ Len(p) = 1 /\ m = "GET" /\ p[1] \in {"_ping", "version", "info"}
             \/ Len(p) = 2 /\ m = "POST" /\ p[1] \in {"images", "containers"} /\ p[2] = "create"
             \/ Len(p) = 2 /\ m = "GET" /\ p[1] = "containers" /\ p[2] = "json"
             \/ Len(p) = 2 /\ m = "DELETE" /\ p[1] = "containers" /\ p[2] # "json"
             \/ Len(p) = 3 /\ p[1] = "containers" /\
                    \/ m = "GET" /\ p[3] \in {"json", "logs"}
                    \/ m = "POST" /\ p[3] \in {"start", "stop", "wait", "exec"}
                    \/ m = "PUT" /\ p[3] = "archive"
             \/ Len(p) = 3 /\ p[1] = "exec" /\ m \in {"GET", "POST"} /\ p[3] \in {"start", "json"}
             \/ Len(p) >= 3 /\ m = "GET" /\ p[1] = "images" /\ p[Len(p)] = "json"
<1>1. Head(p) = p[1] /\ Last(p) = p[Len(p)] /\ Len(p) \in Nat
  BY LenProperties DEF Last, Paths
<1>2. \A a : p = <<a>> <=> Len(p) = 1 /\ p[1] = a
  BY OneSegment
<1>3. \A a, b : p = <<a, b>> <=> Len(p) = 2 /\ p[1] = a /\ p[2] = b
  BY TwoSegments
<1>4. ContainerEndpoint(m, p) <=>
        \/ Len(p) = 2 /\ m = "GET" /\ p[1] = "containers" /\ p[2] = "json"
        \/ Len(p) = 2 /\ m = "DELETE" /\ p[1] = "containers" /\ p[2] # "json"
        \/ Len(p) = 3 /\ p[1] = "containers" /\
               \/ m = "GET" /\ p[3] \in {"json", "logs"}
               \/ m = "POST" /\ p[3] \in {"start", "stop", "wait", "exec"}
               \/ m = "PUT" /\ p[3] = "archive"
  BY <1>1, <1>3 DEF ContainerEndpoint, Listing
<1>5. QED
  BY <1>1, <1>2, <1>3, <1>4 DEF IsSupported, ImageEndpoint, ExecEndpoint

\* The documented endpoints, by the number of segments.
LEMMA DocumentedPaths ==
    ASSUME NEW m, NEW p \in Paths
    PROVE  IsDocumented(m, p) <=>
             \/ Len(p) = 1 /\ m = "GET" /\ p[1] \in {"_ping", "version", "info"}
             \/ Len(p) = 2 /\ m = "POST" /\ p[1] \in {"images", "containers"} /\ p[2] = "create"
             \/ Len(p) = 2 /\ m = "GET" /\ p[1] = "containers" /\ p[2] = "json"
             \/ Len(p) = 2 /\ m = "DELETE" /\ p[1] = "containers"
             \/ Len(p) = 3 /\ p[1] = "containers" /\
                    \/ m = "GET" /\ p[3] \in {"json", "logs"}
                    \/ m = "POST" /\ p[3] \in {"start", "stop", "wait", "exec"}
                    \/ m = "PUT" /\ p[3] = "archive"
             \/ Len(p) = 3 /\ p[1] = "exec" /\ <<m, p[3]>> \in {<<"POST", "start">>, <<"GET", "json">>}
             \/ Len(p) >= 3 /\ m = "GET" /\ p[1] = "images" /\ p[Len(p)] = "json"
<1>1. Len(p) \in Nat
  BY LenProperties DEF Paths
<1>2. (/\ m \in DOMAIN DocumentedEndpoints
       /\ \E pattern \in DocumentedEndpoints[m] : Fits(p, pattern)) <=>
        \/ m = "GET" /\ (Fits(p, <<"_ping">>) \/ Fits(p, <<"version">>) \/ Fits(p, <<"info">>))
        \/ m = "GET" /\ Fits(p, <<"containers", "json">>)
        \/ m = "GET" /\ (Fits(p, <<"containers", "{}", "json">>) \/ Fits(p, <<"containers", "{}", "logs">>))
        \/ m = "GET" /\ Fits(p, <<"exec", "{}", "json">>)
        \/ m = "POST" /\ (Fits(p, <<"images", "create">>) \/ Fits(p, <<"containers", "create">>))
        \/ m = "POST" /\ (Fits(p, <<"containers", "{}", "start">>) \/ Fits(p, <<"containers", "{}", "stop">>))
        \/ m = "POST" /\ (Fits(p, <<"containers", "{}", "wait">>) \/ Fits(p, <<"containers", "{}", "exec">>))
        \/ m = "POST" /\ Fits(p, <<"exec", "{}", "start">>)
        \/ m = "PUT" /\ Fits(p, <<"containers", "{}", "archive">>)
        \/ m = "DELETE" /\ Fits(p, <<"containers", "{}">>)
  <2>1. DOMAIN DocumentedEndpoints = {"GET", "POST", "PUT", "DELETE"}
    BY DEF DocumentedEndpoints
  <2>2. CASE m = "GET"
    <3>1. DocumentedEndpoints[m] =
              {<<"_ping">>, <<"version">>, <<"info">>, <<"containers", "json">>,
               <<"containers", "{}", "json">>, <<"containers", "{}", "logs">>, <<"exec", "{}", "json">>}
      BY <2>2 DEF DocumentedEndpoints
    <3>2. QED
      BY <2>1, <2>2, <3>1
  <2>3. CASE m = "POST"
    <3>1. DocumentedEndpoints[m] =
              {<<"images", "create">>, <<"containers", "create">>,
               <<"containers", "{}", "start">>, <<"containers", "{}", "stop">>,
               <<"containers", "{}", "wait">>, <<"containers", "{}", "exec">>, <<"exec", "{}", "start">>}
      BY <2>3 DEF DocumentedEndpoints
    <3>2. QED
      BY <2>1, <2>3, <3>1
  <2>4. CASE m = "PUT"
    <3>1. DocumentedEndpoints[m] = {<<"containers", "{}", "archive">>}
      BY <2>4 DEF DocumentedEndpoints
    <3>2. QED
      BY <2>1, <2>4, <3>1
  <2>5. CASE m = "DELETE"
    <3>1. DocumentedEndpoints[m] = {<<"containers", "{}">>}
      BY <2>5 DEF DocumentedEndpoints
    <3>2. QED
      BY <2>1, <2>5, <3>1
  <2>6. QED
    BY <2>1, <2>2, <2>3, <2>4, <2>5
<1>3. \A a : a # "{}" => (Fits(p, <<a>>) <=> Len(p) = 1 /\ p[1] = a)
  BY FitsOne
<1>4. \A a, b : a # "{}" => (Fits(p, <<a, b>>) <=> Len(p) = 2 /\ p[1] = a /\ b \in {p[2], "{}"})
  BY FitsTwo
<1>5. \A a, c : a # "{}" /\ c # "{}" =>
          (Fits(p, <<a, "{}", c>>) <=> Len(p) = 3 /\ p[1] = a /\ p[3] = c)
  BY FitsThree
<1>6. \A a \in {"_ping", "version", "info"} : Fits(p, <<a>>) <=> Len(p) = 1 /\ p[1] = a
  BY <1>3
<1>7. /\ \A a \in {"images", "containers"}, b \in {"create", "json"} :
             Fits(p, <<a, b>>) <=> Len(p) = 2 /\ p[1] = a /\ p[2] = b
      /\ Fits(p, <<"containers", "{}">>) <=> Len(p) = 2 /\ p[1] = "containers"
  BY <1>4
<1>8. \A a \in {"containers", "exec"},
         c \in {"json", "logs", "start", "stop", "wait", "exec", "archive"} :
          Fits(p, <<a, "{}", c>>) <=> Len(p) = 3 /\ p[1] = a /\ p[3] = c
  BY <1>5
<1>9. (m = "GET" /\ Len(p) > 2 /\ <<p[1], p[Len(p)]>> = <<"images", "json">>) <=>
          Len(p) >= 3 /\ m = "GET" /\ p[1] = "images" /\ p[Len(p)] = "json"
  BY <1>1
<1>10. QED
  BY <1>2, <1>6, <1>7, <1>8, <1>9 DEF IsDocumented

LEMMA SupportedAndDocumented ==
    ASSUME NEW m, NEW p \in Paths
    PROVE  /\ IsDocumented(m, p) /\ ~(m = "DELETE" /\ p = Listing) => IsSupported(m, p)
           /\ IsSupported(m, p) => IsDocumented(m, p) \/ OfExec(p)
<1>1. p = Listing <=> Len(p) = 2 /\ p[1] = "containers" /\ p[2] = "json"
  BY TwoSegments DEF Listing
<1>2. OfExec(p) <=> Len(p) = 3 /\ p[1] = "exec" /\ p[3] \in {"json", "start"}
  BY FitsThree DEF OfExec
<1>3. QED
  BY <1>1, <1>2, SupportedPaths, DocumentedPaths

\* What the profile lists passes the endpoint table, but for the removal of a
\* container named json; what else passes is an endpoint of an exec instance
\* (is_supported_endpoint).
THEOREM ProfileEndpointsAreServed == Spec => []ProfileIsServed
<1>1. ASSUME DecisionInv, verdict \notin {"none", "session required"}
      PROVE  (verdict # "unsupported") <=> IsSupported(request.method, Normalized(request.path))
  <2>1. CASE verdict = "answered"
    BY <1>1, <2>1 DEF DecisionInv, Decision
  <2>2. CASE verdict # "answered"
    <3>1. \A p, q : Verdict(p, q) # "unsupported"
      BY VerdictIsRule DEF Rules
    <3>2. QED
      BY <1>1, <2>2, <3>1 DEF DecisionInv, Decision
  <2>3. QED
    BY <2>1, <2>2
<1>2. ASSUME DecisionInv PROVE Normalized(request.path) \in Paths
  BY <1>2, HeadTailProperties, EmptySeq DEF DecisionInv, IsRequest, Normalized, Paths
<1>3. ASSUME DecisionInv PROVE Normalized(request.path) = Unversioned(request.path)
  <2>1. CASE request.path = <<>>
    BY <2>1 DEF Normalized, Unversioned
  <2>2. CASE request.path # <<>>
    BY <2>2 DEF Normalized, Unversioned
  <2>3. QED
    BY <2>1, <2>2
<1>4. DecisionInv => ProfileIsServed
  BY <1>1, <1>2, <1>3, SupportedAndDocumented DEF ProfileIsServed
<1>5. QED
  BY <1>4, DecisionsStand, PTL
=============================================================================
