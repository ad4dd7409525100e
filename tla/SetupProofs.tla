----------------------------- MODULE SetupProofs -----------------------------
(***************************************************************************)
(* The properties of Setup, for all directories, environments, files and    *)
(* numbers of commands.  Two directories of a repository lead to one project *)
(* root (RootIsShared), so a command resolves the same settings in either   *)
(* (SameSettings); and the two readings of the configuration files agree     *)
(* where a layer names an absolute policy path (ReadingsAgree).              *)
(***************************************************************************)
EXTENDS Setup, SequenceTheorems, WellFoundedInduction, TLAPS

-----------------------------------------------------------------------------
(* Sequences and maxima *)

\* Components of paths.  The names the code uses are strings; the provers do not
\* know of any string that it is one.
Segments == STRING \cup
    {".git", ".psp.json", ".config", "psp", "config.json", "policy.json", "policy", "default-policy.json"}

Places == Seq(Segments)

LEMMA Strings == Seq(STRING) \subseteq Places
BY SeqMonotonic DEF Segments, Places

LEMMA GitPlaces ==
    /\ GitDirs \subseteq Places
    /\ \A k \in DOMAIN GitFiles :
           /\ GitFiles[k] \in Places
           /\ Len(GitFiles[k]) = 2 => GitFiles[k][1] # "worktrees"
BY GitAssumption, Strings

LEMMA LargestExists ==
    ASSUME NEW n \in Nat, NEW S \in SUBSET (0..n), S # {}
    PROVE  \E x \in S : \A y \in S : x >= y
<1> DEFINE T == {m \in Nat : n - m \in S}
<1>1. T \subseteq Nat
  OBVIOUS
<1>2. T # {}
  <2>1. PICK x \in S : TRUE
    OBVIOUS
  <2>2. x \in 0..n
    BY <2>1
  <2>3. n - x \in Nat /\ n - (n - x) = x
    BY <2>2
  <2>4. QED
    BY <2>1, <2>3
<1> HIDE DEF T
<1>3. \E d \in T : \A e \in T : ~(<<e, d>> \in OpToRel(<, Nat))
  BY <1>1, <1>2, NatLessThanWellFounded, WFMin, Zenon
<1>4. PICK d \in T : \A e \in T : ~(<<e, d>> \in OpToRel(<, Nat))
  BY <1>3
<1>5. \A e \in T : ~(e < d)
  BY <1>1, <1>4 DEF OpToRel
<1>6. \A y \in S : n - d >= y
  BY <1>5 DEF T
<1>7. QED
  BY <1>6 DEF T

LEMMA MaxIs ==
    ASSUME NEW n \in Nat, NEW S \in SUBSET (0..n), S # {}
    PROVE  Max(S) \in S /\ \A y \in S : Max(S) >= y
BY LargestExists DEF Max

\* What is left of a longer sequence when its end is taken off.
LEMMA TakeOff ==
    ASSUME NEW S, NEW s \in Seq(S), NEW t \in Seq(S)
    PROVE  SubSeq(s \o t, 1, Len(s)) = s
<1>1. /\ s \o t \in Seq(S) /\ Len(s \o t) = Len(s) + Len(t)
      /\ \A i \in 1 .. Len(s) + Len(t) : (s \o t)[i] = IF i <= Len(s) THEN s[i] ELSE t[i - Len(s)]
  BY ConcatProperties
<1>2. Len(s) \in Nat /\ Len(t) \in Nat
  BY LenProperties
<1>3. \A i \in 1 .. Len(s) : (s \o t)[i] \in S
  BY <1>1, <1>2, ElementOfSeq
<1>4. /\ SubSeq(s \o t, 1, Len(s)) \in Seq(S)
      /\ Len(SubSeq(s \o t, 1, Len(s))) = Len(s)
      /\ \A i \in 1 .. Len(s) : SubSeq(s \o t, 1, Len(s))[i] = (s \o t)[i]
  BY <1>2, <1>3, SubSeqProperties
<1>5. QED
  BY <1>1, <1>2, <1>4, SeqEqual

LEMMA FrontIs ==
    ASSUME NEW S, NEW s \in Seq(S), NEW e \in S
    PROVE  /\ Append(s, e) \in Seq(S) /\ Append(s, e) # <<>>
           /\ Front(Append(s, e)) = s /\ Last(Append(s, e)) = e
<1>1. <<e>> \in Seq(S) /\ Len(s) \in Nat
  BY LenProperties
<1>2. /\ Append(s, e) \in Seq(S) /\ Append(s, e) # <<>>
      /\ Len(Append(s, e)) = Len(s) + 1 /\ Append(s, e)[Len(s) + 1] = e
  BY AppendProperties
<1>3. Append(s, e) = s \o <<e>>
  BY AppendIsConcat
<1>4. QED
  BY <1>1, <1>2, <1>3, TakeOff DEF Front, Last

LEMMA PrefixOf ==
    ASSUME NEW S, NEW s \in Seq(S), NEW n \in 0 .. Len(s)
    PROVE  /\ SubSeq(s, 1, n) \in Seq(S) /\ Len(SubSeq(s, 1, n)) = n
           /\ \A i \in 1 .. n : SubSeq(s, 1, n)[i] = s[i]
<1>1. Len(s) \in Nat
  BY LenProperties
<1>2. \A i \in 1 .. n : s[i] \in S
  BY <1>1, ElementOfSeq
<1>3. QED
  BY <1>1, <1>2, SubSeqProperties

LEMMA FrontOfPrefix ==
    ASSUME NEW S, NEW s \in Seq(S), NEW n \in 1 .. Len(s)
    PROVE  /\ SubSeq(s, 1, n) # <<>>
           /\ Front(SubSeq(s, 1, n)) = SubSeq(s, 1, n - 1)
<1>1. Len(s) \in Nat /\ n \in Nat /\ n \in 0 .. Len(s) /\ n - 1 \in 0 .. Len(s) /\ n - 1 \in 0 .. n
  BY LenProperties
<1>2. /\ SubSeq(s, 1, n) \in Seq(S) /\ Len(SubSeq(s, 1, n)) = n
      /\ \A i \in 1 .. n : SubSeq(s, 1, n)[i] = s[i]
  BY <1>1, PrefixOf
<1>3. /\ SubSeq(s, 1, n - 1) \in Seq(S) /\ Len(SubSeq(s, 1, n - 1)) = n - 1
      /\ \A i \in 1 .. n - 1 : SubSeq(s, 1, n - 1)[i] = s[i]
  BY <1>1, PrefixOf
<1> DEFINE p == SubSeq(s, 1, n)
<1> HIDE DEF p
<1>4. /\ SubSeq(p, 1, n - 1) \in Seq(S) /\ Len(SubSeq(p, 1, n - 1)) = n - 1
      /\ \A i \in 1 .. n - 1 : SubSeq(p, 1, n - 1)[i] = p[i]
  BY <1>1, <1>2, PrefixOf DEF p
<1>5. \A i \in 1 .. n - 1 : SubSeq(p, 1, n - 1)[i] = SubSeq(s, 1, n - 1)[i]
  BY <1>1, <1>2, <1>3, <1>4 DEF p
<1>6. SubSeq(p, 1, n - 1) = SubSeq(s, 1, n - 1)
  BY <1>3, <1>4, <1>5, SeqEqual
<1>7. Len(p) # 0
  BY <1>1, <1>2 DEF p
<1>8. QED
  BY <1>2, <1>6, <1>7 DEF p, Front

-----------------------------------------------------------------------------
(* One root for each repository *)

\* The project root of a checkout.
Root(k) == IF k \in GitDirs THEN Absolute(k) ELSE RootFromGitFile(k)

Found(k) == k \in GitDirs \/ GitFiles[k] # NoGitDir

LEMMA CheckoutIs ==
    ASSUME NEW cwd \in Dirs, Checkouts(cwd) # {}
    PROVE  /\ Checkout(cwd) \in GitDirs \cup DOMAIN GitFiles
           /\ ProjectRoot(cwd) = Root(Checkout(cwd))
           /\ RootIsFound(cwd) <=> Found(Checkout(cwd))
           /\ Repository(cwd) = Absolute(CommonDir(Checkout(cwd)))
<1>1. Len(cwd) \in Nat
  BY SetupAssumption, LenProperties
<1>2. Checkouts(cwd) \in SUBSET (0 .. Len(cwd))
  BY DEF Checkouts
<1>3. Max(Checkouts(cwd)) \in Checkouts(cwd)
  BY <1>1, <1>2, MaxIs
<1>4. Checkout(cwd) \in GitDirs \cup DOMAIN GitFiles
  BY <1>3 DEF Checkout, Checkouts
<1>5. QED
  BY <1>4 DEF ProjectRoot, Root, RootIsFound, Found, Repository

\* A directory that holds a .git directory is a checkout itself.
LEMMA RootItself ==
    ASSUME NEW cwd \in Dirs, cwd \in GitDirs
    PROVE  /\ Checkouts(cwd) # {} /\ Checkout(cwd) = cwd
           /\ ProjectRoot(cwd) = Absolute(cwd) /\ RootIsFound(cwd)
<1>1. Len(cwd) \in Nat /\ SubSeq(cwd, 1, Len(cwd)) = cwd
  BY SetupAssumption, LenProperties, SubSeqFull
<1>2. Len(cwd) \in Checkouts(cwd)
  <2>1. Len(cwd) \in 0 .. Len(cwd)
    BY <1>1
  <2>2. QED
    BY <1>1, <2>1 DEF Checkouts
<1>3. Checkouts(cwd) \in SUBSET (0 .. Len(cwd))
  BY DEF Checkouts
<1>4. Max(Checkouts(cwd)) \in Checkouts(cwd) /\ Max(Checkouts(cwd)) >= Len(cwd)
  BY <1>1, <1>2, <1>3, MaxIs
<1>5. Max(Checkouts(cwd)) = Len(cwd)
  BY <1>1, <1>3, <1>4
<1>6. Checkout(cwd) = cwd
  BY <1>1, <1>5 DEF Checkout
<1>7. QED
  BY <1>2, <1>6 DEF ProjectRoot, RootIsFound

\* The root of a checkout follows from the directory that its repository's
\* checkouts share, unless the code gives it a root of its own.
LEMMA RootOfCommonDir ==
    ASSUME NEW k \in GitDirs \cup DOMAIN GitFiles, Found(k)
    PROVE  /\ CommonDir(k) # <<>>
           /\ \/ Root(k) = Absolute(Front(CommonDir(k)))
              \/ k \notin GitDirs /\ OwnGitDir(GitFiles[k])
<1>1. CASE k \in GitDirs
  <2>1. k \in Places
    BY <1>1, GitPlaces
  <2>2. CommonDir(k) = Append(k, ".git") /\ Root(k) = Absolute(k)
    BY <1>1 DEF CommonDir, Root
  <2>3. ".git" \in Segments
    BY DEF Segments
  <2>4. Append(k, ".git") # <<>> /\ Front(Append(k, ".git")) = k
    BY <2>1, <2>3, FrontIs DEF Places
  <2>5. QED
    BY <2>2, <2>4
<1>2. CASE k \notin GitDirs
  <2> DEFINE git == GitFiles[k]
  <2>1. k \in DOMAIN GitFiles /\ git # NoGitDir
    BY <1>2 DEF Found
  <2>2. /\ git \in Seq(Segments)
        /\ Len(git) = 2 => git[1] # "worktrees"
    BY <2>1, GitPlaces DEF Places
  <2>3. Len(git) \in Nat /\ git # <<>>
    BY <2>1, <2>2, LenProperties DEF NoGitDir, Places
  <2>5. Root(k) = RootFromGitFile(k)
    BY <1>2 DEF Root
  <2>6. CASE IsWorktree(git)
    <3> DEFINE n == Len(git) - 2
    <3>1. Len(git) > 2 /\ git[Len(git) - 1] = "worktrees" /\ Last(git) # ".git"
      BY <2>6 DEF IsWorktree
    <3>2. n \in 1 .. Len(git)
      BY <2>3, <3>1
    <3>3. CommonDir(k) = SubSeq(git, 1, n)
      BY <1>2, <2>6 DEF CommonDir
    <3>4. SubSeq(git, 1, n) # <<>> /\ Front(SubSeq(git, 1, n)) = SubSeq(git, 1, n - 1)
      BY <2>2, <3>2, FrontOfPrefix
    <3>5. Root(k) = Absolute(SubSeq(git, 1, n - 1))
      <4>1. n - 1 = Len(git) - 3
        BY <2>3
      <4>2. Len(git) - 1 \in 0 .. Len(git) /\ Len(git) - 1 \in 1 .. Len(git) - 1
        BY <2>3, <3>1
      <4>3. Last(Front(git)) = git[Len(git) - 1]
        BY <2>2, <4>2, PrefixOf DEF Front, Last
      <4>4. QED
        BY <2>3, <2>5, <3>1, <4>1, <4>3 DEF RootFromGitFile
    <3>6. QED
      BY <3>3, <3>4, <3>5
  <2>7. CASE ~IsWorktree(git)
    <3>1. CommonDir(k) = git
      BY <1>2, <2>7 DEF CommonDir
    <3>2. Last(git) = ".git" => Root(k) = Absolute(Front(git))
      BY <2>5 DEF RootFromGitFile
    <3>3. QED
      BY <1>2, <2>1, <2>3, <2>7, <3>1, <3>2 DEF OwnGitDir
  <2>8. QED
    BY <2>6, <2>7
<1>3. QED
  BY <1>1, <1>2

LEMMA AbsoluteIs ==
    ASSUME NEW x, NEW y
    PROVE  /\ Absolute(x).form = "absolute" /\ Absolute(x).comps = x /\ Absolute(x) # Absent
           /\ Absolute(x) = Absolute(y) => x = y
<1>1. Absolute(x).form = "absolute" /\ Absolute(x).comps = x /\ Absolute(y).comps = y
  BY DEF Absolute
<1>2. Absent.form = "none"
  BY DEF Absent
<1>3. QED
  BY <1>1, <1>2

\* Directories that are alike have one project root, or none of them finds one.
LEMMA RootIsShared ==
    ASSUME NEW c \in Dirs, NEW d \in Dirs, Alike(c, d)
    PROVE  /\ RootIsFound(c) <=> RootIsFound(d)
           /\ RootIsFound(c) => ProjectRoot(c) = ProjectRoot(d)
<1>1. Repository(c) = Repository(d)
  BY SetupAssumption DEF Alike
<1>2. \A b \in Dirs : Checkouts(b) = {} =>
          Repository(b) = Absent /\ RootIsFound(b) /\ ProjectRoot(b) = Absent
  BY DEF Repository, RootIsFound, ProjectRoot
<1>3. \A b \in Dirs : Checkouts(b) # {} => Repository(b) # Absent
  BY CheckoutIs, AbsoluteIs
<1>4. CASE Checkouts(c) = {} \/ Checkouts(d) = {}
  BY <1>1, <1>2, <1>3, <1>4
<1>5. CASE Checkouts(c) # {} /\ Checkouts(d) # {}
  <2> DEFINE k == Checkout(c)
             l == Checkout(d)
  <2>1. /\ k \in GitDirs \cup DOMAIN GitFiles /\ l \in GitDirs \cup DOMAIN GitFiles
        /\ ProjectRoot(c) = Root(k) /\ ProjectRoot(d) = Root(l)
        /\ RootIsFound(c) <=> Found(k)
        /\ RootIsFound(d) <=> Found(l)
    BY <1>5, CheckoutIs
  <2>2. CommonDir(k) = CommonDir(l)
    BY <1>1, <1>5, CheckoutIs, AbsoluteIs
  <2>3. \A j : j \notin GitDirs /\ OwnGitDir(GitFiles[j]) /\ j \in {k, l} => k = l
    BY <1>5 DEF Alike, OwnRoot
  <2> HIDE DEF k, l
  <2>4. \A j \in GitDirs \cup DOMAIN GitFiles : Found(j) <=> CommonDir(j) # <<>>
    <3> SUFFICES ASSUME NEW j \in GitDirs \cup DOMAIN GitFiles, ~Found(j)
                 PROVE  CommonDir(j) = <<>>
      BY RootOfCommonDir
    <3>1. j \notin GitDirs /\ GitFiles[j] = <<>>
      BY DEF Found, NoGitDir
    <3>2. ~IsWorktree(<<>>)
      BY DEF IsWorktree
    <3>3. QED
      BY <3>1, <3>2 DEF CommonDir
  <2>5. Found(k) <=> Found(l)
    BY <2>1, <2>2, <2>4
  <2>6. ASSUME Found(k) PROVE Root(k) = Root(l)
    <3>1. CASE \E j \in {k, l} : j \notin GitDirs /\ OwnGitDir(GitFiles[j])
      BY <2>3, <3>1
    <3>2. CASE \A j \in {k, l} : Root(j) = Absolute(Front(CommonDir(j)))
      BY <2>2, <3>2
    <3>3. QED
      BY <2>1, <2>5, <2>6, <3>1, <3>2, RootOfCommonDir
  <2>7. QED
    BY <2>1, <2>5, <2>6
<1>6. QED
  BY <1>4, <1>5

\* No checkout with a root of its own shares a repository with one that holds a
\* .git directory.
LEMMA RootOfProject ==
    ASSUME NEW root \in Dirs, root \in GitDirs, NEW d \in Dirs, Project[d] = Project[root]
    PROVE  ProjectRoot(d) = ProjectRoot(root)
<1>1. Checkouts(root) # {} /\ Checkout(root) = root
  BY RootItself
<1>2. Repository(d) = Absolute(Append(root, ".git"))
  <2>1. Repository(d) = Repository(root)
    BY SetupAssumption
  <2>2. QED
    BY <1>1, <2>1, CheckoutIs DEF CommonDir
<1>3. Last(Append(root, ".git")) = ".git"
  BY GitPlaces, FrontIs DEF Segments, Places
<1>4. ~OwnRoot(d)
  <2> SUFFICES ASSUME OwnRoot(d) PROVE FALSE
    OBVIOUS
  <2>1. Repository(d) = Absolute(GitFiles[Checkout(d)]) /\ Last(GitFiles[Checkout(d)]) # ".git"
    BY DEF OwnRoot, OwnGitDir, Repository, CommonDir
  <2>2. QED
    BY <1>2, <1>3, <2>1, AbsoluteIs
<1>5. Alike(root, d)
  BY <1>1, <1>4 DEF Alike, OwnRoot
<1>6. QED
  BY <1>5, RootItself, RootIsShared

-----------------------------------------------------------------------------
(* The same settings in each directory *)

\* A path that means one file in every directory, or is not set.
Settled(path) == path = Absent \/ \E place : path = Absolute(place)

LEMMA PlaceOfSettled ==
    ASSUME NEW cwd, NEW value, value.form # "relative"
    PROVE  Place(cwd, value) = value.comps
BY DEF Place, In

LEMMA SettledForm ==
    ASSUME NEW path, Settled(path)
    PROVE  path.form \in {"absolute", "none"}
<1>1. Absent.form = "none"
  BY DEF Absent
<1>2. QED
  BY <1>1, AbsoluteIs DEF Settled

LEMMA InIs ==
    ASSUME NEW place, NEW value
    PROVE  /\ In(Absolute(place), value) = IF value.form = "relative" THEN Absolute(place \o value.comps) ELSE value
           /\ In(Absolute(place), value).form # "relative"
           /\ Parent(Absolute(place)) = Absolute(Front(place))
<1>1. \A x : [Absolute(place) EXCEPT !.comps = x] = Absolute(x)
  BY DEF Absolute
<1>2. Absolute(place).comps = place
  BY AbsoluteIs
<1>3. In(Absolute(place), value) =
          IF value.form = "relative" THEN Absolute(place \o value.comps) ELSE value
  <2>1. [Absolute(place) EXCEPT !.comps = place \o value.comps] = Absolute(place \o value.comps)
    BY <1>1
  <2>2. QED
    BY <1>2, <2>1 DEF In
<1>4. Absolute(place \o value.comps).form = "absolute"
  BY AbsoluteIs
<1>5. Parent(Absolute(place)) = Absolute(Front(place))
  <2>1. [Absolute(place) EXCEPT !.comps = Front(place)] = Absolute(Front(place))
    BY <1>1
  <2>2. QED
    BY <1>2, <2>1 DEF Parent
<1>6. QED
  BY <1>3, <1>4, <1>5

LEMMA PlaceOfAbsolute == \A cwd, place : Place(cwd, Absolute(place)) = place
BY AbsoluteIs, PlaceOfSettled

LEMMA RelativeIs ==
    ASSUME NEW x, NEW place
    PROVE  /\ Relative(x).form = "relative" /\ Relative(x).comps = x
           /\ In(Absolute(place), Relative(x)) = Absolute(place \o x)
<1>1. Relative(x).form = "relative" /\ Relative(x).comps = x
  BY DEF Relative
<1>2. QED
  BY <1>1, InIs

LEMMA ProjectConfigIs ==
    ASSUME NEW cwd
    PROVE  Settled(ProjectConfigPath(cwd))
<1>1. Settled(ProjectRoot(cwd))
  BY DEF Settled, ProjectRoot, RootFromGitFile
<1>2. QED
  BY <1>1, RelativeIs DEF Settled, ProjectConfigPath

\* A directory from the environment.
Directories == [form : {"absolute", "relative"}, comps : Seq(STRING)]

LEMMA DirectoryIs ==
    ASSUME NEW dir \in Directories, NEW x
    PROVE  /\ In(dir, Relative(x)).form = dir.form
           /\ dir.form = "absolute" => dir = Absolute(dir.comps)
           /\ dir # Absent
<1>1. In(dir, Relative(x)) = [dir EXCEPT !.comps = @ \o x]
  BY RelativeIs DEF In
<1>2. Absent.form = "none"
  BY DEF Absent
<1>3. QED
  BY <1>1, <1>2 DEF Directories, Absolute

LEMMA GlobalConfigIs ==
    ASSUME NEW env \in Envs, GlobalConfigPath(env).form # "relative"
    PROVE  Settled(GlobalConfigPath(env))
<1>1. \A dir \in {env.config_home, env.home} : dir \in Directories \cup {Absent}
  BY SetupAssumption DEF IsEnv, Directories
<1>2. ASSUME NEW dir \in Directories, NEW x, In(dir, Relative(x)).form # "relative"
      PROVE  Settled(In(dir, Relative(x)))
  <2>1. dir.form # "relative"
    BY <1>2, DirectoryIs
  <2>2. dir = Absolute(dir.comps)
    BY <2>1, DirectoryIs DEF Directories
  <2>3. QED
    BY <2>2, RelativeIs DEF Settled
<1>3. QED
  BY <1>1, <1>2 DEF GlobalConfigPath, Settled

\* A file is read the same way from every directory.
LEMMA SameFile ==
    ASSUME NEW c, NEW d, NEW path, Settled(path), NEW files
    PROVE  /\ Exists(files, c, path) <=> Exists(files, d, path)
           /\ Place(c, path) = Place(d, path)
           /\ FileLayer(files, c, path) = FileLayer(files, d, path)
<1>1. path.form # "relative"
  BY SettledForm
<1>2. Place(c, path) = Place(d, path)
  BY <1>1, PlaceOfSettled
<1>3. QED
  BY <1>2 DEF Exists, FileLayer

LEMMA SameSettings ==
    ASSUME NEW c \in Dirs, NEW d \in Dirs, Alike(c, d),
           NEW env \in Envs, GlobalConfigPath(env).form # "relative"
    PROVE  /\ Resolve(configs, c, env) = Resolve(configs, d, env)
           /\ Resolves(configs, c, env) <=> Resolves(configs, d, env)
           /\ Resolves(configs, c, env) =>
                  Layer("policy_path", c, env) = Layer("policy_path", d, env)
<1>1. Settled(GlobalConfigPath(env)) /\ Settled(ProjectConfigPath(c))
  BY GlobalConfigIs, ProjectConfigIs
<1>2. RootIsFound(c) <=> RootIsFound(d)
  BY RootIsShared
<1>3. ~RootIsFound(c) => Resolve(configs, c, env) = Unresolved /\ Resolve(configs, d, env) = Unresolved
  BY <1>2 DEF Resolve
<1>4. ~Resolves(configs, c, env) \/ RootIsFound(c)
  <2>1. "error" \in DOMAIN Unresolved
    BY DEF Unresolved
  <2>2. QED
    BY <1>3, <2>1 DEF Resolves
<1>5. ASSUME RootIsFound(c)
      PROVE  /\ Resolve(configs, c, env) = Resolve(configs, d, env)
             /\ Layer("policy_path", c, env) = Layer("policy_path", d, env)
  <2>1. ProjectConfigPath(c) = ProjectConfigPath(d)
    BY <1>5, RootIsShared DEF ProjectConfigPath
  <2>2. \A path \in {GlobalConfigPath(env), ProjectConfigPath(c)} :
            /\ Exists(configs, c, path) <=> Exists(configs, d, path)
            /\ Place(c, path) = Place(d, path)
            /\ FileLayer(configs, c, path) = FileLayer(configs, d, path)
    BY <1>1, SameFile
  <2>3. Layer("policy_path", c, env) = Layer("policy_path", d, env)
    BY <2>1, <2>2 DEF Layer
  <2>4. Resolve(configs, c, env) = Resolve(configs, d, env)
    BY <1>2, <1>5, <2>1, <2>2 DEF Resolve
  <2>5. QED
    BY <2>3, <2>4
<1>6. QED
  BY <1>3, <1>4, <1>5 DEF Resolves

\* Where a setting comes from, if the settings resolve.
LEMMA SettingIs ==
    ASSUME NEW cwd, NEW env, Resolves(configs, cwd, env), NEW k \in Keys
    PROVE  LET own == FileLayer(configs, cwd, ProjectConfigPath(cwd))
               global == FileLayer(configs, cwd, GlobalConfigPath(env))
           IN  Resolve(configs, cwd, env)[k] =
                   IF k \in DOMAIN EnvConfig(env) THEN EnvConfig(env)[k]
                   ELSE IF k \in DOMAIN own THEN own[k]
                   ELSE IF k \in DOMAIN global THEN global[k]
                   ELSE Defaults(env)[k]
<1> DEFINE own == FileLayer(configs, cwd, ProjectConfigPath(cwd))
           global == FileLayer(configs, cwd, GlobalConfigPath(env))
           rest == Over(global, Defaults(env))
           settings == Over(EnvConfig(env), Over(own, rest))
<1>1. "error" \in DOMAIN Unresolved
  BY DEF Unresolved
<1>2. Resolve(configs, cwd, env) = settings
  BY <1>1 DEF Resolves, Resolve, ApplyEnv
<1>3. k \in DOMAIN Defaults(env)
  BY DEF Defaults, Keys, Switches
<1> HIDE DEF own, global
<1>4. k \in DOMAIN rest /\ rest[k] = IF k \in DOMAIN global THEN global[k] ELSE Defaults(env)[k]
  BY <1>3 DEF Over
<1> HIDE DEF rest
<1>5. k \in DOMAIN Over(own, rest) /\ Over(own, rest)[k] = IF k \in DOMAIN own THEN own[k] ELSE rest[k]
  BY <1>4 DEF Over
<1>6. settings[k] = IF k \in DOMAIN EnvConfig(env) THEN EnvConfig(env)[k] ELSE Over(own, rest)[k]
  BY <1>5 DEF Over
<1>7. QED
  BY <1>2, <1>4, <1>5, <1>6 DEF own, global, rest

LEMMA FileValueIs ==
    ASSUME NEW files, NEW cwd, NEW path, NEW k \in DOMAIN FileLayer(files, cwd, path)
    PROVE  /\ Exists(files, cwd, path) /\ k \in DOMAIN files[Place(cwd, path)]
           /\ FileLayer(files, cwd, path)[k] = In(Parent(path), files[Place(cwd, path)][k])
           /\ Settled(path) => FileLayer(files, cwd, path)[k].form # "relative"
<1>1. Exists(files, cwd, path)
  <2>1. DOMAIN <<>> = {}
    OBVIOUS
  <2>2. QED
    BY <2>1 DEF FileLayer
<1>2. /\ k \in DOMAIN files[Place(cwd, path)]
      /\ FileLayer(files, cwd, path)[k] = In(Parent(path), files[Place(cwd, path)][k])
  BY <1>1 DEF FileLayer, FromFile
<1>3. Settled(path) => FileLayer(files, cwd, path)[k].form # "relative"
  <2> SUFFICES ASSUME Settled(path) PROVE FileLayer(files, cwd, path)[k].form # "relative"
    OBVIOUS
  <2>1. PICK place : path = Absolute(place)
    BY <1>1 DEF Exists, Settled
  <2>2. QED
    BY <1>2, <2>1, InIs
<1>4. QED
  BY <1>1, <1>2, <1>3

\* A setting means the same everywhere, unless it is the default policy path or
\* a relative path from the environment.
LEMMA SettingIsFixed ==
    ASSUME NEW cwd \in Dirs, NEW env \in Envs, Resolves(configs, cwd, env),
           GlobalConfigPath(env).form # "relative", env.runtime_dir.form # "relative",
           NEW k \in Keys, k \in DOMAIN env.vars => env.vars[k].form # "relative",
           k = "policy_path" => Layer("policy_path", cwd, env) # "defaults"
    PROVE  Resolve(configs, cwd, env)[k].form # "relative"
<1> DEFINE own == FileLayer(configs, cwd, ProjectConfigPath(cwd))
           global == FileLayer(configs, cwd, GlobalConfigPath(env))
<1>1. Settled(ProjectConfigPath(cwd)) /\ Settled(GlobalConfigPath(env))
  BY ProjectConfigIs, GlobalConfigIs
<1>2. k \in DOMAIN EnvConfig(env) => EnvConfig(env)[k].form # "relative"
  BY DEF EnvConfig, Word
<1>3. k \in DOMAIN own => own[k].form # "relative"
  BY <1>1, FileValueIs
<1>4. k \in DOMAIN global => global[k].form # "relative"
  BY <1>1, FileValueIs
<1>5. k # "policy_path" => Defaults(env)[k].form # "relative"
  <2>1. env.runtime_dir \in Directories \cup {Absent}
    BY SetupAssumption DEF IsEnv, Directories
  <2>2. \A x : In(IF env.runtime_dir # Absent THEN env.runtime_dir
                  ELSE Absolute(<<"run", "user", "uid">>), Relative(x)).form # "relative"
    BY <2>1, DirectoryIs, InIs
  <2>3. \A x : Word(x).form # "relative" /\ Absolute(x).form # "relative"
    BY AbsoluteIs DEF Word
  <2> DEFINE backend == In(IF env.runtime_dir # Absent THEN env.runtime_dir
                           ELSE Absolute(<<"run", "user", "uid">>),
                           Relative(<<"podman", "podman.sock">>))
  <2>4. backend.form # "relative"
    BY <2>2
  <2> HIDE DEF backend
  <2>5. Defaults(env) =
            [listen_socket |-> Absolute(<<"tmp", "psp.sock">>), backend |-> backend,
             policy_path |-> Relative(<<"policy", "default-policy.json">>),
             advertised_host |-> Word("127.0.0.1"),
             keep_on_failure |-> Word(FALSE), require_session_id |-> Word(FALSE)]
    BY DEF Defaults, backend
  <2>6. /\ Defaults(env)["listen_socket"] = Absolute(<<"tmp", "psp.sock">>)
        /\ Defaults(env)["backend"] = backend
        /\ Defaults(env)["advertised_host"] = Word("127.0.0.1")
        /\ Defaults(env)["keep_on_failure"] = Word(FALSE)
        /\ Defaults(env)["require_session_id"] = Word(FALSE)
    BY <2>5
  <2>7. \A s \in Keys \ {"policy_path"} : Defaults(env)[s].form # "relative"
    BY <2>3, <2>4, <2>6 DEF Keys, Switches
  <2>8. QED
    BY <2>7
<1>6. k = "policy_path" => k \in DOMAIN EnvConfig(env) \cup DOMAIN own \cup DOMAIN global
  BY DEF Layer
<1> HIDE DEF own, global
<1>7. QED
  BY <1>2, <1>3, <1>4, <1>5, <1>6, SettingIs DEF own, global

\* What a repository's directories have in common, with any files: the settings
\* of a command, in a worktree too.  A submodule and its worktrees, and a checkout
\* whose git directory has another name than .git and its worktrees, are not alike.
THEOREM SettingsAreShared == Spec => []OneConfigurationPerProject
<1>1. ASSUME NEW env \in Envs, GlobalConfigPath(env).form # "relative", env.runtime_dir.form # "relative",
             NEW c \in Dirs, NEW d \in Dirs, Alike(c, d), Resolves(configs, c, env)
      PROVE  /\ Resolves(configs, d, env)
             /\ \A k \in Keys :
                    /\ k \in DOMAIN env.vars => env.vars[k].form # "relative"
                    /\ k = "policy_path" => Layer("policy_path", c, env) # "defaults"
                    => Place(c, Resolve(configs, c, env)[k]) = Place(d, Resolve(configs, d, env)[k])
  <2>1. Resolves(configs, d, env) /\ Resolve(configs, c, env) = Resolve(configs, d, env)
    BY <1>1, SameSettings
  <2>2. \A k \in Keys :
            /\ k \in DOMAIN env.vars => env.vars[k].form # "relative"
            /\ k = "policy_path" => Layer("policy_path", c, env) # "defaults"
            => Resolve(configs, c, env)[k].form # "relative"
    BY <1>1, SettingIsFixed
  <2>3. QED
    BY <2>1, <2>2, PlaceOfSettled
<1>2. OneConfigurationPerProject
  <2> SUFFICES ASSUME NEW env \in {e \in Envs : "relative" \notin {GlobalConfigPath(e).form, e.runtime_dir.form}}
               PROVE  LET able == {d \in Dirs : Resolves(configs, d, env)}
                          views == {[cwd |-> d, settings |-> Resolve(configs, d, env),
                                     layer |-> Layer("policy_path", d, env)] : d \in able}
                          fixed == {k \in Keys : k \in DOMAIN env.vars => env.vars[k].form # "relative"}
                      IN  /\ \A c \in able, d \in Dirs : Alike(c, d) => d \in able
                          /\ \A v, w \in views : Alike(v.cwd, w.cwd) =>
                                 \A k \in fixed \ (IF v.layer = "defaults" THEN {"policy_path"} ELSE {}) :
                                     Place(v.cwd, v.settings[k]) = Place(w.cwd, w.settings[k])
    BY Zenon DEF OneConfigurationPerProject
  <2> DEFINE able == {d \in Dirs : Resolves(configs, d, env)}
             views == {[cwd |-> d, settings |-> Resolve(configs, d, env),
                        layer |-> Layer("policy_path", d, env)] : d \in able}
             fixed == {k \in Keys : k \in DOMAIN env.vars => env.vars[k].form # "relative"}
  <2>1. /\ env \in Envs /\ GlobalConfigPath(env).form # "relative" /\ env.runtime_dir.form # "relative"
        /\ able \subseteq Dirs
    OBVIOUS
  <2>2. \A c \in able, d \in Dirs : Alike(c, d) => d \in able
    BY <1>1, <2>1
  <2>3. ASSUME NEW v \in views, NEW w \in views, Alike(v.cwd, w.cwd),
               NEW k \in fixed \ (IF v.layer = "defaults" THEN {"policy_path"} ELSE {})
        PROVE  Place(v.cwd, v.settings[k]) = Place(w.cwd, w.settings[k])
    <3>1. /\ v.cwd \in able /\ v.settings = Resolve(configs, v.cwd, env)
          /\ v.layer = Layer("policy_path", v.cwd, env)
          /\ w.cwd \in able /\ w.settings = Resolve(configs, w.cwd, env)
      BY <2>3
    <3>2. /\ k \in Keys
          /\ k \in DOMAIN env.vars => env.vars[k].form # "relative"
          /\ k = "policy_path" => v.layer # "defaults"
      BY <2>3
    <3>3. Resolves(configs, v.cwd, env)
      BY <3>1
    <3> HIDE DEF views, fixed, able
    <3>4. QED
      BY <1>1, <2>1, <2>3, <3>1, <3>2, <3>3
  <2>4. QED
    BY <2>2, <2>3
<1>3. QED
  BY <1>2, PTL

-----------------------------------------------------------------------------
(* What a command allows is served *)

\* A policy that a file names.
LEMMA NamedByFile ==
    ASSUME NEW cwd, NEW env, NEW project \in BOOLEAN,
           NamedBy(IF project THEN "project" ELSE "global", cwd, env)
    PROVE  LET path == IF project THEN ProjectConfigPath(cwd) ELSE GlobalConfigPath(env) IN
           /\ Exists(configs, cwd, path) /\ "policy_path" \in DOMAIN configs[Place(cwd, path)]
           /\ Resolve(configs, cwd, env)["policy_path"] = In(Parent(path), configs[Place(cwd, path)]["policy_path"])
<1> DEFINE path == IF project THEN ProjectConfigPath(cwd) ELSE GlobalConfigPath(env)
<1>1. /\ Resolves(configs, cwd, env)
      /\ Layer("policy_path", cwd, env) = IF project THEN "project" ELSE "global"
  BY DEF NamedBy
<1>2. "policy_path" \in DOMAIN FileLayer(configs, cwd, path)
  BY <1>1 DEF Layer
<1>3. Resolve(configs, cwd, env)["policy_path"] = FileLayer(configs, cwd, path)["policy_path"]
  <2>1. "policy_path" \in Keys
    BY DEF Keys
  <2>2. QED
    BY <1>1, <2>1, SettingIs DEF Layer
<1> HIDE DEF path
<1>4. QED
  BY <1>2, <1>3, FileValueIs DEF path

\* discover's own reading of the configuration files and Config::resolve's lead
\* to one policy, where the layer that discover reads names it.
LEMMA ReadingsAgree ==
    ASSUME NEW cwd, NEW env, NEW project \in BOOLEAN,
           NamedBy(IF project THEN "project" ELSE "global", cwd, env)
    PROVE  DiscoveryPolicyPath(configs, cwd, env, project) = Resolve(configs, cwd, env)["policy_path"]
<1> DEFINE path == IF project THEN ProjectConfigPath(cwd) ELSE GlobalConfigPath(env)
           value == Resolve(configs, cwd, env)["policy_path"]
<1>1. value.form = "absolute"
  BY DEF NamedBy
<1>2. /\ Exists(configs, cwd, path) /\ "policy_path" \in DOMAIN configs[Place(cwd, path)]
      /\ value = In(Parent(path), configs[Place(cwd, path)]["policy_path"])
  BY NamedByFile
<1> HIDE DEF value, path
<1>3. NamedPolicy(configs, cwd, path) = value
  BY <1>2 DEF NamedPolicy
<1>4. value # Absent
  BY <1>1 DEF Absent
<1>5. QED
  BY <1>3, <1>4 DEF path, value, DiscoveryPolicyPath, ProjectPolicyPath, GlobalPolicyPath

\* A grant is in the policy that PSP would have served when it was given.
Held(g) ==
    /\ g.cwd \in Dirs /\ g.env \in Envs
    /\ g.served \in DOMAIN policies /\ g.what \in policies[g.served]

GrantsHeld == \A g \in granted : Held(g)

\* A command edits the policy of the layer it reads.
LEMMA GrantIsHeld ==
    ASSUME GrantsHeld,
           NEW cwd \in Dirs, NEW env \in Envs, NEW layer, NEW place \in DOMAIN policies, NEW what,
           NamedBy(layer, cwd, env) => place = ServedPolicy(cwd, env),
           Grant(cwd, env, layer, place, what)
    PROVE  GrantsHeld'
<1> DEFINE new == [cwd |-> cwd, env |-> env, served |-> ServedPolicy(cwd, env), what |-> what]
<1>1. /\ policies' = [policies EXCEPT ![place] = @ \cup {what}]
      /\ granted' = IF NamedBy(layer, cwd, env) THEN granted \cup {new} ELSE granted
  BY DEF Grant
<1>2. /\ DOMAIN policies' = DOMAIN policies /\ what \in policies'[place]
      /\ \A p \in DOMAIN policies : policies[p] \subseteq policies'[p]
  BY <1>1
<1>3. new.cwd = cwd /\ new.env = env /\ new.served = ServedPolicy(cwd, env) /\ new.what = what
  OBVIOUS
<1> HIDE DEF new
<1>4. ASSUME NEW g \in granted' PROVE Held(g)'
  <2>1. CASE g \in granted
    BY <1>2, <2>1 DEF GrantsHeld, Held
  <2>2. CASE g = new /\ NamedBy(layer, cwd, env)
    BY <1>2, <1>3, <2>2 DEF Held
  <2>3. QED
    BY <1>1, <2>1, <2>2
<1>5. QED
  BY <1>4 DEF GrantsHeld

LEMMA GrantsHeldStep == ASSUME GrantsHeld, [Next]_vars PROVE GrantsHeld'
<1>1. ASSUME NEW cwd \in Dirs, NEW env \in Envs, ImagesAllow(cwd, env) PROVE GrantsHeld'
  BY <1>1, GrantIsHeld DEF ImagesAllow
<1>2. ASSUME NEW cwd \in Dirs, NEW env \in Envs, NEW project \in BOOLEAN, DiscoverAllow(cwd, env, project)
      PROVE  GrantsHeld'
  <2> DEFINE path == DiscoveryPolicyPath(configs, cwd, env, project)
             layer == IF project THEN "project" ELSE "global"
  <2>1. NamedBy(layer, cwd, env) => Place(cwd, path) = ServedPolicy(cwd, env)
    BY ReadingsAgree DEF ServedPolicy
  <2>2. Place(cwd, path) \in DOMAIN policies /\ Grant(cwd, env, layer, Place(cwd, path), "container")
    BY <1>2 DEF DiscoverAllow, Exists
  <2> HIDE DEF path, layer
  <2>3. QED
    BY <2>1, <2>2, GrantIsHeld
<1>3. ASSUME NEW cwd, NEW env, NEW project, NEW force, PspInit(cwd, env, project, force)
      PROVE  GrantsHeld'
  <2> DEFINE place == InitFiles(cwd, env, project).policy
  <2>1. /\ policies' = IF Kept(policies, place, force) THEN policies ELSE Over([p \in {place} |-> {}], policies)
        /\ granted' = {g \in granted : Kept(policies, place, force) \/ g.served # place}
    BY <1>3 DEF PspInit
  <2> HIDE DEF place
  <2>2. \A p \in DOMAIN policies : Kept(policies, place, force) \/ p # place =>
            p \in DOMAIN policies' /\ policies'[p] = policies[p]
    BY <2>1 DEF Over
  <2>3. QED
    BY <2>1, <2>2 DEF GrantsHeld, Held
<1>4. CASE UNCHANGED vars
  BY <1>4 DEF vars, GrantsHeld, Held
<1>5. QED
  BY <1>1, <1>2, <1>3, <1>4 DEF Next

\* psp discover allow, psp images allow: the policy they edit is the one psp run
\* loads, in any directory that is alike.
THEOREM EditedPolicyIsServed == Spec => []GrantsAreServed
<1>1. Init => GrantsHeld
  BY DEF Init, GrantsHeld
<1>2. GrantsHeld => GrantsAreServed
  <2> SUFFICES ASSUME GrantsHeld, NEW g \in granted,
                      Resolve(configs, g.cwd, g.env)["policy_path"].form = "absolute",
                      ServedPolicy(g.cwd, g.env) = g.served,
                      NEW d \in Dirs, Alike(g.cwd, d),
                      GlobalConfigPath(g.env).form # "relative" \/ d = g.cwd
               PROVE  /\ ServedPolicy(d, g.env) = g.served /\ g.served \in DOMAIN policies
                      /\ g.what \in policies[g.served]
    BY DEF GrantsAreServed
  <2>1. /\ g.cwd \in Dirs /\ g.env \in Envs
        /\ g.served \in DOMAIN policies /\ g.what \in policies[g.served]
    BY DEF GrantsHeld, Held
  <2>2. ServedPolicy(d, g.env) = ServedPolicy(g.cwd, g.env)
    <3>1. CASE d = g.cwd
      BY <3>1
    <3>2. CASE GlobalConfigPath(g.env).form # "relative"
      <4>1. Resolve(configs, d, g.env) = Resolve(configs, g.cwd, g.env)
        BY <2>1, <3>2, SameSettings
      <4>2. QED
        BY <4>1, PlaceOfSettled DEF ServedPolicy
    <3>3. QED
      BY <3>1, <3>2
  <2>3. QED
    BY <2>1, <2>2
<1>3. QED
  BY <1>1, <1>2, GrantsHeldStep, PTL DEF Spec

-----------------------------------------------------------------------------
(* psp init's policy is served *)

\* What psp init has set up is still there.
SetUp ==
    setup.done =>
        LET f == InitFiles(setup.cwd, setup.env, setup.project) IN
        /\ setup.cwd \in Dirs /\ setup.env \in Envs /\ setup.project \in BOOLEAN
        /\ setup.policy = f.policy /\ f.policy \in DOMAIN policies
        /\ f.config \in DOMAIN configs /\ configs[f.config] = [policy_path |-> f.names]

LEMMA SetUpStep == ASSUME SetUp, [Next]_vars PROVE SetUp'
<1>1. ASSUME configs' = configs, setup' = setup, DOMAIN policies' = DOMAIN policies PROVE SetUp'
  BY <1>1 DEF SetUp
<1>2. ASSUME NEW cwd, NEW env, NEW layer, NEW place, NEW what, Grant(cwd, env, layer, place, what)
      PROVE  SetUp'
  BY <1>1, <1>2 DEF Grant
<1>3. ASSUME NEW cwd \in Dirs, NEW env \in Envs, NEW project \in BOOLEAN, NEW force \in BOOLEAN,
             PspInit(cwd, env, project, force)
      PROVE  SetUp'
  <2> DEFINE f == InitFiles(cwd, env, project)
  <2>1. DOMAIN policies \subseteq DOMAIN policies' /\ f.policy \in DOMAIN policies'
    <3>1. policies' = IF Kept(policies, f.policy, force) THEN policies ELSE Over([p \in {f.policy} |-> {}], policies)
      BY <1>3 DEF PspInit
    <3> HIDE DEF f
    <3>2. QED
      BY <3>1 DEF Kept, Over
  <2>2. CASE Kept(configs, f.config, force)
    <3>1. configs' = configs /\ setup' = setup
      BY <1>3, <2>2 DEF PspInit
    <3>2. QED
      BY <2>1, <3>1 DEF SetUp
  <2>3. CASE ~Kept(configs, f.config, force)
    <3>1. /\ configs' = Over([p \in {f.config} |-> [policy_path |-> f.names]], configs)
          /\ setup' = [done |-> TRUE, cwd |-> cwd, env |-> env, project |-> project, policy |-> f.policy]
      BY <1>3, <2>3 DEF PspInit
    <3>2. /\ setup'.cwd = cwd /\ setup'.env = env /\ setup'.project = project
          /\ setup'.policy = f.policy
      BY <3>1
    <3>3. InitFiles(setup'.cwd, setup'.env, setup'.project) = f
      BY <3>2
    <3> HIDE DEF f
    <3>4. f.config \in DOMAIN configs' /\ configs'[f.config] = [policy_path |-> f.names]
      BY <3>1 DEF Over
    <3>5. QED
      BY <2>1, <3>2, <3>3, <3>4 DEF SetUp
  <2>4. QED
    BY <2>2, <2>3
<1>4. CASE UNCHANGED vars
  BY <1>1, <1>4 DEF vars
<1>5. QED
  BY <1>2, <1>3, <1>4 DEF Next, ImagesAllow, DiscoverAllow

\* A file below a directory.
LEMMA Below ==
    ASSUME NEW s \in Places, NEW a \in Segments, NEW b \in Segments
    PROVE  /\ s \o <<a>> = Append(s, a) /\ s \o <<a>> \in Places
           /\ Front(s \o <<a>>) = s
           /\ s \o <<a, b>> = (s \o <<a>>) \o <<b>>
<1>1. <<a>> \in Seq(Segments) /\ <<b>> \in Seq(Segments)
  OBVIOUS
<1>2. s \o <<a>> = Append(s, a)
  BY AppendIsConcat DEF Places
<1>3. Append(s, a) \in Places /\ Front(Append(s, a)) = s
  BY FrontIs DEF Places
<1>4. <<a>> \o <<b>> = <<a, b>>
  <2>1. /\ <<a>> \o <<b>> \in Seq(Segments) /\ Len(<<a>> \o <<b>>) = 2
        /\ (<<a>> \o <<b>>)[1] = a /\ (<<a>> \o <<b>>)[2] = b
    BY <1>1, ConcatProperties
  <2>2. <<a, b>> \in Seq(Segments) /\ Len(<<a, b>>) = 2 /\ <<a, b>>[1] = a /\ <<a, b>>[2] = b
    OBVIOUS
  <2>3. \A i \in 1 .. 2 : (<<a>> \o <<b>>)[i] = <<a, b>>[i]
    BY <2>1, <2>2
  <2>4. QED
    BY <2>1, <2>2, <2>3, SeqEqual
<1>5. (s \o <<a>>) \o <<b>> = s \o (<<a>> \o <<b>>)
  BY <1>1, ConcatAssociative DEF Places
<1>6. QED
  BY <1>2, <1>3, <1>4, <1>5

\* psp init --project at a root writes the configuration that the directories of
\* the repository find, and names its policy.
LEMMA ProjectIsFound ==
    ASSUME NEW root \in Dirs, root \in GitDirs, NEW d \in Dirs, Project[d] = Project[root],
           NEW env, NamedBy("project", d, env),
           configs[InitFiles(root, env, TRUE).config] = [policy_path |-> InitFiles(root, env, TRUE).names]
    PROVE  ServedPolicy(d, env) = InitFiles(root, env, TRUE).policy
<1> DEFINE f == InitFiles(root, env, TRUE)
           path == ProjectConfigPath(d)
           default == Relative(<<"policy", "default-policy.json">>)
<1>1. /\ f.policy = root \o <<"policy", "default-policy.json">>
      /\ f.config = Append(root, ".psp.json") /\ f.names = default
  BY DEF InitFiles
<1>2. path = Absolute(root \o <<".psp.json">>)
  <2>1. ProjectRoot(d) = Absolute(root)
    BY RootItself, RootOfProject
  <2>2. QED
    BY <2>1, AbsoluteIs, RelativeIs DEF ProjectConfigPath
<1>3. root \in Places /\ ".psp.json" \in Segments
  BY SetupAssumption, Strings DEF Segments
<1>4. Place(d, path) = f.config /\ Parent(path) = Absolute(root)
  <2>1. root \o <<".psp.json">> = f.config /\ Front(root \o <<".psp.json">>) = root
    BY <1>1, <1>3, Below
  <2> HIDE DEF f, path, default
  <2>2. QED
    BY <1>2, <2>1, PlaceOfAbsolute, InIs
<1>5. Resolve(configs, d, env)["policy_path"] = In(Parent(path), configs[Place(d, path)]["policy_path"])
  BY NamedByFile DEF NamedBy
<1>6. configs[Place(d, path)]["policy_path"] = default
  <2>1. configs[f.config] = [policy_path |-> default]
    BY <1>1
  <2> HIDE DEF f, path, default
  <2>2. QED
    BY <1>4, <2>1
<1> HIDE DEF path
<1>7. Resolve(configs, d, env)["policy_path"] = Absolute(f.policy)
  <2> HIDE DEF f
  <2>1. QED
    BY <1>1, <1>4, <1>5, <1>6, RelativeIs
<1>8. QED
  BY <1>7, PlaceOfAbsolute DEF ServedPolicy

\* psp init in an environment whose configuration directory is one place writes
\* the configuration that every directory finds, and names its policy.
LEMMA GlobalIsFound ==
    ASSUME NEW cwd, NEW d, NEW env \in Envs, GlobalConfigPath(env).form = "absolute",
           NamedBy("global", d, env),
           configs[InitFiles(cwd, env, FALSE).config] = [policy_path |-> InitFiles(cwd, env, FALSE).names]
    PROVE  ServedPolicy(d, env) = InitFiles(cwd, env, FALSE).policy
<1> DEFINE f == InitFiles(cwd, env, FALSE)
           path == GlobalConfigPath(env)
<1>1. PICK place \in Places : ConfigDir(env) = Absolute(place) /\ path = Absolute(place \o <<"config.json">>)
  <2>1. /\ "psp" \in Segments /\ ".config" \in Segments /\ "config.json" \in Segments
        /\ Absent.form = "none"
    BY DEF Segments, Absent
  <2>2. \A dir \in {env.config_home, env.home} : dir \in Directories \cup {Absent}
    BY SetupAssumption DEF IsEnv, Directories
  <2>3. ASSUME NEW dir \in Directories, NEW x, In(dir, Relative(x)).form = "absolute"
        PROVE  dir.comps \in Places /\ dir = Absolute(dir.comps) /\ dir # Absent
    BY <2>3, DirectoryIs, Strings DEF Directories
  <2>4. CASE env.config_home # Absent
    <3> DEFINE base == env.config_home.comps
    <3>1. path = In(env.config_home, Relative(<<"psp", "config.json">>))
      BY <2>4 DEF GlobalConfigPath
    <3>2. base \in Places /\ env.config_home = Absolute(base)
      BY <2>2, <2>3, <2>4, <3>1
    <3>3. ConfigDir(env) = In(env.config_home, Relative(<<"psp">>))
      BY <2>4 DEF ConfigDir
    <3> HIDE DEF base, path
    <3>4. ConfigDir(env) = Absolute(base \o <<"psp">>) /\ path = Absolute(base \o <<"psp", "config.json">>)
      BY <3>1, <3>2, <3>3, RelativeIs
    <3>5. QED
      BY <2>1, <3>2, <3>4, Below
  <2>5. CASE env.config_home = Absent
    <3> DEFINE base == env.home.comps
    <3>1. env.home # Absent /\ path = In(env.home, Relative(<<".config", "psp", "config.json">>))
      BY <2>1, <2>5 DEF GlobalConfigPath
    <3>2. base \in Places /\ env.home = Absolute(base)
      BY <2>2, <2>3, <3>1
    <3>3. ConfigDir(env) = In(In(env.home, Relative(<<".config">>)), Relative(<<"psp">>))
      BY <2>5, <3>1 DEF ConfigDir
    <3> HIDE DEF base, path
    <3>4. /\ ConfigDir(env) = Absolute((base \o <<".config">>) \o <<"psp">>)
          /\ path = Absolute(base \o <<".config", "psp", "config.json">>)
      BY <3>1, <3>2, <3>3, RelativeIs
    <3>5. base \o <<".config", "psp", "config.json">> = ((base \o <<".config">>) \o <<"psp">>) \o <<"config.json">>
      <4>1. /\ base \o <<".config">> \in Places
            /\ (base \o <<".config">>) \o <<"psp", "config.json">>
                   = ((base \o <<".config">>) \o <<"psp">>) \o <<"config.json">>
        BY <2>1, <3>2, Below
      <4>2. (base \o <<".config">>) \o <<"psp", "config.json">> = base \o (<<".config">> \o <<"psp", "config.json">>)
        BY <2>1, <3>2, ConcatAssociative DEF Places
      <4>3. <<".config">> \o <<"psp", "config.json">> = <<".config", "psp", "config.json">>
        <5> DEFINE s == <<".config">> \o <<"psp", "config.json">>
        <5>1. <<".config">> \in Seq(Segments) /\ <<"psp", "config.json">> \in Seq(Segments)
          BY <2>1
        <5>2. s \in Seq(Segments) /\ Len(s) = 3 /\ s[1] = ".config" /\ s[2] = "psp" /\ s[3] = "config.json"
          BY <5>1, ConcatProperties
        <5> HIDE DEF s
        <5>3. <<".config", "psp", "config.json">> \in Seq(Segments)
          BY <2>1
        <5>4. \A i \in 1 .. 3 : s[i] = <<".config", "psp", "config.json">>[i]
          BY <5>2
        <5>5. s = <<".config", "psp", "config.json">>
          BY <5>2, <5>3, <5>4, SeqEqual
        <5>6. QED
          BY <5>5 DEF s
      <4>4. QED
        BY <4>1, <4>2, <4>3
    <3>6. (base \o <<".config">>) \o <<"psp">> \in Places
      BY <2>1, <3>2, Below
    <3>7. QED
      BY <3>4, <3>5, <3>6
  <2>6. QED
    BY <2>4, <2>5
<1>2. /\ f.policy = Append(Place(cwd, ConfigDir(env)), "policy.json")
      /\ f.config = Append(Place(cwd, ConfigDir(env)), "config.json")
      /\ f.names = In(ConfigDir(env), Relative(<<"policy.json">>))
  BY DEF InitFiles
<1> HIDE DEF f, path
<1>3. /\ f.policy = place \o <<"policy.json">> /\ f.names = Absolute(place \o <<"policy.json">>)
      /\ f.config = place \o <<"config.json">>
  <2>1. "policy.json" \in Segments /\ "config.json" \in Segments
    BY DEF Segments
  <2>2. QED
    BY <1>1, <1>2, <2>1, PlaceOfAbsolute, RelativeIs, Below
<1>4. /\ Place(d, path) = f.config
      /\ Parent(path) = Absolute(Front(place \o <<"config.json">>))
  BY <1>1, <1>3, PlaceOfAbsolute, InIs
<1>5. Resolve(configs, d, env)["policy_path"] = In(Parent(path), configs[Place(d, path)]["policy_path"])
  BY NamedByFile DEF NamedBy, path
<1>6. configs[Place(d, path)]["policy_path"] = Absolute(f.policy)
  <2>1. configs[f.config] = [policy_path |-> Absolute(f.policy)]
    BY <1>3 DEF f
  <2>2. QED
    BY <1>4, <2>1
<1>7. Resolve(configs, d, env)["policy_path"] = Absolute(f.policy)
  BY <1>4, <1>5, <1>6, AbsoluteIs, InIs
<1>8. QED
  BY <1>7, PlaceOfAbsolute DEF ServedPolicy, f

\* psp init: the policy it made is the one psp run loads, wherever the
\* configuration it wrote decides.
THEOREM InitialPolicyIsServed == Spec => []InitIsServed
<1>1. Init => SetUp
  BY DEF Init, SetUp, NoSetup
<1>2. SetUp => InitIsServed
  <2> SUFFICES ASSUME SetUp, setup.done, NEW d \in Dirs,
                      IF setup.project THEN setup.cwd \in GitDirs /\ Project[d] = Project[setup.cwd]
                      ELSE GlobalConfigPath(setup.env).form = "absolute",
                      NamedBy(IF setup.project THEN "project" ELSE "global", d, setup.env)
               PROVE  ServedPolicy(d, setup.env) = setup.policy /\ setup.policy \in DOMAIN policies
    BY DEF InitIsServed
  <2> DEFINE f == InitFiles(setup.cwd, setup.env, setup.project)
  <2>1. /\ setup.cwd \in Dirs /\ setup.env \in Envs /\ setup.project \in BOOLEAN
        /\ setup.policy = f.policy /\ f.policy \in DOMAIN policies
        /\ configs[f.config] = [policy_path |-> f.names]
    BY DEF SetUp
  <2> HIDE DEF f
  <2>2. CASE setup.project = TRUE
    <3>1. /\ setup.cwd \in GitDirs /\ Project[d] = Project[setup.cwd] /\ NamedBy("project", d, setup.env)
          /\ f = InitFiles(setup.cwd, setup.env, TRUE)
      BY <2>2 DEF f
    <3>2. ServedPolicy(d, setup.env) = InitFiles(setup.cwd, setup.env, TRUE).policy
      BY <2>1, <3>1, ProjectIsFound
    <3>3. QED
      BY <2>1, <3>1, <3>2
  <2>3. CASE setup.project = FALSE
    <3>1. /\ GlobalConfigPath(setup.env).form = "absolute" /\ NamedBy("global", d, setup.env)
          /\ f = InitFiles(setup.cwd, setup.env, FALSE)
      BY <2>3 DEF f
    <3>2. ServedPolicy(d, setup.env) = InitFiles(setup.cwd, setup.env, FALSE).policy
      BY <2>1, <3>1, GlobalIsFound
    <3>3. QED
      BY <2>1, <3>1, <3>2
  <2>4. QED
    BY <2>1, <2>2, <2>3
<1>3. QED
  BY <1>1, <1>2, SetUpStep, PTL DEF Spec
=============================================================================
