------------------------------- MODULE Policy -------------------------------
(***************************************************************************)
(* The verdict of the policy on a request (src/policy.rs,                  *)
(* evaluate_request): bind paths, the payload of a create, image pulls.    *)
(***************************************************************************)
EXTENDS PolicyLists, SequencesExt

-----------------------------------------------------------------------------
(* Bind paths: [absolute : BOOLEAN, comps : Seq(components)] *)

\* One component: "." stays, and the parent of the root is the root.
Enter(dir, c) ==
    IF c = "." \/ (c = ".." /\ dir = <<>>) THEN dir
    ELSE IF c = ".." THEN Front(dir)
    ELSE Append(dir, c)

\* Walk(comps)[k]: where the first k components lead.
Walk(comps) ==
    LET walk[k \in 0 .. Len(comps)] == IF k = 0 THEN <<>> ELSE Enter(walk[k - 1], comps[k])
    IN  walk

\* normalize_bind_path: a relative path is taken from the root.
NormalPath(path) == Walk(path.comps)[Len(path.comps)]

\* Fault: the path is compared as it is written.
BindAllowedAsWritten(p, path) ==
    \E e \in p.binds : e.comps # <<>> /\ IsPrefix(e.comps, path.comps)

\* The prefix has to end where a slash follows: "/", which no other path
\* continues with a slash, is the prefix of itself only.
BindAllowed(p, path) ==
    /\ path.absolute \/ path.comps # <<>>
    /\ \E e \in p.binds :
           \/ NormalPath(path) = NormalPath(e)
           \/ NormalPath(e) # <<>> /\ IsStrictPrefix(NormalPath(e), NormalPath(path))

-----------------------------------------------------------------------------
(***************************************************************************)
(* Requests: [kind : {"create", "pull", "other"}, payload].  A create's     *)
(* payload is Nothing when the typed parse fails, and else                  *)
(* [privileged, modes, devices, caps, binds, mounts, image]: modes are the  *)
(* values of the six namespace members, mounts the sources of the mounts of *)
(* type bind (Nothing without a source).                                   *)
(***************************************************************************)
HostModes == {"host", "container:x"}

Sources(r) == r.binds \cup (r.mounts \ {Nothing})

UnlistedSource(p, r) ==
    Nothing \in r.mounts \/ \E s \in Sources(r) : ~BindAllowed(p, s)

\* What evaluate_container_create_inner looks at, in its order.
Checks(p, r) == <<
    [rule |-> "privileged",     fails |-> r.privileged],
    [rule |-> "host namespace", fails |-> r.modes \cap HostModes # {}],
    [rule |-> "device mount",   fails |-> r.devices # {}],
    [rule |-> "cap add",        fails |-> r.caps # {}],
    [rule |-> "bind mount",     fails |-> UnlistedSource(p, r)] >>

CreateVerdict(p, r) ==
    LET first == SelectInSeq(Checks(p, r), LAMBDA c : c.fails)
    IN  IF first # 0 THEN Checks(p, r)[first].rule ELSE ImageVerdict(p, r.image)

\* evaluate_request: a pull without fromImage, and any other endpoint, passes.
Verdict(p, request) ==
    CASE request.kind = "create" /\ request.payload = Nothing -> "parse error"
      [] request.kind = "create" /\ request.payload # Nothing -> CreateVerdict(p, request.payload)
      [] request.kind = "pull" /\ request.payload # Nothing -> ImageVerdict(p, request.payload)
      [] OTHER -> "allowed"
=============================================================================
