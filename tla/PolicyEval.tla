----------------------------- MODULE PolicyEval -----------------------------
(***************************************************************************)
(* The handler's decisions (src/proxy.rs, proxy_request): a request is      *)
(* checked against the session rule, the endpoint table, the access rule of *)
(* containers and the policy, and what the backend answers is rewritten.    *)
(*                                                                         *)
(* Requests are taken one after the other, under a policy that was loaded  *)
(* once and in front of a backend that stays as it is; Proxy has the        *)
(* handlers, and the backend, at work at the same time.                     *)
(***************************************************************************)
EXTENDS Policy, Routes

CONSTANTS
    Policies,   \* policies a process may have loaded
    Backends,   \* sets of containers the backend may hold
    Requests,   \* requests it may see: [method, path, session, payload]
    RequireSession

\* A container has an id of its own, hexadecimal digits that are nobody's name.
ASSUME BackendsAssumption ==
    \A B \in Backends : \A c, d \in B :
        c.id # "json" /\ (c.id \in {d.id, d.name} => c = d)

ASSUME RequestsAssumption ==
    \A r \in Requests :
        /\ r = [method |-> r.method, path |-> r.path, session |-> r.session, payload |-> r.payload]
        /\ r.path \in Seq(STRING)

VARIABLES policy, containers, request, verdict, reply

vars == <<policy, containers, request, verdict, reply>>

NoRequest == [method |-> "GET", path |-> <<>>, session |-> NoHeader, payload |-> Nothing]

Init ==
    /\ policy \in Policies
    /\ containers \in Backends
    /\ request = NoRequest
    /\ verdict = "none"
    /\ reply = {}

\* What evaluate_request dispatches on.
Kind(method, path) ==
    CASE method = "POST" /\ path = <<"containers", "create">> -> "create"
      [] method = "POST" /\ path = <<"images", "create">> -> "pull"
      [] OTHER -> "other"

IsPath(s) == s.comps \in Seq(STRING)

IsImage(i) ==
    /\ i = [parts |-> i.parts, tag |-> i.tag, digest |-> i.digest]
    /\ i.parts \in Seq(STRING) \ {<<>>}

ASSUME PoliciesAssumption ==
    \A p \in Policies :
        (\A e \in p.binds : IsPath(e)) /\ (\A i \in p.imageAllow \cup p.imageDeny : IsImage(i))

ASSUME PayloadsAssumption ==
    \A r \in Requests : Kind(r.method, Normalized(r.path)) = "create" /\ r.payload # Nothing =>
        /\ r.payload.privileged \in BOOLEAN /\ IsImage(r.payload.image)
        /\ Nothing \notin r.payload.binds /\ \A s \in Sources(r.payload) : IsPath(s)

Named(ref) == {c \in containers : ref \in {c.id, c.name}}

\* evaluate_container_access, on what the backend says of the container.  A
\* container the session table has was created with the label: it is managed.
Refused(ref) == \E c \in Named(ref) : ~c.managed /\ Access(policy, c) # "allowed"

\* proxy_request, up to the call of the backend.
Decision(r) ==
    LET path == Normalized(r.path) IN
    IF RequireSession /\ IsMutating(r.method) /\ EffectiveSession(r.session) = Anonymous
    THEN "session required"
    ELSE IF ~IsSupported(r.method, path) THEN "unsupported"
    ELSE IF Refused(ContainerRef(path)) THEN "container denied"
    ELSE Verdict(policy, [kind |-> Kind(r.method, path), payload |-> r.payload])

\* The containers the backend's answer tells of: all, or the one the path names.
Answer(r) ==
    CASE r.method = "GET" /\ Normalized(r.path) = Listing -> containers
      [] /\ r.method = "GET" /\ Normalized(r.path) # Listing
         /\ r.path # <<>> /\ Last(r.path) = "json" ->
             Named(ContainerRef(Normalized(r.path)))
      [] OTHER -> {}

Decide(r) ==
    /\ verdict = "none"
    /\ request' = r
    /\ verdict' = Decision(r)
    /\ UNCHANGED <<policy, containers, reply>>

\* The backend answers a request that is allowed with 200, or refuses it.
Respond ==
    /\ verdict = "allowed"
    /\ \E answer \in {Answer(request), {}} : reply' = Rewritten(request.method, request.path, answer)
    /\ verdict' = "answered"
    /\ UNCHANGED <<policy, containers, request>>

\* The client has its response; nothing of the request is kept.
Deliver ==
    /\ verdict \notin {"none", "allowed"}
    /\ request' = NoRequest
    /\ verdict' = "none"
    /\ reply' = {}
    /\ UNCHANGED <<policy, containers>>

Next == Respond \/ Deliver \/ \E r \in Requests : Decide(r)

Spec == Init /\ [][Next]_vars

-----------------------------------------------------------------------------
\* The order docs/policy-reference.md gives to the rules.
DocumentedOrder ==
    <<"parse error", "privileged", "host namespace", "device mount", "cap add",
      "bind mount", "image denylist", "image allowlist">>

Rank(rule) == CHOOSE k \in DOMAIN DocumentedOrder : DocumentedOrder[k] = rule

\* One lexical step: a component and the parent reference after it cancel, as
\* does a parent reference at the root; "." says nothing.
Shorter(path) ==
    {RemoveAt(path, k) : k \in {j \in DOMAIN path :
        path[j] = "." \/ (path[j] = ".." /\ j = 1)}}
    \cup {RemoveAt(RemoveAt(path, k), k) : k \in {j \in DOMAIN path :
        j < Len(path) /\ path[j] \notin {".", ".."} /\ path[j + 1] = ".."}}

\* Where a path leads: nothing is left to cancel.
Leads[path \in Seq(STRING)] ==
    IF Shorter(path) = {} THEN {path} ELSE UNION {Leads[q] : q \in Shorter(path)}

\* A source is under an entry if it leads to the entry or below it.
Under(path, entry) ==
    \E top \in Leads[entry.comps], place \in Leads[path.comps] :
        Len(top) <= Len(place) /\ top = SubSeq(place, 1, Len(top))

\* The image a reference stands for, written with all its parts.
Meaning(i) ==
    [registry |-> IF Len(i.parts) > 1 /\ (Len(i.parts) > 2 \/ i.parts[1] \in Registries)
                  THEN i.parts[1] ELSE "docker.io",
     repository |-> IF Len(i.parts) = 1 THEN <<"library">> \o i.parts
                    ELSE IF Len(i.parts) > 2 \/ i.parts[1] \in Registries
                    THEN Tail(i.parts) ELSE i.parts,
     version |-> IF i.digest # Nothing THEN <<i.tag, i.digest>>
                 ELSE IF i.tag = Nothing THEN <<"latest", Nothing>> ELSE <<i.tag, Nothing>>]

Means(list, i) == \E e \in list : Meaning(e) = Meaning(i)

\* The rules a create payload breaks, each stated without the others.
Broken(r) ==
    {rule \in {"privileged", "host namespace", "device mount", "cap add", "bind mount",
               "image denylist", "image allowlist"} :
        \/ rule = "privileged" /\ r.privileged
        \/ rule = "host namespace" /\ \E m \in r.modes : m \in HostModes
        \/ rule = "device mount" /\ r.devices # {}
        \/ rule = "cap add" /\ r.caps # {}
        \/ rule = "bind mount" /\ \E s \in r.binds \cup r.mounts :
               s = Nothing \/ (s # Nothing /\ ~\E e \in policy.binds : Under(s, e))
        \/ rule = "image denylist" /\ Means(policy.imageDeny, r.image)
        \/ rule = "image allowlist" /\ policy.imageAllow # {} /\ ~Means(policy.imageAllow, r.image)}

\* A create that reaches the policy is answered by the first rule it breaks, in
\* the order the documentation gives, and is allowed if it breaks none.  What an
\* entry for the root allows is RootAllowsAll's question.
FirstBrokenRule ==
    /\ \A e \in policy.binds : <<>> \notin Leads[e.comps]
    /\ verdict \in ToSet(DocumentedOrder) \cup {"allowed"}
    /\ request.method = "POST" /\ Normalized(request.path) = <<"containers", "create">>
    /\ request.payload # Nothing
    => IF Broken(request.payload) = {} THEN verdict = "allowed"
       ELSE /\ verdict \in Broken(request.payload)
            /\ \A rule \in Broken(request.payload) : Rank(verdict) <= Rank(rule)

\* docs/compatibility/testcontainers-profile.md, Supported endpoints: "{}" stands
\* for one segment.
DocumentedEndpoints ==
    [GET |-> {<<"_ping">>, <<"version">>, <<"info">>, <<"containers", "json">>,
              <<"containers", "{}", "json">>, <<"containers", "{}", "logs">>,
              <<"exec", "{}", "json">>},
     POST |-> {<<"images", "create">>, <<"containers", "create">>,
               <<"containers", "{}", "start">>, <<"containers", "{}", "stop">>,
               <<"containers", "{}", "wait">>, <<"containers", "{}", "exec">>,
               <<"exec", "{}", "start">>},
     PUT |-> {<<"containers", "{}", "archive">>},
     DELETE |-> {<<"containers", "{}">>}]

Fits(path, pattern) ==
    Len(path) = Len(pattern) /\ \A k \in DOMAIN path : pattern[k] \in {path[k], "{}"}

\* The names of images may have several segments.
IsDocumented(method, path) ==
    \/ /\ method \in DOMAIN DocumentedEndpoints
       /\ \E pattern \in DocumentedEndpoints[method] : Fits(path, pattern)
    \/ method = "GET" /\ Len(path) > 2 /\ <<path[1], path[Len(path)]>> = <<"images", "json">>

\* The path without the version in front of it, if it has one.
Unversioned(path) ==
    IF path # <<>> /\ path[1] \in Versions /\ Len(path) > 1 THEN Tail(path) ELSE path

\* The two endpoints of an exec instance, with any method.
OfExec(path) == \E end \in {"json", "start"} : Fits(path, <<"exec", "{}", end>>)

\* is_supported_endpoint serves every endpoint the profile lists, with or without
\* a version, except that the path of the listing is no container to remove; and
\* beyond the profile it serves nothing that does not name an endpoint of an exec
\* instance (with which method, is OnlyProfileIsServed's question).
ProfileIsServed ==
    verdict \notin {"none", "session required"} =>
        LET path == Unversioned(request.path)
            known == IsDocumented(request.method, path)
        IN  /\ known /\ ~(request.method = "DELETE" /\ path = Listing) => verdict # "unsupported"
            /\ verdict # "unsupported" => known \/ OfExec(path)

Versioned(r, version) == [r EXCEPT !.path = <<version>> \o @]

\* A version in front of a path changes nothing: not what is decided, and not
\* what the client is told, although the backend is sent the path as it came.
VersionsAreAlike ==
    request.path # <<>> /\ request.path[1] \notin Versions =>
        \A v \in Versions :
            LET other == Versioned(request, v) IN
            /\ verdict \notin {"none", "answered"} => verdict = Decision(other)
            /\ verdict = "answered" =>
                   reply \in {Rewritten(other.method, other.path, a) : a \in {Answer(other), {}}}

\* A client that lists the containers finds every container PSP created, as the
\* backend tells of it, and may use it, whatever the policy's lists and versions
\* in the path; unless the backend refuses the listing (filter_managed_containers,
\* evaluate_container_access).
ManagedAreListed ==
    /\ request.method = "GET" /\ Normalized(request.path) = Listing
    /\ verdict = "answered" /\ reply # {}
    => \A c \in containers : c.managed => c \in reply /\ ~Refused(c.id)

-----------------------------------------------------------------------------
\* README.md and docs/compatibility/testcontainers-profile.md: PSP accepts only
\* the documented subset, each endpoint with the method the profile gives it.
OnlyProfileIsServed ==
    verdict \notin {"none", "session required", "unsupported"} =>
        IsDocumented(request.method, Unversioned(request.path))

\* docs/compatibility/testcontainers-profile.md, and the comments in paths.rs and
\* rewrite.rs: a listing holds the containers with PSP's label only.
ListedAreManaged ==
    request.method = "GET" /\ Normalized(request.path) = Listing =>
        \A c \in reply : c.managed

\* src/cli.rs, psp policy check: a bind allowlist with / allows all bind mounts.
RootAllowsAll ==
    [absolute |-> TRUE, comps |-> <<>>] \in policy.binds => verdict # "bind mount"
=============================================================================
