------------------------------- MODULE Routes -------------------------------
(***************************************************************************)
(* What the handler reads from a request before the policy sees it, and    *)
(* what it changes in the answer: the endpoint table (src/paths.rs), the    *)
(* effective session (src/session.rs) and the rewriting of responses        *)
(* (src/rewrite.rs).                                                       *)
(*                                                                         *)
(* A path is the sequence of its segments, none of them empty; a session    *)
(* header is Nothing or [head, clean, rest]: its first 128 bytes without    *)
(* the blanks around it, whether they are all letters, digits, "-", "_" and *)
(* "." (and there are any), and what follows them.  A container is          *)
(* [id, name, managed, reusable, hosts]: managed and reusable are the       *)
(* labels io.psp.managed and org.testcontainers, hosts the HostIp of its    *)
(* ports.                                                                  *)
(***************************************************************************)
EXTENDS SequencesExt

CONSTANTS
    Versions,       \* segments that are a v and digits or dots: v, v1, v1.41
    AdvertisedHost  \* config.advertised_host

ASSUME RoutesAssumption == Versions \subseteq STRING

NoHeader == [head |-> "", clean |-> FALSE, rest |-> ""]

Anonymous == "anonymous"

Listing == <<"containers", "json">>

-----------------------------------------------------------------------------
(* src/paths.rs *)

\* normalize_versioned_path: one version in front of something.
Normalized(path) ==
    IF Len(path) > 1 /\ Head(path) \in Versions THEN Tail(path) ELSE path

ImageEndpoint(method, path) ==
    method = "GET" /\ Len(path) >= 3 /\ Head(path) = "images" /\ Last(path) = "json"

\* Fault: the methods of the endpoints of three segments are not looked at.
ContainerEndpointAnyMethod(method, path) ==
    /\ Len(path) \in {2, 3} /\ Head(path) = "containers"
    /\ Len(path) = 3 => Last(path) \in {"json", "logs", "start", "stop", "wait", "exec", "archive"}

ContainerEndpoint(method, path) ==
    /\ Len(path) \in {2, 3} /\ Head(path) = "containers"
    /\ <<method, Len(path)>> \in {<<"GET", 2>>, <<"GET", 3>>, <<"POST", 3>>, <<"PUT", 3>>, <<"DELETE", 2>>}
    /\ method = "GET" => path = Listing \/ (Len(path) = 3 /\ Last(path) \in {"json", "logs"})
    /\ method = "POST" => Last(path) \in {"start", "stop", "wait", "exec"}
    /\ method = "PUT" => Last(path) = "archive"
    /\ method = "DELETE" => path # Listing

\* Both methods have both endpoints.
ExecEndpoint(method, path) ==
    /\ method \in {"GET", "POST"}
    /\ Len(path) = 3 /\ Head(path) = "exec" /\ Last(path) \in {"start", "json"}

\* is_supported_endpoint, of a normalized path.
IsSupported(method, path) ==
    \/ method = "GET" /\ path \in {<<"_ping">>, <<"version">>, <<"info">>}
    \/ method = "POST" /\ path \in {<<"images", "create">>, <<"containers", "create">>}
    \/ ImageEndpoint(method, path)
    \/ ContainerEndpoint(method, path)
    \/ ExecEndpoint(method, path)

NoRef == "no reference"

\* container_ref_from_path: the listing is taken for a container named json.
ContainerRef(path) ==
    IF Len(path) > 1 /\ Head(path) = "containers" /\ path[2] # "create" THEN path[2] ELSE NoRef

-----------------------------------------------------------------------------
(* src/session.rs and src/proxy.rs *)

\* session_context, sanitize_session_id: what follows 128 bytes is cut off.
EffectiveSession(header) == IF header.clean THEN header.head ELSE Anonymous

IsMutating(method) == method \notin {"GET", "HEAD", "OPTIONS"}

-----------------------------------------------------------------------------
(* src/rewrite.rs *)

\* Fault: a response is rewritten by the path that was sent.
RewrittenAsSent(method, path, answer) ==
    IF method = "GET" /\ path = Listing
    THEN {c \in answer : c.managed \/ c.reusable}
    ELSE IF method = "GET" /\ Len(path) > 1 /\ Head(path) = "containers" /\ Last(path) = "json"
    THEN {[c EXCEPT !.hosts = {AdvertisedHost : h \in @}] : c \in answer}
    ELSE answer

\* Fault: only the label of Testcontainers counts in a listing.
RewrittenReusable(method, path, answer) ==
    LET normalized == Normalized(path) IN
    IF method = "GET" /\ normalized = Listing
    THEN {c \in answer : c.reusable}
    ELSE IF method = "GET" /\ Head(normalized) = "containers" /\ Last(normalized) = "json"
    THEN {[c EXCEPT !.hosts = {AdvertisedHost : h \in @}] : c \in answer}
    ELSE answer

\* rewrite_response_body, for an answer 200: the containers it tells of.
Rewritten(method, path, answer) ==
    LET normalized == Normalized(path) IN
    IF method = "GET" /\ normalized = Listing
    THEN {c \in answer : c.managed \/ c.reusable}
    ELSE IF method = "GET" /\ Head(normalized) = "containers" /\ Last(normalized) = "json"
    THEN {[c EXCEPT !.hosts = {AdvertisedHost : h \in @}] : c \in answer}
    ELSE answer
=============================================================================
