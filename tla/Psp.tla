-------------------------------- MODULE Psp --------------------------------
(***************************************************************************)
(* The PSP process from start to exit (src/lib.rs, serve_with_shutdown):   *)
(* health check, startup sweep, serving, graceful shutdown and cleanup,    *)
(* with a crash possible at every point and restarts after it.             *)
(***************************************************************************)
EXTENDS Proxy

CONSTANTS
    KeepChoices,    \* the values config.keep_on_failure takes from run to run
    Clients         \* the sessions of this process's clients

ASSUME PspAssumption ==
    /\ KeepChoices \subseteq BOOLEAN
    /\ Clients \subseteq Sessions

VARIABLES
    phase,  \* how far serve_with_shutdown has come
    keep,   \* keep_on_failure of this run of the process
    todo    \* containers the sweep or the cleanup has still to remove

vars == <<store, proxyVars, phase, keep, todo>>

\* "down": not running, after a crash or an error; "exited": returned Ok.
Phases == {"down", "ping", "list", "sweep", "bind", "serve", "drain", "cleanup", "exited"}

TypeOK ==
    /\ StoreTypeOK
    /\ ProxyTypeOK
    /\ phase \in Phases
    /\ keep \in BOOLEAN
    /\ todo \subseteq Ids

Init ==
    /\ StoreInit
    /\ ProxyInit
    /\ phase = "down"
    /\ keep = FALSE
    /\ todo = {}

-----------------------------------------------------------------------------
(* Start *)

\* A new process: the session table starts empty.
Start(k) ==
    /\ phase \in {"down", "exited"}
    /\ phase' = "ping"
    /\ keep' = k
    /\ UNCHANGED <<store, proxyVars, todo>>

\* Fault: the sweep is left to the shutdown cleanup.
PingSkipsSweep ==
    /\ phase = "ping"
    /\ phase' = "bind"
    /\ UNCHANGED <<store, proxyVars, keep, todo>>

\* keep_on_failure skips the startup sweep.
PingOk ==
    /\ phase = "ping"
    /\ phase' = IF keep THEN "bind" ELSE "list"
    /\ UNCHANGED <<store, proxyVars, keep, todo>>

\* Fault: the listing has no label filter.
ListEverything ==
    /\ phase = "list"
    /\ phase' = "sweep"
    /\ todo' = Live
    /\ stray' = {}
    /\ UNCHANGED <<store, tracked, task, late, keep>>

\* The sweep lists the containers with the managed label, running or not.
ListManaged ==
    /\ phase = "list"
    /\ phase' = "sweep"
    /\ todo' = Managed
    /\ stray' = {}
    /\ UNCHANGED <<store, tracked, task, late, keep>>

\* The status of the listing is not read, and an answer that is not a JSON
\* array (a backend error object) counts as nothing to sweep.
ListNotAnArray ==
    /\ phase = "list"
    /\ phase' = "bind"
    /\ stray' = Managed
    /\ UNCHANGED <<store, tracked, task, late, keep, todo>>

SweepDone ==
    /\ phase = "sweep"
    /\ todo = {}
    /\ phase' = "bind"
    /\ UNCHANGED <<store, proxyVars, keep, todo>>

Bind ==
    /\ phase = "bind"
    /\ phase' = "serve"
    /\ UNCHANGED <<store, proxyVars, keep, todo>>

-----------------------------------------------------------------------------
(* The forced removals of the sweep and of the cleanup *)

RemoveNext(c) ==
    /\ phase \in {"sweep", "cleanup"}
    /\ c \in todo
    /\ Remove(c)
    /\ todo' = todo \ {c}
    /\ UNCHANGED <<proxyVars, phase, keep>>

\* Fault: the first refused removal ends the loop.
RemovalRefusedEndsLoop(c) ==
    /\ phase \in {"sweep", "cleanup"}
    /\ c \in todo
    /\ todo' = {}
    /\ stray' = stray \cup ({c} \cap Live)
    /\ UNCHANGED <<store, tracked, task, late, phase, keep>>

\* The status of the answer is not read: a container the backend did not
\* remove (or no longer has) is passed over.
RemovalRefused(c) ==
    /\ phase \in {"sweep", "cleanup"}
    /\ c \in todo
    /\ todo' = todo \ {c}
    /\ stray' = stray \cup ({c} \cap Live)
    /\ UNCHANGED <<store, tracked, task, late, phase, keep>>

-----------------------------------------------------------------------------
(* Serving and shutdown *)

\* The process ends: the table and the handlers' memory are lost, the calls
\* they wait for are not.
Halt ==
    /\ phase' = "down"
    /\ tracked' = [c \in Ids |-> None]
    /\ task' = [h \in Handlers |-> NoTask]
    /\ todo' = {}
    /\ UNCHANGED <<store, stray, keep>>

\* SIGTERM or ctrl-c: no new request is accepted.
Shutdown ==
    /\ phase = "serve"
    /\ phase' = "drain"
    /\ UNCHANGED <<store, proxyVars, keep, todo>>

\* The containers the shutdown cleanup removes; keep_on_failure skips it.
CleanupList == IF keep THEN {} ELSE Tracked

\* Fault: the cleanup does not wait for the handlers.
DrainedAtOnce ==
    /\ phase = "drain"
    /\ phase' = "cleanup"
    /\ todo' = CleanupList
    /\ UNCHANGED <<store, proxyVars, keep>>

\* Every connection is closed: the cleanup takes its list of containers.
Drained ==
    /\ phase = "drain"
    /\ \A h \in Handlers : At(h, "idle")
    /\ phase' = "cleanup"
    /\ todo' = CleanupList
    /\ UNCHANGED <<store, proxyVars, keep>>

Exit ==
    /\ phase = "cleanup"
    /\ todo = {}
    /\ phase' = "exited"
    /\ tracked' = [c \in Ids |-> None]
    /\ UNCHANGED <<store, task, late, stray, keep, todo>>

\* The forced removal the sweep or the cleanup waits for, if any.
Removal(c) ==
    IF phase \in {"sweep", "cleanup"} /\ c \in todo
    THEN {[op |-> "delete", ref |-> c, session |-> None, label |-> None]}
    ELSE {}

\* Fault: no limit on how long a removal may take.
BackendFailsAtStart ==
    /\ phase \in {"ping", "list"}
    /\ Halt
    /\ UNCHANGED late

\* The backend does not answer while PSP starts or cleans up: the error ends
\* the process, and with it what was left to do.
BackendFails ==
    \/ /\ phase \in {"ping", "list"}
       /\ Halt
       /\ UNCHANGED late
    \/ /\ phase \in {"sweep", "cleanup"}
       /\ \E c \in todo : Abandon(Removal(c))
       /\ Halt

\* The socket cannot be created.
BindFails ==
    /\ phase = "bind"
    /\ Halt
    /\ UNCHANGED late

\* The process is killed, at any point.
Crash ==
    /\ phase \notin {"down", "exited"}
    /\ Halt
    /\ \E c \in Ids : Abandon(Removal(c) \cup UNION {InFlight(h) : h \in Handlers})

-----------------------------------------------------------------------------
\* What a client may ask for: a container it can know of, or a new one, with
\* a name or without.
Accepts(h) ==
    /\ phase = "serve"
    /\ \/ RejectEarly(h)
       \/ \E op \in Ops \cap {"delete", "act", "read"}, s \in Clients,
             ref \in {c \in Ids : status[c] # "unborn"} \cup Names : Accept(h, op, ref, s)
       \/ \E s \in Clients, n \in Names \cup {None} : "create" \in Ops /\ Accept(h, "create", n, s)
       \/ \E s \in Clients : "other" \in Ops /\ Accept(h, "other", None, s)

Handles(h) ==
    /\ \/ BodyFails(h) \/ BodyArrives(h)
       \/ CreateBodyLabelled(h) \/ CreateBodyOpaque(h) \/ CreateBodyDenied(h)
       \/ Inspect(h) \/ InspectFails(h)
       \/ \E c \in Ids : BackendCreates(h, c) \/ BackendRemoves(h, c)
       \/ BackendActs(h) \/ BackendRefuses(h) \/ CallFails(h)
       \/ AnswerLost(h) \/ Finish(h) \/ Deliver(h) \/ Disconnect(h)
    /\ UNCHANGED <<phase, keep, todo>>

HandlerStep(h) == Handles(h) \/ (Accepts(h) /\ UNCHANGED <<phase, keep, todo>>)

ProcessStep ==
    \/ \E k \in KeepChoices : Start(k)
    \/ PingOk \/ ListManaged \/ ListNotAnArray \/ SweepDone \/ Bind
    \/ \E c \in Ids : RemoveNext(c) \/ RemovalRefused(c)
    \/ Shutdown \/ Drained \/ Exit
    \/ BackendFails \/ BindFails \/ Crash

OutsideStep ==
    /\ \E c \in Ids :
           \/ OutsiderRemoves(c) /\ UNCHANGED proxyVars
           \/ \E n \in Names \cup {None} : OutsiderCreates(c, n) /\ UNCHANGED proxyVars
           \/ \E call \in late : LateCreate(call, c) \/ LateRemove(call, c)
    /\ UNCHANGED <<phase, keep, todo>>

Next == (\E h \in Handlers : HandlerStep(h)) \/ ProcessStep \/ OutsideStep

Spec == Init /\ [][Next]_vars

(***************************************************************************)
(* Fairness.  PSP does not rely on the backend to answer: a call ends after *)
(* 300 s (BACKEND_TIMEOUT), so the fair outcome of an await on the backend *)
(* is its failure.  Nothing limits how long a client takes to send its body *)
(* or to read the response: that it does, or leaves, is assumed.  Signals, *)
(* crashes and new requests are not fair.                                  *)
(***************************************************************************)
BodyEnds(h) ==
    /\ BodyFails(h) \/ BodyArrives(h) \/ CreateBodyLabelled(h)
           \/ CreateBodyOpaque(h) \/ CreateBodyDenied(h)
    /\ UNCHANGED <<phase, keep, todo>>

LimitReached(h) ==
    /\ InspectFails(h) \/ CallFails(h)
    /\ UNCHANGED <<phase, keep, todo>>

HandlerEnds(h) ==
    /\ Finish(h) \/ Deliver(h)
    /\ UNCHANGED <<phase, keep, todo>>

Fairness ==
    /\ \A h \in Handlers :
           /\ WF_vars(BodyEnds(h))
           /\ WF_vars(LimitReached(h))
           /\ WF_vars(HandlerEnds(h))
    /\ WF_vars(BackendFails)
    /\ WF_vars(SweepDone \/ Bind \/ Drained \/ Exit)

FairSpec == Spec /\ Fairness

\* PSP is started again whenever it ends and is told to stop whenever it
\* serves, and the backend does not fail the same call of it for ever.
RestartFairness ==
    /\ WF_vars(\E k \in KeepChoices : Start(k))
    /\ WF_vars(Shutdown)
    /\ SF_vars(PingOk)
    /\ SF_vars(ListManaged)
    /\ \A c \in Ids : SF_vars(RemoveNext(c))

\* In the end it is always started without keep_on_failure.
RestartedForEver == RestartFairness /\ <>[](~keep)

-----------------------------------------------------------------------------
(* Properties *)

\* Where PSP still holds a container it is responsible for: in the list it
\* works off, or in the session table and the handlers about to fill it.
Accounted ==
    IF phase \in {"serve", "drain"}
    THEN {c \in Ids : c \in Tracked \/ \E h \in Handlers : c \in Untracked(h)}
    ELSE todo

\* The live containers with PSP's label that this PSP's clients created.
Owned == {c \in Managed : owner[c] \in Clients}

\* Without keep_on_failure, from the listing of the startup sweep to a clean
\* exit, every live container with PSP's label is accounted for, unless its
\* creation was never answered to PSP or the backend refused its removal
\* (stray).  So after a clean exit only strays are left.
NoLeak ==
    \/ keep
    \/ phase \in {"down", "ping", "list"}
    \/ Managed \subseteq Accounted \cup stray

\* Whatever other PSP processes, a cleanup or a smoke test do on the same
\* backend: of the containers its own clients created, a PSP without
\* keep_on_failure accounts for each, strays excepted, and a clean exit leaves none.
OwnContainersKept ==
    \/ keep
    \/ phase \in {"down", "ping", "list"}
    \/ Owned \subseteq Accounted \cup stray

\* The list the shutdown cleanup works off is complete, though it is read only
\* once: no handler tracks a container after it was taken.
CleanupCovers ==
    phase = "cleanup" /\ ~keep => Tracked \cap Live \subseteq todo \cup stray

\* A tracked container was created by a request of the session it is tracked
\* for, and carries that session's label or (an opaque payload) none.
Attribution ==
    \A c \in Tracked :
        /\ status[c] # "unborn"
        /\ status[c] = "live" =>
               owner[c] = tracked[c] /\ label[c] \in {None, tracked[c]}

\* The sweep and the cleanup remove nothing PSP did not create, and nothing at
\* all under keep_on_failure.
SweepTargets ==
    \A c \in todo :
        /\ ~keep
        /\ status[c] # "unborn"
        /\ status[c] = "live" => owner[c] \in Sessions

\* When a client learns of the container it created, the session table holds
\* it, or another client has removed it in between.
ReplyTracked(h) ==
    At(h, "reply") /\ task[h].result = "created" =>
        \/ tracked[task[h].made] = task[h].session
        \/ status[task[h].made] = "gone"

ReplyAfterTracking == \A h \in Handlers : ReplyTracked(h)

\* A running PSP forgets a container only once the backend has removed it.
ForgetsOnlyRemoved ==
    [][\A c \in Tracked :
           c \in Tracked' \/ status[c] = "gone" \/ phase' \in {"down", "exited"}]_vars

\* A request that names a container by its id reaches the backend only if PSP
\* created the container or the policy allows it, however many other handlers,
\* outsiders and restarts act between the check and the forwarded call.
AllowedById(h) ==
    At(h, "send") /\ task[h].op # "create" /\ task[h].ref \in Live =>
        owner[task[h].ref] \in Sessions \/ PolicyAllows(task[h].ref)

ForwardedByIdAllowed == \A h \in Handlers : AllowedById(h)

\* A request whose handling began ends, with an answer or with the client gone.
RequestEnds == \A h \in Handlers : At(h, "body") ~> At(h, "idle")

\* A start ends in serving or in an error, a shutdown in an exit or an error:
\* neither waits for ever on the backend or on a handler.
StartAndStopEnd ==
    phase \in {"ping", "list", "sweep", "bind", "drain", "cleanup"}
        ~> phase \in {"serve", "down", "exited"}

\* Repeated runs without keep_on_failure do not accumulate containers: each
\* container with PSP's label is removed in the end, strays, late ones and those
\* that earlier runs with keep_on_failure left included.
StaleAreRemoved ==
    RestartedForEver => \A c \in Ids : c \in Managed ~> c \notin Live

-----------------------------------------------------------------------------
(* What the documents say and the code does not do *)

\* docs/operations/session-lifecycle.md: labels are injected into the
\* forwarded request of every create.
CreateIsLabelled ==
    \A h \in Handlers :
        At(h, "send") /\ task[h].op = "create" => task[h].label = task[h].session

\* docs/policy-reference.md: a container PSP did not create is blocked if the
\* denylist has its name or id, and denied unless the allowlist has it,
\* whichever reference the request uses.
ForwardedAllowed ==
    \A h \in Handlers, c \in Ids :
        At(h, "send") /\ task[h].op # "create" /\ c \in Resolve(task[h].ref) =>
            owner[c] \in Sessions \/ PolicyAllows(c)
=============================================================================
