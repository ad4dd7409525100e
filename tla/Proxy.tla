------------------------------- MODULE Proxy -------------------------------
(***************************************************************************)
(* The request handler (src/proxy.rs, proxy_request) and the session table *)
(* (src/session.rs, SessionManager).                                       *)
(*                                                                         *)
(* Any number of handlers run concurrently.  One lets go of the processor  *)
(* only at an .await: while it collects the client's body (pc "body"),     *)
(* while the backend inspects the container (pc "inspect") and while the   *)
(* backend executes the forwarded call (pc "send").  What happens between  *)
(* two awaits is one action.  The table is the only state handlers share.  *)
(***************************************************************************)
EXTENDS Backend, Naturals, FiniteSets

CONSTANTS
    Handlers,       \* requests the server handles at the same time
    Ops,            \* the kinds of request the clients send
    RequireSession, \* config.require_session_id
    AllowList,      \* policy.containers.allowlist
    DenyList,       \* policy.containers.denylist
    CreateName,     \* the name "create", if a container can have it; None if not
    MaxLate         \* bound: abandoned calls the backend may still execute

ASSUME ProxyAssumption ==
    /\ Ops \subseteq {"create", "delete", "act", "read", "other"}
    /\ RequireSession \in BOOLEAN
    /\ AllowList \subseteq Refs
    /\ DenyList \subseteq Refs
    /\ CreateName \in Names \cup {None}
    /\ MaxLate \in Nat

VARIABLES
    tracked,    \* tracked[c]: the session PSP tracks container c for
    task,       \* task[h]: the request handler h works on
    late,       \* calls PSP no longer waits for and the backend may still execute
    stray       \* containers the table will never hold (history)

proxyVars == <<tracked, task, late, stray>>

(***************************************************************************)
(* A handler's request: its kind (start, stop, wait, exec and archive are  *)
(* "act"; inspect, logs and the container listing, which is taken for a    *)
(* reference to a container named json, are "read"; what names no           *)
(* container is "other"), the reference in its path (for a create, the      *)
(* requested name), its effective session and injected label, the           *)
(* container a create made, and the outcome.                               *)
(***************************************************************************)
CreateCall == [op : {"create"}, ref : Names \cup {None},
               session : Sessions \cup {None}, label : Sessions \cup {None}]

DeleteCall == [op : {"delete"}, ref : Refs \cup {None},
               session : Sessions \cup {None}, label : Sessions \cup {None}]

Call == CreateCall \cup DeleteCall

Task == [pc : {"idle", "body", "inspect", "send", "answered", "reply"},
         op : {"none", "create", "delete", "act", "read", "other"},
         ref : Refs \cup {None},
         session : Sessions \cup {None}, label : Sessions \cup {None},
         made : Ids \cup {None},
         result : {"none", "created", "removed", "done", "refused",
                   "denied", "rejected", "failed"}]

NoTask == [pc |-> "idle", op |-> "none", ref |-> None, session |-> None,
           label |-> None, made |-> None, result |-> "none"]

TasksOK ==
    /\ task \in [Handlers -> Task]
    /\ \A h \in Handlers : task[h].op = "create" => task[h].ref \in Names \cup {None}

ProxyTypeOK ==
    /\ tracked \in [Ids -> Sessions \cup {None}]
    /\ TasksOK
    /\ late \subseteq Call
    /\ stray \subseteq Ids

ProxyInit ==
    /\ tracked = [c \in Ids |-> None]
    /\ task = [h \in Handlers |-> NoTask]
    /\ late = {}
    /\ stray = {}

-----------------------------------------------------------------------------
(* The session table *)

Tracked == {c \in Ids : tracked[c] # None}

IsTracked(ref) == ref \in Tracked

\* Faults: the arguments of the insertion swapped; every container tracked
\* for the anonymous session.
TrackSwapped(s, c) ==
    tracked' = [x \in Ids \cup {s} |-> IF x = s THEN c ELSE tracked[x]]

TrackAnonymous(s, c) == tracked' = [tracked EXCEPT ![c] = Anonymous]

TrackContainer(s, c) == tracked' = [tracked EXCEPT ![c] = s]

\* Fault: a name untracks the container that has that name by now.
UntrackByName(ref) ==
    tracked' = [c \in Ids |-> IF ref \in {c, name[c]} THEN None ELSE tracked[c]]

\* The table is keyed by full ids: removing any other reference is a no-op.
UntrackContainer(ref) ==
    tracked' = [c \in Ids |-> IF c = ref THEN None ELSE tracked[c]]

-----------------------------------------------------------------------------
(* The access rule (policy.evaluate_container_access) *)

Matches(c, list) == c \in list \/ name[c] \in list

PolicyAllows(c) == ~Matches(c, DenyList) /\ Matches(c, AllowList)

Accessible(c) == label[c] # None \/ PolicyAllows(c)

-----------------------------------------------------------------------------
(* Steps of a handler *)

At(h, pc) == task[h].pc = pc

\* An error response made by PSP: nothing of the request is used again.
Fail(h, result) ==
    task' = [task EXCEPT ![h] = [NoTask EXCEPT !.pc = "reply", !.result = result]]

Goto(h, pc) == task' = [task EXCEPT ![h].pc = pc]

\* The call handler h has in flight, as far as it can change the backend.
InFlight(h) ==
    IF At(h, "send") /\ task[h].op \in {"create", "delete"}
    THEN {[op |-> task[h].op, ref |-> task[h].ref,
           session |-> task[h].session, label |-> task[h].label]}
    ELSE {}

\* PSP stops waiting for these calls: the backend has received some of them.
Abandon(calls) ==
    \E received \in SUBSET calls :
        /\ Cardinality(late \cup received) <= MaxLate
        /\ late' = late \cup received

\* The containers created for handler h that it has not tracked yet.
Untracked(h) == IF At(h, "answered") THEN {task[h].made} \cap Ids ELSE {}

NeedsSession(op, s) ==
    RequireSession /\ op \in {"create", "delete", "act"} /\ s = Anonymous

\* A request without the required session id, for an endpoint PSP does not
\* support, or with a Content-Length over the limit, is answered at once.
RejectEarly(h) ==
    /\ At(h, "idle")
    /\ Fail(h, "rejected")
    /\ UNCHANGED <<store, tracked, late, stray>>

Accept(h, op, ref, s) ==
    /\ At(h, "idle")
    /\ ~NeedsSession(op, s)
    /\ task' = [task EXCEPT ![h] =
           [NoTask EXCEPT !.pc = "body", !.op = op, !.ref = ref,
                          !.session = IF op = "create" THEN s ELSE None]]
    /\ UNCHANGED <<store, tracked, late, stray>>

\* The body is over the limit, or the client's stream breaks.
BodyFails(h) ==
    /\ At(h, "body")
    /\ Fail(h, "rejected")
    /\ UNCHANGED <<store, tracked, late, stray>>

\* What is forwarded without an inspection: what names no container, among it a
\* container named create (container_ref_from_path finds no reference there),
\* and a tracked container.
Uninspected(op, ref) == op = "other" \/ ref = CreateName \/ IsTracked(ref)

BodyArrives(h) ==
    /\ At(h, "body")
    /\ task[h].op # "create"
    /\ Goto(h, IF Uninspected(task[h].op, task[h].ref) THEN "send" ELSE "inspect")
    /\ UNCHANGED <<store, tracked, late, stray>>

\* The create payload the policy accepts is forwarded with the session's labels.
CreateBodyLabelled(h) ==
    /\ At(h, "body")
    /\ task[h].op = "create"
    /\ task' = [task EXCEPT ![h] = [@ EXCEPT !.pc = "send", !.label = task[h].session]]
    /\ UNCHANGED <<store, tracked, late, stray>>

\* A payload that the policy's typed parse accepts (it skips unknown members)
\* and the parse into a JSON value does not is forwarded as it came.
CreateBodyOpaque(h) ==
    /\ At(h, "body")
    /\ task[h].op = "create"
    /\ Goto(h, "send")
    /\ UNCHANGED <<store, tracked, late, stray>>

\* The policy denies the payload, or "Labels" is not a JSON object.
CreateBodyDenied(h) ==
    /\ At(h, "body")
    /\ task[h].op = "create"
    /\ Fail(h, "denied")
    /\ UNCHANGED <<store, tracked, late, stray>>

\* Fault: what the denylist does not name is allowed.
InspectDenylistOnly(h) ==
    /\ At(h, "inspect")
    /\ IF \A c \in Resolve(task[h].ref) : label[c] # None \/ ~Matches(c, DenyList)
       THEN Goto(h, "send")
       ELSE Fail(h, "denied")
    /\ UNCHANGED <<store, tracked, late, stray>>

\* inspect_container_metadata: the policy decides on what the backend says now;
\* a container that does not exist is left to the backend to refuse.
Inspect(h) ==
    /\ At(h, "inspect")
    /\ IF \A c \in Resolve(task[h].ref) : Accessible(c)
       THEN Goto(h, "send")
       ELSE Fail(h, "denied")
    /\ UNCHANGED <<store, tracked, late, stray>>

InspectFails(h) ==
    /\ At(h, "inspect")
    /\ Fail(h, "failed")
    /\ UNCHANGED <<store, tracked, late, stray>>

\* The backend executes the forwarded call and its answer reaches PSP.
Answer(h, result, made) ==
    task' = [task EXCEPT ![h] =
        [@ EXCEPT !.pc = "answered", !.result = result, !.made = made]]

BackendCreates(h, c) ==
    /\ At(h, "send")
    /\ task[h].op = "create"
    /\ Put(c, task[h].ref, task[h].label, task[h].session)
    /\ Answer(h, "created", c)
    /\ UNCHANGED <<tracked, late, stray>>

BackendRemoves(h, c) ==
    /\ At(h, "send")
    /\ task[h].op = "delete"
    /\ c \in Resolve(task[h].ref)
    /\ Remove(c)
    /\ Answer(h, "removed", None)
    /\ UNCHANGED <<tracked, late, stray>>

\* Any other call succeeds without an effect the session table depends on.
BackendActs(h) ==
    /\ At(h, "send")
    /\ task[h].op \in {"act", "read", "other"}
    /\ Answer(h, "done", None)
    /\ UNCHANGED <<store, tracked, late, stray>>

BackendRefuses(h) ==
    /\ At(h, "send")
    /\ Answer(h, "refused", None)
    /\ UNCHANGED <<store, tracked, late, stray>>

\* Fault: the call is sent again until it is answered.
CallRetried(h) ==
    /\ At(h, "send")
    /\ Abandon(InFlight(h))
    /\ UNCHANGED <<store, task, tracked, stray>>

\* No answer: a connection error or the 300 s limit.
CallFails(h) ==
    /\ At(h, "send")
    /\ Fail(h, "failed")
    /\ Abandon(InFlight(h))
    /\ UNCHANGED <<store, tracked, stray>>

\* The backend has executed the call but its answer is lost or over the limit.
AnswerLost(h) ==
    /\ At(h, "answered")
    /\ Fail(h, "failed")
    /\ stray' = stray \cup Untracked(h)
    /\ UNCHANGED <<store, tracked, late>>

\* Fault: a delete untracks whatever the backend answered.
FinishUntracksAnyDelete(h) ==
    /\ At(h, "answered")
    /\ Goto(h, "reply")
    /\ CASE task[h].result = "created" -> TrackContainer(task[h].session, task[h].made)
         [] task[h].op = "delete" -> UntrackContainer(task[h].ref)
         [] OTHER -> UNCHANGED tracked
    /\ UNCHANGED <<store, late, stray>>

\* The rest of the handler after the backend's answer: track a created
\* container, untrack the reference of a removed one, build the response.
Finish(h) ==
    /\ At(h, "answered")
    /\ Goto(h, "reply")
    /\ CASE task[h].result = "created" -> TrackContainer(task[h].session, task[h].made)
         [] task[h].result = "removed" -> UntrackContainer(task[h].ref)
         [] OTHER -> UNCHANGED tracked
    /\ UNCHANGED <<store, late, stray>>

\* The client reads the response, or is gone: nothing is left to do.
Deliver(h) ==
    /\ At(h, "reply")
    /\ task' = [task EXCEPT ![h] = NoTask]
    /\ UNCHANGED <<store, tracked, late, stray>>

\* The client closes its connection: the handler is dropped at its await.
Disconnect(h) ==
    /\ task[h].pc \in {"body", "inspect", "send", "answered"}
    /\ task' = [task EXCEPT ![h] = NoTask]
    /\ Abandon(InFlight(h))
    /\ stray' = stray \cup Untracked(h)
    /\ UNCHANGED <<store, tracked>>

-----------------------------------------------------------------------------
\* The backend executes a call PSP gave up on.
LateCreate(call, c) ==
    /\ call \in late
    /\ call.op = "create"
    /\ Put(c, call.ref, call.label, call.session)
    /\ late' = late \ {call}
    /\ stray' = stray \cup {c}
    /\ UNCHANGED <<tracked, task>>

LateRemove(call, c) ==
    /\ call \in late
    /\ call.op = "delete"
    /\ c \in Resolve(call.ref)
    /\ Remove(c)
    /\ late' = late \ {call}
    /\ UNCHANGED <<tracked, task, stray>>
=============================================================================
