----------------------------- MODULE PspProofs -----------------------------
(***************************************************************************)
(* The safety properties of Psp, for every number of containers, names,    *)
(* sessions and handlers, every policy and every value of the flags.  The  *)
(* proof is one inductive invariant, whose main part, SharedInv, no other  *)
(* PSP on the backend disturbs.  Its argument: whatever happens outside, a *)
(* container only goes from unborn to live to gone (Evolves), so what a    *)
(* handler learned from the backend's answer stays true; and the session   *)
(* table only changes by what an answer said (Retains).                    *)
(***************************************************************************)
EXTENDS PspTypeProofs

USE BackendAssumption, PspAssumption

-----------------------------------------------------------------------------
(* What any step does to the containers *)

\* A container is left alone, removed, or created: by an outsider without
\* PSP's label, or by a call of PSP with its session's label or none.
Evolves ==
    \A c \in Ids :
        \/ /\ status'[c] = status[c]
           /\ name'[c] = name[c]
           /\ label'[c] = label[c]
           /\ owner'[c] = owner[c]
        \/ status[c] = "live" /\ status'[c] = "gone"
        \/ /\ status[c] = "unborn"
           /\ status'[c] = "live"
           /\ \/ owner'[c] = Outsider /\ label'[c] = None
              \/ owner'[c] \in Sessions /\ label'[c] \in {None, owner'[c]}

\* The session table gains entries and forgets removed containers only.
Retains == \A c \in Ids : tracked'[c] = tracked[c] \/ tracked[c] = None \/ status[c] = "gone"

LEMMA StutterEvolves == ASSUME UNCHANGED store PROVE Evolves
BY DEF store, Evolves

LEMMA RemoveEvolves == ASSUME TypeOK, NEW c \in Ids, Remove(c) PROVE Evolves
BY DEF TypeOK, StoreTypeOK, Remove, Live, Evolves

LEMMA PutEvolves ==
    ASSUME TypeOK, NEW c \in Ids, NEW n, NEW s \in Sessions, NEW l \in {None, s},
           Put(c, n, l, s)
    PROVE  Evolves
BY DEF TypeOK, StoreTypeOK, Put, Evolves

LEMMA OutsiderEvolves ==
    ASSUME TypeOK, NEW c \in Ids, NEW n, OutsiderCreates(c, n)
    PROVE  Evolves
BY DEF TypeOK, StoreTypeOK, OutsiderCreates, Put, Evolves

-----------------------------------------------------------------------------
(* What such a step preserves *)

LEMMA LabelsKept == ASSUME TypeOK, LabelsOK, Evolves PROVE LabelsOK'
BY DEF TypeOK, StoreTypeOK, LabelsOK, Evolves, Live

LEMMA AttributionKept ==
    ASSUME TypeOK, Attribution, Evolves,
           \A c \in Ids : tracked'[c] \in {tracked[c], None}
    PROVE  Attribution'
BY DEF TypeOK, StoreTypeOK, Attribution, Evolves, Tracked

LEMMA TargetsKept ==
    ASSUME TypeOK, SweepTargets, Evolves, todo' \subseteq todo, keep' = keep
    PROVE  SweepTargets'
BY DEF TypeOK, StoreTypeOK, SweepTargets, Evolves

\* A handler that does not move keeps its part of the invariant.
LEMMA HandlerKept ==
    ASSUME TypeOK, NEW g \in Handlers, HandlerOK(g), task'[g] = task[g], Evolves, Retains
    PROVE  HandlerOK(g)'
<1>1. RequestOK(g)'
  BY DEF TypeOK, StoreTypeOK, HandlerOK, RequestOK, Evolves
<1>2. AnswerOK(g)'
  BY DEF TypeOK, StoreTypeOK, HandlerOK, AnswerOK, Evolves, At
<1>3. ReplyTracked(g)'
  <2>1. SUFFICES ASSUME task[g].pc = "reply", task[g].result = "created"
                 PROVE  \/ tracked'[task[g].made] = task[g].session
                        \/ status'[task[g].made] = "gone"
    BY DEF ReplyTracked, At
  <2>2. /\ task[g].made \in Ids
        /\ task[g].session \in Sessions
        /\ \/ tracked[task[g].made] = task[g].session
           \/ status[task[g].made] = "gone"
    BY <2>1 DEF HandlerOK, AnswerOK, ReplyTracked, At
  <2>3. status[task[g].made] = "gone" => status'[task[g].made] = "gone"
    BY <2>2 DEF Evolves
  <2>4. QED
    BY <2>2, <2>3 DEF Retains
<1>4. AllowedById(g)'
  BY DEF TypeOK, StoreTypeOK, HandlerOK, AllowedById, RequestOK, Evolves, At, Live,
         PolicyAllows, Matches
<1>5. QED
  BY <1>1, <1>2, <1>3, <1>4 DEF HandlerOK

-----------------------------------------------------------------------------
(* A step of one handler *)

\* While a handler works PSP serves or drains: no list is being worked off.
LEMMA Serving ==
    ASSUME SharedInv, NEW h \in Handlers, ~At(h, "idle")
    PROVE  phase \in {"serve", "drain"} /\ todo = {}
BY DEF SharedInv, PhasesOK

\* What is left to show of a handler's step once it evolves the containers and
\* keeps the table: its own part, and that nothing it accounted for is lost.
LEMMA HandlerStepInv ==
    ASSUME SharedInv, TypeOK', NEW h \in Handlers, phase \in {"serve", "drain"}, todo = {},
           UNCHANGED <<phase, keep, todo>>,
           Evolves, Retains,
           \A g \in Handlers \ {h} : task'[g] = task[g],
           HandlerOK(h)', LateOK', Attribution', OwnContainersKept'
    PROVE  SharedInv'
<1>1. \A g \in Handlers : HandlerOK(g)'
  BY HandlerKept DEF SharedInv
<1>2. LabelsOK'
  BY LabelsKept DEF SharedInv
<1>3. PhasesOK'
  BY DEF SharedInv, PhasesOK
<1>4. SweepTargets' /\ CleanupCovers'
  BY DEF SweepTargets, CleanupCovers
<1>5. QED
  BY <1>1, <1>2, <1>3, <1>4 DEF SharedInv

\* Nothing is lost if the step creates no container of PSP but those it
\* accounts for, and passes on the container it held.
LEMMA KeptServing ==
    ASSUME OwnContainersKept, NEW h \in Handlers, phase \in {"serve", "drain"},
           UNCHANGED <<phase, keep>>,
           \A g \in Handlers \ {h} : task'[g] = task[g],
           Owned' \subseteq Owned \cup Untracked(h)' \cup stray',
           Owned' \cap stray \subseteq stray',
           Owned' \cap Tracked \subseteq Tracked',
           Owned' \cap Untracked(h) \subseteq Untracked(h)' \cup stray' \cup Tracked'
    PROVE  OwnContainersKept'
<1>1. \A g \in Handlers \ {h} : Untracked(g)' = Untracked(g)
  BY DEF Untracked, At
<1>2. Untracked(h)' \subseteq Ids /\ Tracked' \subseteq Ids /\ Owned' \subseteq Ids
  BY DEF Untracked, Tracked, Owned, Managed, Live
<1>3. ASSUME ~keep, NEW c \in Owned'
      PROVE  c \in Accounted' \cup stray'
  <2>1. CASE c \in Untracked(h)' \cup stray'
    BY <1>2, <2>1 DEF Accounted
  <2>2. CASE c \in Owned
    <3>1. c \in Accounted \cup stray
      BY <1>3, <2>2 DEF OwnContainersKept
    <3>2. CASE c \in stray
      BY <1>3, <3>2
    <3>3. CASE c \in Accounted
      BY <1>1, <1>2, <1>3, <3>3 DEF Accounted
    <3>4. QED
      BY <3>1, <3>2, <3>3
  <2>3. QED
    BY <1>3, <2>1, <2>2
<1>4. QED
  BY <1>3 DEF OwnContainersKept

\* A step that only moves the handler on, with no container in its hands.
LEMMA QuietStep ==
    ASSUME SharedInv, TypeOK', NEW h \in Handlers, ~At(h, "idle"),
           UNCHANGED <<phase, keep, todo>>,
           UNCHANGED <<store, tracked>>, LateOK',
           \A g \in Handlers \ {h} : task'[g] = task[g],
           stray \cup Untracked(h) \subseteq stray' \cup Untracked(h)',
           stray \subseteq stray',
           HandlerOK(h)'
    PROVE  SharedInv'
<1>1. phase \in {"serve", "drain"} /\ todo = {}
  BY Serving
<1>2. Evolves /\ Retains
  BY StutterEvolves DEF Retains
<1>3. Attribution'
  BY <1>2, AttributionKept DEF SharedInv
<1>4. Owned' = Owned /\ Tracked' = Tracked
  BY DEF Owned, Managed, Live, Tracked, store
<1>5. OwnContainersKept'
  BY <1>1, <1>4, KeptServing DEF SharedInv
<1>6. QED
  BY <1>1, <1>2, <1>3, <1>5, HandlerStepInv

\* A handler that answers with an error, or has no request, promises nothing.
LEMMA FailOK ==
    ASSUME TypeOK, NEW h \in Handlers, NEW r \in {"denied", "rejected", "failed"}, Fail(h, r)
    PROVE  HandlerOK(h)' /\ Untracked(h)' = {} /\ \A g \in Handlers \ {h} : task'[g] = task[g]
<1>1. task'[h] = [NoTask EXCEPT !.pc = "reply", !.result = r]
  BY DEF Fail, TypeOK, ProxyTypeOK, TasksOK
<1>2. task'[h].pc = "reply" /\ task'[h].op = "none" /\ task'[h].result = r
  BY <1>1 DEF NoTask
<1>3. \A g \in Handlers \ {h} : task'[g] = task[g]
  BY DEF Fail, TypeOK, ProxyTypeOK, TasksOK
<1>4. QED
  BY <1>2, <1>3
     DEF HandlerOK, RequestOK, AnswerOK, ReplyTracked, AllowedById, Untracked, At

LEMMA IdleOK ==
    ASSUME TypeOK, NEW h \in Handlers, task' = [task EXCEPT ![h] = NoTask]
    PROVE  HandlerOK(h)' /\ Untracked(h)' = {} /\ \A g \in Handlers \ {h} : task'[g] = task[g]
<1>1. task'[h] = NoTask /\ \A g \in Handlers \ {h} : task'[g] = task[g]
  BY DEF TypeOK, ProxyTypeOK, TasksOK
<1>2. task'[h].pc = "idle" /\ task'[h].op = "none"
  BY <1>1 DEF NoTask
<1>3. QED
  BY <1>1, <1>2
     DEF HandlerOK, RequestOK, AnswerOK, ReplyTracked, AllowedById, Untracked, At

\* A step to another await changes the place in the handler and nothing else.
LEMMA GotoFields ==
    ASSUME TypeOK, NEW h \in Handlers, NEW pc, Goto(h, pc)
    PROVE  /\ task'[h].pc = pc
           /\ task'[h].op = task[h].op
           /\ task'[h].ref = task[h].ref
           /\ task'[h].session = task[h].session
           /\ task'[h].label = task[h].label
           /\ task'[h].made = task[h].made
           /\ task'[h].result = task[h].result
           /\ \A g \in Handlers \ {h} : task'[g] = task[g]
BY DEF Goto, TypeOK, ProxyTypeOK, TasksOK, Task

LEMMA AnswerFields ==
    ASSUME TypeOK, NEW h \in Handlers, NEW r, NEW m, Answer(h, r, m)
    PROVE  /\ task'[h].pc = "answered"
           /\ task'[h].op = task[h].op
           /\ task'[h].ref = task[h].ref
           /\ task'[h].session = task[h].session
           /\ task'[h].label = task[h].label
           /\ task'[h].made = m
           /\ task'[h].result = r
           /\ \A g \in Handlers \ {h} : task'[g] = task[g]
<1>1. task[h] \in Task
  BY DEF TypeOK, ProxyTypeOK, TasksOK
<1>2. task'[h] = [task[h] EXCEPT !.pc = "answered", !.result = r, !.made = m]
  BY DEF Answer, TypeOK, ProxyTypeOK, TasksOK
<1>3. \A g \in Handlers \ {h} : task'[g] = task[g]
  BY DEF Answer, TypeOK, ProxyTypeOK, TasksOK
<1>4. QED
  BY <1>1, <1>2, <1>3 DEF Task

\* A call given up still belongs to its session.
LEMMA AbandonOK ==
    ASSUME LateOK, NEW calls,
           \A call \in calls : call.op = "create" =>
               call.session \in Clients /\ call.label \in {None, call.session},
           Abandon(calls)
    PROVE  LateOK'
BY DEF LateOK, Abandon

LEMMA InFlightOK ==
    ASSUME NEW h \in Handlers, HandlerOK(h), NEW call \in InFlight(h), call.op = "create"
    PROVE  call.session \in Clients /\ call.label \in {None, call.session}
BY DEF InFlight, HandlerOK, RequestOK, At

\* A handler that fails or is dropped before its call was answered, or after.
LEMMA Dropped ==
    ASSUME SharedInv, TypeOK', NEW h \in Handlers, ~At(h, "idle"),
           UNCHANGED <<phase, keep, todo>>, UNCHANGED <<store, tracked>>,
           LateOK',
           (\E r \in {"denied", "rejected", "failed"} : Fail(h, r))
               \/ task' = [task EXCEPT ![h] = NoTask],
           stray' = stray \cup Untracked(h)
    PROVE  SharedInv'
<1>1. HandlerOK(h)' /\ Untracked(h)' = {} /\ \A g \in Handlers \ {h} : task'[g] = task[g]
  BY FailOK, IdleOK DEF SharedInv
<1>2. QED
  BY <1>1, QuietStep

\* The calls of a handler that create or change nothing.
LEMMA QuietHandles ==
    ASSUME SharedInv, TypeOK', NEW h \in Handlers, UNCHANGED <<phase, keep, todo>>,
           \/ BodyFails(h) \/ BodyArrives(h)
           \/ CreateBodyLabelled(h) \/ CreateBodyOpaque(h) \/ CreateBodyDenied(h)
           \/ Inspect(h) \/ InspectFails(h) \/ BackendActs(h) \/ BackendRefuses(h)
           \/ CallFails(h) \/ AnswerLost(h) \/ Deliver(h) \/ Disconnect(h)
    PROVE  SharedInv'
<1> USE DEF SharedInv
<1>1. ASSUME UNCHANGED late PROVE LateOK'
  BY <1>1 DEF LateOK
<1>2. Untracked(h) = {} \/ At(h, "answered")
  BY DEF Untracked
<1>3. CASE BodyFails(h)
  BY <1>1, <1>2, <1>3, Dropped DEF BodyFails, At
<1>4. CASE CreateBodyDenied(h)
  BY <1>1, <1>2, <1>4, Dropped DEF CreateBodyDenied, At
<1>5. CASE InspectFails(h)
  BY <1>1, <1>2, <1>5, Dropped DEF InspectFails, At
<1>6. CASE CallFails(h)
  <2>1. LateOK'
    BY <1>6, AbandonOK, InFlightOK DEF CallFails
  <2>2. QED
    BY <1>2, <1>6, <2>1, Dropped DEF CallFails, At
<1>7. CASE AnswerLost(h)
  BY <1>1, <1>7, Dropped DEF AnswerLost, At
<1>8. CASE Disconnect(h)
  <2>1. LateOK'
    BY <1>8, AbandonOK, InFlightOK DEF Disconnect
  <2>2. QED
    BY <1>8, <2>1, Dropped DEF Disconnect, At
<1>9. CASE Deliver(h)
  BY <1>1, <1>2, <1>9, Dropped DEF Deliver, At
<1>10. CASE BodyArrives(h)
  <2>1. PICK pc \in {"send", "inspect"} :
            /\ Goto(h, pc)
            /\ pc = "send" => Uninspected(task[h].op, task[h].ref)
    BY <1>10 DEF BodyArrives
  <2>2. HandlerOK(h)
    OBVIOUS
  <2>3. RequestOK(h)'
    BY <1>10, <2>1, <2>2, GotoFields DEF BodyArrives, HandlerOK, RequestOK, At, store
  <2>4. AnswerOK(h)' /\ ReplyTracked(h)' /\ Untracked(h)' = {}
    BY <2>1, GotoFields DEF AnswerOK, ReplyTracked, Untracked, At
  <2>5. AllowedById(h)'
    <3>1. SUFFICES ASSUME task'[h].pc = "send", task[h].ref \in Live
                   PROVE  owner[task[h].ref] \in Sessions
      BY <1>10, <2>1, GotoFields DEF BodyArrives, AllowedById, At, Live, store
    <3>2. task[h].op # "other"
      BY <1>10, <2>2, <3>1 DEF BodyArrives, HandlerOK, RequestOK, At, Live, Refs
    <3>3. task[h].ref # CreateName
      BY <3>1, ProxyAssumption DEF Live, Refs
    <3>4. task[h].ref \in Tracked
      BY <2>1, <3>1, <3>2, <3>3, GotoFields DEF Uninspected, IsTracked
    <3>5. QED
      BY <3>1, <3>4 DEF Attribution, Tracked, Live, TypeOK, ProxyTypeOK
  <2>6. HandlerOK(h)'
    BY <2>3, <2>4, <2>5 DEF HandlerOK
  <2>7. QED
    BY <1>1, <1>2, <1>10, <2>1, <2>4, <2>6, GotoFields, QuietStep DEF BodyArrives, At
<1>11. CASE CreateBodyLabelled(h)
  <2>1. /\ task'[h].pc = "send"
        /\ task'[h].op = "create"
        /\ task'[h].session = task[h].session
        /\ task'[h].label = task[h].session
        /\ \A g \in Handlers \ {h} : task'[g] = task[g]
    BY <1>11 DEF CreateBodyLabelled, TypeOK, ProxyTypeOK, TasksOK, Task
  <2>2. HandlerOK(h)' /\ Untracked(h)' = {}
    BY <1>11, <2>1
       DEF CreateBodyLabelled, HandlerOK, RequestOK, AnswerOK, ReplyTracked, AllowedById,
           Untracked, At
  <2>3. QED
    BY <1>1, <1>2, <1>11, <2>1, <2>2, QuietStep DEF CreateBodyLabelled, At
<1>12. CASE CreateBodyOpaque(h)
  <2>1. HandlerOK(h)' /\ Untracked(h)' = {}
    BY <1>12, GotoFields
       DEF CreateBodyOpaque, HandlerOK, RequestOK, AnswerOK, ReplyTracked, AllowedById,
           Untracked, At
  <2>2. QED
    BY <1>1, <1>2, <1>12, <2>1, GotoFields, QuietStep DEF CreateBodyOpaque, At
<1>13. CASE Inspect(h)
  <2>1. CASE Fail(h, "denied")
    BY <1>1, <1>2, <1>13, <2>1, Dropped DEF Inspect, At
  <2>2. CASE Goto(h, "send") /\ \A c \in Resolve(task[h].ref) : Accessible(c)
    <3>1. RequestOK(h)'
      BY <1>13, <2>2, GotoFields DEF Inspect, HandlerOK, RequestOK, At, store
    <3>2. AnswerOK(h)' /\ ReplyTracked(h)' /\ Untracked(h)' = {}
      BY <2>2, GotoFields DEF AnswerOK, ReplyTracked, Untracked, At
    <3>3. AllowedById(h)'
      <4>1. SUFFICES ASSUME task[h].ref \in Live
                     PROVE  owner[task[h].ref] \in Sessions \/ PolicyAllows(task[h].ref)
        BY <1>13, <2>2, GotoFields
           DEF Inspect, AllowedById, At, Live, PolicyAllows, Matches, store
      <4>2. Accessible(task[h].ref)
        BY <2>2, <4>1 DEF Resolve
      <4>3. QED
        BY <4>1, <4>2 DEF Accessible, LabelsOK, TypeOK, StoreTypeOK, Live
    <3>4. HandlerOK(h)'
      BY <3>1, <3>2, <3>3 DEF HandlerOK
    <3>5. QED
      BY <1>1, <1>2, <1>13, <2>2, <3>2, <3>4, GotoFields, QuietStep DEF Inspect, At
  <2>3. QED
    BY <1>13, <2>1, <2>2 DEF Inspect
<1>14. CASE BackendActs(h) \/ BackendRefuses(h)
  <2>1. PICK r \in {"done", "refused"} : Answer(h, r, None)
    BY <1>14 DEF BackendActs, BackendRefuses
  <2>2. HandlerOK(h)' /\ Untracked(h)' = {}
    BY <2>1, AnswerFields
       DEF HandlerOK, RequestOK, AnswerOK, ReplyTracked, AllowedById, Untracked, At, Refs
  <2>3. QED
    BY <1>1, <1>2, <1>14, <2>1, <2>2, AnswerFields, QuietStep
       DEF BackendActs, BackendRefuses, At
<1>15. QED
  BY <1>3, <1>4, <1>5, <1>6, <1>7, <1>8, <1>9, <1>10, <1>11, <1>12, <1>13, <1>14

\* The backend creates a container for a handler: the handler holds it.
LEMMA CreatesInv ==
    ASSUME SharedInv, TypeOK', NEW h \in Handlers, NEW c \in Ids, UNCHANGED <<phase, keep, todo>>,
           BackendCreates(h, c)
    PROVE  SharedInv'
<1> USE DEF SharedInv
<1>1. /\ task[h].session \in Sessions
      /\ task[h].label \in {None, task[h].session}
  BY DEF BackendCreates, HandlerOK, RequestOK, At
<1>2. Put(c, task[h].ref, task[h].label, task[h].session) /\ Answer(h, "created", c)
  BY DEF BackendCreates
<1>3. Evolves /\ Retains
  BY <1>1, <1>2, PutEvolves DEF BackendCreates, Retains
<1>4. /\ status'[c] = "live"
      /\ label'[c] = task[h].label
      /\ owner'[c] = task[h].session
      /\ Owned' \subseteq Owned \cup {c}
  BY <1>2 DEF Put, TypeOK, StoreTypeOK, Owned, Managed, Live
<1>5. HandlerOK(h)' /\ Untracked(h)' = {c}
  BY <1>1, <1>2, <1>4, AnswerFields
     DEF HandlerOK, RequestOK, AnswerOK, ReplyTracked, AllowedById, Untracked, At
<1>6. LateOK'
  BY DEF BackendCreates, LateOK
<1>7. Attribution'
  BY <1>3, AttributionKept DEF BackendCreates
<1>8. phase \in {"serve", "drain"} /\ todo = {}
  BY Serving DEF BackendCreates, At
<1>9. Untracked(h) = {} /\ Tracked' = Tracked /\ stray' = stray
  BY DEF BackendCreates, Untracked, At, Tracked
<1>10. OwnContainersKept'
  BY <1>2, <1>4, <1>5, <1>8, <1>9, AnswerFields, KeptServing
<1>11. QED
  BY <1>2, <1>3, <1>5, <1>6, <1>7, <1>8, <1>10, AnswerFields, HandlerStepInv

\* The backend removes the container a handler was asked to delete.
LEMMA RemovesInv ==
    ASSUME SharedInv, TypeOK', NEW h \in Handlers, NEW c \in Ids, UNCHANGED <<phase, keep, todo>>,
           BackendRemoves(h, c)
    PROVE  SharedInv'
<1> USE DEF SharedInv
<1>1. Remove(c) /\ c \in Resolve(task[h].ref) /\ Answer(h, "removed", None)
  BY DEF BackendRemoves
<1>2. Evolves /\ Retains
  BY <1>1, RemoveEvolves DEF BackendRemoves, Retains
<1>3. status'[c] = "gone" /\ Owned' \subseteq Owned
  BY <1>1 DEF Remove, TypeOK, StoreTypeOK, Owned, Managed, Live
<1>4. task[h].ref \in Ids => task[h].ref = c
  BY <1>1 DEF Resolve, TypeOK, StoreTypeOK, Live, Refs
<1>5. HandlerOK(h)' /\ Untracked(h)' = {}
  BY <1>1, <1>3, <1>4, AnswerFields
     DEF HandlerOK, RequestOK, AnswerOK, ReplyTracked, AllowedById, Untracked, At, Refs
<1>6. LateOK'
  BY DEF BackendRemoves, LateOK
<1>7. Attribution'
  BY <1>2, AttributionKept DEF BackendRemoves
<1>8. phase \in {"serve", "drain"} /\ todo = {}
  BY Serving DEF BackendRemoves, At
<1>9. Untracked(h) = {} /\ Tracked' = Tracked /\ stray' = stray
  BY DEF BackendRemoves, Untracked, At, Tracked
<1>10. OwnContainersKept'
  BY <1>1, <1>3, <1>5, <1>8, <1>9, AnswerFields, KeptServing
<1>11. QED
  BY <1>1, <1>2, <1>5, <1>6, <1>7, <1>8, <1>10, AnswerFields, HandlerStepInv

\* What the table does at the end of a handler: a container the answer named
\* is tracked for its session, or a removed one is untracked.
LEMMA FinishTable ==
    ASSUME TypeOK, NEW h \in Handlers, HandlerOK(h), Finish(h)
    PROVE  \A c \in Ids :
               tracked'[c] = IF task[h].result = "created" /\ c = task[h].made
                             THEN task[h].session
                             ELSE IF task[h].result = "removed" /\ c = task[h].ref
                             THEN None
                             ELSE tracked[c]
BY DEF Finish, TrackContainer, UntrackContainer, TypeOK, ProxyTypeOK, HandlerOK, AnswerOK, At

\* It forgets only what the backend has removed: an answer "removed" by id is
\* about that id, and a container the answer of a create names was not tracked
\* for another session.
LEMMA FinishRetains ==
    ASSUME SharedInv, NEW h \in Handlers, Finish(h)
    PROVE  Retains
<1> USE DEF SharedInv
<1>1. SUFFICES ASSUME NEW c \in Ids, tracked[c] # None, status[c] # "gone"
               PROVE  tracked'[c] = tracked[c]
  BY DEF Retains
<1>2. status[c] = "live" /\ owner[c] = tracked[c]
  BY <1>1 DEF Attribution, Tracked, TypeOK, StoreTypeOK
<1>3. /\ task[h].result = "created" /\ c = task[h].made => owner[c] = task[h].session
      /\ task[h].result = "removed" => c # task[h].ref
  BY <1>1, <1>2 DEF Finish, HandlerOK, AnswerOK, At
<1>4. QED
  BY <1>2, <1>3, FinishTable

LEMMA FinishInv ==
    ASSUME SharedInv, TypeOK', NEW h \in Handlers, UNCHANGED <<phase, keep, todo>>, Finish(h)
    PROVE  SharedInv'
<1> USE DEF SharedInv
<1>1. Goto(h, "reply") /\ At(h, "answered") /\ UNCHANGED <<store, late, stray>>
  BY DEF Finish
<1>2. HandlerOK(h)
  OBVIOUS
<1>3. Evolves
  BY <1>1, StutterEvolves
<1>4. /\ task[h].result = "created" =>
             /\ task[h].made \in Ids
             /\ task[h].session \in Sessions
             /\ status[task[h].made] # "unborn"
             /\ status[task[h].made] = "live" =>
                    /\ owner[task[h].made] = task[h].session
                    /\ label[task[h].made] \in {None, task[h].session}
      /\ task[h].result # "created" => task[h].made = None
      /\ task[h].result = "removed" /\ task[h].ref \in Ids => status[task[h].ref] = "gone"
  BY <1>1, <1>2 DEF HandlerOK, AnswerOK, At
<1>5. Retains
  BY FinishRetains
<1>6. Attribution'
  <2>1. SUFFICES ASSUME NEW c \in Ids, tracked'[c] # None
                 PROVE  /\ status[c] # "unborn"
                        /\ status[c] = "live" =>
                               owner[c] = tracked'[c] /\ label[c] \in {None, tracked'[c]}
    BY <1>1 DEF Attribution, Tracked, store
  <2>2. CASE task[h].result = "created" /\ c = task[h].made
    BY <1>2, <1>4, <2>2, FinishTable
  <2>3. CASE ~(task[h].result = "created" /\ c = task[h].made)
    BY <1>2, <2>1, <2>3, FinishTable DEF Attribution, Tracked
  <2>4. QED
    BY <2>2, <2>3
<1>7. ReplyTracked(h)'
  BY <1>1, <1>2, <1>4, GotoFields, FinishTable DEF ReplyTracked, At
<1>8. HandlerOK(h)'
  BY <1>1, <1>4, <1>7, GotoFields
     DEF HandlerOK, RequestOK, AnswerOK, AllowedById, At, store
<1>9. LateOK'
  BY <1>1 DEF LateOK
<1>10. phase \in {"serve", "drain"} /\ todo = {}
  BY <1>1, Serving DEF At
<1>11. Owned' = Owned
  BY <1>1 DEF Owned, Managed, Live, store
<1>12. Owned \cap Tracked \subseteq Tracked'
  BY <1>5 DEF Retains, Tracked, Owned, Managed, Live
<1>13. Untracked(h) \subseteq Tracked'
  BY <1>2, <1>4, FinishTable DEF Untracked, Tracked, Refs
<1>14. OwnContainersKept'
  BY <1>1, <1>10, <1>11, <1>12, <1>13, GotoFields, KeptServing
<1>15. QED
  BY <1>1, <1>3, <1>5, <1>6, <1>8, <1>9, <1>10, <1>14, GotoFields, HandlerStepInv

LEMMA HandlesInv ==
    ASSUME SharedInv, TypeOK', NEW h \in Handlers, Handles(h)
    PROVE  SharedInv'
BY QuietHandles, CreatesInv, RemovesInv, FinishInv DEF Handles

\* Taking up a request: it asks for nothing the backend has not heard of.
LEMMA AcceptsInv ==
    ASSUME SharedInv, TypeOK', NEW h \in Handlers, Accepts(h), UNCHANGED <<phase, keep, todo>>
    PROVE  SharedInv'
<1> USE DEF SharedInv
<1>1. At(h, "idle") /\ UNCHANGED <<store, tracked, late, stray>> /\ phase = "serve"
  BY DEF Accepts, RejectEarly, Accept
<1>2. HandlerOK(h)' /\ Untracked(h)' = {} /\ \A g \in Handlers \ {h} : task'[g] = task[g]
  <2>1. CASE RejectEarly(h)
    BY <2>1, FailOK DEF RejectEarly
  <2>2. ASSUME NEW op, NEW ref, NEW s \in Clients, op \in Ops,
               op # "create" => (ref \in Ids => status[ref] # "unborn"),
               op = "other" => ref = None,
               Accept(h, op, ref, s)
        PROVE  HandlerOK(h)' /\ Untracked(h)' = {}
               /\ \A g \in Handlers \ {h} : task'[g] = task[g]
    <3>1. /\ task'[h].pc = "body"
          /\ task'[h].op = op
          /\ task'[h].ref = ref
          /\ task'[h].label = None
          /\ op = "create" => task'[h].session = s
          /\ \A g \in Handlers \ {h} : task'[g] = task[g]
      BY <2>2 DEF Accept, NoTask, TypeOK, ProxyTypeOK, TasksOK
    <3>2. QED
      BY <1>1, <2>2, <3>1
         DEF HandlerOK, RequestOK, AnswerOK, ReplyTracked, AllowedById, Untracked, At, store
  <2>3. ASSUME NEW n \in Names, n \in Ids PROVE FALSE
    BY <2>3
  <2>4. None \notin Ids
    BY DEF Refs
  <2>5. CASE \E op \in Ops \cap {"delete", "act", "read"}, s \in Clients,
               ref \in {c \in Ids : status[c] # "unborn"} \cup Names : Accept(h, op, ref, s)
    BY <2>2, <2>3, <2>5
  <2>6. CASE \E s \in Clients, n \in Names \cup {None} :
                 "create" \in Ops /\ Accept(h, "create", n, s)
    BY <2>2, <2>6
  <2>7. CASE \E s \in Clients : "other" \in Ops /\ Accept(h, "other", None, s)
    BY <2>2, <2>4, <2>7
  <2>8. QED
    BY <2>1, <2>5, <2>6, <2>7 DEF Accepts
<1>3. Evolves /\ Retains
  BY <1>1, StutterEvolves DEF Retains
<1>4. LateOK'
  BY <1>1 DEF LateOK
<1>5. Attribution'
  BY <1>1, <1>3, AttributionKept
<1>6. Owned' = Owned /\ Tracked' = Tracked /\ Untracked(h) = {}
  BY <1>1 DEF Owned, Managed, Live, Tracked, store, Untracked, At
<1>7. OwnContainersKept'
  BY <1>1, <1>2, <1>6, KeptServing
<1>8. QED
  BY <1>1, <1>2, <1>3, <1>4, <1>5, <1>7, HandlerStepInv DEF PhasesOK

-----------------------------------------------------------------------------
(* A step outside PSP *)

\* Whatever the phase, a change of the containers alone is harmless if it makes
\* no container of PSP but strays.
LEMMA StoreOnly ==
    ASSUME SharedInv, TypeOK', Evolves, UNCHANGED <<tracked, task, phase, keep, todo>>, LateOK',
           stray \subseteq stray', Owned' \subseteq Owned \cup stray'
    PROVE  SharedInv'
<1> USE DEF SharedInv
<1>1. Retains
  BY DEF Retains
<1>2. \A h \in Handlers : HandlerOK(h)'
  BY <1>1, HandlerKept
<1>3. LabelsOK' /\ Attribution' /\ SweepTargets'
  BY LabelsKept, AttributionKept, TargetsKept
<1>4. PhasesOK'
  BY DEF PhasesOK, At, Tracked
<1>5. Accounted' = Accounted
  BY DEF Accounted, Untracked, At, Tracked
<1>6. OwnContainersKept'
  BY <1>5 DEF OwnContainersKept
<1>7. CleanupCovers'
  BY DEF CleanupCovers, Attribution, Evolves, Tracked, Live, TypeOK, StoreTypeOK
<1>8. QED
  BY <1>2, <1>3, <1>4, <1>6, <1>7

LEMMA OutsideInv == ASSUME SharedInv, TypeOK', OutsideStep PROVE SharedInv'
<1> USE DEF SharedInv
<1>1. UNCHANGED <<phase, keep, todo>>
  BY DEF OutsideStep
<1>2. ASSUME NEW c \in Ids, Remove(c) PROVE Owned' \subseteq Owned
  BY <1>2 DEF Remove, Owned, Managed, Live, TypeOK, StoreTypeOK
<1>3. ASSUME NEW c \in Ids, OutsiderRemoves(c), UNCHANGED proxyVars
      PROVE  SharedInv'
  BY <1>1, <1>2, <1>3, RemoveEvolves, StoreOnly DEF OutsiderRemoves, proxyVars, LateOK
<1>4. ASSUME NEW c \in Ids, NEW n \in Names \cup {None}, OutsiderCreates(c, n),
             UNCHANGED proxyVars
      PROVE  SharedInv'
  <2>1. Owned' \subseteq Owned
    BY <1>4 DEF OutsiderCreates, Put, Owned, Managed, Live, TypeOK, StoreTypeOK
  <2>2. QED
    BY <1>1, <1>4, <2>1, OutsiderEvolves, StoreOnly DEF proxyVars, LateOK
<1>5. ASSUME NEW c \in Ids, NEW call \in late, LateCreate(call, c)
      PROVE  SharedInv'
  <2>1. call.session \in Clients /\ call.label \in {None, call.session}
    BY <1>5 DEF LateCreate, LateOK
  <2>2. Evolves
    BY <1>5, <2>1, PutEvolves DEF LateCreate
  <2>3. Owned' \subseteq Owned \cup {c}
    BY <1>5 DEF LateCreate, Put, Owned, Managed, Live, TypeOK, StoreTypeOK
  <2>4. QED
    BY <1>1, <1>5, <2>2, <2>3, StoreOnly DEF LateCreate, LateOK
<1>6. ASSUME NEW c \in Ids, NEW call \in late, LateRemove(call, c)
      PROVE  SharedInv'
  BY <1>1, <1>2, <1>6, RemoveEvolves, StoreOnly DEF LateRemove, LateOK
<1>7. QED
  BY <1>3, <1>4, <1>5, <1>6 DEF OutsideStep

-----------------------------------------------------------------------------
(* A step of the process *)

\* The process moves on; handlers, table and given-up calls stay as they are.
LEMMA ProcessFrame ==
    ASSUME SharedInv, TypeOK', Evolves, UNCHANGED <<task, tracked, late>>,
           PhasesOK', SweepTargets', OwnContainersKept', CleanupCovers'
    PROVE  SharedInv'
<1> USE DEF SharedInv
<1>1. \A h \in Handlers : HandlerOK(h)'
  BY HandlerKept DEF Retains
<1>2. LabelsOK' /\ Attribution' /\ LateOK'
  BY LabelsKept, AttributionKept DEF LateOK
<1>3. QED
  BY <1>1, <1>2

\* The process ends: nothing is left that could be wrong but the calls it gave up.
LEMMA HaltInv == ASSUME SharedInv, TypeOK', Halt, LateOK' PROVE SharedInv'
<1>1. \A h \in Handlers : task'[h].pc = "idle" /\ task'[h].op = "none"
  BY DEF Halt, NoTask
<1>2. \A h \in Handlers : HandlerOK(h)'
  BY <1>1 DEF HandlerOK, RequestOK, AnswerOK, ReplyTracked, AllowedById, At
<1>3. LabelsOK'
  BY StutterEvolves, LabelsKept DEF Halt, SharedInv
<1>4. Tracked' = {} /\ todo' = {} /\ phase' = "down"
  BY DEF Halt, Tracked
<1>5. PhasesOK' /\ Attribution' /\ SweepTargets' /\ OwnContainersKept' /\ CleanupCovers'
  BY <1>1, <1>4 DEF PhasesOK, Attribution, SweepTargets, OwnContainersKept, CleanupCovers, At
<1>6. QED
  BY <1>2, <1>3, <1>5 DEF SharedInv

LEMMA RemovalOK ==
    ASSUME NEW c, NEW call \in Removal(c)
    PROVE  call.op # "create"
BY DEF Removal

LEMMA ProcessInv == ASSUME SharedInv, TypeOK', ProcessStep PROVE SharedInv'
<1> USE DEF SharedInv
<1>1. CASE \E k \in KeepChoices : Start(k)
  <2>1. PhasesOK' /\ SweepTargets' /\ OwnContainersKept' /\ CleanupCovers'
    BY <1>1 DEF Start, proxyVars, PhasesOK, SweepTargets, OwnContainersKept, CleanupCovers, At, Tracked
  <2>2. QED
    BY <1>1, <2>1, StutterEvolves, ProcessFrame DEF Start, proxyVars
<1>2. CASE PingOk
  <2>1. PhasesOK' /\ SweepTargets' /\ OwnContainersKept' /\ CleanupCovers'
    BY <1>2 DEF PingOk, proxyVars, PhasesOK, SweepTargets, OwnContainersKept, CleanupCovers, At, Tracked
  <2>2. QED
    BY <1>2, <2>1, StutterEvolves, ProcessFrame DEF PingOk, proxyVars
<1>3. CASE ListManaged
  <2>1. Owned' = Owned
    BY <1>3 DEF ListManaged, Owned, Managed, Live, store
  <2>2. PhasesOK' /\ CleanupCovers'
    BY <1>3 DEF ListManaged, PhasesOK, CleanupCovers, At, Tracked
  <2>3. SweepTargets'
    BY <1>3 DEF ListManaged, SweepTargets, PhasesOK, LabelsOK, Owned, Managed, Live, TypeOK,
                StoreTypeOK, store
  <2>4. OwnContainersKept'
    BY <1>3, <2>1 DEF ListManaged, OwnContainersKept, Accounted, Owned
  <2>5. QED
    BY <1>3, <2>2, <2>3, <2>4, StutterEvolves, ProcessFrame DEF ListManaged
<1>4. CASE ListNotAnArray
  <2>1. Owned' = Owned
    BY <1>4 DEF ListNotAnArray, Owned, Managed, Live, store
  <2>2. PhasesOK' /\ CleanupCovers' /\ SweepTargets' /\ OwnContainersKept'
    BY <1>4, <2>1
       DEF ListNotAnArray, PhasesOK, CleanupCovers, SweepTargets, OwnContainersKept, At, Tracked,
           Owned
  <2>3. QED
    BY <1>4, <2>2, StutterEvolves, ProcessFrame DEF ListNotAnArray
<1>5. CASE SweepDone \/ Bind \/ Shutdown
  <2>1. UNCHANGED <<store, proxyVars, keep, todo>>
    BY <1>5 DEF SweepDone, Bind, Shutdown
  <2>2. Owned' = Owned /\ Tracked' = Tracked
        /\ \A h \in Handlers : Untracked(h)' = Untracked(h)
    BY <2>1 DEF Owned, Managed, Live, Tracked, Untracked, At, store, proxyVars
  <2>3. PhasesOK' /\ SweepTargets' /\ CleanupCovers'
    BY <1>5, <2>1
       DEF SweepDone, Bind, Shutdown, PhasesOK, SweepTargets, CleanupCovers, At, Tracked,
           proxyVars, store
  <2>4. OwnContainersKept'
    BY <1>5, <2>1, <2>2
       DEF SweepDone, Bind, Shutdown, OwnContainersKept, Accounted, PhasesOK, proxyVars
  <2>5. QED
    BY <2>1, <2>3, <2>4, StutterEvolves, ProcessFrame DEF proxyVars
<1>6. ASSUME NEW c \in Ids, RemoveNext(c)
      PROVE  SharedInv'
  <2>1. Evolves
    BY <1>6, RemoveEvolves DEF RemoveNext
  <2>2. Live' = Live \ {c} /\ Owned' \subseteq Owned \ {c} /\ Tracked' = Tracked
    BY <1>6 DEF RemoveNext, Remove, Owned, Managed, Live, Tracked, TypeOK, StoreTypeOK, proxyVars
  <2>3. PhasesOK' /\ CleanupCovers' /\ OwnContainersKept'
    BY <1>6, <2>2
       DEF RemoveNext, PhasesOK, CleanupCovers, OwnContainersKept, Accounted, At, proxyVars
  <2>4. SweepTargets'
    BY <1>6, <2>1, TargetsKept DEF RemoveNext
  <2>5. QED
    BY <1>6, <2>1, <2>3, <2>4, ProcessFrame DEF RemoveNext, proxyVars
<1>7. ASSUME NEW c \in Ids, RemovalRefused(c)
      PROVE  SharedInv'
  <2>1. Evolves /\ Live' = Live /\ Owned' = Owned /\ Tracked' = Tracked
    BY <1>7, StutterEvolves DEF RemovalRefused, Owned, Managed, Live, Tracked, store
  <2>2. PhasesOK' /\ CleanupCovers' /\ OwnContainersKept'
    BY <1>7, <2>1
       DEF RemovalRefused, PhasesOK, CleanupCovers, OwnContainersKept, Accounted, At, Owned, Managed
  <2>3. SweepTargets'
    BY <1>7, <2>1, TargetsKept DEF RemovalRefused
  <2>4. QED
    BY <1>7, <2>1, <2>2, <2>3, ProcessFrame DEF RemovalRefused
<1>8. CASE Drained
  <2>1. Evolves /\ Live' = Live /\ Owned' = Owned /\ Tracked' = Tracked
    BY <1>8, StutterEvolves DEF Drained, Owned, Managed, Live, Tracked, store, proxyVars
  <2>2. PhasesOK' /\ CleanupCovers'
    BY <1>8, <2>1 DEF Drained, CleanupList, PhasesOK, CleanupCovers, At, proxyVars
  <2>3. SweepTargets'
    BY <1>8 DEF Drained, CleanupList, SweepTargets, Attribution, Tracked, store, TypeOK, ProxyTypeOK
  <2>4. \A h \in Handlers : Untracked(h) = {}
    BY <1>8 DEF Drained, Untracked, At
  <2>5. OwnContainersKept'
    BY <1>8, <2>1, <2>4 DEF Drained, CleanupList, OwnContainersKept, Accounted, proxyVars
  <2>6. QED
    BY <1>8, <2>1, <2>2, <2>3, <2>5, ProcessFrame DEF Drained, proxyVars
<1>9. CASE Exit
  <2>1. Evolves /\ Owned' = Owned /\ Tracked' = {}
    BY <1>9, StutterEvolves DEF Exit, Owned, Managed, Live, Tracked, store
  <2>2. PhasesOK' /\ CleanupCovers' /\ SweepTargets' /\ Attribution'
    BY <1>9, <2>1 DEF Exit, PhasesOK, CleanupCovers, SweepTargets, Attribution, At
  <2>3. OwnContainersKept'
    BY <1>9, <2>1 DEF Exit, OwnContainersKept, Accounted
  <2>4. \A h \in Handlers : HandlerOK(h)'
    BY <1>9, <2>2
       DEF Exit, PhasesOK, HandlerOK, RequestOK, AnswerOK, ReplyTracked, AllowedById, At
  <2>5. LabelsOK' /\ LateOK'
    BY <1>9, <2>1, LabelsKept DEF Exit, LateOK
  <2>6. QED
    BY <2>2, <2>3, <2>4, <2>5
<1>10. CASE BackendFails
  <2>1. LateOK'
    BY <1>10, AbandonOK, RemovalOK DEF BackendFails, LateOK
  <2>2. QED
    BY <1>10, <2>1, HaltInv DEF BackendFails
<1>11. CASE BindFails
  BY <1>11, HaltInv DEF BindFails, LateOK
<1>12. CASE Crash
  <2>1. PICK c \in Ids : Abandon(Removal(c) \cup UNION {InFlight(h) : h \in Handlers})
    BY <1>12 DEF Crash
  <2>2. LateOK'
    BY <2>1, AbandonOK, RemovalOK, InFlightOK
  <2>3. QED
    BY <1>12, <2>2, HaltInv DEF Crash
<1>13. QED
  BY <1>1, <1>2, <1>3, <1>4, <1>5, <1>6, <1>7, <1>8, <1>9, <1>10, <1>11, <1>12
     DEF ProcessStep

-----------------------------------------------------------------------------
(* The theorems *)

LEMMA InitInv == Init => SharedInv
<1> SUFFICES ASSUME Init PROVE SharedInv
  OBVIOUS
<1>1. TypeOK
  BY InitType
<1>2. \A h \in Handlers : task[h].pc = "idle" /\ task[h].op = "none"
  BY DEF Init, ProxyInit, NoTask
<1>3. \A h \in Handlers : HandlerOK(h)
  BY <1>2 DEF HandlerOK, RequestOK, AnswerOK, ReplyTracked, AllowedById, At
<1>4. Tracked = {} /\ late = {} /\ Live = {} /\ todo = {} /\ phase = "down"
  BY DEF Init, ProxyInit, StoreInit, Tracked, Live
<1>5. QED
  BY <1>1, <1>2, <1>3, <1>4
     DEF SharedInv, LateOK, LabelsOK, PhasesOK, Attribution, SweepTargets, OwnContainersKept, CleanupCovers,
         At

LEMMA StepInv == SharedInv /\ [Next]_vars => SharedInv'
<1> SUFFICES ASSUME SharedInv, [Next]_vars PROVE SharedInv'
  OBVIOUS
<1>1. TypeOK'
  BY HandlesType, AcceptsType, ProcessType, OutsideType, StutterType
     DEF SharedInv, Next, HandlerStep
<1>2. ASSUME UNCHANGED vars PROVE SharedInv'
  BY <1>1, <1>2, StutterEvolves, StoreOnly DEF vars, proxyVars, SharedInv, LateOK, Owned, Managed, Live,
     store
<1>3. QED
  BY <1>1, <1>2, HandlesInv, AcceptsInv, ProcessInv, OutsideInv DEF Next, HandlerStep

\* Only outsiders and PSP's own clients have containers created.
LEMMA OwnersStep ==
    ASSUME SharedInv, OwnersOK, [Next]_vars
    PROVE  OwnersOK'
<1> USE DEF SharedInv
<1>1. ASSUME UNCHANGED store PROVE OwnersOK'
  BY <1>1 DEF store, OwnersOK, Live
<1>2. ASSUME NEW c \in Ids, Remove(c) PROVE OwnersOK'
  BY <1>2 DEF Remove, OwnersOK, Live, TypeOK, StoreTypeOK
<1>3. ASSUME NEW c \in Ids, NEW n, NEW l, NEW o \in Clients \cup {Outsider}, Put(c, n, l, o)
      PROVE  OwnersOK'
  BY <1>3 DEF Put, OwnersOK, Live, TypeOK, StoreTypeOK
<1>4. ASSUME NEW h \in Handlers, Handles(h) PROVE OwnersOK'
  <2>1. ASSUME NEW c \in Ids, BackendCreates(h, c) PROVE OwnersOK'
    BY <1>3, <2>1 DEF BackendCreates, HandlerOK, RequestOK, At
  <2>2. ASSUME NEW c \in Ids, BackendRemoves(h, c) PROVE OwnersOK'
    BY <1>2, <2>2 DEF BackendRemoves
  <2>3. QED
    BY <1>1, <1>4, <2>1, <2>2
       DEF Handles, BodyFails, BodyArrives, CreateBodyLabelled, CreateBodyOpaque,
           CreateBodyDenied, Inspect, InspectFails, BackendActs, BackendRefuses, CallFails,
           AnswerLost, Finish, Deliver, Disconnect
<1>5. ASSUME NEW h \in Handlers, Accepts(h) PROVE OwnersOK'
  BY <1>1, <1>5 DEF Accepts, RejectEarly, Accept
<1>6. ASSUME ProcessStep PROVE OwnersOK'
  BY <1>1, <1>2, <1>6
     DEF ProcessStep, Start, PingOk, ListManaged, ListNotAnArray, SweepDone, Bind,
         RemoveNext, RemovalRefused, Shutdown, Drained, Exit, BackendFails, BindFails,
         Crash, Halt
<1>7. ASSUME OutsideStep PROVE OwnersOK'
  BY <1>2, <1>3, <1>7
     DEF OutsideStep, OutsiderRemoves, OutsiderCreates, LateCreate, LateRemove, LateOK
<1>8. QED
  BY <1>1, <1>4, <1>5, <1>6, <1>7 DEF Next, HandlerStep, vars

LEMMA InitAlone == Init => IInv
BY InitInv DEF IInv, OwnersOK, Live, Init, StoreInit

\* The inductive invariant holds of every reachable state.
THEOREM Invariance == Spec => []IInv
<1>1. Init => IInv
  BY InitAlone
<1>2. IInv /\ [Next]_vars => IInv'
  BY StepInv, OwnersStep DEF IInv
<1>3. QED
  BY <1>1, <1>2, PTL DEF Spec

\* Alone on its backend a PSP accounts for every container with its label.
LEMMA NothingLost == IInv => NoLeak
<1> SUFFICES ASSUME IInv PROVE NoLeak
  OBVIOUS
<1>1. Managed \subseteq Owned
  BY DEF IInv, SharedInv, OwnersOK, LabelsOK, Managed, Owned, TypeOK, StoreTypeOK, Live
<1>2. QED
  BY <1>1 DEF IInv, SharedInv, OwnContainersKept, NoLeak

\* Only the end of a handler, and the end of the process, change the table.
LEMMA StepRetains ==
    ASSUME SharedInv, [Next]_vars
    PROVE  Retains \/ phase' \in {"down", "exited"}
<1>1. ASSUME UNCHANGED tracked PROVE Retains
  BY <1>1 DEF Retains
<1>2. ASSUME NEW h \in Handlers, Handles(h) PROVE Retains
  BY <1>1, <1>2, FinishRetains
     DEF Handles, BodyFails, BodyArrives, CreateBodyLabelled, CreateBodyOpaque,
         CreateBodyDenied, Inspect, InspectFails, BackendCreates, BackendRemoves,
         BackendActs, BackendRefuses, CallFails, AnswerLost, Deliver, Disconnect
<1>3. ASSUME NEW h \in Handlers, Accepts(h) PROVE Retains
  BY <1>1, <1>3 DEF Accepts, RejectEarly, Accept
<1>4. ASSUME ProcessStep PROVE Retains \/ phase' \in {"down", "exited"}
  BY <1>1, <1>4
     DEF ProcessStep, Start, PingOk, ListManaged, ListNotAnArray, SweepDone, Bind,
         RemoveNext, RemovalRefused, Shutdown, Drained, Exit, BackendFails, BindFails,
         Crash, Halt, proxyVars
<1>5. ASSUME OutsideStep PROVE Retains
  BY <1>1, <1>5 DEF OutsideStep, LateCreate, LateRemove, proxyVars
<1>6. QED
  BY <1>1, <1>2, <1>3, <1>4, <1>5 DEF Next, HandlerStep, vars, proxyVars

\* A running PSP forgets a container only once the backend has removed it.
THEOREM TableForgetsOnlyRemoved == Spec => ForgetsOnlyRemoved
<1>1. IInv /\ [Next]_vars =>
          [\A c \in Tracked :
              c \in Tracked' \/ status[c] = "gone" \/ phase' \in {"down", "exited"}]_vars
  BY StepRetains DEF IInv, Retains, Tracked
<1>2. QED
  BY <1>1, Invariance, PTL DEF Spec, ForgetsOnlyRemoved

\* No container with PSP's label is lost between the startup listing and a
\* clean exit, but for the calls the backend never answered or refused.
THEOREM NothingLeaks == Spec => []NoLeak
BY NothingLost, Invariance, PTL

\* The list of the shutdown cleanup holds every live tracked container.
THEOREM CleanupIsComplete == Spec => []CleanupCovers
<1>1. IInv => CleanupCovers
  BY DEF IInv, SharedInv
<1>2. QED
  BY <1>1, Invariance, PTL

\* A tracked container belongs to the session it is tracked for.
THEOREM AttributionIsRight == Spec => []Attribution
<1>1. IInv => Attribution
  BY DEF IInv, SharedInv
<1>2. QED
  BY <1>1, Invariance, PTL

\* The sweep and the cleanup only ever remove what PSP created.
THEOREM SweepsRemoveOwn == Spec => []SweepTargets
<1>1. IInv => SweepTargets
  BY DEF IInv, SharedInv
<1>2. QED
  BY <1>1, Invariance, PTL

\* A client that is told of its container finds it tracked, or removed.
THEOREM RepliesAreTracked == Spec => []ReplyAfterTracking
<1>1. IInv => ReplyAfterTracking
  BY DEF IInv, SharedInv, HandlerOK, ReplyAfterTracking
<1>2. QED
  BY <1>1, Invariance, PTL

\* The access decision on a container id is not overtaken by other steps.
THEOREM AccessByIdIsSound == Spec => []ForwardedByIdAllowed
<1>1. IInv => ForwardedByIdAllowed
  BY DEF IInv, SharedInv, HandlerOK, ForwardedByIdAllowed
<1>2. QED
  BY <1>1, Invariance, PTL
=============================================================================
