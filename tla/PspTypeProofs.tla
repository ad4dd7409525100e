--------------------------- MODULE PspTypeProofs ---------------------------
(***************************************************************************)
(* Type correctness of Psp, for every number of containers, names, sessions*)
(* and handlers, every policy and every value of the flags.                *)
(***************************************************************************)
EXTENDS PspInvariants, TLAPS

USE BackendAssumption, ProxyAssumption, PspAssumption

-----------------------------------------------------------------------------
(* Type correctness *)

\* What the backend does keeps its store well-formed.
LEMMA PutType ==
    ASSUME StoreTypeOK, NEW c \in Ids, NEW n \in Names \cup {None},
           NEW l \in Sessions \cup {None}, NEW o \in Sessions \cup {Outsider, None},
           Put(c, n, l, o)
    PROVE  StoreTypeOK'
BY DEF StoreTypeOK, Put

LEMMA RemoveType == ASSUME StoreTypeOK, NEW c \in Ids, Remove(c) PROVE StoreTypeOK'
BY DEF StoreTypeOK, Remove

LEMMA StoreStutterType == ASSUME StoreTypeOK, UNCHANGED store PROVE StoreTypeOK'
BY DEF StoreTypeOK, store

\* A step that gives one handler a well-formed task keeps them all well-formed.
LEMMA TaskType ==
    ASSUME TasksOK, NEW h \in Handlers, NEW t \in Task,
           t.op = "create" => t.ref \in Names \cup {None},
           task' = [task EXCEPT ![h] = t]
    PROVE  TasksOK'
BY DEF TasksOK

\* The replies PSP makes itself, the awaits and the answers keep the types.
LEMMA FailType ==
    ASSUME TasksOK, NEW h \in Handlers,
           NEW r \in {"denied", "rejected", "failed"}, Fail(h, r)
    PROVE  TasksOK'
<1> DEFINE t == [NoTask EXCEPT !.pc = "reply", !.result = r]
<1>1. t \in Task /\ t.op = "none"
  BY DEF NoTask, Task
<1>2. QED
  BY <1>1, TaskType DEF Fail

LEMMA GotoType ==
    ASSUME TasksOK, NEW h \in Handlers,
           NEW pc \in {"idle", "body", "inspect", "send", "answered", "reply"}, Goto(h, pc)
    PROVE  TasksOK'
<1> DEFINE t == [task[h] EXCEPT !.pc = pc]
<1>1. t \in Task /\ t.op = task[h].op /\ t.ref = task[h].ref
  BY DEF TasksOK, Task
<1>2. task' = [task EXCEPT ![h] = t]
  BY DEF Goto
<1>3. QED
  BY <1>1, <1>2, TaskType DEF TasksOK

LEMMA AnswerType ==
    ASSUME TasksOK, NEW h \in Handlers, NEW r \in {"created", "removed", "done", "refused"},
           NEW m \in Ids \cup {None}, Answer(h, r, m)
    PROVE  TasksOK'
<1> DEFINE t == [task[h] EXCEPT !.pc = "answered", !.result = r, !.made = m]
<1>1. task[h] \in Task
  BY DEF TasksOK
<1>2. t \in Task /\ t.op = task[h].op /\ t.ref = task[h].ref
  BY <1>1 DEF Task
<1>3. task' = [task EXCEPT ![h] = t]
  BY DEF Answer
<1>4. QED
  BY <1>2, <1>3, TaskType DEF TasksOK

LEMMA NoTaskType ==
    ASSUME TasksOK, NEW h \in Handlers, task' = [task EXCEPT ![h] = NoTask]
    PROVE  TasksOK'
<1>1. NoTask \in Task /\ NoTask.op = "none"
  BY DEF NoTask, Task
<1>2. QED
  BY <1>1, TaskType

LEMMA InFlightType ==
    ASSUME TasksOK, NEW h \in Handlers
    PROVE  InFlight(h) \subseteq Call
BY DEF TasksOK, InFlight, Task, Call, CreateCall, DeleteCall

LEMMA AbandonType ==
    ASSUME late \subseteq Call, NEW calls \in SUBSET Call, Abandon(calls)
    PROVE  late' \subseteq Call
BY DEF Abandon

LEMMA UntrackedType ==
    ASSUME ProxyTypeOK, NEW h \in Handlers
    PROVE  Untracked(h) \subseteq Ids
BY DEF Untracked

\* One step of a handler keeps the types.
LEMMA HandlesType ==
    ASSUME TypeOK, NEW h \in Handlers, Handles(h)
    PROVE  TypeOK'
<1> USE DEF TypeOK
<1>1. UNCHANGED <<phase, keep, todo>>
  BY DEF Handles
<1>2. SUFFICES StoreTypeOK' /\ ProxyTypeOK'
  BY <1>1
<1>3. CASE BodyFails(h)
  BY <1>3, FailType, StoreStutterType DEF BodyFails, ProxyTypeOK
<1>4. CASE BodyArrives(h)
  BY <1>4, GotoType, StoreStutterType DEF BodyArrives, ProxyTypeOK
<1>5. CASE CreateBodyLabelled(h)
  <2> DEFINE t == [task[h] EXCEPT !.pc = "send", !.label = task[h].session]
  <2>0. task[h] \in Task
    BY DEF ProxyTypeOK, TasksOK
  <2>1. t \in Task /\ t.op = task[h].op /\ t.ref = task[h].ref
    BY <2>0 DEF Task
  <2>2. task' = [task EXCEPT ![h] = t]
    BY <1>5 DEF CreateBodyLabelled
  <2>3. TasksOK'
    BY <2>1, <2>2, TaskType DEF ProxyTypeOK, TasksOK
  <2>4. QED
    BY <1>5, <2>3, StoreStutterType DEF CreateBodyLabelled, ProxyTypeOK
<1>6. CASE CreateBodyOpaque(h)
  BY <1>6, GotoType, StoreStutterType DEF CreateBodyOpaque, ProxyTypeOK
<1>7. CASE CreateBodyDenied(h)
  BY <1>7, FailType, StoreStutterType DEF CreateBodyDenied, ProxyTypeOK
<1>8. CASE Inspect(h)
  BY <1>8, GotoType, FailType, StoreStutterType DEF Inspect, ProxyTypeOK
<1>9. CASE InspectFails(h)
  BY <1>9, FailType, StoreStutterType DEF InspectFails, ProxyTypeOK
<1>10. ASSUME NEW c \in Ids, BackendCreates(h, c)
       PROVE  StoreTypeOK' /\ ProxyTypeOK'
  <2>1. /\ task[h].ref \in Names \cup {None}
        /\ task[h].label \in Sessions \cup {None}
        /\ task[h].session \in Sessions \cup {None}
    BY <1>10 DEF BackendCreates, ProxyTypeOK, TasksOK, Task
  <2>2. StoreTypeOK'
    BY <1>10, <2>1, PutType DEF BackendCreates
  <2>3. QED
    BY <1>10, <2>2, AnswerType DEF BackendCreates, ProxyTypeOK
<1>11. ASSUME NEW c \in Ids, BackendRemoves(h, c)
       PROVE  StoreTypeOK' /\ ProxyTypeOK'
  BY <1>11, AnswerType, RemoveType DEF BackendRemoves, ProxyTypeOK
<1>12. CASE BackendActs(h)
  BY <1>12, AnswerType, StoreStutterType DEF BackendActs, ProxyTypeOK
<1>13. CASE BackendRefuses(h)
  BY <1>13, AnswerType, StoreStutterType DEF BackendRefuses, ProxyTypeOK
<1>14. CASE CallFails(h)
  BY <1>14, FailType, InFlightType, AbandonType, StoreStutterType DEF CallFails, ProxyTypeOK
<1>15. CASE AnswerLost(h)
  BY <1>15, FailType, UntrackedType, StoreStutterType DEF AnswerLost, ProxyTypeOK
<1>16. CASE Finish(h)
  <2>1. task[h].session \in Sessions \cup {None}
    BY DEF ProxyTypeOK, TasksOK, Task
  <2>2. tracked' \in [Ids -> Sessions \cup {None}]
    BY <1>16, <2>1 DEF Finish, ProxyTypeOK, TrackContainer, UntrackContainer
  <2>3. QED
    BY <1>16, <2>2, GotoType, StoreStutterType DEF Finish, ProxyTypeOK
<1>17. CASE Deliver(h)
  BY <1>17, NoTaskType, StoreStutterType DEF Deliver, ProxyTypeOK
<1>18. CASE Disconnect(h)
  BY <1>18, NoTaskType, InFlightType, AbandonType, UntrackedType, StoreStutterType
     DEF Disconnect, ProxyTypeOK
<1>19. QED
  BY <1>3, <1>4, <1>5, <1>6, <1>7, <1>8, <1>9, <1>10, <1>11, <1>12, <1>13, <1>14,
     <1>15, <1>16, <1>17, <1>18 DEF Handles

\* Taking up a request keeps the types.
LEMMA AcceptType ==
    ASSUME TypeOK, NEW h \in Handlers, NEW op \in {"create", "delete", "act", "read", "other"},
           NEW ref \in Refs \cup {None}, NEW s \in Sessions,
           op = "create" => ref \in Names \cup {None},
           Accept(h, op, ref, s)
    PROVE  StoreTypeOK' /\ ProxyTypeOK'
<1> DEFINE t == [NoTask EXCEPT !.pc = "body", !.op = op, !.ref = ref,
                               !.session = IF op = "create" THEN s ELSE None]
<1>1. t \in Task /\ t.op = op /\ t.ref = ref
  BY DEF NoTask, Task
<1>2. task' = [task EXCEPT ![h] = t]
  BY DEF Accept
<1>3. TasksOK'
  BY <1>1, <1>2, TaskType DEF TypeOK, ProxyTypeOK
<1>4. QED
  BY <1>3, StoreStutterType DEF Accept, TypeOK, ProxyTypeOK

LEMMA AcceptsType ==
    ASSUME TypeOK, NEW h \in Handlers, Accepts(h), UNCHANGED <<phase, keep, todo>>
    PROVE  TypeOK'
<1>1. SUFFICES StoreTypeOK' /\ ProxyTypeOK'
  BY DEF TypeOK
<1>2. CASE RejectEarly(h)
  BY <1>2, FailType, StoreStutterType DEF RejectEarly, TypeOK, ProxyTypeOK
<1>3. ASSUME NEW op \in Ops \cap {"delete", "act", "read"}, NEW s \in Sessions,
             NEW ref \in {c \in Ids : status[c] # "unborn"} \cup Names, Accept(h, op, ref, s)
      PROVE  StoreTypeOK' /\ ProxyTypeOK'
  BY <1>3, AcceptType DEF Refs
<1>4. ASSUME NEW s \in Sessions, NEW n \in Names \cup {None}, Accept(h, "create", n, s)
      PROVE  StoreTypeOK' /\ ProxyTypeOK'
  BY <1>4, AcceptType DEF Refs
<1>5. ASSUME NEW s \in Sessions, Accept(h, "other", None, s)
      PROVE  StoreTypeOK' /\ ProxyTypeOK'
  BY <1>5, AcceptType
<1>6. QED
  BY <1>2, <1>3, <1>4, <1>5 DEF Accepts

\* The steps of the process: start, sweep, shutdown, cleanup, crash.
LEMMA HaltType ==
    ASSUME TypeOK, Halt, late' \subseteq Call
    PROVE  TypeOK'
<1>1. NoTask \in Task /\ NoTask.op = "none"
  BY DEF NoTask, Task
<1>2. TasksOK'
  BY <1>1 DEF Halt, TasksOK
<1>3. QED
  BY <1>2, StoreStutterType DEF Halt, TypeOK, ProxyTypeOK, Phases

LEMMA RemovalType == ASSUME NEW c \in Ids PROVE Removal(c) \subseteq Call
BY DEF Removal, Call, DeleteCall, Refs

LEMMA ProcessType == ASSUME TypeOK, ProcessStep PROVE TypeOK'
<1> USE DEF TypeOK
<1>1. CASE \E k \in KeepChoices : Start(k)
  BY <1>1, StoreStutterType DEF Start, Phases, proxyVars, ProxyTypeOK, TasksOK
<1>2. CASE PingOk
  BY <1>2, StoreStutterType DEF PingOk, Phases, proxyVars, ProxyTypeOK, TasksOK
<1>3. CASE ListManaged
  BY <1>3, StoreStutterType DEF ListManaged, Phases, ProxyTypeOK, TasksOK, Managed, Live
<1>4. CASE ListNotAnArray
  BY <1>4, StoreStutterType DEF ListNotAnArray, Phases, ProxyTypeOK, TasksOK, Managed, Live
<1>5. CASE SweepDone
  BY <1>5, StoreStutterType DEF SweepDone, Phases, proxyVars, ProxyTypeOK, TasksOK
<1>6. CASE Bind
  BY <1>6, StoreStutterType DEF Bind, Phases, proxyVars, ProxyTypeOK, TasksOK
<1>7. ASSUME NEW c \in Ids, RemoveNext(c)
      PROVE  TypeOK'
  BY <1>7, RemoveType DEF RemoveNext, Phases, proxyVars, ProxyTypeOK, TasksOK
<1>8. ASSUME NEW c \in Ids, RemovalRefused(c)
      PROVE  TypeOK'
  BY <1>8, StoreStutterType DEF RemovalRefused, Phases, ProxyTypeOK, TasksOK
<1>9. CASE Shutdown
  BY <1>9, StoreStutterType DEF Shutdown, Phases, proxyVars, ProxyTypeOK, TasksOK
<1>10. CASE Drained
  BY <1>10, StoreStutterType DEF Drained, CleanupList, Phases, proxyVars, ProxyTypeOK, TasksOK, Tracked
<1>11. CASE Exit
  BY <1>11, StoreStutterType DEF Exit, Phases, ProxyTypeOK, TasksOK
<1>12. CASE BackendFails
  BY <1>12, HaltType, RemovalType, AbandonType DEF BackendFails, ProxyTypeOK
<1>13. CASE BindFails
  BY <1>13, HaltType DEF BindFails, ProxyTypeOK
<1>14. CASE Crash
  <2>1. PICK c \in Ids : Abandon(Removal(c) \cup UNION {InFlight(h) : h \in Handlers})
    BY <1>14 DEF Crash
  <2>2. Removal(c) \cup UNION {InFlight(h) : h \in Handlers} \subseteq Call
    BY RemovalType, InFlightType DEF ProxyTypeOK
  <2>3. late' \subseteq Call
    BY <2>1, <2>2, AbandonType DEF ProxyTypeOK
  <2>4. QED
    BY <1>14, <2>3, HaltType DEF Crash
<1>15. QED
  BY <1>1, <1>2, <1>3, <1>4, <1>5, <1>6, <1>7, <1>8, <1>9, <1>10, <1>11, <1>12, <1>13,
     <1>14 DEF ProcessStep

\* The steps of the backend's other users and of calls PSP gave up.
LEMMA OutsideType == ASSUME TypeOK, OutsideStep PROVE TypeOK'
<1> USE DEF TypeOK
<1>1. PICK c \in Ids :
          \/ OutsiderRemoves(c) /\ UNCHANGED proxyVars
          \/ \E n \in Names \cup {None} : OutsiderCreates(c, n) /\ UNCHANGED proxyVars
          \/ \E call \in late : LateCreate(call, c) \/ LateRemove(call, c)
  BY DEF OutsideStep
<1>2. UNCHANGED <<phase, keep, todo>>
  BY DEF OutsideStep
<1>3. CASE OutsiderRemoves(c) /\ UNCHANGED proxyVars
  BY <1>2, <1>3, RemoveType DEF OutsiderRemoves, proxyVars, ProxyTypeOK, TasksOK
<1>4. ASSUME NEW n \in Names \cup {None}, OutsiderCreates(c, n), UNCHANGED proxyVars
      PROVE  TypeOK'
  BY <1>2, <1>4, PutType DEF OutsiderCreates, proxyVars, ProxyTypeOK, TasksOK
<1>5. ASSUME NEW call \in late, LateCreate(call, c)
      PROVE  TypeOK'
  <2>1. call \in CreateCall
    BY <1>5 DEF LateCreate, ProxyTypeOK, Call, DeleteCall
  <2>2. StoreTypeOK'
    BY <1>5, <2>1, PutType DEF LateCreate, CreateCall
  <2>3. QED
    BY <1>2, <1>5, <2>2 DEF LateCreate, ProxyTypeOK, TasksOK
<1>6. ASSUME NEW call \in late, LateRemove(call, c)
      PROVE  TypeOK'
  BY <1>2, <1>6, RemoveType DEF LateRemove, ProxyTypeOK, TasksOK
<1>7. QED
  BY <1>1, <1>3, <1>4, <1>5, <1>6

LEMMA StutterType == ASSUME TypeOK, UNCHANGED vars PROVE TypeOK'
BY StoreStutterType DEF TypeOK, vars, proxyVars, ProxyTypeOK, TasksOK

LEMMA InitType == Init => TypeOK
<1>1. NoTask \in Task /\ NoTask.op = "none"
  BY DEF NoTask, Task
<1>2. StoreInit => StoreTypeOK
  BY DEF StoreInit, StoreTypeOK
<1>3. ProxyInit => TasksOK
  BY <1>1 DEF ProxyInit, TasksOK
<1>4. ProxyInit => ProxyTypeOK
  BY <1>3 DEF ProxyInit, ProxyTypeOK
<1>5. QED
  BY <1>2, <1>4 DEF Init, TypeOK, Phases

\* Every variable keeps its type: the session table maps ids to sessions, a
\* handler's request is well-formed, a call given up has a session's label.
THEOREM TypeCorrect == Spec => []TypeOK
<1>1. TypeOK /\ [Next]_vars => TypeOK'
  BY HandlesType, AcceptsType, ProcessType, OutsideType, StutterType DEF Next, HandlerStep
<1>2. QED
  BY <1>1, InitType, PTL DEF Spec
=============================================================================
