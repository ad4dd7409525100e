-------------------------- MODULE InstancesProofs --------------------------
(***************************************************************************)
(* The properties of Instances, for every number of containers, sessions   *)
(* and handlers.  What either process does to the containers is harmless   *)
(* to the other: a container only goes from unborn to live to gone         *)
(* (Evolves), and neither creates one in the name of the other's clients.  *)
(* So P's invariant, SharedInv, is carried over as it stands (StoreOnly),   *)
(* and Q's part is shown to hold for each of Q's steps.                    *)
(***************************************************************************)
EXTENDS InstancesInvariants, PspProofs

USE BackendAssumption, ProxyAssumption, PspAssumption, InstancesAssumption

-----------------------------------------------------------------------------
(* What a step does to the containers *)

\* A step of Q that P's invariant does not notice.
Harmless == Evolves /\ StoreTypeOK' /\ Owned' \subseteq Owned

LEMMA SameStore ==
    /\ Q!store = store /\ Q!Live = Live /\ Q!Managed = Managed
    /\ Q!Task = Task /\ Q!Call = Call /\ Q!NoTask = NoTask
BY DEF Q!store, store, Q!Live, Live, Q!Managed, Managed, Q!Task, Task, Q!Refs, Refs,
       Q!Call, Call, Q!CreateCall, CreateCall, Q!DeleteCall, DeleteCall, Q!NoTask, NoTask

LEMMA StutterHarmless == ASSUME TypeOK, UNCHANGED store PROVE Harmless
BY StutterEvolves, StoreStutterType DEF Harmless, TypeOK, Owned, Managed, Live, store

LEMMA RemoveHarmless ==
    ASSUME TypeOK, NEW c \in Ids, Q!Remove(c)
    PROVE  Harmless /\ status'[c] = "gone"
<1>1. Remove(c)
  BY DEF Q!Remove, Q!Live, Remove, Live
<1>2. Owned' \subseteq Owned /\ status'[c] = "gone"
  BY <1>1 DEF Remove, Owned, Managed, Live, TypeOK, StoreTypeOK
<1>3. QED
  BY <1>1, <1>2, RemoveEvolves, RemoveType DEF Harmless, TypeOK

\* A container created for a client of Q is none of P's clients'.
LEMMA PutHarmless ==
    ASSUME TypeOK, NEW c \in Ids, NEW n \in Names \cup {None}, NEW s \in ClientsQ,
           NEW l \in {None, s}, Q!Put(c, n, l, s)
    PROVE  Harmless /\ status[c] = "unborn" /\ status'[c] = "live" /\ owner'[c] = s
<1>1. Put(c, n, l, s)
  BY DEF Q!Put, Q!Resolve, Q!Live, Put, Resolve, Live
<1>2. Owned' \subseteq Owned /\ status[c] = "unborn" /\ status'[c] = "live" /\ owner'[c] = s
  BY <1>1 DEF Put, Owned, Managed, Live, TypeOK, StoreTypeOK
<1>3. QED
  BY <1>1, <1>2, PutEvolves, PutType DEF Harmless, TypeOK

\* P's own steps evolve the containers, too.
LEMMA StepEvolves == ASSUME SharedInv, [Next]_vars PROVE Evolves
<1> USE DEF SharedInv
<1>1. ASSUME NEW h \in Handlers, Handles(h) PROVE Evolves
  <2>1. ASSUME NEW c \in Ids, BackendCreates(h, c) PROVE Evolves
    BY <2>1, PutEvolves DEF BackendCreates, HandlerOK, RequestOK, At
  <2>2. ASSUME NEW c \in Ids, BackendRemoves(h, c) PROVE Evolves
    BY <2>2, RemoveEvolves DEF BackendRemoves
  <2>3. QED
    BY <1>1, <2>1, <2>2, StutterEvolves
       DEF Handles, BodyFails, BodyArrives, CreateBodyLabelled, CreateBodyOpaque,
           CreateBodyDenied, Inspect, InspectFails, BackendActs, BackendRefuses, CallFails,
           AnswerLost, Finish, Deliver, Disconnect
<1>2. ASSUME NEW h \in Handlers, Accepts(h) PROVE Evolves
  BY <1>2, StutterEvolves DEF Accepts, RejectEarly, Accept
<1>3. ASSUME ProcessStep PROVE Evolves
  BY <1>3, StutterEvolves, RemoveEvolves
     DEF ProcessStep, Start, PingOk, ListManaged, ListNotAnArray, SweepDone, Bind,
         RemoveNext, RemovalRefused, Shutdown, Drained, Exit, BackendFails, BindFails,
         Crash, Halt
<1>4. ASSUME OutsideStep PROVE Evolves
  BY <1>4, RemoveEvolves, OutsiderEvolves, PutEvolves
     DEF OutsideStep, OutsiderRemoves, LateCreate, LateRemove, LateOK
<1>5. QED
  BY <1>1, <1>2, <1>3, <1>4, StutterEvolves DEF Next, HandlerStep, vars

\* P does not notice a harmless step.
LEMMA PKept == ASSUME SharedInv, Harmless, UNCHANGED varsP PROVE SharedInv'
<1>1. UNCHANGED <<tracked, task, late, stray, phase, keep, todo>>
  BY DEF varsP, proxyVars
<1>2. TypeOK'
  BY <1>1 DEF SharedInv, TypeOK, Harmless, ProxyTypeOK, TasksOK
<1>3. LateOK'
  BY <1>1 DEF SharedInv, LateOK
<1>4. QED
  BY <1>1, <1>2, <1>3, StoreOnly DEF Harmless

-----------------------------------------------------------------------------
(* What Q keeps while it does not move *)

\* Q's types, in P's terms.
ProxyTypesQ ==
    /\ trackedQ \in [Ids -> Sessions \cup {None}]
    /\ taskQ \in [{handlerQ} -> Task]
    /\ asked.op = "create" => asked.ref \in Names \cup {None}
    /\ lateQ \subseteq Call
    /\ strayQ \subseteq Ids

LEMMA TypesAgree == Q!ProxyTypeOK <=> ProxyTypesQ
BY SameStore DEF Q!ProxyTypeOK, Q!TasksOK, ProxyTypesQ, asked

LEMMA TypesAgreeAfter == Q!ProxyTypeOK' <=> ProxyTypesQ'
BY SameStore DEF Q!ProxyTypeOK, Q!TasksOK, ProxyTypesQ, asked

LEMMA QKept ==
    ASSUME BothInv, Evolves,
           UNCHANGED <<trackedQ, taskQ, phaseQ, keepQ, todoQ, command>>,
           lateQ' \subseteq lateQ, strayQ \subseteq strayQ', strayQ' \subseteq Ids
    PROVE  QInv'
<1> USE DEF BothInv, QInv, command
<1>1. asked' = asked
  BY DEF asked
<1>2. QTypeOK'
  BY TypesAgree, TypesAgreeAfter, <1>1 DEF QTypeOK, ProxyTypesQ
<1>3. OwnCalls' /\ PhasesQOK'
  BY <1>1 DEF OwnCalls, OwnCall, PhasesQOK
<1>4. TypeOK /\ StoreTypeOK
  BY DEF SharedInv, TypeOK
<1>5. AnswersHold'
  BY <1>1, <1>4 DEF AnswersHold, Evolves, StoreTypeOK
<1>6. ListsAreOwn'
  BY <1>4 DEF ListsAreOwn, Evolves, StoreTypeOK
<1>7. ShownOK'
  BY <1>4 DEF ShownOK, Evolves, StoreTypeOK, Live, Managed, QTypeOK
<1>8. SmokeOK'
  BY <1>1, <1>4 DEF SmokeOK, PassedSmokeTestIsClean, Evolves, StoreTypeOK
<1>9. QED
  BY <1>2, <1>3, <1>5, <1>6, <1>7, <1>8

-----------------------------------------------------------------------------
(* A step of Q's handler *)

\* The request goes on as it was, or is over with no container in hand.
AskedKept ==
    \/ asked'.op = "none" /\ asked'.result \notin {"created", "removed"}
    \/ /\ asked'.op = asked.op /\ asked'.ref = asked.ref
       /\ asked'.result = "removed" => asked.result = "removed" \/ asked.op = "delete"

\* What a step of Q's handler keeps, whatever program Q is.
HandlerKeeps ==
    Harmless /\ ProxyTypesQ' /\ OwnCalls' /\ AnswersHold' /\ ListsAreOwn' /\ AskedKept

LEMMA AskedType == ASSUME QInv PROVE ProxyTypesQ /\ asked \in Task
BY TypesAgree DEF QInv, QTypeOK, ProxyTypesQ, asked

\* The one handler's request after a step.
LEMMA AskedIs ==
    ASSUME ProxyTypesQ, NEW r \in Task, r.op = "create" => r.ref \in Names \cup {None},
           taskQ' = [taskQ EXCEPT ![handlerQ] = r]
    PROVE  /\ asked' = r
           /\ taskQ' \in [{handlerQ} -> Task]
           /\ asked'.op = "create" => asked'.ref \in Names \cup {None}
BY DEF ProxyTypesQ, asked

LEMMA FailIs ==
    ASSUME ProxyTypesQ, NEW r \in {"denied", "rejected", "failed"}, Q!Fail(handlerQ, r)
    PROVE  /\ taskQ' \in [{handlerQ} -> Task]
           /\ asked'.pc = "reply" /\ asked'.op = "none" /\ asked'.result = r
<1> DEFINE t == [NoTask EXCEPT !.pc = "reply", !.result = r]
<1>1. t \in Task /\ t.op = "none" /\ t.pc = "reply" /\ t.result = r
  BY DEF NoTask, Task
<1>2. taskQ' = [taskQ EXCEPT ![handlerQ] = t]
  BY SameStore DEF Q!Fail
<1>3. QED
  BY <1>1, <1>2, AskedIs

LEMMA IdleIs ==
    ASSUME ProxyTypesQ, taskQ' = [taskQ EXCEPT ![handlerQ] = Q!NoTask]
    PROVE  /\ taskQ' \in [{handlerQ} -> Task]
           /\ asked'.pc = "idle" /\ asked'.op = "none" /\ asked'.result = "none"
<1>1. /\ NoTask \in Task
      /\ NoTask.pc = "idle" /\ NoTask.op = "none" /\ NoTask.result = "none"
  BY DEF NoTask, Task
<1>2. QED
  BY <1>1, AskedIs, SameStore

LEMMA GotoIs ==
    ASSUME ProxyTypesQ,
           NEW pc \in {"idle", "body", "inspect", "send", "answered", "reply"},
           Q!Goto(handlerQ, pc)
    PROVE  /\ taskQ' \in [{handlerQ} -> Task]
           /\ asked'.pc = pc
           /\ asked'.op = asked.op /\ asked'.ref = asked.ref
           /\ asked'.session = asked.session /\ asked'.label = asked.label
           /\ asked'.made = asked.made /\ asked'.result = asked.result
<1> DEFINE t == [asked EXCEPT !.pc = pc]
<1>1. asked \in Task
  BY DEF ProxyTypesQ, asked
<1>2. /\ t \in Task /\ t.pc = pc /\ t.op = asked.op /\ t.ref = asked.ref
      /\ t.session = asked.session /\ t.label = asked.label
      /\ t.made = asked.made /\ t.result = asked.result
  BY <1>1 DEF Task
<1>3. taskQ' = [taskQ EXCEPT ![handlerQ] = t]
  BY DEF Q!Goto, asked
<1>4. QED
  BY <1>2, <1>3, AskedIs DEF ProxyTypesQ

LEMMA AnswerIs ==
    ASSUME ProxyTypesQ, NEW r \in {"created", "removed", "done", "refused"},
           NEW m \in Ids \cup {None}, Q!Answer(handlerQ, r, m)
    PROVE  /\ taskQ' \in [{handlerQ} -> Task]
           /\ asked'.pc = "answered"
           /\ asked'.op = asked.op /\ asked'.ref = asked.ref
           /\ asked'.session = asked.session /\ asked'.label = asked.label
           /\ asked'.made = m /\ asked'.result = r
<1> DEFINE t == [asked EXCEPT !.pc = "answered", !.result = r, !.made = m]
<1>1. asked \in Task
  BY DEF ProxyTypesQ, asked
<1>2. /\ t \in Task /\ t.pc = "answered" /\ t.op = asked.op /\ t.ref = asked.ref
      /\ t.session = asked.session /\ t.label = asked.label
      /\ t.made = m /\ t.result = r
  BY <1>1 DEF Task
<1>3. taskQ' = [taskQ EXCEPT ![handlerQ] = t]
  BY DEF Q!Answer, asked
<1>4. QED
  BY <1>2, <1>3, AskedIs DEF ProxyTypesQ

\* The calls Q gives up are its own.
LEMMA AbandonIs ==
    ASSUME ProxyTypesQ, OwnCalls, NEW calls \in SUBSET Call, \A call \in calls : OwnCall(call),
           Q!Abandon(calls)
    PROVE  lateQ' \subseteq Call /\ \A call \in lateQ' : OwnCall(call)
BY DEF Q!Abandon, ProxyTypesQ, OwnCalls

LEMMA InFlightIs ==
    ASSUME ProxyTypesQ, OwnCalls
    PROVE  /\ Q!InFlight(handlerQ) \subseteq Call
           /\ \A call \in Q!InFlight(handlerQ) : OwnCall(call)
<1>1. asked \in Task
  BY DEF ProxyTypesQ, asked
<1>2. CASE asked.pc = "send" /\ asked.op \in {"create", "delete"}
  <2> DEFINE call == [op |-> asked.op, ref |-> asked.ref,
                      session |-> asked.session, label |-> asked.label]
  <2>1. Q!InFlight(handlerQ) = {call}
    BY <1>2 DEF Q!InFlight, Q!At, asked
  <2>2. call \in Call
    BY <1>1, <1>2 DEF Call, CreateCall, DeleteCall, Task, ProxyTypesQ
  <2>3. OwnCall(call)
    BY <1>2 DEF OwnCalls, OwnCall
  <2>4. QED
    BY <2>1, <2>2, <2>3
<1>3. CASE ~(asked.pc = "send" /\ asked.op \in {"create", "delete"})
  BY <1>3 DEF Q!InFlight, Q!At, asked
<1>4. QED
  BY <1>2, <1>3

\* What Q tracks or sweeps is harmed by no change of the containers.
LEMMA ListsKept ==
    ASSUME BothInv, Harmless, UNCHANGED trackedQ, todoQ' \subseteq todoQ
    PROVE  ListsAreOwn'
BY DEF BothInv, QInv, SharedInv, TypeOK, StoreTypeOK, ListsAreOwn, Harmless, Evolves

\* A request that is over, by an error, a delivery or the client's leaving.
LEMMA EndKeeps ==
    ASSUME BothInv, UNCHANGED store, UNCHANGED <<trackedQ, todoQ>>,
           (\E r \in {"denied", "rejected", "failed"} : Q!Fail(handlerQ, r))
               \/ taskQ' = [taskQ EXCEPT ![handlerQ] = Q!NoTask],
           lateQ' = lateQ \/ Q!Abandon(Q!InFlight(handlerQ)),
           strayQ' = strayQ \/ strayQ' = strayQ \cup Q!Untracked(handlerQ)
    PROVE  HandlerKeeps
<1> USE DEF BothInv
<1>1. ProxyTypesQ /\ OwnCalls /\ TypeOK
  BY AskedType DEF QInv, SharedInv
<1>2. /\ taskQ' \in [{handlerQ} -> Task]
      /\ asked'.pc \in {"idle", "reply"} /\ asked'.op = "none"
      /\ asked'.result \notin {"created", "removed"}
  BY <1>1, FailIs, IdleIs
<1>3. lateQ' \subseteq Call /\ \A call \in lateQ' : OwnCall(call)
  BY <1>1, InFlightIs, AbandonIs DEF ProxyTypesQ, OwnCalls
<1>4. ProxyTypesQ'
  BY <1>1, <1>2, <1>3 DEF ProxyTypesQ, Q!Untracked
<1>5. OwnCalls' /\ AnswersHold'
  BY <1>2, <1>3 DEF OwnCalls, OwnCall, AnswersHold
<1>6. ListsAreOwn'
  BY DEF QInv, ListsAreOwn, store
<1>7. QED
  BY <1>1, <1>2, <1>4, <1>5, <1>6, StutterHarmless DEF HandlerKeeps, AskedKept

\* A request that goes on to its next await, or gets an answer without effect.
LEMMA MoveKeeps ==
    ASSUME BothInv, UNCHANGED <<store, trackedQ, todoQ, lateQ, strayQ>>,
           taskQ' \in [{handlerQ} -> Task],
           asked'.op = asked.op, asked'.ref = asked.ref, asked'.session = asked.session,
           asked'.label \in {asked.label, asked.session},
           asked.pc \in {"body", "inspect", "send"},
           asked'.result \in {asked.result, "done", "refused"},
           asked'.pc \in {"answered", "reply"} => asked'.result \in {"done", "refused"}
    PROVE  HandlerKeeps
<1> USE DEF BothInv
<1>1. ProxyTypesQ /\ OwnCalls /\ TypeOK /\ asked \in Task
  BY AskedType DEF QInv, SharedInv
<1>2. ProxyTypesQ'
  BY <1>1 DEF ProxyTypesQ
<1>3. asked' \in Task
  BY DEF asked
<1>4. OwnCalls'
  BY <1>1 DEF OwnCalls, OwnCall
<1>5. AnswersHold'
  BY DEF AnswersHold
<1>6. ListsAreOwn'
  BY DEF QInv, ListsAreOwn, store
<1>7. AskedKept
  BY DEF AskedKept
<1>8. QED
  BY <1>1, <1>2, <1>4, <1>5, <1>6, <1>7, StutterHarmless DEF HandlerKeeps

LEMMA HandlesKeeps ==
    ASSUME BothInv, Q!Handles(handlerQ)
    PROVE  HandlerKeeps /\ UNCHANGED <<phaseQ, keepQ, todoQ>> /\ strayQ \subseteq strayQ'
<1> USE DEF BothInv
<1>1. ProxyTypesQ /\ OwnCalls /\ TypeOK /\ asked \in Task
  BY AskedType DEF QInv, SharedInv
<1>2. UNCHANGED <<phaseQ, keepQ, todoQ>>
  BY DEF Q!Handles
<1> USE DEF Q!At, Q!store, store
<1>3. ASSUME (\E r \in {"denied", "rejected", "failed"} : Q!Fail(handlerQ, r))
                 \/ taskQ' = [taskQ EXCEPT ![handlerQ] = Q!NoTask],
             UNCHANGED <<store, trackedQ>>,
             lateQ' = lateQ \/ Q!Abandon(Q!InFlight(handlerQ)),
             strayQ' = strayQ \/ strayQ' = strayQ \cup Q!Untracked(handlerQ)
      PROVE  HandlerKeeps /\ UNCHANGED <<phaseQ, keepQ, todoQ>> /\ strayQ \subseteq strayQ'
  BY <1>2, <1>3, EndKeeps
<1>4. CASE Q!BodyFails(handlerQ)
  BY <1>3, <1>4 DEF Q!BodyFails
<1>5. CASE Q!CreateBodyDenied(handlerQ)
  BY <1>3, <1>5 DEF Q!CreateBodyDenied
<1>6. CASE Q!InspectFails(handlerQ)
  BY <1>3, <1>6 DEF Q!InspectFails
<1>7. CASE Q!Deliver(handlerQ)
  BY <1>3, <1>7 DEF Q!Deliver
<1>8. CASE Q!CallFails(handlerQ)
  BY <1>3, <1>8 DEF Q!CallFails
<1>9. CASE Q!AnswerLost(handlerQ)
  BY <1>3, <1>9 DEF Q!AnswerLost
<1>10. CASE Q!Disconnect(handlerQ)
  BY <1>3, <1>10 DEF Q!Disconnect
<1>11. ASSUME NEW pc \in {"send", "inspect"}, Q!Goto(handlerQ, pc),
              asked.pc \in {"body", "inspect"}, UNCHANGED <<store, trackedQ, lateQ, strayQ>>
       PROVE  HandlerKeeps
  BY <1>1, <1>2, <1>11, GotoIs, MoveKeeps
<1>12. CASE Q!BodyArrives(handlerQ)
  BY <1>2, <1>11, <1>12 DEF Q!BodyArrives, asked
<1>13. CASE Q!CreateBodyOpaque(handlerQ)
  BY <1>2, <1>11, <1>13 DEF Q!CreateBodyOpaque, asked
<1>14. CASE Q!CreateBodyLabelled(handlerQ)
  <2> DEFINE t == [asked EXCEPT !.pc = "send", !.label = asked.session]
  <2>1. /\ t \in Task /\ t.pc = "send" /\ t.op = asked.op /\ t.ref = asked.ref
        /\ t.session = asked.session /\ t.label = asked.session /\ t.result = asked.result
    BY <1>1 DEF Task
  <2>2. taskQ' = [taskQ EXCEPT ![handlerQ] = t]
    BY <1>14 DEF Q!CreateBodyLabelled, asked
  <2>3. asked' = t /\ taskQ' \in [{handlerQ} -> Task]
    BY <1>1, <2>1, <2>2, AskedIs DEF ProxyTypesQ
  <2>4. asked.pc = "body" /\ UNCHANGED <<store, trackedQ, lateQ, strayQ>>
    BY <1>14 DEF Q!CreateBodyLabelled, asked
  <2>5. QED
    BY <1>2, <2>1, <2>3, <2>4, MoveKeeps
<1>15. CASE Q!Inspect(handlerQ)
  BY <1>2, <1>3, <1>11, <1>15 DEF Q!Inspect, asked
<1>16. CASE Q!BackendActs(handlerQ) \/ Q!BackendRefuses(handlerQ)
  <2>1. PICK r \in {"done", "refused"} : Q!Answer(handlerQ, r, None)
    BY <1>16 DEF Q!BackendActs, Q!BackendRefuses
  <2>2. asked.pc = "send" /\ UNCHANGED <<store, trackedQ, lateQ, strayQ>>
    BY <1>16 DEF Q!BackendActs, Q!BackendRefuses, asked
  <2>3. QED
    BY <1>1, <1>2, <2>1, <2>2, AnswerIs, MoveKeeps
<1>17. ASSUME NEW c \in Ids, Q!BackendCreates(handlerQ, c)
       PROVE  HandlerKeeps /\ strayQ' = strayQ
  <2>1. /\ asked.pc = "send" /\ asked.op = "create"
        /\ Q!Put(c, asked.ref, asked.label, asked.session)
        /\ Q!Answer(handlerQ, "created", c)
        /\ UNCHANGED <<trackedQ, lateQ, strayQ>>
    BY <1>17 DEF Q!BackendCreates, asked
  <2>2. asked.session \in ClientsQ /\ asked.label \in {None, asked.session}
    BY <1>1, <2>1 DEF OwnCalls, OwnCall
  <2>3. asked.ref \in Names \cup {None}
    BY <1>1, <2>1 DEF ProxyTypesQ
  <2>4. Harmless /\ status[c] = "unborn" /\ status'[c] = "live" /\ owner'[c] = asked.session
    BY <1>1, <2>1, <2>2, <2>3, PutHarmless
  <2>5. /\ taskQ' \in [{handlerQ} -> Task]
        /\ asked'.pc = "answered" /\ asked'.op = asked.op /\ asked'.ref = asked.ref
        /\ asked'.session = asked.session /\ asked'.made = c /\ asked'.result = "created"
    BY <1>1, <2>1, AnswerIs
  <2>6. ProxyTypesQ' /\ OwnCalls'
    BY <1>1, <2>1, <2>5 DEF ProxyTypesQ, OwnCalls
  <2>7. AnswersHold'
    BY <2>2, <2>4, <2>5 DEF AnswersHold
  <2>8. ListsAreOwn'
    BY <1>2, <2>1, <2>4, ListsKept
  <2>9. QED
    BY <2>1, <2>4, <2>5, <2>6, <2>7, <2>8 DEF HandlerKeeps, AskedKept
<1>18. ASSUME NEW c \in Ids, Q!BackendRemoves(handlerQ, c)
       PROVE  HandlerKeeps /\ strayQ' = strayQ
  <2>1. /\ asked.pc = "send" /\ asked.op = "delete"
        /\ c \in Q!Resolve(asked.ref)
        /\ Q!Remove(c)
        /\ Q!Answer(handlerQ, "removed", None)
        /\ UNCHANGED <<trackedQ, lateQ, strayQ>>
    BY <1>18 DEF Q!BackendRemoves, asked
  <2>2. Harmless /\ status'[c] = "gone"
    BY <1>1, <2>1, RemoveHarmless
  <2>3. asked.ref \in Ids => c = asked.ref
    BY <1>1, <2>1 DEF Q!Resolve, Q!Live, SharedInv, TypeOK, StoreTypeOK, Refs
  <2>4. /\ taskQ' \in [{handlerQ} -> Task]
        /\ asked'.pc = "answered" /\ asked'.op = asked.op /\ asked'.ref = asked.ref
        /\ asked'.result = "removed"
    BY <1>1, <2>1, AnswerIs
  <2>5. ProxyTypesQ' /\ OwnCalls'
    BY <1>1, <2>1, <2>4 DEF ProxyTypesQ, OwnCalls
  <2>6. AnswersHold'
    BY <2>2, <2>3, <2>4 DEF AnswersHold
  <2>7. ListsAreOwn'
    BY <1>2, <2>1, <2>2, ListsKept
  <2>8. QED
    BY <2>1, <2>2, <2>4, <2>5, <2>6, <2>7 DEF HandlerKeeps, AskedKept
<1>19. CASE Q!Finish(handlerQ)
  <2>1. /\ asked.pc = "answered" /\ Q!Goto(handlerQ, "reply")
        /\ UNCHANGED <<store, lateQ, strayQ>>
    BY <1>19 DEF Q!Finish, asked
  <2>2. /\ taskQ' \in [{handlerQ} -> Task]
        /\ asked'.pc = "reply" /\ asked'.op = asked.op /\ asked'.ref = asked.ref
        /\ asked'.session = asked.session /\ asked'.label = asked.label
        /\ asked'.made = asked.made /\ asked'.result = asked.result
    BY <1>1, <2>1, GotoIs
  <2>3. AnswersHold /\ ListsAreOwn
    BY DEF QInv
  <2>4. /\ trackedQ' \in [Ids -> Sessions \cup {None}]
        /\ \A c \in Ids : trackedQ'[c] # None =>
               trackedQ[c] # None \/ (asked.result = "created" /\ c = asked.made)
    BY <1>1, <1>19, <2>1, <2>3
       DEF Q!Finish, Q!TrackContainer, Q!UntrackContainer, ProxyTypesQ, AnswersHold, asked
  <2>5. ProxyTypesQ' /\ OwnCalls'
    BY <1>1, <2>1, <2>2, <2>4 DEF ProxyTypesQ, OwnCalls
  <2>6. AnswersHold'
    BY <2>1, <2>2, <2>3 DEF AnswersHold
  <2>7. ListsAreOwn'
    BY <1>2, <2>1, <2>3, <2>4 DEF ListsAreOwn, AnswersHold
  <2>8. QED
    BY <1>1, <1>2, <2>1, <2>2, <2>5, <2>6, <2>7, StutterHarmless DEF HandlerKeeps, AskedKept
<1>20. QED
  BY <1>2, <1>4, <1>5, <1>6, <1>7, <1>8, <1>9, <1>10, <1>12, <1>13, <1>14, <1>15, <1>16,
     <1>17, <1>18, <1>19 DEF Q!Handles

\* Taking up a request of one of Q's clients.
LEMMA AcceptKeeps ==
    ASSUME BothInv, NEW op \in {"create", "delete", "act", "read", "other"},
           NEW ref \in Refs \cup {None}, NEW s \in ClientsQ,
           op = "create" => ref \in Names \cup {None},
           Q!Accept(handlerQ, op, ref, s), UNCHANGED todoQ
    PROVE  /\ Harmless /\ ProxyTypesQ' /\ OwnCalls' /\ AnswersHold' /\ ListsAreOwn'
           /\ asked'.op = op /\ asked'.ref = ref /\ asked'.result = "none"
           /\ UNCHANGED <<store, trackedQ, lateQ, strayQ>>
<1> DEFINE t == [NoTask EXCEPT !.pc = "body", !.op = op, !.ref = ref,
                               !.session = IF op = "create" THEN s ELSE None]
<1>1. ProxyTypesQ /\ OwnCalls /\ TypeOK
  BY AskedType DEF BothInv, QInv, SharedInv
<1>2. /\ t \in Task /\ t.pc = "body" /\ t.op = op /\ t.ref = ref /\ t.result = "none"
      /\ t.label = None
      /\ op = "create" => t.session = s
  BY DEF NoTask, Task
<1>3. taskQ' = [taskQ EXCEPT ![handlerQ] = t] /\ UNCHANGED <<store, trackedQ, lateQ, strayQ>>
  BY SameStore DEF Q!Accept, Q!store, store
<1> HIDE DEF t
<1>4. asked' = t /\ taskQ' \in [{handlerQ} -> Task]
  BY <1>1, <1>2, <1>3, AskedIs
<1>5. ProxyTypesQ' /\ OwnCalls' /\ AnswersHold'
  BY <1>1, <1>2, <1>3, <1>4 DEF ProxyTypesQ, OwnCalls, OwnCall, AnswersHold
<1>6. Harmless /\ ListsAreOwn'
  BY <1>1, <1>3, StutterHarmless, ListsKept
<1>7. QED
  BY <1>2, <1>3, <1>4, <1>5, <1>6

-----------------------------------------------------------------------------
(* A step of Q's process *)

\* What Q's part of the invariant says of a PSP, commands aside.
QCore ==
    /\ ProxyTypesQ
    /\ phaseQ \in Phases \cup {"confirm", "swept"}
    /\ keepQ \in BOOLEAN
    /\ todoQ \subseteq Ids
    /\ OwnCalls /\ AnswersHold /\ ListsAreOwn /\ PhasesQOK

LEMMA CoreOfInv == ASSUME BothInv PROVE QCore /\ TypeOK
BY AskedType DEF QCore, BothInv, QInv, QTypeOK, SharedInv

\* The process moves on; handler, table and given-up calls stay as they are.
LEMMA FrameQ ==
    ASSUME BothInv, Harmless, UNCHANGED <<trackedQ, taskQ, lateQ>>, strayQ' \subseteq Ids,
           phaseQ' \in Phases \cup {"confirm", "swept"}, keepQ' \in BOOLEAN,
           todoQ' \subseteq Ids,
           todoQ' \subseteq todoQ \/ ListsAreOwn', PhasesQOK'
    PROVE  QCore'
<1>1. QCore /\ TypeOK
  BY CoreOfInv
<1>2. asked' = asked
  BY DEF asked
<1>3. ProxyTypesQ' /\ OwnCalls'
  BY <1>1, <1>2 DEF QCore, ProxyTypesQ, OwnCalls
<1>4. AnswersHold'
  BY <1>1, <1>2 DEF QCore, AnswersHold, Harmless, Evolves, TypeOK, StoreTypeOK
<1>5. QED
  BY <1>3, <1>4, ListsKept DEF QCore

\* The process ends: the calls it waited for are given up.
LEMMA HaltQ ==
    ASSUME BothInv, Q!Halt, lateQ' \subseteq Call, \A call \in lateQ' : OwnCall(call)
    PROVE  QCore' /\ UNCHANGED store
<1>1. QCore /\ TypeOK
  BY CoreOfInv
<1>2. /\ phaseQ' = "down" /\ trackedQ' = [c \in Ids |-> None]
      /\ taskQ' = [h \in {handlerQ} |-> NoTask] /\ todoQ' = {}
      /\ UNCHANGED <<store, strayQ, keepQ>>
  BY SameStore DEF Q!Halt, Q!store, store
<1>3. /\ NoTask \in Task /\ NoTask.pc = "idle" /\ NoTask.op = "none"
  BY DEF NoTask, Task
<1>4. asked' = NoTask /\ taskQ' \in [{handlerQ} -> Task]
  BY <1>2, <1>3 DEF asked
<1>5. ProxyTypesQ' /\ OwnCalls' /\ AnswersHold'
  BY <1>1, <1>2, <1>3, <1>4 DEF QCore, ProxyTypesQ, OwnCalls, AnswersHold
<1>6. ListsAreOwn' /\ PhasesQOK'
  BY <1>2 DEF ListsAreOwn, PhasesQOK
<1>7. QED
  BY <1>1, <1>2, <1>5, <1>6 DEF QCore, Phases

LEMMA RemovalIs ==
    ASSUME NEW c \in Ids
    PROVE  Q!Removal(c) \subseteq Call /\ \A call \in Q!Removal(c) : OwnCall(call)
BY DEF Q!Removal, Call, DeleteCall, Refs, OwnCall

LEMMA CrashQ == ASSUME BothInv, Q!Crash PROVE QCore' /\ Harmless
<1>1. QCore /\ TypeOK
  BY CoreOfInv
<1>2. PICK c \in Ids :
          Q!Abandon(Q!Removal(c) \cup UNION {Q!InFlight(h) : h \in {handlerQ}})
  BY DEF Q!Crash
<1> DEFINE calls == Q!Removal(c) \cup UNION {Q!InFlight(h) : h \in {handlerQ}}
<1>3. calls = Q!Removal(c) \cup Q!InFlight(handlerQ)
  OBVIOUS
<1>4. calls \subseteq Call /\ \A call \in calls : OwnCall(call)
  BY <1>1, <1>3, RemovalIs, InFlightIs DEF QCore
<1>5. lateQ' \subseteq Call /\ \A call \in lateQ' : OwnCall(call)
  BY <1>1, <1>2, <1>4, AbandonIs DEF QCore
<1>6. QED
  BY <1>1, <1>5, HaltQ, StutterHarmless DEF Q!Crash

LEMMA ProcessKeeps ==
    ASSUME BothInv, Q!ProcessStep
    PROVE  QCore' /\ Harmless
<1>1. QCore /\ TypeOK /\ LabelsOK
  BY CoreOfInv DEF BothInv, SharedInv
<1> USE DEF Q!store, store, Q!proxyVars
<1>2. ASSUME UNCHANGED <<store, trackedQ, taskQ, lateQ>>, strayQ' \subseteq Ids,
             phaseQ' \in Phases, keepQ' \in BOOLEAN, todoQ' \subseteq Ids,
             todoQ' \subseteq todoQ \/ ListsAreOwn', PhasesQOK'
      PROVE  QCore' /\ Harmless
  BY <1>1, <1>2, FrameQ, StutterHarmless
<1>3. ASSUME NEW k \in KeepQ, Q!Start(k) PROVE QCore' /\ Harmless
  BY <1>1, <1>2, <1>3 DEF Q!Start, QCore, ProxyTypesQ, Phases, PhasesQOK
<1>4. CASE Q!PingOk \/ Q!SweepDone \/ Q!Bind \/ Q!Shutdown
  BY <1>1, <1>2, <1>4
     DEF Q!PingOk, Q!SweepDone, Q!Bind, Q!Shutdown, QCore, ProxyTypesQ, Phases, PhasesQOK
<1>5. CASE Q!ListManaged
  <2>1. ListsAreOwn'
    BY <1>1, <1>5, SameStore
       DEF Q!ListManaged, QCore, ListsAreOwn, LabelsOK, Managed, Live, TypeOK, StoreTypeOK
  <2>2. todoQ' \subseteq Ids
    BY <1>5, SameStore DEF Q!ListManaged, Managed, Live
  <2>3. QED
    BY <1>1, <1>2, <1>5, <2>1, <2>2 DEF Q!ListManaged, QCore, Phases, PhasesQOK
<1>6. CASE Q!ListNotAnArray
  <2>1. strayQ' \subseteq Ids
    BY <1>6, SameStore DEF Q!ListNotAnArray, Managed, Live
  <2>2. QED
    BY <1>1, <1>2, <1>6, <2>1 DEF Q!ListNotAnArray, QCore, Phases, PhasesQOK
<1>7. ASSUME NEW c \in Ids, Q!RemoveNext(c) PROVE QCore' /\ Harmless
  <2>1. Harmless
    BY <1>1, <1>7, RemoveHarmless DEF Q!RemoveNext
  <2>2. PhasesQOK'
    BY <1>1, <1>7 DEF Q!RemoveNext, QCore, PhasesQOK
  <2>3. QED
    BY <1>1, <1>7, <2>1, <2>2, FrameQ DEF Q!RemoveNext, QCore, ProxyTypesQ
<1>8. ASSUME NEW c \in Ids, Q!RemovalRefused(c) PROVE QCore' /\ Harmless
  BY <1>1, <1>2, <1>8 DEF Q!RemovalRefused, QCore, ProxyTypesQ, Phases, PhasesQOK
<1>9. CASE Q!Drained
  <2>1. todoQ' \subseteq {c \in Ids : trackedQ[c] # None} /\ UNCHANGED trackedQ
    BY <1>9 DEF Q!Drained, Q!CleanupList, Q!Tracked
  <2>2. ListsAreOwn'
    BY <1>1, <1>9, <2>1 DEF Q!Drained, QCore, ListsAreOwn
  <2>3. PhasesQOK'
    BY <1>1, <1>9 DEF Q!Drained, Q!CleanupList, QCore, PhasesQOK
  <2>4. QED
    BY <1>1, <1>2, <1>9, <2>1, <2>2, <2>3 DEF Q!Drained, QCore, ProxyTypesQ, Phases
<1>10. CASE Q!Exit
  <2>1. Harmless
    BY <1>1, <1>10, StutterHarmless DEF Q!Exit
  <2>2. asked' = asked
    BY <1>10 DEF Q!Exit, asked
  <2>3. ProxyTypesQ' /\ OwnCalls' /\ AnswersHold'
    BY <1>1, <1>10, <2>2 DEF Q!Exit, QCore, ProxyTypesQ, OwnCalls, AnswersHold
  <2>4. ListsAreOwn' /\ PhasesQOK'
    BY <1>1, <1>10 DEF Q!Exit, QCore, ListsAreOwn, PhasesQOK
  <2>5. QED
    BY <1>1, <1>10, <2>1, <2>3, <2>4 DEF Q!Exit, QCore, Phases
<1>11. CASE Q!BackendFails
  <2>1. lateQ' \subseteq Call /\ \A call \in lateQ' : OwnCall(call)
    <3>1. CASE UNCHANGED lateQ
      BY <1>1, <3>1 DEF QCore, ProxyTypesQ, OwnCalls
    <3>2. ASSUME NEW c \in todoQ, Q!Abandon(Q!Removal(c))
          PROVE  lateQ' \subseteq Call /\ \A call \in lateQ' : OwnCall(call)
      BY <1>1, <3>2, RemovalIs, AbandonIs DEF QCore
    <3>3. QED
      BY <1>11, <3>1, <3>2 DEF Q!BackendFails
  <2>2. QED
    BY <1>1, <1>11, <2>1, HaltQ, StutterHarmless DEF Q!BackendFails
<1>12. CASE Q!BindFails
  BY <1>1, <1>12, HaltQ, StutterHarmless DEF Q!BindFails, QCore, ProxyTypesQ, OwnCalls
<1>13. CASE Q!Crash
  BY <1>13, CrashQ
<1>14. QED
  BY <1>3, <1>4, <1>5, <1>6, <1>7, <1>8, <1>9, <1>10, <1>11, <1>12, <1>13
     DEF Q!ProcessStep

-----------------------------------------------------------------------------
(* A step of Q *)

\* What a step of Q has to show: P notices nothing, and Q's part holds again.
StepOfQ == UNCHANGED varsP /\ Harmless /\ QInv'

LEMMA CoreIsEnough ==
    ASSUME QCore', kind' \in {"psp", "cleanup", "smoke"}, shown' \subseteq Ids,
           smoke' \in [at : {"none", "create", "created", "delete", "deleted", "passed"},
                       made : Ids \cup {None}],
           ShownOK', SmokeOK'
    PROVE  QInv'
BY TypesAgreeAfter DEF QCore, QInv, QTypeOK

\* Without a smoke test, and with nothing shown, the core is all there is.
LEMMA CoreWithoutCommand ==
    ASSUME QCore', kind' \in {"psp", "cleanup", "smoke"}, shown' = {}, smoke' = NoSmoke,
           kind' = "smoke" => phaseQ' = "down"
    PROVE  QInv'
<1>1. /\ NoSmoke.at = "none"
      /\ NoSmoke \in [at : {"none", "create", "created", "delete", "deleted", "passed"},
                      made : Ids \cup {None}]
  BY DEF NoSmoke
<1>2. ShownOK'
  BY DEF ShownOK
<1>3. SmokeOK'
  BY <1>1 DEF SmokeOK, PassedSmokeTestIsClean
<1>4. QED
  BY <1>1, <1>2, <1>3, CoreIsEnough

LEMMA HandlerCore ==
    ASSUME BothInv, Q!Handles(handlerQ)
    PROVE  QCore' /\ Harmless /\ AskedKept /\ UNCHANGED <<phaseQ, keepQ, todoQ>>
BY HandlesKeeps, CoreOfInv DEF HandlerKeeps, QCore, PhasesQOK

LEMMA AcceptsCore ==
    ASSUME BothInv, Q!Accepts(handlerQ), UNCHANGED <<phaseQ, keepQ, todoQ>>
    PROVE  QCore' /\ Harmless
<1>1. QCore
  BY CoreOfInv
<1>2. CASE Q!RejectEarly(handlerQ)
  <2>1. HandlerKeeps
    BY <1>2, EndKeeps DEF Q!RejectEarly, Q!store, store
  <2>2. QED
    BY <1>1, <2>1 DEF HandlerKeeps, QCore, PhasesQOK
<1>3. ASSUME NEW op \in {"create", "delete", "act", "read", "other"},
             NEW ref \in Refs \cup {None}, NEW s \in ClientsQ,
             op = "create" => ref \in Names \cup {None},
             Q!Accept(handlerQ, op, ref, s)
      PROVE  QCore' /\ Harmless
  BY <1>1, <1>3, AcceptKeeps DEF QCore, PhasesQOK
<1>4. QED
  BY <1>2, <1>3 DEF Q!Accepts, Refs

\* Q as a second PSP.
LEMMA StepQKeeps == ASSUME BothInv, StepQ, UNCHANGED varsP PROVE StepOfQ
<1>1. QCore' /\ Harmless
  BY ProcessKeeps, HandlerCore, AcceptsCore DEF StepQ, Q!HandlerStep
<1>2. QED
  BY <1>1, CoreWithoutCommand DEF StepQ, StepOfQ

\* A command that dies, or is cut short by the backend.
LEMMA CommandFailsKeeps == ASSUME BothInv, CommandFails, UNCHANGED varsP PROVE StepOfQ
<1>1. kind \in {"psp", "cleanup", "smoke"}
  BY DEF BothInv, QInv, QTypeOK
<1>2. QED
  BY <1>1, CrashQ, CoreWithoutCommand DEF CommandFails, StepOfQ, Q!Crash, Q!Halt

-----------------------------------------------------------------------------
(* psp cleanup *)

\* The command moves on by itself.
LEMMA CleanupMoves ==
    ASSUME BothInv, UNCHANGED <<varsP, store, trackedQ, taskQ, lateQ, strayQ, todoQ>>,
           phaseQ' \in {"confirm", "list", "swept", "exited"}, keepQ' \in BOOLEAN,
           kind' \in {"psp", "cleanup"}, shown' \subseteq Ids,
           smoke' \in {smoke, NoSmoke}, todoQ = {}, phaseQ' = "list" => ~keepQ',
           ShownOK'
    PROVE  StepOfQ
<1>1. QCore /\ TypeOK /\ SmokeOK /\ QTypeOK
  BY CoreOfInv DEF BothInv, QInv
<1>2. Harmless
  BY <1>1, StutterHarmless
<1>3. PhasesQOK'
  BY DEF PhasesQOK
<1>4. QCore'
  BY <1>1, <1>2, <1>3, FrameQ DEF QCore, ProxyTypesQ, Phases
<1>5. asked' = asked
  BY DEF asked
<1>6. /\ SmokeOK'
      /\ smoke' \in [at : {"none", "create", "created", "delete", "deleted", "passed"},
                     made : Ids \cup {None}]
  BY <1>1, <1>5 DEF SmokeOK, PassedSmokeTestIsClean, NoSmoke, QTypeOK, store
<1>7. QED
  BY <1>2, <1>4, <1>6, CoreIsEnough DEF StepOfQ

LEMMA CleanupAlone ==
    ASSUME BothInv, UNCHANGED <<varsP, store>>,
           \/ \E k \in BOOLEAN : CleanupLists(k)
           \/ CleanupAborted \/ CleanupConfirmed \/ CleanupReports
    PROVE  StepOfQ
<1>1. QCore /\ TypeOK /\ ShownOK /\ QTypeOK /\ SmokeOK
  BY CoreOfInv DEF BothInv, QInv
<1>2. ASSUME NEW k \in BOOLEAN, CleanupLists(k) PROVE StepOfQ
  <2>1. Managed' = Managed /\ Live' = Live /\ Managed \subseteq Live /\ Live \subseteq Ids
    BY DEF Managed, Live, store
  <2>2. ShownOK'
    BY <1>2, <2>1 DEF CleanupLists, ShownOK, Live, store
  <2>3. QED
    BY <1>1, <1>2, <2>1, <2>2, CleanupMoves DEF CleanupLists, QIsOff, QCore, PhasesQOK
<1>3. CASE CleanupAborted
  BY <1>1, <1>3, CleanupMoves DEF CleanupAborted, ShownOK, QCore, PhasesQOK, QTypeOK,
     SmokeOK
<1>4. CASE CleanupConfirmed
  <2>1. ShownOK'
    BY <1>1, <1>4 DEF CleanupConfirmed, ShownOK, Managed, Live, store, command
  <2>2. QED
    BY <1>1, <1>4, <2>1, CleanupMoves DEF CleanupConfirmed, QCore, PhasesQOK, QTypeOK,
       SmokeOK, command
<1>5. CASE CleanupReports
  BY <1>1, <1>5, CleanupMoves DEF CleanupReports, ShownOK, QCore, PhasesQOK, QTypeOK
<1>6. QED
  BY <1>2, <1>3, <1>4, <1>5

\* What the sweep does to what was shown: it is listed again, removed or refused.
LEMMA CleanupSweepsKeeps == ASSUME BothInv, CleanupSweeps, UNCHANGED varsP PROVE StepOfQ
<1>1. QCore /\ TypeOK /\ ShownOK /\ SmokeOK /\ QTypeOK
  BY CoreOfInv DEF BothInv, QInv
<1>2. QCore' /\ Harmless
  BY ProcessKeeps DEF CleanupSweeps, Q!ProcessStep
<1>3. kind = "cleanup" /\ UNCHANGED <<kind, shown, smoke>>
  BY DEF CleanupSweeps, command
<1>4. UNCHANGED taskQ
  BY DEF CleanupSweeps, Q!ListManaged, Q!ListNotAnArray, Q!SweepDone, Q!RemoveNext,
         Q!RemovalRefused, Q!proxyVars
<1>5. asked' = asked
  BY <1>4 DEF asked
<1>6. SmokeOK'
  BY <1>1, <1>2, <1>3, <1>5
     DEF SmokeOK, PassedSmokeTestIsClean, Harmless, Evolves, TypeOK, StoreTypeOK
<1>7. \A c \in shown : status'[c] # "unborn"
  BY <1>1, <1>2, <1>3 DEF ShownOK, QTypeOK, Harmless, Evolves
<1>8. shown \cap Live' \subseteq Live
  BY <1>1, <1>2, <1>3 DEF ShownOK, QTypeOK, Harmless, Evolves, Live
<1>9. ShownOK'
  <2> USE DEF Q!store, store
  <2>1. CASE Q!ListManaged
    <3>1. phaseQ' = "sweep" /\ todoQ' = Managed /\ phaseQ = "list"
      BY <2>1, SameStore DEF Q!ListManaged
    <3>2. QED
      BY <1>1, <1>3, <1>7, <1>8, <3>1 DEF ShownOK
  <2>2. CASE Q!ListNotAnArray
    <3>1. phaseQ' = "bind" /\ strayQ' = Managed /\ phaseQ = "list"
      BY <2>2, SameStore DEF Q!ListNotAnArray
    <3>2. QED
      BY <1>1, <1>3, <1>7, <1>8, <3>1 DEF ShownOK
  <2>3. CASE Q!SweepDone
    BY <1>1, <1>3, <1>7, <1>8, <2>3 DEF Q!SweepDone, Q!proxyVars, ShownOK
  <2>4. ASSUME NEW c \in Ids, Q!RemoveNext(c) PROVE ShownOK'
    <3>1. /\ c \notin Live' /\ todoQ' = todoQ \ {c}
          /\ UNCHANGED <<strayQ, phaseQ>> /\ phaseQ \in {"sweep", "cleanup"}
      BY <1>1, <2>4, RemoveHarmless DEF Q!RemoveNext, Q!proxyVars, Live
    <3>2. QED
      BY <1>1, <1>3, <1>7, <1>8, <3>1 DEF ShownOK
  <2>5. ASSUME NEW c \in Ids, Q!RemovalRefused(c) PROVE ShownOK'
    <3>1. /\ strayQ' = strayQ \cup ({c} \cap Live) /\ todoQ' = todoQ \ {c}
          /\ UNCHANGED <<phaseQ, status>> /\ phaseQ \in {"sweep", "cleanup"}
      BY <2>5, SameStore DEF Q!RemovalRefused
    <3>2. Live' = Live
      BY <3>1 DEF Live
    <3>3. QED
      BY <1>1, <1>3, <1>7, <3>1, <3>2 DEF ShownOK
  <2>6. QED
    BY <2>1, <2>2, <2>3, <2>4, <2>5 DEF CleanupSweeps
<1>10. QED
  BY <1>1, <1>2, <1>3, <1>6, <1>9, CoreIsEnough DEF StepOfQ, QTypeOK

-----------------------------------------------------------------------------
(* psp smoke-test *)

LEMMA SmokeStartsKeeps ==
    ASSUME BothInv, SmokeStarts, UNCHANGED <<varsP, store>>
    PROVE  StepOfQ
<1>1. QCore /\ TypeOK /\ QTypeOK
  BY CoreOfInv DEF BothInv, QInv
<1>2. Harmless
  BY <1>1, StutterHarmless
<1>3. QCore'
  BY <1>1, <1>2, FrameQ DEF SmokeStarts, QIsOff, QCore, ProxyTypesQ, PhasesQOK, Phases
<1>4. SmokeOK' /\ ShownOK'
  BY DEF SmokeStarts, SmokeOK, PassedSmokeTestIsClean, ShownOK
<1>5. QED
  BY <1>1, <1>2, <1>3, <1>4, CoreIsEnough DEF StepOfQ, SmokeStarts, QTypeOK

LEMMA SmokeAsksKeeps == ASSUME BothInv, SmokeAsks, UNCHANGED varsP PROVE StepOfQ
<1>1. QCore /\ TypeOK /\ SmokeOK /\ QTypeOK
  BY CoreOfInv DEF BothInv, QInv
<1>2. /\ UNCHANGED <<phaseQ, keepQ, todoQ, kind, shown>> /\ kind = "smoke"
      /\ smoke' \in [at : {"created", "deleted"}, made : Ids \cup {None}]
  BY <1>1 DEF SmokeAsks, QTypeOK
<1>3. ASSUME NEW s \in ClientsQ, Q!Accept(handlerQ, "create", None, s), smoke.at = "create",
             smoke' = [smoke EXCEPT !.at = "created"]
      PROVE  QCore' /\ Harmless /\ SmokeOK'
  <2>1. smoke'.at = "created"
    BY <1>1, <1>3 DEF QTypeOK
  <2>2. SmokeOK'
    BY <1>2, <2>1, <1>1 DEF SmokeOK, PassedSmokeTestIsClean
  <2>3. QCore' /\ Harmless
    BY <1>1, <1>2, <1>3, AcceptKeeps DEF QCore, PhasesQOK
  <2>4. QED
    BY <2>2, <2>3
<1>4. ASSUME NEW s \in ClientsQ, Q!Accept(handlerQ, "delete", smoke.made, s),
             smoke.at = "delete", smoke' = [smoke EXCEPT !.at = "deleted"]
      PROVE  QCore' /\ Harmless /\ SmokeOK'
  <2>1. smoke'.at = "deleted" /\ smoke'.made = smoke.made
    BY <1>1, <1>4 DEF QTypeOK
  <2>2. smoke.made \in Ids /\ status[smoke.made] # "unborn"
    BY <1>1, <1>4 DEF SmokeOK
  <2>3. /\ QCore' /\ Harmless /\ asked'.op = "delete" /\ asked'.ref = smoke.made
        /\ UNCHANGED store
    BY <1>1, <1>2, <1>4, <2>2, AcceptKeeps DEF QCore, PhasesQOK, Refs
  <2>4. QED
    BY <1>1, <1>2, <2>1, <2>2, <2>3 DEF SmokeOK, PassedSmokeTestIsClean, store
<1>5. ShownOK'
  BY <1>2 DEF ShownOK
<1>6. QCore' /\ Harmless /\ SmokeOK'
  BY <1>3, <1>4 DEF SmokeAsks
<1>7. QED
  BY <1>1, <1>2, <1>5, <1>6, CoreIsEnough DEF StepOfQ, QTypeOK

LEMMA SmokeHandledKeeps == ASSUME BothInv, SmokeHandled, UNCHANGED varsP PROVE StepOfQ
<1>1. QCore /\ TypeOK /\ SmokeOK /\ QTypeOK
  BY CoreOfInv DEF BothInv, QInv
<1>2. QCore' /\ Harmless /\ AskedKept /\ UNCHANGED phaseQ
  BY HandlerCore DEF SmokeHandled
<1>3. kind = "smoke" /\ UNCHANGED <<kind, shown, smoke>>
  BY DEF SmokeHandled, command
<1>4. ShownOK'
  BY <1>3 DEF ShownOK
<1>5. SmokeOK'
  BY <1>1, <1>2, <1>3
     DEF SmokeOK, PassedSmokeTestIsClean, AskedKept, Harmless, Evolves, TypeOK, StoreTypeOK
<1>6. QED
  BY <1>1, <1>2, <1>3, <1>4, <1>5, CoreIsEnough DEF StepOfQ, QTypeOK

\* The answer of the create leads on to the removal, that of the removal ends the test.
LEMMA SmokeAnsweredKeeps == ASSUME BothInv, SmokeAnswered, UNCHANGED varsP PROVE StepOfQ
<1>1. QCore /\ TypeOK /\ SmokeOK /\ QTypeOK
  BY CoreOfInv DEF BothInv, QInv
<1>2. /\ kind = "smoke" /\ asked.pc = "reply" /\ SmokeVerdict
      /\ taskQ' = [taskQ EXCEPT ![handlerQ] = Q!NoTask]
      /\ UNCHANGED <<store, lateQ, strayQ, keepQ, todoQ, kind, shown>>
  BY DEF SmokeAnswered, Q!At, asked
<1>3. Harmless
  BY <1>1, <1>2, StutterHarmless
<1>4. /\ taskQ' \in [{handlerQ} -> Task]
      /\ asked'.pc = "idle" /\ asked'.op = "none" /\ asked'.result = "none"
  BY <1>1, <1>2, IdleIs DEF QCore
<1>5. /\ trackedQ' = trackedQ \/ trackedQ' = [c \in Ids |-> None]
      /\ phaseQ' \in {"serve", "down", "exited"} /\ todoQ = {}
  BY <1>1, <1>2 DEF SmokeVerdict, SmokeGoesOn, SmokeEnds, SmokeOK, QCore, PhasesQOK
<1>6. ProxyTypesQ' /\ OwnCalls' /\ AnswersHold'
  BY <1>1, <1>2, <1>4, <1>5 DEF QCore, ProxyTypesQ, OwnCalls, AnswersHold
<1>7. ListsAreOwn' /\ PhasesQOK'
  BY <1>1, <1>2, <1>5 DEF QCore, ListsAreOwn, PhasesQOK, store
<1>8. QCore'
  BY <1>1, <1>2, <1>5, <1>6, <1>7 DEF QCore, Phases
<1>9. AnswersHold /\ QTypeOK
  BY <1>1 DEF QCore
<1>10. /\ SmokeOK'
       /\ smoke' \in [at : {"none", "create", "created", "delete", "deleted", "passed"},
                      made : Ids \cup {None}]
  <2>1. CASE SmokeGoesOn
    <3>1. /\ smoke' = [at |-> "delete", made |-> asked.made]
          /\ asked.made \in Ids /\ status[asked.made] # "unborn"
      BY <1>2, <1>9, <2>1 DEF SmokeGoesOn, AnswersHold, asked
    <3>2. QED
      BY <1>2, <1>5, <3>1 DEF SmokeOK, PassedSmokeTestIsClean, store
  <2>2. CASE /\ smoke.at = "deleted" /\ asked.result = "removed"
             /\ SmokeEnds("exited", "passed")
    <3>1. smoke'.at = "passed" /\ smoke'.made = smoke.made
          /\ smoke' \in [at : {"passed"}, made : Ids \cup {None}]
      BY <1>9, <2>2 DEF SmokeEnds, QTypeOK
    <3>2. smoke.made \in Ids /\ status[smoke.made] = "gone"
      BY <1>1, <1>2, <1>9, <2>2 DEF SmokeOK, AnswersHold
    <3>3. QED
      BY <1>2, <1>5, <3>1, <3>2 DEF SmokeOK, PassedSmokeTestIsClean, store
  <2>3. CASE SmokeEnds("down", "none")
    <3>1. smoke'.at = "none" /\ smoke' \in [at : {"none"}, made : Ids \cup {None}]
      BY <1>9, <2>3 DEF SmokeEnds, QTypeOK
    <3>2. QED
      BY <1>5, <3>1 DEF SmokeOK, PassedSmokeTestIsClean
  <2>4. QED
    BY <1>2, <2>1, <2>2, <2>3 DEF SmokeVerdict, asked
<1>11. ShownOK'
  BY <1>2 DEF ShownOK
<1>12. QED
  BY <1>2, <1>3, <1>8, <1>9, <1>10, <1>11, CoreIsEnough DEF StepOfQ, QTypeOK

-----------------------------------------------------------------------------
(* The theorems *)

\* A call Q gave up is executed behind its back.
LEMMA LateQKeeps == ASSUME BothInv, LateQ, UNCHANGED <<varsP, command>> PROVE StepOfQ
<1>1. QCore /\ TypeOK
  BY CoreOfInv
<1>2. ASSUME NEW c \in Ids, NEW call \in lateQ, Q!LateCreate(call, c)
      PROVE  Harmless /\ UNCHANGED <<trackedQ, taskQ>> /\ lateQ' \subseteq lateQ
             /\ strayQ' = strayQ \cup {c}
  <2>1. call.session \in ClientsQ /\ call.label \in {None, call.session}
    BY <1>1, <1>2 DEF Q!LateCreate, QCore, OwnCalls, OwnCall
  <2>2. call.ref \in Names \cup {None}
    BY <1>1, <1>2 DEF Q!LateCreate, QCore, ProxyTypesQ, Call, CreateCall, DeleteCall
  <2>3. QED
    BY <1>1, <1>2, <2>1, <2>2, PutHarmless DEF Q!LateCreate
<1>3. ASSUME NEW c \in Ids, NEW call \in lateQ, Q!LateRemove(call, c)
      PROVE  Harmless /\ UNCHANGED <<trackedQ, taskQ, strayQ>> /\ lateQ' \subseteq lateQ
  BY <1>1, <1>3, RemoveHarmless DEF Q!LateRemove
<1>4. /\ Harmless /\ UNCHANGED <<trackedQ, taskQ>> /\ lateQ' \subseteq lateQ
      /\ strayQ \subseteq strayQ' /\ strayQ' \subseteq Ids
  BY <1>1, <1>2, <1>3 DEF LateQ, QCore, ProxyTypesQ
<1>5. QED
  BY <1>4, QKept DEF LateQ, Harmless, StepOfQ

LEMMA CommandStepKeeps == ASSUME BothInv, CommandStep, UNCHANGED varsP PROVE StepOfQ
BY CleanupAlone, CleanupSweepsKeeps, SmokeStartsKeeps, SmokeAsksKeeps, SmokeHandledKeeps,
   SmokeAnsweredKeeps, CommandFailsKeeps DEF CommandStep

LEMMA BothStep == BothInv /\ [NextBoth]_varsBoth => BothInv'
<1> SUFFICES ASSUME BothInv, [NextBoth]_varsBoth PROVE BothInv'
  OBVIOUS
<1>1. SharedInv /\ QCore
  BY CoreOfInv DEF BothInv
<1>2. ASSUME StepOfQ PROVE BothInv'
  BY <1>1, <1>2, PKept DEF StepOfQ, BothInv
<1>3. ASSUME [Next]_vars, UNCHANGED <<varsQ, command>> PROVE BothInv'
  <2>1. SharedInv' /\ Evolves
    BY <1>1, <1>3, StepInv, StepEvolves
  <2>2. QInv'
    BY <1>1, <1>3, <2>1, QKept DEF varsQ, QCore, ProxyTypesQ
  <2>3. QED
    BY <2>1, <2>2 DEF BothInv
<1>4. CASE (StepP \/ OutsideStep) /\ UNCHANGED <<varsQ, command>>
  BY <1>3, <1>4 DEF StepP, Next
<1>5. CASE StepQ /\ UNCHANGED varsP
  BY <1>2, <1>5, StepQKeeps
<1>6. CASE CommandStep /\ UNCHANGED varsP
  BY <1>2, <1>6, CommandStepKeeps
<1>7. CASE LateQ /\ UNCHANGED <<varsP, command>>
  BY <1>2, <1>7, LateQKeeps
<1>8. CASE UNCHANGED varsBoth
  BY <1>3, <1>8 DEF varsBoth, varsP, vars
<1>9. QED
  BY <1>4, <1>5, <1>6, <1>7, <1>8 DEF NextBoth

LEMMA BothStart == InitBoth => BothInv
<1> SUFFICES ASSUME InitBoth PROVE BothInv
  OBVIOUS
<1>1. SharedInv
  BY InitInv DEF InitBoth
<1>2. /\ trackedQ = [c \in Ids |-> None] /\ taskQ = [h \in {handlerQ} |-> NoTask]
      /\ lateQ = {} /\ strayQ = {} /\ phaseQ = "down" /\ keepQ = FALSE /\ todoQ = {}
      /\ kind = "psp" /\ shown = {} /\ smoke = NoSmoke
  BY SameStore DEF InitBoth, Q!Init, Q!ProxyInit
<1>3. /\ NoTask \in Task /\ NoTask.pc = "idle" /\ NoTask.op = "none" /\ asked = NoTask
  BY <1>2 DEF NoTask, Task, asked
<1>4. ProxyTypesQ
  BY <1>2, <1>3 DEF ProxyTypesQ
<1>5. /\ NoSmoke.at = "none"
      /\ NoSmoke \in [at : {"none", "create", "created", "delete", "deleted", "passed"},
                      made : Ids \cup {None}]
  BY DEF NoSmoke
<1>6. QTypeOK
  BY <1>2, <1>4, <1>5, TypesAgree DEF QTypeOK, Phases
<1>7. QInv
  BY <1>2, <1>3, <1>5, <1>6
     DEF QInv, OwnCalls, AnswersHold, ListsAreOwn, PhasesQOK, ShownOK, SmokeOK,
         PassedSmokeTestIsClean
<1>8. QED
  BY <1>1, <1>7 DEF BothInv

\* The inductive invariant of the two processes holds of every reachable state.
THEOREM BothInvariance == SpecBoth => []BothInv
BY BothStart, BothStep, PTL DEF SpecBoth

\* Every variable of both processes keeps its type.
THEOREM BothTypesCorrect == SpecBoth => []BothTypeOK
<1>1. BothInv => BothTypeOK
  BY DEF BothInv, SharedInv, QInv, BothTypeOK
<1>2. QED
  BY <1>1, BothInvariance, PTL

\* Beside a second PSP, a psp cleanup or a psp smoke-test, a PSP accounts for
\* every container of its own clients.
THEOREM OwnContainersAreKept == SpecBoth => []OwnContainersKept
<1>1. BothInv => OwnContainersKept
  BY DEF BothInv, SharedInv
<1>2. QED
  BY <1>1, BothInvariance, PTL

\* No sweep, cleanup or shutdown of either process takes an outsider's container,
\* nor any at all when told to keep them.
THEOREM SweepsTakeOnlyPsps == SpecBoth => []SweepsTakePspOnly
<1>1. BothInv => SweepsTakePspOnly
  BY DEF BothInv, SharedInv, SweepTargets, TypeOK, QInv, QTypeOK, ListsAreOwn, PhasesQOK,
         SweepsTakePspOnly
<1>2. QED
  BY <1>1, BothInvariance, PTL

\* A psp cleanup without keep_on_failure that has come to its end has tried to
\* remove every container it showed its user: the backend refused those that are
\* left. (Its report calls these removed as well, and under keep_on_failure all
\* of them: ReportedAreGone does not hold.)
THEOREM CleanupSweepsWhatItShowed == SpecBoth => []ShownAreSwept
<1>1. BothInv => ShownAreSwept
  BY DEF BothInv, QInv, ShownOK, ShownAreSwept
<1>2. QED
  BY <1>1, BothInvariance, PTL

\* A psp smoke-test that passes has left no container behind.
THEOREM SmokeTestsAreClean == SpecBoth => []PassedSmokeTestIsClean
<1>1. BothInv => PassedSmokeTestIsClean
  BY DEF BothInv, QInv, SmokeOK
<1>2. QED
  BY <1>1, BothInvariance, PTL

\* What a PSP promises alone it keeps beside another process: its table is right,
\* its cleanup complete, its replies come after the tracking, and its access
\* decisions on ids are not overtaken by what the other process does.
THEOREM PromisesBeside ==
    SpecBoth => [](/\ Attribution /\ SweepTargets /\ CleanupCovers
                   /\ ReplyAfterTracking /\ ForwardedByIdAllowed)
<1>1. BothInv => /\ Attribution /\ SweepTargets /\ CleanupCovers
                 /\ ReplyAfterTracking /\ ForwardedByIdAllowed
  BY DEF BothInv, SharedInv, HandlerOK, ReplyAfterTracking, ForwardedByIdAllowed
<1>2. QED
  BY <1>1, BothInvariance, PTL

\* Nor does the other process make a running PSP forget a container that was not removed.
THEOREM TableForgetsOnlyRemovedBeside == SpecBoth => ForgetsOnlyRemoved
<1>1. BothInv /\ [NextBoth]_varsBoth =>
          [\A c \in Tracked :
              c \in Tracked' \/ status[c] = "gone" \/ phase' \in {"down", "exited"}]_vars
  <2> SUFFICES ASSUME BothInv, [NextBoth]_varsBoth
               PROVE  \A c \in Tracked :
                          c \in Tracked' \/ status[c] = "gone" \/ phase' \in {"down", "exited"}
    OBVIOUS
  <2>1. CASE [Next]_vars
    BY <2>1, StepRetains DEF BothInv, Retains, Tracked
  <2>2. CASE UNCHANGED varsP
    BY <2>2 DEF varsP, proxyVars, Tracked
  <2>3. QED
    BY <2>1, <2>2 DEF NextBoth, StepP, Next, varsBoth
<1>2. QED
  BY <1>1, BothInvariance, PTL DEF SpecBoth, ForgetsOnlyRemoved
=============================================================================
