-------------------------- MODULE PspCustodyProofs --------------------------
(***************************************************************************)
(* Psp implements Custody, for every number of containers, names, sessions *)
(* and handlers: the initial states correspond, and each step of Psp is a  *)
(* step of Custody or changes nothing that Custody sees.                   *)
(***************************************************************************)
EXTENDS PspCustody, PspProofs

\* What Custody sees of a state.
seen == <<[c \in Ids |-> Place(c)], Mode>>

\* Nothing but container c changes hands.
OnlyMoves(c) ==
    /\ Mode' = Mode
    /\ \A x \in Ids \ {c} : Place(x)' = Place(x)

-----------------------------------------------------------------------------
(* Places *)

\* Under the invariant no container has leaked: its place follows from the
\* backend and from what PSP accounts for.
LEMMA PlaceIs ==
    ASSUME IInv, NEW c \in Ids
    PROVE  /\ status[c] = "unborn" => Place(c) = [at |-> "absent", session |-> None]
           /\ status[c] = "gone" => Place(c) = [at |-> "gone", session |-> None]
           /\ status[c] = "live" /\ c \in Accounted =>
                  Place(c) = [at |-> "held", session |-> SessionOf(c)]
           /\ status[c] = "live" /\ c \notin Accounted /\ label[c] = None =>
                  Place(c) = [at |-> "free", session |-> None]
           /\ status[c] = "live" /\ c \notin Accounted /\ label[c] # None =>
                  Place(c) = [at |-> "left", session |-> label[c]]
<1>1. status[c] = "live" <=> c \in Live
  BY DEF Live
<1>2. c \in Live /\ c \notin Accounted /\ label[c] # None => Idle \/ keep \/ c \in stray
  BY NothingLost DEF IInv, SharedInv, NoLeak, Managed, Idle, Accounted, PhasesOK
<1>3. QED
  BY <1>1, <1>2 DEF Place, IInv, SharedInv, TypeOK, StoreTypeOK

\* While PSP serves, the session of a container it accounts for is its owner.
LEMMA ServingSession ==
    ASSUME IInv, NEW c \in Ids, phase \in {"serve", "drain"}, status[c] = "live",
           c \in Accounted
    PROVE  SessionOf(c) = owner[c] /\ owner[c] \in Sessions
<1> USE DEF IInv, SharedInv
<1>1. CASE c \in Tracked
  BY <1>1 DEF SessionOf, Attribution, TypeOK, ProxyTypeOK, Tracked
<1>2. CASE c \notin Tracked
  <2>1. \E h \in Handlers : c \in Untracked(h)
    BY <1>2 DEF Accounted
  <2>2. PICK h \in Handlers : h = CHOOSE g \in Handlers : c \in Untracked(g)
    BY <2>1
  <2>3. c \in Untracked(h)
    BY <2>1, <2>2
  <2>4. At(h, "answered") /\ task[h].made = c /\ HandlerOK(h)
    BY <2>3 DEF Untracked
  <2>5. task[h].result = "created"
    BY <2>4, BackendAssumption DEF HandlerOK, AnswerOK, Refs
  <2>6. task[h].session \in Sessions /\ owner[c] = task[h].session
    BY <2>4, <2>5 DEF HandlerOK, AnswerOK, At
  <2>7. SessionOf(c) = task[h].session
    BY <1>2, <2>1, <2>2 DEF SessionOf
  <2>8. QED
    BY <2>6, <2>7
<1>3. QED
  BY <1>1, <1>2

\* Outside it, as the table or the label has it: no handler holds a container.
LEMMA OtherSession ==
    ASSUME IInv, NEW c \in Ids, phase \notin {"serve", "drain"}
    PROVE  SessionOf(c) = IF c \in Tracked THEN tracked[c] ELSE label[c]
<1>1. \A h \in Handlers : Untracked(h) = {}
  BY DEF IInv, SharedInv, PhasesOK, Untracked, At
<1>2. QED
  BY <1>1 DEF SessionOf

\* A container PSP lets go of is the same session's by its label, or nobody's.
LEMMA LabelIsSession ==
    ASSUME IInv, NEW c \in Ids, status[c] = "live", c \in Accounted, label[c] # None
    PROVE  SessionOf(c) = label[c]
<1>1. owner[c] = label[c]
  BY DEF IInv, SharedInv, LabelsOK, Live
<1>2. CASE phase \in {"serve", "drain"}
  BY <1>1, <1>2, ServingSession
<1>3. CASE phase \notin {"serve", "drain"}
  BY <1>1, <1>3, OtherSession DEF IInv, SharedInv, Attribution
<1>4. QED
  BY <1>2, <1>3

\* What the lemmas above say of a state, in one formula that can be primed.
Facts ==
    \A c \in Ids :
        /\ status[c] = "unborn" => Place(c) = [at |-> "absent", session |-> None]
        /\ status[c] = "gone" => Place(c) = [at |-> "gone", session |-> None]
        /\ status[c] = "live" /\ c \in Accounted =>
               /\ Place(c) = [at |-> "held", session |-> SessionOf(c)]
               /\ label[c] # None => SessionOf(c) = label[c]
               /\ IF phase \in {"serve", "drain"}
                  THEN SessionOf(c) = owner[c] /\ owner[c] \in Sessions
                  ELSE SessionOf(c) = IF c \in Tracked THEN tracked[c] ELSE label[c]
        /\ status[c] = "live" /\ c \notin Accounted /\ label[c] = None =>
               Place(c) = [at |-> "free", session |-> None]
        /\ status[c] = "live" /\ c \notin Accounted /\ label[c] # None =>
               Place(c) = [at |-> "left", session |-> label[c]]

LEMMA FactsHold == IInv => Facts
BY PlaceIs, ServingSession, OtherSession, LabelIsSession DEF Facts

LEMMA FactsHoldNext == IInv' => Facts'
BY FactsHold, PTL

-----------------------------------------------------------------------------
(* Steps of Custody, from what one container goes through *)

LEMMA NothingSeen ==
    ASSUME Mode' = Mode, \A c \in Ids : Place(c)' = Place(c)
    PROVE  UNCHANGED seen
BY DEF seen

LEMMA AppearSeen ==
    ASSUME NEW c \in Ids, OnlyMoves(c),
           Place(c) = [at |-> "absent", session |-> None],
           \/ Place(c)' = [at |-> "free", session |-> None]
           \/ \E s \in Sessions : Place(c)' = [at |-> "left", session |-> s]
           \/ /\ Mode \in {"on", "keep"}
              /\ \E s \in Sessions : Place(c)' = [at |-> "held", session |-> s]
    PROVE  C!Next
BY DEF OnlyMoves, C!Next, C!Appear, C!Absent, C!Free, C!With, C!Becomes

LEMMA VanishSeen ==
    ASSUME NEW c \in Ids, OnlyMoves(c),
           Place(c).at \in {"free", "held", "left"},
           Place(c)' = [at |-> "gone", session |-> None]
    PROVE  C!Next
BY DEF OnlyMoves, C!Next, C!Vanish, C!In, C!Gone, C!With, C!Becomes

LEMMA DropSeen ==
    ASSUME NEW c \in Ids, OnlyMoves(c),
           Place(c).at = "held",
           \/ Place(c)' = [at |-> "free", session |-> None]
           \/ Place(c)' = [at |-> "left", session |-> Place(c).session]
    PROVE  C!Next
BY DEF OnlyMoves, C!Next, C!Drop, C!In, C!Released, C!Free, C!With, C!Becomes
\* While PSP serves, a container keeps its place if the backend keeps it as it
\* is and PSP still accounts for it, or still does not.
LEMMA ServingKept ==
    ASSUME Facts, Facts', IInv, NEW x \in Ids,
           UNCHANGED <<status[x], label[x], owner[x]>>,
           phase \in {"serve", "drain"}, phase' \in {"serve", "drain"},
           status[x] = "live" => (x \in Accounted <=> x \in Accounted')
    PROVE  Place(x)' = Place(x)
BY DEF Facts, IInv, SharedInv, TypeOK, StoreTypeOK

\* Nor does one that is not there, or PSP does not account for, in any phase.
LEMMA UnheldKept ==
    ASSUME Facts, Facts', IInv, NEW x \in Ids,
           UNCHANGED <<status[x], label[x]>>,
           status[x] = "live" => x \notin Accounted /\ x \notin Accounted'
    PROVE  Place(x)' = Place(x)
BY DEF Facts, IInv, SharedInv, TypeOK, StoreTypeOK

\* Nor one the sweep or the cleanup has still to remove.
LEMMA ListedKept ==
    ASSUME Facts, Facts', IInv, NEW x \in Ids,
           UNCHANGED <<status[x], label[x], tracked[x]>>,
           phase \notin {"serve", "drain"}, phase' \notin {"serve", "drain"},
           status[x] = "live" => (x \in Accounted <=> x \in Accounted')
    PROVE  Place(x)' = Place(x)
BY DEF Facts, IInv, SharedInv, TypeOK, StoreTypeOK, Tracked

\* A handler's step that changes nothing in the backend: at most one container
\* leaves PSP's hands.
LEMMA HandlerSeen ==
    ASSUME Facts, Facts', IInv, NEW c \in Ids,
           UNCHANGED <<status, label, owner, phase, keep>>,
           phase \in {"serve", "drain"},
           \A x \in Ids : status[x] = "live" =>
               \/ x \in Accounted <=> x \in Accounted'
               \/ x = c /\ x \in Accounted
    PROVE  C!Next \/ UNCHANGED seen
<1>1. Mode' = Mode
  BY DEF Mode
<1>2. \A x \in Ids \ {c} : Place(x)' = Place(x)
  BY ServingKept
<1>3. CASE Place(c)' = Place(c)
  BY <1>1, <1>2, <1>3, NothingSeen
<1>4. CASE Place(c)' # Place(c)
  <2>1. status[c] = "live" /\ c \in Accounted /\ c \notin Accounted'
    BY <1>4, ServingKept
  <2>2. Place(c)' \in {[at |-> "free", session |-> None],
                       [at |-> "left", session |-> Place(c).session]}
        /\ Place(c).at = "held"
    BY <2>1 DEF Facts
  <2>3. QED
    BY <1>1, <1>2, <2>2, DropSeen DEF OnlyMoves
<1>5. QED
  BY <1>3, <1>4

\* A container is removed, and every other stays where it is.
LEMMA RemovalSeen ==
    ASSUME Facts, Facts', TypeOK, NEW c \in Ids, OnlyMoves(c), Remove(c)
    PROVE  C!Next
<1>1. Place(c).at \in {"free", "held", "left"}
  BY DEF Facts, Remove, Live
<1>2. status'[c] = "gone"
  BY DEF Remove, TypeOK, StoreTypeOK
<1>3. Place(c)' = [at |-> "gone", session |-> None]
  BY <1>2 DEF Facts
<1>4. QED
  BY <1>1, <1>3, VanishSeen

\* A step of the backend alone leaves every other container in its place.
LEMMA OthersKept ==
    ASSUME Facts, Facts', IInv, NEW x \in Ids,
           UNCHANGED <<status[x], label[x], owner[x]>>,
           UNCHANGED <<phase, todo, tracked, task>>
    PROVE  Place(x)' = Place(x)
<1>1. x \in Accounted <=> x \in Accounted'
  BY DEF Accounted, Tracked, Untracked, At
<1>2. CASE phase \in {"serve", "drain"}
  BY <1>1, <1>2, ServingKept
<1>3. CASE phase \notin {"serve", "drain"}
  BY <1>1, <1>3, ListedKept
<1>4. QED
  BY <1>2, <1>3

\* PSP does not account for what does not exist yet.
LEMMA UnbornUnaccounted ==
    ASSUME IInv, NEW c \in Ids, status[c] = "unborn"
    PROVE  c \notin Accounted
<1>1. c \notin Tracked /\ c \notin todo
  BY DEF IInv, SharedInv, Attribution, SweepTargets
<1>2. ASSUME NEW h \in Handlers, c \in Untracked(h) PROVE FALSE
  <2>1. At(h, "answered") /\ task[h].made = c /\ HandlerOK(h)
    BY <1>2 DEF Untracked, IInv, SharedInv
  <2>2. QED
    BY <2>1, BackendAssumption DEF HandlerOK, AnswerOK, At, Refs
<1>3. QED
  BY <1>1, <1>2 DEF Accounted

\* The end of a process, or a cleanup that keeps everything, lets go of all.
LEMMA DropAllSeen ==
    ASSUME Facts, Facts', IInv, UNCHANGED <<status, label, owner>>,
           \A x \in Ids : x \notin Accounted'
    PROVE  C!DropAll
<1> DEFINE held == C!In("held")
           where == [x \in held |-> Place(x)']
<1>1. \A x \in Ids : x \in held => Place(x)' \in C!Released(x)
  BY DEF C!In, C!Released, C!Free, C!With, Facts, IInv, SharedInv, TypeOK, StoreTypeOK
<1>2. \A x \in Ids : x \notin held => Place(x)' = Place(x)
  BY DEF C!In, Facts, IInv, SharedInv, TypeOK, StoreTypeOK
<1>3. held \subseteq Ids
  BY DEF C!In
<1>4. /\ where \in [held -> UNION {C!Released(x) : x \in held}]
      /\ \A x \in held : where[x] \in C!Released(x)
  BY <1>1, <1>3
<1>5. [x \in Ids |-> Place(x)'] = [x \in Ids |-> IF x \in held THEN where[x] ELSE Place(x)]
  BY <1>2
<1>6. QED
  BY <1>4, <1>5 DEF C!DropAll

-----------------------------------------------------------------------------
(* The steps of a handler *)

LEMMA SameAccounted ==
    ASSUME NEW h \in Handlers, UNCHANGED phase, phase \in {"serve", "drain"},
           \A g \in Handlers \ {h} : task'[g] = task[g],
           NEW x \in Ids,
           x \in Tracked \/ x \in Untracked(h) <=> x \in Tracked' \/ x \in Untracked(h)'
    PROVE  x \in Accounted <=> x \in Accounted'
<1>1. \A g \in Handlers \ {h} : Untracked(g)' = Untracked(g)
  BY DEF Untracked, At
<1>2. QED
  BY <1>1 DEF Accounted

\* The steps after which handler h has no container in its hands.
LEMMA EmptyHanded ==
    ASSUME IInv, NEW h \in Handlers,
           \/ BodyFails(h) \/ BodyArrives(h)
           \/ CreateBodyLabelled(h) \/ CreateBodyOpaque(h) \/ CreateBodyDenied(h)
           \/ Inspect(h) \/ InspectFails(h) \/ BackendActs(h) \/ BackendRefuses(h)
           \/ CallFails(h) \/ AnswerLost(h) \/ Deliver(h) \/ Disconnect(h)
    PROVE  /\ UNCHANGED <<status, label, owner, tracked>>
           /\ Untracked(h)' = {}
           /\ \A g \in Handlers \ {h} : task'[g] = task[g]
           /\ ~At(h, "idle")
<1> USE DEF IInv, SharedInv
<1>1. CASE BodyFails(h) \/ CreateBodyDenied(h) \/ InspectFails(h) \/ CallFails(h) \/ AnswerLost(h)
  BY <1>1, FailOK
     DEF BodyFails, CreateBodyDenied, InspectFails, CallFails, AnswerLost, At, store
<1>2. CASE Deliver(h) \/ Disconnect(h)
  BY <1>2, IdleOK DEF Deliver, Disconnect, At, store
<1>3. CASE BodyArrives(h) \/ CreateBodyOpaque(h)
  BY <1>3, GotoFields DEF BodyArrives, CreateBodyOpaque, Untracked, At, store
<1>4. CASE CreateBodyLabelled(h)
  <2>1. task' = [task EXCEPT ![h] = [task[h] EXCEPT !.pc = "send", !.label = task[h].session]]
    BY <1>4 DEF CreateBodyLabelled
  <2>2. task'[h].pc = "send" /\ \A g \in Handlers \ {h} : task'[g] = task[g]
    BY <2>1 DEF TypeOK, ProxyTypeOK, TasksOK, Task
  <2>3. QED
    BY <1>4, <2>2 DEF CreateBodyLabelled, Untracked, At, store
<1>5. CASE Inspect(h)
  BY <1>5, GotoFields, FailOK DEF Inspect, Untracked, At, store
<1>6. CASE BackendActs(h) \/ BackendRefuses(h)
  BY <1>6, AnswerFields, BackendAssumption
     DEF BackendActs, BackendRefuses, Untracked, At, store, Refs
<1>7. QED
  BY <1>1, <1>2, <1>3, <1>4, <1>5, <1>6

LEMMA EmptyHandedSeen ==
    ASSUME Facts, Facts', IInv, NEW h \in Handlers, UNCHANGED <<phase, keep, todo>>,
           UNCHANGED <<status, label, owner, tracked>>,
           Untracked(h)' = {},
           \A g \in Handlers \ {h} : task'[g] = task[g],
           phase \in {"serve", "drain"}
    PROVE  C!Next \/ UNCHANGED seen
<1>1. Tracked' = Tracked
  BY DEF Tracked
<1>2. \A x \in Ids : x \notin Untracked(h) => (x \in Accounted <=> x \in Accounted')
  BY <1>1, SameAccounted
<1>3. CASE Untracked(h) = {}
  <2>1. \A x \in Ids : Place(x)' = Place(x)
    BY <1>2, <1>3, ServingKept
  <2>2. QED
    BY <2>1, NothingSeen DEF Mode
<1>4. CASE Untracked(h) # {}
  <2>1. task[h].made \in Ids /\ Untracked(h) = {task[h].made}
    BY <1>4 DEF Untracked
  <2>2. task[h].made \in Accounted
    BY <2>1 DEF Accounted
  <2>3. PICK c \in Ids : c = task[h].made
    BY <2>1
  <2>4. \A x \in Ids : (x \in Accounted <=> x \in Accounted') \/ (x = c /\ x \in Accounted)
    BY <1>2, <2>1, <2>2, <2>3
  <2>5. QED
    BY <2>4, HandlerSeen
<1>5. QED
  BY <1>3, <1>4

LEMMA CreatesSeen ==
    ASSUME Facts, Facts', IInv, NEW h \in Handlers, NEW c \in Ids,
           UNCHANGED <<phase, keep, todo>>, BackendCreates(h, c)
    PROVE  C!Next
<1> USE DEF IInv, SharedInv
<1>1. phase \in {"serve", "drain"} /\ Untracked(h) = {}
  BY Serving DEF BackendCreates, At, Untracked
<1>2. /\ Put(c, task[h].ref, task[h].label, task[h].session)
      /\ Answer(h, "created", c)
      /\ UNCHANGED tracked
  BY DEF BackendCreates
<1>3. status[c] = "unborn" /\ status'[c] = "live"
      /\ \A x \in Ids \ {c} : UNCHANGED <<status[x], label[x], owner[x]>>
  BY <1>2 DEF Put, TypeOK, StoreTypeOK
<1>4. Untracked(h)' = {c} /\ \A g \in Handlers \ {h} : task'[g] = task[g]
  BY <1>2, AnswerFields DEF Untracked, At
<1>5. Tracked' = Tracked
  BY <1>2 DEF Tracked
<1>6. \A x \in Ids \ {c} : x \in Accounted <=> x \in Accounted'
  BY <1>1, <1>4, <1>5, SameAccounted
<1>7. OnlyMoves(c)
  BY <1>1, <1>3, <1>6, ServingKept DEF OnlyMoves, Mode
<1>8. c \in Accounted'
  BY <1>1, <1>4 DEF Accounted
<1>9. \E s \in Sessions : Place(c)' = [at |-> "held", session |-> s]
  BY <1>1, <1>3, <1>8 DEF Facts
<1>10. Mode \in {"on", "keep"} /\ Place(c) = [at |-> "absent", session |-> None]
  BY <1>1, <1>3 DEF Mode, Facts
<1>11. QED
  BY <1>7, <1>9, <1>10, AppearSeen

LEMMA RemovesSeen ==
    ASSUME Facts, Facts', IInv, NEW h \in Handlers, NEW c \in Ids,
           UNCHANGED <<phase, keep, todo>>, BackendRemoves(h, c)
    PROVE  C!Next
<1> USE DEF IInv, SharedInv
<1>1. phase \in {"serve", "drain"} /\ Untracked(h) = {}
  BY Serving DEF BackendRemoves, At, Untracked
<1>2. Remove(c) /\ Answer(h, "removed", None) /\ UNCHANGED tracked
  BY DEF BackendRemoves
<1>3. \A x \in Ids \ {c} : UNCHANGED <<status[x], label[x], owner[x]>>
  BY <1>2 DEF Remove, TypeOK, StoreTypeOK
<1>4. Untracked(h)' = {} /\ \A g \in Handlers \ {h} : task'[g] = task[g]
  BY <1>2, AnswerFields, BackendAssumption DEF Untracked, At, Refs
<1>5. Tracked' = Tracked
  BY <1>2 DEF Tracked
<1>6. \A x \in Ids : x \in Accounted <=> x \in Accounted'
  BY <1>1, <1>4, <1>5, SameAccounted
<1>7. OnlyMoves(c)
  BY <1>1, <1>3, <1>6, ServingKept DEF OnlyMoves, Mode
<1>8. QED
  BY <1>2, <1>7, RemovalSeen

LEMMA FinishSeen ==
    ASSUME Facts, Facts', IInv, NEW h \in Handlers,
           UNCHANGED <<phase, keep, todo>>, Finish(h)
    PROVE  UNCHANGED seen
<1> USE DEF IInv, SharedInv
<1>1. phase \in {"serve", "drain"} /\ At(h, "answered") /\ UNCHANGED <<status, label, owner>>
  BY Serving DEF Finish, At, store
<1>2. Untracked(h)' = {} /\ \A g \in Handlers \ {h} : task'[g] = task[g]
  BY GotoFields DEF Finish, Untracked, At
<1>3. HandlerOK(h)
  OBVIOUS
<1>4. \A x \in Ids : x \in Untracked(h) <=> task[h].result = "created" /\ x = task[h].made
  BY <1>1, <1>3, BackendAssumption DEF Untracked, HandlerOK, AnswerOK, Refs
<1>5. task[h].result = "created" => task[h].session # None
  BY <1>1, <1>3, BackendAssumption DEF HandlerOK, AnswerOK, At
<1>6. \A x \in Ids : task[h].result = "removed" /\ x = task[h].ref => status[x] = "gone"
  BY <1>1, <1>3 DEF HandlerOK, AnswerOK
<1>7. \A x \in Ids : status[x] = "live" =>
          (x \in Tracked \/ x \in Untracked(h) <=> x \in Tracked')
  BY <1>3, <1>4, <1>5, <1>6, FinishTable DEF Tracked
<1>8. \A x \in Ids : status[x] = "live" => (x \in Accounted <=> x \in Accounted')
  BY <1>1, <1>2, <1>7, SameAccounted
<1>9. \A x \in Ids : Place(x)' = Place(x)
  BY <1>1, <1>8, ServingKept
<1>10. QED
  BY <1>9, NothingSeen DEF Mode

LEMMA HandlesSeen ==
    ASSUME Facts, Facts', IInv, NEW h \in Handlers, Handles(h)
    PROVE  C!Next \/ UNCHANGED seen
<1>1. UNCHANGED <<phase, keep, todo>>
  BY DEF Handles
<1>2. CASE Finish(h) \/ \E c \in Ids : BackendCreates(h, c) \/ BackendRemoves(h, c)
  BY <1>1, <1>2, FinishSeen, CreatesSeen, RemovesSeen
<1>3. CASE \/ BodyFails(h) \/ BodyArrives(h)
           \/ CreateBodyLabelled(h) \/ CreateBodyOpaque(h) \/ CreateBodyDenied(h)
           \/ Inspect(h) \/ InspectFails(h) \/ BackendActs(h) \/ BackendRefuses(h)
           \/ CallFails(h) \/ AnswerLost(h) \/ Deliver(h) \/ Disconnect(h)
  BY <1>1, <1>3, EmptyHanded, EmptyHandedSeen, Serving DEF IInv
<1>4. QED
  BY <1>2, <1>3 DEF Handles

\* A handler that takes up a request has no container in its hands yet.
LEMMA AcceptsSeen ==
    ASSUME Facts, Facts', IInv, NEW h \in Handlers, Accepts(h), UNCHANGED <<phase, keep, todo>>
    PROVE  C!Next \/ UNCHANGED seen
<1>1. At(h, "idle") /\ UNCHANGED <<status, label, owner, tracked>> /\ phase = "serve"
  BY DEF Accepts, RejectEarly, Accept, store
<1>2. /\ \A g \in Handlers \ {h} : task'[g] = task[g]
      /\ task'[h].pc \in {"reply", "body"}
  <2>1. ASSUME RejectEarly(h)
        PROVE  /\ \A g \in Handlers \ {h} : task'[g] = task[g]
               /\ task'[h].pc \in {"reply", "body"}
    BY <2>1 DEF RejectEarly, Fail, NoTask, IInv, SharedInv, TypeOK, ProxyTypeOK, TasksOK
  <2>2. ASSUME NEW op, NEW ref, NEW s, Accept(h, op, ref, s)
        PROVE  /\ \A g \in Handlers \ {h} : task'[g] = task[g]
               /\ task'[h].pc \in {"reply", "body"}
    BY <2>2 DEF Accept, NoTask, IInv, SharedInv, TypeOK, ProxyTypeOK, TasksOK
  <2>3. QED
    BY <2>1, <2>2 DEF Accepts
<1>3. Untracked(h)' = {}
  BY <1>2 DEF Untracked, At
<1>4. QED
  BY <1>1, <1>2, <1>3, EmptyHandedSeen

-----------------------------------------------------------------------------
(* The steps of everyone else *)

LEMMA OutsideSeen ==
    ASSUME Facts, Facts', IInv, LateOK, OutsideStep
    PROVE  C!Next
<1> USE DEF IInv, SharedInv
<1>1. UNCHANGED <<phase, keep, todo, tracked, task>>
  BY DEF OutsideStep, LateCreate, LateRemove, proxyVars
<1>2. ASSUME NEW c \in Ids, Remove(c) PROVE C!Next
  <2>1. OnlyMoves(c)
    BY <1>1, <1>2, OthersKept DEF OnlyMoves, Mode, Remove, TypeOK, StoreTypeOK
  <2>2. QED
    BY <1>2, <2>1, RemovalSeen
<1>3. ASSUME NEW c \in Ids, NEW n, NEW l \in Sessions \cup {None}, NEW o, Put(c, n, l, o)
      PROVE  C!Next
  <2>1. OnlyMoves(c)
    BY <1>1, <1>3, OthersKept DEF OnlyMoves, Mode, Put, TypeOK, StoreTypeOK
  <2>2. status[c] = "unborn" /\ status'[c] = "live" /\ label'[c] = l
    BY <1>3 DEF Put, TypeOK, StoreTypeOK
  <2>3. c \notin Accounted'
    BY <1>1, <2>2, UnbornUnaccounted DEF Accounted, Tracked, Untracked, At
  <2>4. Place(c) = [at |-> "absent", session |-> None]
    BY <2>2 DEF Facts
  <2>5. \/ Place(c)' = [at |-> "free", session |-> None]
        \/ \E s \in Sessions : Place(c)' = [at |-> "left", session |-> s]
    BY <2>2, <2>3 DEF Facts
  <2>6. QED
    BY <2>1, <2>4, <2>5, AppearSeen
<1>4. ASSUME NEW c \in Ids, NEW call \in late, LateCreate(call, c) PROVE C!Next
  <2>1. call.label \in Sessions \cup {None}
    BY <1>4, PspAssumption DEF LateCreate, LateOK
  <2>2. QED
    BY <1>3, <1>4, <2>1 DEF LateCreate
<1>5. QED
  BY <1>2, <1>3, <1>4 DEF OutsideStep, OutsiderRemoves, OutsiderCreates, LateRemove

\* Steps in phases in which PSP accounts for nothing, before and after.
LEMMA NothingHeld ==
    ASSUME Facts, Facts', IInv, UNCHANGED store,
           \A x \in Ids : x \notin Accounted /\ x \notin Accounted'
    PROVE  /\ [x \in Ids |-> Place(x)]' = [x \in Ids |-> Place(x)]
           /\ C!In("held") = {}
<1>1. \A x \in Ids : Place(x)' = Place(x)
  BY UnheldKept DEF store
<1>2. \A x \in Ids : Place(x).at # "held"
  BY DEF Facts, IInv, SharedInv, TypeOK, StoreTypeOK
<1>3. QED
  BY <1>1, <1>2 DEF C!In

LEMMA HaltSeen ==
    ASSUME Facts, Facts', IInv, phase \notin {"down", "exited"}, Halt
    PROVE  C!Next \/ UNCHANGED seen
<1>1. \A x \in Ids : x \notin Accounted'
  BY DEF Halt, Accounted
<1>2. UNCHANGED <<store, status, label, owner>> /\ phase' = "down"
  BY DEF Halt, store
<1>3. CASE phase \in {"ping", "list"}
  <2>1. \A x \in Ids : x \notin Accounted
    BY <1>3 DEF Accounted, IInv, SharedInv, PhasesOK
  <2>2. QED
    BY <1>1, <1>2, <1>3, <2>1, NothingHeld DEF seen, Mode
<1>4. CASE phase \notin {"ping", "list"}
  <2>1. C!DropAll
    BY <1>1, <1>2, DropAllSeen
  <2>2. Mode \in {"on", "keep"} /\ Mode' = "off"
    BY <1>2, <1>4 DEF Mode, IInv, SharedInv, TypeOK, Phases
  <2>3. QED
    BY <2>1, <2>2 DEF C!Next, C!Abort
<1>5. QED
  BY <1>3, <1>4

LEMMA ListManagedSeen ==
    ASSUME Facts, Facts', IInv, ListManaged
    PROVE  C!Next
<1> USE DEF IInv, SharedInv
<1>1. /\ phase = "list" /\ phase' = "sweep" /\ keep = FALSE /\ keep' = FALSE
      /\ todo = {} /\ Tracked = {} /\ Tracked' = {}
      /\ todo' = Managed
      /\ UNCHANGED <<status, label, owner>>
  BY DEF ListManaged, PhasesOK, Tracked, store, TypeOK
<1>2. \A x \in Ids : x \notin Accounted /\ (x \in Accounted' <=> x \in Managed)
  BY <1>1 DEF Accounted
<1>3. \A x \in Ids : x \in C!In("left") <=> status[x] = "live" /\ label[x] # None
  BY <1>2 DEF C!In, Facts, TypeOK, StoreTypeOK
<1>4. \A x \in Ids : x \in Managed <=> status[x] = "live" /\ label[x] # None
  BY DEF Managed, Live
<1>5. ASSUME NEW x \in Ids, x \in C!In("left")
      PROVE  Place(x)' = C!With("held", Place(x).session)
  BY <1>1, <1>2, <1>3, <1>4, <1>5 DEF Facts, C!With
<1>6. ASSUME NEW x \in Ids, x \notin C!In("left")
      PROVE  Place(x)' = Place(x)
  BY <1>1, <1>2, <1>3, <1>4, <1>6, UnheldKept
<1>7. Mode = "off" /\ Mode' = "on"
  BY <1>1 DEF Mode
<1>8. C!TakeOver
  BY <1>5, <1>6, <1>7 DEF C!TakeOver
<1>9. QED
  BY <1>8 DEF C!Next

LEMMA DrainedSeen ==
    ASSUME Facts, Facts', IInv, Drained
    PROVE  C!Next \/ UNCHANGED seen
<1> USE DEF IInv, SharedInv
<1>1. /\ phase = "drain" /\ phase' = "cleanup" /\ UNCHANGED <<store, tracked, keep>>
      /\ todo' = CleanupList
  BY DEF Drained, proxyVars
<1>2. Mode' = Mode /\ UNCHANGED <<status, label, owner>>
  BY <1>1 DEF Mode, store
<1>3. CASE keep
  <2>1. C!DropAll
    BY <1>1, <1>2, <1>3, DropAllSeen DEF CleanupList, Accounted
  <2>2. Mode = "keep"
    BY <1>1, <1>3 DEF Mode
  <2>3. QED
    BY <1>2, <2>1, <2>2 DEF C!Next, C!Keep
<1>4. CASE ~keep
  <2>1. \A h \in Handlers : Untracked(h) = {}
    BY DEF Drained, Untracked, At
  <2>2. \A x \in Ids : (x \in Accounted <=> x \in Tracked) /\ (x \in Accounted' <=> x \in Tracked)
                       /\ (x \in Tracked' <=> x \in Tracked)
    BY <1>1, <1>4, <2>1 DEF Accounted, CleanupList, Tracked
  <2>3. ASSUME NEW x \in Ids PROVE Place(x)' = Place(x)
    <3>1. CASE status[x] = "live" /\ x \in Tracked
      <4>1. Place(x) = [at |-> "held", session |-> owner[x]] /\ owner[x] = tracked[x]
        BY <1>1, <2>2, <3>1 DEF Facts, Attribution
      <4>2. Place(x)' = [at |-> "held", session |-> tracked[x]]
        BY <1>1, <1>2, <2>2, <3>1 DEF Facts
      <4>3. QED
        BY <4>1, <4>2
    <3>2. CASE ~(status[x] = "live" /\ x \in Tracked)
      BY <1>2, <2>2, <3>2, UnheldKept
    <3>3. QED
      BY <3>1, <3>2
  <2>4. QED
    BY <1>2, <2>3, NothingSeen
<1>5. QED
  BY <1>3, <1>4

LEMMA ProcessSeen ==
    ASSUME Facts, Facts', IInv, ProcessStep
    PROVE  C!Next \/ UNCHANGED seen
<1> USE DEF IInv, SharedInv
<1>1. ASSUME NEW k \in KeepChoices, Start(k) PROVE C!Next \/ UNCHANGED seen
  <2>1. UNCHANGED store /\ \A x \in Ids : x \notin Accounted /\ x \notin Accounted'
    BY <1>1 DEF Start, Accounted, PhasesOK
  <2>2. (Mode = "off" \/ Mode = "done") /\ Mode' = "off"
    BY <1>1 DEF Start, Mode
  <2>3. QED
    BY <2>1, <2>2, NothingHeld DEF seen, C!Next, C!Restart
<1>2. CASE PingOk \/ ListNotAnArray
  <2>1. UNCHANGED store /\ \A x \in Ids : x \notin Accounted /\ x \notin Accounted'
    BY <1>2 DEF PingOk, ListNotAnArray, Accounted, PhasesOK
  <2>2. Mode = "off" /\ Mode' \in {"off", "on", "keep"}
    BY <1>2 DEF PingOk, ListNotAnArray, Mode
  <2>3. QED
    BY <2>1, <2>2, NothingHeld DEF seen, C!Next, C!StartBlind
<1>3. CASE ListManaged
  BY <1>3, ListManagedSeen
<1>4. CASE SweepDone \/ Bind
  <2>1. UNCHANGED <<store, tracked, task, keep, todo>> /\ todo = {} /\ Tracked = {}
        /\ \A h \in Handlers : At(h, "idle")
    BY <1>4 DEF SweepDone, Bind, PhasesOK, proxyVars
  <2>2. \A x \in Ids : x \notin Accounted /\ x \notin Accounted'
    BY <1>4, <2>1 DEF SweepDone, Bind, Accounted, Tracked, Untracked, At
  <2>3. Mode' = Mode
    BY <1>4, <2>1 DEF SweepDone, Bind, Mode
  <2>4. QED
    BY <2>1, <2>2, <2>3, NothingHeld DEF seen
<1>5. ASSUME NEW c \in Ids, RemoveNext(c) PROVE C!Next
  <2>1. Remove(c) /\ UNCHANGED <<tracked, task, phase, keep>>
        /\ phase \in {"sweep", "cleanup"} /\ todo' = todo \ {c}
    BY <1>5 DEF RemoveNext, proxyVars
  <2>2. \A x \in Ids \ {c} : UNCHANGED <<status[x], label[x], tracked[x]>>
                              /\ (x \in Accounted <=> x \in Accounted')
    BY <2>1 DEF Remove, TypeOK, StoreTypeOK, Accounted
  <2>3. OnlyMoves(c)
    BY <2>1, <2>2, ListedKept DEF OnlyMoves, Mode
  <2>4. QED
    BY <2>1, <2>3, RemovalSeen
<1>6. ASSUME NEW c \in Ids, RemovalRefused(c) PROVE C!Next \/ UNCHANGED seen
  <2>1. UNCHANGED <<status, label, owner, tracked, task, phase, keep>>
        /\ phase \in {"sweep", "cleanup"} /\ c \in todo /\ todo' = todo \ {c}
    BY <1>6 DEF RemovalRefused, store
  <2>2. \A x \in Ids \ {c} : x \in Accounted <=> x \in Accounted'
    BY <2>1 DEF Accounted
  <2>3. OnlyMoves(c)
    BY <2>1, <2>2, ListedKept DEF OnlyMoves, Mode
  <2>4. c \in Accounted /\ c \notin Accounted'
    BY <2>1 DEF Accounted
  <2>5. CASE status[c] = "live"
    <3>1. Place(c).at = "held"
          /\ Place(c)' \in {[at |-> "free", session |-> None],
                            [at |-> "left", session |-> Place(c).session]}
      BY <2>1, <2>4, <2>5 DEF Facts
    <3>2. QED
      BY <2>3, <3>1, DropSeen
  <2>6. CASE status[c] # "live"
    <3>1. Place(c)' = Place(c)
      BY <2>1, <2>6, UnheldKept
    <3>2. QED
      BY <2>3, <3>1, NothingSeen DEF OnlyMoves
  <2>7. QED
    BY <2>5, <2>6
<1>7. CASE Shutdown
  <2>1. /\ UNCHANGED <<status, label, owner, tracked, task, keep>>
        /\ phase = "serve" /\ phase' = "drain"
    BY <1>7 DEF Shutdown, store, proxyVars
  <2>2. \A x \in Ids : x \in Accounted <=> x \in Accounted'
    BY <2>1 DEF Accounted, Tracked, Untracked, At
  <2>3. \A x \in Ids : Place(x)' = Place(x)
    BY <2>1, <2>2, ServingKept
  <2>4. QED
    BY <2>1, <2>3, NothingSeen DEF Mode
<1>8. CASE Drained
  BY <1>8, DrainedSeen
<1>9. CASE Exit
  <2>1. UNCHANGED store /\ \A x \in Ids : x \notin Accounted /\ x \notin Accounted'
    BY <1>9 DEF Exit, Accounted
  <2>2. Mode \in {"on", "keep"} /\ Mode' = "done"
    BY <1>9 DEF Exit, Mode
  <2>3. QED
    BY <2>1, <2>2, NothingHeld DEF C!Next, C!Finish
<1>10. CASE BackendFails \/ BindFails \/ Crash
  BY <1>10, HaltSeen DEF BackendFails, BindFails, Crash
<1>11. QED
  BY <1>1, <1>2, <1>3, <1>4, <1>5, <1>6, <1>7, <1>8, <1>9, <1>10 DEF ProcessStep

-----------------------------------------------------------------------------
(* The refinement *)

LEMMA InitSeen == Init => C!Init
<1> SUFFICES ASSUME Init PROVE C!Init
  OBVIOUS
<1>1. Facts
  BY InitAlone, FactsHold
<1>2. \A c \in Ids : Place(c) = [at |-> "absent", session |-> None]
  BY <1>1 DEF Init, StoreInit, Facts
<1>3. Mode = "off"
  BY DEF Init, Mode
<1>4. QED
  BY <1>2, <1>3 DEF C!Init, C!Absent, C!With

LEMMA StepSeen == IInv /\ IInv' /\ [Next]_vars => [C!Next]_seen
<1> SUFFICES ASSUME IInv, IInv', [Next]_vars PROVE C!Next \/ UNCHANGED seen
  OBVIOUS
<1>1. Facts /\ Facts'
  BY FactsHold, FactsHoldNext
<1>2. CASE Next
  BY <1>1, <1>2, HandlesSeen, AcceptsSeen, ProcessSeen, OutsideSeen
     DEF Next, HandlerStep, IInv, SharedInv
<1>3. CASE UNCHANGED vars
  <2>1. UNCHANGED <<status, label, owner, tracked, task, phase, keep, todo>>
    BY <1>3 DEF vars, store, proxyVars
  <2>2. QED
    BY <1>1, <2>1, OthersKept, NothingSeen DEF Mode
<1>4. QED
  BY <1>2, <1>3

\* PSP keeps the custody of containers as Custody states it.
THEOREM CustodyIsKept == Spec => KeepsCustody
<1>1. Spec => []IInv
  BY Invariance
<1>2. QED
  BY <1>1, InitSeen, StepSeen, PTL DEF Spec, KeepsCustody, C!Spec, seen
=============================================================================
