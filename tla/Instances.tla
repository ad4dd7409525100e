----------------------------- MODULE Instances -----------------------------
(***************************************************************************)
(* Two PSP processes on one backend: a PSP that serves (P, the process of   *)
(* Psp), and beside it another process (Q) built from the same code, which *)
(* is a second PSP, a psp cleanup or a psp smoke-test (src/cli.rs).  The    *)
(* processes share the backend's containers and nothing else; each sweeps   *)
(* and serves what the other has created.                                  *)
(*                                                                         *)
(* Each process's clients use sessions of their own here.  In the code the *)
(* session of a request decides nothing but whether it is anonymous, so    *)
(* this only lets the properties tell whose container is whose.            *)
(***************************************************************************)
EXTENDS Psp

CONSTANTS
    ClientsQ,   \* the sessions of Q's clients
    handlerQ,   \* the request Q handles: one at a time
    Kinds,      \* what Q may be, from run to run
    KeepQ,      \* the values keep_on_failure takes, of Q as a second PSP
    MaxLateQ    \* bound: calls of Q, given up, the backend may still execute

ASSUME InstancesAssumption ==
    /\ ClientsQ \subseteq Sessions \ Clients
    /\ Kinds \subseteq {"psp", "cleanup", "smoke"}
    /\ KeepQ \subseteq BOOLEAN
    /\ MaxLateQ \in Nat

VARIABLES
    trackedQ, taskQ, lateQ, strayQ, phaseQ, keepQ, todoQ,   \* Q's, as Psp has P's
    kind,       \* what Q is in this run of it
    shown,      \* the containers psp cleanup listed for its user
    smoke       \* how far psp smoke-test is, and the container it was told of

varsP == <<proxyVars, phase, keep, todo>>
varsQ == <<trackedQ, taskQ, lateQ, strayQ, phaseQ, keepQ, todoQ>>
command == <<kind, shown, smoke>>

Q == INSTANCE Psp WITH
    Clients <- ClientsQ, Handlers <- {handlerQ},
    KeepChoices <- KeepQ, MaxLate <- MaxLateQ,
    tracked <- trackedQ, task <- taskQ, late <- lateQ, stray <- strayQ,
    phase <- phaseQ, keep <- keepQ, todo <- todoQ

NoSmoke == [at |-> "none", made |-> None]

InitBoth ==
    /\ Init
    /\ Q!Init
    /\ kind = "psp"
    /\ shown = {}
    /\ smoke = NoSmoke

QIsOff == phaseQ \in {"down", "exited"}

-----------------------------------------------------------------------------
(* psp cleanup (cli.rs, cleanup) *)

\* It lists the containers with PSP's label and shows them to its user; with
\* none it is done.  It starts no server.
CleanupLists(k) ==
    /\ QIsOff
    /\ "cleanup" \in Kinds
    /\ Managed # {}
    /\ kind' = "cleanup"
    /\ shown' = Managed
    /\ keepQ' = k
    /\ phaseQ' = "confirm"
    /\ smoke' = NoSmoke
    /\ UNCHANGED <<trackedQ, taskQ, lateQ, strayQ, todoQ>>

CleanupAborted ==
    /\ phaseQ = "confirm"
    /\ phaseQ' = "exited"
    /\ shown' = {}
    /\ UNCHANGED <<trackedQ, taskQ, lateQ, strayQ, keepQ, todoQ, kind, smoke>>

\* The user confirms: startup_sweep, which does nothing under keep_on_failure
\* and else lists anew.
CleanupConfirmed ==
    /\ phaseQ = "confirm"
    /\ phaseQ' = IF keepQ THEN "swept" ELSE "list"
    /\ UNCHANGED <<trackedQ, taskQ, lateQ, strayQ, keepQ, todoQ, command>>

\* The sweep is a sweep like any other.
CleanupSweeps ==
    /\ kind = "cleanup"
    /\ \/ Q!ListManaged \/ Q!ListNotAnArray \/ Q!SweepDone
       \/ \E c \in Ids : Q!RemoveNext(c) \/ Q!RemovalRefused(c)
    /\ UNCHANGED command

\* Where a PSP would bind its socket, the command reports what it showed as
\* removed.
CleanupReports ==
    /\ kind = "cleanup"
    /\ phaseQ \in {"bind", "swept"}
    /\ phaseQ' = "exited"
    /\ shown' = {}
    /\ UNCHANGED <<trackedQ, taskQ, lateQ, strayQ, keepQ, todoQ, kind, smoke>>

-----------------------------------------------------------------------------
(* psp smoke-test (cli.rs, smoke_test) *)

\* A router on a socket of its own: no sweep before, no cleanup after, whatever
\* keep_on_failure is: the command does not look at it.
SmokeStarts ==
    /\ QIsOff
    /\ "smoke" \in Kinds
    /\ kind' = "smoke"
    /\ phaseQ' = "serve"
    /\ keepQ' = FALSE
    /\ smoke' = [at |-> "create", made |-> None]
    /\ UNCHANGED <<trackedQ, taskQ, lateQ, strayQ, todoQ, shown>>

SmokeAsks ==
    /\ kind = "smoke"
    /\ phaseQ = "serve"
    /\ \/ /\ smoke.at = "create"
          /\ \E s \in ClientsQ : Q!Accept(handlerQ, "create", None, s)
          /\ smoke' = [smoke EXCEPT !.at = "created"]
       \/ /\ smoke.at = "delete"
          /\ \E s \in ClientsQ : Q!Accept(handlerQ, "delete", smoke.made, s)
          /\ smoke' = [smoke EXCEPT !.at = "deleted"]
    /\ UNCHANGED <<phaseQ, keepQ, todoQ, kind, shown>>

\* Its handler works as any handler does; its client waits for the answer, and
\* its payload is one that both parsers read.
SmokeHandled ==
    /\ kind = "smoke"
    /\ ~Q!At(handlerQ, "reply")
    /\ Q!Handles(handlerQ)
    /\ ~Q!CreateBodyOpaque(handlerQ)
    /\ ~Q!Disconnect(handlerQ)
    /\ UNCHANGED command

SmokeEnds(to, at) ==
    /\ phaseQ' = to
    /\ trackedQ' = [c \in Ids |-> None]
    /\ smoke' = [smoke EXCEPT !.at = at]

SmokeGoesOn ==
    /\ smoke.at = "created" /\ taskQ[handlerQ].result = "created"
    /\ smoke' = [at |-> "delete", made |-> taskQ[handlerQ].made]
    /\ UNCHANGED <<trackedQ, phaseQ>>

\* Fault: the status of the removal's answer is not looked at.
SmokeVerdictUnread ==
    \/ SmokeGoesOn
    \/ smoke.at = "deleted" /\ SmokeEnds("exited", "passed")
    \/ smoke.at = "created" /\ taskQ[handlerQ].result # "created" /\ SmokeEnds("down", "none")

\* A create that succeeded is followed by the removal, a removal that succeeded
\* is the end of the test; any other answer ends it with an error.
SmokeVerdict ==
    \/ SmokeGoesOn
    \/ /\ smoke.at = "deleted" /\ taskQ[handlerQ].result = "removed"
       /\ SmokeEnds("exited", "passed")
    \/ /\ <<smoke.at, taskQ[handlerQ].result>>
              \notin {<<"created", "created">>, <<"deleted", "removed">>}
       /\ SmokeEnds("down", "none")

SmokeAnswered ==
    /\ kind = "smoke"
    /\ Q!At(handlerQ, "reply")
    /\ taskQ' = [taskQ EXCEPT ![handlerQ] = Q!NoTask]
    /\ SmokeVerdict
    /\ UNCHANGED <<store, lateQ, strayQ, keepQ, todoQ, kind, shown>>

-----------------------------------------------------------------------------
\* A command is killed, or the backend fails it.
CommandFails ==
    /\ kind # "psp"
    /\ Q!Crash
    /\ shown' = {}
    /\ smoke' = NoSmoke
    /\ UNCHANGED kind

CommandStep ==
    \/ \E k \in BOOLEAN : CleanupLists(k) /\ UNCHANGED store
    \/ (CleanupAborted \/ CleanupConfirmed \/ CleanupReports) /\ UNCHANGED store
    \/ CleanupSweeps
    \/ SmokeStarts /\ UNCHANGED store
    \/ SmokeAsks \/ SmokeHandled \/ SmokeAnswered
    \/ CommandFails

StepP == ProcessStep \/ \E h \in Handlers : HandlerStep(h)

\* Q as a second PSP: its start makes it one, whatever it was before.
StepQ ==
    /\ "psp" \in Kinds
    /\ QIsOff \/ kind = "psp"
    /\ Q!ProcessStep \/ Q!HandlerStep(handlerQ)
    /\ kind' = "psp"
    /\ shown' = {}
    /\ smoke' = NoSmoke

\* The backend executes a call Q gave up on.
LateQ ==
    /\ \E c \in Ids, call \in lateQ : Q!LateCreate(call, c) \/ Q!LateRemove(call, c)
    /\ UNCHANGED <<phaseQ, keepQ, todoQ>>

NextBoth ==
    \/ StepP /\ UNCHANGED <<varsQ, command>>
    \/ StepQ /\ UNCHANGED varsP
    \/ CommandStep /\ UNCHANGED varsP
    \/ OutsideStep /\ UNCHANGED <<varsQ, command>>
    \/ LateQ /\ UNCHANGED <<varsP, command>>

varsBoth == <<store, varsP, varsQ, command>>

SpecBoth == InitBoth /\ [][NextBoth]_varsBoth

-----------------------------------------------------------------------------
(* Properties; OwnContainersKept of P is in Psp *)

QTypeOK ==
    /\ Q!ProxyTypeOK
    /\ phaseQ \in Phases \cup {"confirm", "swept"}
    /\ keepQ \in BOOLEAN
    /\ todoQ \subseteq Ids
    /\ kind \in {"psp", "cleanup", "smoke"}
    /\ shown \subseteq Ids
    /\ smoke \in [at : {"none", "create", "created", "delete", "deleted", "passed"},
                 made : Ids \cup {None}]

BothTypeOK == TypeOK /\ QTypeOK

\* Sweeps of two processes that overlap, a cleanup and the shutdown of another
\* PSP take only what some PSP created, and nothing when told to keep it.
SweepsTakePspOnly ==
    /\ \A c \in todo \cup todoQ : status[c] = "live" => owner[c] \in Sessions
    /\ keep => todo = {}
    /\ keepQ => todoQ = {}

\* A psp cleanup without keep_on_failure that comes to its end has tried to
\* remove all that it showed its user, though it removes what a second listing
\* says: what is still there of it, the backend refused to remove or to list.
\* (What the command then reports is ReportedAreGone's question.)
ShownAreSwept ==
    kind = "cleanup" /\ phaseQ = "bind" => shown \cap Live \subseteq strayQ

\* A smoke test passes only if its container is gone again, whatever a PSP
\* sweeps or outsiders remove while it runs.
PassedSmokeTestIsClean == smoke.at = "passed" => status[smoke.made] = "gone"

-----------------------------------------------------------------------------
(* What a message says and the code does not do *)

\* src/cli.rs, cleanup: the containers shown are reported as removed.
ReportedAreGone ==
    kind = "cleanup" /\ phaseQ \in {"bind", "swept"} => shown \cap Live = {}
=============================================================================
