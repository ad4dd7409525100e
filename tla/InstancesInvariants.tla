------------------------ MODULE InstancesInvariants ------------------------
(***************************************************************************)
(* The inductive strengthening of Instances' properties: P keeps what it    *)
(* keeps alone (SharedInv), and what Q, or the command Q is, knows of the   *)
(* containers stays true whatever P does to them.                          *)
(***************************************************************************)
EXTENDS Instances, PspInvariants

asked == taskQ[handlerQ]

\* The creates in Q's hands, and those it gave up, are its own clients'.
OwnCall(call) ==
    call.op = "create" => call.session \in ClientsQ /\ call.label \in {None, call.session}

OwnCalls ==
    /\ asked.pc \in {"body", "inspect", "send"} => OwnCall(asked)
    /\ \A call \in lateQ : OwnCall(call)

\* What the backend answered Q stays true, until Q passes it on and after.
AnswersHold ==
    asked.pc \in {"answered", "reply"} =>
        /\ asked.result = "created" =>
               /\ asked.made \in Ids
               /\ asked.session \in ClientsQ
               /\ status[asked.made] # "unborn"
               /\ status[asked.made] = "live" => owner[asked.made] = asked.session
        /\ asked.result = "removed" /\ asked.ref \in Ids => status[asked.ref] = "gone"

\* What Q tracks and what it is about to remove was created by a PSP's client.
ListsAreOwn ==
    \A c \in Ids :
        trackedQ[c] # None \/ c \in todoQ =>
            /\ status[c] # "unborn"
            /\ status[c] = "live" => owner[c] \in Sessions

\* What each phase of Q has not begun yet, or has ended.
PhasesQOK ==
    /\ phaseQ \notin {"sweep", "cleanup"} => todoQ = {}
    /\ phaseQ \in {"list", "sweep"} => ~keepQ
    /\ keepQ => todoQ = {}

\* Of what psp cleanup showed, what is live has PSP's label, so the second
\* listing finds it, and then is still to be removed or was refused.
ShownOK ==
    kind = "cleanup" =>
        /\ \A c \in shown : status[c] # "unborn"
        /\ phaseQ \in {"confirm", "list"} => shown \cap Live \subseteq Managed
        /\ phaseQ = "sweep" => shown \cap Live \subseteq todoQ \cup strayQ
        /\ phaseQ = "bind" => shown \cap Live \subseteq strayQ

\* From its creation on, psp smoke-test holds the id of a container that exists
\* or existed; its second request is the removal of just that container.
SmokeOK ==
    /\ kind = "smoke" => phaseQ \in {"serve", "down", "exited"}
    /\ smoke.at \in {"delete", "deleted", "passed"} =>
           smoke.made \in Ids /\ status[smoke.made] # "unborn"
    /\ smoke.at = "deleted" /\ asked.result = "removed" => asked.ref = smoke.made
    /\ smoke.at = "deleted" /\ asked.op # "none" =>
           asked.op = "delete" /\ asked.ref = smoke.made
    /\ PassedSmokeTestIsClean

\* Q's part of the inductive invariant.
QInv ==
    /\ QTypeOK
    /\ OwnCalls
    /\ AnswersHold
    /\ ListsAreOwn
    /\ PhasesQOK
    /\ ShownOK
    /\ SmokeOK

BothInv == SharedInv /\ QInv
=============================================================================
