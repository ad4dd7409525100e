--------------------------- MODULE PspInvariants ---------------------------
(***************************************************************************)
(* The inductive strengthening of Psp's safety properties: what the        *)
(* handlers, the abandoned calls and the phases know about the containers  *)
(* between two steps.                                                      *)
(***************************************************************************)
EXTENDS Psp

\* A create in a handler's hands belongs to a session and asks for no other
\* session's label; any other request names a container that exists or existed,
\* or a name, or nothing at all.
RequestOK(h) ==
    /\ task[h].op = "create" /\ task[h].pc \in {"body", "send"} =>
           /\ task[h].session \in Clients
           /\ task[h].label \in {None, task[h].session}
    /\ task[h].op # "create" /\ task[h].pc \in {"body", "inspect", "send"} =>
           /\ task[h].ref \in Ids => status[task[h].ref] # "unborn"
           /\ task[h].op = "other" => task[h].ref = None
    /\ task[h].pc = "inspect" => task[h].op # "create"

\* What the backend answered stays true of the backend.
AnswerOK(h) ==
    /\ At(h, "answered") /\ task[h].result # "created" => task[h].made = None
    /\ task[h].pc \in {"answered", "reply"} /\ task[h].result = "created" =>
           /\ task[h].made \in Ids
           /\ task[h].session \in Sessions
           /\ status[task[h].made] # "unborn"
           /\ status[task[h].made] = "live" =>
                  /\ owner[task[h].made] = task[h].session
                  /\ label[task[h].made] \in {None, task[h].session}
    /\ At(h, "answered") /\ task[h].result = "removed" /\ task[h].ref \in Ids =>
           status[task[h].ref] = "gone"

HandlerOK(h) == RequestOK(h) /\ AnswerOK(h) /\ ReplyTracked(h) /\ AllowedById(h)

\* An abandoned create still belongs to its session.
LateOK ==
    \A call \in late :
        call.op = "create" =>
            call.session \in Clients /\ call.label \in {None, call.session}

\* PSP's labels are put on by PSP only, and name the session that asked.
LabelsOK == \A c \in Live : label[c] # None => owner[c] = label[c]

\* What each phase has not begun yet, or has ended.
PhasesOK ==
    /\ phase \notin {"serve", "drain"} => \A h \in Handlers : At(h, "idle")
    /\ phase \notin {"serve", "drain", "cleanup"} => Tracked = {}
    /\ phase \notin {"sweep", "cleanup"} => todo = {}
    /\ phase \in {"list", "sweep"} => ~keep

\* The promises of Psp with their support, as far as they hold also when other
\* PSP processes work on the same backend.
SharedInv ==
    /\ TypeOK
    /\ \A h \in Handlers : HandlerOK(h)
    /\ LateOK
    /\ LabelsOK
    /\ PhasesOK
    /\ Attribution
    /\ SweepTargets
    /\ OwnContainersKept
    /\ CleanupCovers

\* Without another PSP on the backend its containers are PSP's clients' or outsiders'.
OwnersOK == \A c \in Live : owner[c] \in Clients \cup {Outsider}

\* The inductive invariant of a PSP that has the backend to itself, but for
\* outsiders.
IInv == SharedInv /\ OwnersOK
=============================================================================
