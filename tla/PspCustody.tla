----------------------------- MODULE PspCustody -----------------------------
(***************************************************************************)
(* Psp implements Custody: where the abstract custody of a container is    *)
(* found in the phases, the table, the handlers and the backend's labels.  *)
(***************************************************************************)
EXTENDS PspInvariants

\* The session an accounted container is for: as the table has it, as the
\* handler about to fill the table has it, or as its label has it.
SessionOf(c) ==
    IF c \in Tracked THEN tracked[c]
    ELSE IF \E h \in Handlers : c \in Untracked(h)
         THEN task[CHOOSE h \in Handlers : c \in Untracked(h)].session
         ELSE label[c]

Idle == phase \in {"down", "exited", "ping", "list"}

\* "leaked" is no place Custody knows: a labelled container that a running PSP
\* does not account for, and that no fault took out of its hands.
Place(c) ==
    CASE status[c] = "unborn" -> [at |-> "absent", session |-> None]
      [] status[c] = "gone" -> [at |-> "gone", session |-> None]
      [] c \in Live /\ c \in Accounted -> [at |-> "held", session |-> SessionOf(c)]
      [] c \in Live /\ c \notin Accounted /\ label[c] = None ->
             [at |-> "free", session |-> None]
      [] OTHER -> [at |-> IF Idle \/ keep \/ c \in stray THEN "left" ELSE "leaked",
                   session |-> label[c]]

Mode ==
    CASE phase = "exited" -> "done"
      [] phase \in {"down", "ping", "list"} -> "off"
      [] OTHER -> IF keep THEN "keep" ELSE "on"

C == INSTANCE Custody WITH custody <- [c \in Ids |-> Place(c)], mode <- Mode

\* Whatever handlers, clients, outsiders, crashes and restarts do: a container
\* in PSP's hands stays there, for the session that created it, until it is
\* removed or a fault takes it away; an end without keep_on_failure leaves none
\* in its hands, and a start takes over all that was left.
KeepsCustody == C!Spec
=============================================================================
