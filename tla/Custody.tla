------------------------------ MODULE Custody ------------------------------
(***************************************************************************)
(* What PSP promises about containers, without how it keeps the promise:   *)
(* whose hands each container is in, and how it may change hands.  There   *)
(* are no handlers, no table, no labels and no calls here.                 *)
(***************************************************************************)
CONSTANTS
    Ids,        \* containers
    Sessions,   \* those PSP creates containers for
    None        \* no session

VARIABLES
    custody,    \* custody[c]: where container c is, and the session it is for
    mode        \* PSP's process: "off", "on", "keep" (keep_on_failure), "done"

(***************************************************************************)
(* "free": nothing in PSP or on the container says that PSP created it;    *)
(* "held": the running process answers for it; "left": no process does,    *)
(* and a later one will know it by its label.                              *)
(***************************************************************************)
With(at, s) == [at |-> at, session |-> s]

Absent == With("absent", None)
Gone == With("gone", None)
Free == With("free", None)

In(at) == {c \in Ids : custody[c].at = at}

Init ==
    /\ custody = [c \in Ids |-> Absent]
    /\ mode = "off"

Becomes(c, where) == custody' = [custody EXCEPT ![c] = where]

\* A container is created: in PSP's hands only while a process runs.
Appear(c) ==
    /\ custody[c] = Absent
    /\ \/ Becomes(c, Free)
       \/ \E s \in Sessions : Becomes(c, With("left", s))
       \/ \E s \in Sessions : mode \in {"on", "keep"} /\ Becomes(c, With("held", s))
    /\ UNCHANGED mode

\* A container is removed, by PSP or by anyone else.
Vanish(c) ==
    /\ c \in In("free") \cup In("held") \cup In("left")
    /\ Becomes(c, Gone)
    /\ UNCHANGED mode

\* What becomes of a held container PSP lets go of: it stays the same session's.
Released(c) == {Free, With("left", custody[c].session)}

\* A fault the code cannot mend (a lost answer, a client that went away, a
\* refused removal) takes one container out of PSP's hands.
Drop(c) ==
    /\ c \in In("held")
    /\ \E where \in Released(c) : Becomes(c, where)
    /\ UNCHANGED mode

DropAll ==
    \E where \in [In("held") -> UNION {Released(c) : c \in In("held")}] :
        /\ \A c \in In("held") : where[c] \in Released(c)
        /\ custody' = [c \in Ids |-> IF c \in In("held") THEN where[c] ELSE custody[c]]

\* A start takes over all that earlier processes left, unless it is told to
\* keep it or cannot read the listing.
TakeOver ==
    /\ mode = "off"
    /\ mode' = "on"
    /\ custody' = [c \in Ids |->
           IF c \in In("left") THEN With("held", custody[c].session) ELSE custody[c]]

StartBlind ==
    /\ mode = "off"
    /\ mode' \in {"on", "keep"}
    /\ UNCHANGED custody

\* Only keep_on_failure lets a process end well with containers in its hands.
Keep ==
    /\ mode = "keep"
    /\ DropAll
    /\ UNCHANGED mode

Finish ==
    /\ mode \in {"on", "keep"}
    /\ In("held") = {}
    /\ mode' = "done"
    /\ UNCHANGED custody

Abort ==
    /\ mode \in {"on", "keep"}
    /\ mode' = "off"
    /\ DropAll

Restart ==
    /\ mode = "done"
    /\ mode' = "off"
    /\ UNCHANGED custody

Next ==
    \/ \E c \in Ids : Appear(c) \/ Vanish(c) \/ Drop(c)
    \/ TakeOver \/ StartBlind \/ Keep \/ Finish \/ Abort \/ Restart

Spec == Init /\ [][Next]_<<custody, mode>>
=============================================================================
