------------------------------ MODULE Backend ------------------------------
(***************************************************************************)
(* The container backend (Podman's API service) as PSP uses it.            *)
(*                                                                         *)
(* None of this code is in the repository: the module states what          *)
(* src/backend.rs, src/proxy.rs and src/lib.rs rely on.  A container has an *)
(* id that is never used twice, at most one name that no other live         *)
(* container has, and the label pair io.psp.managed / io.psp.session.  The  *)
(* other users of the backend create and remove containers at any moment.   *)
(***************************************************************************)
CONSTANTS
    Ids,        \* container ids; an execution creates at most one container per id
    Names,      \* container names
    Sessions,   \* effective session ids
    Anonymous,  \* the session of a request without a valid x-psp-session-id
    Outsider,   \* whoever uses the backend without PSP
    None        \* no name, no label, no owner, no container

Refs == Ids \cup Names      \* what a path /containers/{ref} may hold

ASSUME BackendAssumption ==
    /\ Ids \cap Names = {}
    /\ Anonymous \in Sessions
    /\ None \notin Refs \cup Sessions
    /\ Outsider \notin Sessions \cup {None}

VARIABLES
    status,     \* status[c]: has container c been created, has it been removed
    name,       \* name[c]: the name c was created with
    label,      \* label[c]: the session in c's io.psp labels, None when it has none
    owner       \* owner[c]: whose request created c (history: the code has no such field)

store == <<status, name, label, owner>>

StoreTypeOK ==
    /\ status \in [Ids -> {"unborn", "live", "gone"}]
    /\ name \in [Ids -> Names \cup {None}]
    /\ label \in [Ids -> Sessions \cup {None}]
    /\ owner \in [Ids -> Sessions \cup {Outsider, None}]

StoreInit ==
    /\ status = [c \in Ids |-> "unborn"]
    /\ name = [c \in Ids |-> None]
    /\ label = [c \in Ids |-> None]
    /\ owner = [c \in Ids |-> None]

Live == {c \in Ids : status[c] = "live"}

\* What the filter label=io.psp.managed=true of a container listing selects.
Managed == {c \in Live : label[c] # None}

\* The live containers a reference stands for: at most one.
Resolve(ref) == {c \in Live : ref = c \/ ref = name[c]}

\* The backend creates container c (201); a name in use would be a 409.
Put(c, n, l, o) ==
    /\ status[c] = "unborn"
    /\ n # None => Resolve(n) = {}
    /\ status' = [status EXCEPT ![c] = "live"]
    /\ name' = [name EXCEPT ![c] = n]
    /\ label' = [label EXCEPT ![c] = l]
    /\ owner' = [owner EXCEPT ![c] = o]

\* The backend removes container c, by force, and with it all it knows of c.
Remove(c) ==
    /\ c \in Live
    /\ status' = [status EXCEPT ![c] = "gone"]
    /\ name' = [name EXCEPT ![c] = None]
    /\ label' = [label EXCEPT ![c] = None]
    /\ owner' = [owner EXCEPT ![c] = None]

(***************************************************************************)
(* The other users of the backend: a container created without PSP carries *)
(* no io.psp label; any container may be removed behind PSP's back.        *)
(***************************************************************************)
OutsiderCreates(c, n) == Put(c, n, None, Outsider)

OutsiderRemoves(c) == Remove(c)
=============================================================================
