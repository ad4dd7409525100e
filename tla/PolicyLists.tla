---------------------------- MODULE PolicyLists ----------------------------
(***************************************************************************)
(* The allowlists and denylists of the policy (src/policy.rs): what their  *)
(* entries match, and how the commands edit them.                          *)
(*                                                                         *)
(* Lists are sets: their order and repetitions decide nothing.  The         *)
(* normalized lists are functions of the lists, since precompute runs after *)
(* every load and every edit, and are not modelled as state.               *)
(***************************************************************************)
EXTENDS Naturals, Sequences

CONSTANTS
    Registries, \* segments with a dot or a colon: as a first segment, a registry
    Ported,     \* the segments with a colon, a port
    Nothing     \* no tag, no digest, no source

ASSUME PolicyAssumption == Ported \subseteq Registries

-----------------------------------------------------------------------------
(* Image references: [parts : Seq(segments), tag, digest] *)

\* normalize_image_ref.
NormalImage(i) ==
    [parts |-> IF Len(i.parts) = 1 THEN <<"docker.io", "library">> \o i.parts
               ELSE IF Len(i.parts) = 2 /\ Head(i.parts) \notin Registries
               THEN <<"docker.io">> \o i.parts ELSE i.parts,
     tag |-> IF i.tag = Nothing /\ i.digest = Nothing THEN "latest" ELSE i.tag,
     digest |-> i.digest]

HasColon(i) ==
    i.tag # Nothing \/ i.digest # Nothing \/ \E k \in DOMAIN i.parts : i.parts[k] \in Ported

\* An entry of a list stands for every reference with its normal form.
Lists(list, i) == \E e \in list : NormalImage(e) = NormalImage(i)

ImageVerdict(p, i) ==
    IF Lists(p.imageDeny, i) THEN "image denylist"
    ELSE IF p.imageAllow # {} /\ ~Lists(p.imageAllow, i) THEN "image allowlist"
    ELSE "allowed"

-----------------------------------------------------------------------------
(* Containers: entries are [ref, dressed], dressed with a slash or blanks *)

Plain(ref) == [ref |-> ref, dressed |-> FALSE]

\* A container is known by its id and by its name (its id, if it has none).
Mentions(list, container) == \E e \in list : e.ref \in {container.id, container.name}

Access(p, container) ==
    CASE Mentions(p.deny, container) -> "denied"
      [] ~Mentions(p.deny, container) /\ Mentions(p.allow, container) -> "allowed"
      [] OTHER -> "unlisted"

-----------------------------------------------------------------------------
(* Edits *)

\* Fault: only the same spelling is removed.
RemoveSpelling(list, refs) == list \ {Plain(r) : r \in refs}

\* remove_matching, for containers: entries of any spelling.
RemoveMatching(list, refs) == {e \in list : e.ref \notin refs}

\* remove_matching, for an image: the same spelling, or the same normal form
\* if the entry has a colon.  The comparison of the two as containers, which the
\* code makes too, finds the same spelling: an image begins with no slash or blank.
RemoveMatchingImage(list, i) ==
    {e \in list : e # i /\ ~(HasColon(e) /\ NormalImage(e) = NormalImage(i))}

AddContainerAllow(p, refs) ==
    [p EXCEPT !.allow = @ \cup {Plain(r) : r \in refs}, !.deny = RemoveMatching(@, refs)]

AddContainerDeny(p, refs) ==
    [p EXCEPT !.deny = @ \cup {Plain(r) : r \in refs}, !.allow = RemoveMatching(@, refs)]

\* Fault: the image is entered, and an older denial is left in place.
AddImageOnly(p, i) == [p EXCEPT !.imageAllow = @ \cup {i}]

AddImageAllow(p, i) ==
    [p EXCEPT !.imageAllow = @ \cup {i}, !.imageDeny = RemoveMatchingImage(@, i)]

\* The commands enter a container by its id and by its display name.
References(targets) == UNION {{c.id, c.name} : c \in targets}

PolicyEntryMutation(p, targets, allow) ==
    IF allow THEN AddContainerAllow(p, References(targets))
             ELSE AddContainerDeny(p, References(targets))
=============================================================================
