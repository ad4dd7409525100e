----------------------------- MODULE PolicyFile -----------------------------
(***************************************************************************)
(* The policy file and the commands that edit it (src/cli.rs): psp discover *)
(* allow and deny, psp images allow, psp policy init --force.              *)
(*                                                                         *)
(* A command is a process of its own.  It reads the whole file, may wait    *)
(* for the user, and writes the whole file back, without a lock and in      *)
(* place: fs::write truncates first and writes then.                       *)
(***************************************************************************)
EXTENDS PolicyLists

CONSTANTS
    Editors,    \* commands that may run at the same time
    Containers, \* unmanaged containers the backend lists: [id, name]
    Images,     \* images the lists may hold
    Commands,   \* commands users may give
    Handwritten,\* policies the file may hold before the first command
    Templates   \* policies psp policy init writes

Policies == [allow : SUBSET [ref : References(Containers), dressed : BOOLEAN],
             deny : SUBSET [ref : References(Containers), dressed : BOOLEAN],
             imageAllow : SUBSET Images, imageDeny : SUBSET Images]

\* What a command is given: containers, an image, or the profile to write.
AllCommands ==
    [kind : {"allow", "deny"}, targets : (SUBSET Containers) \ {{}}]
        \cup [kind : {"image"}, image : Images]
        \cup [kind : {"init"}, template : Templates]

\* No two containers share an id or a name; no template lists a container.
ASSUME PolicyFileAssumption ==
    /\ \A c, d \in Containers : c # d => {c.id, c.name} \cap {d.id, d.name} = {}
    /\ Handwritten \cup Templates \subseteq Policies
    /\ \A p \in Templates : p.allow = {} /\ p.deny = {}
    /\ Commands \subseteq AllCommands

VARIABLES
    file,   \* its text: [state, policy]; only a whole text can be parsed
    editor, \* editor[e]: the command e runs
    told,   \* told[c]: the access users expect for c (history)
    listed, \* images some command has allowed (history)
    lost,   \* containers whose last command was overwritten (history)
    forgot  \* images whose last command was overwritten (history)

vars == <<file, editor, told, listed, lost, forgot>>

NoPolicy == [allow |-> {}, deny |-> {}, imageAllow |-> {}, imageDeny |-> {}]

Whole(p) == [state |-> "whole", policy |-> p]

\* Empty after truncation; a mix of two texts, or a part of one, is torn.
Empty == [state |-> "empty", policy |-> NoPolicy]
Torn == [state |-> "torn", policy |-> NoPolicy]

NoCommand == [kind |-> "none"]

Idle == [pc |-> "idle", cmd |-> NoCommand, policy |-> NoPolicy, missed |-> {}, unseen |-> {}]

\* missed and unseen: the containers and the images that commands this one has
\* not seen the effect of were about (history).
Editor == [pc : {"idle", "loaded", "open"}, cmd : Commands \cup {NoCommand}, policy : Policies,
           missed : SUBSET Containers, unseen : SUBSET Images]

TypeOK ==
    /\ file \in [state : {"whole", "empty", "torn"}, policy : Policies]
    /\ editor \in [Editors -> Editor]
    /\ \A e \in Editors : editor[e].pc # "idle" => editor[e].cmd \in Commands
    /\ told \in [Containers -> {"allowed", "denied", "unlisted"}]
    /\ listed \subseteq Images
    /\ lost \subseteq Containers
    /\ forgot \subseteq Images

Init ==
    /\ \E p \in Handwritten :
           /\ file = Whole(p)
           /\ told = [c \in Containers |-> Access(p, c)]
    /\ editor = [e \in Editors |-> Idle]
    /\ listed = {}
    /\ lost = {}
    /\ forgot = {}

At(e, pc) == editor[e].pc = pc

-----------------------------------------------------------------------------
\* A container is named on the command line, or several are picked in a dialog
\* that offers those the policy does not treat that way already.
Offered(p, cmd) ==
    cmd.kind \in {"allow", "deny"} =>
        \A c \in cmd.targets :
            cmd.targets = {c} \/ Access(p, c) # IF cmd.kind = "allow" THEN "allowed" ELSE "denied"

\* Policy::load fails on a text it cannot parse; init --force does not read.
Load(e, cmd) ==
    /\ At(e, "idle")
    /\ cmd.kind # "init" => file.state = "whole" /\ Offered(file.policy, cmd)
    /\ editor' = [editor EXCEPT ![e] =
           [pc |-> "loaded", cmd |-> cmd, policy |-> file.policy, missed |-> lost, unseen |-> forgot]]
    /\ UNCHANGED <<file, told, listed, lost, forgot>>

\* A dry run, nothing selected, not confirmed, or killed before it writes.
Cancel(e) ==
    /\ At(e, "loaded")
    /\ editor' = [editor EXCEPT ![e] = Idle]
    /\ UNCHANGED <<file, told, listed, lost, forgot>>

\* Fault: a denial is entered as an allowance is.
EditedBackwards(p, cmd) ==
    CASE cmd.kind \in {"allow", "deny"} -> PolicyEntryMutation(p, cmd.targets, TRUE)
      [] cmd.kind = "image" -> AddImageAllow(p, cmd.image)
      [] cmd.kind = "init" -> cmd.template

\* What the command makes of the policy it has read.
Edited(p, cmd) ==
    CASE cmd.kind \in {"allow", "deny"} -> PolicyEntryMutation(p, cmd.targets, cmd.kind = "allow")
      [] cmd.kind = "image" -> AddImageAllow(p, cmd.image)
      [] cmd.kind = "init" -> cmd.template

\* The edit, and the first half of fs::write.
Truncate(e) ==
    /\ At(e, "loaded")
    /\ file' = Empty
    /\ editor' = [editor EXCEPT ![e] =
           [editor[e] EXCEPT !.pc = "open", !.policy = Edited(editor[e].policy, editor[e].cmd)]]
    /\ UNCHANGED <<told, listed, lost, forgot>>

\* What the command was about: init is about everything.
About(cmd) ==
    CASE cmd.kind \in {"allow", "deny"} -> cmd.targets
      [] cmd.kind = "image" -> {}
      [] cmd.kind = "init" -> Containers

AboutImages(cmd) ==
    CASE cmd.kind \in {"allow", "deny"} -> {}
      [] cmd.kind = "image" -> {cmd.image}
      [] cmd.kind = "init" -> Images

\* What users expect once the command has ended.
Outcome(cmd) ==
    CASE cmd.kind = "allow" -> "allowed"
      [] cmd.kind = "deny" -> "denied"
      [] OTHER -> "unlisted"

Expected(cmd) == [c \in Containers |-> IF c \in About(cmd) THEN Outcome(cmd) ELSE told[c]]

ExpectedImages(cmd) ==
    CASE cmd.kind = "image" -> listed \cup {cmd.image}
      [] cmd.kind = "init" -> {}
      [] OTHER -> listed

\* The second half.  A text another command has written since the truncation
\* is overwritten from its start, and may show beyond the end of the new one.
\* The other commands in progress have not seen this one.
Write(e) ==
    LET cmd == editor[e].cmd IN
    /\ At(e, "open")
    /\ \/ file' = Whole(editor[e].policy)
       \/ file.state # "empty" /\ file' = Torn
    /\ editor' = [f \in Editors |->
           IF f = e THEN Idle
           ELSE IF At(f, "idle") THEN editor[f]
           ELSE [editor[f] EXCEPT !.missed = @ \cup About(cmd),
                                  !.unseen = @ \cup AboutImages(cmd)]]
    /\ told' = Expected(cmd)
    /\ listed' = ExpectedImages(cmd)
    /\ lost' = editor[e].missed \ About(cmd)
    /\ forgot' = editor[e].unseen \ AboutImages(cmd)

\* The command is killed while it writes.
Kill(e) ==
    /\ At(e, "open")
    /\ file' \in {file, Torn}
    /\ editor' = [editor EXCEPT ![e] = Idle]
    /\ UNCHANGED <<told, listed, lost, forgot>>

Next ==
    \E e \in Editors :
        \/ \E cmd \in Commands : Load(e, cmd)
        \/ Cancel(e) \/ Truncate(e) \/ Write(e) \/ Kill(e)

Spec == Init /\ [][Next]_vars

-----------------------------------------------------------------------------
\* The last command about a container decides its access, in whatever spelling
\* the lists hold it, and no command changes the access of another container;
\* only a command that overlapped with another can undo it.
LastCommandHolds ==
    file.state = "whole" =>
        \A c \in Containers \ lost : Access(file.policy, c) = told[c]

\* An allowed image stays allowed until the file is replaced, unless the
\* denylist has it in a spelling without a colon, or its command was lost.
AllowedImageHolds ==
    file.state = "whole" =>
        \A i \in listed \ forgot :
            \/ ImageVerdict(file.policy, i) = "allowed"
            \/ \E x \in file.policy.imageDeny : ~HasColon(x) /\ NormalImage(x) = NormalImage(i)

-----------------------------------------------------------------------------
\* What the proofs strengthen the two with: what a policy in memory is true to.

\* The image is listed, and denied only in spellings without a colon.
Keeps(p, i) ==
    /\ Lists(p.imageAllow, i)
    /\ \A x \in p.imageDeny : NormalImage(x) = NormalImage(i) => ~HasColon(x)

\* A command that has read the policy has what others did, but for what it missed.
ReadSound(e) ==
    At(e, "loaded") /\ editor[e].cmd.kind # "init" =>
        /\ \A c \in Containers \ editor[e].missed : Access(editor[e].policy, c) = told[c]
        /\ \A i \in listed \ editor[e].unseen : Keeps(editor[e].policy, i)

\* And what it writes is what will be expected.
WriteSound(e) ==
    LET ed == editor[e] IN
    At(e, "open") =>
        /\ \A c \in Containers \ (ed.missed \ About(ed.cmd)) : Access(ed.policy, c) = Expected(ed.cmd)[c]
        /\ \A i \in ExpectedImages(ed.cmd) \ (ed.unseen \ AboutImages(ed.cmd)) : Keeps(ed.policy, i)

FileSound ==
    /\ LastCommandHolds
    /\ file.state = "whole" => \A i \in listed \ forgot : Keeps(file.policy, i)

\* Types, and the file and every command are true to what was done.
IInv == TypeOK /\ FileSound /\ \A e \in Editors : ReadSound(e) /\ WriteSound(e)
=============================================================================
