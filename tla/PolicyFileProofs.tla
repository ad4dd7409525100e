-------------------------- MODULE PolicyFileProofs --------------------------
(***************************************************************************)
(* The properties of PolicyFile, for any number of commands, containers and*)
(* images and for every policy a user may have written.                    *)
(***************************************************************************)
EXTENDS PolicyFile, TLAPS

USE PolicyFileAssumption

ContainerCommand(cmd) == cmd.kind \in {"allow", "deny"} /\ cmd.targets \subseteq Containers
ImageCommand(cmd) == cmd.kind = "image" /\ cmd.image \in Images
InitCommand(cmd) == cmd.kind = "init" /\ cmd.template \in Templates

LEMMA CommandKinds ==
    ASSUME NEW cmd \in Commands
    PROVE  ContainerCommand(cmd) \/ ImageCommand(cmd) \/ InitCommand(cmd)
BY DEF AllCommands, ContainerCommand, ImageCommand, InitCommand

-----------------------------------------------------------------------------
(* What an edit does to the lists *)

\* The references of the targets of a command tell them from other containers.
LEMMA TargetsOnly ==
    ASSUME NEW T \in SUBSET Containers, NEW c \in Containers
    PROVE  /\ c \in T => {c.id, c.name} \subseteq References(T)
           /\ c \notin T => {c.id, c.name} \cap References(T) = {}
<1>1. ASSUME c \in T PROVE {c.id, c.name} \subseteq References(T)
  BY <1>1 DEF References
<1>2. ASSUME c \notin T, NEW r \in {c.id, c.name}, r \in References(T) PROVE FALSE
  <2>1. PICK d \in T : r \in {d.id, d.name}
    BY <1>2 DEF References
  <2>2. d \in Containers /\ c # d
    BY <1>2
  <2>3. {c.id, c.name} \cap {d.id, d.name} = {}
    BY <2>2, PolicyFileAssumption
  <2>4. QED
    BY <1>2, <2>1, <2>3
<1>3. QED
  BY <1>1, <1>2

\* Allowing some containers allows them, and leaves the others as they were.
LEMMA AllowAccess ==
    ASSUME NEW p \in Policies, NEW T \in SUBSET Containers, NEW c \in Containers
    PROVE  Access(AddContainerAllow(p, References(T)), c)
               = IF c \in T THEN "allowed" ELSE Access(p, c)
<1> DEFINE q == AddContainerAllow(p, References(T))
<1>1. /\ q.allow = p.allow \cup {Plain(r) : r \in References(T)}
      /\ q.deny = RemoveMatching(p.deny, References(T))
  BY DEF AddContainerAllow, Policies
<1>2. CASE c \in T
  <2>1. ~Mentions(q.deny, c)
    BY <1>1, <1>2, TargetsOnly DEF Mentions, RemoveMatching
  <2>2. Mentions(q.allow, c)
    <3>1. c.id \in References(T)
      BY <1>2, TargetsOnly
    <3>2. Plain(c.id) \in q.allow /\ Plain(c.id).ref = c.id
      BY <1>1, <3>1 DEF Plain
    <3>3. QED
      BY <3>2 DEF Mentions
  <2>3. QED
    BY <1>2, <2>1, <2>2 DEF Access
<1>3. CASE c \notin T
  <2>1. Mentions(q.deny, c) <=> Mentions(p.deny, c)
    BY <1>1, <1>3, TargetsOnly DEF Mentions, RemoveMatching
  <2>2. Mentions(q.allow, c) <=> Mentions(p.allow, c)
    BY <1>1, <1>3, TargetsOnly DEF Mentions, Plain
  <2>3. QED
    BY <1>3, <2>1, <2>2 DEF Access
<1>4. QED
  BY <1>2, <1>3

\* Denying some containers denies them, and leaves the others as they were.
LEMMA DenyAccess ==
    ASSUME NEW p \in Policies, NEW T \in SUBSET Containers, NEW c \in Containers
    PROVE  Access(AddContainerDeny(p, References(T)), c)
               = IF c \in T THEN "denied" ELSE Access(p, c)
<1> DEFINE q == AddContainerDeny(p, References(T))
<1>1. /\ q.deny = p.deny \cup {Plain(r) : r \in References(T)}
      /\ q.allow = RemoveMatching(p.allow, References(T))
  BY DEF AddContainerDeny, Policies
<1>2. CASE c \in T
  <2>1. c.id \in References(T)
    BY <1>2, TargetsOnly
  <2>2. Plain(c.id) \in q.deny /\ Plain(c.id).ref = c.id
    BY <1>1, <2>1 DEF Plain
  <2>3. Mentions(q.deny, c)
    BY <2>2 DEF Mentions
  <2>4. QED
    BY <1>2, <2>3 DEF Access
<1>3. CASE c \notin T
  <2>1. Mentions(q.deny, c) <=> Mentions(p.deny, c)
    BY <1>1, <1>3, TargetsOnly DEF Mentions, Plain
  <2>2. Mentions(q.allow, c) <=> Mentions(p.allow, c)
    BY <1>1, <1>3, TargetsOnly DEF Mentions, RemoveMatching
  <2>3. QED
    BY <1>3, <2>1, <2>2 DEF Access
<1>4. QED
  BY <1>2, <1>3

\* Edits of the containers leave the images alone, and the other way round.
LEMMA EditedLists ==
    ASSUME NEW p \in Policies, NEW cmd \in Commands
    PROVE  /\ ContainerCommand(cmd) =>
                  /\ Edited(p, cmd).imageAllow = p.imageAllow
                  /\ Edited(p, cmd).imageDeny = p.imageDeny
           /\ ImageCommand(cmd) =>
                  /\ Edited(p, cmd).allow = p.allow
                  /\ Edited(p, cmd).deny = p.deny
                  /\ Edited(p, cmd).imageAllow = p.imageAllow \cup {cmd.image}
                  /\ Edited(p, cmd).imageDeny = RemoveMatchingImage(p.imageDeny, cmd.image)
BY DEF ContainerCommand, ImageCommand, Edited, PolicyEntryMutation, AddContainerAllow,
       AddContainerDeny, AddImageAllow, Policies

\* A command gives the containers it is about their new access, and no others.
LEMMA EditedAccess ==
    ASSUME NEW p \in Policies, NEW cmd \in Commands, NEW c \in Containers
    PROVE  Access(Edited(p, cmd), c) = IF c \in About(cmd) THEN Outcome(cmd) ELSE Access(p, c)
<1>1. CASE ContainerCommand(cmd) /\ cmd.kind = "allow"
  <2>1. Edited(p, cmd) = AddContainerAllow(p, References(cmd.targets))
    BY <1>1 DEF Edited, PolicyEntryMutation
  <2>2. QED
    BY <1>1, <2>1, AllowAccess DEF ContainerCommand, About, Outcome
<1>2. CASE ContainerCommand(cmd) /\ cmd.kind = "deny"
  <2>1. Edited(p, cmd) = AddContainerDeny(p, References(cmd.targets))
    BY <1>2 DEF Edited, PolicyEntryMutation
  <2>2. QED
    BY <1>2, <2>1, DenyAccess DEF ContainerCommand, About, Outcome
<1>3. CASE ImageCommand(cmd)
  BY <1>3, EditedLists DEF ImageCommand, About, Access
<1>4. CASE InitCommand(cmd)
  <2>1. Edited(p, cmd) = cmd.template /\ cmd.template.allow = {} /\ cmd.template.deny = {}
    BY <1>4 DEF InitCommand, Edited
  <2>2. QED
    BY <1>4, <2>1 DEF InitCommand, About, Outcome, Access, Mentions
<1>5. QED
  BY <1>1, <1>2, <1>3, <1>4, CommandKinds DEF ContainerCommand

\* A command keeps the images that were kept and the one it allows.
LEMMA EditedKeeps ==
    ASSUME NEW p \in Policies, NEW cmd \in Commands, NEW i, cmd.kind # "init",
           Keeps(p, i) \/ i \in AboutImages(cmd)
    PROVE  Keeps(Edited(p, cmd), i)
<1>1. CASE ContainerCommand(cmd)
  BY <1>1, EditedLists DEF ContainerCommand, AboutImages, Keeps
<1>2. CASE ImageCommand(cmd)
  <2> DEFINE q == Edited(p, cmd)
  <2>1. /\ q.imageAllow = p.imageAllow \cup {cmd.image}
        /\ q.imageDeny = RemoveMatchingImage(p.imageDeny, cmd.image)
    BY <1>2, EditedLists
  <2>2. CASE i = cmd.image
    BY <2>1, <2>2 DEF Keeps, Lists, RemoveMatchingImage
  <2>3. CASE Keeps(p, i)
    BY <2>1, <2>3 DEF Keeps, Lists, RemoveMatchingImage
  <2>4. QED
    BY <1>2, <2>2, <2>3 DEF ImageCommand, AboutImages
<1>3. QED
  BY <1>1, <1>2, CommandKinds DEF InitCommand

\* An edit of a well-formed policy is well-formed.
LEMMA EditedType == ASSUME NEW p \in Policies, NEW cmd \in Commands PROVE Edited(p, cmd) \in Policies
<1>1. CASE ContainerCommand(cmd)
  <2>1. References(cmd.targets) \subseteq References(Containers)
    BY <1>1 DEF ContainerCommand, References
  <2>2. {Plain(r) : r \in References(cmd.targets)} \subseteq [ref : References(Containers), dressed : BOOLEAN]
    <3>1. ASSUME NEW r \in References(cmd.targets)
          PROVE  Plain(r) \in [ref : References(Containers), dressed : BOOLEAN]
      BY <2>1 DEF Plain
    <3>2. QED
      BY <3>1
  <2>3. QED
    BY <1>1, <2>2 DEF ContainerCommand, Edited, PolicyEntryMutation, AddContainerAllow,
                      AddContainerDeny, RemoveMatching, Policies
<1>2. CASE ImageCommand(cmd)
  BY <1>2 DEF ImageCommand, Edited, AddImageAllow, RemoveMatchingImage, Policies
<1>3. CASE InitCommand(cmd)
  BY <1>3 DEF InitCommand, Edited
<1>4. QED
  BY <1>1, <1>2, <1>3, CommandKinds

-----------------------------------------------------------------------------
(* Type correctness *)

LEMMA NoPolicyType == NoPolicy \in Policies
BY DEF NoPolicy, Policies

LEMMA IdleType == Idle \in Editor
BY NoPolicyType DEF Idle, Editor

LEMMA AboutType ==
    ASSUME NEW cmd \in Commands
    PROVE  /\ About(cmd) \subseteq Containers
           /\ AboutImages(cmd) \subseteq Images
           /\ Outcome(cmd) \in {"allowed", "denied", "unlisted"}
BY CommandKinds DEF ContainerCommand, ImageCommand, InitCommand, About, AboutImages, Outcome

LEMMA AccessType == \A p, c : Access(p, c) \in {"allowed", "denied", "unlisted"}
BY DEF Access

LEMMA InitType == Init => TypeOK
<1> SUFFICES ASSUME Init PROVE TypeOK
  OBVIOUS
<1>1. PICK p \in Handwritten : file = Whole(p) /\ told = [c \in Containers |-> Access(p, c)]
  BY DEF Init
<1>2. file \in [state : {"whole", "empty", "torn"}, policy : Policies]
  BY <1>1, PolicyFileAssumption DEF Whole
<1>3. told \in [Containers -> {"allowed", "denied", "unlisted"}]
  BY <1>1, AccessType
<1>4. editor \in [Editors -> Editor]
  BY IdleType DEF Init
<1>5. \A e \in Editors : editor[e].pc = "idle"
  BY DEF Init, Idle
<1>6. QED
  BY <1>2, <1>3, <1>4, <1>5 DEF Init, TypeOK

\* What TypeOK says of one editor.
LEMMA EditorType ==
    ASSUME TypeOK, NEW e \in Editors
    PROVE  /\ editor[e].policy \in Policies
           /\ editor[e].missed \subseteq Containers
           /\ editor[e].unseen \subseteq Images
           /\ editor[e].pc \in {"idle", "loaded", "open"}
           /\ editor[e].pc # "idle" => editor[e].cmd \in Commands
           /\ editor[e].cmd \in Commands \cup {NoCommand}
BY DEF TypeOK, Editor

LEMMA LoadType ==
    ASSUME TypeOK, NEW e \in Editors, NEW cmd \in Commands, Load(e, cmd)
    PROVE  TypeOK'
<1> DEFINE new == [pc |-> "loaded", cmd |-> cmd, policy |-> file.policy, missed |-> lost, unseen |-> forgot]
<1>1. new \in Editor
  BY DEF TypeOK, Editor
<1>2. editor' = [editor EXCEPT ![e] = new]
  BY DEF Load
<1>3. editor' \in [Editors -> Editor]
  BY <1>1, <1>2 DEF TypeOK
<1>4. \A f \in Editors : editor'[f].pc # "idle" => editor'[f].cmd \in Commands
  BY <1>2 DEF TypeOK
<1>5. QED
  BY <1>3, <1>4 DEF TypeOK, Load

LEMMA StopType ==
    ASSUME TypeOK, NEW e \in Editors, Cancel(e) \/ Kill(e)
    PROVE  TypeOK'
<1>1. editor' = [editor EXCEPT ![e] = Idle]
  BY DEF Cancel, Kill
<1>2. editor' \in [Editors -> Editor]
  BY <1>1, IdleType DEF TypeOK
<1>3. \A f \in Editors : editor'[f].pc # "idle" => editor'[f].cmd \in Commands
  BY <1>1 DEF TypeOK, Idle
<1>4. file' \in [state : {"whole", "empty", "torn"}, policy : Policies]
  BY NoPolicyType DEF TypeOK, Cancel, Kill, Torn
<1>5. QED
  BY <1>2, <1>3, <1>4 DEF TypeOK, Cancel, Kill

LEMMA TruncateType ==
    ASSUME TypeOK, NEW e \in Editors, Truncate(e)
    PROVE  TypeOK'
<1> DEFINE new == [editor[e] EXCEPT !.pc = "open", !.policy = Edited(editor[e].policy, editor[e].cmd)]
<1>1. editor[e].cmd \in Commands /\ editor[e].policy \in Policies
  BY EditorType DEF Truncate, At
<1>2. new \in Editor /\ new.cmd \in Commands
  <2>1. Edited(editor[e].policy, editor[e].cmd) \in Policies
    BY <1>1, EditedType
  <2>2. editor[e] \in Editor
    BY DEF TypeOK
  <2>3. new.cmd = editor[e].cmd
    BY <2>2 DEF Editor
  <2>4. new \in Editor
    BY <2>1, <2>2 DEF Editor
  <2>5. QED
    BY <1>1, <2>3, <2>4
<1>3. editor' = [editor EXCEPT ![e] = new]
  BY DEF Truncate
<1>4. editor' \in [Editors -> Editor]
  BY <1>2, <1>3 DEF TypeOK
<1>5. \A f \in Editors : editor'[f].pc # "idle" => editor'[f].cmd \in Commands
  BY <1>2, <1>3 DEF TypeOK
<1>6. file' \in [state : {"whole", "empty", "torn"}, policy : Policies]
  BY NoPolicyType DEF Truncate, Empty
<1>7. QED
  BY <1>4, <1>5, <1>6 DEF TypeOK, Truncate

\* What a write makes of the editors.
LEMMA WriteEditors ==
    ASSUME TypeOK, NEW e \in Editors, Write(e), NEW f \in Editors
    PROVE  /\ editor'[f] \in Editor
           /\ f = e => editor'[f].pc = "idle"
           /\ f # e =>
                  /\ editor'[f].pc = editor[f].pc
                  /\ editor'[f].cmd = editor[f].cmd
                  /\ editor'[f].policy = editor[f].policy
                  /\ editor[f].pc # "idle" =>
                         /\ editor'[f].missed = editor[f].missed \cup About(editor[e].cmd)
                         /\ editor'[f].unseen = editor[f].unseen \cup AboutImages(editor[e].cmd)
<1> DEFINE cmd == editor[e].cmd
           new == [editor[f] EXCEPT !.missed = @ \cup About(cmd), !.unseen = @ \cup AboutImages(cmd)]
<1>1. cmd \in Commands
  BY EditorType DEF Write, At
<1>2. editor'[f] = IF f = e THEN Idle ELSE IF At(f, "idle") THEN editor[f] ELSE new
  BY DEF Write
<1>3. editor[f] \in Editor
  BY DEF TypeOK
<1>4. /\ new \in Editor
      /\ new.pc = editor[f].pc /\ new.cmd = editor[f].cmd /\ new.policy = editor[f].policy
      /\ new.missed = editor[f].missed \cup About(cmd)
      /\ new.unseen = editor[f].unseen \cup AboutImages(cmd)
  BY <1>1, <1>3, AboutType DEF Editor
<1>5. CASE f = e
  BY <1>2, <1>5, IdleType DEF Idle
<1>6. CASE f # e /\ At(f, "idle")
  BY <1>2, <1>3, <1>6 DEF At
<1>7. CASE f # e /\ ~At(f, "idle")
  BY <1>2, <1>4, <1>7
<1>8. QED
  BY <1>5, <1>6, <1>7

LEMMA ExpectedType ==
    ASSUME TypeOK, NEW cmd \in Commands
    PROVE  /\ Expected(cmd) \in [Containers -> {"allowed", "denied", "unlisted"}]
           /\ ExpectedImages(cmd) \subseteq Images
<1>1. Expected(cmd) \in [Containers -> {"allowed", "denied", "unlisted"}]
  BY AboutType DEF Expected, TypeOK
<1>2. ExpectedImages(cmd) \subseteq Images
  BY CommandKinds DEF ContainerCommand, ImageCommand, InitCommand, ExpectedImages, TypeOK
<1>3. QED
  BY <1>1, <1>2

LEMMA WriteType ==
    ASSUME TypeOK, NEW e \in Editors, Write(e)
    PROVE  TypeOK'
<1> DEFINE cmd == editor[e].cmd
<1>1. cmd \in Commands /\ editor[e] \in Editor
  BY EditorType DEF Write, At, TypeOK
<1>2. editor' \in [Editors -> Editor]
  BY WriteEditors DEF Write
<1>3. \A f \in Editors : editor'[f].pc # "idle" => editor'[f].cmd \in Commands
  BY WriteEditors DEF TypeOK
<1>4. file' \in [state : {"whole", "empty", "torn"}, policy : Policies]
  <2>1. file' = Whole(editor[e].policy) \/ file' = Torn
    BY DEF Write
  <2>2. editor[e].policy \in Policies
    BY EditorType
  <2>3. QED
    BY <2>1, <2>2, NoPolicyType DEF Whole, Torn
<1>5. told' \in [Containers -> {"allowed", "denied", "unlisted"}] /\ listed' \subseteq Images
  BY <1>1, ExpectedType DEF Write
<1>6. lost' \subseteq Containers /\ forgot' \subseteq Images
  BY <1>1, EditorType DEF Write
<1>7. QED
  BY <1>2, <1>3, <1>4, <1>5, <1>6 DEF TypeOK

LEMMA NextType == TypeOK /\ [Next]_vars => TypeOK'
<1> SUFFICES ASSUME TypeOK, [Next]_vars PROVE TypeOK'
  OBVIOUS
<1>1. ASSUME NEW e \in Editors, NEW cmd \in Commands, Load(e, cmd) PROVE TypeOK'
  BY <1>1, LoadType
<1>2. ASSUME NEW e \in Editors, Cancel(e) \/ Truncate(e) \/ Write(e) \/ Kill(e) PROVE TypeOK'
  BY <1>2, StopType, TruncateType, WriteType
<1>3. CASE UNCHANGED vars
  BY <1>3 DEF vars, TypeOK
<1>4. QED
  BY <1>1, <1>2, <1>3 DEF Next

-----------------------------------------------------------------------------
(* The invariant *)

LEMMA InitSound == Init => IInv
<1> SUFFICES ASSUME Init PROVE IInv
  OBVIOUS
<1>1. PICK p \in Handwritten : file = Whole(p) /\ told = [c \in Containers |-> Access(p, c)]
  BY DEF Init
<1>2. LastCommandHolds
  BY <1>1 DEF LastCommandHolds, Whole
<1>3. FileSound
  BY <1>2 DEF FileSound, Init
<1>4. \A e \in Editors : ReadSound(e) /\ WriteSound(e)
  BY DEF Init, Idle, ReadSound, WriteSound, At
<1>5. QED
  BY <1>3, <1>4, InitType DEF IInv

\* A step of one editor that is not a write leaves the others as they are.
LEMMA OthersSound ==
    ASSUME IInv, NEW e \in Editors, NEW new, editor' = [editor EXCEPT ![e] = new],
           UNCHANGED <<told, listed>>, NEW f \in Editors, f # e
    PROVE  ReadSound(f)' /\ WriteSound(f)'
<1>1. editor'[f] = editor[f]
  BY DEF IInv, TypeOK
<1>2. (\A cmd : Expected(cmd)' = Expected(cmd)) /\ \A cmd : ExpectedImages(cmd)' = ExpectedImages(cmd)
  BY DEF Expected, ExpectedImages
<1>3. ReadSound(f) /\ WriteSound(f)
  BY DEF IInv
<1>4. ReadSound(f)'
  BY <1>1, <1>3 DEF ReadSound, At
<1>5. WriteSound(f)'
  BY <1>1, <1>2, <1>3 DEF WriteSound, At
<1>6. QED
  BY <1>4, <1>5

LEMMA LoadSound ==
    ASSUME IInv, NEW e \in Editors, NEW cmd \in Commands, Load(e, cmd)
    PROVE  IInv'
<1> DEFINE new == [pc |-> "loaded", cmd |-> cmd, policy |-> file.policy, missed |-> lost, unseen |-> forgot]
<1>1. editor' = [editor EXCEPT ![e] = new] /\ editor'[e] = new
  BY DEF Load, IInv, TypeOK
<1>2. FileSound'
  BY DEF Load, IInv, FileSound, LastCommandHolds
<1>3. ReadSound(e)'
  <2>1. cmd.kind # "init" => file.state = "whole"
    BY DEF Load
  <2>2. UNCHANGED <<told, listed>>
    BY DEF Load
  <2>3. QED
    BY <1>1, <2>1, <2>2 DEF ReadSound, At, IInv, FileSound, LastCommandHolds
<1>4. WriteSound(e)'
  BY <1>1 DEF WriteSound, At
<1>5. \A f \in Editors : f # e => ReadSound(f)' /\ WriteSound(f)'
  BY <1>1, OthersSound DEF Load
<1>6. QED
  BY <1>2, <1>3, <1>4, <1>5, LoadType DEF IInv

LEMMA StopSound ==
    ASSUME IInv, NEW e \in Editors, Cancel(e) \/ Kill(e)
    PROVE  IInv'
<1>1. editor' = [editor EXCEPT ![e] = Idle] /\ editor'[e].pc = "idle" /\ UNCHANGED <<told, listed, lost, forgot>>
  BY DEF Cancel, Kill, Idle, IInv, TypeOK
<1>2. FileSound'
  <2>1. file' = file \/ file'.state # "whole"
    BY DEF Cancel, Kill, Torn
  <2>2. QED
    BY <1>1, <2>1 DEF IInv, FileSound, LastCommandHolds
<1>3. ReadSound(e)' /\ WriteSound(e)'
  BY <1>1 DEF ReadSound, WriteSound, At
<1>4. \A f \in Editors : f # e => ReadSound(f)' /\ WriteSound(f)'
  BY <1>1, OthersSound
<1>5. QED
  BY <1>2, <1>3, <1>4, StopType DEF IInv

\* The edit: what a command was true to when it read, it is true to as it writes.
LEMMA TruncateSound ==
    ASSUME IInv, NEW e \in Editors, Truncate(e)
    PROVE  IInv'
<1> DEFINE cmd == editor[e].cmd
           q == Edited(editor[e].policy, cmd)
           new == [editor[e] EXCEPT !.pc = "open", !.policy = q]
<1>1. cmd \in Commands /\ editor[e].policy \in Policies /\ At(e, "loaded") /\ editor[e] \in Editor
  BY EditorType DEF Truncate, At, IInv, TypeOK
<1>2. UNCHANGED <<told, listed>> /\ editor' = [editor EXCEPT ![e] = new]
  BY DEF Truncate
<1>3. /\ editor'[e].pc = "open"
      /\ editor'[e].cmd = cmd
      /\ editor'[e].policy = q
      /\ editor'[e].missed = editor[e].missed
      /\ editor'[e].unseen = editor[e].unseen
  <2>1. editor'[e] = new
    BY <1>2 DEF IInv, TypeOK
  <2>2. QED
    BY <1>1, <2>1 DEF Editor
<1>4. Expected(cmd)' = Expected(cmd) /\ ExpectedImages(cmd)' = ExpectedImages(cmd)
  BY <1>2 DEF Expected, ExpectedImages
<1>5. ASSUME NEW c \in Containers, c \notin editor[e].missed \ About(cmd)
      PROVE  Access(q, c) = Expected(cmd)[c]
  <2>1. Access(q, c) = IF c \in About(cmd) THEN Outcome(cmd) ELSE Access(editor[e].policy, c)
    BY <1>1, EditedAccess
  <2>2. c \notin About(cmd) => Access(editor[e].policy, c) = told[c]
    <3>1. cmd.kind = "init" => c \in About(cmd)
      BY DEF About
    <3>2. ReadSound(e)
      BY DEF IInv
    <3>3. QED
      BY <1>1, <1>5, <3>1, <3>2 DEF ReadSound
  <2>3. QED
    BY <2>1, <2>2 DEF Expected
<1>6. ASSUME NEW i \in ExpectedImages(cmd), i \notin editor[e].unseen \ AboutImages(cmd)
      PROVE  Keeps(q, i)
  <2>1. cmd.kind # "init" /\ (i \in listed \/ i \in AboutImages(cmd))
    BY <1>1, <1>6, CommandKinds
       DEF ExpectedImages, AboutImages, ContainerCommand, ImageCommand, InitCommand
  <2>2. Keeps(editor[e].policy, i) \/ i \in AboutImages(cmd)
    <3>1. ReadSound(e)
      BY DEF IInv
    <3>2. QED
      BY <1>1, <1>6, <2>1, <3>1 DEF ReadSound
  <2>3. QED
    BY <1>1, <2>1, <2>2, EditedKeeps
<1>7. WriteSound(e)' /\ ReadSound(e)'
  BY <1>3, <1>4, <1>5, <1>6 DEF WriteSound, ReadSound, At
<1>8. FileSound'
  BY DEF Truncate, Empty, FileSound, LastCommandHolds
<1>9. \A f \in Editors : f # e => ReadSound(f)' /\ WriteSound(f)'
  BY <1>2, OthersSound
<1>10. QED
  BY <1>7, <1>8, <1>9, TruncateType DEF IInv

\* A write makes its command's outcome the expected one: the file is true to
\* it, and the commands that have not seen it have missed it.
LEMMA WriteSoundStep ==
    ASSUME IInv, NEW e \in Editors, Write(e)
    PROVE  IInv'
<1> DEFINE cmd == editor[e].cmd
<1>1. /\ cmd \in Commands /\ At(e, "open") /\ WriteSound(e)
      /\ file' = Whole(editor[e].policy) \/ file' = Torn
      /\ told' = Expected(cmd) /\ listed' = ExpectedImages(cmd)
      /\ lost' = editor[e].missed \ About(cmd)
      /\ forgot' = editor[e].unseen \ AboutImages(cmd)
  BY EditorType DEF Write, At, IInv
<1>2. FileSound'
  <2>1. CASE file' = Whole(editor[e].policy)
    BY <1>1, <2>1 DEF Whole, FileSound, LastCommandHolds, WriteSound
  <2>2. CASE file' = Torn
    BY <2>2 DEF Torn, FileSound, LastCommandHolds
  <2>3. QED
    BY <1>1, <2>1, <2>2
<1>3. ASSUME NEW f \in Editors PROVE ReadSound(f)' /\ WriteSound(f)'
  <2>1. CASE editor'[f].pc = "idle"
    BY <2>1 DEF ReadSound, WriteSound, At
  <2>2. CASE editor'[f].pc # "idle"
    <3>1. /\ f # e /\ editor[f].pc # "idle"
          /\ editor'[f].pc = editor[f].pc
          /\ editor'[f].cmd = editor[f].cmd
          /\ editor'[f].policy = editor[f].policy
          /\ editor'[f].missed = editor[f].missed \cup About(cmd)
          /\ editor'[f].unseen = editor[f].unseen \cup AboutImages(cmd)
      BY <2>2, WriteEditors DEF IInv
    <3>2. \A c \in Containers : c \notin About(cmd) => told'[c] = told[c]
      BY <1>1 DEF Expected
    <3>3. \A i \in listed' : i \notin AboutImages(cmd) => i \in listed
      BY <1>1, CommandKinds
         DEF ExpectedImages, AboutImages, ContainerCommand, ImageCommand, InitCommand
    <3>4. PICK k \in Commands : k = editor[f].cmd
      BY <3>1, EditorType DEF IInv
    <3>5. ReadSound(f) /\ WriteSound(f)
      BY DEF IInv
    <3>6. ReadSound(f)'
      BY <3>1, <3>2, <3>3, <3>5 DEF ReadSound, At
    <3>7. ASSUME At(f, "open"), NEW c \in Containers,
                 c \notin (editor[f].missed \cup About(cmd)) \ About(k)
          PROVE  Access(editor[f].policy, c) = Expected(k)'[c]
      <4>1. Access(editor[f].policy, c) = Expected(k)[c]
        BY <3>4, <3>5, <3>7 DEF WriteSound
      <4>2. QED
        BY <3>2, <3>7, <4>1 DEF Expected
    <3>8. ASSUME At(f, "open"), NEW i \in ExpectedImages(k)',
                 i \notin (editor[f].unseen \cup AboutImages(cmd)) \ AboutImages(k)
          PROVE  Keeps(editor[f].policy, i)
      <4>1. i \in ExpectedImages(k)
        BY <3>3, <3>8, CommandKinds
           DEF ExpectedImages, AboutImages, ContainerCommand, ImageCommand, InitCommand
      <4>2. QED
        BY <3>4, <3>5, <3>8, <4>1 DEF WriteSound
    <3>9. WriteSound(f)'
      <4>1. /\ At(f, "open")' <=> At(f, "open")
            /\ editor'[f].cmd = k
        BY <3>1, <3>4 DEF At
      <4>2. /\ Expected(editor[f].cmd)' = Expected(k)'
            /\ ExpectedImages(editor[f].cmd)' = ExpectedImages(k)'
        BY <4>1 DEF Expected, ExpectedImages
      <4>3. QED
        BY <3>1, <3>7, <3>8, <4>1, <4>2 DEF WriteSound
    <3>10. QED
      BY <3>6, <3>9
  <2>3. QED
    BY <2>1, <2>2
<1>4. QED
  BY <1>2, <1>3, WriteType DEF IInv

LEMMA StutterSound == ASSUME IInv, UNCHANGED vars PROVE IInv'
<1>1. TypeOK'
  BY NextType DEF IInv
<1>2. FileSound'
  BY DEF vars, IInv, FileSound, LastCommandHolds
<1>3. \A e \in Editors : ReadSound(e)' /\ WriteSound(e)'
  BY DEF vars, IInv, ReadSound, WriteSound, At, Expected, ExpectedImages
<1>4. QED
  BY <1>1, <1>2, <1>3 DEF IInv

\* IInv holds in every reachable state: the file, and the policy each command
\* holds in memory, are true to the commands it has seen the effect of.
THEOREM EditInvariance == Spec => []IInv
<1>1. ASSUME IInv, [Next]_vars PROVE IInv'
  <2>1. ASSUME NEW e \in Editors, NEW cmd \in Commands, Load(e, cmd) PROVE IInv'
    BY <1>1, <2>1, LoadSound
  <2>2. ASSUME NEW e \in Editors, Cancel(e) \/ Truncate(e) \/ Write(e) \/ Kill(e) PROVE IInv'
    BY <1>1, <2>2, StopSound, TruncateSound, WriteSoundStep
  <2>3. CASE UNCHANGED vars
    BY <1>1, <2>3, StutterSound
  <2>4. QED
    BY <1>1, <2>1, <2>2, <2>3 DEF Next
<1>2. QED
  BY InitSound, <1>1, PTL DEF Spec

\* psp discover allow and deny: the last command about a container that was not
\* overwritten decides its access, for every policy there was before.
THEOREM LastCommandDecides == Spec => []LastCommandHolds
<1>1. IInv => LastCommandHolds
  BY DEF IInv, FileSound
<1>2. QED
  BY <1>1, EditInvariance, PTL

\* psp images allow: an image stays allowed, but for denials without a colon.
THEOREM AllowedImageStays == Spec => []AllowedImageHolds
<1>1. IInv => AllowedImageHolds
  <2> SUFFICES ASSUME IInv, file.state = "whole", NEW i \in listed \ forgot
               PROVE  \/ ImageVerdict(file.policy, i) = "allowed"
                      \/ \E x \in file.policy.imageDeny :
                            ~HasColon(x) /\ NormalImage(x) = NormalImage(i)
    BY DEF AllowedImageHolds
  <2>1. Keeps(file.policy, i)
    BY DEF IInv, FileSound
  <2>2. QED
    BY <2>1 DEF Keeps, ImageVerdict, Lists
<1>2. QED
  BY <1>1, EditInvariance, PTL
=============================================================================
