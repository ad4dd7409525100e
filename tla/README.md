# PSP: models, checks and proofs

PSP (`podman-socket-proxy`) is a broker between test clients and a container
backend. It listens on a Unix socket, decides which Docker API calls a client
may make, labels the containers it creates, remembers them in memory, and
removes them when it ends or when it next starts. These modules state what that
takes to be right and check it: with TLC on small instances, and with TLAPS for
every number of containers, clients and handlers.

Line numbers refer to the files under `src/src/`.

## 1. Inventory

| Component | Source | State | Operations | Status |
|---|---|---|---|---|
| Request handler | `proxy.rs` | one request per handler (axum task) | accept, collect body, access check, policy, label, forward, track/untrack, answer | modelled (`Proxy`) |
| Session table | `session.rs` | `HashMap` container id -> session, behind a mutex, in memory only | track, untrack, is_tracked, list ids | modelled (`Proxy`) |
| Process lifecycle | `lib.rs`, `main.rs` | how far `serve_with_shutdown` is | ping, startup sweep, bind, serve, drain, cleanup | modelled (`Psp`) |
| Backend client | `backend.rs` | none (a connection pool) | send, with a 300 s limit and a 64 MiB limit | its outcomes (`Proxy`, `Psp`) |
| Container backend | outside the repository | containers with id, name, labels | create, remove, inspect, list | external (`Backend`) |
| Container access rule | `policy.rs` | loaded once, immutable while serving | managed, denylist, allowlist | modelled (`Proxy`, `PolicyEval`) |
| Create and image policy | `policy.rs` | as above | verdict on a create payload, on an image pull | modelled (`Policy`, `PolicyEval`) |
| Policy lists and file | `policy.rs`, `cli.rs` | a JSON file, edited by commands | load, allow, deny, init, save | modelled (`PolicyLists`, `PolicyFile`) |
| Endpoint table, paths | `paths.rs` | none | version prefix, supported endpoint, container reference | modelled (`Routes`, `PolicyEval`) |
| Response rewriting | `rewrite.rs` | none | published ports, list filter | modelled (`Routes`, `PolicyEval`) |
| Configuration | `config.rs` | resolved once per command | defaults, global file, project file, environment; project root | modelled (`Settings`) |
| CLI setup | `cli.rs` | configuration and policy files | `psp init`, which policy `discover` and `images` edit | modelled (`Settings`, `Setup`) |
| CLI maintenance | `cli.rs` | a process of its own | `psp cleanup`, `psp smoke-test` | modelled (`Instances`) |
| CLI display, audit, error bodies | `cli.rs`, `audit.rs`, `error.rs` | none | printing, logging | not modelled |

How they interact. Axum runs one task per request; the tasks share the session
table (a mutex held for one map operation at a time) and the backend client.
`serve_with_shutdown` runs the sweep before the socket exists and the cleanup
after the last connection has closed, so neither overlaps with handlers of the
same process. It overlaps with everything else: calls the previous process left
in the backend, other users of the backend, crashes, and other PSP processes:
a second PSP, `psp cleanup` and `psp smoke-test` use the same code on the same
containers. Commands and process also meet in files: `psp init`, `discover` and
`images` write what a later `psp run` reads.

What is hard: a handler gives up control at three awaits, and everything it
knew may have changed when it returns; a call may be executed although PSP
never hears of it (connection error, time limit, client gone, crash); the table
dies with the process; removals are best effort, their status is not read. The
policy file is read and written back whole, without a lock, by commands that
may wait for their user in between, and its entries have several spellings.
Which file that is depends on the directory, the environment and up to two
configuration files, and `discover` finds it in a way of its own. A request is
judged by its normalized path and forwarded as it came.
`PROJECT.json` lists each of these hazards at its line, with the properties
that cover it.

What makes each component right: the handler forwards only what the policy
allows and never loses the container it created; the table holds exactly what
PSP answers for; the lifecycle leaves nothing behind unless it was told to; every
request, start and stop ends; the policy answers with the first rule a create
breaks; the last command about a container or an image decides; the settings
of a repository are the same everywhere in it; and what a command allows or
sets up is what a PSP started afterwards serves.

## 2. Modules

    Backend                external: containers, names, labels, other users
      <- Proxy             request handler, session table, access rule
        <- Psp             process lifecycle; composes handlers, process, backend
          <- PspInvariants   the inductive strengthening
            <- PspCustody      the refinement mapping to Custody
              <- MCPsp           instances for TLC
            <- PspTypeProofs   TypeOK for all constants
              <- PspProofs       the safety properties for all constants
                <- PspCustodyProofs  Psp implements Custody, for all constants
      <- Instances         two processes (INSTANCE Psp twice), commands, one backend
        <- InstancesInvariants  the inductive strengthening
          <- MCInstances       an instance for TLC
          <- InstancesProofs   its properties for all constants (with PspProofs)
    Custody                abstract: whose hands each container is in

    PolicyLists            entries, what they match, how commands edit them
      <- Policy            the verdict on a request
        <- PolicyEval        the handler's decisions; reference definitions
          <- MCPolicyEval      policies, backends, requests for TLC
          <- PolicyEvalProofs  endpoints, versions and listing for all constants
            <- BindProofs        paths, images and the order of the rules
      <- PolicyFile        the file and the commands that edit it
        <- MCPolicyFile      an instance for TLC
        <- PolicyFileProofs  its properties for all constants
    Routes                 endpoint table, session header, rewriting
      <- PolicyEval

    Settings               Config::resolve, discovery_policy_path
      <- Setup             psp init, discover allow, images allow
        <- MCSetup           directories, environments and files for TLC
        <- SetupProofs       its properties for all constants

`Proxy` takes the verdict on a create as a choice of its own (both outcomes are
possible), and the kind of a request as an input, so the groups are checked
apart.

**Backend.** `status`, `name`, `label` per container id. `label[c]` stands for
the pair `io.psp.managed=true`, `io.psp.session=<s>`. `owner` is a history
variable: whose request created the container. `Put` and `Remove` are what
create and forced delete do; `Resolve` is what the backend makes of a reference.
Outsiders create unlabelled containers, under any free name, and remove any
container.

**Proxy.** `task[h]` is the local state of a running `proxy_request`, `tracked`
the session table. One action is the code between two awaits:

| `pc` | the handler waits for | then |
|---|---|---|
| `body` | the client's body (proxy.rs:90) | `BodyArrives`, `CreateBodyLabelled/Opaque/Denied`, `BodyFails` |
| `inspect` | the inspection of an untracked reference (:124) | `Inspect`, `InspectFails` |
| `send` | the forwarded call (:198) | `Backend*` execute it, or `CallFails` |
| `answered` | the answer, already decided by the backend | `Finish` (track, untrack, build the response), `AnswerLost` |
| `reply` | the client reading the response | `Deliver` |

`Disconnect` drops the handler at any await. `late` holds calls PSP stopped
waiting for and the backend may still execute. `stray` is a history variable:
containers that the code, by design, can not put into the table (their creation
was never answered to PSP, or the backend refused their removal).

**Psp.** `phase` follows `serve_with_shutdown`; `todo` is what the sweep's or the
cleanup's loop has still to remove; `keep` is `keep_on_failure` of this run.
`Halt` is the end of a process; `Start` begins the next.

**Custody, PspCustody.** The abstract specification has two variables: where
each container is (`absent`, `free`, `held` by a running PSP for a session,
`left` by one for a session, `gone`) and what the process is about (`off`, `on`,
`keep`, `done`). Containers change hands only by its actions: a fault may drop
one (`Drop`), a start takes over all that was left (`TakeOver`) or is blind
(`StartBlind`), an end without `keep_on_failure` needs empty hands (`Finish`).
`PspCustody` reads this off the phases, the table, the handlers and the labels.
A labelled container that a running PSP should hold and does not is at
`leaked`, a place Custody does not know: reaching it is no step of Custody.
`KeepsCustody` is the refinement, a property of a run and a theorem.

**Instances.** Two instances of `Psp` that share `store`: P is a PSP that
serves; Q is from run to run a second PSP, a `psp cleanup` or a
`psp smoke-test`. A cleanup lists, waits for its user, sweeps like any start
and reports what it listed at first. A smoke test has a router of its own and no
sweep or cleanup around it, creates a container and removes it, and passes by
the statuses it is answered. A cleanup's sweep is `startup_sweep`: nothing under
`keep_on_failure`, and no look at a removal's status. Each process's clients have one session of their
own, so that a property can tell whose container is whose; in the code the
session decides nothing else about a container.

**Routes, PolicyEval.** `Routes` has the pure functions between the socket and
the policy, and between the backend and the client. `PolicyEval` puts them
in the order of `proxy_request`: session rule, endpoint table, access rule,
verdict, then the rewritten answer. A path is its segments, a session header its
first 128 bytes, whether they are clean, and the rest.

**Settings, Setup.** `Settings` resolves the four layers, with every path
relative to what the code takes it to be relative to, and finds the project root
through `.git` directories and files; next to it `DiscoveryPolicyPath`, the
second reading of the same files. `Setup` has the commands that write them,
given one after the other, in any directory and environment. Which directories
belong together is git's business: `Repository` is the directory that git says
all checkouts share, independent of how the code looks for the root. Where the
code gives a checkout a root of its own (`OwnRoot`: a submodule, or a repository
whose git directory is stored elsewhere under another name than `.git`), its
worktrees have another one; `Alike` says which directories the properties
compare. A grant (`granted`) remembers what was allowed and the policy file that
was served where it was given; only a `psp init` that overwrites that very file
ends it.

**PolicyLists, Policy.** Lists are sets of entries, since order and repetition
decide nothing; the precomputed lists are functions of them, since `precompute`
follows every load and every edit. An image is its segments, tag and digest; a
path its components; a container entry a reference with or without slash and
blanks. `Checks` lists what `evaluate_container_create_inner` looks at, in its
order.

**Reference definitions in PolicyEval.** They are stated apart from the code:
`Under` cancels `..` against its neighbour until nothing is left, in any order
(the code folds over the components), `Meaning` takes an image apart (the code
completes it), `Broken` is the set of rules a payload breaks (the code returns
at the first), `DocumentedEndpoints` is the table of
docs/compatibility/testcontainers-profile.md. Two readings they have in common
with the code, since no document gives another: that a relative bind source is
one below the root, and which first segment of an image is a registry. Whether
these are right is not a question the runs can answer.

**PolicyFile.** One command is one process: `Load` (with the selection a dialog
offers), then `Cancel` or `Truncate`, then `Write` or `Kill`. `Truncate` and
`Write` are the two halves of `fs::write`. `told` and `listed` are what users
expect after the commands that ended; `missed`, `unseen`, `lost`, `forgot`
follow which of these an overlapping command did not see and overwrote.

Faults. Each property has a fault in the modules, named with a comment that
begins with "Fault": a plausible bug under which the property fails. They are
never part of `Next`; `PROJECT.json` pairs them with the definitions they would
replace.

## 3. Runs

| Run | Checks | Instance | States |
|---|---|---|---|
| `lifecycle` | type invariant, `NoLeak`, `CleanupCovers`, `Attribution`, `ReplyAfterTracking`, `ForwardedByIdAllowed`, `ForgetsOnlyRemoved`, the inductive `IInv` | 2 containers, a name that is freed and reused, 2 sessions, 2 handlers, creates, deletes and other calls, an allowlist with the name, required session ids, one abandoned call | 1.5 million |
| `liveness` | `RequestEnds`, `StartAndStopEnd`, `StaleAreRemoved`, the refinement `KeepsCustody`, `SweepTargets` | 2 containers, 1 handler whose clients have a session, creates and deletes, both values of keep, one abandoned call, restarts for ever | 45 thousand |
| `instances` | type invariant, the inductive `BothInv`, `OwnContainersKept`, `SweepsTakePspOnly`, `ShownAreSwept`, `PassedSmokeTestIsClean` | 2 containers, P and Q with 1 handler each, Q of every kind, one call of Q's abandoned | 1.8 million |
| `verdicts` | `FirstBrokenRule`, `ProfileIsServed`, `VersionsAreAlike`, `ManagedAreListed` | 29 policies, 2 backends; every bind path of up to 3 components, 7 image spellings, all combinations of the other rules; 5 methods and some 60 paths, each with and without a version, and 4 session headers | 0.2 million |
| `settings` | `OneConfigurationPerProject`, `GrantsAreServed`, `InitIsServed` | 2 commands in 8 directories (root, subdirectory, worktree, submodule, the submodule's worktree, separate git directory, lost git directory, none) and 4 environments, from 10 sets of files | 26 thousand |
| `policy_file` | `LastCommandHolds`, `AllowedImageHolds`, the inductive `IInv` | 2 commands at a time, 2 containers, an image in 2 spellings, 3 files written by hand | 1.0 million |
| `opaque_create` | violated: `CreateIsLabelled` | 1 container | |
| `reused_name` | violated: `ForwardedAllowed` | 2 containers, 1 name | |
| `exec_methods` | violated: `OnlyProfileIsServed` | as `verdicts`, one policy | |
| `reusable_listed` | violated: `ListedAreManaged` | as `verdicts`, one policy | |
| `cleanup_report` | violated: `ReportedAreGone` | 1 container, a PSP and a cleanup | |
| `root_bind` | violated: `RootAllowsAll` | a bind allowlist with `/` | |

What they show:

- `NoLeak`: without `keep_on_failure`, from the sweep's listing to a clean exit,
  every live labelled container is in the sweep's list, in the table, in the
  hands of a handler about to track it, or in `stray`. After a clean exit only
  strays are left. The strays are real: a client that disconnects during its
  create leaves one, and so does the 300 s limit.
- `StaleAreRemoved`: restarts repair that. If PSP is restarted for ever and in
  the end always without `keep_on_failure`, every labelled container, strays and
  those an earlier run kept included, is removed in the end. A start with
  `keep_on_failure` sweeps nothing (lib.rs:66);
  docs/operations/session-lifecycle.md:41 states the sweep without that exception.
- `CleanupCovers`: the cleanup reads the table once, after the drain, and that
  is enough; the fault that does not wait for the handlers breaks it.
- `ForgetsOnlyRemoved`, `Attribution`, `ReplyAfterTracking`: deletes by name,
  refused deletes, reused names and concurrent handlers never make the table
  forget, misattribute or miss a container. (A delete by name leaves an entry
  for a container that is gone; the entry is harmless because ids are not reused.)
- `ForwardedByIdAllowed`: the access check, made one await before the call,
  stays valid for requests by id. For requests by name it does not: that is the
  violated `ForwardedAllowed`.

- `KeepsCustody`: all of this together, from the outside. Whatever handlers,
  clients, outsiders, crashes and restarts do, a container in PSP's hands stays
  there for the same session until it is removed or one fault takes that one
  container away; a start without `keep_on_failure` takes over all that was left.
- `OwnContainersKept`, `SweepsTakePspOnly`: a second PSP or a cleanup sweeps
  containers the first one serves, which the code means to do; but the first one
  still accounts for every container of its clients that is alive, and no
  overlap of sweeps reaches a container PSP did not create.
- `ShownAreSwept`: between the list `psp cleanup` shows and the one it works
  off, a running PSP creates and others remove; a cleanup without
  `keep_on_failure` that comes to its end has still tried to remove all that it
  showed. That its report is true does not follow, and is not so: see
  `ReportedAreGone` below.
- `PassedSmokeTestIsClean`: a smoke test whose container another process sweeps
  fails, and one that passes leaves nothing.
- `ProfileIsServed`: every endpoint of the compatibility profile is served, with
  or without a version, but that a container can not be removed by the name json
  (paths.rs:44); and nothing is served beyond the profile but the two exec
  endpoints under other methods. (README.md:185-198 and
  docs/operations/runbook.md:151-157 give shorter lists than the profile; the
  profile is the one that names every endpoint the code serves on purpose.)
- `VersionsAreAlike`: a version in front of a path changes neither the decision
  nor the answer the client gets.
- `ManagedAreListed`: an answered listing shows every container PSP created, and
  each of them may be used whatever the policy's lists say. What else it shows is
  the subject of `ListedAreManaged` below. The listing itself is checked as if it
  named a container json (paths.rs:76) and may be refused on that container's
  account; the property speaks of listings that are answered.
- `OneConfigurationPerProject`: every directory of a repository, worktrees
  included, has the same settings. Exceptions, stated in the property: relative
  paths in the environment, a relative XDG_CONFIG_HOME, and the default policy
  path are taken from the working directory; and a submodule, or a repository
  whose git directory is stored elsewhere under another name than `.git`, is not
  alike with its worktrees: `resolve_root_from_git_file` (config.rs:319) makes it
  its own root, and three levels up from their git directory the root of theirs.
- `GrantsAreServed`: what `discover` and `images` allow is allowed by the next
  PSP in the repository, when the layer they edited is the highest that names a
  policy, and for as long as that file is the one served and no `psp init --force`
  overwrites it, whatever configuration is written in between. Otherwise it need not be: `discover` without `--project` edits the
  global policy also where a project's policy is served, and `policy.json` next
  to a global configuration that names none while PSP loads the default path.
- `InitIsServed`: `psp run` finds the policy `psp init` made. The property
  excludes what the code does not support: `init --project` below the root or in
  a worktree writes a `.psp.json` nobody reads; with a relative XDG_CONFIG_HOME the policy path
  it writes is resolved twice; without HOME it writes `.config/psp` files that
  are never read.
- `FirstBrokenRule`: under a policy whose bind allowlist has no entry for the
  root, a create is answered by the first rule it breaks in the
  order of docs/policy-reference.md, and allowed if it breaks none; the path and
  image normal forms agree with the reference definitions.
- `LastCommandHolds`, `AllowedImageHolds`: of a file that loads, the last
  command about a container decides its access and changes no other, in
  whatever spelling the lists held them; an allowed image stays allowed, unless
  a denial without a colon is left, which `remove_matching` keeps
  (policy.rs:524), or an overlapping command overwrote it. A command killed
  while it writes leaves a file that no command and no start loads.

The six violated properties are quoted from the documents, comments and messages:

- `opaque_create`: docs/operations/session-lifecycle.md:21 says that labels are
  injected into every create. Two parsers read the payload. The policy's skips unknown members
  without evaluating them; the one that injects labels reads everything, and
  when only that one fails the payload is forwarded unchanged (proxy.rs:107, 193).
- `reused_name`: docs/policy-reference.md says that a denied container is
  blocked "even if [it] would otherwise be accessible"; a name checked at one
  await may belong to another container at the next (proxy.rs:120 to 198).
- `exec_methods`: the profile gives `/exec/{id}/start` the method POST and
  `/exec/{id}/json` GET, and README.md:25 says that only the documented subset is
  accepted; the code takes the method and the end of the path apart
  (paths.rs:51-55), so `GET /exec/{id}/start` and `POST /exec/{id}/json` pass too.
- `reusable_listed`: the profile (line 41) and two comments (paths.rs:33,
  rewrite.rs:20) say that a listing holds managed containers only; it also holds
  those with the label `org.testcontainers` (rewrite.rs:61, for reuse, as the
  comment there explains). The access rule does not know that label, and may
  refuse what the listing shows.
- `cleanup_report`: `psp cleanup` says "Removed {} PSP-managed container(s)." of
  the list it showed (cli.rs:1828). Under `keep_on_failure` the sweep it called
  returned at once (lib.rs:66) and all of them are alive. A removal the backend
  refused is reported in the same way, since its status is not read.
- `root_bind`: `psp policy check` warns that `/` in the bind allowlist
  "effectively allows all bind mounts" (cli.rs:669). It allows `/` only: the
  prefix has to be followed by a slash (policy.rs:297).

Bounds. `MaxLate` limits the abandoned calls that are pending at a time; it is
the only bound on behaviour, and `MaxLate = 1` suffices for a late call to meet
every phase of the next process. Two containers and two handlers are the least
with which one handler's answer can meet another's delete, and a sweep can be
half done. An id names at most one container per execution, as in the backend;
a gone container is therefore the end of an id, and two ids suffice for
"removed and created anew under the same name". `lifecycle` uses symmetry in
handlers and ids (no list of its policy has an id), and starts without
`keep_on_failure`, under which `NoLeak` and `CleanupCovers` say nothing.
`liveness` has one handler at a time, since handlers wait for each
other nowhere (the table's mutex is not held across an await) and the drain for
each of them alike, and two
containers, so that a sweep of one can end at the other; that the refinement
holds with many handlers and sessions is the theorem `CustodyIsKept`.
`CreateName` is no name
of these instances (`none`): a container named create, which paths.rs:79 takes
for no reference, is in the theorems and, as a path, in `verdicts`.
`policy_file` uses symmetry in the
editors; its `Commands` name the first container alone or both, and one of the
two spellings of the image; the other spelling is in the hand-written lists. Two
editors are the least that overlap, and what a third one misses is what a
second one does. Three components are the shortest path in which `..` meets a
component, a root or another `..`. In `instances` one handler per process is
enough, since two handlers of one process are the subject of `lifecycle`; two
containers let one process sweep while the other creates. There clients only
create (Q's smoke test removes what it created), neither PSP keeps its
containers (a cleanup that does is the subject of `cleanup_report`), and only Q abandons a call
(`MaxLateQ = 1`, `MaxLate = 0`): what is executed late and in whose name is the
same question for P. The theorems about `Instances` have none of these bounds.
In `settings` the bound is `MaxCommands = 2`: what a third command sees are files
that two have written, and every grant and every setup is compared with the
files after one more command. `verdicts` has paths on both sides of
each edge of the endpoint table.

Deadlock is checked in every run but `settings`, where users may stop giving
commands.

## 4. Fairness

`FairSpec` uses weak fairness of

- `LimitReached`: a call the backend does not answer fails after 300 s
  (`BACKEND_TIMEOUT`, backend.rs:23, 42 and 116). That the backend answers is
  not assumed.
- `BodyEnds`: the client sends its body or goes away. The code has no time limit
  here (proxy.rs:90); this is an assumption about clients, and the drain at
  shutdown depends on it.
- `HandlerEnds`: a runnable task is scheduled, and the client reads its
  response or goes away.
- `BackendFails`, and the process's own steps.

`RestartedForEver`, the assumption of `StaleAreRemoved`, adds what an operator
provides: PSP is started again, told to stop in the end, from some time on
always with `keep_on_failure` off, and the backend does not fail the same call
of it for ever (strong fairness of `PingOk`, `ListManaged`, `RemoveNext`).

## 5. Proofs

Every type invariant, safety invariant and action property of a passing run is a
theorem, and so is the refinement; the theorems hold for all constants that
satisfy the assumptions named below. `PROJECT.json` lists them.

`PspTypeProofs` proves `TypeCorrect`, `PspProofs` the rest, from the assumptions
on the constants in `Backend`, `Proxy` and `Psp` only: ids and names are
disjoint, `None` and `Outsider` are different from everything else, the ops and
lists are of the right kind. Nothing is assumed finite.

None of the safety properties is inductive. `IInv` (`PspInvariants`) adds

- `RequestOK`: what a handler may have in its hands before the backend answers;
- `AnswerOK`: what the backend answered stays true of the backend;
- `LateOK`: an abandoned create still belongs to its session;
- `LabelsOK`: a label names the session whose request created the container;
- `PhasesOK`: no handler outside serve and drain, no table before, no list to
  work off outside sweep and cleanup. `CleanupCovers` and `NoLeak` need the
  first: after the drain nothing can enter the table;
- `OwnersOK`: a live container is an own client's or an outsider's. `NoLeak`
  speaks of all labelled containers and needs it; without it, in `SharedInv`,
  there is `OwnContainersKept`, which speaks of the own clients' only.

The argument rests on one lemma on the backend: every step *evolves* the store
(a container is created once, removed once, and keeps its label and owner while
it lives), and a store that evolves preserves what the other handlers know.
So an action needs to be examined only for the handler that acts.

`ForgetsOnlyRemoved` is an action property, proved from `IInv` and its type
part; `NoLeak`, `CleanupCovers` and the others follow from the invariant.

`PspCustodyProofs` proves the refinement, `CustodyIsKept`. Under `IInv` nothing
is ever at `leaked` (that is `NoLeak`), so the place of a container follows from
its status, its label and whether PSP accounts for it (`PlaceIs`), and while PSP
serves its session is its owner (`ServingSession`). Then every step of a handler,
a client, an outsider or a removal moves at most one container (`OnlyMoves`),
and one lemma per kind of move makes it a step of Custody (`Appear`, `Vanish`,
`Drop`). Many containers move in four steps only: the sweep's listing
(`TakeOver`), the drain under `keep_on_failure` (`Keep`), `Halt` (`Abort`), and
the clean exit, where nothing is left to move (`Finish`).

`PolicyEvalProofs` proves `VersionsAreAlike`, `ProfileIsServed` and
`ManagedAreListed` for every policy, backend, method, path and version, from
`RoutesAssumption` (versions are strings), `BackendsAssumption` (an id belongs
to one container and is nobody's name) and `RequestsAssumption` (the shape of a
request). The invariant is `DecisionInv`: the verdict and the reply are those
`Decision` and `Answer` give for the request at hand. The endpoint table and the
documented one are brought to the same form, by the number of segments
(`SupportedPaths`, `DocumentedPaths`), and compared there; that no verdict of
the policy is taken for "unsupported" needs `VerdictIsRule`.

`PolicyFileProofs` proves the two properties of `PolicyFile` for any number of
editors, containers and images and any policy before, from
`PolicyFileAssumption` (no two containers share an id or a name, templates list
no container). `LastCommandHolds` speaks of the file; its strengthening `IInv`
speaks of the policies in memory: a command that has read (`ReadSound`) is true
to every command it has not missed, and one that writes (`WriteSound`) is true
to what will be expected once it has. The lemmas on the lists
(`AllowAccess`, `DenyAccess`, `EditedKeeps`) say what an edit does to the access
of every container and to every image, for all spellings.

`BindProofs` proves `FirstBrokenRule` for all paths, image references, payloads
and policies, from `PoliciesAssumption` and `PayloadsAssumption` (what a parsed
policy and payload are made of). The reference `Leads` recurses over all ways to
cancel components, the code walks once from the left. Cancelling anywhere does
not change where the walk ends (`CancelledAlike`), and a path with nothing left
to cancel is walked to itself (`NothingToCancel`); so there is one place a path
leads to, the code's (`LeadsIsNormal`, by the shortest path for which it would
not hold). For images, a normal form is the meaning written out
(`NormalIsMeaning`), so two references have one normal form exactly if they mean
the same. That `SelectInSeq` returns the first check that fails (`FirstCheck`),
and that each check fails exactly if its rule is broken (`ChecksAgree`), gives
the order. An entry that leads to the root is left out of the property: it
allows the root only, which is what `root_bind` shows.

`InstancesProofs` proves the properties of `Instances` for any number of
containers, names, sessions and handlers of P and any kind of Q. P's invariant
`SharedInv` is `IInv` without `OwnersOK`, which others on the backend break.
The argument has two halves.

- What Q does is *harmless* to P: the store evolves, and no container of P's
  clients comes into being (`Harmless`). A harmless step that leaves P's
  variables alone preserves `SharedInv` (`StoreOnly`), by the lemma on which the
  proofs of `Psp` rest.
- What P does evolves the store too, and Q's knowledge (`QInv`) is stable under
  that: an id Q holds exists or existed (`AnswersHold`, `ListsAreOwn`,
  `SmokeOK`), and what is live of the list a cleanup has shown has PSP's label,
  so that the second listing finds it (`ShownOK`). Q's own steps are shown to
  keep the core `QCore`, which every kind of Q has; what a cleanup and a smoke
  test know besides (`ShownOK`, `SmokeOK`) is then dealt with step by step.

`PromisesBeside` and `TableForgetsOnlyRemovedBeside` conclude that what P
promises alone it also promises beside Q. `NoLeak` is not among them, and is
false there: a container of Q's is labelled and none of P's concern.
`OwnContainersKept` is what is left of it.

`SetupProofs` proves the properties of `Setup` for all directories,
environments, files and numbers of commands.

- `SettingsAreShared`: directories that are `Alike` have one project root
  (`RootIsShared`), because the root the code finds is a function of the
  directory git's checkouts share (`RootOfCommonDir`), except where the code gives
  a checkout a root of its own (`OwnRoot`), and then they are in that checkout.
  The root gives the files, the files the settings (`SameSettings`,
  `SettingIsFixed`).
- `EditedPolicyIsServed`: `discovery_policy_path` and `Config::resolve` lead to
  one file where the layer that the first reads names the policy
  (`ReadingsAgree`). The invariant `GrantsHeld` says that a grant is in the policy
  served where it was given, as long as that policy is the one served there.
- `InitialPolicyIsServed`: the invariant `SetUp` says that the files the last
  `psp init` wrote are there and name each other; `ProjectIsFound` and
  `GlobalIsFound` that the code finds them.

They use `GitAssumption` (paths are sequences of names; no `.git` file leads to a
directory of `/worktrees`, where the code fails) and `SetupAssumption` (directories are sequences of
names, a project's directories share a repository, an environment's directories
are paths). The root of a submodule or of a separately stored git directory is
compared with its own subdirectories only (`Alike`).

Only model-checked: the liveness properties `RequestEnds`, `StartAndStopEnd` and
`StaleAreRemoved`, because fairness is outside the prover's reach.

## 6. What is left out

- Renaming of a container and short ids: a short id behaves like a name that is
  never reused.
- More than two processes on one backend, and the socket path two of them may
  share: the second one removes the socket file of the first (lib.rs:194), which
  keeps its connections and gets no new ones.
- A client that sends `io.psp` labels of its own in a payload that only the
  typed parse accepts: a create forwarded unlabelled is unlabelled here.
- What root the worktrees of a submodule, or of a git directory stored under
  another name than `.git`, should have: they are modelled, with the root the code
  finds, and no document says whether it should be another. A submodule named
  `worktrees/...`, whose git directory looks like a worktree's, is not modelled.
- Empty segments in a path, and answers of the backend that are not JSON: the
  first are counted by some functions of paths.rs and not by others, the second
  pass unchanged.
- Commands that only read and print (status, ps, doctor, policy check and
  explain, search, completions), and an explicit `--policy`.
- The wording and headers of responses, logs, metrics, terminal output; JSON and
  query syntax.

## 7. Plan

Done: the core (`Psp`), its proofs, the policy and its file, two processes and
the maintenance commands, routes and rewriting, settings and setup, custody.

Worth adding next:

1. That restarts repair what is lost (`StaleAreRemoved`), as far as it is a
   safety property: what a sweep without `keep_on_failure` leaves live was
   refused or executed after its listing.
2. That `Instances` implements `Custody` for P's own containers.
3. The socket file of two processes, once a document says what the second one
   should do.
