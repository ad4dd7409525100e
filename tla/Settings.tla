------------------------------ MODULE Settings ------------------------------
(***************************************************************************)
(* How a psp command finds its settings (src/config.rs), and how discover  *)
(* finds the policy file it edits (src/cli.rs): two readings of the same    *)
(* configuration files.                                                    *)
(*                                                                         *)
(* A value of a setting is a path, absolute or relative, or a word.  A unix *)
(* backend is its path, any other backend a word, its scheme.  A file is    *)
(* known by its place: the components from the root.                       *)
(***************************************************************************)
EXTENDS SequencesExt

CONSTANTS
    GitDirs,    \* directories that hold a .git directory
    GitFiles    \* GitFiles[d]: the git directory that d's .git file leads to

\* What a .git file that leads nowhere leads to.
NoGitDir == <<>>

Absolute(place) == [form |-> "absolute", comps |-> place]
Relative(comps) == [form |-> "relative", comps |-> comps]
Word(word) == [form |-> "word", comps |-> <<word>>]
Absent == [form |-> "none", comps |-> <<>>]

\* Path::join and resolve_path.
In(dir, value) ==
    IF value.form = "relative" THEN [dir EXCEPT !.comps = @ \o value.comps] ELSE value

Parent(path) == [path EXCEPT !.comps = Front(@)]

\* The file a path means to a process.
Place(cwd, path) == In(Absolute(cwd), path).comps

-----------------------------------------------------------------------------
(* Layers: functions from settings to values *)

Switches == {"keep_on_failure", "require_session_id"}

Keys == Switches \cup {"listen_socket", "backend", "policy_path", "advertised_host"}

\* A text that is no configuration: not JSON, or a setting given twice.
Unparsable == [unparsable |-> Absent]

Parses(config) == "unparsable" \notin DOMAIN config

\* f, and g where f has nothing (the @@ of module TLC, which the provers do not
\* know).
Over(f, g) == [k \in DOMAIN f \cup DOMAIN g |-> IF k \in DOMAIN f THEN f[k] ELSE g[k]]

Yes == {"1", "true", "TRUE", "yes", "YES"}
No == {"0", "false", "FALSE", "no", "NO"}

Defaults(env) ==
    [listen_socket |-> Absolute(<<"tmp", "psp.sock">>),
     backend |-> In(IF env.runtime_dir # Absent THEN env.runtime_dir
                    ELSE Absolute(<<"run", "user", "uid">>),
                    Relative(<<"podman", "podman.sock">>)),
     policy_path |-> Relative(<<"policy", "default-policy.json">>),
     advertised_host |-> Word("127.0.0.1"),
     keep_on_failure |-> Word(FALSE),
     require_session_id |-> Word(FALSE)]

\* apply_file: paths are relative to the file.
FromFile(config, path) == [k \in DOMAIN config |-> In(Parent(path), config[k])]

\* EnvConfig::from_process: a switch with an unknown word is not set.
EnvConfig(env) ==
    [k \in {k \in DOMAIN env.vars : k \in Switches => Head(env.vars[k].comps) \in Yes \cup No} |->
        IF k \in Switches THEN Word(Head(env.vars[k].comps) \in Yes) ELSE env.vars[k]]

\* Paths in the environment are left as they are.
ApplyEnv(env, settings) == Over(EnvConfig(env), settings)

\* BackendConfig::parse.
BackendParses(backend) == backend.form = "word" => Head(backend.comps) \in {"http", "https"}

-----------------------------------------------------------------------------
(* Where the files are *)

GlobalConfigPath(env) ==
    IF env.config_home # Absent THEN In(env.config_home, Relative(<<"psp", "config.json">>))
    ELSE IF env.home # Absent THEN In(env.home, Relative(<<".config", "psp", "config.json">>))
    ELSE Absent

\* Fault: a worktree is a project of its own.
RootFromOwnFile(dir) == Absolute(dir)

\* resolve_root_from_git_file: a worktree shares the root of its repository, a
\* submodule has its own.
RootFromGitFile(dir) ==
    LET git == GitFiles[dir] IN
    IF Last(git) = ".git" THEN Absolute(Front(git))
    ELSE IF Len(git) > 1 /\ Last(Front(git)) = "worktrees" THEN Absolute(SubSeq(git, 1, Len(git) - 3))
    ELSE Absolute(dir)

Checkouts(cwd) == {k \in 0..Len(cwd) : SubSeq(cwd, 1, k) \in GitDirs \cup DOMAIN GitFiles}

\* The nearest one upward.
Checkout(cwd) == SubSeq(cwd, 1, Max(Checkouts(cwd)))

\* discover_project_root.
ProjectRoot(cwd) ==
    IF Checkouts(cwd) = {} THEN Absent
    ELSE IF Checkout(cwd) \in GitDirs THEN Absolute(Checkout(cwd))
    ELSE RootFromGitFile(Checkout(cwd))

\* The git directory of a worktree of C is C/worktrees/w. (So is that of a
\* submodule named worktrees/w: such names are left out.)
IsWorktree(git) == Len(git) > 2 /\ git[Len(git) - 1] = "worktrees" /\ Last(git) # ".git"

\* The repository git finds: the directory all its checkouts share (git
\* rev-parse --git-common-dir).
CommonDir(checkout) ==
    IF checkout \in GitDirs THEN Append(checkout, ".git")
    ELSE IF IsWorktree(GitFiles[checkout])
    THEN SubSeq(GitFiles[checkout], 1, Len(GitFiles[checkout]) - 2)
    ELSE GitFiles[checkout]

Repository(cwd) ==
    IF Checkouts(cwd) = {} THEN Absent ELSE Absolute(CommonDir(Checkout(cwd)))

\* A .git file does not lead to a directory of /worktrees: there, the code fails.
ASSUME GitAssumption ==
    /\ GitDirs \subseteq Seq(STRING)
    /\ \A k \in DOMAIN GitFiles :
           /\ GitFiles[k] \in Seq(STRING)
           /\ Len(GitFiles[k]) = 2 => GitFiles[k][1] # "worktrees"

RootIsFound(cwd) ==
    Checkouts(cwd) # {} /\ Checkout(cwd) \notin GitDirs => GitFiles[Checkout(cwd)] # NoGitDir

ProjectConfigPath(cwd) ==
    IF ProjectRoot(cwd) = Absent THEN Absent ELSE In(ProjectRoot(cwd), Relative(<<".psp.json">>))

-----------------------------------------------------------------------------
(* Config::resolve *)

Exists(files, cwd, path) == path # Absent /\ Place(cwd, path) \in DOMAIN files

FileLayer(configs, cwd, path) ==
    IF Exists(configs, cwd, path) THEN FromFile(configs[Place(cwd, path)], path) ELSE <<>>

\* The error of a command whose settings cannot be resolved.
Unresolved == [error |-> Absent]

\* Later layers go over earlier ones.
Resolve(configs, cwd, env) ==
    IF /\ RootIsFound(cwd)
       /\ \A path \in {GlobalConfigPath(env), ProjectConfigPath(cwd)} :
              Exists(configs, cwd, path) => Parses(configs[Place(cwd, path)])
    THEN LET settings == ApplyEnv(env, Over(FileLayer(configs, cwd, ProjectConfigPath(cwd)),
                                            Over(FileLayer(configs, cwd, GlobalConfigPath(env)),
                                                 Defaults(env))))
         IN  IF BackendParses(settings["backend"]) THEN settings ELSE Unresolved
    ELSE Unresolved

Resolves(configs, cwd, env) == "error" \notin DOMAIN Resolve(configs, cwd, env)

-----------------------------------------------------------------------------
(* discovery_policy_path *)

\* policy_path_from_config_file.
NamedPolicy(configs, cwd, path) ==
    IF Exists(configs, cwd, path) /\ "policy_path" \in DOMAIN configs[Place(cwd, path)]
    THEN In(Parent(path), configs[Place(cwd, path)]["policy_path"])
    ELSE Absent

GlobalPolicyPath(configs, cwd, env) ==
    LET path == GlobalConfigPath(env)
        named == NamedPolicy(configs, cwd, path)
    IN  IF named # Absent THEN named
        ELSE IF path # Absent THEN In(Parent(path), Relative(<<"policy.json">>))
        ELSE Resolve(configs, cwd, env)["policy_path"]

\* Absent: not in a project, an error.
ProjectPolicyPath(configs, cwd) ==
    LET named == NamedPolicy(configs, cwd, ProjectConfigPath(cwd)) IN
    IF named # Absent THEN named
    ELSE IF ProjectRoot(cwd) = Absent THEN Absent
    ELSE In(ProjectRoot(cwd), Relative(<<"policy", "default-policy.json">>))

\* Fault: --project makes no difference.
DiscoveryInGlobal(configs, cwd, env, project) == GlobalPolicyPath(configs, cwd, env)

DiscoveryPolicyPath(configs, cwd, env, project) ==
    IF project THEN ProjectPolicyPath(configs, cwd) ELSE GlobalPolicyPath(configs, cwd, env)
=============================================================================
