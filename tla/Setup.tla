------------------------------- MODULE Setup -------------------------------
(***************************************************************************)
(* The way to a policy that psp run finds and serves: the commands that     *)
(* write configuration and policy files, psp init, psp discover and psp     *)
(* images allow, given in any directory and environment, one after the       *)
(* other.  PolicyFile has commands that run at the same time.               *)
(***************************************************************************)
EXTENDS Settings

CONSTANTS
    Dirs,           \* directories commands are given in
    Project,        \* Project[d]: the name of d's repository
    Envs,           \* their environments: [config_home, home, runtime_dir, vars]
    Machines,       \* the files there may be at first: [configs, policies]
    MaxCommands     \* bound: commands

\* A directory that is not set is Absent.
IsEnv(env) ==
    \A dir \in {env.config_home, env.home, env.runtime_dir} :
        dir \in [form : {"absolute", "relative"}, comps : Seq(STRING)] \cup {Absent}

ASSUME SetupAssumption ==
    /\ Dirs \subseteq Seq(STRING)
    /\ \A c, d \in Dirs : Project[c] = Project[d] => Repository(c) = Repository(d)
    /\ \A env \in Envs : IsEnv(env)

VARIABLES
    configs,    \* configs[p]: the configuration file at p
    policies,   \* policies[p]: what the policy file at p allows
    granted,    \* what commands have said is allowed (history)
    setup,      \* the last psp init that wrote a configuration (history)
    commands    \* how many commands have been given (bound)

vars == <<configs, policies, granted, setup, commands>>

NoSetup == [done |-> FALSE]

Init ==
    /\ \E m \in Machines : configs = m.configs /\ policies = [p \in m.policies |-> {}]
    /\ granted = {}
    /\ setup = NoSetup
    /\ commands = 0

\* The file psp run loads its policy from (serve_with_shutdown).
ServedPolicy(cwd, env) == Place(cwd, Resolve(configs, cwd, env)["policy_path"])

-----------------------------------------------------------------------------
(* psp init *)

\* dirs_or_default.
ConfigDir(env) ==
    In(IF env.config_home # Absent THEN env.config_home
       ELSE IF env.home # Absent THEN In(env.home, Relative(<<".config">>))
       ELSE Relative(<<".config">>), Relative(<<"psp">>))

\* Fault: a global configuration names its policy the way a project does.
InitFilesRelative(cwd, env, project) ==
    IF project
    THEN [policy |-> cwd \o <<"policy", "default-policy.json">>, config |-> Append(cwd, ".psp.json"),
          names |-> Relative(<<"policy", "default-policy.json">>)]
    ELSE [policy |-> Append(Place(cwd, ConfigDir(env)), "policy.json"),
          config |-> Append(Place(cwd, ConfigDir(env)), "config.json"),
          names |-> Relative(<<"psp", "policy.json">>)]

\* Where psp init writes, and the policy path it writes to the configuration.
InitFiles(cwd, env, project) ==
    IF project
    THEN [policy |-> cwd \o <<"policy", "default-policy.json">>, config |-> Append(cwd, ".psp.json"),
          names |-> Relative(<<"policy", "default-policy.json">>)]
    ELSE [policy |-> Append(Place(cwd, ConfigDir(env)), "policy.json"),
          config |-> Append(Place(cwd, ConfigDir(env)), "config.json"),
          names |-> In(ConfigDir(env), Relative(<<"policy.json">>))]

\* A file that is there is left as it is, unless the command forces it.
Kept(files, place, force) == place \in DOMAIN files /\ ~force

\* The policy is made from a template that lists no container and, here, no
\* image; psp init does not read the settings.
PspInit(cwd, env, project, force) ==
    LET f == InitFiles(cwd, env, project) IN
    /\ commands < MaxCommands
    /\ commands' = commands + 1
    /\ policies' = IF Kept(policies, f.policy, force) THEN policies ELSE Over([p \in {f.policy} |-> {}], policies)
    /\ configs' = IF Kept(configs, f.config, force) THEN configs
                  ELSE Over([p \in {f.config} |-> [policy_path |-> f.names]], configs)
    /\ setup' = IF Kept(configs, f.config, force) THEN setup
                ELSE [done |-> TRUE, cwd |-> cwd, env |-> env, project |-> project, policy |-> f.policy]
    /\ granted' = {g \in granted : Kept(policies, f.policy, force) \/ g.served # f.policy}

-----------------------------------------------------------------------------
(* Commands that edit a policy *)

\* The layer a setting comes from.
Layer(key, cwd, env) ==
    IF key \in DOMAIN EnvConfig(env) THEN "environment"
    ELSE IF key \in DOMAIN FileLayer(configs, cwd, ProjectConfigPath(cwd)) THEN "project"
    ELSE IF key \in DOMAIN FileLayer(configs, cwd, GlobalConfigPath(env)) THEN "global"
    ELSE "defaults"

\* The policy is named by this layer, and by a path that is one file in every
\* directory.
NamedBy(layer, cwd, env) ==
    /\ layer \in {"environment", "project", "global"}
    /\ Resolves(configs, cwd, env)
    /\ Layer("policy_path", cwd, env) = layer
    /\ Resolve(configs, cwd, env)["policy_path"].form = "absolute"

\* A command that edits the policy a layer names, in the place where it finds it.
\* Its user relies on it if that is the layer psp run takes the policy from.
Grant(cwd, env, layer, place, what) ==
    /\ policies' = [policies EXCEPT ![place] = @ \cup {what}]
    /\ granted' =
           IF NamedBy(layer, cwd, env)
           THEN granted \cup {[cwd |-> cwd, env |-> env, served |-> ServedPolicy(cwd, env), what |-> what]}
           ELSE granted
    /\ UNCHANGED <<configs, setup>>

\* mutate_container_access: the backend is reached through a state built from
\* the policy PSP would serve, which must be there too.
DiscoverAllow(cwd, env, project) ==
    /\ commands < MaxCommands
    /\ commands' = commands + 1
    /\ Resolves(configs, cwd, env)
    /\ ServedPolicy(cwd, env) \in DOMAIN policies
    /\ LET path == DiscoveryPolicyPath(configs, cwd, env, project) IN
       /\ Exists(policies, cwd, path)
       /\ Grant(cwd, env, IF project THEN "project" ELSE "global", Place(cwd, path), "container")

\* allow_image.
ImagesAllow(cwd, env) ==
    /\ commands < MaxCommands
    /\ commands' = commands + 1
    /\ Resolves(configs, cwd, env)
    /\ ServedPolicy(cwd, env) \in DOMAIN policies
    /\ Grant(cwd, env, Layer("policy_path", cwd, env), ServedPolicy(cwd, env), "image")

Next ==
    \E cwd \in Dirs, env \in Envs :
        \/ ImagesAllow(cwd, env)
        \/ \E project \in BOOLEAN : DiscoverAllow(cwd, env, project)
        \/ \E project, force \in BOOLEAN : PspInit(cwd, env, project, force)

Spec == Init /\ [][Next]_vars

-----------------------------------------------------------------------------
(* Properties *)

\* The code gives the checkout a root of its own, which its worktrees, if it has
\* any, do not share: a submodule, or a git directory stored elsewhere under
\* another name than .git.
OwnGitDir(git) == git # NoGitDir /\ ~IsWorktree(git) /\ Last(git) # ".git"

OwnRoot(cwd) ==
    Checkouts(cwd) # {} /\ Checkout(cwd) \notin GitDirs /\ OwnGitDir(GitFiles[Checkout(cwd)])

\* Directories of one repository; where a checkout has a root of its own, of one
\* checkout.
Alike(c, d) ==
    /\ Project[c] = Project[d]
    /\ OwnRoot(c) \/ OwnRoot(d) => Checkout(c) = Checkout(d)

\* In every directory of a repository, in its worktrees too, a command has the
\* same settings: relative paths in configuration files are relative to those
\* files.  Only the default policy path, and a relative path in the environment,
\* depend on the directory (Config::resolve, resolve_root_from_git_file).  Not so
\* between a submodule, or a checkout whose git directory is stored under another
\* name than .git, and its worktrees: those are alike among themselves only.
OneConfigurationPerProject ==
    \A env \in {e \in Envs : "relative" \notin {GlobalConfigPath(e).form, e.runtime_dir.form}} :
        LET able == {d \in Dirs : Resolves(configs, d, env)}
            views == {[cwd |-> d, settings |-> Resolve(configs, d, env),
                       layer |-> Layer("policy_path", d, env)] : d \in able}
            fixed == {k \in Keys : k \in DOMAIN env.vars => env.vars[k].form # "relative"}
        IN  /\ \A c \in able, d \in Dirs : Alike(c, d) => d \in able
            /\ \A v, w \in views : Alike(v.cwd, w.cwd) =>
                   \A k \in fixed \ (IF v.layer = "defaults" THEN {"policy_path"} ELSE {}) :
                       Place(v.cwd, v.settings[k]) = Place(w.cwd, w.settings[k])

\* What psp discover and psp images have allowed is allowed by a PSP started
\* afterwards in any directory of the repository, when the layer they edited the
\* policy of was the highest that names one (discover reads the configuration
\* files in a way of its own, discovery_policy_path), and as long as psp run
\* loads the same policy there as it did, whatever psp init has written since,
\* unless it has overwritten that policy.
GrantsAreServed ==
    \A g \in granted :
        /\ Resolves(configs, g.cwd, g.env)
        /\ Resolve(configs, g.cwd, g.env)["policy_path"].form = "absolute"
        /\ ServedPolicy(g.cwd, g.env) = g.served
        => \A d \in {d \in Dirs : Alike(g.cwd, d)} :
               GlobalConfigPath(g.env).form # "relative" \/ d = g.cwd =>
               /\ ServedPolicy(d, g.env) = g.served /\ g.served \in DOMAIN policies
               /\ g.what \in policies[g.served]

\* Once psp init has written a configuration, psp run finds the policy it made,
\* in every directory where the layer it wrote to is the highest that names one;
\* for a project, if it ran at the root (psp_init, Config::resolve).
InitIsServed ==
    setup.done =>
        \A d \in Dirs :
            /\ IF setup.project THEN setup.cwd \in GitDirs /\ Project[d] = Project[setup.cwd]
               ELSE GlobalConfigPath(setup.env).form = "absolute"
            /\ NamedBy(IF setup.project THEN "project" ELSE "global", d, setup.env)
            => /\ ServedPolicy(d, setup.env) = setup.policy
               /\ setup.policy \in DOMAIN policies
=============================================================================
