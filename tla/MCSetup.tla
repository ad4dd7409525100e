------------------------------ MODULE MCSetup ------------------------------
(* Instances of Setup: a repository with a worktree and a submodule, which    *)
(* has a worktree too, one whose git directory is elsewhere, one that is      *)
(* lost, and a plain directory.                                               *)
EXTENDS Setup

Repo == <<"repo">>
Sub == <<"repo", "src">>
Worktree == <<"worktree">>
Module == <<"repo", "module">>
ModuleTree == <<"moduletree">>
Separate == <<"separate">>
Lost == <<"lost">>
Plain == <<"plain">>

MCGitDirs == {Repo}

MCGitFiles ==
    (Worktree :> <<"repo", ".git", "worktrees", "worktree">>) @@
    (Module :> <<"repo", ".git", "modules", "module">>) @@
    (ModuleTree :> <<"repo", ".git", "modules", "module", "worktrees", "moduletree">>) @@
    (Separate :> <<"store", ".git">>) @@
    (Lost :> NoGitDir)

MCProject ==
    (Repo :> "repo") @@ (Sub :> "repo") @@ (Worktree :> "repo") @@ (Module :> "module")
    @@ (ModuleTree :> "module")
    @@ (Separate :> "separate") @@ (Lost :> "lost") @@ (Plain :> "none")

MCDirs == DOMAIN MCProject

Vars(policy) == [policy_path |-> policy, require_session_id |-> Word("on"), keep_on_failure |-> Word("yes")]

Env(config_home, home, runtime_dir, overrides) ==
    [config_home |-> config_home, home |-> home, runtime_dir |-> runtime_dir, vars |-> overrides]

Home == Absolute(<<"home">>)
Xdg == Absolute(<<"xdg">>)

\* Services without a home, an environment that overrides, and one whose
\* directories are relative.
MCEnvs ==
    {Env(Absent, Home, Absent, <<>>),
     Env(Xdg, Home, Absolute(<<"runtime">>), Vars(Absolute(<<"policy.json">>))),
     Env(Relative(<<"xdg">>), Home, Absent, <<>>),
     Env(Absent, Absent, Absent, Vars(Relative(<<"policy.json">>)))}

GlobalConfigs ==
    {[policy_path |-> Relative(<<"global.json">>), listen_socket |-> Relative(<<"psp.sock">>)],
     [backend |-> Relative(<<"podman.sock">>), require_session_id |-> Word(TRUE)]}

ProjectConfigs ==
    {[policy_path |-> Relative(<<"policy", "project.json">>), backend |-> Word("http")],
     [advertised_host |-> Word("docker")],
     [policy_path |-> Absolute(<<"policy.json">>), backend |-> Word("ftp")]}

Global(config) == <<"home", ".config", "psp", "config.json">> :> config
InProject(config) == <<"repo", ".psp.json">> :> config

MCMachines ==
    [configs : {<<>>, Global(Unparsable)} \cup {Global(g) : g \in GlobalConfigs}
                   \cup {InProject(p) @@ Global(g) : p \in ProjectConfigs, g \in GlobalConfigs},
     policies : {{<<"policy.json">>, <<"repo", "policy", "project.json">>,
                  <<"home", ".config", "psp", "global.json">>}}]
=============================================================================
