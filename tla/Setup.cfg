SPECIFICATION Spec
CONSTANTS
    Dirs <- MCDirs
    Project <- MCProject
    GitDirs <- MCGitDirs
    GitFiles <- MCGitFiles
    Envs <- MCEnvs
    Machines <- MCMachines
    MaxCommands = 2
INVARIANTS
    OneConfigurationPerProject
    GrantsAreServed
    InitIsServed
CHECK_DEADLOCK FALSE
