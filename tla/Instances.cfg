SPECIFICATION SpecBoth
CONSTANTS
    Ids = {c1, c2}
    Names = {}
    Sessions = {sp, sq}
    Clients = {sp}
    ClientsQ = {sq}
    Anonymous = sp
    Outsider = outsider
    None = none
    Handlers = {h1}
    handlerQ = h2
    Ops = {"create"}
    RequireSession = FALSE
    AllowList = {}
    DenyList = {}
    CreateName = none
    MaxLate = 0
    KeepChoices = {FALSE}
    Kinds = {"psp", "cleanup", "smoke"}
    KeepQ = {FALSE}
    MaxLateQ = 1
SYMMETRY Symmetry
INVARIANTS
    BothTypeOK
    BothInv
    OwnContainersKept
    SweepsTakePspOnly
    ShownAreSwept
    PassedSmokeTestIsClean
