SPECIFICATION FairSpec
CONSTANTS
    Ids = {c1, c2}
    Names = {}
    Sessions = {s1, anonymous}
    Clients = {s1}
    Anonymous = anonymous
    Outsider = outsider
    None = none
    Handlers = {h1}
    Ops = {"create", "delete"}
    RequireSession = FALSE
    AllowList = {}
    DenyList = {}
    CreateName = none
    MaxLate = 1
    KeepChoices = {TRUE, FALSE}
INVARIANTS
    SweepTargets
PROPERTIES
    RequestEnds
    StartAndStopEnd
    StaleAreRemoved
    KeepsCustody
