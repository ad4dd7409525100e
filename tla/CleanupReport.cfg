SPECIFICATION SpecBoth
CONSTANTS
    Ids = {c1}
    Names = {}
    Sessions = {sp, sq}
    Clients = {sp}
    ClientsQ = {sq}
    Anonymous = sp
    Outsider = outsider
    None = none
    Handlers = {h1}
    handlerQ = h2
    Ops = {"create"}
    RequireSession = FALSE
    AllowList = {}
    DenyList = {}
    CreateName = none
    MaxLate = 0
    KeepChoices = {FALSE}
    Kinds = {"cleanup"}
    KeepQ = {TRUE, FALSE}
    MaxLateQ = 0
INVARIANT
    ReportedAreGone
