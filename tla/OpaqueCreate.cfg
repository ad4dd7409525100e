SPECIFICATION Spec
CONSTANTS
    Ids = {c1}
    Names = {}
    Sessions = {s1, anonymous}
    Clients = {s1, anonymous}
    Anonymous = anonymous
    Outsider = outsider
    None = none
    Handlers = {h1}
    Ops = {"create"}
    RequireSession = FALSE
    AllowList = {}
    DenyList = {}
    CreateName = none
    MaxLate = 0
    KeepChoices = {FALSE}
INVARIANT
    CreateIsLabelled
