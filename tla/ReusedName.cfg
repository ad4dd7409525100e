SPECIFICATION Spec
CONSTANTS
    Ids = {c1, c2}
    Names = {n1}
    Sessions = {anonymous}
    Clients = {anonymous}
    Anonymous = anonymous
    Outsider = outsider
    None = none
    Handlers = {h1}
    Ops = {"act"}
    RequireSession = FALSE
    AllowList = {}
    DenyList = {n1}
    CreateName = none
    MaxLate = 0
    KeepChoices = {FALSE}
INVARIANT
    ForwardedAllowed
