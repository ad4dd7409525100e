SPECIFICATION Spec
CONSTANTS
    Ids = {c1, c2}
    Names = {n1}
    Sessions = {s1, anonymous}
    Clients = {s1, anonymous}
    Anonymous = anonymous
    Outsider = outsider
    None = none
    Handlers = {h1, h2}
    Ops = {"create", "delete", "other"}
    RequireSession = TRUE
    AllowList = {n1}
    DenyList = {}
    CreateName = none
    MaxLate = 1
    KeepChoices = {FALSE}
SYMMETRY Symmetry
INVARIANTS
    TypeOK
    NoLeak
    CleanupCovers
    Attribution
    ReplyAfterTracking
    ForwardedByIdAllowed
    IInv
PROPERTY
    ForgetsOnlyRemoved
