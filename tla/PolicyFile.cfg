SPECIFICATION Spec
CONSTANTS
    Registries = {"docker.io"}
    Ported = {}
    Nothing = nothing
    e1 = e1
    e2 = e2
    Editors = {e1, e2}
    Containers <- MCContainers
    Images <- MCImages
    Commands <- MCCommands
    Handwritten <- MCHandwritten
    Templates <- MCTemplates
SYMMETRY Symmetry
INVARIANTS
    LastCommandHolds
    AllowedImageHolds
    IInv
