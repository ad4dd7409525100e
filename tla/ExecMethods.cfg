SPECIFICATION Spec
CONSTANTS
    Registries = {"docker.io", "ghcr.io", "localhost:5000"}
    Ported = {"localhost:5000"}
    Nothing = nothing
    Versions = {"v1", "v1.41"}
    AdvertisedHost = "127.0.0.1"
    RequireSession = TRUE
    Backends <- MCBackends
    Policies <- RootPolicies
    Requests <- MCRequests
INVARIANT
    OnlyProfileIsServed
