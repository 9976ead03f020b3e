\* Servers one after another, or two at the same time; saves and loads may throw;
\* clients that register, and the prune at start.
CONSTANTS
    c1 = c1
    c2 = c2
    document = document
    Instances = {i1, i2}
    Requests = {r1, r2}
    Clients = {c1, c2}
    RegistryLimit = 1
    MaxIssues = 4
    MaxFailures = 1
    Scenarios <- ScenariosOf
    Registries <- RegistriesOf
SYMMETRY Symmetry
SPECIFICATION AuthSpec
INVARIANTS
    TypeOK
    
    GrantKeepsRefresh
    EndedStaysEnded
    MemoryMatchesDisk
    ClientCanGoOn
    ClientsOutliveTokens
