CONSTANTS
    GenesisAccounts <- MCGenesisAccounts
    NoBalance = NoBalance
    ProfileLoads = {TRUE, FALSE}
    ProfileValid = {TRUE, FALSE}
    OpenCreates = {TRUE, FALSE}
    StoreOk = {TRUE, FALSE}
    ConsensusOk = {TRUE, FALSE}
    ApiEnabled = TRUE
    MaxCrashes = 2
    ApiPorts = {3000, 8080}
    FetchLoads = {TRUE, FALSE}
    MaxStatusCalls = 2
SPECIFICATION Spec
INVARIANT TypeOK
INVARIANT CompleteMeansInitialized
PROPERTY DataDirRefined
