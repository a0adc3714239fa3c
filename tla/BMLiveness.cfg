SPECIFICATION BesideSpec
CONSTANTS
    m1 = m1  m2 = m2  s1 = s1  s2 = s2  v1 = v1  v2 = v2
    NoID = NoID
    NoMachine = NoMachine
    Machines <- OneMachine
    Foreign <- OtherMachine
    ServerIDs <- TwoIDs
    OtherMembers <- OneVM
    ControlPlane <- OneMachine
    WantsVPC <- OneMachine
    NameOf <- SameName
    ClusterOf <- OwnCluster
    MachineOnly = FALSE
    SyncedReads = TRUE
    MaxFaults = 1
    MaxMishaps = 0
    MaxPauses = 1
INVARIANTS
    OwnServerOnly
PROPERTIES
    DestroysOnlyOwn
    ProvisionedGetsProviderID
    DeletionCompletes
    ProvisioningCompletes
