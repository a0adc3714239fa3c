SPECIFICATION EarlySpec
CONSTANTS
    m1 = m1  m2 = m2  i1 = i1  i2 = i2
    NoID = NoID
    NoMachine = NoMachine
    Machines <- OneMachine
    InstanceIDs <- TwoIDs
    ControlPlane <- OneMachine
    NameOf <- DistinctNames
    ClusterOf <- OneCluster
    MachineOnly = FALSE
    SyncedReads = FALSE
    MaxFaults = 2
    MaxMishaps = 1
    MaxPauses = 0
SYMMETRY Symmetry
INVARIANTS
    TypeOK
    AtMostOneInstance
    FinalizedLeavesNoInstance
    ProvisionedHasProviderID
    ProvisionedIsMember
PROPERTIES
    TerminalIsSticky
    NeverRecreated
    ImplementsLifecycle
