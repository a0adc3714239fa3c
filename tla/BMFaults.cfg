SPECIFICATION StartedSpec
CONSTANTS
    m1 = m1  m2 = m2  s1 = s1  s2 = s2  v1 = v1  v2 = v2
    NoID = NoID
    NoMachine = NoMachine
    Machines <- OneMachine
    Foreign <- NoMachines
    ServerIDs <- TwoIDs
    OtherMembers <- TwoVMs
    ControlPlane <- OneMachine
    WantsVPC <- OneMachine
    NameOf <- SameName
    ClusterOf <- OwnCluster
    MachineOnly = FALSE
    SyncedReads = FALSE
    MaxFaults = 1
    MaxMishaps = 1
    MaxPauses = 0
SYMMETRY Symmetry
INVARIANTS
    TypeOK
    ProvisionedIsConnected
PROPERTIES
    ImplementsLifecycle
    LeavesLoadBalancerFirst
    ProvisionedIsStable
    TerminalIsSticky
