SPECIFICATION LateSpec
CONSTANTS
    m1 = m1  m2 = m2  i1 = i1  i2 = i2
    NoID = NoID
    NoMachine = NoMachine
    Machines <- OneMachine
    InstanceIDs <- TwoIDs
    ControlPlane <- NoMachines
    NameOf <- DistinctNames
    ClusterOf <- OneCluster
    MachineOnly = TRUE
    SyncedReads = FALSE
    MaxFaults = 0
    MaxMishaps = 0
    MaxPauses = 0
SYMMETRY Symmetry
INVARIANTS
    GoneLeavesNoInstance
