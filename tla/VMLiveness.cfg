SPECIFICATION NeighbourSpec
CONSTANTS
    m1 = m1  m2 = m2  i1 = i1  i2 = i2
    NoID = NoID
    NoMachine = NoMachine
    Machines <- TwoMachines
    InstanceIDs <- TwoIDs
    ControlPlane <- OneMachine
    NameOf <- DistinctNames
    ClusterOf <- OneCluster
    MachineOnly = FALSE
    SyncedReads = TRUE
    MaxFaults = 1
    MaxMishaps = 0
    MaxPauses = 1
INVARIANTS
    OwnInstanceOnly
PROPERTIES
    DestroysOnlyOwn
    ProvisioningCompletes
    DeletionCompletes
