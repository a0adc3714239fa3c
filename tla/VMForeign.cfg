SPECIFICATION LateSpec
CONSTANTS
    m1 = m1  m2 = m2  i1 = i1  i2 = i2
    NoID = NoID
    NoMachine = NoMachine
    Machines <- TwoMachines
    InstanceIDs <- TwoIDs
    ControlPlane <- NoMachines
    NameOf <- SameName
    ClusterOf <- TwoClusters
    MachineOnly = FALSE
    SyncedReads = TRUE
    MaxFaults = 1
    MaxMishaps = 0
    MaxPauses = 0
SYMMETRY Symmetry
INVARIANTS
    OwnInstanceOnly
