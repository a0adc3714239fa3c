SPECIFICATION FairSpec
CONSTANTS
    lb1 = lb1  lb2 = lb2  lb3 = lb3  lb4 = lb4
    NoLB = NoLB
    LoadBalancers <- FourLBs
    GivenLBs <- OneGiven
    MaxFaults = 1
    MaxStale = 1
    MaxMishaps = 1
    MaxPauses = 1
INVARIANTS
    TypeOK
    OneMorePerFault
    LeavesOnePerFault
PROPERTIES
    OneLoadBalancer
    EndpointStable
    NeverRecreated
    ProvisioningCompletes
    UndisturbedDeletionCompletes
