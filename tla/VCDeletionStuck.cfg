SPECIFICATION FairSpec
CONSTANTS
    lb1 = lb1  lb2 = lb2  lb3 = lb3  lb4 = lb4
    NoLB = NoLB
    LoadBalancers <- TwoLBs
    GivenLBs <- NoneGiven
    MaxFaults = 1
    MaxStale = 0
    MaxMishaps = 0
    MaxPauses = 0
PROPERTIES
    DeletionCompletes
