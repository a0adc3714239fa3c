SPECIFICATION Spec
CONSTANTS
    lb1 = lb1  lb2 = lb2  lb3 = lb3  lb4 = lb4
    NoLB = NoLB
    LoadBalancers <- TwoLBs
    GivenLBs <- NoneGiven
    MaxFaults = 0
    MaxStale = 0
    MaxMishaps = 1
    MaxPauses = 1
INVARIANTS
    FinalizedLeavesNoLoadBalancer
