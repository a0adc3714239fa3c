--------------------------- MODULE MCVultrCluster ---------------------------
(* Small instances of VultrCluster for TLC.                                 *)
EXTENDS VultrCluster

CONSTANTS lb1, lb2, lb3, lb4

NoneGiven == {}
OneGiven == {lb1}
TwoLBs == {lb1, lb2}
FourLBs == {lb1, lb2, lb3, lb4}
=============================================================================
