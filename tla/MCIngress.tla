----------------------------- MODULE MCIngress ------------------------------
EXTENDS Ingress, TLC
MCConfigs == {[rollout |-> 100, minAcceptance |-> 7], [rollout |-> 100, minAcceptance |-> 0]}
MCStats == {[accepted |-> 4, completed |-> 1, failed |-> 3, cancelled |-> 0,
             pickupSeconds |-> 600, totalSeconds |-> 3600, idleDays |-> 2]}
MCSymmetry == Permutations(Requests) \cup Permutations(Posts)
=============================================================================
