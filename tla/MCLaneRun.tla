----------------------------- MODULE MCLaneRun -----------------------------
EXTENDS LaneRun, TLC
CONSTANTS l1, l2, r1, c1, c2, k1
\* Both lanes declare the one resource.
SharedResource == l1 :> {r1} @@ l2 :> {r1}
\* One lane with one resource.
OneLane == l1 :> {r1}
ControllerSymmetry == Permutations(Controllers)
\* The lanes of SharedResource are interchangeable too.
LaneSymmetry == ControllerSymmetry \cup Permutations(Lanes)
=============================================================================
