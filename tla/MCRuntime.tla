----------------------------- MODULE MCRuntime -----------------------------
EXTENDS Runtime, TLC

CONSTANTS b1, b2, l1

\* Two bootstraps of one lane.
OneLane == (b1 :> l1) @@ (b2 :> l1)
=============================================================================
