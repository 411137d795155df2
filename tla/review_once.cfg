SPECIFICATION FairSpec
CONSTANTS
    MaxRun = 1
    MaxLost = 2
    Decisions = {"accept", "reject", "force-accept"}
    Handled = {"review_pending"}
    Failures = TRUE
    LateReview = TRUE
    LatePass = TRUE
INVARIANTS OneDecision
PROPERTIES  ReviewRequested
\* A retired lane is the end of this model: nothing has to happen after it.
CHECK_DEADLOCK FALSE
