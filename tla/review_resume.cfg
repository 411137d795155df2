SPECIFICATION Spec
CONSTANTS
    MaxRun = 2
    MaxLost = 0
    Decisions = {"reject"}
    Handled = {"review_pending"}
    Failures = FALSE
    LateReview = TRUE
    LatePass = FALSE
INVARIANTS OneOpenReview 
PROPERTIES ClosedWithPair
\* A retired lane is the end of this model: nothing has to happen after it.
CHECK_DEADLOCK FALSE
