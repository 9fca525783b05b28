\* Two kitchen requests at a time about one order; one of them may die.  No
\* symmetry, for liveness.
SPECIFICATION FairSpec
CONSTANTS
    Kitchen = {k1, k2}
    Order = {o1}
    None = None
    MaxRequest = 4
    MaxCrash = 1
INVARIANTS TypeOK SentMeansTold ToldOnceUnlessTrouble LateMessagesBounded NoStageSkipped
PROPERTIES ImplementsLedger EveryMoveIsRecorded
\* Once every order is served or cancelled nothing needs to happen.
CHECK_DEADLOCK FALSE
