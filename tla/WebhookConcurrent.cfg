\* Two workers, repeated deliveries, answers before or after the commit.  No
\* symmetry, for liveness.
SPECIFICATION FairSpec
CONSTANTS
    w1 = w1
    w2 = w2
    b1 = b1
    b2 = b2
    add1 = add1
    add2 = add2
    out1 = out1
    out2 = out2
    bill1 = bill1
    bill2 = bill2
    Worker = {w1, w2}
    Batch = {b1, b2}
    Message = {add1, add2, out1, out2, bill1, bill2}
    Payload <- TwoBatches
    Addition = {add1, add2}
    Checkout = {out1, out2}
    BillRequest = {bill1, bill2}
    Earlier = {add1}
    AnswerPoint = {"committed", "uncommitted"}
    None = None
    MaxTrouble = 1
INVARIANTS TypeOK ExecutedOnce LineConserved AckedUnlessLost
PROPERTIES ImplementsInbox EveryBatchAcked
\* Once every batch is answered nothing needs to happen.
CHECK_DEADLOCK FALSE
