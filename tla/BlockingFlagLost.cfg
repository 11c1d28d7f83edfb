CONSTANT Waiter = {w1, w2, w3}
SPECIFICATION FairSpec
PROPERTY EveryWaitReturns
CHECK_DEADLOCK FALSE
