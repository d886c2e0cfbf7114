CONSTANTS
    Txs = {1, 2, 3}
SPECIFICATION Spec
INVARIANT ConfirmedMeansSucceeded
CHECK_DEADLOCK FALSE
