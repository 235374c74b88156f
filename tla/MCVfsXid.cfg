CONSTANTS
    Workers = {w1, w2}
    NoWorker = NoWorker
    RootXid = 7
    Blocks <- MCBlocks
    First <- MCFirst
    Outcome <- MCOutcome
    Calls <- OldIdCalls
SPECIFICATION Spec
INVARIANT ForeignXidIsRefused
