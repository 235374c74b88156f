CONSTANTS
    Workers = {w1, w2}
    NoWorker = NoWorker
    RootXid = 7
    Blocks <- MCBlocks
    First <- MCFirst
    Outcome <- MCOutcome
    Calls <- MCCalls
SPECIFICATION Spec
INVARIANTS
    OwnBlock
    SameAsAlone
PROPERTIES
    PoisonIsFinal
    LockComesBack
