CONSTANTS
    UTXOs <- CommitUTXOs
    Blocks <- ForkDupBlocks
    CacheSize = 2
    ChanCap = 2
    CommitEvery = 2
    MaxRuns = 1
    Crashes = FALSE
    ResumeErrors = FALSE
    FeedsAll = FALSE
    CoinbaseN = CoinbaseN
    Null = Null
    Nil = Nil
SPECIFICATION Spec
INVARIANTS
    TypeOK
    TxsLinked
    TxUnique
    InsOutsLoaded
    PrevoutResolved
PROPERTIES
    BlockLogRefined
    Termination
CHECK_DEADLOCK FALSE
