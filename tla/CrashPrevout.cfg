CONSTANTS
    UTXOs <- NoUTXOs
    Blocks <- ChainBlocks
    CacheSize = 2
    ChanCap = 2
    CommitEvery = 2
    MaxRuns = 2
    Crashes = TRUE
    ResumeErrors = FALSE
    FeedsAll = FALSE
    CoinbaseN = CoinbaseN
    Null = Null
    Nil = Nil
SPECIFICATION Spec
INVARIANTS
    PrevoutResolved
CHECK_DEADLOCK FALSE
