CONSTANTS
    UTXOs <- NoUTXOs
    Blocks <- ForkDupBlocks
    CacheSize = 2
    ChanCap = 2
    CommitEvery = 2
    MaxRuns = 1
    Crashes = FALSE
    ResumeErrors = FALSE
    FeedsAll = FALSE
    CoinbaseN = CoinbaseN
    Null = Null
    Nil = Nil
SPECIFICATION Spec
INVARIANT
    OrphanChain
CHECK_DEADLOCK FALSE
