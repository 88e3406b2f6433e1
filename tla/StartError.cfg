CONSTANTS
    UTXOs <- NoUTXOs
    Blocks <- ChainBlocks
    CacheSize = 2
    ChanCap = 2
    CommitEvery = 2
    MaxRuns = 1
    Crashes = FALSE
    ResumeErrors = TRUE
    FeedsAll = TRUE
    CoinbaseN = CoinbaseN
    Null = Null
    Nil = Nil
SPECIFICATION Spec
PROPERTIES
    Termination
CHECK_DEADLOCK FALSE
