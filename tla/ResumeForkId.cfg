CONSTANTS
    UTXOs <- NoUTXOs
    Blocks <- ForkDupBlocks
    CacheSize = 2
    ChanCap = 2
    CommitEvery = 2
    MaxRuns = 2
    Crashes = FALSE
    ResumeErrors = FALSE
    FeedsAll = FALSE
    CoinbaseN = CoinbaseN
    Null = Null
    Nil = Nil
SPECIFICATION Spec
PROPERTY
    MintedIdFresh
CHECK_DEADLOCK FALSE
