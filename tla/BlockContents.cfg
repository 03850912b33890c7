\* A byte of a block has eight values, or four in a target, whose uint32_t has
\* 256; a byte of a script has them all.
CONSTANTS
    Radix = 8
    NoIndex = 9
    ScriptSigSizes = {2, 3}
    Now = 5
    MaxForward = 2
    BlocksReceived <- MCBlocksReceived
    TxsSigned <- MCTxsSigned
    Hashtypes = {0, 1, 2, 3, 129, 130, 131}
    MaxAlterations = 2
    Uint64 = 16
    InitialSubsidy = 4
    HalvingPeriod = 2
    Payments <- MCPayments
    MaxTxs = 5
    Base = 4
    Uint32 = 256
    DesiredPeriod = 8
    RetargetBound = 4
    GenesisTarget <- MCGenesisTarget
    Targets <- MCTargets
    Times <- MCTimes
    Frames <- AllFrames
    Digest <- MCDigest
    MaxLength = 7
    MaxNumberLength = 5
    MaxKeys = 4
    MaxSignatures = 3
SPECIFICATION MCSpec
INVARIANTS
    SavedIsCommitted
    LoadedIsSaved
    SignsWhatItCommitsTo
    MoneyConserved
    TargetIsScaled
    NumbersExact
    BranchesTaken
    ResultIsPairing
\* Chains have a bound; a target is computed once; programs and loops end.
CHECK_DEADLOCK FALSE
