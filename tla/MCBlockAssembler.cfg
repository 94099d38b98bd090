\* addPackageTxs over every mempool of three entries (any ancestor relation,
\* sizes, fees, finality): block validity, limits, the mapModifiedTx
\* bookkeeping, completeness and progress of every loop step, at a whole-satoshi
\* blockMinFeeRate.
CONSTANTS
    N = 3
    SizeIn = {1000, 1500}
    FeeIn = {0, 1000, 3000}
    SigOpsIn = {1}
    OptMaxWeight = 16000
    MinFeeRate = 1000
    MAX_BLOCK_WEIGHT = 4000000
    MAX_BLOCK_SIGOPS_COST = 403
    MAX_CONSECUTIVE_FAILURES = 0
SPECIFICATION Spec
\* addPackageTxs returns: a finished loop has no successor state.
CHECK_DEADLOCK FALSE
INVARIANTS TypeOK BlockIsTopological BlockWithinLimits ModifiedEntriesCurrent NothingLeftBehind
PROPERTY LoopMeasureDecreases
