\* Governance store under connect/disconnect of one-action blocks: the cost
\* and fee-address answers always match the connected chain.
CONSTANTS
    s1 = s1  s2 = s2  sDummy = sDummy  feeA = feeA  feeB = feeB
    Absent = Absent
    Scripts <- MCScripts
    DUMMY_SCRIPT = sDummy
    KeyRank <- MCKeyRank
    FeeScripts <- MCFeeScripts
    InitFeeScript = feeA
    Amounts <- MCAmounts
    ChainFee <- MCChainFee
    MaxHeight = 4
    UIntMax = 2147483647
    Targets <- MCTargets
    TypesIn <- MCTypesIn
    Watched = {}
    MaxBlockActions = 1
SPECIFICATION Spec
INVARIANTS TypeOK CounterMatchesTable
PROPERTY LedgerRefinement
