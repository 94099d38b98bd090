\* Spec 4.7: disconnecting a connected block never reports corruption,
\* with blocks of up to two fee-script and cost actions (no freezes, so
\* the trace shows the fee/cost case).
CONSTANTS
    s1 = s1  s2 = s2  sDummy = sDummy  feeA = feeA  feeB = feeB
    Absent = Absent
    Scripts <- MCScripts
    DUMMY_SCRIPT = sDummy
    KeyRank <- MCKeyRank
    FeeScripts <- MCFeeScripts
    InitFeeScript = feeA
    Amounts <- MCAmounts
    ChainFee <- MCChainFee
    MaxHeight = 2
    UIntMax = 2147483647
    Targets = {}
    TypesIn <- MCTypesIn
    Watched = {}
    MaxBlockActions = 2
SPECIFICATION Spec
INVARIANT ReorgNeverCorrupts
