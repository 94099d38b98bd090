\* Spec 4.7: after a disconnect, CanSend answers as before the block was
\* connected (the freeze view refines the ledger).
CONSTANTS
    s1 = s1  s2 = s2  sDummy = sDummy  feeA = feeA  feeB = feeB
    Absent = Absent
    Scripts <- MCScripts
    DUMMY_SCRIPT = sDummy
    KeyRank <- MCKeyRank
    FeeScripts <- MCFeeScripts
    InitFeeScript = feeA
    Amounts <- MCAmounts
    ChainFee <- MCChainFee
    MaxHeight = 3
    UIntMax = 2147483647
    Targets <- MCTargets
    TypesIn <- MCTypesIn
    Watched <- MCTargets
    MaxBlockActions = 1
SPECIFICATION Spec
PROPERTY LedgerRefinement
