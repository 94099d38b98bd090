\* Spec section 8 property 5: the frozen-count equals the number of scripts CanSend refuses.
CONSTANTS
    s1 = s1  s2 = s2  sShort = sShort  sDummy = sDummy  feeA = feeA  feeB = feeB
    Absent = Absent
    Scripts <- MCScripts
    DUMMY_SCRIPT = sDummy
    KeyRank <- MCKeyRank
    FeeScripts <- MCFeeScripts
    InitFeeScript = feeA
    Amounts <- MCAmounts
    ChainFee <- MCChainFee
    MaxHeight = 2
    UIntMax = 2147483647
    Targets <- MCTargetsWithDummy
    TypesIn <- MCTypesIn
    HeightsIn = {1, 2}
SPECIFICATION Spec
INVARIANT FrozenCountIsCannotSend
