\* The code comment at GetFrozenScripts: the seek from DUMMY_SCRIPT lists every frozen script.
CONSTANTS
    s1 = s1  s2 = s2  sShort = sShort  sDummy = sDummy  feeA = feeA  feeB = feeB
    Absent = Absent
    Scripts <- MCScripts
    DUMMY_SCRIPT = sDummy
    KeyRank <- MCKeyRank
    FeeScripts <- MCFeeScripts
    InitFeeScript = feeA
    Amounts <- MCAmounts
    ChainFee <- MCChainFee
    MaxHeight = 2
    UIntMax = 2147483647
    Targets <- MCTargets
    TypesIn <- MCTypesIn
    HeightsIn = {1, 2}
SPECIFICATION Spec
INVARIANT FrozenListComplete
