\* Miners: two coins, three blocks, clock 0..4; retarget: mainnet, six blocks.
CONSTANTS
    Coins <- MCCoins
    NoCoin = NoCoin
    MaxBlocks = 3
    MaxTime = 4
    Drift = 2
    StakeTimestampMask = 1
    NonceRounds = 1
SPECIFICATION MCSpec
INVARIANTS TypeOK StakeSignedAgainstParent StakeSpentOnce SubmittedBlocksTimely RetargetTypeOK PosRetargetMatchesSpec
