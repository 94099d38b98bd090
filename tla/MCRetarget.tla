----------------------------- MODULE MCRetarget -----------------------------
EXTENDS Retarget, ChainParams

MCSpacings == {-30, 16, 64, 700}

\* The genesis block's nBits is the compact encoding of powLimit.
GenesisAtLimit ==
    \A p \in {MainParams, TestNetParams, RegTestParams} :
        p.genesisBits = GetCompact(p.powLimit)

ASSUME GenesisAtLimit

=============================================================================
