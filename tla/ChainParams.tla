---------------------------- MODULE ChainParams ----------------------------
(***************************************************************************)
(* The consensus parameters of the three networks that the retarget        *)
(* engine reads (chainparams.cpp, CMainParams, CTestNetParams,             *)
(* CRegTestParams): the two target limits, the target spacing and          *)
(* timespan, the no-retargeting flags and the genesis block's time and    *)
(* nBits.  A limit is the value of its uint256S hex string as 32 bytes,    *)
(* least significant first.                                                *)
(***************************************************************************)
EXTENDS Integers, ArithUint256

\* The uint256 whose hex string is z zero bytes, then the byte top, then
\* 0xff down to the least significant byte.
LimitOf(z, top) ==
    [i \in 0 .. WIDTH - 1 |-> IF i > WIDTH - 1 - z THEN 0
                              ELSE IF i = WIDTH - 1 - z THEN top ELSE 255]

MainParams ==
    [powLimit          |-> LimitOf(1, 63),    \* 003fff...f
     posLimit          |-> LimitOf(6, 255),   \* 000000000000ffff...f
     nTargetTimespan   |-> 16 * 60,
     nTargetSpacing    |-> 64,
     fPowNoRetargeting |-> FALSE,
     fPosNoRetargeting |-> FALSE,
     genesisTime       |-> 1589879227,
     genesisBits       |-> 31 * 2 ^ 24 + 4194303]   \* 0x1f3fffff

TestNetParams ==
    [powLimit          |-> LimitOf(1, 63),
     posLimit          |-> LimitOf(6, 255),
     nTargetTimespan   |-> 16 * 60,
     nTargetSpacing    |-> 64,
     fPowNoRetargeting |-> TRUE,
     fPosNoRetargeting |-> TRUE,
     genesisTime       |-> 1630926558,
     genesisBits       |-> 31 * 2 ^ 24 + 4194303]   \* 0x1f3fffff

RegTestParams ==
    [powLimit          |-> LimitOf(0, 127),   \* 7fff...f
     posLimit          |-> LimitOf(0, 127),
     nTargetTimespan   |-> 2016 * 60,
     nTargetSpacing    |-> 60,
     fPowNoRetargeting |-> TRUE,
     fPosNoRetargeting |-> TRUE,
     genesisTime       |-> 1296688602,
     genesisBits       |-> 32 * 2 ^ 24 + 8388607]   \* 0x207fffff

=============================================================================
