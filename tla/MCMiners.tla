------------------------------ MODULE MCMiners ------------------------------
(***************************************************************************)
(* The block producers: the staking and solo mining threads (Miners), and *)
(* the retarget engine that gives every new block its nBits (Retarget, on *)
(* mainnet parameters, as in MCRetarget).  The two share no state in the  *)
(* models, so each behaviour exercises one of them, chosen at the start   *)
(* (part), and the other stays in its initial state.                      *)
(***************************************************************************)
EXTENDS Miners

\* Two stakeable coins, so that the staker can stake twice or lose one
\* coin to the wallet and stake the other.
MCCoins == {"c1", "c2"}

MCSpacings == {-30, 16, 64, 700}

VARIABLES chain, part

CP == INSTANCE ChainParams

R == INSTANCE MCRetarget
        WITH Params <- CP!MainParams, Kinds <- {TRUE, FALSE},
             Spacings <- MCSpacings, MaxBlocks <- 6

MCVars == <<vars, chain, part>>

MCInit ==
    /\ Init /\ R!Init
    /\ part \in {"miners", "retarget"}

MCNext ==
    \/ part = "miners" /\ Next /\ UNCHANGED <<chain, part>>
    \/ part = "retarget" /\ R!Next /\ UNCHANGED <<vars, part>>

MCSpec == MCInit /\ [][MCNext]_MCVars

\* Every block of the retarget chain carries an nBits that is a compact
\* value with the sign bit clear, as GetCompact must produce (Retarget's
\* TypeOK), on a chain within its bound.
RetargetTypeOK == R!TypeOK

\* Every proof-of-stake block, across interleaved stake and work blocks at
\* negative, short, on-target and clamped spacings and reorganisations,
\* carries the exact retarget of spec 4.2 (Retarget's PosRetargetMatchesSpec).
PosRetargetMatchesSpec == R!PosRetargetMatchesSpec

=============================================================================
