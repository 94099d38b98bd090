------------------------- MODULE MCGovernanceChain -------------------------
(***************************************************************************)
(* Model-checking instance of GovernanceChain: two scripts governance      *)
(* transactions name, the sentinel, two fee scripts, one cost type with    *)
(* two amounts, chains of up to MaxHeight blocks.                          *)
(***************************************************************************)
EXTENDS GovernanceChain, TLC

CONSTANTS s1, s2, sDummy, feeA, feeB

MCScripts == {s1, s2, sDummy}
MCKeyRank == (sDummy :> 0) @@ (s1 :> 1) @@ (s2 :> 1)
MCFeeScripts == {feeA, feeB}
MCAmounts == {100, 200}
MCChainFee == [root |-> 100, reissue |-> 200, unique |-> 100, sub |-> 100, username |-> 200]
MCTargets == {s1, s2}
MCTypesIn == {1}   \* GOVERNANCE_COST_ROOT
=============================================================================
