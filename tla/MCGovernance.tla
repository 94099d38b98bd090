---------------------------- MODULE MCGovernance ----------------------------
(***************************************************************************)
(* Model-checking instance of Governance: three scripts a governance      *)
(* transaction can name, one of them ("short", e.g. a one-opcode script)   *)
(* whose serialized 'a' key sorts before the sentinel's, the sentinel     *)
(* itself, two fee scripts, two amounts and block heights 1..2.           *)
(***************************************************************************)
EXTENDS Governance, TLC

CONSTANTS s1, s2, sShort, sDummy, feeA, feeB

MCScripts == {s1, s2, sShort, sDummy}
\* 'a' keys are 'a' ++ compact-size length ++ bytes: a 1-byte script
\* (length 01) sorts before the 6-byte sentinel (length 06), a 25-byte
\* P2PKH script (length 0x19) after it.
MCKeyRank == (sShort :> 0) @@ (sDummy :> 1) @@ (s1 :> 2) @@ (s2 :> 2)
MCFeeScripts == {feeA, feeB}
MCAmounts == {100, 200}   \* CAmount values of the cost updates
MCChainFee == [root |-> 100, reissue |-> 200, unique |-> 100, sub |-> 100, username |-> 200]
\* Inputs of the standalone run: the scripts other than the sentinel, one
\* real cost type and the invalid DUMMY_TYPE.
MCTargets == {s1, s2, sShort}
MCTypesIn == {GOVERNANCE_COST_ROOT, DUMMY_TYPE}
\* Inputs of the run that lets a governance transaction name the sentinel.
MCTargetsWithDummy == {s1, sDummy}
=============================================================================
