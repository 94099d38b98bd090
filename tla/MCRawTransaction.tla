------------------------- MODULE MCRawTransaction -------------------------
(***************************************************************************)
(* The raw-transaction RPCs in one model.  sendrawtransaction and the     *)
(* signing calls share no state here, so each behaviour takes one of them *)
(* (part) and the other keeps its initial state.                           *)
(*                                                                         *)
(* Sending: two RPC workers; tA and tB both spend the genesis output a (a  *)
(* double spend), tC spends tA's output (a child), and tB's fee is above  *)
(* maxTxFee.  Signing: coin a needs keys k1 and k2 (2-of-2 multisig), coin *)
(* b needs k2 and is not in the chain (only prevtxs describe it); two     *)
(* bodies, so that a signature over the other body is invalid; each      *)
(* signer holds one key.                                                   *)
(***************************************************************************)
EXTENDS RawTransaction, RawSign, TLC

CONSTANTS r1, r2, tA, tB, tC, k1, k2, x, y

MCClients == {r1, r2}
MCTxs == {tA, tB, tC}
MCInputsOf == (tA :> {"a"}) @@ (tB :> {"a"}) @@ (tC :> {"oA"})
MCOutputOf == (tA :> "oA") @@ (tB :> "oB") @@ (tC :> "oC")

MCNeed == ("a" :> {k1, k2}) @@ ("b" :> {k2})
MCVinsIn == {<<"a">>, <<"a", "b">>}
MCKeySets == {{k1}, {k2}}

VARIABLE part

MCVars == <<vars, svars, part>>

MCInit == Init /\ SignInit /\ part \in {"send", "sign"}

MCNext ==
    \/ part = "send" /\ Next /\ UNCHANGED <<svars, part>>
    \/ part = "sign" /\ SignNext /\ UNCHANGED <<vars, part>>

MCSpec == MCInit /\ [][MCNext]_MCVars /\ Fairness
=============================================================================
