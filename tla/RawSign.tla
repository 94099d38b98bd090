------------------------------ MODULE RawSign ------------------------------
(***************************************************************************)
(* createrawtransaction, signrawtransaction and combinerawtransaction     *)
(* (src/src/rpc/rawtransaction.cpp): the calls by which several key        *)
(* holders build one transaction, each signing what they can and merging  *)
(* the partly signed copies.  Each call runs under cs_main and is one      *)
(* step; the hex strings the callers hold are the set held.                *)
(*                                                                         *)
(* A transaction is its inputs (vin), its outputs (an abstract body) and   *)
(* per input the signatures in its scriptSig.  A signature commits to the  *)
(* transaction's constant part, Msg (SIGHASH_ALL: all inputs and all       *)
(* outputs), under one key.  The signing library (ProduceSignature,        *)
(* CombineSignatures, VerifyScript) is not among the sources; a coin's     *)
(* script is reduced to the keys it needs (Need: a key hash or an m-of-m  *)
(* multisig), a valid signature is one by a needed key over the right     *)
(* Msg, CombineSignatures keeps the valid signatures of both sides, and   *)
(* VerifyScript passes when every needed key has a valid signature.        *)
(***************************************************************************)
EXTENDS Naturals, FiniteSets, Sequences

CONSTANTS
    Keys,          \* private keys
    Need,          \* [coins -> SUBSET Keys]: keys a coin's scriptPubKey requires
    Bodies,        \* the outputs a transaction can carry
    VinsIn,        \* input lists createrawtransaction is called with
    KeySets,       \* keystores: the wallet's keys or the privkeys given
    SignGenesis,   \* coins unspent in pcoinsTip at the start
    MaxHeld        \* most transactions the callers hold (a bound)

Coins == DOMAIN Need

VARIABLES
    chainCoins,  \* coins unspent in pcoinsTip (and the mempool view)
    held,        \* transactions the callers hold as hex
    last         \* the last sign or combine call: [from, tx]

svars == <<chainCoins, held, last>>

Msg(t) == <<t.vin, t.body>>

\* The signatures of sigs a checker over msg accepts for coin.
ValidSigs(sigs, msg, coin) == {s \in sigs : s.msg = msg /\ s.key \in Need[coin]}

NoCall == [from |-> {}, tx |-> <<>>]

SignInit ==
    /\ chainCoins = SignGenesis
    /\ held = {}
    /\ last = NoCall

\* A new hex string for the callers, within the bound.
Hold(t) == /\ t \in held \/ Cardinality(held) < MaxHeld
           /\ held' = held \cup {t}

(***************************************************************************)
(* createrawtransaction: the inputs with empty scriptSigs, the outputs.   *)
(* Locktime and sequence numbers are not signed over differently here and *)
(* are left out; an invalid address, amount or token output throws.       *)
(***************************************************************************)
CreateRawTransaction(vin, body) ==
    /\ Hold([vin |-> vin, body |-> body, sig |-> [i \in DOMAIN vin |-> {}]])
    /\ UNCHANGED <<chainCoins, last>>

(***************************************************************************)
(* signrawtransaction(hex, prevtxs, privkeys).  The view is pcoinsTip and *)
(* the mempool, with the prevtxs added as coins whatever the chain says.   *)
(* Per input: a coin not in the view is an error and the input is left   *)
(* as it is; otherwise the keystore's signatures are produced, combined   *)
(* with those already in the scriptSig, and verified (the answer's        *)
(* "complete" and "errors", which change no state).                        *)
(***************************************************************************)
SignWithoutCombine(t, K, given) ==
    LET view == chainCoins \cup given
        m == Msg(t)
        Produce(i) == {[key |-> k, msg |-> m] : k \in K \cap Need[t.vin[i]]}
        sig == [i \in DOMAIN t.vin |->
                  IF t.vin[i] \in view THEN ValidSigs(Produce(i), m, t.vin[i])
                  ELSE t.sig[i]]
        r == [t EXCEPT !.sig = sig]
    IN /\ Hold(r)
       /\ last' = [from |-> {t}, tx |-> r]
       /\ UNCHANGED chainCoins

SignRawTransaction(t, K, given) ==
    LET view == chainCoins \cup given
        m == Msg(t)
        Produce(i) == {[key |-> k, msg |-> m] : k \in K \cap Need[t.vin[i]]}
        sig == [i \in DOMAIN t.vin |->
                  IF t.vin[i] \in view THEN ValidSigs(Produce(i) \cup t.sig[i], m, t.vin[i])
                  ELSE t.sig[i]]
        r == [t EXCEPT !.sig = sig]
    IN /\ Hold(r)
       /\ last' = [from |-> {t}, tx |-> r]
       /\ UNCHANGED chainCoins

(***************************************************************************)
(* combinerawtransaction(txs): the merged transaction starts as the first *)
(* one; an input whose coin is not in pcoinsTip or the mempool throws.    *)
(* Per input i, the signatures of every variant that has an input i are   *)
(* combined under the first transaction's checker.                         *)
(***************************************************************************)
CombineRawTransaction(t0, others) ==
    LET variants == {t0} \cup others
        m == Msg(t0)
        sig == [i \in DOMAIN t0.vin |->
                  ValidSigs(UNION {v.sig[i] : v \in {v2 \in variants : Len(v2.vin) >= i}},
                            m, t0.vin[i])]
        r == [t0 EXCEPT !.sig = sig]
    IN /\ \A i \in DOMAIN t0.vin : t0.vin[i] \in chainCoins
       /\ Hold(r)
       /\ last' = [from |-> variants, tx |-> r]
       /\ UNCHANGED chainCoins

\* A block spends a coin.
SpendCoin(c) ==
    /\ c \in chainCoins
    /\ chainCoins' = chainCoins \ {c}
    /\ UNCHANGED <<held, last>>

SignNext ==
    \/ \E vin \in VinsIn, b \in Bodies : CreateRawTransaction(vin, b)
    \/ \E t \in held, K \in KeySets, given \in SUBSET Coins : SignRawTransaction(t, K, given)
    \/ \E t0 \in held, others \in SUBSET held : CombineRawTransaction(t0, others)
    \/ \E c \in Coins : SpendCoin(c)

SignSpec == SignInit /\ [][SignNext]_svars

(***************************************************************************)
(* KeepsSignatures: signing and combining never drop a signature that is  *)
(* valid for the result.  Every valid signature an input carried in any   *)
(* transaction the last sign or combine call was given is still in that   *)
(* input of what it returned, so holders who sign in turn, or sign apart  *)
(* and combine, never lose each other's work.  signrawtransaction relies  *)
(* on combining the scriptSig already there with what it produces, and on *)
(* skipping inputs whose coin it cannot find; combinerawtransaction on    *)
(* merging every variant, the first included, for every input it has.     *)
(***************************************************************************)
KeepsSignatures ==
    last # NoCall =>
        \A v \in last.from, i \in DOMAIN last.tx.vin :
            i <= Len(v.vin) =>
                ValidSigs(v.sig[i], Msg(last.tx), last.tx.vin[i]) \subseteq last.tx.sig[i]

=============================================================================
