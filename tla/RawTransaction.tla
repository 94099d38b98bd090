--------------------------- MODULE RawTransaction ---------------------------
(***************************************************************************)
(* sendrawtransaction (src/src/rpc/rawtransaction.cpp) against the rest of *)
(* the node.  Each RPC client is an HTTP worker thread.  Its call is two   *)
(* steps: everything under cs_main (the chain and mempool look-ups and    *)
(* AcceptToMemoryPool) is one atomic step, SendRawTransaction; the wait   *)
(* on the promise and the relay to peers is the second, SendReturn.       *)
(* Between them peers relay transactions, blocks connect, and the         *)
(* scheduler thread works off the validation-interface queue, which is    *)
(* where the wallet learns of a transaction and where the callback that   *)
(* sets the promise runs.                                                  *)
(*                                                                         *)
(* AcceptToMemoryPool, the queue, the wallet and block connection are not *)
(* among the sources.  They are reduced to what sendrawtransaction's      *)
(* branches tell apart: a conflict with the mempool or an absurd fee      *)
(* (state.IsInvalid()), missing inputs, or acceptance.  A transaction is a *)
(* model value with its inputs and its one output; it is assumed validly  *)
(* signed (signing is RawSign).                                            *)
(***************************************************************************)
EXTENDS FiniteSets, Sequences

CONSTANTS
    Clients,      \* HTTP worker threads serving RPC calls
    Txs,          \* decoded transactions (DecodeHexTx succeeded)
    InputsOf,     \* [Txs -> SUBSET Coins]: the outpoints a transaction spends
    OutputOf,     \* [Txs -> Coins]: COutPoint(hashTx, 0)
    HighFee,      \* transactions whose fee is above maxTxFee
    GenesisCoins, \* outputs unspent in pcoinsTip at the start
    NoTx

VARIABLES
    utxo,        \* unspent outputs of pcoinsTip
    mempool,     \* transactions in the mempool
    queue,       \* validation-interface queue, served by the scheduler thread
    walletSeen,  \* transactions the wallet has been notified of
    announced,   \* transactions pushed as inventory to the peers
    rpc          \* per client: [pc, tx, res]

vars == <<utxo, mempool, queue, walletSeen, announced, rpc>>

Added(t) == [kind |-> "added", tx |-> t]          \* TransactionAddedToMempool
Connected(t) == [kind |-> "connected", tx |-> t]  \* BlockConnected
Callback(c) == [kind |-> "callback", client |-> c]

\* Outputs a transaction in the mempool creates (CCoinsViewMemPool).
MempoolOutputs == {OutputOf[m] : m \in mempool}

\* AcceptToMemoryPool's verdict: a double spend of a mempool transaction or
\* an output already unspent in the chain is invalid, inputs neither in the
\* chain nor in the mempool are missing, and a fee above maxTxFee is
\* invalid unless the caller lifted the limit (nAbsurdFee = 0).
ATMP(t, absurdFeeOff) ==
    IF \E m \in mempool : InputsOf[m] \cap InputsOf[t] # {} THEN "invalid"
    ELSE IF OutputOf[t] \in utxo THEN "invalid"
    ELSE IF ~(InputsOf[t] \subseteq utxo \cup MempoolOutputs) THEN "missing"
    ELSE IF t \in HighFee /\ ~absurdFeeOff THEN "invalid"
    ELSE "accepted"

\* What an accepting call queues: the wallet notification that ATMP fires,
\* then the callback that sets the promise.
AcceptedEventsNoCallback(c, t) == <<Added(t)>>

AcceptedEvents(c, t) == <<Added(t), Callback(c)>>

Init ==
    /\ utxo = GenesisCoins
    /\ mempool = {}
    /\ queue = <<>>
    /\ walletSeen = {}
    /\ announced = {}
    /\ rpc = [c \in Clients |-> [pc |-> "idle", tx |-> NoTx, res |-> "none"]]

(***************************************************************************)
(* sendrawtransaction, the part under cs_main.  fHaveChain: an output of  *)
(* the transaction is unspent in pcoinsTip; fHaveMempool: it is in the    *)
(* mempool.  Neither: AcceptToMemoryPool, and on success the wallet's     *)
(* TransactionAddedToMempool is queued, then the callback that sets the   *)
(* promise.  In the chain: an error.  In the mempool: the promise is set  *)
(* at once.  allowhighfees sets nMaxRawTxFee to 0.                         *)
(***************************************************************************)
SendRawTransaction(c, t, allowHigh) ==
    /\ rpc[c].pc = "idle"
    /\ LET fHaveChain == OutputOf[t] \in utxo
           fHaveMempool == t \in mempool
           verdict == ATMP(t, allowHigh)
       IN IF ~fHaveMempool /\ ~fHaveChain
          THEN IF verdict = "accepted"
               THEN /\ mempool' = mempool \cup {t}
                    /\ queue' = queue \o AcceptedEvents(c, t)
                    /\ rpc' = [rpc EXCEPT ![c] = [pc |-> "wait", tx |-> t, res |-> "accepted"]]
               ELSE /\ rpc' = [rpc EXCEPT ![c] = [pc |-> "idle", tx |-> t, res |-> verdict]]
                    /\ UNCHANGED <<mempool, queue>>
          ELSE IF fHaveChain
          THEN /\ rpc' = [rpc EXCEPT ![c] = [pc |-> "idle", tx |-> t, res |-> "inchain"]]
               /\ UNCHANGED <<mempool, queue>>
          ELSE /\ rpc' = [rpc EXCEPT ![c] = [pc |-> "ready", tx |-> t, res |-> "inmempool"]]
               /\ UNCHANGED <<mempool, queue>>
    /\ UNCHANGED <<utxo, walletSeen, announced>>

(***************************************************************************)
(* promise.get_future().wait(), then PushInventory to every peer and the  *)
(* hash returned (g_connman is present).                                   *)
(***************************************************************************)
SendReturnNoWait(c) ==
    /\ rpc[c].pc \in {"wait", "ready"}
    /\ announced' = announced \cup {rpc[c].tx}
    /\ rpc' = [rpc EXCEPT ![c].pc = "idle"]
    /\ UNCHANGED <<utxo, mempool, queue, walletSeen>>

SendReturn(c) ==
    /\ rpc[c].pc = "ready"
    /\ announced' = announced \cup {rpc[c].tx}
    /\ rpc' = [rpc EXCEPT ![c].pc = "idle"]
    /\ UNCHANGED <<utxo, mempool, queue, walletSeen>>

\* The scheduler thread runs the oldest queued callback.
ProcessQueue ==
    /\ queue # <<>>
    /\ LET e == Head(queue)
       IN IF e.kind = "callback"
          THEN /\ rpc' = [rpc EXCEPT ![e.client].pc = "ready"]
               /\ UNCHANGED walletSeen
          ELSE /\ walletSeen' = walletSeen \cup {e.tx}
               /\ UNCHANGED rpc
    /\ queue' = Tail(queue)
    /\ UNCHANGED <<utxo, mempool, announced>>

\* A peer relays a transaction; net processing accepts it the same way.
RelayFromPeer(t) ==
    /\ t \notin mempool
    /\ ATMP(t, FALSE) = "accepted"
    /\ mempool' = mempool \cup {t}
    /\ queue' = Append(queue, Added(t))
    /\ UNCHANGED <<utxo, walletSeen, announced, rpc>>

\* Mempool transactions that spend an output of S, transitively.
RECURSIVE WithDescendants(_)
WithDescendants(S) ==
    LET more == {m \in mempool \ S : \E d \in S : OutputOf[d] \in InputsOf[m]}
    IN IF more = {} THEN S ELSE WithDescendants(S \cup more)

(***************************************************************************)
(* A block holding t connects (from this node's miner or a peer): its     *)
(* inputs are spent, its output created; t leaves the mempool, and so do  *)
(* the transactions that conflict with it, with their descendants.        *)
(***************************************************************************)
ConnectBlock(t) ==
    /\ InputsOf[t] \subseteq utxo
    /\ utxo' = (utxo \ InputsOf[t]) \cup {OutputOf[t]}
    /\ LET conflicts == {m \in mempool \ {t} : InputsOf[m] \cap InputsOf[t] # {}}
       IN mempool' = mempool \ ({t} \cup WithDescendants(conflicts))
    /\ queue' = Append(queue, Connected(t))
    /\ UNCHANGED <<walletSeen, announced, rpc>>

Next ==
    \/ \E c \in Clients, t \in Txs, allow \in BOOLEAN : SendRawTransaction(c, t, allow)
    \/ \E c \in Clients : SendReturn(c)
    \/ ProcessQueue
    \/ \E t \in Txs : RelayFromPeer(t) \/ ConnectBlock(t)

(***************************************************************************)
(* The scheduler thread always serves a non-empty queue, and a worker     *)
(* whose promise is set wakes: weak fairness.  Clients, peers and blocks  *)
(* need not act.                                                           *)
(***************************************************************************)
Fairness ==
    /\ WF_vars(ProcessQueue)
    /\ \A c \in Clients : WF_vars(SendReturn(c))

Spec == Init /\ [][Next]_vars /\ Fairness

(***************************************************************************)
(* WalletKnowsAcceptedTx: when sendrawtransaction returns the hash of a    *)
(* transaction its own call put into the mempool, the wallet has already  *)
(* processed it, as the code's comment promises ("prevents a race where a *)
(* user might call sendrawtransaction ... immediately call some wallet    *)
(* RPC, and get a stale result").  It rests on the callback being queued  *)
(* after TransactionAddedToMempool and on the worker waiting for it.      *)
(***************************************************************************)
WalletKnowsAcceptedTx ==
    \A c \in Clients :
        rpc[c].pc = "idle" /\ rpc[c].res = "accepted" => rpc[c].tx \in walletSeen

(***************************************************************************)
(* SendEventuallyReturns: a sendrawtransaction call that got past cs_main *)
(* always returns; its promise is set on every path, and the callback it  *)
(* waits for is always queued.                                            *)
(***************************************************************************)
SendEventuallyReturns ==
    \A c \in Clients : rpc[c].pc # "idle" ~> rpc[c].pc = "idle"

=============================================================================
