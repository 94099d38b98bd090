--------------------------- MODULE GovernanceChain ---------------------------
(***************************************************************************)
(* The governance store under block connection and disconnection.  When a *)
(* block attaches, each of its governance actions is applied in order     *)
(* with the block's height (FreezeScript, UnfreezeScript, UpdateCost,     *)
(* UpdateFeeScript); when the tip is disconnected its actions are undone   *)
(* in reverse order with the Revert* methods (spec sections 2 and 4.7).    *)
(* A Revert* that returns false is the CorruptState of spec section 7:     *)
(* fatal, the node stops and the operator reindexes, which rebuilds the    *)
(* store from genesis by reconnecting the chain.  The caller (block        *)
(* connection in validation.cpp) is not among the sources, so ConnectBlock *)
(* DisconnectBlock and Reindex follow the spec; every store method they    *)
(* call is Governance's translation of governance.cpp.                     *)
(***************************************************************************)
EXTENDS Integers, Sequences, SequencesExt

CONSTANTS
    Scripts, DUMMY_SCRIPT, KeyRank, FeeScripts, InitFeeScript, Amounts,
    ChainFee, MaxHeight, UIntMax, Absent,
    Targets,          \* scripts governance actions name
    TypesIn,          \* cost types governance actions carry
    Watched,          \* scripts whose sendability the ledger view reports
    MaxBlockActions   \* most governance actions in one block

VARIABLES
    db,       \* the governance database
    chain,    \* connected blocks above genesis, each a sequence of actions
    corrupt   \* a Revert* reported corruption; the node has stopped

vars == <<db, chain, corrupt>>

G == INSTANCE Governance WITH HeightsIn <- 1 .. MaxHeight

\* The store's API applied to one governance action of the block at height h.
Forward(d, a, h) ==
    CASE a.op = "freeze"   -> G!FreezeScript(d, a.script)
      [] a.op = "unfreeze" -> G!UnfreezeScript(d, a.script)
      [] a.op = "cost"     -> G!UpdateCost(d, a.amount, a.type, h)
      [] a.op = "fee"      -> G!UpdateFeeScript(d, a.script, h)

Backward(d, a, h) ==
    CASE a.op = "freeze"   -> G!RevertFreezeScript(d, a.script)
      [] a.op = "unfreeze" -> G!RevertUnfreezeScript(d, a.script)
      [] a.op = "cost"     -> G!RevertUpdateCost(d, a.type, h)
      [] a.op = "fee"      -> G!RevertUpdateFeeScript(d, h)

ApplyBlock(d, b, h) == FoldLeft(LAMBDA x, a : Forward(x, a, h).db, d, b)

\* Undo the actions of b last-to-first; stop at the first failing revert,
\* keeping the reverts already written (each is its own batch).
RECURSIVE UndoBlock(_, _, _)
UndoBlock(d, b, h) ==
    IF b = <<>> THEN G!Done(d)
    ELSE LET r == Backward(d, Last(b), h)
         IN IF r.ok THEN UndoBlock(r.db, Front(b), h) ELSE r

Replay(ch) ==
    FoldLeft(LAMBDA d, i : ApplyBlock(d, ch[i], i), G!InitDb, [i \in 1 .. Len(ch) |-> i])

Ledger == INSTANCE GovernanceLedger
            WITH InitCost <- [t \in TypesIn |-> G!GetCost(G!InitDb, t)],
                 view <- [sendable |-> [s \in Watched |-> G!CanSend(db, s)],
                          cost     |-> [t \in TypesIn |-> G!GetCost(db, t)],
                          fee      |-> G!GetFeeScript(db)]

Init ==
    /\ db = G!InitDb
    /\ chain = <<>>
    /\ corrupt = FALSE

ConnectBlock ==
    /\ ~corrupt
    /\ Len(chain) < MaxHeight
    /\ \E b \in Ledger!Blocks :
          /\ db' = ApplyBlock(db, b, Len(chain) + 1)
          /\ chain' = Append(chain, b)
    /\ UNCHANGED corrupt

DisconnectBlock ==
    /\ ~corrupt
    /\ chain # <<>>
    /\ LET r == UndoBlock(db, Last(chain), Len(chain))
       IN /\ db' = r.db
          /\ corrupt' = ~r.ok
          /\ chain' = IF r.ok THEN Front(chain) ELSE chain

Reindex ==
    /\ corrupt
    /\ db' = Replay(chain)
    /\ corrupt' = FALSE
    /\ UNCHANGED chain

Next == ConnectBlock \/ DisconnectBlock \/ Reindex

Spec == Init /\ [][Next]_vars

TypeOK ==
    /\ db \in G!DbType
    /\ chain \in Seq(Ledger!Blocks) /\ Len(chain) <= MaxHeight
    /\ corrupt \in BOOLEAN

(***************************************************************************)
(* LedgerRefinement: connecting and disconnecting blocks through the       *)
(* store's forward and Revert* methods implements GovernanceLedger: what  *)
(* CanSend, GetCost and GetFeeScript report is always the view of the      *)
(* currently connected chain, so a disconnect returns the store to the     *)
(* answers it gave before the block was connected.                         *)
(***************************************************************************)
LedgerRefinement == Ledger!Spec

(***************************************************************************)
(* CounterMatchesTable: through every connect, disconnect (including one   *)
(* that stops at a corrupt revert) and reindex, the 'N' counter that       *)
(* GetNumberOfFrozenScripts returns equals the number of 'a' entries other *)
(* than the DUMMY_SCRIPT sentinel whose frozen flag is set.  FreezeScript, *)
(* UnfreezeScript and their reverts each update the flag and the counter  *)
(* in one batch, on three branches each, and a block may freeze a script  *)
(* an earlier block already froze.                                         *)
(***************************************************************************)
CounterMatchesTable == G!CounterMatchesTable

(***************************************************************************)
(* ReorgNeverCorrupts: undoing a block that was connected never makes a    *)
(* Revert* method report a corrupted database (spec section 4.7: the       *)
(* reverts are the inverses of the forward operations).                    *)
(***************************************************************************)
ReorgNeverCorrupts == ~corrupt

=============================================================================
