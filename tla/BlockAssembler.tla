--------------------------- MODULE BlockAssembler ---------------------------
(***************************************************************************)
(* BlockAssembler::addPackageTxs (src/unnamed/part_005, miner.cpp): the    *)
(* package-selection loop that fills a block template from the mempool.    *)
(* The mempool is fixed while the loop runs (cs_main and mempool.cs are    *)
(* held), so Init chooses any mempool of N entries and each step of the    *)
(* spec is one iteration of the while loop.  A mempool entry is its size,  *)
(* modified fee, sigop cost, finality and its set of in-mempool ancestors; *)
(* any strict partial order is the ancestor relation of some mempool.     *)
(* Transactions are numbered in txid order, the tie-break of both score    *)
(* indexes.  The score comparators and CFeeRate::GetFee live in files      *)
(* outside src (txmempool.h, miner.h, feerate.cpp) and follow the spec.    *)
(***************************************************************************)
EXTENDS Integers, Sequences, SequencesExt, FiniteSets, FiniteSetsExt

CONSTANTS
    N,                        \* number of mempool entries
    SizeIn, FeeIn, SigOpsIn,  \* values of an entry's size, modified fee, sigop cost
    OptMaxWeight,             \* Options::nBlockMaxWeight (-blockmaxweight)
    MinFeeRate,               \* blockMinFeeRate, satoshis per 1000 bytes
    MAX_BLOCK_WEIGHT,
    MAX_BLOCK_SIGOPS_COST,
    MAX_CONSECUTIVE_FAILURES

ASSUME MinFeeRate \in Nat

WITNESS_SCALE_FACTOR == 4
Txs == 1 .. N
NoEntry == [size |-> 0, fee |-> -1, sigops |-> 0]   \* not in mapModifiedTx

\* Constructor: limit weight to between 4K and MAX_BLOCK_WEIGHT-4K.
nBlockMaxWeight == Max({4000, Min({MAX_BLOCK_WEIGHT - 4000, OptMaxWeight})})

\* CFeeRate::GetFee: rate * size / 1000, at least 1 satoshi for a nonzero size.
GetFee(size) ==
    LET fee == (MinFeeRate * size) \div 1000
    IN IF fee = 0 /\ size # 0 /\ MinFeeRate > 0 THEN 1 ELSE fee

VARIABLES
    mempool,             \* [Txs -> entry]; unchanged during the loop
    vtx,                 \* pblock->vtx after the coinbase, in order
    nBlockWeight, nBlockSigOpsCost, nFees,
    mapModifiedTx,       \* [Txs -> package aggregates, or NoEntry]
    failedTx,
    mi,                  \* position of the ancestor_score iterator over mapTx
    nConsecutiveFailed,
    pc                   \* "loop", or how addPackageTxs ended

vars == <<mempool, vtx, nBlockWeight, nBlockSigOpsCost, nFees, mapModifiedTx,
          failedTx, mi, nConsecutiveFailed, pc>>

EntryType == [size : SizeIn, fee : FeeIn, sigops : SigOpsIn, final : BOOLEAN, anc : SUBSET Txs]

\* Ancestor relations: irreflexive and transitive.
AncestorSets ==
    {anc \in [Txs -> SUBSET Txs] :
        \A t \in Txs : t \notin anc[t] /\ \A a \in anc[t] : anc[a] \subseteq anc[t]}

Entries ==
    {[t \in Txs |-> [size |-> size[t], fee |-> fee[t], sigops |-> sigops[t],
                     final |-> final[t], anc |-> anc[t]]] :
        anc \in AncestorSets, size \in [Txs -> SizeIn], fee \in [Txs -> FeeIn],
        sigops \in [Txs -> SigOpsIn], final \in [Txs -> BOOLEAN]}

inBlock == ToSet(vtx)
Descendants(t) == {d \in Txs : t \in mempool[d].anc}

\* Size, fee and sigops summed over a set of entries.
Aggregate(S) ==
    [size   |-> MapThenSumSet(LAMBDA x : mempool[x].size, S),
     fee    |-> MapThenSumSet(LAMBDA x : mempool[x].fee, S),
     sigops |-> MapThenSumSet(LAMBDA x : mempool[x].sigops, S)]

\* The mapTx entry's ...WithAncestors fields (CTxMemPoolModifiedEntry(iter)).
WithAncestors(t) == Aggregate({t} \cup mempool[t].anc)

Minus(p, q) == [size |-> p.size - q.size, fee |-> p.fee - q.fee, sigops |-> p.sigops - q.sigops]

\* a's feerate above b's, ties to the lower txid.
RateAbove(fa, sa, ta, fb, sb, tb) == fa * sb > fb * sa \/ (fa * sb = fb * sa /\ ta < tb)

\* mapTx ancestor_score: the lower of the entry's own and its ancestor feerate.
AncestorScore(t) ==
    LET own == mempool[t]  anc == WithAncestors(t)
    IN IF own.fee * anc.size > anc.fee * own.size THEN anc ELSE own

ScoreOrder ==
    SetToSortSeq(Txs, LAMBDA a, b : RateAbove(AncestorScore(a).fee, AncestorScore(a).size, a,
                                              AncestorScore(b).fee, AncestorScore(b).size, b))

\* CompareModifiedEntry: the package feerate.
CompareModifiedEntry(p, a, q, b) == RateAbove(p.fee, p.size, a, q.fee, q.size, b)

ModifiedSet == {t \in Txs : mapModifiedTx[t] # NoEntry}

BestModified ==
    CHOOSE t \in ModifiedSet : \A u \in ModifiedSet \ {t} :
        CompareModifiedEntry(mapModifiedTx[t], t, mapModifiedTx[u], u)

\* SkipMapTxEntry: stale (in mapModifiedTx), already in the block, or failed.
SkipMapTxEntry(t) == mapModifiedTx[t] # NoEntry \/ t \in inBlock \/ t \in failedTx

\* CalculateMemPoolAncestors, onlyUnconfirmed, then ancestors.insert(iter).
Package(t) == ({t} \cup mempool[t].anc) \ inBlock

TestPackageInclusive(packageSize, packageSigOpsCost) ==
    /\ nBlockWeight + WITNESS_SCALE_FACTOR * packageSize <= nBlockMaxWeight
    /\ nBlockSigOpsCost + packageSigOpsCost <= MAX_BLOCK_SIGOPS_COST

TestPackage(packageSize, packageSigOpsCost) ==
    /\ nBlockWeight + WITNESS_SCALE_FACTOR * packageSize < nBlockMaxWeight
    /\ nBlockSigOpsCost + packageSigOpsCost < MAX_BLOCK_SIGOPS_COST

TestPackageTransactions(P) == \A t \in P : mempool[t].final

SortForBlockByTxid(P) == SetToSortSeq(P, LAMBDA a, b : a < b)

\* SortForBlock: by ancestor count (CompareTxIterByAncestorCount), ties by txid.
SortForBlock(P) ==
    SetToSortSeq(P, LAMBDA a, b :
        \/ Cardinality(mempool[a].anc) < Cardinality(mempool[b].anc)
        \/ Cardinality(mempool[a].anc) = Cardinality(mempool[b].anc) /\ a < b)

UpdatePackagesForAddedFreshUnreduced(alreadyAdded, mod) ==
    [d \in Txs |->
        LET hit == mempool[d].anc \cap alreadyAdded
        IN IF d \in alreadyAdded \/ hit = {} THEN mod[d]
           ELSE IF mod[d] = NoEntry THEN WithAncestors(d) ELSE Minus(mod[d], Aggregate(hit))]

\* UpdatePackagesForAdded: every descendant d of the added set gets an entry
\* (a fresh CTxMemPoolModifiedEntry(d) if it has none) from which each added
\* ancestor of d is subtracted.
UpdatePackagesForAdded(alreadyAdded, mod) ==
    [d \in Txs |->
        LET hit == mempool[d].anc \cap alreadyAdded
        IN IF d \in alreadyAdded \/ hit = {} THEN mod[d]
           ELSE Minus(IF mod[d] = NoEntry THEN WithAncestors(d) ELSE mod[d], Aggregate(hit))]

\* resetBlock, then addPackageTxs' initial UpdatePackagesForAdded(inBlock), a
\* no-op on the empty block.
Init ==
    /\ mempool \in Entries
    /\ vtx = <<>>
    /\ nBlockWeight = 4000
    /\ nBlockSigOpsCost = 400
    /\ nFees = 0
    /\ mapModifiedTx = [t \in Txs |-> NoEntry]
    /\ failedTx = {}
    /\ mi = 1
    /\ nConsecutiveFailed = 0
    /\ pc = "loop"

\* The while condition fails: mapTx walked and mapModifiedTx empty.
LoopExit ==
    /\ pc = "loop"
    /\ mi > N /\ ModifiedSet = {}
    /\ pc' = "exhausted"
    /\ UNCHANGED <<mempool, vtx, nBlockWeight, nBlockSigOpsCost, nFees, mapModifiedTx,
                   failedTx, mi, nConsecutiveFailed>>

SkipEntry ==
    /\ pc = "loop"
    /\ mi <= N /\ SkipMapTxEntry(ScoreOrder[mi])
    /\ mi' = mi + 1
    /\ UNCHANGED <<mempool, vtx, nBlockWeight, nBlockSigOpsCost, nFees, mapModifiedTx,
                   failedTx, nConsecutiveFailed, pc>>

\* The failure branches erase modit and remember iter when it came from
\* mapModifiedTx.
EraseFailed(iter, fUsingModified) ==
    /\ mapModifiedTx' = IF fUsingModified THEN [mapModifiedTx EXCEPT ![iter] = NoEntry]
                        ELSE mapModifiedTx
    /\ failedTx' = IF fUsingModified THEN failedTx \cup {iter} ELSE failedTx

FeeTooLowInclusive(pkg, nextMi) ==
    /\ pkg.fee <= GetFee(pkg.size)
    /\ pc' = "lowfee"
    /\ mi' = nextMi
    /\ UNCHANGED <<mempool, vtx, nBlockWeight, nBlockSigOpsCost, nFees, mapModifiedTx,
                   failedTx, nConsecutiveFailed>>

\* "Everything else we might consider has a lower fee rate": return.
FeeTooLow(pkg, nextMi) ==
    /\ pkg.fee < GetFee(pkg.size)
    /\ pc' = "lowfee"
    /\ mi' = nextMi
    /\ UNCHANGED <<mempool, vtx, nBlockWeight, nBlockSigOpsCost, nFees, mapModifiedTx,
                   failedTx, nConsecutiveFailed>>

PackageTooBig(iter, fUsingModified, pkg, nextMi) ==
    /\ pkg.fee >= GetFee(pkg.size)
    /\ ~TestPackage(pkg.size, pkg.sigops)
    /\ EraseFailed(iter, fUsingModified)
    /\ nConsecutiveFailed' = nConsecutiveFailed + 1
    /\ pc' = IF nConsecutiveFailed' > MAX_CONSECUTIVE_FAILURES
                /\ nBlockWeight > nBlockMaxWeight - 4000
             THEN "gaveup" ELSE "loop"
    /\ mi' = nextMi
    /\ UNCHANGED <<mempool, vtx, nBlockWeight, nBlockSigOpsCost, nFees>>

PackageNotFinal(iter, fUsingModified, pkg, nextMi) ==
    /\ pkg.fee >= GetFee(pkg.size)
    /\ TestPackage(pkg.size, pkg.sigops)
    /\ ~TestPackageTransactions(Package(iter))
    /\ EraseFailed(iter, fUsingModified)
    /\ mi' = nextMi
    /\ UNCHANGED <<mempool, vtx, nBlockWeight, nBlockSigOpsCost, nFees, nConsecutiveFailed, pc>>

\* AddToBlock for each entry of SortForBlock(package), erasing it from
\* mapModifiedTx, then UpdatePackagesForAdded(ancestors).
AddPackage(iter, pkg, nextMi) ==
    /\ pkg.fee >= GetFee(pkg.size)
    /\ TestPackage(pkg.size, pkg.sigops)
    /\ TestPackageTransactions(Package(iter))
    /\ LET P == Package(iter)
           added == Aggregate(P)
       IN /\ vtx' = vtx \o SortForBlock(P)
          /\ nBlockWeight' = nBlockWeight + WITNESS_SCALE_FACTOR * added.size
          /\ nBlockSigOpsCost' = nBlockSigOpsCost + added.sigops
          /\ nFees' = nFees + added.fee
          /\ mapModifiedTx' =
                UpdatePackagesForAdded(P, [t \in Txs |-> IF t \in P THEN NoEntry
                                                         ELSE mapModifiedTx[t]])
    /\ nConsecutiveFailed' = 0
    /\ mi' = nextMi
    /\ UNCHANGED <<mempool, failedTx, pc>>

\* ++mi happens only when the mapTx entry is the one evaluated.
AdvanceAlways(fUsingModified) == mi + 1
AdvanceNever(fUsingModified) == mi
Advance(fUsingModified) == IF fUsingModified THEN mi ELSE mi + 1

\* One pass of the loop body once mi is not stale: pick the mapTx entry or
\* the best mapModifiedTx entry, whichever scores higher, and try its package.
Evaluate ==
    /\ pc = "loop"
    /\ mi <= N \/ ModifiedSet # {}
    /\ mi <= N => ~SkipMapTxEntry(ScoreOrder[mi])
    /\ LET fUsingModified ==
             \/ mi > N
             \/ /\ ModifiedSet # {}
                /\ CompareModifiedEntry(mapModifiedTx[BestModified], BestModified,
                                        WithAncestors(ScoreOrder[mi]), ScoreOrder[mi])
           iter == IF fUsingModified THEN BestModified ELSE ScoreOrder[mi]
           pkg == IF fUsingModified THEN mapModifiedTx[iter] ELSE WithAncestors(iter)
           nextMi == Advance(fUsingModified)
       IN \/ FeeTooLow(pkg, nextMi)
          \/ PackageTooBig(iter, fUsingModified, pkg, nextMi)
          \/ PackageNotFinal(iter, fUsingModified, pkg, nextMi)
          \/ AddPackage(iter, pkg, nextMi)

Next == LoopExit \/ SkipEntry \/ Evaluate

\* The loop runs to completion in the thread that called CreateNewBlock.
Spec == Init /\ [][Next]_vars /\ WF_vars(Next)

-----------------------------------------------------------------------------
TypeOK ==
    /\ mempool \in [Txs -> EntryType]
    /\ vtx \in Seq(Txs) /\ Len(vtx) <= N
    /\ {nBlockWeight, nBlockSigOpsCost, nFees, nConsecutiveFailed} \subseteq Int
    /\ mapModifiedTx \in [Txs -> [size : Int, fee : Int, sigops : Int]]
    /\ failedTx \subseteq Txs
    /\ mi \in 1 .. N + 1
    /\ pc \in {"loop", "exhausted", "lowfee", "gaveup"}

(***************************************************************************)
(* BlockIsTopological: the template lists every transaction at most once   *)
(* and after all of its in-mempool ancestors, as block validity requires.  *)
(* It rests on the package being all unconfirmed ancestors                 *)
(* (onlyUnconfirmed) and on SortForBlock's ancestor-count order.          *)
(***************************************************************************)
BlockIsTopological ==
    \A i \in 1 .. Len(vtx) :
        mempool[vtx[i]].anc \subseteq {vtx[j] : j \in 1 .. i - 1} /\ vtx[i] \notin ToSet(SubSeq(vtx, 1, i - 1))

(***************************************************************************)
(* BlockWithinLimits: the weight and sigop cost of what the template       *)
(* really holds (coinbase reserve included) stay below nBlockMaxWeight and *)
(* MAX_BLOCK_SIGOPS_COST.  TestPackage admits a package on the aggregates  *)
(* kept in mapTx or mapModifiedTx, so this fails if those are ever smaller *)
(* than the package AddToBlock actually appends.                           *)
(***************************************************************************)
BlockWithinLimits ==
    /\ 4000 + WITNESS_SCALE_FACTOR * Aggregate(inBlock).size < nBlockMaxWeight
    /\ 400 + Aggregate(inBlock).sigops < MAX_BLOCK_SIGOPS_COST

(***************************************************************************)
(* ModifiedEntriesCurrent: an entry of mapModifiedTx that has not failed   *)
(* holds exactly the size, fee and sigops of its ancestors not yet in the  *)
(* block, itself included, after any number of packages were added.       *)
(***************************************************************************)
ModifiedEntriesCurrent ==
    \A t \in ModifiedSet \ failedTx : mapModifiedTx[t] = Aggregate(Package(t))

(***************************************************************************)
(* NothingLeftBehind: when addPackageTxs ends, either because mapTx and    *)
(* mapModifiedTx are exhausted or by the early return whose comment says   *)
(* "Everything else we might consider has a lower fee rate", no           *)
(* transaction left out could still be added: its package (its ancestors  *)
(* not in the block) fails TestPackage, has a non-final member, or pays    *)
(* less than blockMinFeeRate.                                              *)
(***************************************************************************)
Addable(t) ==
    LET pkg == Aggregate(Package(t))
    IN /\ pkg.fee >= GetFee(pkg.size)
       /\ TestPackage(pkg.size, pkg.sigops)
       /\ TestPackageTransactions(Package(t))

NothingLeftBehind ==
    pc \in {"exhausted", "lowfee"} => \A t \in Txs \ inBlock : ~Addable(t)

(***************************************************************************)
(* Progress of addPackageTxs, shown with a ranking function.  While the    *)
(* loop runs, each step either adds a package, so fewer transactions are   *)
(* out of the block, or leaves the block as it is and lowers the number    *)
(* of mapTx entries still ahead of mi, plus the mapModifiedTx entries,     *)
(* plus the transactions neither added nor failed.  A failed              *)
(* mapModifiedTx entry may be re-inserted by UpdatePackagesForAdded, but   *)
(* only by a step that adds a package.                                     *)
(***************************************************************************)
OutOfBlock == Cardinality(Txs \ inBlock)

Pending == (N + 1 - mi) + Cardinality(ModifiedSet) + Cardinality(Txs \ (inBlock \cup failedTx))

\* LoopMeasureDecreases: every step that stays in the loop lowers
\* (OutOfBlock, Pending) lexicographically, whichever branch it takes.
\* Both are natural numbers, so the loop cannot run for ever.  That a loop
\* state always has a step is not checked by this run (a returned loop has
\* none, so the cfg turns deadlock checking off); it follows from the
\* branches: LoopExit when both indexes are used up, otherwise SkipEntry or
\* Evaluate, whose outcomes cover every case of the package tests.
LoopMeasureDecreases ==
    [][pc = "loop" /\ pc' = "loop" =>
         \/ OutOfBlock' < OutOfBlock
         \/ OutOfBlock' = OutOfBlock /\ Pending' < Pending]_vars

=============================================================================
