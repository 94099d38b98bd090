------------------------------- MODULE Miners -------------------------------
(***************************************************************************)
(* The two block-producing threads of miner.cpp (src/unnamed/part_005)     *)
(* against the rest of the node: ThreadStakeMiner (CreateNewBlock,         *)
(* SignBlock, CheckStake) and SoloMiner (CreateNewBlock, the hashing loop, *)
(* ProcessBlockFound), with peers connecting blocks, the wallet spending   *)
(* coins and the adjusted clock advancing, all interleaved.  cs_main is    *)
(* not a variable: every step that holds it in the code (CreateNewBlock,   *)
(* CheckStake's "found a solution" block, ProcessBlockFound's stale check, *)
(* ProcessNewBlock, a peer's block, a wallet spend) is one atomic step,    *)
(* and the unlocked reads of chainActive.Tip() are steps of their own.    *)
(*                                                                         *)
(* Blocks are kept as a sequence of [parent, time]; block 1 is genesis at  *)
(* time 0.  The chain never reorganises (peers only extend the tip), so    *)
(* the active chain is the ancestry of the tip.  Validation               *)
(* (ProcessNewBlock, GetMedianTimePast, FutureDrift) is not among the      *)
(* sources and is reduced to what the miners' properties need.            *)
(***************************************************************************)
EXTENDS Integers, Sequences, SequencesExt, FiniteSets, TLC

CONSTANTS
    Coins,               \* the wallet's stakeable outputs
    NoCoin,              \* marks a block that stakes no coin (proof of work)
    MaxBlocks,           \* most blocks, genesis included, at which miners and
                         \* peers stop starting a block (a bound)
    MaxTime,             \* last value of the adjusted clock (a bound)
    Drift,               \* FutureDrift(t) = t + Drift
    StakeTimestampMask,  \* STAKE_TIMESTAMP_MASK, 2^k - 1
    NonceRounds          \* hashing rounds of 256 nonces before nNonce reaches
                         \* 0xffff0000 (a bound)

VARIABLES
    blocks,     \* the block index: Seq([parent, time])
    tip,        \* chainActive.Tip()
    now,        \* GetAdjustedTime()
    spent,      \* coins the wallet has spent in a transaction
    staked,     \* coins spent by the coinstake of a connected block
    submitted,  \* every block a miner handed to ProcessNewBlock
    staker,     \* ThreadStakeMiner's locals: [pc, parent, time, prev, coin]
    solo        \* SoloMiner's locals: [pc, parent, time, prev, nonce], nonce
                \* counting rounds of 256 nNonce values

vars == <<blocks, tip, now, spent, staked, submitted, staker, solo>>

(***************************************************************************)
(* GetMedianTimePast (chain.h): the median of the times of the block and   *)
(* up to ten ancestors, sorted, the element at index count / 2.            *)
(***************************************************************************)
RECURSIVE AncestorTimes(_, _)
AncestorTimes(b, k) ==
    IF b = 0 \/ k = 0 THEN <<>>
    ELSE <<blocks[b].time>> \o AncestorTimes(blocks[b].parent, k - 1)

GetMedianTimePast(b) ==
    LET s == SortSeq(AncestorTimes(b, 11), <) IN s[(Len(s) \div 2) + 1]

\* GetPastTimeLimit: the median time past.
GetPastTimeLimit(b) == GetMedianTimePast(b)

FutureDrift(t) == t + Drift

\* HaveAvailableCoinsForStaking: an output the wallet has not spent.
Available == Coins \ (spent \cup staked)

(***************************************************************************)
(* ProcessNewBlock, reduced: a block whose time is after its parent's      *)
(* median time past is stored, and becomes the tip if it extends the tip   *)
(* (equal work per block: a block beside the tip never wins).  Every      *)
(* submission is recorded with the tip it met.                             *)
(***************************************************************************)
Submit(by, parent, prev, time, coin) ==
    /\ submitted' = submitted \cup {[by |-> by, parent |-> parent, prev |-> prev, time |-> time,
                                    coin |-> coin, onTip |-> parent = tip]}
    /\ IF time > GetMedianTimePast(parent)
       THEN /\ blocks' = Append(blocks, [parent |-> parent, time |-> time])
            /\ tip' = IF parent = tip THEN Len(blocks) + 1 ELSE tip
            /\ staked' = IF coin # NoCoin /\ parent = tip THEN staked \cup {coin} ELSE staked
       ELSE UNCHANGED <<blocks, tip, staked>>

Init ==
    /\ blocks = << [parent |-> 0, time |-> 0] >>
    /\ tip = 1
    /\ now = 0
    /\ spent = {}
    /\ staked = {}
    /\ submitted = {}
    /\ staker = [pc |-> "poll", parent |-> 0, time |-> 0, prev |-> 0, coin |-> NoCoin]
    /\ solo = [pc |-> "read", parent |-> 0, time |-> 0, prev |-> 0, nonce |-> 0]

-----------------------------------------------------------------------------
(* The environment. *)

\* The adjusted clock advances.
Tick ==
    /\ now < MaxTime
    /\ now' = now + 1
    /\ UNCHANGED <<blocks, tip, spent, staked, submitted, staker, solo>>

\* A peer's block extends the tip, with a time validation accepts.
PeerBlock(t) ==
    /\ Len(blocks) < MaxBlocks
    /\ t > GetMedianTimePast(tip) /\ t <= FutureDrift(now)
    /\ blocks' = Append(blocks, [parent |-> tip, time |-> t])
    /\ tip' = Len(blocks) + 1
    /\ UNCHANGED <<now, spent, staked, submitted, staker, solo>>

\* The wallet spends an output in a transaction (under cs_main, cs_wallet).
WalletSpend(c) ==
    /\ c \in Available
    /\ spent' = spent \cup {c}
    /\ UNCHANGED <<blocks, tip, now, staked, submitted, staker, solo>>

-----------------------------------------------------------------------------
(* ThreadStakeMiner.  Its waits at the top of the loop (wallet locked, no  *)
(* peers, initial block download) are left out: they only delay it.       *)

\* CreateNewBlock(fProofOfStake): under cs_main, a template on the tip with
\* nTime the adjusted time with the STAKE_TIMESTAMP_MASK bits cleared.
StakeTimeUnmasked(t) == t

StakeTime(t) == t - (t % (StakeTimestampMask + 1))

\* The loop's body when HaveAvailableCoinsForStaking(): build the template.
\* Without an available coin the loop goes straight round again, which
\* changes nothing (a stuttering step).
StakerCreateNewBlock ==
    /\ staker.pc = "poll"
    /\ Available # {}
    /\ staker' = [staker EXCEPT !.pc = "read", !.parent = tip, !.time = StakeTime(now)]
    /\ UNCHANGED <<blocks, tip, now, spent, staked, submitted, solo>>

\* pindexPrev = chainActive.Tip(), read again after CreateNewBlock
\* returned and without cs_main.
StakerReadTip ==
    /\ staker.pc = "read"
    /\ staker' = [staker EXCEPT !.pc = "sign", !.prev = tip]
    /\ UNCHANGED <<blocks, tip, now, spent, staked, submitted, solo>>

\* SignBlock's timestamp checks of the coinstake and block time against
\* pindexPrev (the loop repeats the block-time check; it cannot fail when
\* SignBlock passed, as both read the same pindexPrev and nTime).
SignTimeOk(t, prev) ==
    /\ t >= GetMedianTimePast(prev) + 1
    /\ t > blocks[prev].time
    /\ FutureDrift(t) >= blocks[prev].time

SignBlockNoTimeCheck(c) ==
    /\ staker.pc = "sign"
    /\ c \in Available \cup {NoCoin}
    /\ c \in Available \cup {NoCoin}
    /\ IF c = NoCoin
       THEN staker' = [staker EXCEPT !.pc = "poll"]
       ELSE staker' = [staker EXCEPT !.pc = "check", !.coin = c]
    /\ UNCHANGED <<blocks, tip, now, spent, staked, submitted, solo>>

(***************************************************************************)
(* SignBlock: CreateCoinStake finds a kernel for the available coin c, or  *)
(* none (c = NoCoin); a signed block whose times fail the checks against   *)
(* pindexPrev is dropped.  Either way a failure sleeps and polls again.    *)
(***************************************************************************)
SignBlock(c) ==
    /\ staker.pc = "sign"
    /\ c \in Available \cup {NoCoin}
    /\ IF c # NoCoin /\ SignTimeOk(staker.time, staker.prev)
       THEN staker' = [staker EXCEPT !.pc = "check", !.coin = c]
       ELSE staker' = [staker EXCEPT !.pc = "poll"]
    /\ UNCHANGED <<blocks, tip, now, spent, staked, submitted, solo>>

CheckStakeAgainstPrev ==
    /\ staker.pc = "check"
    /\ Len(blocks) < MaxBlocks
    /\ staker' = [staker EXCEPT !.pc = "poll"]
    /\ IF staker.prev # tip \/ staker.coin \in spent \cup staked
       THEN UNCHANGED <<blocks, tip, staked, submitted>>
       ELSE Submit("staker", staker.parent, staker.prev, staker.time, staker.coin)
    /\ UNCHANGED <<now, spent, solo>>

CheckStakeNoSpentCheck ==
    /\ staker.pc = "check"
    /\ Len(blocks) < MaxBlocks
    /\ staker' = [staker EXCEPT !.pc = "poll"]
    /\ IF staker.parent # tip
       THEN UNCHANGED <<blocks, tip, staked, submitted>>
       ELSE Submit("staker", staker.parent, staker.prev, staker.time, staker.coin)
    /\ UNCHANGED <<now, spent, solo>>

(***************************************************************************)
(* CheckStake, under cs_main from the stale check through                  *)
(* ProcessNewBlock: a block whose parent is no longer the tip, or whose    *)
(* stake the wallet has since spent, is dropped; otherwise it is           *)
(* processed.  The thread then sleeps and polls again.                     *)
(***************************************************************************)
CheckStake ==
    /\ staker.pc = "check"
    /\ Len(blocks) < MaxBlocks
    /\ staker' = [staker EXCEPT !.pc = "poll"]
    /\ IF staker.parent # tip \/ staker.coin \in spent \cup staked
       THEN UNCHANGED <<blocks, tip, staked, submitted>>
       ELSE Submit("staker", staker.parent, staker.prev, staker.time, staker.coin)
    /\ UNCHANGED <<now, spent, solo>>

-----------------------------------------------------------------------------
(* SoloMiner. *)

UpdateTimeClockOnly(prev) == now

\* UpdateTime: the later of the past-time limit plus one and the clock.
UpdateTime(prev) == Max({GetPastTimeLimit(prev) + 1, now})

\* pindexPrev = chainActive.Tip(), read before CreateNewBlock.
SoloReadTip ==
    /\ solo.pc = "read"
    /\ solo' = [solo EXCEPT !.pc = "create", !.prev = tip]
    /\ UNCHANGED <<blocks, tip, now, spent, staked, submitted, staker>>

\* CreateNewBlock on the tip as it is under cs_main, its time set by
\* UpdateTime; then TestBlockValidity against pindexPrev throws if the tip
\* moved in between, and the outer loop starts again.
SoloCreateNewBlock ==
    /\ solo.pc = "create"
    /\ solo' = [solo EXCEPT !.pc = IF tip = solo.prev THEN "hash" ELSE "read",
                            !.parent = tip, !.time = UpdateTime(tip), !.nonce = 0]
    /\ UNCHANGED <<blocks, tip, now, spent, staked, submitted, staker>>

\* A hash meets the target: ProcessBlockFound checks under cs_main that the
\* block is not stale, and releases the lock.
ProcessBlockFound ==
    /\ solo.pc = "hash"
    /\ Len(blocks) < MaxBlocks
    /\ solo' = [solo EXCEPT !.pc = IF solo.parent = tip THEN "submit" ELSE "read"]
    /\ UNCHANGED <<blocks, tip, now, spent, staked, submitted, staker>>

\* ProcessBlockFound's ProcessNewBlock, outside cs_main.  The miner keeps
\* hashing the same block unless the tip has moved.
SoloProcessNewBlock ==
    /\ solo.pc = "submit"
    /\ Submit("solo", solo.parent, solo.prev, solo.time, NoCoin)
    /\ solo' = [solo EXCEPT !.pc = IF tip' = solo.prev THEN "hash" ELSE "read"]
    /\ UNCHANGED <<now, spent, staker>>

\* The end of a hashing round with nonces left and the tip unchanged:
\* UpdateTime (the clock never runs backwards here, so it never breaks).
SoloUpdateTime ==
    /\ solo.pc = "hash"
    /\ solo.nonce < NonceRounds
    /\ tip = solo.prev
    /\ solo' = [solo EXCEPT !.nonce = @ + 1,
                            !.time = Max({solo.time, UpdateTime(solo.prev)})]
    /\ UNCHANGED <<blocks, tip, now, spent, staked, submitted, staker>>

\* The end of a hashing round that rebuilds the block: the tip moved, no
\* peers, the nonce range is used up, or the mempool changed for 60 s.
SoloRebuild ==
    /\ solo.pc = "hash"
    /\ solo' = [solo EXCEPT !.pc = "read"]
    /\ UNCHANGED <<blocks, tip, now, spent, staked, submitted, staker>>

-----------------------------------------------------------------------------
Next ==
    \/ Tick
    \/ \E t \in 0 .. MaxTime + Drift : PeerBlock(t)
    \/ \E c \in Coins : WalletSpend(c)
    \/ StakerCreateNewBlock
    \/ StakerReadTip
    \/ \E c \in Coins \cup {NoCoin} : SignBlock(c)
    \/ CheckStake
    \/ SoloReadTip
    \/ SoloCreateNewBlock
    \/ ProcessBlockFound
    \/ SoloProcessNewBlock
    \/ SoloUpdateTime
    \/ SoloRebuild

Spec == Init /\ [][Next]_vars

-----------------------------------------------------------------------------
\* Every local holds a block id of the index, a time or a coin, and a
\* stake template's time has the STAKE_TIMESTAMP_MASK bits clear.  A solo
\* block found below the bound may be processed after a peer's block
\* reached it, so the index may hold one block more.
TypeOK ==
    /\ blocks \in Seq([parent : 0 .. MaxBlocks, time : Nat])
    /\ Len(blocks) \in 1 .. MaxBlocks + 1
    /\ tip \in 1 .. Len(blocks)
    /\ now \in 0 .. MaxTime
    /\ spent \subseteq Coins /\ staked \subseteq Coins
    /\ staker.pc \in {"poll", "read", "sign", "check"}
    /\ staker.coin \in Coins \cup {NoCoin}
    /\ staker.time % (StakeTimestampMask + 1) = 0
    /\ solo.pc \in {"read", "create", "hash", "submit"}
    /\ solo.nonce \in 0 .. NonceRounds
    /\ {staker.parent, staker.prev, solo.parent, solo.prev} \subseteq 0 .. Len(blocks)

(***************************************************************************)
(* StakeSignedAgainstParent: every block ThreadStakeMiner hands to         *)
(* ProcessNewBlock had its times checked (SignBlock and the loop's check   *)
(* at part_005:685) against its own parent.  The check reads pindexPrev   *)
(* again, without cs_main, after CreateNewBlock fixed hashPrevBlock, so a  *)
(* peer block in between makes it check against another block.  Only     *)
(* CheckStake's comparison of hashPrevBlock (not pindexPrev) with the tip, *)
(* steps later, keeps such a block from being submitted.                   *)
(***************************************************************************)
StakeSignedAgainstParent ==
    \A s \in submitted : s.by = "staker" => s.prev = s.parent

(***************************************************************************)
(* StakeSpentOnce: no coin is both spent by a wallet transaction and       *)
(* staked by a connected block, and no coin is staked by two submitted     *)
(* blocks that met the tip: the coin CreateCoinStake chose may be spent    *)
(* by the wallet before CheckStake runs.                                    *)
(***************************************************************************)
StakeSpentOnce ==
    /\ spent \cap staked = {}
    /\ \A s1, s2 \in submitted :
          (s1.by = "staker" /\ s2.by = "staker" /\ s1.onTip /\ s2.onTip
           /\ s1.coin = s2.coin) => s1 = s2

(***************************************************************************)
(* SubmittedBlocksTimely: every block a miner submits is later than its    *)
(* parent's median time past, and a stake block is also later than its     *)
(* parent, so that no found block is wasted on a timestamp validation      *)
(* rejects.  The staker checks its times against pindexPrev, read after    *)
(* the template was built, not against the template's parent; the solo     *)
(* miner's times come from UpdateTime.                                      *)
(***************************************************************************)
SubmittedBlocksTimely ==
    \A s \in submitted :
        /\ s.time > GetMedianTimePast(s.parent)
        /\ s.by = "staker" => s.time > blocks[s.parent].time

====
