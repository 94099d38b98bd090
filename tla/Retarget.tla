------------------------------ MODULE Retarget ------------------------------
(***************************************************************************)
(* The retarget engine of pow.cpp (src/unnamed/part_003): the nBits a new  *)
(* block of either kind must carry, as a function of the chain it extends. *)
(* The state is the active chain (height, kind, time, nBits per block);    *)
(* a step attaches a block whose nBits GetNextTargetRequired computes, or  *)
(* disconnects the tip.  Block connection (validation.cpp) is not among   *)
(* the sources; it is reduced to attaching the tip with the required bits *)
(* or removing it.  Block times are inputs: the code accepts any time the  *)
(* validation rules let through, including times earlier than the parent. *)
(***************************************************************************)
EXTENDS Integers, Sequences, SequencesExt, FiniteSets, ArithUint256

CONSTANTS
    Params,     \* the Consensus::Params record of one network (ChainParams)
    Kinds,      \* block kinds attached: TRUE proof of stake, FALSE proof of work
    Spacings,   \* time from the tip to the new block, in seconds
    MaxBlocks   \* longest chain, genesis included (a bound)

VARIABLE chain  \* Seq([pos, time, bits]); chain[1] is the genesis block

\* GetTargetLimit: posLimit or powLimit as an arith_uint256.
GetTargetLimit(fProofOfStake) ==
    IF fProofOfStake THEN Params.posLimit ELSE Params.powLimit

(***************************************************************************)
(* GetLastBlockIndex (validation.cpp): walk back from block i to the last  *)
(* block of the given kind, stopping at the genesis block (which has no    *)
(* pprev) whatever its kind.                                               *)
(***************************************************************************)
GetLastBlockIndexAnyKind(ch, i, fProofOfStake) == i

RECURSIVE GetLastBlockIndex(_, _, _)
GetLastBlockIndex(ch, i, fProofOfStake) ==
    IF i > 1 /\ ch[i].pos # fProofOfStake
    THEN GetLastBlockIndex(ch, i - 1, fProofOfStake)
    ELSE i

\* The clamp of the measured spacing into [.., 10 * nTargetSpacing];
\* a negative spacing counts as one target spacing.
ClampedSpacing(nActualSpacing) ==
    IF nActualSpacing < 0 THEN Params.nTargetSpacing
    ELSE IF nActualSpacing > Params.nTargetSpacing * 10 THEN Params.nTargetSpacing * 10
    ELSE nActualSpacing

Interval == Params.nTargetTimespan \div Params.nTargetSpacing

CalculateNextTargetRequiredOnce(last, nFirstBlockTime) ==
    LET fProofOfStake == last.pos
        s             == ClampedSpacing(last.time - nFirstBlockTime)
        bnTargetLimit == GetTargetLimit(fProofOfStake)
        bnMul         == MulSmall(SetCompact(last.bits).val,
                                  (Interval - 1) * Params.nTargetSpacing + s, WIDTH)
        bnNew         == DivSmall(bnMul, (Interval + 1) * Params.nTargetSpacing)
    IN IF (~fProofOfStake /\ Params.fPowNoRetargeting) \/ (fProofOfStake /\ Params.fPosNoRetargeting)
       THEN last.bits
       ELSE GetCompact(IF IsZero(bnNew) \/ LessThan(bnTargetLimit, bnNew) THEN bnTargetLimit ELSE bnNew)

(***************************************************************************)
(* CalculateNextTargetRequired(pindexLast, nFirstBlockTime): unchanged     *)
(* nBits when the kind does not retarget; otherwise the previous target    *)
(* times ((nInterval-1)*spacing + 2*actual), then divided by               *)
(* (nInterval+1)*spacing, in arith_uint256: the product is truncated to   *)
(* 256 bits.  A zero or above-limit result becomes the limit.              *)
(***************************************************************************)
CalculateNextTargetRequired(last, nFirstBlockTime) ==
    LET fProofOfStake == last.pos
        s             == ClampedSpacing(last.time - nFirstBlockTime)
        bnTargetLimit == GetTargetLimit(fProofOfStake)
        bnMul         == MulSmall(SetCompact(last.bits).val,
                                  (Interval - 1) * Params.nTargetSpacing + s + s, WIDTH)
        bnNew         == DivSmall(bnMul, (Interval + 1) * Params.nTargetSpacing)
    IN IF (~fProofOfStake /\ Params.fPowNoRetargeting) \/ (fProofOfStake /\ Params.fPosNoRetargeting)
       THEN last.bits
       ELSE GetCompact(IF IsZero(bnNew) \/ LessThan(bnTargetLimit, bnNew) THEN bnTargetLimit ELSE bnNew)

(***************************************************************************)
(* GetNextTargetRequired(pindexLast = tip of ch, fProofOfStake): the limit *)
(* for the genesis block, and for the first and second block of a kind    *)
(* (the block found by GetLastBlockIndex, or the one before it, is the     *)
(* genesis block); otherwise the retarget from the last two blocks of the  *)
(* kind.                                                                   *)
(***************************************************************************)
GetNextTargetRequired(ch, fProofOfStake) ==
    LET nTargetLimit == GetCompact(GetTargetLimit(fProofOfStake))
        prev         == GetLastBlockIndex(ch, Len(ch), fProofOfStake)
        prevPrev     == GetLastBlockIndex(ch, prev - 1, fProofOfStake)
    IN IF ch = <<>> THEN nTargetLimit
       ELSE IF prev = 1 THEN nTargetLimit
       ELSE IF prevPrev = 1 THEN nTargetLimit
       ELSE CalculateNextTargetRequired(ch[prev], ch[prevPrev].time)

\* The genesis block of the network (CreateGenesisBlock in chainparams.cpp).
Init == chain = << [pos |-> FALSE, time |-> Params.genesisTime, bits |-> Params.genesisBits] >>

\* A block of kind fProofOfStake, dt seconds after the tip, is connected
\* carrying the nBits the retarget engine requires of it.
AddBlock(fProofOfStake, dt) ==
    /\ Len(chain) < MaxBlocks
    /\ chain' = Append(chain, [pos  |-> fProofOfStake,
                               time |-> chain[Len(chain)].time + dt,
                               bits |-> GetNextTargetRequired(chain, fProofOfStake)])

\* The tip is disconnected (a reorganisation); the genesis block stays.
DisconnectTip ==
    /\ Len(chain) > 1
    /\ chain' = Front(chain)

Next == (\E f \in Kinds, dt \in Spacings : AddBlock(f, dt)) \/ DisconnectTip

Spec == Init /\ [][Next]_chain

\* Every block's nBits is a compact value with the sign bit clear.
TypeOK ==
    /\ chain \in Seq([pos : BOOLEAN, time : Int, bits : Int])
    /\ 1 <= Len(chain) /\ Len(chain) <= MaxBlocks
    /\ \A i \in 1 .. Len(chain) : IsCompact(chain[i].bits)

(***************************************************************************)
(* The retarget of spec section 4.2, in exact arithmetic.  The blocks of   *)
(* the kind are taken from the chain's history as a set (the genesis      *)
(* block, which has no parent to measure from, is not counted); with     *)
(* fewer than two the limit applies.  The product is computed without a   *)
(* width limit (34 bytes hold any 256-bit target times the largest        *)
(* multiplier), then saturated to (0, limit] and encoded.                 *)
(***************************************************************************)
SpecNextBits(ch, fProofOfStake) ==
    LET limit    == GetTargetLimit(fProofOfStake)
        ofKind   == {j \in 2 .. Len(ch) : ch[j].pos = fProofOfStake}
        prev     == CHOOSE j \in ofKind : \A k \in ofKind : k <= j
        prevPrev == CHOOSE j \in ofKind \ {prev} : \A k \in ofKind \ {prev} : k <= j
        last     == ch[prev]
        s        == ClampedSpacing(last.time - ch[prevPrev].time)
        exact    == DivSmall(MulSmall(SetCompact(last.bits).val,
                                      (Interval - 1) * Params.nTargetSpacing + 2 * s, 34),
                             (Interval + 1) * Params.nTargetSpacing)
        noRetarget == IF fProofOfStake THEN Params.fPosNoRetargeting ELSE Params.fPowNoRetargeting
    IN IF Cardinality(ofKind) < 2 THEN GetCompact(limit)
       ELSE IF noRetarget THEN last.bits
       ELSE GetCompact(IF IsZero(exact) \/ LessThan(limit, exact) THEN limit ELSE exact)

(***************************************************************************)
(* RetargetMatchesSpec: every block's nBits is the target spec section 4.2 *)
(* prescribes for it: the previous target scaled by the exponential moving *)
(* average of the spacing and saturated to the limit.  It fails if         *)
(* CalculateNextTargetRequired's 256-bit product wraps, or if the clamp,   *)
(* the block selection or the saturation differ from the specification.   *)
(***************************************************************************)
RetargetMatchesSpec ==
    \A i \in 2 .. Len(chain) :
        chain[i].bits = SpecNextBits(SubSeq(chain, 1, i - 1), chain[i].pos)

(***************************************************************************)
(* PosRetargetMatchesSpec: the same for every proof-of-stake block, with   *)
(* proof-of-work blocks interleaved.  Each stake block must retarget from  *)
(* the last two stake blocks, found by GetLastBlockIndex walking back past *)
(* the work blocks, and the first two get posLimit.                        *)
(***************************************************************************)
PosRetargetMatchesSpec ==
    \A i \in 2 .. Len(chain) :
        chain[i].pos => chain[i].bits = SpecNextBits(SubSeq(chain, 1, i - 1), TRUE)

=============================================================================
