----------------------------- MODULE Governance -----------------------------
(***************************************************************************)
(* The governance store CGovernance (src/src/governance/governance.cpp):   *)
(* a LevelDB database holding four key families                            *)
(*   'N'  the number of frozen scripts (an unsigned int)                   *)
(*   'a'  script -> FreezeDetails{frozen}                                  *)
(*   'c'  (type, height) -> CostDetails{cost}                              *)
(*   'f'  height -> FeeDetails{script}                                     *)
(* Every public method reads the database, builds one CDBBatch and writes  *)
(* it, so each method is one atomic step.  The methods are written as     *)
(* pure operators from a database value to [ok, db] so that a caller      *)
(* (GovernanceChain) can apply a block's worth of them in sequence; the    *)
(* standalone Spec below lets any caller invoke any method at any time.    *)
(***************************************************************************)
EXTENDS Integers, FiniteSets, FiniteSetsExt

CONSTANTS
    Scripts,        \* scripts that can appear as 'a' keys (model values)
    DUMMY_SCRIPT,   \* the sentinel script written by Init
    KeyRank,        \* [Scripts -> Nat]: order of the serialized 'a' keys
    FeeScripts,     \* scripts a fee-address update can name
    InitFeeScript,  \* the script of chainparams' TokenFeeAddress
    Amounts,        \* CAmount values a cost update can carry
    ChainFee,       \* chainparams fee amounts, a record over FeeNames
    MaxHeight,      \* highest block height a cost/fee update can carry
    UIntMax,        \* stands for 2^32-1, the wrap point of 'N'
    Absent          \* "no such key" in a key family

ASSUME DUMMY_SCRIPT \in Scripts
ASSUME KeyRank \in [Scripts -> Nat]
ASSUME InitFeeScript \in FeeScripts
ASSUME MaxHeight \in Nat /\ UIntMax \in Nat \ {0}

\* #define GOVERNANCE_COST_* and the DUMMY_TYPE of the sentinel cost entry
GOVERNANCE_COST_ROOT == 1
GOVERNANCE_COST_REISSUE == 2
GOVERNANCE_COST_UNIQUE == 3
GOVERNANCE_COST_SUB == 4
GOVERNANCE_COST_USERNAME == 5
DUMMY_TYPE == 0
CostTypes == {GOVERNANCE_COST_ROOT, GOVERNANCE_COST_REISSUE, GOVERNANCE_COST_UNIQUE,
              GOVERNANCE_COST_SUB, GOVERNANCE_COST_USERNAME}
FeeNames == {"root", "reissue", "unique", "sub", "username"}
ASSUME ChainFee \in [FeeNames -> Amounts]

Heights == 0 .. MaxHeight
CostKeys == (CostTypes \cup {DUMMY_TYPE}) \X Heights

\* 'N' is an unsigned int: number + 1 and number - 1 wrap modulo 2^32.
UInc(n) == IF n = UIntMax THEN 0 ELSE n + 1
UDec(n) == IF n = 0 THEN UIntMax ELSE n - 1

DbType ==
    [numFrozen : 0 .. UIntMax,
     freeze    : [Scripts -> BOOLEAN \cup {Absent}],
     cost      : [CostKeys -> Amounts \cup {0} \cup {Absent}],
     fee       : [Heights -> FeeScripts \cup {DUMMY_SCRIPT} \cup {Absent}]]

(***************************************************************************)
(* Init on a fresh database: 'N' = 0, a frozen sentinel FreezeEntry for    *)
(* DUMMY_SCRIPT (not counted in 'N'), a sentinel CostEntry (0,0) -> 0, the *)
(* five initial costs at height 0 (note REISSUE <- SubFeeAmount and        *)
(* SUB <- ReissueFeeAmount, as the code writes them) and the fee script at *)
(* height 0.                                                               *)
(***************************************************************************)
InitDb ==
    [numFrozen |-> 0,
     freeze    |-> [s \in Scripts |-> IF s = DUMMY_SCRIPT THEN TRUE ELSE Absent],
     cost      |-> [k \in CostKeys |->
                      IF k[2] # 0 THEN Absent
                      ELSE CASE k[1] = DUMMY_TYPE               -> 0
                             [] k[1] = GOVERNANCE_COST_ROOT     -> ChainFee["root"]
                             [] k[1] = GOVERNANCE_COST_REISSUE  -> ChainFee["sub"]
                             [] k[1] = GOVERNANCE_COST_UNIQUE   -> ChainFee["unique"]
                             [] k[1] = GOVERNANCE_COST_SUB      -> ChainFee["reissue"]
                             [] k[1] = GOVERNANCE_COST_USERNAME -> ChainFee["username"]],
     fee       |-> [h \in Heights |-> IF h = 0 THEN InitFeeScript ELSE Absent]]

Done(db) == [ok |-> TRUE, db |-> db]
Corrupt(db) == [ok |-> FALSE, db |-> db]

FreezeScriptCountsRefreeze(db, s) ==
    Done([db EXCEPT !.freeze[s] = TRUE, !.numFrozen = UInc(@)])

\* FreezeScript: unknown -> frozen (+1); unfrozen -> frozen (+1); frozen -> rewritten.
FreezeScript(db, s) ==
    Done([db EXCEPT !.freeze[s] = TRUE,
                    !.numFrozen = IF db.freeze[s] = TRUE THEN @ ELSE UInc(@)])

\* UnfreezeScript: frozen -> unfrozen (-1); unfrozen -> rewritten;
\* unknown -> an explicit unfrozen entry, 'N' untouched.
UnfreezeScript(db, s) ==
    Done([db EXCEPT !.freeze[s] = FALSE,
                    !.numFrozen = IF db.freeze[s] = TRUE THEN UDec(@) ELSE @])

\* RevertFreezeScript: a frozen entry becomes unfrozen (-1); otherwise the
\* database is reported corrupted and nothing is written.
RevertFreezeScript(db, s) ==
    IF db.freeze[s] = TRUE
    THEN Done([db EXCEPT !.freeze[s] = FALSE, !.numFrozen = UDec(@)])
    ELSE Corrupt(db)

\* RevertUnfreezeScript: an unfrozen entry becomes frozen (+1); otherwise
\* (frozen or unknown) the database is reported corrupted.
RevertUnfreezeScript(db, s) ==
    IF db.freeze[s] = FALSE
    THEN Done([db EXCEPT !.freeze[s] = TRUE, !.numFrozen = UInc(@)])
    ELSE Corrupt(db)

UpdateCostWritesType(db, cost, type, height) ==
    IF type \notin CostTypes THEN Corrupt(db)
    ELSE IF db.cost[<<type, height>>] = Absent
         THEN Done([db EXCEPT !.cost[<<type, height>>] = type])
         ELSE Done(db)

\* UpdateCost: unknown type fails; an existing (type, height) entry is kept.
UpdateCost(db, cost, type, height) ==
    IF type \notin CostTypes THEN Corrupt(db)
    ELSE IF db.cost[<<type, height>>] = Absent
         THEN Done([db EXCEPT !.cost[<<type, height>>] = cost])
         ELSE Done(db)

RevertUpdateCostKeeps(db, type, height) ==
    IF db.cost[<<type, height>>] # Absent THEN Done(db) ELSE Corrupt(db)

\* RevertUpdateCost erases the (type, height) entry, or reports corruption.
RevertUpdateCost(db, type, height) ==
    IF db.cost[<<type, height>>] # Absent
    THEN Done([db EXCEPT !.cost[<<type, height>>] = Absent])
    ELSE Corrupt(db)

\* UpdateFeeScript writes height -> script unless that height has one.
UpdateFeeScript(db, script, height) ==
    IF db.fee[height] = Absent
    THEN Done([db EXCEPT !.fee[height] = script])
    ELSE Done(db)

RevertUpdateFeeScript(db, height) ==
    IF db.fee[height] # Absent
    THEN Done([db EXCEPT !.fee[height] = Absent])
    ELSE Corrupt(db)

(***************************************************************************)
(* Readers.  GetCost / GetFeeScript scan their family from the sentinel    *)
(* key and keep the entry of greatest height (the default value when none *)
(* matches).  GetFrozenScripts seeks FreezeEntry(DUMMY_SCRIPT) and walks   *)
(* the 'a' family upward, so it sees only keys ordered at or after the     *)
(* sentinel's key.                                                         *)
(***************************************************************************)
GetNumberOfFrozenScripts(db) == db.numFrozen

CanSend(db, s) == db.freeze[s] # TRUE

ScriptExist(db, s) == db.freeze[s] # Absent

GetCost(db, type) ==
    LET hs == {h \in Heights : db.cost[<<type, h>>] # Absent}
    IN IF hs = {} THEN 0 ELSE db.cost[<<type, Max(hs)>>]

GetFeeScript(db) ==
    LET hs == {h \in Heights : db.fee[h] # Absent}
    IN IF hs = {} THEN DUMMY_SCRIPT ELSE db.fee[Max(hs)]

GetFrozenScripts(db) ==
    {s \in Scripts : KeyRank[s] >= KeyRank[DUMMY_SCRIPT] /\ db.freeze[s] = TRUE}

-----------------------------------------------------------------------------
(***************************************************************************)
(* The store as a component: any caller may invoke any method with inputs *)
(* from small sets.  Targets are the scripts governance transactions name; *)
(* TypesIn and HeightsIn the cost types and block heights they carry.      *)
(***************************************************************************)
CONSTANTS Targets, TypesIn, HeightsIn

ASSUME Targets \subseteq Scripts /\ HeightsIn \subseteq Heights \ {0}

VARIABLE db

Init == db = InitDb

Apply(r) == db' = r.db

Next ==
    \/ \E s \in Targets :
          \/ Apply(FreezeScript(db, s))
          \/ Apply(UnfreezeScript(db, s))
          \/ Apply(RevertFreezeScript(db, s))
          \/ Apply(RevertUnfreezeScript(db, s))
    \/ \E c \in Amounts, t \in TypesIn, h \in HeightsIn :
          Apply(UpdateCost(db, c, t, h))
    \/ \E t \in TypesIn, h \in HeightsIn : Apply(RevertUpdateCost(db, t, h))
    \/ \E f \in FeeScripts, h \in HeightsIn : Apply(UpdateFeeScript(db, f, h))
    \/ \E h \in HeightsIn : Apply(RevertUpdateFeeScript(db, h))

Spec == Init /\ [][Next]_db

TypeOK == db \in DbType

(***************************************************************************)
(* CounterMatchesTable: whatever order Freeze/Unfreeze/RevertFreeze/       *)
(* RevertUnfreeze are called in, the 'N' counter that                      *)
(* GetNumberOfFrozenScripts returns equals the number of 'a' entries       *)
(* (other than the uncounted DUMMY_SCRIPT sentinel) whose frozen flag is   *)
(* set.  Each method updates the flag and the counter in one batch, on    *)
(* three different branches each.                                          *)
(***************************************************************************)
CounterMatchesTable ==
    db.numFrozen = Cardinality({s \in Scripts \ {DUMMY_SCRIPT} : db.freeze[s] = TRUE})

(***************************************************************************)
(* FrozenCountIsCannotSend (spec section 8, property 5): the frozen-count  *)
(* equals the number of scripts S for which CanSend(S) is false.           *)
(***************************************************************************)
FrozenCountIsCannotSend ==
    db.numFrozen = Cardinality({s \in Scripts : ~CanSend(db, s)})

(***************************************************************************)
(* FrozenListComplete: GetFrozenScripts (and DumpFreezeStats, which walks  *)
(* the same way) returns every script whose 'a' entry is frozen; the code  *)
(* seeks FreezeEntry(DUMMY_SCRIPT) first because "DUMMY_SCRIPT is the      *)
(* lexically first script".                                                *)
(***************************************************************************)
FrozenListComplete == GetFrozenScripts(db) = {s \in Scripts : db.freeze[s] = TRUE}

=============================================================================
