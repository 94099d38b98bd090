# TLA+ models of AokChain

This directory holds TLA+ models of the stateful parts of the AokChain sources under `src/`, the TLC configurations that check them, and `PROJECT.json`. That file lists:
- the components;
- the runs, and the mutants that show each property can fail;
- the map from every definition to the source lines it translates;
- the findings and the hazards.

## The system and its parts

| Part | Source | State | Operations |
|---|---|---|---|
| Governance store `CGovernance` | `src/src/governance/governance.cpp`, declarations in `src/unnamed/part_002` | LevelDB families `'N'` (frozen count), `'a'` (script → frozen), `'c'` ((type, height) → cost), `'f'` (height → fee script) | Init, FreezeScript, UnfreezeScript, RevertFreezeScript, RevertUnfreezeScript, UpdateCost, RevertUpdateCost, UpdateFeeScript, RevertUpdateFeeScript; readers CanSend, GetCost, GetFeeScript, GetFrozenScripts, DumpFreezeStats, GetNumberOfFrozenScripts |
| Block connection, the caller of the store | `validation.cpp`, not in `src/` | the active chain | connect applies a block's governance actions at its height; disconnect reverts them last-to-first; a failed revert is fatal (spec section 7) |
| Block assembler | `src/unnamed/part_005` (miner.cpp) | block under construction, `inBlock`, `mapModifiedTx`, `failedTx`, the mapTx cursor `mi`, the weight, sigop and fee counters | `resetBlock`, `addPackageTxs` with TestPackage, TestPackageTransactions, AddToBlock, UpdatePackagesForAdded, SkipMapTxEntry, SortForBlock, `onlyUnconfirmed` |
| Staking and solo mining threads | `src/unnamed/part_005` (miner.cpp) | each thread's template, its `pindexPrev`, the staker's coin, the solo miner's nonce round; shared: chain tip, block index, wallet spends, adjusted time | ThreadStakeMiner with CreateNewBlock, SignBlock, CheckStake; SoloMiner with CreateNewBlock, TestBlockValidity, ProcessBlockFound, UpdateTime |
| Retarget and proof of work | `src/unnamed/part_003` | none (pure functions of the chain) | GetNextTargetRequired, CalculateNextTargetRequired, CheckProofOfWork |
| Chain parameters | `src/src/chainparams.cpp` | static per network | the consensus fields the retarget reads, the genesis block |
| Token LRU cache | `src/src/tokens/tokentypes.h` | list plus map of iterators, `maxSize` | constructors, Put, Get, Erase, Clear, SetNull, SetSize, copy constructor |
| Amount entry widgets | `src/src/qt/aokchainamountfield.cpp`, `src/src/qt/sendcoinsentry.cpp`, `AokChainUnits` in `src/unnamed/part_005` | per spin box: text, display unit, token unit, single step, read-only flag; per field: invalid style; per entry: page, pay-to texts, three coin fields, recipient, wallet model, options display unit | AmountSpinBox (validate, fixup, stepBy under stepEnabled, setValue, setDisplayUnit, setTokenUnit); TokenAmountField and AokChainAmountField (constructor, setValue, setUnit or setDisplayUnit, clear, validate, focus-in, setReadOnly, setSingleStep); SendCoinsEntry (constructor, setModel, clear, pay-to edits, setValue, validate, getValue, updateDisplayUnit) |
| Token control dialog | `src/src/qt/tokencontroldialog.cpp` | static: the selected token outputs and `strTokenSelected`; wallet: locked and spent outputs; per dialog: view mode, administrator box, the token combo box (items, index, text), `fOnStartUp`, the tree (shown, checked, disabled outputs), labels | setModel, OK, Escape, item and address check boxes, select all, lock and unlock, tree/list radios, token combo box, administrator box; updateView, updateLabels, updateTokenList, onTokenSelected |
| Raw-transaction RPCs | `src/src/rpc/rawtransaction.cpp` | the hex transactions callers hold; the node's UTXO set, mempool, validation-interface queue, wallet and peers' inventory; per HTTP worker the call in progress and its promise | createrawtransaction, signrawtransaction, combinerawtransaction, sendrawtransaction (cs_main part, promise wait, relay) |
| RPC, GUI, scripts | the rest | — | request parsing and presentation |

How the parts interact:
- Block connection drives the governance store. Each governance transaction in a block becomes one store call; each call writes its own batch.
- The store's answers gate transactions: CanSend decides whether a script may spend, and GetCost gives token-issue prices.
- The assembler reads the mempool under `cs_main` and `mempool.cs` and produces a block template, which the staking thread signs and submits.
- The staking thread and the solo miner each build a template under `cs_main`, work on it without the lock, and submit it. Peers extend the tip and the wallet spends coins in between.
- Both amount fields wrap an `AmountSpinBox`. The token field keeps its text in the token's own unit and reports the amount scaled to 10^-8 units (`format` and `tokenParse` convert). The coin field keeps its text in the display unit (`format` and `parse`).
- A send-coins entry holds three coin fields, one per page (normal, unauthenticated and authenticated payment request). The options model's display unit reaches them through `updateDisplayUnit` once the entry has a wallet model.
- The token control dialog edits a selection held in a static `CCoinControl`, which outlives the dialog: the send page reads it after OK, and the next dialog starts from it. RPC calls lock, unlock and spend the same wallet outputs while the dialog is open.
- sendrawtransaction holds `cs_main` while it checks the chain and the mempool and calls AcceptToMemoryPool, then waits, without the lock, for a promise that a callback on the validation-interface queue sets. The scheduler thread serves that queue in order, and the wallet's TransactionAddedToMempool is queued ahead of the callback. Peers relay transactions and blocks connect in between.
- Key holders pass hex transactions between createrawtransaction, signrawtransaction (each signs what its keys can) and combinerawtransaction (merges partly signed copies), while blocks spend the coins they refer to.
- Every new block must carry the nBits the retarget engine computes from the chain below it, with the network's limits and spacing.

## Modules

- **`Governance`** translates `governance.cpp` method by method.
  - Each method is an operator from a database value to `[ok, db]`. Every method builds one batch and writes it, so each call is one atomic step.
  - The freeze family keeps the three states of an `'a'` entry: absent, frozen and unfrozen. The counter `'N'` is an `unsigned int` and wraps (`UInc`, `UDec`; `UIntMax` stands for 2^32-1).
  - `KeyRank` models LevelDB's order on serialized `'a'` keys. The readers' seek from the sentinel's key depends on that order.
  - The standalone `Spec` lets any caller invoke any method with inputs from small sets.
- **`GovernanceChain`** composes `Governance` with the block connection that calls it, modelled from the spec because that code is not in `src/`.
  - `ConnectBlock` folds the block's actions into the store at height `Len(chain)+1`.
  - `DisconnectBlock` runs `UndoBlock`, which undoes the actions last-to-first and stops at the first failing revert. The reverts already written stay written.
  - A failure sets `corrupt`: the node stops. `Reindex` rebuilds the store by replaying the chain from genesis.
- **`GovernanceLedger`** is the abstract specification: what the store promises as a function of the connected chain alone.
  - A watched script is sendable unless its last freeze/unfreeze action was a freeze.
  - A cost is the first update of its type in the highest block that updates it.
  - The fee script follows the same rule.
  - `GovernanceChain` instantiates it with a refinement mapping. The abstract `view` is what CanSend, GetCost and GetFeeScript answer on the concrete database. `LedgerRefinement` checks the abstract `Spec`.
- **`BlockAssembler`** covers `addPackageTxs`; one TLA+ step is one iteration of its while loop.
  - The mempool does not change while the loop runs, so `Init` chooses any mempool of `N` entries. An entry is a size, modified fee, sigop cost, finality flag and ancestor set, and any strict partial order is the ancestor relation of some mempool.
  - Transactions are numbered in txid order, which is the tie-break of both score orders.
  - Loop outcomes are separate actions: `SkipEntry`, `LoopExit` and `Evaluate`. `Evaluate` has four outcomes: `FeeTooLow` (the early return), `PackageTooBig` (with the MAX_CONSECUTIVE_FAILURES give-up), `PackageNotFinal` and `AddPackage`.
  - `AddPackage` covers AddToBlock for every sorted entry, the erasure from `mapModifiedTx` and `UpdatePackagesForAdded`.
  - The score comparators (txmempool.h, miner.h) and `CFeeRate::GetFee` (feerate.cpp) are not in `src/`. They follow the spec and are marked `spec_modelled`.
- **`TokenLRUCache`** translates `CLRUCache` method by method; each method is one atomic step.
  - A list node has an identity (`Nodes`, handed out lowest first), so that an iterator is a node. `Unlink` removes a node from whichever list holds it, as `std::list::erase` and `splice` do with any valid iterator.
  - `Put` covers the whole method: push front, erase the old node of the key, map the key, and evict one back node if the map is larger than `maxSize`. `Get` is `GetHit` (splice to the front) or `GetMiss` (the `range_error`, nothing changes).
  - `Copy` is the copy constructor: the list gets fresh nodes, the map of iterators and `maxSize` are copied as they are. It is only in `SpecWithCopy`, as nothing in `src/` copies a cache. One step after a copy, the copy's map points at nodes of the source's list (a hazard in `PROJECT.json`).
  - `recent` and `latest` are history variables: the keys put or got and not erased since, most recent first, and each key's last value. They state what an LRU cache promises.
- **`ArithUint256`** is the fixed-width arithmetic of `arith_uint256` and its compact encoding. That file is not in `src/`, so it follows the spec and the standard compact format (`spec_modelled`).
  - A value is 32 bytes, least significant first. `MulSmall` truncates to the width it is given; at 32 bytes this is `operator*=`.
  - `DivSmall`, `LessThan`, `SetCompact` and `GetCompact` are exact.
- **`ChainParams`** holds the consensus fields of `CMainParams`, `CTestNetParams` and `CRegTestParams` that the retarget reads. A limit is the value of its hex string.
- **`Retarget`** translates `GetTargetLimit`, `GetNextTargetRequired` and `CalculateNextTargetRequired`.
  - The state is the active chain: kind, time and nBits per block, genesis first.
  - `AddBlock` attaches a block of either kind at a chosen spacing, carrying the nBits `GetNextTargetRequired` computes. `DisconnectTip` removes the tip.
  - `GetLastBlockIndex` (validation.cpp) walks back to the last block of a kind and stops at genesis.
  - `SpecNextBits` is the reference: spec section 4.2 in exact arithmetic. The blocks of the kind are taken as a set, genesis not counted, and the product is computed in 34 bytes so that it cannot wrap.
- **`Miners`** interleaves the two block-producing threads of miner.cpp with their environment.
  - `cs_main` is not a variable. A step that holds it in the code is one atomic action: CreateNewBlock, CheckStake's block from the stale check through ProcessNewBlock, ProcessBlockFound's stale check, ProcessNewBlock, a peer block, a wallet spend. Each unlocked read of `chainActive.Tip()` is an action of its own (`StakerReadTip`, `SoloReadTip`).
  - The staker goes `StakerCreateNewBlock` → `StakerReadTip` → `SignBlock` → `CheckStake`. `SignBlock(c)` is CreateCoinStake finding a kernel for an available coin `c`, or none (`NoCoin`), followed by the timestamp checks against `pindexPrev`. The loop's own timestamp check repeats SignBlock's with the same inputs, so it cannot fail and is not a separate branch.
  - The solo miner goes `SoloReadTip` → `SoloCreateNewBlock` (TestBlockValidity throws if the tip moved) → hashing rounds → `ProcessBlockFound` → `SoloProcessNewBlock`. A round ends in `SoloUpdateTime` or `SoloRebuild`.
  - The environment is `Tick` (the adjusted clock), `PeerBlock` (a valid block on the tip) and `WalletSpend`. Peers only extend the tip, so the active chain is the tip's ancestry.
  - `Submit` is ProcessNewBlock reduced to what the properties need: it stores a block later than its parent's median time past, and the block becomes the tip if it extends it. `submitted` records every block a miner handed over, with whether it met the tip. GetMedianTimePast, GetPastTimeLimit and FutureDrift are not in `src/` and are `spec_modelled`.
- **`AmountSpinBox`** is the spin box both amount fields own, as a record with one operator per method from the box to the box after the call.
  - A text is what `parse` reads once spaces are removed: a sign, the whole digits (value and count), a dot, and the decimals (value and count). The thin-space separators `format` inserts are dropped. Texts `validate` refuses never reach the line edit, so they are not texts.
  - `DigitParse`, `UnitParse`, `TokenParse` and `Format` translate `AokChainUnits::parse`, `tokenParse` and `format`: decimals padded to the unit, the 18-character limit, no dot at token unit 0. `BoxParse` adds the spin box's range check against `maxMoney()`.
  - `BoxSetDisplayUnit` reads the value before switching the unit; `BoxSetTokenUnit` switches first and reparses. Both are as in the code.
- **`AmountField`** models `TokenAmountField`; each method is one step. `FieldValue` is `TokenAmountField::value`, which scales by `factorToken(8 - tokenUnit)`. `Edit(t)` is typing that the validator accepts: the text is empty or parses. `StepBy` is taken only in a direction `stepEnabled` allows, as Qt does for arrow and page keys.
- **`SendCoinsEntry`** models `SendCoinsEntry` and its three `AokChainAmountField`s (a field is a box and an invalid flag).
  - The unit combo box calls `unitChanged` only when its index changes, so a field's combo unit is its box's display unit and `CoinFieldSetDisplayUnit` acts only on a change.
  - `EntryValidate` is `validate()` reached with a model and a normal payment; the two early returns change nothing. `IsDust` stands for `GUIUtil::isDust` (not in `src/`) as a single dust limit.
  - `EditPayTo` is any change of the pay-to text (typing, paste, address book, `setAddress`); the line edit marks itself valid on every edit.
  - `AdvancedUI` is the `-advancedui` option: the combo boxes are shown and `PickUnit(u)` is the user picking unit `u` in the visible field's box (`unitChanged`).
  - Labels, messages, the lock-time and subtract-fee boxes are data no branch reads, and are left out.
- **`TokenControl`** models `TokenControlDialog` together with the static `tokenControl`, across dialogs.
  - `Open` is the constructor (the view mode restored from the settings) and `setModel`: `updateTokenList(true)` finds `strTokenSelected` in the combo box and moves the index there with `fOnStartUp` set, so `onTokenSelected` keeps the selection. When it is not found (all its outputs spent), `fOnStartUp` keeps the value it was constructed with; the header is not in `src/`, so both values are allowed. `Accept` (OK) and `Reject` (Escape) destroy the dialog; the destructor saves the view mode.
  - The tree is three sets: the outputs shown, those checked, those disabled. `ViewOf` is `updateView`: the unspent outputs of `currentText()`, locked ones unselected and disabled, selected ones checked. `CheckItems` and `UncheckItems` are `viewItemChanged` for outputs Qt has just (un)checked; a disabled one is unchecked again. `ClickParent` is a tree-mode click on an address, which Qt applies to all outputs under it.
  - The combo box is its items, its current item and its text. Qt emits `currentIndexChanged` only when the index changes (`PickToken`); typing changes only the text (`TypeText`). `OnTokenSelected` clears the selection unless `fOnStartUp` is set.
  - `LabelsOf` is what `updateLabels` writes: quantity, amount, the name of the last output in set order, and change. Byte, fee and dust estimates are left out. `LiveSelection` is its first loop, which unselects outputs spent elsewhere.
  - `LockElsewhere`, `UnlockElsewhere` and `SpendElsewhere` are RPC and other transactions acting on the wallet at any time.
  - `CCoinControl` and the wallet's token listings are not in `src/`. Their token methods are taken as set operations, with `UnSelectAll` clearing `strTokenSelected` as well. Sorting, clipboard copies, icons and tool tips are layout.
- **`RawTransaction`** models `sendrawtransaction` against the node. Each client is an HTTP worker thread; `rpc[c]` is its call (`pc` idle, wait or ready, the transaction, the answer).
  - `SendRawTransaction` is the whole `cs_main` block (lines 1326–1381): fHaveChain (the transaction's output is unspent), fHaveMempool, AcceptToMemoryPool and its three error answers, the callback queued on acceptance (`AcceptedEvents`: the wallet notification ATMP fires, then the callback), the "already in block chain" error, and the promise set at once on a resend.
  - `SendReturn` is `promise.get_future().wait()` and the PushInventory to every peer.
  - `ProcessQueue` is the scheduler thread running the oldest queued event: a wallet notification, or a callback that sets a promise.
  - `RelayFromPeer` and `ConnectBlock` are the rest of the node. AcceptToMemoryPool, the queue and block connection are not in `src/`; `ATMP` keeps only the verdicts sendrawtransaction tells apart (conflict or absurd fee, missing inputs, accepted), and a transaction is a model value with its inputs and one output.
- **`RawSign`** models createrawtransaction, signrawtransaction and combinerawtransaction; each runs under `cs_main` and is one step. A transaction is its inputs, an opaque body (its outputs) and per input a set of signatures. A signature is a key and the message it signs, `Msg` (SIGHASH_ALL: all inputs and outputs). The signing library is not in `src/`: a coin's script is the set of keys it needs, `ValidSigs` keeps the signatures a checker accepts, and CombineSignatures is their union.
  - `SignRawTransaction(t, K, given)`: the view is the chain's coins plus the `prevtxs` given; an input whose coin is missing is reported and skipped; otherwise the keystore `K` signs and the result is combined with the scriptSig already there.
  - `CombineRawTransaction(t0, others)`: an input missing from the chain throws; otherwise each input gets the valid signatures of every copy that has that input.
  - `held` is the set of hex strings callers hold, bounded by `MaxHeld`; `SpendCoin` is a block spending a coin.
- **`MCGovernance`, `MCGovernanceChain`, `MCBlockAssembler`, `MCTokenLRUCache`, `MCRetarget`, `MCMiners`, `MCGui` and `MCRawTransaction`** fix the constants for TLC. `MCGui` holds the token field, the send-coins entry and the token control dialog: they share no state, so each behaviour picks one of the widgets in the constant `Widgets` at the start (`widget`) and the others stay in an initial state. `MCGui.cfg` runs the token field and the dialog, `MCGuiEntry.cfg` the entry. TLC's coverage then names the branches of `MCNext`; every action of the three modules was checked to fire with specifications that list them one by one. `MCRawTransaction` joins `RawTransaction` and `RawSign` the same way, with a selector `part`, and `MCMiners` joins `Miners` and the retarget chain of `MCRetarget`. `MCRetarget` assumes (`ASSUME GenesisAtLimit`) that each network's genesis nBits is the compact encoding of its `powLimit`; this cross-checks the encoding operators against `chainparams.cpp`.

## Runs

| Run | Config | Expect | What it shows |
|---|---|---|---|
| gov_spec_count | MCGovernanceCount.cfg | violation | Spec section 8 property 5 fails in the initial state: the sentinel is frozen but not counted. Naming the sentinel then wraps `'N'` to 2^32-1. |
| gov_frozen_list | MCGovernanceList.cfg | violation | GetFrozenScripts misses a frozen script whose serialized key sorts before the sentinel's. The code comment says the sentinel is "the lexically first script". |
| gov_chain | MCGovernanceChain.cfg | pass | Under any sequence of connects, disconnects (including one stopped by a corrupt revert) and reindexes of one-action blocks, `'N'` equals the number of frozen entries other than the sentinel, though a block may refreeze a script (CounterMatchesTable). GetCost and GetFeeScript refine the ledger (LedgerRefinement). 35k states. The free-order `Next` of `Governance` is used only by the two violation runs on `MCGovernance`: block connection is the store's only caller, so the chain's orders are the ones the code meets. |
| gov_chain_freeze | MCGovernanceChainFreeze.cfg | violation | With freeze state watched, the refinement fails: disconnecting an unfreeze of a never-frozen script leaves the script frozen. |
| gov_chain_corrupt | MCGovernanceChainCorrupt.cfg | violation | With blocks of fee-script and cost actions only, a block with two fee-script updates at height 2 cannot be disconnected: the second revert finds the entry already erased and reports corruption. Two cost updates of one type fail the same way, and so does a block that freezes one script twice when freezes are allowed. |
| assembler | MCBlockAssembler.cfg | pass | For all 32,832 mempools of three entries: the block is topologically ordered, within weight and sigop limits, `mapModifiedTx` stays exact, every loop iteration lowers the ranking (blocks not yet in the block, then pending entries), so the loop cannot spin in place (`LoopMeasureDecreases`; that every loop state has a next step follows from the branches of the loop and is not checked by the run), and when the loop ends nothing addable is left (126k states). |
| lru | MCTokenLRUCache.cfg | pass | Under any sequence of Put, Get, Erase, Clear, SetNull and SetSize, the map and list stay in step (MapListInSync). The cache holds exactly the most recently used keys that were not erased, each with its last value (CachedKeysAreMostRecent). `SetSize` can leave a cache over-full, and no method then makes it grow: a Put of a new key evicts exactly one entry (CacheNeverGrowsPastMax). 79k states. |
| miners | MCMiners.cfg | pass | Peers, the wallet and the clock act between every step of both threads. The staker re-reads `pindexPrev` after it has signed, and CheckStake compares the block's own parent with the tip: every stake block handed to ProcessNewBlock was signed against its own parent, so its time was checked against the right median time past (StakeSignedAgainstParent). No coin is both spent and staked, or staked twice (StakeSpentOnce). Every submitted block is later than its parent's median time past, and a stake block is also later than its parent (SubmittedBlocksTimely). In the same model, on mainnet parameters, with stake and work blocks interleaved at spacings of -30, 16, 64 and 700 s and with reorganisations, every proof-of-stake block carries the exact retarget of spec 4.2 (RetargetTypeOK, PosRetargetMatchesSpec). 2.68M states. |
| gui | MCGui.cfg | pass | Token field: whatever the user types, steps, or the code sets, a `setUnit` either keeps the amount `value()` reports or clears the field (UnitChangeKeepsValue). After `stepBy`, `value()` reads back exactly the clamped sum: format and tokenParse are inverse at 0, at `maxMoney()` and between (StepReadsBack). Token control dialog, opened, used and closed repeatedly while RPC locks, unlocks and spends outputs: no output shown disabled is selected, though a tree-mode address click or select all checks locked outputs (LockedItemNotSelected). Every unspent output shown is checked exactly when the static selection holds it (ViewMatchesSelection). 159k states. |
| gui_entry | MCGuiEntry.cfg | pass | Send-coins entry with `-advancedui`, where the user can pick a unit in each field's combo box: a change of the options display unit keeps the amount of all three fields (DisplayUnitKeepsAmount). `setModel`, `clear()` and an options unit change leave every field showing the options unit, though `clear()` resets each combo box to AOK first and the user may have picked other units (EntryUnitFollowsOptions). A `validate()` that rejects a payment leaves payTo or payAmount marked (FailedValidateMarksField). A recipient's amount is always a money amount or the one a caller set (EntryTypeOK). 183k states. |
| rawtx | MCRawTransaction.cfg | pass | Two clients send a double spend tA/tB, its child tC and resends while peers relay and blocks connect. A call that accepted its transaction returns only after the wallet has processed it (WalletKnowsAcceptedTx), and every call eventually returns (SendEventuallyReturns). Holders create, sign with either key in any order and combine copies of a 2-of-2 spend, while a block may spend its coin: no sign or combine drops a valid signature one of its inputs carried (KeepsSignatures). 21k states. |
| retarget_pow_overflow | MCRetargetPow.cfg | violation | Two proof-of-work blocks 700 s apart at `powLimit` make the 256-bit product wrap. The next block then requires 0x1f07fffd, about 8 times harder, where the spec gives the limit 0x1f3fffff. |

Every property of a passing run has a mutant in `PROJECT.json`. A mutant is a plausible bug in the mapped code, and TLC finds the property violated with it. Examples:
- a refreeze that is counted again;
- a revert that does not erase its entry;
- `>` instead of `>=` in TestPackage;
- a package sorted by txid;
- a fresh modified entry that is not reduced by its added ancestor;
- `<=` in the fee test;
- a skip that does not advance `mi`;
- a loop step that never advances `mi` (breaks the ranking of `LoopMeasureDecreases`);
- a Put that does not erase the key's old node;
- a Get that does not splice;
- a Put that tests the size before inserting the new key;
- the spacing added once instead of twice in the retarget;
- a GetCompact without the sign-bit shift;
- a GetLastBlockIndex that does not skip blocks of the other kind;
- a stake time without the mask;
- a CheckStake stale check that compares the re-read `pindexPrev` instead of the block's parent, or a CheckStake without its IsSpent check;
- a SignBlock without its timestamp checks;
- an UpdateTime that ignores the past-time limit;
- a constructor that does not call `setUnit(MAX_TOKEN_UNITS)`;
- a `setTokenUnit` that reparses with the old unit;
- a `format` that does not pad the decimals;
- a spin box `parse` without its range check;
- a `clear()` without `updateDisplayUnit`;
- a `setDisplayUnit` that reads the value after switching the unit;
- a `validate()` that does not mark a zero amount;
- a `viewItemChanged` that selects a disabled output;
- an `updateView` that does not check the selected outputs;
- a sendrawtransaction that returns without waiting for its promise;
- an accepting sendrawtransaction that does not queue the callback;
- a signrawtransaction that does not combine the scriptSig already there.

## Bounds and why they suffice

- **Governance store:**
  - three target scripts plus the sentinel;
  - one short script, whose key sorts first;
  - two fee scripts and two amounts;
  - one valid cost type and the invalid `DUMMY_TYPE`;
  - heights 1–2.

  Every branch of every method is reached: unknown, frozen and unfrozen entries, existing and absent cost and fee keys, and the invalid type.
- **Chain:**
  - two scripts, one cost type with two amounts, two fee scripts;
  - chains of up to four one-action blocks for the passing run.

  That is enough to connect, disconnect, reconnect at the same height, and corrupt and reindex. The violation runs use three heights (freeze) and two-action blocks (corrupt).
- **Assembler:**
  - three transactions with every ancestor relation (19), sizes 1000 or 1500 bytes, fees 0, 1000 or 3000, and either finality;
  - a block limit of 16000 weight, which fits two small transactions and makes the `>=` boundary reachable;
  - a sigop limit that admits at most two transactions.

  Three transactions suffice for:
  - a CPFP child whose modified entry outranks the mapTx order;
  - a package with a non-final ancestor;
  - a failed entry re-inserted by UpdatePackagesForAdded.

  MAX_CONSECUTIVE_FAILURES is scaled from 1000 to 0 so that the give-up exit is reachable with three transactions. The 4000-weight "close to full" margin is kept as in the code.

- **LRU cache:**
  - three keys, two values, three nodes;
  - maximum sizes 0, 1 and 2 from the constructor and SetSize.

  This reaches:
  - eviction at every size, including size 0, where Put evicts the node it just pushed;
  - a Put of a cached key;
  - a SetSize below the current size.

- **Retarget:**
  - chains of up to six blocks on mainnet parameters, of both kinds;
  - spacings of -30 s (a negative spacing), 16 s, 64 s (the target) and 700 s (above the 640 s clamp).

  Six blocks give a kind its first, second and third block after genesis with blocks of the other kind between them, which is the first retarget. 256-bit values are kept exactly, so the overflow is found at its real magnitude.

- **Miners:**
  - two coins, so that the staker can stake twice, or lose one coin to the wallet and stake the other;
  - at most three blocks, genesis included;
  - clock values 0–4, `FutureDrift(t) = t + 2`, `STAKE_TIMESTAMP_MASK = 1`;
  - one hashing round per template before the nonce limit.

  This reaches a peer block landing between any two steps of either thread, a peer block timed ahead of the clock, a coin spent between SignBlock and CheckStake, and a stale solo block. Three blocks allow two submissions on top of genesis.

- **Amount fields:**
  - `MAX_MONEY` scaled to 300000 (0.003 tokens at unit 8), so that values stay within TLC's integers; the code's single step of 100000 is kept, so three steps reach the bound;
  - token units 6, 7 and 8 for `setUnit`;
  - typed texts "0.005", "0.00500000", "2.5", "-0.001" and the empty text; values 100000 and 500000 (one above the bound) for `setValue` and `setSingleStep`; steps ±1 and ±10.

  This reaches a text with more decimals than the new unit (cleared), a text out of range in the new unit (cleared), a text kept across a unit change, clamping at both bounds, a negative typed text the validator refuses, and a value set above the bound.
- **Send-coins entry:**
  - the three display units; pay-to texts "addr" (valid) and the username "alice"; with `-advancedui`, unit picks of all three units;
  - typed amounts "0.001", "1.5", "0" and "0.000005" (500 satoshis, below a dust limit of 546); steps ±1;
  - one recipient of each kind: a normal payment, an unauthenticated request for 0 and an authenticated one above `MAX_MONEY`.

  This reaches an amount valid in one unit and out of range or too precise in another, a zero amount, dust, a username, a unit picked by the user and then overridden, both payment-request pages, and setModel, clear and unit changes in every order.

- **Token control dialog:**
  - three outputs: two of token A under one address (so that an address click covers two outputs, one possibly locked), one of the ownership token B! under another (so that the administrator box changes the list);
  - a pay amount of 6, above the two A outputs' 5 and 3 apart and below their sum, so that the change is negative, zero-free and positive;
  - typed text "B!", a token outside the ordinary list.

  This reaches reopening with a kept selection, locks by RPC and by the dialog before and after a selection, a spent selected output, both view modes, both lists, and every combination of these over up to 24 steps.

- **Raw transactions:**
  - two clients; three transactions: tA and tB spend the same coin (a double spend), tC spends tA's output (a child), and tB's fee is above `maxTxFee`;
  - every call with and without `allowhighfees`.

  This reaches every answer of sendrawtransaction: accepted, rejected as a conflict, an absurd fee or an output already unspent, missing inputs, already in the chain, and a resend of a mempool transaction. It also reaches a block that evicts a conflict with its child while a call waits.
  - Signing: two keys, coin `a` needing both (2-of-2) and coin `b` needing one and not in the chain; input lists `<<a>>` and `<<a, b>>`; two bodies; keystores `{k1}` and `{k2}`; up to four held transactions.

  This reaches signing in either order, signing apart and combining, combining copies with different inputs or bodies, a missing input given as `prevtxs` or skipped, and a coin spent between signing and combining.

## Fairness

`BlockAssembler` assumes `WF_vars(Next)`. `addPackageTxs` runs to completion in the one thread that called `CreateNewBlock`, holding `cs_main` and `mempool.cs`, so nothing can stop an enabled loop step from being taken. `RawTransaction` assumes weak fairness of `ProcessQueue` and of each `SendReturn(c)`: the scheduler thread serves its queue whenever it is not empty, and a worker whose promise is set is woken. Clients, peers and blocks need not act. The governance, LRU cache, retarget, miner, amount-field and token-control modules state safety only and assume no fairness. The mining threads sleep, wait for peers and depend on a stake kernel being found, so the code guarantees them no progress.

## Not modelled, and why

- **Miner thread start and stop** (StakeCoins, GenerateSolo, interruption points), the waits for an unlocked wallet and for peers, and IncrementExtraNonce are not modelled. They delay a thread or change no shared state.
- **The staker's spin without a sleep** when no coin is available (line 669) is recorded as a hazard without a property. It burns CPU but changes no state, and spec section 5 says the worker sleeps on `STAKER_POLLING_PERIOD`.
- **The window in ProcessBlockFound** between the stale check and ProcessNewBlock is reached by `Miners`: a solo block can meet a moved tip. ProcessNewBlock stores it beside the tip, so no property forbids it.
- **CheckProofOfWork** is a pure check that changes no state. The miners run checks the targets it would be applied to.
- **`SetSize` not evicting** is recorded as a hazard without a property. The spec lists SetSize among the standard operations, and the cache shrinks back one eviction per Put.
- **Chain parameters other than the consensus fields** (seeds, prefixes, checkpoints, fee amounts) are static configuration.
- **Range of the token amount** is recorded as a hazard without a property. `TokenAmountField::value` checks the spin box's value against `MAX_MONEY` in the token's unit and then multiplies it by 10^(8 - unit). Below unit 8, a valid value exceeds `MAX_MONEY` (in the model, `setUnit(6)` and typing 0.005 give 500000 against a bound of 300000), and at unit 0 an input near `MAX_MONEY` overflows. Nothing in `src/` calls the class, so nothing fixes which bound `value()` owes its caller.
- **The page of a reused entry** is recorded as a hazard without a property. `setValue` of a normal payment does not switch back from a payment-request page, and `clear()` keeps the page; no caller in `src/` reuses such an entry.
- **The token named on OK** is recorded as a hazard without a property. OK stores the combo box's text, which typing changes without the index; TLC finds in five steps a dialog closed with an A output selected and `strTokenSelected` = B!. The send page that reads the selection is not in `src/`.
- **Check boxes of spent outputs** are recorded as a hazard without a property. RPC changes the wallet between any two label updates, so no invariant ties the tree to the current selection. Labels after a view-mode change are layout.
- **The resend race in sendrawtransaction** is recorded as a hazard without a property. A resend of a transaction already in the mempool sets the promise at once. TLC finds in four steps that a second client can get the hash back before the wallet has seen the transaction another client's call has just accepted (r1 sends tA and waits; r2 sends tA, gets "in mempool", returns). `WalletKnowsAcceptedTx` therefore covers only the accepting call.
- **The other raw-transaction RPCs** (getrawtransaction, decoderawtransaction, decodescript, gettxoutproof, verifytxoutproof) only read. Also left out: token and data outputs (an opaque body), sighash types other than ALL, locktime and sequence numbers, `prevtxs` overriding a coin the chain holds, and the signing library and AcceptToMemoryPool beyond the verdicts above.
- **Token directory, script solver, RPC, GUI, ZMQ and wallet tooling** are pure I/O.
- **Mempool admission and `validation.cpp`** are not in `src/`. Only the interfaces the modelled code uses are modelled.
- **The caller's crash recovery** is not modelled. A crash between two governance batches of one block is listed as a hazard without a property.
