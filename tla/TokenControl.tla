---------------------------- MODULE TokenControl ----------------------------
(***************************************************************************)
(* TokenControlDialog (src/src/qt/tokencontroldialog.cpp): the coin        *)
(* control dialog for token outputs, against the wallet and the static     *)
(* CCoinControl tokenControl that outlives every dialog.  A dialog is      *)
(* opened (constructor and setModel), used, and closed (OK, or Escape);    *)
(* the next one starts from the selection the last one left.  RPC calls    *)
(* lock and spend the wallet's outputs at any time.                       *)
(*                                                                         *)
(* The tree widget is reduced to the outputs it shows, which of them are  *)
(* checked and which are disabled (locked); in tree mode they hang under  *)
(* their address, whose check box Qt derives from theirs.  The editable   *)
(* token combo box is its item list, its current item and its line-edit   *)
(* text (currentText()); Qt emits currentIndexChanged only when the index *)
(* changes.  Labels keep what updateLabels computes from the selection.   *)
(*                                                                         *)
(* CCoinControl is not among the sources; its token methods are taken as   *)
(* set operations, and UnSelectAll as clearing the selection and           *)
(* strTokenSelected.  GetAllMyTokens lists the tokens the wallet holds     *)
(* outside the ownership tokens, GetAllAdministrativeTokens the ownership  *)
(* tokens; IsTokenNameAnOwner is membership in OwnerTokens.                *)
(***************************************************************************)
EXTENDS Integers, FiniteSets, FiniteSetsExt

CONSTANTS
    Outpoints,     \* the wallet's token outputs (numbers: COutPoint order)
    TokenOf,       \* the token each output carries
    AmountOf,      \* its token amount
    AddrOf,        \* its address (the tree-mode parent)
    OwnerTokens,   \* ownership tokens ("NAME!")
    PayAmountsIn,  \* sums of TokenControlDialog::payAmounts set by the caller
    TypedIn        \* texts the user types into the token combo box

NoItem == "(no current item)"   \* a combo box index of -1

VARIABLES
    open,            \* a dialog exists and has its wallet model
    selected,        \* tokenControl->setTokensSelected (static)
    strTokenSelected,\* tokenControl->strTokenSelected (static)
    locked,          \* the wallet's locked coins
    spent,           \* outputs spent by another transaction
    savedListMode,   \* QSettings "nCoinControlMode"
    treeMode,        \* radioTreeMode is checked
    showAdmin,       \* viewAdministrator is checked
    items,           \* the token combo box's strings
    index,           \* its current item, or NoItem
    text,            \* its currentText()
    fOnStartUp,      \* TokenControlDialog::fOnStartUp
    shown,           \* outputs in the tree widget
    checked,         \* of them, checked
    disabled,        \* of them, disabled with the lock icon
    nPayAmount,       \* the sum of payAmounts
    labels           \* what updateLabels last wrote: [quantity, amount, name, change]

tvars == <<open, selected, strTokenSelected, locked, spent, savedListMode, treeMode,
           showAdmin, items, index, text, fOnStartUp, shown, checked, disabled,
           nPayAmount, labels>>

Tokens == {TokenOf[o] : o \in Outpoints}

\* WalletModel::listTokens: the unspent outputs of token t, locked ones included.
CoinsOf(t) == {o \in Outpoints \ spent : TokenOf[o] = t}

\* IsTokenNameAnOwner, GetAllMyTokens and GetAllAdministrativeTokens.
IsOwner(t) == t \in OwnerTokens

MyTokens(admin) ==
    {t \in {TokenOf[o] : o \in Outpoints \ spent} : IsOwner(t) = admin}

\* updateTokenList: "" first, then the administrator tokens or the others.
TokenList(admin) == {""} \cup MyTokens(admin)

\* The constructor restores tree mode when the saved setting is list mode off.
RestoredTreeMode(saved) == ~saved

(***************************************************************************)
(* showMenu on an output: "Lock unspent" is enabled when the wallet has    *)
(* not locked it, "Unlock unspent" when it has (parents enable neither).   *)
(***************************************************************************)
MenuActions(o) ==
    [lock |-> o \in shown /\ o \notin locked, unlock |-> o \in shown /\ o \in locked]

NoLabels == [quantity |-> 0, amount |-> 0, name |-> "", change |-> 0]

(***************************************************************************)
(* updateLabels(model, dialog): outputs spent elsewhere are unselected;    *)
(* the rest are counted and summed, the name is that of the last one in    *)
(* set order, and the change is computed when there is a pay amount.       *)
(***************************************************************************)
LiveSelection(sel) == sel \ spent

LabelsOf(sel, pay) ==
    LET live == LiveSelection(sel)
        sum  == MapThenSumSet(LAMBDA o : AmountOf[o], live)
    IN [quantity |-> Cardinality(live),
        amount   |-> sum,
        name     |-> IF live = {} THEN "" ELSE TokenOf[Max(live)],
        change   |-> IF live # {} /\ pay > 0 THEN sum - pay ELSE 0]

(***************************************************************************)
(* updateView(): the tree is rebuilt from the outputs of currentText();    *)
(* a locked output is unselected ("just to be sure") and disabled; an      *)
(* output still selected is checked.  When no output carries the text the  *)
(* tree is left empty.                                                     *)
(***************************************************************************)
ViewOfNoCheck(t, sel) ==
    LET coins == CoinsOf(t)
        nsel  == sel \ (coins \cap locked)
    IN [shown |-> coins, disabled |-> coins \cap locked, sel |-> nsel, checked |-> {}]

ViewOf(t, sel) ==
    LET coins == CoinsOf(t)
        nsel  == sel \ (coins \cap locked)
    IN [shown |-> coins, disabled |-> coins \cap locked, sel |-> nsel,
        checked |-> coins \cap nsel]

\* The view's variables set from a rebuilt view v.
ShowView(v) ==
    /\ shown' = v.shown
    /\ disabled' = v.disabled
    /\ checked' = v.checked

(***************************************************************************)
(* viewItemChanged for outputs Qt has just checked: an enabled one is      *)
(* selected; a disabled one ("check all" through its parent) is unchecked  *)
(* again, which unselects it.                                              *)
(***************************************************************************)
CheckItemsNoLockTest(its) ==
    [sel |-> selected \cup its, chk |-> checked \cup its]

CheckItems(its) ==
    [sel |-> selected \cup (its \ disabled), chk |-> checked \cup (its \ disabled)]

\* viewItemChanged for outputs Qt has just unchecked: each is unselected.
UncheckItems(its) == [sel |-> selected \ its, chk |-> checked \ its]

-----------------------------------------------------------------------------
TokenInit ==
    /\ open = FALSE
    /\ selected = {}
    /\ strTokenSelected = ""
    /\ locked = {}
    /\ spent = {}
    /\ savedListMode \in BOOLEAN
    /\ treeMode = FALSE
    /\ showAdmin = FALSE
    /\ items = {}
    /\ index = NoItem
    /\ text = ""
    /\ fOnStartUp = FALSE
    /\ shown = {}
    /\ checked = {}
    /\ disabled = {}
    /\ nPayAmount = 0
    /\ labels = NoLabels

(***************************************************************************)
(* The caller sets payAmounts and opens a dialog: the constructor restores *)
(* the view mode, and setModel runs updateView (the combo box is still     *)
(* empty), updateTokenList(true), updateLabelLocked and updateLabels.      *)
(* updateTokenList(true) shows the administrator tokens when               *)
(* strTokenSelected is one, fills the combo box, and when it finds         *)
(* strTokenSelected sets fOnStartUp and moves the index there from -1:     *)
(* onTokenSelected then only resets the flag, updates the labels and the   *)
(* view.  When it does not find it, fOnStartUp keeps the value it was      *)
(* constructed with, which the constructor never sets.                     *)
(***************************************************************************)
Open ==
    /\ ~open
    /\ \E pay \in PayAmountsIn, fStart \in BOOLEAN :
         LET admin == IsOwner(strTokenSelected)
             list  == TokenList(admin)
             found == strTokenSelected \in list
             t     == IF found THEN strTokenSelected ELSE ""
             v     == ViewOf(t, LiveSelection(selected))
         IN /\ open' = TRUE
            /\ treeMode' = RestoredTreeMode(savedListMode)
            /\ showAdmin' = admin
            /\ items' = list
            /\ index' = IF found THEN t ELSE NoItem
            /\ text' = t
            /\ fOnStartUp' = IF found THEN FALSE ELSE fStart
            /\ selected' = v.sel
            /\ ShowView(v)
            /\ nPayAmount' = pay
            /\ labels' = LabelsOf(v.sel, pay)
    /\ UNCHANGED <<strTokenSelected, locked, spent, savedListMode>>

\* The dialog is destroyed: the destructor saves the view mode.
CloseDialog ==
    /\ open' = FALSE
    /\ savedListMode' = ~treeMode
    /\ treeMode' = FALSE
    /\ showAdmin' = FALSE
    /\ items' = {}
    /\ index' = NoItem
    /\ text' = ""
    /\ fOnStartUp' = FALSE
    /\ shown' = {} /\ checked' = {} /\ disabled' = {}
    /\ nPayAmount' = 0
    /\ labels' = NoLabels

\* buttonBoxClicked on OK: with tokens selected, strTokenSelected is currentText().
Accept ==
    /\ open
    /\ strTokenSelected' = IF selected # {} THEN text ELSE strTokenSelected
    /\ CloseDialog
    /\ UNCHANGED <<selected, locked, spent>>

\* Escape or Cancel: the dialog is rejected; the static selection stays.
Reject ==
    /\ open
    /\ CloseDialog
    /\ UNCHANGED <<selected, strTokenSelected, locked, spent>>

(***************************************************************************)
(* The user clicks the check box of an enabled output: viewItemChanged     *)
(* (un)selects it and, the tree being enabled, updateLabels runs.          *)
(***************************************************************************)
ClickItem(o) ==
    /\ open
    /\ o \in shown \ disabled
    /\ LET r == IF o \in checked THEN UncheckItems({o}) ELSE CheckItems({o})
       IN /\ checked' = r.chk
          /\ selected' = LiveSelection(r.sel)
          /\ labels' = LabelsOf(r.sel, nPayAmount)
    /\ UNCHANGED <<open, strTokenSelected, locked, spent, savedListMode, treeMode,
                   showAdmin, items, index, text, fOnStartUp, shown, disabled, nPayAmount>>

(***************************************************************************)
(* Tree mode, the user clicks an address: Qt checks it (unchecks it when   *)
(* all its outputs are checked) and sets every output under it the same,   *)
(* disabled ones included; viewItemChanged runs for each.                  *)
(***************************************************************************)
ClickParent(a) ==
    /\ open
    /\ treeMode
    /\ LET kids == {o \in shown : AddrOf[o] = a}
           r    == IF kids \subseteq checked THEN UncheckItems(kids) ELSE CheckItems(kids)
       IN /\ kids # {}
          /\ checked' = r.chk
          /\ selected' = LiveSelection(r.sel)
          /\ labels' = LabelsOf(r.sel, nPayAmount)
    /\ UNCHANGED <<open, strTokenSelected, locked, spent, savedListMode, treeMode,
                   showAdmin, items, index, text, fOnStartUp, shown, disabled, nPayAmount>>

(***************************************************************************)
(* buttonSelectAllClicked: with any top-level item not unchecked, all are  *)
(* unchecked and UnSelectAll is called; else all are checked.  The tree is *)
(* disabled meanwhile, so updateLabels runs once at the end.               *)
(***************************************************************************)
SelectAll ==
    /\ open
    /\ IF checked # {}
       THEN /\ checked' = {}
            /\ selected' = {}
            /\ strTokenSelected' = ""
            /\ labels' = LabelsOf({}, nPayAmount)
       ELSE LET r == CheckItems(shown)
            IN /\ checked' = r.chk
               /\ selected' = LiveSelection(r.sel)
               /\ labels' = LabelsOf(r.sel, nPayAmount)
               /\ UNCHANGED strTokenSelected
    /\ UNCHANGED <<open, locked, spent, savedListMode, treeMode, showAdmin, items,
                   index, text, fOnStartUp, shown, disabled, nPayAmount>>

(***************************************************************************)
(* Context menu "Lock unspent" on an output that is not locked: a checked  *)
(* output is unchecked first (viewItemChanged unselects it and updates the *)
(* labels), then the coin is locked and its item disabled.                 *)
(***************************************************************************)
LockCoin(o) ==
    /\ open
    /\ MenuActions(o).lock
    /\ IF o \in checked
       THEN LET r == UncheckItems({o})
            IN /\ checked' = r.chk
               /\ selected' = LiveSelection(r.sel)
               /\ labels' = LabelsOf(r.sel, nPayAmount)
       ELSE UNCHANGED <<checked, selected, labels>>
    /\ locked' = locked \cup {o}
    /\ disabled' = disabled \cup {o}
    /\ UNCHANGED <<open, strTokenSelected, spent, savedListMode, treeMode, showAdmin,
                   items, index, text, fOnStartUp, shown, nPayAmount>>

\* Context menu "Unlock unspent" on a locked output: unlocked and enabled.
UnlockCoin(o) ==
    /\ open
    /\ MenuActions(o).unlock
    /\ locked' = locked \ {o}
    /\ disabled' = disabled \ {o}
    /\ UNCHANGED <<open, selected, strTokenSelected, spent, savedListMode, treeMode,
                   showAdmin, items, index, text, fOnStartUp, shown, checked, nPayAmount, labels>>

\* radioTreeMode / radioListMode toggled on: updateView, and no updateLabels.
ToggleMode ==
    /\ open
    /\ treeMode' = ~treeMode
    /\ LET v == ViewOf(text, selected)
       IN /\ selected' = v.sel
          /\ ShowView(v)
    /\ UNCHANGED <<open, strTokenSelected, locked, spent, savedListMode, showAdmin,
                   items, index, text, fOnStartUp, nPayAmount, labels>>

(***************************************************************************)
(* onTokenSelected(name), on the combo box's currentIndexChanged: unless   *)
(* fOnStartUp is set (then it is reset), UnSelectAll; then updateLabels    *)
(* and updateView of the new currentText() t.                              *)
(***************************************************************************)
OnTokenSelected(t) ==
    LET kept == IF fOnStartUp THEN selected ELSE {}
        v    == ViewOf(t, LiveSelection(kept))
    IN /\ fOnStartUp' = FALSE
       /\ strTokenSelected' = IF fOnStartUp THEN strTokenSelected ELSE ""
       /\ labels' = LabelsOf(kept, nPayAmount)
       /\ selected' = v.sel
       /\ ShowView(v)

(***************************************************************************)
(* The user picks an item (from the list, the completer, or Return on a    *)
(* text that is an item): the line edit shows it, and a new index emits   *)
(* currentIndexChanged.                                                    *)
(***************************************************************************)
PickToken(t) ==
    /\ open
    /\ t \in items
    /\ index' = t
    /\ text' = t
    /\ IF t # index
       THEN OnTokenSelected(t)
       ELSE UNCHANGED <<fOnStartUp, strTokenSelected, labels, selected, shown, checked, disabled>>
    /\ UNCHANGED <<open, locked, spent, savedListMode, treeMode, showAdmin, items, nPayAmount>>

\* The user edits the line edit: currentText() changes, the index does not.
TypeText(t) ==
    /\ open
    /\ t # text
    /\ text' = t
    /\ UNCHANGED <<open, selected, strTokenSelected, locked, spent, savedListMode, treeMode,
                   showAdmin, items, index, fOnStartUp, shown, checked, disabled, nPayAmount, labels>>

(***************************************************************************)
(* viewAdministratorClicked: UnSelectAll, updateLabels, updateTokenList:   *)
(* the list is replaced (the model reset drops the index and the line-edit *)
(* text), strTokenSelected, now "", is found at the first item, which      *)
(* becomes current: onTokenSelected("") clears again and the view of ""    *)
(* is empty.                                                               *)
(***************************************************************************)
ViewAdministratorClicked ==
    /\ open
    /\ showAdmin' = ~showAdmin
    /\ selected' = {}
    /\ strTokenSelected' = ""
    /\ items' = TokenList(~showAdmin)
    /\ index' = ""
    /\ text' = ""
    /\ fOnStartUp' = FALSE
    /\ ShowView(ViewOf("", {}))
    /\ labels' = LabelsOf({}, nPayAmount)
    /\ UNCHANGED <<open, locked, spent, savedListMode, treeMode, nPayAmount>>

(***************************************************************************)
(* Other callers of the wallet (RPC lockunspent, a transaction sent from   *)
(* elsewhere) lock, unlock and spend outputs, the dialog open or not.      *)
(***************************************************************************)
LockElsewhere(o) ==
    /\ o \notin locked \cup spent
    /\ locked' = locked \cup {o}
    /\ UNCHANGED <<open, selected, strTokenSelected, spent, savedListMode, treeMode, showAdmin,
                   items, index, text, fOnStartUp, shown, checked, disabled, nPayAmount, labels>>

UnlockElsewhere(o) ==
    /\ o \in locked
    /\ locked' = locked \ {o}
    /\ UNCHANGED <<open, selected, strTokenSelected, spent, savedListMode, treeMode, showAdmin,
                   items, index, text, fOnStartUp, shown, checked, disabled, nPayAmount, labels>>

SpendElsewhere(o) ==
    /\ o \notin spent \cup locked
    /\ spent' = spent \cup {o}
    /\ UNCHANGED <<open, selected, strTokenSelected, locked, savedListMode, treeMode, showAdmin,
                   items, index, text, fOnStartUp, shown, checked, disabled, nPayAmount, labels>>

TokenNext ==
    \/ Open \/ Accept \/ Reject
    \/ \E o \in Outpoints : ClickItem(o) \/ LockCoin(o) \/ UnlockCoin(o)
    \/ \E a \in {AddrOf[o] : o \in Outpoints} : ClickParent(a)
    \/ SelectAll \/ ToggleMode
    \/ \E t \in {""} \cup Tokens : PickToken(t)
    \/ \E t \in TypedIn : TypeText(t)
    \/ ViewAdministratorClicked
    \/ \E o \in Outpoints : LockElsewhere(o) \/ UnlockElsewhere(o) \/ SpendElsewhere(o)

TokenSpec == TokenInit /\ [][TokenNext]_tvars

-----------------------------------------------------------------------------
(***************************************************************************)
(* No locked output the dialog shows disabled is selected: lockCoin         *)
(* unchecks before locking, updateView unselects locked outputs, and       *)
(* viewItemChanged unchecks a disabled output that "check all" or a        *)
(* tree-mode parent has checked.                                           *)
(***************************************************************************)
LockedItemNotSelected == \A o \in disabled : o \notin selected

(***************************************************************************)
(* The check boxes show the selection: an output the dialog shows and that *)
(* is not spent is checked exactly when tokenControl holds it, across      *)
(* dialogs (the selection is static), token changes, mode changes and      *)
(* locks made by the dialog or by RPC.                                     *)
(***************************************************************************)
ViewMatchesSelection ==
    \A o \in shown \ spent : (o \in checked) <=> (o \in selected)

=============================================================================
