---------------------------- MODULE SendCoinsEntry ----------------------------
(***************************************************************************)
(* SendCoinsEntry (src/src/qt/sendcoinsentry.cpp), one recipient row of    *)
(* the send dialog, with its three AokChainAmountFields                    *)
(* (src/src/qt/aokchainamountfield.cpp): payAmount on the normal page,     *)
(* payAmount_is and payAmount_s on the unauthenticated and authenticated   *)
(* payment-request pages.  An AokChainAmountField is a spin box with no    *)
(* token unit, whose display unit follows a unit combo box, and an invalid *)
(* style.  The entry's state is the page shown, the pay-to texts, the      *)
(* three fields, the recipient it holds, whether it has a wallet model,    *)
(* and the options model's display unit.                                   *)
(*                                                                         *)
(* Labels, messages, the lock-time and subtract-fee check boxes are data   *)
(* that no branch reads, and are left out.                                 *)
(***************************************************************************)
EXTENDS AmountSpinBox

CONSTANTS
    Addresses,       \* texts the pay-to field can hold (typed, pasted, picked)
    ValidAddresses,  \* those WalletModel::validateAddress accepts
    Usernames,       \* those IsUsernameValid accepts
    UsernameAddress, \* ptokensdb->UsernameAddress, a function on Usernames
    DustLimit,       \* GUIUtil::isDust: an amount below it is dust
    AmountTextsIn,   \* texts the user types into payAmount
    EntryStepsIn,    \* step counts Qt passes to payAmount's stepBy
    RecipientsIn,    \* SendCoinsRecipients passed to setValue
    AdvancedUI       \* -advancedui: the fields show their unit combo boxes

VARIABLES
    model,           \* a WalletModel has been set
    displayUnit,     \* OptionsModel::getDisplayUnit()
    page,            \* the QStackedWidget's current page
    payTo,           \* ui->payTo text
    payToInvalid,    \* ui->payTo marked invalid
    payToIs,         \* ui->payTo_is text
    payToS,          \* ui->payTo_s text
    payAmount,       \* ui->payAmount, an AokChainAmountField
    payAmountIs,     \* ui->payAmount_is
    payAmountS,      \* ui->payAmount_s
    recipient        \* SendCoinsEntry::recipient

evars == <<model, displayUnit, page, payTo, payToInvalid, payToIs, payToS,
           payAmount, payAmountIs, payAmountS, recipient>>

Pages == {"SendCoins", "Unauthenticated", "Authenticated"}

\* A recipient: a payment request (unauthenticated or authenticated) or not.
Kinds == {"normal", "unauthenticated", "authenticated"}

-----------------------------------------------------------------------------
(***************************************************************************)
(* AokChainAmountField: its spin box and the invalid style.  The unit      *)
(* combo box only calls unitChanged when its index changes, and that sets  *)
(* the spin box's display unit, so the combo's unit is the box's.          *)
(***************************************************************************)

\* The constructor: a new spin box, then unitChanged(0) sets AOK on the empty text.
NewCoinField == [box |-> BoxSetDisplayUnit(NewBox, AOK), invalid |-> FALSE]

\* setDisplayUnit(u): the combo box moves to u; unitChanged runs only if it moved.
CoinFieldSetDisplayUnit(f, u) ==
    IF u # f.box.currentUnit THEN [f EXCEPT !.box = BoxSetDisplayUnit(f.box, u)] ELSE f

\* clear(): the spin box is cleared and the combo box set to row 0 (AOK).
CoinFieldClear(f) == CoinFieldSetDisplayUnit([f EXCEPT !.box = BoxClear(f.box)], AOK)

CoinFieldSetValue(f, v) == [f EXCEPT !.box = BoxSetValue(f.box, v)]

\* validate(): value(&valid), then setValid(valid).
CoinFieldValidate(f) == [f EXCEPT !.invalid = ~BoxValue(f.box).ok]

CoinFieldValue(f) == BoxValue(f.box)

-----------------------------------------------------------------------------
(***************************************************************************)
(* updateDisplayUnit(): with a model m, the field takes the options        *)
(* model's unit u.                                                         *)
(***************************************************************************)
UpdateDisplayUnit(f, m, u) == IF m THEN CoinFieldSetDisplayUnit(f, u) ELSE f

(***************************************************************************)
(* clear(): the texts of all three pages are cleared (a QValidatedLineEdit *)
(* is marked valid when cleared), the three fields cleared, then           *)
(* updateDisplayUnit.  The recipient and the page shown are kept.          *)
(***************************************************************************)
ClearNoUpdate(m) ==
    /\ payTo' = "" /\ payToIs' = "" /\ payToS' = ""
    /\ payToInvalid' = FALSE
    /\ payAmount' = CoinFieldClear(payAmount)
    /\ payAmountIs' = CoinFieldClear(payAmountIs)
    /\ payAmountS' = CoinFieldClear(payAmountS)

ClearWith(m) ==
    /\ payTo' = "" /\ payToIs' = "" /\ payToS' = ""
    /\ payToInvalid' = FALSE
    /\ payAmount' = UpdateDisplayUnit(CoinFieldClear(payAmount), m, displayUnit)
    /\ payAmountIs' = UpdateDisplayUnit(CoinFieldClear(payAmountIs), m, displayUnit)
    /\ payAmountS' = UpdateDisplayUnit(CoinFieldClear(payAmountS), m, displayUnit)

\* The constructor: the normal page, no model, a default recipient.
EntryInit ==
    /\ model = FALSE
    /\ displayUnit \in Units
    /\ page = "SendCoins"
    /\ payTo = "" /\ payToIs = "" /\ payToS = ""
    /\ payToInvalid = FALSE
    /\ payAmount = NewCoinField /\ payAmountIs = NewCoinField /\ payAmountS = NewCoinField
    /\ recipient = [kind |-> "normal", address |-> "", amount |-> 0]

\* setModel: the model is stored, displayUnitChanged connected, then clear().
SetModel ==
    /\ model' = TRUE
    /\ ClearWith(TRUE)
    /\ UNCHANGED <<displayUnit, page, recipient>>

EntryClear ==
    /\ ClearWith(model)
    /\ UNCHANGED <<model, displayUnit, page, recipient>>

(***************************************************************************)
(* The pay-to text changes: typed, pasted, picked from the address book,  *)
(* or set by setAddress.  QValidatedLineEdit marks itself valid on every  *)
(* edit; updateLabel only fills the label.                                 *)
(***************************************************************************)
EditPayTo(a) ==
    /\ page = "SendCoins"
    /\ payTo' = a
    /\ payToInvalid' = FALSE
    /\ UNCHANGED <<model, displayUnit, page, payToIs, payToS, payAmount,
                   payAmountIs, payAmountS, recipient>>

\* The user edits payAmount; the spin box keeps an edit its validator accepts.
EditAmount(t) ==
    /\ page = "SendCoins"
    /\ ~payAmount.box.readOnly
    /\ BoxAccepts(payAmount.box, t)
    /\ payAmount' = [payAmount EXCEPT !.box.text = t]
    /\ UNCHANGED <<model, displayUnit, page, payTo, payToInvalid, payToIs, payToS,
                   payAmountIs, payAmountS, recipient>>

\* payAmount loses focus: fixup().
FixupAmount ==
    /\ page = "SendCoins"
    /\ CoinFieldValue(payAmount).ok
    /\ payAmount' = [payAmount EXCEPT !.box = BoxFixup(payAmount.box)]
    /\ UNCHANGED <<model, displayUnit, page, payTo, payToInvalid, payToIs, payToS,
                   payAmountIs, payAmountS, recipient>>

\* A step of payAmount in a direction stepEnabled() allows.
StepAmount(steps) ==
    /\ page = "SendCoins"
    /\ IF steps > 0 THEN StepUpEnabled(payAmount.box) ELSE StepDownEnabled(payAmount.box)
    /\ payAmount' = [payAmount EXCEPT !.box = BoxStepBy(payAmount.box, steps)]
    /\ UNCHANGED <<model, displayUnit, page, payTo, payToInvalid, payToIs, payToS,
                   payAmountIs, payAmountS, recipient>>

\* AokChainAmountField::eventFilter on FocusIn: setValid(true).
FocusInAmount ==
    /\ page = "SendCoins"
    /\ payAmount' = [payAmount EXCEPT !.invalid = FALSE]
    /\ UNCHANGED <<model, displayUnit, page, payTo, payToInvalid, payToIs, payToS,
                   payAmountIs, payAmountS, recipient>>

(***************************************************************************)
(* With -advancedui each amount field shows its unit combo box, and the    *)
(* user picks a unit in the field of the page shown; setReadOnly leaves    *)
(* the combo box enabled.  unitChanged runs only if the index moved.       *)
(***************************************************************************)
PickUnit(u) ==
    /\ AdvancedUI
    /\ \/ page = "SendCoins" /\ payAmount' = CoinFieldSetDisplayUnit(payAmount, u)
          /\ UNCHANGED <<payAmountIs, payAmountS>>
       \/ page = "Unauthenticated" /\ payAmountIs' = CoinFieldSetDisplayUnit(payAmountIs, u)
          /\ UNCHANGED <<payAmount, payAmountS>>
       \/ page = "Authenticated" /\ payAmountS' = CoinFieldSetDisplayUnit(payAmountS, u)
          /\ UNCHANGED <<payAmount, payAmountIs>>
    /\ UNCHANGED <<model, displayUnit, page, payTo, payToInvalid, payToIs, payToS, recipient>>

(***************************************************************************)
(* The options dialog changes the display unit.  displayUnitChanged is     *)
(* connected to updateDisplayUnit only once a model has been set.          *)
(***************************************************************************)
OptionsDisplayUnit(u) ==
    /\ displayUnit' = u
    /\ payAmount' = UpdateDisplayUnit(payAmount, model, u)
    /\ payAmountIs' = UpdateDisplayUnit(payAmountIs, model, u)
    /\ payAmountS' = UpdateDisplayUnit(payAmountS, model, u)
    /\ UNCHANGED <<model, page, payTo, payToInvalid, payToIs, payToS, recipient>>

(***************************************************************************)
(* setValue(recipient): stored; a payment request is shown read-only on    *)
(* its page (unauthenticated or authenticated); a normal payment fills     *)
(* payTo and payAmount, and the page is not switched.                      *)
(***************************************************************************)
RequestField(f, v) == [CoinFieldSetValue(f, v) EXCEPT !.box.readOnly = TRUE]

EntrySetValue(r) ==
    /\ recipient' = r
    /\ CASE r.kind = "unauthenticated" ->
              /\ payToIs' = r.address
              /\ payAmountIs' = RequestField(payAmountIs, r.amount)
              /\ page' = "Unauthenticated"
              /\ UNCHANGED <<payTo, payToInvalid, payToS, payAmount, payAmountS>>
         [] r.kind = "authenticated" ->
              /\ payToS' = r.address
              /\ payAmountS' = RequestField(payAmountS, r.amount)
              /\ page' = "Authenticated"
              /\ UNCHANGED <<payTo, payToInvalid, payToIs, payAmount, payAmountIs>>
         [] r.kind = "normal" ->
              /\ payTo' = r.address
              /\ payToInvalid' = FALSE
              /\ payAmount' = CoinFieldSetValue(payAmount, r.amount)
              /\ UNCHANGED <<page, payToIs, payToS, payAmountIs, payAmountS>>
    /\ UNCHANGED <<model, displayUnit>>

\* GUIUtil::isDust (guiutil.cpp): an output of this amount to this address is dust.
IsDust(a, v) == v < DustLimit

AddressOK == payTo \in ValidAddresses \cup Usernames

\* What validate() returns for a normal payment.
EntryValid ==
    /\ AddressOK
    /\ CoinFieldValue(payAmount).ok
    /\ CoinFieldValue(payAmount).val > 0
    /\ ~IsDust(payTo, CoinFieldValue(payAmount).val)

(***************************************************************************)
(* validate(), reached with a model and a normal payment (without a model  *)
(* it returns false, and for a payment request true, changing nothing).    *)
(* A bad address marks payTo; payAmount->validate() marks the amount by    *)
(* its validity; a value <= 0, or dust once all else passed, marks it      *)
(* invalid.                                                                *)
(***************************************************************************)
ValidateNoZeroMark ==
    LET v     == CoinFieldValue(payAmount).val
        dust  == AddressOK /\ CoinFieldValue(payAmount).ok /\ v > 0 /\ IsDust(payTo, v)
    IN /\ model
       /\ recipient.kind = "normal"
       /\ payToInvalid' = (payToInvalid \/ ~AddressOK)
       /\ payAmount' = [payAmount EXCEPT !.invalid = dust \/ ~CoinFieldValue(payAmount).ok]
       /\ UNCHANGED <<model, displayUnit, page, payTo, payToIs, payToS,
                      payAmountIs, payAmountS, recipient>>

EntryValidate ==
    LET v     == CoinFieldValue(payAmount).val
        dust  == AddressOK /\ CoinFieldValue(payAmount).ok /\ v > 0 /\ IsDust(payTo, v)
    IN /\ model
       /\ recipient.kind = "normal"
       /\ payToInvalid' = (payToInvalid \/ ~AddressOK)
       /\ payAmount' = [CoinFieldValidate(payAmount) EXCEPT
                          !.invalid = @ \/ v <= 0 \/ dust]
       /\ UNCHANGED <<model, displayUnit, page, payTo, payToIs, payToS,
                      payAmountIs, payAmountS, recipient>>

(***************************************************************************)
(* getValue() of a normal payment: a username is resolved to its address,  *)
(* and the amount is payAmount's value (0 when invalid).  A payment        *)
(* request is returned as stored.                                          *)
(***************************************************************************)
GetValue ==
    /\ recipient.kind = "normal"
    /\ recipient' = [recipient EXCEPT
                       !.address = IF payTo \in Usernames THEN UsernameAddress[payTo] ELSE payTo,
                       !.amount = CoinFieldValue(payAmount).val]
    /\ UNCHANGED <<model, displayUnit, page, payTo, payToInvalid, payToIs, payToS,
                   payAmount, payAmountIs, payAmountS>>

EntryNext ==
    \/ SetModel
    \/ EntryClear
    \/ \E a \in Addresses : EditPayTo(a)
    \/ \E t \in AmountTextsIn : EditAmount(t)
    \/ FixupAmount
    \/ \E s \in EntryStepsIn : StepAmount(s)
    \/ FocusInAmount
    \/ \E u \in Units : OptionsDisplayUnit(u)
    \/ \E u \in Units : PickUnit(u)
    \/ \E r \in RecipientsIn : EntrySetValue(r)
    \/ EntryValidate
    \/ GetValue

EntrySpec == EntryInit /\ [][EntryNext]_evars

-----------------------------------------------------------------------------

Fields == <<payAmount, payAmountIs, payAmountS>>

EntryTypeOK ==
    /\ model \in BOOLEAN
    /\ displayUnit \in Units
    /\ page \in Pages
    /\ {payTo, payToIs, payToS} \subseteq Addresses \cup {""} \cup {r.address : r \in RecipientsIn}
    /\ payToInvalid \in BOOLEAN
    /\ \A i \in 1 .. 3 : Fields[i] \in [box : Box, invalid : BOOLEAN] /\ Fields[i].box.tokenUnit = -1
    /\ recipient \in [kind : Kinds, address : STRING, amount : Int]
    /\ recipient.amount \in 0 .. MaxMoney \/ recipient.amount \in {r.amount : r \in RecipientsIn}

(***************************************************************************)
(* A change of the options model's display unit never changes the amount   *)
(* any of the three fields holds: setDisplayUnit reads the value with the  *)
(* old unit and formats it with the new one, and a valid value is exact in *)
(* every unit.                                                             *)
(***************************************************************************)
DisplayUnitKeepsAmount ==
    [][\A u \in Units :
         OptionsDisplayUnit(u) =>
            \A i \in 1 .. 3 : CoinFieldValue(Fields[i]).ok =>
                                 CoinFieldValue(Fields'[i]) = CoinFieldValue(Fields[i])]_evars

(***************************************************************************)
(* setModel, clear() and a change of the options unit each leave all three *)
(* amount fields in the options model's unit once the entry has a model,   *)
(* whatever units the user picked in the fields' combo boxes before:       *)
(* clear() resets each combo box to AOK and relies on its trailing         *)
(* updateDisplayUnit, and the option reaches the entry through            *)
(* displayUnitChanged, which moves a combo box only if its unit differs.  *)
(* Between these steps a -advancedui user may pick another unit.           *)
(***************************************************************************)
EntryUnitFollowsOptions ==
    [][(SetModel \/ EntryClear \/ \E u \in Units : OptionsDisplayUnit(u)) /\ model' =>
         \A i \in 1 .. 3 : Fields'[i].box.currentUnit = displayUnit']_evars

(***************************************************************************)
(* When validate() rejects a normal payment, the user is shown why: the    *)
(* step leaves payTo or payAmount marked invalid.                          *)
(***************************************************************************)
FailedValidateMarksField ==
    [][(EntryValidate /\ ~EntryValid) => (payToInvalid' \/ payAmount'.invalid)]_evars

=============================================================================
