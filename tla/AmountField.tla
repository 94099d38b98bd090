----------------------------- MODULE AmountField -----------------------------
(***************************************************************************)
(* TokenAmountField (src/src/qt/aokchainamountfield.cpp): the token amount *)
(* entry, a wrapper round an AmountSpinBox.  It keeps its own tokenUnit,   *)
(* passes it to the spin box, and reports the spin box's value scaled by   *)
(* factorToken(8 - tokenUnit).  Every method and event that changes the    *)
(* spin box, the unit or the invalid style is an action: typing (through   *)
(* the validator), fixup on leaving the field, stepBy, setValue, setUnit,  *)
(* clear, setSingleStep, setReadOnly, validate and focus-in.               *)
(***************************************************************************)
EXTENDS AmountSpinBox

CONSTANTS
    TextsIn,      \* texts the user types
    UnitsIn,      \* token units passed to setUnit
    ValuesIn,     \* amounts passed to setValue and setSingleStep
    StepsIn       \* step counts Qt passes to stepBy (arrow keys, page keys)

VARIABLES
    amount,       \* the AmountSpinBox
    tokenUnit,    \* TokenAmountField::tokenUnit
    invalid       \* the STYLE_INVALID style sheet is set on the spin box

vars == <<amount, tokenUnit, invalid>>

\* TokenAmountField::value(): the spin box's value times 10^(8 - tokenUnit).
FieldValue ==
    [ok |-> BoxValue(amount).ok, val |-> BoxValue(amount).val * FactorToken(8 - tokenUnit)]

\* TokenAmountField::setUnit(unit): stored, then passed to setTokenUnit.
SetUnitOf(b, u) == BoxSetTokenUnit(b, u)

(***************************************************************************)
(* The constructor: a new AmountSpinBox (unit -1), then                    *)
(* setUnit(MAX_TOKEN_UNITS), which reparses the empty text and clears it.  *)
(***************************************************************************)
InitNoSetUnit ==
    /\ amount = NewBox
    /\ tokenUnit = MAX_TOKEN_UNITS
    /\ invalid = FALSE

Init ==
    /\ amount = SetUnitOf(NewBox, MAX_TOKEN_UNITS)
    /\ tokenUnit = MAX_TOKEN_UNITS
    /\ invalid = FALSE

\* The user edits the text; QAbstractSpinBox keeps an edit validate() accepts.
Edit(t) ==
    /\ ~amount.readOnly
    /\ BoxAccepts(amount, t)
    /\ amount' = [amount EXCEPT !.text = t]
    /\ UNCHANGED <<tokenUnit, invalid>>

\* The field loses focus: fixup() rewrites a parsable text in canonical form.
Fixup ==
    /\ BoxValue(amount).ok
    /\ amount' = BoxFixup(amount)
    /\ UNCHANGED <<tokenUnit, invalid>>

\* Qt calls stepBy(steps) for a key or wheel step in a direction stepEnabled() allows.
StepBy(steps) ==
    /\ IF steps > 0 THEN StepUpEnabled(amount) ELSE StepDownEnabled(amount)
    /\ amount' = BoxStepBy(amount, steps)
    /\ UNCHANGED <<tokenUnit, invalid>>

\* TokenAmountField::setValue: passed to the spin box unscaled.
SetValue(v) ==
    /\ amount' = BoxSetValue(amount, v)
    /\ UNCHANGED <<tokenUnit, invalid>>

SetUnit(u) ==
    /\ tokenUnit' = u
    /\ amount' = SetUnitOf(amount, u)
    /\ UNCHANGED invalid

\* TokenAmountField::clear: the spin box is cleared, then setUnit(MAX_TOKEN_UNITS).
Clear ==
    /\ tokenUnit' = MAX_TOKEN_UNITS
    /\ amount' = SetUnitOf(BoxClear(amount), MAX_TOKEN_UNITS)
    /\ UNCHANGED invalid

SetSingleStep(v) ==
    /\ amount' = [amount EXCEPT !.singleStep = v]
    /\ UNCHANGED <<tokenUnit, invalid>>

SetReadOnly(b) ==
    /\ amount' = [amount EXCEPT !.readOnly = b]
    /\ UNCHANGED <<tokenUnit, invalid>>

\* TokenAmountField::validate: value(&valid), then setValid(valid).
Validate ==
    /\ invalid' = ~FieldValue.ok
    /\ UNCHANGED <<amount, tokenUnit>>

\* eventFilter on FocusIn: setValid(true) clears the invalid style.
FocusIn ==
    /\ invalid' = FALSE
    /\ UNCHANGED <<amount, tokenUnit>>

Next ==
    \/ \E t \in TextsIn : Edit(t)
    \/ Fixup
    \/ \E s \in StepsIn : StepBy(s)
    \/ \E v \in ValuesIn : SetValue(v) \/ SetSingleStep(v)
    \/ \E u \in UnitsIn : SetUnit(u)
    \/ Clear
    \/ \E b \in BOOLEAN : SetReadOnly(b)
    \/ Validate
    \/ FocusIn

Spec == Init /\ [][Next]_vars

-----------------------------------------------------------------------------

TypeOK ==
    /\ amount \in [text : Text, currentUnit : {AOK}, tokenUnit : 0 .. MAX_TOKEN_UNITS,
                   singleStep : ValuesIn \cup {100000}, readOnly : BOOLEAN]
    /\ tokenUnit \in UnitsIn \cup {MAX_TOKEN_UNITS}
    /\ invalid \in BOOLEAN

(***************************************************************************)
(* setUnit never changes the amount the field reports: the spin box        *)
(* reparses its text with the new unit, so a valid value() before the      *)
(* step is the same after it, or the text is cleared (more decimals than   *)
(* the new unit allows, or out of range in the new unit).                  *)
(***************************************************************************)
UnitChangeKeepsValue ==
    [][\A u \in UnitsIn :
         (SetUnit(u) /\ FieldValue.ok) => (FieldValue' = FieldValue \/ amount'.text = Empty)]_vars

(***************************************************************************)
(* After stepBy, value() reads back exactly the clamped sum stepBy passed  *)
(* to setValue: format and tokenParse are inverse on [0, maxMoney()].      *)
(***************************************************************************)
StepReadsBack ==
    [][\A s \in StepsIn :
         StepBy(s) => BoxValue(amount') = [ok |-> TRUE, val |-> Clamp(StepSum(amount, s))]]_vars

=============================================================================
