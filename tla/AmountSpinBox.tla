---------------------------- MODULE AmountSpinBox ----------------------------
(***************************************************************************)
(* AmountSpinBox (src/src/qt/aokchainamountfield.cpp), the spin box behind *)
(* both amount fields of the GUI, with the conversions of AokChainUnits    *)
(* (format, parse, tokenParse, factor, factorToken and decimals in         *)
(* src/unnamed/part_005).  A spin box is a record; each of its methods is  *)
(* an operator from a box to the box after the call, so that the widgets   *)
(* that own spin boxes (AmountField, SendCoinsEntry) compose them.         *)
(*                                                                         *)
(* A text is what parse reads from it once spaces are removed: an optional *)
(* minus sign, the digits before the dot (their value and count), whether  *)
(* there is a dot, and the digits after it (value and count).  The thin    *)
(* spaces format inserts are dropped, as parse removes them.  Texts with   *)
(* a character toLongLong rejects, or a second dot, are refused by the     *)
(* validator and never reach the line edit.                                *)
(***************************************************************************)
EXTENDS Integers

CONSTANT MaxMoney   \* AokChainUnits::maxMoney(), MAX_MONEY (a scaled bound)

MIN_TOKEN_UNITS == 0
MAX_TOKEN_UNITS == 8

\* AokChainUnits::Unit, in the order of availableUnits() (the combo box rows).
AOK == "AOK"
mAOK == "mAOK"
uAOK == "uAOK"
Units == {AOK, mAOK, uAOK}

Text == [neg : BOOLEAN, whole : Nat, wlen : Nat, dot : BOOLEAN, frac : Nat, flen : Nat]

Empty == [neg |-> FALSE, whole |-> 0, wlen |-> 0, dot |-> FALSE, frac |-> 0, flen |-> 0]

\* Number of decimal digits of n >= 0 (QString::number).
RECURSIVE Digits(_)
Digits(n) == IF n < 10 THEN 1 ELSE 1 + Digits(n \div 10)

\* AokChainUnits::factor and decimals of the three display units.
Factor(u) == CASE u = AOK -> 10 ^ 8 [] u = mAOK -> 10 ^ 5 [] u = uAOK -> 10 ^ 2

Decimals(u) == CASE u = AOK -> 8 [] u = mAOK -> 5 [] u = uAOK -> 2

\* AokChainUnits::factorToken: 10^unit for 0..8, and 10^8 for any other.
FactorToken(u) == IF u \in 0 .. 8 THEN 10 ^ u ELSE 10 ^ 8

(***************************************************************************)
(* The common body of AokChainUnits::parse and tokenParse once the unit    *)
(* has given num_decimals nd: refused for an empty text or more decimals   *)
(* than nd; the digit string is the whole part followed by the decimals    *)
(* left-justified to nd, refused above 18 characters; toLongLong fails on  *)
(* a string with no digit.                                                 *)
(***************************************************************************)
DigitParse(nd, t) ==
    LET size == (IF t.neg THEN 1 ELSE 0) + t.wlen + nd
        mag  == t.whole * 10 ^ nd + t.frac * 10 ^ (nd - t.flen)
    IN IF t = Empty \/ t.flen > nd \/ size > 18 \/ t.wlen + nd = 0
       THEN [ok |-> FALSE, val |-> 0]
       ELSE [ok |-> TRUE, val |-> IF t.neg THEN -mag ELSE mag]

\* AokChainUnits::tokenParse: a unit outside 0..8 is refused.
TokenParse(u, t) ==
    IF u \in 0 .. 8 THEN DigitParse(u, t) ELSE [ok |-> FALSE, val |-> 0]

\* AokChainUnits::parse: num_decimals is decimals(unit).
UnitParse(u, t) == DigitParse(Decimals(u), t)

(***************************************************************************)
(* AokChainUnits::format(unit, n, false, separatorAlways, nTokenUnit): the *)
(* quotient of |n| by the coin (factorToken of the token unit, or factor   *)
(* of the display unit when there is none), a minus sign when n < 0, then  *)
(* a dot and the remainder right-justified to num_decimals digits; at      *)
(* MIN_TOKEN_UNITS there is no dot.                                        *)
(***************************************************************************)
FormatUnpadded(unit, n, tu) ==
    LET coin == IF tu >= 0 THEN FactorToken(tu) ELSE Factor(unit)
        nAbs == IF n > 0 THEN n ELSE -n
        rem  == nAbs % coin
    IN [neg  |-> n < 0,
        whole |-> nAbs \div coin, wlen |-> Digits(nAbs \div coin),
        dot  |-> tu # MIN_TOKEN_UNITS,
        frac |-> IF tu = MIN_TOKEN_UNITS THEN 0 ELSE rem,
        flen |-> IF tu = MIN_TOKEN_UNITS THEN 0 ELSE Digits(rem)]

Format(unit, n, tu) ==
    LET coin == IF tu >= 0 THEN FactorToken(tu) ELSE Factor(unit)
        nd   == IF tu >= 0 THEN tu ELSE Decimals(unit)
        nAbs == IF n > 0 THEN n ELSE -n
        rem  == nAbs % coin
    IN [neg  |-> n < 0,
        whole |-> nAbs \div coin, wlen |-> Digits(nAbs \div coin),
        dot  |-> tu # MIN_TOKEN_UNITS,
        frac |-> IF tu = MIN_TOKEN_UNITS THEN 0 ELSE rem,
        flen |-> IF tu = MIN_TOKEN_UNITS THEN 0
                 ELSE IF Digits(rem) > nd THEN Digits(rem) ELSE nd]

-----------------------------------------------------------------------------
(***************************************************************************)
(* The spin box: its line-edit text, currentUnit, tokenUnit, singleStep    *)
(* and the read-only flag of QAbstractSpinBox.                             *)
(***************************************************************************)
Box == [text : Text, currentUnit : Units, tokenUnit : -1 .. MAX_TOKEN_UNITS,
        singleStep : Int, readOnly : BOOLEAN]

\* The constructor: display unit AOK, a step of 100000 satoshis, no token unit.
NewBox == [text |-> Empty, currentUnit |-> AOK, tokenUnit |-> -1,
           singleStep |-> 100000, readOnly |-> FALSE]

(***************************************************************************)
(* parse(text): tokenParse with the token unit when there is one, else     *)
(* parse with the display unit; refused outside [0, maxMoney()]; 0 when    *)
(* refused.                                                                *)
(***************************************************************************)
BoxParseNoRange(b, t) ==
    LET r == IF b.tokenUnit >= 0 THEN TokenParse(b.tokenUnit, t)
             ELSE UnitParse(b.currentUnit, t)
    IN IF r.ok THEN r ELSE [ok |-> FALSE, val |-> 0]

BoxParse(b, t) ==
    LET r == IF b.tokenUnit >= 0 THEN TokenParse(b.tokenUnit, t)
             ELSE UnitParse(b.currentUnit, t)
    IN IF r.ok /\ r.val >= 0 /\ r.val <= MaxMoney THEN r ELSE [ok |-> FALSE, val |-> 0]

\* value(): the line edit's text parsed.
BoxValue(b) == BoxParse(b, b.text)

\* validate(): an edit is kept unless it is Invalid, i.e. non-empty and unparsable.
BoxAccepts(b, t) == t = Empty \/ BoxParse(b, t).ok

\* setValue(value): the line edit shows format(value) in the box's units.
BoxSetValue(b, v) == [b EXCEPT !.text = Format(b.currentUnit, v, b.tokenUnit)]

\* clear() (QAbstractSpinBox): the text is emptied.
BoxClear(b) == [b EXCEPT !.text = Empty]

\* fixup(input): a parsable text is rewritten in canonical form.
BoxFixup(b) == IF BoxValue(b).ok THEN BoxSetValue(b, BoxValue(b).val) ELSE b

(***************************************************************************)
(* stepEnabled(): no step when read-only; an empty text may step up; else  *)
(* a parsable value steps down above 0 and up below maxMoney().            *)
(***************************************************************************)
StepUpEnabled(b) ==
    /\ ~b.readOnly
    /\ b.text = Empty \/ (BoxValue(b).ok /\ BoxValue(b).val < MaxMoney)

StepDownEnabled(b) == ~b.readOnly /\ BoxValue(b).ok /\ BoxValue(b).val > 0

\* stepBy(steps): value + steps * singleStep, clamped to [0, maxMoney()], then setValue.
StepSum(b, steps) == BoxValue(b).val + steps * b.singleStep

Clamp(v) == IF v < 0 THEN 0 ELSE IF v > MaxMoney THEN MaxMoney ELSE v

BoxStepBy(b, steps) == BoxSetValue(b, Clamp(StepSum(b, steps)))

(***************************************************************************)
(* setDisplayUnit(unit): the value is read with the old unit, the unit     *)
(* changed, and the value shown in the new one, or the box cleared.        *)
(***************************************************************************)
BoxSetDisplayUnitAfter(b, u) ==
    LET nb == [b EXCEPT !.currentUnit = u]
    IN IF BoxValue(nb).ok THEN BoxSetValue(nb, BoxValue(nb).val) ELSE BoxClear(nb)

BoxSetDisplayUnit(b, u) ==
    LET nb == [b EXCEPT !.currentUnit = u]
    IN IF BoxValue(b).ok THEN BoxSetValue(nb, BoxValue(b).val) ELSE BoxClear(nb)

(***************************************************************************)
(* setTokenUnit(unit): capped at MAX_TOKEN_UNITS and stored first; the     *)
(* text is then reparsed with the new unit and shown in it, or cleared.    *)
(***************************************************************************)
BoxSetTokenUnitOldUnit(b, u) ==
    LET nb == [b EXCEPT !.tokenUnit = IF u > MAX_TOKEN_UNITS THEN MAX_TOKEN_UNITS ELSE u]
    IN IF BoxValue(b).ok THEN BoxSetValue(nb, BoxValue(b).val) ELSE BoxClear(nb)

BoxSetTokenUnit(b, u) ==
    LET nb == [b EXCEPT !.tokenUnit = IF u > MAX_TOKEN_UNITS THEN MAX_TOKEN_UNITS ELSE u]
    IN IF BoxValue(nb).ok THEN BoxSetValue(nb, BoxValue(nb).val) ELSE BoxClear(nb)

=============================================================================
