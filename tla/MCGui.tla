-------------------------------- MODULE MCGui --------------------------------
(***************************************************************************)
(* The GUI's widgets: the token amount field, a send-coins entry (both own *)
(* AmountSpinBoxes) and the token control dialog.  They share no state,    *)
(* and their product adds no behaviour, so each behaviour exercises one    *)
(* widget, chosen at the start (widget), and leaves the others in their    *)
(* initial states.                                                         *)
(***************************************************************************)
EXTENDS AmountField, SendCoinsEntry, TokenControl, TLC

\* Token field: "0.005", "0.00500000", "2.5", "-0.001" and "".
MCTexts ==
    { [neg |-> FALSE, whole |-> 0, wlen |-> 1, dot |-> TRUE, frac |-> 5, flen |-> 3],
      [neg |-> FALSE, whole |-> 0, wlen |-> 1, dot |-> TRUE, frac |-> 500000, flen |-> 8],
      [neg |-> FALSE, whole |-> 2, wlen |-> 1, dot |-> TRUE, frac |-> 5, flen |-> 1],
      [neg |-> TRUE, whole |-> 0, wlen |-> 1, dot |-> TRUE, frac |-> 1, flen |-> 3],
      Empty }

MCUnits == {6, 7, 8}
MCValues == {100000, 500000}
MCSteps == {1, -1, 10, -10}

\* Entry: "0.001", "1.5", "0", "0.000005" typed into payAmount.
MCAmountTexts ==
    { [neg |-> FALSE, whole |-> 0, wlen |-> 1, dot |-> TRUE, frac |-> 1, flen |-> 3],
      [neg |-> FALSE, whole |-> 1, wlen |-> 1, dot |-> TRUE, frac |-> 5, flen |-> 1],
      [neg |-> FALSE, whole |-> 0, wlen |-> 1, dot |-> FALSE, frac |-> 0, flen |-> 0],
      [neg |-> FALSE, whole |-> 0, wlen |-> 1, dot |-> TRUE, frac |-> 5, flen |-> 6] }

MCAddresses == {"addr", "alice"}
MCValidAddresses == {"addr"}
MCUsernames == {"alice"}
MCUsernameAddress == [n \in {"alice"} |-> "addr2"]
MCEntrySteps == {1, -1}
MCRecipients ==
    { [kind |-> "normal", address |-> "addr", amount |-> 100000],
      [kind |-> "unauthenticated", address |-> "addr", amount |-> 0],
      [kind |-> "authenticated", address |-> "shop", amount |-> 500000] }

\* Token control: two outputs of token A at one address, one of the
\* ownership token B! at another; the caller pays 6 A.
MCOutpoints == {1, 2, 3}
MCTokenOf == (1 :> "A" @@ 2 :> "A" @@ 3 :> "B!")
MCAmountOf == (1 :> 5 @@ 2 :> 3 @@ 3 :> 1)
MCAddrOf == (1 :> "x" @@ 2 :> "x" @@ 3 :> "y")

\* The widgets a run exercises.
CONSTANT Widgets

VARIABLE widget

MCVars == <<vars, evars, tvars, widget>>

\* The widgets left alone start from one of their initial states.
MCInit ==
    /\ Init /\ EntryInit /\ TokenInit
    /\ widget \in Widgets
    /\ widget # "SendCoinsEntry" => displayUnit = AOK
    /\ widget # "TokenControlDialog" => savedListMode

MCNext ==
    \/ widget = "TokenAmountField" /\ Next /\ UNCHANGED <<evars, tvars, widget>>
    \/ widget = "SendCoinsEntry" /\ EntryNext /\ UNCHANGED <<vars, tvars, widget>>
    \/ widget = "TokenControlDialog" /\ TokenNext /\ UNCHANGED <<vars, evars, widget>>

MCSpec == MCInit /\ [][MCNext]_MCVars
====
