-------------------------- MODULE GovernanceLedger --------------------------
(***************************************************************************)
(* What the governance store promises its readers (spec sections 4.7 and  *)
(* 8.7): the state it reports is a function of the blocks currently        *)
(* connected, whatever connects and disconnects led there.                 *)
(*   - a watched script can be sent from unless the last freeze/unfreeze   *)
(*     naming it in the connected chain was a freeze;                     *)
(*   - GetCost(t) is the cost carried by the highest connected block that  *)
(*     updates t (the first such update within that block), or the        *)
(*     genesis cost;                                                      *)
(*   - GetFeeScript() likewise for fee-address updates.                    *)
(* A block is a sequence of governance actions; a disconnect simply drops  *)
(* the tip, so the view returns to what it was before that block.          *)
(***************************************************************************)
EXTENDS Integers, Sequences, SequencesExt

CONSTANTS
    Targets,          \* scripts a freeze/unfreeze action names
    Watched,          \* scripts whose sendability the view reports
    TypesIn,          \* cost types an update action carries
    Amounts,          \* costs an update action carries
    FeeScripts,       \* scripts a fee-address action carries
    InitCost,         \* [TypesIn -> Amounts]: costs written at genesis
    InitFeeScript,    \* fee script written at genesis
    MaxHeight,        \* longest chain considered
    MaxBlockActions   \* most governance actions in one block

ASSUME Watched \subseteq Targets

GovActions ==
    [op : {"freeze", "unfreeze"}, script : Targets]
      \cup [op : {"cost"}, type : TypesIn, amount : Amounts]
      \cup [op : {"fee"}, script : FeeScripts]

Blocks == BoundedSeq(GovActions, MaxBlockActions)

VARIABLES chain, view

\* Positions <<height, index>> of the connected actions satisfying P.
Positions(ch, P(_)) ==
    {<<h, i>> \in (1 .. Len(ch)) \X (1 .. MaxBlockActions) :
        i <= Len(ch[h]) /\ P(ch[h][i])}

\* Chain order on positions.
Before(p, q) == p[1] < q[1] \/ (p[1] = q[1] /\ p[2] < q[2])

\* The last position in chain order, and the first one of the highest block.
LastOf(P) == CHOOSE p \in P : \A q \in P : q = p \/ Before(q, p)
FirstOfTop(P) ==
    CHOOSE p \in P : \A q \in P : q = p \/ q[1] < p[1] \/ (q[1] = p[1] /\ p[2] < q[2])

Sendable(ch, s) ==
    LET P == Positions(ch, LAMBDA a : a.op \in {"freeze", "unfreeze"} /\ a.script = s)
    IN P = {} \/ LET p == LastOf(P) IN ch[p[1]][p[2]].op = "unfreeze"

CostOf(ch, t) ==
    LET P == Positions(ch, LAMBDA a : a.op = "cost" /\ a.type = t)
    IN IF P = {} THEN InitCost[t]
       ELSE LET p == FirstOfTop(P) IN ch[p[1]][p[2]].amount

FeeOf(ch) ==
    LET P == Positions(ch, LAMBDA a : a.op = "fee")
    IN IF P = {} THEN InitFeeScript
       ELSE LET p == FirstOfTop(P) IN ch[p[1]][p[2]].script

ViewOf(ch) ==
    [sendable |-> [s \in Watched |-> Sendable(ch, s)],
     cost     |-> [t \in TypesIn |-> CostOf(ch, t)],
     fee      |-> FeeOf(ch)]

Init == chain = <<>> /\ view = ViewOf(<<>>)

ConnectBlock ==
    /\ Len(chain) < MaxHeight
    /\ \E b \in Blocks : chain' = Append(chain, b)
    /\ view' = ViewOf(chain')

DisconnectBlock ==
    /\ chain # <<>>
    /\ chain' = Front(chain)
    /\ view' = ViewOf(chain')

Spec == Init /\ [][ConnectBlock \/ DisconnectBlock]_<<chain, view>>

=============================================================================
