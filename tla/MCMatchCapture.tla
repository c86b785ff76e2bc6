--------------------------- MODULE MCMatchCapture ---------------------------
(***************************************************************************)
(* Instances of MatchCapture for TLC.                                      *)
(***************************************************************************)
EXTENDS MatchCapture, TLC

CONSTANTS r1, r2, p1, p2, c1, c2, first, second

\* Slots with the same operations are interchangeable.
Slots == Permutations(Requests)

\* The audit trail is written and never read: where no property is about it, states
\* that differ in it alone are one.
AllButAudit == <<match, attendance, actions, notifications, pc, loc, failed>>

NoSaves == [r \in Requests |-> OperationNames \ {"save", "update"}]
Anything == [r \in Requests |-> OperationNames]

BothPlayOne == [c \in Captures |-> p1]
OnePlayerEach == [c \in Captures |-> IF c = c1 THEN p1 ELSE p2]
OneCategory == [p \in Players |-> first]
ThirdInSecond == [p \in Players |-> IF p \in {p1, p2} THEN first ELSE second]
OwnNumbers == [p \in Players |-> IF p = p1 THEN 7 ELSE 9]
=============================================================================
