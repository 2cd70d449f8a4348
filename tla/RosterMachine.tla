---------------------------- MODULE RosterMachine ----------------------------
(***************************************************************************)
(* The abstract engine: a roster that commands change as Roster says.      *)
(***************************************************************************)
EXTENDS Roster

VARIABLE table

Init == \E h \in Users : table = NewTable(h)

Next == \E u \in Users, c \in Commands : table' \in Outcomes(table, u, c)

Spec == Init /\ [][Next]_table
=============================================================================
