----------------------------- MODULE MCGameStore -----------------------------
(***************************************************************************)
(* Small rooms for TLC.  The players of a first table come in the order of *)
(* Users; the first of them hosts.                                         *)
(***************************************************************************)
EXTENDS GameStore, TLC

CONSTANTS a, b, c

Table(phase, active) ==
  [phase |-> phase, host |-> a, winner |-> None,
   status |-> [u \in Users |-> IF u \in active THEN "active" ELSE "absent"],
   seat |-> [u \in Users |-> IF u = b THEN 1 ELSE 0]]

Lobby == Table("lobby", {a, b})
Game == Table("playing", {a, b})

\* two commands of any kind raced by their copies
Race == [table: {Lobby, Game}, offered: {Commands}, commands: {2}, invocations: {2}, copies: {2}]

\* seats that are given up and taken again
Seats == [type: {"join", "leave"}]
Members == [table: {Lobby}, offered: {Seats}, commands: {3}, invocations: {2}, copies: {1}]

\* a game that is won, played again and won again
Rounds == [type: {"act", "rematch", "start"}]
Nights == [table: {Game}, offered: {Rounds}, commands: {4}, invocations: {1}, copies: {1}]

Storms == Race \cup Members \cup Nights

\* two copies of a command about seats
Twins == [table: {Lobby}, offered: {Seats}, commands: {2}, invocations: {2}, copies: {2}]

Symmetry == Permutations(Requests)
=============================================================================
