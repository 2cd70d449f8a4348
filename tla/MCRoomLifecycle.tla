--------------------------- MODULE MCRoomLifecycle ---------------------------
(***************************************************************************)
(* Small rooms for TLC.  Three users take the first seats in the order of  *)
(* their names; a hosts.                                                   *)
(***************************************************************************)
EXTENDS RoomLifecycle, TLC

CONSTANTS a, b, c

Table(phase, status) ==
  [phase |-> phase, host |-> a, winner |-> None, status |-> status,
   seat |-> [u \in Users |-> IF u = a THEN 0 ELSE IF u = b THEN 1 ELSE 2]]

Active(us) == [u \in Users |-> IF u \in us THEN "active" ELSE "absent"]

\* two in a lobby
Everyday == [type: {"join", "act", "start", "leave"}]
Lobbies == [table: {Table("lobby", Active({a, b}))}, users: {{a, b}}, offered: {Everyday}]

\* three at play, and after a game that c was knocked out of
Games ==
  [table: {Table("playing", Active(Users))}, users: {Users},
   offered: {[type: {"claim"}] \cup [type: {"remove"}, target: {b}]}]
Ends ==
  [table: {Table("complete", [Active(Users) EXCEPT ![c] = "eliminated"])}, users: {Users},
   offered: {[type: {"claim"}]}]

Rooms == Lobbies \cup Games \cup Ends

\* one in a lobby
Lone == [table: {Table("lobby", Active({a}))}, users: {{a}}, offered: {Everyday}]

\* two whose commands are refused
Refusals == [table: {Table("lobby", Active({a, b}))}, users: {{a, b}},
             offered: {[type: {"act"}]}]

Symmetry == Permutations(Requests)
=============================================================================
