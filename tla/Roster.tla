------------------------------- MODULE Roster -------------------------------
(***************************************************************************)
(* What the rest of the system needs to know of the rules engine: who sits *)
(* where, who hosts, in which phase the table is and who won.  A roster is *)
(* a record, and Outcomes(t, u, c) is the set of rosters that the command  *)
(* c of user u can make of t; it is empty when the engine refuses c.       *)
(* RosterMachine makes a state machine of it, which ShedEngine implements. *)
(***************************************************************************)
EXTENDS Integers, FiniteSets

CONSTANTS Users, MaxPlayers, None

Commands == [type: {"join", "act", "start", "leave", "claim", "rematch"}]
              \cup [type: {"remove"}, target: Users]

Rosters == [phase: {"lobby", "playing", "complete"}, host: Users,
            status: [Users -> {"absent", "active", "eliminated", "left"}],
            seat: [Users -> 0..MaxPlayers], winner: Users \cup {None}]

Playing(t) == {u \in Users : t.status[u] = "active"}
Present(t) == {u \in Users : t.status[u] \in {"active", "eliminated"}}

\* nobody waits in a lobby who has been knocked out, and nobody shares a seat
LobbyIsPlain(t) == t.phase = "lobby" => Present(t) = Playing(t)
SeatsApart(t) ==
  \A u, v \in Users : t.status[u] # "absent" /\ t.status[v] # "absent" /\ u # v
                        => t.seat[u] # t.seat[v]

Lowest(t, us) == CHOOSE u \in us : \A v \in us : t.seat[u] <= t.seat[v]

NewTable(h) == [phase |-> "lobby", host |-> h, winner |-> None,
                status |-> [u \in Users |-> IF u = h THEN "active" ELSE "absent"],
                seat |-> [u \in Users |-> 0]]

Won(t, w) == [t EXCEPT !.phase = "complete", !.winner = w]

\* one still in the game ends it
Settled(t) ==
  IF t.phase = "playing" /\ Cardinality(Playing(t)) = 1
  THEN Won(t, CHOOSE w \in Playing(t) : TRUE)
  ELSE t

FirstFree(taken) == CHOOSE s \in 0..MaxPlayers :
                      s \notin taken /\ \A r \in 0..MaxPlayers : r < s => r \in taken

\* joinLobbyState
Joined(t, u) ==
  IF t.phase = "lobby" /\ u \notin Playing(t) /\ Cardinality(Playing(t)) < MaxPlayers
  THEN {[t EXCEPT
           !.status = [v \in Users |-> IF v = u THEN "active"
                                       ELSE IF @[v] = "left" THEN "absent" ELSE @[v]],
           !.seat[u] = IF t.status[u] = "absent"
                       THEN FirstFree({t.seat[v] : v \in Present(t)}) ELSE @]}
  ELSE {}

\* getting ready, and every command of the game itself: nobody moves, or
\* somebody is knocked out, or the actor goes out and wins
Acted(t, u) ==
  IF t.phase = "complete" \/ u \notin Playing(t) THEN {}
  ELSE {t} \cup IF t.phase = "lobby" THEN {}
                ELSE {Settled([t EXCEPT !.status[v] = "eliminated"]) : v \in Playing(t)}
                       \cup {Won(t, u)}

Started(t, u) ==
  IF t.phase = "lobby" /\ u = t.host /\ u \in Playing(t) /\ Cardinality(Playing(t)) >= 2
  THEN {[t EXCEPT !.phase = "playing",
                  !.status = [v \in Users |-> IF @[v] = "left" THEN "absent" ELSE @[v]]]}
  ELSE {}

Rematched(t, u) ==
  IF t.phase = "complete" /\ u = t.host /\ u \in Present(t)
  THEN {[t EXCEPT !.phase = "lobby", !.winner = None,
                  !.status = [v \in Users |-> IF v \in Present(t) THEN "active" ELSE "absent"]]}
  ELSE {}

Claimed(t, u) ==
  IF /\ u \in (IF t.phase = "complete" THEN Present(t) ELSE Playing(t)) \ {t.host}
     /\ t.host \in Present(t)
  THEN {[t EXCEPT !.host = u]} ELSE {}

\* removePlayer
Without(t, u) ==
  LET gone == [t EXCEPT !.status[u] = "left"]
  IN  IF t.phase = "lobby" /\ Playing(gone) = {}
      THEN [gone EXCEPT !.phase = "complete"] ELSE Settled(gone)

Left(t, u) ==
  IF u \notin Present(t) THEN {}
  ELSE LET gone == Without(t, u)
           heirs == IF gone.phase = "playing" THEN Playing(gone) ELSE Present(gone)
       IN  {[gone EXCEPT !.host = IF u = @ /\ heirs # {} THEN Lowest(t, heirs) ELSE @]}

Removed(t, u, v) ==
  IF t.phase # "complete" /\ u = t.host /\ u # v /\ {u, v} \subseteq Playing(t)
  THEN {Without(t, v)} ELSE {}

Outcomes(t, u, c) ==
  CASE c.type = "join" -> Joined(t, u)
    [] c.type = "act" -> Acted(t, u)
    [] c.type = "start" -> Started(t, u)
    [] c.type = "leave" -> Left(t, u)
    [] c.type = "claim" -> Claimed(t, u)
    [] c.type = "rematch" -> Rematched(t, u)
    [] c.type = "remove" -> Removed(t, u, c.target)
=============================================================================
