-------------------------------- MODULE Room --------------------------------
(***************************************************************************)
(* What a room promises its players, as if there were one server that did  *)
(* one command at a time: a command is applied at most once, to the table  *)
(* as it then is, and confirmed only if it was; one that is told that it   *)
(* came too late is never applied, unless it came too early: then it is    *)
(* applied, if at all, before anything else happens; and a closed room     *)
(* stays as it is.  What a command makes of a table, and who is present at *)
(* it, is for the engine to say.                                           *)
(***************************************************************************)
CONSTANTS Users, Commands, CommandIds, FirstTables, Outcomes(_, _, _), Present(_)

VARIABLES table, room, applied, confirmed, denied,
          early  \* those denied that may be applied to the table as it is

vars == <<table, room, applied, confirmed, denied, early>>

Init ==
  /\ table \in FirstTables
  /\ room = "open"
  /\ applied = {} /\ confirmed = {} /\ denied = {} /\ early = {}

Apply(id) ==
  /\ room = "open"
  /\ id \notin applied \cup (denied \ early)
  /\ applied' = applied \cup {id} /\ early' = {}
  /\ \E u \in Users, c \in Commands : table' \in Outcomes(table, u, c)
  /\ room' = IF Present(table') = {} THEN "closed" ELSE "open"
  /\ confirmed' \in {confirmed, confirmed \cup {id}}
  /\ UNCHANGED denied

Confirm(id) ==
  /\ id \in applied
  /\ confirmed' = confirmed \cup {id}
  /\ UNCHANGED <<table, room, applied, denied, early>>

Deny(id) ==
  /\ id \notin applied
  /\ denied' = denied \cup {id}
  /\ \/ UNCHANGED early
     \/ id \notin denied /\ early' = early \cup {id}
  /\ UNCHANGED <<table, room, applied, confirmed>>

Close ==
  /\ room = "open"
  /\ table.phase = "lobby"
  /\ room' = "closed" /\ early' = {}
  /\ UNCHANGED <<table, applied, confirmed, denied>>

Next ==
  \/ \E id \in CommandIds : Apply(id) \/ Confirm(id) \/ Deny(id)
  \/ Close

Spec == Init /\ [][Next]_vars
=============================================================================
