---------------------------- MODULE RoomLifecycle ----------------------------
(***************************************************************************)
(* The clock of one room: src/lib/server/game-store.ts with the policies   *)
(* in room-lifecycle-policy.ts, presence-policy.ts and                     *)
(* game-night-continuity-policy.ts.  A member is seen when one of its      *)
(* requests says so.  A lobby that nobody attends is marked, and closed    *)
(* when the mark is old enough; a host who has not been seen for long may  *)
(* be succeeded by a member who has, and may remove a member who has not.  *)
(*                                                                         *)
(* Every request takes the time when it arrives and uses it to its end,    *)
(* while others come and go between its queries.  A time is kept as its    *)
(* age, so that the clock may run for ever: Tick makes everything older,   *)
(* and what is as old as Horizon stays so, because no comparison tells it  *)
(* from anything older.  The engine is Roster's.  Instead of the version   *)
(* that a request has read it keeps whether that is still the current one. *)
(***************************************************************************)
EXTENDS Roster

CONSTANTS
  Requests,      \* bound: invocations that serve the room at one time
  Disconnected,  \* unseen for so long, a member is not connected (45 s)
  Removable,     \* and for so long, it may be removed or succeeded (2 min)
  CloseAfter,    \* a lobby marked for so long is closed (5 min)
  Cadence,       \* between two maintenance passes of an isolate (15 s)
  Latency,       \* bound: how long an invocation may take
  Scenarios      \* bound: the table a room is watched from, who comes there,
                 \* and the commands that they give

ASSUME LifecycleAssumption ==
  /\ IsFiniteSet(Users) /\ MaxPlayers \in Nat /\ None \notin Users
  /\ {Disconnected, Removable, CloseAfter, Cadence, Latency} \subseteq Nat
  /\ 0 < Disconnected /\ Disconnected <= Removable
  /\ Scenarios \subseteq [table: Rosters, users: SUBSET Users, offered: SUBSET Commands]
  /\ \A s \in Scenarios : LobbyIsPlain(s.table) /\ SeatsApart(s.table)

VARIABLES
  scenario,  \* chosen once
  table,     \* the games row: its snapshot,
  room,      \* room_status, or why the room is closed,
  since,     \* and abandoned_since
  seen,      \* last_seen_at of each member
  gate,      \* lastAttemptAt of the maintenance gate, up to Cadence ago
  requests,  \* the invocations, each with what it has read
  contact    \* history: when each member was last in touch, by any request

rowVars == <<table, room, since>>
moving == <<rowVars, seen, gate, requests, contact>>
vars == <<scenario, moving>>

Larger(x, y) == IF x < y THEN y ELSE x
Smaller(x, y) == IF x < y THEN x ELSE y

Horizon == Larger(Disconnected + CloseAfter, Removable) + Latency
Ages == 0..Horizon
Unmarked == -1
Older(age) == IF age = Unmarked THEN Unmarked ELSE Smaller(age + 1, Horizon)

Idle == [pc |-> "idle"]
At(r, pc) == requests[r].pc = pc
Busy(r) == ~At(r, "idle")

Init ==
  /\ scenario \in Scenarios
  /\ table = scenario.table
  /\ room = "open" /\ since = Unmarked
  /\ seen = [u \in Users |-> IF u \in Present(table) THEN 0 ELSE Horizon]
  /\ contact = seen
  /\ gate = Cadence
  /\ requests = [r \in Requests |-> Idle]

\* one unit of time; an invocation is over before it is older than Latency
Tick ==
  /\ \A r \in Requests : Busy(r) => requests[r].age < Latency
  /\ since' = Older(since)
  /\ seen' = [u \in Users |-> Older(seen[u])]
  /\ contact' = [u \in Users |-> Older(contact[u])]
  /\ gate' = Smaller(gate + 1, Cadence)
  /\ requests' = [r \in Requests |->
       IF Busy(r) THEN [requests[r] EXCEPT !.age = @ + 1, !.due = Older(@), !.was = Older(@)]
       ELSE Idle]
  /\ UNCHANGED <<table, room>>

Start(r, q) ==
  /\ ~Busy(r)
  /\ requests' = [requests EXCEPT ![r] = q]

Request(pc, u, c) ==
  [pc |-> pc, user |-> u, command |-> c, age |-> 0, fresh |-> TRUE,
   due |-> Unmarked, was |-> Unmarked]

End(r) == requests' = [requests EXCEPT ![r] = Idle]
Goto(r, pc) == requests' = [requests EXCEPT ![r] = [@ EXCEPT !.pc = pc]]

\* the snapshot is replaced: what others have read of it is stale
EndWithNewVersion(r) ==
  requests' = [s \in Requests |-> IF s = r \/ ~Busy(s) THEN Idle
                                  ELSE [requests[s] EXCEPT !.fresh = FALSE]]

Current(r) == room = "open" /\ requests[r].fresh

\* presenceUpsertStatement: what an older request writes stands
Touch(u, age) ==
  /\ seen' = [seen EXCEPT ![u] = age]
  /\ contact' = [contact EXCEPT ![u] = Smaller(@, age)]

-----------------------------------------------------------------------------
(***************************************************************************)
(* Heartbeats.                                                             *)
(***************************************************************************)
NoCommand == [type |-> "none"]

Beat(u, r) ==
  /\ room = "open" /\ u \in Present(table)
  /\ Start(r, Request("beat", u, NoCommand))
  /\ UNCHANGED <<rowVars, seen, gate, contact>>

\* the batch; a member who has left in between is not seen, but the mark
\* is cleared
FinishBeat(r) ==
  /\ At(r, "beat")
  /\ End(r)
  /\ IF room = "open" /\ requests[r].user \in Present(table)
     THEN Touch(requests[r].user, requests[r].age) ELSE UNCHANGED <<seen, contact>>
  /\ since' = IF room = "open" THEN Unmarked ELSE since
  /\ UNCHANGED <<table, room, gate>>

-----------------------------------------------------------------------------
(***************************************************************************)
(* Commands.  The row is read, the actor is seen, whatever becomes of its  *)
(* command, then the presence of others is read where the command needs    *)
(* it, and the batch looks at it again.                                    *)
(***************************************************************************)
Command(u, c, r) ==
  /\ room = "open"
  /\ IF c.type = "join" THEN Start(r, Request("batch", u, c)) /\ Outcomes(table, u, c) # {}
     ELSE Start(r, Request("touch", u, c)) /\ u \in Present(table)
  /\ UNCHANGED <<rowVars, seen, gate, contact>>

TouchActor(r) ==
  /\ At(r, "touch")
  /\ Goto(r, IF requests[r].command.type \in {"claim", "remove"} THEN "policy" ELSE "batch")
  /\ IF room = "open" /\ requests[r].user \in Present(table)
     THEN Touch(requests[r].user, requests[r].age) ELSE UNCHANGED <<seen, contact>>
  /\ UNCHANGED <<rowVars, gate>>

\* presenceAgeMs at the time of a request that is so old
Unseen(u, age) == Larger(0, seen[u] - age)
Connected(u, age) == Unseen(u, age) < Disconnected
Away(u, age) == Unseen(u, age) >= Removable

\* the turn order of the seats after s
Distance(s, from) == IF s > from THEN s ELSE s + MaxPlayers + 1

Contenders(age) ==
  {u \in (IF table.phase = "complete" THEN Present(table) ELSE Playing(table)) \ {table.host} :
     Connected(u, age)}

IsNext(u, us) ==
  \A v \in us : Distance(table.seat[u], table.seat[table.host])
                  <= Distance(table.seat[v], table.seat[table.host])

MayClaimMutant(u, age) ==  \* the next seat, whether connected or not
  /\ table.host \in Present(table) /\ Away(table.host, age)
  /\ u \in Contenders(age) /\ IsNext(u, Playing(table) \ {table.host})

MayClaim(u, age) ==
  /\ table.host \in Present(table) /\ Away(table.host, age)
  /\ u \in Contenders(age) /\ IsNext(u, Contenders(age))

MayRemove(u, v, age) == u = table.host /\ v \in Playing(table) \ {u} /\ Away(v, age)

PolicyAllows(q) ==
  IF q.command.type = "claim" THEN MayClaim(q.user, q.age)
  ELSE MayRemove(q.user, q.command.target, q.age)

\* assertHostClaimAllowed, assertInactiveRemovalAllowed: presence is read
CheckPolicy(r) ==
  /\ At(r, "policy")
  /\ Current(r) => PolicyAllows(requests[r])
  /\ Goto(r, "batch")
  /\ UNCHANGED <<rowVars, seen, gate, contact>>

StillAllowedMutant(q) ==  \* what the policy saw is not looked at again
  TRUE

\* the receipt's statement: only a claim and a removal look at presence
StillAllowed(q) == q.command.type \in {"claim", "remove"} => PolicyAllows(q)

\* who is at the table is still seen, and whoever joins is seen
SeenAfter(t, q) ==
  [u \in Users |-> IF u \notin Present(t) THEN Horizon
                   ELSE IF u = q.user /\ q.command.type = "join" THEN q.age ELSE seen[u]]

Commit(r) ==
  LET q == requests[r]
  IN  /\ At(r, "batch") /\ Current(r) /\ StillAllowed(q)
      /\ table' \in Outcomes(table, q.user, q.command)
      /\ room' = IF q.command.type = "leave" /\ Present(table') = {} THEN "empty" ELSE "open"
      /\ since' = Unmarked
      /\ seen' = SeenAfter(table', q)
      /\ contact' = [u \in Users |->
           IF u \notin Present(table') THEN Horizon
           ELSE IF u = q.user THEN Smaller(contact[u], q.age) ELSE contact[u]]
      /\ EndWithNewVersion(r)
      /\ UNCHANGED gate

\* An invocation ends without its batch: refused by the rules, a policy, a
\* quota or the version, failed, or killed.
Drop(r) ==
  /\ Busy(r)
  /\ End(r)
  /\ UNCHANGED <<rowVars, seen, gate, contact>>

-----------------------------------------------------------------------------
(***************************************************************************)
(* Maintenance, as a part of any request to the service, at most once in   *)
(* a Cadence.  A query that fails opens the gate again, and is as if it    *)
(* had not been made.                                                      *)
(***************************************************************************)
GateIsOpen == gate = Cadence

CandidateMutant ==  \* only what is marked already
  since # Unmarked

Candidate ==
  \/ Present(table) = {}
  \/ since # Unmarked
  \/ table.phase = "lobby" /\ \A u \in Present(table) : seen[u] >= Disconnected

Sweep(r) ==
  /\ GateIsOpen
  /\ gate' = 0
  /\ IF room = "open" /\ Candidate
     THEN Start(r, [Request("sweep", table.host, [type |-> table.phase]) EXCEPT !.was = since])
     ELSE ~Busy(r) /\ UNCHANGED requests
  /\ UNCHANGED <<rowVars, seen, contact>>

DueMutant(age) ==  \* before the last one was seen, not after
  LET last == CHOOSE s \in {seen[u] : u \in Present(table)} :
                \A u \in Present(table) : s <= seen[u]
  IN  Larger(age, last + Disconnected)

\* deriveAbandonedSince
Due(age) ==
  LET last == CHOOSE s \in {seen[u] : u \in Present(table)} :
                \A u \in Present(table) : s <= seen[u]
  IN  Larger(age, last - Disconnected)

Expired(mark, age) == mark - age >= CloseAfter

\* evaluateWaitingRoomLifecycle, for the phase and the mark that were read
Decision(q) ==
  IF Present(table) = {} THEN [pc |-> "close", due |-> q.age]
  ELSE IF q.command.type # "lobby" \/ \E u \in Present(table) : Connected(u, q.age)
  THEN [pc |-> IF q.was = Unmarked THEN "none" ELSE "clear", due |-> Unmarked]
  ELSE IF q.was = Unmarked
  THEN [pc |-> IF Expired(Due(q.age), q.age) THEN "close" ELSE "mark", due |-> Due(q.age)]
  ELSE [pc |-> IF Expired(q.was, q.age) THEN "close" ELSE "none", due |-> q.was]

\* maintainRoomLifecycleRow: presence is read after the row
Decide(r) ==
  /\ At(r, "sweep")
  /\ LET d == Decision(requests[r])
     IN  IF d.pc = "none" THEN End(r)
         ELSE requests' = [requests EXCEPT ![r] = [@ EXCEPT !.pc = d.pc, !.due = d.due]]
  /\ UNCHANGED <<rowVars, seen, gate, contact>>

NobodySeenSince(age) == \A u \in Present(table) : seen[u] >= age + Disconnected

MayMark(r) == Current(r) /\ since = Unmarked /\ NobodySeenSince(requests[r].age)

Mark(r) ==
  /\ At(r, "mark")
  /\ since' = IF MayMark(r) THEN requests[r].due ELSE since
  /\ End(r)
  /\ UNCHANGED <<table, room, seen, gate, contact>>

Clear(r) ==
  /\ At(r, "clear")
  /\ since' = IF Current(r) /\ since = requests[r].was THEN Unmarked ELSE since
  /\ End(r)
  /\ UNCHANGED <<table, room, seen, gate, contact>>

MayCloseMutant(r) ==  \* whoever has come back
  LET q == requests[r]
  IN  /\ Current(r) /\ table.phase = "lobby"
      /\ Expired(IF since = Unmarked THEN q.due ELSE since, q.age)

MayClose(r) ==
  LET q == requests[r]
  IN  /\ Current(r)
      /\ \/ Present(table) = {}
         \/ /\ table.phase = "lobby"
            /\ Expired(IF since = Unmarked THEN q.due ELSE since, q.age)
            /\ NobodySeenSince(q.age)

\* closeRoomFromMaintenance
Close(r) ==
  /\ At(r, "close")
  /\ IF MayClose(r)
     THEN /\ room' = IF Present(table) = {} THEN "empty" ELSE "abandoned"
          /\ since' = Unmarked
          /\ seen' = [u \in Users |-> Horizon]
          /\ EndWithNewVersion(r)
     ELSE UNCHANGED <<room, since, seen>> /\ End(r)
  /\ UNCHANGED <<table, gate, contact>>

-----------------------------------------------------------------------------
Arrive(r) ==
  \/ \E u \in scenario.users : Beat(u, r) \/ \E c \in scenario.offered : Command(u, c, r)
  \/ Sweep(r)

Maintain(r) == Decide(r) \/ Mark(r) \/ Clear(r) \/ Close(r)

Serve(r) == FinishBeat(r) \/ TouchActor(r) \/ CheckPolicy(r) \/ Commit(r) \/ Maintain(r)

Next ==
  /\ Tick \/ \E r \in Requests : Arrive(r) \/ Serve(r) \/ Drop(r)
  /\ UNCHANGED scenario

Spec == Init /\ [][Next]_vars

\* Time goes on, and no invocation takes for ever.  Requests for this or
\* any other room keep coming, so that now and then the gate is open for
\* one of them, and not all of them die in their maintenance pass.
Fairness ==
  /\ WF_moving(Tick)
  /\ \A r \in Requests : /\ WF_moving(Drop(r)) /\ SF_moving(Decide(r))
                         /\ SF_moving(Mark(r)) /\ SF_moving(Clear(r)) /\ SF_moving(Close(r))
  /\ SF_moving(\E r \in Requests : Sweep(r))

FairSpec == Spec /\ Fairness

-----------------------------------------------------------------------------
RequestType ==
  [pc: {"beat", "touch", "policy", "batch", "sweep", "mark", "clear", "close"},
   user: Users, command: Commands \cup [type: {"none", "lobby", "playing", "complete"}],
   age: 0..Latency, fresh: BOOLEAN, due: Ages \cup {Unmarked}, was: Ages \cup {Unmarked}]

TypeOK ==
  /\ table \in Rosters
  /\ room \in {"open", "empty", "abandoned"}
  /\ since \in Ages \cup {Unmarked}
  /\ {seen, contact} \subseteq [Users -> Ages]
  /\ gate \in 0..Cadence
  /\ requests \in [Requests -> RequestType \cup {Idle}]

\* Nobody's lobby is closed behind its back: when maintenance closes a room,
\* none of its members has been in touch for the time that makes it
\* disconnected, however many requests overtook the pass.
NobodyIsLockedOut ==
  [][room = "open" /\ room' = "abandoned" =>
       \A u \in Present(table) : contact[u] >= Disconnected - Latency]_vars

\* "A lobby with no live or reconnecting member for five minutes closes as
\* abandoned. Any valid heartbeat resets the timer."
ClosesAfterFullGrace ==
  [][room = "open" /\ room' = "abandoned" =>
       \A u \in Present(table) : contact[u] >= Disconnected + CloseAfter - Latency]_vars

\* The host changes under a host who stays at the table only if that host
\* has not been in touch for the grace period, and then to the connected
\* member who comes next in turn order, whatever happened between the
\* check and the batch.
HostIsClaimedInTurn ==
  [][table'.host # table.host /\ table.host \in Present(table') =>
       /\ contact[table.host] >= Removable - Latency
       /\ \A v \in Contenders(0) : Distance(table.seat[table'.host], table.seat[table.host])
                                     <= Distance(table.seat[v], table.seat[table.host])]_vars

\* Whoever the host removes has not been in touch for the grace period:
\* nobody is removed who came back between the check and the batch.
NobodyIsRemovedInTouch ==
  [][\A r \in Requests :
       At(r, "batch") /\ requests[r].command.type = "remove" /\ ~Busy(r)' /\ table' # table =>
         contact[requests[r].command.target] >= Removable - Latency]_vars

\* A table whose host has gone away is offered to exactly one of those who
\* are connected and may have it.
RecoveryIsOfferedToOne ==
  table.host \in Present(table) /\ Away(table.host, 0) /\ Contenders(0) # {} =>
    \E u \in Users : \A v \in Users : MayClaim(v, 0) <=> v = u

\* A lobby that is attended no more is closed in the end.
Attended == \E u \in Present(table) : seen[u] < Disconnected
UnattendedLobbyCloses ==
  <>[](table.phase = "lobby" /\ ~Attended) => <>(room # "open")
=============================================================================
