----------------------------- MODULE PublicTables -----------------------------
(***************************************************************************)
(* What public listings (PublicListing) and lobby invitations              *)
(* (LobbyInvitations) share: the tables as src/lib/server/game-store.ts    *)
(* keeps them, who may see which of them, and the moves of members that    *)
(* open, fill, start and close a table.  GameStore shows how those moves   *)
(* survive retries and races; here each is the one batch that commits it.  *)
(*                                                                         *)
(* Presence is not timed: a host or a seeker whom the database has not     *)
(* seen lately makes a request fail, and a request may fail at any time.   *)
(***************************************************************************)
EXTENDS Integers, Sequences, FiniteSets

CONSTANTS
  Users, Tables, Requests,
  Capacity,      \* seats of a table (6)
  Attempts,      \* reads of one public join (4)
  Selections,    \* tables that one quick join tries (3)
  MaxVersion,    \* bound: moves of one table
  Scenarios      \* bound: what may happen, and how many commands of each kind

ASSUME DiscoveryAssumption ==
  /\ IsFiniteSet(Users)
  /\ Capacity \in Nat \ {0, 1} /\ Attempts \in Nat \ {0} /\ Selections \in Nat \ {0}
  /\ MaxVersion \in Nat \ {0}
  /\ \A x \in Scenarios :
       /\ x.may \subseteq {"create", "code", "leave", "claim", "start", "close",
                         "hide", "lapse", "decline", "block", "retry"}
       /\ \A op \in DOMAIN x.commands :
            /\ op \in {"publish", "withdraw", "join", "quick", "look", "invite", "accept"}
            /\ x.commands[op] \in Nat

VARIABLES
  scenario,      \* chosen once
  game,          \* the games rows, with who is seated in the snapshot
  rows,          \* game_members rows that are not marked as left
  listing,       \* public_game_listings; version 0: none
  looking,       \* lobby_presence: the locator of who is looking for a game, or 0
  invitations,   \* lobby_invitations
  blocks,        \* profile_blocks
  receipts,      \* command_receipts and lobby_presence_receipts
  commands,      \* what browsers have asked for, each under its own command ID
  requests       \* the invocations

tableVars == <<game, rows, listing>>
lobbyVars == <<looking, invitations, blocks>>
serverVars == <<tableVars, lobbyVars, receipts>>
vars == <<scenario, serverVars, commands, requests>>

Idle == [pc |-> "idle"]
NoRow == [source |-> "none", consent |-> FALSE]
NoTable == [room |-> "none", phase |-> "lobby", host |-> {}, version |-> 0,
            seated |-> {}, scope |-> "invite_only"]
NewTable(u) == [room |-> "open", phase |-> "lobby", host |-> {u}, version |-> 1,
                seated |-> {u}, scope |-> "invite_only"]
NoListing == [state |-> "none", version |-> 0, locator |-> 0, owner |-> {}]
NewRows(u) == [v \in Users |-> IF v = u THEN [source |-> "host", consent |-> FALSE] ELSE NoRow]

Init ==
  /\ scenario \in Scenarios
  /\ \E hosts \in [Tables -> {{}} \cup {{u} : u \in Users}] :
       /\ game = [t \in Tables |-> IF hosts[t] = {} THEN NoTable
                                   ELSE NewTable(CHOOSE u \in Users : u \in hosts[t])]
       /\ rows = [t \in Tables |-> [u \in Users |-> IF u \in hosts[t]
                                    THEN [source |-> "host", consent |-> FALSE] ELSE NoRow]]
  /\ listing = [t \in Tables |-> NoListing]
  /\ looking = [u \in Users |-> 0]
  /\ invitations = {} /\ blocks = {} /\ receipts = {}
  /\ commands = <<>>
  /\ requests = [r \in Requests |-> Idle]

-----------------------------------------------------------------------------
Occupants(t) == {u \in Users : rows[t][u].source # "none"}
Waiting(t) == game[t].room = "open" /\ game[t].phase = "lobby"
InOpenTable(u) == \E t \in Tables : game[t].room = "open" /\ u \in Occupants(t)
Blocked(u, v) == <<u, v>> \in blocks \/ <<v, u>> \in blocks
Movable(t) == game[t].version < MaxVersion

\* a waiting table whose members all agreed to be seen by strangers
Public(t) ==
  /\ listing[t].state = "listed"
  /\ Waiting(t)
  /\ game[t].host = listing[t].owner
  /\ game[t].host \subseteq Occupants(t)
  /\ \A u \in Occupants(t) : rows[t][u].consent

\* may u be seated there
MayMeet(u, t) ==
  /\ u \notin Occupants(t)
  /\ \A v \in Occupants(t) : ~Blocked(u, v)

\* listPublicRooms: what u is shown
Pool(u) == {t \in Tables : Public(t) /\ MayMeet(u, t) /\ Cardinality(Occupants(t)) < Capacity}

\* the host of a waiting table, alone at it
HostsAlone(u, t) == Waiting(t) /\ game[t].host = {u} /\ Cardinality(Occupants(t)) = 1

\* the players whom a host that waits alone is shown
Directory(u) ==
  {v \in Users : /\ \E t \in Tables : HostsAlone(u, t)
                 /\ v # u /\ looking[v] # 0 /\ ~Blocked(u, v) /\ ~InOpenTable(v)}

\* the invitations that u is shown
Feed(u) ==
  {x \in invitations : /\ x.to = u /\ x.state = "pending"
                       /\ looking[u] # 0 /\ x.locator = looking[u]
                       /\ HostsAlone(x.from, x.table) /\ ~Blocked(u, x.from)}

\* the listing is taken down if it is up
TakenDown(t, state) ==
  IF listing[t].state = "listed"
  THEN [listing EXCEPT ![t].state = state, ![t].version = @ + 1] ELSE listing

\* what of the invitations in S is pending comes to nothing
Expired(S) ==
  {IF x.state = "pending" /\ x \in S THEN [x EXCEPT !.state = "expired"] ELSE x : x \in invitations}

\* whoever has taken a seat is no longer looking for one
StopsLooking(u) ==
  /\ looking' = [looking EXCEPT ![u] = 0]
  /\ invitations' = Expired({x \in invitations : x.to = u})
  /\ UNCHANGED blocks

-----------------------------------------------------------------------------
(***************************************************************************)
(* The moves of members.                                                   *)
(***************************************************************************)
Move == UNCHANGED <<scenario, receipts, commands, requests>>

CreateMutant(u, t) ==  \* who opens a table goes on looking for one
  /\ "create" \in scenario.may
  /\ game[t].room = "none"
  /\ game' = [game EXCEPT ![t] = NewTable(u)]
  /\ rows' = [rows EXCEPT ![t] = NewRows(u)]
  /\ UNCHANGED <<listing, lobbyVars>> /\ Move

\* createGame: it does not ask where else its user sits
Create(u, t) ==
  /\ "create" \in scenario.may
  /\ game[t].room = "none"
  /\ game' = [game EXCEPT ![t] = NewTable(u)]
  /\ rows' = [rows EXCEPT ![t] = NewRows(u)]
  /\ UNCHANGED listing /\ StopsLooking(u) /\ Move

\* joinGame: with the code of the table, whoever is blocked by whom
JoinByCode(u, t) ==
  /\ "code" \in scenario.may /\ Movable(t)
  /\ Waiting(t) /\ u \notin game[t].seated /\ Cardinality(game[t].seated) < Capacity
  /\ game' = [game EXCEPT ![t].seated = @ \cup {u}, ![t].version = @ + 1]
  /\ rows' = [rows EXCEPT ![t][u] =
                IF @ = NoRow THEN [source |-> "invite", consent |-> FALSE] ELSE @]
  /\ listing' = TakenDown(t, "unlisted")
  /\ StopsLooking(u) /\ Move

HeirsMutant(u, t) == game[t].host

\* the engine passes the table on when its host leaves
Heirs(u, t) == IF {u} = game[t].host THEN game[t].seated \ {u} ELSE game[t].host

\* leave_game, and remove_inactive_player by the host
Leave(u, t) ==
  /\ "leave" \in scenario.may /\ Movable(t)
  /\ game[t].room = "open" /\ u \in game[t].seated
  /\ rows' = [rows EXCEPT ![t][u] = NoRow]
  /\ \/ /\ game[t].seated = {u}
        /\ game' = [game EXCEPT ![t].seated = {}, ![t].version = @ + 1, ![t].room = "closed"]
        /\ listing' = TakenDown(t, "closed")
     \/ \E v \in Heirs(u, t) :
          /\ game[t].seated # {u}
          /\ game' = [game EXCEPT ![t].seated = @ \ {u}, ![t].version = @ + 1, ![t].host = {v}]
          /\ listing' = IF {v} = game[t].host THEN listing ELSE TakenDown(t, "unlisted")
  /\ UNCHANGED lobbyVars /\ Move

ClaimHost(u, t) ==
  /\ "claim" \in scenario.may /\ Movable(t)
  /\ game[t].room = "open" /\ u \in game[t].seated /\ game[t].host # {u}
  /\ game' = [game EXCEPT ![t].host = {u}, ![t].version = @ + 1]
  /\ listing' = TakenDown(t, "unlisted")
  /\ UNCHANGED <<rows, lobbyVars>> /\ Move

StartGame(t) ==
  /\ "start" \in scenario.may /\ Movable(t)
  /\ Waiting(t) /\ Cardinality(game[t].seated) >= 2
  /\ game' = [game EXCEPT ![t].phase = "playing", ![t].version = @ + 1]
  /\ listing' = TakenDown(t, "unlisted")
  /\ UNCHANGED <<rows, lobbyVars>> /\ Move

\* maintenance closes a lobby that nobody attends
CloseLobby(t) ==
  /\ "close" \in scenario.may /\ Movable(t)
  /\ Waiting(t)
  /\ game' = [game EXCEPT ![t].room = "closed", ![t].version = @ + 1]
  /\ listing' = TakenDown(t, "closed")
  /\ UNCHANGED <<rows, lobbyVars>> /\ Move

MemberMoves ==
  \/ \E u \in Users, t \in Tables :
       Create(u, t) \/ JoinByCode(u, t) \/ Leave(u, t) \/ ClaimHost(u, t)
  \/ \E t \in Tables : StartGame(t) \/ CloseLobby(t)

-----------------------------------------------------------------------------
(***************************************************************************)
(* Invocations.  A browser that has no answer sends a command again, so    *)
(* that copies of it may be under way together.                            *)
(***************************************************************************)
At(r, op, pc) == requests[r].pc = pc /\ commands[requests[r].id].op = op
Asker(r) == commands[requests[r].id].by
Known(id) == \E x \in receipts : x.id = id
Answered(r) == requests' = [requests EXCEPT ![r] = Idle]

Compose(c) ==
  /\ c.op \in DOMAIN scenario.commands
  /\ Cardinality({i \in DOMAIN commands : commands[i].op = c.op}) < scenario.commands[c.op]
  /\ commands' = Append(commands, c)
  /\ UNCHANGED <<scenario, serverVars, requests>>

\* request r carries command id, again perhaps
Ask(r, id) ==
  /\ requests[r] = Idle
  /\ "retry" \in scenario.may \/ id = Len(commands)
  /\ requests' = [requests EXCEPT
       ![r] = IF Known(id) THEN Idle
              ELSE [pc |-> "start", id |-> id, tried |-> {}]]
  /\ UNCHANGED <<scenario, serverVars, commands>>

\* the Worker is killed, or the request refused for a quota or a stale presence
Drop(r) ==
  /\ requests[r] # Idle
  /\ Answered(r)
  /\ UNCHANGED <<scenario, serverVars, commands>>

Traffic == \E r \in Requests : (\E id \in DOMAIN commands : Ask(r, id)) \/ Drop(r)
=============================================================================
