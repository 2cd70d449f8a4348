------------------------------ MODULE GameStore ------------------------------
(***************************************************************************)
(* How one room is kept in D1: src/lib/server/game-store.ts.  Any number   *)
(* of Worker invocations serve the room at once and share nothing but the  *)
(* database.  Each looks the command up among the receipts, reads the room *)
(* row, runs the engine on what it read, and submits one batch, which D1   *)
(* runs as a transaction of guarded statements.  Clients send a command    *)
(* again, under the same command ID, when its answer is lost.              *)
(*                                                                         *)
(* The engine is Roster's; version stands for the pair of revision and     *)
(* state hash, which only change together.  Time is left out, so a lobby   *)
(* may be found unattended whenever it is a lobby; and whether presence    *)
(* lets a host be claimed or a player be removed is open each time that a  *)
(* request looks: before the engine, in the batch, and after it.           *)
(***************************************************************************)
EXTENDS Roster

CONSTANTS
  Requests,      \* bound: invocations that serve the room at one time
  MaxCommands,   \* bound: commands that clients compose
  Remembered,    \* accepted commands that a snapshot remembers (64)
  JoinAttempts,  \* reads that one join makes before it gives up (4)
  Scenarios      \* bound: the table a room is watched from, the commands that
                 \* clients compose and how many of them, how many invocations
                 \* serve them, and how many copies of one are on their way

ASSUME StoreAssumption ==
  /\ IsFiniteSet(Users) /\ IsFiniteSet(Requests)
  /\ MaxPlayers \in Nat /\ None \notin Users /\ MaxCommands \in Nat
  /\ Remembered \in Nat \ {0} /\ JoinAttempts \in Nat \ {0}
  /\ Scenarios \subseteq [table: Rosters, offered: SUBSET Commands, commands: 0..MaxCommands,
                          invocations: Nat, copies: Nat]
  /\ \A s \in Scenarios :
       Present(s.table) # {} /\ LobbyIsPlain(s.table) /\ SeatsApart(s.table)

VARIABLES
  scenario,              \* chosen once
  version, table, room,  \* the games row: its snapshot and room_status
  members,               \* game_members, by profile
  events,                \* game_events
  receipts,              \* command_receipts
  rounds,                \* game_rounds
  envelope,              \* each client's stored command
  issued,                \* command IDs handed out
  requests,              \* the invocations, each with what it has read
  sweep,                 \* the version that a maintenance pass has read, or 0
  told                   \* what each command was told: "accepted", "conflict"
                         \* (VERSION_CONFLICT)

rowVars == <<version, table, room, members, events, receipts, rounds>>
clientVars == <<envelope, issued>>
vars == <<scenario, rowVars, clientVars, requests, sweep, told>>

System == 0  \* the command ID of an automatic closure
Ids == 1..MaxCommands

NoEnvelope == [id |-> System]
Idle == [pc |-> "idle"]
Busy(r) == requests[r] # Idle
Unread == [version |-> 0]

NoRow == [status |-> "absent", seat |-> 0]
RowOf(t, u) == [status |-> t.status[u], seat |-> t.seat[u]]

\* the commands on which presence has a say
OnPresence == {"claim", "remove"}

Known(id) == \E x \in receipts : x.id = id
Processed == {e.id : e \in {x \in events : x.version > version - Remembered}} \ {System}

Init ==
  /\ scenario \in Scenarios
  /\ table = scenario.table
  /\ version = 1 /\ room = "open"
  /\ members = [u \in Users |-> IF table.status[u] = "absent" THEN NoRow ELSE RowOf(table, u)]
  /\ events = {} /\ receipts = {} /\ rounds = {}
  /\ envelope = [u \in Users |-> NoEnvelope] /\ issued = 0
  /\ requests = [r \in Requests |-> Idle]
  /\ sweep = 0 /\ told = {}

-----------------------------------------------------------------------------
(***************************************************************************)
(* The client keeps one command until it has an answer to it.  A move      *)
(* carries the revision it was made on; a join does not, and every click   *)
(* on Join is a new command.                                               *)
(***************************************************************************)
Compose(u, c) ==
  /\ envelope[u] = NoEnvelope
  /\ issued < scenario.commands
  /\ room = "open"
  /\ Outcomes(table, u, c) # {}
  /\ issued' = issued + 1
  /\ envelope' = [envelope EXCEPT
       ![u] = [id |-> issued + 1, command |-> c, expected |-> version, sent |-> FALSE]]
  /\ UNCHANGED <<rowVars, requests, sweep, told>>

CopiesOf(id) == {q \in Requests : Busy(q) /\ requests[q].id = id}

Send(u, r) ==
  /\ envelope[u] # NoEnvelope
  /\ ~Busy(r) /\ Cardinality({q \in Requests : Busy(q)}) < scenario.invocations
  /\ Cardinality(CopiesOf(envelope[u].id)) < scenario.copies
  /\ envelope[u].command.type = "join" => ~envelope[u].sent
  /\ envelope' = [envelope EXCEPT ![u].sent = TRUE]
  /\ requests' = [requests EXCEPT
       ![r] = [pc |-> "lookup", user |-> u, id |-> envelope[u].id,
               command |-> envelope[u].command, expected |-> envelope[u].expected,
               attempt |-> 1, read |-> Unread]]
  /\ UNCHANGED <<rowVars, issued, sweep, told>>

\* the tab is closed, or the join has timed out
GiveUp(u) ==
  /\ envelope[u] # NoEnvelope
  /\ envelope' = [envelope EXCEPT ![u] = NoEnvelope]
  /\ UNCHANGED <<rowVars, issued, requests, sweep, told>>

\* what a command is told, and on which version it was made
Told(q, kind) == [id |-> q.id, kind |-> kind, command |-> q.command, expected |-> q.expected]

\* request r ends with an answer, which may or may not arrive
Answer(r, kind) ==
  LET q == requests[r]
  IN  /\ requests' = [requests EXCEPT ![r] = Idle]
      /\ told' = IF kind \in {"accepted", "conflict"}
                 THEN told \cup {Told(q, kind)} ELSE told
      /\ envelope' \in {envelope,
           IF envelope[q.user].id = q.id
           THEN [envelope EXCEPT ![q.user] = NoEnvelope] ELSE envelope}
      /\ UNCHANGED <<issued, sweep>>

\* the invocation is killed at any of its awaits
Crash(r) ==
  /\ Busy(r)
  /\ requests' = [requests EXCEPT ![r] = Idle]
  /\ UNCHANGED <<rowVars, clientVars, sweep, told>>

-----------------------------------------------------------------------------
At(r, pc) == Busy(r) /\ requests[r].pc = pc
Goto(r, pc) ==
  /\ requests' = [requests EXCEPT ![r] = [@ EXCEPT !.pc = pc, !.read = Unread]]
  /\ UNCHANGED <<clientVars, sweep, told>>

\* the answer to a command whose receipt has been found
Replayed(r) ==
  LET q == requests[r]
  IN  Answer(r, IF q.command.type = "leave"
                THEN "accepted"
                ELSE IF room = "closed" \/ (q.command.type = "join" /\ q.user \notin Present(table))
                THEN "refused" ELSE "accepted")

FindReceipt(r) ==
  /\ At(r, "lookup")
  /\ IF Known(requests[r].id) THEN Replayed(r) ELSE Goto(r, "read")
  /\ UNCHANGED rowVars

VerdictMutant(q) ==  \* the version is compared before the command is recognized
  IF room = "closed" THEN "refused"
  ELSE IF q.command.type # "join" /\ version # q.expected THEN "conflict"
  ELSE IF q.id \in Processed THEN "accepted"
  ELSE IF q.command.type = "join" /\ q.user \in Present(table) THEN "seated"
  ELSE IF q.command.type # "join" /\ q.user \notin Present(table) THEN "refused"
  ELSE IF Outcomes(table, q.user, q.command) = {} THEN "refused"
  ELSE "transition"

\* what the request makes of the row it reads, before it writes anything
Verdict(q) ==
  IF room = "closed" THEN "refused"
  ELSE IF q.id \in Processed THEN "accepted"
  ELSE IF q.command.type = "join" /\ q.user \in Present(table) THEN "seated"
  ELSE IF q.command.type # "join" /\ q.user \notin Present(table) THEN "refused"
  ELSE IF q.command.type # "join" /\ version # q.expected THEN "conflict"
  ELSE IF Outcomes(table, q.user, q.command) = {} THEN "refused"
  ELSE "transition"

\* a claim or a removal may be refused here for the presence that is read
ReadRow(r) ==
  /\ At(r, "read")
  /\ LET q == requests[r]
     IN  IF Verdict(q) = "transition"
         THEN \/ \E t \in Outcomes(table, q.user, q.command) :
                   /\ requests' = [requests EXCEPT ![r] =
                        [@ EXCEPT !.pc = "batch", !.read = [version |-> version, next |-> t]]]
                   /\ UNCHANGED <<clientVars, sweep, told>>
              \/ q.command.type \in OnPresence /\ Answer(r, "refused")
         ELSE Answer(r, Verdict(q))
  /\ UNCHANGED rowVars

-----------------------------------------------------------------------------
(***************************************************************************)
(* The batch.  The receipt, the event and the snapshot are guarded by the  *)
(* version that was read, those of a claim or a removal by presence too;   *)
(* the membership rows only by the receipt being there, whoever wrote it.  *)
(* The unique indexes on receipts, events and rounds are no guards here:   *)
(* LedgersAgree says that nothing runs into them.                          *)
(***************************************************************************)
UpsertsMutant(q) ==  \* only those who stay are written
  LET t == q.read.next
  IN  IF q.command.type = "join"
      THEN [members EXCEPT ![q.user] = RowOf(t, q.user)]
      ELSE [u \in Users |-> IF u \in Present(t) THEN RowOf(t, u) ELSE members[u]]

UpsertsNoCleanup(q) ==  \* the row of whoever had the seat stays
  LET t == q.read.next
  IN  IF q.command.type = "join"
      THEN [members EXCEPT ![q.user] = RowOf(t, q.user)]
      ELSE [u \in Users |-> IF t.status[u] = "absent" THEN members[u] ELSE RowOf(t, u)]

Upserts(q) ==
  LET t == q.read.next
  IN  IF q.command.type = "join"
      THEN [u \in Users |->
              IF u = q.user THEN RowOf(t, u)
              ELSE IF members[u].status = "left" /\ members[u].seat = t.seat[q.user]
              THEN NoRow ELSE members[u]]
      ELSE [u \in Users |-> IF t.status[u] = "absent" THEN members[u] ELSE RowOf(t, u)]

\* the unique index on (game, seat)
SeatsUnique(rows) ==
  \A u, v \in Users : rows[u].status # "absent" /\ rows[v].status # "absent" /\ u # v
                        => rows[u].seat # rows[v].seat

WinsMutant(q) == q.read.next.phase = "complete" /\ q.read.next.winner # None

Wins(q) == table.phase = "playing" /\ q.read.next.phase = "complete" /\ q.read.next.winner # None

NextRoundMutant ==  \* MAX(round_number), 1 if there is none
  IF rounds = {} THEN 1 ELSE (CHOOSE x \in rounds : \A y \in rounds : y.number <= x.number).number

NextRound ==  \* MAX(round_number) + 1
  IF rounds = {} THEN 1
  ELSE (CHOOSE x \in rounds : \A y \in rounds : y.number <= x.number).number + 1

\* the last one out
Closes(q) == q.command.type = "leave" /\ Present(q.read.next) = {}

\* the version read is still the current one
FreshMutant(r) == room = "open"

Fresh(r) == room = "open" /\ version = requests[r].read.version

Commit(r) ==
  LET q == requests[r]
  IN  /\ Fresh(r)
      /\ SeatsUnique(Upserts(q))
      /\ version' = version + 1
      /\ table' = q.read.next
      /\ room' = IF Closes(q) THEN "closed" ELSE "open"
      /\ members' = Upserts(q)
      /\ receipts' = receipts \cup {[id |-> q.id, version |-> version + 1]}
      /\ events' = events \cup {[id |-> q.id, version |-> version + 1]}
      /\ rounds' = IF Wins(q)
                   THEN rounds \cup {[revision |-> version + 1, number |-> NextRound,
                                      winner |-> q.read.next.winner]}
                   ELSE rounds

\* the version has moved on, or presence has changed while the version has not:
\* what is left of the batch is the membership of a command whose other copy
\* was accepted
CommitStale(r) ==
  LET q == requests[r]
  IN  /\ ~Fresh(r) \/ q.command.type \in OnPresence
      /\ IF Known(q.id)
         THEN SeatsUnique(Upserts(q)) /\ members' = Upserts(q)
         ELSE UNCHANGED members
      /\ UNCHANGED <<version, table, room, events, receipts, rounds>>

\* the batch throws when a constraint fails or D1 does; in the second case
\* it may have been committed
Batch(r) ==
  /\ At(r, "batch")
  /\ \/ Commit(r) /\ Answer(r, "accepted")
     \/ Commit(r) /\ Goto(r, "threw")
     \/ CommitStale(r) /\ Goto(r, "lost")
     \/ UNCHANGED rowVars /\ Goto(r, "threw")

\* what a command is told that found nothing to be the cause; the presence of
\* whom it was to remove is looked at once more
Denials(q) ==
  IF room = "closed" THEN {"refused"}
  ELSE IF q.command.type = "remove" THEN {"conflict", "refused"} ELSE {"conflict"}

LostMutant(r) ==  \* one attempt too many
  /\ At(r, "lost")
  /\ LET q == requests[r]
     IN  IF Known(q.id) THEN Replayed(r)
         ELSE IF q.command.type # "join" THEN \E kind \in Denials(q) : Answer(r, kind)
         ELSE IF q.attempt > JoinAttempts THEN Answer(r, "refused")
         ELSE /\ requests' = [requests EXCEPT ![r] =
                               [@ EXCEPT !.pc = "lookup", !.attempt = q.attempt + 1]]
              /\ UNCHANGED <<clientVars, sweep, told>>
  /\ UNCHANGED rowVars

\* the batch did not commit: another command, or another copy, was first, or
\* presence was against it
Lost(r) ==
  /\ At(r, "lost")
  /\ LET q == requests[r]
     IN  IF Known(q.id) THEN Replayed(r)
         ELSE IF q.command.type # "join" THEN \E kind \in Denials(q) : Answer(r, kind)
         ELSE IF q.attempt = JoinAttempts THEN Answer(r, "refused")
         ELSE /\ requests' = [requests EXCEPT ![r] =
                               [@ EXCEPT !.pc = "lookup", !.attempt = q.attempt + 1]]
              /\ UNCHANGED <<clientVars, sweep, told>>
  /\ UNCHANGED rowVars

Threw(r) ==
  /\ At(r, "threw")
  /\ IF Known(requests[r].id) THEN Replayed(r) ELSE Answer(r, "error")
  /\ UNCHANGED rowVars

-----------------------------------------------------------------------------
(***************************************************************************)
(* Maintenance closes a lobby that nobody attends, and a room whose member *)
(* rows say that everybody has left.                                       *)
(***************************************************************************)
Deserted == table.phase = "lobby" \/ \A u \in Users : members[u].status \in {"absent", "left"}

ReadSweep ==
  /\ sweep = 0
  /\ room = "open"
  /\ Deserted
  /\ sweep' = version
  /\ UNCHANGED <<rowVars, clientVars, requests, told>>

CloseRoom ==
  /\ sweep # 0
  /\ IF room = "open" /\ version = sweep /\ Deserted
     THEN /\ version' = version + 1
          /\ room' = "closed"
          /\ events' = events \cup {[id |-> System, version |-> version + 1]}
          /\ UNCHANGED <<table, members, receipts, rounds>>
     ELSE UNCHANGED rowVars
  /\ sweep' = 0
  /\ UNCHANGED <<clientVars, requests, told>>

\* somebody has been seen since, or the pass was killed
AbandonSweep ==
  /\ sweep # 0
  /\ sweep' = 0
  /\ UNCHANGED <<rowVars, clientVars, requests, told>>

Client(u) ==
  \/ \E c \in scenario.offered : Compose(u, c)
  \/ \E r \in Requests : Send(u, r)
  \/ GiveUp(u)

Serve(r) == FindReceipt(r) \/ ReadRow(r) \/ Batch(r) \/ Lost(r) \/ Threw(r) \/ Crash(r)

Maintain == ReadSweep \/ CloseRoom \/ AbandonSweep

Next ==
  /\ (\E u \in Users : Client(u)) \/ (\E r \in Requests : Serve(r)) \/ Maintain
  /\ UNCHANGED scenario

Spec == Init /\ [][Next]_vars

-----------------------------------------------------------------------------
TypeOK ==
  /\ version \in Nat /\ table \in Rosters /\ room \in {"open", "closed"}
  /\ members \in [Users -> [status: {"absent", "active", "eliminated", "left"},
                           seat: 0..MaxPlayers]]
  /\ receipts \subseteq [id: Ids, version: Nat]
  /\ events \subseteq [id: Ids \cup {System}, version: Nat]
  /\ rounds \subseteq [revision: Nat, number: Nat, winner: Users]
  /\ issued \in 0..MaxCommands /\ sweep \in 0..version
  /\ \A u \in Users : envelope[u].id \in 0..issued
  /\ \A r \in Requests : Busy(r) =>
       /\ requests[r].pc \in {"lookup", "read", "batch", "lost", "threw"}
       /\ requests[r].id \in 1..issued /\ requests[r].user \in Users
       /\ requests[r].command \in Commands
       /\ requests[r].pc = "batch" => requests[r].read.next \in Rosters
       /\ requests[r].attempt \in 1..JoinAttempts
  /\ told \subseteq [id: Ids, kind: {"accepted", "conflict"}, command: Commands, expected: 0..version]

\* The ledgers agree, whatever was retried, lost or raced: every revision
\* has one event and every event but a closure one receipt; a command has
\* at most one of each; and the rounds are numbered in the order in which
\* they were won.
LedgersAgree ==
  /\ {e.version : e \in events} = 2..version
  /\ Cardinality(events) = version - 1
  /\ receipts = {e \in events : e.id # System}
  /\ \A x, y \in events : x.id = y.id => x = y
  /\ {x.number : x \in rounds} = 1..Cardinality(rounds)
  /\ \A x, y \in rounds : x.revision < y.revision => x.number < y.number

\* A round is entered in the ledger in the very step that ends it, with the
\* winner of the snapshot: none is missing and none is counted twice.
RoundsAreWins ==
  [][/\ table.phase = "playing" /\ table'.phase = "complete" =>
          [revision |-> version', number |-> Cardinality(rounds) + 1,
           winner |-> table'.winner] \in rounds'
     /\ rounds' # rounds => table.phase = "playing" /\ table'.phase = "complete"]_vars

\* The membership rows are those of the snapshot: who is at the table has a
\* row with the same seat and status, and nobody else has one that is not
\* marked as left.
MembersMatchSnapshot ==
  \A u \in Users : IF u \in Present(table) THEN members[u] = RowOf(table, u)
                   ELSE members[u].status \in {"absent", "left"}

\* The same as long as no command has two copies on their way.
RowsMatchWithoutCopies == scenario.copies <= 1 => MembersMatchSnapshot

\* A batch that is still current never runs into the unique index on seats:
\* whoever the engine seats finds the seat free in the membership rows too,
\* as long as no command has two copies on their way.
FreshBatchFits ==
  scenario.copies <= 1 => \A r \in Requests : At(r, "batch") /\ Fresh(r) => SeatsUnique(Upserts(requests[r]))

\* The many invocations together keep what one server would.  A conflict is
\* final, but for a claim or a removal made on the version that is still the
\* current one: presence may have been against it, and no longer be.
Conflicts == {x \in told : x.kind = "conflict"}
Undecided(x) == x.command.type \in OnPresence /\ x.expected = version

OneServer == INSTANCE Room
  WITH CommandIds <- Ids,
       FirstTables <- {s.table : s \in Scenarios},
       applied <- {x.id : x \in receipts},
       confirmed <- {x.id : x \in {y \in told : y.kind = "accepted"}},
       denied <- {x.id : x \in Conflicts},
       early <- {x.id : x \in {y \in Conflicts : Undecided(y)}}
ImplementsRoom == OneServer!Spec
=============================================================================
