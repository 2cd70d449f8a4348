--------------------------- MODULE GameStoreProofs ---------------------------
(***************************************************************************)
(* What the store keeps of one room, for any number of users, invocations  *)
(* and commands, whatever races, retries and crashes there are; and that   *)
(* this is what Room says one server would do.                             *)
(***************************************************************************)
EXTENDS GameStore, RosterProofs

Reads == {Unread} \cup [version: Nat, next: Rosters]

Places == {"lookup", "read", "batch", "lost", "threw"}

Request ==
  [pc: Places, user: Users, id: Ids, command: Commands,
   expected: Nat, attempt: 1..JoinAttempts, read: Reads]

Envelope == [id: Ids, command: Commands, expected: Nat, sent: BOOLEAN]

IsJoin(p) == p.command.type = "join"
IsLeave(p) == p.command.type = "leave"
ByPresence(p) == p.command.type \in OnPresence
Denied(id) == \E x \in Conflicts : x.id = id
Early(id) == \E x \in Conflicts : x.id = id /\ Undecided(x)

-----------------------------------------------------------------------------
(***************************************************************************)
(* The invariant.  A command that was accepted, or refused for its         *)
(* revision, is late for ever: this is why a copy that found no receipt    *)
(* either commits or finds out.  One that presence alone was against may   *)
(* still come in time.                                                     *)
(***************************************************************************)
PendingIsSound(p) ==
  /\ p.id <= issued /\ p.expected <= version
  /\ ~IsJoin(p) /\ Known(p.id) => p.expected < version
  /\ Denied(p.id) => ~IsJoin(p) /\ (p.expected < version \/ Early(p.id))

\* What a request has read is a version of the room and an outcome at it.
ReadIsSound(q) ==
  /\ q.read.next \in Rosters /\ q.read.version \in 1..version
  /\ ~IsJoin(q) => q.read.version = q.expected
  /\ IsJoin(q) => q.read.next.status[q.user] = "active"
  /\ Present(q.read.next) = {} => IsLeave(q)
  /\ q.read.version = version => q.read.next \in Outcomes(table, q.user, q.command)
  /\ IsLeave(q) /\ Known(q.id) /\ Present(q.read.next) = {} => room = "closed"

RequestIsSound(q) ==
  /\ PendingIsSound(q)
  /\ IsJoin(q) /\ q.pc # "threw" => ~Known(q.id)
  /\ scenario.copies <= 1 /\ q.pc \in {"read", "batch", "lost"} => ~Known(q.id)
  /\ q.pc = "batch" => ReadIsSound(q)
  /\ q.pc = "lost" /\ ~IsJoin(q) /\ ~ByPresence(q) /\ room = "open" => q.expected < version

EnvelopeIsSound(e) ==
  /\ PendingIsSound(e)
  /\ IsJoin(e) /\ ~e.sent => ~Known(e.id)

\* Two requests for one command are copies of it.
Copies(p, q) ==
  /\ ~IsJoin(p) /\ scenario.copies > 1
  /\ p.user = q.user /\ p.command = q.command /\ p.expected = q.expected
  /\ p.pc = "batch" /\ q.pc = "batch" /\ IsLeave(p) => p.read.next = q.read.next

StandsFor(q, u, e) ==
  /\ q.user = u /\ e.sent
  /\ q.command = e.command /\ q.expected = e.expected

EachIsSound ==
  /\ issued \in 0..MaxCommands
  /\ envelope \in [Users -> {NoEnvelope} \cup Envelope]
  /\ requests \in [Requests -> {Idle} \cup Request]
  /\ \A u \in Users, e \in Envelope : envelope[u] = e => EnvelopeIsSound(e)
  /\ \A r \in Requests, q \in Request : requests[r] = q => RequestIsSound(q)

CommandsAreOwn ==
  /\ \A u, v \in Users, e, f \in Envelope :
       envelope[u] = e /\ envelope[v] = f /\ e.id = f.id => u = v
  /\ \A r, s \in Requests, p, q \in Request :
       requests[r] = p /\ requests[s] = q /\ p.id = q.id /\ r # s => Copies(p, q)
  /\ \A r \in Requests, u \in Users, q \in Request, e \in Envelope :
       requests[r] = q /\ envelope[u] = e /\ q.id = e.id => StandsFor(q, u, e)

ClientsAreSound == EachIsSound /\ CommandsAreOwn

Rows == [Users -> [status: {"absent", "active", "eliminated", "left"}, seat: 0..MaxPlayers]]

RowIsSound ==
  /\ scenario \in Scenarios
  /\ version \in Nat \ {0} /\ table \in Rosters /\ LobbyIsPlain(table)
  /\ room \in {"open", "closed"}
  /\ members \in Rows
  /\ sweep \in 0..version
  /\ room = "open" => \E u \in Users : members[u].status \in {"active", "eliminated"}

Words == [id: 1..issued, kind: {"accepted", "conflict"}, command: Commands, expected: 0..version]

LedgersAreSound ==
  /\ told \subseteq Words
  /\ receipts = {e \in events : e.id # System}
  /\ events \subseteq [id: 0..issued, version: 2..version]
  /\ IsFiniteSet(events) /\ Cardinality(events) = version - 1
  /\ {e.version : e \in events} = 2..version
  /\ \A x, y \in events : x.id = y.id => x = y
  /\ room = "open" => \A e \in events : e.id # System
  /\ rounds \subseteq [revision: 2..version, number: Nat, winner: Users]
  /\ IsFiniteSet(rounds) /\ {x.number : x \in rounds} = 1..Cardinality(rounds)
  /\ \A x, y \in rounds : x.revision < y.revision => x.number < y.number

StoreInvariant ==
  ClientsAreSound /\ RowIsSound /\ LedgersAreSound /\ RowsMatchWithoutCopies

-----------------------------------------------------------------------------
(***************************************************************************)
(* What the environment of a request may do without disturbing it.         *)
(***************************************************************************)
\* The store's assumptions are those of the rosters.
LEMMA RosterAssumed ==
  RosterAssumption
  BY StoreAssumption DEF StoreAssumption, RosterAssumption

\* What is assumed of every scenario, of the one that is played.
LEMMA ScenarioFacts ==
  ASSUME RowIsSound
  PROVE  /\ scenario.table \in Rosters /\ scenario.offered \subseteq Commands
         /\ scenario.commands \in 0..MaxCommands /\ scenario.copies \in Nat
  BY StoreAssumption DEF StoreAssumption, RowIsSound

\* A request is neither idle nor an envelope that is not there.
LEMMA NotNothing ==
  Idle \notin Request /\ NoEnvelope \notin Envelope
  BY StoreAssumption DEF StoreAssumption, Idle, Request, NoEnvelope, Envelope, Ids, System

\* Nothing but the answers to commands has changed.
Quiet ==
  /\ UNCHANGED <<scenario, version, table, room, receipts>>
  /\ issued' \in Nat /\ issued' >= issued /\ told \subseteq told'

\* Whoever is told of a conflict has sent a command that is late, or early.
LEMMA QuietPending ==
  ASSUME NEW p \in Envelope \cup Request, RowIsSound, EachIsSound, Quiet,
         Denied(p.id)' =>
           Denied(p.id) \/ (~IsJoin(p) /\ (p.expected < version \/ Early(p.id)')),
         PendingIsSound(p)
  PROVE  PendingIsSound(p)'
<1>1. p.id \in Nat /\ p.expected \in Nat
  BY StoreAssumption DEF StoreAssumption, Envelope, Request, Ids
<1> QED
  BY <1>1 DEF PendingIsSound, Quiet, IsJoin, Known, RowIsSound, EachIsSound, Early, Conflicts,
              Undecided

\* An envelope is not disturbed as long as nothing but answers changes.
LEMMA QuietEnvelope ==
  ASSUME NEW e \in Envelope, RowIsSound, EachIsSound, Quiet,
         Denied(e.id)' =>
           Denied(e.id) \/ (~IsJoin(e) /\ (e.expected < version \/ Early(e.id)')),
         EnvelopeIsSound(e)
  PROVE  EnvelopeIsSound(e)'
<1>1. PendingIsSound(e)'
  BY QuietPending DEF EnvelopeIsSound
<1> QED
  BY <1>1 DEF EnvelopeIsSound, Quiet, IsJoin, Known

\* Nor is a request.
LEMMA QuietRequest ==
  ASSUME NEW q \in Request, RowIsSound, EachIsSound, Quiet,
         Denied(q.id)' =>
           Denied(q.id) \/ (~IsJoin(q) /\ (q.expected < version \/ Early(q.id)')),
         RequestIsSound(q)
  PROVE  RequestIsSound(q)'
<1>1. PendingIsSound(q)'
  BY QuietPending DEF RequestIsSound
<1>2. ReadIsSound(q) => ReadIsSound(q)'
  BY DEF ReadIsSound, Quiet, IsJoin, IsLeave, Known
<1> QED
  BY <1>1, <1>2 DEF RequestIsSound, Quiet, IsJoin, ByPresence, Known

\* What a commit changes for the others: the command of p is known now, and
\* whoever leaves the room empty closes it.
Commits(p) ==
  /\ room = "open" /\ version' = version + 1
  /\ UNCHANGED <<scenario, issued>>
  /\ room' \in {"open", "closed"}
  /\ Closes(p) => room' = "closed"
  /\ \A id : Known(id)' <=> Known(id) \/ id = p.id
  /\ \A id : Denied(id)' <=> Denied(id)

\* A commit makes every other command late, and none of them known.
LEMMA PendingAfterCommit ==
  ASSUME NEW p \in Request, NEW q \in Envelope \cup Request, RowIsSound, Commits(p),
         PendingIsSound(q)
  PROVE  PendingIsSound(q)'
<1>1. q.expected \in Nat /\ version \in Nat
  BY DEF Envelope, Request, RowIsSound
<1> QED
  BY <1>1 DEF PendingIsSound, Commits, IsJoin

\* An envelope survives the commit of another command, and of its own.
LEMMA EnvelopeAfterCommit ==
  ASSUME NEW p \in Request, NEW e \in Envelope, RowIsSound, Commits(p),
         EnvelopeIsSound(e), p.id = e.id => e.sent
  PROVE  EnvelopeIsSound(e)'
<1>1. PendingIsSound(e)'
  BY PendingAfterCommit DEF EnvelopeIsSound
<1> QED
  BY <1>1 DEF EnvelopeIsSound, Commits, IsJoin

\* A request survives the commit of another command, and of a copy of it.
LEMMA RequestAfterCommit ==
  ASSUME NEW p \in Request, NEW q \in Request, RowIsSound, Commits(p),
         p.pc = "batch", RequestIsSound(q), p.id = q.id => Copies(p, q)
  PROVE  RequestIsSound(q)'
<1>1. PendingIsSound(q)'
  BY PendingAfterCommit DEF RequestIsSound
<1>2. version \in Nat /\ q.expected \in Nat /\ scenario.copies \in Nat
  BY ScenarioFacts DEF RowIsSound, Request
<1>3. q.id = p.id => ~IsJoin(q) /\ scenario.copies > 1
  BY DEF Copies, IsJoin
<1>4. IsJoin(q) /\ q.pc # "threw" => ~Known(q.id)'
  BY <1>3 DEF RequestIsSound, Commits
<1>5. scenario'.copies <= 1 /\ q.pc \in {"read", "batch", "lost"} => ~Known(q.id)'
  BY <1>2, <1>3 DEF RequestIsSound, Commits
<1>6. q.pc = "lost" /\ ~IsJoin(q) /\ ~ByPresence(q) /\ room' = "open" => q.expected < version'
  BY <1>2 DEF RequestIsSound, Commits
<1>7. ASSUME q.pc = "batch"
      PROVE  ReadIsSound(q)'
  <2>1. ReadIsSound(q)
    BY <1>7 DEF RequestIsSound
  <2>2. q.read.version \in 1..version' /\ q.read.version # version'
    BY <1>2, <2>1 DEF ReadIsSound, Commits
  <2>3. ASSUME IsLeave(q), Known(q.id)', Present(q.read.next) = {}
        PROVE  room' = "closed"
    <3>1. ~Known(q.id)
      BY <2>1, <2>3 DEF ReadIsSound, Commits
    <3>2. q.id = p.id
      BY <2>3, <3>1 DEF Commits
    <3>3. IsLeave(p) /\ p.read.next = q.read.next
      BY <1>7, <2>3, <3>2 DEF Copies, IsLeave
    <3> QED
      BY <2>3, <3>3 DEF Commits, Closes, IsLeave
  <2> QED
    BY <2>1, <2>2, <2>3 DEF ReadIsSound, IsJoin, IsLeave
<1> QED
  BY <1>1, <1>4, <1>5, <1>6, <1>7 DEF RequestIsSound, IsJoin, ByPresence

\* What the closure of the room changes for everybody.
ClosesByItself ==
  /\ version' = version + 1 /\ room' = "closed"
  /\ UNCHANGED <<scenario, issued, receipts, told, table>>

\* A closure makes every command late.
LEMMA PendingAfterClosure ==
  ASSUME NEW q \in Envelope \cup Request, RowIsSound, ClosesByItself, PendingIsSound(q)
  PROVE  PendingIsSound(q)'
<1>1. q.expected \in Nat /\ version \in Nat
  BY DEF Envelope, Request, RowIsSound
<1> QED
  BY <1>1 DEF PendingIsSound, ClosesByItself, IsJoin, Known, Denied, Conflicts

\* An envelope survives the closure of the room.
LEMMA EnvelopeAfterClosure ==
  ASSUME NEW e \in Envelope, RowIsSound, ClosesByItself, EnvelopeIsSound(e)
  PROVE  EnvelopeIsSound(e)'
<1>1. PendingIsSound(e)'
  BY PendingAfterClosure DEF EnvelopeIsSound
<1> QED
  BY <1>1 DEF EnvelopeIsSound, ClosesByItself, IsJoin, Known

\* A request survives the closure of the room.
LEMMA RequestAfterClosure ==
  ASSUME NEW q \in Request, RowIsSound, ClosesByItself, RequestIsSound(q)
  PROVE  RequestIsSound(q)'
<1>1. PendingIsSound(q)'
  BY PendingAfterClosure DEF RequestIsSound
<1>2. version \in Nat /\ q.expected \in Nat
  BY DEF RowIsSound, Request
<1>3. ReadIsSound(q) => ReadIsSound(q)'
  BY <1>2 DEF ReadIsSound, ClosesByItself, IsJoin, IsLeave
<1> QED
  BY <1>1, <1>2, <1>3 DEF RequestIsSound, ClosesByItself, IsJoin, ByPresence, Known

-----------------------------------------------------------------------------
(***************************************************************************)
(* One request moves on, or ends, while whoever stays is not disturbed.    *)
(***************************************************************************)
\* x is what request r becomes that was p.
MovesTo(r, p, x) ==
  /\ requests[r] = p
  /\ requests' = [requests EXCEPT ![r] = x]
  /\ UNCHANGED issued
  /\ \E u \in Users : envelope' \in {envelope, [envelope EXCEPT ![u] = NoEnvelope]}

\* When one request moves on, or ends, clients stay sound if it does, if
\* whoever holds another command is not disturbed, and if copies stay copies.
LEMMA ClientsAdvance ==
  ASSUME ClientsAreSound, NEW r \in Requests, NEW p \in Request, NEW x, MovesTo(r, p, x),
         UNCHANGED scenario,
         \A e \in Envelope : EnvelopeIsSound(e) /\ (p.id = e.id => StandsFor(p, p.user, e))
                               => EnvelopeIsSound(e)',
         \A q \in Request : RequestIsSound(q) /\ (p.id = q.id => Copies(p, q))
                               => RequestIsSound(q)',
         \/ x = Idle
         \/ /\ x \in Request /\ RequestIsSound(x)'
            /\ x.id = p.id /\ x.user = p.user /\ x.command = p.command
            /\ x.expected = p.expected
            /\ x.pc = "batch" /\ IsLeave(p) =>
                 \A s \in Requests, q \in Request :
                   requests[s] = q /\ q.id = p.id /\ q.pc = "batch" => q.read.next = x.read.next
  PROVE  ClientsAreSound'
<1> USE DEF ClientsAreSound
<1>1. \A u \in Users, e \in Envelope : envelope'[u] = e => envelope[u] = e
  BY NotNothing DEF EachIsSound, MovesTo
<1>2. \A s \in Requests, q \in Request :
        requests'[s] = q => (s = r /\ q = x) \/ (s # r /\ requests[s] = q)
  BY DEF EachIsSound, MovesTo
<1>3. EachIsSound'
  <2>1. envelope' \in [Users -> {NoEnvelope} \cup Envelope]
    BY DEF EachIsSound, MovesTo
  <2>2. requests' \in [Requests -> {Idle} \cup Request]
    BY DEF EachIsSound, MovesTo
  <2>3. ASSUME NEW u \in Users, NEW e \in Envelope, envelope'[u] = e
        PROVE  EnvelopeIsSound(e)'
    <3>1. envelope[u] = e /\ requests[r] = p
      BY <1>1, <2>3 DEF MovesTo
    <3>2. EnvelopeIsSound(e)
      BY <3>1 DEF EachIsSound
    <3>3. p.id = e.id => StandsFor(p, p.user, e)
      BY <3>1 DEF CommandsAreOwn, StandsFor
    <3> QED
      BY <3>2, <3>3
  <2>4. ASSUME NEW s \in Requests, NEW q \in Request, requests'[s] = q
        PROVE  RequestIsSound(q)'
    <3>1. CASE s = r /\ q = x
      BY <3>1, NotNothing
    <3>2. CASE s # r /\ requests[s] = q
      <4>1. RequestIsSound(q)
        BY <3>2 DEF EachIsSound
      <4>2. p.id = q.id => Copies(p, q)
        BY <3>2 DEF CommandsAreOwn, MovesTo
      <4> QED
        BY <4>1, <4>2
    <3> QED
      BY <1>2, <2>4, <3>1, <3>2
  <2>5. issued' \in 0..MaxCommands
    BY DEF EachIsSound, MovesTo
  <2> QED
    BY <2>1, <2>2, <2>3, <2>4, <2>5 DEF EachIsSound
<1>4. \A u, v \in Users, e, f \in Envelope :
        envelope'[u] = e /\ envelope'[v] = f /\ e.id = f.id => u = v
  BY <1>1 DEF CommandsAreOwn
<1>5. ASSUME NEW s \in Requests, NEW t \in Requests, NEW q \in Request, NEW o \in Request,
             requests'[s] = q, requests'[t] = o, q.id = o.id, s # t
      PROVE  Copies(q, o)'
  <2>1. CASE s # r /\ t # r
    <3>1. requests[s] = q /\ requests[t] = o
      BY <1>2, <1>5, <2>1
    <3> QED
      BY <1>5, <3>1 DEF CommandsAreOwn, Copies, IsJoin, IsLeave
  <2>2. CASE s = r
    <3>1. q = x /\ requests[t] = o /\ t # r
      BY <1>2, <1>5, <2>2
    <3>2. q # Idle
      BY NotNothing
    <3>3. Copies(p, o)
      BY <1>5, <3>1, <3>2 DEF CommandsAreOwn, MovesTo
    <3> QED
      BY <1>5, <3>1, <3>2, <3>3 DEF Copies, IsJoin, IsLeave
  <2>3. CASE t = r
    <3>1. o = x /\ requests[s] = q /\ s # r
      BY <1>2, <1>5, <2>3
    <3>2. o # Idle
      BY NotNothing
    <3>3. Copies(p, q)
      BY <1>5, <3>1, <3>2 DEF CommandsAreOwn, MovesTo
    <3> QED
      BY <1>5, <3>1, <3>2, <3>3 DEF Copies, IsJoin, IsLeave
  <2> QED
    BY <2>1, <2>2, <2>3
<1>6. ASSUME NEW s \in Requests, NEW u \in Users, NEW q \in Request, NEW e \in Envelope,
             requests'[s] = q, envelope'[u] = e, q.id = e.id
      PROVE  StandsFor(q, u, e)
  <2>1. envelope[u] = e
    BY <1>1, <1>6
  <2>2. CASE s # r
    <3>1. requests[s] = q
      BY <1>2, <1>6, <2>2
    <3> QED
      BY <1>6, <2>1, <3>1 DEF CommandsAreOwn
  <2>3. CASE s = r
    <3>1. q = x /\ q # Idle
      BY <1>2, <1>6, <2>3, NotNothing
    <3>2. StandsFor(p, u, e)
      BY <1>6, <2>1, <3>1 DEF CommandsAreOwn, MovesTo
    <3> QED
      BY <3>1, <3>2 DEF StandsFor
  <2> QED
    BY <2>2, <2>3
<1>7. CommandsAreOwn'
  BY <1>4, <1>5, <1>6 DEF CommandsAreOwn, StandsFor
<1> QED
  BY <1>3, <1>7

\* A request under way is one.
LEMMA BusyIsRequest ==
  ASSUME EachIsSound, NEW r \in Requests, Busy(r)
  PROVE  requests[r] \in Request /\ RequestIsSound(requests[r])
  BY DEF EachIsSound, Busy

\* What request p says when it ends: nothing, or what is true of its command.
Says(p) ==
  \/ UNCHANGED told
  \/ \E k \in {"accepted", "conflict"} :
       /\ told' = told \cup {Told(p, k)}
       /\ k = "conflict" => ~IsJoin(p) /\ (p.expected < version \/ Early(p.id)')

\* A request that moves without a commit does not disturb the others.
LEMMA QuietMove ==
  ASSUME ClientsAreSound, RowIsSound, NEW r \in Requests, NEW p \in Request, NEW x,
         MovesTo(r, p, x), Says(p),
         UNCHANGED <<scenario, version, table, room, receipts>>,
         \/ x = Idle
         \/ /\ x \in Request /\ RequestIsSound(x)'
            /\ x.id = p.id /\ x.user = p.user /\ x.command = p.command
            /\ x.expected = p.expected
            /\ x.pc = "batch" /\ IsLeave(p) =>
                 \A s \in Requests, q \in Request :
                   requests[s] = q /\ q.id = p.id /\ q.pc = "batch" => q.read.next = x.read.next
  PROVE  ClientsAreSound'
<1>1. Quiet
  BY StoreAssumption DEF Quiet, MovesTo, ClientsAreSound, EachIsSound, StoreAssumption, Says
<1>2. \A id : Denied(id)' =>
        \/ Denied(id)
        \/ id = p.id /\ ~IsJoin(p) /\ (p.expected < version \/ Early(p.id)')
  BY DEF Says, Denied, Conflicts, Told
<1>3. EachIsSound
  BY DEF ClientsAreSound
<1>4. ASSUME NEW e \in Envelope, EnvelopeIsSound(e), p.id = e.id => StandsFor(p, p.user, e)
      PROVE  EnvelopeIsSound(e)'
  <2>1. Denied(e.id)' =>
          Denied(e.id) \/ (~IsJoin(e) /\ (e.expected < version \/ Early(e.id)'))
    BY <1>2, <1>4 DEF StandsFor, IsJoin
  <2> QED
    BY <1>1, <1>3, <1>4, <2>1, QuietEnvelope
<1>5. ASSUME NEW q \in Request, RequestIsSound(q), p.id = q.id => Copies(p, q)
      PROVE  RequestIsSound(q)'
  <2>1. Denied(q.id)' =>
          Denied(q.id) \/ (~IsJoin(q) /\ (q.expected < version \/ Early(q.id)'))
    BY <1>2, <1>5 DEF Copies, IsJoin
  <2> QED
    BY <1>1, <1>3, <1>5, <2>1, QuietRequest
<1> QED
  BY <1>4, <1>5, ClientsAdvance

\* A request that ends with a true answer, and changes nothing else.
LEMMA AnswerIsSound ==
  ASSUME ClientsAreSound, RowIsSound, NEW r \in Requests, Busy(r), NEW kind, Answer(r, kind),
         UNCHANGED <<scenario, version, table, room, receipts>>,
         kind = "conflict" => /\ ~IsJoin(requests[r])
                              /\ requests[r].expected < version \/ ByPresence(requests[r])
  PROVE  ClientsAreSound'
<1>1. PICK p \in Request : requests[r] = p /\ p.expected <= version
  BY BusyIsRequest DEF ClientsAreSound, RequestIsSound, PendingIsSound
<1>2. p.user \in Users /\ p.expected \in Nat /\ version \in Nat
  BY DEF Request, RowIsSound
<1>3. MovesTo(r, p, Idle)
  BY <1>1, <1>2 DEF MovesTo, Answer
<1>4. Says(p)
  <2>1. CASE kind \notin {"accepted", "conflict"}
    BY <2>1 DEF Says, Answer
  <2>2. ASSUME kind \in {"accepted", "conflict"} PROVE told' = told \cup {Told(p, kind)}
    BY <1>1, <2>2 DEF Answer
  <2>3. ASSUME kind = "conflict", ~(p.expected < version) PROVE Early(p.id)'
    <3>1. ByPresence(p) /\ p.expected = version'
      BY <1>1, <1>2, <2>3
    <3>2. PICK x : x = Told(p, "conflict")
      OBVIOUS
    <3>3. x \in told' /\ x.kind = "conflict" /\ x.id = p.id /\ x.command = p.command
          /\ x.expected = p.expected
      BY <2>2, <2>3, <3>2 DEF Told
    <3> QED
      BY <3>1, <3>3 DEF Early, Conflicts, Undecided, ByPresence
  <2>4. CASE kind = "accepted"
    BY <2>2, <2>4 DEF Says
  <2>5. CASE kind = "conflict"
    BY <1>1, <2>2, <2>3, <2>5 DEF Says
  <2> QED
    BY <2>1, <2>4, <2>5
<1> QED
  BY <1>3, <1>4, QuietMove

\* A replayed answer ends a request and disturbs nobody.
LEMMA ReplayIsSound ==
  ASSUME ClientsAreSound, RowIsSound, NEW r \in Requests, Busy(r), Replayed(r),
         UNCHANGED <<scenario, rowVars>>
  PROVE  ClientsAreSound'
<1>1. \E kind \in {"accepted", "refused"} : Answer(r, kind)
  BY Zenon DEF Replayed
<1> QED
  BY <1>1, AnswerIsSound DEF rowVars

\* What a request becomes that has gone to another place in the code.
Placed(q, pc, read) == [q EXCEPT !.pc = pc, !.read = read]

\* A request that is put at another place is the same request.
LEMMA PlacedIs ==
  ASSUME NEW q \in Request, NEW pc \in Places, NEW read \in Reads
  PROVE  /\ Placed(q, pc, read) \in Request
         /\ Placed(q, pc, read).pc = pc /\ Placed(q, pc, read).read = read
         /\ Placed(q, pc, read).id = q.id /\ Placed(q, pc, read).user = q.user
         /\ Placed(q, pc, read).command = q.command /\ Placed(q, pc, read).expected = q.expected
<1> DEFINE a == [q EXCEPT !.pc = pc]
<1>1. a \in Request /\ a.pc = pc /\ a.id = q.id /\ a.user = q.user
      /\ a.command = q.command /\ a.expected = q.expected
  BY DEF Request
<1>2. Placed(q, pc, read) = [a EXCEPT !.read = read]
  BY DEF Placed, Request
<1> HIDE DEF a
<1> QED
  BY <1>1, <1>2 DEF Request

\* A request that goes on without having read the room.
LEMMA GotoIsSound ==
  ASSUME ClientsAreSound, RowIsSound, NEW r \in Requests, Busy(r),
         NEW pc \in {"read", "lost", "threw"}, Goto(r, pc),
         UNCHANGED <<scenario, version, table, room, receipts>>,
         pc # "threw" => requests[r].pc # "threw",
         scenario.copies <= 1 /\ pc \in {"read", "lost"} => ~Known(requests[r].id),
         pc = "lost" /\ ~IsJoin(requests[r]) /\ ~ByPresence(requests[r]) /\ room = "open" =>
           requests[r].expected < version
  PROVE  ClientsAreSound'
<1>1. PICK p \in Request : requests[r] = p /\ RequestIsSound(p)
  BY BusyIsRequest DEF ClientsAreSound
<1> DEFINE x == Placed(p, pc, Unread)
<1>2. /\ x \in Request /\ x.pc = pc
      /\ x.id = p.id /\ x.user = p.user /\ x.command = p.command /\ x.expected = p.expected
  <2>1. pc \in Places /\ Unread \in Reads
    BY DEF Places, Reads
  <2> QED
    BY Zenon, <2>1, PlacedIs
<1>3. MovesTo(r, p, x) /\ UNCHANGED told
  <2>1. Users # {}
    BY DEF Request
  <2> QED
    BY <1>1, <2>1 DEF MovesTo, Goto, clientVars, Placed
<1> HIDE DEF x
<1>4. RequestIsSound(x)
  <2>1. PendingIsSound(x)
    BY <1>1, <1>2 DEF RequestIsSound, PendingIsSound, IsJoin
  <2> QED
    BY <1>1, <1>2, <2>1 DEF RequestIsSound, IsJoin, ByPresence
<1>5. RequestIsSound(x)'
  <2>1. Denied(x.id)' => Denied(x.id)
    BY <1>3 DEF Denied, Conflicts
  <2>2. Quiet
    BY <1>3, StoreAssumption
       DEF Quiet, MovesTo, ClientsAreSound, EachIsSound, StoreAssumption
  <2> QED
    BY <1>2, <1>4, <2>1, <2>2, QuietRequest DEF ClientsAreSound
<1>6. x.pc # "batch" /\ Says(p)
  BY <1>2, <1>3 DEF Says
<1> QED
  BY <1>2, <1>3, <1>5, <1>6, QuietMove

-----------------------------------------------------------------------------
(***************************************************************************)
(* The clients and their requests, a lemma for each step.                  *)
(***************************************************************************)
LEMMA FindReceiptClients ==
  ASSUME StoreInvariant, UNCHANGED scenario, NEW r \in Requests, FindReceipt(r)
  PROVE  ClientsAreSound'
<1> USE DEF StoreInvariant
<1>1. Busy(r) /\ requests[r].pc = "lookup" /\ UNCHANGED rowVars
  BY DEF FindReceipt, At
<1>2. CASE Known(requests[r].id)
  BY <1>1, <1>2, ReplayIsSound DEF FindReceipt
<1>3. CASE ~Known(requests[r].id)
  <2>1. Goto(r, "read")
    BY <1>3 DEF FindReceipt
  <2> QED
    BY <1>1, <1>3, <2>1, GotoIsSound DEF rowVars
<1> QED
  BY <1>2, <1>3

\* A request that reads the room as its command expects it holds an outcome.
LEMMA TransitionIsSound ==
  ASSUME StoreInvariant, UNCHANGED <<scenario, rowVars, clientVars, told>>,
         NEW r \in Requests, NEW p \in Request, requests[r] = p, p.pc = "read",
         Verdict(p) = "transition", NEW t \in Outcomes(table, p.user, p.command),
         requests' = [requests EXCEPT ![r] =
                        Placed(p, "batch", [version |-> version, next |-> t])]
  PROVE  ClientsAreSound'
<1> USE DEF StoreInvariant
<1>1. PICK read : read = [version |-> version, next |-> t]
  OBVIOUS
<1> DEFINE x == Placed(p, "batch", read)
<1>2. p.user \in Users /\ p.command \in Commands /\ version \in Nat \ {0}
  BY DEF Request, RowIsSound
<1>3. OutcomeIsSound(table, p.user, p.command, t)
  BY <1>2, RosterAssumed, OutcomesAreSound DEF RowIsSound
<1>4. read \in Reads
  BY <1>1, <1>2, <1>3 DEF Reads, OutcomeIsSound
<1>5. /\ x \in Request /\ x.pc = "batch"
      /\ x.read.version = version /\ x.read.next = t
      /\ x.id = p.id /\ x.user = p.user /\ x.command = p.command /\ x.expected = p.expected
  <2>1. "batch" \in Places
    BY DEF Places
  <2>2. /\ x \in Request /\ x.pc = "batch" /\ x.read = read
        /\ x.id = p.id /\ x.user = p.user /\ x.command = p.command /\ x.expected = p.expected
    BY <1>4, <2>1, PlacedIs
  <2> QED
    BY <1>1, <2>2
<1>6. MovesTo(r, p, x) /\ UNCHANGED <<told, issued>>
  BY <1>1, <1>2 DEF MovesTo, clientVars
<1> HIDE DEF x
<1>7. RequestIsSound(p)
  BY DEF ClientsAreSound, EachIsSound
<1>8. ~IsJoin(p) => p.expected = version
  BY DEF Verdict, IsJoin
<1>9. RequestIsSound(x)
  <2>1. PendingIsSound(x)
    BY <1>5, <1>7 DEF RequestIsSound, PendingIsSound, IsJoin
  <2>2. ~IsJoin(x) => ~Known(x.id)
    BY <1>2, <1>5, <1>8, <2>1 DEF PendingIsSound, IsJoin
  <2>3. ReadIsSound(x)
    BY <1>2, <1>3, <1>5, <1>8, <2>2 DEF ReadIsSound, OutcomeIsSound, IsJoin, IsLeave
  <2>4. ~Known(x.id)
    BY <1>5, <1>7, <2>2 DEF RequestIsSound, IsJoin
  <2> QED
    BY <1>5, <2>1, <2>3, <2>4 DEF RequestIsSound
<1>10. RequestIsSound(x)'
  <2>1. Denied(x.id)' => Denied(x.id)
    BY <1>6 DEF Denied, Conflicts
  <2>2. Quiet
    BY <1>6, StoreAssumption
       DEF Quiet, rowVars, ClientsAreSound, EachIsSound, StoreAssumption
  <2> QED
    BY <1>5, <1>9, <2>1, <2>2, QuietRequest DEF ClientsAreSound
<1>11. ASSUME IsLeave(p), NEW s \in Requests, NEW q \in Request, requests[s] = q,
              q.id = p.id, q.pc = "batch"
       PROVE  q.read.next = x.read.next
  <2>1. s # r
    BY <1>11
  <2>2. Copies(p, q)
    BY <1>11, <2>1 DEF ClientsAreSound, CommandsAreOwn
  <2>3. ReadIsSound(q)
    BY <1>11 DEF ClientsAreSound, EachIsSound, RequestIsSound
  <2>4. q.read.next \in Outcomes(table, p.user, p.command)
    BY <1>8, <1>11, <2>2, <2>3 DEF Copies, ReadIsSound, IsJoin, IsLeave
  <2> QED
    BY <1>5, <1>11, <2>4, LeavingIsOneThing DEF IsLeave
<1>12. Says(p)
  BY <1>6 DEF Says
<1> QED
  BY <1>5, <1>6, <1>10, <1>11, <1>12, QuietMove DEF rowVars

\* Reading the row does: what was read is an outcome at its version.
LEMMA ReadRowClients ==
  ASSUME StoreInvariant, UNCHANGED scenario, NEW r \in Requests, ReadRow(r)
  PROVE  ClientsAreSound'
<1> USE DEF StoreInvariant
<1>1. Busy(r) /\ requests[r].pc = "read" /\ UNCHANGED rowVars
  BY DEF ReadRow, At
<1>2. PICK p \in Request : requests[r] = p /\ RequestIsSound(p)
  BY <1>1, BusyIsRequest DEF ClientsAreSound
<1>3. CASE Verdict(p) = "transition"
  <2>1. \/ Answer(r, "refused")
        \/ \E t \in Outcomes(table, p.user, p.command) :
             /\ requests' = [requests EXCEPT ![r] =
                               Placed(p, "batch", [version |-> version, next |-> t])]
             /\ UNCHANGED <<clientVars, sweep, told>>
    BY <1>2, <1>3 DEF ReadRow, Placed
  <2>2. CASE Answer(r, "refused")
    BY <1>1, <2>2, AnswerIsSound DEF rowVars
  <2> QED
    BY <1>1, <1>2, <1>3, <2>1, <2>2, TransitionIsSound
<1>4. CASE Verdict(p) # "transition"
  <2>1. Answer(r, Verdict(p))
    BY <1>2, <1>4 DEF ReadRow
  <2>2. Verdict(p) = "conflict" => ~IsJoin(p) /\ version # p.expected
    BY DEF Verdict, IsJoin
  <2>3. p.expected <= version /\ p.expected \in Nat /\ version \in Nat
    BY <1>2 DEF RequestIsSound, PendingIsSound, Request, RowIsSound
  <2>4. Verdict(p) = "conflict" => ~IsJoin(requests[r]) /\ requests[r].expected < version
    BY <1>2, <2>2, <2>3
  <2> QED
    BY <1>1, <2>1, <2>4, AnswerIsSound DEF rowVars
<1> QED
  BY <1>3, <1>4

\* The batch commits: the command has not been accepted before, or been refused
\* for its revision.
LEMMA CommitIsFirst ==
  ASSUME StoreInvariant, NEW r \in Requests, NEW p \in Request, requests[r] = p,
         p.pc = "batch", Fresh(r)
  PROVE  /\ RequestIsSound(p) /\ ReadIsSound(p)
         /\ ~Known(p.id) /\ (Denied(p.id) => Early(p.id))
         /\ p.read.next \in Outcomes(table, p.user, p.command)
         /\ OutcomeIsSound(table, p.user, p.command, p.read.next)
<1> USE DEF StoreInvariant
<1>1. RequestIsSound(p) /\ ReadIsSound(p)
  BY DEF ClientsAreSound, EachIsSound, RequestIsSound
<1>2. p.read.version = version /\ version \in Nat
  BY DEF Fresh, RowIsSound
<1>3. ~IsJoin(p) => p.expected = version
  BY <1>1, <1>2 DEF ReadIsSound
<1>4. ~Known(p.id) /\ (Denied(p.id) => Early(p.id))
  BY <1>1, <1>2, <1>3 DEF RequestIsSound, PendingIsSound
<1>5. p.read.next \in Outcomes(table, p.user, p.command)
  BY <1>1, <1>2 DEF ReadIsSound
<1>6. OutcomeIsSound(table, p.user, p.command, p.read.next)
  <2>1. p.user \in Users /\ p.command \in Commands
    BY DEF Request
  <2> QED
    BY <1>5, <2>1, RosterAssumed, OutcomesAreSound DEF RowIsSound
<1> QED
  BY <1>1, <1>4, <1>5, <1>6

\* A request whose batch has been committed is done, or does not know it.
LEMMA CommitClients ==
  ASSUME StoreInvariant, UNCHANGED scenario, NEW r \in Requests, At(r, "batch"), Commit(r),
         Answer(r, "accepted") \/ Goto(r, "threw")
  PROVE  ClientsAreSound'
<1> USE DEF StoreInvariant
<1>1. PICK p \in Request : requests[r] = p /\ p.pc = "batch"
  BY BusyIsRequest DEF At, ClientsAreSound
<1>2. RequestIsSound(p) /\ ~Known(p.id)
  BY <1>1, CommitIsFirst DEF Commit
<1>3. p.user \in Users /\ p.expected \in Nat /\ version \in Nat
  BY DEF Request, RowIsSound
<1>4. /\ room = "open" /\ version' = version + 1 /\ UNCHANGED issued
      /\ room' = IF Closes(p) THEN "closed" ELSE "open"
      /\ receipts' = receipts \cup {[id |-> p.id, version |-> version + 1]}
  BY <1>1 DEF Commit, Fresh, Answer, Goto, clientVars
<1>5. \A id : Known(id)' <=> Known(id) \/ id = p.id
  <2>1. receipts' = receipts \cup {[id |-> p.id, version |-> version + 1]}
    BY <1>4
  <2>2. \A id : Known(id) => Known(id)'
    BY <2>1 DEF Known
  <2>3. Known(p.id)'
    <3>1. [id |-> p.id, version |-> version + 1] \in receipts'
      BY <2>1
    <3> QED
      BY Zenon, <3>1 DEF Known
  <2>4. \A id : Known(id)' => Known(id) \/ id = p.id
    BY <2>1 DEF Known
  <2> QED
    BY <2>2, <2>3, <2>4
<1>6. \A id : Denied(id)' <=> Denied(id)
  <2>1. told' \in {told, told \cup {Told(p, "accepted")}}
    BY <1>1 DEF Answer, Goto
  <2> QED
    BY <2>1 DEF Denied, Conflicts, Told
<1>7. Commits(p)
  BY <1>4, <1>5, <1>6 DEF Commits
<1>8. \A e \in Envelope : EnvelopeIsSound(e) /\ (p.id = e.id => StandsFor(p, p.user, e))
                            => EnvelopeIsSound(e)'
  BY <1>7, EnvelopeAfterCommit DEF StandsFor
<1>9. \A q \in Request : RequestIsSound(q) /\ (p.id = q.id => Copies(p, q))
                           => RequestIsSound(q)'
  BY <1>1, <1>7, RequestAfterCommit
<1>10. CASE Answer(r, "accepted")
  <2>1. MovesTo(r, p, Idle)
    BY <1>1, <1>3, <1>10 DEF MovesTo, Answer
  <2> QED
    BY <1>8, <1>9, <2>1, ClientsAdvance
<1>11. CASE Goto(r, "threw")
  <2> DEFINE x == Placed(p, "threw", Unread)
  <2>1. "threw" \in Places /\ Unread \in Reads
    BY DEF Places, Reads
  <2>2. /\ x \in Request /\ x.pc = "threw" /\ x.id = p.id /\ x.user = p.user
        /\ x.command = p.command /\ x.expected = p.expected
    BY Zenon, <2>1, PlacedIs
  <2>3. MovesTo(r, p, x)
    BY <1>1, <1>3, <1>11 DEF MovesTo, Goto, clientVars, Placed
  <2> HIDE DEF x
  <2>4. RequestIsSound(x)'
    <3>1. PendingIsSound(x)'
      BY <1>2, <1>3, <1>4, <1>6, <2>2
         DEF RequestIsSound, PendingIsSound, IsJoin
    <3> QED
      BY <2>2, <3>1 DEF RequestIsSound
  <2> QED
    BY <1>8, <1>9, <2>2, <2>3, <2>4, ClientsAdvance
<1> QED
  BY <1>10, <1>11

\* The batch does, whether it is current, stale or thrown.
LEMMA BatchClients ==
  ASSUME StoreInvariant, UNCHANGED scenario, NEW r \in Requests, Batch(r)
  PROVE  ClientsAreSound'
<1> USE DEF StoreInvariant
<1>1. Busy(r) /\ requests[r].pc = "batch"
  BY DEF Batch, At
<1>2. CASE Commit(r) /\ (Answer(r, "accepted") \/ Goto(r, "threw"))
  BY <1>2, CommitClients DEF Batch
<1>3. CASE CommitStale(r) /\ Goto(r, "lost")
  <2>1. PICK p \in Request : requests[r] = p /\ RequestIsSound(p)
    BY <1>1, BusyIsRequest DEF ClientsAreSound
  <2>2. ReadIsSound(p) /\ p.expected \in Nat /\ version \in Nat
    BY <1>1, <2>1 DEF RequestIsSound, Request, RowIsSound
  <2>3. ~IsJoin(p) /\ ~ByPresence(p) /\ room = "open" => p.expected < version
    BY <1>3, <2>1, <2>2 DEF CommitStale, Fresh, ReadIsSound, ByPresence
  <2>4. UNCHANGED <<version, table, room, receipts>>
    BY <1>3 DEF CommitStale
  <2>5. scenario.copies <= 1 => ~Known(p.id)
    BY <1>1, <2>1 DEF RequestIsSound
  <2> QED
    BY <1>1, <1>3, <2>1, <2>3, <2>4, <2>5, GotoIsSound
<1>4. CASE UNCHANGED rowVars /\ Goto(r, "threw")
  BY <1>1, <1>4, GotoIsSound DEF rowVars
<1> QED
  BY <1>2, <1>3, <1>4 DEF Batch

\* A join that has lost tries again.
Retried(q) == [q EXCEPT !.pc = "lookup", !.attempt = q.attempt + 1]

\* Whoever lost the race is answered, or reads again.
LEMMA LostClients ==
  ASSUME StoreInvariant, UNCHANGED scenario, NEW r \in Requests, Lost(r)
  PROVE  ClientsAreSound'
<1> USE DEF StoreInvariant
<1>1. Busy(r) /\ requests[r].pc = "lost" /\ UNCHANGED rowVars
  BY DEF Lost, At
<1>2. PICK p \in Request : requests[r] = p /\ RequestIsSound(p)
  BY <1>1, BusyIsRequest DEF ClientsAreSound
<1>3. CASE Known(p.id)
  BY <1>1, <1>2, <1>3, ReplayIsSound DEF Lost
<1>4. CASE ~Known(p.id) /\ ~IsJoin(p)
  <2>1. PICK kind \in Denials(p) : Answer(r, kind)
    BY <1>2, <1>4 DEF Lost, IsJoin
  <2>2. kind = "conflict" => room # "closed"
    BY <2>1 DEF Denials
  <2>3. kind = "conflict" => p.expected < version \/ ByPresence(p)
    BY <1>1, <1>2, <1>4, <2>2 DEF RequestIsSound, RowIsSound
  <2> QED
    BY <1>1, <1>2, <1>4, <2>1, <2>3, AnswerIsSound DEF rowVars
<1>5. CASE ~Known(p.id) /\ IsJoin(p) /\ p.attempt = JoinAttempts
  <2>1. Answer(r, "refused")
    BY <1>2, <1>5 DEF Lost, IsJoin
  <2> QED
    BY <1>1, <2>1, AnswerIsSound DEF rowVars
<1>6. CASE ~Known(p.id) /\ IsJoin(p) /\ p.attempt # JoinAttempts
  <2> DEFINE a == [p EXCEPT !.pc = "lookup"]
             x == [a EXCEPT !.attempt = p.attempt + 1]
  <2>1. /\ requests' = [requests EXCEPT ![r] = x]
        /\ UNCHANGED <<clientVars, sweep, told>>
    <3>1. /\ requests' = [requests EXCEPT ![r] = Retried(p)]
          /\ UNCHANGED <<clientVars, sweep, told>>
      BY <1>2, <1>6 DEF Lost, IsJoin, Retried
    <3>2. Retried(p) = x
      BY DEF Retried, Request
    <3> QED
      BY <1>2, <3>1, <3>2
  <2>2. p.attempt + 1 \in 1..JoinAttempts /\ p.user \in Users
    BY <1>6, StoreAssumption DEF StoreAssumption, Request
  <2>3. a \in Request /\ a.pc = "lookup" /\ a.id = p.id /\ a.user = p.user
        /\ a.command = p.command /\ a.expected = p.expected
    BY DEF Request, Places
  <2> HIDE DEF a
  <2>4. x \in Request /\ x.pc = "lookup" /\ x.id = p.id /\ x.user = p.user
        /\ x.command = p.command /\ x.expected = p.expected
    BY <2>2, <2>3 DEF Request
  <2> HIDE DEF x
  <2>5. MovesTo(r, p, x)
    BY <1>2, <2>1, <2>2 DEF MovesTo, clientVars
  <2>6. RequestIsSound(x)
    BY <1>1, <1>2, <1>6, <2>4 DEF RequestIsSound, PendingIsSound, IsJoin
  <2>7. RequestIsSound(x)'
    <3>1. Denied(x.id)' => Denied(x.id)
      BY <2>1 DEF Denied, Conflicts, Told
    <3>2. Quiet
      BY <1>1, <2>1, StoreAssumption
         DEF Quiet, rowVars, clientVars, ClientsAreSound, EachIsSound, StoreAssumption
    <3> QED
      BY <2>4, <2>6, <3>1, <3>2, QuietRequest DEF ClientsAreSound
  <2>8. Says(p)
    BY <2>1 DEF Says
  <2> QED
    BY <1>1, <2>4, <2>5, <2>7, <2>8, QuietMove DEF rowVars
<1> QED
  BY <1>3, <1>4, <1>5, <1>6

\* Whoever threw looks for the receipt once and is answered.
LEMMA ThrewClients ==
  ASSUME StoreInvariant, UNCHANGED scenario, NEW r \in Requests, Threw(r)
  PROVE  ClientsAreSound'
<1> USE DEF StoreInvariant
<1>1. Busy(r) /\ UNCHANGED rowVars /\ (Replayed(r) \/ Answer(r, "error"))
  BY Zenon DEF Threw, At
<1>2. CASE Replayed(r)
  BY <1>1, <1>2, ReplayIsSound
<1>3. CASE Answer(r, "error")
  BY <1>1, <1>3, AnswerIsSound DEF rowVars
<1> QED
  BY <1>1, <1>2, <1>3

\* An invocation that crashes leaves the envelope to the client.
LEMMA CrashClients ==
  ASSUME StoreInvariant, UNCHANGED scenario, NEW r \in Requests, Crash(r)
  PROVE  ClientsAreSound'
<1> USE DEF StoreInvariant
<1>1. PICK p \in Request : requests[r] = p
  BY BusyIsRequest DEF Crash, ClientsAreSound
<1>2. MovesTo(r, p, Idle) /\ Says(p)
  BY <1>1 DEF MovesTo, Says, Crash, clientVars, Request
<1> QED
  BY <1>2, QuietMove DEF Crash, rowVars

\* Nothing is sent or received, or a client forgets its command.
LEMMA ClientsStand ==
  ASSUME ClientsAreSound, UNCHANGED <<scenario, issued, requests>>,
         NEW u \in Users, envelope' \in {envelope, [envelope EXCEPT ![u] = NoEnvelope]},
         \A e \in Envelope : EnvelopeIsSound(e) => EnvelopeIsSound(e)',
         \A q \in Request : RequestIsSound(q) => RequestIsSound(q)'
  PROVE  ClientsAreSound'
<1> USE DEF ClientsAreSound
<1>1. \A v \in Users, e \in Envelope : envelope'[v] = e => envelope[v] = e
  BY NotNothing DEF EachIsSound
<1>2. envelope' \in [Users -> {NoEnvelope} \cup Envelope]
  BY DEF EachIsSound
<1>3. EachIsSound'
  BY <1>1, <1>2 DEF EachIsSound
<1>4. CommandsAreOwn'
  BY <1>1 DEF CommandsAreOwn, Copies, StandsFor, IsJoin, IsLeave
<1> QED
  BY <1>3, <1>4

\* The room stays as it is.
LEMMA QuietStand ==
  ASSUME ClientsAreSound, RowIsSound,
         UNCHANGED <<scenario, version, table, room, receipts, issued, requests, told>>,
         \E u \in Users : envelope' \in {envelope, [envelope EXCEPT ![u] = NoEnvelope]}
  PROVE  ClientsAreSound'
<1>1. Quiet /\ EachIsSound
  BY StoreAssumption DEF Quiet, ClientsAreSound, EachIsSound, StoreAssumption
<1>2. \A id : Denied(id)' => Denied(id)
  BY DEF Denied, Conflicts
<1>3. \A e \in Envelope : EnvelopeIsSound(e) => EnvelopeIsSound(e)'
  BY <1>1, <1>2, QuietEnvelope
<1>4. \A q \in Request : RequestIsSound(q) => RequestIsSound(q)'
  BY <1>1, <1>2, QuietRequest
<1> QED
  BY <1>3, <1>4, ClientsStand

\* A client who gives up leaves the invocations to end.
LEMMA GiveUpClients ==
  ASSUME StoreInvariant, UNCHANGED scenario, NEW u \in Users, GiveUp(u)
  PROVE  ClientsAreSound'
  BY QuietStand DEF StoreInvariant, GiveUp, rowVars

\* Maintenance closes the room at most.
LEMMA MaintainClients ==
  ASSUME StoreInvariant, UNCHANGED scenario, Maintain
  PROVE  ClientsAreSound'
<1> USE DEF StoreInvariant
<1>1. UNCHANGED <<clientVars, requests, told>>
  BY DEF Maintain, ReadSweep, CloseRoom, AbandonSweep
<1>2. PICK u \in Users : TRUE
  BY ScenarioFacts DEF RowIsSound, Rosters
<1>3. CASE UNCHANGED rowVars
  BY <1>1, <1>2, <1>3, QuietStand DEF rowVars, clientVars
<1>4. CASE ClosesByItself
  <2>1. \A e \in Envelope : EnvelopeIsSound(e) => EnvelopeIsSound(e)'
    BY <1>4, EnvelopeAfterClosure
  <2>2. \A q \in Request : RequestIsSound(q) => RequestIsSound(q)'
    BY <1>4, RequestAfterClosure
  <2> QED
    BY <1>1, <1>2, <1>4, <2>1, <2>2, ClientsStand DEF clientVars, ClosesByItself
<1>5. UNCHANGED rowVars \/ ClosesByItself
  BY <1>1 DEF Maintain, ReadSweep, CloseRoom, AbandonSweep, ClosesByItself, clientVars, rowVars
<1> QED
  BY <1>3, <1>4, <1>5

\* A new command has an ID of its own.
LEMMA ComposeClients ==
  ASSUME StoreInvariant, UNCHANGED scenario, NEW u \in Users, NEW c \in scenario.offered,
         Compose(u, c)
  PROVE  ClientsAreSound'
<1> USE DEF StoreInvariant, ClientsAreSound
<1>1. PICK n : n = [id |-> issued + 1, command |-> c, expected |-> version, sent |-> FALSE]
  OBVIOUS
<1>2. /\ issued \in 0..MaxCommands /\ issued' = issued + 1 /\ issued' \in 1..MaxCommands
      /\ MaxCommands \in Nat /\ version \in Nat \ {0}
  BY ScenarioFacts, StoreAssumption DEF Compose, EachIsSound, RowIsSound, StoreAssumption
<1>3. /\ envelope' = [envelope EXCEPT ![u] = n]
      /\ UNCHANGED <<version, table, room, receipts, requests, told>>
  BY <1>1 DEF Compose, rowVars
<1>4. n \in Envelope /\ n.id = issued + 1 /\ n.expected = version /\ ~n.sent
  BY <1>1, <1>2, ScenarioFacts DEF Envelope, Ids
<1>5. ~Known(n.id)
  BY <1>2, <1>4 DEF Known, LedgersAreSound
<1>6. ~Denied(n.id)
  BY <1>2, <1>4 DEF Denied, Conflicts, LedgersAreSound, Words
<1>7. EnvelopeIsSound(n)'
  BY <1>2, <1>3, <1>4, <1>5, <1>6
     DEF EnvelopeIsSound, PendingIsSound, IsJoin, Known, Denied, Conflicts
<1>8. Quiet
  BY <1>2, <1>3 DEF Quiet
<1>9. \A id : Denied(id)' => Denied(id)
  BY <1>3 DEF Denied, Conflicts
<1>10. \A e \in Envelope : EnvelopeIsSound(e) => EnvelopeIsSound(e)'
  BY <1>8, <1>9, QuietEnvelope
<1>11. \A q \in Request : RequestIsSound(q) => RequestIsSound(q)'
  BY <1>8, <1>9, QuietRequest
<1>12. \A v \in Users, e \in Envelope :
         envelope'[v] = e => (v = u /\ e = n) \/ (v # u /\ envelope[v] = e)
  BY <1>3 DEF EachIsSound
<1>13. EachIsSound'
  <2>1. envelope' \in [Users -> {NoEnvelope} \cup Envelope] /\ issued' \in 0..MaxCommands
    BY <1>2, <1>3, <1>4 DEF EachIsSound
  <2>2. \A v \in Users, e \in Envelope : envelope'[v] = e => EnvelopeIsSound(e)'
    BY <1>7, <1>10, <1>12 DEF EachIsSound
  <2>3. \A r \in Requests, q \in Request : requests'[r] = q => RequestIsSound(q)'
    BY <1>3, <1>11 DEF EachIsSound
  <2> QED
    BY <1>3, <2>1, <2>2, <2>3 DEF EachIsSound
<1>14. \A v \in Users, e \in Envelope : envelope[v] = e => e.id # n.id
  BY <1>2, <1>4 DEF EachIsSound, EnvelopeIsSound, PendingIsSound, Envelope, Ids
<1>15. \A r \in Requests, q \in Request : requests[r] = q => q.id # n.id
  BY <1>2, <1>4 DEF EachIsSound, RequestIsSound, PendingIsSound, Request, Ids
<1>16. CommandsAreOwn'
  <2>1. \A v, w \in Users, e, f \in Envelope :
          envelope'[v] = e /\ envelope'[w] = f /\ e.id = f.id => v = w
    BY <1>12, <1>14 DEF CommandsAreOwn
  <2>2. \A r, s \in Requests, p, q \in Request :
          requests'[r] = p /\ requests'[s] = q /\ p.id = q.id /\ r # s => Copies(p, q)'
    BY <1>3 DEF CommandsAreOwn, Copies, IsJoin, IsLeave
  <2>3. \A r \in Requests, v \in Users, q \in Request, e \in Envelope :
          requests'[r] = q /\ envelope'[v] = e /\ q.id = e.id => StandsFor(q, v, e)
    BY <1>3, <1>12, <1>15 DEF CommandsAreOwn
  <2> QED
    BY <2>1, <2>2, <2>3 DEF CommandsAreOwn, StandsFor
<1> QED
  BY <1>13, <1>16

\* Another copy of a command is on its way.
SentNow(e) == [e EXCEPT !.sent = TRUE]

\* A copy that is sent is a copy of what the client holds.
LEMMA SendClients ==
  ASSUME StoreInvariant, UNCHANGED scenario, NEW u \in Users, NEW r \in Requests, Send(u, r)
  PROVE  ClientsAreSound'
<1> USE DEF StoreInvariant, ClientsAreSound
<1>1. PICK e \in Envelope : envelope[u] = e
  BY DEF Send, EachIsSound
<1> DEFINE n == SentNow(e)
           x == [pc |-> "lookup", user |-> u, id |-> e.id, command |-> e.command,
                 expected |-> e.expected, attempt |-> 1, read |-> Unread]
<1>2. /\ envelope' = [envelope EXCEPT ![u] = n]
      /\ requests' = [requests EXCEPT ![r] = x]
      /\ UNCHANGED <<version, table, room, receipts, issued, told>>
      /\ requests[r] = Idle
  BY <1>1 DEF Send, rowVars, Busy, SentNow
<1>3. /\ n \in Envelope /\ n.id = e.id /\ n.command = e.command
      /\ n.expected = e.expected /\ n.sent
  BY DEF Envelope, SentNow
<1>4. /\ x \in Request /\ x.pc = "lookup" /\ x.id = e.id /\ x.command = e.command
      /\ x.expected = e.expected /\ x.user = u
  BY StoreAssumption DEF StoreAssumption, Request, Places, Envelope, Reads
<1> HIDE DEF n, x
<1>5. EnvelopeIsSound(e) /\ (IsJoin(e) => ~e.sent)
  BY <1>1 DEF EachIsSound, Send, IsJoin
<1>6. Quiet
  BY <1>2, StoreAssumption DEF Quiet, EachIsSound, StoreAssumption
<1>7. \A id : Denied(id)' => Denied(id)
  BY <1>2 DEF Denied, Conflicts
<1>8. \A f \in Envelope : EnvelopeIsSound(f) => EnvelopeIsSound(f)'
  BY <1>6, <1>7, QuietEnvelope
<1>9. \A q \in Request : RequestIsSound(q) => RequestIsSound(q)'
  BY <1>6, <1>7, QuietRequest
<1>10. EnvelopeIsSound(n)
  BY <1>3, <1>5 DEF EnvelopeIsSound, PendingIsSound, IsJoin
<1>11. RequestIsSound(x)
  BY <1>4, <1>5 DEF RequestIsSound, EnvelopeIsSound, PendingIsSound, IsJoin
<1>12. \A v \in Users, f \in Envelope :
         envelope'[v] = f => (v = u /\ f = n) \/ (v # u /\ envelope[v] = f)
  BY <1>2 DEF EachIsSound
<1>13. \A s \in Requests, q \in Request :
         requests'[s] = q => (s = r /\ q = x) \/ (s # r /\ requests[s] = q)
  BY <1>2 DEF EachIsSound
<1>14. EachIsSound'
  <2>1. envelope' \in [Users -> {NoEnvelope} \cup Envelope] /\ issued' \in 0..MaxCommands
    BY <1>2, <1>3 DEF EachIsSound
  <2>2. requests' \in [Requests -> {Idle} \cup Request]
    BY <1>2, <1>4 DEF EachIsSound
  <2>3. \A v \in Users, f \in Envelope : envelope'[v] = f => EnvelopeIsSound(f)'
    BY <1>3, <1>8, <1>10, <1>12 DEF EachIsSound
  <2>4. \A s \in Requests, q \in Request : requests'[s] = q => RequestIsSound(q)'
    BY <1>4, <1>9, <1>11, <1>13 DEF EachIsSound
  <2> QED
    BY <2>1, <2>2, <2>3, <2>4 DEF EachIsSound
<1>15. ASSUME NEW s \in Requests, NEW q \in Request, requests[s] = q, q.id = x.id
       PROVE  Copies(q, x) /\ Copies(x, q)
  <2>1. StandsFor(q, u, e)
    BY <1>1, <1>4, <1>15 DEF CommandsAreOwn
  <2>2. ~IsJoin(q)
    BY <1>5, <2>1 DEF StandsFor, IsJoin
  <2>3. s \in CopiesOf(e.id) /\ CopiesOf(e.id) \subseteq Requests
    BY <1>4, <1>15, NotNothing DEF CopiesOf, Busy
  <2>4. Cardinality(CopiesOf(e.id)) \in Nat /\ Cardinality(CopiesOf(e.id)) # 0
    BY <2>3, FS_Subset, FS_CardinalityType, FS_EmptySet, StoreAssumption DEF StoreAssumption
  <2>5. Cardinality(CopiesOf(e.id)) < scenario.copies /\ scenario.copies \in Nat
    BY <1>1, ScenarioFacts DEF Send
  <2> QED
    BY <1>4, <2>1, <2>2, <2>4, <2>5 DEF Copies, StandsFor, IsJoin
<1>16. CommandsAreOwn'
  <2>1. \A v, w \in Users, f, g \in Envelope :
          envelope'[v] = f /\ envelope'[w] = g /\ f.id = g.id => v = w
    BY <1>1, <1>3, <1>12 DEF CommandsAreOwn
  <2>2. ASSUME NEW s \in Requests, NEW t \in Requests, NEW p \in Request, NEW q \in Request,
               requests'[s] = p, requests'[t] = q, p.id = q.id, s # t
        PROVE  Copies(p, q)'
    <3>1. Copies(p, q)
      BY <1>13, <1>15, <2>2 DEF CommandsAreOwn
    <3> QED
      BY <3>1 DEF Copies, IsJoin, IsLeave
  <2>3. ASSUME NEW s \in Requests, NEW v \in Users, NEW q \in Request, NEW f \in Envelope,
               requests'[s] = q, envelope'[v] = f, q.id = f.id
        PROVE  StandsFor(q, v, f)
    <3>1. CASE s # r /\ v # u
      BY <1>12, <1>13, <2>3, <3>1 DEF CommandsAreOwn
    <3>2. CASE s # r /\ v = u
      <4>1. requests[s] = q /\ f = n
        BY <1>12, <1>13, <2>3, <3>2
      <4>2. StandsFor(q, u, e)
        BY <1>1, <1>3, <2>3, <4>1 DEF CommandsAreOwn
      <4> QED
        BY <1>3, <3>2, <4>1, <4>2 DEF StandsFor
    <3>3. CASE s = r /\ v # u
      <4>1. q = x /\ envelope[v] = f
        BY <1>12, <1>13, <2>3, <3>3
      <4> QED
        BY <1>1, <1>4, <2>3, <3>3, <4>1 DEF CommandsAreOwn
    <3>4. CASE s = r /\ v = u
      <4>1. q = x /\ f = n
        BY <1>12, <1>13, <2>3, <3>4
      <4> QED
        BY <1>3, <1>4, <3>4, <4>1 DEF StandsFor
    <3> QED
      BY <3>1, <3>2, <3>3, <3>4
  <2> QED
    BY <2>1, <2>2, <2>3 DEF CommandsAreOwn, StandsFor
<1> QED
  BY <1>14, <1>16

\* No step disturbs clients and requests.
LEMMA ClientsStaySound ==
  ASSUME StoreInvariant, Next
  PROVE  ClientsAreSound'
<1>1. UNCHANGED scenario
  BY DEF Next
<1>2. ASSUME NEW u \in Users, Client(u)
      PROVE  ClientsAreSound'
  BY <1>1, <1>2, ComposeClients, SendClients, GiveUpClients DEF Client
<1>3. ASSUME NEW r \in Requests, Serve(r)
      PROVE  ClientsAreSound'
  BY <1>1, <1>3, FindReceiptClients, ReadRowClients, BatchClients, LostClients,
     ThrewClients, CrashClients DEF Serve
<1> QED
  BY <1>1, <1>2, <1>3, MaintainClients DEF Next

-----------------------------------------------------------------------------
(***************************************************************************)
(* The room and its ledgers.                                               *)
(***************************************************************************)
\* The room is closed by maintenance.
Closure ==
  /\ room = "open" /\ room' = "closed" /\ version' = version + 1
  /\ events' = events \cup {[id |-> System, version |-> version + 1]}
  /\ UNCHANGED <<scenario, table, members, receipts, rounds, issued, told>>
  /\ sweep' = 0 /\ Deserted

BatchRuns(r) == At(r, "batch") /\ (Commit(r) \/ CommitStale(r)) /\ UNCHANGED <<issued, sweep>>

\* What the steps do to the room, to the IDs and to what was told.
LEMMA StepKinds ==
  ASSUME StoreInvariant, Next
  PROVE  /\ UNCHANGED scenario
         /\ issued' \in {issued, issued + 1}
         /\ told' # told => \E p \in Request, k \in {"accepted", "conflict"} :
              RequestIsSound(p) /\ told' = told \cup {Told(p, k)}
         /\ \/ UNCHANGED rowVars /\ sweep' \in {0, version, sweep}
            \/ Closure
            \/ \E r \in Requests : BatchRuns(r)
<1> USE DEF StoreInvariant, ClientsAreSound
<1>1. ASSUME NEW u \in Users, Client(u)
      PROVE  UNCHANGED <<rowVars, sweep, told>> /\ issued' \in {issued, issued + 1}
  BY <1>1 DEF Client, Compose, Send, GiveUp
<1>2. ASSUME NEW r \in Requests, Serve(r)
      PROVE  /\ UNCHANGED <<issued, sweep>>
             /\ told' # told => \E p \in Request, k \in {"accepted", "conflict"} :
                  RequestIsSound(p) /\ told' = told \cup {Told(p, k)}
             /\ UNCHANGED rowVars \/ BatchRuns(r)
  <2>1. ASSUME NEW kind, Busy(r), Answer(r, kind)
        PROVE  /\ UNCHANGED <<issued, sweep>>
               /\ told' # told => \E p \in Request, k \in {"accepted", "conflict"} :
                    RequestIsSound(p) /\ told' = told \cup {Told(p, k)}
    <3>1. UNCHANGED <<issued, sweep>>
      BY <2>1 DEF Answer
    <3>2. PICK p \in Request : requests[r] = p /\ RequestIsSound(p)
      BY <2>1, BusyIsRequest
    <3>3. told' # told => /\ kind \in {"accepted", "conflict"}
                          /\ told' = told \cup {Told(p, kind)}
      BY <2>1, <3>2 DEF Answer
    <3> QED
      BY <3>1, <3>2, <3>3
  <2>2. ASSUME Busy(r), Replayed(r)
        PROVE  \E kind : Answer(r, kind)
    BY <2>2 DEF Replayed
  <2>3. ASSUME NEW pc, Goto(r, pc)
        PROVE  UNCHANGED <<issued, sweep, told>>
    BY <2>3 DEF Goto, clientVars
  <2>4. CASE FindReceipt(r)
    <3>1. Busy(r) /\ UNCHANGED rowVars /\ (Replayed(r) \/ Goto(r, "read"))
      BY Zenon, <2>4 DEF FindReceipt, At
    <3> QED
      BY <2>1, <2>2, <2>3, <3>1
  <2>5. CASE ReadRow(r)
    <3>1. /\ Busy(r) /\ UNCHANGED rowVars
          /\ (\E kind : Answer(r, kind)) \/ UNCHANGED <<clientVars, sweep, told>>
      BY Zenon, <2>5 DEF ReadRow, At
    <3> QED
      BY <2>1, <3>1 DEF clientVars
  <2>6. CASE Batch(r)
    <3>1. /\ At(r, "batch") /\ Busy(r)
          /\ Answer(r, "accepted") \/ \E pc : Goto(r, pc)
          /\ UNCHANGED rowVars \/ Commit(r) \/ CommitStale(r)
      BY Zenon, <2>6 DEF Batch, At
    <3>2. UNCHANGED <<issued, sweep>>
      BY <2>1, <2>3, <3>1
    <3> QED
      BY <2>1, <2>3, <3>1, <3>2 DEF BatchRuns
  <2>7. CASE Lost(r)
    <3>1. /\ Busy(r) /\ UNCHANGED rowVars
          /\ Replayed(r) \/ (\E kind : Answer(r, kind)) \/ UNCHANGED <<clientVars, sweep, told>>
      BY Zenon, <2>7 DEF Lost, At
    <3> QED
      BY <2>1, <2>2, <3>1 DEF clientVars
  <2>8. CASE Threw(r)
    <3>1. Busy(r) /\ UNCHANGED rowVars /\ (Replayed(r) \/ Answer(r, "error"))
      BY Zenon, <2>8 DEF Threw, At
    <3> QED
      BY <2>1, <2>2, <3>1
  <2>9. CASE Crash(r)
    BY <2>9 DEF Crash, clientVars
  <2> QED
    BY <1>2, <2>4, <2>5, <2>6, <2>7, <2>8, <2>9 DEF Serve
<1>3. CASE Maintain
  <2>1. UNCHANGED <<issued, told>>
    BY <1>3 DEF Maintain, ReadSweep, CloseRoom, AbandonSweep, clientVars
  <2>2. \/ UNCHANGED rowVars /\ sweep' \in {0, version, sweep}
        \/ UNCHANGED scenario => Closure
    BY <1>3, <2>1 DEF Maintain, ReadSweep, CloseRoom, AbandonSweep, Closure
  <2> QED
    BY <2>1, <2>2 DEF Next
<1>4. UNCHANGED scenario
  BY DEF Next
<1> QED
  BY <1>1, <1>2, <1>3, <1>4 DEF Next

\* What the outcome of a command writes into the rows.
LEMMA UpsertsAreRows ==
  ASSUME RowIsSound, NEW p \in Request, p.read.next \in Rosters
  PROVE  /\ Upserts(p) \in Rows
         /\ ~IsJoin(p) => \A u \in Present(p.read.next) :
              Upserts(p)[u].status = p.read.next.status[u]
<1> DEFINE n == p.read.next
<1>1. \A u \in Users : RowOf(n, u) \in [status: {"absent", "active", "eliminated", "left"},
                                       seat: 0..MaxPlayers]
  BY DEF RowOf, Rosters
<1>2. NoRow \in [status: {"absent", "active", "eliminated", "left"}, seat: 0..MaxPlayers]
  BY StoreAssumption DEF StoreAssumption, NoRow
<1>3. members \in Rows
  BY DEF RowIsSound
<1>4. \A u \in Users : RowOf(n, u).status = n.status[u]
  BY DEF RowOf
<1>5. \A u \in Users : members[u] \in [status: {"absent", "active", "eliminated", "left"},
                                      seat: 0..MaxPlayers]
  BY <1>3 DEF Rows
<1> HIDE DEF n
<1>6. Upserts(p) \in Rows
  BY <1>1, <1>2, <1>5 DEF Upserts, Rows, n
<1>7. ASSUME ~IsJoin(p), NEW u \in Present(n)
      PROVE  Upserts(p)[u].status = n.status[u]
  <2>1. u \in Users /\ n.status[u] # "absent"
    BY DEF Present
  <2>2. Upserts(p)[u] = RowOf(n, u)
    BY <1>7, <2>1 DEF Upserts, IsJoin, n
  <2> QED
    BY <1>4, <2>1, <2>2
<1> QED
  BY <1>6, <1>7 DEF n

\* A commit writes the rows of the new snapshot.
LEMMA CommitRows ==
  ASSUME StoreInvariant, UNCHANGED scenario, NEW r \in Requests, BatchRuns(r), Commit(r)
  PROVE  RowIsSound' /\ RowsMatchWithoutCopies'
<1> USE DEF StoreInvariant
<1>1. PICK p \in Request : requests[r] = p /\ p.pc = "batch"
  BY BusyIsRequest DEF BatchRuns, At, ClientsAreSound
<1>2. PICK n : n = p.read.next
  OBVIOUS
<1>3. /\ OutcomeIsSound(table, p.user, p.command, n) /\ n \in Rosters
      /\ p.user \in Users
  BY <1>1, <1>2, CommitIsFirst DEF Commit, OutcomeIsSound, Request
<1>4. /\ version' = version + 1 /\ table' = n /\ members' = Upserts(p)
      /\ room' = IF Closes(p) THEN "closed" ELSE "open"
      /\ UNCHANGED sweep
  <2>1. /\ version' = version + 1 /\ table' = requests[r].read.next
        /\ members' = Upserts(requests[r])
        /\ room' = IF Closes(requests[r]) THEN "closed" ELSE "open"
    BY Zenon DEF Commit
  <2>2. version' = version + 1 /\ table' = n
    BY <1>1, <1>2, <2>1
  <2>3. members' = Upserts(p)
    BY <1>1, <2>1
  <2>4. room' = IF Closes(p) THEN "closed" ELSE "open"
    BY <1>1, <2>1
  <2>5. UNCHANGED sweep
    BY DEF BatchRuns
  <2> QED
    BY <2>2, <2>3, <2>4, <2>5
<1>5. /\ Upserts(p) \in Rows
      /\ ~IsJoin(p) => \A u \in Present(n) : Upserts(p)[u].status = n.status[u]
  BY <1>2, <1>3, UpsertsAreRows
<1>6. IsJoin(p) => Upserts(p)[p.user] = RowOf(n, p.user) /\ n.status[p.user] = "active"
  BY <1>2, <1>3 DEF Upserts, IsJoin, OutcomeIsSound
<1>7. ASSUME room' = "open"
      PROVE  \E u \in Users : members'[u].status \in {"active", "eliminated"}
  <2>1. PICK v \in Users : v \in Present(n)
    BY <1>2, <1>3, <1>4, <1>7 DEF Closes, OutcomeIsSound, Present
  <2>2. CASE IsJoin(p)
    <3>1. members'[p.user] = RowOf(n, p.user)
      BY <1>4, <1>6, <2>2
    <3>2. RowOf(n, p.user).status = "active"
      BY <1>6, <2>2 DEF RowOf
    <3>3. members'[p.user].status = "active"
      BY <3>1, <3>2
    <3> QED
      BY <1>3, <3>3
  <2>3. CASE ~IsJoin(p)
    BY <1>4, <1>5, <2>1, <2>3 DEF Present
  <2> QED
    BY <2>2, <2>3
<1>8. RowIsSound'
  <2>1. LobbyIsPlain(table)'
    BY <1>3, <1>4 DEF OutcomeIsSound, LobbyIsPlain, Present, Playing
  <2>2. /\ scenario' \in Scenarios /\ version' \in Nat \ {0} /\ table' \in Rosters
        /\ room' \in {"open", "closed"}
    BY <1>3, <1>4 DEF RowIsSound
  <2>3. members' \in Rows
    BY <1>4, <1>5
  <2>4. sweep' \in 0..version'
    BY <1>4 DEF RowIsSound
  <2> QED
    BY <1>7, <2>1, <2>2, <2>3, <2>4 DEF RowIsSound, Rows
<1>9. ASSUME scenario.copies <= 1, NEW u \in Users
      PROVE  IF u \in Present(n) THEN Upserts(p)[u] = RowOf(n, u)
             ELSE Upserts(p)[u].status \in {"absent", "left"}
  <2>1. IF u \in Present(table) THEN members[u] = RowOf(table, u)
        ELSE members[u].status \in {"absent", "left"}
    BY <1>9 DEF RowsMatchWithoutCopies, MembersMatchSnapshot
  <2>2. n.status[u] \in {"absent", "active", "eliminated", "left"}
    BY <1>3 DEF Rosters
  <2>3. CASE ~IsJoin(p)
    <3>1. Upserts(p)[u] = IF n.status[u] = "absent" THEN members[u] ELSE RowOf(n, u)
      BY <1>2, <2>3 DEF Upserts, IsJoin
    <3>2. n.status[u] = "absent" => u \notin Present(table)
      BY <1>3 DEF OutcomeIsSound
    <3> QED
      BY <2>1, <2>2, <3>1, <3>2 DEF Present, RowOf
  <2>4. CASE IsJoin(p) /\ u = p.user
    BY <1>6, <2>4 DEF Present
  <2>5. CASE IsJoin(p) /\ u # p.user
    <3>1. Upserts(p)[u] = IF members[u].status = "left" /\ members[u].seat = n.seat[p.user]
                          THEN NoRow ELSE members[u]
      BY <1>2, <2>5 DEF Upserts, IsJoin
    <3>2. u \in Present(n) \cup Present(table) =>
            n.status[u] = table.status[u] /\ n.seat[u] = table.seat[u]
      BY <1>3, <2>5 DEF OutcomeIsSound, IsJoin
    <3>3. u \in Present(n) <=> u \in Present(table)
      BY <3>2 DEF Present
    <3>4. CASE u \in Present(table)
      BY <2>1, <3>1, <3>2, <3>3, <3>4 DEF RowOf, Present
    <3>5. CASE u \notin Present(table)
      BY <2>1, <3>1, <3>3, <3>5 DEF NoRow
    <3> QED
      BY <3>4, <3>5
  <2> QED
    BY <2>3, <2>4, <2>5
<1>10. RowsMatchWithoutCopies'
  BY <1>4, <1>9 DEF RowsMatchWithoutCopies, MembersMatchSnapshot, Present, RowOf
<1> QED
  BY <1>8, <1>10

\* The rest of a batch writes rows only for a command whose copy was accepted.
LEMMA StaleRows ==
  ASSUME StoreInvariant, UNCHANGED scenario, NEW r \in Requests, BatchRuns(r), CommitStale(r)
  PROVE  RowIsSound' /\ RowsMatchWithoutCopies'
<1> USE DEF StoreInvariant
<1>1. PICK p \in Request : requests[r] = p /\ p.pc = "batch" /\ RequestIsSound(p)
  BY BusyIsRequest DEF BatchRuns, At, ClientsAreSound
<1>2. UNCHANGED <<version, table, room, sweep>>
  BY DEF CommitStale, BatchRuns
<1>3. CASE ~Known(p.id)
  BY <1>1, <1>2, <1>3 DEF CommitStale, RowIsSound, RowsMatchWithoutCopies,
     MembersMatchSnapshot, LobbyIsPlain
<1>4. CASE Known(p.id)
  <2>1. ~IsJoin(p) /\ ReadIsSound(p) /\ ~(scenario.copies <= 1)
    BY <1>1, <1>4 DEF RequestIsSound
  <2>2. members' = Upserts(p)
    BY <1>1, <1>4 DEF CommitStale
  <2>3. /\ members' \in Rows
        /\ \A u \in Present(p.read.next) : members'[u].status = p.read.next.status[u]
    BY <2>1, <2>2, UpsertsAreRows DEF ReadIsSound
  <2>4. room = "open" => \E u \in Users : members'[u].status \in {"active", "eliminated"}
    <3>1. room = "open" => Present(p.read.next) # {}
      BY <1>4, <2>1 DEF ReadIsSound
    <3> QED
      BY <2>3, <3>1 DEF Present
  <2> QED
    BY <1>2, <2>1, <2>3, <2>4 DEF RowIsSound, RowsMatchWithoutCopies, LobbyIsPlain
<1> QED
  BY <1>3, <1>4

\* Every step keeps the room and its membership rows sound.
LEMMA RowsStaySound ==
  ASSUME StoreInvariant, Next
  PROVE  RowIsSound' /\ RowsMatchWithoutCopies'
<1> USE DEF StoreInvariant
<1>1. UNCHANGED scenario
  BY StepKinds
<1>2. CASE UNCHANGED rowVars /\ sweep' \in {0, version, sweep}
  BY <1>1, <1>2 DEF rowVars, RowIsSound, RowsMatchWithoutCopies, MembersMatchSnapshot,
     LobbyIsPlain
<1>3. CASE Closure
  BY <1>3 DEF Closure, RowIsSound, RowsMatchWithoutCopies, MembersMatchSnapshot, LobbyIsPlain
<1>4. CASE \E r \in Requests : BatchRuns(r)
  BY <1>1, <1>4, CommitRows, StaleRows DEF BatchRuns
<1> QED
  BY <1>2, <1>3, <1>4, StepKinds

\* MAX(round_number) + 1 is one more than there are rounds.
LEMMA NextRoundIs ==
  ASSUME LedgersAreSound
  PROVE  NextRound = Cardinality(rounds) + 1 /\ Cardinality(rounds) \in Nat
<1>1. /\ Cardinality(rounds) \in Nat
      /\ Cardinality(rounds) = 0 <=> rounds = {}
  BY FS_CardinalityType, FS_EmptySet DEF LedgersAreSound
<1>2. CASE rounds = {}
  BY <1>1, <1>2 DEF NextRound
<1>3. CASE rounds # {}
  <2> DEFINE m == CHOOSE x \in rounds : \A y \in rounds : y.number <= x.number
  <2>1. \A y \in rounds : y.number \in 1..Cardinality(rounds)
    BY DEF LedgersAreSound
  <2>2. PICK x \in rounds : x.number = Cardinality(rounds)
    <3>1. Cardinality(rounds) \in {y.number : y \in rounds}
      BY <1>1, <1>3 DEF LedgersAreSound
    <3> QED
      BY <3>1
  <2>3. \E y \in rounds : \A z \in rounds : z.number <= y.number
    BY <1>1, <2>1, <2>2
  <2>4. m \in rounds /\ \A y \in rounds : y.number <= m.number
    BY <2>3
  <2>5. NextRound = m.number + 1
    BY <1>3 DEF NextRound
  <2> HIDE DEF m
  <2>6. m.number = Cardinality(rounds)
    BY <1>1, <2>1, <2>2, <2>4
  <2> QED
    BY <1>1, <2>5, <2>6
<1> QED
  BY <1>2, <1>3, <1>1

\* One more entry, of a later version and under an ID that is not in use.
LEMMA EventIsAdded ==
  ASSUME StoreInvariant, version' = version + 1, NEW id \in 0..issued,
         \A e \in events : e.id # id,
         events' = events \cup {[id |-> id, version |-> version + 1]}
  PROVE  /\ events' \subseteq [id: 0..issued, version: 2..version']
         /\ IsFiniteSet(events') /\ Cardinality(events') = version' - 1
         /\ {e.version : e \in events'} = 2..version'
         /\ \A x, y \in events' : x.id = y.id => x = y
<1> DEFINE n == [id |-> id, version |-> version + 1]
<1>1. version \in Nat \ {0} /\ LedgersAreSound /\ issued \in Nat
  BY StoreAssumption
     DEF StoreInvariant, RowIsSound, ClientsAreSound, EachIsSound, StoreAssumption
<1>2. events' = events \cup {n} /\ n \notin events
  OBVIOUS
<1>3. n.id = id /\ n.version = version + 1
  OBVIOUS
<1>4. n \in [id: 0..issued, version: 2..version']
  BY <1>1
<1> HIDE DEF n
<1>5. events' \subseteq [id: 0..issued, version: 2..version']
  <2>1. \A e \in events : e \in [id: 0..issued, version: 2..version']
    BY <1>1 DEF LedgersAreSound
  <2> QED
    BY <1>2, <1>4, <2>1
<1>6. IsFiniteSet(events') /\ Cardinality(events') = version' - 1
  <2>1. /\ IsFiniteSet(events \cup {n})
        /\ Cardinality(events \cup {n}) = Cardinality(events) + 1
    BY <1>1, <1>2, FS_AddElement DEF LedgersAreSound
  <2>2. Cardinality(events) = version - 1
    BY <1>1 DEF LedgersAreSound
  <2>3. (version - 1) + 1 = version' - 1
    BY <1>1
  <2> QED
    BY <1>2, <2>1, <2>2, <2>3
<1>7. {e.version : e \in events'} = 2..version'
  <2>1. {e.version : e \in events'} = {e.version : e \in events} \cup {n.version}
    BY <1>2
  <2> QED
    BY <1>1, <1>3, <2>1 DEF LedgersAreSound
<1>8. \A x, y \in events' : x.id = y.id => x = y
  BY <1>1, <1>2, <1>3 DEF LedgersAreSound
<1> QED
  BY <1>5, <1>6, <1>7, <1>8

\* What was told is of a command that has been issued, on a version there was.
LEMMA ToldStays ==
  ASSUME StoreInvariant, Next
  PROVE  told' \subseteq Words'
<1>1. issued \in Nat /\ issued' \in {issued, issued + 1} /\ version \in Nat
  BY StepKinds, StoreAssumption
     DEF StoreInvariant, ClientsAreSound, EachIsSound, StoreAssumption, RowIsSound
<1>2. version' \in {version, version + 1}
  BY StepKinds DEF rowVars, Closure, BatchRuns, Commit, CommitStale
<1>3. 1..issued \subseteq 1..issued' /\ 0..version \subseteq 0..version'
  BY <1>1, <1>2
<1>4. \A x \in told : x \in Words'
  BY <1>3 DEF StoreInvariant, LedgersAreSound, Words
<1>5. ASSUME NEW p \in Request, NEW k \in {"accepted", "conflict"}, RequestIsSound(p)
      PROVE  Told(p, k) \in Words'
  <2>1. p.id \in 1..issued /\ p.expected \in 0..version /\ p.command \in Commands
    BY <1>1, <1>5 DEF RequestIsSound, PendingIsSound, Request, Ids
  <2> QED
    BY <1>3, <2>1 DEF Words, Told
<1> QED
  BY <1>4, <1>5, StepKinds

\* The rounds stay numbered in the order in which they were won.
LEMMA RoundIsAdded ==
  ASSUME StoreInvariant, version' = version + 1, NEW w \in Users,
         rounds' = rounds \cup {[revision |-> version + 1, number |-> NextRound, winner |-> w]}
  PROVE  /\ rounds' \subseteq [revision: 2..version', number: Nat, winner: Users]
         /\ IsFiniteSet(rounds') /\ {x.number : x \in rounds'} = 1..Cardinality(rounds')
         /\ \A x, y \in rounds' : x.revision < y.revision => x.number < y.number
<1> DEFINE n == [revision |-> version + 1, number |-> NextRound, winner |-> w]
<1>1. version \in Nat \ {0} /\ LedgersAreSound
  BY DEF StoreInvariant, RowIsSound
<1>2. NextRound = Cardinality(rounds) + 1 /\ Cardinality(rounds) \in Nat
  BY <1>1, NextRoundIs
<1>3. n.revision = version + 1 /\ n.number = NextRound
  OBVIOUS
<1>4. n \in [revision: 2..version', number: Nat, winner: Users]
  BY <1>1, <1>2
<1>5. rounds' = rounds \cup {n}
  OBVIOUS
<1> HIDE DEF n
<1>6. \A x \in rounds : x \in [revision: 2..version, number: Nat, winner: Users]
                        /\ x.number \in 1..Cardinality(rounds)
  BY <1>1 DEF LedgersAreSound
<1>7. n \notin rounds
  BY <1>2, <1>3, <1>6
<1>8. /\ IsFiniteSet(rounds \cup {n})
      /\ Cardinality(rounds \cup {n}) = Cardinality(rounds) + 1
  BY <1>1, <1>7, FS_AddElement DEF LedgersAreSound
<1>9. {x.number : x \in rounds'} = 1..Cardinality(rounds')
  <2>1. {x.number : x \in rounds'} = {x.number : x \in rounds} \cup {n.number}
    BY <1>5
  <2>2. {x.number : x \in rounds} = 1..Cardinality(rounds)
    BY <1>1 DEF LedgersAreSound
  <2>3. 1..(Cardinality(rounds) + 1) = 1..Cardinality(rounds) \cup {Cardinality(rounds) + 1}
    BY <1>2
  <2>4. Cardinality(rounds') = Cardinality(rounds) + 1
    BY <1>5, <1>8
  <2> QED
    BY <1>2, <1>3, <2>1, <2>2, <2>3, <2>4
<1>10. rounds' \subseteq [revision: 2..version', number: Nat, winner: Users]
  BY <1>1, <1>4, <1>5, <1>6
<1>11. \A x, y \in rounds' : x.revision < y.revision => x.number < y.number
  <2>1. \A x, y \in rounds : x.revision < y.revision => x.number < y.number
    BY <1>1 DEF LedgersAreSound
  <2>2. \A x \in rounds : x.revision < n.revision /\ x.number < n.number
    BY <1>1, <1>2, <1>3, <1>6
  <2>3. \A x \in rounds : ~(n.revision < x.revision)
    BY <1>1, <1>3, <1>6
  <2>4. ~(n.revision < n.revision)
    BY <1>1, <1>3
  <2> QED
    BY <1>5, <2>1, <2>2, <2>3, <2>4
<1> QED
  BY <1>5, <1>8, <1>9, <1>10, <1>11

\* A commit adds one event, one receipt and at most one round.
LEMMA CommitLedgers ==
  ASSUME StoreInvariant, Next, NEW r \in Requests, BatchRuns(r), Commit(r)
  PROVE  LedgersAreSound'
<1>1. StoreInvariant => ClientsAreSound /\ RowIsSound /\ LedgersAreSound
  BY DEF StoreInvariant
<1>2. PICK p \in Request : requests[r] = p /\ p.pc = "batch"
  BY <1>1, BusyIsRequest DEF BatchRuns, At, ClientsAreSound
<1>3. PICK n : n = p.read.next
  OBVIOUS
<1>4. /\ OutcomeIsSound(table, p.user, p.command, n) /\ n \in Rosters
      /\ ~Known(p.id) /\ RequestIsSound(p)
  BY <1>2, <1>3, CommitIsFirst DEF Commit, OutcomeIsSound
<1>5. /\ version' = version + 1 /\ table' = n /\ room = "open"
      /\ receipts' = receipts \cup {[id |-> p.id, version |-> version + 1]}
      /\ events' = events \cup {[id |-> p.id, version |-> version + 1]}
      /\ UNCHANGED issued
  BY <1>2, <1>3 DEF Commit, Fresh, BatchRuns
<1>6. p.id \in 1..issued /\ p.id # System /\ issued \in Nat
  BY <1>1, <1>4, StoreAssumption
     DEF RequestIsSound, PendingIsSound, Request, Ids, System, ClientsAreSound, EachIsSound,
         StoreAssumption
<1>7. \A e \in events : e.id # p.id
  BY <1>1, <1>4, <1>6 DEF Known, LedgersAreSound
<1>8. /\ events' \subseteq [id: 0..issued, version: 2..version']
      /\ IsFiniteSet(events') /\ Cardinality(events') = version' - 1
      /\ {e.version : e \in events'} = 2..version'
      /\ \A x, y \in events' : x.id = y.id => x = y
  <2>1. p.id \in 0..issued /\ version' = version + 1
    BY <1>5, <1>6
  <2>2. events' = events \cup {[id |-> p.id, version |-> version + 1]}
    BY <1>5
  <2> QED
    BY Zenon, <1>7, <2>1, <2>2, EventIsAdded
<1>9. receipts' = {e \in events' : e.id # System}
  <2> DEFINE m == [id |-> p.id, version |-> version + 1]
  <2>1. m.id # System /\ receipts' = receipts \cup {m} /\ events' = events \cup {m}
    BY <1>5, <1>6
  <2> HIDE DEF m
  <2> QED
    BY <1>1, <2>1 DEF LedgersAreSound
<1>10. \A e \in events' : e.id # System
  <2>1. \A e \in events : e.id # System
    BY <1>1, <1>5 DEF LedgersAreSound
  <2> QED
    BY <1>5, <1>6, <2>1
<1>11. /\ rounds' \subseteq [revision: 2..version', number: Nat, winner: Users]
       /\ IsFiniteSet(rounds') /\ {x.number : x \in rounds'} = 1..Cardinality(rounds')
       /\ \A x, y \in rounds' : x.revision < y.revision => x.number < y.number
  <2>1. CASE Wins(p)
    <3>1. n.winner \in Users
      BY <1>3, <1>4, <2>1 DEF Wins, OutcomeIsSound
    <3>2. rounds' = rounds \cup {[revision |-> version + 1, number |-> NextRound,
                                  winner |-> n.winner]}
      BY <1>2, <1>3, <2>1 DEF Commit
    <3> QED
      BY <1>5, <3>1, <3>2, RoundIsAdded
  <2>2. CASE ~Wins(p)
    <3>1. rounds' = rounds
      BY <1>2, <2>2 DEF Commit
    <3>2. version \in Nat
      BY <1>1 DEF RowIsSound
    <3> QED
      BY <1>1, <1>5, <3>1, <3>2 DEF LedgersAreSound
  <2> QED
    BY <2>1, <2>2
<1>12. told' \subseteq Words'
  BY ToldStays
<1> QED
  BY <1>5, <1>8, <1>9, <1>10, <1>11, <1>12 DEF LedgersAreSound

\* Every step keeps the ledgers sound.
LEMMA LedgersStaySound ==
  ASSUME StoreInvariant, Next
  PROVE  LedgersAreSound'
<1>1. /\ ClientsAreSound /\ RowIsSound /\ LedgersAreSound
      /\ issued \in Nat /\ version \in Nat \ {0} /\ issued' \in {issued, issued + 1}
  BY StepKinds, StoreAssumption
     DEF StoreInvariant, ClientsAreSound, EachIsSound, StoreAssumption, RowIsSound
<1>2. told' \subseteq Words'
  BY ToldStays
<1>3. ASSUME UNCHANGED <<version, room, events, receipts, rounds>>
      PROVE  LedgersAreSound'
  <2>1. events' \subseteq [id: 0..issued', version: 2..version']
    <3>1. \A e \in events : e \in [id: 0..issued', version: 2..version']
      BY <1>1, <1>3 DEF LedgersAreSound
    <3> QED
      BY <1>3, <3>1
  <2> QED
    BY <1>1, <1>2, <1>3, <2>1 DEF LedgersAreSound
<1>4. CASE Closure
  <2>1. /\ version' = version + 1 /\ room' = "closed" /\ room = "open"
        /\ events' = events \cup {[id |-> System, version |-> version + 1]}
        /\ UNCHANGED <<receipts, rounds, issued>>
    BY <1>4 DEF Closure
  <2>2. System \in 0..issued /\ \A e \in events : e.id # System
    BY <1>1, <2>1 DEF LedgersAreSound, System
  <2>3. /\ events' \subseteq [id: 0..issued, version: 2..version']
        /\ IsFiniteSet(events') /\ Cardinality(events') = version' - 1
        /\ {e.version : e \in events'} = 2..version'
        /\ \A x, y \in events' : x.id = y.id => x = y
    BY <2>1, <2>2, EventIsAdded
  <2>4. receipts' = {e \in events' : e.id # System}
    <3> DEFINE m == [id |-> System, version |-> version + 1]
    <3>1. m.id = System /\ events' = events \cup {m}
      BY <2>1
    <3> HIDE DEF m
    <3> QED
      BY <1>1, <2>1, <3>1 DEF LedgersAreSound
  <2>5. rounds' \subseteq [revision: 2..version', number: Nat, winner: Users]
    <3>1. \A x \in rounds : x \in [revision: 2..version', number: Nat, winner: Users]
      BY <1>1, <2>1 DEF LedgersAreSound
    <3> QED
      BY <2>1, <3>1
  <2> QED
    BY <1>1, <1>2, <2>1, <2>3, <2>4, <2>5 DEF LedgersAreSound
<1>5. ASSUME NEW r \in Requests, BatchRuns(r)
      PROVE  LedgersAreSound'
  <2>1. CASE Commit(r)
    BY <1>5, <2>1, CommitLedgers
  <2>2. CASE CommitStale(r)
    BY <1>3, <2>2 DEF CommitStale
  <2> QED
    BY <1>5, <2>1, <2>2 DEF BatchRuns
<1>6. CASE UNCHANGED rowVars
  BY <1>3, <1>6 DEF rowVars
<1> QED
  BY <1>4, <1>5, <1>6, StepKinds

-----------------------------------------------------------------------------
\* The first state is sound.
LEMMA InitIsSound ==
  ASSUME Init
  PROVE  StoreInvariant
<1> USE DEF Init
<1>1. scenario \in Scenarios /\ table = scenario.table
  OBVIOUS
<1>2. /\ table \in Rosters /\ Present(table) # {} /\ LobbyIsPlain(table)
      /\ MaxPlayers \in Nat /\ MaxCommands \in Nat
  BY <1>1, StoreAssumption DEF StoreAssumption, LobbyIsPlain
<1>3. ClientsAreSound
  <2>1. \A u \in Users, e \in Envelope : envelope[u] # e
    BY NotNothing
  <2>2. \A r \in Requests, q \in Request : requests[r] # q
    BY NotNothing
  <2>3. EachIsSound
    BY <1>2, <2>1, <2>2 DEF EachIsSound
  <2>4. CommandsAreOwn
    BY <2>1, <2>2 DEF CommandsAreOwn
  <2> QED
    BY <2>3, <2>4 DEF ClientsAreSound
<1>4. \A u \in Users : members[u] = IF table.status[u] = "absent" THEN NoRow ELSE RowOf(table, u)
  BY Zenon
<1>5. RowIsSound
  <2>1. members \in Rows
    BY <1>2 DEF Rows, RowOf, NoRow, Rosters
  <2>2. PICK u \in Users : table.status[u] \in {"active", "eliminated"}
    BY <1>2 DEF Present
  <2>3. members[u].status \in {"active", "eliminated"}
    BY <1>4, <2>2 DEF RowOf
  <2> QED
    BY <1>1, <1>2, <2>1, <2>2, <2>3 DEF RowIsSound
<1>6. LedgersAreSound
  BY FS_EmptySet DEF LedgersAreSound
<1>7. RowsMatchWithoutCopies
  <2>1. ASSUME NEW u \in Users
        PROVE  IF u \in Present(table) THEN members[u] = RowOf(table, u)
               ELSE members[u].status \in {"absent", "left"}
    <3>1. table.status[u] \in {"absent", "active", "eliminated", "left"}
      BY <1>2 DEF Rosters
    <3>2. NoRow.status = "absent" /\ RowOf(table, u).status = table.status[u]
      BY DEF NoRow, RowOf
    <3>3. u \in Present(table) <=> table.status[u] \in {"active", "eliminated"}
      BY DEF Present
    <3>4. CASE table.status[u] = "absent"
      BY <1>4, <3>2, <3>3, <3>4
    <3>5. CASE table.status[u] # "absent"
      BY <1>4, <3>1, <3>2, <3>3, <3>5
    <3> QED
      BY <3>4, <3>5
  <2> QED
    BY <2>1 DEF RowsMatchWithoutCopies, MembersMatchSnapshot
<1> QED
  BY <1>3, <1>5, <1>6, <1>7 DEF StoreInvariant

\* What does not change stays sound.
LEMMA StutterIsSound ==
  ASSUME StoreInvariant, UNCHANGED vars
  PROVE  StoreInvariant'
<1> USE DEF StoreInvariant
<1>1. UNCHANGED <<scenario, version, table, room, members, events, receipts, rounds,
                  envelope, issued, requests, sweep, told>>
  BY DEF vars, rowVars, clientVars
<1>2. PICK u \in Users : TRUE
  BY ScenarioFacts DEF RowIsSound, Rosters
<1>3. ClientsAreSound'
  BY <1>1, <1>2, QuietStand
<1>4. RowIsSound' /\ RowsMatchWithoutCopies'
  BY <1>1 DEF RowIsSound, RowsMatchWithoutCopies, MembersMatchSnapshot, LobbyIsPlain
<1>5. LedgersAreSound'
  BY <1>1 DEF LedgersAreSound, Words
<1> QED
  BY <1>3, <1>4, <1>5

\* Whatever races, is retried, is lost or crashes, clients, room and ledgers
\* fit together.
THEOREM StoreIsSound == Spec => []StoreInvariant
<1>1. StoreInvariant /\ [Next]_vars => StoreInvariant'
  BY StutterIsSound, ClientsStaySound, RowsStaySound, LedgersStaySound DEF StoreInvariant
<1> QED
  BY <1>1, InitIsSound, PTL DEF Spec

\* Every variable of the store keeps its type.
THEOREM StoreIsTyped == Spec => []TypeOK
<1>1. StoreInvariant => TypeOK
  <2> SUFFICES ASSUME StoreInvariant
               PROVE  TypeOK
    OBVIOUS
  <2> USE DEF StoreInvariant
  <2>1. /\ issued \in 0..MaxCommands /\ issued \in Nat /\ version \in Nat
        /\ MaxCommands \in Nat
    BY StoreAssumption
       DEF ClientsAreSound, EachIsSound, RowIsSound, StoreAssumption
  <2>2. \A u \in Users : envelope[u].id \in 0..issued
    <3> TAKE u \in Users
    <3>1. CASE envelope[u] = NoEnvelope
      BY <2>1, <3>1 DEF NoEnvelope, System
    <3>2. CASE envelope[u] \in Envelope
      <4>1. EnvelopeIsSound(envelope[u])
        BY <3>2 DEF ClientsAreSound, EachIsSound
      <4> QED
        BY <2>1, <3>2, <4>1 DEF EnvelopeIsSound, PendingIsSound, Envelope, Ids
    <3> QED
      BY <3>1, <3>2 DEF ClientsAreSound, EachIsSound
  <2>3. ASSUME NEW r \in Requests, Busy(r)
        PROVE  /\ requests[r].pc \in {"lookup", "read", "batch", "lost", "threw"}
               /\ requests[r].id \in 1..issued /\ requests[r].user \in Users
               /\ requests[r].command \in Commands
               /\ requests[r].pc = "batch" => requests[r].read.next \in Rosters
               /\ requests[r].attempt \in 1..JoinAttempts
    <3>1. requests[r] \in Request /\ RequestIsSound(requests[r])
      BY <2>3, BusyIsRequest DEF ClientsAreSound
    <3>2. requests[r].id \in 1..issued
      BY <2>1, <3>1 DEF RequestIsSound, PendingIsSound, Request, Ids
    <3> QED
      BY <3>1, <3>2 DEF Request, Places, RequestIsSound, ReadIsSound
  <2>4. told \subseteq [id: Ids, kind: {"accepted", "conflict"}, command: Commands,
                       expected: 0..version]
    <3>1. 1..issued \subseteq Ids
      BY <2>1 DEF Ids
    <3> QED
      BY <3>1 DEF LedgersAreSound, Words
  <2>5. /\ events \subseteq [id: Ids \cup {System}, version: Nat]
        /\ receipts \subseteq [id: Ids, version: Nat]
    <3>1. \A e \in events : e \in [id: Ids \cup {System}, version: Nat]
      BY <2>1 DEF LedgersAreSound, Ids, System
    <3>2. \A e \in events : e.id # System => e \in [id: Ids, version: Nat]
      BY <3>1
    <3> QED
      BY <3>1, <3>2 DEF LedgersAreSound
  <2>6. rounds \subseteq [revision: Nat, number: Nat, winner: Users]
    <3>1. \A x \in rounds : x \in [revision: Nat, number: Nat, winner: Users]
      BY <2>1 DEF LedgersAreSound
    <3> QED
      BY <3>1
  <2> QED
    BY <2>1, <2>2, <2>3, <2>4, <2>5, <2>6 DEF TypeOK, RowIsSound, Rows
<1> QED
  BY <1>1, StoreIsSound, PTL

\* Every revision has one event and every command at most one receipt, and
\* the rounds are numbered in the order in which they were won.
THEOREM LedgersAlwaysAgree == Spec => []LedgersAgree
<1>1. StoreInvariant => LedgersAgree
  BY DEF StoreInvariant, LedgersAreSound, LedgersAgree
<1> QED
  BY <1>1, StoreIsSound, PTL

\* As long as no command has two copies on their way, the membership rows are
\* those of the snapshot.
THEOREM RowsMatchTheSnapshot == Spec => []RowsMatchWithoutCopies
<1>1. StoreInvariant => RowsMatchWithoutCopies
  BY DEF StoreInvariant
<1> QED
  BY <1>1, StoreIsSound, PTL

\* A round is entered in the ledger in the step that ends it, with its winner.
THEOREM RoundsAreAlwaysWins == Spec => RoundsAreWins
<1> DEFINE Entered ==
             /\ table.phase = "playing" /\ table'.phase = "complete" =>
                  [revision |-> version', number |-> Cardinality(rounds) + 1,
                   winner |-> table'.winner] \in rounds'
             /\ rounds' # rounds => table.phase = "playing" /\ table'.phase = "complete"
<1>1. ASSUME StoreInvariant, [Next]_vars
      PROVE  [Entered]_vars
  <2>1. CASE UNCHANGED vars
    BY <2>1
  <2>2. CASE Next
    <3>1. ASSUME UNCHANGED <<table, rounds>>
          PROVE  Entered
      BY <3>1
    <3>2. ASSUME NEW r \in Requests, BatchRuns(r), Commit(r)
          PROVE  Entered
      <4>1. PICK p \in Request : requests[r] = p /\ p.pc = "batch"
        BY <1>1, <3>2, BusyIsRequest DEF BatchRuns, At, StoreInvariant, ClientsAreSound
      <4>2. PICK n : n = p.read.next
        OBVIOUS
      <4>3. table.phase = "playing" /\ n.phase = "complete" => n.winner \in Users
        BY <1>1, <3>2, <4>1, <4>2, CommitIsFirst DEF Commit, OutcomeIsSound
      <4>4. Wins(p) <=> table.phase = "playing" /\ n.phase = "complete"
        BY <4>2, <4>3, StoreAssumption DEF Wins, StoreAssumption
      <4>5. table' = n /\ version' = version + 1
        BY <3>2, <4>1, <4>2 DEF Commit
      <4>6. NextRound = Cardinality(rounds) + 1
        BY <1>1, NextRoundIs DEF StoreInvariant
      <4>7. CASE Wins(p)
        <5>1. rounds' = rounds \cup {[revision |-> version + 1, number |-> NextRound,
                                      winner |-> n.winner]}
          BY <3>2, <4>1, <4>2, <4>7 DEF Commit
        <5> QED
          BY <4>4, <4>5, <4>6, <4>7, <5>1
      <4>8. CASE ~Wins(p)
        <5>1. rounds' = rounds
          BY <3>2, <4>1, <4>8 DEF Commit
        <5> QED
          BY <4>4, <4>5, <4>8, <5>1
      <4> QED
        BY <4>7, <4>8
    <3>3. ASSUME UNCHANGED rowVars
          PROVE  Entered
      BY <3>1, <3>3 DEF rowVars
    <3>4. ASSUME Closure
          PROVE  Entered
      BY <3>1, <3>4 DEF Closure
    <3>5. ASSUME NEW r \in Requests, BatchRuns(r), CommitStale(r)
          PROVE  Entered
      BY <3>1, <3>5 DEF CommitStale
    <3>6. Entered
      <4> HIDE DEF Entered
      <4>1. UNCHANGED rowVars \/ Closure \/ \E r \in Requests : BatchRuns(r)
        BY <1>1, <2>2, StepKinds
      <4>2. ASSUME NEW r \in Requests, BatchRuns(r)
            PROVE  Entered
        BY <3>2, <3>5, <4>2 DEF BatchRuns
      <4> QED
        BY <3>3, <3>4, <4>1, <4>2
    <3> QED
      BY <3>6
  <2> QED
    BY <1>1, <2>1, <2>2
<1>2. StoreInvariant /\ [Next]_vars => [Entered]_vars
  BY <1>1
<1>3. RoundsAreWins <=> [][Entered]_vars
  BY DEF RoundsAreWins
<1> HIDE DEF Entered
<1> QED
  BY <1>2, <1>3, StoreIsSound, PTL DEF Spec

-----------------------------------------------------------------------------
(***************************************************************************)
(* Seats.  A row whose player is at the table, or has left it and keeps    *)
(* its place there, is that of the snapshot, so that the engine gives a    *)
(* seat only where the index allows it.                                    *)
(***************************************************************************)
RowsOf(t) == \A u \in Users : t.status[u] # "absent" => members[u] = RowOf(t, u)

RowsFit ==
  /\ SeatsApart(table) /\ SeatsUnique(members)
  /\ scenario.copies <= 1 => RowsOf(table)

\* What a batch that is still current has read.
LEMMA FreshIsOrderly ==
  ASSUME StoreInvariant, NEW r \in Requests, NEW p \in Request, requests[r] = p,
         p.pc = "batch", Fresh(r)
  PROVE  /\ p.read.next \in Rosters /\ p.user \in Users
         /\ OutcomeIsSound(table, p.user, p.command, p.read.next)
         /\ OutcomeIsOrderly(table, p.user, p.command, p.read.next)
<1>1. /\ table \in Rosters /\ LobbyIsPlain(table)
      /\ p.user \in Users /\ p.command \in Commands
  BY DEF StoreInvariant, RowIsSound, Request
<1>2. /\ p.read.next \in Outcomes(table, p.user, p.command)
      /\ OutcomeIsSound(table, p.user, p.command, p.read.next)
  BY CommitIsFirst
<1>3. OutcomeIsOrderly(table, p.user, p.command, p.read.next)
  BY <1>1, <1>2, RosterAssumed, OutcomesAreOrderly
<1> QED
  BY <1>1, <1>2, <1>3 DEF OutcomeIsSound

\* The rows that such a batch writes, without copies: whoever has a seat in
\* the new snapshot has it alone, and its row says so.
LEMMA FreshRowsFit ==
  ASSUME StoreInvariant, RowsFit, scenario.copies <= 1, NEW p \in Request, NEW n \in Rosters,
         n = p.read.next, OutcomeIsSound(table, p.user, p.command, n),
         OutcomeIsOrderly(table, p.user, p.command, n)
  PROVE  /\ SeatsUnique(Upserts(p))
         /\ \A u \in Users : n.status[u] # "absent" => Upserts(p)[u] = RowOf(n, u)
<1>1. /\ SeatsApart(n) /\ table \in Rosters /\ p.user \in Users
      /\ \A u \in Users : table.status[u] # "absent" => members[u] = RowOf(table, u)
      /\ \A u, v \in Users : members[u].status # "absent" /\ members[v].status # "absent" /\ u # v
                                => members[u].seat # members[v].seat
      /\ \A u \in Users : members[u].status \in {"active", "eliminated"} => u \in Present(table)
      /\ \A u \in Users : members[u].status \in {"absent", "active", "eliminated", "left"}
  BY DEF RowsFit, RowsOf, SeatsUnique, OutcomeIsOrderly, StoreInvariant, RowIsSound, Rows, Request,
     RowsMatchWithoutCopies, MembersMatchSnapshot
<1>2. \A u \in Users : /\ RowOf(n, u).seat = n.seat[u] /\ RowOf(n, u).status = n.status[u]
                       /\ RowOf(table, u).seat = table.seat[u]
                       /\ RowOf(table, u).status = table.status[u]
  BY DEF RowOf
<1>3. CASE ~IsJoin(p)
  <2>1. \A u \in Users : Upserts(p)[u] = IF n.status[u] = "absent" THEN members[u] ELSE RowOf(n, u)
    BY <1>3 DEF Upserts, IsJoin
  <2>2. \A u \in Users : n.status[u] # "absent" =>
          members[u].status # "absent" /\ RowOf(n, u).seat = members[u].seat
    BY <1>1, <1>2, <1>3 DEF OutcomeIsOrderly, IsJoin
  <2>3. SeatsUnique(Upserts(p))
    BY <1>1, <2>1, <2>2 DEF SeatsUnique
  <2> QED
    BY <2>1, <2>3
<1>4. CASE IsJoin(p)
  <2>1. \A u \in Users :
          Upserts(p)[u] = IF u = p.user THEN RowOf(n, u)
                          ELSE IF members[u].status = "left" /\ members[u].seat = n.seat[p.user]
                          THEN NoRow ELSE members[u]
    BY <1>4 DEF Upserts, IsJoin
  <2>2. n.status[p.user] = "active"
    BY <1>4 DEF OutcomeIsSound, IsJoin
  <2>3. ASSUME NEW u \in Users \ {p.user}, u \in Present(n) \cup Present(table)
        PROVE  /\ n.status[u] = table.status[u] /\ n.seat[u] = table.seat[u]
               /\ n.status[u] # "absent" /\ members[u] = RowOf(n, u)
    <3>1. n.status[u] = table.status[u] /\ n.seat[u] = table.seat[u]
      BY <1>4, <2>3 DEF OutcomeIsSound, IsJoin
    <3>2. n.status[u] # "absent"
      BY <2>3, <3>1 DEF Present
    <3> QED
      BY <1>1, <3>1, <3>2 DEF RowOf
  <2>4. ASSUME NEW u \in Users \ {p.user}, Upserts(p)[u].status # "absent"
        PROVE  /\ Upserts(p)[u] = members[u] /\ members[u].status # "absent"
               /\ members[u].seat # n.seat[p.user]
    <3>1. Upserts(p)[u] = members[u] /\ members[u].status # "absent"
      BY <2>1, <2>4 DEF NoRow
    <3>2. CASE members[u].status = "left"
      BY <2>1, <2>4, <3>1, <3>2 DEF NoRow
    <3>3. CASE members[u].status # "left"
      <4>1. u \in Present(table)
        BY <1>1, <3>1, <3>3
      <4>2. n.status[u] # "absent" /\ members[u].seat = n.seat[u]
        BY <1>2, <2>3, <4>1
      <4> QED
        BY <1>1, <2>2, <3>1, <4>2 DEF SeatsApart
    <3> QED
      BY <3>2, <3>3
  <2>5. SeatsUnique(Upserts(p))
    <3>1. Upserts(p)[p.user].seat = n.seat[p.user]
      BY <1>1, <1>2, <2>1
    <3> QED
      BY <1>1, <2>4, <3>1 DEF SeatsUnique
  <2>6. ASSUME NEW u \in Users \ {p.user}, n.status[u] # "absent"
        PROVE  Upserts(p)[u] = RowOf(n, u)
    <3>1. u \in Present(table)
      BY <1>4, <2>6 DEF OutcomeIsOrderly, IsJoin
    <3>2. members[u] = RowOf(n, u) /\ members[u].status \in {"active", "eliminated"}
      BY <2>3, <3>1 DEF Present, RowOf
    <3> QED
      BY <2>1, <3>2
  <2> QED
    BY <1>1, <2>1, <2>5, <2>6
<1> QED
  BY <1>3, <1>4

\* Every step keeps the seats apart, in the snapshot and in the rows.
LEMMA RowsStayFit ==
  ASSUME StoreInvariant, RowsFit, [Next]_vars
  PROVE  RowsFit'
<1>1. CASE UNCHANGED <<scenario, table, members>>
  BY <1>1 DEF RowsFit, RowsOf, SeatsApart, SeatsUnique, RowOf
<1>2. CASE Closure
  <2>1. UNCHANGED <<scenario, table, members>>
    BY <1>2 DEF Closure
  <2> QED
    BY <1>1, <2>1
<1>3. ASSUME Next, NEW r \in Requests, BatchRuns(r)
      PROVE  RowsFit'
  <2>1. UNCHANGED scenario
    BY <1>3, StepKinds
  <2>2. PICK p \in Request : requests[r] = p /\ p.pc = "batch" /\ RequestIsSound(p)
    BY <1>3, BusyIsRequest DEF BatchRuns, At, Busy, Idle, StoreInvariant, ClientsAreSound
  <2>3. CASE Commit(r)
    <3>1. PICK n : n = p.read.next
      OBVIOUS
    <3>2. Fresh(r) /\ SeatsUnique(Upserts(p)) /\ table' = n /\ members' = Upserts(p)
      BY <2>2, <2>3, <3>1 DEF Commit
    <3>3. /\ n \in Rosters /\ OutcomeIsSound(table, p.user, p.command, n)
          /\ OutcomeIsOrderly(table, p.user, p.command, n)
      BY <2>2, <3>1, <3>2, FreshIsOrderly
    <3>4. SeatsApart(table)' /\ SeatsUnique(members)'
      BY <3>2, <3>3 DEF OutcomeIsOrderly, RowsFit, SeatsApart, SeatsUnique
    <3>5. ASSUME scenario.copies <= 1
          PROVE  RowsOf(table)'
      <4>1. \A u \in Users : n.status[u] # "absent" => Upserts(p)[u] = RowOf(n, u)
        BY <3>1, <3>3, <3>5, FreshRowsFit
      <4> QED
        BY <3>2, <4>1 DEF RowsOf, RowOf
    <3> QED
      BY <2>1, <3>4, <3>5 DEF RowsFit
  <2>4. CASE CommitStale(r) /\ ~Known(p.id)
    BY <1>1, <2>1, <2>2, <2>4 DEF CommitStale
  <2>5. CASE CommitStale(r) /\ Known(p.id)
    <3>1. ~(scenario.copies <= 1) /\ UNCHANGED table
      BY <2>2, <2>5 DEF RequestIsSound, CommitStale
    <3>2. SeatsUnique(Upserts(p)) /\ members' = Upserts(p)
      BY <2>2, <2>5 DEF CommitStale
    <3> QED
      BY <2>1, <3>1, <3>2 DEF RowsFit, SeatsApart, SeatsUnique
  <2> QED
    BY <1>3, <2>3, <2>4, <2>5 DEF BatchRuns
<1>4. CASE Next
  BY <1>1, <1>2, <1>3, <1>4, StepKinds DEF rowVars
<1>5. CASE UNCHANGED vars
  BY <1>1, <1>5 DEF vars, rowVars
<1> QED
  BY <1>4, <1>5

\* A batch that is still current never runs into the unique index on seats,
\* as long as no command has two copies on their way.
THEOREM FreshBatchesAlwaysFit == Spec => []FreshBatchFits
<1>1. Init => RowsFit
  <2> SUFFICES ASSUME Init
               PROVE  RowsFit
    OBVIOUS
  <2>1. SeatsApart(table)
    BY StoreAssumption DEF Init, StoreAssumption
  <2>2. \A u \in Users : members[u] = IF table.status[u] = "absent" THEN NoRow ELSE RowOf(table, u)
    BY DEF Init
  <2>3. RowsOf(table)
    BY <2>2 DEF RowsOf
  <2>4. \A u \in Users : members[u].status # "absent" => members[u] = RowOf(table, u)
                           /\ table.status[u] # "absent"
    BY <2>2 DEF NoRow, RowOf
  <2>5. \A u \in Users : RowOf(table, u).seat = table.seat[u]
    BY DEF RowOf
  <2>6. SeatsUnique(members)
    BY <2>1, <2>4, <2>5 DEF SeatsUnique, SeatsApart
  <2> QED
    BY <2>1, <2>3, <2>6 DEF RowsFit
<1>2. StoreInvariant /\ RowsFit => FreshBatchFits
  <2> SUFFICES ASSUME StoreInvariant, RowsFit, scenario.copies <= 1,
                      NEW r \in Requests, At(r, "batch"), Fresh(r)
               PROVE  SeatsUnique(Upserts(requests[r]))
    BY DEF FreshBatchFits
  <2>1. PICK p \in Request : requests[r] = p /\ p.pc = "batch"
    BY BusyIsRequest DEF At, Busy, Idle, StoreInvariant, ClientsAreSound
  <2>2. /\ p.read.next \in Rosters
        /\ OutcomeIsSound(table, p.user, p.command, p.read.next)
        /\ OutcomeIsOrderly(table, p.user, p.command, p.read.next)
    BY <2>1, FreshIsOrderly
  <2> QED
    BY <2>1, <2>2, FreshRowsFit
<1>3. StoreInvariant /\ RowsFit /\ [Next]_vars => RowsFit'
  BY RowsStayFit
<1> QED
  BY <1>1, <1>2, <1>3, StoreIsSound, PTL DEF Spec

-----------------------------------------------------------------------------
(***************************************************************************)
(* The store, with any number of users and invocations, does what one      *)
(* server would that does one command at a time, as long as no more        *)
(* commands are accepted than a snapshot remembers.                        *)
(***************************************************************************)
EnoughIsRemembered == MaxCommands <= Remembered

Applied == {x.id : x \in receipts}
Confirmed == {x.id : x \in {y \in told : y.kind = "accepted"}}
Refused == {x.id : x \in Conflicts}
Premature == {x.id : x \in {y \in Conflicts : Undecided(y)}}

\* The invariant, in the terms of Room.
LEMMA KnownIsApplied ==
  ASSUME NEW id
  PROVE  /\ Known(id) <=> id \in Applied
         /\ Denied(id) <=> id \in Refused
         /\ Early(id) <=> id \in Premature
  BY DEF Known, Applied, Denied, Refused, Early, Premature

\* As long as the room is open, a snapshot remembers every command.
LEMMA KnownIsProcessed ==
  ASSUME EnoughIsRemembered, StoreInvariant, NEW id \in Ids
  PROVE  /\ id \in Processed => Known(id)
         /\ room = "open" /\ Known(id) => id \in Processed
<1>1. /\ LedgersAreSound /\ version \in Nat \ {0} /\ issued \in 0..MaxCommands
      /\ MaxCommands \in Nat /\ Remembered \in Nat
  BY StoreAssumption
     DEF StoreInvariant, RowIsSound, ClientsAreSound, EachIsSound, StoreAssumption
<1>2. ASSUME id \in Processed
      PROVE  Known(id)
  <2>1. PICK e \in events : e.id = id /\ e.id # System
    BY <1>2 DEF Processed
  <2> QED
    BY <1>1, <2>1 DEF LedgersAreSound, Known
<1>3. ASSUME room = "open", Known(id)
      PROVE  id \in Processed
  <2> DEFINE f == [e \in events |-> e.id]
  <2>1. \A e \in events : e.id \in 1..issued
    BY <1>1, <1>3 DEF LedgersAreSound, System
  <2>2. f \in Injection(events, 1..issued)
    BY <1>1, <2>1 DEF Injection, IsInjective, LedgersAreSound
  <2>3. IsFiniteSet(1..issued) /\ Cardinality(1..issued) = issued
    BY <1>1, FS_Interval
  <2>4. Cardinality(events) <= issued
    BY <2>2, <2>3, FS_Injection
  <2>5. version - Remembered <= 1
    BY <1>1, <2>3, <2>4 DEF LedgersAreSound, EnoughIsRemembered
  <2>6. PICK e \in receipts : e.id = id
    BY <1>3 DEF Known
  <2>7. e \in events /\ e.id # System /\ e.version \in 2..version
    BY <1>1, <2>6 DEF LedgersAreSound
  <2>8. e.version > version - Remembered
    BY <1>1, <2>5, <2>7
  <2> QED
    BY <2>6, <2>7, <2>8 DEF Processed
<1> QED
  BY <1>2, <1>3

-----------------------------------------------------------------------------
\* A command is confirmed or denied once more, and nothing else happens.
LEMMA ToldIsMapped ==
  ASSUME NEW p
  PROVE  /\ told' = told \cup {Told(p, "accepted")} =>
              /\ Confirmed' = Confirmed \cup {p.id} /\ Conflicts' = Conflicts
         /\ told' = told \cup {Told(p, "conflict")} /\ version' = version =>
              /\ Confirmed' = Confirmed /\ Refused' = Refused \cup {p.id}
              /\ Premature' = Premature \/ (p.expected = version /\ Premature' = Premature \cup {p.id})
<1>1. PICK n : n = Told(p, "accepted")
  OBVIOUS
<1>2. n.id = p.id /\ n.kind = "accepted"
  BY <1>1 DEF Told
<1>3. ASSUME told' = told \cup {Told(p, "accepted")}
      PROVE  Confirmed' = Confirmed \cup {p.id} /\ Conflicts' = Conflicts
  BY <1>1, <1>2, <1>3 DEF Confirmed, Conflicts
<1>4. PICK m : m = Told(p, "conflict")
  OBVIOUS
<1>5. m.id = p.id /\ m.kind = "conflict" /\ m.expected = p.expected
  BY <1>4 DEF Told
<1>6. ASSUME told' = told \cup {Told(p, "conflict")}, version' = version
      PROVE  /\ Confirmed' = Confirmed /\ Refused' = Refused \cup {p.id}
             /\ Premature' = Premature \/ (p.expected = version /\ Premature' = Premature \cup {p.id})
  <2>1. told' = told \cup {m} /\ Conflicts' = Conflicts \cup {m}
    BY <1>4, <1>5, <1>6 DEF Conflicts
  <2>2. \A x : Undecided(x)' <=> Undecided(x)
    BY <1>6 DEF Undecided
  <2>3. Confirmed' = Confirmed
    BY <1>5, <2>1 DEF Confirmed
  <2>4. Refused' = Refused \cup {p.id}
    BY <1>5, <2>1 DEF Refused
  <2>5. CASE Undecided(m)
    <3>1. p.expected = version
      BY <1>5, <2>5 DEF Undecided
    <3>2. Premature' = Premature \cup {p.id}
      BY <1>5, <2>1, <2>2, <2>5 DEF Premature
    <3> QED
      BY <2>3, <2>4, <3>1, <3>2
  <2>6. CASE ~Undecided(m)
    <3>1. Premature' = Premature
      BY <2>1, <2>2, <2>6 DEF Premature
    <3> QED
      BY <2>3, <2>4, <3>1
  <2> QED
    BY <2>5, <2>6
<1> QED
  BY <1>3, <1>6

RoomVars == <<table, room, Applied, Confirmed, Refused, Premature>>

\* The steps of one server, in the variables of the store.
LEMMA StepOfRoom ==
  /\ OneServer!Next <=>
       \/ \E id \in Ids :
            \/ /\ room = "open" /\ id \notin Applied \cup (Refused \ Premature)
               /\ Applied' = Applied \cup {id} /\ Premature' = {}
               /\ \E u \in Users, c \in Commands : table' \in Outcomes(table, u, c)
               /\ room' = IF Present(table') = {} THEN "closed" ELSE "open"
               /\ Confirmed' \in {Confirmed, Confirmed \cup {id}}
               /\ UNCHANGED Refused
            \/ /\ id \in Applied /\ Confirmed' = Confirmed \cup {id}
               /\ UNCHANGED <<table, room, Applied, Refused, Premature>>
            \/ /\ id \notin Applied /\ Refused' = Refused \cup {id}
               /\ \/ UNCHANGED Premature
                  \/ id \notin Refused /\ Premature' = Premature \cup {id}
               /\ UNCHANGED <<table, room, Applied, Confirmed>>
       \/ /\ room = "open" /\ table.phase = "lobby" /\ room' = "closed" /\ Premature' = {}
          /\ UNCHANGED <<table, Applied, Confirmed, Refused>>
  /\ OneServer!vars = RoomVars
  BY DEF OneServer!Next, OneServer!Apply, OneServer!Confirm, OneServer!Deny, OneServer!Close,
     OneServer!vars, RoomVars, Applied, Confirmed, Refused, Premature

\* A request that ends with an answer confirms or denies its command, or says nothing.
LEMMA AnswerMaps ==
  ASSUME StoreInvariant, NEW r \in Requests, Busy(r), NEW kind, Answer(r, kind),
         UNCHANGED <<version, table, room, receipts>>,
         kind = "accepted" => Known(requests[r].id),
         kind = "conflict" => ~Known(requests[r].id)
  PROVE  OneServer!Next \/ UNCHANGED RoomVars
<1>1. PICK p \in Request : requests[r] = p /\ RequestIsSound(p)
  BY BusyIsRequest DEF StoreInvariant, ClientsAreSound
<1>2. p.id \in Ids /\ p.expected \in Nat /\ version \in Nat
  BY DEF Request, StoreInvariant, RowIsSound
<1>3. UNCHANGED Applied
  BY DEF Applied
<1>4. CASE kind = "accepted"
  <2>1. told' = told \cup {Told(p, "accepted")}
    BY <1>1, <1>4 DEF Answer
  <2>2. Confirmed' = Confirmed \cup {p.id} /\ UNCHANGED Conflicts
    BY <2>1, ToldIsMapped
  <2>3. UNCHANGED <<Refused, Premature>>
    BY <2>2 DEF Refused, Premature, Undecided
  <2>4. p.id \in Applied
    BY <1>1, <1>4, KnownIsApplied
  <2> QED
    BY <1>2, <1>3, <2>2, <2>3, <2>4, StepOfRoom
<1>5. CASE kind = "conflict"
  <2>1. told' = told \cup {Told(p, "conflict")}
    BY <1>1, <1>5 DEF Answer
  <2>2. /\ Refused' = Refused \cup {p.id} /\ UNCHANGED Confirmed
        /\ Premature' = Premature \/ (p.expected = version /\ Premature' = Premature \cup {p.id})
    BY <2>1, ToldIsMapped
  <2>3. p.id \notin Applied
    BY <1>1, <1>5, KnownIsApplied
  <2>4. p.id \in Refused /\ p.expected = version => p.id \in Premature
    BY <1>1, <1>2, KnownIsApplied DEF RequestIsSound, PendingIsSound
  <2>5. UNCHANGED Premature \/ (p.id \notin Refused /\ Premature' = Premature \cup {p.id})
    BY <2>2, <2>4
  <2> QED
    BY <1>2, <1>3, <2>2, <2>3, <2>5, StepOfRoom
<1>6. CASE kind \notin {"accepted", "conflict"}
  <2>1. UNCHANGED told
    BY <1>6 DEF Answer
  <2> QED
    BY <1>3, <2>1 DEF RoomVars, Confirmed, Refused, Premature, Conflicts, Undecided
<1> QED
  BY <1>4, <1>5, <1>6

\* A replayed answer is a confirmation of what was applied.
LEMMA ReplayMaps ==
  ASSUME StoreInvariant, NEW r \in Requests, Busy(r), Replayed(r), Known(requests[r].id),
         UNCHANGED rowVars
  PROVE  OneServer!Next \/ UNCHANGED RoomVars
<1>1. \E kind \in {"accepted", "refused"} : Answer(r, kind)
  BY Zenon DEF Replayed
<1> QED
  BY <1>1, AnswerMaps DEF rowVars

\* A request that goes on tells nobody anything.
LEMMA NothingIsTold ==
  ASSUME UNCHANGED <<version, table, room, receipts, told>>
  PROVE  UNCHANGED RoomVars
  BY DEF RoomVars, Applied, Confirmed, Refused, Premature, Conflicts, Undecided

\* What was told before the version moved on is told for good.
LEMMA NothingIsPremature ==
  ASSUME StoreInvariant, version' = version + 1, Conflicts' = Conflicts
  PROVE  Premature' = {}
<1>1. \A x \in Conflicts : x.expected \in 0..version /\ version \in Nat
  BY DEF Conflicts, StoreInvariant, LedgersAreSound, Words, RowIsSound
<1>2. \A x \in Conflicts : x.expected # version + 1
  BY <1>1
<1> QED
  BY <1>2 DEF Premature, Undecided

\* The batch that commits is the one server that does the command.
LEMMA CommitMaps ==
  ASSUME StoreInvariant, NEW r \in Requests, At(r, "batch"), Commit(r),
         Answer(r, "accepted") \/ Goto(r, "threw")
  PROVE  OneServer!Next
<1>1. PICK p \in Request : requests[r] = p /\ p.pc = "batch"
  BY BusyIsRequest DEF At, StoreInvariant, ClientsAreSound
<1>2. PICK n : n = p.read.next
  OBVIOUS
<1>3. /\ ~Known(p.id) /\ (Denied(p.id) => Early(p.id))
      /\ n \in Outcomes(table, p.user, p.command)
      /\ OutcomeIsSound(table, p.user, p.command, n)
  BY <1>1, <1>2, CommitIsFirst DEF Commit
<1>4. p.id \in Ids /\ p.user \in Users /\ p.command \in Commands
  BY DEF Request
<1>5. room = "open" /\ p.id \notin Applied \cup (Refused \ Premature)
  BY <1>3, KnownIsApplied DEF Commit, Fresh
<1>6. Applied' = Applied \cup {p.id}
  <2> DEFINE m == [id |-> p.id, version |-> version + 1]
  <2>1. m.id = p.id /\ receipts' = receipts \cup {m}
    BY <1>1 DEF Commit
  <2> HIDE DEF m
  <2> QED
    BY <2>1 DEF Applied
<1>7. table' = n
  BY <1>1, <1>2 DEF Commit
<1>8. room' = IF Present(table') = {} THEN "closed" ELSE "open"
  <2>1. room' = IF Closes(p) THEN "closed" ELSE "open"
    BY <1>1 DEF Commit
  <2>2. Closes(p) <=> Present(n) = {}
    BY <1>2, <1>3 DEF Closes, OutcomeIsSound
  <2> QED
    BY <1>7, <2>1, <2>2
<1>9. Confirmed' \in {Confirmed, Confirmed \cup {p.id}} /\ UNCHANGED Conflicts
  <2>1. CASE Answer(r, "accepted")
    <3>1. told' = told \cup {Told(p, "accepted")}
      BY <1>1, <2>1 DEF Answer
    <3> QED
      BY <3>1, ToldIsMapped
  <2>2. CASE Goto(r, "threw")
    BY <2>2 DEF Goto, Confirmed, Conflicts
  <2> QED
    BY <2>1, <2>2
<1>10. UNCHANGED Refused /\ Premature' = {}
  BY <1>9, NothingIsPremature DEF Refused, Commit
<1>11. \E u \in Users, c \in Commands : table' \in Outcomes(table, u, c)
  BY <1>3, <1>4, <1>7
<1> QED
  BY <1>4, <1>5, <1>6, <1>8, <1>9, <1>11, <1>10, StepOfRoom

\* Every step of an invocation is one of the server, or none.
LEMMA ServeMaps ==
  ASSUME EnoughIsRemembered, StoreInvariant, NEW r \in Requests, Serve(r)
  PROVE  OneServer!Next \/ UNCHANGED RoomVars
<1>1. CASE FindReceipt(r)
  <2>1. Busy(r) /\ UNCHANGED rowVars
    BY <1>1 DEF FindReceipt, At
  <2>2. CASE Known(requests[r].id)
    BY <1>1, <2>1, <2>2, ReplayMaps DEF FindReceipt
  <2>3. CASE ~Known(requests[r].id)
    BY <1>1, <2>1, <2>3, NothingIsTold DEF FindReceipt, Goto, rowVars
  <2> QED
    BY <2>2, <2>3
<1>2. CASE ReadRow(r)
  <2>1. Busy(r) /\ UNCHANGED rowVars
    BY <1>2 DEF ReadRow, At
  <2>2. PICK p \in Request : requests[r] = p
    BY <2>1, BusyIsRequest DEF StoreInvariant, ClientsAreSound
  <2>3. CASE Verdict(p) = "transition"
    <3>1. UNCHANGED told \/ Answer(r, "refused")
      BY <1>2, <2>2, <2>3 DEF ReadRow
    <3> QED
      BY <2>1, <3>1, NothingIsTold, AnswerMaps DEF rowVars
  <2>4. CASE Verdict(p) # "transition"
    <3>1. Answer(r, Verdict(p))
      BY <1>2, <2>2, <2>4 DEF ReadRow
    <3>2. p.id \in Ids
      BY DEF Request
    <3>3. Verdict(p) = "accepted" => Known(p.id)
      <4>1. Verdict(p) = "accepted" => p.id \in Processed
        BY DEF Verdict
      <4> QED
        BY <3>2, <4>1, KnownIsProcessed
    <3>4. Verdict(p) = "conflict" => ~Known(p.id)
      <4>1. Verdict(p) = "conflict" => room # "closed" /\ p.id \notin Processed
        BY DEF Verdict
      <4> QED
        BY <3>2, <4>1, KnownIsProcessed DEF StoreInvariant, RowIsSound
    <3> QED
      BY <2>1, <2>2, <3>1, <3>3, <3>4, AnswerMaps DEF rowVars
  <2> QED
    BY <2>3, <2>4
<1>3. CASE Batch(r)
  <2>1. CASE Commit(r) /\ (Answer(r, "accepted") \/ Goto(r, "threw"))
    BY <1>3, <2>1, CommitMaps DEF Batch
  <2>2. CASE CommitStale(r) /\ Goto(r, "lost")
    BY <2>2, NothingIsTold DEF CommitStale, Goto
  <2>3. CASE UNCHANGED rowVars /\ Goto(r, "threw")
    BY <2>3, NothingIsTold DEF Goto, rowVars
  <2> QED
    BY <1>3, <2>1, <2>2, <2>3 DEF Batch
<1>4. CASE Lost(r)
  <2>1. Busy(r) /\ UNCHANGED rowVars
    BY <1>4 DEF Lost, At
  <2>2. CASE Known(requests[r].id)
    BY <1>4, <2>1, <2>2, ReplayMaps DEF Lost
  <2>3. CASE ~Known(requests[r].id)
    <3>1. \/ \E kind \in {"refused", "conflict"} : Answer(r, kind)
          \/ UNCHANGED <<clientVars, sweep, told>>
      <4>1. Denials(requests[r]) \subseteq {"refused", "conflict"}
        BY DEF Denials
      <4> QED
        BY Zenon, <1>4, <2>3, <4>1 DEF Lost
    <3> QED
      BY <2>1, <2>3, <3>1, AnswerMaps, NothingIsTold DEF rowVars
  <2> QED
    BY <2>2, <2>3
<1>5. CASE Threw(r)
  <2>1. Busy(r) /\ UNCHANGED rowVars
    BY <1>5 DEF Threw, At
  <2>2. CASE Known(requests[r].id)
    BY <1>5, <2>1, <2>2, ReplayMaps DEF Threw
  <2>3. CASE ~Known(requests[r].id)
    BY <1>5, <2>1, <2>3, AnswerMaps DEF Threw, rowVars
  <2> QED
    BY <2>2, <2>3
<1>6. CASE Crash(r)
  BY <1>6, NothingIsTold DEF Crash, rowVars
<1> QED
  BY <1>1, <1>2, <1>3, <1>4, <1>5, <1>6 DEF Serve

\* A room that is closed by maintenance is a lobby: somebody is at a table
\* that is open.
LEMMA MaintainMaps ==
  ASSUME StoreInvariant, Maintain
  PROVE  OneServer!Next \/ UNCHANGED RoomVars
<1>1. UNCHANGED told
  BY DEF Maintain, ReadSweep, CloseRoom, AbandonSweep
<1>2. CASE UNCHANGED rowVars
  BY <1>1, <1>2, NothingIsTold DEF rowVars
<1>3. CASE /\ room = "open" /\ room' = "closed" /\ Deserted /\ version' = version + 1
           /\ UNCHANGED <<table, receipts>>
  <2>1. table.phase = "lobby"
    BY <1>3 DEF Deserted, StoreInvariant, RowIsSound
  <2>2. UNCHANGED <<Applied, Confirmed, Conflicts>>
    BY <1>1, <1>3 DEF Applied, Confirmed, Conflicts
  <2>3. UNCHANGED Refused /\ Premature' = {}
    BY <1>3, <2>2, NothingIsPremature DEF Refused
  <2> QED
    BY <1>3, <2>1, <2>2, <2>3, StepOfRoom
<1> QED
  BY <1>2, <1>3 DEF Maintain, ReadSweep, CloseRoom, AbandonSweep

-----------------------------------------------------------------------------
\* The many invocations together keep what one server would, whatever races,
\* is retried, is lost or crashes: a command is applied at most once, to the
\* table as it then is, and what its client is told of it is true.
THEOREM StoreImplementsRoom ==
  ASSUME EnoughIsRemembered
  PROVE  Spec => ImplementsRoom
<1>1. Init => OneServer!Init
  BY DEF Init, OneServer!Init, Conflicts
<1>2. ASSUME StoreInvariant, [Next]_vars
      PROVE  [OneServer!Next]_OneServer!vars
  <2>1. ASSUME UNCHANGED vars
        PROVE  UNCHANGED RoomVars
    BY <2>1, NothingIsTold DEF vars, rowVars
  <2>2. ASSUME NEW u \in Users, Client(u)
        PROVE  UNCHANGED RoomVars
    BY <2>2, NothingIsTold DEF Client, Compose, Send, GiveUp, rowVars
  <2>3. OneServer!Next \/ UNCHANGED RoomVars
    BY <1>2, <2>1, <2>2, ServeMaps, MaintainMaps DEF Next
  <2>4. UNCHANGED RoomVars => UNCHANGED OneServer!vars
    BY DEF RoomVars, Applied, Confirmed, Refused, Premature, OneServer!vars
  <2> QED
    BY <2>3, <2>4
<1>3. StoreInvariant /\ [Next]_vars => [OneServer!Next]_OneServer!vars
  BY <1>2
<1> QED
  BY <1>1, <1>3, StoreIsSound, PTL DEF Spec, ImplementsRoom, OneServer!Spec
=============================================================================
