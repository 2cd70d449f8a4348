------------------------ MODULE RoomLifecycleProofs ------------------------
(***************************************************************************)
(* The clock of a room, for any number of users and invocations, however   *)
(* long the times are that the policies know.                              *)
(***************************************************************************)
EXTENDS RoomLifecycle, RosterProofs

-----------------------------------------------------------------------------
(***************************************************************************)
(* The invariant.  What the rows say of a member is behind the truth by no *)
(* more than an invocation takes: a command that is to be accepted has     *)
(* said before that its actor is there, and whoever has left and come back *)
(* since has made it stale.                                                *)
(***************************************************************************)
IsCommand(q) == q.pc \in {"touch", "policy", "batch"}
Stands(q) == IsCommand(q) /\ q.command.type # "join" /\ q.fresh /\ room = "open"

RequestIsSound(q) ==
  /\ IsCommand(q) => q.command \in Commands
  /\ Stands(q) => q.user \in Present(table)
  /\ Stands(q) /\ q.pc # "touch" => contact[q.user] <= q.age

RequestsAreSound == \A r \in Requests, q \in RequestType : requests[r] = q => RequestIsSound(q)

SeenIsClose == \A u \in Users : seen[u] <= contact[u] + Latency

RowIsSound ==
  /\ scenario \in Scenarios
  /\ LobbyIsPlain(table) /\ SeatsApart(table)
  /\ room = "open" => SeenIsClose

LifeInvariant == TypeOK /\ RowIsSound /\ RequestsAreSound

-----------------------------------------------------------------------------
(***************************************************************************)
(* Times.                                                                  *)
(***************************************************************************)
\* The lifecycle's assumptions are those of the rosters.
LEMMA RosterAssumed ==
  RosterAssumption
  BY LifecycleAssumption DEF LifecycleAssumption, RosterAssumption

\* The bounds, as numbers.
LEMMA Bounds ==
  /\ {Disconnected, Removable, CloseAfter, Cadence, Latency, Horizon} \subseteq Nat
  /\ 0 < Disconnected /\ Disconnected <= Removable
  /\ Latency <= Horizon /\ Ages \subseteq Nat /\ Unmarked \notin Ages
  /\ 0..Latency \subseteq Ages /\ 0 \in Ages /\ Horizon \in Ages
  BY LifecycleAssumption DEF LifecycleAssumption, Horizon, Larger, Ages, Unmarked

\* What grows older stays an age, and in step with what is older still.
LEMMA OlderIsAnAge ==
  /\ \A a \in Ages : Older(a) \in Ages
  /\ Older(Unmarked) = Unmarked
  /\ \A a, b \in Ages : a <= b + Latency => Older(a) <= Older(b) + Latency
  /\ \A a \in Ages, n \in Nat : a <= n => Older(a) <= n + 1
  BY Bounds DEF Older, Smaller, Ages

\* The smaller of two ages is one.
LEMMA SmallerIsAnAge ==
  ASSUME NEW a \in Ages, NEW b \in 0..Latency
  PROVE  /\ Smaller(a, b) \in Ages /\ Smaller(a, b) <= a /\ Smaller(a, b) <= b
         /\ b <= Smaller(a, b) + Latency
         /\ a <= b => Smaller(a, b) = a
  BY Bounds DEF Smaller

\* The time from which a lobby counts as unattended is an age.
LEMMA DueIsAnAge ==
  ASSUME TypeOK, Present(table) # {}, NEW age \in 0..Latency
  PROVE  Due(age) \in Ages
<1> DEFINE S == {seen[u] : u \in Present(table)}
           last == CHOOSE s \in S : \A u \in Present(table) : s <= seen[u]
<1>1. seen \in [Users -> Ages] /\ Present(table) \subseteq Users
  BY Members DEF TypeOK
<1>2. S \in SUBSET Nat /\ S \subseteq Ages /\ S # {}
  BY <1>1, Bounds
<1>3. \E s \in S : \A n \in S : s <= n
  <2> HIDE DEF S
  <2> QED
    BY <1>2, LeastOf
<1>4. \E s \in S : \A u \in Present(table) : s <= seen[u]
  BY <1>3
<1> HIDE DEF S
<1>5. last \in Ages
  BY <1>2, <1>4
<1>6. Due(age) = Larger(age, last - Disconnected)
  BY DEF Due, S
<1> HIDE DEF last
<1> QED
  BY <1>5, <1>6, Bounds DEF Larger, Ages

-----------------------------------------------------------------------------
(***************************************************************************)
(* Requests.                                                               *)
(***************************************************************************)
\* A request is not idle.
LEMMA IdleIsNone ==
  Idle \notin RequestType
  BY DEF Idle, RequestType

\* Whoever is busy is a request.
LEMMA BusyIsRequest ==
  ASSUME TypeOK, RequestsAreSound, NEW r \in Requests, Busy(r)
  PROVE  requests[r] \in RequestType /\ RequestIsSound(requests[r])
  BY DEF TypeOK, RequestsAreSound, Busy, At, Idle

\* Contact that stays becomes no less close.
LEMMA ContactStands ==
  ASSUME TypeOK, UNCHANGED contact
  PROVE  contact' \in [Users -> Ages] /\ \A u \in Users : contact'[u] <= contact[u]
<1>1. contact \in [Users -> Ages] /\ contact' = contact
  BY DEF TypeOK
<1>2. \A u \in Users : contact[u] \in Nat
  BY <1>1, Bounds
<1>3. \A u \in Users : contact[u] <= contact[u]
  BY <1>2
<1> QED
  BY <1>1, <1>3

\* One request moves on while the room stays as it is; contact may only
\* become closer.
LEMMA OneMoves ==
  ASSUME TypeOK, RequestsAreSound, NEW r \in Requests, NEW x,
         x = Idle \/ (x \in RequestType /\ RequestIsSound(x)'),
         requests' = [requests EXCEPT ![r] = x],
         UNCHANGED <<table, room>>, contact' \in [Users -> Ages],
         \A u \in Users : contact'[u] <= contact[u]
  PROVE  requests' \in [Requests -> RequestType \cup {Idle}] /\ RequestsAreSound'
<1>1. requests' \in [Requests -> RequestType \cup {Idle}]
  BY DEF TypeOK
<1>2. ASSUME NEW s \in Requests, NEW q \in RequestType, requests'[s] = q
      PROVE  RequestIsSound(q)'
  <2>1. CASE s = r
    BY <1>2, <2>1, IdleIsNone DEF TypeOK
  <2>2. CASE s # r
    <3>1. requests[s] = q /\ RequestIsSound(q)
      BY <1>2, <2>2 DEF TypeOK, RequestsAreSound
    <3>2. q.user \in Users /\ q.age \in Nat
      BY Bounds DEF RequestType
    <3>3. contact[q.user] \in Nat /\ contact'[q.user] \in Nat
      BY <3>2, Bounds DEF TypeOK
    <3> QED
      BY <3>1, <3>2, <3>3 DEF RequestIsSound, Stands, IsCommand, Present
  <2> QED
    BY <2>1, <2>2
<1> QED
  BY <1>1, <1>2 DEF RequestsAreSound

\* The version changes: whoever is left has read an old one.
LEMMA OthersAreStale ==
  ASSUME TypeOK, RequestsAreSound, NEW r \in Requests, EndWithNewVersion(r)
  PROVE  requests' \in [Requests -> RequestType \cup {Idle}] /\ RequestsAreSound'
<1> DEFINE Old(q) == [q EXCEPT !.fresh = FALSE]
<1>1. \A q \in RequestType : /\ Old(q) \in RequestType /\ Old(q).fresh = FALSE
                              /\ Old(q).pc = q.pc /\ Old(q).command = q.command
  BY DEF RequestType
<1>2. requests' = [s \in Requests |-> IF s = r \/ ~Busy(s) THEN Idle ELSE Old(requests[s])]
  BY DEF EndWithNewVersion
<1> HIDE DEF Old
<1>3. \A s \in Requests : Busy(s) => requests[s] \in RequestType /\ RequestIsSound(requests[s])
  BY BusyIsRequest
<1>4. requests' \in [Requests -> RequestType \cup {Idle}]
  BY <1>1, <1>2, <1>3
<1>5. ASSUME NEW s \in Requests, NEW q \in RequestType, requests'[s] = q
      PROVE  RequestIsSound(q)'
  <2>1. Busy(s) /\ q = Old(requests[s])
    BY <1>2, <1>5, IdleIsNone
  <2>2. q.fresh = FALSE /\ (IsCommand(q) => q.command \in Commands)
    BY <1>1, <1>3, <2>1 DEF RequestIsSound, IsCommand
  <2> QED
    BY <2>2 DEF RequestIsSound, Stands, IsCommand
<1> QED
  BY <1>4, <1>5 DEF RequestsAreSound

\* An invocation ends, and nothing else of it remains.
LEMMA EndMoves ==
  ASSUME TypeOK, RequestsAreSound, NEW r \in Requests, End(r),
         UNCHANGED <<table, room>>, contact' \in [Users -> Ages],
         \A u \in Users : contact'[u] <= contact[u]
  PROVE  requests' \in [Requests -> RequestType \cup {Idle}] /\ RequestsAreSound'
  BY OneMoves DEF End

\* An invocation is at another place.
LEMMA GotoMoves ==
  ASSUME TypeOK, RequestsAreSound, NEW r \in Requests, NEW pc, Goto(r, pc), Busy(r),
         pc \in {"policy", "batch"}, IsCommand(requests[r]),
         Stands(requests[r]) => contact'[requests[r].user] <= requests[r].age,
         UNCHANGED <<table, room>>, contact' \in [Users -> Ages],
         \A u \in Users : contact'[u] <= contact[u]
  PROVE  requests' \in [Requests -> RequestType \cup {Idle}] /\ RequestsAreSound'
<1>1. PICK q : q = requests[r]
  OBVIOUS
<1>2. q \in RequestType /\ RequestIsSound(q)
  BY <1>1, BusyIsRequest
<1>3. PICK x : x = [q EXCEPT !.pc = pc]
  OBVIOUS
<1>4. /\ x \in RequestType /\ x.pc = pc /\ x.command = q.command /\ x.user = q.user
      /\ x.age = q.age /\ x.fresh = q.fresh
  BY <1>2, <1>3 DEF RequestType
<1>5. requests' = [requests EXCEPT ![r] = x]
  BY <1>1, <1>3 DEF Goto
<1>6. RequestIsSound(x)'
  BY <1>1, <1>2, <1>4 DEF RequestIsSound, Stands, IsCommand, Present
<1> QED
  BY <1>4, <1>5, <1>6, OneMoves

\* The row stays sound as long as it stays.
LEMMA RowStands ==
  ASSUME RowIsSound, UNCHANGED <<scenario, table, room, seen, contact>>
  PROVE  RowIsSound'
  BY DEF RowIsSound, LobbyIsPlain, SeatsApart, SeenIsClose, Present, Playing

\* To be seen by a request of that age.
LEMMA TouchIsSound ==
  ASSUME TypeOK, RowIsSound, NEW u \in Users, NEW age \in 0..Latency, Touch(u, age),
         UNCHANGED <<scenario, table, room>>
  PROVE  /\ seen' \in [Users -> Ages] /\ contact' \in [Users -> Ages]
         /\ RowIsSound'
         /\ \A v \in Users : contact'[v] <= contact[v]
         /\ contact'[u] <= age
<1>1. seen \in [Users -> Ages] /\ contact \in [Users -> Ages] /\ age \in Ages
  BY Bounds DEF TypeOK
<1>2. seen' = [seen EXCEPT ![u] = age] /\ contact' = [contact EXCEPT ![u] = Smaller(contact[u], age)]
  BY DEF Touch
<1>3. PICK c : c = Smaller(contact[u], age)
  OBVIOUS
<1>4. c \in Ages /\ c <= contact[u] /\ c <= age /\ age <= c + Latency
  BY <1>1, <1>3, SmallerIsAnAge
<1>5. /\ seen' \in [Users -> Ages] /\ contact' \in [Users -> Ages]
      /\ seen'[u] = age /\ contact'[u] = c
      /\ \A v \in Users : v # u => seen'[v] = seen[v] /\ contact'[v] = contact[v]
  BY <1>1, <1>2, <1>3, <1>4
<1>6. SeenIsClose => SeenIsClose'
  BY <1>4, <1>5 DEF SeenIsClose
<1>7. RowIsSound'
  BY <1>6 DEF RowIsSound, LobbyIsPlain, SeatsApart, Present, Playing
<1>8. \A v \in Users : contact[v] \in Nat
  BY <1>1, Bounds
<1> QED
  BY <1>4, <1>5, <1>7, <1>8

-----------------------------------------------------------------------------
(***************************************************************************)
(* The steps.                                                              *)
(***************************************************************************)
\* An invocation begins.
LEMMA ArriveIsSound ==
  ASSUME LifeInvariant, UNCHANGED scenario, NEW r \in Requests, Arrive(r)
  PROVE  LifeInvariant'
<1> USE DEF LifeInvariant
<1>1. UNCHANGED <<table, room, since, seen, contact>> /\ gate' \in {gate, 0}
  BY DEF Arrive, Beat, Command, Sweep, rowVars
<1>2. /\ scenario.users \subseteq Users /\ scenario.offered \subseteq Commands
      /\ table \in Rosters /\ since \in Ages \cup {Unmarked}
  BY LifecycleAssumption DEF LifecycleAssumption, RowIsSound, TypeOK
<1>3. RowIsSound'
  BY <1>1, RowStands
<1>4. ASSUME NEW x \in RequestType, RequestIsSound(x), requests' = [requests EXCEPT ![r] = x]
      PROVE  requests' \in [Requests -> RequestType \cup {Idle}] /\ RequestsAreSound'
  <2>1. RequestIsSound(x)'
    BY <1>1, <1>4 DEF RequestIsSound, Stands, IsCommand, Present
  <2>2. contact' \in [Users -> Ages] /\ \A u \in Users : contact'[u] <= contact[u]
    BY <1>1, ContactStands
  <2> QED
    BY <1>1, <1>4, <2>1, <2>2, OneMoves
<1>5. /\ gate' \in 0..Cadence
      /\ requests' \in [Requests -> RequestType \cup {Idle}] /\ RequestsAreSound'
      => LifeInvariant'
  BY <1>1, <1>3 DEF TypeOK
<1>6. gate' \in 0..Cadence
  <2>1. Cadence \in Nat /\ gate \in 0..Cadence
    BY Bounds DEF TypeOK
  <2> QED
    BY <1>1, <2>1
<1>7. ASSUME NEW u \in Users, Beat(u, r)
      PROVE  LifeInvariant'
  <2>1. Request("beat", u, NoCommand) \in RequestType
    BY Bounds DEF Request, RequestType, NoCommand
  <2>2. RequestIsSound(Request("beat", u, NoCommand))
    BY DEF Request, RequestIsSound, Stands, IsCommand
  <2> QED
    BY <1>4, <1>5, <1>6, <1>7, <2>1, <2>2 DEF Beat, Start
<1>8. ASSUME NEW u \in Users, NEW c \in Commands, Command(u, c, r)
      PROVE  LifeInvariant'
  <2>1. /\ Request("batch", u, c) \in RequestType /\ Request("touch", u, c) \in RequestType
    BY Bounds DEF Request, RequestType
  <2>2. /\ c.type = "join" => RequestIsSound(Request("batch", u, c))
        /\ u \in Present(table) => RequestIsSound(Request("touch", u, c))
    BY DEF Request, RequestIsSound, Stands, IsCommand
  <2> QED
    BY <1>4, <1>5, <1>6, <1>8, <2>1, <2>2 DEF Command, Start
<1>9. CASE Sweep(r)
  <2>1. PICK x : x = [Request("sweep", table.host, [type |-> table.phase]) EXCEPT !.was = since]
    OBVIOUS
  <2>2. x = [pc |-> "sweep", user |-> table.host, command |-> [type |-> table.phase], age |-> 0,
             fresh |-> TRUE, due |-> Unmarked, was |-> since]
    BY <2>1 DEF Request
  <2>3. table.host \in Users /\ table.phase \in {"lobby", "playing", "complete"}
    BY <1>2 DEF Rosters
  <2>4. x \in RequestType
    BY <1>2, <2>2, <2>3, Bounds DEF RequestType
  <2>5. RequestIsSound(x)
    BY <2>2 DEF RequestIsSound, Stands, IsCommand
  <2>6. CASE room = "open" /\ Candidate
    BY <1>4, <1>5, <1>6, <1>9, <2>1, <2>4, <2>5, <2>6 DEF Sweep, Start
  <2>7. CASE UNCHANGED requests
    <3>1. RequestsAreSound'
      BY <1>1, <2>7 DEF RequestsAreSound, RequestIsSound, Stands, IsCommand, Present
    <3> QED
      BY <1>5, <1>6, <2>7, <3>1 DEF TypeOK
  <2> QED
    BY <1>9, <2>6, <2>7 DEF Sweep
<1> QED
  BY <1>2, <1>7, <1>8, <1>9 DEF Arrive

\* A heartbeat is written, an actor is seen, or nothing is.
LEMMA SeenIsSound ==
  ASSUME LifeInvariant, UNCHANGED scenario, NEW r \in Requests, FinishBeat(r) \/ TouchActor(r)
  PROVE  LifeInvariant'
<1> USE DEF LifeInvariant
<1>1. Busy(r)
  BY DEF FinishBeat, TouchActor, At, Busy
<1>2. PICK q \in RequestType : q = requests[r] /\ RequestIsSound(q)
  BY <1>1, BusyIsRequest
<1>3. q.user \in Users /\ q.age \in 0..Latency
  BY <1>2 DEF RequestType
<1>4. /\ UNCHANGED <<table, room, gate>>
      /\ since' \in {since, Unmarked}
      /\ IF room = "open" /\ q.user \in Present(table)
         THEN Touch(q.user, q.age) ELSE UNCHANGED <<seen, contact>>
  BY <1>2 DEF FinishBeat, TouchActor, rowVars
<1>5. /\ seen' \in [Users -> Ages] /\ contact' \in [Users -> Ages] /\ RowIsSound'
      /\ \A v \in Users : contact'[v] <= contact[v]
      /\ room = "open" /\ q.user \in Present(table) => contact'[q.user] <= q.age
  <2>1. CASE ~(room = "open" /\ q.user \in Present(table))
    <3>1. UNCHANGED <<seen, contact>>
      BY <1>4, <2>1
    <3>2. \A v \in Users : contact[v] \in Nat
      BY Bounds DEF TypeOK
    <3> QED
      BY <1>4, <2>1, <3>1, <3>2, RowStands DEF TypeOK
  <2>2. CASE room = "open" /\ q.user \in Present(table)
    BY <1>3, <1>4, <2>2, TouchIsSound
  <2> QED
    BY <2>1, <2>2
<1>6. requests' \in [Requests -> RequestType \cup {Idle}] /\ RequestsAreSound'
  <2>1. CASE FinishBeat(r)
    BY <1>4, <1>5, <2>1, EndMoves DEF FinishBeat
  <2>2. CASE TouchActor(r)
    <3>1. PICK pc \in {"policy", "batch"} : Goto(r, pc)
      BY <2>2 DEF TouchActor
    <3>2. IsCommand(q) /\ (Stands(q) => contact'[q.user] <= q.age)
      BY <1>2, <1>5, <2>2 DEF TouchActor, At, IsCommand, Stands, RequestIsSound
    <3> QED
      BY <1>1, <1>2, <1>4, <1>5, <3>1, <3>2, GotoMoves
  <2> QED
    BY <2>1, <2>2
<1> QED
  BY <1>4, <1>5, <1>6 DEF TypeOK

\* The policy refuses, or lets a command on to its batch.
LEMMA PolicyIsSound ==
  ASSUME LifeInvariant, UNCHANGED scenario, NEW r \in Requests, CheckPolicy(r)
  PROVE  LifeInvariant'
<1> USE DEF LifeInvariant
<1>1. Busy(r) /\ At(r, "policy") /\ Goto(r, "batch")
      /\ UNCHANGED <<table, room, since, seen, gate, contact>>
  BY DEF CheckPolicy, At, Busy, rowVars
<1>2. PICK q \in RequestType : q = requests[r] /\ RequestIsSound(q) /\ q.pc = "policy"
  BY <1>1, BusyIsRequest DEF At
<1>3. contact' \in [Users -> Ages] /\ \A v \in Users : contact'[v] <= contact[v]
  BY <1>1, ContactStands
<1>4. IsCommand(q) /\ (Stands(q) => contact'[q.user] <= q.age)
  BY <1>1, <1>2 DEF IsCommand, RequestIsSound
<1>5. requests' \in [Requests -> RequestType \cup {Idle}] /\ RequestsAreSound'
  BY <1>1, <1>2, <1>3, <1>4, GotoMoves
<1> QED
  BY <1>1, <1>5, RowStands DEF TypeOK

\* Whoever ends without a batch leaves everything as it is.
LEMMA DropIsSound ==
  ASSUME LifeInvariant, UNCHANGED scenario, NEW r \in Requests, Drop(r)
  PROVE  LifeInvariant'
<1> USE DEF LifeInvariant
<1>1. End(r) /\ UNCHANGED <<table, room, since, seen, gate, contact>>
  BY DEF Drop, rowVars
<1>2. contact' \in [Users -> Ages] /\ \A v \in Users : contact'[v] <= contact[v]
  BY <1>1, ContactStands
<1>3. requests' \in [Requests -> RequestType \cup {Idle}] /\ RequestsAreSound'
  BY <1>1, <1>2, EndMoves
<1> QED
  BY <1>1, <1>3, RowStands DEF TypeOK

\* Who is at the table is still seen, whoever joins is seen, and a command
\* that was accepted is one of somebody who has been seen.
LEMMA CommitIsSound ==
  ASSUME LifeInvariant, UNCHANGED scenario, NEW r \in Requests, Commit(r)
  PROVE  LifeInvariant'
<1> USE DEF LifeInvariant
<1>1. PICK q \in RequestType : q = requests[r] /\ RequestIsSound(q) /\ q.pc = "batch"
  BY BusyIsRequest DEF Commit, At, Busy
<1>2. PICK n : n = table'
  OBVIOUS
<1>3. /\ room = "open" /\ q.fresh
      /\ n \in Outcomes(table, q.user, q.command)
      /\ room' \in {"open", "empty"} /\ since' = Unmarked /\ UNCHANGED gate
      /\ EndWithNewVersion(r)
  BY <1>1, <1>2 DEF Commit, Current
<1>4. /\ seen' = SeenAfter(n, q)
      /\ contact' = [u \in Users |->
           IF u \notin Present(n) THEN Horizon
           ELSE IF u = q.user THEN Smaller(contact[u], q.age) ELSE contact[u]]
  BY <1>1, <1>2 DEF Commit
<1>5. q.user \in Users /\ q.age \in 0..Latency /\ q.command \in Commands
  BY <1>1 DEF RequestType, RequestIsSound, IsCommand
<1>6. /\ OutcomeIsSound(table, q.user, q.command, n)
      /\ OutcomeIsOrderly(table, q.user, q.command, n)
  BY <1>3, <1>5, RosterAssumed, OutcomesAreSound, OutcomesAreOrderly DEF TypeOK, RowIsSound
<1>7. n \in Rosters /\ LobbyIsPlain(n) /\ SeatsApart(n)
  BY <1>6 DEF OutcomeIsSound, OutcomeIsOrderly, RowIsSound
<1>8. ASSUME NEW u \in Users
      PROVE  /\ seen'[u] \in Ages /\ contact'[u] \in Ages
             /\ seen'[u] <= contact'[u] + Latency
  <2>1. seen[u] \in Ages /\ contact[u] \in Ages /\ seen[u] <= contact[u] + Latency
    BY <1>3 DEF TypeOK, RowIsSound, SeenIsClose
  <2>2. seen'[u] = IF u \notin Present(n) THEN Horizon
                   ELSE IF u = q.user /\ q.command.type = "join" THEN q.age ELSE seen[u]
    BY <1>4 DEF SeenAfter
  <2>3. contact'[u] = IF u \notin Present(n) THEN Horizon
                      ELSE IF u = q.user THEN Smaller(contact[u], q.age) ELSE contact[u]
    BY <1>4
  <2>4. CASE u \notin Present(n)
    BY <2>2, <2>3, <2>4, Bounds
  <2>5. CASE u \in Present(n) /\ u # q.user
    BY <2>1, <2>2, <2>3, <2>5
  <2>6. CASE u \in Present(n) /\ u = q.user /\ q.command.type = "join"
    <3>1. seen'[u] = q.age /\ contact'[u] = Smaller(contact[u], q.age)
      BY <2>2, <2>3, <2>6
    <3>2. q.age \in Ages
      BY <1>5, Bounds
    <3> QED
      BY <1>5, <2>1, <3>1, <3>2, SmallerIsAnAge
  <2>7. CASE u \in Present(n) /\ u = q.user /\ q.command.type # "join"
    <3>1. contact[u] <= q.age
      BY <1>1, <1>3, <2>7 DEF RequestIsSound, Stands, IsCommand
    <3>2. contact'[u] = contact[u]
      BY <1>5, <2>1, <2>3, <2>7, <3>1, SmallerIsAnAge
    <3> QED
      BY <2>1, <2>2, <2>7, <3>2
  <2> QED
    BY <2>4, <2>5, <2>6, <2>7
<1>9. seen' \in [Users -> Ages] /\ contact' \in [Users -> Ages]
  BY <1>4, <1>8 DEF SeenAfter
<1>10. RowIsSound'
  <2>1. SeenIsClose'
    BY <1>8 DEF SeenIsClose
  <2> QED
    BY <1>2, <1>7, <2>1 DEF RowIsSound, LobbyIsPlain, SeatsApart, Present, Playing
<1>11. requests' \in [Requests -> RequestType \cup {Idle}] /\ RequestsAreSound'
  BY <1>3, OthersAreStale
<1> QED
  BY <1>2, <1>3, <1>7, <1>9, <1>10, <1>11 DEF TypeOK

\* What a maintenance pass decides is a place for it, with an age or none.
LEMMA DecisionIsOne ==
  ASSUME TypeOK, NEW q \in RequestType
  PROVE  /\ Decision(q).pc \in {"none", "close", "clear", "mark"}
         /\ Decision(q).due \in Ages \cup {Unmarked}
<1>1. q.age \in 0..Latency /\ q.age \in Ages /\ q.was \in Ages \cup {Unmarked}
  BY Bounds DEF RequestType
<1>2. CASE Present(table) = {}
  BY <1>1, <1>2 DEF Decision
<1>3. CASE Present(table) # {}
  <2>1. Due(q.age) \in Ages
    BY <1>1, <1>3, DueIsAnAge
  <2> QED
    BY <1>1, <1>3, <2>1 DEF Decision
<1> QED
  BY <1>2, <1>3

\* Maintenance reads presence, marks a lobby, clears its mark, or closes it.
LEMMA MaintainIsSound ==
  ASSUME LifeInvariant, UNCHANGED scenario, NEW r \in Requests, Maintain(r)
  PROVE  LifeInvariant'
<1> USE DEF LifeInvariant
<1>1. UNCHANGED <<table, gate, contact>>
  BY DEF Maintain, Decide, Mark, Clear, Close, rowVars
<1>2. contact' \in [Users -> Ages] /\ \A v \in Users : contact'[v] <= contact[v]
  BY <1>1, ContactStands
<1>3. PICK q \in RequestType : q = requests[r] /\ RequestIsSound(q) /\ Busy(r) /\ ~IsCommand(q)
  BY BusyIsRequest DEF Maintain, Decide, Mark, Clear, Close, At, Busy, IsCommand
<1>4. q.due \in Ages \cup {Unmarked}
  BY <1>3 DEF RequestType
<1>5. ASSUME UNCHANGED <<room, seen>>, since' \in {since, Unmarked, q.due},
             requests' \in [Requests -> RequestType \cup {Idle}], RequestsAreSound'
      PROVE  LifeInvariant'
  <2>1. RowIsSound'
    BY <1>1, <1>5, RowStands
  <2> QED
    BY <1>1, <1>4, <1>5, <2>1 DEF TypeOK
<1>6. ASSUME UNCHANGED <<room, seen>>, since' \in {since, Unmarked, q.due}, End(r)
      PROVE  LifeInvariant'
  BY <1>1, <1>2, <1>5, <1>6, EndMoves
<1>7. CASE Decide(r)
  <2>1. PICK d : d = Decision(q)
    OBVIOUS
  <2>2. d.pc \in {"none", "close", "clear", "mark"} /\ d.due \in Ages \cup {Unmarked}
    BY <2>1, DecisionIsOne
  <2>3. PICK x : x = [q EXCEPT !.pc = d.pc, !.due = d.due]
    OBVIOUS
  <2>4. UNCHANGED <<room, since, seen>> /\ (End(r) \/ requests' = [requests EXCEPT ![r] = x])
    BY <1>3, <1>7, <2>1, <2>3 DEF Decide, rowVars
  <2>5. CASE d.pc # "none" /\ requests' = [requests EXCEPT ![r] = x]
    <3>1. x \in RequestType /\ x.pc = d.pc
      BY <1>3, <2>2, <2>3, <2>5 DEF RequestType
    <3>2. RequestIsSound(x)'
      BY <2>2, <2>5, <3>1 DEF RequestIsSound, Stands, IsCommand
    <3> QED
      BY <1>1, <1>2, <1>5, <2>4, <2>5, <3>1, <3>2, OneMoves
  <2>6. CASE End(r)
    BY <1>6, <2>4, <2>6
  <2> QED
    BY <1>3, <1>7, <2>1, <2>3, <2>5, <2>6 DEF Decide
<1>8. CASE Mark(r)
  BY <1>3, <1>6, <1>8 DEF Mark
<1>9. CASE Clear(r)
  BY <1>6, <1>9 DEF Clear
<1>10. CASE Close(r) /\ MayClose(r)
  <2>1. /\ room' \in {"empty", "abandoned"} /\ since' = Unmarked
        /\ seen' = [u \in Users |-> Horizon] /\ EndWithNewVersion(r)
    BY <1>10 DEF Close
  <2>2. requests' \in [Requests -> RequestType \cup {Idle}] /\ RequestsAreSound'
    BY <2>1, OthersAreStale
  <2>3. seen' \in [Users -> Ages]
    BY <2>1, Bounds
  <2>4. RowIsSound'
    BY <1>1, <2>1 DEF RowIsSound, LobbyIsPlain, SeatsApart, Present, Playing
  <2> QED
    BY <1>1, <1>2, <2>1, <2>2, <2>3, <2>4 DEF TypeOK
<1>11. CASE Close(r) /\ ~MayClose(r)
  BY <1>6, <1>11 DEF Close
<1> QED
  BY <1>7, <1>8, <1>9, <1>10, <1>11 DEF Maintain

\* Everything is a unit older.
LEMMA TickIsSound ==
  ASSUME LifeInvariant, UNCHANGED scenario, Tick
  PROVE  LifeInvariant'
<1> USE DEF LifeInvariant
<1> DEFINE Aged(q) == [q EXCEPT !.age = @ + 1, !.due = Older(@), !.was = Older(@)]
<1>1. /\ UNCHANGED <<table, room>>
      /\ since' = Older(since)
      /\ seen' = [u \in Users |-> Older(seen[u])]
      /\ contact' = [u \in Users |-> Older(contact[u])]
      /\ gate' = Smaller(gate + 1, Cadence)
      /\ requests' = [r \in Requests |-> IF Busy(r) THEN Aged(requests[r]) ELSE Idle]
  BY DEF Tick
<1>2. \A r \in Requests : Busy(r) => requests[r].age < Latency
  BY DEF Tick
<1>3. ASSUME NEW q \in RequestType, q.age < Latency
      PROVE  /\ Aged(q) \in RequestType /\ Aged(q).age = q.age + 1
             /\ Aged(q).pc = q.pc /\ Aged(q).command = q.command
             /\ Aged(q).user = q.user /\ Aged(q).fresh = q.fresh
  <2>1. q.age + 1 \in 0..Latency
    BY <1>3, Bounds DEF RequestType
  <2>2. Older(q.due) \in Ages \cup {Unmarked} /\ Older(q.was) \in Ages \cup {Unmarked}
    BY OlderIsAnAge DEF RequestType
  <2>3. PICK age, due, was : age = q.age + 1 /\ due = Older(q.due) /\ was = Older(q.was)
    OBVIOUS
  <2>4. Aged(q) = [q EXCEPT !.age = age, !.due = due, !.was = was]
    BY <2>3
  <2> QED
    BY <2>1, <2>2, <2>3, <2>4 DEF RequestType
<1> HIDE DEF Aged
<1>4. seen \in [Users -> Ages] /\ contact \in [Users -> Ages]
  BY DEF TypeOK
<1>5. seen' \in [Users -> Ages] /\ contact' \in [Users -> Ages]
  BY <1>1, <1>4, OlderIsAnAge
<1>6. RowIsSound'
  <2>1. SeenIsClose => SeenIsClose'
    BY <1>1, <1>4, OlderIsAnAge DEF SeenIsClose
  <2> QED
    BY <1>1, <2>1 DEF RowIsSound, LobbyIsPlain, SeatsApart, Present, Playing
<1>7. \A r \in Requests : Busy(r) => requests[r] \in RequestType /\ RequestIsSound(requests[r])
  BY BusyIsRequest
<1>8. requests' \in [Requests -> RequestType \cup {Idle}]
  BY <1>1, <1>2, <1>3, <1>7
<1>9. ASSUME NEW r \in Requests, NEW x \in RequestType, requests'[r] = x
      PROVE  RequestIsSound(x)'
  <2>1. PICK q \in RequestType : q = requests[r] /\ RequestIsSound(q) /\ q.age < Latency /\ x = Aged(q)
    BY <1>1, <1>2, <1>7, <1>9, IdleIsNone
  <2>2. /\ x.age = q.age + 1 /\ x.pc = q.pc /\ x.command = q.command
        /\ x.user = q.user /\ x.fresh = q.fresh
    BY <1>3, <2>1
  <2>3. q.user \in Users /\ q.age \in Nat
    BY Bounds DEF RequestType
  <2>4. contact[q.user] <= q.age => contact'[q.user] <= q.age + 1
    BY <1>1, <1>4, <2>3, OlderIsAnAge
  <2> QED
    BY <1>1, <2>1, <2>2, <2>4 DEF RequestIsSound, Stands, IsCommand, Present
<1>10. since' \in Ages \cup {Unmarked}
  BY <1>1, OlderIsAnAge DEF TypeOK
<1>11. gate' \in 0..Cadence
  <2>1. Cadence \in Nat /\ gate \in 0..Cadence
    BY Bounds DEF TypeOK
  <2> QED
    BY <1>1, <2>1 DEF Smaller
<1> QED
  BY <1>1, <1>5, <1>6, <1>8, <1>9, <1>10, <1>11 DEF TypeOK, RequestsAreSound

\* At first whoever is at the table has just been in touch.
LEMMA InitIsSound ==
  Init => LifeInvariant
<1> SUFFICES ASSUME Init PROVE LifeInvariant
  OBVIOUS
<1>1. /\ scenario \in Scenarios /\ table \in Rosters /\ LobbyIsPlain(table) /\ SeatsApart(table)
      /\ room = "open" /\ since = Unmarked /\ gate = Cadence /\ contact = seen
      /\ seen = [u \in Users |-> IF u \in Present(table) THEN 0 ELSE Horizon]
      /\ requests = [r \in Requests |-> Idle]
  BY LifecycleAssumption DEF LifecycleAssumption, Init
<1>2. seen \in [Users -> Ages]
  BY <1>1, Bounds
<1>3. gate \in 0..Cadence
  <2>1. Cadence \in Nat
    BY Bounds
  <2> QED
    BY <1>1, <2>1
<1>4. SeenIsClose
  <2>1. \A u \in Users : seen[u] \in Nat /\ Latency \in Nat
    BY <1>2, Bounds
  <2> QED
    BY <1>1, <2>1 DEF SeenIsClose
<1>5. RequestsAreSound
  BY <1>1, IdleIsNone DEF RequestsAreSound
<1> QED
  BY <1>1, <1>2, <1>3, <1>4, <1>5 DEF LifeInvariant, TypeOK, RowIsSound

\* A step that changes nothing keeps what was sound.
LEMMA StutterIsSound ==
  ASSUME LifeInvariant, UNCHANGED vars
  PROVE  LifeInvariant'
  BY DEF LifeInvariant, TypeOK, RowIsSound, RequestsAreSound, RequestIsSound, Stands,
         SeenIsClose, LobbyIsPlain, SeatsApart, Present, Playing, vars, moving, rowVars

\* The room is sound for ever, for any number of users and invocations.
THEOREM LifecycleIsSound ==
  Spec => []LifeInvariant
<1>1. LifeInvariant /\ [Next]_vars => LifeInvariant'
  <2> SUFFICES ASSUME LifeInvariant, [Next]_vars PROVE LifeInvariant'
    OBVIOUS
  <2>1. CASE UNCHANGED vars
    BY <2>1, StutterIsSound
  <2>2. CASE Next /\ Tick
    BY <2>2, TickIsSound DEF Next
  <2>3. ASSUME UNCHANGED scenario, NEW r \in Requests, Arrive(r) \/ Serve(r) \/ Drop(r)
        PROVE  LifeInvariant'
    BY <2>3, ArriveIsSound, SeenIsSound, PolicyIsSound, CommitIsSound, MaintainIsSound, DropIsSound
       DEF Serve
  <2> QED
    BY <2>1, <2>2, <2>3 DEF Next
<1> QED
  BY InitIsSound, <1>1, PTL DEF Spec

\* Every variable of a room keeps its type.
THEOREM LifecycleIsTyped ==
  Spec => []TypeOK
<1>1. LifeInvariant => TypeOK
  BY DEF LifeInvariant
<1> QED
  BY LifecycleIsSound, <1>1, PTL

-----------------------------------------------------------------------------
(***************************************************************************)
(* What it is for.                                                         *)
(***************************************************************************)
\* Whoever a request finds unseen has not been in touch for almost as long.
LEMMA UnseenIsOutOfTouch ==
  ASSUME LifeInvariant, room = "open", NEW u \in Users, NEW age \in 0..Latency,
         NEW time \in Nat, 0 < time, Unseen(u, age) >= time
  PROVE  contact[u] >= time - Latency
<1>1. seen[u] \in Nat /\ contact[u] \in Nat /\ Latency \in Nat
  BY Bounds DEF LifeInvariant, TypeOK
<1>2. seen[u] <= contact[u] + Latency
  BY DEF LifeInvariant, RowIsSound, SeenIsClose
<1> QED
  BY <1>1, <1>2 DEF Unseen, Larger

\* Who has been seen by now had been seen, and is connected for a request
\* that has been under way since before.
LEMMA ContendersStay ==
  ASSUME LifeInvariant, NEW age \in 0..Latency
  PROVE  Contenders(0) \subseteq Contenders(age)
<1>1. \A u \in Users : seen[u] \in Nat
  BY Bounds DEF LifeInvariant, TypeOK
<1>2. \A u \in Users : Connected(u, 0) => Connected(u, age)
  BY <1>1, Bounds DEF Connected, Unseen, Larger
<1> QED
  BY <1>2, Members DEF Contenders

\* Seats that are as far from the host's are one.
LEMMA DistanceTells ==
  ASSUME NEW s \in 0..MaxPlayers, NEW t \in 0..MaxPlayers, NEW from \in 0..MaxPlayers
  PROVE  /\ Distance(s, from) \in Nat
         /\ Distance(s, from) = Distance(t, from) => s = t
  BY LifecycleAssumption DEF LifecycleAssumption, Distance

\* What a batch writes is what the engine makes of its command, for an
\* actor that is still allowed to give it.
LEMMA CommitIsAnOutcome ==
  ASSUME LifeInvariant, NEW r \in Requests, Commit(r)
  PROVE  \E q \in RequestType :
           /\ q = requests[r] /\ q.command \in Commands /\ q.user \in Users
           /\ q.age \in 0..Latency /\ room = "open" /\ StillAllowed(q)
           /\ table' \in Outcomes(table, q.user, q.command)
           /\ OutcomeIsOrderly(table, q.user, q.command, table')
<1>1. PICK q \in RequestType : q = requests[r] /\ RequestIsSound(q) /\ q.pc = "batch"
  BY BusyIsRequest DEF LifeInvariant, Commit, At, Busy
<1>2. q.user \in Users /\ q.age \in 0..Latency /\ q.command \in Commands
  BY <1>1 DEF RequestType, RequestIsSound, IsCommand
<1>3. room = "open" /\ StillAllowed(q) /\ table' \in Outcomes(table, q.user, q.command)
  BY <1>1 DEF Commit, Current
<1>4. OutcomeIsOrderly(table, q.user, q.command, table')
  BY <1>2, <1>3, RosterAssumed, OutcomesAreOrderly DEF LifeInvariant, TypeOK, RowIsSound
<1> QED
  BY <1>1, <1>2, <1>3, <1>4

\* Only a batch changes the snapshot, and only a pass closes an attended room.
LEMMA WhoMoves ==
  ASSUME [Next]_vars
  PROVE  /\ table' # table => \E r \in Requests : Commit(r)
         /\ room = "open" /\ room' = "abandoned" => \E r \in Requests : Close(r) /\ MayClose(r)
<1>1. CASE UNCHANGED vars
  BY <1>1 DEF vars, moving, rowVars
<1>2. CASE Tick
  BY <1>2 DEF Tick
<1>3. ASSUME NEW r \in Requests, Arrive(r) \/ Serve(r) \/ Drop(r)
      PROVE  /\ table' # table => Commit(r)
             /\ room = "open" /\ room' = "abandoned" => Close(r) /\ MayClose(r)
  <2>1. CASE Arrive(r) \/ Drop(r)
    BY <2>1 DEF Arrive, Beat, Command, Sweep, Drop, rowVars
  <2>2. CASE FinishBeat(r) \/ TouchActor(r) \/ CheckPolicy(r)
    BY <2>2 DEF FinishBeat, TouchActor, CheckPolicy, rowVars
  <2>3. CASE Commit(r)
    BY <2>3 DEF Commit
  <2>4. CASE Decide(r) \/ Mark(r) \/ Clear(r) \/ Close(r)
    BY <2>4 DEF Decide, Mark, Clear, Close, rowVars
  <2> QED
    BY <1>3, <2>1, <2>2, <2>3, <2>4 DEF Serve, Maintain
<1> QED
  BY <1>1, <1>2, <1>3 DEF Next

\* Nobody's lobby is closed behind its back: whoever is present when it is
\* closed has been out of touch for the time that makes it disconnected.
THEOREM NobodyIsEverLockedOut ==
  Spec => NobodyIsLockedOut
<1> DEFINE Unattended == room = "open" /\ room' = "abandoned" =>
             \A u \in Present(table) : contact[u] >= Disconnected - Latency
<1>1. ASSUME LifeInvariant, [Next]_vars PROVE Unattended
  <2> SUFFICES ASSUME room = "open", room' = "abandoned", NEW u \in Present(table)
               PROVE  contact[u] >= Disconnected - Latency
    OBVIOUS
  <2>1. PICK r \in Requests : Close(r) /\ MayClose(r)
    BY <1>1, WhoMoves
  <2>2. PICK q \in RequestType : q = requests[r]
    BY <1>1, <2>1, BusyIsRequest DEF LifeInvariant, Close, At, Busy
  <2>3. NobodySeenSince(q.age)
    BY <2>1, <2>2 DEF MayClose
  <2>4. u \in Users /\ q.age \in 0..Latency /\ Latency \in Nat /\ Disconnected \in Nat
    BY <2>2, Members, Bounds DEF RequestType
  <2>5. seen[u] \in Nat /\ contact[u] \in Nat /\ seen[u] <= contact[u] + Latency
    BY <1>1, <2>4, Bounds DEF LifeInvariant, TypeOK, RowIsSound, SeenIsClose
  <2> QED
    BY <2>3, <2>4, <2>5 DEF NobodySeenSince
<1>2. LifeInvariant /\ [Next]_vars => [Unattended]_vars
  BY <1>1
<1> QED
  BY LifecycleIsSound, <1>2, PTL DEF Spec, NobodyIsLockedOut

\* A host who stays at the table loses it only after the grace period, and
\* to the connected member who comes next.
THEOREM HostsAreClaimedInTurn ==
  Spec => HostIsClaimedInTurn
<1> DEFINE InTurn == table'.host # table.host /\ table.host \in Present(table') =>
             /\ contact[table.host] >= Removable - Latency
             /\ \A v \in Contenders(0) : Distance(table.seat[table'.host], table.seat[table.host])
                                           <= Distance(table.seat[v], table.seat[table.host])
<1>1. ASSUME LifeInvariant, [Next]_vars PROVE InTurn
  <2> SUFFICES ASSUME table'.host # table.host, table.host \in Present(table')
               PROVE  /\ contact[table.host] >= Removable - Latency
                      /\ \A v \in Contenders(0) :
                           Distance(table.seat[table'.host], table.seat[table.host])
                             <= Distance(table.seat[v], table.seat[table.host])
    OBVIOUS
  <2>1. PICK r \in Requests : Commit(r)
    BY <1>1, WhoMoves
  <2>2. PICK q \in RequestType :
           /\ q = requests[r] /\ q.command \in Commands /\ q.user \in Users
           /\ q.age \in 0..Latency /\ room = "open" /\ StillAllowed(q)
           /\ table' \in Outcomes(table, q.user, q.command)
           /\ OutcomeIsOrderly(table, q.user, q.command, table')
    BY <1>1, <2>1, CommitIsAnOutcome
  <2>3. q.command.type = "claim" /\ table'.host = q.user
    BY <2>2 DEF OutcomeIsOrderly
  <2>4. MayClaim(q.user, q.age)
    BY <2>2, <2>3 DEF StillAllowed, PolicyAllows
  <2>5. contact[table.host] >= Removable - Latency
    BY <1>1, <2>2, <2>4, Members, Bounds, UnseenIsOutOfTouch DEF MayClaim, Away
  <2>6. \A v \in Contenders(0) : Distance(table.seat[q.user], table.seat[table.host])
                                   <= Distance(table.seat[v], table.seat[table.host])
    BY <1>1, <2>2, <2>4, ContendersStay DEF MayClaim, IsNext
  <2> QED
    BY <2>3, <2>5, <2>6
<1>2. LifeInvariant /\ [Next]_vars => [InTurn]_vars
  BY <1>1
<1> QED
  BY LifecycleIsSound, <1>2, PTL DEF Spec, HostIsClaimedInTurn

\* Whoever the host removes has been out of touch for the grace period.
THEOREM NobodyInTouchIsRemoved ==
  Spec => NobodyIsRemovedInTouch
<1> DEFINE OutOfTouch == \A r \in Requests :
             At(r, "batch") /\ requests[r].command.type = "remove" /\ ~Busy(r)' /\ table' # table =>
               contact[requests[r].command.target] >= Removable - Latency
<1>1. ASSUME LifeInvariant, [Next]_vars PROVE OutOfTouch
  <2> SUFFICES ASSUME NEW r \in Requests, At(r, "batch"), requests[r].command.type = "remove",
                      ~Busy(r)', table' # table
               PROVE  contact[requests[r].command.target] >= Removable - Latency
    OBVIOUS
  <2>1. PICK s \in Requests : Commit(s)
    BY <1>1, WhoMoves
  <2>2. s = r
    <3> SUFFICES ASSUME s # r PROVE FALSE
      OBVIOUS
    <3>1. Busy(r) /\ requests[r] \in RequestType /\ EndWithNewVersion(s)
      BY <1>1, <2>1, BusyIsRequest DEF LifeInvariant, At, Busy, Commit
    <3>2. requests'[r] = [requests[r] EXCEPT !.fresh = FALSE]
      BY <3>1 DEF EndWithNewVersion
    <3>3. requests'[r].pc = "batch"
      BY <3>1, <3>2 DEF RequestType, At
    <3> QED
      BY <3>3 DEF Busy, At
  <2>3. PICK q \in RequestType :
           /\ q = requests[r] /\ q.command \in Commands /\ q.user \in Users
           /\ q.age \in 0..Latency /\ room = "open" /\ StillAllowed(q)
    BY <1>1, <2>1, <2>2, CommitIsAnOutcome
  <2>4. MayRemove(q.user, q.command.target, q.age)
    BY <2>3 DEF StillAllowed, PolicyAllows
  <2> QED
    BY <1>1, <2>3, <2>4, Members, Bounds, UnseenIsOutOfTouch DEF MayRemove, Away
<1>2. LifeInvariant /\ [Next]_vars => [OutOfTouch]_vars
  BY <1>1
<1> QED
  BY LifecycleIsSound, <1>2, PTL DEF Spec, NobodyIsRemovedInTouch

\* A table whose host has gone away is offered to one of those who may have
\* it, because no two of them sit as far from the host.
THEOREM RecoveryIsAlwaysOfferedToOne ==
  Spec => []RecoveryIsOfferedToOne
<1>1. ASSUME LifeInvariant PROVE RecoveryIsOfferedToOne
  <2> SUFFICES ASSUME table.host \in Present(table), Away(table.host, 0), Contenders(0) # {}
               PROVE  \E u \in Users : \A v \in Users : MayClaim(v, 0) <=> v = u
    BY DEF RecoveryIsOfferedToOne
  <2> DEFINE Far(u) == Distance(table.seat[u], table.seat[table.host])
             S == {Far(u) : u \in Contenders(0)}
  <2>1. /\ Contenders(0) \subseteq Present(table) /\ Present(table) \subseteq Users
        /\ table.host \in Users /\ table.seat \in [Users -> 0..MaxPlayers]
    BY <1>1, Members DEF Contenders, LifeInvariant, TypeOK, Rosters
  <2>2. \A u \in Users : Far(u) \in Nat
    BY <2>1, DistanceTells
  <2>3. ASSUME NEW u \in Contenders(0), NEW v \in Contenders(0), Far(u) = Far(v)
        PROVE  u = v
    <3>1. table.seat[u] = table.seat[v]
      BY <2>1, <2>3, DistanceTells
    <3>2. table.status[u] # "absent" /\ table.status[v] # "absent"
      BY <2>1 DEF Present
    <3> QED
      BY <1>1, <2>1, <3>1, <3>2 DEF LifeInvariant, RowIsSound, SeatsApart
  <2>4. \A u \in Users : MayClaim(u, 0) <=>
          u \in Contenders(0) /\ \A v \in Contenders(0) : Far(u) <= Far(v)
    BY DEF MayClaim, IsNext
  <2> HIDE DEF Far
  <2>5. S \in SUBSET Nat /\ S # {}
    BY <2>1, <2>2
  <2>6. PICK u \in Contenders(0) : \A n \in S : Far(u) <= n
    <3> HIDE DEF S
    <3>1. \E m \in S : \A n \in S : m <= n
      BY <2>5, LeastOf
    <3> QED
      BY <3>1 DEF S
  <2>7. \A v \in Contenders(0) : Far(u) <= Far(v)
    BY <2>6
  <2>8. ASSUME NEW v \in Users, MayClaim(v, 0) PROVE v = u
    <3>1. v \in Contenders(0) /\ Far(v) <= Far(u)
      BY <2>4, <2>8
    <3>2. Far(v) \in Nat /\ Far(u) \in Nat /\ Far(u) <= Far(v)
      BY <2>1, <2>2, <2>7, <3>1
    <3>3. Far(v) = Far(u)
      BY <3>1, <3>2
    <3> QED
      BY <2>3, <3>1, <3>3
  <2>9. u \in Users /\ MayClaim(u, 0)
    BY <2>1, <2>4, <2>7
  <2> QED
    BY <2>8, <2>9
<1> QED
  BY LifecycleIsSound, <1>1, PTL
=============================================================================
