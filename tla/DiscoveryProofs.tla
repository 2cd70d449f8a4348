--------------------------- MODULE DiscoveryProofs ---------------------------
(***************************************************************************)
(* What Discovery promises to strangers, for any number of users, tables,  *)
(* requests and retries, and any mixture of moves.                         *)
(***************************************************************************)
EXTENDS Discovery, FiniteSetTheorems, TLAPS

Hosts == {{}} \cup {{u} : u \in Users}
Game == [room: {"none", "open", "closed"}, phase: {"lobby", "playing"}, host: Hosts,
         version: 0..MaxVersion, seated: SUBSET Users, scope: {"invite_only", "public_safe"}]
Row == {NoRow} \cup [source: Sources \ {"none"}, consent: BOOLEAN]
Listing == [state: {"none", "listed", "unlisted", "closed"}, version: Nat,
            locator: 0..MaxVersion, owner: Hosts]
Marks == Tables \X (0..MaxVersion)

Command ==
  [op: {"publish", "withdraw"}, by: Users, table: Tables]
    \cup [op: {"join"}, by: Users, at: Marks]
    \cup [op: {"quick", "look"}, by: Users]
    \cup [op: {"invite"}, by: Users, table: Tables, to: Nat \ {0}]
    \cup [op: {"accept"}, by: Users, invitation: Nat]

Invitation(ids) ==
  [id: ids, from: Users, to: Users, locator: ids, table: Tables,
   state: {"pending", "accepted", "declined", "blocked", "expired"}]

-----------------------------------------------------------------------------
(***************************************************************************)
(* The invariant, a part for each of the things a step may touch.  A       *)
(* request is known by what its command and its place in the code say that *)
(* it has read.                                                            *)
(***************************************************************************)
TriedIsSound(q) ==
  /\ q.tried \subseteq Marks /\ IsFiniteSet(q.tried)

RequestIsSound(q) ==
  \/ q = Idle
  \/ /\ q.id \in DOMAIN commands
     /\ \/ q.pc = "start" /\ TriedIsSound(q)
        \/ /\ q.pc = "read" /\ commands[q.id].op \in {"join", "quick"}
           /\ TriedIsSound(q) /\ Cardinality(q.tried) \in 1..Selections
           /\ q.mark \in Marks /\ q.mark \in q.tried /\ q.left \in 1..Attempts
        \/ /\ q.pc = "batch" /\ commands[q.id].op \in {"join", "quick"}
           /\ TriedIsSound(q) /\ Cardinality(q.tried) \in 1..Selections
           /\ q.mark \in Marks /\ q.mark \in q.tried /\ q.left \in 1..Attempts
           /\ q.saw.table \in Tables
        \/ /\ q.pc = "batch" /\ commands[q.id].op \in {"publish", "withdraw"}
           /\ q.saw.table = commands[q.id].table
        \/ q.pc = "batch" /\ commands[q.id].op = "invite" /\ q.to \in Users
        \/ q.pc = "batch" /\ commands[q.id].op \in {"look", "accept"}

WorkIsSound ==
  /\ commands \in Seq(Command)
  /\ \A r \in Requests : RequestIsSound(requests[r])
  /\ DOMAIN requests = Requests

\* a games row, its members and its listing fit together
Sound(g, m, l) ==
  /\ g \in Game /\ m \in [Users -> Row] /\ l \in Listing
  /\ g.room = "open" => g.host \subseteq g.seated
  /\ \A u \in g.seated : m[u].source # "none"
  /\ l.state = "listed" =>
       /\ g.room = "open" /\ g.phase = "lobby" /\ g.host = l.owner
       /\ \A u \in Users : m[u].source # "none" => m[u].consent
       /\ g.scope = "public_safe"

TablesAreSound ==
  /\ game \in [Tables -> Game] /\ rows \in [Tables -> [Users -> Row]]
  /\ listing \in [Tables -> Listing]
  /\ \A t \in Tables : Sound(game[t], rows[t], listing[t])

LocatorsAreCurrent ==
  \A x \in invitations : x.state = "pending" =>
    /\ looking[x.to] \in {0, x.locator}
    /\ \A y \in invitations : y.state = "pending" /\ y.table = x.table /\ y.to = x.to => y = x

LobbyIsSound ==
  /\ looking \in [Users -> 0..Len(commands)]
  /\ invitations \subseteq Invitation(DOMAIN commands)
  /\ blocks \subseteq Users \X Users
  /\ \A x, y \in invitations : x.id = y.id => x = y
  /\ LocatorsAreCurrent

ReceiptsAreSound ==
  /\ receipts \subseteq [id: DOMAIN commands, table: Tables \cup {"lobby"}]
  /\ \A x \in receipts :
       commands[x.id].op \in {"publish", "withdraw"} => x.table = commands[x.id].table
  /\ \A x, y \in receipts : x.id = y.id => x = y

\* nobody is waited for in one lobby while sitting in another
SeatedAreUninvited ==
  \A x \in invitations : x.state = "pending" => ~InOpenTable(x.to)

DiscoveryInvariant ==
  WorkIsSound /\ TablesAreSound /\ LobbyIsSound /\ SeatedAreUninvited /\ ReceiptsAreSound

-----------------------------------------------------------------------------
(***************************************************************************)
(* Commands and requests.                                                  *)
(***************************************************************************)
\* A request that moves on, and knows what it should, leaves the others alone.
LEMMA RequestsStaySound ==
  ASSUME WorkIsSound, UNCHANGED commands, NEW r \in Requests, NEW q, RequestIsSound(q),
         requests' = [requests EXCEPT ![r] = q]
  PROVE  WorkIsSound'
<1>1. \A s \in Requests : RequestIsSound(requests'[s])
  BY DEF WorkIsSound
<1>2. \A s \in Requests : RequestIsSound(requests[s])'
  BY <1>1 DEF RequestIsSound, TriedIsSound
<1> QED
  BY <1>2 DEF WorkIsSound

\* Steps that leave requests and commands alone.
LEMMA WorkIsUntouched ==
  ASSUME WorkIsSound, UNCHANGED <<commands, requests>>
  PROVE  WorkIsSound'
  BY DEF WorkIsSound, RequestIsSound, TriedIsSound

\* A request that is answered holds nothing.
LEMMA RequestEnds ==
  ASSUME WorkIsSound, UNCHANGED commands, NEW r \in Requests, Answered(r)
  PROVE  WorkIsSound'
<1>1. RequestIsSound(Idle)
  BY DEF RequestIsSound
<1> QED
  BY Zenon, <1>1, RequestsStaySound DEF Answered

\* A new command is appended; what was said of the earlier ones still holds.
LEMMA CommandIsAdded ==
  ASSUME WorkIsSound, NEW c \in Command, Compose(c)
  PROVE  /\ WorkIsSound'
         /\ Len(commands') = Len(commands) + 1
         /\ DOMAIN commands \subseteq DOMAIN commands'
         /\ \A i \in DOMAIN commands : commands'[i] = commands[i]
<1>1. /\ Len(commands') = Len(commands) + 1
      /\ commands' \in Seq(Command)
      /\ \A i \in DOMAIN commands : i \in DOMAIN commands' /\ commands'[i] = commands[i]
  BY DEF WorkIsSound, Compose
<1>2. requests' = requests
  BY DEF Compose
<1>3. ASSUME NEW r \in Requests
      PROVE  RequestIsSound(requests[r])'
  <2>1. RequestIsSound(requests[r])
    BY DEF WorkIsSound
  <2> QED
    BY <1>1, <1>2, <2>1 DEF RequestIsSound, TriedIsSound
<1> QED
  BY <1>1, <1>2, <1>3 DEF WorkIsSound

\* What a command of each kind carries.
LEMMA CommandFacts ==
  ASSUME NEW c \in Command
  PROVE  /\ c.by \in Users
         /\ c.op \in {"publish", "withdraw", "join", "quick", "look", "invite", "accept"}
         /\ c.op \in {"publish", "withdraw", "invite"} => c.table \in Tables
         /\ c.op = "join" => c.at \in Marks
         /\ c.op = "invite" => c.to \in Nat \ {0}
  BY DEF Command

\* A request that is under way serves a command, and holds what its place says.
LEMMA RequestFacts ==
  ASSUME WorkIsSound, NEW r \in Requests, requests[r].pc # "idle"
  PROVE  /\ requests[r].id \in DOMAIN commands
         /\ commands[requests[r].id] \in Command
         /\ Asker(r) \in Users
         /\ RequestIsSound(requests[r])
<1>1. RequestIsSound(requests[r]) /\ requests[r].id \in DOMAIN commands
  BY DEF WorkIsSound, RequestIsSound, Idle
<1>2. commands[requests[r].id] \in Command
  BY <1>1 DEF WorkIsSound
<1> QED
  BY <1>1, <1>2, CommandFacts DEF Asker

\* Adding one of the things that a quick join has tried.
LEMMA OneMoreTried ==
  ASSUME NEW tried, IsFiniteSet(tried), Cardinality(tried) < Selections, NEW mark
  PROVE  /\ IsFiniteSet(tried \cup {mark})
         /\ Cardinality(tried \cup {mark}) \in 1..Selections
<1>1. /\ IsFiniteSet(tried \cup {mark})
      /\ Cardinality(tried \cup {mark}) =
           IF mark \in tried THEN Cardinality(tried) ELSE Cardinality(tried) + 1
  BY FS_AddElement
<1>2. Cardinality(tried) \in Nat /\ Cardinality(tried \cup {mark}) \in Nat
  BY <1>1, FS_CardinalityType
<1>3. Cardinality(tried \cup {mark}) # 0
  BY <1>1, FS_EmptySet
<1> QED
  BY <1>1, <1>2, <1>3, DiscoveryAssumption DEF DiscoveryAssumption

\* What a request to join knows before it reads, and before its batch.
LEMMA JoinFacts ==
  ASSUME WorkIsSound, NEW r \in Requests
  PROVE  LET q == requests[r]
         IN  /\ Joins(r, "start") => TriedIsSound(q)
             /\ Joins(r, "read") \/ Joins(r, "batch") =>
                  /\ TriedIsSound(q) /\ Cardinality(q.tried) \in 1..Selections
                  /\ q.mark \in Marks /\ q.mark \in q.tried /\ q.left \in 1..Attempts
             /\ Joins(r, "batch") => q.saw.table \in Tables
<1> SUFFICES ASSUME requests[r].pc # "idle"
             PROVE  LET q == requests[r]
                    IN  /\ Joins(r, "start") => TriedIsSound(q)
                        /\ Joins(r, "read") \/ Joins(r, "batch") =>
                             /\ TriedIsSound(q) /\ Cardinality(q.tried) \in 1..Selections
                             /\ q.mark \in Marks /\ q.mark \in q.tried /\ q.left \in 1..Attempts
                        /\ Joins(r, "batch") => q.saw.table \in Tables
  BY DEF Joins, At
<1>1. RequestIsSound(requests[r]) /\ requests[r] # Idle
  BY RequestFacts DEF Idle
<1> QED
  BY <1>1 DEF RequestIsSound, Joins, At

\* A join that gives up a table turns to another or ends.
LEMMA GivingUpIsSound ==
  ASSUME WorkIsSound, UNCHANGED commands, NEW r \in Requests,
         Joins(r, "read") \/ Joins(r, "batch"), GivesUp(r)
  PROVE  WorkIsSound'
<1> DEFINE q == requests[r]
           p == IF commands[q.id].op = "join" THEN Idle
                ELSE [pc |-> "start", id |-> q.id, tried |-> q.tried]
<1>1. RequestIsSound(q) /\ q.id \in DOMAIN commands
  BY RequestFacts DEF Joins, At
<1>2. RequestIsSound(p)
  BY <1>1 DEF RequestIsSound, TriedIsSound, Joins, At, Idle
<1>3. requests' = [requests EXCEPT ![r] = p]
  BY DEF GivesUp
<1> HIDE DEF p
<1> QED
  BY Zenon, <1>2, <1>3, RequestsStaySound

\* A command that a browser composes is a command, with an ID of its own.
LEMMA ComposingIsSound ==
  ASSUME DiscoveryInvariant, NEW c, Compose(c),
         \/ \E u \in Users, t \in Tables :
              \/ c \in {[op |-> op, by |-> u, table |-> t] : op \in {"publish", "withdraw"}}
              \/ c = [op |-> "join", by |-> u, at |-> <<t, listing[t].locator>>]
              \/ c = [op |-> "quick", by |-> u]
         \/ \E u \in Users :
              \/ c = [op |-> "look", by |-> u]
              \/ \E v \in Directory(u), t \in Tables :
                   c = [op |-> "invite", by |-> u, table |-> t, to |-> looking[v]]
              \/ \E x \in Feed(u) : c = [op |-> "accept", by |-> u, invitation |-> x.id]
  PROVE  c \in Command
<1>1. \A t \in Tables : listing[t].locator \in 0..MaxVersion
  BY DEF DiscoveryInvariant, TablesAreSound, Listing
<1>2. \A u \in Users : \A v \in Directory(u) : looking[v] \in Nat \ {0}
  BY DEF DiscoveryInvariant, LobbyIsSound, WorkIsSound, Directory
<1>3. \A u \in Users : \A x \in Feed(u) : x.id \in Nat
  BY DEF DiscoveryInvariant, LobbyIsSound, WorkIsSound, Feed, Invitation
<1> QED
  BY <1>1, <1>2, <1>3 DEF Command, Marks

\* Whatever a browser may compose is a command.
LEMMA ComposedIsACommand ==
  ASSUME DiscoveryInvariant, ComposeListing \/ ComposeInvitation
  PROVE  \E c \in Command : Compose(c)
<1>1. CASE ComposeListing
  <2> PICK u \in Users, t \in Tables : ComposeListingChange(u, t) \/ ComposePublicJoin(u, t)
    BY <1>1 DEF ComposeListing
  <2>1. CASE ComposeListingChange(u, t)
    BY <2>1, ComposingIsSound DEF ComposeListingChange
  <2>2. CASE ComposePublicJoin(u, t)
    BY <2>2, ComposingIsSound DEF ComposePublicJoin
  <2> QED
    BY <2>1, <2>2
<1>2. CASE ComposeInvitation
  <2> PICK u \in Users : ComposeLook(u) \/ ComposeInvite(u) \/ ComposeAnswer(u)
    BY <1>2 DEF ComposeInvitation
  <2>1. CASE ComposeLook(u)
    BY <2>1, ComposingIsSound DEF ComposeLook
  <2>2. CASE ComposeInvite(u)
    BY <2>2, ComposingIsSound DEF ComposeInvite
  <2>3. CASE ComposeAnswer(u)
    BY <2>3, ComposingIsSound DEF ComposeAnswer
  <2> QED
    BY <2>1, <2>2, <2>3
<1> QED
  BY <1>1, <1>2

\* A move of a member leaves the lobby alone, except that who opens a table
\* or joins one by code stops looking.
LEMMA MemberMovesFrame ==
  ASSUME MemberMoves
  PROVE  /\ UNCHANGED <<receipts, commands, requests>>
         /\ UNCHANGED lobbyVars \/ \E u \in Users : StopsLooking(u)
<1>1. ASSUME NEW u \in Users, NEW t \in Tables, Leave(u, t) \/ ClaimHost(u, t)
      PROVE  UNCHANGED lobbyVars /\ Move
  <2>1. CASE Leave(u, t)
    BY Zenon, <2>1 DEF Leave
  <2>2. CASE ClaimHost(u, t)
    BY <2>2 DEF ClaimHost
  <2> QED
    BY <1>1, <2>1, <2>2
<1>2. ASSUME NEW t \in Tables, StartGame(t) \/ CloseLobby(t)
      PROVE  UNCHANGED lobbyVars /\ Move
  BY <1>2 DEF StartGame, CloseLobby
<1>3. ASSUME NEW u \in Users, NEW t \in Tables, Create(u, t) \/ JoinByCode(u, t)
      PROVE  StopsLooking(u) /\ Move
  BY <1>3 DEF Create, JoinByCode
<1>4. Move => UNCHANGED <<receipts, commands, requests>>
  BY DEF Move
<1> QED
  BY <1>1, <1>2, <1>3, <1>4 DEF MemberMoves

\* No step disturbs what requests hold.
LEMMA WorkStaysSound ==
  ASSUME DiscoveryInvariant, Next
  PROVE  WorkIsSound'
<1> USE DEF DiscoveryInvariant
<1>1. CASE MemberMoves
  <2>1. UNCHANGED <<commands, requests>>
    BY Zenon, <1>1, MemberMovesFrame
  <2> QED
    BY <2>1, WorkIsUntouched
<1>2. CASE LobbyMoves
  <2>1. UNCHANGED <<commands, requests>>
    BY Zenon, <1>2 DEF LobbyMoves, Lapse, OptOut, Decline, BlockSeeker
  <2> QED
    BY <2>1, WorkIsUntouched
<1>3. CASE ComposeListing \/ ComposeInvitation
  BY <1>3, ComposedIsACommand, CommandIsAdded
<1>4. ASSUME NEW r \in Requests, NEW id \in DOMAIN commands, Ask(r, id)
      PROVE  WorkIsSound'
  <2> DEFINE p == IF Known(id) THEN Idle ELSE [pc |-> "start", id |-> id, tried |-> {}]
  <2>1. RequestIsSound(p)
    BY FS_EmptySet DEF RequestIsSound, TriedIsSound
  <2>2. requests' = [requests EXCEPT ![r] = p] /\ UNCHANGED commands
    BY <1>4 DEF Ask
  <2> HIDE DEF p
  <2> QED
    BY Zenon, <2>1, <2>2, RequestsStaySound
<1>5. ASSUME NEW r \in Requests, Drop(r)
      PROVE  WorkIsSound'
  BY <1>5, RequestEnds DEF Drop
<1>6. ASSUME NEW r \in Requests, ReadTable(r)
      PROVE  WorkIsSound'
  <2> DEFINE p == [pc |-> "batch", id |-> requests[r].id,
                   saw |-> Seen(commands[requests[r].id].table)]
  <2>1. RequestIsSound(p)
    BY Zenon, <1>6, RequestFacts DEF RequestIsSound, ReadTable, At, Seen
  <2>2. UNCHANGED commands /\ (Answered(r) \/ requests' = [requests EXCEPT ![r] = p])
    BY <1>6 DEF ReadTable
  <2> HIDE DEF p
  <2> QED
    BY <2>1, <2>2, RequestsStaySound, RequestEnds
<1>7. ASSUME NEW r \in Requests, Publish(r) \/ Withdraw(r)
      PROVE  WorkIsSound'
  BY Zenon, <1>7, RequestEnds DEF Publish, Withdraw
<1>8. ASSUME NEW r \in Requests, Aim(r)
      PROVE  WorkIsSound'
  <2> DEFINE q == requests[r]
  <2>1. /\ q.id \in DOMAIN commands /\ commands[q.id] \in Command
        /\ commands[q.id].op \in {"join", "quick"} /\ TriedIsSound(q)
    BY <1>8, RequestFacts, JoinFacts DEF Aim, Joins, At
  <2>2. CASE Answered(r)
    BY <1>8, <2>2, RequestEnds DEF Aim
  <2>3. CASE ~Known(q.id)
    <3>1. PICK mark \in Choices(commands[q.id], q.tried) :
            /\ Cardinality(q.tried) < Selections
            /\ requests' = [requests EXCEPT ![r] = Reading(q, mark, Attempts)]
      BY <1>8, <2>3 DEF Aim
    <3>2. mark \in Marks
      <4>1. \A t \in Tables : listing[t].locator \in 0..MaxVersion
        BY DEF TablesAreSound, Listing
      <4> QED
        BY <2>1, <4>1, CommandFacts DEF Choices, Pool, Marks
    <3>3. RequestIsSound(Reading(q, mark, Attempts))
      <4>1. /\ q.tried \cup {mark} \subseteq Marks /\ IsFiniteSet(q.tried \cup {mark})
            /\ Cardinality(q.tried \cup {mark}) \in 1..Selections
        BY Zenon, <2>1, <3>1, <3>2, OneMoreTried DEF TriedIsSound
      <4> QED
        BY <2>1, <3>2, <4>1, DiscoveryAssumption
        DEF RequestIsSound, Reading, TriedIsSound, DiscoveryAssumption
    <3> QED
      BY Zenon, <1>8, <3>1, <3>3, RequestsStaySound DEF Aim
  <2> QED
    BY <1>8, <2>2, <2>3 DEF Aim
<1>9. ASSUME NEW r \in Requests, ReadTarget(r)
      PROVE  WorkIsSound'
  <2> DEFINE q == requests[r]
             p == [pc |-> "batch", id |-> q.id, tried |-> q.tried, mark |-> q.mark,
                   left |-> q.left, saw |-> Seen(q.mark[1])]
  <2>1. CASE GivesUp(r)
    BY <1>9, <2>1, GivingUpIsSound DEF ReadTarget
  <2>2. CASE requests' = [requests EXCEPT ![r] = p]
    <3>1. /\ q.id \in DOMAIN commands /\ commands[q.id].op \in {"join", "quick"}
          /\ TriedIsSound(q) /\ Cardinality(q.tried) \in 1..Selections
          /\ q.mark \in Marks /\ q.mark \in q.tried /\ q.left \in 1..Attempts
      BY <1>9, RequestFacts, JoinFacts DEF ReadTarget, Joins, At
    <3>2. q.mark[1] \in Tables
      BY <3>1 DEF Marks
    <3>3. RequestIsSound(p)
      BY <3>1, <3>2 DEF RequestIsSound, TriedIsSound, Seen
    <3> HIDE DEF p
    <3> QED
      BY Zenon, <1>9, <2>2, <3>3, RequestsStaySound DEF ReadTarget
  <2> QED
    BY <1>9, <2>1, <2>2 DEF ReadTarget
<1>10. ASSUME NEW r \in Requests, TakeSeat(r)
       PROVE  WorkIsSound'
  BY Zenon, <1>10, RequestEnds DEF TakeSeat
<1>11. ASSUME NEW r \in Requests, LoseSeat(r)
       PROVE  WorkIsSound'
  <2> DEFINE q == requests[r]
             p == Reading(q, q.mark, q.left - 1)
  <2>1. CASE GivesUp(r) \/ Answered(r)
    BY <1>11, <2>1, GivingUpIsSound, RequestEnds DEF LoseSeat
  <2>2. CASE q.left > 1 /\ requests' = [requests EXCEPT ![r] = p]
    <3>1. /\ q.id \in DOMAIN commands /\ commands[q.id].op \in {"join", "quick"}
          /\ TriedIsSound(q) /\ Cardinality(q.tried) \in 1..Selections
          /\ q.mark \in Marks /\ q.mark \in q.tried /\ q.left \in 1..Attempts
      BY <1>11, RequestFacts, JoinFacts DEF LoseSeat, Joins, At
    <3>2. q.left - 1 \in 1..Attempts /\ q.tried \cup {q.mark} = q.tried
      BY <2>2, <3>1, DiscoveryAssumption DEF DiscoveryAssumption
    <3>3. RequestIsSound(p)
      BY Zenon, <3>1, <3>2 DEF RequestIsSound, Reading, TriedIsSound
    <3> HIDE DEF p
    <3> QED
      BY Zenon, <1>11, <2>2, <3>3, RequestsStaySound DEF LoseSeat
  <2> QED
    BY <1>11, <2>1, <2>2 DEF LoseSeat
<1>12. ASSUME NEW r \in Requests, CheckSeeker(r)
       PROVE  WorkIsSound'
  <2> DEFINE p == IF InOpenTable(Asker(r)) THEN Idle ELSE [pc |-> "batch", id |-> requests[r].id]
  <2>1. RequestIsSound(p)
    BY <1>12, RequestFacts DEF CheckSeeker, At, RequestIsSound
  <2>2. requests' = [requests EXCEPT ![r] = p] /\ UNCHANGED commands
    BY <1>12 DEF CheckSeeker
  <2> HIDE DEF p
  <2> QED
    BY Zenon, <2>1, <2>2, RequestsStaySound
<1>13. ASSUME NEW r \in Requests, OptIn(r) \/ Invite(r) \/ Accept(r)
       PROVE  WorkIsSound'
  BY Zenon, <1>13, RequestEnds DEF OptIn, Invite, Accept
<1>14. ASSUME NEW r \in Requests, ReadSeeker(r)
       PROVE  WorkIsSound'
  <2> DEFINE c == commands[requests[r].id]
  <2>1. CASE Answered(r)
    BY <1>14, <2>1, RequestEnds DEF ReadSeeker
  <2>2. ASSUME NEW v \in Users,
               requests' = [requests EXCEPT ![r] = [pc |-> "batch", id |-> @.id, to |-> v,
                              version |-> game[c.table].version]]
        PROVE  WorkIsSound'
    <3> DEFINE p == [pc |-> "batch", id |-> requests[r].id, to |-> v,
                     version |-> game[c.table].version]
    <3>1. RequestIsSound(p)
      BY <1>14, RequestFacts DEF ReadSeeker, At, RequestIsSound
    <3>2. requests' = [requests EXCEPT ![r] = p] /\ UNCHANGED commands
      BY <1>14, <2>2 DEF ReadSeeker
    <3> HIDE DEF p
    <3> QED
      BY Zenon, <3>1, <3>2, RequestsStaySound
  <2> QED
    BY <1>14, <2>1, <2>2 DEF ReadSeeker
<1>15. ASSUME NEW r \in Requests, ReadInvitation(r)
       PROVE  WorkIsSound'
  <2>1. PICK x \in invitations :
          requests' = [requests EXCEPT
            ![r] = IF /\ x.state = "pending" /\ looking[commands[requests[r].id].by] = x.locator
                      /\ Waiting(x.table) /\ game[x.table].host = {x.from}
                      /\ Cardinality(game[x.table].seated) = 1
                      /\ ~Blocked(commands[requests[r].id].by, x.from)
                   THEN [pc |-> "batch", id |-> @.id, version |-> game[x.table].version]
                   ELSE Idle]
    BY Zenon, <1>15 DEF ReadInvitation
  <2> DEFINE p == [pc |-> "batch", id |-> requests[r].id, version |-> game[x.table].version]
  <2>2. RequestIsSound(p)
    BY <1>15, RequestFacts DEF ReadInvitation, At, RequestIsSound
  <2>3. UNCHANGED commands /\ (Answered(r) \/ requests' = [requests EXCEPT ![r] = p])
    BY Zenon, <1>15, <2>1 DEF ReadInvitation, Answered
  <2> HIDE DEF p
  <2> QED
    BY <2>2, <2>3, RequestsStaySound, RequestEnds
<1> QED
  BY <1>1, <1>2, <1>3, <1>4, <1>5, <1>6, <1>7, <1>8, <1>9, <1>10, <1>11, <1>12, <1>13, <1>14, <1>15
  DEF Next, Traffic, ServeListing, ServeInvitation

-----------------------------------------------------------------------------
(***************************************************************************)
(* Tables, their members and their listings.                               *)
(***************************************************************************)
LEMMA OneTableChanges ==
  ASSUME TablesAreSound, NEW t \in Tables, NEW g, NEW m, NEW l, Sound(g, m, l),
         game' = [game EXCEPT ![t] = g],
         rows' = [rows EXCEPT ![t] = m],
         listing' = [listing EXCEPT ![t] = l]
  PROVE  TablesAreSound'
<1>1. g \in Game /\ m \in [Users -> Row] /\ l \in Listing
  BY DEF Sound
<1>2. /\ game' \in [Tables -> Game] /\ rows' \in [Tables -> [Users -> Row]]
      /\ listing' \in [Tables -> Listing]
  BY <1>1 DEF TablesAreSound
<1>3. \A x \in Tables : Sound(game'[x], rows'[x], listing'[x])
  BY DEF TablesAreSound
<1>4. \A x \in Tables : Sound(game[x], rows[x], listing[x])'
  BY <1>3 DEF Sound
<1> QED
  BY <1>2, <1>4 DEF TablesAreSound

\* Steps that leave tables, rows and listings alone.
LEMMA TablesUntouched ==
  ASSUME TablesAreSound, UNCHANGED tableVars
  PROVE  TablesAreSound'
  BY DEF TablesAreSound, Sound, tableVars

\* a listing that is up comes down
Down(l, state) ==
  IF l.state = "listed" THEN [l EXCEPT !.state = state, !.version = @ + 1] ELSE l

\* A listing taken down is not listed, and no other changes.
LEMMA TakingDown ==
  ASSUME TablesAreSound, NEW t \in Tables, NEW state \in {"unlisted", "closed"}
  PROVE  /\ TakenDown(t, state) = [listing EXCEPT ![t] = Down(listing[t], state)]
         /\ Down(listing[t], state) \in Listing
         /\ Down(listing[t], state).state # "listed"
<1>1. listing \in [Tables -> Listing] /\ listing[t] \in Listing
  BY DEF TablesAreSound
<1>2. /\ Down(listing[t], state) \in Listing
      /\ Down(listing[t], state).state # "listed"
  <2> DEFINE l == listing[t]
  <2>1. l \in Listing
    BY <1>1
  <2> HIDE DEF l
  <2>2. CASE l.state = "listed"
    <3> DEFINE e == [l EXCEPT !.state = state]
               d == [e EXCEPT !.version = l.version + 1]
    <3>1. [l EXCEPT !.state = state, !.version = @ + 1] = d
      OBVIOUS
    <3>2. e \in Listing /\ e.state = state /\ l.version + 1 \in Nat
      BY <2>1 DEF Listing
    <3> HIDE DEF e
    <3>3. d \in Listing /\ d.state = state
      BY <3>2 DEF Listing
    <3> QED
      BY <2>2, <3>1, <3>3 DEF Down, l
  <2>3. CASE l.state # "listed"
    BY <2>1, <2>3 DEF Down, l
  <2> QED
    BY <2>2, <2>3
<1>3. TakenDown(t, state) = [listing EXCEPT ![t] = Down(listing[t], state)]
  BY Zenon, <1>1 DEF Down, TakenDown
<1> QED
  BY <1>2, <1>3

\* where nothing is listed, the rest of Sound has nothing to fear from members
LEMMA UnlistedIsSound ==
  ASSUME NEW g \in Game, NEW m \in [Users -> Row], NEW l \in Listing, l.state # "listed",
         g.room = "open" => g.host \subseteq g.seated,
         \A u \in g.seated : m[u].source # "none"
  PROVE  Sound(g, m, l)
  BY DEF Sound

\* what the batches do to a games row
Moved(g, v) == [g EXCEPT !.version = v]
Seated(g, us) == [g EXCEPT !.seated = us]
HostedBy(g, h) == [g EXCEPT !.host = h]
Playing(g) == [g EXCEPT !.phase = "playing"]
Closed(g) == [g EXCEPT !.room = "closed"]
Guarded(g) == [g EXCEPT !.scope = "public_safe"]

\* g is h but for what fields says
Like(g, h, fields) ==
  /\ "room" \in fields \/ g.room = h.room
  /\ "phase" \in fields \/ g.phase = h.phase
  /\ "host" \in fields \/ g.host = h.host
  /\ "seated" \in fields \/ g.seated = h.seated
  /\ "scope" \in fields \/ g.scope = h.scope

\* One field of a table changed leaves a table.
LEMMA GameFieldsChange ==
  ASSUME NEW g \in Game
  PROVE  /\ \A v \in 0..MaxVersion : Moved(g, v) \in Game /\ Like(Moved(g, v), g, {})
         /\ \A us \in SUBSET Users :
              /\ Seated(g, us) \in Game /\ Seated(g, us).seated = us
              /\ Like(Seated(g, us), g, {"seated"})
         /\ \A h \in Hosts :
              /\ HostedBy(g, h) \in Game /\ HostedBy(g, h).host = h
              /\ Like(HostedBy(g, h), g, {"host"})
         /\ Playing(g) \in Game /\ Like(Playing(g), g, {"phase"})
         /\ Closed(g) \in Game /\ Closed(g).room = "closed" /\ Like(Closed(g), g, {"room"})
         /\ Guarded(g) \in Game /\ Guarded(g).scope = "public_safe"
          /\ Like(Guarded(g), g, {"scope"})
<1>1. \A v \in 0..MaxVersion : Moved(g, v) \in Game /\ Like(Moved(g, v), g, {})
  BY DEF Game, Moved, Like
<1>2. \A us \in SUBSET Users :
        /\ Seated(g, us) \in Game /\ Seated(g, us).seated = us
        /\ Like(Seated(g, us), g, {"seated"})
  BY DEF Game, Seated, Like
<1>3. \A h \in Hosts :
        /\ HostedBy(g, h) \in Game /\ HostedBy(g, h).host = h
        /\ Like(HostedBy(g, h), g, {"host"})
  BY DEF Game, HostedBy, Like
<1>4. Playing(g) \in Game /\ Like(Playing(g), g, {"phase"})
  BY DEF Game, Playing, Like
<1>5. Closed(g) \in Game /\ Closed(g).room = "closed" /\ Like(Closed(g), g, {"room"})
  BY DEF Game, Closed, Like
<1>6. Guarded(g) \in Game /\ Guarded(g).scope = "public_safe" /\ Like(Guarded(g), g, {"scope"})
  BY DEF Game, Guarded, Like
<1> QED
  BY <1>1, <1>2, <1>3, <1>4, <1>5, <1>6

\* what is known of a table before a step
LEMMA TableFacts ==
  ASSUME TablesAreSound, NEW t \in Tables
  PROVE  /\ game[t] \in Game /\ rows[t] \in [Users -> Row] /\ listing[t] \in Listing
         /\ Sound(game[t], rows[t], listing[t])
         /\ game[t].version \in Nat /\ game[t].seated \subseteq Users
         /\ game[t].host \in Hosts
         /\ Movable(t) => game[t].version + 1 \in 0..MaxVersion
<1>1. /\ game[t] \in Game /\ rows[t] \in [Users -> Row] /\ listing[t] \in Listing
      /\ Sound(game[t], rows[t], listing[t])
  BY DEF TablesAreSound
<1>2. game[t].version \in 0..MaxVersion /\ game[t].seated \subseteq Users /\ game[t].host \in Hosts
  BY <1>1 DEF Game
<1> QED
  BY <1>1, <1>2, DiscoveryAssumption DEF DiscoveryAssumption, Movable

\* A new table has its host seated.
LEMMA CreateIsSound ==
  ASSUME TablesAreSound, NEW u \in Users, NEW t \in Tables, Create(u, t)
  PROVE  TablesAreSound'
<1>1. /\ listing[t] \in Listing /\ listing[t].state # "listed"
      /\ listing' = [listing EXCEPT ![t] = listing[t]]
  BY TableFacts DEF Create, Sound, TablesAreSound
<1>2. NewTable(u) \in Game /\ NewTable(u).host = {u} /\ NewTable(u).seated = {u}
  BY DiscoveryAssumption DEF NewTable, Game, Hosts, DiscoveryAssumption
<1>3. NewRows(u) \in [Users -> Row] /\ NewRows(u)[u].source # "none"
  BY DEF NewRows, Row, Sources, NoRow
<1>4. Sound(NewTable(u), NewRows(u), listing[t])
  BY <1>1, <1>2, <1>3, UnlistedIsSound
<1> QED
  BY Zenon, <1>1, <1>4, OneTableChanges DEF Create

\* A step that leaves the table unlisted is sound if its row is.
LEMMA UnlistedTableIsSound ==
  ASSUME TablesAreSound, NEW t \in Tables, NEW g \in Game, NEW m \in [Users -> Row],
         NEW state \in {"unlisted", "closed"},
         g.room = "open" => g.host \subseteq g.seated,
         \A u \in g.seated : m[u].source # "none",
         game' = [game EXCEPT ![t] = g], rows' = [rows EXCEPT ![t] = m],
         listing' = TakenDown(t, state)
  PROVE  TablesAreSound'
<1>1. Sound(g, m, Down(listing[t], state))
  BY TakingDown, UnlistedIsSound
<1>2. listing' = [listing EXCEPT ![t] = Down(listing[t], state)]
  BY TakingDown
<1> QED
  BY Zenon, <1>1, <1>2, OneTableChanges

\* Whoever joins by code gets a row.
LEMMA JoinByCodeIsSound ==
  ASSUME TablesAreSound, NEW u \in Users, NEW t \in Tables, JoinByCode(u, t)
  PROVE  TablesAreSound'
<1> DEFINE us == game[t].seated \cup {u}
           h == Seated(game[t], us)
           g == Moved(h, game[t].version + 1)
           row == IF rows[t][u] = NoRow THEN [source |-> "invite", consent |-> FALSE]
                   ELSE rows[t][u]
           m == [rows[t] EXCEPT ![u] = row]
<1>1. Sound(game[t], rows[t], listing[t])
  BY TableFacts
<1>2. us \in SUBSET Users /\ game[t].version + 1 \in 0..MaxVersion /\ game[t] \in Game
  BY TableFacts DEF JoinByCode
<1>3. h \in Game /\ h.seated = us /\ Like(h, game[t], {"seated"})
  BY <1>2, GameFieldsChange
<1>4. g \in Game /\ Like(g, h, {})
  BY Zenon, <1>2, <1>3, GameFieldsChange
<1>5. g.seated = us /\ g.host = game[t].host /\ g.room = game[t].room
  BY <1>3, <1>4 DEF Like
<1>6. row \in Row /\ row.source # "none"
  <2>1. rows[t][u] \in Row
    BY <1>1 DEF Sound
  <2>2. [source |-> "invite", consent |-> FALSE] \in Row
    BY DEF Row, Sources
  <2> QED
    BY <2>1, <2>2 DEF Row
<1>7. /\ m \in [Users -> Row] /\ \A v \in us : m[v].source # "none"
  BY <1>1, <1>6 DEF Sound
<1>8. g.room = "open" => g.host \subseteq g.seated
  BY Zenon, <1>1, <1>5 DEF Sound
<1>9. game' = [game EXCEPT ![t] = g] /\ rows' = [rows EXCEPT ![t] = m]
  BY Zenon DEF JoinByCode, TablesAreSound, Moved, Seated
<1>10. listing' = TakenDown(t, "unlisted")
  BY DEF JoinByCode
<1> HIDE DEF g, m
<1> QED
  BY Zenon, <1>4, <1>5, <1>7, <1>8, <1>9, <1>10, UnlistedTableIsSound

\* A host who leaves is succeeded by somebody seated, or the room is closed.
LEMMA LeaveIsSound ==
  ASSUME TablesAreSound, NEW u \in Users, NEW t \in Tables, Leave(u, t)
  PROVE  TablesAreSound'
<1> DEFINE us == game[t].seated \ {u}
           h == Seated(game[t], us)
           k == Moved(h, game[t].version + 1)
           m == [rows[t] EXCEPT ![u] = NoRow]
<1>1. Sound(game[t], rows[t], listing[t])
  BY TableFacts
<1>2. /\ us \in SUBSET Users /\ game[t].version + 1 \in 0..MaxVersion /\ game[t] \in Game
      /\ game[t].host \in Hosts /\ game[t].room = "open" /\ u \in game[t].seated
  BY TableFacts DEF Leave
<1>3. h \in Game /\ h.seated = us /\ Like(h, game[t], {"seated"})
  BY <1>2, GameFieldsChange
<1>4. k \in Game /\ Like(k, h, {})
  BY Zenon, <1>2, <1>3, GameFieldsChange
<1>5. k.seated = us /\ k.host = game[t].host /\ k.room = game[t].room /\ k.phase = game[t].phase
      /\ k.scope = game[t].scope
  BY <1>3, <1>4 DEF Like
<1>6. /\ m \in [Users -> Row] /\ \A v \in us : m[v].source # "none"
      /\ rows' = [rows EXCEPT ![t] = m]
  <2>1. NoRow \in Row
    BY DEF Row
  <2> QED
    BY <1>1, <2>1 DEF Sound, Leave, TablesAreSound
<1>7. CASE game[t].seated = {u} /\ listing' = TakenDown(t, "closed")
           /\ game' = [game EXCEPT ![t].seated = {}, ![t].version = @ + 1, ![t].room = "closed"]
  <2> DEFINE g == Closed(k)
  <2>1. g \in Game /\ g.room = "closed" /\ Like(g, k, {"room"})
    BY <1>4, GameFieldsChange
  <2>2. us = {}
    BY <1>7
  <2>3. game' = [game EXCEPT ![t] = g]
    BY Zenon, <1>7, <2>2 DEF TablesAreSound, Moved, Seated, Closed
  <2>4. g.seated = us
    BY <1>5, <2>1 DEF Like
  <2> HIDE DEF g, m
  <2> QED
    BY Zenon, <1>6, <1>7, <2>1, <2>3, <2>4, UnlistedTableIsSound
<1>8. ASSUME NEW v \in Heirs(u, t), game[t].seated # {u},
             game' = [game EXCEPT ![t].seated = @ \ {u}, ![t].version = @ + 1, ![t].host = {v}],
             listing' = IF {v} = game[t].host THEN listing ELSE TakenDown(t, "unlisted")
      PROVE  TablesAreSound'
  <2> DEFINE g == HostedBy(k, {v})
  <2>1. v \in us
    <3>1. CASE {u} = game[t].host
      BY <3>1 DEF Heirs
    <3>2. CASE {u} # game[t].host
      BY <1>1, <1>2, <3>2 DEF Heirs, Sound, Hosts
    <3> QED
      BY <3>1, <3>2
  <2>2. g \in Game /\ g.host = {v} /\ Like(g, k, {"host"})
    <3>1. {v} \in Hosts
      BY <1>2, <2>1 DEF Hosts
    <3> QED
      BY Zenon, <1>4, <3>1, GameFieldsChange
  <2>3. /\ g.seated = us /\ g.room = game[t].room /\ g.phase = game[t].phase
        /\ g.scope = game[t].scope /\ g.host \subseteq us
    BY Zenon, <1>5, <2>1, <2>2 DEF Like
  <2>4. game' = [game EXCEPT ![t] = g]
    BY Zenon, <1>8 DEF TablesAreSound, Moved, Seated, HostedBy
  <2>5. CASE {v} = game[t].host
    <3>1. \A w \in Users : m[w].source # "none" => rows[t][w].source # "none" /\ m[w] = rows[t][w]
      BY <1>1 DEF Sound, NoRow
    <3> HIDE DEF g, m
    <3>2. Sound(g, m, listing[t])
      BY <1>1, <1>6, <2>2, <2>3, <2>5, <3>1 DEF Sound
    <3>3. listing' = [listing EXCEPT ![t] = listing[t]]
      BY <1>8, <2>5 DEF TablesAreSound
    <3> QED
      BY Zenon, <1>6, <2>4, <3>2, <3>3, OneTableChanges
  <2>6. CASE {v} # game[t].host
    <3> HIDE DEF g, m
    <3> QED
      BY Zenon, <1>6, <1>8, <2>2, <2>3, <2>4, <2>6, UnlistedTableIsSound
  <2> QED
    BY <2>5, <2>6
<1> QED
  BY Zenon, <1>7, <1>8 DEF Leave

\* A new host is seated, and the listing of the old one comes down.
LEMMA ClaimHostIsSound ==
  ASSUME TablesAreSound, NEW u \in Users, NEW t \in Tables, ClaimHost(u, t)
  PROVE  TablesAreSound'
<1> DEFINE h == HostedBy(game[t], {u})
           g == Moved(h, game[t].version + 1)
<1>1. Sound(game[t], rows[t], listing[t])
  BY TableFacts
<1>2. {u} \in Hosts /\ game[t].version + 1 \in 0..MaxVersion /\ game[t] \in Game
  BY TableFacts DEF ClaimHost, Hosts
<1>3. h \in Game /\ h.host = {u} /\ Like(h, game[t], {"host"})
  BY Zenon, <1>2, GameFieldsChange
<1>4. g \in Game /\ Like(g, h, {})
  BY Zenon, <1>2, <1>3, GameFieldsChange
<1>5. g.host = {u} /\ g.seated = game[t].seated /\ u \in game[t].seated
  BY Zenon, <1>3, <1>4 DEF Like, ClaimHost
<1>6. game' = [game EXCEPT ![t] = g] /\ rows' = [rows EXCEPT ![t] = rows[t]]
  BY Zenon DEF ClaimHost, TablesAreSound, Moved, HostedBy
<1>7. rows[t] \in [Users -> Row] /\ \A v \in g.seated : rows[t][v].source # "none"
  BY <1>1, <1>5 DEF Sound
<1>8. listing' = TakenDown(t, "unlisted")
  BY DEF ClaimHost
<1> HIDE DEF g
<1> QED
  BY Zenon, <1>4, <1>5, <1>6, <1>7, <1>8, UnlistedTableIsSound

\* A game that starts takes its listing down.
LEMMA StartGameIsSound ==
  ASSUME TablesAreSound, NEW t \in Tables, StartGame(t)
  PROVE  TablesAreSound'
<1> DEFINE h == Playing(game[t])
           g == Moved(h, game[t].version + 1)
<1>1. Sound(game[t], rows[t], listing[t])
  BY TableFacts
<1>2. game[t].version + 1 \in 0..MaxVersion /\ game[t] \in Game
  BY TableFacts DEF StartGame
<1>3. h \in Game /\ Like(h, game[t], {"phase"})
  BY <1>2, GameFieldsChange
<1>4. g \in Game /\ Like(g, h, {})
  BY Zenon, <1>2, <1>3, GameFieldsChange
<1>5. g.host = game[t].host /\ g.seated = game[t].seated /\ g.room = game[t].room
  BY <1>3, <1>4 DEF Like
<1>6. game' = [game EXCEPT ![t] = g] /\ rows' = [rows EXCEPT ![t] = rows[t]]
  BY Zenon DEF StartGame, TablesAreSound, Moved, Playing
<1>7. /\ rows[t] \in [Users -> Row] /\ \A v \in g.seated : rows[t][v].source # "none"
      /\ g.room = "open" => g.host \subseteq g.seated
  BY <1>1, <1>5 DEF Sound
<1>8. listing' = TakenDown(t, "unlisted")
  BY DEF StartGame
<1> HIDE DEF g
<1> QED
  BY Zenon, <1>4, <1>6, <1>7, <1>8, UnlistedTableIsSound

\* A room that is closed takes its listing down.
LEMMA CloseLobbyIsSound ==
  ASSUME TablesAreSound, NEW t \in Tables, CloseLobby(t)
  PROVE  TablesAreSound'
<1> DEFINE h == Closed(game[t])
           g == Moved(h, game[t].version + 1)
<1>1. Sound(game[t], rows[t], listing[t])
  BY TableFacts
<1>2. game[t].version + 1 \in 0..MaxVersion /\ game[t] \in Game
  BY TableFacts DEF CloseLobby
<1>3. h \in Game /\ h.room = "closed" /\ Like(h, game[t], {"room"})
  BY <1>2, GameFieldsChange
<1>4. g \in Game /\ Like(g, h, {})
  BY Zenon, <1>2, <1>3, GameFieldsChange
<1>5. g.seated = game[t].seated /\ g.room = "closed"
  BY <1>3, <1>4 DEF Like
<1>6. game' = [game EXCEPT ![t] = g] /\ rows' = [rows EXCEPT ![t] = rows[t]]
  BY Zenon DEF CloseLobby, TablesAreSound, Moved, Closed
<1>7. rows[t] \in [Users -> Row] /\ \A v \in g.seated : rows[t][v].source # "none"
  BY <1>1, <1>5 DEF Sound
<1>8. listing' = TakenDown(t, "closed")
  BY DEF CloseLobby
<1> HIDE DEF g
<1> QED
  BY Zenon, <1>4, <1>5, <1>6, <1>7, <1>8, UnlistedTableIsSound

\* Whoever is alone at a table it sits at is all there is.
LEMMA AloneIsAlone ==
  ASSUME NEW u \in Users, NEW t \in Tables, HostsAlone(u, t), u \in Occupants(t)
  PROVE  Occupants(t) = {u}
<1>1. IsFiniteSet(Occupants(t))
  BY DiscoveryAssumption, FS_Subset DEF DiscoveryAssumption, Occupants
<1>2. \E x : Occupants(t) = {x}
  BY <1>1, FS_Singleton DEF HostsAlone
<1> QED
  BY <1>2

\* a member agrees to be seen
Agreed(row) == [row EXCEPT !.consent = TRUE]

\* Consent leaves a row a row.
LEMMA AgreeingIsSound ==
  ASSUME NEW row \in Row, row.source # "none"
  PROVE  Agreed(row) \in Row /\ Agreed(row).source = row.source /\ Agreed(row).consent
<1>1. row \in [source: Sources \ {"none"}, consent: BOOLEAN]
  BY DEF Row, NoRow
<1>2. Agreed(row) \in [source: Sources \ {"none"}, consent: BOOLEAN]
  BY Zenon, <1>1 DEF Agreed
<1>3. Agreed(row).source = row.source /\ Agreed(row).consent
  BY <1>1 DEF Agreed
<1> QED
  BY <1>2, <1>3 DEF Row

\* A listing request has read the table that its command names.
LEMMA ListingRequestFacts ==
  ASSUME WorkIsSound, NEW r \in Requests, At(r, "publish", "batch") \/ At(r, "withdraw", "batch")
  PROVE  /\ requests[r].saw.table = commands[requests[r].id].table
         /\ requests[r].saw.table \in Tables /\ Asker(r) \in Users
         /\ requests[r].id \in DOMAIN commands
<1>1. RequestIsSound(requests[r]) /\ requests[r] # Idle
  BY RequestFacts DEF At, Idle
<1>2. requests[r].saw.table = commands[requests[r].id].table
  BY <1>1 DEF RequestIsSound, At
<1>3. commands[requests[r].id] \in Command
  BY RequestFacts DEF At
<1>4. commands[requests[r].id].table \in Tables
  BY <1>3, CommandFacts DEF At
<1> QED
  BY <1>2, <1>4, RequestFacts DEF At

\* A batch that lists a table finds it listable.
LEMMA PublishIsSound ==
  ASSUME WorkIsSound, TablesAreSound, NEW r \in Requests, Publish(r)
  PROVE  TablesAreSound'
<1> DEFINE q == requests[r]
           t == q.saw.table
           u == Asker(r)
<1>1. t \in Tables /\ u \in Users
  BY Zenon, ListingRequestFacts DEF Publish
<1>2. Sound(game[t], rows[t], listing[t]) /\ game[t] \in Game /\ rows[t][u] \in Row
  BY <1>1, TableFacts
<1>3. CASE /\ Publishable(q) /\ Movable(t)
           /\ game' = [game EXCEPT ![t].version = @ + 1, ![t].scope = "public_safe"]
           /\ rows' = [rows EXCEPT ![t][Asker(r)].consent = TRUE]
           /\ listing' = [listing EXCEPT ![t] =
                [state |-> "listed", version |-> @.version + 1,
                 locator |-> game'[t].version, owner |-> {Asker(r)}]]
  <2> DEFINE v == game[t].version + 1
             h == Moved(game[t], v)
             g == Guarded(h)
             m == [rows[t] EXCEPT ![u] = Agreed(rows[t][u])]
             l == [state |-> "listed", version |-> listing[t].version + 1,
                   locator |-> v, owner |-> {u}]
  <2>1. /\ HostsAlone(u, t) /\ u \in Occupants(t) /\ game[t].host = {u}
        /\ game[t].room = "open" /\ game[t].phase = "lobby"
    BY Zenon, <1>3 DEF Publishable, HostsAlone, Waiting, Asker
  <2>2. Occupants(t) = {u}
    BY <1>1, <2>1, AloneIsAlone
  <2>3. v \in 0..MaxVersion
    BY Zenon, <1>1, <1>3, TableFacts
  <2>4. h \in Game /\ Like(h, game[t], {})
    BY Zenon, <1>2, <2>3, GameFieldsChange
  <2>5. g \in Game /\ g.scope = "public_safe" /\ Like(g, h, {"scope"})
    BY <2>4, GameFieldsChange
  <2>6. /\ g.room = "open" /\ g.phase = "lobby" /\ g.host = {u} /\ g.seated = game[t].seated
        /\ g.scope = "public_safe"
    BY Zenon, <2>1, <2>4, <2>5 DEF Like
  <2>7. /\ Agreed(rows[t][u]) \in Row /\ Agreed(rows[t][u]).source = rows[t][u].source
        /\ Agreed(rows[t][u]).consent
    BY <1>2, <2>1, AgreeingIsSound DEF Occupants
  <2>8. /\ m \in [Users -> Row]
        /\ \A w \in Users : m[w].source = rows[t][w].source
        /\ m[u].consent
    BY Zenon, <1>1, <1>2, <2>7 DEF Sound
  <2>9. \A w \in Users : m[w].source # "none" => w = u
    BY <2>2, <2>8 DEF Occupants
  <2>10. l \in Listing /\ l.state = "listed" /\ l.owner = {u}
    <3>1. listing[t].version + 1 \in Nat /\ {u} \in Hosts
      BY <1>1, <1>2 DEF Sound, Listing, Hosts
    <3> QED
      BY <2>3, <3>1 DEF Listing
  <2>11. game' = [game EXCEPT ![t] = g]
    BY Zenon, <1>3 DEF TablesAreSound, Moved, Guarded
  <2>12. game'[t].version = v
    BY Zenon, <1>1, <1>2, <1>3 DEF TablesAreSound, Game
  <2>13. rows' = [rows EXCEPT ![t] = m]
    BY Zenon, <1>3 DEF TablesAreSound, Agreed
  <2>14. listing' = [listing EXCEPT ![t] = l]
    BY Zenon, <1>3, <2>12
  <2> HIDE DEF g, m, l, u, t
  <2>15. /\ g.host \subseteq g.seated
         /\ \A w \in g.seated : m[w].source # "none"
    BY <1>2, <2>1, <2>6, <2>8 DEF Sound, Game
  <2>16. Sound(g, m, l)
    BY <2>5, <2>6, <2>8, <2>9, <2>10, <2>15 DEF Sound
  <2> QED
    BY Zenon, <1>1, <2>11, <2>13, <2>14, <2>16, OneTableChanges
<1>4. CASE /\ rows' = [rows EXCEPT ![t][Asker(r)] =
                 IF @ = NoRow THEN @ ELSE [@ EXCEPT !.consent = TRUE]]
           /\ UNCHANGED <<game, listing>>
  <2> DEFINE row == IF rows[t][u] = NoRow THEN NoRow ELSE Agreed(rows[t][u])
             m == [rows[t] EXCEPT ![u] = row]
  <2>1. /\ row \in Row /\ row.source = rows[t][u].source
        /\ row.source # "none" => row.consent
    <3>1. CASE rows[t][u] = NoRow
      BY <1>2, <3>1 DEF NoRow
    <3>2. CASE rows[t][u] # NoRow
      <4>1. rows[t][u].source # "none"
        BY <1>2, <3>2 DEF Row
      <4> QED
        BY <1>2, <3>2, <4>1, AgreeingIsSound
    <3> QED
      BY <3>1, <3>2
  <2> HIDE DEF row
  <2>2. /\ m \in [Users -> Row]
        /\ \A w \in Users : m[w].source = rows[t][w].source
        /\ \A w \in Users : m[w].source # "none" => w = u \/ m[w] = rows[t][w]
        /\ m[u] = row
    BY Zenon, <1>1, <1>2, <2>1 DEF Sound
  <2> HIDE DEF m, u, t
  <2>3. \A w \in game[t].seated : w \in Users
    BY <1>2 DEF Game
  <2>4. Sound(game[t], m, listing[t])
    BY <1>2, <2>1, <2>2, <2>3 DEF Sound
  <2>5. /\ game' = [game EXCEPT ![t] = game[t]]
        /\ listing' = [listing EXCEPT ![t] = listing[t]]
    BY <1>4 DEF TablesAreSound
  <2>6. rows' = [rows EXCEPT ![t] = m]
    BY Zenon, <1>4 DEF TablesAreSound, Agreed, m, row, u, t
  <2> QED
    BY Zenon, <1>1, <2>4, <2>5, <2>6, OneTableChanges
<1>5. CASE UNCHANGED tableVars
  BY <1>5, TablesUntouched
<1> QED
  BY Zenon, <1>3, <1>4, <1>5 DEF Publish

\* A withdrawal lists nothing.
LEMMA WithdrawIsSound ==
  ASSUME WorkIsSound, TablesAreSound, NEW r \in Requests, Withdraw(r)
  PROVE  TablesAreSound'
<1> DEFINE t == requests[r].saw.table
<1>1. t \in Tables
  BY ListingRequestFacts DEF Withdraw
<1>2. Sound(game[t], rows[t], listing[t]) /\ game[t] \in Game /\ rows[t] \in [Users -> Row]
  BY <1>1, TableFacts
<1>3. /\ game' = [game EXCEPT ![t] = game[t]]
      /\ rows' = [rows EXCEPT ![t] = rows[t]]
  BY DEF TablesAreSound, Withdraw
<1>4. CASE listing' = TakenDown(t, "unlisted")
  BY Zenon, <1>1, <1>2, <1>3, <1>4, UnlistedTableIsSound DEF Sound
<1>5. CASE listing' = listing
  BY <1>5, TablesUntouched DEF tableVars, Withdraw
<1> QED
  BY <1>4, <1>5 DEF Withdraw

\* A public join that commits seats somebody who gets a row.
LEMMA TakeSeatIsSound ==
  ASSUME WorkIsSound, TablesAreSound, NEW r \in Requests, TakeSeat(r)
  PROVE  TablesAreSound'
<1> DEFINE q == requests[r]
           t == q.saw.table
           u == Asker(r)
<1>1. t \in Tables /\ u \in Users
  BY Zenon, RequestFacts, JoinFacts DEF TakeSeat, Joins, At
<1>2. Sound(game[t], rows[t], listing[t]) /\ game[t] \in Game
  BY <1>1, TableFacts
<1>3. CASE UNCHANGED serverVars
  BY <1>3, TablesUntouched DEF serverVars, tableVars
<1>4. CASE /\ game' = [game EXCEPT ![t].seated = @ \cup {u}, ![t].version = @ + 1,
                                   ![t].scope = "public_safe"]
           /\ rows' = [rows EXCEPT ![t][u] = [source |-> "public", consent |-> TRUE]]
           /\ UNCHANGED listing
  <2> DEFINE us == game[t].seated \cup {u}
             h == Seated(game[t], us)
             k == Moved(h, game[t].version + 1)
             g == Guarded(k)
             row == [source |-> "public", consent |-> TRUE]
             m == [rows[t] EXCEPT ![u] = row]
  <2>1. us \in SUBSET Users /\ game[t].version + 1 \in 0..MaxVersion
    BY Zenon, <1>1, TableFacts DEF TakeSeat
  <2>2. h \in Game /\ h.seated = us /\ Like(h, game[t], {"seated"})
    BY Zenon, <1>2, <2>1, GameFieldsChange
  <2>3. k \in Game /\ Like(k, h, {})
    BY Zenon, <2>1, <2>2, GameFieldsChange
  <2>4. g \in Game /\ g.scope = "public_safe" /\ Like(g, k, {"scope"})
    BY <2>3, GameFieldsChange
  <2>5. /\ g.seated = us /\ g.host = game[t].host /\ g.room = game[t].room
        /\ g.phase = game[t].phase /\ g.scope = "public_safe"
    BY Zenon, <2>2, <2>3, <2>4 DEF Like
  <2>6. row \in Row /\ row.source = "public" /\ row.consent
    BY DEF Row, Sources
  <2>7. /\ m \in [Users -> Row] /\ m[u].source = "public" /\ m[u].consent
        /\ \A w \in Users \ {u} : m[w] = rows[t][w]
    BY <1>1, <1>2, <2>6 DEF Sound
  <2>8. game' = [game EXCEPT ![t] = g]
    BY Zenon, <1>4 DEF TablesAreSound, Moved, Seated, Guarded
  <2>9. rows' = [rows EXCEPT ![t] = m]
    BY Zenon, <1>4 DEF TablesAreSound
  <2>10. listing' = [listing EXCEPT ![t] = listing[t]]
    BY Zenon, <1>4 DEF TablesAreSound
  <2> HIDE DEF g, m, u, t
  <2>11. Sound(g, m, listing[t])
    BY <1>2, <2>1, <2>4, <2>5, <2>7 DEF Sound
  <2> QED
    BY Zenon, <1>1, <2>8, <2>9, <2>10, <2>11, OneTableChanges
<1> QED
  BY Zenon, <1>3, <1>4 DEF TakeSeat

\* A public join that loses its race seats nobody.
LEMMA LoseSeatIsSound ==
  ASSUME WorkIsSound, TablesAreSound, NEW r \in Requests, LoseSeat(r)
  PROVE  TablesAreSound'
<1> DEFINE q == requests[r]
           t == q.saw.table
           u == Asker(r)
<1>1. t \in Tables /\ u \in Users
  BY RequestFacts, JoinFacts DEF LoseSeat, Joins, At
<1>2. Sound(game[t], rows[t], listing[t]) /\ game[t] \in Game
  BY <1>1, TableFacts
<1>3. CASE UNCHANGED serverVars
  BY <1>3, TablesUntouched DEF serverVars, tableVars
<1>4. CASE /\ rows' = [rows EXCEPT ![t][u] =
                 IF @ = NoRow THEN [source |-> "public", consent |-> TRUE] ELSE @]
           /\ UNCHANGED <<game, listing, receipts>>
  <2> DEFINE row == IF rows[t][u] = NoRow THEN [source |-> "public", consent |-> TRUE]
                    ELSE rows[t][u]
             m == [rows[t] EXCEPT ![u] = row]
  <2>1. row \in Row /\ row.source # "none" /\ (row.consent \/ row = rows[t][u])
    <3>1. /\ [source |-> "public", consent |-> TRUE] \in Row
          /\ [source |-> "public", consent |-> TRUE].consent
          /\ [source |-> "public", consent |-> TRUE].source # "none"
      BY DEF Row, Sources
    <3>2. rows[t][u] \in Row
      BY <1>1, <1>2 DEF Sound
    <3>3. rows[t][u] # NoRow => rows[t][u].source # "none"
      BY <3>2 DEF Row
    <3> QED
      BY <3>1, <3>2, <3>3
  <2> HIDE DEF row
  <2>2. /\ m \in [Users -> Row] /\ m[u] = row
        /\ \A w \in Users \ {u} : m[w] = rows[t][w]
    BY <1>1, <1>2, <2>1 DEF Sound
  <2>3. rows' = [rows EXCEPT ![t] = m]
    BY <1>4 DEF TablesAreSound, row
  <2>4. /\ game' = [game EXCEPT ![t] = game[t]]
        /\ listing' = [listing EXCEPT ![t] = listing[t]]
    BY <1>4 DEF TablesAreSound
  <2>5. \A w \in game[t].seated : w \in Users
    BY <1>2 DEF Game
  <2> HIDE DEF m, u, t
  <2>6. \A w \in Users : m[w].source # "none" => m[w].consent \/ m[w] = rows[t][w]
    BY <2>1, <2>2
  <2>7. \A w \in game[t].seated : m[w].source # "none"
    BY <1>2, <2>1, <2>2, <2>5 DEF Sound
  <2>8. Sound(game[t], m, listing[t])
    BY <1>2, <2>2, <2>6, <2>7 DEF Sound
  <2> QED
    BY Zenon, <1>1, <2>3, <2>4, <2>8, OneTableChanges
<1> QED
  BY <1>3, <1>4 DEF LoseSeat

\* An acceptance that commits seats the recipient.
LEMMA AcceptIsSound ==
  ASSUME WorkIsSound, TablesAreSound, LobbyIsSound, NEW r \in Requests, Accept(r)
  PROVE  TablesAreSound'
<1>1. CASE UNCHANGED tableVars
  BY <1>1, TablesUntouched
<1>2. ASSUME NEW x \in invitations, Movable(x.table),
             game' = [game EXCEPT ![x.table].seated = @ \cup {x.to},
                                  ![x.table].version = @ + 1,
                                  ![x.table].scope = "public_safe"],
             rows' = [rows EXCEPT
               ![x.table][x.to] = [source |-> "lobby_invite", consent |-> FALSE]],
             listing' = TakenDown(x.table, "unlisted")
      PROVE  TablesAreSound'
  <2> DEFINE t == x.table
             u == x.to
             us == game[t].seated \cup {u}
             h == Seated(game[t], us)
             k == Moved(h, game[t].version + 1)
             g == Guarded(k)
             row == [source |-> "lobby_invite", consent |-> FALSE]
             m == [rows[t] EXCEPT ![u] = row]
  <2>1. t \in Tables /\ u \in Users
    BY DEF LobbyIsSound, Invitation
  <2>2. /\ us \in SUBSET Users /\ game[t].version + 1 \in 0..MaxVersion /\ game[t] \in Game
        /\ Sound(game[t], rows[t], listing[t])
    BY <1>2, <2>1, TableFacts
  <2>3. h \in Game /\ h.seated = us /\ Like(h, game[t], {"seated"})
    BY Zenon, <2>2, GameFieldsChange
  <2>4. k \in Game /\ Like(k, h, {})
    BY <2>2, <2>3, GameFieldsChange
  <2>5. g \in Game /\ Like(g, k, {"scope"})
    BY <2>4, GameFieldsChange
  <2>6. g.seated = us /\ g.host = game[t].host /\ g.room = game[t].room
    BY <2>3, <2>4, <2>5 DEF Like
  <2>7. row \in Row /\ row.source # "none"
    BY DEF Row, Sources
  <2>8. m \in [Users -> Row] /\ \A w \in us : m[w].source # "none"
    BY <2>1, <2>2, <2>7 DEF Sound
  <2>9. g.room = "open" => g.host \subseteq g.seated
    BY Zenon, <2>2, <2>6 DEF Sound
  <2>10. game' = [game EXCEPT ![t] = g] /\ rows' = [rows EXCEPT ![t] = m]
    BY Zenon, <1>2 DEF TablesAreSound, Moved, Seated, Guarded
  <2> HIDE DEF g, m, t
  <2>11. listing' = TakenDown(t, "unlisted")
    BY <1>2 DEF t
  <2> QED
    BY Zenon, <2>1, <2>5, <2>6, <2>8, <2>9, <2>10, <2>11, UnlistedTableIsSound
<1> QED
  BY Zenon, <1>1, <1>2 DEF Accept, tableVars

\* No step makes a listing dishonest or seats somebody without a row.
LEMMA TablesStaySound ==
  ASSUME DiscoveryInvariant, Next
  PROVE  TablesAreSound'
<1> USE DEF DiscoveryInvariant
<1>1. CASE MemberMoves
  BY <1>1, CreateIsSound, JoinByCodeIsSound, LeaveIsSound, ClaimHostIsSound, StartGameIsSound,
     CloseLobbyIsSound DEF MemberMoves
<1>2. CASE Traffic
  BY <1>2, TablesUntouched DEF Traffic, Ask, Drop, serverVars
<1>3. CASE ComposeListing \/ ComposeInvitation
  BY Zenon, <1>3, ComposedIsACommand, TablesUntouched DEF Compose, serverVars
<1>4. CASE LobbyMoves
  BY Zenon, <1>4, TablesUntouched DEF LobbyMoves, Lapse, OptOut, Decline, BlockSeeker
<1>5. CASE ServeListing
  <2> PICK r \in Requests : \/ ReadTable(r) \/ Publish(r) \/ Withdraw(r)
                            \/ Aim(r) \/ ReadTarget(r) \/ TakeSeat(r) \/ LoseSeat(r)
    BY <1>5 DEF ServeListing
  <2>1. CASE ReadTable(r) \/ Aim(r) \/ ReadTarget(r)
    BY Zenon, <2>1, TablesUntouched DEF ReadTable, Aim, ReadTarget, serverVars
  <2> QED
    BY <2>1, PublishIsSound, WithdrawIsSound, TakeSeatIsSound, LoseSeatIsSound
<1>6. CASE ServeInvitation
  <2> PICK r \in Requests : \/ CheckSeeker(r) \/ OptIn(r) \/ ReadSeeker(r) \/ Invite(r)
                            \/ ReadInvitation(r) \/ Accept(r)
    BY <1>6 DEF ServeInvitation
  <2>1. CASE CheckSeeker(r) \/ OptIn(r) \/ ReadSeeker(r) \/ Invite(r) \/ ReadInvitation(r)
    BY Zenon, <2>1, TablesUntouched
    DEF CheckSeeker, OptIn, ReadSeeker, Invite, ReadInvitation, serverVars
  <2> QED
    BY <2>1, AcceptIsSound
<1> QED
  BY <1>1, <1>2, <1>3, <1>4, <1>5, <1>6 DEF Next

-----------------------------------------------------------------------------
(***************************************************************************)
(* Who is looking for a game, and what invitations there are.              *)
(***************************************************************************)
\* an invitation that has come to an end
Ended(x, state) == [x EXCEPT !.state = state]

\* An invitation that ends keeps its ID and its people.
LEMMA EndingKeepsTheRest ==
  ASSUME NEW ids, NEW x \in Invitation(ids),
         NEW state \in {"accepted", "declined", "blocked", "expired"}
  PROVE  /\ Ended(x, state) \in Invitation(ids) /\ Ended(x, state).state = state
         /\ Ended(x, state).id = x.id /\ Ended(x, state).to = x.to
         /\ Ended(x, state).table = x.table /\ Ended(x, state).from = x.from
  BY DEF Ended, Invitation

OneOfEach(S) == \A x, y \in S : x.id = y.id => x = y

\* What expires keeps its ID, and what is still pending has not been touched.
LEMMA ExpiryFacts ==
  ASSUME invitations \subseteq Invitation(DOMAIN commands), OneOfEach(invitations), NEW S
  PROVE  /\ Expired(S) \subseteq Invitation(DOMAIN commands)
         /\ OneOfEach(Expired(S))
         /\ \A y \in Expired(S) : y \in invitations \/ y.state = "expired"
         /\ \A y \in Expired(S) : y.state = "pending" => y \in invitations /\ y \notin S
         /\ \A x \in invitations \ S : x \in Expired(S)
<1> DEFINE F(x) == IF x.state = "pending" /\ x \in S THEN Ended(x, "expired") ELSE x
<1>1. Expired(S) = {F(x) : x \in invitations}
  BY DEF Expired, Ended
<1>2. ASSUME NEW x \in invitations
      PROVE  /\ F(x) \in Invitation(DOMAIN commands) /\ F(x).id = x.id
             /\ F(x) = x \/ F(x).state = "expired"
             /\ F(x).state = "pending" => F(x) = x /\ x \notin S
             /\ x \notin S => F(x) = x
  <2>1. x \in Invitation(DOMAIN commands)
    OBVIOUS
  <2> QED
    BY <2>1, EndingKeepsTheRest
<1> HIDE DEF F
<1>3. OneOfEach(Expired(S))
  BY <1>1, <1>2 DEF OneOfEach
<1> QED
  BY <1>1, <1>2, <1>3

\* An answer ends the one invitation that it is about, and lets others expire.
LEMMA AnswerFacts ==
  ASSUME invitations \subseteq Invitation(DOMAIN commands), OneOfEach(invitations),
         NEW S, NEW x \in invitations, x \notin S,
         NEW state \in {"accepted", "declined", "blocked"},
         invitations' = {IF y = x THEN [x EXCEPT !.state = state] ELSE y : y \in Expired(S)}
  PROVE  /\ invitations' \subseteq Invitation(DOMAIN commands)
         /\ OneOfEach(invitations')
         /\ \A y \in invitations' : \/ y \in invitations
                                    \/ y.state = "expired"
                                    \/ y = Ended(x, state)
         /\ \A y \in invitations' : y.state = "pending" => y \in invitations /\ y \notin S
<1> DEFINE e == Ended(x, state)
           F(y) == IF y = x THEN e ELSE y
<1>1. /\ e \in Invitation(DOMAIN commands) /\ e.id = x.id /\ e.state = state
  BY EndingKeepsTheRest
<1>2. invitations' = {F(y) : y \in Expired(S)}
  BY DEF Ended
<1> HIDE DEF e
<1>3. ASSUME NEW y \in Expired(S)
      PROVE  /\ F(y) \in Invitation(DOMAIN commands) /\ F(y).id = y.id
             /\ F(y) \in invitations \/ F(y).state = "expired" \/ F(y) = e
             /\ F(y).state = "pending" => F(y) \in invitations /\ F(y) \notin S
  BY <1>1, ExpiryFacts
<1> HIDE DEF F
<1>4. OneOfEach(invitations')
  BY <1>2, <1>3, ExpiryFacts DEF OneOfEach
<1> QED
  BY <1>2, <1>3, <1>4 DEF e

\* Nothing new is pending, and nobody is known by a new locator.
LEMMA LobbyOnlyShrinks ==
  ASSUME LobbyIsSound, UNCHANGED commands,
         invitations' \subseteq Invitation(DOMAIN commands), OneOfEach(invitations'),
         \A y \in invitations' : y.state = "pending" => y \in invitations,
         looking' \in [Users -> 0..Len(commands)],
         \A u \in Users : looking'[u] \in {0, looking[u]},
         blocks' \subseteq Users \X Users
  PROVE  LobbyIsSound'
<1>1. LocatorsAreCurrent'
  <2>1. ASSUME NEW x \in invitations', x.state = "pending"
        PROVE  /\ looking'[x.to] \in {0, x.locator}
               /\ \A y \in invitations' :
                    y.state = "pending" /\ y.table = x.table /\ y.to = x.to => y = x
    BY <2>1 DEF LobbyIsSound, LocatorsAreCurrent, Invitation
  <2> QED
    BY <2>1 DEF LocatorsAreCurrent
<1> QED
  BY <1>1 DEF LobbyIsSound, OneOfEach

\* Steps that leave presences, invitations and blocks alone.
LEMMA LobbyUntouched ==
  ASSUME LobbyIsSound, UNCHANGED <<lobbyVars, commands>>
  PROVE  LobbyIsSound'
  BY DEF LobbyIsSound, LocatorsAreCurrent, lobbyVars

\* The types of the lobby.
LEMMA LobbyFacts ==
  ASSUME LobbyIsSound
  PROVE  /\ invitations \subseteq Invitation(DOMAIN commands) /\ OneOfEach(invitations)
         /\ \A x \in invitations : x.to \in Users /\ x.from \in Users /\ x.table \in Tables
         /\ looking \in [Users -> 0..Len(commands)]
         /\ blocks \subseteq Users \X Users
  BY DEF LobbyIsSound, OneOfEach, Invitation

\* Whoever stops looking has no pending invitation left.
LEMMA StoppingIsSound ==
  ASSUME WorkIsSound, LobbyIsSound, UNCHANGED commands, NEW u \in Users, StopsLooking(u)
  PROVE  LobbyIsSound'
<1>1. /\ looking' \in [Users -> 0..Len(commands)]
      /\ \A v \in Users : looking'[v] \in {0, looking[v]}
  BY LobbyFacts DEF StopsLooking, WorkIsSound
<1>2. /\ invitations' \subseteq Invitation(DOMAIN commands) /\ OneOfEach(invitations')
      /\ \A y \in invitations' : y.state = "pending" => y \in invitations
  BY LobbyFacts, ExpiryFacts DEF StopsLooking
<1> QED
  BY <1>1, <1>2, LobbyFacts, LobbyOnlyShrinks DEF StopsLooking

\* A presence that goes stale ends as if its owner had stopped looking.
LEMMA LapseIsSound ==
  ASSUME WorkIsSound, LobbyIsSound, Lapse
  PROVE  LobbyIsSound'
<1>1. ASSUME NEW u \in Users, looking' = [looking EXCEPT ![u] = 0], UNCHANGED invitations
      PROVE  LobbyIsSound'
  <2>1. /\ looking' \in [Users -> 0..Len(commands)]
        /\ \A v \in Users : looking'[v] \in {0, looking[v]}
    BY <1>1, LobbyFacts DEF WorkIsSound
  <2> QED
    BY <1>1, <2>1, LobbyFacts, LobbyOnlyShrinks DEF Lapse
<1>2. ASSUME NEW x \in invitations, invitations' = Expired({x}), UNCHANGED looking
      PROVE  LobbyIsSound'
  <2>1. /\ invitations' \subseteq Invitation(DOMAIN commands) /\ OneOfEach(invitations')
        /\ \A y \in invitations' : y.state = "pending" => y \in invitations
    BY <1>2, LobbyFacts, ExpiryFacts
  <2> QED
    BY Zenon, <1>2, <2>1, LobbyFacts, LobbyOnlyShrinks DEF Lapse
<1> QED
  BY Zenon, <1>1, <1>2 DEF Lapse

\* A block ends the invitations between the two.
LEMMA BlockSeekerIsSound ==
  ASSUME LobbyIsSound, NEW u \in Users, NEW v \in Users, BlockSeeker(u, v)
  PROVE  LobbyIsSound'
<1>1. /\ invitations' \subseteq Invitation(DOMAIN commands) /\ OneOfEach(invitations')
      /\ \A y \in invitations' : y.state = "pending" => y \in invitations
  BY LobbyFacts, ExpiryFacts DEF BlockSeeker
<1>2. blocks' \subseteq Users \X Users
  BY LobbyFacts DEF BlockSeeker
<1> QED
  BY Zenon, <1>1, <1>2, LobbyFacts, LobbyOnlyShrinks DEF BlockSeeker

\* A declined invitation is not pending.
LEMMA DeclineIsSound ==
  ASSUME LobbyIsSound, NEW u \in Users, Decline(u)
  PROVE  LobbyIsSound'
<1> PICK x \in invitations :
      /\ x.to = u /\ x.state = "pending"
      /\ \/ /\ invitations' = (invitations \ {x}) \cup {[x EXCEPT !.state = "declined"]}
            /\ UNCHANGED blocks
         \/ /\ blocks' = blocks \cup {<<u, x.from>>}
            /\ invitations' = {IF y = x THEN [x EXCEPT !.state = "blocked"] ELSE y :
                  y \in Expired({z \in invitations \ {x} : {z.from, z.to} = {u, x.from}})}
  BY Zenon DEF Decline
<1>1. /\ invitations' \subseteq Invitation(DOMAIN commands) /\ OneOfEach(invitations')
      /\ \A y \in invitations' : y.state = "pending" => y \in invitations
      /\ blocks' \subseteq Users \X Users
  <2>1. CASE /\ invitations' = (invitations \ {x}) \cup {[x EXCEPT !.state = "declined"]}
             /\ UNCHANGED blocks
    <3> DEFINE e == Ended(x, "declined")
    <3>1. x \in Invitation(DOMAIN commands)
      BY LobbyFacts
    <3>2. /\ e \in Invitation(DOMAIN commands) /\ e.id = x.id /\ e.state = "declined"
      BY <3>1, EndingKeepsTheRest
    <3>3. invitations' = (invitations \ {x}) \cup {e}
      BY <2>1 DEF Ended
    <3> HIDE DEF e
    <3> QED
      BY Zenon, <2>1, <3>2, <3>3, LobbyFacts DEF OneOfEach
  <2>2. CASE /\ blocks' = blocks \cup {<<u, x.from>>}
             /\ invitations' = {IF y = x THEN [x EXCEPT !.state = "blocked"] ELSE y :
                  y \in Expired({z \in invitations \ {x} : {z.from, z.to} = {u, x.from}})}
    <3> DEFINE S == {z \in invitations \ {x} : {z.from, z.to} = {u, x.from}}
    <3>1. x \notin S /\ invitations' = {IF y = x THEN [x EXCEPT !.state = "blocked"] ELSE y :
                                y \in Expired(S)}
      BY <2>2
    <3> HIDE DEF S
    <3>2. /\ invitations' \subseteq Invitation(DOMAIN commands) /\ OneOfEach(invitations')
          /\ \A y \in invitations' : y.state = "pending" => y \in invitations
      BY Zenon, <3>1, LobbyFacts, AnswerFacts
    <3>3. blocks' \subseteq Users \X Users
      <4>1. <<u, x.from>> \in Users \X Users
        BY LobbyFacts
      <4> QED
        BY <2>2, <4>1, LobbyFacts
    <3> QED
      BY <3>2, <3>3
  <2> QED
    BY Zenon, <2>1, <2>2
<1> QED
  BY <1>1, LobbyFacts, LobbyOnlyShrinks DEF Decline

\* A new presence starts without invitations.
LEMMA OptInIsSound ==
  ASSUME WorkIsSound, LobbyIsSound, NEW r \in Requests, OptIn(r)
  PROVE  LobbyIsSound'
<1> DEFINE u == Asker(r)
           id == requests[r].id
<1>1. u \in Users /\ id \in DOMAIN commands /\ id \in 0..Len(commands)
  BY RequestFacts DEF OptIn, At, WorkIsSound
<1>2. CASE UNCHANGED <<looking, invitations>>
  BY <1>2, LobbyUntouched DEF OptIn, lobbyVars
<1>3. CASE /\ looking' = [looking EXCEPT ![u] = id]
           /\ invitations' = Expired({x \in invitations : x.to = u /\ x.locator # id})
  <2>1. /\ invitations' \subseteq Invitation(DOMAIN commands) /\ OneOfEach(invitations')
        /\ \A y \in invitations' : y.state = "pending" =>
             y \in invitations /\ (y.to = u => y.locator = id)
    BY <1>3, LobbyFacts, ExpiryFacts
  <2>2. looking' \in [Users -> 0..Len(commands)]
    BY <1>1, <1>3, LobbyFacts
  <2>3. LocatorsAreCurrent'
    <3>1. ASSUME NEW x \in invitations', x.state = "pending"
          PROVE  /\ looking'[x.to] \in {0, x.locator}
                 /\ \A y \in invitations' :
                      y.state = "pending" /\ y.table = x.table /\ y.to = x.to => y = x
      BY <1>1, <1>3, <2>1, <3>1, LobbyFacts DEF LobbyIsSound, LocatorsAreCurrent
    <3> QED
      BY <3>1 DEF LocatorsAreCurrent
  <2> QED
    BY <2>1, <2>2, <2>3 DEF LobbyIsSound, OptIn, OneOfEach
<1> QED
  BY <1>2, <1>3 DEF OptIn

\* An invitation is sent to a current presence, under the ID of its command.
LEMMA InviteIsSound ==
  ASSUME WorkIsSound, LobbyIsSound, NEW r \in Requests, Invite(r)
  PROVE  LobbyIsSound'
<1> DEFINE q == requests[r]
           c == commands[q.id]
           i == [id |-> q.id, from |-> c.by, to |-> q.to, locator |-> c.to,
                 table |-> c.table, state |-> "pending"]
<1>1. CASE UNCHANGED invitations
  BY <1>1, LobbyUntouched DEF Invite, lobbyVars
<1>2. CASE /\ Inviting(c, q.to) /\ ~Taken(c, q.to, q.id)
           /\ invitations' = invitations \cup {i}
  <2>1. RequestIsSound(q) /\ q # Idle
    BY RequestFacts DEF Invite, At, Idle
  <2>2. q.to \in Users /\ q.id \in DOMAIN commands
    BY <2>1 DEF RequestIsSound, Invite, At
  <2>3. c.by \in Users /\ c.table \in Tables /\ c.to \in Nat \ {0}
    BY RequestFacts, CommandFacts DEF Invite, At
  <2>4. looking[q.to] = c.to /\ c.to \in DOMAIN commands
    BY <1>2, <2>2, <2>3, LobbyFacts DEF Inviting, WorkIsSound
  <2>5. i \in Invitation(DOMAIN commands)
    BY <2>2, <2>3, <2>4 DEF Invitation
  <2>6. \A x \in invitations :
          x.id # i.id /\ ~(x.state = "pending" /\ x.table = i.table /\ x.to = i.to)
    BY <1>2 DEF Taken
  <2>7. looking[i.to] = i.locator
    BY <2>4
  <2> HIDE DEF i
  <2>8. LocatorsAreCurrent'
    <3>1. ASSUME NEW x \in invitations', x.state = "pending"
          PROVE  /\ looking'[x.to] \in {0, x.locator}
                 /\ \A y \in invitations' :
                      y.state = "pending" /\ y.table = x.table /\ y.to = x.to => y = x
      BY <1>2, <2>6, <2>7, <3>1 DEF LobbyIsSound, LocatorsAreCurrent, Invite
    <3> QED
      BY <3>1 DEF LocatorsAreCurrent
  <2>9. \A x, y \in invitations' : x.id = y.id => x = y
    BY <1>2, <2>6 DEF LobbyIsSound
  <2> QED
    BY <1>2, <2>5, <2>8, <2>9 DEF LobbyIsSound, Invite
<1> QED
  BY <1>1, <1>2 DEF Invite

\* the effect of an invitation that is accepted
Accepting(x) ==
  /\ Acceptable(x, game[x.table].version)
  /\ game' = [game EXCEPT ![x.table].seated = @ \cup {x.to},
                          ![x.table].version = @ + 1,
                          ![x.table].scope = "public_safe"]
  /\ listing' = TakenDown(x.table, "unlisted")
  /\ looking' = [looking EXCEPT ![x.to] = 0]
  /\ invitations' =
       {IF y = x THEN [x EXCEPT !.state = "accepted"] ELSE y :
          y \in Expired({z \in invitations \ {x} : z.to = x.to \/ z.table = x.table})}

\* An acceptance ends every other invitation of its recipient and of its table.
LEMMA AcceptingFacts ==
  ASSUME LobbyIsSound, NEW x \in invitations, Accepting(x)
  PROVE  /\ invitations' \subseteq Invitation(DOMAIN commands) /\ OneOfEach(invitations')
         /\ \A y \in invitations' : \/ y \in invitations
                                    \/ y.state = "expired"
                                    \/ y = Ended(x, "accepted")
         /\ \A y \in invitations' : y.state = "pending" =>
              y \in invitations /\ y.to # x.to /\ y.table # x.table
<1> DEFINE S == {z \in invitations \ {x} : z.to = x.to \/ z.table = x.table}
<1>1. /\ x \notin S
      /\ invitations' = {IF y = x THEN [x EXCEPT !.state = "accepted"] ELSE y : y \in Expired(S)}
  BY DEF Accepting
<1>2. \A z \in invitations : z \notin S => z = x \/ (z.to # x.to /\ z.table # x.table)
  OBVIOUS
<1> HIDE DEF S
<1>3. /\ invitations' \subseteq Invitation(DOMAIN commands) /\ OneOfEach(invitations')
      /\ \A y \in invitations' : \/ y \in invitations
                                 \/ y.state = "expired"
                                 \/ y = Ended(x, "accepted")
      /\ \A y \in invitations' : y.state = "pending" => y \in invitations /\ y \notin S
  BY Zenon, <1>1, LobbyFacts, AnswerFacts
<1>4. x \notin invitations'
  <2> SUFFICES ASSUME x \in invitations' PROVE FALSE
    OBVIOUS
  <2>1. x \in Invitation(DOMAIN commands) /\ x.state = "pending"
    BY LobbyFacts DEF Accepting, Acceptable
  <2>2. PICK y \in Expired(S) : x = IF y = x THEN [x EXCEPT !.state = "accepted"] ELSE y
    BY <1>1
  <2>3. x = Ended(x, "accepted")
    BY <2>2 DEF Ended
  <2>4. Ended(x, "accepted").state = "accepted"
    BY <2>1, EndingKeepsTheRest
  <2> QED
    BY <2>1, <2>3, <2>4
<1> QED
  BY <1>2, <1>3, <1>4

\* The batch of an acceptance commits it, or touches nothing of the lobby.
LEMMA AcceptedOrNot ==
  ASSUME NEW r \in Requests, Accept(r)
  PROVE  \/ UNCHANGED <<tableVars, looking, invitations>>
         \/ \E x \in invitations : Accepting(x)
  BY Zenon DEF Accept, Accepting, Acceptable

\* An acceptance leaves one invitation per ID, and the pending ones current.
LEMMA AcceptKeepsLobby ==
  ASSUME WorkIsSound, LobbyIsSound, NEW r \in Requests, Accept(r)
  PROVE  LobbyIsSound'
<1>1. CASE UNCHANGED <<looking, invitations>>
  BY <1>1, LobbyUntouched DEF lobbyVars, Accept
<1>2. ASSUME NEW x \in invitations, Accepting(x)
      PROVE  LobbyIsSound'
  <2>1. /\ looking' \in [Users -> 0..Len(commands)]
        /\ \A v \in Users : looking'[v] \in {0, looking[v]}
    BY <1>2, LobbyFacts DEF Accepting, WorkIsSound
  <2> QED
    BY <1>2, <2>1, LobbyFacts, AcceptingFacts, LobbyOnlyShrinks DEF Accept
<1> QED
  BY <1>1, <1>2, AcceptedOrNot

\* No step leaves a pending invitation that is not current.
LEMMA LobbyStaysSound ==
  ASSUME DiscoveryInvariant, Next
  PROVE  LobbyIsSound'
<1> USE DEF DiscoveryInvariant
<1>1. CASE MemberMoves
  BY Zenon, <1>1, MemberMovesFrame, StoppingIsSound, LobbyUntouched
<1>2. CASE Traffic
  BY <1>2, LobbyUntouched DEF Traffic, Ask, Drop, serverVars
<1>3. CASE ComposeListing \/ ComposeInvitation
  <2>1. /\ Len(commands') = Len(commands) + 1 /\ Len(commands) \in Nat
        /\ DOMAIN commands \subseteq DOMAIN commands'
        /\ UNCHANGED lobbyVars
    <3>1. PICK c \in Command : Compose(c)
      BY <1>3, ComposedIsACommand
    <3>2. UNCHANGED lobbyVars
      BY <3>1 DEF Compose, serverVars
    <3>3. Len(commands) \in Nat
      BY DEF WorkIsSound
    <3> QED
      BY <3>1, <3>2, <3>3, CommandIsAdded
  <2>2. looking' \in [Users -> 0..Len(commands')]
    BY <2>1, LobbyFacts DEF lobbyVars
  <2>3. invitations' \subseteq Invitation(DOMAIN commands')
    BY <2>1, LobbyFacts DEF Invitation, lobbyVars
  <2> QED
    BY <2>1, <2>2, <2>3 DEF LobbyIsSound, LocatorsAreCurrent, lobbyVars
<1>4. CASE LobbyMoves
  <2>1. ASSUME NEW u \in Users, OptOut(u)
        PROVE  LobbyIsSound'
    BY <2>1, StoppingIsSound DEF OptOut
  <2> QED
    BY <1>4, <2>1, LapseIsSound, DeclineIsSound, BlockSeekerIsSound DEF LobbyMoves
<1>5. CASE ServeListing
  <2> PICK r \in Requests : \/ ReadTable(r) \/ Publish(r) \/ Withdraw(r)
                            \/ Aim(r) \/ ReadTarget(r) \/ TakeSeat(r) \/ LoseSeat(r)
    BY <1>5 DEF ServeListing
  <2>1. CASE ReadTable(r) \/ Publish(r) \/ Withdraw(r) \/ Aim(r) \/ ReadTarget(r)
    BY Zenon, <2>1, LobbyUntouched DEF ReadTable, Publish, Withdraw, Aim, ReadTarget, serverVars
  <2>2. CASE TakeSeat(r) \/ LoseSeat(r)
    <3>1. Asker(r) \in Users
      BY Zenon, <2>2, RequestFacts DEF TakeSeat, LoseSeat, Joins, At
    <3>2. UNCHANGED commands /\ (UNCHANGED lobbyVars \/ StopsLooking(Asker(r)))
      BY Zenon, <2>2 DEF TakeSeat, LoseSeat, serverVars
    <3> QED
      BY <3>1, <3>2, StoppingIsSound, LobbyUntouched
  <2> QED
    BY <2>1, <2>2
<1>6. CASE ServeInvitation
  <2> PICK r \in Requests : \/ CheckSeeker(r) \/ OptIn(r) \/ ReadSeeker(r) \/ Invite(r)
                            \/ ReadInvitation(r) \/ Accept(r)
    BY <1>6 DEF ServeInvitation
  <2>1. CASE CheckSeeker(r) \/ ReadSeeker(r) \/ ReadInvitation(r)
    BY Zenon, <2>1, LobbyUntouched DEF CheckSeeker, ReadSeeker, ReadInvitation, serverVars
  <2> QED
    BY <2>1, OptInIsSound, InviteIsSound, AcceptKeepsLobby
<1> QED
  BY <1>1, <1>2, <1>3, <1>4, <1>5, <1>6 DEF Next

-----------------------------------------------------------------------------
(***************************************************************************)
(* Whoever sits somewhere has not been invited.                            *)
(***************************************************************************)
SitsAt(u, s) == game[s].room = "open" /\ rows[s][u].source # "none"

\* A move of a member seats nobody who has not stopped looking.
LEMMA MembersTakeSeats ==
  ASSUME TablesAreSound, MemberMoves, NEW u \in Users, NEW s \in Tables,
         SitsAt(u, s)', ~SitsAt(u, s)
  PROVE  StopsLooking(u)
<1>1. /\ game[s] \in Game /\ rows[s] \in [Users -> Row]
      /\ game \in [Tables -> Game] /\ rows \in [Tables -> [Users -> Row]]
  BY DEF TablesAreSound
<1>2. ASSUME NEW v \in Users, NEW t \in Tables, Create(v, t)
      PROVE  u = v
  <2>1. s # t => game'[s] = game[s] /\ rows'[s] = rows[s]
    BY <1>2 DEF Create
  <2>2. s = t
    BY <2>1 DEF SitsAt
  <2>3. rows'[s] = NewRows(v)
    BY <1>1, <1>2, <2>2 DEF Create
  <2> QED
    BY <2>3 DEF SitsAt, NewRows, NoRow
<1>3. ASSUME NEW v \in Users, NEW t \in Tables, JoinByCode(v, t)
      PROVE  u = v
  <2>1. u # v => rows'[s][u] = rows[s][u]
    BY <1>1, <1>3 DEF JoinByCode
  <2>2. game'[s].room = game[s].room
    <3> PICK g \in Game : g = game[t]
      BY <1>1
    <3>1. game' = [game EXCEPT ![t] = [g EXCEPT !.seated = @ \cup {v}, !.version = @ + 1]]
      BY <1>1, <1>3 DEF JoinByCode
    <3> QED
      BY <1>1, <3>1 DEF Game
  <2> QED
    BY <2>1, <2>2 DEF SitsAt
<1>4. ASSUME NEW v \in Users, NEW t \in Tables, Leave(v, t)
      PROVE  FALSE
  <2>1. rows'[s][u].source # "none" => rows'[s][u] = rows[s][u]
    <3>1. rows' = [rows EXCEPT ![t][v] = NoRow]
      BY Zenon, <1>4 DEF Leave
    <3> QED
      BY <1>1, <3>1 DEF NoRow
  <2>2. game'[s].room = "open" => game[s].room = "open"
    <3> PICK g \in Game : g = game[t]
      BY <1>1
    <3>1. CASE game' = [game EXCEPT ![t].seated = {}, ![t].version = @ + 1, ![t].room = "closed"]
      BY <1>1, <3>1 DEF Game
    <3>2. CASE \E w : game' = [game EXCEPT ![t].seated = @ \ {v}, ![t].version = @ + 1,
                                          ![t].host = {w}]
      <4>1. PICK w : game' = [game EXCEPT ![t] = [g EXCEPT !.seated = @ \ {v}, !.version = @ + 1,
                                                          !.host = {w}]]
        BY <1>1, <3>2
      <4> QED
        BY <1>1, <4>1 DEF Game
    <3> QED
      BY Zenon, <1>4, <3>1, <3>2 DEF Leave
  <2> QED
    BY <2>1, <2>2 DEF SitsAt
<1>5. ASSUME NEW t \in Tables,
             (\E v \in Users : ClaimHost(v, t)) \/ StartGame(t) \/ CloseLobby(t)
      PROVE  FALSE
  <2>1. rows' = rows
    BY <1>5 DEF ClaimHost, StartGame, CloseLobby
  <2>2. game'[s].room = "open" => game[s].room = "open"
    <3> PICK g \in Game : g = game[t]
      BY <1>1
    <3>1. CASE \E v \in Users : ClaimHost(v, t)
      <4>1. PICK v \in Users : game' = [game EXCEPT ![t] = [g EXCEPT !.host = {v}, !.version = @ + 1]]
        BY <1>1, <3>1 DEF ClaimHost
      <4> QED
        BY <1>1, <4>1 DEF Game
    <3>2. CASE StartGame(t)
      <4>1. game' = [game EXCEPT ![t] = [g EXCEPT !.phase = "playing", !.version = @ + 1]]
        BY <1>1, <3>2 DEF StartGame
      <4> QED
        BY <1>1, <4>1 DEF Game
    <3>3. CASE CloseLobby(t)
      <4>1. game' = [game EXCEPT ![t] = [g EXCEPT !.room = "closed", !.version = @ + 1]]
        BY <1>1, <3>3 DEF CloseLobby
      <4> QED
        BY <1>1, <4>1 DEF Game
    <3> QED
      BY <1>5, <3>1, <3>2, <3>3
  <2> QED
    BY <2>1, <2>2 DEF SitsAt
<1>6. ASSUME NEW v \in Users, NEW t \in Tables, Create(v, t) \/ JoinByCode(v, t)
      PROVE  StopsLooking(u)
  BY Zenon, <1>2, <1>3, <1>6 DEF Create, JoinByCode
<1> QED
  BY <1>4, <1>5, <1>6 DEF MemberMoves

\* A stranger is seated by a join, and then stops looking.
LEMMA StrangersTakeSeats ==
  ASSUME WorkIsSound, TablesAreSound, ServeListing, NEW u \in Users, NEW s \in Tables,
         SitsAt(u, s)', ~SitsAt(u, s)
  PROVE  StopsLooking(u)
<1>1. /\ game[s] \in Game /\ rows[s] \in [Users -> Row]
      /\ game \in [Tables -> Game] /\ rows \in [Tables -> [Users -> Row]]
  BY DEF TablesAreSound
<1> PICK r \in Requests : \/ ReadTable(r) \/ Publish(r) \/ Withdraw(r)
                          \/ Aim(r) \/ ReadTarget(r) \/ TakeSeat(r) \/ LoseSeat(r)
  BY DEF ServeListing
<1> DEFINE t == requests[r].saw.table
           v == Asker(r)
<1>2. ASSUME UNCHANGED <<game, rows>>
      PROVE  FALSE
  BY <1>2 DEF SitsAt
<1>3. CASE ReadTable(r) \/ Withdraw(r) \/ Aim(r) \/ ReadTarget(r)
  BY Zenon, <1>2, <1>3 DEF ReadTable, Withdraw, Aim, ReadTarget, serverVars, tableVars
<1>4. ASSUME game'[s].room = game[s].room, v # u => rows'[s][u] = rows[s][u], StopsLooking(v)
      PROVE  StopsLooking(u)
  BY <1>4 DEF SitsAt
<1>5. CASE Publish(r)
  <2>1. PICK w : w = v
    OBVIOUS
  <2>2. rows'[s][u].source = rows[s][u].source
    <3>1. PICK row \in Row : row = rows[s][u]
      BY <1>1
    <3>2. CASE rows' = [rows EXCEPT ![t][w].consent = TRUE]
      BY <1>1, <3>1, <3>2 DEF Row, NoRow
    <3>3. CASE rows' = [rows EXCEPT ![t][w] = IF @ = NoRow THEN @ ELSE [@ EXCEPT !.consent = TRUE]]
      BY <1>1, <3>1, <3>3 DEF Row, NoRow
    <3> QED
      BY <1>5, <1>2, <2>1, <3>2, <3>3 DEF Publish, tableVars
  <2>3. game'[s].room = game[s].room
    <3>1. CASE game' = [game EXCEPT ![t].version = @ + 1, ![t].scope = "public_safe"]
      <4> PICK g \in Game : g = game[s]
        BY <1>1
      <4> QED
        BY <1>1, <3>1 DEF Game
    <3> QED
      BY <1>5, <3>1 DEF Publish, tableVars
  <2> QED
    BY <2>2, <2>3 DEF SitsAt
<1>6. CASE TakeSeat(r)
  <2>1. CASE Collides(requests[r])
    BY Zenon, <1>2, <1>6, <2>1 DEF TakeSeat, serverVars, tableVars
  <2>2. CASE ~Collides(requests[r])
    <3>1. /\ rows' = [rows EXCEPT ![t][v] = [source |-> "public", consent |-> TRUE]]
          /\ game' = [game EXCEPT ![t].seated = @ \cup {v}, ![t].version = @ + 1,
                                  ![t].scope = "public_safe"]
          /\ StopsLooking(v)
      BY Zenon, <1>6, <2>2 DEF TakeSeat
    <3>2. game'[s].room = game[s].room
      <4> PICK g \in Game : g = game[s]
        BY <1>1
      <4> QED
        BY <1>1, <3>1 DEF Game
    <3>3. v # u => rows'[s][u] = rows[s][u]
      BY <1>1, <3>1
    <3> QED
      BY <1>4, <3>1, <3>2, <3>3
  <2> QED
    BY <2>1, <2>2
<1>7. CASE LoseSeat(r)
  <2>1. CASE UNCHANGED serverVars
    BY Zenon, <1>2, <2>1 DEF serverVars, tableVars
  <2>2. CASE /\ rows' = [rows EXCEPT ![t][v] =
                          IF @ = NoRow THEN [source |-> "public", consent |-> TRUE] ELSE @]
             /\ game' = game /\ StopsLooking(v)
    <3>1. v # u => rows'[s][u] = rows[s][u]
      BY <1>1, <2>2
    <3> QED
      BY <1>4, <2>2, <3>1
  <2> QED
    BY Zenon, <1>7, <2>1, <2>2 DEF LoseSeat
<1> QED
  BY <1>3, <1>5, <1>6, <1>7

\* Whoever comes to sit somewhere has stopped looking, or has accepted.
LEMMA SeatsAreTaken ==
  ASSUME DiscoveryInvariant, Next, NEW u \in Users, NEW s \in Tables,
         SitsAt(u, s)', ~SitsAt(u, s)
  PROVE  StopsLooking(u) \/ \E x \in invitations : Accepting(x) /\ x.to = u
<1> USE DEF DiscoveryInvariant
<1>1. ASSUME UNCHANGED <<game, rows>>
      PROVE  FALSE
  BY <1>1 DEF SitsAt
<1>2. CASE MemberMoves
  BY <1>2, MembersTakeSeats
<1>3. CASE Traffic
  BY <1>1, <1>3 DEF Traffic, Ask, Drop, serverVars, tableVars
<1>4. CASE ComposeListing \/ ComposeInvitation
  BY Zenon, <1>1, <1>4, ComposedIsACommand DEF Compose, serverVars, tableVars
<1>5. CASE LobbyMoves
  BY Zenon, <1>1, <1>5 DEF LobbyMoves, Lapse, OptOut, Decline, BlockSeeker, tableVars
<1>6. CASE ServeListing
  BY <1>6, StrangersTakeSeats
<1>7. CASE ServeInvitation
  <2> PICK r \in Requests : \/ CheckSeeker(r) \/ OptIn(r) \/ ReadSeeker(r) \/ Invite(r)
                            \/ ReadInvitation(r) \/ Accept(r)
    BY <1>7 DEF ServeInvitation
  <2>1. CASE CheckSeeker(r) \/ OptIn(r) \/ ReadSeeker(r) \/ Invite(r) \/ ReadInvitation(r)
    BY Zenon, <1>1, <2>1
    DEF CheckSeeker, OptIn, ReadSeeker, Invite, ReadInvitation, serverVars, tableVars
  <2>2. CASE Accept(r)
    <3>1. CASE UNCHANGED tableVars
      BY Zenon, <1>1, <3>1 DEF tableVars
    <3>2. ASSUME NEW x \in invitations, Accepting(x),
                 rows' = [rows EXCEPT ![x.table][x.to] =
                            [source |-> "lobby_invite", consent |-> FALSE]]
          PROVE  x.to = u
      <4>1. game \in [Tables -> Game] /\ rows \in [Tables -> [Users -> Row]]
        BY DEF TablesAreSound
      <4>2. x.to # u => rows'[s][u] = rows[s][u]
        BY <3>2, <4>1
      <4>3. game'[s].room = game[s].room
        <5> PICK g \in Game : g = game[s]
          BY <4>1
        <5>1. game' = [game EXCEPT ![x.table].seated = @ \cup {x.to}, ![x.table].version = @ + 1,
                                   ![x.table].scope = "public_safe"]
          BY <3>2 DEF Accepting
        <5> QED
          BY <4>1, <5>1 DEF Game
      <4> QED
        BY <4>2, <4>3 DEF SitsAt
    <3>3. \/ UNCHANGED tableVars
          \/ \E x \in invitations :
               /\ Accepting(x)
               /\ rows' = [rows EXCEPT ![x.table][x.to] =
                             [source |-> "lobby_invite", consent |-> FALSE]]
      BY Zenon, <2>2 DEF Accept, Accepting, Acceptable
    <3> QED
      BY <3>1, <3>2, <3>3
  <2> QED
    BY <2>1, <2>2
<1> QED
  BY <1>2, <1>3, <1>4, <1>5, <1>6, <1>7 DEF Next

\* What is pending after a step was pending before, unless it is sent by the step.
LEMMA OnlyInviteInvites ==
  ASSUME DiscoveryInvariant, Next, NEW y \in invitations', y.state = "pending",
         ~\E r \in Requests : Invite(r)
  PROVE  y \in invitations
<1> USE DEF DiscoveryInvariant
<1>1. LobbyIsSound /\ WorkIsSound
  OBVIOUS
<1>2. ASSUME NEW S, invitations' = Expired(S)
      PROVE  y \in invitations
  BY <1>1, <1>2, LobbyFacts, ExpiryFacts
<1>3. ASSUME NEW u \in Users, Decline(u)
      PROVE  y \in invitations
  <2> PICK z \in invitations :
        \/ invitations' = (invitations \ {z}) \cup {[z EXCEPT !.state = "declined"]}
        \/ invitations' = {IF w = z THEN [z EXCEPT !.state = "blocked"] ELSE w :
              w \in Expired({w \in invitations \ {z} : {w.from, w.to} = {u, z.from}})}
    BY Zenon, <1>3 DEF Decline
  <2>1. z \in Invitation(DOMAIN commands)
    BY <1>1, LobbyFacts
  <2>2. CASE invitations' = (invitations \ {z}) \cup {[z EXCEPT !.state = "declined"]}
    <3>1. Ended(z, "declined").state = "declined"
      BY <2>1, EndingKeepsTheRest
    <3> QED
      BY Zenon, <2>2, <3>1 DEF Ended
  <2>3. CASE invitations' = {IF w = z THEN [z EXCEPT !.state = "blocked"] ELSE w :
              w \in Expired({w \in invitations \ {z} : {w.from, w.to} = {u, z.from}})}
    <3> DEFINE S == {w \in invitations \ {z} : {w.from, w.to} = {u, z.from}}
    <3>1. /\ z \notin S
          /\ invitations' = {IF w = z THEN [z EXCEPT !.state = "blocked"] ELSE w :
                              w \in Expired(S)}
      BY <2>3
    <3> HIDE DEF S
    <3> QED
      BY Zenon, <1>1, <3>1, LobbyFacts, AnswerFacts
  <2> QED
    BY Zenon, <2>2, <2>3
<1>4. ASSUME NEW r \in Requests, Accept(r)
      PROVE  y \in invitations
  <2>1. CASE UNCHANGED invitations
    BY <2>1
  <2>2. ASSUME NEW x \in invitations, Accepting(x)
        PROVE  y \in invitations
    BY <1>1, <2>2, AcceptingFacts
  <2> QED
    BY <1>4, <2>1, <2>2, AcceptedOrNot
<1>5. ASSUME UNCHANGED lobbyVars \/ UNCHANGED invitations \/ \E u \in Users : StopsLooking(u)
      PROVE  y \in invitations
  BY Zenon, <1>2, <1>5 DEF StopsLooking, lobbyVars
<1>6. CASE MemberMoves
  BY Zenon, <1>5, <1>6, MemberMovesFrame
<1>7. CASE Traffic
  BY <1>5, <1>7 DEF Traffic, Ask, Drop, serverVars
<1>8. CASE ComposeListing \/ ComposeInvitation
  BY Zenon, <1>5, <1>8, ComposedIsACommand DEF Compose, serverVars
<1>9. CASE LobbyMoves
  BY Zenon, <1>2, <1>3, <1>5, <1>9 DEF LobbyMoves, Lapse, OptOut, BlockSeeker
<1>10. CASE ServeListing
  <2> PICK r \in Requests : \/ ReadTable(r) \/ Publish(r) \/ Withdraw(r)
                            \/ Aim(r) \/ ReadTarget(r) \/ TakeSeat(r) \/ LoseSeat(r)
    BY <1>10 DEF ServeListing
  <2>1. CASE ReadTable(r) \/ Publish(r) \/ Withdraw(r) \/ Aim(r) \/ ReadTarget(r)
    BY Zenon, <1>5, <2>1 DEF ReadTable, Publish, Withdraw, Aim, ReadTarget, serverVars
  <2>2. CASE TakeSeat(r) \/ LoseSeat(r)
    <3>1. UNCHANGED lobbyVars \/ StopsLooking(Asker(r))
      BY Zenon, <2>2 DEF TakeSeat, LoseSeat, serverVars
    <3> QED
      BY Zenon, <1>2, <1>5, <3>1 DEF StopsLooking
  <2> QED
    BY <2>1, <2>2
<1>11. CASE ServeInvitation
  <2> PICK r \in Requests : \/ CheckSeeker(r) \/ OptIn(r) \/ ReadSeeker(r)
                            \/ ReadInvitation(r) \/ Accept(r)
    BY <1>11 DEF ServeInvitation
  <2>1. CASE CheckSeeker(r) \/ ReadSeeker(r) \/ ReadInvitation(r)
    BY Zenon, <1>5, <2>1 DEF CheckSeeker, ReadSeeker, ReadInvitation, serverVars
  <2>2. CASE OptIn(r)
    BY Zenon, <1>2, <1>5, <2>2 DEF OptIn
  <2> QED
    BY <1>4, <2>1, <2>2
<1> QED
  BY <1>6, <1>7, <1>8, <1>9, <1>10, <1>11 DEF Next

\* No step leaves somebody at an open table with a pending invitation.
LEMMA SeatedStayUninvited ==
  ASSUME DiscoveryInvariant, Next
  PROVE  SeatedAreUninvited'
<1> USE DEF DiscoveryInvariant
<1> SUFFICES ASSUME NEW y \in invitations', y.state = "pending"
             PROVE  ~InOpenTable(y.to)'
  BY DEF SeatedAreUninvited
<1>1. LobbyIsSound /\ WorkIsSound
  OBVIOUS
<1>2. ASSUME NEW r \in Requests, Invite(r)
      PROVE  ~InOpenTable(y.to)'
  <2>1. ~InOpenTable(y.to)
    <3>1. y \in invitations \/ (Inviting(commands[requests[r].id], requests[r].to) /\ y.to = requests[r].to)
      BY <1>2 DEF Invite
    <3> QED
      BY <3>1 DEF SeatedAreUninvited, Inviting
  <2>2. UNCHANGED tableVars
    BY <1>2 DEF Invite
  <2> QED
    BY <2>1, <2>2 DEF InOpenTable, Occupants, tableVars
<1>3. ASSUME ~\E r \in Requests : Invite(r)
      PROVE  ~InOpenTable(y.to)'
  <2>1. y \in invitations /\ y.to \in Users
    BY <1>1, <1>3, OnlyInviteInvites, LobbyFacts
  <2>2. ~InOpenTable(y.to)
    BY <2>1 DEF SeatedAreUninvited
  <2>3. ASSUME InOpenTable(y.to)'
        PROVE  FALSE
    <3>1. PICK s \in Tables : SitsAt(y.to, s)'
      BY <2>3 DEF InOpenTable, Occupants, SitsAt
    <3>2. ~SitsAt(y.to, s)
      BY <2>1, <2>2 DEF InOpenTable, Occupants, SitsAt
    <3>3. CASE StopsLooking(y.to)
      <4>1. invitations' = Expired({x \in invitations : x.to = y.to})
        BY <3>3 DEF StopsLooking
      <4> QED
        BY <1>1, <2>1, <4>1, LobbyFacts, ExpiryFacts
    <3>4. CASE \E x \in invitations : Accepting(x) /\ x.to = y.to
      BY <1>1, <3>4, AcceptingFacts
    <3> QED
      BY <2>1, <3>1, <3>2, <3>3, <3>4, SeatsAreTaken
  <2> QED
    BY <2>3
<1> QED
  BY <1>2, <1>3

-----------------------------------------------------------------------------
(***************************************************************************)
(* Receipts.                                                               *)
(***************************************************************************)
LEMMA ReceiptIsAdded ==
  ASSUME ReceiptsAreSound, UNCHANGED commands, NEW id \in DOMAIN commands,
         NEW t \in Tables \cup {"lobby"},
         commands[id].op \in {"publish", "withdraw"} => t = commands[id].table,
         ~Known(id) \/ commands[id].op \in {"publish", "withdraw"},
         receipts' = receipts \cup {[id |-> id, table |-> t]}
  PROVE  ReceiptsAreSound'
<1> DEFINE x == [id |-> id, table |-> t]
<1>1. /\ x \in [id: DOMAIN commands, table: Tables \cup {"lobby"}]
      /\ x.id = id /\ x.table = t
  OBVIOUS
<1>2. \A y \in receipts : y.id = id => y = x
  <2>1. ASSUME NEW y \in receipts, y.id = id
        PROVE  y.table = t
    BY <2>1 DEF ReceiptsAreSound, Known
  <2> QED
    BY <2>1 DEF ReceiptsAreSound
<1> HIDE DEF x
<1>3. \A y, z \in receipts' : y.id = z.id => y = z
  BY <1>1, <1>2 DEF ReceiptsAreSound, x
<1> QED
  BY <1>1, <1>3 DEF ReceiptsAreSound, x

\* Steps that write no receipt.
LEMMA ReceiptsUntouched ==
  ASSUME ReceiptsAreSound, UNCHANGED <<receipts, commands>>
  PROVE  ReceiptsAreSound'
  BY DEF ReceiptsAreSound

\* No step writes a second receipt of another content under one ID.
LEMMA ReceiptsStaySound ==
  ASSUME DiscoveryInvariant, Next
  PROVE  ReceiptsAreSound'
<1> USE DEF DiscoveryInvariant
<1>1. CASE MemberMoves
  BY Zenon, <1>1, MemberMovesFrame, ReceiptsUntouched
<1>2. CASE Traffic
  BY <1>2, ReceiptsUntouched DEF Traffic, Ask, Drop, serverVars
<1>3. CASE ComposeListing \/ ComposeInvitation
  <2>1. /\ DOMAIN commands \subseteq DOMAIN commands'
        /\ \A i \in DOMAIN commands : commands'[i] = commands[i]
        /\ UNCHANGED receipts
    BY Zenon, <1>3, ComposedIsACommand, CommandIsAdded DEF Compose, serverVars
  <2> QED
    BY <2>1 DEF ReceiptsAreSound
<1>4. CASE LobbyMoves
  BY Zenon, <1>4, ReceiptsUntouched DEF LobbyMoves, Lapse, OptOut, Decline, BlockSeeker
<1>5. CASE ServeListing
  <2> PICK r \in Requests : \/ ReadTable(r) \/ Publish(r) \/ Withdraw(r)
                            \/ Aim(r) \/ ReadTarget(r) \/ TakeSeat(r) \/ LoseSeat(r)
    BY <1>5 DEF ServeListing
  <2>1. CASE ReadTable(r) \/ Aim(r) \/ ReadTarget(r) \/ LoseSeat(r)
    BY Zenon, <2>1, ReceiptsUntouched DEF ReadTable, Aim, ReadTarget, LoseSeat, serverVars
  <2> DEFINE q == requests[r]
             t == q.saw.table
  <2>2. CASE Publish(r) \/ Withdraw(r)
    <3>1. /\ t \in Tables /\ t = commands[q.id].table /\ q.id \in DOMAIN commands
          /\ commands[q.id].op \in {"publish", "withdraw"} /\ UNCHANGED commands
      BY Zenon, <2>2, ListingRequestFacts DEF Publish, Withdraw, At
    <3>2. receipts' = receipts \/ receipts' = receipts \cup {[id |-> q.id, table |-> t]}
      BY Zenon, <2>2 DEF Publish, Withdraw
    <3> QED
      BY <3>1, <3>2, ReceiptIsAdded, ReceiptsUntouched
  <2>3. CASE TakeSeat(r)
    <3>1. /\ t \in Tables /\ q.id \in DOMAIN commands
          /\ commands[q.id].op \notin {"publish", "withdraw"} /\ UNCHANGED commands
      BY Zenon, <2>3, RequestFacts, JoinFacts DEF TakeSeat, Joins, At
    <3>2. \/ receipts' = receipts
          \/ ~Known(q.id) /\ receipts' = receipts \cup {[id |-> q.id, table |-> t]}
      BY Zenon, <2>3 DEF TakeSeat, Collides, serverVars
    <3> QED
      BY <3>1, <3>2, ReceiptIsAdded, ReceiptsUntouched
  <2> QED
    BY <2>1, <2>2, <2>3
<1>6. CASE ServeInvitation
  <2> PICK r \in Requests : \/ CheckSeeker(r) \/ OptIn(r) \/ ReadSeeker(r) \/ Invite(r)
                            \/ ReadInvitation(r) \/ Accept(r)
    BY <1>6 DEF ServeInvitation
  <2>1. CASE CheckSeeker(r) \/ ReadSeeker(r) \/ Invite(r) \/ ReadInvitation(r) \/ Accept(r)
    BY Zenon, <2>1, ReceiptsUntouched
    DEF CheckSeeker, ReadSeeker, Invite, ReadInvitation, Accept, serverVars
  <2>2. CASE OptIn(r)
    <3>1. /\ requests[r].id \in DOMAIN commands
          /\ commands[requests[r].id].op = "look" /\ UNCHANGED commands
      BY <2>2, RequestFacts DEF OptIn, At
    <3>2. \/ receipts' = receipts
          \/ /\ ~Known(requests[r].id)
            /\ receipts' = receipts \cup {[id |-> requests[r].id, table |-> "lobby"]}
      BY <2>2 DEF OptIn
    <3> QED
      BY <3>1, <3>2, ReceiptIsAdded, ReceiptsUntouched
  <2> QED
    BY <2>1, <2>2
<1> QED
  BY <1>1, <1>2, <1>3, <1>4, <1>5, <1>6 DEF Next

-----------------------------------------------------------------------------
(***************************************************************************)
(* The theorems.                                                           *)
(***************************************************************************)
LEMMA InitIsSound ==
  ASSUME Init
  PROVE  DiscoveryInvariant
<1>1. commands = <<>> /\ DOMAIN commands = {} /\ Len(commands) = 0 /\ commands \in Seq(Command)
  BY DEF Init
<1>2. WorkIsSound
  BY <1>1 DEF Init, WorkIsSound, RequestIsSound
<1>3. TablesAreSound
  <2>1. PICK hosts \in [Tables -> Hosts] :
          /\ game = [t \in Tables |-> IF hosts[t] = {} THEN NoTable
                                     ELSE NewTable(CHOOSE u \in Users : u \in hosts[t])]
          /\ rows = [t \in Tables |-> [u \in Users |-> IF u \in hosts[t]
                       THEN [source |-> "host", consent |-> FALSE] ELSE NoRow]]
    BY Zenon DEF Init, Hosts
  <2>2. listing = [t \in Tables |-> NoListing]
    BY DEF Init
  <2>3. /\ NoListing \in Listing /\ NoListing.state # "listed"
        /\ NoTable \in Game /\ NoTable.room # "open" /\ NoTable.seated = {}
        /\ NoRow \in Row /\ [source |-> "host", consent |-> FALSE] \in Row
        /\ [source |-> "host", consent |-> FALSE].source = "host"
    BY DiscoveryAssumption
    DEF DiscoveryAssumption, NoListing, Listing, NoTable, Game, Hosts, NoRow, Row, Sources
  <2>4. ASSUME NEW u \in Users
        PROVE  NewTable(u) \in Game /\ NewTable(u).host = {u} /\ NewTable(u).seated = {u}
    BY DiscoveryAssumption DEF NewTable, Game, Hosts, DiscoveryAssumption
  <2>5. ASSUME NEW t \in Tables
        PROVE  /\ game[t] \in Game /\ rows[t] \in [Users -> Row] /\ listing[t] \in Listing
               /\ Sound(game[t], rows[t], listing[t])
    <3>1. listing[t] \in Listing /\ listing[t].state # "listed"
      BY <2>2, <2>3
    <3>2. rows[t] \in [Users -> Row]
      BY <2>1, <2>3
    <3>3. CASE hosts[t] = {}
      <4>1. game[t] = NoTable
        BY <2>1, <3>3
      <4> QED
        BY <2>3, <3>1, <3>2, <4>1, UnlistedIsSound
    <3>4. CASE hosts[t] # {}
      <4>1. PICK u \in Users : hosts[t] = {u}
        BY <2>1, <3>4 DEF Hosts
      <4>2. (CHOOSE v \in Users : v \in hosts[t]) = u
        BY <4>1
      <4>3. game[t] = NewTable(u)
        BY Zenon, <2>1, <3>4, <4>2
      <4>4. rows[t][u].source # "none"
        BY <2>1, <2>3, <4>1
      <4> QED
        BY <2>4, <3>1, <3>2, <4>3, <4>4, UnlistedIsSound
    <3> QED
      BY <3>3, <3>4
  <2> QED
    BY Zenon, <2>1, <2>2, <2>5 DEF TablesAreSound
<1>4. LobbyIsSound
  BY <1>1 DEF Init, LobbyIsSound, LocatorsAreCurrent
<1>5. ReceiptsAreSound /\ SeatedAreUninvited
  BY DEF Init, ReceiptsAreSound, SeatedAreUninvited
<1> QED
  BY <1>2, <1>3, <1>4, <1>5 DEF DiscoveryInvariant

\* No step leads out of the invariant.
LEMMA StepIsSound ==
  ASSUME DiscoveryInvariant, [Next]_vars
  PROVE  DiscoveryInvariant'
<1>1. CASE Next
  BY <1>1, WorkStaysSound, TablesStaySound, LobbyStaysSound, ReceiptsStaySound,
     SeatedStayUninvited
  DEF DiscoveryInvariant
<1>2. CASE UNCHANGED vars
  <2>1. SeatedAreUninvited => SeatedAreUninvited'
    BY <1>2 DEF SeatedAreUninvited, InOpenTable, Occupants, vars, serverVars, tableVars, lobbyVars
  <2> QED
    BY <1>2, <2>1, WorkIsUntouched, TablesUntouched, LobbyUntouched, ReceiptsUntouched
    DEF DiscoveryInvariant, vars, serverVars
<1> QED
  BY <1>1, <1>2

\* Every step of listPublicRooms' and the lobby's writers keeps tables, members,
\* listings, invitations, receipts and requests consistent with one another.
THEOREM DiscoveryIsSound == Spec => []DiscoveryInvariant
<1>1. Init => DiscoveryInvariant
  BY InitIsSound
<1>2. DiscoveryInvariant /\ [Next]_vars => DiscoveryInvariant'
  BY StepIsSound
<1> QED
  BY <1>1, <1>2, PTL DEF Spec

\* The rows, requests and receipts are of their types.
THEOREM DiscoveryIsTyped == Spec => []TypeOK
<1>1. DiscoveryInvariant => TypeOK
  <2> SUFFICES ASSUME DiscoveryInvariant PROVE TypeOK
    OBVIOUS
  <2> USE DEF DiscoveryInvariant
  <2>1. game \in [Tables -> Game] /\ listing \in [Tables -> Listing]
    BY DEF TablesAreSound
  <2>2. rows \in [Tables -> [Users -> [source: Sources, consent: BOOLEAN]]]
    <3>1. Row \subseteq [source: Sources, consent: BOOLEAN]
      <4>1. NoRow \in [source: Sources, consent: BOOLEAN]
        BY DEF NoRow, Sources
      <4>2. [source: Sources \ {"none"}, consent: BOOLEAN]
             \subseteq [source: Sources, consent: BOOLEAN]
        OBVIOUS
      <4> QED
        BY <4>1, <4>2 DEF Row
    <3> QED
      BY <3>1 DEF TablesAreSound
  <2>3. \A t \in Tables : game[t].room = "open" => game[t].host \subseteq game[t].seated
    BY DEF TablesAreSound, Sound
  <2>4. ASSUME NEW r \in Requests, requests[r] # Idle
        PROVE  /\ requests[r].pc \in {"start", "read", "batch"}
               /\ requests[r].id \in DOMAIN commands
               /\ Joins(r, "read") => /\ requests[r].left \in 1..Attempts
                                      /\ Cardinality(requests[r].tried) \in 1..Selections
    <3>1. RequestIsSound(requests[r])
      BY DEF WorkIsSound
    <3> QED
      BY <2>4, <3>1, JoinFacts DEF RequestIsSound
  <2> QED
    BY Zenon, <2>1, <2>2, <2>3, <2>4
    DEF TypeOK, Game, Listing, Hosts, LobbyIsSound, Invitation, ReceiptsAreSound
<1> QED
  BY <1>1, DiscoveryIsSound, PTL

\* publish, public join, invitations, departures and closure, with all their
\* retries, never leave a table on the list that strangers should not see.
THEOREM ListingStaysHonest == Spec => []ListingIsHonest
<1>1. DiscoveryInvariant => ListingIsHonest
  BY DEF DiscoveryInvariant, TablesAreSound, Sound, ListingIsHonest, Waiting, Occupants
<1> QED
  BY <1>1, DiscoveryIsSound, PTL

\* command_receipts, lobby_presence_receipts and lobby_invitations hold one
\* row for a command, whichever of its copies was first.
THEOREM CommandsHaveOneEffect == Spec => []OneEffectPerCommand
<1>1. DiscoveryInvariant => OneEffectPerCommand
  BY DEF DiscoveryInvariant, LobbyIsSound, ReceiptsAreSound, OneEffectPerCommand
<1> QED
  BY <1>1, DiscoveryIsSound, PTL

\* What a seeker is shown was meant for the presence it has now.
THEOREM InvitationsStayCurrent == Spec => []PendingInvitationsAreCurrent
<1>1. DiscoveryInvariant => PendingInvitationsAreCurrent
  BY DEF DiscoveryInvariant, LobbyIsSound, LocatorsAreCurrent, SeatedAreUninvited,
         PendingInvitationsAreCurrent
<1> QED
  BY <1>1, DiscoveryIsSound, PTL

\* The table that a public join or an accepted invitation has filled.
LEMMA OneMoreFits ==
  ASSUME NEW t \in Tables, TablesAreSound, NEW u \in Users, Cardinality(Occupants(t)) < Capacity
  PROVE  Cardinality(game[t].seated \cup {u}) <= Capacity
<1>1. IsFiniteSet(Occupants(t)) /\ game[t].seated \subseteq Occupants(t)
  <2>1. IsFiniteSet(Occupants(t))
    BY DiscoveryAssumption, FS_Subset DEF DiscoveryAssumption, Occupants
  <2> QED
    BY <2>1, TableFacts DEF Sound, Occupants
<1>2. /\ IsFiniteSet(game[t].seated) /\ Cardinality(game[t].seated) <= Cardinality(Occupants(t))
      /\ Cardinality(game[t].seated) \in Nat /\ Cardinality(Occupants(t)) \in Nat
  BY <1>1, FS_Subset, FS_CardinalityType
<1>3. Cardinality(game[t].seated \cup {u}) <= Cardinality(game[t].seated) + 1
  <2>1. \/ Cardinality(game[t].seated \cup {u}) = Cardinality(game[t].seated)
        \/ Cardinality(game[t].seated \cup {u}) = Cardinality(game[t].seated) + 1
    BY Zenon, <1>2, FS_AddElement
  <2> QED
    BY <1>2, <2>1
<1>4. Cardinality(game[t].seated \cup {u}) \in Nat
  BY Zenon, <1>2, FS_AddElement, FS_CardinalityType
<1> QED
  BY <1>2, <1>3, <1>4, DiscoveryAssumption DEF DiscoveryAssumption

\* Whoever accepts finds the host alone.
LEMMA HostIsAlone ==
  ASSUME TablesAreSound, LobbyIsSound, NEW x \in invitations, Accepting(x)
  PROVE  /\ Occupants(x.table) = {x.from} /\ game[x.table].seated = {x.from}
         /\ ~Blocked(x.to, x.from) /\ ~InOpenTable(x.to)
<1>1. /\ HostsAlone(x.from, x.table) /\ ~Blocked(x.to, x.from) /\ ~InOpenTable(x.to)
      /\ x.table \in Tables /\ x.from \in Users
  BY LobbyFacts DEF Accepting, Acceptable
<1>2. /\ game[x.table].host = {x.from} /\ game[x.table].room = "open"
  BY <1>1 DEF HostsAlone, Waiting
<1>3. {x.from} \subseteq game[x.table].seated /\ game[x.table].seated \subseteq Occupants(x.table)
  BY <1>1, <1>2, TableFacts DEF Sound, Occupants
<1>4. Occupants(x.table) = {x.from}
  BY <1>1, <1>3, AloneIsAlone
<1> QED
  BY <1>1, <1>3, <1>4

\* Of the steps that seat somebody, those by code or by creation do not
\* make a stranger's row.
LEMMA StrangersAreSeated ==
  ASSUME DiscoveryInvariant, Next, NEW t \in Tables, NEW u \in Users,
         u \in game'[t].seated, u \notin game[t].seated, u \notin Occupants(t),
         rows'[t][u].source \in {"public", "lobby_invite"}
  PROVE  \/ \E r \in Requests :
              /\ TakeSeat(r) /\ t = requests[r].saw.table /\ u = Asker(r)
              /\ game'[t].seated = game[t].seated \cup {u}
         \/ \E x \in invitations :
              /\ Accepting(x) /\ t = x.table /\ u = x.to
              /\ game'[t].seated = game[t].seated \cup {u}
<1> USE DEF DiscoveryInvariant
<1>1. game' # game
  OBVIOUS
<1>2. CASE MemberMoves
  <2>1. ASSUME NEW v \in Users, NEW s \in Tables, Create(v, s)
        PROVE  FALSE
    <3>1. game' = [game EXCEPT ![s] = NewTable(v)] /\ rows' = [rows EXCEPT ![s] = NewRows(v)]
      BY <2>1 DEF Create
    <3>2. s = t /\ rows'[t] = NewRows(v)
      BY <3>1 DEF TablesAreSound
    <3> QED
      BY <3>2 DEF NewRows, NoRow
  <2>2. ASSUME NEW v \in Users, NEW s \in Tables, JoinByCode(v, s)
        PROVE  FALSE
    <3>1. /\ game' = [game EXCEPT ![s].seated = @ \cup {v}, ![s].version = @ + 1]
          /\ rows' = [rows EXCEPT ![s][v] =
                IF @ = NoRow THEN [source |-> "invite", consent |-> FALSE] ELSE @]
      BY <2>2 DEF JoinByCode
    <3>2. s = t /\ v = u
      BY <3>1 DEF TablesAreSound, Game
    <3>3. rows[t][u] = NoRow
      BY DEF TablesAreSound, Occupants, Row
    <3>4. rows'[t][u] = [source |-> "invite", consent |-> FALSE]
      BY <3>1, <3>2, <3>3 DEF TablesAreSound
    <3> QED
      BY <3>4
  <2>3. ASSUME NEW v \in Users, NEW s \in Tables, Leave(v, s)
        PROVE  FALSE
    BY <2>3 DEF Leave, TablesAreSound, Game
  <2>4. ASSUME NEW v \in Users, NEW s \in Tables, ClaimHost(v, s)
        PROVE  FALSE
    BY <2>4 DEF ClaimHost, TablesAreSound, Game
  <2>5. ASSUME NEW s \in Tables, StartGame(s) \/ CloseLobby(s)
        PROVE  FALSE
    BY <2>5 DEF StartGame, CloseLobby, TablesAreSound, Game
  <2> QED
    BY <1>2, <2>1, <2>2, <2>3, <2>4, <2>5 DEF MemberMoves
<1>3. CASE Traffic
  BY <1>1, <1>3 DEF Traffic, Ask, Drop, serverVars, tableVars
<1>4. CASE ComposeListing \/ ComposeInvitation
  BY Zenon, <1>1, <1>4, ComposedIsACommand DEF Compose, serverVars, tableVars
<1>5. CASE LobbyMoves
  BY Zenon, <1>1, <1>5 DEF LobbyMoves, Lapse, OptOut, Decline, BlockSeeker, tableVars
<1>6. CASE ServeListing
  <2> PICK r \in Requests : \/ ReadTable(r) \/ Publish(r) \/ Withdraw(r)
                            \/ Aim(r) \/ ReadTarget(r) \/ TakeSeat(r) \/ LoseSeat(r)
    BY <1>6 DEF ServeListing
  <2>1. CASE ReadTable(r) \/ Aim(r) \/ ReadTarget(r) \/ Withdraw(r) \/ LoseSeat(r)
    BY Zenon, <1>1, <2>1 DEF ReadTable, Aim, ReadTarget, Withdraw, LoseSeat, serverVars, tableVars
  <2>2. CASE Publish(r)
    <3>1. requests[r].saw.table \in Tables
      BY Zenon, <2>2, ListingRequestFacts DEF Publish
    <3>2. game' = [game EXCEPT ![requests[r].saw.table].version = @ + 1,
                               ![requests[r].saw.table].scope = "public_safe"]
      BY Zenon, <1>1, <2>2 DEF Publish, tableVars
    <3> QED
      BY SMTT(20), <3>1, <3>2 DEF TablesAreSound, Game
  <2>3. CASE TakeSeat(r)
    <3> DEFINE s == requests[r].saw.table
               v == Asker(r)
    <3>1. s \in Tables /\ v \in Users
      BY Zenon, <2>3, RequestFacts, JoinFacts DEF TakeSeat, Joins, At
    <3>2. game' = [game EXCEPT ![s].seated = @ \cup {v}, ![s].version = @ + 1,
                               ![s].scope = "public_safe"]
      BY Zenon, <1>1, <2>3 DEF TakeSeat, serverVars, tableVars
    <3> HIDE DEF s, v
    <3>3. s = t /\ v = u /\ game'[t].seated = game[t].seated \cup {u}
      BY <3>1, <3>2 DEF TablesAreSound, Game
    <3> QED
      BY <2>3, <3>3 DEF s, v
  <2> QED
    BY <2>1, <2>2, <2>3
<1>7. CASE ServeInvitation
  <2> PICK r \in Requests : \/ CheckSeeker(r) \/ OptIn(r) \/ ReadSeeker(r) \/ Invite(r)
                            \/ ReadInvitation(r) \/ Accept(r)
    BY <1>7 DEF ServeInvitation
  <2>1. CASE CheckSeeker(r) \/ OptIn(r) \/ ReadSeeker(r) \/ Invite(r) \/ ReadInvitation(r)
    BY Zenon, <1>1, <2>1 DEF CheckSeeker, OptIn, ReadSeeker, Invite, ReadInvitation,
         serverVars, tableVars
  <2>2. CASE Accept(r)
    <3>1. PICK x \in invitations : Accepting(x)
      BY <1>1, <2>2, AcceptedOrNot DEF tableVars
    <3>2. game' = [game EXCEPT ![x.table].seated = @ \cup {x.to}, ![x.table].version = @ + 1,
                               ![x.table].scope = "public_safe"]
      BY <3>1 DEF Accepting
    <3>3. x.table = t /\ x.to = u /\ game'[t].seated = game[t].seated \cup {u}
      BY <3>2, LobbyFacts DEF TablesAreSound, Game
    <3> QED
      BY <3>1, <3>3
  <2> QED
    BY <2>1, <2>2
<1> QED
  BY <1>2, <1>3, <1>4, <1>5, <1>6, <1>7 DEF Next

\* A public join or an accepted invitation seats nobody with somebody who has
\* blocked them or whom they have blocked, and not beyond the last seat,
\* whatever had been read before.
THEOREM BlockedPairsNeverMeet == Spec => NoBlockedPairMeets
<1>1. ASSUME DiscoveryInvariant, [Next]_vars, NEW t \in Tables,
             NEW u \in game'[t].seated \ (game[t].seated \cup Occupants(t)),
             rows'[t][u].source \in {"public", "lobby_invite"}
      PROVE  /\ \A v \in Occupants(t) : ~Blocked(u, v)
             /\ Cardinality(game'[t].seated) <= Capacity
  <2> USE DEF DiscoveryInvariant
  <2>1. u \in Users
    <3>1. TablesAreSound'
      BY <1>1, StepIsSound
    <3> QED
      BY <3>1 DEF TablesAreSound, Game
  <2>2. Next
    BY <1>1 DEF vars, serverVars, tableVars
  <2>3. \/ \E r \in Requests :
             /\ TakeSeat(r) /\ t = requests[r].saw.table /\ u = Asker(r)
             /\ game'[t].seated = game[t].seated \cup {u}
        \/ \E x \in invitations :
             /\ Accepting(x) /\ t = x.table /\ u = x.to
             /\ game'[t].seated = game[t].seated \cup {u}
    BY <1>1, <2>1, <2>2, StrangersAreSeated
  <2>4. ASSUME NEW r \in Requests, TakeSeat(r), t = requests[r].saw.table, u = Asker(r),
               game'[t].seated = game[t].seated \cup {u}
        PROVE  /\ \A v \in Occupants(t) : ~Blocked(u, v)
               /\ Cardinality(game'[t].seated) <= Capacity
    <3>1. MayMeet(u, t) /\ Cardinality(Occupants(t)) < Capacity
      BY Zenon, <2>4 DEF TakeSeat, Welcome
    <3> QED
      BY <1>1, <2>1, <2>4, <3>1, OneMoreFits DEF MayMeet
  <2>5. ASSUME NEW x \in invitations, Accepting(x), t = x.table, u = x.to,
               game'[t].seated = game[t].seated \cup {u}
        PROVE  /\ \A v \in Occupants(t) : ~Blocked(u, v)
               /\ Cardinality(game'[t].seated) <= Capacity
    <3>1. Occupants(t) = {x.from} /\ ~Blocked(u, x.from)
      BY <1>1, <2>5, HostIsAlone
    <3>2. Cardinality(Occupants(t)) < Capacity
      <4>1. Cardinality({x.from}) = 1
        BY Zenon, FS_Singleton
      <4> QED
        BY <3>1, <4>1, DiscoveryAssumption DEF DiscoveryAssumption
    <3> QED
      BY Zenon, <1>1, <2>1, <2>5, <3>1, <3>2, OneMoreFits
  <2> QED
    BY <2>3, <2>4, <2>5
<1>2. DiscoveryInvariant /\ [Next]_vars =>
        \A t \in Tables : \A u \in game'[t].seated \ (game[t].seated \cup Occupants(t)) :
          rows'[t][u].source \in {"public", "lobby_invite"} =>
            /\ \A v \in Occupants(t) : ~Blocked(u, v)
            /\ Cardinality(game'[t].seated) <= Capacity
  BY <1>1
<1> QED
  BY <1>2, DiscoveryIsSound, PTL DEF Spec, NoBlockedPairMeets

\* acceptLobbyInvitation: what it does to the table, to the recipient and to
\* every other invitation that either of the two has open.
THEOREM AcceptanceLeavesNothing == Spec => AcceptedAlone
<1> DEFINE Alone(x) ==
      /\ ~InOpenTable(x.to)
      /\ game[x.table].seated = {x.from}
      /\ looking'[x.to] = 0 /\ listing'[x.table].state # "listed"
      /\ \A y \in invitations' : y.state = "pending" => y.to # x.to /\ y.table # x.table
<1>1. ASSUME DiscoveryInvariant, [Next]_vars, NEW x \in invitations', x.state = "accepted",
             x \notin invitations
      PROVE  Alone(x)
  <2> USE DEF DiscoveryInvariant
  <2>1. invitations' # invitations
    BY <1>1
  <2>2. Next
    BY <1>1, <2>1 DEF vars, serverVars, lobbyVars
  <2>3. LobbyIsSound /\ WorkIsSound /\ TablesAreSound
    BY <1>1
  <2>4. ASSUME NEW S, invitations' = Expired(S)
        PROVE  FALSE
    BY <1>1, <2>3, <2>4, LobbyFacts, ExpiryFacts
  <2>5. ASSUME NEW u \in Users, Decline(u)
        PROVE  FALSE
    <3> PICK z \in invitations :
          \/ invitations' = (invitations \ {z}) \cup {[z EXCEPT !.state = "declined"]}
          \/ invitations' = {IF y = z THEN [z EXCEPT !.state = "blocked"] ELSE y :
                y \in Expired({w \in invitations \ {z} : {w.from, w.to} = {u, z.from}})}
      BY Zenon, <2>5 DEF Decline
    <3>1. z \in Invitation(DOMAIN commands)
      BY <2>3, LobbyFacts
    <3>2. Ended(z, "declined").state = "declined" /\ Ended(z, "blocked").state = "blocked"
      BY <3>1, EndingKeepsTheRest
    <3>3. CASE invitations' = (invitations \ {z}) \cup {[z EXCEPT !.state = "declined"]}
      BY Zenon, <1>1, <3>2, <3>3 DEF Ended
    <3>4. CASE invitations' = {IF y = z THEN [z EXCEPT !.state = "blocked"] ELSE y :
                 y \in Expired({w \in invitations \ {z} : {w.from, w.to} = {u, z.from}})}
      <4> DEFINE S == {w \in invitations \ {z} : {w.from, w.to} = {u, z.from}}
      <4>1. /\ z \notin S
            /\ invitations' = {IF y = z THEN [z EXCEPT !.state = "blocked"] ELSE y :
                                y \in Expired(S)}
        BY <3>4
      <4> HIDE DEF S
      <4>2. x \in invitations \/ x.state = "expired" \/ x = Ended(z, "blocked")
        BY Zenon, <1>1, <2>3, <4>1, LobbyFacts, AnswerFacts
      <4> QED
        BY <1>1, <3>2, <4>2
    <3> QED
      BY Zenon, <3>3, <3>4
  <2>6. ASSUME NEW r \in Requests, Invite(r)
        PROVE  FALSE
    BY <1>1, <2>6 DEF Invite
  <2>7. ASSUME NEW r \in Requests, Accept(r)
        PROVE  Alone(x)
    <3>1. PICK z \in invitations : Accepting(z)
      BY <2>1, <2>7, AcceptedOrNot
    <3>2. x = Ended(z, "accepted")
      BY <1>1, <2>3, <3>1, AcceptingFacts
    <3>3. /\ x.to = z.to /\ x.table = z.table /\ x.from = z.from
          /\ z.to \in Users /\ z.table \in Tables
      <4>1. z \in Invitation(DOMAIN commands)
        BY <2>3, LobbyFacts
      <4> QED
        BY <2>3, <3>2, <4>1, EndingKeepsTheRest, LobbyFacts
    <3>4. ~InOpenTable(z.to) /\ game[z.table].seated = {z.from}
      BY <2>3, <3>1, HostIsAlone
    <3>5. \A y \in invitations' : y.state = "pending" => y.to # z.to /\ y.table # z.table
      BY <2>3, <3>1, AcceptingFacts
    <3>6. looking'[z.to] = 0
      BY <2>3, <3>1, <3>3, LobbyFacts DEF Accepting
    <3>7. listing'[z.table].state # "listed"
      <4>1. listing' = [listing EXCEPT ![z.table] = Down(listing[z.table], "unlisted")]
        BY <2>3, <3>1, <3>3, TakingDown DEF Accepting
      <4> QED
        BY <2>3, <3>3, <4>1, TakingDown DEF TablesAreSound
    <3> QED
      BY <3>3, <3>4, <3>5, <3>6, <3>7
  <2>8. CASE MemberMoves
    BY Zenon, <2>1, <2>4, <2>8, MemberMovesFrame DEF StopsLooking, lobbyVars
  <2>9. CASE Traffic
    BY <2>1, <2>9 DEF Traffic, Ask, Drop, serverVars, lobbyVars
  <2>10. CASE ComposeListing \/ ComposeInvitation
    BY Zenon, <1>1, <2>1, <2>10, ComposedIsACommand DEF Compose, serverVars, lobbyVars
  <2>11. CASE LobbyMoves
    BY Zenon, <2>1, <2>4, <2>5, <2>11 DEF LobbyMoves, Lapse, OptOut, StopsLooking, BlockSeeker
  <2>12. CASE ServeListing
    <3>1. ASSUME NEW r \in Requests, \/ ReadTable(r) \/ Publish(r) \/ Withdraw(r)
                                     \/ Aim(r) \/ ReadTarget(r)
          PROVE  FALSE
      <4>1. ReadTable(r) \/ Aim(r) \/ ReadTarget(r) => UNCHANGED invitations
        BY Zenon DEF ReadTable, Aim, ReadTarget, serverVars, lobbyVars
      <4>2. Publish(r) => UNCHANGED invitations
        BY Zenon DEF Publish, lobbyVars
      <4>3. Withdraw(r) => UNCHANGED invitations
        BY Zenon DEF Withdraw, lobbyVars
      <4> QED
        BY Zenon, <2>1, <3>1, <4>1, <4>2, <4>3
    <3>2. ASSUME NEW r \in Requests, TakeSeat(r) \/ LoseSeat(r)
          PROVE  FALSE
      <4>1. LoseSeat(r) => UNCHANGED invitations \/ StopsLooking(Asker(r))
        BY Zenon DEF LoseSeat, serverVars, lobbyVars
      <4>2. TakeSeat(r) => UNCHANGED invitations \/ StopsLooking(Asker(r))
        BY Zenon DEF TakeSeat, serverVars, lobbyVars
      <4> QED
        BY Zenon, <2>1, <2>4, <3>2, <4>1, <4>2 DEF StopsLooking
    <3> QED
      BY <2>12, <3>1, <3>2 DEF ServeListing
  <2>13. CASE ServeInvitation
    BY Zenon, <2>1, <2>4, <2>6, <2>7, <2>13
    DEF ServeInvitation, CheckSeeker, OptIn, ReadSeeker, ReadInvitation, serverVars, lobbyVars
  <2> QED
    BY <2>2, <2>8, <2>9, <2>10, <2>11, <2>12, <2>13 DEF Next
<1>2. DiscoveryInvariant /\ [Next]_vars =>
        \A x \in invitations' : x.state = "accepted" /\ x \notin invitations => Alone(x)
  BY <1>1
<1> QED
  BY <1>2, DiscoveryIsSound, PTL DEF Spec, AcceptedAlone

=============================================================================
