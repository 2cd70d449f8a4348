------------------------------ MODULE TableChat ------------------------------
(***************************************************************************)
(* Table talk: src/lib/server/chat-store.ts, and the part of               *)
(* src/app/components/GameShell.tsx that sends, polls and shows it.        *)
(*                                                                         *)
(* A message gets the next number of an ever-growing list of positions in  *)
(* the batch that writes it; a browser asks for what comes after the last  *)
(* position it has been given.  Every request is a Worker invocation that  *)
(* took the time when it began, and others run at each of its awaits.      *)
(* Membership belongs to the game store and changes here as it does there. *)
(***************************************************************************)
EXTENDS Integers, Sequences, FiniteSets

CONSTANTS
  Users, Requests,
  Readers,       \* bound: whose browsers poll
  Retention,     \* how long a message is kept (24 hours)
  Cooldown,      \* time between two messages of one sender (2 seconds)
  Window,        \* messages that one page looks at (48)
  Scenarios,     \* bound: what may happen beside the talk, whose browsers send,
                 \* how many messages, and when the clock stops
  Latency        \* bound: how long an invocation may take

ASSUME ChatAssumption ==
  /\ Retention \in Nat /\ Cooldown \in Nat /\ Window \in Nat \ {0}
  /\ Latency \in Nat /\ Retention > 2 * Latency
  /\ Readers \subseteq Users
  /\ Scenarios \subseteq
       [may: SUBSET {"phrase", "text", "room", "publish", "game", "report", "mute", "block", "purge"},
        writers: SUBSET Users, messages: Nat, time: Nat]

VARIABLES
  scenario,         \* chosen once
  clock,
  open, scope,      \* the games row: room_status = "open", communication_scope
  member,           \* game_members: who is in, since when, and how they came
  feed,             \* game_message_cursors, each with the message it was made for
  stored,           \* positions whose row in game_messages has not been deleted
  receipts,         \* command_receipts of messages
  received,         \* game_message_receipts
  reports,          \* game_message_reports
  mutes, blocks,    \* game_mutes, profile_blocks
  client,           \* what each browser holds
  requests,         \* the invocations
  issued            \* command IDs handed out

roomVars == <<open, scope, member>>
feedVars == <<feed, stored, receipts>>
safetyVars == <<received, reports, mutes, blocks>>
vars == <<scenario, clock, roomVars, feedVars, safetyVars, client, requests, issued>>

Kinds == {"phrase", "text"}
Positions == DOMAIN feed
Idle == [kind |-> "idle"]
Nothing == [id |-> 0]

Members == {u \in Users : member[u].in}
NewBrowser == [cursor |-> 0, players |-> Members, missed |-> {}, sending |-> Nothing]

Init ==
  /\ scenario \in Scenarios
  /\ clock = 1 /\ open = TRUE /\ scope = "invite_only"
  /\ member \in [Users -> [in: BOOLEAN, since: {0}, source: {"invite"}]]
  /\ feed = <<>> /\ stored = {} /\ receipts = {}
  /\ received = {} /\ reports = {} /\ mutes = {} /\ blocks = {}
  /\ client = [u \in Users |-> NewBrowser]
  /\ requests = [r \in Requests |-> Idle]
  /\ issued = 0

\* requireCurrentMember
IsMember(u) == open /\ member[u].in

Silenced(u, v) == <<u, v>> \in mutes \/ <<u, v>> \in blocks \/ <<v, u>> \in blocks

\* a message that is still there and has not expired for a request of time t
Alive(p, t) == p \in stored /\ feed[p].at + Retention > t

\* the table is not public and nobody at it came from the public
PrivateTable ==
  scope = "invite_only" /\ \A u \in Members : member[u].source = "invite"

-----------------------------------------------------------------------------
(***************************************************************************)
(* Invocations.  A request that looks at the database and hands nothing of *)
(* what it saw to its batch, which looks again, does so in one step with   *)
(* its start; otherwise it carries what it saw.  It may be killed at any   *)
(* await and its answer may be lost.                                       *)
(***************************************************************************)
Busy(r) == requests[r] # Idle
At(r, kind) == requests[r].kind = kind
End(r) == requests' = [requests EXCEPT ![r] = Idle]

Tick ==
  /\ clock < scenario.time
  /\ \A r \in Requests : Busy(r) => clock - requests[r].now < Latency
  /\ clock' = clock + 1
  /\ UNCHANGED <<scenario, roomVars, feedVars, safetyVars, client, requests, issued>>

Drop(r) ==
  /\ Busy(r)
  /\ End(r)
  /\ UNCHANGED <<scenario, clock, roomVars, feedVars, safetyVars, client, issued>>

-----------------------------------------------------------------------------
(***************************************************************************)
(* Sending.  A message that was not answered is sent again under the same  *)
(* command ID, if it is the same message.                                  *)
(***************************************************************************)
Compose(u, kind) ==
  /\ kind \in scenario.may /\ u \in scenario.writers
  /\ client[u].sending = Nothing
  /\ issued < scenario.messages
  /\ issued' = issued + 1
  /\ client' = [client EXCEPT ![u].sending = [id |-> issued + 1, kind |-> kind]]
  /\ UNCHANGED <<scenario, clock, roomVars, feedVars, safetyVars, requests>>

Known(u, id) == \E x \in receipts : x.by = u /\ x.id = id

\* the browser forgets the command when an answer to it arrives
Answered(u, id) ==
  client' \in {client, IF client[u].sending.id = id
                       THEN [client EXCEPT ![u].sending = Nothing] ELSE client}

Send(u, r) ==
  LET m == client[u].sending
  IN  /\ ~Busy(r) /\ m # Nothing
      /\ IF IsMember(u) /\ ~Known(u, m.id) /\ (m.kind = "text" => PrivateTable)
         THEN /\ requests' = [requests EXCEPT
                   ![r] = [kind |-> "send", user |-> u, now |-> clock, message |-> m]]
              /\ UNCHANGED client
         ELSE UNCHANGED requests /\ Answered(u, m.id)
      /\ UNCHANGED <<scenario, clock, roomVars, feedVars, safetyVars, issued>>

AcceptedMutant(q) ==  \* the cooldown looks at what is older than the request
  /\ IsMember(q.user)
  /\ q.message.kind = "text" => PrivateTable
  /\ \A p \in stored : feed[p].by = q.user
       => ~(q.now - Cooldown < feed[p].at /\ feed[p].at <= q.now)

AcceptedUnchecked(q) ==  \* the scope was looked at before
  /\ IsMember(q.user)
  /\ \A p \in stored : feed[p].by = q.user => feed[p].at <= q.now - Cooldown

\* the guard of the receipt
Accepted(q) ==
  /\ IsMember(q.user)
  /\ q.message.kind = "text" => PrivateTable
  /\ \A p \in stored : feed[p].by = q.user => feed[p].at <= q.now - Cooldown

\* the batch inserts the receipt if its guard holds, then position and message
\* if there is a receipt, its own or that of another copy: a second receipt
\* runs into the primary key, a second message into the index on commands
CollidesMutant(q) ==  \* without the index
  Known(q.user, q.message.id) /\ Accepted(q)

Collides(q) ==
  /\ Known(q.user, q.message.id)
  /\ \/ Accepted(q)
     \/ \E p \in stored : feed[p].by = q.user /\ feed[p].id = q.message.id

Write(q) ==
  /\ feed' = Append(feed, [by |-> q.user, id |-> q.message.id, kind |-> q.message.kind, at |-> q.now])
  /\ stored' = stored \cup {Len(feed) + 1}
  /\ receipts' = IF Known(q.user, q.message.id) THEN receipts
                 ELSE receipts \cup {[by |-> q.user, id |-> q.message.id, at |-> q.now]}

\* the batch may throw, for a collision or for no reason, or change nothing;
\* then a receipt that has appeared is replayed, else the request is refused
SendBatch(r) ==
  LET q == requests[r]
  IN  /\ At(r, "send")
      /\ \/ ~Collides(q) /\ (Accepted(q) \/ Known(q.user, q.message.id)) /\ Write(q)
         \/ UNCHANGED feedVars
      /\ End(r)
      /\ Answered(q.user, q.message.id)
      /\ UNCHANGED <<scenario, clock, roomVars, safetyVars, issued>>

-----------------------------------------------------------------------------
(***************************************************************************)
(* Listing.  A page is what a browser has not been given, in the order of  *)
(* positions; without a position, or with one from before it joined, it is *)
(* the newest window.  Who is muted or blocked is filtered from the page,  *)
(* but the position goes on.                                               *)
(***************************************************************************)
Unwanted(u) ==  \* the browser aborts a poll that is on its way
  [r \in Requests |-> IF requests[r].kind \in {"list", "page"} /\ requests[r].user = u
                      THEN Idle ELSE requests[r]]

\* what the request knows of its reader, and whether it may show free text
Viewer(u, cursor) ==
  [kind |-> "list", user |-> u, now |-> clock, cursor |-> cursor,
   since |-> member[u].since, text |-> PrivateTable]

Poll(u, r) ==
  /\ u \in Readers /\ ~Busy(r)
  /\ IsMember(u)
  /\ requests' = [Unwanted(u) EXCEPT ![r] = Viewer(u, client[u].cursor)]
  /\ UNCHANGED <<scenario, clock, roomVars, feedVars, safetyVars, client, issued>>

Listed(q, p) ==
  /\ Alive(p, q.now)
  /\ member[feed[p].by].in
  /\ feed[p].at > q.since
  /\ feed[p].kind = "text" => q.text

\* a position given before this membership is not found again
Rebased(q) == q.cursor = 0 \/ feed[q.cursor].at <= q.since

ScannedMutant(q) ==  \* what was said since, by the clock
  LET S == {p \in Positions : Listed(q, p) /\ (Rebased(q) \/ feed[p].at > feed[q.cursor].at)}
  IN  IF Rebased(q) THEN {p \in S : Cardinality({o \in S : o > p}) < Window}
      ELSE {p \in S : Cardinality({o \in S : o < p}) < Window}

Scanned(q) ==
  LET S == {p \in Positions : Listed(q, p) /\ (Rebased(q) \/ p > q.cursor)}
  IN  IF Rebased(q) THEN {p \in S : Cardinality({o \in S : o > p}) < Window}
      ELSE {p \in S : Cardinality({o \in S : o < p}) < Window}

Final(S, default) == IF S = {} THEN default ELSE CHOOSE p \in S : \A o \in S : o <= p

\* missed: what its reader could have been given, and would not be by asking
\* again with the position that comes with the page
ListScan(r) ==
  LET q == requests[r]
      S == Scanned(q)
      next == Final(S, IF Rebased(q) THEN 0 ELSE q.cursor)
  IN  /\ At(r, "list")
      /\ requests' = [requests EXCEPT ![r] =
           [kind |-> "page", user |-> q.user, now |-> q.now, text |-> q.text, next |-> next,
            page |-> {p \in S : ~Silenced(q.user, feed[p].by)},
            missed |-> IF Rebased(q) THEN {}
                       ELSE {p \in Positions : /\ p > q.cursor /\ Listed(q, p)
                                               /\ p <= next \/ S = {}} \ S]]
      /\ UNCHANGED <<scenario, clock, roomVars, feedVars, safetyVars, client, issued>>

\* what the page holds of others may be reported after its reader has left
Recorded(q) ==
  {<<q.user, p>> : p \in {o \in q.page :
     /\ feed[o].by # q.user
     /\ IsMember(q.user) /\ member[feed[o].by].in
     /\ Alive(o, q.now) /\ feed[o].at > member[q.user].since
     /\ feed[o].kind = "text" => q.text
     /\ ~Silenced(q.user, feed[o].by)}}

\* the browser shows the messages of those it knows to be at the table, and
\* goes on from the position it is given
Shown(u, page) == {p \in page : feed[p].by \in client[u].players}

Taken(browser, q) ==
  [browser EXCEPT !.missed = @ \cup q.missed, !.cursor = IF q.next # 0 THEN q.next ELSE @]

ListAnswer(r) ==
  LET q == requests[r]
      u == q.user
  IN  /\ At(r, "page")
      /\ received' = IF "report" \in scenario.may THEN received \cup Recorded(q) ELSE received
      /\ client' = [client EXCEPT ![u] = Taken(client[u], q)]
      /\ End(r)
      /\ UNCHANGED <<scenario, clock, roomVars, feedVars, reports, mutes, blocks, issued>>

\* the browser reads the game
ReadGame(u) ==
  /\ "game" \in scenario.may /\ u \in Readers
  /\ member[u].in /\ client[u].players # Members
  /\ client' = [client EXCEPT ![u].players = Members]
  /\ UNCHANGED <<scenario, clock, roomVars, feedVars, safetyVars, requests, issued>>

-----------------------------------------------------------------------------
(***************************************************************************)
(* Reports, mutes and blocks: the statement looks at all that the request  *)
(* has looked at.  A report keeps a copy of what it is about.              *)
(***************************************************************************)
Reportable(u, p) == Alive(p, clock) /\ (IsMember(u) \/ <<u, p>> \in received)

Report(u, p) ==
  /\ "report" \in scenario.may
  /\ Reportable(u, p) /\ feed[p].by # u
  /\ reports' = reports \cup {<<u, p>>}
  /\ UNCHANGED <<scenario, clock, roomVars, feedVars, received, mutes, blocks, client, requests, issued>>

MayRelate(u, v) == u # v /\ IsMember(u) /\ member[v].in
Toggled(relation, pair) == {relation \cup {pair}, relation \ {pair}}

SetTableMute(u, v) ==
  /\ "mute" \in scenario.may
  /\ MayRelate(u, v)
  /\ mutes' \in Toggled(mutes, <<u, v>>)
  /\ UNCHANGED <<scenario, clock, roomVars, feedVars, received, reports, blocks, client, requests, issued>>

SetTableBlock(u, v) ==
  /\ "block" \in scenario.may
  /\ MayRelate(u, v)
  /\ blocks' \in Toggled(blocks, <<u, v>>)
  /\ UNCHANGED <<scenario, clock, roomVars, feedVars, received, reports, mutes, client, requests, issued>>

-----------------------------------------------------------------------------
(***************************************************************************)
(* What the game store does meanwhile, and the removal of what has expired *)
(***************************************************************************)
\* joined_at is the time at which the request to join began
Join(u, source) ==
  /\ "room" \in scenario.may
  /\ open /\ ~member[u].in
  /\ source = "public" => scope = "public_safe"
  /\ \E t \in {clock - Latency, clock} :
       member' = [member EXCEPT ![u] = [in |-> TRUE, since |-> t, source |-> source]]
  /\ client' = [client EXCEPT ![u] =
       [NewBrowser EXCEPT !.players = Members \cup {u}, !.sending = client[u].sending]]
  /\ requests' = Unwanted(u)
  /\ UNCHANGED <<scenario, clock, open, scope, feedVars, safetyVars, issued>>

Leave(u) ==
  /\ "room" \in scenario.may
  /\ open /\ member[u].in
  /\ member' = [member EXCEPT ![u].in = FALSE]
  /\ open' = (Members # {u})
  /\ UNCHANGED <<scenario, clock, scope, feedVars, safetyVars, client, requests, issued>>

Publish ==
  /\ "publish" \in scenario.may
  /\ open /\ scope = "invite_only" /\ Cardinality(Members) = 1
  /\ scope' = "public_safe"
  /\ UNCHANGED <<scenario, clock, open, member, feedVars, safetyVars, client, requests, issued>>

\* receipts and messages of the same age are deleted in bounded batches of
\* their own, so that either may go first; positions stay
Cleanup ==
  /\ "purge" \in scenario.may
  /\ \/ \E p \in stored : feed[p].at + Retention <= clock
          /\ stored' = stored \ {p} /\ UNCHANGED <<receipts, received>>
     \/ \E x \in receipts : x.at <= clock - Retention
          /\ receipts' = receipts \ {x} /\ UNCHANGED <<stored, received>>
     \/ \E x \in received : feed[x[2]].at + Retention <= clock
          /\ received' = received \ {x} /\ UNCHANGED <<stored, receipts>>
  /\ UNCHANGED <<scenario, clock, roomVars, feed, reports, mutes, blocks, client, requests, issued>>

Browser(u) ==
  \/ \E kind \in Kinds : Compose(u, kind)
  \/ \E r \in Requests : Send(u, r) \/ Poll(u, r)
  \/ \E p \in Positions : Report(u, p)
  \/ \E v \in Users : SetTableMute(u, v) \/ SetTableBlock(u, v)
  \/ ReadGame(u)

Serve(r) == SendBatch(r) \/ ListScan(r) \/ ListAnswer(r) \/ Drop(r)

Room ==
  \/ \E u \in Users : Leave(u) \/ \E source \in {"invite", "public"} : Join(u, source)
  \/ Publish

Next ==
  \/ \E u \in Users : Browser(u)
  \/ \E r \in Requests : Serve(r)
  \/ Room \/ Tick \/ Cleanup

Spec == Init /\ [][Next]_vars

-----------------------------------------------------------------------------
TypeOK ==
  /\ scenario \in Scenarios
  /\ clock \in 1..scenario.time /\ open \in BOOLEAN /\ scope \in {"invite_only", "public_safe"}
  /\ member \in [Users -> [in: BOOLEAN, since: 0..scenario.time, source: {"invite", "public"}]]
  /\ feed \in Seq([by: Users, id: 1..scenario.messages, kind: Kinds, at: 1..scenario.time])
  /\ stored \subseteq Positions
  /\ receipts \subseteq [by: Users, id: 1..scenario.messages, at: 1..scenario.time]
  /\ reports \subseteq Users \X Positions /\ received \subseteq Users \X Positions
  /\ mutes \subseteq Users \X Users /\ blocks \subseteq Users \X Users
  /\ \A u \in Users : client[u].cursor \in Positions \cup {0}
  /\ \A r \in Requests : requests[r].kind \in {"idle", "send", "list", "page"}

\* However often a message is sent again, and whichever of its copies comes
\* first, it is said once for as long as it is kept (chat-store.ts:300).
OneMessagePerCommand ==
  \A p, o \in Positions :
    feed[p].by = feed[o].by /\ feed[p].id = feed[o].id /\ p < o
      => feed[o].at - feed[p].at >= Retention

\* Two messages of one sender are at least the cooldown apart, in the order in
\* which they are read, also when an invocation that began earlier writes later
\* (chat-store.ts:413).
CooldownHolds ==
  \A p, o \in stored : feed[p].by = feed[o].by /\ p < o => feed[o].at - feed[p].at >= Cooldown

\* A browser's position moves past nothing that it could have been given,
\* whatever the order of positions, times and answers (chat-store.ts:242).
NothingIsPassedOver == \A u \in Users : client[u].missed = {}

\* No free text is said at a table that is public, or at which somebody has
\* come from the public listing, even if it was private when the invocation
\* looked; and none is on a page of somebody who came from there
\* (chat-store.ts:408).
TextStaysPrivate ==
  [][/\ \A p \in Positions' \ Positions : feed'[p].kind = "text" => PrivateTable
     /\ \A r \in Requests : requests'[r].kind = "page" /\ member'[requests'[r].user].source = "public"
          => \A p \in requests'[r].page : feed'[p].kind # "text"]_vars

\* What is on a page that a browser has taken is shown, whatever the order in
\* which the answers to its polls for the game and for the chat arrive.
PagesAreShown ==
  [][\A r \in Requests : ListAnswer(r)
       => requests[r].page \subseteq Shown(requests[r].user, requests[r].page)]_vars
=============================================================================
