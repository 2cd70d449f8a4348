---------------------------- MODULE TableChatProofs ----------------------------
(***************************************************************************)
(* Table talk, for any number of users and invocations, however long a     *)
(* page, the cooldown and the retention are.                               *)
(***************************************************************************)
EXTENDS TableChat, FiniteSetTheorems, WellFoundedInduction, TLAPS

-----------------------------------------------------------------------------
(***************************************************************************)
(* The invariant.  Whatever has been said has a receipt, and whatever has  *)
(* a receipt is kept, unless it is old enough to be forgotten; and an      *)
(* invocation that found no receipt is over before one that has appeared   *)
(* since is that old.                                                      *)
(***************************************************************************)
MessageType == [id: Nat, kind: Kinds]
EntryType == [by: Users, id: Nat, kind: Kinds, at: Nat]
ReceiptType == [by: Users, id: Nat, at: Nat]
MemberType == [in: BOOLEAN, since: Int, source: {"invite", "public"}]
ClientType == [cursor: Nat, players: SUBSET Users, missed: {{}},
               sending: {Nothing} \cup MessageType]

SendType == [kind: {"send"}, user: Users, now: Nat, message: MessageType]
ListType == [kind: {"list"}, user: Users, now: Nat, cursor: Nat, since: Int, text: BOOLEAN]
PageType == [kind: {"page"}, user: Users, now: Nat, text: BOOLEAN, next: Nat,
             page: SUBSET Nat, missed: {{}}]
RequestType == {Idle} \cup SendType \cup ListType \cup PageType

TypesHold ==
  /\ clock \in Nat /\ issued \in Nat
  /\ member \in [Users -> MemberType]
  /\ feed \in Seq(EntryType) /\ stored \subseteq Positions /\ receipts \subseteq ReceiptType
  /\ client \in [Users -> ClientType] /\ requests \in [Requests -> RequestType]

\* the receipt of what was said at a position
Of(x, p) == x.by = feed[p].by /\ x.id = feed[p].id /\ x.at = feed[p].at
Receipted(p) == \E x \in receipts : Of(x, p)
Past(at) == at + Retention <= clock

LedgersAgree ==
  /\ \A x \in receipts : \E p \in Positions : Of(x, p) /\ (p \in stored \/ Past(x.at))
  /\ \A p \in Positions : Receipted(p) \/ Past(feed[p].at)

SendingIsSound(q) ==
  /\ q.now <= clock /\ clock <= q.now + Latency
  /\ \A x \in receipts : x.by = q.user /\ x.id = q.message.id => q.now <= x.at + Latency
  /\ \A p \in Positions : feed[p].by = q.user /\ feed[p].id = q.message.id
       => Receipted(p) \/ feed[p].at + Retention <= q.now

FromOutside(u) == member[u].source = "public"

ListingIsSound(q) == FromOutside(q.user) => ~q.text

PageIsSound(q) ==
  /\ q.page \subseteq Positions
  /\ FromOutside(q.user) => \A p \in q.page : feed[p].kind # "text"

RequestIsSound(q) ==
  /\ q.kind = "send" => SendingIsSound(q)
  /\ q.kind = "list" => ListingIsSound(q)
  /\ q.kind = "page" => PageIsSound(q)

RequestsAreSound == \A r \in Requests : RequestIsSound(requests[r])

ChatInvariant ==
  /\ TypesHold /\ LedgersAgree /\ RequestsAreSound
  /\ CooldownHolds /\ OneMessagePerCommand

-----------------------------------------------------------------------------
(***************************************************************************)
(* Numbers.                                                                *)
(***************************************************************************)
\* A set of positions that is not empty has a last one.
LEMMA LastOf ==
  ASSUME NEW N \in Nat, NEW S \in SUBSET (1..N), S # {}
  PROVE  \E m \in S : \A o \in S : o <= m
<1> DEFINE T == {N - p : p \in S}
<1>1. T \in SUBSET Nat /\ T # {}
  <2>1. \A p \in S : N - p \in Nat
    OBVIOUS
  <2>2. T \subseteq Nat
    BY <2>1
  <2>3. T # {}
    OBVIOUS
  <2> QED
    BY <2>2, <2>3
<1>2. PICK t \in T : \A n \in T : <<n, t>> \notin OpToRel(<, Nat)
  <2> HIDE DEF T
  <2> QED
    BY <1>1, WFMin, NatLessThanWellFounded, Zenon
<1>3. \A n \in T : ~(n < t)
  BY <1>1, <1>2, Zenon DEF OpToRel
<1>4. PICK m \in S : t = N - m
  OBVIOUS
<1>5. ASSUME NEW o \in S PROVE o <= m
  <2>1. N - o \in T /\ o \in Nat /\ m \in Nat
    OBVIOUS
  <2>2. ~(N - o < t)
    BY <1>3, <2>1
  <2> QED
    BY <1>4, <2>1, <2>2
<1> QED
  BY <1>5

\* The bounds, as numbers.
LEMMA Bounds ==
  /\ Retention \in Nat /\ Cooldown \in Nat /\ Window \in Nat \ {0} /\ Latency \in Nat
  /\ Retention > 2 * Latency
  BY ChatAssumption DEF ChatAssumption

\* What has been said is a message.
LEMMA FeedIs ==
  ASSUME TypesHold
  PROVE  /\ Len(feed) \in Nat /\ Positions = 1..Len(feed)
         /\ \A p \in Positions : /\ feed[p] \in EntryType /\ feed[p].at \in Nat
                                 /\ feed[p].by \in Users /\ feed[p].id \in Nat
<1>1. feed \in Seq(EntryType) /\ Positions = DOMAIN feed
  BY DEF TypesHold, Positions
<1>2. Len(feed) \in Nat /\ Positions = 1..Len(feed)
  BY <1>1
<1>3. \A p \in Positions : feed[p] \in EntryType
  BY <1>1, <1>2
<1>4. \A e \in EntryType : e.at \in Nat /\ e.by \in Users /\ e.id \in Nat
  BY DEF EntryType
<1> QED
  BY <1>2, <1>3, <1>4

-----------------------------------------------------------------------------
(***************************************************************************)
(* Requests.                                                               *)
(***************************************************************************)
\* What kind of request it is tells what it carries.
LEMMA KindTells ==
  ASSUME NEW q \in RequestType
  PROVE  /\ q.kind = "send" => q \in SendType
         /\ q.kind = "list" => q \in ListType
         /\ q.kind = "page" => q \in PageType
  BY DEF RequestType, Idle, SendType, ListType, PageType

\* Idle is a request, and a sound one.
LEMMA IdleIsSound ==
  Idle \in RequestType /\ RequestIsSound(Idle)
  BY DEF RequestType, Idle, RequestIsSound

\* What was sound stays so, as long as nobody says or forgets anything, or
\* comes from elsewhere.
LEMMA SoundStays ==
  ASSUME UNCHANGED <<clock, feed, receipts>>,
         NEW q, RequestIsSound(q), FromOutside(q.user)' => FromOutside(q.user)
  PROVE  RequestIsSound(q)'
  BY DEF RequestIsSound, SendingIsSound, ListingIsSound, PageIsSound, Receipted, Of, Positions

\* One request moves on.
LEMMA OneMoves ==
  ASSUME TypesHold, RequestsAreSound, NEW r \in Requests, NEW x \in RequestType, RequestIsSound(x)',
         requests' = [requests EXCEPT ![r] = x],
         \A q \in RequestType : RequestIsSound(q) => RequestIsSound(q)'
  PROVE  requests' \in [Requests -> RequestType] /\ RequestsAreSound'
<1>1. requests' \in [Requests -> RequestType]
  BY DEF TypesHold
<1>2. ASSUME NEW s \in Requests
      PROVE  RequestIsSound(requests[s])'
  <2>1. PICK q : q = requests'[s]
    OBVIOUS
  <2>2. RequestIsSound(q)'
    BY <2>1 DEF TypesHold, RequestsAreSound
  <2> QED
    BY <2>1, <2>2 DEF RequestIsSound, SendingIsSound, ListingIsSound, PageIsSound, FromOutside
<1> QED
  BY <1>1, <1>2 DEF RequestsAreSound

\* Nothing is said and nothing is forgotten.
LEMMA TalkStands ==
  ASSUME ChatInvariant, UNCHANGED <<clock, feed, stored, receipts>>, issued' \in Nat,
         member' \in [Users -> MemberType], client' \in [Users -> ClientType],
         requests' \in [Requests -> RequestType], RequestsAreSound'
  PROVE  ChatInvariant'
<1>1. TypesHold'
  BY DEF ChatInvariant, TypesHold, Positions
<1>2. LedgersAgree'
  BY DEF ChatInvariant, LedgersAgree, Positions, Of, Receipted, Past
<1>3. CooldownHolds' /\ OneMessagePerCommand'
  BY DEF ChatInvariant, CooldownHolds, OneMessagePerCommand, Positions
<1> QED
  BY <1>1, <1>2, <1>3 DEF ChatInvariant

\* A request moves on, or ends, while nothing is said.
LEMMA TalkMoves ==
  ASSUME ChatInvariant, UNCHANGED <<clock, feed, stored, receipts, member>>, issued' \in Nat,
         client' \in [Users -> ClientType],
         NEW r \in Requests, NEW x \in RequestType, RequestIsSound(x),
         requests' = [requests EXCEPT ![r] = x]
  PROVE  ChatInvariant'
<1>1. \A q : RequestIsSound(q) => RequestIsSound(q)'
  BY SoundStays DEF FromOutside
<1>2. requests' \in [Requests -> RequestType] /\ RequestsAreSound'
  BY <1>1, OneMoves DEF ChatInvariant
<1> QED
  BY <1>2, TalkStands DEF ChatInvariant, TypesHold

\* Nothing of it concerns the talk.
LEMMA TalkRests ==
  ASSUME ChatInvariant, UNCHANGED <<clock, feed, stored, receipts, member, requests>>,
         issued' \in Nat, client' \in [Users -> ClientType]
  PROVE  ChatInvariant'
<1>1. \A q : RequestIsSound(q) => RequestIsSound(q)'
  BY SoundStays DEF FromOutside
<1>2. RequestsAreSound'
  BY <1>1 DEF ChatInvariant, RequestsAreSound, RequestIsSound, SendingIsSound, ListingIsSound,
              PageIsSound, Receipted, Of, Positions, FromOutside
<1> QED
  BY <1>2, TalkStands DEF ChatInvariant, TypesHold

-----------------------------------------------------------------------------
(***************************************************************************)
(* Sending.                                                                *)
(***************************************************************************)
\* An invocation that found no receipt finds what has been said under one
\* that has appeared since.
LEMMA KnownIsStored ==
  ASSUME ChatInvariant, NEW q \in SendType, SendingIsSound(q), Known(q.user, q.message.id)
  PROVE  \E p \in stored : feed[p].by = q.user /\ feed[p].id = q.message.id
<1>1. PICK x \in receipts : x.by = q.user /\ x.id = q.message.id
  BY DEF Known
<1>2. x.at \in Nat /\ q.now \in Nat /\ clock \in Nat
  BY DEF ChatInvariant, TypesHold, ReceiptType, SendType
<1>3. q.now <= x.at + Latency /\ clock <= q.now + Latency
  BY <1>1 DEF SendingIsSound
<1>4. ~Past(x.at)
  BY <1>2, <1>3, Bounds DEF Past
<1>5. PICK p \in Positions : Of(x, p) /\ p \in stored
  BY <1>4 DEF ChatInvariant, LedgersAgree
<1> QED
  BY <1>1, <1>5 DEF Of

\* So whatever is written has passed its guard, and has not been said before.
LEMMA WriteIsAccepted ==
  ASSUME ChatInvariant, NEW q \in SendType, SendingIsSound(q), ~Collides(q),
         Accepted(q) \/ Known(q.user, q.message.id)
  PROVE  Accepted(q) /\ ~Known(q.user, q.message.id)
  BY KnownIsStored DEF Collides

\* What is written is at the end, and the rest is where it was.
LEMMA FeedGrows ==
  ASSUME TypesHold, NEW e \in EntryType, feed' = Append(feed, e)
  PROVE  /\ feed' \in Seq(EntryType) /\ Len(feed) + 1 \in Nat
         /\ Len(feed) + 1 \notin Positions
         /\ Positions' = Positions \cup {Len(feed) + 1}
         /\ feed'[Len(feed) + 1] = e
         /\ \A p \in Positions : feed'[p] = feed[p] /\ p < Len(feed) + 1
<1>1. feed \in Seq(EntryType) /\ Len(feed) \in Nat /\ Positions = 1..Len(feed)
  BY FeedIs DEF TypesHold
<1>2. feed' \in Seq(EntryType) /\ Len(feed') = Len(feed) + 1 /\ DOMAIN feed' = 1..(Len(feed) + 1)
  BY <1>1
<1>3. feed'[Len(feed) + 1] = e /\ \A p \in 1..Len(feed) : feed'[p] = feed[p]
  BY <1>1
<1>4. 1..(Len(feed) + 1) = (1..Len(feed)) \cup {Len(feed) + 1}
  BY <1>1
<1> QED
  BY <1>1, <1>2, <1>3, <1>4 DEF Positions

\* A message is said, for the first time in its retention and not before
\* its sender may speak again.
LEMMA WriteIsSound ==
  ASSUME ChatInvariant, NEW r \in Requests, NEW q \in SendType, q = requests[r], SendingIsSound(q),
         Accepted(q), ~Known(q.user, q.message.id), Write(q), End(r),
         client' \in [Users -> ClientType], UNCHANGED <<clock, member, issued>>
  PROVE  ChatInvariant'
<1>1. PICK e : e = [by |-> q.user, id |-> q.message.id, kind |-> q.message.kind, at |-> q.now]
  OBVIOUS
<1>2. PICK x : x = [by |-> q.user, id |-> q.message.id, at |-> q.now]
  OBVIOUS
<1>3. PICK n : n = Len(feed) + 1
  OBVIOUS
<1>4. /\ q.user \in Users /\ q.message.id \in Nat /\ q.message.kind \in Kinds /\ q.now \in Nat
      /\ clock \in Nat
  BY DEF ChatInvariant, TypesHold, SendType, MessageType
<1>5. /\ e \in EntryType /\ e.by = q.user /\ e.id = q.message.id /\ e.at = q.now
      /\ x \in ReceiptType /\ x.by = q.user /\ x.id = q.message.id /\ x.at = q.now
  BY <1>1, <1>2, <1>4 DEF EntryType, ReceiptType
<1>6. feed' = Append(feed, e) /\ stored' = stored \cup {n} /\ receipts' = receipts \cup {x}
  BY <1>1, <1>2, <1>3 DEF Write
<1>7. /\ feed' \in Seq(EntryType) /\ n \in Nat /\ n \notin Positions
      /\ Positions' = Positions \cup {n} /\ feed'[n] = e
      /\ \A p \in Positions : feed'[p] = feed[p] /\ p < n
  BY <1>3, <1>5, <1>6, FeedGrows DEF ChatInvariant
<1>8. /\ stored \subseteq Positions /\ receipts \subseteq ReceiptType
      /\ \A p \in Positions : feed[p].at \in Nat /\ p \in Nat
      /\ \A y \in receipts : y.at \in Nat
  BY FeedIs DEF ChatInvariant, TypesHold, ReceiptType
<1>9. q.now <= clock /\ clock <= q.now + Latency
  BY DEF SendingIsSound
<1>10. Of(x, n)' /\ \A p \in Positions : /\ Receipted(p) => Receipted(p)'
                                         /\ \A y \in receipts : Of(y, p) => Of(y, p)'
  <2>1. Of(x, n)'
    BY <1>5, <1>7 DEF Of
  <2> QED
    BY <1>6, <1>7, <2>1 DEF Of, Receipted
<1>11. LedgersAgree'
  <2>1. ASSUME NEW y \in receipts'
        PROVE  \E p \in Positions' : Of(y, p)' /\ (p \in stored' \/ Past(y.at)')
    <3>1. CASE y = x
      BY <1>6, <1>7, <1>10, <3>1
    <3>2. CASE y \in receipts
      <4>1. PICK p \in Positions : Of(y, p) /\ (p \in stored \/ Past(y.at))
        BY <3>2 DEF ChatInvariant, LedgersAgree
      <4> QED
        BY <1>6, <1>7, <1>10, <3>2, <4>1 DEF Past
    <3> QED
      BY <1>6, <3>1, <3>2
  <2>2. ASSUME NEW p \in Positions'
        PROVE  Receipted(p)' \/ Past(feed[p].at)'
    <3>1. CASE p = n
      BY <1>6, <1>10, <3>1 DEF Receipted
    <3>2. CASE p \in Positions
      BY <1>7, <1>10, <3>2 DEF ChatInvariant, LedgersAgree, Past
    <3> QED
      BY <1>7, <3>1, <3>2
  <2> QED
    BY <2>1, <2>2 DEF LedgersAgree, Past, Of
<1>12. ASSUME NEW s \in RequestType, RequestIsSound(s)
       PROVE  RequestIsSound(s)'
  <2>1. CASE s.kind = "send"
    <3>1. SendingIsSound(s) /\ s.now \in Nat
      BY <1>12, <2>1, KindTells DEF RequestIsSound, SendType
    <3>2. s.now <= x.at + Latency
      BY <1>4, <1>5, <1>9, <3>1, Bounds DEF SendingIsSound
    <3>3. \A y \in receipts' : y.by = s.user /\ y.id = s.message.id => s.now <= y.at + Latency
      BY <1>6, <3>1, <3>2 DEF SendingIsSound
    <3>4. ASSUME NEW p \in Positions', feed'[p].by = s.user, feed'[p].id = s.message.id
          PROVE  Receipted(p)' \/ feed'[p].at + Retention <= s.now
      <4>1. CASE p = n
        BY <1>6, <1>10, <4>1 DEF Receipted
      <4>2. CASE p \in Positions
        BY <1>7, <1>10, <3>1, <3>4, <4>2 DEF SendingIsSound
      <4> QED
        BY <1>7, <4>1, <4>2
    <3>5. SendingIsSound(s)'
      BY <3>1, <3>3, <3>4 DEF SendingIsSound
    <3> QED
      BY <2>1, <3>5 DEF RequestIsSound
  <2>2. CASE s.kind # "send"
    BY <1>7, <1>12, <2>2 DEF RequestIsSound, ListingIsSound, PageIsSound, FromOutside
  <2> QED
    BY <2>1, <2>2
<1>13. requests' \in [Requests -> RequestType] /\ RequestsAreSound'
  <2>1. RequestIsSound(Idle)'
    BY DEF Idle, RequestIsSound
  <2> QED
    BY <1>12, <2>1, IdleIsSound, OneMoves DEF ChatInvariant, End
<1>14. CooldownHolds'
  <2> SUFFICES ASSUME NEW p \in stored', NEW o \in stored', feed'[p].by = feed'[o].by, p < o
               PROVE  feed'[o].at - feed'[p].at >= Cooldown
    BY DEF CooldownHolds
  <2>1. CASE o = n
    <3>1. p \in stored /\ p \in Positions
      <4>1. p # n
        BY <1>7, <2>1
      <4>2. p \in stored
        BY <1>6, <4>1
      <4> QED
        BY <1>8, <4>2
    <3>2. feed[p].by = q.user
      BY <1>5, <1>7, <2>1, <3>1
    <3>3. feed[p].at <= q.now - Cooldown
      BY <3>1, <3>2 DEF Accepted
    <3> QED
      BY <1>4, <1>5, <1>7, <1>8, <2>1, <3>1, <3>3, Bounds
  <2>2. CASE o # n
    <3>1. o \in stored /\ p \in stored
      BY <1>6, <1>7, <1>8, <2>2
    <3> QED
      BY <1>7, <1>8, <3>1 DEF ChatInvariant, CooldownHolds
  <2> QED
    BY <2>1, <2>2
<1>15. OneMessagePerCommand'
  <2> SUFFICES ASSUME NEW p \in Positions', NEW o \in Positions', feed'[p].by = feed'[o].by,
                      feed'[p].id = feed'[o].id, p < o
               PROVE  feed'[o].at - feed'[p].at >= Retention
    BY DEF OneMessagePerCommand
  <2>1. CASE o = n
    <3>1. p \in Positions
      BY <1>7, <2>1
    <3>2. feed[p].by = q.user /\ feed[p].id = q.message.id
      BY <1>5, <1>7, <2>1, <3>1
    <3>3. ~Receipted(p)
      BY <3>2 DEF Receipted, Of, Known
    <3>4. feed[p].at + Retention <= q.now
      BY <3>1, <3>2, <3>3 DEF SendingIsSound
    <3>5. feed'[o].at = q.now /\ feed'[p].at = feed[p].at /\ feed[p].at \in Nat
      BY <1>5, <1>7, <1>8, <2>1, <3>1
    <3> QED
      BY <1>4, <3>4, <3>5, Bounds
  <2>2. CASE o # n
    <3>1. o \in Positions /\ o < n
      BY <1>7, <2>2
    <3>2. p \in Positions
      BY <1>7, <1>8, <3>1
    <3> QED
      BY <1>7, <3>1, <3>2 DEF ChatInvariant, OneMessagePerCommand
  <2> QED
    BY <2>1, <2>2
<1>16. TypesHold'
  BY <1>5, <1>6, <1>7, <1>13 DEF ChatInvariant, TypesHold
<1> QED
  BY <1>11, <1>13, <1>14, <1>15, <1>16 DEF ChatInvariant

\* The browser has its answer, or has not, and is what it was but for that.
LEMMA AnswerIsTyped ==
  ASSUME TypesHold, NEW u \in Users, NEW id, Answered(u, id)
  PROVE  client' \in [Users -> ClientType]
<1>1. client \in [Users -> ClientType] /\ client[u] \in ClientType
  BY DEF TypesHold
<1>2. PICK x : x = [client[u] EXCEPT !.sending = Nothing]
  OBVIOUS
<1>3. x \in ClientType
  BY <1>1, <1>2 DEF ClientType
<1>4. client' = client \/ client' = [client EXCEPT ![u] = x]
  BY <1>2 DEF Answered
<1> QED
  BY <1>1, <1>3, <1>4

\* A message is composed.
LEMMA ComposeIsSound ==
  ASSUME ChatInvariant, NEW u \in Users, NEW kind \in Kinds, Compose(u, kind)
  PROVE  ChatInvariant'
<1>1. /\ UNCHANGED <<clock, feed, stored, receipts, member, requests>>
      /\ issued \in Nat /\ issued' = issued + 1
      /\ client \in [Users -> ClientType] /\ client[u] \in ClientType
  BY DEF ChatInvariant, TypesHold, Compose, feedVars, roomVars
<1>2. PICK m : m = [id |-> issued + 1, kind |-> kind]
  OBVIOUS
<1>3. m \in MessageType
  BY <1>1, <1>2 DEF MessageType
<1>4. PICK x : x = [client[u] EXCEPT !.sending = m] /\ client' = [client EXCEPT ![u] = x]
  BY <1>2 DEF Compose
<1>5. x \in ClientType
  BY <1>1, <1>3, <1>4 DEF ClientType
<1>6. client' \in [Users -> ClientType]
  BY <1>1, <1>4, <1>5
<1> QED
  BY <1>1, <1>6, TalkRests

\* It is sent, or refused or confirmed at once.
LEMMA SendIsSound ==
  ASSUME ChatInvariant, NEW u \in Users, NEW r \in Requests, Send(u, r)
  PROVE  ChatInvariant'
<1>1. /\ UNCHANGED <<clock, feed, stored, receipts, member, issued>>
      /\ issued \in Nat /\ clock \in Nat /\ client \in [Users -> ClientType]
      /\ client[u] \in ClientType
  BY DEF ChatInvariant, TypesHold, Send, feedVars, roomVars
<1>2. PICK m : m = client[u].sending
  OBVIOUS
<1>3. m \in MessageType
  BY <1>1, <1>2 DEF Send, ClientType
<1>4. PICK x : x = [kind |-> "send", user |-> u, now |-> clock, message |-> m]
  OBVIOUS
<1>5. x \in SendType /\ x \in RequestType /\ x.kind = "send"
      /\ x.user = u /\ x.now = clock /\ x.message = m
  BY <1>1, <1>3, <1>4 DEF SendType, RequestType
<1>6. CASE UNCHANGED requests
  <2>1. Answered(u, m.id) \/ UNCHANGED client
    BY <1>2, <1>6 DEF Send
  <2>2. client' \in [Users -> ClientType]
    BY <1>1, <2>1, AnswerIsTyped DEF ChatInvariant
  <2> QED
    BY <1>1, <1>6, <2>2, TalkRests
<1>7. CASE ~Known(u, m.id) /\ requests' = [requests EXCEPT ![r] = x] /\ UNCHANGED client
  <2>1. \A y \in receipts : ~(y.by = u /\ y.id = m.id)
    BY <1>7 DEF Known
  <2>2. \A p \in Positions : feed[p].by = u /\ feed[p].id = m.id => feed[p].at + Retention <= clock
    BY <2>1 DEF ChatInvariant, LedgersAgree, Receipted, Of, Past
  <2>3. clock <= clock /\ clock <= clock + Latency
    BY <1>1, Bounds
  <2>4. RequestIsSound(x)
    BY <1>5, <2>1, <2>2, <2>3 DEF RequestIsSound, SendingIsSound
  <2> QED
    BY <1>1, <1>5, <1>7, <2>4, TalkMoves
<1> QED
  BY <1>2, <1>4, <1>6, <1>7 DEF Send

\* A batch says a message, or changes nothing.
LEMMA SendBatchIsSound ==
  ASSUME ChatInvariant, NEW r \in Requests, SendBatch(r)
  PROVE  ChatInvariant'
<1>1. PICK q \in SendType : q = requests[r] /\ SendingIsSound(q)
  BY KindTells DEF ChatInvariant, TypesHold, RequestsAreSound, RequestIsSound, SendBatch, At
<1>2. /\ UNCHANGED <<clock, member, issued>> /\ End(r) /\ Answered(q.user, q.message.id)
      /\ q.user \in Users
  BY <1>1 DEF SendBatch, roomVars, SendType
<1>3. client' \in [Users -> ClientType]
  BY <1>2, AnswerIsTyped DEF ChatInvariant
<1>4. CASE ~Collides(q) /\ (Accepted(q) \/ Known(q.user, q.message.id)) /\ Write(q)
  BY <1>1, <1>2, <1>3, <1>4, WriteIsAccepted, WriteIsSound
<1>5. CASE UNCHANGED feedVars
  BY <1>2, <1>3, <1>5, IdleIsSound, TalkMoves DEF End, feedVars, ChatInvariant, TypesHold
<1> QED
  BY <1>1, <1>4, <1>5 DEF SendBatch

-----------------------------------------------------------------------------
(***************************************************************************)
(* Listing.                                                                *)
(***************************************************************************)
\* At a private table nobody has come from outside.
LEMMA PrivateIsPrivate ==
  ASSUME NEW u \in Users, member[u].in, FromOutside(u)
  PROVE  ~PrivateTable
  BY DEF PrivateTable, Members, FromOutside

\* What a browser no longer wants is idle.
LEMMA UnwantedIs ==
  ASSUME TypesHold, NEW u
  PROVE  /\ Unwanted(u) \in [Requests -> RequestType]
         /\ \A r \in Requests : \/ Unwanted(u)[r] = Idle
                                \/ /\ Unwanted(u)[r] = requests[r]
                                   /\ requests[r].kind \in {"list", "page"} => requests[r].user # u
  BY IdleIsSound DEF Unwanted, TypesHold

\* A page is asked for.
LEMMA PollIsSound ==
  ASSUME ChatInvariant, NEW u \in Users, NEW r \in Requests, Poll(u, r)
  PROVE  ChatInvariant'
<1>1. /\ UNCHANGED <<clock, feed, stored, receipts, member, issued, client>>
      /\ issued \in Nat /\ clock \in Nat /\ client \in [Users -> ClientType]
      /\ client[u] \in ClientType /\ member[u] \in MemberType /\ member[u].in
      /\ member \in [Users -> MemberType]
  BY DEF ChatInvariant, TypesHold, Poll, feedVars, roomVars, IsMember
<1>2. PICK x : x = Viewer(u, client[u].cursor)
  OBVIOUS
<1>3. /\ x \in RequestType /\ x.kind = "list" /\ x.user = u /\ x.text = PrivateTable
  <2>1. PrivateTable \in BOOLEAN
    BY Zenon DEF PrivateTable
  <2>2. client[u].cursor \in Nat /\ member[u].since \in Int
    BY <1>1 DEF ClientType, MemberType
  <2> QED
    BY <1>1, <1>2, <2>1, <2>2 DEF Viewer, ListType, RequestType
<1>4. RequestIsSound(x)
  BY <1>1, <1>3, PrivateIsPrivate DEF RequestIsSound, ListingIsSound
<1>5. requests' = [Unwanted(u) EXCEPT ![r] = x]
  BY <1>2 DEF Poll
<1>6. requests' \in [Requests -> RequestType]
  BY <1>3, <1>5, UnwantedIs DEF ChatInvariant
<1>7. ASSUME NEW s \in Requests
      PROVE  RequestIsSound(requests[s])'
  <2>1. PICK q : q = requests'[s]
    OBVIOUS
  <2>2. q = x \/ q = Idle \/ q = requests[s]
    BY <1>5, <2>1, UnwantedIs DEF ChatInvariant
  <2>3. RequestIsSound(q)
    BY <1>4, <2>2, IdleIsSound DEF ChatInvariant, RequestsAreSound
  <2>4. RequestIsSound(q)'
    BY <1>1, <2>3, SoundStays DEF FromOutside
  <2> QED
    BY <2>1, <2>4 DEF RequestIsSound, SendingIsSound, ListingIsSound, PageIsSound, FromOutside
<1> QED
  BY <1>1, <1>6, <1>7, TalkStands DEF RequestsAreSound

\* A set of positions that is not empty has a first one.
LEMMA FirstOf ==
  ASSUME NEW S \in SUBSET Nat, S # {}
  PROVE  \E m \in S : \A o \in S : ~(o < m)
<1>1. PICK m \in S : \A o \in S : <<o, m>> \notin OpToRel(<, Nat)
  BY WFMin, NatLessThanWellFounded, Zenon
<1>2. \A o \in S : ~(o < m)
  BY <1>1, Zenon DEF OpToRel
<1> QED
  BY <1>2

\* The first few of a set are its beginning: none of them only if there is
\* none at all, and whatever comes before one of them is one of them.
LEMMA PageIsBeginning ==
  ASSUME NEW N \in Nat, NEW T \in SUBSET (1..N), NEW W \in Nat \ {0}, NEW S,
         S = {p \in T : Cardinality({o \in T : o < p}) < W}
  PROVE  /\ S = {} => T = {}
         /\ \A m \in S, p \in T : p <= m => p \in S
<1>1. IsFiniteSet(T)
  <2>1. IsFiniteSet(1..N)
    BY FS_Interval
  <2> QED
    BY <2>1, FS_Subset
<1>2. ASSUME NEW p
      PROVE  IsFiniteSet({o \in T : o < p}) /\ Cardinality({o \in T : o < p}) \in Nat
  <2>1. {o \in T : o < p} \subseteq T
    OBVIOUS
  <2> QED
    BY <1>1, <2>1, FS_Subset, FS_CardinalityType
<1>3. ASSUME T # {} PROVE S # {}
  <2>1. PICK m \in T : \A o \in T : ~(o < m)
    <3>1. T \in SUBSET Nat
      OBVIOUS
    <3> QED
      BY <1>3, <3>1, FirstOf
  <2>2. {o \in T : o < m} = {}
    BY <2>1
  <2>3. Cardinality({o \in T : o < m}) = 0
    BY <2>2, FS_EmptySet
  <2> QED
    BY <2>1, <2>3
<1>4. ASSUME NEW m \in S, NEW p \in T, p <= m
      PROVE  p \in S
  <2>1. m \in T /\ m \in Nat /\ p \in Nat /\ Cardinality({o \in T : o < m}) < W
    BY <1>4
  <2>2. \A o \in T : o < p => o < m
    <3>1. \A o \in T : o \in Nat
      OBVIOUS
    <3> QED
      BY <1>4, <2>1, <3>1
  <2>3. {o \in T : o < p} \subseteq {o \in T : o < m}
    BY <2>2
  <2>4. Cardinality({o \in T : o < p}) <= Cardinality({o \in T : o < m})
    BY <1>2, <2>3, FS_Subset
  <2>5. PICK i \in Nat, j \in Nat : i = Cardinality({o \in T : o < p}) /\ j = Cardinality({o \in T : o < m})
    BY <1>2
  <2>6. Cardinality({o \in T : o < p}) < W
    BY <2>1, <2>4, <2>5
  <2> QED
    BY <2>6
<1> QED
  BY <1>3, <1>4

\* The last of some positions is one of them, and none comes after it.
LEMMA FinalIsLast ==
  ASSUME TypesHold, NEW S \in SUBSET Positions, NEW default \in Nat
  PROVE  /\ Final(S, default) \in Nat
         /\ S # {} => Final(S, default) \in S
<1>1. CASE S = {}
  BY <1>1 DEF Final
<1>2. CASE S # {}
  <2>1. \E m \in S : \A o \in S : o <= m
    BY <1>2, FeedIs, LastOf
  <2>2. Final(S, default) = CHOOSE m \in S : \A o \in S : o <= m
    BY <1>2 DEF Final
  <2>3. Final(S, default) \in S
    BY <2>1, <2>2
  <2> QED
    BY <2>3, FeedIs
<1> QED
  BY <1>1, <1>2

\* What a request looks at is there, and free text only if it may show it.
LEMMA ScannedIs ==
  ASSUME NEW q
  PROVE  /\ Scanned(q) \subseteq Positions
         /\ \A p \in Scanned(q) : feed[p].kind = "text" => q.text
<1>1. \A p \in Scanned(q) : p \in Positions /\ Listed(q, p)
  BY DEF Scanned
<1> QED
  BY <1>1 DEF Listed

\* Nothing that its reader could be given is before the position that comes
\* with the page, and not on it.
LEMMA NothingIsMissed ==
  ASSUME TypesHold, NEW q \in ListType, ~Rebased(q)
  PROVE  {p \in Positions : /\ p > q.cursor /\ Listed(q, p)
                            /\ p <= Final(Scanned(q), q.cursor) \/ Scanned(q) = {}} \ Scanned(q) = {}
<1>1. PICK T : T = {p \in Positions : Listed(q, p) /\ (Rebased(q) \/ p > q.cursor)}
  OBVIOUS
<1>2. Scanned(q) = {p \in T : Cardinality({o \in T : o < p}) < Window}
  BY <1>1 DEF Scanned
<1>3. T \in SUBSET (1..Len(feed)) /\ Len(feed) \in Nat
  BY <1>1, FeedIs
<1>4. /\ Scanned(q) = {} => T = {}
      /\ \A m \in Scanned(q), p \in T : p <= m => p \in Scanned(q)
  BY <1>2, <1>3, PageIsBeginning, Bounds
<1>5. q.cursor \in Nat
  BY DEF ListType
<1>6. Scanned(q) # {} => Final(Scanned(q), q.cursor) \in Scanned(q)
  BY <1>5, ScannedIs, FinalIsLast
<1>7. ASSUME NEW p \in Positions, p > q.cursor, Listed(q, p),
             p <= Final(Scanned(q), q.cursor) \/ Scanned(q) = {}
      PROVE  p \in Scanned(q)
  BY <1>1, <1>4, <1>6, <1>7
<1> QED
  BY <1>7

\* A page is put together.
LEMMA ListScanIsSound ==
  ASSUME ChatInvariant, NEW r \in Requests, ListScan(r)
  PROVE  ChatInvariant'
<1>1. PICK q \in ListType : q = requests[r] /\ ListingIsSound(q)
  BY KindTells DEF ChatInvariant, TypesHold, RequestsAreSound, RequestIsSound, ListScan, At
<1>2. /\ UNCHANGED <<clock, feed, stored, receipts, member, issued, client>>
      /\ issued \in Nat /\ client \in [Users -> ClientType] /\ TypesHold
  BY DEF ChatInvariant, TypesHold, ListScan, feedVars, roomVars
<1>3. PICK next : next = Final(Scanned(q), IF Rebased(q) THEN 0 ELSE q.cursor)
  OBVIOUS
<1>4. PICK page : page = {p \in Scanned(q) : ~Silenced(q.user, feed[p].by)}
  OBVIOUS
<1>5. PICK missed : missed = IF Rebased(q) THEN {}
                             ELSE {p \in Positions : /\ p > q.cursor /\ Listed(q, p)
                                                     /\ p <= next \/ Scanned(q) = {}} \ Scanned(q)
  OBVIOUS
<1>6. PICK x : x = [kind |-> "page", user |-> q.user, now |-> q.now, text |-> q.text, next |-> next,
                    page |-> page, missed |-> missed]
  OBVIOUS
<1>7. requests' = [requests EXCEPT ![r] = x]
  BY <1>1, <1>3, <1>4, <1>5, <1>6 DEF ListScan
<1>8. q.user \in Users /\ q.now \in Nat /\ q.text \in BOOLEAN /\ q.cursor \in Nat
  BY DEF ListType
<1>9. next \in Nat
  <2>1. (IF Rebased(q) THEN 0 ELSE q.cursor) \in Nat
    BY <1>8
  <2> QED
    BY <1>2, <1>3, <2>1, FinalIsLast, ScannedIs
<1>10. page \subseteq Positions /\ page \in SUBSET Nat
  BY <1>2, <1>4, ScannedIs, FeedIs
<1>11. missed = {}
  BY <1>2, <1>3, <1>5, NothingIsMissed
<1>12. /\ x \in PageType /\ x \in RequestType /\ x.kind = "page"
       /\ x.user = q.user /\ x.text = q.text /\ x.page = page
  BY <1>6, <1>8, <1>9, <1>10, <1>11 DEF PageType, RequestType
<1>13. FromOutside(q.user) => \A p \in page : feed[p].kind # "text"
  BY <1>1, <1>4, ScannedIs DEF ListingIsSound
<1>14. RequestIsSound(x)
  BY <1>10, <1>12, <1>13 DEF RequestIsSound, PageIsSound
<1> QED
  BY <1>2, <1>7, <1>12, <1>14, TalkMoves

\* A page is taken.
LEMMA ListAnswerIsSound ==
  ASSUME ChatInvariant, NEW r \in Requests, ListAnswer(r)
  PROVE  ChatInvariant'
<1>1. PICK q \in PageType : q = requests[r]
  BY KindTells DEF ChatInvariant, TypesHold, ListAnswer, At
<1>2. /\ UNCHANGED <<clock, feed, stored, receipts, member, issued>>
      /\ issued \in Nat /\ client \in [Users -> ClientType] /\ requests' = [requests EXCEPT ![r] = Idle]
  BY DEF ChatInvariant, TypesHold, ListAnswer, feedVars, roomVars, End
<1>3. q.user \in Users /\ q.next \in Nat /\ q.missed = {} /\ client[q.user] \in ClientType
  BY <1>2 DEF PageType
<1>4. PICK c : c = IF q.next # 0 THEN q.next ELSE client[q.user].cursor
  OBVIOUS
<1>5. PICK m : m = client[q.user].missed \cup q.missed
  OBVIOUS
<1>6. c \in Nat /\ m = {}
  BY <1>3, <1>4, <1>5 DEF ClientType
<1>7. PICK x : x = Taken(client[q.user], q) /\ client' = [client EXCEPT ![q.user] = x]
  BY <1>1 DEF ListAnswer
<1>8. x \in ClientType
  BY <1>3, <1>4, <1>5, <1>6, <1>7 DEF ClientType, Taken
<1>9. client' \in [Users -> ClientType]
  BY <1>2, <1>3, <1>7, <1>8
<1> QED
  BY <1>2, <1>9, IdleIsSound, TalkMoves

-----------------------------------------------------------------------------
(***************************************************************************)
(* What happens besides.                                                   *)
(***************************************************************************)
\* An invocation is killed, or its answer is lost.
LEMMA DropIsSound ==
  ASSUME ChatInvariant, NEW r \in Requests, Drop(r)
  PROVE  ChatInvariant'
<1>1. /\ UNCHANGED <<clock, feed, stored, receipts, member, issued>>
      /\ issued' \in Nat /\ client' \in [Users -> ClientType]
      /\ requests' = [requests EXCEPT ![r] = Idle]
  BY DEF ChatInvariant, TypesHold, Drop, End, feedVars, roomVars
<1> QED
  BY <1>1, IdleIsSound, TalkMoves

\* A browser reads the game.
LEMMA ReadGameIsSound ==
  ASSUME ChatInvariant, NEW u \in Users, ReadGame(u)
  PROVE  ChatInvariant'
<1>1. /\ UNCHANGED <<clock, feed, stored, receipts, member, requests, issued>>
      /\ issued' \in Nat /\ client \in [Users -> ClientType] /\ client[u] \in ClientType
  BY DEF ChatInvariant, TypesHold, ReadGame, feedVars, roomVars
<1>2. PICK x : x = [client[u] EXCEPT !.players = Members] /\ client' = [client EXCEPT ![u] = x]
  BY DEF ReadGame
<1>3. Members \in SUBSET Users
  BY DEF Members
<1>4. x \in ClientType
  BY <1>1, <1>2, <1>3 DEF ClientType
<1>5. client' \in [Users -> ClientType]
  BY <1>1, <1>2, <1>4
<1> QED
  BY <1>1, <1>5, TalkRests

\* Reports, mutes, blocks and the listing of the table are about the talk,
\* and no part of it.
LEMMA BesidesIsSound ==
  ASSUME ChatInvariant,
         \/ Publish
         \/ \E u \in Users, p \in Positions : Report(u, p)
         \/ \E u \in Users, v \in Users : SetTableMute(u, v) \/ SetTableBlock(u, v)
  PROVE  ChatInvariant'
<1>1. /\ UNCHANGED <<clock, feed, stored, receipts, member, requests, issued, client>>
  BY DEF Publish, Report, SetTableMute, SetTableBlock, feedVars, roomVars
<1>2. issued' \in Nat /\ client' \in [Users -> ClientType]
  BY <1>1 DEF ChatInvariant, TypesHold
<1> QED
  BY <1>1, <1>2, TalkRests

\* Time goes on, but not past what an invocation may take.
LEMMA TickIsSound ==
  ASSUME ChatInvariant, Tick
  PROVE  ChatInvariant'
<1>1. /\ UNCHANGED <<feed, stored, receipts, member, requests, issued, client>>
      /\ clock \in Nat /\ clock' = clock + 1
  BY DEF Tick, ChatInvariant, TypesHold, feedVars, roomVars
<1>2. TypesHold'
  BY <1>1 DEF ChatInvariant, TypesHold, Positions
<1>3. ASSUME NEW at \in Nat, Past(at)
      PROVE  Past(at)'
  BY <1>1, <1>3, Bounds DEF Past
<1>4. LedgersAgree'
  <2>1. \A x \in receipts : x.at \in Nat
    BY DEF ChatInvariant, TypesHold, ReceiptType
  <2>2. \A p \in Positions : feed[p].at \in Nat
    BY FeedIs DEF ChatInvariant
  <2>3. ASSUME NEW x \in receipts'
        PROVE  \E p \in Positions' : Of(x, p)' /\ (p \in stored' \/ Past(x.at)')
    BY <1>1, <1>3, <2>1, <2>3 DEF ChatInvariant, LedgersAgree, Of, Positions
  <2>4. ASSUME NEW p \in Positions'
        PROVE  Receipted(p)' \/ Past(feed[p].at)'
    <3>1. p \in Positions
      BY <1>1, <2>4 DEF Positions
    <3>2. Receipted(p) \/ Past(feed[p].at)
      BY <3>1 DEF ChatInvariant, LedgersAgree
    <3>3. Past(feed[p].at) => feed[p].at + Retention <= clock'
      BY <1>1, <1>3, <2>2, <3>1 DEF Past
    <3> QED
      BY <1>1, <3>2, <3>3 DEF Receipted, Of, Past
  <2> QED
    BY <2>3, <2>4 DEF LedgersAgree, Past, Of
<1>5. ASSUME NEW s \in Requests
      PROVE  RequestIsSound(requests[s])'
  <2>1. PICK q \in RequestType : q = requests[s]
    BY DEF ChatInvariant, TypesHold
  <2>2. RequestIsSound(q)
    BY <2>1 DEF ChatInvariant, RequestsAreSound
  <2>3. ASSUME q.kind = "send"
        PROVE  SendingIsSound(q)'
    <3>1. SendingIsSound(q) /\ q.now \in Nat
      BY <2>2, <2>3, KindTells DEF RequestIsSound, SendType
    <3>2. clock - q.now < Latency
      BY <2>1, <2>3 DEF Tick, Busy, Idle
    <3>3. q.now <= clock' /\ clock' <= q.now + Latency
      BY <1>1, <3>1, <3>2, Bounds DEF SendingIsSound
    <3> QED
      BY <1>1, <3>1, <3>3 DEF SendingIsSound, Positions, Receipted, Of
  <2>4. RequestIsSound(q)'
    BY <1>1, <2>2, <2>3 DEF RequestIsSound, ListingIsSound, PageIsSound, FromOutside, Positions
  <2>5. q = requests'[s]
    BY <1>1, <2>1
  <2> QED
    BY <2>4, <2>5 DEF RequestIsSound, SendingIsSound, ListingIsSound, PageIsSound, FromOutside
<1>6. CooldownHolds' /\ OneMessagePerCommand'
  BY <1>1 DEF ChatInvariant, CooldownHolds, OneMessagePerCommand, Positions
<1> QED
  BY <1>2, <1>4, <1>5, <1>6 DEF ChatInvariant, RequestsAreSound

\* Somebody joins, and has not asked for anything yet.
LEMMA JoinIsSound ==
  ASSUME ChatInvariant, NEW u \in Users, NEW source \in {"invite", "public"}, Join(u, source)
  PROVE  ChatInvariant'
<1>1. /\ UNCHANGED <<clock, feed, stored, receipts, issued>> /\ requests' = Unwanted(u)
      /\ issued' \in Nat /\ clock \in Nat /\ member \in [Users -> MemberType]
      /\ client \in [Users -> ClientType] /\ client[u] \in ClientType /\ TypesHold
  BY DEF ChatInvariant, TypesHold, Join, feedVars
<1>2. PICK t \in {clock - Latency, clock} :
        member' = [member EXCEPT ![u] = [in |-> TRUE, since |-> t, source |-> source]]
  BY DEF Join
<1>3. PICK m : m = [in |-> TRUE, since |-> t, source |-> source]
  OBVIOUS
<1>4. m \in MemberType
  <2>1. t \in Int
    BY <1>1, <1>2, Bounds
  <2> QED
    BY <1>3, <2>1 DEF MemberType
<1>5. member' = [member EXCEPT ![u] = m]
  BY <1>2, <1>3
<1>6. member' \in [Users -> MemberType] /\ \A v \in Users \ {u} : member'[v] = member[v]
  BY <1>1, <1>4, <1>5
<1>7. PICK x : /\ x = [NewBrowser EXCEPT !.players = Members \cup {u}, !.sending = client[u].sending]
               /\ client' = [client EXCEPT ![u] = x]
  BY DEF Join
<1>8. x \in ClientType
  <2>1. PICK s, p : s = client[u].sending /\ p = Members \cup {u}
    OBVIOUS
  <2>2. s \in {Nothing} \cup MessageType /\ p \in SUBSET Users /\ Members \in SUBSET Users
    BY <1>1, <2>1 DEF ClientType, Members
  <2>3. x = [NewBrowser EXCEPT !.players = p, !.sending = s]
    BY <1>7, <2>1
  <2>4. x = [cursor |-> 0, players |-> p, missed |-> {}, sending |-> s]
    BY <2>3 DEF NewBrowser
  <2> QED
    BY <2>2, <2>4 DEF ClientType
<1>9. client' \in [Users -> ClientType]
  BY <1>1, <1>7, <1>8
<1>10. requests' \in [Requests -> RequestType]
  BY <1>1, UnwantedIs
<1>11. ASSUME NEW s \in Requests
       PROVE  RequestIsSound(requests[s])'
  <2>1. PICK q : q = requests'[s]
    OBVIOUS
  <2>2. q \in RequestType
    BY <1>10, <2>1
  <2>3. RequestIsSound(q) /\ (q.kind \in {"list", "page"} => q.user # u)
    BY <1>1, <2>1, UnwantedIs, IdleIsSound DEF ChatInvariant, RequestsAreSound, Idle
  <2>4. q.kind \in {"list", "page"} => q.user \in Users
    BY <2>2, KindTells DEF ListType, PageType
  <2>5. q.kind \in {"list", "page"} => (FromOutside(q.user)' <=> FromOutside(q.user))
    BY <1>6, <2>3, <2>4 DEF FromOutside
  <2>6. RequestIsSound(q)'
    BY <1>1, <2>3, <2>5 DEF RequestIsSound, SendingIsSound, ListingIsSound, PageIsSound, Receipted,
                            Of, Positions
  <2> QED
    BY <2>1, <2>6 DEF RequestIsSound, SendingIsSound, ListingIsSound, PageIsSound, FromOutside
<1> QED
  BY <1>1, <1>6, <1>9, <1>10, <1>11, TalkStands DEF RequestsAreSound

\* Somebody leaves, and is still from where they came.
LEMMA LeaveIsSound ==
  ASSUME ChatInvariant, NEW u \in Users, Leave(u)
  PROVE  ChatInvariant'
<1>1. /\ UNCHANGED <<clock, feed, stored, receipts, issued, client, requests>>
      /\ issued' \in Nat /\ member \in [Users -> MemberType] /\ member[u] \in MemberType
      /\ client' \in [Users -> ClientType] /\ requests' \in [Requests -> RequestType]
  BY DEF ChatInvariant, TypesHold, Leave, feedVars
<1>2. PICK m : m = [member[u] EXCEPT !.in = FALSE] /\ member' = [member EXCEPT ![u] = m]
  BY DEF Leave
<1>3. m \in MemberType /\ m.source = member[u].source
  BY <1>1, <1>2 DEF MemberType
<1>4. member' \in [Users -> MemberType] /\ \A v \in Users : member'[v].source = member[v].source
  BY <1>1, <1>2, <1>3
<1>5. ASSUME NEW s \in Requests
      PROVE  RequestIsSound(requests[s])'
  <2>1. PICK q \in RequestType : q = requests[s] /\ RequestIsSound(q)
    BY DEF ChatInvariant, TypesHold, RequestsAreSound
  <2>2. q.kind \in {"list", "page"} => (FromOutside(q.user)' <=> FromOutside(q.user))
    BY <1>4, KindTells DEF FromOutside, ListType, PageType
  <2>3. RequestIsSound(q)'
    BY <1>1, <2>1, <2>2 DEF RequestIsSound, SendingIsSound, ListingIsSound, PageIsSound, Receipted,
                            Of, Positions
  <2>4. q = requests'[s]
    BY <1>1, <2>1
  <2> QED
    BY <2>3, <2>4 DEF RequestIsSound, SendingIsSound, ListingIsSound, PageIsSound, FromOutside
<1> QED
  BY <1>1, <1>4, <1>5, TalkStands DEF RequestsAreSound

\* A message is forgotten when it is old, and its receipt is still old when it
\* is the only trace of it.
LEMMA MessageIsForgotten ==
  ASSUME ChatInvariant, NEW p \in stored, Past(feed[p].at), stored' = stored \ {p},
         UNCHANGED <<clock, feed, receipts, member, requests, issued, client>>
  PROVE  ChatInvariant'
<1>1. TypesHold'
  BY DEF ChatInvariant, TypesHold, Positions
<1>2. LedgersAgree'
  <2>1. ASSUME NEW x \in receipts'
        PROVE  \E o \in Positions' : Of(x, o)' /\ (o \in stored' \/ Past(x.at)')
    <3>1. PICK o \in Positions : Of(x, o) /\ (o \in stored \/ Past(x.at))
      BY <2>1 DEF ChatInvariant, LedgersAgree
    <3>2. o = p => Past(x.at)
      BY <3>1 DEF Of
    <3>3. o \in stored' \/ Past(x.at)
      BY <3>1, <3>2
    <3> QED
      BY <3>1, <3>3 DEF Of, Past, Positions
  <2> QED
    BY <2>1 DEF ChatInvariant, LedgersAgree, Positions, Receipted, Of, Past
<1>3. \A q : RequestIsSound(q) => RequestIsSound(q)'
  BY SoundStays DEF FromOutside
<1>4. RequestsAreSound'
  BY <1>3 DEF ChatInvariant, RequestsAreSound, RequestIsSound, SendingIsSound, ListingIsSound,
              PageIsSound, Receipted, Of, Positions, FromOutside
<1>5. CooldownHolds' /\ OneMessagePerCommand'
  BY DEF ChatInvariant, CooldownHolds, OneMessagePerCommand, Positions
<1> QED
  BY <1>1, <1>2, <1>4, <1>5 DEF ChatInvariant

\* A receipt is forgotten when it is old, and no invocation that began before
\* it was there is left by then.
LEMMA ReceiptIsForgotten ==
  ASSUME ChatInvariant, NEW x \in receipts, x.at <= clock - Retention, receipts' = receipts \ {x},
         UNCHANGED <<clock, feed, stored, member, requests, issued, client>>
  PROVE  ChatInvariant'
<1>1. TypesHold'
  BY DEF ChatInvariant, TypesHold, Positions
<1>2. x.at \in Nat /\ clock \in Nat
  BY DEF ChatInvariant, TypesHold, ReceiptType
<1>3. Past(x.at)
  BY <1>2, Bounds DEF Past
<1>4. \A p \in Positions : Receipted(p) => Receipted(p)' \/ Of(x, p)
  BY DEF Receipted, Of
<1>5. LedgersAgree'
  <2>1. \A y \in receipts' : \E p \in Positions' : Of(y, p)' /\ (p \in stored' \/ Past(y.at)')
    BY DEF ChatInvariant, LedgersAgree, Of, Past, Positions
  <2>2. ASSUME NEW p \in Positions'
        PROVE  Receipted(p)' \/ Past(feed[p].at)'
    <3>1. p \in Positions
      BY <2>2 DEF Positions
    <3>2. Receipted(p) \/ Past(feed[p].at)
      BY <3>1 DEF ChatInvariant, LedgersAgree
    <3>3. Of(x, p) => Past(feed[p].at)
      BY <1>3 DEF Of
    <3>4. Receipted(p)' \/ Past(feed[p].at)
      BY <1>4, <3>1, <3>2, <3>3
    <3> QED
      BY <3>4 DEF Past
  <2> QED
    BY <2>1, <2>2 DEF LedgersAgree, Of, Past
<1>6. ASSUME NEW s \in Requests
      PROVE  RequestIsSound(requests[s])'
  <2>1. PICK q \in RequestType : q = requests[s] /\ RequestIsSound(q)
    BY DEF ChatInvariant, TypesHold, RequestsAreSound
  <2>2. ASSUME q.kind = "send"
        PROVE  SendingIsSound(q)'
    <3>1. SendingIsSound(q) /\ q.now \in Nat
      BY <2>1, <2>2, KindTells DEF RequestIsSound, SendType
    <3>2. ~(x.by = q.user /\ x.id = q.message.id)
      BY <1>2, <3>1, Bounds DEF SendingIsSound
    <3>3. ASSUME NEW p \in Positions, feed[p].by = q.user, feed[p].id = q.message.id
          PROVE  Receipted(p)' \/ feed[p].at + Retention <= q.now
      <4>1. ~Of(x, p)
        BY <3>2, <3>3 DEF Of
      <4> QED
        BY <1>4, <3>1, <3>3, <4>1 DEF SendingIsSound
    <3>4. \A y \in receipts' : y.by = q.user /\ y.id = q.message.id => q.now <= y.at + Latency
      BY <3>1 DEF SendingIsSound
    <3> QED
      BY <3>1, <3>3, <3>4 DEF SendingIsSound, Positions
  <2>3. RequestIsSound(q)'
    BY <2>1, <2>2 DEF RequestIsSound, ListingIsSound, PageIsSound, FromOutside, Positions
  <2>4. q = requests'[s]
    BY <2>1
  <2> QED
    BY <2>3, <2>4 DEF RequestIsSound, SendingIsSound, ListingIsSound, PageIsSound, FromOutside
<1>7. CooldownHolds' /\ OneMessagePerCommand'
  BY DEF ChatInvariant, CooldownHolds, OneMessagePerCommand, Positions
<1> QED
  BY <1>1, <1>5, <1>6, <1>7 DEF ChatInvariant, RequestsAreSound

\* What has expired is deleted, messages and receipts in either order.
LEMMA CleanupIsSound ==
  ASSUME ChatInvariant, Cleanup
  PROVE  ChatInvariant'
<1>1. UNCHANGED <<clock, feed, member, requests, issued, client>>
  BY DEF Cleanup, roomVars
<1>2. CASE \E p \in stored : feed[p].at + Retention <= clock
             /\ stored' = stored \ {p} /\ UNCHANGED <<receipts, received>>
  BY <1>1, <1>2, MessageIsForgotten DEF Past
<1>3. CASE \E x \in receipts : x.at <= clock - Retention
             /\ receipts' = receipts \ {x} /\ UNCHANGED <<stored, received>>
  BY <1>1, <1>3, ReceiptIsForgotten
<1>4. CASE UNCHANGED <<stored, receipts>>
  BY <1>1, <1>4, TalkRests DEF ChatInvariant, TypesHold
<1> QED
  BY <1>2, <1>3, <1>4 DEF Cleanup

-----------------------------------------------------------------------------
(***************************************************************************)
(* The invariant holds.                                                    *)
(***************************************************************************)
\* A table at which nobody has spoken.
LEMMA InitIsSound == Init => ChatInvariant
<1> SUFFICES ASSUME Init PROVE ChatInvariant
  OBVIOUS
<1>1. TypesHold
  <2>1. member \in [Users -> MemberType]
    BY DEF Init, MemberType
  <2>2. NewBrowser \in ClientType
    BY DEF NewBrowser, ClientType, Members
  <2>3. client \in [Users -> ClientType]
    BY <2>2 DEF Init
  <2>4. requests \in [Requests -> RequestType]
    BY IdleIsSound DEF Init
  <2> QED
    BY <2>1, <2>3, <2>4 DEF Init, TypesHold
<1>2. Positions = {} /\ stored = {} /\ receipts = {}
  BY DEF Init, Positions
<1>3. RequestsAreSound
  BY IdleIsSound DEF Init, RequestsAreSound
<1> QED
  BY <1>1, <1>2, <1>3 DEF ChatInvariant, LedgersAgree, CooldownHolds, OneMessagePerCommand

\* Every step keeps the invariant.
LEMMA StepsAreSound == ChatInvariant /\ [Next]_vars => ChatInvariant'
<1> SUFFICES ASSUME ChatInvariant, [Next]_vars PROVE ChatInvariant'
  OBVIOUS
<1>1. CASE \E u \in Users : Browser(u)
  BY <1>1, ComposeIsSound, SendIsSound, PollIsSound, ReadGameIsSound, BesidesIsSound DEF Browser
<1>2. CASE \E r \in Requests : Serve(r)
  BY <1>2, SendBatchIsSound, ListScanIsSound, ListAnswerIsSound, DropIsSound DEF Serve
<1>3. CASE Room
  BY <1>3, JoinIsSound, LeaveIsSound, BesidesIsSound DEF Room
<1>4. CASE Tick \/ Cleanup
  BY <1>4, TickIsSound, CleanupIsSound
<1>5. CASE UNCHANGED vars
  <2>1. UNCHANGED <<clock, feed, stored, receipts, member, requests, issued, client>>
    BY <1>5 DEF vars, roomVars, feedVars
  <2> QED
    BY <2>1, TalkRests DEF ChatInvariant, TypesHold
<1> QED
  BY <1>1, <1>2, <1>3, <1>4, <1>5 DEF Next

\* The invariant is one (chat-store.ts:300, chat-store.ts:408).
THEOREM ChatIsSound == Spec => []ChatInvariant
  BY InitIsSound, StepsAreSound, PTL DEF Spec

\* However often a message is sent again, and whichever of its copies comes
\* first, it is said once for as long as it is kept (chat-store.ts:300).
THEOREM MessagesAreSaidOnce == Spec => []OneMessagePerCommand
<1>1. ChatInvariant => OneMessagePerCommand
  BY DEF ChatInvariant
<1> QED
  BY <1>1, ChatIsSound, PTL

\* Two messages of one sender that are kept are the cooldown apart, in the
\* order of their positions (chat-store.ts:413).
THEOREM CooldownAlwaysHolds == Spec => []CooldownHolds
<1>1. ChatInvariant => CooldownHolds
  BY DEF ChatInvariant
<1> QED
  BY <1>1, ChatIsSound, PTL

\* The position of a browser passes over nothing that the browser could have
\* been given (chat-store.ts:242).
THEOREM NothingIsEverPassedOver == Spec => []NothingIsPassedOver
<1>1. ChatInvariant => NothingIsPassedOver
  BY DEF ChatInvariant, TypesHold, ClientType, NothingIsPassedOver
<1> QED
  BY <1>1, ChatIsSound, PTL

\* Only a batch says anything.
LEMMA OnlyBatchesSpeak ==
  ASSUME [Next]_vars, ~UNCHANGED feed
  PROVE  \E r \in Requests : SendBatch(r)
<1>1. CASE \E u \in Users : Browser(u)
  BY <1>1 DEF Browser, Compose, Send, Poll, Report, SetTableMute, SetTableBlock, ReadGame, feedVars
<1>2. CASE \E r \in Requests : Serve(r)
  BY <1>2 DEF Serve, ListScan, ListAnswer, Drop, feedVars
<1>3. CASE Room \/ Tick \/ Cleanup
  BY <1>3 DEF Room, Leave, Join, Publish, Tick, Cleanup, feedVars
<1>4. CASE UNCHANGED vars
  BY <1>4 DEF vars, feedVars
<1> QED
  BY <1>1, <1>2, <1>3, <1>4 DEF Next

\* Free text is said where nobody has come from outside.
LEMMA TextIsPrivate ==
  ASSUME ChatInvariant, [Next]_vars, NEW p \in Positions' \ Positions, feed'[p].kind = "text"
  PROVE  PrivateTable
<1>1. ~UNCHANGED feed
  BY DEF Positions
<1>2. PICK r \in Requests : SendBatch(r)
  BY <1>1, OnlyBatchesSpeak
<1>3. PICK q \in SendType : q = requests[r] /\ SendingIsSound(q)
  BY <1>2, KindTells DEF ChatInvariant, TypesHold, RequestsAreSound, RequestIsSound, SendBatch, At
<1>4. ~Collides(q) /\ (Accepted(q) \/ Known(q.user, q.message.id)) /\ Write(q)
  BY <1>1, <1>2, <1>3 DEF SendBatch, feedVars
<1>5. Accepted(q)
  BY <1>3, <1>4, WriteIsAccepted
<1>6. PICK e : e = [by |-> q.user, id |-> q.message.id, kind |-> q.message.kind, at |-> q.now]
  OBVIOUS
<1>7. e \in EntryType /\ e.kind = q.message.kind
  BY <1>6 DEF EntryType, SendType, MessageType
<1>8. feed' = Append(feed, e)
  BY <1>4, <1>6 DEF Write
<1>9. feed'[p] = e
  BY <1>7, <1>8, FeedGrows DEF ChatInvariant
<1> QED
  BY <1>5, <1>7, <1>9 DEF Accepted

\* No free text is said at a table that is public or has somebody who came
\* from the listing, and none is on a page of theirs (chat-store.ts:408).
THEOREM TextAlwaysStaysPrivate == Spec => TextStaysPrivate
<1>1. ASSUME ChatInvariant, ChatInvariant', [Next]_vars
      PROVE  /\ \A p \in Positions' \ Positions : feed'[p].kind = "text" => PrivateTable
             /\ \A r \in Requests : requests'[r].kind = "page" /\ member'[requests'[r].user].source = "public"
                  => \A p \in requests'[r].page : feed'[p].kind # "text"
  <2>1. \A p \in Positions' \ Positions : feed'[p].kind = "text" => PrivateTable
    BY <1>1, TextIsPrivate
  <2>2. ASSUME NEW r \in Requests, requests'[r].kind = "page",
               member'[requests'[r].user].source = "public"
        PROVE  \A p \in requests'[r].page : feed'[p].kind # "text"
    BY <1>1, <2>2 DEF ChatInvariant, RequestsAreSound, RequestIsSound, PageIsSound, FromOutside
  <2> QED
    BY <2>1, <2>2
<1> QED
  BY <1>1, ChatIsSound, PTL DEF Spec, TextStaysPrivate
=============================================================================
