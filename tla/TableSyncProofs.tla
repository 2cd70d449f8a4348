---------------------------- MODULE TableSyncProofs ----------------------------
(***************************************************************************)
(* A browser at its table, for any number of moves and sockets, however    *)
(* long a page is and whatever the limits of the companion.                *)
(***************************************************************************)
EXTENDS TableSync, TLAPS

-----------------------------------------------------------------------------
(***************************************************************************)
(* The invariant.  A read under way was asked for with what was then       *)
(* shown, so that what it brings can follow it; and whatever is newer than *)
(* the table that a live browser shows is still on its way to it: in a     *)
(* notice, in a frame of its socket, in the queue, or in a read that       *)
(* somebody waits for who will not stay live if it fails.                  *)
(***************************************************************************)
LinkType == [at: {"none", "asked", "open", "shut"}, ready: BOOLEAN, hints: Nat]
PollType == [pc: {"none", "asked", "row", "answered"}, cursor: 0..revision,
             revision: 0..revision, upto: 0..revision]
WaitType == [who: {Nobody, Flush} \cup Tickets, on: BOOLEAN]
CommandType == [pc: {"none", "sent", "saved", "fresh", "replayed", "refused"},
                expected: 0..revision, applied: 0..revision, revision: 0..revision]
ControlType == [state: {"connecting", "live", "fallback", "disabled"}, asking: Nat,
                socket: {0} \cup Tickets, stray: SUBSET Tickets,
                timer: BOOLEAN, queued: BOOLEAN]

RoomIsSound ==
  /\ scenario \in Scenarios
  /\ revision \in 1..scenario.revisions /\ notices \subseteq 2..revision /\ missed \in BOOLEAN
  /\ window \in [count: Nat, resync: BOOLEAN]
  /\ link \in [Tickets -> LinkType]

ShownIsSound ==
  /\ view \in 1..revision /\ cursor \in 1..revision
  /\ ActivityIsComplete

PollIsSound ==
  /\ poll \in PollType
  /\ poll.pc = "none" => poll = NoPoll
  /\ poll.pc # "none" => poll.cursor \in 1..cursor
  /\ poll.pc \in {"row", "answered"} => poll.revision >= 1
  /\ poll.pc = "answered" => poll.cursor <= poll.upto

WaitingIsSound ==
  /\ waiting \subseteq WaitType
  /\ poll.pc = "none" => waiting = {}

ClientIsSound == command \in CommandType /\ control \in ControlType

\* a read that somebody waits for, or the one after it, will show revision n
Awaited(n) ==
  \E w \in waiting :
    /\ w.who # Nobody
    /\ \/ ~w.on \/ poll.pc = "asked"
       \/ poll.pc \in {"row", "answered"} /\ poll.revision >= n

OnItsWay(n) ==
  \/ view >= n \/ n \in notices \/ missed
  \/ link[control.socket].ready \/ link[control.socket].hints > 0 \/ control.queued
  \/ Awaited(n)

\* the socket is live, or will be when a read ends that waits for it
Attached ==
  /\ control.socket # 0 /\ link[control.socket].at = "open"
  /\ control.state = "live" \/ \E w \in waiting : w.who = control.socket

NewsIsOnItsWay == Attached => OnItsWay(revision)

SyncInvariant ==
  /\ RoomIsSound /\ ShownIsSound /\ PollIsSound /\ WaitingIsSound /\ ClientIsSound
  /\ NewsIsOnItsWay

-----------------------------------------------------------------------------
(***************************************************************************)
(* Events.                                                                 *)
(***************************************************************************)
\* Events that follow one another make a longer run of events.
LEMMA EventsJoin ==
  ASSUME NEW a \in Nat, NEW b \in Nat, NEW c \in Nat, a <= b, b <= c
  PROVE  Events(a, b) \o Events(b, c) = Events(a, c)
<1> DEFINE s == Events(a, b)
           t == Events(b, c)
<1>1. s \in Seq(Nat) /\ Len(s) = b - a /\ t \in Seq(Nat) /\ Len(t) = c - b
  BY DEF Events
<1>2. s \o t \in Seq(Nat) /\ Len(s \o t) = c - a
  BY <1>1
<1>3. \A i \in 1..(c - a) : (s \o t)[i] = a + i
  BY <1>1 DEF Events
<1> QED
  BY <1>2, <1>3 DEF Events

\* One more event makes a run longer by one.
LEMMA EventsGrow ==
  ASSUME NEW a \in Nat, NEW b \in Nat, a <= b
  PROVE  Append(Events(a, b), b + 1) = Events(a, b + 1)
<1> DEFINE s == Events(a, b)
<1>1. s \in Seq(Nat) /\ Len(s) = b - a
  BY DEF Events
<1>2. Append(s, b + 1) \in Seq(Nat) /\ Len(Append(s, b + 1)) = b + 1 - a
  BY <1>1
<1>3. \A i \in 1..(b + 1 - a) : Append(s, b + 1)[i] = a + i
  BY <1>1 DEF Events
<1> QED
  BY <1>2, <1>3 DEF Events

\* What is shown is a sequence of revisions after the first.
LEMMA EventsAreRevisions ==
  ASSUME NEW n \in Nat, NEW c \in 1..n
  PROVE  Events(1, c) \in Seq(2..n)
  BY DEF Events

-----------------------------------------------------------------------------
(***************************************************************************)
(* The room.                                                               *)
(***************************************************************************)
\* What is a number of tickets, of revisions, or of moves.
LEMMA RoomIs ==
  ASSUME RoomIsSound
  PROVE  /\ revision \in Nat /\ revision >= 1 /\ scenario.revisions \in Nat
         /\ Tickets \subseteq Nat /\ 0 \notin Tickets /\ Nobody \notin Tickets
  BY RoomAssumption DEF RoomAssumption, RoomIsSound, Tickets, Nobody

\* When the table goes on, all that was sound for the revisions so far
\* stays so.
LEMMA ClientStands ==
  ASSUME SyncInvariant, revision' \in Nat, revision <= revision',
         UNCHANGED <<scenario, shown, poll, waiting, control>>,
         UNCHANGED command \/ command' \in CommandType'
  PROVE  ShownIsSound' /\ PollIsSound' /\ WaitingIsSound' /\ ClientIsSound'
<1>1. /\ revision \in Nat /\ UNCHANGED Tickets
      /\ UNCHANGED <<view, activity, cursor, poll, waiting, control>>
  BY RoomIs DEF SyncInvariant, Tickets, shown
<1>2. 0..revision \subseteq 0..revision' /\ 1..revision \subseteq 1..revision'
  BY <1>1
<1>3. ShownIsSound'
  BY <1>1, <1>2 DEF SyncInvariant, ShownIsSound, ActivityIsComplete
<1>4. PollType \subseteq PollType' /\ CommandType \subseteq CommandType'
  BY <1>2 DEF PollType, CommandType
<1>5. WaitType' = WaitType /\ ControlType' = ControlType
  BY <1>1 DEF WaitType, ControlType
<1>6. PollIsSound'
  BY <1>1, <1>4 DEF SyncInvariant, PollIsSound, NoPoll
<1>7. WaitingIsSound' /\ ClientIsSound'
  BY <1>1, <1>4, <1>5 DEF SyncInvariant, WaitingIsSound, ClientIsSound
<1> QED
  BY <1>3, <1>6, <1>7

\* A new revision is announced, or known to be missed.
LEMMA NewRevisionIsSound ==
  ASSUME SyncInvariant, revision < scenario.revisions, revision' = revision + 1,
         Announced(revision + 1), UNCHANGED <<scenario, window, link>>
  PROVE  RoomIsSound' /\ (UNCHANGED control => NewsIsOnItsWay')
<1>1. revision \in Nat /\ revision >= 1 /\ scenario.revisions \in Nat
  BY RoomIs DEF SyncInvariant
<1>2. 2..revision \subseteq 2..(revision + 1)
  BY <1>1
<1>3. notices' \subseteq 2..(revision + 1) /\ missed' \in BOOLEAN
  <2>1. notices \subseteq 2..revision /\ missed \in BOOLEAN /\ revision + 1 \in 2..(revision + 1)
    BY <1>1 DEF SyncInvariant, RoomIsSound
  <2>2. CASE notices' = notices \cup {revision + 1} /\ missed' = FALSE
    BY <1>2, <2>1, <2>2
  <2>3. CASE missed' = TRUE /\ UNCHANGED notices
    BY <1>2, <2>1, <2>3
  <2> QED
    BY <2>2, <2>3 DEF Announced
<1>4. RoomIsSound'
  BY <1>1, <1>3 DEF SyncInvariant, RoomIsSound, Tickets, LinkType
<1>5. revision' \in notices' \/ missed'
  BY DEF Announced
<1> QED
  BY <1>4, <1>5 DEF NewsIsOnItsWay, OnItsWay

\* What is on its way stays so, as long as nothing is taken from it.
LEMMA NewsStands ==
  ASSUME SyncInvariant, UNCHANGED <<revision, clientVars>>,
         revision \in notices => revision \in notices' \/ missed'
                                 \/ \A k \in Tickets : link[k].at = "open" => link'[k].hints > 0,
         missed => missed',
         \A k \in Tickets : \/ link'[k].at # "open" \/ link'[k].ready
                            \/ /\ link[k].at = "open" /\ link[k].ready => link'[k].ready
                               /\ link[k].at = "open"
                               /\ link[k].hints > 0 => link'[k].hints > 0
  PROVE  NewsIsOnItsWay'
<1> SUFFICES ASSUME Attached' PROVE OnItsWay(revision)'
  BY DEF NewsIsOnItsWay
<1>1. UNCHANGED <<view, cursor, poll, waiting, control>> /\ control.socket \in Tickets
  BY DEF SyncInvariant, ClientIsSound, ControlType, Attached, clientVars, shown
<1>2. Awaited(revision) => Awaited(revision)'
  BY <1>1 DEF Awaited
<1>3. CASE link'[control.socket].ready
  BY <1>1, <1>3 DEF OnItsWay
<1>4. CASE ~link'[control.socket].ready
  <2>1. /\ link[control.socket].at = "open"
        /\ link[control.socket].ready => link'[control.socket].ready
        /\ link[control.socket].hints > 0 => link'[control.socket].hints > 0
    BY <1>1, <1>4 DEF Attached
  <2>2. OnItsWay(revision)
    BY <1>1, <2>1 DEF SyncInvariant, NewsIsOnItsWay, Attached
  <2> QED
    BY <1>1, <1>2, <2>1, <2>2 DEF OnItsWay
<1> QED
  BY <1>3, <1>4

\* Others move, notices are passed on or lost, sockets are let in or shut.
LEMMA RoomStepIsSound ==
  ASSUME SyncInvariant, Room, UNCHANGED clientVars
  PROVE  SyncInvariant'
<1>1. CASE Commit
  <2>1. RoomIsSound' /\ NewsIsOnItsWay'
    BY <1>1, NewRevisionIsSound DEF Commit, clientVars
  <2> QED
    BY <1>1, <2>1, RoomIs, ClientStands DEF SyncInvariant, Commit, clientVars
<1>2. ASSUME UNCHANGED <<scenario, revision>>, RoomIsSound', NewsIsOnItsWay'
      PROVE  SyncInvariant'
  BY <1>2, RoomIs, ClientStands DEF SyncInvariant, clientVars
<1>3. /\ revision \in Nat /\ notices \subseteq 2..revision /\ missed \in BOOLEAN
      /\ window \in [count: Nat, resync: BOOLEAN] /\ link \in [Tickets -> LinkType]
      /\ MaxRate \in Nat
  BY RoomIs, RoomAssumption DEF SyncInvariant, RoomIsSound, RoomAssumption
<1>4. \A k \in Tickets : /\ link[k].at \in {"none", "asked", "open", "shut"}
                         /\ link[k].ready \in BOOLEAN /\ link[k].hints \in Nat
  BY <1>3 DEF LinkType
<1>5. CASE NewWindow
  <2>1. RoomIsSound'
    BY <1>3, <1>5 DEF SyncInvariant, RoomIsSound, NewWindow, Tickets, LinkType
  <2>2. NewsIsOnItsWay'
    BY <1>5, NewsStands DEF NewWindow
  <2> QED
    BY <1>2, <1>5, <2>1, <2>2 DEF NewWindow
<1>6. ASSUME NEW n \in notices, LoseNotice(n)
      PROVE  SyncInvariant'
  <2>1. RoomIsSound'
    BY <1>3, <1>6 DEF SyncInvariant, RoomIsSound, LoseNotice, Tickets, LinkType
  <2>2. NewsIsOnItsWay'
    BY <1>6, NewsStands DEF LoseNotice
  <2> QED
    BY <1>2, <1>6, <2>1, <2>2 DEF LoseNotice
<1>7. ASSUME NEW n \in notices, Notify(n)
      PROVE  SyncInvariant'
  <2>1. /\ notices' = notices \ {n} /\ UNCHANGED <<scenario, revision>>
        /\ window' = [count |-> window.count + 1,
                      resync |-> window.resync \/ window.count >= MaxRate]
        /\ \/ link' = Told /\ UNCHANGED missed
           \/ missed' = (missed \/ n = revision) /\ UNCHANGED link
    BY <1>7 DEF Notify
  <2>2. window' \in [count: Nat, resync: BOOLEAN] /\ missed' \in BOOLEAN
    <3>1. PICK resync : resync = (window.resync \/ window.count >= MaxRate)
      OBVIOUS
    <3>2. resync \in BOOLEAN
      BY <3>1, Zenon
    <3>3. window' = [count |-> window.count + 1, resync |-> resync]
      BY <2>1, <3>1
    <3>4. missed' \in BOOLEAN
      BY <1>3, <2>1, Zenon
    <3> QED
      BY <1>3, <3>2, <3>3, <3>4
  <2>3. CASE missed' = (missed \/ n = revision) /\ UNCHANGED link
    <3>1. RoomIsSound'
      BY <1>3, <2>1, <2>2, <2>3 DEF SyncInvariant, RoomIsSound, Tickets, LinkType
    <3>2. NewsIsOnItsWay'
      BY <2>1, <2>3, NewsStands
    <3> QED
      BY <1>2, <2>1, <3>1, <3>2
  <2>4. CASE link' = Told /\ UNCHANGED missed
    <3>1. \A k \in Tickets : /\ link'[k] \in LinkType /\ link'[k].at = link[k].at
                             /\ link'[k].ready = link[k].ready
                             /\ link'[k].hints >= link[k].hints
                             /\ link[k].at = "open" => link'[k].hints > 0
      BY <1>3, <2>4 DEF Told, LinkType
    <3>2. link' \in [Tickets -> LinkType]
      BY <2>4, <3>1 DEF Told
    <3>3. RoomIsSound'
      BY <1>3, <2>1, <2>2, <3>2 DEF SyncInvariant, RoomIsSound, Tickets, LinkType
    <3>4. \A k \in Tickets : link'[k].hints \in Nat
      BY <3>1 DEF LinkType
    <3>5. \A k \in Tickets : link[k].hints > 0 => link'[k].hints > 0
      BY <1>4, <3>1, <3>4
    <3>6. NewsIsOnItsWay'
      BY <2>1, <2>4, <3>1, <3>5, NewsStands
    <3> QED
      BY <1>2, <2>1, <3>3, <3>6
  <2> QED
    BY <2>1, <2>3, <2>4
<1>8. ASSUME NEW k \in Tickets, Admit(k) \/ Shut(k)
      PROVE  SyncInvariant'
  <2>1. PICK x : /\ link' = [link EXCEPT ![k] = x]
                 /\ x = [link[k] EXCEPT !.at = "shut"] \/ x = [at |-> "open", ready |-> TRUE, hints |-> 0]
    BY <1>3, <1>8 DEF Admit, Shut
  <2>2. x \in LinkType /\ (x.at # "open" \/ x.ready)
    <3>1. CASE x = [link[k] EXCEPT !.at = "shut"]
      <4>1. link[k] \in LinkType
        BY <1>3
      <4> QED
        BY <3>1, <4>1 DEF LinkType
    <3>2. CASE x = [at |-> "open", ready |-> TRUE, hints |-> 0]
      BY <3>2 DEF LinkType
    <3> QED
      BY <2>1, <3>1, <3>2
  <2>3. UNCHANGED <<scenario, revision, notices, missed, window>>
    BY <1>8 DEF Admit, Shut
  <2>4. link' \in [Tickets -> LinkType]
    BY <1>3, <2>1, <2>2
  <2>5. RoomIsSound'
    BY <1>3, <2>3, <2>4 DEF SyncInvariant, RoomIsSound, Tickets, LinkType
  <2>6. \A j \in Tickets : link'[j] = IF j = k THEN x ELSE link[j]
    BY <1>3, <2>1
  <2>7. NewsIsOnItsWay'
    BY <2>2, <2>3, <2>6, NewsStands
  <2> QED
    BY <1>2, <2>3, <2>5, <2>7
<1> QED
  BY <1>1, <1>5, <1>6, <1>7, <1>8 DEF Room

-----------------------------------------------------------------------------
(***************************************************************************)
(* The controller.                                                         *)
(***************************************************************************)
\* A controller that tries again has no other socket, and is not live.
LEMMA RescheduledIs ==
  ASSUME NEW c \in ControlType
  PROVE  /\ Rescheduled(c) \in ControlType
         /\ Rescheduled(c).socket = c.socket /\ Rescheduled(c).queued = c.queued
         /\ Rescheduled(c).state = "live" => c.state = "live"
  BY DEF Rescheduled, ControlType

\* One whose connection failed has no socket.
LEMMA FailedIs ==
  ASSUME NEW c \in ControlType
  PROVE  Failed(c) \in ControlType /\ Failed(c).socket = 0 /\ Failed(c).queued = c.queued
<1>1. PICK d : d = [c EXCEPT !.socket = 0]
  OBVIOUS
<1>2. d \in ControlType /\ d.socket = 0 /\ d.queued = c.queued
  BY <1>1 DEF ControlType
<1> QED
  BY <1>1, <1>2, RescheduledIs DEF Failed

\* The end of a read that somebody waited for is the end of a connection
\* that needed it, or leaves the controller with the socket it had; it is
\* live only if it was or if its socket waited for a read that succeeded.
LEMMA AfterIs ==
  ASSUME NEW c \in ControlType, NEW S, NEW ok \in BOOLEAN
  PROVE  /\ After(c, S, ok) \in ControlType
         /\ After(c, S, ok).socket \in {0, c.socket}
         /\ After(c, S, ok).queued = c.queued
         /\ ok /\ After(c, S, ok).state = "live"
              => c.state = "live" \/ \E w \in S : w.who = c.socket
         /\ ~ok /\ After(c, S, ok).socket # 0 => \A w \in S : w.who \notin Tickets
         /\ ~ok /\ After(c, S, ok).socket # 0 /\ After(c, S, ok).state = "live"
              => c.state = "live" /\ \A w \in S : w.who # Flush
<1>1. CASE ok
  BY <1>1 DEF After, Connected, ControlType
<1>2. CASE ~ok /\ \E w \in S : w.who \in Tickets
  BY <1>2, FailedIs DEF After
<1>3. CASE ~ok /\ ~\E w \in S : w.who \in Tickets
  BY <1>3 DEF After, ControlType
<1> QED
  BY <1>1, <1>2, <1>3

\* As long as the revision stays, so do the types.
LEMMA TypesStand ==
  ASSUME UNCHANGED <<scenario, revision>>
  PROVE  /\ PollType' = PollType /\ WaitType' = WaitType /\ Tickets' = Tickets
         /\ CommandType' = CommandType /\ ControlType' = ControlType
  BY DEF PollType, WaitType, CommandType, ControlType, Tickets

\* As long as nobody touches it, the room is what it was.
LEMMA RoomStands ==
  ASSUME RoomIsSound, UNCHANGED roomVars
  PROVE  RoomIsSound'
  BY DEF RoomIsSound, roomVars, Tickets, LinkType

\* What the client shows is not sounder for being newer.
LEMMA ShownStands ==
  ASSUME ShownIsSound, UNCHANGED <<revision, shown>>
  PROVE  ShownIsSound'
  BY DEF ShownIsSound, ActivityIsComplete, shown

\* A read ends, for whatever reason.
LEMMA EndedIsSound ==
  ASSUME SyncInvariant, NEW ok \in BOOLEAN, Ended(ok), poll.pc # "none",
         cursor' \in 1..revision, view' \in Nat, view' >= view,
         ok => poll.pc = "answered" /\ view' >= poll.revision
  PROVE  PollIsSound' /\ WaitingIsSound' /\ ClientIsSound' /\ NewsIsOnItsWay'
<1>1. /\ UNCHANGED <<scenario, revision, notices, missed, window, link, command, moves>>
      /\ revision \in Nat /\ view \in Nat /\ Nobody \notin Tickets /\ 0 \notin Tickets
      /\ poll \in PollType /\ waiting \subseteq WaitType /\ control \in ControlType
      /\ command \in CommandType
  BY RoomIs DEF SyncInvariant, Ended, roomVars, ShownIsSound, PollIsSound, WaitingIsSound,
                ClientIsSound
<1> DEFINE later == {w \in waiting : ~w.on}
<1>2. /\ control' = After(control, waiting \ later, ok)
      /\ waiting' = {[w EXCEPT !.on = TRUE] : w \in later}
      /\ poll' = IF later = {} THEN NoPoll ELSE [NewPoll EXCEPT !.cursor = cursor']
  BY DEF Ended
<1>3. /\ waiting' \subseteq WaitType
      /\ \A v \in waiting' : \E w \in waiting : ~w.on /\ w.who = v.who
      /\ \A w \in waiting : ~w.on => \E v \in waiting' : v.who = w.who
  <2> DEFINE Kept(w) == [w EXCEPT !.on = TRUE]
  <2>1. \A w \in WaitType : Kept(w) \in WaitType /\ Kept(w).who = w.who
    BY DEF WaitType
  <2>2. waiting' = {Kept(w) : w \in later}
    BY <1>2
  <2> HIDE DEF Kept
  <2> QED
    BY <1>1, <2>1, <2>2
<1>4. IF later = {} THEN poll' = NoPoll /\ waiting' = {}
      ELSE poll'.pc = "asked" /\ poll'.cursor = cursor' /\ poll' \in PollType
  <2>1. cursor' \in 0..revision /\ 0 \in 0..revision
    BY <1>1
  <2>2. CASE later = {}
    BY <1>2, <2>2
  <2>3. CASE later # {}
    BY <1>2, <2>1, <2>3 DEF NewPoll, NoPoll, PollType
  <2> QED
    BY <2>2, <2>3
<1>5. NoPoll \in PollType /\ NoPoll.pc = "none"
  BY <1>1 DEF NoPoll, PollType
<1>6. PollIsSound' /\ WaitingIsSound'
  <2>1. PollType' = PollType /\ WaitType' = WaitType
    BY <1>1, TypesStand
  <2>2. poll' \in PollType
    BY <1>4, <1>5
  <2>3. cursor' \in 1..cursor'
    BY <1>1
  <2>4. poll'.pc # "none" => poll'.pc = "asked" /\ poll'.cursor \in 1..cursor'
    BY <1>4, <1>5, <2>3
  <2>5. poll'.pc = "none" => poll' = NoPoll /\ waiting' = {}
    BY <1>4
  <2> QED
    BY <1>3, <2>1, <2>2, <2>4, <2>5 DEF PollIsSound, WaitingIsSound, NoPoll
<1>7. /\ control' \in ControlType /\ control'.socket \in {0, control.socket}
      /\ control'.queued = control.queued
      /\ ok /\ control'.state = "live"
           => control.state = "live" \/ \E w \in waiting \ later : w.who = control.socket
      /\ ~ok /\ control'.socket # 0 => \A w \in waiting \ later : w.who \notin Tickets
      /\ ~ok /\ control'.socket # 0 /\ control'.state = "live"
           => control.state = "live" /\ \A w \in waiting \ later : w.who # Flush
  BY <1>1, <1>2, AfterIs
<1>8. ClientIsSound'
  BY <1>1, <1>7, TypesStand DEF ClientIsSound
<1>9. NewsIsOnItsWay'
  <2> SUFFICES ASSUME Attached' PROVE OnItsWay(revision)'
    BY DEF NewsIsOnItsWay
  <2>1. /\ control'.socket = control.socket /\ control.socket \in Tickets
        /\ control'.socket # 0 /\ link[control.socket].at = "open"
    BY <1>1, <1>7 DEF Attached, ControlType
  <2>2. CASE \E w \in waiting : ~w.on /\ w.who # Nobody
    BY <1>3, <1>4, <2>2 DEF OnItsWay, Awaited
  <2>3. CASE \A w \in waiting : w.on \/ w.who = Nobody
    <3>1. control'.state = "live"
      BY <1>1, <1>3, <2>1, <2>3 DEF Attached
    <3>2. OnItsWay(revision)
      BY <1>7, <2>1, <3>1 DEF SyncInvariant, NewsIsOnItsWay, Attached
    <3>3. ASSUME Awaited(revision) PROVE ok /\ poll.revision >= revision
      <4>1. PICK w \in waiting : /\ w.who # Nobody /\ w.on
                                 /\ poll.pc = "asked" \/ poll.revision >= revision
        BY <2>3, <3>3 DEF Awaited
      <4>2. w \in waiting \ later /\ w.who \in {Flush} \cup Tickets
        BY <1>1, <4>1 DEF WaitType
      <4> QED
        BY <1>7, <2>1, <3>1, <4>1, <4>2
    <3>4. Awaited(revision) => view' >= revision
      BY <1>1, <3>3 DEF PollType
    <3>5. view >= revision => view' >= revision
      BY <1>1
    <3> QED
      BY <1>1, <1>7, <2>1, <3>2, <3>4, <3>5 DEF OnItsWay
  <2> QED
    BY <2>2, <2>3
<1> QED
  BY <1>6, <1>8, <1>9

\* A read that is asked for is asked for with what is shown.
LEMMA NewPollIs ==
  ASSUME revision \in Nat, cursor \in 1..revision
  PROVE  NewPoll.pc = "asked" /\ NewPoll.cursor = cursor /\ NewPoll \in PollType
<1>1. cursor \in 0..revision /\ 0 \in 0..revision
  OBVIOUS
<1> QED
  BY <1>1 DEF NewPoll, NoPoll, PollType

\* Somebody wants the game to be read: it is, or it will be.
LEMMA RefreshIsAwaited ==
  ASSUME SyncInvariant, NEW who \in {Flush} \cup Tickets, Refresh(who),
         UNCHANGED <<scenario, revision, shown>>
  PROVE  /\ PollIsSound' /\ WaitingIsSound' /\ Awaited(revision)'
         /\ \A w \in waiting' : w \in waiting \/ w.who = who
<1>1. /\ revision \in Nat /\ Nobody \notin Tickets
      /\ poll \in PollType /\ waiting \subseteq WaitType
      /\ cursor \in 1..revision /\ UNCHANGED cursor
  BY RoomIs DEF SyncInvariant, ShownIsSound, PollIsSound, WaitingIsSound, shown
<1>2. poll' = IF poll = NoPoll THEN NewPoll ELSE poll
  BY DEF Refresh
<1>3. PICK w : w = [who |-> who, on |-> poll = NoPoll] /\ waiting' = waiting \cup {w}
  BY DEF Refresh
<1>4. w \in WaitType /\ w.who = who /\ w.on = (poll = NoPoll) /\ who # Nobody
  <2>1. (poll = NoPoll) \in BOOLEAN
    BY Zenon
  <2> QED
    BY <1>1, <1>3, <2>1 DEF WaitType, Nobody, Flush
<1>5. NewPoll.pc = "asked" /\ NewPoll.cursor = cursor /\ NewPoll \in PollType
  BY <1>1, NewPollIs
<1>6. PollIsSound'
  <2>1. PollType' = PollType
    BY TypesStand
  <2> QED
    BY <1>1, <1>2, <1>5, <2>1 DEF SyncInvariant, PollIsSound, NoPoll
<1>7. WaitingIsSound'
  <2>1. WaitType' = WaitType
    BY TypesStand
  <2>2. poll'.pc # "none"
    BY <1>2, <1>5 DEF SyncInvariant, PollIsSound
  <2> QED
    BY <1>1, <1>3, <1>4, <2>1, <2>2 DEF WaitingIsSound
<1>8. Awaited(revision)'
  BY <1>2, <1>3, <1>4, <1>5 DEF Awaited
<1> QED
  BY <1>3, <1>4, <1>6, <1>7, <1>8

\* Nothing is taken from what is on its way by a client that shows no less
\* and reads what it was about to read.
LEMMA NewsStays ==
  ASSUME SyncInvariant,
         UNCHANGED <<scenario, revision, notices, missed, link, waiting, control>>,
         view' \in Nat, view' >= view, Awaited(revision) => Awaited(revision)'
  PROVE  NewsIsOnItsWay'
<1>1. view \in Nat /\ revision \in Nat
  BY RoomIs DEF SyncInvariant, ShownIsSound
<1>2. Attached' => Attached
  BY DEF Attached
<1>3. view >= revision => view' >= revision
  BY <1>1
<1> QED
  BY <1>2, <1>3 DEF SyncInvariant, NewsIsOnItsWay, OnItsWay

-----------------------------------------------------------------------------
(***************************************************************************)
(* Reads of the game.                                                      *)
(***************************************************************************)
\* A read is asked for, or goes on at the server.
LEMMA ReadStepIsSound ==
  ASSUME SyncInvariant, Poll \/ ReadRow \/ ReadEvents
  PROVE  SyncInvariant'
<1>1. /\ UNCHANGED <<roomVars, shown, waiting, command, moves, control>>
      /\ UNCHANGED <<scenario, revision, notices, missed, link, view, cursor>>
  BY DEF Poll, ReadRow, ReadEvents, roomVars, shown
<1>2. /\ revision \in Nat /\ revision >= 1 /\ poll \in PollType /\ waiting \subseteq WaitType
      /\ cursor \in 1..revision /\ view \in Nat /\ Page \in Nat
  BY RoomIs, SyncAssumption
     DEF SyncInvariant, ShownIsSound, PollIsSound, WaitingIsSound, SyncAssumption
<1>3. PollIsSound' /\ WaitingIsSound' /\ (Awaited(revision) => Awaited(revision)')
  <2>1. PollType' = PollType /\ WaitType' = WaitType
    BY <1>1, TypesStand
  <2>2. CASE Poll
    <3>1. poll = NoPoll /\ poll' = NewPoll /\ waiting = {} /\ waiting' = {}
      BY <1>1, <2>2 DEF Poll, SyncInvariant, WaitingIsSound, NoPoll
    <3>2. NewPoll.pc = "asked" /\ NewPoll.cursor = cursor /\ NewPoll \in PollType
      BY <1>2, NewPollIs
    <3> QED
      BY <1>1, <1>2, <2>1, <3>1, <3>2 DEF PollIsSound, WaitingIsSound, Awaited
  <2>3. CASE ReadRow
    <3>1. poll' = [poll EXCEPT !.pc = "row", !.revision = revision] /\ poll.pc = "asked"
      BY <2>3 DEF ReadRow
    <3>2. revision \in 0..revision
      BY <1>2
    <3>3. poll' \in PollType /\ poll'.pc = "row" /\ poll'.revision = revision
          /\ poll'.cursor = poll.cursor
      BY <1>2, <3>1, <3>2 DEF PollType
    <3> QED
      BY <1>1, <1>2, <2>1, <3>1, <3>3
         DEF SyncInvariant, PollIsSound, WaitingIsSound, Awaited
  <2>4. CASE ReadEvents
    <3>1. PICK upto : /\ upto = IF poll.cursor + Page < revision
                                 THEN poll.cursor + Page ELSE revision
                      /\ poll' = [poll EXCEPT !.pc = "answered", !.upto = upto]
                      /\ poll.pc = "row"
      BY <2>4 DEF ReadEvents
    <3>2. poll.cursor \in 1..cursor /\ poll.revision >= 1
      BY <3>1 DEF SyncInvariant, PollIsSound
    <3>3. upto \in 0..revision /\ poll.cursor <= upto
      BY <1>2, <3>1, <3>2
    <3>4. poll' \in PollType /\ poll'.pc = "answered" /\ poll'.revision = poll.revision
          /\ poll'.cursor = poll.cursor /\ poll'.upto = upto
      BY <1>2, <3>1, <3>3 DEF PollType
    <3> QED
      BY <1>1, <1>2, <2>1, <3>1, <3>2, <3>3, <3>4
         DEF SyncInvariant, PollIsSound, WaitingIsSound, Awaited
  <2> QED
    BY <2>2, <2>3, <2>4
<1>4. NewsIsOnItsWay'
  <2>1. view >= view
    BY <1>2
  <2> QED
    BY <1>1, <1>2, <1>3, <2>1, NewsStays
<1>5. RoomIsSound' /\ ShownIsSound' /\ ClientIsSound'
  BY <1>1, RoomStands, ShownStands, TypesStand DEF SyncInvariant, ClientIsSound
<1> QED
  BY <1>3, <1>4, <1>5 DEF SyncInvariant

\* What a read brings follows what is shown, or is not taken.
LEMMA AnsweredIsSound ==
  ASSUME SyncInvariant, Answered
  PROVE  SyncInvariant' /\ view' >= view /\ cursor' >= cursor
<1>1. /\ revision \in Nat /\ poll \in PollType /\ poll.pc = "answered"
      /\ cursor \in 1..revision /\ view \in 1..revision /\ activity = Events(1, cursor)
      /\ poll.cursor \in 1..cursor /\ poll.revision \in 1..revision
      /\ poll.upto \in poll.cursor..revision
      /\ UNCHANGED <<roomVars, scenario, revision>>
  <2>1. poll.upto \in 0..revision /\ poll.revision \in 0..revision
    BY DEF SyncInvariant, PollIsSound, PollType
  <2> QED
    BY RoomIs, <2>1 DEF SyncInvariant, ShownIsSound, PollIsSound, ActivityIsComplete, Answered,
                        Ended, roomVars
<1>2. cursor' \in 1..revision /\ cursor' >= cursor /\ activity' = Events(1, cursor')
  <2>1. CASE Current
    <3>1. poll.cursor = cursor /\ cursor' = Larger(cursor, poll.upto)
          /\ activity' = activity \o Events(cursor, poll.upto)
      BY <1>1, <2>1 DEF Answered, Current
    <3>2. cursor' = poll.upto
      BY <1>1, <3>1 DEF Larger
    <3>3. Events(1, cursor) \o Events(cursor, poll.upto) = Events(1, poll.upto)
      <4>1. 1 \in Nat /\ cursor \in Nat /\ poll.upto \in Nat /\ 1 <= cursor /\ cursor <= poll.upto
        BY <1>1, <3>1
      <4> QED
        BY <4>1, EventsJoin
    <3> QED
      BY <1>1, <3>1, <3>2, <3>3
  <2>2. CASE ~Current
    BY <1>1, <2>2 DEF Answered
  <2> QED
    BY <2>1, <2>2
<1>3. PICK ok \in BOOLEAN : ok = Applies(poll.revision)
  <2>1. Applies(poll.revision) \in BOOLEAN
    BY <1>1 DEF Applies
  <2> QED
    BY <2>1
<1>4. /\ view' \in 1..revision /\ view' >= view /\ (ok => view' >= poll.revision)
      /\ Ended(ok)
  BY <1>1, <1>3 DEF Answered, Applies
<1>5. PollIsSound' /\ WaitingIsSound' /\ ClientIsSound' /\ NewsIsOnItsWay'
  BY <1>1, <1>2, <1>4, EndedIsSound
<1>6. RoomIsSound'
  BY <1>1, RoomStands DEF SyncInvariant
<1> QED
  BY <1>1, <1>2, <1>4, <1>5, <1>6 DEF SyncInvariant, ShownIsSound, ActivityIsComplete

\* A read that fails changes nothing that is shown.
LEMMA PollFailsIsSound ==
  ASSUME SyncInvariant, PollFails
  PROVE  SyncInvariant'
<1>1. /\ poll.pc # "none" /\ Ended(FALSE)
      /\ UNCHANGED <<shown, view, cursor, roomVars, revision>>
  BY DEF PollFails, Ended, shown, roomVars
<1>2. cursor \in 1..revision /\ view \in Nat /\ view >= view
  BY RoomIs DEF SyncInvariant, ShownIsSound
<1>3. PollIsSound' /\ WaitingIsSound' /\ ClientIsSound' /\ NewsIsOnItsWay'
  BY <1>1, <1>2, EndedIsSound
<1> QED
  BY <1>1, <1>3, RoomStands, ShownStands DEF SyncInvariant

-----------------------------------------------------------------------------
(***************************************************************************)
(* The command of this browser.                                            *)
(***************************************************************************)
\* The command is at another place, and nothing else has changed.
LEMMA CommandMoves ==
  ASSUME SyncInvariant, command' \in CommandType, UNCHANGED <<roomVars, shown, poll, waiting, control>>
  PROVE  SyncInvariant'
<1>1. /\ revision \in Nat /\ view \in Nat /\ view >= view /\ revision <= revision
      /\ UNCHANGED <<scenario, revision, notices, missed, link, view, poll, waiting, control>>
  BY RoomIs DEF SyncInvariant, ShownIsSound, roomVars, shown
<1>2. CommandType' = CommandType
  BY <1>1, TypesStand
<1>3. NewsIsOnItsWay'
  BY <1>1, NewsStays DEF Awaited
<1> QED
  BY <1>1, <1>2, <1>3, RoomStands, ClientStands DEF SyncInvariant

\* A command is given, sent again, or its answer is lost.
LEMMA SendIsSound ==
  ASSUME SyncInvariant, SendCommand \/ RetryCommand \/ LoseAnswer
  PROVE  SyncInvariant'
<1>1. command \in CommandType /\ revision \in Nat /\ view \in 0..revision /\ 0 \in 0..revision
  BY RoomIs DEF SyncInvariant, ClientIsSound, ShownIsSound
<1>2. UNCHANGED <<roomVars, shown, poll, waiting, control>>
  BY DEF SendCommand, RetryCommand, LoseAnswer
<1>3. command' \in CommandType
  <2>1. CASE SendCommand
    BY <1>1, <2>1 DEF SendCommand, NoCommand, CommandType
  <2>2. CASE RetryCommand \/ LoseAnswer
    BY <1>1, <2>2 DEF RetryCommand, LoseAnswer, CommandType
  <2> QED
    BY <2>1, <2>2
<1> QED
  BY <1>2, <1>3, CommandMoves

\* The server applies it, finds that it was applied, or refuses it.
LEMMA ExecuteIsSound ==
  ASSUME SyncInvariant, Execute
  PROVE  SyncInvariant'
<1>1. /\ command \in CommandType /\ revision \in Nat /\ revision \in 0..revision
      /\ UNCHANGED <<scenario, window, link, shown, poll, waiting, control>>
  BY RoomIs DEF SyncInvariant, ClientIsSound, Execute
<1>2. CASE UNCHANGED <<revision, notices, missed>>
           /\ (\/ command' = [command EXCEPT !.pc = "replayed", !.revision = revision]
               \/ command' = [command EXCEPT !.pc = "refused"])
  <2>1. command' \in CommandType
    BY <1>1, <1>2 DEF CommandType
  <2> QED
    BY <1>1, <1>2, <2>1, CommandMoves DEF roomVars
<1>3. CASE /\ revision < scenario.revisions /\ revision' = revision + 1
           /\ Announced(revision + 1)
           /\ command' = [command EXCEPT !.pc = "fresh", !.applied = revision + 1,
                                         !.revision = revision + 1]
  <2>1. RoomIsSound' /\ NewsIsOnItsWay'
    BY <1>1, <1>3, NewRevisionIsSound
  <2>2. PICK n : n = revision + 1
    OBVIOUS
  <2>3. n \in 0..n /\ 0..revision \subseteq 0..n /\ revision' = n
    BY <1>1, <1>3, <2>2
  <2>4. command \in [pc: {"none", "sent", "saved", "fresh", "replayed", "refused"},
                     expected: 0..n, applied: 0..n, revision: 0..n]
    BY <1>1, <2>3 DEF CommandType
  <2>5. command' = [command EXCEPT !.pc = "fresh", !.applied = n, !.revision = n]
    BY <1>3, <2>2
  <2>6. command' \in CommandType'
    BY <2>3, <2>4, <2>5 DEF CommandType
  <2>7. revision' \in Nat /\ revision <= revision'
    BY <1>1, <1>3
  <2> QED
    BY <1>1, <2>1, <2>6, <2>7, ClientStands DEF SyncInvariant
<1> QED
  BY <1>2, <1>3 DEF Execute

\* An answer shows the table, and its event if that is the next one.
LEMMA ReplyIsSound ==
  ASSUME SyncInvariant, Reply
  PROVE  SyncInvariant' /\ view' >= view /\ cursor' >= cursor
<1>1. /\ revision \in Nat /\ revision >= 1 /\ command \in CommandType
      /\ cursor \in 1..revision /\ view \in 1..revision /\ activity = Events(1, cursor)
      /\ UNCHANGED <<roomVars, scenario, revision, notices, missed, link, poll, waiting, control>>
  BY RoomIs DEF SyncInvariant, ShownIsSound, ActivityIsComplete, ClientIsSound, Reply, roomVars
<1>2. command.revision \in 0..revision /\ command.expected \in 0..revision
  BY <1>1 DEF CommandType
<1>3. view' \in 1..revision /\ view' >= view
  BY <1>1, <1>2 DEF Reply, Larger
<1>4. cursor' \in 1..revision /\ cursor' >= cursor /\ activity' = Events(1, cursor')
  <2>1. CASE command.pc = "fresh" /\ NextInLine
    <3>1. /\ command.revision = cursor + 1 /\ cursor' = cursor + 1
          /\ activity' = Append(Events(1, cursor), cursor + 1)
      BY <1>1, <1>2, <2>1 DEF Reply, NextInLine
    <3>2. 1 \in Nat /\ cursor \in Nat /\ 1 <= cursor
      BY <1>1
    <3>3. activity' = Events(1, cursor + 1)
      BY <3>1, <3>2, EventsGrow
    <3> QED
      BY <1>1, <1>2, <3>1, <3>3
  <2>2. CASE ~(command.pc = "fresh" /\ NextInLine)
    BY <1>1, <2>2 DEF Reply
  <2> QED
    BY <2>1, <2>2
<1>5. NewsIsOnItsWay'
  BY <1>1, <1>3, NewsStays DEF Awaited
<1>6. ShownIsSound'
  BY <1>1, <1>3, <1>4 DEF ShownIsSound, ActivityIsComplete
<1>7. PollIsSound' /\ WaitingIsSound'
  <2>1. cursor' >= cursor /\ cursor' \in Nat /\ cursor \in Nat
    BY <1>1, <1>4
  <2>2. 1..cursor \subseteq 1..cursor'
    BY <2>1
  <2> QED
    BY <1>1, <2>2, TypesStand DEF SyncInvariant, PollIsSound, WaitingIsSound, NoPoll
<1>8. ClientIsSound'
  <2>1. NoCommand \in CommandType
    BY <1>1 DEF NoCommand, CommandType
  <2> QED
    BY <1>1, <2>1, TypesStand DEF SyncInvariant, ClientIsSound, Reply
<1> QED
  BY <1>1, <1>3, <1>4, <1>5, <1>6, <1>7, <1>8, RoomStands DEF SyncInvariant

\* A conflict has the game read.
LEMMA RefusedIsSound ==
  ASSUME SyncInvariant, Refused
  PROVE  SyncInvariant'
<1>1. /\ revision \in Nat /\ revision >= 1 /\ cursor \in 1..revision
      /\ view \in Nat /\ view >= view /\ poll \in PollType
      /\ UNCHANGED <<roomVars, shown, scenario, revision, notices, missed, link, view, cursor,
                     waiting, control>>
  BY RoomIs DEF SyncInvariant, ShownIsSound, PollIsSound, Refused, roomVars, shown
<1>2. PollIsSound' /\ WaitingIsSound' /\ (Awaited(revision) => Awaited(revision)')
  <2>1. CASE poll = NoPoll
    <3>1. poll' = NewPoll /\ waiting = {} /\ waiting' = {}
      BY <1>1, <2>1 DEF Refused, SyncInvariant, WaitingIsSound, NoPoll
    <3>2. NewPoll.pc = "asked" /\ NewPoll.cursor = cursor /\ NewPoll \in PollType
      BY <1>1, NewPollIs
    <3> QED
      BY <1>1, <3>1, <3>2, TypesStand DEF PollIsSound, WaitingIsSound, Awaited
  <2>2. CASE poll # NoPoll
    <3>1. UNCHANGED poll
      BY <2>2 DEF Refused
    <3> QED
      BY <1>1, <3>1, TypesStand DEF SyncInvariant, PollIsSound, WaitingIsSound, Awaited, NoPoll
  <2> QED
    BY <2>1, <2>2
<1>3. NewsIsOnItsWay'
  BY <1>1, <1>2, NewsStays
<1>4. ClientIsSound'
  <2>1. NoCommand \in CommandType
    BY <1>1 DEF NoCommand, CommandType
  <2> QED
    BY <1>1, <2>1, TypesStand DEF SyncInvariant, ClientIsSound, Refused
<1> QED
  BY <1>1, <1>2, <1>3, <1>4, RoomStands, ShownStands DEF SyncInvariant

-----------------------------------------------------------------------------
(***************************************************************************)
(* The socket.                                                             *)
(***************************************************************************)
\* The controller or a link moves, and the news is still on its way.
LEMMA LinkMoves ==
  ASSUME SyncInvariant, link' \in [Tickets -> LinkType], control' \in ControlType, NewsIsOnItsWay',
         UNCHANGED <<scenario, revision, notices, missed, window, shown, command>>,
         (PollIsSound' /\ WaitingIsSound') \/ UNCHANGED <<poll, waiting>>
  PROVE  SyncInvariant'
<1>1. RoomIsSound'
  BY DEF SyncInvariant, RoomIsSound, Tickets, LinkType
<1>2. ClientIsSound'
  BY TypesStand DEF SyncInvariant, ClientIsSound
<1>3. PollIsSound' /\ WaitingIsSound'
  BY TypesStand DEF SyncInvariant, PollIsSound, WaitingIsSound, NoPoll, shown
<1> QED
  BY <1>1, <1>2, <1>3, ShownStands DEF SyncInvariant

\* The controller has lost its socket, or has it as it was.
LEMMA ControlMoves ==
  ASSUME SyncInvariant, UNCHANGED <<roomVars, shown, poll, waiting, command>>, control' \in ControlType,
         \/ control'.socket = 0
         \/ /\ control'.socket = control.socket /\ control'.queued = control.queued
            /\ control'.state = "live" => control.state = "live"
  PROVE  SyncInvariant'
<1>1. UNCHANGED <<scenario, revision, notices, missed, window, link, view, poll, waiting>>
  BY DEF roomVars, shown
<1>2. Attached' => Attached /\ control'.socket = control.socket /\ control'.queued = control.queued
  BY <1>1 DEF Attached
<1>3. NewsIsOnItsWay'
  BY <1>1, <1>2 DEF SyncInvariant, NewsIsOnItsWay, OnItsWay, Awaited
<1>4. link' \in [Tickets -> LinkType]
  BY <1>1 DEF SyncInvariant, RoomIsSound
<1> QED
  BY <1>1, <1>3, <1>4, LinkMoves

\* The controller asks for a ticket, gets none, or loses a socket.
LEMMA ConnectionIsSound ==
  ASSUME SyncInvariant,
         Connect \/ NoTicket \/ Breaks \/ \E k \in Tickets : StrayBreaks(k)
  PROVE  SyncInvariant'
<1>1. control \in ControlType /\ control.asking \in Nat /\ control.stray \subseteq Tickets
  BY DEF SyncInvariant, ClientIsSound, ControlType
<1>2. UNCHANGED <<roomVars, shown, poll, waiting, command>>
  BY DEF Connect, NoTicket, Breaks, StrayBreaks, Controls
<1>3. CASE Connect
  <2>1. PICK asking \in Nat, state \in {"connecting", control.state} :
          control' = [control EXCEPT !.timer = FALSE, !.state = state, !.asking = asking]
    <3>1. CASE control.socket # 0
      <4>1. control' = [control EXCEPT !.timer = FALSE]
        BY <1>3, <3>1 DEF Connect, Controls
      <4>2. control' = [control EXCEPT !.timer = FALSE, !.state = control.state,
                                       !.asking = control.asking]
        BY <1>1, <4>1 DEF ControlType
      <4> QED
        BY <1>1, <4>2
    <3>2. CASE control.socket = 0
      <4>1. PICK n \in Nat : n = control.asking + 1
        BY <1>1
      <4>2. control' = [control EXCEPT !.timer = FALSE, !.state = "connecting", !.asking = n]
        BY <1>3, <3>2, <4>1 DEF Connect, Controls
      <4> QED
        BY <4>2
    <3> QED
      BY <3>1, <3>2
  <2>2. control' \in ControlType /\ control'.socket = control.socket
        /\ control'.queued = control.queued /\ control'.state = state
    BY <1>1, <2>1 DEF ControlType
  <2> QED
    BY <1>2, <2>1, <2>2, ControlMoves
<1>4. CASE NoTicket
  <2>1. PICK n \in Nat : n = control.asking - 1
    BY <1>1, <1>4 DEF NoTicket
  <2>2. PICK c : c = [control EXCEPT !.asking = n]
    OBVIOUS
  <2>3. c \in ControlType /\ c.socket = control.socket /\ c.queued = control.queued
        /\ c.state = control.state
    BY <1>1, <2>2 DEF ControlType
  <2>4. control' = Rescheduled(c) \/ control' = [control EXCEPT !.asking = n, !.state = "disabled"]
    BY <1>4, <2>1, <2>2 DEF NoTicket, Controls
  <2>5. CASE control' = Rescheduled(c)
    BY <1>2, <2>3, <2>5, RescheduledIs, ControlMoves
  <2>6. CASE control' = [control EXCEPT !.asking = n, !.state = "disabled"]
    <3>1. control' \in ControlType /\ control'.socket = control.socket
          /\ control'.queued = control.queued /\ control'.state = "disabled"
      BY <1>1, <2>6 DEF ControlType
    <3> QED
      BY <1>2, <3>1, ControlMoves
  <2> QED
    BY <2>4, <2>5, <2>6
<1>5. CASE Breaks
  BY <1>1, <1>2, <1>5, FailedIs, ControlMoves DEF Breaks, Controls
<1>6. ASSUME NEW k \in Tickets, StrayBreaks(k)
      PROVE  SyncInvariant'
  <2>1. PICK c : c = [control EXCEPT !.stray = @ \ {k}]
    OBVIOUS
  <2>2. c \in ControlType /\ c.socket = control.socket /\ c.queued = control.queued
        /\ c.state = control.state
    <3>1. PICK S : S = control.stray \ {k}
      OBVIOUS
    <3>2. S \subseteq Tickets /\ c = [control EXCEPT !.stray = S]
      BY <1>1, <2>1, <3>1
    <3> QED
      BY <1>1, <3>2 DEF ControlType
  <2>3. control' = Rescheduled(c) \/ control' = Failed(c)
    BY <1>6, <2>1 DEF StrayBreaks, Controls
  <2> QED
    BY <1>2, <2>2, <2>3, RescheduledIs, FailedIs, ControlMoves
<1> QED
  BY <1>3, <1>4, <1>5, <1>6

\* A new socket is asked for, and not yet let in.
LEMMA OpenIsSound ==
  ASSUME SyncInvariant, NEW k \in Tickets, Open(k)
  PROVE  SyncInvariant'
<1>1. /\ control \in ControlType /\ control.asking \in Nat /\ control.asking > 0
      /\ control.stray \subseteq Tickets /\ control.socket \in {0} \cup Tickets
      /\ link \in [Tickets -> LinkType] /\ link[k] \in LinkType
      /\ UNCHANGED <<scenario, revision, notices, missed, window, shown, poll, waiting, command>>
  BY DEF SyncInvariant, RoomIsSound, ClientIsSound, ControlType, Open, Controls
<1>2. PICK x : x = [link[k] EXCEPT !.at = "asked"] /\ link' = [link EXCEPT ![k] = x]
  BY DEF Open
<1>3. x \in LinkType /\ x.at = "asked"
  BY <1>1, <1>2 DEF LinkType
<1>4. link' \in [Tickets -> LinkType] /\ link'[k].at = "asked"
  BY <1>1, <1>2, <1>3
<1>5. PICK n \in Nat, S \in SUBSET Tickets :
        control' = [control EXCEPT !.asking = n, !.socket = k, !.stray = S]
  <2>1. control.asking - 1 \in Nat /\ control.stray \cup ({control.socket} \ {0}) \in SUBSET Tickets
    BY <1>1
  <2> QED
    BY <2>1 DEF Open, Controls
<1>6. control' \in ControlType /\ control'.socket = k
  BY <1>1, <1>5 DEF ControlType
<1>7. NewsIsOnItsWay'
  BY <1>4, <1>6 DEF NewsIsOnItsWay, Attached
<1> QED
  BY <1>1, <1>4, <1>6, <1>7, LinkMoves

\* A frame is taken from a socket: whatever it tells is wanted or queued.
LEMMA FrameIsSound ==
  ASSUME SyncInvariant, NEW k \in Tickets, Ready(k) \/ Hint(k)
  PROVE  SyncInvariant'
<1>1. /\ control \in ControlType /\ link \in [Tickets -> LinkType]
      /\ link[k] \in LinkType /\ k \in Nat /\ k # 0
      /\ UNCHANGED <<scenario, revision, notices, missed, window, shown, view, command>>
  BY RoomIs DEF SyncInvariant, RoomIsSound, ClientIsSound, Ready, Hint, Controls, shown
<1>2. PICK x \in LinkType : link' = [link EXCEPT ![k] = x] /\ x.at = link[k].at
  <2>1. CASE Ready(k)
    <3>1. PICK x : x = [link[k] EXCEPT !.ready = FALSE] /\ link' = [link EXCEPT ![k] = x]
      BY <2>1 DEF Ready
    <3>2. x \in LinkType /\ x.at = link[k].at
      BY <1>1, <3>1 DEF LinkType
    <3> QED
      BY <3>1, <3>2
  <2>2. CASE Hint(k)
    <3>1. PICK n \in Nat : n = link[k].hints - 1
      BY <1>1, <2>2 DEF Hint, LinkType
    <3>2. PICK x : x = [link[k] EXCEPT !.hints = n] /\ link' = [link EXCEPT ![k] = x]
      BY <2>2, <3>1 DEF Hint
    <3>3. x \in LinkType /\ x.at = link[k].at
      BY <1>1, <3>2 DEF LinkType
    <3> QED
      BY <3>2, <3>3
  <2> QED
    BY <2>1, <2>2
<1>3. link' \in [Tickets -> LinkType] /\ \A j \in Tickets : link'[j].at = link[j].at
                                      /\ (j # k => link'[j] = link[j])
  BY <1>1, <1>2
<1>4. CASE Ready(k) /\ control.socket = k
  <2>1. Refresh(k) /\ UNCHANGED control
    BY <1>4 DEF Ready
  <2>2. PollIsSound' /\ WaitingIsSound' /\ Awaited(revision)'
    BY <1>1, <2>1, RefreshIsAwaited
  <2>3. NewsIsOnItsWay'
    BY <2>2 DEF NewsIsOnItsWay, OnItsWay
  <2> QED
    BY <1>1, <1>3, <2>1, <2>2, <2>3, LinkMoves
<1>5. CASE Hint(k) /\ control.socket = k
  <2>1. control' = [control EXCEPT !.queued = TRUE] /\ UNCHANGED <<poll, waiting>>
    BY <1>5 DEF Hint, Controls
  <2>2. control' \in ControlType /\ control'.queued
    BY <1>1, <2>1 DEF ControlType
  <2>3. NewsIsOnItsWay'
    BY <2>2 DEF NewsIsOnItsWay, OnItsWay
  <2> QED
    BY <1>1, <1>3, <2>1, <2>2, <2>3, LinkMoves
<1>6. CASE control.socket # k
  <2>1. UNCHANGED <<poll, waiting, control>>
    BY <1>6 DEF Ready, Hint, Controls
  <2>2. NewsIsOnItsWay'
    <3> SUFFICES ASSUME Attached' PROVE OnItsWay(revision)'
      BY DEF NewsIsOnItsWay
    <3>1. control.socket \in Tickets
      BY <1>1, <2>1 DEF Attached, ControlType
    <3>2. link'[control.socket] = link[control.socket]
      BY <1>3, <1>6, <3>1
    <3>3. OnItsWay(revision)
      BY <2>1, <3>2 DEF SyncInvariant, NewsIsOnItsWay, Attached
    <3>4. Awaited(revision) => Awaited(revision)'
      BY <1>1, <2>1 DEF Awaited
    <3> QED
      BY <1>1, <2>1, <3>2, <3>3, <3>4 DEF OnItsWay
  <2> QED
    BY <1>1, <1>3, <2>1, <2>2, LinkMoves
<1> QED
  BY <1>4, <1>5, <1>6

\* What was queued is read, and somebody waits for it.
LEMMA FlushIsSound ==
  ASSUME SyncInvariant, FlushQueue
  PROVE  SyncInvariant'
<1>1. /\ Refresh(Flush) /\ control' = [control EXCEPT !.queued = FALSE]
      /\ UNCHANGED <<scenario, revision, notices, missed, window, link, shown, command>>
  BY DEF FlushQueue, roomVars
<1>2. PollIsSound' /\ WaitingIsSound' /\ Awaited(revision)'
  BY <1>1, RefreshIsAwaited
<1>3. NewsIsOnItsWay'
  BY <1>2 DEF NewsIsOnItsWay, OnItsWay
<1>4. control' \in ControlType /\ link' \in [Tickets -> LinkType]
  BY <1>1 DEF SyncInvariant, ClientIsSound, RoomIsSound, ControlType
<1> QED
  BY <1>1, <1>2, <1>3, <1>4, LinkMoves

\* A new lifecycle has no socket, and nobody of the old one waits.
LEMMA ReconnectIsSound ==
  ASSUME SyncInvariant, Reconnect
  PROVE  SyncInvariant'
<1>1. /\ control' = [state |-> "connecting", asking |-> 1, socket |-> 0, stray |-> {},
                     timer |-> FALSE, queued |-> FALSE]
      /\ waiting' = {[w EXCEPT !.who = Nobody] : w \in waiting}
      /\ UNCHANGED <<scenario, revision, notices, missed, window, link, shown, poll, command>>
      /\ waiting \subseteq WaitType /\ (poll.pc = "none" => waiting = {})
  BY DEF SyncInvariant, WaitingIsSound, Reconnect, roomVars
<1>2. control' \in ControlType /\ control'.socket = 0 /\ link' \in [Tickets -> LinkType]
  BY <1>1 DEF SyncInvariant, RoomIsSound, ControlType
<1>3. NewsIsOnItsWay'
  BY <1>2 DEF NewsIsOnItsWay, Attached
<1>4. WaitingIsSound' /\ PollIsSound'
  <2>1. \A w \in WaitType : [w EXCEPT !.who = Nobody] \in WaitType
    BY DEF WaitType
  <2>2. waiting' \subseteq WaitType /\ (waiting = {} => waiting' = {})
    BY <1>1, <2>1
  <2> QED
    BY <1>1, <2>2, TypesStand DEF SyncInvariant, WaitingIsSound, PollIsSound, NoPoll, shown
<1> QED
  BY <1>1, <1>2, <1>3, <1>4, LinkMoves

-----------------------------------------------------------------------------
(***************************************************************************)
(* What it is for.                                                         *)
(***************************************************************************)
\* At first the tab shows the table as it came to it.
LEMMA InitIsSound ==
  Init => SyncInvariant
<1> SUFFICES ASSUME Init PROVE SyncInvariant
  OBVIOUS
<1>1. /\ scenario \in Scenarios /\ revision = 1 /\ notices = {} /\ missed = FALSE
      /\ window = [count |-> 0, resync |-> FALSE] /\ link = [k \in Tickets |-> Unused]
      /\ view = 1 /\ activity = <<>> /\ cursor = 1 /\ poll = NoPoll /\ waiting = {}
      /\ command = NoCommand
      /\ control = [state |-> "connecting", asking |-> 1, socket |-> 0, stray |-> {},
                    timer |-> FALSE, queued |-> FALSE]
  BY DEF Init, InitRoom
<1>2. RoomIsSound
  <2>1. 1 \in 1..scenario.revisions
    BY <1>1, RoomAssumption DEF RoomAssumption
  <2>2. Unused \in LinkType
    BY DEF Unused, LinkType
  <2> QED
    BY <1>1, <2>1, <2>2 DEF RoomIsSound
<1>3. ShownIsSound
  BY <1>1 DEF ShownIsSound, ActivityIsComplete, Events
<1>4. PollIsSound /\ WaitingIsSound
  BY <1>1 DEF PollIsSound, WaitingIsSound, NoPoll, PollType
<1>5. ClientIsSound
  BY <1>1 DEF ClientIsSound, NoCommand, CommandType, ControlType
<1>6. NewsIsOnItsWay
  BY <1>1 DEF NewsIsOnItsWay, Attached
<1> QED
  BY <1>2, <1>3, <1>4, <1>5, <1>6 DEF SyncInvariant

\* A step that changes nothing keeps what was sound.
LEMMA StutterIsSound ==
  ASSUME SyncInvariant, UNCHANGED vars
  PROVE  SyncInvariant'
<1>1. command \in CommandType /\ UNCHANGED <<roomVars, shown, poll, waiting, command, control>>
  BY DEF SyncInvariant, ClientIsSound, vars, clientVars
<1> QED
  BY <1>1, CommandMoves

\* Whatever happens, the invariant holds, and nothing older is shown.
LEMMA StepIsSound ==
  ASSUME SyncInvariant, [Next]_vars
  PROVE  SyncInvariant' /\ view' >= view /\ cursor' >= cursor
<1>1. view >= view /\ cursor >= cursor
  BY RoomIs DEF SyncInvariant, ShownIsSound
<1>2. CASE UNCHANGED vars
  BY <1>1, <1>2, StutterIsSound DEF vars, clientVars, shown
<1>3. CASE Room /\ UNCHANGED clientVars
  BY <1>1, <1>3, RoomStepIsSound DEF clientVars, shown
<1>4. CASE Answered
  BY <1>4, AnsweredIsSound
<1>5. CASE Reply
  BY <1>5, ReplyIsSound
<1>6. CASE Poll \/ ReadRow \/ ReadEvents \/ PollFails
  <2>1. UNCHANGED shown
    BY <1>6 DEF Poll, ReadRow, ReadEvents, PollFails
  <2> QED
    BY <1>1, <1>6, <2>1, ReadStepIsSound, PollFailsIsSound DEF shown
<1>7. CASE SendCommand \/ RetryCommand \/ LoseAnswer \/ Execute \/ Refused
  <2>1. UNCHANGED shown
    BY <1>7 DEF SendCommand, RetryCommand, LoseAnswer, Execute, Refused
  <2> QED
    BY <1>1, <1>7, <2>1, SendIsSound, ExecuteIsSound, RefusedIsSound DEF shown
<1>8. CASE Socket
  <2>1. UNCHANGED shown
    BY <1>8 DEF Socket, Connect, NoTicket, FlushQueue, Breaks, Reconnect, Open, Ready, Hint,
                StrayBreaks, Controls
  <2>2. SyncInvariant'
    BY <1>8, ConnectionIsSound, OpenIsSound, FrameIsSound, FlushIsSound, ReconnectIsSound
       DEF Socket
  <2> QED
    BY <1>1, <2>1, <2>2 DEF shown
<1> QED
  BY <1>2, <1>3, <1>4, <1>5, <1>6, <1>7, <1>8 DEF Next, Serve, Read, Act

\* The browser is sound for ever.
THEOREM SyncIsSound ==
  Spec => []SyncInvariant
<1>1. SyncInvariant /\ [Next]_vars => SyncInvariant'
  BY StepIsSound
<1> QED
  BY InitIsSound, <1>1, PTL DEF Spec

\* Every variable of a browser and its companion keeps its type.
THEOREM SyncIsTyped ==
  Spec => []TypeOK
<1>1. ASSUME SyncInvariant PROVE TypeOK
  <2>1. activity \in Seq(2..revision)
    BY <1>1, RoomIs, EventsAreRevisions DEF SyncInvariant, ShownIsSound, ActivityIsComplete
  <2>2. poll = NoPoll => waiting = {}
    BY <1>1 DEF SyncInvariant, WaitingIsSound, NoPoll
  <2> QED
    BY <1>1, <2>1, <2>2
       DEF SyncInvariant, RoomIsSound, ShownIsSound, PollIsSound, WaitingIsSound, ClientIsSound,
           TypeOK, LinkType, PollType, WaitType, CommandType, ControlType
<1> QED
  BY SyncIsSound, <1>1, PTL

\* Every event since the tab came to the table is shown once and in order.
THEOREM ActivityIsAlwaysComplete ==
  Spec => []ActivityIsComplete
<1>1. SyncInvariant => ActivityIsComplete
  BY DEF SyncInvariant, ShownIsSound
<1> QED
  BY SyncIsSound, <1>1, PTL

\* While the controller is live, what is newer than the table is on its way.
THEOREM LiveAlwaysMeansInformed ==
  Spec => []LiveMeansInformed
<1>1. ASSUME SyncInvariant PROVE LiveMeansInformed
  <2> SUFFICES ASSUME control.state = "live", control.socket # 0,
                      link[control.socket].at = "open"
               PROVE  \/ view >= revision \/ revision \in notices \/ missed
                      \/ link[control.socket].ready \/ link[control.socket].hints > 0
                      \/ control.queued \/ UnderWay(revision)
    BY DEF LiveMeansInformed
  <2>1. OnItsWay(revision)
    BY <1>1 DEF SyncInvariant, NewsIsOnItsWay, Attached
  <2>2. Awaited(revision) => UnderWay(revision)
    BY DEF Awaited, UnderWay
  <2> QED
    BY <2>1, <2>2 DEF OnItsWay
<1> QED
  BY SyncIsSound, <1>1, PTL

\* What is shown is never replaced by something older.
THEOREM NothingIsEverTakenBack ==
  Spec => NothingIsTakenBack
<1>1. SyncInvariant /\ [Next]_vars => [view' >= view /\ cursor' >= cursor]_vars
  BY StepIsSound
<1> QED
  BY SyncIsSound, <1>1, PTL DEF Spec, NothingIsTakenBack
=============================================================================
