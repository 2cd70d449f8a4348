------------------------------ MODULE TableSync ------------------------------
(***************************************************************************)
(* How a browser keeps up with its table: refreshGame, the polls and the   *)
(* stored command of src/app/components/GameShell.tsx, the activity rules  *)
(* of game-activity-sync.ts, and the socket controller of                  *)
(* realtime-client.ts as use-realtime-updates.ts runs it.  There is one    *)
(* read of the game at a time.  Whoever wants one joins the one under way; *)
(* a hint, which may be newer, waits for its end and wants another.        *)
(*                                                                         *)
(* The tab stays at the table and in one lifecycle of its controller but   *)
(* for the "online" event, which starts a new one.                         *)
(***************************************************************************)
EXTENDS RealtimeRoom, Sequences

CONSTANTS
  Page       \* events that one answer holds (12)

ASSUME SyncAssumption == Page \in Nat \ {0}

VARIABLES
  view,       \* gameRef: the revision that is shown
  activity,   \* the events that are shown, each as its revision
  cursor,     \* eventCursorRef
  poll,       \* pollRequestRef, with what the server has answered so far
  waiting,    \* refreshes that realtime-client awaits: [who, on]
  command,    \* the stored command
  moves,      \* commands given
  control     \* the state of createRealtimeController

shown == <<view, activity, cursor>>
clientVars == <<shown, poll, waiting, command, moves, control>>
vars == <<roomVars, clientVars>>

NoPoll == [pc |-> "none", cursor |-> 0, revision |-> 0, upto |-> 0]
NewPoll == [NoPoll EXCEPT !.pc = "asked", !.cursor = cursor]
NoCommand == [pc |-> "none", expected |-> 0, applied |-> 0, revision |-> 0]

Nobody == -1  \* awaits it any more
Flush == 0    \* of the queued topics; a ticket: the catch-up of its socket

\* enterGame; then the controller is started
Init ==
  /\ InitRoom
  /\ view = 1 /\ activity = <<>> /\ cursor = 1
  /\ poll = NoPoll /\ waiting = {}
  /\ command = NoCommand /\ moves = 0
  /\ control = [state |-> "connecting", asking |-> 1, socket |-> 0, stray |-> {},
                timer |-> FALSE, queued |-> FALSE]

-----------------------------------------------------------------------------
(***************************************************************************)
(* The controller's answers to what happens.                               *)
(***************************************************************************)
\* scheduleReconnect
Rescheduled(c) ==
  IF c.timer THEN c ELSE [c EXCEPT !.state = "fallback", !.timer = TRUE]

\* failConnection: its handlers are taken from the socket that is in use
Failed(c) == Rescheduled([c EXCEPT !.socket = 0])

Connected(c, S) == \E w \in S : w.who = c.socket /\ c.socket # 0

\* what the refreshes in S, all of the same read, lead to
After(c, S, ok) ==
  IF ok THEN IF Connected(c, S) THEN [c EXCEPT !.state = "live"] ELSE c
  ELSE IF \E w \in S : w.who \in Tickets THEN Failed(c)
  ELSE IF \E w \in S : w.who = Flush THEN [c EXCEPT !.state = "fallback"] ELSE c

-----------------------------------------------------------------------------
(***************************************************************************)
(* Reading the game.                                                       *)
(***************************************************************************)
\* refreshGame, not trailing: the timer, focus, visibility
Poll ==
  /\ poll = NoPoll
  /\ poll' = NewPoll
  /\ UNCHANGED <<roomVars, shown, waiting, command, moves, control>>

RefreshMutant(who) ==  \* a hint joins the read that is under way
  /\ waiting' = waiting \cup {[who |-> who, on |-> TRUE]}
  /\ poll' = IF poll = NoPoll THEN NewPoll ELSE poll

\* refreshGame, trailing
Refresh(who) ==
  /\ waiting' = waiting \cup {[who |-> who, on |-> poll = NoPoll]}
  /\ poll' = IF poll = NoPoll THEN NewPoll ELSE poll

\* getGame reads the row, then the events
ReadRow ==
  /\ poll.pc = "asked"
  /\ poll' = [poll EXCEPT !.pc = "row", !.revision = revision]
  /\ UNCHANGED <<roomVars, shown, waiting, command, moves, control>>

ReadEventsMutant ==  \* the page is taken to be full
  /\ poll.pc = "row"
  /\ poll' = [poll EXCEPT !.pc = "answered", !.upto = poll.cursor + Page]
  /\ UNCHANGED <<roomVars, shown, waiting, command, moves, control>>

ReadEvents ==
  /\ poll.pc = "row"
  /\ poll' = [poll EXCEPT !.pc = "answered",
                !.upto = IF poll.cursor + Page < revision THEN poll.cursor + Page ELSE revision]
  /\ UNCHANGED <<roomVars, shown, waiting, command, moves, control>>

EndedMutant(ok) ==  \* a read that failed stays registered
  LET later == {w \in waiting : ~w.on}
  IN  /\ control' = After(control, waiting \ later, ok)
      /\ waiting' = {[w EXCEPT !.on = TRUE] : w \in later}
      /\ poll' = IF ~ok THEN [NoPoll EXCEPT !.pc = "failed"]
                 ELSE IF later = {} THEN NoPoll ELSE [NewPoll EXCEPT !.cursor = cursor']
      /\ UNCHANGED <<roomVars, command, moves>>

\* what waited for the end of this read asks for the next
Ended(ok) ==
  LET later == {w \in waiting : ~w.on}
  IN  /\ control' = After(control, waiting \ later, ok)
      /\ waiting' = {[w EXCEPT !.on = TRUE] : w \in later}
      /\ poll' = IF later = {} THEN NoPoll ELSE [NewPoll EXCEPT !.cursor = cursor']
      /\ UNCHANGED <<roomVars, command, moves>>

Events(from, to) == [i \in 1..(to - from) |-> from + i]

\* nothing was shown since the read was asked for
Current == cursor <= poll.cursor

AppliesMutant(rev) == TRUE

\* canApplyRefreshedGameView
Applies(rev) == rev >= view

Answered ==
  /\ poll.pc = "answered"
  /\ IF Current
     THEN /\ activity' = activity \o Events(poll.cursor, poll.upto)
          /\ cursor' = Larger(poll.cursor, poll.upto)
     ELSE UNCHANGED <<activity, cursor>>
  /\ view' = IF Applies(poll.revision) THEN poll.revision ELSE view
  /\ Ended(Applies(poll.revision))

\* timed out, refused or lost
PollFails ==
  /\ poll.pc \in {"asked", "row", "answered"}
  /\ UNCHANGED shown
  /\ Ended(FALSE)

-----------------------------------------------------------------------------
(***************************************************************************)
(* The command of this browser.  GameStore has its copies; here it is sent *)
(* again only when its answer is lost.                                     *)
(***************************************************************************)
SendCommand ==
  /\ command = NoCommand /\ moves < scenario.moves
  /\ moves' = moves + 1
  /\ command' = [NoCommand EXCEPT !.pc = "sent", !.expected = view]
  /\ UNCHANGED <<roomVars, shown, poll, waiting, control>>

RetryCommand ==
  /\ command.pc = "saved"
  /\ command' = [command EXCEPT !.pc = "sent"]
  /\ UNCHANGED <<roomVars, shown, poll, waiting, moves, control>>

\* gameCommandActivityFields: only what is delivered for the first time
\* brings its events; it is announced before it is answered
Execute ==
  /\ command.pc = "sent"
  /\ IF command.applied # 0
     THEN /\ command' = [command EXCEPT !.pc = "replayed", !.revision = revision]
          /\ UNCHANGED <<revision, notices, missed>>
     ELSE IF command.expected = revision /\ revision < scenario.revisions
     THEN /\ revision' = revision + 1
          /\ Announced(revision + 1)
          /\ command' = [command EXCEPT !.pc = "fresh", !.applied = revision + 1,
                                        !.revision = revision + 1]
     ELSE /\ command' = [command EXCEPT !.pc = "refused"]
          /\ UNCHANGED <<revision, notices, missed>>
  /\ UNCHANGED <<scenario, window, link, shown, poll, waiting, moves, control>>

LoseAnswer ==
  /\ command.pc \notin {"none", "saved"}
  /\ command' = [command EXCEPT !.pc = "saved"]
  /\ UNCHANGED <<roomVars, shown, poll, waiting, moves, control>>

NextInLineMutant == cursor < command.revision

\* reconcileCommandActivity: the events follow what is shown, with no gap
NextInLine == cursor = command.expected /\ command.revision = command.expected + 1

Reply ==
  /\ command.pc \in {"fresh", "replayed"}
  /\ view' = Larger(view, command.revision)
  /\ IF command.pc = "fresh" /\ NextInLine
     THEN activity' = Append(activity, command.revision) /\ cursor' = command.revision
     ELSE UNCHANGED <<activity, cursor>>
  /\ command' = NoCommand
  /\ UNCHANGED <<roomVars, poll, waiting, moves, control>>

\* a conflict wants the game, and takes a read that is under way for it
Refused ==
  /\ command.pc = "refused"
  /\ command' = NoCommand
  /\ poll' = IF poll = NoPoll THEN NewPoll ELSE poll
  /\ UNCHANGED <<roomVars, shown, waiting, moves, control>>

-----------------------------------------------------------------------------
(***************************************************************************)
(* The socket.                                                             *)
(***************************************************************************)
Controls(c) ==
  /\ control' = c
  /\ UNCHANGED <<shown, poll, waiting, command, moves>>

\* connect
Connect ==
  /\ control.timer
  /\ Controls(IF control.socket # 0 THEN [control EXCEPT !.timer = FALSE]
              ELSE [control EXCEPT !.timer = FALSE, !.state = "connecting", !.asking = @ + 1])
  /\ UNCHANGED roomVars

\* the ticket comes too late or not at all, or there is no companion
NoTicket ==
  /\ control.asking > 0
  /\ \/ Controls(Rescheduled([control EXCEPT !.asking = @ - 1]))
     \/ Controls([control EXCEPT !.asking = @ - 1, !.state = "disabled"])
  /\ UNCHANGED roomVars

\* a socket that was made by an earlier call is forgotten, but for its handlers
Open(k) ==
  /\ control.asking > 0
  /\ link[k] = Unused /\ \A j \in 1..(k - 1) : link[j] # Unused
  /\ link' = [link EXCEPT ![k].at = "asked"]
  /\ Controls([control EXCEPT !.asking = @ - 1, !.socket = k,
                              !.stray = @ \cup ({control.socket} \ {0})])
  /\ UNCHANGED <<scenario, revision, notices, missed, window>>

\* a frame: the socket is live when the game has been read once more
Ready(k) ==
  /\ link[k].ready
  /\ link' = [link EXCEPT ![k].ready = FALSE]
  /\ IF control.socket = k THEN Refresh(k) ELSE UNCHANGED <<poll, waiting>>
  /\ UNCHANGED <<scenario, revision, notices, missed, window, shown, command, moves, control>>

Hint(k) ==
  /\ link[k].hints > 0 /\ ~link[k].ready
  /\ link' = [link EXCEPT ![k].hints = @ - 1]
  /\ Controls(IF control.socket = k THEN [control EXCEPT !.queued = TRUE] ELSE control)
  /\ UNCHANGED <<scenario, revision, notices, missed, window>>

\* flushInvalidations, 75 ms later
FlushQueue ==
  /\ control.queued
  /\ control' = [control EXCEPT !.queued = FALSE]
  /\ Refresh(Flush)
  /\ UNCHANGED <<roomVars, shown, command, moves>>

\* the socket that is in use closes, fails, or is not ready in time
Breaks ==
  /\ control.socket # 0
  /\ Controls(Failed(control))
  /\ UNCHANGED roomVars

\* a forgotten one closes, or fails and takes the other with it
StrayBreaks(k) ==
  /\ k \in control.stray
  /\ LET c == [control EXCEPT !.stray = @ \ {k}]
     IN Controls(Rescheduled(c)) \/ Controls(Failed(c))
  /\ UNCHANGED roomVars

\* reconnectNow, when the browser is online again: a new lifecycle
Reconnect ==
  /\ control' = [state |-> "connecting", asking |-> 1, socket |-> 0, stray |-> {},
                 timer |-> FALSE, queued |-> FALSE]
  /\ waiting' = {[w EXCEPT !.who = Nobody] : w \in waiting}
  /\ UNCHANGED <<roomVars, shown, poll, command, moves>>

-----------------------------------------------------------------------------
Serve == ReadRow \/ ReadEvents \/ Execute
Read == Poll \/ Answered \/ PollFails
Act == SendCommand \/ RetryCommand \/ LoseAnswer \/ Reply \/ Refused
Socket ==
  \/ Connect \/ NoTicket \/ FlushQueue \/ Breaks \/ Reconnect
  \/ \E k \in Tickets : Open(k) \/ Ready(k) \/ Hint(k) \/ StrayBreaks(k)

Next == (Room /\ UNCHANGED clientVars) \/ Serve \/ Read \/ Act \/ Socket

Spec == Init /\ [][Next]_vars

\* The poll timer is set again after every read, and not every read times out
\* or is lost.  Nothing is asked of the companion.
Fairness ==
  /\ WF_vars(Poll)
  /\ SF_vars(ReadRow) /\ SF_vars(ReadEvents) /\ SF_vars(Answered)

FairSpec == Spec /\ Fairness

-----------------------------------------------------------------------------
TypeOK ==
  /\ revision \in 1..scenario.revisions /\ notices \subseteq 2..revision /\ missed \in BOOLEAN
  /\ window \in [count: Nat, resync: BOOLEAN]
  /\ link \in [Tickets -> [at: {"none", "asked", "open", "shut"}, ready: BOOLEAN, hints: Nat]]
  /\ view \in 1..revision /\ cursor \in 1..revision /\ activity \in Seq(2..revision)
  /\ poll \in [pc: {"none", "asked", "row", "answered"}, cursor: 0..revision,
               revision: 0..revision, upto: 0..revision]
  /\ waiting \subseteq [who: {Nobody, Flush} \cup Tickets, on: BOOLEAN]
  /\ poll = NoPoll => waiting = {}
  /\ command \in [pc: {"none", "sent", "saved", "fresh", "replayed", "refused"},
                  expected: 0..revision, applied: 0..revision, revision: 0..revision]
  /\ control \in [state: {"connecting", "live", "fallback", "disabled"}, asking: Nat,
                  socket: {0} \cup Tickets, stray: SUBSET Tickets,
                  timer: BOOLEAN, queued: BOOLEAN]

\* Every event since the tab came to the table is shown once, in order, and
\* none is passed over, whichever of polls, command answers and replays bring
\* it, in whatever order they arrive.
ActivityIsComplete == activity = Events(1, cursor)

\* What is shown is never replaced by something older.
NothingIsTakenBack ==
  [][view' >= view /\ cursor' >= cursor]_vars

\* a read that will show revision n
UnderWay(n) ==
  \/ poll.pc = "asked"
  \/ poll.pc \in {"row", "answered"} /\ poll.revision >= n
  \/ \E w \in waiting : ~w.on

\* While the controller is live on a socket that the room still serves, and
\* so polls only now and then, the table is current, or it is being read
\* again, or a hint or the first frame of a new socket is on its way; unless
\* the notice itself was lost.
LiveMeansInformed ==
  LET k == control.socket
  IN  control.state = "live" /\ k # 0 /\ link[k].at = "open" =>
        \/ view >= revision \/ revision \in notices \/ missed
        \/ link[k].ready \/ link[k].hints > 0 \/ control.queued
        \/ UnderWay(revision)

\* When nobody moves for a while, the tab comes to show the table as it is and
\* all that led to it, even if every hint was lost.
TheTableIsShown == []<>(view = revision /\ cursor = revision)
=============================================================================
