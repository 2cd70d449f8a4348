----------------------------- MODULE RealtimeRoom -----------------------------
(***************************************************************************)
(* The companion that tells browsers of a table that something has         *)
(* changed: the Durable Object of src/realtime-worker/src/index.ts, the    *)
(* tickets of src/lib/server/realtime-ticket.ts and the notices of         *)
(* src/lib/server/realtime-notify.ts.  A hint has no content; the notices  *)
(* here bear the revision they were sent for so that TableSync can say     *)
(* which of them were lost.  Chat hints travel the same way and end in     *)
(* TableChat's Poll.                                                       *)
(***************************************************************************)
EXTENDS Integers, FiniteSets

CONSTANTS
  Scenarios,     \* bound: how far the revision goes, how many tickets are handed
                 \* out, how many commands this browser gives
  MaxRate,       \* notices that are passed on per second (20)
  MaxSockets     \* sockets of one account at one table (3)

ASSUME RoomAssumption ==
  /\ Scenarios \subseteq [revisions: Nat \ {0}, tickets: Nat, moves: Nat]
  /\ MaxRate \in Nat \ {0} /\ MaxSockets \in Nat \ {0}

VARIABLES
  scenario,   \* chosen once
  revision,   \* of the game row
  notices,    \* on their way from the deployment to the room
  missed,     \* history: the notice of this revision told nobody
  window,     \* notification-window of the room
  link        \* the socket that each ticket opened

roomVars == <<scenario, revision, notices, missed, window, link>>

Tickets == 1..scenario.tickets
Unused == [at |-> "none", ready |-> FALSE, hints |-> 0]
Larger(x, y) == IF x < y THEN y ELSE x

InitRoom ==
  /\ scenario \in Scenarios
  /\ revision = 1 /\ notices = {} /\ missed = FALSE
  /\ window = [count |-> 0, resync |-> FALSE]
  /\ link = [k \in Tickets |-> Unused]

-----------------------------------------------------------------------------
\* A committed move is announced once, unless its invocation dies first.
Announced(n) ==
  \/ notices' = notices \cup {n} /\ missed' = FALSE
  \/ missed' = TRUE /\ UNCHANGED notices

\* somebody else's command
Commit ==
  /\ revision < scenario.revisions
  /\ revision' = revision + 1
  /\ Announced(revision + 1)
  /\ UNCHANGED <<scenario, window, link>>

LoseNotice(n) ==
  /\ n \in notices
  /\ notices' = notices \ {n}
  /\ missed' = (missed \/ n = revision)
  /\ UNCHANGED <<scenario, revision, window, link>>

\* broadcast: to whoever is connected
Told == [k \in Tickets |->
          IF link[k].at = "open" THEN [link[k] EXCEPT !.hints = @ + 1] ELSE link[k]]

\* notify: what exceeds the rate is passed on once, as resync_required
Notify(n) ==
  /\ n \in notices
  /\ notices' = notices \ {n}
  /\ window' = [count |-> window.count + 1,
                resync |-> window.resync \/ window.count >= MaxRate]
  /\ IF window.count < MaxRate \/ ~window.resync
     THEN link' = Told /\ UNCHANGED missed
     ELSE missed' = (missed \/ n = revision) /\ UNCHANGED link
  /\ UNCHANGED <<scenario, revision>>

\* a second has passed
NewWindow ==
  /\ window.count > 0
  /\ window' = [count |-> 0, resync |-> FALSE]
  /\ UNCHANGED <<scenario, revision, notices, missed, link>>

-----------------------------------------------------------------------------
\* admitConnection: the nonce of a ticket is used up, the account has room
Admit(k) ==
  /\ link[k].at = "asked"
  /\ link' = [link EXCEPT ![k] =
       IF Cardinality({j \in Tickets : link[j].at = "open"}) < MaxSockets
       THEN [at |-> "open", ready |-> TRUE, hints |-> 0]
       ELSE [@ EXCEPT !.at = "shut"]]
  /\ UNCHANGED <<scenario, revision, notices, missed, window>>

\* the request is refused for another reason, the lease has ended, too much
\* is buffered, the browser sends something or is gone
Shut(k) ==
  /\ link[k].at \in {"asked", "open"}
  /\ link' = [link EXCEPT ![k].at = "shut"]
  /\ UNCHANGED <<scenario, revision, notices, missed, window>>

Room ==
  \/ Commit \/ NewWindow
  \/ \E n \in notices : Notify(n) \/ LoseNotice(n)
  \/ \E k \in Tickets : Admit(k) \/ Shut(k)
=============================================================================
