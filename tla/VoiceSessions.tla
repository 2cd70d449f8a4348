---------------------------- MODULE VoiceSessions ----------------------------
(***************************************************************************)
(* Live voice at one private table: src/lib/server/live-voice-store.ts,    *)
(* which hands out tokens, live-voice-cleanup.ts, the outbox through which *)
(* the provider learns who may no longer speak, and the commands of other  *)
(* stores that put work into it.  Every request is a Worker invocation     *)
(* with others at each of its awaits; the provider is external.            *)
(*                                                                         *)
(* Time: a request takes the time when it begins, and whatever it writes   *)
(* or compares later, it does with that time, while the provider goes by   *)
(* its own clock when it is called.  Commands and requests for tokens are  *)
(* over within Latency; a sweep, which calls the provider, may be as slow  *)
(* as it likes.                                                            *)
(***************************************************************************)
EXTENDS Integers, FiniteSets

CONSTANTS
  Users, Sweepers,
  Buffer,        \* for how long the provider refuses what is made for a player
                 \* after it was told to remove the player (60 seconds)
  Barrier,       \* for how long a confirmed job stands (61 seconds)
  Retention,     \* how long a job is kept (7 days)
  Latency,       \* bound: how long a command or a request for a token may take
  Speakers,      \* bound: who asks for tokens, and whose jobs are looked at
  MaxTries,      \* bound: the attempt_count at which failures stop counting
  Evenings       \* bound: which of the table's commands come together, how many
                 \* requests sweep meanwhile, and when the clock stops

ASSUME VoiceAssumption ==
  /\ "room" \notin Users /\ MaxTries \in Nat /\ Speakers \subseteq Users
  /\ Buffer \in Nat /\ Barrier \in Nat /\ Retention \in Nat /\ Latency \in Nat
  /\ Buffer > Latency /\ Barrier > 2 * Latency
  /\ Evenings \subseteq
       [may: SUBSET {"leave", "publish", "close", "purge", "block", "accept"},
        sweepers: SUBSET Sweepers, time: Nat]

VARIABLES
  evening,    \* one of Evenings, chosen once
  clock,
  punctual,   \* history: no sweep has taken longer than Latency so far
  table,      \* games, game_members and profile_blocks, as voice reads them
  jobs,       \* live_voice_cleanup_jobs
  lapsed,     \* history: whose job was deleted when it was past its retention
  session,    \* for each user a request for a token
  sweep,      \* reconciliations, each with the job it read
  voice       \* at the provider: who holds a token that admits, who is
              \* connected, until when tokens are refused

time == <<evening, clock, punctual>>
outbox == <<jobs, lapsed>>
vars == <<time, table, outbox, session, sweep, voice>>

Keys == Users \cup {"room"}
NoJob == [state |-> "none", asked |-> 0, tries |-> 0, until |-> 0]
NoSession == [pc |-> "idle", now |-> 0, dead |-> FALSE]
Resting == [pc |-> "idle", now |-> 0, key |-> "room", read |-> NoJob]

Init ==
  /\ evening \in Evenings /\ clock = 0 /\ punctual = TRUE
  /\ table = [open |-> TRUE, scope |-> "invite_only", listed |-> FALSE, stranger |-> FALSE,
              members |-> Users, players |-> Users, blocks |-> {}]
  /\ jobs = [k \in Keys |-> NoJob] /\ lapsed = {}
  /\ session = [u \in Users |-> NoSession]
  /\ sweep = [s \in Sweepers |-> Resting]
  /\ voice = [held |-> {}, on |-> {}, cutoff |-> [u \in Users |-> 0]]

Pending(k) == jobs[k].state # "none"

\* expires_at is always seven days after requested_at
Expired(k, now) == Pending(k) /\ jobs[k].asked + Retention <= now
Standing(k, now) == Pending(k) /\ jobs[k].asked + Retention > now

\* the times when a request that writes now may have begun
Recently == {t \in 0..clock : t + Latency >= clock}

\* cleanupJobUpsertSql: what was confirmed, or has failed often, starts again
Upsert(job, now) ==
  [state |-> "owed", asked |-> IF job.asked > now THEN job.asked ELSE now,
   tries |-> 0, until |-> 0]

Enqueue(keys, now) ==
  /\ jobs' = [k \in Keys |-> IF k \in keys THEN Upsert(jobs[k], now) ELSE jobs[k]]
  /\ lapsed' = lapsed \ keys

\* a job of a table that is purged leaves one that is there as it is
EnqueueMissing(keys, now) ==
  /\ jobs' = [k \in Keys |-> IF k \in keys /\ ~Pending(k) THEN Upsert(NoJob, now) ELSE jobs[k]]
  /\ lapsed' = lapsed \ keys

-----------------------------------------------------------------------------
(***************************************************************************)
(* What ends the right to speak.  Each enqueues its work in the batch that *)
(* does it.  The snapshot forgets who leaves a lobby, and keeps who leaves *)
(* a game.                                                                 *)
(***************************************************************************)
Depart(u) ==
  /\ "leave" \in evening.may /\ table.open /\ u \in table.members
  /\ \E players \in {table.players, table.players \ {u}} :
       LET rest == table.members \ {u}
       IN /\ table' = [table EXCEPT !.members = rest, !.players = players, !.open = rest # {}]
          /\ \E now \in Recently :
               Enqueue({u} \cup IF rest = {} THEN table.players \cup {"room"} ELSE {}, now)
  /\ UNCHANGED <<time, session, sweep, voice>>

Publish ==
  /\ "publish" \in evening.may /\ table.open /\ ~table.listed
  /\ table' = [table EXCEPT !.listed = TRUE, !.scope = "public_safe"]
  /\ \E now \in Recently : Enqueue(table.players \cup {"room"}, now)
  /\ UNCHANGED <<time, session, sweep, voice>>

\* closeRoomFromMaintenance
Close ==
  /\ "close" \in evening.may /\ table.open
  /\ table' = [table EXCEPT !.open = FALSE]
  /\ \E now \in Recently : Enqueue(table.players \cup {"room"}, now)
  /\ UNCHANGED <<time, session, sweep, voice>>

\* purgeExpiredRows, of a table that expired open
Purge ==
  /\ "purge" \in evening.may /\ table.open
  /\ table' = [table EXCEPT !.open = FALSE, !.members = {}]
  /\ \E now \in Recently : EnqueueMissing(table.players \cup {"room"}, now)
  /\ UNCHANGED <<time, session, sweep, voice>>

\* setSafetyRelationship; a block that is there already is answered the same
Block(u, v) ==
  /\ "block" \in evening.may /\ table.open /\ {u, v} \subseteq table.members /\ u # v
  /\ table' = [table EXCEPT !.blocks = @ \cup {<<u, v>>}]
  /\ \E now \in Recently : Enqueue({u, v}, now)
  /\ UNCHANGED <<time, session, sweep, voice>>

Unblock(u, v) ==
  /\ "block" \in evening.may /\ table.open /\ {u, v} \subseteq table.members /\ <<u, v>> \in table.blocks
  /\ table' = [table EXCEPT !.blocks = @ \ {<<u, v>>}]
  /\ UNCHANGED <<time, outbox, session, sweep, voice>>

\* acceptLobbyInvitation: somebody comes from the lobby, and nothing is enqueued
Accept ==
  /\ "accept" \in evening.may /\ table.open /\ ~table.stranger
  /\ table' = [table EXCEPT !.stranger = TRUE, !.scope = "public_safe"]
  /\ UNCHANGED <<time, outbox, session, sweep, voice>>

-----------------------------------------------------------------------------
(***************************************************************************)
(* createLiveVoiceSession, of which a user has one at a time.              *)
(***************************************************************************)
Apart(u, v) == {<<u, v>>, <<v, u>>} \cap table.blocks # {}

\* readLiveVoiceEligibility, which ends with hasPendingLiveVoiceCleanup
Eligible(u) ==
  /\ table.open /\ table.scope = "invite_only" /\ ~table.stranger
  /\ u \in table.members
  /\ \A v \in table.members : ~Apart(u, v)
  /\ ~Standing("room", clock) /\ ~Standing(u, clock)

SessionMoves(u, from, to) ==
  session[u].pc = from /\ session' = [session EXCEPT ![u] = to]

AskSession(u) ==
  /\ u \in Speakers /\ Eligible(u)
  /\ SessionMoves(u, "idle", [pc |-> "read", now |-> clock, dead |-> FALSE])
  /\ UNCHANGED <<time, table, outbox, sweep, voice>>

\* signed here, though nothing is sent to the provider
Mint(u) ==
  /\ SessionMoves(u, "read", [session[u] EXCEPT !.pc = "minted", !.dead = clock < voice.cutoff[u]])
  /\ UNCHANGED <<time, table, outbox, sweep, voice>>

Recheck(u) ==
  /\ SessionMoves(u, "minted",
       [session[u] EXCEPT !.pc = IF Eligible(u) THEN "granted" ELSE "rejected"])
  /\ UNCHANGED <<time, table, outbox, sweep, voice>>

\* enqueueLiveVoiceCleanupTargets, with the time at which the request began
Reject(u) ==
  /\ SessionMoves(u, "rejected", NoSession)
  /\ Enqueue({u}, session[u].now)
  /\ UNCHANGED <<time, table, sweep, voice>>

Deliver(u) ==
  /\ SessionMoves(u, "granted", NoSession)
  /\ voice' = [voice EXCEPT !.held = IF session[u].dead THEN @ \ {u} ELSE @ \cup {u}]
  /\ UNCHANGED <<time, table, outbox, sweep>>

DropSession(u) ==
  /\ session[u].pc # "idle"
  /\ session' = [session EXCEPT ![u] = NoSession]
  /\ UNCHANGED <<time, table, outbox, sweep, voice>>

-----------------------------------------------------------------------------
(***************************************************************************)
(* The provider and the browsers.  Removing a player refuses every token   *)
(* made for that player so far, and for a while those made later; ending   *)
(* the room only disconnects.  A token admits until it expires.            *)
(***************************************************************************)
Connect(u) ==
  /\ u \in voice.held \ voice.on
  /\ voice' = [voice EXCEPT !.on = @ \cup {u}]
  /\ UNCHANGED <<time, table, outbox, session, sweep>>

Disconnect(u) ==
  /\ u \in voice.on
  /\ voice' = [voice EXCEPT !.on = @ \ {u}]
  /\ UNCHANGED <<time, table, outbox, session, sweep>>

Expire(u) ==
  /\ u \in voice.held
  /\ voice' = [voice EXCEPT !.held = @ \ {u}]
  /\ UNCHANGED <<time, table, outbox, session, sweep>>

\* removeParticipant, deleteRoom
Obey(k) ==
  IF k = "room"
  THEN /\ voice' = [voice EXCEPT !.on = {}]
       /\ UNCHANGED session
  ELSE /\ voice' = [held |-> voice.held \ {k}, on |-> voice.on \ {k},
                    cutoff |-> [voice.cutoff EXCEPT ![k] = clock + Buffer]]
       /\ session' = [session EXCEPT ![k].dead = session[k].pc \in {"minted", "granted", "rejected"}]

-----------------------------------------------------------------------------
(***************************************************************************)
(* reconcileLiveVoiceCleanupJobs, one job at a time.  The retry delay only *)
(* spreads the calls and is left out.                                      *)
(***************************************************************************)
Sweeps(s, to) == sweep' = [sweep EXCEPT ![s] = to]

\* takes the time and deletes jobs past their retention, the oldest first and
\* not more than fit
BeginSweep(s) ==
  /\ s \in evening.sweepers /\ sweep[s].pc = "idle"
  /\ \E gone \in SUBSET {k \in Keys : Expired(k, clock)} :
       /\ \A k \in gone, j \in Keys :
            Pending(j) /\ jobs[j].asked < jobs[k].asked => j \in gone
       /\ jobs' = [k \in Keys |-> IF k \in gone THEN NoJob ELSE jobs[k]]
       /\ lapsed' = lapsed \cup gone
  /\ Sweeps(s, [Resting EXCEPT !.pc = "looking", !.now = clock])
  /\ UNCHANGED <<time, table, session, voice>>

\* what is owed is called for, what is confirmed and has stood its time is over
ReadJob(s, k) ==
  /\ sweep[s].pc = "looking"
  /\ k \in Speakers \cup {"room"} /\ Standing(k, sweep[s].now) /\ jobs[k].until <= sweep[s].now
  /\ Sweeps(s, [sweep[s] EXCEPT !.pc = IF jobs[k].state = "confirmed" THEN "over" ELSE "calling",
                                !.key = k, !.read = jobs[k]])
  /\ UNCHANGED <<time, table, outbox, session, voice>>

\* done and reported, done though the report comes too late, or not done
CallSucceeds(s) ==
  /\ sweep[s].pc = "calling"
  /\ Obey(sweep[s].key)
  /\ Sweeps(s, [sweep[s] EXCEPT !.pc = "done"])
  /\ UNCHANGED <<time, table, outbox>>

CallTimesOut(s) ==
  /\ sweep[s].pc = "calling"
  /\ Obey(sweep[s].key)
  /\ Sweeps(s, [sweep[s] EXCEPT !.pc = "failed"])
  /\ UNCHANGED <<time, table, outbox>>

CallFails(s) ==
  /\ sweep[s].pc = "calling"
  /\ Sweeps(s, [sweep[s] EXCEPT !.pc = "failed"])
  /\ UNCHANGED <<time, table, outbox, session, voice>>

SameRequestMutant(s) == Pending(sweep[s].key)

\* the job that is there was asked for when the one that was read was
SameRequest(s) ==
  LET k == sweep[s].key IN Pending(k) /\ jobs[k].asked = sweep[s].read.asked

\* ... and nothing has happened to it since
SameAttempt(s) ==
  LET job == jobs[sweep[s].key]
  IN SameRequest(s) /\ job.state = sweep[s].read.state /\ job.tries = sweep[s].read.tries

\* the update after a call writes what becomes of the job, if it is still the one
Settle(s, job) ==
  /\ jobs' = [jobs EXCEPT ![sweep[s].key] = job]
  /\ Sweeps(s, Resting)
  /\ UNCHANGED <<time, table, lapsed, session, voice>>

ConfirmMutant(s) ==
  /\ sweep[s].pc = "done"
  /\ LET job == jobs[sweep[s].key]
     IN Settle(s, IF SameAttempt(s)
                  THEN [job EXCEPT !.state = "confirmed", !.until = job.asked + Barrier]
                  ELSE job)

\* liveVoiceRevocationProtectionUntil, with the time at which the sweep began
Confirm(s) ==
  /\ sweep[s].pc = "done"
  /\ LET job == jobs[sweep[s].key]
     IN Settle(s, IF SameAttempt(s)
                  THEN [job EXCEPT !.state = "confirmed", !.until = sweep[s].now + Barrier]
                  ELSE job)

\* counts from -1, which stands for confirmed, like from any other number
Retry(s) ==
  /\ sweep[s].pc = "failed"
  /\ LET job == jobs[sweep[s].key]
     IN Settle(s, IF SameRequest(s)
                  THEN [state |-> "owed", asked |-> job.asked, until |-> 0,
                        tries |-> IF job.state = "confirmed" THEN 0
                                  ELSE IF job.tries < MaxTries THEN job.tries + 1 ELSE MaxTries]
                  ELSE job)

ForgetMutant(s) ==
  /\ sweep[s].pc = "over"
  /\ LET k == sweep[s].key
     IN IF jobs[k].state = "confirmed"
        THEN /\ jobs' = [jobs EXCEPT ![k] = NoJob]
             /\ lapsed' = IF Expired(k, clock) THEN lapsed \cup {k} ELSE lapsed
        ELSE UNCHANGED outbox
  /\ Sweeps(s, Resting)
  /\ UNCHANGED <<time, table, session, voice>>

Forget(s) ==
  /\ sweep[s].pc = "over"
  /\ LET k == sweep[s].key
     IN IF SameRequest(s) /\ jobs[k].state = "confirmed"
        THEN /\ jobs' = [jobs EXCEPT ![k] = NoJob]
             /\ lapsed' = IF Expired(k, clock) THEN lapsed \cup {k} ELSE lapsed
        ELSE UNCHANGED outbox
  /\ Sweeps(s, Resting)
  /\ UNCHANGED <<time, table, session, voice>>

CrashSweep(s) ==
  /\ sweep[s].pc # "idle"
  /\ Sweeps(s, Resting)
  /\ UNCHANGED <<time, table, outbox, session, voice>>

Tick ==
  /\ clock < evening.time
  /\ \A u \in Users : session[u].pc # "idle" => clock - session[u].now < Latency
  /\ clock' = clock + 1
  /\ punctual' = (punctual /\ \A s \in Sweepers : sweep[s].pc # "idle" => clock - sweep[s].now < Latency)
  /\ UNCHANGED <<evening, table, outbox, session, sweep, voice>>

-----------------------------------------------------------------------------
Table == \/ \E u \in Users : Depart(u)
         \/ Publish \/ Close \/ Purge \/ Accept
         \/ \E u, v \in Users : Block(u, v) \/ Unblock(u, v)

Session(u) == AskSession(u) \/ Mint(u) \/ Recheck(u) \/ Reject(u) \/ Deliver(u) \/ DropSession(u)

Browser(u) == Connect(u) \/ Disconnect(u) \/ Expire(u)

Sweep(s) == \/ BeginSweep(s) \/ \E k \in Keys : ReadJob(s, k)
            \/ CallSucceeds(s) \/ CallTimesOut(s) \/ CallFails(s)
            \/ Confirm(s) \/ Retry(s) \/ Forget(s) \/ CrashSweep(s)

Next == \/ Table \/ Tick
        \/ \E u \in Users : Session(u) \/ Browser(u)
        \/ \E s \in Sweepers : Sweep(s)

Spec == Init /\ [][Next]_vars

-----------------------------------------------------------------------------
Job == [state: {"none", "owed", "confirmed"}, asked: Nat, tries: Nat, until: Nat]

TableRow == [open: BOOLEAN, scope: {"invite_only", "public_safe"}, listed: BOOLEAN,
             stranger: BOOLEAN, members: SUBSET Users, players: SUBSET Users,
             blocks: SUBSET (Users \X Users)]

Request == [pc: {"idle", "read", "minted", "granted", "rejected"}, now: Nat, dead: BOOLEAN]

Pass == [pc: {"idle", "looking", "calling", "done", "failed", "over"},
         now: Nat, key: Keys, read: Job]

TypeOK ==
  /\ evening \in Evenings /\ clock \in Nat /\ punctual \in BOOLEAN
  /\ table \in TableRow
  /\ jobs \in [Keys -> Job] /\ lapsed \in SUBSET Keys
  /\ session \in [Users -> Request]
  /\ sweep \in [Sweepers -> Pass]
  /\ voice \in [held: SUBSET Users, on: SUBSET Users, cutoff: [Users -> Nat]]

\* can speak now, or has or is about to be given what it takes
CanSpeak(u) ==
  \/ u \in voice.on \cup voice.held
  \/ session[u].pc = "granted" /\ ~session[u].dead

\* has lost, by what happened at this table, the right to speak with the others
Barred(u) ==
  \/ ~table.open \/ table.listed \/ u \notin table.members
  \/ \E v \in table.members : Apart(u, v)

\* The outbox keeps a job for seven days and then gives it up, whether or not
\* the provider was reached.
GivenUp(k) == k \in lapsed \/ Expired(k, clock)

\* Whoever left, was blocked here, or sat at a table that closed or went
\* public, and can still speak, has a job that will end it, until it is given
\* up after seven days: a sweep that was slow, failed or died never marks as
\* done what was asked for after it called.
RevocationIsOwed ==
  \A u \in Users : Barred(u) /\ CanSpeak(u) => jobs[u].state = "owed" \/ GivenUp(u)

\* The barrier is counted from the start of the sweep and the provider's cutoff
\* from the call, so that calls of sweeps which take up to Latency may outlast it:
Overrun ==
  IF 2 * Latency + Buffer > Barrier THEN 2 * Latency + Buffer - Barrier ELSE 0

\* As long as the provider refuses what is made for a player, a job bars that
\* anything is made, up to the Overrun at its end.
BarrierCoversCutoff ==
  punctual => \A u \in Users : voice.cutoff[u] > clock + Overrun => Standing(u, clock) \/ GivenUp(u)

\* A job goes only when it is past its retention, or was confirmed and has
\* stood its time: a sweep that forgets an old one takes no new one away.
JobsStandTheirTime ==
  [][punctual => \A k \in Keys : Pending(k) /\ ~Pending(k)' =>
       \/ Expired(k, clock)
       \/ jobs[k].state = "confirmed" /\ jobs[k].until <= clock]_vars

\* What the provider has confirmed is not asked of it again; the job only
\* stands until its barrier ends, or something new is asked for.
ConfirmationIsFinal ==
  [][sweep' # sweep => \A k \in Keys : jobs[k].state = "confirmed" => jobs'[k].state # "owed"]_vars
=============================================================================
