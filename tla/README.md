# Open Shed in TLA+

A model of the Open Shed card engine and of the server that keeps its rooms,
checked with TLC and, where a result should hold for every deck and every
number of players, proved with TLAPS. Paths are those of the repository.

## The system

One room is a card game for two to six players. A browser sends a typed
command with a command ID and the revision it was made on; a Worker invocation
reads the room's row from D1, runs the pure rules engine on it, and submits one
batch of guarded statements; the answer is a projection for that player. No
invocation shares memory with another. Realtime hints only make a browser read
again sooner.

| Component | State | Operations | What is hard | What makes it correct |
|---|---|---|---|---|
| Rules engine (`lib/game/engine.ts`, `deck.ts`, `invariants.ts`) | the table: players, hands, piles, turn, penalty, roulette, forced card, UNO liabilities, winner | 14 commands | long legal sequences: recycling in mid-draw, knock-outs and departures of whoever holds the turn, hands that move past people who are out | no card lost or doubled, somebody in play has the turn and can move, a win is a win |
| Game store, commands (`lib/server/game-store.ts`) | games row, members, events, receipts, rounds | game command, join, create, closure | requests interleave at every await, are retried, lost and killed; batches throw after committing | a command is applied at most once, to the table it was made for; answers are true; ledgers agree |
| Room lifecycle and presence (`game-store.ts`, `room-lifecycle-policy.ts`, `presence-policy.ts`) | presence rows, abandoned_since, expires_at | heartbeat, maintenance pass, closure, purge | clocks of several invocations, a heartbeat racing a closure | no attended lobby is closed, an unattended one eventually is |
| Host recovery, inactive removal (`game-night-continuity-policy.ts`) | presence evidence | claim_host, remove_inactive_player | evidence that is stale in the batch | a host who is back keeps the table |
| Public listings, quick join (`game-store.ts`, `discovery-*.ts`) | listing row, consent | publish, unpublish, browse, join | listing, host and phase change between read and batch | a listed room can be joined, an unlisted one cannot |
| Table chat (`chat-store.ts`) | messages, cursors, receipts, mutes, reports | send, list, report, mute | retries, cursor order, membership that changes | one message per command, none skipped by a cursor |
| Lobby presence, invitations (`lobby-presence-store.ts`) | presence, invitations | appear, invite, answer, accept, block | two acceptances, expiry and block in between | at most one acceptance, none after an end |
| Live voice (`live-voice-*.ts`) | sessions at the provider, outbox of clean-ups | issue, revoke, reconcile | a token issued while its owner leaves, a crash before the provider is told | nobody stays in a call of a room they left |
| Realtime (`realtime-*.ts`, `realtime-worker/`) | one-use tickets, room sockets | issue, redeem, hint | a ticket used twice, hints lost or coalesced | one ticket one socket; a change is eventually read |
| Client (`app/components/GameShell.tsx`, `realtime-client.ts`, ...) | stored command, view, event cursor | send, retry, poll, refresh | a retry racing its first copy | a view never goes back |

The rest (projection, parser, authentication, texts, routes, rendering,
scripts) keeps no state and is listed with its reason in PROJECT.json.

## Modules

| Module | Models | Runs or proofs |
|---|---|---|
| `ShedEngine` | the rules engine, one action per command | `EngineTable` |
| `ShedEngineProofs` | its inductive invariant and what follows from it; every step of the engine is one of `RosterMachine`, or none | TLAPS |
| `Roster` | the engine as the server needs to know it: seats, status, phase, host, winner; `Outcomes(t, u, c)` is what a command can make of a roster | used by the four below |
| `RosterMachine` | `Roster` as a state machine, the abstract specification of `ShedEngine` | `ImplementsRoster` in `EngineTable` |
| `RosterProofs` | what comes of a command at any roster | TLAPS |
| `GameStore` | receipts, rows and batches of one room in D1, its clients and its maintenance | `StoreRace`, `StoreTwin` |
| `GameStoreProofs` | its inductive invariant and five properties; every step of the store is one of `Room`, or none | TLAPS |
| `Room` | one server doing one command at a time, the abstract specification of `GameStore`; what a command makes of a table is a parameter | `ImplementsRoom` in `StoreRace` |
| `RoomLifecycle` | the clock of a room: presence, marks, closure, host claims and removals, on `Roster` | `Life`, `LifeClose`, `LifeGrace` |
| `RoomLifecycleProofs` | its inductive invariant and five properties | TLAPS |
| `TableChat` | messages, their positions, who may read what, the browser that polls | `Chat`, `ChatDrop` |
| `TableChatProofs` | its inductive invariant and four properties | TLAPS |
| `PublicTables` | several tables with members, listings and invitations; the moves of members | used by the three below |
| `PublicListing` | publishing, public join, quick join | `Discovery` |
| `LobbyInvitations` | looking for a game, inviting, answering | `Discovery` |
| `Discovery` | the two together at the same tables | `Discovery` |
| `DiscoveryProofs` | its inductive invariant and six properties | TLAPS |
| `VoiceSessions` | voice tokens, the outbox of revocations, its sweeps, the provider | `Voice`, `VoiceSentinel` |
| `VoiceSessionsProofs` | its inductive invariant and three properties | TLAPS |
| `RealtimeRoom` | the Durable Object: tickets, sockets, notices, hints | used by `TableSync` |
| `TableSync` | a browser tab: reads, polls, stored command, socket controller, at a `RealtimeRoom` | `Sync` |
| `TableSyncProofs` | its inductive invariant and four properties | TLAPS |

The first chain is: the engine implements the roster machine; the store runs
`Roster` under races and failures and implements `Room`, which applies the
same `Outcomes` one command at a time. `PublicTables` and `VoiceSessions` take
from that result that an accepted command is one step, and show what the same
batches do to listings, invitations and voice jobs. `TableSync` composes the
browser with the companion Worker.

In several modules a constant `Scenarios` (`Evenings` in `VoiceSessions`) is a
set of small situations, one of which is chosen in the initial state and never
changes: which commands are offered, how many, from what table. It bounds the
runs without leaving a behaviour of the code out of the definitions; the proofs
hold for any set of scenarios.

### ShedEngine and engine.ts

The state is a `GameState`: `phase`, `host`, `current`, `direction`, `color`,
`pending`, `roulette`, `forced`, `winner` and `turnNumber` are its fields;
`status`, `seat`, `ready` and `hand` those of its players, by user, with status
`"absent"` for a user who has no entry. `uno` is the set of players with an
open liability. Every command is one action with the name of its function, the
guards are its `requireRule` calls, and everything it calls is in the step:
drawing and recycling (`TakeCards`), elimination and turn repair
(`AfterKnockout`), removal (`RemovePlayer`), completion (`CompleteGame`).

Abstracted: the draw pile is a set and a draw takes any of its cards, since
shuffles are random and nobody sees the order; the discard pile is its top card
and a set; display names, timestamps, events and the revision are left out.
`assertGameInvariants` is not a guard: that it never fires is a theorem.
`forcedCardId` may outlive nothing it should not, which is a property too.

Bounds: `Hands` and `FlippedCards` choose which hands a shuffle deals and which
cards open the pile, `MaxTurns` the turn at which play stops. The limits are
scaled with the deck: three players with a mercy limit of 4 and eleven cards
stand in the same relation as six with a limit of 25 and 168
(`DeckAssumption`: the cards are enough for full hands, the top discard and one
more), and knock-outs, recycling and the end of the piles all happen within four
turns. A hand of one and two penalty cards stay below that limit, so that nobody
is knocked out by being caught without calling UNO; in the code, with 25, nobody
is either. Deadlock is not checked: a room ends when everybody has left, and play
stops at `MaxTurns`.

### GameStore and game-store.ts

`version`, `table` and `room` are the games row; version stands for the pair
of revision and state hash that every guard compares. `members`, `events`,
`receipts` and `rounds` are tables. A request is a Worker invocation; its `pc`
says before which await it is:

| `pc` | next step | code |
|---|---|---|
| `lookup` | `FindReceipt` | `findCommandReceipt`, a replay if there is one |
| `read` | `ReadRow` | `getGameRow`, the processed commands, membership, expected revision, policy, `transitionGame` |
| `batch` | `Batch` | the D1 batch, one transaction of guarded statements |
| `lost` | `Lost` | the last statement changed nothing: receipt, closed room, conflict; a join starts again, up to four times |
| `threw` | `Threw` | the batch threw: receipt or the error |

`Commit` is a batch whose guards hold; `CommitStale` one whose guards do not, of
which only the statements guarded by a receipt alone remain, the membership rows.
The version has moved on, or it is the batch of a host claim or of a removal
(`OnPresence`), whose receipt is guarded by presence too
(`game-store.ts:4019-4192`): the version may then still be current, and the answer
is VERSION_CONFLICT all the same, with the version it was made on (`Denials`, lines
2443-2491, where a removal looks at presence once more). A batch may throw with or
without having been committed. A client stores one command and sends it, in several
copies if answers are late, until an answer arrives; a join has a new ID at every
click, so it is sent once. `Crash` kills an invocation before any await; an answer
may be lost. Maintenance reads a row, decides, and closes it in a batch of its own.

Abstracted: time and presence (a lobby may be found unattended at any time; a
claim or a removal may be refused for presence when the row is read, in the
batch and after it, or pass), quotas (a
refusal is like a request that never came), profiles, and those statements of
the batch that keep listings, invitations and voice jobs, which are in
`PublicTables` and `VoiceSessions`. The unique indexes on receipts, events and
rounds are not guards of the model: `LedgersAgree` says that nothing would run
into them. The index on seats is.

Bounds: `Requests`, and `Scenarios` with the table from which the room is
watched (version 1 then stands for the revision it has reached), the kinds of
commands offered, how many are composed, how many invocations run at one time
and how many copies of one command. `Storms` is three kinds of them: `Race`, two
commands of any kind with their copies; `Members`, three commands about seats
without copies; `Nights`, four commands that win, rematch, start and win. Two
invocations and two commands are enough for every pair of steps to race; a third
is what shows a seat that is given up and taken again. Deadlock is not checked:
when all commands are answered nothing is left to do.

### RoomLifecycle and the policies

`since` is `abandoned_since`, `seen` the presence rows (`last_seen_at`, or
`joined_at`), `gate` the `lastAttemptAt` of the maintenance gate, and a request
is again a Worker invocation, which keeps the `now` it was started with. A
time is represented by its age: `Tick` makes everything one unit older and stops
at `Horizon`, beyond which no comparison of the code can tell ages apart, so the
clock runs for ever in finitely many states and liveness can be checked without
an end of time. In the same way a request keeps, instead of the version it has
read, whether that is still the current one (`fresh`), which every accepted
command and closure takes from the others.

| Steps | Code |
|---|---|
| `Beat`, `FinishBeat` | `heartbeatGamePresence`: the reads, then one batch that writes presence and clears the mark |
| `Command`, `TouchActor`, `CheckPolicy`, `Commit` | `executeGameCommand`: the row, the presence of the actor, presence of others for a claim or a removal, the batch, which looks at presence again; `joinGame` has no `TouchActor` |
| `Sweep`, `Decide`, `Mark`, `Clear`, `Close` | `maintainRoomLifecycleRows`, `maintainRoomLifecycleRow`, `closeRoomFromMaintenance`: the candidate query, the presence query with `evaluateWaitingRoomLifecycle`, the guarded write |
| `Drop` | any refusal, failure or kill before the batch |

In the code every request begins with a maintenance pass of its own; here a pass
is an invocation like any other, since nothing but the gate ties the two
together. `contact` is a history variable: when a member was last in touch, even
where an older request has overwritten `last_seen_at` with an earlier time. That
is why the properties allow for `Latency`.

Left out: tombstones of closed rooms, receipts and retries (`GameStore` has
them), the voice and listing statements of the closing batch (`Close` and
`CloseLobby` of the other modules), and the membership rows that `StoreTwin`
shows to be stale now and then.

Bounds: `Requests`, `Latency`, and `Scenarios` with the first table, its users and
the commands offered: two in a lobby, three at play, three after a game. The
thresholds are 1 to 3 units instead of 45, 120 and 300 seconds; what matters is
their order and that `Latency` is at most as large as the smallest of them.

### TableChat, chat-store.ts and the chat of GameShell.tsx

`feed` is `game_message_cursors`: its order is that in which batches were
committed, and the position of a message is its place in it; `stored` says whose
row is still in `game_messages`. A request is a Worker invocation with the time
at which it began.

| Steps | Code |
|---|---|
| `Compose`, `Send` | the browser: one stored message, sent again under its ID until an answer arrives (`Answered`); the request's look at receipt, membership and scope |
| `SendBatch` | the batch, guarded by membership, scope and cooldown (`Accepted`), what its indexes do to a copy (`Collides`), and its statements (`Write`) |
| `Poll`, `ListScan`, `ListAnswer` | listing: the reader and the scope, then the next `Window` messages after the cursor (`Scanned`), then the filter, the read receipts and the browser, which moves its cursor |
| `ReadGame` | the browser learns who is at the table |
| `Report`, `SetTableMute`, `SetTableBlock`, `Join`, `Leave`, `Publish`, `Cleanup` | reports, mutes and blocks, what the game store does to members and scope, retention |
| `Drop` | any refusal, failure or kill |

Abstracted: texts, moderation and phrases (a message is a phrase or free text),
the answer to a report, quotas. Bounds: one reader, one or two writers, two
messages, a page that looks at one position, and five sets of occasions
(`Talks`), because none of the properties is about two of them at once; the
clock stops when a message has expired.

### PublicTables, PublicListing, LobbyInvitations and Discovery

`game`, `rows`, `listing`, `looking`, `invitations`, `blocks` and `receipts` are
tables of the database; `commands` is what browsers have asked for, an ID being
a place in it. The moves of members (`Create`, `JoinByCode`, `Leave`,
`ClaimHost`, `StartGame`, `CloseLobby`) are the one batch that commits them,
with what it does to the listing (`TakenDown`), to the presence of whoever sits
down and to the invitations sent to them (`StopsLooking`): whoever founds a
table gives up presence and pending invitations in the batch that does it, like
whoever joins one.

| Steps | Code |
|---|---|
| `ReadTable`, `Publish`, `Withdraw` | `mutateGameListing`: the reads, then the batch whose guards see the table again |
| `Aim`, `ReadTarget`, `TakeSeat`, `LoseSeat` | `joinPublicRoom` and `quickJoinPublicRoom`: the candidates, the read, the batch, up to `Attempts` reads of each of `Selections` tables |
| `CheckSeeker`, `OptIn`, `OptOut`, `Lapse` | `setLobbyPresence` and `expireLobbyRows` |
| `ReadSeeker`, `Invite`, `ReadInvitation`, `Accept`, `Decline`, `BlockSeeker` | invitations, each command with its reads and its guarded batch |

A batch that finds its guards false still runs the statements guarded by less:
`LoseSeat` and the branches of `Publish` and `Withdraw` say which. A stale
presence is a step of its own (`Lapse`) instead of a clock, and a request that
is refused for it, for a quota, or dies, is `Drop`. The revision that a listing
command expects is left open: one that expects another is refused.

Bounds: three users, two tables of two seats, two invocations, two attempts and
two selections, four moves of one table, and nine mixtures of moves, each with
the commands whose races it is about. Not explored here: rows that a stale copy
leaves behind (`StoreTwin`), which may also seat somebody whose invitations are
pending. Such a row of source "public" would survive a later
join by code, which is why `NoBlockedPairMeets` speaks of users who had no row.

### VoiceSessions and the live-voice stores

`jobs` is `live_voice_cleanup_jobs`, by participant or for the whole room;
`asked` is `requested_at`, from which `expires_at` always is `Retention` away,
`tries` is `attempt_count`, `until` is `next_attempt_at` of a confirmed job, and
a job is `"owed"` or `"confirmed"` (the sentinel, `attempt_count` -1). `voice` is
at the provider: who holds a token that admits, who is connected, and until when
(`cutoff`) it refuses tokens made for a player it was told to remove.

| Steps | Code |
|---|---|
| `AskSession`, `Mint`, `Recheck`, `Reject`, `Deliver`, `DropSession` | `createLiveVoiceSession`: eligibility, the token, eligibility again, then the answer or a job; the request may die at any point |
| `Depart`, `Block`, `Unblock`, `Publish`, `Close`, `Purge`, `Accept` | the batches of other stores that write jobs, or should |
| `BeginSweep`, `ReadJob`, `CallSucceeds`, `CallTimesOut`, `CallFails`, `Confirm`, `Retry`, `Forget`, `CrashSweep` | `reconcileLiveVoiceCleanupJobs`: the time is taken and jobs past their retention are deleted; then, one job at a time, the job that was read, the call, and the update guarded by what was read |
| `Connect`, `Disconnect`, `Expire`, `Obey` | browsers and the provider |
| `Tick` | the clock |

Every request takes the time once, when it begins, and what it writes later it
writes with that time: a command's job has a time of up to `Latency` ago
(`Recently`), and a sweep counts the barrier from its beginning
(`live-voice-cleanup.ts:252` and 319), not from the call, while the provider
counts its cutoff from the call. Commands and requests for tokens are over
within `Latency`; a sweep may take as long as it likes. Two variables are
history: `punctual`, no sweep has taken longer than `Latency` so far, and
`lapsed`, whose job was deleted when it was past its retention. The call to the
provider is cut off after 1.5 seconds, which does not undo it (`CallTimesOut`).

`GivenUp` is what the code lets go after seven days, whether or not the provider
was ever reached; no property says that the provider is reached in the end, and
the documentation does not either (`docs/private-table-communication.md:122-128`).
`Overrun` is the time by which a cutoff may outlast its barrier: a call up to
`Latency` after the beginning of its sweep, confirmed by another sweep that began
up to `Latency` before it.

Abstracted: the retry delays, which only spread the calls; more than one session
of a user; the limit of jobs per sweep; a sweep without provider credentials,
which ends after its deletion as a killed one does. Not modelled: a database that
refuses the job of a token that must not be delivered, where the code calls the
provider directly (`live-voice-store.ts:268-288`). The provider is external.

Bounds: two users, one of whom speaks, one attempt that counts, `Buffer` 2,
`Barrier` 3, `Retention` 4 and `Latency` 1 (60, 61 seconds, 7 days and some
seconds in the code, where the barrier too is longer than the buffer, and longer
than two requests), hence an `Overrun` of 1. `Week` has four evenings of commands
that come together: two sweeps and three units of time where blocks make one job
be asked for again and again; one sweep and four units for departures, closures
and publications; one sweep and five units, past the retention, for purges.
Jobs of different participants do not touch each other.

### RealtimeRoom and TableSync

`RealtimeRoom` is the Durable Object: `Notify` passes a notice on as hints until
`MaxRate` in a second is reached, then once as a resynchronisation; `link` is the
socket that each ticket opened, at most one per ticket and `MaxSockets` per
account. `missed` is a history variable: the notice of the newest revision
reached nobody. A hint says nothing but that something has changed.

`TableSync` is the tab. `poll` is the one read of the game that is under way;
who wants one joins it (`Refresh`), and a hint that comes meanwhile waits for its
end and wants another. The controller (`control`) is that of
`realtime-client.ts`: a ticket, a socket, a catch-up read before it says
"live", reconnection. `command` is the stored command, `activity` and `cursor`
what `game-activity-sync.ts` keeps.

Sockets close, notices and hints are lost or late, answers are lost, polls come
from the timer at any time. Bounds: `Connections`, five tabs: without a
companion, while hints exceed the rate, with a second ticket, with a command of
its own, with two tickets at once; a page of one event.

Seen while modelling, and left as the model shows it: after a failed read for a
hint the controller stays at "fallback" with a healthy socket; the failed
catch-up of an old socket closes the newer one of the same lifecycle; a refresh
after VERSION_CONFLICT may join a read that is older than the conflict; over the
rate, all later notices of a window are dropped after one resynchronisation. In
each case the poll brings the table, which is what `TheTableIsShown` says and
`LiveMeansInformed` does not say of "fallback". The list of activity on the screen
keeps the last twelve lines (`GameShell.tsx:745`, 1593, 1959); `activity` keeps all,
so that `ActivityIsComplete` is about what has been on the screen, and a line may
scroll off before it is read.

## Runs

| Run | Instance | Distinct states | Shows |
|---|---|---|---|
| `EngineTable` | 3 players, 11 cards of every kind, 4 turns | 329,277 | type, the engine's assertion, turn state, the inductive invariant, `NobodyPlaysEmptyHanded`, `UnoLiabilityIsOneCard`, `TurnHolderCanMove`, `WinnerJustified`, `PenaltyOnlyGrows`; the engine implements `RosterMachine` |
| `StoreRace` | 3 users, 2 invocations, 2 to 4 commands | 2,008,786 | `LedgersAgree`, `RowsMatchWithoutCopies`, `FreshBatchFits`, `RoundsAreWins`; the store implements `Room` |
| `StoreTwin` | commands about seats in two copies | | violates `MembersMatchSnapshot`, see below |
| `Life` | 2 in a lobby, 3 at play, 3 after a game, 2 invocations | 2,969,484 | `RecoveryIsOfferedToOne`, `NobodyIsLockedOut`, `HostIsClaimedInTurn`, `NobodyIsRemovedInTouch` |
| `LifeClose` | 1 member, 2 invocations, `FairSpec` | 29,109 | `UnattendedLobbyCloses` |
| `LifeGrace` | 2 members, 1 invocation, a grace of 3 units | | violates `ClosesAfterFullGrace`, see below |
| `Chat` | 2 members, 2 invocations, the five `Talks` | 2,138,369 | `OneMessagePerCommand`, `CooldownHolds`, `NothingIsPassedOver`, `TextStaysPrivate` |
| `ChatDrop` | the same | | violates `PagesAreShown`, see below |
| `Discovery` | 3 users, 2 tables, 2 invocations, the nine `Mixtures` | 505,552 | `ListingIsHonest`, `OneEffectPerCommand`, `PendingInvitationsAreCurrent`, `NoBlockedPairMeets`, `AcceptedAlone` |
| `Voice` | 2 users, 1 or 2 sweeps, 3 to 5 units of time, the four evenings of `Week` | 5,077,138 | `RevocationIsOwed`, `BarrierCoversCutoff`, `JobsStandTheirTime` |
| `VoiceSentinel` | the same | | violates `ConfirmationIsFinal`, see below |
| `Sync` | 1 tab, the five `Connections`, `FairSpec` | 900,622 | `ActivityIsComplete`, `LiveMeansInformed`, `NothingIsTakenBack`, `TheTableIsShown` |

`Remembered` is 64 as in the code. Set to 1 in `StoreRace` with three commands,
TLC finds a copy that is told of a conflict though its twin was accepted: it
looked for its receipt before, and read the row after more commands than the
snapshot remembers. With 64 this takes 64 accepted commands between two
queries of one request.

Symmetry is used over users in the engine run, over invocations in the store and
lifecycle runs, over users, tables and invocations in `Discovery`; no run with
symmetry checks a liveness property. Every property of a passing run can fail:
for each, PROJECT.json names a mutant, a slip in one definition that TLC finds
with that property. Their operators stand before the definitions they mutate.
Deadlock is not checked: bounded commands are answered, bounded clocks stop, a
room is empty, and nothing is left to do.

### Fairness

`LifeClose`: time goes on, an invocation ends, requests to the service never
cease, so that the gate is passed now and then (maintenance has no timer of its
own, and without requests nothing is ever closed), and not every pass is killed
before its next query.

`Sync`: the poll timer fires (`WF` of `Poll`), and not every read is lost or times
out (`SF` of `ReadRow`, `ReadEvents` and `Answered`). Nothing is asked of the companion
Worker, of sockets or of hints: polling alone is enough.

No liveness is claimed of voice: sweeps are driven by requests, retries end with
the retention of a job, and the documentation calls the missing schedule a launch
blocker.

## Findings

`docs/architecture.md:14` says that one guarded batch writes receipt, event,
membership metadata and snapshot "only when the stored revision and hash still
match". The membership statements are guarded by the receipt alone
(`guardedMembershipUpsertStatement`). `StoreTwin` shows the consequence: the
first copy of a retried command is slow, its twin is accepted, somebody leaves,
and the slow batch then writes the membership of the older snapshot, so that
the player who left has an active row. The next accepted game command puts the
rows right. Until then they are wrong, and with one more command TLC finds a
join that runs into the seat index because of such a row.

`docs/v1.5-open-tables-safe-talk.md:177` says that a lobby closes when it had no
live or reconnecting member for five minutes. A command writes the presence of
its actor before it can be refused, and a refusal leaves `abandoned_since` alone.
`LifeGrace` shows a lobby that is marked, then visited by a member whose command
is refused, and closed by the first pass after that member has been silent for
the disconnection time, because the old mark counts. It takes that no pass runs
while the member is live; a browser that is open also sends heartbeats, which
clear the mark.

`docs/v1.6.3-realtime-updates.md:11` says that "Focus, visibility, online,
reconnect, duplicate hints, and out-of-order HTTP responses all converge through
the same monotonic refresh boundary." In `GameShell.tsx`
the poll of the chat keeps only messages whose sender is a player of the view
then shown (line 1205), and moves its cursor to the end of the page all the same
(line 1231). `ChatDrop` shows somebody who sits down and speaks before a tab has
read the table again: the tab passes the message over, and no later page holds
it. It is there again after a reload.

`docs/private-table-communication.md:88` says that the sentinel of a confirmed
revocation "expires without issuing a second revocation or sliding the cutoff".
The update after a failed call (`live-voice-cleanup.ts:338`) is guarded by the
job and its `requested_at`, not by the attempt that was read. `VoiceSentinel`
shows two sweeps that have read the same job: one call succeeds and the job is
confirmed, the slower one fails and puts the job back among those owed, and a
third call is made. Nobody is admitted because of it; the cost is a revocation
that is not needed.

Smaller observations, none of which has a run. `docs/private-table-communication.md:87-88`
says that a confirmed revocation bars new tokens "for 61 seconds after LiveKit's
provider-clock cutoff"; the code counts them from the beginning of the sweep, before
a deletion, a query and the call. When these take longer than the second by which
the barrier exceeds the provider's buffer, the barrier ends first, and a token that
is handed out then is refused: TLC finds it with `Overrun` set to 0, and
`BarrierCoversCutoff` says by how much at most. A host claim or a removal whose
batch was refused for presence is answered VERSION_CONFLICT with the version it was
made on; it is the one conflict that a copy of the same command may still overturn.
A withdrawal of a listing whose
twin was accepted takes down a later publication, since the statements on the
listing are guarded by the table alone (`Withdraw`). A copy of a public join, or
of an acceptance, that is overtaken by its twin may be told that the table is not
available although its user sits there. Accepting an invitation turns
`public_safe` on without writing voice jobs; the browser's roster refresh, every
20 seconds, catches it. A block given at one table writes no voice job at another
at which the two also sit.

## Proofs

Each component that is proved about has one inductive invariant, from which its
properties follow. Assumptions are those named in the modules, and TLC evaluates
them in the runs: finite sets of users, a `null` that is none of them, limits in
the order that the code gives them.

### ShedEngineProofs

For any finite set of users, any deck that satisfies `DeckAssumption`, and any
limits that satisfy `LimitsAssumption`:

    THEOREM Safety == Spec => []InductiveInvariant

`InductiveInvariant` is the conjunction of the type invariant, the engine's
own assertion, `SeatsDistinct`, `TurnStateConsistent`,
`UnoLiabilityIsOneCard`, `NobodyPlaysEmptyHanded` and `CardsOnlyInPlay`. None of
the first six is inductive alone: that the next player is active needs distinct
seats; that rotating hands conserves cards needs `NextActive` backwards to be
the inverse of `NextActive` forwards (`NextActiveInverse`, from `AheadBounds`),
which again needs them; that a knock-out leaves a winner with cards needs
`NobodyPlaysEmptyHanded`; that a lobby can be dealt needs `CardsOnlyInPlay`. The
corollaries `TypeCorrect`, `AssertionNeverFires`, `SeatsStayDistinct`,
`TurnStaysConsistent`, `LiabilityIsOneCard` and `NoEmptyHandPlays` are the
properties of the runs, for every instance.

There is one lemma per action (`...IsSafe`), under it a step per conjunct, and
lemmas for what several actions share: where cards go when they are drawn
(`TakeCardsConserves`), discarded (`DiscardConserves`) or given up
(`HandToReserveConserves`), that hands are permuted (`HandsArePermuted`), and
what follows when the drawer stays in or is knocked out
(`DrawerStaysIsSafe`, `DrawerKnockedOutIsSafe`).

Three more properties follow from the invariant and the step. `NobodyIsStuck`
counts: each hand in play is below the mercy limit, so the cards that the others
hold can be injected into chairs times numbers, and what `DeckAssumption` adds to
that leaves enough in the piles to fill the hand of whoever has to draw
(`Numbering`, `OthersHoldAtMost`, `PilesFillOneHand`). `PenaltiesOnlyGrow` needs
only that a play is the one command that leaves a penalty standing and changes
it. `WinnersAreJustified` is inductive together with the invariant, because a
table that is not complete has no winner.

### The engine implements RosterMachine

`EngineImplementsRoster == Spec => ImplementsRoster`. The state of `RosterMachine`
is a function of the engine's, and each command is mapped to the outcome of
`Roster` that it makes. What has to be shown is where the two compute the same
thing differently: the lowest seat is unique because seats are distinct, and a
game that is settled names the only one left.

### RosterProofs and GameStoreProofs

`OutcomesAreSound` says what the server may rely on, whatever a command makes of
a table: the result is of the right type, somebody is present unless somebody has
left, a finished game has a winner, whoever joins plays, and nobody is forgotten.
`OutcomesAreOrderly` adds what the store's rows and the host claims rest on: if no
two who are not absent had one seat, none have afterwards, and only a claim takes
the host from somebody who stays.

For any finite sets of users and invocations, any number of seats and commands and
any scenarios: `StoreIsSound` (the invariant `StoreInvariant`), and from it
`StoreIsTyped`, `LedgersAlwaysAgree`, `RowsMatchTheSnapshot`, `RoundsAreAlwaysWins`
and `FreshBatchesAlwaysFit`. The argument for retries and races is this.

- A command that was accepted, or told of a conflict, is late for ever: the version
  it was made on is smaller than the current one (`PendingIsSound`). So a copy that
  found no receipt either commits, or finds out that it cannot. The exception is a
  claim or a removal that presence refused at a version that is still current
  (`Early`): it is not accepted, and late as soon as anything else is.
- Two invocations with the same command ID carry the same command, and the same
  outcome if it is to leave (`Copies`); they stand for what their client has stored
  (`StandsFor`). A join is never sent twice.
- What an invocation has read is an outcome at the version it has read, and as long
  as this is the current one an outcome of the table (`ReadIsSound`).
- A stale batch writes membership rows only for a command whose copy was accepted;
  without copies there is none (`RequestIsSound`).
- An open room has somebody with an active row, so that a closure by maintenance
  only ever meets a lobby, and every event of an open room has a receipt.

There is one lemma per step for what it does to the clients, one for rows and one
for ledgers (`ClientsAdvance`, `CommitRows`, `CommitLedgers` and what they
rest on).

That a batch which is still current cannot run into the index on seats needs a
second invariant, `RowsFit`: seats are apart in the snapshot, they are in the rows,
and without copies the rows are those of the snapshot. What such a batch upserts is
then what an orderly outcome of the table says. A stale batch that writes rows all
the same is that of a copy, and the index refuses it if seats collide.

### The store implements Room

`StoreImplementsRoom` maps what was applied to the receipts, what was confirmed to
the accepted answers, what was denied to the conflicts, and what of it is early to
those conflicts of claims and removals whose version is still current. What is early
may be applied to the table as it is, and nothing is early once anything is applied,
so that every other conflict is final. It assumes
`EnoughIsRemembered`, that no more commands are accepted than a snapshot
remembers; without it the refinement is false, as said under Runs. That an open
room has forgotten nothing is then a matter of counting: its events have
different commands, all of them issued (`KnownIsProcessed`).

### VoiceSessionsProofs

For any users, sweeps and evenings, and any lengths of time with the buffer longer
than a request and the barrier longer than two: `VoiceIsConsistent` (the
invariant), `RevocationIsAlwaysOwed` (whoever can speak without the right to has a
job that is owed, or was given up), `BarrierAlwaysCoversCutoff` (while the provider
refuses a player's tokens, a job keeps new ones from being given out, but for the
`Overrun` at its end) and `JobsAlwaysStandTheirTime` (no job goes before its time is
over). The invariant has to say what makes a confirmation true when several sweeps
and new departures meet: a confirmed job is that of somebody the provider has
silenced (`ConfirmedIsSilent`); a call that succeeded silences whoever its job names,
unless the job is past its retention or has become younger meanwhile, in which case
the update that is guarded by `requested_at` will miss it (`CallsSilence`, `Outdated`);
and no token is made while the provider refuses it, which it does for a `Buffer` from
the call and so from the time at which the job was asked for (`CutoffsAreKept`).

The other two need sweeps that are punctual, and a second invariant
(`BarrierInvariant`): a call is made for a job that is there, and if another sweep
has confirmed that job, the call's own sweep began not much earlier
(`CallsHaveAJob`); a sweep that is about to forget a job takes it for no other
(`OverIsOver`); a confirmed job stands long enough after what was asked, and after
the cutoff but for twice the `Latency` and the `Buffer` (`ConfirmedStands`); and
without a job, a cutoff is near its end (`CutoffsEnd`).

### DiscoveryProofs

For any finite set of users, any tables of at least two seats, any numbers of
invocations, attempts and selections, and any mixture of moves: `DiscoveryIsSound`
(the invariant), `DiscoveryIsTyped`, `ListingStaysHonest`, `CommandsHaveOneEffect`,
`InvitationsStayCurrent`, `BlockedPairsNeverMeet` and `AcceptanceLeavesNothing`. The
invariant has five parts. What a request holds is what its place in the code says it
has read. A table that is open has its host seated, whoever is seated has a row, and
a listed table is honest; that a seat can be taken needs the last of these to hold
of the rows and not only of the snapshot. An invitation has one ID, and one that is
pending is current. Nobody who sits at an open table has a pending invitation
(`SeatedAreUninvited`): every batch that seats somebody, from `Create` to `Accept`,
ends what was sent to them, and `Invite` looks at the seats again. A receipt has one
ID, and those of publications and withdrawals bear the table of their command, which
is why the twins of a withdrawal write the same receipt. There is one lemma per
step, and lemmas for what moves of members leave alone.

### RoomLifecycleProofs

For any finite set of users, any seats, any lengths of the windows that
`LifecycleAssumption` allows and any scenarios: `LifecycleIsSound` (the invariant
`LifeInvariant`), `LifecycleIsTyped`, `NobodyIsEverLockedOut`, `HostsAreClaimedInTurn`,
`NobodyInTouchIsRemoved` and `RecoveryIsAlwaysOfferedToOne`.

The policies look at `seen`, the presence row; the properties speak of `contact`,
the time since a member last asked for anything. The invariant says that the row
is behind by no more than an invocation takes (`SeenIsClose`). It is not inductive
alone, because an accepted command clears nothing in the row of its actor: it has
to be known that a command which may still commit has touched the row before, or
that its actor has been silent no longer than the invocation has run
(`RequestIsSound`). This in turn fails for somebody who leaves and comes back
while an old command is on its way, except that leaving made the command stale.
That exactly one member is offered the host needs `SeatsApart`, from
`OutcomesAreOrderly`: two members as far from the host would share a seat.

### TableSyncProofs

For any number of tickets, moves, hints and revisions, any page and any limits of
the companion: `SyncIsSound` (the invariant `SyncInvariant`), `SyncIsTyped`,
`ActivityIsAlwaysComplete`, `LiveAlwaysMeansInformed` and `NothingIsEverTakenBack`.

A poll was asked for with a cursor that is not beyond what is shown now
(`PollIsSound`), so the events that it brings overlap what is shown or follow it;
that is why no answer leaves a gap. `NewsIsOnItsWay` is the argument for slow
polling. Whatever is newer than the table shown is in a notice, a frame, the
queue, or in a read for which somebody waits who stops being live if it fails; and
it has to be said of a socket from the moment on at which a read waits for it, not
only when the controller calls itself live.

The proof corrected the property. With three tickets and two revisions two attempts
to connect may be under way at once. The first socket is caught up by a read that is
older than the newest revision, and the controller is live; then the second ticket
opens another socket, which replaces the first, and with it the hint that the first
had been sent. The controller is live on a socket of which it has not seen the first
frame yet, and only that frame makes it read again. So "on its way" includes the
first frame (`link[k].ready`). TLC confirms this behaviour, of 20 states, for the
property without it. None of the `Connections` has three tickets together with a
second revision, since the whole of that instance takes too long; the theorem
covers it.

### TableChatProofs

For any users and invocations, any page, cooldown and retention that
`ChatAssumption` allows: `ChatIsSound` (the invariant `ChatInvariant`),
`MessagesAreSaidOnce`, `CooldownAlwaysHolds`, `NothingIsEverPassedOver` and
`TextAlwaysStaysPrivate`.

- Receipts and messages expire at the same age and are deleted separately, so
  neither implies the other: a message without a receipt, or a receipt without a
  message, is one whose retention is over (`LedgersAgree`).
- An invocation which found no receipt when it began may meet one when it writes.
  That receipt is not older than the invocation by more than `Latency`, and no
  invocation lives longer, so its retention is not over as long as it is more than
  twice that time (24 hours against the seconds of a Worker invocation), and the
  message is still there (`SendingIsSound`, `KnownIsStored`). The unique index then
  refuses the second copy. So whatever is written has passed the guard of the
  receipt (`WriteIsAccepted`), from which the cooldown and the privacy follow.
- What a page leaves out before its last position is nothing its reader could have
  been given, because the first few of a set of positions are its beginning
  (`PageIsBeginning`).
- Free text is on a page only if the table was private when the request looked.
  Whoever comes in from the listing while it is on its way has no such page,
  because a browser that joins has aborted its polls (`ListingIsSound`).

### Only model-checked

The liveness properties (`UnattendedLobbyCloses`, `TheTableIsShown`)
are outside of what the prover treats, as is induction over recursive definitions,
of which there are none. Of the safety properties that the passing runs check each
is a theorem.

## Not modelled

Pure functions and texts: the projection for a viewer, the parser's validation,
response codes, the rules guide, moderation of names and messages. Wording and
layout: the browser's rendering, audio, and the state of the microphone.
Authentication reads trusted headers. Mutation quotas are one upsert per fixed
window; a refusal is, for everything modelled here, a request that was dropped.
The acceptance scripts under `src/scripts` drive a deployed service and are not
part of it. Routes that only parse and call a store are the guard of the step that
they serve. The store's series view is a read-only projection.

## Plan

1. That `RealtimeRoom` and `TableSync` together implement a browser that reads at
   will: what the companion adds is only when a read is asked for.
2. `TableChat`: an abstract specification of a conversation, in which a message is
   said once and read in order, and that the chat implements it for browsers that
   know who is at the table.
3. The live voice controller of the browser, a candidate for a module of its own.
