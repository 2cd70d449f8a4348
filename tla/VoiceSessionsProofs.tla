------------------------- MODULE VoiceSessionsProofs -------------------------
(***************************************************************************)
(* For any number of users and of requests that sweep at once: whoever has *)
(* lost the right to speak, and can, has a job that will end it; and where *)
(* no sweep takes too long, a job bars new tokens for as long as the       *)
(* provider refuses them, but for a bounded time at the end.               *)
(***************************************************************************)
EXTENDS VoiceSessions, TLAPS

TimesAreOrdered ==
  /\ \A k \in Keys : jobs[k].asked <= clock
  /\ \A u \in Users : session[u].pc # "idle" =>
       session[u].now <= clock /\ clock <= session[u].now + Latency
  /\ \A s \in Sweepers : sweep[s].now <= clock /\ sweep[s].read.asked <= clock

TableIsConsistent ==
  /\ table.members \subseteq table.players
  /\ table.listed => table.scope = "public_safe"

\* no token is made while the provider refuses it, and it does so for a while
\* after every call
CutoffsAreKept ==
  /\ \A u \in Users : session[u].pc \in {"minted", "granted"} /\ ~session[u].dead =>
       voice.cutoff[u] <= clock
  /\ \A s \in Sweepers : \A u \in Users : sweep[s].pc = "done" /\ sweep[s].key = u =>
       sweep[s].read.asked + Buffer <= voice.cutoff[u]

\* nothing that is there, or may come, can be taken for the request that s read
Outdated(s) ==
  /\ sweep[s].read.asked + Latency < clock
  /\ Pending(sweep[s].key) =>
       sweep[s].read.asked < jobs[sweep[s].key].asked \/ Expired(sweep[s].key, clock)

\* a player who can speak after a call has succeeded was admitted after it
CallsSilence ==
  \A s \in Sweepers : \A u \in Users :
    sweep[s].pc = "done" /\ sweep[s].key = u => ~CanSpeak(u) \/ Outdated(s)

ConfirmedIsSilent ==
  \A u \in Users : jobs[u].state = "confirmed" => ~CanSpeak(u) \/ Expired(u, clock)

VoiceInvariant ==
  /\ TypeOK /\ TimesAreOrdered /\ TableIsConsistent /\ CutoffsAreKept
  /\ CallsSilence /\ ConfirmedIsSilent /\ RevocationIsOwed

-----------------------------------------------------------------------------
\* What the constants are, for the provers.
LEMMA Constants ==
  /\ Buffer \in Nat /\ Barrier \in Nat /\ Retention \in Nat /\ Latency \in Nat /\ MaxTries \in Nat
  /\ Buffer > Latency /\ Barrier > 2 * Latency
  /\ "room" \notin Users /\ "room" \in Keys /\ Users \subseteq Keys
  /\ \A k \in Keys : k # "room" => k \in Users
BY VoiceAssumption DEF Keys

\* At first nobody is in a call and no job is owed.
LEMMA InitHasInvariant == Init => VoiceInvariant
<1>. SUFFICES ASSUME Init PROVE VoiceInvariant
  OBVIOUS
<1>1. NoJob \in Job /\ NoJob.asked = 0 /\ NoJob.state = "none" /\ NoSession \in Request
      /\ NoSession.pc = "idle" /\ Resting \in Pass /\ Resting.pc = "idle" /\ Resting.now = 0
      /\ Resting.read = NoJob
  BY Constants DEF NoJob, NoSession, Resting, Job, Request, Pass
<1>2. /\ clock = 0 /\ punctual = TRUE /\ lapsed = {} /\ evening \in Evenings
      /\ jobs \in [Keys -> Job] /\ \A k \in Keys : jobs[k] = NoJob
      /\ session \in [Users -> Request] /\ \A u \in Users : session[u] = NoSession
      /\ sweep \in [Sweepers -> Pass] /\ \A s \in Sweepers : sweep[s] = Resting
      /\ voice \in [held: SUBSET Users, on: SUBSET Users, cutoff: [Users -> Nat]]
      /\ voice.held = {} /\ voice.on = {}
  BY <1>1 DEF Init
<1>3. table \in TableRow /\ TableIsConsistent /\ \A u \in Users : ~Barred(u)
  BY DEF Init, TableRow, TableIsConsistent, Barred, Apart
<1>4. TypeOK
  BY <1>2, <1>3 DEF TypeOK
<1>5. \A u \in Users : ~CanSpeak(u)
  BY <1>1, <1>2 DEF CanSpeak
<1>6. TimesAreOrdered /\ CutoffsAreKept /\ CallsSilence /\ ConfirmedIsSilent /\ RevocationIsOwed
  BY <1>1, <1>2, <1>5 DEF TimesAreOrdered, CutoffsAreKept, CallsSilence, ConfirmedIsSilent, RevocationIsOwed
<1>. QED  BY <1>3, <1>4, <1>6 DEF VoiceInvariant

\* What is asked for now is younger than anything from before the last Latency.
LEMMA WorkIsRecent ==
  ASSUME TypeOK, TimesAreOrdered, NEW S \in SUBSET Keys, NEW now \in Recently,
         Enqueue(S, now) \/ EnqueueMissing(S, now)
  PROVE  /\ jobs' \in [Keys -> Job] /\ lapsed' = lapsed \ S
         /\ \A k \in Keys :
              \/ jobs'[k] = jobs[k] /\ (k \in S => Pending(k))
              \/ /\ jobs'[k].state = "owed" /\ jobs'[k].asked <= clock
                 /\ clock <= jobs'[k].asked + Latency
                 /\ Pending(k) => jobs[k].asked <= jobs'[k].asked
<1>1. clock \in Nat /\ now \in Nat /\ now <= clock /\ clock <= now + Latency
  BY Constants DEF TypeOK, Recently
<1>2. jobs \in [Keys -> Job] /\ \A k \in Keys : jobs[k] \in Job /\ jobs[k].asked \in Nat /\ jobs[k].asked <= clock
  BY DEF TypeOK, TimesAreOrdered, Job
<1>3. NoJob \in Job /\ NoJob.asked = 0
  BY DEF NoJob, Job
<1>4. ASSUME NEW job \in Job, job.asked <= clock
      PROVE  /\ Upsert(job, now) \in Job /\ Upsert(job, now).state = "owed"
             /\ Upsert(job, now).asked <= clock /\ clock <= Upsert(job, now).asked + Latency
             /\ job.asked <= Upsert(job, now).asked
  <2>1. job.asked \in Nat
    BY DEF Job
  <2>2. PICK asked \in Nat : /\ asked = IF job.asked > now THEN job.asked ELSE now
                             /\ now <= asked /\ asked <= clock /\ job.asked <= asked
    BY <1>1, <1>4, <2>1
  <2>3. Upsert(job, now) = [state |-> "owed", asked |-> asked, tries |-> 0, until |-> 0]
    BY <2>2, Zenon DEF Upsert
  <2>4. clock <= asked + Latency
    BY <1>1, <2>2, Constants
  <2>. QED  BY <2>2, <2>3, <2>4 DEF Job
<1>5. lapsed' = lapsed \ S
  BY DEF Enqueue, EnqueueMissing
<1>6. CASE Enqueue(S, now)
  BY <1>2, <1>4, <1>5, <1>6 DEF Enqueue
<1>7. CASE EnqueueMissing(S, now)
  <2>1. jobs' = [k \in Keys |-> IF k \in S /\ ~Pending(k) THEN Upsert(NoJob, now) ELSE jobs[k]]
    BY <1>7 DEF EnqueueMissing
  <2>2. /\ Upsert(NoJob, now) \in Job /\ Upsert(NoJob, now).state = "owed"
        /\ Upsert(NoJob, now).asked <= clock /\ clock <= Upsert(NoJob, now).asked + Latency
    BY <1>1, <1>3, <1>4
  <2>. QED  BY <1>2, <1>5, <2>1, <2>2
<1>. QED  BY <1>6, <1>7

\* Work that is added disturbs no sweep, and stands for those it is added for.
LEMMA WorkIsAdded ==
  ASSUME VoiceInvariant, NEW S \in SUBSET Keys, NEW now \in Recently,
         Enqueue(S, now) \/ EnqueueMissing(S, now),
         UNCHANGED <<time, sweep, voice>>,
         session' \in [Users -> Request],
         \A u \in Users : \/ session'[u] = session[u]
                          \/ session[u].pc = "rejected" /\ session'[u].pc = "idle",
         table' \in TableRow, TableIsConsistent',
         \A u \in Users : Barred(u)' => Barred(u) \/ u \in S
  PROVE  VoiceInvariant'
<1>1. /\ jobs' \in [Keys -> Job] /\ lapsed' = lapsed \ S
      /\ \A k \in Keys :
           \/ jobs'[k] = jobs[k] /\ (k \in S => Pending(k))
           \/ /\ jobs'[k].state = "owed" /\ jobs'[k].asked <= clock
              /\ clock <= jobs'[k].asked + Latency
              /\ Pending(k) => jobs[k].asked <= jobs'[k].asked
  BY WorkIsRecent DEF VoiceInvariant
<1>2. clock' = clock /\ punctual' = punctual /\ evening' = evening /\ clock \in Nat
  BY DEF VoiceInvariant, TypeOK, time
<1>3. \A u \in Users : CanSpeak(u)' => CanSpeak(u)
  BY DEF CanSpeak
<1>4. /\ \A k \in Keys : jobs[k] \in Job /\ jobs[k].asked \in Nat /\ jobs'[k].asked \in Nat
      /\ \A s \in Sweepers : sweep[s].key \in Keys /\ sweep[s].read.asked \in Nat
  BY <1>1 DEF VoiceInvariant, TypeOK, Job, Pass
<1>5. TypeOK'
  BY <1>1, <1>2 DEF VoiceInvariant, TypeOK, time
<1>6. TimesAreOrdered'
  BY <1>1, <1>2 DEF VoiceInvariant, TimesAreOrdered
<1>7. CutoffsAreKept'
  BY <1>2 DEF VoiceInvariant, CutoffsAreKept
<1>8. CallsSilence'
  <2>. SUFFICES ASSUME NEW s \in Sweepers, NEW u \in Users,
                       sweep[s].pc = "done", sweep[s].key = u, CanSpeak(u)
                PROVE  Outdated(s)'
    BY <1>3 DEF CallsSilence
  <2>1. Outdated(s)
    BY DEF VoiceInvariant, CallsSilence
  <2>2. CASE jobs'[u] = jobs[u]
    BY <1>2, <2>1, <2>2 DEF Outdated, Pending, Expired
  <2>3. CASE clock <= jobs'[u].asked + Latency
    BY <1>2, <1>4, <2>1, <2>3, Constants DEF Outdated, Pending, Expired
  <2>. QED  BY <1>1, <2>2, <2>3, Constants
<1>9. ConfirmedIsSilent'
  <2>. SUFFICES ASSUME NEW u \in Users, jobs'[u].state = "confirmed", CanSpeak(u)
                PROVE  Expired(u, clock)'
    BY <1>3 DEF ConfirmedIsSilent
  <2>1. jobs'[u] = jobs[u]
    BY <1>1, Constants
  <2>. QED  BY <1>2, <2>1 DEF VoiceInvariant, ConfirmedIsSilent, Expired, Pending
<1>10. RevocationIsOwed'
  <2>. SUFFICES ASSUME NEW u \in Users, Barred(u)', CanSpeak(u), jobs'[u].state # "owed"
                PROVE  GivenUp(u)'
    BY <1>3 DEF RevocationIsOwed
  <2>1. jobs'[u] = jobs[u] /\ (u \in S => Pending(u))
    BY <1>1, Constants
  <2>2. CASE u \in S
    <3>1. jobs[u].state = "confirmed"
      BY <1>4, <2>1, <2>2, Constants DEF Pending, Job
    <3>. QED  BY <1>2, <2>1, <3>1 DEF VoiceInvariant, ConfirmedIsSilent, GivenUp, Expired, Pending
  <2>3. CASE u \notin S
    BY <1>1, <1>2, <2>1, <2>3 DEF VoiceInvariant, RevocationIsOwed, GivenUp, Expired, Pending
  <2>. QED  BY <2>2, <2>3
<1>. QED  BY <1>5, <1>6, <1>7, <1>8, <1>9, <1>10 DEF VoiceInvariant

\* A change of the table that takes nothing from anybody needs no work.
LEMMA TableChangesAlone ==
  ASSUME VoiceInvariant, UNCHANGED <<evening, clock, punctual, jobs, lapsed, session, sweep, voice>>,
         table' \in TableRow, TableIsConsistent',
         \A u \in Users : Barred(u)' => Barred(u)
  PROVE  VoiceInvariant'
<1>1. \A u \in Users : CanSpeak(u)' = CanSpeak(u)
  BY DEF CanSpeak
<1>2. TypeOK' /\ TimesAreOrdered' /\ CutoffsAreKept'
  BY DEF VoiceInvariant, TypeOK, TimesAreOrdered, CutoffsAreKept
<1>3. ConfirmedIsSilent' /\ RevocationIsOwed'
  BY <1>1 DEF VoiceInvariant, ConfirmedIsSilent, RevocationIsOwed, GivenUp, Expired, Pending
<1>4. CallsSilence'
  BY <1>1 DEF VoiceInvariant, CallsSilence, Outdated, Expired, Pending
<1>. QED  BY <1>2, <1>3, <1>4 DEF VoiceInvariant

-----------------------------------------------------------------------------
\* Whoever departs has a job that is owed.
LEMMA DepartIsSafe == ASSUME VoiceInvariant, NEW u \in Users, Depart(u) PROVE VoiceInvariant'
<1>. DEFINE rest == table.members \ {u}
            S == {u} \cup IF rest = {} THEN table.players \cup {"room"} ELSE {}
<1>1. PICK players \in {table.players, table.players \ {u}}, now \in Recently :
        /\ table' = [table EXCEPT !.members = rest, !.players = players, !.open = rest # {}]
        /\ Enqueue(S, now)
        /\ UNCHANGED <<time, session, sweep, voice>>
  BY DEF Depart
<1>2. S \in SUBSET Keys
  BY DEF VoiceInvariant, TypeOK, TableRow, Keys
<1>3. table' \in TableRow /\ TableIsConsistent'
  BY <1>1 DEF VoiceInvariant, TypeOK, TableRow, TableIsConsistent
<1>4. \A v \in Users : Barred(v)' => Barred(v) \/ v \in S
  BY <1>1 DEF Barred, Apart, VoiceInvariant, TypeOK, TableRow
<1>5. /\ session' \in [Users -> Request] /\ UNCHANGED <<time, sweep, voice>>
      /\ \A v \in Users : session'[v] = session[v]
  BY <1>1 DEF VoiceInvariant, TypeOK
<1>. HIDE DEF S
<1>. QED  BY <1>1, <1>2, <1>3, <1>4, <1>5, WorkIsAdded

\* A table that is published revokes everybody.
LEMMA PublishIsSafe == ASSUME VoiceInvariant, Publish PROVE VoiceInvariant'
<1>. DEFINE S == table.players \cup {"room"}
<1>1. PICK now \in Recently :
        /\ table' = [table EXCEPT !.listed = TRUE, !.scope = "public_safe"]
        /\ Enqueue(S, now)
        /\ UNCHANGED <<time, session, sweep, voice>>
  BY DEF Publish
<1>2. S \in SUBSET Keys
  BY DEF VoiceInvariant, TypeOK, TableRow, Keys
<1>3. table' \in TableRow /\ TableIsConsistent'
  BY <1>1 DEF VoiceInvariant, TypeOK, TableRow, TableIsConsistent
<1>4. \A v \in Users : Barred(v)' => Barred(v) \/ v \in S
  BY <1>1 DEF Barred, Apart, VoiceInvariant, TypeOK, TableRow, TableIsConsistent
<1>5. /\ session' \in [Users -> Request] /\ UNCHANGED <<time, sweep, voice>>
      /\ \A v \in Users : session'[v] = session[v]
  BY <1>1 DEF VoiceInvariant, TypeOK
<1>. HIDE DEF S
<1>. QED  BY <1>1, <1>2, <1>3, <1>4, <1>5, WorkIsAdded

\* A room that is closed revokes everybody.
LEMMA CloseIsSafe == ASSUME VoiceInvariant, Close PROVE VoiceInvariant'
<1>. DEFINE S == table.players \cup {"room"}
<1>1. PICK now \in Recently :
        /\ table' = [table EXCEPT !.open = FALSE]
        /\ Enqueue(S, now)
        /\ UNCHANGED <<time, session, sweep, voice>>
  BY DEF Close
<1>2. S \in SUBSET Keys
  BY DEF VoiceInvariant, TypeOK, TableRow, Keys
<1>3. table' \in TableRow /\ TableIsConsistent'
  BY <1>1 DEF VoiceInvariant, TypeOK, TableRow, TableIsConsistent
<1>4. \A v \in Users : Barred(v)' => Barred(v) \/ v \in S
  BY <1>1 DEF Barred, Apart, VoiceInvariant, TypeOK, TableRow, TableIsConsistent
<1>5. /\ session' \in [Users -> Request] /\ UNCHANGED <<time, sweep, voice>>
      /\ \A v \in Users : session'[v] = session[v]
  BY <1>1 DEF VoiceInvariant, TypeOK
<1>. HIDE DEF S
<1>. QED  BY <1>1, <1>2, <1>3, <1>4, <1>5, WorkIsAdded

\* A purge writes the jobs first.
LEMMA PurgeIsSafe == ASSUME VoiceInvariant, Purge PROVE VoiceInvariant'
<1>. DEFINE S == table.players \cup {"room"}
<1>1. PICK now \in Recently :
        /\ table' = [table EXCEPT !.open = FALSE, !.members = {}]
        /\ EnqueueMissing(S, now)
        /\ UNCHANGED <<time, session, sweep, voice>>
  BY DEF Purge
<1>2. S \in SUBSET Keys
  BY DEF VoiceInvariant, TypeOK, TableRow, Keys
<1>3. table' \in TableRow /\ TableIsConsistent'
  BY <1>1 DEF VoiceInvariant, TypeOK, TableRow, TableIsConsistent
<1>4. \A v \in Users : Barred(v)' => Barred(v) \/ v \in S
  BY <1>1 DEF Barred, Apart, VoiceInvariant, TypeOK, TableRow, TableIsConsistent
<1>5. /\ session' \in [Users -> Request] /\ UNCHANGED <<time, sweep, voice>>
      /\ \A v \in Users : session'[v] = session[v]
  BY <1>1 DEF VoiceInvariant, TypeOK
<1>. HIDE DEF S
<1>. QED  BY <1>1, <1>2, <1>3, <1>4, <1>5, WorkIsAdded

\* A block revokes both.
LEMMA BlockIsSafe ==
  ASSUME VoiceInvariant, NEW u \in Users, NEW w \in Users, Block(u, w) PROVE VoiceInvariant'
<1>. DEFINE S == {u, w}
<1>1. PICK now \in Recently :
        /\ table' = [table EXCEPT !.blocks = @ \cup {<<u, w>>}]
        /\ Enqueue(S, now)
        /\ UNCHANGED <<time, session, sweep, voice>>
  BY DEF Block
<1>2. S \in SUBSET Keys
  BY DEF Keys
<1>3. table.blocks \cup {<<u, w>>} \in SUBSET (Users \X Users)
  BY DEF VoiceInvariant, TypeOK, TableRow
<1>4. table' \in TableRow /\ TableIsConsistent'
  BY <1>1, <1>3 DEF VoiceInvariant, TypeOK, TableRow, TableIsConsistent
<1>5. \A v \in Users : Barred(v)' => Barred(v) \/ v \in S
  BY <1>1 DEF Barred, Apart, VoiceInvariant, TypeOK, TableRow
<1>6. /\ session' \in [Users -> Request] /\ UNCHANGED <<time, sweep, voice>>
      /\ \A v \in Users : session'[v] = session[v]
  BY <1>1 DEF VoiceInvariant, TypeOK
<1>. HIDE DEF S
<1>. QED  BY <1>1, <1>2, <1>4, <1>5, <1>6, WorkIsAdded

\* Lifting a block gives a right back, which needs no job.
LEMMA UnblockIsSafe ==
  ASSUME VoiceInvariant, NEW u \in Users, NEW w \in Users, Unblock(u, w) PROVE VoiceInvariant'
<1>1. /\ table' = [table EXCEPT !.blocks = @ \ {<<u, w>>}]
      /\ UNCHANGED <<evening, clock, punctual, jobs, lapsed, session, sweep, voice>>
  BY DEF Unblock, time, outbox
<1>2. table.blocks \ {<<u, w>>} \in SUBSET (Users \X Users)
  BY DEF VoiceInvariant, TypeOK, TableRow
<1>3. table' \in TableRow /\ TableIsConsistent'
  BY <1>1, <1>2 DEF VoiceInvariant, TypeOK, TableRow, TableIsConsistent
<1>4. \A v \in Users : Barred(v)' => Barred(v)
  BY <1>1 DEF Barred, Apart, VoiceInvariant, TypeOK, TableRow
<1>. QED  BY <1>1, <1>3, <1>4, TableChangesAlone

\* Somebody who comes from the lobby bars nobody who was not barred.
LEMMA AcceptIsSafe == ASSUME VoiceInvariant, Accept PROVE VoiceInvariant'
<1>1. /\ table' = [table EXCEPT !.stranger = TRUE, !.scope = "public_safe"]
      /\ UNCHANGED <<evening, clock, punctual, jobs, lapsed, session, sweep, voice>>
  BY DEF Accept, time, outbox
<1>2. table' \in TableRow /\ TableIsConsistent'
  BY <1>1 DEF VoiceInvariant, TypeOK, TableRow, TableIsConsistent
<1>3. \A v \in Users : Barred(v)' => Barred(v)
  BY <1>1 DEF Barred, Apart, VoiceInvariant, TypeOK, TableRow
<1>. QED  BY <1>1, <1>2, <1>3, TableChangesAlone

-----------------------------------------------------------------------------
\* While the outbox stays, a step that admits nobody, and moves a sweep no
\* further than its call, leaves all as it is.
LEMMA NobodyIsAdmitted ==
  ASSUME VoiceInvariant, UNCHANGED <<time, table, outbox>>,
         TypeOK', TimesAreOrdered', CutoffsAreKept',
         \A u \in Users : CanSpeak(u)' => CanSpeak(u),
         \A s \in Sweepers :
           \/ sweep'[s] = sweep[s]
           \/ sweep'[s].pc # "done"
           \/ \A u \in Users : u = sweep'[s].key => ~CanSpeak(u)'
  PROVE  VoiceInvariant'
<1>1. UNCHANGED <<clock, jobs, lapsed>>
  BY DEF time, outbox
<1>2. TableIsConsistent' /\ ConfirmedIsSilent'
  BY <1>1 DEF VoiceInvariant, TableIsConsistent, ConfirmedIsSilent, Expired, Pending
<1>3. RevocationIsOwed'
  BY <1>1 DEF VoiceInvariant, RevocationIsOwed, Barred, Apart, GivenUp, Expired, Pending
<1>4. CallsSilence'
  <2>. SUFFICES ASSUME NEW s \in Sweepers, NEW u \in Users,
                       sweep'[s].pc = "done", sweep'[s].key = u, CanSpeak(u)'
                PROVE  Outdated(s)'
    BY DEF CallsSilence
  <2>1. sweep'[s] = sweep[s] /\ Outdated(s)
    BY DEF VoiceInvariant, CallsSilence
  <2>. QED  BY <1>1, <2>1 DEF Outdated, Expired, Pending
<1>. QED  BY <1>2, <1>3, <1>4 DEF VoiceInvariant

\* A request that looks at eligibility changes nothing.
LEMMA AskSessionIsSafe == ASSUME VoiceInvariant, NEW u \in Users, AskSession(u) PROVE VoiceInvariant'
<1>1. /\ session' = [session EXCEPT ![u] = [pc |-> "read", now |-> clock, dead |-> FALSE]]
      /\ UNCHANGED <<time, table, outbox, sweep, voice>>
  BY DEF AskSession, SessionMoves
<1>2. clock \in Nat /\ clock <= clock + Latency
  BY Constants DEF VoiceInvariant, TypeOK
<1>3. TypeOK'
  BY <1>1, <1>2 DEF VoiceInvariant, TypeOK, Request, time, outbox
<1>4. TimesAreOrdered'
  BY <1>1, <1>2 DEF VoiceInvariant, TypeOK, TimesAreOrdered, time, outbox
<1>5. CutoffsAreKept'
  BY <1>1 DEF VoiceInvariant, TypeOK, CutoffsAreKept, time
<1>6. \A v \in Users : CanSpeak(v)' => CanSpeak(v)
  BY <1>1 DEF VoiceInvariant, TypeOK, CanSpeak
<1>. QED  BY <1>1, <1>3, <1>4, <1>5, <1>6, NobodyIsAdmitted

\* A token that is minted is watched by its request.
LEMMA MintIsSafe == ASSUME VoiceInvariant, NEW u \in Users, Mint(u) PROVE VoiceInvariant'
<1>. DEFINE d == clock < voice.cutoff[u]
<1>1. PICK dead : dead = d
  OBVIOUS
<1>2. PICK new : /\ new = [session[u] EXCEPT !.pc = "minted", !.dead = dead]
                 /\ session[u].pc = "read" /\ session' = [session EXCEPT ![u] = new]
                 /\ UNCHANGED <<time, table, outbox, sweep, voice>>
  BY <1>1 DEF Mint, SessionMoves
<1>3. /\ new.pc = "minted" /\ new.now = session[u].now
      /\ new \in Request
      /\ ~new.dead => voice.cutoff[u] <= clock
  <2>1. session[u] \in Request /\ clock \in Nat /\ voice.cutoff[u] \in Nat
    BY DEF VoiceInvariant, TypeOK
  <2>2. d \in BOOLEAN
    BY <2>1, SMT
  <2>3. dead \in BOOLEAN /\ (dead <=> d)
    <3>. HIDE DEF d
    <3>. QED  BY <1>1, <2>2
  <2>4. new.pc = "minted" /\ new.now = session[u].now /\ new.dead = dead /\ new \in Request
    BY <1>2, <2>1, <2>3 DEF Request
  <2>5. ~d => voice.cutoff[u] <= clock
    BY <2>1
  <2>. QED  BY <2>3, <2>4, <2>5, Zenon
<1>4. /\ session'[u] = new
      /\ \A v \in Users \ {u} : session'[v] = session[v]
      /\ session' \in [Users -> Request]
  BY <1>2, <1>3 DEF VoiceInvariant, TypeOK
<1>5. TypeOK'
  BY <1>2, <1>4 DEF VoiceInvariant, TypeOK, time, outbox
<1>6. TimesAreOrdered'
  BY <1>2, <1>3, <1>4 DEF VoiceInvariant, TimesAreOrdered, time, outbox
<1>7. CutoffsAreKept'
  BY <1>2, <1>3, <1>4 DEF VoiceInvariant, CutoffsAreKept, time
<1>8. \A v \in Users : CanSpeak(v)' => CanSpeak(v)
  BY <1>2, <1>3, <1>4 DEF CanSpeak
<1>. QED  BY <1>2, <1>5, <1>6, <1>7, <1>8, NobodyIsAdmitted

\* A token that is delivered admits nobody whom its grant did not.
LEMMA DeliverIsSafe == ASSUME VoiceInvariant, NEW u \in Users, Deliver(u) PROVE VoiceInvariant'
<1>1. /\ session[u].pc = "granted"
      /\ session' = [session EXCEPT ![u] = NoSession]
      /\ voice' = [voice EXCEPT !.held = IF session[u].dead THEN @ \ {u} ELSE @ \cup {u}]
      /\ UNCHANGED <<time, table, outbox, sweep>>
  BY DEF Deliver, SessionMoves
<1>2. NoSession.pc = "idle" /\ NoSession \in Request
  BY DEF NoSession, Request
<1>3. TypeOK'
  BY <1>1, <1>2 DEF VoiceInvariant, TypeOK, time, outbox
<1>4. TimesAreOrdered'
  BY <1>1, <1>2 DEF VoiceInvariant, TypeOK, TimesAreOrdered, time, outbox
<1>5. CutoffsAreKept'
  BY <1>1, <1>2 DEF VoiceInvariant, TypeOK, CutoffsAreKept, time
<1>6. \A v \in Users : CanSpeak(v)' => CanSpeak(v)
  BY <1>1, <1>2 DEF VoiceInvariant, TypeOK, CanSpeak
<1>. QED  BY <1>1, <1>3, <1>4, <1>5, <1>6, NobodyIsAdmitted

\* A request that dies has delivered no token.
LEMMA DropSessionIsSafe == ASSUME VoiceInvariant, NEW u \in Users, DropSession(u) PROVE VoiceInvariant'
<1>1. /\ session' = [session EXCEPT ![u] = NoSession]
      /\ UNCHANGED <<time, table, outbox, sweep, voice>>
  BY DEF DropSession
<1>2. NoSession.pc = "idle" /\ NoSession \in Request
  BY DEF NoSession, Request
<1>3. TypeOK'
  BY <1>1, <1>2 DEF VoiceInvariant, TypeOK, time, outbox
<1>4. TimesAreOrdered'
  BY <1>1, <1>2 DEF VoiceInvariant, TypeOK, TimesAreOrdered, time, outbox
<1>5. CutoffsAreKept'
  BY <1>1, <1>2 DEF VoiceInvariant, TypeOK, CutoffsAreKept, time
<1>6. \A v \in Users : CanSpeak(v)' => CanSpeak(v)
  BY <1>1, <1>2 DEF VoiceInvariant, TypeOK, CanSpeak
<1>. QED  BY <1>1, <1>3, <1>4, <1>5, <1>6, NobodyIsAdmitted

\* Browsers connect with tokens that admit, and leave.
LEMMA BrowserIsSafe == ASSUME VoiceInvariant, NEW u \in Users, Browser(u) PROVE VoiceInvariant'
<1>1. /\ \/ u \in voice.held /\ voice' = [voice EXCEPT !.on = @ \cup {u}]
         \/ voice' = [voice EXCEPT !.on = @ \ {u}]
         \/ voice' = [voice EXCEPT !.held = @ \ {u}]
      /\ UNCHANGED <<time, table, outbox, session, sweep>>
  BY DEF Browser, Connect, Disconnect, Expire
<1>2. TypeOK' /\ voice'.cutoff = voice.cutoff
  BY <1>1 DEF VoiceInvariant, TypeOK, time, outbox
<1>3. TimesAreOrdered'
  BY <1>1 DEF VoiceInvariant, TimesAreOrdered, time, outbox
<1>4. CutoffsAreKept'
  BY <1>1, <1>2 DEF VoiceInvariant, CutoffsAreKept, time
<1>5. \A v \in Users : CanSpeak(v)' => CanSpeak(v)
  BY <1>1 DEF VoiceInvariant, TypeOK, CanSpeak
<1>. QED  BY <1>1, <1>2, <1>3, <1>4, <1>5, NobodyIsAdmitted

\* Who passes the second look is not barred, and has no job that a sweep under
\* way could mistake for the one it read: no token is made for as long as the
\* provider refuses it, which is longer than any request is late.
LEMMA RecheckIsSafe == ASSUME VoiceInvariant, NEW u \in Users, Recheck(u) PROVE VoiceInvariant'
<1>1. PICK new : /\ new = [session[u] EXCEPT !.pc = IF Eligible(u) THEN "granted" ELSE "rejected"]
                 /\ session[u].pc = "minted" /\ session' = [session EXCEPT ![u] = new]
                 /\ UNCHANGED <<time, table, outbox, sweep, voice>>
  BY DEF Recheck, SessionMoves
<1>2. session[u] \in Request /\ clock \in Nat /\ voice.cutoff[u] \in Nat
  BY DEF VoiceInvariant, TypeOK
<1>3. /\ new \in Request /\ new.now = session[u].now /\ new.dead = session[u].dead
      /\ new.pc = IF Eligible(u) THEN "granted" ELSE "rejected"
  BY <1>1, <1>2 DEF Request
<1>4. /\ session'[u] = new
      /\ \A v \in Users \ {u} : session'[v] = session[v]
      /\ session' \in [Users -> Request]
  BY <1>1, <1>3 DEF VoiceInvariant, TypeOK
<1>5. TypeOK'
  BY <1>1, <1>4 DEF VoiceInvariant, TypeOK, time, outbox
<1>6. TimesAreOrdered'
  BY <1>1, <1>3, <1>4 DEF VoiceInvariant, TimesAreOrdered, time, outbox
<1>7. CutoffsAreKept'
  BY <1>1, <1>3, <1>4 DEF VoiceInvariant, CutoffsAreKept, time
<1>8. UNCHANGED <<clock, jobs, lapsed, table, sweep, voice>>
  BY <1>1 DEF time, outbox
<1>9. \A v \in Users \ {u} : CanSpeak(v)' = CanSpeak(v)
  BY <1>4, <1>8 DEF CanSpeak
<1>10. CASE new.pc = "rejected" \/ new.dead
  <2>1. CanSpeak(u)' => CanSpeak(u)
    BY <1>4, <1>8, <1>10 DEF CanSpeak
  <2>. QED  BY <1>1, <1>5, <1>6, <1>7, <1>9, <2>1, NobodyIsAdmitted
<1>11. CASE Eligible(u) /\ ~new.dead
  <2>1. ~Barred(u) /\ ~Standing(u, clock)
    BY <1>11 DEF VoiceInvariant, TableIsConsistent, Eligible, Barred
  <2>2. Pending(u) => Expired(u, clock)
    BY <1>2, <2>1, Constants DEF VoiceInvariant, TypeOK, Job, Standing, Expired
  <2>3. TableIsConsistent'
    BY <1>8 DEF VoiceInvariant, TableIsConsistent
  <2>4. ConfirmedIsSilent'
    BY <1>8, <1>9, <2>2, Constants DEF VoiceInvariant, ConfirmedIsSilent, Pending, Expired
  <2>5. RevocationIsOwed'
    BY <1>8, <1>9, <2>1 DEF VoiceInvariant, RevocationIsOwed, Barred, Apart, GivenUp, Expired, Pending
  <2>6. CallsSilence'
    <3>. SUFFICES ASSUME NEW s \in Sweepers, NEW v \in Users,
                         sweep[s].pc = "done", sweep[s].key = v, CanSpeak(v)'
                  PROVE  Outdated(s)'
      BY <1>8 DEF CallsSilence
    <3>1. CASE v = u
      <4>1. sweep[s].read.asked \in Nat
        BY DEF VoiceInvariant, TypeOK, Pass, Job
      <4>2. sweep[s].read.asked + Buffer <= voice.cutoff[u] /\ voice.cutoff[u] <= clock
        BY <1>1, <1>3, <1>11, <3>1 DEF VoiceInvariant, CutoffsAreKept
      <4>3. sweep[s].read.asked + Latency < clock
        BY <1>2, <4>1, <4>2, Constants
      <4>. QED  BY <1>8, <2>2, <3>1, <4>3 DEF Outdated, Expired, Pending
    <3>2. CASE v # u
      BY <1>8, <1>9, <3>2 DEF VoiceInvariant, CallsSilence, Outdated, Expired, Pending
    <3>. QED  BY <3>1, <3>2
  <2>. QED  BY <1>5, <1>6, <1>7, <2>3, <2>4, <2>5, <2>6 DEF VoiceInvariant
<1>. QED  BY <1>3, <1>10, <1>11

\* A token refused at the second look gets its job.
LEMMA RejectIsSafe == ASSUME VoiceInvariant, NEW u \in Users, Reject(u) PROVE VoiceInvariant'
<1>1. /\ session[u].pc = "rejected"
      /\ session' = [session EXCEPT ![u] = NoSession]
      /\ Enqueue({u}, session[u].now)
      /\ UNCHANGED <<time, table, sweep, voice>>
  BY DEF Reject, SessionMoves
<1>2. NoSession.pc = "idle" /\ NoSession \in Request
  BY DEF NoSession, Request
<1>3. PICK now : now = session[u].now
  OBVIOUS
<1>4. now \in Recently /\ {u} \in SUBSET Keys
  BY <1>1, <1>3, Constants DEF VoiceInvariant, TypeOK, Request, TimesAreOrdered, Recently
<1>5. /\ session' \in [Users -> Request]
      /\ \A v \in Users : \/ session'[v] = session[v]
                          \/ session[v].pc = "rejected" /\ session'[v].pc = "idle"
  BY <1>1, <1>2 DEF VoiceInvariant, TypeOK
<1>6. table' \in TableRow /\ TableIsConsistent' /\ \A v \in Users : Barred(v)' => Barred(v) \/ v \in {u}
  BY <1>1 DEF VoiceInvariant, TypeOK, TableIsConsistent, Barred, Apart
<1>7. Enqueue({u}, now) \/ EnqueueMissing({u}, now)
  BY <1>1, <1>3
<1>. QED  BY <1>1, <1>4, <1>5, <1>6, <1>7, WorkIsAdded

-----------------------------------------------------------------------------
\* A sweep that looks for a job, or whose call fails or which is killed,
\* silences nobody and confirms nothing.
LEMMA SweepIsQuiet ==
  ASSUME VoiceInvariant, NEW s \in Sweepers, NEW new \in Pass, new.pc # "done",
         new.now <= clock, new.read.asked <= clock,
         sweep' = [sweep EXCEPT ![s] = new],
         UNCHANGED <<time, table, outbox, session, voice>>
  PROVE  VoiceInvariant'
<1>1. sweep' \in [Sweepers -> Pass] /\ sweep'[s] = new /\ \A t \in Sweepers \ {s} : sweep'[t] = sweep[t]
  BY DEF VoiceInvariant, TypeOK
<1>2. TypeOK'
  BY <1>1 DEF VoiceInvariant, TypeOK, time, outbox
<1>3. TimesAreOrdered' /\ CutoffsAreKept'
  BY <1>1 DEF VoiceInvariant, TimesAreOrdered, CutoffsAreKept, time, outbox
<1>4. \A v \in Users : CanSpeak(v)' => CanSpeak(v)
  BY DEF CanSpeak
<1>5. \A t \in Sweepers :
        \/ sweep'[t] = sweep[t]
        \/ sweep'[t].pc # "done"
        \/ \A u \in Users : u = sweep'[t].key => ~CanSpeak(u)'
  BY <1>1
<1>. QED  BY <1>2, <1>3, <1>4, <1>5, NobodyIsAdmitted

\* A sweep that reads a job does nothing yet.
LEMMA ReadJobIsSafe ==
  ASSUME VoiceInvariant, NEW s \in Sweepers, NEW k \in Keys, ReadJob(s, k) PROVE VoiceInvariant'
<1>1. PICK pc \in {"over", "calling"} :
        /\ sweep' = [sweep EXCEPT ![s] = [sweep[s] EXCEPT !.pc = pc, !.key = k, !.read = jobs[k]]]
        /\ UNCHANGED <<time, table, outbox, session, voice>>
  BY DEF ReadJob, Sweeps
<1>2. PICK new : new = [sweep[s] EXCEPT !.pc = pc, !.key = k, !.read = jobs[k]]
  OBVIOUS
<1>3. sweep[s] \in Pass /\ jobs[k] \in Job
  BY DEF VoiceInvariant, TypeOK
<1>4. new \in Pass /\ new.pc # "done" /\ new.now = sweep[s].now /\ new.read = jobs[k]
  BY <1>2, <1>3 DEF Pass
<1>5. new.now <= clock /\ new.read.asked <= clock
  BY <1>4 DEF VoiceInvariant, TimesAreOrdered
<1>. QED  BY <1>1, <1>2, <1>4, <1>5, SweepIsQuiet

\* A call that fails, and a sweep that is killed, change nothing else.
LEMMA CallFailsIsSafe ==
  ASSUME VoiceInvariant, NEW s \in Sweepers, CallFails(s) \/ CrashSweep(s)
  PROVE  VoiceInvariant'
<1>1. PICK new \in {Resting, [sweep[s] EXCEPT !.pc = "failed"]} :
        /\ sweep' = [sweep EXCEPT ![s] = new]
        /\ UNCHANGED <<time, table, outbox, session, voice>>
  BY DEF CallFails, CrashSweep, Sweeps
<1>2. sweep[s] \in Pass /\ clock \in Nat
  BY DEF VoiceInvariant, TypeOK
<1>3. Resting \in Pass /\ Resting.pc # "done" /\ Resting.now = 0 /\ Resting.read.asked = 0
  BY Constants DEF Resting, NoJob, Job, Pass
<1>4. new \in Pass /\ new.pc # "done"
  BY <1>1, <1>2, <1>3 DEF Pass
<1>5. new.now <= clock /\ new.read.asked <= clock
  <2>1. CASE new = Resting
    BY <1>2, <1>3, <2>1
  <2>2. CASE new = [sweep[s] EXCEPT !.pc = "failed"]
    <3>1. new.now = sweep[s].now /\ new.read = sweep[s].read
      BY <1>2, <2>2 DEF Pass
    <3>. QED  BY <3>1 DEF VoiceInvariant, TimesAreOrdered
  <2>. QED  BY <1>1, <2>1, <2>2
<1>. QED  BY <1>1, <1>4, <1>5, SweepIsQuiet

\* A call whose answer is lost has silenced whoever its job names, as one that
\* succeeds has, and starts the time for which tokens are refused again.
LEMMA CallIsSafe ==
  ASSUME VoiceInvariant, NEW s \in Sweepers, CallSucceeds(s) \/ CallTimesOut(s)
  PROVE  VoiceInvariant'
<1>. DEFINE k == sweep[s].key
<1>1. PICK pc \in {"done", "failed"} :
        /\ sweep[s].pc = "calling"
        /\ Obey(k)
        /\ sweep' = [sweep EXCEPT ![s] = [sweep[s] EXCEPT !.pc = pc]]
        /\ UNCHANGED <<time, table, outbox>>
  BY DEF CallSucceeds, CallTimesOut, Sweeps
<1>2. k \in Keys /\ clock \in Nat /\ sweep[s] \in Pass /\ sweep[s].read.asked \in Nat
      /\ voice.cutoff \in [Users -> Nat]
  BY DEF VoiceInvariant, TypeOK, Pass, Job
<1>3. PICK new : new = [sweep[s] EXCEPT !.pc = pc]
  OBVIOUS
<1>4. new \in Pass /\ new.now = sweep[s].now /\ new.key = k /\ new.read = sweep[s].read
  BY <1>2, <1>3 DEF Pass
<1>5. sweep' \in [Sweepers -> Pass] /\ sweep'[s] = new /\ \A t \in Sweepers \ {s} : sweep'[t] = sweep[t]
  BY <1>1, <1>3, <1>4 DEF VoiceInvariant, TypeOK
<1>6. UNCHANGED <<evening, clock, punctual, table, jobs, lapsed>>
  BY <1>1 DEF time, outbox
<1>7. /\ \A v \in Users : /\ CanSpeak(v)' => CanSpeak(v) /\ v # k
                          /\ session'[v].now = session[v].now /\ session'[v].pc = session[v].pc
                          /\ \/ v = k /\ voice'.cutoff[v] = clock + Buffer
                             \/ v # k /\ voice'.cutoff[v] = voice.cutoff[v]
                          /\ session'[v].pc \in {"minted", "granted"} /\ ~session'[v].dead =>
                               v # k /\ ~session[v].dead
      /\ session' \in [Users -> Request]
      /\ voice' \in [held: SUBSET Users, on: SUBSET Users, cutoff: [Users -> Nat]]
  <2>1. CASE k = "room"
    <3>1. voice' = [voice EXCEPT !.on = {}] /\ session' = session
      BY <1>1, <2>1 DEF Obey
    <3>. QED  BY <2>1, <3>1, Constants DEF VoiceInvariant, TypeOK, CanSpeak
  <2>2. CASE k # "room"
    <3>1. PICK rq : rq = [session[k] EXCEPT !.dead = session[k].pc \in {"minted", "granted", "rejected"}]
      OBVIOUS
    <3>2. PICK cutoff : cutoff = [voice.cutoff EXCEPT ![k] = clock + Buffer]
      OBVIOUS
    <3>3. /\ voice' = [held |-> voice.held \ {k}, on |-> voice.on \ {k}, cutoff |-> cutoff]
          /\ session' = [session EXCEPT ![k] = rq]
      BY <1>1, <2>2, <3>1, <3>2 DEF Obey
    <3>4. k \in Users
      BY <1>2, <2>2, Constants
    <3>5. /\ rq \in Request /\ rq.pc = session[k].pc /\ rq.now = session[k].now
          /\ rq.pc \in {"minted", "granted"} => rq.dead
      <4>1. session[k] \in Request /\ (session[k].pc \in {"minted", "granted", "rejected"}) \in BOOLEAN
        BY <3>4 DEF VoiceInvariant, TypeOK
      <4>. QED  BY <3>1, <4>1 DEF Request
    <3>6. /\ cutoff \in [Users -> Nat] /\ cutoff[k] = clock + Buffer
          /\ \A v \in Users \ {k} : cutoff[v] = voice.cutoff[v]
      BY <1>2, <3>2, <3>4, Constants
    <3>7. session' \in [Users -> Request] /\ session'[k] = rq /\ \A v \in Users \ {k} : session'[v] = session[v]
      BY <3>3, <3>4, <3>5 DEF VoiceInvariant, TypeOK
    <3>8. voice'.held = voice.held \ {k} /\ voice'.on = voice.on \ {k} /\ voice'.cutoff = cutoff
      BY <3>3
    <3>9. voice' \in [held: SUBSET Users, on: SUBSET Users, cutoff: [Users -> Nat]]
      BY <3>3, <3>6 DEF VoiceInvariant, TypeOK
    <3>10. \A v \in Users : CanSpeak(v)' => CanSpeak(v) /\ v # k
      BY <3>4, <3>5, <3>7, <3>8 DEF CanSpeak
    <3>. QED  BY <3>4, <3>5, <3>6, <3>7, <3>8, <3>9, <3>10
  <2>. QED  BY <2>1, <2>2
<1>8. TypeOK'
  BY <1>5, <1>6, <1>7 DEF VoiceInvariant, TypeOK
<1>9. TimesAreOrdered'
  BY <1>4, <1>5, <1>6, <1>7 DEF VoiceInvariant, TimesAreOrdered
<1>10. CutoffsAreKept'
  <2>1. ASSUME NEW u \in Users, session'[u].pc \in {"minted", "granted"}, ~session'[u].dead
        PROVE  voice'.cutoff[u] <= clock
    BY <1>7, <2>1 DEF VoiceInvariant, CutoffsAreKept
  <2>2. ASSUME NEW t \in Sweepers, NEW u \in Users, sweep'[t].pc = "done", sweep'[t].key = u
        PROVE  sweep'[t].read.asked + Buffer <= voice'.cutoff[u]
    <3>1. sweep'[t].read.asked = sweep[t].read.asked /\ sweep'[t].key = sweep[t].key
      BY <1>4, <1>5
    <3>2. sweep[t].read.asked \in Nat /\ sweep[t].read.asked <= clock
      BY DEF VoiceInvariant, TypeOK, Pass, Job, TimesAreOrdered
    <3>3. CASE u = k
      <4>1. voice'.cutoff[u] = clock + Buffer
        BY <1>7, <3>3
      <4>. QED  BY <1>2, <3>1, <3>2, <4>1, Constants
    <3>4. CASE u # k
      <4>1. voice'.cutoff[u] = voice.cutoff[u] /\ sweep'[t] = sweep[t]
        BY <1>4, <1>5, <1>7, <2>2, <3>1, <3>4
      <4>. QED  BY <2>2, <4>1 DEF VoiceInvariant, CutoffsAreKept
    <3>. QED  BY <3>3, <3>4
  <2>. QED  BY <1>6, <2>1, <2>2 DEF CutoffsAreKept
<1>11. \A t \in Sweepers :
         \/ sweep'[t] = sweep[t]
         \/ sweep'[t].pc # "done"
         \/ \A u \in Users : u = sweep'[t].key => ~CanSpeak(u)'
  BY <1>4, <1>5, <1>7
<1>. QED  BY <1>1, <1>7, <1>8, <1>9, <1>10, <1>11, NobodyIsAdmitted

\* What becomes of jobs when a sweep begins or ends: a job is only marked as
\* done when its player cannot speak, and only dropped when it is, or when it
\* is past its retention.
LEMMA JobsAreSettled ==
  ASSUME VoiceInvariant, NEW s \in Sweepers, NEW new \in Pass, new.pc # "done",
         new.now <= clock, new.read.asked <= clock,
         sweep' = [sweep EXCEPT ![s] = new],
         UNCHANGED <<time, table, session, voice>>,
         jobs' \in [Keys -> Job], lapsed' \in SUBSET Keys,
         \A k \in Keys :
           \/ jobs'[k] = jobs[k] /\ (k \in lapsed => k \in lapsed')
           \/ Pending(k) /\ jobs'[k].state = "owed" /\ jobs'[k].asked = jobs[k].asked
           \/ /\ Pending(k) /\ jobs'[k].state = "confirmed" /\ jobs'[k].asked = jobs[k].asked
              /\ k \in Users => ~CanSpeak(k) \/ Expired(k, clock)
           \/ /\ jobs'[k] = NoJob /\ (jobs[k].state = "confirmed" \/ Expired(k, clock))
              /\ Expired(k, clock) => k \in lapsed'
  PROVE  VoiceInvariant'
<1>1. sweep' \in [Sweepers -> Pass] /\ sweep'[s] = new /\ \A t \in Sweepers \ {s} : sweep'[t] = sweep[t]
  BY DEF VoiceInvariant, TypeOK
<1>2. clock' = clock /\ clock \in Nat /\ NoJob.state = "none" /\ NoJob.asked = 0
  BY DEF VoiceInvariant, TypeOK, time, NoJob
<1>3. TypeOK'
  BY <1>1 DEF VoiceInvariant, TypeOK, time
<1>4. /\ \A k \in Keys : jobs[k].asked \in Nat /\ jobs'[k].asked \in Nat
      /\ \A t \in Sweepers : sweep[t].key \in Keys /\ sweep[t].read.asked \in Nat
  BY DEF VoiceInvariant, TypeOK, Job, Pass
<1>5. TimesAreOrdered'
  <2>1. \A k \in Keys : jobs'[k].asked <= clock
    BY <1>2, <1>4 DEF VoiceInvariant, TimesAreOrdered
  <2>. QED  BY <1>1, <1>2, <2>1 DEF VoiceInvariant, TimesAreOrdered
<1>6. CutoffsAreKept' /\ TableIsConsistent'
  BY <1>1, <1>2 DEF VoiceInvariant, CutoffsAreKept, TableIsConsistent
<1>7. \A u \in Users : CanSpeak(u)' = CanSpeak(u) /\ u \in Keys
  BY Constants DEF CanSpeak
<1>8. ConfirmedIsSilent'
  BY <1>2, <1>7 DEF VoiceInvariant, ConfirmedIsSilent, Expired, Pending
<1>9. RevocationIsOwed'
  <2>. SUFFICES ASSUME NEW u \in Users, Barred(u), CanSpeak(u), jobs'[u].state # "owed"
                PROVE  GivenUp(u)'
    BY <1>7 DEF RevocationIsOwed, Barred, Apart
  <2>1. CASE jobs'[u] = jobs[u] /\ (u \in lapsed => u \in lapsed')
    BY <1>2, <2>1 DEF VoiceInvariant, RevocationIsOwed, GivenUp, Expired, Pending
  <2>2. CASE /\ Pending(u) /\ jobs'[u].state = "confirmed" /\ jobs'[u].asked = jobs[u].asked
             /\ u \in Users => ~CanSpeak(u) \/ Expired(u, clock)
    BY <1>2, <2>2 DEF GivenUp, Expired, Pending
  <2>3. CASE /\ jobs'[u] = NoJob /\ (jobs[u].state = "confirmed" \/ Expired(u, clock))
             /\ Expired(u, clock) => u \in lapsed'
    BY <2>3 DEF VoiceInvariant, ConfirmedIsSilent, GivenUp
  <2>. QED  BY <1>7, <2>1, <2>2, <2>3
<1>10. CallsSilence'
  <2>. SUFFICES ASSUME NEW t \in Sweepers, NEW u \in Users,
                       sweep'[t].pc = "done", sweep'[t].key = u, CanSpeak(u)
                PROVE  Outdated(t)'
    BY <1>7 DEF CallsSilence
  <2>1. sweep'[t] = sweep[t] /\ Outdated(t)
    BY <1>1 DEF VoiceInvariant, CallsSilence
  <2>. QED  BY <1>2, <1>4, <1>7, <2>1 DEF Outdated, Expired, Pending
<1>. QED  BY <1>3, <1>5, <1>6, <1>8, <1>9, <1>10 DEF VoiceInvariant

\* What a sweep that rests holds.
LEMMA RestIsEmpty == Resting \in Pass /\ Resting.pc = "idle" /\ Resting.now = 0 /\ Resting.read.asked = 0
                     /\ NoJob \in Job /\ NoJob.state = "none"
BY Constants DEF Resting, NoJob, Job, Pass

\* A sweep that begins drops only what is past its retention.
LEMMA BeginSweepIsSafe ==
  ASSUME VoiceInvariant, NEW s \in Sweepers, BeginSweep(s) PROVE VoiceInvariant'
<1>1. PICK gone \in SUBSET {k \in Keys : Expired(k, clock)} :
        /\ jobs' = [k \in Keys |-> IF k \in gone THEN NoJob ELSE jobs[k]]
        /\ lapsed' = lapsed \cup gone
        /\ sweep' = [sweep EXCEPT ![s] = [Resting EXCEPT !.pc = "looking", !.now = clock]]
        /\ UNCHANGED <<time, table, session, voice>>
  BY DEF BeginSweep, Sweeps
<1>2. PICK new : new = [Resting EXCEPT !.pc = "looking", !.now = clock]
  OBVIOUS
<1>3. clock \in Nat /\ jobs \in [Keys -> Job] /\ lapsed \in SUBSET Keys
  BY DEF VoiceInvariant, TypeOK
<1>4. new \in Pass /\ new.pc # "done" /\ new.now <= clock /\ new.read.asked <= clock
  <2>1. new \in Pass /\ new.pc # "done" /\ new.now = clock /\ new.read = Resting.read
    BY <1>2, <1>3, RestIsEmpty DEF Pass
  <2>. QED  BY <1>3, <2>1, RestIsEmpty
<1>5. /\ jobs' \in [Keys -> Job] /\ lapsed' \in SUBSET Keys
      /\ \A k \in Keys :
           \/ jobs'[k] = jobs[k] /\ (k \in lapsed => k \in lapsed')
           \/ /\ jobs'[k] = NoJob /\ (jobs[k].state = "confirmed" \/ Expired(k, clock))
              /\ Expired(k, clock) => k \in lapsed'
  BY <1>1, <1>3, RestIsEmpty
<1>. QED  BY <1>1, <1>2, <1>4, <1>5, JobsAreSettled

\* A sweep that writes its outcome into the job it read.
LEMMA SettleIsSafe ==
  ASSUME VoiceInvariant, NEW s \in Sweepers, NEW job \in Job, Settle(s, job),
         \/ job = jobs[sweep[s].key]
         \/ /\ Pending(sweep[s].key) /\ job.state = "owed" /\ job.asked = jobs[sweep[s].key].asked
         \/ /\ Pending(sweep[s].key) /\ job.state = "confirmed" /\ job.asked = jobs[sweep[s].key].asked
            /\ sweep[s].key \in Users => ~CanSpeak(sweep[s].key) \/ Expired(sweep[s].key, clock)
  PROVE  VoiceInvariant'
<1>1. PICK k \in Keys : k = sweep[s].key
  BY DEF VoiceInvariant, TypeOK, Pass
<1>2. clock \in Nat /\ jobs \in [Keys -> Job] /\ lapsed \in SUBSET Keys
  BY DEF VoiceInvariant, TypeOK
<1>3. /\ jobs' = [jobs EXCEPT ![k] = job] /\ lapsed' = lapsed
      /\ sweep' = [sweep EXCEPT ![s] = Resting]
      /\ UNCHANGED <<time, table, session, voice>>
  BY <1>1 DEF Settle, Sweeps
<1>4. jobs' \in [Keys -> Job] /\ jobs'[k] = job /\ \A j \in Keys \ {k} : jobs'[j] = jobs[j]
  BY <1>2, <1>3
<1>5. Resting.now <= clock /\ Resting.read.asked <= clock /\ Resting \in Pass /\ Resting.pc # "done"
  BY <1>2, RestIsEmpty
<1>6. \A j \in Keys :
        \/ jobs'[j] = jobs[j] /\ (j \in lapsed => j \in lapsed')
        \/ Pending(j) /\ jobs'[j].state = "owed" /\ jobs'[j].asked = jobs[j].asked
        \/ /\ Pending(j) /\ jobs'[j].state = "confirmed" /\ jobs'[j].asked = jobs[j].asked
           /\ j \in Users => ~CanSpeak(j) \/ Expired(j, clock)
  BY <1>1, <1>3, <1>4
<1>. QED  BY <1>2, <1>3, <1>4, <1>5, <1>6, JobsAreSettled

\* A job that is confirmed is that of somebody silent.
LEMMA ConfirmIsSafe == ASSUME VoiceInvariant, NEW s \in Sweepers, Confirm(s) PROVE VoiceInvariant'
<1>. DEFINE k == sweep[s].key
<1>1. sweep[s].pc = "done" /\ k \in Keys /\ jobs[k] \in Job /\ sweep[s].now \in Nat
      /\ sweep[s].read.asked \in Nat
  BY DEF Confirm, VoiceInvariant, TypeOK, Pass, Job
<1>2. CASE SameAttempt(s)
  <2>1. PICK until \in Nat : until = sweep[s].now + Barrier
    BY <1>1, Constants
  <2>2. PICK job : /\ job = [jobs[k] EXCEPT !.state = "confirmed", !.until = until]
                   /\ Settle(s, job)
    BY <1>2, <2>1 DEF Confirm
  <2>3. job \in Job /\ job.state = "confirmed" /\ job.asked = jobs[k].asked
    <3>1. PICK old \in Job : old = jobs[k]
      BY <1>1
    <3>. QED  BY <2>2, <3>1 DEF Job
  <2>4. Pending(k) /\ jobs[k].asked = sweep[s].read.asked
    BY <1>2 DEF SameAttempt, SameRequest
  <2>5. k \in Users => ~CanSpeak(k) \/ Expired(k, clock)
    BY <1>1, <2>4 DEF VoiceInvariant, CallsSilence, Outdated
  <2>. QED  BY <2>2, <2>3, <2>4, <2>5, SettleIsSafe
<1>3. CASE ~SameAttempt(s)
  <2>1. Settle(s, jobs[k])
    BY <1>3 DEF Confirm
  <2>. QED  BY <1>1, <2>1, SettleIsSafe
<1>. QED  BY <1>2, <1>3

\* A job put back is owed.
LEMMA RetryIsSafe == ASSUME VoiceInvariant, NEW s \in Sweepers, Retry(s) PROVE VoiceInvariant'
<1>. DEFINE k == sweep[s].key
<1>1. k \in Keys /\ jobs[k] \in Job
  BY DEF VoiceInvariant, TypeOK, Pass
<1>2. CASE SameRequest(s)
  <2>1. PICK tries : tries = IF jobs[k].state = "confirmed" THEN 0
                             ELSE IF jobs[k].tries < MaxTries THEN jobs[k].tries + 1 ELSE MaxTries
    OBVIOUS
  <2>2. tries \in Nat
    BY <1>1, <2>1, Constants DEF Job
  <2>3. PICK job : /\ job = [state |-> "owed", asked |-> jobs[k].asked, until |-> 0, tries |-> tries]
                   /\ Settle(s, job)
    BY <1>2, <2>1 DEF Retry
  <2>4. job \in Job /\ job.state = "owed" /\ job.asked = jobs[k].asked
    BY <1>1, <2>2, <2>3 DEF Job
  <2>5. Pending(k)
    BY <1>2 DEF SameRequest
  <2>. QED  BY <2>3, <2>4, <2>5, SettleIsSafe
<1>3. CASE ~SameRequest(s)
  <2>1. Settle(s, jobs[k])
    BY <1>3 DEF Retry
  <2>. QED  BY <1>1, <2>1, SettleIsSafe
<1>. QED  BY <1>2, <1>3

\* A sentinel that is forgotten was confirmed: nothing is owed for it.
LEMMA ForgetIsSafe == ASSUME VoiceInvariant, NEW s \in Sweepers, Forget(s) PROVE VoiceInvariant'
<1>1. PICK k \in Keys : k = sweep[s].key
  BY DEF VoiceInvariant, TypeOK, Pass
<1>2. /\ \/ jobs' = jobs /\ lapsed' = lapsed
         \/ /\ jobs[k].state = "confirmed" /\ jobs' = [jobs EXCEPT ![k] = NoJob]
            /\ lapsed' = IF Expired(k, clock) THEN lapsed \cup {k} ELSE lapsed
      /\ sweep' = [sweep EXCEPT ![s] = Resting]
      /\ UNCHANGED <<time, table, session, voice>>
  BY <1>1 DEF Forget, Sweeps, outbox
<1>3. clock \in Nat /\ jobs \in [Keys -> Job] /\ lapsed \in SUBSET Keys
  BY DEF VoiceInvariant, TypeOK
<1>4. Resting.now <= clock /\ Resting.read.asked <= clock /\ Resting \in Pass /\ Resting.pc # "done"
  BY <1>3, RestIsEmpty
<1>5. /\ jobs' \in [Keys -> Job] /\ lapsed' \in SUBSET Keys
      /\ \A j \in Keys :
           \/ jobs'[j] = jobs[j] /\ (j \in lapsed => j \in lapsed')
           \/ /\ jobs'[j] = NoJob /\ (jobs[j].state = "confirmed" \/ Expired(j, clock))
              /\ Expired(j, clock) => j \in lapsed'
  BY <1>2, <1>3, RestIsEmpty
<1>. QED  BY <1>2, <1>4, <1>5, JobsAreSettled

\* As time passes, what is past its retention stays so.
LEMMA TickIsSafe == ASSUME VoiceInvariant, Tick PROVE VoiceInvariant'
<1>1. /\ clock' = clock + 1
      /\ \A u \in Users : session[u].pc # "idle" => clock - session[u].now < Latency
      /\ punctual' = (punctual /\ \A s \in Sweepers : sweep[s].pc # "idle" => clock - sweep[s].now < Latency)
      /\ UNCHANGED <<evening, table, jobs, lapsed, session, sweep, voice>>
  BY DEF Tick, outbox
<1>2. /\ clock \in Nat /\ clock' \in Nat
      /\ \A k \in Keys : jobs[k].asked \in Nat
      /\ \A s \in Sweepers : /\ sweep[s].key \in Keys /\ sweep[s].read.asked \in Nat
                             /\ sweep[s].now \in Nat
      /\ \A u \in Users : session[u].now \in Nat /\ u \in Keys /\ voice.cutoff[u] \in Nat
  BY <1>1, Constants DEF VoiceInvariant, TypeOK, Job, Request, Pass
<1>3. punctual' \in BOOLEAN
  BY <1>1, Zenon
<1>4. TypeOK'
  BY <1>1, <1>2, <1>3 DEF VoiceInvariant, TypeOK
<1>5. \A u \in Users : CanSpeak(u)' = CanSpeak(u)
  BY <1>1 DEF CanSpeak
<1>6. TimesAreOrdered' /\ TableIsConsistent'
  BY <1>1, <1>2, Constants DEF VoiceInvariant, TimesAreOrdered, TableIsConsistent
<1>7. CutoffsAreKept'
  BY <1>1, <1>2 DEF VoiceInvariant, CutoffsAreKept
<1>8. \A k \in Keys : Expired(k, clock) => Expired(k, clock)'
  BY <1>1, <1>2, Constants DEF Expired, Pending
<1>9. ConfirmedIsSilent' /\ RevocationIsOwed'
  BY <1>1, <1>2, <1>5, <1>8 DEF VoiceInvariant, ConfirmedIsSilent, RevocationIsOwed, GivenUp, Barred, Apart
<1>10. CallsSilence'
  BY <1>1, <1>2, <1>5, <1>8, Constants DEF VoiceInvariant, CallsSilence, Outdated, Pending
<1>. QED  BY <1>4, <1>6, <1>7, <1>9, <1>10 DEF VoiceInvariant

-----------------------------------------------------------------------------
\* Every reachable state has the invariant: it holds at the start, and no
\* command, request, browser, call or sweep takes it away.
THEOREM VoiceIsConsistent == Spec => []VoiceInvariant
<1>1. Init => VoiceInvariant
  BY InitHasInvariant
<1>2. VoiceInvariant /\ [Next]_vars => VoiceInvariant'
  <2>. SUFFICES ASSUME VoiceInvariant, [Next]_vars PROVE VoiceInvariant'
    OBVIOUS
  <2>1. CASE Table
    BY <2>1, DepartIsSafe, PublishIsSafe, CloseIsSafe, PurgeIsSafe, AcceptIsSafe,
       BlockIsSafe, UnblockIsSafe DEF Table
  <2>2. CASE Tick
    BY <2>2, TickIsSafe
  <2>3. ASSUME NEW u \in Users, Session(u) PROVE VoiceInvariant'
    BY <2>3, AskSessionIsSafe, MintIsSafe, RecheckIsSafe, RejectIsSafe, DeliverIsSafe,
       DropSessionIsSafe DEF Session
  <2>4. ASSUME NEW u \in Users, Browser(u) PROVE VoiceInvariant'
    BY <2>4, BrowserIsSafe
  <2>5. ASSUME NEW s \in Sweepers, Sweep(s) PROVE VoiceInvariant'
    BY <2>5, BeginSweepIsSafe, ReadJobIsSafe, CallIsSafe, CallFailsIsSafe, ConfirmIsSafe,
       RetryIsSafe, ForgetIsSafe DEF Sweep
  <2>6. CASE UNCHANGED vars
    <3>1. UNCHANGED <<evening, clock, punctual, jobs, lapsed, session, sweep, voice>> /\ table' = table
      BY <2>6 DEF vars, time, outbox
    <3>2. table' \in TableRow /\ TableIsConsistent' /\ \A u \in Users : Barred(u)' => Barred(u)
      BY <3>1 DEF VoiceInvariant, TypeOK, TableIsConsistent, Barred, Apart
    <3>. QED  BY <3>1, <3>2, TableChangesAlone
  <2>. QED  BY <2>1, <2>2, <2>3, <2>4, <2>5, <2>6 DEF Next
<1>. QED  BY <1>1, <1>2, PTL DEF Spec

\* Whoever left, was blocked, or sat at a table that closed, was purged or
\* went public, and can still speak, has a job in the outbox that will end it,
\* until it is given up after its retention: no slow, failed or killed sweep
\* settles a job that was asked for again (live-voice-cleanup.ts:318).
THEOREM RevocationIsAlwaysOwed == Spec => []RevocationIsOwed
<1>1. VoiceInvariant => RevocationIsOwed
  BY DEF VoiceInvariant
<1>. QED  BY <1>1, VoiceIsConsistent, PTL

-----------------------------------------------------------------------------
(***************************************************************************)
(* How long a job stands, as long as no sweep takes longer than Latency.   *)
(***************************************************************************)
UnderWay(s) == sweep[s].pc \in {"calling", "done", "failed"}

SweepsArePunctual == \A s \in Sweepers : sweep[s].pc # "idle" => clock <= sweep[s].now + Latency

\* a call is made for a job that is there, or was given up; when another sweep
\* has confirmed it, this one began before that
CallsHaveAJob ==
  \A s \in Sweepers : \A k \in Keys : UnderWay(s) /\ sweep[s].key = k =>
    /\ sweep[s].read.state = "owed"
    /\ Pending(k) \/ k \in lapsed
    /\ jobs[k].state = "confirmed" => sweep[s].now + Barrier <= jobs[k].until + Latency

\* a sweep that forgets a job takes it for no other
OverIsOver ==
  \A s \in Sweepers : \A k \in Keys : sweep[s].pc = "over" /\ sweep[s].key = k =>
    /\ sweep[s].read.asked + Latency < clock
    /\ Pending(k) /\ jobs[k].asked = sweep[s].read.asked =>
         jobs[k].state = "confirmed" /\ jobs[k].until <= sweep[s].now

ConfirmedStands ==
  \A k \in Keys : jobs[k].state = "confirmed" =>
    /\ jobs[k].asked + Barrier <= jobs[k].until + Latency
    /\ k \in Users => voice.cutoff[k] + Barrier <= jobs[k].until + 2 * Latency + Buffer

CutoffsEnd ==
  \A u \in Users :
    /\ voice.cutoff[u] <= clock + Buffer
    /\ ~Pending(u) /\ u \notin lapsed => voice.cutoff[u] <= clock + Overrun

Timely == SweepsArePunctual /\ CallsHaveAJob /\ OverIsOver /\ ConfirmedStands /\ CutoffsEnd
BarrierInvariant == punctual => Timely

\* The numbers of a state.
LEMMA Numbers ==
  ASSUME TypeOK
  PROVE  /\ clock \in Nat /\ Overrun \in Nat /\ 2 * Latency + Buffer <= Barrier + Overrun
         /\ \A k \in Keys : jobs[k] \in Job /\ jobs[k].asked \in Nat /\ jobs[k].until \in Nat
         /\ \A s \in Sweepers : /\ sweep[s] \in Pass /\ sweep[s].now \in Nat /\ sweep[s].key \in Keys
                                /\ sweep[s].read.asked \in Nat /\ sweep[s].read \in Job
         /\ \A u \in Users : u \in Keys /\ voice.cutoff[u] \in Nat
BY Constants DEF TypeOK, Job, Pass, Overrun

\* A step that only adds work, or leaves the outbox alone, makes nothing late.
LEMMA WorkIsTimely ==
  ASSUME VoiceInvariant, Timely, UNCHANGED <<time, sweep>>, voice'.cutoff = voice.cutoff,
         \/ UNCHANGED outbox
         \/ \E S \in SUBSET Keys, now \in Recently : Enqueue(S, now) \/ EnqueueMissing(S, now)
  PROVE  Timely'
<1>1. clock' = clock /\ clock \in Nat
  BY Numbers DEF time, VoiceInvariant
<1>2. \A k \in Keys :
        \/ jobs'[k] = jobs[k] /\ (Pending(k) \/ (k \in lapsed' <=> k \in lapsed))
        \/ jobs'[k].state = "owed" /\ clock <= jobs'[k].asked + Latency /\ jobs'[k].asked \in Nat
  <2>1. CASE UNCHANGED outbox
    BY <2>1 DEF outbox
  <2>2. ASSUME NEW S \in SUBSET Keys, NEW now \in Recently,
               Enqueue(S, now) \/ EnqueueMissing(S, now)
        PROVE  \A k \in Keys :
                 \/ jobs'[k] = jobs[k] /\ (Pending(k) \/ (k \in lapsed' <=> k \in lapsed))
                 \/ jobs'[k].state = "owed" /\ clock <= jobs'[k].asked + Latency /\ jobs'[k].asked \in Nat
    <3>1. /\ jobs' \in [Keys -> Job] /\ lapsed' = lapsed \ S
          /\ \A k \in Keys :
               \/ jobs'[k] = jobs[k] /\ (k \in S => Pending(k))
               \/ jobs'[k].state = "owed" /\ clock <= jobs'[k].asked + Latency
      BY <2>2, WorkIsRecent DEF VoiceInvariant
    <3>. QED  BY <3>1 DEF Job
  <2>. QED  BY <2>1, <2>2
<1>3. SweepsArePunctual'
  BY <1>1 DEF Timely, SweepsArePunctual
<1>4. CallsHaveAJob'
  BY <1>1, <1>2 DEF Timely, CallsHaveAJob, UnderWay, Pending
<1>5. OverIsOver'
  <2>. SUFFICES ASSUME NEW s \in Sweepers, NEW k \in Keys, sweep[s].pc = "over", sweep[s].key = k
                PROVE  /\ sweep[s].read.asked + Latency < clock
                       /\ Pending(k)' /\ jobs'[k].asked = sweep[s].read.asked =>
                            jobs'[k].state = "confirmed" /\ jobs'[k].until <= sweep[s].now
    BY <1>1 DEF OverIsOver
  <2>1. sweep[s].read.asked + Latency < clock /\ sweep[s].read.asked \in Nat
    BY Numbers DEF VoiceInvariant, Timely, OverIsOver
  <2>2. CASE jobs'[k] = jobs[k]
    BY <2>1, <2>2 DEF Timely, OverIsOver, Pending
  <2>3. CASE clock <= jobs'[k].asked + Latency
    BY <1>1, <2>1, <2>3, Constants
  <2>. QED  BY <1>2, <2>2, <2>3, <2>1
<1>6. ConfirmedStands'
  BY <1>1, <1>2 DEF Timely, ConfirmedStands
<1>7. CutoffsEnd'
  BY <1>1, <1>2, Constants DEF Timely, CutoffsEnd, Pending, Overrun
<1>. QED  BY <1>3, <1>4, <1>5, <1>6, <1>7 DEF Timely

\* What happens at the table only adds work.
LEMMA TableIsTimely == ASSUME VoiceInvariant, Timely, Table PROVE Timely'
<1>1. UNCHANGED <<time, session, sweep, voice>>
  BY DEF Table, Depart, Publish, Close, Purge, Block, Unblock, Accept
<1>2. \/ UNCHANGED outbox
      \/ \E S \in SUBSET Keys, now \in Recently : Enqueue(S, now) \/ EnqueueMissing(S, now)
  <2>1. table.players \subseteq Keys
    BY Constants DEF VoiceInvariant, TypeOK, TableRow
  <2>2. ASSUME NEW u \in Users, Depart(u)
        PROVE  \E S \in SUBSET Keys, now \in Recently : Enqueue(S, now)
    <3>. DEFINE S == {u} \cup IF table.members \ {u} = {} THEN table.players \cup {"room"} ELSE {}
    <3>1. \E now \in Recently : Enqueue(S, now)
      BY <2>2 DEF Depart
    <3>2. S \in SUBSET Keys
      BY <2>1, Constants
    <3>. QED  BY <3>1, <3>2
  <2>3. table.players \cup {"room"} \in SUBSET Keys
    BY <2>1, Constants
  <2>4. CASE Publish \/ Close \/ Purge
    BY <2>3, <2>4 DEF Publish, Close, Purge
  <2>5. ASSUME NEW u \in Users, NEW v \in Users, Block(u, v)
        PROVE  \E S \in SUBSET Keys, now \in Recently : Enqueue(S, now)
    <3>1. {u, v} \in SUBSET Keys
      BY Constants
    <3>. QED  BY <2>5, <3>1 DEF Block
  <2>6. ASSUME NEW u \in Users, NEW v \in Users, Unblock(u, v) PROVE UNCHANGED outbox
    BY <2>6 DEF Unblock
  <2>7. CASE Accept
    BY <2>7 DEF Accept
  <2>. QED  BY <2>2, <2>4, <2>5, <2>6, <2>7 DEF Table
<1>. QED  BY <1>1, <1>2, WorkIsTimely

\* So do requests for tokens, and browsers do not even that.
LEMMA UsersAreTimely ==
  ASSUME VoiceInvariant, Timely, NEW u \in Users, Session(u) \/ Browser(u) PROVE Timely'
<1>1. UNCHANGED <<time, sweep>> /\ voice'.cutoff = voice.cutoff
  BY DEF Session, AskSession, Mint, Recheck, Reject, Deliver, DropSession, Browser, Connect,
         Disconnect, Expire, VoiceInvariant, TypeOK
<1>2. CASE Reject(u)
  <2>1. PICK now : now = session[u].now
    OBVIOUS
  <2>2. session[u].pc = "rejected" /\ Enqueue({u}, now)
    BY <1>2, <2>1 DEF Reject, SessionMoves
  <2>3. now \in Recently /\ {u} \in SUBSET Keys
    BY <2>1, <2>2, Constants DEF VoiceInvariant, TypeOK, Request, TimesAreOrdered, Recently
  <2>. QED  BY <1>1, <2>2, <2>3, WorkIsTimely
<1>3. CASE UNCHANGED outbox
  BY <1>1, <1>3, WorkIsTimely
<1>. QED  BY <1>2, <1>3 DEF Session, AskSession, Mint, Recheck, Deliver, DropSession, Browser,
                            Connect, Disconnect, Expire

\* A sweep that begins gives up only what is past its retention.
LEMMA BeginSweepIsTimely ==
  ASSUME VoiceInvariant, Timely, NEW s \in Sweepers, BeginSweep(s) PROVE Timely'
<1>1. PICK gone \in SUBSET {k \in Keys : Expired(k, clock)} :
        /\ jobs' = [k \in Keys |-> IF k \in gone THEN NoJob ELSE jobs[k]]
        /\ lapsed' = lapsed \cup gone
        /\ sweep' = [sweep EXCEPT ![s] = [Resting EXCEPT !.pc = "looking", !.now = clock]]
        /\ UNCHANGED <<time, table, session, voice>>
  BY DEF BeginSweep, Sweeps
<1>2. clock' = clock /\ clock \in Nat
  BY <1>1, Numbers DEF time, VoiceInvariant
<1>3. PICK new : new = [Resting EXCEPT !.pc = "looking", !.now = clock]
  OBVIOUS
<1>4. new.pc = "looking" /\ new.now = clock
  BY <1>3, RestIsEmpty DEF Pass
<1>5. sweep'[s] = new /\ \A t \in Sweepers \ {s} : sweep'[t] = sweep[t]
  BY <1>1, <1>3 DEF VoiceInvariant, TypeOK
<1>6. \A k \in Keys : \/ jobs'[k] = jobs[k] /\ (k \in lapsed => k \in lapsed')
                      \/ jobs'[k].state = "none" /\ k \in lapsed'
  BY <1>1, RestIsEmpty
<1>7. SweepsArePunctual'
  BY <1>2, <1>4, <1>5, Constants DEF Timely, SweepsArePunctual
<1>8. CallsHaveAJob'
  BY <1>4, <1>5, <1>6 DEF Timely, CallsHaveAJob, UnderWay, Pending
<1>9. OverIsOver'
  BY <1>2, <1>4, <1>5, <1>6 DEF Timely, OverIsOver, Pending
<1>10. ConfirmedStands'
  BY <1>1, <1>6 DEF Timely, ConfirmedStands
<1>11. CutoffsEnd'
  BY <1>1, <1>2, <1>6, Constants DEF Timely, CutoffsEnd, Pending, Overrun
<1>. QED  BY <1>7, <1>8, <1>9, <1>10, <1>11 DEF Timely

\* A sweep that finds a confirmed job whose time is over began later than all
\* that were under way for it.
LEMMA ReadJobIsTimely ==
  ASSUME VoiceInvariant, Timely, NEW s \in Sweepers, NEW k \in Keys, ReadJob(s, k) PROVE Timely'
<1>1. PICK pc : /\ pc = IF jobs[k].state = "confirmed" THEN "over" ELSE "calling"
                /\ sweep[s].pc = "looking" /\ Standing(k, sweep[s].now) /\ jobs[k].until <= sweep[s].now
                /\ sweep' = [sweep EXCEPT ![s] = [sweep[s] EXCEPT !.pc = pc, !.key = k, !.read = jobs[k]]]
                /\ UNCHANGED <<time, table, outbox, session, voice>>
  BY DEF ReadJob, Sweeps
<1>2. UNCHANGED <<clock, jobs, lapsed, voice>>
  BY <1>1 DEF time, outbox
<1>3. PICK new : new = [sweep[s] EXCEPT !.pc = pc, !.key = k, !.read = jobs[k]]
  OBVIOUS
<1>4. new.pc = pc /\ new.key = k /\ new.read = jobs[k] /\ new.now = sweep[s].now
  BY <1>3, Numbers DEF VoiceInvariant, Pass
<1>5. sweep'[s] = new /\ \A t \in Sweepers \ {s} : sweep'[t] = sweep[t]
  BY <1>1, <1>3 DEF VoiceInvariant, TypeOK
<1>6. Pending(k) /\ jobs[k].state \in {"owed", "confirmed"}
  BY <1>1, Numbers DEF Standing, Pending, VoiceInvariant, Job
<1>7. SweepsArePunctual'
  BY <1>1, <1>2, <1>4, <1>5 DEF Timely, SweepsArePunctual
<1>8. CallsHaveAJob'
  BY <1>1, <1>2, <1>4, <1>5, <1>6 DEF Timely, CallsHaveAJob, UnderWay, Pending
<1>9. OverIsOver'
  <2>1. pc = "over" => jobs[k].asked + Latency < clock
    <3>. SUFFICES ASSUME jobs[k].state = "confirmed" PROVE jobs[k].asked + Latency < clock
      BY <1>1
    <3>1. jobs[k].asked + Barrier <= jobs[k].until + Latency /\ sweep[s].now <= clock
      BY DEF Timely, ConfirmedStands, VoiceInvariant, TimesAreOrdered
    <3>. QED  BY <1>1, <3>1, Numbers, Constants DEF VoiceInvariant
  <2>. QED  BY <1>1, <1>2, <1>4, <1>5, <2>1 DEF Timely, OverIsOver, Pending
<1>10. ConfirmedStands' /\ CutoffsEnd'
  BY <1>2 DEF Timely, ConfirmedStands, CutoffsEnd, Pending, Overrun
<1>. QED  BY <1>7, <1>8, <1>9, <1>10 DEF Timely

\* A sweep that rests, or whose call has failed, has nothing new under way.
LEMMA CallFailsIsTimely ==
  ASSUME VoiceInvariant, Timely, NEW s \in Sweepers, CallFails(s) \/ CrashSweep(s) PROVE Timely'
<1>1. PICK new \in {Resting, [sweep[s] EXCEPT !.pc = "failed"]} :
        /\ new # Resting => UnderWay(s)
        /\ sweep' = [sweep EXCEPT ![s] = new]
        /\ UNCHANGED <<time, table, outbox, session, voice>>
  BY DEF CallFails, CrashSweep, Sweeps, UnderWay
<1>2. UNCHANGED <<clock, jobs, lapsed, voice>>
  BY <1>1 DEF time, outbox
<1>3. \/ new.pc = "idle"
      \/ /\ UnderWay(s) /\ new.pc = "failed" /\ new.key = sweep[s].key
         /\ new.read = sweep[s].read /\ new.now = sweep[s].now
  BY <1>1, RestIsEmpty, Numbers DEF VoiceInvariant, Pass
<1>4. sweep'[s] = new /\ \A t \in Sweepers \ {s} : sweep'[t] = sweep[t]
  BY <1>1 DEF VoiceInvariant, TypeOK
<1>5. SweepsArePunctual'
  BY <1>2, <1>3, <1>4 DEF Timely, SweepsArePunctual, UnderWay
<1>6. CallsHaveAJob'
  BY <1>2, <1>3, <1>4 DEF Timely, CallsHaveAJob, UnderWay, Pending
<1>7. OverIsOver'
  BY <1>2, <1>3, <1>4 DEF Timely, OverIsOver, Pending
<1>8. ConfirmedStands' /\ CutoffsEnd'
  BY <1>2 DEF Timely, ConfirmedStands, CutoffsEnd, Pending, Overrun
<1>. QED  BY <1>5, <1>6, <1>7, <1>8 DEF Timely

\* A call that comes after another sweep has confirmed the job comes soon after.
LEMMA CallIsTimely ==
  ASSUME VoiceInvariant, Timely, NEW s \in Sweepers, CallSucceeds(s) \/ CallTimesOut(s) PROVE Timely'
<1>1. PICK pc \in {"done", "failed"} :
        /\ sweep[s].pc = "calling" /\ Obey(sweep[s].key)
        /\ sweep' = [sweep EXCEPT ![s] = [sweep[s] EXCEPT !.pc = pc]]
        /\ UNCHANGED <<time, table, outbox>>
  BY DEF CallSucceeds, CallTimesOut, Sweeps
<1>2. UNCHANGED <<clock, jobs, lapsed>>
  BY <1>1 DEF time, outbox
<1>3. PICK new : new = [sweep[s] EXCEPT !.pc = pc]
  OBVIOUS
<1>4. new.pc = pc /\ new.key = sweep[s].key /\ new.read = sweep[s].read /\ new.now = sweep[s].now
  BY <1>3, Numbers DEF VoiceInvariant, Pass
<1>5. sweep'[s] = new /\ \A t \in Sweepers \ {s} : sweep'[t] = sweep[t]
  BY <1>1, <1>3 DEF VoiceInvariant, TypeOK
<1>6. PICK k \in Keys : k = sweep[s].key
  BY Numbers DEF VoiceInvariant
<1>7. \A u \in Users : \/ u = k /\ voice'.cutoff[u] = clock + Buffer
                       \/ u # k /\ voice'.cutoff[u] = voice.cutoff[u]
  <2>1. CASE k = "room"
    BY <1>1, <1>6, <2>1, Constants DEF Obey, VoiceInvariant, TypeOK
  <2>2. CASE k # "room"
    <3>1. PICK cutoff : cutoff = [voice.cutoff EXCEPT ![k] = clock + Buffer]
      OBVIOUS
    <3>2. voice'.cutoff = cutoff
      BY <1>1, <1>6, <2>2, <3>1 DEF Obey
    <3>3. voice.cutoff \in [Users -> Nat]
      BY DEF VoiceInvariant, TypeOK
    <3>. QED  BY <3>1, <3>2, <3>3
  <2>. QED  BY <2>1, <2>2
<1>8. /\ Pending(k) \/ k \in lapsed
      /\ jobs[k].state = "confirmed" => sweep[s].now + Barrier <= jobs[k].until + Latency
      /\ clock <= sweep[s].now + Latency
  BY <1>1, <1>6 DEF Timely, CallsHaveAJob, UnderWay, SweepsArePunctual
<1>9. SweepsArePunctual'
  BY <1>1, <1>2, <1>4, <1>5 DEF Timely, SweepsArePunctual
<1>10. CallsHaveAJob'
  BY <1>1, <1>2, <1>4, <1>5 DEF Timely, CallsHaveAJob, UnderWay, Pending
<1>11. OverIsOver'
  BY <1>1, <1>2, <1>4, <1>5 DEF Timely, OverIsOver, Pending
<1>12. ConfirmedStands'
  <2>. SUFFICES ASSUME NEW j \in Keys, jobs[j].state = "confirmed"
                PROVE  /\ jobs[j].asked + Barrier <= jobs[j].until + Latency
                       /\ j \in Users => voice'.cutoff[j] + Barrier <= jobs[j].until + 2 * Latency + Buffer
    BY <1>2 DEF ConfirmedStands
  <2>1. CASE j = k /\ j \in Users
    <3>1. voice'.cutoff[j] = clock + Buffer
      BY <1>7, <2>1
    <3>2. clock + Barrier <= jobs[j].until + 2 * Latency
      BY <1>8, <2>1, Numbers, Constants DEF VoiceInvariant
    <3>. QED  BY <2>1, <3>1, <3>2, Numbers, Constants DEF Timely, ConfirmedStands, VoiceInvariant
  <2>2. CASE j # k \/ j \notin Users
    BY <1>7, <2>2 DEF Timely, ConfirmedStands
  <2>. QED  BY <2>1, <2>2
<1>13. CutoffsEnd'
  <2>. SUFFICES ASSUME NEW u \in Users
                PROVE  /\ voice'.cutoff[u] <= clock + Buffer
                       /\ ~Pending(u) /\ u \notin lapsed => voice'.cutoff[u] <= clock + Overrun
    BY <1>2 DEF CutoffsEnd, Pending, Overrun
  <2>1. CASE u = k
    BY <1>7, <1>8, <2>1, Numbers, Constants DEF VoiceInvariant
  <2>2. CASE u # k
    BY <1>7, <2>2 DEF Timely, CutoffsEnd
  <2>. QED  BY <2>1, <2>2
<1>. QED  BY <1>9, <1>10, <1>11, <1>12, <1>13 DEF Timely


\* A confirmation lets the barrier end soon after the cutoff at the latest.
LEMMA ConfirmIsTimely == ASSUME VoiceInvariant, Timely, NEW s \in Sweepers, Confirm(s) PROVE Timely'
<1>1. PICK k \in Keys : k = sweep[s].key
  BY Numbers DEF VoiceInvariant
<1>2. PICK old \in Job : old = jobs[k]
  BY Numbers DEF VoiceInvariant
<1>3. PICK until \in Nat : until = sweep[s].now + Barrier
  BY Numbers, Constants DEF VoiceInvariant
<1>4. PICK job : job = IF SameAttempt(s) THEN [old EXCEPT !.state = "confirmed", !.until = until] ELSE old
  OBVIOUS
<1>5. job \in Job
  BY <1>4 DEF Job
<1>6. Settle(s, job) /\ sweep[s].pc = "done"
  BY <1>1, <1>2, <1>3, <1>4 DEF Confirm
<1>7. /\ UNCHANGED <<clock, lapsed, voice>>
      /\ jobs' = [jobs EXCEPT ![k] = job] /\ sweep' = [sweep EXCEPT ![s] = Resting]
  BY <1>1, <1>6 DEF Settle, Sweeps, time
<1>8. /\ jobs'[k] = job /\ \A j \in Keys \ {k} : jobs'[j] = jobs[j]
      /\ sweep'[s] = Resting /\ \A t \in Sweepers \ {s} : sweep'[t] = sweep[t]
  BY <1>1, <1>5, <1>7 DEF VoiceInvariant, TypeOK
<1>9. /\ sweep'[s].pc = "idle" /\ ~UnderWay(s)'
       /\ \A t \in Sweepers \ {s} : sweep'[t] = sweep[t] /\ (UnderWay(t)' <=> UnderWay(t))
  BY <1>8, RestIsEmpty DEF UnderWay
<1>10. \/ jobs'[k] = jobs[k]
      \/ /\ Pending(k) /\ jobs[k].state = "owed" /\ jobs'[k].state = "confirmed"
         /\ jobs'[k].asked = jobs[k].asked /\ jobs'[k].until = sweep[s].now + Barrier
  <2>1. CASE SameAttempt(s)
    <3>1. job.state = "confirmed" /\ job.asked = old.asked /\ job.until = until
      BY <1>4, <2>1 DEF Job
    <3>2. Pending(k) /\ jobs[k].state = "owed"
      BY <1>1, <1>6, <2>1 DEF SameAttempt, SameRequest, Timely, CallsHaveAJob, UnderWay
    <3>. QED  BY <1>2, <1>3, <1>8, <1>9, <3>1, <3>2
  <2>2. CASE ~SameAttempt(s)
    BY <1>2, <1>4, <1>8, <1>9, <2>2
  <2>. QED  BY <2>1, <2>2
<1>11. \A j \in Keys :
         \/ jobs'[j] = jobs[j]
         \/ /\ Pending(j) /\ jobs[j].state = "owed" /\ jobs'[j].state = "confirmed"
            /\ jobs'[j].asked = jobs[j].asked /\ jobs'[j].until = sweep[s].now + Barrier
  BY <1>8, <1>9, <1>10
<1>12. /\ clock <= sweep[s].now + Latency /\ \A t \in Sweepers : sweep[t].now <= clock
       /\ \A j \in Keys : jobs[j].asked <= clock
  BY <1>6 DEF Timely, SweepsArePunctual, VoiceInvariant, TimesAreOrdered
<1>13. \A j \in Keys : Pending(j)' <=> Pending(j)
  BY <1>11 DEF Pending
<1>14. SweepsArePunctual'
  BY <1>7, <1>8, <1>9 DEF Timely, SweepsArePunctual
<1>15. CallsHaveAJob'
  <2>. SUFFICES ASSUME NEW t \in Sweepers, NEW j \in Keys, UnderWay(t)', sweep'[t].key = j
                PROVE  /\ sweep'[t].read.state = "owed"
                       /\ Pending(j)' \/ j \in lapsed'
                       /\ jobs'[j].state = "confirmed" => sweep'[t].now + Barrier <= jobs'[j].until + Latency
    BY DEF CallsHaveAJob
  <2>1. sweep'[t] = sweep[t] /\ UnderWay(t) /\ sweep[t].key = j
    BY <1>8, <1>9
  <2>2. /\ sweep[t].read.state = "owed" /\ (Pending(j) \/ j \in lapsed)
        /\ jobs[j].state = "confirmed" => sweep[t].now + Barrier <= jobs[j].until + Latency
    BY <2>1 DEF Timely, CallsHaveAJob
  <2>3. sweep[t].now + Barrier <= sweep[s].now + Barrier + Latency
    BY <1>12, Numbers, Constants DEF VoiceInvariant
  <2>4. CASE jobs'[j] = jobs[j]
    BY <1>7, <1>13, <2>1, <2>2, <2>4
  <2>5. CASE jobs'[j].until = sweep[s].now + Barrier
    BY <1>7, <1>13, <2>1, <2>2, <2>3, <2>5
  <2>. QED  BY <1>11, <2>4, <2>5
<1>16. OverIsOver'
  BY <1>7, <1>8, <1>9, <1>11, <1>13 DEF Timely, OverIsOver
<1>17. ConfirmedStands'
  <2>. SUFFICES ASSUME NEW j \in Keys, jobs'[j].state = "confirmed"
                PROVE  /\ jobs'[j].asked + Barrier <= jobs'[j].until + Latency
                       /\ j \in Users => voice.cutoff[j] + Barrier <= jobs'[j].until + 2 * Latency + Buffer
    BY <1>7 DEF ConfirmedStands
  <2>1. CASE jobs'[j] = jobs[j]
    BY <2>1 DEF Timely, ConfirmedStands
  <2>2. CASE jobs'[j].asked = jobs[j].asked /\ jobs'[j].until = sweep[s].now + Barrier
    <3>1. j \in Users => voice.cutoff[j] <= clock + Buffer
      BY DEF Timely, CutoffsEnd
    <3>. QED  BY <1>12, <2>2, <3>1, Numbers, Constants DEF VoiceInvariant
  <2>. QED  BY <1>11, <2>1, <2>2
<1>18. CutoffsEnd'
  BY <1>7, <1>13, Constants DEF Timely, CutoffsEnd, Overrun
<1>. QED  BY <1>14, <1>15, <1>16, <1>17, <1>18 DEF Timely

\* A sweep whose call failed puts nothing back that another is about to forget:
\* that one began too late.
LEMMA RetryIsTimely == ASSUME VoiceInvariant, Timely, NEW s \in Sweepers, Retry(s) PROVE Timely'
<1>1. PICK k \in Keys : k = sweep[s].key
  BY Numbers DEF VoiceInvariant
<1>2. PICK tries : tries = IF jobs[k].state = "confirmed" THEN 0
                           ELSE IF jobs[k].tries < MaxTries THEN jobs[k].tries + 1 ELSE MaxTries
  OBVIOUS
<1>3. tries \in Nat /\ jobs[k] \in Job
  BY <1>2, Numbers, Constants DEF VoiceInvariant, Job
<1>4. PICK job : job = IF SameRequest(s)
                       THEN [state |-> "owed", asked |-> jobs[k].asked, until |-> 0, tries |-> tries]
                       ELSE jobs[k]
  OBVIOUS
<1>5. job \in Job
  BY <1>3, <1>4 DEF Job
<1>6. Settle(s, job) /\ sweep[s].pc = "failed"
  BY <1>1, <1>2, <1>4 DEF Retry
<1>7. /\ UNCHANGED <<clock, lapsed, voice>>
      /\ jobs' = [jobs EXCEPT ![k] = job] /\ sweep' = [sweep EXCEPT ![s] = Resting]
  BY <1>1, <1>6 DEF Settle, Sweeps, time
<1>8. /\ jobs'[k] = job /\ \A j \in Keys \ {k} : jobs'[j] = jobs[j]
      /\ sweep'[s] = Resting /\ \A t \in Sweepers \ {s} : sweep'[t] = sweep[t]
  BY <1>1, <1>5, <1>7 DEF VoiceInvariant, TypeOK
<1>9. /\ sweep'[s].pc = "idle" /\ ~UnderWay(s)'
       /\ \A t \in Sweepers \ {s} : sweep'[t] = sweep[t] /\ (UnderWay(t)' <=> UnderWay(t))
  BY <1>8, RestIsEmpty DEF UnderWay
<1>10. \/ jobs'[k] = jobs[k]
      \/ /\ Pending(k) /\ jobs'[k].state = "owed" /\ jobs'[k].asked = jobs[k].asked
  BY <1>1, <1>4, <1>8, <1>9 DEF SameRequest
<1>11. \A j \in Keys :
         \/ jobs'[j] = jobs[j]
         \/ j = k /\ Pending(j) /\ jobs'[j].state = "owed" /\ jobs'[j].asked = jobs[j].asked
  BY <1>8, <1>9, <1>10
<1>12. \A j \in Keys : Pending(j)' <=> Pending(j)
  BY <1>11 DEF Pending
<1>13. SweepsArePunctual'
  BY <1>7, <1>8, <1>9 DEF Timely, SweepsArePunctual
<1>14. CallsHaveAJob'
  BY <1>7, <1>8, <1>9, <1>11, <1>12 DEF Timely, CallsHaveAJob
<1>15. OverIsOver'
  <2>. SUFFICES ASSUME NEW t \in Sweepers, NEW j \in Keys, sweep'[t].pc = "over", sweep'[t].key = j
                PROVE  /\ sweep'[t].read.asked + Latency < clock
                       /\ Pending(j)' /\ jobs'[j].asked = sweep'[t].read.asked =>
                            jobs'[j].state = "confirmed" /\ jobs'[j].until <= sweep'[t].now
    BY <1>7 DEF OverIsOver
  <2>1. sweep'[t] = sweep[t]
    BY <1>8, <1>9
  <2>2. /\ sweep[t].read.asked + Latency < clock
        /\ Pending(j) /\ jobs[j].asked = sweep[t].read.asked =>
             jobs[j].state = "confirmed" /\ jobs[j].until <= sweep[t].now
    BY <2>1 DEF Timely, OverIsOver
  <2>3. CASE jobs'[j] = jobs[j]
    BY <1>12, <2>1, <2>2, <2>3
  <2>4. ASSUME j = k, Pending(j), jobs'[j].asked = jobs[j].asked, jobs[j].asked = sweep[t].read.asked
        PROVE  FALSE
    <3>1. jobs[k].state = "confirmed" /\ jobs[k].until <= sweep[t].now
      BY <2>2, <2>4
    <3>2. sweep[s].now + Barrier <= jobs[k].until + Latency
      BY <1>1, <1>6, <3>1 DEF Timely, CallsHaveAJob, UnderWay
    <3>3. clock <= sweep[s].now + Latency /\ sweep[t].now <= clock
      BY <1>6 DEF Timely, SweepsArePunctual, VoiceInvariant, TimesAreOrdered
    <3>. QED  BY <3>1, <3>2, <3>3, Numbers, Constants DEF VoiceInvariant
  <2>. QED  BY <1>11, <1>12, <2>1, <2>2, <2>3, <2>4
<1>16. ConfirmedStands'
  BY <1>7, <1>11 DEF Timely, ConfirmedStands
<1>17. CutoffsEnd'
  BY <1>7, <1>12, Constants DEF Timely, CutoffsEnd, Overrun
<1>. QED  BY <1>13, <1>14, <1>15, <1>16, <1>17 DEF Timely

\* When a job is forgotten the cutoff is over, or about to be, and no sweep
\* is still under way for it.
LEMMA ForgetIsTimely == ASSUME VoiceInvariant, Timely, NEW s \in Sweepers, Forget(s) PROVE Timely'
<1>1. PICK k \in Keys : k = sweep[s].key
  BY Numbers DEF VoiceInvariant
<1>2. /\ sweep[s].pc = "over" /\ sweep' = [sweep EXCEPT ![s] = Resting]
      /\ UNCHANGED <<clock, voice>>
      /\ \/ jobs' = jobs /\ lapsed' = lapsed
         \/ /\ SameRequest(s) /\ jobs' = [jobs EXCEPT ![k] = NoJob]
            /\ lapsed' \in {lapsed, lapsed \cup {k}}
  BY <1>1 DEF Forget, Sweeps, outbox, time
<1>3. PICK job \in Job : /\ jobs' = [jobs EXCEPT ![k] = job]
                         /\ job = jobs[k] \/ (job.state = "none" /\ SameRequest(s))
  <2>1. CASE jobs' = jobs
    <3>1. PICK job \in Job : job = jobs[k]
      BY Numbers DEF VoiceInvariant
    <3>2. jobs = [jobs EXCEPT ![k] = job]
      BY <3>1 DEF VoiceInvariant, TypeOK
    <3>. QED  BY <2>1, <3>1, <3>2
  <2>2. CASE SameRequest(s) /\ jobs' = [jobs EXCEPT ![k] = NoJob]
    BY <2>2, RestIsEmpty
  <2>. QED  BY <1>2, <2>1, <2>2
<1>4. /\ jobs'[k] = job /\ \A j \in Keys \ {k} : jobs'[j] = jobs[j]
      /\ sweep'[s] = Resting /\ \A t \in Sweepers \ {s} : sweep'[t] = sweep[t]
  BY <1>1, <1>2, <1>3 DEF VoiceInvariant, TypeOK
<1>5. /\ sweep'[s].pc = "idle" /\ ~UnderWay(s)'
       /\ \A t \in Sweepers \ {s} : sweep'[t] = sweep[t] /\ (UnderWay(t)' <=> UnderWay(t))
  BY <1>4, RestIsEmpty DEF UnderWay
<1>6. SameRequest(s) => jobs[k].state = "confirmed" /\ jobs[k].until <= sweep[s].now
  BY <1>1, <1>2 DEF Timely, OverIsOver, SameRequest
<1>7. sweep[s].now <= clock /\ lapsed \subseteq lapsed'
  BY <1>2 DEF VoiceInvariant, TimesAreOrdered
<1>8. \A j \in Keys :
        \/ jobs'[j] = jobs[j]
        \/ /\ j = k /\ jobs'[j].state = "none" /\ jobs[j].state = "confirmed" /\ jobs[j].until <= clock
  BY <1>3, <1>4, <1>5, <1>6, <1>7, Numbers DEF VoiceInvariant
<1>9. SweepsArePunctual'
  BY <1>2, <1>4, <1>5 DEF Timely, SweepsArePunctual
<1>10. CallsHaveAJob'
  <2>. SUFFICES ASSUME NEW t \in Sweepers, NEW j \in Keys, UnderWay(t)', sweep'[t].key = j
                PROVE  /\ sweep'[t].read.state = "owed"
                       /\ Pending(j)' \/ j \in lapsed'
                       /\ jobs'[j].state = "confirmed" => sweep'[t].now + Barrier <= jobs'[j].until + Latency
    BY DEF CallsHaveAJob
  <2>1. sweep'[t] = sweep[t] /\ UnderWay(t) /\ sweep[t].key = j
    BY <1>4, <1>5
  <2>2. /\ sweep[t].read.state = "owed" /\ (Pending(j) \/ j \in lapsed)
        /\ jobs[j].state = "confirmed" => sweep[t].now + Barrier <= jobs[j].until + Latency
    BY <2>1 DEF Timely, CallsHaveAJob
  <2>3. CASE jobs'[j] = jobs[j]
    BY <1>7, <2>1, <2>2, <2>3 DEF Pending
  <2>4. CASE jobs[j].state = "confirmed" /\ jobs[j].until <= clock
    <3>1. clock <= sweep[t].now + Latency
      BY <2>1 DEF Timely, SweepsArePunctual, UnderWay
    <3>. QED  BY <2>2, <2>4, <3>1, Numbers, Constants DEF VoiceInvariant
  <2>. QED  BY <1>8, <2>3, <2>4
<1>11. OverIsOver'
  BY <1>2, <1>4, <1>5, <1>8 DEF Timely, OverIsOver, Pending
<1>12. ConfirmedStands'
  BY <1>2, <1>8 DEF Timely, ConfirmedStands
<1>13. CutoffsEnd'
  <2>. SUFFICES ASSUME NEW u \in Users
                PROVE  /\ voice.cutoff[u] <= clock + Buffer
                       /\ ~Pending(u)' /\ u \notin lapsed' => voice.cutoff[u] <= clock + Overrun
    BY <1>2 DEF CutoffsEnd, Overrun
  <2>1. u \in Keys
    BY Constants
  <2>2. CASE jobs'[u] = jobs[u]
    BY <1>7, <2>2 DEF Timely, CutoffsEnd, Pending
  <2>3. CASE jobs[u].state = "confirmed" /\ jobs[u].until <= clock
    <3>1. /\ voice.cutoff[u] + Barrier <= jobs[u].until + 2 * Latency + Buffer
          /\ voice.cutoff[u] <= clock + Buffer
      BY <2>1, <2>3 DEF Timely, ConfirmedStands, CutoffsEnd
    <3>. QED  BY <2>1, <2>3, <3>1, Numbers, Constants DEF VoiceInvariant
  <2>. QED  BY <1>8, <2>1, <2>2, <2>3
<1>. QED  BY <1>9, <1>10, <1>11, <1>12, <1>13 DEF Timely

\* Time passes under every sweep alike, as long as all of them are punctual.
LEMMA TickIsTimely == ASSUME VoiceInvariant, BarrierInvariant, Tick PROVE BarrierInvariant'
<1>. SUFFICES ASSUME punctual' PROVE Timely'
  BY DEF BarrierInvariant
<1>1. /\ clock' = clock + 1 /\ Timely
      /\ \A s \in Sweepers : sweep[s].pc # "idle" => clock - sweep[s].now < Latency
      /\ UNCHANGED <<jobs, lapsed, sweep, voice>>
  BY DEF Tick, BarrierInvariant, outbox
<1>2. clock \in Nat /\ \A s \in Sweepers : sweep[s].now \in Nat /\ sweep[s].read.asked \in Nat
  BY Numbers DEF VoiceInvariant
<1>3. SweepsArePunctual'
  BY <1>1, <1>2, Constants DEF SweepsArePunctual
<1>4. CallsHaveAJob'
  BY <1>1 DEF Timely, CallsHaveAJob, UnderWay, Pending
<1>5. OverIsOver'
  BY <1>1, <1>2, Constants DEF Timely, OverIsOver, Pending
<1>6. ConfirmedStands'
  BY <1>1 DEF Timely, ConfirmedStands
<1>7. CutoffsEnd'
  BY <1>1, <1>2, Numbers, Constants DEF Timely, CutoffsEnd, Pending, Overrun, VoiceInvariant
<1>. QED  BY <1>3, <1>4, <1>5, <1>6, <1>7 DEF Timely

\* Only time can make a sweep late.
LEMMA StepIsTimely ==
  ASSUME VoiceInvariant, BarrierInvariant, [Next]_vars PROVE BarrierInvariant'
<1>1. CASE Tick
  BY <1>1, TickIsTimely
<1>2. CASE UNCHANGED vars
  BY <1>2 DEF vars, time, outbox, BarrierInvariant, Timely, SweepsArePunctual, CallsHaveAJob,
              OverIsOver, ConfirmedStands, CutoffsEnd, UnderWay, Pending, Overrun
<1>3. ASSUME Timely, \/ Table \/ \E u \in Users : Session(u) \/ Browser(u)
                     \/ \E s \in Sweepers : Sweep(s)
      PROVE  Timely'
  <2>1. ASSUME NEW s \in Sweepers, Sweep(s) PROVE Timely'
    BY <1>3, <2>1, BeginSweepIsTimely, ReadJobIsTimely, CallIsTimely, CallFailsIsTimely,
       ConfirmIsTimely, RetryIsTimely, ForgetIsTimely DEF Sweep
  <2>. QED  BY <1>3, <2>1, TableIsTimely, UsersAreTimely
<1>4. ASSUME \/ Table \/ \E u \in Users : Session(u) \/ Browser(u)
             \/ \E s \in Sweepers : Sweep(s)
      PROVE  punctual' = punctual
  BY <1>4 DEF Table, Depart, Publish, Close, Purge, Block, Unblock, Accept, Session, AskSession,
              Mint, Recheck, Reject, Deliver, DropSession, Browser, Connect, Disconnect, Expire,
              Sweep, BeginSweep, ReadJob, CallSucceeds, CallTimesOut, CallFails, Confirm, Retry,
              Forget, CrashSweep, Settle, time
<1>. QED  BY <1>1, <1>2, <1>3, <1>4 DEF Next, BarrierInvariant

\* At first nothing is under way.
LEMMA InitIsTimely == Init => BarrierInvariant
<1>. SUFFICES ASSUME Init PROVE Timely
  BY DEF BarrierInvariant
<1>1. /\ clock = 0 /\ \A s \in Sweepers : sweep[s].pc = "idle"
      /\ \A k \in Keys : jobs[k].state = "none"
      /\ \A u \in Users : voice.cutoff[u] = 0
  BY DEF Init, NoJob, Resting
<1>2. Overrun \in Nat
  BY Constants DEF Overrun
<1>. QED  BY <1>1, <1>2, Constants DEF Timely, SweepsArePunctual, CallsHaveAJob, OverIsOver,
                                     ConfirmedStands, CutoffsEnd, UnderWay

\* As long as the provider refuses what is made for a player, and for all but
\* the Overrun of that time, a job keeps the table from making tokens that
\* admit nobody (live-voice-provider.ts:147, live-voice-cleanup.ts:175): no
\* order of sweeps that take up to Latency ends the barrier sooner.
THEOREM BarrierAlwaysCoversCutoff == Spec => []BarrierCoversCutoff
<1>1. Init => BarrierInvariant
  BY InitIsTimely
<1>2. VoiceInvariant /\ BarrierInvariant /\ [Next]_vars => BarrierInvariant'
  BY StepIsTimely
<1>3. VoiceInvariant /\ BarrierInvariant => BarrierCoversCutoff
  <2>. SUFFICES ASSUME VoiceInvariant, Timely, NEW u \in Users,
                       voice.cutoff[u] > clock + Overrun, ~Expired(u, clock), u \notin lapsed
                PROVE  Standing(u, clock)
    BY DEF BarrierInvariant, BarrierCoversCutoff, GivenUp
  <2>1. Pending(u)
    BY Numbers DEF VoiceInvariant, Timely, CutoffsEnd
  <2>. QED  BY <2>1, Numbers, Constants DEF Standing, Expired, VoiceInvariant
<1>. QED  BY <1>1, <1>2, <1>3, VoiceIsConsistent, PTL DEF Spec

\* A job leaves the outbox when it is past its retention, or when it was
\* confirmed and has stood its time (live-voice-cleanup.ts:305): no sweep that
\* is late with forgetting one takes away another.
THEOREM JobsAlwaysStandTheirTime == Spec => JobsStandTheirTime
<1>. DEFINE Over(k) == Expired(k, clock) \/ (jobs[k].state = "confirmed" /\ jobs[k].until <= clock)
<1>1. ASSUME VoiceInvariant, BarrierInvariant, [Next]_vars, punctual,
             NEW k \in Keys, Pending(k), ~Pending(k)'
      PROVE  Over(k)
  <2>1. ASSUME UNCHANGED jobs PROVE FALSE
    BY <1>1, <2>1 DEF Pending
  <2>2. ASSUME NEW S, NEW now, Enqueue(S, now) \/ EnqueueMissing(S, now) PROVE FALSE
    <3>1. jobs'[k] = jobs[k] \/ jobs'[k].state = "owed"
      BY <2>2 DEF Enqueue, EnqueueMissing, Upsert
    <3>. QED  BY <1>1, <3>1 DEF Pending
  <2>3. ASSUME NEW s \in Sweepers, NEW job, Settle(s, job),
               job = jobs[sweep[s].key] \/ job.state # "none"
        PROVE  FALSE
    <3>1. PICK j \in Keys : j = sweep[s].key
      BY <1>1, Numbers DEF VoiceInvariant
    <3>2. jobs' = [jobs EXCEPT ![j] = job] /\ (job = jobs[j] \/ job.state # "none")
      BY <2>3, <3>1 DEF Settle
    <3>3. jobs'[k] = jobs[k] \/ jobs'[k].state # "none"
      BY <1>1, <3>2 DEF VoiceInvariant, TypeOK
    <3>. QED  BY <1>1, <3>3 DEF Pending
  <2>4. CASE Table
    BY <2>1, <2>2, <2>4 DEF Table, Depart, Publish, Close, Purge, Block, Unblock, Accept, outbox
  <2>5. CASE Tick \/ UNCHANGED vars
    BY <2>1, <2>5 DEF Tick, vars, outbox
  <2>6. ASSUME NEW u \in Users, Session(u) \/ Browser(u) PROVE Over(k)
    BY <2>1, <2>2, <2>6 DEF Session, AskSession, Mint, Recheck, Reject, Deliver, DropSession,
                            Browser, Connect, Disconnect, Expire, outbox
  <2>7. ASSUME NEW s \in Sweepers, BeginSweep(s) PROVE Over(k)
    BY <1>1, <2>7 DEF BeginSweep, Pending
  <2>8. ASSUME NEW s \in Sweepers, NEW j \in Keys,
               \/ ReadJob(s, j) \/ CallSucceeds(s) \/ CallTimesOut(s) \/ CallFails(s) \/ CrashSweep(s)
        PROVE  Over(k)
    BY <2>1, <2>8 DEF ReadJob, CallSucceeds, CallTimesOut, CallFails, CrashSweep, outbox
  <2>9. ASSUME NEW s \in Sweepers, Confirm(s) PROVE Over(k)
    <3>1. PICK old \in Job, until \in Nat : old = jobs[sweep[s].key] /\ until = sweep[s].now + Barrier
      BY <1>1, Numbers, Constants DEF VoiceInvariant
    <3>2. PICK job : job = [old EXCEPT !.state = "confirmed", !.until = until]
      OBVIOUS
    <3>3. job.state = "confirmed"
      BY <3>2 DEF Job
    <3>4. Settle(s, job) \/ Settle(s, old)
      BY <2>9, <3>1, <3>2 DEF Confirm
    <3>. QED  BY <2>3, <3>1, <3>3, <3>4
  <2>10. ASSUME NEW s \in Sweepers, Retry(s) PROVE Over(k)
    <3>1. PICK job : Settle(s, job) /\ (job = jobs[sweep[s].key] \/ job.state = "owed")
      BY <2>10 DEF Retry
    <3>. QED  BY <2>3, <2>10, <3>1
  <2>11. ASSUME NEW s \in Sweepers, Forget(s) PROVE Over(k)
    <3>1. PICK j \in Keys : j = sweep[s].key
      BY <1>1, Numbers DEF VoiceInvariant
    <3>2. \/ UNCHANGED jobs
          \/ sweep[s].pc = "over" /\ SameRequest(s) /\ jobs' = [jobs EXCEPT ![j] = NoJob]
      BY <2>11, <3>1 DEF Forget, outbox
    <3>3. k = j /\ sweep[s].pc = "over" /\ SameRequest(s)
      BY <1>1, <2>1, <3>2 DEF Pending, VoiceInvariant, TypeOK
    <3>4. jobs[k].state = "confirmed" /\ jobs[k].until <= sweep[s].now /\ sweep[s].now <= clock
      BY <1>1, <3>1, <3>3 DEF BarrierInvariant, Timely, OverIsOver, SameRequest, VoiceInvariant,
                              TimesAreOrdered
    <3>. QED  BY <1>1, <3>4, Numbers DEF VoiceInvariant
  <2>. QED  BY <1>1, <2>4, <2>5, <2>6, <2>7, <2>8, <2>9, <2>10, <2>11 DEF Next, Sweep
<1>2. VoiceInvariant /\ BarrierInvariant /\ [Next]_vars =>
        [punctual => \A k \in Keys : Pending(k) /\ ~Pending(k)' =>
           \/ Expired(k, clock)
           \/ jobs[k].state = "confirmed" /\ jobs[k].until <= clock]_vars
  BY <1>1
<1>3. VoiceInvariant /\ BarrierInvariant /\ [Next]_vars => BarrierInvariant'
  BY StepIsTimely
<1>4. Init => BarrierInvariant
  BY InitIsTimely
<1>. QED  BY <1>2, <1>3, <1>4, VoiceIsConsistent, PTL DEF Spec, JobsStandTheirTime
=============================================================================
