---------------------------- MODULE RosterProofs ----------------------------
(***************************************************************************)
(* What the server may rely on of the outcomes of a command, for any       *)
(* finite number of users and any number of seats.                         *)
(***************************************************************************)
EXTENDS Roster, FiniteSetTheorems, WellFoundedInduction, TLAPS

RosterAssumption == IsFiniteSet(Users) /\ MaxPlayers \in Nat /\ None \notin Users

\* Whoever plays or is present is a user, and somebody who plays is present.
LEMMA Members ==
  ASSUME NEW t
  PROVE  Playing(t) \subseteq Present(t) /\ Present(t) \subseteq Users
  BY DEF Playing, Present

\* The only one left plays.
LEMMA OnlyOneLeft ==
  ASSUME RosterAssumption, NEW t, Cardinality(Playing(t)) = 1
  PROVE  (CHOOSE w \in Playing(t) : TRUE) \in Playing(t)
<1>1. IsFiniteSet(Playing(t))
  BY FS_Subset DEF Playing, RosterAssumption
<1>2. Playing(t) # {}
  BY <1>1, FS_EmptySet
<1> QED
  BY <1>2

\* A winner is entered and the phase changes, nothing else.
LEMMA WonIs ==
  ASSUME NEW t \in Rosters, NEW w \in Users
  PROVE  /\ Won(t, w) \in Rosters
         /\ Won(t, w).phase = "complete" /\ Won(t, w).winner = w
         /\ Won(t, w).status = t.status /\ Won(t, w).seat = t.seat /\ Won(t, w).host = t.host
<1> DEFINE a == [t EXCEPT !.phase = "complete"]
<1>1. a \in Rosters /\ a.phase = "complete"
      /\ a.status = t.status /\ a.seat = t.seat /\ a.host = t.host
  BY DEF Rosters
<1>2. Won(t, w) = [a EXCEPT !.winner = w]
  BY DEF Won, Rosters
<1> HIDE DEF a
<1> QED
  BY <1>1, <1>2 DEF Rosters

\* A table settles as it is, or with a winner who plays at it.
LEMMA SettledIs ==
  ASSUME RosterAssumption, NEW t \in Rosters
  PROVE  /\ Settled(t) \in Rosters
         /\ Settled(t).status = t.status /\ Settled(t).seat = t.seat /\ Settled(t).host = t.host
         /\ Settled(t) = t \/ (Settled(t).phase = "complete" /\ Settled(t).winner \in Users)
<1>1. CASE t.phase = "playing" /\ Cardinality(Playing(t)) = 1
  <2> DEFINE w == CHOOSE w \in Playing(t) : TRUE
  <2>1. w \in Users
    BY <1>1, OnlyOneLeft, Members
  <2>2. Settled(t) = Won(t, w)
    BY <1>1 DEF Settled
  <2> HIDE DEF w
  <2> QED
    BY <2>1, <2>2, WonIs
<1>2. CASE ~(t.phase = "playing" /\ Cardinality(Playing(t)) = 1)
  BY Zenon, <1>2 DEF Settled
<1> QED
  BY <1>1, <1>2

\* What a player may be, and a table with the status of one user set.
Statuses == {"absent", "active", "eliminated", "left"}
StatusSet(t, u, s) == [t EXCEPT !.status[u] = s]

\* A status that is set is the only thing that changes.
LEMMA StatusIsSet ==
  ASSUME NEW t \in Rosters, NEW u \in Users, NEW s \in Statuses
  PROVE  /\ StatusSet(t, u, s) \in Rosters
         /\ StatusSet(t, u, s).status = [t.status EXCEPT ![u] = s]
         /\ StatusSet(t, u, s).phase = t.phase /\ StatusSet(t, u, s).seat = t.seat
         /\ StatusSet(t, u, s).host = t.host /\ StatusSet(t, u, s).winner = t.winner
  BY DEF Statuses, StatusSet, Rosters

-----------------------------------------------------------------------------
\* What is said below of every outcome n of the command c of u at t.
OutcomeIsSound(t, u, c, n) ==
  /\ n \in Rosters /\ LobbyIsPlain(n)
  /\ Present(n) = {} => c.type = "leave"
  /\ t.phase = "playing" /\ n.phase = "complete" => n.winner \in Users
  /\ \A v \in Users : n.status[v] = "absent" => v \notin Present(t)
  /\ c.type = "join" =>
       /\ n.status[u] = "active"
       /\ \A v \in Users \ {u} : v \in Present(n) \cup Present(t) =>
            n.status[v] = t.status[v] /\ n.seat[v] = t.seat[v]

\* A set of numbers that is not empty has a least one.
LEMMA LeastOf ==
  ASSUME NEW S \in SUBSET Nat, S # {}
  PROVE  \E m \in S : \A n \in S : m <= n
<1>1. PICK m \in S : \A n \in S : <<n, m>> \notin OpToRel(<, Nat)
  BY WFMin, NatLessThanWellFounded, Zenon
<1>2. \A n \in S : ~(n < m)
  BY <1>1, Zenon DEF OpToRel
<1> QED
  BY <1>2

\* Among fewer people than seats a seat is free, and is nobody's.
LEMMA FirstFreeIsASeat ==
  ASSUME RosterAssumption, NEW A \in SUBSET Users, Cardinality(A) < MaxPlayers,
         NEW s \in [Users -> 0..MaxPlayers]
  PROVE  /\ FirstFree({s[v] : v \in A}) \in 0..MaxPlayers
         /\ \A v \in A : FirstFree({s[w] : w \in A}) # s[v]
<1> USE DEF RosterAssumption
<1> DEFINE taken == {s[v] : v \in A}
           f == [v \in A |-> s[v]]
           free == {n \in 0..MaxPlayers : n \notin taken}
<1>1. IsFiniteSet(A) /\ Cardinality(A) \in Nat
  BY FS_Subset, FS_CardinalityType
<1>2. f \in Surjection(A, taken)
  BY DEF Surjection
<1>3. IsFiniteSet(taken) /\ Cardinality(taken) \in Nat /\ Cardinality(taken) <= Cardinality(A)
  BY <1>1, <1>2, FS_Surjection, FS_CardinalityType
<1>4. Cardinality(0..MaxPlayers) = MaxPlayers + 1
  BY FS_Interval
<1>5. ~(0..MaxPlayers \subseteq taken)
  BY <1>1, <1>3, <1>4, FS_Subset
<1>6. free \in SUBSET Nat /\ free # {}
  BY <1>5
<1> HIDE DEF free
<1>7. PICK m \in free : \A n \in free : m <= n
  BY <1>6, LeastOf
<1>8. m \in 0..MaxPlayers /\ m \notin taken /\ \A n \in 0..MaxPlayers : n < m => n \in taken
  BY <1>7 DEF free
<1>9. \A v \in A : s[v] \in taken
  OBVIOUS
<1> HIDE DEF taken
<1>10. FirstFree(taken) \in 0..MaxPlayers /\ FirstFree(taken) \notin taken
  BY <1>8 DEF FirstFree
<1> QED
  BY <1>9, <1>10 DEF taken

\* The seats after a join.
LEMMA JoinIsSound ==
  ASSUME RosterAssumption, NEW t \in Rosters, LobbyIsPlain(t), NEW u \in Users,
         NEW c, c.type = "join", NEW n \in Joined(t, u)
  PROVE  OutcomeIsSound(t, u, c, n)
<1> DEFINE status == [v \in Users |-> IF v = u THEN "active"
                                      ELSE IF t.status[v] = "left" THEN "absent" ELSE t.status[v]]
           free == FirstFree({t.seat[v] : v \in Present(t)})
           place == IF t.status[u] = "absent" THEN free ELSE t.seat[u]
           seat == [t.seat EXCEPT ![u] = place]
           a == [t EXCEPT !.status = status]
<1>1. /\ t.phase = "lobby" /\ u \notin Playing(t) /\ Cardinality(Playing(t)) < MaxPlayers
      /\ n = [a EXCEPT !.seat = seat]
  BY DEF Joined, Rosters
<1>2. place \in 0..MaxPlayers
  <2>1. Present(t) = Playing(t) /\ Playing(t) \in SUBSET Users
    BY <1>1, Members DEF LobbyIsPlain
  <2>2. t.seat \in [Users -> 0..MaxPlayers]
    BY DEF Rosters
  <2>3. free \in 0..MaxPlayers
    BY <1>1, <2>1, <2>2, FirstFreeIsASeat
  <2> QED
    BY <2>2, <2>3
<1>3. /\ status \in [Users -> {"absent", "active", "eliminated", "left"}]
      /\ seat \in [Users -> 0..MaxPlayers]
  BY <1>2 DEF Rosters
<1>4. \A v \in Users \ {u} : seat[v] = t.seat[v]
  BY DEF Rosters
<1> HIDE DEF place
<1>5. \A v \in Users : /\ v = u => status[v] = "active"
                       /\ v # u /\ t.status[v] # "left" => status[v] = t.status[v]
                       /\ v # u /\ t.status[v] = "left" => status[v] = "absent"
  BY DEF Rosters
<1> HIDE DEF status, seat
<1>6. a \in Rosters /\ a.status = status /\ a.phase = "lobby"
  BY <1>1, <1>3 DEF Rosters
<1> HIDE DEF a
<1>7. n \in Rosters /\ n.status = status /\ n.seat = seat /\ n.phase = "lobby"
  BY <1>1, <1>3, <1>6 DEF Rosters
<1>8. Present(n) = Playing(n) /\ u \in Present(n)
  BY <1>1, <1>3, <1>5, <1>7 DEF Present, Playing, LobbyIsPlain
<1>9. \A v \in Users : n.status[v] = "absent" => v \notin Present(t)
  BY <1>5, <1>7 DEF Present
<1>10. \A v \in Users \ {u} : v \in Present(n) \cup Present(t) =>
         n.status[v] = t.status[v] /\ n.seat[v] = t.seat[v]
  BY <1>4, <1>5, <1>7 DEF Present
<1> QED
  BY <1>1, <1>5, <1>7, <1>8, <1>9, <1>10 DEF OutcomeIsSound, LobbyIsPlain

\* Somebody is knocked out, leaves or is removed, and the table settles.
LEMMA SettledIsSound ==
  ASSUME RosterAssumption, NEW t \in Rosters, t.phase # "lobby", NEW u \in Users, NEW c,
         c.type # "join", NEW v \in Users, NEW s \in {"eliminated", "left"},
         Present(StatusSet(t, v, s)) = {} => c.type = "leave"
  PROVE  OutcomeIsSound(t, u, c, Settled(StatusSet(t, v, s)))
<1> DEFINE g == StatusSet(t, v, s)
           n == Settled(g)
<1>1. /\ g \in Rosters /\ g.status = [t.status EXCEPT ![v] = s] /\ g.phase = t.phase
  <2>1. s \in Statuses
    BY DEF Statuses
  <2> QED
    BY Zenon, <2>1, StatusIsSet
<1> HIDE DEF g
<1>2. /\ n \in Rosters /\ n.status = g.status
      /\ n = g \/ (n.phase = "complete" /\ n.winner \in Users)
  BY <1>1, SettledIs
<1> HIDE DEF n
<1>3. Present(n) = Present(g)
  BY <1>2 DEF Present
<1>4. \A x \in Users : n.status[x] = "absent" => t.status[x] = "absent"
  BY <1>1, <1>2 DEF Rosters
<1>5. n.phase # "lobby"
  BY <1>1, <1>2
<1>6. t.phase = "playing" /\ n.phase = "complete" => n.winner \in Users
  BY <1>1, <1>2
<1>7. Present(n) = {} => c.type = "leave"
  BY <1>3 DEF g
<1>8. OutcomeIsSound(t, u, c, n)
  BY <1>2, <1>4, <1>5, <1>6, <1>7 DEF OutcomeIsSound, LobbyIsPlain, Present
<1> QED
  BY <1>8 DEF n, g

\* A move of the game.
LEMMA ActIsSound ==
  ASSUME RosterAssumption, NEW t \in Rosters, LobbyIsPlain(t), NEW u \in Users,
         NEW c, c.type = "act", NEW n \in Acted(t, u)
  PROVE  OutcomeIsSound(t, u, c, n)
<1>1. u \in Playing(t) /\ t.phase # "complete"
  BY DEF Acted
<1>2. CASE n = t
  BY <1>1, <1>2, Members DEF OutcomeIsSound, Present
<1>3. ASSUME t.phase # "lobby", NEW v \in Playing(t),
             n = Settled([t EXCEPT !.status[v] = "eliminated"])
      PROVE  OutcomeIsSound(t, u, c, n)
  <2>1. v \in Users
    BY Members
  <2>2. v \in Present(StatusSet(t, v, "eliminated"))
    <3>1. "eliminated" \in Statuses
      BY DEF Statuses
    <3>2. StatusSet(t, v, "eliminated").status = [t.status EXCEPT ![v] = "eliminated"]
      BY Zenon, <2>1, <3>1, StatusIsSet
    <3> QED
      BY <2>1, <3>2 DEF Present, Rosters
  <2>3. OutcomeIsSound(t, u, c, Settled(StatusSet(t, v, "eliminated")))
    BY <1>3, <2>1, <2>2, SettledIsSound
  <2> QED
    BY <1>3, <2>3 DEF StatusSet
<1>4. CASE t.phase # "lobby" /\ n = Won(t, u)
  BY <1>1, <1>4, Members, WonIs DEF OutcomeIsSound, LobbyIsPlain, Present
<1> QED
  BY <1>2, <1>3, <1>4 DEF Acted

\* The deal.
LEMMA StartIsSound ==
  ASSUME RosterAssumption, NEW t \in Rosters, LobbyIsPlain(t), NEW u \in Users,
         NEW c, c.type = "start", NEW n \in Started(t, u)
  PROVE  OutcomeIsSound(t, u, c, n)
<1> DEFINE status == [v \in Users |-> IF t.status[v] = "left" THEN "absent" ELSE t.status[v]]
           a == [t EXCEPT !.phase = "playing"]
<1>1. t.phase = "lobby" /\ u \in Playing(t) /\ n = [a EXCEPT !.status = status]
  BY DEF Started, Rosters
<1>2. status \in [Users -> {"absent", "active", "eliminated", "left"}]
  BY DEF Rosters
<1>3. \A v \in Users : status[v] = "absent" => v \notin Present(t)
  BY DEF Present
<1>4. status[u] = "active"
  BY <1>1 DEF Playing
<1> HIDE DEF status
<1>5. a \in Rosters /\ a.phase = "playing"
  BY DEF Rosters
<1> HIDE DEF a
<1>6. n \in Rosters /\ n.phase = "playing" /\ n.status = status
  BY <1>1, <1>2, <1>5 DEF Rosters
<1>7. u \in Present(n)
  BY <1>1, <1>4, <1>6 DEF Present, Playing
<1> QED
  BY <1>1, <1>3, <1>6, <1>7 DEF OutcomeIsSound, LobbyIsPlain

\* The table is cleared for another game.
LEMMA RematchIsSound ==
  ASSUME RosterAssumption, NEW t \in Rosters, LobbyIsPlain(t), NEW u \in Users,
         NEW c, c.type = "rematch", NEW n \in Rematched(t, u)
  PROVE  OutcomeIsSound(t, u, c, n)
<1> DEFINE status == [v \in Users |-> IF v \in Present(t) THEN "active" ELSE "absent"]
           a == [t EXCEPT !.phase = "lobby"]
           b == [a EXCEPT !.winner = None]
<1>1. t.phase = "complete" /\ u \in Present(t) /\ n = [b EXCEPT !.status = status]
  BY DEF Rematched, Rosters
<1>2. /\ status \in [Users -> {"absent", "active", "eliminated", "left"}]
      /\ \A v \in Users : status[v] = IF v \in Present(t) THEN "active" ELSE "absent"
  OBVIOUS
<1> HIDE DEF status
<1>3. a \in Rosters /\ a.phase = "lobby"
  BY DEF Rosters
<1> HIDE DEF a
<1>4. b \in Rosters /\ b.phase = "lobby"
  BY <1>3 DEF Rosters
<1> HIDE DEF b
<1>5. n \in Rosters /\ n.phase = "lobby" /\ n.status = status
  BY <1>1, <1>2, <1>4 DEF Rosters
<1>6. Present(n) = Playing(n) /\ u \in Present(n)
  BY <1>1, <1>2, <1>5 DEF Present, Playing
<1> QED
  BY <1>1, <1>2, <1>5, <1>6 DEF OutcomeIsSound, LobbyIsPlain

\* Another host.
HostSet(t, h) == [t EXCEPT !.host = h]

\* Another host changes nothing else.
LEMMA HostIsSet ==
  ASSUME NEW t \in Rosters, NEW h \in Users
  PROVE  /\ HostSet(t, h) \in Rosters
         /\ HostSet(t, h).status = t.status /\ HostSet(t, h).seat = t.seat
         /\ HostSet(t, h).phase = t.phase /\ HostSet(t, h).winner = t.winner
  BY DEF HostSet, Rosters

\* An outcome stays sound when the host of it changes.
LEMMA NewHostIsSound ==
  ASSUME NEW t, NEW u, NEW c, NEW n \in Rosters, OutcomeIsSound(t, u, c, n), NEW h \in Users
  PROVE  OutcomeIsSound(t, u, c, HostSet(n, h))
  BY HostIsSet DEF OutcomeIsSound, LobbyIsPlain, Present, Playing

\* To claim the host changes the host at most.
LEMMA ClaimIsSound ==
  ASSUME RosterAssumption, NEW t \in Rosters, LobbyIsPlain(t), NEW u \in Users,
         NEW c, c.type = "claim", NEW n \in Claimed(t, u)
  PROVE  OutcomeIsSound(t, u, c, n)
<1>1. n = HostSet(t, u) /\ t.host \in Present(t)
  BY DEF Claimed, HostSet
<1>2. OutcomeIsSound(t, u, c, t)
  BY <1>1 DEF OutcomeIsSound, Present
<1> QED
  BY <1>1, <1>2, NewHostIsSound

\* Whoever leaves or is removed is gone; a lobby that loses its last player is over.
LEMMA WithoutIsSound ==
  ASSUME RosterAssumption, NEW t \in Rosters, LobbyIsPlain(t), NEW u \in Users,
         NEW c, c.type # "join", NEW v \in Users,
         c.type # "leave" => \E w \in Users \ {v} : w \in Present(t)
  PROVE  OutcomeIsSound(t, u, c, Without(t, v))
<1> DEFINE g == StatusSet(t, v, "left")
<1>1. /\ g \in Rosters /\ g.status = [t.status EXCEPT ![v] = "left"] /\ g.phase = t.phase
  <2>1. "left" \in Statuses
    BY DEF Statuses
  <2> QED
    BY Zenon, <2>1, StatusIsSet
<1>2. Without(t, v) = IF t.phase = "lobby" /\ Playing(g) = {}
                      THEN [g EXCEPT !.phase = "complete"] ELSE Settled(g)
  BY DEF Without, StatusSet
<1>3. Present(g) = {} => c.type = "leave"
  BY <1>1 DEF Present, Rosters
<1>4. CASE t.phase # "lobby"
  BY <1>2, <1>3, <1>4, SettledIsSound
<1> HIDE DEF g
<1>5. \A x \in Users : g.status[x] = "absent" => x \notin Present(t)
  BY <1>1 DEF Present, Rosters
<1>6. CASE t.phase = "lobby" /\ Playing(g) # {}
  <2>1. Without(t, v) = g
    BY <1>1, <1>2, <1>6 DEF Settled
  <2>2. Present(g) = Playing(g)
    BY <1>1, <1>6 DEF LobbyIsPlain, Present, Playing, Rosters
  <2> QED
    BY <1>1, <1>3, <1>5, <1>6, <2>1, <2>2 DEF OutcomeIsSound, LobbyIsPlain
<1>7. CASE t.phase = "lobby" /\ Playing(g) = {}
  <2> DEFINE n == [g EXCEPT !.phase = "complete"]
  <2>1. n \in Rosters /\ n.status = g.status /\ n.phase = "complete"
    BY <1>1 DEF Rosters
  <2>2. Without(t, v) = n
    BY <1>2, <1>7
  <2> HIDE DEF n
  <2>3. Present(n) = Present(g)
    BY <2>1 DEF Present
  <2> QED
    BY <1>3, <1>5, <1>7, <2>1, <2>2, <2>3 DEF OutcomeIsSound, LobbyIsPlain
<1> QED
  BY <1>4, <1>6, <1>7

\* A host who removes somebody stays.
LEMMA RemovalIsSound ==
  ASSUME RosterAssumption, NEW t \in Rosters, LobbyIsPlain(t), NEW u \in Users,
         NEW c, c.type = "remove", NEW v \in Users, NEW n \in Removed(t, u, v)
  PROVE  OutcomeIsSound(t, u, c, n)
<1>1. n = Without(t, v) /\ u \in Playing(t) /\ u # v
  BY DEF Removed
<1>2. u \in Users \ {v} /\ u \in Present(t)
  BY <1>1, Members
<1> QED
  BY <1>1, <1>2, WithoutIsSound

\* The lowest seat of some people is that of one of them.
LEMMA LowestIsOne ==
  ASSUME NEW t \in Rosters, NEW A \in SUBSET Users, A # {}, MaxPlayers \in Nat
  PROVE  Lowest(t, A) \in A
<1> DEFINE S == {t.seat[v] : v \in A}
<1>1. t.seat \in [Users -> 0..MaxPlayers]
  BY DEF Rosters
<1>2. S \in SUBSET Nat /\ S # {}
  BY <1>1
<1>3. PICK m \in S : \A n \in S : m <= n
  <2> HIDE DEF S
  <2> QED
    BY <1>2, LeastOf
<1>4. \E w \in A : \A v \in A : t.seat[w] <= t.seat[v]
  BY <1>3
<1> QED
  BY <1>4 DEF Lowest

\* Whoever leaves may leave nobody behind, but forgets nobody.
LEMMA LeaveIsSound ==
  ASSUME RosterAssumption, NEW t \in Rosters, LobbyIsPlain(t), NEW u \in Users,
         NEW c, c.type = "leave", NEW n \in Left(t, u)
  PROVE  OutcomeIsSound(t, u, c, n)
<1> DEFINE g == Without(t, u)
           heirs == IF g.phase = "playing" THEN Playing(g) ELSE Present(g)
           h == IF u = g.host /\ heirs # {} THEN Lowest(t, heirs) ELSE g.host
<1>1. n = HostSet(g, h)
  BY DEF Left, HostSet
<1>2. OutcomeIsSound(t, u, c, g)
  BY WithoutIsSound
<1>3. g \in Rosters
  BY <1>2 DEF OutcomeIsSound
<1> HIDE DEF g
<1>4. heirs \in SUBSET Users /\ g.host \in Users
  BY <1>3, Members DEF Rosters
<1> HIDE DEF heirs
<1>5. h \in Users
  BY <1>4, LowestIsOne DEF RosterAssumption
<1> HIDE DEF h
<1> QED
  BY <1>1, <1>2, <1>3, <1>5, NewHostIsSound

\* Whatever a command makes of a roster is one, leaves somebody present unless
\* somebody has left, has a winner if the game is over, and forgets nobody.
THEOREM OutcomesAreSound ==
  ASSUME RosterAssumption, NEW t \in Rosters, LobbyIsPlain(t), NEW u \in Users,
         NEW c \in Commands, NEW n \in Outcomes(t, u, c)
  PROVE  OutcomeIsSound(t, u, c, n)
<1>1. CASE c.type = "join"
  BY <1>1, JoinIsSound DEF Outcomes
<1>2. CASE c.type = "act"
  BY <1>2, ActIsSound DEF Outcomes
<1>3. CASE c.type = "start"
  BY <1>3, StartIsSound DEF Outcomes
<1>4. CASE c.type = "leave"
  BY <1>4, LeaveIsSound DEF Outcomes
<1>5. CASE c.type = "claim"
  BY <1>5, ClaimIsSound DEF Outcomes
<1>6. CASE c.type = "rematch"
  BY <1>6, RematchIsSound DEF Outcomes
<1>7. CASE c.type = "remove"
  BY <1>7, RemovalIsSound DEF Outcomes, Commands
<1> QED
  BY <1>1, <1>2, <1>3, <1>4, <1>5, <1>6, <1>7 DEF Commands

\* To leave has one outcome.
LEMMA LeavingIsOneThing ==
  ASSUME NEW t, NEW u, NEW c, c.type = "leave",
         NEW m \in Outcomes(t, u, c), NEW n \in Outcomes(t, u, c)
  PROVE  m = n
  BY DEF Outcomes, Left

-----------------------------------------------------------------------------
\* What is said below of every outcome n of the command c of u at t: only a
\* join gives a seat, and only a claim takes the host from somebody present.
OutcomeIsOrderly(t, u, c, n) ==
  /\ SeatsApart(t) => SeatsApart(n)
  /\ c.type # "join" =>
       n.seat = t.seat /\ \A v \in Users : t.status[v] = "absent" => n.status[v] = "absent"
  /\ n.host # t.host /\ t.host \in Present(n) => c.type = "claim" /\ n.host = u
  /\ c.type = "join" => \A v \in Users \ {u} : n.status[v] # "absent" => v \in Present(t)

\* Who joins gets a seat of its own.
LEMMA JoinIsOrderly ==
  ASSUME RosterAssumption, NEW t \in Rosters, LobbyIsPlain(t), NEW u \in Users,
         NEW c, c.type = "join", NEW n \in Joined(t, u)
  PROVE  OutcomeIsOrderly(t, u, c, n)
<1> DEFINE status == [v \in Users |-> IF v = u THEN "active"
                                      ELSE IF t.status[v] = "left" THEN "absent" ELSE t.status[v]]
           free == FirstFree({t.seat[v] : v \in Present(t)})
           seat == [t.seat EXCEPT ![u] = IF t.status[u] = "absent" THEN free ELSE t.seat[u]]
           a == [t EXCEPT !.status = status]
<1>1. /\ t.phase = "lobby" /\ u \notin Playing(t) /\ Cardinality(Playing(t)) < MaxPlayers
      /\ n = [a EXCEPT !.seat = seat]
  BY DEF Joined, Rosters
<1>2. \A v \in Users : v # u /\ status[v] # "absent" => t.status[v] \notin {"absent", "left"}
  OBVIOUS
<1> HIDE DEF status
<1>3. a.status = status /\ a.host = t.host /\ n.status = a.status /\ n.host = a.host /\ n.seat = seat
  <2>1. n.status = a.status /\ n.host = a.host /\ n.seat = seat
    <3> HIDE DEF seat
    <3> QED
      BY <1>1 DEF Rosters
  <2> QED
    BY <2>1 DEF Rosters
<1>4. /\ t.phase = "lobby" /\ u \notin Playing(t) /\ Cardinality(Playing(t)) < MaxPlayers
      /\ n.host = t.host
      /\ n.seat = [t.seat EXCEPT ![u] = IF t.status[u] = "absent" THEN free ELSE t.seat[u]]
      /\ \A v \in Users : v # u /\ n.status[v] # "absent" => t.status[v] \notin {"absent", "left"}
  BY <1>1, <1>2, <1>3
<1> HIDE DEF a, seat
<1>5. t.seat \in [Users -> 0..MaxPlayers] /\ t.status \in [Users -> Statuses]
  BY DEF Rosters, Statuses
<1>6. Present(t) = Playing(t) /\ Present(t) \in SUBSET Users
  BY <1>4, Members DEF LobbyIsPlain
<1>7. \A v \in Present(t) : free # t.seat[v]
  BY <1>4, <1>5, <1>6, FirstFreeIsASeat
<1> HIDE DEF free
<1>8. \A v \in Users : v # u /\ n.status[v] # "absent" =>
        v \in Present(t) /\ t.status[v] # "absent" /\ n.seat[v] = t.seat[v]
  BY <1>4, <1>5 DEF Statuses, Present
<1>9. \A v \in Users : v # u /\ n.status[v] # "absent" /\ SeatsApart(t) => n.seat[u] # n.seat[v]
  <2>1. n.seat[u] = IF t.status[u] = "absent" THEN free ELSE t.seat[u]
    BY <1>4, <1>5
  <2> QED
    BY <1>7, <1>8, <2>1 DEF SeatsApart
<1>10. SeatsApart(t) => SeatsApart(n)
  BY <1>8, <1>9 DEF SeatsApart
<1> QED
  BY <1>8, <1>4, <1>10 DEF OutcomeIsOrderly

\* As long as seats stay where they are and nobody comes back, they stay apart.
LEMMA SeatsStayApart ==
  ASSUME NEW t, NEW n, n.seat = t.seat,
         \A v \in Users : t.status[v] = "absent" => n.status[v] = "absent"
  PROVE  SeatsApart(t) => SeatsApart(n)
  BY DEF SeatsApart

\* Whoever is gone keeps the seat, and the host stays the host.
LEMMA WithoutIsOrderly ==
  ASSUME RosterAssumption, NEW t \in Rosters, NEW v \in Users
  PROVE  /\ Without(t, v) \in Rosters
         /\ Without(t, v).seat = t.seat /\ Without(t, v).host = t.host
         /\ Without(t, v).status = [t.status EXCEPT ![v] = "left"]
<1> DEFINE g == StatusSet(t, v, "left")
<1>1. /\ g \in Rosters /\ g.status = [t.status EXCEPT ![v] = "left"]
      /\ g.seat = t.seat /\ g.host = t.host
  <2>1. "left" \in Statuses
    BY DEF Statuses
  <2> QED
    BY Zenon, <2>1, StatusIsSet
<1>2. Without(t, v) = IF t.phase = "lobby" /\ Playing(g) = {}
                      THEN [g EXCEPT !.phase = "complete"] ELSE Settled(g)
  BY DEF Without, StatusSet
<1> HIDE DEF g
<1>3. CASE Without(t, v) = Settled(g)
  BY <1>1, <1>3, SettledIs
<1>4. CASE Without(t, v) = [g EXCEPT !.phase = "complete"]
  BY <1>1, <1>4 DEF Rosters
<1> QED
  BY <1>2, <1>3, <1>4

\* Whatever a command makes of a roster, seats stay apart and only a claim
\* takes the host from somebody present.
THEOREM OutcomesAreOrderly ==
  ASSUME RosterAssumption, NEW t \in Rosters, LobbyIsPlain(t), NEW u \in Users,
         NEW c \in Commands, NEW n \in Outcomes(t, u, c)
  PROVE  OutcomeIsOrderly(t, u, c, n)
<1>1. CASE c.type = "join"
  BY <1>1, JoinIsOrderly DEF Outcomes
<1>2. ASSUME c.type # "join", n.seat = t.seat,
             \A v \in Users : t.status[v] = "absent" => n.status[v] = "absent",
             n.host # t.host /\ t.host \in Present(n) => c.type = "claim" /\ n.host = u
      PROVE  OutcomeIsOrderly(t, u, c, n)
  BY <1>2, SeatsStayApart DEF OutcomeIsOrderly
<1>3. CASE c.type = "act"
  <2>1. n \in Acted(t, u) /\ u \in Playing(t) /\ u \in Users
    BY <1>3 DEF Outcomes, Acted
  <2>2. CASE n = t
    BY <1>2, <1>3, <2>2
  <2>3. ASSUME NEW v \in Playing(t), n = Settled([t EXCEPT !.status[v] = "eliminated"])
        PROVE  OutcomeIsOrderly(t, u, c, n)
    <3> DEFINE g == StatusSet(t, v, "eliminated")
    <3>1. v \in Users /\ t.status[v] = "active"
      BY DEF Playing
    <3>2. /\ g \in Rosters /\ g.status = [t.status EXCEPT ![v] = "eliminated"]
          /\ g.seat = t.seat /\ g.host = t.host
      <4>1. "eliminated" \in Statuses
        BY DEF Statuses
      <4> QED
        BY Zenon, <3>1, <4>1, StatusIsSet
    <3>3. n = Settled(g)
      BY <2>3 DEF StatusSet
    <3> HIDE DEF g
    <3>4. n.status = g.status /\ n.seat = g.seat /\ n.host = g.host
      BY <3>2, <3>3, SettledIs
    <3>5. \A w \in Users : t.status[w] = "absent" => n.status[w] = "absent"
      BY <3>1, <3>2, <3>4 DEF Rosters
    <3> QED
      BY <1>2, <1>3, <3>2, <3>4, <3>5
  <2>4. CASE n = Won(t, u)
    BY <1>2, <1>3, <2>4, WonIs
  <2> QED
    BY <2>1, <2>2, <2>3, <2>4 DEF Acted
<1>4. CASE c.type = "start"
  <2> DEFINE status == [v \in Users |-> IF t.status[v] = "left" THEN "absent" ELSE t.status[v]]
             a == [t EXCEPT !.phase = "playing"]
  <2>1. n = [a EXCEPT !.status = status]
    BY <1>4 DEF Outcomes, Started, Rosters
  <2>2. \A v \in Users : t.status[v] = "absent" => status[v] = "absent"
    OBVIOUS
  <2> HIDE DEF status
  <2>3. n.seat = t.seat /\ n.host = t.host
        /\ \A v \in Users : t.status[v] = "absent" => n.status[v] = "absent"
    BY <2>1, <2>2 DEF Rosters
  <2> QED
    BY <1>2, <1>4, <2>3
<1>5. CASE c.type = "leave"
  <2> DEFINE g == Without(t, u)
             heirs == IF g.phase = "playing" THEN Playing(g) ELSE Present(g)
             h == IF u = g.host /\ heirs # {} THEN Lowest(t, heirs) ELSE g.host
  <2>1. n = [g EXCEPT !.host = h] /\ u \in Present(t)
    BY <1>5 DEF Outcomes, Left
  <2>2. g \in Rosters /\ g.seat = t.seat /\ g.host = t.host
        /\ g.status = [t.status EXCEPT ![u] = "left"]
    BY WithoutIsOrderly
  <2> HIDE DEF g, heirs
  <2>3. h # g.host => u = g.host
    OBVIOUS
  <2> HIDE DEF h
  <2>4. n.seat = t.seat /\ n.status = g.status /\ (n.host # t.host => u = t.host)
    BY <2>1, <2>2, <2>3 DEF Rosters
  <2>5. n.status[u] = "left"
        /\ \A v \in Users : t.status[v] = "absent" => n.status[v] = "absent"
    BY <2>1, <2>2, <2>4 DEF Rosters, Present
  <2> QED
    BY <1>2, <1>5, <2>5, <2>4 DEF Present
<1>6. CASE c.type = "claim"
  <2>1. n.seat = t.seat /\ n.status = t.status /\ n.host = u
    BY <1>6, HostIsSet DEF Outcomes, Claimed, Rosters
  <2> QED
    BY <1>2, <1>6, <2>1
<1>7. CASE c.type = "rematch"
  <2> DEFINE status == [v \in Users |-> IF v \in Present(t) THEN "active" ELSE "absent"]
             a == [t EXCEPT !.phase = "lobby"]
             b == [a EXCEPT !.winner = None]
  <2>1. n = [b EXCEPT !.status = status]
    BY <1>7 DEF Outcomes, Rematched, Rosters
  <2>2. \A v \in Users : t.status[v] = "absent" => status[v] = "absent"
    BY DEF Present
  <2> HIDE DEF status
  <2>3. b.seat = t.seat /\ b.host = t.host /\ n.seat = b.seat /\ n.host = b.host
        /\ n.status = status
    BY <2>1 DEF Rosters
  <2>4. n.seat = t.seat /\ n.host = t.host
        /\ \A v \in Users : t.status[v] = "absent" => n.status[v] = "absent"
    BY <2>2, <2>3
  <2> QED
    BY <1>2, <1>7, <2>4
<1>8. CASE c.type = "remove"
  <2>1. c.target \in Users /\ n = Without(t, c.target) /\ c.target \in Playing(t)
    BY <1>8 DEF Outcomes, Removed, Commands
  <2>2. /\ n.seat = t.seat /\ n.host = t.host
        /\ n.status = [t.status EXCEPT ![c.target] = "left"]
    BY <2>1, WithoutIsOrderly
  <2>3. \A v \in Users : t.status[v] = "absent" => n.status[v] = "absent"
    BY <2>1, <2>2 DEF Playing, Rosters
  <2> QED
    BY <1>2, <1>8, <2>2, <2>3
<1> QED
  BY <1>1, <1>3, <1>4, <1>5, <1>6, <1>7, <1>8 DEF Commands
=============================================================================
