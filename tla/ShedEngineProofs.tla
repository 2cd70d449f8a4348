-------------------------- MODULE ShedEngineProofs --------------------------
(***************************************************************************)
(* For tables of any size, decks of any composition and limits of any      *)
(* value the assumptions of ShedEngine allow: InductiveInvariant holds, so *)
(* assertGameInvariants never refuses a command; and, at the end, every    *)
(* step of the engine is a step of RosterMachine, or none.                 *)
(***************************************************************************)
EXTENDS ShedEngine, FiniteSetTheorems, NaturalsInduction, TLAPS

-----------------------------------------------------------------------------
(***************************************************************************)
(* Turn order.                                                             *)
(***************************************************************************)

\* Every non-empty set of naturals has a least element.
LEMMA LeastNatural ==
  ASSUME NEW S \in SUBSET Nat, S # {}
  PROVE  \E m \in S : \A n \in S : m <= n
<1>1. PICK m \in S : \A n \in S : <<n, m>> \notin OpToRel(<, Nat)
  BY WFMin, NatLessThanWellFounded, Zenon
<1>2. \A n \in S : ~(n < m)
  BY <1>1, Zenon DEF OpToRel
<1>3. QED
  BY <1>2

\* The walk around the table from one seat to another is at least one step
\* and at most a whole turn.
LEMMA AheadBounds ==
  ASSUME NEW u \in Users, NEW v \in Users, NEW dir \in {1, -1},
         seat \in [Users -> 0..MaxPlayers], seat[u] < MaxPlayers, seat[v] < MaxPlayers
  PROVE  Ahead(u, v, dir) \in 1..MaxPlayers
BY LimitsAssumption DEF Ahead

\* The walk from any player meets somebody first (nextActivePlayer finds an
\* active player whenever there is one), and nobody active sits before.
LEMMA NextActiveIsFirst ==
  ASSUME NEW A \in SUBSET Users, A # {}, NEW u \in Users, NEW dir \in {1, -1},
         seat \in [Users -> 0..MaxPlayers], seat[u] < MaxPlayers,
         \A v \in A : seat[v] < MaxPlayers
  PROVE  /\ NextActive(A, u, dir) \in A
         /\ \A v \in A : Ahead(u, NextActive(A, u, dir), dir) <= Ahead(u, v, dir)
<1> DEFINE D == {Ahead(u, v, dir) : v \in A}
<1>1. D \in SUBSET Nat /\ D # {}
  BY AheadBounds, LimitsAssumption
<1>2. \E m \in D : \A n \in D : m <= n
  <2> HIDE DEF D
  <2>1. QED
    BY <1>1, LeastNatural
<1>3. \E w \in A : \A v \in A : Ahead(u, w, dir) <= Ahead(u, v, dir)
  BY <1>2
<1>4. QED
  BY <1>3 DEF NextActive

\* Walking one way and then the other comes back to the start: the recipients
\* of a hand rotation are all different, and everybody is one.
LEMMA NextActiveInverse ==
  ASSUME NEW A \in SUBSET Users, NEW u \in A, NEW dir \in {1, -1},
         seat \in [Users -> 0..MaxPlayers],
         \A v \in A : seat[v] < MaxPlayers,
         \A v, w \in A : v # w => seat[v] # seat[w]
  PROVE  NextActive(A, NextActive(A, u, dir), -dir) = u
<1> DEFINE q == NextActive(A, u, dir)
           p == NextActive(A, q, -dir)
<1>1. q \in A /\ \A v \in A : Ahead(u, q, dir) <= Ahead(u, v, dir)
  BY NextActiveIsFirst
<1>2. -dir \in {1, -1}
  OBVIOUS
<1>3. p \in A /\ \A v \in A : Ahead(q, p, -dir) <= Ahead(q, v, -dir)
  BY <1>1, <1>2, NextActiveIsFirst
<1>4. Ahead(u, q, dir) <= Ahead(u, p, dir) /\ Ahead(q, p, -dir) <= Ahead(q, u, -dir)
  BY <1>1, <1>3
<1>5. /\ seat[u] \in 0..MaxPlayers /\ seat[q] \in 0..MaxPlayers /\ seat[p] \in 0..MaxPlayers
      /\ seat[u] < MaxPlayers /\ seat[q] < MaxPlayers /\ seat[p] < MaxPlayers
  BY <1>1, <1>3
<1>6. seat[p] = seat[u]
  BY <1>4, <1>5, <1>2, LimitsAssumption DEF Ahead
<1>7. QED
  BY <1>1, <1>3, <1>6

\* The successor of a host who leaves is one of the candidates.
LEMMA LowestSeatIsMember ==
  ASSUME NEW A \in SUBSET Users, A # {}, seat \in [Users -> 0..MaxPlayers]
  PROVE  LowestSeat(A) \in A
<1> DEFINE S == {seat[v] : v \in A}
<1>1. S \in SUBSET Nat /\ S # {}
  BY LimitsAssumption
<1>2. \E m \in S : \A n \in S : m <= n
  <2> HIDE DEF S
  <2>1. QED
    BY <1>1, LeastNatural
<1>3. \E w \in A : \A v \in A : seat[w] <= seat[v]
  BY <1>2
<1>4. QED
  BY <1>3 DEF LowestSeat

\* While the table is not full there is a free seat, and it is a real one.
LEMMA FreeSeatIsFree ==
  ASSUME NEW A \in SUBSET Users, Cardinality(A) < MaxPlayers,
         seat \in [Users -> 0..MaxPlayers]
  PROVE  LET taken == {seat[v] : v \in A}
         IN  /\ FreeSeat(taken) \in 0..MaxPlayers
             /\ FreeSeat(taken) < MaxPlayers
             /\ FreeSeat(taken) \notin taken
<1> DEFINE taken == {seat[v] : v \in A}
           f == [v \in A |-> seat[v]]
           free == {s \in 0..MaxPlayers - 1 : s \notin taken}
<1>1. IsFiniteSet(A) /\ Cardinality(A) \in Nat
  BY FS_Subset, FS_CardinalityType, UsersAssumption
<1>2. f \in Surjection(A, taken)
  BY DEF Surjection
<1>3. IsFiniteSet(taken) /\ Cardinality(taken) \in Nat /\ Cardinality(taken) <= Cardinality(A)
  BY <1>1, <1>2, FS_Surjection, FS_CardinalityType
<1>4. Cardinality(0..MaxPlayers - 1) = MaxPlayers
  BY FS_Interval, LimitsAssumption
<1>5. ~(0..MaxPlayers - 1 \subseteq taken)
  BY <1>1, <1>3, <1>4, FS_Subset, LimitsAssumption
<1>6. \E m \in free : \A n \in free : m <= n
  <2>1. free \in SUBSET Nat
    BY LimitsAssumption
  <2>2. free # {}
    <3> HIDE DEF taken
    <3>1. PICK s \in 0..MaxPlayers - 1 : s \notin taken
      BY <1>5
    <3>2. QED
      BY <3>1
  <2> HIDE DEF free
  <2>3. QED
    BY <2>1, <2>2, LeastNatural
<1>7. PICK m \in free : \A n \in free : m <= n
  BY <1>6
<1>8. m \in 0..MaxPlayers /\ m \notin taken /\ m < MaxPlayers
  BY LimitsAssumption
<1>9. \A t \in 0..MaxPlayers : t < m => t \in taken
  BY <1>7, <1>8, LimitsAssumption
<1>10. \A s \in 0..MaxPlayers :
         (s \notin taken /\ \A t \in 0..MaxPlayers : t < s => t \in taken) => s = m
  BY <1>8, <1>9
<1>11. FreeSeat(taken) = m
  BY <1>8, <1>9, <1>10 DEF FreeSeat
<1>12. QED
  BY <1>8, <1>11

-----------------------------------------------------------------------------
(***************************************************************************)
(* The lobby and the host.                                                 *)
(***************************************************************************)
\* A new table holds one player, the host, and no card.
LEMMA InitIsSafe == Init => InductiveInvariant
<1> SUFFICES ASSUME Init PROVE InductiveInvariant
  OBVIOUS
<1>1. PICK h \in Users : /\ host = h
                         /\ status = [u \in Users |-> IF u = h THEN "active" ELSE "absent"]
  BY DEF Init
<1>2. TypeOK
  BY LimitsAssumption DEF Init, TypeOK, NoPenalty, NoWinner
<1>3. GameInvariants
  BY <1>1, NullAssumption DEF Init, GameInvariants, HostPresent, NoDuplicateCard,
     CardConservation, LeftHandsEmpty, EmptyRoomComplete, NoTerminalTransients,
     PlayingConsistent, Members, Seated
<1>4. SeatsDistinct /\ CardsOnlyInPlay
  BY <1>1, LimitsAssumption DEF Init, SeatsDistinct, CardsOnlyInPlay, Seated
<1>5. TurnStateConsistent /\ UnoLiabilityIsOneCard /\ NobodyPlaysEmptyHanded
  BY DEF Init, TurnStateConsistent, UnoLiabilityIsOneCard, NobodyPlaysEmptyHanded
<1>6. QED
  BY <1>2, <1>3, <1>4, <1>5 DEF InductiveInvariant

\* Steps that touch neither cards nor the turn nor who is at the table.
LEMMA SetReadyIsSafe ==
  ASSUME InductiveInvariant, NEW u \in Users, NEW r \in BOOLEAN, SetReady(u, r)
  PROVE  InductiveInvariant'
<1> USE DEF SetReady, cardVars, turnVars
<1>1. TypeOK'
  BY DEF InductiveInvariant, TypeOK
<1>2. UNCHANGED <<Active, Members, Seated>>
  BY DEF Active, Members, Seated
<1>3. GameInvariants'
  BY <1>2 DEF InductiveInvariant, GameInvariants, HostPresent, NoDuplicateCard,
     CardConservation, LeftHandsEmpty, EmptyRoomComplete, NoTerminalTransients,
     PlayingConsistent
<1>4. (SeatsDistinct /\ CardsOnlyInPlay)'
  BY <1>2 DEF InductiveInvariant, SeatsDistinct, CardsOnlyInPlay
<1>5. (TurnStateConsistent /\ UnoLiabilityIsOneCard /\ NobodyPlaysEmptyHanded)'
  BY <1>2 DEF InductiveInvariant, TurnStateConsistent, UnoLiabilityIsOneCard,
     NobodyPlaysEmptyHanded
<1>6. QED
  BY <1>1, <1>3, <1>4, <1>5 DEF InductiveInvariant

\* claim_host only names another host, who is at the table.
LEMMA ClaimHostIsSafe ==
  ASSUME InductiveInvariant, NEW u \in Users, ClaimHost(u)
  PROVE  InductiveInvariant'
<1> USE DEF ClaimHost, cardVars, turnVars, places
<1>1. TypeOK'
  BY DEF InductiveInvariant, TypeOK
<1>2. UNCHANGED <<Active, Members, Seated>>
  BY DEF Active, Members, Seated
<1>3. HostPresent'
  BY DEF HostPresent, Members, Active, Seated
<1>4. GameInvariants'
  BY <1>2, <1>3 DEF InductiveInvariant, GameInvariants, NoDuplicateCard,
     CardConservation, LeftHandsEmpty, EmptyRoomComplete, NoTerminalTransients,
     PlayingConsistent
<1>5. (SeatsDistinct /\ CardsOnlyInPlay)'
  BY <1>2 DEF InductiveInvariant, SeatsDistinct, CardsOnlyInPlay
<1>6. (TurnStateConsistent /\ UnoLiabilityIsOneCard /\ NobodyPlaysEmptyHanded)'
  BY <1>2 DEF InductiveInvariant, TurnStateConsistent, UnoLiabilityIsOneCard,
     NobodyPlaysEmptyHanded, Playable
<1>7. QED
  BY <1>1, <1>4, <1>5, <1>6 DEF InductiveInvariant

\* Declaring UNO in time only takes the player's own liability away.
LEMMA DeclareUnoIsSafe ==
  ASSUME InductiveInvariant, NEW u \in Users, DeclareUno(u)
  PROVE  InductiveInvariant'
<1> USE DEF DeclareUno, cardVars, places
<1>1. TypeOK'
  BY DEF InductiveInvariant, TypeOK
<1>2. UNCHANGED <<Active, Members, Seated>>
  BY DEF Active, Members, Seated
<1>3. GameInvariants'
  BY <1>2 DEF InductiveInvariant, GameInvariants, HostPresent, NoDuplicateCard,
     CardConservation, LeftHandsEmpty, EmptyRoomComplete, NoTerminalTransients,
     PlayingConsistent
<1>4. (SeatsDistinct /\ CardsOnlyInPlay)'
  BY <1>2 DEF InductiveInvariant, SeatsDistinct, CardsOnlyInPlay
<1>5. (TurnStateConsistent /\ UnoLiabilityIsOneCard /\ NobodyPlaysEmptyHanded)'
  BY <1>2 DEF InductiveInvariant, TurnStateConsistent, UnoLiabilityIsOneCard,
     NobodyPlaysEmptyHanded, Playable
<1>6. QED
  BY <1>1, <1>3, <1>4, <1>5 DEF InductiveInvariant

\* A newcomer takes a free seat and a returning player its own; in a lobby
\* there are no cards that either could disturb.
LEMMA JoinLobbyIsSafe ==
  ASSUME InductiveInvariant, NEW u \in Users, JoinLobby(u)
  PROVE  InductiveInvariant'
<1> USE DEF JoinLobby, cardVars, turnVars
<1> DEFINE taken == {seat[v] : v \in Members}
<1>1. /\ TypeOK /\ SeatsDistinct /\ CardsOnlyInPlay
      /\ HostPresent /\ EmptyRoomComplete /\ UnoLiabilityIsOneCard
  BY DEF InductiveInvariant, GameInvariants
<1>2. Members = Active
  BY <1>1 DEF CardsOnlyInPlay, Members, Active
<1>3. /\ FreeSeat(taken) \in 0..MaxPlayers
      /\ FreeSeat(taken) < MaxPlayers
      /\ FreeSeat(taken) \notin taken
  BY <1>1, <1>2, FreeSeatIsFree DEF TypeOK, Members
<1> HIDE DEF taken
<1>4. TypeOK'
  BY <1>1, <1>3 DEF TypeOK, taken
<1>5. \A v \in Users : status'[v] # "absent" <=> v = u \/ v \in Members
  BY <1>1 DEF TypeOK, Members, CardsOnlyInPlay
<1>6. HostPresent' /\ EmptyRoomComplete'
  BY <1>1, <1>5 DEF TypeOK, HostPresent, EmptyRoomComplete, Members, Seated
<1>7. GameInvariants'
  BY <1>1, <1>6 DEF GameInvariants, NoDuplicateCard, CardConservation, TypeOK,
     LeftHandsEmpty, NoTerminalTransients, PlayingConsistent, CardsOnlyInPlay
<1>8. SeatsDistinct'
  <2>1. CASE status[u] = "absent"
    <3>1. \A v \in Members : v # u /\ seat'[v] = seat[v] /\ seat[v] \in taken
      BY <1>1, <2>1 DEF TypeOK, Members, taken
    <3>2. seat'[u] = FreeSeat(taken)
      BY <1>1, <2>1 DEF TypeOK, taken
    <3>3. \A v \in Members : seat'[v] # seat'[u]
      BY <1>3, <3>1, <3>2
    <3>4. QED
      BY <1>1, <1>3, <1>5, <3>1, <3>2, <3>3 DEF SeatsDistinct, Seated, Members, TypeOK
  <2>2. CASE status[u] # "absent"
    BY <1>1, <1>5, <2>2 DEF SeatsDistinct, Seated, Members, TypeOK
  <2>3. QED
    BY <2>1, <2>2
<1>9. CardsOnlyInPlay'
  BY <1>1 DEF CardsOnlyInPlay, TypeOK
<1>10. (TurnStateConsistent /\ UnoLiabilityIsOneCard /\ NobodyPlaysEmptyHanded)'
  BY <1>1 DEF TurnStateConsistent, UnoLiabilityIsOneCard, NobodyPlaysEmptyHanded
<1>11. QED
  BY <1>4, <1>7, <1>8, <1>9, <1>10 DEF InductiveInvariant

\* A rematch brings the table back to a lobby of those who stayed.
LEMMA RematchIsSafe ==
  ASSUME InductiveInvariant, NEW u \in Users, Rematch(u)
  PROVE  InductiveInvariant'
<1> USE DEF Rematch, ClearTurnTransients
<1>1. TypeOK /\ SeatsDistinct /\ HostPresent
  BY DEF InductiveInvariant, GameInvariants
<1>2. TypeOK'
  BY <1>1 DEF TypeOK, NoPenalty, NoWinner
<1>3. u \in Members' /\ Members' = Members /\ Seated' = Members
  BY <1>1 DEF TypeOK, Members, Seated
<1>4. GameInvariants'
  BY <1>1, <1>3, NullAssumption DEF TypeOK, GameInvariants, HostPresent,
     NoDuplicateCard, CardConservation, LeftHandsEmpty, EmptyRoomComplete,
     NoTerminalTransients, PlayingConsistent, Members
<1>5. SeatsDistinct' /\ CardsOnlyInPlay'
  BY <1>1, <1>3 DEF SeatsDistinct, CardsOnlyInPlay, Members, Seated, TypeOK
<1>6. (TurnStateConsistent /\ UnoLiabilityIsOneCard /\ NobodyPlaysEmptyHanded)'
  BY DEF TurnStateConsistent, UnoLiabilityIsOneCard, NobodyPlaysEmptyHanded
<1>7. QED
  BY <1>2, <1>4, <1>5, <1>6 DEF InductiveInvariant

\* A fresh hand has at least two cards and is below the mercy limit.
LEMMA DealtHand ==
  ASSUME NEW h \in SUBSET Cards, Cardinality(h) = HandSize
  PROVE  h # {} /\ Cardinality(h) < MercyLimit
BY LimitsAssumption, FS_EmptySet

\* Dealing puts every card in exactly one place, gives everybody a hand
\* below the mercy limit, and opens with a number card, hence with a color.
LEMMA StartGameIsSafe ==
  ASSUME InductiveInvariant, NEW u \in Users, StartGame(u)
  PROVE  InductiveInvariant'
<1>1. /\ TypeOK /\ SeatsDistinct /\ HostPresent /\ CardsOnlyInPlay
      /\ EmptyRoomComplete /\ UnoLiabilityIsOneCard
  BY DEF InductiveInvariant, GameInvariants
<1>2. PICK deal \in [Active -> {s \in Hands : Cardinality(s) = HandSize}] :
        LET undealt == Cards \ UNION {deal[v] : v \in Active}
        IN  /\ \A v, w \in Active : v # w => deal[v] \cap deal[w] = {}
            /\ hand' = [v \in Users |-> IF v \in Active THEN deal[v] ELSE {}]
            /\ \E opening \in undealt \cap FlippedCards,
                 flipped \in SUBSET {c \in undealt \cap FlippedCards : ~IsNumber(c)} :
                 /\ IsNumber(opening)
                 /\ top' = opening
                 /\ rest' = flipped
                 /\ draw' = undealt \ (flipped \cup {opening})
                 /\ color' = ColorOf(opening)
  BY DEF StartGame
<1> DEFINE undealt == Cards \ UNION {deal[v] : v \in Active}
<1>3. PICK opening \in undealt, flipped \in SUBSET {c \in undealt : ~IsNumber(c)} :
        /\ IsNumber(opening)
        /\ top' = opening
        /\ rest' = flipped
        /\ draw' = undealt \ (flipped \cup {opening})
        /\ color' = ColorOf(opening)
  BY <1>2
<1>4. /\ phase' = "playing" /\ direction' = 1 /\ current' = NextActive(Active, u, 1)
      /\ status' = [v \in Users |-> IF v \in Active THEN "active" ELSE "absent"]
      /\ UNCHANGED <<seat, ready, host, reserve, pending, roulette, forced, uno, winner>>
      /\ turnNumber' = 1 /\ u \in Active /\ u = host /\ phase = "lobby"
      /\ Cardinality(Active) >= 2
  BY LimitsAssumption DEF StartGame
<1>5. Active' = Active /\ Members' = Active /\ Seated' = Active
  BY <1>4, <1>1 DEF Active, Members, Seated, TypeOK
<1>6. \A v \in Active : deal[v] \in SUBSET Cards /\ deal[v] # {} /\ Cardinality(deal[v]) < MercyLimit
  BY DealtHand, LimitsAssumption
<1>7. current' \in Active
  BY <1>1, <1>4, NextActiveIsFirst DEF TypeOK, SeatsDistinct, Seated, Active
<1>8. color' \in Colors
  BY <1>3, DeckAssumption DEF ColorOf, IsWild, IsNumber, Kind, Faces, WildKinds, ColoredActions
<1>9. reserve = {} /\ pending = NoPenalty /\ roulette = None /\ forced = None /\ uno = {}
  BY <1>1, <1>4 DEF CardsOnlyInPlay
<1>10. opening # None
  BY NullAssumption
<1>11. hand' = [v \in Users |-> IF v \in Active THEN deal[v] ELSE {}]
  BY <1>2
<1>12. \A v, w \in Users : v # w => hand'[v] \cap hand'[w] = {}
  BY <1>2, <1>11
<1>13. \A v \in Users : hand'[v] \cap undealt = {}
  BY <1>11
<1>14. \A c \in Cards : c \in undealt \/ \E v \in Users : c \in hand'[v]
  BY <1>11 DEF Active
<1>15. undealt \subseteq Cards /\ \A v \in Users : hand'[v] \subseteq Cards
  BY <1>6, <1>11
<1> HIDE DEF undealt
<1>16. TypeOK'
  BY <1>1, <1>3, <1>4, <1>7, <1>8, <1>11, <1>15, <1>9 DEF TypeOK, Active
<1>17. NoDuplicateCard' /\ CardConservation'
  BY <1>3, <1>4, <1>9, <1>12, <1>13, <1>14 DEF NoDuplicateCard, CardConservation
<1>18. PlayingConsistent'
  BY <1>3, <1>4, <1>5, <1>6, <1>7, <1>9, <1>10, <1>11 DEF PlayingConsistent, Active
<1>19. (HostPresent /\ LeftHandsEmpty /\ EmptyRoomComplete /\ NoTerminalTransients)'
  BY <1>4, <1>5 DEF HostPresent, LeftHandsEmpty, EmptyRoomComplete,
     NoTerminalTransients, Active
<1>20. SeatsDistinct' /\ CardsOnlyInPlay'
  BY <1>1, <1>4, <1>5, <1>11 DEF SeatsDistinct, Seated, CardsOnlyInPlay, Active
<1>21. (TurnStateConsistent /\ UnoLiabilityIsOneCard /\ NobodyPlaysEmptyHanded)'
  BY <1>4, <1>5, <1>6, <1>8, <1>9, <1>11, LimitsAssumption DEF TurnStateConsistent,
     UnoLiabilityIsOneCard, NobodyPlaysEmptyHanded, NoPenalty, Active
<1>22. QED
  BY <1>16, <1>17, <1>18, <1>19, <1>20, <1>21 DEF InductiveInvariant, GameInvariants

-----------------------------------------------------------------------------
(***************************************************************************)
(* Drawing.                                                                *)
(***************************************************************************)

\* Whatever is drawn, and whether or not the piles are recycled on the way,
\* every card is where one and only one zone says it is.
LEMMA TakeCardsConserves ==
  ASSUME TypeOK, NoDuplicateCard, CardConservation, top # None,
         NEW u \in Users, NEW haul \in Drawable, TakeCards(u, haul)
  PROVE  /\ NoDuplicateCard' /\ CardConservation'
         /\ hand' \in [Users -> SUBSET Cards]
         /\ draw' \subseteq Cards /\ rest' \subseteq Cards /\ reserve' \subseteq Cards
         /\ haul \subseteq Cards
<1>1. haul \subseteq draw \/ (draw \subseteq haul /\ haul \subseteq draw \cup rest \cup reserve)
  BY DEF Drawable, Recyclable
<1>2. haul \subseteq draw \cup rest \cup reserve
  BY <1>1
<1>3. /\ draw' = DrawAfter(haul) /\ rest' = RestAfter(haul) /\ top' = top
      /\ \/ /\ reserve' = ReserveAfter(haul) \cup hand[u] \cup haul
            /\ hand' = [hand EXCEPT ![u] = {}]
         \/ /\ reserve' = ReserveAfter(haul)
            /\ hand' = [hand EXCEPT ![u] = @ \cup haul]
  BY DEF TakeCards
<1>4. \/ /\ draw' = draw \ haul /\ rest' = rest /\ ReserveAfter(haul) = reserve
         /\ haul \subseteq draw
      \/ /\ draw' = (rest \cup reserve) \ haul /\ rest' = {} /\ ReserveAfter(haul) = {}
         /\ draw \subseteq haul
  BY <1>1, <1>3 DEF DrawAfter, RestAfter, ReserveAfter, Recyclable
<1>5. hand' \in [Users -> SUBSET Cards] /\ haul \subseteq Cards
  BY <1>2, <1>3 DEF TypeOK
<1>6. draw' \subseteq Cards /\ rest' \subseteq Cards /\ reserve' \subseteq Cards
  BY <1>3, <1>4, <1>5 DEF TypeOK
<1>7. \A v \in Users : v # u => hand'[v] = hand[v]
  BY <1>3 DEF TypeOK
<1>8. \/ hand'[u] = {} /\ reserve' = ReserveAfter(haul) \cup hand[u] \cup haul
      \/ hand'[u] = hand[u] \cup haul /\ reserve' = ReserveAfter(haul)
  BY <1>3 DEF TypeOK
<1>9. NoDuplicateCard'
  <2>1. \A v, w \in Users : v # w => hand'[v] \cap hand'[w] = {}
    BY <1>2, <1>7, <1>8 DEF NoDuplicateCard
  <2>2. \A v \in Users : hand'[v] \cap (draw' \cup rest' \cup reserve' \cup {top'}) = {}
    BY <1>2, <1>3, <1>4, <1>7, <1>8 DEF NoDuplicateCard
  <2>3. /\ draw' \cap rest' = {} /\ draw' \cap reserve' = {} /\ rest' \cap reserve' = {}
        /\ top' \notin draw' \cup rest' \cup reserve'
    BY <1>2, <1>3, <1>4, <1>8 DEF NoDuplicateCard
  <2>4. QED
    BY <2>1, <2>2, <2>3 DEF NoDuplicateCard
<1>10. CardConservation'
  <2> SUFFICES ASSUME NEW c \in Cards
               PROVE  \/ c \in draw' \cup rest' \cup reserve' \cup {top'}
                      \/ \E v \in Users : c \in hand'[v]
    BY DEF CardConservation
  <2>1. CASE c \in draw \cup rest \cup reserve \cup {top}
    BY <1>3, <1>4, <1>8, <2>1
  <2>2. CASE \E v \in Users : c \in hand[v]
    BY <1>7, <1>8, <2>2
  <2>3. QED
    BY <2>1, <2>2 DEF CardConservation
<1>11. QED
  BY <1>5, <1>6, <1>9, <1>10

\* What a haul does to hands and to who is still in the game.
LEMMA TakeCardsHands ==
  ASSUME TypeOK, SeatsDistinct, CardsOnlyInPlay, NobodyPlaysEmptyHanded,
         \A v \in Active : Cardinality(hand[v]) < MercyLimit,
         phase = "playing", NEW u \in Active,
         NEW haul \in Drawable, haul \subseteq Cards, TakeCards(u, haul), UNCHANGED seat
  PROVE  /\ status' \in [Users -> {"absent", "active", "eliminated", "left"}]
         /\ Members' = Members /\ Seated' = Seated
         /\ Active' = IF KnockedOut(u, haul) THEN Active \ {u} ELSE Active
         /\ \A v \in Users : status'[v] = "left" <=> status[v] = "left"
         /\ \A v \in Users : status'[v] # "active" => hand'[v] = {}
         /\ \A v \in Active' : hand'[v] # {} /\ Cardinality(hand'[v]) < MercyLimit
         /\ \A v \in Users : v # u => hand'[v] = hand[v]
         /\ ~KnockedOut(u, haul) => hand'[u] = hand[u] \cup haul
         /\ SeatsDistinct'
<1>1. u \in Users /\ status[u] = "active"
  BY DEF Active
<1>2. CASE KnockedOut(u, haul)
  <2>1. hand' = [hand EXCEPT ![u] = {}] /\ status' = [status EXCEPT ![u] = "eliminated"]
    BY <1>2 DEF TakeCards
  <2>2. Members' = Members /\ Seated' = Seated /\ Active' = Active \ {u}
    BY <1>1, <2>1 DEF TypeOK, Members, Seated, Active
  <2>3. QED
    BY <1>1, <1>2, <2>1, <2>2 DEF TypeOK, CardsOnlyInPlay, NobodyPlaysEmptyHanded,
       SeatsDistinct, Active
<1>3. CASE ~KnockedOut(u, haul)
  <2>1. hand' = [hand EXCEPT ![u] = @ \cup haul] /\ status' = status
    BY <1>3 DEF TakeCards
  <2>2. Members' = Members /\ Seated' = Seated /\ Active' = Active
    BY <2>1 DEF Members, Seated, Active
  <2>3. hand'[u] = hand[u] \cup haul /\ \A v \in Users : v # u => hand'[v] = hand[v]
    BY <1>1, <2>1 DEF TypeOK
  <2>4. Cardinality(hand'[u]) < MercyLimit
    <3>1. IsFiniteSet(hand[u] \cup haul)
      BY <1>1, DeckAssumption, FS_Subset DEF TypeOK
    <3>2. Cardinality(hand[u] \cup haul) \in Nat
      BY <3>1, FS_CardinalityType
    <3>3. QED
      BY <1>3, <2>3, <3>2, LimitsAssumption DEF KnockedOut
  <2>5. QED
    BY <1>1, <1>3, <2>1, <2>2, <2>3, <2>4 DEF TypeOK, CardsOnlyInPlay,
       NobodyPlaysEmptyHanded, SeatsDistinct, Active
<1>4. QED
  BY <1>2, <1>3

\* Somebody in the game draws and stays in it; it remains to see to the turn.
LEMMA DrawerStaysIsSafe ==
  ASSUME InductiveInvariant, phase = "playing", NEW u \in Active,
         NEW haul \in Drawable, TakeCards(u, haul), ~KnockedOut(u, haul),
         UNCHANGED <<phase, winner, seat, ready, host, direction>>,
         color' \in Colors, turnNumber' \in Nat, pending' \in [total: Nat, minimum: Nat],
         current' \in Active, roulette' \in {None, current'}, forced' \in Cards \cup {None},
         TurnStateConsistent', forced' # None => forced' \in hand'[current'],
         uno' \subseteq uno \ {u}, uno' # {} => forced' = None
  PROVE  InductiveInvariant'
<1>1. /\ TypeOK /\ SeatsDistinct /\ HostPresent /\ CardsOnlyInPlay /\ PlayingConsistent
      /\ EmptyRoomComplete /\ UnoLiabilityIsOneCard /\ NobodyPlaysEmptyHanded
      /\ NoDuplicateCard /\ CardConservation /\ GameInvariants
  BY DEF InductiveInvariant, GameInvariants
<1>2. /\ top # None /\ u \in Users /\ top' = top /\ host \in Users
      /\ \A v \in Active : Cardinality(hand[v]) < MercyLimit
  BY <1>1 DEF PlayingConsistent, Active, TakeCards, TypeOK
<1>3. /\ NoDuplicateCard' /\ CardConservation'
      /\ hand' \in [Users -> SUBSET Cards]
      /\ draw' \subseteq Cards /\ rest' \subseteq Cards /\ reserve' \subseteq Cards
      /\ haul \subseteq Cards
  BY <1>1, <1>2, TakeCardsConserves
<1>4. /\ status' \in [Users -> {"absent", "active", "eliminated", "left"}]
      /\ Members' = Members /\ Seated' = Seated /\ Active' = Active
      /\ \A v \in Users : status'[v] = "left" <=> status[v] = "left"
      /\ \A v \in Users : status'[v] # "active" => hand'[v] = {}
      /\ \A v \in Active : hand'[v] # {} /\ Cardinality(hand'[v]) < MercyLimit
      /\ \A v \in Users : v # u => hand'[v] = hand[v]
      /\ SeatsDistinct'
  BY <1>1, <1>2, <1>3, TakeCardsHands
<1>5. status' = status
  BY DEF TakeCards
<1>6. TypeOK'
  BY <1>1, <1>2, <1>3, <1>4 DEF TypeOK, Active
<1>7. (HostPresent /\ LeftHandsEmpty /\ EmptyRoomComplete /\ NoTerminalTransients)'
  BY <1>1, <1>2, <1>4 DEF HostPresent, LeftHandsEmpty, EmptyRoomComplete,
     NoTerminalTransients
<1>8. (PlayingConsistent /\ CardsOnlyInPlay /\ NobodyPlaysEmptyHanded)'
  BY <1>1, <1>2, <1>4 DEF PlayingConsistent, CardsOnlyInPlay, NobodyPlaysEmptyHanded
<1>9. UnoLiabilityIsOneCard'
  BY <1>1, <1>4, <1>5 DEF UnoLiabilityIsOneCard, TypeOK
<1>10. QED
  BY <1>3, <1>4, <1>6, <1>7, <1>8, <1>9 DEF InductiveInvariant, GameInvariants

\* With two or more in the game somebody remains when one goes.
LEMMA OthersRemain ==
  ASSUME Cardinality(Active) >= 2, NEW u \in Active
  PROVE  /\ Active \ {u} # {}
         /\ Cardinality(Active \ {u}) \in Nat /\ Cardinality(Active \ {u}) >= 1
<1>1. Active \subseteq Users /\ IsFiniteSet(Active)
  BY UsersAssumption, FS_Subset DEF Active
<1>2. IsFiniteSet(Active \ {u}) /\ Cardinality(Active \ {u}) = Cardinality(Active) - 1
  BY <1>1, FS_RemoveElement
<1>3. Cardinality(Active) \in Nat
  BY <1>1, FS_CardinalityType
<1>4. QED
  BY <1>2, <1>3, FS_EmptySet

\* Somebody in the game draws up to the limit and is out of it.
LEMMA DrawerKnockedOutIsSafe ==
  ASSUME InductiveInvariant, phase = "playing", NEW u \in Active,
         NEW haul \in Drawable, TakeCards(u, haul), KnockedOut(u, haul),
         NEW owed \in {pending, NoPenalty}, NEW liable \in {uno, {}},
         AfterKnockout(u, owed, liable), UNCHANGED <<seat, ready, host, direction>>,
         color' \in Colors, turnNumber' \in Nat
  PROVE  InductiveInvariant'
<1>1. /\ TypeOK /\ SeatsDistinct /\ HostPresent /\ CardsOnlyInPlay /\ PlayingConsistent
      /\ EmptyRoomComplete /\ UnoLiabilityIsOneCard /\ NobodyPlaysEmptyHanded
      /\ NoDuplicateCard /\ CardConservation /\ TurnStateConsistent
  BY DEF InductiveInvariant, GameInvariants
<1>2. /\ top # None /\ u \in Users /\ top' = top /\ current \in Active /\ host \in Users
      /\ \A v \in Active : Cardinality(hand[v]) < MercyLimit
      /\ Active \subseteq Users /\ Cardinality(Active) >= 2
  BY <1>1 DEF PlayingConsistent, Active, TakeCards, NobodyPlaysEmptyHanded, TypeOK
<1>3. /\ NoDuplicateCard' /\ CardConservation'
      /\ hand' \in [Users -> SUBSET Cards]
      /\ draw' \subseteq Cards /\ rest' \subseteq Cards /\ reserve' \subseteq Cards
      /\ haul \subseteq Cards
  BY <1>1, <1>2, TakeCardsConserves
<1> DEFINE remaining == Active \ {u}
<1>4. /\ status' \in [Users -> {"absent", "active", "eliminated", "left"}]
      /\ Members' = Members /\ Seated' = Seated /\ Active' = remaining
      /\ \A v \in Users : status'[v] = "left" <=> status[v] = "left"
      /\ \A v \in Users : status'[v] # "active" => hand'[v] = {}
      /\ \A v \in remaining : hand'[v] # {} /\ Cardinality(hand'[v]) < MercyLimit
      /\ \A v \in Users : v # u => hand'[v] = hand[v]
      /\ SeatsDistinct'
  BY <1>1, <1>2, <1>3, TakeCardsHands
<1>5. status' = [status EXCEPT ![u] = "eliminated"]
  BY DEF TakeCards
<1>6. remaining # {} /\ remaining \subseteq Users /\ Cardinality(remaining) \in Nat
  BY <1>2, OthersRemain
<1>7. NextActive(remaining, u, direction) \in remaining
  BY <1>1, <1>2, <1>6, NextActiveIsFirst DEF TypeOK, SeatsDistinct, Seated, Active
<1>8. CASE \E w \in remaining : CompleteGame(w, "last_active")
  <2>1. PICK w \in remaining : CompleteGame(w, "last_active")
    BY <1>8
  <2>2. /\ phase' = "complete" /\ winner' = [player |-> w, reason |-> "last_active"]
        /\ current' = None /\ pending' = NoPenalty /\ roulette' = None
        /\ forced' = None /\ uno' = {}
    BY <2>1 DEF CompleteGame, ClearTurnTransients
  <2>3. TypeOK'
    BY <1>1, <1>2, <1>3, <1>4, <1>6, <2>2 DEF TypeOK, NoPenalty
  <2>4. GameInvariants'
    BY <1>1, <1>2, <1>3, <1>4, <2>2 DEF GameInvariants, HostPresent, LeftHandsEmpty,
       EmptyRoomComplete, NoTerminalTransients, PlayingConsistent
  <2>5. (CardsOnlyInPlay /\ TurnStateConsistent /\ UnoLiabilityIsOneCard
          /\ NobodyPlaysEmptyHanded)'
    BY <1>4, <2>2 DEF CardsOnlyInPlay, TurnStateConsistent, UnoLiabilityIsOneCard,
       NobodyPlaysEmptyHanded
  <2>6. QED
    BY <1>4, <2>3, <2>4, <2>5 DEF InductiveInvariant
<1>9. CASE /\ Cardinality(remaining) > 1
           /\ current' = IF u \in {current, roulette}
                         THEN NextActive(remaining, u, direction) ELSE current
           /\ roulette' = IF roulette = u THEN None ELSE roulette
           /\ forced' = None
           /\ pending' = owed
           /\ uno' = liable \ {u}
           /\ UNCHANGED <<phase, winner>>
  <2>1. current' \in remaining
    BY <1>2, <1>7, <1>9
  <2>2. TypeOK'
    BY <1>1, <1>2, <1>3, <1>4, <1>6, <1>9, <2>1 DEF TypeOK, NoPenalty
  <2>3. (HostPresent /\ LeftHandsEmpty /\ EmptyRoomComplete /\ NoTerminalTransients)'
    BY <1>1, <1>2, <1>4, <1>9 DEF HostPresent, LeftHandsEmpty, EmptyRoomComplete,
       NoTerminalTransients
  <2>4. (PlayingConsistent /\ CardsOnlyInPlay /\ NobodyPlaysEmptyHanded)'
    BY <1>1, <1>2, <1>4, <1>6, <1>9, <2>1 DEF PlayingConsistent, CardsOnlyInPlay,
       NobodyPlaysEmptyHanded
  <2>5. TurnStateConsistent'
    BY <1>1, <1>2, <1>9, NullAssumption DEF TurnStateConsistent, NoPenalty
  <2>6. UnoLiabilityIsOneCard'
    BY <1>1, <1>4, <1>5, <1>9 DEF UnoLiabilityIsOneCard, TypeOK
  <2>7. QED
    BY <1>3, <1>4, <2>2, <2>3, <2>4, <2>5, <2>6 DEF InductiveInvariant, GameInvariants
<1>10. QED
  BY <1>8, <1>9 DEF AfterKnockout

-----------------------------------------------------------------------------
(***************************************************************************)
(* The commands that draw cards.                                           *)
(***************************************************************************)

\* The player after an active one is active.
LEMMA NextIsActive ==
  ASSUME TypeOK, SeatsDistinct, NEW u \in Active, NEW dir \in {1, -1}
  PROVE  NextActive(Active, u, dir) \in Active
BY NextActiveIsFirst DEF TypeOK, SeatsDistinct, Seated, Active

\* Drawing for a playable card leaves the player with one that must be
\* played, or knocked out.
LEMMA DrawUntilPlayableIsSafe ==
  ASSUME InductiveInvariant, NEW u \in Users, DrawUntilPlayable(u)
  PROVE  InductiveInvariant'
<1>1. /\ TypeOK /\ TurnStateConsistent /\ PlayingConsistent
  BY DEF InductiveInvariant, GameInvariants
<1>2. /\ phase = "playing" /\ u \in Active /\ current = u
      /\ pending.total = 0 /\ roulette = None /\ forced = None
      /\ UNCHANGED <<seat, ready, host, direction, color, turnNumber>>
      /\ color \in Colors
  BY <1>1 DEF DrawUntilPlayable, MyTurn, TurnStateConsistent
<1>3. PICK haul \in Drawable, last \in Cards :
        /\ last \in haul
        /\ KnockedOut(u, haul) \/ Playable(last)
        /\ TakeCards(u, haul)
        /\ IF KnockedOut(u, haul)
           THEN AfterKnockout(u, pending, {})
           ELSE /\ forced' = last
                /\ uno' = {}
                /\ UNCHANGED <<phase, current, pending, roulette, winner>>
  <2>1. \A haul \in Drawable : haul \subseteq Cards
    BY <1>1 DEF Drawable, Recyclable, TypeOK
  <2>2. QED
    BY <2>1 DEF DrawUntilPlayable
<1>4. turnNumber' \in Nat /\ color' \in Colors
  BY <1>1, <1>2 DEF TypeOK
<1>5. CASE KnockedOut(u, haul)
  BY <1>2, <1>3, <1>4, <1>5, DrawerKnockedOutIsSafe
<1>6. CASE ~KnockedOut(u, haul)
  <2>1. /\ forced' = last /\ uno' = {} /\ Playable(last)
        /\ UNCHANGED <<phase, current, pending, roulette, winner>>
        /\ top' = top /\ last \in hand'[u]
    BY <1>1, <1>3, <1>6 DEF TakeCards, TypeOK
  <2>3. TurnStateConsistent'
    BY <1>2, <2>1 DEF TurnStateConsistent, Playable
  <2>4. /\ pending' \in [total: Nat, minimum: Nat] /\ current' \in Active
        /\ roulette' \in {None, current'} /\ forced' \in Cards \cup {None}
        /\ forced' # None => forced' \in hand'[current']
        /\ uno' \subseteq uno \ {u} /\ (uno' # {} => forced' = None)
        /\ UNCHANGED <<phase, winner, seat, ready, host, direction>>
    BY <1>1, <1>2, <2>1 DEF TypeOK
  <2>5. QED
    BY <1>2, <1>3, <1>4, <1>6, <2>3, <2>4, DrawerStaysIsSafe
<1>7. QED
  BY <1>5, <1>6

\* Taking a penalty ends it and passes the turn on, or knocks the player out.
LEMMA AcceptPenaltyIsSafe ==
  ASSUME InductiveInvariant, NEW u \in Users, AcceptPenalty(u)
  PROVE  InductiveInvariant'
<1>1. /\ TypeOK /\ TurnStateConsistent /\ PlayingConsistent /\ SeatsDistinct
  BY DEF InductiveInvariant, GameInvariants
<1>2. /\ phase = "playing" /\ u \in Active /\ current = u
      /\ pending.total > 0 /\ roulette = None /\ forced = None
      /\ UNCHANGED <<seat, ready, host, direction, color>>
      /\ color \in Colors
  BY <1>1 DEF AcceptPenalty, MyTurn, TurnStateConsistent, TypeOK
<1>3. PICK haul \in Drawable :
        /\ TakeCards(u, haul)
        /\ IF KnockedOut(u, haul)
           THEN AfterKnockout(u, NoPenalty, {})
           ELSE /\ current' = NextActive(Active, u, direction)
                /\ pending' = NoPenalty
                /\ uno' = {}
                /\ UNCHANGED <<phase, roulette, forced, winner>>
  BY DEF AcceptPenalty
<1>4. turnNumber' \in Nat /\ color' \in Colors
  BY <1>1, <1>2 DEF TypeOK, AcceptPenalty
<1>5. CASE KnockedOut(u, haul)
  BY <1>2, <1>3, <1>4, <1>5, DrawerKnockedOutIsSafe
<1>6. CASE ~KnockedOut(u, haul)
  <2>1. /\ current' \in Active /\ pending' = NoPenalty /\ uno' = {}
        /\ UNCHANGED <<phase, roulette, forced, winner>>
    BY <1>1, <1>2, <1>3, <1>6, NextIsActive DEF TypeOK
  <2>2. TurnStateConsistent'
    BY <1>2, <2>1 DEF TurnStateConsistent, NoPenalty
  <2>3. pending' \in [total: Nat, minimum: Nat]
    BY <2>1 DEF NoPenalty
  <2>4. QED
    BY <1>2, <1>3, <1>4, <1>6, <2>1, <2>2, <2>3, DrawerStaysIsSafe
<1>7. QED
  BY <1>5, <1>6

\* The roulette ends with a chosen color and the turn passed on, or with the
\* player knocked out.
LEMMA ChooseRouletteColorIsSafe ==
  ASSUME InductiveInvariant, NEW u \in Users, NEW chosen \in Colors,
         ChooseRouletteColor(u, chosen)
  PROVE  InductiveInvariant'
<1>1. /\ TypeOK /\ TurnStateConsistent /\ PlayingConsistent /\ SeatsDistinct
  BY DEF InductiveInvariant, GameInvariants
<1>2. /\ phase = "playing" /\ u \in Active /\ current = u
      /\ roulette = u /\ pending.total = 0 /\ forced = None
      /\ UNCHANGED <<seat, ready, host, direction>>
      /\ color' = chosen /\ turnNumber' = turnNumber + 1
  BY <1>1, NullAssumption DEF ChooseRouletteColor, MyTurn, TurnStateConsistent, TypeOK
<1>3. PICK haul \in Drawable :
        /\ TakeCards(u, haul)
        /\ IF KnockedOut(u, haul)
           THEN AfterKnockout(u, pending, {})
           ELSE /\ current' = NextActive(Active, u, direction)
                /\ roulette' = None
                /\ uno' = {}
                /\ UNCHANGED <<phase, pending, forced, winner>>
  BY DEF ChooseRouletteColor
<1>4. turnNumber' \in Nat /\ color' \in Colors
  BY <1>1, <1>2 DEF TypeOK
<1>5. CASE KnockedOut(u, haul)
  BY <1>2, <1>3, <1>4, <1>5, DrawerKnockedOutIsSafe
<1>6. CASE ~KnockedOut(u, haul)
  <2>1. /\ current' \in Active /\ roulette' = None /\ uno' = {}
        /\ UNCHANGED <<phase, pending, forced, winner>>
    BY <1>1, <1>2, <1>3, <1>6, NextIsActive DEF TypeOK
  <2>2. TurnStateConsistent'
    BY <1>2, <2>1 DEF TurnStateConsistent
  <2>3. pending' \in [total: Nat, minimum: Nat]
    BY <1>1, <2>1 DEF TypeOK
  <2>4. QED
    BY <1>2, <1>3, <1>4, <1>6, <2>1, <2>2, <2>3, DrawerStaysIsSafe
<1>7. QED
  BY <1>5, <1>6

\* Catching an undeclared UNO touches nobody's cards but the offender's, on
\* whoever's turn it comes.
LEMMA CatchUnoIsSafe ==
  ASSUME InductiveInvariant, NEW u \in Users, NEW offender \in Users,
         CatchUno(u, offender)
  PROVE  InductiveInvariant'
<1>1. /\ TypeOK /\ TurnStateConsistent /\ PlayingConsistent /\ UnoLiabilityIsOneCard
  BY DEF InductiveInvariant, GameInvariants
<1>2. /\ phase = "playing" /\ offender \in Active /\ offender \in uno
      /\ UNCHANGED <<seat, ready, host, direction, color, turnNumber>>
      /\ color \in Colors /\ forced = None
  BY <1>1 DEF CatchUno, TurnStateConsistent, UnoLiabilityIsOneCard
<1>3. PICK haul \in Drawable :
        /\ TakeCards(offender, haul)
        /\ IF KnockedOut(offender, haul)
           THEN AfterKnockout(offender, pending, uno)
           ELSE /\ uno' = uno \ {offender}
                /\ UNCHANGED <<phase, current, pending, roulette, forced, winner>>
  BY DEF CatchUno
<1>4. turnNumber' \in Nat /\ color' \in Colors
  BY <1>1, <1>2 DEF TypeOK
<1>5. CASE KnockedOut(offender, haul)
  BY <1>2, <1>3, <1>4, <1>5, DrawerKnockedOutIsSafe
<1>6. CASE ~KnockedOut(offender, haul)
  <2>1. /\ uno' = uno \ {offender}
        /\ UNCHANGED <<phase, current, pending, roulette, forced, winner>>
    BY <1>3, <1>6
  <2>2. TurnStateConsistent' /\ current' \in Active /\ roulette' \in {None, current'}
    BY <1>1, <1>2, <2>1 DEF TurnStateConsistent, PlayingConsistent
  <2>3. pending' \in [total: Nat, minimum: Nat]
    BY <1>1, <2>1 DEF TypeOK
  <2>4. QED
    BY <1>2, <1>3, <1>4, <1>6, <2>1, <2>2, <2>3, DrawerStaysIsSafe
<1>7. QED
  BY <1>5, <1>6

-----------------------------------------------------------------------------
(***************************************************************************)
(* Departures.                                                             *)
(***************************************************************************)

\* Giving a hand to the mercy reserve moves its cards and loses none.
LEMMA HandToReserveConserves ==
  ASSUME TypeOK, NoDuplicateCard, CardConservation, NEW u \in Users,
         hand' = [hand EXCEPT ![u] = {}], reserve' = reserve \cup hand[u],
         UNCHANGED <<draw, top, rest>>
  PROVE  NoDuplicateCard' /\ CardConservation'
<1>1. /\ hand'[u] = {} /\ hand[u] \subseteq reserve'
      /\ \A v \in Users : v # u => hand'[v] = hand[v]
  BY DEF TypeOK
<1>2. NoDuplicateCard'
  BY <1>1 DEF NoDuplicateCard
<1>3. CardConservation'
  BY <1>1 DEF CardConservation
<1>4. QED
  BY <1>2, <1>3

\* Whoever leaves, in whatever phase and whoever's turn it is, leaves a sound
\* table behind, so long as somebody still at it is the host.
LEMMA RemovePlayerIsSafe ==
  ASSUME InductiveInvariant, NEW u \in Members, RemovePlayer(u), host' \in Seated,
         host' \in Members \ {u} \/ Members \ {u} = {}
  PROVE  InductiveInvariant'
<1>1. /\ TypeOK /\ SeatsDistinct /\ CardsOnlyInPlay /\ PlayingConsistent
      /\ EmptyRoomComplete /\ UnoLiabilityIsOneCard /\ NobodyPlaysEmptyHanded
      /\ NoDuplicateCard /\ CardConservation /\ TurnStateConsistent /\ LeftHandsEmpty
      /\ NoTerminalTransients /\ u \in Users
  BY DEF InductiveInvariant, GameInvariants, Members
<1> DEFINE remaining == Active \ {u}
<1>2. /\ status' = [status EXCEPT ![u] = "left"]
      /\ ready' = [ready EXCEPT ![u] = FALSE]
      /\ hand' = [hand EXCEPT ![u] = {}]
      /\ reserve' = reserve \cup hand[u]
      /\ UNCHANGED <<seat, direction, color, draw, top, rest, turnNumber>>
  BY DEF RemovePlayer
<1>3. /\ Active' = remaining /\ Members' = Members \ {u} /\ Seated' = Seated
      /\ status'[u] = "left" /\ hand'[u] = {}
      /\ \A v \in Users : v # u => status'[v] = status[v] /\ hand'[v] = hand[v]
  BY <1>1, <1>2 DEF TypeOK, Active, Members, Seated
<1>4. NoDuplicateCard' /\ CardConservation'
  BY <1>1, <1>2, HandToReserveConserves
<1>5. HostPresent' /\ LeftHandsEmpty' /\ SeatsDistinct'
  BY <1>1, <1>2, <1>3 DEF HostPresent, LeftHandsEmpty, SeatsDistinct, Members, Seated
<1>6. /\ status' \in [Users -> {"absent", "active", "eliminated", "left"}]
      /\ seat' \in [Users -> 0..MaxPlayers] /\ ready' \in [Users -> BOOLEAN]
      /\ hand' \in [Users -> SUBSET Cards] /\ host' \in Users /\ direction' \in {1, -1}
      /\ color' \in Colors \cup {None} /\ draw' \subseteq Cards /\ rest' \subseteq Cards
      /\ reserve' \subseteq Cards /\ top' \in Cards \cup {None} /\ turnNumber' \in Nat
  BY <1>1, <1>2 DEF TypeOK, Seated
<1>7. \A v \in Users : status'[v] # "active" => hand'[v] = {}
  BY <1>1, <1>3 DEF CardsOnlyInPlay
<1>8. CASE /\ phase = "lobby"
           /\ phase' = IF remaining = {} THEN "complete" ELSE "lobby"
           /\ UNCHANGED <<current, pending, roulette, forced, uno, winner>>
  <2>1. /\ reserve' = {} /\ draw' = {} /\ top' = None /\ rest' = {}
        /\ current' = None /\ pending' = NoPenalty /\ roulette' = None
        /\ forced' = None /\ uno' = {}
        /\ \A v \in Users : hand'[v] = {} /\ status'[v] # "eliminated"
        /\ Members = Active
    BY <1>1, <1>2, <1>3, <1>8 DEF CardsOnlyInPlay, Members, Active
  <2>2. TypeOK'
    BY <1>1, <1>6, <1>8 DEF TypeOK
  <2>3. GameInvariants'
    BY <1>3, <1>4, <1>5, <1>8, <2>1 DEF GameInvariants, EmptyRoomComplete,
       NoTerminalTransients, PlayingConsistent
  <2>4. (CardsOnlyInPlay /\ TurnStateConsistent /\ UnoLiabilityIsOneCard
          /\ NobodyPlaysEmptyHanded)'
    BY <1>7, <1>8, <2>1 DEF CardsOnlyInPlay, TurnStateConsistent,
       UnoLiabilityIsOneCard, NobodyPlaysEmptyHanded
  <2>5. QED
    BY <1>5, <2>2, <2>3, <2>4 DEF InductiveInvariant
<1>9. CASE /\ phase' = "complete" /\ ClearTurnTransients
           /\ winner' \in [player: Users \cup {None},
                           reason: {"none", "empty_hand", "last_active"}]
  <2>1. /\ current' = None /\ pending' = NoPenalty /\ roulette' = None
        /\ forced' = None /\ uno' = {}
    BY <1>9 DEF ClearTurnTransients
  <2>2. TypeOK'
    BY <1>6, <1>9, <2>1 DEF TypeOK, NoPenalty
  <2>3. GameInvariants'
    BY <1>4, <1>5, <1>9, <2>1 DEF GameInvariants, EmptyRoomComplete,
       NoTerminalTransients, PlayingConsistent
  <2>4. (CardsOnlyInPlay /\ TurnStateConsistent /\ UnoLiabilityIsOneCard
          /\ NobodyPlaysEmptyHanded)'
    BY <1>7, <1>9, <2>1 DEF CardsOnlyInPlay, TurnStateConsistent,
       UnoLiabilityIsOneCard, NobodyPlaysEmptyHanded
  <2>5. QED
    BY <1>5, <2>2, <2>3, <2>4 DEF InductiveInvariant
<1>10. CASE /\ phase = "playing"
            /\ Cardinality(remaining) > 1
            /\ uno' = uno \ {u}
            /\ IF current = u
               THEN /\ current' = NextActive(remaining, u, direction)
                    /\ pending' = NoPenalty
                    /\ roulette' = None
                    /\ forced' = None
               ELSE /\ forced' = IF forced \in hand[u] THEN None ELSE forced
                    /\ IF roulette = u
                       THEN /\ roulette' = None
                            /\ current' = NextActive(remaining, u, direction)
                       ELSE UNCHANGED <<roulette, current>>
                    /\ UNCHANGED pending
            /\ UNCHANGED <<phase, winner>>
  <2>1. remaining \subseteq Users /\ Cardinality(remaining) \in Nat /\ remaining # {}
    <3>1. remaining \subseteq Users /\ IsFiniteSet(remaining)
      BY UsersAssumption, FS_Subset DEF Active
    <3>2. QED
      BY <3>1, <1>10, FS_CardinalityType, FS_EmptySet
  <2>2. NextActive(remaining, u, direction) \in remaining
    BY <1>1, <2>1, NextActiveIsFirst DEF TypeOK, SeatsDistinct, Seated, Active, Members
  <2>3. /\ current \in Active /\ top # None /\ color \in Colors
        /\ roulette \in {None, current}
        /\ forced # None => forced \in hand[current]
        /\ \A v \in Active : hand[v] # {} /\ Cardinality(hand[v]) < MercyLimit
    BY <1>1, <1>10 DEF PlayingConsistent, NobodyPlaysEmptyHanded, TurnStateConsistent
  <2>4. /\ phase' = "playing"
        /\ \/ /\ current' = NextActive(remaining, u, direction)
              /\ pending' = NoPenalty /\ roulette' = None /\ forced' = None
           \/ /\ current # u /\ UNCHANGED <<current, roulette, pending, forced>>
    <3>1. CASE current = u
      BY <1>10, <3>1
    <3>2. CASE current # u
      <4>1. forced # None => forced \notin hand[u]
        BY <1>1, <2>3, <3>2 DEF NoDuplicateCard, Active
      <4>2. None \notin hand[u]
        BY <1>1, NullAssumption DEF TypeOK
      <4>3. roulette # u
        BY <1>1, <2>3, <3>2, NullAssumption
      <4>4. QED
        BY <1>10, <3>2, <4>1, <4>2, <4>3
    <3>3. QED
      BY <3>1, <3>2
  <2>5. current' \in remaining
    BY <2>2, <2>3, <2>4
  <2>6. TypeOK'
    BY <1>1, <1>6, <1>10, <2>1, <2>4, <2>5 DEF TypeOK, NoPenalty
  <2>7. PlayingConsistent'
    BY <1>2, <1>3, <2>1, <2>3, <2>4, <2>5 DEF PlayingConsistent
  <2>8. EmptyRoomComplete' /\ NoTerminalTransients'
    BY <1>3, <2>1, <2>4 DEF EmptyRoomComplete, NoTerminalTransients, Active, Members
  <2>9. TurnStateConsistent'
    BY <1>1, <1>2, <1>10, <2>3, <2>4 DEF TurnStateConsistent, NoPenalty, Playable
  <2>10. UnoLiabilityIsOneCard'
    BY <1>1, <1>3, <1>10, <2>4 DEF UnoLiabilityIsOneCard, TypeOK
  <2>11. NobodyPlaysEmptyHanded' /\ CardsOnlyInPlay'
    BY <1>3, <1>7, <1>10, <2>1, <2>3, <2>4 DEF NobodyPlaysEmptyHanded, CardsOnlyInPlay
  <2>12. QED
    BY <1>4, <1>5, <2>6, <2>7, <2>8, <2>9, <2>10, <2>11 DEF InductiveInvariant, GameInvariants
<1>11. CASE /\ phase = "playing"
            /\ \E w \in remaining : CompleteGame(w, "last_active")
  BY <1>9, <1>11 DEF CompleteGame, Active
<1>12. CASE /\ phase = "complete" /\ ClearTurnTransients
            /\ UNCHANGED <<phase, winner>>
  BY <1>1, <1>9, <1>12 DEF TypeOK
<1>13. QED
  BY <1>8, <1>10, <1>11, <1>12 DEF RemovePlayer

\* A host who leaves hands the table to somebody still at it, in the game
\* itself to somebody still playing.
LEMMA LeaveGameIsSafe ==
  ASSUME InductiveInvariant, NEW u \in Users, LeaveGame(u)
  PROVE  InductiveInvariant'
<1>1. TypeOK /\ HostPresent /\ u \in Members
  BY DEF InductiveInvariant, GameInvariants, LeaveGame
<1>2. host \in Members
  BY <1>1 DEF HostPresent, Members, Seated, TypeOK
<1> DEFINE successors == IF phase' = "playing" THEN Active \ {u} ELSE Members \ {u}
<1>3. /\ host' = IF u = host /\ successors # {} THEN LowestSeat(successors) ELSE host
      /\ RemovePlayer(u)
  BY DEF LeaveGame
<1>4. successors \subseteq Members \ {u} /\ Members \subseteq Users /\ Members \subseteq Seated
  BY DEF Active, Members, Seated
<1>5. phase' = "playing" => Active \ {u} # {}
  <2>1. ASSUME phase' = "playing" PROVE Cardinality(Active \ {u}) > 1
    BY <1>3, <2>1 DEF RemovePlayer, CompleteGame
  <2>2. QED
    BY <2>1, FS_EmptySet
<1>6. CASE u = host /\ successors # {}
  <2>1. LowestSeat(successors) \in successors
    <3> HIDE DEF successors
    <3>1. QED
      BY <1>1, <1>4, <1>6, LowestSeatIsMember DEF TypeOK
  <2>2. QED
    BY <1>1, <1>3, <1>4, <1>6, <2>1, RemovePlayerIsSafe
<1>7. CASE u = host /\ successors = {}
  BY <1>1, <1>2, <1>3, <1>4, <1>5, <1>7, RemovePlayerIsSafe
<1>8. CASE u # host
  BY <1>1, <1>2, <1>3, <1>4, <1>8, RemovePlayerIsSafe
<1>9. QED
  BY <1>6, <1>7, <1>8

\* A host who removes somebody stays, and stays the host.
LEMMA RemoveInactivePlayerIsSafe ==
  ASSUME InductiveInvariant, NEW u \in Users, NEW target \in Users,
         RemoveInactivePlayer(u, target)
  PROVE  InductiveInvariant'
<1>1. /\ RemovePlayer(target) /\ host' = u /\ u # target
      /\ u \in Members /\ target \in Members /\ u \in Seated
  BY DEF RemoveInactivePlayer, Active, Members, Seated
<1>2. QED
  BY <1>1, RemovePlayerIsSafe

-----------------------------------------------------------------------------
(***************************************************************************)
(* Playing a card.                                                         *)
(***************************************************************************)

\* The hands before, dealt out again one to each player in the game.
Redealt(before, after) ==
  \E from \in [Users -> Users] :
    /\ \A v, w \in Users : v # w => from[v] # from[w]
    /\ \A w \in Users : \E v \in Users : from[v] = w
    /\ \A v \in Users : v \in Active <=> from[v] \in Active
    /\ after = [v \in Users |-> before[from[v]]]

\* Whichever card is played, the hands that result are those of the table
\* after the discard, dealt out again one to each player: a rotation and a
\* swap are permutations, whatever the direction and the gaps in the seats.
LEMMA HandsArePermuted ==
  ASSUME TypeOK, SeatsDistinct, NEW u \in Active, NEW c \in Cards,
         NEW swap \in Users \cup {None}, IsDigit(c, 7) => swap \in Active \ {u}
  PROVE  Redealt([hand EXCEPT ![u] = Kept(u, c)], HandsAfter(u, c, swap))
<1> DEFINE played == [hand EXCEPT ![u] = Kept(u, c)]
           Permutes(from) ==
             /\ from \in [Users -> Users]
             /\ \A v, w \in Users : v # w => from[v] # from[w]
             /\ \A w \in Users : \E v \in Users : from[v] = w
             /\ \A v \in Users : v \in Active <=> from[v] \in Active
             /\ HandsAfter(u, c, swap) = [v \in Users |-> played[from[v]]]
<1>1. /\ u \in Users /\ Active \subseteq Users /\ direction \in {1, -1}
      /\ -direction \in {1, -1} /\ -(-direction) = direction
      /\ played \in [Users -> SUBSET Cards]
  BY DEF Active, TypeOK, Kept
<1>2. CASE IsDigit(c, 0)
  <2> DEFINE from == [v \in Users |-> IF v \in Active
                                      THEN NextActive(Active, v, -direction) ELSE v]
  <2>1. \A v \in Active : NextActive(Active, v, -direction) \in Active
    BY <1>1, NextIsActive
  <2>2. \A v \in Active : NextActive(Active, v, direction) \in Active
    BY <1>1, NextIsActive
  <2>3. \A v \in Active : NextActive(Active, NextActive(Active, v, -direction), direction) = v
    <3>1. \A v \in Active : NextActive(Active, NextActive(Active, v, -direction), -(-direction)) = v
      BY <1>1, NextActiveInverse DEF TypeOK, SeatsDistinct, Seated, Active
    <3>2. QED
      BY <3>1, <1>1
  <2>4. \A v \in Active : NextActive(Active, NextActive(Active, v, direction), -direction) = v
    BY <1>1, NextActiveInverse DEF TypeOK, SeatsDistinct, Seated, Active
  <2>5. from \in [Users -> Users] /\ \A v \in Users : v \in Active <=> from[v] \in Active
    BY <1>1, <2>1
  <2>6. \A v, w \in Users : from[v] = from[w] => v = w
    BY <2>1, <2>3
  <2>7. \A w \in Users : \E v \in Users : from[v] = w
    <3>1. ASSUME NEW w \in Active PROVE from[NextActive(Active, w, direction)] = w
      BY <1>1, <2>2, <2>4
    <3>2. QED
      BY <1>1, <2>2, <3>1
  <2>8. HandsAfter(u, c, swap) = [v \in Users |-> played[from[v]]]
    <3>1. HandsAfter(u, c, swap) =
            [v \in Users |-> IF v \in Active
                             THEN played[NextActive(Active, v, -direction)] ELSE played[v]]
      BY <1>2 DEF HandsAfter
    <3>2. QED
      BY <3>1
  <2>9. Permutes(from)
    <3> HIDE DEF from, played
    <3>1. QED
      BY <2>5, <2>6, <2>7, <2>8
  <2>10. QED
    BY <2>9 DEF Redealt
<1>3. CASE IsDigit(c, 7)
  <2> DEFINE from == [v \in Users |-> IF v = u THEN swap ELSE IF v = swap THEN u ELSE v]
  <2>1. swap \in Active /\ swap # u /\ swap \in Users
    BY <1>1, <1>3
  <2>2. ~IsDigit(c, 0)
    BY <1>3 DEF IsDigit
  <2>3. HandsAfter(u, c, swap) = [played EXCEPT ![u] = played[swap], ![swap] = played[u]]
    BY <1>3, <2>2 DEF HandsAfter
  <2>4. HandsAfter(u, c, swap) = [v \in Users |-> played[from[v]]]
    BY <1>1, <2>1, <2>3
  <2>5. Permutes(from)
    BY <1>1, <2>1, <2>4
  <2>6. QED
    BY <2>5 DEF Redealt
<1>4. CASE ~IsDigit(c, 0) /\ ~IsDigit(c, 7)
  <2> DEFINE from == [v \in Users |-> v]
  <2>1. HandsAfter(u, c, swap) = played
    BY <1>4 DEF HandsAfter
  <2>2. Permutes(from)
    BY <1>1, <2>1
  <2>3. QED
    BY <2>2 DEF Redealt
<1>5. QED
  BY <1>2, <1>3, <1>4 DEF Redealt

\* After a card that leaves its player others to play, hands are still apart,
\* hold all the cards they held but the discarded ones, and are neither empty
\* nor at the mercy limit.
LEMMA HandsAfterCard ==
  ASSUME TypeOK, SeatsDistinct, NoDuplicateCard, CardsOnlyInPlay,
         NEW u \in Active, NEW c \in hand[u], Kept(u, c) # {},
         NEW swap \in Users \cup {None}, IsDigit(c, 7) => swap \in Active \ {u},
         \A v \in Active : hand[v] # {} /\ Cardinality(hand[v]) < MercyLimit
  PROVE  LET hands == HandsAfter(u, c, swap)
         IN  /\ hands \in [Users -> SUBSET Cards]
             /\ \A v, w \in Users : v # w => hands[v] \cap hands[w] = {}
             /\ \A v \in Users : status[v] # "active" => hands[v] = {}
             /\ \A v \in Active : hands[v] # {} /\ Cardinality(hands[v]) < MercyLimit
             /\ \A x \in Cards : (\E v \in Users : x \in hands[v])
                  <=> x \notin Discarded(u, c) /\ \E v \in Users : x \in hand[v]
<1> DEFINE played == [hand EXCEPT ![u] = Kept(u, c)]
           hands == HandsAfter(u, c, swap)
<1>1. /\ u \in Users /\ c \in Cards /\ Discarded(u, c) \subseteq hand[u]
      /\ Kept(u, c) = hand[u] \ Discarded(u, c)
      /\ \A v \in Users : v # u => played[v] = hand[v]
      /\ played[u] = Kept(u, c) /\ played \in [Users -> SUBSET Cards]
  BY DEF Active, TypeOK, Discarded, Kept
<1>2. PICK from \in [Users -> Users] :
        /\ \A v, w \in Users : v # w => from[v] # from[w]
        /\ \A w \in Users : \E v \in Users : from[v] = w
        /\ \A v \in Users : v \in Active <=> from[v] \in Active
        /\ hands = [v \in Users |-> played[from[v]]]
  <2>1. Redealt(played, hands)
    BY <1>1, HandsArePermuted
  <2>2. QED
    BY <2>1 DEF Redealt
<1>3. \A v, w \in Users : v # w => played[v] \cap played[w] = {}
  BY <1>1 DEF NoDuplicateCard
<1>4. \A v \in Users : v \notin Active => played[v] = {}
  BY <1>1 DEF CardsOnlyInPlay, Active
<1>5. \A v \in Active : played[v] # {} /\ Cardinality(played[v]) < MercyLimit
  <2>1. IsFiniteSet(hand[u]) /\ Cardinality(Kept(u, c)) <= Cardinality(hand[u])
        /\ Cardinality(Kept(u, c)) \in Nat /\ Cardinality(hand[u]) \in Nat
    BY <1>1, DeckAssumption, FS_Subset, FS_CardinalityType DEF TypeOK
  <2>2. Cardinality(Kept(u, c)) < MercyLimit
    BY <2>1, LimitsAssumption
  <2>3. QED
    BY <1>1, <2>2 DEF Active
<1>6. \A x \in Cards : (\E v \in Users : x \in played[v])
        <=> x \notin Discarded(u, c) /\ \E v \in Users : x \in hand[v]
  BY <1>1 DEF NoDuplicateCard
<1> HIDE DEF played, hands
<1>7. \A v \in Users : hands[v] = played[from[v]]
  BY <1>2
<1>8. hands \in [Users -> SUBSET Cards]
  BY <1>1, <1>2
<1>9. \A v, w \in Users : v # w => hands[v] \cap hands[w] = {}
  BY <1>2, <1>3, <1>7
<1>10. \A v \in Users : v \notin Active => hands[v] = {}
  BY <1>2, <1>4, <1>7
<1>11. \A v \in Active : hands[v] # {} /\ Cardinality(hands[v]) < MercyLimit
  BY <1>2, <1>5, <1>7 DEF Active
<1>12. \A x \in Cards : (\E v \in Users : x \in hands[v]) <=> \E v \in Users : x \in played[v]
  BY <1>2, <1>7
<1>13. \A x \in Cards : (\E v \in Users : x \in hands[v])
         <=> x \notin Discarded(u, c) /\ \E v \in Users : x \in hand[v]
  BY <1>6, <1>12
<1>14. \A v \in Users : status[v] # "active" => hands[v] = {}
  BY <1>10 DEF Active
<1>15. QED
  BY <1>8, <1>9, <1>11, <1>13, <1>14, Zenon DEF hands

\* The color to follow is always a color.
LEMMA ColorAfterIsColor ==
  ASSUME color \in Colors, NEW u, NEW c \in Cards, NEW chosen, NEW swap,
         ValidChoices(u, c, chosen, swap)
  PROVE  ColorAfter(c, chosen) \in Colors
<1>1. CASE Kind(c) = "wild_color_roulette"
  BY <1>1 DEF ColorAfter
<1>2. CASE IsWild(c) /\ Kind(c) # "wild_color_roulette"
  BY <1>2 DEF ColorAfter, ValidChoices
<1>3. CASE ~IsWild(c)
  <2>1. Face[c] \in [kind: {"number"}, color: Colors, number: 0..9]
                      \cup [kind: ColoredActions, color: Colors]
    BY <1>3, DeckAssumption DEF Faces, IsWild, Kind
  <2>2. ColorOf(c) \in Colors
    BY <1>3, <2>1 DEF ColorOf
  <2>3. Kind(c) # "wild_color_roulette"
    BY <1>3 DEF IsWild, WildKinds
  <2>4. QED
    BY <1>3, <2>2, <2>3 DEF ColorAfter
<1>4. QED
  BY <1>1, <1>2, <1>3

\* Whoever moves next is in the game.
LEMMA SuccessorIsActive ==
  ASSUME TypeOK, SeatsDistinct, NEW u \in Active, NEW c, NEW dir \in {1, -1}
  PROVE  Successor(u, c, dir) \in Active
<1>1. /\ NextActive(Active, u, dir) \in Active
      /\ NextActive(Active, NextActive(Active, u, dir), dir) \in Active
  BY NextIsActive
<1>2. QED
  BY <1>1 DEF Successor

\* What a card is worth is a natural number, and nothing for a roulette.
LEMMA DrawValueType ==
  ASSUME NEW c
  PROVE  /\ DrawValue(c) \in Nat
         /\ Kind(c) = "wild_color_roulette" => DrawValue(c) = 0
<1>1. DOMAIN DrawValues = {"draw_two", "draw_four", "wild_reverse_draw_four",
                           "wild_draw_six", "wild_draw_ten"}
  BY DEF DrawValues
<1>2. \A k \in DOMAIN DrawValues : DrawValues[k] \in Nat
  BY DEF DrawValues
<1>3. QED
  BY <1>1, <1>2 DEF DrawValue

\* The discarded cards move from the hands to the discard pile.
LEMMA DiscardConserves ==
  ASSUME TypeOK, NoDuplicateCard, CardConservation, top # None,
         NEW u \in Users, NEW c \in hand[u],
         hand' \in [Users -> SUBSET Cards],
         \A v, w \in Users : v # w => hand'[v] \cap hand'[w] = {},
         \A x \in Cards : (\E v \in Users : x \in hand'[v])
           <=> x \notin Discarded(u, c) /\ \E v \in Users : x \in hand[v],
         top' = c, rest' = rest \cup {top} \cup (Discarded(u, c) \ {c}),
         UNCHANGED <<draw, reserve>>
  PROVE  NoDuplicateCard' /\ CardConservation'
<1>1. Discarded(u, c) \subseteq hand[u] /\ c \in Discarded(u, c) /\ hand[u] \subseteq Cards
  BY DEF Discarded, TypeOK
<1>2. NoDuplicateCard'
  <2>1. \A v \in Users : hand'[v] \cap (draw' \cup rest' \cup reserve' \cup {top'}) = {}
    <3> SUFFICES ASSUME NEW v \in Users, NEW x \in hand'[v]
                 PROVE  x \notin draw' \cup rest' \cup reserve' \cup {top'}
      OBVIOUS
    <3>1. x \in Cards
      OBVIOUS
    <3>2. PICK w \in Users : x \in hand[w]
      BY <3>1
    <3>3. x \notin Discarded(u, c)
      BY <3>1
    <3>4. x \notin draw /\ x \notin rest /\ x \notin reserve /\ x # top
      BY <3>2 DEF NoDuplicateCard
    <3>5. QED
      BY <1>1, <3>3, <3>4
  <2>2. /\ draw' \cap rest' = {} /\ draw' \cap reserve' = {} /\ rest' \cap reserve' = {}
        /\ top' \notin draw' \cup rest' \cup reserve'
    BY <1>1 DEF NoDuplicateCard
  <2>3. QED
    BY <2>1, <2>2 DEF NoDuplicateCard
<1>3. CardConservation'
  <2> SUFFICES ASSUME NEW x \in Cards
               PROVE  \/ x \in draw' \cup rest' \cup reserve' \cup {top'}
                      \/ \E v \in Users : x \in hand'[v]
    BY DEF CardConservation
  <2>1. CASE x \in Discarded(u, c)
    BY <2>1
  <2>2. CASE x \notin Discarded(u, c)
    BY <2>2 DEF CardConservation
  <2>3. QED
    BY <2>1, <2>2
<1>4. QED
  BY <1>2, <1>3

\* Every card, played in any state of the turn that lets it be played, leaves
\* a sound table.
LEMMA PlayCardIsSafe ==
  ASSUME InductiveInvariant, NEW u \in Users, NEW c \in hand[u],
         NEW chosen \in Colors \cup {None}, NEW swap \in Users \cup {None},
         NEW declares \in BOOLEAN, PlayCard(u, c, chosen, swap, declares)
  PROVE  InductiveInvariant'
<1>1. /\ TypeOK /\ SeatsDistinct /\ HostPresent /\ CardsOnlyInPlay /\ PlayingConsistent
      /\ EmptyRoomComplete /\ UnoLiabilityIsOneCard /\ NobodyPlaysEmptyHanded
      /\ NoDuplicateCard /\ CardConservation /\ TurnStateConsistent /\ LeftHandsEmpty
  BY DEF InductiveInvariant, GameInvariants
<1>2. /\ phase = "playing" /\ u \in Active /\ current = u /\ roulette = None
      /\ c \in Cards /\ hand[u] \subseteq Cards
      /\ pending.total > 0 => DrawValue(c) > 0
      /\ ValidChoices(u, c, chosen, swap)
  BY <1>1 DEF PlayCard, MayPlay, MyTurn, TypeOK
<1>3. /\ top # None /\ color \in Colors /\ direction \in {1, -1}
      /\ Active \subseteq Users /\ Cardinality(Active) >= 2
      /\ \A v \in Active : hand[v] # {} /\ Cardinality(hand[v]) < MercyLimit
  BY <1>1, <1>2 DEF PlayingConsistent, TurnStateConsistent, TypeOK, Active,
     NobodyPlaysEmptyHanded
<1>4. /\ top' = c
      /\ rest' = rest \cup {top} \cup (Discarded(u, c) \ {c})
      /\ color' = ColorAfter(c, chosen)
      /\ UNCHANGED <<status, seat, ready, host, draw, reserve>>
  BY DEF PlayCard, places
<1>5. color' \in Colors
  BY <1>2, <1>3, <1>4, ColorAfterIsColor
<1>6. Active' = Active /\ Members' = Members /\ Seated' = Seated
  BY <1>4 DEF Active, Members, Seated
<1>7. rest' \subseteq Cards /\ Discarded(u, c) \subseteq hand[u]
  BY <1>1, <1>2, <1>3, <1>4 DEF TypeOK, Discarded
<1>8. SeatsDistinct' /\ HostPresent'
  BY <1>1, <1>4, <1>6 DEF SeatsDistinct, HostPresent
<1>9. CASE /\ Kept(u, c) = {}
           /\ hand' = [hand EXCEPT ![u] = {}]
           /\ CompleteGame(u, "empty_hand")
           /\ UNCHANGED <<direction, turnNumber>>
  <2>1. /\ phase' = "complete" /\ winner' = [player |-> u, reason |-> "empty_hand"]
        /\ current' = None /\ pending' = NoPenalty /\ roulette' = None
        /\ forced' = None /\ uno' = {}
    BY <1>9 DEF CompleteGame, ClearTurnTransients
  <2>2. Discarded(u, c) = hand[u]
    BY <1>7, <1>9 DEF Kept
  <2>3. /\ hand'[u] = {} /\ \A v \in Users : v # u => hand'[v] = hand[v]
        /\ hand' \in [Users -> SUBSET Cards]
    BY <1>1, <1>9 DEF TypeOK
  <2>4. NoDuplicateCard' /\ CardConservation'
    <3>1. \A v, w \in Users : v # w => hand'[v] \cap hand'[w] = {}
      BY <1>1, <2>3 DEF NoDuplicateCard
    <3>2. \A x \in Cards : (\E v \in Users : x \in hand'[v])
            <=> x \notin Discarded(u, c) /\ \E v \in Users : x \in hand[v]
      BY <1>1, <2>2, <2>3 DEF NoDuplicateCard
    <3>3. QED
      BY <1>1, <1>3, <1>4, <2>3, <3>1, <3>2, DiscardConserves
  <2>5. TypeOK'
    BY <1>1, <1>2, <1>4, <1>5, <1>7, <1>9, <2>1, <2>3 DEF TypeOK, NoPenalty
  <2>6. GameInvariants'
    BY <1>1, <1>4, <1>6, <1>8, <2>1, <2>3, <2>4 DEF GameInvariants, LeftHandsEmpty,
       EmptyRoomComplete, NoTerminalTransients, PlayingConsistent
  <2>7. (CardsOnlyInPlay /\ TurnStateConsistent /\ UnoLiabilityIsOneCard
          /\ NobodyPlaysEmptyHanded)'
    BY <1>1, <1>4, <2>1, <2>3 DEF CardsOnlyInPlay, TurnStateConsistent,
       UnoLiabilityIsOneCard, NobodyPlaysEmptyHanded
  <2>8. QED
    BY <1>8, <2>5, <2>6, <2>7 DEF InductiveInvariant
<1>10. CASE /\ Kept(u, c) # {}
            /\ hand' = HandsAfter(u, c, swap)
            /\ direction' = DirectionAfter(c)
            /\ current' = Successor(u, c, direction')
            /\ roulette' = IF Kind(c) = "wild_color_roulette" THEN current' ELSE None
            /\ pending' = IF DrawValue(c) > 0
                          THEN [total |-> pending.total + DrawValue(c),
                                minimum |-> DrawValue(c)]
                          ELSE pending
            /\ forced' = None
            /\ uno' = NewlyAtOne(hand') \ (IF declares THEN {u} ELSE {})
            /\ turnNumber' = turnNumber + 1
            /\ UNCHANGED <<phase, winner>>
  <2>1. IsDigit(c, 7) => swap \in Active \ {u}
    BY <1>2 DEF ValidChoices
  <2>2. /\ hand' \in [Users -> SUBSET Cards]
        /\ \A v, w \in Users : v # w => hand'[v] \cap hand'[w] = {}
        /\ \A v \in Users : status[v] # "active" => hand'[v] = {}
        /\ \A v \in Active : hand'[v] # {} /\ Cardinality(hand'[v]) < MercyLimit
        /\ \A x \in Cards : (\E v \in Users : x \in hand'[v])
             <=> x \notin Discarded(u, c) /\ \E v \in Users : x \in hand[v]
    BY <1>1, <1>2, <1>3, <1>10, <2>1, HandsAfterCard
  <2>3. NoDuplicateCard' /\ CardConservation'
    BY <1>1, <1>3, <1>4, <2>2, DiscardConserves
  <2>4. direction' \in {1, -1} /\ current' \in Active
    <3>1. direction' \in {1, -1}
      BY <1>3, <1>10 DEF DirectionAfter
    <3>2. QED
      BY <1>1, <1>2, <1>10, <3>1, SuccessorIsActive
  <2>5. pending' \in [total: Nat, minimum: Nat] /\ (roulette' # None => pending'.total = 0)
    <3>1. pending \in [total: Nat, minimum: Nat] /\ DrawValue(c) \in Nat
          /\ (Kind(c) = "wild_color_roulette" => DrawValue(c) = 0)
      BY <1>1, DrawValueType DEF TypeOK
    <3>2. QED
      BY <1>2, <1>10, <3>1
  <2>6. uno' \subseteq {v \in Active : Cardinality(hand'[v]) = 1}
    BY <1>10 DEF NewlyAtOne
  <2>7. TypeOK'
    BY <1>1, <1>2, <1>3, <1>4, <1>5, <1>7, <1>10, <2>2, <2>4, <2>5, <2>6 DEF TypeOK
  <2>8. PlayingConsistent'
    BY <1>2, <1>4, <1>6, <1>10, <2>2, <2>4, NullAssumption DEF PlayingConsistent
  <2>9. (LeftHandsEmpty /\ EmptyRoomComplete /\ NoTerminalTransients)'
    BY <1>1, <1>2, <1>4, <1>6, <1>10, <2>2 DEF LeftHandsEmpty, EmptyRoomComplete,
       NoTerminalTransients
  <2>10. TurnStateConsistent'
    BY <1>5, <1>10, <2>5 DEF TurnStateConsistent
  <2>11. UnoLiabilityIsOneCard' /\ NobodyPlaysEmptyHanded' /\ CardsOnlyInPlay'
    BY <1>2, <1>3, <1>4, <1>6, <1>10, <2>2, <2>6 DEF UnoLiabilityIsOneCard,
       NobodyPlaysEmptyHanded, CardsOnlyInPlay, Active
  <2>12. QED
    BY <1>8, <2>3, <2>7, <2>8, <2>9, <2>10, <2>11 DEF InductiveInvariant, GameInvariants
<1>11. QED
  BY <1>9, <1>10 DEF PlayCard

-----------------------------------------------------------------------------
(***************************************************************************)
(* The theorems.                                                           *)
(***************************************************************************)

\* No command, and no stutter, leads out of the inductive invariant.
LEMMA NextIsSafe == InductiveInvariant /\ [Next]_vars => InductiveInvariant'
<1> SUFFICES ASSUME InductiveInvariant, [Next]_vars PROVE InductiveInvariant'
  OBVIOUS
<1>1. ASSUME NEW u \in Users, Membership(u) PROVE InductiveInvariant'
  BY <1>1, JoinLobbyIsSafe, SetReadyIsSafe, StartGameIsSafe, RematchIsSafe,
     ClaimHostIsSafe, LeaveGameIsSafe, RemoveInactivePlayerIsSafe DEF Membership
<1>2. ASSUME NEW u \in Users, Turn(u) PROVE InductiveInvariant'
  BY <1>2, PlayCardIsSafe, DrawUntilPlayableIsSafe, AcceptPenaltyIsSafe,
     ChooseRouletteColorIsSafe DEF Turn
<1>3. ASSUME NEW u \in Users, Reaction(u) PROVE InductiveInvariant'
  BY <1>3, DeclareUnoIsSafe, CatchUnoIsSafe DEF Reaction
<1>4. CASE UNCHANGED vars
  <2> USE <1>4 DEF vars
  <2>1. UNCHANGED <<Active, Members, Seated>>
    BY DEF Active, Members, Seated
  <2>2. TypeOK' /\ GameInvariants'
    BY <2>1 DEF InductiveInvariant, TypeOK, GameInvariants, HostPresent,
       NoDuplicateCard, CardConservation, LeftHandsEmpty, EmptyRoomComplete,
       NoTerminalTransients, PlayingConsistent
  <2>3. (SeatsDistinct /\ CardsOnlyInPlay)'
    BY <2>1 DEF InductiveInvariant, SeatsDistinct, CardsOnlyInPlay
  <2>4. (TurnStateConsistent /\ UnoLiabilityIsOneCard /\ NobodyPlaysEmptyHanded)'
    BY <2>1 DEF InductiveInvariant, TurnStateConsistent, UnoLiabilityIsOneCard,
       NobodyPlaysEmptyHanded, Playable
  <2>5. QED
    BY <2>2, <2>3, <2>4 DEF InductiveInvariant
<1>5. QED
  BY <1>1, <1>2, <1>3, <1>4 DEF Next

\* No sequence of commands, of any length, at a table of any size, leads out
\* of the inductive invariant.
THEOREM Safety == Spec => []InductiveInvariant
BY InitIsSafe, NextIsSafe, PTL DEF Spec

\* The state keeps its type.
THEOREM TypeCorrect == Spec => []TypeOK
<1>1. InductiveInvariant => TypeOK
  BY DEF InductiveInvariant
<1>2. QED
  BY <1>1, Safety, PTL

\* assertGameInvariants, which engine.ts runs after every command, never
\* throws: no legal command is refused because of the state it would leave.
THEOREM AssertionNeverFires == Spec => []GameInvariants
<1>1. InductiveInvariant => GameInvariants
  BY DEF InductiveInvariant
<1>2. QED
  BY <1>1, Safety, PTL

\* Joining, leaving and returning never seat two people on one chair.
THEOREM SeatsStayDistinct == Spec => []SeatsDistinct
<1>1. InductiveInvariant => SeatsDistinct
  BY DEF InductiveInvariant
<1>2. QED
  BY <1>1, Safety, PTL

\* Penalty, roulette choice and forced card exclude one another, and a forced
\* card can be played whatever others do before its owner plays it.
THEOREM TurnStaysConsistent == Spec => []TurnStateConsistent
<1>1. InductiveInvariant => TurnStateConsistent
  BY DEF InductiveInvariant
<1>2. QED
  BY <1>1, Safety, PTL

\* An UNO that can be caught is always that of somebody with one card.
THEOREM LiabilityIsOneCard == Spec => []UnoLiabilityIsOneCard
<1>1. InductiveInvariant => UnoLiabilityIsOneCard
  BY DEF InductiveInvariant
<1>2. QED
  BY <1>1, Safety, PTL

\* Nobody is left in the game without cards.
THEOREM NoEmptyHandPlays == Spec => []NobodyPlaysEmptyHanded
<1>1. InductiveInvariant => NobodyPlaysEmptyHanded
  BY DEF InductiveInvariant
<1>2. QED
  BY <1>1, Safety, PTL

-----------------------------------------------------------------------------
(***************************************************************************)
(* The penalty and the winner.                                             *)
(***************************************************************************)
\* what a step does to a penalty that is still to be paid
PenaltyStep ==
  pending.total > 0 /\ pending'.total > 0 /\ pending' # pending =>
    /\ pending'.total > pending.total
    /\ pending'.minimum >= pending.minimum
    /\ pending'.total >= pending'.minimum

\* Knock-outs and departures leave a penalty as it was or cancel it.
LEMMA PenaltyKeptOrPaid ==
  ASSUME InductiveInvariant, pending' \in {pending, NoPenalty}
  PROVE  PenaltyStep
BY DEF PenaltyStep, NoPenalty

\* No command makes a penalty smaller without cancelling it.
LEMMA NextGrowsPenalty == InductiveInvariant /\ [Next]_vars => PenaltyStep
<1> SUFFICES ASSUME InductiveInvariant, [Next]_vars PROVE PenaltyStep
  OBVIOUS
<1>1. ASSUME NEW u \in Users, Membership(u) PROVE PenaltyStep
  <2>1. ASSUME NEW v \in Users, RemovePlayer(v) PROVE pending' \in {pending, NoPenalty}
    BY <2>1 DEF RemovePlayer, CompleteGame, ClearTurnTransients
  <2>2. pending' \in {pending, NoPenalty}
    BY <1>1, <2>1 DEF Membership, JoinLobby, SetReady, StartGame, Rematch, ClaimHost,
       LeaveGame, RemoveInactivePlayer, ClearTurnTransients, turnVars
  <2>3. QED
    BY <2>2, PenaltyKeptOrPaid
<1>2. ASSUME NEW u \in Users, Turn(u) PROVE PenaltyStep
  <2>1. ASSUME NEW c \in hand[u], NEW chosen, NEW swap, NEW declares,
               PlayCard(u, c, chosen, swap, declares)
        PROVE  PenaltyStep
    <3>1. CASE CompleteGame(u, "empty_hand")
      BY <3>1, PenaltyKeptOrPaid DEF CompleteGame, ClearTurnTransients
    <3>2. CASE pending' = IF DrawValue(c) > 0
                          THEN [total |-> pending.total + DrawValue(c),
                                minimum |-> DrawValue(c)]
                          ELSE pending
      <4>1. c \in Cards /\ pending \in [total: Nat, minimum: Nat]
        BY DEF InductiveInvariant, TypeOK
      <4>2. DrawValue(c) \in Nat
        BY <4>1, DrawValueType
      <4>3. pending.total > 0 => DrawValue(c) >= pending.minimum
        BY <2>1 DEF PlayCard, MayPlay
      <4>4. QED
        BY <3>2, <4>1, <4>2, <4>3 DEF PenaltyStep
    <3>3. QED
      BY <2>1, <3>1, <3>2 DEF PlayCard
  <2>2. ASSUME DrawUntilPlayable(u) \/ AcceptPenalty(u)
                 \/ \E c \in Colors : ChooseRouletteColor(u, c)
        PROVE  PenaltyStep
    <3>1. pending' \in {pending, NoPenalty}
      BY <2>2 DEF DrawUntilPlayable, AcceptPenalty, ChooseRouletteColor, AfterKnockout,
         CompleteGame, ClearTurnTransients
    <3>2. QED
      BY <3>1, PenaltyKeptOrPaid
  <2>3. QED
    BY <1>2, <2>1, <2>2 DEF Turn
<1>3. ASSUME NEW u \in Users, Reaction(u) PROVE PenaltyStep
  <2>1. pending' \in {pending, NoPenalty}
    BY <1>3 DEF Reaction, DeclareUno, CatchUno, AfterKnockout, CompleteGame,
       ClearTurnTransients
  <2>2. QED
    BY <2>1, PenaltyKeptOrPaid
<1>4. CASE UNCHANGED vars
  BY <1>4, PenaltyKeptOrPaid DEF vars
<1>5. QED
  BY <1>1, <1>2, <1>3, <1>4 DEF Next

\* While a penalty is passed on it only grows, whatever is stacked.
THEOREM PenaltiesOnlyGrow == Spec => PenaltyOnlyGrows
<1>1. InductiveInvariant /\ [Next]_vars => [PenaltyStep]_vars
  BY NextGrowsPenalty
<1>2. QED
  BY <1>1, Safety, PTL DEF Spec, PenaltyOnlyGrows, PenaltyStep

-----------------------------------------------------------------------------
\* No command makes the named winner a wrong one.
LEMMA NextJustifiesWinner ==
  ASSUME InductiveInvariant, WinnerJustified, [Next]_vars
  PROVE  WinnerJustified'
<1>1. /\ status \in [Users -> {"absent", "active", "eliminated", "left"}]
      /\ hand \in [Users -> SUBSET Cards]
      /\ phase # "complete" => winner = NoWinner
      /\ winner \in [player: Users \cup {None}, reason: {"none", "empty_hand", "last_active"}]
      /\ None \notin Users
  BY NullAssumption DEF InductiveInvariant, TypeOK, WinnerJustified
<1>2. ASSUME winner' = NoWinner PROVE WinnerJustified'
  BY <1>2 DEF WinnerJustified, NoWinner
<1>3. ASSUME NEW u \in Active, CompleteGame(u, "last_active"), Active' \subseteq {u},
             status'[u] # "absent"
      PROVE  WinnerJustified'
  BY <1>3 DEF WinnerJustified, CompleteGame, Active, Seated
<1>4. ASSUME NEW v \in Users, RemovePlayer(v) PROVE WinnerJustified'
  <2>1. CASE phase = "complete"
    <3>1. /\ phase' = phase /\ winner' = winner
          /\ status' = [status EXCEPT ![v] = "left"] /\ hand' = [hand EXCEPT ![v] = {}]
      BY <1>4, <2>1 DEF RemovePlayer
    <3>2. Seated \subseteq Seated' /\ Active' \subseteq Active
      BY <1>1, <3>1 DEF Seated, Active
    <3>3. winner.reason = "empty_hand" => hand'[winner.player] = {}
      BY <1>1, <3>1 DEF WinnerJustified, Seated, NoWinner
    <3>4. QED
      BY <2>1, <3>1, <3>2, <3>3 DEF WinnerJustified
  <2>2. CASE phase # "complete" /\ winner' = winner
    BY <1>1, <1>2, <2>2
  <2>3. CASE /\ Cardinality(Active \ {v}) = 1
             /\ \E w \in Active \ {v} : CompleteGame(w, "last_active")
    <3>1. PICK w \in Active \ {v} : CompleteGame(w, "last_active")
      BY <2>3
    <3>2. status' = [status EXCEPT ![v] = "left"]
      BY <1>4 DEF RemovePlayer
    <3>3. IsFiniteSet(Active \ {v})
      BY FS_Subset, UsersAssumption DEF Active
    <3>4. Active' = Active \ {v}
      BY <1>1, <3>2 DEF Active
    <3>5. Active \ {v} = {w}
      BY <2>3, <3>3, FS_Singleton
    <3>6. status'[w] = "active"
      BY <1>1, <3>1, <3>2 DEF Active
    <3>7. QED
      BY <1>3, <3>1, <3>4, <3>5, <3>6
  <2>4. QED
    BY <1>4, <2>1, <2>2, <2>3 DEF RemovePlayer
<1>5. ASSUME NEW v \in Active, NEW haul, NEW owed, NEW liable, phase = "playing",
             KnockedOut(v, haul), TakeCards(v, haul), AfterKnockout(v, owed, liable)
      PROVE  WinnerJustified'
  <2>1. CASE winner' = winner
    BY <1>1, <1>2, <1>5, <2>1
  <2>2. CASE /\ Cardinality(Active \ {v}) = 1
             /\ \E w \in Active \ {v} : CompleteGame(w, "last_active")
    <3>1. PICK w \in Active \ {v} : CompleteGame(w, "last_active")
      BY <2>2
    <3>2. status' = [status EXCEPT ![v] = "eliminated"]
      BY <1>5 DEF TakeCards
    <3>3. IsFiniteSet(Active \ {v})
      BY FS_Subset, UsersAssumption DEF Active
    <3>4. Active' = Active \ {v}
      BY <1>1, <3>2 DEF Active
    <3>5. Active \ {v} = {w}
      BY <2>2, <3>3, FS_Singleton
    <3>6. status'[w] = "active"
      BY <1>1, <3>1, <3>2 DEF Active
    <3>7. QED
      BY <1>3, <3>1, <3>4, <3>5, <3>6
  <2>3. QED
    BY <1>5, <2>1, <2>2 DEF AfterKnockout
<1>6. ASSUME NEW u \in Users, Membership(u) PROVE WinnerJustified'
  <2>1. CASE ClaimHost(u)
    BY <2>1 DEF ClaimHost, WinnerJustified, places, cardVars, Seated, Active
  <2>2. CASE JoinLobby(u) \/ (\E r \in BOOLEAN : SetReady(u, r)) \/ StartGame(u) \/ Rematch(u)
    BY <1>1, <1>2, <2>2 DEF JoinLobby, SetReady, StartGame, Rematch
  <2>3. QED
    BY <1>4, <1>6, <2>1, <2>2 DEF Membership, LeaveGame, RemoveInactivePlayer
<1>7. ASSUME NEW u \in Users, Turn(u) PROVE WinnerJustified'
  <2>1. u \in Active /\ phase = "playing" /\ winner = NoWinner
    BY <1>1, <1>7 DEF Turn, PlayCard, MayPlay, DrawUntilPlayable, AcceptPenalty,
       ChooseRouletteColor, MyTurn
  <2>2. ASSUME NEW c \in hand[u], NEW chosen, NEW swap, NEW declares,
               PlayCard(u, c, chosen, swap, declares)
        PROVE  WinnerJustified'
    <3>1. CASE hand' = [hand EXCEPT ![u] = {}] /\ CompleteGame(u, "empty_hand")
      BY <1>1, <2>1, <2>2, <3>1 DEF PlayCard, WinnerJustified, CompleteGame, Active, Seated,
         places
    <3>2. CASE UNCHANGED winner
      BY <1>2, <2>1, <3>2
    <3>3. QED
      BY <2>2, <3>1, <3>2 DEF PlayCard
  <2>3. ASSUME DrawUntilPlayable(u) \/ AcceptPenalty(u)
                 \/ \E c \in Colors : ChooseRouletteColor(u, c)
        PROVE  WinnerJustified'
    <3>1. PICK haul : /\ TakeCards(u, haul)
                      /\ IF KnockedOut(u, haul)
                         THEN \E owed, liable : AfterKnockout(u, owed, liable)
                         ELSE UNCHANGED winner
      BY <2>3 DEF DrawUntilPlayable, AcceptPenalty, ChooseRouletteColor
    <3>2. QED
      BY <1>2, <1>5, <2>1, <3>1
  <2>4. QED
    BY <1>7, <2>2, <2>3 DEF Turn
<1>8. ASSUME NEW u \in Users, Reaction(u) PROVE WinnerJustified'
  <2>1. phase = "playing" /\ winner = NoWinner
    BY <1>1, <1>8 DEF Reaction, DeclareUno, CatchUno
  <2>2. CASE DeclareUno(u)
    BY <1>2, <2>1, <2>2 DEF DeclareUno
  <2>3. ASSUME NEW v \in Users, CatchUno(u, v) PROVE WinnerJustified'
    <3>1. v \in Active
      BY <2>3 DEF CatchUno
    <3>2. PICK haul : /\ TakeCards(v, haul)
                      /\ IF KnockedOut(v, haul)
                         THEN AfterKnockout(v, pending, uno)
                         ELSE UNCHANGED winner
      BY <2>3 DEF CatchUno
    <3>3. QED
      BY <1>2, <1>5, <2>1, <3>1, <3>2
  <2>4. QED
    BY <1>8, <2>2, <2>3 DEF Reaction
<1>9. CASE UNCHANGED vars
  BY <1>9 DEF vars, WinnerJustified, Seated, Active
<1>10. QED
  BY <1>6, <1>7, <1>8, <1>9 DEF Next

\* Whoever is named the winner has gone out, or is the last in the game.
THEOREM WinnersAreJustified == Spec => []WinnerJustified
<1>1. Init => WinnerJustified
  BY DEF Init, WinnerJustified, NoWinner
<1>2. InductiveInvariant /\ WinnerJustified /\ [Next]_vars => WinnerJustified'
  BY NextJustifiesWinner
<1>3. QED
  BY <1>1, <1>2, Safety, PTL DEF Spec

-----------------------------------------------------------------------------
(***************************************************************************)
(* There is always a move: all hands but one are counted against the deck. *)
(***************************************************************************)
\* A finite set can be numbered from 1 to any number it does not exceed.
LEMMA Numbering ==
  ASSUME NEW S, IsFiniteSet(S), NEW n \in Nat, Cardinality(S) <= n
  PROVE  \E f \in [S -> 1..n] : \A x, y \in S : f[x] = f[y] => x = y
<1>1. Cardinality(S) \in Nat
  BY FS_CardinalityType
<1> DEFINE m == Cardinality(S)
<1>2. IsFiniteSet(1..m) /\ Cardinality(1..m) = m
  BY <1>1, FS_Interval
<1>3. PICK f : f \in Bijection(S, 1..m)
  BY <1>2, FS_SameCardinalityBij DEF ExistsBijection
<1>4. f \in [S -> 1..m] /\ \A x, y \in S : f[x] = f[y] => x = y
  BY <1>3 DEF Bijection, Injection, IsInjective
<1>5. f \in [S -> 1..n]
  BY <1>1, <1>4
<1>6. QED
  BY <1>4, <1>5

\* Those in the game other than u, who sit on different chairs and hold fewer
\* than MercyLimit cards each, hold at most this many together.
LEMMA OthersHoldAtMost ==
  ASSUME InductiveInvariant, phase = "playing", NEW u \in Active
  PROVE  LET held == UNION {hand[v] : v \in Active \ {u}}
         IN  /\ IsFiniteSet(held)
             /\ Cardinality(held) <= (MaxPlayers - 1) * (MercyLimit - 1)
<1> DEFINE others == Active \ {u}
           held == UNION {hand[v] : v \in others}
           chairs == (0..MaxPlayers - 1) \ {seat[u]}
           numbers == 1..MercyLimit - 1
           numbering(v, f) == /\ f \in [hand[v] -> numbers]
                              /\ \A x, y \in hand[v] : f[x] = f[y] => x = y
           order == [v \in others |-> CHOOSE f : numbering(v, f)]
           owner == [c \in held |-> CHOOSE v \in others : c \in hand[v]]
           place == [c \in held |-> <<seat[owner[c]], order[owner[c]][c]>>]
<1>1. /\ hand \in [Users -> SUBSET Cards] /\ seat \in [Users -> 0..MaxPlayers]
      /\ u \in Users /\ others \subseteq Users
      /\ \A v \in Active : seat[v] < MaxPlayers /\ Cardinality(hand[v]) < MercyLimit
      /\ \A v, w \in Active : v # w => seat[v] # seat[w]
  BY DEF InductiveInvariant, TypeOK, GameInvariants, PlayingConsistent, SeatsDistinct,
     Active, Seated
<1>2. ASSUME NEW v \in others PROVE numbering(v, order[v])
  <2>1. IsFiniteSet(hand[v]) /\ Cardinality(hand[v]) \in Nat
    BY <1>1, DeckAssumption, FS_Subset, FS_CardinalityType
  <2>2. Cardinality(hand[v]) <= MercyLimit - 1 /\ MercyLimit - 1 \in Nat
    BY <1>1, <2>1, LimitsAssumption
  <2>3. \E f : numbering(v, f)
    BY <2>1, <2>2, Numbering
  <2>4. QED
    BY <2>3
<1>3. ASSUME NEW c \in held PROVE owner[c] \in others /\ c \in hand[owner[c]]
  OBVIOUS
<1>4. \A v \in others : seat[v] \in chairs
  BY <1>1, LimitsAssumption
<1> HIDE DEF order, owner
<1>5. place \in Injection(held, chairs \X numbers)
  <2>1. place \in [held -> chairs \X numbers]
    <3> SUFFICES ASSUME NEW c \in held
                 PROVE  seat[owner[c]] \in chairs /\ order[owner[c]][c] \in numbers
      OBVIOUS
    <3>1. owner[c] \in others /\ c \in hand[owner[c]]
      BY <1>3
    <3>2. QED
      BY <1>2, <1>4, <3>1
  <2>2. ASSUME NEW c \in held, NEW d \in held, place[c] = place[d] PROVE c = d
    <3>1. seat[owner[c]] = seat[owner[d]] /\ order[owner[c]][c] = order[owner[d]][d]
      BY <2>2
    <3>2. owner[c] = owner[d]
      BY <1>1, <1>3, <3>1
    <3>3. QED
      BY <1>2, <1>3, <3>1, <3>2
  <2> HIDE DEF place, held
  <2>3. QED
    BY <2>1, <2>2 DEF Injection, IsInjective
<1>6. /\ IsFiniteSet(chairs) /\ Cardinality(chairs) = MaxPlayers - 1
      /\ IsFiniteSet(numbers) /\ Cardinality(numbers) = MercyLimit - 1
  <2>1. /\ IsFiniteSet(0..MaxPlayers - 1) /\ Cardinality(0..MaxPlayers - 1) = MaxPlayers
        /\ IsFiniteSet(numbers) /\ Cardinality(numbers) = MercyLimit - 1
    BY FS_Interval, LimitsAssumption
  <2>2. seat[u] \in 0..MaxPlayers - 1
    BY <1>1, LimitsAssumption
  <2>3. QED
    BY <2>1, <2>2, FS_RemoveElement
<1>7. /\ IsFiniteSet(chairs \X numbers)
      /\ Cardinality(chairs \X numbers) = (MaxPlayers - 1) * (MercyLimit - 1)
  BY <1>6, FS_Product
<1>8. QED
  <2> HIDE DEF place, held, chairs, numbers
  <2>1. IsFiniteSet(held) /\ Cardinality(held) <= Cardinality(chairs \X numbers)
    BY <1>5, <1>7, FS_Injection
  <2>2. QED
    BY <1>7, <2>1 DEF held

\* So the piles hold enough to fill the hand of whoever has to draw.
LEMMA PilesFillOneHand ==
  ASSUME InductiveInvariant, phase = "playing", NEW u \in Active
  PROVE  /\ Cardinality(hand[u]) \in Nat
         /\ Cardinality(draw \cup Recyclable) \in Nat
         /\ Cardinality(draw \cup Recyclable) >= MercyLimit - Cardinality(hand[u])
<1> DEFINE held == UNION {hand[v] : v \in Active \ {u}}
           piles == draw \cup Recyclable
           most == (MaxPlayers - 1) * (MercyLimit - 1)
<1>1. /\ hand \in [Users -> SUBSET Cards] /\ u \in Users /\ top \in Cards
      /\ piles \subseteq Cards /\ hand[u] \subseteq Cards
      /\ \A v \in Users : v \notin Active => hand[v] = {}
  BY NullAssumption DEF InductiveInvariant, TypeOK, GameInvariants, PlayingConsistent,
     CardsOnlyInPlay, Active, Recyclable
<1>2. /\ IsFiniteSet(held) /\ Cardinality(held) <= most /\ Cardinality(held) \in Nat
  BY OthersHoldAtMost, FS_CardinalityType
<1>3. /\ IsFiniteSet(piles) /\ IsFiniteSet(hand[u]) /\ IsFiniteSet({top})
      /\ Cardinality(piles) \in Nat /\ Cardinality(hand[u]) \in Nat
      /\ Cardinality({top}) = 1
  BY <1>1, DeckAssumption, FS_Subset, FS_CardinalityType, FS_Singleton
<1>4. Cards \subseteq (piles \cup {top}) \cup (hand[u] \cup held)
  <2>1. \A c \in Cards : \/ c \in draw \cup rest \cup reserve \cup {top}
                         \/ \E v \in Users : c \in hand[v]
    BY <1>1, NullAssumption DEF InductiveInvariant, GameInvariants, CardConservation
  <2>2. QED
    BY <1>1, <2>1 DEF Recyclable
<1>5. most \in Nat /\ most = MaxPlayers * (MercyLimit - 1) - (MercyLimit - 1)
  BY LimitsAssumption
<1> HIDE DEF held, piles, most
<1>6. /\ IsFiniteSet(piles \cup {top}) /\ Cardinality(piles \cup {top}) <= Cardinality(piles) + 1
      /\ Cardinality(piles \cup {top}) \in Nat
  <2>1. Cardinality(piles \cap {top}) \in Nat
    BY <1>3, FS_Subset, FS_CardinalityType
  <2>2. /\ IsFiniteSet(piles \cup {top})
        /\ Cardinality(piles \cup {top})
             = Cardinality(piles) + Cardinality({top}) - Cardinality(piles \cap {top})
    BY <1>3, FS_Union
  <2>3. QED
    BY <1>3, <2>1, <2>2, FS_CardinalityType
<1>7. /\ IsFiniteSet(hand[u] \cup held)
      /\ Cardinality(hand[u] \cup held) <= Cardinality(hand[u]) + Cardinality(held)
      /\ Cardinality(hand[u] \cup held) \in Nat
  <2>1. Cardinality(hand[u] \cap held) \in Nat
    BY <1>3, FS_Subset, FS_CardinalityType
  <2>2. /\ IsFiniteSet(hand[u] \cup held)
        /\ Cardinality(hand[u] \cup held)
             = Cardinality(hand[u]) + Cardinality(held) - Cardinality(hand[u] \cap held)
    BY <1>2, <1>3, FS_Union
  <2>3. QED
    BY <1>2, <1>3, <2>1, <2>2, FS_CardinalityType
<1>8. Cardinality(Cards) <= Cardinality(piles \cup {top}) + Cardinality(hand[u] \cup held)
  <2> DEFINE a == piles \cup {top}
             b == hand[u] \cup held
  <2> HIDE DEF a, b
  <2>1. IsFiniteSet(a) /\ IsFiniteSet(b) /\ Cards \subseteq a \cup b
        /\ Cardinality(a) \in Nat /\ Cardinality(b) \in Nat
    BY <1>4, <1>6, <1>7 DEF a, b
  <2>2. Cardinality(a \cap b) \in Nat /\ IsFiniteSet(a \cup b)
    BY <2>1, FS_Subset, FS_Union, FS_CardinalityType
  <2>3. Cardinality(a \cup b) <= Cardinality(a) + Cardinality(b)
    <3>1. Cardinality(a \cup b) = Cardinality(a) + Cardinality(b) - Cardinality(a \cap b)
      BY <2>1, FS_Union
    <3>2. QED
      BY <2>1, <2>2, <3>1, FS_CardinalityType
  <2>4. Cardinality(Cards) <= Cardinality(a \cup b) /\ Cardinality(Cards) \in Nat
    BY <2>1, <2>2, FS_Subset, FS_CardinalityType
  <2>5. Cardinality(Cards) <= Cardinality(a) + Cardinality(b)
    BY <2>1, <2>2, <2>3, <2>4, FS_CardinalityType
  <2>6. QED
    BY <2>5 DEF a, b
<1>9. /\ Cardinality(Cards) >= MaxPlayers * (MercyLimit - 1) + 2
      /\ Cardinality(Cards) \in Nat /\ MaxPlayers * (MercyLimit - 1) \in Nat
      /\ MercyLimit \in Nat
  BY DeckAssumption, LimitsAssumption, FS_CardinalityType
<1>10. Cardinality(piles) >= MercyLimit - Cardinality(hand[u])
  BY <1>2, <1>3, <1>5, <1>6, <1>7, <1>8, <1>9
<1>11. QED
  BY <1>3, <1>10 DEF piles

\* In every state of a game, whoever has the turn has a legal command.
LEMMA TurnHolderMoves == InductiveInvariant => TurnHolderCanMove
<1> SUFFICES ASSUME InductiveInvariant, phase = "playing" PROVE TurnHolderCanMove
  BY DEF TurnHolderCanMove
<1>1. /\ current \in Active
      /\ roulette \in {None, current}
      /\ forced # None => forced \in hand[current] /\ Playable(forced)
  BY DEF InductiveInvariant, GameInvariants, PlayingConsistent, TurnStateConsistent
<1>2. /\ Cardinality(hand[current]) \in Nat /\ Cardinality(draw \cup Recyclable) \in Nat
      /\ Cardinality(draw \cup Recyclable) >= MercyLimit - Cardinality(hand[current])
  BY <1>1, PilesFillOneHand
<1>3. CanDraw(MercyLimit - Cardinality(hand[current]))
  BY <1>2 DEF CanDraw
<1>4. pending \in [total: Nat, minimum: Nat]
  BY DEF InductiveInvariant, TypeOK
<1>5. CanDraw(PenaltySize(current, pending.total))
  BY <1>2, <1>4, LimitsAssumption DEF CanDraw, PenaltySize
<1>6. QED
  BY <1>1, <1>3, <1>5 DEF TurnHolderCanMove

\* Whoever's turn it is has a legal command, with any deck that leaves a card
\* to draw beside full hands: DECK_EXHAUSTED never stops a game.
THEOREM NobodyIsStuck == Spec => []TurnHolderCanMove
BY TurnHolderMoves, Safety, PTL

-----------------------------------------------------------------------------
(***************************************************************************)
(* Every step of the engine is a step of the abstract engine, or none.     *)
(***************************************************************************)
\* what the rest of the system sees of the table
View(p, h, s, e, w) == [phase |-> p, host |-> h, status |-> s, seat |-> e, winner |-> w]
TableView == View(phase, host, status, seat, winner.player)

-----------------------------------------------------------------------------
(***************************************************************************)
(* Rosters with several fields changed, one field at a time.               *)
(***************************************************************************)
Begun(t) == [t EXCEPT !.phase = "playing",
                      !.status = [v \in Users |-> IF @[v] = "left" THEN "absent" ELSE @[v]]]

Reset(t, s) == [t EXCEPT !.phase = "lobby", !.winner = None, !.status = s]

SeatedAt(t, u, n) ==
  [t EXCEPT !.status = [v \in Users |-> IF v = u THEN "active"
                                        ELSE IF @[v] = "left" THEN "absent" ELSE @[v]],
            !.seat[u] = IF t.status[u] = "absent" THEN n ELSE @]

\* A game that is won keeps its people.
LEMMA WonView ==
  ASSUME NEW p, NEW h, NEW s, NEW e, NEW w, NEW v
  PROVE  Abstract!Won(View(p, h, s, e, w), v) = View("complete", h, s, e, v)
<1> DEFINE t == View(p, h, s, e, w)
           t1 == [t EXCEPT !.phase = "complete"]
<1>1. t1 = View("complete", h, s, e, w)
  BY DEF View
<1> HIDE DEF t1
<1>2. [t1 EXCEPT !.winner = v] = View("complete", h, s, e, v)
  BY <1>1 DEF View
<1>3. Abstract!Won(t, v) = [t1 EXCEPT !.winner = v]
  <2> HIDE DEF t
  <2>1. QED
    BY DEF t1, Abstract!Won
<1>4. QED
  BY <1>2, <1>3

\* A game that starts forgets who has left.
LEMMA StartedView ==
  ASSUME NEW p, NEW h, NEW s, NEW e, NEW w
  PROVE  Begun(View(p, h, s, e, w))
           = View("playing", h, [v \in Users |-> IF s[v] = "left" THEN "absent" ELSE s[v]], e, w)
<1> DEFINE t == View(p, h, s, e, w)
           t1 == [t EXCEPT !.phase = "playing"]
           gone(f) == [v \in Users |-> IF f[v] = "left" THEN "absent" ELSE f[v]]
<1>1. t1 = View("playing", h, s, e, w)
  BY DEF View
<1>2. Begun(t) = [t1 EXCEPT !.status = gone(t1.status)]
  <2> HIDE DEF t
  <2>1. QED
    BY DEF Begun
<1> HIDE DEF t1
<1>3. t1.status = s
  BY <1>1 DEF View
<1>4. [t1 EXCEPT !.status = gone(s)] = View("playing", h, gone(s), e, w)
  <2> HIDE DEF gone
  <2>1. QED
    BY <1>1 DEF View
<1>5. QED
  BY <1>2, <1>3, <1>4

\* A rematch resets phase, winner and status.
LEMMA RematchedView ==
  ASSUME NEW p, NEW h, NEW s, NEW e, NEW w, NEW f
  PROVE  Reset(View(p, h, s, e, w), f) = View("lobby", h, f, e, None)
<1> DEFINE t == View(p, h, s, e, w)
           t1 == [t EXCEPT !.phase = "lobby"]
           t2 == [t1 EXCEPT !.winner = None]
<1>1. t1 = View("lobby", h, s, e, w)
  BY DEF View
<1>2. t2 = View("lobby", h, s, e, None)
  <2> HIDE DEF t1
  <2>1. QED
    BY <1>1 DEF View
<1>3. Reset(t, f) = [t2 EXCEPT !.status = f]
  <2> HIDE DEF t
  <2>1. QED
    BY DEF Reset
<1> HIDE DEF t2
<1>4. QED
  BY <1>2, <1>3 DEF View

\* Somebody who joins is active, on the given seat if it had none.
LEMMA JoinedView ==
  ASSUME NEW p, NEW h, NEW s, NEW e, NEW w, NEW u, NEW n
  PROVE  SeatedAt(View(p, h, s, e, w), u, n)
           = View(p, h, [v \in Users |-> IF v = u THEN "active"
                                         ELSE IF s[v] = "left" THEN "absent" ELSE s[v]],
                  [e EXCEPT ![u] = IF s[u] = "absent" THEN n ELSE @], w)
<1> DEFINE t == View(p, h, s, e, w)
           back(f) == [v \in Users |-> IF v = u THEN "active"
                                       ELSE IF f[v] = "left" THEN "absent" ELSE f[v]]
           t1 == [t EXCEPT !.status = back(s)]
<1>1. t.status = s
  BY DEF View
<1>2. SeatedAt(t, u, n) = [t1 EXCEPT !.seat[u] = IF s[u] = "absent" THEN n ELSE @]
  <2> HIDE DEF t
  <2>1. QED
    BY <1>1 DEF SeatedAt
<1>3. t1 = View(p, h, back(s), e, w)
  <2> HIDE DEF back
  <2>1. QED
    BY DEF View
<1> HIDE DEF t1
<1>4. [t1 EXCEPT !.seat[u] = IF s[u] = "absent" THEN n ELSE @]
        = View(p, h, back(s), [e EXCEPT ![u] = IF s[u] = "absent" THEN n ELSE @], w)
  <2> HIDE DEF back
  <2>1. QED
    BY <1>3 DEF View
<1>5. QED
  BY <1>2, <1>4

-----------------------------------------------------------------------------
\* The people of a roster are those of the table.
LEMMA SamePeople ==
  /\ Abstract!Playing(TableView) = Active
  /\ Abstract!Present(TableView) = Members
BY DEF Abstract!Playing, Abstract!Present, Active, Members, TableView, View

\* FiniteSets is instantiated with Roster, to the same cardinality.
LEMMA SameCardinality == ASSUME NEW S PROVE Abstract!Cardinality(S) = Cardinality(S)
BY DEF Abstract!Cardinality, Cardinality

\* A new table is that of the abstract engine.
LEMMA InitIsAbstract == Init => Abstract!Init
<1> SUFFICES ASSUME Init PROVE Abstract!Init
  OBVIOUS
<1>1. PICK h \in Users :
        /\ phase = "lobby" /\ host = h /\ winner = NoWinner
        /\ status = [u \in Users |-> IF u = h THEN "active" ELSE "absent"]
        /\ seat = [u \in Users |-> 0]
  BY DEF Init
<1>2. winner.player = None
  BY <1>1 DEF NoWinner
<1>3. TableView = Abstract!NewTable(h)
  BY <1>1, <1>2 DEF TableView, View, Abstract!NewTable
<1>4. QED
  BY <1>3 DEF Abstract!Init, TableView, View

\* Both engines seat who joins on the same free seat.
LEMMA JoinLobbyIsAbstract ==
  ASSUME InductiveInvariant, NEW u \in Users, JoinLobby(u)
  PROVE  TableView' \in Abstract!Joined(TableView, u)
<1>1. status \in [Users -> {"absent", "active", "eliminated", "left"}]
      /\ seat \in [Users -> 0..MaxPlayers]
  BY DEF InductiveInvariant, TypeOK
<1>2. Abstract!FirstFree({seat[v] : v \in Members}) = FreeSeat({seat[v] : v \in Members})
  BY DEF Abstract!FirstFree, FreeSeat
<1>3. /\ TableView.phase = "lobby" /\ TableView.seat = seat
      /\ u \notin Active
      /\ Cardinality(Active) < MaxPlayers
      /\ UNCHANGED <<phase, host, winner>>
  BY DEF JoinLobby, Active, TableView, View
<1>4. seat' = [seat EXCEPT ![u] = IF status[u] = "absent"
                 THEN Abstract!FirstFree({seat[v] : v \in Members}) ELSE @]
  BY <1>1, <1>2 DEF JoinLobby
<1>5. status' = [v \in Users |-> IF v = u THEN "active"
                                 ELSE IF status[v] = "left" THEN "absent" ELSE status[v]]
  BY DEF JoinLobby
<1> DEFINE n == Abstract!FirstFree({TableView.seat[v] : v \in Members})
<1>6. Abstract!Joined(TableView, u) = {SeatedAt(TableView, u, n)}
  BY <1>3, SamePeople, SameCardinality DEF Abstract!Joined, SeatedAt
<1>7. n = Abstract!FirstFree({seat[v] : v \in Members})
  BY <1>3
<1> HIDE DEF n
<1>8. TableView' = View(phase, host, status', [seat EXCEPT ![u] = IF status[u] = "absent"
                                                          THEN n ELSE @], winner.player)
  BY <1>3, <1>4, <1>7 DEF TableView
<1>9. QED
  BY <1>5, <1>6, <1>8, JoinedView DEF TableView

\* Nobody is knocked out in a lobby, so a start moves the same people.
LEMMA StartGameIsAbstract ==
  ASSUME InductiveInvariant, NEW u \in Users, StartGame(u)
  PROVE  TableView' \in Abstract!Started(TableView, u)
<1>1. status \in [Users -> {"absent", "active", "eliminated", "left"}]
      /\ \A v \in Users : status[v] # "eliminated"
  BY DEF InductiveInvariant, TypeOK, CardsOnlyInPlay, StartGame
<1>2. Cardinality(Active) >= 2
  BY LimitsAssumption DEF StartGame
<1>3. /\ status' = [v \in Users |-> IF v \in Active THEN "active" ELSE "absent"]
      /\ phase = "lobby" /\ phase' = "playing" /\ u \in Active /\ u = host
      /\ UNCHANGED <<seat, host, winner>>
  BY DEF StartGame
<1>4. status' = [v \in Users |-> IF status[v] = "left" THEN "absent" ELSE status[v]]
  BY <1>1, <1>3 DEF Active
<1>5. TableView.phase = "lobby" /\ TableView.host = u
  BY <1>3 DEF TableView, View
<1>6. Abstract!Started(TableView, u) = {Begun(TableView)}
  BY <1>2, <1>3, <1>5, SamePeople, SameCardinality DEF Abstract!Started, Begun
<1>7. QED
  BY <1>3, <1>4, <1>6, StartedView DEF TableView

\* A rematch brings back the same people.
LEMMA RematchIsAbstract ==
  ASSUME InductiveInvariant, NEW u \in Users, Rematch(u)
  PROVE  TableView' \in Abstract!Rematched(TableView, u)
<1>1. /\ status' = [v \in Users |-> IF v \in Members THEN "active" ELSE "absent"]
      /\ phase = "complete" /\ phase' = "lobby" /\ u \in Members /\ u = host
      /\ UNCHANGED <<seat, host>> /\ winner' = NoWinner
  BY DEF Rematch
<1>2. TableView.phase = "complete" /\ TableView.host = u /\ winner'.player = None
  BY <1>1 DEF TableView, View, NoWinner
<1>3. Abstract!Rematched(TableView, u) = {Reset(TableView, status')}
  BY <1>1, <1>2, SamePeople DEF Abstract!Rematched, Reset
<1>4. QED
  BY <1>1, <1>2, <1>3, RematchedView DEF TableView

\* A claim changes the host and nothing else.
LEMMA ClaimHostIsAbstract ==
  ASSUME InductiveInvariant, NEW u \in Users, ClaimHost(u)
  PROVE  TableView' \in Abstract!Claimed(TableView, u)
BY SamePeople DEF Abstract!Claimed, TableView, View, ClaimHost, places

-----------------------------------------------------------------------------
(***************************************************************************)
(* Ends of a game.                                                         *)
(***************************************************************************)

\* Whoever is alone in a set is the one it is said to have.
LEMMA OnlyOne ==
  ASSUME NEW S \in SUBSET Users, NEW w \in S, Cardinality(S) = 1
  PROVE  (CHOOSE v \in S : TRUE) = w
<1>1. IsFiniteSet(S)
  BY FS_Subset, UsersAssumption
<1>2. PICK x : S = {x}
  BY <1>1, FS_Singleton
<1>3. QED
  BY <1>2

\* A departure that leaves one in the game ends it with the same winner.
LEMMA SettledAlike ==
  ASSUME NEW u \in Users, NEW h, NEW s, phase = "playing",
         Abstract!Playing(View(phase, h, s, seat, winner.player)) = Active \ {u},
         \/ /\ Cardinality(Active \ {u}) = 1
            /\ \E w \in Active \ {u} : phase' = "complete" /\ winner'.player = w
         \/ Cardinality(Active \ {u}) > 1 /\ UNCHANGED <<phase, winner>>
  PROVE  Abstract!Settled(View(phase, h, s, seat, winner.player))
           = View(phase', h, s, seat, winner'.player)
<1> DEFINE t == View(phase, h, s, seat, winner.player)
<1>1. t.phase = "playing" /\ Abstract!Playing(t) = Active \ {u}
  BY DEF View
<1>2. CASE /\ Cardinality(Active \ {u}) = 1
           /\ \E w \in Active \ {u} : phase' = "complete" /\ winner'.player = w
  <2>1. Active \ {u} \in SUBSET Users
    BY DEF Active
  <2>2. PICK w \in Active \ {u} : phase' = "complete" /\ winner'.player = w
    BY <1>2
  <2>3. (CHOOSE v \in Active \ {u} : TRUE) = w
    BY <1>2, <2>1, <2>2, OnlyOne
  <2>4. Abstract!Settled(t) = Abstract!Won(t, w)
    <3> HIDE DEF t
    <3>1. QED
      BY <1>1, <1>2, <2>3, SameCardinality DEF Abstract!Settled
  <2>5. Abstract!Won(t, w) = View("complete", h, s, seat, w)
    BY WonView
  <2>6. QED
    BY <2>2, <2>4, <2>5
<1>3. CASE Cardinality(Active \ {u}) > 1 /\ UNCHANGED <<phase, winner>>
  <2>1. Cardinality(Active \ {u}) # 1
    BY <1>3
  <2>2. Abstract!Settled(t) = t
    <3> HIDE DEF t
    <3>1. QED
      BY <1>1, <2>1, SameCardinality DEF Abstract!Settled
  <2>3. QED
    BY <1>3, <2>2
<1>4. QED
  BY <1>2, <1>3

\* removePlayer ends the game, or the lobby, exactly when Without does.
LEMMA RemovePlayerIsAbstract ==
  ASSUME InductiveInvariant, NEW u \in Users, RemovePlayer(u)
  PROVE  Abstract!Without(TableView, u) = View(phase', host, status', seat, winner'.player)
<1> DEFINE t == View(phase, host, status', seat, winner.player)
<1>1. /\ status \in [Users -> {"absent", "active", "eliminated", "left"}]
      /\ status' = [status EXCEPT ![u] = "left"]
      /\ phase \in {"lobby", "playing", "complete"}
  BY DEF InductiveInvariant, TypeOK, RemovePlayer
<1>2. [TableView EXCEPT !.status[u] = "left"] = t
  BY <1>1 DEF TableView, View
<1>3. t.phase = phase /\ Abstract!Playing(t) = Active \ {u} /\ TableView.phase = phase
  BY <1>1 DEF Abstract!Playing, Active, View, TableView
<1>4. Abstract!Without(TableView, u) =
        IF phase = "lobby" /\ Active \ {u} = {}
        THEN [t EXCEPT !.phase = "complete"] ELSE Abstract!Settled(t)
  <2> HIDE DEF t
  <2>1. QED
    BY <1>2, <1>3 DEF Abstract!Without
<1>5. phase # "playing" => Abstract!Settled(t) = t
  <2> HIDE DEF t
  <2>1. QED
    BY <1>3 DEF Abstract!Settled
<1>6. CASE phase = "lobby"
  <2>1. phase' = (IF Active \ {u} = {} THEN "complete" ELSE "lobby") /\ winner' = winner
    BY <1>6 DEF RemovePlayer
  <2>2. [t EXCEPT !.phase = "complete"]
          = View("complete", host, status', seat, winner.player)
    BY DEF View
  <2>3. QED
    BY <1>4, <1>5, <1>6, <2>1, <2>2
<1>7. CASE phase = "complete"
  <2>1. phase' = phase /\ winner' = winner
    BY <1>7 DEF RemovePlayer
  <2>2. QED
    BY <1>4, <1>5, <1>7, <2>1
<1>8. CASE phase = "playing"
  <2>1. \/ /\ Cardinality(Active \ {u}) = 1
           /\ \E w \in Active \ {u} : phase' = "complete" /\ winner'.player = w
        \/ Cardinality(Active \ {u}) > 1 /\ UNCHANGED <<phase, winner>>
    BY <1>8 DEF RemovePlayer, CompleteGame
  <2>2. Abstract!Settled(t) = View(phase', host, status', seat, winner'.player)
    BY <1>3, <1>8, <2>1, SettledAlike
  <2>3. QED
    BY <1>4, <1>8, <2>2
<1>9. QED
  BY <1>1, <1>6, <1>7, <1>8

\* Seats are distinct, so the lowest of them is that of one player.
LEMMA LowestAlike ==
  ASSUME NEW A \in SUBSET Users, A # {}, NEW p, NEW h, NEW s, NEW w,
         seat \in [Users -> 0..MaxPlayers],
         \A u, v \in A : u # v => seat[u] # seat[v]
  PROVE  Abstract!Lowest(View(p, h, s, seat, w), A) = LowestSeat(A)
<1> DEFINE t == View(p, h, s, seat, w)
           low(u) == u \in A /\ \A v \in A : seat[u] <= seat[v]
<1>1. t.seat = seat
  BY DEF View
<1>2. low(LowestSeat(A))
  <2>1. PICK u \in A : \A v \in A : seat[u] <= seat[v]
    <3> DEFINE S == {seat[v] : v \in A}
    <3>1. S \in SUBSET Nat /\ S # {}
      BY LimitsAssumption
    <3>2. \E m \in S : \A n \in S : m <= n
      <4> HIDE DEF S
      <4>1. QED
        BY <3>1, LeastNatural
    <3>3. QED
      BY <3>2
  <2>2. QED
    BY <2>1 DEF LowestSeat
<1>3. low(Abstract!Lowest(t, A))
  <2> HIDE DEF t
  <2>1. QED
    BY <1>1, <1>2 DEF Abstract!Lowest
<1>4. \A u, v : low(u) /\ low(v) => u = v
  BY LimitsAssumption
<1>5. QED
  BY <1>2, <1>3, <1>4

\* The host who leaves is succeeded by the same player.
LEMMA LeaveGameIsAbstract ==
  ASSUME InductiveInvariant, NEW u \in Users, LeaveGame(u)
  PROVE  TableView' \in Abstract!Left(TableView, u)
<1> DEFINE t == View(phase', host, status', seat, winner'.player)
           successors == IF phase' = "playing" THEN Active \ {u} ELSE Members \ {u}
<1>1. /\ status \in [Users -> {"absent", "active", "eliminated", "left"}]
      /\ seat \in [Users -> 0..MaxPlayers]
      /\ \A v, w \in Seated : v # w => seat[v] # seat[w]
  BY DEF InductiveInvariant, TypeOK, SeatsDistinct
<1>2. /\ u \in Members /\ RemovePlayer(u)
      /\ host' = IF u = host /\ successors # {} THEN LowestSeat(successors) ELSE host
      /\ status' = [status EXCEPT ![u] = "left"] /\ seat' = seat
  BY DEF LeaveGame, RemovePlayer
<1>3. Abstract!Without(TableView, u) = t
  BY <1>2, RemovePlayerIsAbstract
<1>4. /\ t.phase = phase' /\ t.host = host
      /\ Abstract!Playing(t) = Active \ {u} /\ Abstract!Present(t) = Members \ {u}
  BY <1>1, <1>2 DEF View, Abstract!Playing, Abstract!Present, Active, Members
<1>5. successors # {} => Abstract!Lowest(TableView, successors) = LowestSeat(successors)
  <2>1. successors \in SUBSET Users /\ successors \subseteq Seated
    BY DEF Active, Members, Seated
  <2> HIDE DEF successors
  <2>2. QED
    BY <1>1, <2>1, LowestAlike DEF TableView
<1>6. Abstract!Left(TableView, u) =
        {[t EXCEPT !.host = IF u = @ /\ successors # {}
                            THEN Abstract!Lowest(TableView, successors) ELSE @]}
  <2> HIDE DEF t
  <2>1. QED
    BY <1>2, <1>3, <1>4, SamePeople DEF Abstract!Left
<1>7. [t EXCEPT !.host = IF u = @ /\ successors # {}
                        THEN Abstract!Lowest(TableView, successors) ELSE @]
        = [t EXCEPT !.host = host']
  <2> HIDE DEF t, successors
  <2>1. QED
    BY <1>2, <1>4, <1>5
<1>8. [t EXCEPT !.host = host'] = View(phase', host', status', seat, winner'.player)
  BY DEF View
<1>9. TableView' = View(phase', host', status', seat, winner'.player)
  BY <1>2 DEF TableView
<1> HIDE DEF t, successors
<1>10. QED
  BY <1>6, <1>7, <1>8, <1>9

\* A removal is a departure of which the host is another.
LEMMA RemoveInactivePlayerIsAbstract ==
  ASSUME InductiveInvariant, NEW u \in Users, NEW v \in Users, RemoveInactivePlayer(u, v)
  PROVE  TableView' \in Abstract!Removed(TableView, u, v)
<1>1. /\ phase # "complete" /\ u = host /\ u # v /\ {u, v} \subseteq Active
      /\ RemovePlayer(v) /\ UNCHANGED <<seat, host>>
  BY DEF RemoveInactivePlayer, RemovePlayer
<1>2. Abstract!Without(TableView, v) = TableView'
  BY <1>1, RemovePlayerIsAbstract DEF TableView
<1>3. TableView.phase = phase /\ TableView.host = host
  BY DEF TableView, View
<1>4. QED
  BY <1>1, <1>2, <1>3, SamePeople DEF Abstract!Removed

-----------------------------------------------------------------------------
(***************************************************************************)
(* The game: nobody moves, somebody is knocked out, or somebody goes out.  *)
(***************************************************************************)
LEMMA KnockoutIsAbstract ==
  ASSUME InductiveInvariant, phase = "playing", NEW u \in Active, NEW v \in Active,
         NEW haul, NEW owed, NEW liable,
         KnockedOut(v, haul), TakeCards(v, haul), AfterKnockout(v, owed, liable),
         UNCHANGED <<seat, host>>
  PROVE  TableView' \in Abstract!Acted(TableView, u)
<1> DEFINE t == View(phase, host, status', seat, winner.player)
<1>1. /\ status \in [Users -> {"absent", "active", "eliminated", "left"}]
      /\ v \in Users
      /\ status' = [status EXCEPT ![v] = "eliminated"]
  BY DEF InductiveInvariant, TypeOK, TakeCards, Active
<1>2. [TableView EXCEPT !.status[v] = "eliminated"] = t
  BY <1>1 DEF TableView, View
<1>3. Abstract!Playing(t) = Active \ {v} /\ TableView.phase = "playing"
  BY <1>1 DEF Abstract!Playing, Active, View, TableView
<1>4. \/ /\ Cardinality(Active \ {v}) = 1
         /\ \E w \in Active \ {v} : phase' = "complete" /\ winner'.player = w
      \/ Cardinality(Active \ {v}) > 1 /\ UNCHANGED <<phase, winner>>
  BY DEF AfterKnockout, CompleteGame
<1>5. Abstract!Settled(t) = View(phase', host, status', seat, winner'.player)
  BY <1>1, <1>3, <1>4, SettledAlike
<1>6. TableView' = Abstract!Settled(t)
  BY <1>5 DEF TableView
<1>7. Abstract!Settled([TableView EXCEPT !.status[v] = "eliminated"])
        \in Abstract!Acted(TableView, u)
  BY <1>3, SamePeople DEF Abstract!Acted
<1>8. QED
  BY <1>2, <1>6, <1>7

\* Drawing and then staying in the game moves nobody.
LEMMA DrawIsAbstract ==
  ASSUME InductiveInvariant, NEW u \in Users,
         DrawUntilPlayable(u) \/ AcceptPenalty(u)
           \/ \E c \in Colors : ChooseRouletteColor(u, c)
  PROVE  TableView' \in Abstract!Acted(TableView, u) \/ UNCHANGED TableView
<1>1. phase = "playing" /\ u \in Active /\ UNCHANGED <<seat, host>>
  BY DEF DrawUntilPlayable, AcceptPenalty, ChooseRouletteColor, MyTurn
<1>2. PICK haul : /\ TakeCards(u, haul)
                  /\ IF KnockedOut(u, haul)
                     THEN \E owed, liable : AfterKnockout(u, owed, liable)
                     ELSE UNCHANGED <<phase, winner>>
  BY DEF DrawUntilPlayable, AcceptPenalty, ChooseRouletteColor
<1>3. CASE KnockedOut(u, haul)
  BY <1>1, <1>2, <1>3, KnockoutIsAbstract
<1>4. CASE ~KnockedOut(u, haul)
  <2>1. UNCHANGED <<phase, winner, status>>
    BY <1>2, <1>4 DEF TakeCards
  <2>2. QED
    BY <1>1, <2>1 DEF TableView
<1>5. QED
  BY <1>3, <1>4

\* Who is caught draws, and may be knocked out.
LEMMA CatchUnoIsAbstract ==
  ASSUME InductiveInvariant, NEW u \in Users, NEW v \in Users, CatchUno(u, v)
  PROVE  TableView' \in Abstract!Acted(TableView, u) \/ UNCHANGED TableView
<1>1. phase = "playing" /\ u \in Active /\ v \in Active /\ UNCHANGED <<seat, host>>
  BY DEF CatchUno
<1>2. PICK haul : /\ TakeCards(v, haul)
                  /\ IF KnockedOut(v, haul)
                     THEN AfterKnockout(v, pending, uno)
                     ELSE UNCHANGED <<phase, winner>>
  BY DEF CatchUno
<1>3. CASE KnockedOut(v, haul)
  BY <1>1, <1>2, <1>3, KnockoutIsAbstract
<1>4. CASE ~KnockedOut(v, haul)
  <2>1. UNCHANGED <<phase, winner, status>>
    BY <1>2, <1>4 DEF TakeCards
  <2>2. QED
    BY <1>1, <2>1 DEF TableView
<1>5. QED
  BY <1>3, <1>4

\* A card moves nobody, or its player goes out and wins.
LEMMA PlayCardIsAbstract ==
  ASSUME InductiveInvariant, NEW u \in Users, NEW c, NEW chosen, NEW swap, NEW declares,
         PlayCard(u, c, chosen, swap, declares)
  PROVE  TableView' \in Abstract!Acted(TableView, u) \/ UNCHANGED TableView
<1>1. phase = "playing" /\ u \in Active /\ UNCHANGED <<status, seat, host>>
  BY DEF PlayCard, MayPlay, MyTurn, places
<1>2. CASE CompleteGame(u, "empty_hand")
  <2>1. TableView' = Abstract!Won(TableView, u)
    BY <1>1, <1>2, WonView DEF TableView, CompleteGame
  <2>2. TableView.phase = "playing"
    BY <1>1 DEF TableView, View
  <2>3. QED
    BY <1>1, <2>1, <2>2, SamePeople DEF Abstract!Acted
<1>3. CASE UNCHANGED <<phase, winner>>
  BY <1>1, <1>3 DEF TableView
<1>4. QED
  BY <1>2, <1>3 DEF PlayCard

-----------------------------------------------------------------------------
\* A command of the engine is one of the abstract engine, or moves nobody.
LEMMA NextIsAbstract ==
  ASSUME InductiveInvariant, [Next]_vars
  PROVE  Abstract!Next \/ UNCHANGED TableView
<1>1. ASSUME NEW u \in Users, NEW c \in Abstract!Commands,
             TableView' \in Abstract!Outcomes(TableView, u, c)
      PROVE  Abstract!Next
  BY <1>1 DEF Abstract!Next, TableView, View
<1>2. /\ \A type \in {"join", "act", "start", "leave", "claim", "rematch"} :
           [type |-> type] \in Abstract!Commands
      /\ \A v \in Users : [type |-> "remove", target |-> v] \in Abstract!Commands
  BY DEF Abstract!Commands
<1>3. ASSUME NEW u \in Users
      PROVE  /\ TableView' \in Abstract!Joined(TableView, u) => Abstract!Next
             /\ TableView' \in Abstract!Acted(TableView, u) => Abstract!Next
             /\ TableView' \in Abstract!Started(TableView, u) => Abstract!Next
             /\ TableView' \in Abstract!Left(TableView, u) => Abstract!Next
             /\ TableView' \in Abstract!Claimed(TableView, u) => Abstract!Next
             /\ TableView' \in Abstract!Rematched(TableView, u) => Abstract!Next
             /\ \A v \in Users :
                  TableView' \in Abstract!Removed(TableView, u, v) => Abstract!Next
  BY <1>1, <1>2 DEF Abstract!Outcomes
<1>4. ASSUME NEW u \in Users, Membership(u) PROVE Abstract!Next \/ UNCHANGED TableView
  <2>1. ASSUME NEW r \in BOOLEAN, SetReady(u, r) PROVE UNCHANGED TableView
    BY <2>1 DEF SetReady, TableView
  <2>2. QED
    BY <1>3, <1>4, <2>1, JoinLobbyIsAbstract, StartGameIsAbstract, RematchIsAbstract,
       ClaimHostIsAbstract, LeaveGameIsAbstract, RemoveInactivePlayerIsAbstract DEF Membership
<1>5. ASSUME NEW u \in Users, Turn(u) PROVE Abstract!Next \/ UNCHANGED TableView
  BY <1>3, <1>5, PlayCardIsAbstract, DrawIsAbstract DEF Turn
<1>6. ASSUME NEW u \in Users, Reaction(u) PROVE Abstract!Next \/ UNCHANGED TableView
  <2>1. DeclareUno(u) => UNCHANGED TableView
    BY DEF DeclareUno, TableView, places
  <2>2. QED
    BY <1>3, <1>6, <2>1, CatchUnoIsAbstract DEF Reaction
<1>7. CASE UNCHANGED vars
  BY <1>7 DEF vars, TableView
<1>8. QED
  BY <1>4, <1>5, <1>6, <1>7 DEF Next

\* At tables of any size and with any deck, the engine changes who is at the
\* table only as the abstract engine does: what the server's modules assume
\* of the engine is what engine.ts keeps.
THEOREM EngineImplementsRoster == Spec => ImplementsRoster
<1>1. InductiveInvariant /\ [Next]_vars => [Abstract!Next]_TableView
  BY NextIsAbstract
<1>2. QED
  BY InitIsAbstract, <1>1, Safety, PTL DEF Spec, ImplementsRoster, Abstract!Spec, TableView, View
=============================================================================
