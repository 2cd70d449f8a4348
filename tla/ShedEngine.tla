----------------------------- MODULE ShedEngine -----------------------------
(***************************************************************************)
(* The rules engine of Open Shed: src/lib/game/engine.ts.  The engine is a *)
(* pure function from a table and a command to a table; here the table is  *)
(* the state and every accepted command is one step.  A rejected command   *)
(* throws and changes nothing, so it is no step; a replayed one returns    *)
(* the table as it was, a stutter.                                         *)
(*                                                                         *)
(* A user holds at most one place at a table, so a player is named by its  *)
(* user.  The order of the draw pile is secret and random, so the pile is  *)
(* a set and each draw picks any of its cards; of the discard pile only    *)
(* the top card is ever looked at.  assertGameInvariants is not a guard of *)
(* any action: GameInvariants below says that it never has to fire.        *)
(***************************************************************************)
EXTENDS Integers, FiniteSets

CONSTANTS
  Users,         \* accounts that may sit at the table
  Cards,         \* the physical cards (168 in createDeck)
  Face,          \* what is printed on each card
  Colors,        \* COLORS
  MaxPlayers,    \* seats at a table (6)
  HandSize,      \* cards dealt to each player (7)
  MercyLimit,    \* hand size that knocks a player out (25)
  Hands,         \* bound: the first hands that shuffles deal
  FlippedCards,  \* bound: the cards that open the discard pile
  MaxTurns,      \* bound: the turn number at which play stops
  None           \* null

ColoredActions == {"draw_two", "draw_four", "skip", "reverse", "discard_all",
                   "skip_everyone"}
WildKinds == {"wild_reverse_draw_four", "wild_draw_six", "wild_draw_ten",
              "wild_color_roulette"}

Faces == [kind: {"number"}, color: Colors, number: 0..9]
           \cup [kind: ColoredActions, color: Colors]
           \cup [kind: WildKinds]

ASSUME NullAssumption == None \notin Users \cup Cards \cup Colors
ASSUME UsersAssumption == IsFiniteSet(Users)
ASSUME DeckAssumption ==
  /\ IsFiniteSet(Cards)
  /\ Face \in [Cards -> Faces]
  \* enough cards that full hands leave a discard and a card to draw:
  \* 6 * 24 + 2 <= 168
  /\ Cardinality(Cards) >= MaxPlayers * (MercyLimit - 1) + 2
ASSUME LimitsAssumption ==
  /\ MaxPlayers \in Nat /\ MaxPlayers >= 2
  /\ HandSize \in Nat /\ HandSize >= 2
  /\ MercyLimit \in Nat /\ MercyLimit >= 4 /\ MercyLimit > HandSize
  /\ MaxTurns \in Nat
  /\ Hands \subseteq SUBSET Cards /\ FlippedCards \subseteq Cards

VARIABLES
  phase,      \* "lobby", "playing" or "complete"
  status,     \* "absent" for a user without a place in players
  seat,       \* meaningful for users with a place
  ready,
  hand,
  host,       \* hostUserId
  current,    \* currentPlayerId
  direction,
  color,      \* activeColor
  draw,       \* drawPile
  top, rest,  \* discardPile: its last card, and those under it
  reserve,    \* mercyReserve
  pending,    \* pendingDraw; a total of zero stands for null
  roulette,   \* rouletteTargetId
  forced,     \* forcedCardId
  uno,        \* players with an open UNO liability
  winner,     \* a reason of "none" stands for null
  turnNumber

places == <<status, seat, ready>>
cardVars == <<hand, draw, top, rest, reserve>>
turnVars == <<current, direction, color, pending, roulette, forced, uno>>
vars == <<phase, status, seat, ready, hand, host, current, direction, color,
          draw, top, rest, reserve, pending, roulette, forced, uno, winner,
          turnNumber>>

Kind(c) == Face[c].kind
IsWild(c) == Kind(c) \in WildKinds
IsNumber(c) == Kind(c) = "number"
ColorOf(c) == IF IsWild(c) THEN None ELSE Face[c].color
IsDigit(c, n) == IsNumber(c) /\ Face[c].number = n

DrawValues == [draw_two |-> 2, draw_four |-> 4, wild_reverse_draw_four |-> 4,
               wild_draw_six |-> 6, wild_draw_ten |-> 10]
DrawValue(c) == IF Kind(c) \in DOMAIN DrawValues THEN DrawValues[Kind(c)] ELSE 0

NoPenalty == [total |-> 0, minimum |-> 0]
NoWinner == [player |-> None, reason |-> "none"]

Active == {u \in Users : status[u] = "active"}
Members == {u \in Users : status[u] \in {"active", "eliminated"}}
Seated == {u \in Users : status[u] # "absent"}

(***************************************************************************)
(* Turn order.  Seats are walked one way or the other and inactive players *)
(* are passed over; Ahead is the length of the walk, a whole turn of the   *)
(* table back to oneself.                                                  *)
(***************************************************************************)
Ahead(from, to, dir) ==
  LET d == dir * (seat[to] - seat[from])
  IN  IF d > 0 THEN d ELSE d + MaxPlayers

NextActive(active, from, dir) ==
  CHOOSE u \in active :
    \A v \in active : Ahead(from, u, dir) <= Ahead(from, v, dir)

LowestSeat(us) == CHOOSE u \in us : \A v \in us : seat[u] <= seat[v]

Playable(c) ==
  \/ IsWild(c)
  \/ ColorOf(c) = color
  \/ IsNumber(c) /\ IsNumber(top) /\ Face[c].number = Face[top].number
  \/ ~IsNumber(c) /\ Kind(c) = Kind(top)

-----------------------------------------------------------------------------
(***************************************************************************)
(* Drawing.  Cards come off the draw pile; when it is empty, everything    *)
(* under the top discard and the whole mercy reserve are shuffled into a   *)
(* new one.  Drawable is the set of hauls that some order of the piles     *)
(* allows, and EndsWith says which card of a haul can be its last.         *)
(***************************************************************************)
Recyclable == rest \cup reserve

Drawable == (SUBSET draw) \cup {draw \cup s : s \in SUBSET Recyclable}

EndsWith(haul, last) == last \in haul /\ (haul \subseteq draw \/ last \notin draw)

DrawAfterMutant(haul) ==  \* the mercy reserve is not shuffled in
  IF haul \subseteq draw THEN draw \ haul ELSE rest \ haul

DrawAfter(haul) == IF haul \subseteq draw THEN draw \ haul ELSE Recyclable \ haul
RestAfterMutant(haul) == rest  \* the recycled discards stay in the pile too

RestAfter(haul) == IF haul \subseteq draw THEN rest ELSE {}
ReserveAfter(haul) == IF haul \subseteq draw THEN reserve ELSE {}

\* u takes the haul; a hand at the limit goes to the reserve instead
KnockedOut(u, haul) == Cardinality(hand[u] \cup haul) >= MercyLimit

TakeCards(u, haul) ==
  /\ draw' = DrawAfter(haul)
  /\ rest' = RestAfter(haul)
  /\ top' = top
  /\ IF KnockedOut(u, haul)
     THEN /\ reserve' = ReserveAfter(haul) \cup hand[u] \cup haul
          /\ hand' = [hand EXCEPT ![u] = {}]
          /\ status' = [status EXCEPT ![u] = "eliminated"]
     ELSE /\ reserve' = ReserveAfter(haul)
          /\ hand' = [hand EXCEPT ![u] = @ \cup haul]
          /\ UNCHANGED status

\* a penalty of n cards is cut short by the mercy limit
PenaltySize(u, n) ==
  LET room == MercyLimit - Cardinality(hand[u])
  IN  IF n < room THEN n ELSE room

-----------------------------------------------------------------------------
(***************************************************************************)
(* Ends of a game and departures.                                          *)
(***************************************************************************)
ClearTurnTransients ==
  /\ current' = None
  /\ pending' = NoPenalty
  /\ roulette' = None
  /\ forced' = None
  /\ uno' = {}

CompleteGame(u, reason) ==
  /\ phase' = "complete"
  /\ winner' = [player |-> u, reason |-> reason]
  /\ ClearTurnTransients

\* removePlayer: u leaves its place; everything but the host changes here
RemovePlayer(u) ==
  LET remaining == Active \ {u}
  IN  /\ status' = [status EXCEPT ![u] = "left"]
      /\ ready' = [ready EXCEPT ![u] = FALSE]
      /\ hand' = [hand EXCEPT ![u] = {}]
      /\ reserve' = reserve \cup hand[u]
      /\ UNCHANGED <<seat, direction, color, draw, top, rest, turnNumber>>
      /\ \/ /\ phase = "lobby"
            /\ phase' = IF remaining = {} THEN "complete" ELSE "lobby"
            /\ UNCHANGED <<current, pending, roulette, forced, uno, winner>>
         \/ /\ phase = "playing"
            /\ Cardinality(remaining) = 1
            /\ \E w \in remaining : CompleteGame(w, "last_active")
         \/ /\ phase = "playing"
            /\ Cardinality(remaining) > 1
            /\ uno' = uno \ {u}
            /\ IF current = u
               THEN /\ current' = NextActive(remaining, u, direction)
                    /\ pending' = NoPenalty
                    /\ roulette' = None
                    /\ forced' = None
               ELSE /\ forced' = IF forced \in hand[u] THEN None ELSE forced
                    /\ IF roulette = u
                       THEN /\ roulette' = None
                            /\ current' = NextActive(remaining, u, direction)
                       ELSE UNCHANGED <<roulette, current>>
                    /\ UNCHANGED pending
            /\ UNCHANGED <<phase, winner>>
         \/ /\ phase = "complete"
            /\ ClearTurnTransients
            /\ UNCHANGED <<phase, winner>>

LeaveGame(u) ==
  /\ u \in Members
  /\ RemovePlayer(u)
  /\ LET successors == IF phase' = "playing" THEN Active \ {u} ELSE Members \ {u}
     IN  host' = IF u = host /\ successors # {} THEN LowestSeat(successors) ELSE host

RemoveInactivePlayer(u, target) ==
  /\ phase \in {"lobby", "playing"}
  /\ u = host
  /\ {u, target} \subseteq Active
  /\ u # target
  /\ RemovePlayer(target)
  /\ UNCHANGED host

ClaimHost(u) ==
  /\ u \in IF phase = "complete" THEN Members ELSE Active
  /\ u # host
  /\ host \in Members
  /\ host' = u
  /\ UNCHANGED <<phase, places, cardVars, turnVars, winner, turnNumber>>

-----------------------------------------------------------------------------
(***************************************************************************)
(* The lobby.                                                              *)
(***************************************************************************)
Init ==
  \E h \in Users :
    /\ phase = "lobby"
    /\ status = [u \in Users |-> IF u = h THEN "active" ELSE "absent"]
    /\ seat = [u \in Users |-> 0]
    /\ ready = [u \in Users |-> FALSE]
    /\ hand = [u \in Users |-> {}]
    /\ host = h
    /\ current = None /\ direction = 1 /\ color = None
    /\ draw = {} /\ top = None /\ rest = {} /\ reserve = {}
    /\ pending = NoPenalty /\ roulette = None /\ forced = None /\ uno = {}
    /\ winner = NoWinner /\ turnNumber = 0

FreeSeatMutant(taken) == Cardinality(taken)  \* the next one, gaps or not

FreeSeat(taken) == CHOOSE s \in 0..MaxPlayers :
                     s \notin taken /\ \A t \in 0..MaxPlayers : t < s => t \in taken

JoinLobby(u) ==
  /\ phase = "lobby"
  /\ status[u] # "active"
  /\ Cardinality(Active) < MaxPlayers
  /\ status' = [v \in Users |-> IF v = u THEN "active"
                                ELSE IF status[v] = "left" THEN "absent" ELSE status[v]]
  /\ seat' = IF status[u] = "absent"
             THEN [seat EXCEPT ![u] = FreeSeat({seat[v] : v \in Members})]
             ELSE seat
  /\ ready' = [ready EXCEPT ![u] = FALSE]
  /\ UNCHANGED <<phase, host, cardVars, turnVars, winner, turnNumber>>

SetReady(u, r) ==
  /\ phase = "lobby"
  /\ u \in Active
  /\ ready' = [ready EXCEPT ![u] = r]
  /\ UNCHANGED <<phase, status, seat, host, cardVars, turnVars, winner, turnNumber>>

\* deal gives every participant a hand; the flipped cards are those turned
\* over before the first number card, which opens the discard pile
StartGame(u) ==
  /\ phase = "lobby"
  /\ u \in Active
  /\ u = host
  /\ Cardinality(Active) \in 2..MaxPlayers
  /\ \A v \in Active : ready[v]
  /\ \E deal \in [Active -> {s \in Hands : Cardinality(s) = HandSize}] :
       LET undealt == Cards \ UNION {deal[v] : v \in Active}
       IN  /\ \A v, w \in Active : v # w => deal[v] \cap deal[w] = {}
           /\ hand' = [v \in Users |-> IF v \in Active THEN deal[v] ELSE {}]
           /\ \E opening \in undealt \cap FlippedCards,
                flipped \in SUBSET {c \in undealt \cap FlippedCards : ~IsNumber(c)} :
                /\ IsNumber(opening)
                /\ top' = opening
                /\ rest' = flipped
                /\ draw' = undealt \ (flipped \cup {opening})
                /\ color' = ColorOf(opening)
  /\ status' = [v \in Users |-> IF v \in Active THEN "active" ELSE "absent"]
  /\ phase' = "playing"
  /\ direction' = 1
  /\ current' = NextActive(Active, u, 1)
  /\ turnNumber' = 1
  /\ UNCHANGED <<seat, ready, host, reserve, pending, roulette, forced, uno, winner>>

Rematch(u) ==
  /\ phase = "complete"
  /\ u = host
  /\ u \in Members
  /\ phase' = "lobby"
  /\ status' = [v \in Users |-> IF v \in Members THEN "active" ELSE "absent"]
  /\ ready' = [v \in Users |-> FALSE]
  /\ hand' = [v \in Users |-> {}]
  /\ direction' = 1 /\ color' = None
  /\ draw' = {} /\ top' = None /\ rest' = {} /\ reserve' = {}
  /\ ClearTurnTransients
  /\ winner' = NoWinner
  /\ turnNumber' = 0
  /\ UNCHANGED <<seat, host>>

-----------------------------------------------------------------------------
(***************************************************************************)
(* Playing a card.                                                         *)
(***************************************************************************)
MyTurn(u) == turnNumber < MaxTurns /\ phase = "playing" /\ u \in Active /\ current = u

MayPlayMutant(u, c) ==  \* any draw card stacks on any other
  /\ MyTurn(u)
  /\ roulette = None
  /\ c \in hand[u]
  /\ IF pending.total > 0 THEN DrawValue(c) > 0
     ELSE forced \in {None, c} /\ Playable(c)

MayPlay(u, c) ==
  /\ MyTurn(u)
  /\ roulette = None
  /\ c \in hand[u]
  /\ IF pending.total > 0
     THEN DrawValue(c) > 0 /\ DrawValue(c) >= pending.minimum
     ELSE forced \in {None, c} /\ Playable(c)

\* validateCardChoices; a choice the card does not ask for is None here
ValidChoices(u, c, chosen, swap) ==
  /\ IF IsWild(c) /\ Kind(c) # "wild_color_roulette"
     THEN chosen \in Colors ELSE chosen = None
  /\ IF IsDigit(c, 7) THEN swap \in Active \ {u} ELSE swap = None

\* the cards that leave the hand with c
Discarded(u, c) ==
  IF Kind(c) = "discard_all"
  THEN {x \in hand[u] : ColorOf(x) = ColorOf(c)}
  ELSE {c}

Kept(u, c) == hand[u] \ Discarded(u, c)

HandsAfterMutant(u, c, swap) ==  \* a swap that overwrites what it should keep
  LET played == [hand EXCEPT ![u] = Kept(u, c)]
  IN  IF IsDigit(c, 7)
      THEN [played EXCEPT ![u] = played[swap]]
      ELSE played

HandsAfter(u, c, swap) ==
  LET played == [hand EXCEPT ![u] = Kept(u, c)]
  IN  IF IsDigit(c, 0)
      THEN [v \in Users |-> IF v \in Active
                            THEN played[NextActive(Active, v, -direction)]
                            ELSE played[v]]
      ELSE IF IsDigit(c, 7)
      THEN [played EXCEPT ![u] = played[swap], ![swap] = played[u]]
      ELSE played

DirectionAfterMutant(c) ==  \* toggled as if it were 0 or 1
  IF Kind(c) \in {"reverse", "wild_reverse_draw_four"} THEN 1 - direction ELSE direction

DirectionAfter(c) ==
  IF Kind(c) \in {"reverse", "wild_reverse_draw_four"} THEN -direction ELSE direction

\* who moves after c, which has already turned the direction to dir
Successor(u, c, dir) ==
  CASE Kind(c) = "skip" -> NextActive(Active, NextActive(Active, u, dir), dir)
    [] Kind(c) = "skip_everyone" -> u
    [] Kind(c) \in {"reverse", "wild_reverse_draw_four"} /\ Cardinality(Active) = 2 -> u
    [] OTHER -> NextActive(Active, u, dir)

ColorAfter(c, chosen) ==
  IF Kind(c) = "wild_color_roulette" THEN color
  ELSE IF IsWild(c) THEN chosen ELSE ColorOf(c)

NewlyAtOneMutant(hands) ==  \* liabilities survive a change of hands
  uno \cup {v \in Active : Cardinality(hands[v]) = 1}

\* refreshUnoLiabilities: exactly those who have just come down to one card
NewlyAtOne(hands) ==
  {v \in Active : Cardinality(hands[v]) = 1 /\ Cardinality(hand[v]) # 1}

PlayCard(u, c, chosen, swap, declares) ==
  /\ MayPlay(u, c)
  /\ ValidChoices(u, c, chosen, swap)
  /\ top' = c
  /\ rest' = rest \cup {top} \cup (Discarded(u, c) \ {c})
  /\ color' = ColorAfter(c, chosen)
  /\ \/ /\ Kept(u, c) = {}
        /\ hand' = [hand EXCEPT ![u] = {}]
        /\ CompleteGame(u, "empty_hand")
        /\ UNCHANGED <<direction, turnNumber>>
     \/ /\ Kept(u, c) # {}
        /\ hand' = HandsAfter(u, c, swap)
        /\ direction' = DirectionAfter(c)
        /\ current' = Successor(u, c, direction')
        /\ roulette' = IF Kind(c) = "wild_color_roulette" THEN current' ELSE None
        /\ pending' = IF DrawValue(c) > 0
                      THEN [total |-> pending.total + DrawValue(c),
                            minimum |-> DrawValue(c)]
                      ELSE pending
        /\ forced' = None
        /\ uno' = NewlyAtOne(hand') \ (IF declares THEN {u} ELSE {})
        /\ turnNumber' = turnNumber + 1
        /\ UNCHANGED <<phase, winner>>
  /\ UNCHANGED <<places, host, draw, reserve>>

-----------------------------------------------------------------------------
(***************************************************************************)
(* Taking cards.  Every action of the player whose turn it is closes the   *)
(* UNO window first.                                                       *)
(***************************************************************************)
AfterKnockoutMutant(u, owed, liable) ==  \* the roulette is not called off
  LET remaining == Active \ {u}
  IN  \/ /\ Cardinality(remaining) = 1
         /\ \E w \in remaining : CompleteGame(w, "last_active")
      \/ /\ Cardinality(remaining) > 1
         /\ current' = IF u = current
                       THEN NextActive(remaining, u, direction) ELSE current
         /\ forced' = None
         /\ pending' = owed
         /\ uno' = liable \ {u}
         /\ UNCHANGED <<phase, winner, roulette>>

AfterKnockoutPlaysOn(u, owed, liable) ==  \* the last one standing plays on
  /\ current' = NextActive(Active \ {u}, u, direction)
  /\ roulette' = None
  /\ forced' = None
  /\ pending' = owed
  /\ uno' = liable \ {u}
  /\ UNCHANGED <<phase, winner>>

AfterKnockoutMisnames(u, owed, liable) ==  \* the winner found before the removal
  LET remaining == Active \ {u}
  IN  \/ /\ Cardinality(remaining) = 1
         /\ CompleteGame(LowestSeat(Active), "last_active")
      \/ /\ Cardinality(remaining) > 1
         /\ current' = IF u \in {current, roulette}
                       THEN NextActive(remaining, u, direction) ELSE current
         /\ roulette' = IF roulette = u THEN None ELSE roulette
         /\ forced' = None
         /\ pending' = owed
         /\ uno' = liable \ {u}
         /\ UNCHANGED <<phase, winner>>

\* what eliminatePlayer and repairTurnAfterRemoval do to the turn once u is
\* knocked out: owed is the penalty then still to be paid, liable the open
\* UNO liabilities
AfterKnockout(u, owed, liable) ==
  LET remaining == Active \ {u}
  IN  \/ /\ Cardinality(remaining) = 1
         /\ \E w \in remaining : CompleteGame(w, "last_active")
      \/ /\ Cardinality(remaining) > 1
         /\ current' = IF u \in {current, roulette}
                       THEN NextActive(remaining, u, direction) ELSE current
         /\ roulette' = IF roulette = u THEN None ELSE roulette
         /\ forced' = None
         /\ pending' = owed
         /\ uno' = liable \ {u}
         /\ UNCHANGED <<phase, winner>>

DrawUntilPlayable(u) ==
  /\ MyTurn(u)
  /\ pending.total = 0
  /\ roulette = None
  /\ forced = None
  /\ \A c \in hand[u] : ~Playable(c)
  /\ \E haul \in Drawable : \E last \in haul :
       /\ EndsWith(haul, last)
       /\ \A c \in haul \ {last} : ~Playable(c)
       /\ Cardinality(hand[u] \cup haul) <= MercyLimit
       /\ KnockedOut(u, haul) \/ Playable(last)
       /\ TakeCards(u, haul)
       /\ IF KnockedOut(u, haul)
          THEN AfterKnockout(u, pending, {})
          ELSE /\ forced' = last
               /\ uno' = {}
               /\ UNCHANGED <<phase, current, pending, roulette, winner>>
  /\ UNCHANGED <<seat, ready, host, direction, color, turnNumber>>

AcceptPenalty(u) ==
  /\ MyTurn(u)
  /\ pending.total > 0
  /\ \E haul \in Drawable :
       /\ Cardinality(haul) = PenaltySize(u, pending.total)
       /\ TakeCards(u, haul)
       /\ IF KnockedOut(u, haul)
          THEN AfterKnockout(u, NoPenalty, {})
          ELSE /\ current' = NextActive(Active, u, direction)
               /\ pending' = NoPenalty
               /\ uno' = {}
               /\ UNCHANGED <<phase, roulette, forced, winner>>
  /\ turnNumber' = IF phase' = "playing" THEN turnNumber + 1 ELSE turnNumber
  /\ UNCHANGED <<seat, ready, host, direction, color>>

\* cards are turned over until one has the chosen color, or until there are
\* none left: drawOne's DECK_EXHAUSTED is caught here and nowhere else
RouletteHaul(chosen, haul) ==
  \/ \E last \in haul : /\ EndsWith(haul, last)
                        /\ ColorOf(last) = chosen
                        /\ \A c \in haul \ {last} : ColorOf(c) # chosen
  \/ /\ haul = draw \cup Recyclable
     /\ \A c \in haul : ColorOf(c) # chosen

ChooseRouletteColor(u, chosen) ==
  /\ MyTurn(u)
  /\ roulette = u
  /\ color' = chosen
  /\ \E haul \in Drawable :
       /\ RouletteHaul(chosen, haul)
       /\ TakeCards(u, haul)
       /\ IF KnockedOut(u, haul)
          THEN AfterKnockout(u, pending, {})
          ELSE /\ current' = NextActive(Active, u, direction)
               /\ roulette' = None
               /\ uno' = {}
               /\ UNCHANGED <<phase, pending, forced, winner>>
  /\ turnNumber' = turnNumber + 1
  /\ UNCHANGED <<seat, ready, host, direction>>

-----------------------------------------------------------------------------
(***************************************************************************)
(* The UNO window.  Any active player may catch, on anyone's turn.         *)
(***************************************************************************)
DeclareUno(u) ==
  /\ phase = "playing"
  /\ u \in Active
  /\ u \in uno
  /\ uno' = uno \ {u}
  /\ UNCHANGED <<phase, places, host, cardVars, current, direction, color,
                 pending, roulette, forced, winner, turnNumber>>

CatchUno(u, offender) ==
  /\ phase = "playing"
  /\ {u, offender} \subseteq Active
  /\ u # offender
  /\ offender \in uno
  /\ \E haul \in Drawable :
       /\ Cardinality(haul) = PenaltySize(offender, 2)
       /\ TakeCards(offender, haul)
       /\ IF KnockedOut(offender, haul)
          THEN AfterKnockout(offender, pending, uno)
          ELSE /\ uno' = uno \ {offender}
               /\ UNCHANGED <<phase, current, pending, roulette, forced, winner>>
  /\ UNCHANGED <<seat, ready, host, direction, color, turnNumber>>

-----------------------------------------------------------------------------
Membership(u) ==
  \/ JoinLobby(u)
  \/ \E r \in BOOLEAN : SetReady(u, r)
  \/ StartGame(u)
  \/ Rematch(u)
  \/ ClaimHost(u)
  \/ LeaveGame(u)
  \/ \E v \in Users : RemoveInactivePlayer(u, v)

Turn(u) ==
  \/ \E c \in hand[u], chosen \in Colors \cup {None}, swap \in Users \cup {None},
        declares \in BOOLEAN : PlayCard(u, c, chosen, swap, declares)
  \/ DrawUntilPlayable(u)
  \/ AcceptPenalty(u)
  \/ \E chosen \in Colors : ChooseRouletteColor(u, chosen)

Reaction(u) ==
  \/ DeclareUno(u)
  \/ \E v \in Users : CatchUno(u, v)

Next == \E u \in Users : Membership(u) \/ Turn(u) \/ Reaction(u)

Spec == Init /\ [][Next]_vars

-----------------------------------------------------------------------------
(***************************************************************************)
(* Correctness.                                                            *)
(***************************************************************************)
TypeOK ==
  /\ phase \in {"lobby", "playing", "complete"}
  /\ status \in [Users -> {"absent", "active", "eliminated", "left"}]
  /\ seat \in [Users -> 0..MaxPlayers]
  /\ ready \in [Users -> BOOLEAN]
  /\ hand \in [Users -> SUBSET Cards]
  /\ host \in Users
  /\ current \in Users \cup {None}
  /\ direction \in {1, -1}
  /\ color \in Colors \cup {None}
  /\ draw \subseteq Cards /\ rest \subseteq Cards /\ reserve \subseteq Cards
  /\ top \in Cards \cup {None}
  /\ pending \in [total: Nat, minimum: Nat]
  /\ roulette \in Users \cup {None}
  /\ forced \in Cards \cup {None}
  /\ uno \subseteq Users
  /\ winner \in [player: Users \cup {None}, reason: {"none", "empty_hand", "last_active"}]
  /\ turnNumber \in Nat

(***************************************************************************)
(* assertGameInvariants, one conjunct of it at a time.                     *)
(***************************************************************************)
\* the host is at the table, and has not left it while others remain
HostPresent ==
  /\ host \in Seated
  /\ status[host] = "left" => Members = {}

\* a card lies in one place only
NoDuplicateCard ==
  /\ \A u, v \in Users : u # v => hand[u] \cap hand[v] = {}
  /\ \A u \in Users : hand[u] \cap (draw \cup rest \cup reserve \cup {top}) = {}
  /\ draw \cap rest = {} /\ draw \cap reserve = {} /\ rest \cap reserve = {}
  /\ top \notin draw \cup rest \cup reserve

\* once dealt, no card is lost
CardConservation ==
  top # None =>
    \A c \in Cards : \/ c \in draw \cup rest \cup reserve \cup {top}
                     \/ \E u \in Users : c \in hand[u]

LeftHandsEmpty == \A u \in Users : status[u] = "left" => hand[u] = {}

EmptyRoomComplete == Members = {} => phase = "complete"

NoTerminalTransients ==
  phase = "complete" =>
    /\ current = None /\ pending = NoPenalty /\ roulette = None
    /\ forced = None /\ uno = {}

PlayingConsistent ==
  phase = "playing" =>
    /\ top # None
    /\ current \in Active
    /\ forced # None => forced \in hand[current]
    /\ \A u \in Active : Cardinality(hand[u]) < MercyLimit

\* The assertion that ends every command never fires: no accepted command
\* is refused after the fact by assertGameInvariants.
GameInvariants ==
  /\ HostPresent
  /\ NoDuplicateCard
  /\ CardConservation
  /\ LeftHandsEmpty
  /\ EmptyRoomComplete
  /\ NoTerminalTransients
  /\ PlayingConsistent

\* Leaving, joining and returning never seat two people on one chair: every
\* walk around the table would otherwise pass one of them over for ever.
SeatsDistinct ==
  /\ \A u, v \in Seated : u # v => seat[u] # seat[v]
  /\ \A u \in Seated : seat[u] < MaxPlayers

\* A stacked penalty, a roulette choice and a card that must be played are
\* three exclusive states of the turn; the roulette is the mover's own, and
\* the forced card stays playable through everything others do meanwhile.
TurnStateConsistent ==
  phase = "playing" =>
    /\ roulette \in {None, current}
    /\ roulette # None => pending.total = 0 /\ forced = None
    /\ pending.total > 0 => forced = None
    /\ forced # None => Playable(forced)
    /\ color \in Colors

\* An open UNO liability is that of an active player who holds exactly one
\* card, whatever has been rotated, swapped, drawn or given up since it
\* opened; so catching it can never knock anybody out.
UnoLiabilityIsOneCard ==
  \A u \in uno : /\ phase = "playing"
                 /\ status[u] = "active"
                 /\ Cardinality(hand[u]) = 1
                 /\ forced = None

\* A hand rotation, a swap or Discard All never leaves somebody in the game
\* with no cards: whoever has none has won.
NobodyPlaysEmptyHanded ==
  phase = "playing" => /\ Cardinality(Active) >= 2
                       /\ \A u \in Active : hand[u] # {}

\* A lobby has no cards and nobody knocked out, and at any time only those
\* still in the game hold cards.
CardsOnlyInPlay ==
  /\ \A u \in Users : status[u] # "active" => hand[u] = {}
  /\ phase = "lobby" =>
       /\ draw = {} /\ top = None /\ rest = {} /\ reserve = {}
       /\ \A u \in Users : hand[u] = {} /\ status[u] # "eliminated"
       /\ current = None /\ pending = NoPenalty /\ roulette = None
       /\ forced = None /\ uno = {}

\* Together these are inductive: no command reaches a bad state from any
\* state that has them all.
InductiveInvariant ==
  /\ TypeOK
  /\ GameInvariants
  /\ SeatsDistinct
  /\ TurnStateConsistent
  /\ UnoLiabilityIsOneCard
  /\ NobodyPlaysEmptyHanded
  /\ CardsOnlyInPlay

\* n cards can be drawn before DECK_EXHAUSTED.
CanDraw(n) == Cardinality(draw \cup Recyclable) >= n

\* Whoever's turn it is has a legal command, in every state of the game: the
\* table can only stop for want of a player, never for want of a move.  The
\* cards that the largest hands leave are always enough, so DECK_EXHAUSTED
\* never refuses a draw.
TurnHolderCanMove ==
  phase = "playing" =>
    IF pending.total > 0 THEN CanDraw(PenaltySize(current, pending.total))
    ELSE \/ roulette = current
         \/ forced \in hand[current] /\ Playable(forced)
         \/ forced = None /\ \E c \in hand[current] : Playable(c)
         \/ forced = None /\ CanDraw(MercyLimit - Cardinality(hand[current]))

\* A game is over for one of two reasons, and the reason is true when the
\* last player standing or the one who went out is named.
WinnerJustified ==
  /\ winner # NoWinner => phase = "complete" /\ winner.player \in Seated
  /\ winner.reason = "empty_hand" => hand[winner.player] = {}
  /\ winner.reason = "last_active" => Active \subseteq {winner.player}

\* While a penalty is passed on it only grows, and the smallest card that
\* may be stacked on it never gets smaller.
PenaltyOnlyGrows ==
  [][pending.total > 0 /\ pending'.total > 0 /\ pending' # pending =>
       /\ pending'.total > pending.total
       /\ pending'.minimum >= pending.minimum
       /\ pending'.total >= pending'.minimum]_vars

\* The engine does to the people at the table what the abstract engine does:
\* whoever relies on Roster relies on nothing engine.ts does not keep.
Abstract == INSTANCE RosterMachine
              WITH table <- [phase |-> phase, host |-> host, status |-> status,
                             seat |-> seat, winner |-> winner.player]
ImplementsRoster == Abstract!Spec
=============================================================================
