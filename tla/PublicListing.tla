---------------------------- MODULE PublicListing ----------------------------
(***************************************************************************)
(* Listing a table for strangers, and joining one: mutateGameListing,      *)
(* joinPublicRoom and quickJoinPublicRoom of src/lib/server/game-store.ts. *)
(***************************************************************************)
EXTENDS PublicTables

\* what a request has read and will compare
Seen(t) == [table |-> t, version |-> game[t].version, listed |-> listing[t].version]
Unmoved(q) == game[q.saw.table].version = q.saw.version
SameListing(q) == listing[q.saw.table].version = q.saw.listed

\* which revision the host expects is left open: a request that expects
\* another than the table has is refused
ComposeListingChange(u, t) ==
  /\ game[t].host = {u}
  /\ \E op \in {"publish", "withdraw"} : Compose([op |-> op, by |-> u, table |-> t])

ComposePublicJoin(u, t) ==
  /\ t \in Pool(u)
  /\ \/ Compose([op |-> "join", by |-> u, at |-> <<t, listing[t].locator>>])
     \/ Compose([op |-> "quick", by |-> u])

ComposeListing ==
  \E u \in Users, t \in Tables : ComposeListingChange(u, t) \/ ComposePublicJoin(u, t)

-----------------------------------------------------------------------------
(***************************************************************************)
(* The host lists the table, alone at it, or takes it from the list.       *)
(***************************************************************************)
ReadTable(r) ==
  LET c == commands[requests[r].id]
      t == c.table
  IN  /\ At(r, "publish", "start") \/ At(r, "withdraw", "start")
      /\ IF /\ game[t].room = "open" /\ game[t].host = {c.by}
            /\ IF c.op = "withdraw" THEN listing[t].state = "listed"
               ELSE /\ game[t].phase = "lobby" /\ game[t].seated = {c.by}
                    /\ listing[t].state # "listed"
         THEN requests' = [requests EXCEPT ![r] = [pc |-> "batch", id |-> @.id, saw |-> Seen(t)]]
         ELSE Answered(r)
      /\ UNCHANGED <<scenario, serverVars, commands>>

PublishableMutant(q) ==  \* who else is there is not counted
  LET t == q.saw.table
  IN  /\ Waiting(t) /\ game[t].host = {commands[q.id].by}
      /\ game[t].host \subseteq Occupants(t)
      /\ SameListing(q) /\ listing[t].state \in {"none", "unlisted"}

\* guardedPublishReceiptStatement
Publishable(q) ==
  LET t == q.saw.table
  IN  /\ Unmoved(q) /\ HostsAlone(commands[q.id].by, t)
      /\ game[t].host \subseteq Occupants(t)
      /\ SameListing(q) /\ listing[t].state \in {"none", "unlisted"}

Publish(r) ==
  LET q == requests[r]
      t == q.saw.table
  IN  /\ At(r, "publish", "batch")
      /\ \/ /\ Publishable(q) /\ ~Known(q.id) /\ Movable(t)
            /\ receipts' = receipts \cup {[id |-> q.id, table |-> t]}
            /\ game' = [game EXCEPT ![t].version = @ + 1, ![t].scope = "public_safe"]
            /\ rows' = [rows EXCEPT ![t][Asker(r)].consent = TRUE]
            /\ listing' = [listing EXCEPT ![t] =
                 [state |-> "listed", version |-> @.version + 1,
                  locator |-> game'[t].version, owner |-> {Asker(r)}]]
         \* a twin was first: the host, if still there, agrees once more
         \/ /\ ~Publishable(q) /\ Known(q.id)
            /\ rows' = [rows EXCEPT ![t][Asker(r)] =
                 IF @ = NoRow THEN @ ELSE [@ EXCEPT !.consent = TRUE]]
            /\ UNCHANGED <<receipts, game, listing>>
         \/ ~Publishable(q) /\ ~Known(q.id) /\ UNCHANGED <<receipts, tableVars>>
      /\ Answered(r)
      /\ UNCHANGED <<scenario, lobbyVars, commands>>

\* the withdrawal itself only asks for a receipt, a twin's will do
Withdraw(r) ==
  LET q == requests[r]
      t == q.saw.table
      holds == /\ Unmoved(q) /\ game[t].room = "open" /\ game[t].host = {Asker(r)}
               /\ game[t].host \subseteq Occupants(t)
               /\ SameListing(q) /\ listing[t].state = "listed"
  IN  /\ At(r, "withdraw", "batch")
      /\ receipts' = IF holds THEN receipts \cup {[id |-> q.id, table |-> t]} ELSE receipts
      /\ listing' = IF holds \/ Known(q.id) THEN TakenDown(t, "unlisted") ELSE listing
      /\ Answered(r)
      /\ UNCHANGED <<scenario, game, rows, lobbyVars, commands>>

-----------------------------------------------------------------------------
(***************************************************************************)
(* A stranger takes a seat: at the table picked from the list, or at one   *)
(* that the server picks.  The receipt is looked for before every read.    *)
(***************************************************************************)
Joins(r, pc) == At(r, "join", pc) \/ At(r, "quick", pc)

Reading(q, mark, left) ==
  [pc |-> "read", id |-> q.id, tried |-> q.tried \cup {mark}, mark |-> mark, left |-> left]

\* nothing here: a quick join looks for another table
GivesUp(r) ==
  LET q == requests[r]
  IN  requests' = [requests EXCEPT
        ![r] = IF commands[q.id].op = "join" THEN Idle
               ELSE [pc |-> "start", id |-> q.id, tried |-> q.tried]]

\* the listing that was asked for, or those that a quick join may try
Choices(c, tried) ==
  IF c.op = "join" THEN {c.at}
  ELSE {<<t, listing[t].locator>> : t \in Pool(c.by)} \ tried

Aim(r) ==
  LET q == requests[r]
  IN  /\ Joins(r, "start")
      /\ IF Known(q.id) THEN Answered(r)
         ELSE \E mark \in Choices(commands[q.id], q.tried) :
                /\ Cardinality(q.tried) < Selections
                /\ requests' = [requests EXCEPT ![r] = Reading(q, mark, Attempts)]
      /\ UNCHANGED <<scenario, serverVars, commands>>

\* readPublicJoinTarget and requireEligiblePublicJoinTarget
ReadTarget(r) ==
  LET q == requests[r]
      t == q.mark[1]
  IN  /\ Joins(r, "read")
      /\ IF /\ listing[t].locator = q.mark[2] /\ Public(t)
            /\ Asker(r) \notin game[t].seated /\ MayMeet(Asker(r), t)
            /\ Cardinality(Occupants(t)) < Capacity
            /\ Cardinality(Occupants(t)) = Cardinality(game[t].seated)
         THEN requests' = [requests EXCEPT
                ![r] = [pc |-> "batch", id |-> q.id, tried |-> q.tried, mark |-> q.mark,
                        left |-> q.left, saw |-> Seen(t)]]
         ELSE GivesUp(r)
      /\ UNCHANGED <<scenario, serverVars, commands>>

WelcomeUnseen(u, q) ==  \* what was read about blocks is believed
  LET t == q.saw.table
  IN  /\ Unmoved(q) /\ SameListing(q) /\ Public(t) /\ u \notin Occupants(t)
      /\ Cardinality(Occupants(t)) < Capacity

\* guardedPublicJoinReceiptStatement
Welcome(u, q) ==
  LET t == q.saw.table
  IN  /\ Unmoved(q) /\ SameListing(q) /\ Public(t)
      /\ MayMeet(u, t) /\ Cardinality(Occupants(t)) < Capacity

CollidesMutant(q) == \E x \in receipts : x.id = q.id /\ x.table = q.saw.table

\* the primary key of command_receipts
Collides(q) == Known(q.id)

TakeSeat(r) ==
  LET q == requests[r]
      t == q.saw.table
      u == Asker(r)
  IN  /\ Joins(r, "batch") /\ Welcome(u, q) /\ Movable(t)
      /\ IF Collides(q) THEN UNCHANGED serverVars
         ELSE /\ receipts' = receipts \cup {[id |-> q.id, table |-> t]}
              /\ game' = [game EXCEPT ![t].seated = @ \cup {u}, ![t].version = @ + 1,
                                     ![t].scope = "public_safe"]
              /\ rows' = [rows EXCEPT ![t][u] = [source |-> "public", consent |-> TRUE]]
              /\ StopsLooking(u)
              /\ UNCHANGED listing
      /\ Answered(r)
      /\ UNCHANGED <<scenario, commands>>

\* The table has changed.  If a twin was seated there, the membership row and
\* the lobby are written again, whatever has happened since, unless the seat
\* is taken; if not, the request reads once more.
LoseSeat(r) ==
  LET q == requests[r]
      t == q.saw.table
      u == Asker(r)
  IN  /\ Joins(r, "batch") /\ ~Welcome(u, q)
      /\ \/ /\ [id |-> q.id, table |-> t] \in receipts
            /\ rows' = [rows EXCEPT ![t][u] =
                 IF @ = NoRow THEN [source |-> "public", consent |-> TRUE] ELSE @]
            /\ StopsLooking(u)
            /\ UNCHANGED <<game, listing, receipts>>
         \/ UNCHANGED serverVars
      /\ IF Known(q.id) THEN Answered(r)
         ELSE IF q.left > 1
         THEN requests' = [requests EXCEPT ![r] = Reading(q, q.mark, q.left - 1)]
         ELSE GivesUp(r)
      /\ UNCHANGED <<scenario, commands>>

ServeListing ==
  \E r \in Requests :
    \/ ReadTable(r) \/ Publish(r) \/ Withdraw(r)
    \/ Aim(r) \/ ReadTarget(r) \/ TakeSeat(r) \/ LoseSeat(r)
=============================================================================
