--------------------------- MODULE LobbyInvitations ---------------------------
(***************************************************************************)
(* Looking for a game, and being invited by a host who waits alone:        *)
(* src/lib/server/lobby-presence-store.ts.  A seeker is known to others by *)
(* a locator, which changes with every opt-in; here it is the number of    *)
(* the command that opted in, as an invitation's name is that of the       *)
(* command that sent it.                                                   *)
(***************************************************************************)
EXTENDS PublicTables

ComposeLook(u) == Compose([op |-> "look", by |-> u])

ComposeInvite(u) ==
  \E v \in Directory(u), t \in Tables :
    HostsAlone(u, t) /\ Compose([op |-> "invite", by |-> u, table |-> t, to |-> looking[v]])

ComposeAnswer(u) ==
  \E x \in Feed(u) : Compose([op |-> "accept", by |-> u, invitation |-> x.id])

ComposeInvitation == \E u \in Users : ComposeLook(u) \/ ComposeInvite(u) \/ ComposeAnswer(u)

\* setLobbyPresence: a member of a table may not look for another
CheckSeeker(r) ==
  /\ At(r, "look", "start")
  /\ requests' = [requests EXCEPT
       ![r] = IF InOpenTable(Asker(r)) THEN Idle ELSE [pc |-> "batch", id |-> @.id]]
  /\ UNCHANGED <<scenario, serverVars, commands>>

OptIn(r) ==
  LET u == Asker(r)
      id == requests[r].id
  IN  /\ At(r, "look", "batch")
      /\ IF Known(id) THEN UNCHANGED <<looking, invitations, receipts>>
         ELSE /\ receipts' = receipts \cup {[id |-> id, table |-> "lobby"]}
              /\ looking' = [looking EXCEPT ![u] = id]
              /\ invitations' = Expired({x \in invitations : x.to = u /\ x.locator # id})
      /\ Answered(r)
      /\ UNCHANGED <<scenario, tableVars, blocks, commands>>

OptOut(u) ==
  /\ "hide" \in scenario.may
  /\ StopsLooking(u)
  /\ UNCHANGED <<scenario, tableVars, receipts, commands, requests>>

\* expireLobbyRows: a presence that was not renewed, an invitation too old
Lapse ==
  /\ "lapse" \in scenario.may
  /\ \/ \E u \in Users :
          /\ looking[u] # 0 /\ looking' = [looking EXCEPT ![u] = 0]
          /\ UNCHANGED invitations
     \/ \E x \in invitations :
          /\ x.state = "pending"
          /\ invitations' = Expired({x})
          /\ UNCHANGED looking
  /\ UNCHANGED <<scenario, tableVars, blocks, receipts, commands, requests>>

-----------------------------------------------------------------------------
(***************************************************************************)
(* sendLobbyInvitation.                                                    *)
(***************************************************************************)
Inviting(c, v) ==
  /\ HostsAlone(c.by, c.table)
  /\ v # c.by /\ looking[v] = c.to /\ ~InOpenTable(v) /\ ~Blocked(c.by, v)

ReadSeeker(r) ==
  LET c == commands[requests[r].id]
  IN  /\ At(r, "invite", "start")
      /\ IF game[c.table].seated = {c.by} /\ ~\E x \in invitations : x.id = requests[r].id
         THEN \/ \E v \in Users :
                   /\ Inviting(c, v)
                   /\ requests' = [requests EXCEPT
                        ![r] = [pc |-> "batch", id |-> @.id, to |-> v,
                                version |-> game[c.table].version]]
              \/ (\A v \in Users : ~Inviting(c, v)) /\ Answered(r)
         ELSE Answered(r)
      /\ UNCHANGED <<scenario, serverVars, commands>>

\* the unique indexes on the sender's command and on the pending pair
Taken(c, v, id) ==
  \E x \in invitations :
    x.id = id \/ (x.state = "pending" /\ x.table = c.table /\ x.to = v)

Invite(r) ==
  LET q == requests[r]
      c == commands[q.id]
  IN  /\ At(r, "invite", "batch")
      /\ IF /\ game[c.table].version = q.version /\ Inviting(c, q.to)
            /\ ~Taken(c, q.to, q.id)
         THEN invitations' = invitations \cup
                {[id |-> q.id, from |-> c.by, to |-> q.to, locator |-> c.to,
                  table |-> c.table, state |-> "pending"]}
         ELSE UNCHANGED invitations
      /\ Answered(r)
      /\ UNCHANGED <<scenario, tableVars, looking, blocks, receipts, commands>>

\* blockLobbyPresencePlayer: it ends what the two have pending
BlockSeeker(u, v) ==
  /\ "block" \in scenario.may
  /\ v # u /\ looking[v] # 0 /\ ~InOpenTable(v) /\ \E t \in Tables : HostsAlone(u, t)
  /\ blocks' = blocks \cup {<<u, v>>}
  /\ invitations' = Expired({x \in invitations : {x.from, x.to} = {u, v}})
  /\ UNCHANGED <<scenario, tableVars, looking, receipts, commands, requests>>

\* respondToLobbyInvitation, when the answer is no
Decline(u) ==
  /\ "decline" \in scenario.may
  /\ \E x \in invitations :
       /\ x.to = u /\ x.state = "pending"
       /\ \/ /\ invitations' = (invitations \ {x}) \cup {[x EXCEPT !.state = "declined"]}
             /\ UNCHANGED blocks
          \/ /\ "block" \in scenario.may
             /\ blocks' = blocks \cup {<<u, x.from>>}
             /\ invitations' = {IF y = x THEN [x EXCEPT !.state = "blocked"] ELSE y :
                   y \in Expired({z \in invitations \ {x} : {z.from, z.to} = {u, x.from}})}
  /\ UNCHANGED <<scenario, tableVars, looking, receipts, commands, requests>>

-----------------------------------------------------------------------------
(***************************************************************************)
(* acceptLobbyInvitation.                                                  *)
(***************************************************************************)
ReadInvitation(r) ==
  LET c == commands[requests[r].id]
  IN  /\ At(r, "accept", "start")
      /\ \E x \in invitations :
           /\ x.id = c.invitation
           /\ requests' = [requests EXCEPT
                ![r] = IF /\ x.state = "pending" /\ looking[c.by] = x.locator
                          /\ Waiting(x.table) /\ game[x.table].host = {x.from}
                          /\ Cardinality(game[x.table].seated) = 1
                          /\ ~Blocked(c.by, x.from)
                       THEN [pc |-> "batch", id |-> @.id, version |-> game[x.table].version]
                       ELSE Idle]
      /\ UNCHANGED <<scenario, serverVars, commands>>

AcceptableMutant(x, version) ==  \* who has come since the read is not counted
  /\ x.state = "pending" /\ looking[x.to] = x.locator /\ ~Blocked(x.to, x.from)
  /\ Waiting(x.table) /\ game[x.table].host = {x.from}
  /\ ~InOpenTable(x.to)

\* the guard of the batch's first statement
Acceptable(x, version) ==
  /\ x.state = "pending" /\ looking[x.to] = x.locator /\ ~Blocked(x.to, x.from)
  /\ game[x.table].version = version /\ HostsAlone(x.from, x.table)
  /\ ~InOpenTable(x.to)

Accept(r) ==
  LET q == requests[r]
  IN  /\ At(r, "accept", "batch")
      /\ \E x \in invitations :
           /\ x.id = commands[q.id].invitation
           /\ IF Acceptable(x, q.version) /\ Movable(x.table)
              THEN /\ game' = [game EXCEPT ![x.table].seated = @ \cup {x.to},
                                           ![x.table].version = @ + 1,
                                           ![x.table].scope = "public_safe"]
                   /\ rows' = [rows EXCEPT
                        ![x.table][x.to] = [source |-> "lobby_invite", consent |-> FALSE]]
                   /\ listing' = TakenDown(x.table, "unlisted")
                   /\ looking' = [looking EXCEPT ![x.to] = 0]
                   /\ invitations' =
                        {IF y = x THEN [x EXCEPT !.state = "accepted"] ELSE y :
                           y \in Expired({z \in invitations \ {x} : z.to = x.to \/ z.table = x.table})}
              ELSE UNCHANGED <<tableVars, looking, invitations>>
      /\ Answered(r)
      /\ UNCHANGED <<scenario, blocks, receipts, commands>>

LobbyMoves ==
  \/ Lapse
  \/ \E u \in Users : OptOut(u) \/ Decline(u) \/ \E v \in Users : BlockSeeker(u, v)

ServeInvitation ==
  \E r \in Requests :
    CheckSeeker(r) \/ OptIn(r) \/ ReadSeeker(r) \/ Invite(r) \/ ReadInvitation(r) \/ Accept(r)
=============================================================================
