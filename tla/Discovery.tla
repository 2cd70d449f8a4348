------------------------------- MODULE Discovery -------------------------------
(***************************************************************************)
(* How strangers come to sit together: public listings and lobby           *)
(* invitations at the same tables, with the moves of members between them. *)
(***************************************************************************)
EXTENDS PublicListing, LobbyInvitations

Next ==
  \/ MemberMoves
  \/ Traffic
  \/ ComposeListing \/ ServeListing
  \/ ComposeInvitation \/ LobbyMoves \/ ServeInvitation

Spec == Init /\ [][Next]_vars

-----------------------------------------------------------------------------
Sources == {"none", "host", "invite", "public", "lobby_invite"}

TypeOK ==
  /\ game \in [Tables -> [room: {"none", "open", "closed"}, phase: {"lobby", "playing"},
                          host: {{}} \cup {{u} : u \in Users}, version: 0..MaxVersion,
                          seated: SUBSET Users, scope: {"invite_only", "public_safe"}]]
  /\ rows \in [Tables -> [Users -> [source: Sources, consent: BOOLEAN]]]
  /\ listing \in [Tables -> [state: {"none", "listed", "unlisted", "closed"}, version: Nat,
                             locator: 0..MaxVersion, owner: {{}} \cup {{u} : u \in Users}]]
  /\ looking \in [Users -> 0..Len(commands)]
  /\ invitations \subseteq
       [id: DOMAIN commands, from: Users, to: Users, locator: DOMAIN commands, table: Tables,
        state: {"pending", "accepted", "declined", "blocked", "expired"}]
  /\ blocks \subseteq Users \X Users
  /\ receipts \subseteq [id: DOMAIN commands, table: Tables \cup {"lobby"}]
  /\ \A t \in Tables : game[t].room = "open" => game[t].host \subseteq game[t].seated
  /\ \A r \in Requests : requests[r] # Idle =>
       /\ requests[r].pc \in {"start", "read", "batch"} /\ requests[r].id \in DOMAIN commands
       /\ Joins(r, "read") => /\ requests[r].left \in 1..Attempts
                              /\ Cardinality(requests[r].tried) \in 1..Selections

\* A table is on the list only while it waits, under the host who listed it,
\* with nobody at it who did not agree to be seen, and with its talk reduced
\* to phrases; whatever was retried, and whoever came by code or invitation,
\* left or took the table over in between.
ListingIsHonest ==
  \A t \in Tables : listing[t].state = "listed" =>
    /\ Waiting(t) /\ game[t].host = listing[t].owner
    /\ \A u \in Occupants(t) : rows[t][u].consent
    /\ game[t].scope = "public_safe"

\* A command does what it asks for once: copies of a quick join that picked
\* different tables leave their user at one of them, and an invitation that
\* was answered is not sent again by the retry of the request that sent it.
OneEffectPerCommand ==
  /\ \A x, y \in receipts : x.id = y.id => x = y
  /\ \A x, y \in invitations : x.id = y.id => x = y

\* Of what is pending, a seeker has at most one invitation to a table, and
\* it bears the locator under which the seeker is known now, if at all: a new
\* opt-in has put an end to all earlier ones.  And so has a seat at any table,
\* taken, offered or of the seeker's own making: no invitation waits for
\* somebody at an open table, though the opt-in and the seat may overlap.
PendingInvitationsAreCurrent ==
  \A x \in invitations : x.state = "pending" =>
    /\ looking[x.to] \in {0, x.locator} /\ ~InOpenTable(x.to)
    /\ \A y \in invitations : y.state = "pending" /\ y.table = x.table /\ y.to = x.to => y = x

\* Nobody comes to sit with strangers where a block stands between them and
\* somebody at the table, nor beyond the seats there are, however long ago
\* the request looked.
NoBlockedPairMeets ==
  [][\A t \in Tables : \A u \in game'[t].seated \ (game[t].seated \cup Occupants(t)) :
       rows'[t][u].source \in {"public", "lobby_invite"} =>
            /\ \A v \in Occupants(t) : ~Blocked(u, v)
            /\ Cardinality(game'[t].seated) <= Capacity]_vars

\* Whoever accepts an invitation sat at no open table, joins a host who is
\* still alone, and leaves nothing behind: not a listing, not another
\* invitation to this table or to this player, not a place in the directory.
AcceptedAlone ==
  [][\A x \in invitations' : x.state = "accepted" /\ x \notin invitations =>
       /\ ~InOpenTable(x.to)
       /\ game[x.table].seated = {x.from}
       /\ looking'[x.to] = 0 /\ listing'[x.table].state # "listed"
       /\ \A y \in invitations' : y.state = "pending" => y.to # x.to /\ y.table # x.table]_vars
=============================================================================
