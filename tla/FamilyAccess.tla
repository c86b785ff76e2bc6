---------------------------- MODULE FamilyAccess ----------------------------
(***************************************************************************)
(* The users of one academy, the roles they hold and the players they are  *)
(* parents of.  Both are kept twice: a role in user_roles and, one of them *)
(* as the primary one, in users.role; a link in parent_players and, as the *)
(* source of truth, in player_viewers.  Requests write one after the other *)
(* by statements of their own, with no transaction around them but in the  *)
(* creation of a linked player and in the deletion of one.                 *)
(*                                                                         *)
(* A step is one SQL statement with the code up to the next await; the     *)
(* checks that go through a list, row by row, are one step.  A request is  *)
(* noted as overlapping another from its first write, or, of roles, from   *)
(* its first read: 'torn' and 'contended' are what such a request, or one  *)
(* that died half-way, leaves in doubt.                                    *)
(* Links other than PARENT, the account of a player, the status of users   *)
(* and players, sessions (see Sessions), e-mails and the audit log are     *)
(* left out.                                                               *)
(***************************************************************************)
EXTENDS Naturals

CONSTANTS
  Requests,    \* slots of concurrent requests
  Users,       \* users of the academy, all of them parents to begin with
  Players,     \* ids of players, used once
  Roles,       \* the roles given: a subset of TENANT_MANAGEABLE_ROLES
  MaxBegun,    \* bound: requests begun
  MaxFailures  \* bound: failed statements

TENANT_MANAGEABLE_ROLES == {"academy_admin", "coach", "parent"}

ASSUME FamilyAssumption ==
  /\ Roles \subseteq TENANT_MANAGEABLE_ROLES /\ "parent" \in Roles
  /\ MaxBegun \in Nat /\ MaxFailures \in Nat

VARIABLES
  primary,        \* users.role
  roles,          \* rows of user_roles
  players,        \* rows of players: "none", "here" or "gone"
  parentPlayers,  \* rows of parent_players
  playerViewers,  \* rows of player_viewers with relationship PARENT
  pc, loc,        \* where each request is, and what it holds
  begun,          \* requests so far
  failures,       \* statements failed so far
  granted,        \* history: the roles as the requests that ended left them
  torn,           \* history: users whose roles are in doubt
  asked,          \* history: the links as the requests that ended left them
  contended       \* history: links in doubt

accounts == <<primary, roles, granted, torn>>
links == <<players, parentPlayers, playerViewers, asked, contended>>
vars == <<accounts, links, pc, loc, begun, failures>>

Pairs == Users \X Players

\* user, role: whose roles are changed, and the one given or taken; op: what the roles
\* are read for; held, previous: those read and the primary one.  joins: whether links
\* are replaced, scope: which, target: by which, todo: still to be inserted.
\* met, kept: history, the links of the scope another request has replaced meanwhile,
\* and those of the target that gave access to begin with.
NoLocals == [user |-> {}, role |-> "none", op |-> "none", held |-> {}, previous |-> "none",
             joins |-> FALSE, scope |-> {}, target |-> {}, todo |-> {}, met |-> {}, kept |-> {}]

Init ==
  /\ roles \in [Users -> {held \in SUBSET Roles : "parent" \in held}]
  /\ primary = [u \in Users |-> "parent"]
  /\ players \in [Players -> {"none", "here"}]
  /\ parentPlayers \in SUBSET {pair \in Pairs : players[pair[2]] = "here"}
  /\ playerViewers = parentPlayers
  /\ pc = [r \in Requests |-> "idle"]
  /\ loc = [r \in Requests |-> NoLocals]
  /\ begun = 0 /\ failures = 0
  /\ granted = roles /\ torn = {}
  /\ asked = parentPlayers /\ contended = {}

-----------------------------------------------------------------------------
(* Requests                                                                *)

Begin(r, stage, l) ==
  /\ pc[r] = "idle"
  /\ begun < MaxBegun
  /\ begun' = begun + 1
  /\ pc' = [pc EXCEPT ![r] = stage]
  /\ loc' = [loc EXCEPT ![r] = l]
  /\ UNCHANGED failures

Goto(r, stage) == pc' = [pc EXCEPT ![r] = stage]

Finish(r) ==
  /\ pc' = [pc EXCEPT ![r] = "idle"]
  /\ loc' = [loc EXCEPT ![r] = NoLocals]

\* Stages in which a request on roles relies on what it has read, and in which one on
\* links has replaced a part of them.
RoleStages == {"readRoles", "readPrimary", "grant", "remove", "syncPrimary", "dropPrevious",
               "grantNew", "setPrimary"}
LinkStages == {"fillLegacy", "clearViewers", "fillViewers"}

ChangesRolesOf(q, u) == pc[q] \in RoleStages /\ loc[q].op # "link" /\ u \in loc[q].user
Replacing(q) == IF pc[q] \in LinkStages THEN loc[q].scope ELSE {}

-----------------------------------------------------------------------------
(* Roles (user-role-management.service.ts)                                 *)

Rank(role) == CASE role = "academy_admin" -> 1 [] role = "coach" -> 2 [] OTHER -> 3

\* The first of TENANT_ROLE_PRIMARY_PRIORITY.
pickPrimaryRole(held) == CHOOSE role \in held : \A other \in held : Rank(role) <= Rank(other)

\* What a request does with the roles it has read.
Decide(r, u, held) ==
  LET l == loc[r] IN
  \/ /\ l.op = "assign" /\ l.role \notin held
     /\ Goto(r, "grant") /\ loc' = [loc EXCEPT ![r].held = held]
  \/ /\ l.op = "remove" /\ l.role \in held /\ held # {l.role}
     /\ Goto(r, "remove") /\ loc' = [loc EXCEPT ![r].held = held]
  \/ /\ l.op = "replace"
     /\ Goto(r, IF l.role \in held THEN "setPrimary" ELSE "dropPrevious")
     /\ loc' = [loc EXCEPT ![r].held = held]
  \/ /\ l.op = "link" /\ "parent" \in held
     /\ Goto(r, "checkPlayers") /\ UNCHANGED loc
  \/ /\ \/ l.op = "assign" /\ l.role \in held
        \/ l.op = "remove" /\ (l.role \notin held \/ held = {l.role})
        \/ l.op = "link" /\ "parent" \notin held
     /\ Finish(r)

\* Requests that change roles of one user at a time put them in doubt.
BeginRoles(r, u, l) ==
  /\ Begin(r, "readRoles", l)
  /\ torn' = IF l.op # "link" /\ \E q \in Requests : ChangesRolesOf(q, u) THEN torn \cup {u} ELSE torn
  /\ UNCHANGED <<primary, roles, granted, links>>

assignRole(r, u, role) ==
  BeginRoles(r, u, [NoLocals EXCEPT !.user = {u}, !.role = role, !.op = "assign"])

removeRole(r, u, role) ==
  BeginRoles(r, u, [NoLocals EXCEPT !.user = {u}, !.role = role, !.op = "remove"])

\* updateUser of tenant-user.service.ts: the primary role, unless it is that already,
\* and then the players the user is a parent of.
updateUser(r, u, role, joins, linked) ==
  LET replaces == role # "none" /\ role # primary[u] IN
  /\ replaces \/ joins
  /\ BeginRoles(r, u, [NoLocals EXCEPT !.user = {u}, !.role = role,
                                       !.op = IF replaces THEN "replace" ELSE "link",
                                       !.previous = primary[u], !.joins = joins,
                                       !.scope = {u} \X Players, !.target = {u} \X linked])

\* getUserRoles: the rows of user_roles, or users.role if there are none.
getUserRoles(r) ==
  /\ pc[r] = "readRoles"
  /\ \E u \in loc[r].user :
       IF roles[u] # {} THEN Decide(r, u, roles[u]) ELSE Goto(r, "readPrimary") /\ UNCHANGED loc
  /\ UNCHANGED <<accounts, links, begun, failures>>

PrimaryForRoles(r) ==
  /\ pc[r] = "readPrimary"
  /\ \E u \in loc[r].user : Decide(r, u, {primary[u]})
  /\ UNCHANGED <<accounts, links, begun, failures>>

AssignWrite(r) ==
  /\ pc[r] = "grant"
  /\ \E u \in loc[r].user : roles' = [roles EXCEPT ![u] = @ \cup {loc[r].role}]
  /\ Goto(r, "syncPrimary")
  /\ loc' = [loc EXCEPT ![r].held = @ \cup {loc[r].role}]
  /\ UNCHANGED <<primary, granted, torn, links, begun, failures>>

RemoveWrite(r) ==
  /\ pc[r] = "remove"
  /\ \E u \in loc[r].user : roles' = [roles EXCEPT ![u] = @ \ {loc[r].role}]
  /\ Goto(r, "syncPrimary")
  /\ loc' = [loc EXCEPT ![r].held = @ \ {loc[r].role}]
  /\ UNCHANGED <<primary, granted, torn, links, begun, failures>>

\* As after the addition of a role that ranks below the primary one.
MutSyncLeavesColumn(r) ==
  /\ pc[r] = "syncPrimary"
  /\ \E u \in loc[r].user : granted' = [granted EXCEPT ![u] = loc[r].held]
  /\ Finish(r)
  /\ UNCHANGED <<primary, roles, torn, links, begun, failures>>

\* The primary role follows from the roles read and the change made, not from the rows.
syncPrimaryRoleColumn(r) ==
  /\ pc[r] = "syncPrimary"
  /\ \E u \in loc[r].user :
       /\ primary' = [primary EXCEPT ![u] = pickPrimaryRole(loc[r].held)]
       /\ granted' = [granted EXCEPT ![u] = loc[r].held]
  /\ Finish(r)
  /\ UNCHANGED <<roles, torn, links, begun, failures>>

ReplaceRemove(r) ==
  /\ pc[r] = "dropPrevious"
  /\ \E u \in loc[r].user : roles' = [roles EXCEPT ![u] = @ \ {loc[r].previous}]
  /\ Goto(r, "grantNew")
  /\ loc' = [loc EXCEPT ![r].held = @ \ {loc[r].previous}]
  /\ UNCHANGED <<primary, granted, torn, links, begun, failures>>

ReplaceAssign(r) ==
  /\ pc[r] = "grantNew"
  /\ \E u \in loc[r].user : roles' = [roles EXCEPT ![u] = @ \cup {loc[r].role}]
  /\ Goto(r, "setPrimary")
  /\ loc' = [loc EXCEPT ![r].held = @ \cup {loc[r].role}]
  /\ UNCHANGED <<primary, granted, torn, links, begun, failures>>

replacePrimaryRole(r) ==
  /\ pc[r] = "setPrimary"
  /\ \E u \in loc[r].user :
       /\ primary' = [primary EXCEPT ![u] = loc[r].role]
       /\ granted' = [granted EXCEPT ![u] = loc[r].held]
  /\ IF loc[r].joins THEN Goto(r, "readRoles") /\ loc' = [loc EXCEPT ![r].op = "link"]
                     ELSE Finish(r)
  /\ UNCHANGED <<roles, torn, links, begun, failures>>

-----------------------------------------------------------------------------
(* Links                                                                   *)

assertPlayersInTenant(r) ==
  /\ pc[r] = "checkPlayers"
  /\ IF \A pair \in loc[r].target : players[pair[2]] = "here"
       THEN Goto(r, "clearLegacy") /\ UNCHANGED loc
       ELSE Finish(r)
  /\ UNCHANGED <<accounts, links, begun, failures>>

assertParentsInTenant(parents) == \A u \in parents : primary[u] = "parent"

OfPlayer(p, parents) == [NoLocals EXCEPT !.scope = Users \X {p}, !.target = parents \X {p}]

\* createPlayer of player.service.ts and enrollChild of parent.service.ts, up to the
\* insertion.  The token of a parent outlives a change of roles.
Fresh(p) ==
  players[p] = "none" /\ \A q \in Requests : pc[q] = "insertPlayer" => loc[q].scope # Users \X {p}

createPlayer(r, p, parents) ==
  /\ Fresh(p) /\ parents # {} /\ assertParentsInTenant(parents)
  /\ Begin(r, "insertPlayer", OfPlayer(p, parents))
  /\ UNCHANGED <<accounts, links>>

enrollChild(r, p, u) ==
  /\ Fresh(p)
  /\ Begin(r, "insertPlayer", OfPlayer(p, {u}))
  /\ UNCHANGED <<accounts, links>>

InsertPlayer(r) ==
  /\ pc[r] = "insertPlayer"
  /\ players' = [p \in Players |-> IF loc[r].scope = Users \X {p} THEN "here" ELSE players[p]]
  /\ Goto(r, "clearLegacy")
  /\ UNCHANGED <<accounts, parentPlayers, playerViewers, asked, contended, loc, begun, failures>>

updatePlayer(r, p, parents) ==
  /\ players[p] = "here"
  /\ assertParentsInTenant(parents)
  /\ Begin(r, "clearLegacy", OfPlayer(p, parents))
  /\ UNCHANGED <<accounts, links>>

\* Links written by a request are in doubt if another is replacing them at that time.
Contend(written) ==
  /\ contended' = contended \cup UNION {Replacing(q) \cap written : q \in Requests}
  /\ loc' = [q \in Requests |-> [loc[q] EXCEPT !.met = @ \cup (Replacing(q) \cap written)]]

MutViewersNext(target) == "clearViewers"

\* Once the rows of parent_players are deleted: their insertion, unless there are none.
AfterClearing(target) == IF target = {} THEN "clearViewers" ELSE "fillLegacy"

\* syncParents and syncPlayersForParent: the rows of parent_players, then those of
\* player_viewers.
ClearLegacy(r) ==
  LET common == UNION {Replacing(q) \cap loc[r].scope : q \in Requests} IN
  /\ pc[r] = "clearLegacy"
  /\ parentPlayers' = parentPlayers \ loc[r].scope
  /\ contended' = contended \cup common
  /\ loc' = [q \in Requests |->
       IF q = r THEN [loc[r] EXCEPT !.todo = loc[r].target, !.met = common,
                                    !.kept = loc[r].target \cap (parentPlayers \cup playerViewers)]
                ELSE [loc[q] EXCEPT !.met = @ \cup (Replacing(q) \cap loc[r].scope)]]
  /\ Goto(r, AfterClearing(loc[r].target))
  /\ UNCHANGED <<accounts, players, playerViewers, asked, begun, failures>>

\* The INSERT of a row that is there, or of a player that is gone, is an error.
Refuses(table, pair) == pair \in table \/ players[pair[2]] # "here"

Abandon(r) ==
  /\ Finish(r)
  /\ contended' = contended \cup Replacing(r)

FillLegacy(r, pair) ==
  /\ pc[r] = "fillLegacy" /\ pair \in loc[r].todo
  /\ IF Refuses(parentPlayers, pair)
       THEN Abandon(r) /\ UNCHANGED parentPlayers
       ELSE /\ parentPlayers' = parentPlayers \cup {pair}
            /\ loc' = [loc EXCEPT ![r].todo = @ \ {pair}]
            /\ Goto(r, IF loc[r].todo = {pair} THEN "clearViewers" ELSE "fillLegacy")
            /\ UNCHANGED contended
  /\ UNCHANGED <<accounts, players, playerViewers, asked, begun, failures>>

\* The request has replaced what it was to: nothing of it is in doubt any more but what
\* another was replacing.
Replaced(r) ==
  /\ asked' = (asked \ loc[r].scope) \cup loc[r].target
  /\ contended' = contended \ (loc[r].scope \ loc[r].met)
  /\ Finish(r)

MutClearViewersOfTarget(r) ==
  /\ pc[r] = "clearViewers"
  /\ playerViewers' = playerViewers \ loc[r].target
  /\ IF loc[r].target = {}
       THEN Replaced(r)
       ELSE /\ Goto(r, "fillViewers")
            /\ loc' = [loc EXCEPT ![r].todo = loc[r].target]
            /\ UNCHANGED <<asked, contended>>
  /\ UNCHANGED <<accounts, players, parentPlayers, begun, failures>>

ClearViewers(r) ==
  /\ pc[r] = "clearViewers"
  /\ playerViewers' = playerViewers \ loc[r].scope
  /\ IF loc[r].target = {}
       THEN Replaced(r)
       ELSE /\ Goto(r, "fillViewers")
            /\ loc' = [loc EXCEPT ![r].todo = loc[r].target]
            /\ UNCHANGED <<asked, contended>>
  /\ UNCHANGED <<accounts, players, parentPlayers, begun, failures>>

FillViewers(r, pair) ==
  /\ pc[r] = "fillViewers" /\ pair \in loc[r].todo
  /\ IF Refuses(playerViewers, pair)
       THEN Abandon(r) /\ UNCHANGED <<playerViewers, asked>>
       ELSE /\ playerViewers' = playerViewers \cup {pair}
            /\ IF loc[r].todo = {pair}
                 THEN Replaced(r)
                 ELSE /\ loc' = [loc EXCEPT ![r].todo = @ \ {pair}]
                      /\ UNCHANGED <<pc, asked, contended>>
  /\ UNCHANGED <<accounts, players, parentPlayers, begun, failures>>

\* A transaction: the player and both its links appear at once.
createLinkedPlayerForParent(p, u) ==
  /\ begun < MaxBegun /\ begun' = begun + 1
  /\ Fresh(p) /\ primary[u] = "parent"
  /\ players' = [players EXCEPT ![p] = "here"]
  /\ parentPlayers' = parentPlayers \cup {<<u, p>>}
  /\ playerViewers' = playerViewers \cup {<<u, p>>}
  /\ asked' = asked \cup {<<u, p>>}
  /\ Contend({<<u, p>>})
  /\ UNCHANGED <<accounts, pc, failures>>

\* deletePlayer of one without history, a transaction; the keys of player_viewers cascade.
deletePlayer(p) ==
  /\ begun < MaxBegun /\ begun' = begun + 1
  /\ players[p] = "here"
  /\ players' = [players EXCEPT ![p] = "gone"]
  /\ parentPlayers' = parentPlayers \ (Users \X {p})
  /\ playerViewers' = playerViewers \ (Users \X {p})
  /\ asked' = asked \ (Users \X {p})
  /\ UNCHANGED <<accounts, contended, pc, loc, failures>>

\* A statement fails, or the process dies.
Fail(r) ==
  /\ pc[r] # "idle"
  /\ failures < MaxFailures
  /\ failures' = failures + 1
  /\ Abandon(r)
  /\ torn' = torn \cup {u \in Users : ChangesRolesOf(r, u)}
  /\ UNCHANGED <<primary, roles, granted, players, parentPlayers, playerViewers, asked, begun>>

Next ==
  \/ \E r \in Requests :
       \/ \E u \in Users, role \in Roles : assignRole(r, u, role) \/ removeRole(r, u, role)
       \/ \E u \in Users, role \in Roles \cup {"none"}, joins \in BOOLEAN :
            \E linked \in SUBSET Players :
              (joins \/ linked = {}) /\ updateUser(r, u, role, joins, linked)
       \/ \E p \in Players, parents \in SUBSET Users :
            createPlayer(r, p, parents) \/ updatePlayer(r, p, parents)
       \/ \E p \in Players, u \in Users : enrollChild(r, p, u)
       \/ getUserRoles(r) \/ PrimaryForRoles(r) \/ AssignWrite(r) \/ RemoveWrite(r)
       \/ syncPrimaryRoleColumn(r) \/ ReplaceRemove(r) \/ ReplaceAssign(r)
       \/ replacePrimaryRole(r) \/ assertPlayersInTenant(r) \/ InsertPlayer(r)
       \/ ClearLegacy(r) \/ ClearViewers(r)
       \/ \E pair \in Pairs : FillLegacy(r, pair) \/ FillViewers(r, pair)
       \/ Fail(r)
  \/ \E p \in Players : deletePlayer(p) \/ \E u \in Users : createLinkedPlayerForParent(p, u)

Spec == Init /\ [][Next]_vars

-----------------------------------------------------------------------------
(* Properties                                                              *)

Stages == RoleStages \cup LinkStages \cup {"idle", "checkPlayers", "insertPlayer", "clearLegacy"}

Local == [user : SUBSET Users, role : Roles \cup {"none"},
          op : {"none", "assign", "remove", "replace", "link"}, held : SUBSET Roles,
          previous : Roles \cup {"none"}, joins : BOOLEAN, scope : SUBSET Pairs,
          target : SUBSET Pairs, todo : SUBSET Pairs, met : SUBSET Pairs, kept : SUBSET Pairs]

\* The types of the state.
TypeOK ==
  /\ primary \in [Users -> Roles] /\ roles \in [Users -> SUBSET Roles]
  /\ players \in [Players -> {"none", "here", "gone"}]
  /\ parentPlayers \subseteq Pairs /\ playerViewers \subseteq Pairs
  /\ pc \in [Requests -> Stages] /\ loc \in [Requests -> Local]
  /\ begun \in 0..MaxBegun /\ failures \in 0..MaxFailures
  /\ granted \in [Users -> SUBSET Roles] /\ torn \subseteq Users
  /\ asked \subseteq Pairs /\ contended \subseteq Pairs

\* Players whose row is there, and the links being replaced at the moment.
Settled == {pair \in Pairs : players[pair[2]] = "here"}
             \ (contended \cup UNION {Replacing(r) : r \in Requests})

\* Both tables hold the links the requests asked for, neither more nor fewer, so that
\* who has access (isLinkedToParent reads both) and who is notified (player_viewers
\* alone) are the same: but for links two requests were replacing at once, or one left
\* half-way, until a request replaces them undisturbed.
LinksAreAsAsked ==
  \A pair \in Settled :
    /\ pair \in parentPlayers <=> pair \in asked
    /\ pair \in playerViewers <=> pair \in asked

\* A parent that a request keeps has access at every moment of it, since one table is
\* replaced when the other is complete: again but for links in doubt.
KeptParentsKeepAccess ==
  \A r \in Requests : pc[r] \in LinkStages =>
    \A pair \in loc[r].kept \ contended :
      players[pair[2]] = "here" => pair \in parentPlayers \cup playerViewers

\* The roles in force are those given and not taken since, and the primary role is one
\* of them, unless two requests changed the user's roles at once or one died half-way.
RolesAreAsGranted ==
  \A u \in Users \ torn :
    (\A r \in Requests : ~ChangesRolesOf(r, u)) =>
      /\ (IF roles[u] # {} THEN roles[u] ELSE {primary[u]}) = granted[u]
      /\ primary[u] \in granted[u]
=============================================================================
