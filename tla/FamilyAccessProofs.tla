------------------------- MODULE FamilyAccessProofs -------------------------
(***************************************************************************)
(* What FamilyAccess promises, for any users, players and requests at      *)
(* once, and any statements that fail.                                     *)
(***************************************************************************)
EXTENDS FamilyAccess, TLAPS

\* The roles of a user that no request is changing.
Calm(u) == roles[u] # {} /\ roles[u] = granted[u] /\ primary[u] \in granted[u]

\* What a request holds at each of its stages.
Shaped(stage, l) ==
  /\ l.target \subseteq l.scope
  /\ stage \in RoleStages => \E u \in Users : l.user = {u}
  /\ stage \in RoleStages \ {"readRoles", "readPrimary"} => l.op # "link"
  /\ stage \in RoleStages /\ l.op # "link" => l.role \in Roles
  /\ stage = "remove" => l.role \in l.held /\ l.held # {l.role}
  /\ stage = "syncPrimary" => l.held # {}
  /\ stage = "insertPlayer" => \E p \in Players : l.scope = Users \X {p}
  /\ stage \in LinkStages =>
       l.met \subseteq l.scope /\ l.todo \subseteq l.target /\ l.kept \subseteq l.target
Shapes == \A r \in Requests : Shaped(pc[r], loc[r])

\* A request that alone changes the roles of a user holds those in force.
Following(r, u) ==
  /\ pc[r] \in {"readRoles", "grant", "remove", "dropPrevious"} => Calm(u)
  /\ pc[r] # "readRoles" => loc[r].held = roles[u]
  /\ pc[r] = "setPrimary" => loc[r].role \in loc[r].held
  /\ pc[r] # "readPrimary"
RolesOf(u) ==
  /\ \A r \in Requests : ChangesRolesOf(r, u) => Following(r, u)
  /\ \A r, q \in Requests : ChangesRolesOf(r, u) /\ ChangesRolesOf(q, u) => r = q
  /\ (\A r \in Requests : ~ChangesRolesOf(r, u)) => Calm(u)
RolesInv == \A u \in Users \ torn : RolesOf(u)

\* Nothing refers to a player that is not there yet.
Unborn ==
  \A pair \in Pairs : players[pair[2]] = "none" =>
    /\ pair \notin parentPlayers /\ pair \notin playerViewers /\ pair \notin asked
    /\ \A r \in Requests : pc[r] \in LinkStages \cup {"clearLegacy"} => pair \notin loc[r].target

\* A player is inserted once.
Inserts ==
  \A r \in Requests : pc[r] = "insertPlayer" =>
    /\ \A pair \in loc[r].scope : players[pair[2]] = "none"
    /\ \A q \in Requests : pc[q] = "insertPlayer" /\ loc[q].scope = loc[r].scope => r = q

\* Requests that replace the same links at once know it, and so do the links.
Apart ==
  \A r, q \in Requests : r # q => Replacing(r) \cap Replacing(q) \subseteq loc[r].met
InDoubt == \A r \in Requests : pc[r] \in LinkStages => loc[r].met \subseteq contended

\* How far a request has come with a link that it alone is replacing.
Progress(r, pair) ==
  /\ pc[r] = "fillLegacy" => (pair \in parentPlayers <=> pair \in loc[r].target \ loc[r].todo)
  /\ pc[r] = "fillLegacy" /\ pair \in loc[r].kept \ contended => pair \in playerViewers
  /\ pc[r] \in {"clearViewers", "fillViewers"} => (pair \in parentPlayers <=> pair \in loc[r].target)
  /\ pc[r] = "fillViewers" => (pair \in playerViewers <=> pair \in loc[r].target \ loc[r].todo)
Replaces ==
  \A r \in Requests : \A pair \in Replacing(r) \ loc[r].met :
    players[pair[2]] = "here" => Progress(r, pair)

LinksInv ==
  Unborn /\ Inserts /\ Apart /\ InDoubt /\ Replaces /\ LinksAreAsAsked

IInv == TypeOK /\ Shapes /\ RolesInv /\ LinksInv

-----------------------------------------------------------------------------
(* One step of a request                                                   *)

\* The request goes to a stage, with what it holds there.
Move(r, stage, l) ==
  /\ pc' = [pc EXCEPT ![r] = stage]
  /\ loc' = [loc EXCEPT ![r] = l]

\* A request that does not move holds what it held; it may learn of others.
Alike(q) ==
  /\ pc'[q] = pc[q]
  /\ loc'[q].user = loc[q].user /\ loc'[q].role = loc[q].role /\ loc'[q].op = loc[q].op
  /\ loc'[q].held = loc[q].held /\ loc'[q].scope = loc[q].scope
  /\ loc'[q].target = loc[q].target /\ loc'[q].todo = loc[q].todo /\ loc'[q].kept = loc[q].kept
  /\ loc[q].met \subseteq loc'[q].met

LEMMA EmptyLocals ==
  /\ NoLocals \in Local /\ NoLocals.target = {} /\ NoLocals.scope = {} /\ NoLocals.user = {}
  /\ NoLocals.op = "none"
BY DEF NoLocals, Local

\* The fields of a request, as they are updated.
LEMMA UpdatesOfHeld ==
  ASSUME NEW l \in Local, NEW h \in SUBSET Roles
  PROVE  LET m == [l EXCEPT !.held = h] IN
           /\ m \in Local /\ m.held = h /\ m.user = l.user /\ m.op = l.op /\ m.role = l.role
           /\ m.target = l.target /\ m.scope = l.scope
BY DEF Local

LEMMA UpdateToLink ==
  ASSUME NEW l \in Local
  PROVE  LET m == [l EXCEPT !.op = "link"] IN
           /\ m \in Local /\ m.op = "link" /\ m.user = l.user
           /\ m.target = l.target /\ m.scope = l.scope
BY DEF Local

LEMMA UpdatesOfTodo ==
  ASSUME NEW l \in Local, NEW t \in SUBSET Pairs
  PROVE  LET m == [l EXCEPT !.todo = t] IN
           /\ m \in Local /\ m.todo = t /\ m.target = l.target /\ m.scope = l.scope
           /\ m.met = l.met /\ m.kept = l.kept
BY DEF Local

LEMMA UpdatesOfMet ==
  ASSUME NEW l \in Local, NEW s \in SUBSET Pairs
  PROVE  LET m == [l EXCEPT !.met = s] IN
           /\ m \in Local /\ m.met = s /\ m.user = l.user /\ m.op = l.op /\ m.role = l.role
           /\ m.held = l.held /\ m.target = l.target /\ m.scope = l.scope
           /\ m.todo = l.todo /\ m.kept = l.kept
BY DEF Local

LEMMA Typed ==
  ASSUME TypeOK, NEW r \in Requests
  PROVE  /\ pc[r] \in Stages /\ loc[r] \in Local
         /\ loc[r].user \subseteq Users /\ loc[r].held \subseteq Roles
         /\ loc[r].scope \subseteq Pairs /\ loc[r].target \subseteq Pairs
         /\ loc[r].todo \subseteq Pairs /\ loc[r].met \subseteq Pairs /\ loc[r].kept \subseteq Pairs
<1>1. pc[r] \in Stages /\ loc[r] \in Local
  BY DEF TypeOK
<1> QED BY <1>1 DEF Local

LEMMA MoveEffect ==
  ASSUME TypeOK, NEW r \in Requests, NEW stage \in Stages, NEW l \in Local, Move(r, stage, l)
  PROVE  /\ pc' \in [Requests -> Stages] /\ loc' \in [Requests -> Local]
         /\ pc'[r] = stage /\ loc'[r] = l
         /\ \A q \in Requests \ {r} : Alike(q) /\ loc'[q] = loc[q]
<1>1. pc' \in [Requests -> Stages] /\ pc'[r] = stage /\ \A q \in Requests \ {r} : pc'[q] = pc[q]
  BY DEF Move, TypeOK
<1>2. loc' \in [Requests -> Local] /\ loc'[r] = l /\ \A q \in Requests \ {r} : loc'[q] = loc[q]
  BY DEF Move, TypeOK
<1> QED BY <1>1, <1>2 DEF Alike

\* The shape of one request at a time.
LEMMA ShapesStep ==
  ASSUME Shapes, TypeOK', NEW r \in Requests, Shaped(pc'[r], loc'[r]),
         \A q \in Requests \ {r} : Alike(q) /\ loc'[q].met \subseteq loc[q].scope \cup loc[q].met,
         \A q \in Requests \ {r} : pc[q] \notin LinkStages => loc'[q] = loc[q]
  PROVE  Shapes'
<1>1. ASSUME NEW q \in Requests \ {r} PROVE Shaped(pc'[q], loc'[q])
  <2>1. Shaped(pc[q], loc[q])
    BY DEF Shapes
  <2> QED BY <1>1, <2>1 DEF Shaped, Alike, LinkStages
<1> QED BY <1>1 DEF Shapes

-----------------------------------------------------------------------------
(* The roles of one user at a time                                         *)

SameUser(u) == roles'[u] = roles[u] /\ primary'[u] = primary[u] /\ granted'[u] = granted[u]

LEMMA OthersChange ==
  ASSUME NEW q, NEW u, Alike(q)
  PROVE  /\ ChangesRolesOf(q, u)' <=> ChangesRolesOf(q, u)
         /\ SameUser(u) /\ Following(q, u) => Following(q, u)'
BY DEF Alike, ChangesRolesOf, SameUser, Following, Calm

\* A step of one request leaves a user as it was, or is of the one request that
\* changes the user's roles.
LEMMA RolesStep ==
  ASSUME RolesInv, NEW r \in Requests, \A q \in Requests \ {r} : Alike(q), torn \subseteq torn',
         \A u \in Users \ torn' :
           \/ ~ChangesRolesOf(r, u) /\ ~ChangesRolesOf(r, u)' /\ SameUser(u)
           \/ /\ ChangesRolesOf(r, u) \/ \A q \in Requests \ {r} : ~ChangesRolesOf(q, u)
              /\ ChangesRolesOf(r, u)' => Following(r, u)'
              /\ ~ChangesRolesOf(r, u)' => Calm(u)'
  PROVE  RolesInv'
<1> SUFFICES ASSUME NEW u \in Users \ torn' PROVE RolesOf(u)'
  BY DEF RolesInv
<1>1. RolesOf(u)
  BY DEF RolesInv
<1>2. \A q \in Requests \ {r} :
        /\ ChangesRolesOf(q, u)' <=> ChangesRolesOf(q, u)
        /\ SameUser(u) /\ Following(q, u) => Following(q, u)'
  BY OthersChange
<1>3. CASE ~ChangesRolesOf(r, u) /\ ~ChangesRolesOf(r, u)' /\ SameUser(u)
  <2>1. Calm(u) => Calm(u)'
    BY <1>3 DEF Calm, SameUser
  <2> QED BY <1>1, <1>2, <1>3, <2>1 DEF RolesOf
<1>4. CASE /\ ChangesRolesOf(r, u) \/ \A q \in Requests \ {r} : ~ChangesRolesOf(q, u)
           /\ ChangesRolesOf(r, u)' => Following(r, u)'
           /\ ~ChangesRolesOf(r, u)' => Calm(u)'
  <2>1. \A q \in Requests \ {r} : ~ChangesRolesOf(q, u)'
    BY <1>1, <1>2, <1>4 DEF RolesOf
  <2> QED BY <1>4, <2>1 DEF RolesOf
<1> QED BY <1>3, <1>4

\* A step that has nothing to do with roles.
LEMMA RolesAside ==
  ASSUME RolesInv, NEW r \in Requests, \A q \in Requests \ {r} : Alike(q),
         torn \subseteq torn', UNCHANGED <<primary, roles, granted>>,
         \A u \in Users : ~ChangesRolesOf(r, u) /\ ~ChangesRolesOf(r, u)'
  PROVE  RolesInv'
BY RolesStep DEF SameUser

\* The one user whose roles a request is about.
LEMMA OneUser ==
  ASSUME Shapes, NEW r \in Requests, pc[r] \in RoleStages
  PROVE  \E v \in Users : /\ loc[r].user = {v}
                          /\ \A u \in Users : ChangesRolesOf(r, u) <=> loc[r].op # "link" /\ u = v
BY DEF Shapes, Shaped, ChangesRolesOf

LEMMA BeginTyped ==
  ASSUME TypeOK, NEW r \in Requests, NEW stage \in Stages, NEW l \in Local, Begin(r, stage, l)
  PROVE  /\ pc[r] = "idle" /\ Move(r, stage, l)
         /\ begun' \in 0..MaxBegun /\ failures' = failures
<1>1. begun' \in 0..MaxBegun
  BY FamilyAssumption DEF Begin, TypeOK
<1> QED BY <1>1 DEF Begin, Move

\* A request on roles has begun.
LEMMA BeginRolesKeeps ==
  ASSUME IInv, NEW r \in Requests, NEW u \in Users, NEW l \in Local, BeginRoles(r, u, l),
         l.user = {u}, l.op # "link" => l.role \in Roles, l.target \subseteq l.scope
  PROVE  TypeOK' /\ Shapes' /\ RolesInv'
<1>1. "readRoles" \in Stages
  BY DEF Stages, RoleStages
<1>2. Begin(r, "readRoles", l)
  BY DEF BeginRoles
<1>3. TypeOK
  BY DEF IInv
<1>4. pc[r] = "idle" /\ Move(r, "readRoles", l) /\ begun' \in 0..MaxBegun /\ failures' = failures
  BY <1>1, <1>2, <1>3, BeginTyped
<1>5. /\ pc' \in [Requests -> Stages] /\ loc' \in [Requests -> Local]
      /\ pc'[r] = "readRoles" /\ loc'[r] = l
      /\ \A q \in Requests \ {r} : Alike(q) /\ loc'[q] = loc[q]
  BY <1>1, <1>3, <1>4, MoveEffect
<1>6. TypeOK'
  BY <1>3, <1>4, <1>5 DEF BeginRoles, TypeOK, links
<1>7. Shapes'
  <2>1. Shaped("readRoles", l)
    BY DEF Shaped, LinkStages
  <2> QED BY <1>5, <1>6, <2>1, ShapesStep DEF IInv
<1>8. RolesInv'
  <2>1. torn \subseteq torn' /\ \A w \in Users : SameUser(w)
    BY DEF BeginRoles, SameUser
  <2>2. ASSUME NEW w \in Users
        PROVE  /\ ~ChangesRolesOf(r, w)
               /\ ChangesRolesOf(r, w)' <=> l.op # "link" /\ w = u
    BY <1>4, <1>5 DEF ChangesRolesOf, RoleStages
  <2>3. ASSUME u \notin torn', l.op # "link"
        PROVE  (\A q \in Requests : ~ChangesRolesOf(q, u)) /\ Following(r, u)'
    <3>1. \A q \in Requests : ~ChangesRolesOf(q, u)
      BY <2>3 DEF BeginRoles
    <3>2. Calm(u)
      BY <2>1, <2>3, <3>1 DEF IInv, RolesInv, RolesOf
    <3>3. Calm(u)'
      BY <2>1, <3>2 DEF Calm, SameUser
    <3> QED BY <1>5, <3>1, <3>3 DEF Following
  <2>4. ASSUME NEW w \in Users \ torn'
        PROVE  \/ ~ChangesRolesOf(r, w) /\ ~ChangesRolesOf(r, w)' /\ SameUser(w)
               \/ /\ ChangesRolesOf(r, w) \/ \A q \in Requests \ {r} : ~ChangesRolesOf(q, w)
                  /\ ChangesRolesOf(r, w)' => Following(r, w)'
                  /\ ~ChangesRolesOf(r, w)' => Calm(w)'
    <3>1. CASE l.op # "link" /\ w = u
      BY <2>2, <2>3, <3>1
    <3>2. CASE ~(l.op # "link" /\ w = u)
      BY <2>1, <2>2, <3>2
    <3> QED BY <3>1, <3>2
  <2> HIDE DEF BeginRoles
  <2> QED BY <1>5, <2>1, <2>4, RolesStep DEF IInv
<1> QED BY <1>6, <1>7, <1>8

\* The next step of a request on the roles of v.
LEMMA RolesMove ==
  ASSUME IInv, NEW r \in Requests, NEW v \in Users, loc[r].user = {v}, pc[r] \in RoleStages,
         NEW stage \in Stages, NEW l \in Local, Move(r, stage, l), Shaped(stage, l),
         stage \in RoleStages => l.user = {v},
         loc[r].op = "link" => stage \notin RoleStages \/ l.op = "link",
         loc[r].op = "link" => SameUser(v),
         torn' = torn, \A u \in Users \ {v} : SameUser(u),
         v \notin torn /\ loc[r].op # "link"
           => IF stage \in RoleStages /\ l.op # "link" THEN Following(r, v)' ELSE Calm(v)',
         TypeOK'
  PROVE  Shapes' /\ RolesInv'
<1>1. /\ pc'[r] = stage /\ loc'[r] = l
      /\ \A q \in Requests \ {r} : Alike(q) /\ loc'[q] = loc[q]
  BY MoveEffect DEF IInv
<1>2. Shapes'
  BY <1>1, ShapesStep DEF IInv
<1>3. ASSUME NEW u \in Users
      PROVE  /\ ChangesRolesOf(r, u) <=> loc[r].op # "link" /\ u = v
             /\ ChangesRolesOf(r, u)' <=> stage \in RoleStages /\ l.op # "link" /\ u = v
  BY <1>1 DEF ChangesRolesOf
<1>4. ASSUME NEW u \in Users \ torn'
      PROVE  \/ ~ChangesRolesOf(r, u) /\ ~ChangesRolesOf(r, u)' /\ SameUser(u)
             \/ /\ ChangesRolesOf(r, u) \/ \A q \in Requests \ {r} : ~ChangesRolesOf(q, u)
                /\ ChangesRolesOf(r, u)' => Following(r, u)'
                /\ ~ChangesRolesOf(r, u)' => Calm(u)'
  <2>1. CASE u = v /\ loc[r].op # "link"
    <3>1. ChangesRolesOf(r, u)
      BY <1>3, <2>1
    <3>2. ChangesRolesOf(r, u)' => Following(r, u)'
      BY <1>3, <2>1
    <3>3. ~ChangesRolesOf(r, u)' => Calm(u)'
      BY <1>3, <2>1
    <3> QED BY <3>1, <3>2, <3>3
  <2>2. CASE u # v \/ loc[r].op = "link"
    BY <1>3, <2>2
  <2> QED BY <2>1, <2>2
<1>5. RolesInv'
  BY <1>1, <1>4, RolesStep DEF IInv
<1> QED BY <1>2, <1>5

\* What a request does once it has read the roles.
LEMMA DecideKeeps ==
  ASSUME IInv, NEW r \in Requests, pc[r] \in {"readRoles", "readPrimary"},
         NEW v \in Users, loc[r].user = {v}, NEW held \in SUBSET Roles, Decide(r, v, held),
         v \notin torn /\ loc[r].op # "link" => held = roles[v] /\ Calm(v),
         UNCHANGED <<accounts, links, begun, failures>>
  PROVE  /\ TypeOK' /\ Shapes' /\ RolesInv'
         /\ pc'[r] \in {"grant", "remove", "setPrimary", "dropPrevious", "checkPlayers", "idle"}
         /\ \A q \in Requests \ {r} : Alike(q) /\ loc'[q] = loc[q]
<1> DEFINE l == loc[r]
           holds == [loc[r] EXCEPT !.held = held]
<1>1. /\ l \in Local /\ TypeOK /\ Shaped(pc[r], l)
      /\ pc \in [Requests -> Stages] /\ loc \in [Requests -> Local]
  BY Typed DEF IInv, Shapes, TypeOK
<1>2. /\ holds \in Local /\ holds.held = held /\ holds.user = l.user /\ holds.op = l.op
      /\ holds.role = l.role /\ holds.target = l.target /\ holds.scope = l.scope
  BY <1>1, UpdatesOfHeld
<1>3. l.target \subseteq l.scope /\ (l.op # "link" => l.role \in Roles)
  BY <1>1 DEF Shaped, RoleStages
<1>4. /\ torn' = torn /\ \A u \in Users : SameUser(u) /\ (Calm(u)' <=> Calm(u))
  BY DEF accounts, SameUser, Calm
<1>5. \/ \E stage \in {"grant", "remove", "setPrimary", "dropPrevious"} :
           /\ Move(r, stage, holds) /\ Shaped(stage, holds) /\ l.op # "link"
           /\ stage = "setPrimary" => l.role \in held
      \/ \E m \in {l, NoLocals} : \E stage \in {"checkPlayers", "idle"} :
           Move(r, stage, m) /\ Shaped(stage, m)
  <2>1. ASSUME NEW stage \in {"grant", "remove", "setPrimary", "dropPrevious"}, Goto(r, stage),
               loc' = [loc EXCEPT ![r].held = held], l.op # "link",
               stage = "remove" => l.role \in held /\ held # {l.role},
               stage = "setPrimary" => l.role \in held
        PROVE  /\ Move(r, stage, holds) /\ Shaped(stage, holds) /\ l.op # "link"
               /\ (stage = "setPrimary" => l.role \in held)
    <3>1. Move(r, stage, holds)
      BY <1>1, <2>1 DEF Move, Goto
    <3> HIDE DEF holds
    <3>2. Shaped(stage, holds)
      BY <1>2, <1>3, <2>1 DEF Shaped, LinkStages
    <3> QED BY <2>1, <3>1, <3>2
  <2>2. ASSUME Finish(r) PROVE Move(r, "idle", NoLocals) /\ Shaped("idle", NoLocals)
    BY <2>2, EmptyLocals DEF Finish, Move, Shaped, RoleStages, LinkStages
  <2>3. ASSUME Goto(r, "checkPlayers"), UNCHANGED loc
        PROVE  Move(r, "checkPlayers", l) /\ Shaped("checkPlayers", l)
    <3>1. loc = [loc EXCEPT ![r] = l]
      BY <1>1
    <3> QED BY <1>3, <2>3, <3>1 DEF Goto, Move, Shaped, RoleStages, LinkStages
  <2>4. CASE l.op = "assign" /\ l.role \notin held /\ Goto(r, "grant")
             /\ loc' = [loc EXCEPT ![r].held = held]
    BY <2>1, <2>4
  <2>5. CASE l.op = "remove" /\ l.role \in held /\ held # {l.role} /\ Goto(r, "remove")
             /\ loc' = [loc EXCEPT ![r].held = held]
    BY <2>1, <2>5
  <2>6. CASE l.op = "replace" /\ Goto(r, IF l.role \in held THEN "setPrimary" ELSE "dropPrevious")
             /\ loc' = [loc EXCEPT ![r].held = held]
    <3>1. CASE l.role \in held
      BY <2>1, <2>6, <3>1
    <3>2. CASE l.role \notin held
      BY <2>1, <2>6, <3>2
    <3> QED BY <3>1, <3>2
  <2>7. CASE Goto(r, "checkPlayers") /\ UNCHANGED loc
    BY <2>3, <2>7
  <2>8. CASE Finish(r)
    BY <2>2, <2>8
  <2> HIDE DEF holds
  <2> QED BY <2>4, <2>5, <2>6, <2>7, <2>8 DEF Decide
<1> HIDE DEF holds
<1>6. ASSUME NEW stage \in Stages, NEW m \in Local, Move(r, stage, m)
      PROVE  /\ TypeOK' /\ pc'[r] = stage /\ loc'[r] = m
             /\ \A q \in Requests \ {r} : Alike(q) /\ loc'[q] = loc[q]
  <2>1. /\ pc' \in [Requests -> Stages] /\ loc' \in [Requests -> Local]
        /\ pc'[r] = stage /\ loc'[r] = m
        /\ \A q \in Requests \ {r} : Alike(q) /\ loc'[q] = loc[q]
    BY <1>1, <1>6, MoveEffect
  <2> QED BY <1>1, <2>1 DEF TypeOK, accounts, links
<1>7. ASSUME NEW stage \in {"grant", "remove", "setPrimary", "dropPrevious"},
             Move(r, stage, holds), Shaped(stage, holds), l.op # "link",
             stage = "setPrimary" => l.role \in held
      PROVE  /\ TypeOK' /\ Shapes' /\ RolesInv' /\ pc'[r] = stage
             /\ \A q \in Requests \ {r} : Alike(q) /\ loc'[q] = loc[q]
  <2>1. stage \in Stages /\ stage \in RoleStages
    BY DEF Stages, RoleStages
  <2>2. /\ TypeOK' /\ pc'[r] = stage /\ loc'[r] = holds
        /\ \A q \in Requests \ {r} : Alike(q) /\ loc'[q] = loc[q]
    BY <1>2, <1>6, <1>7, <2>1
  <2>3. ASSUME v \notin torn PROVE Following(r, v)'
    <3>1. Calm(v)' /\ held = roles'[v]
      BY <1>4, <1>7, <2>3 DEF SameUser
    <3> QED BY <1>2, <1>7, <2>2, <3>1 DEF Following
  <2> QED BY <1>2, <1>4, <1>7, <2>1, <2>2, <2>3, RolesMove, <1>1 DEF RoleStages
<1>8. ASSUME NEW stage \in {"checkPlayers", "idle"}, NEW m \in {l, NoLocals},
             Move(r, stage, m), Shaped(stage, m)
      PROVE  /\ TypeOK' /\ Shapes' /\ RolesInv' /\ pc'[r] = stage
             /\ \A q \in Requests \ {r} : Alike(q) /\ loc'[q] = loc[q]
  <2>1. stage \in Stages /\ stage \notin RoleStages /\ m \in Local
    BY <1>1, EmptyLocals DEF Stages, RoleStages
  <2>2. /\ TypeOK' /\ pc'[r] = stage /\ \A q \in Requests \ {r} : Alike(q) /\ loc'[q] = loc[q]
    BY <1>6, <1>8, <2>1
  <2>3. pc[r] \in RoleStages
    BY DEF RoleStages
  <2>4. v \notin torn /\ l.op # "link" => Calm(v)'
    BY <1>4
  <2> QED BY <1>4, <1>8, <2>1, <2>2, <2>3, <2>4, RolesMove
<1> QED BY <1>5, <1>7, <1>8

-----------------------------------------------------------------------------
(* The links: steps that replace none                                      *)

LEMMA LinksAside ==
  ASSUME LinksInv, NEW r \in Requests, UNCHANGED links,
         pc[r] \notin LinkStages, pc'[r] \notin LinkStages,
         \A q \in Requests \ {r} : Alike(q) /\ loc'[q] = loc[q],
         pc'[r] = "clearLegacy" => \A pair \in loc'[r].target : players[pair[2]] # "none",
         pc'[r] = "insertPlayer" =>
           /\ \A pair \in loc'[r].scope : players[pair[2]] = "none"
           /\ \A q \in Requests \ {r} : pc[q] = "insertPlayer" => loc[q].scope # loc'[r].scope
  PROVE  LinksInv'
<1>1. /\ players' = players /\ parentPlayers' = parentPlayers /\ playerViewers' = playerViewers
      /\ asked' = asked /\ contended' = contended
  BY DEF links
<1>2. \A q \in Requests \ {r} : pc'[q] = pc[q] /\ loc'[q] = loc[q]
  BY DEF Alike
<1>3. \A q \in Requests : Replacing(q)' = Replacing(q)
  BY <1>2 DEF Replacing
<1>4. Unborn'
  BY <1>1, <1>2 DEF LinksInv, Unborn
<1>5. Inserts'
  <2>1. ASSUME NEW q \in Requests, pc'[q] = "insertPlayer"
        PROVE  \A pair \in loc'[q].scope : players'[pair[2]] = "none"
    BY <1>1, <1>2, <2>1 DEF LinksInv, Inserts
  <2>2. ASSUME NEW q \in Requests, NEW o \in Requests, pc'[q] = "insertPlayer",
               pc'[o] = "insertPlayer", loc'[o].scope = loc'[q].scope
        PROVE  q = o
    <3>1. CASE q # r /\ o # r
      BY <1>2, <2>2, <3>1 DEF LinksInv, Inserts
    <3>2. CASE q = r \/ o = r
      BY <1>2, <2>2, <3>2
    <3> QED BY <3>1, <3>2
  <2> QED BY <2>1, <2>2 DEF Inserts
<1>6. Apart'
  BY <1>2, <1>3 DEF LinksInv, Apart, Replacing
<1>7. InDoubt'
  BY <1>1, <1>2 DEF LinksInv, InDoubt
<1>8. Replaces'
  <2>1. ASSUME NEW q \in Requests \ {r}, NEW pair, Progress(q, pair) PROVE Progress(q, pair)'
    BY <1>1, <1>2, <2>1 DEF Progress
  <2>2. Replacing(r)' = {}
    BY DEF Replacing
  <2> QED BY <1>1, <1>2, <1>3, <2>1, <2>2 DEF LinksInv, Replaces
<1>9. LinksAreAsAsked'
  <2>1. Settled' = Settled
    BY <1>1, <1>3 DEF Settled
  <2> QED BY <1>1, <2>1 DEF LinksInv, LinksAreAsAsked
<1> QED BY <1>4, <1>5, <1>6, <1>7, <1>8, <1>9 DEF LinksInv

-----------------------------------------------------------------------------
(* The requests on roles                                                   *)

\* A step that is no more than one of a request on roles.
LEMMA RoleStepKeeps ==
  ASSUME IInv, NEW r \in Requests, TypeOK', Shapes', RolesInv', UNCHANGED links,
         pc[r] \notin LinkStages,
         pc'[r] \in RoleStages \cup {"checkPlayers", "idle"},
         \A q \in Requests \ {r} : Alike(q) /\ loc'[q] = loc[q]
  PROVE  IInv'
<1>1. pc'[r] \notin LinkStages /\ pc'[r] # "clearLegacy" /\ pc'[r] # "insertPlayer"
  BY DEF RoleStages, LinkStages
<1> QED BY <1>1, LinksAside DEF IInv

LEMMA BeginRolesIInv ==
  ASSUME IInv, NEW r \in Requests, NEW u \in Users, NEW l \in Local, BeginRoles(r, u, l),
         l.user = {u}, l.op # "link" => l.role \in Roles, l.target \subseteq l.scope
  PROVE  IInv'
<1>1. TypeOK' /\ Shapes' /\ RolesInv'
  BY BeginRolesKeeps
<1>2. "readRoles" \in Stages /\ "readRoles" \in RoleStages /\ Begin(r, "readRoles", l) /\ TypeOK
  BY DEF Stages, RoleStages, BeginRoles, IInv
<1>3. pc[r] = "idle" /\ Move(r, "readRoles", l)
  BY <1>2, BeginTyped
<1>4. pc'[r] = "readRoles" /\ \A q \in Requests \ {r} : Alike(q) /\ loc'[q] = loc[q]
  BY <1>2, <1>3, MoveEffect
<1>5. pc[r] \notin LinkStages /\ UNCHANGED links
  BY <1>3 DEF LinkStages, BeginRoles, links
<1> QED BY <1>1, <1>2, <1>4, <1>5, RoleStepKeeps

LEMMA RoleRequestsBegin ==
  ASSUME IInv, NEW r \in Requests, NEW u \in Users,
         \/ \E role \in Roles : assignRole(r, u, role) \/ removeRole(r, u, role)
         \/ \E role \in Roles \cup {"none"}, joins \in BOOLEAN, linked \in SUBSET Players :
              updateUser(r, u, role, joins, linked)
  PROVE  IInv'
<1>1. ASSUME NEW role \in Roles, NEW op \in {"assign", "remove"},
             BeginRoles(r, u, [NoLocals EXCEPT !.user = {u}, !.role = role, !.op = op])
      PROVE  IInv'
  <2> DEFINE l == [NoLocals EXCEPT !.user = {u}, !.role = role, !.op = op]
  <2>1. l \in Local /\ l.user = {u} /\ l.role \in Roles /\ l.target \subseteq l.scope
    BY DEF NoLocals, Local
  <2>2. BeginRoles(r, u, l)
    BY <1>1
  <2> HIDE DEF l
  <2> QED BY <2>1, <2>2, BeginRolesIInv
<1>2. ASSUME NEW role \in Roles \cup {"none"}, NEW joins \in BOOLEAN, NEW linked \in SUBSET Players,
             updateUser(r, u, role, joins, linked)
      PROVE  IInv'
  <2> DEFINE replaces == role # "none" /\ role # primary[u]
             op == IF replaces THEN "replace" ELSE "link"
             scope == {u} \X Players
             target == {u} \X linked
             l == [NoLocals EXCEPT !.user = {u}, !.role = role, !.op = op,
                                   !.previous = primary[u], !.joins = joins,
                                   !.scope = scope, !.target = target]
  <2>1. BeginRoles(r, u, l)
    BY <1>2 DEF updateUser
  <2>2. /\ op \in {"replace", "link"} /\ (op # "link" => role \in Roles) /\ primary[u] \in Roles
        /\ scope \in SUBSET Pairs /\ target \in SUBSET Pairs /\ target \subseteq scope
    BY DEF Pairs, IInv, TypeOK
  <2> HIDE DEF op, scope, target
  <2>3. l \in Local
    BY <2>2 DEF NoLocals, Local
  <2>4. /\ l.user = {u} /\ (l.op # "link" => l.role \in Roles)
        /\ l.target \subseteq l.scope
    BY <2>2 DEF NoLocals
  <2> HIDE DEF l
  <2> QED BY <2>1, <2>3, <2>4, BeginRolesIInv
<1> QED BY <1>1, <1>2 DEF assignRole, removeRole

\* Roles are read.
LEMMA ReadsKeep ==
  ASSUME IInv, NEW r \in Requests, getUserRoles(r) \/ PrimaryForRoles(r)
  PROVE  IInv'
<1>1. pc[r] \in {"readRoles", "readPrimary"} /\ pc[r] \in RoleStages /\ pc[r] \notin LinkStages
  BY DEF getUserRoles, PrimaryForRoles, RoleStages, LinkStages
<1>2. UNCHANGED <<accounts, links, begun, failures>>
  BY DEF getUserRoles, PrimaryForRoles
<1>3. PICK v \in Users : /\ loc[r].user = {v}
                         /\ \A u \in Users : ChangesRolesOf(r, u) <=> loc[r].op # "link" /\ u = v
  BY <1>1, OneUser DEF IInv
<1>4. v \notin torn /\ loc[r].op # "link" => Following(r, v)
  BY <1>3 DEF IInv, RolesInv, RolesOf
<1>5. roles[v] \in SUBSET Roles /\ {primary[v]} \in SUBSET Roles
  BY DEF IInv, TypeOK
<1>6. ASSUME NEW held \in SUBSET Roles, Decide(r, v, held),
             v \notin torn /\ loc[r].op # "link" => held = roles[v] /\ Calm(v)
      PROVE  IInv'
  <2>1. /\ TypeOK' /\ Shapes' /\ RolesInv'
        /\ pc'[r] \in {"grant", "remove", "setPrimary", "dropPrevious", "checkPlayers", "idle"}
        /\ \A q \in Requests \ {r} : Alike(q) /\ loc'[q] = loc[q]
    BY <1>1, <1>2, <1>3, <1>6, DecideKeeps
  <2>2. pc'[r] \in RoleStages \cup {"checkPlayers", "idle"}
    BY <2>1 DEF RoleStages
  <2> QED BY <1>1, <1>2, <2>1, <2>2, RoleStepKeeps
<1>7. CASE pc[r] = "readRoles" /\ roles[v] # {} /\ Decide(r, v, roles[v])
  <2>1. v \notin torn /\ loc[r].op # "link" => Calm(v)
    BY <1>4, <1>7 DEF Following
  <2> QED BY <1>5, <1>6, <1>7, <2>1
<1>8. CASE pc[r] = "readPrimary" /\ Decide(r, v, {primary[v]})
  BY <1>4, <1>5, <1>6, <1>8 DEF Following
<1>9. CASE pc[r] = "readRoles" /\ roles[v] = {} /\ Goto(r, "readPrimary") /\ UNCHANGED loc
  <2>1. ~(v \notin torn /\ loc[r].op # "link")
    BY <1>4, <1>9 DEF Following, Calm
  <2>2. /\ loc[r] \in Local /\ "readPrimary" \in Stages /\ "readPrimary" \in RoleStages
        /\ TypeOK /\ Shaped(pc[r], loc[r])
    BY Typed DEF Stages, RoleStages, IInv, Shapes
  <2>3. Move(r, "readPrimary", loc[r])
    BY <1>9 DEF Goto, Move, IInv, TypeOK
  <2>4. /\ pc' \in [Requests -> Stages] /\ loc' \in [Requests -> Local]
        /\ pc'[r] = "readPrimary" /\ loc'[r] = loc[r]
        /\ \A q \in Requests \ {r} : Alike(q) /\ loc'[q] = loc[q]
    BY <2>2, <2>3, MoveEffect
  <2>5. TypeOK'
    BY <1>2, <2>2, <2>4 DEF TypeOK, accounts, links
  <2>6. Shaped("readPrimary", loc[r])
    BY <1>9, <2>2 DEF Shaped, RoleStages, LinkStages
  <2>7. torn' = torn /\ \A u \in Users : SameUser(u)
    BY <1>2 DEF accounts, SameUser
  <2>8. Shapes' /\ RolesInv'
    BY <1>1, <1>3, <2>1, <2>2, <2>3, <2>5, <2>6, <2>7, RolesMove
  <2> QED BY <1>1, <1>2, <2>2, <2>4, <2>5, <2>8, RoleStepKeeps
<1> QED BY <1>3, <1>7, <1>8, <1>9 DEF getUserRoles, PrimaryForRoles

\* A request writes the roles, or the primary role, of the user it is about.
LEMMA RoleWriteKeeps ==
  ASSUME IInv, NEW r \in Requests, NEW v \in Users, loc[r].user = {v}, pc[r] \in RoleStages,
         loc[r].op # "link", NEW stage \in RoleStages \cup {"idle"}, NEW l \in Local,
         Move(r, stage, l), Shaped(stage, l), stage \in RoleStages => l.user = {v},
         NEW held \in SUBSET Roles, NEW given \in SUBSET Roles, NEW first \in Roles,
         roles' = [roles EXCEPT ![v] = held], granted' = [granted EXCEPT ![v] = given],
         primary' = [primary EXCEPT ![v] = first],
         UNCHANGED <<torn, links, begun, failures>>,
         v \notin torn =>
           \/ /\ stage \in RoleStages /\ l.op # "link" /\ l.held = held
              /\ stage \notin {"readRoles", "grant", "remove", "dropPrevious", "readPrimary"}
              /\ stage = "setPrimary" => l.role \in l.held
           \/ (stage = "idle" \/ l.op = "link") /\ held # {} /\ held = given /\ first \in given
  PROVE  IInv'
<1>1. stage \in Stages /\ "idle" \notin RoleStages /\ pc[r] \notin LinkStages /\ TypeOK
  BY DEF Stages, RoleStages, LinkStages, IInv
<1>2. /\ pc' \in [Requests -> Stages] /\ loc' \in [Requests -> Local]
      /\ pc'[r] = stage /\ loc'[r] = l
      /\ \A q \in Requests \ {r} : Alike(q) /\ loc'[q] = loc[q]
  BY <1>1, MoveEffect
<1>3. /\ roles'[v] = held /\ granted'[v] = given /\ primary'[v] = first
      /\ \A u \in Users \ {v} : SameUser(u)
  BY <1>1 DEF TypeOK, SameUser
<1>4. TypeOK'
  BY <1>1, <1>2 DEF TypeOK, links
<1>5. ASSUME v \notin torn
      PROVE  IF stage \in RoleStages /\ l.op # "link" THEN Following(r, v)' ELSE Calm(v)'
  <2>1. CASE /\ stage \in RoleStages /\ l.op # "link" /\ l.held = held
             /\ stage \notin {"readRoles", "grant", "remove", "dropPrevious", "readPrimary"}
             /\ stage = "setPrimary" => l.role \in l.held
    BY <1>2, <1>3, <2>1 DEF Following
  <2>2. CASE (stage = "idle" \/ l.op = "link") /\ held # {} /\ held = given /\ first \in given
    BY <1>1, <1>3, <2>2 DEF Calm
  <2> QED BY <1>5, <2>1, <2>2
<1>6. Shapes' /\ RolesInv'
  BY <1>1, <1>3, <1>4, <1>5, RolesMove
<1> QED BY <1>1, <1>2, <1>4, <1>6, RoleStepKeeps

LEMMA PrimaryIsHeld ==
  ASSUME NEW held \in SUBSET Roles, held # {}
  PROVE  pickPrimaryRole(held) \in held
<1>1. \E role \in held : \A other \in held : Rank(role) <= Rank(other)
  <2>1. \A role \in held : Rank(role) \in 1..3
    BY DEF Rank
  <2>2. CASE \E role \in held : Rank(role) = 1
    BY <2>1, <2>2
  <2>3. CASE (\A role \in held : Rank(role) # 1) /\ \E role \in held : Rank(role) = 2
    BY <2>1, <2>3
  <2>4. CASE \A role \in held : Rank(role) # 1 /\ Rank(role) # 2
    BY <2>1, <2>4
  <2> QED BY <2>2, <2>3, <2>4
<1> QED BY <1>1 DEF pickPrimaryRole

\* What a request that writes roles knows of itself.
LEMMA Writing ==
  ASSUME IInv, NEW r \in Requests,
         pc[r] \in {"grant", "remove", "syncPrimary", "dropPrevious", "grantNew", "setPrimary"}
  PROVE  /\ pc[r] \in RoleStages /\ loc[r] \in Local /\ loc[r].op # "link" /\ loc[r].role \in Roles
         /\ loc[r].held \in SUBSET Roles /\ loc[r].target \subseteq loc[r].scope
         /\ Shaped(pc[r], loc[r])
         /\ \E v \in Users : loc[r].user = {v} /\ (v \notin torn => Following(r, v))
         /\ \A v \in Users : /\ roles[v] \in SUBSET Roles /\ granted[v] \in SUBSET Roles
                             /\ primary[v] \in Roles
<1>1. pc[r] \in RoleStages /\ pc[r] \in RoleStages \ {"readRoles", "readPrimary"}
  BY DEF RoleStages
<1>2. TypeOK /\ loc[r] \in Local /\ Shaped(pc[r], loc[r]) /\ loc[r].held \subseteq Roles
  BY Typed DEF IInv, Shapes
<1>3. loc[r].op # "link" /\ loc[r].role \in Roles /\ loc[r].target \subseteq loc[r].scope
  BY <1>1, <1>2 DEF Shaped
<1>4. PICK v \in Users : /\ loc[r].user = {v}
                         /\ \A u \in Users : ChangesRolesOf(r, u) <=> loc[r].op # "link" /\ u = v
  BY <1>1, OneUser DEF IInv
<1>5. v \notin torn => Following(r, v)
  BY <1>3, <1>4 DEF IInv, RolesInv, RolesOf
<1>6. \A w \in Users : roles[w] \in SUBSET Roles /\ granted[w] \in SUBSET Roles /\ primary[w] \in Roles
  BY <1>2 DEF TypeOK
<1> QED BY <1>1, <1>2, <1>3, <1>4, <1>5, <1>6

\* A role is added, or taken away; what the request holds follows.
LEMMA HeldWritesKeep ==
  ASSUME IInv, NEW r \in Requests,
         \/ AssignWrite(r) \/ RemoveWrite(r) \/ ReplaceRemove(r) \/ ReplaceAssign(r)
  PROVE  IInv'
<1>1. pc[r] \in {"grant", "remove", "syncPrimary", "dropPrevious", "grantNew", "setPrimary"}
  BY DEF AssignWrite, RemoveWrite, ReplaceRemove, ReplaceAssign
<1>2. /\ pc[r] \in RoleStages /\ loc[r] \in Local /\ loc[r].op # "link" /\ loc[r].role \in Roles
      /\ loc[r].held \in SUBSET Roles /\ loc[r].target \subseteq loc[r].scope
      /\ Shaped(pc[r], loc[r])
      /\ \A v \in Users : /\ roles[v] \in SUBSET Roles /\ granted[v] \in SUBSET Roles
                          /\ primary[v] \in Roles
      /\ TypeOK
  BY <1>1, Writing DEF IInv
<1>3. PICK v \in Users : loc[r].user = {v} /\ (v \notin torn => Following(r, v))
  BY <1>1, Writing
<1>4. ASSUME NEW stage \in {"syncPrimary", "grantNew", "setPrimary"}, NEW new \in SUBSET Roles,
             NEW held \in SUBSET Roles, roles' = [roles EXCEPT ![v] = held],
             Goto(r, stage), loc' = [loc EXCEPT ![r].held = new],
             v \notin torn => new = held, stage = "syncPrimary" => new # {},
             stage = "setPrimary" => loc[r].role \in new,
             UNCHANGED <<primary, granted, torn, links, begun, failures>>
      PROVE  IInv'
  <2> DEFINE l == [loc[r] EXCEPT !.held = new]
  <2>1. Move(r, stage, l)
    BY <1>2, <1>4 DEF Move, Goto, TypeOK
  <2>2. /\ l \in Local /\ l.held = new /\ l.user = loc[r].user /\ l.op = loc[r].op
        /\ l.role = loc[r].role /\ l.target = loc[r].target /\ l.scope = loc[r].scope
    BY <1>2, UpdatesOfHeld
  <2> HIDE DEF l
  <2>3. stage \in RoleStages
    BY DEF RoleStages
  <2>4. Shaped(stage, l)
    BY <1>2, <1>3, <1>4, <2>2 DEF Shaped, LinkStages
  <2>5. granted' = [granted EXCEPT ![v] = granted[v]] /\ primary' = [primary EXCEPT ![v] = primary[v]]
    BY <1>2, <1>4 DEF TypeOK
  <2>6. v \notin torn =>
          /\ stage \in RoleStages /\ l.op # "link" /\ l.held = held
          /\ stage \notin {"readRoles", "grant", "remove", "dropPrevious", "readPrimary"}
          /\ stage = "setPrimary" => l.role \in l.held
    BY <1>2, <1>4, <2>2, <2>3
  <2>7. UNCHANGED <<torn, links, begun, failures>> /\ roles' = [roles EXCEPT ![v] = held]
    BY <1>4
  <2>8. granted[v] \in SUBSET Roles /\ primary[v] \in Roles /\ stage \in RoleStages \cup {"idle"}
    BY <1>2, <2>3
  <2>9. stage \in RoleStages => l.user = {v}
    BY <1>3, <2>2
  <2> QED BY <1>2, <1>3, <2>1, <2>2, <2>4, <2>5, <2>6, <2>7, <2>8, <2>9, RoleWriteKeeps
<1>5. v \notin torn => loc[r].held = roles[v]
  BY <1>1, <1>3 DEF Following
<1>6. CASE AssignWrite(r)
  <2> DEFINE new == loc[r].held \cup {loc[r].role}
  <2>1. new \in SUBSET Roles /\ new # {} /\ roles[v] \cup {loc[r].role} \in SUBSET Roles
    BY <1>2
  <2>2. loc' = [loc EXCEPT ![r].held = new] /\ roles' = [roles EXCEPT ![v] = roles[v] \cup {loc[r].role}]
    BY <1>3, <1>6 DEF AssignWrite
  <2>3. v \notin torn => new = roles[v] \cup {loc[r].role}
    BY <1>5
  <2> HIDE DEF new
  <2>5. Goto(r, "syncPrimary") /\ UNCHANGED <<primary, granted, torn, links, begun, failures>>
    BY <1>6 DEF AssignWrite
  <2> QED BY <1>4, <2>1, <2>2, <2>3, <2>5
<1>7. CASE RemoveWrite(r)
  <2> DEFINE new == loc[r].held \ {loc[r].role}
  <2>1. new \in SUBSET Roles /\ roles[v] \ {loc[r].role} \in SUBSET Roles
    BY <1>2
  <2>2. loc' = [loc EXCEPT ![r].held = new] /\ roles' = [roles EXCEPT ![v] = roles[v] \ {loc[r].role}]
    BY <1>3, <1>7 DEF RemoveWrite
  <2>3. v \notin torn => new = roles[v] \ {loc[r].role}
    BY <1>5
  <2>4. new # {}
    BY <1>2, <1>7 DEF RemoveWrite, Shaped
  <2> HIDE DEF new
  <2>5. Goto(r, "syncPrimary") /\ UNCHANGED <<primary, granted, torn, links, begun, failures>>
    BY <1>7 DEF RemoveWrite
  <2> QED BY <1>4, <2>1, <2>2, <2>3, <2>4, <2>5
<1>8. CASE ReplaceRemove(r)
  <2> DEFINE new == loc[r].held \ {loc[r].previous}
  <2>1. new \in SUBSET Roles /\ roles[v] \ {loc[r].previous} \in SUBSET Roles
    BY <1>2
  <2>2. /\ loc' = [loc EXCEPT ![r].held = new]
        /\ roles' = [roles EXCEPT ![v] = roles[v] \ {loc[r].previous}]
    BY <1>3, <1>8 DEF ReplaceRemove
  <2>3. v \notin torn => new = roles[v] \ {loc[r].previous}
    BY <1>5
  <2> HIDE DEF new
  <2>5. Goto(r, "grantNew") /\ UNCHANGED <<primary, granted, torn, links, begun, failures>>
    BY <1>8 DEF ReplaceRemove
  <2> QED BY <1>4, <2>1, <2>2, <2>3, <2>5
<1>9. CASE ReplaceAssign(r)
  <2> DEFINE new == loc[r].held \cup {loc[r].role}
  <2>1. new \in SUBSET Roles /\ loc[r].role \in new /\ roles[v] \cup {loc[r].role} \in SUBSET Roles
    BY <1>2
  <2>2. loc' = [loc EXCEPT ![r].held = new] /\ roles' = [roles EXCEPT ![v] = roles[v] \cup {loc[r].role}]
    BY <1>3, <1>9 DEF ReplaceAssign
  <2>3. v \notin torn => new = roles[v] \cup {loc[r].role}
    BY <1>5
  <2> HIDE DEF new
  <2>5. Goto(r, "setPrimary") /\ UNCHANGED <<primary, granted, torn, links, begun, failures>>
    BY <1>9 DEF ReplaceAssign
  <2> QED BY <1>4, <2>1, <2>2, <2>3, <2>5
<1> QED BY <1>6, <1>7, <1>8, <1>9

\* The primary role follows what the request holds.
LEMMA PrimaryWritesKeep ==
  ASSUME IInv, NEW r \in Requests, syncPrimaryRoleColumn(r) \/ replacePrimaryRole(r)
  PROVE  IInv'
<1>1. pc[r] \in {"grant", "remove", "syncPrimary", "dropPrevious", "grantNew", "setPrimary"}
  BY DEF syncPrimaryRoleColumn, replacePrimaryRole
<1>2. /\ pc[r] \in RoleStages /\ loc[r] \in Local /\ loc[r].op # "link" /\ loc[r].role \in Roles
      /\ loc[r].held \in SUBSET Roles /\ loc[r].target \subseteq loc[r].scope
      /\ Shaped(pc[r], loc[r])
      /\ \A v \in Users : /\ roles[v] \in SUBSET Roles /\ granted[v] \in SUBSET Roles
                          /\ primary[v] \in Roles
      /\ TypeOK
  BY <1>1, Writing DEF IInv
<1>3. PICK v \in Users : loc[r].user = {v} /\ (v \notin torn => Following(r, v))
  BY <1>1, Writing
<1>4. /\ roles' = [roles EXCEPT ![v] = roles[v]] /\ granted' = [granted EXCEPT ![v] = loc[r].held]
      /\ UNCHANGED <<torn, links, begun, failures>>
  BY <1>2, <1>3 DEF TypeOK, syncPrimaryRoleColumn, replacePrimaryRole
<1>5. v \notin torn => loc[r].held = roles[v]
  BY <1>1, <1>3 DEF Following
<1>6. "idle" \notin RoleStages
  BY DEF RoleStages
<1>7. ASSUME NEW first \in Roles, primary' = [primary EXCEPT ![v] = first],
             v \notin torn => first \in loc[r].held,
             NEW stage \in {"readRoles", "idle"}, NEW l \in Local, Move(r, stage, l),
             stage = "idle" \/ (l.op = "link" /\ l.user = {v}), l.target \subseteq l.scope
      PROVE  IInv'
  <2>1. stage \in RoleStages \cup {"idle"} /\ stage \notin LinkStages
    BY DEF RoleStages, LinkStages
  <2>2. Shaped(stage, l)
    BY <1>6, <1>7, <2>1 DEF Shaped
  <2>3. v \notin torn =>
          /\ stage = "idle" \/ l.op = "link"
          /\ roles[v] # {} /\ roles[v] = loc[r].held /\ first \in loc[r].held
    BY <1>5, <1>7
  <2>4. stage \in RoleStages => l.user = {v}
    BY <1>6, <1>7
  <2>5. roles[v] \in SUBSET Roles
    BY <1>2
  <2>6. Move(r, stage, l) /\ primary' = [primary EXCEPT ![v] = first]
    BY <1>7
  <2>7. granted' = [granted EXCEPT ![v] = loc[r].held] /\ UNCHANGED <<torn, links, begun, failures>>
    BY <1>4
  <2>8. roles' = [roles EXCEPT ![v] = roles[v]]
    BY <1>4
  <2>9. /\ pc[r] \in RoleStages /\ loc[r].op # "link" /\ loc[r].held \in SUBSET Roles
        /\ loc[r].user = {v}
    BY <1>2, <1>3
  <2> QED BY <2>1, <2>2, <2>3, <2>4, <2>5, <2>6, <2>7, <2>8, <2>9, RoleWriteKeeps
<1>8. Finish(r) => Move(r, "idle", NoLocals)
  BY DEF Finish, Move
<1>9. CASE syncPrimaryRoleColumn(r)
  <2> DEFINE first == pickPrimaryRole(loc[r].held)
  <2>1. first \in loc[r].held /\ first \in Roles
    BY <1>2, <1>9, PrimaryIsHeld DEF syncPrimaryRoleColumn, Shaped
  <2>2. primary' = [primary EXCEPT ![v] = first] /\ Finish(r)
    BY <1>3, <1>9 DEF syncPrimaryRoleColumn
  <2> HIDE DEF first
  <2>3. Move(r, "idle", NoLocals) /\ NoLocals \in Local /\ NoLocals.target \subseteq NoLocals.scope
    BY <1>8, <2>2, EmptyLocals
  <2> QED BY <1>7, <2>1, <2>2, <2>3
<1>10. CASE replacePrimaryRole(r)
  <2>1. /\ primary' = [primary EXCEPT ![v] = loc[r].role]
        /\ v \notin torn => loc[r].role \in loc[r].held
    BY <1>3, <1>10 DEF replacePrimaryRole, Following
  <2>2. CASE loc[r].joins
    <3> DEFINE l == [loc[r] EXCEPT !.op = "link"]
    <3>1. Move(r, "readRoles", l)
      BY <1>2, <1>10, <2>2 DEF Move, Goto, TypeOK, replacePrimaryRole
    <3>2. /\ l \in Local /\ l.op = "link" /\ l.user = loc[r].user
          /\ l.target = loc[r].target /\ l.scope = loc[r].scope
      BY <1>2, UpdateToLink
    <3> HIDE DEF l
    <3> QED BY <1>2, <1>3, <1>7, <2>1, <3>1, <3>2
  <2>3. CASE ~loc[r].joins
    <3>1. Move(r, "idle", NoLocals) /\ NoLocals \in Local /\ NoLocals.target \subseteq NoLocals.scope
      BY <1>8, <1>10, <2>3, EmptyLocals DEF replacePrimaryRole
    <3> QED BY <1>2, <1>7, <2>1, <3>1
  <2> QED BY <2>2, <2>3
<1> QED BY <1>9, <1>10

-----------------------------------------------------------------------------
(* The requests on links, up to the first replacement                      *)

\* A step of a request that has nothing to do with roles.
LEMMA LinkStepKeepsRoles ==
  ASSUME IInv, NEW r \in Requests, NEW stage \in Stages, NEW l \in Local, Move(r, stage, l),
         Shaped(stage, l), pc[r] \notin RoleStages, stage \notin RoleStages,
         UNCHANGED accounts, players' \in [Players -> {"none", "here", "gone"}],
         parentPlayers' \subseteq Pairs, playerViewers' \subseteq Pairs, asked' \subseteq Pairs,
         contended' \subseteq Pairs, begun' \in 0..MaxBegun, failures' \in 0..MaxFailures
  PROVE  /\ TypeOK' /\ Shapes' /\ RolesInv' /\ pc'[r] = stage /\ loc'[r] = l
         /\ \A q \in Requests \ {r} : Alike(q) /\ loc'[q] = loc[q]
<1>1. /\ pc' \in [Requests -> Stages] /\ loc' \in [Requests -> Local]
      /\ pc'[r] = stage /\ loc'[r] = l
      /\ \A q \in Requests \ {r} : Alike(q) /\ loc'[q] = loc[q]
  BY MoveEffect DEF IInv
<1>2. TypeOK'
  BY <1>1 DEF TypeOK, IInv, accounts
<1>3. Shapes'
  BY <1>1, <1>2, ShapesStep DEF IInv
<1>4. RolesInv'
  <2>1. \A u \in Users : ~ChangesRolesOf(r, u) /\ ~ChangesRolesOf(r, u)'
    BY <1>1 DEF ChangesRolesOf
  <2>2. torn \subseteq torn' /\ UNCHANGED <<primary, roles, granted>>
    BY DEF accounts
  <2> QED BY <1>1, <2>1, <2>2, RolesAside DEF IInv
<1> QED BY <1>1, <1>2, <1>3, <1>4

\* The same, for a step that writes no link either.
LEMMA IdleLinkStepKeeps ==
  ASSUME IInv, NEW r \in Requests,
         NEW stage \in {"insertPlayer", "clearLegacy", "checkPlayers", "idle"},
         NEW l \in Local, Move(r, stage, l), Shaped(stage, l),
         pc[r] \notin RoleStages, pc[r] \notin LinkStages, UNCHANGED <<accounts, links>>,
         begun' \in 0..MaxBegun, failures' \in 0..MaxFailures,
         stage = "clearLegacy" => \A pair \in l.target : players[pair[2]] # "none",
         stage = "insertPlayer" =>
           /\ \A pair \in l.scope : players[pair[2]] = "none"
           /\ \A q \in Requests \ {r} : pc[q] = "insertPlayer" => loc[q].scope # l.scope
  PROVE  IInv'
<1>1. stage \in Stages /\ stage \notin RoleStages /\ stage \notin LinkStages
  BY DEF Stages, RoleStages, LinkStages
<1>2. UNCHANGED accounts /\ UNCHANGED links
  OBVIOUS
<1>3. /\ players' \in [Players -> {"none", "here", "gone"}]
      /\ parentPlayers' \subseteq Pairs /\ playerViewers' \subseteq Pairs /\ asked' \subseteq Pairs
      /\ contended' \subseteq Pairs
  BY DEF IInv, TypeOK, links
<1>4. /\ TypeOK' /\ Shapes' /\ RolesInv' /\ pc'[r] = stage /\ loc'[r] = l
      /\ \A q \in Requests \ {r} : Alike(q) /\ loc'[q] = loc[q]
  BY <1>1, <1>2, <1>3, LinkStepKeepsRoles
<1>5. LinksInv'
  BY <1>1, <1>2, <1>4, LinksAside DEF IInv
<1> QED BY <1>4, <1>5 DEF IInv

LEMMA OfPlayerHolds ==
  ASSUME NEW p \in Players, NEW parents \in SUBSET Users
  PROVE  LET l == OfPlayer(p, parents) IN
           /\ l \in Local /\ l.scope = Users \X {p} /\ l.target = parents \X {p}
           /\ l.target \subseteq l.scope
<1> DEFINE scope == Users \X {p}
           target == parents \X {p}
<1>1. scope \in SUBSET Pairs /\ target \in SUBSET Pairs /\ target \subseteq scope
  BY DEF Pairs
<1>2. OfPlayer(p, parents) = [NoLocals EXCEPT !.scope = scope, !.target = target]
  BY DEF OfPlayer
<1> HIDE DEF scope, target
<1>3. /\ [NoLocals EXCEPT !.scope = scope, !.target = target] \in Local
      /\ [NoLocals EXCEPT !.scope = scope, !.target = target].scope = scope
      /\ [NoLocals EXCEPT !.scope = scope, !.target = target].target = target
  BY <1>1 DEF NoLocals, Local
<1> QED BY <1>1, <1>2, <1>3 DEF scope, target

LEMMA LinkRequestsBegin ==
  ASSUME IInv, NEW r \in Requests, NEW p \in Players,
         \/ \E parents \in SUBSET Users : createPlayer(r, p, parents) \/ updatePlayer(r, p, parents)
         \/ \E u \in Users : enrollChild(r, p, u)
  PROVE  IInv'
<1>1. ASSUME NEW stage \in {"insertPlayer", "clearLegacy"}, NEW parents \in SUBSET Users,
             Begin(r, stage, OfPlayer(p, parents)), UNCHANGED <<accounts, links>>,
             stage = "clearLegacy" => players[p] # "none",
             stage = "insertPlayer" => Fresh(p)
      PROVE  IInv'
  <2> DEFINE l == OfPlayer(p, parents)
  <2>1. /\ l \in Local /\ l.scope = Users \X {p} /\ l.target = parents \X {p}
        /\ l.target \subseteq l.scope
    BY OfPlayerHolds
  <2>2. stage \in Stages /\ stage \notin RoleStages /\ stage \notin LinkStages /\ TypeOK
    BY DEF Stages, RoleStages, LinkStages, IInv
  <2>3. Begin(r, stage, l)
    BY <1>1
  <2> HIDE DEF l
  <2>4. /\ pc[r] = "idle" /\ Move(r, stage, l)
        /\ begun' \in 0..MaxBegun /\ failures' = failures
    BY <2>1, <2>2, <2>3, BeginTyped
  <2>5. Shaped(stage, l)
    BY <2>1, <2>2 DEF Shaped, RoleStages
  <2>6. pc[r] \notin RoleStages /\ pc[r] \notin LinkStages /\ failures' \in 0..MaxFailures
    BY <2>2, <2>4 DEF RoleStages, LinkStages, TypeOK
  <2>7. stage = "clearLegacy" => \A pair \in l.target : players[pair[2]] # "none"
    BY <1>1, <2>1
  <2>8. stage = "insertPlayer" =>
          /\ \A pair \in l.scope : players[pair[2]] = "none"
          /\ \A q \in Requests \ {r} : pc[q] = "insertPlayer" => loc[q].scope # l.scope
    BY <1>1, <2>1 DEF Fresh
  <2>9. UNCHANGED <<accounts, links>> /\ stage \in {"insertPlayer", "clearLegacy", "checkPlayers", "idle"}
    BY <1>1
  <2> QED BY <2>1, <2>4, <2>5, <2>6, <2>7, <2>8, <2>9, IdleLinkStepKeeps
<1>2. ASSUME NEW parents \in SUBSET Users, createPlayer(r, p, parents) PROVE IInv'
  BY <1>1, <1>2 DEF createPlayer
<1>3. ASSUME NEW parents \in SUBSET Users, updatePlayer(r, p, parents) PROVE IInv'
  BY <1>1, <1>3 DEF updatePlayer
<1>4. ASSUME NEW u \in Users, enrollChild(r, p, u) PROVE IInv'
  <2>1. {u} \in SUBSET Users
    OBVIOUS
  <2> QED BY <1>1, <1>4, <2>1 DEF enrollChild
<1> QED BY <1>2, <1>3, <1>4

\* All the players of a parent are there, or nothing is done.
LEMMA CheckKeeps ==
  ASSUME IInv, NEW r \in Requests, assertPlayersInTenant(r)
  PROVE  IInv'
<1>1. /\ pc[r] = "checkPlayers" /\ pc[r] \notin RoleStages /\ pc[r] \notin LinkStages
      /\ UNCHANGED <<accounts, links>> /\ begun' = begun /\ failures' = failures
  BY DEF assertPlayersInTenant, RoleStages, LinkStages
<1>2. TypeOK /\ loc[r] \in Local /\ Shaped(pc[r], loc[r]) /\ loc[r].target \subseteq Pairs
  BY Typed DEF IInv, Shapes
<1>3. begun' \in 0..MaxBegun /\ failures' \in 0..MaxFailures
  BY <1>1, <1>2 DEF TypeOK
<1>4. CASE /\ \A pair \in loc[r].target : players[pair[2]] = "here"
           /\ Goto(r, "clearLegacy") /\ UNCHANGED loc
  <2>1. Move(r, "clearLegacy", loc[r])
    BY <1>2, <1>4 DEF Move, Goto, TypeOK
  <2>2. Shaped("clearLegacy", loc[r])
    BY <1>2 DEF Shaped, RoleStages, LinkStages
  <2>3. \A pair \in loc[r].target : players[pair[2]] # "none"
    BY <1>4
  <2> QED BY <1>1, <1>2, <1>3, <2>1, <2>2, <2>3, IdleLinkStepKeeps
<1>5. CASE Finish(r)
  <2>1. Move(r, "idle", NoLocals) /\ Shaped("idle", NoLocals)
    BY <1>5, EmptyLocals DEF Finish, Move, Shaped, RoleStages, LinkStages
  <2> QED BY <1>1, <1>3, <2>1, EmptyLocals, IdleLinkStepKeeps
<1> QED BY <1>4, <1>5 DEF assertPlayersInTenant

\* A player appears, to whom nothing was linked.
LEMMA InsertPlayerKeeps ==
  ASSUME IInv, NEW r \in Requests, InsertPlayer(r)
  PROVE  IInv'
<1>1. /\ pc[r] = "insertPlayer" /\ Goto(r, "clearLegacy") /\ loc' = loc
      /\ UNCHANGED accounts /\ parentPlayers' = parentPlayers /\ playerViewers' = playerViewers
      /\ asked' = asked /\ contended' = contended /\ begun' = begun /\ failures' = failures
      /\ players' = [p \in Players |-> IF loc[r].scope = Users \X {p} THEN "here" ELSE players[p]]
  BY DEF InsertPlayer
<1>2. TypeOK /\ loc[r] \in Local /\ Shaped(pc[r], loc[r]) /\ LinksInv
  BY Typed DEF IInv, Shapes
<1>3. pc[r] \notin RoleStages /\ "clearLegacy" \notin RoleStages /\ "clearLegacy" \in Stages
  BY <1>1 DEF RoleStages, Stages
<1>4. Move(r, "clearLegacy", loc[r]) /\ Shaped("clearLegacy", loc[r])
  <2>1. Move(r, "clearLegacy", loc[r])
    BY <1>1, <1>2 DEF Move, Goto, TypeOK
  <2>2. Shaped("clearLegacy", loc[r])
    BY <1>2 DEF Shaped, RoleStages, LinkStages
  <2> QED BY <2>1, <2>2
<1>5. /\ players' \in [Players -> {"none", "here", "gone"}]
      /\ parentPlayers' \subseteq Pairs /\ playerViewers' \subseteq Pairs /\ asked' \subseteq Pairs
      /\ contended' \subseteq Pairs /\ begun' \in 0..MaxBegun /\ failures' \in 0..MaxFailures
  BY <1>1, <1>2 DEF TypeOK
<1>6. /\ TypeOK' /\ Shapes' /\ RolesInv' /\ pc'[r] = "clearLegacy"
      /\ \A q \in Requests \ {r} : Alike(q)
  BY <1>1, <1>2, <1>3, <1>4, <1>5, LinkStepKeepsRoles
<1>7. PICK p \in Players : loc[r].scope = Users \X {p}
  BY <1>1, <1>2 DEF Shaped
<1>8. \A pair \in Pairs :
        /\ pair \in loc[r].scope => players[pair[2]] = "none" /\ players'[pair[2]] = "here"
        /\ pair \notin loc[r].scope => players'[pair[2]] = players[pair[2]]
  <2>1. ASSUME NEW pair \in Pairs, pair \in loc[r].scope
        PROVE  players[pair[2]] = "none" /\ players'[pair[2]] = "here"
    BY <1>1, <1>2, <1>7, <2>1 DEF LinksInv, Inserts
  <2>2. ASSUME NEW pair \in Pairs, pair \notin loc[r].scope
        PROVE  players'[pair[2]] = players[pair[2]]
    <3>1. pair[1] \in Users /\ pair[2] \in Players /\ pair = <<pair[1], pair[2]>>
      BY DEF Pairs
    <3>2. loc[r].scope # Users \X {pair[2]}
      BY <2>2, <3>1
    <3> QED BY <1>1, <3>1, <3>2
  <2> QED BY <2>1, <2>2
<1>9. \A q \in Requests : Replacing(q)' = Replacing(q) /\ (pc'[q] \in LinkStages => pc'[q] = pc[q] /\ q # r)
  BY <1>1, <1>6 DEF Replacing, LinkStages, Alike
<1>10. Unborn'
  <2>1. ASSUME NEW pair \in Pairs, players'[pair[2]] = "none"
        PROVE  players[pair[2]] = "none" /\ pair \notin loc[r].scope
    BY <1>8, <2>1
  <2>2. loc[r].target \subseteq loc[r].scope
    BY <1>2 DEF Shaped
  <2> QED BY <1>1, <1>2, <1>6, <2>1, <2>2 DEF LinksInv, Unborn, Alike
<1>11. Inserts'
  <2>1. ASSUME NEW q \in Requests, pc'[q] = "insertPlayer"
        PROVE  pc[q] = "insertPlayer" /\ q # r
    BY <1>6, <2>1 DEF Alike
  <2>2. ASSUME NEW q \in Requests, pc'[q] = "insertPlayer", NEW pair \in loc[q].scope
        PROVE  players'[pair[2]] = "none"
    <3>1. PICK o \in Players : loc[q].scope = Users \X {o}
      BY <2>1, <2>2 DEF IInv, Shapes, Shaped
    <3>2. loc[q].scope # loc[r].scope
      BY <1>1, <1>2, <2>1, <2>2 DEF LinksInv, Inserts
    <3>3. pair \in Pairs /\ pair \notin loc[r].scope
      BY <1>7, <2>2, <3>1, <3>2 DEF Pairs
    <3>4. players[pair[2]] = "none"
      BY <1>2, <2>1, <2>2 DEF LinksInv, Inserts
    <3> QED BY <1>8, <3>3, <3>4
  <2> QED BY <1>1, <1>2, <2>1, <2>2 DEF LinksInv, Inserts
<1>12. Apart' /\ InDoubt'
  BY <1>1, <1>2, <1>9 DEF LinksInv, Apart, InDoubt
<1>13. Replaces'
  <2> SUFFICES ASSUME NEW q \in Requests, NEW pair \in Replacing(q) \ loc[q].met,
                      players'[pair[2]] = "here"
               PROVE  Progress(q, pair)'
    BY <1>1, <1>9 DEF Replaces
  <2>1. pc[q] \in LinkStages /\ pc'[q] = pc[q] /\ pair \in Pairs
    BY <1>2, <1>9, Typed DEF Replacing
  <2>2. CASE pair \notin loc[r].scope
    <3>1. Progress(q, pair)
      BY <1>2, <1>8, <2>1, <2>2 DEF LinksInv, Replaces
    <3> QED BY <1>1, <2>1, <3>1 DEF Progress
  <2>3. CASE pair \in loc[r].scope
    <3>1. pair \notin parentPlayers /\ pair \notin playerViewers /\ pair \notin loc[q].target
      BY <1>2, <1>8, <2>1, <2>3 DEF LinksInv, Unborn
    <3>2. loc[q].kept \subseteq loc[q].target
      BY <2>1 DEF IInv, Shapes, Shaped
    <3> QED BY <1>1, <2>1, <3>1, <3>2 DEF Progress
  <2> QED BY <2>2, <2>3
<1>14. LinksAreAsAsked'
  <2>1. ASSUME NEW pair \in Settled' PROVE pair \in Settled \/ pair \in loc[r].scope
    <3>1. pair \in Pairs
      BY <2>1 DEF Settled
    <3> QED BY <1>1, <1>8, <1>9, <2>1, <3>1 DEF Settled
  <2>2. ASSUME NEW pair \in Pairs, pair \in loc[r].scope
        PROVE  pair \notin parentPlayers /\ pair \notin playerViewers /\ pair \notin asked
    BY <1>2, <1>8, <2>2 DEF LinksInv, Unborn
  <2>3. Settled' \subseteq Pairs
    BY DEF Settled
  <2> QED BY <1>1, <1>2, <2>1, <2>2, <2>3 DEF LinksInv, LinksAreAsAsked
<1> QED BY <1>6, <1>10, <1>11, <1>12, <1>13, <1>14 DEF IInv, LinksInv

-----------------------------------------------------------------------------
(* The replacement of links                                                *)

\* A step of one replacement: what it writes, the others know to be in doubt, and when
\* it ends, what is not in doubt is as it was asked for.
LEMMA ReplacingStep ==
  ASSUME LinksInv, Shapes, TypeOK, NEW r \in Requests, NEW scope, scope = loc[r].scope,
         pc[r] \in LinkStages \cup {"clearLegacy"}, pc'[r] \in LinkStages \cup {"idle"},
         players' = players,
         \A q \in Requests \ {r} : Alike(q) /\ Replacing(q) \cap scope \subseteq loc'[q].met,
         pc'[r] \in LinkStages =>
           /\ loc'[r].scope = scope /\ loc'[r].target = loc[r].target
           /\ \A q \in Requests \ {r} : Replacing(q) \cap scope \subseteq loc'[r].met
           /\ \A pair \in scope \ loc'[r].met :
                players[pair[2]] = "here" => Progress(r, pair)',
         pc'[r] = "idle" =>
           \A pair \in scope \ contended' : players[pair[2]] = "here" =>
             (pair \in parentPlayers' <=> pair \in asked') /\ (pair \in playerViewers' <=> pair \in asked'),
         InDoubt', contended \ scope \subseteq contended',
         parentPlayers' \subseteq parentPlayers \cup loc[r].target,
         playerViewers' \subseteq playerViewers \cup loc[r].target,
         asked' \subseteq asked \cup loc[r].target,
         parentPlayers \ scope \subseteq parentPlayers',
         playerViewers \ scope \subseteq playerViewers', asked \ scope \subseteq asked'
  PROVE  LinksInv'
<1>1. /\ loc[r].target \subseteq scope /\ loc[r].target \subseteq Pairs /\ scope \subseteq Pairs
  BY Typed DEF Shapes, Shaped
<1>2. /\ \A q \in Requests \ {r} : pc'[q] = pc[q] /\ Replacing(q)' = Replacing(q)
      /\ Replacing(r)' \subseteq scope
  BY DEF Alike, Replacing
<1>3. /\ pc[r] # "insertPlayer" /\ pc'[r] # "insertPlayer"
      /\ pc'[r] \in LinkStages \cup {"clearLegacy"} => pc'[r] \in LinkStages
  BY DEF LinkStages
<1>4. \A pair \in Pairs : pair \notin scope =>
        /\ pair \in parentPlayers' <=> pair \in parentPlayers
        /\ pair \in playerViewers' <=> pair \in playerViewers
        /\ pair \in asked' <=> pair \in asked
        /\ pair \in contended => pair \in contended'
  BY <1>1
<1>5. Unborn'
  <2> SUFFICES ASSUME NEW pair \in Pairs, players[pair[2]] = "none"
               PROVE  /\ pair \notin parentPlayers' /\ pair \notin playerViewers' /\ pair \notin asked'
                      /\ \A q \in Requests :
                           pc'[q] \in LinkStages \cup {"clearLegacy"} => pair \notin loc'[q].target
    BY DEF Unborn
  <2>1. /\ pair \notin parentPlayers /\ pair \notin playerViewers /\ pair \notin asked
        /\ \A q \in Requests : pc[q] \in LinkStages \cup {"clearLegacy"} => pair \notin loc[q].target
    BY DEF LinksInv, Unborn
  <2>2. pair \notin loc[r].target
    BY <2>1
  <2>3. ASSUME NEW q \in Requests, pc'[q] \in LinkStages \cup {"clearLegacy"}
        PROVE  pair \notin loc'[q].target
    <3>1. CASE q = r
      BY <1>3, <2>2, <2>3, <3>1
    <3>2. CASE q # r
      BY <2>1, <2>3, <3>2 DEF Alike
    <3> QED BY <3>1, <3>2
  <2> QED BY <2>1, <2>2, <2>3
<1>6. Inserts'
  <2>1. \A q \in Requests : pc'[q] = "insertPlayer" =>
          pc[q] = "insertPlayer" /\ q # r /\ loc'[q].scope = loc[q].scope
    BY <1>2, <1>3 DEF Alike
  <2> QED BY <2>1 DEF LinksInv, Inserts
<1>7. Apart'
  <2> SUFFICES ASSUME NEW q \in Requests, NEW o \in Requests, q # o,
                      NEW pair \in Replacing(q)' \cap Replacing(o)'
               PROVE  pair \in loc'[q].met
    BY DEF Apart
  <2>1. CASE q = r
    <3>1. pc'[r] \in LinkStages
      BY <2>1 DEF Replacing
    <3> QED BY <1>2, <2>1, <3>1
  <2>2. CASE q # r /\ o = r
    BY <1>2, <2>2
  <2>3. CASE q # r /\ o # r
    BY <1>2, <2>3 DEF LinksInv, Apart, Alike
  <2> QED BY <2>1, <2>2, <2>3
<1>8. Replaces'
  <2> SUFFICES ASSUME NEW q \in Requests, NEW pair \in Replacing(q)' \ loc'[q].met,
                      players[pair[2]] = "here"
               PROVE  Progress(q, pair)'
    BY DEF Replaces
  <2>1. CASE q = r
    <3>1. pc'[r] \in LinkStages /\ pair \in scope \ loc'[r].met
      BY <1>2, <2>1 DEF Replacing
    <3> QED BY <2>1, <3>1
  <2>2. CASE q # r
    <3>1. Alike(q) /\ pair \in Replacing(q) /\ pair \notin loc[q].met /\ pair \notin scope
      BY <1>2, <2>2 DEF Alike
    <3>2. pair \in Pairs
      BY <3>1, Typed DEF Replacing
    <3>3. Progress(q, pair)
      BY <3>1 DEF LinksInv, Replaces
    <3> QED BY <1>4, <3>1, <3>2, <3>3 DEF Progress, Alike
  <2> QED BY <2>1, <2>2
<1>9. LinksAreAsAsked'
  <2> SUFFICES ASSUME NEW pair \in Settled'
               PROVE  /\ pair \in parentPlayers' <=> pair \in asked'
                      /\ pair \in playerViewers' <=> pair \in asked'
    BY DEF LinksAreAsAsked
  <2>1. /\ pair \in Pairs /\ players[pair[2]] = "here" /\ pair \notin contended'
        /\ \A q \in Requests : pair \notin Replacing(q)'
    BY DEF Settled
  <2>2. CASE pair \in scope
    <3>1. pc'[r] \notin LinkStages
      BY <2>1, <2>2 DEF Replacing
    <3> QED BY <2>1, <2>2, <3>1
  <2>3. CASE pair \notin scope
    <3>1. pair \notin Replacing(r)
      BY <2>3 DEF Replacing
    <3>2. pair \in Settled
      BY <1>2, <1>4, <2>1, <2>3, <3>1 DEF Settled
    <3> QED BY <1>4, <2>1, <2>3, <3>2 DEF LinksInv, LinksAreAsAsked
  <2> QED BY <2>2, <2>3
<1> QED BY <1>5, <1>6, <1>7, <1>8, <1>9 DEF LinksInv

\* The step of a request that has begun to replace links.
LEMMA ReplaceMove ==
  ASSUME IInv, NEW r \in Requests, pc[r] \in LinkStages, NEW stage \in LinkStages \cup {"idle"},
         NEW l \in Local, Move(r, stage, l), Shaped(stage, l),
         stage \in LinkStages =>
           l.scope = loc[r].scope /\ l.target = loc[r].target /\ l.met = loc[r].met,
         UNCHANGED accounts, players' = players,
         parentPlayers' \subseteq parentPlayers \cup loc[r].target,
         playerViewers' \subseteq playerViewers \cup loc[r].target,
         asked' \subseteq asked \cup loc[r].target,
         parentPlayers \ loc[r].scope \subseteq parentPlayers',
         playerViewers \ loc[r].scope \subseteq playerViewers', asked \ loc[r].scope \subseteq asked',
         contended' \subseteq Pairs, contended \ (loc[r].scope \ loc[r].met) \subseteq contended',
         begun' \in 0..MaxBegun, failures' \in 0..MaxFailures,
         stage \in LinkStages =>
           \A pair \in loc[r].scope \ loc[r].met :
             players[pair[2]] = "here" => Progress(r, pair)',
         stage = "idle" =>
           \A pair \in loc[r].scope \ contended' : players[pair[2]] = "here" =>
             (pair \in parentPlayers' <=> pair \in asked') /\ (pair \in playerViewers' <=> pair \in asked')
  PROVE  IInv'
<1>1. /\ TypeOK /\ Shapes /\ LinksInv /\ loc[r].target \subseteq Pairs /\ loc[r].scope \subseteq Pairs
      /\ loc[r].met \subseteq contended
  BY Typed DEF IInv, LinksInv, InDoubt
<1>2. stage \in Stages /\ stage \notin RoleStages /\ pc[r] \notin RoleStages
  BY DEF Stages, RoleStages, LinkStages
<1>3. /\ players' \in [Players -> {"none", "here", "gone"}]
      /\ parentPlayers' \subseteq Pairs /\ playerViewers' \subseteq Pairs /\ asked' \subseteq Pairs
  BY <1>1 DEF TypeOK
<1>4. /\ TypeOK' /\ Shapes' /\ RolesInv' /\ pc'[r] = stage /\ loc'[r] = l
      /\ \A q \in Requests \ {r} : Alike(q) /\ loc'[q] = loc[q]
  BY <1>2, <1>3, LinkStepKeepsRoles
<1>5. \A q \in Requests \ {r} :
        Replacing(q) \cap loc[r].scope \subseteq loc[q].met /\ Replacing(q) \cap loc[r].scope \subseteq loc[r].met
  BY <1>1 DEF LinksInv, Apart, Replacing
<1>6. InDoubt'
  <2>1. ASSUME NEW q \in Requests, pc'[q] \in LinkStages, NEW pair \in loc'[q].met
        PROVE  pair \in contended'
    <3>1. CASE q = r
      BY <1>1, <1>4, <2>1, <3>1
    <3>2. CASE q # r
      <4>1. pc[q] \in LinkStages /\ pair \in loc[q].met
        BY <1>4, <2>1, <3>2 DEF Alike
      <4>2. pair \in contended /\ pair \in Replacing(q)
        BY <1>1, <4>1 DEF LinksInv, InDoubt, Shapes, Shaped, Replacing
      <4> QED BY <1>5, <3>2, <4>2
    <3> QED BY <3>1, <3>2
  <2> QED BY <2>1 DEF InDoubt
<1>7. LinksInv'
  <2>1. contended \ loc[r].scope \subseteq contended'
    OBVIOUS
  <2>2. pc'[r] \in LinkStages =>
          /\ loc'[r].scope = loc[r].scope /\ loc'[r].target = loc[r].target
          /\ \A q \in Requests \ {r} : Replacing(q) \cap loc[r].scope \subseteq loc'[r].met
          /\ \A pair \in loc[r].scope \ loc'[r].met :
               players[pair[2]] = "here" => Progress(r, pair)'
    BY <1>4, <1>5
  <2>3. \A q \in Requests \ {r} : Alike(q) /\ Replacing(q) \cap loc[r].scope \subseteq loc'[q].met
    BY <1>4, <1>5
  <2>4. pc'[r] = "idle" =>
          \A pair \in loc[r].scope \ contended' : players[pair[2]] = "here" =>
            /\ pair \in parentPlayers' <=> pair \in asked'
            /\ pair \in playerViewers' <=> pair \in asked'
    BY <1>4
  <2>5. pc'[r] \in LinkStages \cup {"idle"}
    BY <1>4
  <2> QED BY <1>1, <1>6, <2>1, <2>2, <2>3, <2>4, <2>5, ReplacingStep
<1> QED BY <1>4, <1>7 DEF IInv

\* The old links go from parent_players.
LEMMA ClearLegacyKeeps ==
  ASSUME IInv, NEW r \in Requests, ClearLegacy(r)
  PROVE  IInv'
<1> DEFINE l == loc[r]
           common == UNION {Replacing(q) \cap loc[r].scope : q \in Requests}
           kept == loc[r].target \cap (parentPlayers \cup playerViewers)
           stage == AfterClearing(loc[r].target)
           new == [loc[r] EXCEPT !.todo = loc[r].target, !.met = common, !.kept = kept]
           known(q) == loc[q].met \cup (Replacing(q) \cap loc[r].scope)
<1>1. /\ pc[r] = "clearLegacy" /\ parentPlayers' = parentPlayers \ loc[r].scope
      /\ contended' = contended \cup common /\ Goto(r, stage)
      /\ loc' = [q \in Requests |-> IF q = r THEN new ELSE [loc[q] EXCEPT !.met = known(q)]]
      /\ UNCHANGED accounts /\ players' = players /\ playerViewers' = playerViewers
      /\ asked' = asked /\ begun' = begun /\ failures' = failures
  BY DEF ClearLegacy
<1>2. TypeOK /\ Shapes /\ LinksInv /\ RolesInv
  BY DEF IInv
<1>3. \A q \in Requests : /\ Replacing(q) \subseteq Pairs /\ loc[q] \in Local
                          /\ loc[q].met \subseteq Pairs
                          /\ pc[q] \notin LinkStages => Replacing(q) = {}
                          /\ pc[q] \in LinkStages => Replacing(q) = loc[q].scope
  BY <1>2, Typed DEF Replacing
<1>4. /\ l.scope \in SUBSET Pairs /\ l.target \in SUBSET Pairs /\ l.target \subseteq l.scope
      /\ common \in SUBSET Pairs /\ common \subseteq l.scope /\ kept \in SUBSET Pairs
  BY <1>2, <1>3, Typed DEF Shapes, Shaped
<1>5. pc[r] \notin LinkStages /\ pc[r] \notin RoleStages
  BY <1>1 DEF LinkStages, RoleStages
<1>6. /\ stage \in {"clearViewers", "fillLegacy"} /\ stage \in Stages /\ stage \in LinkStages
      /\ stage \notin RoleStages /\ (stage = "clearViewers" <=> l.target = {})
  BY DEF AfterClearing, Stages, RoleStages, LinkStages
<1> HIDE DEF common, kept, stage
<1>7. /\ new \in Local /\ new.todo = l.target /\ new.met = common /\ new.kept = kept
      /\ new.target = l.target /\ new.scope = l.scope
  <2>1. loc[r] \in Local /\ loc[r].target \in SUBSET Pairs /\ common \in SUBSET Pairs
        /\ kept \in SUBSET Pairs
    BY <1>3, <1>4
  <2> DEFINE t == loc[r].target
             o == loc[r]
  <2>2. new = [o EXCEPT !.todo = t, !.met = common, !.kept = kept]
    OBVIOUS
  <2> HIDE DEF new, t, o
  <2>3. o \in Local /\ t \in SUBSET Pairs
    BY <2>1 DEF o, t
  <2>4. /\ new \in Local /\ new.todo = t /\ new.met = common /\ new.kept = kept
        /\ new.target = o.target /\ new.scope = o.scope
    BY <2>1, <2>2, <2>3 DEF Local
  <2> QED BY <2>4 DEF o, t
<1>8. \A q \in Requests :
        LET m == [loc[q] EXCEPT !.met = known(q)] IN
          /\ m \in Local /\ m.met = known(q) /\ m.user = loc[q].user /\ m.op = loc[q].op
          /\ m.role = loc[q].role /\ m.held = loc[q].held /\ m.target = loc[q].target
          /\ m.scope = loc[q].scope /\ m.todo = loc[q].todo /\ m.kept = loc[q].kept
  <2> SUFFICES ASSUME NEW q \in Requests
               PROVE  LET m == [loc[q] EXCEPT !.met = known(q)] IN
                        /\ m \in Local /\ m.met = known(q) /\ m.user = loc[q].user /\ m.op = loc[q].op
                        /\ m.role = loc[q].role /\ m.held = loc[q].held /\ m.target = loc[q].target
                        /\ m.scope = loc[q].scope /\ m.todo = loc[q].todo /\ m.kept = loc[q].kept
    OBVIOUS
  <2>1. known(q) \in SUBSET Pairs /\ loc[q] \in Local
    BY <1>3
  <2> HIDE DEF known
  <2> QED BY <2>1, UpdatesOfMet
<1> HIDE DEF new
<1>9. /\ loc' \in [Requests -> Local] /\ loc'[r] = new
      /\ pc' \in [Requests -> Stages] /\ pc'[r] = stage
      /\ \A q \in Requests \ {r} : pc'[q] = pc[q] /\ loc'[q] = [loc[q] EXCEPT !.met = known(q)]
  <2>1. pc' \in [Requests -> Stages] /\ pc'[r] = stage /\ \A q \in Requests \ {r} : pc'[q] = pc[q]
    BY <1>1, <1>2, <1>6 DEF Goto, TypeOK
  <2>2. loc' \in [Requests -> Local]
    BY <1>1, <1>7, <1>8
  <2> QED BY <1>1, <2>1, <2>2
<1>10. \A q \in Requests \ {r} : Alike(q) /\ loc'[q].met = known(q)
  <2> SUFFICES ASSUME NEW q \in Requests \ {r} PROVE Alike(q) /\ loc'[q].met = known(q)
    OBVIOUS
  <2> DEFINE m == [loc[q] EXCEPT !.met = known(q)]
  <2>1. /\ m.met = known(q) /\ m.user = loc[q].user /\ m.op = loc[q].op
        /\ m.role = loc[q].role /\ m.held = loc[q].held /\ m.target = loc[q].target
        /\ m.scope = loc[q].scope /\ m.todo = loc[q].todo /\ m.kept = loc[q].kept
    BY <1>8
  <2>2. loc'[q] = m /\ pc'[q] = pc[q] /\ loc[q].met \subseteq known(q)
    BY <1>9
  <2> HIDE DEF m, known
  <2> QED BY <2>1, <2>2 DEF Alike
<1>11. TypeOK'
  BY <1>1, <1>2, <1>4, <1>9 DEF TypeOK, accounts
<1>12. Shapes'
  <2>1. Shaped(pc'[r], loc'[r])
    BY <1>4, <1>6, <1>7, <1>9 DEF Shaped, kept
  <2>2. \A q \in Requests \ {r} : Alike(q) /\ loc'[q].met \subseteq loc[q].scope \cup loc[q].met
    BY <1>3, <1>10
  <2>3. ASSUME NEW q \in Requests \ {r}, pc[q] \notin LinkStages PROVE loc'[q] = loc[q]
    <3>1. known(q) = loc[q].met
      BY <1>3, <2>3
    <3>2. [loc[q] EXCEPT !.met = loc[q].met] = loc[q]
      BY <1>3 DEF Local
    <3> QED BY <1>9, <3>1, <3>2
  <2> QED BY <1>2, <1>11, <2>1, <2>2, <2>3, ShapesStep
<1>13. RolesInv'
  <2>1. \A u \in Users : ~ChangesRolesOf(r, u) /\ ~ChangesRolesOf(r, u)'
    BY <1>5, <1>6, <1>9 DEF ChangesRolesOf
  <2>2. torn \subseteq torn' /\ UNCHANGED <<primary, roles, granted>>
    BY <1>1 DEF accounts
  <2> QED BY <1>2, <1>10, <2>1, <2>2, RolesAside
<1>14. LinksInv'
  <2>1. \A q \in Requests : Replacing(q) \cap l.scope \subseteq common
    BY DEF common
  <2>2. \A q \in Requests \ {r} : Alike(q) /\ Replacing(q) \cap l.scope \subseteq loc'[q].met
    BY <1>10
  <2>3. InDoubt'
    <3>1. ASSUME NEW q \in Requests \ {r}, pc'[q] \in LinkStages PROVE loc'[q].met \subseteq contended'
      BY <1>1, <1>2, <1>9, <1>10, <2>1, <3>1 DEF LinksInv, InDoubt
    <3>2. loc'[r].met \subseteq contended'
      BY <1>1, <1>7, <1>9
    <3> QED BY <3>1, <3>2 DEF InDoubt
  <2>4. ASSUME NEW pair \in l.scope \ loc'[r].met, players[pair[2]] = "here"
        PROVE  Progress(r, pair)'
    <3>1. pair \notin parentPlayers' /\ pair \in Pairs /\ pair \notin common
      BY <1>1, <1>4, <1>7, <1>9
    <3>2. ASSUME pair \in kept, pair \notin contended' PROVE pair \in playerViewers'
      <4>1. pair \in Settled
        BY <1>1, <2>1, <2>4, <3>1, <3>2 DEF Settled
      <4> QED BY <1>1, <1>2, <3>2, <4>1 DEF LinksInv, LinksAreAsAsked, kept
    <3> QED BY <1>6, <1>7, <1>9, <3>1, <3>2 DEF Progress
  <2>5. /\ loc'[r].scope = l.scope /\ loc'[r].target = loc[r].target
        /\ \A q \in Requests \ {r} : Replacing(q) \cap l.scope \subseteq loc'[r].met
    BY <1>7, <1>9, <2>1
  <2>6. /\ pc[r] \in LinkStages \cup {"clearLegacy"} /\ pc'[r] \in LinkStages \cup {"idle"}
        /\ pc'[r] # "idle" /\ players' = players
        /\ contended \ l.scope \subseteq contended'
        /\ parentPlayers' \subseteq parentPlayers \cup loc[r].target
        /\ playerViewers' \subseteq playerViewers \cup loc[r].target
        /\ asked' \subseteq asked \cup loc[r].target
        /\ parentPlayers \ l.scope \subseteq parentPlayers'
        /\ playerViewers \ l.scope \subseteq playerViewers' /\ asked \ l.scope \subseteq asked'
    BY <1>1, <1>6, <1>9
  <2> QED BY <1>2, <2>2, <2>3, <2>4, <2>5, <2>6, ReplacingStep
<1> QED BY <1>11, <1>12, <1>13, <1>14 DEF IInv

\* What a request that replaces links knows of itself.
LEMMA Replacement ==
  ASSUME IInv, NEW r \in Requests, pc[r] \in LinkStages
  PROVE  /\ TypeOK /\ loc[r] \in Local /\ Shaped(pc[r], loc[r]) /\ Replacing(r) = loc[r].scope
         /\ loc[r].scope \in SUBSET Pairs /\ loc[r].target \in SUBSET Pairs
         /\ loc[r].todo \in SUBSET Pairs /\ loc[r].target \subseteq loc[r].scope
         /\ loc[r].todo \subseteq loc[r].target /\ loc[r].kept \subseteq loc[r].target
         /\ loc[r].met \subseteq contended
         /\ \A pair \in loc[r].scope \ loc[r].met :
              pair \in Pairs /\ (players[pair[2]] = "here" => Progress(r, pair))
<1>1. TypeOK /\ loc[r] \in Local /\ Shaped(pc[r], loc[r]) /\ Replacing(r) = loc[r].scope
  BY Typed DEF IInv, Shapes, Replacing
<1>2. /\ loc[r].scope \in SUBSET Pairs /\ loc[r].target \in SUBSET Pairs
      /\ loc[r].todo \in SUBSET Pairs
  BY <1>1, Typed
<1>3. /\ loc[r].target \subseteq loc[r].scope
      /\ loc[r].todo \subseteq loc[r].target /\ loc[r].kept \subseteq loc[r].target
  BY <1>1 DEF Shaped
<1>4. loc[r].met \subseteq contended
  BY DEF IInv, LinksInv, InDoubt
<1>5. \A pair \in loc[r].scope \ loc[r].met :
        pair \in Pairs /\ (players[pair[2]] = "here" => Progress(r, pair))
  BY <1>1, <1>2 DEF IInv, LinksInv, Replaces
<1> QED BY <1>1, <1>2, <1>3, <1>4, <1>5

\* A replacement that is given up leaves its links in doubt.
LEMMA AbandonKeeps ==
  ASSUME IInv, NEW r \in Requests, pc[r] \in LinkStages, Abandon(r), UNCHANGED accounts,
         players' = players, parentPlayers' = parentPlayers, playerViewers' = playerViewers,
         asked' = asked, begun' \in 0..MaxBegun, failures' \in 0..MaxFailures
  PROVE  IInv'
<1>1. /\ Replacing(r) = loc[r].scope /\ loc[r].scope \in SUBSET Pairs /\ TypeOK
  BY Replacement
<1>2. Move(r, "idle", NoLocals) /\ contended' = contended \cup loc[r].scope
  BY <1>1 DEF Abandon, Finish, Move
<1>3. Shaped("idle", NoLocals) /\ NoLocals \in Local /\ "idle" \notin LinkStages
  BY EmptyLocals DEF Shaped, RoleStages, LinkStages
<1>4. contended' \subseteq Pairs
  BY <1>1, <1>2 DEF TypeOK
<1> QED BY <1>2, <1>3, <1>4, ReplaceMove

\* One row of parent_players, or the end of the request.
LEMMA FillLegacyKeeps ==
  ASSUME IInv, NEW r \in Requests, NEW pair \in Pairs, FillLegacy(r, pair)
  PROVE  IInv'
<1> DEFINE l == loc[r]
           todo == loc[r].todo \ {pair}
           new == [loc[r] EXCEPT !.todo = todo]
           stage == IF loc[r].todo = {pair} THEN "clearViewers" ELSE "fillLegacy"
<1>1. /\ pc[r] = "fillLegacy" /\ pc[r] \in LinkStages /\ pair \in l.todo
      /\ UNCHANGED accounts /\ players' = players /\ playerViewers' = playerViewers
      /\ asked' = asked /\ begun' = begun /\ failures' = failures
  BY DEF FillLegacy, LinkStages
<1>2. /\ TypeOK /\ l \in Local /\ Shaped(pc[r], l)
      /\ l.scope \in SUBSET Pairs /\ l.target \in SUBSET Pairs /\ l.todo \in SUBSET Pairs
      /\ l.target \subseteq l.scope /\ l.todo \subseteq l.target /\ l.kept \subseteq l.target
      /\ \A one \in l.scope \ l.met :
           one \in Pairs /\ (players[one[2]] = "here" => Progress(r, one))
  BY <1>1, Replacement
<1>3. begun' \in 0..MaxBegun /\ failures' \in 0..MaxFailures
  BY <1>1, <1>2 DEF TypeOK
<1>4. CASE Refuses(parentPlayers, pair)
  <2>1. Abandon(r) /\ parentPlayers' = parentPlayers
    BY <1>4 DEF FillLegacy
  <2> QED BY <1>1, <1>3, <2>1, AbandonKeeps
<1>5. CASE ~Refuses(parentPlayers, pair)
  <2>1. /\ parentPlayers' = parentPlayers \cup {pair} /\ contended' = contended
        /\ loc' = [loc EXCEPT ![r].todo = todo] /\ Goto(r, stage)
    BY <1>5 DEF FillLegacy
  <2>2. Move(r, stage, new)
    BY <1>2, <2>1 DEF Move, Goto, TypeOK
  <2>3. todo \in SUBSET Pairs /\ stage \in LinkStages /\ stage \notin RoleStages /\ stage # "insertPlayer"
    BY <1>2 DEF LinkStages, RoleStages
  <2> HIDE DEF todo
  <2>4. /\ new \in Local /\ new.todo = todo /\ new.target = l.target /\ new.scope = l.scope
        /\ new.met = l.met /\ new.kept = l.kept
    BY <1>2, <2>3, UpdatesOfTodo
  <2> HIDE DEF new
  <2>5. Shaped(stage, new)
    BY <1>1, <1>2, <2>3, <2>4 DEF Shaped, todo
  <2>6. pc'[r] = stage /\ loc'[r] = new
    BY <1>2, <2>2, <2>3, <2>4 DEF Move, TypeOK
  <2>7. ASSUME NEW one \in l.scope \ l.met, players[one[2]] = "here" PROVE Progress(r, one)'
    <3>1. Progress(r, one)
      BY <1>2, <2>7
    <3>2. /\ one \in parentPlayers <=> one \in l.target \ l.todo
          /\ one \in l.kept \ contended => one \in playerViewers
      BY <1>1, <3>1 DEF Progress
    <3>3. one \in parentPlayers' <=> one \in l.target \ todo
      BY <1>1, <1>2, <2>1, <3>2 DEF todo
    <3>4. stage = "clearViewers" => todo = {}
      BY <1>1 DEF todo
    <3> QED BY <1>1, <2>1, <2>4, <2>6, <3>2, <3>3, <3>4 DEF Progress
  <2>8. /\ parentPlayers' \subseteq parentPlayers \cup l.target
        /\ parentPlayers \subseteq parentPlayers' /\ contended' \subseteq Pairs
    BY <1>1, <1>2, <2>1 DEF TypeOK
  <2>9. stage # "idle"
    OBVIOUS
  <2> QED BY <1>1, <1>2, <1>3, <2>1, <2>2, <2>3, <2>4, <2>5, <2>7, <2>8, <2>9, ReplaceMove
<1> QED BY <1>4, <1>5

\* The last step of a replacement, when the rows of player_viewers are as they should be.
LEMMA ReplacedKeeps ==
  ASSUME IInv, NEW r \in Requests, pc[r] \in {"clearViewers", "fillViewers"}, Replaced(r),
         UNCHANGED accounts, players' = players, parentPlayers' = parentPlayers,
         begun' = begun, failures' = failures,
         playerViewers' \subseteq playerViewers \cup loc[r].target,
         playerViewers \ loc[r].scope \subseteq playerViewers',
         \A one \in loc[r].scope \ loc[r].met : players[one[2]] = "here" =>
           (one \in playerViewers' <=> one \in loc[r].target)
  PROVE  IInv'
<1>1. pc[r] \in LinkStages
  BY DEF LinkStages
<1>2. /\ TypeOK /\ loc[r].scope \in SUBSET Pairs /\ loc[r].target \in SUBSET Pairs
      /\ loc[r].target \subseteq loc[r].scope /\ loc[r].met \subseteq contended
      /\ \A one \in loc[r].scope \ loc[r].met :
           one \in Pairs /\ (players[one[2]] = "here" => Progress(r, one))
  BY <1>1, Replacement
<1>3. /\ asked' = (asked \ loc[r].scope) \cup loc[r].target
      /\ contended' = contended \ (loc[r].scope \ loc[r].met) /\ Move(r, "idle", NoLocals)
  BY DEF Replaced, Finish, Move
<1>4. begun' \in 0..MaxBegun /\ failures' \in 0..MaxFailures /\ contended' \subseteq Pairs
  BY <1>2, <1>3 DEF TypeOK
<1>5. Shaped("idle", NoLocals) /\ NoLocals \in Local /\ "idle" \notin LinkStages
  BY EmptyLocals DEF Shaped, RoleStages, LinkStages
<1>6. ASSUME NEW one \in loc[r].scope \ contended', players[one[2]] = "here"
      PROVE  (one \in parentPlayers' <=> one \in asked') /\ (one \in playerViewers' <=> one \in asked')
  <2>1. one \in loc[r].scope \ loc[r].met
    BY <1>2, <1>3, <1>6
  <2>2. one \in parentPlayers <=> one \in loc[r].target
    BY <1>2, <1>6, <2>1 DEF Progress
  <2> QED BY <1>3, <1>6, <2>1, <2>2
<1>7. asked' \subseteq asked \cup loc[r].target /\ asked \ loc[r].scope \subseteq asked'
  BY <1>3
<1> QED BY <1>1, <1>3, <1>4, <1>5, <1>6, <1>7, ReplaceMove

\* The old links go from player_viewers.
LEMMA ClearViewersKeeps ==
  ASSUME IInv, NEW r \in Requests, ClearViewers(r)
  PROVE  IInv'
<1> DEFINE l == loc[r]
           new == [loc[r] EXCEPT !.todo = loc[r].target]
<1>1. /\ pc[r] = "clearViewers" /\ pc[r] \in LinkStages /\ playerViewers' = playerViewers \ l.scope
      /\ UNCHANGED accounts /\ players' = players /\ parentPlayers' = parentPlayers
      /\ begun' = begun /\ failures' = failures
  BY DEF ClearViewers, LinkStages
<1>2. /\ TypeOK /\ l \in Local /\ Shaped(pc[r], l)
      /\ l.scope \in SUBSET Pairs /\ l.target \in SUBSET Pairs
      /\ l.target \subseteq l.scope /\ l.kept \subseteq l.target
      /\ \A one \in l.scope \ l.met :
           one \in Pairs /\ (players[one[2]] = "here" => Progress(r, one))
  BY <1>1, Replacement
<1>3. CASE l.target = {}
  <2>1. Replaced(r)
    BY <1>3 DEF ClearViewers
  <2>2. playerViewers' \subseteq playerViewers \cup l.target
        /\ playerViewers \ l.scope \subseteq playerViewers'
    BY <1>1
  <2>3. \A one \in l.scope \ l.met : players[one[2]] = "here" =>
          (one \in playerViewers' <=> one \in l.target)
    BY <1>1, <1>3
  <2> QED BY <1>1, <2>1, <2>2, <2>3, ReplacedKeeps
<1>4. CASE l.target # {}
  <2>1. /\ Goto(r, "fillViewers") /\ loc' = [loc EXCEPT ![r].todo = l.target]
        /\ asked' = asked /\ contended' = contended
    BY <1>4 DEF ClearViewers
  <2>2. Move(r, "fillViewers", new)
    BY <1>2, <2>1 DEF Move, Goto, TypeOK
  <2>3. /\ new \in Local /\ new.todo = l.target /\ new.target = l.target /\ new.scope = l.scope
        /\ new.met = l.met /\ new.kept = l.kept
    BY <1>2, UpdatesOfTodo
  <2> HIDE DEF new
  <2>4. "fillViewers" \in LinkStages /\ "fillViewers" \notin RoleStages /\ "fillViewers" \in Stages
    BY DEF LinkStages, RoleStages, Stages
  <2>5. Shaped("fillViewers", new)
    BY <1>1, <1>2, <2>3, <2>4 DEF Shaped
  <2>6. pc'[r] = "fillViewers" /\ loc'[r] = new
    BY <1>2, <2>2, <2>3, <2>4 DEF Move, TypeOK
  <2>7. ASSUME NEW one \in l.scope \ l.met, players[one[2]] = "here" PROVE Progress(r, one)'
    <3>1. one \in parentPlayers <=> one \in l.target
      BY <1>1, <1>2, <2>7 DEF Progress
    <3> QED BY <1>1, <2>3, <2>6, <2>7, <3>1 DEF Progress
  <2>8. /\ playerViewers' \subseteq playerViewers \cup l.target
        /\ playerViewers \ l.scope \subseteq playerViewers' /\ contended' \subseteq Pairs
        /\ begun' \in 0..MaxBegun /\ failures' \in 0..MaxFailures
    BY <1>1, <1>2, <2>1 DEF TypeOK
  <2> QED BY <1>1, <2>1, <2>2, <2>3, <2>4, <2>5, <2>7, <2>8, ReplaceMove
<1> QED BY <1>3, <1>4

\* One row of player_viewers, perhaps the last, or the end of the request.
LEMMA FillViewersKeeps ==
  ASSUME IInv, NEW r \in Requests, NEW pair \in Pairs, FillViewers(r, pair)
  PROVE  IInv'
<1> DEFINE l == loc[r]
           todo == loc[r].todo \ {pair}
           new == [loc[r] EXCEPT !.todo = todo]
<1>1. /\ pc[r] = "fillViewers" /\ pc[r] \in LinkStages /\ pair \in l.todo
      /\ UNCHANGED accounts /\ players' = players /\ parentPlayers' = parentPlayers
      /\ begun' = begun /\ failures' = failures
  BY DEF FillViewers, LinkStages
<1>2. /\ TypeOK /\ l \in Local /\ Shaped(pc[r], l)
      /\ l.scope \in SUBSET Pairs /\ l.target \in SUBSET Pairs /\ l.todo \in SUBSET Pairs
      /\ l.target \subseteq l.scope /\ l.todo \subseteq l.target /\ l.kept \subseteq l.target
      /\ \A one \in l.scope \ l.met :
           one \in Pairs /\ (players[one[2]] = "here" => Progress(r, one))
  BY <1>1, Replacement
<1>3. begun' \in 0..MaxBegun /\ failures' \in 0..MaxFailures
  BY <1>1, <1>2 DEF TypeOK
<1>4. CASE Refuses(playerViewers, pair)
  <2>1. Abandon(r) /\ playerViewers' = playerViewers /\ asked' = asked
    BY <1>4 DEF FillViewers
  <2> QED BY <1>1, <1>3, <2>1, AbandonKeeps
<1>5. CASE ~Refuses(playerViewers, pair)
  <2>1. playerViewers' = playerViewers \cup {pair}
    BY <1>5 DEF FillViewers
  <2>2. /\ playerViewers' \subseteq playerViewers \cup l.target
        /\ playerViewers \ l.scope \subseteq playerViewers'
    BY <1>1, <1>2, <2>1
  <2>3. ASSUME NEW one \in l.scope \ l.met, players[one[2]] = "here"
        PROVE  /\ one \in parentPlayers <=> one \in l.target
               /\ one \in playerViewers' <=> one \in l.target \ todo
    <3>1. /\ one \in parentPlayers <=> one \in l.target
          /\ one \in playerViewers <=> one \in l.target \ l.todo
      BY <1>1, <1>2, <2>3 DEF Progress
    <3> QED BY <1>1, <1>2, <2>1, <3>1
  <2>4. CASE l.todo = {pair}
    <3>1. Replaced(r)
      BY <1>5, <2>4 DEF FillViewers
    <3>2. todo = {}
      BY <2>4
    <3>3. \A one \in l.scope \ l.met : players[one[2]] = "here" =>
            (one \in playerViewers' <=> one \in l.target)
      BY <2>3, <3>2
    <3> QED BY <1>1, <2>2, <3>1, <3>3, ReplacedKeeps
  <2>5. CASE l.todo # {pair}
    <3>1. /\ loc' = [loc EXCEPT ![r].todo = todo] /\ pc' = pc
          /\ asked' = asked /\ contended' = contended
      BY <1>5, <2>5 DEF FillViewers
    <3>2. Move(r, "fillViewers", new)
      BY <1>1, <1>2, <3>1 DEF Move, TypeOK
    <3>3. todo \in SUBSET Pairs
      BY <1>2
    <3> HIDE DEF todo
    <3>4. /\ new \in Local /\ new.todo = todo /\ new.target = l.target /\ new.scope = l.scope
          /\ new.met = l.met /\ new.kept = l.kept
      BY <1>2, <3>3, UpdatesOfTodo
    <3> HIDE DEF new
    <3>5. "fillViewers" \in LinkStages /\ "fillViewers" \notin RoleStages /\ "fillViewers" \in Stages
      BY DEF LinkStages, RoleStages, Stages
    <3>6. Shaped("fillViewers", new)
      BY <1>1, <1>2, <3>4, <3>5 DEF Shaped, todo
    <3>7. pc'[r] = "fillViewers" /\ loc'[r] = new
      BY <1>2, <3>2, <3>4, <3>5 DEF Move, TypeOK
    <3>8. ASSUME NEW one \in l.scope \ l.met, players[one[2]] = "here" PROVE Progress(r, one)'
      BY <1>1, <2>3, <3>4, <3>7, <3>8 DEF Progress
    <3>9. contended' \subseteq Pairs
      BY <1>2, <3>1 DEF TypeOK
    <3> QED BY <1>1, <1>3, <2>2, <3>1, <3>2, <3>4, <3>5, <3>6, <3>8, <3>9, ReplaceMove
  <2> QED BY <2>4, <2>5
<1> QED BY <1>4, <1>5

-----------------------------------------------------------------------------
(* Transactions, and failures                                              *)

\* A step of no request.
LEMMA StandStill ==
  ASSUME RolesInv, Shapes, UNCHANGED accounts,
         \A q \in Requests : Alike(q) /\ loc'[q].met \subseteq loc[q].scope \cup loc[q].met,
         \A q \in Requests : pc[q] \notin LinkStages => loc'[q] = loc[q]
  PROVE  RolesInv' /\ Shapes'
<1>1. Shapes'
  <2>1. ASSUME NEW q \in Requests PROVE Shaped(pc'[q], loc'[q])
    <3>1. Shaped(pc[q], loc[q])
      BY DEF Shapes
    <3> QED BY <2>1, <3>1 DEF Shaped, Alike, LinkStages
  <2> QED BY <2>1 DEF Shapes
<1>2. RolesInv'
  <2>1. torn' = torn /\ \A u \in Users : SameUser(u)
    BY DEF accounts, SameUser
  <2> SUFFICES ASSUME NEW u \in Users \ torn PROVE RolesOf(u)'
    BY <2>1 DEF RolesInv
  <2>2. RolesOf(u)
    BY DEF RolesInv
  <2>3. \A q \in Requests : /\ ChangesRolesOf(q, u)' <=> ChangesRolesOf(q, u)
                            /\ Following(q, u) => Following(q, u)'
    BY <2>1, OthersChange
  <2>4. Calm(u) => Calm(u)'
    BY <2>1 DEF Calm, SameUser
  <2> QED BY <2>2, <2>3, <2>4 DEF RolesOf
<1> QED BY <1>1, <1>2

\* A player and its link appear at once.
LEMMA CreateLinkedKeeps ==
  ASSUME IInv, NEW p \in Players, NEW u \in Users, createLinkedPlayerForParent(p, u)
  PROVE  IInv'
<1> DEFINE pair == <<u, p>>
           known(q) == loc[q].met \cup (Replacing(q) \cap {pair})
           common == UNION {Replacing(q) \cap {pair} : q \in Requests}
<1>1. /\ begun < MaxBegun /\ begun' = begun + 1 /\ Fresh(p)
      /\ players' = [players EXCEPT ![p] = "here"]
      /\ parentPlayers' = parentPlayers \cup {pair} /\ playerViewers' = playerViewers \cup {pair}
      /\ asked' = asked \cup {pair} /\ contended' = contended \cup common
      /\ loc' = [q \in Requests |-> [loc[q] EXCEPT !.met = known(q)]]
      /\ UNCHANGED accounts /\ pc' = pc /\ failures' = failures
  BY DEF createLinkedPlayerForParent, Contend
<1>2. TypeOK /\ Shapes /\ LinksInv /\ RolesInv
  BY DEF IInv
<1>3. \A q \in Requests : /\ Replacing(q) \subseteq Pairs /\ loc[q] \in Local
                          /\ loc[q].met \subseteq Pairs
                          /\ pc[q] \notin LinkStages => Replacing(q) = {}
                          /\ pc[q] \in LinkStages => Replacing(q) = loc[q].scope
  BY <1>2, Typed DEF Replacing
<1>4. pair \in Pairs /\ pair[2] = p /\ players[p] = "none"
  BY <1>1 DEF Pairs, Fresh
<1>5. \A o \in Pairs : /\ players'[o[2]] = IF o[2] = p THEN "here" ELSE players[o[2]]
                       /\ o[2] \in Players
  BY <1>1, <1>2 DEF Pairs, TypeOK
<1>6. common \subseteq Pairs /\ \A q \in Requests : Replacing(q) \cap {pair} \subseteq common
  BY <1>3
<1> HIDE DEF common
<1>7. ASSUME NEW q \in Requests
      PROVE  /\ loc'[q] \in Local /\ Alike(q) /\ loc'[q].met = known(q)
             /\ pc[q] \notin LinkStages => loc'[q] = loc[q]
  <2> DEFINE m == [loc[q] EXCEPT !.met = known(q)]
  <2>1. known(q) \in SUBSET Pairs /\ loc[q] \in Local /\ loc[q].met \subseteq known(q)
    BY <1>3
  <2>2. pc[q] \notin LinkStages => m = loc[q]
    <3>1. ASSUME pc[q] \notin LinkStages PROVE known(q) = loc[q].met
      BY <1>3, <3>1
    <3>2. [loc[q] EXCEPT !.met = loc[q].met] = loc[q]
      BY <1>3 DEF Local
    <3> QED BY <3>1, <3>2
  <2> HIDE DEF known
  <2>3. /\ m \in Local /\ m.met = known(q) /\ m.user = loc[q].user /\ m.op = loc[q].op
        /\ m.role = loc[q].role /\ m.held = loc[q].held /\ m.target = loc[q].target
        /\ m.scope = loc[q].scope /\ m.todo = loc[q].todo /\ m.kept = loc[q].kept
    BY <2>1, UpdatesOfMet
  <2>4. loc'[q] = m /\ pc'[q] = pc[q]
    BY <1>1
  <2> HIDE DEF m
  <2> QED BY <2>1, <2>2, <2>3, <2>4 DEF Alike
<1>8. loc' = [q \in Requests |-> loc'[q]]
  BY <1>1
<1> HIDE DEF pair
<1>9. TypeOK'
  <2>1. loc' \in [Requests -> Local]
    BY <1>7, <1>8
  <2>2. begun' \in 0..MaxBegun
    BY <1>1, <1>2, FamilyAssumption DEF TypeOK
  <2> QED BY <1>1, <1>2, <1>4, <1>6, <2>1, <2>2 DEF TypeOK, accounts
<1>10. Shapes' /\ RolesInv'
  <2>1. \A q \in Requests : Alike(q) /\ loc'[q].met \subseteq loc[q].scope \cup loc[q].met
    BY <1>3, <1>7
  <2> QED BY <1>1, <1>2, <1>7, <2>1, StandStill
<1>11. \A q \in Requests : Replacing(q)' = Replacing(q) /\ loc'[q].scope = loc[q].scope
                           /\ loc'[q].target = loc[q].target
  BY <1>1, <1>7 DEF Replacing, Alike
<1>12. \A o \in Pairs : players[o[2]] = "none" =>
         /\ o \notin parentPlayers /\ o \notin playerViewers /\ o \notin asked
         /\ \A q \in Requests : pc[q] \in LinkStages => o \notin loc[q].target
  BY <1>2 DEF LinksInv, Unborn
<1>13. Unborn'
  <2>1. ASSUME NEW o \in Pairs, players'[o[2]] = "none" PROVE players[o[2]] = "none" /\ o # pair
    BY <1>4, <1>5, <2>1
  <2> QED BY <1>1, <1>2, <1>11, <2>1 DEF LinksInv, Unborn
<1>14. Inserts'
  <2>1. ASSUME NEW q \in Requests, pc[q] = "insertPlayer", NEW o \in loc[q].scope
        PROVE  players'[o[2]] = "none"
    <3>1. PICK other \in Players : loc[q].scope = Users \X {other}
      BY <1>2, <2>1 DEF Shapes, Shaped
    <3>2. loc[q].scope # Users \X {p}
      BY <1>1, <2>1 DEF Fresh
    <3>3. o \in Pairs /\ o[2] = other /\ other # p
      BY <2>1, <3>1, <3>2 DEF Pairs
    <3>4. players[o[2]] = "none"
      BY <1>2, <2>1 DEF LinksInv, Inserts
    <3> QED BY <1>5, <3>3, <3>4
  <2>2. ASSUME NEW q \in Requests, NEW o \in Requests, pc[q] = "insertPlayer",
               pc[o] = "insertPlayer", loc[o].scope = loc[q].scope
        PROVE  q = o
    BY <1>2, <2>2 DEF LinksInv, Inserts
  <2>3. pc' = pc /\ \A q \in Requests : loc'[q].scope = loc[q].scope
    BY <1>1, <1>11
  <2> QED BY <2>1, <2>2, <2>3 DEF Inserts
<1>15. Apart'
  BY <1>2, <1>7, <1>11 DEF LinksInv, Apart, Alike
<1>16. InDoubt'
  BY <1>1, <1>2, <1>6, <1>7 DEF LinksInv, InDoubt
<1>17. Replaces'
  <2> SUFFICES ASSUME NEW q \in Requests, NEW o \in Replacing(q) \ known(q),
                      players'[o[2]] = "here"
               PROVE  Progress(q, o)'
    BY <1>7, <1>11 DEF Replaces
  <2>1. /\ o \in Pairs /\ o # pair /\ o \notin loc[q].met /\ pc[q] \in LinkStages
        /\ loc[q].kept \subseteq loc[q].target
    BY <1>2, <1>3 DEF Shapes, Shaped
  <2>2. CASE o[2] = p
    <3>1. o \notin parentPlayers /\ o \notin playerViewers /\ o \notin loc[q].target
      BY <1>4, <1>12, <2>1, <2>2
    <3> QED BY <1>1, <1>7, <2>1, <3>1 DEF Progress, Alike
  <2>3. CASE o[2] # p
    <3>1. players[o[2]] = "here"
      BY <1>5, <2>1, <2>3
    <3>2. Progress(q, o)
      BY <1>2, <2>1, <3>1 DEF LinksInv, Replaces
    <3> QED BY <1>1, <1>7, <2>1, <3>2 DEF Progress, Alike
  <2> QED BY <2>2, <2>3
<1>18. LinksAreAsAsked'
  <2> SUFFICES ASSUME NEW o \in Settled'
               PROVE  /\ o \in parentPlayers' <=> o \in asked'
                      /\ o \in playerViewers' <=> o \in asked'
    BY DEF LinksAreAsAsked
  <2>1. o \in Pairs /\ players'[o[2]] = "here" /\ o \notin contended
        /\ \A q \in Requests : o \notin Replacing(q)
    BY <1>1, <1>11 DEF Settled
  <2>2. CASE o[2] = p
    BY <1>1, <1>4, <1>12, <2>1, <2>2
  <2>3. CASE o[2] # p
    <3>1. o \in Settled
      BY <1>5, <2>1, <2>3 DEF Settled
    <3> QED BY <1>1, <1>2, <3>1 DEF LinksInv, LinksAreAsAsked
  <2> QED BY <2>2, <2>3
<1> QED BY <1>9, <1>10, <1>13, <1>14, <1>15, <1>16, <1>17, <1>18 DEF IInv, LinksInv

\* A player goes, and what was linked to it.
LEMMA DeletePlayerKeeps ==
  ASSUME IInv, NEW p \in Players, deletePlayer(p)
  PROVE  IInv'
<1>1. /\ begun < MaxBegun /\ begun' = begun + 1 /\ players[p] = "here"
      /\ players' = [players EXCEPT ![p] = "gone"]
      /\ parentPlayers' = parentPlayers \ (Users \X {p})
      /\ playerViewers' = playerViewers \ (Users \X {p})
      /\ asked' = asked \ (Users \X {p}) /\ contended' = contended
      /\ UNCHANGED accounts /\ pc' = pc /\ loc' = loc /\ failures' = failures
  BY DEF deletePlayer
<1>2. TypeOK /\ Shapes /\ LinksInv /\ RolesInv
  BY DEF IInv
<1>3. \A o \in Pairs :
        /\ players'[o[2]] = IF o[2] = p THEN "gone" ELSE players[o[2]]
        /\ o[2] # p => o \notin Users \X {p}
  BY <1>1, <1>2 DEF Pairs, TypeOK
<1>4. TypeOK'
  <2>1. begun' \in 0..MaxBegun
    BY <1>1, <1>2, FamilyAssumption DEF TypeOK
  <2> QED BY <1>1, <1>2, <2>1 DEF TypeOK, accounts
<1>5. Shapes' /\ RolesInv'
  BY <1>1, <1>2, StandStill DEF Alike
<1>6. \A q \in Requests : Replacing(q)' = Replacing(q)
  BY <1>1 DEF Replacing
<1>7. Unborn'
  BY <1>1, <1>2, <1>3 DEF LinksInv, Unborn
<1>8. Inserts'
  <2>1. ASSUME NEW q \in Requests, pc[q] = "insertPlayer", NEW o \in loc[q].scope
        PROVE  players'[o[2]] = "none"
    <3>1. o \in Pairs /\ players[o[2]] = "none"
      BY <1>2, <2>1, Typed DEF LinksInv, Inserts
    <3> QED BY <1>1, <1>3, <3>1
  <2> QED BY <1>1, <1>2, <2>1 DEF LinksInv, Inserts
<1>9. Apart' /\ InDoubt'
  BY <1>1, <1>2, <1>6 DEF LinksInv, Apart, InDoubt
<1>10. ASSUME NEW o \in Pairs, players'[o[2]] = "here"
       PROVE  /\ players[o[2]] = "here" /\ (o \in parentPlayers' <=> o \in parentPlayers)
              /\ (o \in playerViewers' <=> o \in playerViewers) /\ (o \in asked' <=> o \in asked)
  BY <1>1, <1>3, <1>10
<1>11. Replaces'
  <2> SUFFICES ASSUME NEW q \in Requests, NEW o \in Replacing(q) \ loc[q].met,
                      players'[o[2]] = "here"
               PROVE  Progress(q, o)'
    BY <1>1, <1>6 DEF Replaces
  <2>1. o \in Pairs
    BY <1>2, Typed DEF Replacing
  <2>2. Progress(q, o)
    BY <1>2, <1>10, <2>1 DEF LinksInv, Replaces
  <2> QED BY <1>1, <1>10, <2>1, <2>2 DEF Progress
<1>12. LinksAreAsAsked'
  <2> SUFFICES ASSUME NEW o \in Settled'
               PROVE  /\ o \in parentPlayers' <=> o \in asked'
                      /\ o \in playerViewers' <=> o \in asked'
    BY DEF LinksAreAsAsked
  <2>1. o \in Pairs /\ players'[o[2]] = "here" /\ o \notin contended
        /\ \A q \in Requests : o \notin Replacing(q)
    BY <1>1, <1>6 DEF Settled
  <2>2. o \in Settled
    BY <1>10, <2>1 DEF Settled
  <2> QED BY <1>2, <1>10, <2>1, <2>2 DEF LinksInv, LinksAreAsAsked
<1> QED BY <1>4, <1>5, <1>7, <1>8, <1>9, <1>11, <1>12 DEF IInv, LinksInv

\* A request fails: what it was changing is in doubt.
LEMMA FailKeeps ==
  ASSUME IInv, NEW r \in Requests, Fail(r)
  PROVE  IInv'
<1>1. /\ Abandon(r) /\ torn' = torn \cup {u \in Users : ChangesRolesOf(r, u)}
      /\ UNCHANGED <<primary, roles, granted>> /\ players' = players
      /\ parentPlayers' = parentPlayers /\ playerViewers' = playerViewers
      /\ asked' = asked /\ begun' = begun /\ failures' = failures + 1 /\ failures < MaxFailures
  BY DEF Fail
<1>2. TypeOK
  BY DEF IInv
<1>3. begun' \in 0..MaxBegun /\ failures' \in 0..MaxFailures
  BY <1>1, <1>2, FamilyAssumption DEF TypeOK
<1>4. Move(r, "idle", NoLocals) /\ contended' = contended \cup Replacing(r)
  BY <1>1 DEF Abandon, Finish, Move
<1>5. /\ Shaped("idle", NoLocals) /\ NoLocals \in Local /\ "idle" \notin LinkStages
      /\ "idle" \notin RoleStages /\ "idle" \in Stages
  BY EmptyLocals DEF Shaped, RoleStages, LinkStages, Stages
<1>6. pc[r] \notin RoleStages => UNCHANGED accounts
  <2>1. pc[r] \notin RoleStages => \A u \in Users : ~ChangesRolesOf(r, u)
    BY DEF ChangesRolesOf
  <2>2. pc[r] \notin RoleStages => torn' = torn
    BY <1>1, <2>1
  <2> QED BY <1>1, <2>2 DEF accounts
<1>7. CASE pc[r] \in LinkStages
  <2>1. pc[r] \notin RoleStages
    BY <1>7 DEF LinkStages, RoleStages
  <2> QED BY <1>1, <1>3, <1>6, <1>7, <2>1, AbandonKeeps
<1>8. CASE pc[r] \notin LinkStages
  <2>1. UNCHANGED links
    BY <1>1, <1>4, <1>8 DEF links, Replacing
  <2>2. CASE pc[r] \notin RoleStages
    BY <1>3, <1>4, <1>5, <1>6, <1>8, <2>1, <2>2, IdleLinkStepKeeps
  <2>3. CASE pc[r] \in RoleStages
    <3>1. /\ pc' \in [Requests -> Stages] /\ loc' \in [Requests -> Local]
          /\ pc'[r] = "idle" /\ loc'[r] = NoLocals
          /\ \A q \in Requests \ {r} : Alike(q) /\ loc'[q] = loc[q]
      BY <1>2, <1>4, <1>5, MoveEffect
    <3>2. TypeOK'
      BY <1>1, <1>2, <1>3, <2>1, <3>1 DEF TypeOK, links
    <3>3. Shapes'
      BY <1>5, <3>1, <3>2, ShapesStep DEF IInv
    <3>4. ASSUME NEW u \in Users \ torn'
          PROVE  ~ChangesRolesOf(r, u) /\ ~ChangesRolesOf(r, u)' /\ SameUser(u)
      BY <1>1, <1>5, <3>1, <3>4 DEF ChangesRolesOf, SameUser
    <3>5. RolesInv'
      BY <1>1, <3>1, <3>4, RolesStep DEF IInv
    <3> QED BY <1>8, <2>1, <3>1, <3>2, <3>3, <3>5, RoleStepKeeps
  <2> QED BY <2>2, <2>3
<1> QED BY <1>7, <1>8

-----------------------------------------------------------------------------
(* The invariant                                                           *)

LEMMA InitIInv == Init => IInv
<1> SUFFICES ASSUME Init PROVE IInv
  OBVIOUS
<1>1. /\ roles \in [Users -> SUBSET Roles] /\ \A u \in Users : "parent" \in roles[u]
      /\ primary = [u \in Users |-> "parent"] /\ "parent" \in Roles
      /\ players \in [Players -> {"none", "here"}] /\ granted = roles /\ torn = {}
  BY FamilyAssumption DEF Init
<1>2. /\ parentPlayers \subseteq Pairs /\ playerViewers = parentPlayers /\ asked = parentPlayers
      /\ contended = {} /\ \A pair \in parentPlayers : players[pair[2]] = "here"
  BY DEF Init
<1>3. /\ pc = [r \in Requests |-> "idle"] /\ loc = [r \in Requests |-> NoLocals]
      /\ begun = 0 /\ failures = 0
  BY DEF Init
<1>4. TypeOK
  <2>1. "idle" \in Stages /\ begun \in 0..MaxBegun /\ failures \in 0..MaxFailures
    BY <1>3, FamilyAssumption DEF Stages
  <2> QED BY <1>1, <1>2, <1>3, <2>1, EmptyLocals DEF TypeOK
<1>5. Shapes
  <2>1. Shaped("idle", NoLocals)
    BY EmptyLocals DEF Shaped, RoleStages, LinkStages
  <2> QED BY <1>3, <2>1 DEF Shapes
<1>6. \A r \in Requests : /\ pc[r] \notin RoleStages /\ pc[r] \notin LinkStages
                          /\ pc[r] # "insertPlayer" /\ pc[r] # "clearLegacy"
  BY <1>3 DEF RoleStages, LinkStages
<1>7. RolesInv
  BY <1>1, <1>6 DEF RolesInv, RolesOf, ChangesRolesOf, Calm
<1>8. LinksInv
  <2>1. \A r \in Requests : Replacing(r) = {}
    BY <1>6 DEF Replacing
  <2>2. Unborn /\ Inserts /\ Apart /\ InDoubt /\ Replaces
    BY <1>2, <1>6, <2>1 DEF Unborn, Inserts, Apart, InDoubt, Replaces
  <2>3. LinksAreAsAsked
    BY <1>2 DEF LinksAreAsAsked
  <2> QED BY <2>2, <2>3 DEF LinksInv
<1> QED BY <1>4, <1>5, <1>7, <1>8 DEF IInv

\* A step that changes nothing.
LEMMA StutterKeeps ==
  ASSUME IInv, UNCHANGED vars
  PROVE  IInv'
<1>1. /\ primary' = primary /\ roles' = roles /\ granted' = granted /\ torn' = torn
      /\ players' = players /\ parentPlayers' = parentPlayers /\ playerViewers' = playerViewers
      /\ asked' = asked /\ contended' = contended
      /\ pc' = pc /\ loc' = loc /\ begun' = begun /\ failures' = failures
  BY DEF vars, accounts, links
<1>2. TypeOK' /\ Shapes'
  BY <1>1 DEF IInv, TypeOK, Shapes
<1>3. RolesInv'
  BY <1>1 DEF IInv, RolesInv, RolesOf, ChangesRolesOf, Following, Calm
<1>4. Unborn' /\ Inserts' /\ Apart' /\ InDoubt'
  BY <1>1 DEF IInv, LinksInv, Unborn, Inserts, Apart, InDoubt, Replacing
<1>5. Replaces'
  BY <1>1 DEF IInv, LinksInv, Replaces, Replacing, Progress
<1>6. LinksAreAsAsked'
  BY <1>1 DEF IInv, LinksInv, LinksAreAsAsked, Settled, Replacing
<1> QED BY <1>2, <1>3, <1>4, <1>5, <1>6 DEF IInv, LinksInv

LEMMA NextIInv == ASSUME IInv, [Next]_vars PROVE IInv'
<1>1. ASSUME NEW r \in Requests, NEW u \in Users, NEW role \in Roles,
             assignRole(r, u, role) \/ removeRole(r, u, role)
      PROVE  IInv'
  BY <1>1, RoleRequestsBegin
<1>2. ASSUME NEW r \in Requests, NEW u \in Users, NEW role \in Roles \cup {"none"},
             NEW joins \in BOOLEAN, NEW linked \in SUBSET Players,
             updateUser(r, u, role, joins, linked)
      PROVE  IInv'
  BY <1>2, RoleRequestsBegin
<1>3. ASSUME NEW r \in Requests, NEW p \in Players, NEW parents \in SUBSET Users,
             createPlayer(r, p, parents) \/ updatePlayer(r, p, parents)
      PROVE  IInv'
  BY <1>3, LinkRequestsBegin
<1>4. ASSUME NEW r \in Requests, NEW p \in Players, NEW u \in Users, enrollChild(r, p, u)
      PROVE  IInv'
  BY <1>4, LinkRequestsBegin
<1>5. ASSUME NEW r \in Requests, getUserRoles(r) \/ PrimaryForRoles(r) PROVE IInv'
  BY <1>5, ReadsKeep
<1>6. ASSUME NEW r \in Requests,
             AssignWrite(r) \/ RemoveWrite(r) \/ ReplaceRemove(r) \/ ReplaceAssign(r)
      PROVE  IInv'
  BY <1>6, HeldWritesKeep
<1>7. ASSUME NEW r \in Requests, syncPrimaryRoleColumn(r) \/ replacePrimaryRole(r) PROVE IInv'
  BY <1>7, PrimaryWritesKeep
<1>8. ASSUME NEW r \in Requests, assertPlayersInTenant(r) PROVE IInv'
  BY <1>8, CheckKeeps
<1>9. ASSUME NEW r \in Requests, InsertPlayer(r) PROVE IInv'
  BY <1>9, InsertPlayerKeeps
<1>10. ASSUME NEW r \in Requests, ClearLegacy(r) PROVE IInv'
  BY <1>10, ClearLegacyKeeps
<1>11. ASSUME NEW r \in Requests, ClearViewers(r) PROVE IInv'
  BY <1>11, ClearViewersKeeps
<1>12. ASSUME NEW r \in Requests, NEW pair \in Pairs, FillLegacy(r, pair) PROVE IInv'
  BY <1>12, FillLegacyKeeps
<1>13. ASSUME NEW r \in Requests, NEW pair \in Pairs, FillViewers(r, pair) PROVE IInv'
  BY <1>13, FillViewersKeeps
<1>14. ASSUME NEW r \in Requests, Fail(r) PROVE IInv'
  BY <1>14, FailKeeps
<1>15. ASSUME NEW p \in Players, deletePlayer(p) PROVE IInv'
  BY <1>15, DeletePlayerKeeps
<1>16. ASSUME NEW p \in Players, NEW u \in Users, createLinkedPlayerForParent(p, u) PROVE IInv'
  BY <1>16, CreateLinkedKeeps
<1>17. CASE UNCHANGED vars
  BY <1>17, StutterKeeps
<1> QED BY <1>1, <1>2, <1>3, <1>4, <1>5, <1>6, <1>7, <1>8, <1>9, <1>10, <1>11, <1>12, <1>13,
           <1>14, <1>15, <1>16, <1>17 DEF Next

LEMMA Invariance == Spec => []IInv
<1>1. Init => IInv
  BY InitIInv
<1>2. IInv /\ [Next]_vars => IInv'
  BY NextIInv
<1> QED BY <1>1, <1>2, PTL DEF Spec

-----------------------------------------------------------------------------
(* Theorems                                                                *)

\* The state of users, roles, links and requests is always of its type: every statement
\* of user-role-management.service.ts, player.service.ts and tenant-user.service.ts
\* writes what the columns can hold, and the primary role is a role.
THEOREM TypeCorrect == Spec => []TypeOK
<1>1. IInv => TypeOK
  BY DEF IInv
<1> QED BY <1>1, Invariance, PTL

\* Both tables of links hold what the requests asked for, but for links in doubt: who
\* has access to a player and who is notified of it are the same, whatever requests
\* overlap (syncParents, syncPlayersForParent, createLinkedPlayerForParent, deletePlayer).
THEOREM TablesAgree == Spec => []LinksAreAsAsked
<1>1. IInv => LinksAreAsAsked
  BY DEF IInv, LinksInv
<1> QED BY <1>1, Invariance, PTL

\* A parent that a replacement keeps has access all through it: player_viewers has the
\* link until parent_players has it again.
THEOREM ParentsKeepAccess == Spec => []KeptParentsKeepAccess
<1>1. ASSUME IInv, NEW r \in Requests, pc[r] \in LinkStages,
             NEW pair \in loc[r].kept \ contended, players[pair[2]] = "here"
      PROVE  pair \in parentPlayers \cup playerViewers
  <2>1. /\ loc[r].target \subseteq loc[r].scope /\ loc[r].kept \subseteq loc[r].target
        /\ loc[r].met \subseteq contended
        /\ \A one \in loc[r].scope \ loc[r].met :
             one \in Pairs /\ (players[one[2]] = "here" => Progress(r, one))
    BY <1>1, Replacement
  <2>2. Progress(r, pair) /\ pair \in loc[r].target
    BY <1>1, <2>1
  <2> QED BY <1>1, <2>2 DEF Progress, LinkStages
<1>2. IInv => KeptParentsKeepAccess
  BY <1>1 DEF KeptParentsKeepAccess
<1> QED BY <1>2, Invariance, PTL

\* Roles in force are those given and not taken since, and the primary role is one of
\* them, for every user whose roles no two requests changed at once and no request left
\* half-way changed (assignRole, removeRole, replacePrimaryRole).
THEOREM RolesFollowRequests == Spec => []RolesAreAsGranted
<1>1. IInv => RolesAreAsGranted
  BY DEF IInv, RolesInv, RolesOf, Calm, RolesAreAsGranted
<1> QED BY <1>1, Invariance, PTL
=============================================================================
