---------------------------- MODULE RosterProofs ----------------------------
(***************************************************************************)
(* What holds of Roster for any number of players, of categories, of       *)
(* concurrent requests and of failures, and any limits of the plan.        *)
(***************************************************************************)
EXTENDS Roster, FiniteSetTheorems, TLAPS

-----------------------------------------------------------------------------
(* The inductive invariant                                                 *)

PlayerStages == {"assign", "eligible", "count", "discount", "category", "activate", "status",
                 "columns", "approve", "reject", "reason", "attend", "delete"}

\* A request on a player is about one player, and holds what it is to write.
Shaped(stage, l) ==
  /\ stage \in PlayerStages => \E p \in Players : l.id = {p}
  /\ stage \in {"assign", "status"} => l.next \in Settable
  /\ stage = "status" => l.next # "active"
  /\ stage \in {"usage", "setCategory"} => l.next \in {"active", "inactive"}
Shape(r) == Shaped(pc[r], loc[r])
Shapes == \A r \in Requests : Shape(r)

\* The requests that the plan has let through: those that will activate a player ...
Passed == {r \in Requests : \/ pc[r] \in {"category", "activate", "approve"}
                            \/ pc[r] = "discount" /\ loc[r].count < MaxPlayers}
Targets == UNION {loc[r].id : r \in Passed}

\* ... and those that will insert one.
Creating == {r \in Requests : pc[r] \in {"newCategory", "insert"}}

\* With these counted in, the plan is exceeded by no more than the other requests.
Room == Cardinality(Active \cup Targets) + Cardinality(Creating)
          <= MaxPlayers + Cardinality(Requests) - 1

\* What a request relies on as long as nobody writes its player.
Trusts(r) ==
  /\ pc[r] = "reason" => loc[r].id \cap Active = {}
  /\ pc[r] = "delete" => loc[r].id \cap history = {}
Trusted == \A r \in Requests : loc[r].stale \/ Trusts(r)

IInv == TypeOK /\ Shapes /\ Room /\ Trusted /\ RejectedStaysOut

\* A step of one request leaves the others as they are, but that they may become stale.
Others(r) ==
  \A q \in Requests \ {r} :
    pc'[q] = pc[q] /\ (loc'[q] = loc[q] \/ loc'[q] = [loc[q] EXCEPT !.stale = TRUE])

-----------------------------------------------------------------------------
(* Types                                                                   *)

Slots == pc \in [Requests -> Stages] /\ loc \in [Requests -> Local]
Maybe == Categories \cup {NoCategory}

LEMMA EmptyLocals == NoLocals \in Local
BY DEF NoLocals, Local, Settable

LEMMA EmptyPlayer == NoPlayer \in Row /\ NoPlayer.status = "none" /\ ~NoPlayer.rejected
BY DEF NoPlayer, Row, Settable

LEMMA EmptyFields == NoLocals.id = {} /\ NoLocals.stale = FALSE
BY DEF NoLocals

\* Fields of a request, one by one.
LEMMA LocalUpdates ==
  ASSUME NEW l \in Local, NEW i \in SUBSET Players, NEW c \in Maybe, NEW n \in Int,
         NEW s \in Settable
  PROVE  /\ l.id \subseteq Players
         /\ LET m == [l EXCEPT !.stale = TRUE]
            IN m \in Local /\ m.stale /\ m.id = l.id /\ m.next = l.next /\ m.count = l.count
         /\ LET m == [l EXCEPT !.count = n]
            IN m \in Local /\ m.count = n /\ m.id = l.id /\ m.next = l.next /\ m.stale = l.stale
         /\ LET m == [l EXCEPT !.id = i] IN m \in Local /\ m.id = i /\ m.stale = l.stale
         /\ LET m == [l EXCEPT !.to = c] IN m \in Local /\ m.id = l.id /\ m.stale = l.stale
                                           /\ m.next = l.next
         /\ LET m == [l EXCEPT !.to = c, !.next = s] IN m \in Local /\ m.next = s
                                           /\ m.stale = l.stale
BY DEF Local, Maybe

\* What an edit of a player holds.
LEMMA EditIsTyped ==
  ASSUME NEW p \in Existing, NEW next \in Settable, NEW writes \in BOOLEAN, NEW c \in Maybe,
         player \in [Players -> Row]
  PROVE  /\ Edit(p, next, writes, c) \in Local
         /\ Edit(p, next, writes, c).id = {p} /\ Edit(p, next, writes, c).next = next
<1> DEFINE to == IF writes THEN c ELSE player[p].category
<1>1. p \in Players /\ player[p].status \in Settable /\ player[p].category \in Maybe
  BY DEF Existing, Row, Maybe
<1>2. to \in Maybe
  BY <1>1
<1> HIDE DEF to
<1>3. Edit(p, next, writes, c)
        = [NoLocals EXCEPT !.id = {p}, !.before = player[p].status, !.next = next,
             !.writes = writes, !.from = player[p].category, !.sets = c, !.to = to]
  BY DEF Edit, to
<1> DEFINE before == player[p].status
           from == player[p].category
<1> HIDE DEF before, from
<1>4. before \in Settable /\ from \in Maybe
  BY <1>1 DEF before, from
<1>5. LET m == [NoLocals EXCEPT !.id = {p}, !.before = before, !.next = next,
             !.writes = writes, !.from = from, !.sets = c, !.to = to]
      IN  m \in Local /\ m.id = {p} /\ m.next = next
  BY <1>1, <1>2, <1>4, EmptyLocals, EmptyFields DEF Local, Maybe
<1> QED
  BY <1>3, <1>5 DEF before, from

\* Rows as the requests write them.
LEMMA RowUpdates ==
  ASSUME NEW row \in Row, NEW c \in Maybe, NEW s \in Settable, NEW b \in BOOLEAN
  PROVE  /\ [row EXCEPT !.status = s] \in Row /\ [row EXCEPT !.status = s].status = s
         /\ LET new == [row EXCEPT !.rejected = b]
            IN new \in Row /\ new.status = row.status
         /\ LET new == [row EXCEPT !.category = c]
            IN new \in Row /\ new.status = row.status /\ new.rejected = row.rejected
         /\ LET new == [row EXCEPT !.status = s, !.rejected = b]
            IN new \in Row /\ new.status = s /\ new.rejected = b
         /\ LET new == [row EXCEPT !.status = s, !.category = c]
            IN new \in Row /\ new.status = s /\ new.rejected = row.rejected
         /\ LET new == [status |-> s, rejected |-> b, category |-> c]
            IN new \in Row /\ new.status = s /\ new.rejected = b
         /\ row.category \in Maybe /\ row.rejected \in BOOLEAN
BY DEF Row, Maybe

LEMMA GoneRow ==
  /\ [NoPlayer EXCEPT !.status = "gone"] \in Row
  /\ [NoPlayer EXCEPT !.status = "gone"].status = "gone"
BY EmptyPlayer DEF Row

-----------------------------------------------------------------------------
(* What the steps have in common                                           *)

LEMMA BeginEffect ==
  ASSUME Slots, NEW r \in Requests, NEW stage \in Stages, NEW l \in Local, Begin(r, stage, l)
  PROVE  Slots' /\ Others(r) /\ pc'[r] = stage /\ loc'[r] = l
BY DEF Begin, Slots, Others

LEMMA ReadEffect ==
  ASSUME Slots, NEW r \in Requests, NEW stage \in Stages, NEW passes, Read(r, passes, stage)
  PROVE  /\ Slots' /\ Others(r)
         /\ \/ passes /\ pc'[r] = stage /\ loc'[r] = loc[r]
            \/ ~passes /\ pc'[r] = "idle" /\ loc'[r] = NoLocals
<1>1. CASE passes
  BY <1>1 DEF Read, Slots, Others
<1>2. CASE ~passes
  BY <1>2, EmptyLocals DEF Read, Slots, Others, Stages
<1> QED BY <1>1, <1>2

LEMMA WriteEffect ==
  ASSUME Slots, NEW r \in Requests, NEW p, NEW row, NEW stage \in Stages, Write(r, p, row, stage)
  PROVE  /\ Slots' /\ Others(r)
         /\ pc'[r] = stage
         /\ loc'[r] = (IF stage = "idle" THEN NoLocals ELSE loc[r])
         /\ \A q \in Requests \ {r} : p \in loc[q].id => loc'[q].stale = TRUE
<1>1. /\ pc' = [pc EXCEPT ![r] = stage]
      /\ loc' = [q \in Requests |->
           IF q = r THEN IF stage = "idle" THEN NoLocals ELSE loc[r]
           ELSE IF ReliesOn(q, p, row) THEN [loc[q] EXCEPT !.stale = TRUE]
           ELSE loc[q]]
  BY DEF Write
<1>2. \A q \in Requests : /\ loc[q] \in Local /\ [loc[q] EXCEPT !.stale = TRUE] \in Local
                           /\ [loc[q] EXCEPT !.stale = TRUE].stale = TRUE
  BY DEF Slots, Local
<1>3. \A q \in Requests : loc'[q] \in Local
  BY <1>1, <1>2, EmptyLocals
<1>4. \A q \in Requests \ {r} : p \in loc[q].id => loc'[q] = [loc[q] EXCEPT !.stale = TRUE]
  BY <1>1 DEF ReliesOn
<1>5. \A q \in Requests \ {r} : loc'[q] = loc[q] \/ loc'[q] = [loc[q] EXCEPT !.stale = TRUE]
  BY <1>1
<1>6. loc' \in [Requests -> Local]
  BY <1>1, <1>3
<1>7. pc' \in [Requests -> Stages] /\ pc'[r] = stage /\ \A q \in Requests \ {r} : pc'[q] = pc[q]
  BY <1>1 DEF Slots
<1> QED
  BY <1>1, <1>2, <1>4, <1>5, <1>6, <1>7 DEF Slots, Others

\* The others keep what they hold.
LEMMA OthersHold ==
  ASSUME Slots, NEW r \in Requests, Others(r), NEW q \in Requests \ {r}
  PROVE  /\ pc'[q] = pc[q] /\ loc'[q].id = loc[q].id /\ loc'[q].next = loc[q].next
         /\ loc'[q].count = loc[q].count
         /\ loc'[q].stale = loc[q].stale \/ loc'[q].stale = TRUE
<1>1. /\ loc[q] \in Local
      /\ LET m == [loc[q] EXCEPT !.stale = TRUE]
         IN m.stale = TRUE /\ m.id = loc[q].id /\ m.next = loc[q].next /\ m.count = loc[q].count
  BY DEF Slots, Local
<1> QED BY <1>1 DEF Others

LEMMA ShapesStep ==
  ASSUME Slots, Shapes, NEW r \in Requests, Others(r), Shape(r)'
  PROVE  Shapes'
<1> SUFFICES ASSUME NEW q \in Requests \ {r} PROVE Shape(q)'
  BY DEF Shapes
<1>1. Shape(q)
  BY DEF Shapes
<1> QED BY <1>1, OthersHold DEF Shape, Shaped

\* Players become active, and histories begin, only where the request that looked is told.
LEMMA TrustedStep ==
  ASSUME Slots, Trusted, NEW r \in Requests, Others(r), loc'[r].stale \/ Trusts(r)',
         \A q \in Requests \ {r} :
           /\ pc[q] = "reason" /\ loc'[q].stale # TRUE => loc[q].id \cap Active' \subseteq Active
           /\ pc[q] = "delete" /\ loc'[q].stale # TRUE => loc[q].id \cap history' \subseteq history
  PROVE  Trusted'
<1> SUFFICES ASSUME NEW q \in Requests \ {r}, loc'[q].stale # TRUE PROVE Trusts(q)'
  BY DEF Trusted
<1>1. ~loc[q].stale /\ pc'[q] = pc[q] /\ loc'[q].id = loc[q].id
  BY OthersHold
<1>2. Trusts(q)
  BY <1>1 DEF Trusted
<1>3. /\ pc[q] = "reason" => loc[q].id \cap Active' \subseteq Active
      /\ pc[q] = "delete" => loc[q].id \cap history' \subseteq history
  OBVIOUS
<1>4. pc'[q] = "reason" => loc'[q].id \cap Active' = {}
  BY <1>1, <1>2, <1>3 DEF Trusts
<1>5. pc'[q] = "delete" => loc'[q].id \cap history' = {}
  BY <1>1, <1>2, <1>3 DEF Trusts
<1> QED BY <1>4, <1>5 DEF Trusts

-----------------------------------------------------------------------------
(* The plan                                                                *)

\* The player that request r is let to activate.
Mine(r) == IF r \in Passed THEN loc[r].id ELSE {}

LEMMA PlanSets ==
  ASSUME Slots
  PROVE  /\ IsFiniteSet(Active) /\ IsFiniteSet(Targets) /\ IsFiniteSet(Active \cup Targets)
         /\ IsFiniteSet(Passed) /\ IsFiniteSet(Creating)
         /\ Cardinality(Active \cup Targets) \in Nat /\ Cardinality(Creating) \in Nat
         /\ Cardinality(Active) \in Nat /\ Cardinality(Targets) \in Nat
         /\ Cardinality(Passed) \in Nat /\ Cardinality(Requests) \in Nat
<1>1. Active \subseteq Players /\ Targets \subseteq Players
  BY DEF Active, Targets, Passed, Slots, Local
<1>2. Passed \subseteq Requests /\ Creating \subseteq Requests
  BY DEF Passed, Creating
<1>3. IsFiniteSet(Active) /\ IsFiniteSet(Targets) /\ IsFiniteSet(Active \cup Targets)
  BY <1>1, FS_Subset, RosterAssumption
<1>4. IsFiniteSet(Passed) /\ IsFiniteSet(Creating)
  BY <1>2, FS_Subset, RosterAssumption
<1> QED
  BY <1>3, <1>4, FS_CardinalityType, RosterAssumption

\* There are no more targets than requests that have them.
LEMMA OneTargetEach ==
  ASSUME Slots, Shapes
  PROVE  Cardinality(Targets) <= Cardinality(Passed)
<1> DEFINE f == [p \in Targets |-> CHOOSE r \in Passed : p \in loc[r].id]
<1>1. \A p \in Targets : f[p] \in Passed /\ p \in loc[f[p]].id
  BY DEF Targets
<1>2. \A r \in Passed : \E p \in Players : loc[r].id = {p}
  BY DEF Shapes, Shape, Shaped, Passed, PlayerStages
<1>3. f \in [Targets -> Passed]
  BY <1>1
<1>4. \A p, q \in Targets : f[p] = f[q] => p = q
  BY <1>1, <1>2
<1> HIDE DEF f
<1>5. f \in Injection(Targets, Passed)
  BY <1>3, <1>4 DEF Injection, IsInjective
<1> QED
  BY <1>5, PlanSets, FS_Injection

\* A step that adds nobody to those active or to be so.
LEMMA Narrow ==
  ASSUME Slots, Slots', Room, NEW r \in Requests, Others(r),
         Active' \subseteq Active \cup Mine(r),
         r \in Passed' => loc'[r].id \subseteq Active \cup Mine(r),
         r \in Creating' => r \in Creating
  PROVE  Room'
<1>1. Creating' \subseteq Creating
  BY OthersHold DEF Creating
<1>2. Mine(r) \subseteq Targets
  BY DEF Mine, Targets
<1>3. \A q \in Passed' : loc'[q].id \subseteq Active \cup Targets
  <2> SUFFICES ASSUME NEW q \in Passed' PROVE loc'[q].id \subseteq Active \cup Targets
    OBVIOUS
  <2>1. CASE q = r
    BY <1>2, <2>1
  <2>2. CASE q # r
    <3>1. q \in Requests \ {r}
      BY <2>2 DEF Passed
    <3>2. q \in Passed /\ loc'[q].id = loc[q].id
      BY <3>1, OthersHold DEF Passed
    <3> QED BY <3>2 DEF Targets
  <2> QED BY <2>1, <2>2
<1>4. Targets' \subseteq Active \cup Targets
  BY <1>3 DEF Targets
<1>5. (Active \cup Targets)' \subseteq Active \cup Targets
  BY <1>2, <1>4
<1>6. Cardinality(Creating') <= Cardinality(Creating)
  BY <1>1, PlanSets, FS_Subset
<1>b. IsFiniteSet(Creating') /\ IsFiniteSet((Active \cup Targets)')
  BY <1>1, <1>5, PlanSets, FS_Subset
<1>7. Cardinality((Active \cup Targets)') <= Cardinality(Active \cup Targets)
  BY <1>5, PlanSets, FS_Subset
<1>8. Cardinality((Active \cup Targets)') \in Nat /\ Cardinality(Creating') \in Nat
  BY <1>b, FS_CardinalityType
<1> QED
  BY <1>6, <1>7, <1>8, PlanSets, RosterAssumption DEF Room

\* A player is inserted: active instead of to be so.
LEMMA Insert ==
  ASSUME Slots, Slots', Room, NEW r \in Requests, Others(r), NEW p,
         Active' \subseteq Active \cup {p}, r \in Creating, pc'[r] = "idle"
  PROVE  Room'
<1>1. Creating' \subseteq Creating \ {r}
  BY OthersHold DEF Creating
<1>2. \A q \in Passed' : loc'[q].id \subseteq Targets
  <2> SUFFICES ASSUME NEW q \in Passed' PROVE loc'[q].id \subseteq Targets
    OBVIOUS
  <2>1. q \in Requests \ {r}
    BY DEF Passed
  <2>2. q \in Passed /\ loc'[q].id = loc[q].id
    BY <2>1, OthersHold DEF Passed
  <2> QED BY <2>2 DEF Targets
<1>3. (Active \cup Targets)' \subseteq (Active \cup Targets) \cup {p}
  BY <1>2 DEF Targets
<1>4. /\ IsFiniteSet((Active \cup Targets) \cup {p})
      /\ Cardinality((Active \cup Targets) \cup {p}) <= Cardinality(Active \cup Targets) + 1
  <2> DEFINE S == Active \cup Targets
  <2>1. IsFiniteSet(S) /\ Cardinality(S) \in Nat
    BY PlanSets
  <2> HIDE DEF S
  <2>2. /\ IsFiniteSet(S \cup {p})
        /\ Cardinality(S \cup {p}) = Cardinality(S) \/ Cardinality(S \cup {p}) = Cardinality(S) + 1
    BY <2>1, FS_AddElement, Zenon
  <2> QED BY <2>1, <2>2 DEF S
<1>5. /\ IsFiniteSet(Creating \ {r})
      /\ Cardinality(Creating \ {r}) = Cardinality(Creating) - 1
  BY PlanSets, FS_RemoveElement
<1>6. /\ IsFiniteSet(Creating')
      /\ Cardinality(Creating') <= Cardinality(Creating \ {r})
  BY <1>1, <1>5, FS_Subset
<1>7. /\ IsFiniteSet((Active \cup Targets)')
      /\ Cardinality((Active \cup Targets)') <= Cardinality((Active \cup Targets) \cup {p})
  BY <1>3, <1>4, FS_Subset
<1>8. Cardinality((Active \cup Targets)') \in Nat /\ Cardinality(Creating') \in Nat
  BY <1>6, <1>7, FS_CardinalityType
<1>9. /\ Cardinality((Active \cup Targets) \cup {p}) \in Nat
      /\ Cardinality(Creating \ {r}) \in Nat
  BY <1>4, <1>5, FS_CardinalityType
<1> QED
  BY <1>4, <1>5, <1>6, <1>7, <1>8, <1>9, PlanSets, RosterAssumption DEF Room

\* A request is let through: the plan has room for it, and for one player of every other.
LEMMA Admit ==
  ASSUME Slots, Shapes, Cardinality(Active) < MaxPlayers
  PROVE  Room
<1>1. Passed \subseteq Requests /\ Creating \subseteq Requests /\ Passed \cap Creating = {}
  BY DEF Passed, Creating
<1>2. Cardinality(Passed \cup Creating) <= Cardinality(Requests)
  BY <1>1, FS_Subset, RosterAssumption
<1>3. Cardinality(Passed \cup Creating) = Cardinality(Passed) + Cardinality(Creating)
  <2>1. Cardinality(Passed \cap Creating) = 0
    BY <1>1, FS_EmptySet, Zenon
  <2>2. Cardinality(Passed \cup Creating)
          = Cardinality(Passed) + Cardinality(Creating) - Cardinality(Passed \cap Creating)
    BY PlanSets, FS_Union, Zenon
  <2> QED BY <2>1, <2>2, PlanSets
<1>4. Cardinality(Active \cup Targets)
        = Cardinality(Active) + Cardinality(Targets) - Cardinality(Active \cap Targets)
  BY PlanSets, FS_Union
<1>5. Cardinality(Active \cap Targets) \in Nat
  <2>1. IsFiniteSet(Active \cap Targets)
    BY PlanSets, FS_Subset
  <2> QED BY <2>1, FS_CardinalityType
<1> QED
  BY <1>2, <1>3, <1>4, <1>5, OneTargetEach, PlanSets, RosterAssumption DEF Room

\* The same after a step.
LEMMA Admitted == (Slots /\ Shapes /\ Cardinality(Active) < MaxPlayers => Room)'
<1>1. Slots /\ Shapes /\ Cardinality(Active) < MaxPlayers => Room
  BY Admit
<1> QED
  BY <1>1, PTL

LEMMA RoomIsEnough ==
  ASSUME Slots, Room
  PROVE  PlanHoldsButForRaces
<1>1. Cardinality(Active) <= Cardinality(Active \cup Targets)
  BY PlanSets, FS_Subset
<1> QED
  BY <1>1, PlanSets, RosterAssumption DEF Room, PlanHoldsButForRaces

-----------------------------------------------------------------------------
(* The steps of a request                                                  *)

LEMMA Typed == IInv => Slots
BY DEF IInv, TypeOK, Slots

LEMMA BeginPreserves ==
  ASSUME IInv, NEW r \in Requests, NEW stage \in Stages, NEW l \in Local, Begin(r, stage, l),
         Shaped(stage, l),
         stage \notin {"reason", "discount", "category", "activate", "approve", "insert"},
         stage = "delete" => l.id \cap history = {},
         stage = "newCategory" => Cardinality(Active) < MaxPlayers
  PROVE  IInv'
<1>1. Slots /\ Slots' /\ Others(r) /\ pc'[r] = stage /\ loc'[r] = l
  BY Typed, BeginEffect
<1>2. /\ player' = player /\ history' = history /\ exposed' = exposed
      /\ category' = category /\ failures' = failures /\ begun' \in 0 .. MaxBegun
  BY RosterAssumption DEF Begin, IInv, TypeOK
<1>3. Active' = Active /\ Existing' = Existing
  BY <1>2 DEF Active, Existing
<1>4. TypeOK' /\ RejectedStaysOut'
  BY <1>1, <1>2, <1>3 DEF IInv, TypeOK, Slots, RejectedStaysOut
<1>5. Shapes'
  BY <1>1, ShapesStep DEF IInv, Shape
<1>6. Trusted'
  <2>1. Trusts(r)'
    BY <1>1, <1>2 DEF Trusts
  <2> QED BY <1>1, <1>2, <1>3, <2>1, TrustedStep DEF IInv
<1>7. Room'
  <2>1. CASE stage = "newCategory"
    BY <1>1, <1>3, <1>5, <2>1, Admitted
  <2>2. CASE stage # "newCategory"
    <3>1. r \notin Passed' /\ r \notin Creating'
      BY <1>1, <2>2 DEF Passed, Creating
    <3> QED BY <1>1, <1>3, <3>1, Narrow DEF IInv
  <2> QED BY <2>1, <2>2
<1> QED BY <1>4, <1>5, <1>6, <1>7 DEF IInv

LEMMA ReadPreserves ==
  ASSUME IInv, NEW r \in Requests, NEW stage \in Stages, NEW passes, Read(r, passes, stage),
         passes => Shaped(stage, loc[r]),
         stage \notin {"reason", "delete", "discount", "newCategory"},
         stage = "insert" => r \in Creating,
         passes /\ stage \in {"category", "activate", "approve"}
           => loc[r].id \subseteq Active \cup Mine(r)
  PROVE  IInv'
<1>1. Slots /\ Slots' /\ Others(r)
  BY Typed, ReadEffect
<1>2. \/ passes /\ pc'[r] = stage /\ loc'[r] = loc[r]
      \/ ~passes /\ pc'[r] = "idle" /\ loc'[r] = NoLocals
  BY <1>1, ReadEffect
<1>3. /\ player' = player /\ history' = history /\ exposed' = exposed
      /\ category' = category /\ failures' = failures /\ begun' = begun
  BY DEF Read
<1>4. Active' = Active /\ Existing' = Existing
  BY <1>3 DEF Active, Existing
<1>5. TypeOK' /\ RejectedStaysOut'
  BY <1>1, <1>3, <1>4 DEF IInv, TypeOK, Slots, RejectedStaysOut
<1>6. Shapes'
  <2>1. Shape(r)'
    BY <1>2 DEF Shape, Shaped, PlayerStages
  <2> QED BY <1>1, <2>1, ShapesStep DEF IInv
<1>7. Trusted'
  <2>1. Trusts(r)'
    BY <1>2 DEF Trusts
  <2> QED BY <1>1, <1>3, <1>4, <2>1, TrustedStep DEF IInv
<1>8. Room'
  <2>1. r \in Passed' => loc'[r].id \subseteq Active \cup Mine(r)
    BY <1>2 DEF Passed
  <2>2. r \in Creating' => r \in Creating
    BY <1>2 DEF Creating
  <2> QED BY <1>1, <1>4, <2>1, <2>2, Narrow DEF IInv
<1> QED BY <1>5, <1>6, <1>7, <1>8 DEF IInv

LEMMA WritePreserves ==
  ASSUME IInv, NEW r \in Requests, NEW p \in Players, NEW row \in Row, NEW stage \in Stages,
         Write(r, p, row, stage), row.status \in Settable,
         stage \in {"idle", "columns", "reason"},
         stage # "idle" => loc[r].id = {p} /\ r \notin Creating,
         stage = "reason" => row.status # "active",
         row.status = "active" =>
           \/ p \in Active
           \/ r \in Passed /\ p \in loc[r].id
           \/ r \in Creating,
         row.status = "active" /\ row.rejected => p \in exposed \/ loc[r].stale
  PROVE  IInv'
<1>1. /\ Slots /\ Slots' /\ Others(r) /\ pc'[r] = stage
      /\ loc'[r] = (IF stage = "idle" THEN NoLocals ELSE loc[r])
      /\ \A q \in Requests \ {r} : p \in loc[q].id => loc'[q].stale = TRUE
  BY Typed, WriteEffect
<1>2. /\ player' = [player EXCEPT ![p] = row]
      /\ exposed' = IF row.status # "active" THEN exposed \ {p}
                    ELSE IF loc[r].stale \/ ApprovesWithNull(r) THEN exposed \cup {p} ELSE exposed
      /\ history' = history /\ category' = category /\ failures' = failures /\ begun' = begun
  BY DEF Write
<1>3. player \in [Players -> Row] /\ history \subseteq Existing /\ exposed \subseteq Active
  BY DEF IInv, TypeOK
<1>4. /\ player' \in [Players -> Row] /\ player'[p] = row
      /\ \A q \in Players \ {p} : player'[q] = player[q]
  BY <1>2, <1>3
<1>5. Active' = IF row.status = "active" THEN Active \cup {p} ELSE Active \ {p}
  BY <1>4 DEF Active
<1>6. Existing \subseteq Existing'
  BY <1>4 DEF Existing
<1>7. exposed' \subseteq Active'
  BY <1>2, <1>3, <1>5
<1>8. TypeOK'
  BY <1>1, <1>2, <1>3, <1>4, <1>6, <1>7 DEF IInv, TypeOK, Slots
<1>9. RejectedStaysOut'
  <2> SUFFICES ASSUME NEW q \in Active', player'[q].rejected PROVE q \in exposed'
    BY DEF RejectedStaysOut
  <2>1. CASE q = p
    BY <1>2, <1>4, <1>5, <2>1
  <2>2. CASE q # p
    <3>1. q \in Active /\ q \in Players
      BY <1>5, <2>2 DEF Active
    <3>2. player[q].rejected
      BY <1>4, <2>2, <3>1
    <3>3. q \in exposed
      BY <3>1, <3>2 DEF IInv, RejectedStaysOut
    <3> QED BY <1>2, <2>2, <3>3
  <2> QED BY <2>1, <2>2
<1>10. Shapes'
  <2>1. Shape(r)'
    BY <1>1 DEF Shape, Shaped, PlayerStages
  <2> QED BY <1>1, <2>1, ShapesStep DEF IInv
<1>11. Trusted'
  <2>1. Trusts(r)'
    BY <1>1, <1>5 DEF Trusts
  <2>2. \A q \in Requests \ {r} :
           /\ pc[q] = "reason" /\ loc'[q].stale # TRUE => loc[q].id \cap Active' \subseteq Active
           /\ pc[q] = "delete" /\ loc'[q].stale # TRUE => loc[q].id \cap history' \subseteq history
    BY <1>1, <1>2, <1>5
  <2> QED BY <1>1, <2>1, <2>2, TrustedStep DEF IInv
<1>12. Room'
  <2>1. r \notin Passed' /\ r \notin Creating'
    BY <1>1 DEF Passed, Creating
  <2>2. CASE r \in Creating
    <3>1. pc'[r] = "idle"
      BY <1>1, <2>2
    <3>2. Active' \subseteq Active \cup {p}
      BY <1>5
    <3> QED BY <1>1, <2>2, <3>1, <3>2, Insert DEF IInv
  <2>3. CASE r \notin Creating
    <3>1. Active' \subseteq Active \cup Mine(r)
      BY <1>5, <2>3 DEF Mine
    <3> QED BY <1>1, <2>1, <3>1, Narrow DEF IInv
  <2> QED BY <2>2, <2>3
<1> QED BY <1>8, <1>9, <1>10, <1>11, <1>12 DEF IInv

\* An UPDATE of a row that may be gone.
LEMMA RewritePreserves ==
  ASSUME IInv, NEW r \in Requests, NEW p \in Players, NEW row, NEW stage \in Stages,
         Rewrite(r, p, row, stage),
         p \in Existing =>
           /\ row \in Row /\ row.status \in Settable
           /\ row.status = "active" => p \in Active \/ (r \in Passed /\ p \in loc[r].id)
           /\ row.status = "active" /\ row.rejected => p \in exposed \/ loc[r].stale,
         stage \in {"idle", "columns", "reason"},
         stage # "idle" => loc[r].id = {p} /\ r \notin Creating,
         stage = "reason" /\ p \in Existing => row.status # "active"
  PROVE  IInv'
<1>1. CASE p \in Existing
  <2>1. Write(r, p, row, stage)
    BY <1>1 DEF Rewrite
  <2> QED BY <1>1, <2>1, WritePreserves
<1>2. CASE p \notin Existing
  <2>1. Read(r, FALSE, "idle")
    BY <1>2 DEF Rewrite
  <2> QED BY <2>1, ReadPreserves DEF Stages
<1> QED BY <1>1, <1>2

-----------------------------------------------------------------------------
(* One lemma for each action                                               *)

LEMMA NewPlayers ==
  ASSUME IInv, NEW r \in Requests,
         \/ \E c \in Categories : createPlayer(r, c) \/ enrollChild(r, c)
         \/ NewCategory(r) \/ InsertPlayer(r) \/ InsertPending(r)
  PROVE  IInv'
<1>1. ASSUME NEW c \in Categories, createPlayer(r, c) PROVE IInv'
  <2>1. [NoLocals EXCEPT !.to = c] \in Local
    BY EmptyLocals DEF Local
  <2>2. Shaped("newCategory", [NoLocals EXCEPT !.to = c])
    BY DEF Shaped, PlayerStages
  <2> QED BY <1>1, <2>1, <2>2, BeginPreserves DEF createPlayer, Stages
<1>2. ASSUME NEW c \in Categories, enrollChild(r, c) PROVE IInv'
  <2>1. [NoLocals EXCEPT !.to = c] \in Local
    BY EmptyLocals DEF Local
  <2>2. Shaped("enroll", [NoLocals EXCEPT !.to = c])
    BY DEF Shaped, PlayerStages
  <2> QED BY <1>2, <2>1, <2>2, BeginPreserves DEF enrollChild, Stages
<1>3. CASE NewCategory(r)
  <2>1. r \in Creating /\ Shaped("insert", loc[r])
    BY <1>3 DEF NewCategory, Creating, Shaped, PlayerStages
  <2> QED BY <1>3, <2>1, ReadPreserves DEF NewCategory, Stages
<1> DEFINE New(status) == [NoPlayer EXCEPT !.status = status, !.category = loc[r].to]
<1>4. ASSUME NEW status \in Settable
      PROVE  New(status) \in Row /\ New(status).status = status /\ ~New(status).rejected
  <2>1. loc[r].to \in Maybe
    BY Typed DEF Slots, Local, Maybe
  <2>2. NoPlayer \in Row /\ ~NoPlayer.rejected
    BY EmptyPlayer
  <2> QED BY <2>1, <2>2 DEF Row, Maybe
<1>5. CASE InsertPlayer(r)
  <2>1. PICK p \in Players : Write(r, p, New("active"), "idle")
    BY <1>5 DEF InsertPlayer
  <2>2. r \in Creating /\ "active" \in Settable
    BY <1>5 DEF InsertPlayer, Creating, Settable
  <2>3. New("active") \in Row /\ New("active").status = "active" /\ ~New("active").rejected
    BY <1>4, <2>2
  <2> QED BY <2>1, <2>2, <2>3, WritePreserves DEF Stages
<1>6. CASE InsertPending(r)
  <2>1. PICK p \in Players : Write(r, p, New("pending"), "idle")
    BY <1>6 DEF InsertPending
  <2>2. "pending" \in Settable
    BY DEF Settable
  <2>3. New("pending") \in Row /\ New("pending").status = "pending"
    BY <1>4, <2>2
  <2> QED BY <2>1, <2>2, <2>3, WritePreserves DEF Stages
<1> QED BY <1>1, <1>2, <1>3, <1>5, <1>6

LEMMA Edits ==
  ASSUME IInv, NEW r \in Requests, NEW p \in Players, NEW next \in Settable,
         NEW writes \in BOOLEAN, NEW c \in Maybe, updatePlayer(r, p, next, writes, c)
  PROVE  IInv'
<1> DEFINE l == Edit(p, next, writes, c)
           stage == IF writes /\ c # NoCategory THEN "assign" ELSE AfterAssign(l)
<1>1. p \in Existing /\ Begin(r, stage, l)
  BY DEF updatePlayer
<1>2. l \in Local /\ l.id = {p} /\ l.next = next
  <2>1. player \in [Players -> Row]
    BY DEF IInv, TypeOK
  <2> QED BY <1>1, <2>1, EditIsTyped
<1> HIDE DEF l
<1>3. /\ stage \in {"assign", "eligible", "columns", "count", "status"}
      /\ stage = "status" => next # "active"
  BY <1>2 DEF AfterAssign
<1>4. stage \in Stages /\ Shaped(stage, l)
  BY <1>2, <1>3 DEF Stages, Shaped
<1> HIDE DEF stage
<1> QED BY <1>1, <1>2, <1>3, <1>4, BeginPreserves

LEMMA Checks ==
  ASSUME IInv, NEW r \in Requests,
         AssignCategory(r) \/ EligibleCategory(r) \/ DiscountPlayer(r) \/ ActiveCategory(r)
  PROVE  IInv'
<1>1. Shape(r) /\ Slots
  BY Typed DEF IInv, Shapes
<1>2. CASE AssignCategory(r)
  <2> DEFINE stage == AfterAssign(loc[r])
  <2>1. /\ stage \in {"eligible", "columns", "count", "status"}
        /\ stage = "status" => loc[r].next # "active"
    BY DEF AfterAssign
  <2>2. stage \in Stages /\ Shaped(stage, loc[r])
    BY <1>1, <1>2, <2>1 DEF AssignCategory, Stages, Shape, Shaped, PlayerStages
  <2>3. Read(r, Open(loc[r].to) \/ loc[r].to = loc[r].from, stage)
    BY <1>2 DEF AssignCategory
  <2> HIDE DEF stage
  <2> QED BY <2>1, <2>2, <2>3, ReadPreserves
<1>3. CASE EligibleCategory(r)
  <2>1. Shaped("columns", loc[r])
    BY <1>1, <1>3 DEF EligibleCategory, Shape, Shaped, PlayerStages
  <2> QED BY <1>3, <2>1, ReadPreserves DEF EligibleCategory, Stages
<1>4. CASE DiscountPlayer(r)
  <2> DEFINE others == loc[r].count - (IF loc[r].id \subseteq Active THEN 1 ELSE 0)
  <2>1. pc[r] = "discount" /\ Read(r, others < MaxPlayers, "category")
    BY <1>4 DEF DiscountPlayer
  <2>2. Shaped("category", loc[r])
    BY <1>1, <2>1 DEF Shape, Shaped, PlayerStages
  <2>3. others < MaxPlayers => loc[r].id \subseteq Active \cup Mine(r)
    BY <1>1, <2>1, RosterAssumption DEF Mine, Passed, Slots, Local
  <2> HIDE DEF others
  <2> QED BY <2>1, <2>2, <2>3, ReadPreserves DEF Stages
<1>5. CASE ActiveCategory(r)
  <2> DEFINE stage == IF loc[r].before = "pending" THEN "approve" ELSE "activate"
  <2>1. pc[r] = "category" /\ Read(r, Open(loc[r].to), stage)
    BY <1>5 DEF ActiveCategory
  <2>2. stage \in {"approve", "activate"} /\ stage \in Stages
    BY DEF Stages
  <2>3. Shaped(stage, loc[r])
    BY <1>1, <2>1, <2>2 DEF Shape, Shaped, PlayerStages
  <2>4. loc[r].id \subseteq Mine(r)
    BY <2>1 DEF Mine, Passed
  <2> HIDE DEF stage
  <2> QED BY <2>1, <2>2, <2>3, <2>4, ReadPreserves
<1> QED BY <1>2, <1>3, <1>4, <1>5

LEMMA Updates ==
  ASSUME IInv, NEW r \in Requests,
         \/ ActivatePlayer(r) \/ SetStatus(r) \/ WriteColumns(r)
         \/ Approve(r) \/ Reject(r) \/ SetReason(r)
  PROVE  IInv'
<1>1. Shape(r) /\ Slots /\ player \in [Players -> Row]
  BY Typed DEF IInv, Shapes, TypeOK
<1>2. PICK p \in Players : loc[r].id = {p}
  BY <1>1 DEF ActivatePlayer, SetStatus, WriteColumns, Approve, Reject, SetReason, Shape, Shaped,
              PlayerStages
<1>3. player[p] \in Row /\ (p \in Existing => player[p].status \in Settable)
  BY <1>1 DEF Existing
<1>4. r \notin Creating /\ Rest(r) \in {"idle", "columns"} /\ Rest(r) \in Stages
  BY DEF ActivatePlayer, SetStatus, WriteColumns, Approve, Reject, SetReason, Creating, Rest, Stages
<1>5. CASE ActivatePlayer(r)
  <2> DEFINE row == [player[p] EXCEPT !.status = "active", !.rejected = FALSE]
  <2>1. Rewrite(r, p, row, Rest(r)) /\ r \in Passed
    BY <1>2, <1>5 DEF ActivatePlayer, Passed
  <2>2. row \in Row /\ row.status \in Settable /\ row.rejected = FALSE
    BY <1>3 DEF Row, Settable
  <2> HIDE DEF row
  <2> QED BY <1>2, <1>4, <2>1, <2>2, RewritePreserves
<1>6. CASE SetStatus(r)
  <2> DEFINE next == loc[r].next
             rejected == player[p].rejected /\ next # "inactive"
             row == [player[p] EXCEPT !.status = next, !.rejected = rejected]
  <2>1. Rewrite(r, p, row, Rest(r))
    BY <1>2, <1>6 DEF SetStatus
  <2>2. next \in Settable /\ next # "active"
    BY <1>1, <1>6 DEF SetStatus, Shape, Shaped
  <2>3. rejected \in BOOLEAN
    BY <1>3 DEF Row
  <2> HIDE DEF next, rejected
  <2>4. row \in Row /\ row.status = next
    BY <1>3, <2>2, <2>3 DEF Row
  <2> HIDE DEF row
  <2> QED BY <1>2, <1>4, <2>1, <2>2, <2>4, RewritePreserves
<1>7. CASE WriteColumns(r)
  <2> DEFINE sets == loc[r].sets
             row == [player[p] EXCEPT !.category = sets]
  <2>1. Rewrite(r, p, row, "idle")
    BY <1>2, <1>7 DEF WriteColumns
  <2>2. sets \in Categories \cup {NoCategory}
    BY <1>1 DEF Slots, Local
  <2> HIDE DEF sets
  <2>3. row \in Row /\ row.status = player[p].status /\ row.rejected = player[p].rejected
    BY <1>3, <2>2 DEF Row
  <2> HIDE DEF row
  <2>4. row.status = "active" => p \in Active
    BY <2>3 DEF Active
  <2>5. row.status = "active" /\ row.rejected => p \in exposed
    BY <2>3, <2>4 DEF IInv, RejectedStaysOut
  <2> QED BY <1>3, <2>1, <2>3, <2>4, <2>5, RewritePreserves DEF Stages
<1>8. CASE Approve(r)
  <2> DEFINE column == IF loc[r].writes THEN loc[r].sets ELSE player[p].category
             row == [status |-> "active", rejected |-> FALSE, category |-> column]
  <2>1. Rewrite(r, p, row, "idle") /\ r \in Passed
    BY <1>2, <1>8 DEF Approve, Passed
  <2>2. column \in Categories \cup {NoCategory}
    BY <1>1, <1>3 DEF Slots, Local, Row
  <2> HIDE DEF column
  <2>3. row \in Row /\ row.status \in Settable /\ row.rejected = FALSE
    BY <2>2 DEF Row, Settable
  <2> HIDE DEF row
  <2> QED BY <1>2, <2>1, <2>3, RewritePreserves DEF Stages
<1>9. CASE Reject(r)
  <2> DEFINE row == [player[p] EXCEPT !.status = "inactive"]
  <2>1. Rewrite(r, p, row, "reason")
    BY <1>2, <1>9 DEF Reject
  <2>2. row \in Row /\ row.status \in Settable /\ row.status # "active"
    BY <1>3 DEF Row, Settable
  <2> HIDE DEF row
  <2> QED BY <1>2, <1>4, <2>1, <2>2, RewritePreserves DEF Stages
<1>10. CASE SetReason(r)
  <2> DEFINE row == [player[p] EXCEPT !.rejected = TRUE]
  <2>1. pc[r] = "reason" /\ Rewrite(r, p, row, "idle")
    BY <1>2, <1>10 DEF SetReason
  <2>2. row \in Row /\ row.status = player[p].status
    BY <1>3 DEF Row
  <2> HIDE DEF row
  <2>3. row.status = "active" => p \in Active
    BY <2>2 DEF Active
  <2>4. loc[r].stale \/ p \notin Active
    BY <1>2, <2>1 DEF IInv, Trusted, Trusts
  <2> QED BY <1>3, <2>1, <2>2, <2>3, <2>4, RewritePreserves DEF Stages
<1> QED BY <1>5, <1>6, <1>7, <1>8, <1>9, <1>10

LEMMA Reviews ==
  ASSUME IInv, NEW r \in Requests, NEW p \in Players,
         \/ \E c \in Maybe : updateChild(r, p, c)
         \/ approvePlayer(r, p, FALSE, NoCategory)
         \/ \E c \in Maybe : approvePlayer(r, p, TRUE, c)
         \/ rejectPlayer(r, p)
  PROVE  IInv'
<1>1. p \in Existing /\ player[p].category \in Maybe /\ player \in [Players -> Row]
  BY DEF updateChild, approvePlayer, rejectPlayer, Existing, Settable, IInv, TypeOK, Row, Maybe
<1>2. ASSUME NEW next \in Settable, NEW writes \in BOOLEAN, NEW c \in Maybe
      PROVE  /\ Edit(p, next, writes, c) \in Local
             /\ Edit(p, next, writes, c).id = {p} /\ Edit(p, next, writes, c).next = next
  BY <1>1, EditIsTyped
<1>3. ASSUME NEW c \in Maybe, updateChild(r, p, c) PROVE IInv'
  <2> DEFINE l == Edit(p, "pending", TRUE, c)
  <2>1. l \in Local /\ l.id = {p}
    BY <1>2 DEF Settable
  <2>2. Begin(r, "columns", l)
    BY <1>3 DEF updateChild
  <2> HIDE DEF l
  <2> QED BY <2>1, <2>2, BeginPreserves DEF Stages, Shaped
<1>4. ASSUME NEW writes \in BOOLEAN, NEW c \in Maybe, approvePlayer(r, p, writes, c) PROVE IInv'
  <2> DEFINE e == Edit(p, "active", writes, c)
             to == IF c = NoCategory THEN player[p].category ELSE c
             l == [e EXCEPT !.to = to]
  <2>1. Begin(r, "count", l)
    BY <1>4 DEF approvePlayer
  <2>2. e \in Local /\ e.id = {p} /\ to \in Maybe
    BY <1>1, <1>2 DEF Settable
  <2> HIDE DEF e, to
  <2>3. l \in Local /\ l.id = {p}
    BY <2>2 DEF Local, Maybe
  <2> HIDE DEF l
  <2> QED BY <2>1, <2>3, BeginPreserves DEF Stages, Shaped
<1>5. CASE rejectPlayer(r, p)
  <2> DEFINE l == Edit(p, "inactive", FALSE, NoCategory)
  <2>1. l \in Local /\ l.id = {p}
    BY <1>2 DEF Settable, Maybe
  <2>2. Begin(r, "reject", l)
    BY <1>5 DEF rejectPlayer
  <2> HIDE DEF l
  <2> QED BY <2>1, <2>2, BeginPreserves DEF Stages, Shaped
<1>6. NoCategory \in Maybe
  BY DEF Maybe
<1> QED BY <1>3, <1>4, <1>5, <1>6

\* The steps that neither begin, read nor write a player.
LEMMA OtherStep ==
  ASSUME IInv, TypeOK', RejectedStaysOut', NEW r \in Requests, Others(r), Active' \subseteq Active,
         Shape(r)', loc'[r].stale \/ Trusts(r)', r \notin Creating',
         \A q \in Requests \ {r} :
           pc[q] = "delete" /\ loc'[q].stale # TRUE => loc[q].id \cap history' \subseteq history,
         r \in Passed' => Cardinality(Active') < MaxPlayers
  PROVE  IInv'
<1>1. Slots /\ Slots'
  BY Typed DEF TypeOK, Slots
<1>2. Shapes'
  BY <1>1, ShapesStep DEF IInv
<1>3. Trusted'
  BY <1>1, TrustedStep DEF IInv
<1>4. Room'
  <2>1. CASE r \in Passed'
    BY <1>1, <1>2, <2>1, Admitted
  <2>2. CASE r \notin Passed'
    BY <1>1, <2>2, Narrow DEF IInv
  <2> QED BY <2>1, <2>2
<1> QED BY <1>2, <1>3, <1>4 DEF IInv

LEMMA Count ==
  ASSUME IInv, NEW r \in Requests, CountActive(r)
  PROVE  IInv'
<1>1. Slots /\ Shape(r)
  BY Typed DEF IInv, Shapes
<1> DEFINE n == Cardinality(Active)
           l == [loc[r] EXCEPT !.count = n]
<1>2. /\ pc[r] = "count" /\ pc' = [pc EXCEPT ![r] = "discount"] /\ loc' = [loc EXCEPT ![r] = l]
      /\ UNCHANGED <<player, category, history, begun, failures, exposed>>
  BY DEF CountActive
<1>3. n \in Nat
  BY <1>1, PlanSets
<1> HIDE DEF n
<1>4. l \in Local /\ l.count = n /\ l.id = loc[r].id
  BY <1>1, <1>3 DEF Slots, Local
<1> HIDE DEF l
<1>5. Slots' /\ Others(r) /\ pc'[r] = "discount" /\ loc'[r] = l
  BY <1>1, <1>2, <1>4 DEF Slots, Others, Stages
<1>6. Active' = Active /\ Existing' = Existing
  BY <1>2 DEF Active, Existing
<1>7. TypeOK' /\ RejectedStaysOut'
  BY <1>2, <1>5, <1>6 DEF IInv, TypeOK, Slots, RejectedStaysOut
<1>8. Shape(r)' /\ Trusts(r)' /\ r \notin Creating'
  BY <1>1, <1>2, <1>4, <1>5 DEF Shape, Shaped, PlayerStages, Trusts, Creating
<1>9. r \in Passed' => Cardinality(Active') < MaxPlayers
  BY <1>4, <1>5, <1>6 DEF Passed, n
<1> QED
  BY <1>2, <1>5, <1>6, <1>7, <1>8, <1>9, OtherStep

\* A request is over.
LEMMA Ends ==
  ASSUME IInv, TypeOK', RejectedStaysOut', NEW r \in Requests, Others(r), Active' \subseteq Active,
         pc'[r] = "idle",
         \A q \in Requests \ {r} :
           pc[q] = "delete" /\ loc'[q].stale # TRUE => loc[q].id \cap history' \subseteq history
  PROVE  IInv'
<1>1. Shape(r)' /\ Trusts(r)' /\ r \notin Creating' /\ r \notin Passed'
  BY DEF Shape, Shaped, PlayerStages, Trusts, Creating, Passed
<1> QED BY <1>1, OtherStep

LEMMA HistorySteps ==
  ASSUME IInv, NEW r \in Requests,
         \/ \E p \in Players : saveAttendance(r, p) \/ deletePlayer(r, p)
         \/ Attend(r) \/ Delete(r)
  PROVE  IInv'
<1>1. Slots /\ Shape(r) /\ player \in [Players -> Row]
  BY Typed DEF IInv, Shapes, TypeOK
<1>2. ASSUME NEW p \in Players, saveAttendance(r, p) \/ deletePlayer(r, p) PROVE IInv'
  <2> DEFINE l == [NoLocals EXCEPT !.id = {p}]
  <2>1. l \in Local /\ l.id = {p}
    BY EmptyLocals DEF Local
  <2>2. \/ Begin(r, "attend", l)
        \/ Begin(r, "delete", l) /\ p \notin history
    BY <1>2 DEF saveAttendance, deletePlayer
  <2> HIDE DEF l
  <2>3. Shaped("attend", l) /\ Shaped("delete", l)
    BY <2>1 DEF Shaped
  <2> QED BY <2>1, <2>2, <2>3, BeginPreserves DEF Stages
<1>3. CASE Attend(r)
  <2>1. /\ history' = history \cup (loc[r].id \cap Existing)
        /\ pc' = [pc EXCEPT ![r] = "idle"]
        /\ loc' = [q \in Requests |->
             IF q = r THEN NoLocals
             ELSE IF pc[q] = "delete" /\ loc[q].id = loc[r].id THEN [loc[q] EXCEPT !.stale = TRUE]
             ELSE loc[q]]
        /\ UNCHANGED <<player, category, begun, failures, exposed>>
    BY <1>3 DEF Attend
  <2>2. \A q \in Requests : /\ [loc[q] EXCEPT !.stale = TRUE] \in Local
                             /\ [loc[q] EXCEPT !.stale = TRUE].stale = TRUE
    BY <1>1 DEF Slots, Local
  <2>3. Slots' /\ Others(r) /\ pc'[r] = "idle"
    BY <1>1, <2>1, <2>2, EmptyLocals DEF Slots, Others, Stages
  <2>4. Active' = Active /\ Existing' = Existing
    BY <2>1 DEF Active, Existing
  <2>5. TypeOK' /\ RejectedStaysOut'
    BY <2>1, <2>3, <2>4 DEF IInv, TypeOK, Slots, RejectedStaysOut
  <2>6. ASSUME NEW q \in Requests \ {r}, pc[q] = "delete", loc'[q].stale # TRUE
        PROVE  loc[q].id \cap history' \subseteq history
    <3>1. loc[q].id # loc[r].id
      BY <2>1, <2>2, <2>6
    <3>2. Shape(q)
      BY DEF IInv, Shapes
    <3>3. (\E a \in Players : loc[q].id = {a}) /\ (\E b \in Players : loc[r].id = {b})
      BY <1>1, <1>3, <2>6, <3>2 DEF Attend, Shape, Shaped, PlayerStages
    <3>4. loc[q].id \cap loc[r].id = {}
      BY <3>1, <3>3
    <3> QED BY <2>1, <3>4
  <2> QED BY <2>3, <2>4, <2>5, <2>6, Ends
<1>4. CASE Delete(r)
  <2> DEFINE gone == [NoPlayer EXCEPT !.status = "gone"]
  <2>1. /\ player' = [p \in Players |-> IF p \in loc[r].id THEN gone ELSE player[p]]
        /\ history' = history \ loc[r].id /\ exposed' = exposed \ loc[r].id
        /\ pc' = [pc EXCEPT ![r] = "idle"] /\ loc' = [loc EXCEPT ![r] = NoLocals]
        /\ UNCHANGED <<category, begun, failures>>
    BY <1>4 DEF Delete
  <2>2. gone \in Row /\ gone.status = "gone"
    BY GoneRow
  <2> HIDE DEF gone
  <2>3. Slots' /\ Others(r) /\ pc'[r] = "idle" /\ player' \in [Players -> Row]
    BY <1>1, <2>1, <2>2, EmptyLocals DEF Slots, Others, Stages
  <2>4. /\ Active' = Active \ loc[r].id
        /\ Existing \ loc[r].id \subseteq Existing'
        /\ \A p \in Active' : player'[p] = player[p]
    BY <2>1, <2>2 DEF Active, Existing
  <2>5. TypeOK'
    BY <2>1, <2>3, <2>4 DEF IInv, TypeOK, Slots
  <2>6. RejectedStaysOut'
    BY <2>1, <2>4 DEF IInv, RejectedStaysOut
  <2> QED BY <2>1, <2>3, <2>4, <2>5, <2>6, Ends
<1> QED BY <1>2, <1>3, <1>4

LEMMA CategorySteps ==
  ASSUME IInv, NEW r \in Requests,
         \/ createCategory(r) \/ InsertCategory(r) \/ CategoryUsage(r) \/ SetCategory(r)
         \/ \E c \in Categories, s \in {"active", "inactive"} : updateCategoryStatus(r, c, s)
  PROVE  IInv'
<1>1. Slots /\ Shape(r) /\ category \in [Categories -> {"none", "active", "inactive"}]
  BY Typed DEF IInv, Shapes, TypeOK
<1>2. CASE createCategory(r)
  <2>1. Shaped("insertCategory", NoLocals)
    BY DEF Shaped, PlayerStages
  <2> QED BY <1>2, <2>1, EmptyLocals, BeginPreserves DEF createCategory, Stages
<1>3. CASE InsertCategory(r)
  <2>1. /\ category' \in [Categories -> {"none", "active", "inactive"}]
        /\ pc' = [pc EXCEPT ![r] = "idle"] /\ loc' = [loc EXCEPT ![r] = NoLocals]
        /\ UNCHANGED <<player, history, begun, failures, exposed>>
    BY <1>1, <1>3 DEF InsertCategory
  <2>2. Slots' /\ Others(r) /\ pc'[r] = "idle"
    BY <1>1, <2>1, EmptyLocals DEF Slots, Others, Stages
  <2>3. Active' = Active /\ Existing' = Existing
    BY <2>1 DEF Active, Existing
  <2>4. TypeOK' /\ RejectedStaysOut'
    BY <2>1, <2>2, <2>3 DEF IInv, TypeOK, Slots, RejectedStaysOut
  <2> QED BY <2>1, <2>2, <2>3, <2>4, Ends
<1>4. ASSUME NEW c \in Categories, NEW s \in {"active", "inactive"}, updateCategoryStatus(r, c, s)
      PROVE  IInv'
  <2> DEFINE stage == IF s = "inactive" /\ category[c] = "active" THEN "usage" ELSE "setCategory"
             l == [NoLocals EXCEPT !.to = c, !.next = s]
  <2>1. Begin(r, stage, l)
    BY <1>4 DEF updateCategoryStatus
  <2>2. l \in Local /\ l.next = s
    BY EmptyLocals DEF Local, Settable
  <2> HIDE DEF l
  <2>3. stage \in {"usage", "setCategory"}
    OBVIOUS
  <2> HIDE DEF stage
  <2>4. stage \in Stages /\ Shaped(stage, l)
    BY <2>2, <2>3 DEF Stages, Shaped, PlayerStages
  <2> QED BY <2>1, <2>2, <2>3, <2>4, BeginPreserves
<1>5. CASE CategoryUsage(r)
  <2>1. Shaped("setCategory", loc[r])
    BY <1>1, <1>5 DEF CategoryUsage, Shape, Shaped, PlayerStages
  <2> QED BY <1>5, <2>1, ReadPreserves DEF CategoryUsage, Stages
<1>6. CASE SetCategory(r)
  <2>1. /\ pc[r] = "setCategory" /\ category' = [category EXCEPT ![loc[r].to] = loc[r].next]
        /\ exposed' \subseteq exposed \cup Active /\ exposed \subseteq exposed'
        /\ pc' = [pc EXCEPT ![r] = "idle"]
        /\ loc' = [q \in Requests |->
             IF q = r THEN NoLocals
             ELSE IF loc[q].to = loc[r].to /\ loc[q].to # NoCategory
                  THEN [loc[q] EXCEPT !.stale = TRUE] ELSE loc[q]]
        /\ UNCHANGED <<player, history, begun, failures>>
    BY <1>6 DEF SetCategory, ActiveIn
  <2>2. \A q \in Requests : [loc[q] EXCEPT !.stale = TRUE] \in Local
    BY <1>1 DEF Slots, Local
  <2>3. Slots' /\ Others(r) /\ pc'[r] = "idle"
    BY <1>1, <2>1, <2>2, EmptyLocals DEF Slots, Others, Stages
  <2>4. Active' = Active /\ Existing' = Existing
    BY <2>1 DEF Active, Existing
  <2>5. category' \in [Categories -> {"none", "active", "inactive"}]
    BY <1>1, <2>1 DEF Shape, Shaped
  <2>6. exposed' \subseteq Active'
    BY <2>1, <2>4 DEF IInv, TypeOK
  <2>7. TypeOK'
    BY <2>1, <2>3, <2>4, <2>5, <2>6 DEF IInv, TypeOK, Slots
  <2>8. RejectedStaysOut'
    BY <2>1, <2>4 DEF IInv, RejectedStaysOut
  <2> QED BY <2>1, <2>3, <2>4, <2>7, <2>8, Ends
<1> QED BY <1>2, <1>3, <1>4, <1>5, <1>6

LEMMA Failures ==
  ASSUME IInv, NEW r \in Requests, Fail(r)
  PROVE  IInv'
<1>1. Slots
  BY Typed
<1>2. /\ failures' \in 0 .. MaxFailures
      /\ exposed' \subseteq exposed \cup Active /\ exposed \subseteq exposed'
      /\ pc' = [pc EXCEPT ![r] = "idle"] /\ loc' = [loc EXCEPT ![r] = NoLocals]
      /\ UNCHANGED <<player, category, history, begun>>
  BY RosterAssumption DEF Fail, IInv, TypeOK
<1>3. Slots' /\ Others(r) /\ pc'[r] = "idle"
  BY <1>1, <1>2, EmptyLocals DEF Slots, Others, Stages
<1>4. Active' = Active /\ Existing' = Existing
  BY <1>2 DEF Active, Existing
<1>5. TypeOK'
  BY <1>2, <1>3, <1>4 DEF IInv, TypeOK, Slots
<1>6. RejectedStaysOut'
  BY <1>2, <1>4 DEF IInv, RejectedStaysOut
<1> QED BY <1>2, <1>3, <1>4, <1>5, <1>6, Ends

-----------------------------------------------------------------------------
(* The invariant and the theorems                                          *)

LEMMA Stuttering == IInv /\ UNCHANGED vars => IInv'
<1> SUFFICES ASSUME IInv, UNCHANGED vars PROVE IInv'
  OBVIOUS
<1>1. /\ player' = player /\ category' = category /\ history' = history /\ pc' = pc
      /\ loc' = loc /\ begun' = begun /\ failures' = failures /\ exposed' = exposed
  BY DEF vars
<1>2. Active' = Active /\ Existing' = Existing
  BY <1>1 DEF Active, Existing
<1>3. Targets' = Targets /\ Creating' = Creating
  BY <1>1 DEF Targets, Creating, Passed
<1>4. TypeOK' /\ Room' /\ RejectedStaysOut'
  BY <1>1, <1>2, <1>3 DEF IInv, TypeOK, Room, RejectedStaysOut
<1>5. Shapes' /\ Trusted'
  BY <1>1, <1>2 DEF IInv, Shapes, Shape, Trusted, Trusts
<1> QED BY <1>4, <1>5 DEF IInv

LEMMA InitIInv == Init => IInv
<1> SUFFICES ASSUME Init PROVE IInv
  OBVIOUS
<1>1. Slots /\ player \in [Players -> Row]
  BY EmptyLocals, EmptyPlayer DEF Init, Slots, Stages
<1>2. Active = {} /\ Targets = {} /\ Creating = {}
  BY EmptyPlayer DEF Init, Active, Targets, Passed, Creating
<1>3. TypeOK
  BY <1>1, RosterAssumption DEF Init, TypeOK, Slots
<1>4. Shapes /\ Trusted /\ RejectedStaysOut
  BY <1>2 DEF Init, Shapes, Shape, Shaped, PlayerStages, Trusted, Trusts, RejectedStaysOut
<1>5. Room
  <2>1. Cardinality(Requests) \in Nat /\ Cardinality(Requests) # 0
    BY RosterAssumption, FS_CardinalityType, FS_EmptySet
  <2>2. Active \cup Targets = {}
    BY <1>2
  <2>3. Cardinality(Active \cup Targets) = 0 /\ Cardinality(Creating) = 0
    BY <1>2, <2>2, FS_EmptySet
  <2> QED BY <2>1, <2>3, RosterAssumption DEF Room
<1> QED BY <1>3, <1>4, <1>5 DEF IInv

LEMMA NextIInv == IInv /\ Next => IInv'
<1> SUFFICES ASSUME IInv, Next PROVE IInv'
  OBVIOUS
<1>1. NoCategory \in Maybe /\ TRUE \in BOOLEAN /\ FALSE \in BOOLEAN
  BY DEF Maybe
<1>2. PICK r \in Requests :
       \/ \E c \in Categories : createPlayer(r, c) \/ enrollChild(r, c)
       \/ NewCategory(r) \/ InsertPlayer(r) \/ InsertPending(r)
       \/ \E p \in Players, next \in Settable :
            \/ updatePlayer(r, p, next, FALSE, NoCategory)
            \/ \E c \in Maybe : updatePlayer(r, p, next, TRUE, c)
       \/ AssignCategory(r) \/ EligibleCategory(r)
       \/ CountActive(r) \/ DiscountPlayer(r) \/ ActiveCategory(r)
       \/ ActivatePlayer(r) \/ SetStatus(r) \/ WriteColumns(r)
       \/ \E p \in Players :
            \/ \E c \in Maybe : updateChild(r, p, c)
            \/ approvePlayer(r, p, FALSE, NoCategory)
            \/ \E c \in Maybe : approvePlayer(r, p, TRUE, c)
            \/ rejectPlayer(r, p) \/ saveAttendance(r, p) \/ deletePlayer(r, p)
       \/ Approve(r) \/ Reject(r) \/ SetReason(r) \/ Attend(r) \/ Delete(r)
       \/ createCategory(r) \/ InsertCategory(r)
       \/ \E c \in Categories, s \in {"active", "inactive"} : updateCategoryStatus(r, c, s)
       \/ CategoryUsage(r) \/ SetCategory(r)
       \/ Fail(r)
  BY DEF Next, Maybe
<1>3. CASE \/ \E c \in Categories : createPlayer(r, c) \/ enrollChild(r, c)
           \/ NewCategory(r) \/ InsertPlayer(r) \/ InsertPending(r)
  BY <1>3, NewPlayers
<1>4. CASE \E p \in Players, next \in Settable :
             \/ updatePlayer(r, p, next, FALSE, NoCategory)
             \/ \E c \in Maybe : updatePlayer(r, p, next, TRUE, c)
  BY <1>1, <1>4, Edits
<1>5. CASE AssignCategory(r) \/ EligibleCategory(r) \/ DiscountPlayer(r) \/ ActiveCategory(r)
  BY <1>5, Checks
<1>6. CASE CountActive(r)
  BY <1>6, Count
<1>7. CASE \/ ActivatePlayer(r) \/ SetStatus(r) \/ WriteColumns(r)
           \/ Approve(r) \/ Reject(r) \/ SetReason(r)
  BY <1>7, Updates
<1>8. CASE \E p \in Players :
            \/ \E c \in Maybe : updateChild(r, p, c)
            \/ approvePlayer(r, p, FALSE, NoCategory)
            \/ \E c \in Maybe : approvePlayer(r, p, TRUE, c)
            \/ rejectPlayer(r, p)
  BY <1>8, Reviews
<1>9. CASE \/ \E p \in Players : saveAttendance(r, p) \/ deletePlayer(r, p)
           \/ Attend(r) \/ Delete(r)
  BY <1>9, HistorySteps
<1>10. CASE \/ createCategory(r) \/ InsertCategory(r) \/ CategoryUsage(r) \/ SetCategory(r)
            \/ \E c \in Categories, s \in {"active", "inactive"} : updateCategoryStatus(r, c, s)
  BY <1>10, CategorySteps
<1>11. CASE Fail(r)
  BY <1>11, Failures
<1> QED
  BY <1>2, <1>3, <1>4, <1>5, <1>6, <1>7, <1>8, <1>9, <1>10, <1>11, Zenon

LEMMA Invariance == Spec => []IInv
<1>1. IInv /\ [Next]_vars => IInv'
  BY NextIInv, Stuttering
<1> QED BY InitIInv, <1>1, PTL DEF Spec

\* The state of the academy and of its requests keeps its types, and only players that
\* exist have attendance and actions.
THEOREM TypeCorrect == Spec => []TypeOK
<1>1. IInv => TypeOK
  BY DEF IInv
<1> QED BY Invariance, <1>1, PTL

\* However many requests overlap and however often, the active players exceed max_players
\* by fewer than there are requests at once: an excess that is there stops the next one
\* (assertMaxActivePlayers).
THEOREM PlanNeverOverrun == Spec => []PlanHoldsButForRaces
<1>1. IInv => PlanHoldsButForRaces
  BY Typed, RoomIsEnough DEF IInv
<1> QED BY Invariance, <1>1, PTL

\* A player whose enrolment was rejected is active only where an approval, an edit or
\* the rejection itself was stale when it wrote (approvePlayer, rejectPlayer).
THEOREM RejectionHolds == Spec => []RejectedStaysOut
<1>1. IInv => RejectedStaysOut
  BY DEF IInv
<1> QED BY Invariance, <1>1, PTL

\* Only a deletion takes history away.
LEMMA OnlyDeletionForgets ==
  ASSUME NEW r \in Requests,
         \/ \E c \in Categories : createPlayer(r, c) \/ enrollChild(r, c)
         \/ NewCategory(r) \/ InsertPlayer(r) \/ InsertPending(r)
         \/ \E p \in Players, next \in Settable :
              \/ updatePlayer(r, p, next, FALSE, NoCategory)
              \/ \E c \in Categories \cup {NoCategory} : updatePlayer(r, p, next, TRUE, c)
         \/ AssignCategory(r) \/ EligibleCategory(r)
         \/ CountActive(r) \/ DiscountPlayer(r) \/ ActiveCategory(r)
         \/ ActivatePlayer(r) \/ SetStatus(r) \/ WriteColumns(r)
         \/ \E p \in Players :
              \/ \E c \in Categories \cup {NoCategory} : updateChild(r, p, c)
              \/ approvePlayer(r, p, FALSE, NoCategory)
              \/ \E c \in Categories \cup {NoCategory} : approvePlayer(r, p, TRUE, c)
              \/ rejectPlayer(r, p) \/ saveAttendance(r, p) \/ deletePlayer(r, p)
         \/ Approve(r) \/ Reject(r) \/ SetReason(r) \/ Attend(r)
         \/ createCategory(r) \/ InsertCategory(r)
         \/ \E c \in Categories, s \in {"active", "inactive"} : updateCategoryStatus(r, c, s)
         \/ CategoryUsage(r) \/ SetCategory(r)
         \/ Fail(r)
  PROVE  history \subseteq history'
<1>1. ASSUME NEW stage, NEW l, Begin(r, stage, l) PROVE history' = history
  BY <1>1 DEF Begin
<1>2. ASSUME NEW passes, NEW stage, Read(r, passes, stage) PROVE history' = history
  BY <1>2 DEF Read
<1>3. ASSUME NEW p, NEW row, NEW stage, Write(r, p, row, stage) PROVE history' = history
  BY <1>3 DEF Write
<1>4. ASSUME NEW p, NEW row, NEW stage, Rewrite(r, p, row, stage) PROVE history' = history
  BY <1>2, <1>3, <1>4 DEF Rewrite
<1>5. CASE \/ \E c \in Categories : createPlayer(r, c) \/ enrollChild(r, c)
           \/ NewCategory(r) \/ InsertPlayer(r) \/ InsertPending(r)
  BY <1>1, <1>2, <1>3, <1>5 DEF createPlayer, enrollChild, NewCategory, InsertPlayer, InsertPending
<1>6. CASE \E p \in Players, next \in Settable :
             \/ updatePlayer(r, p, next, FALSE, NoCategory)
             \/ \E c \in Categories \cup {NoCategory} : updatePlayer(r, p, next, TRUE, c)
  BY <1>1, <1>6 DEF updatePlayer
<1>7. CASE \/ AssignCategory(r) \/ EligibleCategory(r) \/ DiscountPlayer(r) \/ ActiveCategory(r)
           \/ CategoryUsage(r)
  BY <1>2, <1>7 DEF AssignCategory, EligibleCategory, DiscountPlayer, ActiveCategory, CategoryUsage
<1>8. CASE \/ ActivatePlayer(r) \/ SetStatus(r) \/ WriteColumns(r)
           \/ Approve(r) \/ Reject(r) \/ SetReason(r)
  BY <1>4, <1>8 DEF ActivatePlayer, SetStatus, WriteColumns, Approve, Reject, SetReason
<1>9. CASE \E p \in Players :
              \/ \E c \in Categories \cup {NoCategory} : updateChild(r, p, c)
              \/ approvePlayer(r, p, FALSE, NoCategory)
              \/ \E c \in Categories \cup {NoCategory} : approvePlayer(r, p, TRUE, c)
              \/ rejectPlayer(r, p) \/ saveAttendance(r, p) \/ deletePlayer(r, p)
  BY <1>1, <1>9 DEF updateChild, approvePlayer, rejectPlayer, saveAttendance, deletePlayer
<1>10. CASE \/ createCategory(r)
            \/ \E c \in Categories, s \in {"active", "inactive"} : updateCategoryStatus(r, c, s)
  BY <1>1, <1>10 DEF createCategory, updateCategoryStatus
<1>11. CASE CountActive(r) \/ Attend(r) \/ InsertCategory(r) \/ SetCategory(r) \/ Fail(r)
  BY <1>11 DEF CountActive, Attend, InsertCategory, SetCategory, Fail
<1> QED
  BY <1>5, <1>6, <1>7, <1>8, <1>9, <1>10, <1>11, Zenon

\* Attendance and actions are lost only with a deletion that ran into them
\* (deletePlayer's check and its DELETE with the cascade).
THEOREM HistoryOutlivesDeletion == Spec => HistoryIsKept
<1> DEFINE Kept == \A p \in history \ history' :
                     \E r \in Requests : pc[r] = "delete" /\ p \in loc[r].id /\ loc[r].stale
<1>1. ASSUME IInv, Next PROVE Kept
  <2>1. CASE \E r \in Requests : Delete(r)
    <3>1. PICK r \in Requests : Delete(r)
      BY <2>1
    <3>2. pc[r] = "delete" /\ history' = history \ loc[r].id
      BY <3>1 DEF Delete
    <3>3. loc[r].stale \/ loc[r].id \cap history = {}
      BY <1>1, <3>2 DEF IInv, Trusted, Trusts
    <3> QED BY <3>2, <3>3
  <2>2. CASE ~\E r \in Requests : Delete(r)
    <3>1. history \subseteq history'
      BY <1>1, <2>2, OnlyDeletionForgets, Zenon DEF Next
    <3> QED BY <3>1
  <2> QED BY <2>1, <2>2
<1>2. ASSUME IInv, UNCHANGED vars PROVE Kept
  BY <1>2 DEF vars
<1>3. IInv /\ [Next]_vars => [Kept]_vars
  BY <1>1, <1>2
<1> QED BY Invariance, <1>3, PTL DEF Spec, HistoryIsKept

-----------------------------------------------------------------------------
(* Active players and active categories                                    *)

Activating == {"count", "discount", "category", "activate", "approve"}

\* What a request holds fits what it is about to do: an edit writes the category that
\* is checked, an approval may write NULL instead, and whoever sets no category checks
\* the one that was read.
Intends(stage, l) ==
  /\ stage \in {"assign", "eligible", "columns"} => l.writes
  /\ stage \in {"assign", "eligible", "activate", "status", "columns"} /\ l.writes => l.sets = l.to
  /\ stage \in Activating =>
       /\ l.next = "active" /\ l.before # "active"
       /\ l.writes => l.sets = l.to \/ (l.sets = NoCategory /\ l.before = "pending")
       /\ ~l.writes => l.to = l.from
  /\ stage \in {"usage", "setCategory"} => l.to \in Categories
Intent == \A r \in Requests : Intends(pc[r], loc[r])

\* What has been read and checked is so, as long as nobody writes the player or the
\* category: of an active player about to be written, the category is open, or is the
\* one it has; a category about to be closed is closed already or has no active player.
Knows(r) ==
  /\ pc[r] \in Activating \cup {"assign", "eligible"} =>
       \A p \in loc[r].id \cap Existing :
         player[p].category = loc[r].from /\ player[p].status = loc[r].before
  /\ pc[r] \in {"insert", "activate", "approve"} => Open(loc[r].to)
  /\ pc[r] = "columns" =>
       \A p \in loc[r].id \cap Active :
         Open(loc[r].to) \/ (player[p].category = loc[r].to /\ ~Moves(r))
  /\ pc[r] = "setCategory" /\ loc[r].next = "inactive" =>
       category[loc[r].to] = "inactive" \/ ActiveIn(loc[r].to) = {}
Known == \A r \in Requests : loc[r].stale \/ Knows(r)

CategoryInv == Intent /\ Known /\ ActiveNeedsCategory

OpenOnes == {c \in Categories : category[c] = "active"}

LEMMA OpenIsOpen == \A c : Open(c) <=> c \in OpenOnes
BY DEF Open, OpenOnes

\* The others keep all that the invariant looks at.
LEMMA OthersKeep ==
  ASSUME Slots, NEW r \in Requests, Others(r), NEW q \in Requests \ {r}
  PROVE  /\ pc'[q] = pc[q] /\ loc'[q].id = loc[q].id /\ loc'[q].next = loc[q].next
         /\ loc'[q].from = loc[q].from /\ loc'[q].to = loc[q].to
         /\ loc'[q].writes = loc[q].writes /\ loc'[q].sets = loc[q].sets
         /\ loc'[q].before = loc[q].before
         /\ loc[q].stale \in BOOLEAN
         /\ loc'[q].stale = loc[q].stale \/ loc'[q].stale = TRUE
<1>1. /\ loc[q] \in Local
      /\ LET m == [loc[q] EXCEPT !.stale = TRUE]
         IN /\ m.stale = TRUE /\ m.id = loc[q].id /\ m.next = loc[q].next
            /\ m.from = loc[q].from /\ m.to = loc[q].to /\ m.writes = loc[q].writes
            /\ m.sets = loc[q].sets /\ m.before = loc[q].before
  BY DEF Slots, Local
<1>2. loc[q].stale \in BOOLEAN
  BY <1>1 DEF Local
<1> QED BY <1>1, <1>2 DEF Others

LEMMA IntentStep ==
  ASSUME Slots, Intent, NEW r \in Requests, Others(r), Intends(pc'[r], loc'[r])
  PROVE  Intent'
<1> SUFFICES ASSUME NEW q \in Requests \ {r} PROVE Intends(pc'[q], loc'[q])
  BY DEF Intent
<1>1. Intends(pc[q], loc[q])
  BY DEF Intent
<1> QED BY <1>1, OthersKeep DEF Intends

\* A request that is not told has its player, its category and the players in it as
\* they were.
LEMMA KnownStep ==
  ASSUME Slots, Known, NEW r \in Requests, Others(r), loc'[r].stale \/ Knows(r)',
         \A q \in Requests \ {r} : loc'[q].stale # TRUE =>
           /\ \A p \in loc[q].id : player'[p] = player[p] \/ p \notin Existing'
           /\ loc[q].to \in OpenOnes => loc[q].to \in OpenOnes'
           /\ pc[q] = "setCategory" /\ loc[q].next = "inactive" =>
                /\ category[loc[q].to] = "inactive" => category'[loc[q].to] = "inactive"
                /\ \A p \in Active' : player'[p].category = loc[q].to =>
                     p \in Active /\ player[p].category = loc[q].to
  PROVE  Known'
<1> SUFFICES ASSUME NEW q \in Requests \ {r}, loc'[q].stale # TRUE PROVE Knows(q)'
  BY DEF Known
<1> DEFINE l == loc[q]
<1>1. /\ pc'[q] = pc[q] /\ loc'[q].id = l.id /\ loc'[q].next = l.next /\ loc'[q].from = l.from
      /\ loc'[q].to = l.to /\ loc'[q].before = l.before /\ ~l.stale
  BY OthersKeep
<1>2. Knows(q)
  BY <1>1 DEF Known
<1>3. /\ \A p \in l.id : player'[p] = player[p] \/ p \notin Existing'
      /\ l.to \in OpenOnes => l.to \in OpenOnes'
      /\ pc[q] = "setCategory" /\ l.next = "inactive" =>
           /\ category[l.to] = "inactive" => category'[l.to] = "inactive"
           /\ \A p \in Active' : player'[p].category = l.to => p \in Active /\ player[p].category = l.to
  OBVIOUS
<1>4. /\ \A p \in l.id \cap Existing' : p \in Existing /\ player'[p] = player[p]
      /\ \A p \in l.id \cap Active' : p \in Active /\ player'[p] = player[p]
  BY <1>3 DEF Existing, Active, Settable
<1>5. Open(l.to) => l.to \in OpenOnes'
  BY <1>3, OpenIsOpen
<1>6. pc'[q] \in Activating \cup {"assign", "eligible"} =>
        \A p \in loc'[q].id \cap Existing' :
          player'[p].category = loc'[q].from /\ player'[p].status = loc'[q].before
  BY <1>1, <1>2, <1>4 DEF Knows
<1>7. pc'[q] \in {"insert", "activate", "approve"} => loc'[q].to \in OpenOnes'
  BY <1>1, <1>2, <1>5 DEF Knows
<1>8. Moves(q)' <=> Moves(q)
  BY <1>1 DEF Moves
<1>9. pc'[q] = "columns" =>
       \A p \in loc'[q].id \cap Active' :
         loc'[q].to \in OpenOnes' \/ (player'[p].category = loc'[q].to /\ ~Moves(q)')
  BY <1>1, <1>2, <1>4, <1>5, <1>8 DEF Knows
<1>10. pc'[q] = "setCategory" /\ loc'[q].next = "inactive" =>
         category'[loc'[q].to] = "inactive" \/ ActiveIn(l.to)' = {}
  <2> SUFFICES ASSUME pc[q] = "setCategory", l.next = "inactive"
               PROVE  category'[l.to] = "inactive" \/ ActiveIn(l.to)' = {}
    BY <1>1
  <2>1. category[l.to] = "inactive" \/ ActiveIn(l.to) = {}
    BY <1>2 DEF Knows
  <2>2. \A p : p \in ActiveIn(l.to)' <=> p \in Active' /\ player'[p].category = (l.to)'
    BY DEF ActiveIn
  <2> QED BY <1>1, <1>3, <2>1, <2>2 DEF ActiveIn
<1> QED
  BY <1>6, <1>7, <1>9, <1>10 DEF Knows, Open, OpenOnes

\* An active player is exposed, or about to be moved by r, or has an open category,
\* or is as it was.
LEMMA CategoryStep ==
  ASSUME Slots, ActiveNeedsCategory, NEW r \in Requests, Others(r),
         \A p \in Active' :
           \/ p \in exposed'
           \/ player'[p].category \in OpenOnes'
           \/ Moves(r)' /\ p \in loc'[r].id
           \/ /\ p \in Active \ exposed /\ player'[p].category = player[p].category
              /\ player[p].category \in OpenOnes => player[p].category \in OpenOnes'
              /\ ~(Moves(r) /\ p \in loc[r].id)
  PROVE  ActiveNeedsCategory'
<1> SUFFICES ASSUME NEW p \in Active', p \notin exposed', p \notin Moving'
             PROVE  player'[p].category \in OpenOnes'
  BY DEF ActiveNeedsCategory, Open, OpenOnes
<1>1. ~(Moves(r)' /\ p \in loc'[r].id)
  BY DEF Moving
<1>2. SUFFICES ASSUME p \in Active \ exposed, player'[p].category = player[p].category,
                      player[p].category \in OpenOnes => player[p].category \in OpenOnes',
                      ~(Moves(r) /\ p \in loc[r].id)
               PROVE  player'[p].category \in OpenOnes'
  BY <1>1
<1>3. p \notin Moving
  <2> SUFFICES ASSUME NEW q \in Requests, Moves(q), p \in loc[q].id PROVE FALSE
    BY DEF Moving
  <2>1. q \in Requests \ {r}
    BY <1>2
  <2>2. /\ pc'[q] = pc[q] /\ loc'[q].id = loc[q].id /\ loc'[q].next = loc[q].next
        /\ loc'[q].before = loc[q].before
    BY <2>1, OthersKeep, ZenonT(40)
  <2>3. Moves(q)' /\ p \in loc'[q].id
    BY <2>2 DEF Moves
  <2> QED BY <2>3 DEF Moving
<1>4. Open(player[p].category)
  BY <1>2, <1>3 DEF ActiveNeedsCategory
<1> QED BY <1>2, <1>4, OpenIsOpen

LEMMA BeginKnown ==
  ASSUME IInv, CategoryInv, NEW r \in Requests, NEW stage \in Stages, NEW l \in Local,
         Begin(r, stage, l), Intends(stage, l), Knows(r)'
  PROVE  CategoryInv'
<1>1. Slots /\ Slots' /\ Others(r) /\ pc'[r] = stage /\ loc'[r] = l
  BY Typed, BeginEffect
<1>2. /\ player' = player /\ exposed' = exposed /\ category' = category /\ pc[r] = "idle"
  BY DEF Begin
<1>3. Active' = Active /\ Existing' = Existing /\ OpenOnes' = OpenOnes
  BY <1>2 DEF Active, Existing, OpenOnes
<1>4. Intent'
  BY <1>1, IntentStep DEF CategoryInv
<1>5. Known'
  BY <1>1, <1>2, <1>3, KnownStep DEF CategoryInv
<1>6. exposed \subseteq Active
  BY DEF IInv, TypeOK
<1>7. ~Moves(r)
  BY <1>2 DEF Moves
<1>8. ActiveNeedsCategory'
  BY <1>1, <1>2, <1>3, <1>7, CategoryStep DEF CategoryInv
<1> QED BY <1>4, <1>5, <1>8 DEF CategoryInv

LEMMA ReadKnown ==
  ASSUME IInv, CategoryInv, NEW r \in Requests, NEW stage \in Stages, NEW passes,
         Read(r, passes, stage),
         passes => Intends(stage, loc[r]) /\ (loc[r].stale \/ Knows(r)'),
         pc[r] = "columns" => loc[r].id \cap Active = {}
  PROVE  CategoryInv'
<1>1. Slots /\ Slots' /\ Others(r)
  BY Typed, ReadEffect
<1>2. \/ passes /\ pc'[r] = stage /\ loc'[r] = loc[r]
      \/ ~passes /\ pc'[r] = "idle" /\ loc'[r] = NoLocals
  BY <1>1, ReadEffect
<1>3. /\ player' = player /\ exposed' = exposed /\ category' = category
  BY DEF Read
<1>4. Active' = Active /\ Existing' = Existing /\ OpenOnes' = OpenOnes
  BY <1>3 DEF Active, Existing, OpenOnes
<1>5. Intends(pc'[r], loc'[r]) /\ (loc'[r].stale \/ Knows(r)')
  <2>1. CASE passes
    BY <1>2, <2>1
  <2>2. CASE ~passes
    BY <1>2, <2>2 DEF Intends, Knows, Activating
  <2> QED BY <2>1, <2>2
<1>6. Intent'
  BY <1>1, <1>5, IntentStep DEF CategoryInv
<1>7. Known'
  BY <1>1, <1>3, <1>4, <1>5, KnownStep DEF CategoryInv
<1>8. \A p \in Active : ~(Moves(r) /\ p \in loc[r].id)
  BY DEF Moves
<1>9. ActiveNeedsCategory'
  BY <1>1, <1>3, <1>4, <1>8, CategoryStep DEF CategoryInv
<1> QED BY <1>6, <1>7, <1>9 DEF CategoryInv

LEMMA WriteKnown ==
  ASSUME IInv, CategoryInv, NEW r \in Requests, NEW p \in Players, NEW row \in Row,
         NEW stage \in Stages, Write(r, p, row, stage), stage \in {"idle", "columns", "reason"},
         stage # "idle" => Intends(stage, loc[r]) /\ (loc[r].stale \/ Knows(r)'),
         pc[r] = "columns" => loc[r].id = {p},
         row.status = "active" =>
           \/ loc[r].stale \/ ApprovesWithNull(r)
           \/ row.category \in OpenOnes
           \/ Moves(r)' /\ p \in loc'[r].id
           \/ p \in Active /\ row.category = player[p].category /\ ~Moves(r)
  PROVE  CategoryInv'
<1>1. /\ Slots /\ Slots' /\ Others(r) /\ pc'[r] = stage
      /\ loc'[r] = (IF stage = "idle" THEN NoLocals ELSE loc[r])
      /\ \A q \in Requests \ {r} : p \in loc[q].id => loc'[q].stale = TRUE
  <2>1. Slots
    BY Typed
  <2> QED BY <2>1, WriteEffect, ZenonT(40)
<1>2. /\ player' = [player EXCEPT ![p] = row] /\ category' = category
      /\ exposed' = IF row.status # "active" THEN exposed \ {p}
                    ELSE IF loc[r].stale \/ ApprovesWithNull(r) THEN exposed \cup {p} ELSE exposed
      /\ loc' = [q \in Requests |->
           IF q = r THEN IF stage = "idle" THEN NoLocals ELSE loc[r]
           ELSE IF ReliesOn(q, p, row) THEN [loc[q] EXCEPT !.stale = TRUE]
           ELSE loc[q]]
  BY DEF Write
<1>3. player \in [Players -> Row] /\ exposed \subseteq Active
  BY DEF IInv, TypeOK
<1>4. /\ player'[p] = row /\ \A a \in Players \ {p} : player'[a] = player[a]
  BY <1>2, <1>3
<1>5. Active' = IF row.status = "active" THEN Active \cup {p} ELSE Active \ {p}
  BY <1>4 DEF Active
<1>6. OpenOnes' = OpenOnes
  BY <1>2 DEF OpenOnes
<1>7. Intends(pc'[r], loc'[r]) /\ (loc'[r].stale \/ Knows(r)')
  <2>1. CASE stage = "idle"
    BY <1>1, <2>1 DEF Intends, Knows, Activating
  <2>2. CASE stage # "idle"
    BY <1>1, <2>2
  <2> QED BY <2>1, <2>2
<1>8. Intent'
  BY <1>1, <1>7, IntentStep DEF CategoryInv
<1>9. ASSUME NEW q \in Requests \ {r}, loc'[q].stale # TRUE
      PROVE  /\ \A a \in loc[q].id : player'[a] = player[a] \/ a \notin Existing'
             /\ pc[q] = "setCategory" /\ loc[q].next = "inactive" =>
                  \A a \in Active' : player'[a].category = loc[q].to =>
                     a \in Active /\ player[a].category = loc[q].to
  <2>1. p \notin loc[q].id /\ loc[q].id \subseteq Players
    BY <1>1, <1>9 DEF Slots, Local
  <2>2. ~ReliesOn(q, p, row)
    <3>1. loc[q] \in Local /\ [loc[q] EXCEPT !.stale = TRUE].stale = TRUE
      BY <1>1 DEF Slots, Local
    <3> QED BY <1>2, <1>9, <3>1
  <2>3. pc[q] = "setCategory" /\ loc[q].next = "inactive" /\ row.status = "active"
          => loc[q].to # row.category
    BY <2>2 DEF ReliesOn
  <2>4. Active \subseteq Players
    BY DEF Active
  <2> QED BY <1>4, <1>5, <2>1, <2>3, <2>4
<1>10. Known'
  BY <1>1, <1>2, <1>6, <1>7, <1>9, KnownStep DEF CategoryInv
<1>11. ASSUME NEW a \in Active'
       PROVE  \/ a \in exposed'
              \/ player'[a].category \in OpenOnes'
              \/ Moves(r)' /\ a \in loc'[r].id
              \/ /\ a \in Active \ exposed /\ player'[a].category = player[a].category
                 /\ player[a].category \in OpenOnes => player[a].category \in OpenOnes'
                 /\ ~(Moves(r) /\ a \in loc[r].id)
  <2>1. CASE a = p
    BY <1>2, <1>4, <1>5, <1>6, <2>1
  <2>2. CASE a # p
    <3>1. a \in Active /\ a \in Players
      BY <1>5, <2>2 DEF Active
    <3>2. ~(Moves(r) /\ a \in loc[r].id)
      BY <2>2 DEF Moves
    <3> QED BY <1>2, <1>4, <1>6, <2>2, <3>1, <3>2
  <2> QED BY <2>1, <2>2
<1>12. ActiveNeedsCategory'
  BY <1>1, <1>11, CategoryStep DEF CategoryInv
<1> QED BY <1>8, <1>10, <1>12 DEF CategoryInv

LEMMA RewriteKnown ==
  ASSUME IInv, CategoryInv, NEW r \in Requests, NEW p \in Players, NEW row,
         NEW stage \in Stages, Rewrite(r, p, row, stage), stage \in {"idle", "columns", "reason"},
         p \in Existing => row \in Row,
         p \in Existing /\ stage # "idle" =>
           Intends(stage, loc[r]) /\ (loc[r].stale \/ Knows(r)'),
         pc[r] = "columns" => loc[r].id = {p},
         p \in Existing /\ row.status = "active" =>
           \/ loc[r].stale \/ ApprovesWithNull(r)
           \/ row.category \in OpenOnes
           \/ Moves(r)' /\ p \in loc'[r].id
           \/ p \in Active /\ row.category = player[p].category /\ ~Moves(r)
  PROVE  CategoryInv'
<1>1. CASE p \in Existing
  <2>1. Write(r, p, row, stage)
    BY <1>1 DEF Rewrite
  <2> QED BY <1>1, <2>1, WriteKnown
<1>2. CASE p \notin Existing
  <2>1. Read(r, FALSE, "idle")
    BY <1>2 DEF Rewrite
  <2>2. p \notin Active
    BY <1>2 DEF Active, Existing, Settable
  <2> QED BY <2>1, <2>2, ReadKnown DEF Stages
<1> QED BY <1>1, <1>2

\* One lemma for each group of actions.
LEMMA NewPlayersKnown ==
  ASSUME IInv, CategoryInv, NEW r \in Requests,
         \/ \E c \in Categories : createPlayer(r, c) \/ enrollChild(r, c)
         \/ NewCategory(r) \/ InsertPlayer(r) \/ InsertPending(r)
  PROVE  CategoryInv'
<1>1. ASSUME NEW c \in Categories, NEW stage \in {"newCategory", "enroll"},
             Begin(r, stage, [NoLocals EXCEPT !.to = c])
      PROVE  CategoryInv'
  <2>1. [NoLocals EXCEPT !.to = c] \in Local
    BY EmptyLocals DEF Local
  <2>2. pc'[r] = stage /\ stage \in Stages
    BY <1>1, <2>1, BeginEffect, Typed DEF Stages
  <2>3. Knows(r)' /\ Intends(stage, [NoLocals EXCEPT !.to = c])
    BY <2>2 DEF Knows, Intends, Activating
  <2> QED BY <1>1, <2>1, <2>2, <2>3, BeginKnown
<1>2. CASE \E c \in Categories : createPlayer(r, c) \/ enrollChild(r, c)
  BY <1>1, <1>2 DEF createPlayer, enrollChild
<1>3. CASE NewCategory(r)
  <2>1. pc[r] = "newCategory" /\ Read(r, Open(loc[r].to), "insert") /\ "insert" \in Stages
    BY <1>3 DEF NewCategory, Stages
  <2>2. ASSUME Open(loc[r].to) PROVE Intends("insert", loc[r]) /\ Knows(r)'
    <3>1. pc'[r] = "insert" /\ loc'[r] = loc[r] /\ category' = category
      BY <2>1, <2>2, ReadEffect, Typed DEF Read
    <3> QED BY <2>2, <3>1 DEF Intends, Knows, Activating, Open
  <2> QED BY <2>1, <2>2, ReadKnown
<1> DEFINE New(status) == [NoPlayer EXCEPT !.status = status, !.category = loc[r].to]
<1>4. ASSUME NEW status \in Settable
      PROVE  New(status) \in Row /\ New(status).status = status /\ New(status).category = loc[r].to
  <2>1. loc[r].to \in Maybe
    BY Typed DEF IInv, Slots, Local, Maybe
  <2> QED BY <2>1, EmptyPlayer DEF Row, Maybe
<1>5. CASE InsertPlayer(r)
  <2>1. PICK p \in Players : pc[r] = "insert" /\ Write(r, p, New("active"), "idle")
    BY <1>5 DEF InsertPlayer
  <2>2. New("active") \in Row /\ New("active").status = "active" /\ New("active").category = loc[r].to
    BY <1>4 DEF Settable
  <2>3. loc[r].stale \/ loc[r].to \in OpenOnes
    BY <2>1, OpenIsOpen DEF CategoryInv, Known, Knows
  <2> HIDE DEF New
  <2> QED BY <2>1, <2>2, <2>3, WriteKnown DEF Stages
<1>6. CASE InsertPending(r)
  <2>1. PICK p \in Players : pc[r] = "enroll" /\ Write(r, p, New("pending"), "idle")
    BY <1>6 DEF InsertPending
  <2>2. New("pending") \in Row /\ New("pending").status = "pending"
    BY <1>4 DEF Settable
  <2> HIDE DEF New
  <2> QED BY <2>1, <2>2, WriteKnown DEF Stages
<1> QED BY <1>2, <1>3, <1>5, <1>6

\* What an edit of a player holds.
LEMMA EditHolds ==
  ASSUME NEW p \in Existing, NEW next \in Settable, NEW writes \in BOOLEAN, NEW c \in Maybe,
         player \in [Players -> Row]
  PROVE  /\ Edit(p, next, writes, c) \in Local
         /\ LET l == Edit(p, next, writes, c)
            IN /\ l.id = {p} /\ l.next = next /\ l.writes = writes /\ l.sets = c
               /\ l.before = player[p].status /\ l.from = player[p].category
               /\ l.to = (IF writes THEN c ELSE player[p].category)
<1>1. Edit(p, next, writes, c) \in Local
  BY EditIsTyped
<1> DEFINE l == Edit(p, next, writes, c)
<1>2. /\ l.id = {p} /\ l.next = next /\ l.writes = writes /\ l.sets = c
      /\ l.before = player[p].status /\ l.from = player[p].category
      /\ l.to = (IF writes THEN c ELSE player[p].category)
  BY DEF Edit, NoLocals
<1> QED BY <1>1, <1>2

\* Where an edit goes on to, once its category may be assigned.
LEMMA AfterAssigned ==
  ASSUME NEW l, l.writes => l.sets = l.to, ~l.writes => l.to = l.from,
         l.writes \/ l.next # l.before
  PROVE  /\ AfterAssign(l) \in {"eligible", "columns", "count", "status"}
         /\ Intends(AfterAssign(l), l)
         /\ AfterAssign(l) = "columns" => l.next = l.before /\ (l.next = "active" => l.from = l.to)
<1>1. CASE l.next = "active" /\ l.before = "active" /\ l.from # l.to
  BY <1>1 DEF AfterAssign, Intends, Activating
<1>2. CASE ~(l.next = "active" /\ l.before = "active" /\ l.from # l.to) /\ l.next = l.before
  BY <1>2 DEF AfterAssign, Intends, Activating
<1>3. CASE l.next # l.before /\ l.next = "active"
  BY <1>3 DEF AfterAssign, Intends, Activating
<1>4. CASE l.next # l.before /\ l.next # "active"
  BY <1>4 DEF AfterAssign, Intends, Activating
<1> QED BY <1>1, <1>2, <1>3, <1>4

LEMMA EditsKnown ==
  ASSUME IInv, CategoryInv, NEW r \in Requests, NEW p \in Players, NEW next \in Settable,
         NEW writes \in BOOLEAN, NEW c \in Maybe, updatePlayer(r, p, next, writes, c)
  PROVE  CategoryInv'
<1> DEFINE l == Edit(p, next, writes, c)
           stage == IF writes /\ c # NoCategory THEN "assign" ELSE AfterAssign(l)
<1>1. p \in Existing /\ Begin(r, stage, l) /\ (writes \/ next # player[p].status)
  BY DEF updatePlayer
<1>2. /\ l \in Local /\ l.id = {p} /\ l.next = next /\ l.writes = writes /\ l.sets = c
      /\ l.before = player[p].status /\ l.from = player[p].category
      /\ l.to = (IF writes THEN c ELSE player[p].category)
  <2>1. player \in [Players -> Row]
    BY DEF IInv, TypeOK
  <2> QED BY <1>1, <2>1, EditHolds
<1> HIDE DEF l
<1>3. /\ AfterAssign(l) \in {"eligible", "columns", "count", "status"}
      /\ Intends(AfterAssign(l), l)
      /\ AfterAssign(l) = "columns" => l.next = l.before /\ (l.next = "active" => l.from = l.to)
  BY <1>1, <1>2, AfterAssigned
<1>4. /\ stage \in {"assign", "eligible", "columns", "count", "status"} /\ Intends(stage, l)
      /\ stage = "columns" => l.next = l.before /\ (l.next = "active" => l.from = l.to)
  BY <1>2, <1>3 DEF Intends, Activating
<1> HIDE DEF stage
<1>5. stage \in Stages
  BY <1>4 DEF Stages
<1>6. pc'[r] = stage /\ loc'[r] = l /\ player' = player
  BY <1>1, <1>2, <1>5, BeginEffect, Typed DEF Begin
<1>7. \A a \in loc'[r].id : player'[a].category = loc'[r].from /\ player'[a].status = loc'[r].before
  BY <1>2, <1>6
<1>8. stage = "columns" =>
        \A a \in loc'[r].id \cap Active' : player'[a].category = loc'[r].to /\ ~Moves(r)'
  BY <1>4, <1>6, <1>7 DEF Active, Moves
<1>9. Knows(r)'
  BY <1>4, <1>6, <1>7, <1>8 DEF Knows
<1> QED BY <1>1, <1>2, <1>4, <1>5, <1>9, BeginKnown

\* A check that passes leaves all as it was.
LEMMA Passes ==
  ASSUME IInv, CategoryInv, NEW r \in Requests, NEW stage \in Stages, NEW passes,
         Read(r, passes, stage), pc[r] # "columns",
         passes => Intends(stage, loc[r]),
         passes /\ stage \in Activating \cup {"assign", "eligible"}
           => pc[r] \in Activating \cup {"assign", "eligible"},
         passes /\ stage \in {"insert", "activate", "approve"} => loc[r].to \in OpenOnes,
         passes /\ stage = "columns" =>
           loc[r].stale \/ loc[r].to \in OpenOnes
             \/ \A p \in loc[r].id \cap Active :
                  player[p].category = loc[r].to
                    /\ ~(loc[r].before # "active" /\ loc[r].next = "active"),
         passes /\ stage = "setCategory" => ActiveIn(loc[r].to) = {}
  PROVE  CategoryInv'
<1>1. Slots
  BY Typed
<1>2. ASSUME passes, ~loc[r].stale PROVE Knows(r)'
  <2>1. /\ pc'[r] = stage /\ loc'[r] = loc[r] /\ player' = player /\ category' = category
    BY <1>1, <1>2, ReadEffect DEF Read
  <2>2. Active' = Active /\ Existing' = Existing /\ OpenOnes' = OpenOnes
    BY <2>1 DEF Active, Existing, OpenOnes
  <2>3. Knows(r)
    BY <1>2 DEF CategoryInv, Known
  <2>4. stage \in Activating \cup {"assign", "eligible"} =>
          \A p \in loc'[r].id \cap Existing' :
            player'[p].category = loc'[r].from /\ player'[p].status = loc'[r].before
    BY <1>2, <2>1, <2>2, <2>3 DEF Knows
  <2>5. stage \in {"insert", "activate", "approve"} => loc'[r].to \in OpenOnes'
    BY <1>2, <2>1, <2>2
  <2>6. stage = "columns" => \A p \in loc'[r].id \cap Active' :
          loc'[r].to \in OpenOnes' \/ (player'[p].category = loc'[r].to /\ ~Moves(r)')
    BY <1>2, <2>1, <2>2 DEF Moves
  <2>7. stage = "setCategory" => ActiveIn(loc[r].to)' = {}
    BY <1>2, <2>1, <2>2 DEF ActiveIn
  <2> QED BY <2>1, <2>4, <2>5, <2>6, <2>7 DEF Knows, Open, OpenOnes
<1> QED BY <1>2, ReadKnown DEF Slots, Local

LEMMA ChecksKnown ==
  ASSUME IInv, CategoryInv, NEW r \in Requests,
         AssignCategory(r) \/ EligibleCategory(r) \/ DiscountPlayer(r) \/ ActiveCategory(r)
  PROVE  CategoryInv'
<1>1. Intends(pc[r], loc[r]) /\ (loc[r].stale \/ Knows(r))
  BY DEF CategoryInv, Intent, Known
<1>2. \A p \in Active : p \in Existing /\ player[p].status = "active"
  BY DEF Active, Existing, Settable
<1>3. CASE AssignCategory(r)
  <2> DEFINE stage == AfterAssign(loc[r])
  <2>1. pc[r] = "assign" /\ Read(r, Open(loc[r].to) \/ loc[r].to = loc[r].from, stage)
    BY <1>3 DEF AssignCategory
  <2>2. loc[r].writes /\ loc[r].sets = loc[r].to
    BY <1>1, <2>1 DEF Intends
  <2>3. /\ stage \in {"eligible", "columns", "count", "status"} /\ Intends(stage, loc[r])
        /\ stage = "columns" => loc[r].next = loc[r].before
                                 /\ (loc[r].next = "active" => loc[r].from = loc[r].to)
    BY <2>2, AfterAssigned
  <2> HIDE DEF stage
  <2>4. stage = "columns" /\ ~loc[r].stale =>
          \A p \in loc[r].id \cap Active :
            player[p].category = loc[r].to /\ ~(loc[r].before # "active" /\ loc[r].next = "active")
    BY <1>1, <1>2, <2>1, <2>3 DEF Knows
  <2> QED BY <2>1, <2>3, <2>4, Passes DEF Stages, Activating
<1>4. CASE EligibleCategory(r)
  <2>1. pc[r] = "eligible" /\ Read(r, Open(loc[r].to), "columns")
    BY <1>4 DEF EligibleCategory
  <2>2. Intends("columns", loc[r])
    BY <1>1, <2>1 DEF Intends, Activating
  <2> QED BY <2>1, <2>2, Passes, OpenIsOpen DEF Stages, Activating
<1>5. CASE DiscountPlayer(r)
  <2> DEFINE others == loc[r].count - (IF loc[r].id \subseteq Active THEN 1 ELSE 0)
  <2>1. pc[r] = "discount" /\ Read(r, others < MaxPlayers, "category")
    BY <1>5 DEF DiscountPlayer
  <2> HIDE DEF others
  <2>2. Intends("category", loc[r])
    BY <1>1, <2>1 DEF Intends, Activating
  <2> QED BY <2>1, <2>2, Passes DEF Stages, Activating
<1>6. CASE ActiveCategory(r)
  <2> DEFINE stage == IF loc[r].before = "pending" THEN "approve" ELSE "activate"
  <2>1. pc[r] = "category" /\ Read(r, Open(loc[r].to), stage)
    BY <1>6 DEF ActiveCategory
  <2>2. Intends(stage, loc[r]) /\ stage \in {"approve", "activate"}
    BY <1>1, <2>1 DEF Intends, Activating
  <2> HIDE DEF stage
  <2> QED BY <2>1, <2>2, Passes, OpenIsOpen DEF Stages, Activating
<1> QED BY <1>3, <1>4, <1>5, <1>6

LEMMA CountKnown ==
  ASSUME IInv, CategoryInv, NEW r \in Requests, CountActive(r)
  PROVE  CategoryInv'
<1>1. Slots /\ Intends(pc[r], loc[r]) /\ (loc[r].stale \/ Knows(r))
  BY Typed DEF CategoryInv, Intent, Known
<1> DEFINE n == Cardinality(Active)
           l == [loc[r] EXCEPT !.count = n]
<1>2. /\ pc[r] = "count" /\ pc' = [pc EXCEPT ![r] = "discount"] /\ loc' = [loc EXCEPT ![r] = l]
      /\ UNCHANGED <<player, category, history, begun, failures, exposed>>
  BY DEF CountActive
<1> HIDE DEF n
<1>3. /\ l.id = loc[r].id /\ l.from = loc[r].from /\ l.to = loc[r].to /\ l.writes = loc[r].writes
      /\ l.sets = loc[r].sets /\ l.before = loc[r].before /\ l.next = loc[r].next
      /\ l.stale = loc[r].stale
  BY <1>1 DEF Slots, Local
<1> HIDE DEF l
<1>4. Others(r) /\ pc'[r] = "discount" /\ loc'[r] = l
  BY <1>1, <1>2 DEF Slots, Others
<1>5. Active' = Active /\ Existing' = Existing /\ OpenOnes' = OpenOnes
  BY <1>2 DEF Active, Existing, OpenOnes
<1>6. Intends(pc'[r], loc'[r])
  BY <1>1, <1>2, <1>3, <1>4 DEF Intends, Activating
<1>7. loc'[r].stale \/ Knows(r)'
  BY <1>1, <1>2, <1>3, <1>4, <1>5 DEF Knows, Activating
<1>8. Intent'
  BY <1>1, <1>4, <1>6, IntentStep DEF CategoryInv
<1>9. Known'
  BY <1>1, <1>2, <1>4, <1>5, <1>7, KnownStep DEF CategoryInv
<1>10. ActiveNeedsCategory'
  <2>1. ~Moves(r)
    BY <1>2 DEF Moves
  <2> QED BY <1>1, <1>2, <1>4, <1>5, <2>1, CategoryStep DEF CategoryInv
<1> QED BY <1>8, <1>9, <1>10 DEF CategoryInv

LEMMA UpdatesKnown ==
  ASSUME IInv, CategoryInv, NEW r \in Requests,
         \/ ActivatePlayer(r) \/ SetStatus(r) \/ WriteColumns(r)
         \/ Approve(r) \/ Reject(r) \/ SetReason(r)
  PROVE  CategoryInv'
<1>1. Shape(r) /\ Slots /\ player \in [Players -> Row]
  BY Typed DEF IInv, Shapes, TypeOK
<1>2. PICK p \in Players : loc[r].id = {p}
  BY <1>1 DEF ActivatePlayer, SetStatus, WriteColumns, Approve, Reject, SetReason, Shape, Shaped,
              PlayerStages
<1>3. player[p] \in Row /\ (p \in Existing => player[p].status \in Settable)
  BY <1>1 DEF Existing
<1>4. Intends(pc[r], loc[r]) /\ (loc[r].stale \/ Knows(r))
  BY DEF CategoryInv, Intent, Known
<1>5. Rest(r) \in {"idle", "columns"} /\ Rest(r) \in Stages
  BY DEF Rest, Stages
<1>6. ASSUME NEW row, NEW stage \in Stages, Rewrite(r, p, row, stage), p \in Existing
      PROVE  /\ player'[p] = row /\ category' = category /\ pc'[r] = stage
             /\ stage # "idle" => loc'[r] = loc[r]
             /\ p \in Active' <=> row.status = "active"
  <2>1. Write(r, p, row, stage)
    BY <1>6 DEF Rewrite
  <2>2. player' = [player EXCEPT ![p] = row] /\ category' = category
    BY <2>1 DEF Write
  <2> QED BY <1>1, <2>1, <2>2, WriteEffect DEF Active
<1>7. CASE ActivatePlayer(r)
  <2> DEFINE row == [player[p] EXCEPT !.status = "active", !.rejected = FALSE]
  <2>1. Rewrite(r, p, row, Rest(r)) /\ pc[r] = "activate"
    BY <1>2, <1>7 DEF ActivatePlayer
  <2>2. row \in Row /\ row.status = "active" /\ row.category = player[p].category
    BY <1>3 DEF Row, Settable
  <2> HIDE DEF row
  <2>3. Intends("columns", loc[r]) \/ Rest(r) = "idle"
    BY <1>4, <2>1 DEF Intends, Activating, Rest
  <2>4. p \in Existing /\ Rest(r) # "idle" =>
          /\ Moves(r)' /\ p \in loc'[r].id
          /\ loc[r].stale \/ Knows(r)'
    <3> SUFFICES ASSUME p \in Existing, Rest(r) # "idle"
                 PROVE  /\ Moves(r)' /\ p \in loc'[r].id
                        /\ loc[r].stale \/ Knows(r)'
      OBVIOUS
    <3>1. pc'[r] = "columns" /\ loc'[r] = loc[r] /\ category' = category
      BY <1>5, <1>6, <2>1
    <3>2. Moves(r)'
      BY <1>4, <2>1, <3>1 DEF Intends, Activating, Moves
    <3>3. loc[r].stale \/ Open(loc[r].to)
      BY <1>4, <2>1 DEF Knows
    <3>4. loc[r].stale \/ Knows(r)'
      BY <3>1, <3>3 DEF Knows, Activating, Open
    <3> QED BY <1>2, <3>1, <3>2, <3>4
  <2>5. p \in Existing /\ Rest(r) = "idle" => loc[r].stale \/ row.category \in OpenOnes
    <3> SUFFICES ASSUME p \in Existing, Rest(r) = "idle", ~loc[r].stale
                 PROVE  row.category \in OpenOnes
      OBVIOUS
    <3>1. ~loc[r].writes
      BY DEF Rest
    <3>2. loc[r].to = loc[r].from /\ player[p].category = loc[r].from /\ Open(loc[r].to)
      BY <1>2, <1>4, <2>1, <3>1 DEF Intends, Knows, Activating
    <3> QED BY <2>2, <3>2, OpenIsOpen
  <2> QED BY <1>5, <2>1, <2>2, <2>3, <2>4, <2>5, RewriteKnown
<1>8. CASE SetStatus(r)
  <2> DEFINE next == loc[r].next
             rejected == player[p].rejected /\ next # "inactive"
             row == [player[p] EXCEPT !.status = next, !.rejected = rejected]
  <2>1. Rewrite(r, p, row, Rest(r)) /\ pc[r] = "status"
    BY <1>2, <1>8 DEF SetStatus
  <2>2. next \in Settable /\ next # "active"
    BY <1>1, <2>1 DEF Shape, Shaped
  <2>3. rejected \in BOOLEAN
    BY <1>3 DEF Row
  <2> HIDE DEF next, rejected
  <2>4. row \in Row /\ row.status = next
    BY <1>3, <2>2, <2>3 DEF Row
  <2> HIDE DEF row
  <2>5. Intends("columns", loc[r]) \/ Rest(r) = "idle"
    BY <1>4, <2>1 DEF Intends, Activating, Rest
  <2>6. p \in Existing /\ Rest(r) # "idle" => Knows(r)'
    <3> SUFFICES ASSUME p \in Existing, Rest(r) # "idle" PROVE Knows(r)'
      OBVIOUS
    <3>1. pc'[r] = "columns" /\ loc'[r] = loc[r] /\ p \notin Active'
      BY <1>5, <1>6, <2>1, <2>2, <2>4
    <3> QED BY <1>2, <3>1 DEF Knows, Activating
  <2> QED BY <1>5, <2>1, <2>2, <2>4, <2>5, <2>6, RewriteKnown
<1>9. CASE WriteColumns(r)
  <2> DEFINE sets == loc[r].sets
             row == [player[p] EXCEPT !.category = sets]
  <2>1. Rewrite(r, p, row, "idle") /\ pc[r] = "columns"
    BY <1>2, <1>9 DEF WriteColumns
  <2>2. sets \in Categories \cup {NoCategory} /\ sets = loc[r].to
    BY <1>1, <1>4, <2>1 DEF Slots, Local, Intends
  <2> HIDE DEF sets
  <2>3. row \in Row /\ row.status = player[p].status /\ row.category = sets
    BY <1>3, <2>2 DEF Row
  <2> HIDE DEF row
  <2>4. row.status = "active" => p \in Active
    BY <2>3 DEF Active
  <2>5. row.status = "active" =>
          \/ loc[r].stale \/ row.category \in OpenOnes
          \/ row.category = player[p].category /\ ~Moves(r)
    BY <1>2, <1>4, <2>1, <2>2, <2>3, <2>4, OpenIsOpen DEF Knows
  <2> QED BY <1>2, <2>1, <2>3, <2>4, <2>5, RewriteKnown DEF Stages
<1>10. CASE Approve(r)
  <2> DEFINE column == IF loc[r].writes THEN loc[r].sets ELSE player[p].category
             row == [status |-> "active", rejected |-> FALSE, category |-> column]
  <2>1. Rewrite(r, p, row, "idle") /\ pc[r] = "approve"
    BY <1>2, <1>10 DEF Approve
  <2>2. column \in Categories \cup {NoCategory}
    BY <1>1, <1>3 DEF Slots, Local, Row
  <2>3. p \in Existing => loc[r].stale \/ ApprovesWithNull(r) \/ column \in OpenOnes
    <3> SUFFICES ASSUME p \in Existing, ~loc[r].stale, ~ApprovesWithNull(r)
                 PROVE  column = loc[r].to /\ Open(loc[r].to)
      BY OpenIsOpen
    <3>1. Open(loc[r].to) /\ player[p].category = loc[r].from
      BY <1>2, <1>4, <2>1 DEF Knows, Activating
    <3>2. loc[r].writes => loc[r].sets = loc[r].to
      BY <1>4, <2>1 DEF Intends, Activating, ApprovesWithNull
    <3>3. ~loc[r].writes => loc[r].to = loc[r].from
      BY <1>4, <2>1 DEF Intends, Activating
    <3> QED BY <3>1, <3>2, <3>3
  <2> HIDE DEF column
  <2>4. row \in Row /\ row.category = column
    BY <2>2 DEF Row, Settable
  <2> HIDE DEF row
  <2> QED BY <2>1, <2>3, <2>4, RewriteKnown DEF Stages
<1>11. CASE Reject(r)
  <2> DEFINE row == [player[p] EXCEPT !.status = "inactive"]
  <2>1. Rewrite(r, p, row, "reason") /\ pc[r] = "reject"
    BY <1>2, <1>11 DEF Reject
  <2>2. row \in Row /\ row.status # "active"
    BY <1>3 DEF Row, Settable
  <2> HIDE DEF row
  <2>3. Intends("reason", loc[r])
    BY DEF Intends, Activating
  <2>4. p \in Existing => Knows(r)'
    BY <1>6, <2>1 DEF Knows, Activating, Stages
  <2> QED BY <2>1, <2>2, <2>3, <2>4, RewriteKnown DEF Stages
<1>12. CASE SetReason(r)
  <2> DEFINE row == [player[p] EXCEPT !.rejected = TRUE]
  <2>1. pc[r] = "reason" /\ Rewrite(r, p, row, "idle")
    BY <1>2, <1>12 DEF SetReason
  <2>2. row \in Row /\ row.status = player[p].status /\ row.category = player[p].category
    BY <1>3 DEF Row
  <2> HIDE DEF row
  <2>3. row.status = "active" => p \in Active /\ ~Moves(r)
    BY <2>1, <2>2 DEF Active, Moves
  <2> QED BY <2>1, <2>2, <2>3, RewriteKnown DEF Stages
<1> QED BY <1>7, <1>8, <1>9, <1>10, <1>11, <1>12

LEMMA ReviewsKnown ==
  ASSUME IInv, CategoryInv, NEW r \in Requests, NEW p \in Players,
         \/ \E c \in Maybe : updateChild(r, p, c)
         \/ approvePlayer(r, p, FALSE, NoCategory)
         \/ \E c \in Maybe : approvePlayer(r, p, TRUE, c)
         \/ rejectPlayer(r, p)
  PROVE  CategoryInv'
<1>1. /\ p \in Existing /\ player[p].category \in Maybe /\ player \in [Players -> Row]
      /\ player[p].status = "pending"
  BY DEF updateChild, approvePlayer, rejectPlayer, Existing, Settable, IInv, TypeOK, Row, Maybe
<1>2. ASSUME NEW stage \in Stages, NEW l \in Local, Begin(r, stage, l)
      PROVE  pc'[r] = stage /\ loc'[r] = l /\ player' = player
  BY <1>2, BeginEffect, Typed DEF Begin
<1>3. ASSUME NEW c \in Maybe, updateChild(r, p, c) PROVE CategoryInv'
  <2> DEFINE l == Edit(p, "pending", TRUE, c)
  <2>1. l \in Local /\ l.id = {p} /\ l.writes /\ l.sets = l.to
    <3>1. "pending" \in Settable /\ TRUE \in BOOLEAN
      BY DEF Settable
    <3>2. ASSUME NEW w \in BOOLEAN
          PROVE  LET e == Edit(p, "pending", w, c)
                 IN  /\ e \in Local /\ e.id = {p} /\ e.writes = w /\ e.sets = c
                     /\ e.to = (IF w THEN c ELSE player[p].category)
      BY <1>1, <3>1, EditHolds
    <3>3. ASSUME NEW w \in BOOLEAN, w = TRUE
          PROVE  LET e == Edit(p, "pending", w, c)
                 IN  e \in Local /\ e.id = {p} /\ e.writes /\ e.sets = e.to
      BY <3>2, <3>3
    <3> QED BY <3>1, <3>3
  <2>2. Begin(r, "columns", l) /\ "columns" \in Stages
    BY <1>3 DEF updateChild, Stages
  <2> HIDE DEF l
  <2>3. loc'[r].id \cap Active' = {} /\ pc'[r] = "columns"
    BY <1>1, <1>2, <2>1, <2>2 DEF Active
  <2>4. Knows(r)' /\ Intends("columns", l)
    BY <2>1, <2>3 DEF Knows, Intends, Activating
  <2> QED BY <2>1, <2>2, <2>4, BeginKnown
<1>4. ASSUME NEW writes \in BOOLEAN, NEW c \in Maybe, approvePlayer(r, p, writes, c),
             ~writes => c = NoCategory
      PROVE  CategoryInv'
  <2> DEFINE e == Edit(p, "active", writes, c)
             to == IF c = NoCategory THEN player[p].category ELSE c
             l == [e EXCEPT !.to = to]
  <2>1. Begin(r, "count", l) /\ "count" \in Stages
    BY <1>4 DEF approvePlayer, Stages
  <2>2. /\ e \in Local /\ e.id = {p} /\ e.next = "active" /\ e.writes = writes /\ e.sets = c
        /\ e.before = "pending" /\ e.from = player[p].category
    BY <1>1, EditHolds DEF Settable
  <2>3. to \in Maybe /\ (c = NoCategory => to = player[p].category) /\ (c # NoCategory => to = c)
    BY <1>1
  <2> HIDE DEF e, to
  <2>4. /\ l \in Local /\ l.id = {p} /\ l.next = "active" /\ l.writes = writes /\ l.sets = c
        /\ l.before = "pending" /\ l.from = player[p].category /\ l.to = to
    BY <2>2, <2>3 DEF Local, Maybe
  <2> HIDE DEF l
  <2>5. Intends("count", l)
    BY <1>4, <2>3, <2>4 DEF Intends, Activating
  <2>6. Knows(r)'
    BY <1>1, <1>2, <2>1, <2>4 DEF Knows, Activating
  <2> QED BY <2>1, <2>4, <2>5, <2>6, BeginKnown
<1>5. CASE rejectPlayer(r, p)
  <2> DEFINE l == Edit(p, "inactive", FALSE, NoCategory)
  <2>1. l \in Local
    BY <1>1, EditHolds DEF Settable, Maybe
  <2>2. Begin(r, "reject", l) /\ "reject" \in Stages
    BY <1>5 DEF rejectPlayer, Stages
  <2> HIDE DEF l
  <2>3. Knows(r)' /\ Intends("reject", l)
    BY <1>2, <2>1, <2>2 DEF Knows, Intends, Activating
  <2> QED BY <2>1, <2>2, <2>3, BeginKnown
<1>6. NoCategory \in Maybe
  BY DEF Maybe
<1> QED BY <1>3, <1>4, <1>5, <1>6

\* The steps that write no player but a deleted one.
LEMMA CalmStep ==
  ASSUME IInv, CategoryInv, NEW r \in Requests, Others(r), pc'[r] = "idle",
         category' = category, pc[r] # "columns",
         \A p \in Players : player'[p] = player[p] \/ p \notin Existing',
         \A p \in Active' : p \in exposed => p \in exposed'
  PROVE  CategoryInv'
<1>1. Slots
  BY Typed
<1>2. OpenOnes' = OpenOnes
  BY DEF OpenOnes
<1>3. \A p \in Active' : p \in Active /\ player'[p] = player[p] /\ p \in Existing'
  BY DEF Active, Existing, Settable
<1>4. Intends(pc'[r], loc'[r]) /\ Knows(r)'
  BY DEF Intends, Knows, Activating
<1>5. Intent'
  BY <1>1, <1>4, IntentStep DEF CategoryInv
<1>6. \A q \in Requests : loc[q].id \subseteq Players
  BY <1>1 DEF Slots, Local
<1>7. Known'
  BY <1>1, <1>2, <1>3, <1>4, <1>6, KnownStep DEF CategoryInv
<1>8. ~Moves(r)
  BY DEF Moves
<1>9. ActiveNeedsCategory'
  BY <1>1, <1>2, <1>3, <1>8, CategoryStep DEF CategoryInv
<1> QED BY <1>5, <1>7, <1>9 DEF CategoryInv

LEMMA HistoryStepsKnown ==
  ASSUME IInv, CategoryInv, NEW r \in Requests,
         \/ \E p \in Players : saveAttendance(r, p) \/ deletePlayer(r, p)
         \/ Attend(r) \/ Delete(r)
  PROVE  CategoryInv'
<1>1. Slots /\ player \in [Players -> Row]
  BY Typed DEF IInv, TypeOK
<1>2. ASSUME NEW p \in Players, saveAttendance(r, p) \/ deletePlayer(r, p) PROVE CategoryInv'
  <2> DEFINE l == [NoLocals EXCEPT !.id = {p}]
  <2>1. l \in Local
    BY EmptyLocals DEF Local
  <2>2. PICK stage \in {"attend", "delete"} : Begin(r, stage, l)
    BY <1>2 DEF saveAttendance, deletePlayer
  <2> HIDE DEF l
  <2>3. stage \in Stages /\ pc'[r] = stage
    BY <1>1, <2>1, <2>2, BeginEffect DEF Stages
  <2>4. Knows(r)' /\ Intends(stage, l)
    BY <2>3 DEF Knows, Intends, Activating
  <2> QED BY <2>1, <2>2, <2>3, <2>4, BeginKnown
<1>3. CASE Attend(r)
  <2>1. /\ pc[r] = "attend" /\ pc' = [pc EXCEPT ![r] = "idle"]
        /\ loc' = [q \in Requests |->
             IF q = r THEN NoLocals
             ELSE IF pc[q] = "delete" /\ loc[q].id = loc[r].id THEN [loc[q] EXCEPT !.stale = TRUE]
             ELSE loc[q]]
        /\ UNCHANGED <<player, category, begun, failures, exposed>>
    BY <1>3 DEF Attend
  <2>2. Others(r) /\ pc'[r] = "idle"
    BY <1>1, <2>1 DEF Slots, Others
  <2> QED BY <2>1, <2>2, CalmStep
<1>4. CASE Delete(r)
  <2> DEFINE gone == [NoPlayer EXCEPT !.status = "gone"]
  <2>1. /\ player' = [p \in Players |-> IF p \in loc[r].id THEN gone ELSE player[p]]
        /\ exposed' = exposed \ loc[r].id /\ category' = category /\ pc[r] = "delete"
        /\ pc' = [pc EXCEPT ![r] = "idle"] /\ loc' = [loc EXCEPT ![r] = NoLocals]
    BY <1>4 DEF Delete
  <2>2. gone.status = "gone"
    BY GoneRow
  <2> HIDE DEF gone
  <2>3. Others(r) /\ pc'[r] = "idle"
    BY <1>1, <2>1 DEF Slots, Others
  <2>4. /\ \A p \in Players : player'[p] = player[p] \/ p \notin Existing'
        /\ \A p \in Active' : p \in exposed => p \in exposed'
    BY <2>1, <2>2 DEF Existing, Active, Settable
  <2> QED BY <2>1, <2>3, <2>4, CalmStep
<1> QED BY <1>2, <1>3, <1>4

LEMMA CategoryStepsKnown ==
  ASSUME IInv, CategoryInv, NEW r \in Requests,
         \/ createCategory(r) \/ InsertCategory(r) \/ CategoryUsage(r) \/ SetCategory(r)
         \/ \E c \in Categories, s \in {"active", "inactive"} : updateCategoryStatus(r, c, s)
  PROVE  CategoryInv'
<1>1. /\ Slots /\ category \in [Categories -> {"none", "active", "inactive"}]
      /\ Intends(pc[r], loc[r]) /\ (loc[r].stale \/ Knows(r))
  BY Typed DEF IInv, TypeOK, CategoryInv, Intent, Known
<1>2. CASE createCategory(r)
  <2>1. Begin(r, "insertCategory", NoLocals) /\ "insertCategory" \in Stages
    BY <1>2 DEF createCategory, Stages
  <2>2. pc'[r] = "insertCategory"
    BY <1>1, <2>1, EmptyLocals, BeginEffect
  <2>3. Knows(r)' /\ Intends("insertCategory", NoLocals)
    BY <2>2 DEF Knows, Intends, Activating
  <2> QED BY <2>1, <2>3, EmptyLocals, BeginKnown
<1>3. CASE InsertCategory(r)
  <2>1. PICK c \in Categories : category[c] = "none" /\ category' = [category EXCEPT ![c] = "active"]
    BY <1>3 DEF InsertCategory
  <2>2. /\ pc[r] = "insertCategory"
        /\ pc' = [pc EXCEPT ![r] = "idle"] /\ loc' = [loc EXCEPT ![r] = NoLocals]
        /\ UNCHANGED <<player, history, begun, failures, exposed>>
    BY <1>3 DEF InsertCategory
  <2>3. Others(r) /\ pc'[r] = "idle" /\ ~Moves(r)
    BY <1>1, <2>2 DEF Slots, Others, Moves
  <2>4. Active' = Active /\ OpenOnes \subseteq OpenOnes'
    BY <1>1, <2>1, <2>2 DEF Active, OpenOnes
  <2>5. \A d : category[d] = "inactive" => category'[d] = "inactive" \/ d \notin Categories
    BY <1>1, <2>1
  <2>6. \A q \in Requests : pc[q] = "setCategory" => loc[q].to \in Categories
    BY DEF CategoryInv, Intent, Intends
  <2>7. Intends(pc'[r], loc'[r]) /\ Knows(r)'
    BY <2>3 DEF Intends, Knows, Activating
  <2>8. Intent'
    BY <1>1, <2>3, <2>7, IntentStep DEF CategoryInv
  <2>9. Known'
    BY <1>1, <2>2, <2>3, <2>4, <2>5, <2>6, <2>7, KnownStep DEF CategoryInv
  <2>10. ActiveNeedsCategory'
    BY <1>1, <2>2, <2>3, <2>4, CategoryStep DEF CategoryInv
  <2> QED BY <2>8, <2>9, <2>10 DEF CategoryInv
<1>4. ASSUME NEW c \in Categories, NEW s \in {"active", "inactive"}, updateCategoryStatus(r, c, s)
      PROVE  CategoryInv'
  <2> DEFINE stage == IF s = "inactive" /\ category[c] = "active" THEN "usage" ELSE "setCategory"
             l == [NoLocals EXCEPT !.to = c, !.next = s]
  <2>1. Begin(r, stage, l) /\ category[c] # "none"
    BY <1>4 DEF updateCategoryStatus
  <2>2. l \in Local /\ l.next = s /\ l.to = c
    BY EmptyLocals DEF Local, Settable
  <2> HIDE DEF l
  <2>3. /\ stage \in {"usage", "setCategory"}
        /\ stage = "setCategory" => s = "active" \/ category[c] = "inactive"
    BY <1>1, <2>1
  <2> HIDE DEF stage
  <2>4. stage \in Stages /\ Intends(stage, l)
    BY <2>2, <2>3 DEF Stages, Intends, Activating
  <2>5. pc'[r] = stage /\ loc'[r] = l /\ category' = category
    BY <1>1, <2>1, <2>2, <2>4, BeginEffect DEF Begin
  <2>6. Knows(r)'
    BY <2>2, <2>3, <2>5 DEF Knows, Activating
  <2> QED BY <2>1, <2>2, <2>4, <2>6, BeginKnown
<1>5. CASE CategoryUsage(r)
  <2>1. pc[r] = "usage" /\ Read(r, ActiveIn(loc[r].to) = {}, "setCategory")
    BY <1>5 DEF CategoryUsage
  <2>2. Intends("setCategory", loc[r])
    BY <1>1, <2>1 DEF Intends, Activating
  <2> QED BY <2>1, <2>2, Passes DEF Stages, Activating
<1>6. CASE SetCategory(r)
  <2> DEFINE c == loc[r].to
  <2>1. /\ pc[r] = "setCategory" /\ category' = [category EXCEPT ![c] = loc[r].next]
        /\ exposed' = IF loc[r].stale /\ loc[r].next = "inactive"
                      THEN exposed \cup ActiveIn(c) ELSE exposed
        /\ pc' = [pc EXCEPT ![r] = "idle"]
        /\ loc' = [q \in Requests |->
             IF q = r THEN NoLocals
             ELSE IF loc[q].to = c /\ loc[q].to # NoCategory
                  THEN [loc[q] EXCEPT !.stale = TRUE] ELSE loc[q]]
        /\ UNCHANGED <<player, history, begun, failures>>
    BY <1>6 DEF SetCategory
  <2>2. \A q \in Requests : /\ loc[q] \in Local
                             /\ [loc[q] EXCEPT !.stale = TRUE].stale = TRUE
    BY <1>1 DEF Slots, Local
  <2>3. Others(r) /\ pc'[r] = "idle" /\ ~Moves(r)
    BY <1>1, <2>1 DEF Slots, Others, Moves
  <2>4. Active' = Active
    BY <2>1 DEF Active
  <2>5. /\ c \in Categories /\ c # NoCategory
        /\ loc[r].next \in {"active", "inactive"}
        /\ category'[c] = loc[r].next
        /\ \A d \in Categories \ {c} : category'[d] = category[d]
    <3>1. Shape(r) /\ c \in Categories
      BY <1>1, <2>1 DEF IInv, Shapes, Intends
    <3> QED BY <1>1, <2>1, <3>1, RosterAssumption DEF Shape, Shaped
  <2> HIDE DEF c
  <2>6. \A d \in Categories \ {c} : d \in OpenOnes <=> d \in OpenOnes'
    BY <2>5 DEF OpenOnes
  <2>7. \A q \in Requests \ {r} : loc'[q].stale # TRUE => loc[q].to # c
    BY <2>1, <2>2, <2>5
  <2>8. \A q \in Requests : pc[q] = "setCategory" => loc[q].to \in Categories
    BY DEF CategoryInv, Intent, Intends
  <2>9. \A d : d \in OpenOnes => d \in Categories
    BY DEF OpenOnes
  <2>10. Intends(pc'[r], loc'[r]) /\ Knows(r)'
    BY <2>3 DEF Intends, Knows, Activating
  <2>11. Intent'
    BY <1>1, <2>3, <2>10, IntentStep DEF CategoryInv
  <2>12. ASSUME NEW q \in Requests \ {r}, loc'[q].stale # TRUE
         PROVE  /\ loc[q].to \in OpenOnes => loc[q].to \in OpenOnes'
                /\ pc[q] = "setCategory" => category'[loc[q].to] = category[loc[q].to]
    BY <2>5, <2>6, <2>7, <2>8, <2>9, <2>12
  <2>13. Known'
    BY <1>1, <2>1, <2>3, <2>4, <2>10, <2>12, KnownStep DEF CategoryInv
  <2>14. ASSUME NEW p \in Active
         PROVE  \/ p \in exposed' \/ player[p].category \in OpenOnes'
                \/ /\ p \notin exposed
                   /\ player[p].category \in OpenOnes => player[p].category \in OpenOnes'
    <3>1. CASE player[p].category # c \/ p \in exposed
      BY <2>1, <2>6, <2>9, <3>1
    <3>2. CASE player[p].category = c /\ loc[r].next = "active"
      BY <2>5, <3>2 DEF OpenOnes
    <3>3. CASE player[p].category = c /\ loc[r].next = "inactive"
      <4>1. p \in ActiveIn(c)
        BY <3>3 DEF ActiveIn
      <4>2. CASE loc[r].stale
        BY <2>1, <3>3, <4>1, <4>2
      <4>3. CASE ~loc[r].stale
        <5>1. category[c] = "inactive"
          BY <1>1, <2>1, <3>3, <4>1, <4>3 DEF Knows, c
        <5> QED BY <2>1, <3>3, <4>3, <5>1 DEF OpenOnes
      <4> QED BY <4>2, <4>3
    <3> QED BY <2>5, <3>1, <3>2, <3>3
  <2>15. ActiveNeedsCategory'
    BY <1>1, <2>1, <2>3, <2>4, <2>14, CategoryStep DEF CategoryInv
  <2> QED BY <2>11, <2>13, <2>15 DEF CategoryInv
<1> QED BY <1>2, <1>3, <1>4, <1>5, <1>6

LEMMA FailuresKnown ==
  ASSUME IInv, CategoryInv, NEW r \in Requests, Fail(r)
  PROVE  CategoryInv'
<1>1. Slots
  BY Typed
<1>2. /\ pc' = [pc EXCEPT ![r] = "idle"] /\ loc' = [loc EXCEPT ![r] = NoLocals]
      /\ exposed' = IF pc[r] = "columns" THEN exposed \cup (loc[r].id \cap Active) ELSE exposed
      /\ UNCHANGED <<player, category, history, begun>>
  BY DEF Fail
<1>3. Others(r) /\ pc'[r] = "idle"
  BY <1>1, <1>2 DEF Slots, Others
<1>4. Active' = Active /\ OpenOnes' = OpenOnes
  BY <1>2 DEF Active, OpenOnes
<1>5. Intends(pc'[r], loc'[r]) /\ Knows(r)'
  BY <1>3 DEF Intends, Knows, Activating
<1>6. Intent'
  BY <1>1, <1>3, <1>5, IntentStep DEF CategoryInv
<1>7. Known'
  BY <1>1, <1>2, <1>3, <1>4, <1>5, KnownStep DEF CategoryInv
<1>8. ActiveNeedsCategory'
  BY <1>1, <1>2, <1>3, <1>4, CategoryStep DEF CategoryInv, Moves
<1> QED BY <1>6, <1>7, <1>8 DEF CategoryInv

LEMMA CategoryInvNext == IInv /\ CategoryInv /\ Next => CategoryInv'
<1> SUFFICES ASSUME IInv, CategoryInv, Next PROVE CategoryInv'
  OBVIOUS
<1>1. NoCategory \in Maybe /\ TRUE \in BOOLEAN /\ FALSE \in BOOLEAN
  BY DEF Maybe
<1>2. PICK r \in Requests :
       \/ \E c \in Categories : createPlayer(r, c) \/ enrollChild(r, c)
       \/ NewCategory(r) \/ InsertPlayer(r) \/ InsertPending(r)
       \/ \E p \in Players, next \in Settable :
            \/ updatePlayer(r, p, next, FALSE, NoCategory)
            \/ \E c \in Maybe : updatePlayer(r, p, next, TRUE, c)
       \/ AssignCategory(r) \/ EligibleCategory(r)
       \/ CountActive(r) \/ DiscountPlayer(r) \/ ActiveCategory(r)
       \/ ActivatePlayer(r) \/ SetStatus(r) \/ WriteColumns(r)
       \/ \E p \in Players :
            \/ \E c \in Maybe : updateChild(r, p, c)
            \/ approvePlayer(r, p, FALSE, NoCategory)
            \/ \E c \in Maybe : approvePlayer(r, p, TRUE, c)
            \/ rejectPlayer(r, p) \/ saveAttendance(r, p) \/ deletePlayer(r, p)
       \/ Approve(r) \/ Reject(r) \/ SetReason(r) \/ Attend(r) \/ Delete(r)
       \/ createCategory(r) \/ InsertCategory(r)
       \/ \E c \in Categories, s \in {"active", "inactive"} : updateCategoryStatus(r, c, s)
       \/ CategoryUsage(r) \/ SetCategory(r)
       \/ Fail(r)
  BY DEF Next, Maybe
<1>3. CASE \/ \E c \in Categories : createPlayer(r, c) \/ enrollChild(r, c)
           \/ NewCategory(r) \/ InsertPlayer(r) \/ InsertPending(r)
  BY <1>3, NewPlayersKnown
<1>4. CASE \E p \in Players, next \in Settable :
             \/ updatePlayer(r, p, next, FALSE, NoCategory)
             \/ \E c \in Maybe : updatePlayer(r, p, next, TRUE, c)
  BY <1>1, <1>4, EditsKnown
<1>5. CASE AssignCategory(r) \/ EligibleCategory(r) \/ DiscountPlayer(r) \/ ActiveCategory(r)
  BY <1>5, ChecksKnown
<1>6. CASE CountActive(r)
  BY <1>6, CountKnown
<1>7. CASE \/ ActivatePlayer(r) \/ SetStatus(r) \/ WriteColumns(r)
           \/ Approve(r) \/ Reject(r) \/ SetReason(r)
  BY <1>7, UpdatesKnown
<1>8. CASE \E p \in Players :
            \/ \E c \in Maybe : updateChild(r, p, c)
            \/ approvePlayer(r, p, FALSE, NoCategory)
            \/ \E c \in Maybe : approvePlayer(r, p, TRUE, c)
            \/ rejectPlayer(r, p)
  BY <1>8, ReviewsKnown
<1>9. CASE \/ \E p \in Players : saveAttendance(r, p) \/ deletePlayer(r, p)
           \/ Attend(r) \/ Delete(r)
  BY <1>9, HistoryStepsKnown
<1>10. CASE \/ createCategory(r) \/ InsertCategory(r) \/ CategoryUsage(r) \/ SetCategory(r)
            \/ \E c \in Categories, s \in {"active", "inactive"} : updateCategoryStatus(r, c, s)
  BY <1>10, CategoryStepsKnown
<1>11. CASE Fail(r)
  BY <1>11, FailuresKnown
<1> QED
  BY <1>2, <1>3, <1>4, <1>5, <1>6, <1>7, <1>8, <1>9, <1>10, <1>11, Zenon

LEMMA CategoryInvInit == Init => CategoryInv
<1> SUFFICES ASSUME Init PROVE CategoryInv
  OBVIOUS
<1>1. \A r \in Requests : pc[r] = "idle"
  BY DEF Init
<1>2. Active = {}
  BY EmptyPlayer DEF Init, Active
<1> QED
  BY <1>1, <1>2 DEF CategoryInv, Intent, Intends, Known, Knows, Activating, ActiveNeedsCategory

LEMMA CategoryInvRests == CategoryInv /\ UNCHANGED vars => CategoryInv'
<1> SUFFICES ASSUME CategoryInv, UNCHANGED vars PROVE CategoryInv'
  OBVIOUS
<1>1. /\ player' = player /\ category' = category /\ pc' = pc /\ loc' = loc /\ exposed' = exposed
  BY DEF vars
<1>2. Active' = Active /\ Existing' = Existing
  BY <1>1 DEF Active, Existing
<1>3. Moving' = Moving
  BY <1>1 DEF Moving, Moves
<1>4. Intent'
  BY <1>1 DEF CategoryInv, Intent
<1>5. Known'
  BY <1>1, <1>2 DEF CategoryInv, Known, Knows, Moves, ActiveIn, Open
<1>6. ActiveNeedsCategory'
  BY <1>1, <1>2, <1>3 DEF CategoryInv, ActiveNeedsCategory, Open
<1> QED BY <1>4, <1>5, <1>6 DEF CategoryInv

\* RN-05: an active player has an open category, however many requests overlap, but for
\* those a request has written on what had become false, left half-way, or approved with
\* NULL, and those about to be moved (assertCategoryForActivePlayer, countUsage).
THEOREM ActivePlayersArePlaced == Spec => []ActiveNeedsCategory
<1>1. CategoryInv => ActiveNeedsCategory
  BY DEF CategoryInv
<1>2. IInv /\ CategoryInv /\ [Next]_vars => CategoryInv'
  BY CategoryInvNext, CategoryInvRests
<1> QED BY Invariance, CategoryInvInit, <1>1, <1>2, PTL DEF Spec
=============================================================================
