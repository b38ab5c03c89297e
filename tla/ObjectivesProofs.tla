-------------------------- MODULE ObjectivesProofs --------------------------
(***************************************************************************)
(* Proofs about Objectives, for every value of its constants.  The status  *)
(* of objectives, the territory and the ghosts use nothing of the spawn    *)
(* queue: whatever it holds, these hold.  That DCS comes to have what it   *)
(* ought to have is all about the queue, and the second half is that.      *)
(***************************************************************************)
EXTENDS Objectives, FoldLemmas

---------------------------------------------------------------------------
(* Ghosts.                                                                 *)

\* A group the campaign may have had: of a base, of a FARP built, a squad deployed.
WasUsed(g) == IF g \in Troops THEN g \in used ELSE Home[g] \in Farps => Home[g] \in used

\* DCS has nothing of what was never used, and none of its units are dead.
FreshIsClean ==
    \A g \in Groups : ~WasUsed(g) => UnitsOf[g] \cap dcs = {} /\ UnitsOf[g] \cap dead = {}

Sets ==
    /\ groups \subseteq Groups /\ known \subseteq Groups
    /\ dcs \subseteq UnitsIn(Groups) /\ dead \subseteq UnitsIn(Groups)
    /\ \A g \in groups : WasUsed(g)

GhostInv == Sets /\ FreshIsClean /\ NoGhosts

LEMMA OneGroup ==
    ASSUME NEW g \in Groups, NEW h \in Groups, NEW u \in UnitsOf[g], u \in UnitsOf[h]
    PROVE  g = h
  BY ObjectivesConstants

LEMMA GroupOfUnit ==
    ASSUME NEW g \in Groups, NEW u \in UnitsOf[g]
    PROVE  GroupOf(u) = g
<1>1. GroupOf(u) \in Groups /\ u \in UnitsOf[GroupOf(u)]
  BY DEF GroupOf
<1> QED
  BY <1>1, OneGroup

LEMMA InitGhosts == Init => GhostInv
<1> SUFFICES ASSUME Init PROVE GhostInv
  OBVIOUS
<1> DEFINE gs == {g \in BaseGroups : SideOf[g] # InitOwner[Home[g]]}
<1>1. groups = BaseGroups /\ dead = UnitsIn(gs) /\ used = {}
      /\ index = UnitsIn(known) \ dead /\ dcs = index /\ known \subseteq BaseGroups
      /\ \A g \in BaseGroups : g \in known <=>
            g \in AfterLoad(owner, BaseGroups, dead) /\ Alive(g, dead) # {}
  BY DEF Init, AfterLoad
<1>2. BaseGroups \subseteq Groups \ Troops
      /\ \A g \in Groups : WasUsed(g) <=> g \in BaseGroups
  BY <1>1, ObjectivesConstants DEF BaseGroups, WasUsed, Objs
<1>3. Sets
  BY <1>1, <1>2 DEF Sets, UnitsIn
<1>4. FreshIsClean
  BY <1>1, <1>2, OneGroup DEF FreshIsClean, UnitsIn
<1>5. NoGhosts
  BY <1>1, <1>2, OneGroup DEF NoGhosts, UnitsIn
<1> QED
  BY <1>3, <1>4, <1>5 DEF GhostInv

\* Most steps only take from DCS, from the dead, from the groups and what is theirs.
LEMMA LessIsClean ==
    ASSUME GhostInv, NEW gs,
           groups' = groups \ gs, index \ UnitsIn(gs) \subseteq index', known \subseteq known',
           known' \subseteq Groups, dcs' \subseteq dcs, dead' \subseteq dead, used' = used,
           gs \subseteq Groups
    PROVE  GhostInv'
<1>1. Sets'
  BY DEF GhostInv, Sets, WasUsed
<1>2. FreshIsClean'
  BY DEF GhostInv, FreshIsClean, WasUsed
<1>3. NoGhosts'
  <2> SUFFICES ASSUME NEW g \in groups', NEW u \in UnitsOf[g], u \in dcs'
               PROVE  u \notin dead' /\ u \in index' /\ g \in known'
    BY DEF NoGhosts
  <2>1. g \in groups /\ g \notin gs /\ g \in Groups
    BY DEF GhostInv, Sets
  <2>2. u \notin dead /\ u \in index /\ g \in known
    BY <2>1 DEF GhostInv, NoGhosts
  <2>3. u \notin UnitsIn(gs)
    BY <2>1, OneGroup DEF UnitsIn
  <2> QED
    BY <2>2, <2>3
<1> QED
  BY <1>1, <1>2, <1>3 DEF GhostInv

LEMMA UnitDiesGhosts == ASSUME GhostInv, NEW u, UnitDies(u) PROVE GhostInv'
<1>1. /\ u \in dcs /\ dcs' = dcs \ {u} /\ index' = index \ {u} /\ dead' = dead \cup {u}
      /\ UNCHANGED <<groups, known, used>>
  BY DEF UnitDies
<1>2. Sets'
  BY <1>1 DEF GhostInv, Sets, WasUsed
<1>3. FreshIsClean'
  BY <1>1 DEF GhostInv, FreshIsClean, WasUsed
<1>4. NoGhosts'
  BY <1>1 DEF GhostInv, NoGhosts
<1> QED
  BY <1>2, <1>3, <1>4 DEF GhostInv

LEMMA DespawnGhosts == ASSUME GhostInv, NEW due, Despawn(due) PROVE GhostInv'
<1> DEFINE g == Head(WithDue(q, due).despawn)
<1>1. /\ dcs' = dcs \ UnitsOf[g]
      /\ known' = IF g \in groups THEN known \ {g} ELSE known
      /\ index' = IF g \in groups THEN index \ UnitsOf[g] ELSE index
      /\ UNCHANGED <<groups, dead, used>>
  BY DEF Despawn, campaign
<1> HIDE DEF g
<1>2. Sets'
  BY <1>1 DEF GhostInv, Sets, WasUsed
<1>3. FreshIsClean'
  BY <1>1 DEF GhostInv, FreshIsClean, WasUsed
<1>4. NoGhosts'
  BY <1>1 DEF GhostInv, NoGhosts
<1> QED
  BY <1>2, <1>3, <1>4 DEF GhostInv

LEMMA SpawnGhosts == ASSUME GhostInv, NEW due, Spawn(due) PROVE GhostInv'
<1> DEFINE g == Head(WithDue(q, due).spawn)
<1>1. /\ IF g \in groups /\ Alive(g, dead) # {}
         THEN /\ dcs' = (dcs \ UnitsOf[g]) \cup Alive(g, dead)
              /\ known' = known \cup {g} /\ index' = index \cup Alive(g, dead)
         ELSE UNCHANGED <<dcs, indices>>
      /\ UNCHANGED <<groups, dead, used>>
  BY DEF Spawn, campaign
<1> HIDE DEF g
<1>2. CASE ~(g \in groups /\ Alive(g, dead) # {})
  BY <1>1, <1>2 DEF GhostInv, Sets, FreshIsClean, NoGhosts, WasUsed, indices
<1>3. CASE g \in groups /\ Alive(g, dead) # {}
  <2>1. g \in Groups /\ WasUsed(g) /\ Alive(g, dead) = UnitsOf[g] \ dead
    BY <1>3 DEF GhostInv, Sets, Alive
  <2>2. Sets'
    BY <1>1, <1>3, <2>1 DEF GhostInv, Sets, WasUsed, UnitsIn
  <2>3. FreshIsClean'
    BY <1>1, <1>3, <2>1, OneGroup DEF GhostInv, FreshIsClean, WasUsed
  <2>4. NoGhosts'
    BY <1>1, <1>3, <2>1, OneGroup DEF GhostInv, NoGhosts, Sets
  <2> QED
    BY <2>2, <2>3, <2>4 DEF GhostInv
<1> QED
  BY <1>2, <1>3

LEMMA NewGhosts ==
    ASSUME GhostInv, NEW x, x \notin used, used' = used \cup {x}, NEW gs \in SUBSET Groups,
           groups' = groups \cup gs, UNCHANGED <<dcs, dead, indices>>,
           \A g \in gs : ~WasUsed(g) /\ WasUsed(g)'
    PROVE  GhostInv'
<1>1. \A g \in Groups : WasUsed(g) => WasUsed(g)'
  BY DEF WasUsed
<1>2. Sets'
  BY <1>1 DEF GhostInv, Sets, indices
<1>3. FreshIsClean'
  BY <1>1 DEF GhostInv, FreshIsClean
<1>4. NoGhosts'
  BY DEF GhostInv, NoGhosts, FreshIsClean, indices
<1> QED
  BY <1>2, <1>3, <1>4 DEF GhostInv

LEMMA RestartGhosts == ASSUME GhostInv, Restart PROVE GhostInv'
<1>1. /\ known' \subseteq groups
      /\ index' = UnitsIn(known') \ dead /\ dcs' = index' /\ UNCHANGED <<groups, dead, used>>
  BY DEF Restart, AfterLoad, campaign
<1>2. Sets'
  BY <1>1 DEF GhostInv, Sets, WasUsed, UnitsIn
<1>3. FreshIsClean'
  BY <1>1, OneGroup DEF GhostInv, Sets, FreshIsClean, WasUsed, UnitsIn
<1>4. NoGhosts'
  BY <1>1, OneGroup DEF GhostInv, Sets, NoGhosts, UnitsIn
<1> QED
  BY <1>2, <1>3, <1>4 DEF GhostInv

LEMMA HandoverGhosts ==
    ASSUME GhostInv, NEW o, NEW s, NEW spent \in SUBSET Groups, Handover(o, s, spent)
    PROVE  GhostInv'
<1>1. /\ dead' \subseteq dead /\ groups' = groups \ spent /\ index' = index \ UnitsIn(spent)
      /\ UNCHANGED <<dcs, known, used>>
  BY DEF Handover
<1> QED
  BY <1>1, LessIsClean DEF GhostInv, Sets

\* The actions that leave the groups, DCS and the indices alone.
LEMMA QuietGhosts ==
    ASSUME GhostInv, UNCHANGED <<groups, known, index, dcs, used>>, dead' \subseteq dead
    PROVE  GhostInv'
<1>1. known \subseteq Groups /\ groups' = groups \ {} /\ index \ UnitsIn({}) \subseteq index'
  BY DEF GhostInv, Sets
<1> QED
  BY <1>1, LessIsClean

LEMMA TimerGhosts == ASSUME GhostInv, Timer PROVE GhostInv'
<1>1. CASE \E due \in DueTogether : Despawn(due) \/ Spawn(due)
  BY <1>1, DespawnGhosts, SpawnGhosts
<1>2. ASSUME NEW o, Repair(o) PROVE GhostInv'
  BY <1>2, QuietGhosts DEF Repair, indices
<1>3. ASSUME NEW o, Activate(o) \/ Cull(o) PROVE GhostInv'
  BY <1>3, QuietGhosts DEF Activate, Cull, campaign, indices
<1>4. ASSUME NEW o, Capture(o) PROVE GhostInv'
  <2>1. Inside(o) \subseteq Groups
    BY DEF Inside, GhostInv, Sets
  <2> QED
    BY <1>4, <2>1, HandoverGhosts DEF Capture
<1> QED
  BY <1>1, <1>2, <1>3, <1>4 DEF Timer

LEMMA StepGhosts == GhostInv /\ [Next]_vars => GhostInv'
<1> SUFFICES ASSUME GhostInv, [Next]_vars PROVE GhostInv'
  OBVIOUS
<1> USE ObjectivesConstants
<1>0. groups \subseteq Groups /\ known \subseteq Groups
  BY DEF GhostInv, Sets
<1>1. CASE Timer
  BY <1>1, TimerGhosts
<1>2. CASE Faults
  <2>1. CASE Restart
    BY <2>1, RestartGhosts
  <2>2. ASSUME NEW o, CaptureHalts(o) PROVE GhostInv'
    BY <2>2, HandoverGhosts DEF CaptureHalts
  <2>3. ASSUME NEW o, CaptureFails(o) PROVE GhostInv'
    BY <2>3, QuietGhosts DEF CaptureFails, indices
  <2> QED
    BY <1>2, <2>1, <2>2, <2>3 DEF Faults
<1>3. ASSUME NEW u, UnitDies(u) PROVE GhostInv'
  BY <1>3, UnitDiesGhosts
<1>4. ASSUME NEW u, FarpFalls(u) PROVE GhostInv'
  <2> DEFINE gs == {g \in groups \ Troops : Home[g] = Home[GroupOf(u)]}
  <2>1. /\ groups' = groups \ gs /\ index' = index \ UnitsIn(gs) /\ dcs' \subseteq dcs
        /\ dead' \subseteq dead /\ UNCHANGED <<known, used>>
    BY <1>4 DEF FarpFalls
  <2>2. gs \subseteq Groups
    BY <1>0
  <2> HIDE DEF gs
  <2> QED
    BY <1>0, <2>1, <2>2, LessIsClean
<1>5. ASSUME NEW ts \in SUBSET Groups, NEW world, DeleteTroops(ts, world), dcs' \subseteq dcs
      PROVE  GhostInv'
  BY <1>0, <1>5, LessIsClean DEF DeleteTroops
<1>6. ASSUME NEW u, SquadDies(u) PROVE GhostInv'
  <2>1. /\ DeleteTroops({GroupOf(u)}, dcs') /\ dcs' \subseteq dcs
        /\ {GroupOf(u)} \in SUBSET Groups
    BY <1>6 DEF SquadDies
  <2> QED
    BY <2>1, <1>5
<1>7. ASSUME NEW u, StrangerDies(u) PROVE GhostInv'
  <2>1. /\ groups' = groups \ {} /\ index \ UnitsIn({}) \subseteq index' /\ dcs' \subseteq dcs
        /\ UNCHANGED <<known, dead, used>>
    BY <1>7 DEF StrangerDies, campaign, indices
  <2> QED
    BY <1>0, <2>1, LessIsClean
<1>8. ASSUME NEW t \in Troops, DeployTroop(t) PROVE GhostInv'
  <2> DEFINE gs == {t}
  <2>1. /\ t \notin used /\ used' = used \cup {t} /\ groups' = groups \cup gs
        /\ UNCHANGED <<dcs, dead, indices>>
    BY <1>8 DEF DeployTroop, New
  <2>2. gs \in SUBSET Groups /\ \A g \in gs : ~WasUsed(g) /\ WasUsed(g)'
    BY <2>1 DEF WasUsed
  <2> HIDE DEF gs
  <2> QED
    BY <2>1, <2>2, NewGhosts
<1>9. ASSUME NEW t \in Troops, PickUp(t) PROVE GhostInv'
  <2>1. DeleteTroops({t}, dcs) /\ dcs' \subseteq dcs /\ {t} \in SUBSET Groups
    BY <1>9 DEF PickUp
  <2> QED
    BY <2>1, <1>5
<1>10. ASSUME NEW o, UnpackRepair(o) PROVE GhostInv'
  BY <1>10, QuietGhosts DEF UnpackRepair, indices
<1>11. ASSUME NEW f \in Farps, AddFarp(f) PROVE GhostInv'
  <2> DEFINE gs == {g \in Groups \ Troops : Home[g] = f}
  <2>1. /\ f \notin used /\ used' = used \cup {f} /\ groups' = groups \cup gs
        /\ UNCHANGED <<dcs, dead, indices>>
    BY <1>11 DEF AddFarp, New
  <2>2. gs \in SUBSET Groups /\ \A g \in gs : ~WasUsed(g) /\ WasUsed(g)'
    BY <2>1 DEF WasUsed
  <2> HIDE DEF gs
  <2> QED
    BY <2>1, <2>2, NewGhosts
<1>12. CASE UNCHANGED vars
  BY <1>12, QuietGhosts DEF vars, campaign, indices
<1> QED
  BY <1>1, <1>2, <1>3, <1>4, <1>6, <1>7, <1>8, <1>9, <1>10, <1>11, <1>12 DEF Next

\* Whatever the queue cancels and however a restart or a capture comes in between, a unit in
\* DCS of a group of the campaign is alive in the campaign, and the indices find it.
THEOREM NoGhostsEver == Spec => []NoGhosts
<1>1. GhostInv => NoGhosts
  BY DEF GhostInv
<1> QED
  BY <1>1, InitGhosts, StepGhosts, PTL DEF Spec

---------------------------------------------------------------------------
(* Percentages.                                                            *)

LEMMA PartOfHundred ==
    ASSUME NEW t \in Nat \ {0}, NEW a \in 0..t
    PROVE  /\ (100 * a) \div t \in 0..100
           /\ (100 * t) \div t = 100
           /\ (100 * a) \div t = 0 => \A b \in 0..a : (100 * b) \div t = 0
           /\ a > 0 /\ t <= 100 => (100 * a) \div t > 0
<1> DEFINE r == (100 * a) \div t
<1>1. r \in Int /\ t * r <= 100 * a /\ 100 * a < t * r + t
  BY SMT
<1>2. r >= 0 /\ r <= 100
  BY <1>1, SMT
<1>3. (100 * t) \div t = 100
  <2>1. \A x \in Int : t * x <= 100 * t /\ 100 * t < t * x + t => x = 100
    BY SMT
  <2>2. (100 * t) \div t \in Int /\ t * ((100 * t) \div t) <= 100 * t
        /\ 100 * t < t * ((100 * t) \div t) + t
    BY SMT
  <2> QED
    BY <2>1, <2>2
<1>4. ASSUME r = 0, NEW b \in 0..a PROVE (100 * b) \div t = 0
  <2>1. 100 * b < t /\ 100 * b >= 0
    BY <1>1, <1>4, SMT
  <2> QED
    BY <2>1, SMT
<1>5. ASSUME a > 0, t <= 100 PROVE r > 0
  <2>1. 100 * a >= t
    BY <1>5, SMT
  <2>2. CASE r = 0
    BY <1>1, <2>1, <2>2, SMT
  <2> QED
    BY <1>1, <1>2, <2>2
<1> QED
  BY <1>1, <1>2, <1>3, <1>4, <1>5

\* The units of any groups are finitely many, and those alive no more than all.
LEMMA Counts ==
    ASSUME NEW gs \in SUBSET Groups, NEW d
    PROVE  LET t == Cardinality(UnitsIn(gs))
               a == Cardinality(UnitsIn(gs) \ d)
           IN  /\ t \in Nat /\ a \in 0..t /\ IsFiniteSet(UnitsIn(gs))
               /\ t = 0 <=> UnitsIn(gs) = {}
               /\ a = 0 <=> UnitsIn(gs) \ d = {}
<1>1. UnitsIn(gs) \in SUBSET Units
  BY ObjectivesConstants DEF UnitsIn
<1>2. IsFiniteSet(UnitsIn(gs))
  BY <1>1, FS_Subset, ObjectivesConstants
<1>3. UnitsIn(gs) \ d \in SUBSET UnitsIn(gs)
  OBVIOUS
<1>4. IsFiniteSet(UnitsIn(gs) \ d) /\ Cardinality(UnitsIn(gs) \ d) <= Cardinality(UnitsIn(gs))
  BY <1>2, <1>3, FS_Subset
<1>5. Cardinality(UnitsIn(gs)) \in Nat /\ Cardinality(UnitsIn(gs) \ d) \in Nat
  BY <1>2, <1>4, FS_CardinalityType
<1> QED
  BY <1>2, <1>4, <1>5, FS_EmptySet

LEMMA PercentOK ==
    ASSUME NEW gs \in SUBSET Groups, NEW d
    PROVE  /\ Percent(gs, d) \in 0..100
           /\ UnitsIn(gs) # {} /\ UnitsIn(gs) \cap d = {} => Percent(gs, d) = 100
           /\ UnitsIn(gs) \subseteq d => Percent(gs, d) = 0
           /\ Percent(gs, d) = 0 => \A e : UnitsIn(gs) \ e \subseteq UnitsIn(gs) \ d =>
                                           Percent(gs, e) = 0
           /\ UnitsIn(gs) \ d # {} /\ Cardinality(UnitsIn(gs)) <= 100 => Percent(gs, d) > 0
<1> DEFINE X == UnitsIn(gs)
           t == Cardinality(X)
           a == Cardinality(X \ d)
<1>1. /\ t \in Nat /\ a \in 0..t /\ IsFiniteSet(X) /\ (t = 0 <=> X = {})
      /\ (a = 0 <=> X \ d = {})
  BY Counts
<1>2. Percent(gs, d) = IF t = 0 THEN 0 ELSE (100 * a) \div t
  BY DEF Percent
<1>3. ASSUME NEW e, X \ e \subseteq X \ d
      PROVE  /\ Cardinality(X \ e) \in 0..a
             /\ Percent(gs, e) = IF t = 0 THEN 0 ELSE (100 * Cardinality(X \ e)) \div t
  <2>1. IsFiniteSet(X \ d)
    BY <1>1, FS_Subset
  <2>2. Cardinality(X \ e) <= a
    BY <1>3, <2>1, FS_Subset
  <2>3. Cardinality(X \ e) \in 0..t
    BY Counts
  <2> QED
    BY <1>1, <2>2, <2>3 DEF Percent
<1>4. X \cap d = {} => a = t
  <2>1. X \cap d = {} => X \ d = X
    OBVIOUS
  <2> QED
    BY <2>1
<1> HIDE DEF X, t, a
<1>5. CASE t = 0
  <2>1. X = {} /\ a = 0
    BY <1>1, <1>5
  <2>2. Percent(gs, d) = 0 /\ \A e : X \ e \subseteq X \ d => Percent(gs, e) = 0
    BY <1>2, <1>3, <1>5
  <2> QED
    BY <2>1, <2>2 DEF X
<1>6. CASE t # 0
  <2>1. t \in Nat \ {0} /\ a \in 0..t
    BY <1>1, <1>6
  <2>2. Percent(gs, d) = (100 * a) \div t
    BY <1>2, <1>6
  <2>3. Percent(gs, d) \in 0..100
    BY <2>1, <2>2, PartOfHundred
  <2>4. X \cap d = {} => Percent(gs, d) = 100
    BY <1>4, <2>1, <2>2, PartOfHundred
  <2>5. X \subseteq d => Percent(gs, d) = 0
    <3>1. X \subseteq d => a = 0
      BY <1>1
    <3>2. (100 * 0) \div t = 0
      BY <2>1, SMT
    <3> QED
      BY <2>2, <3>1, <3>2
  <2>6. ASSUME Percent(gs, d) = 0, NEW e, X \ e \subseteq X \ d PROVE Percent(gs, e) = 0
    <3> DEFINE c == Cardinality(X \ e)
    <3>1. c \in 0..a /\ Percent(gs, e) = (100 * c) \div t
      BY <1>3, <1>6, <2>6
    <3> HIDE DEF c
    <3>2. \A b \in 0..a : (100 * b) \div t = 0
      BY <2>1, <2>2, <2>6, PartOfHundred
    <3> QED
      BY <3>1, <3>2
  <2>7. X \ d # {} /\ t <= 100 => Percent(gs, d) > 0
    BY <1>1, <2>1, <2>2, PartOfHundred
  <2> QED
    BY <2>3, <2>4, <2>5, <2>6, <2>7 DEF X, t
<1> QED
  BY <1>5, <1>6

---------------------------------------------------------------------------
(* What an objective has left, and what its enemies do not have there.     *)

StatusTypes ==
    /\ owner \in [Objs -> Sides] /\ exists \subseteq Objs
    /\ health \in [Objs -> 0..100] /\ logi \in [Objs -> 0..100]
    /\ \A f \in Farps : owner[f] = FarpSide(f)

StatusInv == StatusTypes /\ StatusIsCurrent /\ LosersAreBroken

\* Groups that stand somewhere: all but the squads.
Standing == Groups \ Troops

LEMMA GroupsStand ==
    \A o, s : LogiAt(o, s) \subseteq GroupsAt(o, s) /\ GroupsAt(o, s) \subseteq Standing
  BY DEF LogiAt, GroupsAt, Standing

\* The status of a side at an objective depends on which of its units there are alive.
LEMMA SameAlive ==
    ASSUME NEW o, NEW s, NEW d, NEW e, \A g \in GroupsAt(o, s) : UnitsOf[g] \ e = UnitsOf[g] \ d
    PROVE  HealthOf(o, s, e) = HealthOf(o, s, d) /\ LogiOf(o, s, e) = LogiOf(o, s, d)
<1>1. \A gs \in SUBSET GroupsAt(o, s) : UnitsIn(gs) \ e = UnitsIn(gs) \ d
  BY DEF UnitsIn
<1>2. \A gs \in SUBSET GroupsAt(o, s) : Percent(gs, e) = Percent(gs, d)
  BY <1>1 DEF Percent
<1> QED
  BY <1>2, GroupsStand DEF HealthOf, LogiOf

\* Who has nothing left and is not repaired has nothing left.
LEMMA StillBroken ==
    ASSUME NEW o, NEW s, NEW d, NEW e, LogiOf(o, s, d) = 0,
           \A g \in GroupsAt(o, s) : UnitsOf[g] \ e \subseteq UnitsOf[g] \ d
    PROVE  LogiOf(o, s, e) = 0
<1>1. LogiAt(o, s) \in SUBSET Groups
  BY GroupsStand DEF Standing
<1>2. UnitsIn(LogiAt(o, s)) \ e \subseteq UnitsIn(LogiAt(o, s)) \ d
  BY GroupsStand DEF UnitsIn
<1> QED
  BY <1>1, <1>2, PercentOK DEF LogiOf

LEMMA StatusRange ==
    \A o, s, d : HealthOf(o, s, d) \in 0..100 /\ LogiOf(o, s, d) \in 0..100
<1> SUFFICES ASSUME NEW o, NEW s, NEW d
             PROVE  HealthOf(o, s, d) \in 0..100 /\ LogiOf(o, s, d) \in 0..100
  OBVIOUS
<1>1. GroupsAt(o, s) \in SUBSET Groups /\ LogiAt(o, s) \in SUBSET Groups
  BY GroupsStand DEF Standing
<1> QED
  BY <1>1, PercentOK DEF HealthOf, LogiOf

\* A step that counts one objective again, whose owner may be new; elsewhere nobody dies or
\* is repaired, and there only those of the owner are repaired.
LEMMA UpdatedStatus ==
    ASSUME StatusInv, NEW o \in Objs, NEW s \in Sides, NEW d,
           owner' = [owner EXCEPT ![o] = s], exists' = exists, update_objective_status(o, s, d),
           \A g \in Standing : UnitsOf[g] \ dead' = UnitsOf[g] \ d,
           \A g \in Standing : Home[g] # o => UnitsOf[g] \ d = UnitsOf[g] \ dead,
           \A g \in Standing : Home[g] = o /\ SideOf[g] # s =>
                UnitsOf[g] \ d \subseteq UnitsOf[g] \ dead,
           s = owner[o] \/ (o \in Bases \cap exists /\ logi[o] = 0)
    PROVE  StatusInv'
<1> USE ObjectivesConstants
<1>1. /\ health' = [health EXCEPT ![o] = HealthOf(o, s, d)]
      /\ logi' = [logi EXCEPT ![o] = LogiOf(o, s, d)] /\ stale' = stale \ {o}
  BY DEF update_objective_status
<1>2. StatusTypes'
  <2>1. owner' \in [Objs -> Sides] /\ exists' \subseteq Objs
    BY DEF StatusInv, StatusTypes
  <2>2. health' \in [Objs -> 0..100] /\ logi' \in [Objs -> 0..100]
    BY <1>1, StatusRange DEF StatusInv, StatusTypes
  <2>3. \A f \in Farps : owner'[f] = FarpSide(f)
    BY DEF StatusInv, StatusTypes, Objs
  <2> QED
    BY <2>1, <2>2, <2>3 DEF StatusTypes
<1>3. HealthOf(o, s, dead') = HealthOf(o, s, d) /\ LogiOf(o, s, dead') = LogiOf(o, s, d)
  BY SameAlive, GroupsStand
<1>4. ASSUME NEW p \in Objs, p # o, NEW r
      PROVE  HealthOf(p, r, dead') = HealthOf(p, r, dead) /\ LogiOf(p, r, dead') = LogiOf(p, r, dead)
  <2>1. \A g \in GroupsAt(p, r) : UnitsOf[g] \ dead' = UnitsOf[g] \ dead
    BY <1>4, GroupsStand DEF GroupsAt
  <2> QED
    BY <2>1, SameAlive
<1>5. StatusIsCurrent'
  <2> SUFFICES ASSUME NEW p \in exists
               PROVE  /\ logi'[p] = LogiOf(p, owner'[p], dead')
                      /\ p \notin stale' => health'[p] = HealthOf(p, owner'[p], dead')
    BY DEF StatusIsCurrent, HealthOf, LogiOf, GroupsAt, LogiAt, Percent
  <2>1. CASE p = o
    BY <1>1, <1>3, <2>1 DEF StatusInv, StatusTypes
  <2>2. CASE p # o
    <3>1. p \in Objs /\ owner'[p] = owner[p] /\ logi'[p] = logi[p] /\ health'[p] = health[p]
          /\ (p \notin stale' => p \notin stale)
      BY <1>1, <2>2 DEF StatusInv, StatusTypes
    <3> QED
      BY <1>4, <2>2, <3>1 DEF StatusInv, StatusIsCurrent
  <2> QED
    BY <2>1, <2>2
<1>6. LosersAreBroken'
  <2> SUFFICES ASSUME NEW p \in Bases, NEW r \in Sides, r # owner'[p]
               PROVE  LogiOf(p, r, dead') = 0
    BY DEF LosersAreBroken, LogiOf, LogiAt, GroupsAt, Percent
  <2>1. p \in Objs
    BY DEF Objs
  <2>2. CASE p = o
    <3>1. owner'[p] = s /\ r # s
      BY <2>2 DEF StatusInv, StatusTypes
    <3>2. LogiOf(p, r, dead) = 0
      BY <2>2, <3>1 DEF StatusInv, StatusIsCurrent, LosersAreBroken
    <3>3. \A g \in GroupsAt(p, r) : UnitsOf[g] \ dead' \subseteq UnitsOf[g] \ dead
      BY <2>2, <3>1, GroupsStand DEF GroupsAt
    <3> QED
      BY <3>2, <3>3, StillBroken
  <2>3. CASE p # o
    <3>1. owner'[p] = owner[p]
      BY <2>1, <2>3 DEF StatusInv, StatusTypes
    <3> QED
      BY <1>4, <2>1, <2>3, <3>1 DEF StatusInv, LosersAreBroken
  <2> QED
    BY <2>2, <2>3
<1> QED
  BY <1>2, <1>5, <1>6 DEF StatusInv

\* A step that counts nothing: of what it leaves standing nobody dies or is repaired.
LEMMA QuietStatus ==
    ASSUME StatusInv, owner' = owner, stale \cap exists' \subseteq stale', exists' \subseteq exists,
           health' \in [Objs -> 0..100], logi' \in [Objs -> 0..100],
           \A o \in exists' : health'[o] = health[o] /\ logi'[o] = logi[o],
           \A g \in Standing : Home[g] \in exists' \cup Bases => UnitsOf[g] \ dead' = UnitsOf[g] \ dead
    PROVE  StatusInv'
<1>1. ASSUME NEW o \in exists' \cup Bases, NEW s
      PROVE  HealthOf(o, s, dead') = HealthOf(o, s, dead) /\ LogiOf(o, s, dead') = LogiOf(o, s, dead)
  <2>1. \A g \in GroupsAt(o, s) : UnitsOf[g] \ dead' = UnitsOf[g] \ dead
    BY <1>1, GroupsStand DEF GroupsAt
  <2> QED
    BY <2>1, SameAlive
<1>2. StatusTypes'
  BY DEF StatusInv, StatusTypes
<1>3. StatusIsCurrent'
  <2> SUFFICES ASSUME NEW o \in exists'
               PROVE  /\ logi'[o] = LogiOf(o, owner'[o], dead')
                      /\ o \notin stale' => health'[o] = HealthOf(o, owner'[o], dead')
    BY DEF StatusIsCurrent, HealthOf, LogiOf, GroupsAt, LogiAt, Percent
  <2> QED
    BY <1>1 DEF StatusInv, StatusIsCurrent
<1>4. LosersAreBroken'
  <2> SUFFICES ASSUME NEW o \in Bases, NEW s \in Sides, s # owner'[o]
               PROVE  LogiOf(o, s, dead') = 0
    BY DEF LosersAreBroken, LogiOf, LogiAt, GroupsAt, Percent
  <2> QED
    BY <1>1 DEF StatusInv, LosersAreBroken
<1> QED
  BY <1>2, <1>3, <1>4 DEF StatusInv

\* A FARP's groups are of its side, and it has logistics.
LEMMA FarpIsOfItsSide ==
    ASSUME NEW f \in Farps
    PROVE  /\ FarpSide(f) \in Sides /\ UnitsIn(LogiAt(f, FarpSide(f))) # {}
<1>1. PICK s \in Sides : /\ UnitsIn(LogiAt(f, s)) # {}
                         /\ \A g \in Groups \ Troops : Home[g] = f => SideOf[g] = s
  BY FarpsHaveLogistics
<1>2. GroupsAt(f, s) # {}
  BY <1>1 DEF UnitsIn, LogiAt
<1>3. \A r : GroupsAt(f, r) # {} => r = s
  BY <1>1 DEF GroupsAt
<1>4. FarpSide(f) = s
  BY <1>2, <1>3 DEF FarpSide
<1> QED
  BY <1>1, <1>4

LEMMA InitStatus == Init => StatusInv
<1> SUFFICES ASSUME Init PROVE StatusInv
  OBVIOUS
<1> USE ObjectivesConstants DEF Objs
<1>1. /\ owner = [o \in Objs |-> IF o \in Bases THEN InitOwner[o] ELSE FarpSide(o)]
      /\ exists = Bases /\ stale = {}
      /\ dead = UnitsIn({g \in BaseGroups : SideOf[g] # InitOwner[Home[g]]})
  BY DEF Init
<1>2. /\ health = [o \in Objs |-> IF o \in Bases THEN HealthOf(o, owner[o], dead) ELSE 0]
      /\ logi = [o \in Objs |-> IF o \in Bases THEN LogiOf(o, owner[o], dead) ELSE 0]
  BY DEF Init
<1>3. StatusTypes
  <2>1. \A o \in Objs : HealthOf(o, owner[o], dead) \in 0..100 /\ LogiOf(o, owner[o], dead) \in 0..100
    BY StatusRange
  <2>2. health \in [Objs -> 0..100] /\ logi \in [Objs -> 0..100]
    BY <1>2, <2>1
  <2>3. owner \in [Objs -> Sides] /\ \A f \in Farps : owner[f] = FarpSide(f)
    BY <1>1, FarpIsOfItsSide
  <2> QED
    BY <1>1, <2>2, <2>3 DEF StatusTypes
<1>4. StatusIsCurrent
  BY <1>1, <1>2 DEF StatusIsCurrent
<1>5. LosersAreBroken
  <2> SUFFICES ASSUME NEW o \in Bases, NEW s \in Sides, s # owner[o] PROVE LogiOf(o, s, dead) = 0
    BY DEF LosersAreBroken
  <2>1. UnitsIn(LogiAt(o, s)) \subseteq dead
    BY <1>1 DEF UnitsIn, LogiAt, GroupsAt, BaseGroups
  <2>2. LogiAt(o, s) \in SUBSET Groups
    BY GroupsStand DEF Standing
  <2> QED
    BY <2>1, <2>2, PercentOK DEF LogiOf
<1> QED
  BY <1>3, <1>4, <1>5 DEF StatusInv

LEMMA UnitDiesStatus == ASSUME GhostInv, StatusInv, NEW u, UnitDies(u) PROVE StatusInv'
<1> DEFINE g == GroupOf(u)
           o == Home[g]
           d == dead \cup {u}
<1>1. PICK h \in Groups : u \in UnitsOf[h]
  BY DEF UnitDies, GhostInv, Sets, UnitsIn
<1>2. g = h
  BY <1>1, GroupOfUnit
<1>3. dead' = d /\ owner' = owner /\ exists' = exists
  BY DEF UnitDies
<1>4. \A k \in Standing : k # g => UnitsOf[k] \ d = UnitsOf[k] \ dead
  BY <1>1, <1>2, OneGroup DEF Standing
<1>5. CASE g \in Troops
  <2>1. \A k \in Standing : UnitsOf[k] \ dead' = UnitsOf[k] \ dead
    BY <1>3, <1>4, <1>5 DEF Standing
  <2>2. UNCHANGED <<health, logi, stale>>
    BY <1>5 DEF UnitDies, status
  <2> QED
    BY <1>3, <2>1, <2>2, QuietStatus DEF StatusInv, StatusTypes
<1>6. CASE g \notin Troops
  <2>1. update_objective_status(o, owner[o], d)
    BY <1>6 DEF UnitDies
  <2>2. o \in Objs /\ owner[o] \in Sides /\ owner' = [owner EXCEPT ![o] = owner[o]]
    BY <1>1, <1>2, <1>3, ObjectivesConstants DEF StatusInv, StatusTypes
  <2>3. \A k \in Standing : UnitsOf[k] \ d \subseteq UnitsOf[k] \ dead
    OBVIOUS
  <2>4. \A k \in Standing : Home[k] # o => UnitsOf[k] \ d = UnitsOf[k] \ dead
    BY <1>4
  <2> HIDE DEF o, d, g
  <2> QED
    BY <1>3, <2>1, <2>2, <2>3, <2>4, UpdatedStatus DEF update_objective_status
<1> QED
  BY <1>5, <1>6

\* Units of other groups are not touched when a set of groups loses all its dead.
LEMMA OthersSame ==
    ASSUME NEW gs \in SUBSET Groups, NEW R, R \subseteq UnitsIn(gs), NEW d, NEW g \in Groups,
           g \notin gs
    PROVE  UnitsOf[g] \ (d \ R) = UnitsOf[g] \ d
  BY OneGroup DEF UnitsIn

\* A repair at one objective, for its owner.
LEMMA RepairedStatus ==
    ASSUME StatusInv, NEW o \in Objs, NEW gs \in SUBSET GroupsAt(o, owner[o]), NEW R,
           R \subseteq UnitsIn(gs), UNCHANGED <<owner, exists>>, dead' = dead \ R,
           update_objective_status(o, owner[o], dead')
    PROVE  StatusInv'
<1>0. gs \in SUBSET Groups /\ Standing \subseteq Groups
  BY GroupsStand DEF Standing
<1>1. \A g \in Standing : g \notin gs => UnitsOf[g] \ dead' = UnitsOf[g] \ dead
  BY <1>0, OthersSame
<1>2. \A g \in gs : Home[g] = o /\ SideOf[g] = owner[o]
  BY DEF GroupsAt
<1>3. owner[o] \in Sides /\ owner' = [owner EXCEPT ![o] = owner[o]] /\ exists' = exists
  BY DEF StatusInv, StatusTypes
<1> DEFINE d == dead'
           s == owner[o]
<1>4. /\ \A g \in Standing : UnitsOf[g] \ dead' = UnitsOf[g] \ d
      /\ \A g \in Standing : Home[g] # o => UnitsOf[g] \ d = UnitsOf[g] \ dead
      /\ \A g \in Standing : Home[g] = o /\ SideOf[g] # s =>
              UnitsOf[g] \ d \subseteq UnitsOf[g] \ dead
  BY <1>1, <1>2
<1>5. update_objective_status(o, s, d)
  OBVIOUS
<1>6. s \in Sides /\ owner' = [owner EXCEPT ![o] = s] /\ s = owner[o]
  BY <1>3
<1> HIDE DEF s, d
<1> QED
  BY <1>3, <1>4, <1>5, <1>6, UpdatedStatus DEF update_objective_status

LEMMA HandoverStatus ==
    ASSUME StatusInv, NEW o \in Bases, NEW s \in Sides, NEW spent \in SUBSET Troops,
           MayTake(o, s), Handover(o, s, spent)
    PROVE  StatusInv'
<1> USE ObjectivesConstants
<1>1. PICK R \in RepairStep(o, s) :
        LET d == (dead \ R) \ UnitsIn(ServicesAt(o, s))
        IN  /\ owner' = [owner EXCEPT ![o] = s] /\ exists' = exists
            /\ update_objective_status(o, s, d) /\ dead' = d \ UnitsIn(spent)
  BY DEF Handover
<1> DEFINE gs == LogiAt(o, s) \cup ServicesAt(o, s)
           M == R \cup UnitsIn(ServicesAt(o, s))
           d == (dead \ R) \ UnitsIn(ServicesAt(o, s))
<1>2. gs \subseteq GroupsAt(o, s) /\ gs \in SUBSET Groups /\ Standing \subseteq Groups
      /\ spent \in SUBSET Groups
  BY GroupsStand DEF Standing, ServicesAt
<1>3. M \subseteq UnitsIn(gs) /\ d = dead \ M
  BY DEF RepairStep, UnitsIn
<1>4. \A g \in Standing : g \notin gs => UnitsOf[g] \ d = UnitsOf[g] \ dead
  <2> HIDE DEF gs, M, d
  <2> QED
    BY <1>2, <1>3, OthersSame
<1>5. \A g \in gs : Home[g] = o /\ SideOf[g] = s
  BY <1>2 DEF GroupsAt
<1>6. \A g \in Standing : UnitsOf[g] \ dead' = UnitsOf[g] \ d
  <2>1. \A g \in Standing : g \notin spent
    BY DEF Standing
  <2>2. dead' = d \ UnitsIn(spent)
    BY <1>1
  <2> HIDE DEF d
  <2> QED
    BY <1>2, <2>1, <2>2, OthersSame
<1>7. o \in Objs /\ o \in exists /\ logi[o] = 0
  BY DEF MayTake, Objs
<1>8. owner' = [owner EXCEPT ![o] = s] /\ exists' = exists /\ update_objective_status(o, s, d)
  BY <1>1
<1>9. /\ \A g \in Standing : Home[g] # o => UnitsOf[g] \ d = UnitsOf[g] \ dead
      /\ \A g \in Standing : Home[g] = o /\ SideOf[g] # s =>
              UnitsOf[g] \ d \subseteq UnitsOf[g] \ dead
  <2> HIDE DEF gs, M, d
  <2> QED
    BY <1>4, <1>5
<1> HIDE DEF gs, M, d
<1> QED
  BY <1>6, <1>7, <1>8, <1>9, UpdatedStatus DEF update_objective_status

LEMMA AddFarpStatus ==
    ASSUME GhostInv, StatusInv, NEW f \in Farps, AddFarp(f) PROVE StatusInv'
<1> USE ObjectivesConstants
<1>1. /\ f \notin used /\ exists' = exists \cup {f} /\ UNCHANGED <<owner, dead, stale>>
      /\ health' = [health EXCEPT ![f] = 100] /\ logi' = [logi EXCEPT ![f] = 100]
  BY DEF AddFarp, New
<1>2. \A g \in GroupsAt(f, owner[f]) : UnitsOf[g] \cap dead = {}
  BY <1>1 DEF GhostInv, FreshIsClean, WasUsed, GroupsAt
<1>3. HealthOf(f, owner[f], dead) = 100 /\ LogiOf(f, owner[f], dead) = 100
  <2>1. owner[f] = FarpSide(f) /\ UnitsIn(LogiAt(f, owner[f])) # {}
    BY FarpIsOfItsSide DEF StatusInv, StatusTypes
  <2>2. ASSUME NEW gs \in SUBSET GroupsAt(f, owner[f]), LogiAt(f, owner[f]) \subseteq gs
        PROVE  Percent(gs, dead) = 100
    <3>1. UnitsIn(gs) # {} /\ UnitsIn(gs) \cap dead = {}
      BY <1>2, <2>1, <2>2 DEF UnitsIn
    <3>2. gs \in SUBSET Groups
      BY GroupsStand DEF Standing
    <3> QED
      BY <3>1, <3>2, PercentOK
  <2> QED
    BY <2>2, GroupsStand DEF HealthOf, LogiOf
<1>4. StatusTypes'
  BY <1>1 DEF StatusInv, StatusTypes, Objs
<1>5. StatusIsCurrent'
  <2> SUFFICES ASSUME NEW o \in exists'
               PROVE  /\ logi'[o] = LogiOf(o, owner'[o], dead')
                      /\ o \notin stale' => health'[o] = HealthOf(o, owner'[o], dead')
    BY DEF StatusIsCurrent, HealthOf, LogiOf, GroupsAt, LogiAt, Percent
  <2>1. CASE o = f
    BY <1>1, <1>3, <2>1 DEF StatusInv, StatusTypes, Objs
  <2>2. CASE o # f
    BY <1>1, <2>2 DEF StatusInv, StatusTypes, StatusIsCurrent
  <2> QED
    BY <2>1, <2>2
<1>6. LosersAreBroken'
  <2> SUFFICES ASSUME NEW o \in Bases, NEW s \in Sides, s # owner'[o]
               PROVE  LogiOf(o, s, dead') = 0
    BY DEF LosersAreBroken, LogiOf, LogiAt, GroupsAt, Percent
  <2> QED
    BY <1>1 DEF StatusInv, LosersAreBroken
<1> QED
  BY <1>4, <1>5, <1>6 DEF StatusInv

LEMMA CaptureFailsStatus ==
    ASSUME StatusInv, NEW o \in Bases, CaptureFails(o) PROVE StatusInv'
<1> USE ObjectivesConstants
<1>1. PICK s \in Sides :
        /\ o \in exists /\ logi[o] = 0 /\ owner' = [owner EXCEPT ![o] = s]
        /\ stale' = stale \cup {o} /\ UNCHANGED <<exists, dead, health, logi>>
  BY DEF CaptureFails, MayTake
<1>2. StatusTypes'
  BY <1>1 DEF StatusInv, StatusTypes, Objs
<1>3. \A r \in Sides : LogiOf(o, r, dead) = 0
  BY <1>1 DEF StatusInv, StatusIsCurrent, LosersAreBroken
<1>4. StatusIsCurrent'
  <2> SUFFICES ASSUME NEW p \in exists
               PROVE  /\ logi'[p] = LogiOf(p, owner'[p], dead')
                      /\ p \notin stale' => health'[p] = HealthOf(p, owner'[p], dead')
    BY <1>1 DEF StatusIsCurrent, HealthOf, LogiOf, GroupsAt, LogiAt, Percent
  <2>1. CASE p = o
    BY <1>1, <1>3, <2>1 DEF StatusInv, StatusTypes
  <2>2. CASE p # o
    BY <1>1, <2>2 DEF StatusInv, StatusTypes, StatusIsCurrent
  <2> QED
    BY <2>1, <2>2
<1>5. LosersAreBroken'
  <2> SUFFICES ASSUME NEW p \in Bases, NEW r \in Sides, r # owner'[p]
               PROVE  LogiOf(p, r, dead') = 0
    BY DEF LosersAreBroken, LogiOf, LogiAt, GroupsAt, Percent
  <2>1. CASE p = o
    BY <1>1, <1>3, <2>1
  <2>2. CASE p # o
    BY <1>1, <2>2 DEF StatusInv, StatusTypes, LosersAreBroken, Objs
  <2> QED
    BY <2>1, <2>2
<1> QED
  BY <1>2, <1>4, <1>5 DEF StatusInv

LEMMA DeleteTroopsStatus ==
    ASSUME StatusInv, NEW ts \in SUBSET Troops, NEW world, DeleteTroops(ts, world) PROVE StatusInv'
<1>1. ts \in SUBSET Groups /\ \A g \in Standing : g \in Groups /\ g \notin ts
  BY ObjectivesConstants DEF Standing
<1>2. dead' = dead \ UnitsIn(ts) /\ UNCHANGED <<owner, exists, health, logi, stale>>
  BY DEF DeleteTroops, status
<1>3. \A g \in Standing : UnitsOf[g] \ dead' = UnitsOf[g] \ dead
  <2> DEFINE R == UnitsIn(ts)
  <2>1. R \subseteq UnitsIn(ts) /\ dead' = dead \ R
    BY <1>2
  <2> HIDE DEF R
  <2> QED
    BY <1>1, <2>1, OthersSame
<1> QED
  BY <1>2, <1>3, QuietStatus DEF StatusInv, StatusTypes

LEMMA FarpFallsStatus == ASSUME GhostInv, StatusInv, NEW u, FarpFalls(u) PROVE StatusInv'
<1> DEFINE o == Home[GroupOf(u)]
           gs == {g \in groups \ Troops : Home[g] = o}
<1>1. /\ o \in Farps /\ dead' = dead \ UnitsIn(gs) /\ owner' = owner
      /\ exists' = exists \ {o} /\ stale' = stale \ {o}
      /\ health' = [health EXCEPT ![o] = 0] /\ logi' = [logi EXCEPT ![o] = 0]
  BY DEF FarpFalls
<1>2. gs \in SUBSET Groups /\ o \notin Bases
  BY <1>1, ObjectivesConstants DEF GhostInv, Sets
<1>3. \A g \in Standing : Home[g] # o => UnitsOf[g] \ dead' = UnitsOf[g] \ dead
  <2>1. \A g \in Standing : Home[g] # o => g \in Groups /\ g \notin gs
    BY DEF Standing
  <2> HIDE DEF gs, o
  <2> QED
    BY <1>1, <1>2, <2>1, OthersSame
<1> HIDE DEF gs, o
<1>4. health' \in [Objs -> 0..100] /\ logi' \in [Objs -> 0..100]
  <2>1. health \in [Objs -> 0..100] /\ logi \in [Objs -> 0..100] /\ 0 \in 0..100
    BY DEF StatusInv, StatusTypes
  <2>2. health' \in [Objs -> 0..100]
    BY <1>1, <2>1
  <2>3. logi' \in [Objs -> 0..100]
    BY <1>1, <2>1
  <2> QED
    BY <2>2, <2>3
<1>5. ASSUME NEW p \in exists' PROVE p # o /\ health'[p] = health[p] /\ logi'[p] = logi[p]
  <2>1. p \in Objs /\ p # o
    BY <1>1 DEF StatusInv, StatusTypes
  <2>2. health \in [Objs -> 0..100] /\ logi \in [Objs -> 0..100]
    BY DEF StatusInv, StatusTypes
  <2> QED
    BY <1>1, <2>1, <2>2
<1>6. \A g \in Standing : Home[g] \in exists' \cup Bases => UnitsOf[g] \ dead' = UnitsOf[g] \ dead
  BY <1>1, <1>2, <1>3
<1> QED
  BY <1>1, <1>4, <1>5, <1>6, QuietStatus

\* The actions that have nothing to do with it.
LEMMA OtherStatus ==
    ASSUME StatusInv, UNCHANGED <<owner, exists, dead, health, logi, stale>> PROVE StatusInv'
<1>1. stale \cap exists' \subseteq stale' /\ exists' \subseteq exists
  OBVIOUS
<1> QED
  BY <1>1, QuietStatus DEF StatusInv, StatusTypes

LEMMA StepStatus == GhostInv /\ StatusInv /\ [Next]_vars => StatusInv'
<1> SUFFICES ASSUME GhostInv, StatusInv, [Next]_vars PROVE StatusInv'
  OBVIOUS
<1> USE ObjectivesConstants
<1>1. ASSUME NEW due, Despawn(due) \/ Spawn(due) PROVE StatusInv'
  BY <1>1, OtherStatus DEF Despawn, Spawn, campaign, status
<1>2. ASSUME NEW o, Activate(o) \/ Cull(o) PROVE StatusInv'
  BY <1>2, OtherStatus DEF Activate, Cull, campaign, status
<1>3. ASSUME NEW o \in Objs, Repair(o) PROVE StatusInv'
  <2>1. PICK g \in Candidates(o) :
          dead' = dead \ UnitsOf[g] /\ update_objective_status(o, owner[o], dead')
          /\ UNCHANGED <<owner, exists>>
    BY <1>3 DEF Repair
  <2>2. {g} \in SUBSET GroupsAt(o, owner[o]) /\ UnitsOf[g] \subseteq UnitsIn({g})
    BY DEF Candidates, UnitsIn
  <2> QED
    BY <2>1, <2>2, RepairedStatus
<1>4. ASSUME NEW o \in Objs, UnpackRepair(o) PROVE StatusInv'
  <2>1. PICK R \in RepairStep(o, owner[o]) :
          dead' = dead \ R /\ update_objective_status(o, owner[o], dead')
          /\ UNCHANGED <<owner, exists>>
    BY <1>4 DEF UnpackRepair
  <2>2. R \subseteq UnitsIn(LogiAt(o, owner[o]))
    BY DEF RepairStep
  <2>3. LogiAt(o, owner[o]) \in SUBSET GroupsAt(o, owner[o])
    BY GroupsStand
  <2> QED
    BY <2>1, <2>2, <2>3, RepairedStatus
<1>5. ASSUME NEW o \in Bases, Capture(o) \/ CaptureHalts(o) PROVE StatusInv'
  <2>1. PICK s \in Sides, spent \in SUBSET Troops : MayTake(o, s) /\ Handover(o, s, spent)
    BY <1>5 DEF Capture, CaptureHalts, Inside
  <2> QED
    BY <2>1, HandoverStatus
<1>6. CASE Timer
  BY <1>1, <1>2, <1>3, <1>5, <1>6 DEF Timer
<1>7. CASE Faults
  <2>1. CASE Restart
    BY <2>1, OtherStatus DEF Restart, campaign, status
  <2> QED
    BY <1>5, <1>7, <2>1, CaptureFailsStatus DEF Faults
<1>8. ASSUME NEW u, UnitDies(u) \/ FarpFalls(u) PROVE StatusInv'
  BY <1>8, UnitDiesStatus, FarpFallsStatus
<1>9. ASSUME NEW u, SquadDies(u) PROVE StatusInv'
  <2>1. DeleteTroops({GroupOf(u)}, dcs') /\ {GroupOf(u)} \in SUBSET Troops
    BY <1>9 DEF SquadDies
  <2> QED
    BY <2>1, DeleteTroopsStatus
<1>10. ASSUME NEW u, StrangerDies(u) PROVE StatusInv'
  BY <1>10, OtherStatus DEF StrangerDies, campaign, status
<1>11. ASSUME NEW t \in Troops, DeployTroop(t) PROVE StatusInv'
  BY <1>11, OtherStatus DEF DeployTroop, status
<1>12. ASSUME NEW t \in Troops, PickUp(t) PROVE StatusInv'
  <2>1. DeleteTroops({t}, dcs) /\ {t} \in SUBSET Troops
    BY <1>12 DEF PickUp
  <2> QED
    BY <2>1, DeleteTroopsStatus
<1>13. ASSUME NEW f \in Farps, AddFarp(f) PROVE StatusInv'
  BY <1>13, AddFarpStatus
<1>14. CASE UNCHANGED vars
  BY <1>14, OtherStatus DEF vars, campaign, status
<1> QED
  BY <1>4, <1>6, <1>7, <1>8, <1>9, <1>10, <1>11, <1>12, <1>13, <1>14 DEF Next

LEMMA StatusAlways == Spec => [](GhostInv /\ StatusInv)
  BY InitGhosts, StepGhosts, InitStatus, StepStatus, PTL DEF Spec

\* The status an objective shows is what its owner has left there, whatever has died, been
\* repaired, captured, built, deleted, or broken off halfway.
THEOREM StatusAlwaysCurrent == Spec => []StatusIsCurrent
<1>1. StatusInv => StatusIsCurrent
  BY DEF StatusInv
<1> QED
  BY <1>1, StatusAlways, PTL

\* No side but the owner of a base ever has logistics left alive there.
THEOREM OneSideHoldsABase == Spec => []LosersAreBroken
<1>1. StatusInv => LosersAreBroken
  BY DEF StatusInv
<1> QED
  BY <1>1, StatusAlways, PTL

---------------------------------------------------------------------------
(* The objectives are a territory.                                         *)

\* Either side may have logistics at any base, and a hundred units of it at the most: with
\* more, one that is alive would be nought per cent.
LogisticsAtBases ==
    \A b \in Bases, s \in Sides : Cardinality(UnitsIn(LogiAt(b, s))) \in 1..100

\* A step of repairs brings logistics back, if there are any to be brought back.
LEMMA RepairRaises ==
    ASSUME LogisticsAtBases, NEW o \in Bases, NEW s \in Sides, NEW R \in RepairStep(o, s), NEW d,
           d \subseteq dead \ R
    PROVE  LogiOf(o, s, d) > 0
<1> USE ObjectivesConstants
<1> DEFINE sizes == {Cardinality(UnitsOf[g]) : g \in LogiAt(o, s)}
           total == IF LogiAt(o, s) = {} THEN 0 ELSE Max(sizes)
           X == UnitsIn(LogiAt(o, s))
           broken == X \cap dead
           n == Min({1 + (total \div 2), Cardinality(broken)})
<1>1. R \subseteq broken /\ Cardinality(R) = n
  BY DEF RepairStep
<1>2. LogiAt(o, s) \in SUBSET Groups
  BY GroupsStand DEF Standing
<1>3. IsFiniteSet(X) /\ Cardinality(X) \in 1..100
  BY <1>2, Counts DEF LogisticsAtBases
<1>4. total \in Nat
  <2>1. \A g \in LogiAt(o, s) : UnitsOf[g] \in SUBSET X
    BY DEF UnitsIn
  <2>2. \A g \in LogiAt(o, s) : /\ Cardinality(UnitsOf[g]) \in Nat
                                /\ Cardinality(UnitsOf[g]) <= Cardinality(X)
    BY <1>3, <2>1, FS_Subset, FS_CardinalityType
  <2>3. sizes \in SUBSET Nat /\ \A x \in sizes : x <= Cardinality(X)
    BY <2>2
  <2>4. LogiAt(o, s) # {} => sizes # {}
    OBVIOUS
  <2>5. Cardinality(X) \in Nat
    BY <1>3
  <2> HIDE DEF sizes, X
  <2>6. LogiAt(o, s) # {} => Max(sizes) \in sizes
    BY <2>3, <2>4, <2>5, MaxOfNaturals
  <2> QED
    BY <2>3, <2>6
<1>5. IsFiniteSet(broken) /\ Cardinality(broken) \in Nat
  BY <1>3, FS_Subset, FS_CardinalityType
<1>6. X \ d # {}
  <2>1. CASE broken = {}
    <3>1. X # {}
      BY <1>3, FS_EmptySet
    <3> QED
      BY <2>1, <3>1
  <2>2. CASE broken # {}
    <3>1. Cardinality(broken) >= 1 /\ 1 + (total \div 2) >= 1 /\ 1 + (total \div 2) \in Nat
      <4>1. total \div 2 >= 0 /\ total \div 2 \in Int
        <5> HIDE DEF total
        <5> QED
          BY <1>4, SMT
      <4>2. Cardinality(broken) # 0
        BY <1>5, <2>2, FS_EmptySet
      <4> HIDE DEF total, broken
      <4> QED
        BY <1>5, <4>1, <4>2
    <3>2. n >= 1
      <4> DEFINE a == 1 + (total \div 2)
                 b == Cardinality(broken)
      <4>1. a \in Nat /\ b \in Nat /\ a >= 1 /\ b >= 1
        BY <1>5, <3>1
      <4> HIDE DEF a, b
      <4>2. Min({a, b}) \in {a, b}
        BY <4>1 DEF Min
      <4> QED
        BY <4>1, <4>2 DEF a, b
    <3>3. R # {}
      <4>1. R = {} => Cardinality(R) = 0
        BY FS_EmptySet
      <4>2. Cardinality(R) = n
        BY <1>1
      <4> HIDE DEF n
      <4> QED
        BY <3>2, <4>1, <4>2
    <3> QED
      BY <1>1, <3>3
  <2> QED
    BY <2>1, <2>2
<1> HIDE DEF X
<1> QED
  BY <1>2, <1>3, <1>6, PercentOK DEF X, LogiOf

Owners == [o \in Bases |-> owner[o]]
Stands == {o \in Bases : logi[o] > 0}
InZone == [o \in Bases |-> Inside(o)]
GroundStep == [\E b \in Bases : Ground!Change(b)]_(Ground!territory)

\* Steps that leave the squads and the owners alone and count one objective at most.
LEMMA OneCounted ==
    ASSUME StatusTypes, NEW p \in Objs, owner' = owner, logi' \in [Objs -> 0..100],
           \A o \in Objs : o # p => logi'[o] = logi[o], Troops \cap groups' = Troops \cap groups
    PROVE  GroundStep
<1> USE ObjectivesConstants
<1>1. Owners' = Owners /\ InZone' = InZone
  BY DEF Owners, InZone, Inside
<1>2. \A o \in Bases : o # p => (o \in Stands' <=> o \in Stands)
  BY DEF Stands, Objs
<1>3. CASE Stands' = Stands
  BY <1>1, <1>3 DEF GroundStep, Ground!territory, Owners, Stands, InZone
<1>4. CASE p \in Stands /\ Stands' = Stands \ {p}
  BY <1>1, <1>4 DEF GroundStep, Ground!Change, Ground!Destroyed, Owners, Stands, InZone
<1>5. CASE p \in Bases \ Stands /\ Stands' = Stands \cup {p}
  BY <1>1, <1>5 DEF GroundStep, Ground!Change, Ground!Rebuilt, Owners, Stands, InZone
<1>6. p \notin Bases => Stands' = Stands
  BY <1>2 DEF Stands
<1>7. Stands' = Stands \/ (p \in Stands /\ Stands' = Stands \ {p})
      \/ (p \in Bases \ Stands /\ Stands' = Stands \cup {p})
  BY <1>2, <1>6 DEF Stands
<1> QED
  BY <1>3, <1>4, <1>5, <1>7

\* A squad less, in the zone it was in.
LEMMA SquadLeaves ==
    ASSUME NEW t \in Troops, groups' = groups \ {t}, owner' = owner, logi' = logi
    PROVE  GroundStep
<1> USE ObjectivesConstants
<1>1. Owners' = Owners /\ Stands' = Stands /\ Home[t] \in Bases
  BY DEF Owners, Stands
<1>2. InZone' = [InZone EXCEPT ![Home[t]] = @ \ {t}]
  BY <1>1 DEF InZone, Inside
<1>3. CASE t \in groups
  <2>1. t \in InZone[Home[t]]
    BY <1>1, <1>3 DEF InZone, Inside
  <2> QED
    BY <1>1, <1>2, <2>1 DEF GroundStep, Ground!Change, Ground!Leave, Owners, Stands, InZone
<1>4. CASE t \notin groups
  <2>1. InZone' = InZone
    BY <1>4 DEF InZone, Inside
  <2> QED
    BY <1>1, <2>1 DEF GroundStep, Ground!territory, Owners, Stands, InZone
<1> QED
  BY <1>3, <1>4

LEMMA SquadEnters ==
    ASSUME NEW t \in Troops, DeployTroop(t) PROVE GroundStep
<1> USE ObjectivesConstants
<1>1. /\ Owners' = Owners /\ Stands' = Stands /\ Home[t] \in Bases /\ groups' = groups \cup {t}
  BY DEF DeployTroop, status, Owners, Stands
<1>2. InZone' = [InZone EXCEPT ![Home[t]] = @ \cup {t}]
  BY <1>1, ZenonT(40) DEF InZone, Inside
<1> QED
  BY <1>1, <1>2 DEF GroundStep, Ground!Change, Ground!Enter, Owners, Stands, InZone

LEMMA OwnersAfter ==
    ASSUME StatusTypes, NEW o \in Bases, NEW s, owner' = [owner EXCEPT ![o] = s]
    PROVE  Owners' = [Owners EXCEPT ![o] = s]
  BY DEF Owners, StatusTypes, Objs

LEMMA Uncontested ==
    ASSUME NEW o \in Bases, NEW s \in Sides, MayTake(o, s)
    PROVE  /\ o \notin Stands
           /\ InZone[o] # {} /\ \A t \in InZone[o] : SideOf[t] = s
  BY DEF MayTake, Stands, InZone

\* The side that takes a base is said to hold it, and it stands.
LEMMA HandoverStands ==
    ASSUME LogisticsAtBases, StatusTypes, NEW o \in Bases, NEW s \in Sides,
           NEW spent \in SUBSET Troops, Handover(o, s, spent)
    PROVE  /\ Owners' = [Owners EXCEPT ![o] = s] /\ Stands' = Stands \cup {o}
           /\ groups' = groups \ spent
<1>1. PICK R \in RepairStep(o, s) :
        LET d == (dead \ R) \ UnitsIn(ServicesAt(o, s))
        IN  owner' = [owner EXCEPT ![o] = s] /\ update_objective_status(o, s, d)
            /\ groups' = groups \ spent
  BY DEF Handover
<1> DEFINE d == (dead \ R) \ UnitsIn(ServicesAt(o, s))
<1>2. LogiOf(o, s, d) > 0
  <2>1. d \subseteq dead \ R
    OBVIOUS
  <2> HIDE DEF d
  <2> QED
    BY <2>1, RepairRaises
<1>3. logi' = [logi EXCEPT ![o] = LogiOf(o, s, d)]
  BY <1>1 DEF update_objective_status
<1> HIDE DEF d
<1>4. Stands' = Stands \cup {o}
  BY <1>2, <1>3 DEF Stands, StatusTypes, Objs
<1> QED
  BY <1>1, <1>4, OwnersAfter

LEMMA CapturesAreTakings ==
    ASSUME LogisticsAtBases, StatusTypes, NEW o \in Bases, Capture(o) PROVE GroundStep
<1>1. PICK s \in Sides : MayTake(o, s) /\ Handover(o, s, Inside(o))
  BY DEF Capture
<1>2. /\ Owners' = [Owners EXCEPT ![o] = s] /\ Stands' = Stands \cup {o}
      /\ groups' = groups \ Inside(o)
  BY <1>1, HandoverStands DEF Inside
<1>3. InZone' = [InZone EXCEPT ![o] = {}]
  BY <1>2 DEF InZone, Inside
<1>4. o \notin Stands /\ InZone[o] # {} /\ \A t \in InZone[o] : SideOf[t] = s
  BY <1>1, Uncontested
<1> QED
  BY <1>2, <1>3, <1>4
  DEF GroundStep, Ground!Change, Ground!Take, Ground!Uncontested, Owners, Stands, InZone

LEMMA HaltsAreSeizures ==
    ASSUME LogisticsAtBases, StatusTypes, NEW o \in Bases, CaptureHalts(o) \/ CaptureFails(o)
    PROVE  GroundStep
<1>1. PICK s \in Sides :
        MayTake(o, s) /\ (Handover(o, s, {}) \/ (owner' = [owner EXCEPT ![o] = s]
                                                 /\ UNCHANGED <<groups, logi>>))
  BY DEF CaptureHalts, CaptureFails
<1>2. Owners' = [Owners EXCEPT ![o] = s] /\ Stands' \in {Stands, Stands \cup {o}}
      /\ groups' = groups
  <2>1. CASE Handover(o, s, {})
    BY <2>1, HandoverStands
  <2>2. CASE ~Handover(o, s, {})
    BY <1>1, <2>2, OwnersAfter DEF Stands
  <2> QED
    BY <2>1, <2>2
<1>3. InZone' = InZone
  BY <1>2 DEF InZone, Inside
<1>4. o \notin Stands /\ InZone[o] # {} /\ \A t \in InZone[o] : SideOf[t] = s
  BY <1>1, Uncontested
<1> QED
  BY <1>2, <1>3, <1>4
  DEF GroundStep, Ground!Change, Ground!Seize, Ground!Uncontested, Owners, Stands, InZone

\* Steps the territory does not see.
LEMMA Unseen ==
    ASSUME owner' = owner, logi' = logi, Troops \cap groups' = Troops \cap groups
    PROVE  GroundStep
<1>1. Owners' = Owners /\ Stands' = Stands /\ InZone' = InZone
  BY DEF Owners, Stands, InZone, Inside
<1> QED
  BY <1>1 DEF GroundStep, Ground!territory, Owners, Stands, InZone

LEMMA CountedOnce ==
    ASSUME StatusTypes, NEW o \in Objs, NEW s, NEW d, update_objective_status(o, s, d),
           owner' = owner, groups' = groups
    PROVE  GroundStep
<1>1. logi' = [logi EXCEPT ![o] = LogiOf(o, s, d)]
  BY DEF update_objective_status
<1>2. logi' \in [Objs -> 0..100] /\ \A p \in Objs : p # o => logi'[p] = logi[p]
  BY <1>1, StatusRange DEF StatusTypes
<1> QED
  BY <1>2, OneCounted

LEMMA StepGround ==
    ASSUME LogisticsAtBases, GhostInv, StatusInv, [Next]_vars PROVE GroundStep
<1> USE ObjectivesConstants
<1>0. StatusTypes
  BY DEF StatusInv
<1>1. ASSUME NEW due, Despawn(due) \/ Spawn(due) PROVE GroundStep
  BY <1>1, Unseen DEF Despawn, Spawn, campaign, status
<1>2. ASSUME NEW o, Activate(o) \/ Cull(o) PROVE GroundStep
  BY <1>2, Unseen DEF Activate, Cull, campaign, status
<1>3. ASSUME NEW o \in Objs, Repair(o) \/ UnpackRepair(o) PROVE GroundStep
  <2>1. update_objective_status(o, owner[o], dead') /\ owner' = owner /\ groups' = groups
    BY <1>3 DEF Repair, UnpackRepair
  <2>2. PICK s, d : update_objective_status(o, s, d)
    BY <2>1
  <2> QED
    BY <1>0, <2>1, <2>2, CountedOnce
<1>4. CASE Timer
  BY <1>0, <1>1, <1>2, <1>3, <1>4, CapturesAreTakings DEF Timer
<1>5. CASE Faults
  <2>1. CASE Restart
    BY <2>1, Unseen DEF Restart, campaign, status
  <2> QED
    BY <1>0, <1>5, <2>1, HaltsAreSeizures DEF Faults
<1>6. ASSUME NEW u, UnitDies(u) PROVE GroundStep
  <2>1. owner' = owner /\ groups' = groups
    BY <1>6 DEF UnitDies
  <2>2. CASE GroupOf(u) \in Troops
    BY <1>6, <2>1, <2>2, Unseen DEF UnitDies, status
  <2>3. CASE GroupOf(u) \notin Troops
    <3>1. PICK h \in Groups : u \in UnitsOf[h]
      BY <1>6 DEF UnitDies, GhostInv, Sets, UnitsIn
    <3>2. Home[GroupOf(u)] \in Objs
      BY <3>1, GroupOfUnit
    <3>3. PICK s, d : update_objective_status(Home[GroupOf(u)], s, d)
      BY <1>6, <2>3 DEF UnitDies
    <3> QED
      BY <1>0, <2>1, <3>2, <3>3, CountedOnce
  <2> QED
    BY <2>2, <2>3
<1>7. ASSUME NEW u, FarpFalls(u) PROVE GroundStep
  <2> DEFINE o == Home[GroupOf(u)]
  <2>1. /\ o \in Farps /\ owner' = owner /\ logi' = [logi EXCEPT ![o] = 0]
        /\ Troops \cap groups' = Troops \cap groups
    BY <1>7 DEF FarpFalls
  <2> HIDE DEF o
  <2>2. o \in Objs /\ logi \in [Objs -> 0..100] /\ 0 \in 0..100
    BY <1>0, <2>1 DEF StatusTypes, Objs
  <2>3. logi' \in [Objs -> 0..100] /\ \A p \in Objs : p # o => logi'[p] = logi[p]
    BY <2>1, <2>2
  <2> QED
    BY <1>0, <2>1, <2>2, <2>3, OneCounted
<1>8. ASSUME NEW t \in Troops, NEW world, DeleteTroops({t}, world) PROVE GroundStep
  BY <1>8, SquadLeaves DEF DeleteTroops, status
<1>9. ASSUME NEW u, SquadDies(u) PROVE GroundStep
  BY <1>8, <1>9 DEF SquadDies
<1>10. ASSUME NEW u, StrangerDies(u) PROVE GroundStep
  BY <1>10, Unseen DEF StrangerDies, campaign, status
<1>11. ASSUME NEW t \in Troops, DeployTroop(t) \/ PickUp(t) PROVE GroundStep
  BY <1>8, <1>11, SquadEnters DEF PickUp
<1>12. ASSUME NEW f \in Farps, AddFarp(f) PROVE GroundStep
  <2>1. /\ owner' = owner /\ logi' = [logi EXCEPT ![f] = 100]
        /\ Troops \cap groups' = Troops \cap groups
    BY <1>12 DEF AddFarp
  <2>2. f \in Objs /\ logi \in [Objs -> 0..100] /\ 100 \in 0..100
    BY <1>0 DEF StatusTypes, Objs
  <2>3. logi' \in [Objs -> 0..100] /\ \A p \in Objs : p # f => logi'[p] = logi[p]
    BY <2>1, <2>2
  <2> QED
    BY <1>0, <2>1, <2>2, <2>3, OneCounted
<1>13. CASE UNCHANGED vars
  BY <1>13, Unseen DEF vars, campaign, status
<1> QED
  BY <1>3, <1>4, <1>5, <1>6, <1>7, <1>9, <1>10, <1>11, <1>12, <1>13 DEF Next

LEMMA InitGround == Init => Ground!Init
<1> SUFFICES ASSUME Init PROVE Ground!Init
  OBVIOUS
<1>1. \A o \in Bases : Inside(o) = {}
  BY DEF Init, BaseGroups, Inside
<1>2. StatusTypes
  BY InitStatus DEF StatusInv
<1> QED
  BY <1>1, <1>2 DEF Ground!Init, StatusTypes, Objs

\* The objectives implement the territory, as to safety: a base changes hands only when it
\* does not stand, to the one side that has squads in its zone, and stands again then; the
\* squads are spent unless the capture broke off.
THEOREM ObjectivesAreTerritory ==
    ASSUME LogisticsAtBases PROVE Spec => Ground!Safety
<1>1. GhostInv /\ StatusInv /\ [Next]_vars => GroundStep
  BY StepGround
<1>2. Spec => [](GhostInv /\ StatusInv)
  BY StatusAlways
<1> QED
  BY <1>1, <1>2, InitGround, PTL DEF Spec, GroundStep, Ground!Safety

---------------------------------------------------------------------------
(* The spawn queue.                                                        *)

\* The queues there can be: no group is in both of the two that exclude each other.
Queues ==
    {r \in [spawn : Seq(Groups), despawn : Seq(Groups), later : SUBSET Groups] :
        ToSpawn(r) \cap ToDespawn(r) = {}}

\* Taking a group out of a queue takes it out, and nothing else.
LEMMA WithoutIt ==
    ASSUME NEW X, NEW queue \in Seq(X), NEW g
    PROVE  Without(queue, g) \in Seq(X) /\ ToSet(Without(queue, g)) = ToSet(queue) \ {g}
<1> DEFINE Step(x, kept) == IF x = g THEN kept ELSE Append(kept, x)
           IsIt(it) == it = [T \in SUBSET DOMAIN queue |->
                               IF T = {} THEN <<>>
                               ELSE Step(queue[Max(T)], it[T \ {Max(T)}])]
<1>1. Without(queue, g) = (CHOOSE it : IsIt(it))[DOMAIN queue]
  BY DEF Without, FoldLeft, MapThenFoldSet
<1> DEFINE n == Len(queue)
           S == 1..n
           V == Seq(X)
           choose == [T \in SUBSET S |-> Max(T)]
           op == [p \in S \X V |-> Step(queue[p[1]], p[2])]
<1>2. n \in Nat /\ DOMAIN queue = S /\ IsFiniteSet(S) /\ \A i \in S : queue[i] \in X
  BY FS_Interval
<1>3. <<>> \in V /\ \A x \in X, kept \in V : Step(x, kept) \in V
  OBVIOUS
<1>4. ASSUME NEW x \in X, NEW kept \in V
      PROVE  Range(Step(x, kept)) = Range(kept) \cup ({x} \ {g})
  <2>1. Range(Append(kept, x)) = Range(kept) \cup {x}
    <3>1. DOMAIN kept = 1..Len(kept) /\ DOMAIN Append(kept, x) = 1..(Len(kept) + 1)
          /\ Len(kept) \in Nat /\ Append(kept, x)[Len(kept) + 1] = x
          /\ \A i \in 1..Len(kept) : Append(kept, x)[i] = kept[i]
      OBVIOUS
    <3> QED
      BY <3>1 DEF Range
  <2> QED
    BY <2>1
<1> HIDE DEF V, Step
<1>5. op \in [S \X V -> V] /\ \A i \in S, kept \in V : op[<<i, kept>>] = Step(queue[i], kept)
  BY <1>2, <1>3
<1>6. Chooses(choose, S) /\ \A T \in SUBSET S : choose[T] = Max(T)
  BY <1>2, LastIsThere DEF Chooses
<1> HIDE DEF choose, op, n
<1>7. \A T \in SUBSET S, kept \in V : T # {} => op[<<choose[T], kept>>] = Step(queue[Max(T)], kept)
  BY <1>5, <1>6 DEF Chooses
<1> HIDE DEF S
<1>8. \E it : IsIt(it)
  <2>1. PICK it \in [SUBSET S -> V] : IsFold(it, S, <<>>, choose, op)
    BY <1>2, <1>3, <1>5, <1>6, FoldExists
  <2>2. it = [T \in SUBSET S |-> IF T = {} THEN <<>> ELSE op[<<choose[T], it[T \ {choose[T]}]>>]]
    BY <2>1 DEF IsFold
  <2>3. ASSUME NEW T \in SUBSET S, T # {}
        PROVE  op[<<choose[T], it[T \ {choose[T]}]>>] = Step(queue[Max(T)], it[T \ {Max(T)}])
    <3>1. T \ {Max(T)} \in SUBSET S /\ choose[T] = Max(T)
      BY <1>6
    <3>2. it[T \ {Max(T)}] \in V
      BY <3>1
    <3> QED
      BY <1>7, <2>3, <3>1, <3>2
  <2>4. it = [T \in SUBSET S |-> IF T = {} THEN <<>> ELSE Step(queue[Max(T)], it[T \ {Max(T)}])]
    BY <2>2, <2>3
  <2>5. IsIt(it)
    BY <1>2, <2>4
  <2> QED
    BY <2>5
<1> DEFINE it == CHOOSE it : IsIt(it)
<1>9. it = [T \in SUBSET S |-> IF T = {} THEN <<>> ELSE Step(queue[Max(T)], it[T \ {Max(T)}])]
  BY <1>2, <1>8
<1> HIDE DEF it
<1> DEFINE P == {T \in SUBSET S :
                    it[T] \in V /\ Range(it[T]) = {queue[i] : i \in T} \ {g}}
<1>10. ASSUME NEW T \in SUBSET S, \A i \in T : T \ {i} \in P
       PROVE  T \in P
  <2>1. CASE T = {}
    <3>1. it[T] = <<>>
      BY <1>9, <2>1
    <3>2. Range(<<>>) = {}
      BY DEF Range
    <3> QED
      BY <1>3, <2>1, <3>1, <3>2
  <2>2. CASE T # {}
    <3> DEFINE m == Max(T)
               U == T \ {m}
    <3>1. m \in T /\ m \in S /\ queue[m] \in X
      BY <1>2, <1>6, <2>2 DEF Chooses
    <3>2. it[T] = Step(queue[m], it[U])
      BY <1>9, <2>2
    <3>3. U \in P
      BY <1>10, <3>1
    <3>4. it[U] \in V /\ Range(it[U]) = {queue[i] : i \in U} \ {g}
      BY <3>3
    <3> HIDE DEF P
    <3>5. it[T] \in V /\ Range(it[T]) = ({queue[i] : i \in U} \ {g}) \cup ({queue[m]} \ {g})
      <4> HIDE DEF m, U
      <4>1. it[T] \in V
        BY <1>3, <3>1, <3>2, <3>4
      <4>2. Range(Step(queue[m], it[U])) = Range(it[U]) \cup ({queue[m]} \ {g})
        BY <1>4, <3>1, <3>4
      <4> QED
        BY <3>2, <3>4, <4>1, <4>2
    <3>6. {queue[i] : i \in T} = {queue[i] : i \in U} \cup {queue[m]}
      BY <3>1
    <3> HIDE DEF m, U
    <3>7. Range(it[T]) = {queue[i] : i \in T} \ {g}
      BY <3>5, <3>6
    <3> QED
      BY <3>5, <3>7 DEF P
  <2> QED
    BY <2>1, <2>2
<1> HIDE DEF P
<1>11. \A T \in SUBSET S : T \in P
  BY <1>2, <1>10, SubsetInduction
<1>12. S \in P
  BY <1>11
<1>13. it[S] \in V /\ Range(it[S]) = {queue[i] : i \in S} \ {g}
  BY <1>12 DEF P
<1>14. Without(queue, g) = it[S]
  BY <1>1, <1>2 DEF it
<1>15. ToSet(queue) = {queue[i] : i \in S}
  BY <1>2 DEF ToSet
<1>16. ToSet(it[S]) = Range(it[S])
  BY DEF ToSet, Range
<1> QED
  BY <1>13, <1>14, <1>15, <1>16 DEF V

ToBeSpawned(r, s, gs) ==
    /\ ToSpawn(s) = ToSpawn(r) \cup (gs \ ToDespawn(r))
    /\ ToDespawn(s) = ToDespawn(r) \ gs /\ s.later = r.later

ToBeDespawned(r, s, gs) ==
    /\ ToDespawn(s) = ToDespawn(r) \cup (gs \ ToSpawn(r))
    /\ ToSpawn(s) = ToSpawn(r) \ gs /\ s.later = r.later

LEMMA AppendIt ==
    ASSUME NEW X, NEW queue \in Seq(X), NEW x \in X
    PROVE  Append(queue, x) \in Seq(X) /\ ToSet(Append(queue, x)) = ToSet(queue) \cup {x}
<1>1. DOMAIN queue = 1..Len(queue) /\ DOMAIN Append(queue, x) = 1..(Len(queue) + 1)
      /\ Len(queue) \in Nat /\ Append(queue, x)[Len(queue) + 1] = x
      /\ \A i \in 1..Len(queue) : Append(queue, x)[i] = queue[i]
  OBVIOUS
<1> QED
  BY <1>1 DEF ToSet

LEMMA PushSpawn ==
    ASSUME NEW r \in Queues, NEW g \in Groups
    PROVE  push_spawn(r, g) \in Queues /\ ToBeSpawned(r, push_spawn(r, g), {g})
<1>1. /\ r = [spawn |-> r.spawn, despawn |-> r.despawn, later |-> r.later]
      /\ r.spawn \in Seq(Groups) /\ r.despawn \in Seq(Groups) /\ r.later \in SUBSET Groups
      /\ ToSpawn(r) \cap ToDespawn(r) = {}
  BY DEF Queues
<1>2. CASE g \in ToDespawn(r)
  <2> DEFINE kept == Without(r.despawn, g)
  <2>1. push_spawn(r, g) = [spawn |-> r.spawn, despawn |-> kept, later |-> r.later]
    BY <1>1, <1>2 DEF push_spawn
  <2>2. kept \in Seq(Groups) /\ ToSet(kept) = ToDespawn(r) \ {g}
    BY <1>1, WithoutIt DEF ToDespawn
  <2> HIDE DEF kept
  <2> QED
    BY <1>1, <1>2, <2>1, <2>2 DEF Queues, ToBeSpawned, ToSpawn, ToDespawn
<1>3. CASE g \notin ToDespawn(r) /\ g \in ToSpawn(r)
  BY <1>3 DEF push_spawn, ToBeSpawned
<1>4. CASE g \notin ToDespawn(r) /\ g \notin ToSpawn(r)
  <2> DEFINE more == Append(r.spawn, g)
  <2>1. push_spawn(r, g) = [spawn |-> more, despawn |-> r.despawn, later |-> r.later]
    BY <1>1, <1>4 DEF push_spawn
  <2>2. more \in Seq(Groups) /\ ToSet(more) = ToSpawn(r) \cup {g}
    BY <1>1, AppendIt DEF ToSpawn
  <2> HIDE DEF more
  <2> QED
    BY <1>1, <1>4, <2>1, <2>2 DEF Queues, ToBeSpawned, ToSpawn, ToDespawn
<1> QED
  BY <1>2, <1>3, <1>4

LEMMA PushDespawn ==
    ASSUME NEW r \in Queues, NEW g \in Groups
    PROVE  push_despawn(r, g) \in Queues /\ ToBeDespawned(r, push_despawn(r, g), {g})
<1>1. /\ r = [spawn |-> r.spawn, despawn |-> r.despawn, later |-> r.later]
      /\ r.spawn \in Seq(Groups) /\ r.despawn \in Seq(Groups) /\ r.later \in SUBSET Groups
      /\ ToSpawn(r) \cap ToDespawn(r) = {}
  BY DEF Queues
<1>2. CASE g \in ToSpawn(r)
  <2> DEFINE kept == Without(r.spawn, g)
  <2>1. push_despawn(r, g) = [spawn |-> kept, despawn |-> r.despawn, later |-> r.later]
    BY <1>1, <1>2 DEF push_despawn
  <2>2. kept \in Seq(Groups) /\ ToSet(kept) = ToSpawn(r) \ {g}
    BY <1>1, WithoutIt DEF ToSpawn
  <2> HIDE DEF kept
  <2> QED
    BY <1>1, <1>2, <2>1, <2>2 DEF Queues, ToBeDespawned, ToSpawn, ToDespawn
<1>3. CASE g \notin ToSpawn(r) /\ g \in ToDespawn(r)
  BY <1>3 DEF push_despawn, ToBeDespawned
<1>4. CASE g \notin ToSpawn(r) /\ g \notin ToDespawn(r)
  <2> DEFINE more == Append(r.despawn, g)
  <2>1. push_despawn(r, g) = [spawn |-> r.spawn, despawn |-> more, later |-> r.later]
    BY <1>1, <1>4 DEF push_despawn
  <2>2. more \in Seq(Groups) /\ ToSet(more) = ToDespawn(r) \cup {g}
    BY <1>1, AppendIt DEF ToDespawn
  <2> HIDE DEF more
  <2> QED
    BY <1>1, <1>4, <2>1, <2>2 DEF Queues, ToBeDespawned, ToSpawn, ToDespawn
<1> QED
  BY <1>2, <1>3, <1>4

LEMMA PushSpawns ==
    ASSUME NEW r \in Queues, NEW gs \in SUBSET Groups
    PROVE  push_spawns(r, gs) \in Queues /\ ToBeSpawned(r, push_spawns(r, gs), gs)
<1> DEFINE IsIt(it) == it = [T \in SUBSET gs |->
                               IF T = {} THEN r
                               ELSE push_spawn(it[T \ {Pick(T)}], Pick(T))]
<1>1. push_spawns(r, gs) = (CHOOSE it : IsIt(it))[gs]
  BY DEF push_spawns, FoldSet, MapThenFoldSet, Pick
<1>2. IsFiniteSet(gs)
  BY ObjectivesConstants, FS_Subset
<1> DEFINE choose == [T \in SUBSET gs |-> Pick(T)]
           op == [p \in gs \X Queues |-> push_spawn(p[2], p[1])]
           R == {p \in Queues \X SUBSET gs : ToBeSpawned(r, p[1], p[2])}
<1>3. op \in [gs \X Queues -> Queues] /\ \A x \in gs, v \in Queues : op[<<x, v>>] = push_spawn(v, x)
  BY PushSpawn
<1>4. Chooses(choose, gs) /\ \A T \in SUBSET gs : choose[T] = Pick(T)
  BY PickIsThere DEF Chooses
<1>5. <<r, {}>> \in R
  BY DEF ToBeSpawned
<1>6. KeptBy(R, gs, Queues, op)
  <2> SUFFICES ASSUME NEW T \in SUBSET gs, NEW x \in gs, NEW v \in Queues, x \notin T, <<v, T>> \in R
               PROVE  op[<<x, v>>] \in Queues /\ <<op[<<x, v>>], T \cup {x}>> \in R
    BY DEF KeptBy
  <2> DEFINE w == push_spawn(v, x)
  <2>1. op[<<x, v>>] = w
    BY <1>3
  <2>2. w \in Queues /\ ToBeSpawned(v, w, {x})
    BY PushSpawn
  <2>3. ToBeSpawned(r, v, T)
    OBVIOUS
  <2> HIDE DEF w, op
  <2>4. ToBeSpawned(r, w, T \cup {x})
    BY <2>2, <2>3 DEF ToBeSpawned
  <2> QED
    BY <2>1, <2>2, <2>4
<1> HIDE DEF choose, op, R
<1>7. \A T \in SUBSET gs, v \in Queues : T # {} => op[<<choose[T], v>>] = push_spawn(v, Pick(T))
  BY <1>3, <1>4 DEF Chooses
<1>8. \E it : IsIt(it)
  <2>1. PICK it \in [SUBSET gs -> Queues] : IsFold(it, gs, r, choose, op)
    BY <1>2, <1>3, <1>4, FoldExists
  <2>2. it = [T \in SUBSET gs |-> IF T = {} THEN r ELSE op[<<choose[T], it[T \ {choose[T]}]>>]]
    BY <2>1 DEF IsFold
  <2>3. ASSUME NEW T \in SUBSET gs, T # {}
        PROVE  op[<<choose[T], it[T \ {choose[T]}]>>] = push_spawn(it[T \ {Pick(T)}], Pick(T))
    <3>1. T \ {Pick(T)} \in SUBSET gs /\ choose[T] = Pick(T)
      BY <1>4
    <3>2. it[T \ {Pick(T)}] \in Queues
      BY <3>1
    <3> QED
      BY <1>7, <2>3, <3>1, <3>2
  <2>4. it = [T \in SUBSET gs |-> IF T = {} THEN r ELSE push_spawn(it[T \ {Pick(T)}], Pick(T))]
    BY <2>2, <2>3
  <2> QED
    BY <2>4
<1> DEFINE it == CHOOSE it : IsIt(it)
<1>9. it = [T \in SUBSET gs |-> IF T = {} THEN r ELSE push_spawn(it[T \ {Pick(T)}], Pick(T))]
  BY <1>8
<1> HIDE DEF it
<1>10. FoldsIn(it, gs, Queues, r, choose, op)
  <2>1. it[{}] = r
    BY <1>9
  <2>2. ASSUME NEW T \in SUBSET gs, T # {}, it[T \ {choose[T]}] \in Queues
        PROVE  it[T] = op[<<choose[T], it[T \ {choose[T]}]>>]
    BY <1>4, <1>7, <1>9, <2>2, ZenonT(40)
  <2> QED
    BY <2>1, <2>2 DEF FoldsIn
<1>11. it[gs] \in Queues /\ <<it[gs], gs>> \in R
  BY <1>2, <1>4, <1>5, <1>6, <1>10, FoldKeeps
<1> QED
  BY <1>1, <1>11 DEF it, R

LEMMA PushDespawns ==
    ASSUME NEW r \in Queues, NEW gs \in SUBSET Groups
    PROVE  push_despawns(r, gs) \in Queues /\ ToBeDespawned(r, push_despawns(r, gs), gs)
<1> DEFINE IsIt(it) == it = [T \in SUBSET gs |->
                               IF T = {} THEN r
                               ELSE push_despawn(it[T \ {Pick(T)}], Pick(T))]
<1>1. push_despawns(r, gs) = (CHOOSE it : IsIt(it))[gs]
  BY DEF push_despawns, FoldSet, MapThenFoldSet, Pick
<1>2. IsFiniteSet(gs)
  BY ObjectivesConstants, FS_Subset
<1> DEFINE choose == [T \in SUBSET gs |-> Pick(T)]
           op == [p \in gs \X Queues |-> push_despawn(p[2], p[1])]
           R == {p \in Queues \X SUBSET gs : ToBeDespawned(r, p[1], p[2])}
<1>3. op \in [gs \X Queues -> Queues] /\ \A x \in gs, v \in Queues : op[<<x, v>>] = push_despawn(v, x)
  BY PushDespawn
<1>4. Chooses(choose, gs) /\ \A T \in SUBSET gs : choose[T] = Pick(T)
  BY PickIsThere DEF Chooses
<1>5. <<r, {}>> \in R
  BY DEF ToBeDespawned
<1>6. KeptBy(R, gs, Queues, op)
  <2> SUFFICES ASSUME NEW T \in SUBSET gs, NEW x \in gs, NEW v \in Queues, x \notin T, <<v, T>> \in R
               PROVE  op[<<x, v>>] \in Queues /\ <<op[<<x, v>>], T \cup {x}>> \in R
    BY DEF KeptBy
  <2> DEFINE w == push_despawn(v, x)
  <2>1. op[<<x, v>>] = w
    BY <1>3
  <2>2. w \in Queues /\ ToBeDespawned(v, w, {x})
    BY PushDespawn
  <2>3. ToBeDespawned(r, v, T)
    OBVIOUS
  <2> HIDE DEF w, op
  <2>4. ToBeDespawned(r, w, T \cup {x})
    BY <2>2, <2>3 DEF ToBeDespawned
  <2> QED
    BY <2>1, <2>2, <2>4
<1> HIDE DEF choose, op, R
<1>7. \A T \in SUBSET gs, v \in Queues : T # {} => op[<<choose[T], v>>] = push_despawn(v, Pick(T))
  BY <1>3, <1>4 DEF Chooses
<1>8. \E it : IsIt(it)
  <2>1. PICK it \in [SUBSET gs -> Queues] : IsFold(it, gs, r, choose, op)
    BY <1>2, <1>3, <1>4, FoldExists
  <2>2. it = [T \in SUBSET gs |-> IF T = {} THEN r ELSE op[<<choose[T], it[T \ {choose[T]}]>>]]
    BY <2>1 DEF IsFold
  <2>3. ASSUME NEW T \in SUBSET gs, T # {}
        PROVE  op[<<choose[T], it[T \ {choose[T]}]>>] = push_despawn(it[T \ {Pick(T)}], Pick(T))
    <3>1. T \ {Pick(T)} \in SUBSET gs /\ choose[T] = Pick(T)
      BY <1>4
    <3>2. it[T \ {Pick(T)}] \in Queues
      BY <3>1
    <3> QED
      BY <1>7, <2>3, <3>1, <3>2
  <2>4. it = [T \in SUBSET gs |-> IF T = {} THEN r ELSE push_despawn(it[T \ {Pick(T)}], Pick(T))]
    BY <2>2, <2>3
  <2> QED
    BY <2>4
<1> DEFINE it == CHOOSE it : IsIt(it)
<1>9. it = [T \in SUBSET gs |-> IF T = {} THEN r ELSE push_despawn(it[T \ {Pick(T)}], Pick(T))]
  BY <1>8
<1> HIDE DEF it
<1>10. FoldsIn(it, gs, Queues, r, choose, op)
  <2>1. it[{}] = r
    BY <1>9
  <2>2. ASSUME NEW T \in SUBSET gs, T # {}, it[T \ {choose[T]}] \in Queues
        PROVE  it[T] = op[<<choose[T], it[T \ {choose[T]}]>>]
    BY <1>4, <1>7, <1>9, <2>2, ZenonT(40)
  <2> QED
    BY <2>1, <2>2 DEF FoldsIn
<1>11. it[gs] \in Queues /\ <<it[gs], gs>> \in R
  BY <1>2, <1>4, <1>5, <1>6, <1>10, FoldKeeps
<1> QED
  BY <1>1, <1>11 DEF it, R

---------------------------------------------------------------------------
(* What is queued.                                                         *)

\* Every base has its groups always, and every FARP while it exists.
CampaignStands ==
    /\ BaseGroups \subseteq groups
    /\ \A f \in Farps \cap exists, g \in Standing : Home[g] = f => g \in groups

\* What is to be spawned later are services, and all of a FARP of which nothing was spawned yet,
\* which therefore has no damage.
LaterInv ==
    /\ \A g \in q.later : g \in Standing /\ (Home[g] \in Farps \/ Class[g] = "services")
    /\ \A g \in q.later : Home[g] \in Farps =>
           /\ g \notin known /\ g \notin ToSpawn(q) /\ g \notin ToDespawn(q)
           /\ \A h \in Standing : Home[h] = Home[g] => h \in q.later
           /\ Home[g] \in exists => health[Home[g]] = 100 /\ logi[Home[g]] = 100

\* What was never used is nowhere.
FreshIsNowhere ==
    \A g \in Groups : ~WasUsed(g) => g \notin known /\ g \notin Queued(q)

QueueInv == CampaignStands /\ q \in Queues /\ LaterInv /\ FreshIsNowhere

LEMMA SameFarpSameSide ==
    ASSUME NEW g \in Standing, NEW h \in Standing, Home[g] \in Farps, Home[h] = Home[g]
    PROVE  SideOf[g] = SideOf[h]
  BY FarpsHaveLogistics DEF Standing

LEMMA CampaignStays ==
    ASSUME CampaignStands, NEW gs, groups' = groups \ gs, exists' \subseteq exists,
           \A g \in gs \cap Standing : Home[g] \notin exists' /\ Home[g] \notin Bases
    PROVE  CampaignStands'
  BY DEF CampaignStands, BaseGroups, Standing

\* Most steps only put groups into the queues, or take what is due from those to be spawned
\* later; a captured base queues its services.
Together(due) ==
    due \subseteq q.later /\ \A g \in due, h \in q.later :
        Home[g] = Home[h] /\ SideOf[g] = SideOf[h] => h \in due

Undisturbed(f) == health'[f] = health[f] /\ logi'[f] = logi[f]

LEMMA QueueStays ==
    ASSUME QueueInv, q' \in Queues, CampaignStands', used \subseteq used', exists' \subseteq exists,
           NEW due, Together(due), NEW new, NEW more,
           q'.later = (q.later \ due) \cup more,
           ToSpawn(q') \cup ToDespawn(q') \cup known'
               \subseteq ToSpawn(q) \cup ToDespawn(q) \cup known \cup new,
           \A g \in new : WasUsed(g)' /\ (Home[g] \in Farps => g \notin q'.later),
           \A g \in more : g \in Standing /\ Home[g] \in Bases /\ Class[g] = "services",
           \A f \in Farps \cap exists' :
               Undisturbed(f) \/ \A g \in q'.later : Home[g] # f
    PROVE  QueueInv'
<1>1. \A g \in Groups : WasUsed(g) => WasUsed(g)'
  BY DEF WasUsed
<1>2. \A g \in more : Home[g] \notin Farps /\ WasUsed(g)'
  BY ObjectivesConstants DEF WasUsed, Standing
<1>3. FreshIsNowhere'
  BY <1>1, <1>2 DEF QueueInv, FreshIsNowhere, Queued
<1>4. ASSUME NEW g \in q'.later
      PROVE  g \in Standing /\ (Home[g] \in Farps \/ Class[g] = "services")
  BY <1>4 DEF QueueInv, LaterInv
<1>5. ASSUME NEW g \in q'.later, Home[g] \in Farps
      PROVE  /\ g \notin known' /\ g \notin ToSpawn(q') /\ g \notin ToDespawn(q')
             /\ \A h \in Standing : Home[h] = Home[g] => h \in q'.later
             /\ Home[g] \in exists' => health'[Home[g]] = 100 /\ logi'[Home[g]] = 100
  <2>1. g \in q.later /\ g \notin due /\ g \in Standing
    BY <1>2, <1>4, <1>5
  <2>2. /\ g \notin known /\ g \notin ToSpawn(q) /\ g \notin ToDespawn(q)
        /\ \A h \in Standing : Home[h] = Home[g] => h \in q.later
        /\ Home[g] \in exists => health[Home[g]] = 100 /\ logi[Home[g]] = 100
    BY <1>5, <2>1 DEF QueueInv, LaterInv
  <2>3. \A h \in Standing : Home[h] = Home[g] => h \notin due
    BY <1>5, <2>1, <2>2, SameFarpSameSide DEF Together
  <2>4. g \notin new
    BY <1>5
  <2>5. Home[g] \in exists' => Undisturbed(Home[g])
    BY <1>5
  <2> QED
    BY <2>2, <2>3, <2>4, <2>5 DEF Undisturbed
<1>6. LaterInv'
  BY <1>4, <1>5 DEF LaterInv, Standing
<1> QED
  BY <1>3, <1>6 DEF QueueInv, Queues

LEMMA DueQueue ==
    ASSUME q \in Queues, NEW due \in DueTogether
    PROVE  /\ WithDue(q, due) \in Queues /\ Together(due)
           /\ ToSpawn(WithDue(q, due)) = ToSpawn(q) \cup (due \ ToDespawn(q))
           /\ ToDespawn(WithDue(q, due)) = ToDespawn(q) \ due
           /\ WithDue(q, due).later = q.later \ due
<1> DEFINE r == [spawn |-> q.spawn, despawn |-> q.despawn, later |-> q.later \ due]
<1>1. q = [spawn |-> q.spawn, despawn |-> q.despawn, later |-> q.later]
      /\ q.spawn \in Seq(Groups) /\ q.despawn \in Seq(Groups) /\ q.later \in SUBSET Groups
      /\ ToSpawn(q) \cap ToDespawn(q) = {}
  BY DEF Queues
<1>2. [q EXCEPT !.later = @ \ due] = r
  <2> DEFINE rest == q.later \ due
  <2>1. rest \in SUBSET Groups
    BY <1>1
  <2> HIDE DEF rest
  <2>2. [q EXCEPT !.later = rest] = [spawn |-> q.spawn, despawn |-> q.despawn, later |-> rest]
    BY <2>1 DEF Queues
  <2> QED
    BY <2>2 DEF rest
<1>3. r \in Queues /\ ToSpawn(r) = ToSpawn(q) /\ ToDespawn(r) = ToDespawn(q)
      /\ r.later = q.later \ due
  BY <1>1 DEF Queues, ToSpawn, ToDespawn
<1>4. due \in SUBSET Groups /\ Together(due)
  BY <1>1 DEF DueTogether, Together
<1>5. WithDue(q, due) = push_spawns(r, due)
  BY <1>2 DEF WithDue
<1> HIDE DEF r
<1> QED
  BY <1>3, <1>4, <1>5, PushSpawns DEF ToBeSpawned

LEMMA QueueAhead ==
    ASSUME NEW X, NEW s \in Seq(X), s # <<>>
    PROVE  /\ Head(s) \in ToSet(s) /\ Tail(s) \in Seq(X)
           /\ ToSet(Tail(s)) \subseteq ToSet(s) /\ ToSet(s) \subseteq ToSet(Tail(s)) \cup {Head(s)}
<1>1. Len(s) \in Nat \ {0} /\ DOMAIN s = 1..Len(s) /\ Head(s) = s[1] /\ Tail(s) \in Seq(X)
      /\ Len(Tail(s)) = Len(s) - 1 /\ DOMAIN Tail(s) = 1..(Len(s) - 1)
      /\ \A i \in 1..(Len(s) - 1) : Tail(s)[i] = s[i + 1]
  OBVIOUS
<1>2. \A i \in 1..Len(s) : i = 1 \/ (i - 1 \in 1..(Len(s) - 1) /\ s[i] = Tail(s)[i - 1])
  BY <1>1
<1>3. \A i \in 1..(Len(s) - 1) : i + 1 \in 1..Len(s)
  BY <1>1
<1>4. \A t \in Seq(X) : ToSet(t) = {t[i] : i \in 1..Len(t)}
  BY DEF ToSet
<1>5. ToSet(s) = {s[i] : i \in 1..Len(s)} /\ ToSet(Tail(s)) = {Tail(s)[i] : i \in 1..(Len(s) - 1)}
  BY <1>1, <1>4
<1> QED
  <2> DEFINE n == Len(s)
             t == Tail(s)
  <2>1. /\ Head(s) = s[1] /\ 1 \in 1..n /\ t \in Seq(X)
        /\ ToSet(s) = {s[i] : i \in 1..n} /\ ToSet(t) = {t[i] : i \in 1..(n - 1)}
        /\ \A i \in 1..(n - 1) : t[i] = s[i + 1]
    BY <1>1, <1>5
  <2>2. \A i \in 1..n : i = 1 \/ (i - 1 \in 1..(n - 1) /\ s[i] = t[i - 1])
    BY <1>2
  <2>3. \A i \in 1..(n - 1) : i + 1 \in 1..n
    BY <1>3
  <2> HIDE DEF n, t
  <2>4. ToSet(t) \subseteq ToSet(s) /\ Head(s) \in ToSet(s)
    BY <2>1, <2>3
  <2>5. ToSet(s) \subseteq ToSet(t) \cup {Head(s)}
    BY <2>1, <2>2
  <2> QED
    BY <2>1, <2>4, <2>5 DEF t

\* What process_spawn_queue takes from the front, after what is due was pushed.
DespawnsFront(due, g) ==
    /\ q' \in Queues /\ q'.later = q.later \ due /\ g \in ToDespawn(q) \ due
    /\ ToSpawn(q') = ToSpawn(q) \cup (due \ ToDespawn(q)) /\ g \notin ToSpawn(q')
    /\ ToDespawn(q') \subseteq ToDespawn(q) \ due
    /\ ToDespawn(q) \ due \subseteq ToDespawn(q') \cup {g}
    /\ dcs' = dcs \ UnitsOf[g] /\ known' \subseteq known
    /\ unspawned' = unspawned \cup LostSpawns(due, dead, dcs) /\ undespawned' = undespawned \ {g}
    /\ UNCHANGED <<campaign, spawned, status, used, culled>>

LEMMA DespawnTakes ==
    ASSUME q \in Queues, NEW due \in DueTogether, Despawn(due)
    PROVE  Together(due) /\ \E g \in Groups : DespawnsFront(due, g)
<1> DEFINE r == WithDue(q, due)
           g == Head(r.despawn)
           rest == Tail(r.despawn)
<1>1. /\ r.despawn # <<>> /\ q' = [r EXCEPT !.despawn = rest]
      /\ dcs' = dcs \ UnitsOf[g]
      /\ known' = IF g \in groups THEN known \ {g} ELSE known
      /\ unspawned' = unspawned \cup LostSpawns(due, dead, dcs) /\ undespawned' = undespawned \ {g}
      /\ UNCHANGED <<campaign, spawned, status, used, culled>>
  BY DEF Despawn
<1>2. /\ r \in Queues /\ Together(due) /\ r.later = q.later \ due
      /\ ToSpawn(r) = ToSpawn(q) \cup (due \ ToDespawn(q))
      /\ ToDespawn(r) = ToDespawn(q) \ due
  BY DueQueue
<1> HIDE DEF r
<1>3. r.spawn \in Seq(Groups) /\ r.despawn \in Seq(Groups) /\ r.later \in SUBSET Groups
      /\ ToSpawn(r) \cap ToDespawn(r) = {}
  BY <1>2 DEF Queues
<1>4. /\ g \in ToDespawn(r) /\ rest \in Seq(Groups)
      /\ ToSet(rest) \subseteq ToDespawn(r) /\ ToDespawn(r) \subseteq ToSet(rest) \cup {g}
  BY <1>1, <1>3, QueueAhead DEF ToDespawn
<1>5. \A x \in ToDespawn(r) : x \in Groups
  BY <1>3 DEF ToDespawn, ToSet
<1> HIDE DEF g, rest
<1>6. q' = [spawn |-> r.spawn, despawn |-> rest, later |-> r.later]
  BY <1>1, <1>2, <1>4 DEF Queues
<1>7. q' \in Queues /\ ToSpawn(q') = ToSpawn(r) /\ ToDespawn(q') = ToSet(rest)
      /\ q'.later = q.later \ due
  BY <1>2, <1>3, <1>4, <1>6 DEF Queues, ToSpawn, ToDespawn
<1>8. DespawnsFront(due, g)
  BY <1>1, <1>2, <1>3, <1>4, <1>7 DEF DespawnsFront
<1> QED
  BY <1>2, <1>4, <1>5, <1>8

SpawnsFront(due, g) ==
    /\ q' \in Queues /\ q'.later = q.later \ due /\ g \in ToSpawn(q) \cup (due \ ToDespawn(q))
    /\ ToSpawn(q') \subseteq ToSpawn(q) \cup (due \ ToDespawn(q))
    /\ ToSpawn(q) \cup (due \ ToDespawn(q)) \subseteq ToSpawn(q') \cup {g}
    /\ ToDespawn(q) \subseteq due /\ ToDespawn(q') = {}
    /\ IF g \in groups /\ Alive(g, dead) # {}
       THEN dcs' = (dcs \ UnitsOf[g]) \cup Alive(g, dead) /\ known' = known \cup {g}
       ELSE dcs' = dcs /\ known' = known
    /\ unspawned' = (unspawned \cup LostSpawns(due, dead, dcs)) \ {g}
    /\ undespawned' = undespawned
    /\ UNCHANGED <<campaign, spawned, status, used, culled>>

LEMMA SpawnTakes ==
    ASSUME q \in Queues, NEW due \in DueTogether, Spawn(due)
    PROVE  Together(due) /\ \E g \in Groups : SpawnsFront(due, g)
<1> DEFINE r == WithDue(q, due)
           g == Head(r.spawn)
           rest == Tail(r.spawn)
<1>1. /\ r.despawn = <<>> /\ r.spawn # <<>> /\ q' = [r EXCEPT !.spawn = rest]
      /\ IF g \in groups /\ Alive(g, dead) # {}
         THEN dcs' = (dcs \ UnitsOf[g]) \cup Alive(g, dead) /\ known' = known \cup {g}
         ELSE dcs' = dcs /\ known' = known
      /\ unspawned' = (unspawned \cup LostSpawns(due, dead, dcs)) \ {g}
      /\ undespawned' = undespawned
      /\ UNCHANGED <<campaign, spawned, status, used, culled>>
  BY DEF Spawn, indices
<1>2. /\ r \in Queues /\ Together(due) /\ r.later = q.later \ due
      /\ ToSpawn(r) = ToSpawn(q) \cup (due \ ToDespawn(q))
      /\ ToDespawn(r) = ToDespawn(q) \ due
  BY DueQueue
<1> HIDE DEF r
<1>3. r.spawn \in Seq(Groups) /\ r.despawn \in Seq(Groups) /\ r.later \in SUBSET Groups
  BY <1>2 DEF Queues
<1>4. /\ g \in ToSpawn(r) /\ rest \in Seq(Groups)
      /\ ToSet(rest) \subseteq ToSpawn(r) /\ ToSpawn(r) \subseteq ToSet(rest) \cup {g}
  BY <1>1, <1>3, QueueAhead DEF ToSpawn
<1>5. \A x \in ToSpawn(r) : x \in Groups
  BY <1>3 DEF ToSpawn, ToSet
<1>6. ToDespawn(r) = {}
  BY <1>1 DEF ToDespawn, ToSet
<1> HIDE DEF g, rest
<1>7. q' = [spawn |-> rest, despawn |-> r.despawn, later |-> r.later]
  BY <1>1, <1>2, <1>4 DEF Queues
<1>8. q' \in Queues /\ ToSpawn(q') = ToSet(rest) /\ ToDespawn(q') = {}
      /\ q'.later = q.later \ due
  BY <1>2, <1>3, <1>4, <1>6, <1>7 DEF Queues, ToSpawn, ToDespawn
<1>9. SpawnsFront(due, g)
  BY <1>1, <1>2, <1>4, <1>6, <1>8 DEF SpawnsFront
<1> QED
  BY <1>2, <1>4, <1>5, <1>9

LEMMA NoneToWaitFor ==
    ASSUME QueueInv
    PROVE  Together({}) /\ q.later \in SUBSET Groups
  BY DEF Together, QueueInv, Queues

\* A step that pushes spawns of groups, despawns, or nothing at all.
Pushes(new) ==
    \/ q' \in Queues /\ (ToBeSpawned(q, q', new) \/ ToBeDespawned(q, q', new))
    \/ q' = q

LEMMA PushedStays ==
    ASSUME QueueInv, CampaignStands', used \subseteq used', exists' \subseteq exists,
           known' = known, NEW new \in SUBSET Groups, Pushes(new),
           \A g \in new : WasUsed(g)' /\ (Home[g] \in Farps => g \notin q.later),
           \A f \in Farps \cap exists' :
               Undisturbed(f) \/ \A g \in q.later : Home[g] # f
    PROVE  QueueInv'
<1>1. q' \in Queues /\ q'.later = (q.later \ {}) \cup {}
      /\ ToSpawn(q') \cup ToDespawn(q') \cup known'
           \subseteq ToSpawn(q) \cup ToDespawn(q) \cup known \cup new
  BY DEF Pushes, ToBeSpawned, ToBeDespawned, QueueInv
<1>2. \A g \in new : WasUsed(g)' /\ (Home[g] \in Farps => g \notin q'.later)
  BY <1>1
<1>3. \A f \in Farps \cap exists' : Undisturbed(f) \/ \A g \in q'.later : Home[g] # f
  BY <1>1
<1>4. \A g \in {} : g \in Standing /\ Home[g] \in Bases /\ Class[g] = "services"
  OBVIOUS
<1> QED
  BY <1>1, <1>2, <1>3, <1>4, NoneToWaitFor, QueueStays

\* Nothing of a FARP that waits to be spawned is in DCS, and nothing is to be repaired there.
LEMMA FarpWaits ==
    ASSUME GhostInv, QueueInv, NEW f \in Farps \cap exists, NEW h \in q.later, Home[h] = f
    PROVE  /\ health[f] = 100 /\ logi[f] = 100
           /\ \A g \in Standing : Home[g] = f => g \notin known /\ UnitsOf[g] \cap dcs = {}
<1>1. h \in Standing /\ \A g \in Standing : Home[g] = f => g \in q.later
  BY DEF QueueInv, LaterInv
<1>2. \A g \in Standing : Home[g] = f => g \notin known
  BY <1>1 DEF QueueInv, LaterInv
<1>3. \A g \in Standing : Home[g] = f => g \in groups
  BY DEF QueueInv, CampaignStands
<1> QED
  BY <1>2, <1>3 DEF GhostInv, NoGhosts, QueueInv, LaterInv

LEMMA BaseGroupsUsed == \A g \in Standing : Home[g] \in Bases => WasUsed(g) /\ Home[g] \notin Farps
  BY ObjectivesConstants DEF Standing, WasUsed

LEMMA TroopsInBases == \A t \in Troops : t \in Groups /\ Home[t] \in Bases /\ Home[t] \notin Farps
  BY ObjectivesConstants

LEMMA DefencesStand ==
    \A o : \A g \in Defences(o) : g \in Standing /\ Home[g] = o /\ o \in Bases /\ Class[g] # "services"
  BY DEF Defences, GroupsAt, Standing

\* What stands at an objective that is there may be pushed: it was used, and if it waits to be
\* spawned later there is nothing to push it for.
LEMMA AtObjective ==
    ASSUME GhostInv, QueueInv, NEW o \in exists, o \in Objs, NEW g \in Standing, Home[g] = o
    PROVE  WasUsed(g)
<1>1. CASE o \in Bases
  BY <1>1, BaseGroupsUsed
<1>2. CASE o \in Farps
  BY <1>2 DEF QueueInv, CampaignStands, GhostInv, Sets
<1> QED
  BY <1>1, <1>2 DEF Objs

LEMMA CountedElsewhere ==
    ASSUME StatusInv, NEW o, NEW s, NEW d, update_objective_status(o, s, d)
    PROVE  \A f \in Farps : f # o => Undisturbed(f)
  BY DEF StatusInv, StatusTypes, update_objective_status, Undisturbed, Objs

LEMMA UnitDiesQueue ==
    ASSUME GhostInv, StatusInv, QueueInv, NEW u, UnitDies(u) PROVE QueueInv'
<1> DEFINE g == GroupOf(u)
<1>1. g \in Groups /\ u \in UnitsOf[g] /\ u \in dcs
  <2>1. PICK h \in Groups : u \in UnitsOf[h]
    BY DEF UnitDies, GhostInv, Sets, UnitsIn
  <2> QED
    BY <2>1, GroupOfUnit DEF UnitDies
<1>2. /\ q' = q /\ UNCHANGED <<groups, exists, known, used>>
      /\ g \in Troops => UNCHANGED status
      /\ g \notin Troops => \E d : update_objective_status(Home[g], owner[Home[g]], d)
  BY DEF UnitDies
<1> HIDE DEF g
<1>3. CampaignStands'
  BY <1>2 DEF QueueInv, CampaignStands
<1>4. ASSUME NEW f \in Farps \cap exists'
      PROVE  Undisturbed(f) \/ \A h \in q.later : Home[h] # f
  <2>1. CASE g \in Troops
    BY <1>2, <2>1 DEF status, Undisturbed
  <2>2. CASE g \notin Troops /\ Home[g] # f
    BY <1>2, <2>2, CountedElsewhere
  <2>3. CASE g \notin Troops /\ Home[g] = f
    BY <1>1, <1>2, <2>3, FarpWaits DEF Standing
  <2> QED
    BY <2>1, <2>2, <2>3
<1>5. Pushes({}) /\ used \subseteq used' /\ exists' \subseteq exists /\ known' = known
  BY <1>2 DEF Pushes
<1> QED
  BY <1>3, <1>4, <1>5, PushedStays

LEMMA QuietQueue ==
    ASSUME QueueInv, UNCHANGED <<q, groups, exists, known, used, status>> PROVE QueueInv'
<1>1. CampaignStands'
  BY DEF QueueInv, CampaignStands
<1>2. \A f : Undisturbed(f)
  BY DEF status, Undisturbed
<1>3. Pushes({}) /\ used \subseteq used' /\ exists' \subseteq exists /\ known' = known
  BY DEF Pushes
<1> QED
  BY <1>1, <1>2, <1>3, PushedStays

LEMMA Deleted ==
    ASSUME q \in Queues, known \subseteq Groups, NEW gs
    PROVE  DeleteGroups(gs, q) \in Queues /\ ToBeDespawned(q, DeleteGroups(gs, q), gs \cap known)
  BY PushDespawns DEF DeleteGroups

LEMMA FarpFallsQueue ==
    ASSUME GhostInv, StatusInv, QueueInv, NEW u, FarpFalls(u) PROVE QueueInv'
<1> DEFINE o == Home[GroupOf(u)]
           gs == {g \in groups \ Troops : Home[g] = o}
           new == gs \cap known
<1>1. /\ o \in Farps /\ groups' = groups \ gs /\ exists' = exists \ {o} /\ q' = DeleteGroups(gs, q)
      /\ health' = [health EXCEPT ![o] = 0] /\ logi' = [logi EXCEPT ![o] = 0]
      /\ UNCHANGED <<known, used>>
  BY DEF FarpFalls
<1>2. o \notin Bases /\ \A g \in gs : Home[g] = o
  BY <1>1, ObjectivesConstants
<1>3. gs \subseteq Groups /\ new \subseteq Groups /\ \A g \in gs : WasUsed(g)
  BY DEF GhostInv, Sets
<1> HIDE DEF o, gs
<1>4. CampaignStands'
  <2>1. CampaignStands /\ exists' \subseteq exists
        /\ \A g \in gs \cap Standing : Home[g] \notin exists' /\ Home[g] \notin Bases
    BY <1>1, <1>2 DEF QueueInv
  <2> QED
    BY <1>1, <2>1, CampaignStays
<1>5. q' \in Queues /\ ToBeDespawned(q, q', new)
  BY <1>1, Deleted DEF QueueInv, GhostInv, Sets
<1>6. \A g \in new : Home[g] \in Farps => g \notin q.later
  BY DEF QueueInv, LaterInv
<1>7. \A g \in new : WasUsed(g)'
  BY <1>1, <1>3 DEF WasUsed
<1>8. \A f \in Farps \cap exists' : Undisturbed(f)
  BY <1>1 DEF Undisturbed, StatusInv, StatusTypes, Objs
<1>9. Pushes(new) /\ used \subseteq used' /\ exists' \subseteq exists /\ known' = known
      /\ new \in SUBSET Groups
  BY <1>1, <1>3, <1>5 DEF Pushes
<1> HIDE DEF new
<1> QED
  BY <1>4, <1>6, <1>7, <1>8, <1>9, PushedStays

LEMMA TroopsLeaveQueue ==
    ASSUME GhostInv, QueueInv, NEW ts \in SUBSET Troops, NEW world, DeleteTroops(ts, world)
    PROVE  QueueInv'
<1> DEFINE new == ts \cap known
<1>1. /\ groups' = groups \ ts /\ q' = DeleteGroups(ts, q)
      /\ UNCHANGED <<exists, status, known, used>>
  BY DEF DeleteTroops
<1>2. CampaignStands'
  <2>1. CampaignStands /\ exists' \subseteq exists
        /\ \A g \in ts \cap Standing : Home[g] \notin exists' /\ Home[g] \notin Bases
    BY <1>1 DEF QueueInv, Standing
  <2> QED
    BY <1>1, <2>1, CampaignStays
<1>3. q' \in Queues /\ ToBeDespawned(q, q', new)
  BY <1>1, Deleted DEF QueueInv, GhostInv, Sets
<1>4. \A g \in new : WasUsed(g)' /\ Home[g] \notin Farps
  <2>1. \A g \in new : WasUsed(g)
    BY TroopsInBases DEF QueueInv, FreshIsNowhere
  <2> QED
    BY <1>1, <2>1, TroopsInBases DEF WasUsed
<1>5. \A f : Undisturbed(f)
  BY <1>1 DEF status, Undisturbed
<1>6. Pushes(new) /\ used \subseteq used' /\ exists' \subseteq exists /\ known' = known
      /\ new \in SUBSET Groups
  BY <1>1, <1>3, ObjectivesConstants DEF Pushes
<1> HIDE DEF new
<1> QED
  BY <1>2, <1>4, <1>5, <1>6, PushedStays

LEMMA DeployQueue == ASSUME QueueInv, NEW t \in Troops, DeployTroop(t) PROVE QueueInv'
<1>1. /\ used' = used \cup {t} /\ groups' = groups \cup {t} /\ q' = push_spawn(q, t)
      /\ UNCHANGED <<exists, status, known>>
  BY DEF DeployTroop, New, indices
<1>2. CampaignStands'
  BY <1>1 DEF QueueInv, CampaignStands
<1>3. t \in Groups /\ Home[t] \notin Farps
  BY TroopsInBases
<1>4. q' \in Queues /\ ToBeSpawned(q, q', {t})
  BY <1>1, <1>3, PushSpawn DEF QueueInv
<1>5. WasUsed(t)'
  BY <1>1 DEF WasUsed
<1>6. \A f : Undisturbed(f)
  BY <1>1 DEF status, Undisturbed
<1>7. Pushes({t}) /\ used \subseteq used' /\ exists' \subseteq exists /\ known' = known
      /\ {t} \in SUBSET Groups
  BY <1>1, <1>3, <1>4 DEF Pushes
<1> QED
  BY <1>2, <1>3, <1>5, <1>6, <1>7, PushedStays

\* Repairs, of one group or of all logistics.
LEMMA PushedQueue ==
    ASSUME QueueInv, NEW gs \in SUBSET Groups, NEW d, Pushed(gs, d)
    PROVE  q' \in Queues /\ ToBeSpawned(q, q', gs) /\ Pushes(gs)
           /\ unspawned' = unspawned \cup LostSpawns(gs, d, dcs) /\ undespawned' = undespawned
  BY PushSpawns DEF Pushed, QueueInv, Pushes

LEMMA RepairedQueue ==
    ASSUME GhostInv, StatusInv, QueueInv, NEW o \in exists, health[o] # 100 \/ logi[o] # 100,
           NEW gs \in SUBSET GroupsAt(o, owner[o]), Pushes(gs) \/ Pushes({}),
           NEW s, NEW d, update_objective_status(o, s, d),
           UNCHANGED <<groups, exists, known, used>>
    PROVE  QueueInv'
<1>1. CampaignStands'
  BY DEF QueueInv, CampaignStands
<1>2. \A h \in q.later : Home[h] = o => o \notin Farps
  BY FarpWaits
<1>3. ASSUME NEW f \in Farps \cap exists'
      PROVE  Undisturbed(f) \/ \A h \in q.later : Home[h] # f
  <2>1. f # o => Undisturbed(f)
    BY CountedElsewhere
  <2> QED
    BY <1>2, <2>1
<1>4. \A g \in gs : g \in Standing /\ Home[g] = o
  BY GroupsStand DEF GroupsAt
<1>5. o \in Objs
  BY DEF StatusInv, StatusTypes
<1>6. \A g \in gs : WasUsed(g)' /\ (Home[g] \in Farps => g \notin q.later)
  <2>1. \A g \in gs : WasUsed(g)
    BY <1>4, <1>5, AtObjective
  <2> QED
    BY <1>2, <1>4, <2>1 DEF WasUsed
<1>7. gs \in SUBSET Groups /\ {} \in SUBSET Groups
  BY <1>4 DEF Standing
<1>8. used \subseteq used' /\ exists' \subseteq exists /\ known' = known
  OBVIOUS
<1>9. CASE Pushes(gs)
  BY <1>1, <1>3, <1>6, <1>7, <1>8, <1>9, PushedStays
<1>10. CASE Pushes({})
  BY <1>1, <1>3, <1>7, <1>8, <1>10, PushedStays
<1> QED
  BY <1>9, <1>10

LEMMA RepairQueue == ASSUME GhostInv, StatusInv, QueueInv, NEW o, Repair(o) PROVE QueueInv'
<1>1. PICK g \in Candidates(o) :
        /\ update_objective_status(o, owner[o], dead \ UnitsOf[g])
        /\ Pushed({g}, dead \ UnitsOf[g]) \/ q' = q
        /\ o \in exists /\ health[o] < 100
        /\ UNCHANGED <<groups, exists, known, used>>
  BY DEF Repair, indices
<1>2. g \in GroupsAt(o, owner[o]) /\ {g} \in SUBSET GroupsAt(o, owner[o]) /\ {g} \in SUBSET Groups
  BY DEF Candidates, GroupsAt
<1>3. Pushes({g}) \/ Pushes({})
  BY <1>1, <1>2, PushedQueue DEF Pushes
<1>4. health[o] # 100
  BY <1>1 DEF StatusInv, StatusTypes
<1> QED
  BY <1>1, <1>2, <1>3, <1>4, RepairedQueue

LEMMA UnpackRepairQueue ==
    ASSUME GhostInv, StatusInv, QueueInv, NEW o, UnpackRepair(o) PROVE QueueInv'
<1> DEFINE gs == LogiAt(o, owner[o])
<1>1. /\ o \in exists /\ logi[o] # 100
      /\ update_objective_status(o, owner[o], dead') /\ (Pushed(gs, dead') \/ q' = q)
      /\ UNCHANGED <<groups, exists, known, used>>
  BY DEF UnpackRepair, indices
<1>2. gs \in SUBSET GroupsAt(o, owner[o]) /\ gs \in SUBSET Groups
  BY GroupsStand DEF Standing
<1> HIDE DEF gs
<1>3. Pushes(gs) \/ Pushes({})
  <2>1. CASE Pushed(gs, dead')
    BY <1>2, <2>1, PushedQueue
  <2> QED
    BY <1>1, <2>1 DEF Pushes
<1> QED
  BY <1>1, <1>2, <1>3, RepairedQueue

LEMMA CullsQueue ==
    ASSUME QueueInv, NEW o, Activate(o) \/ Cull(o) PROVE QueueInv'
<1>1. UNCHANGED <<groups, exists, known, used, status>>
  BY DEF Activate, Cull, campaign, indices
<1>2. CampaignStands' /\ \A f : Undisturbed(f)
  BY <1>1 DEF QueueInv, CampaignStands, status, Undisturbed
<1>3. PICK new \in SUBSET Defences(o) : Pushes(new)
  <2>1. CASE Activate(o)
    BY <2>1, DefencesStand, PushedQueue DEF Activate, Standing
  <2>2. CASE Cull(o)
    <3> DEFINE gs == {g \in Defences(o) : Alive(g, dead) # {} /\ g \in known}
    <3>1. q' = push_despawns(q, gs) /\ gs \in SUBSET Groups /\ gs \in SUBSET Defences(o)
      BY <2>2, DefencesStand DEF Cull, Standing
    <3> HIDE DEF gs
    <3>2. Pushes(gs)
      BY <3>1, PushDespawns DEF QueueInv, Pushes
    <3> QED
      BY <3>1, <3>2
  <2> QED
    BY <2>1, <2>2
<1>4. \A g \in new : g \in Groups /\ WasUsed(g) /\ Home[g] \notin Farps
  BY DefencesStand, BaseGroupsUsed DEF Standing
<1>5. \A g \in new : WasUsed(g)'
  BY <1>1, <1>4 DEF WasUsed
<1> QED
  BY <1>1, <1>2, <1>3, <1>4, <1>5, PushedStays

\* The groups of a new FARP come later.
LEMMA FarpComesLater ==
    ASSUME QueueInv, NEW f, AddFarp(f)
    PROVE  /\ q' \in Queues /\ q'.later = q.later \cup {g \in Groups \ Troops : Home[g] = f}
           /\ ToSpawn(q') = ToSpawn(q) /\ ToDespawn(q') = ToDespawn(q)
<1> DEFINE later == q.later \cup {g \in Groups \ Troops : Home[g] = f}
<1>1. q' = [q EXCEPT !.later = later] /\ later \in SUBSET Groups
  BY DEF AddFarp, push_later, QueueInv, Queues
<1> HIDE DEF later
<1>2. q' = [spawn |-> q.spawn, despawn |-> q.despawn, later |-> later]
  BY <1>1 DEF QueueInv, Queues
<1>3. q' \in Queues /\ q'.later = later /\ ToSpawn(q') = ToSpawn(q) /\ ToDespawn(q') = ToDespawn(q)
  BY <1>1, <1>2 DEF QueueInv, Queues, ToSpawn, ToDespawn
<1> QED
  BY <1>3 DEF later

LEMMA AddFarpQueue ==
    ASSUME GhostInv, StatusInv, QueueInv, NEW f \in Farps, AddFarp(f) PROVE QueueInv'
<1> DEFINE gs == {g \in Groups \ Troops : Home[g] = f}
<1>1. /\ f \notin used /\ used' = used \cup {f} /\ exists' = exists \cup {f}
      /\ groups' = groups \cup gs
      /\ health' = [health EXCEPT ![f] = 100] /\ logi' = [logi EXCEPT ![f] = 100]
      /\ UNCHANGED known
  BY DEF AddFarp, New, indices
<1>2. \A g : g \in gs <=> g \in Standing /\ Home[g] = f
  BY DEF Standing
<1>3. \A g \in gs : /\ g \in Groups /\ ~WasUsed(g) /\ WasUsed(g)' /\ g \notin known
                    /\ g \notin ToSpawn(q) /\ g \notin ToDespawn(q)
  BY <1>1 DEF WasUsed, QueueInv, FreshIsNowhere, Queued
<1>4. CampaignStands'
  BY <1>1, <1>2 DEF QueueInv, CampaignStands
<1>5. /\ q' \in Queues /\ q'.later = q.later \cup gs
      /\ ToSpawn(q') = ToSpawn(q) /\ ToDespawn(q') = ToDespawn(q)
  BY FarpComesLater
<1> HIDE DEF gs
<1>6. FreshIsNowhere'
  <2>1. \A g \in Groups : WasUsed(g) => WasUsed(g)'
    BY <1>1 DEF WasUsed
  <2> QED
    BY <1>1, <1>3, <1>5, <2>1 DEF QueueInv, FreshIsNowhere, Queued
<1>7. /\ health'[f] = 100 /\ logi'[f] = 100
      /\ \A x \in Farps : x # f => Undisturbed(x) /\ (x \in exists' => x \in exists)
  BY <1>1 DEF StatusInv, StatusTypes, Objs, Undisturbed
<1>8. ASSUME NEW g \in q'.later, Home[g] \in Farps
       PROVE  /\ g \notin known' /\ g \notin ToSpawn(q') /\ g \notin ToDespawn(q')
              /\ \A h \in Standing : Home[h] = Home[g] => h \in q'.later
              /\ Home[g] \in exists' => health'[Home[g]] = 100 /\ logi'[Home[g]] = 100
  <2>1. CASE g \in gs
    BY <1>1, <1>2, <1>3, <1>5, <1>7, <2>1
  <2>2. CASE g \notin gs
    <3>1. g \in q.later /\ Home[g] # f
      BY <1>2, <1>5, <1>8, <2>2 DEF QueueInv, LaterInv
    <3>2. /\ g \notin known /\ g \notin ToSpawn(q) /\ g \notin ToDespawn(q)
          /\ \A h \in Standing : Home[h] = Home[g] => h \in q.later
          /\ Home[g] \in exists => health[Home[g]] = 100 /\ logi[Home[g]] = 100
      BY <1>8, <3>1 DEF QueueInv, LaterInv
    <3> QED
      BY <1>1, <1>5, <1>7, <1>8, <3>1, <3>2 DEF Undisturbed
  <2> QED
    BY <2>1, <2>2
<1>9. \A g \in q'.later : g \in Standing /\ (Home[g] \in Farps \/ Class[g] = "services")
  BY <1>2, <1>5 DEF QueueInv, LaterInv
<1>10. LaterInv'
  BY <1>8, <1>9 DEF LaterInv, Standing
<1> QED
  BY <1>4, <1>5, <1>6, <1>10 DEF QueueInv, Queues

ServicesGone(o, s) == known \cap UNION {ServicesAt(o, r) : r \in Sides \ {s}}

LEMMA ServicesStand ==
    \A o, s : \A g \in ServicesAt(o, s) :
        g \in Standing /\ g \in Groups /\ g \notin Troops /\ Home[g] = o /\ SideOf[g] = s
        /\ Class[g] = "services"
  BY DEF ServicesAt, GroupsAt, Standing

\* What a capture does to the queue: the services of the others go, the new owner's come later,
\* and the squads are spent.
LEMMA HandoverPushes ==
    ASSUME QueueInv, known \subseteq Groups, NEW o, NEW s, NEW spent \in SUBSET Troops,
           Handover(o, s, spent)
    PROVE  LET out == ServicesGone(o, s) \cup (spent \cap known)
           IN  /\ q' \in Queues /\ q'.later = q.later \cup ServicesAt(o, s)
               /\ ToSpawn(q') = ToSpawn(q) \ out
               /\ ToDespawn(q') = ToDespawn(q) \cup (out \ ToSpawn(q))
               /\ undespawned' = undespawned \cup LostDespawns(out, dcs)
               /\ unspawned' = unspawned
<1> DEFINE gone == ServicesGone(o, s)
           more == ServicesAt(o, s)
           a == push_despawns(q, gone)
           later == a.later \cup more
           b == push_later(a, more)
<1>1. /\ q' = DeleteGroups(spent, b) /\ unspawned' = unspawned
      /\ undespawned' = undespawned \cup LostDespawns(gone \cup (spent \cap known), dcs)
  BY DEF Handover, ServicesGone
<1>2. gone \in SUBSET Groups /\ more \in SUBSET Groups /\ gone \cap spent = {}
  BY ServicesStand DEF ServicesGone
<1> HIDE DEF gone, more
<1>3. a \in Queues /\ ToBeDespawned(q, a, gone)
  BY <1>2, PushDespawns DEF QueueInv
<1>4. b = [a EXCEPT !.later = later]
  BY DEF push_later
<1> HIDE DEF a, b
<1>5. later \in SUBSET Groups
  BY <1>2, <1>3 DEF Queues
<1> HIDE DEF later
<1>6. b = [spawn |-> a.spawn, despawn |-> a.despawn, later |-> later]
  BY <1>3, <1>4, <1>5 DEF Queues
<1>7. b \in Queues /\ b.later = a.later \cup more
      /\ ToSpawn(b) = ToSpawn(a) /\ ToDespawn(b) = ToDespawn(a)
  BY <1>3, <1>5, <1>6 DEF Queues, ToSpawn, ToDespawn, later
<1>8. spent \in SUBSET Groups
  BY ObjectivesConstants
<1>9. q' \in Queues /\ ToBeDespawned(b, q', spent \cap known)
  BY <1>1, <1>7, <1>8, PushDespawns DEF DeleteGroups
<1>10. /\ ToSpawn(q') = ToSpawn(q) \ (gone \cup (spent \cap known))
       /\ ToDespawn(q') = ToDespawn(q) \cup ((gone \cup (spent \cap known)) \ ToSpawn(q))
       /\ q'.later = q.later \cup more
  BY <1>2, <1>3, <1>7, <1>9 DEF ToBeDespawned
<1> QED
  BY <1>1, <1>9, <1>10 DEF gone, more

LEMMA HandoverQueue ==
    ASSUME GhostInv, StatusInv, QueueInv, NEW o \in Bases, NEW s \in Sides,
           NEW spent \in SUBSET Troops, Handover(o, s, spent)
    PROVE  QueueInv'
<1> DEFINE out == ServicesGone(o, s) \cup (spent \cap known)
           more == ServicesAt(o, s)
<1>1. known \subseteq Groups
  BY DEF GhostInv, Sets
<1>2. /\ q' \in Queues /\ q'.later = q.later \cup more
      /\ ToSpawn(q') = ToSpawn(q) \ out
      /\ ToDespawn(q') = ToDespawn(q) \cup (out \ ToSpawn(q))
  BY <1>1, HandoverPushes
<1>3. /\ groups' = groups \ spent /\ UNCHANGED <<exists, known, used>>
      /\ \E d : update_objective_status(o, s, d)
  BY DEF Handover
<1>4. CampaignStands'
  <2>1. CampaignStands /\ exists' \subseteq exists
        /\ \A g \in spent \cap Standing : Home[g] \notin exists' /\ Home[g] \notin Bases
    BY <1>3 DEF QueueInv, Standing
  <2> QED
    BY <1>3, <2>1, CampaignStays
<1>5. \A g \in out : g \in known /\ Home[g] \notin Farps
  BY ServicesStand, TroopsInBases, BaseGroupsUsed DEF ServicesGone
<1>6. \A g \in more : g \in Standing /\ Home[g] \in Bases /\ Class[g] = "services"
  BY ServicesStand
<1>7. \A f \in Farps : Undisturbed(f)
  BY <1>3, CountedElsewhere, ObjectivesConstants
<1> HIDE DEF out, more
<1>8. /\ used \subseteq used' /\ exists' \subseteq exists /\ q'.later = (q.later \ {}) \cup more
      /\ ToSpawn(q') \cup ToDespawn(q') \cup known'
           \subseteq ToSpawn(q) \cup ToDespawn(q) \cup known \cup out
  BY <1>2, <1>3
<1>9. \A g \in out : WasUsed(g)' /\ (Home[g] \in Farps => g \notin q'.later)
  <2>1. \A g \in out : WasUsed(g)
    BY <1>1, <1>5 DEF QueueInv, FreshIsNowhere
  <2> QED
    BY <1>3, <1>5, <2>1 DEF WasUsed
<1> QED
  BY <1>2, <1>4, <1>6, <1>7, <1>8, <1>9, NoneToWaitFor, QueueStays

LEMMA CaptureFailsQueue ==
    ASSUME QueueInv, NEW o, CaptureFails(o) PROVE QueueInv'
<1>1. /\ UNCHANGED <<exists, groups, known, used>> /\ health' = health /\ logi' = logi /\ q' = q
  BY DEF CaptureFails, indices
<1>2. CampaignStands' /\ Pushes({}) /\ \A f : Undisturbed(f)
  BY <1>1 DEF QueueInv, CampaignStands, Pushes, Undisturbed
<1> QED
  BY <1>1, <1>2, PushedStays

LEMMA EmptyIsQueue ==
    EmptyQueue \in Queues /\ Queued(EmptyQueue) = {} /\ EmptyQueue.later = {}
    /\ ToSpawn(EmptyQueue) = {} /\ ToDespawn(EmptyQueue) = {}
  BY DEF EmptyQueue, Queues, Queued, ToSpawn, ToDespawn, ToSet

LEMMA RestartQueue == ASSUME GhostInv, QueueInv, Restart PROVE QueueInv'
<1>1. /\ q' = EmptyQueue /\ known' \subseteq groups /\ UNCHANGED <<groups, exists, used>>
  BY DEF Restart, AfterLoad, campaign
<1>2. CampaignStands'
  BY <1>1 DEF QueueInv, CampaignStands
<1>3. FreshIsNowhere'
  BY <1>1, EmptyIsQueue DEF FreshIsNowhere, GhostInv, Sets, WasUsed
<1>4. q' \in Queues /\ LaterInv'
  BY <1>1, EmptyIsQueue DEF LaterInv
<1> QED
  BY <1>2, <1>3, <1>4 DEF QueueInv, Queues

LEMMA InitQueue == Init => QueueInv
<1> SUFFICES ASSUME Init PROVE QueueInv
  OBVIOUS
<1>1. /\ q = EmptyQueue /\ known \subseteq BaseGroups /\ groups = BaseGroups /\ exists = Bases
  BY DEF Init, AfterLoad
<1>2. CampaignStands
  BY <1>1, ObjectivesConstants DEF CampaignStands
<1>3. FreshIsNowhere
  BY <1>1, EmptyIsQueue, BaseGroupsUsed DEF FreshIsNowhere, BaseGroups, Standing
<1>4. q \in Queues /\ LaterInv
  BY <1>1, EmptyIsQueue DEF LaterInv
<1> QED
  BY <1>2, <1>3, <1>4 DEF QueueInv

LEMMA FrontQueue ==
    ASSUME GhostInv, QueueInv, NEW due \in DueTogether, Despawn(due) \/ Spawn(due)
    PROVE  QueueInv'
<1>1. UNCHANGED <<groups, exists, used, status>>
  BY DEF Despawn, Spawn, campaign
<1>2. CampaignStands' /\ \A f : Undisturbed(f)
  BY <1>1 DEF QueueInv, CampaignStands, status, Undisturbed
<1>3. q \in Queues
  BY DEF QueueInv
<1>4. /\ Together(due) /\ q' \in Queues /\ q'.later = (q.later \ due) \cup {}
      /\ ToSpawn(q') \cup ToDespawn(q') \cup known'
           \subseteq ToSpawn(q) \cup ToDespawn(q) \cup known \cup due
  <2>1. CASE Despawn(due)
    <3>1. Together(due) /\ \E g \in Groups : DespawnsFront(due, g)
      BY <1>3, <2>1, DespawnTakes
    <3> QED
      BY <3>1 DEF DespawnsFront
  <2>2. CASE Spawn(due)
    <3>1. Together(due) /\ \E g \in Groups : SpawnsFront(due, g)
      BY <1>3, <2>2, SpawnTakes
    <3> QED
      BY <3>1 DEF SpawnsFront
  <2> QED
    BY <2>1, <2>2
<1>5. \A g \in due : WasUsed(g)' /\ g \notin q'.later
  <2>1. \A g \in due : WasUsed(g)
    BY <1>3, <1>4 DEF QueueInv, FreshIsNowhere, Queued, Together, Queues
  <2> QED
    BY <1>1, <1>4, <2>1 DEF WasUsed
<1> QED
  <2>1. used \subseteq used' /\ exists' \subseteq exists
    BY <1>1
  <2>2. \A g \in due : WasUsed(g)' /\ (Home[g] \in Farps => g \notin q'.later)
    BY <1>5
  <2> DEFINE more == {}
  <2>3. /\ q'.later = (q.later \ due) \cup more
        /\ \A g \in more : g \in Standing /\ Home[g] \in Bases /\ Class[g] = "services"
    BY <1>4
  <2> HIDE DEF more
  <2>4. /\ CampaignStands'
        /\ \A f \in Farps \cap exists' : Undisturbed(f) \/ \A g \in q'.later : Home[g] # f
    BY <1>2
  <2> QED
    BY <1>4, <2>1, <2>2, <2>3, <2>4, QueueStays

LEMMA StepQueue == GhostInv /\ StatusInv /\ QueueInv /\ [Next]_vars => QueueInv'
<1> SUFFICES ASSUME GhostInv, StatusInv, QueueInv, [Next]_vars PROVE QueueInv'
  OBVIOUS
<1>0. \A o : Inside(o) \in SUBSET Troops /\ {} \in SUBSET Troops
  BY DEF Inside
<1>1. CASE Timer
  <2>1. ASSUME NEW o, Repair(o) \/ Activate(o) \/ Cull(o) PROVE QueueInv'
    BY <2>1, RepairQueue, CullsQueue
  <2>2. ASSUME NEW o \in Bases, Capture(o) PROVE QueueInv'
    BY <1>0, <2>2, HandoverQueue DEF Capture
  <2> QED
    BY <1>1, <2>1, <2>2, FrontQueue DEF Timer
<1>2. CASE Faults
  <2>1. ASSUME NEW o \in Bases, CaptureHalts(o) PROVE QueueInv'
    BY <1>0, <2>1, HandoverQueue DEF CaptureHalts
  <2> QED
    BY <1>2, <2>1, RestartQueue, CaptureFailsQueue DEF Faults
<1>3. ASSUME NEW u, UnitDies(u) \/ FarpFalls(u) PROVE QueueInv'
  BY <1>3, UnitDiesQueue, FarpFallsQueue
<1>4. ASSUME NEW u, SquadDies(u) PROVE QueueInv'
  <2>1. {GroupOf(u)} \in SUBSET Troops
    BY <1>4 DEF SquadDies
  <2> QED
    BY <1>4, <2>1, TroopsLeaveQueue DEF SquadDies
<1>5. ASSUME NEW t \in Troops, PickUp(t) PROVE QueueInv'
  <2>1. {t} \in SUBSET Troops
    OBVIOUS
  <2> QED
    BY <1>5, <2>1, TroopsLeaveQueue DEF PickUp
<1>6. ASSUME NEW u, StrangerDies(u) \/ UNCHANGED vars PROVE QueueInv'
  BY <1>6, QuietQueue DEF StrangerDies, vars, campaign, status, indices
<1>7. ASSUME NEW t \in Troops, DeployTroop(t) PROVE QueueInv'
  BY <1>7, DeployQueue
<1>8. ASSUME NEW o, UnpackRepair(o) PROVE QueueInv'
  BY <1>8, UnpackRepairQueue
<1>9. ASSUME NEW f \in Farps, AddFarp(f) PROVE QueueInv'
  BY <1>9, AddFarpQueue
<1> QED
  BY <1>1, <1>2, <1>3, <1>4, <1>5, <1>6, <1>7, <1>8, <1>9 DEF Next

LEMMA QueueAlways == Spec => [](GhostInv /\ StatusInv /\ QueueInv)
  BY InitGhosts, StepGhosts, InitStatus, StepStatus, InitQueue, StepQueue, PTL DEF Spec

---------------------------------------------------------------------------
(* What ought to be in DCS is there.                                       *)

Required(o) == ServicesAt(o, owner[o]) \cup (IF o \in spawned THEN Defences(o) ELSE {})

\* A group is there, or will be, or its spawn was lost; and no despawn waits for it unless a
\* spawn comes after that.
Held(g) ==
    \/ g \in unspawned \/ g \in q.later
    \/ g \notin ToDespawn(q) /\ (g \in ToSpawn(q) \/ Alive(g, dead) \subseteq dcs)

ThereInv == \A o \in Bases : \A g \in Required(o) : Held(g)

LEMMA ThereMeans == ThereInv => SpawnedIsThere
  BY DEF ThereInv, Held, SpawnedIsThere, Required, Queued

LEMMA RequiredStand ==
    \A o : \A g \in Required(o) :
        g \in Standing /\ g \in Groups /\ Home[g] = o /\ (Class[g] = "services" \/ o \in spawned)
  BY ServicesStand, DefencesStand DEF Required, Standing

\* Unless its queue entry is taken out or its units are, a group stays held.
LEMMA HeldStays ==
    ASSUME NEW g, Held(g), g \in unspawned => g \in unspawned', g \in q.later => g \in q'.later,
           g \in ToSpawn(q) => g \in ToSpawn(q'), g \in ToDespawn(q') => g \in ToDespawn(q),
           Alive(g, dead) \subseteq dcs => Alive(g, dead') \subseteq dcs'
    PROVE  Held(g)'
  BY DEF Held

LEMMA SameRequired ==
    ASSUME ThereInv, owner' = owner, \A o \in Bases : o \in spawned' => o \in spawned,
           \A o \in Bases : \A g \in Required(o) : Held(g)'
    PROVE  ThereInv'
  BY DEF ThereInv, Required, Defences

\* A group whose spawn is pushed is held.
LEMMA PushHolds ==
    ASSUME QueueInv, NEW gs \in SUBSET Groups, Pushed(gs, dead'), dcs' = dcs, NEW g \in Groups,
           g \in gs \/ (Held(g) /\ Alive(g, dead') = Alive(g, dead))
    PROVE  Held(g)'
<1>1. /\ q' \in Queues /\ ToBeSpawned(q, q', gs)
      /\ unspawned' = unspawned \cup LostSpawns(gs, dead', dcs)
  BY PushedQueue
<1>2. CASE g \in gs
  BY <1>1, <1>2 DEF ToBeSpawned, LostSpawns, Held
<1>3. CASE g \notin gs
  BY <1>1, <1>3 DEF ToBeSpawned, Held
<1> QED
  BY <1>2, <1>3

LEMMA StillAlive ==
    ASSUME NEW gs \in SUBSET Groups, NEW R, R \subseteq UnitsIn(gs), NEW g \in Groups, g \notin gs
    PROVE  Alive(g, dead \ R) = Alive(g, dead)
  BY OthersSame DEF Alive

LEMMA UnitDiesThere == ASSUME ThereInv, NEW u, UnitDies(u) PROVE ThereInv'
<1>1. /\ dcs' = dcs \ {u} /\ dead' = dead \cup {u} /\ UNCHANGED <<owner, spawned, q, unspawned>>
  BY DEF UnitDies, history
<1>2. \A g : Held(g) => Held(g)'
  BY <1>1 DEF Held, Alive
<1> QED
  BY <1>1, <1>2, SameRequired DEF ThereInv

\* The deletion of groups that stand at no base takes nothing from those that do.
LEMMA DeletedThere ==
    ASSUME QueueInv, GhostInv, ThereInv, NEW gs \in SUBSET Groups, NEW X,
           \A g \in Standing : Home[g] \in Bases => g \notin gs /\ UnitsOf[g] \cap X = {},
           q' = DeleteGroups(gs, q), dead' = dead \ UnitsIn(gs), dcs \ X \subseteq dcs',
           UNCHANGED <<owner, unspawned>>, \A o \in Bases : o \in spawned' => o \in spawned
    PROVE  ThereInv'
<1>1. ToBeDespawned(q, q', gs \cap known)
  BY Deleted DEF QueueInv, GhostInv, Sets
<1>2. ASSUME NEW o \in Bases, NEW g \in Required(o) PROVE Held(g)'
  <2>1. g \in Groups /\ g \notin gs /\ UnitsOf[g] \cap X = {} /\ Held(g)
    BY <1>2, RequiredStand DEF ThereInv
  <2>2. Alive(g, dead') = Alive(g, dead)
    BY <2>1, StillAlive
  <2>3. Alive(g, dead) \subseteq dcs => Alive(g, dead) \subseteq dcs'
    BY <2>1 DEF Alive
  <2> QED
    BY <1>1, <2>1, <2>2, <2>3, HeldStays DEF ToBeDespawned
<1> QED
  BY <1>2, SameRequired

LEMMA FarpFallsThere ==
    ASSUME GhostInv, QueueInv, ThereInv, NEW u, FarpFalls(u) PROVE ThereInv'
<1> DEFINE o == Home[GroupOf(u)]
           gs == {g \in groups \ Troops : Home[g] = o}
           X == {u}
<1>1. /\ o \in Farps /\ q' = DeleteGroups(gs, q)
      /\ spawned' = spawned \ {o} /\ dead' = dead \ UnitsIn(gs) /\ dcs' = dcs \ {u}
      /\ UNCHANGED <<owner, unspawned>>
  BY DEF FarpFalls
<1>2. o \notin Bases /\ gs \in SUBSET Groups
  BY <1>1, ObjectivesConstants DEF GhostInv, Sets
<1>3. \A g \in Standing : Home[g] \in Bases => g \notin gs /\ UnitsOf[g] \cap X = {}
  BY <1>2, GroupOfUnit DEF Standing
<1>4. dcs \ X \subseteq dcs' /\ \A b \in Bases : b \in spawned' => b \in spawned
  BY <1>1
<1> HIDE DEF gs, X
<1> QED
  BY <1>1, <1>2, <1>3, <1>4, DeletedThere

LEMMA TroopsLeaveThere ==
    ASSUME GhostInv, QueueInv, ThereInv, NEW ts \in SUBSET Troops, NEW world, DeleteTroops(ts, world),
           dcs \ UnitsIn(ts) \subseteq dcs'
    PROVE  ThereInv'
<1>1. /\ q' = DeleteGroups(ts, q) /\ dead' = dead \ UnitsIn(ts)
      /\ UNCHANGED <<owner, spawned, unspawned>>
  BY DEF DeleteTroops
<1>2. ts \in SUBSET Groups
  BY ObjectivesConstants
<1>3. \A g \in Standing : Home[g] \in Bases => g \notin ts /\ UnitsOf[g] \cap UnitsIn(ts) = {}
  BY <1>2, OneGroup DEF Standing, UnitsIn
<1> DEFINE X == UnitsIn(ts)
<1>4. /\ \A g \in Standing : Home[g] \in Bases => g \notin ts /\ UnitsOf[g] \cap X = {}
      /\ dcs \ X \subseteq dcs' /\ \A b \in Bases : b \in spawned' => b \in spawned
  BY <1>1, <1>3
<1> HIDE DEF X
<1> QED
  BY <1>1, <1>2, <1>4, DeletedThere

LEMMA StrangerDiesThere ==
    ASSUME GhostInv, QueueInv, ThereInv, NEW u, StrangerDies(u) PROVE ThereInv'
<1>1. /\ u \notin index /\ dcs' = dcs \ {u} /\ UNCHANGED <<dead, owner, spawned, q, unspawned>>
  BY DEF StrangerDies, campaign, history
<1>2. ASSUME NEW o \in Bases, NEW g \in Required(o) PROVE Held(g)'
  <2>1. g \in groups /\ Held(g)
    BY <1>2, RequiredStand DEF ThereInv, QueueInv, CampaignStands, BaseGroups, Standing
  <2>2. u \in dcs => u \notin UnitsOf[g]
    BY <1>1, <2>1 DEF GhostInv, NoGhosts
  <2> QED
    BY <1>1, <2>1, <2>2 DEF Held, Alive
<1> QED
  BY <1>1, <1>2, SameRequired

LEMMA DeployThere == ASSUME QueueInv, ThereInv, NEW t \in Troops, DeployTroop(t) PROVE ThereInv'
<1>1. /\ q' = push_spawn(q, t) /\ UNCHANGED <<dcs, dead, owner, spawned, unspawned>>
  BY DEF DeployTroop, history
<1>2. ToBeSpawned(q, q', {t})
  BY <1>1, TroopsInBases, PushSpawn DEF QueueInv
<1>3. ASSUME NEW o \in Bases, NEW g \in Required(o) PROVE Held(g)'
  <2>1. g # t /\ Held(g)
    BY <1>3, RequiredStand DEF ThereInv, Standing
  <2> QED
    BY <1>1, <1>2, <2>1, HeldStays DEF ToBeSpawned
<1> QED
  BY <1>1, <1>3, SameRequired

LEMMA RepairThere == ASSUME QueueInv, ThereInv, NEW o, Repair(o) PROVE ThereInv'
<1>1. PICK g \in Candidates(o) :
        /\ dead' = dead \ UnitsOf[g]
        /\ IF o \in spawned \/ Class[g] = "services" THEN Pushed({g}, dead')
           ELSE UNCHANGED <<q, unspawned>>
        /\ UNCHANGED <<dcs, owner, spawned>>
  BY DEF Repair
<1>2. g \in Groups /\ Home[g] = o /\ {g} \in SUBSET Groups /\ UnitsOf[g] \subseteq UnitsIn({g})
  BY DEF Candidates, GroupsAt, UnitsIn
<1>3. \A h \in Groups : h # g => Alive(h, dead') = Alive(h, dead)
  BY <1>1, <1>2, StillAlive
<1>4. ASSUME NEW b \in Bases, NEW h \in Required(b) PROVE Held(h)'
  <2>1. h \in Groups /\ Home[h] = b /\ Held(h) /\ (Class[h] = "services" \/ b \in spawned)
    BY <1>4, RequiredStand DEF ThereInv
  <2>2. CASE o \in spawned \/ Class[g] = "services"
    <3>1. Pushed({g}, dead') /\ dcs' = dcs
      BY <1>1, <2>2
    <3>2. h \in {g} \/ (Held(h) /\ Alive(h, dead') = Alive(h, dead))
      BY <1>3, <2>1
    <3> QED
      BY <1>2, <2>1, <3>1, <3>2, PushHolds
  <2>3. CASE ~(o \in spawned \/ Class[g] = "services")
    BY <1>1, <1>2, <1>3, <2>1, <2>3 DEF Held
  <2> QED
    BY <2>2, <2>3
<1> QED
  BY <1>1, <1>4, SameRequired

LEMMA UnpackRepairThere == ASSUME QueueInv, ThereInv, NEW o, UnpackRepair(o) PROVE ThereInv'
<1> DEFINE gs == LogiAt(o, owner[o])
<1>1. PICK R \in RepairStep(o, owner[o]) :
        /\ dead' = dead \ R
        /\ IF o \in spawned THEN Pushed(gs, dead') ELSE UNCHANGED <<q, unspawned>>
        /\ UNCHANGED <<dcs, owner, spawned>>
  BY DEF UnpackRepair
<1>2. gs \in SUBSET Groups /\ \A g \in gs : Home[g] = o /\ Class[g] = "logi"
  BY DEF LogiAt, GroupsAt
<1>3. R \subseteq UnitsIn(gs)
  BY DEF RepairStep
<1> HIDE DEF gs
<1>4. \A h \in Groups : h \notin gs => Alive(h, dead') = Alive(h, dead)
  BY <1>1, <1>2, <1>3, StillAlive
<1>5. ASSUME NEW b \in Bases, NEW h \in Required(b) PROVE Held(h)'
  <2>1. h \in Groups /\ Home[h] = b /\ Held(h) /\ (Class[h] = "services" \/ b \in spawned)
    BY <1>5, RequiredStand DEF ThereInv
  <2>2. CASE o \in spawned
    <3>1. Pushed(gs, dead') /\ dcs' = dcs
      BY <1>1, <2>2
    <3> QED
      BY <1>2, <1>4, <2>1, <3>1, PushHolds
  <2>3. CASE o \notin spawned
    BY <1>1, <1>2, <1>4, <2>1, <2>3 DEF Held
  <2> QED
    BY <2>2, <2>3
<1> QED
  BY <1>1, <1>5, SameRequired

LEMMA ActivateThere == ASSUME QueueInv, ThereInv, NEW o, Activate(o) PROVE ThereInv'
<1>1. /\ Pushed(Defences(o), dead) /\ spawned' = spawned \cup {o}
      /\ UNCHANGED <<dcs, owner, dead>>
  BY DEF Activate, campaign
<1>2. Defences(o) \in SUBSET Groups
  BY DefencesStand DEF Standing
<1>3. Pushed(Defences(o), dead')
  BY <1>1
<1>4. ASSUME NEW b \in Bases, NEW g \in Required(b)' PROVE g \in Groups /\ Held(g)'
  <2>1. g \in Required(b) \/ g \in Defences(o)
    BY <1>1, <1>4 DEF Required, Defences
  <2>2. g \in Groups /\ (g \in Defences(o) \/ Held(g))
    BY <1>2, <2>1, RequiredStand DEF ThereInv
  <2>3. Alive(g, dead') = Alive(g, dead)
    BY <1>1
  <2> QED
    BY <1>1, <1>2, <1>3, <2>2, <2>3, PushHolds
<1> QED
  BY <1>4 DEF ThereInv

LEMMA CullThere == ASSUME QueueInv, ThereInv, NEW o, Cull(o) PROVE ThereInv'
<1> DEFINE gs == {g \in Defences(o) : Alive(g, dead) # {} /\ g \in known}
<1>1. /\ q' = push_despawns(q, gs) /\ spawned' = spawned \ {o}
      /\ UNCHANGED <<dcs, owner, dead, unspawned>>
  BY DEF Cull, campaign
<1>2. gs \in SUBSET Groups /\ gs \subseteq Defences(o)
  BY DefencesStand DEF Standing
<1> HIDE DEF gs
<1>3. ToBeDespawned(q, q', gs)
  BY <1>1, <1>2, PushDespawns DEF QueueInv
<1>4. ASSUME NEW b \in Bases, NEW g \in Required(b)' PROVE Held(g)'
  <2>1. g \in Required(b)
    BY <1>1, <1>4 DEF Required, Defences
  <2>2. g \notin Defences(o)
    <3>1. CASE b = o
      BY <1>1, <1>4, <3>1, DefencesStand, ServicesStand DEF Required
    <3>2. CASE b # o
      BY <2>1, <3>2, DefencesStand, RequiredStand
    <3> QED
      BY <3>1, <3>2
  <2>3. Held(g)
    BY <2>1 DEF ThereInv
  <2> QED
    BY <1>1, <1>2, <1>3, <2>2, <2>3, HeldStays DEF ToBeDespawned
<1> QED
  BY <1>4 DEF ThereInv

LEMMA DespawnThere ==
    ASSUME QueueInv, ThereInv, NEW due \in DueTogether, Despawn(due) PROVE ThereInv'
<1>1. PICK g \in Groups : DespawnsFront(due, g)
  BY DespawnTakes DEF QueueInv
<1>2. ASSUME NEW o \in Bases, NEW h \in Required(o) PROVE Held(h)'
  <2>1. h \in Groups /\ Held(h)
    BY <1>2, RequiredStand DEF ThereInv
  <2>2. h # g => (Alive(h, dead) \subseteq dcs => Alive(h, dead) \subseteq dcs')
    BY <1>1, <2>1, OneGroup DEF DespawnsFront, Alive
  <2>3. dead' = dead
    BY <1>1 DEF DespawnsFront, campaign
  <2>4. CASE h \in due /\ h \in ToDespawn(q)
    BY <1>1, <2>1, <2>2, <2>3, <2>4 DEF DespawnsFront, LostSpawns, Held
  <2>5. CASE h \in due /\ h \notin ToDespawn(q)
    BY <1>1, <2>5 DEF DespawnsFront, Held
  <2>6. CASE h \notin due
    BY <1>1, <2>1, <2>2, <2>3, <2>6 DEF DespawnsFront, Held
  <2> QED
    BY <2>4, <2>5, <2>6
<1> QED
  BY <1>1, <1>2, SameRequired DEF DespawnsFront, campaign

LEMMA SpawnThere ==
    ASSUME QueueInv, ThereInv, NEW due \in DueTogether, Spawn(due) PROVE ThereInv'
<1>1. PICK g \in Groups : SpawnsFront(due, g)
  BY SpawnTakes DEF QueueInv
<1>2. dead' = dead
  BY <1>1 DEF SpawnsFront, campaign
<1>3. dcs \ UnitsOf[g] \subseteq dcs'
  BY <1>1 DEF SpawnsFront
<1>4. ASSUME NEW o \in Bases, NEW h \in Required(o) PROVE Held(h)'
  <2>1. h \in Groups /\ Held(h) /\ h \in groups
    BY <1>4, RequiredStand DEF ThereInv, QueueInv, CampaignStands, BaseGroups, Standing
  <2>2. CASE h = g
    <3>1. Alive(g, dead) \subseteq dcs'
      BY <1>1, <2>1, <2>2 DEF SpawnsFront
    <3> QED
      BY <1>1, <1>2, <2>2, <3>1 DEF SpawnsFront, Held
  <2>3. CASE h # g
    <3>1. Alive(h, dead) \subseteq dcs => Alive(h, dead) \subseteq dcs'
      BY <1>3, <2>1, <2>3, OneGroup DEF Alive
    <3>2. CASE h \in due
      BY <1>1, <1>2, <2>1, <2>3, <3>1, <3>2 DEF SpawnsFront, LostSpawns, Held
    <3>3. CASE h \notin due
      BY <1>1, <1>2, <2>1, <2>3, <3>1, <3>3 DEF SpawnsFront, Held
    <3> QED
      BY <3>2, <3>3
  <2> QED
    BY <2>2, <2>3
<1> QED
  BY <1>1, <1>4, SameRequired DEF SpawnsFront, campaign

LEMMA AddFarpThere ==
    ASSUME QueueInv, ThereInv, NEW f \in Farps, AddFarp(f) PROVE ThereInv'
<1>1. spawned' = spawned \cup {f} /\ UNCHANGED <<dcs, owner, dead, unspawned>>
  BY DEF AddFarp, history
<1>2. q.later \subseteq q'.later /\ ToSpawn(q') = ToSpawn(q) /\ ToDespawn(q') = ToDespawn(q)
  BY FarpComesLater
<1>3. \A g : Held(g) => Held(g)'
  BY <1>1, <1>2 DEF Held
<1> QED
  BY <1>1, <1>3, SameRequired, ObjectivesConstants DEF ThereInv

LEMMA HandoverThere ==
    ASSUME GhostInv, StatusInv, QueueInv, ThereInv, NEW o \in Bases, NEW s \in Sides,
           NEW spent \in SUBSET Troops, Handover(o, s, spent)
    PROVE  ThereInv'
<1> DEFINE out == ServicesGone(o, s) \cup (spent \cap known)
           gs == LogiAt(o, s) \cup ServicesAt(o, s) \cup spent
<1>1. /\ q'.later = q.later \cup ServicesAt(o, s) /\ ToSpawn(q') = ToSpawn(q) \ out
      /\ ToDespawn(q') = ToDespawn(q) \cup (out \ ToSpawn(q)) /\ unspawned' = unspawned
  BY HandoverPushes DEF GhostInv, Sets
<1>2. PICK R \in RepairStep(o, s) :
        /\ dead' = ((dead \ R) \ UnitsIn(ServicesAt(o, s))) \ UnitsIn(spent)
        /\ owner' = [owner EXCEPT ![o] = s] /\ spawned' = spawned \ {o} /\ dcs' = dcs
  BY DEF Handover
<1> DEFINE M == R \cup UnitsIn(ServicesAt(o, s)) \cup UnitsIn(spent)
<1>3. dead' = dead \ M /\ M \subseteq UnitsIn(gs)
  BY <1>2 DEF RepairStep, UnitsIn
<1>4. /\ gs \in SUBSET Groups
      /\ \A g \in gs \cup out : g \in Standing => Home[g] = o
  BY ServicesStand, ObjectivesConstants DEF LogiAt, GroupsAt, Standing, ServicesGone
<1> HIDE DEF M, gs, out
<1>5. \A b \in Bases : b # o => owner'[b] = owner[b]
  BY <1>2 DEF StatusInv, StatusTypes, Objs
<1>6. owner'[o] = s
  BY <1>2 DEF StatusInv, StatusTypes, Objs
<1>7. ASSUME NEW b \in Bases, NEW g \in Required(b)' PROVE Held(g)'
  <2>1. CASE b = o
    <3>1. g \in ServicesAt(o, s)
      BY <1>2, <1>6, <1>7, <2>1 DEF Required
    <3> QED
      BY <1>1, <3>1 DEF Held
  <2>2. CASE b # o
    <3>1. g \in Required(b)
      BY <1>2, <1>5, <1>7, <2>2 DEF Required, Defences
    <3>2. Held(g) /\ g \in Groups /\ g \notin gs /\ g \notin out
      BY <1>4, <2>2, <3>1, RequiredStand DEF ThereInv
    <3>3. Alive(g, dead') = Alive(g, dead)
      BY <1>3, <1>4, <3>2, StillAlive
    <3> QED
      BY <1>1, <1>2, <3>2, <3>3, HeldStays
  <2> QED
    BY <2>1, <2>2
<1> QED
  BY <1>7 DEF ThereInv

LEMMA CaptureFailsThere ==
    ASSUME StatusInv, ThereInv, NEW o \in Bases, CaptureFails(o) PROVE ThereInv'
<1>1. PICK s \in Sides :
        /\ owner' = [owner EXCEPT ![o] = s] /\ spawned' = spawned \ {o}
        /\ unspawned' = unspawned \cup ServicesAt(o, s) /\ UNCHANGED <<dcs, dead, q>>
  BY DEF CaptureFails
<1>2. owner'[o] = s /\ \A b \in Bases : b # o => owner'[b] = owner[b]
  BY <1>1 DEF StatusInv, StatusTypes, Objs
<1>3. \A g : Held(g) => Held(g)'
  BY <1>1 DEF Held
<1>4. ASSUME NEW b \in Bases, NEW g \in Required(b)' PROVE Held(g)'
  <2>1. CASE b = o
    BY <1>1, <1>2, <1>4, <2>1 DEF Required, Held
  <2>2. CASE b # o
    <3>1. g \in Required(b)
      BY <1>1, <1>2, <1>4, <2>2 DEF Required, Defences
    <3> QED
      BY <1>3, <3>1 DEF ThereInv
  <2> QED
    BY <2>1, <2>2
<1> QED
  BY <1>4 DEF ThereInv

\* What a mission that is loaded spawns at once.
LEMMA LoadedThere ==
    ASSUME NEW own, NEW gs, NEW d, NEW g \in gs, g \in ServicesAt(Home[g], own[Home[g]]), NEW k,
           k = {x \in AfterLoad(own, gs, d) : Alive(x, d) # {}}
    PROVE  Alive(g, d) \subseteq UnitsIn(k) \ d
<1>1. g \in AfterLoad(own, gs, d)
  BY DEF AfterLoad, ServicesAt, GroupsAt
<1> QED
  BY <1>1 DEF UnitsIn, Alive

LEMMA RestartThere == ASSUME QueueInv, Restart PROVE ThereInv'
<1>1. /\ known' = {g \in AfterLoad(owner, groups, dead) : Alive(g, dead) # {}}
      /\ dcs' = UnitsIn(known') \ dead
      /\ spawned' = {} /\ q' = EmptyQueue /\ UNCHANGED <<owner, dead>>
  BY DEF Restart, campaign
<1>2. ASSUME NEW o \in Bases, NEW g \in Required(o)' PROVE Held(g)'
  <2>1. g \in ServicesAt(o, owner[o])
    BY <1>1, <1>2 DEF Required
  <2>2. g \in groups /\ Home[g] = o
    BY <2>1, ServicesStand DEF QueueInv, CampaignStands, BaseGroups, Standing
  <2>3. Alive(g, dead) \subseteq UnitsIn(known') \ dead
    BY <1>1, <2>1, <2>2, LoadedThere, ZenonT(40)
  <2> QED
    BY <1>1, <2>3, EmptyIsQueue DEF Held
<1> QED
  BY <1>2 DEF ThereInv

LEMMA InitThere == Init => ThereInv
<1> SUFFICES ASSUME Init PROVE ThereInv
  OBVIOUS
<1>1. /\ known = {g \in AfterLoad(owner, BaseGroups, dead) : Alive(g, dead) # {}}
      /\ dcs = UnitsIn(known) \ dead /\ spawned = {} /\ q = EmptyQueue
  BY DEF Init
<1>2. ASSUME NEW o \in Bases, NEW g \in Required(o) PROVE Held(g)
  <2>1. g \in ServicesAt(o, owner[o])
    BY <1>1, <1>2 DEF Required
  <2>2. g \in BaseGroups /\ Home[g] = o
    BY <2>1, ServicesStand DEF BaseGroups, Standing
  <2>3. Alive(g, dead) \subseteq UnitsIn(known) \ dead
    BY <1>1, <2>1, <2>2, LoadedThere
  <2> QED
    BY <1>1, <2>3, EmptyIsQueue DEF Held
<1> QED
  BY <1>2 DEF ThereInv

LEMMA StepThere ==
    GhostInv /\ StatusInv /\ QueueInv /\ ThereInv /\ [Next]_vars => ThereInv'
<1> SUFFICES ASSUME GhostInv, StatusInv, QueueInv, ThereInv, [Next]_vars PROVE ThereInv'
  OBVIOUS
<1>0. \A o : Inside(o) \in SUBSET Troops /\ {} \in SUBSET Troops
  BY DEF Inside
<1>1. CASE Timer
  <2>1. ASSUME NEW o, Repair(o) \/ Activate(o) \/ Cull(o) PROVE ThereInv'
    BY <2>1, RepairThere, ActivateThere, CullThere
  <2>2. ASSUME NEW o \in Bases, Capture(o) PROVE ThereInv'
    BY <1>0, <2>2, HandoverThere DEF Capture
  <2> QED
    BY <1>1, <2>1, <2>2, DespawnThere, SpawnThere DEF Timer
<1>2. CASE Faults
  <2>1. ASSUME NEW o \in Bases, CaptureHalts(o) PROVE ThereInv'
    BY <1>0, <2>1, HandoverThere DEF CaptureHalts
  <2> QED
    BY <1>2, <2>1, RestartThere, CaptureFailsThere DEF Faults
<1>3. ASSUME NEW u, UnitDies(u) \/ FarpFalls(u) \/ StrangerDies(u) PROVE ThereInv'
  BY <1>3, UnitDiesThere, FarpFallsThere, StrangerDiesThere
<1>4. ASSUME NEW u, SquadDies(u) PROVE ThereInv'
  <2> DEFINE ts == {GroupOf(u)}
  <2>1. ts \in SUBSET Troops /\ DeleteTroops(ts, dcs') /\ dcs' = dcs \ {u} /\ u \in UnitsOf[GroupOf(u)]
    BY <1>4 DEF SquadDies, Alive
  <2>2. dcs \ UnitsIn(ts) \subseteq dcs'
    BY <2>1 DEF UnitsIn
  <2> HIDE DEF ts
  <2> QED
    BY <2>1, <2>2, TroopsLeaveThere
<1>5. ASSUME NEW t \in Troops, PickUp(t) PROVE ThereInv'
  <2>1. {t} \in SUBSET Troops /\ DeleteTroops({t}, dcs) /\ dcs \ UnitsIn({t}) \subseteq dcs'
    BY <1>5 DEF PickUp
  <2> QED
    BY <2>1, TroopsLeaveThere
<1>6. ASSUME NEW t \in Troops, DeployTroop(t) PROVE ThereInv'
  BY <1>6, DeployThere
<1>7. ASSUME NEW o, UnpackRepair(o) PROVE ThereInv'
  BY <1>7, UnpackRepairThere
<1>8. ASSUME NEW f \in Farps, AddFarp(f) PROVE ThereInv'
  BY <1>8, AddFarpThere
<1>9. CASE UNCHANGED vars
  <2>1. \A g : Held(g) => Held(g)'
    BY <1>9 DEF vars, campaign, history, Held
  <2> QED
    BY <1>9, <2>1, SameRequired DEF vars, campaign, ThereInv
<1> QED
  BY <1>1, <1>2, <1>3, <1>4, <1>5, <1>6, <1>7, <1>8, <1>9 DEF Next

\* Whatever the queue cancels, and in whatever order captures, culls, repairs, restarts and
\* delayed spawns come: once the queue has nothing for a group that ought to be in DCS, all of
\* it that is alive is there.
THEOREM SpawnedIsThereAlways == Spec => []SpawnedIsThere
  BY InitGhosts, StepGhosts, InitStatus, StepStatus, InitQueue, StepQueue, InitThere, StepThere,
     ThereMeans, PTL DEF Spec

---------------------------------------------------------------------------
(* What ought to be gone is gone.                                          *)

\* A group is gone, or will be, or its despawn was lost.
IsGone(g) == g \in ToDespawn(q) \/ g \in undespawned \/ UnitsOf[g] \cap dcs = {}

\* No spawn waits for the defences of a base that was culled, if their despawn was not lost.
GoneInv ==
    /\ culled \cap spawned \cap Bases = {}
    /\ \A o \in culled : \A g \in Defences(o) : IsGone(g) /\ (g \in ToSpawn(q) => g \in undespawned)
    /\ \A g \in Groups \ groups : IsGone(g)

LEMMA GoneMeans == GoneInv => CulledIsGone
  BY DEF GoneInv, IsGone, CulledIsGone, Queued

\* Steps that cull nothing, spawn nothing and only push despawns.
LEMMA GoneStays ==
    ASSUME GoneInv, culled' \cap spawned' \cap Bases = {},
           \A o \in culled' : o \in culled /\ owner'[o] = owner[o],
           ToDespawn(q) \subseteq ToDespawn(q'), ToSpawn(q') \subseteq ToSpawn(q),
           undespawned \subseteq undespawned', dcs' \subseteq dcs,
           \A g \in Groups : g \in groups /\ g \notin groups' => IsGone(g)'
    PROVE  GoneInv'
<1>1. \A g : IsGone(g) => IsGone(g)'
  BY DEF IsGone
<1>2. \A o \in culled' : Defences(o)' = Defences(o)
  BY DEF Defences
<1> QED
  BY <1>1, <1>2 DEF GoneInv

\* A group that the campaign deletes is gone: one that is not known has nothing in DCS.
LEMMA DeletedIsGone ==
    ASSUME GhostInv, NEW g \in groups, NEW gs, g \in gs, dcs' \subseteq dcs,
           ToDespawn(q) \cup ((gs \cap known) \ ToSpawn(q)) \subseteq ToDespawn(q'),
           LostDespawns(gs \cap known, dcs') \subseteq undespawned'
    PROVE  IsGone(g)'
<1>1. CASE g \notin known
  BY <1>1 DEF GhostInv, NoGhosts, IsGone
<1>2. CASE g \in known /\ g \notin ToSpawn(q)
  BY <1>2 DEF IsGone
<1>3. CASE g \in known /\ g \in ToSpawn(q)
  BY <1>3 DEF IsGone, LostDespawns
<1> QED
  BY <1>1, <1>2, <1>3

LEMMA QuietGone ==
    ASSUME GoneInv, groups' = groups, dcs' \subseteq dcs, q' = q,
           UNCHANGED <<owner, spawned, culled, undespawned>>
    PROVE  GoneInv'
  BY GoneStays DEF GoneInv

LEMMA DeletedGone ==
    ASSUME GhostInv, QueueInv, GoneInv, NEW gs, q' = DeleteGroups(gs, q), groups' = groups \ gs,
           dcs' \subseteq dcs, undespawned' = undespawned \cup LostDespawns(gs \cap known, dcs'),
           spawned' \subseteq spawned, UNCHANGED <<owner, culled>>
    PROVE  GoneInv'
<1>1. ToBeDespawned(q, q', gs \cap known)
  BY Deleted DEF QueueInv, GhostInv, Sets
<1>2. /\ ToDespawn(q) \cup ((gs \cap known) \ ToSpawn(q)) \subseteq ToDespawn(q')
      /\ ToSpawn(q') \subseteq ToSpawn(q)
  BY <1>1 DEF ToBeDespawned
<1>3. \A g \in Groups : g \in groups /\ g \notin groups' => IsGone(g)'
  BY <1>2, DeletedIsGone
<1>4. culled' \cap spawned' \cap Bases = {}
  BY DEF GoneInv
<1> QED
  BY <1>2, <1>3, <1>4, GoneStays

LEMMA FarpFallsGone ==
    ASSUME GhostInv, QueueInv, GoneInv, NEW u, FarpFalls(u) PROVE GoneInv'
<1> DEFINE o == Home[GroupOf(u)]
           gs == {g \in groups \ Troops : Home[g] = o}
<1>1. /\ q' = DeleteGroups(gs, q) /\ groups' = groups \ gs /\ dcs' = dcs \ {u}
      /\ undespawned' = undespawned \cup LostDespawns(gs \cap known, dcs \ {u})
      /\ spawned' = spawned \ {o} /\ UNCHANGED <<owner, culled>>
  BY DEF FarpFalls
<1> HIDE DEF gs
<1>2. /\ dcs' \subseteq dcs /\ spawned' \subseteq spawned
      /\ undespawned' = undespawned \cup LostDespawns(gs \cap known, dcs')
  BY <1>1
<1> QED
  BY <1>1, <1>2, DeletedGone

LEMMA TroopsLeaveGone ==
    ASSUME GhostInv, QueueInv, GoneInv, NEW ts, DeleteTroops(ts, dcs'), dcs' \subseteq dcs
    PROVE  GoneInv'
<1>1. /\ q' = DeleteGroups(ts, q) /\ groups' = groups \ ts
      /\ undespawned' = undespawned \cup LostDespawns(ts \cap known, dcs')
      /\ UNCHANGED <<owner, spawned, culled>>
  BY DEF DeleteTroops
<1> QED
  BY <1>1, DeletedGone

\* Spawns are pushed for what is neither deleted nor culled.
LEMMA PushedGone ==
    ASSUME QueueInv, GoneInv, culled' \subseteq culled, culled' \cap spawned' \cap Bases = {},
           NEW gs \in SUBSET Groups, q' \in Queues, ToBeSpawned(q, q', gs),
           undespawned' = undespawned, groups \subseteq groups', UNCHANGED <<dcs, owner>>,
           \A g \in gs : g \in groups' /\ \A o \in culled' : g \notin Defences(o)
    PROVE  GoneInv'
<1>1. \A g : g \notin gs /\ IsGone(g) => IsGone(g)'
  BY DEF IsGone, ToBeSpawned
<1>2. \A o \in culled' : Defences(o)' = Defences(o)
  BY DEF Defences
<1>3. \A g : g \notin gs /\ g \in ToSpawn(q') => g \in ToSpawn(q)
  BY DEF ToBeSpawned
<1> QED
  BY <1>1, <1>2, <1>3 DEF GoneInv

LEMMA DeployGone == ASSUME QueueInv, GoneInv, NEW t \in Troops, DeployTroop(t) PROVE GoneInv'
<1>1. /\ q' = push_spawn(q, t) /\ groups' = groups \cup {t}
      /\ UNCHANGED <<dcs, owner, spawned, culled, undespawned>>
  BY DEF DeployTroop, history
<1>2. q' \in Queues /\ ToBeSpawned(q, q', {t}) /\ {t} \in SUBSET Groups
  BY <1>1, TroopsInBases, PushSpawn DEF QueueInv
<1>3. \A g \in {t} : g \in groups' /\ \A o \in culled' : g \notin Defences(o)
  BY <1>1, DefencesStand DEF Standing
<1>4. culled' \subseteq culled /\ culled' \cap spawned' \cap Bases = {} /\ groups \subseteq groups'
  BY <1>1 DEF GoneInv
<1> QED
  BY <1>1, <1>2, <1>3, <1>4, PushedGone

LEMMA RepairsGone ==
    ASSUME GhostInv, StatusInv, QueueInv, GoneInv, NEW o, Repair(o) \/ UnpackRepair(o) PROVE GoneInv'
<1>1. o \in exists /\ UNCHANGED <<dcs, groups, owner, spawned, culled>>
  BY DEF Repair, UnpackRepair
<1>2. CASE UNCHANGED <<q, undespawned>>
  BY <1>1, <1>2, QuietGone
<1>3. ASSUME NEW gs \in SUBSET GroupsAt(o, owner[o]), NEW d, Pushed(gs, d),
             o \in spawned \/ \A g \in gs : Class[g] = "services"
      PROVE  GoneInv'
  <2>1. \A g \in gs : g \in Standing /\ g \in Groups /\ Home[g] = o
    BY GroupsStand DEF GroupsAt, Standing
  <2>2. \A g \in gs : g \in groups
    BY <1>1, <2>1 DEF QueueInv, CampaignStands, StatusInv, StatusTypes, Objs, BaseGroups, Standing
  <2>3. \A g \in gs : \A b \in culled : g \notin Defences(b)
    BY <1>3, <2>1, DefencesStand DEF GoneInv
  <2>4. gs \in SUBSET Groups
    BY <2>1
  <2>5. q' \in Queues /\ ToBeSpawned(q, q', gs) /\ undespawned' = undespawned
    BY <1>3, <2>4, PushedQueue
  <2>6. culled' \subseteq culled /\ culled' \cap spawned' \cap Bases = {} /\ groups \subseteq groups'
    BY <1>1 DEF GoneInv
  <2>7. \A g \in gs : g \in groups' /\ \A b \in culled' : g \notin Defences(b)
    BY <1>1, <2>2, <2>3
  <2> QED
    BY <1>1, <2>4, <2>5, <2>6, <2>7, PushedGone
<1>4. CASE Repair(o)
  <2>1. PICK g \in Candidates(o) :
          IF o \in spawned \/ Class[g] = "services" THEN Pushed({g}, dead \ UnitsOf[g])
          ELSE UNCHANGED <<q, unspawned, undespawned>>
    BY <1>4 DEF Repair
  <2>2. {g} \in SUBSET GroupsAt(o, owner[o])
    BY DEF Candidates
  <2> QED
    BY <1>2, <1>3, <2>1, <2>2
<1>5. CASE UnpackRepair(o)
  <2>1. IF o \in spawned THEN Pushed(LogiAt(o, owner[o]), dead')
        ELSE UNCHANGED <<q, unspawned, undespawned>>
    BY <1>5 DEF UnpackRepair
  <2>2. LogiAt(o, owner[o]) \in SUBSET GroupsAt(o, owner[o])
    BY GroupsStand
  <2> QED
    BY <1>2, <1>3, <2>1, <2>2
<1> QED
  BY <1>4, <1>5

LEMMA ActivateGone == ASSUME QueueInv, GoneInv, NEW o, Activate(o) PROVE GoneInv'
<1>1. /\ Pushed(Defences(o), dead) /\ spawned' = spawned \cup {o} /\ culled' = culled \ {o}
      /\ UNCHANGED <<dcs, owner, groups>>
  BY DEF Activate, campaign
<1>2. Defences(o) \in SUBSET Groups
  BY DefencesStand DEF Standing
<1>3. q' \in Queues /\ ToBeSpawned(q, q', Defences(o)) /\ undespawned' = undespawned
  BY <1>1, <1>2, PushedQueue
<1>4. \A g \in Defences(o) : g \in groups' /\ \A b \in culled' : g \notin Defences(b)
  BY <1>1, DefencesStand DEF QueueInv, CampaignStands, BaseGroups, Standing
<1>5. culled' \subseteq culled /\ culled' \cap spawned' \cap Bases = {} /\ groups \subseteq groups'
  BY <1>1 DEF GoneInv
<1> QED
  BY <1>1, <1>2, <1>3, <1>4, <1>5, PushedGone

LEMMA CullGone == ASSUME GhostInv, QueueInv, GoneInv, NEW o, Cull(o) PROVE GoneInv'
<1> DEFINE gs == {g \in Defences(o) : Alive(g, dead) # {} /\ g \in known}
<1>1. /\ q' = push_despawns(q, gs) /\ spawned' = spawned \ {o} /\ culled' = culled \cup {o}
      /\ undespawned' = undespawned \cup (Defences(o) \cap ToSpawn(q))
      /\ UNCHANGED <<dcs, owner, groups>>
  BY DEF Cull, campaign
<1>2. gs \in SUBSET Groups
  BY DefencesStand DEF Standing
<1>3. \A g \in Defences(o) : g \notin gs => UnitsOf[g] \cap dcs = {}
  <2>1. \A g \in Defences(o) : g \in groups
    BY DefencesStand DEF QueueInv, CampaignStands, BaseGroups, Standing
  <2> QED
    BY <2>1 DEF GhostInv, NoGhosts, Alive
<1> HIDE DEF gs
<1>4. ToBeDespawned(q, q', gs)
  BY <1>1, <1>2, PushDespawns DEF QueueInv
<1>5. \A g : IsGone(g) => IsGone(g)'
  BY <1>1, <1>4 DEF IsGone, ToBeDespawned
<1>6. \A g \in Defences(o) : IsGone(g)'
  BY <1>1, <1>3, <1>4 DEF IsGone, ToBeDespawned
<1>7. \A g : g \in ToSpawn(q') => g \in ToSpawn(q)
  BY <1>4 DEF ToBeDespawned
<1>8. \A b : Defences(b)' = Defences(b)
  BY <1>1 DEF Defences
<1> QED
  BY <1>1, <1>5, <1>6, <1>7, <1>8 DEF GoneInv

\* What ought to be gone does not wait to be spawned later, and be despawned: of a FARP that
\* waits nothing was ever spawned.
LEMMA GoneIsNotDue ==
    ASSUME QueueInv, NEW g, g \in q.later
    PROVE  /\ \A o : g \notin Defences(o)
           /\ g \notin groups => g \notin ToDespawn(q)
<1>1. g \in Standing /\ (Home[g] \in Farps \/ Class[g] = "services")
  BY DEF QueueInv, LaterInv
<1>2. \A o : g \notin Defences(o)
  BY <1>1, DefencesStand, ObjectivesConstants
<1>3. ASSUME g \notin groups PROVE g \notin ToDespawn(q)
  <2>1. Home[g] \in Farps
    BY <1>1, <1>3, ObjectivesConstants
       DEF QueueInv, CampaignStands, BaseGroups, Standing, Objs
  <2> QED
    BY <2>1 DEF QueueInv, LaterInv
<1> QED
  BY <1>2, <1>3

LEMMA DespawnGone ==
    ASSUME QueueInv, GoneInv, NEW due \in DueTogether, Despawn(due) PROVE GoneInv'
<1>1. PICK g \in Groups : DespawnsFront(due, g) /\ Together(due)
  BY DespawnTakes DEF QueueInv
<1>2. UNCHANGED <<owner, groups, spawned, culled>>
  BY <1>1 DEF DespawnsFront, campaign
<1>3. ASSUME NEW h, IsGone(h), ~(h \in due /\ h \in ToDespawn(q)) PROVE IsGone(h)'
  BY <1>1, <1>3 DEF DespawnsFront, IsGone
<1>4. ASSUME NEW h \in Groups \ groups PROVE IsGone(h)'
  BY <1>1, <1>3, <1>4, GoneIsNotDue DEF GoneInv, Together
<1>5. ASSUME NEW o \in culled, NEW h \in Defences(o)
      PROVE  IsGone(h)' /\ (h \in ToSpawn(q') => h \in undespawned')
  <2>1. h \notin due
    BY <1>1, <1>5, GoneIsNotDue DEF Together
  <2>2. h \in ToSpawn(q') => h \in ToSpawn(q) /\ h # g
    BY <1>1, <2>1 DEF DespawnsFront
  <2>3. IsGone(h) /\ (h \in ToSpawn(q) => h \in undespawned)
    BY <1>5 DEF GoneInv
  <2> QED
    BY <1>1, <1>3, <2>1, <2>2, <2>3 DEF DespawnsFront
<1>6. \A o : Defences(o)' = Defences(o)
  BY <1>2 DEF Defences
<1> QED
  BY <1>2, <1>4, <1>5, <1>6 DEF GoneInv

LEMMA SpawnGone ==
    ASSUME QueueInv, GoneInv, NEW due \in DueTogether, Spawn(due) PROVE GoneInv'
<1>1. PICK g \in Groups : SpawnsFront(due, g) /\ Together(due)
  BY SpawnTakes DEF QueueInv
<1>2. UNCHANGED <<owner, groups, spawned, culled, undespawned, dead>>
  BY <1>1 DEF SpawnsFront, campaign
<1>3. ASSUME NEW h \in Groups, IsGone(h), ~(h \in due /\ h \in ToDespawn(q)),
             h = g => h \notin groups \/ h \in undespawned
      PROVE  IsGone(h)'
  <2>1. h \notin ToDespawn(q)
    BY <1>1, <1>3 DEF SpawnsFront
  <2>2. CASE h \in undespawned
    BY <1>2, <2>2 DEF IsGone
  <2>3. CASE h \notin undespawned
    <3>1. UnitsOf[h] \cap dcs = {}
      BY <1>3, <2>1, <2>3 DEF IsGone
    <3>2. CASE h = g
      BY <1>1, <1>3, <2>3, <3>1, <3>2 DEF SpawnsFront, IsGone
    <3>3. CASE h # g
      BY <1>1, <3>1, <3>3, OneGroup DEF SpawnsFront, IsGone, Alive
    <3> QED
      BY <3>2, <3>3
  <2> QED
    BY <2>2, <2>3
<1>4. ASSUME NEW h \in Groups \ groups PROVE IsGone(h)'
  BY <1>1, <1>3, <1>4, GoneIsNotDue DEF GoneInv, Together
<1>5. ASSUME NEW o \in culled, NEW h \in Defences(o)
      PROVE  IsGone(h)' /\ (h \in ToSpawn(q') => h \in undespawned')
  <2>1. h \notin due /\ h \in Groups
    BY <1>1, <1>5, GoneIsNotDue, DefencesStand DEF Together, Standing
  <2>2. h \in ToSpawn(q') \/ h = g => h \in ToSpawn(q)
    BY <1>1, <2>1 DEF SpawnsFront
  <2>3. IsGone(h) /\ (h \in ToSpawn(q) => h \in undespawned)
    BY <1>5 DEF GoneInv
  <2> QED
    BY <1>2, <1>3, <2>1, <2>2, <2>3
<1>6. \A o : Defences(o)' = Defences(o)
  BY <1>2 DEF Defences
<1> QED
  BY <1>2, <1>4, <1>5, <1>6 DEF GoneInv

LEMMA AddFarpGone ==
    ASSUME QueueInv, GoneInv, NEW f \in Farps, AddFarp(f) PROVE GoneInv'
<1>1. /\ spawned' = spawned \cup {f} /\ groups \subseteq groups'
      /\ UNCHANGED <<dcs, owner, culled, undespawned>>
  BY DEF AddFarp, history
<1>2. ToSpawn(q') = ToSpawn(q) /\ ToDespawn(q') = ToDespawn(q)
  BY FarpComesLater
<1>3. culled' \cap spawned' \cap Bases = {}
  BY <1>1, ObjectivesConstants DEF GoneInv
<1> QED
  BY <1>1, <1>2, <1>3, GoneStays

LEMMA HandoverGone ==
    ASSUME GhostInv, StatusInv, QueueInv, GoneInv, NEW o \in Bases, NEW s \in Sides,
           NEW spent \in SUBSET Troops, Handover(o, s, spent)
    PROVE  GoneInv'
<1> DEFINE out == ServicesGone(o, s) \cup (spent \cap known)
<1>1. /\ ToSpawn(q') = ToSpawn(q) \ out /\ ToDespawn(q') = ToDespawn(q) \cup (out \ ToSpawn(q))
      /\ undespawned' = undespawned \cup LostDespawns(out, dcs)
  BY HandoverPushes, ZenonT(40) DEF GhostInv, Sets
<1>2. /\ owner' = [owner EXCEPT ![o] = s] /\ spawned' = spawned \ {o} /\ culled' = culled \ {o}
      /\ groups' = groups \ spent /\ dcs' = dcs
  BY DEF Handover
<1>3. LostDespawns(spent \cap known, dcs') \subseteq undespawned'
  BY <1>1, <1>2 DEF LostDespawns
<1>4. ToDespawn(q) \cup ((spent \cap known) \ ToSpawn(q)) \subseteq ToDespawn(q')
  BY <1>1
<1>5. \A g \in Groups : g \in groups /\ g \notin groups' => IsGone(g)'
  BY <1>2, <1>3, <1>4, DeletedIsGone
<1>6. \A b \in culled' : b \in culled /\ owner'[b] = owner[b]
  BY <1>2 DEF StatusInv, StatusTypes
<1>7. culled' \cap spawned' \cap Bases = {}
  BY <1>2 DEF GoneInv
<1> HIDE DEF out
<1> QED
  BY <1>1, <1>2, <1>5, <1>6, <1>7, GoneStays

LEMMA CaptureFailsGone ==
    ASSUME StatusInv, GoneInv, NEW o \in Bases, CaptureFails(o) PROVE GoneInv'
<1>1. /\ \E s : owner' = [owner EXCEPT ![o] = s] 
      /\ spawned' = spawned \ {o} /\ culled' = culled \ {o}
      /\ UNCHANGED <<dcs, groups, q, undespawned>>
  BY DEF CaptureFails
<1>2. \A b \in culled' : b \in culled /\ owner'[b] = owner[b]
  BY <1>1 DEF StatusInv, StatusTypes
<1>3. culled' \cap spawned' \cap Bases = {}
  BY <1>1 DEF GoneInv
<1> QED
  BY <1>1, <1>2, <1>3, GoneStays

LEMMA LoadedIsGone ==
    ASSUME NEW gs \in SUBSET Groups, NEW own, NEW d, NEW g \in Groups \ gs, NEW k,
           k = {x \in AfterLoad(own, gs, d) : Alive(x, d) # {}}
    PROVE  UnitsOf[g] \cap (UnitsIn(k) \ d) = {}
<1>1. k \subseteq gs
  BY DEF AfterLoad
<1> QED
  BY <1>1, OneGroup DEF UnitsIn

LEMMA RestartGone == ASSUME GhostInv, Restart PROVE GoneInv'
<1>1. /\ known' = {g \in AfterLoad(owner, groups, dead) : Alive(g, dead) # {}}
      /\ dcs' = UnitsIn(known') \ dead /\ culled' = {} /\ groups' = groups
  BY DEF Restart, campaign
<1>2. \A g \in Groups \ groups : UnitsOf[g] \cap dcs' = {}
  BY <1>1, LoadedIsGone DEF GhostInv, Sets
<1> QED
  BY <1>1, <1>2 DEF GoneInv, IsGone

LEMMA InitGone == Init => GoneInv
<1> SUFFICES ASSUME Init PROVE GoneInv
  OBVIOUS
<1>1. /\ known = {g \in AfterLoad(owner, BaseGroups, dead) : Alive(g, dead) # {}}
      /\ dcs = UnitsIn(known) \ dead /\ culled = {} /\ groups = BaseGroups
  BY DEF Init
<1>2. BaseGroups \in SUBSET Groups
  BY DEF BaseGroups
<1> HIDE DEF BaseGroups
<1>3. ASSUME NEW g \in Groups \ BaseGroups PROVE UnitsOf[g] \cap (UnitsIn(known) \ dead) = {}
  BY <1>1, <1>2, LoadedIsGone
<1> QED
  BY <1>1, <1>3 DEF GoneInv, IsGone

LEMMA StepGone ==
    GhostInv /\ StatusInv /\ QueueInv /\ GoneInv /\ [Next]_vars => GoneInv'
<1> SUFFICES ASSUME GhostInv, StatusInv, QueueInv, GoneInv, [Next]_vars PROVE GoneInv'
  OBVIOUS
<1>0. \A o : Inside(o) \in SUBSET Troops /\ {} \in SUBSET Troops
  BY DEF Inside
<1>1. CASE Timer
  <2>1. ASSUME NEW o, Repair(o) \/ Activate(o) \/ Cull(o) PROVE GoneInv'
    BY <2>1, RepairsGone, ActivateGone, CullGone
  <2>2. ASSUME NEW o \in Bases, Capture(o) PROVE GoneInv'
    BY <1>0, <2>2, HandoverGone DEF Capture
  <2> QED
    BY <1>1, <2>1, <2>2, DespawnGone, SpawnGone DEF Timer
<1>2. CASE Faults
  <2>1. ASSUME NEW o \in Bases, CaptureHalts(o) PROVE GoneInv'
    BY <1>0, <2>1, HandoverGone DEF CaptureHalts
  <2> QED
    BY <1>2, <2>1, RestartGone, CaptureFailsGone DEF Faults
<1>3. ASSUME NEW u, UnitDies(u) \/ StrangerDies(u) \/ UNCHANGED vars PROVE GoneInv'
  BY <1>3, QuietGone DEF UnitDies, StrangerDies, vars, campaign, history
<1>4. ASSUME NEW u, FarpFalls(u) PROVE GoneInv'
  BY <1>4, FarpFallsGone
<1>5. ASSUME NEW u, SquadDies(u) PROVE GoneInv'
  BY <1>5, TroopsLeaveGone DEF SquadDies
<1>6. ASSUME NEW t \in Troops, PickUp(t) PROVE GoneInv'
  <2>1. DeleteTroops({t}, dcs') /\ dcs' \subseteq dcs
    BY <1>6 DEF PickUp
  <2> QED
    BY <2>1, TroopsLeaveGone
<1>7. ASSUME NEW t \in Troops, DeployTroop(t) PROVE GoneInv'
  BY <1>7, DeployGone
<1>8. ASSUME NEW o, UnpackRepair(o) PROVE GoneInv'
  BY <1>8, RepairsGone
<1>9. ASSUME NEW f \in Farps, AddFarp(f) PROVE GoneInv'
  BY <1>9, AddFarpGone
<1> QED
  BY <1>1, <1>2, <1>3, <1>4, <1>5, <1>6, <1>7, <1>8, <1>9 DEF Next

\* And once the queue has nothing for a group that was deleted or culled, nothing of it is left,
\* unless its despawn was lost to a spawn that was waiting.
THEOREM CulledIsGoneAlways == Spec => []CulledIsGone
  BY InitGhosts, StepGhosts, InitStatus, StepStatus, InitQueue, StepQueue, InitGone, StepGone,
     GoneMeans, PTL DEF Spec
=============================================================================
