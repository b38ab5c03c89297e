---------------------------- MODULE Objectives ----------------------------
(***************************************************************************)
(* Objectives: bases of the mission and FARPs built in play, the groups    *)
(* that stand there, and what becomes of both.  Units die, bases repair,   *)
(* are culled and brought back, fall to troops when their logistics is     *)
(* dead; FARPs are deleted then.  The campaign says which unit is alive;   *)
(* DCS has the units that were spawned; the spawn queue is in between.     *)
(*                                                                         *)
(* DCS reports the death of a unit before anything else happens to it, and *)
(* spawning a group replaces the one of that name.  Objectives are looked  *)
(* at one after another in a slow tick: here each is a step of its own.    *)
(* Which enemies are near, and how long ago, is left open.                 *)
(***************************************************************************)
EXTENDS SpawnQueue, Integers, FiniteSets

CONSTANTS Bases, Farps,   \* objectives of the mission, and those that may be built
          Sides,
          Groups, Troops, \* all groups; those that are squads able to capture
          Units,          \* those that are not invincible
          Home,           \* [group -> objective], for troops the zone they are dropped in
          SideOf, Class,  \* [group -> side], [group -> "logi", "services", "other", "troop"]
          UnitsOf,        \* [group -> units]
          InitOwner,      \* [base -> side]
          MaxNew,         \* bound: squads deployed and FARPs built
          MaxBlows        \* bound: units that die (but for the last of a squad or FARP),
                          \* captures that DCS breaks off, restarts

Objs == Bases \cup Farps

ASSUME ObjectivesConstants ==
    /\ Bases \cap Farps = {} /\ Troops \subseteq Groups
    /\ Home \in [Groups -> Objs] /\ SideOf \in [Groups -> Sides]
    /\ Class \in [Groups -> {"logi", "services", "other", "troop"}]
    /\ \A g \in Groups : g \in Troops <=> Class[g] = "troop"
    /\ \A t \in Troops : Home[t] \in Bases
    /\ UnitsOf \in [Groups -> SUBSET Units]
    /\ \A g, h \in Groups : g # h => UnitsOf[g] \cap UnitsOf[h] = {}
    /\ IsFiniteSet(Units) /\ IsFiniteSet(Groups)
    /\ InitOwner \in [Bases -> Sides]
    /\ MaxBlows \in Nat /\ MaxNew \in Nat

VARIABLES dcs,          \* the world: units DCS has, alive
          owner, exists, spawned, health, logi, \* of the objectives
          groups,       \* groups of the campaign
          dead,         \* units of the campaign that are dead
          q,            \* the spawn queue
          known,        \* groups in object_id_by_gid
          index,        \* units in uid_by_object_id
          used,         \* history: ids of FARPs and troops used up
          unspawned,    \* history: groups whose spawn took a despawn out of the queue, or failed
          undespawned,  \* history: groups whose despawn took a spawn out of the queue
          stale,        \* history: bases whose capture broke off before their status was set
          culled,       \* history: bases that were culled and not brought back since
          blows         \* count, for the bound

campaign == <<owner, exists, groups, dead>>
status == <<health, logi, stale>>
indices == <<known, index>>
history == <<unspawned, undespawned, culled>>
vars == <<dcs, campaign, spawned, status, q, indices, used, history, blows>>

GroupsAt(o, s) == {g \in Groups \ Troops : Home[g] = o /\ SideOf[g] = s}
LogiAt(o, s) == {g \in GroupsAt(o, s) : Class[g] = "logi"}
ServicesAt(o, s) == {g \in GroupsAt(o, s) : Class[g] = "services"}
UnitsIn(gs) == UNION {UnitsOf[g] : g \in gs}
\* Mutant of Alive: a group is spawned with its dead.
EveryUnit(g, d) == UnitsOf[g]

Alive(g, d) == UnitsOf[g] \ d

\* compute_objective_status: the part that is alive, in per cent, of a side's units there;
\* the quotient of nothing is no number, and as an u8 that is 0.  (The program divides in
\* single precision, which may truncate to one less between 0 and 100.)
Percent(gs, d) ==
    LET total == Cardinality(UnitsIn(gs))
    IN  IF total = 0 THEN 0 ELSE (100 * Cardinality(UnitsIn(gs) \ d)) \div total

HealthOf(o, s, d) == Percent(GroupsAt(o, s), d)
LogiOf(o, s, d) == Percent(LogiAt(o, s), d)

\* Mutant of update_objective_status: it counts before the death or the repair is written.
UpdateTooEarly(o, s, d) ==
    /\ health' = [health EXCEPT ![o] = HealthOf(o, s, dead)]
    /\ logi' = [logi EXCEPT ![o] = LogiOf(o, s, dead)]
    /\ stale' = stale \ {o}

update_objective_status(o, s, d) ==
    /\ health' = [health EXCEPT ![o] = HealthOf(o, s, d)]
    /\ logi' = [logi EXCEPT ![o] = LogiOf(o, s, d)]
    /\ stale' = stale \ {o}

\* Groups whose push cancels an entry although DCS does not have what the campaign has.
LostSpawns(gs, d, world) == {g \in gs \cap ToDespawn(q) : ~(Alive(g, d) \subseteq world)}
LostDespawns(gs, world) == {g \in gs \cap ToSpawn(q) : UnitsOf[g] \cap world # {}}

\* delete_group, for all of gs; a group DCS never had is not despawned.
DeleteGroups(gs, queue) == push_despawns(queue, gs \cap known)

\* repair_one_logi_step: which units are brought back, of those of a side that are dead.
RepairStep(o, s) ==
    LET size(g) == Cardinality(UnitsOf[g])
        total == IF LogiAt(o, s) = {} THEN 0 ELSE Max({size(g) : g \in LogiAt(o, s)})
        broken == UnitsIn(LogiAt(o, s)) \cap dead
        n == Min({1 + (total \div 2), Cardinality(broken)})
    IN  {R \in SUBSET broken : Cardinality(R) = n}

\* What respawn_after_load spawns: services and FARPs of the owner, squads, and what is alive
\* of other sides.
AfterLoad(own, gs, d) ==
    {g \in gs : \/ g \in Troops
                \/ SideOf[g] = own[Home[g]] /\ (Home[g] \in Farps \/ Class[g] = "services")
                \/ g \notin Troops /\ SideOf[g] # own[Home[g]] /\ Alive(g, d) # {}}

\* A FARP is built by one side, with logistics: without, the death of any unit would delete it.
ASSUME FarpsHaveLogistics ==
    \A f \in Farps : \E s \in Sides :
        /\ UnitsIn(LogiAt(f, s)) # {}
        /\ \A g \in Groups \ Troops : Home[g] = f => SideOf[g] = s

BaseGroups == {g \in Groups \ Troops : Home[g] \in Bases}
FarpSide(f) == CHOOSE s \in Sides : GroupsAt(f, s) # {}

Init ==
    LET d == UnitsIn({g \in BaseGroups : SideOf[g] # InitOwner[Home[g]]})
        own == [o \in Objs |-> IF o \in Bases THEN InitOwner[o] ELSE FarpSide(o)]
    IN  /\ owner = own /\ exists = Bases /\ groups = BaseGroups /\ dead = d
        /\ health = [o \in Objs |-> IF o \in Bases THEN HealthOf(o, own[o], d) ELSE 0]
        /\ logi = [o \in Objs |-> IF o \in Bases THEN LogiOf(o, own[o], d) ELSE 0]
        /\ spawned = {} /\ q = EmptyQueue
        /\ known = {g \in AfterLoad(own, BaseGroups, d) : Alive(g, d) # {}}
        /\ index = UnitsIn(known) \ d /\ dcs = index
        /\ used = {} /\ stale = {} /\ unspawned = {} /\ undespawned = {} /\ culled = {} 
        /\ blows = 0

Blow == blows < MaxBlows /\ blows' = blows + 1
New(x) == Cardinality(used) < MaxNew /\ x \notin used /\ used' = used \cup {x}

---------------------------------------------------------------------------
(* Deaths.                                                                 *)

GroupOf(u) == CHOOSE g \in Groups : u \in UnitsOf[g]

\* A unit the indices know dies; what is left of its side keeps the objective, or the squad.
UnitDies(u) ==
    LET g == GroupOf(u)
        o == Home[g]
        d == dead \cup {u}
    IN  /\ Blow /\ u \in dcs \cap index
        /\ dcs' = dcs \ {u} /\ index' = index \ {u} /\ dead' = d
        /\ IF g \in Troops
           THEN Alive(g, d) # {} /\ UNCHANGED status
           ELSE /\ o \in Farps => LogiOf(o, owner[o], d) > 0
                /\ update_objective_status(o, owner[o], d)
        /\ UNCHANGED <<owner, exists, groups, spawned, q, known, used, history>>

\* delete_objective: the last unit of a FARP's logistics dies, and the FARP with it.
FarpFalls(u) ==
    LET o == Home[GroupOf(u)]
        gs == {g \in groups \ Troops : Home[g] = o}
        world == dcs \ {u}
    IN  /\ u \in dcs \cap index /\ o \in Farps /\ GroupOf(u) \notin Troops
        /\ LogiOf(o, owner[o], dead \cup {u}) = 0
        /\ dcs' = world /\ index' = index \ UnitsIn(gs) /\ dead' = dead \ UnitsIn(gs)
        /\ groups' = groups \ gs /\ exists' = exists \ {o} /\ spawned' = spawned \ {o}
        /\ health' = [health EXCEPT ![o] = 0] /\ logi' = [logi EXCEPT ![o] = 0]
        /\ stale' = stale \ {o} /\ q' = DeleteGroups(gs, q)
        /\ undespawned' = undespawned \cup LostDespawns(gs \cap known, world)
        /\ UNCHANGED <<owner, known, used, unspawned, culled, blows>>

\* delete_group for a squad.
DeleteTroops(ts, world) ==
    /\ groups' = groups \ ts /\ dead' = dead \ UnitsIn(ts) /\ index' = index \ UnitsIn(ts)
    /\ q' = DeleteGroups(ts, q)
    /\ undespawned' = undespawned \cup LostDespawns(ts \cap known, world)
    /\ UNCHANGED <<owner, exists, spawned, status, known, used, unspawned, culled, blows>>

\* The last of a squad dies, and the campaign deletes the squad.
SquadDies(u) ==
    /\ u \in dcs \cap index /\ GroupOf(u) \in Troops
    /\ Alive(GroupOf(u), dead) = {u}
    /\ dcs' = dcs \ {u} /\ DeleteTroops({GroupOf(u)}, dcs')

\* Players put a squad down in the zone of a base, and take it aboard again.
DeployTroop(t) ==
    /\ New(t) /\ groups' = groups \cup {t} /\ q' = push_spawn(q, t)
    /\ UNCHANGED <<dcs, owner, exists, dead, spawned, status, indices, history, blows>>

PickUp(t) ==
    /\ t \in Troops \cap groups /\ DeleteTroops({t}, dcs)
    /\ UNCHANGED dcs

\* What is left of a deleted group in DCS dies: no index knows it.
StrangerDies(u) ==
    /\ u \in dcs \ index /\ dcs' = dcs \ {u}
    /\ UNCHANGED <<campaign, spawned, status, q, indices, used, history, blows>>

---------------------------------------------------------------------------
(* The timer.                                                              *)

Pushed(gs, d) ==
    /\ q' = push_spawns(q, gs)
    /\ unspawned' = unspawned \cup LostSpawns(gs, d, dcs)
    /\ UNCHANGED undespawned

\* The first class, in the order of repair_objective, that has a damaged group.
Rank == [logi |-> 1, services |-> 2, other |-> 3]
Damage(g) == Cardinality(UnitsOf[g] \cap dead)
\* Mutant of Candidates: only logistics are repaired.
CandidatesOfLogi(o) == {g \in LogiAt(o, owner[o]) : Damage(g) > 0}

Candidates(o) ==
    LET broken == {g \in GroupsAt(o, owner[o]) : Damage(g) > 0}
        first == {g \in broken : \A h \in broken : Rank[Class[g]] <= Rank[Class[h]]}
    IN  {g \in first : \A h \in first : Damage(h) <= Damage(g)}

\* repair_objective, when maybe_do_repairs finds that its time has come: never without
\* logistics, for it is divided by that.
Repair(o) ==
    /\ o \in exists /\ logi[o] > 0 /\ health[o] < 100
    /\ \E g \in Candidates(o) :
         LET d == dead \ UnitsOf[g]
         IN  /\ dead' = d /\ update_objective_status(o, owner[o], d)
             /\ IF o \in spawned \/ Class[g] = "services" THEN Pushed({g}, d)
                ELSE UNCHANGED <<q, unspawned, undespawned>>
    /\ UNCHANGED <<dcs, owner, exists, groups, spawned, indices, used, culled, blows>>

Defences(o) == {g \in GroupsAt(o, owner[o]) : o \in Bases /\ Class[g] # "services"}

\* cull_or_respawn_objectives: an enemy is near; or none has been for cull_after, which
\* outlasts the queue: what was to be spawned then has been spawned once.
Activate(o) ==
    /\ o \in exists \ spawned /\ spawned' = spawned \cup {o} /\ culled' = culled \ {o}
    /\ Pushed(Defences(o), dead)
    /\ UNCHANGED <<dcs, campaign, status, indices, used, blows>>

Cull(o) ==
    LET gs == {g \in Defences(o) : Alive(g, dead) # {} /\ g \in known}
    IN  /\ o \in exists \cap spawned
        /\ spawned' = spawned \ {o} /\ culled' = culled \cup {o}
        /\ q' = push_despawns(q, gs)
        /\ undespawned' = undespawned \cup (Defences(o) \cap ToSpawn(q))
        /\ UNCHANGED <<dcs, campaign, status, indices, used, unspawned, blows>>

\* Delayed spawns that may be due: what was queued together, of one objective and side, is.
DueTogether ==
    {due \in SUBSET q.later : \A g \in due, h \in q.later :
        Home[g] = Home[h] /\ SideOf[g] = SideOf[h] => h \in due}

\* process_spawn_queue, a queue of less than 32: one despawn, or if there is none one spawn.
Despawn(due) ==
    LET q1 == WithDue(q, due)
        g == Head(q1.despawn)
    IN  /\ q1.despawn # <<>>
        /\ q' = [q1 EXCEPT !.despawn = Tail(@)]
        /\ dcs' = dcs \ UnitsOf[g]
        /\ known' = IF g \in groups THEN known \ {g} ELSE known
        /\ index' = IF g \in groups THEN index \ UnitsOf[g] ELSE index
        /\ unspawned' = unspawned \cup LostSpawns(due, dead, dcs)
        /\ undespawned' = undespawned \ {g}
        /\ UNCHANGED <<campaign, spawned, status, used, culled, blows>>

Spawn(due) ==
    LET q1 == WithDue(q, due)
        g == Head(q1.spawn)
    IN  /\ q1.despawn = <<>> /\ q1.spawn # <<>>
        /\ q' = [q1 EXCEPT !.spawn = Tail(@)]
        /\ IF g \in groups /\ Alive(g, dead) # {}
           THEN /\ dcs' = (dcs \ UnitsOf[g]) \cup Alive(g, dead)
                /\ known' = known \cup {g} /\ index' = index \cup Alive(g, dead)
           ELSE UNCHANGED <<dcs, indices>>
        /\ unspawned' = (unspawned \cup LostSpawns(due, dead, dcs)) \ {g}
        /\ UNCHANGED <<campaign, spawned, status, used, undespawned, culled, blows>>

---------------------------------------------------------------------------
(* Players repair and build; bases fall; the mission restarts.             *)

\* unpakistan with a repair crate: one step, at once.
UnpackRepair(o) ==
    /\ o \in exists /\ logi[o] # 100
    /\ \E R \in RepairStep(o, owner[o]) :
         /\ dead' = dead \ R /\ update_objective_status(o, owner[o], dead')
         /\ IF o \in spawned THEN Pushed(LogiAt(o, owner[o]), dead')
            ELSE UNCHANGED <<q, unspawned, undespawned>>
    /\ UNCHANGED <<dcs, owner, exists, groups, spawned, indices, used, culled, blows>>

\* add_farp: its groups are built a minute later.
AddFarp(f) ==
    LET gs == {g \in Groups \ Troops : Home[g] = f}
    IN  /\ New(f)
        /\ exists' = exists \cup {f} /\ groups' = groups \cup gs
        /\ spawned' = spawned \cup {f} /\ q' = push_later(q, gs)
        /\ health' = [health EXCEPT ![f] = 100] /\ logi' = [logi EXCEPT ![f] = 100]
        /\ UNCHANGED <<dcs, owner, dead, indices, stale, history, blows>>

\* check_capture: squads of one side alone, in the zone of a base without logistics.
Inside(o) == {t \in Troops \cap groups : Home[t] = o}
\* Mutants of MayTake: one side's squads are enough, others or not; damaged logistics are.
MayTakeContested(o, s) ==
    /\ o \in exists \cap Bases /\ logi[o] = 0
    /\ \E t \in Inside(o) : SideOf[t] = s

MayTakeDamaged(o, s) ==
    /\ o \in exists \cap Bases /\ health[o] < 100
    /\ Inside(o) # {} /\ \A t \in Inside(o) : SideOf[t] = s

MayTake(o, s) ==
    /\ o \in exists \cap Bases /\ logi[o] = 0
    /\ Inside(o) # {} /\ \A t \in Inside(o) : SideOf[t] = s

\* One step of repairs, the services there were despawned and the new owner's spawned in three
\* minutes; then the squads that took the base, unless something before that failed.
Handover(o, s, spent) ==
    LET gone == known \cap UNION {ServicesAt(o, r) : r \in Sides \ {s}}
        later == push_later(push_despawns(q, gone), ServicesAt(o, s))
    IN  \E R \in RepairStep(o, s) :
          LET d == (dead \ R) \ UnitsIn(ServicesAt(o, s))
          IN  /\ owner' = [owner EXCEPT ![o] = s] /\ spawned' = spawned \ {o}
              /\ update_objective_status(o, s, d)
              /\ dead' = d \ UnitsIn(spent) /\ groups' = groups \ spent
              /\ index' = index \ UnitsIn(spent) /\ q' = DeleteGroups(spent, later)
              /\ undespawned' = undespawned \cup LostDespawns(gone \cup (spent \cap known), dcs)
              /\ culled' = culled \ {o}
              /\ UNCHANGED <<dcs, exists, known, used, unspawned>>

Capture(o) == \E s \in Sides :
    MayTake(o, s) /\ Handover(o, s, Inside(o)) /\ UNCHANGED blows

\* The warehouse or the supply lines fail: the squads stay.
CaptureHalts(o) == \E s \in Sides :
    MayTake(o, s) /\ Handover(o, s, {}) /\ Blow

\* The airbase is not found or refuses: nothing is repaired, the status is the old owner's.
CaptureFails(o) == \E s \in Sides :
    /\ MayTake(o, s) /\ Blow
    /\ owner' = [owner EXCEPT ![o] = s] /\ spawned' = spawned \ {o}
    /\ culled' = culled \ {o} /\ stale' = stale \cup {o}
    /\ unspawned' = unspawned \cup ServicesAt(o, s)
    /\ UNCHANGED <<dcs, exists, groups, dead, health, logi, q, indices, used, undespawned>>

\* The mission ends and is loaded again: what is not saved starts afresh.
Restart ==
    /\ Blow
    /\ known' = {g \in AfterLoad(owner, groups, dead) : Alive(g, dead) # {}}
    /\ index' = UnitsIn(known') \ dead /\ dcs' = index'
    /\ spawned' = {} /\ q' = EmptyQueue
    /\ unspawned' = {} /\ undespawned' = {} /\ culled' = {}
    /\ UNCHANGED <<campaign, status, used>>

Timer ==
    \/ \E due \in DueTogether : Despawn(due) \/ Spawn(due)
    \/ \E o \in Objs : Repair(o) \/ Activate(o) \/ Cull(o)
    \/ \E o \in Bases : Capture(o)

Faults == Restart \/ \E o \in Bases : CaptureHalts(o) \/ CaptureFails(o)

Next ==
    \/ Timer \/ Faults
    \/ \E u \in Units : UnitDies(u) \/ FarpFalls(u) \/ SquadDies(u) \/ StrangerDies(u)
    \/ \E t \in Troops : DeployTroop(t) \/ PickUp(t)
    \/ \E o \in Objs : UnpackRepair(o)
    \/ \E f \in Farps : AddFarp(f)

Spec == Init /\ [][Next]_vars

\* The timer comes back for repairs, captures and the queue.
FairSpec ==
    /\ Spec
    /\ \A o \in Objs : WF_vars(Repair(o))
    /\ \A o \in Bases : WF_vars(Capture(o))

---------------------------------------------------------------------------
(* Properties.                                                             *)

\* What an objective is said to have left is what its owner has left there: of its logistics
\* always, however a capture breaks off, of the rest unless one broke off before it was counted.
StatusIsCurrent ==
    \A o \in exists :
        /\ logi[o] = LogiOf(o, owner[o], dead)
        /\ o \notin stale => health[o] = HealthOf(o, owner[o], dead)

\* A base is held by one side: no other has logistics left alive there.
LosersAreBroken ==
    \A o \in Bases : \A s \in Sides \ {owner[o]} : LogiOf(o, s, dead) = 0

\* DCS has no ghosts: a unit it has, of a group the campaign has, is alive in the campaign and
\* is found by its index when it dies, and its group when it is to be despawned.
NoGhosts ==
    \A g \in groups : \A u \in UnitsOf[g] \cap dcs :
        u \notin dead /\ u \in index /\ g \in known

\* Once the queue has nothing to do for it, a group DCS ought to have is there, all that is
\* alive of it: the defences of a base that is spawned, and the services of every base.  Not
\* if its spawn only took a despawn out of the queue, or the capture of the base broke off.
SpawnedIsThere ==
    \A o \in Bases :
        \A g \in (ServicesAt(o, owner[o]) \cup (IF o \in spawned THEN Defences(o) ELSE {}))
                 \ (Queued(q) \cup unspawned) : Alive(g, dead) \subseteq dcs

\* And what is to be gone is gone then: the defences of a base that was culled, and every
\* group the campaign has deleted, unless a spawn that was waiting swallowed the despawn.
CulledIsGone ==
    \A g \in ((UNION {Defences(o) : o \in culled}) \cup (Groups \ groups))
             \ (Queued(q) \cup undespawned) : UnitsOf[g] \cap dcs = {}

\* The objectives are a territory that changes hands as it should (and this is checked of
\* FairSpec: the capture that is due is tried again until it is done).
Ground == INSTANCE Territory WITH
    Squads <- Troops, Allegiance <- SideOf,
    owner <- [o \in Bases |-> owner[o]],
    standing <- {o \in Bases : logi[o] > 0},
    inside <- [o \in Bases |-> Inside(o)]

IsTerritory == Ground!Spec

\* Left alone, whatever still has logistics is repaired to the last unit.
RepairsFinish == <>[](\A o \in exists : logi[o] > 0 => health[o] = 100)
=============================================================================
