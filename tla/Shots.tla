------------------------------- MODULE Shots -------------------------------
(***************************************************************************)
(* Who killed whom: the shots and hits DCS reports are kept by target until *)
(* the target is dead, and at the next slow tick its killers are paid.     *)
(* DCS reports a death more than once (hit, kill, dead, unit lost, pilot    *)
(* dead), in any order with the hits, before and after that tick.          *)
(*                                                                         *)
(* A unit is one DCS object: what is born later is another.  Minutes are   *)
(* counted coarsely, and a team kill is counted, its penalty left out.  A  *)
(* restart of the mission, which forgets all shots and deaths, is not      *)
(* modelled.                                                               *)
(***************************************************************************)
EXTENDS Integers, Sequences, FiniteSets

CONSTANTS Units, Players, NoOne,
          Owner,          \* [unit -> who flies or deployed it, or NoOne]
          Flown,          \* units that are flown by their owner; the others are AI
          SideOf, GroupOf,\* [unit -> side], [unit -> group]
          Total,          \* points for a kill
          Provisional,    \* are a pilot's points provisional?
          Recent, Grave, Keep, \* three, five, thirty minutes
          Targets,        \* bound: units that are shot at and die
          MaxTime, MaxShots    \* bounds

ASSUME ShotsConstants ==
    /\ NoOne \notin Players
    /\ Owner \in [Units -> Players \cup {NoOne}]
    /\ Flown \subseteq Units /\ \A u \in Flown : Owner[u] # NoOne
    /\ Targets \subseteq Units /\ Total \in Nat /\ Provisional \in BOOLEAN
    /\ Recent \in Nat /\ Grave \in Nat /\ Keep \in Nat
    /\ MaxTime \in Nat /\ MaxShots \in Nat

VARIABLES alive,         \* the world: units that live
          bailed,        \* history: units whose pilot ejected, died, or left them in the air
          known,         \* units the indices of the campaign know
          by_target,     \* [unit -> shots at it]
          dead,          \* [unit -> the time of its death], Never if it is not in the map
          recently_dead, \* the same, of those paid for
          last_gc, now,
          awards,        \* history: [unit -> what was paid for it, in order]
          shots          \* count, for the bound

memory == <<by_target, dead, recently_dead, last_gc>>
shots_vars == <<alive, bailed, known, memory, now, awards, shots>>

Never == -1
Shot == [shooter : Units, time : 0..MaxTime, hit : BOOLEAN]
None == [u \in Units |-> Never]

ShotsInit ==
    /\ alive = Units /\ known = Units /\ bailed = {}
    /\ by_target = [u \in Units |-> {}] /\ dead = None /\ recently_dead = None
    /\ last_gc = 0 /\ now = 0 /\ awards = [u \in Units |-> <<>>] /\ shots = 0

---------------------------------------------------------------------------
(* Events.                                                                 *)

Gone(t) == dead[t] # Never \/ recently_dead[t] # Never

\* What shot and hit write down: nothing for the dead, or if either unit is not known.
record(s, t, hit) ==
    IF Gone(t) \/ ~({s, t} \subseteq known) THEN by_target
    ELSE [by_target EXCEPT ![t] = @ \cup {[shooter |-> s, time |-> now, hit |-> hit]}]

Fire(s, t) ==
    /\ shots < MaxShots /\ shots' = shots + 1
    /\ s # t /\ s \in alive
    /\ by_target' = record(s, t, FALSE)
    /\ UNCHANGED <<alive, bailed, known, dead, recently_dead, last_gc, now, awards>>

\* Mutant of WithDead: a later report moves the death.
WithDeadMoved(t) == [dead EXCEPT ![t] = now]

\* ShotDb::dead keeps the first time.
WithDead(t) == IF dead[t] = Never THEN [dead EXCEPT ![t] = now] ELSE dead

\* unit_dead takes it out of the indices.
Forgotten(t) == known \ {t}

\* A hit that leaves no life is also the report of a death; wrecks are hit as well.
Hit(s, t, lethal) ==
    /\ shots < MaxShots /\ shots' = shots + 1
    /\ s # t /\ (t \notin alive => lethal)
    /\ by_target' = record(s, t, TRUE)
    /\ IF lethal
       THEN alive' = alive \ {t} /\ dead' = WithDead(t) /\ known' = Forgotten(t)
       ELSE UNCHANGED <<alive, dead, known>>
    /\ UNCHANGED <<bailed, recently_dead, last_gc, now, awards>>

\* It dies of something else: of a crash, or of what hit it before.
Crash(t) ==
    /\ t \in alive /\ alive' = alive \ {t}
    /\ UNCHANGED <<bailed, known, memory, now, awards, shots>>

\* Ejection or the death of the pilot is unit_killed as well, whether the aircraft is lost
\* with it or not, in the air or on the ground, flown or AI.
Abandoned(t) ==
    /\ t \in alive /\ bailed' = bailed \cup {t}
    /\ dead' = WithDead(t) /\ known' = Forgotten(t)
    /\ UNCHANGED <<alive, by_target, recently_dead, last_gc, now, awards, shots>>

\* Kill, dead, unit lost, and again pilot dead or ejection, at any time after.
ReportDead(t) ==
    /\ t \notin alive
    /\ dead' = WithDead(t) /\ known' = Forgotten(t)
    /\ UNCHANGED <<alive, bailed, by_target, recently_dead, last_gc, now, awards, shots>>

\* Mutant of LeaveUnit: it does not look where he has landed.
LeaveUnitAnywhere(t, landed) ==
    /\ t \in Flown \cap known /\ known' = Forgotten(t) /\ dead' = WithDead(t)
    /\ bailed' = IF landed THEN bailed ELSE bailed \cup {t}
    /\ UNCHANGED <<alive, by_target, recently_dead, last_gc, now, awards, shots>>

\* A pilot leaves his aircraft: dead, unless he has landed at an objective.
LeaveUnit(t, landed) ==
    /\ t \in Flown \cap known /\ known' = Forgotten(t)
    /\ IF landed THEN UNCHANGED <<dead, bailed>>
       ELSE dead' = WithDead(t) /\ bailed' = bailed \cup {t}
    /\ UNCHANGED <<alive, by_target, recently_dead, last_gc, now, awards, shots>>

\* A group is despawned.
Despawn(t) ==
    /\ t \in known \ Flown /\ known' = known \ {t} /\ alive' = alive \ {t}
    /\ UNCHANGED <<bailed, memory, now, awards, shots>>

---------------------------------------------------------------------------
(* The slow tick.                                                          *)

\* Whose shots count: not those at one's own.
Valid(s, t) ==
    IF s \in Flown THEN Owner[s] # Owner[t]
    ELSE IF t \in Flown
         THEN Owner[s] = NoOne \/ (Owner[s] # Owner[t] /\ SideOf[s] # SideOf[t])
         ELSE GroupOf[s] # GroupOf[t]

Key(s) == <<Owner[s], Provisional /\ s \in Flown>>
ValidShots(t) == {x \in by_target[t] : Valid(x.shooter, t) /\ Owner[x.shooter] # NoOne}

\* Who is paid: who hit it, or if nobody did who has just shot at it.
HitBy(t) ==
    LET hits == {x \in ValidShots(t) : x.hit}
        last == {x \in ValidShots(t) : dead[t] - x.time <= Recent}
    IN  {Key(x.shooter) : x \in IF hits # {} THEN hits ELSE last}

\* A share is rounded up.
Share(n) == (Total + n - 1) \div n

\* Mutant of Drained: who died since the last minute waits for a later tick.
DrainedLater == {t \in Units : dead[t] # Never /\ dead[t] < now}

Drained == {t \in Units : dead[t] # Never}

\* Mutant of ByTargetAfter: the shots at the dead are kept.
ByTargetAfterKept(gc) ==
    [t \in Units |-> IF gc THEN {x \in by_target[t] : now - x.time <= Keep} ELSE by_target[t]]

\* Mutant of ByTargetAfter: the wrong shots go.
ByTargetAfterYoung(gc) ==
    [t \in Units |-> IF t \in Drained THEN {}
                     ELSE IF gc THEN {x \in by_target[t] : now - x.time > Keep}
                     ELSE by_target[t]]

\* The shots at the dead are taken; every half hour the old ones go.
ByTargetAfter(gc) ==
    [t \in Units |-> IF t \in Drained THEN {}
                     ELSE IF gc THEN {x \in by_target[t] : now - x.time <= Keep}
                     ELSE by_target[t]]

Paid(t) == Append(awards[t], [to |-> HitBy(t), share |-> Share(Cardinality(HitBy(t)))])

\* bring_out_your_dead, and award_kill_points for each of them.
SlowTick ==
    LET gc == now - last_gc >= Keep
        buried == [t \in Units |-> IF t \in Drained THEN dead[t] ELSE recently_dead[t]]
    IN  /\ \/ Drained # {} \/ gc
           \/ \E t \in Units : recently_dead[t] # Never /\ now - recently_dead[t] > Grave
        /\ awards' = [t \in Units |->
                        IF t \in Drained /\ HitBy(t) # {} THEN Paid(t) ELSE awards[t]]
        /\ by_target' = ByTargetAfter(gc) /\ dead' = None
        /\ recently_dead' = [t \in Units |-> IF now - buried[t] <= Grave THEN buried[t] ELSE Never]
        /\ last_gc' = IF gc THEN now ELSE last_gc
        /\ UNCHANGED <<alive, bailed, known, now, shots>>

Pass ==
    /\ now < MaxTime /\ now' = now + 1
    /\ UNCHANGED <<alive, bailed, known, memory, awards, shots>>

ShotsNext ==
    \/ \E s \in Units, t \in Targets : Fire(s, t) \/ \E lethal \in BOOLEAN : Hit(s, t, lethal)
    \/ \E t \in Targets : Crash(t) \/ Abandoned(t) \/ ReportDead(t) \/ Despawn(t)
    \/ \E t \in Targets, landed \in BOOLEAN : LeaveUnit(t, landed)
    \/ SlowTick \/ Pass

\* The slow tick comes back.
ShotsSpec == ShotsInit /\ [][ShotsNext]_shots_vars /\ WF_shots_vars(SlowTick)

---------------------------------------------------------------------------
(* Properties.                                                             *)

\* Every variable has its type.
TypeOK ==
    /\ alive \subseteq Units /\ bailed \subseteq Units /\ known \subseteq Units
    /\ by_target \in [Units -> SUBSET Shot]
    /\ dead \in [Units -> {Never} \cup 0..MaxTime]
    /\ recently_dead \in [Units -> {Never} \cup 0..MaxTime]
    /\ last_gc \in 0..MaxTime /\ now \in 0..MaxTime /\ shots \in 0..MaxShots
    /\ awards \in [Units -> Seq([to : SUBSET ((Players \cup {NoOne}) \X BOOLEAN), share : Nat])]

\* However often and however late its death is reported, and whoever shoots at the wreck, a
\* unit is paid for once, and nothing is left that could be paid for again.
CreditedOnce ==
    \A t \in Units : /\ Len(awards[t]) <= 1
                     /\ awards[t] # <<>> => by_target[t] = {} /\ t \notin known

\* Nobody is paid for a unit that lives, unless its pilot ejected, died, or left it in the
\* air: a pilot who has landed and walks away is no kill.
OnlyTheFallen == \A t \in Units : awards[t] # <<>> => t \notin alive \/ t \in bailed

\* The shares of a kill add up to its points, and to less than a point more for each share.
PaidInFull ==
    \A t \in Units : \A i \in 1..Len(awards[t]) :
        LET n == Cardinality(awards[t][i].to)
        IN  Total <= n * awards[t][i].share /\ n * awards[t][i].share < Total + n

\* Between a death and the tick that pays for it who is to be paid does not change: no report
\* moves the death past the last shots, no late hit takes it from them.
KillersAreSettled ==
    [][\A t \in Units : dead[t] # Never /\ dead'[t] # Never => HitBy(t)' = HitBy(t)]_shots_vars

\* A shot at what is not dead is kept for its half hour.
YoungShotsStay ==
    [][\A t \in Units : dead[t] = Never =>
          {x \in by_target[t] : now - x.time <= Keep} \subseteq by_target'[t]]_shots_vars

\* Whoever is to be paid for a death is paid in the end.
KillersArePaid ==
    \A t \in Units : dead[t] # Never /\ HitBy(t) # {} ~> awards[t] # <<>>
=============================================================================
