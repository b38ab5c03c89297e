------------------------------ MODULE Sortie ------------------------------
(***************************************************************************)
(* Sorties: the lives and points a pilot stakes when he takes off and gets *)
(* back when he has landed.  DCS reports take-offs and landings, some of   *)
(* them late or twice; a landing is judged by the slow timer ten seconds   *)
(* later, against where the aircraft is and who owns the ground by then.   *)
(*                                                                         *)
(* All pilots are of one side.  A unit is one aircraft from birth to end;  *)
(* its pilot, airframe and the value of what it carries are the world's,   *)
(* the rest the program's.  Slots models how a unit gets its pilot; here   *)
(* the program knows him as long as the unit lives.                        *)
(***************************************************************************)
EXTENDS Integers, FiniteSetsExt

CONSTANTS Players, Units, Bases,
          Field,        \* ground that belongs to no objective
          Air, Nowhere, \* where a unit is that flies, that is not
          None,         \* nobody, no life type
          Full,         \* no entry in Player.lives: all of them
          NTypes,       \* life types 1..NTypes, in the order of LifeType.up
          Lives,        \* default_lives, the same for every type
          Airframe,     \* airframe_cost
          Weapons,      \* the value of a full load of weapons
          Balance,      \* the points everybody starts with
          Limited, Strict, Provisional, \* limited_lives, points.strict, points.provisional
          MaxFlights,   \* bound: take-offs
          MaxRare       \* bound: kills, lives reset, captures, rearmings and restarts

ASSUME ConstantsOK ==
    /\ {NTypes, Lives, Airframe, Weapons, Balance, MaxFlights, MaxRare} \subseteq Nat
    /\ NTypes > 0 /\ Lives > 0 /\ IsFiniteSet(Units)
    /\ {Limited, Strict, Provisional} \subseteq BOOLEAN
    /\ Full \notin Nat /\ None \notin Nat \cup Players
    /\ {Field, Air, Nowhere} \cap Bases = {}
    /\ Field # Air /\ Field # Nowhere /\ Air # Nowhere

Types == 1..NTypes
Ground == Bases \cup {Field}

VARIABLES unit,       \* the world: who flies what, where it is, what it is worth
          held,       \* the world: the objectives the pilots' side owns
          born,       \* recently_born
          airborne,   \* Context.airborne
          landed,     \* recently_landed
          due,        \* those of them that landed ten seconds ago
          lives,      \* Player.lives
          staked,     \* Player.airborne
          points,     \* Player.points
          prov,       \* Player.provisional_points
          bank,       \* Objective.points
          share,      \* InstancedPlayer.cost_fraction, as a ratio
          life,       \* history: lives a unit holds, lives it gave back without holding one
          paid,       \* history: what is left of the charge for its flight
          free,       \* history: what came aboard for its flight that nobody was charged for
          dry,        \* history: units whose take-off took no life
          flights, rare, \* counts, for the bounds
          up          \* the mission runs

world == <<unit, held>>
ctx == <<born, airborne, landed, due>>
db == <<lives, staked, points, prov, bank, share>>
history == <<life, paid, free, dry>>
vars == <<unit, held, born, airborne, landed, due, lives, staked, points, prov, bank, share,
          life, paid, free, dry, flights, rare, up>>

Alive(u) == unit[u].place # Nowhere
Pilot(u) == unit[u].pilot
Type(u) == unit[u].type
\* What an aircraft is worth: the airframe and the weapons aboard at the time.
Cost(u) == Airframe + unit[u].load
\* compute_flight_cost: what DCS has aboard is asked for if weapons have prices; if that
\* fails the aircraft counts as worth nothing, whatever points.strict says.
Prices(u) == {[cost |-> Cost(u), strict |-> Strict]}
             \cup (IF Weapons > 0 THEN {[cost |-> 0, strict |-> FALSE]} ELSE {})
Flies(p) == \E u \in Units : Alive(u) /\ Pilot(u) = p

Init ==
    /\ unit = [u \in Units |-> [pilot |-> None, type |-> 1, load |-> 0, place |-> Nowhere]]
    /\ held = Bases
    /\ born = {} /\ airborne = {} /\ landed = {} /\ due = {}
    /\ lives = [p \in Players |-> [t \in Types |-> Full]]
    /\ staked = [p \in Players |-> None]
    /\ points = [p \in Players |-> Balance] /\ prov = [p \in Players |-> 0]
    /\ bank = [b \in Bases |-> Balance]
    /\ share = [u \in Units |-> <<1, 1>>]
    /\ life = [u \in Units |-> [out |-> 0, gifts |-> 0]]
    /\ paid = [u \in Units |-> [pilot |-> 0, base |-> 0]]
    /\ free = [u \in Units |-> 0]
    /\ dry = {} /\ flights = 0 /\ rare = 0 /\ up = TRUE

Rare == up /\ rare < MaxRare /\ rare' = rare + 1

-----------------------------------------------------------------------------
(* Births *)

\* The slot's objective is owned, the balance covers the airframe and there is a life
\* left; the aircraft is then born there (try_occupy_slot_deferred, player_entered_slot).
Born(u, p, t, b) ==
    /\ up /\ unit[u].pilot = None /\ ~Flies(p)
    /\ b \in held /\ lives[p][t] # 0
    /\ Airframe > 0 => points[p] + bank[b] >= Airframe
    /\ \E w \in 0..Weapons :
         unit' = [unit EXCEPT ![u] = [pilot |-> p, type |-> t, load |-> w, place |-> b]]
    /\ born' = born \cup {u}
    /\ share' = [share EXCEPT ![u] = <<1, 1>>]
    /\ prov' = [prov EXCEPT ![p] = 0]
    /\ UNCHANGED <<held, airborne, landed, due, lives, staked, points, bank, history,
                   flights, rare, up>>

-----------------------------------------------------------------------------
(* Take-offs *)

Opened(p, t) == IF lives[p][t] = Full THEN Lives ELSE lives[p][t]

\* charge_for_item: what of a cost the pilot pays; the objective pays the rest.
PilotPays(p, cost) ==
    CASE points[p] <= 0 -> 0
      [] 0 < points[p] /\ points[p] < cost -> points[p]
      [] OTHER -> cost

\* Mutant of Share: the pilot's part is not remembered.
ShareForgotten(own, cost) == <<1, 1>>

Share(own, cost) == <<own, cost>>

\* charge_for_item: nothing is asked for nothing.
Charged(u, b, cost) ==
    LET p == Pilot(u)  own == PilotPays(p, cost)
    IN  /\ points' = [points EXCEPT ![p] = @ - own]
        /\ bank' = [bank EXCEPT ![b] = @ - (cost - own)]
        /\ share' = IF cost = 0 THEN share ELSE [share EXCEPT ![u] = Share(own, cost)]
        /\ paid' = [paid EXCEPT ![u] = [pilot |-> own, base |-> cost - own]]
        /\ free' = [free EXCEPT ![u] = Cost(u) - cost]

NotCharged(u) ==
    /\ paid' = [paid EXCEPT ![u] = [pilot |-> 0, base |-> 0]]
    /\ free' = [free EXCEPT ![u] = Cost(u)]
    /\ UNCHANGED <<points, bank, share>>

\* Db::takeoff, of a unit at a place, at a cost.
TakesLife(u, place, cost) ==
    LET p == Pilot(u)  t == Type(u)
    IN  /\ lives' = [lives EXCEPT ![p][t] = Opened(p, t) - 1]
        /\ staked' = [staked EXCEPT ![p] = t]
        /\ life' = [life EXCEPT ![u].out = @ + 1]
        /\ Charged(u, place, cost)
        /\ UNCHANGED dry

\* Owned ground, no lives to take: only the pilot is noted, and the cost charged if there
\* is an objective to share it.
TakesNoLife(u, place, cost) ==
    LET p == Pilot(u)  t == Type(u)
    IN  /\ lives' = [lives EXCEPT ![p][t] = Opened(p, t)]
        /\ staked' = IF Limited THEN staked ELSE [staked EXCEPT ![p] = t]
        /\ UNCHANGED life
        /\ IF place \in held THEN Charged(u, place, cost) /\ UNCHANGED dry
           ELSE NotCharged(u) /\ dry' = dry \cup {u}

\* Out of points, or of lives: the unit is to be destroyed, which DCS may fail to do.
Refused(u) ==
    LET p == Pilot(u)  t == Type(u)
    IN  /\ lives' = [lives EXCEPT ![p][t] = Opened(p, t)]
        /\ dry' = dry \cup {u}
        /\ NotCharged(u)
        /\ UNCHANGED <<staked, life>>

OutOfPoints(u, place, price) ==
    /\ price.strict
    /\ price.cost > Max({0, points[Pilot(u)]}) + (IF place \in held THEN bank[place] ELSE 0)

OutOfLives(u, place) ==
    Limited /\ place \in held /\ Opened(Pilot(u), Type(u)) = 0

DbTakeoff(u, place) ==
    \E price \in Prices(u) :
        IF OutOfPoints(u, place, price) \/ OutOfLives(u, place) THEN Refused(u)
        ELSE IF Limited /\ place \in held THEN TakesLife(u, place, price.cost)
        ELSE TakesNoLife(u, place, price.cost)

\* Mutant of GoesOn: a landing not judged yet does not matter to the next take-off.
GoesOnNever(u) == FALSE

\* The unit had landed, the landing was not judged yet: it goes on with the life it had.
GoesOn(u) == u \in landed

\* Event::Takeoff: ignored just after birth and while airborne.
TakeoffEvent(u, place) ==
    IF u \in born \/ u \in airborne THEN UNCHANGED <<ctx, db, history>>
    ELSE /\ airborne' = airborne \cup {u}
         /\ landed' = landed \ {u} /\ due' = due \ {u}
         /\ IF GoesOn(u) THEN UNCHANGED <<db, history>>
            ELSE DbTakeoff(u, place) /\ UNCHANGED prov
         /\ UNCHANGED born

LiftOff(u) ==
    /\ up /\ unit[u].place \in Ground /\ flights < MaxFlights
    /\ flights' = flights + 1
    /\ unit' = [unit EXCEPT ![u].place = Air]
    /\ TakeoffEvent(u, unit[u].place)
    /\ UNCHANGED <<held, rare, up>>

\* Event::PostponedTakeoff, or Takeoff again, wherever the unit is by then.
LateTakeoff(u) ==
    /\ up /\ unit[u].place = Air
    /\ \E place \in Ground : TakeoffEvent(u, place)
    /\ UNCHANGED <<world, flights, rare, up>>

-----------------------------------------------------------------------------
(* Landings *)

\* Event::Land; a second report finds the unit no longer airborne.
TouchDown(u, place) ==
    /\ up /\ unit[u].place = Air
    /\ unit' = [unit EXCEPT ![u].place = place]
    /\ IF u \notin born /\ u \in airborne
       THEN /\ airborne' = airborne \ {u}
            /\ landed' = landed \cup {u} /\ due' = due \ {u}
       ELSE UNCHANGED <<airborne, landed, due>>
    /\ UNCHANGED <<held, born, db, history, flights, rare, up>>

TenSeconds(u) ==
    /\ up /\ u \in landed \ due
    /\ due' = due \cup {u}
    /\ UNCHANGED <<world, born, airborne, landed, db, history, flights, rare, up>>

\* f32::round of n/d: halves away from zero.
Rounded(n, d) == (2 * n + d) \div (2 * d)

\* refund_points, of what is aboard by now: the pilot's and the objective's parts.
Refund(u) == Rounded(Cost(u) * share[u][1], share[u][2])
RefundToBase(u) == Rounded(Cost(u) * (share[u][2] - share[u][1]), share[u][2])

\* land gives back what the flight of u staked.
CanSettle(u) == Alive(u) /\ unit[u].place \in held /\ lives[Pilot(u)][Type(u)] # Full

SettledLives(us) ==
    [p \in Players |-> [t \in Types |->
        IF \E u \in us : Pilot(u) = p /\ Type(u) = t
        THEN IF lives[p][t] + 1 >= Lives THEN Full ELSE lives[p][t] + 1
        ELSE lives[p][t]]]

\* Mutant of Over: a landing is judged once.
OverAtOnce(us) == us

\* What return_lives drops: units that are gone and, when lives are limited, those that
\* settled.  The others are judged again.
Over(us) == {u \in us : ~Alive(u) \/ (Limited /\ CanSettle(u))}

\* return_lives, of the landings us: lives and points come back to those that settle; no
\* points of those whose cost cannot be computed any more (mute).
Judged(us) ==
    LET settled == {u \in us : CanSettle(u)}
        theirs(p) == {u \in settled : Pilot(u) = p}
    IN  /\ \E mute \in SUBSET IF Weapons > 0 THEN settled ELSE {} :
             /\ points' = [p \in Players |->
                   points[p] + (IF Provisional /\ theirs(p) # {} THEN prov[p] ELSE 0)
                             + MapThenSumSet(Refund, theirs(p) \ mute)]
             /\ bank' = [b \in Bases |-> bank[b] + MapThenSumSet(RefundToBase,
                   {u \in settled \ mute : unit[u].place = b})]
             /\ paid' = [u \in Units |-> IF u \in settled \ mute
                                         THEN [pilot |-> paid[u].pilot - Refund(u),
                                               base |-> paid[u].base - RefundToBase(u)]
                                         ELSE paid[u]]
        /\ lives' = SettledLives(settled)
        /\ staked' = [p \in Players |-> IF theirs(p) # {} THEN None ELSE staked[p]]
        /\ prov' = [p \in Players |-> IF theirs(p) # {} THEN 0 ELSE prov[p]]
        /\ life' = [u \in Units |->
              CASE u \notin settled -> life[u]
                [] u \in settled /\ life[u].out > 0 -> [life[u] EXCEPT !.out = @ - 1]
                [] OTHER -> [life[u] EXCEPT !.gifts = @ + 1]]
        /\ landed' = landed \ Over(us) /\ due' = due \ Over(us)
        /\ UNCHANGED <<airborne, share, free, dry>>

\* run_slow_timed_events: return_lives, then recently_born forgets whoever was born five
\* seconds ago.
SlowTick ==
    /\ up
    /\ Judged(due)
    /\ born' \in SUBSET born
    /\ UNCHANGED <<world, flights, rare, up>>

-----------------------------------------------------------------------------
(* Ends *)

Gone(u) == unit' = [unit EXCEPT ![u].place = Nowhere]

\* unit_killed: the landing is forgotten; the pilot's record is not touched, since
\* unit_dead does not find the player (Slots).  An aircraft whose pilot ejected is taken to
\* be gone at once: nobody is in it any more to take off, land or settle.
Lost(u) ==
    /\ up /\ Alive(u)
    /\ Gone(u)
    /\ landed' = landed \ {u} /\ due' = due \ {u}
    /\ UNCHANGED <<held, born, airborne, db, history, flights, rare, up>>

\* player_deslot: the pilot has left the aircraft, or the server.
Quit(p) ==
    /\ up
    /\ \/ \E u \in Units : Alive(u) /\ Pilot(u) = p /\ Gone(u)
       \/ ~Flies(p) /\ UNCHANGED unit
    /\ staked' = [staked EXCEPT ![p] = None]
    /\ prov' = [prov EXCEPT ![p] = 0]
    /\ UNCHANGED <<held, ctx, lives, points, bank, share, history, flights, rare, up>>

-----------------------------------------------------------------------------
(* What else happens to lives and points *)

\* A weapon is gone.
Fire(u) ==
    /\ up /\ unit[u].place = Air /\ unit[u].load > 0
    /\ unit' = [unit EXCEPT ![u].load = @ - 1]
    /\ UNCHANGED <<held, ctx, db, history, flights, rare, up>>

\* The ground crew loads or unloads weapons, also while a landing is not judged yet.
Rearm(u) ==
    /\ Rare /\ unit[u].place \in Ground
    /\ \E w \in (0..Weapons) \ {unit[u].load} :
          /\ unit' = [unit EXCEPT ![u].load = w]
          /\ free' = [free EXCEPT ![u] = @ + Max({0, w - unit[u].load})]
    /\ UNCHANGED <<held, ctx, db, life, paid, dry, flights, up>>

\* award_kill_points, an enemy.
Kill(p) ==
    /\ Rare
    /\ IF Provisional THEN prov' = [prov EXCEPT ![p] = @ + 1] /\ UNCHANGED points
       ELSE points' = [points EXCEPT ![p] = @ + 1] /\ UNCHANGED prov
    /\ UNCHANGED <<world, ctx, lives, staked, bank, share, history, flights, up>>

\* apply_teamkill_penalty, of a pilot noted as airborne with a life of type t: n lives,
\* of type t as long as there are any, then of the types above it.
Below(p, t, i) == MapThenSumSet(LAMBDA j : Opened(p, j), t..(i - 1))

Penalised(p, t, n) ==
    [i \in Types |->
        IF i < t \/ (i > t /\ Below(p, t, i) >= n) THEN lives[p][i]
        ELSE Max({0, Opened(p, i) - (n - Below(p, t, i))})]

TeamKill(p) ==
    /\ Rare
    /\ points' = [points EXCEPT ![p] = @ - 1]
    /\ \E q \in Players \ {p}, n \in 1..2 :
          lives' = IF staked[q] = None THEN lives
                   ELSE [lives EXCEPT ![p] = Penalised(p, staked[q], n)]
    /\ UNCHANGED <<world, ctx, staked, prov, bank, share, history, flights, up>>

\* An admin resets all lives of a player, or maybe_reset_lives (a slot request, -lives)
\* those whose time has come.
ResetLives(p) ==
    /\ Rare
    /\ \E ts \in SUBSET Types :
          lives' = [lives EXCEPT ![p] = [t \in Types |-> IF t \in ts THEN Full ELSE @[t]]]
    /\ UNCHANGED <<world, ctx, staked, points, prov, bank, share, history, flights, up>>

\* An objective changes hands.
Capture(b) ==
    /\ Rare
    /\ held' = IF b \in held THEN held \ {b} ELSE held \cup {b}
    /\ UNCHANGED <<unit, ctx, db, history, flights, up>>

-----------------------------------------------------------------------------
(* Restarts *)

\* admin_shutdown judges every landing, whatever its age.
Shutdown ==
    /\ Rare
    /\ Judged(landed) /\ up' = FALSE
    /\ UNCHANGED <<world, born, flights>>

\* The mission ends, or the server is killed.
MissionEnd ==
    /\ Rare
    /\ up' = FALSE
    /\ UNCHANGED <<world, ctx, db, history, flights>>

\* Mutant of LivesBack: pilots keep the note that they were airborne.
LivesBackAgain ==
    /\ lives' = [p \in Players |-> [t \in Types |->
          IF staked[p] # t \/ lives[p][t] = Full THEN lives[p][t]
          ELSE IF lives[p][t] + 1 >= Lives THEN Full ELSE lives[p][t] + 1]]
    /\ UNCHANGED staked

\* respawn_after_load: the lives of those noted as airborne.
LivesBack ==
    /\ lives' = [p \in Players |-> [t \in Types |->
          IF staked[p] # t \/ lives[p][t] = Full THEN lives[p][t]
          ELSE IF lives[p][t] + 1 >= Lives THEN Full ELSE lives[p][t] + 1]]
    /\ staked' = [p \in Players |-> None]

\* The campaign is loaded as it was (saved just before): no unit, no provisional points.
Load ==
    /\ ~up /\ up' = TRUE
    /\ unit' = [u \in Units |-> [unit[u] EXCEPT !.place = Nowhere]]
    /\ born' = {} /\ airborne' = {} /\ landed' = {} /\ due' = {}
    /\ LivesBack
    /\ prov' = [p \in Players |-> 0]
    /\ life' = [u \in Units |-> [life[u] EXCEPT !.out = 0]]
    /\ UNCHANGED <<held, points, bank, share, paid, free, dry, flights, rare>>

-----------------------------------------------------------------------------
Next ==
    \/ \E u \in Units, p \in Players, t \in Types, b \in Bases : Born(u, p, t, b)
    \/ \E u \in Units : LiftOff(u) \/ LateTakeoff(u) \/ TenSeconds(u) \/ Lost(u)
    \/ \E u \in Units : Fire(u) \/ Rearm(u)
    \/ \E u \in Units, place \in Ground : TouchDown(u, place)
    \/ \E p \in Players : Quit(p) \/ Kill(p) \/ TeamKill(p) \/ ResetLives(p)
    \/ \E b \in Bases : Capture(b)
    \/ SlowTick \/ Shutdown \/ MissionEnd \/ Load

Spec == Init /\ [][Next]_vars

\* The timer runs every second and time passes.
Fairness == WF_vars(SlowTick) /\ \A u \in Units : WF_vars(TenSeconds(u))

FairSpec == Spec /\ Fairness

-----------------------------------------------------------------------------
(* What it promises *)

\* A unit never holds more than one of its pilot's lives, however its take-offs and
\* landings are reported and judged, and gives none back it did not take; except one that
\* took off from ground its side did not own, or that was to be destroyed.
OneLifePerFlight ==
    Limited => \A u \in Units : life[u].out <= 1 /\ (life[u].gifts > 0 => u \in dry)

\* A pilot noted as airborne has a life of that type out with one of his flights: what a
\* restart gives back was not given back by a landing.
StakeIsOwed ==
    Limited => \A p \in Players : staked[p] # None =>
        \E u \in Units : Pilot(u) = p /\ Type(u) = staked[p] /\ life[u].out > 0

\* A refund exceeds what was charged for the flight by at most the value that came aboard
\* uncharged: by rearming before the landing is judged, or because the flight was let off or
\* its cost could not be computed.  That holds of the pilot, of the objectives, and of both
\* together up to the one point that rounding their parts separately may add.
RefundWithinCharge ==
    Limited => \A u \in Units :
        /\ paid[u].pilot + free[u] >= 0 /\ paid[u].base + free[u] >= 0
        /\ paid[u].pilot + paid[u].base + free[u] >= -1

\* A pilot who waits at an objective of his side's gets the life of his flight back, or
\* all of them are reset.
Waits(u) == up /\ CanSettle(u) /\ life[u].out > 0

LandingIsSettled == \A u \in Units : Waits(u) ~> ~Waits(u)

=============================================================================
