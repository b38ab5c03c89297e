------------------------------- MODULE Cargo --------------------------------
(***************************************************************************)
(* Troops and crates carried by helicopters, db/cargo.rs, and who pays for *)
(* the troops, db/player.rs charge_for_item and refund_points.             *)
(*                                                                         *)
(* Every pilot flies for one side.  What is near him is what is at his     *)
(* place; which of it the handler finds first, and whether enemies keep    *)
(* him from unloading, is left open.  Not here: unpacking crates, troops   *)
(* dropped by a paratroop mission, which nobody loaded, and the half       *)
(* refund of -delete.                                                      *)
(***************************************************************************)
EXTENDS Integers, Sequences, FiniteSets, Folds

CONSTANTS
    Pilots, Bases, Field,       \* places: friendly logistics, and elsewhere
    Kinds, Cost, Limit, Denied, \* kinds of troops; Denied: limit_enforce = DenyCrate
    TroopSlots, CrateSlots, TotalSlots,  \* CargoConfig
    MaxCrates,                  \* cfg.max_crates
    Balance, Stock,             \* points of a pilot and of a base at first
    MaxGroups, MaxEvents        \* bounds: groups put on the ground, mishaps

ASSUME CargoAssumption ==
    /\ IsFiniteSet(Pilots) /\ IsFiniteSet(Bases)
    /\ Field \notin Bases \union Pilots
    /\ Cost \in [Kinds -> Nat] /\ Limit \in [Kinds -> Nat \ {0}] /\ Denied \subseteq Kinds
    /\ TroopSlots \in Nat /\ CrateSlots \in Nat /\ TotalSlots \in Nat
    /\ MaxCrates \in Nat /\ Balance \in Nat /\ Stock \in Nat
    /\ MaxGroups \in Nat /\ MaxEvents \in Nat

VARIABLES
    place, flying,   \* DCS: where the pilots are
    bases,           \* objectives that have not been deleted
    up,              \* those whose logistics stands
    points, stock,   \* Player.points, Objective.points
    aboard, slung,   \* ephemeral.cargo: troops and crates of a pilot
    troops, crates,  \* persisted.troops and crates, by group id
    next,            \* GroupId::new
    earned, events   \* points from elsewhere; mishaps so far

pilots == <<place, flying>>
ground == <<bases, up>>
accounts == <<points, stock>>
loads == <<aboard, slung>>
groups == <<troops, crates, next>>
vars == <<pilots, ground, accounts, loads, groups, earned, events>>

Init ==
    /\ place \in [Pilots -> Bases] /\ flying = [p \in Pilots |-> FALSE]
    /\ bases = Bases /\ up = Bases
    /\ points = [p \in Pilots |-> Balance] /\ stock = [b \in Bases |-> Stock]
    /\ aboard = [p \in Pilots |-> <<>>] /\ slung = [p \in Pilots |-> <<>>]
    /\ troops = <<>> /\ crates = <<>> /\ next = 1
    /\ earned = [p \in Pilots |-> 0] /\ events = 0

Least(a, b) == IF a < b THEN a ELSE b
First(S) == CHOOSE g \in S : \A h \in S : g <= h
Without(f, S) == [g \in DOMAIN f \ S |-> f[g]]
With(f, g, x) == [h \in DOMAIN f \union {g} |-> IF h = g THEN x ELSE f[h]]
Last(s) == s[Len(s)]
Popped(s) == SubSeq(s, 1, Len(s) - 1)

point_near_logistics(p) == place[p] \in bases \intersect up

-----------------------------------------------------------------------------
(* Paying.  A pilot with too few points pays what he has, the base the      *)
(* rest; the fraction the pilot paid is kept with the troop.                *)

PilotPays(p, cost) ==
    IF points[p] <= 0 THEN 0 ELSE Least(points[p], cost)

(* A plausible bug: the fraction is taken of what is left to pay. *)
FractionOfRest(p, cost) ==
    IF points[p] <= 0 THEN <<0, 1>>
    ELSE IF points[p] < cost THEN <<points[p], cost - points[p]>>
    ELSE <<1, 1>>

Fraction(p, cost) ==
    IF points[p] <= 0 THEN <<0, 1>>
    ELSE IF points[p] < cost THEN <<points[p], cost>>
    ELSE <<1, 1>>

charge_for_item(p, b, cost) ==
    /\ points' = [points EXCEPT ![p] = @ - PilotPays(p, cost)]
    /\ stock' = [stock EXCEPT ![b] = @ - (cost - PilotPays(p, cost))]

(* f32::round of cost times a fraction. *)
Rounded(cost, num, den) == (2 * cost * num + den) \div (2 * den)

PilotShare(t) == Rounded(Cost[t.kind], t.fraction[1], t.fraction[2])

BaseShare(t) == Rounded(Cost[t.kind], t.fraction[2] - t.fraction[1], t.fraction[2])

refund_points(p, t) ==
    /\ points' = [points EXCEPT ![t.player] = @ + PilotShare(t)]
    /\ stock' = IF t.origin \in bases THEN [stock EXCEPT ![t.origin] = @ + BaseShare(t)]
                ELSE stock

-----------------------------------------------------------------------------
(* Troops. *)

(* Cargo::num_total against the slots of the aircraft. *)
Room(p, n, slots) == n < slots /\ Len(aboard[p]) + Len(slung[p]) < TotalSlots

load_troops(p, k) ==
    /\ point_near_logistics(p)
    /\ Cost[k] > 0 => Cost[k] <= (IF points[p] > 0 THEN points[p] ELSE 0) + stock[place[p]]
    /\ Room(p, Len(aboard[p]), TroopSlots)
    /\ charge_for_item(p, place[p], Cost[k])
    /\ aboard' = [aboard EXCEPT ![p] = Append(@,
            [kind |-> k, player |-> p, origin |-> place[p], fraction |-> Fraction(p, Cost[k])])]
    /\ UNCHANGED <<pilots, ground, slung, groups, earned, events>>

(* number_troops_deployed: the troops of a kind in the field; group ids     *)
(* grow, so the first is the oldest.                                        *)
Deployed(k) == {g \in DOMAIN troops : troops[g].troop.kind = k}

(* A plausible bug: the limit is reached one troop late. *)
OverLimitLate(k) == Cardinality(Deployed(k)) > Limit[k]

OverLimit(k) == Cardinality(Deployed(k)) >= Limit[k]

(* What unloading a troop deletes. *)
Displaced(k) == IF OverLimit(k) THEN {First(Deployed(k))} ELSE {}

(* The oldest is deleted before the group is added; if it cannot be added   *)
(* the troop is put back aboard.                                            *)
unload_troops(p, added) ==
    /\ aboard[p] # <<>> /\ ~flying[p] /\ next <= MaxGroups
    /\ LET t == Last(aboard[p])
           left == Without(troops, Displaced(t.kind))
       IN  /\ OverLimit(t.kind) => t.kind \notin Denied
           /\ IF added
              THEN /\ aboard' = [aboard EXCEPT ![p] = Popped(@)]
                   /\ troops' = With(left, next, [troop |-> t, place |-> place[p]])
                   /\ next' = next + 1
              ELSE aboard' = aboard /\ troops' = left /\ next' = next
    /\ UNCHANGED <<pilots, ground, accounts, slung, crates, earned, events>>

return_troops(p) ==
    /\ aboard[p] # <<>> /\ ~flying[p] /\ point_near_logistics(p)
    /\ refund_points(p, Last(aboard[p]))
    /\ aboard' = [aboard EXCEPT ![p] = Popped(@)]
    /\ UNCHANGED <<pilots, ground, slung, groups, earned, events>>

(* A plausible bug: the group stays in the field. *)
ExtractKeepsGroup(p, g) ==
    /\ troops[g].place = place[p]
    /\ Room(p, Len(aboard[p]), TroopSlots)
    /\ aboard' = [aboard EXCEPT ![p] = Append(@, troops[g].troop)]
    /\ UNCHANGED <<pilots, ground, accounts, slung, groups, earned, events>>

extract_troops(p, g) ==
    /\ troops[g].place = place[p]
    /\ Room(p, Len(aboard[p]), TroopSlots)
    /\ aboard' = [aboard EXCEPT ![p] = Append(@, troops[g].troop)]
    /\ troops' = Without(troops, {g})
    /\ UNCHANGED <<pilots, ground, accounts, slung, crates, next, earned, events>>

-----------------------------------------------------------------------------
(* Crates. *)

(* Player.crates *)
CratesOf(p) == {g \in DOMAIN crates : crates[g].player = p}

(* At the limit the oldest crate is deleted, whether or not the new one can *)
(* be added.                                                                *)
spawn_crate(p, added) ==
    /\ ~flying[p] /\ point_near_logistics(p) /\ next <= MaxGroups
    /\ LET over == CratesOf(p) # {} /\ Cardinality(CratesOf(p)) >= MaxCrates
           left == Without(crates, IF over THEN {First(CratesOf(p))} ELSE {})
       IN  IF added
           THEN /\ crates' = With(left, next,
                        [player |-> p, origin |-> place[p], place |-> place[p]])
                /\ next' = next + 1
           ELSE crates' = left /\ next' = next
    /\ UNCHANGED <<pilots, ground, accounts, loads, troops, earned, events>>

load_nearby_crate(p, g) ==
    /\ crates[g].place = place[p]
    /\ Room(p, Len(slung[p]), CrateSlots)
    /\ slung' = [slung EXCEPT ![p] = Append(@, crates[g].origin)]
    /\ crates' = Without(crates, {g})
    /\ UNCHANGED <<pilots, ground, accounts, aboard, troops, next, earned, events>>

(* Low and slow enough, a crate can be dropped in flight. *)
unload_crate(p) ==
    /\ slung[p] # <<>> /\ next <= MaxGroups
    /\ slung' = [slung EXCEPT ![p] = Popped(@)]
    /\ crates' = With(crates, next,
                      [player |-> p, origin |-> Last(slung[p]), place |-> place[p]])
    /\ next' = next + 1
    /\ UNCHANGED <<pilots, ground, accounts, aboard, troops, earned, events>>

destroy_nearby_crate(p, g) ==
    /\ ~flying[p] /\ crates[g].place = place[p]
    /\ crates' = Without(crates, {g})
    /\ UNCHANGED <<pilots, ground, accounts, loads, troops, next, earned, events>>

-----------------------------------------------------------------------------
(* The rest of the world. *)

Fly(p) ==
    /\ IF flying[p] THEN place' \in {[place EXCEPT ![p] = l] : l \in Bases \union {Field}}
       ELSE place' = place
    /\ flying' = [flying EXCEPT ![p] = ~@]
    /\ UNCHANGED <<ground, accounts, loads, groups, earned, events>>

Mishap == events < MaxEvents /\ events' = events + 1

(* unit_dead: the last unit of a troop or a crate. *)
Die(g) ==
    /\ Mishap
    /\ troops' = Without(troops, {g}) /\ crates' = Without(crates, {g})
    /\ UNCHANGED <<pilots, ground, accounts, loads, next, earned>>

(* player_deslot: what was aboard is gone. *)
LeaveSlot(p) ==
    /\ Mishap
    /\ aboard' = [aboard EXCEPT ![p] = <<>>] /\ slung' = [slung EXCEPT ![p] = <<>>]
    /\ flying' = [flying EXCEPT ![p] = FALSE]
    /\ place' \in {[place EXCEPT ![p] = b] : b \in Bases}
    /\ UNCHANGED <<ground, accounts, groups, earned>>

(* The cargo is not saved; groups and points are. *)
Restart ==
    /\ Mishap
    /\ aboard' = [p \in Pilots |-> <<>>] /\ slung' = [p \in Pilots |-> <<>>]
    /\ flying' = [p \in Pilots |-> FALSE]
    /\ UNCHANGED <<place, ground, accounts, groups, earned>>

LogisticsFalls(b) ==
    /\ Mishap /\ b \in up
    /\ up' = up \ {b}
    /\ UNCHANGED <<pilots, bases, accounts, loads, groups, earned>>

(* delete_objective: a FARP, with the points it had. *)
BaseFalls(b) ==
    /\ Mishap /\ b \in bases
    /\ bases' = bases \ {b} /\ up' = up \ {b}
    /\ stock' = [stock EXCEPT ![b] = 0]
    /\ UNCHANGED <<pilots, points, loads, groups, earned>>

(* adjust_points from elsewhere: an award, a penalty. *)
Adjust(p, n) ==
    /\ Mishap
    /\ points' = [points EXCEPT ![p] = @ + n] /\ earned' = [earned EXCEPT ![p] = @ + n]
    /\ UNCHANGED <<pilots, ground, stock, loads, groups>>

Next ==
    \/ \E p \in Pilots :
          \/ \E k \in Kinds : load_troops(p, k)
          \/ \E added \in BOOLEAN : unload_troops(p, added) \/ spawn_crate(p, added)
          \/ return_troops(p)
          \/ \E g \in DOMAIN troops : extract_troops(p, g)
          \/ \E g \in DOMAIN crates : load_nearby_crate(p, g) \/ destroy_nearby_crate(p, g)
          \/ unload_crate(p)
          \/ Fly(p)
          \/ LeaveSlot(p)
          \/ \E n \in {-1, 1} : Adjust(p, n)
    \/ \E g \in DOMAIN troops \union DOMAIN crates : Die(g)
    \/ \E b \in Bases : LogisticsFalls(b) \/ BaseFalls(b)
    \/ Restart

Spec == Init /\ [][Next]_vars

-----------------------------------------------------------------------------
Troop == [kind : Kinds, player : Pilots, origin : Bases, fraction : Nat \X Nat]

(* All the troops there are, aboard and in the field. *)
Squads == [x \in {y \in Pilots \X (1..TroopSlots) : y[2] \in DOMAIN aboard[y[1]]}
                    \union {<<Field, g>> : g \in DOMAIN troops} |->
              IF x[1] = Field THEN troops[x[2]].troop ELSE aboard[x[1]][x[2]]]

Sum(f) == MapThenFoldSet(+, 0, LAMBDA x : f[x], LAMBDA S : CHOOSE x \in S : TRUE, DOMAIN f)

Bought(p) == [x \in {y \in DOMAIN Squads : Squads[y].player = p} |-> PilotShare(Squads[x])]
Backed(b) == [x \in {y \in DOMAIN Squads : Squads[y].origin = b} |-> BaseShare(Squads[x])]

(* However troops are loaded, unloaded, extracted by others and returned,   *)
(* what a pilot or a base has, and what it would get back for the troops    *)
(* there are, is never more than it was given: nobody is refunded what      *)
(* another paid, or twice (charge_for_item, refund_points).                 *)
AccountsBalance ==
    /\ \A p \in Pilots : points[p] + Sum(Bought(p)) <= Balance + earned[p]
    /\ \A b \in bases : stock[b] + Sum(Backed(b)) <= Stock

(* Loading, unloading, extracting and returning, by whatever pilots, and    *)
(* failed attempts, never leave more troops of a kind in the field than its *)
(* limit (unload_troops, number_troops_deployed).                           *)
TroopsWithinLimit == \A k \in Kinds : Cardinality(Deployed(k)) <= Limit[k]

(* There are never more troops than were paid for: the price of those there *)
(* are is what pilots and bases have spent and not lost.                    *)
Spent == LET pay == [p \in Pilots |-> Balance + earned[p] - points[p]]
             back == [b \in Bases |-> Stock - stock[b]]
         IN  Sum(pay) + Sum(back)

TroopsArePaid == Sum([x \in DOMAIN Squads |-> Cost[Squads[x].kind]]) <= Spent
=============================================================================
