----------------------------- MODULE Logistics -----------------------------
(***************************************************************************)
(* Logistics: the stock of one item at every objective, kept twice, by the *)
(* program and by the DCS warehouse of the objective.  Once a second       *)
(* logistics_step goes one step further in the tick: read every warehouse, *)
(* plan the transfers from the hubs, carry them out, even out the hubs,    *)
(* write every warehouse.  Everything else comes in between the steps.     *)
(*                                                                         *)
(* DCS answers every call.  Every side has a warehouse it produces from;   *)
(* the item is one both kinds of sides know: one in Makers produces it, an *)
(* inventory of the other kind need not list it.  Supply lines are always  *)
(* those of the present owners: whatever changes an owner sets them up     *)
(* again.                                                                  *)
(***************************************************************************)
EXTENDS Supply, Integers

CONSTANTS Hubs, Bases,    \* objectives of the mission, by id
          Farps,          \* objectives built in play; their ids are greater
          Sides, Makers,  \* sides, and those that produce the item
          InitFarps,      \* those built before the run starts
          InitOwner,      \* who owns what there is when it starts
          Distance,       \* [objective -> [hub -> distance]]
          Production,     \* what a hub gets with a delivery
          HubMax, AirbaseMax, TicksPerDelivery, TransferSize, \* of the configuration
          MizStock,       \* what the mission file puts in every warehouse
          Word,           \* stocks are unsigned integers below it
          Ops,            \* what else happens, by the names in Others
          MaxOps          \* bound: how often

Objectives == Hubs \cup Bases \cup Farps
None == 0

ASSUME LogisticsConstants ==
    /\ Objectives \subseteq Nat \ {None} /\ IsFiniteSet(Objectives)
    /\ Hubs \cap Bases = {} /\ (Hubs \cup Bases) \cap Farps = {}
    /\ IsFiniteSet(Sides) /\ Makers \subseteq Sides /\ InitFarps \subseteq Farps
    /\ InitOwner \in [Hubs \cup Bases \cup InitFarps -> Sides]
    /\ Distance \in [Objectives -> [Hubs -> Nat]]
    /\ {Production, HubMax, AirbaseMax, TicksPerDelivery, MizStock, MaxOps} \subseteq Nat
    /\ Word \in Nat /\ Word > Production * HubMax /\ Word > Production * AirbaseMax
    /\ Word > MizStock + MaxOps /\ TransferSize \in 0..100

VARIABLES dcs,      \* the world: what the DCS warehouses hold
          exists, owner, stock, \* the objectives, Inventory.stored
          listed,   \* those whose Warehouse has an entry for the item; without one it has none
          ticks,    \* logistics_ticks_since_delivery
          stage,    \* LogiStage
          left,     \* ... the objectives still to be synced
          plan,     \* ... the transfers still to be executed
          drift,    \* history: warehouses DCS changed since the program last read or wrote
          gone,     \* history: Farps deleted
          ops       \* count, for the bound

vars == <<dcs, exists, owner, stock, listed, ticks, stage, left, plan, drift, gone, ops>>

Transfers == [from : Objectives, to : Objectives, amount : Nat]

\* WarehouseConfig::capacity: an item the owner's side does not produce has none.
Capacity(o, side) ==
    IF side \notin Makers THEN 0
    ELSE Production * (IF o \in Hubs THEN HubMax ELSE AirbaseMax)

Cap(o) == Capacity(o, owner[o])

\* A campaign at its start, or loaded with every objective full.
Init ==
    /\ dcs = [o \in Objectives |-> IF o \in Farps THEN 0 ELSE MizStock]
    /\ exists = DOMAIN InitOwner
    /\ owner = [o \in Objectives |-> IF o \in exists THEN InitOwner[o]
                                     ELSE CHOOSE s \in Sides : TRUE]
    /\ stock = [o \in Objectives |-> IF o \in exists THEN Capacity(o, InitOwner[o]) ELSE 0]
    /\ listed = {o \in exists : owner[o] \in Makers}
    /\ ticks = 0 /\ stage = "Init" /\ left = {} /\ plan = <<>>
    /\ drift = {} /\ gone = {} /\ ops = 0

\* The objectives in S, the emptiest first, the older first among equals.
Before(a, b, st) == st[a] < st[b] \/ (st[a] = st[b] /\ a < b)

Place(o, sorted, st) == 1 + Cardinality({i \in DOMAIN sorted : Before(sorted[i], o, st)})

ByStock(S, st) ==
    LET with(o) == [sorted \in Seq(S) |-> InsertAt(sorted, Place(o, sorted, st), o)]
    IN  FoldSet(LAMBDA o, sorted : with(o)[sorted], <<>>, S)

HubsInOrder == ByStock(Hubs, [h \in Hubs |-> 0])

\* Stocks that are n at o, and st elsewhere.
Put(st, o, n) == [p \in Objectives |-> IF p = o THEN n ELSE st[p]]

-----------------------------------------------------------------------------
(* Planning and moving *)

\* Mutant of Supplier: the nearest hub, whoever has it.
SupplierNearest(o, own) ==
    Min({h \in Hubs : \A g \in Hubs : Distance[o][h] <= Distance[o][g]})

\* compute_supplier: the nearest hub of the owner's side.
Supplier(o, own) ==
    LET hubs == {h \in Hubs : own[h] = own[o]}
        nearest == {h \in hubs : \A g \in hubs : Distance[o][h] <= Distance[o][g]}
    IN  IF hubs = {} THEN None ELSE Min(nearest)

\* Mutant of Demand: whatever it has, it needs a full load.
DemandFull(st, cap) == cap

Demand(st, cap) == IF st <= cap THEN cap - st ELSE 0

\* The transfers from a hub to its customers.
Divided(h, customers, own, st) ==
    LET demand == [i \in DOMAIN customers |->
                      Demand(st[customers[i]], Capacity(customers[i], own[customers[i]]))]
        alloc == Allocation(st[h], demand)
        tr(i) == [from |-> h, to |-> customers[i], amount |-> alloc[i]]
    IN  FoldLeftDomain(LAMBDA trs, i : IF alloc[i] > 0 THEN Append(trs, tr(i)) ELSE trs,
                       <<>>, customers)

Customers(h, ex, own) == {o \in ex \ Hubs : Supplier(o, own) = h /\ own[o] = own[h]}

PlanFrom(h, ex, own, st) ==
    LET divided == [customers \in Seq(Objectives) |-> Divided(h, customers, own, st)]
    IN  divided[ByStock(Customers(h, ex, own), st)]

\* deliver_supplies_from_logistics_hubs.
Plan(ex, own, st) ==
    FoldLeft(LAMBDA trs, h : trs \o PlanFrom(h, ex, own, st), <<>>, HubsInOrder)

\* Transfer::execute: what the source gives is gone if the target is.
Moved(st, tr) ==
    LET given == Put(st, tr.from, (st[tr.from] - tr.amount) % Word)
    IN  IF tr.to \in exists THEN Put(given, tr.to, (given[tr.to] + tr.amount) % Word) ELSE given

\* sync_warehouse_to_obj, sync_obj_to_warehouse: only what is listed is read, or written.
Read(S) == [o \in Objectives |-> IF o \in S \cap listed THEN dcs[o] ELSE stock[o]]
Written(S, entries, st) == [o \in Objectives |-> IF o \in S \cap entries THEN st[o] ELSE dcs[o]]

Inventories == [Objectives -> Nat]

\* Transfers, from the first.
Executed(st, trs) ==
    LET moved(tr) == [s \in Inventories |-> Moved(s, tr)]
    IN  Along(st, [i \in DOMAIN trs |-> moved(trs[i])])

\* deliver_production: Inventory's += stops at the capacity.
Produced(st) ==
    [o \in Objectives |->
        IF o \in Hubs /\ owner[o] \in Makers
        THEN Min({(st[o] + Production) % Word, Cap(o)}) ELSE st[o]]

\* The hubs of a side evened out, if the first of them has the item.
Balanced(st, side) ==
    LET mine == {h \in Hubs : owner[h] = side}
        hubs == ByStock(mine, st)
        have == [i \in DOMAIN hubs |-> st[hubs[i]]]
        moves == Levelling(have, Total(have) % Word)
        tr(m) == [from |-> hubs[m.from], to |-> hubs[m.to], amount |-> m.amount]
    IN  IF Len(hubs) < 2 \/ Min(mine) \notin listed THEN st
        ELSE Executed(st, [i \in DOMAIN moves |-> tr(moves[i])])

\* balance_logistics_hubs, of one side after the other.
AllBalanced(st) ==
    LET sides == SetToSeq(Sides)
        balanced(side) == [s \in Inventories |-> Balanced(s, side)]
    IN  Along(st, [i \in DOMAIN sides |-> balanced(sides[i])])

\* The hubs that get any of it, which list the item from then on.
Receivers == {h \in Hubs : AllBalanced(stock)[h] > stock[h]}

-----------------------------------------------------------------------------
(* logistics_step *)

GoTo(s, objectives, transfers) == stage' = s /\ left' = objectives /\ plan' = transfers

FirstStep ==
    /\ stage = "Init" /\ GoTo("SyncTo", exists, <<>>)
    /\ UNCHANGED <<dcs, exists, owner, stock, listed, ticks, drift, gone, ops>>

\* The time has come, or an admin wants the tick now.
StartTick ==
    /\ stage = "Complete" /\ GoTo("SyncFrom", exists, <<>>)
    /\ UNCHANGED <<dcs, exists, owner, stock, listed, ticks, drift, gone, ops>>

\* sync_warehouse_to_objective, the objective last in the list.
SyncFrom ==
    /\ stage = "SyncFrom" /\ left # {}
    /\ LET o == Max(left)
       IN  /\ left' = left \ {o}
           /\ stock' = IF o \in exists THEN Read({o}) ELSE stock
           /\ drift' = drift \ {o}
    /\ UNCHANGED <<dcs, exists, owner, listed, ticks, stage, plan, gone, ops>>

MakePlan ==
    /\ stage = "SyncFrom" /\ left = {}
    /\ \/ ticks >= TicksPerDelivery /\ ticks' = 0 /\ stock' = Produced(stock)
       \/ ticks < TicksPerDelivery /\ ticks' = ticks + 1 /\ stock' = stock
    /\ GoTo("ExecuteTransfers", {}, Plan(exists, owner, stock'))
    /\ UNCHANGED <<dcs, exists, owner, listed, drift, gone, ops>>

\* As many transfers as there is time for, from the last; who is to receive the item lists
\* it already.
Execute ==
    /\ stage = "ExecuteTransfers" /\ plan # <<>>
    /\ \E k \in 0 .. Len(plan) - 1 :
          /\ stock' = Executed(stock, Reverse(SubSeq(plan, k + 1, Len(plan))))
          /\ plan' = SubSeq(plan, 1, k)
    /\ UNCHANGED <<dcs, exists, owner, listed, ticks, stage, left, drift, gone, ops>>

\* Mutant of Balance: the tick is over when the transfers are.
BalanceEndsTick ==
    /\ stage = "ExecuteTransfers" /\ plan = <<>>
    /\ stock' = AllBalanced(stock) /\ listed' = listed \cup Receivers
    /\ GoTo("Complete", {}, <<>>)
    /\ UNCHANGED <<dcs, exists, owner, ticks, drift, gone, ops>>

Balance ==
    /\ stage = "ExecuteTransfers" /\ plan = <<>>
    /\ stock' = AllBalanced(stock) /\ listed' = listed \cup Receivers
    /\ GoTo("SyncTo", exists, <<>>)
    /\ UNCHANGED <<dcs, exists, owner, ticks, drift, gone, ops>>

\* sync_objective_to_warehouse.
SyncTo ==
    /\ stage = "SyncTo" /\ left # {}
    /\ LET o == Max(left)
       IN  /\ left' = left \ {o}
           /\ dcs' = IF o \in exists THEN Written({o}, listed, stock) ELSE dcs
           /\ drift' = drift \ {o}
    /\ UNCHANGED <<exists, owner, stock, listed, ticks, stage, plan, gone, ops>>

EndTick ==
    /\ stage = "SyncTo" /\ left = {} /\ GoTo("Complete", {}, <<>>)
    /\ UNCHANGED <<dcs, exists, owner, stock, listed, ticks, drift, gone, ops>>

LogisticsStep ==
    FirstStep \/ StartTick \/ SyncFrom \/ MakePlan \/ Execute \/ Balance \/ SyncTo \/ EndTick

-----------------------------------------------------------------------------
(* What else happens, between two steps *)

Op(name) == name \in Ops /\ ops < MaxOps /\ ops' = ops + 1

\* admin_deliver_now, its effect on the next tick.
DeliverNow ==
    /\ Op("deliver") /\ ticks' = TicksPerDelivery
    /\ UNCHANGED <<dcs, exists, owner, stock, listed, stage, left, plan, drift, gone>>

\* An aircraft rearms, refuels or is put away in DCS.
DcsChanges(o) ==
    /\ o \in exists
    /\ \/ Op("draw") /\ dcs[o] > 0 /\ dcs' = Put(dcs, o, dcs[o] - 1)
       \/ Op("return") /\ dcs[o] + 1 < Word /\ dcs' = Put(dcs, o, dcs[o] + 1)
    /\ drift' = drift \cup {o}
    /\ UNCHANGED <<exists, owner, stock, listed, ticks, stage, left, plan, gone>>

\* player_entered_slot, player_left_unit, sync_vehicle_at_obj: the item is taken from the
\* warehouse, put there, or neither, and the program reads how many there are if it lists it.
Aircraft(o) ==
    /\ Op("aircraft") /\ o \in exists
    /\ \E n \in {dcs[o] - 1, dcs[o], dcs[o] + 1} \cap (0 .. Word - 1) :
          /\ dcs' = Put(dcs, o, n)
          /\ stock' = IF o \in listed THEN Put(stock, o, n) ELSE stock
    /\ drift' = drift \ {o}
    /\ UNCHANGED <<exists, owner, listed, ticks, stage, left, plan, gone>>

\* transfer_supplies: a crate, an action or an admin takes supplies from one objective to
\* another of the same side; a transfer, even of nothing, makes the other list the item.
TransferSupplies(from, to) ==
    /\ Op("transfer") /\ from # to /\ {from, to} \subseteq exists /\ owner[from] = owner[to]
    /\ LET read == Read({from, to})
           amount == Min({Demand(read[to], Cap(to)),
                          Max({1, (read[from] * TransferSize) \div 100})})
           new == IF read[from] = 0 THEN read
                  ELSE Moved(read, [from |-> from, to |-> to, amount |-> amount])
       IN  /\ stock' = new
           /\ listed' = IF read[from] = 0 THEN listed ELSE listed \cup {to}
           /\ dcs' = Written({from, to}, listed', new)
    /\ drift' = drift \ {from, to}
    /\ UNCHANGED <<exists, owner, ticks, stage, left, plan, gone>>

Reduced(n, percent) == IF n = 0 THEN 0 ELSE n - Max({1, (n * percent) \div 100})

\* admin_reduce_inventory.
ReduceInventory(o) ==
    /\ Op("reduce") /\ o \in exists /\ owner[o] \in Makers
    /\ \E percent \in {0, 50, 100} :
          /\ stock' = Put(stock, o, Reduced(dcs[o], percent))
          /\ dcs' = Put(dcs, o, Reduced(dcs[o], percent))
    /\ drift' = drift \ {o}
    /\ UNCHANGED <<exists, owner, listed, ticks, stage, left, plan, gone>>

\* add_farp: its supplies are planned with everybody's and join the tick under way, or
\* start one of their own.
AddFarp(o, side) ==
    /\ Op("farp") /\ o \in Farps \ (exists \cup gone)
    /\ exists' = exists \cup {o} /\ owner' = [owner EXCEPT ![o] = side]
    /\ stock' = Put(stock, o, 0)
    /\ listed' = IF side \in Makers THEN listed \cup {o} ELSE listed \ {o}
    /\ LET new == Plan(exists', owner', stock')
       IN  GoTo("ExecuteTransfers", {}, IF stage = "ExecuteTransfers" THEN plan \o new ELSE new)
    /\ UNCHANGED <<dcs, ticks, drift, gone>>

\* delete_objective.
DeleteFarp(o) ==
    /\ Op("destroy") /\ o \in Farps \cap exists
    /\ exists' = exists \ {o} /\ gone' = gone \cup {o}
    /\ UNCHANGED <<dcs, owner, stock, listed, ticks, stage, left, plan, drift>>

\* Mutant of Capture: the tick goes on with what it had planned.
CaptureGoesOn(o, side) ==
    /\ Op("capture") /\ o \in exists
    /\ owner' = [owner EXCEPT ![o] = side]
    /\ stock' = IF side \notin Makers THEN Put(stock, o, 0) ELSE stock
    /\ listed' = listed \cup {o}
    /\ UNCHANGED <<dcs, exists, ticks, stage, left, plan, drift, gone>>

\* check_capture: the plan of the tick is dropped, and the one it makes is not used.
Capture(o, side) ==
    /\ Op("capture") /\ o \in exists
    /\ owner' = [owner EXCEPT ![o] = side]
    /\ stock' = IF side \notin Makers THEN Put(stock, o, 0) ELSE stock
    /\ listed' = listed \cup {o}
    /\ GoTo("SyncTo", exists, <<>>)
    /\ UNCHANGED <<dcs, exists, ticks, drift, gone>>

\* The mission restarts with the campaign as it is; DCS fills the warehouses anew, and of
\* the inventories adjust_warehouses_for_miz_changes keeps what the owner produces.
Restart ==
    /\ Op("restart")
    /\ dcs' = [o \in Objectives |-> IF o \in Farps THEN 0 ELSE MizStock]
    /\ listed' = {o \in exists : owner[o] \in Makers}
    /\ stock' = [o \in Objectives |-> IF owner[o] \in Makers THEN stock[o] ELSE 0]
    /\ GoTo("Init", {}, <<>>) /\ drift' = {}
    /\ UNCHANGED <<exists, owner, ticks, gone>>

Others ==
    \/ DeliverNow \/ Restart
    \/ \E o \in Objectives : DcsChanges(o) \/ Aircraft(o) \/ ReduceInventory(o) \/ DeleteFarp(o)
    \/ \E from, to \in Objectives : TransferSupplies(from, to)
    \/ \E o \in Objectives, side \in Sides : AddFarp(o, side) \/ Capture(o, side)

Next == LogisticsStep \/ Others

Spec == Init /\ [][Next]_vars

\* The timer calls logistics_step every second, and time passes.
FairSpec == Spec /\ WF_vars(LogisticsStep)

-----------------------------------------------------------------------------
(* What it promises *)

\* Supplies never go to the other side: whatever is captured, built or deleted between
\* planning a transfer and executing it, both its ends have one owner by then.
PlanWithinSides ==
    \A i \in DOMAIN plan : plan[i].to \in exists => owner[plan[i].from] = owner[plan[i].to]

\* When a tick is complete the program and DCS agree on every stock that DCS has not
\* changed since, whatever happened during the tick; except where the inventory does not list
\* the item, which is only where the owner does not produce it: it is never written there,
\* and DCS keeps, say, what the mission file put there.
Settled ==
    stage = "Complete" =>
        \A o \in exists \ drift :
            dcs[o] = stock[o] \/ (o \notin listed /\ owner[o] \notin Makers)

\* A plan fits as long as it lasts: the hubs have what is planned to leave them, and the
\* objectives have room for what is planned to come.  Holds as long as nothing but captures,
\* deletions, restarts and DCS itself comes between the steps.
Planned(trs) == MapThenSumSet(LAMBDA i : plan[i].amount, trs)

PlanFits ==
    /\ \A h \in Hubs : Planned({i \in DOMAIN plan : plan[i].from = h}) <= stock[h]
    /\ \A o \in exists \cap {plan[i].to : i \in DOMAIN plan} :
         stock[o] + Planned({i \in DOMAIN plan : plan[i].to = o}) <= Cap(o)

\* "Logistics hub max supply stock as a multiple of the delivery amount"
HubWithinMax == \A h \in Hubs : stock[h] <= HubMax * Production

\* An objective that has a hub of its side is filled sooner or later, or loses the hub or
\* its place: captures that interrupt the tick and drop its plan only delay it.
Supplied(o) == o \in exists /\ owner[o] \in Makers /\ Supplier(o, owner) # None

BasesAreFilled ==
    \A o \in Bases \cup Farps :
        Supplied(o) ~> (~Supplied(o) \/ stock[o] >= Cap(o))
=============================================================================
