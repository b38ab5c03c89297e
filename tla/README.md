# A verification project for Fowl Engine (bfnext)

Fowl Engine turns a DCS World mission into a persistent campaign. The program that
does it, `bflib`, is a Rust library DCS loads; it is called back by DCS (hooks, events,
a one-second timer, menu clicks) and keeps the campaign's state in memory, in DCS itself
and in a save file. This directory models the parts of it that carry state through time,
model-checks them on small instances with TLC, and proves the main invariants with TLAPS.

## 1. Inventory

| Component | Source | State | Operations | Interacts with | What is hard |
|---|---|---|---|---|---|
| Connection table | `bflib/src/lib.rs` `Connected` | who is behind each connection number; by account, name, address | enrol, supersede, disconnect, look up | slots, births, forced moves | accounts that reconnect before the old connection is dropped; a restart that empties the table |
| Slot occupancy | `lib.rs`, `db/player.rs`, `db/ephemeral.rs`, `db/group.rs` | `players_by_slot`, `object_id_by_slot`, `slot_by_object_id`, `cargo`, `force_to_spectators`; the skipped fields of `Player` | request, birth, leave, death, eviction, deslot, disconnect | DCS, connection table, cargo, sorties | two records of the same fact, updated by events DCS sends late, twice or never |
| Sorties | `lib.rs`, `db/player.rs` | lives, `airborne`, points and provisional points, `recently_born`, `recently_landed` | take-off, landing, return of lives, charge, refund, kills | slots, objectives' points | a landing judged ten seconds later and retried; lives reset while airborne |
| Persistence | `lib.rs`, `db/mod.rs`, `bg/mod.rs`, `admin.rs` | dirty flag, task channel, save file, temporary file, backups | snapshot, write, rotate, rename, reset, load, shutdown | everything | a background thread writing while the mission restarts; crashes between two renames |
| Logistics | `db/logistics.rs` | stock per objective and hub, `LogiStage`, pending transfers | tick, delivery, balance, sync with DCS warehouses, capture, transfer | objectives, slots (aircraft drawn from stock), cargo | a plan computed in one step and executed over many; a cache in front of DCS's own stock; unsigned arithmetic |
| Objectives | `db/objective.rs` | owner, health, logi, supply, threatened, points | status update, repair, cull and respawn, capture, victory | groups, logistics, spawn queue | capture racing repair and death reports; objectives created and deleted in play |
| Spawn queue | `db/ephemeral.rs` | spawn, despawn and delayed queues | push (each cancelling the other), process | groups, objectives | a despawn overtaking a spawn of the same group |
| Groups and units | `db/group.rs` | groups, units, their indices | add, delete, born, dead | all | indices that must agree |
| Cargo | `db/cargo.rs` | crates and troops per slot and on the ground | spawn, load, unload, unpack, extract, return | groups, objectives, sorties (cost) | limits enforced by deleting the oldest |
| Actions | `db/actions.rs` | tasked groups with their missions | start, advance, cancel | groups, spawn queue, points | missions that outlive their objects |
| JTACs, EWR | `jtac.rs`, `ewr.rs` | contacts, targets, lasers, tracks | detect, choose, lase, report | units, menus | targets that die between steps |
| Messages | `msgq.rs`, `db/markup.rs` | three priority queues; the marks of objectives, supply lines and groups | draw, change, delete, process at a limited rate | DCS net, objectives, groups | marks changed or deleted while they are still queued; starvation |
| Kill attribution | `shots.rs` | shots and hits per target | shot, hit, dead, bring out your dead | points | hits after death |
| Chat and admin commands, menus | `chatcmd.rs`, `admin.rs`, `menu/*` | none of their own beyond queues | parse, dispatch | all | commands run between two steps of the others |
| Logs, statistics, RPCs | `bg/*`, `bfdb` | files, netidx, a sled database | append, serve | background thread | – |
| Bindings, protocols, tools | `dcso3`, `bfprotocols`, `bftools`, `yats` | – | – | – | – |
| Generated documentation | `docs/` | – | – | – | – |

Everything `bflib` does runs on DCS's one scripting thread; the only other thread is the
background thread that writes files. So interleaving happens between callbacks, between the
program and DCS's own world, and between the main thread and the background thread.

## 2. Modules

| Module | Models | Extends | Checked by | Proved in |
|---|---|---|---|---|
| `Connected` | the connection table, as operators on one record | – | through `Slots` | `SlotsProofs` |
| `Slots` | slot occupancy and the DCS server it is told about | `Connected` | `MCSlots` | `SlotsProofs` |
| `SaveState` | dirty flag, snapshots, background thread, files, restarts | – | itself | `SaveStateProofs` |
| `Sortie` | lives and points staked on a flight | – | `MCSortie` | `SortieProofs` |
| `Supply` | dividing a hub's stock, evening out hubs (pure) | – | `MCLogisticsPlan`, with `MCSupply` | `LogisticsProofs` |
| `Logistics` | the logistics tick and everything that interrupts it | `Supply` | `MCLogistics`, `MCLogisticsPlan` | `LogisticsProofs` |
| `SpawnQueue` | the queues between the campaign and DCS, as operators on one record | – | through `Objectives` | `ObjectivesProofs` |
| `Objectives` | objectives, their groups, repair, culling, capture, FARPs, squads | `SpawnQueue` | `MCObjectives` | `ObjectivesProofs` |
| `Territory` | abstract specification of who owns the ground | – | implemented by `Objectives` | `ObjectivesProofs` |
| `Shots` | who is paid for a kill | – | `MCShots` | `PointsProofs` |
| `MsgQ` | the message queues and the marks DCS makes of them, as operators | – | through `MapMarks` | `MapMarksProofs` |
| `MapMarks` | what the map shows of objectives, supply lines and groups | `MsgQ` | `MCMapMarks` | `MapMarksProofs` |
| `Cargo` | troops and crates carried and paid for | – | `MCCargo` | `PointsProofs` |
| `FoldLemmas` | nothing of the program: finite induction, folds and sums, for the proofs | – | – | itself |

Definitions keep the names of the functions they stand for where TLA+ allows it
(`player_connected`, `unit_dead`, `player_deslot`); `PROJECT.json` gives the lines of each.
Definitions under a comment that begins with "Mutant of" or "A plausible bug" are not part of a model: each is the
model's definition with a plausible mistake in it, and the property listed with it fails when
it takes the definition's place.

### Connected and Slots

State of the program: `connected` is `Context.connected`; `eph.bySlot`, `objBySlot`,
`slotByObj`, `forced` are `players_by_slot`, `object_id_by_slot`, `slot_by_object_id` and
`force_to_spectators` of `Ephemeral`, `eph.cargo` the keys of `Ephemeral.cargo`;
`currentSlot`, `changing`, `spectating` are fields of `Player` the save file leaves out.
State of the world: who is connected, what DCS answers about his seat, which unit he was
born in and whether its end has been reported. Each action is one callback, whole:
`on_player_try_connect`, `on_player_try_change_slot` for each kind of slot and outcome,
`Event::Birth` in its five outcomes (seated, without lives, denied, too far from an objective,
by somebody unknown), `PlayerLeaveUnit`, the events that end in `unit_killed`, the position
poll, the once-a-second `force_players_to_spectators`, `on_player_disconnect`,
`Event::MissionEnd`.

Assumed of DCS: it reports the loss of a client's unit before the same client's next birth; a
connection whose account has connected again asks for nothing and is born nothing; it offers
only free slots; object ids are not reused; calls on a unit just born succeed. A player the
database has not met behaves as a fresh record, so registration is no action of its own.

### SaveState

`phase` says where the main thread is in `delayed_init_miz` and `admin_shutdown`, `mem` is
`Db.persisted`, `queue` the channel of `bg::Task`, `step` the place of the background thread
in `save`. A campaign is what the properties tell apart: the ids alive, the counter saved with
them and, as history, the changes it includes. Both threads take one file operation per step;
`MissionEnd` restarts the mission inside the process (`Context::reset`: the channel and the
thread survive it), `ProcessEnds` stops the process anywhere.

Left out: loss of what the operating system had not written yet (the code does not `fsync`,
so a power failure may lose more than `ProcessEnds` does), the ages at which backups are
deleted (`backups` keeps all of them), the configuration file.

### Sortie

`born`, `airborne`, `landed` are `recently_born`, `airborne` and `recently_landed` of
`Context`; `due` those whose ten seconds are over. `lives`, `staked`, `points`, `prov` are
fields of `Player` (`staked` is `Player.airborne`), `bank` is `Objective.points`, `share` the
fraction the pilot paid. `life`, `paid`, `free`, `dry` are history: the lives a unit holds, what is
left of the charge for its flight, the value that came aboard for it without a charge, whether a
take-off of it took no life. `Cost` is what is aboard when it is asked for: at take-off and again
when the landing is judged, weapons fired (`Fire`) or loaded (`Rearm`) in between. Either time
`compute_flight_cost` may fail, and the cost counts as nothing (`Prices`, the `mute` of `Judged`). `LiftOff`, `LateTakeoff`,
`TouchDown` are DCS's events with all that `on_event` and `Db::takeoff` do; `SlowTick` is
`return_lives` with `Db::land`; `Load` is `respawn_after_load`.

Simplified: all pilots are of one side and fly one aircraft at a time; every life type starts
with the same number; objectives do not overlap; a restart loads what was saved just before;
slot requests check the price of the airframe; further `Land` events do nothing; an aircraft whose
pilot ejected is taken to be gone at once (`Lost`).

### Supply and Logistics

`Allocation` is the division in `deliver_supplies_from_logistics_hubs`, `Levelling` the loops
of `balance_logistics_hubs`. Both are folds over the loop's own state (`Along`), with as many turns as
the loop can take: more would change nothing, which is proved (`AllocationIsFair`, `NextCounts`).
`Logistics` keeps each stock twice, as the program does: `stock` (`Inventory.stored`) and
`dcs` (the DCS warehouse), and knows which inventories have an entry for the item (`listed`): only those
are read and written (`Read`, `Written`), a capture or a transfer makes an entry, and a restart leaves
one only where the owner's side produces the item. `stage`, `left`, `plan` are `LogiStage`. `LogisticsStep` is
`logistics_step`, one arm per disjunct; `Execute` takes any number of transfers off the end of
the plan, as many as there is time for. The operations of `Others` come between any two steps.

Simplified: one item (items do not meet, except in the supply filter, which never excludes an
objective that lacks something); DCS answers every call; supply lines are those of the present
owners; equal stocks are ordered by id, the order of the program's tables; a birth takes,
leaves or puts back one piece. `Word` stands for 2^32; release builds do not check overflow.
`ops` counts the interruptions.

### SpawnQueue, Objectives and Territory

`q` holds `spawnq`, `despawnq` and `delayspawnq` of `Ephemeral`; a despawn and a spawn of one
group cancel each other, as they do there. `owner`, `health`, `logi`, `spawned` are fields of
`Objective`, `groups` and `dead` what `Db.persisted` has of groups and units, `known` and
`index` the keys of `object_id_by_gid` and `uid_by_object_id`, `dcs` the units DCS has.
`UnitDies` is `unit_dead` with `update_objective_status` (and, at a FARP, the deletion
that may follow), `Repair` is one objective of `repair_objectives`, `Activate` and `Cull` the
branches of `cull_or_respawn_objectives`, `Capture` is `check_capture` for one base with the
repair, the removal of squads and the spawns it brings about, `Restart` is
`respawn_after_load`. `CaptureHalts` and `CaptureFails` are the places where it returns an error
and leaves the rest undone. `unspawned`, `undespawned`, `stale`, `culled` are history: they name
the exceptions the properties make, and each is a behaviour of the code (section 4).

`Territory` has bases, owners and squads only. `Ground` in `Objectives` maps it: a base stands
while its `logi` is over 0, inside are the squads the capture looks at. `Territory!Take` is one
step there; in `Objectives` the repair, the new status, the squads' removal and the queued spawns
are in it.

Simplified: DCS reports a death before anything else happens to the unit; which enemies are near, and so
when a base is culled, is left open; the objectives a slow tick looks at one after another are
steps of their own; the groups of a base have their class for good; victory and reset, positions
and the threatened flag are left out.

### Shots

`by_target`, `dead`, `recently_dead`, `last_gc` are those of `ShotDb`. `Fire`, `Hit` and the
ends (`Crash`, `ReportDead`, `LeaveUnit`, `Despawn`) are the events of `on_event` with what they ask of the indices (`known`);
`Abandoned` is an ejection or a dead pilot, which count as a death though the aircraft may live on;
`SlowTick` is `bring_out_your_dead` with the award of points. `alive` is the world, `bailed` and
`awards` are history (`bailed`: whose pilot ejected, died or left in the air). A restart of the mission, which forgets
all shots and deaths, is left out. One DCS object is one unit; minutes are coarse (`Recent`, `Grave`, `Keep` stand
for three, five and thirty of them); a kill is worth one number of points. Shares go by pilot and
by whether his points are provisional, as in the code: a pilot who shot from his aircraft and
whose deployed unit shot too is paid two shares.

### MsgQ and MapMarks

`msgs` is the three queues of `MsgQ`, `dcs` what DCS makes of the commands it has been sent: the marks
shown and how they look, and the marks it was to change and did not have. `markup`, `group_marks` and `marks` are
what the program remembers of the marks it drew. A handler that marks several things hands the queues and
these tables on from call to call (`Work`), and its outcome is the next state (`Finish`).
`update_objectives_markup` is the slow timer's pass over the objectives, sending differences;
`Process` is the one-second timer's `msgs.process`, sending up to `Rate` commands in order of priority.
Objectives change owner, health and place, FARPs are built and deleted, groups are spawned,
moved, told to return and deleted, an administrator has an objective drawn again.

Left out: the ring of a threatened objective (it has the form of another), which side sees a mark,
the wording of labels, `MarkId` after a restart (marks are gone with the mission), and the branch of
`update` for a changed owner, which only a capture that broke off reaches.

### Cargo

`aboard` and `slung` are `Cargo.troops` and `Cargo.crates` of a pilot's slot, `troops` and
`crates` the groups on the ground with who spawned them and, for troops, who paid what.
Actions are the handlers `load_troops`, `unload_troops`, `extract_troops`, `return_troops`,
`spawn_crate`, `load_nearby_crate`, `unload_crate`, `destroy_nearby_crate`, and the mishaps around them:
pilots die or leave, logistics and bases fall, `add_group` fails, the mission restarts. Left out:
unpacking (repair crates are in `Objectives`, supply crates in `Logistics`, deployables nowhere);
paratroop missions, which put troops in the field that nobody loaded, within the same limit, paid for as a mission
and refundable at the price of the troops (`actions.rs:2371`); the half refund of `-delete` (`chatcmd.rs:298`);
distances; `set_unit_internal_cargo` failing.

## 3. Runs

Passing:

| Run | What is asked | Bounds, and why they do |
|---|---|---|
| `slots` | slot maps, records and connection table agree, units are attributed to those who fly them, cargo has a carrier, whoever is forced out stays queued until it worked | two connections, accounts and names, three units, a slot of each kind: an account can connect twice, two players can contest a slot, a third unit follows a death reported late |
| `savestate` | ids are never used twice, what was saved is not lost, shutdowns do what they are asked, the file never goes back, changes reach it | three missions: a snapshot of the first may still be queued when the third loads; two changes; one failure |
| `sortie` | one life per flight, none returned twice, a restart returns what is owed | two pilots, two life types, for team kills across types; two take-offs, two rare events; no weapons, which lives do not depend on |
| `sortie_flights` | no more is refunded than was charged and came aboard uncharged, a landing is settled sooner or later | two take-offs: a bounce, or another aircraft after the first; two rare events: a capture, a rearming before the landing is judged; strict points, so that a flight can be refused |
| `logistics` | transfers stay within a side, the two copies agree, on what an inventory lists, when a tick is complete | two hubs, a base, a FARP, any three of ten kinds of interruption |
| `logistics_plan` | plans fit stocks and room, bases are filled sooner or later; and, evaluated in the first state, everything is given out as far as it is lacked, the emptiest first, and evening out moves nobody across the mean | three interruptions that the plan is expected to survive, of six kinds; six of the item in the mission file, so that a restart or a draw leaves a hub with less than its capacity and customers to share it; stocks to 8, four customers, 20 to give: portions of more than one piece, demand above and below what there is |
| `objectives` | status is what stands, DCS ends with what the campaign has, the ground changes hands as `Territory` says, repairs finish | a base with logistics and services of either side, a FARP of two groups, so that one can wait in the queue while the other is there, a squad of each side, so that captures can be contested and reversed; two faults: a capture that breaks off and another death or restart; two squads or FARPs: a deployment against a construction |
| `shots` | a unit is paid for once, when it fell, to those who hit it in time, and in the end | three units, two of them targets, two shots, three minutes: long enough for both clocks to forget, with late and repeated reports |
| `map` | the queue ends in the map the tables describe, no change without its mark, arrows are supply lines, the map catches up | a hub, a FARP, a group of each kind, three changes, one panel, three commands a second: a change, a deletion and a redrawing can all be queued together |
| `cargo` | accounts balance, limits on troops hold, no troop is unpaid for | two pilots, two kinds of troops (one dearer than a pilot can pay alone, one denied at its limit), one base, two groups on the ground, one mishap: what one loads another extracts and returns |

Violated, each a finding in `PROJECT.json`:

- `savestate_restart`: between the two renames of a save there is no save file; a mission that
  starts then begins a new round.
- `logistics_hub`: supplies taken from a hub between plan and execution make the subtraction
  wrap.

The types of `Slots`, `SaveState` and `Shots`, and that the shares of a kill add up to it
(`PaidInFull`), are proved and not checked by a run.

`CHECK_DEADLOCK FALSE` stands where a system may stop: `Slots` when the units are used up,
`SaveState` when the process is off and no mission is left, `Objectives` when all is repaired and
the bounds are reached, `Shots` when time is up, `MapMarks` when everything is drawn, `Cargo` when
the bounds are reached.

### Fairness

- `SaveState`: the slow timer runs as long as a mission does and snapshots a dirty campaign
  (`WF(Snapshot)`); the background thread is a loop that waits for nothing but its channel
  (`WF(Background)`).
- `Sortie`: the slow timer (`WF(SlowTick)`), and time passes (`WF(TenSeconds)`).
- `Logistics`: the one-second timer calls `logistics_step` (`WF(LogisticsStep)`).
- `Objectives`: the slow timer looks at every objective (`WF(Repair(o))`, `WF(Capture(o))`); the queue,
  culling and deaths need no fairness.
- `Shots`: the slow timer pays (`WF(SlowTick)`).
- `MapMarks`: the mission loads, the one-second timer sends (`WF(Process)`) and the slow timer
  looks at the objectives (`WF(update_objectives_markup({}))`). `MapCatchesUp` holds because
  panels are bounded: they have priority over marks.

Nothing is assumed to be fair about players, DCS's events, restarts or failures.

## 4. What the code does not keep

The properties make exceptions where the code does; these are the reasons, and what else was met while modelling.
Those that contradict a line of the repository and are shown by a run are the findings above.

- Slots: a pilot's death leaves his `current_slot`; if another was born in his slot since, the
  first one's disconnection takes the second out of it (`ephemeral.rs` logs a mismatch).
- Sorties: lives reset during a flight leave `land` without an entry to return one to, and it gives
  up before it commits the provisional points. The refund is computed from what is aboard when the landing is judged:
weapons loaded between touchdown and that moment are refunded though nobody was charged for them. If the cost cannot be
computed at take-off nothing is charged, `points.strict` or not, and the landing refunds in full; if it cannot be computed
at the landing nothing is refunded. `points.strict` compares the price of a flight with the
  points of pilot and objective together and lets the objective pay. A pilot killed
  shortly before a restart may have his life back: his death does not clear `Player.airborne`. The
  penalty of a team kill reads the victim when it is awarded. Without limited lives a landing stays
  in `recently_landed`.
- Persistence: a snapshot of the mission before last, still queued, can replace the file the present
  mission was loaded from. A snapshot that could not be written is not tried again before the next change. A side switch in `try_occupy_slot` does not mark the campaign dirty.
- Logistics: a FARP built while transfers are pending has everything planned twice, and bases are
  filled past their maximum. What a captured objective has of an item its owner does not produce is dropped from its
  inventory at the next restart (`logistics.rs:438-458`) and never written again: DCS keeps there what the mission file puts into
  the warehouse. `Settled` excepts it. A weapon count read at birth can wrap (`player.rs:923`).
- Objectives: nothing is repaired at 0 % logistics, though the user guide suggests repair until a
  capture; a FARP at 0 % is deleted and so never captured; a FARP repaired while it is not spawned is not
  spawned again; a base where the taking side has no group fails to be captured at every tick.
  Services of the previous owner are back after a restart; a queued spawn cancels
  the despawn of a cull. The distance of a supply crate is taken from the iterator of repairs (`cargo.rs:784`).
  `add_farp` that fails leaves its pad template used and ids in `delayspawnq`. Victory is latched when it first
  holds although the configuration describes it as a condition that lasts.
- Kills: a pilot who ejects, also on the ground after landing, and a pilot who is killed in an aircraft that stands or flies
  on, count as a kill of the aircraft for whoever shot at it.
- Map: a raid told to return keeps `marks`, so its mark is deleted twice.
- Cargo: `max_crates` is enforced where crates are spawned and not where they are unloaded; if
  `set_unit_internal_cargo` fails troops are both aboard and in the field.

## 5. Proofs

For every value of the constants that satisfies the modules' assumptions: 40 theorems. All of the
state invariants the runs check are among them, and all of the action properties.

- `SlotsProofs`: all six state invariants of `Slots`. `IInv` adds to them that the table names
  only clients there are (`ClientsMatch`), that an account has at most one connection that is
  not abandoned (`OneLive`), that object ids in the maps are used ones (`ObjsUsed`) and that
  the unit of an occupied slot is the one its player's live client controls (`OwnUnit`).
  Without `OneLive` a birth could find its pilot's other connection in the table; without
  `ObjsUsed` a new unit could be in the maps already. And the action property `ForcedNotForgotten`
  (`QueuedAreMoved`): whoever is to be forced out stays queued until he sits with the spectators, is
  on no connection or was let in again, action by action.
- `SaveStateProofs`: types with the shape of queued tasks; then, each on top of the one before,
  that saved counters lie past the ids saved or are moved there (`IdsNeverReused`), that
  what was put in place is the file or a backup at every step of a save (`NothingIsLost`),
  that states wait in the order of missions and changes (`Order`, for `FileNeverGoesBack`), and
  that a shutdown task comes last in its queue (`Stops`, for `ShutdownIsHonoured`).
- `SortieProofs`: `OneLifePerFlight` and `StakeIsOwed`. The invariant says that a flight that
  is not settled is in exactly one of `airborne` and `landed` and has one life out or was let
  off (`Flights`), and that a unit nobody was born in has none out (`Unborn`). On top of it
  `RefundWithinCharge` (`RefundsAreCovered`): until a flight is settled, either all it carries came aboard
  uncharged, or the fraction noted at take-off is of what was paid then and it is worth no more than that and what came
  aboard uncharged (`Backed`); it needs that rounding a share never exceeds what it is a share of
  (`RoundedWithin`), and that rounding the two shares apart adds one point at most (`RoundedTogether`).
- `LogisticsProofs`: `Settled`. While warehouses are being written, those already written agree
  on the item if they list it (`Synced`); in the earlier stages nothing need agree, which is why a capture or a FARP in the
  middle of a tick is harmless there. And whoever produces the item lists it (`Listing`), after any
  capture, construction or restart.
  `PlanWithinSides` (`TransfersWithinSides`), of any operations: whatever transfers are planned, by the tick
  or for a FARP, are from a hub to a customer it has, and what could make two sides of one drops the plan
  (`PlanInv`; a deleted FARP's transfers stay, so `PlanInv` remembers that its place is never used again).
  `PlanFits` (`PlansFit`), if the operations are among those of `Harmless`: supplies taken from a hub or given to an
  objective between plan and execution break it, which is what the run `logistics_hub` shows, and a
  FARP makes a second plan of the same stocks (section 4). `FitInv` says that stocks are below `Word`
  and the plan is `Sound`: no transfer is to an objective another one is to, the sum of those leaving a hub
  is in its stock, and what is coming is room its objective has. A plan is sound when it is made because nobody
  is allocated more than he lacks nor all together more than there is (`AllocationFits`), customers of
  different hubs are different, and sorting them loses and doubles nobody (`InsertKeepsApart`); it stays sound
  because it is executed from its last transfer (`LastMoves`, `RestIsSound`), and a side's hubs are evened out
  without any subtraction wrapping around (`LevellingMoves`): whoever is short of the mean can count on
  somebody after him who has more and is still to give (`SomebodyGives`).
  `SharesAreFair` (`SharesAlwaysFair`): in a round whoever has been served has all he lacks or got no less
  than anybody after him can get (`Served`), and a round that does not satisfy everybody leaves less.
  `EvensOut` (`HubsEvenedOut`): a move takes one more hub to the mean and no hub leaves it, so there are fewer
  moves than hubs (`MoreAtMean`), and each turn that does not fill a hub up uses up a giver (`FillUsesUp`).
- `ObjectivesProofs`: `NoGhosts`, by an invariant `GhostInv` that adds that a FARP or squad not yet
  built has left nothing behind (`FreshIsClean`): without it a new group could find units of its
  own in DCS. `StatusIsCurrent` and `LosersAreBroken`, by `StatusInv`, each needing the other: a
  capture is decided by the status shown, and the status of the side that takes over is that of a side
  that had nothing left. And that every step of `Objectives` is one of `Territory` or stutters
  (`ObjectivesAreTerritory`, safety only), assuming that each side has between one and a hundred
  units of logistics at each base (`LogisticsAtBases`): with none a base it takes would not stand,
  with more than a hundred the percentage could round to nothing.
  `SpawnedIsThere` and `CulledIsGone` are about the queue. `QueueInv` says that no group is queued both to be
  spawned and to be despawned (`Queues`), and what may wait to be spawned later (`LaterInv`):
  services, or a FARP of which nothing is there yet and which therefore has no damage to repair. That needs all
  of a FARP to become due together (`DueTogether`, as they do in the code, which queues them at one instant):
  if its groups could become due one by one, one could be repaired while another still waits, and would be
  spawned twice. On it rest `ThereInv`, a group that ought to be there is there or has a spawn and no
  despawn before it, and `GoneInv`, the reverse.
- `PointsProofs`, about `Shots` and `Cargo`, which have the arithmetic of shares in common. Of `Shots`: types;
  `CreditedOnce` and `OnlyTheFallen`, `PaidInFull` (rounding up never pays less than the kill, and less than a
  point too much for each share), and the action properties `KillersAreSettled` and `YoungShotsStay`.
  Of `Cargo`: `AccountsBalance`, `TroopsArePaid` and `TroopsWithinLimit`. The accounts are sums over one table of
  troops, aboard and on the ground; a step moves, adds or removes rows (`TableOf`), and `Accounts` says that what
  a pilot or a base has, with its shares of the troops there are, is within what it was given, and that the
  price of the troops there are was spent. A share refunded is the share paid because rounding the
  price times the fraction noted for it gives it back (`RoundedExactly`).
- `MapMarksProofs`: `MapComesRight`, `ChangesFindTheirMark` and `ArrowsAreSupplyLines`. The invariant speaks of the
  map as it will be (`Final`), when the three queues have been sent one after the other: `MapInv` says that the tables
  agree with it (`Good`), that only groups that are there have pins and every raid has one at its destination, and
  that the hub has an arrow to each FARP it supplies. That a queue is overtaken by another does no harm
  because a command says something of one mark and leaves the rest as it is (`Aside`, `TheyCommute`): pushing one
  does to the final map what it says if nothing about its mark waits in the queues behind
  (`PushedIsExecuted`), and sending some of what waits leaves the final map as it is (`SendingIsFair`). For deletions
  this needs `Queued`: only drawings and changes wait in the last queue, a mark is made by one command
  at most, and only while it is not on the map. Then taking back what is queued does what a deletion would
  (`MarkIsDeleted`), and no change is left without its mark. The tables are looked at as slots that
  have a mark each or none, no two the same; `Agrees` says which marks will be seen and how they look, and is kept
  by each drawing, change and deletion (`AgreesDrawn`, `AgreesChanged`, `AgreesDeleted`), by the loops over
  marks, groups and objectives, and so by each handler. That a new mark is about nothing queued follows from `next`:
  all marks named so far are below it.

What folds and sums come to is proved, in `FoldLemmas`, although the library's induction theorems take an operator
as a parameter and so are out of the provers' reach. Instead of an operator there is a set: if every subset of a
finite set is in `P` as soon as all it becomes with one element less are, then the whole set is
(`SubsetInduction`, from the well-foundedness of the order of subsets, which needs no operator). A fold is a
`CHOOSE` of a function on the subsets; it exists, and what its step keeps it keeps (`FoldExists`, `FoldKeeps`), and
over a sequence it goes through its places in order (`FoldRuns`), so that a loop becomes a run
of states with a first, a last and a step between each two (`AlongRuns`) and is reasoned about by `Stepwise`. Sums
are folds with +: the order does not matter (`SumRemove`), one term may change (`SumChange`), one may give to
another (`SumMoved`).

Assumed of the constants besides their types: in `Objectives`, that a FARP has logistics
(`FarpsHaveLogistics`), since the death of any unit would delete one that had none; that units and groups
(`Objectives`), units (`Sortie`), pilots and bases (`Cargo`), objectives and sides (`Logistics`) are finitely many,
where something is summed over them, and FARPs and groups (`MapMarks`), where a loop goes through them; that
`Nobody` is no side and a group of a hub's garrison is no raid (`MapMarks`); and that `Word` is greater than any
capacity and anything DCS can be left with.

Only model-checked: liveness (`ChangesReachTheFile`, `LandingIsSettled`, `BasesAreFilled`, `RepairsFinish`,
`KillersArePaid`, `MapCatchesUp` and the fair half of `IsTerritory`), which is out of the prover's reach.

## 6. What is left

Next, in this order: unpacking of deployables in `Cargo`; the clock of `Actions` and the groups
whose end ends a mission; victory and reset in `Objectives`; `Slots` composed with `Sortie`, for
what becomes of a flight when its slot changes hands; targets of JTACs that die between two steps.

Not modelled, and why: terrain, placement and enemies near (geometry); Lua tables for spawning,
menus, chat (they parse and call operations modelled where they act); logs, statistics and remote
procedures (nothing of the campaign is read back from them); `bfdb`, the tools, `yats` (separate
programs); the bindings (only their id counters have state, which `SaveState` has). The JavaScript of the
repository is under `docs/` only: themes, search boxes and tables that mdBook and rustdoc put
beside the pages they generate. It is no part of the program, which is in Rust, and nothing of it is
modelled.
