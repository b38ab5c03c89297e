------------------------------- MODULE Slots -------------------------------
(***************************************************************************)
(* Who sits where: connection, slot requests, births, departures, deaths,  *)
(* evictions to spectators.  The program side is                           *)
(*   connected    Context.connected            (lib.rs)                    *)
(*   eph          the slot maps of Ephemeral   (db/ephemeral.rs)           *)
(*   currentSlot, changing, spectating         the skipped fields of       *)
(*                Player: current_slot, changing_slots,                    *)
(*                jtac_or_spectators           (db/player.rs)              *)
(*   known        the keys of Ephemeral.slot_info                          *)
(* and the DCS server, which the program only sees through callbacks, is   *)
(*   client       the connections                                          *)
(*   abandoned    those whose account has since connected again            *)
(*   seat         what net.get_slot answers for a connection               *)
(*   granted      a unit slot granted whose unit is not yet born           *)
(*   body         the unit a connection controls, reported gone or not     *)
(*   used         the object ids DCS has given out                         *)
(*                                                                         *)
(* Every action is one callback: DCS runs them one at a time on one        *)
(* thread.  A player record the database does not have yet behaves as a    *)
(* fresh one, so registration is not a separate action.                    *)
(***************************************************************************)
EXTENDS Connected

CONSTANTS StaticSlots,   \* unit slots listed in the mission (slot_info at load)
          DynamicSlots,  \* unit slots DCS invents; unknown until a first birth
          Objs,          \* DCS object ids; bounds the number of births
          Spectators,    \* SlotId::Spectator
          Observers      \* the game master and observer slots

Slots == StaticSlots \cup DynamicSlots
Seats == Slots \cup {Spectators, Observers}

ASSUME SlotKinds ==
    /\ None \notin Seats /\ None \notin Objs
    /\ Spectators # Observers /\ {Spectators, Observers} \cap Slots = {}
    /\ StaticSlots \cap DynamicSlots = {}

VARIABLES connected, eph, currentSlot, changing, spectating, known,
          client, abandoned, seat, granted, body, used

db == <<connected, eph, currentSlot, changing, spectating, known>>
dcs == <<client, abandoned, seat, granted, body, used>>
vars == <<connected, eph, currentSlot, changing, spectating, known,
          client, abandoned, seat, granted, body, used>>

Bodies == [obj : Objs, slot : Slots, alive : BOOLEAN]

ASSUME NoneIsNoBody == None \notin Bodies

EphTables == [bySlot : [Slots -> Ucids \cup {None}],     \* players_by_slot
              objBySlot : [Slots -> Objs \cup {None}],   \* object_id_by_slot
              slotByObj : [Objs -> Slots \cup {None}],   \* slot_by_object_id
              cargo : SUBSET Slots,                      \* slots with cargo aboard
              forced : SUBSET Ucids]                     \* force_to_spectators

NoEph == [bySlot |-> [s \in Slots |-> None],
          objBySlot |-> [s \in Slots |-> None],
          slotByObj |-> [o \in Objs |-> None],
          cargo |-> {}, forced |-> {}]

TypeOK ==
    /\ connected \in Tables
    /\ eph \in EphTables
    /\ currentSlot \in [Ucids -> Slots \cup {None}]
    /\ changing \in [Ucids -> BOOLEAN]
    /\ spectating \in [Ucids -> BOOLEAN]
    /\ known \in SUBSET Slots
    /\ client \in [PlayerIds -> PlayerInfo \cup {None}]
    /\ abandoned \in SUBSET PlayerIds
    /\ seat \in [PlayerIds -> Seats \cup {None}]
    /\ granted \in [PlayerIds -> Slots \cup {None}]
    /\ body \in [PlayerIds -> Bodies \cup {None}]
    /\ used \in SUBSET Objs

\* jtac_or_spectators is true for a player registered this session, false for one
\* loaded from the save file (serde skips the field).
Init ==
    /\ connected = NoTables
    /\ eph = NoEph
    /\ currentSlot = [u \in Ucids |-> None]
    /\ changing = [u \in Ucids |-> FALSE]
    /\ spectating \in [Ucids -> BOOLEAN]
    /\ known = StaticSlots
    /\ client = [i \in PlayerIds |-> None]
    /\ abandoned = {}
    /\ seat = [i \in PlayerIds |-> None]
    /\ granted = [i \in PlayerIds |-> None]
    /\ body = [i \in PlayerIds |-> None]
    /\ used = {}

-----------------------------------------------------------------------------
(* Leaving a slot *)

\* Mutant of EphDeslot: the object of the slot is forgotten in one direction only.
DeslotKeepsObject(e, s) ==
    IF e.bySlot[s] = None THEN e
    ELSE [e EXCEPT !.bySlot[s] = None, !.objBySlot[s] = None, !.cargo = @ \ {s}]

\* Mutant of EphDeslot: the cargo stays aboard.
DeslotKeepsCargo(e, s) ==
    IF e.bySlot[s] = None \/ e.objBySlot[s] = None THEN e
    ELSE [e EXCEPT !.bySlot[s] = None, !.objBySlot[s] = None,
                   !.slotByObj[e.objBySlot[s]] = None]

\* Ephemeral::player_deslot: whoever the slot map holds is taken out, and queued for
\* spectators unless he is on his way to another seat.
EphDeslot(e, s) ==
    LET v == e.bySlot[s]
        o == e.objBySlot[s]
    IN IF v = None
       THEN e
       ELSE [bySlot |-> [e.bySlot EXCEPT ![s] = None],
             objBySlot |-> [e.objBySlot EXCEPT ![s] = None],
             slotByObj |-> IF o = None THEN e.slotByObj
                           ELSE [e.slotByObj EXCEPT ![o] = None],
             cargo |-> e.cargo \ {s},
             forced |-> IF changing[v] \/ spectating[v] THEN e.forced
                        ELSE e.forced \cup {v}]

\* Mutant of DbDeslot: only the player's record is cleared.
DeslotForgetsMap(e, u) == e

\* Db::player_deslot, the part that touches the slot maps: it goes by the slot the
\* player's own record names.
DbDeslot(e, u) == IF currentSlot[u] = None THEN e ELSE EphDeslot(e, currentSlot[u])

player_deslot(u) ==
    /\ eph' = DbDeslot(eph, u)
    /\ currentSlot' = [currentSlot EXCEPT ![u] = None]

\* Mutant of unit_dead: the object is forgotten, its slot stays occupied.
DeadKeepsSeat(o) == eph' = [eph EXCEPT !.slotByObj[o] = None]

\* Ephemeral::unit_dead.  A player's unit is never in uid_by_object_id, so
\* player_deslot answers None there and Db::unit_dead returns before it can call
\* Db::player_deslot: the player's record keeps its slot.
unit_dead(o) ==
    LET s == eph.slotByObj[o]
        e == [eph EXCEPT !.slotByObj[o] = None]
    IN eph' = IF s = None THEN eph ELSE EphDeslot(e, s)

-----------------------------------------------------------------------------
(* Connections *)

ConnectionsOf(u) == {i \in PlayerIds : client[i] # None /\ client[i].ucid = u}

\* An account that connects again has abandoned its older connection, which DCS has yet
\* to drop: nothing is asked of it or born to it any more.
Abandon(u) ==
    /\ abandoned' = abandoned \cup ConnectionsOf(u)
    /\ granted' = [i \in PlayerIds |-> IF i \in ConnectionsOf(u) THEN None ELSE granted[i]]

\* on_player_try_connect, the server being up and the account not banned.
Connect(id, ifo) ==
    /\ client[id] = None /\ body[id] = None
    /\ ~NameTaken(connected, ifo)
    /\ connected' = player_connected(connected, id, ifo)
    /\ client' = [client EXCEPT ![id] = ifo]
    /\ seat' = [seat EXCEPT ![id] = Spectators]
    /\ Abandon(ifo.ucid)
    /\ player_deslot(ifo.ucid)
    /\ UNCHANGED <<changing, spectating, known, body, used>>

ConnectRefused(id, ifo) ==
    /\ client[id] = None /\ body[id] = None
    /\ NameTaken(connected, ifo)
    /\ connected' = player_connected(connected, id, ifo)
    /\ Abandon(ifo.ucid)
    /\ UNCHANGED <<eph, currentSlot, changing, spectating, known, client, seat, body, used>>

\* on_player_disconnect.  DCS may report it before or after it removes the unit.
Disconnect(id) ==
    /\ client[id] # None
    /\ connected' = player_disconnected(connected, id)
    /\ IF connected.info[id] = None
       THEN UNCHANGED <<eph, currentSlot>>
       ELSE player_deslot(connected.info[id].ucid)
    /\ client' = [client EXCEPT ![id] = None]
    /\ abandoned' = abandoned \ {id}
    /\ seat' = [seat EXCEPT ![id] = None]
    /\ granted' = [granted EXCEPT ![id] = None]
    /\ body' = [body EXCEPT ![id] = IF @ = None THEN None ELSE [@ EXCEPT !.alive = FALSE]]
    /\ UNCHANGED <<changing, spectating, known, used>>

-----------------------------------------------------------------------------
(* Slot requests: on_player_try_change_slot *)

Live(id) == client[id] # None /\ id \notin abandoned

\* Connected::get_or_lookup_player_info: a client the table has lost (a mission
\* restart empties it) is looked up in DCS and enrolled, unless its name is taken.
LookupFails(id) == connected.info[id] = None /\ NameTaken(connected, client[id])

LookedUp(id) == IF connected.info[id] # None THEN connected
                ELSE player_connected(connected, id, client[id])

\* The common part of a request that is granted: SlotAuth::Yes cancels a pending
\* eviction, and DCS moves the client.
Granted(id, s) ==
    /\ Live(id)
    /\ ~LookupFails(id)
    /\ connected' = LookedUp(id)
    /\ eph' = [eph EXCEPT !.forced = @ \ {client[id].ucid}]
    /\ seat' = [seat EXCEPT ![id] = s]
    /\ granted' = [granted EXCEPT ![id] = IF s \in Slots THEN s ELSE None]
    /\ UNCHANGED <<currentSlot, known, client, abandoned, body, used>>

\* DCS offers a unit slot only while nobody else sits or flies there.
Free(id, s) == \A i \in PlayerIds \ {id} :
                  seat[i] # s /\ (body[i] # None => body[i].slot # s)

RequestSpectators(id) ==
    /\ Granted(id, Spectators)
    /\ spectating' = [spectating EXCEPT ![client[id].ucid] = TRUE]
    /\ UNCHANGED changing

RequestObservers(id) ==
    /\ Granted(id, Observers)
    /\ spectating' = [spectating EXCEPT ![client[id].ucid] = TRUE]
    /\ UNCHANGED changing

\* A slot of the mission: try_occupy_slot_deferred says yes.
RequestKnownSlot(id, s) ==
    /\ s \in known /\ Free(id, s)
    /\ Granted(id, s)
    /\ spectating' = [spectating EXCEPT ![client[id].ucid] = FALSE]
    /\ changing' = [changing EXCEPT ![client[id].ucid] = FALSE]

\* A slot the database knows nothing of is granted and judged when its unit is born.
RequestUnknownSlot(id, s) ==
    /\ s \notin known /\ Free(id, s)
    /\ Granted(id, s)
    /\ spectating' = [spectating EXCEPT ![client[id].ucid] = FALSE]
    /\ changing' = [changing EXCEPT ![client[id].ucid] = TRUE]

\* A request that is refused: no lives, no points, not ours, not in stock, not allowed,
\* or a client that cannot be looked up.  Only the connection table can change.
RequestRefused(id) ==
    /\ Live(id)
    /\ connected' = LookedUp(id)
    /\ UNCHANGED <<eph, currentSlot, changing, spectating, known>>
    /\ UNCHANGED dcs

-----------------------------------------------------------------------------
(* Births: Event::Birth, Db::unit_born *)

\* DCS reports the loss of a client's unit before it reports the same client's next.
Born(id, o) ==
    /\ Live(id)
    /\ granted[id] # None
    /\ body[id] = None
    /\ o \notin used
    /\ used' = used \cup {o}
    /\ granted' = [granted EXCEPT ![id] = None]
    /\ UNCHANGED <<connected, client, abandoned, seat>>

Flying(id, o) ==
    body' = [body EXCEPT ![id] = [obj |-> o, slot |-> granted[id], alive |-> TRUE]]

\* The player a birth is credited to: connected.get_by_name.
PlayerOf(id) == connected.info[connected.byName[client[id].name]].ucid

Identified(id) == connected.byName[client[id].name] # None

\* The first lines of player_entered_slot: a different player the slot map still holds
\* is taken out of the slot his own record names.
Evicted(s, u) == eph.bySlot[s] # None /\ eph.bySlot[s] # u

EvictedEph(s, u) == IF Evicted(s, u) THEN DbDeslot(eph, eph.bySlot[s]) ELSE eph

EvictedSlots(s, u) ==
    IF Evicted(s, u) THEN [currentSlot EXCEPT ![eph.bySlot[s]] = None] ELSE currentSlot

Seated(e, o, s, u) ==
    [e EXCEPT !.bySlot[s] = u, !.objBySlot[s] = o, !.slotByObj[o] = s]

BirthEntersSlot(id, o) ==
    LET s == granted[id]
        u == PlayerOf(id)
    IN /\ Born(id, o)
       /\ Identified(id)
       /\ eph' = Seated(EvictedEph(s, u), o, s, u)
       /\ currentSlot' = [EvictedSlots(s, u) EXCEPT ![u] = s]
       /\ changing' = [changing EXCEPT ![u] = FALSE]
       /\ known' = known \cup {s}
       /\ Flying(id, o)
       /\ UNCHANGED spectating

\* player_entered_slot finds no life left: the player is deslotted from the slot he
\* held before, and the unit destroyed.
BirthWithoutLives(id, o) ==
    LET s == granted[id]
        u == PlayerOf(id)
    IN /\ Born(id, o)
       /\ s \in known
       /\ Identified(id)
       /\ eph' = LET e == EvictedEph(s, u)
                 IN IF currentSlot[u] = None THEN e ELSE EphDeslot(e, currentSlot[u])
       /\ currentSlot' = [EvictedSlots(s, u) EXCEPT ![u] = None]
       /\ UNCHANGED <<changing, spectating, known, body>>

\* A dynamic slot judged at birth and refused: destroy the unit, force the player out.
BirthDenied(id, o) ==
    LET s == granted[id]
        u == PlayerOf(id)
    IN /\ Born(id, o)
       /\ s \notin known
       /\ Identified(id)
       /\ eph' = [eph EXCEPT !.forced = @ \cup {u}]
       /\ known' = known \cup {s}
       /\ UNCHANGED <<currentSlot, changing, spectating, body>>

\* A dynamic slot too far from any objective: unit_born fails before it records
\* anything, and the unit flies on unknown to the database.
BirthUnplaced(id, o) ==
    /\ Born(id, o)
    /\ granted[id] \notin known
    /\ Flying(id, o)
    /\ UNCHANGED <<eph, currentSlot, changing, spectating, known>>

\* A unit born in a slot whose client is already gone: it has no player name, and is
\* destroyed.
BirthWithoutPlayer(s, o) ==
    /\ o \notin used
    /\ \A i \in PlayerIds : seat[i] # s /\ (body[i] # None => body[i].slot # s)
    /\ used' = used \cup {o}
    /\ known' = known \cup {s}
    /\ UNCHANGED <<connected, eph, currentSlot, changing, spectating,
                   client, abandoned, seat, granted, body>>

-----------------------------------------------------------------------------
(* The end of a unit *)

Reported(o) == body' = [i \in PlayerIds |->
                  IF body[i] # None /\ body[i].obj = o THEN None ELSE body[i]]

\* DCS removes a unit; the event for it is still to come.
Vanish(id) ==
    /\ body[id] # None /\ body[id].alive
    /\ body' = [body EXCEPT ![id].alive = FALSE]
    /\ UNCHANGED db /\ UNCHANGED <<client, abandoned, seat, granted, used>>

\* Event::PlayerLeaveUnit, perhaps late or repeated: Db::player_left_unit.
PlayerLeaveUnit(o) ==
    LET s == eph.slotByObj[o]
    IN /\ o \in used
       /\ IF s = None \/ eph.bySlot[s] = None
          THEN UNCHANGED <<eph, currentSlot>>
          ELSE player_deslot(eph.bySlot[s])
       /\ Reported(o)
       /\ UNCHANGED <<connected, changing, spectating, known,
                      client, abandoned, seat, granted, used>>

\* Event::Dead, UnitLost, PilotDead, Ejection or a lethal Hit, each of which DCS may
\* send for the same unit: unit_killed.
UnitKilled(o) ==
    /\ o \in used
    /\ unit_dead(o)
    /\ Reported(o)
    /\ UNCHANGED <<connected, currentSlot, changing, spectating, known,
                   client, abandoned, seat, granted, used>>

\* update_player_positions_incremental meets a unit DCS no longer has and the timer
\* hands it to unit_killed.
PositionPollFindsDead(s) ==
    /\ eph.bySlot[s] # None
    /\ currentSlot[eph.bySlot[s]] # None
    /\ LET o == eph.objBySlot[currentSlot[eph.bySlot[s]]]
       IN /\ o # None
          /\ \A i \in PlayerIds : body[i] # None /\ body[i].obj = o => ~body[i].alive
          /\ unit_dead(o)
          /\ Reported(o)
    /\ UNCHANGED <<connected, currentSlot, changing, spectating, known,
                   client, abandoned, seat, granted, used>>

-----------------------------------------------------------------------------
(* The timer, the admins, the cargo menu, a restart *)

\* Mutant of ForceToSpectators: who could not be moved is not tried again.
ForceOnce(failing) ==
    LET ids == {connected.byUcid[u] : u \in eph.forced \ failing} \ {None}
    IN /\ eph.forced # {}
       /\ eph' = [eph EXCEPT !.forced = {}]
       /\ seat' = [i \in PlayerIds |-> IF i \in ids THEN Spectators ELSE seat[i]]
       /\ granted' = [i \in PlayerIds |-> IF i \in ids THEN None ELSE granted[i]]
       /\ UNCHANGED <<connected, currentSlot, changing, spectating, known,
                      client, abandoned, body, used>>

\* force_players_to_spectators: everybody queued is tried; who has no connection is
\* dropped, and who is still in a slot after the call ("failing") is queued again.
ForceToSpectators(failing) ==
    LET moved == {u \in eph.forced \ failing : connected.byUcid[u] # None}
        ids == {connected.byUcid[u] : u \in moved}
        stuck == {u \in eph.forced \cap failing :
                    connected.byUcid[u] # None /\ seat[connected.byUcid[u]] # Spectators}
    IN /\ eph.forced # {}
       /\ eph' = [eph EXCEPT !.forced = stuck]
       /\ seat' = [i \in PlayerIds |-> IF i \in ids THEN Spectators ELSE seat[i]]
       /\ granted' = [i \in PlayerIds |-> IF i \in ids THEN None ELSE granted[i]]
       /\ UNCHANGED <<connected, currentSlot, changing, spectating, known,
                      client, abandoned, body, used>>

\* -admin deslot
AdminDeslot(u) ==
    /\ eph' = [eph EXCEPT !.forced = @ \cup {u}]
    /\ UNCHANGED <<connected, currentSlot, changing, spectating, known>>
    /\ UNCHANGED dcs

\* The cargo menu of a slot: crates or troops go aboard or come off.
LoadCargo(s) ==
    /\ eph.bySlot[s] # None
    /\ eph' = [eph EXCEPT !.cargo = @ \cup {s}]
    /\ UNCHANGED <<connected, currentSlot, changing, spectating, known>>
    /\ UNCHANGED dcs

UnloadCargo(s) ==
    /\ eph.bySlot[s] # None
    /\ s \in eph.cargo
    /\ eph' = [eph EXCEPT !.cargo = @ \ {s}]
    /\ UNCHANGED <<connected, currentSlot, changing, spectating, known>>
    /\ UNCHANGED dcs

\* Event::MissionEnd: Context::reset forgets everything; the clients stay connected,
\* out of their units, and the next mission loads the players from the save file.
MissionRestart ==
    /\ connected' = NoTables
    /\ eph' = NoEph
    /\ currentSlot' = [u \in Ucids |-> None]
    /\ changing' = [u \in Ucids |-> FALSE]
    /\ spectating' = [u \in Ucids |-> FALSE]
    /\ known' = StaticSlots
    /\ seat' = [i \in PlayerIds |-> IF client[i] = None THEN None ELSE Spectators]
    /\ granted' = [i \in PlayerIds |-> None]
    /\ body' = [i \in PlayerIds |-> None]
    /\ UNCHANGED <<client, abandoned, used>>

-----------------------------------------------------------------------------
Next ==
    \/ \E id \in PlayerIds, ifo \in PlayerInfo : Connect(id, ifo) \/ ConnectRefused(id, ifo)
    \/ \E id \in PlayerIds :
          \/ Disconnect(id)
          \/ RequestSpectators(id)
          \/ RequestObservers(id)
          \/ RequestRefused(id)
          \/ Vanish(id)
          \/ \E s \in Slots : RequestKnownSlot(id, s) \/ RequestUnknownSlot(id, s)
          \/ \E o \in Objs :
                \/ BirthEntersSlot(id, o)
                \/ BirthWithoutLives(id, o)
                \/ BirthDenied(id, o)
                \/ BirthUnplaced(id, o)
    \/ \E o \in Objs : PlayerLeaveUnit(o) \/ UnitKilled(o)
    \/ \E s \in Slots :
          \/ PositionPollFindsDead(s)
          \/ LoadCargo(s)
          \/ UnloadCargo(s)
          \/ \E o \in Objs : BirthWithoutPlayer(s, o)
    \/ \E failing \in SUBSET Ucids : ForceToSpectators(failing)
    \/ \E u \in Ucids : AdminDeslot(u)
    \/ MissionRestart

Spec == Init /\ [][Next]_vars

-----------------------------------------------------------------------------
(* What the tables promise *)

\* Whoever the slot map puts in a slot has that slot in his own record, so nobody is
\* ever in two slots.  Deslotting goes by the record, everything else by the map.
SlotAgreement ==
    \A s \in Slots : eph.bySlot[s] # None => currentSlot[eph.bySlot[s]] = s

\* object_id_by_slot and slot_by_object_id are inverses of each other, and exactly the
\* occupied slots have an object.
ObjectMapsInverse ==
    /\ \A s \in Slots : (eph.bySlot[s] # None) <=> (eph.objBySlot[s] # None)
    /\ \A s \in Slots : eph.objBySlot[s] # None => eph.slotByObj[eph.objBySlot[s]] = s
    /\ \A o \in Objs : eph.slotByObj[o] # None => eph.objBySlot[eph.slotByObj[o]] = o

\* A unit the maps attribute to a player was born to a client of that player in that
\* slot, and its end has not been reported: kills, lives and cargo go to the right one.
Attributed(s, i) == /\ body[i] # None
                    /\ body[i].obj = eph.objBySlot[s]
                    /\ body[i].slot = s
                    /\ client[i] # None => client[i].ucid = eph.bySlot[s]

Attribution ==
    \A s \in Slots : eph.bySlot[s] # None => \E i \in PlayerIds : Attributed(s, i)

\* Cargo does not outlive its carrier: an empty slot has nothing aboard for the next
\* player to find.
CargoHasCarrier == \A s \in eph.cargo : eph.bySlot[s] # None

\* The connection tables agree with each other (see module Connected).
ConnectedConsistent == Consistent(connected)

\* A player queued for spectators leaves the queue only when he sits there, when no
\* connection of his is on record, or when a later request of his was granted.
ForcedNotForgotten ==
    [][\A u \in eph.forced \ eph'.forced :
          \/ \E i \in PlayerIds :
                /\ client[i] # None /\ client[i].ucid = u
                /\ seat'[i] = Spectators \/ \E s \in Seats : Granted(i, s)
          \/ connected'.byUcid[u] = None]_vars

=============================================================================
