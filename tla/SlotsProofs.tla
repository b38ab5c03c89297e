---------------------------- MODULE SlotsProofs ----------------------------
(***************************************************************************)
(* Proofs about module Slots, for any number of clients, players, slots    *)
(* and object ids.                                                         *)
(***************************************************************************)
EXTENDS Slots, TLAPS

(* The strengthening: what has to hold of the DCS side and of the tables   *)
(* for the properties of Slots to be preserved by every callback.          *)

\* A record in the connection table is that of the client DCS has under this id.
ClientsMatch ==
    /\ \A i \in PlayerIds : connected.info[i] # None =>
          /\ client[i] # None
          /\ connected.info[i] = client[i]
    /\ \A i \in PlayerIds : granted[i] # None => Live(i) /\ connected.info[i] # None

\* An account has at most one connection it has not abandoned.
OneLive == \A i, j \in PlayerIds :
              Live(i) /\ Live(j) /\ client[i].ucid = client[j].ucid => i = j

\* The unit of an occupied slot is the one its player's live client controls.
OwnUnit == \A s \in Slots, i \in PlayerIds :
              eph.bySlot[s] # None /\ Live(i) /\ client[i].ucid = eph.bySlot[s] =>
                 body[i] # None /\ body[i].obj = eph.objBySlot[s]

ObjsUsed == \A o \in Objs : eph.slotByObj[o] # None => o \in used

IInv == /\ TypeOK
        /\ ConnectedConsistent
        /\ ClientsMatch
        /\ OneLive
        /\ SlotAgreement
        /\ ObjectMapsInverse
        /\ ObjsUsed
        /\ OwnUnit
        /\ Attribution
        /\ CargoHasCarrier

-----------------------------------------------------------------------------
(* The connection table *)

\* Forgetting a client keeps the table consistent and touches nobody else.
LEMMA DisconnectedLemma ==
    ASSUME NEW c \in Tables, NEW id \in PlayerIds, Consistent(c)
    PROVE  /\ player_disconnected(c, id) \in Tables
           /\ Consistent(player_disconnected(c, id))
           /\ \A i \in PlayerIds : player_disconnected(c, id).info[i] =
                                     IF i = id THEN None ELSE c.info[i]
  <1>1. player_disconnected(c, id) \in Tables
    BY DEF player_disconnected, Tables, PlayerInfo
  <1>2. \A i \in PlayerIds : player_disconnected(c, id).info[i] =
                                     IF i = id THEN None ELSE c.info[i]
    BY DEF player_disconnected, Tables
  <1>3. Consistent(player_disconnected(c, id))
    BY NoneFresh, NoneIsNoInfo DEF player_disconnected, Consistent, Tables, PlayerInfo
  <1> QED BY <1>1, <1>2, <1>3

\* An account that connects again loses its older record, and only that one.
LEMMA SupersededLemma ==
    ASSUME NEW c \in Tables, NEW u \in Ucids, Consistent(c)
    PROVE  /\ Superseded(c, u) \in Tables
           /\ Consistent(Superseded(c, u))
           /\ Superseded(c, u).byUcid[u] = None
           /\ \A i \in PlayerIds : Superseded(c, u).info[i] =
                 IF c.info[i] # None /\ c.info[i].ucid = u THEN None ELSE c.info[i]
  <1>1. CASE c.byUcid[u] = None
    BY <1>1, NoneFresh DEF Superseded, Consistent, Tables
  <1>2. CASE c.byUcid[u] # None
    <2> DEFINE j == c.byUcid[u]
    <2>1. j \in PlayerIds /\ c.info[j] # None /\ c.info[j].ucid = u
      BY <1>2 DEF Consistent, Tables
    <2>2. Superseded(c, u) = player_disconnected(c, j)
      BY <1>2, <2>1 DEF Superseded, player_disconnected, Tables
    <2>3. \A i \in PlayerIds : c.info[i] # None /\ c.info[i].ucid = u => i = j
      BY <2>1 DEF Consistent
    <2>4. player_disconnected(c, j).byUcid[u] = None
      BY <2>1 DEF player_disconnected, Tables
    <2> QED BY <2>1, <2>2, <2>3, <2>4, DisconnectedLemma
  <1> QED BY <1>1, <1>2

\* Whether it is accepted or refused, a connection leaves the table consistent.
LEMMA ConnectedLemma ==
    ASSUME NEW c \in Tables, NEW id \in PlayerIds, NEW ifo \in PlayerInfo,
           Consistent(c), c.info[id] = None
    PROVE  /\ player_connected(c, id, ifo) \in Tables
           /\ Consistent(player_connected(c, id, ifo))
           /\ \A i \in PlayerIds : player_connected(c, id, ifo).info[i] =
                 IF i = id /\ ~NameTaken(c, ifo) THEN ifo
                 ELSE IF c.info[i] # None /\ c.info[i].ucid = ifo.ucid THEN None
                 ELSE c.info[i]
  <1> DEFINE d == Superseded(c, ifo.ucid)
  <1>1. ifo.ucid \in Ucids /\ ifo.name \in Names
    BY DEF PlayerInfo
  <1>2. d \in Tables /\ Consistent(d) /\ d.byUcid[ifo.ucid] = None /\ d.info[id] = None
    BY <1>1, SupersededLemma
  <1>3. CASE NameTaken(c, ifo)
    BY <1>1, <1>3, SupersededLemma DEF player_connected
  <1>4. CASE ~NameTaken(c, ifo)
    <2>1. d.byName[ifo.name] = None
      BY <1>4 DEF NameTaken
    <2>2. player_connected(c, id, ifo) = Enrolled(d, id, ifo)
      BY <1>4 DEF player_connected
    <2> HIDE DEF d
    <2>3. Enrolled(d, id, ifo) \in Tables
      BY <1>1, <1>2 DEF Enrolled, Tables
    <2>4. Consistent(Enrolled(d, id, ifo))
      BY <1>1, <1>2, <2>1, NoneFresh, NoneIsNoInfo
      DEF Enrolled, Consistent, Tables, PlayerInfo
    <2>5. \A i \in PlayerIds : Enrolled(d, id, ifo).info[i] = IF i = id THEN ifo ELSE d.info[i]
      BY <1>2 DEF Enrolled, Tables
    <2> QED BY <1>1, <1>4, <2>2, <2>3, <2>4, <2>5, SupersededLemma DEF d
  <1> QED BY <1>3, <1>4

-----------------------------------------------------------------------------
(* Vacating a slot *)

\* ObjectMapsInverse and CargoHasCarrier, of any value of the slot maps.
Inverse(e) ==
    /\ \A s \in Slots : (e.bySlot[s] # None) <=> (e.objBySlot[s] # None)
    /\ \A s \in Slots : e.objBySlot[s] # None => e.slotByObj[e.objBySlot[s]] = s
    /\ \A o \in Objs : e.slotByObj[o] # None => e.objBySlot[e.slotByObj[o]] = o

Carried(e) == \A s \in e.cargo : e.bySlot[s] # None

\* Ephemeral::player_deslot empties one slot in every map and leaves the others alone.
LEMMA DeslotLemma ==
    ASSUME NEW e \in EphTables, NEW s \in Slots, Inverse(e), Carried(e)
    PROVE  /\ EphDeslot(e, s) \in EphTables
           /\ Inverse(EphDeslot(e, s))
           /\ Carried(EphDeslot(e, s))
           /\ \A t \in Slots :
                /\ EphDeslot(e, s).bySlot[t] = IF t = s THEN None ELSE e.bySlot[t]
                /\ EphDeslot(e, s).objBySlot[t] = IF t = s THEN None ELSE e.objBySlot[t]
           /\ \A o \in Objs : EphDeslot(e, s).slotByObj[o] # None => e.slotByObj[o] # None
  <1> DEFINE d == EphDeslot(e, s)
  <1>0. None \notin Slots /\ None \notin Objs
    BY SlotKinds DEF Seats
  <1>1. CASE e.bySlot[s] = None
    BY <1>1, <1>0 DEF EphDeslot, Inverse, Carried, EphTables
  <1>2. CASE e.bySlot[s] # None
    <2>1. PICK o \in Objs : o = e.objBySlot[s] /\ e.slotByObj[o] = s
      BY <1>2, <1>0 DEF Inverse, EphTables
    <2>2. d = [bySlot |-> [e.bySlot EXCEPT ![s] = None],
               objBySlot |-> [e.objBySlot EXCEPT ![s] = None],
               slotByObj |-> [e.slotByObj EXCEPT ![o] = None],
               cargo |-> e.cargo \ {s},
               forced |-> d.forced]
      BY <1>2, <2>1, <1>0 DEF EphDeslot
    <2>3. d.forced \in SUBSET Ucids
      BY <1>2 DEF EphDeslot, EphTables
    <2> HIDE DEF d
    <2>4. d \in EphTables
      BY <2>2, <2>3 DEF EphTables
    <2>5. \A t \in Slots : /\ d.bySlot[t] = IF t = s THEN None ELSE e.bySlot[t]
                           /\ d.objBySlot[t] = IF t = s THEN None ELSE e.objBySlot[t]
      BY <2>2 DEF EphTables
    <2>6. \A p \in Objs : d.slotByObj[p] = IF p = o THEN None ELSE e.slotByObj[p]
      BY <2>2 DEF EphTables
    <2>7. Inverse(d)
      BY <2>1, <2>5, <2>6, <1>0 DEF Inverse, EphTables
    <2>8. Carried(d)
      BY <2>2, <2>5 DEF Carried, EphTables
    <2> QED BY <2>4, <2>5, <2>6, <2>7, <2>8 DEF d
  <1> QED BY <1>1, <1>2

\* The end of a tracked unit empties its slot, the end of any other unit nothing.
LEMMA UnitDeadLemma ==
    ASSUME eph \in EphTables, Inverse(eph), NEW o \in Objs, unit_dead(o)
    PROVE  eph' = IF eph.slotByObj[o] = None THEN eph ELSE EphDeslot(eph, eph.slotByObj[o])
  <1>1. CASE eph.slotByObj[o] = None
    BY <1>1 DEF unit_dead
  <1>2. CASE eph.slotByObj[o] # None
    <2> DEFINE s == eph.slotByObj[o]
               e == [eph EXCEPT !.slotByObj[o] = None]
    <2>1. s \in Slots /\ eph.objBySlot[s] = o /\ eph.bySlot[s] # None
      BY <1>2, SlotKinds DEF Inverse, EphTables, Seats
    <2>2. e.bySlot = eph.bySlot /\ e.objBySlot = eph.objBySlot /\ e.cargo = eph.cargo
          /\ e.forced = eph.forced /\ e.slotByObj = [eph.slotByObj EXCEPT ![o] = None]
      BY DEF EphTables
    <2>3. [e.slotByObj EXCEPT ![o] = None] = [eph.slotByObj EXCEPT ![o] = None]
      BY <2>2 DEF EphTables
    <2>4. eph' = EphDeslot(e, s)
      BY <1>2 DEF unit_dead
    <2> HIDE DEF e
    <2>5. EphDeslot(e, s) = EphDeslot(eph, s)
      BY <2>1, <2>2, <2>3, SlotKinds DEF EphDeslot
    <2> QED BY <1>2, <2>4, <2>5
  <1> QED BY <1>1, <1>2

\* Db::player_deslot, type and effect: afterwards no slot is left with the player, and
\* no slot has been given to anybody.
LEMMA DbDeslotLemma ==
    ASSUME TypeOK, SlotAgreement, NEW e \in EphTables, NEW u \in Ucids,
           Inverse(e), Carried(e), e.bySlot = eph.bySlot
    PROVE  /\ DbDeslot(e, u) \in EphTables
           /\ Inverse(DbDeslot(e, u))
           /\ Carried(DbDeslot(e, u))
           /\ \A t \in Slots :
                /\ DbDeslot(e, u).bySlot[t] # u
                /\ \/ /\ DbDeslot(e, u).bySlot[t] = None
                      /\ currentSlot[u] = t
                   \/ /\ DbDeslot(e, u).bySlot[t] = e.bySlot[t]
                      /\ DbDeslot(e, u).objBySlot[t] = e.objBySlot[t]
           /\ \A o \in Objs : DbDeslot(e, u).slotByObj[o] # None => e.slotByObj[o] # None
  <1>1. CASE currentSlot[u] = None
    BY <1>1, NoneFresh, SlotKinds DEF DbDeslot, SlotAgreement, TypeOK, EphTables, Seats
  <1>2. CASE currentSlot[u] # None
    <2> DEFINE s == currentSlot[u]
    <2>1. s \in Slots
      BY <1>2 DEF TypeOK
    <2>2. DbDeslot(e, u) = EphDeslot(e, s)
      BY <1>2 DEF DbDeslot
    <2>3. \A t \in Slots : eph.bySlot[t] = u => t = s
      BY NoneFresh DEF SlotAgreement
    <2> QED BY <2>1, <2>2, <2>3, DeslotLemma, NoneFresh DEF EphTables
  <1> QED BY <1>1, <1>2

-----------------------------------------------------------------------------
(* Types *)

\* The maps of the invariant, in the form the lemmas above use.
LEMMA MapsForm == ObjectMapsInverse /\ CargoHasCarrier <=> Inverse(eph) /\ Carried(eph)
  BY DEF ObjectMapsInverse, CargoHasCarrier, Inverse, Carried

LEMMA LookedUpLemma ==
    ASSUME TypeOK, ConnectedConsistent, NEW id \in PlayerIds, Live(id)
    PROVE  /\ LookedUp(id) \in Tables
           /\ Consistent(LookedUp(id))
           /\ client[id] \in PlayerInfo
           /\ \A i \in PlayerIds :
                LookedUp(id).info[i] =
                  IF connected.info[id] # None THEN connected.info[i]
                  ELSE IF i = id /\ ~LookupFails(id) THEN client[id]
                  ELSE IF connected.info[i] # None /\ connected.info[i].ucid = client[id].ucid
                  THEN None
                  ELSE connected.info[i]
  <1>1. client[id] \in PlayerInfo /\ client[id].ucid = client[id].ucid
    BY DEF Live, TypeOK
  <1>2. CASE connected.info[id] # None
    BY <1>1, <1>2 DEF LookedUp, TypeOK, ConnectedConsistent
  <1>3. CASE connected.info[id] = None
    <2>1. LookedUp(id) = player_connected(connected, id, client[id])
      BY <1>3 DEF LookedUp
    <2>2. LookupFails(id) <=> NameTaken(connected, client[id])
      BY <1>3 DEF LookupFails
    <2> QED BY <1>1, <1>3, <2>1, <2>2, ConnectedLemma DEF TypeOK, ConnectedConsistent
  <1> QED BY <1>2, <1>3

LEMMA InitInv == Init => IInv
  <1> SUFFICES ASSUME Init PROVE IInv
    OBVIOUS
  <1> USE NoneFresh, SlotKinds, NoneIsNoInfo, NoneIsNoBody DEF Init
  <1>1. TypeOK
    BY DEF TypeOK, NoTables, NoEph, Tables, EphTables, Slots
  <1>2. ConnectedConsistent /\ ClientsMatch /\ OneLive
    BY DEF ConnectedConsistent, Consistent, ClientsMatch, OneLive, Live, NoTables
  <1>3. SlotAgreement /\ ObjectMapsInverse /\ ObjsUsed /\ OwnUnit /\ Attribution /\ CargoHasCarrier
    BY DEF SlotAgreement, ObjectMapsInverse, ObjsUsed, OwnUnit, Attribution,
           CargoHasCarrier, NoEph
  <1> QED BY <1>1, <1>2, <1>3 DEF IInv

\* A birth is credited to the account of the client it was born to, who has no slot
\* yet, and the new object is in no map.
LEMMA BornLemma ==
    ASSUME IInv, NEW id \in PlayerIds, NEW o \in Objs, Born(id, o)
    PROVE  /\ granted[id] \in Slots
           /\ client[id].ucid \in Ucids
           /\ Identified(id)
           /\ PlayerOf(id) = client[id].ucid
           /\ eph.slotByObj[o] = None
           /\ \A t \in Slots : eph.bySlot[t] # client[id].ucid
  <1> USE DEF IInv
  <1>1. granted[id] \in Slots /\ client[id] \in PlayerInfo /\ connected.info[id] # None
        /\ connected.info[id] = client[id]
    BY DEF Born, Live, TypeOK, ClientsMatch
  <1>2. client[id].ucid \in Ucids /\ client[id].name \in Names
    BY <1>1 DEF PlayerInfo
  <1>3. connected.byName[client[id].name] = id
    BY <1>1 DEF ConnectedConsistent, Consistent
  <1>4. Identified(id) /\ PlayerOf(id) = client[id].ucid
    BY <1>1, <1>3, NoneFresh DEF Identified, PlayerOf
  <1>5. eph.slotByObj[o] = None
    BY DEF Born, ObjsUsed
  <1>6. \A t \in Slots : eph.bySlot[t] # client[id].ucid
    BY <1>2, NoneFresh DEF OwnUnit, Born
  <1> QED BY <1>1, <1>2, <1>4, <1>5, <1>6

\* Whoever the map still had in the slot of a birth is out of it before the new player
\* is put in.
LEMMA EvictedLemma ==
    ASSUME TypeOK, SlotAgreement, Inverse(eph), Carried(eph), NEW s \in Slots, NEW u \in Ucids,
           \A t \in Slots : eph.bySlot[t] # u
    PROVE  /\ EvictedEph(s, u) \in EphTables
           /\ Inverse(EvictedEph(s, u))
           /\ Carried(EvictedEph(s, u))
           /\ EvictedEph(s, u).bySlot[s] = None
           /\ \A t \in Slots \ {s} :
                 /\ EvictedEph(s, u).bySlot[t] = eph.bySlot[t]
                 /\ EvictedEph(s, u).objBySlot[t] = eph.objBySlot[t]
           /\ \A o \in Objs : EvictedEph(s, u).slotByObj[o] # None => eph.slotByObj[o] # None
           /\ EvictedSlots(s, u) \in [Ucids -> Slots \cup {None}]
           /\ \A v \in Ucids : EvictedSlots(s, u)[v] # currentSlot[v] => eph.bySlot[s] = v
  <1>0. eph \in EphTables
    BY DEF TypeOK
  <1>1. CASE eph.bySlot[s] = None
    BY <1>0, <1>1 DEF EvictedEph, EvictedSlots, Evicted, TypeOK
  <1>2. CASE eph.bySlot[s] # None
    <2> DEFINE v == eph.bySlot[s]
    <2>1. v \in Ucids /\ v # u /\ currentSlot[v] = s
      BY <1>0, <1>2 DEF EphTables, SlotAgreement
    <2>2. EvictedEph(s, u) = EphDeslot(eph, s)
      BY <1>2, <2>1, SlotKinds DEF EvictedEph, Evicted, DbDeslot, Seats
    <2>3. EvictedSlots(s, u) = [currentSlot EXCEPT ![v] = None]
      BY <1>2, <2>1 DEF EvictedSlots, Evicted
    <2>4. /\ EvictedSlots(s, u) \in [Ucids -> Slots \cup {None}]
          /\ \A w \in Ucids : EvictedSlots(s, u)[w] # currentSlot[w] => w = v
      BY <2>1, <2>3 DEF TypeOK
    <2> QED BY <1>0, <2>2, <2>4, DeslotLemma
  <1> QED BY <1>1, <1>2

\* Seating a player in an empty slot with a new object.
LEMMA SeatedLemma ==
    ASSUME NEW e \in EphTables, NEW s \in Slots, NEW o \in Objs, NEW u \in Ucids,
           Inverse(e), Carried(e), e.bySlot[s] = None, e.slotByObj[o] = None
    PROVE  /\ Seated(e, o, s, u) \in EphTables
           /\ Inverse(Seated(e, o, s, u))
           /\ Carried(Seated(e, o, s, u))
           /\ \A t \in Slots :
                /\ Seated(e, o, s, u).bySlot[t] = IF t = s THEN u ELSE e.bySlot[t]
                /\ Seated(e, o, s, u).objBySlot[t] = IF t = s THEN o ELSE e.objBySlot[t]
           /\ \A p \in Objs : Seated(e, o, s, u).slotByObj[p] =
                                 IF p = o THEN s ELSE e.slotByObj[p]
  <1> DEFINE d == Seated(e, o, s, u)
  <1>0. None \notin Slots /\ None \notin Objs /\ None \notin Ucids
    BY SlotKinds, NoneFresh DEF Seats
  <1>1. /\ d.bySlot = [e.bySlot EXCEPT ![s] = u]
        /\ d.objBySlot = [e.objBySlot EXCEPT ![s] = o]
        /\ d.slotByObj = [e.slotByObj EXCEPT ![o] = s]
        /\ d.cargo = e.cargo
    BY DEF Seated, EphTables
  <1>2. d \in EphTables
    BY DEF Seated, EphTables
  <1> HIDE DEF d
  <1>3. \A t \in Slots : /\ d.bySlot[t] = IF t = s THEN u ELSE e.bySlot[t]
                         /\ d.objBySlot[t] = IF t = s THEN o ELSE e.objBySlot[t]
    BY <1>1 DEF EphTables
  <1>4. \A p \in Objs : d.slotByObj[p] = IF p = o THEN s ELSE e.slotByObj[p]
    BY <1>1 DEF EphTables
  <1>5. Inverse(d)
    BY <1>0, <1>3, <1>4 DEF Inverse, EphTables
  <1>6. Carried(d)
    BY <1>0, <1>1, <1>3 DEF Carried, EphTables
  <1> QED BY <1>2, <1>3, <1>4, <1>5, <1>6 DEF d

\* A callback leaves every variable with a value of its type.
LEMMA TypeStep == IInv /\ [Next]_vars => TypeOK'
  <1> SUFFICES ASSUME IInv, [Next]_vars PROVE TypeOK'
    OBVIOUS
  <1>0. TypeOK /\ Inverse(eph) /\ Carried(eph) /\ SlotAgreement /\ ConnectedConsistent
        /\ ClientsMatch
    BY MapsForm DEF IInv
  <1>t. eph \in EphTables /\ Slots \in SUBSET Seats /\ Spectators \in Seats /\ Observers \in Seats
    BY <1>0 DEF TypeOK, Seats
  <1>1. ASSUME NEW id \in PlayerIds, NEW ifo \in PlayerInfo, Connect(id, ifo)
        PROVE  TypeOK'
    <2>1. ifo.ucid \in Ucids /\ ifo.name \in Names
      BY DEF PlayerInfo
    <2>2. connected.info[id] = None
      BY <1>0, <1>1 DEF ClientsMatch, Connect
    <2>3. connected' \in Tables
      BY <1>0, <1>1, <2>2, ConnectedLemma DEF Connect, TypeOK, ConnectedConsistent
    <2>4. eph' \in EphTables
      BY <1>0, <1>1, <1>t, <2>1, DbDeslotLemma DEF Connect, player_deslot
    <2>5. client' \in [PlayerIds -> PlayerInfo \cup {None}]
      BY <1>0, <1>1 DEF Connect, TypeOK
    <2>6. /\ seat' \in [PlayerIds -> Seats \cup {None}]
          /\ granted' \in [PlayerIds -> Slots \cup {None}]
          /\ abandoned' \in SUBSET PlayerIds
      BY <1>0, <1>1, <1>t DEF Connect, Abandon, ConnectionsOf, TypeOK
    <2> QED BY <1>0, <1>1, <2>3, <2>4, <2>5, <2>6 DEF Connect, player_deslot, TypeOK
  <1>2. ASSUME NEW id \in PlayerIds, NEW ifo \in PlayerInfo, ConnectRefused(id, ifo)
        PROVE  TypeOK'
    <2>1. ifo.ucid \in Ucids /\ ifo.name \in Names
      BY DEF PlayerInfo
    <2>2. connected.info[id] = None
      BY <1>0, <1>2 DEF ClientsMatch, ConnectRefused
    <2>3. connected' \in Tables
      BY <1>0, <1>2, <2>2, ConnectedLemma DEF ConnectRefused, TypeOK, ConnectedConsistent
    <2>4. granted' \in [PlayerIds -> Slots \cup {None}] /\ abandoned' \in SUBSET PlayerIds
      BY <1>0, <1>2 DEF ConnectRefused, Abandon, ConnectionsOf, TypeOK
    <2> QED BY <1>0, <1>2, <2>3, <2>4 DEF ConnectRefused, TypeOK
  <1>3. ASSUME NEW id \in PlayerIds, Disconnect(id)
        PROVE  TypeOK'
    <2>1. connected' \in Tables
      BY <1>0, <1>3, DisconnectedLemma DEF Disconnect, TypeOK, ConnectedConsistent
    <2>2. eph' \in EphTables /\ currentSlot' \in [Ucids -> Slots \cup {None}]
      <3>1. CASE connected.info[id] = None
        BY <1>0, <1>3, <3>1 DEF Disconnect, TypeOK
      <3>2. CASE connected.info[id] # None
        <4>1. connected.info[id].ucid \in Ucids
          BY <1>0, <3>2 DEF TypeOK, Tables, PlayerInfo
        <4>2. player_deslot(connected.info[id].ucid)
          BY <1>3, <3>2 DEF Disconnect
        <4> QED BY <1>0, <1>t, <4>1, <4>2, DbDeslotLemma DEF player_deslot, TypeOK
      <3> QED BY <3>1, <3>2
    <2>3. body' \in [PlayerIds -> Bodies \cup {None}]
      BY <1>0, <1>3 DEF Disconnect, TypeOK, Bodies
    <2> QED BY <1>0, <1>3, <2>1, <2>2, <2>3 DEF Disconnect, TypeOK
  <1>4. ASSUME NEW id \in PlayerIds, NEW s \in Seats, Granted(id, s),
               changing' \in [Ucids -> BOOLEAN], spectating' \in [Ucids -> BOOLEAN]
        PROVE  TypeOK'
    <2>1. connected' \in Tables
      BY <1>0, <1>4, LookedUpLemma DEF Granted
    <2>2. eph' \in EphTables
      BY <1>4, <1>t DEF Granted, EphTables
    <2> QED BY <1>0, <1>4, <2>1, <2>2 DEF Granted, TypeOK
  <1>5. ASSUME NEW id \in PlayerIds, RequestSpectators(id) \/ RequestObservers(id)
        PROVE  TypeOK'
    <2>1. spectating' \in [Ucids -> BOOLEAN] /\ changing' \in [Ucids -> BOOLEAN]
      BY <1>0, <1>5 DEF RequestSpectators, RequestObservers, TypeOK
    <2>2. Granted(id, Spectators) \/ Granted(id, Observers)
      BY <1>5 DEF RequestSpectators, RequestObservers
    <2> QED BY <1>t, <1>4, <2>1, <2>2
  <1>6. ASSUME NEW id \in PlayerIds, NEW s \in Slots,
               RequestKnownSlot(id, s) \/ RequestUnknownSlot(id, s)
        PROVE  TypeOK'
    <2>1. spectating' \in [Ucids -> BOOLEAN] /\ changing' \in [Ucids -> BOOLEAN]
      BY <1>0, <1>6 DEF RequestKnownSlot, RequestUnknownSlot, TypeOK
    <2>2. Granted(id, s)
      BY <1>6 DEF RequestKnownSlot, RequestUnknownSlot
    <2> QED BY <1>t, <1>4, <2>1, <2>2
  <1>7. ASSUME NEW id \in PlayerIds, RequestRefused(id)
        PROVE  TypeOK'
    BY <1>0, <1>7, LookedUpLemma DEF RequestRefused, dcs, TypeOK
  <1>8. ASSUME NEW id \in PlayerIds, Vanish(id)
        PROVE  TypeOK'
    <2>1. [body[id] EXCEPT !.alive = FALSE] \in Bodies
      BY <1>0, <1>8 DEF Vanish, TypeOK, Bodies
    <2>2. body' \in [PlayerIds -> Bodies \cup {None}]
      BY <1>0, <1>8, <2>1 DEF Vanish, TypeOK
    <2> QED BY <1>0, <1>8, <2>2 DEF Vanish, db, TypeOK
  <1>9. ASSUME NEW id \in PlayerIds, NEW o \in Objs, BirthEntersSlot(id, o)
        PROVE  TypeOK'
    <2> DEFINE s == granted[id]
               u == client[id].ucid
    <2>1. Born(id, o)
      BY <1>9 DEF BirthEntersSlot
    <2>2. s \in Slots /\ u \in Ucids /\ PlayerOf(id) = u /\ eph.slotByObj[o] = None
          /\ \A t \in Slots : eph.bySlot[t] # u
      BY <2>1, BornLemma
    <2>3. eph' \in EphTables
      <3>1. eph' = Seated(EvictedEph(s, u), o, s, u)
        BY <1>9, <2>2 DEF BirthEntersSlot
      <3> QED BY <1>0, <2>2, <3>1, EvictedLemma, SeatedLemma
    <2>4. currentSlot' \in [Ucids -> Slots \cup {None}]
      <3>1. EvictedSlots(s, u) \in [Ucids -> Slots \cup {None}]
        BY <1>0, <2>2, EvictedLemma
      <3>2. currentSlot' = [EvictedSlots(s, u) EXCEPT ![u] = s]
        BY <1>9, <2>2 DEF BirthEntersSlot
      <3> QED BY <2>2, <3>1, <3>2
    <2>5. body' \in [PlayerIds -> Bodies \cup {None}]
      BY <1>0, <1>9, <2>2 DEF BirthEntersSlot, Flying, TypeOK, Bodies
    <2> QED BY <1>0, <1>9, <2>2, <2>3, <2>4, <2>5 DEF BirthEntersSlot, Born, TypeOK
  <1>10. ASSUME NEW id \in PlayerIds, NEW o \in Objs, BirthWithoutLives(id, o)
         PROVE  TypeOK'
    <2> DEFINE s == granted[id]
               u == client[id].ucid
    <2>1. Born(id, o)
      BY <1>10 DEF BirthWithoutLives
    <2>2. s \in Slots /\ u \in Ucids /\ PlayerOf(id) = u
          /\ \A t \in Slots : eph.bySlot[t] # u
      BY <2>1, BornLemma
    <2>3. EvictedEph(s, u) \in EphTables /\ Inverse(EvictedEph(s, u)) /\ Carried(EvictedEph(s, u))
          /\ EvictedSlots(s, u) \in [Ucids -> Slots \cup {None}]
      BY <1>0, <2>2, EvictedLemma
    <2>4. eph' \in EphTables
      BY <1>0, <1>10, <2>2, <2>3, DeslotLemma DEF BirthWithoutLives, TypeOK
    <2>5. currentSlot' \in [Ucids -> Slots \cup {None}]
      BY <1>10, <2>2, <2>3 DEF BirthWithoutLives
    <2> QED BY <1>0, <1>10, <2>4, <2>5 DEF BirthWithoutLives, Born, TypeOK
  <1>11. ASSUME NEW id \in PlayerIds, NEW o \in Objs,
                BirthDenied(id, o) \/ BirthUnplaced(id, o)
         PROVE  TypeOK'
    <2>1. Born(id, o)
      BY <1>11 DEF BirthDenied, BirthUnplaced
    <2>2. granted[id] \in Slots /\ client[id].ucid \in Ucids /\ PlayerOf(id) = client[id].ucid
      BY <2>1, BornLemma
    <2>3. CASE BirthDenied(id, o)
      <3>1. eph' \in EphTables
        BY <1>t, <2>2, <2>3 DEF BirthDenied, EphTables
      <3> QED BY <1>0, <2>2, <2>3, <3>1 DEF BirthDenied, Born, TypeOK
    <2>4. CASE BirthUnplaced(id, o)
      <3>1. body' \in [PlayerIds -> Bodies \cup {None}]
        BY <1>0, <2>2, <2>4 DEF BirthUnplaced, Flying, TypeOK, Bodies
      <3> QED BY <1>0, <2>4, <3>1 DEF BirthUnplaced, Born, TypeOK
    <2> QED BY <1>11, <2>3, <2>4
  <1>12. ASSUME NEW s \in Slots, NEW o \in Objs, BirthWithoutPlayer(s, o)
         PROVE  TypeOK'
    BY <1>0, <1>12 DEF BirthWithoutPlayer, TypeOK
  <1>13. ASSUME NEW o \in Objs, Reported(o)
         PROVE  body' \in [PlayerIds -> Bodies \cup {None}]
    BY <1>0, <1>13 DEF Reported, TypeOK
  <1>14. ASSUME NEW o \in Objs, unit_dead(o)
         PROVE  eph' \in EphTables
    BY <1>0, <1>t, <1>14, UnitDeadLemma, DeslotLemma DEF EphTables
  <1>15. ASSUME NEW o \in Objs, PlayerLeaveUnit(o)
         PROVE  TypeOK'
    <2>1. eph' \in EphTables /\ currentSlot' \in [Ucids -> Slots \cup {None}]
      <3> DEFINE s == eph.slotByObj[o]
      <3>1. CASE s = None \/ eph.bySlot[s] = None
        BY <1>0, <1>15, <3>1 DEF PlayerLeaveUnit, TypeOK
      <3>2. CASE s # None /\ eph.bySlot[s] # None
        <4>1. eph.bySlot[s] \in Ucids
          BY <1>t, <3>2 DEF EphTables
        <4>2. player_deslot(eph.bySlot[s])
          BY <1>15, <3>2 DEF PlayerLeaveUnit
        <4> QED BY <1>0, <1>t, <4>1, <4>2, DbDeslotLemma DEF player_deslot, TypeOK
      <3> QED BY <3>1, <3>2
    <2> QED BY <1>0, <1>13, <1>15, <2>1 DEF PlayerLeaveUnit, TypeOK
  <1>16. ASSUME NEW o \in Objs, UnitKilled(o)
         PROVE  TypeOK'
    BY <1>0, <1>13, <1>14, <1>16 DEF UnitKilled, TypeOK
  <1>17. ASSUME NEW s \in Slots, PositionPollFindsDead(s)
         PROVE  TypeOK'
    <2> DEFINE o == eph.objBySlot[currentSlot[eph.bySlot[s]]]
    <2>1. o \in Objs /\ unit_dead(o) /\ Reported(o)
      BY <1>0, <1>t, <1>17 DEF PositionPollFindsDead, TypeOK, EphTables
    <2> HIDE DEF o
    <2> QED BY <1>0, <1>13, <1>14, <1>17, <2>1 DEF PositionPollFindsDead, TypeOK
  <1>18. ASSUME NEW failing \in SUBSET Ucids, ForceToSpectators(failing)
         PROVE  TypeOK'
    <2>1. eph' \in EphTables
      BY <1>t, <1>18 DEF ForceToSpectators, EphTables
    <2>2. seat' \in [PlayerIds -> Seats \cup {None}] /\ granted' \in [PlayerIds -> Slots \cup {None}]
      BY <1>0, <1>t, <1>18 DEF ForceToSpectators, TypeOK
    <2> QED BY <1>0, <1>18, <2>1, <2>2 DEF ForceToSpectators, TypeOK
  <1>19. ASSUME NEW u \in Ucids, AdminDeslot(u)
         PROVE  TypeOK'
    <2>1. eph' \in EphTables
      BY <1>t, <1>19 DEF AdminDeslot, EphTables
    <2> QED BY <1>0, <1>19, <2>1 DEF AdminDeslot, dcs, TypeOK
  <1>20. ASSUME NEW s \in Slots, LoadCargo(s) \/ UnloadCargo(s)
         PROVE  TypeOK'
    <2>1. eph' \in EphTables
      BY <1>t, <1>20 DEF LoadCargo, UnloadCargo, EphTables
    <2> QED BY <1>0, <1>20, <2>1 DEF LoadCargo, UnloadCargo, dcs, TypeOK
  <1>21. ASSUME MissionRestart
         PROVE  TypeOK'
    <2>1. NoTables \in Tables /\ NoEph \in EphTables /\ StaticSlots \in SUBSET Slots
      BY DEF NoTables, NoEph, Tables, EphTables, Slots
    <2> QED BY <1>0, <1>t, <1>21, <2>1 DEF MissionRestart, TypeOK
  <1>22. ASSUME UNCHANGED vars
         PROVE  TypeOK'
    BY <1>0, <1>22 DEF vars, TypeOK
  <1> QED
    BY <1>1, <1>2, <1>3, <1>5, <1>6, <1>7, <1>8, <1>9, <1>10, <1>11, <1>12, <1>15, <1>16,
       <1>17, <1>18, <1>19, <1>20, <1>21, <1>22
    DEF Next

-----------------------------------------------------------------------------
(* Connections *)

ConnInv == ConnectedConsistent /\ ClientsMatch /\ OneLive

\* The connection table stays consistent and stays a table of DCS's clients.
LEMMA ConnStep == IInv /\ [Next]_vars => ConnInv'
  <1> SUFFICES ASSUME IInv, [Next]_vars PROVE ConnInv'
    OBVIOUS
  <1>0. TypeOK /\ ConnectedConsistent /\ ClientsMatch /\ OneLive
    BY DEF IInv
  <1>1. ASSUME NEW id \in PlayerIds, NEW ifo \in PlayerInfo, Connect(id, ifo)
        PROVE  ConnInv'
    <2>1. connected.info[id] = None /\ granted[id] = None
      BY <1>0, <1>1 DEF ClientsMatch, Connect, Live
    <2>2. /\ Consistent(connected')
          /\ \A i \in PlayerIds : connected'.info[i] =
                IF i = id THEN ifo
                ELSE IF connected.info[i] # None /\ connected.info[i].ucid = ifo.ucid THEN None
                ELSE connected.info[i]
      BY <1>0, <1>1, <2>1, ConnectedLemma DEF Connect, TypeOK, ConnectedConsistent
    <2>3. \A i \in PlayerIds :
             /\ client'[i] = IF i = id THEN ifo ELSE client[i]
             /\ granted'[i] # None => granted[i] # None /\ i \notin ConnectionsOf(ifo.ucid)
      BY <1>0, <1>1 DEF Connect, Abandon, TypeOK
    <2>4. abandoned' = abandoned \cup ConnectionsOf(ifo.ucid)
      BY <1>1 DEF Connect, Abandon
    <2>5. ClientsMatch'
      BY <1>0, <2>1, <2>2, <2>3, <2>4 DEF ClientsMatch, Live, ConnectionsOf
    <2>6. OneLive'
      BY <1>0, <2>3, <2>4 DEF OneLive, Live, ConnectionsOf
    <2> QED BY <2>2, <2>5, <2>6 DEF ConnInv, ConnectedConsistent
  <1>2. ASSUME NEW id \in PlayerIds, NEW ifo \in PlayerInfo, ConnectRefused(id, ifo)
        PROVE  ConnInv'
    <2>1. connected.info[id] = None
      BY <1>0, <1>2 DEF ClientsMatch, ConnectRefused
    <2>2. /\ Consistent(connected')
          /\ \A i \in PlayerIds : connected'.info[i] =
                IF connected.info[i] # None /\ connected.info[i].ucid = ifo.ucid THEN None
                ELSE connected.info[i]
      BY <1>0, <1>2, <2>1, ConnectedLemma DEF ConnectRefused, TypeOK, ConnectedConsistent
    <2>3. /\ client' = client
          /\ abandoned' = abandoned \cup ConnectionsOf(ifo.ucid)
          /\ \A i \in PlayerIds :
                granted'[i] # None => granted[i] # None /\ i \notin ConnectionsOf(ifo.ucid)
      BY <1>2 DEF ConnectRefused, Abandon
    <2>4. ClientsMatch'
      BY <1>0, <2>2, <2>3 DEF ClientsMatch, Live, ConnectionsOf
    <2>5. OneLive'
      BY <1>0, <2>3 DEF OneLive, Live
    <2> QED BY <2>2, <2>4, <2>5 DEF ConnInv, ConnectedConsistent
  <1>3. ASSUME NEW id \in PlayerIds, Disconnect(id)
        PROVE  ConnInv'
    <2>1. /\ Consistent(connected')
          /\ \A i \in PlayerIds : connected'.info[i] = IF i = id THEN None ELSE connected.info[i]
      BY <1>0, <1>3, DisconnectedLemma DEF Disconnect, TypeOK, ConnectedConsistent
    <2>2. /\ abandoned' = abandoned \ {id}
          /\ \A i \in PlayerIds : /\ client'[i] = IF i = id THEN None ELSE client[i]
                                  /\ granted'[i] = IF i = id THEN None ELSE granted[i]
      <3>1. abandoned' = abandoned \ {id} /\ client' = [client EXCEPT ![id] = None]
            /\ granted' = [granted EXCEPT ![id] = None]
        BY <1>3 DEF Disconnect
      <3> QED BY <1>0, <3>1 DEF TypeOK
    <2>3. ClientsMatch'
      BY <1>0, <2>1, <2>2 DEF ClientsMatch, Live
    <2>4. OneLive'
      BY <1>0, <2>2 DEF OneLive, Live
    <2> QED BY <2>1, <2>3, <2>4 DEF ConnInv, ConnectedConsistent
  <1>4. ASSUME NEW id \in PlayerIds, Live(id), connected' = LookedUp(id), client' = client, abandoned' = abandoned,
               \A i \in PlayerIds : granted'[i] # None =>
                  granted[i] # None \/ (i = id /\ ~LookupFails(id))
        PROVE  ConnInv'
    <2>1. /\ Consistent(connected')
          /\ \A i \in PlayerIds :
                connected'.info[i] =
                  IF connected.info[id] # None THEN connected.info[i]
                  ELSE IF i = id /\ ~LookupFails(id) THEN client[id]
                  ELSE IF connected.info[i] # None /\ connected.info[i].ucid = client[id].ucid
                  THEN None
                  ELSE connected.info[i]
      BY <1>0, <1>4, LookedUpLemma
    <2>2. ClientsMatch'
      <3>1. ASSUME NEW i \in PlayerIds, connected'.info[i] # None
            PROVE  client'[i] # None /\ connected'.info[i] = client'[i]
        BY <1>0, <1>4, <2>1, <3>1 DEF ClientsMatch, Live
      <3>2. ASSUME NEW i \in PlayerIds, granted'[i] # None
            PROVE  Live(i)' /\ connected'.info[i] # None
        <4>1. CASE granted[i] # None
          <5>1. Live(i) /\ connected.info[i] # None /\ connected.info[i].ucid = client[i].ucid
            BY <1>0, <4>1 DEF ClientsMatch
          <5>2. client[i].ucid = client[id].ucid => i = id
            BY <1>0, <1>4, <5>1 DEF OneLive
          <5> QED BY <1>4, <2>1, <5>1, <5>2 DEF Live
        <4>2. CASE i = id /\ ~LookupFails(id)
          BY <1>4, <2>1, <4>2 DEF Live
        <4> QED BY <1>4, <3>2, <4>1, <4>2
      <3> QED BY <3>1, <3>2 DEF ClientsMatch
    <2>3. OneLive'
      BY <1>0, <1>4 DEF OneLive, Live
    <2> QED BY <2>1, <2>2, <2>3 DEF ConnInv, ConnectedConsistent
  <1>5. ASSUME NEW id \in PlayerIds, NEW s \in Seats, Granted(id, s)
        PROVE  ConnInv'
    BY <1>0, <1>4, <1>5 DEF Granted, TypeOK
  <1>6. ASSUME NEW id \in PlayerIds, RequestRefused(id)
        PROVE  ConnInv'
    BY <1>4, <1>6 DEF RequestRefused, dcs
  <1>7. ASSUME connected' = connected, client' = client, abandoned' = abandoned,
               \A i \in PlayerIds : granted'[i] = granted[i] \/ granted'[i] = None
        PROVE  ConnInv'
    <2>1. ClientsMatch'
      BY <1>0, <1>7 DEF ClientsMatch, Live
    <2>2. OneLive'
      BY <1>0, <1>7 DEF OneLive, Live
    <2> QED BY <1>0, <1>7, <2>1, <2>2 DEF ConnInv, ConnectedConsistent
  <1>8. ASSUME NEW id \in PlayerIds, NEW o \in Objs, Born(id, o)
        PROVE  ConnInv'
    BY <1>0, <1>7, <1>8 DEF Born, TypeOK
  <1>9. ASSUME NEW failing \in SUBSET Ucids, ForceToSpectators(failing)
        PROVE  ConnInv'
    BY <1>7, <1>9 DEF ForceToSpectators
  <1>10. ASSUME MissionRestart
         PROVE  ConnInv'
    BY <1>0, <1>10 DEF MissionRestart, ConnInv, ConnectedConsistent, Consistent, ClientsMatch,
                       OneLive, Live, NoTables
  <1>11. ASSUME UNCHANGED <<connected, client, abandoned, granted>>
         PROVE  ConnInv'
    BY <1>7, <1>11
  <1> QED
    <2>1. ASSUME NEW id \in PlayerIds,
                 \/ RequestSpectators(id) \/ RequestObservers(id)
                 \/ \E s \in Slots : RequestKnownSlot(id, s) \/ RequestUnknownSlot(id, s)
          PROVE  ConnInv'
      BY <1>5, <2>1 DEF RequestSpectators, RequestObservers, RequestKnownSlot,
                        RequestUnknownSlot, Seats
    <2>2. ASSUME NEW id \in PlayerIds, NEW o \in Objs,
                 \/ BirthEntersSlot(id, o) \/ BirthWithoutLives(id, o)
                 \/ BirthDenied(id, o) \/ BirthUnplaced(id, o)
          PROVE  ConnInv'
      BY <1>8, <2>2 DEF BirthEntersSlot, BirthWithoutLives, BirthDenied, BirthUnplaced
    <2>3. ASSUME \/ \E id \in PlayerIds : Vanish(id)
                 \/ \E o \in Objs : PlayerLeaveUnit(o) \/ UnitKilled(o)
                 \/ \E s \in Slots : \/ PositionPollFindsDead(s) \/ LoadCargo(s)
                                     \/ UnloadCargo(s)
                                     \/ \E o \in Objs : BirthWithoutPlayer(s, o)
                 \/ \E u \in Ucids : AdminDeslot(u)
                 \/ UNCHANGED vars
          PROVE  ConnInv'
      BY <1>11, <2>3 DEF Vanish, PlayerLeaveUnit, UnitKilled, PositionPollFindsDead, LoadCargo,
                         UnloadCargo, BirthWithoutPlayer, AdminDeslot, vars, db, dcs
    <2> QED BY <1>1, <1>2, <1>3, <1>6, <1>9, <1>10, <2>1, <2>2, <2>3 DEF Next

-----------------------------------------------------------------------------
(* Slots *)

TablesInv == Inverse(eph) /\ Carried(eph) /\ SlotAgreement /\ ObjsUsed

UnitsInv == OwnUnit /\ Attribution

\* The three ways a callback changes the slot maps without seating anybody: not at all,
\* by Db::player_deslot, and by Ephemeral::unit_dead.
LEMMA KeepLemma ==
    ASSUME IInv, eph'.bySlot = eph.bySlot, eph'.objBySlot = eph.objBySlot,
           eph'.slotByObj = eph.slotByObj, Carried(eph'), currentSlot' = currentSlot,
           used \subseteq used'
    PROVE  TablesInv'
  <1>1. Inverse(eph')
    BY MapsForm DEF IInv, Inverse
  <1>2. SlotAgreement' /\ ObjsUsed'
    BY DEF IInv, SlotAgreement, ObjsUsed
  <1> QED BY <1>1, <1>2 DEF TablesInv

LEMMA VacateLemma ==
    ASSUME IInv, NEW u \in Ucids, player_deslot(u), used' = used
    PROVE  /\ TablesInv'
           /\ \A t \in Slots :
                /\ eph'.bySlot[t] # u
                /\ eph'.bySlot[t] # None => /\ eph'.bySlot[t] = eph.bySlot[t]
                                            /\ eph'.objBySlot[t] = eph.objBySlot[t]
  <1>0. TypeOK /\ SlotAgreement /\ ObjsUsed /\ eph \in EphTables /\ Inverse(eph) /\ Carried(eph)
    BY MapsForm DEF IInv, TypeOK
  <1>1. eph' = DbDeslot(eph, u) /\ currentSlot' = [currentSlot EXCEPT ![u] = None]
    BY DEF player_deslot
  <1>2. /\ eph' \in EphTables /\ Inverse(eph') /\ Carried(eph')
        /\ \A t \in Slots :
             /\ eph'.bySlot[t] # u
             /\ eph'.bySlot[t] # None => /\ eph'.bySlot[t] = eph.bySlot[t]
                                         /\ eph'.objBySlot[t] = eph.objBySlot[t]
        /\ \A o \in Objs : eph'.slotByObj[o] # None => eph.slotByObj[o] # None
    BY <1>0, <1>1, DbDeslotLemma
  <1>3. SlotAgreement'
    BY <1>0, <1>1, <1>2 DEF SlotAgreement, TypeOK, EphTables
  <1>4. ObjsUsed'
    BY <1>0, <1>2 DEF ObjsUsed
  <1> QED BY <1>2, <1>3, <1>4 DEF TablesInv

LEMMA KillLemma ==
    ASSUME IInv, NEW o \in Objs, unit_dead(o), currentSlot' = currentSlot, used' = used
    PROVE  /\ TablesInv'
           /\ \A t \in Slots :
                eph'.bySlot[t] # None => /\ eph'.bySlot[t] = eph.bySlot[t]
                                         /\ eph'.objBySlot[t] = eph.objBySlot[t]
                                         /\ eph'.objBySlot[t] # o
  <1>0. /\ TypeOK /\ SlotAgreement /\ ObjsUsed /\ eph \in EphTables
        /\ Inverse(eph) /\ Carried(eph) /\ None \notin Objs /\ None \notin Slots
    BY MapsForm, SlotKinds DEF IInv, TypeOK, Seats
  <1>1. CASE eph.slotByObj[o] = None
    <2>1. eph' = eph
      BY <1>0, <1>1, UnitDeadLemma
    <2>2. \A t \in Slots : eph.objBySlot[t] # o
      BY <1>0, <1>1 DEF Inverse
    <2> QED BY <1>0, <2>1, <2>2, KeepLemma
  <1>2. CASE eph.slotByObj[o] # None
    <2> DEFINE s == eph.slotByObj[o]
    <2>1. s \in Slots /\ eph.objBySlot[s] = o
      BY <1>0, <1>2 DEF EphTables, Inverse
    <2>2. eph' = EphDeslot(eph, s)
      BY <1>0, <1>2, UnitDeadLemma
    <2>3. /\ Inverse(eph') /\ Carried(eph')
          /\ \A t \in Slots : /\ eph'.bySlot[t] = IF t = s THEN None ELSE eph.bySlot[t]
                              /\ eph'.objBySlot[t] = IF t = s THEN None ELSE eph.objBySlot[t]
          /\ \A p \in Objs : eph'.slotByObj[p] # None => eph.slotByObj[p] # None
      BY <1>0, <2>1, <2>2, DeslotLemma
    <2>4. \A t \in Slots : t # s => eph.objBySlot[t] # o
      BY <1>0, <2>1 DEF Inverse
    <2>5. SlotAgreement' /\ ObjsUsed'
      BY <1>0, <2>3 DEF SlotAgreement, ObjsUsed
    <2> QED BY <2>3, <2>4, <2>5 DEF TablesInv
  <1> QED BY <1>1, <1>2

\* While nobody is seated, the units stay attributed if a unit that is given up has
\* left its slot, and a client that is new has none.
LEMMA UnitsLemma ==
    ASSUME IInv,
           \A t \in Slots :
              eph'.bySlot[t] # None => /\ eph'.bySlot[t] = eph.bySlot[t]
                                       /\ eph'.objBySlot[t] = eph.objBySlot[t],
           \A i \in PlayerIds : Live(i)' =>
              \/ Live(i) /\ client'[i] = client[i]
              \/ \A t \in Slots : eph'.bySlot[t] # client'[i].ucid,
           \A i \in PlayerIds : body[i] # None =>
              \/ body'[i] # None /\ body'[i].obj = body[i].obj /\ body'[i].slot = body[i].slot
              \/ \A t \in Slots : eph'.bySlot[t] # None => eph'.objBySlot[t] # body[i].obj,
           \A i \in PlayerIds : body[i] # None => client'[i] = client[i] \/ client'[i] = None
    PROVE  UnitsInv'
  <1>0. OwnUnit /\ Attribution
    BY DEF IInv
  <1>1. OwnUnit'
    <2> SUFFICES ASSUME NEW t \in Slots, NEW i \in PlayerIds,
                        eph'.bySlot[t] # None, Live(i)', client'[i].ucid = eph'.bySlot[t]
                 PROVE  body'[i] # None /\ body'[i].obj = eph'.objBySlot[t]
      BY DEF OwnUnit
    <2>1. Live(i) /\ client[i].ucid = eph.bySlot[t]
      OBVIOUS
    <2>2. body[i] # None /\ body[i].obj = eph.objBySlot[t]
      BY <1>0, <2>1 DEF OwnUnit
    <2> QED BY <2>2
  <1>2. Attribution'
    <2> SUFFICES ASSUME NEW t \in Slots, eph'.bySlot[t] # None
                 PROVE  \E i \in PlayerIds : Attributed(t, i)'
      BY DEF Attribution
    <2>1. PICK i \in PlayerIds : Attributed(t, i)
      BY <1>0 DEF Attribution
    <2>2. Attributed(t, i)'
      BY <2>1 DEF Attributed
    <2> QED BY <2>2
  <1> QED BY <1>1, <1>2 DEF UnitsInv

\* A birth that seats its player keeps the slot maps and the units right.
LEMMA BirthLemma ==
    ASSUME IInv, NEW id \in PlayerIds, NEW o \in Objs, BirthEntersSlot(id, o)
    PROVE  TablesInv' /\ UnitsInv'
  <1> DEFINE s == granted[id]
             u == client[id].ucid
             e == EvictedEph(s, u)
  <1>0. /\ TypeOK /\ SlotAgreement /\ ObjsUsed /\ OwnUnit /\ Attribution /\ OneLive
        /\ Inverse(eph) /\ Carried(eph)
        /\ None \notin Objs /\ None \notin Slots /\ None \notin Ucids
    BY MapsForm, SlotKinds, NoneFresh DEF IInv, Seats
  <1>1. Born(id, o)
    BY DEF BirthEntersSlot
  <1>2. s \in Slots /\ u \in Ucids /\ PlayerOf(id) = u /\ eph.slotByObj[o] = None
        /\ \A t \in Slots : eph.bySlot[t] # u
    BY <1>1, BornLemma
  <1>3. /\ e \in EphTables /\ Inverse(e) /\ Carried(e) /\ e.bySlot[s] = None
        /\ \A t \in Slots \ {s} : /\ e.bySlot[t] = eph.bySlot[t]
                                  /\ e.objBySlot[t] = eph.objBySlot[t]
        /\ \A p \in Objs : e.slotByObj[p] # None => eph.slotByObj[p] # None
        /\ EvictedSlots(s, u) \in [Ucids -> Slots \cup {None}]
        /\ \A v \in Ucids : EvictedSlots(s, u)[v] # currentSlot[v] => eph.bySlot[s] = v
    BY <1>0, <1>2, EvictedLemma
  <1>4. eph' = Seated(e, o, s, u)
        /\ currentSlot' = [EvictedSlots(s, u) EXCEPT ![u] = s]
    BY <1>2 DEF BirthEntersSlot
  <1>5. e.slotByObj[o] = None
    BY <1>2, <1>3
  <1> HIDE DEF e
  <1>6. /\ Inverse(eph') /\ Carried(eph')
        /\ \A t \in Slots : /\ eph'.bySlot[t] = IF t = s THEN u ELSE eph.bySlot[t]
                            /\ eph'.objBySlot[t] = IF t = s THEN o ELSE eph.objBySlot[t]
        /\ \A p \in Objs : eph'.slotByObj[p] = IF p = o THEN s ELSE e.slotByObj[p]
    BY <1>2, <1>3, <1>4, <1>5, SeatedLemma
  <1>7. SlotAgreement'
    <2> SUFFICES ASSUME NEW t \in Slots, eph'.bySlot[t] # None
                 PROVE  currentSlot'[eph'.bySlot[t]] = t
      BY DEF SlotAgreement
    <2>1. CASE t = s
      BY <1>2, <1>3, <1>4, <1>6, <2>1
    <2>2. CASE t # s
      <3> DEFINE v == eph.bySlot[t]
      <3>1. eph'.bySlot[t] = v /\ v \in Ucids /\ v # u /\ currentSlot[v] = t
        BY <1>0, <1>2, <1>6, <2>2 DEF TypeOK, EphTables, SlotAgreement
      <3>2. eph.bySlot[s] # v
        BY <1>0, <1>2, <2>2, <3>1 DEF SlotAgreement
      <3>3. EvictedSlots(s, u)[v] = t
        BY <1>3, <3>1, <3>2
      <3> QED BY <1>2, <1>3, <1>4, <3>1, <3>3
    <2> QED BY <2>1, <2>2
  <1>8. ObjsUsed'
    BY <1>0, <1>1, <1>3, <1>6 DEF ObjsUsed, Born
  <1>9. /\ client' = client /\ abandoned' = abandoned /\ Live(id) /\ body[id] = None
        /\ body'[id] # None /\ body'[id].obj = o /\ body'[id].slot = s
        /\ \A i \in PlayerIds \ {id} : body'[i] = body[i]
    <2>1. [obj |-> o, slot |-> s, alive |-> TRUE] \in Bodies
      BY <1>2 DEF Bodies
    <2>2. body' = [body EXCEPT ![id] = [obj |-> o, slot |-> s, alive |-> TRUE]]
      BY DEF BirthEntersSlot, Flying
    <2> QED BY <1>0, <1>1, <2>1, <2>2, NoneIsNoBody DEF Born, TypeOK
  <1>10. OwnUnit'
    <2> SUFFICES ASSUME NEW t \in Slots, NEW i \in PlayerIds,
                        eph'.bySlot[t] # None, Live(i)', client'[i].ucid = eph'.bySlot[t]
                 PROVE  body'[i] # None /\ body'[i].obj = eph'.objBySlot[t]
      BY DEF OwnUnit
    <2>1. Live(i) /\ client[i].ucid = eph'.bySlot[t]
      BY <1>9 DEF Live
    <2>2. CASE t = s
      <3>1. i = id
        BY <1>0, <1>6, <1>9, <2>1, <2>2 DEF OneLive
      <3> QED BY <1>6, <1>9, <2>2, <3>1
    <2>3. CASE t # s
      <3>1. body[i] # None /\ body[i].obj = eph.objBySlot[t]
        BY <1>0, <1>6, <2>1, <2>3 DEF OwnUnit
      <3> QED BY <1>6, <1>9, <2>3, <3>1
    <2> QED BY <2>2, <2>3
  <1>11. Attribution'
    <2> SUFFICES ASSUME NEW t \in Slots, eph'.bySlot[t] # None
                 PROVE  \E i \in PlayerIds : Attributed(t, i)'
      BY DEF Attribution
    <2>1. CASE t = s
      <3>1. Attributed(t, id)'
        BY <1>6, <1>9, <2>1 DEF Attributed
      <3> QED BY <3>1
    <2>2. CASE t # s
      <3>1. PICK i \in PlayerIds : Attributed(t, i)
        BY <1>0, <1>6, <2>2 DEF Attribution
      <3>2. Attributed(t, i)'
        BY <1>6, <1>9, <2>2, <3>1 DEF Attributed
      <3> QED BY <3>2
    <2> QED BY <2>1, <2>2
  <1> QED BY <1>6, <1>7, <1>8, <1>10, <1>11 DEF TablesInv, UnitsInv

\* Every callback keeps the slot maps and the units right.
LEMMA SlotStep == IInv /\ [Next]_vars => TablesInv' /\ UnitsInv'
  <1> SUFFICES ASSUME IInv, [Next]_vars PROVE TablesInv' /\ UnitsInv'
    OBVIOUS
  <1>0. /\ TypeOK /\ SlotAgreement /\ ClientsMatch /\ eph \in EphTables
        /\ Inverse(eph) /\ Carried(eph)
    BY MapsForm DEF IInv, TypeOK
  <1>1. ASSUME NEW id \in PlayerIds, NEW ifo \in PlayerInfo, Connect(id, ifo)
        PROVE  TablesInv' /\ UnitsInv'
    <2>1. ifo.ucid \in Ucids /\ player_deslot(ifo.ucid) /\ used' = used /\ body' = body
          /\ body[id] = None
      BY <1>1 DEF PlayerInfo, Connect
    <2>2. \A i \in PlayerIds : client'[i] = IF i = id THEN ifo ELSE client[i]
      BY <1>0, <1>1 DEF Connect, TypeOK
    <2>3. abandoned \subseteq abandoned'
      BY <1>1 DEF Connect, Abandon
    <2> QED BY <2>1, <2>2, <2>3, VacateLemma, UnitsLemma DEF Live
  <1>2. ASSUME NEW id \in PlayerIds, NEW ifo \in PlayerInfo, ConnectRefused(id, ifo)
        PROVE  TablesInv' /\ UnitsInv'
    BY <1>0, <1>2, KeepLemma, UnitsLemma DEF ConnectRefused, Abandon, Live
  <1>3. ASSUME NEW id \in PlayerIds, Disconnect(id)
        PROVE  TablesInv' /\ UnitsInv'
    <2>1. /\ abandoned' = abandoned \ {id} /\ used' = used
          /\ \A i \in PlayerIds : client'[i] = IF i = id THEN None ELSE client[i]
      <3>1. abandoned' = abandoned \ {id} /\ used' = used /\ client' = [client EXCEPT ![id] = None]
        BY <1>3 DEF Disconnect
      <3> QED BY <1>0, <3>1 DEF TypeOK
    <2>2. \A i \in PlayerIds : body[i] # None =>
             body'[i] # None /\ body'[i].obj = body[i].obj /\ body'[i].slot = body[i].slot
      <3>1. body' = [body EXCEPT ![id] = IF body[id] = None THEN None
                                         ELSE [body[id] EXCEPT !.alive = FALSE]]
        BY <1>3 DEF Disconnect
      <3>2. \A b \in Bodies : /\ [b EXCEPT !.alive = FALSE] \in Bodies
                              /\ [b EXCEPT !.alive = FALSE].obj = b.obj
                              /\ [b EXCEPT !.alive = FALSE].slot = b.slot
        BY DEF Bodies
      <3> QED BY <1>0, <3>1, <3>2, NoneIsNoBody DEF TypeOK
    <2>3. CASE connected.info[id] = None
      <3>1. eph' = eph /\ currentSlot' = currentSlot
        BY <1>3, <2>3 DEF Disconnect
      <3>2. TablesInv'
        BY <1>0, <2>1, <3>1, KeepLemma
      <3> QED BY <2>1, <2>2, <3>1, <3>2, UnitsLemma DEF Live
    <2>4. CASE connected.info[id] # None
      <3>1. connected.info[id].ucid \in Ucids /\ player_deslot(connected.info[id].ucid)
        <4>1. player_deslot(connected.info[id].ucid)
          BY <1>3, <2>4 DEF Disconnect
        <4> QED BY <1>0, <2>4, <4>1 DEF TypeOK, Tables, PlayerInfo
      <3> QED BY <2>1, <2>2, <3>1, VacateLemma, UnitsLemma DEF Live
    <2> QED BY <2>3, <2>4
  <1>4. ASSUME eph'.bySlot = eph.bySlot, eph'.objBySlot = eph.objBySlot,
               eph'.slotByObj = eph.slotByObj, Carried(eph'), currentSlot' = currentSlot,
               used \subseteq used', client' = client, abandoned' = abandoned,
               \A i \in PlayerIds : body[i] # None =>
                  body'[i] # None /\ body'[i].obj = body[i].obj /\ body'[i].slot = body[i].slot
        PROVE  TablesInv' /\ UnitsInv'
    BY <1>4, KeepLemma, UnitsLemma DEF Live
  <1>5. ASSUME NEW id \in PlayerIds, NEW s \in Seats, Granted(id, s)
        PROVE  TablesInv' /\ UnitsInv'
    <2>1. /\ eph'.bySlot = eph.bySlot /\ eph'.objBySlot = eph.objBySlot
          /\ eph'.slotByObj = eph.slotByObj /\ eph'.cargo = eph.cargo
      BY <1>0, <1>5 DEF Granted, EphTables
    <2>2. Carried(eph')
      BY <1>0, <2>1 DEF Carried
    <2> QED BY <1>4, <1>5, <2>1, <2>2 DEF Granted
  <1>6. ASSUME NEW id \in PlayerIds, RequestRefused(id)
        PROVE  TablesInv' /\ UnitsInv'
    BY <1>0, <1>4, <1>6 DEF RequestRefused, dcs
  <1>7. ASSUME NEW id \in PlayerIds, Vanish(id)
        PROVE  TablesInv' /\ UnitsInv'
    <2>1. \A b \in Bodies : /\ [b EXCEPT !.alive = FALSE] \in Bodies
                            /\ [b EXCEPT !.alive = FALSE].obj = b.obj
                            /\ [b EXCEPT !.alive = FALSE].slot = b.slot
      BY DEF Bodies
    <2>2. body' = [body EXCEPT ![id] = [body[id] EXCEPT !.alive = FALSE]] /\ body[id] # None
      BY <1>7 DEF Vanish
    <2>3. \A i \in PlayerIds : body[i] # None =>
             body'[i] # None /\ body'[i].obj = body[i].obj /\ body'[i].slot = body[i].slot
      BY <1>0, <2>1, <2>2, NoneIsNoBody DEF TypeOK
    <2> QED BY <1>0, <1>4, <1>7, <2>3 DEF Vanish, db
  <1>8. ASSUME NEW id \in PlayerIds, NEW o \in Objs, BirthWithoutLives(id, o)
        PROVE  TablesInv' /\ UnitsInv'
    <2> DEFINE s == granted[id]
               u == client[id].ucid
               e == EvictedEph(s, u)
    <2>1. Born(id, o)
      BY <1>8 DEF BirthWithoutLives
    <2>2. /\ s \in Slots /\ u \in Ucids /\ PlayerOf(id) = u
          /\ \A t \in Slots : eph.bySlot[t] # u
      BY <2>1, BornLemma
    <2>3. /\ e \in EphTables /\ Inverse(e) /\ Carried(e) /\ e.bySlot[s] = None
          /\ \A t \in Slots \ {s} : /\ e.bySlot[t] = eph.bySlot[t]
                                    /\ e.objBySlot[t] = eph.objBySlot[t]
          /\ \A p \in Objs : e.slotByObj[p] # None => eph.slotByObj[p] # None
          /\ EvictedSlots(s, u) \in [Ucids -> Slots \cup {None}]
          /\ \A v \in Ucids : EvictedSlots(s, u)[v] # currentSlot[v] => eph.bySlot[s] = v
      BY <1>0, <2>2, EvictedLemma
    <2>4. /\ eph' = IF currentSlot[u] = None THEN e ELSE EphDeslot(e, currentSlot[u])
          /\ currentSlot' = [EvictedSlots(s, u) EXCEPT ![u] = None]
      BY <1>8, <2>2 DEF BirthWithoutLives
    <2> HIDE DEF e
    <2>5. /\ Inverse(eph') /\ Carried(eph')
          /\ \A t \in Slots :
                eph'.bySlot[t] # None => /\ t # s
                                         /\ eph'.bySlot[t] = eph.bySlot[t]
                                         /\ eph'.objBySlot[t] = eph.objBySlot[t]
          /\ \A p \in Objs : eph'.slotByObj[p] # None => eph.slotByObj[p] # None
      <3>1. CASE currentSlot[u] = None
        BY <2>3, <2>4, <3>1
      <3>2. CASE currentSlot[u] # None
        BY <1>0, <2>2, <2>3, <2>4, <3>2, DeslotLemma DEF TypeOK
      <3> QED BY <3>1, <3>2
    <2>6. SlotAgreement'
      <3> SUFFICES ASSUME NEW t \in Slots, eph'.bySlot[t] # None
                   PROVE  currentSlot'[eph'.bySlot[t]] = t
        BY DEF SlotAgreement
      <3> DEFINE v == eph.bySlot[t]
      <3>1. eph'.bySlot[t] = v /\ v \in Ucids /\ v # u /\ currentSlot[v] = t /\ t # s
        BY <1>0, <2>2, <2>5 DEF EphTables, SlotAgreement
      <3>2. EvictedSlots(s, u)[v] = t
        BY <1>0, <2>2, <2>3, <3>1, NoneFresh DEF SlotAgreement
      <3> QED BY <2>3, <2>4, <3>1, <3>2
    <2>7. ObjsUsed'
      BY <2>1, <2>5 DEF ObjsUsed, Born, IInv
    <2>8. body' = body /\ client' = client /\ abandoned' = abandoned
      BY <1>8 DEF BirthWithoutLives, Born
    <2> QED BY <2>5, <2>6, <2>7, <2>8, UnitsLemma DEF TablesInv, Live
  <1>9. ASSUME NEW id \in PlayerIds, NEW o \in Objs,
               BirthDenied(id, o) \/ BirthUnplaced(id, o)
        PROVE  TablesInv' /\ UnitsInv'
    <2>1. /\ Born(id, o)
          /\ eph'.bySlot = eph.bySlot /\ eph'.objBySlot = eph.objBySlot
          /\ eph'.slotByObj = eph.slotByObj /\ eph'.cargo = eph.cargo /\ currentSlot' = currentSlot
      BY <1>0, <1>9 DEF BirthDenied, BirthUnplaced, EphTables
    <2>2. \A i \in PlayerIds : body[i] # None => body'[i] = body[i]
      BY <1>0, <1>9, <2>1 DEF BirthDenied, BirthUnplaced, Flying, Born, TypeOK
    <2>3. Carried(eph')
      BY <1>0, <2>1 DEF Carried
    <2> QED BY <1>4, <2>1, <2>2, <2>3 DEF Born
  <1>10. ASSUME NEW s \in Slots, NEW o \in Objs, BirthWithoutPlayer(s, o)
         PROVE  TablesInv' /\ UnitsInv'
    BY <1>0, <1>4, <1>10 DEF BirthWithoutPlayer
  <1>11. ASSUME NEW o \in Objs, Reported(o)
         PROVE  \A i \in PlayerIds : body[i] # None =>
                   body'[i] = body[i] \/ body[i].obj = o
    BY <1>11 DEF Reported
  <1>12. ASSUME NEW o \in Objs, unit_dead(o), Reported(o),
                UNCHANGED <<currentSlot, used, client, abandoned>>
         PROVE  TablesInv' /\ UnitsInv'
    BY <1>11, <1>12, KillLemma, UnitsLemma DEF Live
  <1>13. ASSUME NEW o \in Objs, UnitKilled(o)
         PROVE  TablesInv' /\ UnitsInv'
    BY <1>12, <1>13 DEF UnitKilled
  <1>14. ASSUME NEW s \in Slots, PositionPollFindsDead(s)
         PROVE  TablesInv' /\ UnitsInv'
    <2> DEFINE o == eph.objBySlot[currentSlot[eph.bySlot[s]]]
    <2>1. o \in Objs /\ unit_dead(o) /\ Reported(o)
      BY <1>0, <1>14 DEF PositionPollFindsDead, TypeOK, EphTables
    <2> HIDE DEF o
    <2> QED BY <1>12, <1>14, <2>1 DEF PositionPollFindsDead
  <1>15. ASSUME NEW o \in Objs, PlayerLeaveUnit(o)
         PROVE  TablesInv' /\ UnitsInv'
    <2> DEFINE s == eph.slotByObj[o]
    <2>1. Reported(o) /\ UNCHANGED <<client, abandoned, used>>
      BY <1>15 DEF PlayerLeaveUnit
    <2>2. CASE s = None
      <3>1. eph' = eph /\ currentSlot' = currentSlot
        BY <1>15, <2>2 DEF PlayerLeaveUnit
      <3>2. \A t \in Slots : eph.objBySlot[t] # o
        BY <1>0, <2>2, SlotKinds DEF Inverse, Seats
      <3>3. TablesInv'
        BY <1>0, <2>1, <3>1, KeepLemma
      <3> QED BY <1>11, <2>1, <3>1, <3>2, <3>3, UnitsLemma DEF Live
    <2>3. CASE s # None
      <3> DEFINE v == eph.bySlot[s]
      <3>1. s \in Slots /\ eph.objBySlot[s] = o /\ v \in Ucids /\ v # None
        BY <1>0, <2>3, SlotKinds DEF Inverse, EphTables, Seats
      <3>2. player_deslot(v)
        BY <1>15, <2>3, <3>1 DEF PlayerLeaveUnit
      <3>3. \A t \in Slots : t # s => eph.objBySlot[t] # o
        BY <1>0, <3>1 DEF Inverse
      <3>4. \A t \in Slots : eph'.bySlot[t] # None => t # s
        BY <2>1, <3>1, <3>2, VacateLemma
      <3> HIDE DEF s, v
      <3>5. \A i \in PlayerIds : body[i] # None =>
               \/ body'[i] = body[i]
               \/ \A t \in Slots : eph'.bySlot[t] # None => eph'.objBySlot[t] # body[i].obj
        BY <1>11, <2>1, <3>1, <3>2, <3>3, <3>4, VacateLemma
      <3> QED BY <2>1, <3>1, <3>2, <3>5, VacateLemma, UnitsLemma DEF Live
    <2> QED BY <2>2, <2>3
  <1>16. ASSUME NEW failing \in SUBSET Ucids, ForceToSpectators(failing)
         PROVE  TablesInv' /\ UnitsInv'
    <2>1. /\ eph'.bySlot = eph.bySlot /\ eph'.objBySlot = eph.objBySlot
          /\ eph'.slotByObj = eph.slotByObj /\ eph'.cargo = eph.cargo
      BY <1>0, <1>16 DEF ForceToSpectators, EphTables
    <2>2. Carried(eph')
      BY <1>0, <2>1 DEF Carried
    <2> QED BY <1>4, <1>16, <2>1, <2>2 DEF ForceToSpectators
  <1>17. ASSUME NEW u \in Ucids, AdminDeslot(u)
         PROVE  TablesInv' /\ UnitsInv'
    <2>1. /\ eph'.bySlot = eph.bySlot /\ eph'.objBySlot = eph.objBySlot
          /\ eph'.slotByObj = eph.slotByObj /\ eph'.cargo = eph.cargo
      BY <1>0, <1>17 DEF AdminDeslot, EphTables
    <2>2. Carried(eph')
      BY <1>0, <2>1 DEF Carried
    <2> QED BY <1>4, <1>17, <2>1, <2>2 DEF AdminDeslot, dcs
  <1>18. ASSUME NEW s \in Slots, LoadCargo(s) \/ UnloadCargo(s)
         PROVE  TablesInv' /\ UnitsInv'
    <2>1. /\ eph'.bySlot = eph.bySlot /\ eph'.objBySlot = eph.objBySlot
          /\ eph'.slotByObj = eph.slotByObj /\ eph'.cargo \subseteq eph.cargo \cup {s}
          /\ eph.bySlot[s] # None
      BY <1>0, <1>18 DEF LoadCargo, UnloadCargo, EphTables
    <2>2. Carried(eph')
      BY <1>0, <2>1 DEF Carried
    <2> QED BY <1>4, <1>18, <2>1, <2>2 DEF LoadCargo, UnloadCargo, dcs
  <1>19. ASSUME MissionRestart
         PROVE  TablesInv' /\ UnitsInv'
    <2>1. eph' = NoEph
      BY <1>19 DEF MissionRestart
    <2> QED BY <2>1, SlotKinds DEF TablesInv, UnitsInv, Inverse, Carried, SlotAgreement, ObjsUsed,
                                   OwnUnit, Attribution, NoEph, Seats
  <1>20. ASSUME UNCHANGED vars
         PROVE  TablesInv' /\ UnitsInv'
    BY <1>0, <1>4, <1>20 DEF vars
  <1> QED
    <2>1. ASSUME NEW id \in PlayerIds,
                 \/ RequestSpectators(id) \/ RequestObservers(id)
                 \/ \E s \in Slots : RequestKnownSlot(id, s) \/ RequestUnknownSlot(id, s)
          PROVE  TablesInv' /\ UnitsInv'
      BY <1>5, <2>1 DEF RequestSpectators, RequestObservers, RequestKnownSlot,
                        RequestUnknownSlot, Seats
    <2> QED BY <1>1, <1>2, <1>3, <1>6, <1>7, <1>8, <1>9, <1>10, <1>13, <1>14, <1>15, <1>16,
               <1>17, <1>18, <1>19, <1>20, <2>1, BirthLemma
            DEF Next

-----------------------------------------------------------------------------
(* The theorems *)

\* The strengthened invariant is inductive.
THEOREM Inductive == Spec => []IInv
  <1>1. Init => IInv
    BY InitInv
  <1>2. IInv /\ [Next]_vars => IInv'
    <2> SUFFICES ASSUME IInv, [Next]_vars PROVE IInv'
      OBVIOUS
    <2>1. TypeOK' /\ ConnInv' /\ TablesInv' /\ UnitsInv'
      BY TypeStep, ConnStep, SlotStep
    <2>2. (ObjectMapsInverse /\ CargoHasCarrier)'
      BY <2>1 DEF TablesInv, Inverse, Carried, ObjectMapsInverse, CargoHasCarrier
    <2> QED BY <2>1, <2>2 DEF IInv, ConnInv, TablesInv, UnitsInv
  <1> QED BY <1>1, <1>2, PTL DEF Spec

\* Every variable keeps its type whatever callbacks DCS makes.
THEOREM TypeCorrect == Spec => []TypeOK
  BY Inductive, PTL DEF IInv

\* The slot map and the players' own records never put one player in two slots: Db and
\* Ephemeral agree on where a player is whenever the map knows him (db/player.rs,
\* db/ephemeral.rs).
THEOREM Agreement == Spec => []SlotAgreement
  BY Inductive, PTL DEF IInv

\* object_id_by_slot and slot_by_object_id stay inverses over exactly the occupied slots
\* (db/ephemeral.rs).
THEOREM MapsInverse == Spec => []ObjectMapsInverse
  BY Inductive, PTL DEF IInv

\* The unit of an occupied slot was born to a client of the player the map names, so an
\* event about it reaches the right player (lib.rs on_event, db/group.rs unit_born).
THEOREM UnitsAttributed == Spec => []Attribution
  BY Inductive, PTL DEF IInv

\* No cargo is left behind in a slot without a player (Ephemeral.cargo).
THEOREM CargoCarried == Spec => []CargoHasCarrier
  BY Inductive, PTL DEF IInv

\* The three connection tables describe the same clients (struct Connected, lib.rs).
THEOREM TablesConsistent == Spec => []ConnectedConsistent
  BY Inductive, PTL DEF IInv

-----------------------------------------------------------------------------
(* The queue for spectators *)

\* Leaving a slot takes nobody out of the queue, nor does a death or an eviction at birth.
LEMMA DeslotKeepsQueue ==
    ASSUME NEW e, e.forced = eph.forced
    PROVE  /\ \A s : eph.forced \subseteq EphDeslot(e, s).forced
           /\ \A u : eph.forced \subseteq DbDeslot(e, u).forced
  BY DEF EphDeslot, DbDeslot

\* The callbacks that are no request, no move to spectators and no restart only add to it.
LEMMA QueueKept ==
    ASSUME IInv, [Next]_vars,
           \A id \in PlayerIds, s \in Seats : ~Granted(id, s),
           \A failing \in SUBSET Ucids : ~ForceToSpectators(failing),
           ~MissionRestart
    PROVE  eph.forced \subseteq eph'.forced
  <1>0. TypeOK /\ Inverse(eph) /\ Carried(eph) /\ SlotAgreement
    BY MapsForm DEF IInv
  <1>1. eph \in EphTables /\ Slots \in SUBSET Seats /\ Spectators \in Seats /\ Observers \in Seats
    BY <1>0 DEF TypeOK, Seats
  <1>2. ASSUME NEW u, player_deslot(u)
        PROVE  eph.forced \subseteq eph'.forced
    BY <1>2, DeslotKeepsQueue DEF player_deslot
  <1>3. ASSUME NEW o, unit_dead(o)
        PROVE  eph.forced \subseteq eph'.forced
    <2> DEFINE e == [eph EXCEPT !.slotByObj[o] = None]
    <2>1. e.forced = eph.forced
      BY <1>1 DEF EphTables
    <2>2. eph' = eph \/ eph' = EphDeslot(e, eph.slotByObj[o])
      BY <1>3 DEF unit_dead
    <2> HIDE DEF e
    <2> QED BY <2>1, <2>2, DeslotKeepsQueue
  <1>4. \A id \in PlayerIds : ~(RequestSpectators(id) \/ RequestObservers(id))
    BY <1>1 DEF RequestSpectators, RequestObservers
  <1>5. \A id \in PlayerIds, s \in Slots : ~(RequestKnownSlot(id, s) \/ RequestUnknownSlot(id, s))
    BY <1>1 DEF RequestKnownSlot, RequestUnknownSlot
  <1>6. ASSUME NEW id \in PlayerIds, NEW ifo \in PlayerInfo, Connect(id, ifo)
        PROVE  eph.forced \subseteq eph'.forced
    BY <1>2, <1>6 DEF Connect
  <1>7. ASSUME NEW id \in PlayerIds, Disconnect(id)
        PROVE  eph.forced \subseteq eph'.forced
    BY <1>2, <1>7 DEF Disconnect
  <1>8. \A s, u : eph.forced \subseteq EvictedEph(s, u).forced
    BY DeslotKeepsQueue DEF EvictedEph
  <1>9. ASSUME NEW id \in PlayerIds, NEW o \in Objs,
               BirthEntersSlot(id, o) \/ BirthWithoutLives(id, o)
        PROVE  eph.forced \subseteq eph'.forced
    <2> DEFINE s == granted[id]
               u == client[id].ucid
               e == EvictedEph(s, u)
    <2>1. Born(id, o)
      BY <1>9 DEF BirthEntersSlot, BirthWithoutLives
    <2>2. s \in Slots /\ u \in Ucids /\ PlayerOf(id) = u
          /\ \A t \in Slots : eph.bySlot[t] # u
      BY <2>1, BornLemma
    <2>3. e \in EphTables /\ eph.forced \subseteq e.forced
      BY <1>0, <1>8, <2>2, EvictedLemma
    <2>4. CASE BirthEntersSlot(id, o)
      <3>1. eph' = Seated(e, o, s, u)
        BY <2>2, <2>4 DEF BirthEntersSlot
      <3> HIDE DEF e
      <3>2. Seated(e, o, s, u).forced = e.forced
        BY <2>3 DEF Seated, EphTables
      <3> QED BY <2>3, <3>1, <3>2
    <2>5. CASE BirthWithoutLives(id, o)
      <3>1. eph' = e \/ \E t : eph' = EphDeslot(e, t)
        BY <2>2, <2>5 DEF BirthWithoutLives
      <3> HIDE DEF e
      <3>2. \A t : e.forced \subseteq EphDeslot(e, t).forced
        BY DEF EphDeslot
      <3> QED BY <2>3, <3>1, <3>2
    <2> QED BY <1>9, <2>4, <2>5
  <1>10. ASSUME NEW id \in PlayerIds, NEW o \in Objs, BirthDenied(id, o)
         PROVE  eph.forced \subseteq eph'.forced
    BY <1>1, <1>10 DEF BirthDenied, EphTables
  <1>11. ASSUME NEW o \in Objs, PlayerLeaveUnit(o)
         PROVE  eph.forced \subseteq eph'.forced
    BY <1>2, <1>11 DEF PlayerLeaveUnit
  <1>12. ASSUME NEW o \in Objs, UnitKilled(o)
         PROVE  eph.forced \subseteq eph'.forced
    BY <1>3, <1>12 DEF UnitKilled
  <1>13. ASSUME NEW s \in Slots, PositionPollFindsDead(s)
         PROVE  eph.forced \subseteq eph'.forced
    BY <1>3, <1>13 DEF PositionPollFindsDead
  <1>14. ASSUME NEW u \in Ucids, AdminDeslot(u)
         PROVE  eph.forced \subseteq eph'.forced
    BY <1>1, <1>14 DEF AdminDeslot, EphTables
  <1>15. ASSUME NEW s \in Slots, LoadCargo(s) \/ UnloadCargo(s)
         PROVE  eph.forced \subseteq eph'.forced
    BY <1>1, <1>15 DEF LoadCargo, UnloadCargo, EphTables
  <1>16. ASSUME \/ \E id \in PlayerIds, ifo \in PlayerInfo : ConnectRefused(id, ifo)
                \/ \E id \in PlayerIds : RequestRefused(id) \/ Vanish(id)
                \/ \E id \in PlayerIds, o \in Objs : BirthUnplaced(id, o)
                \/ \E s \in Slots, o \in Objs : BirthWithoutPlayer(s, o)
                \/ UNCHANGED vars
         PROVE  eph.forced \subseteq eph'.forced
    BY <1>16 DEF ConnectRefused, RequestRefused, Vanish, db, BirthUnplaced, BirthWithoutPlayer,
                 vars
  <1> QED
    BY <1>4, <1>5, <1>6, <1>7, <1>9, <1>10, <1>11, <1>12, <1>13, <1>14, <1>15, <1>16 DEF Next

\* Who is queued for spectators and whom the timer's step leaves out of the queue sits there,
\* or has no connection on record: its connection, if it has one, is the one DCS moved.
LEMMA MovedOrUnknown ==
    ASSUME IInv, NEW failing \in SUBSET Ucids, ForceToSpectators(failing),
           NEW u \in eph.forced, u \notin eph'.forced
    PROVE  \/ \E i \in PlayerIds : /\ client[i] # None /\ client[i].ucid = u
                                   /\ seat'[i] = Spectators
           \/ connected'.byUcid[u] = None
  <1> DEFINE i == connected.byUcid[u]
             stuck == {v \in eph.forced \cap failing :
                         /\ connected.byUcid[v] # None
                         /\ seat[connected.byUcid[v]] # Spectators}
             moved == {v \in eph.forced \ failing : connected.byUcid[v] # None}
             ids == {connected.byUcid[v] : v \in moved}
  <1>0. eph \in EphTables /\ connected \in Tables /\ seat \in [PlayerIds -> Seats \cup {None}]
        /\ Consistent(connected) /\ ClientsMatch
    BY DEF IInv, TypeOK, ConnectedConsistent
  <1>1. eph' = [eph EXCEPT !.forced = stuck]
        /\ seat' = [j \in PlayerIds |-> IF j \in ids THEN Spectators ELSE seat[j]]
        /\ connected' = connected
    BY DEF ForceToSpectators
  <1>2. u \notin stuck /\ u \in Ucids
    BY <1>0, <1>1 DEF EphTables
  <1>3. CASE i = None
    BY <1>1, <1>3
  <1>4. CASE i # None
    <2>1. i \in PlayerIds /\ connected.info[i] # None /\ connected.info[i].ucid = u
      BY <1>0, <1>2, <1>4 DEF Consistent, Tables
    <2>2. client[i] # None /\ client[i].ucid = u
      BY <1>0, <2>1 DEF ClientsMatch
    <2>3. u \notin failing => i \in ids
      BY <1>4
    <2>4. u \in failing => seat[i] = Spectators
      BY <1>2, <1>4
    <2> HIDE DEF i, ids
    <2>5. seat'[i] = Spectators
      BY <1>1, <2>1, <2>3, <2>4
    <2> QED BY <2>1, <2>2, <2>5
  <1> QED BY <1>3, <1>4

\* Nobody queued for spectators is forgotten: he leaves the queue only when he sits there, when
\* no connection of his is on record, or when a later request of his was granted, whatever
\* callbacks come before the timer and however often DCS fails to move him
\* (force_players_to_spectators).
THEOREM QueuedAreMoved == Spec => ForcedNotForgotten
  <1> DEFINE Leaves(u) ==
          \/ \E i \in PlayerIds :
                /\ client[i] # None /\ client[i].ucid = u
                /\ seat'[i] = Spectators \/ \E s \in Seats : Granted(i, s)
          \/ connected'.byUcid[u] = None
  <1>1. ASSUME IInv, [Next]_vars, NEW u \in eph.forced \ eph'.forced
        PROVE  Leaves(u)
    <2>0. eph \in EphTables /\ u \in Ucids
      BY <1>1 DEF IInv, TypeOK, EphTables
    <2>1. ASSUME NEW id \in PlayerIds, NEW s \in Seats, Granted(id, s)
          PROVE  Leaves(u)
      <3>1. eph'.forced = eph.forced \ {client[id].ucid} /\ client[id] # None
        BY <2>0, <2>1 DEF Granted, Live, EphTables
      <3>2. client[id].ucid = u
        BY <1>1, <3>1
      <3> QED BY <2>1, <3>1, <3>2
    <2>2. ASSUME NEW failing \in SUBSET Ucids, ForceToSpectators(failing)
          PROVE  Leaves(u)
      BY <1>1, <2>2, MovedOrUnknown
    <2>3. CASE MissionRestart
      BY <2>0, <2>3 DEF MissionRestart, NoTables
    <2> QED BY <1>1, <2>1, <2>2, <2>3, QueueKept
  <1>2. IInv /\ [Next]_vars => [\A u \in eph.forced \ eph'.forced : Leaves(u)]_vars
    BY <1>1
  <1> QED BY <1>2, Inductive, PTL DEF Spec, ForcedNotForgotten
=============================================================================
