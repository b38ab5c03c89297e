----------------------------- MODULE Connected -----------------------------
(***************************************************************************)
(* The table of connected clients kept by bflib (struct Connected in       *)
(* lib.rs): who is behind each DCS player id, and the two reverse maps by  *)
(* which the rest of the program finds a client (by ucid when it must be   *)
(* forced out of a slot, by name when a unit is born).                     *)
(*                                                                         *)
(* The address a client connects from is checked for uniqueness exactly as *)
(* its name is; one name stands for both.                                  *)
(***************************************************************************)
CONSTANTS PlayerIds,   \* DCS connection numbers; DCS reuses them
          Ucids,       \* DCS accounts
          Names,       \* callsigns
          None         \* "no value" (Option::None)

ASSUME NoneFresh == None \notin PlayerIds /\ None \notin Ucids /\ None \notin Names

PlayerInfo == [ucid : Ucids, name : Names]

ASSUME NoneIsNoInfo == None \notin PlayerInfo

Tables == [info : [PlayerIds -> PlayerInfo \cup {None}],
           byUcid : [Ucids -> PlayerIds \cup {None}],
           byName : [Names -> PlayerIds \cup {None}]]

NoTables == [info |-> [i \in PlayerIds |-> None],
             byUcid |-> [u \in Ucids |-> None],
             byName |-> [n \in Names |-> None]]

\* Mutant of player_disconnected: the name stays taken.
DisconnectKeepsName(c, id) ==
    IF c.info[id] = None
    THEN c
    ELSE [c EXCEPT !.info[id] = None, !.byUcid[c.info[id].ucid] = None]

\* Connected::player_disconnected: forget the client and both its reverse entries.
player_disconnected(c, id) ==
    IF c.info[id] = None
    THEN c
    ELSE [info |-> [c.info EXCEPT ![id] = None],
          byUcid |-> [c.byUcid EXCEPT ![c.info[id].ucid] = None],
          byName |-> [c.byName EXCEPT ![c.info[id].name] = None]]

\* Mutant of Superseded: the older connection of the account is kept.
SupersededIsKept(c, ucid) == c

\* The first half of Connected::player_connected: an older connection of the same
\* account is forgotten, whether or not the new one is then accepted.
Superseded(c, ucid) ==
    IF c.byUcid[ucid] = None
    THEN c
    ELSE player_disconnected([c EXCEPT !.byUcid[ucid] = None], c.byUcid[ucid])

NameTaken(c, ifo) == Superseded(c, ifo.ucid).byName[ifo.name] # None

Enrolled(c, id, ifo) ==
    [info |-> [c.info EXCEPT ![id] = ifo],
     byUcid |-> [c.byUcid EXCEPT ![ifo.ucid] = id],
     byName |-> [c.byName EXCEPT ![ifo.name] = id]]

\* Connected::player_connected: the tables it leaves behind on either outcome.
player_connected(c, id, ifo) ==
    IF NameTaken(c, ifo)
    THEN Superseded(c, ifo.ucid)
    ELSE Enrolled(Superseded(c, ifo.ucid), id, ifo)

\* The three tables describe the same set of clients: every client is found by its
\* account and by its name, and a reverse entry never leads to somebody else.
Consistent(c) ==
    /\ \A i \in PlayerIds :
          c.info[i] # None => /\ c.byUcid[c.info[i].ucid] = i
                              /\ c.byName[c.info[i].name] = i
    /\ \A u \in Ucids :
          c.byUcid[u] # None => /\ c.info[c.byUcid[u]] # None
                                /\ c.info[c.byUcid[u]].ucid = u
    /\ \A n \in Names :
          c.byName[n] # None => /\ c.info[c.byName[n]] # None
                                /\ c.info[c.byName[n]].name = n
=============================================================================
