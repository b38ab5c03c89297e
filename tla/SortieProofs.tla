--------------------------- MODULE SortieProofs ---------------------------
(***************************************************************************)
(* No flight holds two lives, a pilot noted as airborne has one out, and   *)
(* no refund exceeds what was paid for the flight: for any pilots, units,  *)
(* bases, life types and costs.  SortieInv is about lives; RefundInv adds  *)
(* the points, that for whoever can land the charge, or what came aboard   *)
(* uncharged, covers what he brings.                                       *)
(***************************************************************************)
EXTENDS Sortie, FoldLemmas

Places == Ground \cup {Air, Nowhere}

Kinds == /\ unit \in [Units -> [pilot : Players \cup {None}, type : Types,
                                load : 0..Weapons, place : Places]]
         /\ life \in [Units -> [out : Nat, gifts : Nat]]
         /\ staked \in [Players -> Types \cup {None}]
         /\ airborne \subseteq Units /\ landed \subseteq Units /\ due \subseteq landed

\* A unit nobody was born in is nowhere, and has nothing out.
Unborn == \A u \in Units : Pilot(u) = None => ~Alive(u) /\ life[u].out = 0

\* A flight that is not settled is in exactly one of the two sets, and has a life out
\* unless it was let off; a unit that has a life out is in one of them, or lost.
Flights == /\ airborne \cap landed = {}
           /\ \A u \in airborne \cup landed : life[u].out = 1 \/ u \in dry
           /\ \A u \in Units : life[u].out = 1 => u \in airborne \cup landed \/ ~Alive(u)

SortieInv == Kinds /\ Unborn /\ (Limited => Flights) /\ OneLifePerFlight /\ StakeIsOwed

\* Who was born in a unit stays the same.
SamePilots == \A v \in Units : Pilot(v)' = Pilot(v) /\ Type(v)' = Type(v)

-----------------------------------------------------------------------------
LEMMA InitSortie == Init => SortieInv
  <1> SUFFICES ASSUME Init PROVE SortieInv
    OBVIOUS
  <1>1. Kinds
    BY ConstantsOK DEF Init, Kinds, Types, Places
  <1>2. Unborn /\ (Limited => Flights) /\ OneLifePerFlight /\ StakeIsOwed
    BY DEF Init, Unborn, Flights, OneLifePerFlight, StakeIsOwed, Pilot, Alive
  <1> QED BY <1>1, <1>2 DEF SortieInv

\* Steps that neither take nor give lives: they may end units, drop the landings of those,
\* move a unit from the air to the ground, and forget that pilots are airborne.
LEMMA Steady ==
    ASSUME SortieInv, SamePilots, life' = life, dry' = dry,
           unit' \in [Units -> [pilot : Players \cup {None}, type : Types,
                               load : 0..Weapons, place : Places]],
           \A v \in Units : Alive(v)' => Alive(v),
           staked' \in [Players -> Types \cup {None}],
           \A p \in Players : staked'[p] \in {staked[p], None},
           due' \subseteq landed', airborne' \cap landed' = {} \/ ~Limited,
           airborne' \cup landed' \subseteq airborne \cup landed,
           \A v \in airborne \cup landed : v \in airborne' \cup landed' \/ ~Alive(v)'
    PROVE  SortieInv'
  <1> USE DEF SortieInv
  <1>1. Kinds'
    BY DEF Kinds
  <1>2. Unborn'
    BY DEF Unborn, SamePilots
  <1>3. Limited => Flights'
    BY DEF Flights, Kinds
  <1>4. OneLifePerFlight'
    BY DEF OneLifePerFlight
  <1>5. StakeIsOwed'
    BY DEF StakeIsOwed, SamePilots
  <1> QED BY <1>1, <1>2, <1>3, <1>4, <1>5

\* A birth takes a unit nobody was born in.
LEMMA BirthSortie ==
    ASSUME SortieInv, NEW u \in Units, NEW p \in Players, NEW t \in Types, NEW b \in Bases,
           Born(u, p, t, b)
    PROVE  SortieInv'
  <1> USE DEF SortieInv
  <1>1. PICK w \in 0..Weapons :
          unit' = [unit EXCEPT ![u] = [pilot |-> p, type |-> t, load |-> w, place |-> b]]
    BY DEF Born
  <1>2. /\ Pilot(u) = None /\ UNCHANGED <<airborne, landed, due, life, dry, staked>>
    BY DEF Born, Pilot, history
  <1>3. \A v \in Units \ {u} : unit'[v] = unit[v]
    BY <1>1 DEF Kinds
  <1>4. unit'[u] = [pilot |-> p, type |-> t, load |-> w, place |-> b]
    BY <1>1 DEF Kinds
  <1>5. Kinds'
    BY <1>1, <1>2 DEF Kinds, Places, Ground
  <1>6. ~Alive(u) /\ life[u].out = 0
    BY <1>2 DEF Unborn
  <1>7. Unborn'
    BY <1>2, <1>3, <1>4, ConstantsOK DEF Unborn, Pilot, Alive
  <1>8. Limited => Flights'
    BY <1>2, <1>3, <1>6 DEF Flights, Alive
  <1>9. OneLifePerFlight'
    BY <1>2 DEF OneLifePerFlight
  <1>10. StakeIsOwed'
    <2> SUFFICES ASSUME Limited, NEW q \in Players, staked[q] # None
                 PROVE  \E v \in Units : Pilot(v)' = q /\ Type(v)' = staked[q] /\ life[v].out > 0
      BY <1>2 DEF StakeIsOwed
    <2>1. PICK v \in Units : Pilot(v) = q /\ Type(v) = staked[q] /\ life[v].out > 0
      BY DEF StakeIsOwed
    <2>2. v # u
      BY <2>1, <1>6
    <2> QED BY <2>1, <2>2, <1>3 DEF Pilot, Type
  <1> QED BY <1>5, <1>7, <1>8, <1>9, <1>10

\* A report of a take-off: the unit goes on with the life it has, takes one, or is let off.
LEMMA TakeoffSortie ==
    ASSUME SortieInv, NEW u \in Units, NEW place, Alive(u), TakeoffEvent(u, place), SamePilots,
           unit' \in [Units -> [pilot : Players \cup {None}, type : Types,
                               load : 0..Weapons, place : Places]],
           \A v \in Units : Alive(v)' <=> Alive(v)
    PROVE  SortieInv'
  <1> USE DEF SortieInv
  <1>1. CASE u \in born \/ u \in airborne
    <2>1. UNCHANGED <<airborne, landed, due, life, dry, staked>>
      BY <1>1 DEF TakeoffEvent, ctx, db, history
    <2> QED BY <2>1, Steady DEF Kinds, Flights
  <1>2. CASE ~(u \in born \/ u \in airborne)
    <2>1. airborne' = airborne \cup {u} /\ landed' = landed \ {u} /\ due' = due \ {u}
      BY <1>2 DEF TakeoffEvent
    <2>2. Pilot(u) \in Players
      BY DEF Unborn, Kinds, Pilot
    <2>3. CASE u \in landed
      <3>1. UNCHANGED <<life, dry, staked>>
        BY <1>2, <2>3 DEF TakeoffEvent, GoesOn, db, history
      <3>2. due' \subseteq landed' /\ (airborne' \cap landed' = {} \/ ~Limited)
        BY <2>1 DEF Kinds, Flights
      <3>3. airborne' \cup landed' = airborne \cup landed
        BY <2>1, <2>3
      <3> QED BY <3>1, <3>2, <3>3, Steady DEF Kinds
    <2>4. CASE u \notin landed
      <3>1. DbTakeoff(u, place)
        BY <1>2, <2>4 DEF TakeoffEvent, GoesOn
      <3>p. PICK price \in Prices(u) :
              IF OutOfPoints(u, place, price) \/ OutOfLives(u, place) THEN Refused(u)
              ELSE IF Limited /\ place \in held THEN TakesLife(u, place, price.cost)
              ELSE TakesNoLife(u, place, price.cost)
        BY <3>1 DEF DbTakeoff
      <3>2. Limited => life[u].out = 0
        <4>1. life[u].out \in Nat /\ (Limited => life[u].out <= 1)
          BY DEF OneLifePerFlight, Kinds
        <4>2. Limited => life[u].out # 1
          BY <1>2, <2>4 DEF Flights
        <4> QED BY <4>1, <4>2
      <3>3. CASE Refused(u)
        <4>1. dry' = dry \cup {u} /\ life' = life /\ staked' = staked
          BY <3>3 DEF Refused
        <4>2. Kinds'
          BY <4>1, <2>1 DEF Kinds
        <4>3. Unborn'
          BY <4>1 DEF Unborn, SamePilots
        <4>4. Limited => Flights' /\ OneLifePerFlight' /\ StakeIsOwed'
          BY <4>1, <2>1, <2>4 DEF Flights, OneLifePerFlight, StakeIsOwed, SamePilots
        <4> QED BY <4>2, <4>3, <4>4 DEF OneLifePerFlight, StakeIsOwed
      <3>4. CASE Limited /\ TakesLife(u, place, price.cost)
        <4>1. /\ staked' = [staked EXCEPT ![Pilot(u)] = Type(u)]
              /\ life' = [life EXCEPT ![u].out = @ + 1]
              /\ dry' = dry
          BY <3>4 DEF TakesLife
        <4>2. life' \in [Units -> [out : Nat, gifts : Nat]]
          BY <4>1 DEF Kinds
        <4>3. life'[u].out = 1 /\ life'[u].gifts = life[u].gifts
          BY <4>1, <3>2, <3>4 DEF Kinds
        <4>4. \A v \in Units \ {u} : life'[v] = life[v]
          BY <4>1 DEF Kinds
        <4>5. /\ staked' \in [Players -> Types \cup {None}] /\ staked'[Pilot(u)] = Type(u)
              /\ \A q \in Players \ {Pilot(u)} : staked'[q] = staked[q]
          BY <4>1, <2>2 DEF Kinds, Type
        <4>6. Kinds'
          BY <2>1, <4>2, <4>5 DEF Kinds
        <4>7. Unborn'
          BY <2>2, <4>4, ConstantsOK DEF Unborn, SamePilots
        <4>8. Flights'
          BY <3>4, <2>1, <2>4, <4>1, <4>3, <4>4 DEF Flights, Kinds
        <4>9. OneLifePerFlight'
          BY <4>1, <4>3, <4>4 DEF OneLifePerFlight
        <4>10. StakeIsOwed'
          BY <2>2, <4>3, <4>4, <4>5 DEF StakeIsOwed, SamePilots
        <4> QED BY <4>6, <4>7, <4>8, <4>9, <4>10
      <3>5. CASE ~(Limited /\ place \in held) /\ TakesNoLife(u, place, price.cost)
        <4>1. life' = life /\ (Limited => dry' = dry \cup {u} /\ staked' = staked)
          BY <3>5 DEF TakesNoLife
        <4>2. staked' \in [Players -> Types \cup {None}]
          BY <3>5, <2>2 DEF TakesNoLife, Kinds, Type
        <4>3. Kinds' /\ Unborn'
          BY <4>1, <4>2, <2>1 DEF Kinds, Unborn, SamePilots
        <4>4. Limited => Flights' /\ OneLifePerFlight' /\ StakeIsOwed'
          BY <4>1, <2>1, <2>4 DEF Flights, OneLifePerFlight, StakeIsOwed, SamePilots
        <4> QED BY <4>3, <4>4 DEF OneLifePerFlight, StakeIsOwed
      <3> QED BY <3>p, <3>3, <3>4, <3>5
    <2> QED BY <2>3, <2>4
  <1> QED BY <1>1, <1>2

\* The judgement of landings: whoever settles has his life back and is forgotten, unless
\* lives are not limited.
LEMMA JudgedSortie ==
    ASSUME SortieInv, NEW us \in SUBSET landed, Judged(us), UNCHANGED unit
    PROVE  SortieInv'
  <1> USE DEF SortieInv
  <1> DEFINE settled == {u \in us : CanSettle(u)}
  <1>1. /\ airborne' = airborne /\ dry' = dry
        /\ landed' = landed \ Over(us) /\ due' = due \ Over(us)
        /\ staked' = [p \in Players |->
              IF {u \in settled : Pilot(u) = p} # {} THEN None ELSE staked[p]]
        /\ life' = [u \in Units |->
              CASE u \notin settled -> life[u]
                [] u \in settled /\ life[u].out > 0 -> [life[u] EXCEPT !.out = @ - 1]
                [] OTHER -> [life[u] EXCEPT !.gifts = @ + 1]]
    BY DEF Judged
  <1>2. settled \subseteq landed /\ settled \subseteq Units /\ \A u \in settled : Alive(u)
    BY DEF CanSettle, Kinds
  <1>3. Limited => settled \subseteq Over(us)
    BY DEF Over
  <1>4. \A u \in Over(us) : ~Alive(u) \/ u \in settled
    BY DEF Over
  <1> HIDE DEF settled
  <1>5. \A u \in Units \ settled : life'[u] = life[u]
    BY <1>1
  <1>6. \A u \in settled : life[u].out > 0 =>
           life'[u].out = life[u].out - 1 /\ life'[u].gifts = life[u].gifts
    BY <1>1, <1>2 DEF Kinds
  <1>7. \A u \in settled : ~(life[u].out > 0) =>
           life'[u].out = life[u].out /\ life'[u].gifts = life[u].gifts + 1
    BY <1>1, <1>2 DEF Kinds
  <1>8. Kinds'
    <2>1. life' \in [Units -> [out : Nat, gifts : Nat]]
      <3>1. ASSUME NEW u \in Units, NEW new,
                   new = CASE u \notin settled -> life[u]
                           [] u \in settled /\ life[u].out > 0 -> [life[u] EXCEPT !.out = @ - 1]
                           [] OTHER -> [life[u] EXCEPT !.gifts = @ + 1]
            PROVE  new \in [out : Nat, gifts : Nat]
        <4>1. life[u] \in [out : Nat, gifts : Nat]
          BY DEF Kinds
        <4>2. CASE u \notin settled
          BY <3>1, <4>1, <4>2
        <4>3. CASE u \in settled /\ life[u].out > 0
          BY <3>1, <4>1, <4>3
        <4>4. CASE u \in settled /\ ~(life[u].out > 0)
          BY <3>1, <4>1, <4>4
        <4> QED BY <4>2, <4>3, <4>4
      <3> QED BY <1>1, <3>1
    <2>2. staked' \in [Players -> Types \cup {None}]
      BY <1>1 DEF Kinds
    <2> QED BY <1>1, <2>1, <2>2 DEF Kinds
  <1>9. Unborn'
    <2> SUFFICES ASSUME NEW u \in Units, Pilot(u) = None PROVE ~Alive(u) /\ life'[u].out = 0
      BY DEF Unborn, Pilot, Alive
    <2>1. ~Alive(u) /\ life[u].out = 0
      BY DEF Unborn
    <2>2. u \notin settled
      BY <2>1, <1>2
    <2> QED BY <2>1, <2>2, <1>5
  <1>10. Limited => Flights'
    <2> SUFFICES ASSUME Limited PROVE Flights'
      OBVIOUS
    <2>1. airborne' \cap landed' = {}
      BY <1>1 DEF Flights
    <2>2. \A u \in airborne' \cup landed' : u \in Units \ settled /\ u \in airborne \cup landed
      BY <1>1, <1>2, <1>3 DEF Flights, Kinds
    <2>3. \A u \in airborne' \cup landed' : life'[u].out = 1 \/ u \in dry'
      BY <2>2, <1>1, <1>5 DEF Flights
    <2>4. ASSUME NEW u \in Units, life'[u].out = 1
          PROVE  u \in airborne' \cup landed' \/ ~Alive(u)
      <3>1. u \notin settled
        BY <2>4, <1>6, <1>7 DEF OneLifePerFlight, Kinds
      <3>2. u \in airborne \cup landed \/ ~Alive(u)
        BY <3>1, <2>4, <1>5 DEF Flights
      <3> QED BY <3>1, <3>2, <1>1, <1>4
    <2> QED BY <2>1, <2>3, <2>4 DEF Flights, Alive
  <1>11. OneLifePerFlight'
    <2> SUFFICES ASSUME Limited, NEW u \in Units
                 PROVE  life'[u].out <= 1 /\ (life'[u].gifts > 0 => u \in dry)
      BY <1>1 DEF OneLifePerFlight
    <2>1. life[u].out \in Nat /\ life[u].gifts \in Nat /\ life[u].out <= 1
          /\ (life[u].gifts > 0 => u \in dry)
      BY DEF OneLifePerFlight, Kinds
    <2>2. CASE u \notin settled
      BY <2>1, <2>2, <1>5
    <2>3. CASE u \in settled /\ life[u].out > 0
      BY <2>1, <2>3, <1>6
    <2>4. CASE u \in settled /\ ~(life[u].out > 0)
      <3>1. u \in dry
        BY <2>4, <1>2 DEF Flights
      <3> QED BY <2>1, <2>4, <3>1, <1>7
    <2> QED BY <2>2, <2>3, <2>4
  <1>12. StakeIsOwed'
    <2> SUFFICES ASSUME Limited, NEW p \in Players, staked'[p] # None
                 PROVE  \E u \in Units : Pilot(u) = p /\ Type(u) = staked'[p] /\ life'[u].out > 0
      BY DEF StakeIsOwed, Pilot, Type
    <2>1. staked'[p] = staked[p] /\ \A u \in settled : Pilot(u) # p
      BY <1>1
    <2>2. PICK u \in Units : Pilot(u) = p /\ Type(u) = staked[p] /\ life[u].out > 0
      BY <2>1 DEF StakeIsOwed
    <2>3. u \notin settled
      BY <2>1, <2>2
    <2> QED BY <2>1, <2>2, <2>3, <1>5
  <1> QED BY <1>8, <1>9, <1>10, <1>11, <1>12

\* After a restart nobody flies and nobody is noted as airborne.
LEMMA LoadSortie == ASSUME SortieInv, Load PROVE SortieInv'
  <1> USE DEF SortieInv
  <1>1. /\ unit' = [u \in Units |-> [unit[u] EXCEPT !.place = Nowhere]]
        /\ airborne' = {} /\ landed' = {} /\ due' = {}
        /\ staked' = [p \in Players |-> None]
        /\ life' = [u \in Units |-> [life[u] EXCEPT !.out = 0]]
        /\ dry' = dry
    BY DEF Load, LivesBack
  <1>2. \A u \in Units : unit'[u].pilot = unit[u].pilot /\ unit'[u].place = Nowhere
    BY <1>1 DEF Kinds
  <1>3. \A u \in Units : life'[u].out = 0 /\ life'[u].gifts = life[u].gifts
    BY <1>1 DEF Kinds
  <1>4. Kinds'
    <2>1. \A u \in Units : [unit[u] EXCEPT !.place = Nowhere] \in
             [pilot : Players \cup {None}, type : Types, load : 0..Weapons, place : Places]
      BY DEF Kinds, Places
    <2>2. \A u \in Units : [life[u] EXCEPT !.out = 0] \in [out : Nat, gifts : Nat]
      BY DEF Kinds
    <2> QED BY <1>1, <2>1, <2>2 DEF Kinds
  <1>5. Unborn' /\ (Limited => Flights')
    BY <1>1, <1>2, <1>3 DEF Unborn, Flights, Alive
  <1>6. OneLifePerFlight' /\ StakeIsOwed'
    BY <1>1, <1>3 DEF OneLifePerFlight, StakeIsOwed
  <1> QED BY <1>4, <1>5, <1>6

\* Moving a unit keeps who is in it.
LEMMA MovedUnit ==
    ASSUME Kinds, NEW u \in Units, NEW place \in Places,
           unit' = [unit EXCEPT ![u].place = place]
    PROVE  /\ unit' \in [Units -> [pilot : Players \cup {None}, type : Types,
                                   load : 0..Weapons, place : Places]]
           /\ SamePilots
           /\ unit'[u].place = place /\ \A v \in Units \ {u} : unit'[v] = unit[v]
  BY DEF Kinds, SamePilots, Pilot, Type

\* So does loading and unloading it.
LEMMA LoadedUnit ==
    ASSUME Kinds, NEW u \in Units, NEW w \in 0..Weapons, unit' = [unit EXCEPT ![u].load = w]
    PROVE  /\ unit' \in [Units -> [pilot : Players \cup {None}, type : Types,
                                   load : 0..Weapons, place : Places]]
           /\ SamePilots /\ \A v \in Units : Alive(v)' => Alive(v)
           /\ unit'[u].load = w /\ \A v \in Units \ {u} : unit'[v] = unit[v]
  <1>1. /\ unit'[u].pilot = unit[u].pilot /\ unit'[u].type = unit[u].type
        /\ unit'[u].place = unit[u].place /\ unit'[u].load = w
        /\ \A v \in Units \ {u} : unit'[v] = unit[v]
    BY DEF Kinds
  <1>2. unit' \in [Units -> [pilot : Players \cup {None}, type : Types,
                            load : 0..Weapons, place : Places]]
    BY DEF Kinds
  <1> QED BY <1>1, <1>2 DEF SamePilots, Pilot, Type, Alive

-----------------------------------------------------------------------------
LEMMA StepSortie == SortieInv /\ [Next]_vars => SortieInv'
  <1> SUFFICES ASSUME SortieInv, [Next]_vars PROVE SortieInv'
    OBVIOUS
  <1>k. Kinds /\ (Limited => airborne \cap landed = {})
    BY DEF SortieInv, Flights
  <1> DEFINE Quiet == UNCHANGED <<life, dry>>
             Sets == UNCHANGED <<airborne, landed, due>>
  <1>s. ASSUME UNCHANGED unit
        PROVE  /\ SamePilots /\ \A v \in Units : Alive(v)' <=> Alive(v)
               /\ unit' \in [Units -> [pilot : Players \cup {None}, type : Types,
                                       load : 0..Weapons, place : Places]]
    BY <1>s, <1>k DEF Kinds, SamePilots, Pilot, Type, Alive
  <1>0. CASE Quiet /\ Sets /\ UNCHANGED <<unit, staked>>
    BY <1>0, <1>k, <1>s, Steady DEF Kinds
  <1>1. ASSUME NEW u \in Units, NEW p \in Players, NEW t \in Types, NEW b \in Bases,
               Born(u, p, t, b)
        PROVE  SortieInv'
    BY <1>1, BirthSortie
  <1>2. ASSUME NEW u \in Units, LiftOff(u) PROVE SortieInv'
    <2>1. unit' = [unit EXCEPT ![u].place = Air] /\ TakeoffEvent(u, unit[u].place)
      BY <1>2 DEF LiftOff
    <2>2. Alive(u) /\ Air # Nowhere
      BY <1>2, ConstantsOK DEF LiftOff, Alive, Ground
    <2>3. \A v \in Units : Alive(v)' <=> Alive(v)
      BY <2>1, <2>2, <1>k, MovedUnit DEF Alive, Places
    <2> QED BY <2>1, <2>2, <2>3, <1>k, MovedUnit, TakeoffSortie DEF Places
  <1>3. ASSUME NEW u \in Units, LateTakeoff(u) PROVE SortieInv'
    <2>1. PICK place \in Ground : TakeoffEvent(u, place)
      BY <1>3 DEF LateTakeoff
    <2>2. UNCHANGED unit /\ Alive(u)
      BY <1>3, ConstantsOK DEF LateTakeoff, world, Alive
    <2> QED BY <2>1, <2>2, <1>s, TakeoffSortie
  <1>4. ASSUME NEW u \in Units, NEW place \in Ground, TouchDown(u, place) PROVE SortieInv'
    <2>1. unit' = [unit EXCEPT ![u].place = place] /\ Alive(u) /\ Quiet /\ staked' = staked
      BY <1>4, ConstantsOK DEF TouchDown, db, history, Alive
    <2>2. \A v \in Units : Alive(v)' => Alive(v)
      BY <2>1, <1>k, MovedUnit DEF Alive, Places
    <2>3. \/ Sets
          \/ /\ u \in airborne /\ airborne' = airborne \ {u}
             /\ landed' = landed \cup {u} /\ due' = due \ {u}
      BY <1>4 DEF TouchDown
    <2>4. /\ airborne' \cup landed' = airborne \cup landed
          /\ airborne' \cap landed' = {} \/ ~Limited
          /\ due' \subseteq landed'
      BY <2>3, <1>k DEF Kinds
    <2> QED BY <2>1, <2>2, <2>4, <1>k, MovedUnit, Steady DEF Kinds, Places
  <1>5. ASSUME NEW u \in Units, TenSeconds(u) PROVE SortieInv'
    <2>1. /\ Quiet /\ UNCHANGED <<unit, staked, airborne, landed>>
          /\ due' \subseteq landed'
      BY <1>5, <1>k DEF TenSeconds, world, db, history, Kinds
    <2> QED BY <2>1, <1>k, <1>s, Steady DEF Kinds
  <1>6. ASSUME NEW u \in Units, Lost(u) PROVE SortieInv'
    <2>1. /\ unit' = [unit EXCEPT ![u].place = Nowhere] /\ Quiet
          /\ UNCHANGED <<staked, airborne>> /\ landed' = landed \ {u} /\ due' = due \ {u}
      BY <1>6 DEF Lost, Gone, db, history
    <2>2. (\A v \in Units : Alive(v)' => Alive(v)) /\ ~Alive(u)'
      BY <2>1, <1>k, MovedUnit DEF Alive, Places
    <2> QED BY <2>1, <2>2, <1>k, MovedUnit, Steady DEF Kinds, Places
  <1>7. ASSUME NEW u \in Units, Fire(u) \/ Rearm(u) PROVE SortieInv'
    <2>1. /\ \E w \in 0..Weapons : unit' = [unit EXCEPT ![u].load = w]
          /\ Quiet /\ Sets /\ staked' = staked
      <3>1. CASE Fire(u)
        <4>1. unit[u].load - 1 \in 0..Weapons
          BY <3>1, <1>k, ConstantsOK DEF Fire, Kinds
        <4> QED BY <3>1, <4>1 DEF Fire, ctx, db, history
      <3>2. CASE Rearm(u)
        BY <3>2 DEF Rearm, ctx, db
      <3> QED BY <1>7, <3>1, <3>2
    <2>2. PICK w \in 0..Weapons : unit' = [unit EXCEPT ![u].load = w]
      BY <2>1
    <2>3. /\ unit' \in [Units -> [pilot : Players \cup {None}, type : Types,
                                  load : 0..Weapons, place : Places]]
          /\ SamePilots /\ \A v \in Units : Alive(v)' => Alive(v)
      BY <2>2, <1>k, LoadedUnit
    <2> QED BY <2>1, <2>3, <1>k, Steady DEF Kinds
  <1>8. ASSUME NEW p \in Players, Quit(p) PROVE SortieInv'
    <2>1. staked' = [staked EXCEPT ![p] = None] /\ Quiet /\ Sets
      BY <1>8 DEF Quit, ctx, history
    <2>2. /\ unit' \in [Units -> [pilot : Players \cup {None}, type : Types,
                                  load : 0..Weapons, place : Places]]
          /\ SamePilots /\ \A v \in Units : Alive(v)' => Alive(v)
      <3>1. CASE UNCHANGED unit
        BY <3>1, <1>s
      <3>2. ASSUME NEW u \in Units, Gone(u)
            PROVE  /\ unit' \in [Units -> [pilot : Players \cup {None}, type : Types,
                                           load : 0..Weapons, place : Places]]
                   /\ SamePilots /\ \A v \in Units : Alive(v)' => Alive(v)
        BY <3>2, <1>k, MovedUnit DEF Gone, Alive, Places
      <3> QED BY <1>8, <3>1, <3>2 DEF Quit
    <2> QED BY <2>1, <2>2, <1>k, Steady DEF Kinds
  <1>9. ASSUME NEW p \in Players, Kill(p) \/ TeamKill(p) \/ ResetLives(p) PROVE SortieInv'
    <2>1. Quiet /\ Sets /\ UNCHANGED <<unit, staked>>
      BY <1>9 DEF Kill, TeamKill, ResetLives, world, ctx, history
    <2> QED BY <2>1, <1>0
  <1>10. ASSUME NEW b \in Bases, Capture(b) PROVE SortieInv'
    BY <1>10, <1>0 DEF Capture, ctx, db, history
  <1>11. CASE SlowTick
    BY <1>11, <1>k, JudgedSortie DEF SlowTick, world, Kinds
  <1>12. CASE Shutdown
    BY <1>12, JudgedSortie DEF Shutdown, world
  <1>13. CASE MissionEnd
    BY <1>13, <1>0 DEF MissionEnd, world, ctx, db, history
  <1>14. CASE Load
    BY <1>14, LoadSortie
  <1>15. CASE UNCHANGED vars
    BY <1>15, <1>0 DEF vars
  <1> QED
    BY <1>1, <1>2, <1>3, <1>4, <1>5, <1>6, <1>7, <1>8, <1>9, <1>10, <1>11, <1>12, <1>13,
       <1>14, <1>15 DEF Next

-----------------------------------------------------------------------------
(* Refunds *)

Ledger == /\ points \in [Players -> Int] /\ prov \in [Players -> Int]
          /\ share \in [Units -> Nat \X Nat]
          /\ paid \in [Units -> [pilot : Int, base : Int]]
          /\ free \in [Units -> Nat]
          /\ \A u \in Units : share[u][2] > 0 /\ share[u][1] <= share[u][2]

\* A unit nobody was born in has no flight.
Fresh == \A u \in Units : Pilot(u) = None => u \notin airborne \cup landed

Within(u) == /\ paid[u].pilot + free[u] >= 0 /\ paid[u].base + free[u] >= 0
             /\ paid[u].pilot + paid[u].base + free[u] >= -1

\* All the unit is worth came aboard uncharged; or what was paid is what the shares were
\* noted of, and the unit is worth no more than that and what came aboard uncharged.
Backed(u) == /\ paid[u].pilot >= 0 /\ paid[u].base >= 0
             /\ \/ Cost(u) <= free[u]
                \/ /\ paid[u].pilot = share[u][1]
                   /\ paid[u].base = share[u][2] - share[u][1]
                   /\ Cost(u) <= share[u][2] + free[u]

\* Every flight that is not settled can be refunded from what was paid for it and what
\* came aboard uncharged.
Backing == Limited => \A u \in Units : Within(u) /\ (u \in airborne \cup landed => Backed(u))

RefundInv == SortieInv /\ Ledger /\ Fresh /\ Backing

LEMMA RoundedIsInt == ASSUME NEW n \in Int, NEW d \in Nat, d > 0 PROVE Rounded(n, d) \in Int
  BY DEF Rounded

\* Rounding does not exceed a whole number that what is rounded does not exceed.
LEMMA RoundedWithin ==
    ASSUME NEW n \in Int, NEW d \in Nat, d > 0, NEW k \in Int, n <= d * k
    PROVE  Rounded(n, d) <= k
  <1> DEFINE m == d * k
             q == Rounded(n, d)
  <1>1. m \in Int /\ q \in Int
    BY DEF Rounded
  <1>2. q * (2 * d) <= 2 * n + d
    BY DEF Rounded
  <1>3. (2 * d) * q <= 2 * (d * k) + d
    BY <1>1, <1>2
  <1>4. ASSUME q >= k + 1 PROVE FALSE
    <2>1. d * q >= d * (k + 1)
      BY <1>1, <1>4
    <2>2. d * (k + 1) = d * k + d
      OBVIOUS
    <2> QED BY <1>1, <1>3, <2>1, <2>2
  <1> QED BY <1>1, <1>4

\* The halves of two roundings add up to less than one and a half.
LEMMA RoundedTogether ==
    ASSUME NEW m \in Int, NEW n \in Int, NEW d \in Nat, d > 0, NEW k \in Int, m + n <= d * k
    PROVE  Rounded(m, d) + Rounded(n, d) <= k + 1
  <1> DEFINE p == Rounded(m, d)
             q == Rounded(n, d)
  <1>1. p \in Int /\ q \in Int /\ d * k \in Int
    BY DEF Rounded
  <1>2. p * (2 * d) <= 2 * m + d
    BY DEF Rounded
  <1>3. q * (2 * d) <= 2 * n + d
    BY DEF Rounded
  <1> HIDE DEF p, q
  <1>4. (p + q) * (2 * d) <= 2 * (d * k) + 2 * d
    <2>1. (p + q) * (2 * d) = p * (2 * d) + q * (2 * d)
      BY <1>1
    <2>2. p * (2 * d) \in Int /\ q * (2 * d) \in Int
      BY <1>1
    <2> QED BY <1>1, <1>2, <1>3, <2>1, <2>2
  <1>5. (2 * d) * (p + q) <= (2 * d) * (k + 1)
    BY <1>1, <1>4
  <1>6. ASSUME p + q >= k + 2 PROVE FALSE
    <2>1. (2 * d) * (p + q) >= (2 * d) * (k + 2)
      BY <1>1, <1>6
    <2>2. (2 * d) * (k + 2) = (2 * d) * (k + 1) + 2 * d
      OBVIOUS
    <2>3. (2 * d) * (k + 1) \in Int /\ (2 * d) * (p + q) \in Int
      BY <1>1
    <2> QED BY <1>5, <2>1, <2>2, <2>3
  <1> QED BY <1>1, <1>6 DEF p, q

LEMMA CostIsNat == Kinds => \A u \in Units : Cost(u) \in Nat
  BY ConstantsOK DEF Kinds, Cost

LEMMA RefundIsInt ==
    ASSUME Kinds, Ledger, NEW u \in Units
    PROVE  Refund(u) \in Int /\ RefundToBase(u) \in Int
  <1>1. Cost(u) \in Nat /\ share[u][1] \in Nat /\ share[u][2] \in Nat /\ share[u][2] > 0
    BY CostIsNat DEF Ledger
  <1>2. /\ Cost(u) * share[u][1] \in Int
        /\ Cost(u) * (share[u][2] - share[u][1]) \in Int
    BY <1>1
  <1> QED BY <1>1, <1>2, RoundedIsInt DEF Refund, RefundToBase

\* A refund is within what was paid and what came aboard uncharged.
LEMMA BackedIsEnough ==
    ASSUME Kinds, Ledger, NEW u \in Units, Backed(u)
    PROVE  /\ Refund(u) <= paid[u].pilot + free[u]
           /\ RefundToBase(u) <= paid[u].base + free[u]
           /\ Refund(u) + RefundToBase(u) <= paid[u].pilot + paid[u].base + free[u] + 1
  <1> DEFINE c == Cost(u)
             own == share[u][1]
             all == share[u][2]
             mine == paid[u].pilot
             base == paid[u].base
             gift == free[u]
  <1>1. /\ c \in Nat /\ own \in Nat /\ all \in Nat /\ all > 0 /\ own <= all
        /\ mine \in Int /\ base \in Int /\ gift \in Nat
    BY CostIsNat DEF Ledger
  <1>2. Refund(u) = Rounded(c * own, all) /\ RefundToBase(u) = Rounded(c * (all - own), all)
    BY DEF Refund, RefundToBase
  <1>3. /\ mine >= 0 /\ base >= 0
        /\ c <= gift \/ (mine = own /\ base = all - own /\ c <= all + gift)
    BY DEF Backed
  <1> DEFINE rest == all - own
  <1> HIDE DEF c, own, all, mine, base, gift
  <1>4. rest \in Nat /\ rest <= all /\ own + rest = all
    BY <1>1
  <1> HIDE DEF rest
  <1>5. /\ c * own <= all * (mine + gift) /\ c * rest <= all * (base + gift)
        /\ c * own + c * rest <= all * (mine + base + gift)
    <2>1. c * own + c * rest = all * c
      BY <1>1, <1>4
    <2>2. CASE c <= gift
      <3>1. c * own <= all * c /\ c * rest <= all * c
        BY <1>1, <1>4
      <3>2. all * c <= all * (mine + gift)
        BY <1>1, <1>3, <2>2
      <3>3. all * c <= all * (base + gift)
        BY <1>1, <1>3, <2>2
      <3>4. all * c <= all * (mine + base + gift)
        BY <1>1, <1>3, <2>2
      <3>5. /\ c * own \in Int /\ c * rest \in Int /\ all * c \in Int
            /\ all * (mine + gift) \in Int /\ all * (base + gift) \in Int
        BY <1>1, <1>4
      <3> QED BY <2>1, <3>1, <3>2, <3>3, <3>4, <3>5
    <2>3. CASE mine = own /\ base = rest /\ c <= all + gift
      <3>1. c * own <= (all + gift) * own /\ c * rest <= (all + gift) * rest
        BY <1>1, <1>4, <2>3
      <3>2. (all + gift) * own = all * own + gift * own
        BY <1>1
      <3>3. (all + gift) * rest = all * rest + gift * rest
        BY <1>1, <1>4
      <3>4. gift * own <= all * gift /\ gift * rest <= all * gift
        BY <1>1, <1>4
      <3>5. all * (own + gift) = all * own + all * gift
        BY <1>1
      <3>6. all * (rest + gift) = all * rest + all * gift
        BY <1>1, <1>4
      <3>7. /\ c * own \in Int /\ c * rest \in Int /\ all * own \in Int /\ all * rest \in Int
            /\ gift * own \in Int /\ gift * rest \in Int /\ all * gift \in Int
        BY <1>1, <1>4
      <3>8. c * own <= all * (own + gift) /\ c * rest <= all * (rest + gift)
        BY <3>1, <3>2, <3>3, <3>4, <3>5, <3>6, <3>7
      <3>9. all * c <= all * (all + gift)
        BY <1>1, <2>3
      <3>10. mine + base + gift = all + gift
        BY <1>1, <1>4, <2>3
      <3> QED BY <2>1, <2>3, <3>8, <3>9, <3>10
    <2> QED BY <1>3, <2>2, <2>3 DEF rest
  <1>6. c * own \in Int /\ c * rest \in Int
    BY <1>1, <1>4
  <1>7. Rounded(c * own, all) <= mine + gift
    <2>1. mine + gift \in Int
      BY <1>1
    <2> QED BY <1>1, <1>5, <1>6, <2>1, RoundedWithin
  <1>8. Rounded(c * rest, all) <= base + gift
    <2>1. base + gift \in Int
      BY <1>1
    <2> QED BY <1>1, <1>5, <1>6, <2>1, RoundedWithin
  <1>9. Rounded(c * own, all) + Rounded(c * rest, all) <= mine + base + gift + 1
    <2>1. mine + base + gift \in Int
      BY <1>1
    <2> QED BY <1>1, <1>5, <1>6, <2>1, RoundedTogether
  <1> QED BY <1>2, <1>7, <1>8, <1>9 DEF rest, mine, base, gift

\* The sum of refunds that the points of a pilot grow by.
LEMMA RefundsAddUp ==
    ASSUME Kinds, Ledger, NEW S \in SUBSET Units
    PROVE  MapThenSumSet(Refund, S) \in Int
  <1> DEFINE IsIt(it) == it = [T \in SUBSET S |->
                           IF T = {} THEN 0 ELSE Refund(Pick(T)) + it[T \ {Pick(T)}]]
             choose == [T \in SUBSET S |-> Pick(T)]
             op == [p \in S \X Int |-> Refund(p[1]) + p[2]]
             it == CHOOSE f : IsIt(f)
  <1>1. MapThenSumSet(Refund, S) = it[S]
    BY DEF MapThenSumSet, MapThenFoldSet, Pick
  <1>2. IsFiniteSet(S) /\ Chooses(choose, S)
    BY ConstantsOK, FS_Subset, PickIsThere DEF Chooses
  <1>3. op \in [S \X Int -> Int]
    <2>1. \A p \in S \X Int : Refund(p[1]) + p[2] \in Int
      BY RefundIsInt
    <2> QED BY <2>1
  <1>4. \E f \in [SUBSET S -> Int] : IsFold(f, S, 0, choose, op)
    <2> HIDE DEF choose, op, IsIt, it
    <2>1. 0 \in Int
      OBVIOUS
    <2> QED BY <1>2, <1>3, <2>1, FoldExists
  <1>5. PICK f \in [SUBSET S -> Int] : IsFold(f, S, 0, choose, op)
    BY <1>4
  <1>6. IsIt(f)
    <2>1. \A T \in SUBSET S : T # {} => choose[T] = Pick(T) /\ Pick(T) \in S
                                        /\ f[T \ {Pick(T)}] \in Int
      BY PickIsThere
    <2>2. \A T \in SUBSET S : T # {} =>
             op[<<choose[T], f[T \ {choose[T]}]>>] = Refund(Pick(T)) + f[T \ {Pick(T)}]
      BY <2>1
    <2> HIDE DEF op, choose
    <2> QED BY <1>5, <2>2 DEF IsFold
  <1>7. IsIt(it)
    <2> HIDE DEF IsIt
    <2> QED BY <1>6
  <1>8. FoldsIn(it, S, Int, 0, choose, op)
    <2> HIDE DEF it
    <2>1. it[{}] = 0
      BY <1>7
    <2>2. ASSUME NEW T \in SUBSET S, T # {}, it[T \ {choose[T]}] \in Int
          PROVE  it[T] = op[<<choose[T], it[T \ {choose[T]}]>>]
      <3>1. choose[T] = Pick(T) /\ Pick(T) \in S
        BY <2>2, PickIsThere
      <3>2. it[T] = Refund(Pick(T)) + it[T \ {Pick(T)}]
        BY <2>2, <1>7
      <3> QED BY <3>1, <3>2, <2>2
    <2> HIDE DEF op, choose
    <2> QED BY <2>1, <2>2 DEF FoldsIn
  <1>9. \A T \in SUBSET S : it[T] \in Int
    <2> HIDE DEF it, op, choose, IsIt
    <2>1. 0 \in Int
      OBVIOUS
    <2> QED BY <1>2, <1>3, <1>8, <2>1, FoldStays
  <1> QED BY <1>1, <1>9

LEMMA InitRefund == Init => RefundInv
  <1> SUFFICES ASSUME Init PROVE RefundInv
    OBVIOUS
  <1>1. Ledger
    <2>1. /\ share = [u \in Units |-> <<1, 1>>]
          /\ paid = [u \in Units |-> [pilot |-> 0, base |-> 0]]
          /\ free = [u \in Units |-> 0]
      BY DEF Init
    <2>2. points \in [Players -> Int] /\ prov \in [Players -> Int]
      BY ConstantsOK DEF Init
    <2> QED BY <2>1, <2>2 DEF Ledger
  <1>2. Fresh /\ Backing
    BY DEF Init, Fresh, Backing, Within
  <1> QED BY <1>1, <1>2, InitSortie DEF RefundInv

\* Steps that charge nobody and refund nobody, and note what they bring aboard.
LEMMA SteadyRefund ==
    ASSUME RefundInv, SortieInv', UNCHANGED <<paid, share>>,
           points' \in [Players -> Int], prov' \in [Players -> Int], free' \in [Units -> Nat],
           airborne' \cup landed' \subseteq airborne \cup landed,
           \A v \in Units : Pilot(v)' = None => Pilot(v) = None,
           \A v \in Units : free[v] <= free'[v],
           \A v \in airborne' \cup landed' : Cost(v)' - free'[v] <= Cost(v) - free[v]
    PROVE  RefundInv'
  <1> USE DEF RefundInv
  <1>1. Ledger' /\ Fresh'
    BY DEF Ledger, Fresh
  <1>2. Backing'
    <2> SUFFICES ASSUME Limited, NEW v \in Units
                 PROVE  Within(v)' /\ (v \in airborne' \cup landed' => Backed(v)')
      BY DEF Backing
    <2>1. Within(v) /\ (v \in airborne \cup landed => Backed(v))
      BY DEF Backing
    <2>2. free[v] \in Nat /\ free'[v] \in Nat /\ free[v] <= free'[v]
          /\ paid[v].pilot \in Int /\ paid[v].base \in Int
      BY DEF Ledger
    <2>3. Within(v)'
      BY <2>1, <2>2 DEF Within
    <2>4. ASSUME v \in airborne' \cup landed' PROVE Backed(v)'
      <3>1. Cost(v) \in Nat /\ Cost(v)' \in Nat
        <4>1. Kinds /\ Kinds' /\ Airframe \in Nat /\ Weapons \in Nat
          BY ConstantsOK DEF SortieInv
        <4>2. Cost(v) \in Nat
          BY <4>1, CostIsNat
        <4>3. Cost(v)' \in Nat
          BY <4>1 DEF Kinds, Cost
        <4> QED BY <4>2, <4>3
      <3>2. Backed(v) /\ Cost(v)' - free'[v] <= Cost(v) - free[v]
        BY <2>1, <2>4
      <3>3. share[v][2] \in Nat
        BY DEF Ledger
      <3> QED BY <3>1, <3>2, <3>3, <2>2 DEF Backed
    <2> QED BY <2>3, <2>4
  <1> QED BY <1>1, <1>2

\* A take-off notes what pilot and objective pay, of what, and what nobody is charged for.
LEMMA ChargeIsNoted ==
    ASSUME Kinds, Ledger, NEW u \in Units, NEW b, Pilot(u) \in Players, Cost(u)' = Cost(u),
           UNCHANGED prov,
           \/ NotCharged(u)
           \/ \E price \in Prices(u) : Charged(u, b, price.cost)
    PROVE  /\ Ledger' /\ Within(u)' /\ Backed(u)'
           /\ \A v \in Units \ {u} : UNCHANGED <<share[v], paid[v], free[v]>>
  <1>0. Cost(u) \in Nat
    BY CostIsNat
  <1>1. CASE NotCharged(u)
    <2>1. /\ UNCHANGED <<points, share>>
          /\ paid' = [paid EXCEPT ![u] = [pilot |-> 0, base |-> 0]]
          /\ free' = [free EXCEPT ![u] = Cost(u)]
      BY <1>1 DEF NotCharged
    <2>2. /\ paid'[u] = [pilot |-> 0, base |-> 0] /\ free'[u] = Cost(u)
          /\ \A v \in Units \ {u} : paid'[v] = paid[v] /\ free'[v] = free[v]
      BY <2>1 DEF Ledger
    <2>3. Ledger'
      BY <2>1, <1>0 DEF Ledger
    <2> QED BY <2>1, <2>2, <2>3, <1>0 DEF Within, Backed
  <1>2. ASSUME NEW price \in Prices(u), Charged(u, b, price.cost)
        PROVE  /\ Ledger' /\ Within(u)' /\ Backed(u)'
               /\ \A v \in Units \ {u} : UNCHANGED <<share[v], paid[v], free[v]>>
    <2> DEFINE cost == price.cost
               p == Pilot(u)
               own == PilotPays(p, cost)
               rest == Cost(u) - cost
    <2>1. cost = Cost(u) \/ cost = 0
      BY DEF Prices
    <2>2. cost \in Nat /\ points[p] \in Int /\ rest \in Nat
      BY <1>0, <2>1 DEF Ledger
    <2>3. own \in Nat /\ own <= cost
      <3> HIDE DEF cost, p
      <3>1. CASE points[p] <= 0
        BY <2>2, <3>1 DEF PilotPays
      <3>2. CASE 0 < points[p] /\ points[p] < cost
        BY <2>2, <3>2 DEF PilotPays
      <3>3. CASE ~(points[p] <= 0) /\ ~(0 < points[p] /\ points[p] < cost)
        BY <2>2, <3>3 DEF PilotPays
      <3> QED BY <3>1, <3>2, <3>3
    <2>4. /\ points' = [points EXCEPT ![p] = @ - own]
          /\ share' = IF cost = 0 THEN share ELSE [share EXCEPT ![u] = <<own, cost>>]
          /\ paid' = [paid EXCEPT ![u] = [pilot |-> own, base |-> cost - own]]
          /\ free' = [free EXCEPT ![u] = rest]
      BY <1>2 DEF Charged, Share
    <2> HIDE DEF own, p, rest, cost
    <2>5. points' \in [Players -> Int]
      <3>1. points[p] - own \in Int
        BY <2>2, <2>3
      <3>2. points \in [Players -> Int]
        BY DEF Ledger
      <3> QED BY <2>4, <3>1, <3>2
    <2>6. /\ paid'[u] = [pilot |-> own, base |-> cost - own] /\ free'[u] = rest
          /\ cost # 0 => share'[u] = <<own, cost>>
          /\ \A v \in Units \ {u} : UNCHANGED <<share[v], paid[v], free[v]>>
      BY <2>4 DEF Ledger
    <2>7. /\ paid' \in [Units -> [pilot : Int, base : Int]]
          /\ free' \in [Units -> Nat] /\ share' \in [Units -> Nat \X Nat]
      BY <2>2, <2>3, <2>4 DEF Ledger
    <2>8. \A v \in Units : share'[v][2] > 0 /\ share'[v][1] <= share'[v][2]
      BY <2>2, <2>3, <2>4 DEF Ledger
    <2>9. Within(u)'
      BY <2>2, <2>3, <2>6 DEF Within
    <2>10. Backed(u)'
      <3>1. CASE cost = 0
        BY <3>1, <1>0, <2>2, <2>3, <2>6 DEF Backed, rest
      <3>2. CASE cost # 0
        <4>1. /\ paid'[u].pilot = share'[u][1] /\ paid'[u].base = share'[u][2] - share'[u][1]
              /\ share'[u][2] = cost /\ paid'[u].pilot >= 0 /\ paid'[u].base >= 0
          BY <3>2, <2>2, <2>3, <2>6
        <4>2. Cost(u)' <= share'[u][2] + free'[u]
          BY <3>2, <4>1, <1>0, <2>1, <2>6 DEF rest
        <4> QED BY <4>1, <4>2 DEF Backed
      <3> QED BY <3>1, <3>2
    <2>11. Ledger'
      BY <2>5, <2>7, <2>8 DEF Ledger
    <2> QED BY <2>6, <2>9, <2>10, <2>11
  <1> QED BY <1>1, <1>2

LEMMA TakeoffRefund ==
    ASSUME RefundInv, SortieInv', NEW u \in Units, NEW place, Alive(u), TakeoffEvent(u, place),
           SamePilots, \A v \in Units : Cost(v)' = Cost(v)
    PROVE  RefundInv'
  <1> USE DEF RefundInv
  <1>0. /\ Kinds /\ Ledger /\ Pilot(u) \in Players /\ Pilot(u) # None
        /\ \A v \in Units : Cost(v) \in Nat
    BY CostIsNat DEF SortieInv, Unborn, Kinds, Pilot
  <1>1. ASSUME UNCHANGED <<db, history>>, airborne' \cup landed' \subseteq airborne \cup landed
        PROVE  RefundInv'
    <2>1. UNCHANGED <<paid, share, points, prov, free>>
      BY <1>1 DEF db, history
    <2>2. \A v \in Units : free[v] <= free'[v] /\ Cost(v)' - free'[v] <= Cost(v) - free[v]
      BY <2>1, <1>0 DEF Ledger
    <2>3. airborne \cup landed \subseteq Units
      BY <1>0 DEF Kinds
    <2> QED BY <2>1, <2>2, <2>3, <1>0, <1>1, SteadyRefund DEF Ledger, SamePilots
  <1>2. CASE u \in born \/ u \in airborne
    BY <1>1, <1>2 DEF TakeoffEvent, ctx
  <1>3. CASE ~(u \in born \/ u \in airborne)
    <2>1. airborne' = airborne \cup {u} /\ landed' = landed \ {u}
      BY <1>3 DEF TakeoffEvent
    <2>2. CASE u \in landed
      <3>1. UNCHANGED <<db, history>>
        BY <1>3, <2>2 DEF TakeoffEvent, GoesOn
      <3> QED BY <1>1, <2>1, <2>2, <3>1
    <2>3. CASE u \notin landed
      <3>1. DbTakeoff(u, place) /\ UNCHANGED prov
        BY <1>3, <2>3 DEF TakeoffEvent, GoesOn
      <3>2. \/ NotCharged(u)
            \/ \E price \in Prices(u) : Charged(u, place, price.cost)
        BY <3>1 DEF DbTakeoff, Refused, TakesLife, TakesNoLife
      <3>3. /\ Ledger' /\ Within(u)' /\ Backed(u)'
            /\ \A v \in Units \ {u} : UNCHANGED <<share[v], paid[v], free[v]>>
        BY <3>1, <3>2, <1>0, ChargeIsNoted
      <3>4. Fresh'
        BY <1>0, <2>1 DEF Fresh, SamePilots
      <3>5. Backing'
        <4> SUFFICES ASSUME Limited, NEW v \in Units
                     PROVE  Within(v)' /\ (v \in airborne' \cup landed' => Backed(v)')
          BY DEF Backing
        <4>1. CASE v = u
          BY <4>1, <3>3
        <4>2. CASE v # u
          <5>1. UNCHANGED <<share[v], paid[v], free[v]>> /\ Cost(v)' = Cost(v)
            BY <4>2, <3>3
          <5>2. Within(v) /\ (v \in airborne' \cup landed' => Backed(v))
            BY <4>2, <2>1 DEF Backing
          <5> QED BY <5>1, <5>2 DEF Within, Backed
        <4> QED BY <4>1, <4>2
      <3> QED BY <3>3, <3>4, <3>5
    <2> QED BY <2>2, <2>3
  <1> QED BY <1>2, <1>3

\* A landing that is judged is covered, and if it settles it is not judged again.
LEMMA JudgedRefund ==
    ASSUME RefundInv, SortieInv', NEW us \in SUBSET landed, Judged(us), UNCHANGED unit
    PROVE  RefundInv'
  <1> USE DEF RefundInv
  <1> DEFINE settled == {u \in us : CanSettle(u)}
             theirs(p) == {u \in settled : Pilot(u) = p}
             bonus(p) == IF Provisional /\ theirs(p) # {} THEN prov[p] ELSE 0
  <1>0. Kinds /\ Ledger
    BY DEF SortieInv
  <1>1. settled \subseteq Units /\ settled \subseteq landed /\ us \subseteq Units
    BY <1>0 DEF Kinds
  <1>2. /\ UNCHANGED <<airborne, share, free>> /\ landed' = landed \ Over(us)
        /\ prov' = [p \in Players |-> IF theirs(p) # {} THEN 0 ELSE prov[p]]
    BY DEF Judged
  <1>3. PICK mute \in SUBSET Units :
          /\ points' = [p \in Players |->
                          points[p] + bonus(p) + MapThenSumSet(Refund, theirs(p) \ mute)]
          /\ paid' = [u \in Units |-> IF u \in settled \ mute
                                      THEN [pilot |-> paid[u].pilot - Refund(u),
                                            base |-> paid[u].base - RefundToBase(u)]
                                      ELSE paid[u]]
    <2>1. (IF Weapons > 0 THEN settled ELSE {}) \subseteq Units
      BY <1>1
    <2> QED BY <2>1 DEF Judged
  <1>4. Limited => settled \subseteq Over(us)
    BY DEF Over
  <1>5. \A p \in Players : points[p] \in Int /\ prov[p] \in Int /\ bonus(p) \in Int
    BY <1>0 DEF Ledger
  <1>6. \A p \in Players : theirs(p) \ mute \in SUBSET Units
    BY <1>1
  <1> HIDE DEF settled, theirs, bonus
  <1>7. points' \in [Players -> Int]
    <2> DEFINE sum(p) == MapThenSumSet(Refund, theirs(p) \ mute)
    <2>1. points' = [p \in Players |-> points[p] + bonus(p) + sum(p)]
      BY <1>3
    <2>2. \A p \in Players : sum(p) \in Int
      BY <1>0, <1>6, RefundsAddUp
    <2> HIDE DEF sum
    <2>3. \A p \in Players : points[p] + bonus(p) + sum(p) \in Int
      BY <2>2, <1>5
    <2> QED BY <2>1, <2>3
  <1>8. prov' \in [Players -> Int]
    BY <1>2, <1>5
  <1>9. \A u \in Units \ (settled \ mute) : paid'[u] = paid[u]
    BY <1>3
  <1>10. \A u \in settled \ mute : /\ paid'[u].pilot = paid[u].pilot - Refund(u)
                                   /\ paid'[u].base = paid[u].base - RefundToBase(u)
    BY <1>1, <1>3
  <1>11. \A u \in Units : Refund(u) \in Int /\ RefundToBase(u) \in Int
    BY <1>0, RefundIsInt
  <1>12. paid' \in [Units -> [pilot : Int, base : Int]]
    <2>1. \A u \in Units : paid[u] \in [pilot : Int, base : Int]
      BY <1>0 DEF Ledger
    <2>2. \A u \in Units : paid[u].pilot - Refund(u) \in Int /\ paid[u].base - RefundToBase(u) \in Int
      BY <2>1, <1>11
    <2> QED BY <2>1, <2>2, <1>3
  <1>13. Ledger'
    BY <1>0, <1>2, <1>7, <1>8, <1>12 DEF Ledger
  <1>14. Fresh'
    BY <1>2 DEF Fresh, Pilot
  <1>15. Backing'
    <2> SUFFICES ASSUME Limited, NEW u \in Units
                 PROVE  Within(u)' /\ (u \in airborne' \cup landed' => Backed(u)')
      BY DEF Backing
    <2>1. Within(u) /\ (u \in airborne \cup landed => Backed(u))
      BY DEF Backing
    <2>2. CASE u \notin settled
      <3>1. Cost(u)' = Cost(u)
        BY DEF Cost
      <3> QED BY <2>1, <2>2, <3>1, <1>2, <1>9 DEF Within, Backed
    <2>3. CASE u \in settled
      <3>1. u \notin airborne' \cup landed'
        <4>1. airborne \cap landed = {}
          BY DEF SortieInv, Flights
        <4> QED BY <2>3, <4>1, <1>1, <1>2, <1>4
      <3>2. CASE u \in mute
        BY <2>1, <3>1, <3>2, <1>2, <1>9 DEF Within
      <3>3. CASE u \notin mute
        <4>1. Backed(u)
          BY <2>1, <2>3, <1>1
        <4>2. /\ Refund(u) <= paid[u].pilot + free[u]
              /\ RefundToBase(u) <= paid[u].base + free[u]
              /\ Refund(u) + RefundToBase(u) <= paid[u].pilot + paid[u].base + free[u] + 1
          BY <4>1, <1>0, BackedIsEnough
        <4>3. paid[u].pilot \in Int /\ paid[u].base \in Int /\ free[u] \in Nat
          BY <1>0 DEF Ledger
        <4>4. /\ paid'[u].pilot = paid[u].pilot - Refund(u)
              /\ paid'[u].base = paid[u].base - RefundToBase(u) /\ free'[u] = free[u]
          BY <2>3, <3>3, <1>2, <1>10
        <4>5. Within(u)'
          BY <4>2, <4>3, <4>4, <1>11 DEF Within
        <4> QED BY <3>1, <4>5
      <3> QED BY <3>2, <3>3
    <2> QED BY <2>2, <2>3
  <1> QED BY <1>13, <1>14, <1>15

LEMMA MaxOfZero == ASSUME NEW n \in Int PROVE Max({0, n}) \in Nat /\ n <= Max({0, n})
  <1>1. PICK x \in {0, n} : \A y \in {0, n} : x >= y
    BY DEF Max
  <1>2. Max({0, n}) \in {0, n} /\ \A y \in {0, n} : Max({0, n}) >= y
    BY <1>1 DEF Max
  <1> QED BY <1>2

LEMMA StepRefund == RefundInv /\ [Next]_vars => RefundInv'
  <1> SUFFICES ASSUME RefundInv, [Next]_vars PROVE RefundInv'
    OBVIOUS
  <1>k. /\ Kinds /\ Ledger /\ SortieInv
        /\ points \in [Players -> Int] /\ prov \in [Players -> Int]
        /\ free \in [Units -> Nat] /\ airborne \cup landed \subseteq Units
        /\ \A v \in Units : Cost(v) \in Nat
    BY CostIsNat DEF RefundInv, SortieInv, Ledger, Kinds
  <1>s. SortieInv'
    BY <1>k, StepSortie
  <1> DEFINE Idle == UNCHANGED <<paid, share, free>>
             SameFlights == airborne' \cup landed' \subseteq airborne \cup landed
             SameCosts == \A v \in Units : Cost(v)' = Cost(v)
  <1>u. UNCHANGED unit => SameCosts /\ SamePilots
    BY DEF Cost, SamePilots, Pilot, Type
  <1>m. ASSUME NEW u \in Units, NEW place, unit' = [unit EXCEPT ![u].place = place]
        PROVE  SameCosts /\ SamePilots
    BY <1>m, <1>k DEF Cost, Kinds, SamePilots, Pilot, Type
  <1>q. ASSUME Idle, SameFlights, SameCosts, SamePilots,
               points' \in [Players -> Int], prov' \in [Players -> Int]
        PROVE  RefundInv'
    <2>1. /\ free' \in [Units -> Nat] /\ \A v \in Units : Pilot(v)' = None => Pilot(v) = None
          /\ \A v \in Units : /\ free[v] <= free'[v]
                              /\ Cost(v)' - free'[v] <= Cost(v) - free[v]
      BY <1>q, <1>k DEF SamePilots
    <2>2. \A v \in airborne' \cup landed' : Cost(v)' - free'[v] <= Cost(v) - free[v]
      BY <2>1, <1>q, <1>k
    <2> QED BY <2>1, <2>2, <1>q, <1>s, SteadyRefund
  <1>0. CASE Idle /\ SameFlights /\ SameCosts /\ SamePilots /\ UNCHANGED <<points, prov>>
    BY <1>0, <1>q, <1>k
  <1>1. ASSUME NEW u \in Units, NEW p \in Players, NEW t \in Types, NEW b \in Bases,
               Born(u, p, t, b)
        PROVE  RefundInv'
    <2>1. /\ UNCHANGED <<points, paid, free, airborne, landed>>
          /\ share' = [share EXCEPT ![u] = <<1, 1>>]
          /\ prov' = [prov EXCEPT ![p] = 0] /\ Pilot(u) = None
          /\ \E w \in 0..Weapons :
               unit' = [unit EXCEPT ![u] = [pilot |-> p, type |-> t, load |-> w, place |-> b]]
      BY <1>1 DEF Born, Pilot, history
    <2>2. u \notin airborne \cup landed
      BY <2>1 DEF RefundInv, Fresh
    <2>3. /\ \A v \in Units \ {u} : unit'[v] = unit[v] /\ share'[v] = share[v]
          /\ share'[u] = <<1, 1>>
      BY <2>1, <1>k DEF Kinds, Ledger
    <2>4. Ledger'
      <3>1. prov' \in [Players -> Int]
        BY <2>1, <1>k
      <3>2. share' \in [Units -> Nat \X Nat]
        BY <2>1, <1>k DEF Ledger
      <3>3. \A v \in Units : share'[v][2] > 0 /\ share'[v][1] <= share'[v][2]
        BY <2>3, <1>k DEF Ledger
      <3> QED BY <2>1, <3>1, <3>2, <3>3, <1>k DEF Ledger
    <2>5. Fresh'
      BY <2>1, <2>2, <2>3 DEF RefundInv, Fresh, Pilot
    <2>6. Backing'
      <3> SUFFICES ASSUME Limited, NEW v \in Units
                   PROVE  Within(v)' /\ (v \in airborne \cup landed => Backed(v)')
        BY <2>1 DEF Backing
      <3>1. Within(v) /\ (v \in airborne \cup landed => Backed(v))
        BY DEF Backing, RefundInv
      <3>2. v # u => Cost(v)' = Cost(v)
        BY <2>3 DEF Cost
      <3> QED BY <3>1, <3>2, <2>1, <2>2, <2>3 DEF Within, Backed
    <2> QED BY <2>4, <2>5, <2>6, <1>s DEF RefundInv
  <1>2. ASSUME NEW u \in Units, LiftOff(u) PROVE RefundInv'
    <2>1. unit' = [unit EXCEPT ![u].place = Air] /\ TakeoffEvent(u, unit[u].place)
      BY <1>2 DEF LiftOff
    <2>2. Alive(u)
      BY <1>2, ConstantsOK DEF LiftOff, Alive, Ground
    <2> QED BY <2>1, <2>2, <1>m, <1>s, TakeoffRefund
  <1>3. ASSUME NEW u \in Units, LateTakeoff(u) PROVE RefundInv'
    <2>1. PICK place \in Ground : TakeoffEvent(u, place)
      BY <1>3 DEF LateTakeoff
    <2>2. UNCHANGED unit /\ Alive(u)
      BY <1>3, ConstantsOK DEF LateTakeoff, world, Alive
    <2> QED BY <2>1, <2>2, <1>s, <1>u, TakeoffRefund
  <1>4. ASSUME NEW u \in Units, NEW place \in Ground, TouchDown(u, place) PROVE RefundInv'
    <2>1. unit' = [unit EXCEPT ![u].place = place] /\ Idle /\ UNCHANGED <<points, prov>>
      BY <1>4 DEF TouchDown, db, history
    <2>2. SameFlights
      BY <1>4 DEF TouchDown
    <2> QED BY <2>1, <2>2, <1>m, <1>0
  <1>5. ASSUME NEW u \in Units, TenSeconds(u) PROVE RefundInv'
    <2>1. Idle /\ UNCHANGED <<unit, points, prov, airborne, landed>>
      BY <1>5 DEF TenSeconds, world, db, history
    <2> QED BY <2>1, <1>u, <1>0
  <1>6. ASSUME NEW u \in Units, Lost(u) PROVE RefundInv'
    <2>1. /\ unit' = [unit EXCEPT ![u].place = Nowhere] /\ Idle /\ UNCHANGED <<points, prov>>
          /\ airborne' = airborne /\ landed' \subseteq landed
      BY <1>6 DEF Lost, Gone, db, history
    <2> QED BY <2>1, <1>m, <1>0
  <1>7. ASSUME NEW u \in Units, Fire(u) \/ Rearm(u) PROVE RefundInv'
    <2>1. PICK w \in 0..Weapons :
            /\ unit' = [unit EXCEPT ![u].load = w]
            /\ UNCHANGED <<paid, share, points, prov, airborne, landed>>
            /\ \/ w <= unit[u].load /\ free' = free
               \/ free' = [free EXCEPT ![u] = @ + Max({0, w - unit[u].load})]
      <3>0. unit[u].load \in 0..Weapons /\ Weapons \in Nat
        BY <1>k, ConstantsOK DEF Kinds
      <3>1. CASE Fire(u)
        <4>1. unit[u].load - 1 \in 0..Weapons /\ unit[u].load - 1 <= unit[u].load
          BY <3>0, <3>1 DEF Fire
        <4> QED BY <3>1, <4>1 DEF Fire, ctx, db, history
      <3>2. CASE Rearm(u)
        BY <3>2 DEF Rearm, ctx, db
      <3> QED BY <1>7, <3>1, <3>2
    <2>2. /\ SamePilots /\ unit'[u].load = w
          /\ \A v \in Units \ {u} : unit'[v] = unit[v]
      BY <2>1, <1>k, LoadedUnit
    <2>3. unit[u].load \in Nat /\ w \in Nat /\ Airframe \in Nat /\ free[u] \in Nat
      BY <1>k, ConstantsOK DEF Kinds
    <2> DEFINE more == Max({0, w - unit[u].load})
    <2>4. more \in Nat /\ w - unit[u].load <= more
      BY <2>3, MaxOfZero
    <2> HIDE DEF more
    <2>5. /\ free' \in [Units -> Nat] /\ \A v \in Units \ {u} : free'[v] = free[v]
          /\ free'[u] >= free[u] /\ w - free'[u] <= unit[u].load - free[u]
      <3>1. CASE w <= unit[u].load /\ free' = free
        BY <3>1, <2>3, <1>k
      <3>2. CASE free' = [free EXCEPT ![u] = @ + more]
        <4>1. free'[u] = free[u] + more /\ \A v \in Units \ {u} : free'[v] = free[v]
          BY <3>2, <1>k
        <4>2. free' \in [Units -> Nat]
          BY <3>2, <2>3, <2>4, <1>k
        <4> QED BY <4>1, <4>2, <2>3, <2>4
      <3> QED BY <2>1, <3>1, <3>2 DEF more
    <2>6. \A v \in Units : /\ free[v] <= free'[v]
                           /\ Cost(v)' - free'[v] <= Cost(v) - free[v]
      <3> TAKE v \in Units
      <3>1. CASE v = u
        <4>1. Cost(u) = Airframe + unit[u].load /\ Cost(u)' = Airframe + w
          BY <2>2 DEF Cost
        <4>2. free'[u] \in Nat
          BY <2>5
        <4> QED BY <3>1, <4>1, <4>2, <2>3, <2>5
      <3>2. CASE v # u
        <4>1. Cost(v)' = Cost(v) /\ free'[v] = free[v]
          BY <3>2, <2>2, <2>5 DEF Cost
        <4> QED BY <4>1, <1>k
      <3> QED BY <3>1, <3>2
    <2>7. \A v \in airborne' \cup landed' : Cost(v)' - free'[v] <= Cost(v) - free[v]
      BY <2>1, <2>6, <1>k
    <2>8. \A v \in Units : Pilot(v)' = None => Pilot(v) = None
      BY <2>2 DEF SamePilots
    <2> QED BY <2>1, <2>5, <2>6, <2>7, <2>8, <1>k, <1>s, SteadyRefund
  <1>8. ASSUME NEW p \in Players, Quit(p) PROVE RefundInv'
    <2>1. prov' = [prov EXCEPT ![p] = 0] /\ Idle /\ UNCHANGED <<points, airborne, landed>>
      BY <1>8 DEF Quit, history, ctx
    <2>2. SameCosts /\ SamePilots
      BY <1>8, <1>u, <1>m DEF Quit, Gone
    <2>3. prov' \in [Players -> Int]
      BY <2>1, <1>k
    <2> QED BY <2>1, <2>2, <2>3, <1>k, <1>q
  <1>9. ASSUME NEW p \in Players, Kill(p) \/ TeamKill(p) \/ ResetLives(p) PROVE RefundInv'
    <2>1. Idle /\ UNCHANGED <<unit, airborne, landed>>
      BY <1>9 DEF Kill, TeamKill, ResetLives, world, ctx, history
    <2>2. points' \in [Players -> Int] /\ prov' \in [Players -> Int]
      <3>1. CASE Kill(p)
        BY <3>1, <1>k DEF Kill
      <3>2. CASE TeamKill(p)
        BY <3>2, <1>k DEF TeamKill
      <3>3. CASE ResetLives(p)
        BY <3>3, <1>k DEF ResetLives
      <3> QED BY <1>9, <3>1, <3>2, <3>3
    <2> QED BY <2>1, <2>2, <1>u, <1>q
  <1>10. ASSUME NEW b \in Bases, Capture(b) PROVE RefundInv'
    <2>1. Idle /\ UNCHANGED <<unit, points, prov, airborne, landed>>
      BY <1>10 DEF Capture, ctx, db, history
    <2> QED BY <2>1, <1>u, <1>0
  <1>11. CASE SlowTick
    BY <1>11, <1>k, <1>s, JudgedRefund DEF SlowTick, world, Kinds
  <1>12. CASE Shutdown
    BY <1>12, <1>s, JudgedRefund DEF Shutdown, world
  <1>13. CASE MissionEnd
    <2>1. Idle /\ UNCHANGED <<unit, points, prov, airborne, landed>>
      BY <1>13 DEF MissionEnd, world, ctx, db, history
    <2> QED BY <2>1, <1>u, <1>0
  <1>14. CASE Load
    <2>1. /\ Idle /\ points' = points /\ prov' = [p \in Players |-> 0]
          /\ airborne' = {} /\ landed' = {}
          /\ unit' = [u \in Units |-> [unit[u] EXCEPT !.place = Nowhere]]
      BY <1>14 DEF Load
    <2>2. SameCosts /\ SamePilots
      BY <2>1, <1>k DEF Cost, Kinds, SamePilots, Pilot, Type
    <2>3. prov' \in [Players -> Int]
      BY <2>1
    <2> QED BY <2>1, <2>2, <2>3, <1>k, <1>q
  <1>15. CASE UNCHANGED vars
    <2>1. Idle /\ UNCHANGED <<unit, points, prov, airborne, landed>>
      BY <1>15 DEF vars, world, ctx, db, history
    <2> QED BY <2>1, <1>u, <1>0
  <1> QED
    BY <1>1, <1>2, <1>3, <1>4, <1>5, <1>6, <1>7, <1>8, <1>9, <1>10, <1>11, <1>12, <1>13,
       <1>14, <1>15 DEF Next

\* A unit never holds more than one of its pilot's lives, and gives none back it did not
\* take, however its take-offs and landings are reported and judged.
THEOREM OneLife == Spec => []OneLifePerFlight
  <1>1. SortieInv => OneLifePerFlight
    BY DEF SortieInv
  <1> QED BY InitSortie, StepSortie, <1>1, PTL DEF Spec

\* Whoever is noted as airborne has a life of that type out with one of his flights, so
\* that a restart returns nothing a landing has returned.
THEOREM StakesAreOwed == Spec => []StakeIsOwed
  <1>1. SortieInv => StakeIsOwed
    BY DEF SortieInv
  <1> QED BY InitSortie, StepSortie, <1>1, PTL DEF Spec

\* A refund exceeds the charge for the flight by at most what came aboard uncharged, and by
\* the one point of rounding, for the pilot, the objectives and both together, whatever was
\* fired, loaded, captured, killed or judged in between and whenever no cost was found.
THEOREM RefundsAreCovered == Spec => []RefundWithinCharge
  <1>1. RefundInv => RefundWithinCharge
    BY DEF RefundInv, Backing, Within, RefundWithinCharge
  <1> QED BY InitRefund, StepRefund, <1>1, PTL DEF Spec

=============================================================================
