---------------------------- MODULE PointsProofs ----------------------------
(***************************************************************************)
(* What pilots and bases pay for troops, and what pilots are paid for      *)
(* kills, proved of Cargo for any pilots, bases and prices, and of Shots   *)
(* for any units, players and worth of a kill.                             *)
(*                                                                         *)
(* The accounts are sums over the troops there are.  A step hands troops   *)
(* from one place to another, loses some, or buys or returns one; what     *)
(* each step does to the table of troops is stated first, and what it does *)
(* to a sum over the table follows from the lemmas about sums.             *)
(***************************************************************************)
EXTENDS Cargo, Shots, FoldLemmas

---------------------------------------------------------------------------
(* Sharing a price.                                                        *)

\* The fractions Fraction can note for a troop of kind k.
Shares(k) == {<<0, 1>>, <<1, 1>>} \union {<<n, Cost[k]>> : n \in 1..(Cost[k] - 1)}

Squad == {t \in Troop : t.fraction \in Shares(t.kind)}

LEMMA Division ==
    ASSUME NEW d \in Nat \ {0}, NEW q \in Nat, NEW r \in 0..(d - 1)
    PROVE  (d * q + r) \div d = q
  OBVIOUS

\* f32::round of a price times a fraction noted for it gives back the whole share.
LEMMA RoundedExactly ==
    ASSUME NEW c \in Nat
    PROVE  /\ Rounded(c, 0, 1) = 0 /\ Rounded(c, 1, 1) = c
           /\ \A n \in 0..c : c # 0 => Rounded(c, n, c) = n
<1>1. Rounded(c, 0, 1) = 0 /\ Rounded(c, 1, 1) = c
  BY DEF Rounded
<1>2. ASSUME NEW n \in 0..c, c # 0
      PROVE  Rounded(c, n, c) = n
  <2>1. 2 * c \in Nat \ {0} /\ c \in 0..(2 * c - 1) /\ n \in Nat
    BY <1>2
  <2>2. ((2 * c) * n + c) \div (2 * c) = n
    BY <2>1, Division
  <2> QED
    BY <2>2 DEF Rounded
<1> QED
  BY <1>1, <1>2

LEMMA SharesMakeThePrice ==
    ASSUME NEW t \in Squad
    PROVE  /\ t.kind \in Kinds /\ t.player \in Pilots /\ t.origin \in Bases
           /\ Cost[t.kind] \in Nat /\ PilotShare(t) \in Nat /\ BaseShare(t) \in Nat
           /\ PilotShare(t) + BaseShare(t) = Cost[t.kind]
<1>1. t.kind \in Kinds /\ t.player \in Pilots /\ t.origin \in Bases /\ Cost[t.kind] \in Nat
  BY CargoAssumption DEF Squad, Troop
<1> DEFINE c == Cost[t.kind]
<1>2. CASE t.fraction = <<0, 1>>
  <2>1. PilotShare(t) = Rounded(c, 0, 1) /\ BaseShare(t) = Rounded(c, 1, 1)
    BY <1>2 DEF PilotShare, BaseShare
  <2> QED
    BY <1>1, <2>1, RoundedExactly
<1>3. CASE t.fraction = <<1, 1>>
  <2>1. PilotShare(t) = Rounded(c, 1, 1) /\ BaseShare(t) = Rounded(c, 0, 1)
    BY <1>3 DEF PilotShare, BaseShare
  <2> QED
    BY <1>1, <2>1, RoundedExactly
<1>4. ASSUME NEW n \in 1..(c - 1), t.fraction = <<n, c>>
      PROVE  PilotShare(t) = n /\ BaseShare(t) = c - n
  <2>1. PilotShare(t) = Rounded(c, n, c) /\ BaseShare(t) = Rounded(c, c - n, c)
    BY <1>4 DEF PilotShare, BaseShare
  <2>2. n \in 0..c /\ c - n \in 0..c /\ c # 0
    BY <1>1
  <2> QED
    BY <1>1, <2>1, <2>2, RoundedExactly
<1> QED
  BY <1>1, <1>2, <1>3, <1>4 DEF Squad, Shares

\* What is noted with a troop that is bought is what is paid for it.
LEMMA NotedAsPaid ==
    ASSUME NEW p \in Pilots, NEW b \in Bases, NEW k \in Kinds, points[p] \in Int
    PROVE  LET t == [kind |-> k, player |-> p, origin |-> b, fraction |-> Fraction(p, Cost[k])]
           IN  /\ t \in Squad /\ PilotPays(p, Cost[k]) \in 0..Cost[k]
               /\ PilotShare(t) = PilotPays(p, Cost[k])
               /\ BaseShare(t) = Cost[k] - PilotPays(p, Cost[k])
<1> DEFINE c == Cost[k]
           t == [kind |-> k, player |-> p, origin |-> b, fraction |-> Fraction(p, c)]
<1>0. c \in Nat
  BY CargoAssumption
<1>1. CASE points[p] <= 0
  <2>1. t.fraction = <<0, 1>> /\ PilotPays(p, c) = 0
    BY <1>1 DEF Fraction, PilotPays
  <2>2. PilotShare(t) = Rounded(c, 0, 1) /\ BaseShare(t) = Rounded(c, 1, 1)
    BY <2>1 DEF PilotShare, BaseShare
  <2> QED
    BY <1>0, <2>1, <2>2, RoundedExactly DEF Squad, Troop, Shares
<1>2. CASE points[p] > 0 /\ points[p] < c
  <2>1. t.fraction = <<points[p], c>> /\ PilotPays(p, c) = points[p] /\ points[p] \in 1..(c - 1)
    BY <1>0, <1>2 DEF Fraction, PilotPays, Least
  <2>2. PilotShare(t) = Rounded(c, points[p], c) /\ BaseShare(t) = Rounded(c, c - points[p], c)
    BY <2>1 DEF PilotShare, BaseShare
  <2>3. points[p] \in 0..c /\ c - points[p] \in 0..c /\ c # 0
    BY <1>0, <2>1
  <2>4. PilotShare(t) = points[p] /\ BaseShare(t) = c - points[p]
    BY <1>0, <2>2, <2>3, RoundedExactly
  <2> QED
    BY <1>0, <2>1, <2>3, <2>4 DEF Squad, Troop, Shares
<1>3. CASE points[p] > 0 /\ points[p] >= c
  <2>1. t.fraction = <<1, 1>> /\ PilotPays(p, c) = c
    BY <1>0, <1>3 DEF Fraction, PilotPays, Least
  <2>2. PilotShare(t) = Rounded(c, 1, 1) /\ BaseShare(t) = Rounded(c, 0, 1)
    BY <2>1 DEF PilotShare, BaseShare
  <2> QED
    BY <1>0, <2>1, <2>2, RoundedExactly DEF Squad, Troop, Shares
<1> QED
  BY <1>0, <1>1, <1>2, <1>3

---------------------------------------------------------------------------
(* Sums over a table of troops.                                            *)

Table(sq) == IsFiniteSet(DOMAIN sq) /\ sq \in [DOMAIN sq -> Squad]

Values(w, sq) == [x \in DOMAIN sq |-> w[sq[x]]]

\* The sum over the table of what w makes of a troop.
Weight(w, sq) == SumOf(Values(w, sq), DOMAIN sq)

LEMMA WeightIsNumber ==
    ASSUME NEW w \in [Squad -> Nat], NEW sq, Table(sq)
    PROVE  Weight(w, sq) \in Int /\ Numbers(Values(w, sq), DOMAIN sq)
           /\ \A x \in DOMAIN sq : Values(w, sq)[x] = w[sq[x]] /\ w[sq[x]] \in Nat
<1>1. Numbers(Values(w, sq), DOMAIN sq)
      /\ \A x \in DOMAIN sq : Values(w, sq)[x] = w[sq[x]] /\ w[sq[x]] \in Nat
  BY DEF Table, Numbers, Values
<1> QED
  BY <1>1, SumIsNumber DEF Table, Weight

\* Troops that are lost make no sum grow.
LEMMA WeightOfFewer ==
    ASSUME NEW w \in [Squad -> Nat], NEW sq, Table(sq), NEW R
    PROVE  Table(Without(sq, R)) /\ Weight(w, Without(sq, R)) <= Weight(w, sq)
<1> DEFINE left == Without(sq, R)
           D == DOMAIN sq \ R
<1>1. DOMAIN left = D /\ \A x \in D : left[x] = sq[x]
  BY DEF Without
<1>2. IsFiniteSet(D) /\ D \in SUBSET DOMAIN sq
  BY FS_Subset DEF Table
<1>3. Table(left)
  BY <1>2 DEF Table, Without
<1>4. \A x \in D : Values(w, sq)[x] = Values(w, left)[x]
  BY <1>1 DEF Values
<1>5. Numbers(Values(w, sq), DOMAIN sq) /\ \A x \in DOMAIN sq : Values(w, sq)[x] >= 0
  BY WeightIsNumber
<1>6. Numbers(Values(w, sq), D)
  BY <1>2, <1>5 DEF Numbers
<1> HIDE DEF left, D
<1>7. SumOf(Values(w, left), D) = SumOf(Values(w, sq), D)
  BY <1>2, <1>4, <1>6, SumSame
<1>8. SumOf(Values(w, sq), D) <= SumOf(Values(w, sq), DOMAIN sq)
  BY <1>2, <1>5, SumGrows DEF Table
<1> QED
  BY <1>1, <1>3, <1>7, <1>8 DEF Weight, left

LEMMA WeightOfOneLess ==
    ASSUME NEW w \in [Squad -> Nat], NEW sq, Table(sq), NEW x \in DOMAIN sq
    PROVE  Weight(w, Without(sq, {x})) = Weight(w, sq) - w[sq[x]]
<1> DEFINE left == Without(sq, {x})
           D == DOMAIN sq \ {x}
<1>1. DOMAIN left = D /\ \A y \in D : left[y] = sq[y]
  BY DEF Without
<1>2. IsFiniteSet(D) /\ IsFiniteSet(DOMAIN sq)
  BY FS_Subset DEF Table
<1>3. \A y \in D : Values(w, left)[y] = Values(w, sq)[y]
  BY <1>1 DEF Values
<1>4. Numbers(Values(w, sq), DOMAIN sq) /\ Values(w, sq)[x] = w[sq[x]] /\ w[sq[x]] \in Nat
  BY WeightIsNumber
<1>5. Numbers(Values(w, sq), D)
  BY <1>4 DEF Numbers
<1> HIDE DEF left
<1>6. SumOf(Values(w, left), D) = SumOf(Values(w, sq), D) /\ SumOf(Values(w, sq), D) \in Int
  <2> HIDE DEF D
  <2> QED
    BY <1>2, <1>3, <1>5, SumSame, SumIsNumber
<1>7. SumOf(Values(w, sq), DOMAIN sq) = w[sq[x]] + SumOf(Values(w, sq), D)
  BY <1>2, <1>4, SumRemove
<1>8. Weight(w, left) = SumOf(Values(w, sq), D) /\ Weight(w, sq) = SumOf(Values(w, sq), DOMAIN sq)
  BY <1>1, <1>6 DEF Weight
<1> HIDE DEF D
<1> QED
  BY <1>4, <1>6, <1>7, <1>8 DEF left

LEMMA WeightOfOneMore ==
    ASSUME NEW w \in [Squad -> Nat], NEW sq, Table(sq), NEW x, x \notin DOMAIN sq, NEW t \in Squad
    PROVE  Table(With(sq, x, t)) /\ Weight(w, With(sq, x, t)) = Weight(w, sq) + w[t]
<1> DEFINE more == With(sq, x, t)
           D == DOMAIN sq \union {x}
<1>1. DOMAIN more = D /\ more[x] = t /\ \A y \in DOMAIN sq : more[y] = sq[y]
  BY DEF With
<1>2. IsFiniteSet(D) /\ IsFiniteSet(DOMAIN sq)
  BY FS_AddElement DEF Table
<1>3. Table(more)
  BY <1>1, <1>2 DEF Table, With
<1>4. \A y \in DOMAIN sq : Values(w, more)[y] = Values(w, sq)[y]
  BY <1>1 DEF Values
<1>5. Numbers(Values(w, more), D) /\ Values(w, more)[x] = w[t] /\ w[t] \in Nat
  <2> HIDE DEF more
  <2> QED
    BY <1>1, <1>3, WeightIsNumber
<1>6. Numbers(Values(w, sq), DOMAIN sq) /\ Weight(w, sq) \in Int
  BY WeightIsNumber
<1> HIDE DEF more
<1>7. SumOf(Values(w, more), DOMAIN sq) = SumOf(Values(w, sq), DOMAIN sq)
  BY <1>2, <1>4, <1>6, SumSame
<1>8. SumOf(Values(w, more), D) = w[t] + SumOf(Values(w, more), DOMAIN sq)
  <2>1. D \ {x} = DOMAIN sq /\ x \in D
    OBVIOUS
  <2> HIDE DEF D
  <2> QED
    BY <1>2, <1>5, <2>1, SumRemove
<1>9. Weight(w, more) = SumOf(Values(w, more), D) /\ Weight(w, sq) = SumOf(Values(w, sq), DOMAIN sq)
  BY <1>1 DEF Weight
<1> HIDE DEF D
<1> QED
  BY <1>3, <1>5, <1>6, <1>7, <1>8, <1>9 DEF more

---------------------------------------------------------------------------
(* The table of the troops there are, and what moves them.                 *)

Loads(ab) == ab \in [Pilots -> Seq(Squad)] /\ \A p \in Pilots : Len(ab[p]) <= TroopSlots

Landed(tr) == IsFiniteSet(DOMAIN tr) /\ tr \in [DOMAIN tr -> [troop : Squad, place : Bases \union {Field}]]

Aboard(ab) == {y \in Pilots \X (1..TroopSlots) : y[2] \in DOMAIN ab[y[1]]}
OnGround(G) == {<<Field, g>> : g \in G}

\* Squads, of the troops aboard and those on the ground.
TableOf(ab, tr) ==
    [x \in Aboard(ab) \union OnGround(DOMAIN tr) |->
        IF x[1] = Field THEN tr[x[2]].troop ELSE ab[x[1]][x[2]]]

\* A troop more aboard, or one less.
Boarded(ab, p, t) == [ab EXCEPT ![p] = Append(@, t)]
Unloaded(ab, p) == [ab EXCEPT ![p] = Popped(@)]

LEMMA KeysAboard ==
    ASSUME NEW ab, Loads(ab)
    PROVE  /\ \A p \in Pilots : /\ p # Field /\ Len(ab[p]) \in 0..TroopSlots
                              /\ \A i \in 1..Len(ab[p]) : ab[p][i] \in Squad /\ <<p, i>> \in Aboard(ab)
           /\ \A x \in Aboard(ab) : x[1] \in Pilots /\ x[2] \in 1..Len(ab[x[1]]) /\ x = <<x[1], x[2]>>
<1>1. \A p \in Pilots : /\ p # Field /\ Len(ab[p]) \in 0..TroopSlots
                         /\ DOMAIN ab[p] = 1..Len(ab[p])
                         /\ \A i \in 1..Len(ab[p]) : ab[p][i] \in Squad
  BY CargoAssumption DEF Loads
<1>2. ASSUME NEW p \in Pilots, NEW i \in 1..Len(ab[p])
      PROVE  <<p, i>> \in Aboard(ab)
  <2>1. <<p, i>> \in Pilots \X (1..TroopSlots)
    BY <1>1, CargoAssumption
  <2> QED
    BY <1>1, <2>1 DEF Aboard
<1>3. \A x \in Aboard(ab) : x[1] \in Pilots /\ x[2] \in 1..Len(ab[x[1]]) /\ x = <<x[1], x[2]>>
  BY <1>1 DEF Aboard
<1> QED
  BY <1>1, <1>2, <1>3

LEMMA TableOfTroops ==
    ASSUME NEW ab, NEW tr, Loads(ab), Landed(tr)
    PROVE  /\ Table(TableOf(ab, tr))
           /\ DOMAIN TableOf(ab, tr) = Aboard(ab) \union OnGround(DOMAIN tr)
           /\ \A x \in Aboard(ab) : TableOf(ab, tr)[x] = ab[x[1]][x[2]]
           /\ \A g \in DOMAIN tr : /\ <<Field, g>> \in OnGround(DOMAIN tr)
                                    /\ TableOf(ab, tr)[<<Field, g>>] = tr[g].troop
<1>1. \A x \in Aboard(ab) : x[1] # Field /\ ab[x[1]][x[2]] \in Squad
  BY KeysAboard
<1>2. \A x \in Aboard(ab) : TableOf(ab, tr)[x] = ab[x[1]][x[2]]
  BY <1>1 DEF TableOf
<1>3. \A g \in DOMAIN tr : /\ <<Field, g>> \in OnGround(DOMAIN tr) /\ tr[g].troop \in Squad
                            /\ TableOf(ab, tr)[<<Field, g>>] = tr[g].troop
  BY DEF TableOf, OnGround, Landed
<1>4. DOMAIN TableOf(ab, tr) = Aboard(ab) \union OnGround(DOMAIN tr)
  BY DEF TableOf
<1>5. \A x \in DOMAIN TableOf(ab, tr) : TableOf(ab, tr)[x] \in Squad
  <2>1. \A x \in OnGround(DOMAIN tr) : TableOf(ab, tr)[x] \in Squad
    BY <1>3 DEF OnGround
  <2> QED
    BY <1>1, <1>2, <1>4, <2>1
<1>6. IsFiniteSet(DOMAIN TableOf(ab, tr))
  <2>1. IsFiniteSet(Pilots \X (1..TroopSlots)) /\ IsFiniteSet({Field} \X DOMAIN tr)
    <3>1. IsFiniteSet(1..TroopSlots) /\ IsFiniteSet({Field})
      <4>1. TroopSlots \in Int /\ 1 \in Int
        BY CargoAssumption
      <4> QED
        BY <4>1, FS_Interval, FS_Singleton
    <3> QED
      BY <3>1, FS_Product, CargoAssumption DEF Landed
  <2>2. IsFiniteSet(Aboard(ab)) /\ IsFiniteSet(OnGround(DOMAIN tr))
    BY <2>1, FS_Subset DEF Aboard, OnGround
  <2> QED
    BY <1>4, <2>2, FS_Union
<1>7. Table(TableOf(ab, tr))
  BY <1>5, <1>6 DEF Table, TableOf
<1> QED
  BY <1>2, <1>3, <1>4, <1>7

LEMMA TableOnGround ==
    ASSUME NEW ab, NEW tr, Loads(ab), Landed(tr), NEW g \in DOMAIN tr
    PROVE  <<Field, g>> \in DOMAIN TableOf(ab, tr) /\ TableOf(ab, tr)[<<Field, g>>] = tr[g].troop
  BY DEF TableOf, OnGround

\* Two tables with the same troops under the same keys are the same.
LEMMA SameTable ==
    ASSUME NEW ab, NEW tr, NEW sq, sq = [x \in DOMAIN sq |-> sq[x]],
           DOMAIN sq = DOMAIN TableOf(ab, tr), \A x \in DOMAIN sq : TableOf(ab, tr)[x] = sq[x]
    PROVE  TableOf(ab, tr) = sq
<1>1. TableOf(ab, tr) = [x \in DOMAIN TableOf(ab, tr) |-> TableOf(ab, tr)[x]]
  BY DEF TableOf
<1> QED
  BY <1>1

\* A troop comes aboard.
LEMMA TableBoarded ==
    ASSUME NEW ab, NEW tr, Loads(ab), Landed(tr), NEW p \in Pilots, NEW t \in Squad,
           Len(ab[p]) < TroopSlots
    PROVE  LET n == <<p, Len(ab[p]) + 1>>
               on == Boarded(ab, p, t)
           IN  /\ Loads(on) /\ n \notin DOMAIN TableOf(ab, tr)
               /\ TableOf(on, tr) = With(TableOf(ab, tr), n, t)
<1> DEFINE n == <<p, Len(ab[p]) + 1>>
           on == Boarded(ab, p, t)
<1>1. /\ \A q \in Pilots \ {p} : on[q] = ab[q]
      /\ on[p] = Append(ab[p], t) /\ Len(on[p]) = Len(ab[p]) + 1
      /\ \A i \in 1..Len(ab[p]) : on[p][i] = ab[p][i]
      /\ on[p][Len(ab[p]) + 1] = t
      /\ Len(ab[p]) \in Nat
  BY DEF Loads, Boarded
<1>2. Loads(on)
  BY <1>1, CargoAssumption DEF Loads, Boarded
<1> HIDE DEF on
<1>3. Aboard(on) = Aboard(ab) \union {n}
  <2>1. ASSUME NEW x \in Aboard(on), x # n PROVE x \in Aboard(ab)
    <3>1. x[1] \in Pilots /\ x[2] \in 1..Len(on[x[1]]) /\ x = <<x[1], x[2]>>
      BY <1>2, KeysAboard
    <3>2. x[2] \in 1..Len(ab[x[1]])
      BY <1>1, <2>1, <3>1
    <3>3. <<x[1], x[2]>> \in Aboard(ab)
      BY <3>1, <3>2, KeysAboard
    <3> QED
      BY <3>1, <3>3
  <2>2. ASSUME NEW x \in Aboard(ab) PROVE x \in Aboard(on)
    <3>1. x[1] \in Pilots /\ x[2] \in 1..Len(ab[x[1]]) /\ x = <<x[1], x[2]>>
      BY KeysAboard
    <3>2. x[2] \in 1..Len(on[x[1]])
      BY <1>1, <3>1
    <3>3. <<x[1], x[2]>> \in Aboard(on)
      BY <1>2, <3>1, <3>2, KeysAboard
    <3> QED
      BY <3>1, <3>3
  <2>3. n \in Aboard(on)
    <3>1. Len(ab[p]) + 1 \in 1..Len(on[p])
      BY <1>1
    <3> QED
      BY <1>2, <3>1, KeysAboard
  <2> QED
    BY <2>1, <2>2, <2>3
<1>4. n \notin Aboard(ab) /\ n \notin OnGround(DOMAIN tr)
  <2>1. p # Field /\ Len(ab[p]) + 1 \notin 1..Len(ab[p])
    BY <1>1, KeysAboard
  <2>2. n[1] = p /\ n[2] = Len(ab[p]) + 1
    OBVIOUS
  <2>3. n \notin Aboard(ab)
    BY <2>1, <2>2, KeysAboard
  <2> QED
    BY <2>1, <2>3 DEF OnGround
<1>5. /\ DOMAIN TableOf(on, tr) = DOMAIN TableOf(ab, tr) \union {n}
      /\ DOMAIN TableOf(ab, tr) = Aboard(ab) \union OnGround(DOMAIN tr)
  BY <1>3 DEF TableOf
<1>6. ASSUME NEW x \in DOMAIN TableOf(on, tr)
      PROVE  TableOf(on, tr)[x] = IF x = n THEN t ELSE TableOf(ab, tr)[x]
  <2>1. CASE x = n
    <3>1. n[1] = p /\ n[2] = Len(ab[p]) + 1
      OBVIOUS
    <3> HIDE DEF n
    <3>2. n \in Aboard(on)
      BY <1>3
    <3>3. \A y \in Aboard(on) : TableOf(on, tr)[y] = on[y[1]][y[2]]
      BY <1>2, TableOfTroops
    <3> QED
      BY <1>1, <2>1, <3>1, <3>2, <3>3
  <2>2. CASE x \in Aboard(ab)
    <3>1. x[1] \in Pilots /\ x[2] \in 1..Len(ab[x[1]])
      BY <2>2, KeysAboard
    <3>2. on[x[1]][x[2]] = ab[x[1]][x[2]]
      BY <1>1, <3>1
    <3>3. x \in Aboard(on) /\ x # n
      BY <1>3, <1>4, <2>2
    <3> QED
      BY <1>2, <2>2, <3>2, <3>3, TableOfTroops
  <2>3. CASE x \in OnGround(DOMAIN tr)
    <3>1. x[1] = Field
      BY <2>3 DEF OnGround
    <3> QED
      BY <1>4, <1>5, <2>3, <3>1 DEF TableOf
  <2> QED
    BY <1>5, <2>1, <2>2, <2>3
<1>7. TableOf(on, tr) = With(TableOf(ab, tr), n, t)
  <2> DEFINE sq == With(TableOf(ab, tr), n, t)
  <2>1. /\ DOMAIN sq = DOMAIN TableOf(ab, tr) \union {n} /\ sq = [x \in DOMAIN sq |-> sq[x]]
        /\ \A x \in DOMAIN sq : sq[x] = IF x = n THEN t ELSE TableOf(ab, tr)[x]
    BY DEF With
  <2> HIDE DEF sq, n
  <2>2. TableOf(on, tr) = sq
    BY <1>5, <1>6, <2>1, SameTable
  <2> QED
    BY <2>2 DEF sq
<1> QED
  BY <1>2, <1>4, <1>5, <1>7 DEF on

LEMMA PoppedOne ==
    ASSUME NEW S, NEW s \in Seq(S), s # <<>>
    PROVE  /\ Len(s) \in Nat \ {0} /\ s[Len(s)] \in S
           /\ Popped(s) \in Seq(S) /\ Len(Popped(s)) = Len(s) - 1
           /\ \A i \in 1..(Len(s) - 1) : Popped(s)[i] = s[i]
<1>1. Len(s) \in Nat \ {0} /\ \A i \in 1..Len(s) : s[i] \in S
  OBVIOUS
<1>2. Popped(s) = [i \in 1..(Len(s) - 1) |-> s[i]]
  BY <1>1 DEF Popped
<1> QED
  BY <1>1, <1>2

\* The troop that came aboard last goes.
LEMMA TableLeft ==
    ASSUME NEW ab, NEW tr, Loads(ab), Landed(tr), NEW p \in Pilots, ab[p] # <<>>
    PROVE  LET n == <<p, Len(ab[p])>>
               off == Unloaded(ab, p)
           IN  /\ Loads(off) /\ n \in DOMAIN TableOf(ab, tr)
               /\ Last(ab[p]) \in Squad /\ TableOf(ab, tr)[n] = Last(ab[p])
               /\ TableOf(off, tr) = Without(TableOf(ab, tr), {n})
<1> DEFINE n == <<p, Len(ab[p])>>
           off == Unloaded(ab, p)
<1>0. /\ ab[p] \in Seq(Squad) /\ Len(ab[p]) \in Nat \ {0}
      /\ Popped(ab[p]) \in Seq(Squad) /\ Len(Popped(ab[p])) = Len(ab[p]) - 1
      /\ \A i \in 1..(Len(ab[p]) - 1) : Popped(ab[p])[i] = ab[p][i]
  BY PoppedOne DEF Loads
<1>1. /\ \A q \in Pilots \ {p} : off[q] = ab[q]
      /\ off[p] = Popped(ab[p]) /\ Len(off[p]) = Len(ab[p]) - 1 /\ off[p] \in Seq(Squad)
      /\ \A i \in 1..(Len(ab[p]) - 1) : off[p][i] = ab[p][i]
  BY <1>0 DEF Loads, Unloaded
<1>2. Loads(off)
  BY <1>0, <1>1, CargoAssumption DEF Loads, Unloaded
<1> HIDE DEF off
<1>3. n[1] = p /\ n[2] = Len(ab[p]) /\ n \in Aboard(ab) /\ ab[p][Len(ab[p])] \in Squad
  BY <1>0, KeysAboard
<1>4. n \notin Aboard(off)
  BY <1>0, <1>1, <1>2, <1>3, KeysAboard
<1>5. ASSUME NEW x \in Aboard(off)
      PROVE  x \in Aboard(ab) /\ off[x[1]][x[2]] = ab[x[1]][x[2]]
  <2>1. x[1] \in Pilots /\ x[2] \in 1..Len(off[x[1]]) /\ x = <<x[1], x[2]>>
    BY <1>2, KeysAboard
  <2>2. x[2] \in 1..Len(ab[x[1]]) /\ off[x[1]][x[2]] = ab[x[1]][x[2]]
    BY <1>0, <1>1, <2>1
  <2>3. <<x[1], x[2]>> \in Aboard(ab)
    BY <2>1, <2>2, KeysAboard
  <2> QED
    BY <2>1, <2>2, <2>3
<1>6. ASSUME NEW x \in Aboard(ab), x # n
      PROVE  x \in Aboard(off)
  <2>1. x[1] \in Pilots /\ x[2] \in 1..Len(ab[x[1]]) /\ x = <<x[1], x[2]>>
    BY KeysAboard
  <2>2. x[2] \in 1..Len(off[x[1]])
    BY <1>0, <1>1, <1>6, <2>1
  <2>3. <<x[1], x[2]>> \in Aboard(off)
    BY <1>2, <2>1, <2>2, KeysAboard
  <2> QED
    BY <2>1, <2>3
<1>7. n \notin OnGround(DOMAIN tr)
  BY KeysAboard DEF OnGround
<1> HIDE DEF n
<1>8. DOMAIN TableOf(off, tr) = DOMAIN TableOf(ab, tr) \ {n}
  <2>1. Aboard(off) = Aboard(ab) \ {n}
    BY <1>4, <1>5, <1>6
  <2> QED
    BY <1>7, <2>1 DEF TableOf
<1>9. TableOf(off, tr) = Without(TableOf(ab, tr), {n})
  <2> DEFINE sq == Without(TableOf(ab, tr), {n})
  <2>1. /\ DOMAIN sq = DOMAIN TableOf(ab, tr) \ {n} /\ sq = [x \in DOMAIN sq |-> sq[x]]
        /\ \A x \in DOMAIN sq : sq[x] = TableOf(ab, tr)[x]
    BY DEF Without
  <2>2. \A x \in DOMAIN TableOf(off, tr) : TableOf(off, tr)[x] = TableOf(ab, tr)[x]
    <3>1. \A x \in Aboard(off) : TableOf(off, tr)[x] = TableOf(ab, tr)[x]
      BY <1>2, <1>5, TableOfTroops
    <3>2. \A x \in OnGround(DOMAIN tr) : x[1] = Field
      BY DEF OnGround
    <3>3. \A x \in OnGround(DOMAIN tr) : TableOf(off, tr)[x] = TableOf(ab, tr)[x]
      BY <3>2 DEF TableOf
    <3>4. DOMAIN TableOf(off, tr) = Aboard(off) \union OnGround(DOMAIN tr)
      BY DEF TableOf
    <3> QED
      BY <3>1, <3>3, <3>4
  <2> HIDE DEF sq
  <2>3. TableOf(off, tr) = sq
    BY <1>8, <2>1, <2>2, SameTable
  <2> QED
    BY <2>3 DEF sq
<1>10. n \in DOMAIN TableOf(ab, tr) /\ TableOf(ab, tr)[n] = Last(ab[p])
  <2>1. TableOf(ab, tr)[n] = ab[n[1]][n[2]] /\ n \in DOMAIN TableOf(ab, tr)
    BY <1>3, TableOfTroops
  <2> QED
    BY <1>3, <2>1 DEF Last
<1> QED
  BY <1>2, <1>3, <1>9, <1>10 DEF off, n, Last

\* Troops on the ground go.
LEMMA TableGone ==
    ASSUME NEW ab, NEW tr, Loads(ab), Landed(tr), NEW G
    PROVE  /\ Landed(Without(tr, G))
           /\ TableOf(ab, Without(tr, G)) = Without(TableOf(ab, tr), OnGround(G))
<1> DEFINE left == Without(tr, G)
           sq == Without(TableOf(ab, tr), OnGround(G))
<1>1. /\ DOMAIN left = DOMAIN tr \ G /\ \A g \in DOMAIN left : left[g] = tr[g]
      /\ left \in [DOMAIN left -> [troop : Squad, place : Bases \union {Field}]]
  BY DEF Without, Landed
<1>2. Landed(left)
  BY <1>1, FS_Subset DEF Landed
<1>3. \A x \in Aboard(ab) : x[1] # Field
  BY KeysAboard
<1>4. OnGround(DOMAIN left) = OnGround(DOMAIN tr) \ OnGround(G)
  <2>1. \A g, h : <<Field, g>> = <<Field, h>> => g = h
    OBVIOUS
  <2> HIDE DEF left
  <2> QED
    BY <1>1, <2>1 DEF OnGround
<1>5. Aboard(ab) = Aboard(ab) \ OnGround(G)
  BY <1>3 DEF OnGround
<1>6. /\ DOMAIN sq = DOMAIN TableOf(ab, tr) \ OnGround(G) /\ sq = [x \in DOMAIN sq |-> sq[x]]
      /\ \A x \in DOMAIN sq : sq[x] = TableOf(ab, tr)[x]
  BY DEF Without
<1>7. DOMAIN TableOf(ab, left) = DOMAIN sq
  BY <1>4, <1>5, <1>6 DEF TableOf
<1>8. \A x \in DOMAIN TableOf(ab, left) : TableOf(ab, left)[x] = TableOf(ab, tr)[x]
  <2>1. \A x \in OnGround(DOMAIN left) : x[1] = Field /\ x[2] \in DOMAIN left /\ x \in OnGround(DOMAIN tr)
    BY <1>1 DEF OnGround
  <2> QED
    BY <1>1, <1>3, <2>1 DEF TableOf
<1> HIDE DEF sq, left
<1>9. TableOf(ab, left) = sq
  BY <1>6, <1>7, <1>8, SameTable
<1> QED
  BY <1>2, <1>9 DEF sq, left

\* A troop is put on the ground.
LEMMA TableLanded ==
    ASSUME NEW ab, NEW tr, Loads(ab), Landed(tr), NEW g, g \notin DOMAIN tr, NEW t \in Squad,
           NEW l \in Bases \union {Field}
    PROVE  LET more == With(tr, g, [troop |-> t, place |-> l])
           IN  /\ Landed(more) /\ <<Field, g>> \notin DOMAIN TableOf(ab, tr)
               /\ TableOf(ab, more) = With(TableOf(ab, tr), <<Field, g>>, t)
<1> DEFINE n == <<Field, g>>
           more == With(tr, g, [troop |-> t, place |-> l])
           sq == With(TableOf(ab, tr), n, t)
<1>1. /\ DOMAIN more = DOMAIN tr \union {g} /\ \A h \in DOMAIN tr : more[h] = tr[h]
      /\ more[g].troop = t
      /\ more \in [DOMAIN more -> [troop : Squad, place : Bases \union {Field}]]
  BY DEF With, Landed
<1>2. Landed(more)
  BY <1>1, FS_AddElement DEF Landed
<1>3. \A x \in Aboard(ab) : x[1] # Field
  BY KeysAboard
<1>4. OnGround(DOMAIN more) = OnGround(DOMAIN tr) \union {n} /\ n \notin OnGround(DOMAIN tr)
  BY <1>1 DEF OnGround
<1>5. n \notin Aboard(ab)
  BY <1>3
<1>6. /\ DOMAIN sq = DOMAIN TableOf(ab, tr) \union {n} /\ sq = [x \in DOMAIN sq |-> sq[x]]
      /\ \A x \in DOMAIN sq : sq[x] = IF x = n THEN t ELSE TableOf(ab, tr)[x]
  BY DEF With
<1>7. DOMAIN TableOf(ab, more) = DOMAIN sq /\ n \notin DOMAIN TableOf(ab, tr)
  BY <1>4, <1>5, <1>6 DEF TableOf
<1>8. \A x \in DOMAIN sq : TableOf(ab, more)[x] = sq[x]
  <2>1. \A x \in OnGround(DOMAIN tr) : x[1] = Field /\ x[2] \in DOMAIN tr /\ x \in OnGround(DOMAIN more)
    BY <1>1 DEF OnGround
  <2>2. TableOf(ab, more)[n] = t
    BY <1>1, <1>4 DEF TableOf
  <2>3. \A x \in Aboard(ab) \union OnGround(DOMAIN tr) : TableOf(ab, more)[x] = TableOf(ab, tr)[x]
    BY <1>1, <1>3, <2>1 DEF TableOf
  <2>4. DOMAIN TableOf(ab, tr) = Aboard(ab) \union OnGround(DOMAIN tr)
    BY DEF TableOf
  <2> HIDE DEF sq, more
  <2> QED
    BY <1>6, <2>2, <2>3, <2>4
<1> HIDE DEF sq, more
<1>9. TableOf(ab, more) = sq
  BY <1>6, <1>7, <1>8, SameTable
<1> QED
  BY <1>2, <1>7, <1>9 DEF sq, more

\* Pilots lose what they have aboard.
LEMMA TableEmptied ==
    ASSUME NEW ab, NEW tr, Loads(ab), Landed(tr), NEW P \in SUBSET Pilots
    PROVE  LET off == [p \in Pilots |-> IF p \in P THEN <<>> ELSE ab[p]]
           IN  /\ Loads(off)
               /\ TableOf(off, tr) = Without(TableOf(ab, tr), {x \in Aboard(ab) : x[1] \in P})
<1> DEFINE off == [p \in Pilots |-> IF p \in P THEN <<>> ELSE ab[p]]
           R == {x \in Aboard(ab) : x[1] \in P}
           sq == Without(TableOf(ab, tr), R)
<1>1. Loads(off)
  BY CargoAssumption DEF Loads
<1>2. Aboard(off) = Aboard(ab) \ R
  BY DEF Aboard
<1>3. \A x \in Aboard(ab) : x[1] # Field /\ x[1] \in Pilots
  BY KeysAboard
<1>4. /\ DOMAIN sq = DOMAIN TableOf(ab, tr) \ R /\ sq = [x \in DOMAIN sq |-> sq[x]]
      /\ \A x \in DOMAIN sq : sq[x] = TableOf(ab, tr)[x]
  BY DEF Without
<1>5. R \cap OnGround(DOMAIN tr) = {}
  BY <1>3 DEF OnGround
<1>6. DOMAIN TableOf(off, tr) = DOMAIN sq
  BY <1>2, <1>4, <1>5 DEF TableOf
<1>7. \A x \in DOMAIN TableOf(off, tr) : TableOf(off, tr)[x] = TableOf(ab, tr)[x]
  <2>1. \A x \in Aboard(off) : off[x[1]] = ab[x[1]]
    BY <1>2, <1>3
  <2>2. \A x \in OnGround(DOMAIN tr) : x[1] = Field
    BY DEF OnGround
  <2> HIDE DEF off
  <2> QED
    BY <1>2, <2>1, <2>2 DEF TableOf
<1> HIDE DEF sq, R, off
<1>8. TableOf(off, tr) = sq
  BY <1>4, <1>6, <1>7, SameTable
<1> QED
  BY <1>1, <1>8 DEF sq, R, off

---------------------------------------------------------------------------
(* The invariant.                                                          *)

Types ==
    /\ place \in [Pilots -> Bases \union {Field}] /\ bases \subseteq Bases
    /\ points \in [Pilots -> Int] /\ earned \in [Pilots -> Int] /\ stock \in [Bases -> Nat]
    /\ Loads(aboard) /\ Landed(troops)
    /\ next \in Nat \ {0} /\ DOMAIN troops \subseteq 1..(next - 1)

\* What a pilot, a base, and everyone has paid for a troop.
PaidBy(p) == [t \in Squad |-> IF t.player = p THEN PilotShare(t) ELSE 0]
BackedBy(b) == [t \in Squad |-> IF t.origin = b THEN BaseShare(t) ELSE 0]
Price == [t \in Squad |-> Cost[t.kind]]

Accounts ==
    /\ \A p \in Pilots : points[p] + Weight(PaidBy(p), Squads) <= Balance + earned[p]
    /\ \A b \in bases : stock[b] + Weight(BackedBy(b), Squads) <= Stock
    /\ Weight(Price, Squads) <= Spent

CargoInv == Types /\ Accounts /\ TroopsWithinLimit

LEMMA SquadsAreATable ==
    /\ Squads = TableOf(aboard, troops)
    /\ Squads' = TableOf(aboard', troops')
  BY DEF Squads, TableOf, Aboard, OnGround

LEMMA SquadsTable ==
    /\ Types => Table(Squads)
    /\ Types' => Table(Squads')
<1>1. Types => Table(TableOf(aboard, troops))
  BY TableOfTroops DEF Types
<1>2. Types' => Table(TableOf(aboard', troops'))
  BY TableOfTroops DEF Types
<1> QED
  BY <1>1, <1>2, SquadsAreATable

LEMMA Weights ==
    /\ \A p \in Pilots : PaidBy(p) \in [Squad -> Nat]
    /\ \A b \in Bases : BackedBy(b) \in [Squad -> Nat]
    /\ Price \in [Squad -> Nat]
  BY SharesMakeThePrice DEF PaidBy, BackedBy, Price

\* The sums of Cargo are sums over the table.
LEMMA SumsOverTable ==
    ASSUME NEW sq, Table(sq)
    PROVE  /\ \A p \in Pilots :
                 Sum([x \in {y \in DOMAIN sq : sq[y].player = p} |-> PilotShare(sq[x])])
                     = Weight(PaidBy(p), sq)
           /\ \A b \in Bases :
                 Sum([x \in {y \in DOMAIN sq : sq[y].origin = b} |-> BaseShare(sq[x])])
                     = Weight(BackedBy(b), sq)
           /\ Sum([x \in DOMAIN sq |-> Cost[sq[x].kind]]) = Weight(Price, sq)
<1>0. \A f : Sum(f) = SumOf(f, DOMAIN f)
  BY DEF Sum, SumOf, MapThenSumSet
<1>1. ASSUME NEW p \in Pilots
      PROVE  Sum([x \in {y \in DOMAIN sq : sq[y].player = p} |-> PilotShare(sq[x])])
                 = Weight(PaidBy(p), sq)
  <2> DEFINE T == {y \in DOMAIN sq : sq[y].player = p}
             f == [x \in T |-> PilotShare(sq[x])]
             g == Values(PaidBy(p), sq)
  <2>1. Sum(f) = SumOf(f, T)
    BY <1>0
  <2>2. \A x \in T : f[x] = g[x]
    BY DEF Table, Values, PaidBy
  <2>3. Numbers(g, DOMAIN sq)
    BY Weights, WeightIsNumber
  <2>4. \A x \in DOMAIN sq \ T : g[x] = 0
    BY DEF Table, Values, PaidBy
  <2>5. T \in SUBSET DOMAIN sq /\ IsFiniteSet(T) /\ IsFiniteSet(DOMAIN sq) /\ Numbers(g, T)
    BY <2>3, FS_Subset DEF Table, Numbers
  <2> HIDE DEF f, g, T
  <2>6. SumOf(f, T) = SumOf(g, T)
    BY <2>2, <2>5, SumSame
  <2>7. SumOf(g, T) = SumOf(g, DOMAIN sq)
    BY <2>4, <2>5, SumOfZeros
  <2> QED
    BY <2>1, <2>6, <2>7 DEF Weight, f, g, T
<1>2. ASSUME NEW b \in Bases
      PROVE  Sum([x \in {y \in DOMAIN sq : sq[y].origin = b} |-> BaseShare(sq[x])])
                 = Weight(BackedBy(b), sq)
  <2> DEFINE T == {y \in DOMAIN sq : sq[y].origin = b}
             f == [x \in T |-> BaseShare(sq[x])]
             g == Values(BackedBy(b), sq)
  <2>1. Sum(f) = SumOf(f, T)
    BY <1>0
  <2>2. \A x \in T : f[x] = g[x]
    BY DEF Table, Values, BackedBy
  <2>3. Numbers(g, DOMAIN sq)
    BY Weights, WeightIsNumber
  <2>4. \A x \in DOMAIN sq \ T : g[x] = 0
    BY DEF Table, Values, BackedBy
  <2>5. T \in SUBSET DOMAIN sq /\ IsFiniteSet(T) /\ IsFiniteSet(DOMAIN sq) /\ Numbers(g, T)
    BY <2>3, FS_Subset DEF Table, Numbers
  <2> HIDE DEF f, g, T
  <2>6. SumOf(f, T) = SumOf(g, T)
    BY <2>2, <2>5, SumSame
  <2>7. SumOf(g, T) = SumOf(g, DOMAIN sq)
    BY <2>4, <2>5, SumOfZeros
  <2> QED
    BY <2>1, <2>6, <2>7 DEF Weight, f, g, T
<1>3. Sum([x \in DOMAIN sq |-> Cost[sq[x].kind]]) = Weight(Price, sq)
  <2>1. [x \in DOMAIN sq |-> Cost[sq[x].kind]] = Values(Price, sq)
    BY DEF Table, Values, Price
  <2> QED
    BY <1>0, <2>1 DEF Weight, Values
<1> QED
  BY <1>1, <1>2, <1>3

\* The invariant is about what the properties are about.
LEMMA AccountsSayIt == Types /\ Accounts => AccountsBalance /\ TroopsArePaid
<1> SUFFICES ASSUME Types, Accounts PROVE AccountsBalance /\ TroopsArePaid
  OBVIOUS
<1>1. Table(Squads)
  BY SquadsTable
<1>2. /\ \A p \in Pilots : Sum(Bought(p)) = Weight(PaidBy(p), Squads)
      /\ \A b \in Bases : Sum(Backed(b)) = Weight(BackedBy(b), Squads)
      /\ Sum([x \in DOMAIN Squads |-> Cost[Squads[x].kind]]) = Weight(Price, Squads)
  BY <1>1, SumsOverTable DEF Bought, Backed
<1>3. bases \subseteq Bases
  BY DEF Types
<1> QED
  BY <1>2, <1>3 DEF Accounts, AccountsBalance, TroopsArePaid

---------------------------------------------------------------------------
(* What each action does to the table.                                     *)

\* No sum over the table grows.
NoMore == \A w \in [Squad -> Nat] : Weight(w, Squads') <= Weight(w, Squads)

LEMMA LoadBuysOne ==
    ASSUME Types, NEW p \in Pilots, NEW k \in Kinds, load_troops(p, k)
    PROVE  LET t == [kind |-> k, player |-> p, origin |-> place[p], fraction |-> Fraction(p, Cost[k])]
           IN  /\ t \in Squad /\ Loads(aboard')
               /\ \A w \in [Squad -> Nat] : Weight(w, Squads') = Weight(w, Squads) + w[t]
<1> DEFINE t == [kind |-> k, player |-> p, origin |-> place[p], fraction |-> Fraction(p, Cost[k])]
           n == <<p, Len(aboard[p]) + 1>>
<1>1. t \in Squad
  <2>1. place[p] \in Bases /\ points[p] \in Int
    BY DEF Types, load_troops, point_near_logistics
  <2> QED
    BY <2>1, NotedAsPaid
<1>2. aboard' = Boarded(aboard, p, t) /\ Len(aboard[p]) < TroopSlots /\ troops' = troops
  BY DEF load_troops, Room, groups, Boarded
<1>3. Loads(aboard) /\ Landed(troops)
  BY DEF Types
<1> HIDE DEF t
<1>4. /\ Loads(aboard') /\ n \notin DOMAIN TableOf(aboard, troops)
      /\ TableOf(aboard', troops') = With(TableOf(aboard, troops), n, t)
  <2> DEFINE on == Boarded(aboard, p, t)
  <2>1. /\ Loads(on) /\ n \notin DOMAIN TableOf(aboard, troops)
        /\ TableOf(on, troops) = With(TableOf(aboard, troops), n, t)
    BY <1>1, <1>2, <1>3, TableBoarded
  <2>2. aboard' = on /\ troops' = troops
    BY <1>2
  <2> HIDE DEF on, n
  <2> QED
    BY <2>1, <2>2
<1>5. Table(TableOf(aboard, troops))
  BY <1>3, TableOfTroops
<1> HIDE DEF n
<1>6. \A w \in [Squad -> Nat] : Weight(w, With(TableOf(aboard, troops), n, t))
                                = Weight(w, TableOf(aboard, troops)) + w[t]
  BY <1>1, <1>4, <1>5, WeightOfOneMore
<1> QED
  BY <1>1, <1>4, <1>6, SquadsAreATable DEF t

LEMMA ReturnGivesOneBack ==
    ASSUME Types, NEW p \in Pilots, return_troops(p)
    PROVE  LET t == Last(aboard[p])
           IN  /\ t \in Squad /\ Loads(aboard')
               /\ \A w \in [Squad -> Nat] : /\ Weight(w, Squads') = Weight(w, Squads) - w[t]
                                            /\ Weight(w, Squads) \in Int
<1> DEFINE n == <<p, Len(aboard[p])>>
<1>1. aboard' = Unloaded(aboard, p) /\ aboard[p] # <<>> /\ troops' = troops
  BY DEF return_troops, groups, Unloaded
<1>2. Loads(aboard) /\ Landed(troops)
  BY DEF Types
<1>3. /\ Loads(aboard') /\ n \in DOMAIN TableOf(aboard, troops) /\ Last(aboard[p]) \in Squad
      /\ TableOf(aboard, troops)[n] = Last(aboard[p])
      /\ TableOf(aboard', troops') = Without(TableOf(aboard, troops), {n})
  <2> DEFINE off == Unloaded(aboard, p)
  <2>1. /\ Loads(off) /\ n \in DOMAIN TableOf(aboard, troops) /\ Last(aboard[p]) \in Squad
        /\ TableOf(aboard, troops)[n] = Last(aboard[p])
        /\ TableOf(off, troops) = Without(TableOf(aboard, troops), {n})
    BY <1>1, <1>2, TableLeft
  <2>2. aboard' = off /\ troops' = troops
    BY <1>1
  <2> HIDE DEF off, n
  <2> QED
    BY <2>1, <2>2
<1>4. Table(TableOf(aboard, troops))
  BY <1>2, TableOfTroops
<1> HIDE DEF n
<1>5. \A w \in [Squad -> Nat] :
         /\ Weight(w, Without(TableOf(aboard, troops), {n}))
                = Weight(w, TableOf(aboard, troops)) - w[Last(aboard[p])]
         /\ Weight(w, TableOf(aboard, troops)) \in Int
  BY <1>3, <1>4, WeightOfOneLess, WeightIsNumber
<1> QED
  BY <1>3, <1>5, SquadsAreATable

LEMMA FirstOfSome ==
    ASSUME NEW S \in SUBSET Nat, S # {}
    PROVE  First(S) \in S
<1> DEFINE R == OpToRel(<, Nat)
<1>1. PICK x \in S : \A y \in S : ~(<<y, x>> \in R)
  BY NatLessThanWellFounded, WFMin
<1>2. \A y \in S : ~(y < x)
  BY <1>1 DEF OpToRel
<1>3. \A y \in S : x <= y
  BY <1>2
<1> QED
  BY <1>3 DEF First

\* Lost, unloaded or taken aboard by another, a troop is still one troop.
LEMMA UnloadKeepsTroops ==
    ASSUME Types, NEW p \in Pilots, NEW added \in BOOLEAN, unload_troops(p, added)
    PROVE  Types' /\ NoMore
<1> DEFINE t == Last(aboard[p])
           n == <<p, Len(aboard[p])>>
           G == Displaced(t.kind)
           left == Without(troops, G)
           sq == TableOf(aboard, troops)
<1>0. Loads(aboard) /\ Landed(troops) /\ next \in Nat \ {0} /\ DOMAIN troops \subseteq 1..(next - 1)
      /\ place[p] \in Bases \union {Field}
  BY DEF Types
<1>1. aboard[p] # <<>> /\ UNCHANGED <<place, bases, points, stock, earned>>
  BY DEF unload_troops, pilots, ground, accounts
<1>2. Table(sq)
  BY <1>0, TableOfTroops
<1>3. Landed(left) /\ DOMAIN left \subseteq DOMAIN troops
      /\ TableOf(aboard, left) = Without(sq, OnGround(G))
  <2>1. Landed(left) /\ TableOf(aboard, left) = Without(sq, OnGround(G))
    BY <1>0, TableGone
  <2>2. DOMAIN left \subseteq DOMAIN troops
    BY DEF Without
  <2> QED
    BY <2>1, <2>2
<1>4. Table(TableOf(aboard, left)) /\ \A w \in [Squad -> Nat] : Weight(w, TableOf(aboard, left)) <= Weight(w, sq)
  <2>1. Table(TableOf(aboard, left))
    BY <1>0, <1>3, TableOfTroops
  <2> HIDE DEF sq, left
  <2> QED
    BY <1>2, <1>3, <2>1, WeightOfFewer
<1>5. CASE added
  <2>1. /\ aboard' = Unloaded(aboard, p)
        /\ troops' = With(left, next, [troop |-> t, place |-> place[p]]) /\ next' = next + 1
    BY <1>5 DEF unload_troops, Unloaded
  <2> HIDE DEF left, sq, G
  <2>2. /\ Loads(aboard') /\ n \in DOMAIN TableOf(aboard, left) /\ t \in Squad
        /\ TableOf(aboard, left)[n] = t
        /\ TableOf(aboard', left) = Without(TableOf(aboard, left), {n})
    <3> DEFINE off == Unloaded(aboard, p)
    <3>1. /\ Loads(off) /\ n \in DOMAIN TableOf(aboard, left) /\ t \in Squad
          /\ TableOf(aboard, left)[n] = t
          /\ TableOf(off, left) = Without(TableOf(aboard, left), {n})
      BY <1>0, <1>1, <1>3, TableLeft
    <3>2. aboard' = off
      BY <2>1
    <3> HIDE DEF off, n, t
    <3> QED
      BY <3>1, <3>2
  <2> HIDE DEF t
  <2>3. next \notin DOMAIN left
    BY <1>0, <1>3
  <2>4. /\ Landed(troops') /\ <<Field, next>> \notin DOMAIN TableOf(aboard', left)
        /\ TableOf(aboard', troops') = With(TableOf(aboard', left), <<Field, next>>, t)
    <3> DEFINE more == With(left, next, [troop |-> t, place |-> place[p]])
    <3>1. /\ Landed(more) /\ <<Field, next>> \notin DOMAIN TableOf(aboard', left)
          /\ TableOf(aboard', more) = With(TableOf(aboard', left), <<Field, next>>, t)
      BY <1>0, <1>3, <2>2, <2>3, TableLanded
    <3>2. troops' = more
      BY <2>1
    <3> HIDE DEF more
    <3> QED
      BY <3>1, <3>2
  <2>5. Table(TableOf(aboard', left))
    BY <1>3, <2>2, TableOfTroops
  <2> HIDE DEF n
  <2>6. ASSUME NEW w \in [Squad -> Nat]
        PROVE  Weight(w, TableOf(aboard', troops')) = Weight(w, TableOf(aboard, left))
    <3>1. Weight(w, TableOf(aboard', left)) = Weight(w, TableOf(aboard, left)) - w[t]
      BY <1>4, <2>2, WeightOfOneLess
    <3>2. Weight(w, TableOf(aboard', troops')) = Weight(w, TableOf(aboard', left)) + w[t]
      BY <2>2, <2>4, <2>5, WeightOfOneMore
    <3>3. Weight(w, TableOf(aboard, left)) \in Int /\ w[t] \in Nat
      BY <1>4, <2>2, WeightIsNumber
    <3> QED
      BY <3>1, <3>2, <3>3
  <2>7. NoMore
    BY <1>4, <2>6, SquadsAreATable DEF NoMore, sq
  <2>8. next' \in Nat \ {0} /\ DOMAIN troops' \subseteq 1..(next' - 1)
    <3>1. DOMAIN troops' = DOMAIN left \union {next}
      BY <2>1 DEF With
    <3> QED
      BY <1>0, <1>3, <2>1, <3>1
  <2> QED
    BY <1>1, <2>2, <2>4, <2>7, <2>8 DEF Types
<1>6. CASE ~added
  <2>1. aboard' = aboard /\ troops' = left /\ next' = next
    BY <1>6 DEF unload_troops
  <2> HIDE DEF left, G
  <2> QED
    BY <1>0, <1>1, <1>3, <1>4, <2>1, SquadsAreATable DEF Types, NoMore
<1> QED
  BY <1>5, <1>6

LEMMA ExtractKeepsTroops ==
    ASSUME Types, NEW p \in Pilots, NEW g \in DOMAIN troops, extract_troops(p, g)
    PROVE  Types' /\ NoMore
<1> DEFINE t == troops[g].troop
           n == <<p, Len(aboard[p]) + 1>>
           sq == TableOf(aboard, troops)
           left == Without(troops, {g})
<1>0. Loads(aboard) /\ Landed(troops) /\ next \in Nat \ {0} /\ DOMAIN troops \subseteq 1..(next - 1)
  BY DEF Types
<1>1. /\ aboard' = Boarded(aboard, p, t) /\ Len(aboard[p]) < TroopSlots
      /\ troops' = left /\ UNCHANGED <<place, bases, points, stock, earned, next>>
  BY DEF extract_troops, Room, pilots, ground, accounts, Boarded
<1>2. Table(sq) /\ t \in Squad /\ <<Field, g>> \in DOMAIN sq /\ sq[<<Field, g>>] = t
  <2>1. t \in Squad
    BY <1>0 DEF Landed
  <2>2. Table(sq)
    BY <1>0, TableOfTroops
  <2>3. <<Field, g>> \in DOMAIN sq /\ sq[<<Field, g>>] = t
    BY <1>0, TableOnGround
  <2> QED
    BY <2>1, <2>2, <2>3
<1>3. Landed(left) /\ DOMAIN left \subseteq DOMAIN troops
      /\ TableOf(aboard, left) = Without(sq, {<<Field, g>>})
  <2>1. OnGround({g}) = {<<Field, g>>}
    BY DEF OnGround
  <2>2. Landed(left) /\ TableOf(aboard, left) = Without(sq, OnGround({g}))
    BY <1>0, TableGone
  <2>3. DOMAIN left \subseteq DOMAIN troops
    BY DEF Without
  <2> HIDE DEF left, sq
  <2> QED
    BY <2>1, <2>2, <2>3
<1> HIDE DEF t, sq, left
<1>4. Table(TableOf(aboard, left))
  BY <1>0, <1>3, TableOfTroops
<1>5. /\ Loads(aboard') /\ n \notin DOMAIN TableOf(aboard, left)
      /\ TableOf(aboard', left) = With(TableOf(aboard, left), n, t)
  <2> DEFINE on == Boarded(aboard, p, t)
  <2>1. /\ Loads(on) /\ n \notin DOMAIN TableOf(aboard, left)
        /\ TableOf(on, left) = With(TableOf(aboard, left), n, t)
    BY <1>0, <1>1, <1>2, <1>3, TableBoarded
  <2>2. aboard' = on
    BY <1>1
  <2> HIDE DEF on, n
  <2> QED
    BY <2>1, <2>2
<1> HIDE DEF n
<1>6. ASSUME NEW w \in [Squad -> Nat]
      PROVE  Weight(w, TableOf(aboard', left)) = Weight(w, sq)
  <2>1. Weight(w, TableOf(aboard, left)) = Weight(w, sq) - w[t]
    <3> DEFINE x == <<Field, g>>
    <3>1. x \in DOMAIN sq /\ sq[x] = t /\ TableOf(aboard, left) = Without(sq, {x})
      BY <1>2, <1>3
    <3> HIDE DEF x
    <3> QED
      BY <1>2, <3>1, WeightOfOneLess
  <2>2. Weight(w, TableOf(aboard', left)) = Weight(w, TableOf(aboard, left)) + w[t]
    BY <1>2, <1>4, <1>5, WeightOfOneMore
  <2>3. Weight(w, sq) \in Int /\ w[t] \in Nat
    BY <1>2, WeightIsNumber
  <2> QED
    BY <2>1, <2>2, <2>3
<1>7. \A w \in [Squad -> Nat] : Weight(w, sq) \in Int
  BY <1>2, WeightIsNumber
<1>8. NoMore
  BY <1>1, <1>6, <1>7, SquadsAreATable DEF NoMore, sq
<1> QED
  BY <1>0, <1>1, <1>3, <1>5, <1>8 DEF Types

LEMMA DieKeepsTroops ==
    ASSUME Types, NEW g, Die(g)
    PROVE  Types' /\ NoMore
<1> DEFINE sq == TableOf(aboard, troops)
           left == Without(troops, {g})
<1>0. Loads(aboard) /\ Landed(troops) /\ next \in Nat \ {0} /\ DOMAIN troops \subseteq 1..(next - 1)
  BY DEF Types
<1>1. troops' = left /\ UNCHANGED <<place, bases, points, stock, earned, next, aboard>>
  BY DEF Die, pilots, ground, accounts, loads
<1>2. Table(sq)
  BY <1>0, TableOfTroops
<1>3. Landed(left) /\ DOMAIN left \subseteq DOMAIN troops
      /\ TableOf(aboard, left) = Without(sq, OnGround({g}))
  <2>1. Landed(left) /\ TableOf(aboard, left) = Without(sq, OnGround({g}))
    BY <1>0, TableGone
  <2>2. DOMAIN left \subseteq DOMAIN troops
    BY DEF Without
  <2> QED
    BY <2>1, <2>2
<1> HIDE DEF sq, left
<1>4. \A w \in [Squad -> Nat] : Weight(w, TableOf(aboard, left)) <= Weight(w, sq)
  BY <1>2, <1>3, WeightOfFewer
<1> QED
  BY <1>0, <1>1, <1>3, <1>4, SquadsAreATable DEF Types, NoMore, sq

LEMMA PilotsLoseTroops ==
    ASSUME Types, NEW P \in SUBSET Pilots,
           aboard' = [p \in Pilots |-> IF p \in P THEN <<>> ELSE aboard[p]],
           place' \in [Pilots -> Bases \union {Field}],
           UNCHANGED <<bases, points, stock, earned, troops, next>>
    PROVE  Types' /\ NoMore
<1> DEFINE sq == TableOf(aboard, troops)
           R == {x \in Aboard(aboard) : x[1] \in P}
<1>0. Loads(aboard) /\ Landed(troops)
  BY DEF Types
<1>1. Table(sq)
  BY <1>0, TableOfTroops
<1>2. Loads(aboard') /\ TableOf(aboard', troops) = Without(sq, R)
  BY <1>0, TableEmptied
<1> HIDE DEF sq, R
<1>3. \A w \in [Squad -> Nat] : Weight(w, Without(sq, R)) <= Weight(w, sq)
  BY <1>1, WeightOfFewer
<1> QED
  BY <1>2, <1>3, SquadsAreATable DEF Types, NoMore, sq

---------------------------------------------------------------------------
(* What each action does to the accounts.                                  *)

\* What pilots have spent, and what bases have spent or lost.
SpentBy == [p \in Pilots |-> Balance + earned[p] - points[p]]
Drawn == [b \in Bases |-> Stock - stock[b]]

LEMMA SpentIsPaid ==
    /\ Spent = SumOf(SpentBy, Pilots) + SumOf(Drawn, Bases)
    /\ Spent' = SumOf(SpentBy', Pilots) + SumOf(Drawn', Bases)
<1>1. \A f : Sum(f) = SumOf(f, DOMAIN f)
  BY DEF Sum, SumOf, MapThenSumSet
<1>2. /\ Spent = Sum(SpentBy) + Sum(Drawn)
      /\ Spent' = Sum(SpentBy') + Sum(Drawn')
  BY DEF Spent, SpentBy, Drawn
<1>3. /\ DOMAIN SpentBy = Pilots /\ DOMAIN Drawn = Bases
      /\ DOMAIN SpentBy' = Pilots /\ DOMAIN Drawn' = Bases
  BY DEF SpentBy, Drawn
<1> QED
  BY <1>1, <1>2, <1>3

LEMMA PaidAreNumbers ==
    /\ Types => /\ Numbers(SpentBy, Pilots) /\ Numbers(Drawn, Bases) /\ Spent \in Int
    /\ Types' => /\ Numbers(SpentBy', Pilots) /\ Numbers(Drawn', Bases) /\ Spent' \in Int
<1>1. Types => Numbers(SpentBy, Pilots) /\ Numbers(Drawn, Bases)
  BY CargoAssumption DEF Types, Numbers, SpentBy, Drawn
<1>2. Types' => Numbers(SpentBy', Pilots) /\ Numbers(Drawn', Bases)
  BY CargoAssumption DEF Types, Numbers, SpentBy, Drawn
<1>3. IsFiniteSet(Pilots) /\ IsFiniteSet(Bases)
  BY CargoAssumption
<1>4. Types => SumOf(SpentBy, Pilots) \in Int /\ SumOf(Drawn, Bases) \in Int
  BY <1>1, <1>3, SumIsNumber
<1>5. Types' => SumOf(SpentBy', Pilots) \in Int /\ SumOf(Drawn', Bases) \in Int
  BY <1>2, <1>3, SumIsNumber
<1> QED
  BY <1>1, <1>2, <1>4, <1>5, SpentIsPaid

\* A pilot pays n and a base m.
LEMMA SpentMore ==
    ASSUME Types, Types', NEW p \in Pilots, NEW b \in Bases, NEW n \in Int, NEW m \in Int,
           \A q \in Pilots : points'[q] - earned'[q] = points[q] - earned[q] - (IF q = p THEN n ELSE 0),
           \A c \in Bases : stock'[c] = stock[c] - (IF c = b THEN m ELSE 0)
    PROVE  Spent' = Spent + n + m
<1>1. Numbers(SpentBy, Pilots) /\ Numbers(Drawn, Bases) /\ Numbers(SpentBy', Pilots) /\ Numbers(Drawn', Bases)
      /\ IsFiniteSet(Pilots) /\ IsFiniteSet(Bases)
  BY PaidAreNumbers, CargoAssumption
<1>2. SpentBy'[p] = SpentBy[p] + n /\ \A q \in Pilots \ {p} : SpentBy'[q] = SpentBy[q]
  BY CargoAssumption DEF SpentBy, Types
<1>3. Drawn'[b] = Drawn[b] + m /\ \A c \in Bases \ {b} : Drawn'[c] = Drawn[c]
  BY CargoAssumption DEF Drawn, Types
<1>4. SpentBy[p] \in Int /\ Drawn[b] \in Int /\ SpentBy'[p] \in Int /\ Drawn'[b] \in Int
  BY <1>1 DEF Numbers
<1>5. SumOf(SpentBy', Pilots) = SumOf(SpentBy, Pilots) + (SpentBy'[p] - SpentBy[p])
  BY <1>1, <1>2, <1>4, SumChange
<1>6. SumOf(Drawn', Bases) = SumOf(Drawn, Bases) + (Drawn'[b] - Drawn[b])
  BY <1>1, <1>3, <1>4, SumChange
<1>7. SumOf(SpentBy, Pilots) \in Int /\ SumOf(Drawn, Bases) \in Int
  BY <1>1, SumIsNumber
<1> QED
  BY <1>2, <1>3, <1>4, <1>5, <1>6, <1>7, SpentIsPaid

LEMMA LoadAccounts ==
    ASSUME Types, Accounts, NEW p \in Pilots, NEW k \in Kinds, load_troops(p, k)
    PROVE  Types' /\ Accounts'
<1> DEFINE t == [kind |-> k, player |-> p, origin |-> place[p], fraction |-> Fraction(p, Cost[k])]
           n == PilotPays(p, Cost[k])
           m == Cost[k] - n
           b == place[p]
<1>1. /\ t \in Squad /\ Loads(aboard')
      /\ \A w \in [Squad -> Nat] : Weight(w, Squads') = Weight(w, Squads) + w[t]
  BY LoadBuysOne
<1>2. b \in bases /\ b \in Bases /\ points[p] \in Int /\ Cost[k] \in Nat /\ stock[b] \in Nat
  BY CargoAssumption DEF Types, load_troops, point_near_logistics
<1>3. n \in 0..Cost[k] /\ PilotShare(t) = n /\ BaseShare(t) = m
  BY <1>2, NotedAsPaid
<1>4. n \in Int /\ m \in Nat /\ m <= stock[b]
  <2>1. Cost[k] > 0 => Cost[k] <= (IF points[p] > 0 THEN points[p] ELSE 0) + stock[b]
    BY DEF load_troops
  <2> QED
    BY <1>2, <1>3, <2>1 DEF PilotPays, Least
<1>5. /\ points' = [points EXCEPT ![p] = @ - n] /\ stock' = [stock EXCEPT ![b] = @ - m]
      /\ UNCHANGED <<place, bases, earned, troops, next>>
  BY DEF load_troops, charge_for_item, pilots, ground, groups
<1>6. t.player = p /\ t.origin = b /\ t.kind = k
  OBVIOUS
<1> HIDE DEF t, n, m, b
<1>7. Types'
  BY <1>1, <1>2, <1>4, <1>5 DEF Types
<1>8. /\ \A q \in Pilots : PaidBy(q)[t] = IF q = p THEN n ELSE 0
      /\ \A c \in Bases : BackedBy(c)[t] = IF c = b THEN m ELSE 0
      /\ Price[t] = Cost[k]
  BY <1>1, <1>3, <1>6 DEF PaidBy, BackedBy, Price
<1>9. /\ \A q \in Pilots : Weight(PaidBy(q), Squads') = Weight(PaidBy(q), Squads) + (IF q = p THEN n ELSE 0)
      /\ \A c \in Bases : Weight(BackedBy(c), Squads') = Weight(BackedBy(c), Squads) + (IF c = b THEN m ELSE 0)
      /\ Weight(Price, Squads') = Weight(Price, Squads) + Cost[k]
  BY <1>1, <1>8, Weights
<1>10. /\ \A q \in Pilots : Weight(PaidBy(q), Squads) \in Int
       /\ \A c \in Bases : Weight(BackedBy(c), Squads) \in Int
       /\ Weight(Price, Squads) \in Int
  BY Weights, SquadsTable, WeightIsNumber
<1>11. /\ \A q \in Pilots : points'[q] = points[q] - (IF q = p THEN n ELSE 0)
       /\ \A c \in Bases : stock'[c] = stock[c] - (IF c = b THEN m ELSE 0)
  BY <1>2, <1>4, <1>5 DEF Types
<1>12. \A q \in Pilots : points'[q] - earned'[q] = points[q] - earned[q] - (IF q = p THEN n ELSE 0)
  BY <1>4, <1>5, <1>11 DEF Types
<1>13. Spent' = Spent + n + m /\ Spent \in Int
  BY <1>2, <1>4, <1>7, <1>11, <1>12, SpentMore, PaidAreNumbers
<1>14. \A q \in Pilots : points'[q] + Weight(PaidBy(q), Squads') <= Balance + earned'[q]
  BY <1>3, <1>5, <1>9, <1>10, <1>11, CargoAssumption DEF Types, Accounts
<1>15. \A c \in bases' : stock'[c] + Weight(BackedBy(c), Squads') <= Stock
  BY <1>4, <1>5, <1>9, <1>10, <1>11, CargoAssumption DEF Types, Accounts
<1>16. Weight(Price, Squads') <= Spent'
  BY <1>2, <1>4, <1>9, <1>10, <1>13 DEF Accounts, m
<1> QED
  BY <1>7, <1>14, <1>15, <1>16 DEF Accounts, PaidBy, BackedBy, Price

LEMMA ReturnAccounts ==
    ASSUME Types, Accounts, NEW p \in Pilots, return_troops(p)
    PROVE  Types' /\ Accounts'
<1> DEFINE t == Last(aboard[p])
           n == PilotShare(t)
           o == t.origin
           m == IF o \in bases THEN BaseShare(t) ELSE 0
<1>1. /\ t \in Squad /\ Loads(aboard')
      /\ \A w \in [Squad -> Nat] : /\ Weight(w, Squads') = Weight(w, Squads) - w[t]
                                   /\ Weight(w, Squads) \in Int
  BY ReturnGivesOneBack
<1>2. /\ points' = [points EXCEPT ![t.player] = @ + n]
      /\ stock' = IF o \in bases THEN [stock EXCEPT ![o] = @ + BaseShare(t)] ELSE stock
      /\ UNCHANGED <<place, bases, earned, troops, next>>
  BY DEF return_troops, refund_points, pilots, ground, groups
<1> HIDE DEF t
<1>3. /\ t.player \in Pilots /\ o \in Bases /\ n \in Nat /\ BaseShare(t) \in Nat /\ m \in Nat
      /\ Cost[t.kind] \in Nat /\ n + BaseShare(t) = Cost[t.kind]
  BY <1>1, SharesMakeThePrice
<1>4. /\ \A q \in Pilots : PaidBy(q)[t] = IF q = t.player THEN n ELSE 0
      /\ \A c \in Bases : BackedBy(c)[t] = IF c = o THEN BaseShare(t) ELSE 0
      /\ Price[t] = Cost[t.kind]
  BY <1>1 DEF PaidBy, BackedBy, Price
<1>5. /\ \A q \in Pilots : points'[q] = points[q] + (IF q = t.player THEN n ELSE 0)
      /\ \A c \in Bases : stock'[c] = stock[c] + (IF c = o THEN m ELSE 0)
  BY <1>2, <1>3 DEF Types
<1>6. Types'
  BY <1>1, <1>2, <1>3 DEF Types
<1>7. /\ \A q \in Pilots : /\ Weight(PaidBy(q), Squads) \in Int
                            /\ Weight(PaidBy(q), Squads') = Weight(PaidBy(q), Squads) - PaidBy(q)[t]
      /\ \A c \in Bases : /\ Weight(BackedBy(c), Squads) \in Int
                           /\ Weight(BackedBy(c), Squads') = Weight(BackedBy(c), Squads) - BackedBy(c)[t]
      /\ Weight(Price, Squads) \in Int
      /\ Weight(Price, Squads') = Weight(Price, Squads) - Price[t]
  BY <1>1, Weights
<1> HIDE DEF n, o, m
<1>8. \A q \in Pilots : points'[q] + Weight(PaidBy(q), Squads') <= Balance + earned'[q]
  BY <1>2, <1>3, <1>4, <1>5, <1>7, CargoAssumption DEF Types, Accounts
<1>9. ASSUME NEW c \in bases' PROVE stock'[c] + Weight(BackedBy(c), Squads') <= Stock
  <2>1. c \in Bases /\ c \in bases /\ stock[c] \in Nat
    BY <1>2 DEF Types
  <2>2. c = o => m = BaseShare(t)
    BY <2>1 DEF m
  <2>3. stock[c] + Weight(BackedBy(c), Squads) <= Stock
    BY <2>1 DEF Accounts
  <2>4. stock'[c] = stock[c] + (IF c = o THEN BaseShare(t) ELSE 0)
    BY <1>5, <2>1, <2>2
  <2>5. Weight(BackedBy(c), Squads') = Weight(BackedBy(c), Squads) - (IF c = o THEN BaseShare(t) ELSE 0)
        /\ Weight(BackedBy(c), Squads) \in Int
    BY <1>4, <1>7, <2>1
  <2> QED
    BY <1>3, <2>1, <2>3, <2>4, <2>5
<1>10. Spent' = Spent + (-n) + (-m) /\ Spent \in Int
  <2>1. \A q \in Pilots : points'[q] - earned'[q] = points[q] - earned[q] - (IF q = t.player THEN -n ELSE 0)
    BY <1>2, <1>3, <1>5 DEF Types
  <2>2. \A c \in Bases : stock'[c] = stock[c] - (IF c = o THEN -m ELSE 0)
    BY <1>3, <1>5 DEF Types
  <2>3. -n \in Int /\ -m \in Int
    BY <1>3
  <2> QED
    BY <1>3, <1>6, <2>1, <2>2, <2>3, SpentMore, PaidAreNumbers
<1>11. m <= BaseShare(t)
  BY <1>3 DEF m
<1>12. Weight(Price, Squads') <= Spent'
  BY <1>3, <1>4, <1>7, <1>10, <1>11 DEF Accounts
<1> QED
  BY <1>6, <1>8, <1>9, <1>12 DEF Accounts, PaidBy, BackedBy, Price

LEMMA SpentTheSame ==
    ASSUME UNCHANGED <<points, stock, earned>>
    PROVE  Spent' = Spent
  BY DEF Spent

\* Troops that move or are lost cost nobody anything.
LEMMA NoMoreAccounts ==
    ASSUME Types, Types', Accounts, NoMore, UNCHANGED <<bases, points, stock, earned>>
    PROVE  Accounts'
<1>1. /\ \A q \in Pilots : /\ Weight(PaidBy(q), Squads) \in Int /\ Weight(PaidBy(q), Squads') \in Int
                            /\ Weight(PaidBy(q), Squads') <= Weight(PaidBy(q), Squads)
      /\ \A c \in Bases : /\ Weight(BackedBy(c), Squads) \in Int /\ Weight(BackedBy(c), Squads') \in Int
                           /\ Weight(BackedBy(c), Squads') <= Weight(BackedBy(c), Squads)
      /\ Weight(Price, Squads) \in Int /\ Weight(Price, Squads') \in Int
      /\ Weight(Price, Squads') <= Weight(Price, Squads)
  BY Weights, SquadsTable, WeightIsNumber DEF NoMore
<1>2. Spent' = Spent /\ Spent \in Int
  BY SpentTheSame, PaidAreNumbers
<1>3. \A q \in Pilots : points'[q] + Weight(PaidBy(q), Squads') <= Balance + earned'[q]
  BY <1>1, CargoAssumption DEF Types, Accounts
<1>4. \A c \in bases' : stock'[c] + Weight(BackedBy(c), Squads') <= Stock
  BY <1>1, CargoAssumption DEF Types, Accounts
<1>5. Weight(Price, Squads') <= Spent'
  BY <1>1, <1>2 DEF Accounts
<1> QED
  BY <1>3, <1>4, <1>5 DEF Accounts, PaidBy, BackedBy, Price

LEMMA SameTroops ==
    ASSUME Types, UNCHANGED <<aboard, troops>>
    PROVE  Squads' = Squads /\ NoMore
<1>1. Squads' = Squads
  BY SquadsAreATable
<1>2. \A w \in [Squad -> Nat] : Weight(w, Squads) \in Int
  BY SquadsTable, WeightIsNumber
<1> QED
  BY <1>1, <1>2 DEF NoMore

LEMMA AdjustAccounts ==
    ASSUME Types, Accounts, NEW p \in Pilots, NEW n \in Int, Adjust(p, n)
    PROVE  Types' /\ Accounts'
<1>1. /\ points' = [points EXCEPT ![p] = @ + n] /\ earned' = [earned EXCEPT ![p] = @ + n]
      /\ UNCHANGED <<place, bases, stock, aboard, troops, next>>
  BY DEF Adjust, pilots, ground, loads, groups
<1>2. Types'
  BY <1>1 DEF Types
<1>3. Squads' = Squads
  BY <1>1, SameTroops
<1>4. /\ \A q \in Pilots : Balance + earned'[q] - points'[q] = Balance + earned[q] - points[q]
      /\ \A q \in Pilots : points'[q] - earned'[q] = points[q] - earned[q]
  BY <1>1, CargoAssumption DEF Types
<1>5. SpentBy' = SpentBy /\ Drawn' = Drawn
  BY <1>1, <1>4 DEF SpentBy, Drawn
<1>6. Spent' = Spent
  BY <1>5, SpentIsPaid
<1>7. \A q \in Pilots : Weight(PaidBy(q), Squads) \in Int
  BY Weights, SquadsTable, WeightIsNumber
<1>8. \A q \in Pilots : points'[q] + Weight(PaidBy(q), Squads') <= Balance + earned'[q]
  BY <1>2, <1>3, <1>4, <1>7, CargoAssumption DEF Types, Accounts
<1> QED
  BY <1>1, <1>2, <1>3, <1>6, <1>8 DEF Accounts, PaidBy, BackedBy, Price

LEMMA FallAccounts ==
    ASSUME Types, Accounts, NEW b \in Bases, BaseFalls(b)
    PROVE  Types' /\ Accounts'
<1>1. /\ bases' = bases \ {b} /\ stock' = [stock EXCEPT ![b] = 0]
      /\ UNCHANGED <<place, points, earned, aboard, troops, next>>
  BY DEF BaseFalls, pilots, loads, groups
<1>2. Types'
  BY <1>1 DEF Types
<1>3. Squads' = Squads
  BY <1>1, SameTroops
<1>4. IsFiniteSet(Bases) /\ Numbers(Drawn, Bases) /\ Numbers(Drawn', Bases) /\ Spent \in Int
      /\ SumOf(Drawn, Bases) \in Int /\ SumOf(SpentBy, Pilots) \in Int
  BY <1>2, PaidAreNumbers, SumIsNumber, CargoAssumption
<1>5. Drawn'[b] = Drawn[b] + stock[b] /\ stock[b] \in Nat /\ \A c \in Bases \ {b} : Drawn'[c] = Drawn[c]
  BY <1>1, CargoAssumption DEF Drawn, Types
<1>6. Drawn[b] \in Int /\ Drawn'[b] \in Int
  BY <1>4 DEF Numbers
<1>7. SumOf(Drawn', Bases) = SumOf(Drawn, Bases) + (Drawn'[b] - Drawn[b])
  BY <1>4, <1>5, <1>6, SumChange
<1>8. SpentBy' = SpentBy
  BY <1>1 DEF SpentBy
<1>9. Spent' >= Spent /\ Spent' \in Int
  BY <1>4, <1>5, <1>6, <1>7, <1>8, SpentIsPaid
<1>10. Weight(Price, Squads) \in Int
  BY Weights, SquadsTable, WeightIsNumber
<1>11. Weight(Price, Squads') <= Spent'
  BY <1>3, <1>4, <1>9, <1>10 DEF Accounts
<1>12. \A c \in bases' : stock'[c] + Weight(BackedBy(c), Squads') <= Stock
  BY <1>1, <1>3 DEF Types, Accounts
<1>13. \A q \in Pilots : points'[q] + Weight(PaidBy(q), Squads') <= Balance + earned'[q]
  BY <1>1, <1>3 DEF Accounts
<1> QED
  BY <1>2, <1>11, <1>12, <1>13 DEF Accounts, PaidBy, BackedBy, Price

---------------------------------------------------------------------------
(* The limits.                                                             *)

LEMMA DeployedAreFew ==
    ASSUME Types, NEW k
    PROVE  /\ Deployed(k) \in SUBSET Nat /\ Deployed(k) \subseteq DOMAIN troops
           /\ IsFiniteSet(Deployed(k)) /\ Cardinality(Deployed(k)) \in Nat
<1>1. Deployed(k) \subseteq DOMAIN troops /\ DOMAIN troops \subseteq Nat /\ IsFiniteSet(DOMAIN troops)
  BY DEF Deployed, Types, Landed
<1>2. IsFiniteSet(Deployed(k))
  BY <1>1, FS_Subset
<1> QED
  BY <1>1, <1>2, FS_CardinalityType

\* With fewer troops the limits still hold.
LEMMA FewerWithinLimit ==
    ASSUME Types, TroopsWithinLimit, NEW G, troops' = Without(troops, G)
    PROVE  TroopsWithinLimit'
<1> SUFFICES ASSUME NEW k \in Kinds
             PROVE  Cardinality(Deployed(k)') <= Limit[k]
  BY DEF TroopsWithinLimit
<1>1. Deployed(k)' \in SUBSET Deployed(k)
  BY DEF Deployed, Without
<1>2. IsFiniteSet(Deployed(k)) /\ Cardinality(Deployed(k)) \in Nat
  BY DeployedAreFew
<1>3. Cardinality(Deployed(k)') <= Cardinality(Deployed(k)) /\ Cardinality(Deployed(k)') \in Nat
  BY <1>1, <1>2, FS_Subset, FS_CardinalityType
<1>4. Cardinality(Deployed(k)) <= Limit[k] /\ Limit[k] \in Nat
  BY CargoAssumption DEF TroopsWithinLimit
<1> QED
  BY <1>2, <1>3, <1>4

LEMMA UnloadWithinLimit ==
    ASSUME Types, TroopsWithinLimit, NEW p \in Pilots, unload_troops(p, TRUE)
    PROVE  TroopsWithinLimit'
<1> DEFINE t == Last(aboard[p])
           G == Displaced(t.kind)
           left == Without(troops, G)
<1>1. troops' = With(left, next, [troop |-> t, place |-> place[p]])
  BY DEF unload_troops
<1>2. DOMAIN left = DOMAIN troops \ G /\ \A g \in DOMAIN left : left[g] = troops[g]
  BY DEF Without
<1>3. /\ DOMAIN troops' = (DOMAIN troops \ G) \union {next} /\ troops'[next].troop = t
      /\ \A g \in DOMAIN troops \ G : g # next => troops'[g] = troops[g]
  BY <1>1, <1>2 DEF With
<1>4. next \notin DOMAIN troops
  BY DEF Types
<1> HIDE DEF left, t
<1> SUFFICES ASSUME NEW k \in Kinds
             PROVE  Cardinality(Deployed(k)') <= Limit[k]
  BY DEF TroopsWithinLimit
<1>5. /\ IsFiniteSet(Deployed(k)) /\ Cardinality(Deployed(k)) \in Nat
      /\ Deployed(k) \subseteq DOMAIN troops /\ Deployed(k) \in SUBSET Nat
  BY DeployedAreFew
<1>6. Cardinality(Deployed(k)) <= Limit[k] /\ Limit[k] \in Nat \ {0}
  BY CargoAssumption DEF TroopsWithinLimit
<1>7. CASE k # t.kind
  <2>1. Deployed(k)' \in SUBSET Deployed(k)
    BY <1>3, <1>4, <1>7 DEF Deployed
  <2>2. Cardinality(Deployed(k)') <= Cardinality(Deployed(k)) /\ Cardinality(Deployed(k)') \in Nat
    BY <1>5, <2>1, FS_Subset, FS_CardinalityType
  <2> QED
    BY <1>5, <1>6, <2>2
<1>8. CASE k = t.kind
  <2>1. Deployed(k)' = (Deployed(k) \ G) \union {next}
    BY <1>3, <1>4, <1>8 DEF Deployed
  <2>2. next \notin Deployed(k) \ G
    BY <1>4, <1>5
  <2>3. IsFiniteSet(Deployed(k) \ G)
    BY <1>5, FS_Subset
  <2>4. Cardinality(Deployed(k)') = Cardinality(Deployed(k) \ G) + 1
    BY <2>1, <2>2, <2>3, FS_AddElement
  <2>5. CASE OverLimit(k)
    <3>1. Cardinality(Deployed(k)) # 0
      BY <1>5, <1>6, <2>5 DEF OverLimit
    <3>2. Deployed(k) # {}
      BY <3>1, FS_EmptySet
    <3>3. First(Deployed(k)) \in Deployed(k) /\ G = {First(Deployed(k))}
      BY <1>5, <1>8, <2>5, <3>2, FirstOfSome DEF Displaced
    <3>4. Cardinality(Deployed(k) \ G) = Cardinality(Deployed(k)) - 1
      <4> DEFINE x == First(Deployed(k))
      <4>1. x \in Deployed(k) /\ G = {x}
        BY <3>3
      <4> HIDE DEF x, G
      <4> QED
        BY <1>5, <4>1, FS_RemoveElement
    <3> QED
      BY <1>5, <1>6, <2>4, <3>4
  <2>6. CASE ~OverLimit(k)
    <3>1. Deployed(k) \ G = Deployed(k)
      BY <1>8, <2>6 DEF Displaced
    <3> QED
      BY <1>5, <1>6, <2>4, <2>6, <3>1 DEF OverLimit
  <2> QED
    BY <2>5, <2>6
<1> QED
  BY <1>7, <1>8

LEMMA SameWithinLimit == TroopsWithinLimit /\ UNCHANGED troops => TroopsWithinLimit'
  BY DEF TroopsWithinLimit, Deployed

---------------------------------------------------------------------------
(* Every step keeps the invariant.                                         *)

LEMMA InitCargo == Init => CargoInv
<1> SUFFICES ASSUME Init PROVE CargoInv
  OBVIOUS
<1>1. Types
  <2>1. troops = <<>> /\ DOMAIN troops = {}
    BY DEF Init
  <2>2. Landed(troops)
    BY <2>1, FS_EmptySet DEF Landed
  <2>3. Loads(aboard)
    BY CargoAssumption DEF Init, Loads
  <2> QED
    BY <2>1, <2>2, <2>3, CargoAssumption DEF Init, Types
<1>2. \A w : Weight(w, Squads) = 0
  <2>1. DOMAIN Squads = {}
    BY DEF Init, Squads
  <2> QED
    BY <2>1, SumOfNone DEF Weight
<1>3. Spent = 0
  <2>1. \A p \in Pilots : SpentBy[p] = 0
    BY CargoAssumption DEF Init, SpentBy
  <2>2. \A b \in Bases : Drawn[b] = 0
    BY CargoAssumption DEF Init, Drawn
  <2>3. Numbers(SpentBy, {}) /\ Numbers(Drawn, {})
    BY DEF Numbers
  <2>4. SumOf(SpentBy, Pilots) = SumOf(SpentBy, {}) /\ SumOf(Drawn, Bases) = SumOf(Drawn, {})
    BY <2>1, <2>2, <2>3, SumOfZeros, CargoAssumption
  <2> QED
    BY <2>4, SumOfNone, SpentIsPaid
<1>4. Accounts
  BY <1>2, <1>3, CargoAssumption DEF Init, Accounts
<1>5. TroopsWithinLimit
  <2>1. \A k \in Kinds : Deployed(k) = {}
    BY DEF Init, Deployed
  <2> QED
    BY <2>1, FS_EmptySet, CargoAssumption DEF TroopsWithinLimit
<1> QED
  BY <1>1, <1>4, <1>5 DEF CargoInv

LEMMA StepCargo == CargoInv /\ [Next]_vars => CargoInv'
<1> SUFFICES ASSUME CargoInv, [Next]_vars PROVE CargoInv'
  OBVIOUS
<1>0. Types /\ Accounts /\ TroopsWithinLimit
  BY DEF CargoInv
\* Steps that touch no troops and no accounts.
<1>1. ASSUME UNCHANGED <<bases, points, stock, earned, aboard, troops>>, Types'
      PROVE  CargoInv'
  BY <1>0, <1>1, SameTroops, NoMoreAccounts, SameWithinLimit DEF CargoInv
<1>2. ASSUME NEW p \in Pilots, NEW k \in Kinds, load_troops(p, k) PROVE CargoInv'
  <2>1. troops' = troops
    BY <1>2 DEF load_troops, groups
  <2> QED
    BY <1>0, <1>2, <2>1, LoadAccounts, SameWithinLimit DEF CargoInv
<1>3. ASSUME NEW p \in Pilots, NEW added \in BOOLEAN, unload_troops(p, added) PROVE CargoInv'
  <2>1. Types' /\ NoMore
    BY <1>0, <1>3, UnloadKeepsTroops
  <2>2. UNCHANGED <<bases, points, stock, earned>>
    BY <1>3 DEF unload_troops, ground, accounts
  <2>3. Accounts'
    BY <1>0, <2>1, <2>2, NoMoreAccounts
  <2>4. TroopsWithinLimit'
    <3>1. CASE added = TRUE
      BY <1>0, <1>3, <3>1, UnloadWithinLimit
    <3>2. CASE added = FALSE
      <4>1. troops' = Without(troops, Displaced(Last(aboard[p]).kind))
        BY <1>3, <3>2 DEF unload_troops
      <4> QED
        BY <1>0, <4>1, FewerWithinLimit
    <3> QED
      BY <3>1, <3>2
  <2> QED
    BY <2>1, <2>3, <2>4 DEF CargoInv
<1>4. ASSUME NEW p \in Pilots, return_troops(p) PROVE CargoInv'
  <2>1. troops' = troops
    BY <1>4 DEF return_troops, groups
  <2> QED
    BY <1>0, <1>4, <2>1, ReturnAccounts, SameWithinLimit DEF CargoInv
<1>5. ASSUME NEW p \in Pilots, NEW g \in DOMAIN troops, extract_troops(p, g) PROVE CargoInv'
  <2>1. Types' /\ NoMore
    BY <1>0, <1>5, ExtractKeepsTroops
  <2>2. UNCHANGED <<bases, points, stock, earned>> /\ troops' = Without(troops, {g})
    BY <1>5 DEF extract_troops, ground, accounts
  <2> QED
    BY <1>0, <2>1, <2>2, NoMoreAccounts, FewerWithinLimit DEF CargoInv
<1>6. ASSUME NEW g, Die(g) PROVE CargoInv'
  <2>1. Types' /\ NoMore
    BY <1>0, <1>6, DieKeepsTroops
  <2>2. UNCHANGED <<bases, points, stock, earned>> /\ troops' = Without(troops, {g})
    BY <1>6 DEF Die, ground, accounts
  <2> QED
    BY <1>0, <2>1, <2>2, NoMoreAccounts, FewerWithinLimit DEF CargoInv
<1>7. ASSUME NEW p \in Pilots, LeaveSlot(p) PROVE CargoInv'
  <2>1. aboard' = [q \in Pilots |-> IF q \in {p} THEN <<>> ELSE aboard[q]]
    BY <1>0, <1>7 DEF LeaveSlot, Types, Loads
  <2>2. place' \in [Pilots -> Bases \union {Field}]
    BY <1>0, <1>7 DEF LeaveSlot, Types
  <2>3. UNCHANGED <<bases, points, stock, earned, troops, next>>
    BY <1>7 DEF LeaveSlot, ground, accounts, groups
  <2>4. Types' /\ NoMore
    BY <1>0, <2>1, <2>2, <2>3, PilotsLoseTroops
  <2> QED
    BY <1>0, <2>3, <2>4, NoMoreAccounts, SameWithinLimit DEF CargoInv
<1>8. ASSUME Restart PROVE CargoInv'
  <2>1. aboard' = [q \in Pilots |-> IF q \in Pilots THEN <<>> ELSE aboard[q]]
    BY <1>8 DEF Restart
  <2>2. place' \in [Pilots -> Bases \union {Field}]
    BY <1>0, <1>8 DEF Restart, Types
  <2>3. UNCHANGED <<bases, points, stock, earned, troops, next>>
    BY <1>8 DEF Restart, ground, accounts, groups
  <2>4. Types' /\ NoMore
    BY <1>0, <2>1, <2>2, <2>3, PilotsLoseTroops
  <2> QED
    BY <1>0, <2>3, <2>4, NoMoreAccounts, SameWithinLimit DEF CargoInv
<1>9. ASSUME NEW p \in Pilots, NEW n \in {-1, 1}, Adjust(p, n) PROVE CargoInv'
  <2>1. troops' = troops
    BY <1>9 DEF Adjust, groups
  <2> QED
    BY <1>0, <1>9, <2>1, AdjustAccounts, SameWithinLimit DEF CargoInv
<1>10. ASSUME NEW b \in Bases, BaseFalls(b) PROVE CargoInv'
  <2>1. troops' = troops
    BY <1>10 DEF BaseFalls, groups
  <2> QED
    BY <1>0, <1>10, <2>1, FallAccounts, SameWithinLimit DEF CargoInv
<1>11. ASSUME NEW b \in Bases, LogisticsFalls(b) PROVE CargoInv'
  <2>1. UNCHANGED <<place, next, bases, points, stock, earned, aboard, troops>>
    BY <1>11 DEF LogisticsFalls, pilots, accounts, loads, groups
  <2> QED
    BY <1>0, <1>1, <2>1 DEF Types
<1>12. ASSUME NEW p \in Pilots, Fly(p) PROVE CargoInv'
  <2>1. UNCHANGED <<next, bases, points, stock, earned, aboard, troops>>
    BY <1>12 DEF Fly, ground, accounts, loads, groups
  <2>2. place' \in [Pilots -> Bases \union {Field}]
    BY <1>0, <1>12 DEF Fly, Types
  <2> QED
    BY <1>0, <1>1, <2>1, <2>2 DEF Types
\* Crates are no troops.
<1>13. ASSUME NEW p \in Pilots,
              \/ \E added \in BOOLEAN : spawn_crate(p, added)
              \/ \E g \in DOMAIN crates : load_nearby_crate(p, g) \/ destroy_nearby_crate(p, g)
              \/ unload_crate(p)
       PROVE  CargoInv'
  <2>1. UNCHANGED <<place, bases, points, stock, earned, aboard, troops>> /\ next' \in {next, next + 1}
    BY <1>13 DEF spawn_crate, load_nearby_crate, destroy_nearby_crate, unload_crate, pilots, ground,
                 accounts, loads
  <2>2. Types'
    BY <1>0, <2>1 DEF Types
  <2> QED
    BY <1>1, <2>1, <2>2
<1>14. CASE UNCHANGED vars
  <2>1. UNCHANGED <<place, next, bases, points, stock, earned, aboard, troops>>
    BY <1>14 DEF vars, pilots, ground, accounts, loads, groups
  <2> QED
    BY <1>0, <1>1, <2>1 DEF Types
<1> QED
  BY <1>2, <1>3, <1>4, <1>5, <1>6, <1>7, <1>8, <1>9, <1>10, <1>11, <1>12, <1>13, <1>14 DEF Next

LEMMA CargoAlways == Spec => []CargoInv
  BY InitCargo, StepCargo, PTL DEF Spec

\* However troops are loaded, unloaded, extracted by others and returned, no pilot and no base
\* has, with what it would get back for the troops there are, more than it was given.
THEOREM AccountsAlwaysBalance == Spec => []AccountsBalance
<1>1. CargoInv => AccountsBalance
  BY AccountsSayIt DEF CargoInv
<1> QED
  BY <1>1, CargoAlways, PTL

\* There are never more troops than were paid for.
THEOREM TroopsAlwaysPaid == Spec => []TroopsArePaid
<1>1. CargoInv => TroopsArePaid
  BY AccountsSayIt DEF CargoInv
<1> QED
  BY <1>1, CargoAlways, PTL

\* There are never more troops of a kind in the field than its limit.
THEOREM LimitsAreKept == Spec => []TroopsWithinLimit
<1>1. CargoInv => TroopsWithinLimit
  BY DEF CargoInv
<1> QED
  BY <1>1, CargoAlways, PTL

---------------------------------------------------------------------------
(* Kills: types.                                                           *)

Payees == SUBSET ((Players \cup {NoOne}) \X BOOLEAN)
Award == [to : Payees, share : Nat]

\* Shots are finitely many, and none is of a time to come.
ShotsOK ==
    /\ by_target \in [Units -> SUBSET Shot]
    /\ \A t \in Units : IsFiniteSet(by_target[t])

Times ==
    /\ dead \in [Units -> {Never} \cup 0..MaxTime]
    /\ recently_dead \in [Units -> {Never} \cup 0..MaxTime]
    /\ last_gc \in 0..MaxTime /\ now \in 0..MaxTime /\ shots \in 0..MaxShots

Sets == alive \subseteq Units /\ bailed \subseteq Units /\ known \subseteq Units

AwardsOK == awards \in [Units -> Seq(Award)]

ShotTypes == Sets /\ ShotsOK /\ Times /\ AwardsOK

LEMMA TypesAreTypeOK == ShotTypes => TypeOK
  BY DEF ShotTypes, TypeOK, Sets, ShotsOK, Times, AwardsOK, Award, Payees

LEMMA InitTypes == ShotsInit => ShotTypes
<1> SUFFICES ASSUME ShotsInit PROVE ShotTypes
  OBVIOUS
<1> USE ShotsConstants
<1>1. Sets
  BY DEF ShotsInit, Sets
<1>2. ShotsOK
  BY FS_EmptySet DEF ShotsInit, ShotsOK
<1>3. Times
  BY DEF ShotsInit, Times, None, Never
<1>4. AwardsOK
  BY DEF ShotsInit, AwardsOK
<1> QED
  BY <1>1, <1>2, <1>3, <1>4 DEF ShotTypes

\* Writing a shot or a hit down keeps the types.
LEMMA RecordOK ==
    ASSUME ShotTypes, NEW s \in Units, NEW t \in Units, NEW hit \in BOOLEAN,
           by_target' = record(s, t, hit)
    PROVE  ShotsOK'
<1> DEFINE x == [shooter |-> s, time |-> now, hit |-> hit]
<1>1. x \in Shot
  BY DEF ShotTypes, Times, Shot
<1>2. CASE Gone(t) \/ ~({s, t} \subseteq known)
  BY <1>2 DEF record, ShotTypes, ShotsOK
<1>3. CASE ~(Gone(t) \/ ~({s, t} \subseteq known))
  <2>1. by_target' = [by_target EXCEPT ![t] = @ \cup {x}]
    BY <1>3 DEF record
  <2>2. IsFiniteSet(by_target[t] \cup {x})
    BY FS_AddElement DEF ShotTypes, ShotsOK
  <2> HIDE DEF x
  <2> QED
    BY <1>1, <2>1, <2>2 DEF ShotTypes, ShotsOK
<1> QED
  BY <1>2, <1>3

\* The first report of a death sets its time.
LEMMA WithDeadOK ==
    ASSUME ShotTypes, NEW t \in Units, dead' = WithDead(t),
           UNCHANGED <<recently_dead, last_gc, now>>, shots' \in 0..MaxShots
    PROVE  Times'
  BY DEF ShotTypes, Times, WithDead

\* Whoever is paid is paid a whole number of points, which together make up the kill's.
LEMMA Sharing ==
    ASSUME NEW n \in Nat \ {0}
    PROVE  Share(n) \in Nat /\ Total <= n * Share(n) /\ n * Share(n) < Total + n
<1> DEFINE a == Total + n - 1
<1> DEFINE r == a \div n
<1>1. a \in Nat /\ Total \in Nat
  BY ShotsConstants
<1>2. r \in Int /\ n * r <= a /\ a < n * r + n
  BY <1>1, SMT
<1>3. r >= 0
  BY <1>1, <1>2, SMT
<1> QED
  BY <1>1, <1>2, <1>3 DEF Share

LEMMA PayeesOK ==
    ASSUME ShotTypes, NEW t \in Units, dead[t] # Never
    PROVE  /\ HitBy(t) \in Payees /\ IsFiniteSet(HitBy(t))
           /\ HitBy(t) # {} => Cardinality(HitBy(t)) \in Nat \ {0}
           /\ by_target[t] = {} => HitBy(t) = {}
<1> DEFINE hits == {x \in ValidShots(t) : x.hit}
           last == {x \in ValidShots(t) : dead[t] - x.time <= Recent}
           S == IF hits # {} THEN hits ELSE last
<1>1. S \subseteq by_target[t] /\ by_target[t] \subseteq Shot
  BY DEF ValidShots, ShotTypes, ShotsOK
<1>2. \A x \in Shot : Key(x.shooter) \in (Players \cup {NoOne}) \X BOOLEAN
  BY ShotsConstants DEF Shot, Key
<1>3. HitBy(t) = {Key(x.shooter) : x \in S}
  BY DEF HitBy
<1> HIDE DEF S
<1>4. HitBy(t) \in Payees
  BY <1>1, <1>2, <1>3 DEF Payees
<1>5. IsFiniteSet(S)
  BY <1>1, FS_Subset DEF ShotTypes, ShotsOK
<1>6. IsFiniteSet(HitBy(t))
  <2> DEFINE f == [x \in S |-> Key(x.shooter)]
  <2>1. f \in [S -> HitBy(t)]
    BY <1>3
  <2>2. \A k \in HitBy(t) : \E x \in S : f[x] = k
    BY <1>3
  <2>3. f \in Surjection(S, HitBy(t))
    BY <2>1, <2>2 DEF Surjection
  <2> QED
    BY <1>5, <2>3, FS_Surjection
<1> QED
  BY <1>1, <1>3, <1>4, <1>6, FS_CardinalityType, FS_EmptySet

\* What a killing adds to what has been paid.
LEMMA PaidOK ==
    ASSUME ShotTypes, NEW t \in Units, dead[t] # Never, HitBy(t) # {}
    PROVE  LET a == [to |-> HitBy(t), share |-> Share(Cardinality(HitBy(t)))]
               n == Cardinality(HitBy(t))
           IN  /\ a \in Award /\ Paid(t) = Append(awards[t], a)
               /\ Total <= n * a.share /\ n * a.share < Total + n
<1>1. HitBy(t) \in Payees /\ Cardinality(HitBy(t)) \in Nat \ {0}
  BY PayeesOK
<1> QED
  BY <1>1, Sharing DEF Award, Paid

---------------------------------------------------------------------------
(* Every step keeps the types.                                             *)

LEMMA SlowTickTypes == ShotTypes /\ SlowTick => ShotTypes'
<1> SUFFICES ASSUME ShotTypes, SlowTick PROVE ShotTypes'
  OBVIOUS
<1>1. Sets'
  BY DEF SlowTick, ShotTypes, Sets
<1>2. ShotsOK'
  <2> DEFINE gc == now - last_gc >= Keep
  <2>1. by_target' = ByTargetAfter(gc)
    BY DEF SlowTick
  <2>2. \A t \in Units : by_target'[t] \subseteq by_target[t]
    BY <2>1 DEF ByTargetAfter
  <2>3. by_target' \in [Units -> SUBSET Shot]
    <3>1. by_target' = [t \in Units |-> by_target'[t]]
      BY <2>1 DEF ByTargetAfter
    <3>2. \A t \in Units : by_target'[t] \in SUBSET Shot
      BY <2>2 DEF ShotTypes, ShotsOK
    <3> HIDE DEF gc
    <3> QED
      BY <3>1, <3>2
  <2>4. \A t \in Units : IsFiniteSet(by_target'[t])
    BY <2>2, FS_Subset DEF ShotTypes, ShotsOK
  <2> QED
    BY <2>3, <2>4 DEF ShotsOK
<1>3. Times'
  <2>1. dead' \in [Units -> {Never} \cup 0..MaxTime]
    BY DEF SlowTick, None
  <2>2. recently_dead' \in [Units -> {Never} \cup 0..MaxTime]
    BY DEF SlowTick, ShotTypes, Times
  <2>3. last_gc' \in 0..MaxTime /\ now' \in 0..MaxTime /\ shots' \in 0..MaxShots
    BY DEF SlowTick, ShotTypes, Times
  <2> QED
    BY <2>1, <2>2, <2>3 DEF Times
<1>4. AwardsOK'
  <2>2. \A t \in Units : awards[t] \in Seq(Award)
    BY DEF ShotTypes, AwardsOK
  <2>1. ASSUME NEW t \in Units, t \in Drained, HitBy(t) # {}
        PROVE  Paid(t) \in Seq(Award)
    <3>1. dead[t] # Never
      BY <2>1 DEF Drained
    <3>2. PICK a \in Award : Paid(t) = Append(awards[t], a)
      BY <2>1, <3>1, PaidOK
    <3> QED
      BY <2>2, <3>2
  <2>3. awards' = [t \in Units |-> IF t \in Drained /\ HitBy(t) # {} THEN Paid(t) ELSE awards[t]]
    BY DEF SlowTick
  <2> QED
    BY <2>1, <2>2, <2>3 DEF AwardsOK
<1> QED
  BY <1>1, <1>2, <1>3, <1>4 DEF ShotTypes

LEMMA StepTypes == ShotTypes /\ [ShotsNext]_shots_vars => ShotTypes'
<1> SUFFICES ASSUME ShotTypes, [ShotsNext]_shots_vars PROVE ShotTypes'
  OBVIOUS
<1> USE ShotsConstants
<1>1. ASSUME NEW s \in Units, NEW t \in Targets, Fire(s, t) PROVE ShotTypes'
  <2>1. t \in Units /\ ShotsOK'
    BY <1>1, RecordOK DEF Fire
  <2> QED
    BY <1>1, <2>1 DEF Fire, ShotTypes, Sets, Times, AwardsOK
<1>2. ASSUME NEW s \in Units, NEW t \in Targets, NEW lethal \in BOOLEAN, Hit(s, t, lethal)
      PROVE  ShotTypes'
  <2>1. t \in Units /\ ShotsOK'
    BY <1>2, RecordOK DEF Hit
  <2>2. shots' \in 0..MaxShots
    BY <1>2 DEF Hit, ShotTypes, Times
  <2>3. Times'
    BY <1>2, <2>1, <2>2, WithDeadOK DEF Hit, ShotTypes, Times
  <2>4. Sets' /\ AwardsOK'
    BY <1>2 DEF Hit, ShotTypes, Sets, AwardsOK, Forgotten
  <2> QED
    BY <2>1, <2>3, <2>4 DEF ShotTypes
<1>3. ASSUME NEW t \in Targets, Crash(t) PROVE ShotTypes'
  BY <1>3 DEF Crash, memory, ShotTypes, Sets, ShotsOK, Times, AwardsOK
<1>4. ASSUME NEW t \in Targets, Abandoned(t) \/ ReportDead(t) PROVE ShotTypes'
  <2>1. t \in Units /\ Times'
    BY <1>4, WithDeadOK DEF Abandoned, ReportDead, ShotTypes, Times
  <2> QED
    BY <1>4, <2>1 DEF Abandoned, ReportDead, ShotTypes, Sets, ShotsOK, AwardsOK, Forgotten
<1>5. ASSUME NEW t \in Targets, Despawn(t) PROVE ShotTypes'
  BY <1>5 DEF Despawn, memory, ShotTypes, Sets, ShotsOK, Times, AwardsOK
<1>6. ASSUME NEW t \in Targets, NEW landed \in BOOLEAN, LeaveUnit(t, landed) PROVE ShotTypes'
  <2>1. t \in Units /\ Times'
    BY <1>6, WithDeadOK DEF LeaveUnit, ShotTypes, Times
  <2> QED
    BY <1>6, <2>1 DEF LeaveUnit, ShotTypes, Sets, ShotsOK, AwardsOK, Forgotten
<1>7. CASE SlowTick
  BY <1>7, SlowTickTypes
<1>8. CASE Pass
  BY <1>8 DEF Pass, memory, ShotTypes, Sets, ShotsOK, Times, AwardsOK
<1>9. CASE UNCHANGED shots_vars
  BY <1>9 DEF shots_vars, memory, ShotTypes, Sets, ShotsOK, Times, AwardsOK
<1> QED
  BY <1>1, <1>2, <1>3, <1>4, <1>5, <1>6, <1>7, <1>8, <1>9 DEF ShotsNext

\* Every variable of the kill attribution always has its type.
THEOREM ShotsTyped == ShotsSpec => []TypeOK
<1>1. ShotsSpec => []ShotTypes
  BY InitTypes, StepTypes, PTL DEF ShotsSpec
<1> QED
  BY <1>1, TypesAreTypeOK, PTL

---------------------------------------------------------------------------
(* Once, and only for what has fallen.                                     *)

\* What has been paid for is known no more and nothing is left of its shots; the dead are
\* not known either, so that nothing more is written down against them.
Buried ==
    \A t \in Units :
        /\ awards[t] # <<>> => /\ Len(awards[t]) = 1 /\ by_target[t] = {} /\ t \notin known
                               /\ t \notin alive \/ t \in bailed
        /\ dead[t] # Never => t \notin known /\ (t \notin alive \/ t \in bailed)

LEMMA BuriedIsEnough == ShotTypes /\ Buried => CreditedOnce /\ OnlyTheFallen
<1> SUFFICES ASSUME ShotTypes, Buried PROVE CreditedOnce /\ OnlyTheFallen
  OBVIOUS
<1>1. \A t \in Units : Len(awards[t]) <= 1
  <2> SUFFICES ASSUME NEW t \in Units PROVE Len(awards[t]) <= 1
    OBVIOUS
  <2>1. CASE awards[t] = <<>>
    BY <2>1
  <2>2. CASE awards[t] # <<>>
    <3>1. Len(awards[t]) = 1
      BY <2>2 DEF Buried
    <3> QED
      BY <3>1
  <2> QED
    BY <2>1, <2>2
<1> QED
  BY <1>1 DEF Buried, CreditedOnce, OnlyTheFallen

\* A shot or a hit is not written down against what is known no more.
LEMMA RecordBuried ==
    ASSUME NEW s \in Units, NEW t \in Units, NEW hit \in BOOLEAN, NEW u \in Units,
           u \notin known, by_target[u] = {}, by_target' = record(s, t, hit),
           by_target \in [Units -> SUBSET Shot]
    PROVE  by_target'[u] = {}
  BY DEF record

LEMMA WithDeadElse ==
    ASSUME NEW t \in Units, NEW u \in Units, u # t, dead \in [Units -> {Never} \cup 0..MaxTime]
    PROVE  WithDead(t)[u] = dead[u]
  BY DEF WithDead

LEMMA SlowTickBuried == ShotTypes /\ Buried /\ SlowTick => Buried'
<1> SUFFICES ASSUME ShotTypes, Buried, SlowTick, NEW t \in Units
             PROVE  /\ awards'[t] # <<>> => /\ Len(awards'[t]) = 1 /\ by_target'[t] = {}
                                            /\ t \notin known'
                                            /\ t \notin alive' \/ t \in bailed'
                    /\ dead'[t] = Never
  BY DEF Buried
<1>1. dead'[t] = Never /\ UNCHANGED <<known, alive, bailed>>
  BY DEF SlowTick, None
<1>2. awards'[t] = IF t \in Drained /\ HitBy(t) # {} THEN Paid(t) ELSE awards[t]
  BY DEF SlowTick
<1>3. by_target'[t] \subseteq by_target[t] /\ (t \in Drained => by_target'[t] = {})
  BY DEF SlowTick, ByTargetAfter
<1>4. CASE t \in Drained /\ HitBy(t) # {}
  <2>1. dead[t] # Never
    BY <1>4 DEF Drained
  <2>2. awards[t] = <<>>
    BY <1>4, <2>1, PayeesOK DEF Buried
  <2>3. PICK a \in Award : Paid(t) = Append(awards[t], a)
    BY <1>4, <2>1, PaidOK
  <2>4. Len(awards'[t]) = 1
    BY <1>2, <1>4, <2>2, <2>3
  <2> QED
    BY <1>1, <1>3, <1>4, <2>1, <2>4 DEF Buried
<1>5. CASE ~(t \in Drained /\ HitBy(t) # {})
  BY <1>1, <1>2, <1>3, <1>5 DEF Buried
<1> QED
  BY <1>4, <1>5

LEMMA StepBuried == ShotTypes /\ Buried /\ [ShotsNext]_shots_vars => Buried'
<1> SUFFICES ASSUME ShotTypes, Buried, [ShotsNext]_shots_vars PROVE Buried'
  OBVIOUS
<1> USE ShotsConstants
<1>0. by_target \in [Units -> SUBSET Shot] /\ dead \in [Units -> {Never} \cup 0..MaxTime]
  BY DEF ShotTypes, ShotsOK, Times
<1>1. ASSUME NEW s \in Units, NEW t \in Targets, Fire(s, t) PROVE Buried'
  BY <1>0, <1>1, RecordBuried DEF Fire, Buried
<1>2. ASSUME NEW s \in Units, NEW t \in Targets, NEW lethal \in BOOLEAN, Hit(s, t, lethal)
      PROVE  Buried'
  <2>1. CASE lethal
    <3>1. /\ t \in Units /\ alive' = alive \ {t} /\ dead' = WithDead(t) /\ known' = known \ {t}
          /\ by_target' = record(s, t, TRUE) /\ UNCHANGED <<bailed, awards>>
      BY <1>2, <2>1 DEF Hit, Forgotten
    <3>2. \A u \in Units : u \notin known /\ by_target[u] = {} => by_target'[u] = {}
      BY <1>0, <3>1, RecordBuried
    <3>3. \A u \in Units : u # t => dead'[u] = dead[u]
      BY <1>0, <3>1, WithDeadElse
    <3> QED
      BY <3>1, <3>2, <3>3 DEF Buried
  <2>2. CASE ~lethal
    BY <1>0, <1>2, <2>2, RecordBuried DEF Hit, Buried
  <2> QED
    BY <2>1, <2>2
<1>3. ASSUME NEW t \in Targets, Crash(t) PROVE Buried'
  BY <1>3 DEF Crash, memory, Buried
<1>4. ASSUME NEW t \in Targets, Abandoned(t) \/ ReportDead(t) PROVE Buried'
  BY <1>0, <1>4, WithDeadElse DEF Abandoned, ReportDead, Buried, Forgotten
<1>5. ASSUME NEW t \in Targets, Despawn(t) PROVE Buried'
  BY <1>5 DEF Despawn, memory, Buried
<1>6. ASSUME NEW t \in Targets, NEW landed \in BOOLEAN, LeaveUnit(t, landed) PROVE Buried'
  <2>1. CASE landed
    BY <1>6, <2>1 DEF LeaveUnit, Buried, Forgotten
  <2>2. CASE ~landed
    BY <1>0, <1>6, <2>2, WithDeadElse DEF LeaveUnit, Buried, Forgotten
  <2> QED
    BY <2>1, <2>2
<1>7. CASE SlowTick
  BY <1>7, SlowTickBuried
<1>8. CASE Pass
  BY <1>8 DEF Pass, memory, Buried
<1>9. CASE UNCHANGED shots_vars
  BY <1>9 DEF shots_vars, memory, Buried
<1> QED
  BY <1>1, <1>2, <1>3, <1>4, <1>5, <1>6, <1>7, <1>8, <1>9 DEF ShotsNext

LEMMA InitBuried == ShotsInit => Buried
  BY DEF ShotsInit, Buried, None

\* However often a death is reported, its killers are paid once, and then no shot at it is
\* left and none is written down any more.
THEOREM PaidOnce == ShotsSpec => []CreditedOnce
<1>1. ShotsSpec => [](ShotTypes /\ Buried)
  BY InitTypes, StepTypes, InitBuried, StepBuried, PTL DEF ShotsSpec
<1> QED
  BY <1>1, BuriedIsEnough, PTL

\* Nobody is paid for a unit that lives and that its pilot has not left in the air.
THEOREM PaidForTheFallen == ShotsSpec => []OnlyTheFallen
<1>1. ShotsSpec => [](ShotTypes /\ Buried)
  BY InitTypes, StepTypes, InitBuried, StepBuried, PTL DEF ShotsSpec
<1> QED
  BY <1>1, BuriedIsEnough, PTL

---------------------------------------------------------------------------
(* In full.                                                                *)

Full(a) == LET n == Cardinality(a.to) IN Total <= n * a.share /\ n * a.share < Total + n

LEMMA PaidInFullAlt == PaidInFull <=> \A t \in Units : \A i \in 1..Len(awards[t]) : Full(awards[t][i])
  BY DEF PaidInFull, Full

LEMMA SlowTickFull == ShotTypes /\ PaidInFull /\ SlowTick => PaidInFull'
<1> SUFFICES ASSUME ShotTypes, PaidInFull, SlowTick,
                    NEW t \in Units, NEW i \in 1..Len(awards'[t])
             PROVE  Full(awards'[t][i])
  BY DEF PaidInFull, Full
<1>1. awards'[t] = IF t \in Drained /\ HitBy(t) # {} THEN Paid(t) ELSE awards[t]
  BY DEF SlowTick
<1>2. \A j \in 1..Len(awards[t]) : Full(awards[t][j])
  BY PaidInFullAlt
<1>3. CASE t \in Drained /\ HitBy(t) # {}
  <2> DEFINE a == [to |-> HitBy(t), share |-> Share(Cardinality(HitBy(t)))]
  <2>1. dead[t] # Never
    BY <1>3 DEF Drained
  <2>2. a \in Award /\ Paid(t) = Append(awards[t], a) /\ Full(a)
    BY <1>3, <2>1, PaidOK DEF Full
  <2>3. awards[t] \in Seq(Award)
    BY DEF ShotTypes, AwardsOK
  <2> HIDE DEF a
  <2>4. awards'[t] = Append(awards[t], a)
    BY <1>1, <1>3, <2>2
  <2>5. CASE i \in 1..Len(awards[t])
    <3>1. awards'[t][i] = awards[t][i]
      BY <2>2, <2>3, <2>4, <2>5
    <3> QED
      BY <1>2, <2>5, <3>1
  <2>6. CASE i \notin 1..Len(awards[t])
    <3>1. awards'[t][i] = a
      BY <2>2, <2>3, <2>4, <2>6
    <3> QED
      BY <2>2, <3>1
  <2> QED
    BY <2>5, <2>6
<1>4. CASE ~(t \in Drained /\ HitBy(t) # {})
  BY <1>1, <1>2, <1>4
<1> QED
  BY <1>3, <1>4

LEMMA StepFull == ShotTypes /\ PaidInFull /\ [ShotsNext]_shots_vars => PaidInFull'
<1> SUFFICES ASSUME ShotTypes, PaidInFull, [ShotsNext]_shots_vars PROVE PaidInFull'
  OBVIOUS
<1>1. CASE SlowTick
  BY <1>1, SlowTickFull
<1>2. CASE awards' = awards
  BY <1>2 DEF PaidInFull
<1>3. SlowTick \/ awards' = awards
  BY DEF ShotsNext, Fire, Hit, Crash, Abandoned, ReportDead, Despawn, LeaveUnit, Pass, shots_vars
<1> QED
  BY <1>1, <1>2, <1>3

\* The shares of a kill make up its points: nothing is lost and less than a point per share
\* is given away.
THEOREM SharesMakeUpTheKill == ShotsSpec => []PaidInFull
<1>1. ShotsInit => PaidInFull
  <2> SUFFICES ASSUME ShotsInit, NEW t \in Units, NEW i \in 1..Len(awards[t]) PROVE Full(awards[t][i])
    BY DEF PaidInFull, Full
  <2>1. Len(awards[t]) = 0
    BY DEF ShotsInit
  <2> QED
    BY <2>1
<1> QED
  BY <1>1, InitTypes, StepTypes, StepFull, PTL DEF ShotsSpec

---------------------------------------------------------------------------
(* What the reports that come late cannot change.                          *)

\* Who is to be paid depends on the shots at the unit and on the time of its death only.
LEMMA SameKillers ==
    ASSUME NEW t \in Units, by_target'[t] = by_target[t], dead'[t] = dead[t]
    PROVE  HitBy(t)' = HitBy(t)
<1>1. ValidShots(t)' = ValidShots(t)
  BY DEF ValidShots, Valid
<1> QED
  BY <1>1 DEF HitBy, Key

\* What no step but the slow tick does: take a shot away, or touch those at the dead.
LEMMA ShotsStay ==
    ASSUME ShotTypes, [ShotsNext]_shots_vars, ~SlowTick, NEW u \in Units
    PROVE  /\ by_target[u] \subseteq by_target'[u]
           /\ dead[u] # Never => by_target'[u] = by_target[u] /\ dead'[u] = dead[u]
<1> USE ShotsConstants
<1>0. by_target \in [Units -> SUBSET Shot] /\ dead \in [Units -> {Never} \cup 0..MaxTime]
  BY DEF ShotTypes, ShotsOK, Times
<1>1. ASSUME NEW s \in Units, NEW t \in Units, NEW hit \in BOOLEAN, by_target' = record(s, t, hit)
      PROVE  by_target[u] \subseteq by_target'[u] /\ (dead[u] # Never => by_target'[u] = by_target[u])
  BY <1>0, <1>1 DEF record, Gone
<1>2. ASSUME NEW t \in Units, dead' = WithDead(t)
      PROVE  dead[u] # Never => dead'[u] = dead[u]
  BY <1>0, <1>2 DEF WithDead
<1>3. ASSUME NEW s \in Units, NEW t \in Targets, Fire(s, t)
      PROVE  t \in Units /\ by_target' = record(s, t, FALSE) /\ dead' = dead
  BY <1>3 DEF Fire
<1>4. ASSUME NEW s \in Units, NEW t \in Targets, NEW lethal \in BOOLEAN, Hit(s, t, lethal)
      PROVE  /\ t \in Units /\ by_target' = record(s, t, TRUE)
             /\ dead' = WithDead(t) \/ dead' = dead
  BY <1>4 DEF Hit
<1>5. ASSUME NEW t \in Targets,
             Abandoned(t) \/ ReportDead(t) \/ \E landed \in BOOLEAN : LeaveUnit(t, landed)
      PROVE  t \in Units /\ by_target' = by_target /\ (dead' = WithDead(t) \/ dead' = dead)
  BY <1>5 DEF Abandoned, ReportDead, LeaveUnit
<1>6. ASSUME NEW t \in Targets, Crash(t) \/ Despawn(t) PROVE by_target' = by_target /\ dead' = dead
  BY <1>6 DEF Crash, Despawn, memory
<1>7. CASE Pass \/ UNCHANGED shots_vars
  BY <1>7 DEF Pass, shots_vars, memory
<1>8. CASE \E s \in Units, t \in Targets : Fire(s, t)
  BY <1>1, <1>3, <1>8
<1>9. CASE \E s \in Units, t \in Targets, lethal \in BOOLEAN : Hit(s, t, lethal)
  BY <1>1, <1>2, <1>4, <1>9
<1>10. CASE \E t \in Targets : \/ Abandoned(t) \/ ReportDead(t)
                             \/ \E landed \in BOOLEAN : LeaveUnit(t, landed)
  BY <1>2, <1>5, <1>10
<1>11. CASE \E t \in Targets : Crash(t) \/ Despawn(t)
  BY <1>6, <1>11
<1> QED
  BY <1>7, <1>8, <1>9, <1>10, <1>11 DEF ShotsNext

\* From a death to the tick that pays for it, no report changes who is to be paid.
THEOREM SettledKillers == ShotsSpec => KillersAreSettled
<1>1. ASSUME ShotTypes, [ShotsNext]_shots_vars, NEW t \in Units, dead[t] # Never, dead'[t] # Never
      PROVE  HitBy(t)' = HitBy(t)
  <2>1. ~SlowTick
    BY <1>1 DEF SlowTick, None
  <2> QED
    BY <1>1, <2>1, ShotsStay, SameKillers
<1>2. ShotTypes /\ [ShotsNext]_shots_vars =>
        [\A t \in Units : dead[t] # Never /\ dead'[t] # Never => HitBy(t)' = HitBy(t)]_shots_vars
  BY <1>1
<1> QED
  BY <1>2, InitTypes, StepTypes, PTL DEF ShotsSpec, KillersAreSettled

\* Of the shots at what is not dead none is forgotten before its half hour is over.
THEOREM ShotsAreKept == ShotsSpec => YoungShotsStay
<1>1. ASSUME ShotTypes, [ShotsNext]_shots_vars, NEW t \in Units, dead[t] = Never,
             NEW x \in by_target[t], now - x.time <= Keep
      PROVE  x \in by_target'[t]
  <2>1. CASE SlowTick
    BY <1>1, <2>1 DEF SlowTick, ByTargetAfter, Drained
  <2>2. CASE ~SlowTick
    BY <1>1, <2>2, ShotsStay
  <2> QED
    BY <2>1, <2>2
<1>2. ShotTypes /\ [ShotsNext]_shots_vars =>
        [\A t \in Units : dead[t] = Never =>
            {x \in by_target[t] : now - x.time <= Keep} \subseteq by_target'[t]]_shots_vars
  BY <1>1
<1> QED
  BY <1>2, InitTypes, StepTypes, PTL DEF ShotsSpec, YoungShotsStay
=============================================================================
