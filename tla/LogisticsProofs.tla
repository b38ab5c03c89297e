-------------------------- MODULE LogisticsProofs --------------------------
(***************************************************************************)
(* Of any objectives, sides, capacities and operations.  When a tick is    *)
(* complete the program and DCS agree on every stock an inventory lists:   *)
(* what matters is who writes which copy in which stage, and what is       *)
(* listed.  Transfers stay within a side: what matters is what the plan is *)
(* put together from, and which operations drop it.  And a plan fits, when *)
(* it is made and as long as it is executed: what matters is how a hub's   *)
(* stock is divided, and that neither a transfer nor the evening out of    *)
(* the hubs takes what is not there.  Last, that dividing is fair and      *)
(* evening out evens out.                                                  *)
(***************************************************************************)
EXTENDS MCLogisticsPlan, FoldLemmas

\* The program and DCS agree at the objectives in S.
Agree(S) == \A o \in S : dcs[o] = stock[o]

\* While warehouses are being written, those already done agree, if they list the item.  In
\* the other stages of a tick the program's stocks run ahead.
Synced == stage = "SyncTo" => Agree((exists \cap listed) \ (left \cup drift))

Agreed == stage = "Complete" => Agree((exists \cap listed) \ drift)

\* Who produces the item lists it.
Listing == \A o \in exists : owner[o] \in Makers => o \in listed

SettledInv == /\ exists \subseteq Objectives /\ DOMAIN owner = Objectives
              /\ Synced
              /\ Agreed
              /\ Listing

LEMMA InitSettled == Init => SettledInv
  BY LogisticsConstants DEF Init, SettledInv, Synced, Agreed, Listing, Objectives

\* One step of logistics_step.
LEMMA TickSettles == SettledInv /\ LogisticsStep => SettledInv'
  <1> SUFFICES ASSUME SettledInv, LogisticsStep PROVE SettledInv'
    OBVIOUS
  <1> USE DEF SettledInv, Synced, Agreed, Listing, Agree
  <1>1. CASE FirstStep
    BY <1>1 DEF FirstStep, GoTo
  <1>2. CASE StartTick
    BY <1>2 DEF StartTick, GoTo
  <1>3. CASE SyncFrom
    BY <1>3 DEF SyncFrom
  <1>4. CASE MakePlan
    BY <1>4 DEF MakePlan, GoTo
  <1>5. CASE Execute
    BY <1>5 DEF Execute
  <1>6. CASE Balance
    <2>1. /\ stage' = "SyncTo" /\ left' = exists /\ exists' = exists /\ owner' = owner
          /\ listed \subseteq listed'
      BY <1>6 DEF Balance, GoTo
    <2> QED BY <2>1
  <1>7. CASE SyncTo
    <2> DEFINE p == Max(left)
    <2>1. /\ stage = "SyncTo" /\ stage' = stage /\ exists' = exists /\ stock' = stock
          /\ left' = left \ {p} /\ drift' = drift \ {p} /\ owner' = owner /\ listed' = listed
          /\ dcs' = IF p \in exists THEN Written({p}, listed, stock) ELSE dcs
      BY <1>7 DEF SyncTo
    <2> HIDE DEF p
    <2>2. \A o \in exists : o # p => dcs'[o] = dcs[o]
      BY <2>1 DEF Written
    <2>3. p \in exists \cap listed => dcs'[p] = stock[p]
      BY <2>1 DEF Written
    <2> QED BY <2>1, <2>2, <2>3
  <1>8. CASE EndTick
    BY <1>8 DEF EndTick, GoTo
  <1> QED BY <1>1, <1>2, <1>3, <1>4, <1>5, <1>6, <1>7, <1>8 DEF LogisticsStep

\* A step that writes the same stock at the objectives in S to both copies, where the item is
\* listed, and nothing elsewhere, keeps what is settled.
LEMMA BothWritten ==
    ASSUME SettledInv, NEW S,
           stage' = stage, left' = left, exists' = exists, drift' = drift \ S, owner' = owner,
           listed \subseteq listed', listed' \subseteq listed \cup S,
           \A o \in (exists \cap listed') \cap S : dcs'[o] = stock'[o],
           \A o \in exists \ S : dcs'[o] = dcs[o] /\ stock'[o] = stock[o]
    PROVE  SettledInv'
  BY DEF SettledInv, Synced, Agreed, Listing, Agree

\* What comes in between the steps.
LEMMA OthersSettle == SettledInv /\ Others => SettledInv'
  <1> SUFFICES ASSUME SettledInv, Others PROVE SettledInv'
    OBVIOUS
  <1>1. CASE DeliverNow
    BY <1>1 DEF DeliverNow, SettledInv, Synced, Agreed, Listing, Agree
  <1>2. CASE Restart
    BY <1>2 DEF Restart, GoTo, SettledInv, Synced, Agreed, Listing
  <1>3. ASSUME NEW p \in Objectives, DcsChanges(p) PROVE SettledInv'
    <2>1. \A o \in exists : o # p => dcs'[o] = dcs[o]
      BY <1>3 DEF DcsChanges, SettledInv, Put
    <2>2. /\ stage' = stage /\ left' = left /\ exists' = exists /\ stock' = stock
          /\ drift' = drift \cup {p} /\ owner' = owner /\ listed' = listed
      BY <1>3 DEF DcsChanges
    <2> QED BY <2>1, <2>2 DEF SettledInv, Synced, Agreed, Listing, Agree
  <1>4. ASSUME NEW p \in Objectives, Aircraft(p) PROVE SettledInv'
    <2>1. PICK n : /\ dcs' = Put(dcs, p, n)
                   /\ stock' = IF p \in listed THEN Put(stock, p, n) ELSE stock
      BY <1>4 DEF Aircraft
    <2>2. \A o \in Objectives \ {p} : dcs'[o] = dcs[o] /\ stock'[o] = stock[o]
      BY <2>1 DEF Put
    <2>3. p \in listed => dcs'[p] = stock'[p]
      BY <2>1 DEF Put
    <2>4. /\ stage' = stage /\ left' = left /\ exists' = exists /\ owner' = owner
          /\ listed' = listed /\ drift' = drift \ {p} /\ exists \subseteq Objectives
      BY <1>4 DEF Aircraft, SettledInv
    <2>5. \A o \in (exists \cap listed') \cap {p} : dcs'[o] = stock'[o]
      BY <2>3, <2>4
    <2> QED BY <2>2, <2>4, <2>5, BothWritten
  <1>5. ASSUME NEW p \in Objectives, ReduceInventory(p) PROVE SettledInv'
    <2>1. PICK n : dcs' = Put(dcs, p, n) /\ stock' = Put(stock, p, n)
      BY <1>5 DEF ReduceInventory
    <2>2. \A o \in Objectives \ {p} : dcs'[o] = dcs[o] /\ stock'[o] = stock[o]
      BY <2>1 DEF Put
    <2>3. \A o \in (exists \cap listed') \cap {p} : dcs'[o] = stock'[o]
      BY <2>1 DEF Put
    <2>4. /\ stage' = stage /\ left' = left /\ exists' = exists /\ owner' = owner
          /\ listed' = listed /\ drift' = drift \ {p} /\ exists \subseteq Objectives
      BY <1>5 DEF ReduceInventory, SettledInv
    <2> QED BY <2>2, <2>3, <2>4, BothWritten
  <1>6. ASSUME NEW p \in Objectives, DeleteFarp(p) PROVE SettledInv'
    BY <1>6 DEF DeleteFarp, SettledInv, Synced, Agreed, Listing, Agree
  <1>7. ASSUME NEW from \in Objectives, NEW to \in Objectives, TransferSupplies(from, to)
        PROVE  SettledInv'
    <2> DEFINE read == Read({from, to})
    <2>1. PICK amount : LET new == IF read[from] = 0 THEN read
                                   ELSE Moved(read, [from |-> from, to |-> to, amount |-> amount])
                        IN  /\ stock' = new
                            /\ dcs' = Written({from, to}, listed', new)
      BY <1>7 DEF TransferSupplies
    <2>2. \A o \in Objectives \ {from, to} : read[o] = stock[o]
      BY DEF Read
    <2> HIDE DEF read
    <2>3. \A o \in Objectives \ {from, to} : stock'[o] = stock[o]
      <3>1. CASE read[from] = 0
        BY <3>1, <2>1, <2>2
      <3>2. CASE read[from] # 0
        BY <3>2, <2>1, <2>2 DEF Moved, Put
      <3> QED BY <3>1, <3>2
    <2>4. dcs' = Written({from, to}, listed', stock')
      BY <2>1
    <2>5. \A o \in Objectives \ {from, to} : dcs'[o] = dcs[o]
      BY <2>4 DEF Written
    <2>6. \A o \in listed' \cap {from, to} : dcs'[o] = stock'[o]
      BY <2>4 DEF Written
    <2>7. /\ stage' = stage /\ left' = left /\ exists' = exists /\ owner' = owner
          /\ drift' = drift \ {from, to} /\ exists \subseteq Objectives
      BY <1>7 DEF TransferSupplies, SettledInv
    <2>8. listed \subseteq listed' /\ listed' \subseteq listed \cup {from, to}
      BY <1>7 DEF TransferSupplies
    <2> QED BY <2>3, <2>5, <2>6, <2>7, <2>8, BothWritten
  <1>8. ASSUME NEW p \in Objectives, NEW side \in Sides, AddFarp(p, side) PROVE SettledInv'
    <2>1. /\ stage' = "ExecuteTransfers" /\ exists' = exists \cup {p}
          /\ listed' = IF side \in Makers THEN listed \cup {p} ELSE listed \ {p}
          /\ owner' = [owner EXCEPT ![p] = side]
      BY <1>8 DEF AddFarp, GoTo
    <2>2. Listing'
      BY <2>1 DEF SettledInv, Listing
    <2> QED BY <2>1, <2>2 DEF SettledInv, Synced, Agreed
  <1>9. ASSUME NEW p \in Objectives, NEW side \in Sides, Capture(p, side) PROVE SettledInv'
    <2>1. /\ stage' = "SyncTo" /\ left' = exists /\ exists' = exists
          /\ listed' = listed \cup {p} /\ owner' = [owner EXCEPT ![p] = side]
      BY <1>9 DEF Capture, GoTo
    <2>2. Listing'
      BY <2>1 DEF SettledInv, Listing
    <2> QED BY <2>1, <2>2 DEF SettledInv, Synced, Agreed, Agree
  <1> QED BY <1>1, <1>2, <1>3, <1>4, <1>5, <1>6, <1>7, <1>8, <1>9 DEF Others

\* Whenever a tick is complete the program and DCS agree on every stock DCS has not changed
\* since and the inventory lists, and what it does not list the owner does not produce:
\* whatever was captured, built, deleted, moved or restarted during the tick.
THEOREM TicksSettle == Spec => []Settled
  <1>1. SettledInv /\ [Next]_vars => SettledInv'
    <2> SUFFICES ASSUME SettledInv, [Next]_vars PROVE SettledInv'
      OBVIOUS
    <2>1. CASE UNCHANGED vars
      BY <2>1 DEF vars, SettledInv, Synced, Agreed, Listing, Agree
    <2> QED BY <2>1, TickSettles, OthersSettle DEF Next
  <1>2. SettledInv => Settled
    BY DEF SettledInv, Agreed, Agree, Listing, Settled
  <1> QED BY InitSettled, <1>1, <1>2, PTL DEF Spec

-----------------------------------------------------------------------------
(* Steps of a computation, and numbers. *)

\* What Along computes it computes in steps.
Stages(run, start, steps, n, V) ==
    /\ run \in [0..n -> V] /\ run[0] = start /\ run[n] = Along(start, steps)
    /\ \A i \in 1..n : run[i] = steps[i][run[i - 1]]

LEMMA AlongRuns ==
    ASSUME NEW steps, NEW start, NEW size \in Nat, DOMAIN steps = 1..size, NEW V, start \in V,
           \A i \in 1..size, v \in V : steps[i][v] \in V
    PROVE  \E run : Stages(run, start, steps, size, V)
<1> DEFINE n == size
           IsIt(it) == it = [T \in SUBSET (1..n) |->
                               IF T = {} THEN start
                               ELSE steps[Max(T)][it[T \ {Max(T)}]]]
           it == CHOOSE f : IsIt(f)
           op == [p \in (1..n) \X V |-> steps[p[1]][p[2]]]
<1>1. Along(start, steps) = it[1..n]
  BY DEF Along, FoldLeft, MapThenFoldSet
<1>2. n \in Nat /\ start \in V
  OBVIOUS
<1>3. \A T \in SUBSET (1..n) : T # {} => Max(T) \in 1..n
  <2> HIDE DEF n
  <2> QED
    BY <1>2, LastIsThere
<1>4. /\ op \in [(1..n) \X V -> V]
      /\ \A i \in 1..n, v \in V : op[<<i, v>>] = steps[i][v]
  OBVIOUS
<1> HIDE DEF n, op
<1>5. PICK f \in [SUBSET (1..n) -> V] : IsOrdered(f, n, start, op)
  <2> HIDE DEF IsIt, it
  <2> QED
    BY ONLY <1>2, <1>4, FoldInOrder
<1>6. \A T \in SUBSET (1..n) : T # {} => op[<<Max(T), f[T \ {Max(T)}]>>]
                                          = steps[Max(T)][f[T \ {Max(T)}]]
  <2> HIDE DEF IsIt, it
  <2>1. \A T \in SUBSET (1..n) : f[T \ {Max(T)}] \in V
    OBVIOUS
  <2> QED
    BY <1>3, <1>4, <2>1
<1>7. IsIt(f)
  BY <1>5, <1>6 DEF IsOrdered
<1>8. IsIt(it)
  <2> HIDE DEF IsIt
  <2> QED
    BY <1>7
<1>9. Ordered(it, n, V, start, op)
  <2> HIDE DEF it
  <2>1. it[{}] = start
    BY <1>8
  <2>2. \A T \in SUBSET (1..n) : T # {} =>
           it[T] = steps[Max(T)][it[T \ {Max(T)}]]
    BY <1>8
  <2> HIDE DEF IsIt
  <2> QED
    BY <1>3, <1>4, <2>1, <2>2 DEF Ordered
<1>10. PICK run : Runs(run, n, V, start, op, it[1..n])
  <2> HIDE DEF IsIt, it
  <2> QED
    BY ONLY <1>2, <1>4, <1>9, FoldRuns
<1>11. \A i \in 1..n : run[i] = steps[i][run[i - 1]]
  <2> HIDE DEF IsIt, it
  <2> QED
    BY <1>4, <1>10 DEF Runs
<1>12. run \in [0..n -> V] /\ run[0] = start /\ run[n] = Along(start, steps)
  <2> HIDE DEF IsIt, it
  <2> QED
    BY <1>1, <1>10 DEF Runs
<1>13. Stages(run, start, steps, n, V)
  <2> HIDE DEF IsIt, it
  <2> QED
    BY <1>11, <1>12 DEF Stages
<1> QED
  BY <1>13 DEF n

\* Of two numbers.
LEMMA MinOfTwo == \A a, b \in Int : Min({a, b}) = IF a <= b THEN a ELSE b
<1> SUFFICES ASSUME NEW a \in Int, NEW b \in Int PROVE Min({a, b}) = IF a <= b THEN a ELSE b
  OBVIOUS
<1>1. \E x \in {a, b} : \A y \in {a, b} : x =< y
  <2>1. CASE a <= b
    BY <2>1
  <2>2. CASE ~(a <= b)
    BY <2>2
  <2> QED BY <2>1, <2>2
<1>2. Min({a, b}) \in {a, b} /\ \A y \in {a, b} : Min({a, b}) =< y
  BY <1>1 DEF Min
<1> QED
  BY <1>2

LEMMA MaxOfTwo == \A a, b \in Int : Max({a, b}) = IF a >= b THEN a ELSE b
<1> SUFFICES ASSUME NEW a \in Int, NEW b \in Int PROVE Max({a, b}) = IF a >= b THEN a ELSE b
  OBVIOUS
<1>1. \E x \in {a, b} : \A y \in {a, b} : x >= y
  <2>1. CASE a >= b
    BY <2>1
  <2>2. CASE ~(a >= b)
    BY <2>2
  <2> QED BY <2>1, <2>2
<1>2. Max({a, b}) \in {a, b} /\ \A y \in {a, b} : Max({a, b}) >= y
  BY <1>1 DEF Max
<1> QED
  BY <1>2

\* What Along computes stays where each of its steps stays.
LEMMA AlongStays ==
    ASSUME NEW steps, NEW start, NEW size \in Nat, DOMAIN steps = 1..size, NEW V, start \in V,
           \A i \in 1..size, v \in V : steps[i][v] \in V
    PROVE  Along(start, steps) \in V
<1>1. PICK run : Stages(run, start, steps, size, V)
  BY AlongRuns
<1> QED
  BY <1>1 DEF Stages

-----------------------------------------------------------------------------
(* Dividing what a hub has. *)

\* While it is divided, what has been given and what is left are what there was, and nobody
\* has more than he lacks.
Parted(have, demand) ==
    {s \in Shares : /\ DOMAIN s.alloc = DOMAIN demand
                    /\ \A i \in DOMAIN demand : s.alloc[i] <= demand[i]
                    /\ s.have + SumOf(s.alloc, DOMAIN demand) = have}

LEMMA ServeKeepsParted ==
    ASSUME NEW have \in Nat, NEW demand \in Seq(Nat), NEW s \in Parted(have, demand),
           NEW i \in DOMAIN demand
    PROVE  Serve(s, demand, i) \in Parted(have, demand)
<1> DEFINE n == Len(demand)
           d == demand[i]
           a == s.alloc[i]
           x == Portion(s.have, d, a)
           f == s.alloc
           g == [f EXCEPT ![i] = @ + x]
           t == [have |-> s.have - x, alloc |-> g]
<1>1. /\ s \in Shares /\ DOMAIN f = DOMAIN demand
      /\ \A j \in DOMAIN demand : f[j] <= demand[j]
      /\ s.have + SumOf(f, DOMAIN demand) = have
  BY DEF Parted
<1>2. s.have \in Nat /\ f \in Seq(Nat)
  BY <1>1 DEF Shares
<1>3. n \in Nat /\ DOMAIN demand = 1..n /\ \A j \in 1..n : demand[j] \in Nat
  OBVIOUS
<1>4. CASE s.have = 0
  BY <1>4 DEF Serve
<1>5. CASE s.have # 0
  <2>1. d \in Nat /\ a \in Nat /\ a <= d
    BY <1>1, <1>2, <1>3
  <2>2. x \in Nat /\ x <= s.have /\ a + x <= d
    <3> DEFINE e == s.have \div 8
               m == Max({1, e})
    <3>1. e \in Nat /\ e <= s.have
      BY <1>2
    <3>2. m = IF 1 >= e THEN 1 ELSE e
      BY <3>1, MaxOfTwo
    <3> HIDE DEF e
    <3>3. m \in Nat /\ m <= s.have
      BY <1>2, <1>5, <3>1, <3>2
    <3>4. d - a \in Nat
      BY <2>1
    <3>5. x = Min({m, d - a})
      BY DEF Portion, e
    <3> HIDE DEF m, x, d, a
    <3>6. x = IF m <= d - a THEN m ELSE d - a
      BY <3>3, <3>4, <3>5, MinOfTwo
    <3> QED
      BY <1>2, <2>1, <3>3, <3>4, <3>6
  <2>3. Serve(s, demand, i) = t
    BY <1>5 DEF Serve
  <2> HIDE DEF x, d
  <2>4. /\ g \in Seq(Nat) /\ DOMAIN g = DOMAIN demand
        /\ g[i] = a + x /\ \A j \in DOMAIN demand \ {i} : g[j] = f[j]
    BY <1>1, <1>2, <1>3, <2>1, <2>2, SMTT(30)
  <2>5. \A j \in DOMAIN demand : g[j] <= demand[j]
    BY <1>1, <2>2, <2>4 DEF d
  <2>6. IsFiniteSet(DOMAIN demand) /\ Numbers(f, DOMAIN demand)
    <3>1. IsFiniteSet(DOMAIN demand)
      BY <1>3, FS_Interval
    <3>2. \A j \in DOMAIN demand : f[j] \in Int
      BY <1>1, <1>2
    <3> HIDE DEF f
    <3> QED
      BY <3>1, <3>2 DEF Numbers
  <2>7. g[i] \in Int
    BY <2>1, <2>2, <2>4
  <2> HIDE DEF g, f, n
  <2>8. SumOf(g, DOMAIN demand) = SumOf(f, DOMAIN demand) + (g[i] - f[i])
    BY ONLY <2>4, <2>6, <2>7, SumChange, i \in DOMAIN demand
  <2>9. SumOf(f, DOMAIN demand) \in Int
    BY <2>6, SumIsNumber
  <2>10. g[i] - f[i] = x
    BY <2>1, <2>2, <2>4 DEF f
  <2>11. (s.have - x) + SumOf(g, DOMAIN demand) = have
    BY <1>1, <1>2, <2>2, <2>8, <2>9, <2>10
  <2>12. t.have = s.have - x /\ t.alloc = g
    OBVIOUS
  <2>13. t \in Shares
    BY <1>2, <2>2, <2>4 DEF Shares
  <2> HIDE DEF t
  <2> QED
    BY <2>3, <2>4, <2>5, <2>11, <2>12, <2>13 DEF Parted
<1> QED
  BY <1>4, <1>5

LEMMA RoundKeepsParted ==
    ASSUME NEW have \in Nat, NEW demand \in Seq(Nat), NEW s \in Parted(have, demand)
    PROVE  Round(s, demand) \in Parted(have, demand)
<1> DEFINE n == Len(demand)
           V == Parted(have, demand)
           serve(i) == [t \in Shares |-> Serve(t, demand, i)]
           steps == [i \in DOMAIN demand |-> serve(i)]
<1>1. n \in Nat /\ DOMAIN demand = 1..n /\ DOMAIN steps = 1..n
  OBVIOUS
<1>2. \A i \in 1..n, t \in V : steps[i][t] = Serve(t, demand, i)
  BY <1>1 DEF Parted
<1>3. \A i \in 1..n, t \in V : steps[i][t] \in V
  BY <1>1, <1>2, ServeKeepsParted
<1>4. Round(s, demand) = Along(s, steps)
  BY DEF Round
<1> HIDE DEF steps, V, n
<1>5. s \in V
  BY DEF V
<1>6. Along(s, steps) \in V
  BY <1>1, <1>3, <1>5, AlongStays
<1> QED
  BY <1>4, <1>6 DEF V

\* Nobody is allocated more than he lacks, nor all together more than there is.
LEMMA AllocationFits ==
    ASSUME NEW have \in Nat, NEW demand \in Seq(Nat)
    PROVE  /\ Allocation(have, demand) \in Seq(Nat)
           /\ DOMAIN Allocation(have, demand) = DOMAIN demand
           /\ \A i \in DOMAIN demand : Allocation(have, demand)[i] <= demand[i]
           /\ SumOf(Allocation(have, demand), DOMAIN demand) <= have
<1> DEFINE start == [have |-> have, alloc |-> [i \in DOMAIN demand |-> 0]]
           next == [s \in Shares |->
                      IF s.have > 0 /\ Total(s.alloc) < Total(demand) THEN Round(s, demand) ELSE s]
           steps == [n \in 1..have |-> next]
           V == Parted(have, demand)
           end == Along(start, steps)
<1>1. Allocation(have, demand) = end.alloc
  BY DEF Allocation
<1>2. start \in V
  <2> DEFINE z == start.alloc
  <2>1. start \in Shares /\ start.have = have /\ DOMAIN z = DOMAIN demand
    BY DEF Shares
  <2>2. \A i \in DOMAIN demand : z[i] = 0
    OBVIOUS
  <2>3. IsFiniteSet(DOMAIN demand)
    BY FS_Interval
  <2>0. 0 \in Int
    OBVIOUS
  <2> HIDE DEF z
  <2>4. Numbers(z, {}) /\ {} \in SUBSET DOMAIN demand
    BY DEF Numbers
  <2>5. SumOf(z, DOMAIN demand) = SumOf(z, {})
    BY <2>2, <2>3, <2>4, SumOfZeros
  <2>6. SumOf(z, DOMAIN demand) = 0
    BY <2>5, SumOfNone
  <2>7. start.have + SumOf(start.alloc, DOMAIN demand) = have
    BY <2>1, <2>6 DEF z
  <2>8. \A i \in DOMAIN demand : z[i] <= demand[i]
    BY <2>2
  <2> HIDE DEF start
  <2> QED
    BY <2>1, <2>7, <2>8 DEF Parted, z
<1>3. \A n \in 1..have, s \in V : steps[n][s] = IF s.have > 0 /\ Total(s.alloc) < Total(demand)
                                                THEN Round(s, demand) ELSE s
  BY DEF Parted
<1> HIDE DEF V, steps, start
<1>4. \A n \in 1..have, s \in V : steps[n][s] \in V
  BY <1>3, RoundKeepsParted DEF V
<1>5. DOMAIN steps = 1..have
  BY DEF steps
<1>6. end \in V
  BY <1>2, <1>4, <1>5, AlongStays
<1> HIDE DEF end
<1>7. /\ end \in Shares /\ DOMAIN end.alloc = DOMAIN demand
      /\ \A i \in DOMAIN demand : end.alloc[i] <= demand[i]
      /\ end.have + SumOf(end.alloc, DOMAIN demand) = have
  BY <1>6 DEF V, Parted
<1>8. end.have \in Nat /\ end.alloc \in Seq(Nat)
  BY <1>7 DEF Shares
<1>9. IsFiniteSet(DOMAIN demand) /\ Numbers(end.alloc, DOMAIN demand)
  BY <1>7, <1>8, FS_Interval DEF Numbers
<1>10. SumOf(end.alloc, DOMAIN demand) \in Int
  BY <1>9, SumIsNumber
<1>11. SumOf(end.alloc, DOMAIN demand) <= have
  BY <1>7, <1>8, <1>10
<1> QED
  BY <1>1, <1>7, <1>8, <1>11

-----------------------------------------------------------------------------
(* Sorting. *)

\* Inserting o keeps elements of S apart and adds o to them.
LEMMA InsertKeepsApart ==
    ASSUME NEW S, NEW sorted \in Seq(S), NEW o \in S, NEW T, NEW n \in 1..(Len(sorted) + 1),
           IsInjective(sorted), \A i \in DOMAIN sorted : sorted[i] \in T, o \notin T
    PROVE  /\ InsertAt(sorted, n, o) \in Seq(S)
           /\ IsInjective(InsertAt(sorted, n, o))
           /\ \A i \in DOMAIN InsertAt(sorted, n, o) : InsertAt(sorted, n, o)[i] \in T \cup {o}
<1> DEFINE m == Len(sorted)
           r == InsertAt(sorted, n, o)
           a == SubSeq(sorted, 1, n - 1)
           b == SubSeq(sorted, n, m)
<1>1. m \in Nat /\ DOMAIN sorted = 1..m /\ n \in Nat /\ n >= 1 /\ n <= m + 1
  OBVIOUS
<1>2. a \in Seq(S) /\ Len(a) = n - 1 /\ \A i \in 1..(n - 1) : a[i] = sorted[i]
  BY <1>1
<1>3. b \in Seq(S) /\ Len(b) = m - n + 1 /\ \A i \in 1..(m - n + 1) : b[i] = sorted[n + i - 1]
  BY <1>1
<1>4. r = a \o <<o>> \o b
  BY DEF InsertAt
<1> HIDE DEF a, b, r, m
<1> DEFINE c == a \o <<o>>
<1>5. c \in Seq(S) /\ Len(c) = n /\ c[n] = o /\ \A i \in 1..(n - 1) : c[i] = sorted[i]
  BY <1>1, <1>2
<1> HIDE DEF c
<1>6. r = c \o b
  BY <1>4 DEF c
<1>7. r \in Seq(S) /\ Len(r) = m + 1
  <2>0. c \in Seq(S) /\ b \in Seq(S)
    BY <1>3, <1>5
  <2>1. c \o b \in Seq(S)
    BY <2>0
  <2>2. Len(c \o b) = Len(c) + Len(b)
    BY ONLY <2>0
  <2>3. n + (m - n + 1) = m + 1
    BY <1>1
  <2> QED
    BY <1>3, <1>5, <1>6, <2>1, <2>2, <2>3
<1>8. \A i \in 1..(m + 1) : r[i] = IF i < n THEN sorted[i] ELSE IF i = n THEN o ELSE sorted[i - 1]
  <2> SUFFICES ASSUME NEW i \in 1..(m + 1)
               PROVE  r[i] = IF i < n THEN sorted[i] ELSE IF i = n THEN o ELSE sorted[i - 1]
    OBVIOUS
  <2>1. CASE i <= n
    BY <1>1, <1>3, <1>5, <1>6, <2>1
  <2>2. CASE i > n
    <3>1. r[i] = b[i - n]
      BY <1>1, <1>3, <1>5, <1>6, <2>2
    <3>2. i - n \in 1..(m - n + 1) /\ n + (i - n) - 1 = i - 1
      BY <1>1, <2>2
    <3> QED
      BY <1>1, <1>3, <2>2, <3>1, <3>2
  <2> QED
    BY <1>1, <2>1, <2>2
<1>9. DOMAIN r = 1..(m + 1)
  BY <1>7
<1>10. \A i \in 1..(m + 1) : i # n => /\ r[i] = sorted[IF i < n THEN i ELSE i - 1]
                                      /\ (IF i < n THEN i ELSE i - 1) \in 1..m
  BY <1>1, <1>8
<1>11. \A i \in 1..(m + 1) : IF i = n THEN r[i] = o ELSE r[i] \in T
  BY <1>1, <1>8, <1>10
<1>12. ASSUME NEW i \in 1..(m + 1), NEW j \in 1..(m + 1), r[i] = r[j] PROVE i = j
  <2>1. CASE i = n \/ j = n
    BY <1>11, <1>12, <2>1
  <2>2. CASE i # n /\ j # n
    <3>1. (IF i < n THEN i ELSE i - 1) = (IF j < n THEN j ELSE j - 1)
      BY <1>1, <1>10, <1>12, <2>2 DEF IsInjective
    <3> QED
      BY <1>1, <2>2, <3>1
  <2> QED
    BY <2>1, <2>2
<1> QED
  BY <1>7, <1>9, <1>11, <1>12 DEF r, IsInjective

\* Sorting the objectives in S adds none, puts nothing in their place and lists none twice.
LEMMA SortedAreInS ==
    ASSUME NEW S \in SUBSET Objectives, NEW st
    PROVE  ByStock(S, st) \in Seq(S) /\ IsInjective(ByStock(S, st))
<1> DEFINE with(o) == [sorted \in Seq(S) |-> InsertAt(sorted, Place(o, sorted, st), o)]
           IsIt(it) == it = [T \in SUBSET S |-> IF T = {} THEN <<>>
                                                ELSE with(Pick(T))[it[T \ {Pick(T)}]]]
           choose == [T \in SUBSET S |-> Pick(T)]
           op == [p \in S \X Seq(S) |-> with(p[1])[p[2]]]
<1>1. IsFiniteSet(S)
  BY LogisticsConstants, FS_Subset
<1>2. \A o \in S, sorted \in Seq(S) : Place(o, sorted, st) \in 1..(Len(sorted) + 1)
  <2> SUFFICES ASSUME NEW o \in S, NEW sorted \in Seq(S)
               PROVE  Place(o, sorted, st) \in 1..(Len(sorted) + 1)
    OBVIOUS
  <2> DEFINE before == {i \in DOMAIN sorted : Before(sorted[i], o, st)}
  <2>1. DOMAIN sorted = 1..Len(sorted) /\ Len(sorted) \in Nat
    OBVIOUS
  <2>2. IsFiniteSet(1..Len(sorted)) /\ Cardinality(1..Len(sorted)) = Len(sorted)
    BY <2>1, FS_Interval
  <2>3. before \subseteq 1..Len(sorted)
    BY <2>1
  <2>4. Cardinality(before) \in Nat /\ Cardinality(before) <= Len(sorted)
    <3> HIDE DEF before
    <3> QED
      BY <2>2, <2>3, FS_Subset, FS_CardinalityType
  <2> QED
    BY <2>1, <2>4 DEF Place
<1>3. \A o \in S, sorted \in Seq(S) : InsertAt(sorted, Place(o, sorted, st), o) \in Seq(S)
  <2> SUFFICES ASSUME NEW o \in S, NEW sorted \in Seq(S)
               PROVE  InsertAt(sorted, Place(o, sorted, st), o) \in Seq(S)
    OBVIOUS
  <2> DEFINE n == Place(o, sorted, st)
  <2>1. n \in 1..(Len(sorted) + 1) /\ Len(sorted) \in Nat
    BY <1>2
  <2> HIDE DEF n
  <2>2. SubSeq(sorted, 1, n - 1) \in Seq(S) /\ SubSeq(sorted, n, Len(sorted)) \in Seq(S)
    BY <2>1
  <2>3. <<o>> \in Seq(S)
    OBVIOUS
  <2>4. SubSeq(sorted, 1, n - 1) \o <<o>> \in Seq(S)
    BY <2>2, <2>3
  <2>5. InsertAt(sorted, n, o) \in Seq(S)
    BY <2>2, <2>4 DEF InsertAt
  <2> QED
    BY <2>5 DEF n
<1>4. ByStock(S, st) = (CHOOSE it : IsIt(it))[S]
  BY DEF ByStock, FoldSet, MapThenFoldSet, Pick
<1>5. \A o \in S, s \in Seq(S) : /\ with(o)[s] = InsertAt(s, Place(o, s, st), o)
                                 /\ with(o)[s] \in Seq(S)
  BY <1>3
<1> HIDE DEF with
<1>6. op \in [S \X Seq(S) -> Seq(S)] /\ \A o \in S, s \in Seq(S) : op[<<o, s>>] = with(o)[s]
  BY <1>5
<1>7. Chooses(choose, S) /\ \A T \in SUBSET S : choose[T] = Pick(T)
  BY PickIsThere DEF Chooses
<1>8. <<>> \in Seq(S)
  OBVIOUS
<1> HIDE DEF op, choose
<1>9. \A T \in SUBSET S, s \in Seq(S) : T # {} => op[<<choose[T], s>>] = with(Pick(T))[s]
  BY <1>6, <1>7 DEF Chooses
<1>10. \E it : IsIt(it)
  <2>1. PICK it \in [SUBSET S -> Seq(S)] : IsFold(it, S, <<>>, choose, op)
    BY <1>1, <1>6, <1>7, <1>8, FoldExists
  <2>2. it = [T \in SUBSET S |-> IF T = {} THEN <<>> ELSE op[<<choose[T], it[T \ {choose[T]}]>>]]
    BY <2>1 DEF IsFold
  <2>3. ASSUME NEW T \in SUBSET S, T # {}
        PROVE  op[<<choose[T], it[T \ {choose[T]}]>>] = with(Pick(T))[it[T \ {Pick(T)}]]
    <3>1. T \ {Pick(T)} \in SUBSET S /\ choose[T] = Pick(T)
      BY <1>7
    <3>2. it[T \ {Pick(T)}] \in Seq(S)
      BY <3>1
    <3> QED
      BY <1>9, <2>3, <3>1, <3>2
  <2>4. it = [T \in SUBSET S |-> IF T = {} THEN <<>> ELSE with(Pick(T))[it[T \ {Pick(T)}]]]
    BY <2>2, <2>3
  <2>5. IsIt(it)
    BY <2>4
  <2> QED
    BY <2>5
<1> DEFINE it == CHOOSE it : IsIt(it)
<1>11. IsIt(it)
  BY <1>10
<1> HIDE DEF it
<1>12. FoldsIn(it, S, Seq(S), <<>>, choose, op)
  <2>1. it[{}] = <<>>
    BY <1>11
  <2>2. \A T \in SUBSET S : T # {} => it[T] = with(Pick(T))[it[T \ {Pick(T)}]]
    BY <1>11
  <2>3. ASSUME NEW T \in SUBSET S, T # {}, it[T \ {choose[T]}] \in Seq(S)
        PROVE  it[T] = op[<<choose[T], it[T \ {choose[T]}]>>]
    <3>1. choose[T] = Pick(T)
      BY <1>7
    <3> QED
      BY <1>9, <2>2, <2>3, <3>1
  <2> QED
    BY <2>1, <2>3 DEF FoldsIn
<1> DEFINE R == {p \in Seq(S) \X SUBSET S : /\ IsInjective(p[1])
                                            /\ \A i \in DOMAIN p[1] : p[1][i] \in p[2]}
<1>13. <<<<>>, {}>> \in R
  <2> DEFINE e == <<>>
  <2>1. e \in Seq(S) /\ DOMAIN e = {}
    OBVIOUS
  <2>2. IsInjective(e)
    BY <2>1 DEF IsInjective
  <2> HIDE DEF e
  <2>3. <<e, {}>> \in R
    BY <2>1, <2>2
  <2> QED
    BY <2>3 DEF e
<1>14. KeptBy(R, S, Seq(S), op)
  <2> SUFFICES ASSUME NEW T \in SUBSET S, NEW x \in S, NEW s \in Seq(S),
                      x \notin T, <<s, T>> \in R
               PROVE  op[<<x, s>>] \in Seq(S) /\ <<op[<<x, s>>], T \cup {x}>> \in R
    BY DEF KeptBy
  <2> DEFINE n == Place(x, s, st)
  <2>1. op[<<x, s>>] = InsertAt(s, n, x)
    BY <1>5, <1>6
  <2>2. n \in 1..(Len(s) + 1)
    BY <1>2
  <2>3. IsInjective(s) /\ \A i \in DOMAIN s : s[i] \in T
    OBVIOUS
  <2> HIDE DEF n
  <2> DEFINE r == InsertAt(s, n, x)
  <2>4. /\ r \in Seq(S) /\ IsInjective(r)
        /\ \A i \in DOMAIN r : r[i] \in T \cup {x}
    BY <2>2, <2>3, InsertKeepsApart
  <2>5. T \cup {x} \in SUBSET S
    OBVIOUS
  <2> HIDE DEF r
  <2>6. <<r, T \cup {x}>> \in R
    BY <2>4, <2>5
  <2> QED
    BY <2>1, <2>4, <2>6 DEF r
<1> HIDE DEF R
<1>15. it[S] \in Seq(S) /\ <<it[S], S>> \in R
  BY <1>1, <1>7, <1>8, <1>12, <1>13, <1>14, FoldKeeps
<1> QED
  BY <1>4, <1>15 DEF it, R

-----------------------------------------------------------------------------
(* What a hub gives. *)

\* What the customers lack, and what the i-th of them gets.
Demands(customers, own, st) ==
    [i \in DOMAIN customers |-> Demand(st[customers[i]], Capacity(customers[i], own[customers[i]]))]

Share(h, customers, alloc, i) == [from |-> h, to |-> customers[i], amount |-> alloc[i]]

Given(trs, h, customers, alloc, i) ==
    IF alloc[i] > 0 THEN Append(trs, Share(h, customers, alloc, i)) ELSE trs

\* The transfers are put together one customer after the other.
LEMMA DividedRuns ==
    ASSUME NEW h, NEW X, NEW customers \in Seq(X), NEW own, NEW st,
           NEW alloc, alloc = Allocation(st[h], Demands(customers, own, st)), NEW V, <<>> \in V,
           \A i \in 1..Len(customers), v \in V : Given(v, h, customers, alloc, i) \in V
    PROVE  \E run \in [0..Len(customers) -> V] :
              /\ run[0] = <<>> /\ run[Len(customers)] = Divided(h, customers, own, st)
              /\ \A i \in 1..Len(customers) : run[i] = Given(run[i - 1], h, customers, alloc, i)
<1> DEFINE n == Len(customers)
           IsIt(it) == it = [T \in SUBSET (1..n) |->
                               IF T = {} THEN <<>>
                               ELSE Given(it[T \ {Max(T)}], h, customers, alloc, Max(T))]
           it == CHOOSE f : IsIt(f)
           op == [p \in (1..n) \X V |-> Given(p[2], h, customers, alloc, p[1])]
           ids == [i \in DOMAIN customers |-> i]
           Raw(g) == g = [T \in SUBSET DOMAIN ids |->
                              IF T = {} THEN <<>>
                              ELSE Given(g[T \ {Max(T)}], h, customers, alloc, ids[Max(T)])]
<1>0. Divided(h, customers, own, st) = (CHOOSE f : Raw(f))[DOMAIN ids]
  BY DEF Divided, FoldLeftDomain, FoldLeft, MapThenFoldSet, Given, Share, Demands
<1>1. Divided(h, customers, own, st) = it[1..n]
  <2>1. n \in Nat /\ DOMAIN ids = 1..n /\ \A i \in 1..n : ids[i] = i
    OBVIOUS
  <2> HIDE DEF ids, n
  <2>2. \A T \in SUBSET (1..n) : T # {} => ids[Max(T)] = Max(T)
    BY <2>1, LastIsThere
  <2> DEFINE Body(f, T, k) == IF T = {} THEN <<>>
                              ELSE Given(f[T \ {Max(T)}], h, customers, alloc, k)
  <2>3. \A f : \A T \in SUBSET (1..n) : Body(f, T, ids[Max(T)]) = Body(f, T, Max(T))
    <3> SUFFICES ASSUME NEW f, NEW T \in SUBSET (1..n)
                 PROVE  Body(f, T, ids[Max(T)]) = Body(f, T, Max(T))
      OBVIOUS
    <3>1. CASE T = {}
      BY <3>1
    <3>2. CASE T # {}
      BY <2>2, <3>2
    <3> QED BY <3>1, <3>2
  <2>4. \A f : Raw(f) <=> f = [T \in SUBSET (1..n) |-> Body(f, T, ids[Max(T)])]
    BY ONLY <2>1
  <2>5. \A f : IsIt(f) <=> f = [T \in SUBSET (1..n) |-> Body(f, T, Max(T))]
    OBVIOUS
  <2> HIDE DEF Raw, IsIt, Body
  <2>6. \A f : Raw(f) <=> IsIt(f)
    BY <2>3, <2>4, <2>5
  <2> QED
    BY <1>0, <2>1, <2>6
<1>2. n \in Nat /\ <<>> \in V
  OBVIOUS
<1>3. \A T \in SUBSET (1..n) : T # {} => Max(T) \in 1..n
  <2> HIDE DEF n
  <2> QED
    BY <1>2, LastIsThere
<1>4. /\ op \in [(1..n) \X V -> V]
      /\ \A i \in 1..n, v \in V : op[<<i, v>>] = Given(v, h, customers, alloc, i)
  OBVIOUS
<1> HIDE DEF n, op
<1>5. PICK f \in [SUBSET (1..n) -> V] : IsOrdered(f, n, <<>>, op)
  <2> HIDE DEF IsIt, it
  <2> QED
    BY ONLY <1>2, <1>4, FoldInOrder
<1>6. \A T \in SUBSET (1..n) : T # {} => op[<<Max(T), f[T \ {Max(T)}]>>]
                                          = Given(f[T \ {Max(T)}], h, customers, alloc, Max(T))
  <2> HIDE DEF IsIt, it
  <2>1. \A T \in SUBSET (1..n) : f[T \ {Max(T)}] \in V
    OBVIOUS
  <2> QED
    BY <1>3, <1>4, <2>1
<1>7. IsIt(f)
  BY <1>5, <1>6 DEF IsOrdered
<1>8. IsIt(it)
  <2> HIDE DEF IsIt
  <2> QED
    BY <1>7
<1>9. Ordered(it, n, V, <<>>, op)
  <2> HIDE DEF it
  <2>1. it[{}] = <<>>
    BY <1>8
  <2>2. \A T \in SUBSET (1..n) : T # {} =>
           it[T] = Given(it[T \ {Max(T)}], h, customers, alloc, Max(T))
    BY <1>8
  <2> HIDE DEF IsIt
  <2> QED
    BY <1>3, <1>4, <2>1, <2>2 DEF Ordered
<1>10. PICK run : Runs(run, n, V, <<>>, op, it[1..n])
  <2> HIDE DEF IsIt, it
  <2> QED
    BY ONLY <1>2, <1>4, <1>9, FoldRuns
<1>11. \A i \in 1..n : run[i] = Given(run[i - 1], h, customers, alloc, i)
  <2> HIDE DEF IsIt, it
  <2> QED
    BY <1>4, <1>10 DEF Runs
<1> QED
  BY <1>1, <1>10, <1>11 DEF Runs, n

\* What a hub gives goes to its customers.
LEMMA SharesGoToCustomers ==
    ASSUME NEW h, NEW X, NEW customers \in Seq(X), NEW own, NEW st
    PROVE  \E A : Divided(h, customers, own, st) \in Seq([from : {h}, to : X, amount : A])
<1> DEFINE alloc == Allocation(st[h], Demands(customers, own, st))
           n == Len(customers)
           R == [from : {h}, to : X, amount : {alloc[i] : i \in 1..n}]
           V == Seq(R)
<1>1. \A i \in 1..n : Share(h, customers, alloc, i) \in R
  BY DEF Share
<1> HIDE DEF R, alloc
<1>2. \A i \in 1..n, trs \in V : Given(trs, h, customers, alloc, i) \in V
  BY <1>1 DEF Given
<1>3. <<>> \in V /\ n \in Nat
  OBVIOUS
<1> HIDE DEF V
<1>4. alloc = Allocation(st[h], Demands(customers, own, st))
  BY DEF alloc
<1>5. PICK run \in [0..n -> V] : run[n] = Divided(h, customers, own, st)
  BY <1>2, <1>3, <1>4, DividedRuns
<1>6. Divided(h, customers, own, st) \in V
  BY <1>3, <1>5
<1> QED
  BY <1>6 DEF V, R

\* The k-th transfer is the share of customer pos[k], for the first customers up to i.
Traced(trs, pos, i, h, customers, alloc) ==
    /\ pos \in [1..Len(trs) -> 1..i]
    /\ \A k, l \in 1..Len(trs) : pos[k] = pos[l] => k = l
    /\ \A k \in 1..Len(trs) : trs[k] = Share(h, customers, alloc, pos[k]) /\ alloc[pos[k]] > 0

Amounts(trs) == [k \in DOMAIN trs |-> trs[k].amount]

\* Nobody is sent more than he has room for, nobody is sent anything twice, and all that is sent
\* is there.
FitsTo(trs, h, X, own, st) ==
    /\ trs \in Seq([from : {h}, to : X, amount : Nat])
    /\ \A k, l \in 1..Len(trs) : trs[k].to = trs[l].to => k = l
    /\ \A k \in 1..Len(trs) :
          /\ trs[k].amount > 0
          /\ trs[k].amount <= Demand(st[trs[k].to], Capacity(trs[k].to, own[trs[k].to]))
    /\ SumOf(Amounts(trs), 1..Len(trs)) <= st[h]

LEMMA DividedFits ==
    ASSUME NEW h, NEW X, NEW customers \in Seq(X), NEW own, NEW st, st[h] \in Nat,
           \A x \in X : st[x] \in Nat /\ Capacity(x, own[x]) \in Nat,
           IsInjective(customers)
    PROVE  FitsTo(Divided(h, customers, own, st), h, X, own, st)
<1> DEFINE n == Len(customers)
           demand == Demands(customers, own, st)
           alloc == Allocation(st[h], demand)
           R == [from : {h}, to : X, amount : Nat]
           V == Seq(R)
           trs == Divided(h, customers, own, st)
<1>1. n \in Nat /\ DOMAIN customers = 1..n /\ \A i \in 1..n : customers[i] \in X
  OBVIOUS
<1>2. demand \in Seq(Nat) /\ DOMAIN demand = 1..n
  <2>1. \A x \in X : Demand(st[x], Capacity(x, own[x])) \in Nat
    BY DEF Demand
  <2> QED
    BY <1>1, <2>1 DEF Demands
<1> HIDE DEF demand
<1>3. /\ alloc \in Seq(Nat) /\ DOMAIN alloc = 1..n
      /\ \A i \in 1..n : alloc[i] <= demand[i]
      /\ SumOf(alloc, 1..n) <= st[h]
  BY <1>2, AllocationFits
<1>4. \A i \in 1..n : alloc[i] \in Nat
  BY <1>3
<1> HIDE DEF alloc, n
<1>5. \A i \in 1..n : Share(h, customers, alloc, i) \in R
  BY <1>1, <1>4 DEF Share
<1> HIDE DEF R
<1>6. \A i \in 1..n, v \in V : Given(v, h, customers, alloc, i) \in V
  BY <1>5 DEF Given
<1>7. <<>> \in V /\ alloc = Allocation(st[h], Demands(customers, own, st))
  BY DEF alloc, demand
<1> HIDE DEF V
<1>8. PICK run \in [0..n -> V] :
         /\ run[0] = <<>> /\ run[n] = trs
         /\ \A i \in 1..n : run[i] = Given(run[i - 1], h, customers, alloc, i)
  BY <1>6, <1>7, DividedRuns DEF n
<1> HIDE DEF trs
<1> DEFINE P == {i \in 0..n : \E pos : Traced(run[i], pos, i, h, customers, alloc)}
<1>9. 0 \in P
  <2> DEFINE e == [k \in {} |-> 0]
  <2>1. 1..0 = {} /\ 0 \in 0..n /\ Len(run[0]) = 0
    BY <1>1, <1>8
  <2>2. e \in [1..Len(run[0]) -> 1..0]
    BY <2>1
  <2> HIDE DEF e
  <2>3. Traced(run[0], e, 0, h, customers, alloc)
    BY <2>1, <2>2 DEF Traced
  <2> QED
    BY <2>1, <2>3
<1>10. ASSUME NEW i \in 1..n, i - 1 \in P PROVE i \in P
  <2> DEFINE old == run[i - 1]
             m == Len(old)
             new == run[i]
             share == Share(h, customers, alloc, i)
  <2>1. PICK pos : Traced(old, pos, i - 1, h, customers, alloc)
    BY <1>10
  <2>2. i \in 0..n /\ i - 1 \in 0..n
    BY <1>1
  <2>3. old \in Seq(R) /\ share \in R
    BY <1>5, <1>8, <2>2 DEF V
  <2>4. m \in Nat
    BY <2>3
  <2>5. new = IF alloc[i] > 0 THEN Append(old, share) ELSE old
    BY <1>8 DEF Given
  <2> HIDE DEF old, new, share
  <2>6. /\ pos \in [1..m -> 1..(i - 1)]
        /\ \A k, l \in 1..m : pos[k] = pos[l] => k = l
        /\ \A k \in 1..m : old[k] = Share(h, customers, alloc, pos[k]) /\ alloc[pos[k]] > 0
    BY <2>1 DEF Traced
  <2>7. CASE ~(alloc[i] > 0)
    <3>1. Traced(new, pos, i, h, customers, alloc)
      BY <2>5, <2>6, <2>7 DEF Traced
    <3> QED
      BY <2>2, <3>1 DEF new
  <2>8. CASE alloc[i] > 0
    <3> DEFINE q == [k \in 1..(m + 1) |-> IF k = m + 1 THEN i ELSE pos[k]]
    <3>1. new = Append(old, share)
      BY <2>5, <2>8
    <3>2. Len(new) = m + 1 /\ new[m + 1] = share /\ \A k \in 1..m : new[k] = old[k]
      <4>1. Len(Append(old, share)) = m + 1 /\ Append(old, share)[m + 1] = share
        BY <2>3
      <4>2. \A k \in 1..m : Append(old, share)[k] = old[k]
        BY <2>3
      <4> QED
        BY <3>1, <4>1, <4>2
    <3> HIDE DEF m
    <3>3. q \in [1..(m + 1) -> 1..i]
      BY <2>4, <2>6
    <3>4. \A k, l \in 1..(m + 1) : q[k] = q[l] => k = l
      <4>1. \A k \in 1..m : pos[k] # i
        BY <2>6
      <4> QED
        BY <2>4, <2>6, <4>1
    <3>5. \A k \in 1..(m + 1) : new[k] = Share(h, customers, alloc, q[k]) /\ alloc[q[k]] > 0
      <4>1. q[m + 1] = i /\ \A k \in 1..m : q[k] = pos[k]
        BY <2>4
      <4> HIDE DEF q
      <4>2. new[m + 1] = Share(h, customers, alloc, q[m + 1]) /\ alloc[q[m + 1]] > 0
        BY <2>8, <3>2, <4>1 DEF share
      <4>3. \A k \in 1..m : new[k] = Share(h, customers, alloc, q[k]) /\ alloc[q[k]] > 0
        BY <2>6, <3>2, <4>1
      <4>4. \A k \in 1..(m + 1) : k = m + 1 \/ k \in 1..m
        BY <2>4
      <4> QED
        BY <4>2, <4>3, <4>4
    <3> HIDE DEF q
    <3>6. Traced(new, q, i, h, customers, alloc)
      BY <3>2, <3>3, <3>4, <3>5 DEF Traced
    <3> QED
      BY <2>2, <3>6 DEF new
  <2> QED
    BY <2>7, <2>8
<1>11. \A i \in 0..n : i \in P
  <2> HIDE DEF P
  <2> QED
    BY <1>1, <1>9, <1>10, Stepwise
<1>12. PICK pos : Traced(trs, pos, n, h, customers, alloc)
  BY <1>1, <1>8, <1>11
<1> HIDE DEF P
<1> DEFINE m == Len(trs)
<1>13. trs \in Seq(R) /\ m \in Nat /\ DOMAIN trs = 1..m
  <2>1. trs \in Seq(R)
    BY <1>1, <1>8 DEF V
  <2> QED
    BY <2>1
<1> HIDE DEF m
<1>14. /\ pos \in [1..m -> 1..n]
       /\ \A k, l \in 1..m : pos[k] = pos[l] => k = l
       /\ \A k \in 1..m : trs[k] = Share(h, customers, alloc, pos[k]) /\ alloc[pos[k]] > 0
  BY <1>12 DEF Traced, m
<1>15. \A k \in 1..m : trs[k].to = customers[pos[k]] /\ trs[k].amount = alloc[pos[k]]
  <2> SUFFICES ASSUME NEW k \in 1..m
               PROVE  trs[k].to = customers[pos[k]] /\ trs[k].amount = alloc[pos[k]]
    OBVIOUS
  <2>1. trs[k] = [from |-> h, to |-> customers[pos[k]], amount |-> alloc[pos[k]]]
    BY <1>14 DEF Share
  <2> QED
    BY ONLY <2>1
<1>16. \A k, l \in 1..m : trs[k].to = trs[l].to => k = l
  BY <1>1, <1>14, <1>15 DEF IsInjective
<1>17. \A k \in 1..m :
          /\ trs[k].amount > 0
          /\ trs[k].amount <= Demand(st[trs[k].to], Capacity(trs[k].to, own[trs[k].to]))
  <2>1. \A i \in 1..n : demand[i] = Demand(st[customers[i]], Capacity(customers[i], own[customers[i]]))
    BY <1>1 DEF demand, Demands
  <2>2. \A k \in 1..m : pos[k] \in 1..n
    BY <1>14
  <2> QED
    BY <1>3, <1>14, <1>15, <2>1, <2>2
<1>18. SumOf(Amounts(trs), 1..m) <= st[h]
  <2> DEFINE f == Amounts(trs)
             T == {pos[k] : k \in 1..m}
  <2>1. \A k \in 1..m : f[k] = alloc[pos[k]]
    BY <1>13, <1>15 DEF Amounts
  <2>2. IsFiniteSet(1..m) /\ IsFiniteSet(1..n)
    BY <1>1, <1>13, FS_Interval
  <2>3. Numbers(f, 1..m) /\ Numbers(alloc, 1..n)
    BY <1>4, <1>14, <2>1 DEF Numbers
  <2>4. \A x \in 1..m : alloc[pos[x]] = f[x]
    BY <2>1
  <2>5. T \in SUBSET (1..n)
    BY <1>14
  <2>6. \A x \in (1..n) \ T : alloc[x] >= 0
    BY <1>4
  <2> HIDE DEF f
  <2>7. \A x, y \in 1..m : pos[x] = pos[y] => x = y
    BY <1>14
  <2>8. SumOf(alloc, T) = SumOf(f, 1..m)
    <3>1. SumOf(alloc, Image(pos, 1..m)) = SumOf(f, 1..m)
      <4> HIDE DEF T
      <4> QED
        BY ONLY <2>2, <2>3, <2>4, <2>7, SumRenamed
    <3>2. T = Image(pos, 1..m)
      BY DEF Image
    <3> HIDE DEF T
    <3> QED
      BY <3>1, <3>2
  <2> HIDE DEF T
  <2>9. SumOf(alloc, T) <= SumOf(alloc, 1..n)
    BY <2>2, <2>3, <2>5, <2>6, SumGrows
  <2>10. SumOf(alloc, 1..n) \in Int /\ SumOf(f, 1..m) \in Int
    BY <2>2, <2>3, SumIsNumber
  <2> QED
    BY <1>3, <2>8, <2>9, <2>10 DEF f
<1> QED
  BY <1>13, <1>16, <1>17, <1>18 DEF FitsTo, R, m, trs

-----------------------------------------------------------------------------
(* The plan fits when it is made. *)

\* The places of the transfers that leave h.
Leaving(trs, h) == {k \in 1..Len(trs) : trs[k].from = h}

\* Stocks have room for the transfers, and the hubs have what they are to give.  No objective is
\* sent anything twice.
Sound(trs, ex, own, st) ==
    /\ trs \in Seq(Transfers)
    /\ \A k \in 1..Len(trs) :
          /\ trs[k].from \in Hubs /\ trs[k].to \notin Hubs
          /\ trs[k].to \in ex => st[trs[k].to] + trs[k].amount <= Capacity(trs[k].to, own[trs[k].to])
    /\ \A k, l \in 1..Len(trs) : trs[k].to = trs[l].to => k = l
    /\ \A h \in Hubs : SumOf(Amounts(trs), Leaving(trs, h)) <= st[h]

\* Every transfer comes from the supplier of its target, one of H.
Supplying(trs, H, own) ==
    \A k \in 1..Len(trs) : trs[k].from \in H /\ trs[k].from = Supplier(trs[k].to, own)

LEMMA CapacityIsNumber == \A o, side : Capacity(o, side) \in 0..(Word - 1)
<1>1. /\ Production \in Nat /\ HubMax \in Nat /\ AirbaseMax \in Nat /\ Word \in Nat
      /\ Word > Production * HubMax /\ Word > Production * AirbaseMax
  BY LogisticsConstants
<1> DEFINE a == Production * HubMax
           b == Production * AirbaseMax
<1>2. a \in Nat /\ b \in Nat
  BY <1>1
<1>3. \A o, side : Capacity(o, side) \in {0, a, b}
  BY DEF Capacity
<1>4. a < Word /\ b < Word
  BY <1>1
<1> HIDE DEF a, b
<1> QED
  BY <1>1, <1>2, <1>3, <1>4

\* c is a and then b.
Joins(c, a, b) ==
    /\ Len(a) \in Nat /\ Len(b) \in Nat /\ Len(c) = Len(a) + Len(b)
    /\ \A k \in 1..Len(a) : k \in 1..Len(c) /\ c[k] = a[k]
    /\ \A k \in 1..Len(b) : Len(a) + k \in 1..Len(c) /\ c[Len(a) + k] = b[k]
    /\ \A k \in 1..Len(c) : k \in 1..Len(a) \/ \E j \in 1..Len(b) : k = Len(a) + j

LEMMA OneAfterTheOther ==
    ASSUME NEW X, NEW a \in Seq(X), NEW Y, NEW b \in Seq(Y)
    PROVE  a \o b \in Seq(X \cup Y) /\ Joins(a \o b, a, b)
<1> DEFINE Z == X \cup Y
<1>0. X \subseteq Z /\ Y \subseteq Z
  OBVIOUS
<1> HIDE DEF Z
<1>1. a \in Seq(Z) /\ b \in Seq(Z)
  BY <1>0
<1>2. a \o b \in Seq(Z) /\ Len(a) \in Nat /\ Len(b) \in Nat
  BY ONLY <1>1
<1>3. Len(a \o b) = Len(a) + Len(b)
  BY ONLY <1>1
<1>4. \A k \in 1..Len(a) : k \in 1..Len(a \o b) /\ (a \o b)[k] = a[k]
  BY ONLY <1>1, <1>2, <1>3
<1>5. \A k \in 1..Len(b) : Len(a) + k \in 1..Len(a \o b) /\ (a \o b)[Len(a) + k] = b[k]
  BY ONLY <1>1, <1>2, <1>3
<1>6. \A k \in 1..Len(a \o b) : k \in 1..Len(a) \/ \E j \in 1..Len(b) : k = Len(a) + j
  <2> SUFFICES ASSUME NEW k \in 1..Len(a \o b), k \notin 1..Len(a)
               PROVE  \E j \in 1..Len(b) : k = Len(a) + j
    OBVIOUS
  <2>1. k - Len(a) \in 1..Len(b) /\ k = Len(a) + (k - Len(a))
    BY <1>2, <1>3
  <2> QED
    BY <2>1
<1> QED
  BY <1>2, <1>3, <1>4, <1>5, <1>6 DEF Z, Joins

\* What hub h gives joins what the hubs H give.
LEMMA HubJoins ==
    ASSUME NEW ex \in SUBSET Objectives, NEW own, NEW st \in [Objectives -> Nat],
           NEW H, NEW h \in Hubs \ H,
           NEW a, Sound(a, ex, own, st), Supplying(a, H, own),
           NEW b, FitsTo(b, h, Customers(h, ex, own), own, st)
    PROVE  Sound(a \o b, ex, own, st) /\ Supplying(a \o b, H \cup {h}, own)
<1> DEFINE C == Customers(h, ex, own)
           c == a \o b
           m == Len(a)
           q == Len(b)
           Y == [from : {h}, to : C, amount : Nat]
<1>1. /\ a \in Seq(Transfers)
      /\ \A k \in 1..m :
            /\ a[k].from \in Hubs /\ a[k].to \notin Hubs
            /\ a[k].to \in ex => st[a[k].to] + a[k].amount <= Capacity(a[k].to, own[a[k].to])
      /\ \A k, l \in 1..m : a[k].to = a[l].to => k = l
      /\ \A g \in Hubs : SumOf(Amounts(a), Leaving(a, g)) <= st[g]
  BY DEF Sound
<1>2. \A k \in 1..m : a[k].from \in H /\ a[k].from = Supplier(a[k].to, own)
  BY DEF Supplying
<1>3. /\ b \in Seq(Y)
      /\ \A k, l \in 1..q : b[k].to = b[l].to => k = l
      /\ \A k \in 1..q : b[k].amount > 0
                         /\ b[k].amount <= Demand(st[b[k].to], Capacity(b[k].to, own[b[k].to]))
      /\ SumOf(Amounts(b), 1..q) <= st[h]
  BY DEF FitsTo
<1>4. C \subseteq Objectives /\ Hubs \subseteq Objectives
      /\ \A o \in C : o \in ex /\ o \notin Hubs /\ Supplier(o, own) = h
  BY DEF Customers, Objectives
<1> HIDE DEF C
<1>5. Y \subseteq Transfers
  BY <1>4 DEF Transfers
<1>6. \A k \in 1..q : b[k] \in Y /\ b[k].from = h /\ b[k].to \in C /\ b[k].amount \in Nat
  <2>0. b \in Seq(Y)
    BY <1>3
  <2>1. \A k \in 1..q : b[k] \in Y
    <3> HIDE DEF Y
    <3> QED
      BY ONLY <2>0
  <2> QED
    BY <2>1
<1> HIDE DEF Y
<1>7. /\ c \in Seq(Transfers \cup Y) /\ m \in Nat /\ q \in Nat /\ Len(c) = m + q
      /\ \A k \in 1..m : k \in 1..Len(c) /\ c[k] = a[k]
      /\ \A k \in 1..q : m + k \in 1..Len(c) /\ c[m + k] = b[k]
      /\ \A k \in 1..Len(c) : k \in 1..m \/ \E j \in 1..q : k = m + j
  <2>1. a \in Seq(Transfers) /\ b \in Seq(Y)
    BY <1>1, <1>3
  <2> HIDE DEF Y, c, m, q
  <2>2. a \o b \in Seq(Transfers \cup Y) /\ Joins(a \o b, a, b)
    BY ONLY <2>1, OneAfterTheOther
  <2> QED
    BY <2>2 DEF Joins, c, m, q
<1> HIDE DEF c, m, q
<1>8. c \in Seq(Transfers) /\ DOMAIN c = 1..Len(c) /\ Len(c) \in Nat
  <2>1. Transfers \cup Y = Transfers
    BY <1>5
  <2>2. c \in Seq(Transfers)
    BY <1>7, <2>1
  <2> QED
    BY <2>2
<1>9. \A k \in 1..Len(c) :
         /\ c[k].from \in H \cup {h} /\ c[k].from = Supplier(c[k].to, own)
         /\ c[k].from \in Hubs /\ c[k].to \notin Hubs
         /\ c[k].to \in ex => st[c[k].to] + c[k].amount <= Capacity(c[k].to, own[c[k].to])
  <2> SUFFICES ASSUME NEW k \in 1..Len(c)
               PROVE  /\ c[k].from \in H \cup {h} /\ c[k].from = Supplier(c[k].to, own)
                      /\ c[k].from \in Hubs /\ c[k].to \notin Hubs
                      /\ c[k].to \in ex =>
                            st[c[k].to] + c[k].amount <= Capacity(c[k].to, own[c[k].to])
    OBVIOUS
  <2>1. CASE k \in 1..m
    BY <1>1, <1>2, <1>7, <2>1
  <2>2. ASSUME NEW j \in 1..q, k = m + j
        PROVE  /\ c[k].from \in H \cup {h} /\ c[k].from = Supplier(c[k].to, own)
               /\ c[k].from \in Hubs /\ c[k].to \notin Hubs
               /\ c[k].to \in ex =>
                     st[c[k].to] + c[k].amount <= Capacity(c[k].to, own[c[k].to])
    <3>1. c[k] = b[j]
      BY <1>7, <2>2
    <3> DEFINE o == b[j].to
               n == b[j].amount
               cap == Capacity(o, own[o])
    <3>2. o \in C /\ n \in Nat /\ b[j].from = h
      BY <1>6
    <3>3. n > 0 /\ n <= Demand(st[o], cap)
      BY <1>3
    <3>4. st[o] \in Nat /\ cap \in Nat
      BY <1>4, <3>2, CapacityIsNumber
    <3> HIDE DEF cap, n, o
    <3>5. st[o] + n <= cap
      BY <3>2, <3>3, <3>4 DEF Demand
    <3>6. o \in ex /\ o \notin Hubs /\ Supplier(o, own) = h
      BY <1>4, <3>2
    <3> QED
      BY <3>1, <3>2, <3>5, <3>6 DEF cap, n, o
  <2> QED
    BY <1>7, <2>1, <2>2
<1>10. \A k, l \in 1..Len(c) : c[k].to = c[l].to => k = l
  <2> SUFFICES ASSUME NEW k \in 1..Len(c), NEW l \in 1..Len(c), c[k].to = c[l].to
               PROVE  k = l
    OBVIOUS
  <2>1. c[k].from = c[l].from
    BY <1>9
  <2>2. \A i \in 1..m : c[i].from # h
    BY <1>2, <1>7
  <2>3. \A j \in 1..q : c[m + j].from = h
    BY <1>6, <1>7
  <2>4. CASE k \in 1..m
    <3>1. l \in 1..m
      BY <1>7, <2>1, <2>2, <2>3, <2>4
    <3> QED
      BY <1>1, <1>7, <2>4, <3>1
  <2>5. ASSUME NEW j \in 1..q, k = m + j PROVE k = l
    <3>1. PICK i \in 1..q : l = m + i
      BY <1>7, <2>1, <2>2, <2>3, <2>5
    <3>2. b[j].to = b[i].to
      BY <1>7, <2>5, <3>1
    <3>3. j = i
      BY <1>3, <3>2
    <3> QED
      BY <2>5, <3>1, <3>3
  <2> QED
    BY <1>7, <2>4, <2>5
<1>11. \A k \in 1..Len(c) : Amounts(c)[k] = c[k].amount /\ c[k].amount \in Nat
  <2>1. \A k \in 1..Len(c) : c[k] \in Transfers
    <3>1. c \in Seq(Transfers)
      BY <1>8
    <3> QED
      BY ONLY <3>1
  <2> QED
    BY <1>8, <2>1 DEF Amounts, Transfers
<1>12. ASSUME NEW g \in Hubs PROVE SumOf(Amounts(c), Leaving(c, g)) <= st[g]
  <2>1. CASE g # h
    <3> DEFINE S == Leaving(a, g)
               f == Amounts(a)
               e == Amounts(c)
    <3>1. Leaving(c, g) = S
      <4>1. \A k \in 1..Len(c) : c[k].from = g => k \in 1..m
        <5>1. \A j \in 1..q : c[m + j].from = h
          BY <1>6, <1>7
        <5> QED
          BY <1>7, <2>1, <5>1
      <4>2. \A k \in 1..Len(c) : k \in Leaving(c, g) <=> k \in S
        BY <1>7, <4>1 DEF Leaving, m
      <4> QED
        BY <1>7, <4>2 DEF Leaving, m
    <3>2. IsFiniteSet(1..m) /\ S \subseteq 1..m
      BY <1>7, FS_Interval DEF Leaving, m
    <3>3. IsFiniteSet(S)
      <4> HIDE DEF S
      <4> QED
        BY <3>2, FS_Subset
    <3>4. \A k \in 1..m : f[k] = a[k].amount
      BY <1>1 DEF Amounts, m
    <3>5. \A k \in S : e[k] = f[k]
      BY <1>7, <1>11, <3>2, <3>4
    <3>6. Numbers(f, S)
      BY <1>7, <1>11, <3>2, <3>4 DEF Numbers
    <3> HIDE DEF S, f, e
    <3>7. SumOf(e, S) = SumOf(f, S)
      BY <3>3, <3>5, <3>6, SumSame
    <3>8. SumOf(f, S) <= st[g]
      BY <1>1 DEF f, S
    <3> QED
      BY <3>1, <3>7, <3>8 DEF e
  <2>2. CASE g = h
    <3> DEFINE S == 1..q
               shift == [k \in S |-> m + k]
               f == Amounts(b)
               e == Amounts(c)
    <3>1. Leaving(c, h) = Image(shift, S)
      <4>1. \A k \in 1..Len(c) : c[k].from = h => \E j \in S : k = m + j
        BY <1>2, <1>7
      <4>2. \A j \in S : m + j \in 1..Len(c) /\ c[m + j].from = h
        BY <1>6, <1>7
      <4>3. Image(shift, S) = {m + j : j \in S}
        BY DEF Image
      <4> HIDE DEF S
      <4> QED
        BY <4>1, <4>2, <4>3 DEF Leaving
    <3>2. IsFiniteSet(S)
      BY <1>7, FS_Interval
    <3>3. \A k \in S : f[k] = b[k].amount
      BY <1>3 DEF Amounts, q
    <3>4. \A k \in S : e[m + k] = f[k] /\ f[k] \in Int
      <4> SUFFICES ASSUME NEW k \in S PROVE e[m + k] = f[k] /\ f[k] \in Int
        OBVIOUS
      <4>1. m + k \in 1..Len(c) /\ c[m + k] = b[k]
        BY <1>7
      <4>2. e[m + k] = c[m + k].amount
        BY <1>11, <4>1
      <4> HIDE DEF e, f
      <4>3. b[k].amount \in Int
        BY <1>6
      <4> QED
        BY <3>3, <4>1, <4>2, <4>3
    <3>5. Numbers(f, S) /\ \A x \in S : e[shift[x]] = f[x]
      BY <3>4 DEF Numbers
    <3>6. \A x, y \in S : shift[x] = shift[y] => x = y
      BY <1>7
    <3>7. SumOf(f, S) <= st[h]
      BY <1>3
    <3> HIDE DEF S, f, e, shift
    <3>8. SumOf(e, Image(shift, S)) = SumOf(f, S)
      BY <3>2, <3>5, <3>6, SumRenamed
    <3> QED
      BY <2>2, <3>1, <3>7, <3>8 DEF e
  <2> QED
    BY <2>1, <2>2
<1>13. Sound(c, ex, own, st)
  BY <1>8, <1>9, <1>10, <1>12 DEF Sound
<1>14. Supplying(c, H \cup {h}, own)
  BY <1>9 DEF Supplying
<1> QED
  BY <1>13, <1>14 DEF c
\* The plan is put together hub by hub.
With(trs, i, ex, own, st) == trs \o PlanFrom(HubsInOrder[i], ex, own, st)

HubByHub(run, V, ex, own, st) ==
    /\ run \in [0..Len(HubsInOrder) -> V]
    /\ run[0] = <<>> /\ run[Len(HubsInOrder)] = Plan(ex, own, st)
    /\ \A i \in 1..Len(HubsInOrder) : run[i] = With(run[i - 1], i, ex, own, st)

LEMMA PlanRuns ==
    ASSUME NEW ex, NEW own, NEW st, NEW V, <<>> \in V,
           \A i \in 1..Len(HubsInOrder), v \in V : With(v, i, ex, own, st) \in V
    PROVE  \E run : HubByHub(run, V, ex, own, st)
<1> DEFINE n == Len(HubsInOrder)
           IsIt(it) == it = [T \in SUBSET (1..n) |->
                               IF T = {} THEN <<>>
                               ELSE With(it[T \ {Max(T)}], Max(T), ex, own, st)]
           it == CHOOSE f : IsIt(f)
           op == [p \in (1..n) \X V |-> With(p[2], p[1], ex, own, st)]
           Raw(g) == g = [T \in SUBSET DOMAIN HubsInOrder |->
                              IF T = {} THEN <<>>
                              ELSE With(g[T \ {Max(T)}], Max(T), ex, own, st)]
<1>0. Plan(ex, own, st) = (CHOOSE f : Raw(f))[DOMAIN HubsInOrder]
  BY DEF Plan, FoldLeft, MapThenFoldSet, With
<1>1. Plan(ex, own, st) = it[1..n]
  <2>1. HubsInOrder \in Seq(Hubs)
    BY SortedAreInS DEF HubsInOrder, Objectives
  <2>2. DOMAIN HubsInOrder = 1..n
    BY <2>1
  <2>3. \A f : Raw(f) <=> IsIt(f)
    BY <2>2
  <2> HIDE DEF Raw, IsIt
  <2> QED
    BY <1>0, <2>2, <2>3
<1>2. n \in Nat /\ <<>> \in V
  OBVIOUS
<1>3. \A T \in SUBSET (1..n) : T # {} => Max(T) \in 1..n
  <2> HIDE DEF n
  <2> QED
    BY <1>2, LastIsThere
<1>4. /\ op \in [(1..n) \X V -> V]
      /\ \A i \in 1..n, v \in V : op[<<i, v>>] = With(v, i, ex, own, st)
  OBVIOUS
<1> HIDE DEF n, op
<1>5. PICK f \in [SUBSET (1..n) -> V] : IsOrdered(f, n, <<>>, op)
  <2> HIDE DEF IsIt, it
  <2> QED
    BY ONLY <1>2, <1>4, FoldInOrder
<1>6. \A T \in SUBSET (1..n) : T # {} => op[<<Max(T), f[T \ {Max(T)}]>>]
                                          = With(f[T \ {Max(T)}], Max(T), ex, own, st)
  <2> HIDE DEF IsIt, it
  <2>1. \A T \in SUBSET (1..n) : f[T \ {Max(T)}] \in V
    OBVIOUS
  <2> QED
    BY <1>3, <1>4, <2>1
<1>7. IsIt(f)
  BY <1>5, <1>6 DEF IsOrdered
<1>8. IsIt(it)
  <2> HIDE DEF IsIt
  <2> QED
    BY <1>7
<1>9. Ordered(it, n, V, <<>>, op)
  <2> HIDE DEF it
  <2>1. it[{}] = <<>>
    BY <1>8
  <2>2. \A T \in SUBSET (1..n) : T # {} =>
           it[T] = With(it[T \ {Max(T)}], Max(T), ex, own, st)
    BY <1>8
  <2> HIDE DEF IsIt
  <2> QED
    BY <1>3, <1>4, <2>1, <2>2 DEF Ordered
<1>10. PICK run : Runs(run, n, V, <<>>, op, it[1..n])
  <2> HIDE DEF IsIt, it
  <2> QED
    BY ONLY <1>2, <1>4, <1>9, FoldRuns
<1>11. \A i \in 1..n : run[i] = With(run[i - 1], i, ex, own, st)
  <2> HIDE DEF IsIt, it
  <2> QED
    BY <1>4, <1>10 DEF Runs
<1> QED
  BY <1>1, <1>10, <1>11 DEF Runs, n, HubByHub

-----------------------------------------------------------------------------
(* Transfers stay within a side.  How the stocks are, and so how much is moved and in which *)
(* order, does not matter.                                                                 *)

\* Every transfer goes from a hub to an objective in S, of the same owner.
WithinSides(trs, S, own) ==
    \E X : /\ trs \in Seq(X)
           /\ \A tr \in X : tr.from \in Hubs /\ tr.to \in S /\ own[tr.from] = own[tr.to]

LEMMA PlanFromIsWithin ==
    ASSUME NEW h \in Hubs, NEW ex \in SUBSET Objectives, NEW own, NEW st
    PROVE  WithinSides(PlanFrom(h, ex, own, st), ex, own)
<1> DEFINE C == Customers(h, ex, own)
           customers == ByStock(C, st)
<1>1. C \in SUBSET Objectives /\ \A o \in C : o \in ex /\ own[h] = own[o]
  BY DEF Customers
<1> HIDE DEF C
<1>2. customers \in Seq(C)
  BY <1>1, SortedAreInS
<1>3. customers \in Seq(Objectives)
  BY <1>1, <1>2
<1>4. PlanFrom(h, ex, own, st) = Divided(h, customers, own, st)
  BY <1>3 DEF PlanFrom, C
<1> HIDE DEF customers
<1>5. PICK A : Divided(h, customers, own, st) \in Seq([from : {h}, to : C, amount : A])
  BY <1>2, SharesGoToCustomers
<1> DEFINE R == [from : {h}, to : C, amount : A]
<1>6. \A tr \in R : tr.from \in Hubs /\ tr.to \in ex /\ own[tr.from] = own[tr.to]
  BY <1>1
<1> HIDE DEF R
<1>7. PlanFrom(h, ex, own, st) \in Seq(R)
  BY <1>4, <1>5 DEF R
<1> QED
  BY <1>6, <1>7 DEF WithinSides

\* The same of the plan: whatever the stocks are, it moves supplies within a side only.
LEMMA PlanIsWithin ==
    ASSUME NEW ex \in SUBSET Objectives, NEW own, NEW st
    PROVE  WithinSides(Plan(ex, own, st), ex, own)
<1> DEFINE n == Len(HubsInOrder)
           From(i) == PlanFrom(HubsInOrder[i], ex, own, st)
           Good(X) == \A tr \in X : tr.from \in Hubs /\ tr.to \in ex /\ own[tr.from] = own[tr.to]
           F == [i \in 1..n |-> CHOOSE X : From(i) \in Seq(X) /\ Good(X)]
           R == UNION {F[i] : i \in 1..n}
           V == Seq(R)
<1>1. HubsInOrder \in Seq(Hubs)
  BY SortedAreInS DEF HubsInOrder, Objectives
<1>2. n \in Nat /\ \A i \in 1..n : HubsInOrder[i] \in Hubs
  BY <1>1
<1> HIDE DEF n
<1>3. \A i \in 1..n : From(i) \in Seq(F[i]) /\ Good(F[i])
  <2> SUFFICES ASSUME NEW i \in 1..n PROVE \E X : From(i) \in Seq(X) /\ Good(X)
    OBVIOUS
  <2>1. WithinSides(From(i), ex, own)
    BY <1>2, PlanFromIsWithin
  <2> HIDE DEF From
  <2> QED
    BY <2>1 DEF WithinSides
<1> HIDE DEF F
<1>4. Good(R)
  BY <1>3
<1>5. \A i \in 1..n, trs \in V : With(trs, i, ex, own, st) \in V
  <2> SUFFICES ASSUME NEW i \in 1..n, NEW trs \in V PROVE trs \o From(i) \in V
    BY DEF With
  <2>1. From(i) \in Seq(F[i]) /\ F[i] \subseteq R
    BY <1>3
  <2> HIDE DEF R, From
  <2>2. From(i) \in Seq(R)
    BY <2>1
  <2> QED
    BY <2>2
<1>6. <<>> \in V
  OBVIOUS
<1> HIDE DEF V
<1>7. PICK run : HubByHub(run, V, ex, own, st)
  BY ONLY <1>5, <1>6, PlanRuns DEF n
<1>8. Plan(ex, own, st) \in V
  BY <1>2, <1>7 DEF HubByHub, n
<1> HIDE DEF R
<1> QED
  BY <1>4, <1>8 DEF V, WithinSides

\* What is planned goes from hubs to objectives that are there or have been, and stays within
\* a side if they still are.  A Farp is not built where one has been.
PlanInv ==
    /\ exists \subseteq Objectives /\ gone \subseteq Objectives
    /\ DOMAIN owner = Objectives
    /\ \E X : /\ plan \in Seq(X)
              /\ \A tr \in X : /\ tr.from \in Hubs /\ tr.to \in exists \cup gone
                               /\ tr.to \in exists => owner[tr.from] = owner[tr.to]

LEMMA PlanInvMeans == PlanInv => PlanWithinSides
<1> SUFFICES ASSUME PlanInv, NEW i \in DOMAIN plan, plan[i].to \in exists
             PROVE  owner[plan[i].from] = owner[plan[i].to]
  BY DEF PlanWithinSides
<1>1. PICK X : /\ plan \in Seq(X)
               /\ \A tr \in X : tr.to \in exists => owner[tr.from] = owner[tr.to]
  BY DEF PlanInv
<1>2. plan[i] \in X
  BY <1>1
<1> QED
  BY <1>1, <1>2

LEMMA InitPlan == Init => PlanInv
<1> SUFFICES ASSUME Init PROVE PlanInv
  OBVIOUS
<1>1. exists \subseteq Objectives /\ DOMAIN owner = Objectives /\ gone = {}
  BY LogisticsConstants DEF Init, Objectives
<1>2. plan \in Seq({})
  BY DEF Init
<1> QED
  BY <1>1, <1>2 DEF PlanInv

\* A step that drops the plan.
LEMMA PlanDropped ==
    ASSUME PlanInv, plan' = <<>>, exists' \subseteq Objectives, gone' = gone,
           DOMAIN owner' = DOMAIN owner
    PROVE  PlanInv'
<1> DEFINE X == {}
<1>1. plan' \in Seq(X)
  OBVIOUS
<1>2. \A tr \in X : /\ tr.from \in Hubs /\ tr.to \in exists' \cup gone'
                    /\ tr.to \in exists' => owner'[tr.from] = owner'[tr.to]
  OBVIOUS
<1> HIDE DEF X
<1> QED
  BY <1>1, <1>2 DEF PlanInv

LEMMA TickKeepsPlan == PlanInv /\ LogisticsStep => PlanInv'
<1> SUFFICES ASSUME PlanInv, LogisticsStep PROVE PlanInv'
  OBVIOUS
<1>0. exists' = exists /\ gone' = gone /\ owner' = owner /\ exists \subseteq Objectives
  BY DEF LogisticsStep, FirstStep, StartTick, SyncFrom, MakePlan, Execute, Balance, SyncTo,
         EndTick, PlanInv
<1>1. CASE FirstStep \/ StartTick \/ Balance \/ EndTick
  BY <1>0, <1>1, PlanDropped DEF FirstStep, StartTick, Balance, EndTick, GoTo
<1>2. CASE SyncFrom \/ SyncTo
  BY <1>0, <1>2 DEF SyncFrom, SyncTo, PlanInv
<1>3. CASE MakePlan
  <2>1. plan' = Plan(exists, owner, stock')
    BY <1>3 DEF MakePlan, GoTo
  <2>2. WithinSides(plan', exists, owner)
    BY <1>0, <2>1, PlanIsWithin
  <2> QED
    BY <1>0, <2>2 DEF PlanInv, WithinSides
<1>4. CASE Execute
  <2>1. PICK k \in 0 .. Len(plan) - 1 : plan' = SubSeq(plan, 1, k)
    BY <1>4 DEF Execute
  <2>2. PICK X : /\ plan \in Seq(X)
                 /\ \A tr \in X : /\ tr.from \in Hubs /\ tr.to \in exists \cup gone
                                  /\ tr.to \in exists => owner[tr.from] = owner[tr.to]
    BY DEF PlanInv
  <2>3. plan' \in Seq(X)
    BY <2>1, <2>2
  <2> QED
    BY <1>0, <2>2, <2>3 DEF PlanInv
<1> QED
  BY <1>1, <1>2, <1>3, <1>4 DEF LogisticsStep

LEMMA OthersKeepPlan == PlanInv /\ Others => PlanInv'
<1> SUFFICES ASSUME PlanInv, Others PROVE PlanInv'
  OBVIOUS
<1>1. CASE DeliverNow
  BY <1>1 DEF DeliverNow, PlanInv
<1>2. CASE Restart
  BY <1>2, PlanDropped DEF Restart, GoTo, PlanInv
<1>3. ASSUME NEW o \in Objectives, DcsChanges(o) \/ Aircraft(o) \/ ReduceInventory(o)
      PROVE  PlanInv'
  BY <1>3 DEF DcsChanges, Aircraft, ReduceInventory, PlanInv
<1>4. ASSUME NEW o \in Objectives, DeleteFarp(o) PROVE PlanInv'
  <2>1. /\ exists' = exists \ {o} /\ gone' = gone \cup {o} /\ owner' = owner /\ plan' = plan
    BY <1>4 DEF DeleteFarp
  <2> QED
    BY <1>4, <2>1 DEF PlanInv
<1>5. ASSUME NEW from \in Objectives, NEW to \in Objectives, TransferSupplies(from, to)
      PROVE  PlanInv'
  BY <1>5 DEF TransferSupplies, PlanInv
<1>6. ASSUME NEW o \in Objectives, NEW side \in Sides, AddFarp(o, side) PROVE PlanInv'
  <2> DEFINE new == Plan(exists', owner', stock')
  <2>1. /\ o \in Farps \ (exists \cup gone)
        /\ exists' = exists \cup {o} /\ owner' = [owner EXCEPT ![o] = side] /\ gone' = gone
        /\ plan' = plan \o new \/ plan' = new
    BY <1>6 DEF AddFarp, GoTo
  <2>2. exists' \subseteq Objectives
    BY <2>1 DEF PlanInv
  <2>3. PICK Y : /\ new \in Seq(Y)
                 /\ \A tr \in Y : /\ tr.from \in Hubs /\ tr.to \in exists'
                                  /\ owner'[tr.from] = owner'[tr.to]
    BY <2>2, PlanIsWithin DEF WithinSides
  <2>4. PICK X : /\ plan \in Seq(X)
                 /\ \A tr \in X : /\ tr.from \in Hubs /\ tr.to \in exists \cup gone
                                  /\ tr.to \in exists => owner[tr.from] = owner[tr.to]
    BY DEF PlanInv
  <2> HIDE DEF new
  <2>5. plan' \in Seq(X \cup Y)
    <3> DEFINE Z == X \cup Y
    <3>1. X \subseteq Z /\ Y \subseteq Z
      OBVIOUS
    <3> HIDE DEF Z
    <3>2. plan \in Seq(Z)
      BY <2>4, <3>1
    <3>3. new \in Seq(Z)
      BY <2>3, <3>1
    <3>4. plan \o new \in Seq(Z)
      BY <3>2, <3>3
    <3>5. plan' = plan \o new \/ plan' = new
      BY <2>1
    <3>6. plan' \in Seq(Z)
      BY <3>3, <3>4, <3>5
    <3> QED
      BY <3>6 DEF Z
  <2>6. \A p \in Objectives \ {o} : owner'[p] = owner[p]
    BY <2>1 DEF PlanInv
  <2>7. ASSUME NEW tr \in X
        PROVE  /\ tr.from \in Hubs /\ tr.to \in exists' \cup gone'
               /\ tr.to \in exists' => owner'[tr.from] = owner'[tr.to]
    <3>1. tr.from \in Objectives /\ tr.from # o
      BY <2>1, <2>4, LogisticsConstants DEF Objectives
    <3>2. tr.to \in Objectives /\ tr.to # o
      BY <2>1, <2>4 DEF PlanInv
    <3> QED
      BY <2>1, <2>4, <2>6, <3>1, <3>2
  <2>8. DOMAIN owner' = Objectives /\ gone' \subseteq Objectives
    BY <2>1 DEF PlanInv
  <2>9. \A tr \in X \cup Y : /\ tr.from \in Hubs /\ tr.to \in exists' \cup gone'
                             /\ tr.to \in exists' => owner'[tr.from] = owner'[tr.to]
    BY <2>3, <2>7
  <2> QED
    BY <2>2, <2>5, <2>8, <2>9 DEF PlanInv
<1>7. ASSUME NEW o \in Objectives, NEW side \in Sides, Capture(o, side) PROVE PlanInv'
  BY <1>7, PlanDropped DEF Capture, GoTo, PlanInv
<1> QED
  BY <1>1, <1>2, <1>3, <1>4, <1>5, <1>6, <1>7 DEF Others

\* No supplies are ever on their way to the other side: whatever is captured, built or deleted
\* between planning a transfer and executing it, its ends have one owner by then, for any
\* number of hubs, objectives and sides, and whatever the stocks are.
THEOREM TransfersWithinSides == Spec => []PlanWithinSides
  <1>1. PlanInv /\ [Next]_vars => PlanInv'
    <2>1. PlanInv /\ UNCHANGED vars => PlanInv'
      BY DEF vars, PlanInv
    <2> QED
      BY <2>1, TickKeepsPlan, OthersKeepPlan DEF Next
  <1> QED
    BY InitPlan, <1>1, PlanInvMeans, PTL DEF Spec

-----------------------------------------------------------------------------
(* The plan fits when it is made. *)

LEMMA PlanFromFits ==
    ASSUME NEW h \in Hubs, NEW ex \in SUBSET Objectives, NEW own, NEW st \in [Objectives -> Nat]
    PROVE  FitsTo(PlanFrom(h, ex, own, st), h, Customers(h, ex, own), own, st)
<1> DEFINE C == Customers(h, ex, own)
           customers == ByStock(C, st)
<1>1. C \in SUBSET Objectives
  BY DEF Customers
<1>2. PlanFrom(h, ex, own, st) = Divided(h, customers, own, st)
  <2>1. customers \in Seq(C)
    BY <1>1, SortedAreInS
  <2> HIDE DEF C
  <2>2. customers \in Seq(Objectives)
    BY <1>1, <2>1
  <2> QED
    BY <2>2 DEF PlanFrom, C
<1> HIDE DEF C
<1>3. customers \in Seq(C) /\ IsInjective(customers)
  BY <1>1, SortedAreInS
<1>4. st[h] \in Nat
  BY DEF Objectives
<1>5. \A x \in C : st[x] \in Nat /\ Capacity(x, own[x]) \in Nat
  BY <1>1, CapacityIsNumber
<1> HIDE DEF customers
<1>6. FitsTo(Divided(h, customers, own, st), h, C, own, st)
  BY <1>3, <1>4, <1>5, DividedFits
<1> QED
  BY <1>2, <1>6 DEF C

\* Whatever there is, the plan fits when it is made.
LEMMA PlanIsSound ==
    ASSUME NEW ex \in SUBSET Objectives, NEW own, NEW st \in [Objectives -> Nat]
    PROVE  Sound(Plan(ex, own, st), ex, own, st)
<1> DEFINE hubs == HubsInOrder
           n == Len(hubs)
           V == Seq(Transfers)
<1>1. hubs \in Seq(Hubs) /\ IsInjective(hubs)
  BY SortedAreInS DEF HubsInOrder, Objectives
<1> HIDE DEF hubs
<1>2. n \in Nat /\ DOMAIN hubs = 1..n /\ \A i \in 1..n : hubs[i] \in Hubs
  BY <1>1
<1>3. \A i \in 1..n : FitsTo(PlanFrom(hubs[i], ex, own, st), hubs[i],
                             Customers(hubs[i], ex, own), own, st)
  BY <1>2, PlanFromFits
<1>4. ASSUME NEW i \in 1..n, NEW v \in V PROVE v \o PlanFrom(hubs[i], ex, own, st) \in V
  <2> DEFINE b == PlanFrom(hubs[i], ex, own, st)
             Y == [from : {hubs[i]}, to : Customers(hubs[i], ex, own), amount : Nat]
  <2>1. b \in Seq(Y)
    BY <1>3 DEF FitsTo
  <2>2. Y \subseteq Transfers
    BY <1>2 DEF Transfers, Customers, Objectives
  <2> HIDE DEF b, Y
  <2>3. b \in Seq(Transfers)
    BY <2>1, <2>2
  <2> QED
    BY <2>3 DEF b
<1>5. <<>> \in V
  OBVIOUS
<1> HIDE DEF V
<1>6. PICK run \in [0..n -> V] :
         /\ run[0] = <<>> /\ run[n] = Plan(ex, own, st)
         /\ \A i \in 1..n : run[i] = run[i - 1] \o PlanFrom(hubs[i], ex, own, st)
  <2>1. \A i \in 1..Len(HubsInOrder), v \in V : With(v, i, ex, own, st) \in V
    BY <1>4 DEF hubs, With
  <2>2. PICK run : HubByHub(run, V, ex, own, st)
    BY ONLY <1>5, <2>1, PlanRuns
  <2> QED
    BY <2>2 DEF HubByHub, hubs, With
<1> HIDE DEF n
<1> DEFINE H(i) == {hubs[j] : j \in 1..i}
           P == {i \in 0..n : Sound(run[i], ex, own, st) /\ Supplying(run[i], H(i), own)}
<1>7. 0 \in P
  <2> DEFINE e == <<>>
  <2>1. e \in Seq(Transfers) /\ Len(e) = 0 /\ 1..0 = {} /\ 0 \in 0..n
    BY <1>2
  <2>2. \A h \in Hubs : SumOf(Amounts(e), Leaving(e, h)) <= st[h]
    <3> SUFFICES ASSUME NEW h \in Hubs PROVE SumOf(Amounts(e), Leaving(e, h)) <= st[h]
      OBVIOUS
    <3>1. Leaving(e, h) = {}
      BY <2>1 DEF Leaving
    <3>2. st[h] \in Nat
      BY DEF Objectives
    <3> HIDE DEF e
    <3>3. SumOf(Amounts(e), Leaving(e, h)) = 0
      BY <3>1, SumOfNone
    <3> QED
      BY <3>2, <3>3
  <2> HIDE DEF e
  <2>3. Sound(e, ex, own, st)
    BY <2>1, <2>2 DEF Sound
  <2>4. Supplying(e, H(0), own)
    BY <2>1 DEF Supplying
  <2> QED
    BY <1>6, <2>1, <2>3, <2>4 DEF e
<1>8. ASSUME NEW i \in 1..n, i - 1 \in P PROVE i \in P
  <2> DEFINE h == hubs[i]
             b == PlanFrom(h, ex, own, st)
             a == run[i - 1]
             G == H(i - 1)
  <2>1. h \in Hubs \ G
    <3>1. \A j \in 1..(i - 1) : hubs[j] # hubs[i]
      BY <1>1, <1>2 DEF IsInjective
    <3> QED
      BY <1>2, <3>1
  <2>2. FitsTo(b, h, Customers(h, ex, own), own, st)
    BY <1>3
  <2>3. run[i] = a \o b
    BY <1>6
  <2>4. Sound(a, ex, own, st) /\ Supplying(a, G, own)
    BY <1>8
  <2>5. G \cup {h} = H(i) /\ i \in 0..n
    BY <1>2
  <2> HIDE DEF h, b, a, G, H
  <2>6. Sound(a \o b, ex, own, st) /\ Supplying(a \o b, G \cup {h}, own)
    BY <2>1, <2>2, <2>4, HubJoins
  <2>7. Supplying(a \o b, H(i), own)
    BY <2>5, <2>6
  <2> QED
    BY <2>3, <2>5, <2>6, <2>7
<1>9. \A i \in 0..n : i \in P
  <2> HIDE DEF P
  <2> QED
    BY <1>2, <1>7, <1>8, Stepwise
<1>10. Sound(run[n], ex, own, st)
  <2> HIDE DEF H
  <2>1. n \in P
    BY <1>2, <1>9
  <2> QED
    BY ONLY <2>1
<1> QED
  BY <1>6, <1>10

-----------------------------------------------------------------------------
(* It goes on fitting while it is executed. *)

Loads == [Objectives -> 0..(Word - 1)]

LEMMA LoadsAreNumbers == Word \in Nat \ {0} /\ Loads \subseteq Inventories
<1>1. Word \in Nat /\ MizStock \in Nat /\ MaxOps \in Nat /\ Word > MizStock + MaxOps
  BY LogisticsConstants
<1>2. Word \in Nat \ {0}
  BY <1>1
<1> QED
  BY <1>2 DEF Loads, Inventories

LEMMA PutStays ==
    ASSUME NEW st \in Loads, NEW o, NEW n \in 0..(Word - 1)
    PROVE  Put(st, o, n) \in Loads
  BY DEF Put, Loads

\* A transfer leaves unsigned integers.
LEMMA MovedStays ==
    ASSUME NEW st \in Loads, NEW tr, tr.amount \in Int
    PROVE  Moved(st, tr) \in Loads
<1> DEFINE given == Put(st, tr.from, (st[tr.from] - tr.amount) % Word)
<1>1. Word \in Nat \ {0}
  BY LoadsAreNumbers
<1>2. \A n \in Int : n % Word \in 0..(Word - 1)
  BY <1>1
<1>3. given \in Loads
  <2>1. CASE tr.from \in Objectives
    <3>1. st[tr.from] - tr.amount \in Int
      BY <1>1, <2>1 DEF Loads
    <3> QED
      BY <1>2, <3>1, PutStays
  <2>2. CASE tr.from \notin Objectives
    <3>1. given = [p \in Objectives |-> st[p]]
      BY <2>2 DEF Put
    <3> QED
      BY <3>1 DEF Loads
  <2> QED BY <2>1, <2>2
<1> DEFINE taken == Put(given, tr.to, (given[tr.to] + tr.amount) % Word)
<1> HIDE DEF given
<1>4. taken \in Loads
  <2>1. CASE tr.to \in Objectives
    <3>1. given[tr.to] + tr.amount \in Int
      BY <1>1, <1>3, <2>1 DEF Loads
    <3> QED
      BY <1>2, <1>3, <3>1, PutStays
  <2>2. CASE tr.to \notin Objectives
    <3>1. taken = [p \in Objectives |-> given[p]]
      BY <2>2 DEF Put
    <3> QED
      BY <1>3, <3>1 DEF Loads
  <2> QED BY <2>1, <2>2
<1> HIDE DEF taken
<1> QED
  BY <1>3, <1>4 DEF Moved, given, taken

\* The last transfer of a sound plan leaves the others sound: nothing wraps around.
LEMMA LastMoves ==
    ASSUME NEW trs, NEW st \in Loads, Sound(trs, exists, owner, st), NEW n, n = Len(trs), n > 0
    PROVE  /\ Moved(st, trs[n]) \in Loads
           /\ Sound(SubSeq(trs, 1, n - 1), exists, owner, Moved(st, trs[n]))
<1> DEFINE tr == trs[n]
           x == tr.amount
           from == tr.from
           to == tr.to
           rest == SubSeq(trs, 1, n - 1)
           new == Moved(st, tr)
           f == Amounts(trs)
           e == Amounts(rest)
<1>1. /\ trs \in Seq(Transfers)
      /\ \A k \in 1..n :
            /\ trs[k].from \in Hubs /\ trs[k].to \notin Hubs
            /\ trs[k].to \in exists =>
                  st[trs[k].to] + trs[k].amount <= Capacity(trs[k].to, owner[trs[k].to])
      /\ \A k, l \in 1..n : trs[k].to = trs[l].to => k = l
      /\ \A h \in Hubs : SumOf(f, Leaving(trs, h)) <= st[h]
  BY DEF Sound
<1>2. n \in Nat \ {0} /\ n \in 1..n /\ DOMAIN trs = 1..n
  BY <1>1
<1>3. \A k \in 1..n : /\ trs[k].amount \in Nat /\ trs[k].to \in Objectives
                      /\ f[k] = trs[k].amount
  <2>1. \A k \in 1..n : trs[k] \in Transfers
    <3>1. trs \in Seq(Transfers)
      BY <1>1
    <3> QED
      BY ONLY <3>1, n = Len(trs)
  <2> QED
    BY <1>2, <2>1 DEF Transfers, Amounts
<1>4. rest \in Seq(Transfers) /\ Len(rest) = n - 1 /\ \A k \in 1..(n - 1) : rest[k] = trs[k]
  <2>1. trs \in Seq(Transfers)
    BY <1>1
  <2> QED
    BY ONLY <1>2, <2>1, n = Len(trs)
<1>5. \A k \in 1..(n - 1) : e[k] = f[k] /\ k \in 1..n
  <2>1. DOMAIN rest = 1..(n - 1)
    BY <1>4
  <2> QED
    BY <1>2, <1>3, <1>4, <2>1 DEF Amounts
<1>6. new \in Loads
  BY <1>2, <1>3, MovedStays
<1>7. Hubs \subseteq Objectives /\ Word \in Nat \ {0} /\ \A p \in Objectives : st[p] \in 0..(Word - 1)
  BY LoadsAreNumbers DEF Objectives, Loads
<1>8. from \in Hubs /\ to \notin Hubs /\ to \in Objectives /\ x \in Nat /\ f[n] = x
  BY <1>1, <1>2, <1>3
<1> HIDE DEF f, e, rest
\* What each hub is still to give.
<1>9. \A h \in Hubs : /\ IsFiniteSet(Leaving(trs, h)) /\ Numbers(f, Leaving(trs, h))
                      /\ \A k \in Leaving(trs, h) : k \in 1..n /\ f[k] >= 0
                      /\ SumOf(f, Leaving(trs, h)) \in Int
  <2> SUFFICES ASSUME NEW h \in Hubs
               PROVE  /\ IsFiniteSet(Leaving(trs, h)) /\ Numbers(f, Leaving(trs, h))
                      /\ \A k \in Leaving(trs, h) : k \in 1..n /\ f[k] >= 0
                      /\ SumOf(f, Leaving(trs, h)) \in Int
    OBVIOUS
  <2> DEFINE L == Leaving(trs, h)
  <2>1. L \subseteq 1..n
    BY DEF Leaving
  <2> HIDE DEF L
  <2>2. IsFiniteSet(L)
    <3>1. IsFiniteSet(1..n)
      BY ONLY <1>2, FS_Interval
    <3> QED
      BY ONLY <2>1, <3>1, FS_Subset
  <2>3. \A k \in L : f[k] \in Nat
    BY <1>3, <2>1
  <2>4. Numbers(f, L)
    BY <2>3 DEF Numbers
  <2>5. SumOf(f, L) \in Int
    BY <2>2, <2>4, SumIsNumber
  <2> QED
    BY <2>1, <2>2, <2>3, <2>4, <2>5 DEF L
<1>10. \A h \in Hubs : /\ Leaving(rest, h) = Leaving(trs, h) \ {n}
                       /\ SumOf(e, Leaving(rest, h)) = SumOf(f, Leaving(trs, h) \ {n})
  <2> SUFFICES ASSUME NEW h \in Hubs
               PROVE  /\ Leaving(rest, h) = Leaving(trs, h) \ {n}
                      /\ SumOf(e, Leaving(rest, h)) = SumOf(f, Leaving(trs, h) \ {n})
    OBVIOUS
  <2> DEFINE L == Leaving(trs, h) \ {n}
  <2>1. Leaving(rest, h) = L
    <3>1. \A k \in 1..(n - 1) : k \in 1..n /\ k # n
      BY <1>2
    <3>2. \A k \in 1..n : k # n => k \in 1..(n - 1)
      BY <1>2
    <3> QED
      BY <1>4, <3>1, <3>2 DEF Leaving
  <2>2. L \subseteq Leaving(trs, h) /\ \A k \in L : k \in 1..(n - 1)
    BY <1>2, <1>9
  <2> HIDE DEF L
  <2>3. IsFiniteSet(L) /\ Numbers(f, L)
    BY <1>9, <2>2, FS_Subset DEF Numbers
  <2>4. \A k \in L : e[k] = f[k]
    BY <1>5, <2>2
  <2>5. SumOf(e, L) = SumOf(f, L)
    BY <2>3, <2>4, SumSame
  <2> QED
    BY <2>1, <2>5 DEF L
\* The source has it.
<1>11. /\ SumOf(f, Leaving(trs, from)) = x + SumOf(f, Leaving(trs, from) \ {n})
       /\ 0 <= SumOf(f, Leaving(trs, from) \ {n})
       /\ SumOf(f, Leaving(trs, from) \ {n}) \in Int
  <2> DEFINE L == Leaving(trs, from)
             R == L \ {n}
  <2>1. n \in L
    BY <1>2 DEF Leaving
  <2>2. IsFiniteSet(L) /\ Numbers(f, L)
    BY <1>8, <1>9
  <2>3. SumOf(f, L) = f[n] + SumOf(f, L \ {n})
    <3> HIDE DEF L
    <3> QED
      BY <2>1, <2>2, SumRemove
  <2>4. R \subseteq L
    OBVIOUS
  <2>5. \A k \in L : f[k] >= 0
    BY <1>8, <1>9
  <2> HIDE DEF L, R
  <2>6. IsFiniteSet(R) /\ Numbers(f, R)
    BY <2>2, <2>4, FS_Subset DEF Numbers
  <2>7. SumOf(f, R) \in Int
    BY <2>6, SumIsNumber
  <2>8. {} \in SUBSET R /\ \A k \in R \ {} : f[k] >= 0
    BY <2>4, <2>5
  <2>9. SumOf(f, {}) <= SumOf(f, R)
    BY <2>6, <2>8, SumGrows
  <2>10. 0 <= SumOf(f, R)
    BY <2>9, SumOfNone
  <2> QED
    BY <1>8, <2>3, <2>7, <2>10 DEF L, R
<1>12. st[from] - x \in 0..(Word - 1)
  <2> DEFINE s == SumOf(f, Leaving(trs, from) \ {n})
             t == st[from]
  <2>1. x + s <= t
    BY <1>1, <1>8, <1>11
  <2>2. t \in 0..(Word - 1) /\ s \in Int /\ s >= 0
    BY <1>7, <1>8, <1>11
  <2> HIDE DEF s, t, x
  <2>3. t - x \in 0..(Word - 1)
    BY <1>7, <1>8, <2>1, <2>2
  <2> QED
    BY <2>3 DEF t
\* New stocks.
<1>13. \A p \in Objectives : new[p] = IF p = from THEN st[from] - x
                                      ELSE IF p = to /\ to \in exists
                                           THEN (st[to] + x) % Word ELSE st[p]
  <2> DEFINE given == Put(st, from, (st[from] - x) % Word)
  <2>1. (st[from] - x) % Word = st[from] - x
    <3> DEFINE y == st[from] - x
    <3>1. y \in 0..(Word - 1)
      BY <1>12
    <3> HIDE DEF y
    <3>2. y % Word = y
      BY <1>7, <3>1
    <3> QED
      BY <3>2 DEF y
  <2>2. \A p \in Objectives : given[p] = IF p = from THEN st[from] - x ELSE st[p]
    BY <2>1 DEF Put
  <2>3. new = IF to \in exists THEN Put(given, to, (given[to] + x) % Word) ELSE given
    BY DEF Moved
  <2>4. from # to
    BY <1>8
  <2> HIDE DEF given, new, x, from, to
  <2>5. given[to] = st[to]
    BY <1>8, <2>2, <2>4
  <2>6. CASE to \in exists
    BY <2>2, <2>3, <2>4, <2>5, <2>6 DEF Put
  <2>7. CASE to \notin exists
    BY <2>2, <2>3, <2>7
  <2> QED
    BY <2>6, <2>7
<1> HIDE DEF new, x, from, to, tr
<1>14. ASSUME NEW h \in Hubs PROVE SumOf(e, Leaving(rest, h)) <= new[h]
  <2>1. h # to /\ h \in Objectives /\ from \in Objectives
    BY <1>7, <1>8
  <2>2. CASE h = from
    <3> DEFINE s == SumOf(f, Leaving(trs, from) \ {n})
               t == st[from]
    <3>1. x + s <= t
      BY <1>1, <1>8, <1>11
    <3>2. t \in Int /\ s \in Int
      BY <1>7, <1>8, <1>11
    <3>3. new[h] = t - x
      BY <1>13, <2>1, <2>2
    <3>4. SumOf(e, Leaving(rest, h)) = s
      BY <1>10, <2>2
    <3> HIDE DEF s, t
    <3> QED
      BY <1>8, <3>1, <3>2, <3>3, <3>4
  <2>3. CASE h # from
    <3>1. n \notin Leaving(trs, h)
      BY <2>3 DEF Leaving, from, tr
    <3>2. Leaving(trs, h) \ {n} = Leaving(trs, h)
      BY <3>1
    <3>3. SumOf(e, Leaving(rest, h)) = SumOf(f, Leaving(trs, h))
      BY <1>10, <3>2
    <3>4. new[h] = st[h]
      BY <1>13, <2>1, <2>3
    <3> QED
      BY <1>1, <3>3, <3>4
  <2> QED
    BY <2>2, <2>3
<1>15. ASSUME NEW k \in 1..(n - 1)
       PROVE  /\ rest[k].from \in Hubs /\ rest[k].to \notin Hubs
              /\ rest[k].to \in exists =>
                    new[rest[k].to] + rest[k].amount <= Capacity(rest[k].to, owner[rest[k].to])
  <2>1. rest[k] = trs[k] /\ k \in 1..n /\ k # n
    BY <1>2, <1>4
  <2>2. trs[k].to # to /\ trs[k].to # from /\ trs[k].to \in Objectives
    BY <1>1, <1>2, <1>3, <1>8, <2>1 DEF to, tr
  <2>3. new[trs[k].to] = st[trs[k].to]
    BY <1>13, <2>2
  <2> QED
    BY <1>1, <2>1, <2>3
<1>16. \A k, l \in 1..(n - 1) : rest[k].to = rest[l].to => k = l
  BY <1>1, <1>4, <1>5
<1>17. Sound(rest, exists, owner, new)
  BY <1>4, <1>14, <1>15, <1>16 DEF Sound, e
<1> QED
  BY <1>6, <1>17 DEF new, rest, tr

-----------------------------------------------------------------------------
(* Evening out the hubs. *)

\* While the hubs are evened out, nothing is lost, nobody goes beyond the mean in either
\* direction, and nobody has more than the mean but those who are still to give, after s.i and
\* up to s.take.
Levelled(stocks, mean) ==
    {s \in Levels :
        /\ DOMAIN s.have = DOMAIN stocks /\ s.take <= Len(stocks) /\ s.i > 0
        /\ SumOf(s.have, DOMAIN stocks) = SumOf(stocks, DOMAIN stocks)
        /\ \A j \in DOMAIN stocks :
              /\ stocks[j] >= mean => mean <= s.have[j] /\ s.have[j] <= stocks[j]
              /\ stocks[j] <= mean => stocks[j] <= s.have[j] /\ s.have[j] <= mean
              /\ j > s.take \/ j < s.i => s.have[j] <= mean
        /\ s.moves \in Seq([from : DOMAIN stocks, to : DOMAIN stocks, amount : Nat \ {0}])}

\* What is said of the mean: it is not more than there is for everybody.
Affordable(stocks, mean) ==
    /\ stocks \in Seq(Nat) /\ mean \in Nat
    /\ Len(stocks) * mean <= SumOf(stocks, DOMAIN stocks)

\* Who is short of the mean by two or more can count on somebody after him who has more and is
\* still to give.
LEMMA SomebodyGives ==
    ASSUME NEW stocks, NEW mean, Affordable(stocks, mean), NEW s \in Levelled(stocks, mean),
           s.i <= Len(stocks), ~Enough(s, mean)
    PROVE  \E t \in s.i + 1 .. s.take : s.have[t] > mean
<1> DEFINE n == Len(stocks)
           S == 1..n
           f == s.have
           c == [j \in S |-> mean]
           i == s.i
<1>1. /\ s \in Levels /\ DOMAIN f = S /\ s.take <= n /\ i > 0 /\ i <= n
      /\ SumOf(f, S) = SumOf(stocks, S)
      /\ \A j \in S : j > s.take \/ j < i => f[j] <= mean
      /\ n \in Nat /\ mean \in Nat /\ n * mean <= SumOf(stocks, S)
  BY DEF Levelled, Affordable
<1>2. i \in Nat /\ s.take \in Nat /\ f \in Seq(Nat)
  BY <1>1 DEF Levels
<1>3. \A j \in S : f[j] \in Nat
  BY <1>1, <1>2
<1>4. i \in S /\ f[i] + 1 < mean
  <2>1. i \in S
    BY <1>1, <1>2
  <2> QED
    BY <1>1, <1>3, <2>1 DEF Enough
<1> HIDE DEF i, f, n
<1> SUFFICES ASSUME \A t \in i + 1 .. s.take : f[t] <= mean PROVE FALSE
  BY <1>1, <1>2, <1>3 DEF i, f
<1>5. \A j \in S : f[j] <= mean
  <2> SUFFICES ASSUME NEW j \in S PROVE f[j] <= mean
    OBVIOUS
  <2>1. CASE j > s.take \/ j < i
    BY <1>1, <2>1
  <2>2. CASE j = i
    BY <1>1, <1>3, <1>4, <2>2
  <2>3. CASE ~(j > s.take) /\ ~(j < i) /\ j # i
    <3>1. j \in i + 1 .. s.take
      BY <1>1, <1>2, <2>3
    <3> QED
      BY <3>1
  <2> QED BY <2>1, <2>2, <2>3
<1> DEFINE R == S \ {i}
<1>6. IsFiniteSet(S) /\ Cardinality(S) = n
  BY <1>1, FS_Interval
<1>7. Numbers(f, S) /\ Numbers(c, S) /\ \A j \in S : c[j] = mean
  BY <1>1, <1>3 DEF Numbers
<1>8. mean \in Int
  BY <1>1
<1> HIDE DEF c, S
<1>9. SumOf(c, S) = n * mean
  BY <1>6, <1>7, <1>8, SumOfSame
<1>10. SumOf(f, S) = f[i] + SumOf(f, R) /\ SumOf(c, S) = c[i] + SumOf(c, R)
  BY <1>4, <1>6, <1>7, SumRemove
<1>11. IsFiniteSet(R) /\ Numbers(f, R) /\ Numbers(c, R) /\ \A j \in R : f[j] <= c[j]
  BY <1>5, <1>6, <1>7, FS_Subset DEF Numbers
<1> HIDE DEF R
<1>12. SumOf(f, R) <= SumOf(c, R)
  BY <1>11, SumWithin
<1>13. SumOf(f, R) \in Int /\ SumOf(c, R) \in Int
  BY <1>11, SumIsNumber
<1>14. c[i] = mean /\ f[i] \in Nat
  BY <1>3, <1>4, <1>7
<1> DEFINE total == n * mean
<1>15. total \in Int /\ total <= SumOf(f, S) /\ SumOf(c, S) = total
  BY <1>1, <1>9
<1> HIDE DEF total
<1> QED
  BY <1>4, <1>8, <1>10, <1>12, <1>13, <1>14, <1>15

\* So the next giver is the last who has more than the mean.
LEMMA GiverGives ==
    ASSUME NEW stocks, NEW mean, Affordable(stocks, mean), NEW s \in Levelled(stocks, mean),
           s.i <= Len(stocks), ~Enough(s, mean)
    PROVE  LET t == Giver(s, mean)
           IN  /\ t \in s.i + 1 .. s.take /\ s.have[t] > mean
               /\ \A j \in DOMAIN stocks : j > t => s.have[j] <= mean
<1> DEFINE n == Len(stocks)
           f == s.have
           A == {t \in s.i + 1 .. s.take : s.have[t] > mean}
           m == Min({s.i, s.take})
           G == A \cup {m}
           t == Giver(s, mean)
<1>1. /\ s \in Levels /\ DOMAIN stocks = 1..n /\ n \in Nat /\ s.take <= n
      /\ \A j \in DOMAIN stocks : j > s.take \/ j < s.i => f[j] <= mean
      /\ mean \in Nat /\ DOMAIN f = 1..n
  BY DEF Levelled, Affordable
<1>2. s.i \in Nat /\ s.take \in Nat /\ f \in Seq(Nat)
  BY <1>1 DEF Levels
<1>3. PICK a \in A : TRUE
  BY SomebodyGives
<1>4. a > s.i /\ a <= s.take /\ a \in Nat
  BY <1>2
<1>5. m = s.i
  BY <1>2, <1>4, MinOfTwo
<1>6. G \in SUBSET Nat /\ G # {} /\ \A x \in G : x <= s.take
  <2>1. \A x \in A : x \in Nat /\ x <= s.take
    BY <1>2
  <2>2. m \in Nat /\ m <= s.take
    BY <1>2, <1>4, <1>5
  <2> HIDE DEF A, m
  <2> QED
    BY <2>1, <2>2
<1>7. t = Max(G)
  BY DEF Giver
<1> HIDE DEF G, A, t, m
<1>8. t \in G /\ \A x \in G : t >= x
  BY <1>2, <1>6, <1>7, MaxOfNaturals
<1>9. t >= a /\ t \in Nat /\ t # m
  BY <1>3, <1>4, <1>5, <1>6, <1>8 DEF G
<1>10. t \in A
  BY <1>8, <1>9 DEF G
<1>11. t \in s.i + 1 .. s.take /\ f[t] > mean
  BY <1>10 DEF A
<1>12. ASSUME NEW j \in 1..n, j > t PROVE f[j] <= mean
  <2>1. CASE j > s.take
    BY <1>1, <2>1
  <2>2. CASE ~(j > s.take)
    <3>1. j \in s.i + 1 .. s.take
      BY <1>1, <1>2, <1>11, <1>12, <2>2
    <3>2. j \notin A
      BY <1>2, <1>8, <1>11, <1>12, <3>1 DEF G
    <3>3. f[j] \in Nat
      BY <1>1, <1>2
    <3> QED
      BY <1>1, <3>1, <3>2, <3>3 DEF A
  <2> QED BY <2>1, <2>2
<1> QED
  BY <1>1, <1>11, <1>12 DEF t

Move(t, i, x) == [from |-> t, to |-> i, amount |-> x]

\* What one turn of the loop does: the giver falls to the mean, or the receiver rises to it.
LEMMA FillMoves ==
    ASSUME NEW stocks, NEW mean, Affordable(stocks, mean), NEW s \in Levelled(stocks, mean),
           s.i <= Len(stocks), ~Enough(s, mean)
    PROVE  \E t \in s.i + 1 .. s.take, x \in Nat \ {0} :
              /\ s.have[s.i] + x <= mean /\ mean <= s.have[t] - x
              /\ s.have[s.i] + x = mean \/ s.have[t] - x = mean
              /\ \A j \in DOMAIN stocks : j > t => s.have[j] <= mean
              /\ Fill(s, mean) =
                    [i |-> s.i, take |-> t,
                     have |-> Give(s.have, Move(t, s.i, x)),
                     moves |-> Append(s.moves, Move(t, s.i, x))]
<1> DEFINE n == Len(stocks)
           f == s.have
           i == s.i
           t == Giver(s, mean)
           x == Gift(s, t, mean)
<1>1. /\ s \in Levels /\ DOMAIN stocks = 1..n /\ n \in Nat /\ s.take <= n /\ i > 0 /\ i <= n
      /\ mean \in Nat /\ DOMAIN f = 1..n
  BY DEF Levelled, Affordable
<1>2. i \in Nat /\ s.take \in Nat /\ f \in Seq(Nat)
  BY <1>1 DEF Levels
<1>3. /\ t \in i + 1 .. s.take /\ f[t] > mean
      /\ \A j \in DOMAIN stocks : j > t => f[j] <= mean
  BY GiverGives
<1>4. i \in 1..n /\ t \in 1..n /\ f[i] \in Nat /\ f[t] \in Nat /\ f[i] + 1 < mean /\ t # i
  <2> HIDE DEF t
  <2>1. i \in 1..n /\ t \in 1..n /\ t # i
    BY <1>1, <1>2, <1>3
  <2>2. f[i] \in Nat /\ f[t] \in Nat
    BY <1>1, <1>2, <2>1
  <2> QED
    BY <1>1, <2>1, <2>2 DEF Enough
<1>5. x = Min({mean - f[i], f[t] - mean})
  BY DEF Gift
<1>6. x = IF mean - f[i] <= f[t] - mean THEN mean - f[i] ELSE f[t] - mean
  <2> DEFINE a == mean - f[i]
             b == f[t] - mean
  <2>1. a \in Int /\ b \in Int
    BY <1>1, <1>4
  <2> HIDE DEF a, b, x
  <2>2. x = Min({a, b})
    BY <1>5 DEF a, b
  <2>3. x = IF a <= b THEN a ELSE b
    BY <2>1, <2>2, MinOfTwo
  <2> QED
    BY <2>3 DEF a, b
<1>7. /\ x \in Nat \ {0} /\ f[i] + x <= mean /\ mean <= f[t] - x
      /\ f[i] + x = mean \/ f[t] - x = mean
  <2> HIDE DEF x, f, i, t
  <2> QED
    BY <1>1, <1>3, <1>4, <1>6
<1>8. Fill(s, mean) = [s EXCEPT !.take = t, !.have = Give(f, Move(t, i, x)),
                                !.moves = Append(@, Move(t, i, x))]
  <2>1. \A w : w = t => w # i
    BY <1>4
  <2> HIDE DEF t
  <2> QED
    BY <2>1 DEF Fill, Move, t
<1>9. Fill(s, mean) = [i |-> i, take |-> t, have |-> Give(f, Move(t, i, x)),
                       moves |-> Append(s.moves, Move(t, i, x))]
  <2> DEFINE g == Give(f, Move(t, i, x))
  <2> HIDE DEF t, x, g
  <2> QED
    BY <1>1, <1>8 DEF Levels, g
<1> HIDE DEF t, x
<1> QED
  BY <1>3, <1>7, <1>9

LEMMA FillStays ==
    ASSUME NEW stocks, NEW mean, Affordable(stocks, mean), NEW s \in Levelled(stocks, mean),
           s.i <= Len(stocks)
    PROVE  Fill(s, mean) \in Levelled(stocks, mean) /\ Fill(s, mean).i = s.i
<1>1. CASE Enough(s, mean)
  BY <1>1 DEF Fill
<1>2. CASE ~Enough(s, mean)
  <2> DEFINE n == Len(stocks)
             D == 1..n
             f == s.have
             i == s.i
  <2>1. /\ s \in Levels /\ DOMAIN stocks = D /\ n \in Nat /\ s.take <= n /\ i > 0 /\ i <= n
        /\ mean \in Nat /\ DOMAIN f = D
        /\ SumOf(f, D) = SumOf(stocks, D)
        /\ \A j \in D : /\ stocks[j] >= mean => mean <= f[j] /\ f[j] <= stocks[j]
                        /\ stocks[j] <= mean => stocks[j] <= f[j] /\ f[j] <= mean
                        /\ j > s.take \/ j < i => f[j] <= mean
        /\ s.moves \in Seq([from : DOMAIN stocks, to : DOMAIN stocks, amount : Nat \ {0}])
        /\ stocks \in Seq(Nat)
    BY DEF Levelled, Affordable
  <2>2. i \in Nat /\ s.take \in Nat /\ f \in Seq(Nat) /\ Len(f) = n
    BY <2>1 DEF Levels
  <2>3. PICK t \in i + 1 .. s.take, x \in Nat \ {0} :
              /\ f[i] + x <= mean /\ mean <= f[t] - x
              /\ \A j \in D : j > t => f[j] <= mean
              /\ Fill(s, mean) =
                    [i |-> i, take |-> t,
                     have |-> Give(f, Move(t, i, x)),
                     moves |-> Append(s.moves, Move(t, i, x))]
    <3>1. \E t \in s.i + 1 .. s.take, x \in Nat \ {0} :
              /\ s.have[s.i] + x <= mean /\ mean <= s.have[t] - x
              /\ s.have[s.i] + x = mean \/ s.have[t] - x = mean
              /\ \A j \in DOMAIN stocks : j > t => s.have[j] <= mean
              /\ Fill(s, mean) =
                    [i |-> s.i, take |-> t,
                     have |-> Give(s.have, Move(t, s.i, x)),
                     moves |-> Append(s.moves, Move(t, s.i, x))]
      BY <1>2, FillMoves
    <3> QED
      BY <2>1, <3>1
  <2>4. i \in D /\ t \in D /\ i < t /\ t <= s.take /\ t \in Nat
    BY <2>1, <2>2, SMTT(30)
  <2>5. \A j \in D : f[j] \in Nat /\ stocks[j] \in Nat
    <3>1. stocks \in Seq(Nat) /\ D = DOMAIN stocks
      BY <2>1
    <3>2. f \in Seq(Nat) /\ D = DOMAIN f
      BY <2>1, <2>2
    <3> HIDE DEF D, f
    <3>3. \A j \in D : stocks[j] \in Nat
      BY ONLY <3>1
    <3>4. \A j \in D : f[j] \in Nat
      BY ONLY <3>2
    <3> QED
      BY <3>3, <3>4
  <2> HIDE DEF i, f, D, n
  <2> DEFINE e == [f EXCEPT ![i] = @ + x]
             g == Give(f, Move(t, i, x))
             r == Fill(s, mean)
  <2>6. /\ e \in [D -> Nat] /\ e[i] = f[i] + x /\ \A j \in D \ {i} : e[j] = f[j]
    <3>1. f \in [D -> Nat]
      BY <2>1, <2>2, <2>5
    <3> QED
      BY <2>3, <2>4, <2>5, <3>1
  <2>7. g \in [D -> Nat] /\ g[t] = f[t] - x /\ \A j \in D \ {t} : g[j] = e[j]
    <3>1. e[t] = f[t] /\ f[t] - x \in Nat
      BY <2>1, <2>3, <2>4, <2>5, <2>6
    <3>2. \A j \in D : g[j] = IF j = t THEN f[t] - x ELSE e[j]
      BY <2>1, <2>4, <2>5 DEF Give, Move
    <3>3. DOMAIN g = D
      BY <2>1 DEF Give, Move
    <3>4. g = [j \in D |-> IF j = t THEN f[t] - x ELSE e[j]]
      BY <2>1, <3>2, <3>3 DEF Give, Move
    <3> HIDE DEF e, g
    <3> QED
      BY <2>4, <2>6, <3>1, <3>4
  <2>8. /\ r.i = i /\ r.take = t /\ r.have = g /\ r.moves = Append(s.moves, Move(t, i, x))
        /\ r = [i |-> i, take |-> t, have |-> g, moves |-> Append(s.moves, Move(t, i, x))]
    BY <2>3
  <2> HIDE DEF e, g, r
  <2>9. r.moves \in Seq([from : DOMAIN stocks, to : DOMAIN stocks, amount : Nat \ {0}])
    <3>1. Move(t, i, x) \in [from : D, to : D, amount : Nat \ {0}]
      BY <2>4 DEF Move
    <3> DEFINE X == [from : D, to : D, amount : Nat \ {0}]
    <3>2. s.moves \in Seq(X)
      BY <2>1
    <3> HIDE DEF X
    <3>3. Append(s.moves, Move(t, i, x)) \in Seq(X)
      BY ONLY <3>1, <3>2 DEF X
    <3> QED
      BY <2>1, <2>8, <3>3 DEF X
  <2>10. r \in Levels
    <3>1. g \in Seq(Nat)
      <4>1. g \in [1..n -> Nat] /\ n \in Nat
        BY <2>1, <2>7 DEF D
      <4> QED
        BY ONLY <4>1
    <3>2. s.moves \in Seq(Moves)
      BY <2>1 DEF Levels
    <3>4. Move(t, i, x) \in Moves
      BY <2>2, <2>4 DEF Moves, Move
    <3>3. Append(s.moves, Move(t, i, x)) \in Seq(Moves)
      BY ONLY <3>2, <3>4
    <3> QED
      BY <2>2, <2>4, <2>8, <3>1, <3>3 DEF Levels
  <2>11. SumOf(g, D) = SumOf(stocks, D)
    <3>1. IsFiniteSet(D)
      BY <2>1, FS_Interval DEF D
    <3>2. Numbers(f, D) /\ Numbers(g, D)
      BY <2>5, <2>7 DEF Numbers
    <3>3. t \in D /\ i \in D /\ t # i
      BY <2>2, <2>4
    <3>4. g[t] + g[i] = f[t] + f[i]
      <4>1. f[t] \in Nat /\ f[i] \in Nat /\ g[t] = f[t] - x /\ g[i] = f[i] + x
        BY <2>5, <2>6, <2>7, <3>3
      <4> QED
        BY ONLY <4>1, x \in Nat \ {0}
    <3>5. \A y \in D : y # t /\ y # i => g[y] = f[y]
      BY <2>6, <2>7
    <3>7. Between(f, g, D, t, i)
      BY <3>3, <3>4, <3>5 DEF Between
    <3>6. SumOf(g, D) = SumOf(f, D)
      BY ONLY <3>1, <3>2, <3>3, <3>7, SumMoved
    <3> QED
      BY <2>1, <3>6
  <2>12. ASSUME NEW j \in D
         PROVE  /\ stocks[j] >= mean => mean <= g[j] /\ g[j] <= stocks[j]
                /\ stocks[j] <= mean => stocks[j] <= g[j] /\ g[j] <= mean
                /\ j > t \/ j < i => g[j] <= mean
    <3>1. CASE j = i
      <4>1. g[j] = f[i] + x
        BY <2>4, <2>6, <2>7, <3>1
      <4> QED
        BY <2>1, <2>3, <2>5, <3>1, <4>1
    <3>2. CASE j = t
      <4>1. g[j] = f[t] - x
        BY <2>7, <3>2
      <4> QED
        BY <2>1, <2>3, <2>4, <2>5, <3>2, <4>1
    <3>3. CASE j # i /\ j # t
      <4>1. g[j] = f[j]
        BY <2>6, <2>7, <3>3
      <4> QED
        BY <2>1, <2>3, <4>1
    <3> QED BY <3>1, <3>2, <3>3
  <2>13. t <= Len(stocks)
    BY <2>4 DEF D, n
  <2>14. r \in Levelled(stocks, mean)
    BY <2>1, <2>2, <2>4, <2>7, <2>8, <2>9, <2>10, <2>11, <2>12, <2>13 DEF Levelled
  <2> QED
    BY <2>8, <2>14 DEF r, i
<1> QED
  BY <1>1, <1>2

\* What fills up one hub keeps the stocks levelled.
LEMMA NextStays ==
    ASSUME NEW stocks, NEW mean, Affordable(stocks, mean), NEW s \in Levelled(stocks, mean)
    PROVE  NextFilled(s, mean) \in Levelled(stocks, mean)
<1> DEFINE n == Len(stocks)
           fill == [t \in Levels |-> Fill(t, mean)]
           steps == [k \in DOMAIN s.have |-> fill]
           V == {r \in Levelled(stocks, mean) : r.i = s.i}
           end == Along(s, steps)
<1>1. /\ s \in Levels /\ s.i \in Nat /\ s.have \in Seq(Nat) /\ DOMAIN s.have = DOMAIN stocks
      /\ DOMAIN stocks = 1..n /\ n \in Nat /\ mean \in Nat /\ stocks \in Seq(Nat) /\ s.i > 0
      /\ Len(s.have) = n
  <2>1. /\ s \in Levels /\ DOMAIN s.have = DOMAIN stocks /\ mean \in Nat /\ stocks \in Seq(Nat)
        /\ s.i > 0
    BY DEF Levelled, Affordable
  <2>2. s.i \in Nat /\ s.have \in Seq(Nat)
    BY <2>1 DEF Levels
  <2> QED
    BY <2>1, <2>2
<1>2. CASE s.i > n \/ Enough(s, mean)
  BY <1>1, <1>2 DEF NextFilled
<1>3. CASE ~(s.i > n \/ Enough(s, mean))
  <2>1. NextFilled(s, mean) = [end EXCEPT !.i = @ + 1]
    BY <1>1, <1>3 DEF NextFilled
  <2>2. DOMAIN steps = 1..n
    BY <1>1
  <2>3. \A k \in 1..n, r \in V : steps[k][r] = Fill(r, mean)
    BY <1>1 DEF Levelled
  <2>4. s.i <= n
    BY <1>1, <1>3
  <2> HIDE DEF steps
  <2>5. \A k \in 1..n, r \in V : steps[k][r] \in V
    <3> SUFFICES ASSUME NEW k \in 1..n, NEW r \in V PROVE Fill(r, mean) \in V
      BY <2>3
    <3>1. r \in Levelled(stocks, mean) /\ r.i = s.i
      OBVIOUS
    <3>2. Fill(r, mean) \in Levelled(stocks, mean) /\ Fill(r, mean).i = r.i
      BY <2>4, <3>1, FillStays
    <3> QED
      BY <3>1, <3>2
  <2>6. s \in V
    OBVIOUS
  <2> HIDE DEF V
  <2>7. end \in V
    BY <1>1, <2>2, <2>5, <2>6, AlongStays
  <2> HIDE DEF end
  <2>8. /\ end \in Levels /\ end.i = s.i /\ DOMAIN end.have = DOMAIN stocks
        /\ end.take <= Len(stocks) /\ end.i > 0
        /\ SumOf(end.have, DOMAIN stocks) = SumOf(stocks, DOMAIN stocks)
        /\ \A j \in DOMAIN stocks :
              /\ stocks[j] >= mean => mean <= end.have[j] /\ end.have[j] <= stocks[j]
              /\ stocks[j] <= mean => stocks[j] <= end.have[j] /\ end.have[j] <= mean
              /\ j > end.take \/ j < end.i => end.have[j] <= mean
        /\ end.moves \in Seq([from : DOMAIN stocks, to : DOMAIN stocks, amount : Nat \ {0}])
    BY <2>7 DEF V, Levelled
  <2> DEFINE r == [end EXCEPT !.i = @ + 1]
  <2>9. /\ r.i = s.i + 1 /\ r.take = end.take /\ r.have = end.have /\ r.moves = end.moves
        /\ r \in Levels
    <3>1. end \in Levels /\ s.i + 1 \in Nat /\ end.i = s.i
      BY <1>1, <2>8
    <3> QED
      BY ONLY <3>1 DEF Levels
  <2>10. s.i \in DOMAIN stocks /\ s.have[s.i] \in Nat /\ stocks[s.i] \in Nat
    <3>1. s.i \in 1..n
      BY <1>1, <2>4
    <3>2. s.have \in [1..n -> Nat] /\ stocks \in [1..n -> Nat]
      <4>1. s.have \in Seq(Nat) /\ DOMAIN s.have = 1..n /\ stocks \in Seq(Nat) /\ DOMAIN stocks = 1..n
        BY <1>1
      <4> QED
        BY ONLY <4>1
    <3> QED
      BY <1>1, <3>1, <3>2
  <2>11. stocks[s.i] <= mean
    <3>1. stocks[s.i] >= mean => mean <= s.have[s.i]
      BY <2>10 DEF Levelled
    <3>2. s.have[s.i] + 1 < mean
      BY <1>1, <1>3, <2>10 DEF Enough
    <3> QED
      BY <1>1, <2>10, <3>1, <3>2
  <2>12. \A j \in DOMAIN stocks : j < s.i + 1 => end.have[j] <= mean
    <3> SUFFICES ASSUME NEW j \in DOMAIN stocks, j < s.i + 1 PROVE end.have[j] <= mean
      OBVIOUS
    <3>1. CASE j < s.i
      BY <2>8, <3>1
    <3>2. CASE ~(j < s.i)
      <4>1. j = s.i
        BY <1>1, <3>2
      <4> QED
        BY <2>8, <2>11, <4>1
    <3> QED BY <3>1, <3>2
  <2> HIDE DEF r
  <2>13. r \in Levelled(stocks, mean)
    <3>1. /\ DOMAIN r.have = DOMAIN stocks /\ r.take <= Len(stocks) /\ r.i > 0
          /\ SumOf(r.have, DOMAIN stocks) = SumOf(stocks, DOMAIN stocks)
          /\ r.moves \in Seq([from : DOMAIN stocks, to : DOMAIN stocks, amount : Nat \ {0}])
      BY <1>1, <2>8, <2>9
    <3>2. \A j \in DOMAIN stocks :
              /\ stocks[j] >= mean => mean <= r.have[j] /\ r.have[j] <= stocks[j]
              /\ stocks[j] <= mean => stocks[j] <= r.have[j] /\ r.have[j] <= mean
              /\ j > r.take \/ j < r.i => r.have[j] <= mean
      BY <2>8, <2>9, <2>12
    <3> QED
      BY ONLY <2>9, <3>1, <3>2 DEF Levelled
  <2> QED
    BY <2>1, <2>13 DEF r
<1> QED
  BY <1>2, <1>3

LEMMA TotalIsSum == \A s : Total(s) = SumOf(s, DOMAIN s)
  BY DEF Total, SumOf

\* The moves are between the hubs they are planned for.
LEMMA LevellingMoves ==
    ASSUME NEW stocks \in Seq(Nat), Len(stocks) > 0,
           NEW sum \in Nat, sum <= SumOf(stocks, DOMAIN stocks)
    PROVE  Levelling(stocks, sum)
              \in Seq([from : DOMAIN stocks, to : DOMAIN stocks, amount : Nat \ {0}])
<1> DEFINE n == Len(stocks)
           mean == sum \div n
           start == [i |-> 1, take |-> n, have |-> stocks, moves |-> <<>>]
           next == [s \in Levels |-> NextFilled(s, mean)]
           steps == [k \in DOMAIN stocks |-> next]
           V == Levelled(stocks, mean)
           end == Along(start, steps)
           X == [from : DOMAIN stocks, to : DOMAIN stocks, amount : Nat \ {0}]
<1>1. n \in Nat \ {0} /\ DOMAIN stocks = 1..n /\ \A j \in 1..n : stocks[j] \in Nat
  OBVIOUS
<1>2. mean \in Nat /\ n * mean <= sum
  <2>1. \A a \in Nat, b \in Nat \ {0} : a \div b \in Nat /\ b * (a \div b) <= a
    OBVIOUS
  <2> QED
    BY <1>1, <2>1
<1>3. Levelling(stocks, sum) = IF mean \div 4 = 0 THEN <<>> ELSE end.moves
  BY DEF Levelling
<1> HIDE DEF mean
<1>4. Affordable(stocks, mean)
  <2>1. IsFiniteSet(DOMAIN stocks) /\ Numbers(stocks, DOMAIN stocks)
    BY <1>1, FS_Interval DEF Numbers
  <2>2. SumOf(stocks, DOMAIN stocks) \in Int
    BY <2>1, SumIsNumber
  <2> DEFINE a == n * mean
  <2>3. a \in Int /\ a <= sum
    BY <1>1, <1>2
  <2> HIDE DEF a
  <2>4. a <= SumOf(stocks, DOMAIN stocks)
    BY <2>2, <2>3
  <2> QED
    BY <1>2, <2>4 DEF Affordable, a
<1>5. start \in V
  <2>1. <<>> \in Seq(X) /\ <<>> \in Seq(Moves)
    OBVIOUS
  <2>2. start \in Levels
    BY <1>1, <2>1 DEF Levels
  <2>3. \A j \in DOMAIN stocks : ~(j > n) /\ ~(j < 1) /\ stocks[j] \in Nat
    BY <1>1
  <2>4. /\ start.i = 1 /\ start.take = n /\ start.have = stocks /\ start.moves = <<>>
    OBVIOUS
  <2> HIDE DEF start
  <2>5. /\ DOMAIN start.have = DOMAIN stocks /\ start.take <= Len(stocks) /\ start.i > 0
        /\ SumOf(start.have, DOMAIN stocks) = SumOf(stocks, DOMAIN stocks)
        /\ start.moves \in Seq(X)
    BY <1>1, <2>1, <2>4
  <2>6. \A j \in DOMAIN stocks :
              /\ stocks[j] >= mean => mean <= start.have[j] /\ start.have[j] <= stocks[j]
              /\ stocks[j] <= mean => stocks[j] <= start.have[j] /\ start.have[j] <= mean
              /\ j > start.take \/ j < start.i => start.have[j] <= mean
    BY <1>2, <2>3, <2>4
  <2> QED
    BY ONLY <2>2, <2>5, <2>6 DEF Levelled, X, V
<1>6. \A k \in 1..n, s \in V : steps[k][s] = NextFilled(s, mean)
  BY <1>1 DEF Levelled
<1>7. DOMAIN steps = 1..n
  BY <1>1
<1> HIDE DEF steps, start, V
<1>8. \A k \in 1..n, s \in V : steps[k][s] \in V
  BY <1>4, <1>6, NextStays DEF V
<1>9. end \in V
  BY <1>1, <1>5, <1>7, <1>8, AlongStays
<1> HIDE DEF end
<1>10. end.moves \in Seq(X)
  BY <1>9 DEF V, Levelled
<1> QED
  BY <1>3, <1>10

LEMMA ExecutedStays ==
    ASSUME NEW st \in Loads, NEW trs, NEW k \in Nat, DOMAIN trs = 1..k,
           \A i \in 1..k : trs[i].amount \in Int
    PROVE  Executed(st, trs) \in Loads
<1> DEFINE moved(tr) == [s \in Inventories |-> Moved(s, tr)]
           steps == [i \in DOMAIN trs |-> moved(trs[i])]
<1>1. DOMAIN steps = 1..k
  OBVIOUS
<1>2. \A i \in 1..k, s \in Loads : steps[i][s] = Moved(s, trs[i])
  BY LoadsAreNumbers
<1>3. Executed(st, trs) = Along(st, steps)
  BY DEF Executed
<1> HIDE DEF steps
<1>4. \A i \in 1..k, s \in Loads : steps[i][s] \in Loads
  BY <1>2, MovedStays
<1>5. Along(st, steps) \in Loads
  BY <1>1, <1>4, AlongStays
<1> QED
  BY <1>3, <1>5

\* However many transfers there is time for, from the last, the others go on fitting.
LEMMA RestIsSound ==
    ASSUME NEW trs, NEW st \in Loads, Sound(trs, exists, owner, st), NEW k \in 0..Len(trs)
    PROVE  LET new == Executed(st, Reverse(SubSeq(trs, k + 1, Len(trs))))
           IN  new \in Loads /\ Sound(SubSeq(trs, 1, k), exists, owner, new)
<1> DEFINE n == Len(trs)
           m == n - k
           part == SubSeq(trs, k + 1, n)
           back == Reverse(part)
           moved(tr) == [s \in Inventories |-> Moved(s, tr)]
           steps == [i \in DOMAIN back |-> moved(back[i])]
           new == Executed(st, back)
<1>0. trs \in Seq(Transfers)
  BY DEF Sound
<1>1. n \in Nat /\ m \in 0..n /\ k \in Nat /\ k + m = n /\ n - m = k /\ DOMAIN trs = 1..n
  BY <1>0
<1>2. part \in Seq(Transfers) /\ Len(part) = m /\ \A i \in 1..m : part[i] = trs[k + i]
  BY ONLY <1>0, k \in 0..Len(trs)
<1>3. DOMAIN back = 1..m /\ \A i \in 1..m : back[i] = trs[n + 1 - i]
  <2> HIDE DEF part, n, m
  <2>1. DOMAIN back = 1..m
    BY <1>2 DEF Reverse
  <2>2. ASSUME NEW i \in 1..m PROVE back[i] = trs[n + 1 - i]
    <3>1. back[i] = part[(m - i) + 1]
      BY <1>2 DEF Reverse
    <3>2. (m - i) + 1 \in 1..m /\ k + ((m - i) + 1) = n + 1 - i
      BY <1>1
    <3> QED
      BY <1>2, <3>1, <3>2
  <2> QED
    BY <2>1, <2>2
<1> HIDE DEF back, part
<1>4. \A i \in 1..n : trs[i] \in Transfers /\ trs[i].amount \in Int
  <2>1. \A i \in 1..n : trs[i] \in Transfers
    BY ONLY <1>0
  <2> QED
    BY <2>1 DEF Transfers
<1>5. \A i \in 1..m : n + 1 - i \in 1..n
  BY <1>1
<1>6. DOMAIN steps = 1..m
  BY <1>3
<1>7. \A i \in 1..m, s \in Loads : steps[i][s] = Moved(s, trs[n + 1 - i])
  BY <1>3, LoadsAreNumbers
<1>8. new = Along(st, steps)
  BY DEF Executed
<1> HIDE DEF steps, new, n, m
<1>9. \A i \in 1..m, s \in Loads : steps[i][s] \in Loads
  BY <1>4, <1>5, <1>7, MovedStays
<1>19. PICK run : Stages(run, st, steps, m, Loads)
  <2>1. m \in Nat /\ st \in Loads
    BY <1>1
  <2> QED
    BY ONLY <1>6, <1>9, <2>1, AlongRuns
<1>10. /\ run \in [0..m -> Loads] /\ run[0] = st /\ run[m] = Along(st, steps)
       /\ \A i \in 1..m : run[i] = steps[i][run[i - 1]]
  BY <1>19 DEF Stages
<1>11. \A i \in 1..m : run[i] = Moved(run[i - 1], trs[n + 1 - i])
  <2> SUFFICES ASSUME NEW i \in 1..m PROVE run[i] = Moved(run[i - 1], trs[n + 1 - i])
    OBVIOUS
  <2>1. i - 1 \in 0..m
    BY <1>1
  <2>2. run[i - 1] \in Loads
    BY <1>10, <2>1
  <2> QED
    BY <1>7, <1>10, <2>2
<1> DEFINE P == {i \in 0..m : Sound(SubSeq(trs, 1, n - i), exists, owner, run[i])}
<1>12. 0 \in P
  <2>1. SubSeq(trs, 1, n) = trs
    BY <1>0 DEF n
  <2>2. n - 0 = n /\ 0 \in 0..m
    BY <1>1
  <2> QED
    BY <1>10, <2>1, <2>2
<1>13. ASSUME NEW i \in 1..m, i - 1 \in P PROVE i \in P
  <2> DEFINE l == n - (i - 1)
             b == SubSeq(trs, 1, l)
  <2>1. l \in 1..n /\ l = n + 1 - i /\ l - 1 = n - i /\ i - 1 \in 0..m /\ i \in 0..m
    BY <1>1
  <2>2. Sound(b, exists, owner, run[i - 1])
    BY <1>13
  <2> HIDE DEF l
  <2>3. Len(b) = l /\ b[l] = trs[l] /\ l > 0
    BY <1>0, <1>1, <2>1 DEF n
  <2>4. SubSeq(b, 1, l - 1) = SubSeq(trs, 1, l - 1)
    <3>1. l \in 1..Len(trs)
      BY <2>1 DEF n
    <3>2. b \in Seq(Transfers)
      BY <1>0, <3>1
    <3>3. Len(SubSeq(b, 1, l - 1)) = l - 1 /\ SubSeq(b, 1, l - 1) \in Seq(Transfers)
      <4> HIDE DEF b
      <4> QED
        BY <2>3, <3>1, <3>2
    <3>4. Len(SubSeq(trs, 1, l - 1)) = l - 1 /\ SubSeq(trs, 1, l - 1) \in Seq(Transfers)
      BY <1>0, <3>1
    <3> DEFINE c == SubSeq(b, 1, l - 1)
               d == SubSeq(trs, 1, l - 1)
    <3>5. \A j \in 1..(l - 1) : c[j] = b[j]
      <4> HIDE DEF b
      <4> QED
        BY <2>3, <3>1, <3>2
    <3>6. \A j \in 1..(l - 1) : d[j] = trs[j] /\ b[j] = trs[j]
      BY <1>0, <3>1
    <3>7. \A j \in 1..(l - 1) : c[j] = d[j]
      <4> HIDE DEF b, c, d
      <4> QED
        BY <3>5, <3>6
    <3>8. c \in Seq(Transfers) /\ d \in Seq(Transfers) /\ Len(c) = l - 1 /\ Len(d) = l - 1
      BY <3>3, <3>4
    <3> HIDE DEF c, d
    <3>9. c = d
      BY ONLY <3>7, <3>8
    <3> QED
      BY <3>9 DEF c, d
  <2>5. run[i - 1] \in Loads
    BY <1>10, <2>1
  <2> HIDE DEF b
  <2>6. Sound(SubSeq(b, 1, l - 1), exists, owner, Moved(run[i - 1], b[l]))
    BY <2>2, <2>3, <2>5, LastMoves
  <2>7. Moved(run[i - 1], b[l]) = run[i]
    BY <1>11, <2>1, <2>3
  <2>8. Sound(SubSeq(trs, 1, n - i), exists, owner, run[i])
    BY <2>1, <2>4, <2>6, <2>7
  <2> QED
    BY <2>1, <2>8
<1>14. \A i \in 0..m : i \in P
  <2>1. m \in Nat
    BY <1>1
  <2> HIDE DEF P
  <2> QED
    BY <1>12, <1>13, <2>1, Stepwise
<1>15. m \in P /\ m \in 0..m
  BY <1>1, <1>14
<1>16. Sound(SubSeq(trs, 1, n - m), exists, owner, run[m])
  BY ONLY <1>15
<1>17. run[m] \in Loads /\ run[m] = new
  BY <1>8, <1>10, <1>15
<1>18. Sound(SubSeq(trs, 1, k), exists, owner, new)
  BY <1>1, <1>16, <1>17
<1> QED
  BY <1>17, <1>18 DEF new, back, part, n

LEMMA ProducedStays == ASSUME NEW st \in Loads PROVE Produced(st) \in Loads
<1> SUFFICES ASSUME NEW o \in Objectives
             PROVE  Min({(st[o] + Production) % Word, Cap(o)}) \in 0..(Word - 1)
  BY DEF Produced, Loads
<1> DEFINE a == (st[o] + Production) % Word
<1>1. Word \in Nat \ {0} /\ Production \in Nat /\ st[o] \in Nat
  BY LogisticsConstants, LoadsAreNumbers DEF Loads
<1>2. \A x \in Int : x % Word \in 0..(Word - 1)
  BY <1>1
<1>3. a \in 0..(Word - 1)
  <2>1. st[o] + Production \in Int
    BY <1>1
  <2> QED
    BY <1>2, <2>1
<1>4. Cap(o) \in 0..(Word - 1)
  BY CapacityIsNumber DEF Cap
<1> HIDE DEF a
<1>5. Min({a, Cap(o)}) = IF a <= Cap(o) THEN a ELSE Cap(o)
  BY <1>1, <1>3, <1>4, MinOfTwo
<1> QED
  BY <1>3, <1>4, <1>5 DEF a

\* The sides, one after the other.
LEMMA SidesInTurn ==
    \E k \in Nat : SetToSeq(Sides) \in [1..k -> Sides]
<1> DEFINE k == Cardinality(Sides)
<1>1. IsFiniteSet(Sides)
  BY LogisticsConstants
<1>2. k \in Nat /\ \E f \in [1..k -> Sides] : IsInjective(f)
  BY <1>1, FS_CardinalityType DEF ExistsBijection, Bijection, Injection, IsInjective
<1>3. SetToSeq(Sides) = CHOOSE f \in [1..k -> Sides] : IsInjective(f)
  BY DEF SetToSeq
<1> HIDE DEF k
<1>4. SetToSeq(Sides) \in [1..k -> Sides]
  BY <1>2, <1>3
<1> QED
  BY <1>2, <1>4

LEMMA BalancedStays ==
    ASSUME NEW st \in Loads, NEW side
    PROVE  Balanced(st, side) \in Loads
<1> DEFINE own == {h \in Hubs : owner[h] = side}
           hubs == ByStock(own, st)
           have == [i \in DOMAIN hubs |-> st[hubs[i]]]
           sum == Total(have) % Word
           moves == Levelling(have, sum)
           tr(m) == [from |-> hubs[m.from], to |-> hubs[m.to], amount |-> m.amount]
           trs == [i \in DOMAIN moves |-> tr(moves[i])]
<1>1. Balanced(st, side) =
        IF Len(hubs) < 2 \/ Min(own) \notin listed THEN st ELSE Executed(st, trs)
  BY Zenon DEF Balanced
<1>2. CASE Len(hubs) < 2 \/ Min(own) \notin listed
  <2> HIDE DEF own, hubs, trs
  <2> QED
    BY ONLY <1>1, <1>2, st \in Loads
<1>3. CASE ~(Len(hubs) < 2 \/ Min(own) \notin listed)
  <2>1. own \in SUBSET Objectives
    BY DEF Objectives
  <2>2. hubs \in Seq(own)
    BY <2>1, SortedAreInS
  <2> HIDE DEF own, hubs
  <2> DEFINE n == Len(hubs)
  <2>3. n \in Nat /\ n > 0 /\ DOMAIN hubs = 1..n /\ \A i \in 1..n : hubs[i] \in own
    BY <1>3, <2>2
  <2> HIDE DEF n
  <2>4. \A i \in 1..n : st[hubs[i]] \in Nat
    BY <2>1, <2>3, LoadsAreNumbers DEF Loads
  <2>5. have \in [1..n -> Nat]
    BY <2>3, <2>4
  <2> HIDE DEF have
  <2>6. have \in Seq(Nat) /\ Len(have) = n /\ DOMAIN have = 1..n
    BY ONLY <2>3, <2>5
  <2>7. sum \in Nat /\ sum <= SumOf(have, DOMAIN have)
    <3> DEFINE S == DOMAIN have
               T == SumOf(have, S)
    <3>1. Total(have) = T
      BY TotalIsSum
    <3>2. IsFiniteSet(S) /\ Numbers(have, S) /\ \A i \in S : have[i] >= 0
      <4>1. IsFiniteSet(1..n)
        BY ONLY <2>3, FS_Interval
      <4>2. \A i \in S : have[i] \in Nat
        BY <2>5, <2>6
      <4> HIDE DEF S
      <4>3. S = 1..n
        BY <2>6 DEF S
      <4> QED
        BY <4>1, <4>2, <4>3 DEF Numbers
    <3> HIDE DEF S
    <3>3. T \in Int
      BY <3>2, SumIsNumber
    <3>4. {} \in SUBSET S /\ \A i \in S \ {} : have[i] >= 0
      BY <3>2
    <3>5. SumOf(have, {}) <= T
      BY <3>2, <3>4, SumGrows
    <3>6. T >= 0
      BY <3>3, <3>5, SumOfNone
    <3>7. Word \in Nat \ {0}
      BY LoadsAreNumbers
    <3> HIDE DEF T
    <3>8. \A a \in Nat, b \in Nat \ {0} : a % b \in Nat /\ a % b <= a
      OBVIOUS
    <3>9. T \in Nat
      BY <3>3, <3>6
    <3> QED
      BY <3>1, <3>7, <3>8, <3>9 DEF T, S
  <2> DEFINE X == [from : DOMAIN have, to : DOMAIN have, amount : Nat \ {0}]
  <2> HIDE DEF sum
  <2>8. moves \in Seq(X)
    BY <2>3, <2>6, <2>7, LevellingMoves
  <2> HIDE DEF moves
  <2> DEFINE k == Len(moves)
  <2>9. k \in Nat /\ DOMAIN moves = 1..k /\ \A i \in 1..k : moves[i].amount \in Int
    <3>1. k \in Nat /\ DOMAIN moves = 1..k /\ \A i \in 1..k : moves[i] \in X
      <4> HIDE DEF X
      <4> QED
        BY ONLY <2>8
    <3> QED
      BY <3>1
  <2>10. DOMAIN trs = 1..k /\ \A i \in 1..k : trs[i].amount \in Int
    BY <2>9
  <2> HIDE DEF trs, k
  <2>11. Executed(st, trs) \in Loads
    BY <2>9, <2>10, ExecutedStays
  <2> QED
    BY <1>1, <1>3, <2>11
<1> QED
  BY <1>2, <1>3

LEMMA AllBalancedStays ==
    ASSUME NEW st \in Loads
    PROVE  AllBalanced(st) \in Loads
<1> DEFINE sides == SetToSeq(Sides)
           balanced(side) == [s \in Inventories |-> Balanced(s, side)]
           steps == [i \in DOMAIN sides |-> balanced(sides[i])]
<1>1. PICK k \in Nat : sides \in [1..k -> Sides]
  BY SidesInTurn
<1>2. AllBalanced(st) = Along(st, steps)
  BY DEF AllBalanced
<1> HIDE DEF sides
<1>3. DOMAIN steps = 1..k
  BY <1>1
<1>4. \A i \in 1..k, s \in Loads : steps[i][s] = Balanced(s, sides[i])
  BY <1>1, LoadsAreNumbers
<1> HIDE DEF steps
<1>5. \A i \in 1..k, s \in Loads : steps[i][s] \in Loads
  BY <1>4, BalancedStays
<1>6. Along(st, steps) \in Loads
  BY <1>3, <1>5, AlongStays
<1> QED
  BY <1>2, <1>6

-----------------------------------------------------------------------------
(* The plan of the tick fits as long as it lasts. *)

\* Every stock, in the program and in DCS, is an unsigned integer; a plan there is is being
\* executed, and is sound for the stocks there are by now.
FitInv ==
    /\ stock \in Loads /\ dcs \in Loads
    /\ exists \subseteq Objectives /\ DOMAIN owner = Objectives
    /\ plan # <<>> => stage = "ExecuteTransfers" /\ Sound(plan, exists, owner, stock)

\* What is planned for some of the transfers, as a sum.
LEMMA PlannedIsSum ==
    ASSUME NEW S \in SUBSET DOMAIN plan
    PROVE  Planned(S) = SumOf(Amounts(plan), S)
<1> DEFINE f == Amounts(plan)
           IsIt(it) == it = [T \in SUBSET S |-> IF T = {} THEN 0
                                                ELSE plan[Pick(T)].amount + it[T \ {Pick(T)}]]
           Body(it, T, k) == IF T = {} THEN 0 ELSE k + it[T \ {Pick(T)}]
<1>1. Planned(S) = (CHOOSE it : IsIt(it))[S]
  BY DEF Planned, MapThenSumSet, MapThenFoldSet, Pick
<1>2. SumOf(f, S) = (CHOOSE it : Adds(it, f, S))[S]
  BY SumIterates
<1>3. \A T \in SUBSET S : T # {} => f[Pick(T)] = plan[Pick(T)].amount
  BY PickIsThere DEF Amounts
<1>4. \A it : \A T \in SUBSET S : Body(it, T, f[Pick(T)]) = Body(it, T, plan[Pick(T)].amount)
  <2> SUFFICES ASSUME NEW it, NEW T \in SUBSET S
               PROVE  Body(it, T, f[Pick(T)]) = Body(it, T, plan[Pick(T)].amount)
    OBVIOUS
  <2>1. CASE T = {}
    BY <2>1
  <2>2. CASE T # {}
    BY <1>3, <2>2
  <2> QED BY <2>1, <2>2
<1>5. \A it : IsIt(it) <=> it = [T \in SUBSET S |-> Body(it, T, plan[Pick(T)].amount)]
  OBVIOUS
<1>6. \A it : Adds(it, f, S) <=> it = [T \in SUBSET S |-> Body(it, T, f[Pick(T)])]
  BY DEF Adds
<1> HIDE DEF IsIt, Body, f
<1>7. \A it : Adds(it, f, S) <=> IsIt(it)
  <2> SUFFICES ASSUME NEW it PROVE Adds(it, f, S) <=> IsIt(it)
    OBVIOUS
  <2> DEFINE F == [T \in SUBSET S |-> Body(it, T, plan[Pick(T)].amount)]
             G == [T \in SUBSET S |-> Body(it, T, f[Pick(T)])]
  <2>1. F = G
    BY <1>4
  <2>2. (IsIt(it) <=> it = F) /\ (Adds(it, f, S) <=> it = G)
    BY <1>5, <1>6
  <2> HIDE DEF F, G
  <2> QED
    BY <2>1, <2>2
<1> QED
  BY <1>1, <1>2, <1>7 DEF f

\* What else may come between the steps without breaking a plan.
Harmless == {"deliver", "draw", "return", "destroy", "capture", "restart"}

LEMMA FitMeansFits == FitInv => PlanFits
<1> SUFFICES ASSUME FitInv PROVE PlanFits
  OBVIOUS
<1> DEFINE n == Len(plan)
           f == Amounts(plan)
           toIt(o) == {i \in DOMAIN plan : plan[i].to = o}
<1>1. stock \in Loads /\ Word \in Nat /\ \A o \in Objectives : stock[o] \in Nat
  BY LoadsAreNumbers DEF FitInv, Loads
<1>2. CASE plan = <<>>
  <2>1. DOMAIN plan = {}
    BY <1>2
  <2>2. \A h \in Hubs : {i \in DOMAIN plan : plan[i].from = h} = {}
    BY <2>1
  <2>3. Planned({}) = 0
    <3>1. {} \in SUBSET DOMAIN plan
      OBVIOUS
    <3> QED
      BY <3>1, PlannedIsSum, SumOfNone
  <2>4. \A h \in Hubs : stock[h] \in Nat
    BY <1>1 DEF Objectives
  <2>5. \A h \in Hubs : Planned({i \in DOMAIN plan : plan[i].from = h}) <= stock[h]
    BY <2>2, <2>3, <2>4
  <2>6. {plan[i].to : i \in DOMAIN plan} = {}
    BY <2>1
  <2> QED
    BY <2>5, <2>6 DEF PlanFits
<1>3. CASE plan # <<>>
  <2>1. /\ plan \in Seq(Transfers)
        /\ \A k \in 1..n : plan[k].to \in exists =>
              stock[plan[k].to] + plan[k].amount <= Capacity(plan[k].to, owner[plan[k].to])
        /\ \A k, l \in 1..n : plan[k].to = plan[l].to => k = l
        /\ \A h \in Hubs : SumOf(f, Leaving(plan, h)) <= stock[h]
    BY <1>3 DEF FitInv, Sound
  <2>2. DOMAIN plan = 1..n /\ n \in Nat
    BY <2>1
  <2>3. \A k \in 1..n : plan[k].amount \in Nat
    <3>1. \A k \in 1..n : plan[k] \in Transfers
      BY ONLY <2>1
    <3> QED
      BY <3>1 DEF Transfers
  <2>4. ASSUME NEW h \in Hubs
        PROVE  Planned({i \in DOMAIN plan : plan[i].from = h}) <= stock[h]
    <3>1. {i \in DOMAIN plan : plan[i].from = h} = Leaving(plan, h)
      BY <2>2 DEF Leaving
    <3>2. Planned(Leaving(plan, h)) = SumOf(f, Leaving(plan, h))
      BY <2>2, PlannedIsSum DEF Leaving
    <3> HIDE DEF f
    <3> QED
      BY <2>1, <3>1, <3>2
  <2>5. ASSUME NEW o \in exists \cap {plan[i].to : i \in DOMAIN plan}
        PROVE  stock[o] + Planned({i \in DOMAIN plan : plan[i].to = o}) <= Cap(o)
    <3>1. PICK i \in 1..n : plan[i].to = o
      BY <2>2
    <3>2. toIt(o) = {i}
      BY <2>1, <2>2, <3>1
    <3>3. Planned(toIt(o)) = SumOf(f, {i})
      BY <2>2, <3>2, PlannedIsSum
    <3>4. SumOf(f, {i}) = f[i] + SumOf(f, {})
      <4>1. f[i] \in Int
        BY <2>2, <2>3 DEF Amounts
      <4>2. IsFiniteSet({i}) /\ {i} \ {i} = {} /\ i \in {i}
        BY FS_Singleton
      <4> HIDE DEF f
      <4>3. Numbers(f, {i})
        BY <4>1 DEF Numbers
      <4>4. SumOf(f, {i}) = f[i] + SumOf(f, {i} \ {i})
        BY ONLY <4>2, <4>3, SumRemove
      <4> QED
        BY <4>2, <4>4
    <3>5. f[i] = plan[i].amount
      BY <2>2 DEF Amounts
    <3>6. Planned(toIt(o)) = plan[i].amount
      <4> HIDE DEF f, toIt
      <4>1. plan[i].amount \in Nat
        BY <2>3
      <4> QED
        BY <3>3, <3>4, <3>5, <4>1, SumOfNone
    <3>7. stock[o] + plan[i].amount <= Capacity(o, owner[o])
      BY <2>1, <3>1
    <3> QED
      BY <3>6, <3>7 DEF Cap
  <2> QED
    BY <2>4, <2>5 DEF PlanFits
<1> QED
  BY <1>2, <1>3

LEMMA InitFits == Init => FitInv
<1> SUFFICES ASSUME Init PROVE FitInv
  OBVIOUS
<1>1. Word \in Nat \ {0} /\ MizStock \in 0..(Word - 1) /\ 0 \in 0..(Word - 1)
  <2>1. Word \in Nat /\ MizStock \in Nat /\ MaxOps \in Nat /\ Word > MizStock + MaxOps
    BY LogisticsConstants
  <2> QED
    BY <2>1
<1>2. dcs \in Loads
  BY <1>1 DEF Init, Loads
<1>3. stock \in Loads
  <2>1. \A o \in Objectives : Capacity(o, InitOwner[o]) \in 0..(Word - 1)
    BY CapacityIsNumber
  <2> QED
    BY <1>1, <2>1 DEF Init, Loads
<1>4. exists \subseteq Objectives
  BY LogisticsConstants DEF Init, Objectives
<1> QED
  BY <1>2, <1>3, <1>4 DEF Init, FitInv

LEMMA TickFits == FitInv /\ LogisticsStep => FitInv'
<1> SUFFICES ASSUME FitInv, LogisticsStep PROVE FitInv'
  OBVIOUS
<1>0. stock \in Loads /\ dcs \in Loads /\ exists \subseteq Objectives /\ DOMAIN owner = Objectives
  BY DEF FitInv
<1>1. CASE FirstStep
  BY <1>1 DEF FirstStep, GoTo, FitInv
<1>2. CASE StartTick
  BY <1>2 DEF StartTick, GoTo, FitInv
<1>3. CASE SyncFrom
  <2> DEFINE o == Max(left)
  <2>1. /\ stage = "SyncFrom" /\ stage' = stage /\ plan' = plan /\ exists' = exists
        /\ owner' = owner /\ dcs' = dcs
        /\ stock' = IF o \in exists THEN Read({o}) ELSE stock
    BY <1>3 DEF SyncFrom
  <2> HIDE DEF o
  <2>2. plan = <<>>
    BY <2>1 DEF FitInv
  <2>3. stock' \in Loads
    BY <1>0, <2>1 DEF Read, Loads
  <2> QED
    BY <1>0, <2>1, <2>2, <2>3 DEF FitInv, Loads
<1>4. CASE MakePlan
  <2>1. /\ stage' = "ExecuteTransfers" /\ plan' = Plan(exists, owner, stock')
        /\ exists' = exists /\ owner' = owner /\ dcs' = dcs
        /\ stock' = Produced(stock) \/ stock' = stock
    BY <1>4 DEF MakePlan, GoTo
  <2>2. stock' \in Loads
    BY <1>0, <2>1, ProducedStays
  <2>3. Sound(Plan(exists, owner, stock'), exists, owner, stock')
    <3>1. stock' \in [Objectives -> Nat]
      BY <2>2, LoadsAreNumbers DEF Inventories
    <3> QED
      BY <1>0, <3>1, PlanIsSound
  <2>4. Sound(plan', exists', owner', stock')
    BY <2>1, <2>3
  <2> QED
    BY <1>0, <2>1, <2>2, <2>4 DEF FitInv, Loads, Sound, Amounts, Leaving
<1>5. CASE Execute
  <2>1. PICK k \in 0 .. Len(plan) - 1 :
          /\ stock' = Executed(stock, Reverse(SubSeq(plan, k + 1, Len(plan))))
          /\ plan' = SubSeq(plan, 1, k)
    BY <1>5 DEF Execute
  <2>2. /\ stage = "ExecuteTransfers" /\ stage' = stage /\ exists' = exists
        /\ owner' = owner /\ dcs' = dcs /\ plan # <<>>
    BY <1>5 DEF Execute
  <2>3. Sound(plan, exists, owner, stock)
    BY <2>2 DEF FitInv
  <2>4. k \in 0..Len(plan)
    <3>1. Len(plan) \in Nat
      BY <2>3 DEF Sound
    <3> QED
      BY <3>1
  <2>5. stock' \in Loads /\ Sound(plan', exists, owner, stock')
    BY <1>0, <2>1, <2>3, <2>4, RestIsSound
  <2>6. Sound(plan', exists', owner', stock')
    BY <2>2, <2>5
  <2> QED
    BY <1>0, <2>2, <2>5, <2>6 DEF FitInv, Loads, Sound, Amounts, Leaving
<1>6. CASE Balance
  <2>1. stock' = AllBalanced(stock) /\ plan' = <<>> /\ exists' = exists /\ owner' = owner /\ dcs' = dcs
    BY <1>6 DEF Balance, GoTo
  <2>2. stock' \in Loads
    BY <1>0, <2>1, AllBalancedStays
  <2> QED
    BY <1>0, <2>1, <2>2 DEF FitInv, Loads
<1>7. CASE SyncTo
  <2> DEFINE o == Max(left)
  <2>1. /\ stage = "SyncTo" /\ stage' = stage /\ plan' = plan /\ exists' = exists
        /\ owner' = owner /\ stock' = stock
        /\ dcs' = IF o \in exists THEN Written({o}, listed, stock) ELSE dcs
    BY <1>7 DEF SyncTo
  <2> HIDE DEF o
  <2>2. plan = <<>>
    BY <2>1 DEF FitInv
  <2>3. dcs' \in Loads
    BY <1>0, <2>1 DEF Written, Loads
  <2> QED
    BY <1>0, <2>1, <2>2, <2>3 DEF FitInv, Loads
<1>8. CASE EndTick
  BY <1>8 DEF EndTick, GoTo, FitInv, Loads
<1> QED BY <1>1, <1>2, <1>3, <1>4, <1>5, <1>6, <1>7, <1>8 DEF LogisticsStep

LEMMA OthersFit == Ops \subseteq Harmless /\ FitInv /\ Others => FitInv'
<1> SUFFICES ASSUME Ops \subseteq Harmless, FitInv, Others PROVE FitInv'
  OBVIOUS
<1>0. stock \in Loads /\ dcs \in Loads /\ exists \subseteq Objectives /\ DOMAIN owner = Objectives
      /\ Word \in Nat \ {0}
  BY LoadsAreNumbers DEF FitInv
<1>1. CASE DeliverNow
  BY <1>1 DEF DeliverNow, FitInv, Loads, Sound, Amounts, Leaving
<1>2. CASE Restart
  <2>1. MizStock \in 0..(Word - 1) /\ 0 \in 0..(Word - 1)
    <3>1. Word \in Nat /\ MizStock \in Nat /\ MaxOps \in Nat /\ Word > MizStock + MaxOps
      BY LogisticsConstants
    <3> QED
      BY <3>1
  <2>2. dcs' \in Loads
    BY <1>2, <2>1 DEF Restart, Loads
  <2>3. stock' \in Loads
    BY <1>0, <1>2, <2>1 DEF Restart, Loads
  <2> QED
    BY <1>0, <1>2, <2>2, <2>3 DEF Restart, GoTo, FitInv, Loads
<1>3. CASE \E o \in Objectives : DcsChanges(o) \/ Aircraft(o) \/ ReduceInventory(o) \/ DeleteFarp(o)
  <2>1. PICK o \in Objectives : DcsChanges(o) \/ Aircraft(o) \/ ReduceInventory(o) \/ DeleteFarp(o)
    BY <1>3
  <2>2. CASE DcsChanges(o)
    <3>1. /\ stock' = stock /\ exists' = exists /\ owner' = owner /\ plan' = plan /\ stage' = stage
          /\ \/ dcs[o] > 0 /\ dcs' = Put(dcs, o, dcs[o] - 1)
             \/ dcs[o] + 1 < Word /\ dcs' = Put(dcs, o, dcs[o] + 1)
      BY <2>2 DEF DcsChanges
    <3>2. dcs[o] \in 0..(Word - 1)
      BY <1>0 DEF Loads
    <3>3. dcs' \in Loads
      <4>1. CASE dcs[o] > 0 /\ dcs' = Put(dcs, o, dcs[o] - 1)
        <5>1. dcs[o] - 1 \in 0..(Word - 1)
          BY <1>0, <3>2, <4>1
        <5> QED BY <1>0, <4>1, <5>1, PutStays
      <4>2. CASE dcs[o] + 1 < Word /\ dcs' = Put(dcs, o, dcs[o] + 1)
        <5>1. dcs[o] + 1 \in 0..(Word - 1)
          BY <1>0, <3>2, <4>2
        <5> QED BY <1>0, <4>2, <5>1, PutStays
      <4> QED BY <3>1, <4>1, <4>2
    <3> QED
      BY <3>1, <3>3 DEF FitInv, Loads, Sound, Amounts, Leaving
  <2>3. CASE Aircraft(o)
    BY <2>3 DEF Aircraft, Op, Harmless
  <2>4. CASE ReduceInventory(o)
    BY <2>4 DEF ReduceInventory, Op, Harmless
  <2>5. CASE DeleteFarp(o)
    <3>1. /\ stock' = stock /\ dcs' = dcs /\ owner' = owner /\ plan' = plan /\ stage' = stage
          /\ exists' = exists \ {o}
      BY <2>5 DEF DeleteFarp
    <3>2. Sound(plan, exists, owner, stock) => Sound(plan, exists \ {o}, owner, stock)
      BY DEF Sound
    <3> QED
      BY <3>1, <3>2 DEF FitInv, Loads, Sound, Amounts, Leaving
  <2> QED BY <2>1, <2>2, <2>3, <2>4, <2>5
<1>4. CASE \E from, to \in Objectives : TransferSupplies(from, to)
  BY <1>4 DEF TransferSupplies, Op, Harmless
<1>5. CASE \E o \in Objectives, side \in Sides : AddFarp(o, side) \/ Capture(o, side)
  <2>1. PICK o \in Objectives, side \in Sides : AddFarp(o, side) \/ Capture(o, side)
    BY <1>5
  <2>2. CASE AddFarp(o, side)
    BY <2>2 DEF AddFarp, Op, Harmless
  <2>3. CASE Capture(o, side)
    <3>1. /\ owner' = [owner EXCEPT ![o] = side] /\ dcs' = dcs /\ exists' = exists /\ plan' = <<>>
          /\ stock' = IF side \notin Makers THEN Put(stock, o, 0) ELSE stock
      BY <2>3 DEF Capture, GoTo
    <3>2. stock' \in Loads
      <4>1. 0 \in 0..(Word - 1)
        BY <1>0
      <4> QED
        BY <1>0, <3>1, <4>1, PutStays
    <3> QED
      BY <1>0, <3>1, <3>2 DEF FitInv, Loads
  <2> QED BY <2>1, <2>2, <2>3
<1> QED BY <1>1, <1>2, <1>3, <1>4, <1>5 DEF Others

\* As long as nothing but captures, deletions, restarts and DCS itself comes between the steps of
\* the tick, the hubs have what is planned to leave them and the objectives room for what is
\* planned to come.
THEOREM PlansFit == Ops \subseteq Harmless => (Spec => []PlanFits)
<1> SUFFICES ASSUME Ops \subseteq Harmless PROVE Spec => []PlanFits
  OBVIOUS
<1>1. Init => FitInv
  BY InitFits
<1>2. FitInv /\ [Next]_vars => FitInv'
  <2> SUFFICES ASSUME FitInv, [Next]_vars PROVE FitInv'
    OBVIOUS
  <2>1. CASE LogisticsStep
    BY <2>1, TickFits
  <2>2. CASE Others
    BY <2>2, OthersFit
  <2>3. CASE UNCHANGED vars
    BY <2>3 DEF vars, FitInv, Loads, Sound, Amounts, Leaving
  <2> QED BY <2>1, <2>2, <2>3 DEF Next
<1>3. FitInv => PlanFits
  BY FitMeansFits
<1> QED
  BY <1>1, <1>2, <1>3, PTL DEF Spec

-----------------------------------------------------------------------------
(* Shares are fair. *)

\* What somebody gets in his turn, if he lacks as much: an eighth of what is left, but at least one.
Grant(h) == IF h = 0 THEN 0 ELSE IF h \div 8 >= 1 THEN h \div 8 ELSE 1

LEMMA GrantGrows ==
    \A h, k \in Nat : h <= k => Grant(h) \in Nat /\ Grant(h) <= Grant(k) /\ Grant(h) <= h
<1>1. \A h, k \in Nat : h <= k => h \div 8 \in Nat /\ h \div 8 <= k \div 8 /\ h \div 8 <= h
  OBVIOUS
<1> QED
  BY <1>1 DEF Grant

Granted(s, demand, i) ==
    IF Grant(s.have) <= demand[i] - s.alloc[i] THEN Grant(s.have) ELSE demand[i] - s.alloc[i]

LEMMA ServeGrants ==
    ASSUME NEW have \in Nat, NEW demand \in Seq(Nat), NEW s \in Parted(have, demand),
           NEW i \in DOMAIN demand
    PROVE  LET x == Granted(s, demand, i)
               t == Serve(s, demand, i)
           IN  /\ x \in Nat /\ x <= s.have /\ s.alloc[i] + x <= demand[i]
               /\ t.have = s.have - x /\ t.alloc[i] = s.alloc[i] + x
               /\ \A j \in DOMAIN demand \ {i} : t.alloc[j] = s.alloc[j]
<1> DEFINE d == demand[i]
           a == s.alloc[i]
           f == s.alloc
           h == s.have
           x == Granted(s, demand, i)
           t == Serve(s, demand, i)
<1>1. h \in Nat /\ f \in Seq(Nat) /\ DOMAIN f = DOMAIN demand /\ a <= d
  BY DEF Parted, Shares
<1>2. a \in Nat /\ d \in Nat
  BY <1>1
<1>3. Grant(h) \in Nat /\ Grant(h) <= h
  BY <1>1, GrantGrows
<1>4. x \in Nat /\ x <= h /\ a + x <= d
  <2> HIDE DEF a, d, h
  <2> QED
    BY <1>1, <1>2, <1>3 DEF Granted, a, d, h
<1>5. CASE h = 0
  <2>1. t = s /\ x = 0
    <3>1. t = s
      BY <1>5 DEF Serve
    <3>2. x = 0
      BY <1>4, <1>5
    <3> QED BY <3>1, <3>2
  <2> HIDE DEF t, x
  <2>2. t.have = h - x /\ t.alloc[i] = a + x /\ \A j \in DOMAIN demand \ {i} : t.alloc[j] = f[j]
    BY <1>1, <1>2, <2>1
  <2> QED
    BY <1>4, <2>2 DEF t, x
<1>6. CASE h # 0
  <2> DEFINE p == Portion(h, d, a)
             e == h \div 8
             m == Max({1, e})
  <2>1. p = x
    <3>1. e \in Nat
      BY <1>1
    <3>2. m = IF 1 >= e THEN 1 ELSE e
      BY <3>1, MaxOfTwo
    <3>3. Grant(h) = IF e >= 1 THEN e ELSE 1
      BY <1>6 DEF Grant
    <3>4. p = Min({m, d - a})
      BY DEF Portion
    <3> HIDE DEF e, d, a, m
    <3>5. m = Grant(h)
      BY <3>1, <3>2, <3>3
    <3> HIDE DEF p
    <3>6. p = IF m <= d - a THEN m ELSE d - a
      BY <1>2, <1>3, <3>4, <3>5, MinOfTwo
    <3> QED
      BY <3>5, <3>6 DEF Granted, d, a
  <2>2. t = [have |-> h - p, alloc |-> [f EXCEPT ![i] = @ + p]]
    BY <1>6 DEF Serve
  <2> HIDE DEF p, t, x
  <2>3. t.have = h - p /\ t.alloc[i] = a + p /\ \A j \in DOMAIN demand \ {i} : t.alloc[j] = f[j]
    BY <1>1, <2>2
  <2> QED
    BY <1>4, <2>1, <2>3 DEF t, x
<1> QED
  BY <1>5, <1>6

Descends(f) == \A i, j \in DOMAIN f : i < j => f[i] >= f[j]

\* What a round that began with r has come to when the first i are served: each of them has all
\* he lacks, or got no less than anybody after him can get; and somebody got something, unless
\* none of them lacks anything.
Served(r, demand, i, s) ==
    /\ \A j \in DOMAIN demand : j > i => s.alloc[j] = r.alloc[j]
    /\ \A j \in DOMAIN demand : j <= i =>
          s.alloc[j] = demand[j] \/ s.alloc[j] >= r.alloc[j] + Grant(s.have)
    /\ \A j, k \in DOMAIN demand : j < k /\ k <= i => s.alloc[j] >= s.alloc[k]
    /\ s.have < r.have \/ \A j \in DOMAIN demand : j <= i => s.alloc[j] = demand[j]
    /\ s.have <= r.have

LEMMA ServesFairly ==
    ASSUME NEW have \in Nat, NEW demand \in Seq(Nat), NEW r \in Parted(have, demand),
           Descends(demand), Descends(r.alloc), r.have > 0,
           NEW i \in DOMAIN demand, NEW s \in Parted(have, demand), Served(r, demand, i - 1, s)
    PROVE  Served(r, demand, i, Serve(s, demand, i))
<1> DEFINE D == DOMAIN demand
           f == s.alloc
           h == s.have
           a == r.alloc
           t == Serve(s, demand, i)
           g == t.alloc
           x == Granted(s, demand, i)
<1>1. /\ x \in Nat /\ x <= h /\ f[i] + x <= demand[i]
      /\ t.have = h - x /\ g[i] = f[i] + x
      /\ \A j \in D \ {i} : g[j] = f[j]
  BY ServeGrants
<1>2. /\ h \in Nat /\ r.have \in Nat
      /\ \A j \in D : f[j] \in Nat /\ a[j] \in Nat /\ demand[j] \in Nat /\ f[j] <= demand[j]
  <2>1. /\ f \in Seq(Nat) /\ DOMAIN f = D /\ a \in Seq(Nat) /\ DOMAIN a = D /\ h \in Nat
        /\ r.have \in Nat /\ \A j \in D : f[j] <= demand[j]
    BY DEF Parted, Shares
  <2>2. D = DOMAIN demand
    OBVIOUS
  <2> HIDE DEF D, f, a, h
  <2>3. \A j \in D : demand[j] \in Nat
    BY ONLY <2>2, demand \in Seq(Nat)
  <2>4. (\A j \in D : f[j] \in Nat) /\ \A j \in D : a[j] \in Nat
    BY ONLY <2>1, SMTT(30)
  <2> QED
    BY <2>1, <2>3, <2>4
<1>3. D \subseteq Nat /\ i \in D
  <2>1. D = 1..Len(demand)
    OBVIOUS
  <2> QED
    BY <2>1
<1>4. /\ \A j \in D : j > i - 1 => f[j] = a[j]
      /\ \A j \in D : j <= i - 1 => f[j] = demand[j] \/ f[j] >= a[j] + Grant(h)
      /\ \A j, k \in D : j < k /\ k <= i - 1 => f[j] >= f[k]
      /\ h < r.have \/ \A j \in D : j <= i - 1 => f[j] = demand[j]
      /\ h <= r.have
  BY DEF Served
<1>5. \A j, k \in D : j < k => demand[j] >= demand[k] /\ a[j] >= a[k]
  <2>1. DOMAIN a = D
    BY DEF Parted
  <2> QED
    BY <2>1 DEF Descends
<1>6. x = IF Grant(h) <= demand[i] - f[i] THEN Grant(h) ELSE demand[i] - f[i]
  BY DEF Granted
<1>7. Grant(h) \in Nat /\ Grant(h - x) \in Nat /\ Grant(h - x) <= Grant(h) /\ (h > 0 => Grant(h) > 0)
  <2> DEFINE w == h - x
  <2>0. h \in Nat /\ x \in Nat /\ x <= h
    BY <1>1, <1>2
  <2> HIDE DEF h, x
  <2>1. w \in Nat /\ w <= h
    BY <2>0
  <2>2. h > 0 => Grant(h) > 0
    BY <2>0 DEF Grant
  <2> HIDE DEF w
  <2>3. Grant(h) \in Nat /\ Grant(w) \in Nat /\ Grant(w) <= Grant(h)
    <3>1. h <= h
      BY <2>0
    <3> QED
      BY <2>0, <2>1, <3>1, GrantGrows
  <2> QED
    BY <2>2, <2>3 DEF w
<1> HIDE DEF D, f, h, a, t, g, x
<1>8. ASSUME NEW j \in D, j > i PROVE g[j] = a[j]
  <2>1. j # i /\ j > i - 1
    BY <1>3, <1>8
  <2> QED
    BY <1>1, <1>4, <2>1
<1>9. ASSUME NEW j \in D, j <= i PROVE g[j] = demand[j] \/ g[j] >= a[j] + Grant(t.have)
  <2>1. CASE j = i
    <3>1. f[i] = a[i]
      BY <1>3, <1>4
    <3>2. f[i] \in Nat /\ demand[i] \in Nat /\ g[i] = f[i] + x
      BY <1>1, <1>2, <1>3
    <3>3. Grant(t.have) \in Nat /\ Grant(t.have) <= Grant(h) /\ Grant(h) \in Nat
      BY <1>1, <1>7
    <3>4. g[i] = demand[i] \/ g[i] >= a[i] + Grant(t.have)
      BY <1>6, <3>1, <3>2, <3>3
    <3> QED
      BY <2>1, <3>4
  <2>2. CASE j # i
    <3>1. g[j] = f[j] /\ j <= i - 1
      BY <1>1, <1>3, <1>9, <2>2
    <3>2. f[j] = demand[j] \/ f[j] >= a[j] + Grant(h)
      BY <1>4, <3>1
    <3> QED
      BY <1>1, <1>2, <1>7, <3>1, <3>2
  <2> QED BY <2>1, <2>2
<1>10. ASSUME NEW j \in D, NEW k \in D, j < k, k <= i PROVE g[j] >= g[k]
  <2>1. g[j] = f[j] /\ j <= i - 1
    BY <1>1, <1>3, <1>10
  <2>2. CASE k = i
    <3>1. f[i] = a[i]
      BY <1>3, <1>4
    <3>2. f[j] = demand[j] \/ f[j] >= a[j] + Grant(h)
      BY <1>4, <2>1
    <3>3. demand[j] >= demand[i] /\ a[j] >= a[i]
      BY <1>5, <1>10, <2>2
    <3>4. g[i] <= demand[i] /\ g[i] <= a[i] + Grant(h)
      BY <1>1, <1>2, <1>3, <1>6, <1>7, <3>1
    <3>5. g[i] \in Nat
      BY <1>1, <1>2, <1>3
    <3>6. f[j] \in Nat /\ a[j] \in Nat /\ a[i] \in Nat /\ demand[j] \in Nat /\ demand[i] \in Nat
      BY <1>2, <1>3
    <3>7. f[j] >= g[i]
      <4>1. CASE f[j] = demand[j]
        BY <3>3, <3>4, <3>5, <3>6, <4>1
      <4>2. CASE f[j] >= a[j] + Grant(h)
        BY <1>7, <3>3, <3>4, <3>5, <3>6, <4>2, SMTT(30)
      <4> QED BY <3>2, <4>1, <4>2
    <3> QED
      BY <2>1, <2>2, <3>7
  <2>3. CASE k # i
    <3>1. k <= i - 1 /\ g[k] = f[k]
      BY <1>1, <1>3, <1>10, <2>3
    <3> QED
      BY <1>4, <1>10, <2>1, <3>1
  <2> QED BY <2>2, <2>3
<1>11. t.have < r.have \/ \A j \in D : j <= i => g[j] = demand[j]
  <2>1. CASE h < r.have
    BY <1>1, <1>2, <2>1
  <2>2. CASE ~(h < r.have)
    <3>1. h = r.have /\ \A j \in D : j <= i - 1 => f[j] = demand[j]
      BY <1>2, <1>4, <2>2
    <3>2. CASE x = 0
      <4>1. g[i] = demand[i]
        BY <1>1, <1>2, <1>3, <1>6, <1>7, <3>1, <3>2
      <4>2. ASSUME NEW j \in D, j <= i, j # i PROVE g[j] = demand[j]
        <5>1. j <= i - 1
          BY <1>3, <4>2
        <5> QED
          BY <1>1, <3>1, <4>2, <5>1
      <4> QED
        BY <4>1, <4>2
    <3>3. CASE x # 0
      BY <1>1, <1>2, <3>1, <3>3
    <3> QED BY <3>2, <3>3
  <2> QED BY <2>1, <2>2
<1>12. t.have <= r.have
  BY <1>1, <1>2, <1>4
<1> QED
  BY <1>8, <1>9, <1>10, <1>11, <1>12 DEF Served, D, g, a, t

\* After a round that began fairly everybody has what he lacks or there is less left.
LEMMA RoundIsFair ==
    ASSUME NEW have \in Nat, NEW demand \in Seq(Nat), NEW r \in Parted(have, demand),
           Descends(demand), Descends(r.alloc), r.have > 0
    PROVE  LET s == Round(r, demand)
           IN  /\ Descends(s.alloc)
               /\ s.have < r.have \/ \A j \in DOMAIN demand : s.alloc[j] = demand[j]
<1> DEFINE n == Len(demand)
           V == Parted(have, demand)
           serve(i) == [t \in Shares |-> Serve(t, demand, i)]
           steps == [i \in DOMAIN demand |-> serve(i)]
<1>1. n \in Nat /\ DOMAIN demand = 1..n /\ DOMAIN steps = 1..n
  OBVIOUS
<1>2. \A i \in 1..n, t \in V : steps[i][t] = Serve(t, demand, i)
  BY <1>1 DEF Parted
<1>3. \A i \in 1..n, t \in V : steps[i][t] \in V
  BY <1>1, <1>2, ServeKeepsParted
<1>4. Round(r, demand) = Along(r, steps)
  BY DEF Round
<1>5. r \in V
  OBVIOUS
<1> HIDE DEF steps, V, n
<1>6. PICK run : Stages(run, r, steps, n, V)
  BY <1>1, <1>3, <1>5, AlongRuns
<1>7. /\ run \in [0..n -> V] /\ run[0] = r /\ run[n] = Round(r, demand)
      /\ \A i \in 1..n : run[i] = steps[i][run[i - 1]]
  BY <1>4, <1>6 DEF Stages
<1> DEFINE P == {i \in 0..n : Served(r, demand, i, run[i])}
<1>8. 0 \in P
  <2>1. \A j \in DOMAIN demand : j > 0 /\ ~(j <= 0)
    BY <1>1
  <2>2. r.have \in Nat
    BY DEF Parted, Shares
  <2> QED
    BY <1>1, <1>7, <2>1, <2>2 DEF Served
<1>9. ASSUME NEW i \in 1..n, i - 1 \in P PROVE i \in P
  <2>1. i - 1 \in 0..n /\ Served(r, demand, i - 1, run[i - 1]) /\ run[i - 1] \in V
    BY <1>1, <1>7, <1>9
  <2>2. run[i] = Serve(run[i - 1], demand, i)
    BY <1>2, <1>7, <2>1
  <2>3. i \in DOMAIN demand /\ run[i - 1] \in Parted(have, demand)
    BY <1>1, <2>1 DEF V
  <2>4. Served(r, demand, i, run[i])
    BY <2>1, <2>2, <2>3, ServesFairly
  <2> QED
    BY <1>1, <2>4
<1> HIDE DEF P
<1>10. n \in P
  <2>1. \A i \in 0..n : i \in P
    BY <1>1, <1>8, <1>9, Stepwise
  <2> QED
    BY <1>1, <2>1
<1> DEFINE s == Round(r, demand)
<1>11. Served(r, demand, n, s)
  BY <1>7, <1>10 DEF P
<1>12. DOMAIN s.alloc = DOMAIN demand
  <2>1. s \in V
    BY <1>1, <1>7
  <2> QED
    BY <2>1 DEF V, Parted
<1> HIDE DEF s
<1>13. \A j \in DOMAIN demand : j <= n
  BY <1>1
<1> QED
  BY <1>11, <1>12, <1>13 DEF Served, Descends, s

LEMMA StartIsParted ==
    ASSUME NEW have \in Nat, NEW demand \in Seq(Nat)
    PROVE  [have |-> have, alloc |-> [i \in DOMAIN demand |-> 0]] \in Parted(have, demand)
<1> DEFINE start == [have |-> have, alloc |-> [i \in DOMAIN demand |-> 0]]
           z == start.alloc
<1>1. start \in Shares /\ start.have = have /\ DOMAIN z = DOMAIN demand
  BY DEF Shares
<1>2. \A i \in DOMAIN demand : z[i] = 0
  OBVIOUS
<1>3. IsFiniteSet(DOMAIN demand)
  BY FS_Interval
<1>4. 0 \in Int
  OBVIOUS
<1> HIDE DEF z
<1>5. Numbers(z, {}) /\ {} \in SUBSET DOMAIN demand
  BY DEF Numbers
<1>6. SumOf(z, DOMAIN demand) = SumOf(z, {})
  BY <1>2, <1>3, <1>5, SumOfZeros
<1>7. SumOf(z, DOMAIN demand) = 0
  BY <1>6, SumOfNone
<1>8. start.have + SumOf(start.alloc, DOMAIN demand) = have
  BY <1>1, <1>7 DEF z
<1>9. \A i \in DOMAIN demand : z[i] <= demand[i]
  BY <1>2
<1> HIDE DEF start
<1>10. start \in Parted(have, demand)
  BY <1>1, <1>8, <1>9 DEF Parted, z
<1> QED
  BY <1>10 DEF start

\* Everything there is is divided as far as it is lacked, and who lacks less never gets more.
LEMMA AllocationIsFair ==
    ASSUME NEW have \in Nat, NEW demand \in Seq(Nat), Descends(demand)
    PROVE  LET alloc == Allocation(have, demand)
               lacked == SumOf(demand, DOMAIN demand)
           IN  /\ Descends(alloc)
               /\ SumOf(alloc, DOMAIN demand) = IF have <= lacked THEN have ELSE lacked
<1> DEFINE start == [have |-> have, alloc |-> [i \in DOMAIN demand |-> 0]]
           next == [s \in Shares |->
                      IF s.have > 0 /\ Total(s.alloc) < Total(demand) THEN Round(s, demand) ELSE s]
           steps == [n \in 1..have |-> next]
           D == DOMAIN demand
           V == {s \in Parted(have, demand) : Descends(s.alloc)}
           end == Along(start, steps)
           lacked == SumOf(demand, D)
           Done(s) == s.have = 0 \/ lacked <= SumOf(s.alloc, D)
<1>1. Allocation(have, demand) = end.alloc
  BY DEF Allocation
<1>2. start \in V
  <2>1. start \in Parted(have, demand)
    BY StartIsParted
  <2>2. Descends(start.alloc)
    BY DEF Descends
  <2> QED
    BY <2>1, <2>2
<1>3. \A s \in V : /\ s \in Shares /\ s.have \in Nat /\ DOMAIN s.alloc = D
                   /\ \A i \in D : s.alloc[i] \in Nat /\ s.alloc[i] <= demand[i]
                   /\ SumOf(s.alloc, D) \in Int /\ s.have + SumOf(s.alloc, D) = have
                   /\ Total(s.alloc) = SumOf(s.alloc, D)
  <2> SUFFICES ASSUME NEW s \in V
               PROVE  /\ s \in Shares /\ s.have \in Nat /\ DOMAIN s.alloc = D
                      /\ \A i \in D : s.alloc[i] \in Nat /\ s.alloc[i] <= demand[i]
                      /\ SumOf(s.alloc, D) \in Int /\ s.have + SumOf(s.alloc, D) = have
                      /\ Total(s.alloc) = SumOf(s.alloc, D)
    OBVIOUS
  <2> DEFINE f == s.alloc
  <2>1. /\ s \in Shares /\ s.have \in Nat /\ f \in Seq(Nat) /\ DOMAIN f = D
        /\ \A i \in D : f[i] <= demand[i]
        /\ s.have + SumOf(f, D) = have
    BY DEF Parted, Shares
  <2>2. IsFiniteSet(D)
    BY FS_Interval
  <2> HIDE DEF f, D
  <2>3. \A i \in D : f[i] \in Nat
    BY ONLY <2>1
  <2>4. SumOf(f, D) \in Int
    BY <2>2, <2>3, SumIsNumber DEF Numbers
  <2> QED
    BY <2>1, <2>3, <2>4, TotalIsSum DEF f
<1>4. Total(demand) = lacked /\ lacked \in Int
  <2>1. IsFiniteSet(D) /\ Numbers(demand, D)
    BY FS_Interval DEF Numbers
  <2> QED
    BY <2>1, TotalIsSum, SumIsNumber
<1>5. \A n \in 1..have, s \in V : steps[n][s] = IF s.have > 0 /\ Total(s.alloc) < Total(demand)
                                                THEN Round(s, demand) ELSE s
  BY <1>3
<1>6. DOMAIN steps = 1..have
  OBVIOUS
<1> HIDE DEF steps, start, end
<1>7. ASSUME NEW s \in V, s.have > 0
      PROVE  /\ Round(s, demand) \in V
             /\ Round(s, demand).have < s.have \/ Done(Round(s, demand))
  <2> DEFINE t == Round(s, demand)
  <2>1. t \in Parted(have, demand)
    BY RoundKeepsParted
  <2>2. Descends(t.alloc) /\ (t.have < s.have \/ \A j \in D : t.alloc[j] = demand[j])
    BY <1>7, RoundIsFair
  <2>3. t \in V
    BY <2>1, <2>2
  <2>4. ASSUME \A j \in D : t.alloc[j] = demand[j] PROVE lacked <= SumOf(t.alloc, D)
    <3>1. IsFiniteSet(D) /\ Numbers(demand, D)
      BY FS_Interval DEF Numbers
    <3> DEFINE g == t.alloc
    <3> HIDE DEF g, D
    <3>2. SumOf(g, D) = SumOf(demand, D)
      BY <2>4, <3>1, SumSame DEF g
    <3> QED
      BY <1>4, <3>2 DEF g
  <2> QED
    BY <2>2, <2>3, <2>4
<1> HIDE DEF V, lacked, D
<1>8. \A n \in 1..have, s \in V : steps[n][s] \in V
  BY <1>5, <1>7
<1>9. PICK run : Stages(run, start, steps, have, V)
  BY <1>2, <1>6, <1>8, AlongRuns
<1>10. /\ run \in [0..have -> V] /\ run[0] = start /\ run[have] = end
       /\ \A i \in 1..have : run[i] = steps[i][run[i - 1]]
  BY <1>9 DEF Stages, end
<1> DEFINE P == {k \in 0..have : Done(run[k]) \/ run[k].have + k <= have}
<1>11. 0 \in P
  <2>1. start.have = have
    BY DEF start
  <2> QED
    BY <1>10, <2>1
<1>12. ASSUME NEW k \in 1..have, k - 1 \in P PROVE k \in P
  <2> DEFINE s == run[k - 1]
             t == run[k]
  <2>1. k - 1 \in 0..have /\ k \in 0..have /\ k \in Nat
    OBVIOUS
  <2>2. s \in V /\ t \in V
    BY <1>10, <2>1
  <2>3. t = IF s.have > 0 /\ Total(s.alloc) < Total(demand) THEN Round(s, demand) ELSE s
    BY <1>5, <1>10, <2>2
  <2>4. Done(s) \/ s.have + (k - 1) <= have
    BY <1>12
  <2> HIDE DEF s, t
  <2>5. /\ s.have \in Nat /\ SumOf(s.alloc, D) \in Int /\ Total(s.alloc) = SumOf(s.alloc, D)
        /\ t.have \in Nat
    BY <1>3, <2>2
  <2>6. CASE Done(s)
    <3>1. t = s
      BY <1>4, <2>3, <2>5, <2>6
    <3> QED
      BY <2>1, <2>6, <3>1 DEF t
  <2>7. CASE ~Done(s)
    <3>1. s.have > 0 /\ Total(s.alloc) < Total(demand)
      BY <1>4, <2>5, <2>7
    <3>2. t.have < s.have \/ Done(t)
      BY <1>7, <2>2, <2>3, <3>1
    <3>3. Done(t) \/ t.have + k <= have
      <4>1. CASE Done(t)
        BY <4>1
      <4>2. CASE t.have < s.have
        <5>1. s.have + (k - 1) <= have
          BY <2>4, <2>7
        <5> DEFINE a == s.have
                   b == t.have
        <5>2. a \in Nat /\ b \in Nat /\ b < a /\ a + (k - 1) <= have
          BY <2>5, <4>2, <5>1
        <5> HIDE DEF a, b
        <5>3. b + k <= have
          BY <2>1, <5>2
        <5> QED
          BY <5>3 DEF b
      <4> QED
        BY <3>2, <4>1, <4>2
    <3> QED
      BY <2>1, <3>3 DEF t
  <2> QED
    BY <2>6, <2>7
<1> HIDE DEF P
<1>13. have \in P
  <2>1. \A k \in 0..have : k \in P
    BY <1>11, <1>12, Stepwise
  <2> QED
    BY <2>1
<1>14. Done(end) \/ end.have + have <= have
  BY <1>10, <1>13 DEF P
<1>15. end \in V
  BY <1>10
<1>16. /\ end.have \in Nat /\ SumOf(end.alloc, D) \in Int /\ end.have + SumOf(end.alloc, D) = have
       /\ SumOf(end.alloc, D) <= lacked
  <2>1. /\ end.have \in Nat /\ SumOf(end.alloc, D) \in Int /\ end.have + SumOf(end.alloc, D) = have
        /\ \A i \in D : end.alloc[i] \in Nat /\ end.alloc[i] <= demand[i]
    BY <1>3, <1>15
  <2>2. IsFiniteSet(D) /\ Numbers(demand, D)
    BY FS_Interval DEF Numbers, D
  <2> DEFINE g == end.alloc
  <2> HIDE DEF g
  <2>3. Numbers(g, D) /\ \A i \in D : g[i] <= demand[i]
    BY <2>1 DEF Numbers, g
  <2>4. SumOf(g, D) <= SumOf(demand, D)
    BY <2>2, <2>3, SumWithin
  <2> QED
    BY <2>1, <2>4 DEF g, lacked
<1>17. SumOf(end.alloc, D) = IF have <= lacked THEN have ELSE lacked
  <2> DEFINE a == end.have
             b == SumOf(end.alloc, D)
  <2>1. a \in Nat /\ b \in Int /\ a + b = have /\ b <= lacked /\ lacked \in Int
    BY <1>4, <1>16
  <2>2. a = 0 \/ lacked <= b \/ a + have <= have
    BY <1>14
  <2> HIDE DEF a, b
  <2>3. b = IF have <= lacked THEN have ELSE lacked
    BY <2>1, <2>2
  <2> QED
    BY <2>3 DEF b
<1>18. Descends(end.alloc)
  BY <1>15 DEF V
<1> QED
  BY <1>1, <1>17, <1>18 DEF lacked, D

LEMMA StocksAscend ==
    ASSUME NEW s \in Stocks
    PROVE  /\ s \in Seq(Nat) /\ Len(s) > 0
           /\ \A i, j \in DOMAIN s : i < j => s[i] <= s[j]
<1>1. PICK n \in 1..MaxCustomers : s \in [1..n -> 0..MaxStock]
  BY DEF Stocks
<1>2. n \in Nat \ {0} /\ s \in [1..n -> Nat]
  BY <1>1, SupplyBounds
<1>3. s \in Seq(Nat) /\ Len(s) > 0
  BY ONLY <1>2
<1> QED
  BY <1>3 DEF Stocks

LEMMA LacksDescend ==
    ASSUME NEW s \in Stocks
    PROVE  Lacks(s) \in Seq(Nat) /\ DOMAIN Lacks(s) = DOMAIN s /\ Descends(Lacks(s))
<1> DEFINE n == Len(s)
           l == Lacks(s)
           m == MaxStock - 2
<1>1. s \in Seq(Nat) /\ \A i, j \in DOMAIN s : i < j => s[i] <= s[j]
  BY StocksAscend
<1>2. n \in Nat /\ DOMAIN s = 1..n /\ \A i \in 1..n : s[i] \in Nat
  BY <1>1
<1>3. m \in Int
  BY SupplyBounds
<1>4. l = [i \in 1..n |-> IF s[i] <= m THEN m - s[i] ELSE 0]
  BY <1>2 DEF Lacks
<1> HIDE DEF l, m, n
<1>5. l \in [1..n -> Nat]
  BY <1>2, <1>3, <1>4
<1>6. l \in Seq(Nat) /\ DOMAIN l = 1..n
  BY ONLY <1>2, <1>5
<1>7. ASSUME NEW i \in 1..n, NEW j \in 1..n, i < j PROVE l[i] >= l[j]
  <2>1. s[i] \in Nat /\ s[j] \in Nat /\ s[i] <= s[j]
    BY <1>1, <1>2, <1>7
  <2> QED
    BY <1>3, <1>4, <2>1
<1> QED
  BY <1>2, <1>6, <1>7 DEF Descends, l

LEMMA SharesAreFairlyDivided ==
    ASSUME NEW have \in 0..MaxHave, NEW s \in Stocks PROVE DividesFairly(have, s)
<1> DEFINE d == Lacks(s)
           D == DOMAIN s
           alloc == Allocation(have, d)
           lacked == SumOf(d, D)
<1>1. have \in Nat
  BY SupplyBounds
<1>2. d \in Seq(Nat) /\ DOMAIN d = D /\ Descends(d)
  BY LacksDescend
<1>3. Total(d) = lacked /\ lacked \in Int
  <2>1. IsFiniteSet(D) /\ Numbers(d, D)
    <3>1. D = 1..Len(d)
      BY <1>2
    <3> HIDE DEF d, D
    <3>2. \A i \in D : d[i] \in Nat
      BY ONLY <1>2
    <3> QED
      BY <1>2, <3>1, <3>2, FS_Interval DEF Numbers
  <2> HIDE DEF d, D
  <2> QED
    BY <1>2, <2>1, TotalIsSum, SumIsNumber
<1> HIDE DEF d
<1>4. /\ alloc \in Seq(Nat) /\ DOMAIN alloc = DOMAIN d
      /\ \A i \in DOMAIN d : alloc[i] <= d[i]
  BY <1>1, <1>2, AllocationFits
<1>5. /\ Descends(alloc)
      /\ SumOf(alloc, DOMAIN d) = IF have <= lacked THEN have ELSE lacked
  BY <1>1, <1>2, AllocationIsFair
<1> HIDE DEF alloc, lacked, D
<1>6. Total(alloc) = Min({have, Total(d)})
  BY <1>1, <1>2, <1>3, <1>4, <1>5, TotalIsSum, MinOfTwo
<1>7. \A i \in D : alloc[i] \in 0..d[i]
  <2>1. \A i \in D : alloc[i] \in Nat /\ d[i] \in Nat
    <3>1. \A i \in DOMAIN alloc : alloc[i] \in Nat
      BY ONLY <1>4
    <3>2. \A i \in DOMAIN d : d[i] \in Nat
      BY ONLY <1>2
    <3> QED
      BY <1>2, <1>4, <3>1, <3>2
  <2> QED
    BY <1>2, <1>4, <2>1
<1>8. \A i, j \in D : i < j => alloc[i] >= alloc[j]
  BY <1>2, <1>4, <1>5 DEF Descends
<1> QED
  BY <1>6, <1>7, <1>8 DEF DividesFairly, alloc, d, D

\* Whatever a hub has and however much its customers have: everything it has is given out as far as
\* it is lacked, and who has less never gets less (deliver_supplies_from_logistics_hubs).
THEOREM SharesAlwaysFair == Spec => []SharesAreFair
<1>1. SharesAreFair
  BY SharesAreFairlyDivided DEF SharesAreFair
<1> QED
  BY <1>1, PTL

-----------------------------------------------------------------------------
(* Evening out evens out. *)

\* The last step comes after the others.
LEMMA AlongAppends ==
    ASSUME NEW steps, NEW more, NEW start, NEW n \in Nat,
           DOMAIN steps = 1..n, DOMAIN more = 1..(n + 1),
           \A i \in 1..n : more[i] = steps[i],
           NEW V, start \in V, \A i \in 1..(n + 1), v \in V : more[i][v] \in V
    PROVE  Along(start, more) = more[n + 1][Along(start, steps)]
<1>0. \A i \in 1..n : i \in 1..(n + 1)
  OBVIOUS
<1>1. \A i \in 1..n, v \in V : steps[i][v] \in V
  BY <1>0
<1>2. PICK run : Stages(run, start, steps, n, V)
  BY <1>1, AlongRuns
<1>3. PICK on : Stages(on, start, more, n + 1, V)
  <2>1. n + 1 \in Nat
    OBVIOUS
  <2> QED
    BY <2>1, AlongRuns
<1>4. /\ run[0] = start /\ run[n] = Along(start, steps)
      /\ \A i \in 1..n : run[i] = steps[i][run[i - 1]]
  BY <1>2 DEF Stages
<1>5. /\ on[0] = start /\ on[n + 1] = Along(start, more)
      /\ \A i \in 1..(n + 1) : on[i] = more[i][on[i - 1]]
  BY <1>3 DEF Stages
<1> DEFINE P == {i \in 0..n : on[i] = run[i]}
<1>6. 0 \in P
  BY <1>4, <1>5
<1>7. ASSUME NEW i \in 1..n, i - 1 \in P PROVE i \in P
  BY <1>0, <1>4, <1>5, <1>7
<1>8. \A i \in 0..n : i \in P
  <2> HIDE DEF P
  <2> QED
    BY <1>6, <1>7, Stepwise
<1>9. on[n] = run[n]
  BY <1>8
<1>10. on[n + 1] = more[n + 1][on[n]]
  <2>1. n + 1 \in 1..(n + 1) /\ (n + 1) - 1 = n
    OBVIOUS
  <2> QED
    BY <1>5, <2>1
<1> QED
  BY <1>4, <1>5, <1>9, <1>10

Gifts(D) == [from : D, to : D, amount : Nat \ {0}]

\* What the moves come to, one by one.
LEMMA AfterNone == ASSUME NEW stocks \in Seq(Nat) PROVE After(stocks, <<>>) = stocks
<1> DEFINE given(m) == [have \in [DOMAIN stocks -> Int] |-> Give(have, m)]
           none == <<>>
           steps == [k \in DOMAIN none |-> given(none[k])]
<1>1. DOMAIN steps = 1..0
  OBVIOUS
<1>2. After(stocks, <<>>) = Along(stocks, steps)
  BY DEF After
<1>3. 0 \in Nat /\ stocks \in {stocks} /\ \A i \in 1..0, v \in {stocks} : steps[i][v] \in {stocks}
  OBVIOUS
<1> HIDE DEF steps
<1>4. PICK run : Stages(run, stocks, steps, 0, {stocks})
  BY <1>1, <1>3, AlongRuns
<1> QED
  BY <1>2, <1>4 DEF Stages

LEMMA AfterAppends ==
    ASSUME NEW stocks \in Seq(Nat), NEW moves \in Seq(Gifts(DOMAIN stocks)),
           NEW m \in Gifts(DOMAIN stocks)
    PROVE  After(stocks, Append(moves, m)) = Give(After(stocks, moves), m)
<1> DEFINE D == DOMAIN stocks
           V == [D -> Int]
           n == Len(moves)
           given(a) == [have \in [DOMAIN stocks -> Int] |-> Give(have, a)]
           steps == [k \in DOMAIN moves |-> given(moves[k])]
           longer == Append(moves, m)
           more == [k \in DOMAIN longer |-> given(longer[k])]
<1>1. /\ n \in Nat /\ DOMAIN moves = 1..n /\ DOMAIN longer = 1..(n + 1)
      /\ longer[n + 1] = m /\ \A i \in 1..n : longer[i] = moves[i]
  OBVIOUS
<1>2. \A i \in 1..(n + 1) : longer[i] \in Gifts(D)
  <2>1. longer \in Seq(Gifts(D))
    OBVIOUS
  <2> HIDE DEF longer, n
  <2> QED
    BY ONLY <1>1, <2>1
<1> HIDE DEF longer, n
<1>3. \A a \in Gifts(D), v \in V : Give(v, a) \in V
  <2> SUFFICES ASSUME NEW a \in Gifts(D), NEW v \in V PROVE Give(v, a) \in V
    OBVIOUS
  <2>1. a.from \in D /\ a.to \in D /\ a.amount \in Int
    BY DEF Gifts
  <2> HIDE DEF D
  <2>2. v[a.from] - a.amount \in Int /\ v[a.to] + a.amount \in Int /\ v \in [D -> Int]
    BY <2>1
  <2> QED
    BY <2>1, <2>2 DEF Give
<1>4. \A i \in 1..(n + 1), v \in V : more[i][v] = Give(v, longer[i])
  BY <1>1
<1>5. \A i \in 1..n : more[i] = steps[i]
  <2>1. \A i \in 1..n : i \in 1..(n + 1) /\ i \in DOMAIN longer /\ longer[i] = moves[i]
    BY <1>1
  <2> QED
    BY <1>1, <2>1
<1>6. DOMAIN steps = 1..n /\ DOMAIN more = 1..(n + 1) /\ stocks \in V
  <2>1. stocks \in V
    OBVIOUS
  <2> QED
    BY <1>1, <2>1
<1>7. After(stocks, moves) = Along(stocks, steps) /\ After(stocks, longer) = Along(stocks, more)
  BY DEF After
<1> HIDE DEF steps, more, V
<1>8. \A i \in 1..(n + 1), v \in V : more[i][v] \in V
  BY <1>2, <1>3, <1>4
<1>9. Along(stocks, more) = more[n + 1][Along(stocks, steps)]
  BY <1>1, <1>5, <1>6, <1>8, AlongAppends
<1>10. Along(stocks, steps) \in V
  <2>1. \A i \in 1..n, v \in V : steps[i][v] \in V
    <3>1. \A i \in 1..n : i \in 1..(n + 1)
      BY <1>1
    <3> QED
      BY <1>5, <1>8, <3>1
  <2> QED
    BY <1>1, <1>6, <2>1, AlongStays
<1>11. more[n + 1][Along(stocks, steps)] = Give(Along(stocks, steps), m)
  <2>1. n + 1 \in 1..(n + 1)
    BY <1>1
  <2> QED
    BY <1>1, <1>4, <1>10, <2>1
<1> QED
  BY <1>7, <1>9, <1>11 DEF longer

AtMean(f, D, mean) == {j \in D : f[j] = mean}

Elsewhere(f, g, D, i, t) == \A j \in D : j # i /\ j # t => g[j] = f[j]

\* A move between two that are not at the mean takes one of them there.
LEMMA MoreAtMean ==
    ASSUME NEW D, IsFiniteSet(D), NEW f, NEW g, NEW mean, NEW i \in D, NEW t \in D, i # t,
           f[i] # mean, f[t] # mean, g[i] = mean \/ g[t] = mean,
           Elsewhere(f, g, D, i, t)
    PROVE  /\ Cardinality(AtMean(f, D, mean)) + 2 <= Cardinality(D)
           /\ Cardinality(AtMean(f, D, mean)) + 1 <= Cardinality(AtMean(g, D, mean))
           /\ Cardinality(AtMean(f, D, mean)) \in Nat
<1> DEFINE A == AtMean(f, D, mean)
           B == AtMean(g, D, mean)
           C == A \cup {i}
           E == C \cup {t}
<1>0. \A j \in D : j # i /\ j # t => g[j] = f[j]
  BY DEF Elsewhere
<1>1. A \subseteq D /\ B \subseteq D /\ i \notin A /\ t \notin C /\ E \subseteq D
  BY DEF AtMean
<1>2. IsFiniteSet(A) /\ IsFiniteSet(B) /\ IsFiniteSet(C) /\ IsFiniteSet(E)
  <2> HIDE DEF A, B, C, E
  <2>1. C \subseteq D
    BY <1>1 DEF C
  <2> QED
    BY <1>1, <2>1, FS_Subset
<1>3. PICK y \in {i, t} : g[y] = mean
  OBVIOUS
<1>4. A \cup {y} \subseteq B /\ y \notin A
  BY <1>0, <1>3 DEF AtMean
<1> HIDE DEF A, B, C
<1>5. Cardinality(A) \in Nat /\ Cardinality(B) \in Nat /\ Cardinality(D) \in Nat
  BY <1>2, FS_CardinalityType
<1>6. Cardinality(C) = Cardinality(A) + 1
  BY <1>1, <1>2, FS_AddElement DEF C
<1>7. Cardinality(E) = Cardinality(C) + 1
  BY <1>1, <1>2, FS_AddElement
<1> HIDE DEF E
<1>8. Cardinality(E) <= Cardinality(D)
  BY <1>1, FS_Subset
<1>9. Cardinality(A \cup {y}) = Cardinality(A) + 1
  BY <1>2, <1>4, FS_AddElement
<1>10. Cardinality(A \cup {y}) <= Cardinality(B)
  BY <1>2, <1>4, FS_Subset
<1> QED
  BY <1>5, <1>6, <1>7, <1>8, <1>9, <1>10 DEF A, B

\* While the hubs are evened out: the stocks are what the moves have come to, each move took one
\* more hub to the mean, those before s.i have enough and those after it got nothing yet.
Counted(stocks, mean) ==
    {s \in Levelled(stocks, mean) :
        /\ After(stocks, s.moves) = s.have
        /\ Len(s.moves) <= Cardinality(AtMean(s.have, DOMAIN stocks, mean))
        /\ Len(s.moves) < Len(stocks)
        /\ \A j \in DOMAIN stocks :
              /\ j > s.i /\ stocks[j] < mean => s.have[j] = stocks[j]
              /\ j < s.i => s.have[j] + 1 >= mean}

LEMMA FillCounts ==
    ASSUME NEW stocks, NEW mean, Affordable(stocks, mean), NEW s \in Counted(stocks, mean),
           s.i <= Len(stocks)
    PROVE  Fill(s, mean) \in Counted(stocks, mean) /\ Fill(s, mean).i = s.i
<1>1. CASE Enough(s, mean)
  BY <1>1 DEF Fill
<1>2. CASE ~Enough(s, mean)
  <2> DEFINE n == Len(stocks)
             D == 1..n
             f == s.have
             i == s.i
             r == Fill(s, mean)
  <2>0. s \in Levelled(stocks, mean)
    BY DEF Counted
  <2>1. /\ s \in Levels /\ DOMAIN stocks = D /\ n \in Nat /\ s.take <= n /\ i > 0 /\ i <= n
        /\ mean \in Nat /\ DOMAIN f = D /\ stocks \in Seq(Nat)
        /\ \A j \in D : stocks[j] <= mean => f[j] <= mean
        /\ s.moves \in Seq(Gifts(DOMAIN stocks))
    BY <2>0 DEF Levelled, Affordable, Gifts
  <2>2. i \in Nat /\ s.take \in Nat /\ f \in Seq(Nat)
    BY <2>1 DEF Levels
  <2>3. PICK t \in i + 1 .. s.take, x \in Nat \ {0} :
              /\ f[i] + x <= mean /\ mean <= f[t] - x
              /\ f[i] + x = mean \/ f[t] - x = mean
              /\ Fill(s, mean) =
                    [i |-> i, take |-> t,
                     have |-> Give(f, Move(t, i, x)),
                     moves |-> Append(s.moves, Move(t, i, x))]
    <3>1. \E t \in s.i + 1 .. s.take, x \in Nat \ {0} :
              /\ s.have[s.i] + x <= mean /\ mean <= s.have[t] - x
              /\ s.have[s.i] + x = mean \/ s.have[t] - x = mean
              /\ \A j \in DOMAIN stocks : j > t => s.have[j] <= mean
              /\ Fill(s, mean) =
                    [i |-> s.i, take |-> t,
                     have |-> Give(s.have, Move(t, s.i, x)),
                     moves |-> Append(s.moves, Move(t, s.i, x))]
      BY <1>2, <2>0, FillMoves
    <3> QED
      BY <3>1
  <2>4. i \in D /\ t \in D /\ i < t /\ i # t
    <3>0. n \in Nat /\ s.take \in Nat /\ i \in Nat /\ s.take <= n /\ i > 0 /\ i <= n
      BY <2>1, <2>2
    <3> HIDE DEF i, n
    <3>1. t \in Nat /\ i < t /\ t <= s.take
      BY <3>0
    <3> QED
      BY <3>0, <3>1
  <2>5. \A j \in D : f[j] \in Nat /\ stocks[j] \in Nat
    <3>1. stocks \in Seq(Nat) /\ D = DOMAIN stocks
      BY <2>1
    <3>2. f \in Seq(Nat) /\ D = DOMAIN f
      BY <2>1, <2>2
    <3> HIDE DEF D, f
    <3>3. \A j \in D : stocks[j] \in Nat
      BY ONLY <3>1
    <3>4. \A j \in D : f[j] \in Nat
      BY ONLY <3>2
    <3> QED
      BY <3>3, <3>4
  <2>6. r \in Levelled(stocks, mean) /\ r.i = i
    BY <2>0, FillStays
  <2> HIDE DEF i, f, D, n
  <2> DEFINE m == Move(t, i, x)
             g == Give(f, m)
  <2>7. /\ g[i] = f[i] + x /\ g[t] = f[t] - x
        /\ \A j \in D : j # i /\ j # t => g[j] = f[j]
    BY <2>1, <2>3, <2>4, <2>5 DEF Give, Move
  <2>8. r.have = g /\ r.moves = Append(s.moves, m)
    BY <2>3
  <2>9. m \in Gifts(DOMAIN stocks) /\ m \in [from : DOMAIN stocks, to : DOMAIN stocks, amount : Nat \ {0}]
    BY <2>1, <2>4 DEF Move, Gifts
  <2> HIDE DEF g, m, r
  <2>10. /\ After(stocks, s.moves) = f
         /\ Len(s.moves) <= Cardinality(AtMean(f, D, mean))
         /\ \A j \in D : /\ j > i /\ stocks[j] < mean => f[j] = stocks[j]
                         /\ j < i => f[j] + 1 >= mean
    BY <2>1 DEF Counted, f, i, D
  <2>11. After(stocks, r.moves) = r.have
    BY <2>1, <2>8, <2>9, <2>10, AfterAppends DEF g
  <2>12. f[i] # mean /\ f[t] # mean /\ (g[i] = mean \/ g[t] = mean)
    BY <2>1, <2>3, <2>4, <2>5, <2>7
  <2>13. IsFiniteSet(D) /\ Cardinality(D) = n
    BY <2>1, FS_Interval DEF D
  <2>14. /\ Cardinality(AtMean(f, D, mean)) + 2 <= n
         /\ Cardinality(AtMean(f, D, mean)) + 1 <= Cardinality(AtMean(g, D, mean))
         /\ Cardinality(AtMean(f, D, mean)) \in Nat
    <3>1. i \in D /\ t \in D /\ i # t /\ f[i] # mean /\ f[t] # mean /\ (g[i] = mean \/ g[t] = mean)
      BY <2>4, <2>12
    <3>2. Elsewhere(f, g, D, i, t)
      BY <2>7 DEF Elsewhere
    <3> QED
      BY ONLY <2>13, <3>1, <3>2, MoreAtMean
  <2>15. Len(r.moves) = Len(s.moves) + 1 /\ Len(s.moves) \in Nat
    <3>1. s.moves \in Seq(Gifts(DOMAIN stocks))
      BY <2>1
    <3> QED
      BY ONLY <2>8, <3>1
  <2>16. IsFiniteSet(AtMean(g, D, mean))
    <3>1. AtMean(g, D, mean) \subseteq D
      BY DEF AtMean
    <3> QED
      BY <2>13, <3>1, FS_Subset
  <2>17. Cardinality(AtMean(g, D, mean)) \in Nat
    BY <2>16, FS_CardinalityType
  <2>18. Len(r.moves) <= Cardinality(AtMean(r.have, DOMAIN stocks, mean)) /\ Len(r.moves) < n
    <3>1. DOMAIN stocks = D /\ n \in Nat
      BY <2>1
    <3> QED
      BY <2>8, <2>10, <2>14, <2>15, <2>17, <3>1
  <2>19. ASSUME NEW j \in D
         PROVE  /\ j > r.i /\ stocks[j] < mean => r.have[j] = stocks[j]
                /\ j < r.i => r.have[j] + 1 >= mean
    <3>0. i \in Nat /\ j \in Nat
      BY <2>4 DEF D
    <3>1. CASE j = t
      <4>1. ~(stocks[j] < mean)
        <5>1. ~(f[j] <= mean)
          BY <2>1, <2>3, <2>5, <3>1
        <5> QED
          BY <2>1, <2>5, <5>1
      <4> QED
        BY <2>4, <2>6, <3>0, <3>1, <4>1
    <3>2. CASE j = i
      BY <2>6, <3>0, <3>2
    <3>3. CASE j # i /\ j # t
      BY <2>6, <2>7, <2>8, <2>10, <3>3
    <3> QED BY <3>1, <3>2, <3>3
  <2>20. r \in Counted(stocks, mean)
    <3>1. DOMAIN stocks = D
      BY <2>1
    <3> QED
      BY <2>6, <2>11, <2>18, <2>19, <3>1 DEF Counted, n
  <2> QED
    BY <2>6, <2>20 DEF r, i
<1> QED
  BY <1>1, <1>2

\* Whoever is not short of the mean has it after as many turns as there are hubs: each turn that does
\* not fill him up uses up a giver.
GivesLess(s, k, n, mean) == s.take + k <= n + 1 /\ (k > 0 => s.have[s.take] <= mean)

LEMMA FillUsesUp ==
    ASSUME NEW stocks, NEW mean, Affordable(stocks, mean), NEW s \in Levelled(stocks, mean),
           s.i <= Len(stocks), NEW k \in Nat,
           Enough(s, mean) \/ GivesLess(s, k, Len(stocks), mean)
    PROVE  LET r == Fill(s, mean)
           IN  Enough(r, mean) \/ GivesLess(r, k + 1, Len(stocks), mean)
<1>1. CASE Enough(s, mean)
  BY <1>1 DEF Fill
<1>2. CASE ~Enough(s, mean)
  <2> DEFINE n == Len(stocks)
             D == 1..n
             f == s.have
             i == s.i
             r == Fill(s, mean)
  <2>1. /\ s \in Levels /\ n \in Nat /\ s.take <= n /\ i > 0 /\ i <= n
        /\ mean \in Nat /\ DOMAIN f = D
    BY DEF Levelled, Affordable
  <2>2. i \in Nat /\ s.take \in Nat /\ f \in Seq(Nat)
    BY <2>1 DEF Levels
  <2>3. PICK t \in i + 1 .. s.take, x \in Nat \ {0} :
              /\ f[i] + x <= mean /\ mean <= f[t] - x
              /\ f[i] + x = mean \/ f[t] - x = mean
              /\ Fill(s, mean) =
                    [i |-> i, take |-> t,
                     have |-> Give(f, Move(t, i, x)),
                     moves |-> Append(s.moves, Move(t, i, x))]
    <3>1. \E t \in s.i + 1 .. s.take, x \in Nat \ {0} :
              /\ s.have[s.i] + x <= mean /\ mean <= s.have[t] - x
              /\ s.have[s.i] + x = mean \/ s.have[t] - x = mean
              /\ \A j \in DOMAIN stocks : j > t => s.have[j] <= mean
              /\ Fill(s, mean) =
                    [i |-> s.i, take |-> t,
                     have |-> Give(s.have, Move(t, s.i, x)),
                     moves |-> Append(s.moves, Move(t, s.i, x))]
      BY <1>2, FillMoves
    <3> QED
      BY <3>1
  <2>4. i \in D /\ t \in D /\ i # t /\ t \in Nat /\ t <= s.take
    <3>0. n \in Nat /\ s.take \in Nat /\ i \in Nat /\ s.take <= n /\ i > 0 /\ i <= n
      BY <2>1, <2>2
    <3> HIDE DEF i, n
    <3>1. t \in Nat /\ i < t /\ t <= s.take
      BY <3>0
    <3> QED
      BY <3>0, <3>1
  <2>5. f[i] \in Nat /\ f[t] \in Nat
    BY <2>1, <2>2, <2>4
  <2> HIDE DEF D
  <2> DEFINE g == Give(f, Move(t, i, x))
  <2>6. g[i] = f[i] + x /\ g[t] = f[t] - x
    <3> HIDE DEF f, i
    <3> QED
      BY <2>1, <2>4, <2>5 DEF Give, Move
  <2>7. r.have = g /\ r.i = i /\ r.take = t
    BY <2>3
  <2> HIDE DEF g, r
  <2>8. CASE f[i] + x = mean
    <3>1. r.have[r.i] = mean
      BY <2>6, <2>7, <2>8
    <3> QED
      BY <2>1, <3>1 DEF Enough, r
  <2>9. CASE f[t] - x = mean
    <3>1. r.have[r.take] = mean
      BY <2>6, <2>7, <2>9
    <3>2. GivesLess(s, k, n, mean)
      BY <1>2
    <3>3. k > 0 => t # s.take
      BY <2>1, <2>3, <2>5, <3>2 DEF GivesLess
    <3>4. t + (k + 1) <= n + 1
      <4>1. s.take + k <= n + 1 /\ s.take <= n /\ n \in Nat /\ s.take \in Nat
        BY <2>1, <2>2, <3>2 DEF GivesLess
      <4> HIDE DEF n
      <4>2. CASE k = 0
        BY <2>4, <4>1, <4>2
      <4>3. CASE k > 0
        BY <2>4, <3>3, <4>1, <4>3
      <4> QED BY <4>2, <4>3
    <3>5. GivesLess(r, k + 1, n, mean)
      BY <2>1, <2>7, <3>1, <3>4 DEF GivesLess
    <3> QED
      BY <3>5 DEF r
  <2> QED
    BY <2>3, <2>8, <2>9
<1> QED
  BY <1>1, <1>2

\* Between two hubs, what number s.i has is what it had, if it is short of the mean.
Turned(stocks, mean) ==
    {s \in Counted(stocks, mean) :
        s.i <= Len(stocks) /\ stocks[s.i] < mean => s.have[s.i] = stocks[s.i]}

Stopped(s, stocks, mean) == s.i > Len(stocks) \/ Enough(s, mean)

LEMMA NextCounts ==
    ASSUME NEW stocks, NEW mean, Affordable(stocks, mean), NEW s \in Turned(stocks, mean)
    PROVE  /\ NextFilled(s, mean) \in Turned(stocks, mean)
           /\ IF Stopped(s, stocks, mean) THEN NextFilled(s, mean) = s
              ELSE NextFilled(s, mean).i = s.i + 1
<1> DEFINE n == Len(stocks)
           fill == [t \in Levels |-> Fill(t, mean)]
           steps == [k \in DOMAIN s.have |-> fill]
           V == {r \in Counted(stocks, mean) : r.i = s.i}
           end == Along(s, steps)
<1>1. /\ s \in Levels /\ s.i \in Nat /\ DOMAIN s.have = 1..n /\ s.i > 0 /\ s.take <= n /\ s.take \in Nat
      /\ DOMAIN stocks = 1..n /\ n \in Nat /\ mean \in Nat /\ Len(s.have) = n
      /\ s \in Levelled(stocks, mean) /\ s \in Counted(stocks, mean)
  <2>1. /\ s \in Levels /\ DOMAIN s.have = DOMAIN stocks /\ mean \in Nat /\ stocks \in Seq(Nat)
        /\ s.i > 0 /\ s.take <= n /\ s \in Levelled(stocks, mean) /\ s \in Counted(stocks, mean)
    BY DEF Turned, Counted, Levelled, Affordable
  <2>2. s.i \in Nat /\ s.have \in Seq(Nat) /\ s.take \in Nat
    BY <2>1 DEF Levels
  <2> QED
    BY <2>1, <2>2
<1>2. CASE s.i > n \/ Enough(s, mean)
  BY <1>1, <1>2 DEF NextFilled, Stopped
<1>3. CASE ~(s.i > n \/ Enough(s, mean))
  <2>1. NextFilled(s, mean) = [end EXCEPT !.i = @ + 1]
    BY <1>1, <1>3 DEF NextFilled
  <2>2. DOMAIN steps = 1..n
    BY <1>1
  <2>3. \A k \in 1..n, r \in V : steps[k][r] = Fill(r, mean)
    BY <1>1 DEF Counted, Levelled
  <2>4. s.i <= n
    BY <1>1, <1>3
  <2> HIDE DEF steps
  <2>5. \A k \in 1..n, r \in V : steps[k][r] \in V
    <3> SUFFICES ASSUME NEW k \in 1..n, NEW r \in V PROVE Fill(r, mean) \in V
      BY <2>3
    <3>1. r \in Counted(stocks, mean) /\ r.i = s.i
      OBVIOUS
    <3>2. Fill(r, mean) \in Counted(stocks, mean) /\ Fill(r, mean).i = r.i
      BY <2>4, <3>1, FillCounts
    <3> QED
      BY <3>1, <3>2
  <2>6. s \in V
    BY <1>1
  <2>0. \A r \in V : r \in Levelled(stocks, mean) /\ r \in Counted(stocks, mean) /\ r.i = s.i
    BY DEF Counted
  <2> HIDE DEF V
  <2>7. PICK run : Stages(run, s, steps, n, V)
    BY <1>1, <2>2, <2>5, <2>6, AlongRuns
  <2>8. /\ run \in [0..n -> V] /\ run[0] = s /\ run[n] = end
        /\ \A k \in 1..n : run[k] = steps[k][run[k - 1]]
    BY <2>7 DEF Stages
  <2> HIDE DEF end
  <2> DEFINE P == {k \in 0..n : Enough(run[k], mean) \/ GivesLess(run[k], k, n, mean)}
  <2>9. 0 \in P
    BY <1>1, <2>8 DEF GivesLess
  <2>10. ASSUME NEW k \in 1..n, k - 1 \in P PROVE k \in P
    <3> DEFINE u == run[k - 1]
    <3>1. k - 1 \in 0..n /\ k \in 0..n /\ k - 1 \in Nat
      BY <1>1
    <3>2. u \in V
      BY <2>8, <3>1
    <3>3. run[k] = Fill(u, mean)
      BY <2>3, <2>8, <3>2
    <3>4. Enough(u, mean) \/ GivesLess(u, k - 1, n, mean)
      BY <2>10
    <3> HIDE DEF u
    <3> DEFINE l == k - 1
    <3>5. u \in Levelled(stocks, mean) /\ u.i <= n /\ l \in Nat /\ (Enough(u, mean) \/ GivesLess(u, l, n, mean))
      BY <2>0, <2>4, <3>1, <3>2, <3>4
    <3>6. l + 1 = k
      BY <3>1
    <3> HIDE DEF l
    <3>7. Enough(Fill(u, mean), mean) \/ GivesLess(Fill(u, mean), l + 1, n, mean)
      BY <3>5, FillUsesUp
    <3> QED
      BY <3>1, <3>3, <3>6, <3>7
  <2> HIDE DEF P
  <2>11. n \in P
    <3>1. \A k \in 0..n : k \in P
      BY <1>1, <2>9, <2>10, Stepwise
    <3> QED
      BY <1>1, <3>1
  <2>12. end \in V /\ end \in Levelled(stocks, mean) /\ end \in Counted(stocks, mean) /\ end.i = s.i
    <3>1. end \in V
      BY <1>1, <2>8
    <3> QED
      BY <2>0, <3>1
  <2>13. Enough(end, mean)
    <3> SUFFICES ASSUME ~Enough(end, mean) PROVE FALSE
      OBVIOUS
    <3>1. GivesLess(end, n, n, mean)
      BY <2>8, <2>11 DEF P
    <3>2. end.i <= Len(stocks)
      BY <2>4, <2>12
    <3>3. PICK t \in end.i + 1 .. end.take : TRUE
      BY <2>12, <3>2, SomebodyGives
    <3>4. end.take \in Nat /\ end.i \in Nat /\ end.i > 0
      BY <1>1, <2>12 DEF Levelled, Levels
    <3>5. end.take + n <= n + 1
      BY <3>1 DEF GivesLess
    <3> QED
      BY <1>1, <3>3, <3>4, <3>5
  <2> DEFINE r == NextFilled(s, mean)
  <2>14. r \in Levelled(stocks, mean)
    BY <1>1, NextStays
  <2>15. r.i = s.i + 1 /\ r.have = end.have /\ r.moves = end.moves
    <3>1. end \in Levels
      BY <2>12 DEF Levelled
    <3> QED
      BY <2>1, <2>12, <3>1 DEF Levels
  <2> HIDE DEF r
  <2>16. /\ After(stocks, end.moves) = end.have
         /\ Len(end.moves) <= Cardinality(AtMean(end.have, DOMAIN stocks, mean))
         /\ Len(end.moves) < Len(stocks)
         /\ \A j \in DOMAIN stocks :
              /\ j > s.i /\ stocks[j] < mean => end.have[j] = stocks[j]
              /\ j < s.i => end.have[j] + 1 >= mean
    BY <2>12 DEF Counted
  <2>17. end.have[s.i] + 1 >= mean
    BY <2>12, <2>13 DEF Enough
  <2>18. ASSUME NEW j \in DOMAIN stocks
         PROVE  /\ j > r.i /\ stocks[j] < mean => r.have[j] = stocks[j]
                /\ j < r.i => r.have[j] + 1 >= mean
    <3>0. j \in Nat
      BY <1>1
    <3>1. CASE j > s.i
      BY <1>1, <2>15, <2>16, <3>0, <3>1
    <3>2. CASE j = s.i
      BY <1>1, <2>15, <2>17, <3>0, <3>2
    <3>3. CASE j < s.i
      BY <1>1, <2>15, <2>16, <3>0, <3>3
    <3> QED BY <1>1, <3>0, <3>1, <3>2, <3>3
  <2>19. r \in Counted(stocks, mean)
    BY <2>14, <2>15, <2>16, <2>18 DEF Counted
  <2>20. r.i <= Len(stocks) /\ stocks[r.i] < mean => r.have[r.i] = stocks[r.i]
    <3> SUFFICES ASSUME r.i <= Len(stocks), stocks[r.i] < mean PROVE r.have[r.i] = stocks[r.i]
      OBVIOUS
    <3>1. r.i \in DOMAIN stocks /\ r.i > s.i
      BY <1>1, <2>15
    <3> QED
      BY <2>15, <2>16, <3>1
  <2>21. r \in Turned(stocks, mean)
    BY <2>19, <2>20 DEF Turned
  <2> QED
    BY <1>3, <2>15, <2>21 DEF r, Stopped
<1> QED
  BY <1>2, <1>3

\* What the moves are worth: nobody crosses the mean, everybody has it in the end but for one, and
\* there are fewer moves than hubs.
LEMMA LevellingEvens ==
    ASSUME NEW stocks \in Seq(Nat), Len(stocks) > 0,
           \A i, j \in DOMAIN stocks : i < j => stocks[i] <= stocks[j],
           Total(stocks) \div Len(stocks) >= 4
    PROVE  LET mean == Total(stocks) \div Len(stocks)
               moves == Levelling(stocks, Total(stocks))
               after == After(stocks, moves)
           IN  /\ mean \in Nat /\ Len(moves) < Len(stocks)
               /\ \A j \in DOMAIN stocks :
                     /\ after[j] \in Nat /\ stocks[j] \in Nat /\ after[j] + 1 >= mean
                     /\ stocks[j] >= mean => mean <= after[j] /\ after[j] <= stocks[j]
                     /\ stocks[j] <= mean => stocks[j] <= after[j] /\ after[j] <= mean
               /\ moves \in Seq(Gifts(DOMAIN stocks))
<1> DEFINE n == Len(stocks)
           D == DOMAIN stocks
           sum == Total(stocks)
           mean == sum \div n
           start == [i |-> 1, take |-> n, have |-> stocks, moves |-> <<>>]
           next == [s \in Levels |-> NextFilled(s, mean)]
           steps == [k \in DOMAIN stocks |-> next]
           V == Turned(stocks, mean)
           end == Along(start, steps)
<1>1. n \in Nat \ {0} /\ D = 1..n /\ \A j \in 1..n : stocks[j] \in Nat
  OBVIOUS
<1>2. IsFiniteSet(D) /\ Numbers(stocks, D)
  BY <1>1, FS_Interval DEF Numbers
<1>3. sum = SumOf(stocks, D) /\ sum \in Nat
  <2>1. sum = SumOf(stocks, D) /\ sum \in Int
    BY <1>2, TotalIsSum, SumIsNumber
  <2>2. SumOf(stocks, {}) <= SumOf(stocks, D)
    <3>1. {} \in SUBSET D /\ \A x \in D \ {} : stocks[x] >= 0
      BY <1>1
    <3> HIDE DEF D
    <3> QED
      BY <1>2, <3>1, SumGrows
  <2>3. sum >= 0
    BY <2>1, <2>2, SumOfNone
  <2> HIDE DEF sum
  <2> QED
    BY <2>1, <2>3
<1>4. mean \in Nat /\ n * mean <= sum
  <2>1. \A a \in Nat, b \in Nat \ {0} : a \div b \in Nat /\ b * (a \div b) <= a
    OBVIOUS
  <2> HIDE DEF sum, n
  <2> QED
    BY <1>1, <1>3, <2>1
<1>5. Affordable(stocks, mean)
  <2> HIDE DEF sum, mean
  <2> QED
    BY <1>3, <1>4 DEF Affordable
<1>6. mean >= 4
  OBVIOUS
<1>7. Levelling(stocks, sum) = end.moves
  <2>1. \A a \in Nat : a >= 4 => a \div 4 # 0
    OBVIOUS
  <2>2. Levelling(stocks, sum) = IF mean \div 4 = 0 THEN <<>> ELSE end.moves
    BY DEF Levelling
  <2> HIDE DEF mean, end
  <2> QED
    BY <1>4, <1>6, <2>1, <2>2
<1> HIDE DEF mean, sum
<1>8. start \in V
  <2> DEFINE X == [from : DOMAIN stocks, to : DOMAIN stocks, amount : Nat \ {0}]
  <2>1. <<>> \in Seq(X) /\ <<>> \in Seq(Moves)
    OBVIOUS
  <2>2. start \in Levels
    BY <1>1, <2>1 DEF Levels
  <2>3. \A j \in DOMAIN stocks : ~(j > n) /\ ~(j < 1) /\ stocks[j] \in Nat
    BY <1>1
  <2>4. /\ start.i = 1 /\ start.take = n /\ start.have = stocks /\ start.moves = <<>>
    OBVIOUS
  <2> HIDE DEF start
  <2>5. /\ DOMAIN start.have = DOMAIN stocks /\ start.take <= Len(stocks) /\ start.i > 0
        /\ SumOf(start.have, DOMAIN stocks) = SumOf(stocks, DOMAIN stocks)
        /\ start.moves \in Seq(X)
    BY <1>1, <2>1, <2>4
  <2>6. \A j \in DOMAIN stocks :
              /\ stocks[j] >= mean => mean <= start.have[j] /\ start.have[j] <= stocks[j]
              /\ stocks[j] <= mean => stocks[j] <= start.have[j] /\ start.have[j] <= mean
              /\ j > start.take \/ j < start.i => start.have[j] <= mean
    BY <1>4, <2>3, <2>4
  <2>7. start \in Levelled(stocks, mean)
    BY ONLY <2>2, <2>5, <2>6 DEF Levelled, X
  <2>8. After(stocks, start.moves) = start.have
    BY <2>4, AfterNone
  <2>9. Len(start.moves) = 0
    BY <2>4
  <2>10. Cardinality(AtMean(start.have, DOMAIN stocks, mean)) \in Nat
    <3>1. AtMean(start.have, D, mean) \subseteq D
      BY DEF AtMean
    <3> HIDE DEF D
    <3>2. IsFiniteSet(AtMean(start.have, D, mean))
      BY <1>2, <3>1, FS_Subset
    <3> QED
      BY <3>2, FS_CardinalityType DEF D
  <2>11. \A j \in DOMAIN stocks :
              /\ j > start.i /\ stocks[j] < mean => start.have[j] = stocks[j]
              /\ j < start.i => start.have[j] + 1 >= mean
    BY <2>3, <2>4
  <2>12. start \in Counted(stocks, mean)
    BY <1>1, <2>7, <2>8, <2>9, <2>10, <2>11 DEF Counted
  <2> QED
    BY <2>4, <2>12 DEF Turned
<1>9. \A k \in 1..n, s \in V : steps[k][s] = NextFilled(s, mean)
  BY <1>1 DEF Turned, Counted, Levelled
<1>10. DOMAIN steps = 1..n
  BY <1>1
<1>0. start.i = 1
  OBVIOUS
<1> HIDE DEF steps, start, V
<1>11. \A k \in 1..n, s \in V : steps[k][s] \in V
  BY <1>5, <1>9, NextCounts DEF V
<1>12. PICK run : Stages(run, start, steps, n, V)
  BY <1>1, <1>8, <1>10, <1>11, AlongRuns
<1>13. /\ run \in [0..n -> V] /\ run[0] = start /\ run[n] = end
       /\ \A k \in 1..n : run[k] = steps[k][run[k - 1]]
  BY <1>12 DEF Stages
<1> HIDE DEF end
<1> DEFINE P == {k \in 0..n : Stopped(run[k], stocks, mean) \/ run[k].i = k + 1}
<1>14. 0 \in P
  BY <1>0, <1>1, <1>13
<1>15. ASSUME NEW k \in 1..n, k - 1 \in P PROVE k \in P
  <2> DEFINE u == run[k - 1]
  <2>1. k - 1 \in 0..n /\ k \in 0..n /\ (k - 1) + 1 = k
    BY <1>1
  <2>2. u \in V
    BY <1>13, <2>1
  <2>3. run[k] = NextFilled(u, mean)
    BY <1>9, <1>13, <2>2
  <2>4. Stopped(u, stocks, mean) \/ u.i = k
    BY <1>15, <2>1
  <2> HIDE DEF u
  <2>5. IF Stopped(u, stocks, mean) THEN NextFilled(u, mean) = u ELSE NextFilled(u, mean).i = u.i + 1
    BY <1>5, <2>2, NextCounts DEF V
  <2> QED
    BY <2>1, <2>3, <2>4, <2>5
<1> HIDE DEF P
<1>16. n \in P
  <2>1. \A k \in 0..n : k \in P
    BY <1>1, <1>14, <1>15, Stepwise
  <2> QED
    BY <1>1, <2>1
<1>17. Stopped(end, stocks, mean)
  BY <1>1, <1>13, <1>16 DEF P, Stopped
<1>18. end \in V
  BY <1>1, <1>13
<1> DEFINE f == end.have
<1>19. /\ end \in Levels /\ DOMAIN f = D /\ end.i > 0
       /\ \A j \in D :
             /\ stocks[j] >= mean => mean <= f[j] /\ f[j] <= stocks[j]
             /\ stocks[j] <= mean => stocks[j] <= f[j] /\ f[j] <= mean
             /\ j > end.i /\ stocks[j] < mean => f[j] = stocks[j]
             /\ j < end.i => f[j] + 1 >= mean
       /\ end.moves \in Seq(Gifts(D))
       /\ After(stocks, end.moves) = f /\ Len(end.moves) < n
       /\ end.i <= n /\ stocks[end.i] < mean => f[end.i] = stocks[end.i]
  BY <1>18 DEF V, Turned, Counted, Levelled, Gifts
<1>20. end.i \in Nat /\ f \in Seq(Nat)
  BY <1>19 DEF Levels
<1> HIDE DEF f
<1>21. \A j \in D : f[j] \in Nat /\ stocks[j] \in Nat
  BY <1>1, <1>19, <1>20
<1>22. ASSUME NEW j \in D PROVE f[j] + 1 >= mean
  <2>0. j \in Nat /\ j <= n /\ f[j] \in Nat /\ stocks[j] \in Nat
    BY <1>1, <1>21
  <2>1. CASE stocks[j] >= mean
    BY <1>4, <1>19, <2>0, <2>1
  <2>2. CASE j < end.i
    BY <1>19, <2>2
  <2>3. CASE ~(j < end.i) /\ ~(stocks[j] >= mean)
    <3> DEFINE k == end.i
    <3>1. k \in D /\ k <= j /\ k \in Nat
      BY <1>1, <1>19, <1>20, <2>0, <2>3
    <3>2. f[k] + 1 >= mean
      BY <1>1, <1>17, <3>1 DEF Stopped, Enough, f
    <3>0. stocks[j] < mean
      BY <1>4, <2>0, <2>3
    <3>3. f[j] = stocks[j]
      <4>1. CASE j = k
        <5>1. end.i <= n /\ stocks[end.i] < mean
          BY <2>0, <3>0, <4>1
        <5> QED
          BY <1>19, <4>1, <5>1
      <4>2. CASE j # k
        <5>1. j > end.i
          BY <1>20, <2>0, <3>1, <4>2
        <5> QED
          BY <1>19, <3>0, <5>1
      <4> QED BY <4>1, <4>2
    <3>4. CASE j = k
      BY <3>2, <3>4
    <3>5. CASE j # k
      <4>1. stocks[k] <= stocks[j] /\ stocks[k] \in Nat
        BY <1>21, <2>0, <3>1, <3>5
      <4>2. f[k] = stocks[k]
        BY <1>4, <1>19, <2>0, <2>3, <3>1, <4>1
      <4> QED
        BY <1>4, <2>0, <3>2, <3>3, <4>1, <4>2
    <3> QED BY <3>4, <3>5
  <2> QED BY <2>1, <2>2, <2>3
<1>23. After(stocks, Levelling(stocks, sum)) = f /\ Levelling(stocks, sum) = end.moves
  BY <1>7, <1>19
<1> QED
  BY <1>4, <1>19, <1>21, <1>22, <1>23 DEF mean, sum

LEMMA StocksAreEvened == ASSUME NEW s \in Stocks PROVE Evened(s)
<1> DEFINE mean == Total(s) \div Len(s)
           moves == Levelling(s, Total(s))
           after == After(s, moves)
<1> SUFFICES ASSUME mean >= 4
             PROVE  /\ Len(moves) < Len(s)
                    /\ \A i \in DOMAIN s :
                         /\ after[i] + 1 >= mean
                         /\ s[i] >= mean => after[i] \in mean..s[i]
                         /\ s[i] <= mean => after[i] \in s[i]..mean
                    /\ \A k \in DOMAIN moves : moves[k].amount > 0
  BY DEF Evened
<1>1. /\ s \in Seq(Nat) /\ Len(s) > 0
      /\ \A i, j \in DOMAIN s : i < j => s[i] <= s[j]
  BY StocksAscend
<1>2. /\ mean \in Nat /\ Len(moves) < Len(s)
      /\ \A j \in DOMAIN s :
            /\ after[j] \in Nat /\ s[j] \in Nat /\ after[j] + 1 >= mean
            /\ s[j] >= mean => mean <= after[j] /\ after[j] <= s[j]
            /\ s[j] <= mean => s[j] <= after[j] /\ after[j] <= mean
      /\ moves \in Seq(Gifts(DOMAIN s))
  BY <1>1, LevellingEvens
<1> HIDE DEF mean, moves, after
<1>3. \A k \in DOMAIN moves : moves[k] \in Gifts(DOMAIN s)
  BY ONLY <1>2
<1>4. \A k \in DOMAIN moves : moves[k].amount > 0
  BY <1>3 DEF Gifts
<1> QED
  BY <1>2, <1>4

\* However much the hubs of a side have: evening out takes only from hubs above the mean and never
\* beyond it, gives only to hubs below it, leaves nobody short by more than one and needs fewer
\* transfers than there are hubs (balance_logistics_hubs).
THEOREM HubsEvenedOut == Spec => []EvensOut
<1>1. EvensOut
  BY StocksAreEvened DEF EvensOut
<1> QED
  BY <1>1, PTL
=============================================================================
