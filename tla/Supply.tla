------------------------------ MODULE Supply ------------------------------
(***************************************************************************)
(* The two computations of logistics: how a hub's stock of an item is      *)
(* divided among the objectives it supplies, and how the stocks of a side's*)
(* hubs are evened out.  Stocks are of one item; items are independent.    *)
(***************************************************************************)
EXTENDS Naturals, Sequences, SequencesExt

Total(s) == MapThenSumSet(LAMBDA i : s[i], DOMAIN s)

\* What becomes of a value, changed by one function after the other.
Along(v, steps) == FoldLeft(LAMBDA w, step : step[w], v, steps)

-----------------------------------------------------------------------------
(* Dividing what a hub has.  The customers are in the order of what they have, the    *)
(* emptiest first; demand[i] is what number i lacks.                                  *)

\* Mutant of Portion: what was promised already is forgotten.
PortionForgotten(have, demanded, allocated) == Min({Max({1, have \div 8}), demanded})

\* What a customer gets in one round: an eighth of what is left, if he lacks that much.
Portion(have, demanded, allocated) == Min({Max({1, have \div 8}), demanded - allocated})

Serve(s, demand, i) ==
    LET amount == Portion(s.have, demand[i], s.alloc[i])
    IN  IF s.have = 0 THEN s
        ELSE [have |-> s.have - amount, alloc |-> [s.alloc EXCEPT ![i] = @ + amount]]

Shares == [have : Nat, alloc : Seq(Nat)]

Round(s, demand) ==
    LET serve(i) == [t \in Shares |-> Serve(t, demand, i)]
    IN  Along(s, [i \in DOMAIN demand |-> serve(i)])

\* Rounds, until nothing is left or nobody lacks anything.  Each gives something away, so
\* there are no more of them than there is to give.
Allocation(have, demand) ==
    LET start == [have |-> have, alloc |-> [i \in DOMAIN demand |-> 0]]
        next == [s \in Shares |->
                    IF s.have > 0 /\ Total(s.alloc) < Total(demand) THEN Round(s, demand) ELSE s]
    IN  Along(start, [n \in 1..have |-> next]).alloc

-----------------------------------------------------------------------------
(* Evening out the hubs, in the order of what they have: have[i] is what number i has   *)
(* by now, take the giver in turn, moves what has been decided.                         *)

Moves == [from : Nat, to : Nat, amount : Nat]

Levels == [i : Nat, take : Nat, have : Seq(Nat), moves : Seq(Moves)]

\* The next giver: from the fullest down to s.i, which means nobody.
Giver(s, mean) ==
    Max({t \in s.i + 1 .. s.take : s.have[t] > mean} \cup {Min({s.i, s.take})})

\* Mutant of Gift: the giver may fall below the mean.
GiftWhole(s, t, mean) == mean - s.have[s.i]

Gift(s, t, mean) == Min({mean - s.have[s.i], s.have[t] - mean})

Enough(s, mean) == s.have[s.i] + 1 >= mean

Give(have, m) == [have EXCEPT ![m.from] = @ - m.amount, ![m.to] = @ + m.amount]

\* One turn of the loop that fills up number s.i, if it goes on.
Fill(s, mean) ==
    LET t == Giver(s, mean)
        m == [from |-> t, to |-> s.i, amount |-> Gift(s, t, mean)]
    IN  IF Enough(s, mean) THEN s
        ELSE IF t = s.i THEN [s EXCEPT !.take = t]
        ELSE [s EXCEPT !.take = t, !.have = Give(@, m), !.moves = Append(@, m)]

\* What number s.i gets, from one giver after the other, and then the next; nobody after one
\* that has enough.  Every turn but the last uses up a giver, so there are no more turns than
\* hubs.
NextFilled(s, mean) ==
    LET fill == [t \in Levels |-> Fill(t, mean)]
    IN  IF s.i > Len(s.have) \/ Enough(s, mean) THEN s
        ELSE [Along(s, [n \in DOMAIN s.have |-> fill]) EXCEPT !.i = @ + 1]

\* The moves that even out the stocks, none if they are hardly worth
\* it.  sum is what the program takes for their sum.
Levelling(stocks, sum) ==
    LET mean == sum \div Len(stocks)
        start == [i |-> 1, take |-> Len(stocks), have |-> stocks, moves |-> <<>>]
        next == [s \in Levels |-> NextFilled(s, mean)]
    IN  IF mean \div 4 = 0 THEN <<>> ELSE Along(start, [n \in DOMAIN stocks |-> next]).moves
=============================================================================
