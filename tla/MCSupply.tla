----------------------------- MODULE MCSupply -----------------------------
(* The computations of Supply over all bounded inputs, against what they are for. *)
EXTENDS Supply, Integers

CONSTANTS MaxHave,      \* bound: what a hub has
          MaxStock,     \* bound: what a customer, or a hub to be evened out, has
          MaxCustomers  \* bound: customers, hubs

ASSUME SupplyBounds == {MaxHave, MaxStock, MaxCustomers} \subseteq Nat

\* Stocks, in ascending order.
Stocks == {s \in UNION {[1..n -> 0..MaxStock] : n \in 1..MaxCustomers} :
              \A i, j \in DOMAIN s : i < j => s[i] <= s[j]}

\* What each lacks of the capacity they all have; some may have more than that.
Lacks(s) == [i \in DOMAIN s |-> IF s[i] <= MaxStock - 2 THEN MaxStock - 2 - s[i] ELSE 0]

DividesFairly(have, s) ==
    \E alloc \in {Allocation(have, Lacks(s))} :
        /\ Total(alloc) = Min({have, Total(Lacks(s))})
        /\ \A i \in DOMAIN s : alloc[i] \in 0..Lacks(s)[i]
        /\ \A i, j \in DOMAIN s : i < j => alloc[i] >= alloc[j]

\* What the stocks are after some moves.
After(stocks, moves) ==
    LET given(m) == [have \in [DOMAIN stocks -> Int] |-> Give(have, m)]
    IN  Along(stocks, [k \in DOMAIN moves |-> given(moves[k])])

Evened(s) ==
    \E mean \in {Total(s) \div Len(s)}, moves \in {Levelling(s, Total(s))} :
        mean >= 4 =>
            \E after \in {After(s, moves)} :
                /\ Len(moves) < Len(s)
                /\ \A i \in DOMAIN s :
                     /\ after[i] + 1 >= mean
                     /\ s[i] >= mean => after[i] \in mean..s[i]
                     /\ s[i] <= mean => after[i] \in s[i]..mean
                /\ \A k \in DOMAIN moves : moves[k].amount > 0
=============================================================================
