-------------------------- MODULE MCLogisticsPlan --------------------------
(***************************************************************************)
(* Logistics with a timer that goes on, and the computations its plans are *)
(* made with.  Those do not depend on the state: they are evaluated in the *)
(* first, for all inputs within the bounds of MCSupply.                    *)
(***************************************************************************)
EXTENDS MCLogistics, MCSupply

First == stage = "Init" /\ ops = 0

\* Everything the hub has is given out as long as anybody lacks it, nobody gets more than he
\* lacks, and who has less never gets less ("prioritizes objectives with lowest supply"): in
\* particular the hub never plans to give what it does not have.
SharesAreFair == First => \A have \in 0..MaxHave, s \in Stocks : DividesFairly(have, s)

\* Evening out: hubs give only what they have above the mean, to hubs below it, afterwards
\* nobody has less than the mean but one, and there are fewer moves than hubs.
EvensOut == First => \A s \in Stocks : Evened(s)
=============================================================================
