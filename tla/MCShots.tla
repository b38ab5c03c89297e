------------------------------ MODULE MCShots ------------------------------
(***************************************************************************)
(* A pilot, what he has deployed, and another pilot's aircraft.            *)
(***************************************************************************)
EXTENDS Shots, TLC

CONSTANTS jet, tank, bandit, ann, ben, blue, red, g1, g2, g3

MCOwner == jet :> ann @@ tank :> ann @@ bandit :> ben
MCSideOf == jet :> blue @@ tank :> blue @@ bandit :> red
MCGroupOf == jet :> g1 @@ tank :> g2 @@ bandit :> g3
=============================================================================
