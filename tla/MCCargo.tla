------------------------------ MODULE MCCargo -------------------------------
(* Two kinds of troops: one dearer than a pilot can pay, one denied at its *)
(* limit.                                                                  *)
EXTENDS Cargo, TLC

CONSTANTS squad, team

MCKinds == {squad, team}
MCCost == squad :> 3 @@ team :> 1
MCLimit == squad :> 1 @@ team :> 1
MCDenied == {team}
Symmetry == Permutations(Pilots) \union Permutations(Bases)
=============================================================================
