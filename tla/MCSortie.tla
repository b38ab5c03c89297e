----------------------------- MODULE MCSortie -----------------------------
(* Small instances of Sortie for TLC. *)
EXTENDS Sortie, TLC

Symmetry == Permutations(Units) \cup Permutations(Players) \cup Permutations(Bases)
=============================================================================
