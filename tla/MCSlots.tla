------------------------------ MODULE MCSlots ------------------------------
(* Small instances of Slots for TLC. *)
EXTENDS Slots, TLC

Symmetry == Permutations(PlayerIds) \cup Permutations(Names)
            \cup Permutations(Ucids) \cup Permutations(Objs)
=============================================================================
