---------------------------- MODULE MCLogistics ----------------------------
(* Small instances of Logistics for TLC: two hubs and a base, and the place of a FARP; ids
   grow along the road, so that distances are differences of ids. *)
EXTENDS Logistics

CONSTANTS Blue, Red

MCDistance ==
    [o \in Objectives |-> [h \in Hubs |-> IF o < h THEN h - o ELSE o - h]]

AllBlue == [o \in Hubs \cup Bases \cup InitFarps |-> Blue]
=============================================================================
