---------------------------- MODULE MCMapMarks ----------------------------
(* A hub with a FARP, a group of each kind and a garrison group to a side. *)
EXTENDS MapMarks

CONSTANTS hub, farp, guard, squad, raid, red, blue

MCFarps == {farp}
MCGarrison == {guard}
MCTroops == {squad}
MCRaids == {raid}
MCSides == {red, blue}
MCSideOf == [g \in {guard} |-> red]
=============================================================================
