--------------------------- MODULE MCObjectives ---------------------------
(***************************************************************************)
(* One base with logistics and services for either side, a FARP of two     *)
(* groups, and a squad of each side.                                       *)
(***************************************************************************)
EXTENDS Objectives, TLC

CONSTANTS base, farp, blue, red,
          bLogi, bServices, rLogi, rServices, pad, tower, bSquad, rSquad,
          u1, u2, u3, u4, u5, u6, u7, u8

MCGroups == {bLogi, bServices, rLogi, rServices, pad, tower, bSquad, rSquad}
MCHome == [g \in MCGroups |-> IF g \in {pad, tower} THEN farp ELSE base]
MCSideOf == [g \in MCGroups |-> IF g \in {rLogi, rServices, rSquad} THEN red ELSE blue]
MCClass == [g \in MCGroups |->
    IF g \in {bLogi, rLogi, pad} THEN "logi" ELSE
    IF g \in {bServices, rServices} THEN "services" ELSE IF g = tower THEN "other" ELSE "troop"]
MCUnitsOf == bLogi :> {u1} @@ bServices :> {u2} @@ rLogi :> {u3} @@ rServices :> {u4}
             @@ pad :> {u5} @@ tower :> {u6} @@ bSquad :> {u7} @@ rSquad :> {u8}
MCInitOwner == base :> blue
=============================================================================
