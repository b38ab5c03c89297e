----------------------------- MODULE Territory -----------------------------
(***************************************************************************)
(* What the campaign promises about the ground: who owns the bases.  A     *)
(* base stands while the logistics of its owner stand.  It changes hands   *)
(* only when it does not stand, to the one side that has squads inside,    *)
(* and the squads are spent on it; and one that can be taken is taken.     *)
(***************************************************************************)
CONSTANTS Bases, Sides, Squads,
          Allegiance       \* [squad -> side]

VARIABLES owner,           \* [base -> side]
          standing,        \* bases whose owner has logistics there
          inside           \* [base -> squads in its zone]

territory == <<owner, standing, inside>>

Init ==
    /\ owner \in [Bases -> Sides] /\ standing \subseteq Bases
    /\ inside = [b \in Bases |-> {}]

\* Logistics are destroyed, repaired; a restart of the mission is no news to the territory.
Destroyed(b) == b \in standing /\ standing' = standing \ {b} /\ UNCHANGED <<owner, inside>>
Rebuilt(b) == b \notin standing /\ standing' = standing \cup {b} /\ UNCHANGED <<owner, inside>>

Enter(b, t) ==
    /\ inside' = [inside EXCEPT ![b] = @ \cup {t}]
    /\ UNCHANGED <<owner, standing>>

Leave(b, t) ==
    /\ t \in inside[b] /\ inside' = [inside EXCEPT ![b] = @ \ {t}]
    /\ UNCHANGED <<owner, standing>>

Uncontested(b, s) == inside[b] # {} /\ \A t \in inside[b] : Allegiance[t] = s

Take(b, s) ==
    /\ b \notin standing /\ Uncontested(b, s)
    /\ owner' = [owner EXCEPT ![b] = s]
    /\ standing' = standing \cup {b}
    /\ inside' = [inside EXCEPT ![b] = {}]

\* The capture breaks off: the base has its new owner, the squads stay.
Seize(b, s) ==
    /\ b \notin standing /\ Uncontested(b, s)
    /\ owner' = [owner EXCEPT ![b] = s]
    /\ standing' \in {standing, standing \cup {b}}
    /\ UNCHANGED inside

Change(b) ==
    \/ Destroyed(b) \/ Rebuilt(b)
    \/ \E t \in Squads : Enter(b, t) \/ Leave(b, t)
    \/ \E s \in Sides : Take(b, s) \/ Seize(b, s)

Safety == Init /\ [][\E b \in Bases : Change(b)]_territory

Spec ==
    /\ Safety
    /\ \A b \in Bases : WF_territory(\E s \in Sides : Take(b, s))
=============================================================================
