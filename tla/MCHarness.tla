----------------------------- MODULE MCHarness -----------------------------
(* Constants for the runs of AdversarialHarness: four organs, as in the suite. *)
EXTENDS AdversarialHarness

CONSTANTS o1, o2, o3, o4, k1, k2, k3, k4

MCOrganList == <<o1, o2, o3, o4>>
MCKeys == (o1 :> k1) @@ (o2 :> k2) @@ (o3 :> k3) @@ (o4 :> k4)

\* equivocation and replay bring the same row, so one of them is enough.
SomeChoices == AllChoices \ {"replay"}

\* Every kind of row and one copy; and three copies, in two rounds.
EveryAttack == [choices |-> SomeChoices, copies |-> 1, rounds |-> 1]
ManyCopies == [choices |-> {"allow", "block", "silent"}, copies |-> 3, rounds |-> 2]
MCBatteries == {EveryAttack, ManyCopies}
MCSmallBattery == {[choices |-> {"allow", "silent"}, copies |-> 1, rounds |-> 1]}
=============================================================================
