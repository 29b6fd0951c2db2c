--------------------------- MODULE QuorumDecision ---------------------------
(***************************************************************************)
(* What tally promises its caller: one decision, taken once, which depends *)
(* only on the set of witnesses that validly allow the action and on the   *)
(* quorum counts; not on the order, the repetition or the number of rows.  *)
(***************************************************************************)
EXTENDS Integers, FiniteSets

CONSTANTS
  Witnesses,  \* the witnesses that may allow
  Counts      \* what a caller passes as threshold and as n

VARIABLES
  allowing,   \* the witnesses that validly allow the action
  threshold,
  n,
  outcome     \* [decision, count], "none" until it is taken

vars == <<allowing, threshold, n, outcome>>

Pending == [decision |-> "none", count |-> 0]

\* The outcome owed to a caller with these arguments.
Outcome(allow, t, total) ==
  IF t \in Int /\ total \in Int /\ 1 <= t /\ t <= total
  THEN [decision |-> IF Cardinality(allow) >= t THEN "canonical" ELSE "rejected",
        count    |-> Cardinality(allow)]
  ELSE [decision |-> "rejected", count |-> 0]

Init ==
  /\ allowing \in SUBSET Witnesses
  /\ threshold \in Counts
  /\ n \in Counts
  /\ outcome = Pending

Decide ==
  /\ outcome = Pending
  /\ outcome' = Outcome(allowing, threshold, n)
  /\ UNCHANGED <<allowing, threshold, n>>

Safety == Init /\ [][Decide]_vars

Spec == Safety /\ WF_vars(Decide)
=============================================================================
