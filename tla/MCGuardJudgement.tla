-------------------------- MODULE MCGuardJudgement --------------------------
(* Constants for the runs of GuardJudgement.                                *)
EXTENDS GuardJudgement
AllBefore == Before
AllAfter == After
=============================================================================
