----------------------------- MODULE MCCollusion -----------------------------
(* Constants for Collusion: arguments on both sides of each bound.           *)
EXTENDS Collusion
MCAsked == (-1 .. 5) \cup {NotInt}
=============================================================================
