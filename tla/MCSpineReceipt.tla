--------------------------- MODULE MCSpineReceipt ---------------------------
(* Constants for SpineReceipt: two witnesses of three keys, a round of each *)
(* outcome, a rotated key, an abstention.                                   *)
EXTENDS SpineReceipt

CONSTANTS a, b, act, act2, pa, pb, pa2

W(organ, pem, priv) == [organ |-> organ, pem |-> pem, priv |-> priv]
MCPems == {pa, pb, pa2}
Held == <<W(a, pa, pa), W(b, pb, pb)>>

MCRoundPool ==
  { [registry |-> Held, action |-> act, blocking |-> {}],
    [registry |-> Held, action |-> act2, blocking |-> {b}],
    [registry |-> <<W(a, pa2, pa2), W(b, pb, NoPem)>>, action |-> act, blocking |-> {}] }
=============================================================================
