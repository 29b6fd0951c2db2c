--------------------------- MODULE MCAttestation ---------------------------
(***************************************************************************)
(* Instances of Attestation for TLC: three witnesses, two of which make a   *)
(* quorum, one key pair in faulty hands, one pair to rotate to.             *)
(***************************************************************************)
EXTENDS Attestation

CONSTANTS a, b, c, act, act2, pa, pb, pc1, pa2, t1, t2

W(organ, pem, priv) == [organ |-> organ, pem |-> pem, priv |-> priv]

MCPems == {pa, pb, pc1, pa2}

\* A working registry, and each way one can be wrongly configured.
MCRegistries ==
  { <<W(a, pa, pa), W(b, pb, pb), W(c, pc1, NoPem)>>,
    <<W(a, pa, pa), W(b, pb, pa), W(c, pc1, pc1)>>,
    <<W(a, pa, pa)>>,
    <<W(a, pa, pa), W(b, pb, pb)>>,
    <<W(a, pa, pa), W(b, BadPem, BadPem)>>,
    <<W(a, pa, pa), W(NoOrgan, pb, pb)>>,
    <<W(a, pa, pa), W(b, pb, pb), W(c, NoPem, NoPem)>> }

\* Rotation of a's key, b losing its private key, a witness that joins.
MCAddPool == { W(a, pa2, pa2), W(b, pb, NoPem), W(c, pc1, pc1) }

\* One call while the host program changes the registry.
Changing ==
  { [calls |-> (t1 :> [action |-> act, blocking |-> told]), registry |-> r,
     joining |-> MCAddPool, policies |-> {}, maxAdds |-> 3, maxEdits |-> 0] :
       told \in {{}, {b}}, r \in MCRegistries }

\* Receipts of two calls, edited on their way, around a rotation of a's key: with one
\* honest witness beside the faulty key and two edits, with two and one edit.
Two == <<W(a, pa, pa), W(c, pc1, NoPem)>>
Three == <<W(a, pa, pa), W(b, pb, pb), W(c, pc1, NoPem)>>
Edited ==
  { [calls |-> (t1 :> [action |-> act, blocking |-> {}]) @@
               (t2 :> [action |-> act2, blocking |-> {a, b}]),
     registry |-> IF k = 2 THEN Two ELSE Three,
     joining |-> {W(a, pa2, pa2)},
     policies |-> {PubkeysOf(Three)},
     maxAdds |-> 1, maxEdits |-> k] : k \in {1, 2} }

MCScenarios == Changing \cup Edited
=============================================================================
