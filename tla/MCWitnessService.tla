------------------------- MODULE MCWitnessService -------------------------
(***************************************************************************)
(* An operator's policy files for WitnessService: a working one, and each   *)
(* edit of it that matters.                                                 *)
(***************************************************************************)
EXTENDS WitnessService

CONSTANTS a, b, pa, pb, pa2, NotInt

W(organ, pem, priv) == [organ |-> organ, pem |-> pem, priv |-> priv]
F(witnesses, threshold) == [witnesses |-> witnesses, threshold |-> threshold]

WA == W(a, pa, pa)
WB == W(b, pb, pb)
Rotated == W(a, pa2, pa2)

Working ==
  { F(<<WA, WB>>, 1),
    F(<<WA, WB>>, 2),                         \* a stronger quorum
    F(<<Rotated, WB>>, 1),                    \* a's key rotated
    F(<<WB, Rotated, WA>>, 1) }               \* reordered, a named twice, the old key last

\* A file where one witness signs and the other has no published key (so that verify raises),
\* one where nobody can sign, one without an integer threshold, one with a private key that
\* does not parse (so that attest raises), and one that does not load.
Faulty ==
  { F(<<WA, W(b, NoPem, NoPem)>>, 1),
    F(<<W(a, pa, NoPem), W(b, pb, NoPem)>>, 2),
    F(<<WA, WB>>, NotInt),
    F(<<WA, W(b, NoPem, BadPem)>>, 1),
    Junk }

MCDeployments ==
  { [files |-> Working, votes |-> {{b}}, keys |-> {<<>>}],
    [files |-> Faulty, votes |-> {{}}, keys |-> {<<>>, (a :> pa) @@ (b :> pb), (a :> pa)}] }
=============================================================================
