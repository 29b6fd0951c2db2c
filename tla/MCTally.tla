------------------------------ MODULE MCTally ------------------------------
(***************************************************************************)
(* Instances of Tally for TLC: three witnesses with a key each, a fourth    *)
(* name without one, and every kind of row in any order.                    *)
(***************************************************************************)
EXTENDS Tally

CONSTANTS a, b, c, act, act2, pa, pb, NotInt

Allow(o, pem) == SignVerdict(o, act, "allow", pem)

\* Rows that count, that are honest but do not count, and that only look as if they did.
MCRowPool ==
  { Allow(a, pa),                                          \* a allows
    [Allow(a, pa) EXCEPT !.type = "absent"],               \* again, payloadType left out
    SignVerdict(a, act, "block", pa),                      \* a blocks
    Allow(b, pb),                                          \* b allows
    [Allow(b, pb) EXCEPT !.organ = a, !.keyid = KeyidOf(a)], \* b's statement under a's name
    Abstain }

\* And malformed rows, beside one allow for each witness.
MCBadRowPool ==
  { Allow(a, pa),
    Allow(b, pb),
    Allow(c, pa),                                    \* c's PEM does not load
    Allow(b, pa),                                    \* signed with another organ's key
    [Allow(b, pa) EXCEPT !.organ = a, !.keyid = KeyidOf(a)], \* a's key, naming b
    SignVerdict(a, act2, "allow", pa),               \* another action
    [Allow(a, pa) EXCEPT !.payload.schema = "other",
                         !.signature.body.schema = "other"],
    [Allow(b, pb) EXCEPT !.payload = Junk, !.signature.body = Junk],
    [Allow(b, pb) EXCEPT !.payload = NoBytes],
    [Allow(b, pb) EXCEPT !.signature = Junk],
    [Allow(b, pb) EXCEPT !.keyid = KeyidOf(a)],
    [Allow(b, pb) EXCEPT !.type = "other", !.signature.type = "other"],
    [Allow(b, pb) EXCEPT !.type = "null"],
    [Allow(NoOrgan, pb) EXCEPT !.type = "empty"],
    Allow(NoOrgan, pb) }

\* Complete, with one key that does not load, and with a hole.
MCPubkeyPool ==
  { (a :> pa) @@ (b :> pb) @@ (c :> BadPem),
    (a :> pa) @@ (b :> NoPem) @@ (NoOrgan :> pb) }

MCPems == {pa, pb}
MCRowLists == BoundedSeq(MCRowPool, 4) \cup BoundedSeq(MCBadRowPool, 3)
MCCounts == {0, 1, 2, NotInt}
=============================================================================
