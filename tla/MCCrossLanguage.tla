-------------------------- MODULE MCCrossLanguage --------------------------
(***************************************************************************)
(* Instances of CrossLanguage for TLC.                                      *)
(***************************************************************************)
EXTENDS CrossLanguage

CONSTANTS a, b, act, act2, pa, pb, cert

Allow(o, pem) == SignVerdict(o, act, "allow", pem)

MCPems == {pa, pb}
\* Key maps in which keys are missing, do not load, or a certificate is published for b.
MCPubkeys == { (a :> pa) @@ (b :> pb), (a :> pa) @@ (b :> cert), (a :> BadPem) @@ (b :> NoPem) }
MCCounts == 0..2

\* Rows as their signers write them, edited in the fields the signature does not cover, whose
\* payloadType is left out or is a non-empty string.
MCSignedRows ==
  { Wire(row) : row \in
      { Allow(a, pa),
        [Allow(a, pa) EXCEPT !.type = "absent"],
        SignVerdict(a, act, "block", pa),
        Allow(b, pb),
        [Allow(b, pb) EXCEPT !.type = "other", !.signature.type = "other"],
        [Allow(b, pb) EXCEPT !.keyid = KeyidOf(a)],
        [Allow(b, pa) EXCEPT !.organ = a, !.keyid = KeyidOf(a)],
        SignVerdict(a, act2, "allow", pa),
        [Allow(b, pb) EXCEPT !.signature = Junk] } }
  \cup {Abstain}

\* A row whose payloadType is the empty string, or null.
MCTypedRows ==
  { Wire(Allow(a, pa)),
    Wire([Allow(b, pb) EXCEPT !.type = "empty"]),
    Wire([Allow(b, pb) EXCEPT !.type = "null"]),
    Abstain }

\* A genuine row with other base64: a space in the payload or in the signature; no padding;
\* a hyphen too much, which Node takes for a character of the URL alphabet.
MCEncodedRows ==
  { Wire(Allow(a, pa)),
    [Wire(Allow(b, pb)) EXCEPT !.payload.readers = {"python", "typescript"}],
    [Wire(Allow(b, pb)) EXCEPT !.signature.readers = {"python", "typescript"}],
    [Wire(Allow(b, pb)) EXCEPT !.payload.readers = {"typescript"}],
    [Wire(Allow(b, pb)) EXCEPT !.signature.readers = {"python"}] }

\* b's allow over another document, signed by b.
Signed(doc) ==
  [Wire(Allow(b, pb)) EXCEPT !.payload.bytes = doc,
                             !.signature.bytes = SignatureBy(pb, VerdictType, doc)]

\* The verdict under "Verdict" too, a number among the five fields, a byte order mark.
MCDocumentRows ==
  LET doc   == Written(Allow(b, pb).payload)
      block == SignVerdict(b, act, "block", pb).payload
  IN  { Wire(Allow(a, pa)),
        Signed([doc EXCEPT !.folded = block]),
        Signed([doc EXCEPT !.exact = block]),
        Signed([doc EXCEPT !.exact.schema = "other"]),
        Signed([doc EXCEPT !.readers = Langs \ {"go"}]),
        Signed([doc EXCEPT !.readers = {"python"}]) }

\* Rows of every kind, and one signed with the certificate's key.
MCRows == MCSignedRows \cup MCTypedRows \cup MCEncodedRows \cup MCDocumentRows
          \cup {Wire(Allow(b, cert))}
=============================================================================
