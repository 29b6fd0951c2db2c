------------------------------ MODULE Receipts ------------------------------
(***************************************************************************)
(* The data of python/khipu_consensus/witness.py: the witness registry, the *)
(* multi-witness receipt, and verify_receipt, which re-tallies a receipt    *)
(* nobody vouches for against keys and a threshold the verifier owns.       *)
(***************************************************************************)
EXTENDS KhipuVerdict, SequencesExt

AnyPem == Pems \cup {NoPem, BadPem}

\* A witness as the coordinator holds it; priv is NoPem when it holds no private key.
Witnesses == [organ : OrganNames, pem : AnyPem, priv : AnyPem]

-----------------------------------------------------------------------------
(* WitnessRegistry: a Python dict, so a sequence in insertion order with    *)
(* one entry for each organ.                                                *)

OrgansOf(reg) == {reg[i].organ : i \in DOMAIN reg}

PositionOf(reg, organ) == CHOOSE i \in DOMAIN reg : reg[i].organ = organ

Registries == {reg \in Seq(Witnesses) :
                 \A i, j \in DOMAIN reg : reg[i].organ = reg[j].organ => i = j}

\* Defect: the registry is a list, and a rotated witness is added to it.
AddWitness_Append(reg, w) == Append(reg, w)

\* add: an organ already present keeps its place and gets the new witness.
AddWitness(reg, w) ==
  IF w.organ \in OrgansOf(reg)
  THEN [reg EXCEPT ![PositionOf(reg, w.organ)] = w]
  ELSE Append(reg, w)

\* pubkeys()
PubkeysOf(reg) == [o \in OrgansOf(reg) |-> reg[PositionOf(reg, o)].pem]

\* public(), without the metadata that nothing checks
PublicOf(reg) == [i \in DOMAIN reg |-> [organ |-> reg[i].organ, pem |-> reg[i].pem]]

-----------------------------------------------------------------------------
(* The receipt.  Its fields are claims: whoever hands it on may change them.*)
(* Junk stands where the code expects a list and finds something else.      *)

RECEIPT_SCHEMA == "receipt/v1"

PublicWitnesses == [organ : OrganNames, pem : AnyPem]

Receipts == [schema     : {RECEIPT_SCHEMA, "other"},
             action     : Actions,
             threshold  : Int,
             n          : Int,
             decision   : {"canonical", "rejected"},
             count      : Nat,
             signatures : Seq(Items) \cup {Junk},
             witnesses  : Seq(PublicWitnesses) \cup {Junk}]

ASSUME JunkAssumption == Junk \notin Seq(Items) \cup Seq(PublicWitnesses)

\* _resolve_trust_policy raises ValueError.
PolicyRefused(trusted, threshold) ==
  \/ DOMAIN trusted = {}
  \/ threshold \notin Int
  \/ \E o \in DOMAIN trusted : o = NoOrgan \/ trusted[o] = NoPem
  \/ threshold < 1
  \/ threshold > Cardinality(DOMAIN trusted)

\* _embedded_pubkeys: the claimed keys are a well-formed map, and this map.
EmbeddedWellFormed(ws) ==
  /\ ws # Junk
  /\ \A i \in DOMAIN ws : ws[i].organ # NoOrgan /\ ws[i].pem # NoPem
  /\ \A i, j \in DOMAIN ws : ws[i].organ = ws[j].organ => i = j

\* _validate_signature_entries: at most one complete row for each trusted witness.
ValidEntry(row, trusted) ==
  /\ row.organ \in DOMAIN trusted \ {NoOrgan}
  /\ row.type \in {VerdictType, "other"}
  /\ row.payload # NoBytes
  /\ row.signature # NoBytes

\* Defect: an abstention in the list is a malformed entry.
ValidSignatureEntries_NoAbstention(sigs, trusted) ==
  /\ sigs # Junk
  /\ Len(sigs) <= Cardinality(DOMAIN trusted)
  /\ \A i \in DOMAIN sigs : sigs[i] # Abstain /\ ValidEntry(sigs[i], trusted)
  /\ \A i, j \in DOMAIN sigs : sigs[i].organ = sigs[j].organ => i = j

ValidSignatureEntries(sigs, trusted) ==
  /\ sigs # Junk
  /\ Len(sigs) <= Cardinality(DOMAIN trusted)
  /\ \A i \in DOMAIN sigs : sigs[i] # Abstain => ValidEntry(sigs[i], trusted)
  /\ \A i, j \in DOMAIN sigs :
       sigs[i] # Abstain /\ sigs[j] # Abstain /\ sigs[i].organ = sigs[j].organ => i = j

TrustPolicyMatches(r, trusted, threshold) ==
  /\ EmbeddedWellFormed(r.witnesses)
  /\ PubkeysOf(r.witnesses) = trusted
  /\ r.threshold = threshold
  /\ r.n = Cardinality(DOMAIN trusted)

\* Defect: the receipt's own threshold is the one applied.
VerifyReceipt_ClaimedThreshold(r, trusted, threshold) ==
  LET sound   == /\ r.schema = RECEIPT_SCHEMA
                 /\ TrustPolicyMatches(r, trusted, r.threshold)
                 /\ ValidSignatureEntries(r.signatures, trusted)
      rows    == IF ValidSignatureEntries(r.signatures, trusted) THEN r.signatures ELSE <<>>
      outcome == TallyOutcome(r.action, rows, trusted, r.threshold, Cardinality(DOMAIN trusted))
      verdict == IF sound THEN outcome.decision ELSE "rejected"
  IN  IF PolicyRefused(trusted, threshold)
      THEN [decision |-> "refused", count |-> 0, matches |-> FALSE]
      ELSE [decision |-> verdict,
            count    |-> outcome.count,
            matches  |-> sound /\ verdict = r.decision]

\* verify_receipt; "refused" stands for its ValueError.
VerifyReceipt(r, trusted, threshold) ==
  LET sound   == /\ r.schema = RECEIPT_SCHEMA
                 /\ TrustPolicyMatches(r, trusted, threshold)
                 /\ ValidSignatureEntries(r.signatures, trusted)
      rows    == IF ValidSignatureEntries(r.signatures, trusted) THEN r.signatures ELSE <<>>
      outcome == TallyOutcome(r.action, rows, trusted, threshold, Cardinality(DOMAIN trusted))
      verdict == IF sound THEN outcome.decision ELSE "rejected"
  IN  IF PolicyRefused(trusted, threshold)
      THEN [decision |-> "refused", count |-> 0, matches |-> FALSE]
      ELSE [decision |-> verdict,
            count    |-> outcome.count,
            matches  |-> sound /\ verdict = r.decision]
=============================================================================
