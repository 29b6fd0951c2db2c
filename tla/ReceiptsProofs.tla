--------------------------- MODULE ReceiptsProofs ---------------------------
(***************************************************************************)
(* What holds of every registry, receipt and tally: the lemmas about the    *)
(* operators of Receipts and KhipuVerdict on which the proofs about the     *)
(* coordinator (AttestationProofs) and the service (ServiceProofs) rest.    *)
(***************************************************************************)
EXTENDS Receipts, FiniteSetTheorems, SequenceTheorems, WellFoundedInduction, TLAPS

-----------------------------------------------------------------------------
(* Induction, in the form of a least counterexample.                        *)

\* A non-empty set of naturals has a least element.
LEMMA LeastElement ==
  ASSUME NEW T, T \subseteq Nat, T # {}
  PROVE  \E x \in T : \A y \in T : x <= y
<1> DEFINE R == OpToRel(<, Nat)
<1>1. IsWellFoundedOn(R, Nat)
  BY NatLessThanWellFounded
<1>2. \A x, y \in Nat : x < y => <<x, y>> \in R
  BY DEF OpToRel
<1> HIDE DEF R
<1>3. \E x \in T : \A y \in T : ~ (<<y, x>> \in R)
  BY <1>1, WFMin, Zenon
<1>4. PICK x \in T : \A y \in T : ~ (<<y, x>> \in R)
  BY <1>3
<1>5. ASSUME NEW y \in T
      PROVE  x <= y
  <2>1. x \in Nat /\ y \in Nat
    OBVIOUS
  <2>2. ~ (y < x)
    BY <1>2, <1>4, <2>1
  <2> QED
    BY <2>1, <2>2
<1> QED
  BY <1>5

-----------------------------------------------------------------------------
(* Registries.                                                              *)

\* add keeps one entry for each organ, and the registry never shrinks.
LEMMA AddKeepsRegistry ==
  ASSUME NEW reg \in Registries, NEW w \in Witnesses
  PROVE  /\ AddWitness(reg, w) \in Registries
         /\ Len(AddWitness(reg, w)) >= Len(reg)
<1>1. reg \in Seq(Witnesses)
  BY DEF Registries
<1>2. CASE w.organ \in OrgansOf(reg)
  <2> DEFINE p == PositionOf(reg, w.organ)
  <2>1. p \in DOMAIN reg /\ reg[p].organ = w.organ
    BY <1>2 DEF OrgansOf, PositionOf
  <2> HIDE DEF p
  <2>2. AddWitness(reg, w) = [reg EXCEPT ![p] = w]
    BY <1>2 DEF AddWitness, p
  <2>3. /\ [reg EXCEPT ![p] = w] \in Seq(Witnesses)
        /\ Len([reg EXCEPT ![p] = w]) = Len(reg)
    BY <1>1, <2>1, ExceptSeq
  <2> QED
    BY <1>1, <2>1, <2>2, <2>3 DEF Registries
<1>3. CASE w.organ \notin OrgansOf(reg)
  <2> DEFINE new == Append(reg, w)
  <2>1. AddWitness(reg, w) = new
    BY <1>3 DEF AddWitness
  <2>2. \A i \in DOMAIN reg : reg[i].organ # w.organ
    BY <1>3 DEF OrgansOf
  <2>3. /\ new \in Seq(Witnesses)
        /\ Len(new) = Len(reg) + 1
        /\ \A i \in 1..Len(reg) : new[i] = reg[i]
        /\ new[Len(reg) + 1] = w
    BY <1>1, AppendProperties
  <2>4. DOMAIN new = 1..(Len(reg) + 1) /\ DOMAIN reg = 1..Len(reg) /\ Len(reg) \in Nat
    BY <1>1, <2>3, LenProperties
  <2> HIDE DEF new
  <2>5. ASSUME NEW i \in DOMAIN new, NEW j \in DOMAIN new, new[i].organ = new[j].organ
        PROVE  i = j
    BY <2>2, <2>3, <2>4, <2>5 DEF Registries
  <2>6. new \in Registries
    BY <2>3, <2>5 DEF Registries
  <2> QED
    BY <2>1, <2>3, <2>4, <2>6
<1> QED
  BY <1>2, <1>3

\* A list of witnesses names finitely many organs, at most one for each entry, and exactly
\* one for each entry of a registry.
LEMMA OrgansCount ==
  ASSUME NEW S, NEW reg \in Seq(S)
  PROVE  /\ IsFiniteSet(OrgansOf(reg))
         /\ Cardinality(OrgansOf(reg)) \in Nat
         /\ Cardinality(OrgansOf(reg)) <= Len(reg)
         /\ (\A i, j \in DOMAIN reg : reg[i].organ = reg[j].organ => i = j)
              => Cardinality(OrgansOf(reg)) = Len(reg)
<1> DEFINE f == [i \in 1..Len(reg) |-> reg[i].organ]
<1>1. DOMAIN reg = 1..Len(reg) /\ Len(reg) \in Nat
  BY LenProperties
<1>2. IsFiniteSet(1..Len(reg)) /\ Cardinality(1..Len(reg)) = Len(reg)
  BY <1>1, FS_Interval
<1>3. f \in Surjection(1..Len(reg), OrgansOf(reg))
  BY <1>1 DEF Surjection, OrgansOf
<1>4. (\A i, j \in DOMAIN reg : reg[i].organ = reg[j].organ => i = j)
        => f \in Injection(1..Len(reg), OrgansOf(reg))
  BY <1>1, <1>3 DEF Injection, IsInjective, Surjection
<1>5. IsFiniteSet(OrgansOf(reg))
  BY <1>2, <1>3, FS_Surjection
<1>6. Cardinality(OrgansOf(reg)) \in Nat
  BY <1>5, FS_CardinalityType
<1> HIDE DEF f
<1> QED
  BY <1>2, <1>3, <1>4, <1>5, <1>6, FS_Surjection

\* What a registry publishes of its k-th witness.
LEMMA PublicTyped ==
  ASSUME NEW reg \in Registries
  PROVE  /\ Len(reg) \in Nat
         /\ \A k \in 1..Len(reg) : PublicOf(reg)[k] \in PublicWitnesses
         /\ PublicOf(reg) \in Seq(PublicWitnesses)
         /\ Len(PublicOf(reg)) = Len(reg)
<1>1. reg \in Seq(Witnesses)
  BY DEF Registries
<1>2. DOMAIN reg = 1..Len(reg) /\ Len(reg) \in Nat
  BY <1>1, LenProperties
<1>3. \A k \in 1..Len(reg) : PublicOf(reg)[k] \in PublicWitnesses
  <2> TAKE k \in 1..Len(reg)
  <2>1. reg[k] \in Witnesses
    BY <1>1, <1>2, ElementOfSeq
  <2> QED
    BY <1>2, <2>1 DEF PublicOf, PublicWitnesses, Witnesses
<1>4. PublicOf(reg) \in [1..Len(reg) -> PublicWitnesses]
  BY <1>2, <1>3 DEF PublicOf
<1>5. PublicOf(reg) \in Seq(PublicWitnesses)
  BY <1>2, <1>4, SeqDef
<1>6. Len(PublicOf(reg)) = Len(reg)
  BY <1>2, <1>4, <1>5, LenProperties
<1> QED
  BY <1>2, <1>3, <1>5, <1>6

\* public() and pubkeys() agree.
LEMMA PublicKeys ==
  ASSUME NEW reg \in Registries, NEW read \in Seq(PublicWitnesses), Len(read) = Len(reg),
         \A i \in DOMAIN read : read[i] = PublicOf(reg)[i]
  PROVE  read = PublicOf(reg) /\ PubkeysOf(read) = PubkeysOf(reg)
<1>1. reg \in Seq(Witnesses)
  BY DEF Registries
<1>2. DOMAIN read = DOMAIN reg
  BY <1>1, LenProperties
<1>3. \A i \in DOMAIN reg : read[i].organ = reg[i].organ /\ read[i].pem = reg[i].pem
  BY <1>2 DEF PublicOf
<1>4. OrgansOf(read) = OrgansOf(reg)
  BY <1>2, <1>3 DEF OrgansOf
<1>5. ASSUME NEW o \in OrgansOf(reg)
      PROVE  read[PositionOf(read, o)].pem = reg[PositionOf(reg, o)].pem
  <2>1. /\ PositionOf(reg, o) \in DOMAIN reg
        /\ reg[PositionOf(reg, o)].organ = o
    BY DEF OrgansOf, PositionOf
  <2>2. /\ PositionOf(read, o) \in DOMAIN read
        /\ read[PositionOf(read, o)].organ = o
    BY <1>4 DEF OrgansOf, PositionOf
  <2>3. PositionOf(reg, o) = PositionOf(read, o)
    BY <1>2, <1>3, <2>1, <2>2 DEF Registries
  <2> QED
    BY <1>2, <1>3, <2>2, <2>3
<1>6. PubkeysOf(read) = PubkeysOf(reg)
  BY <1>4, <1>5 DEF PubkeysOf
<1>7. read = PublicOf(reg)
  <2>1. DOMAIN PublicOf(reg) = DOMAIN read
    BY <1>2 DEF PublicOf
  <2>2. read = [i \in DOMAIN read |-> read[i]]
    BY LenProperties
  <2>3. PublicOf(reg) = [i \in DOMAIN read |-> PublicOf(reg)[i]]
    BY <2>1 DEF PublicOf
  <2> QED
    BY <2>2, <2>3
<1> QED
  BY <1>6, <1>7

\* The key a registry publishes for the organ of one of its witnesses is the key of that witness.
LEMMA OwnKey ==
  ASSUME NEW reg \in Registries, NEW i \in DOMAIN reg
  PROVE  PubkeyOf(PubkeysOf(reg), reg[i].organ) = reg[i].pem
<1>1. reg[i].organ \in OrgansOf(reg)
  BY DEF OrgansOf
<1>2. PositionOf(reg, reg[i].organ) \in DOMAIN reg
      /\ reg[PositionOf(reg, reg[i].organ)].organ = reg[i].organ
  BY <1>1 DEF PositionOf, OrgansOf
<1>3. PositionOf(reg, reg[i].organ) = i
  BY <1>2 DEF Registries
<1> QED
  BY <1>1, <1>3 DEF PubkeyOf, PubkeysOf

\* The keys a receipt publishes are those of the registry it was made from.
LEMMA PublishedKeys ==
  ASSUME NEW reg \in Registries
  PROVE  /\ PubkeysOf(PublicOf(reg)) = PubkeysOf(reg)
         /\ PublicOf(reg) # Junk
         /\ \A i \in DOMAIN PublicOf(reg) :
              /\ i \in DOMAIN reg
              /\ PublicOf(reg)[i].organ = reg[i].organ
              /\ PublicOf(reg)[i].organ \in DOMAIN PubkeysOf(reg)
              /\ PublicOf(reg)[i].pem = PubkeysOf(reg)[PublicOf(reg)[i].organ]
<1>1. PublicOf(reg) \in Seq(PublicWitnesses) /\ Len(PublicOf(reg)) = Len(reg)
  BY PublicTyped
<1>2. PubkeysOf(PublicOf(reg)) = PubkeysOf(reg)
  BY <1>1, PublicKeys
<1>3. PublicOf(reg) # Junk
  BY <1>1, JunkAssumption
<1>4. ASSUME NEW i \in DOMAIN PublicOf(reg)
      PROVE  /\ i \in DOMAIN reg
             /\ PublicOf(reg)[i].organ = reg[i].organ
             /\ PublicOf(reg)[i].organ \in DOMAIN PubkeysOf(reg)
             /\ PublicOf(reg)[i].pem = PubkeysOf(reg)[PublicOf(reg)[i].organ]
  <2>1. /\ i \in DOMAIN reg
        /\ PublicOf(reg)[i].organ = reg[i].organ /\ PublicOf(reg)[i].pem = reg[i].pem
    BY DEF PublicOf
  <2>2. reg[i].organ \in DOMAIN PubkeysOf(reg)
    BY <2>1 DEF PubkeysOf, OrgansOf
  <2>3. PubkeysOf(reg)[reg[i].organ] = reg[i].pem
    BY <2>1, <2>2, OwnKey DEF PubkeyOf
  <2> QED
    BY <2>1, <2>2, <2>3
<1> QED
  BY <1>2, <1>3, <1>4

\* A map of keys, whatever they were read from.
LEMMA PubkeysTyped ==
  ASSUME NEW read \in Seq(PublicWitnesses)
  PROVE  PubkeysOf(read) \in PubkeyMaps
<1>1. \A i \in DOMAIN read : read[i].organ \in OrganNames /\ read[i].pem \in AnyPem
  <2> TAKE i \in DOMAIN read
  <2>1. i \in 1..Len(read)
    BY LenProperties
  <2>2. read[i] \in PublicWitnesses
    BY <2>1, ElementOfSeq
  <2> QED
    BY <2>2 DEF PublicWitnesses
<1>2. OrgansOf(read) \subseteq OrganNames
  BY <1>1 DEF OrgansOf
<1>3. \A o \in OrgansOf(read) : PositionOf(read, o) \in DOMAIN read
  BY DEF OrgansOf, PositionOf
<1>4. PubkeysOf(read) \in [OrgansOf(read) -> Pems \cup {NoPem, BadPem}]
  BY <1>1, <1>3 DEF PubkeysOf, AnyPem
<1> QED
  BY <1>2, <1>4 DEF PubkeyMaps

-----------------------------------------------------------------------------
(* What verify_verdict returns.                                             *)

\* The default payload type does not change what kind of thing a row is.
LEMMA FromDictTyped ==
  ASSUME NEW row \in Rows
  PROVE  /\ FromDict(row) \in Rows
         /\ FromDict(row).organ = row.organ
         /\ FromDict(row).keyid = row.keyid
         /\ FromDict(row).payload = row.payload
         /\ FromDict(row).signature = row.signature
         /\ FromDict(row).type = IF row.type = "absent" THEN VerdictType ELSE row.type
  BY DEF FromDict, Rows, WireTypes

\* A row that is not refused carries a statement.
LEMMA AcceptedIsStatement ==
  ASSUME NEW v \in Rows, NEW pem, Refusal(v, pem) = ""
  PROVE  v.payload \in Statements
  BY DEF Refusal, Rows, Bodies

LEMMA VerifyVerdictTyped ==
  ASSUME NEW v \in Rows, NEW pem, NEW action
  PROVE  VerifyVerdict(v, pem, action) \in Checks
<1>1. v.organ \in OrganNames
  BY DEF Rows
<1>2. CASE Refusal(v, pem) # ""
  <2>1. Refusal(v, pem) \in Reasons
    BY DEF Refusal, Reasons
  <2>2. NotValid(v.organ, Refusal(v, pem)) \in Checks
    BY <1>1, <2>1 DEF NotValid, Checks
  <2> QED
    BY <1>2, <2>2 DEF VerifyVerdict
<1>3. CASE Refusal(v, pem) = ""
  <2>1. v.payload.verdict \in {"allow", "block"}
    BY <1>3, AcceptedIsStatement DEF Statements
  <2> QED
    BY <1>1, <1>3, <2>1 DEF VerifyVerdict, Checks, Reasons
<1> QED
  BY <1>2, <1>3

\* The ordered refusals of verify_verdict amount to one declarative condition: a row counts
\* exactly when it supports its organ, and it names that organ and no other.
LEMMA CountsIffSupports ==
  ASSUME NEW row \in Rows, NEW pubkeys, NEW action \in Actions,
         NEW o \in OrganNames, row.organ = o
  PROVE  VerifyVerdict(FromDict(row), PubkeyOf(pubkeys, o), action).counts
           <=> Supports(row, o, pubkeys, action)
<1> DEFINE v == FromDict(row)
           pem == PubkeyOf(pubkeys, o)
<1>1. /\ v \in Rows
      /\ v.organ = o
      /\ v.keyid = row.keyid
      /\ v.payload = row.payload
      /\ v.signature = row.signature
      /\ v.type = VerdictType <=> row.type \in {VerdictType, "absent"}
  BY FromDictTyped DEF VerdictType
<1>2. row # Abstain
  BY BytesAssumption
<1> HIDE DEF v, pem
<1>3. ASSUME VerifyVerdict(v, pem, action).counts
      PROVE  Supports(row, o, pubkeys, action)
  <2>1. Refusal(v, pem) = ""
    BY <1>3 DEF VerifyVerdict, NotValid
  <2>2. v.payload \in Statements
    BY <1>1, <2>1, AcceptedIsStatement
  <2>3. v.payload.action = action /\ v.payload.verdict = "allow"
    BY <1>3, <2>1 DEF VerifyVerdict
  <2>4. /\ v.type = VerdictType
        /\ v.organ # NoOrgan
        /\ v.keyid = KeyidOf(v.organ)
        /\ pem \in Pems
        /\ v.signature = SignatureBy(pem, v.type, v.payload)
        /\ v.payload.schema = Schema
        /\ v.payload.organ = v.organ
        /\ v.payload.keyid = KeyidOf(v.organ)
    BY <2>1 DEF Refusal
  <2>5. v.payload = SignedAllow(o, action)
    BY <1>1, <2>2, <2>3, <2>4 DEF Statements, SignedAllow
  <2> QED
    BY <1>1, <1>2, <2>4, <2>5 DEF Supports, OrganNames, pem
<1>4. ASSUME Supports(row, o, pubkeys, action)
      PROVE  VerifyVerdict(v, pem, action).counts
  <2>1. /\ o \in Organs
        /\ pem \in Pems
        /\ v.keyid = KeyidOf(o)
        /\ v.type = VerdictType
        /\ v.payload = SignedAllow(o, action)
        /\ v.signature = SignatureBy(pem, VerdictType, v.payload)
    BY <1>1, <1>4 DEF Supports, pem
  <2>2. o # NoOrgan
    BY <2>1, NamesAssumption
  <2>3. NoBytes \notin {v.payload, v.signature} /\ v.payload # Junk
    <3>1. v.payload \in Statements
      BY <2>1 DEF SignedAllow, Statements, Keyids, OrganNames
    <3>2. v.signature \in Signatures
      BY <2>1, <3>1 DEF SignatureBy, Signatures, Bodies
    <3> QED
      BY <3>1, <3>2, BytesAssumption DEF Bodies
  <2>4. Refusal(v, pem) = ""
    BY <1>1, <2>1, <2>2, <2>3 DEF Refusal, SignedAllow
  <2>5. v.payload.action = action /\ v.payload.verdict = "allow"
    BY <2>1 DEF SignedAllow
  <2> QED
    BY <2>4, <2>5 DEF VerifyVerdict
<1> QED
  BY <1>3, <1>4 DEF v, pem

-----------------------------------------------------------------------------
(* Rows and tallies.                                                        *)

\* What sign_verdict returns.
LEMMA SignVerdictTyped ==
  ASSUME NEW organ \in OrganNames, NEW action \in Actions, NEW verdict \in {"allow", "block"},
         NEW pem \in Pems
  PROVE  LET row == SignVerdict(organ, action, verdict, pem)
         IN  /\ row \in Rows
             /\ row.payload \in Statements
             /\ row.signature \in Signatures
             /\ row.signature.pem = pem
             /\ row.signature.body = row.payload
<1> DEFINE row == SignVerdict(organ, action, verdict, pem)
<1>1. row.payload \in Statements
  BY DEF SignVerdict, Statements, Keyids
<1>2. /\ row.signature \in Signatures
      /\ row.signature.pem = pem
      /\ row.signature.body = row.payload
  BY <1>1 DEF SignVerdict, SignatureBy, Signatures, Bodies
<1>3. row \in Rows
  <2>1. /\ row.organ = organ /\ row.keyid = KeyidOf(organ) /\ row.type = VerdictType
        /\ row = [organ |-> row.organ, keyid |-> row.keyid, type |-> row.type,
                  payload |-> row.payload, signature |-> row.signature]
    BY DEF SignVerdict
  <2>2. KeyidOf(organ) \in Keyids
    BY DEF Keyids
  <2> HIDE DEF row
  <2> QED
    BY <1>1, <1>2, <2>1, <2>2 DEF Rows, Bodies, WireTypes
<1> QED
  BY <1>1, <1>2, <1>3

\* What tally returns.
TallyOutcomes == [decision : {"canonical", "rejected"}, count : Nat]

\* Only organs with a published key can be among those that allow.
LEMMA AllowingHaveKeys ==
  ASSUME NEW action, NEW verdicts, NEW pubkeys
  PROVE  AllowingWitnesses(action, verdicts, pubkeys) \subseteq DOMAIN pubkeys
  BY PemAssumption DEF AllowingWitnesses, Supports, PubkeyOf

\* tally never counts more witnesses than there are keys.
LEMMA OutcomeBounded ==
  ASSUME NEW action, NEW verdicts, NEW pubkeys, NEW threshold, NEW n,
         IsFiniteSet(DOMAIN pubkeys)
  PROVE  /\ TallyOutcome(action, verdicts, pubkeys, threshold, n) \in TallyOutcomes
         /\ TallyOutcome(action, verdicts, pubkeys, threshold, n).count
              <= Cardinality(DOMAIN pubkeys)
<1> DEFINE A == AllowingWitnesses(action, verdicts, pubkeys)
<1>1. A \subseteq DOMAIN pubkeys
  BY AllowingHaveKeys
<1>2. /\ IsFiniteSet(A)
      /\ Cardinality(A) <= Cardinality(DOMAIN pubkeys)
  BY <1>1, FS_Subset
<1>3. Cardinality(A) \in Nat /\ Cardinality(DOMAIN pubkeys) \in Nat
  BY <1>2, FS_CardinalityType
<1> HIDE DEF A
<1> QED
  BY <1>2, <1>3 DEF TallyOutcome, TallyOutcomes, A

-----------------------------------------------------------------------------
(* verify_receipt.                                                          *)

\* The rows that witnesses give to attest are well-formed entries for a verifier with their
\* keys, abstentions included.
LEMMA AnswersAreEntries ==
  ASSUME NEW reg \in Registries, NEW sigs \in Seq(Items), Len(sigs) = Len(reg),
         NoOrgan \notin OrgansOf(reg),
         \A i \in DOMAIN reg :
           \/ sigs[i] = Abstain
           \/ \E action \in Actions, vote \in {"allow", "block"}, pem \in Pems :
                sigs[i] = SignVerdict(reg[i].organ, action, vote, pem)
  PROVE  ValidSignatureEntries(sigs, PubkeysOf(reg))
<1> DEFINE keys == PubkeysOf(reg)
<1>1. /\ reg \in Seq(Witnesses) /\ Len(reg) \in Nat
      /\ DOMAIN sigs = 1..Len(reg) /\ DOMAIN reg = 1..Len(reg)
  BY LenProperties DEF Registries
<1>2. DOMAIN keys = OrgansOf(reg) /\ Cardinality(DOMAIN keys) = Len(reg)
  BY <1>1, OrgansCount DEF PubkeysOf, Registries
<1>3. ASSUME NEW i \in DOMAIN sigs, sigs[i] # Abstain
      PROVE  sigs[i].organ = reg[i].organ /\ ValidEntry(sigs[i], keys)
  <2> DEFINE organ == reg[i].organ
  <2>1. organ \in OrgansOf(reg) /\ organ \in OrganNames \ {NoOrgan}
    <3>1. organ \in OrgansOf(reg)
      BY <1>1 DEF OrgansOf
    <3>2. reg[i] \in Witnesses
      BY <1>1, ElementOfSeq
    <3> QED
      BY <3>1, <3>2 DEF Witnesses
  <2> HIDE DEF organ
  <2>2. PICK action \in Actions, vote \in {"allow", "block"}, pem \in Pems :
          sigs[i] = SignVerdict(organ, action, vote, pem)
    BY <1>1, <1>3 DEF organ
  <2>3. /\ sigs[i].payload \in Statements /\ sigs[i].signature \in Signatures
        /\ sigs[i].organ = organ /\ sigs[i].type = VerdictType
    <3>1. sigs[i].organ = organ /\ sigs[i].type = VerdictType
      BY <2>2 DEF SignVerdict
    <3> QED
      BY <2>1, <2>2, <3>1, SignVerdictTyped
  <2>4. sigs[i].payload # NoBytes /\ sigs[i].signature # NoBytes
    BY <2>3, BytesAssumption DEF Bodies
  <2> QED
    BY <1>2, <2>1, <2>3, <2>4 DEF ValidEntry, organ
<1>4. sigs # Junk
  BY JunkAssumption
<1>5. \A i, j \in DOMAIN sigs :
        sigs[i] # Abstain /\ sigs[j] # Abstain /\ sigs[i].organ = sigs[j].organ => i = j
  BY <1>1, <1>3 DEF Registries
<1>6. Len(sigs) <= Cardinality(DOMAIN keys)
  BY <1>1, <1>2
<1> HIDE DEF keys
<1>7. ValidSignatureEntries(sigs, keys)
  BY <1>3, <1>4, <1>5, <1>6 DEF ValidSignatureEntries
<1> QED
  BY <1>7 DEF keys

\* A receipt that says what the verifier finds is confirmed.
LEMMA ConfirmedWhen ==
  ASSUME NEW r, NEW trusted, NEW threshold,
         ~PolicyRefused(trusted, threshold),
         r.schema = RECEIPT_SCHEMA,
         TrustPolicyMatches(r, trusted, threshold),
         ValidSignatureEntries(r.signatures, trusted),
         NEW outcome, outcome = TallyOutcome(r.action, r.signatures, trusted, threshold,
                                             Cardinality(DOMAIN trusted)),
         r.decision = outcome.decision,
         r.count = outcome.count
  PROVE  /\ VerifyReceipt(r, trusted, threshold).matches
         /\ VerifyReceipt(r, trusted, threshold).count = r.count
  BY DEF VerifyReceipt
=============================================================================
