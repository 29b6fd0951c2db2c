----------------------------- MODULE SpineProofs -----------------------------
(***************************************************************************)
(* Proofs about SpineReceipt, for every pool of rounds, any number of        *)
(* emissions and any number of edits of the envelope and of the archive.     *)
(***************************************************************************)
EXTENDS SpineReceipt, TLAPS

-----------------------------------------------------------------------------
(* The inductive invariant.                                                 *)

\* A receipt has these fields; an envelope has those.
IsReceipt(r) ==
  r = [schema |-> r.schema, action |-> r.action, threshold |-> r.threshold, n |-> r.n,
       decision |-> r.decision, count |-> r.count, khipu |-> r.khipu,
       signatures |-> r.signatures, checks |-> r.checks, witnesses |-> r.witnesses]
IsEnvelope(env) == env = [payload |-> env.payload, signature |-> env.signature]

\* An emission is what emit makes of its receipt, or a harness report.
Genuine(e) ==
  LET body == e.env.payload
  IN  /\ IsReceipt(e.of) /\ e.pem \in Pems \cup {NoPem}
      /\ e.env = SignBody(body, e.pem)
      /\ \/ body = ReportBody
         \/ /\ body = BuildBody(e.of, body.policy, body.witnesses)
            /\ body.witnesses = CountingWitnesses(e.of) \/ e.override

\* A signature in circulation is one that some emission made, over its own payload.
Circulates == envelope.signature # Unsigned =>
  \E e \in emitted : e.pem # NoPem /\ envelope.signature = <<e.pem, e.env.payload>>

IInv ==
  /\ IsReceipt(archive) /\ IsEnvelope(envelope)
  /\ \A e \in emitted : Genuine(e)
  /\ Circulates

-----------------------------------------------------------------------------
(* The steps.                                                               *)

LEMMA RoundsAreReceipts ==
  ASSUME NEW r \in Rounds
  PROVE  IsReceipt(r)
BY DEF Rounds, RoundOf, IsReceipt

LEMMA InitHolds ==
  ASSUME Init
  PROVE  IInv
BY RoundsAreReceipts DEF Init, IInv, NoEnvelope, SignBody, IsEnvelope, Circulates

\* Signing a body that is made of the archive.
LEMMA SignHolds ==
  ASSUME IInv, NEW body, NEW pem \in Pems \cup {NoPem}, NEW override,
         Sign(body, pem, override),
         \/ body = ReportBody
         \/ /\ body = BuildBody(archive, body.policy, body.witnesses)
            /\ body.witnesses = CountingWitnesses(archive) \/ override
  PROVE  IInv'
<1> DEFINE new == [env |-> SignBody(body, pem), of |-> archive, pem |-> pem,
                   override |-> override]
<1>1. /\ envelope' = SignBody(body, pem) /\ emitted' = emitted \cup {new}
      /\ UNCHANGED archive
  BY DEF Sign
<1>2. new.env.payload = body
  BY DEF SignBody
<1>3. Genuine(new)
  BY <1>2 DEF Genuine, IInv
<1>4. IsEnvelope(envelope')
  BY <1>1 DEF IsEnvelope, SignBody
<1>5. envelope'.signature # Unsigned =>
        new.pem # NoPem /\ envelope'.signature = <<new.pem, new.env.payload>>
  BY <1>1, <1>2 DEF SignBody
<1> HIDE DEF new
<1>6. Circulates'
  BY <1>1, <1>5 DEF Circulates
<1>7. \A e \in emitted' : Genuine(e)
  BY <1>1, <1>3 DEF IInv
<1> QED
  BY <1>1, <1>4, <1>6, <1>7 DEF IInv, Genuine

LEMMA EmitHolds ==
  ASSUME IInv, NEW pem \in Pems \cup {NoPem}, Emit(pem) \/ EmitAdversarial(pem)
  PROVE  IInv'
<1>1. ASSUME NEW policy \in Policies,
             Sign(BuildBody(archive, policy, CountingWitnesses(archive)), pem, FALSE)
      PROVE  IInv'
  <2> DEFINE body == BuildBody(archive, policy, CountingWitnesses(archive))
  <2>1. body.policy = policy /\ body.witnesses = CountingWitnesses(archive)
    BY DEF BuildBody
  <2>2. body = BuildBody(archive, body.policy, body.witnesses)
    BY <2>1
  <2> HIDE DEF body
  <2> QED
    BY <1>1, <2>1, <2>2, SignHolds DEF body
<1>2. ASSUME NEW o \in Organs, Sign(BuildBody(archive, "default", <<o>>), pem, TRUE)
      PROVE  IInv'
  <2> DEFINE body == BuildBody(archive, "default", <<o>>)
  <2>1. body.policy = "default" /\ body.witnesses = <<o>>
    BY DEF BuildBody
  <2>2. body = BuildBody(archive, body.policy, body.witnesses)
    BY <2>1
  <2> HIDE DEF body
  <2> QED
    BY <1>2, <2>1, <2>2, SignHolds DEF body
<1>3. CASE EmitAdversarial(pem)
  BY <1>3, SignHolds DEF EmitAdversarial
<1> QED
  BY <1>1, <1>2, <1>3 DEF Emit

\* An edited receipt is still a receipt.
LEMMA EditsAreReceipts ==
  ASSUME NEW r, IsReceipt(r), NEW s \in ReceiptEdits(r)
  PROVE  IsReceipt(s)
BY DEF ReceiptEdits, IsReceipt

LEMMA OthersHold ==
  ASSUME IInv, Resend \/ Rearchive \/ EditArchive \/ EditEnvelope
  PROVE  IInv'
<1>1. emitted' = emitted
  BY DEF Resend, Rearchive, EditArchive, EditEnvelope
<1>2. \A e \in emitted : Genuine(e)'
  BY <1>1 DEF IInv, Genuine
<1>3. CASE Resend
  <2>1. PICK e \in emitted : envelope' = e.env
    BY <1>3 DEF Resend
  <2>2. e.env = SignBody(e.env.payload, e.pem)
    BY DEF IInv, Genuine
  <2>3. IsEnvelope(envelope')
    BY <2>1, <2>2 DEF IsEnvelope, SignBody
  <2>4. Circulates'
    BY <1>1, <2>1, <2>2 DEF Circulates, SignBody
  <2> QED
    BY <1>1, <1>2, <1>3, <2>3, <2>4 DEF IInv, Resend
<1>4. CASE Rearchive
  BY <1>1, <1>2, <1>4, RoundsAreReceipts DEF Rearchive, IInv, Circulates
<1>5. CASE EditArchive
  BY <1>1, <1>2, <1>5, EditsAreReceipts DEF EditArchive, IInv, Circulates
<1>6. CASE EditEnvelope
  <2>1. PICK body : \/ envelope' = [envelope EXCEPT !.payload = body]
                    \/ envelope' = [envelope EXCEPT !.signature = Unsigned]
    BY <1>6 DEF EditEnvelope
  <2>2. IsEnvelope(envelope') /\ envelope'.signature \in {envelope.signature, Unsigned}
    BY <2>1 DEF IInv, IsEnvelope
  <2>3. Circulates'
    BY <1>1, <2>2 DEF IInv, Circulates
  <2> QED
    BY <1>1, <1>2, <1>6, <2>2, <2>3 DEF IInv, EditEnvelope
<1> QED
  BY <1>3, <1>4, <1>5, <1>6

LEMMA Inductive == Spec => []IInv
<1>1. IInv /\ UNCHANGED vars => IInv'
  BY DEF vars, IInv, Circulates
<1>2. IInv /\ Next => IInv'
  BY EmitHolds, OthersHold DEF Next
<1> QED
  BY <1>1, <1>2, InitHolds, PTL DEF Spec

-----------------------------------------------------------------------------
(* What a rebinding establishes.                                            *)

\* The two digests cover every field of a receipt but its schema.
LEMMA DigestsDetermine ==
  ASSUME NEW r, NEW s, IsReceipt(r), IsReceipt(s),
         ConsensusInput(r) = ConsensusInput(s), ConsensusOutput(r) = ConsensusOutput(s)
  PROVE  /\ [r EXCEPT !.schema = s.schema] = s
         /\ Quorum(r) = Quorum(s) /\ r.action = s.action
         /\ CountingWitnesses(r) = CountingWitnesses(s)
<1>1. /\ r.action = s.action /\ r.threshold = s.threshold /\ r.n = s.n
      /\ r.signatures = s.signatures /\ r.witnesses = s.witnesses
  BY DEF ConsensusInput
<1>2. /\ r.decision = s.decision /\ r.count = s.count /\ r.khipu = s.khipu
      /\ r.checks = s.checks
  BY DEF ConsensusOutput
<1>3. [r EXCEPT !.schema = s.schema] = s
  BY <1>1, <1>2 DEF IsReceipt
<1> QED
  BY <1>1, <1>2, <1>3 DEF Quorum, CountingWitnesses

\* An accepted envelope is one that was emitted, under the same key, of a receipt with the
\* archived digests.
LEMMA AcceptedWasEmitted ==
  ASSUME IInv, NEW pem \in Pems \cup {NoPem}, Accepted(pem)
  PROVE  \E e \in emitted :
           /\ e.pem = pem /\ pem # NoPem /\ e.env = envelope
           /\ e.env.payload = BuildBody(e.of, e.env.payload.policy, e.env.payload.witnesses)
           /\ ConsensusInput(e.of) = ConsensusInput(archive)
           /\ ConsensusOutput(e.of) = ConsensusOutput(archive)
<1>1. /\ envelope.signature # Unsigned /\ envelope.signature = <<pem, envelope.payload>>
      /\ Binds(envelope.payload, "input", ConsensusInput(archive))
      /\ Binds(envelope.payload, "output", ConsensusOutput(archive))
  BY DEF Accepted, VerifyConsensus, SignatureHolds
<1>2. PICK e \in emitted :
        e.pem # NoPem /\ envelope.signature = <<e.pem, e.env.payload>>
  BY <1>1 DEF IInv, Circulates
<1>3. e.pem = pem /\ e.env.payload = envelope.payload
  BY <1>1, <1>2
<1>4. Genuine(e)
  BY DEF IInv
<1>5. e.env = envelope
  BY <1>2, <1>3, <1>4 DEF Genuine, SignBody, IInv, IsEnvelope
<1>6. e.env.payload # ReportBody
  BY <1>1, <1>3 DEF Binds, ReportBody
<1>7. e.env.payload = BuildBody(e.of, e.env.payload.policy, e.env.payload.witnesses)
  BY <1>4, <1>6 DEF Genuine
<1>8. e.env.payload.input = ConsensusInput(e.of) /\ e.env.payload.output = ConsensusOutput(e.of)
  BY <1>7 DEF BuildBody
<1> QED
  BY <1>1, <1>2, <1>3, <1>5, <1>7, <1>8 DEF Binds

-----------------------------------------------------------------------------
(* The theorems.                                                            *)

\* However envelopes and receipts are edited, exchanged and resent, a pair that rebinds is
\* one the holder of the key folded, up to the schema no digest covers.
THEOREM RebindIsGenuine == Spec => []RebindMeansSameReceipt
<1>1. ASSUME IInv, NEW pem \in Pems \cup {NoPem}, Accepted(pem)
      PROVE  \E e \in emitted : e.pem = pem /\ pem # NoPem
                                /\ [e.of EXCEPT !.schema = archive.schema] = archive
  <2>1. PICK e \in emitted :
          /\ e.pem = pem /\ pem # NoPem
          /\ ConsensusInput(e.of) = ConsensusInput(archive)
          /\ ConsensusOutput(e.of) = ConsensusOutput(archive)
    BY <1>1, AcceptedWasEmitted
  <2>2. [e.of EXCEPT !.schema = archive.schema] = archive
    BY <1>1, <2>1, DigestsDetermine DEF IInv, Genuine
  <2> QED
    BY <2>1, <2>2
<1>2. IInv => RebindMeansSameReceipt
  BY <1>1 DEF RebindMeansSameReceipt
<1> QED
  BY <1>2, Inductive, PTL

\* What an accepted body says in clear is what the archived receipt says.
THEOREM BodyAgrees == Spec => []RebindBodyAgrees
<1>1. ASSUME IInv, NEW pem \in Pems, Accepted(pem)
      PROVE  LET body == envelope.payload
             IN  /\ body.subject = archive.action
                 /\ body.quorum = Quorum(archive)
                 /\ \/ body.witnesses = CountingWitnesses(archive)
                    \/ \E e \in emitted : e.env = envelope /\ e.override
  <2>1. PICK e \in emitted :
          /\ e.env = envelope
          /\ e.env.payload = BuildBody(e.of, e.env.payload.policy, e.env.payload.witnesses)
          /\ ConsensusInput(e.of) = ConsensusInput(archive)
          /\ ConsensusOutput(e.of) = ConsensusOutput(archive)
    BY <1>1, AcceptedWasEmitted
  <2>2. /\ e.of.action = archive.action /\ Quorum(e.of) = Quorum(archive)
        /\ CountingWitnesses(e.of) = CountingWitnesses(archive)
    BY <1>1, <2>1, DigestsDetermine DEF IInv, Genuine
  <2>3. /\ envelope.payload.subject = e.of.action /\ envelope.payload.quorum = Quorum(e.of)
        /\ envelope.payload # ReportBody
    BY <2>1 DEF BuildBody, ReportBody
  <2>4. envelope.payload.witnesses = CountingWitnesses(e.of) \/ e.override
    BY <1>1, <2>1, <2>3 DEF IInv, Genuine
  <2> QED
    BY <2>1, <2>2, <2>3, <2>4
<1>2. IInv => RebindBodyAgrees
  BY <1>1 DEF RebindBodyAgrees
<1> QED
  BY <1>2, Inductive, PTL

\* An emission rebinds to its own receipt under its own key and under no other; a report of
\* the harness rebinds to nothing.
THEOREM RoundTrips == Spec => []EmittedRebinds
<1>1. ASSUME IInv, NEW e \in emitted, NEW pem \in Pems
      PROVE  VerifyConsensus(e.env, pem, e.of)
               <=> (pem = e.pem /\ e.env.payload.kind = "consensus")
  <2> DEFINE body == e.env.payload
  <2>1. Genuine(e) /\ pem # NoPem
    BY <1>1, PemAssumption DEF IInv
  <2>2. e.env.signature = IF e.pem = NoPem THEN Unsigned ELSE <<e.pem, body>>
    BY <2>1 DEF Genuine, SignBody
  <2>3. SignatureHolds(e.env, pem) <=> pem = e.pem
    BY <2>1, <2>2 DEF SignatureHolds, Unsigned
  <2>4. CASE body = ReportBody
    BY <2>4 DEF ReportBody, VerifyConsensus, Binds
  <2>5. CASE body = BuildBody(e.of, body.policy, body.witnesses)
    <3>1. /\ body.kind = "consensus"
          /\ Binds(body, "input", ConsensusInput(e.of))
          /\ Binds(body, "output", ConsensusOutput(e.of))
      BY <2>5 DEF BuildBody, Binds
    <3> QED
      BY <2>3, <3>1 DEF VerifyConsensus
  <2> QED
    BY <2>1, <2>4, <2>5 DEF Genuine
<1>2. IInv => EmittedRebinds
  BY <1>1 DEF EmittedRebinds
<1> QED
  BY <1>2, Inductive, PTL
=============================================================================
