---------------------------- MODULE SpineReceipt ----------------------------
(***************************************************************************)
(* spine.py: a multi-witness receipt is folded onto a signed envelope that  *)
(* binds digests of its quorum inputs and of its agreed value; whoever      *)
(* holds the envelope and an archived receipt may later check that the two  *)
(* belong together.  emit_adversarial_receipt (adversary.py) signs reports  *)
(* with the same library.                                                   *)
(*                                                                         *)
(* szl_receipt is external: a digest is the value digested, a signature     *)
(* the key and the body it covers.  Energy, honesty notes and the           *)
(* constants of the body are left out.                                      *)
(***************************************************************************)
EXTENDS Receipts

CONSTANTS
  RoundPool,   \* rounds that took place: [registry, action, blocking]
  Threshold,   \* the quorum they ran under
  MaxEmits,    \* bound on the envelopes emitted
  MaxEdits     \* bound on the edits of the envelope and of the archive

ASSUME PoolAssumption ==
  /\ RoundPool \subseteq [registry : Registries, action : Actions, blocking : SUBSET Organs]
  /\ \A p \in RoundPool : ValidQuorumCounts(Threshold, Len(p.registry))
  /\ MaxEmits \in Nat /\ MaxEdits \in Nat

VARIABLES
  archive,   \* the multi-witness receipt kept beside the envelopes
  emitted,   \* history: every envelope emitted, the receipt it was made of, and how
  envelope,  \* the envelope that reached the verifier
  edits      \* edits so far

vars == <<archive, emitted, envelope, edits>>

-----------------------------------------------------------------------------
(* The receipt of a quiet round, with the fields verify_receipt ignores.    *)

RowsOf(p) ==
  [i \in DOMAIN p.registry |->
     LET w == p.registry[i]
     IN  IF w.priv \notin Pems THEN Abstain
         ELSE SignVerdict(w.organ, p.action,
                          IF w.organ \in p.blocking THEN "block" ELSE "allow", w.priv)]

ChecksOf(p) ==
  [i \in DOMAIN p.registry |->
     LET w == p.registry[i]
     IN  [organ |-> IF w.priv \in Pems THEN w.organ ELSE NoOrgan,
          counts |-> w.organ \in AllowingWitnesses(p.action, RowsOf(p), PubkeysOf(p.registry))]]

RoundOf(p) ==
  LET n == Len(p.registry)
      out == TallyOutcome(p.action, RowsOf(p), PubkeysOf(p.registry), Threshold, n)
  IN  [schema |-> RECEIPT_SCHEMA, action |-> p.action, threshold |-> Threshold, n |-> n,
       decision |-> out.decision, count |-> out.count, khipu |-> <<out.count, n>>,
       signatures |-> RowsOf(p), checks |-> ChecksOf(p), witnesses |-> PublicOf(p.registry)]

Rounds == {RoundOf(p) : p \in RoundPool}

-----------------------------------------------------------------------------
(* The fold.                                                                *)

\* Defect: the claimed witness keys are not among the inputs.
ConsensusInput_NoWitnesses(r) ==
  [action |-> r.action, threshold |-> r.threshold, n |-> r.n, signatures |-> r.signatures]

ConsensusInput(r) ==
  [action |-> r.action, threshold |-> r.threshold, n |-> r.n,
   signatures |-> r.signatures, witnesses |-> r.witnesses]

ConsensusOutput(r) ==
  [decision |-> r.decision, count |-> r.count, khipu |-> r.khipu, checks |-> r.checks]

CountingWitnesses(r) ==
  LET counting == SelectSeq(r.checks, LAMBDA c : c.counts)
  IN  [i \in DOMAIN counting |-> counting[i].organ]

Quorum(r) == [threshold |-> r.threshold, n |-> r.n, count |-> r.count,
              khipu |-> r.khipu, decision |-> r.decision]

Policies == {"default", "other"}

\* build_consensus_receipt_body
BuildBody(r, policy, witnesses) ==
  [kind |-> "consensus", subject |-> r.action,
   input |-> ConsensusInput(r), output |-> ConsensusOutput(r),
   policy |-> policy, witnesses |-> witnesses, quorum |-> Quorum(r)]

\* A report of the harness: no digests, and nothing the verifier would look for.
ReportBody == [kind |-> "adversarial"]

\* szl_receipt.sign_receipt, which leaves an envelope without signatures when it has no
\* key, and verify_receipt.
Unsigned == <<>>
SignBody(body, pem) ==
  [payload |-> body, signature |-> IF pem = NoPem THEN Unsigned ELSE <<pem, body>>]
SignatureHolds(env, pem) ==
  env.signature # Unsigned /\ env.signature = <<pem, env.payload>>

\* Defect: a digest the body lacks is not asked for.
Binds_IfPresent(body, field, digest) == field \in DOMAIN body => body[field] = digest

\* body.get(...) != digest: a body without the digest matches nothing.
Binds(body, field, digest) == field \in DOMAIN body /\ body[field] = digest

\* Defect: only the agreed value is compared with the receipt.
VerifyConsensus_OutputOnly(env, pem, r) ==
  SignatureHolds(env, pem) /\ Binds(env.payload, "output", ConsensusOutput(r))

\* verify_consensus_receipt with a receipt to rebind; without one it is SignatureHolds.
VerifyConsensus(env, pem, r) ==
  /\ SignatureHolds(env, pem)
  /\ Binds(env.payload, "input", ConsensusInput(r))
  /\ Binds(env.payload, "output", ConsensusOutput(r))

-----------------------------------------------------------------------------
NoEnvelope == SignBody([kind |-> "none"], NoPem)

Init == archive \in Rounds /\ emitted = {} /\ envelope = NoEnvelope /\ edits = 0

Sign(body, pem, override) ==
  /\ Cardinality(emitted) < MaxEmits
  /\ envelope' = SignBody(body, pem)
  /\ emitted' = emitted \cup {[env |-> envelope', of |-> archive, pem |-> pem,
                               override |-> override]}
  /\ UNCHANGED <<archive, edits>>

\* emit_consensus_receipt: of the archived receipt as it stands, edited or not.
Emit(pem) ==
  \/ \E policy \in Policies :
       Sign(BuildBody(archive, policy, CountingWitnesses(archive)), pem, FALSE)
  \/ \E o \in Organs : Sign(BuildBody(archive, "default", <<o>>), pem, TRUE)

EmitAdversarial(pem) == Sign(ReportBody, pem, FALSE)

\* An earlier envelope reaches the verifier; another round is archived.
Resend == /\ \E e \in emitted : envelope' = e.env
          /\ UNCHANGED <<archive, emitted, edits>>
Rearchive == archive' \in Rounds /\ UNCHANGED <<emitted, envelope, edits>>

ReceiptEdits(r) ==
  {[r EXCEPT !.threshold = k] : k \in 1..3} \cup {[r EXCEPT !.n = k] : k \in 1..3}
  \cup {[r EXCEPT !.action = x] : x \in Actions}
  \cup {[r EXCEPT !.decision = d] : d \in {"canonical", "rejected"}}
  \cup {[r EXCEPT !.count = k, !.khipu = <<k, r.n>>] : k \in 0..3}
  \cup {[r EXCEPT !.signatures = RemoveAt(@, i)] : i \in DOMAIN r.signatures}
  \cup {[r EXCEPT !.checks = x.checks] : x \in Rounds}
  \cup {[r EXCEPT !.witnesses = x.witnesses] : x \in Rounds}
  \cup {[r EXCEPT !.schema = "other"]}

EditArchive ==
  /\ edits < MaxEdits
  /\ archive' \in ReceiptEdits(archive)
  /\ edits' = edits + 1
  /\ UNCHANGED <<emitted, envelope>>

\* The payload is replaced by another one, or the signature is lost.
EditEnvelope ==
  /\ edits < MaxEdits
  /\ \/ \E e \in emitted : envelope' = [envelope EXCEPT !.payload = e.env.payload]
     \/ envelope' = [envelope EXCEPT !.payload =
                       BuildBody(archive, "default", CountingWitnesses(archive))]
     \/ envelope' = [envelope EXCEPT !.signature = Unsigned]
  /\ edits' = edits + 1
  /\ UNCHANGED <<archive, emitted>>

Next ==
  \/ \E pem \in Pems \cup {NoPem} : Emit(pem) \/ EmitAdversarial(pem)
  \/ Resend \/ Rearchive \/ EditArchive \/ EditEnvelope

Spec == Init /\ [][Next]_vars

-----------------------------------------------------------------------------
Accepted(pem) == VerifyConsensus(envelope, pem, archive)

\* The receipt may be taken for the one that was folded: whatever was edited, whichever
\* envelope arrived and whichever round was archived, an accepted pair means the holder of
\* this very key emitted a receipt that differs from the archived one at most in its schema,
\* the only modelled field no digest covers; a keyless emission is never accepted.
RebindMeansSameReceipt ==
  \A pem \in Pems \cup {NoPem} : Accepted(pem) =>
    \E e \in emitted : e.pem = pem /\ pem # NoPem
                       /\ [e.of EXCEPT !.schema = archive.schema] = archive

\* What the body says in clear (subject, quorum, and the witnesses unless the caller of
\* emit named them) agrees with the archived receipt, though only the digests are compared.
RebindBodyAgrees ==
  \A pem \in Pems : Accepted(pem) =>
    LET body == envelope.payload
    IN  /\ body.subject = archive.action
        /\ body.quorum = Quorum(archive)
        /\ \/ body.witnesses = CountingWitnesses(archive)
           \/ \E e \in emitted : e.env = envelope /\ e.override

\* Round trip: whatever is emitted with a key rebinds to its own receipt under that key, a
\* rejected or an edited receipt included; a harness report rebinds to none.
EmittedRebinds ==
  \A e \in emitted, pem \in Pems :
    VerifyConsensus(e.env, pem, e.of) <=> (pem = e.pem /\ e.env.payload.kind = "consensus")
=============================================================================
