---------------------------- MODULE Attestation ----------------------------
(***************************************************************************)
(* The life of a multi-witness receipt (witness.py): callers run attest     *)
(* against one WitnessRegistry, which the host program may change by add    *)
(* while they do; the receipts travel, and are edited by whoever carries    *)
(* them; verify_receipt judges what arrives.                                *)
(*                                                                         *)
(* attest takes no lock.  Each of its reads of the registry is a step here. *)
(***************************************************************************)
EXTENDS Receipts

CONSTANTS
  Callers,      \* threads that may call attest, once each
  Scenarios,    \* what a history may start from and meet
  Threshold,    \* registry.threshold
  FaultyPems    \* key pairs whose holder signs anything

\* What each caller asks, and the organs it tells to block; the registry at the start; the
\* witnesses the host program may add or replace; key maps a verifier may use in place of
\* the registry; and bounds on the calls of add and on the edits of one receipt.
Ask == [action : Actions, blocking : SUBSET Organs]
Scenario == [calls : UNION {[C -> Ask] : C \in SUBSET Callers}, registry : Registries,
             joining : SUBSET Witnesses, policies : SUBSET PubkeyMaps,
             maxAdds : Nat, maxEdits : Nat]

ASSUME SystemAssumption == Scenarios \subseteq Scenario /\ FaultyPems \subseteq Pems

VARIABLES
  scenario,
  registry,
  adds,     \* calls of add so far
  signed,   \* history: the statements attest had witnesses sign, with the key used
  pc,       \* where each caller stands in attest
  job,      \* its arguments, local variables and, at the end, its receipt
  desk      \* the receipt on its way to, or judged by, verify_receipt

vars == <<scenario, registry, adds, signed, pc, job, desk>>

NoReceipt == [decision |-> "none"]
EmptyDesk == [phase |-> "empty"]

Init ==
  /\ scenario \in Scenarios
  /\ registry = scenario.registry
  /\ adds = 0
  /\ signed = {}
  /\ pc = [t \in Callers |-> "idle"]
  /\ job = [t \in DOMAIN scenario.calls |->
              [action |-> scenario.calls[t].action, blocking |-> scenario.calls[t].blocking,
               begun |-> 0, ended |-> 0, asked |-> <<>>, collected |-> <<>>,
               pubkeys |-> <<>>, outcome |-> NoReceipt, n |-> 0,
               size |-> 0, read |-> <<>>, receipt |-> NoReceipt]]
  /\ desk = EmptyDesk

-----------------------------------------------------------------------------
(* The registry.                                                            *)

Add ==
  /\ adds < scenario.maxAdds
  /\ \E w \in scenario.joining : registry' = AddWitness(registry, w)
  /\ adds' = adds + 1
  /\ UNCHANGED <<scenario, signed, pc, job, desk>>

-----------------------------------------------------------------------------
(* attest                                                                   *)

Goto(t, label) == pc' = [pc EXCEPT ![t] = label]

\* The check of the quorum counts; ValueError if they are malformed.
Begin(t) ==
  /\ t \in DOMAIN job /\ pc[t] = "idle"
  /\ job' = [job EXCEPT ![t].begun = adds, ![t].n = Len(registry)]
  /\ Goto(t, IF ValidQuorumCounts(Threshold, Len(registry)) THEN "asking" ELSE "raised")
  /\ UNCHANGED <<scenario, registry, adds, signed, desk>>

\* registry.all(): the witnesses this call will ask.
Snapshot(t) ==
  /\ pc[t] = "asking"
  /\ job' = [job EXCEPT ![t].asked = registry]
  /\ Goto(t, "signing")
  /\ UNCHANGED <<scenario, registry, adds, signed, desk>>

MoreToAsk(t) == pc[t] = "signing" /\ Len(job[t].collected) < Len(job[t].asked)

NextWitness(t) == job[t].asked[Len(job[t].collected) + 1]

\* Defect: the per-organ override is lost and every witness allows.
VoteOf_Default(t, organ) == "allow"

VoteOf(t, organ) == IF organ \in job[t].blocking THEN "block" ELSE "allow"

\* A witness without a private key abstains.
AbstainStep(t) ==
  /\ MoreToAsk(t)
  /\ NextWitness(t).priv = NoPem
  /\ job' = [job EXCEPT ![t].collected = Append(@, Abstain)]
  /\ UNCHANGED <<scenario, registry, adds, signed, pc, desk>>

SignStep(t) ==
  LET w   == NextWitness(t)
      row == SignVerdict(w.organ, job[t].action, VoteOf(t, w.organ), w.priv)
  IN  /\ MoreToAsk(t)
      /\ w.priv \in Pems
      /\ job' = [job EXCEPT ![t].collected = Append(@, row)]
      /\ signed' = signed \cup {[pem |-> w.priv, body |-> row.payload]}
      /\ UNCHANGED <<scenario, registry, adds, pc, desk>>

\* A private key that does not load raises out of attest; the rows collected so far are lost.
SignRaises(t) ==
  /\ MoreToAsk(t)
  /\ NextWitness(t).priv = BadPem
  /\ Goto(t, "raised")
  /\ UNCHANGED <<scenario, registry, adds, signed, job, desk>>

AllAsked(t) == pc[t] = "signing" /\ Len(job[t].collected) = Len(job[t].asked)

\* pubkeys() and public() iterate the live dict, a witness at a time.  The iterator fixes
\* the size at its start and raises RuntimeError when an organ was added since; an organ whose
\* witness is replaced is read with its old or with its new one.
Reading(t) == AllAsked(t) \/ pc[t] = "publishing"

\* Defect: a replaced witness upsets the iterator as well.
Grown_AnyAdd(t) == job[t].read # <<>> /\ adds # job[t].begun

Grown(t) == job[t].read # <<>> /\ Len(registry) # job[t].size
AllRead(t) == Len(job[t].read) = Len(registry) /\ ~Grown(t)

ReadWitness(t) ==
  /\ Reading(t) /\ ~Grown(t) /\ ~AllRead(t)
  /\ job' = [job EXCEPT ![t].size = IF job[t].read = <<>> THEN Len(registry) ELSE @,
                        ![t].read = Append(@, PublicOf(registry)[Len(@) + 1])]
  /\ UNCHANGED <<scenario, registry, adds, signed, pc, desk>>

ReadRaises(t) ==
  /\ Reading(t) /\ Grown(t)
  /\ Goto(t, "raised")
  /\ UNCHANGED <<scenario, registry, adds, signed, job, desk>>

\* registry.pubkeys(), an argument of tally, is evaluated before registry.n.
ReadPubkeys(t) ==
  /\ AllAsked(t) /\ AllRead(t)
  /\ job' = [job EXCEPT ![t].pubkeys = PubkeysOf(job[t].read), ![t].read = <<>>]
  /\ Goto(t, "tallying")
  /\ UNCHANGED <<scenario, registry, adds, signed, desk>>

\* registry.n, and tally of the collected rows.
TallyStep(t) ==
  /\ pc[t] = "tallying"
  /\ job' = [job EXCEPT ![t].outcome =
               TallyOutcome(job[t].action, job[t].collected, job[t].pubkeys,
                            Threshold, Len(registry))]
  /\ Goto(t, "assembling")
  /\ UNCHANGED <<scenario, registry, adds, signed, desk>>

\* Defect: the n of the receipt is the one that was checked when the call began.
N_Checked(t) == job[t].n
N(t) == Len(registry)

\* The n of the receipt is a later read of the registry.
ReadN(t) ==
  /\ pc[t] = "assembling"
  /\ job' = [job EXCEPT ![t].n = N(t)]
  /\ Goto(t, "publishing")
  /\ UNCHANGED <<scenario, registry, adds, signed, desk>>

\* registry.public() is read, and the receipt is returned.
Issue(t) ==
  /\ pc[t] = "publishing" /\ AllRead(t)
  /\ job' = [job EXCEPT
               ![t].ended = adds, ![t].read = <<>>,
               ![t].receipt = [schema     |-> RECEIPT_SCHEMA,
                               action     |-> job[t].action,
                               threshold  |-> Threshold,
                               n          |-> job[t].n,
                               decision   |-> job[t].outcome.decision,
                               count      |-> job[t].outcome.count,
                               signatures |-> job[t].collected,
                               witnesses  |-> job[t].read]]
  /\ Goto(t, "done")
  /\ UNCHANGED <<scenario, registry, adds, signed, desk>>

Attest(t) ==
  \/ Snapshot(t)
  \/ AbstainStep(t)
  \/ SignStep(t)
  \/ SignRaises(t)
  \/ ReadWitness(t)
  \/ ReadRaises(t)
  \/ ReadPubkeys(t)
  \/ TallyStep(t)
  \/ ReadN(t)
  \/ Issue(t)

-----------------------------------------------------------------------------
(* A receipt in other hands.                                                *)

Issued == {job[t].receipt : t \in {u \in Callers : pc[u] = "done"}}

\* Rows anyone can come by: those of the receipts returned so far, and whatever the holders
\* of faulty keys sign.
RowsAround ==
  {Abstain}
  \cup (UNION {ToSet(r.signatures) : r \in Issued})
  \cup {SignVerdict(o, a, "allow", p) : o \in Organs, a \in Actions, p \in FaultyPems}

RowEdits(r) ==
  IF r.signatures = Junk THEN {} ELSE
  {[r EXCEPT !.signatures = RemoveAt(@, i)] : i \in DOMAIN r.signatures}
  \cup {[r EXCEPT !.signatures[i] = row] : i \in DOMAIN r.signatures, row \in RowsAround}
  \cup {[r EXCEPT !.signatures = Append(@, row)] : row \in RowsAround}

ClaimEdits(r) ==
  {[r EXCEPT !.threshold = k] : k \in {1, Threshold}}
  \cup {[r EXCEPT !.decision = d] : d \in {"canonical", "rejected"}}
  \cup {[r EXCEPT !.action = a] : a \in Actions}
  \cup {[r EXCEPT !.witnesses = PublicOf(registry), !.n = Len(registry)]}
  \cup {[r EXCEPT !.schema = "other"], [r EXCEPT !.signatures = Junk],
        [r EXCEPT !.witnesses = Junk]}

\* A receipt leaves for a verifier.
Send ==
  /\ desk = EmptyDesk
  /\ \E t \in Callers :
       /\ pc[t] = "done"
       /\ desk' = [phase |-> "travelling", from |-> t, receipt |-> job[t].receipt, edits |-> 0]
  /\ UNCHANGED <<scenario, registry, adds, signed, pc, job>>

Edit ==
  /\ desk.phase = "travelling"
  /\ desk.edits < scenario.maxEdits
  /\ \E r \in RowEdits(desk.receipt) \cup ClaimEdits(desk.receipt) :
       /\ r # desk.receipt
       /\ desk' = [desk EXCEPT !.receipt = r, !.edits = @ + 1]
  /\ UNCHANGED <<scenario, registry, adds, signed, pc, job>>

\* verify_receipt, with the registry or with explicitly trusted keys.
Judge ==
  /\ desk.phase = "travelling"
  /\ \E keys \in {PubkeysOf(registry)} \cup scenario.policies :
       desk' = [phase   |-> "judged",
                from    |-> desk.from,
                receipt |-> desk.receipt,
                edits   |-> desk.edits,
                trusted |-> keys,
                at      |-> adds,
                result  |-> VerifyReceipt(desk.receipt, keys, Threshold)]
  /\ UNCHANGED <<scenario, registry, adds, signed, pc, job>>

File ==
  /\ desk.phase = "judged"
  /\ desk' = EmptyDesk
  /\ UNCHANGED <<scenario, registry, adds, signed, pc, job>>

Terminating ==
  /\ \A t \in DOMAIN job : pc[t] \in {"done", "raised"}
  /\ desk = EmptyDesk
  /\ UNCHANGED vars

Next ==
  \/ Add
  \/ \E t \in Callers : Begin(t) \/ Attest(t)
  \/ Send \/ Edit \/ Judge \/ File
  \/ Terminating

Spec == Init /\ [][Next]_vars

-----------------------------------------------------------------------------
Labels == {"idle", "asking", "signing", "tallying", "assembling", "publishing",
           "done", "raised"}

TypeOK ==
  /\ registry \in Registries
  /\ adds \in 0..scenario.maxAdds
  /\ signed \subseteq [pem : Pems, body : Statements]
  /\ pc \in [Callers -> Labels]
  /\ \A t \in DOMAIN job :
       /\ job[t].collected \in Seq(Items)
       /\ Len(job[t].collected) <= Len(job[t].asked)
       /\ job[t].asked \in Registries
       /\ pc[t] = "done" => job[t].receipt \in Receipts
  /\ desk.phase \in {"empty", "travelling", "judged"}
  /\ desk.phase # "empty" => desk.receipt \in Receipts

\* The organs of a key map whose key is in honest hands.
HonestOrgans(keys) == {o \in DOMAIN keys : keys[o] \notin FaultyPems}

\* Byzantine safety, end to end: when verify_receipt calls a receipt canonical, then however
\* the receipt was edited on its way, all but |faulty| of `threshold` trusted witnesses had
\* been asked by attest about exactly this action and had signed "allow" with the very key
\* the verifier trusts (verify_receipt: claims are compared, never used).
CanonicalIsBacked ==
  desk.phase = "judged" /\ desk.result.decision = "canonical" =>
    LET honest  == HonestOrgans(desk.trusted)
        backing == {o \in honest : [pem  |-> desk.trusted[o],
                                    body |-> SignedAllow(o, desk.receipt.action)] \in signed}
    IN  Cardinality(backing) + Cardinality(DOMAIN desk.trusted \ honest) >= Threshold

\* Round trip: a receipt nobody edited, judged by the registry it was made from and that has
\* not changed since its call began, is confirmed with the same decision and count; the one
\* exception is a registry with a nameless witness or an empty key, which attest works with
\* and verify_receipt refuses (_resolve_trust_policy).
IntactReceiptConfirmed ==
  desk.phase = "judged" /\ desk.edits = 0 /\ desk.at = job[desk.from].begun
    /\ desk.trusted = PubkeysOf(job[desk.from].asked) =>
    IF NoOrgan \in DOMAIN desk.trusted \/ \E o \in DOMAIN desk.trusted : desk.trusted[o] = NoPem
    THEN desk.result.decision = "refused"
    ELSE desk.result.matches /\ desk.result.count = desk.receipt.count

\* A receipt never claims more counting witnesses than witnesses, although the check of n,
\* the witnesses asked, the keys and the receipt's n are separate reads of a registry that
\* add may change in between (attest relies on reading n last, of a registry that only grows).
CountWithinN ==
  \A t \in Callers : pc[t] = "done" => job[t].receipt.count <= job[t].receipt.n

\* Fault tolerance of attest: in a quiet registry the decision is canonical exactly when at
\* least `threshold` witnesses hold the private half of their published key and were not told
\* to block; up to n - threshold of them may abstain, block or sign with a wrong key.
Willing(t) ==
  {i \in DOMAIN job[t].asked :
     LET w == job[t].asked[i]
     IN  w.organ \in Organs \ job[t].blocking /\ w.priv \in Pems /\ w.priv = w.pem}

QuorumSuffices ==
  \A t \in Callers :
    pc[t] = "done" /\ job[t].begun = job[t].ended =>
      (job[t].receipt.decision = "canonical" <=> Cardinality(Willing(t)) >= Threshold)

\* attest raises for a cause only: quorum counts that are malformed, a private key that does
\* not load, or an organ that joined during the call; a rotated or otherwise replaced
\* witness, at whatever step, never makes it raise.
RaisesOnlyForCause ==
  \A t \in Callers : pc[t] = "raised" =>
    \/ ~ValidQuorumCounts(Threshold, job[t].n)
    \/ \E i \in DOMAIN job[t].asked : job[t].asked[i].priv = BadPem
    \/ Len(registry) > job[t].n
=============================================================================
