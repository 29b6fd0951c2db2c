---------------------------- MODULE ServiceProofs ----------------------------
(***************************************************************************)
(* Proofs about WitnessService, for any number of clients, every deployment *)
(* and any history of edits of the policy file and of restarts.             *)
(***************************************************************************)
EXTENDS WitnessService, ReceiptsProofs

-----------------------------------------------------------------------------
(* The registry that a policy file makes.  AddedInTurn is recursive, so the *)
(* proof is by induction, in the form of a least counterexample.            *)

\* WitnessRegistry.__init__ makes a registry of any list of witnesses.
LEMMA AddedInTurnIsRegistry ==
  ASSUME NEW ws \in Seq(Witnesses)
  PROVE  AddedInTurn(ws) \in Registries
<1> DEFINE n == Len(ws)
           Adds(g, k) == \A i \in 0..k : g[i] = IF i = 0 THEN <<>> ELSE AddWitness(g[i-1], ws[i])
           Defined(k) == \E g \in [0..k -> Registries] : Adds(g, k)
           after == CHOOSE g : g = [i \in 0..n |-> IF i = 0 THEN <<>>
                                                   ELSE AddWitness(g[i-1], ws[i])]
<1>1. n \in Nat /\ \A i \in 1..n : ws[i] \in Witnesses
  BY LenProperties, ElementOfSeq
<1>2. AddedInTurn(ws) = after[n]
  BY DEF AddedInTurn
<1>3. <<>> \in Registries
  <2>1. <<>> \in Seq(Witnesses) /\ DOMAIN <<>> = {}
    OBVIOUS
  <2> QED
    BY <2>1 DEF Registries
<1> HIDE DEF n
<1>4. Defined(0)
  <2> DEFINE g == [i \in 0..0 |-> <<>>]
  <2>1. g \in [0..0 -> Registries] /\ Adds(g, 0)
    BY <1>3
  <2> QED
    BY <2>1
<1>5. ASSUME NEW k \in Nat, k < n, Defined(k)
      PROVE  Defined(k+1)
  <2>1. PICK g \in [0..k -> Registries] : Adds(g, k)
    BY <1>5
  <2>2. AddWitness(g[k], ws[k+1]) \in Registries
    BY <1>1, <1>5, AddKeepsRegistry
  <2> DEFINE h == [i \in 0..(k+1) |-> IF i = k+1 THEN AddWitness(g[k], ws[k+1]) ELSE g[i]]
  <2>3. h \in [0..(k+1) -> Registries]
    BY <2>2
  <2>4. \A i \in 0..k : h[i] = g[i]
    BY <1>5
  <2>5. h[k+1] = AddWitness(g[k], ws[k+1])
    BY <1>5
  <2> HIDE DEF h
  <2>6. Adds(h, k+1)
    <3> SUFFICES ASSUME NEW i \in 0..(k+1)
                 PROVE  h[i] = IF i = 0 THEN <<>> ELSE AddWitness(h[i-1], ws[i])
      OBVIOUS
    <3>1. CASE i \in 0..k
      BY <2>1, <2>4, <3>1
    <3>2. CASE i = k+1
      BY <2>4, <2>5, <3>2
    <3> QED
      BY <3>1, <3>2
  <2> QED
    BY <2>3, <2>6
<1> HIDE DEF Defined
<1>6. \A k \in 0..n : Defined(k)
  <2> DEFINE T == {k \in 0..n : ~Defined(k)}
  <2> SUFFICES ASSUME T # {} PROVE FALSE
    OBVIOUS
  <2>1. T \subseteq Nat
    BY <1>1
  <2>2. PICK k \in T : \A y \in T : k <= y
    BY <2>1, LeastElement
  <2>3. k \in 0..n /\ ~Defined(k) /\ k # 0 /\ k \in Nat /\ n \in Nat
    BY <1>1, <1>4
  <2>4. k - 1 \in 0..n /\ k - 1 \in Nat /\ k - 1 < n /\ ~ (k <= k - 1)
    BY <2>3
  <2>5. Defined(k - 1)
    BY <2>2, <2>4
  <2>6. Defined((k - 1) + 1)
    BY <1>5, <2>4, <2>5
  <2> QED
    BY <2>3, <2>6
<1>7. Defined(n)
  BY <1>1, <1>6
<1>8. PICK g \in [0..n -> Registries] : Adds(g, n)
  BY <1>7, Zenon DEF Defined
<1>9. g = [i \in 0..n |-> IF i = 0 THEN <<>> ELSE AddWitness(g[i-1], ws[i])]
  BY <1>8
<1>10. after = [i \in 0..n |-> IF i = 0 THEN <<>> ELSE AddWitness(after[i-1], ws[i])]
  BY <1>9
<1> HIDE DEF after
<1>11. \A i \in 0..n : after[i] \in Registries
  <2> DEFINE T == {k \in 0..n : after[k] \notin Registries}
  <2> SUFFICES ASSUME T # {} PROVE FALSE
    OBVIOUS
  <2>1. T \subseteq Nat
    BY <1>1
  <2>2. PICK k \in T : \A y \in T : k <= y
    BY <2>1, LeastElement
  <2>3. k \in 0..n /\ after[k] \notin Registries /\ k \in Nat /\ n \in Nat
    BY <1>1
  <2>4. k # 0
    BY <1>3, <1>10, <2>3
  <2>5. k \in 1..n /\ k - 1 \in 0..n /\ ~ (k <= k - 1)
    BY <2>3, <2>4
  <2>6. after[k-1] \in Registries
    BY <2>2, <2>5
  <2>7. after[k] = AddWitness(after[k-1], ws[k])
    BY <1>10, <2>3, <2>4
  <2> QED
    BY <1>1, <2>3, <2>5, <2>6, <2>7, AddKeepsRegistry
<1> QED
  BY <1>1, <1>2, <1>11

-----------------------------------------------------------------------------
(* The inductive invariant: what the service knows of a policy, and what    *)
(* the history variables say about the receipts and answers they go with.   *)

IsPolicy(p) ==
  /\ p = [kind |-> "policy", registry |-> p.registry, threshold |-> p.threshold]
  /\ p.registry \in Registries

\* attest does not raise under this policy.
CanAttest(p) ==
  /\ ValidQuorumCounts(p.threshold, Len(p.registry))
  /\ \A i \in DOMAIN p.registry : p.registry[i].priv # BadPem

\* attest made the receipt under this policy.
IssuedBy(r, p) ==
  /\ IsPolicy(p) /\ CanAttest(p)
  /\ \E action \in Actions, blocking \in SUBSET Organs : r = AttestReceipt(p, action, blocking)

Running ==
  /\ deployment \in Deployments
  /\ file \in deployment.files \cup {Unset}
  /\ policy = NoPolicy \/ IsPolicy(policy)
  /\ probe # "none" => probe = HealthMode(policy)

Holds(c) == held[c] # Nothing => IssuedBy(held[c].receipt, held[c].by)

\* A request, with what it says of the receipt that its client holds.
Asks(c, request) ==
  \/ /\ request.op = "attest"
     /\ request.action \in Actions
     /\ request.blocking \in SUBSET Organs
  \/ /\ request.op = "verify"
     /\ held[c] # Nothing
     /\ request.receipt \in {held[c].receipt, BadText}
  \/ request.op = "witnesses"

Broken == [phase |-> "broken"]

Calls(c) ==
  \/ call[c] = Idle
  \/ call[c] = Broken
  \/ /\ call[c].phase = "sent"
     /\ call[c] = [phase |-> "sent", request |-> call[c].request]
     /\ Asks(c, call[c].request)
  \/ /\ call[c].phase = "answered"
     /\ call[c] = [phase |-> "answered", request |-> call[c].request, by |-> call[c].by,
                   health |-> call[c].health, answer |-> AnswerTo(call[c].by, call[c].request)]
     /\ Asks(c, call[c].request)
     /\ call[c].by = NoPolicy \/ IsPolicy(call[c].by)
     /\ call[c].health # "none" => call[c].health = HealthMode(call[c].by)

Judges(p) == ~ PolicyRefused(PubkeysOf(p.registry), p.threshold)

Seen(c) ==
  \/ seen[c] = Nothing
  \/ /\ seen[c].kind = "verdict" /\ held[c] # Nothing /\ held[c].receipt # BadText
     /\ seen[c] = [kind |-> "verdict", by |-> seen[c].by,
                   result |-> Judged(held[c].receipt, seen[c].by)]
     /\ IsPolicy(seen[c].by) /\ Judges(seen[c].by)
  \/ /\ seen[c].kind = "listing"
     /\ seen[c] = [kind |-> "listing", by |-> seen[c].by,
                   listing |-> ListAnswer(seen[c].by).listing]
     /\ IsPolicy(seen[c].by)

Exited(c) ==
  exit[c] # Nothing =>
    /\ exit[c].file \in deployment.files \cup {Unset}
    /\ exit[c].code = CliExit(exit[c].file, held[c].receipt)

Arrays ==
  /\ call = [c \in Clients |-> call[c]] /\ held = [c \in Clients |-> held[c]]
  /\ seen = [c \in Clients |-> seen[c]] /\ exit = [c \in Clients |-> exit[c]]

IInv ==
  /\ Running
  /\ Arrays
  /\ \A c \in Clients : Holds(c) /\ Calls(c) /\ Seen(c) /\ Exited(c)

-----------------------------------------------------------------------------
(* What attest makes, and what verify says of it under another policy.      *)

\* The phases of a call are told apart by one field.
LEMMA Phases == Idle.phase = "idle" /\ Broken.phase = "broken" /\ Nothing.kind = "nothing"
BY DEF Idle, Broken, Nothing

\* A policy is not the absence of one.
LEMMA PolicyIsOne ==
  ASSUME NEW p, IsPolicy(p)
  PROVE  p # NoPolicy
<1>1. p.kind = "policy"
  BY DEF IsPolicy
<1>2. NoPolicy.kind = "no policy"
  BY DEF NoPolicy
<1> QED
  BY <1>1, <1>2

\* from_dict makes a policy of a file with a list of witnesses.
LEMMA LoadedIsPolicy ==
  ASSUME NEW f, f.witnesses \in Seq(Witnesses)
  PROVE  IsPolicy(FromFile(f))
<1>1. AddedInTurn(f.witnesses) \in Registries
  BY AddedInTurnIsRegistry
<1> QED
  BY <1>1 DEF FromFile, IsPolicy

\* Each row of a receipt is what its witness answered.
LEMMA RowsIssued ==
  ASSUME NEW p, IsPolicy(p), CanAttest(p), NEW action \in Actions, NEW blocking
  PROVE  LET r == AttestReceipt(p, action, blocking)
         IN  /\ r.signatures \in Seq(Items) /\ Len(r.signatures) = Len(p.registry)
             /\ \A i \in DOMAIN p.registry :
                  \/ p.registry[i].priv = NoPem /\ r.signatures[i] = Abstain
                  \/ /\ p.registry[i].priv # NoPem /\ r.signatures[i] # Abstain
                     /\ \E a \in Actions, vote \in {"allow", "block"}, pem \in Pems :
                          r.signatures[i] = SignVerdict(p.registry[i].organ, a, vote, pem)
<1> DEFINE reg == p.registry
           rows == AttestReceipt(p, action, blocking).signatures
           Row(w) == IF w.priv = NoPem THEN Abstain
                     ELSE SignVerdict(w.organ, action,
                                      IF w.organ \in blocking THEN "block" ELSE "allow", w.priv)
<1>1. rows = [i \in DOMAIN reg |-> Row(reg[i])]
  BY DEF AttestReceipt
<1>2. reg \in Seq(Witnesses) /\ DOMAIN reg = 1..Len(reg) /\ Len(reg) \in Nat
  BY LenProperties DEF IsPolicy, Registries
<1>3. \A i \in DOMAIN reg : reg[i] \in Witnesses /\ reg[i].priv # BadPem
  BY <1>2, ElementOfSeq DEF CanAttest
<1> HIDE DEF rows, reg
<1>4. ASSUME NEW i \in DOMAIN reg
      PROVE  /\ rows[i] \in Items
             /\ \/ reg[i].priv = NoPem /\ rows[i] = Abstain
                \/ /\ reg[i].priv # NoPem /\ rows[i] # Abstain
                   /\ \E a \in Actions, vote \in {"allow", "block"}, pem \in Pems :
                        rows[i] = SignVerdict(reg[i].organ, a, vote, pem)
  <2> DEFINE w == reg[i]
             vote == IF w.organ \in blocking THEN "block" ELSE "allow"
  <2>1. rows[i] = Row(w)
    BY <1>1
  <2>2. w.organ \in OrganNames /\ w.priv \in Pems \cup {NoPem}
    BY <1>3 DEF Witnesses, AnyPem
  <2>3. vote \in {"allow", "block"}
    OBVIOUS
  <2>4. CASE w.priv = NoPem
    BY <2>1, <2>4 DEF Items
  <2>5. CASE w.priv # NoPem
    <3>1. rows[i] = SignVerdict(w.organ, action, vote, w.priv) /\ w.priv \in Pems
      BY <2>1, <2>2, <2>5
    <3> HIDE DEF vote, w
    <3>2. rows[i] \in Rows
      BY <2>2, <2>3, <3>1, SignVerdictTyped
    <3> QED
      BY <2>3, <2>5, <3>1, <3>2, BytesAssumption DEF Items, w
  <2> QED
    BY <2>4, <2>5
<1>5. rows \in Seq(Items) /\ Len(rows) = Len(reg)
  <2>1. rows \in [1..Len(reg) -> Items]
    BY <1>1, <1>2, <1>4
  <2>2. rows \in Seq(Items)
    BY <1>2, <2>1, SeqDef
  <2> QED
    BY <1>2, <2>1, <2>2, LenProperties
<1> QED
  BY <1>4, <1>5 DEF rows, reg

\* A receipt claims the keys and the threshold it was issued under.
LEMMA IssuedClaims ==
  ASSUME NEW p, NEW r, IssuedBy(r, p)
  PROVE  r.witnesses = PublicOf(p.registry) /\ r.threshold = p.threshold
<1>1. PICK action \in Actions, blocking \in SUBSET Organs : r = AttestReceipt(p, action, blocking)
  BY DEF IssuedBy
<1> QED
  BY <1>1 DEF AttestReceipt

\* verify confirms a receipt exactly under the trust policy that attest had.
LEMMA IssuedConfirmed ==
  ASSUME NEW p, NEW q, NEW r, IssuedBy(r, p), IsPolicy(q), Judges(q)
  PROVE  /\ Judged(r, q).matches <=> TrustOf(q) = TrustOf(p)
         /\ Judged(r, q).decision = "canonical" =>
              Judged(r, q).matches /\ r.decision = "canonical"
         /\ Judged(r, q).decision # "refused"
<1> DEFINE reg == p.registry
           trusted == PubkeysOf(q.registry)
           sound == /\ r.schema = RECEIPT_SCHEMA
                    /\ TrustPolicyMatches(r, trusted, q.threshold)
                    /\ ValidSignatureEntries(r.signatures, trusted)
           rows == IF ValidSignatureEntries(r.signatures, trusted) THEN r.signatures ELSE <<>>
           outcome == TallyOutcome(r.action, rows, trusted, q.threshold,
                                   Cardinality(DOMAIN trusted))
           verdict == IF sound THEN outcome.decision ELSE "rejected"
<1>1. PICK action \in Actions, blocking \in SUBSET Organs : r = AttestReceipt(p, action, blocking)
  BY DEF IssuedBy
<1>2. /\ r.schema = RECEIPT_SCHEMA /\ r.action = action /\ r.threshold = p.threshold
      /\ r.n = Len(reg) /\ r.witnesses = PublicOf(reg)
      /\ r.decision = TallyOutcome(action, r.signatures, PubkeysOf(reg), p.threshold,
                                   Len(reg)).decision
  BY <1>1 DEF AttestReceipt
<1>3. IsPolicy(p) /\ CanAttest(p) /\ reg \in Registries /\ reg \in Seq(Witnesses)
  BY DEF IssuedBy, IsPolicy, Registries
<1>4. Judged(r, q) = [decision |-> verdict, count |-> outcome.count,
                      matches |-> sound /\ verdict = r.decision]
  BY DEF Judged, VerifyReceipt, Judges
<1>5. outcome.decision \in {"canonical", "rejected"}
  BY DEF TallyOutcome
<1>6. sound => TrustOf(q) = TrustOf(p)
  <2>1. PubkeysOf(PublicOf(reg)) = PubkeysOf(reg)
    BY <1>3, PublishedKeys
  <2> QED
    BY <1>2, <2>1 DEF TrustPolicyMatches, TrustOf
<1>7. ASSUME TrustOf(q) = TrustOf(p)
      PROVE  sound /\ r.decision = outcome.decision
  <2>1. trusted = PubkeysOf(reg) /\ q.threshold = p.threshold
    BY <1>7 DEF TrustOf
  <2>2. DOMAIN trusted = OrgansOf(reg) /\ Cardinality(DOMAIN trusted) = Len(reg)
    BY <1>3, <2>1, OrgansCount DEF PubkeysOf, Registries
  <2>3. \A o \in DOMAIN trusted : o # NoOrgan /\ trusted[o] # NoPem
    BY DEF Judges, PolicyRefused
  <2> HIDE DEF trusted, reg
  <2>4. EmbeddedWellFormed(r.witnesses) /\ PubkeysOf(r.witnesses) = trusted
    BY <1>2, <1>3, <2>1, <2>3, PublishedKeys DEF EmbeddedWellFormed, Registries
  <2>5. ValidSignatureEntries(r.signatures, trusted)
    <3>1. /\ r.signatures \in Seq(Items) /\ Len(r.signatures) = Len(reg)
          /\ \A i \in DOMAIN reg :
               \/ r.signatures[i] = Abstain
               \/ \E a \in Actions, vote \in {"allow", "block"}, pem \in Pems :
                    r.signatures[i] = SignVerdict(reg[i].organ, a, vote, pem)
      BY <1>1, <1>3, RowsIssued DEF reg
    <3>2. NoOrgan \notin OrgansOf(reg)
      BY <2>2, <2>3
    <3> QED
      BY <1>3, <2>1, <3>1, <3>2, AnswersAreEntries
  <2>6. sound
    BY <1>2, <2>1, <2>2, <2>4, <2>5 DEF TrustPolicyMatches
  <2> QED
    BY <1>2, <2>1, <2>2, <2>5, <2>6
<1>8. /\ Judged(r, q).matches = (sound /\ verdict = r.decision)
      /\ Judged(r, q).decision = verdict
  BY <1>4
<1> HIDE DEF sound, outcome
<1>9. verdict = "canonical" => sound /\ verdict = r.decision
  BY <1>5, <1>6, <1>7
<1>10. sound /\ verdict = r.decision <=> TrustOf(q) = TrustOf(p)
  BY <1>6, <1>7
<1>11. verdict # "refused"
  BY <1>5
<1> HIDE DEF verdict
<1> QED
  BY <1>8, <1>9, <1>10, <1>11

\* The health answer foretells what attest brings.
LEMMA HealthOfReceipts ==
  ASSUME NEW p, IsPolicy(p), CanAttest(p), NEW action \in Actions, NEW blocking
  PROVE  LET r == AttestReceipt(p, action, blocking)
         IN  /\ HealthMode(p) = "signed" <=> \E i \in DOMAIN r.signatures : r.signatures[i] # Abstain
             /\ HealthMode(p) = "unsigned" => r.decision = "rejected"
<1> DEFINE r == AttestReceipt(p, action, blocking)
           rows == r.signatures
           A == AllowingWitnesses(action, rows, PubkeysOf(p.registry))
<1>1. p # NoPolicy
  BY PolicyIsOne
<1>2. DOMAIN rows = DOMAIN p.registry
  BY DEF AttestReceipt
<1>3. \A i \in DOMAIN p.registry : p.registry[i].priv # NoPem <=> rows[i] # Abstain
  BY RowsIssued
<1>4. r.decision = TallyOutcome(action, rows, PubkeysOf(p.registry), p.threshold,
                               Len(p.registry)).decision
  BY DEF AttestReceipt
<1> HIDE DEF r
<1>5. HealthMode(p) = "signed" <=> \E i \in DOMAIN rows : rows[i] # Abstain
  BY <1>1, <1>2, <1>3 DEF HealthMode
<1>6. ASSUME HealthMode(p) = "unsigned"
      PROVE  r.decision = "rejected"
  <2>1. \A i \in DOMAIN rows : rows[i] = Abstain
    BY <1>5, <1>6
  <2>2. A = {}
    BY <2>1 DEF AllowingWitnesses, Supports
  <2>3. Cardinality(A) = 0
    BY <2>2, FS_EmptySet
  <2>4. ValidQuorumCounts(p.threshold, Len(p.registry))
    BY DEF CanAttest
  <2> QED
    BY <1>4, <2>3, <2>4 DEF TallyOutcome, ValidQuorumCounts
<1> QED
  BY <1>5, <1>6 DEF r

-----------------------------------------------------------------------------
(* The answers of the service.                                              *)

Requests == {"attest", "verify", "witnesses"}

\* Without a policy every endpoint answers 503.
LEMMA NoServiceAnswers ==
  ASSUME NEW request, request.op \in Requests
  PROVE  AnswerTo(NoPolicy, request) = Status(503)
BY DEF Requests, AnswerTo, AttestAnswer, VerifyAnswer, ListAnswer

\* What POST /v1/attest answers under a policy.
LEMMA AttestAnswers ==
  ASSUME NEW p, IsPolicy(p), NEW request, request.op = "attest"
  PROVE  AnswerTo(p, request) =
           IF CanAttest(p)
           THEN [status |-> 200, receipt |-> AttestReceipt(p, request.action, request.blocking)]
           ELSE Status(500)
BY PolicyIsOne DEF AnswerTo, AttestAnswer, CanAttest

\* What POST /v1/verify answers under a policy.
LEMMA VerifyAnswers ==
  ASSUME NEW p, IsPolicy(p), NEW request, request.op = "verify"
  PROVE  AnswerTo(p, request) =
           IF request.keys # <<>> /\ request.keys # PubkeysOf(p.registry) THEN Status(400)
           ELSE IF ~ Judges(p) THEN Status(500)
           ELSE IF request.receipt = BadText THEN Status(400)
           ELSE [status |-> 200, result |-> Judged(request.receipt, p)]
BY PolicyIsOne DEF AnswerTo, VerifyAnswer, Judges

\* What GET /v1/witnesses answers under a policy,
LEMMA ListAnswers ==
  ASSUME NEW p, IsPolicy(p), NEW request, request.op = "witnesses"
  PROVE  AnswerTo(p, request) = ListAnswer(p)
BY DEF AnswerTo

\* and what its answer lists.
LEMMA ListFields ==
  ASSUME NEW p, IsPolicy(p)
  PROVE  /\ ListAnswer(p).status = 200
         /\ ListAnswer(p).listing.threshold = p.threshold
         /\ ListAnswer(p).listing.witnesses = PublicOf(p.registry)
BY PolicyIsOne DEF ListAnswer

\* Only a service without a policy answers 503.
LEMMA Unavailable ==
  ASSUME NEW p, p = NoPolicy \/ IsPolicy(p), NEW request, request.op \in Requests
  PROVE  AnswerTo(p, request).status = 503 <=> p = NoPolicy
<1>1. CASE p = NoPolicy
  <2>1. AnswerTo(p, request).status = 503
    BY <1>1, NoServiceAnswers DEF Status
  <2> QED
    BY <1>1, <2>1
<1>2. CASE IsPolicy(p)
  <2>1. CASE request.op = "attest"
    BY <1>2, <2>1, AttestAnswers, PolicyIsOne DEF Status
  <2>2. CASE request.op = "verify"
    BY <1>2, <2>2, VerifyAnswers, PolicyIsOne DEF Status
  <2>3. CASE request.op = "witnesses"
    <3>1. AnswerTo(p, request).status = 200
      BY <1>2, <2>3, ListAnswers, ListFields
    <3> QED
      BY <1>2, <3>1, PolicyIsOne
  <2> QED
    BY <2>1, <2>2, <2>3 DEF Requests
<1> QED
  BY <1>1, <1>2

-----------------------------------------------------------------------------
(* The steps.                                                               *)

\* The service is down and no client has anything.
LEMMA InitHolds ==
  ASSUME Init
  PROVE  IInv
BY DEF Init, IInv, Running, Arrays, Holds, Calls, Seen, Exited

Holdings(c) == Holds(c) /\ Calls(c) /\ Seen(c) /\ Exited(c)

\* A step of others.
LEMMA Unmoved ==
  ASSUME NEW d \in Clients, Holdings(d),
         call'[d] = call[d], held'[d] = held[d], seen'[d] = seen[d], exit'[d] = exit[d],
         deployment' = deployment
  PROVE  Holdings(d)'
BY DEF Holdings, Holds, Calls, Asks, Seen, Exited

\* A step of client c, in which the service and the file do not change.
LEMMA ClientStep ==
  ASSUME IInv, NEW c \in Clients, Arrays', Holdings(c)',
         \A d \in Clients \ {c} :
           call'[d] = call[d] /\ held'[d] = held[d] /\ seen'[d] = seen[d] /\ exit'[d] = exit[d],
         UNCHANGED <<deployment, file, policy, probe>>
  PROVE  IInv'
<1>1. Running'
  BY DEF IInv, Running
<1>2. ASSUME NEW d \in Clients
      PROVE  Holdings(d)'
  <2>1. CASE d = c
    BY <2>1
  <2>2. CASE d # c
    BY <2>2, Unmoved DEF IInv, Holdings
  <2> QED
    BY <2>1, <2>2
<1> QED
  BY <1>1, <1>2 DEF IInv, Holdings

\* The operator edits the policy file.
LEMMA EditHolds ==
  ASSUME IInv, EditFile
  PROVE  IInv'
<1>1. Running'
  BY DEF IInv, Running, EditFile
<1>2. Arrays'
  BY DEF IInv, Arrays, EditFile
<1>3. \A d \in Clients : Holdings(d)'
  BY Unmoved DEF IInv, Holdings, EditFile
<1> QED
  BY <1>1, <1>2, <1>3 DEF IInv, Holdings

\* The service starts and loads the policy file.
LEMMA StartHolds ==
  ASSUME IInv, Start
  PROVE  IInv'
<1>1. Running'
  <2>1. CASE file = Unset
    BY <2>1 DEF IInv, Running, Start, LoadRegistry
  <2>2. CASE file # Unset
    <3>1. file \in deployment.files \ {Junk} /\ deployment \in Deployments
      BY <2>2 DEF IInv, Running, Start
    <3>2. file.witnesses \in Seq(Witnesses)
      BY <3>1, ServiceAssumption
    <3>3. IsPolicy(policy')
      BY <2>2, <3>2, LoadedIsPolicy DEF Start, LoadRegistry
    <3> QED
      BY <3>3 DEF IInv, Running, Start
  <2> QED
    BY <2>1, <2>2
<1>2. Arrays'
  BY DEF IInv, Arrays, Start
<1>3. \A d \in Clients : Holdings(d)'
  BY Unmoved DEF IInv, Holdings, Start
<1> QED
  BY <1>1, <1>2, <1>3 DEF IInv, Holdings

\* The service stops, and what it has not answered breaks.
LEMMA StopHolds ==
  ASSUME IInv, Stop
  PROVE  IInv'
<1>1. Running'
  BY DEF IInv, Running, Stop
<1>2. Arrays'
  BY DEF IInv, Arrays, Stop
<1>3. ASSUME NEW d \in Clients
      PROVE  Holdings(d)'
  <2>1. CASE call[d].phase = "sent"
    <3>1. call'[d] = Broken
      BY <2>1 DEF Stop, Broken
    <3> QED
      BY <3>1 DEF IInv, Holdings, Holds, Calls, Seen, Exited, Stop
  <2>2. CASE call[d].phase # "sent"
    <3>1. call'[d] = call[d]
      BY <2>2 DEF Stop
    <3> QED
      BY <3>1, Unmoved DEF IInv, Holdings, Stop
  <2> QED
    BY <2>1, <2>2
<1> QED
  BY <1>1, <1>2, <1>3 DEF IInv, Holdings

\* A health probe.
LEMMA HealthHolds ==
  ASSUME IInv, Health
  PROVE  IInv'
<1>1. Running'
  BY DEF IInv, Running, Health
<1>2. Arrays'
  BY DEF IInv, Arrays, Health
<1>3. \A d \in Clients : Holdings(d)'
  BY Unmoved DEF IInv, Holdings, Health
<1> QED
  BY <1>1, <1>2, <1>3 DEF IInv, Holdings

\* A client sends a request.
LEMMA PostHolds ==
  ASSUME IInv, NEW c \in Clients, NEW request, Asks(c, request), Post(c, request)
  PROVE  IInv'
<1>1. Arrays'
  BY DEF IInv, Arrays, Post
<1>2. \/ call'[c] = [phase |-> "sent", request |-> request]
      \/ call'[c] = Broken
  BY DEF IInv, Arrays, Post, Broken
<1>3. Asks(c, request)'
  BY DEF Asks, Post
<1>4. Calls(c)'
  BY <1>2, <1>3 DEF Calls, Asks
<1>5. Holdings(c)'
  BY <1>4 DEF IInv, Holdings, Holds, Seen, Exited, Post
<1> QED
  BY <1>1, <1>5, ClientStep DEF IInv, Arrays, Post

\* The service answers.
LEMMA HandleHolds ==
  ASSUME IInv, NEW c \in Clients, Handle(c)
  PROVE  IInv'
<1>1. Arrays'
  BY DEF IInv, Arrays, Handle
<1>2. Asks(c, call[c].request)
  BY Phases DEF IInv, Calls, Handle
<1>3. /\ call'[c] = [phase |-> "answered", request |-> call[c].request, by |-> policy,
                     health |-> probe, answer |-> AnswerTo(policy, call[c].request)]
      /\ UNCHANGED <<deployment, file, up, policy, probe, held, seen, exit>>
  BY DEF IInv, Arrays, Handle
<1>4. Calls(c)'
  <2>1. Asks(c, call[c].request)'
    BY <1>2, <1>3 DEF Asks
  <2> QED
    BY <1>3, <2>1 DEF IInv, Running, Calls
<1>5. Holdings(c)'
  BY <1>3, <1>4 DEF IInv, Holdings, Holds, Seen, Exited
<1> QED
  BY <1>1, <1>5, ClientStep DEF IInv, Arrays, Handle

\* A client's transport raises.
LEMMA GiveUpHolds ==
  ASSUME IInv, NEW c \in Clients, GiveUp(c)
  PROVE  IInv'
<1>1. Arrays'
  BY DEF IInv, Arrays, GiveUp
<1>2. call'[c] = Idle
  BY DEF IInv, Arrays, GiveUp
<1>3. Holdings(c)'
  BY <1>2 DEF IInv, Holdings, Holds, Calls, Seen, Exited, GiveUp
<1> QED
  BY <1>1, <1>3, ClientStep DEF IInv, Arrays, GiveUp

\* A client runs the command-line verifier.
LEMMA RunCliHolds ==
  ASSUME IInv, NEW c \in Clients, RunCli(c)
  PROVE  IInv'
<1>1. Arrays'
  BY DEF IInv, Arrays, RunCli
<1>2. exit'[c] = [kind |-> "exit", file |-> file, code |-> CliExit(file, held[c].receipt)]
  BY DEF IInv, Arrays, RunCli
<1>3. Holdings(c)'
  <2>1. Exited(c)'
    BY <1>2 DEF IInv, Running, Exited, RunCli
  <2> QED
    BY <2>1 DEF IInv, Holdings, Holds, Calls, Asks, Seen, RunCli
<1> QED
  BY <1>1, <1>3, ClientStep DEF IInv, Arrays, RunCli

\* A client receives an answer, and what it keeps of it goes with the policy behind it.
LEMMA ReceiveHolds ==
  ASSUME IInv, NEW c \in Clients, Receive(c)
  PROVE  IInv'
<1> DEFINE request == call[c].request
           by == call[c].by
           answer == call[c].answer
<1>1. /\ answer = AnswerTo(by, request) /\ Asks(c, request)
      /\ by = NoPolicy \/ IsPolicy(by)
  <2>1. call[c].phase = "answered"
    BY DEF Receive
  <2>2. /\ call[c] = [phase |-> "answered", request |-> request, by |-> by,
                      health |-> call[c].health, answer |-> AnswerTo(by, request)]
        /\ Asks(c, request)
        /\ by = NoPolicy \/ IsPolicy(by)
    <3>1. call[c] # Idle /\ call[c] # Broken /\ call[c].phase # "sent"
      BY <2>1, Phases
    <3> QED
      BY <3>1 DEF IInv, Calls
  <2> QED
    BY <2>2
<1>2. Arrays'
  BY DEF IInv, Arrays, Receive
<1>3. call'[c] = Idle
  BY DEF IInv, Arrays, Receive
<1>4. Calls(c)'
  BY <1>3 DEF Calls
<1>5. \A d \in Clients \ {c} :
        call'[d] = call[d] /\ held'[d] = held[d] /\ seen'[d] = seen[d] /\ exit'[d] = exit[d]
  <2> TAKE d \in Clients \ {c}
  <2>1. call'[d] = call[d]
    BY DEF IInv, Arrays, Receive
  <2>2. CASE answer.status # 200
    BY <2>1, <2>2 DEF Receive
  <2>3. CASE answer.status = 200 /\ request.op = "attest"
    <3>1. /\ held' = [held EXCEPT ![c] = [kind |-> "held", receipt |-> answer.receipt,
                                          by |-> by]]
          /\ seen' = [seen EXCEPT ![c] = Nothing]
          /\ exit' = [exit EXCEPT ![c] = Nothing]
      BY <2>3 DEF Receive
    <3> QED
      BY <2>1, <3>1 DEF IInv, Arrays
  <2>4. CASE answer.status = 200 /\ request.op # "attest"
    BY <2>1, <2>4 DEF IInv, Arrays, Receive
  <2> QED
    BY <2>2, <2>3, <2>4
<1>6. CASE answer.status # 200
  <2>1. Holdings(c)'
    BY <1>4, <1>6 DEF IInv, Holdings, Holds, Seen, Exited, Receive
  <2> QED
    BY <1>2, <1>5, <2>1, ClientStep DEF Receive
<1>7. ASSUME answer.status = 200
      PROVE  IsPolicy(by)
  <2>1. request.op \in Requests
    BY <1>1 DEF Asks, Requests
  <2> QED
    BY <1>1, <1>7, <2>1, Unavailable, NoServiceAnswers DEF Status
<1>8. CASE answer.status = 200 /\ request.op = "attest"
  <2>1. /\ held'[c] = [kind |-> "held", receipt |-> answer.receipt, by |-> by]
        /\ seen'[c] = Nothing /\ exit'[c] = Nothing
    BY <1>8 DEF IInv, Arrays, Receive
  <2>2. CanAttest(by) /\ answer.receipt = AttestReceipt(by, request.action, request.blocking)
    BY <1>1, <1>7, <1>8, AttestAnswers DEF Status
  <2>3. request.action \in Actions /\ request.blocking \in SUBSET Organs
    BY <1>1, <1>8 DEF Asks
  <2>4. IssuedBy(answer.receipt, by)
    BY <1>7, <1>8, <2>2, <2>3 DEF IssuedBy
  <2>5. Holds(c)'
    BY <2>1, <2>4 DEF Holds
  <2>6. Holdings(c)'
    BY <1>4, <2>1, <2>5 DEF Holdings, Seen, Exited
  <2> QED
    BY <1>2, <1>5, <2>6, ClientStep DEF Receive
<1>9. CASE answer.status = 200 /\ request.op = "verify"
  <2>1. /\ seen'[c] = [kind |-> "verdict", by |-> by, result |-> answer.result]
        /\ UNCHANGED <<deployment, held, exit>>
    BY <1>9 DEF IInv, Arrays, Receive
  <2>2. Judges(by) /\ request.receipt # BadText /\ answer.result = Judged(request.receipt, by)
    BY <1>1, <1>7, <1>9, VerifyAnswers DEF Status
  <2>3. held[c] # Nothing /\ request.receipt = held[c].receipt
    BY <1>1, <1>9, <2>2 DEF Asks
  <2>4. Seen(c)'
    BY <1>7, <1>9, <2>1, <2>2, <2>3 DEF Seen
  <2>5. Holdings(c)'
    BY <1>4, <2>1, <2>4 DEF IInv, Holdings, Holds, Exited
  <2> QED
    BY <1>2, <1>5, <2>5, ClientStep DEF Receive
<1>10. CASE answer.status = 200 /\ request.op = "witnesses"
  <2>1. /\ seen'[c] = [kind |-> "listing", by |-> by, listing |-> answer.listing]
        /\ UNCHANGED <<deployment, held, exit>>
    BY <1>10 DEF IInv, Arrays, Receive
  <2>2. answer.listing = ListAnswer(by).listing
    <3>1. answer = ListAnswer(by)
      BY <1>1, <1>7, <1>10, ListAnswers
    <3> QED
      BY <3>1
  <2>3. Seen(c)'
    BY <1>7, <1>10, <2>1, <2>2 DEF Seen
  <2>4. Holdings(c)'
    BY <1>4, <2>1, <2>3 DEF IInv, Holdings, Holds, Exited
  <2> QED
    BY <1>2, <1>5, <2>4, ClientStep DEF Receive
<1> QED
  BY <1>1, <1>6, <1>8, <1>9, <1>10 DEF Asks

\* Every step keeps the inductive invariant.
LEMMA StepHolds ==
  ASSUME IInv, Next
  PROVE  IInv'
<1>1. CASE EditFile \/ Start \/ Stop \/ Health
  BY <1>1, EditHolds, StartHolds, StopHolds, HealthHolds
<1>2. ASSUME NEW c \in Clients, Attest(c)
      PROVE  IInv'
  <2>1. PICK action \in Actions, blocking \in deployment.votes :
          Post(c, [op |-> "attest", action |-> action, blocking |-> blocking])
    BY <1>2 DEF Attest
  <2>2. blocking \in SUBSET Organs
    BY ServiceAssumption DEF IInv, Running
  <2>3. Asks(c, [op |-> "attest", action |-> action, blocking |-> blocking])
    BY <2>2 DEF Asks
  <2> QED
    BY <2>1, <2>3, PostHolds
<1>3. ASSUME NEW c \in Clients, Verify(c)
      PROVE  IInv'
  <2>1. PICK r \in {held[c].receipt, BadText}, keys \in deployment.keys :
          Post(c, [op |-> "verify", receipt |-> r, keys |-> keys])
    BY <1>3 DEF Verify
  <2>2. Asks(c, [op |-> "verify", receipt |-> r, keys |-> keys])
    BY <1>3 DEF Asks, Verify
  <2> QED
    BY <2>1, <2>2, PostHolds
<1>4. ASSUME NEW c \in Clients, WitnessList(c)
      PROVE  IInv'
  BY <1>4, PostHolds DEF WitnessList, Asks
<1> QED
  BY <1>1, <1>2, <1>3, <1>4, HandleHolds, ReceiveHolds, GiveUpHolds, RunCliHolds DEF Next

\* The invariant holds throughout.
LEMMA Inductive == Spec => []IInv
<1>1. Init => IInv
  BY InitHolds
<1>2. IInv /\ UNCHANGED vars => IInv'
  BY DEF vars, IInv, Running, Arrays, Holds, Calls, Asks, Seen, Exited
<1>3. IInv /\ [Next]_vars => IInv'
  BY <1>2, StepHolds
<1> QED
  BY <1>1, <1>3, PTL DEF Spec
-----------------------------------------------------------------------------
(* The invariants that the run checks.                                      *)

\* What is known of a verdict.
LEMMA Verdicts ==
  ASSUME IInv, NEW c \in Clients, seen[c].kind = "verdict"
  PROVE  /\ seen[c].result = Judged(held[c].receipt, seen[c].by)
         /\ IsPolicy(seen[c].by) /\ Judges(seen[c].by)
         /\ held[c] # Nothing /\ held[c].receipt # BadText
         /\ IssuedBy(held[c].receipt, held[c].by)
<1>1. seen[c] # Nothing /\ seen[c].kind # "listing"
  BY Phases
<1>2. /\ seen[c] = [kind |-> "verdict", by |-> seen[c].by,
                    result |-> Judged(held[c].receipt, seen[c].by)]
      /\ IsPolicy(seen[c].by) /\ Judges(seen[c].by)
      /\ held[c] # Nothing /\ held[c].receipt # BadText
  BY <1>1 DEF IInv, Seen
<1>3. IssuedBy(held[c].receipt, held[c].by)
  BY <1>2 DEF IInv, Holds
<1>4. seen[c].result = Judged(held[c].receipt, seen[c].by)
  BY <1>2
<1> QED
  BY <1>2, <1>3, <1>4

\* Whatever restarts and edits of the policy file lie between attest and verify, the service
\* confirms a receipt it issued exactly when it trusts the same keys and threshold.
THEOREM ConfirmsByTrust == Spec => []ConfirmedIffSameTrust
<1>1. IInv => ConfirmedIffSameTrust
  <2> SUFFICES ASSUME IInv, NEW c \in Clients, seen[c].kind = "verdict"
               PROVE  /\ seen[c].result.matches <=> TrustOf(seen[c].by) = TrustOf(held[c].by)
                      /\ seen[c].result.decision = "canonical" =>
                           seen[c].result.matches /\ held[c].receipt.decision = "canonical"
    BY DEF ConfirmedIffSameTrust
  <2>1. /\ seen[c].result = Judged(held[c].receipt, seen[c].by)
        /\ IsPolicy(seen[c].by) /\ Judges(seen[c].by)
        /\ IssuedBy(held[c].receipt, held[c].by)
    BY Verdicts
  <2> QED
    BY <2>1, IssuedConfirmed
<1> QED
  BY <1>1, Inductive, PTL

\* The CLI and the service say the same of a receipt under the same trust policy, but for
\* files that name an organ twice.
THEOREM CliAgrees == Spec => []CliAgreesWithService
<1>1. IInv => CliAgreesWithService
  <2> SUFFICES ASSUME IInv, NEW c \in Clients, seen[c].kind = "verdict", exit[c] # Nothing,
                      exit[c].file \notin {Unset, Junk},
                      TrustOf(FromFile(exit[c].file)) = TrustOf(seen[c].by)
               PROVE  exit[c].code = IF DuplicateOrgans(exit[c].file.witnesses) THEN 2
                                     ELSE IF seen[c].result.decision = "canonical" THEN 0 ELSE 1
    BY DEF CliAgreesWithService
  <2> DEFINE f == exit[c].file
             r == held[c].receipt
             by == seen[c].by
  <2>1. seen[c].result = Judged(r, by) /\ Judges(by) /\ r # BadText
        /\ IsPolicy(by) /\ IssuedBy(r, held[c].by)
    BY Verdicts
  <2>2. exit[c].code = CliExit(f, r)
    BY DEF IInv, Exited
  <2>3. PubkeysOf(FromFile(f).registry) = PubkeysOf(by.registry)
        /\ FromFile(f).threshold = by.threshold
    BY DEF TrustOf
  <2>4. Judged(r, FromFile(f)) = seen[c].result
    BY <2>1, <2>3 DEF Judged
  <2>5. f.threshold \in Int
    <3>1. by.threshold \in Int
      BY <2>1 DEF Judges, PolicyRefused
    <3>2. FromFile(f).threshold = f.threshold
      BY DEF FromFile
    <3> QED
      BY <2>3, <3>1, <3>2
  <2>6. seen[c].result.decision # "refused"
    BY <2>1, IssuedConfirmed
  <2> QED
    BY <2>1, <2>2, <2>4, <2>5, <2>6 DEF CliExit
<1> QED
  BY <1>1, Inductive, PTL

\* What is known of an answer on its way.
LEMMA Underway ==
  ASSUME IInv, NEW c \in Clients, call[c].phase = "answered"
  PROVE  /\ call[c].answer = AnswerTo(call[c].by, call[c].request)
         /\ Asks(c, call[c].request) /\ call[c].request.op \in Requests
         /\ call[c].by = NoPolicy \/ IsPolicy(call[c].by)
         /\ call[c].health # "none" => call[c].health = HealthMode(call[c].by)
<1>1. call[c] # Idle /\ call[c] # Broken /\ call[c].phase # "sent"
  BY Phases
<1>2. /\ call[c] = [phase |-> "answered", request |-> call[c].request, by |-> call[c].by,
                    health |-> call[c].health, answer |-> AnswerTo(call[c].by, call[c].request)]
      /\ Asks(c, call[c].request)
      /\ call[c].by = NoPolicy \/ IsPolicy(call[c].by)
      /\ call[c].health # "none" => call[c].health = HealthMode(call[c].by)
  BY <1>1 DEF IInv, Calls
<1>3. call[c].answer = AnswerTo(call[c].by, call[c].request)
  BY <1>2
<1>4. call[c].request.op \in Requests
  BY <1>2 DEF Asks, Requests
<1> QED
  BY <1>2, <1>3, <1>4

\* A client finds the keys and the threshold that the service listed in its receipt exactly
\* when a later verify confirms the receipt, unless the policy has changed in between; then
\* the listing and the verdict never both speak for the receipt.
THEOREM ListingForetells == Spec => []ListingForetellsVerify
<1>1. IInv => ListingForetellsVerify
  <2> DEFINE claimed(x) == [keys |-> PubkeysOf(x.witnesses), threshold |-> x.threshold]
  <2> SUFFICES ASSUME IInv, NEW c \in Clients, seen[c].kind = "listing",
                      call[c].phase = "answered", call[c].request.op = "verify",
                      call[c].answer.status = 200
               PROVE  LET agrees  == claimed(seen[c].listing) = claimed(call[c].request.receipt)
                          matches == call[c].answer.result.matches
                      IN  IF TrustOf(call[c].by) = TrustOf(seen[c].by) THEN matches <=> agrees
                          ELSE ~(matches /\ agrees)
    BY DEF ListingForetellsVerify
  <2> DEFINE by == call[c].by
             r == call[c].request.receipt
             p == held[c].by
  <2>1. seen[c].listing = ListAnswer(seen[c].by).listing /\ IsPolicy(seen[c].by)
    <3>1. seen[c] # Nothing /\ seen[c].kind # "verdict"
      BY Phases
    <3>2. seen[c] = [kind |-> "listing", by |-> seen[c].by, listing |-> ListAnswer(seen[c].by).listing]
          /\ IsPolicy(seen[c].by)
      BY <3>1 DEF IInv, Seen
    <3> QED
      BY <3>2
  <2>2. /\ IsPolicy(by) /\ Judges(by) /\ r # BadText
        /\ call[c].answer = [status |-> 200, result |-> Judged(r, by)]
    <3>1. call[c].answer = AnswerTo(by, call[c].request) /\ (by = NoPolicy \/ IsPolicy(by))
      BY Underway
    <3>2. by # NoPolicy
      BY <3>1 DEF AnswerTo, VerifyAnswer, Status
    <3>3. IsPolicy(by)
      BY <3>1, <3>2
    <3>4. \/ Judges(by) /\ r # BadText
             /\ AnswerTo(by, call[c].request) = [status |-> 200, result |-> Judged(r, by)]
          \/ AnswerTo(by, call[c].request) \in {Status(400), Status(500)}
      BY <3>3, VerifyAnswers
    <3> QED
      BY <3>1, <3>3, <3>4 DEF Status
  <2>3. IssuedBy(r, p)
    <3>1. held[c] # Nothing /\ r \in {held[c].receipt, BadText}
      BY Underway DEF Asks
    <3> QED
      BY <2>2, <3>1 DEF IInv, Holds
  <2>4. claimed(seen[c].listing) = TrustOf(seen[c].by)
    <3>1. seen[c].by.registry \in Registries
      BY <2>1 DEF IsPolicy
    <3> QED
      BY <2>1, <3>1, ListFields, PublishedKeys DEF TrustOf
  <2>5. claimed(r) = TrustOf(p)
    <3>1. r.witnesses = PublicOf(p.registry) /\ r.threshold = p.threshold
      BY <2>3, IssuedClaims
    <3>2. p.registry \in Registries
      BY <2>3 DEF IssuedBy, IsPolicy
    <3> QED
      BY <3>1, <3>2, PublishedKeys DEF TrustOf
  <2>6. call[c].answer.result.matches <=> TrustOf(by) = TrustOf(p)
    <3>1. Judged(r, by).matches <=> TrustOf(by) = TrustOf(p)
      BY <2>2, <2>3, IssuedConfirmed
    <3> QED
      BY <2>2, <3>1
  <2> QED
    BY <2>4, <2>5, <2>6
<1> QED
  BY <1>1, Inductive, PTL

\* The two transports on the same registry.
LEMMA SameAnswers ==
  ASSUME NEW p, IsPolicy(p), NEW request, request.op \in Requests
  PROVE  Returned(request, AnswerTo(p, request)) = InProcess(p, request)
<1> DEFINE answer == AnswerTo(p, request)
<1>1. CASE request.op = "attest"
  <2>1. CanAttest(p) <=> ~ (\/ ~ValidQuorumCounts(p.threshold, Len(p.registry))
                            \/ BadPem \in {p.registry[i].priv : i \in DOMAIN p.registry})
    BY DEF CanAttest
  <2>2. InProcess(p, request) =
          IF CanAttest(p) THEN AttestReceipt(p, request.action, request.blocking) ELSE Raised
    BY <1>1, <2>1 DEF InProcess
  <2>3. answer = IF CanAttest(p)
                 THEN [status |-> 200,
                       receipt |-> AttestReceipt(p, request.action, request.blocking)]
                 ELSE Status(500)
    BY <1>1, AttestAnswers
  <2> HIDE DEF answer
  <2>4. Returned(request, answer) = IF answer.status # 200 THEN Raised ELSE answer.receipt
    BY <1>1 DEF Returned
  <2>5. Returned(request, answer) = InProcess(p, request)
    BY <2>2, <2>3, <2>4 DEF Status
  <2> QED
    BY <2>5 DEF answer
<1>2. CASE request.op = "verify"
  <2> DEFINE accepted == /\ request.keys \in {<<>>, PubkeysOf(p.registry)}
                         /\ Judges(p)
                         /\ request.receipt # BadText
  <2>1. InProcess(p, request) = IF accepted THEN Judged(request.receipt, p) ELSE Raised
    BY <1>2 DEF InProcess, Judges
  <2>2. IF accepted THEN answer = [status |-> 200, result |-> Judged(request.receipt, p)]
        ELSE answer = Status(400) \/ answer = Status(500)
    BY <1>2, VerifyAnswers
  <2> HIDE DEF answer, accepted
  <2>3. Returned(request, answer) = IF answer.status # 200 THEN Raised ELSE answer.result
    BY <1>2 DEF Returned
  <2>4. Returned(request, answer) = InProcess(p, request)
    BY <2>1, <2>2, <2>3 DEF Status
  <2> QED
    BY <2>4 DEF answer
<1>3. CASE request.op = "witnesses"
  <2>1. InProcess(p, request) = PublicOf(p.registry)
    BY <1>3 DEF InProcess
  <2>2. answer.status = 200 /\ answer.listing.witnesses = PublicOf(p.registry)
    BY <1>3, ListAnswers, ListFields
  <2> HIDE DEF answer
  <2>3. Returned(request, answer)
          = IF answer.status # 200 THEN Raised ELSE answer.listing.witnesses
    BY <1>3 DEF Returned
  <2>4. Returned(request, answer) = InProcess(p, request)
    BY <2>1, <2>2, <2>3
  <2> QED
    BY <2>4 DEF answer
<1> QED
  BY <1>1, <1>2, <1>3 DEF Requests

\* Over HTTP an SDK call returns and raises what it does in process.
THEOREM SameTransports == Spec => []TransportsAgree
<1>1. IInv => TransportsAgree
  BY Underway, SameAnswers DEF TransportsAgree
<1> QED
  BY <1>1, Inductive, PTL

\* What healthz said since the service started holds for the calls it answers.
THEOREM HealthIsTrue == Spec => []HealthTellsTruth
<1>1. IInv => HealthTellsTruth
  <2> SUFFICES ASSUME IInv, NEW c \in Clients, call[c].phase = "answered", call[c].health # "none"
               PROVE  LET answer == call[c].answer
                      IN  /\ (call[c].health = "unavailable") <=> (answer.status = 503)
                          /\ answer.status = 200 /\ call[c].request.op = "attest" =>
                               /\ (call[c].health = "signed")
                                    <=> (\E i \in DOMAIN answer.receipt.signatures :
                                           answer.receipt.signatures[i] # Abstain)
                               /\ call[c].health = "unsigned" => answer.receipt.decision = "rejected"
    BY DEF HealthTellsTruth
  <2> DEFINE request == call[c].request
             p == call[c].by
             answer == call[c].answer
             health == call[c].health
  <2>1. /\ answer = AnswerTo(p, request) /\ request.op \in Requests
        /\ Asks(c, request)
        /\ p = NoPolicy \/ IsPolicy(p)
        /\ health = HealthMode(p)
    BY Underway
  <2>2. health = "unavailable" <=> p = NoPolicy
    BY <2>1 DEF HealthMode
  <2>3. answer.status = 503 <=> p = NoPolicy
    BY <2>1, Unavailable
  <2>4. ASSUME answer.status = 200, request.op = "attest"
        PROVE  /\ (health = "signed") <=> (\E i \in DOMAIN answer.receipt.signatures :
                                             answer.receipt.signatures[i] # Abstain)
               /\ health = "unsigned" => answer.receipt.decision = "rejected"
    <3>1. IsPolicy(p)
      BY <2>1, <2>3, <2>4
    <3>2. request.action \in Actions
      BY <2>1, <2>4 DEF Asks
    <3>3. CanAttest(p) /\ answer.receipt = AttestReceipt(p, request.action, request.blocking)
      BY <2>1, <2>4, <3>1, AttestAnswers DEF Status
    <3> QED
      BY <2>1, <3>1, <3>2, <3>3, HealthOfReceipts
  <2> QED
    BY <2>2, <2>3, <2>4
<1> QED
  BY <1>1, Inductive, PTL
=============================================================================
