--------------------------- MODULE WitnessService ---------------------------
(***************************************************************************)
(* The witness API (service/app.py) between its restarts, the SDK client    *)
(* that calls it over HTTP (sdk.py), and the command-line verifier (cli.py) *)
(* that reads the operator's trust policy by itself.                        *)
(*                                                                         *)
(* The service reads the policy file once, when it starts; the operator may *)
(* edit the file at any time.  Nothing in the service changes its registry, *)
(* so the steps of concurrent requests commute and a request is handled in  *)
(* one step (Attestation.tla splits attest for registries that do change).  *)
(***************************************************************************)
EXTENDS Receipts

CONSTANTS
  Clients,
  Unset,       \* KHIPU_WITNESSES is not set
  BadText,     \* a receipt with text that is not valid UTF-8
  Deployments  \* what an operator and the clients may do: [files, votes, keys]

\* A deployment has the contents the operator gives the file, [witnesses, threshold] or
\* Junk; the sets of organs a client may tell to block; and the pubkeys it may send with a
\* receipt, <<>> for none.
ASSUME ServiceAssumption ==
  \A d \in Deployments :
    /\ \A f \in d.files \ {Junk} : f.witnesses \in Seq(Witnesses)
    /\ Unset \notin d.files
    /\ d.keys \subseteq PubkeyMaps
    /\ d.votes \subseteq SUBSET Organs

VARIABLES
  deployment,
  file,    \* the policy file as it stands, Junk if it does not load, or Unset
  up,      \* the service process runs
  policy,  \* its REGISTRY
  probe,   \* history: the health answer last given since the service started
  call,    \* the HTTP call each client has under way
  held,    \* the receipt each client holds, with the policy it was issued by
  seen,    \* the verdict or the witnesses the service last gave it, with the policy behind
  exit     \* what the CLI last said of it, with the file it read

vars == <<deployment, file, up, policy, probe, call, held, seen, exit>>

Nothing == [kind |-> "nothing"]
NoPolicy == [kind |-> "no policy"]
Idle == [phase |-> "idle"]

-----------------------------------------------------------------------------
(* Policies and answers.                                                    *)

\* WitnessRegistry.__init__ adds the witnesses one by one.
AddedInTurn(ws) ==
  LET after[i \in 0 .. Len(ws)] == IF i = 0 THEN <<>> ELSE AddWitness(after[i - 1], ws[i])
  IN  after[Len(ws)]

\* WitnessRegistry.from_dict
FromFile(f) ==
  [kind |-> "policy", registry |-> AddedInTurn(f.witnesses), threshold |-> f.threshold]

\* load_registry
LoadRegistry(f) == IF f = Unset THEN NoPolicy ELSE FromFile(f)

TrustOf(p) == [keys |-> PubkeysOf(p.registry), threshold |-> p.threshold]

Judged(r, p) == VerifyReceipt(r, PubkeysOf(p.registry), p.threshold)

Status(code) == [status |-> code]

\* attest, undisturbed.
AttestReceipt(p, action, blocking) ==
  LET reg == p.registry
      RowBy(w) == IF w.priv = NoPem THEN Abstain
                  ELSE SignVerdict(w.organ, action,
                                   IF w.organ \in blocking THEN "block" ELSE "allow", w.priv)
      rows    == [i \in DOMAIN reg |-> RowBy(reg[i])]
      outcome == TallyOutcome(action, rows, PubkeysOf(reg), p.threshold, Len(reg))
  IN  [schema |-> RECEIPT_SCHEMA, action |-> action, threshold |-> p.threshold,
       n |-> Len(reg), decision |-> outcome.decision, count |-> outcome.count,
       signatures |-> rows, witnesses |-> PublicOf(reg)]

\* v1_attest; an exception of attest becomes a 500.
AttestAnswer(p, request) ==
  IF p = NoPolicy THEN Status(503)
  ELSE IF ~ValidQuorumCounts(p.threshold, Len(p.registry))
          \/ \E i \in DOMAIN p.registry : p.registry[i].priv = BadPem
       THEN Status(500)
  ELSE [status |-> 200, receipt |-> AttestReceipt(p, request.action, request.blocking)]

\* Defect: the keys a client sends are not compared with the operator's.
VerifyAnswer_AnyKeys(p, request) ==
  IF p = NoPolicy THEN Status(503)
  ELSE IF PolicyRefused(PubkeysOf(p.registry), p.threshold) THEN Status(500)
  ELSE IF request.receipt = BadText THEN Status(400)
  ELSE [status |-> 200, result |-> Judged(request.receipt, p)]

\* v1_verify; the policy is looked at before the receipt's text is hashed.
VerifyAnswer(p, request) ==
  IF p = NoPolicy THEN Status(503)
  ELSE IF request.keys # <<>> /\ request.keys # PubkeysOf(p.registry) THEN Status(400)
  ELSE IF PolicyRefused(PubkeysOf(p.registry), p.threshold) THEN Status(500)
  ELSE IF request.receipt = BadText THEN Status(400)
  ELSE [status |-> 200, result |-> Judged(request.receipt, p)]

\* v1_witnesses
ListAnswer(p) ==
  IF p = NoPolicy THEN Status(503)
  ELSE [status |-> 200, listing |-> [threshold |-> p.threshold, n |-> Len(p.registry),
                                     witnesses |-> PublicOf(p.registry)]]

\* Defect: a witness with a published key is taken for one that can sign.
HealthMode_AnyKey(p) ==
  IF p = NoPolicy THEN "unavailable"
  ELSE IF \E i \in DOMAIN p.registry : p.registry[i].pem # NoPem THEN "signed"
  ELSE "unsigned"

\* v1_healthz
HealthMode(p) ==
  IF p = NoPolicy THEN "unavailable"
  ELSE IF \E i \in DOMAIN p.registry : p.registry[i].priv # NoPem THEN "signed"
  ELSE "unsigned"

AnswerTo(p, request) ==
  CASE request.op = "attest" -> AttestAnswer(p, request)
    [] request.op = "verify" -> VerifyAnswer(p, request)
    [] request.op = "witnesses" -> ListAnswer(p)

\* The in-process transport on the registry of p: what the SDK call returns, or Raised.
Raised == [kind |-> "raised"]
InProcess(p, request) ==
  CASE request.op = "attest" ->
         IF ~ValidQuorumCounts(p.threshold, Len(p.registry))
            \/ BadPem \in {p.registry[i].priv : i \in DOMAIN p.registry}
         THEN Raised ELSE AttestReceipt(p, request.action, request.blocking)
    [] request.op = "verify" ->
         IF \/ request.keys \notin {<<>>, PubkeysOf(p.registry)}
            \/ PolicyRefused(PubkeysOf(p.registry), p.threshold)
            \/ request.receipt = BadText
         THEN Raised ELSE Judged(request.receipt, p)
    [] request.op = "witnesses" -> PublicOf(p.registry)

\* The remote transport: raise_for_status, then the body or its witnesses.
Returned(request, answer) ==
  IF answer.status # 200 THEN Raised
  ELSE CASE request.op = "attest" -> answer.receipt
         [] request.op = "verify" -> answer.result
         [] request.op = "witnesses" -> answer.listing.witnesses

DuplicateOrgans(ws) == \E i, j \in DOMAIN ws : i # j /\ ws[i].organ = ws[j].organ

\* Defect: repeated organs in the policy file are not noticed.
CliExit_Duplicates(f, r) ==
  IF f \in {Unset, Junk} \/ r = BadText THEN 2
  ELSE IF f.threshold \notin Int \/ Judged(r, FromFile(f)).decision = "refused" THEN 2
  ELSE IF Judged(r, FromFile(f)).decision = "canonical" THEN 0 ELSE 1

\* main of the CLI, with the policy file named on its command line.
CliExit(f, r) ==
  IF f \in {Unset, Junk} \/ r = BadText THEN 2
  ELSE IF f.threshold \notin Int \/ DuplicateOrgans(f.witnesses) THEN 2
  ELSE IF Judged(r, FromFile(f)).decision = "refused" THEN 2
  ELSE IF Judged(r, FromFile(f)).decision = "canonical" THEN 0 ELSE 1

-----------------------------------------------------------------------------
Init ==
  /\ deployment \in Deployments
  /\ file \in deployment.files \cup {Unset}
  /\ up = FALSE
  /\ policy = NoPolicy
  /\ probe = "none"
  /\ call = [c \in Clients |-> Idle]
  /\ held = [c \in Clients |-> Nothing]
  /\ seen = [c \in Clients |-> Nothing]
  /\ exit = [c \in Clients |-> Nothing]

EditFile ==
  /\ file' \in (deployment.files \cup {Unset}) \ {file}
  /\ UNCHANGED <<deployment, up, policy, probe, call, held, seen, exit>>

\* A file that does not load keeps the module from being imported.
Start ==
  /\ ~up
  /\ file # Junk
  /\ up' = TRUE
  /\ policy' = LoadRegistry(file)
  /\ probe' = "none"
  /\ UNCHANGED <<deployment, file, call, held, seen, exit>>

\* The process ends; the connections it has not answered on break.
Stop ==
  /\ up
  /\ up' = FALSE
  /\ policy' = NoPolicy
  /\ probe' = "none"
  /\ call' = [c \in Clients |-> IF call[c].phase = "sent" THEN [phase |-> "broken"] ELSE call[c]]
  /\ UNCHANGED <<deployment, file, held, seen, exit>>

\* A probe of /v1/healthz.
Health ==
  /\ up
  /\ probe' = HealthMode(policy)
  /\ UNCHANGED <<deployment, file, up, policy, call, held, seen, exit>>

-----------------------------------------------------------------------------
(* The SDK's remote transport.                                              *)

Post(c, request) ==
  /\ call[c] = Idle
  /\ call' = [call EXCEPT ![c] = IF up THEN [phase |-> "sent", request |-> request]
                                 ELSE [phase |-> "broken"]]
  /\ UNCHANGED <<deployment, file, up, policy, probe, held, seen, exit>>

Attest(c) ==
  \E action \in Actions, blocking \in deployment.votes :
    Post(c, [op |-> "attest", action |-> action, blocking |-> blocking])

Verify(c) ==
  /\ held[c] # Nothing
  /\ \E r \in {held[c].receipt, BadText}, keys \in deployment.keys :
       Post(c, [op |-> "verify", receipt |-> r, keys |-> keys])

WitnessList(c) == Post(c, [op |-> "witnesses"])

Handle(c) ==
  /\ up
  /\ call[c].phase = "sent"
  /\ call' = [call EXCEPT ![c] =
                [phase |-> "answered", request |-> call[c].request, by |-> policy,
                 health |-> probe, answer |-> AnswerTo(policy, call[c].request)]]
  /\ UNCHANGED <<deployment, file, up, policy, probe, held, seen, exit>>

\* The answer arrives; raise_for_status turns any error status into an exception.
Receive(c) ==
  LET request == call[c].request
      answer  == call[c].answer
  IN  /\ call[c].phase = "answered"
      /\ call' = [call EXCEPT ![c] = Idle]
      /\ IF answer.status # 200 THEN UNCHANGED <<deployment, held, seen, exit>>
         ELSE IF request.op = "attest"
         THEN /\ held' = [held EXCEPT ![c] = [kind |-> "held", receipt |-> answer.receipt,
                                              by |-> call[c].by]]
              /\ seen' = [seen EXCEPT ![c] = Nothing]
              /\ exit' = [exit EXCEPT ![c] = Nothing]
         ELSE /\ seen' = [seen EXCEPT ![c] =
                  IF request.op = "verify"
                  THEN [kind |-> "verdict", by |-> call[c].by, result |-> answer.result]
                  ELSE [kind |-> "listing", by |-> call[c].by, listing |-> answer.listing]]
              /\ UNCHANGED <<deployment, held, exit>>
      /\ UNCHANGED <<deployment, file, up, policy, probe>>

\* Defect: no timeout is passed to the transport.
GiveUp_NoTimeout(c) ==
  /\ call[c].phase = "broken"
  /\ call' = [call EXCEPT ![c] = Idle]
  /\ UNCHANGED <<deployment, file, up, policy, probe, held, seen, exit>>

\* A broken connection, or the timeout of the transport, raises out of the SDK call.
GiveUp(c) ==
  /\ call[c].phase \in {"sent", "answered", "broken"}
  /\ call' = [call EXCEPT ![c] = Idle]
  /\ UNCHANGED <<deployment, file, up, policy, probe, held, seen, exit>>

\* khipu-verify on the client's receipt and the operator's file.
RunCli(c) ==
  /\ held[c] # Nothing
  /\ exit' = [exit EXCEPT ![c] = [kind |-> "exit", file |-> file,
                                  code |-> CliExit(file, held[c].receipt)]]
  /\ UNCHANGED <<deployment, file, up, policy, probe, call, held, seen>>

Next ==
  \/ EditFile \/ Start \/ Stop \/ Health
  \/ \E c \in Clients : \/ Attest(c) \/ Verify(c) \/ WitnessList(c) \/ Handle(c)
                        \/ Receive(c) \/ GiveUp(c) \/ RunCli(c)

\* Only the client's own timeout is certain to come; the service may stay down for ever.
Spec == Init /\ [][Next]_vars /\ \A c \in Clients : WF_vars(GiveUp(c))

-----------------------------------------------------------------------------
\* Across restarts and edits of the policy file: the service confirms a receipt it issued
\* exactly when it now trusts the same keys and threshold as when it issued it.  A rotation
\* of one key or a new threshold turns down every earlier receipt, going back confirms them.
ConfirmedIffSameTrust ==
  \A c \in Clients :
    seen[c].kind = "verdict" =>
      /\ seen[c].result.matches <=> TrustOf(seen[c].by) = TrustOf(held[c].by)
      /\ seen[c].result.decision = "canonical" =>
           seen[c].result.matches /\ held[c].receipt.decision = "canonical"

\* Service and CLI, which read the policy file at different times and load it by different
\* code, say the same of a receipt whenever they trust the same keys and threshold; but the
\* CLI refuses a file that names an organ twice, of which the service keeps the last entry.
CliAgreesWithService ==
  \A c \in Clients :
    seen[c].kind = "verdict" /\ exit[c] # Nothing /\ exit[c].file \notin {Unset, Junk}
      /\ TrustOf(FromFile(exit[c].file)) = TrustOf(seen[c].by) =>
        exit[c].code = IF DuplicateOrgans(exit[c].file.witnesses) THEN 2
                       ELSE IF seen[c].result.decision = "canonical" THEN 0 ELSE 1

\* The witnesses the service lists foretell the verdict of a later verify, across restarts
\* with other policies between attest, the listing and verify.  A client that finds the listed
\* keys and threshold in its receipt gets it confirmed, and one that does not is turned down,
\* unless the policy has changed since the listing; and then a receipt that the stale listing
\* agrees with is never confirmed.
ListingForetellsVerify ==
  \A c \in Clients :
    /\ seen[c].kind = "listing"
    /\ call[c].phase = "answered" /\ call[c].request.op = "verify"
    /\ call[c].answer.status = 200
    =>
      LET claimed(x) == [keys |-> PubkeysOf(x.witnesses), threshold |-> x.threshold]
          agrees     == claimed(seen[c].listing) = claimed(call[c].request.receipt)
          matches    == call[c].answer.result.matches
      IN  IF TrustOf(call[c].by) = TrustOf(seen[c].by) THEN matches <=> agrees
          ELSE ~(matches /\ agrees)

\* "Either way you get the same attest() / verify()" (sdk.py): over HTTP a call returns what
\* it returns in process on the registry that answers, and raises exactly when it does there.
TransportsAgree ==
  \A c \in Clients :
    call[c].phase = "answered" /\ call[c].by # NoPolicy =>
      Returned(call[c].request, call[c].answer) = InProcess(call[c].by, call[c].request)

\* What healthz said since the service started holds for the calls it answers: "unavailable"
\* goes with 503 for every call and nothing else does; "UNSIGNED-honest" means that no attest
\* brings a signature or a canonical decision, "signed" that every receipt has a signature.
HealthTellsTruth ==
  \A c \in Clients :
    call[c].phase = "answered" /\ call[c].health # "none" =>
      LET answer == call[c].answer
      IN  /\ (call[c].health = "unavailable") <=> (answer.status = 503)
          /\ answer.status = 200 /\ call[c].request.op = "attest" =>
               /\ (call[c].health = "signed")
                    <=> (\E i \in DOMAIN answer.receipt.signatures :
                           answer.receipt.signatures[i] # Abstain)
               /\ call[c].health = "unsigned" => answer.receipt.decision = "rejected"

\* Every SDK call returns or raises, though the service may be down or die under it.
EveryCallEnds == \A c \in Clients : []<>(call[c] = Idle)
=============================================================================
