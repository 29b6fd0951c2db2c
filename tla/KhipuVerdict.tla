---------------------------- MODULE KhipuVerdict ----------------------------
(***************************************************************************)
(* The data of the consensus core (python/khipu_consensus/__init__.py): the *)
(* signed statement, the wire row that carries it, and verify_verdict, the  *)
(* check every row goes through.  Pure definitions, no state.               *)
(*                                                                         *)
(* ECDSA over the DSSE pre-authentication encoding is idealised: a          *)
(* signature is the record of the key that made it and of the type and     *)
(* bytes it covers, and it verifies under exactly that key, type and body. *)
(* Which of these records exist is a matter for the modules that use this  *)
(* one.  A PEM stands for the key pair it belongs to.                      *)
(***************************************************************************)
EXTENDS Integers, Sequences, FiniteSets

CONSTANTS
  Organs,   \* the non-empty witness names
  NoOrgan,  \* the empty witness name
  Actions,  \* action hashes
  Pems,     \* public keys that parse
  NoPem,    \* the empty PEM
  BadPem,   \* a non-empty string that is no public key
  NoBytes,  \* an empty payload or signature field
  Junk,     \* bytes that are no JSON document, or no valid signature
  Abstain   \* None in a list of verdicts

ASSUME NamesAssumption == NoOrgan \notin Organs
ASSUME PemAssumption == NoPem \notin Pems /\ BadPem \notin Pems /\ NoPem # BadPem

OrganNames == Organs \cup {NoOrgan}

\* f"{organ}-cosign": the one key id a witness of that name may use.
KeyidOf(organ) == <<organ, "cosign">>
Keyids == {KeyidOf(o) : o \in OrganNames}

VerdictType == "organ-verdict"
Schema == "organ_verdict/v1"

\* payloadType as it stands on the wire; "absent" and "null" are not strings there.
WireTypes == {VerdictType, "other", "empty", "null", "absent"}

Statements == [schema  : {Schema, "other"},
               organ   : OrganNames,
               keyid   : Keyids,
               action  : Actions,
               verdict : {"allow", "block"}]

Bodies == Statements \cup {Junk}

SignatureBy(pem, type, body) == [pem |-> pem, type |-> type, body |-> body]

Signatures == [pem : Pems, type : {VerdictType, "other"}, body : Bodies]

Rows == [organ     : OrganNames,
         keyid     : Keyids,
         type      : WireTypes,
         payload   : Bodies \cup {NoBytes},
         signature : Signatures \cup {NoBytes, Junk}]

ASSUME BytesAssumption ==
  /\ NoBytes \notin Bodies \cup Signatures
  /\ Junk \notin Statements \cup Signatures
  /\ NoBytes # Junk
  /\ Abstain \notin Rows

Items == Rows \cup {Abstain}

\* OrganVerdict.from_dict: an absent payloadType takes the default.
FromDict(row) ==
  [row EXCEPT !.type = IF @ = "absent" THEN VerdictType ELSE @]

\* sign_verdict
SignVerdict(organ, action, verdict, pem) ==
  LET body == [schema |-> Schema, organ |-> organ, keyid |-> KeyidOf(organ),
               action |-> action, verdict |-> verdict]
  IN  [organ     |-> organ,
       keyid     |-> KeyidOf(organ),
       type      |-> VerdictType,
       payload   |-> body,
       signature |-> SignatureBy(pem, VerdictType, body)]

-----------------------------------------------------------------------------
Reasons ==
  { "", "abstain/timeout", "no public key", "duplicate-witness (already counted)",
    "missing payload/signature", "payload-type-mismatch", "witness-identity-mismatch",
    "key does not load", "signature mismatch", "payload is not JSON",
    "statement-schema-mismatch", "signed-witness-identity-mismatch" }

\* OrganCheck, without the key id it echoes.  None is "none" here.
Checks == [organ : OrganNames, valid : BOOLEAN, verdict : {"allow", "block", "none"},
           match : BOOLEAN, counts : BOOLEAN, reason : Reasons]

NotValid(organ, reason) ==
  [organ |-> organ, valid |-> FALSE, verdict |-> "none",
   match |-> FALSE, counts |-> FALSE, reason |-> reason]

\* Why verify_verdict turns a row down, in the order in which it looks; "" if it does not.
Refusal(v, pem) ==
  IF NoBytes \in {v.payload, v.signature} THEN "missing payload/signature"
  ELSE IF v.type # VerdictType THEN "payload-type-mismatch"
  ELSE IF v.organ = NoOrgan \/ v.keyid # KeyidOf(v.organ) THEN "witness-identity-mismatch"
  ELSE IF pem \notin Pems THEN "key does not load"
  ELSE IF v.signature # SignatureBy(pem, v.type, v.payload) THEN "signature mismatch"
  ELSE IF v.payload = Junk THEN "payload is not JSON"
  ELSE IF v.payload.schema # Schema THEN "statement-schema-mismatch"
  ELSE IF v.payload.organ # v.organ \/ v.payload.keyid # KeyidOf(v.organ)
    THEN "signed-witness-identity-mismatch"
  ELSE ""

\* Defect: a valid allow counts for whatever action is being tallied.
VerifyVerdict_AnyAction(v, pem, action) ==
  IF Refusal(v, pem) # "" THEN NotValid(v.organ, Refusal(v, pem))
  ELSE [organ   |-> v.organ,
        valid   |-> TRUE,
        verdict |-> v.payload.verdict,
        match   |-> v.payload.action = action,
        counts  |-> v.payload.verdict = "allow",
        reason  |-> ""]

\* verify_verdict
VerifyVerdict(v, pem, action) ==
  IF Refusal(v, pem) # "" THEN NotValid(v.organ, Refusal(v, pem))
  ELSE [organ   |-> v.organ,
        valid   |-> TRUE,
        verdict |-> v.payload.verdict,
        match   |-> v.payload.action = action,
        counts  |-> v.payload.action = action /\ v.payload.verdict = "allow",
        reason  |-> ""]

\* pubkeys.get(organ, "")
PubkeyOf(pubkeys, organ) ==
  IF organ \in DOMAIN pubkeys THEN pubkeys[organ] ELSE NoPem

\* Maps from organ to PEM.
PubkeyMaps == UNION {[S -> Pems \cup {NoPem, BadPem}] : S \in SUBSET OrganNames}

-----------------------------------------------------------------------------
(* What a counting row is, said without verify_verdict: it holds a          *)
(* signature by the key published for `organ` over a v1 statement in which  *)
(* `organ` allows exactly this action.                                      *)
SignedAllow(organ, action) ==
  [schema |-> Schema, organ |-> organ, keyid |-> KeyidOf(organ),
   action |-> action, verdict |-> "allow"]

Supports(item, organ, pubkeys, action) ==
  /\ item # Abstain
  /\ organ \in Organs
  /\ PubkeyOf(pubkeys, organ) \in Pems
  /\ item.organ = organ
  /\ item.keyid = KeyidOf(organ)
  /\ item.type \in {VerdictType, "absent"}
  /\ item.payload = SignedAllow(organ, action)
  /\ item.signature = SignatureBy(PubkeyOf(pubkeys, organ), VerdictType, item.payload)

\* The witnesses that allow the action somewhere in a list of verdicts.
AllowingWitnesses(action, verdicts, pubkeys) ==
  {o \in OrganNames :
     \E i \in DOMAIN verdicts : Supports(verdicts[i], o, pubkeys, action)}

\* _valid_quorum_counts; the integers are Python's, and True is not one of them.
ValidQuorumCounts(threshold, n) ==
  /\ threshold \in Int
  /\ n \in Int
  /\ 1 <= threshold
  /\ threshold <= n

\* What tally returns.  Tally.tla runs its loop and TallyProofs.tla shows that this is its
\* result; the modules that only call tally use the result.
TallyOutcome(action, verdicts, pubkeys, threshold, n) ==
  LET count == Cardinality(AllowingWitnesses(action, verdicts, pubkeys))
  IN  IF ValidQuorumCounts(threshold, n)
      THEN [decision |-> IF count >= threshold THEN "canonical" ELSE "rejected",
            count    |-> count]
      ELSE [decision |-> "rejected", count |-> 0]
=============================================================================
