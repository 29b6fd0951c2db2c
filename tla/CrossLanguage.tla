--------------------------- MODULE CrossLanguage ---------------------------
(***************************************************************************)
(* The three reference implementations of tally, run on one list of rows:   *)
(* python/khipu_consensus/__init__.py, go/consensus.go and                  *)
(* typescript/src/index.ts.  The loops are alike; what differs is how each  *)
(* reads its input: a row's payloadType, its two base64 texts, the JSON of  *)
(* the signed statement, the PEM of a key, and the quorum counts.           *)
(***************************************************************************)
EXTENDS KhipuVerdict, SequencesExt

CONSTANTS
  RowPool,     \* the rows all three are given, null among them
  PubkeyPool,
  OtherPems,   \* what Node alone makes a key of: a certificate, a private key, an RSA key
  Counts,
  MaxRows      \* bound on the number of rows

Langs == {"python", "go", "typescript"}

\* The statement as a JSON document.  Its readers are the ports whose decoder takes it: Go's
\* wants strings in the fields of its struct; Python's alone takes UTF-16, a byte order mark
\* or NaN, and alone refuses ill-formed UTF-8.  `exact` is the statement under the five keys
\* as they are spelled, which is what Python and Node look up; `folded` the one Go decodes,
\* to which a key in any case is the key, and the last one holds.
Documents == [readers : SUBSET Langs, exact : Statements, folded : Statements]

\* A base64 text, the ports that get out of it the bytes it was made of, and these bytes.
\* Python and Node pass over characters outside the alphabet, at which Go stops; Node takes
\* the URL alphabet and does without padding.
Texts(Bytes) == [readers : SUBSET Langs, bytes : Bytes]

WireBodies == Documents \cup {Junk}

WireSignatures == [pem : Pems \cup OtherPems, type : {VerdictType, "other"}, body : WireBodies]

WireRows == [organ     : OrganNames,
             keyid     : Keyids,
             type      : WireTypes,
             payload   : Texts(WireBodies) \cup {NoBytes},
             signature : Texts(WireSignatures \cup {Junk}) \cup {NoBytes}]

WireKeyMaps == UNION {[S -> Pems \cup OtherPems \cup {NoPem, BadPem}] : S \in SUBSET OrganNames}

ASSUME WireAssumption ==
  /\ Junk \notin Documents \cup WireSignatures
  /\ NoBytes \notin Texts(WireBodies) \cup Texts(WireSignatures \cup {Junk})
  /\ Abstain \notin WireRows
  /\ OtherPems \cap (Pems \cup {NoPem, BadPem}) = {}

ASSUME LanguagesAssumption ==
  /\ RowPool \subseteq WireRows \cup {Abstain}
  /\ PubkeyPool \subseteq WireKeyMaps
  /\ MaxRows \in Nat

VARIABLES
  call,      \* the arguments, the same for all
  pos,       \* rows handled by all
  counted,   \* for each implementation, the organs that have counted
  count,     \* for each implementation, its count
  checks,    \* for each implementation, what it recorded of each row
  decision   \* for each implementation, "none" while it runs

portVars == <<call, pos, counted, count, checks, decision>>

Calls == [action : Actions, verdicts : BoundedSeq(RowPool, MaxRows),
          pubkeys : PubkeyPool, threshold : Counts, n : Counts]

PortsInit ==
  /\ call \in Calls
  /\ pos = 0
  /\ counted = [l \in Langs |-> {}]
  /\ count = [l \in Langs |-> 0]
  /\ checks = [l \in Langs |-> <<>>]
  /\ decision = [l \in Langs |-> "none"]

-----------------------------------------------------------------------------
\* The payload types each implementation replaces by the default: a dict's missing key, what
\* ?? replaces, what Go's decoder leaves at the zero value.
Defaulted(lang) ==
  CASE lang = "python"     -> {"absent"}
    [] lang = "typescript" -> {"absent", "null"}
    [] lang = "go"         -> {"absent", "null", "empty"}

TypeIn(lang, row) == IF row.type \in Defaulted(lang) THEN VerdictType ELSE row.type

Decodes(lang, text) == lang \in text.readers

\* The statement a port reads in a document it can decode.
StatementIn(lang, doc) == IF lang = "go" THEN doc.folded ELSE doc.exact

\* load_pem_public_key with the verify of an EC key, loadECDSAPublic, createPublicKey
KeysOf(lang) == IF lang = "typescript" THEN Pems \cup OtherPems ELSE Pems

\* Why a port turns a row down, in the order in which it looks.  A text it does not decode is
\* an error in Go, before anything else is looked at, and in Python; Node, and Python where
\* four characters go missing at a time, get other bytes, which no signature covers.
RefusalIn(lang, row, pem) ==
  LET type == TypeIn(lang, row)
      doc  == row.payload.bytes
      stmt == StatementIn(lang, doc)
      sig  == row.signature
  IN
  IF NoBytes \in {row.payload, row.signature} THEN "missing payload/signature"
  ELSE IF lang = "go" /\ ~Decodes(lang, row.payload) THEN "bad payload b64"
  ELSE IF lang = "go" /\ ~Decodes(lang, sig) THEN "bad signature b64"
  ELSE IF type # VerdictType THEN "payload-type-mismatch"
  ELSE IF row.organ = NoOrgan \/ row.keyid # KeyidOf(row.organ) THEN "witness-identity-mismatch"
  ELSE IF lang = "python" /\ ~Decodes(lang, row.payload) THEN "bad payload b64"
  ELSE IF pem \notin KeysOf(lang) THEN "key does not load"
  ELSE IF lang = "python" /\ ~Decodes(lang, sig) THEN "bad signature b64"
  ELSE IF \/ ~Decodes(lang, row.payload) \/ ~Decodes(lang, sig)
          \/ sig.bytes # SignatureBy(pem, type, doc) THEN "signature mismatch"
  ELSE IF doc = Junk \/ ~Decodes(lang, doc) THEN "payload is not JSON"
  ELSE IF stmt.schema # Schema THEN "statement-schema-mismatch"
  ELSE IF stmt.organ # row.organ \/ stmt.keyid # KeyidOf(row.organ)
    THEN "signed-witness-identity-mismatch"
  ELSE ""

\* Defect: TypeScript takes the row's word for who signed the statement.
VerifyIn_RowsWord(lang, row, pem, action) ==
  LET stmt   == StatementIn(lang, row.payload.bytes)
      passed == {""} \cup IF lang = "typescript" THEN {"signed-witness-identity-mismatch"} ELSE {}
  IN  IF RefusalIn(lang, row, pem) \notin passed
      THEN NotValid(row.organ, RefusalIn(lang, row, pem))
      ELSE [organ   |-> row.organ,
            valid   |-> TRUE,
            verdict |-> stmt.verdict,
            match   |-> stmt.action = action,
            counts  |-> stmt.action = action /\ stmt.verdict = "allow",
            reason  |-> ""]

\* verify_verdict, VerifyVerdict, verifyVerdict
VerifyIn(lang, row, pem, action) ==
  LET stmt == StatementIn(lang, row.payload.bytes)
  IN  IF RefusalIn(lang, row, pem) # "" THEN NotValid(row.organ, RefusalIn(lang, row, pem))
      ELSE [organ   |-> row.organ,
            valid   |-> TRUE,
            verdict |-> stmt.verdict,
            match   |-> stmt.action = action,
            counts  |-> stmt.action = action /\ stmt.verdict = "allow",
            reason  |-> ""]

\* Go looks for the map entry, the others for a non-empty key.
NoKeyIn(lang, pubkeys, organ) ==
  IF lang = "go" THEN organ \notin DOMAIN pubkeys ELSE PubkeyOf(pubkeys, organ) = NoPem

\* Defect: the fix of duplicate counting is missing from the Go port.
RecordedBy_GoRecounts(lang, item, already) ==
  IF item = Abstain THEN NotValid(NoOrgan, "abstain/timeout")
  ELSE IF NoKeyIn(lang, call.pubkeys, item.organ) THEN NotValid(item.organ, "no public key")
  ELSE LET chk == VerifyIn(lang, item, PubkeyOf(call.pubkeys, item.organ), call.action)
       IN  IF chk.counts /\ item.organ \in already /\ lang # "go"
           THEN [chk EXCEPT !.counts = FALSE,
                            !.reason = "duplicate-witness (already counted)"]
           ELSE chk

\* The check one implementation records for an item, given the organs it has counted.
RecordedBy(lang, item, already) ==
  IF item = Abstain THEN NotValid(NoOrgan, "abstain/timeout")
  ELSE IF NoKeyIn(lang, call.pubkeys, item.organ) THEN NotValid(item.organ, "no public key")
  ELSE LET chk == VerifyIn(lang, item, PubkeyOf(call.pubkeys, item.organ), call.action)
       IN  IF chk.counts /\ item.organ \in already
           THEN [chk EXCEPT !.counts = FALSE,
                            !.reason = "duplicate-witness (already counted)"]
           ELSE chk

\* Go's counts are ints of the language; the others look at the type first.
CountsAccepted(lang, threshold, n) ==
  IF lang = "go" THEN 1 <= threshold /\ threshold <= n ELSE ValidQuorumCounts(threshold, n)

Running(lang) == decision[lang] = "none" /\ CountsAccepted(lang, call.threshold, call.n)

RejectCounts ==
  /\ pos = 0
  /\ \E l \in Langs : decision[l] = "none" /\ ~CountsAccepted(l, call.threshold, call.n)
  /\ decision' = [l \in Langs |->
                    IF CountsAccepted(l, call.threshold, call.n) THEN decision[l] ELSE "rejected"]
  /\ UNCHANGED <<call, pos, counted, count, checks>>

\* The next row, in every implementation whose loop is running.
HandleRow ==
  LET item   == call.verdicts[pos + 1]
      chk(l) == RecordedBy(l, item, counted[l])
  IN  /\ pos < Len(call.verdicts)
      /\ \E l \in Langs : Running(l)
      /\ \A l \in Langs : decision[l] = "none" => Running(l)
      /\ pos' = pos + 1
      /\ counted' = [l \in Langs |-> IF Running(l) /\ chk(l).counts
                                     THEN counted[l] \cup {item.organ} ELSE counted[l]]
      /\ count' = [l \in Langs |-> IF Running(l) /\ chk(l).counts
                                   THEN count[l] + 1 ELSE count[l]]
      /\ checks' = [l \in Langs |-> IF Running(l) THEN Append(checks[l], chk(l)) ELSE checks[l]]
      /\ UNCHANGED <<call, decision>>

Decide ==
  /\ pos = Len(call.verdicts)
  /\ \E l \in Langs : Running(l)
  /\ \A l \in Langs : decision[l] = "none" => Running(l)
  /\ decision' = [l \in Langs |->
                    IF ~Running(l) THEN decision[l]
                    ELSE IF count[l] >= call.threshold THEN "canonical" ELSE "rejected"]
  /\ UNCHANGED <<call, pos, counted, count, checks>>

PortsDone == (\A l \in Langs : decision[l] # "none") /\ UNCHANGED portVars

PortsNext == RejectCounts \/ HandleRow \/ Decide \/ PortsDone

PortsSpec == PortsInit /\ [][PortsNext]_portVars

-----------------------------------------------------------------------------
(* What the signers write: canonical JSON, read alike by all, in the        *)
(* standard base64 of b64encode.                                            *)
Written(body) ==
  IF body = Junk THEN Junk ELSE [readers |-> Langs, exact |-> body, folded |-> body]

Text(bytes) == [readers |-> Langs, bytes |-> bytes]

\* A row of the Python model as its signer puts it on the wire.
Wire(row) ==
  [row EXCEPT
     !.payload   = IF @ = NoBytes THEN NoBytes ELSE Text(Written(@)),
     !.signature = IF @ = NoBytes THEN NoBytes
                   ELSE IF @ = Junk THEN Text(Junk)
                   ELSE Text(SignatureBy(@.pem, @.type, Written(@.body)))]

\* What a row must be for a port to count it, said without the port's checks: in the text this
\* port decodes stands a document signed by the key published for the organ, and as this port
\* reads it, the organ allows exactly this action in it.
SupportsIn(lang, item, organ) ==
  /\ item # Abstain
  /\ organ \in Organs
  /\ item.organ = organ /\ item.keyid = KeyidOf(organ)
  /\ TypeIn(lang, item) = VerdictType
  /\ NoBytes \notin {item.payload, item.signature}
  /\ lang \in item.payload.readers \cap item.signature.readers
  /\ item.payload.bytes # Junk
  /\ lang \in item.payload.bytes.readers
  /\ StatementIn(lang, item.payload.bytes) = SignedAllow(organ, call.action)
  /\ PubkeyOf(call.pubkeys, organ) \in KeysOf(lang)
  /\ item.signature.bytes
       = SignatureBy(PubkeyOf(call.pubkeys, organ), VerdictType, item.payload.bytes)

SupportedIn(lang, rows) ==
  {o \in OrganNames : \E i \in rows : SupportsIn(lang, call.verdicts[i], o)}

\* However oddly the rows are written, and whatever the others make of them, each tally has
\* counted exactly the witnesses whose signed allow it has read, each once, and calls
\* canonical exactly what `threshold` of them allow.
EachCountsWhatItReads ==
  \A l \in Langs :
    /\ counted[l] = SupportedIn(l, 1..pos)
    /\ count[l] = Cardinality(counted[l])
    /\ decision[l] # "none" =>
         (decision[l] = "canonical" <=>
            /\ ValidQuorumCounts(call.threshold, call.n)
            /\ call.threshold <= Cardinality(SupportedIn(l, DOMAIN call.verdicts)))

\* A row as its signer put it on the wire (as Wire does), edited or not in what the signature
\* does not cover: canonical JSON in standard base64, a payloadType that is absent or a
\* non-empty string.  And keys as key pairs for signing come, no certificates.
AsSigned(item) ==
  item = Abstain \/
    /\ item.type \notin {"empty", "null"}
    /\ \A text \in {item.payload, item.signature} \ {NoBytes} : text.readers = Langs
    /\ item.payload # NoBytes =>
         LET doc == item.payload.bytes
         IN  doc = Junk \/ (doc.readers = Langs /\ doc.exact = doc.folded)

AsSignedUpTo(n) ==
  /\ \A o \in DOMAIN call.pubkeys : call.pubkeys[o] \notin OtherPems
  /\ \A i \in 1..n : AsSigned(call.verdicts[i])

\* The implementations agree row by row: for every row all record the same judgement (the
\* wording of a refusal aside), have counted the same organs as often, and decide alike (the
\* comment of Tally in go/consensus.go: "Mirrors python/ + typescript/").
Judgement(chk) == [organ |-> chk.organ, valid |-> chk.valid, verdict |-> chk.verdict,
                   match |-> chk.match, counts |-> chk.counts]

TalliesMirror ==
  \A l, m \in Langs :
    /\ decision[l] = "none" /\ decision[m] = "none" =>
         /\ counted[l] = counted[m]
         /\ count[l] = count[m]
         /\ Len(checks[l]) = Len(checks[m])
         /\ \A i \in DOMAIN checks[l] : Judgement(checks[l][i]) = Judgement(checks[m][i])
    /\ decision[l] # "none" /\ decision[m] # "none" => decision[l] = decision[m]

\* They do as long as the rows are as signed: their different decoders, defaults, key loaders
\* and orders of looking make no difference there, whatever is repeated, refused or edited.
SignedRowsMirror == AsSignedUpTo(pos) => TalliesMirror
=============================================================================
