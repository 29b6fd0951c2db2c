-------------------------- MODULE CrossCheckProofs --------------------------
(***************************************************************************)
(* Proofs about the three components that set implementations or outcomes   *)
(* beside each other: the ports of tally (CrossLanguage), the harness with  *)
(* its three tallies and its oracle (AdversarialHarness), and the collusion *)
(* lane (Collusion).  One part each, in this order.                         *)
(***************************************************************************)
EXTENDS AdversarialHarness, CrossLanguage, Collusion, ReceiptsProofs

-----------------------------------------------------------------------------
(* The ports.                                                               *)

\* What a port writes in a check: its wording includes Go's and Python's for base64.
PortChecks == [organ : OrganNames, valid : BOOLEAN, verdict : {"allow", "block", "none"},
               match : BOOLEAN, counts : BOOLEAN,
               reason : Reasons \cup {"bad payload b64", "bad signature b64"}]

LEMMA NotValidRecorded ==
  /\ \A o \in OrganNames, r \in Reasons \cup {"bad payload b64", "bad signature b64"} :
       NotValid(o, r) \in PortChecks
  /\ \A o, r : ~NotValid(o, r).counts
  /\ \A o, r, s : Judgement(NotValid(o, r)) = Judgement(NotValid(o, s))
  BY DEF NotValid, PortChecks, Judgement

\* A row that a port does not refuse holds a document, whose statement this port reads.
LEMMA AcceptedReads ==
  ASSUME NEW row \in WireRows, NEW l \in Langs, NEW pem, RefusalIn(l, row, pem) = ""
  PROVE  /\ row.payload \in Texts(WireBodies) /\ row.payload.bytes \in Documents
         /\ StatementIn(l, row.payload.bytes) \in Statements
<1>1. row.payload # NoBytes /\ row.payload.bytes # Junk
  BY DEF RefusalIn
<1>2. row.payload \in Texts(WireBodies)
  BY <1>1 DEF WireRows
<1>3. row.payload.bytes \in Documents
  BY <1>1, <1>2 DEF Texts, WireBodies
<1> QED
  BY <1>2, <1>3 DEF StatementIn, Documents

\* verify_verdict of a port returns a check.
LEMMA VerifyInTyped ==
  ASSUME NEW row \in WireRows, NEW l \in Langs, NEW pem, NEW action
  PROVE  VerifyIn(l, row, pem, action) \in PortChecks
<1>1. row.organ \in OrganNames
  BY DEF WireRows
<1>2. CASE RefusalIn(l, row, pem) # ""
  <2>1. RefusalIn(l, row, pem) \in Reasons \cup {"bad payload b64", "bad signature b64"}
    BY DEF RefusalIn, Reasons
  <2> QED
    BY <1>1, <1>2, <2>1, NotValidRecorded DEF VerifyIn
<1>3. CASE RefusalIn(l, row, pem) = ""
  <2>1. StatementIn(l, row.payload.bytes).verdict \in {"allow", "block"}
    BY <1>3, AcceptedReads DEF Statements
  <2> QED
    BY <1>1, <1>3, <2>1 DEF VerifyIn, PortChecks, Reasons
<1> QED
  BY <1>2, <1>3

\* What a port records of an item is a check.
LEMMA RecordedTyped ==
  ASSUME NEW item \in RowPool, NEW already, NEW l \in Langs
  PROVE  RecordedBy(l, item, already) \in PortChecks
<1> DEFINE chk == VerifyIn(l, item, PubkeyOf(call.pubkeys, item.organ), call.action)
<1>1. item = Abstain \/ item \in WireRows
  BY LanguagesAssumption
<1>2. CASE item = Abstain
  <2>1. NoOrgan \in OrganNames /\ "abstain/timeout" \in Reasons
    BY DEF OrganNames, Reasons
  <2> QED
    BY <1>2, <2>1, NotValidRecorded DEF RecordedBy
<1>3. CASE item # Abstain
  <2>1. item.organ \in OrganNames /\ chk \in PortChecks /\ "no public key" \in Reasons
    BY <1>1, <1>3, VerifyInTyped DEF WireRows, Reasons
  <2>2. RecordedBy(l, item, already) =
          IF NoKeyIn(l, call.pubkeys, item.organ) THEN NotValid(item.organ, "no public key")
          ELSE IF chk.counts /\ item.organ \in already
          THEN [chk EXCEPT !.counts = FALSE, !.reason = "duplicate-witness (already counted)"]
          ELSE chk
    BY <1>3 DEF RecordedBy
  <2> HIDE DEF chk
  <2>3. [chk EXCEPT !.counts = FALSE, !.reason = "duplicate-witness (already counted)"]
          \in PortChecks
    BY <2>1 DEF PortChecks, Reasons
  <2> QED
    BY <2>1, <2>2, <2>3, NotValidRecorded
<1> QED
  BY <1>2, <1>3

\* A port lets a row count exactly when the row supports the organ it names.
LEMMA CountsIffSupportsIn ==
  ASSUME NEW row \in WireRows, NEW l \in Langs
  PROVE  VerifyIn(l, row, PubkeyOf(call.pubkeys, row.organ), call.action).counts
           <=> SupportsIn(l, row, row.organ)
<1> DEFINE pem == PubkeyOf(call.pubkeys, row.organ)
           doc == row.payload.bytes
           stmt == StatementIn(l, doc)
<1>1. row # Abstain /\ row.organ \in OrganNames /\ NoOrgan \notin Organs
  BY WireAssumption, NamesAssumption DEF WireRows
<1>2. VerifyIn(l, row, pem, call.action).counts
        <=> /\ RefusalIn(l, row, pem) = ""
            /\ stmt.action = call.action /\ stmt.verdict = "allow"
  BY DEF VerifyIn, NotValid
<1>3. RefusalIn(l, row, pem) = "" <=>
        /\ NoBytes \notin {row.payload, row.signature}
        /\ TypeIn(l, row) = VerdictType
        /\ row.organ # NoOrgan /\ row.keyid = KeyidOf(row.organ)
        /\ pem \in KeysOf(l)
        /\ Decodes(l, row.payload) /\ Decodes(l, row.signature)
        /\ row.signature.bytes = SignatureBy(pem, VerdictType, doc)
        /\ doc # Junk /\ Decodes(l, doc)
        /\ stmt.schema = Schema
        /\ stmt.organ = row.organ /\ stmt.keyid = KeyidOf(row.organ)
  BY DEF RefusalIn
<1>4. ASSUME stmt \in Statements
      PROVE  stmt = SignedAllow(row.organ, call.action) <=>
               /\ stmt.schema = Schema
               /\ stmt.organ = row.organ /\ stmt.keyid = KeyidOf(row.organ)
               /\ stmt.action = call.action /\ stmt.verdict = "allow"
  BY <1>4 DEF Statements, SignedAllow
<1>5. ASSUME NoBytes # row.payload, doc # Junk
      PROVE  stmt \in Statements
  <2>1. doc \in Documents
    BY <1>5 DEF WireRows, Texts, WireBodies
  <2> QED
    BY <2>1 DEF StatementIn, Documents
<1>6. row.organ # NoOrgan <=> row.organ \in Organs
  BY <1>1 DEF OrganNames
<1>7. SupportsIn(l, row, row.organ) <=>
        /\ row.organ \in Organs /\ row.keyid = KeyidOf(row.organ)
        /\ TypeIn(l, row) = VerdictType
        /\ NoBytes \notin {row.payload, row.signature}
        /\ Decodes(l, row.payload) /\ Decodes(l, row.signature)
        /\ doc # Junk /\ Decodes(l, doc)
        /\ stmt = SignedAllow(row.organ, call.action)
        /\ pem \in KeysOf(l)
        /\ row.signature.bytes = SignatureBy(pem, VerdictType, doc)
  BY <1>1 DEF SupportsIn, Decodes
<1> DEFINE refused == RefusalIn(l, row, pem) # ""
           signed == row.signature.bytes = SignatureBy(pem, VerdictType, doc)
           decoded == Decodes(l, row.payload) /\ Decodes(l, row.signature) /\ Decodes(l, doc)
           counts == VerifyIn(l, row, pem, call.action).counts
<1> HIDE DEF pem, doc, stmt, refused, signed, decoded, counts
<1>8. ~refused <=>
        /\ NoBytes \notin {row.payload, row.signature}
        /\ TypeIn(l, row) = VerdictType
        /\ row.organ # NoOrgan /\ row.keyid = KeyidOf(row.organ)
        /\ pem \in KeysOf(l)
        /\ decoded /\ signed /\ doc # Junk
        /\ stmt.schema = Schema
        /\ stmt.organ = row.organ /\ stmt.keyid = KeyidOf(row.organ)
  BY <1>3 DEF refused, decoded, signed
<1>9. counts <=> ~refused /\ stmt.action = call.action /\ stmt.verdict = "allow"
  BY <1>2 DEF refused, counts
<1>10. SupportsIn(l, row, row.organ) <=>
         /\ row.organ \in Organs /\ row.keyid = KeyidOf(row.organ)
         /\ TypeIn(l, row) = VerdictType
         /\ NoBytes \notin {row.payload, row.signature}
         /\ decoded /\ signed /\ doc # Junk
         /\ stmt = SignedAllow(row.organ, call.action)
         /\ pem \in KeysOf(l)
  BY <1>7 DEF decoded, signed
<1>11. counts <=> SupportsIn(l, row, row.organ)
  BY <1>4, <1>5, <1>6, <1>8, <1>9, <1>10
<1> QED
  BY <1>11 DEF counts, pem

\* A row counts in a port exactly when it supports an organ that has not counted there.
LEMMA RecordedCounts ==
  ASSUME NEW item \in RowPool, NEW already, NEW l \in Langs
  PROVE  RecordedBy(l, item, already).counts <=>
           \E o \in OrganNames \ already : o = item.organ /\ SupportsIn(l, item, o)
<1> DEFINE pem == PubkeyOf(call.pubkeys, item.organ)
           chk == VerifyIn(l, item, pem, call.action)
<1>1. CASE item = Abstain
  BY <1>1, NotValidRecorded DEF RecordedBy, SupportsIn
<1>2. CASE item # Abstain
  <2>1. item \in WireRows /\ item.organ \in OrganNames
    BY <1>2, LanguagesAssumption DEF WireRows
  <2>2. chk.counts <=> SupportsIn(l, item, item.organ)
    BY <2>1, CountsIffSupportsIn
  <2>3. chk \in PortChecks
    BY <2>1, VerifyInTyped
  <2>4. NoKeyIn(l, call.pubkeys, item.organ) => ~SupportsIn(l, item, item.organ)
    <3>1. NoKeyIn(l, call.pubkeys, item.organ) => pem = NoPem
      BY DEF NoKeyIn, PubkeyOf
    <3>2. NoPem \notin KeysOf(l)
      BY PemAssumption, WireAssumption DEF KeysOf
    <3> QED
      BY <3>1, <3>2 DEF SupportsIn
  <2>5. RecordedBy(l, item, already) =
          IF NoKeyIn(l, call.pubkeys, item.organ) THEN NotValid(item.organ, "no public key")
          ELSE IF chk.counts /\ item.organ \in already
          THEN [chk EXCEPT !.counts = FALSE, !.reason = "duplicate-witness (already counted)"]
          ELSE chk
    BY <1>2 DEF RecordedBy
  <2> HIDE DEF pem, chk
  <2>6. chk.counts /\ item.organ \in already =>
          ~[chk EXCEPT !.counts = FALSE, !.reason = "duplicate-witness (already counted)"].counts
    BY <2>3 DEF PortChecks
  <2>7. CASE NoKeyIn(l, call.pubkeys, item.organ)
    BY <2>4, <2>5, <2>7, NotValidRecorded
  <2>8. CASE ~NoKeyIn(l, call.pubkeys, item.organ)
    BY <2>1, <2>2, <2>5, <2>6, <2>8
  <2> QED
    BY <2>7, <2>8
<1> QED
  BY <1>1, <1>2

\* All ports accept the same quorum counts, when these are integers.
LEMMA CountsAlike ==
  ASSUME Counts \subseteq Int, NEW l \in Langs, NEW t \in Counts, NEW n \in Counts
  PROVE  CountsAccepted(l, t, n) <=> ValidQuorumCounts(t, n)
  BY DEF CountsAccepted, ValidQuorumCounts

\* The arguments of the call.
LEMMA PortsCallTyped ==
  ASSUME call \in Calls
  PROVE  /\ call.verdicts \in Seq(RowPool)
         /\ call.threshold \in Counts /\ call.n \in Counts
         /\ Len(call.verdicts) \in Nat
<1>1. call.verdicts \in BoundedSeq(RowPool, MaxRows)
      /\ call.threshold \in Counts /\ call.n \in Counts
  BY DEF Calls
<1>2. call.verdicts \in Seq(RowPool)
  <2>1. PICK m \in 0..MaxRows : call.verdicts \in [1..m -> RowPool]
    BY <1>1 DEF BoundedSeq, SeqOf
  <2> QED
    BY <2>1, SeqDef
<1> QED
  BY <1>1, <1>2, LenProperties

\* Each port has counted the organs that support the action so far as it reads them, each once,
\* and decides by the threshold at the end of the list, or at once when the counts are malformed.
PortCounts(l) ==
  /\ counted[l] = SupportedIn(l, 1..pos)
  /\ IsFiniteSet(counted[l]) /\ count[l] = Cardinality(counted[l])
  /\ decision[l] # "none" =>
       IF ValidQuorumCounts(call.threshold, call.n)
       THEN /\ pos = Len(call.verdicts)
            /\ decision[l] = IF count[l] >= call.threshold THEN "canonical" ELSE "rejected"
       ELSE decision[l] = "rejected"

AllPortsCount ==
  /\ call \in Calls
  /\ pos \in 0..Len(call.verdicts)
  /\ checks \in [Langs -> Seq(PortChecks)]
  /\ \A l \in Langs : PortCounts(l)

\* The row that all handle is handled by every port, as none has decided before.
LEMMA AllHandle ==
  ASSUME Counts \subseteq Int, AllPortsCount, HandleRow
  PROVE  \A l \in Langs : Running(l)
<1>1. PICK m \in Langs : Running(m)
  BY DEF HandleRow
<1>2. ValidQuorumCounts(call.threshold, call.n)
  BY <1>1, CountsAlike, PortsCallTyped DEF Running, AllPortsCount
<1>3. pos < Len(call.verdicts) /\ pos \in Nat /\ Len(call.verdicts) \in Nat
  BY PortsCallTyped DEF HandleRow, AllPortsCount
<1>4. \A l \in Langs : decision[l] = "none"
  BY <1>2, <1>3 DEF AllPortsCount, PortCounts
<1> QED
  BY <1>4 DEF HandleRow

\* And counted as it should be.
LEMMA HandledCounts ==
  ASSUME Counts \subseteq Int, AllPortsCount, HandleRow, NEW l \in Langs
  PROVE  PortCounts(l)'
<1> DEFINE item == call.verdicts[pos + 1]
           chk == RecordedBy(l, item, counted[l])
           organs == {o \in OrganNames : SupportsIn(l, item, o)}
<1>1. item \in RowPool /\ pos \in Nat
  BY PortsCallTyped, ElementOfSeq DEF AllPortsCount, HandleRow
<1>3. organs \subseteq {item.organ}
  BY DEF SupportsIn
<1>4. chk.counts <=> \E o \in OrganNames \ counted[l] : o = item.organ /\ SupportsIn(l, item, o)
  BY <1>1, RecordedCounts
<1>5. Running(l)
  BY AllHandle
<1>6. /\ counted'[l] = IF chk.counts THEN counted[l] \cup {item.organ} ELSE counted[l]
      /\ count'[l] = IF chk.counts THEN count[l] + 1 ELSE count[l]
      /\ pos' = pos + 1 /\ call' = call /\ decision' = decision
  BY <1>5 DEF HandleRow
<1>7. SupportedIn(l, 1..pos)' = SupportedIn(l, 1..pos) \cup organs
  <2>1. \A i : i \in 1..(pos + 1) <=> i \in 1..pos \/ i = pos + 1
    BY <1>1
  <2>2. \A x, o : SupportsIn(l, x, o)' <=> SupportsIn(l, x, o)
    BY <1>6 DEF SupportsIn
  <2> QED
    BY <1>6, <2>1, <2>2 DEF SupportedIn
<1>8. counted[l] = SupportedIn(l, 1..pos) /\ IsFiniteSet(counted[l])
      /\ count[l] = Cardinality(counted[l])
  BY DEF AllPortsCount, PortCounts
<1>9. decision[l] = "none"
  BY <1>5 DEF Running
<1> HIDE DEF item, chk
<1>10. CASE chk.counts
  <2>1. item.organ \notin counted[l] /\ organs = {item.organ}
    BY <1>3, <1>4, <1>10
  <2> HIDE DEF organs
  <2>2. counted'[l] = SupportedIn(l, 1..pos)'
    BY <1>6, <1>7, <1>8, <1>10, <2>1
  <2>3. IsFiniteSet(counted'[l]) /\ count'[l] = Cardinality(counted'[l])
    BY <1>6, <1>8, <1>10, <2>1, FS_AddElement
  <2> QED
    BY <1>6, <1>9, <2>2, <2>3 DEF PortCounts
<1>11. CASE ~chk.counts
  <2>1. organs \subseteq counted[l]
    BY <1>3, <1>4, <1>11
  <2> HIDE DEF organs
  <2>2. counted'[l] = SupportedIn(l, 1..pos)'
    BY <1>6, <1>7, <1>8, <1>11, <2>1
  <2> QED
    BY <1>6, <1>8, <1>9, <1>11, <2>2 DEF PortCounts
<1> QED
  BY <1>10, <1>11

\* The checks that a row adds, one in each port.
LEMMA HandledChecks ==
  ASSUME Counts \subseteq Int, AllPortsCount, HandleRow, NEW l \in Langs
  PROVE  LET chk == RecordedBy(l, call.verdicts[pos + 1], counted[l])
         IN  /\ checks[l] \in Seq(PortChecks) /\ checks'[l] \in Seq(PortChecks)
             /\ checks' \in [Langs -> Seq(PortChecks)]
             /\ Len(checks[l]) \in Nat /\ Len(checks'[l]) = Len(checks[l]) + 1
             /\ \A i \in 1..Len(checks[l]) : checks'[l][i] = checks[l][i]
             /\ checks'[l][Len(checks[l]) + 1] = chk
<1> DEFINE chk(m) == RecordedBy(m, call.verdicts[pos + 1], counted[m])
<1>1. \A m \in Langs : chk(m) \in PortChecks
  BY RecordedTyped, PortsCallTyped, ElementOfSeq DEF AllPortsCount, HandleRow
<1>2. checks' = [m \in Langs |-> Append(checks[m], chk(m))]
  BY AllHandle DEF HandleRow
<1> HIDE DEF chk
<1>3. \A m \in Langs : checks[m] \in Seq(PortChecks)
  BY DEF AllPortsCount
<1>4. /\ checks'[l] = Append(checks[l], chk(l)) /\ checks'[l] \in Seq(PortChecks)
      /\ checks' \in [Langs -> Seq(PortChecks)]
  BY <1>1, <1>2, <1>3, AppendProperties
<1> QED
  BY <1>1, <1>3, <1>4, AppendProperties, LenProperties DEF chk

\* That holds throughout.
LEMMA PortsCounting ==
  ASSUME Counts \subseteq Int
  PROVE  PortsSpec => []AllPortsCount
<1>1. PortsInit => AllPortsCount
  <2> SUFFICES ASSUME PortsInit PROVE AllPortsCount
    OBVIOUS
  <2>1. Len(call.verdicts) \in Nat
    BY PortsCallTyped DEF PortsInit
  <2>2. 1..0 = {} /\ \A l \in Langs : SupportedIn(l, {}) = {}
    BY DEF SupportedIn
  <2>3. \A l \in Langs : PortCounts(l)
    BY <2>2, FS_EmptySet DEF PortsInit, PortCounts
  <2> QED
    BY <2>1, <2>3 DEF PortsInit, AllPortsCount
<1>2. AllPortsCount /\ [PortsNext]_portVars => AllPortsCount'
  <2> SUFFICES ASSUME AllPortsCount, [PortsNext]_portVars PROVE AllPortsCount'
    OBVIOUS
  <2>1. \A l \in Langs :
          CountsAccepted(l, call.threshold, call.n)
            <=> ValidQuorumCounts(call.threshold, call.n)
    BY PortsCallTyped, CountsAlike DEF AllPortsCount
  <2>2. ASSUME UNCHANGED call, UNCHANGED pos, NEW l \in Langs
        PROVE  SupportedIn(l, 1..pos)' = SupportedIn(l, 1..pos)
    BY <2>2 DEF SupportedIn, SupportsIn
  <2>3. CASE RejectCounts
    <3>1. /\ UNCHANGED <<call, pos, counted, count, checks>>
          /\ \A l \in Langs :
               decision'[l] = IF CountsAccepted(l, call.threshold, call.n) THEN decision[l]
                              ELSE "rejected"
      BY <2>3 DEF RejectCounts
    <3>2. \A l \in Langs : PortCounts(l)'
      BY <2>1, <2>2, <3>1 DEF AllPortsCount, PortCounts
    <3> QED
      BY <3>1, <3>2 DEF AllPortsCount
  <2>4. CASE HandleRow
    <3>1. \A l \in Langs : PortCounts(l)'
      BY <2>4, HandledCounts
    <3>2. checks' \in [Langs -> Seq(PortChecks)]
      <4>1. "go" \in Langs
        BY DEF Langs
      <4> QED
        BY <2>4, <4>1, HandledChecks
    <3>3. call' = call /\ pos' \in 0..Len(call.verdicts)
      BY <2>4, PortsCallTyped DEF HandleRow, AllPortsCount
    <3> QED
      BY <3>1, <3>2, <3>3 DEF AllPortsCount
  <2>5. CASE Decide
    <3>1. /\ UNCHANGED <<call, pos, counted, count, checks>> /\ pos = Len(call.verdicts)
          /\ \A l \in Langs :
               decision'[l] = IF ~Running(l) THEN decision[l]
                              ELSE IF count[l] >= call.threshold THEN "canonical" ELSE "rejected"
      BY <2>5 DEF Decide
    <3>2. ASSUME NEW l \in Langs PROVE PortCounts(l)'
      BY <2>1, <2>2, <3>1 DEF AllPortsCount, PortCounts, Running
    <3> QED
      BY <3>1, <3>2 DEF AllPortsCount
  <2>6. CASE UNCHANGED portVars
    <3>1. UNCHANGED <<call, pos, counted, count, checks, decision>>
      BY <2>6 DEF portVars
    <3>2. ASSUME NEW l \in Langs PROVE PortCounts(l)'
      BY <2>2, <3>1 DEF AllPortsCount, PortCounts
    <3> QED
      BY <3>1, <3>2 DEF AllPortsCount
  <2> QED
    BY <2>3, <2>4, <2>5, <2>6 DEF PortsNext, PortsDone
<1> QED
  BY <1>1, <1>2, PTL DEF PortsSpec

\* On every list of rows, however written, each port counts exactly the witnesses whose signed
\* allow it reads, each once, and decides by the quorum rule on them.
THEOREM PortsCountWhatTheyRead ==
  ASSUME Counts \subseteq Int
  PROVE  PortsSpec => []EachCountsWhatItReads
<1>1. ASSUME AllPortsCount
      PROVE  EachCountsWhatItReads
  <2> SUFFICES ASSUME NEW l \in Langs
               PROVE  /\ counted[l] = SupportedIn(l, 1..pos)
                      /\ count[l] = Cardinality(counted[l])
                      /\ decision[l] # "none" =>
                           (decision[l] = "canonical" <=>
                              /\ ValidQuorumCounts(call.threshold, call.n)
                              /\ call.threshold
                                   <= Cardinality(SupportedIn(l, DOMAIN call.verdicts)))
    BY DEF EachCountsWhatItReads
  <2>1. PortCounts(l) /\ call.verdicts \in Seq(RowPool)
    BY <1>1, PortsCallTyped DEF AllPortsCount
  <2>2. DOMAIN call.verdicts = 1..Len(call.verdicts)
    BY <2>1, LenProperties
  <2>3. count[l] \in Nat /\ (ValidQuorumCounts(call.threshold, call.n) => call.threshold \in Int)
    BY <2>1, FS_CardinalityType DEF PortCounts, ValidQuorumCounts
  <2> QED
    BY <2>1, <2>2, <2>3 DEF PortCounts
<1> QED
  BY <1>1, PortsCounting, PTL

\* Rows of the Python model as their signers write them, possibly edited in what the signature
\* does not cover, with no payload type that is empty or null.
VectorRows == {row \in Rows : row.type \notin {"empty", "null"}}

\* Every port reads the type of such a row as from_dict does.
LEMMA TypeAlike ==
  ASSUME NEW row \in VectorRows, NEW l \in Langs
  PROVE  /\ TypeIn(l, Wire(row)) = FromDict(row).type
         /\ FromDict(row) = [row EXCEPT !.type = FromDict(row).type]
<1>1. row.type \in Defaulted(l) <=> row.type = "absent"
  BY DEF VectorRows, Defaulted, Langs
<1>2. Wire(row).type = row.type /\ row \in Rows
  BY DEF Wire, VectorRows, Rows
<1> QED
  BY <1>1, <1>2 DEF TypeIn, FromDict, Rows

\* canonical_json of a statement is a document that all read, and no other statement's.
LEMMA WrittenRead ==
  /\ \A body \in Bodies : Written(body) \in WireBodies
  /\ \A body \in Bodies : Written(body) = Junk <=> body = Junk
  /\ \A s \in Statements, l \in Langs :
       StatementIn(l, Written(s)) = s /\ Decodes(l, Written(s))
  /\ \A b, c \in Bodies : Written(b) = Written(c) => b = c
<1>1. \A s \in Statements : s # Junk /\ Written(s) = [readers |-> Langs, exact |-> s, folded |-> s]
  BY BytesAssumption DEF Written
<1>2. \A s \in Statements : Written(s) \in Documents
  BY <1>1 DEF Documents
<1>3. Junk \notin Documents /\ Written(Junk) = Junk
  BY WireAssumption DEF Written
<1>4. \A s \in Statements : Written(s).exact = s /\ Written(s).folded = s
                            /\ Written(s).readers = Langs
  BY <1>1
<1> QED
  BY <1>1, <1>2, <1>3, <1>4 DEF Bodies, WireBodies, StatementIn, Decodes

\* The wire form of a signature covers what the signature covers.
LEMMA SignatureOnWire ==
  ASSUME NEW sig \in Signatures \cup {Junk}, NEW pem \in Pems, NEW body \in Bodies,
         NEW bytes, bytes = IF sig = Junk THEN Junk
                            ELSE SignatureBy(sig.pem, sig.type, Written(sig.body))
  PROVE  bytes = SignatureBy(pem, VerdictType, Written(body))
           <=> sig = SignatureBy(pem, VerdictType, body)
<1>1. CASE sig = Junk
  <2>1. SignatureBy(pem, VerdictType, Written(body)) \in WireSignatures
    BY WrittenRead DEF SignatureBy, WireSignatures, VerdictType
  <2>2. SignatureBy(pem, VerdictType, body) \in Signatures
    BY DEF SignatureBy, Signatures, VerdictType
  <2> QED
    BY <1>1, <2>1, <2>2, WireAssumption, BytesAssumption
<1>2. CASE sig # Junk
  <2>1. sig \in Signatures /\ sig.body \in Bodies
    BY <1>2 DEF Signatures
  <2>2. sig = SignatureBy(pem, VerdictType, body)
          <=> sig.pem = pem /\ sig.type = VerdictType /\ sig.body = body
    BY <2>1 DEF SignatureBy, Signatures
  <2>3. bytes = SignatureBy(pem, VerdictType, Written(body))
          <=> sig.pem = pem /\ sig.type = VerdictType /\ Written(sig.body) = Written(body)
    BY <1>2 DEF SignatureBy
  <2> QED
    BY <2>1, <2>2, <2>3, WrittenRead
<1> QED
  BY <1>1, <1>2

\* What the wire form holds.
LEMMA WireFields ==
  ASSUME NEW row \in VectorRows
  PROVE  /\ Wire(row).organ = row.organ /\ Wire(row).keyid = row.keyid
         /\ Wire(row).payload = NoBytes <=> row.payload = NoBytes
         /\ Wire(row).signature = NoBytes <=> row.signature = NoBytes
         /\ row.payload # NoBytes =>
              /\ row.payload \in Bodies
              /\ \A l \in Langs : Decodes(l, Wire(row).payload)
              /\ Wire(row).payload.bytes = Written(row.payload)
         /\ row.signature # NoBytes =>
              /\ row.signature \in Signatures \cup {Junk}
              /\ \A l \in Langs : Decodes(l, Wire(row).signature)
              /\ Wire(row).signature.bytes =
                   IF row.signature = Junk THEN Junk
                   ELSE SignatureBy(row.signature.pem, row.signature.type,
                                    Written(row.signature.body))
<1> DEFINE sig == IF row.signature = Junk THEN Junk
                  ELSE SignatureBy(row.signature.pem, row.signature.type,
                                   Written(row.signature.body))
<1>1. row \in Rows
  BY DEF VectorRows
<1>2. /\ Wire(row).organ = row.organ /\ Wire(row).keyid = row.keyid
      /\ Wire(row).payload = IF row.payload = NoBytes THEN NoBytes
                             ELSE Text(Written(row.payload))
      /\ Wire(row).signature = IF row.signature = NoBytes THEN NoBytes
                               ELSE IF row.signature = Junk THEN Text(Junk) ELSE Text(sig)
  BY <1>1 DEF Wire, Rows
<1>3. row.payload # NoBytes => row.payload \in Bodies
  BY <1>1 DEF Rows
<1>4. row.signature # NoBytes => row.signature \in Signatures \cup {Junk}
  BY <1>1 DEF Rows
<1>5. \A bytes : /\ Text(bytes).bytes = bytes
                 /\ \A l \in Langs : Decodes(l, Text(bytes))
  BY DEF Text, Decodes
<1>6. \A S, bytes : bytes \in S => Text(bytes) \in Texts(S)
  BY DEF Text, Texts
<1>7. row.payload # NoBytes => Text(Written(row.payload)) # NoBytes
  BY <1>3, <1>6, WrittenRead, WireAssumption
<1>8. row.signature # NoBytes => sig \in WireSignatures \cup {Junk}
  <2>1. row.signature \in Signatures =>
          /\ row.signature.pem \in Pems /\ row.signature.type \in {VerdictType, "other"}
          /\ Written(row.signature.body) \in WireBodies
    BY WrittenRead DEF Signatures
  <2> QED
    BY <1>4, <2>1 DEF SignatureBy, WireSignatures
<1>9. row.signature # NoBytes => Text(sig) # NoBytes /\ Text(Junk) # NoBytes
  BY <1>6, <1>8, WireAssumption
<1> QED
  BY <1>2, <1>3, <1>4, <1>5, <1>7, <1>9

\* And it is a row that the ports can be given.
LEMMA WireTyped ==
  ASSUME NEW row \in VectorRows
  PROVE  Wire(row) \in WireRows
<1>1. row \in Rows
  BY DEF VectorRows
<1>2. \A S, bytes : bytes \in S => Text(bytes) \in Texts(S)
  BY DEF Text, Texts
<1>3. row.payload # NoBytes => Text(Written(row.payload)) \in Texts(WireBodies)
  BY <1>1, <1>2, WrittenRead DEF Rows
<1>4. row.signature \in Signatures =>
        SignatureBy(row.signature.pem, row.signature.type, Written(row.signature.body))
          \in WireSignatures
  <2>1. row.signature \in Signatures =>
          /\ row.signature.pem \in Pems /\ row.signature.type \in {VerdictType, "other"}
          /\ Written(row.signature.body) \in WireBodies
    BY WrittenRead DEF Signatures
  <2> QED
    BY <2>1 DEF SignatureBy, WireSignatures
<1> QED
  BY <1>1, <1>2, <1>3, <1>4 DEF Wire, Rows, WireRows

\* On such a row every port's verify is the verify_verdict of the Python model.
LEMMA VerifyAlike ==
  ASSUME NEW row \in VectorRows, NEW l \in Langs, NEW action,
         NEW pem \in Pems \cup {NoPem, BadPem}
  PROVE  VerifyIn(l, Wire(row), pem, action) = VerifyVerdict(FromDict(row), pem, action)
<1> DEFINE w == Wire(row)  v == FromDict(row)
<1>1. /\ v.organ = row.organ /\ v.keyid = row.keyid /\ v.payload = row.payload
      /\ v.signature = row.signature /\ v.type = TypeIn(l, w)
  BY TypeAlike DEF FromDict, VectorRows, Rows
<1>2. pem \in KeysOf(l) <=> pem \in Pems
  BY WireAssumption DEF KeysOf
<1>3. ASSUME row.payload # NoBytes, row.signature # NoBytes, pem \in Pems
      PROVE  w.signature.bytes = SignatureBy(pem, VerdictType, w.payload.bytes)
               <=> v.signature = SignatureBy(pem, VerdictType, v.payload)
  BY <1>1, <1>3, WireFields, SignatureOnWire
<1>4. ASSUME row.payload \notin {NoBytes, Junk}
      PROVE  StatementIn(l, w.payload.bytes) = v.payload /\ Decodes(l, w.payload.bytes)
  BY <1>1, <1>4, WireFields, WrittenRead DEF Bodies
<1>5. /\ w.organ = row.organ /\ w.keyid = row.keyid
      /\ w.payload = NoBytes <=> row.payload = NoBytes
      /\ w.signature = NoBytes <=> row.signature = NoBytes
      /\ row.payload # NoBytes =>
           Decodes(l, w.payload) /\ (w.payload.bytes = Junk <=> row.payload = Junk)
      /\ row.signature # NoBytes => Decodes(l, w.signature)
  BY WireFields, WrittenRead
<1> HIDE DEF w, v
<1>6. RefusalIn(l, w, pem) = Refusal(v, pem)
  <2>1. CASE NoBytes \in {row.payload, row.signature}
    BY <1>1, <1>5, <2>1 DEF RefusalIn, Refusal
  <2>2. CASE NoBytes \notin {row.payload, row.signature}
    <3>1. CASE v.type # VerdictType
      BY <1>1, <1>5, <2>2, <3>1 DEF RefusalIn, Refusal
    <3>2. CASE v.type = VerdictType /\ pem \notin Pems
      BY <1>1, <1>2, <1>5, <2>2, <3>2 DEF RefusalIn, Refusal
    <3>3. CASE v.type = VerdictType /\ pem \in Pems
      <4>1. w.signature.bytes = SignatureBy(pem, TypeIn(l, w), w.payload.bytes)
              <=> v.signature = SignatureBy(pem, v.type, v.payload)
        BY <1>1, <1>3, <2>2, <3>3
      <4>2. CASE row.payload = Junk
        BY <1>1, <1>2, <1>5, <2>2, <3>3, <4>1, <4>2 DEF RefusalIn, Refusal
      <4>3. CASE row.payload # Junk
        BY <1>1, <1>2, <1>4, <1>5, <2>2, <3>3, <4>1, <4>3 DEF RefusalIn, Refusal
      <4> QED
        BY <4>2, <4>3
    <3> QED
      BY <3>1, <3>2, <3>3
  <2> QED
    BY <2>1, <2>2
<1>7. Refusal(v, pem) = "" => row.payload \notin {NoBytes, Junk}
  BY <1>1 DEF Refusal
<1>8. VerifyIn(l, w, pem, action) = VerifyVerdict(v, pem, action)
  BY <1>1, <1>4, <1>5, <1>6, <1>7 DEF VerifyIn, VerifyVerdict
<1> QED
  BY <1>8 DEF w, v

\* A row as signed, and the keys: every port finds the same reason to turn it down, in whatever
\* order it looks, and reads the same statement.
LEMMA VerifiedAlike ==
  ASSUME NEW item \in WireRows, AsSigned(item), NEW pem, pem \notin OtherPems, NEW action,
         NEW l \in Langs, NEW m \in Langs
  PROVE  VerifyIn(l, item, pem, action) = VerifyIn(m, item, pem, action)
<1>1. /\ item # Abstain
      /\ item.payload # NoBytes => item.payload.readers = Langs
      /\ item.signature # NoBytes => item.signature.readers = Langs
      /\ item.type \notin {"empty", "null"}
  BY WireAssumption DEF AsSigned
<1>2. item.payload # NoBytes /\ item.payload.bytes # Junk =>
        item.payload.bytes.readers = Langs /\ item.payload.bytes.exact = item.payload.bytes.folded
  BY <1>1 DEF AsSigned
<1>3. TypeIn(l, item) = TypeIn(m, item)
  <2>1. \A k \in Langs : item.type \in Defaulted(k) <=> item.type = "absent"
    BY <1>1 DEF Defaulted, Langs
  <2> QED
    BY <2>1 DEF TypeIn
<1>4. \A k \in Langs : pem \in KeysOf(k) <=> pem \in Pems
  BY DEF KeysOf
<1>5. \A k \in Langs :
        /\ item.payload # NoBytes => Decodes(k, item.payload)
        /\ item.signature # NoBytes => Decodes(k, item.signature)
        /\ item.payload # NoBytes /\ item.payload.bytes # Junk =>
             /\ Decodes(k, item.payload.bytes)
             /\ StatementIn(k, item.payload.bytes) = item.payload.bytes.exact
  BY <1>1, <1>2 DEF Decodes, StatementIn
<1>6. RefusalIn(l, item, pem) = RefusalIn(m, item, pem)
  <2>1. CASE NoBytes \in {item.payload, item.signature}
    BY <2>1 DEF RefusalIn
  <2>2. CASE NoBytes \notin {item.payload, item.signature}
    <3>1. CASE item.payload.bytes = Junk
      BY <1>3, <1>4, <1>5, <2>2, <3>1 DEF RefusalIn
    <3>2. CASE item.payload.bytes # Junk
      BY <1>3, <1>4, <1>5, <2>2, <3>2 DEF RefusalIn
    <3> QED
      BY <3>1, <3>2
  <2> QED
    BY <2>1, <2>2
<1>7. RefusalIn(l, item, pem) = "" => item.payload # NoBytes /\ item.payload.bytes # Junk
  BY DEF RefusalIn
<1> QED
  BY <1>5, <1>6, <1>7 DEF VerifyIn

\* What a port records of such a row is the same judgement, whatever the wording it gives a
\* refusal: Go passes an empty key on to verification, at which the others stop.
LEMMA RecordedAlike ==
  ASSUME NEW item \in WireRows \cup {Abstain}, AsSigned(item),
         PubkeyOf(call.pubkeys, item.organ) \notin OtherPems,
         NEW already, NEW l \in Langs, NEW m \in Langs
  PROVE  /\ Judgement(RecordedBy(l, item, already)) = Judgement(RecordedBy(m, item, already))
         /\ RecordedBy(l, item, already).counts = RecordedBy(m, item, already).counts
<1> DEFINE pem == PubkeyOf(call.pubkeys, item.organ)
           chk(k) == VerifyIn(k, item, pem, call.action)
           rec(k) == RecordedBy(k, item, already)
<1>1. CASE item = Abstain
  BY <1>1 DEF RecordedBy
<1>2. CASE item # Abstain
  <2>1. item \in WireRows
    BY <1>2
  <2>2. chk(l) = chk(m)
    BY <2>1, VerifiedAlike
  <2>3. ASSUME pem = NoPem, NEW k \in Langs
        PROVE  \E r : rec(k) = NotValid(item.organ, r)
    <3>1. pem \notin KeysOf(k)
      BY <2>3, PemAssumption, WireAssumption DEF KeysOf
    <3>2. RefusalIn(k, item, pem) # ""
      BY <3>1 DEF RefusalIn
    <3>3. chk(k) = NotValid(item.organ, RefusalIn(k, item, pem)) /\ ~chk(k).counts
      BY <3>2, NotValidRecorded DEF VerifyIn
    <3>4. rec(k) = NotValid(item.organ, "no public key") \/ rec(k) = chk(k)
      BY <1>2, <3>3 DEF RecordedBy
    <3> QED
      BY <3>3, <3>4
  <2>4. ASSUME pem # NoPem, NEW k \in Langs
        PROVE  rec(k) = IF chk(k).counts /\ item.organ \in already
                        THEN [chk(k) EXCEPT !.counts = FALSE,
                                            !.reason = "duplicate-witness (already counted)"]
                        ELSE chk(k)
    <3>1. ~NoKeyIn(k, call.pubkeys, item.organ)
      BY <2>4 DEF NoKeyIn, PubkeyOf
    <3> QED
      BY <1>2, <3>1 DEF RecordedBy
  <2> HIDE DEF pem, chk, rec
  <2>5. CASE pem = NoPem
    <3>1. PICK r, s : rec(l) = NotValid(item.organ, r) /\ rec(m) = NotValid(item.organ, s)
      BY <2>3, <2>5
    <3>2. Judgement(rec(l)) = Judgement(rec(m))
      BY <3>1, NotValidRecorded
    <3>3. rec(l).counts = rec(m).counts
      BY <3>1 DEF NotValid
    <3> QED
      BY <3>2, <3>3 DEF rec
  <2>6. CASE pem # NoPem
    <3>1. rec(l) = rec(m)
      BY <2>2, <2>4, <2>6
    <3> QED
      BY <3>1 DEF rec
  <2> QED
    BY <2>5, <2>6
<1> QED
  BY <1>1, <1>2

\* The ports are in step: whatever one keeps, all keep.
InStep ==
  \A l, m \in Langs :
    /\ counted[l] = counted[m] /\ count[l] = count[m] /\ decision[l] = decision[m]
    /\ Len(checks[l]) = Len(checks[m])
    /\ \A i \in 1..Len(checks[l]) : Judgement(checks[l][i]) = Judgement(checks[m][i])

InStepOnSigned == AsSignedUpTo(pos) => InStep

\* The row that all handle keeps them in step.
LEMMA HandledInStep ==
  ASSUME Counts \subseteq Int, AllPortsCount, InStep, HandleRow, AsSignedUpTo(pos)'
  PROVE  InStep'
<1> DEFINE item == call.verdicts[pos + 1]
           chk(l) == RecordedBy(l, item, counted[l])
<1>1. item \in RowPool /\ call \in Calls
  BY PortsCallTyped, ElementOfSeq DEF AllPortsCount, HandleRow
<1>6. /\ item \in WireRows \cup {Abstain} /\ AsSigned(item)
      /\ PubkeyOf(call.pubkeys, item.organ) \notin OtherPems
  <2>1. pos + 1 \in 1..pos' /\ call' = call
    BY PortsCallTyped DEF AllPortsCount, HandleRow
  <2>2. AsSigned(item) /\ \A o \in DOMAIN call.pubkeys : call.pubkeys[o] \notin OtherPems
    BY <2>1 DEF AsSignedUpTo, AsSigned
  <2>3. NoPem \notin OtherPems
    BY WireAssumption
  <2> QED
    BY <1>1, <2>2, <2>3, LanguagesAssumption DEF PubkeyOf
<1>2. ASSUME NEW l \in Langs, NEW m \in Langs
      PROVE  Judgement(chk(l)) = Judgement(chk(m)) /\ chk(l).counts = chk(m).counts
  <2>1. counted[l] = counted[m]
    BY DEF InStep
  <2> QED
    BY <1>6, <2>1, RecordedAlike
<1>3. /\ counted' = [l \in Langs |-> IF chk(l).counts THEN counted[l] \cup {item.organ}
                                           ELSE counted[l]]
      /\ count' = [l \in Langs |-> IF chk(l).counts THEN count[l] + 1 ELSE count[l]]
      /\ decision' = decision
  BY <1>1, AllHandle DEF HandleRow
<1>4. \A l \in Langs :
        /\ Len(checks'[l]) = Len(checks[l]) + 1 /\ Len(checks[l]) \in Nat
        /\ \A i \in 1..Len(checks[l]) : checks'[l][i] = checks[l][i]
        /\ checks'[l][Len(checks[l]) + 1] = chk(l)
  BY <1>1, HandledChecks
<1> HIDE DEF item, chk
<1>5. ASSUME NEW l \in Langs, NEW m \in Langs
      PROVE  /\ counted'[l] = counted'[m] /\ count'[l] = count'[m] /\ decision'[l] = decision'[m]
             /\ Len(checks'[l]) = Len(checks'[m])
             /\ \A i \in 1..Len(checks'[l]) :
                  Judgement(checks'[l][i]) = Judgement(checks'[m][i])
  <2>1. /\ counted[l] = counted[m] /\ count[l] = count[m] /\ decision[l] = decision[m]
        /\ Len(checks[l]) = Len(checks[m])
        /\ \A i \in 1..Len(checks[l]) : Judgement(checks[l][i]) = Judgement(checks[m][i])
    BY DEF InStep
  <2>2. counted'[l] = counted'[m] /\ count'[l] = count'[m] /\ decision'[l] = decision'[m]
    BY <1>2, <1>3, <2>1
  <2>3. Len(checks'[l]) = Len(checks'[m])
    BY <1>4, <2>1
  <2>4. ASSUME NEW i \in 1..Len(checks'[l])
        PROVE  Judgement(checks'[l][i]) = Judgement(checks'[m][i])
    <3>1. CASE i \in 1..Len(checks[l])
      <4>1. checks'[l][i] = checks[l][i] /\ checks'[m][i] = checks[m][i]
        BY <1>4, <2>1, <3>1
      <4> QED
        BY <2>1, <3>1, <4>1
    <3>2. CASE i = Len(checks[l]) + 1
      <4>1. checks'[l][i] = chk(l) /\ checks'[m][i] = chk(m)
        BY <1>4, <2>1, <3>2
      <4> QED
        BY <1>2, <4>1
    <3> QED
      BY <1>4, <3>1, <3>2
  <2> QED
    BY <2>2, <2>3, <2>4
<1> QED
  BY <1>5 DEF InStep, Judgement

\* And so does every other step.
LEMMA PortsInStep ==
  ASSUME Counts \subseteq Int
  PROVE  PortsSpec => [](AllPortsCount /\ InStepOnSigned)
<1>1. PortsInit => InStepOnSigned
  BY DEF PortsInit, InStep, InStepOnSigned
<1>2. AllPortsCount /\ InStepOnSigned /\ [PortsNext]_portVars => InStepOnSigned'
  <2> SUFFICES ASSUME AllPortsCount, InStepOnSigned, [PortsNext]_portVars, AsSignedUpTo(pos)'
               PROVE  InStep'
    BY DEF InStepOnSigned
  <2>1. AsSignedUpTo(pos)
    <3>1. call' = call /\ pos \in Nat /\ (pos' = pos \/ pos' = pos + 1)
      BY PortsCallTyped DEF AllPortsCount, PortsNext, RejectCounts, HandleRow, Decide,
                            PortsDone, portVars
    <3>2. 1..pos \subseteq 1..pos'
      BY <3>1
    <3> QED
      BY <3>1, <3>2 DEF AsSignedUpTo, AsSigned
  <2>2. InStep
    BY <2>1 DEF InStepOnSigned
  <2>3. ASSUME NEW l \in Langs, NEW m \in Langs
        PROVE  /\ CountsAccepted(l, call.threshold, call.n)
                    <=> CountsAccepted(m, call.threshold, call.n)
               /\ Running(l) <=> Running(m)
    BY <2>2, PortsCallTyped, CountsAlike DEF AllPortsCount, InStep, Running
  <2>4. CASE RejectCounts
    BY <2>2, <2>3, <2>4 DEF RejectCounts, InStep, Judgement
  <2>5. CASE HandleRow
    BY <2>2, <2>5, HandledInStep
  <2>6. CASE Decide
    BY <2>2, <2>3, <2>6 DEF Decide, InStep, Judgement
  <2>7. CASE UNCHANGED portVars
    BY <2>2, <2>7 DEF portVars, InStep, Judgement
  <2> QED
    BY <2>4, <2>5, <2>6, <2>7 DEF PortsNext, PortsDone
<1> QED
  BY <1>1, <1>2, PortsCounting, PTL DEF PortsSpec

\* As long as the rows are as signed, the Python, Go and TypeScript tallies record the same
\* judgements of them and count the same organs, whatever else the list holds behind them, and
\* on a list of such rows they decide alike.
THEOREM PortsMirror ==
  ASSUME Counts \subseteq Int
  PROVE  PortsSpec => []SignedRowsMirror
<1>1. AllPortsCount /\ InStepOnSigned => SignedRowsMirror
  <2> SUFFICES ASSUME AllPortsCount, InStep PROVE TalliesMirror
    BY DEF SignedRowsMirror, InStepOnSigned
  <2>1. \A l \in Langs : DOMAIN checks[l] = 1..Len(checks[l])
    BY LenProperties DEF AllPortsCount
  <2> QED
    BY <2>1 DEF InStep, TalliesMirror
<1> QED
  BY <1>1, PortsInStep, PTL

\* What signVerdict puts on the wire is such a row.
LEMMA WireAsSigned ==
  ASSUME NEW row \in VectorRows
  PROVE  AsSigned(Wire(row))
<1>1. row \in Rows /\ Wire(row).type = row.type
  BY DEF VectorRows, Wire, Rows
<1>2. row.type \notin {"empty", "null"}
  BY DEF VectorRows
<1>3. \A text \in {Wire(row).payload, Wire(row).signature} \ {NoBytes} : text.readers = Langs
  BY <1>1 DEF Wire, Rows, Text
<1>4. Wire(row).payload # NoBytes =>
        LET doc == Wire(row).payload.bytes
        IN  doc = Junk \/ (doc.readers = Langs /\ doc.exact = doc.folded)
  <2>1. Wire(row).payload # NoBytes => Wire(row).payload.bytes = Written(row.payload)
    BY WireFields
  <2>2. \A body : LET doc == Written(body)
                  IN  doc = Junk \/ (doc.readers = Langs /\ doc.exact = doc.folded)
    BY DEF Written
  <2> QED
    BY <2>1, <2>2
<1> QED
  BY <1>1, <1>2, <1>3, <1>4 DEF AsSigned

\* On the wire, what the signers wrote supports an organ in a port exactly when it does in the
\* Python model.
LEMMA SupportsOnWire ==
  ASSUME NEW row \in VectorRows, NEW l \in Langs, NEW o \in OrganNames,
         call.pubkeys \in PubkeyMaps, call.action \in Actions
  PROVE  SupportsIn(l, Wire(row), o) <=> Supports(row, o, call.pubkeys, call.action)
<1> DEFINE pem == PubkeyOf(call.pubkeys, row.organ)
<1>1. Wire(row) \in WireRows
  BY WireTyped
<1>2. Wire(row).organ = row.organ /\ row \in Rows /\ row.organ \in OrganNames
  BY WireFields DEF VectorRows, Rows
<1>3. pem \in Pems \cup {NoPem, BadPem}
  BY DEF PubkeyMaps, PubkeyOf
<1>4. VerifyIn(l, Wire(row), pem, call.action).counts <=> SupportsIn(l, Wire(row), row.organ)
  BY <1>1, <1>2, CountsIffSupportsIn
<1>5. VerifyVerdict(FromDict(row), pem, call.action).counts
        <=> Supports(row, row.organ, call.pubkeys, call.action)
  BY <1>2, CountsIffSupports
<1>6. SupportsIn(l, Wire(row), row.organ) <=> Supports(row, row.organ, call.pubkeys, call.action)
  BY <1>3, <1>4, <1>5, VerifyAlike
<1>7. (SupportsIn(l, Wire(row), o) => o = row.organ)
      /\ (Supports(row, o, call.pubkeys, call.action) => o = row.organ)
  BY <1>2 DEF SupportsIn, Supports
<1> QED
  BY <1>6, <1>7

\* A list of verdicts of the Python model, as the ports are given it.
VectorItems == VectorRows \cup {Abstain}

OnWire(rows) ==
  [i \in DOMAIN rows |-> IF rows[i] = Abstain THEN Abstain ELSE Wire(rows[i])]

\* On such a list every port ends with the decision of the Python model's quorum rule,
\* TallyOutcome, which the tally loop implements.
DecidedByQuorum ==
  \A l \in Langs, rows \in Seq(VectorItems) :
    decision[l] # "none" /\ call.verdicts = OnWire(rows) /\ call.pubkeys \in PubkeyMaps
      => decision[l] = TallyOutcome(call.action, rows, call.pubkeys,
                                    call.threshold, call.n).decision

\* The ports do not only agree, they are right: each implements the same quorum rule.
THEOREM PortsDecideByQuorum ==
  ASSUME Counts \subseteq Int
  PROVE  PortsSpec => []DecidedByQuorum
<1>1. ASSUME AllPortsCount
      PROVE  DecidedByQuorum
  <2> SUFFICES ASSUME NEW l \in Langs, NEW rows \in Seq(VectorItems), decision[l] # "none",
                      call.verdicts = OnWire(rows), call.pubkeys \in PubkeyMaps
               PROVE  decision[l] = TallyOutcome(call.action, rows, call.pubkeys,
                                                 call.threshold, call.n).decision
    BY DEF DecidedByQuorum
  <2>1. PortCounts(l) /\ call.verdicts \in Seq(RowPool) /\ call.action \in Actions
    BY <1>1, PortsCallTyped DEF AllPortsCount, Calls
  <2>2. CASE ValidQuorumCounts(call.threshold, call.n)
    <3>1. pos = Len(call.verdicts) /\ DOMAIN call.verdicts = 1..pos
      BY <2>1, <2>2, LenProperties DEF PortCounts
    <3>2. DOMAIN rows = 1..pos
      BY <3>1 DEF OnWire
    <3>3. ASSUME NEW i \in 1..pos, NEW o \in OrganNames
          PROVE  SupportsIn(l, call.verdicts[i], o)
                   <=> Supports(rows[i], o, call.pubkeys, call.action)
      <4>1. call.verdicts[i] = IF rows[i] = Abstain THEN Abstain ELSE Wire(rows[i])
        BY <3>2 DEF OnWire
      <4>2. CASE rows[i] = Abstain
        BY <4>1, <4>2 DEF SupportsIn, Supports
      <4>3. CASE rows[i] # Abstain
        <5>1. rows[i] \in VectorItems
          BY <3>2, LenProperties, ElementOfSeq
        <5>2. rows[i] \in VectorRows
          BY <4>3, <5>1 DEF VectorItems
        <5> QED
          BY <2>1, <4>1, <4>3, <5>2, SupportsOnWire
      <4> QED
        BY <4>2, <4>3
    <3>4. counted[l] = AllowingWitnesses(call.action, rows, call.pubkeys)
      BY <2>1, <3>2, <3>3 DEF PortCounts, SupportedIn, AllowingWitnesses
    <3> QED
      BY <2>1, <2>2, <3>4 DEF PortCounts, TallyOutcome
  <2>3. CASE ~ValidQuorumCounts(call.threshold, call.n)
    BY <2>1, <2>3 DEF PortCounts, TallyOutcome
  <2> QED
    BY <2>2, <2>3
<1> QED
  BY <1>1, PortsCounting, PTL

-----------------------------------------------------------------------------
(* The tallies of the harness, for every list of rows.                      *)

\* The organs with a counting row.
CountingOrgans(rows) == {rows[i].organ : i \in CountingRows(rows)}

\* A row counts for the oracle and the two simple tallies exactly when it supports the organ
\* it names.
LEMMA RowCountsIffSupports ==
  ASSUME NEW item \in Items
  PROVE  RowCounts(item) <=> item # Abstain /\ Supports(item, item.organ, Keys, ActionA)
<1>1. CASE item = Abstain
  BY <1>1 DEF RowCounts
<1>2. CASE item # Abstain
  <2>1. item \in Rows /\ item.organ \in OrganNames /\ ActionA \in Actions
    BY <1>2, HarnessAssumption DEF Items, Rows
  <2>2. VerifyVerdict(FromDict(item), PubkeyOf(Keys, item.organ), ActionA).counts
          <=> Supports(item, item.organ, Keys, ActionA)
    BY <2>1, CountsIffSupports
  <2>3. Supports(item, item.organ, Keys, ActionA) => PubkeyOf(Keys, item.organ) # NoPem
    BY PemAssumption DEF Supports
  <2> QED
    BY <1>2, <2>2, <2>3 DEF RowCounts
<1> QED
  BY <1>1, <1>2

\* The witnesses that tally counts are the organs with a counting row.
LEMMA AllowingAreCounting ==
  ASSUME NEW rows \in Seq(Items)
  PROVE  /\ AllowingWitnesses(ActionA, rows, Keys) = CountingOrgans(rows)
         /\ IsFiniteSet(CountingOrgans(rows)) /\ IsFiniteSet(CountingRows(rows))
         /\ CountingOrgans(rows) \subseteq OrganNames
         /\ CountingRows(rows) \subseteq 1..Len(rows)
<1>1. DOMAIN rows = 1..Len(rows) /\ Len(rows) \in Nat
  BY LenProperties
<1>2. \A i \in DOMAIN rows : rows[i] \in Items
  BY <1>1, ElementOfSeq
<1>3. ASSUME NEW i \in DOMAIN rows, NEW o \in OrganNames
      PROVE  Supports(rows[i], o, Keys, ActionA) <=> RowCounts(rows[i]) /\ rows[i].organ = o
  <2>1. RowCounts(rows[i])
          <=> rows[i] # Abstain /\ Supports(rows[i], rows[i].organ, Keys, ActionA)
    BY <1>2, RowCountsIffSupports
  <2>2. Supports(rows[i], o, Keys, ActionA) => rows[i] # Abstain /\ rows[i].organ = o
    BY DEF Supports
  <2> QED
    BY <2>1, <2>2
<1>4. \A i \in CountingRows(rows) : i \in DOMAIN rows /\ rows[i].organ \in OrganNames
  BY <1>2 DEF CountingRows, RowCounts, Items, Rows
<1>5. AllowingWitnesses(ActionA, rows, Keys) = CountingOrgans(rows)
  BY <1>3, <1>4 DEF AllowingWitnesses, CountingOrgans, CountingRows
<1>6. CountingRows(rows) \subseteq 1..Len(rows)
  BY <1>1, <1>4
<1>7. IsFiniteSet(1..Len(rows))
  BY <1>1, FS_Interval
<1>8. IsFiniteSet(CountingRows(rows))
  BY <1>6, <1>7, FS_Subset
<1>9. IsFiniteSet(CountingOrgans(rows))
  <2> DEFINE f == [i \in CountingRows(rows) |-> rows[i].organ]
  <2>1. f \in Surjection(CountingRows(rows), CountingOrgans(rows))
    BY DEF Surjection, CountingOrgans
  <2> HIDE DEF f
  <2> QED
    BY <1>8, <2>1, FS_Surjection
<1> QED
  BY <1>4, <1>5, <1>6, <1>8, <1>9 DEF CountingOrgans

\* distinct_witness_tally counts the organs that honest_allow_count finds, whatever the rows,
\* their order and their number.
LEMMA DistinctCountIsExact ==
  ASSUME NEW rows \in Seq(Items)
  PROVE  DistinctCount(rows) = Cardinality(CountingOrgans(rows))
<1> DEFINE n == Len(rows)
           C(k) == {rows[i].organ : i \in {j \in 1..k : RowCounts(rows[j])}}
           exact == [k \in 0..n |-> [counted |-> C(k), count |-> Cardinality(C(k))]]
           sum == CHOOSE f : f = [i \in 0..n |-> IF i = 0 THEN [counted |-> {}, count |-> 0]
                                                 ELSE CountItem(f[i - 1], rows[i])]
<1>1. n \in Nat /\ DOMAIN rows = 1..n
  BY LenProperties
<1>2. DistinctCount(rows) = sum[n].count
  BY DEF DistinctCount
<1>3. C(n) = CountingOrgans(rows)
  BY <1>1 DEF CountingOrgans, CountingRows
<1>4. \A k \in 0..n : IsFiniteSet(C(k)) /\ Cardinality(C(k)) \in Nat
  <2> TAKE k \in 0..n
  <2>1. C(k) \subseteq CountingOrgans(rows)
    BY <1>1 DEF CountingOrgans, CountingRows
  <2> HIDE DEF C
  <2> QED
    BY <2>1, AllowingAreCounting, FS_Subset, FS_CardinalityType
<1>5. C(0) = {} /\ Cardinality(C(0)) = 0
  <2>1. C(0) = {}
    OBVIOUS
  <2> QED
    BY <2>1, FS_EmptySet
<1>6. ASSUME NEW k \in 1..n
      PROVE  C(k) = IF RowCounts(rows[k]) THEN C(k - 1) \cup {rows[k].organ} ELSE C(k - 1)
  BY <1>1
<1> HIDE DEF C, n
<1>7. ASSUME NEW k \in 1..n
      PROVE  CountItem(exact[k - 1], rows[k]) = exact[k]
  <2>1. k - 1 \in 0..n /\ k \in 0..n
    BY <1>1
  <2>2. exact[k - 1].counted = C(k - 1) /\ exact[k - 1].count = Cardinality(C(k - 1))
        /\ exact[k] = [counted |-> C(k), count |-> Cardinality(C(k))]
        /\ exact[k - 1] = [counted |-> C(k - 1), count |-> Cardinality(C(k - 1))]
    BY <2>1
  <2> HIDE DEF exact
  <2>3. CASE ~RowCounts(rows[k]) \/ rows[k].organ \in C(k - 1)
    <3>1. C(k) = C(k - 1)
      BY <1>6, <2>3
    <3> QED
      BY <2>2, <2>3, <3>1 DEF CountItem
  <2>4. CASE RowCounts(rows[k]) /\ rows[k].organ \notin C(k - 1)
    <3>1. C(k) = C(k - 1) \cup {rows[k].organ}
      BY <1>6, <2>4
    <3>2. Cardinality(C(k)) = Cardinality(C(k - 1)) + 1
      BY <1>4, <2>1, <2>4, <3>1, FS_AddElement
    <3> QED
      BY <2>2, <2>4, <3>1, <3>2 DEF CountItem
  <2> QED
    BY <2>3, <2>4
<1>8. exact = [i \in 0..n |-> IF i = 0 THEN [counted |-> {}, count |-> 0]
                             ELSE CountItem(exact[i - 1], rows[i])]
  <2>1. \A i \in 0..n : exact[i] = IF i = 0 THEN [counted |-> {}, count |-> 0]
                                  ELSE CountItem(exact[i - 1], rows[i])
    <3> TAKE i \in 0..n
    <3>1. CASE i = 0
      BY <1>1, <1>5, <3>1
    <3>2. CASE i # 0
      <4>1. i \in 1..n
        BY <1>1, <3>2
      <4> HIDE DEF exact
      <4> QED
        BY <1>7, <3>2, <4>1
    <3> QED
      BY <3>1, <3>2
  <2>2. exact = [i \in 0..n |-> exact[i]]
    OBVIOUS
  <2> HIDE DEF exact
  <2> QED
    BY <2>1, <2>2
<1> HIDE DEF exact
<1>9. sum = [i \in 0..n |-> IF i = 0 THEN [counted |-> {}, count |-> 0]
                            ELSE CountItem(sum[i - 1], rows[i])]
  BY <1>8
<1> HIDE DEF sum
<1>10. \A k \in 0..n : sum[k] = exact[k]
  <2> DEFINE T == {k \in 0..n : sum[k] # exact[k]}
  <2> SUFFICES ASSUME T # {} PROVE FALSE
    OBVIOUS
  <2>1. T \subseteq Nat
    BY <1>1
  <2>2. PICK k \in T : \A y \in T : k <= y
    BY <2>1, LeastElement
  <2>3. k \in 0..n /\ sum[k] # exact[k]
    OBVIOUS
  <2>4. k # 0
    BY <1>8, <1>9, <2>3
  <2>5. k \in 1..n /\ k - 1 \in 0..n /\ ~ (k <= k - 1)
    BY <1>1, <2>3, <2>4
  <2>6. sum[k - 1] = exact[k - 1]
    BY <2>2, <2>5
  <2> QED
    BY <1>8, <1>9, <2>3, <2>4, <2>6
<1>11. n \in 0..n /\ exact[n] = [counted |-> C(n), count |-> Cardinality(C(n))]
  BY <1>1 DEF exact
<1> QED
  BY <1>2, <1>3, <1>10, <1>11

-----------------------------------------------------------------------------
(* The rows of the suite.                                                   *)

\* The organs of the suite have names and registered keys, none of them the attacker's.
LEMMA OrgansOfTheSuite ==
  ASSUME NEW o \in ToSet(OrganList)
  PROVE  /\ o \in Organs /\ o \in OrganNames /\ o # NoOrgan
         /\ PubkeyOf(Keys, o) = Keys[o] /\ Keys[o] \in Pems
         /\ AttackerPem \in Pems /\ AttackerPem # Keys[o]
<1>1. o \in Organs
  <2>1. PICK i \in DOMAIN OrganList : o = OrganList[i]
    BY DEF ToSet
  <2>2. OrganList \in Seq(Organs)
    BY HarnessAssumption
  <2>3. DOMAIN OrganList = 1..Len(OrganList)
    BY <2>2, LenProperties
  <2> QED
    BY <2>1, <2>2, <2>3, ElementOfSeq
<1> QED
  BY <1>1, HarnessAssumption, NamesAssumption DEF OrganNames, PubkeyOf

\* The organ's own allow counts for the action it names and for no other.
LEMMA AllowRow ==
  ASSUME NEW o \in ToSet(OrganList), NEW action \in {ActionA, ActionB}
  PROVE  /\ Allow(o, action) \in Items /\ Allow(o, action).organ = o
         /\ RowCounts(Allow(o, action)) <=> action = ActionA
<1> DEFINE row == Allow(o, action)
<1>1. /\ o \in Organs /\ o \in OrganNames /\ PubkeyOf(Keys, o) = Keys[o] /\ Keys[o] \in Pems
      /\ action \in Actions
  BY OrgansOfTheSuite, HarnessAssumption
<1>2. row \in Rows
  BY <1>1, SignVerdictTyped DEF Allow
<1>3. /\ row.organ = o /\ row.keyid = KeyidOf(o) /\ row.type = VerdictType
      /\ row.payload = [schema |-> Schema, organ |-> o, keyid |-> KeyidOf(o),
                        action |-> action, verdict |-> "allow"]
      /\ row.signature = SignatureBy(Keys[o], VerdictType, row.payload)
  BY DEF Allow, SignVerdict
<1>4. row.payload.action = action /\ SignedAllow(o, ActionA).action = ActionA
  BY <1>3 DEF SignedAllow
<1>5. row # Abstain
  BY <1>2, BytesAssumption
<1> HIDE DEF row
<1>6. Supports(row, o, Keys, ActionA) <=> action = ActionA
  BY <1>1, <1>3, <1>4, <1>5 DEF Supports, SignedAllow
<1>7. RowCounts(row) <=> action = ActionA
  BY <1>2, <1>3, <1>5, <1>6, RowCountsIffSupports DEF Items
<1> QED
  BY <1>2, <1>3, <1>7 DEF Items, row

\* What RowFor makes of a choice is an entry of that organ, and only a genuine allow counts.
LEMMA RowForCounts ==
  ASSUME NEW o \in ToSet(OrganList), NEW choice \in AllChoices
  PROVE  /\ RowFor(choice, o) \in Items
         /\ RowFor(choice, o) # Abstain => RowFor(choice, o).organ = o
         /\ RowCounts(RowFor(choice, o)) <=> choice = "allow"
<1> DEFINE row == RowFor(choice, o)
<1> SUFFICES /\ row \in Items
             /\ row # Abstain => row.organ = o
             /\ RowCounts(row) <=> choice = "allow"
  OBVIOUS
<1>1. /\ o \in Organs /\ o \in OrganNames /\ PubkeyOf(Keys, o) = Keys[o] /\ Keys[o] \in Pems
      /\ AttackerPem \in Pems /\ AttackerPem # Keys[o]
      /\ ActionA \in Actions /\ ActionB \in Actions /\ ActionA # ActionB
  BY OrgansOfTheSuite, HarnessAssumption
<1>2. CASE choice = "allow"
  <2>1. row = Allow(o, ActionA)
    BY <1>2 DEF RowFor
  <2> HIDE DEF row
  <2> QED
    BY <1>2, <2>1, AllowRow
<1>3. CASE choice \in {"action_mismatch", "replay"}
  <2>1. row = Allow(o, ActionB)
    BY <1>3 DEF RowFor
  <2> HIDE DEF row
  <2> QED
    BY <1>1, <1>3, <2>1, AllowRow
<1>4. CASE choice = "silent"
  <2>1. row = Abstain
    BY <1>4 DEF RowFor
  <2> HIDE DEF row
  <2> QED
    BY <1>4, <2>1 DEF Items, RowCounts
<1>5. ASSUME NEW r \in Rows, r.organ = o, ~Supports(r, o, Keys, ActionA),
             row = r, choice # "allow"
      PROVE  /\ row \in Items
             /\ row # Abstain => row.organ = o
             /\ RowCounts(row) <=> choice = "allow"
  <2> HIDE DEF row
  <2> QED
    BY <1>5, RowCountsIffSupports DEF Items
<1>6. CASE choice = "block"
  <2> DEFINE r == Block(o)
  <2>1. row = r
    BY <1>6 DEF RowFor
  <2>2. r \in Rows /\ r.organ = o /\ r.payload.verdict = "block"
    <3>1. r \in Rows
      BY <1>1, SignVerdictTyped DEF Block
    <3> QED
      BY <3>1 DEF Block, SignVerdict
  <2> HIDE DEF r, row
  <2>3. ~Supports(r, o, Keys, ActionA)
    BY <2>2 DEF Supports, SignedAllow
  <2> QED
    BY <1>5, <1>6, <2>1, <2>2, <2>3
<1>7. CASE choice = "forged"
  <2> DEFINE r == Forged(o)
             a == Allow(o, ActionA)
  <2>1. row = r
    BY <1>7 DEF RowFor
  <2>2. a \in Rows /\ a.payload \in Statements /\ a.organ = o
    <3>1. a \in Rows /\ a.payload \in Statements
      BY <1>1, SignVerdictTyped DEF Allow
    <3> QED
      BY <3>1 DEF Allow, SignVerdict
  <2>3. r = [a EXCEPT !.signature = Junk]
    BY DEF Forged
  <2> HIDE DEF r, a, row
  <2>4. r \in Rows /\ r.organ = o /\ r.signature = Junk /\ r.payload \in Statements
    BY <2>2, <2>3 DEF Rows
  <2>5. SignatureBy(Keys[o], VerdictType, r.payload) \in Signatures
    BY <1>1, <2>4 DEF SignatureBy, Signatures, Bodies
  <2>6. ~Supports(r, o, Keys, ActionA)
    BY <1>1, <2>4, <2>5, BytesAssumption DEF Supports
  <2> QED
    BY <1>5, <1>7, <2>1, <2>4, <2>6
<1>8. CASE choice = "impersonation"
  <2> DEFINE r == Impersonation(o)
  <2>1. row = r
    BY <1>8 DEF RowFor
  <2>2. r \in Rows /\ r.organ = o /\ r.signature.pem = AttackerPem
    <3>1. r \in Rows /\ r.signature.pem = AttackerPem
      BY <1>1, SignVerdictTyped DEF Impersonation
    <3> QED
      BY <3>1 DEF Impersonation, SignVerdict
  <2> HIDE DEF r, row
  <2>3. ~Supports(r, o, Keys, ActionA)
    BY <1>1, <2>2 DEF Supports, SignatureBy
  <2> QED
    BY <1>5, <1>8, <2>1, <2>2, <2>3
<1>9. CASE choice = "payload_tamper"
  <2> DEFINE b == Block(o)
             r == Tampered(b)
  <2>1. row = r
    BY <1>9 DEF RowFor
  <2>2. /\ b \in Rows /\ b.payload \in Statements /\ b.organ = o
        /\ b.signature.body = b.payload /\ b.payload.verdict = "block"
    <3>1. b \in Rows /\ b.payload \in Statements /\ b.signature.body = b.payload
      BY <1>1, SignVerdictTyped DEF Block
    <3> QED
      BY <3>1 DEF Block, SignVerdict
  <2> DEFINE changed == [b.payload EXCEPT !.verdict = "allow"]
  <2>3. r = [b EXCEPT !.payload = changed]
    BY <2>2, Zenon DEF Tampered
  <2>4. changed \in Statements
    BY <2>2 DEF Statements
  <2> HIDE DEF r, b, row, changed
  <2>5. r \in Rows /\ r.organ = o /\ r.signature = b.signature
    BY <2>2, <2>3, <2>4 DEF Rows, Bodies
  <2>6. r.signature.body.verdict = "block"
    BY <2>2, <2>5
  <2>7. ~Supports(r, o, Keys, ActionA)
    BY <2>6 DEF Supports, SignatureBy, SignedAllow
  <2> QED
    BY <1>5, <1>9, <2>1, <2>5, <2>7
<1> QED
  BY <1>2, <1>3, <1>4, <1>6, <1>7, <1>8, <1>9 DEF AllChoices

-----------------------------------------------------------------------------
(* The decisions on one list of rows.                                       *)

\* No two counting rows name the same organ.
CountingRowsDistinct(rows) ==
  \A i, j \in CountingRows(rows) : rows[i].organ = rows[j].organ => i = j

\* One counting row for each organ: the per-verdict tally counts what the oracle counts.
LEMMA DistinctRowsCount ==
  ASSUME NEW rows \in Seq(Items), CountingRowsDistinct(rows)
  PROVE  Cardinality(CountingRows(rows)) = Cardinality(CountingOrgans(rows))
<1> DEFINE f == [i \in CountingRows(rows) |-> rows[i].organ]
<1>1. IsFiniteSet(CountingRows(rows)) /\ IsFiniteSet(CountingOrgans(rows))
  BY AllowingAreCounting
<1>2. f \in Bijection(CountingRows(rows), CountingOrgans(rows))
  BY DEF CountingRowsDistinct, CountingOrgans, Bijection, Injection, Surjection, IsInjective
<1> HIDE DEF f
<1> QED
  BY <1>1, <1>2, FS_Bijection DEF ExistsBijection

\* The shipped and the hardened tally never call canonical what the oracle does not, and
\* agree under a valid quorum; without duplicates the per-verdict tally is as safe.
LEMMA DecisionsSafe ==
  ASSUME NEW rows \in Seq(Items)
  PROVE  /\ SafetyHolds(Decisions(rows).core, rows)
         /\ SafetyHolds(Decisions(rows).hardened, rows)
         /\ ValidQuorumCounts(Threshold, N) => HardenedDecision(rows) = CoreDecision(rows)
         /\ CountingRowsDistinct(rows) => SafetyHolds(Decisions(rows).naive, rows)
<1> DEFINE c == Cardinality(CountingOrgans(rows))
<1>1. c \in Nat /\ Threshold \in Int
  BY AllowingAreCounting, FS_CardinalityType, HarnessAssumption
<1>2. HonestAllowCount(rows) = c
  BY DEF HonestAllowCount, CountingOrgans
<1>3. DistinctCount(rows) = c
  BY DistinctCountIsExact
<1>4. CoreDecision(rows) = IF ValidQuorumCounts(Threshold, N) THEN DecideBy(c) ELSE "rejected"
  BY AllowingAreCounting DEF CoreDecision, TallyOutcome, DecideBy
<1>5. CountingRowsDistinct(rows) => NaiveDecision(rows) = DecideBy(c)
  BY DistinctRowsCount DEF NaiveDecision
<1>6. HardenedDecision(rows) = DecideBy(c)
  BY <1>3 DEF HardenedDecision
<1>7. /\ Decisions(rows).core = CoreDecision(rows)
      /\ Decisions(rows).hardened = HardenedDecision(rows)
      /\ Decisions(rows).naive = NaiveDecision(rows)
  BY DEF Decisions
<1>8. DecideBy(c) = "canonical" => ~(c < Threshold)
  BY <1>1 DEF DecideBy
<1> HIDE DEF c
<1> QED
  BY <1>2, <1>4, <1>5, <1>6, <1>7, <1>8 DEF SafetyHolds

-----------------------------------------------------------------------------
(* The lists of rows that the steps of a round make.                        *)

\* What adding one row to a list does to its counting rows and their organs.
LEMMA AppendRow ==
  ASSUME NEW rows \in Seq(Items), NEW row \in Items
  PROVE  LET new == Append(rows, row)
         IN  /\ new \in Seq(Items) /\ Len(new) = Len(rows) + 1 /\ Len(rows) \in Nat
             /\ new[Len(rows) + 1] = row /\ \A i \in 1..Len(rows) : new[i] = rows[i]
             /\ CountingRows(rows) \subseteq 1..Len(rows)
             /\ CountingRows(new) = CountingRows(rows)
                                      \cup (IF RowCounts(row) THEN {Len(rows) + 1} ELSE {})
             /\ CountingOrgans(new) = CountingOrgans(rows)
                                        \cup (IF RowCounts(row) THEN {row.organ} ELSE {})
<1> DEFINE new == Append(rows, row)
           n == Len(rows)
<1>1. /\ new \in Seq(Items) /\ Len(new) = n + 1 /\ n \in Nat
      /\ new[n + 1] = row /\ \A i \in 1..n : new[i] = rows[i]
  BY AppendProperties, LenProperties
<1>2. DOMAIN new = 1..(n + 1) /\ DOMAIN rows = 1..n
  BY <1>1, LenProperties
<1>3. CountingRows(rows) \subseteq 1..n
  BY AllowingAreCounting
<1> HIDE DEF new, n
<1>4. CountingRows(new) = CountingRows(rows) \cup (IF RowCounts(row) THEN {n + 1} ELSE {})
  BY <1>1, <1>2 DEF CountingRows
<1>5. CountingOrgans(new) = CountingOrgans(rows)
                              \cup (IF RowCounts(row) THEN {row.organ} ELSE {})
  BY <1>1, <1>3, <1>4 DEF CountingOrgans
<1> QED
  BY <1>1, <1>3, <1>4, <1>5 DEF new, n

\* Copies of a counting row add no organ, however many.
LEMMA CopiesAddNoOrgan ==
  ASSUME NEW rows \in Seq(Items), NEW row \in Items, NEW copies \in Nat,
         RowCounts(row) => row.organ \in CountingOrgans(rows)
  PROVE  LET new == rows \o [i \in 1..copies |-> row]
         IN  new \in Seq(Items) /\ CountingOrgans(new) = CountingOrgans(rows)
<1> DEFINE extra == [i \in 1..copies |-> row]
           new == rows \o extra
           n == Len(rows)
<1>1. extra \in Seq(Items) /\ Len(extra) = copies
  <2>1. extra \in [1..copies -> Items]
    OBVIOUS
  <2> HIDE DEF extra
  <2>2. extra \in Seq(Items)
    BY <2>1, SeqDef
  <2> QED
    BY <2>1, <2>2, LenProperties
<1>2. \A i \in 1..copies : extra[i] = row
  OBVIOUS
<1> HIDE DEF extra
<1>3. /\ new \in Seq(Items) /\ Len(new) = n + copies /\ n \in Nat
      /\ \A i \in 1..n : new[i] = rows[i]
      /\ \A i \in n + 1 .. n + copies : new[i] = row
  <2>1. new \in Seq(Items) /\ Len(new) = n + copies /\ n \in Nat
    BY <1>1, ConcatProperties, LenProperties
  <2>2. \A i \in 1..(n + copies) : new[i] = IF i <= n THEN rows[i] ELSE extra[i - n]
    BY <1>1, ConcatProperties
  <2> HIDE DEF new
  <2>3. \A i \in 1..n : new[i] = rows[i]
    BY <2>1, <2>2
  <2>4. \A i \in n + 1 .. n + copies : new[i] = row
    BY <1>2, <2>1, <2>2
  <2> QED
    BY <2>1, <2>3, <2>4
<1>4. DOMAIN new = 1..(n + copies) /\ DOMAIN rows = 1..n
  BY <1>3, LenProperties
<1> HIDE DEF new, n
<1>5. ASSUME NEW i \in CountingRows(new)
      PROVE  new[i].organ \in CountingOrgans(rows)
  <2>1. i \in 1..(n + copies) /\ RowCounts(new[i])
    BY <1>4 DEF CountingRows
  <2>2. CASE i \in 1..n
    <3>1. new[i] = rows[i]
      BY <1>3, <2>2
    <3> QED
      BY <1>4, <2>1, <2>2, <3>1 DEF CountingOrgans, CountingRows
  <2>3. CASE i \in n + 1 .. n + copies
    BY <1>3, <2>1, <2>3
  <2> QED
    BY <1>3, <2>1, <2>2, <2>3
<1>6. ASSUME NEW i \in CountingRows(rows)
      PROVE  rows[i].organ \in CountingOrgans(new)
  <2>1. i \in 1..n /\ RowCounts(rows[i]) /\ i \in 1..(n + copies)
    BY <1>3, <1>4 DEF CountingRows
  <2>2. i \in CountingRows(new) /\ new[i] = rows[i]
    BY <1>3, <1>4, <2>1 DEF CountingRows
  <2> QED
    BY <2>2 DEF CountingOrgans
<1>7. CountingOrgans(new) = CountingOrgans(rows)
  BY <1>5, <1>6 DEF CountingOrgans
<1> QED
  BY <1>3, <1>7 DEF new, extra

\* The order of the rows changes neither the organs that count nor their distinctness.
LEMMA ShuffledRows ==
  ASSUME NEW rows \in Seq(Items), NEW p \in Orders(DOMAIN rows)
  PROVE  LET new == [i \in DOMAIN rows |-> rows[p[i]]]
         IN  /\ new \in Seq(Items)
             /\ CountingOrgans(new) = CountingOrgans(rows)
             /\ CountingRowsDistinct(rows) => CountingRowsDistinct(new)
<1> DEFINE new == [i \in DOMAIN rows |-> rows[p[i]]]
<1>1. DOMAIN rows = 1..Len(rows) /\ Len(rows) \in Nat
  BY LenProperties
<1>2. p \in Bijection(DOMAIN rows, DOMAIN rows)
  BY DEF Orders
<1>3. /\ p \in [DOMAIN rows -> DOMAIN rows]
      /\ \A i \in DOMAIN rows : \E j \in DOMAIN rows : p[j] = i
      /\ \A i, j \in DOMAIN rows : p[i] = p[j] => i = j
  BY <1>2 DEF Bijection, Injection, Surjection, IsInjective
<1>4. \A i \in DOMAIN rows : new[i] = rows[p[i]] /\ p[i] \in DOMAIN rows
  BY <1>3
<1>5. new \in Seq(Items) /\ DOMAIN new = DOMAIN rows
  <2>1. new \in [1..Len(rows) -> Items]
    BY <1>1, <1>3, ElementOfSeq
  <2> HIDE DEF new
  <2> QED
    BY <1>1, <2>1, SeqDef
<1> HIDE DEF new
<1>6. CountingRows(new) = {i \in DOMAIN rows : p[i] \in CountingRows(rows)}
  BY <1>4, <1>5 DEF CountingRows
<1>7. CountingOrgans(new) = CountingOrgans(rows)
  <2>1. ASSUME NEW i \in CountingRows(rows)
        PROVE  rows[i].organ \in CountingOrgans(new)
    <3>1. PICK j \in DOMAIN rows : p[j] = i
      BY <1>3 DEF CountingRows
    <3> QED
      BY <1>4, <1>6, <3>1 DEF CountingOrgans
  <2>2. \A i \in CountingRows(new) : new[i].organ \in CountingOrgans(rows)
    BY <1>4, <1>6 DEF CountingOrgans
  <2> QED
    BY <2>1, <2>2 DEF CountingOrgans
<1>8. ASSUME CountingRowsDistinct(rows)
      PROVE  CountingRowsDistinct(new)
  <2>1. ASSUME NEW i \in CountingRows(new), NEW j \in CountingRows(new),
               new[i].organ = new[j].organ
        PROVE  i = j
    <3>1. /\ i \in DOMAIN rows /\ p[i] \in CountingRows(rows)
          /\ j \in DOMAIN rows /\ p[j] \in CountingRows(rows)
      BY <1>6
    <3>2. rows[p[i]].organ = rows[p[j]].organ
      BY <1>4, <2>1, <3>1
    <3>3. p[i] = p[j]
      BY <1>8, <3>1, <3>2 DEF CountingRowsDistinct
    <3> QED
      BY <1>3, <3>1, <3>3
  <2> QED
    BY <2>1 DEF CountingRowsDistinct
<1> QED
  BY <1>5, <1>7, <1>8 DEF new

-----------------------------------------------------------------------------
(* The inductive invariant of the harness.                                  *)

\* While the rows of a round are made, the i-th of them is the i-th organ's,
RowsInOrder ==
  phase = "rows" => /\ Len(verdicts) <= N
                    /\ \A i \in CountingRows(verdicts) : verdicts[i].organ = OrganList[i]

\* the organs that count are those that signed a genuine allow, and
\* two rows of one organ count only when copies were added.
RowsAsMade ==
  /\ verdicts \in Seq(Items)
  /\ genuine \subseteq ToSet(OrganList)
  /\ CountingOrgans(verdicts) = genuine
  /\ stuffed \in BOOLEAN
  /\ ~stuffed => CountingRowsDistinct(verdicts)

\* The counters of violations: none for the two safe tallies, and every one of the
\* per-verdict tally in a round with copies.
CountersHold ==
  /\ found = [naive |-> found.naive, core |-> 0, hardened |-> 0, withDup |-> found.naive]
  /\ found.naive \in Nat

\* The named rounds run so far, each decided on its own rows.
RoundsRecorded ==
  /\ named \in 0 .. Len(NamedRounds)
  /\ decided = [i \in 1..named |-> Decisions(NamedRounds[i].rows)]

\* The battery stays the one that was chosen.
BatteryKnown == battery \in Batteries

HarnessIInv == RowsInOrder /\ RowsAsMade /\ CountersHold /\ RoundsRecorded /\ BatteryKnown

\* There are nine named rounds.
LEMMA NineRounds == Len(NamedRounds) = 9
BY DEF NamedRounds

\* A function on 1..n, one element longer.
LEMMA AppendNext ==
  ASSUME NEW S, NEW n \in Nat, NEW f \in [1..(n + 1) -> S]
  PROVE  Append([i \in 1..n |-> f[i]], f[n + 1]) = [i \in 1..(n + 1) |-> f[i]]
<1> DEFINE s == [i \in 1..n |-> f[i]]
           new == Append(s, f[n + 1])
<1>1. s \in [1..n -> S]
  OBVIOUS
<1>2. \A i \in 1..n : s[i] = f[i]
  OBVIOUS
<1> HIDE DEF s
<1>3. s \in Seq(S) /\ Len(s) = n
  <2>1. s \in Seq(S)
    BY <1>1, SeqDef
  <2> QED
    BY <1>1, <2>1, LenProperties
<1>4. f[n + 1] \in S
  OBVIOUS
<1>5. new \in Seq(S) /\ Len(new) = n + 1 /\ new[n + 1] = f[n + 1]
      /\ \A i \in 1..n : new[i] = s[i]
  BY <1>3, <1>4, AppendProperties
<1>6. new \in [1..(n + 1) -> S]
  BY <1>5, LenProperties
<1> HIDE DEF new
<1>7. \A i \in 1..(n + 1) : new[i] = f[i]
  BY <1>2, <1>5
<1>8. new = [i \in 1..(n + 1) |-> f[i]]
  BY <1>6, <1>7
<1> QED
  BY <1>8 DEF new, s

\* It holds before the suite runs,
LEMMA HarnessInitially == Init => HarnessIInv
<1> SUFFICES ASSUME Init PROVE HarnessIInv
  OBVIOUS
<1>1. /\ phase = "named" /\ named = 0 /\ decided = <<>> /\ verdicts = <<>>
      /\ genuine = {} /\ stuffed = FALSE
      /\ found = [naive |-> 0, core |-> 0, hardened |-> 0, withDup |-> 0]
  BY DEF Init
<1>2. CountingRows(verdicts) = {}
  BY <1>1 DEF CountingRows
<1>3. RowsAsMade
  <2>1. verdicts \in Seq(Items)
    BY <1>1, EmptySeq
  <2>2. CountingOrgans(verdicts) = {}
    BY <1>2 DEF CountingOrgans
  <2> QED
    BY <1>1, <1>2, <2>1, <2>2 DEF RowsAsMade, CountingRowsDistinct
<1>4. RoundsRecorded
  <2>1. Len(NamedRounds) \in Nat
    BY NineRounds
  <2> QED
    BY <1>1, <2>1 DEF RoundsRecorded
<1> QED
  BY <1>1, <1>3, <1>4 DEF Init, HarnessIInv, RowsInOrder, CountersHold, BatteryKnown

\* and every step of the suite keeps it.
LEMMA HarnessInductive == HarnessIInv /\ [Next]_vars => HarnessIInv'
<1> SUFFICES ASSUME HarnessIInv, [Next]_vars PROVE HarnessIInv'
  OBVIOUS
<1> USE DEF HarnessIInv
<1>1. CASE RunNamed
  <2>1. /\ named' = named + 1 /\ named < Len(NamedRounds)
        /\ decided' = Append(decided, Decisions(NamedRounds[named + 1].rows))
        /\ UNCHANGED <<battery, phase, verdicts, genuine, stuffed, found>>
    BY <1>1 DEF RunNamed
  <2>2. named \in Nat /\ Len(NamedRounds) = 9
    BY NineRounds DEF RoundsRecorded
  <2>3. decided' = [i \in 1..(named + 1) |-> Decisions(NamedRounds[i].rows)]
    <3> DEFINE f == [i \in 1..(named + 1) |-> Decisions(NamedRounds[i].rows)]
    <3>1. f \in [1..(named + 1) -> {Decisions(NamedRounds[i].rows) : i \in 1..(named + 1)}]
      OBVIOUS
    <3>2. f[named + 1] = Decisions(NamedRounds[named + 1].rows)
      BY <2>2
    <3>3. decided = [i \in 1..named |-> f[i]] /\ f = [i \in 1..(named + 1) |-> f[i]]
      BY <2>2 DEF RoundsRecorded
    <3> HIDE DEF f
    <3>4. decided' = f
      BY <2>1, <2>2, <3>1, <3>2, <3>3, AppendNext
    <3> QED
      BY <3>4 DEF f
  <2>4. RoundsRecorded'
    <3>1. named' \in 0 .. Len(NamedRounds)
      BY <2>1, <2>2
    <3> QED
      BY <2>1, <2>3, <3>1 DEF RoundsRecorded
  <2> QED
    BY <2>1, <2>4 DEF RowsInOrder, RowsAsMade, CountersHold, BatteryKnown
<1>2. CASE BeginRound
  <2>1. /\ verdicts' = <<>> /\ genuine' = {} /\ stuffed' = FALSE
        /\ UNCHANGED <<battery, named, decided, found>>
    BY <1>2 DEF BeginRound
  <2>2. CountingRows(verdicts') = {} /\ Len(verdicts') = 0
    BY <2>1 DEF CountingRows
  <2>3. verdicts' \in Seq(Items) /\ CountingOrgans(verdicts') = {}
    BY <2>1, <2>2, EmptySeq DEF CountingOrgans
  <2>4. N \in Nat
    BY HarnessAssumption, LenProperties DEF N
  <2>5. RowsAsMade'
    BY <2>1, <2>2, <2>3 DEF RowsAsMade, CountingRowsDistinct
  <2>6. RowsInOrder'
    BY <2>2, <2>4 DEF RowsInOrder
  <2> QED
    BY <2>1, <2>5, <2>6 DEF CountersHold, RoundsRecorded, BatteryKnown
<1>3. CASE AddRow
  <2> DEFINE o == OrganList[Len(verdicts) + 1]
             n == Len(verdicts)
  <2>1. PICK choice \in battery.choices :
          /\ verdicts' = Append(verdicts, RowFor(choice, o))
          /\ genuine' = IF choice = "allow" THEN genuine \cup {o} ELSE genuine
    BY <1>3 DEF AddRow
  <2>2. /\ phase = "rows" /\ n < N
        /\ UNCHANGED <<phase, named, decided, stuffed, found>>
    BY <1>3 DEF AddRow
  <2>3. choice \in AllChoices
    BY HarnessAssumption DEF HarnessIInv, BatteryKnown
  <2>4. n \in Nat /\ N \in Nat /\ DOMAIN OrganList = 1..N /\ n + 1 \in DOMAIN OrganList
    BY <2>2, HarnessAssumption, LenProperties DEF N, RowsAsMade
  <2>5. o \in ToSet(OrganList)
    BY <2>4 DEF ToSet
  <2> DEFINE row == RowFor(choice, o)
  <2> HIDE DEF o, n, row
  <2>6. row \in Items /\ (RowCounts(row) <=> choice = "allow")
        /\ (RowCounts(row) => row.organ = o)
    <3>1. row \in Items /\ (RowCounts(row) <=> choice = "allow")
          /\ (row # Abstain => row.organ = o)
      BY <2>3, <2>5, RowForCounts DEF row
    <3> QED
      BY <3>1 DEF RowCounts
  <2>7. /\ verdicts' \in Seq(Items) /\ Len(verdicts') = n + 1
        /\ verdicts'[n + 1] = row /\ \A i \in 1..n : verdicts'[i] = verdicts[i]
        /\ CountingRows(verdicts) \subseteq 1..n
        /\ CountingRows(verdicts') = CountingRows(verdicts)
                                       \cup (IF RowCounts(row) THEN {n + 1} ELSE {})
        /\ CountingOrgans(verdicts') = CountingOrgans(verdicts)
                                         \cup (IF RowCounts(row) THEN {row.organ} ELSE {})
    BY <2>1, <2>6, AppendRow DEF RowsAsMade, n, row
  <2>8. CountingOrgans(verdicts') = genuine' /\ genuine' \subseteq ToSet(OrganList)
    BY <2>1, <2>5, <2>6, <2>7 DEF RowsAsMade
  <2>9. \A i \in CountingRows(verdicts') : /\ i \in 1..(n + 1)
                                          /\ verdicts'[i].organ = OrganList[i]
    BY <2>2, <2>4, <2>6, <2>7 DEF RowsInOrder, o, n
  <2>10. CountingRowsDistinct(verdicts')
    <3>1. \A i, j \in 1..N : OrganList[i] = OrganList[j] => i = j
      BY <2>4, HarnessAssumption DEF IsInjective
    <3>2. \A i \in 1..(n + 1) : i \in 1..N
      BY <2>2, <2>4
    <3>3. ASSUME NEW i \in CountingRows(verdicts'), NEW j \in CountingRows(verdicts'),
                 verdicts'[i].organ = verdicts'[j].organ
          PROVE  i = j
      BY <2>9, <3>1, <3>2, <3>3
    <3> QED
      BY <3>3 DEF CountingRowsDistinct
  <2>11. RowsInOrder'
    BY <2>2, <2>4, <2>7, <2>9 DEF RowsInOrder
  <2>12. RowsAsMade'
    BY <2>2, <2>7, <2>8, <2>10 DEF RowsAsMade
  <2> QED
    BY <1>3, <2>2, <2>11, <2>12 DEF AddRow, CountersHold, RoundsRecorded, BatteryKnown
<1>4. CASE NoStuffing
  BY <1>4 DEF NoStuffing, AllRows, RowsInOrder, RowsAsMade, CountersHold, RoundsRecorded,
              BatteryKnown
<1>5. CASE Stuff
  <2>1. PICK victim \in genuine, copies \in 1..battery.copies :
          verdicts' = verdicts \o [i \in 1..copies |-> Allow(victim, ActionA)]
    BY <1>5 DEF Stuff
  <2>2. /\ phase' = "shuffle" /\ stuffed' = TRUE
        /\ UNCHANGED <<named, decided, genuine, found>>
    BY <1>5 DEF Stuff
  <2> DEFINE row == Allow(victim, ActionA)
  <2>3. row \in Items /\ row.organ = victim
    BY AllowRow DEF RowsAsMade
  <2>4. copies \in Nat
    BY HarnessAssumption DEF BatteryKnown
  <2> HIDE DEF row
  <2>5. verdicts' \in Seq(Items) /\ CountingOrgans(verdicts') = CountingOrgans(verdicts)
    BY <2>1, <2>3, <2>4, CopiesAddNoOrgan DEF RowsAsMade, row
  <2> QED
    BY <1>5, <2>2, <2>5 DEF Stuff, RowsInOrder, RowsAsMade, CountersHold, RoundsRecorded,
                            BatteryKnown
<1>6. CASE Shuffle
  <2>1. PICK p \in Orders(DOMAIN verdicts) :
          verdicts' = [i \in DOMAIN verdicts |-> verdicts[p[i]]]
    BY <1>6 DEF Shuffle
  <2>2. phase' = "judge" /\ UNCHANGED <<battery, named, decided, genuine, stuffed, found>>
    BY <1>6 DEF Shuffle
  <2>3. /\ verdicts' \in Seq(Items)
        /\ CountingOrgans(verdicts') = CountingOrgans(verdicts)
        /\ CountingRowsDistinct(verdicts) => CountingRowsDistinct(verdicts')
    BY <2>1, ShuffledRows DEF RowsAsMade
  <2> QED
    BY <2>2, <2>3 DEF RowsInOrder, RowsAsMade, CountersHold, RoundsRecorded, BatteryKnown
<1>7. CASE JudgeRound
  <2> DEFINE Unsafe(t) == IF SafetyHolds(Decisions(verdicts)[t], verdicts) THEN 0 ELSE 1
  <2>1. /\ phase' = "next" /\ UNCHANGED <<battery, named, decided, verdicts, genuine, stuffed>>
        /\ found' = [naive    |-> found.naive + Unsafe("naive"),
                     core     |-> found.core + Unsafe("core"),
                     hardened |-> found.hardened + Unsafe("hardened"),
                     withDup  |-> found.withDup + (IF stuffed THEN Unsafe("naive") ELSE 0)]
    BY <1>7 DEF JudgeRound
  <2>2. /\ Unsafe("core") = 0 /\ Unsafe("hardened") = 0
        /\ Unsafe("naive") \in {0, 1} /\ (~stuffed => Unsafe("naive") = 0)
    BY DecisionsSafe DEF RowsAsMade
  <2> HIDE DEF Unsafe
  <2>3. CountersHold'
    BY <2>1, <2>2 DEF CountersHold, RowsAsMade
  <2> QED
    BY <2>1, <2>3 DEF RowsInOrder, RowsAsMade, RoundsRecorded, BatteryKnown
<1>8. CASE Report
  BY <1>8 DEF Report, RowsInOrder, RowsAsMade, CountersHold, RoundsRecorded, BatteryKnown
<1>9. CASE UNCHANGED vars
  BY <1>9 DEF vars, RowsInOrder, RowsAsMade, CountersHold, RoundsRecorded, BatteryKnown
<1> QED
  BY <1>1, <1>2, <1>3, <1>4, <1>5, <1>6, <1>7, <1>8, <1>9 DEF Next, Terminating

-----------------------------------------------------------------------------
(* The named rounds.                                                        *)

\* One row for each of the first n organs: those that chose "allow" count, each for itself.
LEMMA OneRowEach ==
  ASSUME NEW n \in Nat, n <= N, NEW choice \in [1..n -> AllChoices]
  PROVE  LET rows == [i \in 1..n |-> RowFor(choice[i], OrganList[i])]
         IN  /\ rows \in Seq(Items)
             /\ CountingRows(rows) = {i \in 1..n : choice[i] = "allow"}
             /\ Cardinality(CountingOrgans(rows)) = Cardinality(CountingRows(rows))
<1> DEFINE rows == [i \in 1..n |-> RowFor(choice[i], OrganList[i])]
<1>1. N \in Nat /\ DOMAIN OrganList = 1..N
      /\ \A i, j \in 1..N : OrganList[i] = OrganList[j] => i = j
  BY HarnessAssumption, LenProperties DEF N, IsInjective
<1>2. \A i \in 1..n : i \in 1..N /\ OrganList[i] \in ToSet(OrganList) /\ choice[i] \in AllChoices
  BY <1>1 DEF ToSet
<1>3. \A i \in 1..n : rows[i] = RowFor(choice[i], OrganList[i])
  OBVIOUS
<1>4. DOMAIN rows = 1..n /\ rows = [i \in 1..n |-> rows[i]]
  OBVIOUS
<1> HIDE DEF rows
<1>5. \A i \in 1..n : /\ rows[i] \in Items
                      /\ rows[i] # Abstain => rows[i].organ = OrganList[i]
                      /\ RowCounts(rows[i]) <=> choice[i] = "allow"
  BY <1>2, <1>3, RowForCounts
<1>6. rows \in Seq(Items)
  <2>1. rows \in [1..n -> Items]
    BY <1>4, <1>5
  <2> QED
    BY <2>1, SeqDef
<1>7. CountingRows(rows) = {i \in 1..n : choice[i] = "allow"}
  BY <1>4, <1>5 DEF CountingRows
<1>8. \A i \in CountingRows(rows) : i \in 1..n /\ rows[i].organ = OrganList[i]
  BY <1>4, <1>5 DEF CountingRows, RowCounts
<1>9. CountingRowsDistinct(rows)
  BY <1>1, <1>2, <1>8 DEF CountingRowsDistinct
<1>10. Cardinality(CountingOrgans(rows)) = Cardinality(CountingRows(rows))
  BY <1>6, <1>9, DistinctRowsCount
<1> QED
  BY <1>6, <1>7, <1>10 DEF rows

\* How many the first two and the first three are.
LEMMA SmallSets ==
  /\ Cardinality({1, 2}) = 2
  /\ Cardinality({1, 2, 3}) = 3
<1>1. 1..2 = {1, 2} /\ 1..3 = {1, 2, 3}
  OBVIOUS
<1>2. Cardinality(1..2) = 2 /\ Cardinality(1..3) = 3
  <2>1. ASSUME NEW k \in Nat
        PROVE  Cardinality(1..k) = k
    BY FS_Interval
  <2> QED
    BY <2>1
<1> QED
  BY <1>1, <1>2

\* Two genuine allows, and what the third and the fourth organ bring in their place.
LEMMA TwoAllowsCount ==
  ASSUME NEW choice \in AllChoices \ {"allow"}
  PROVE  /\ TwoAllowsAnd(choice) \in Seq(Items)
         /\ Cardinality(CountingRows(TwoAllowsAnd(choice))) = 2
         /\ Cardinality(CountingOrgans(TwoAllowsAnd(choice))) = 2
<1> DEFINE c == [i \in 1..4 |-> IF i <= 2 THEN "allow" ELSE choice]
<1>1. 4 <= N
  BY HarnessAssumption DEF N
<1>2. c \in [1..4 -> AllChoices]
  BY DEF AllChoices
<1>3. TwoAllowsAnd(choice) = [i \in 1..4 |-> RowFor(c[i], OrganList[i])]
  BY DEF TwoAllowsAnd
<1>4. {i \in 1..4 : c[i] = "allow"} = {1, 2}
  OBVIOUS
<1> DEFINE rows == TwoAllowsAnd(choice)
<1> HIDE DEF c, rows
<1>5. rows = [i \in 1..4 |-> RowFor(c[i], OrganList[i])]
  BY <1>3 DEF rows
<1>6. /\ rows \in Seq(Items)
      /\ CountingRows(rows) = {i \in 1..4 : c[i] = "allow"}
      /\ Cardinality(CountingOrgans(rows)) = Cardinality(CountingRows(rows))
  BY <1>1, <1>2, <1>5, OneRowEach
<1> QED
  BY <1>4, <1>6, SmallSets DEF rows

\* The honest round, where every organ allows.
AllAllow == [i \in 1..N |-> RowFor("allow", OrganList[i])]

\* Every one of them counts.
LEMMA AllAllowCount ==
  /\ AllAllow \in Seq(Items)
  /\ Cardinality(CountingRows(AllAllow)) = N
  /\ Cardinality(CountingOrgans(AllAllow)) = N
<1> DEFINE c == [i \in 1..N |-> "allow"]
<1>1. N \in Nat /\ N <= N
  BY HarnessAssumption, LenProperties DEF N
<1>2. c \in [1..N -> AllChoices]
  BY DEF AllChoices
<1>3. AllAllow = [i \in 1..N |-> RowFor(c[i], OrganList[i])]
  BY DEF AllAllow
<1>4. {i \in 1..N : c[i] = "allow"} = 1..N
  OBVIOUS
<1> HIDE DEF c
<1>5. /\ AllAllow \in Seq(Items)
      /\ CountingRows(AllAllow) = {i \in 1..N : c[i] = "allow"}
      /\ Cardinality(CountingOrgans(AllAllow)) = Cardinality(CountingRows(AllAllow))
  BY <1>1, <1>2, <1>3, OneRowEach
<1>6. Cardinality(1..N) = N
  BY <1>1, FS_Interval
<1> QED
  BY <1>4, <1>5, <1>6

\* Three organs allow and the fourth blocks.
OneBlocks ==
  [i \in 1..4 |-> RowFor(IF i <= 3 THEN "allow" ELSE "block", OrganList[i])]

\* All but the last count.
LEMMA OneBlocksCount ==
  /\ OneBlocks \in Seq(Items)
  /\ Cardinality(CountingRows(OneBlocks)) = 3
  /\ Cardinality(CountingOrgans(OneBlocks)) = 3
<1> DEFINE c == [i \in 1..4 |-> IF i <= 3 THEN "allow" ELSE "block"]
<1>1. 4 <= N
  BY HarnessAssumption DEF N
<1>2. c \in [1..4 -> AllChoices]
  BY DEF AllChoices
<1>3. OneBlocks = [i \in 1..4 |-> RowFor(c[i], OrganList[i])]
  BY DEF OneBlocks
<1>4. {i \in 1..4 : c[i] = "allow"} = {1, 2, 3}
  OBVIOUS
<1> HIDE DEF c
<1>5. /\ OneBlocks \in Seq(Items)
      /\ CountingRows(OneBlocks) = {i \in 1..4 : c[i] = "allow"}
      /\ Cardinality(CountingOrgans(OneBlocks)) = Cardinality(CountingRows(OneBlocks))
  BY <1>1, <1>2, <1>3, OneRowEach
<1> QED
  BY <1>4, <1>5, SmallSets

\* One genuine allow, three times.
ThreeCopies == [i \in 1..3 |-> Allow(OrganList[1], ActionA)]

\* The rows count, but they are one organ's.
LEMMA ThreeCopiesCount ==
  /\ ThreeCopies \in Seq(Items)
  /\ Cardinality(CountingRows(ThreeCopies)) = 3
  /\ Cardinality(CountingOrgans(ThreeCopies)) = 1
<1> DEFINE o == OrganList[1]
           row == Allow(o, ActionA)
<1>1. o \in ToSet(OrganList)
  <2>1. 1 \in DOMAIN OrganList
    BY HarnessAssumption, LenProperties
  <2> QED
    BY <2>1 DEF ToSet
<1>2. row \in Items /\ row.organ = o /\ RowCounts(row)
  BY <1>1, AllowRow
<1>3. DOMAIN ThreeCopies = 1..3 /\ \A i \in 1..3 : ThreeCopies[i] = row
  BY DEF ThreeCopies
<1>4. ThreeCopies \in [1..3 -> Items]
  BY <1>2 DEF ThreeCopies
<1> HIDE DEF row, o
<1>5. ThreeCopies \in Seq(Items)
  BY <1>4, SeqDef
<1>6. CountingRows(ThreeCopies) = {1, 2, 3}
  BY <1>2, <1>3 DEF CountingRows
<1>7. CountingOrgans(ThreeCopies) = {o}
  BY <1>2, <1>3, <1>6 DEF CountingOrgans
<1>8. Cardinality({o}) = 1
  BY FS_Singleton
<1> QED
  BY <1>5, <1>6, <1>7, <1>8, SmallSets

\* What the oracle and the per-verdict tally count in each of the nine rounds.
LEMMA NamedCounts ==
  ASSUME NEW i \in 1..9
  PROVE  LET rows   == NamedRounds[i].rows
             each   == Cardinality(CountingRows(rows))
             organs == Cardinality(CountingOrgans(rows))
             attack == NamedRounds[i].attack
         IN  /\ rows \in Seq(Items)
             /\ \/ attack = "none" /\ each = organs /\ organs \in {3, N}
                \/ attack \notin {"none", "duplicate_stuffing"} /\ each = 2 /\ organs = 2
                \/ attack = "duplicate_stuffing" /\ each = 3 /\ organs = 1
<1> DEFINE Described(attack, rows) ==
             /\ rows \in Seq(Items)
             /\ \/ /\ attack = "none"
                   /\ Cardinality(CountingRows(rows)) = Cardinality(CountingOrgans(rows))
                   /\ Cardinality(CountingOrgans(rows)) \in {3, N}
                \/ /\ attack \notin {"none", "duplicate_stuffing"}
                   /\ Cardinality(CountingRows(rows)) = 2
                   /\ Cardinality(CountingOrgans(rows)) = 2
                \/ /\ attack = "duplicate_stuffing"
                   /\ Cardinality(CountingRows(rows)) = 3
                   /\ Cardinality(CountingOrgans(rows)) = 1
<1>1. NamedRounds =
        << [attack |-> "none", rows |-> AllAllow],
           [attack |-> "none", rows |-> OneBlocks],
           [attack |-> "silent", rows |-> TwoAllowsAnd("silent")],
           [attack |-> "forged", rows |-> TwoAllowsAnd("forged")],
           [attack |-> "impersonation", rows |-> TwoAllowsAnd("impersonation")],
           [attack |-> "action_mismatch", rows |-> TwoAllowsAnd("action_mismatch")],
           [attack |-> "payload_tamper", rows |-> TwoAllowsAnd("payload_tamper")],
           [attack |-> "replay", rows |-> TwoAllowsAnd("replay")],
           [attack |-> "duplicate_stuffing", rows |-> ThreeCopies] >>
  BY Zenon DEF NamedRounds, AllAllow, OneBlocks, ThreeCopies
<1>2. Described("none", AllAllow) /\ Described("none", OneBlocks)
  BY AllAllowCount, OneBlocksCount
<1>3. \A choice \in AllChoices \ {"allow", "block"} : Described(choice, TwoAllowsAnd(choice))
  <2> TAKE choice \in AllChoices \ {"allow", "block"}
  <2>1. choice \notin {"none", "duplicate_stuffing"} /\ choice \in AllChoices \ {"allow"}
    BY DEF AllChoices
  <2> QED
    BY <2>1, TwoAllowsCount
<1>4. Described("duplicate_stuffing", ThreeCopies)
  BY ThreeCopiesCount
<1> HIDE DEF Described
<1>5. Described(NamedRounds[i].attack, NamedRounds[i].rows)
  <2>1. {"silent", "forged", "impersonation", "action_mismatch", "payload_tamper", "replay"}
          \subseteq AllChoices \ {"allow", "block"}
    BY DEF AllChoices
  <2> QED
    BY <1>1, <1>2, <1>3, <1>4, <2>1
<1> QED
  BY <1>5 DEF Described

-----------------------------------------------------------------------------
(* The theorems about the harness.                                          *)

\* The invariant holds in every state: the rows of a round are those its choices made,
\* the safe tallies have no violation on record, and the named rounds are decided as they
\* were run.
THEOREM HarnessSafe == Spec => []HarnessIInv
<1> QED
  BY HarnessInitially, HarnessInductive, PTL DEF Spec

\* honest_allow_count, which only reads keys and signatures, finds exactly the organs for
\* which the round signed a genuine allow: whatever the organs, the other rows, the copies
\* and the order.
THEOREM OracleTrue == Spec => []OracleIsTruth
<1>1. HarnessIInv => OracleIsTruth
  BY DEF HarnessIInv, RowsAsMade, OracleIsTruth, HonestAllowCount, CountingOrgans
<1> QED
  BY <1>1, HarnessSafe, PTL

\* distinct_witness_tally decides as tally does, as its docstring says, wherever tally
\* accepts the quorum counts; without that the two differ.
THEOREM HardenedIsTally ==
  ASSUME ValidQuorumCounts(Threshold, N)
  PROVE  Spec => []HardenedAgrees
<1>1. HarnessIInv => HardenedAgrees
  BY DecisionsSafe DEF HarnessIInv, RowsAsMade, HardenedAgrees
<1> QED
  BY <1>1, HarnessSafe, PTL

\* The fuzz report: no choice of rows, copies and order gives a false canonical under tally
\* or distinct_witness_tally, _main exits with 0, and the per-verdict tally is fooled only
\* in rounds with copies of a genuine row; for every threshold and every number of rounds.
THEOREM FuzzReportTrue == Spec => []FuzzReportHolds
<1>1. ASSUME HarnessIInv
      PROVE  FuzzReportHolds
  <2>1. found.core = 0 /\ found.hardened = 0 /\ found.naive = found.withDup
    BY <1>1 DEF HarnessIInv, CountersHold
  <2>2. named \in 0..9
    BY <1>1, NineRounds DEF HarnessIInv, RoundsRecorded
  <2>3. ASSUME NEW i \in 1..named
        PROVE  /\ SafetyHolds(decided[i].core, NamedRounds[i].rows)
               /\ SafetyHolds(decided[i].hardened, NamedRounds[i].rows)
    <3>1. i \in 1..9
      BY <2>2
    <3>2. decided[i] = Decisions(NamedRounds[i].rows)
      BY <1>1 DEF HarnessIInv, RoundsRecorded
    <3>3. NamedRounds[i].rows \in Seq(Items)
      BY <3>1, NamedCounts
    <3> QED
      BY <3>2, <3>3, DecisionsSafe
  <2>4. AllSafe("core") /\ AllSafe("hardened")
    BY <2>3 DEF AllSafe
  <2>5. MainExit = 0
    BY <2>1, <2>4 DEF MainExit
  <2> QED
    BY <2>1, <2>5 DEF FuzzReportHolds, ShippedTallySafe, NaiveGapFromDuplicates
<1> QED
  BY <1>1, HarnessSafe, PTL

\* The battery's descriptions come true for every roster of four organs or more, under the
\* threshold the suite runs with: only the rounds without an attack are canonical under the
\* two safe tallies, and only duplicate stuffing fools the per-verdict tally.
THEOREM NamedRoundsTrue ==
  ASSUME Threshold = 3
  PROVE  Spec => []NamedRoundsAsDescribed
<1>1. ASSUME HarnessIInv
      PROVE  NamedRoundsAsDescribed
  <2> SUFFICES ASSUME NEW i \in DOMAIN decided
               PROVE  LET attack == NamedRounds[i].attack
                          right  == IF attack = "none" THEN "canonical" ELSE "rejected"
                      IN  /\ decided[i].core = right /\ decided[i].hardened = right
                          /\ (decided[i].naive # right) <=> (attack = "duplicate_stuffing")
    BY DEF NamedRoundsAsDescribed
  <2> DEFINE rows   == NamedRounds[i].rows
             attack == NamedRounds[i].attack
             each   == Cardinality(CountingRows(rows))
             organs == Cardinality(CountingOrgans(rows))
  <2>1. i \in 1..9 /\ decided[i] = Decisions(rows)
    <3>1. /\ named \in 0..9
          /\ decided = [k \in 1..named |-> Decisions(NamedRounds[k].rows)]
      BY <1>1, NineRounds DEF HarnessIInv, RoundsRecorded
    <3> QED
      BY <3>1
  <2>2. /\ rows \in Seq(Items)
        /\ \/ attack = "none" /\ each = organs /\ organs \in {3, N}
           \/ attack \notin {"none", "duplicate_stuffing"} /\ each = 2 /\ organs = 2
           \/ attack = "duplicate_stuffing" /\ each = 3 /\ organs = 1
    BY <2>1, NamedCounts
  <2>3. N \in Nat /\ N >= 4 /\ ValidQuorumCounts(Threshold, N)
    BY HarnessAssumption, LenProperties DEF N, ValidQuorumCounts
  <2>4. CoreDecision(rows) = HardenedDecision(rows)
    BY <2>2, <2>3, DecisionsSafe
  <2>5. HardenedDecision(rows) = DecideBy(organs)
    BY <2>2, DistinctCountIsExact DEF HardenedDecision
  <2>6. NaiveDecision(rows) = DecideBy(each)
    BY DEF NaiveDecision
  <2>7. /\ decided[i].core = DecideBy(organs) /\ decided[i].hardened = DecideBy(organs)
        /\ decided[i].naive = DecideBy(each)
    BY <2>1, <2>4, <2>5, <2>6 DEF Decisions
  <2>8. DecideBy(1) = "rejected" /\ DecideBy(2) = "rejected" /\ DecideBy(3) = "canonical"
        /\ DecideBy(N) = "canonical"
    BY <2>3 DEF DecideBy
  <2> HIDE DEF rows, each, organs
  <2> QED
    BY <2>2, <2>7, <2>8
<1> QED
  BY <1>1, HarnessSafe, PTL

-----------------------------------------------------------------------------
(* The collusion lane: its inductive invariant,                             *)

\* The outcome of every round of a campaign.
Expected(colluders) ==
  IF colluders = 0 THEN "PASSED"
  ELSE IF colluders < Quorum THEN "REPELLED" ELSE "QUORUM_BREACH_CHAIN_CAUGHT"

Campaigns == [kind : {"campaign"}, colluders : 0 .. 4, rounds : Nat \ {0},
              counts : [Outcomes -> Nat]]

\* A campaign under way has had the expected outcome each time, and not too often.
RunningHolds ==
  running # None =>
    /\ running \in [kind : {"running"}, colluders : 0 .. 4, rounds : Nat \ {0},
                    outcomes : Seq(Outcomes)]
    /\ Len(running.outcomes) <= running.rounds
    /\ \A i \in 1 .. Len(running.outcomes) :
         running.outcomes[i] = Expected(running.colluders)

\* The campaign at a place of a lane has as many colluders as campaigns went before it.
Placed(s, rounds) ==
  \A k \in 1 .. Len(s) : Exact(s[k]) /\ s[k].colluders = k - 1 /\ s[k].rounds = rounds

LaneHolds ==
  spectrum # NoLane =>
    /\ running # None /\ spectrum \in Seq(Campaigns)
    /\ Len(spectrum) = running.colluders /\ Placed(spectrum, running.rounds)

LaneIInv == RunningHolds /\ LaneHolds /\ ChangesRepelledOrCaught /\ CountsMeasured

-----------------------------------------------------------------------------
(* one round of it,                                                         *)

\* The witnesses below a number are that many.
LEMMA Colluders ==
  ASSUME NEW c \in 0 .. 4
  PROVE  /\ IsFiniteSet({w \in WitnessIds : w < c})
         /\ Cardinality({w \in WitnessIds : w < c}) = c
<1>1. {w \in WitnessIds : w < c} = 0 .. (c - 1)
  BY DEF WitnessIds
<1>2. IsFiniteSet(0 .. (c - 1)) /\ Cardinality(0 .. (c - 1)) = c
  BY FS_Interval
<1> QED
  BY <1>1, <1>2

LEMMA WitnessesAreFour ==
  /\ IsFiniteSet(WitnessIds) /\ Cardinality(WitnessIds) = 4
  /\ \A W \in SUBSET WitnessIds : IsFiniteSet(W) /\ Cardinality(W) \in Nat
<1>1. IsFiniteSet(WitnessIds) /\ Cardinality(WitnessIds) = 4
  <2>1. {w \in WitnessIds : w < 4} = WitnessIds /\ 4 \in 0 .. 4
    BY DEF WitnessIds
  <2> QED
    BY <2>1, Colluders
<1> QED
  BY <1>1, FS_Subset, FS_CardinalityType

\* What a round decides when the witnesses are shown a change, and when they are not.
LEMMA ChangedRound ==
  ASSUME NEW witnesses, NEW colluders \in SUBSET witnesses, NEW amount, NEW tampered,
         Presented(amount, tampered) # amount
  PROVE  LET r == RunRound(colluders, witnesses, amount, tampered)
         IN  /\ r.changed
             /\ r.outcome = IF Cardinality(colluders) < Quorum THEN "REPELLED"
                            ELSE "QUORUM_BREACH_CHAIN_CAUGHT"
<1> DEFINE shown == Presented(amount, tampered)
<1> HIDE DEF shown
<1>1. {w \in witnesses : Attests(w \in colluders, amount, shown)} = colluders
  BY DEF Attests, shown
<1> QED
  BY <1>1 DEF RunRound, shown

LEMMA UnchangedRound ==
  ASSUME NEW witnesses, NEW colluders \in SUBSET witnesses, NEW amount, NEW tampered,
         Presented(amount, tampered) = amount
  PROVE  LET r == RunRound(colluders, witnesses, amount, tampered)
         IN  /\ ~r.changed
             /\ r.outcome = IF Cardinality(witnesses) < Quorum THEN "REPELLED" ELSE "PASSED"
<1> DEFINE shown == Presented(amount, tampered)
<1> HIDE DEF shown
<1>1. {w \in witnesses : Attests(w \in colluders, amount, shown)} = witnesses
  BY DEF Attests, shown
<1> QED
  BY <1>1 DEF RunRound, shown

LEMMA OutcomeOfCampaign ==
  ASSUME NEW c \in 0 .. 4
  PROVE  RunRound({w \in WitnessIds : w < c}, WitnessIds, 1, c > 0).outcome = Expected(c)
<1>1. {w \in WitnessIds : w < c} \in SUBSET WitnessIds
  OBVIOUS
<1>2. CASE c = 0
  <2>1. Presented(1, c > 0) = 1
    BY <1>2 DEF Presented
  <2> QED
    BY <1>1, <1>2, <2>1, UnchangedRound, WitnessesAreFour DEF Expected, Quorum
<1>3. CASE c # 0
  <2>1. Presented(1, c > 0) # 1
    BY <1>3 DEF Presented
  <2>2. Expected(c) = IF c < Quorum THEN "REPELLED" ELSE "QUORUM_BREACH_CHAIN_CAUGHT"
    BY <1>3 DEF Expected
  <2> DEFINE colluders == {w \in WitnessIds : w < c}
  <2>3. Cardinality(colluders) = c
    BY Colluders
  <2> HIDE DEF colluders
  <2>4. RunRound(colluders, WitnessIds, 1, c > 0).outcome
          = IF Cardinality(colluders) < Quorum THEN "REPELLED" ELSE "QUORUM_BREACH_CHAIN_CAUGHT"
    BY <1>1, <2>1, ChangedRound DEF colluders
  <2> QED
    BY <2>2, <2>3, <2>4 DEF colluders
<1> QED
  BY <1>2, <1>3

-----------------------------------------------------------------------------
(* and a campaign.                                                          *)

LEMMA TallyOfEqual ==
  ASSUME NEW s \in Seq(Outcomes), NEW e \in Outcomes, NEW o \in Outcomes,
         \A i \in 1 .. Len(s) : s[i] = e
  PROVE  Tally(s, o) = IF o = e THEN Len(s) ELSE 0
<1>1. DOMAIN s = 1 .. Len(s) /\ Len(s) \in Nat
  BY LenProperties
<1>2. CASE o = e
  <2>1. {i \in DOMAIN s : s[i] = o} = 1 .. Len(s)
    BY <1>1, <1>2
  <2>2. Cardinality(1 .. Len(s)) = Len(s)
    BY <1>1, FS_Interval
  <2> QED
    BY <1>1, <1>2, <2>1, <2>2 DEF Tally
<1>3. CASE o # e
  <2>1. {i \in DOMAIN s : s[i] = o} = {}
    BY <1>1, <1>3
  <2> QED
    BY <1>3, <2>1, FS_EmptySet DEF Tally
<1> QED
  BY <1>2, <1>3

\* The campaign that ends is exact.
LEMMA FinishedIsExact ==
  ASSUME RunningHolds, running # None, Len(running.outcomes) >= running.rounds
  PROVE  /\ Campaign(running) \in Campaigns /\ Exact(Campaign(running))
         /\ Campaign(running).kind = "campaign"
         /\ Campaign(running).colluders = running.colluders
         /\ Campaign(running).rounds = running.rounds
<1> DEFINE e == Expected(running.colluders)
<1>1. /\ running.colluders \in 0 .. 4 /\ running.rounds \in Nat \ {0}
      /\ running.outcomes \in Seq(Outcomes)
      /\ \A i \in 1 .. Len(running.outcomes) : running.outcomes[i] = e
      /\ Len(running.outcomes) <= running.rounds
  BY DEF RunningHolds
<1>2. Len(running.outcomes) = running.rounds
  BY <1>1, LenProperties
<1>3. e \in Outcomes
  BY DEF Expected, Outcomes
<1>4. \A o \in Outcomes : Tally(running.outcomes, o) = IF o = e THEN running.rounds ELSE 0
  BY <1>1, <1>2, <1>3, TallyOfEqual
<1>5. Campaign(running) \in Campaigns
  BY <1>1, <1>4 DEF Campaign, Campaigns
<1>6. Exact(Campaign(running))
  BY <1>1, <1>4 DEF Campaign, Exact, Expected
<1> QED
  BY <1>5, <1>6 DEF Campaign

-----------------------------------------------------------------------------
(* The steps.                                                               *)

LEMMA InitHolds ==
  ASSUME LaneInit
  PROVE  LaneIInv
BY DEF LaneInit, LaneIInv, RunningHolds, LaneHolds, ChangesRepelledOrCaught, CountsMeasured, None

LEMMA DirectRoundHolds ==
  ASSUME LaneIInv, DirectRound
  PROVE  LaneIInv'
<1>1. PICK witnesses \in SUBSET WitnessIds, amount \in Amounts, tampered \in BOOLEAN :
        \E colluders \in SUBSET witnesses :
          result' = [kind |-> "round", colluders |-> colluders, amount |-> amount,
                     round |-> RunRound(colluders, witnesses, amount, tampered)]
  BY DEF DirectRound
<1>2. PICK colluders \in SUBSET witnesses :
        result' = [kind |-> "round", colluders |-> colluders, amount |-> amount,
                   round |-> RunRound(colluders, witnesses, amount, tampered)]
  BY <1>1
<1>3. amount \in Nat
  BY CollusionAssumption
<1> DEFINE r == RunRound(colluders, witnesses, amount, tampered)
           shown == Presented(amount, tampered)
<1>4. result'.kind = "round" /\ result'.round = r /\ result'.colluders = colluders
      /\ result'.amount = amount
  BY <1>2
<1>5. r.tampered = tampered
  BY DEF RunRound
<1>6. shown # amount => /\ r.changed
                        /\ r.outcome = IF Cardinality(colluders) < Quorum THEN "REPELLED"
                                       ELSE "QUORUM_BREACH_CHAIN_CAUGHT"
  BY ChangedRound
<1>7. shown = amount =>
        /\ ~r.changed
        /\ r.outcome = IF Cardinality(witnesses) < Quorum THEN "REPELLED" ELSE "PASSED"
  BY UnchangedRound
<1>8. tampered /\ shown = amount => amount = 0
  BY <1>3 DEF Presented
<1> HIDE DEF r, shown
<1>9. ChangesRepelledOrCaught'
  BY <1>4, <1>5, <1>6, <1>7, <1>8 DEF ChangesRepelledOrCaught
<1>10. CountsMeasured'
  BY <1>4 DEF CountsMeasured
<1> QED
  BY <1>9, <1>10 DEF LaneIInv, RunningHolds, LaneHolds, DirectRound

\* A call that begins a campaign, or is refused.
LEMMA BeginHolds ==
  ASSUME LaneIInv, NEW colluders, NEW rounds, Begin(colluders, rounds)
  PROVE  /\ RunningHolds' /\ ChangesRepelledOrCaught' /\ CountsMeasured'
         /\ Admitted(colluders, rounds) =>
              running' # None /\ running'.colluders = colluders /\ running'.rounds = rounds
<1>1. CASE Admitted(colluders, rounds)
  <2>1. /\ running' = [kind |-> "running", colluders |-> colluders, rounds |-> rounds,
                       outcomes |-> <<>>]
        /\ result' = result
    BY <1>1 DEF Begin
  <2>2. colluders \in 0 .. 4 /\ rounds \in Nat \ {0}
    BY <1>1 DEF Admitted
  <2>3. <<>> \in Seq(Outcomes) /\ Len(<<>>) = 0
    OBVIOUS
  <2>4. running' # None
    BY <2>1 DEF None
  <2>5. RunningHolds'
    BY <2>1, <2>2, <2>3 DEF RunningHolds
  <2>6. ChangesRepelledOrCaught' /\ CountsMeasured'
    BY <2>1 DEF LaneIInv, ChangesRepelledOrCaught, CountsMeasured
  <2>7. running'.colluders = colluders /\ running'.rounds = rounds
    BY <2>1
  <2> QED
    BY <2>4, <2>5, <2>6, <2>7
<1>2. CASE ~Admitted(colluders, rounds)
  <2>1. running' = None /\ result' = [kind |-> "ValueError"]
    BY <1>2 DEF Begin
  <2>2. RunningHolds'
    BY <2>1 DEF RunningHolds
  <2>3. ChangesRepelledOrCaught' /\ CountsMeasured'
    BY <2>1 DEF ChangesRepelledOrCaught, CountsMeasured
  <2> QED
    BY <1>2, <2>2, <2>3
<1> QED
  BY <1>1, <1>2

LEMMA CallsHold ==
  ASSUME LaneIInv, RunCampaign \/ FullLane
  PROVE  LaneIInv'
<1>1. CASE RunCampaign
  <2>1. PICK colluders, rounds \in Asked : Begin(colluders, rounds)
    BY <1>1 DEF RunCampaign
  <2>2. spectrum' = NoLane
    BY <1>1 DEF RunCampaign, Idle
  <2> QED
    BY <2>1, <2>2, BeginHolds DEF LaneIInv, LaneHolds
<1>2. CASE FullLane
  <2>1. PICK rounds \in Asked :
          /\ Begin(0, rounds)
          /\ spectrum' = IF Admitted(0, rounds) THEN <<>> ELSE NoLane
    BY <1>2 DEF FullLane
  <2>2. /\ RunningHolds' /\ ChangesRepelledOrCaught' /\ CountsMeasured'
        /\ Admitted(0, rounds) => running' # None /\ running'.colluders = 0
    BY <2>1, BeginHolds
  <2>3. LaneHolds'
    BY <2>1, <2>2 DEF LaneHolds, Placed
  <2> QED
    BY <2>2, <2>3 DEF LaneIInv
<1> QED
  BY <1>1, <1>2

LEMMA NextRoundHolds ==
  ASSUME LaneIInv, NextRound
  PROVE  LaneIInv'
<1> DEFINE c == running.colluders
           e == Expected(c)
           outcomes == running.outcomes
<1>1. /\ running # None /\ Len(outcomes) < running.rounds
      /\ running \in [kind : {"running"}, colluders : 0 .. 4, rounds : Nat \ {0},
                      outcomes : Seq(Outcomes)]
      /\ \A i \in 1 .. Len(outcomes) : outcomes[i] = e
      /\ spectrum' = spectrum /\ result' = result
  BY DEF NextRound, LaneIInv, RunningHolds
<1>2. running' = [running EXCEPT !.outcomes = Append(@, e)]
  BY <1>1, OutcomeOfCampaign DEF NextRound
<1>3. e \in Outcomes
  BY DEF Expected, Outcomes
<1>4. /\ Append(outcomes, e) \in Seq(Outcomes)
      /\ Len(Append(outcomes, e)) = Len(outcomes) + 1 /\ Len(outcomes) \in Nat
      /\ \A i \in 1 .. Len(outcomes) + 1 : Append(outcomes, e)[i] = e
  BY <1>1, <1>3, AppendProperties, LenProperties
<1>5. /\ running' \in [kind : {"running"}, colluders : 0 .. 4, rounds : Nat \ {0},
                       outcomes : Seq(Outcomes)]
      /\ running'.colluders = c /\ running'.rounds = running.rounds
      /\ running'.outcomes = Append(outcomes, e)
  BY <1>1, <1>2, <1>4
<1>6. running' # None
  BY <1>5 DEF None
<1> HIDE DEF e
<1>7. Len(running'.outcomes) <= running'.rounds
  BY <1>1, <1>4, <1>5
<1>8. RunningHolds'
  BY <1>4, <1>5, <1>7 DEF RunningHolds, e
<1>9. LaneHolds'
  BY <1>1, <1>5, <1>6 DEF LaneIInv, LaneHolds
<1> QED
  BY <1>1, <1>8, <1>9 DEF LaneIInv, ChangesRepelledOrCaught, CountsMeasured

\* The lane goes on with one more campaign in its spectrum.
LEMMA SpectrumGrows ==
  ASSUME LaneIInv, EndCampaign, spectrum # NoLane
  PROVE  LET s == Append(spectrum, Campaign(running))
         IN  /\ s \in Seq(Campaigns) /\ Len(s) = running.colluders + 1
             /\ Placed(s, running.rounds)
<1> DEFINE s == Append(spectrum, Campaign(running))
           n == Len(spectrum)
<1>1. /\ Campaign(running) \in Campaigns /\ Exact(Campaign(running))
      /\ Campaign(running).colluders = running.colluders
      /\ Campaign(running).rounds = running.rounds
  BY FinishedIsExact DEF LaneIInv, EndCampaign
<1>2. /\ spectrum \in Seq(Campaigns) /\ n = running.colluders
      /\ Placed(spectrum, running.rounds)
  BY DEF LaneIInv, LaneHolds
<1>3. /\ s \in Seq(Campaigns) /\ Len(s) = n + 1 /\ n \in Nat
      /\ \A k \in 1 .. n : s[k] = spectrum[k]
      /\ s[n + 1] = Campaign(running)
  BY <1>1, <1>2, AppendProperties, LenProperties
<1> HIDE DEF s
<1>4. Placed(s, running.rounds)
  <2>1. SUFFICES ASSUME NEW k \in 1 .. n + 1
                 PROVE  /\ Exact(s[k]) /\ s[k].colluders = k - 1
                        /\ s[k].rounds = running.rounds
    BY <1>3 DEF Placed
  <2>2. CASE k \in 1 .. n
    BY <1>2, <1>3, <2>2 DEF Placed
  <2>3. CASE k = n + 1
    BY <1>1, <1>2, <1>3, <2>3
  <2> QED
    BY <1>3, <2>2, <2>3
<1> QED
  BY <1>2, <1>3, <1>4 DEF s

\* Five exact campaigns leave the verdict no doubt.
LEMMA VerdictOfExact ==
  ASSUME NEW s \in Seq(Campaigns), NEW rounds, Len(s) = 5, Placed(s, rounds)
  PROVE  /\ Verdict(s, rounds) = "catches every tamper"
         /\ \A k \in 0 .. 4 : /\ Exact(s[k + 1]) /\ s[k + 1].colluders = k
                              /\ s[k + 1].rounds = rounds
<1>1. \A k \in 0 .. 4 : /\ Exact(s[k + 1]) /\ s[k + 1].colluders = k
                        /\ s[k + 1].rounds = rounds
  <2>1. ASSUME NEW k \in 0 .. 4
        PROVE  /\ Exact(s[k + 1]) /\ s[k + 1].colluders = k
               /\ s[k + 1].rounds = rounds
    <3>1. k + 1 \in 1 .. Len(s) /\ (k + 1) - 1 = k
      OBVIOUS
    <3> QED
      BY <3>1 DEF Placed
  <2> QED
    BY <2>1
<1>2. \A k \in {1, 2} : s[k + 1].counts["REPELLED"] = s[k + 1].rounds
  BY <1>1 DEF Exact, Outcomes, Quorum
<1>3. \A k \in {3, 4} : s[k + 1].counts["QUORUM_BREACH_CHAIN_CAUGHT"] = rounds
  BY <1>1 DEF Exact, Outcomes, Quorum
<1> QED
  BY <1>1, <1>2, <1>3 DEF Verdict

LEMMA EndCampaignHolds ==
  ASSUME LaneIInv, EndCampaign
  PROVE  LaneIInv'
<1> DEFINE s == Append(spectrum, Campaign(running))
<1>1. CASE spectrum = NoLane
  <2>1. result' = Campaign(running) /\ running' = None /\ spectrum' = NoLane
    BY <1>1 DEF EndCampaign
  <2>2. Exact(Campaign(running)) /\ Campaign(running).kind = "campaign"
    BY FinishedIsExact DEF LaneIInv, EndCampaign
  <2> QED
    BY <2>1, <2>2 DEF LaneIInv, RunningHolds, LaneHolds, ChangesRepelledOrCaught, CountsMeasured,
                      Exact
<1>2. CASE spectrum # NoLane /\ Len(spectrum) < 4
  <2>1. /\ spectrum' = s /\ result' = result
        /\ running' = [running EXCEPT !.colluders = @ + 1, !.outcomes = <<>>]
    BY <1>2 DEF EndCampaign
  <2>2. s \in Seq(Campaigns) /\ Len(s) = running.colluders + 1 /\ Placed(s, running.rounds)
    BY <1>2, SpectrumGrows
  <2> HIDE DEF s
  <2>3. /\ running \in [kind : {"running"}, colluders : 0 .. 4, rounds : Nat \ {0},
                        outcomes : Seq(Outcomes)]
        /\ running.colluders < 4
    BY <1>2 DEF LaneIInv, RunningHolds, LaneHolds
  <2>4. <<>> \in Seq(Outcomes) /\ Len(<<>>) = 0
    OBVIOUS
  <2>5. /\ running' \in [kind : {"running"}, colluders : 0 .. 4, rounds : Nat \ {0},
                         outcomes : Seq(Outcomes)]
        /\ running'.colluders = running.colluders + 1 /\ running'.rounds = running.rounds
        /\ running'.outcomes = <<>>
    <3>1. running.colluders + 1 \in 0 .. 4
      BY <2>3
    <3>2. [running EXCEPT !.colluders = @ + 1]
            \in [kind : {"running"}, colluders : 0 .. 4, rounds : Nat \ {0},
                 outcomes : Seq(Outcomes)]
      BY <2>3, <3>1
    <3>3. running' = [[running EXCEPT !.colluders = @ + 1] EXCEPT !.outcomes = <<>>]
      BY <2>1, <2>3
    <3> QED
      BY <2>3, <2>4, <3>2, <3>3
  <2>6. running' # None
    BY <2>5 DEF None
  <2>7. RunningHolds'
    BY <2>4, <2>5 DEF RunningHolds
  <2>8. LaneHolds'
    BY <2>1, <2>2, <2>5, <2>6 DEF LaneHolds
  <2> QED
    BY <2>1, <2>7, <2>8 DEF LaneIInv, ChangesRepelledOrCaught, CountsMeasured
<1>3. CASE spectrum # NoLane /\ ~(Len(spectrum) < 4)
  <2>1. /\ result' = [kind |-> "lane", rounds |-> running.rounds, spectrum |-> s,
                      verdict |-> Verdict(s, running.rounds)]
        /\ running' = None /\ spectrum' = NoLane
    BY <1>3 DEF EndCampaign
  <2>2. s \in Seq(Campaigns) /\ Len(s) = running.colluders + 1 /\ Placed(s, running.rounds)
    BY <1>3, SpectrumGrows
  <2>3. running.colluders = 4
    BY <1>3 DEF LaneIInv, RunningHolds, LaneHolds, EndCampaign
  <2> HIDE DEF s
  <2>4. /\ Verdict(s, running.rounds) = "catches every tamper"
        /\ \A k \in 0 .. 4 : /\ Exact(s[k + 1]) /\ s[k + 1].colluders = k
                             /\ s[k + 1].rounds = running.rounds
    <3>1. Len(s) = 5
      BY <2>2, <2>3
    <3> QED
      BY <2>2, <3>1, VerdictOfExact
  <2>5. CountsMeasured'
    BY <2>1, <2>4 DEF CountsMeasured
  <2> QED
    BY <2>1, <2>5 DEF LaneIInv, RunningHolds, LaneHolds, ChangesRepelledOrCaught
<1> QED
  BY <1>1, <1>2, <1>3

LEMMA LaneInductive == LaneSpec => []LaneIInv
<1>1. LaneIInv /\ UNCHANGED laneVars => LaneIInv'
  BY DEF laneVars, LaneIInv, RunningHolds, LaneHolds, ChangesRepelledOrCaught, CountsMeasured
<1>2. LaneIInv /\ LaneNext => LaneIInv'
  BY <1>1, DirectRoundHolds, CallsHold, NextRoundHolds, EndCampaignHolds
  DEF LaneNext, LaneOver
<1> QED
  BY <1>1, <1>2, InitHolds, PTL DEF LaneSpec

-----------------------------------------------------------------------------
(* The theorems about the lane.                                             *)

\* In a round of any witnesses, any colluders among them and any amount, a change is
\* repelled or caught, and what passes is unchanged.
THEOREM NoChangePasses == LaneSpec => []ChangesRepelledOrCaught
<1>1. LaneIInv => ChangesRepelledOrCaught
  BY DEF LaneIInv
<1> QED
  BY <1>1, LaneInductive, PTL

\* Campaigns and lanes of any number of rounds count every round, in the right outcome.
THEOREM CountsAreExact == LaneSpec => []CountsMeasured
<1>1. LaneIInv => CountsMeasured
  BY DEF LaneIInv
<1> QED
  BY <1>1, LaneInductive, PTL
=============================================================================
