------------------------- MODULE AttestationProofs -------------------------
(***************************************************************************)
(* Proofs about Attestation, for every set of witnesses, keys and callers,  *)
(* every registry and every history of changes to it, and receipts edited   *)
(* any number of times.                                                     *)
(***************************************************************************)
EXTENDS Attestation, ReceiptsProofs

-----------------------------------------------------------------------------
(* The inductive invariant: what is known of a call at each of its labels.  *)

JobRecord == [action    : Actions,
              blocking  : SUBSET Organs,
              begun     : Nat,
              ended     : Nat,
              asked     : Registries,
              collected : Seq(Items),
              pubkeys   : PubkeyMaps,
              outcome   : TallyOutcomes \cup {NoReceipt},
              n         : Nat,
              size      : Nat,
              read      : Seq(PublicWitnesses),
              receipt   : Receipts \cup {NoReceipt}]

\* The row that a witness without a bad key gives to a call.
AnswerOf(j, w) ==
  IF w.priv = NoPem THEN Abstain
  ELSE SignVerdict(w.organ, j.action, IF w.organ \in j.blocking THEN "block" ELSE "allow", w.priv)

\* A signature by an honest key is over a statement that attest had signed with it.
Backed(row, made) ==
  row # Abstain /\ row.signature \in Signatures /\ row.signature.pem \notin FaultyPems =>
    [pem |-> row.signature.pem, body |-> row.signature.body] \in made

\* The registry only grows, so an earlier n is a lower bound of a later one.
CheckedEarlier(t) ==
  /\ pc[t] # "idle" => job[t].begun <= adds /\ job[t].n <= Len(registry)
  /\ pc[t] \notin {"idle", "raised"} => ValidQuorumCounts(Threshold, job[t].n)

Answered(t) ==
  /\ pc[t] \in {"idle", "asking"} => job[t].collected = <<>> /\ job[t].read = <<>>
  /\ Len(job[t].collected) <= Len(job[t].asked)
  /\ \A i \in 1..Len(job[t].collected) :
       /\ job[t].asked[i].priv \in Pems \cup {NoPem}
       /\ job[t].collected[i] = AnswerOf(job[t], job[t].asked[i])
       /\ Backed(job[t].collected[i], signed)
  /\ pc[t] \in {"tallying", "assembling", "publishing", "done"} =>
       Len(job[t].collected) = Len(job[t].asked)

\* While the dict is iterated.
ReadSoFar(t) ==
  /\ job[t].read # <<>> =>
       /\ job[t].n <= job[t].size
       /\ job[t].size <= Len(registry)
       /\ Len(job[t].read) <= job[t].size
  /\ pc[t] \in {"tallying", "assembling", "done"} => job[t].read = <<>>

\* No more witnesses are counted than keys were read, nor keys than witnesses read later.
CountBounded(t) ==
  /\ pc[t] = "tallying" =>
       /\ IsFiniteSet(DOMAIN job[t].pubkeys)
       /\ Cardinality(DOMAIN job[t].pubkeys) <= Len(registry)
  /\ pc[t] = "assembling" => job[t].outcome \in TallyOutcomes /\ job[t].outcome.count <= Len(registry)
  /\ pc[t] = "publishing" => job[t].outcome \in TallyOutcomes /\ job[t].outcome.count <= job[t].n

\* What tally returns for the witnesses asked, under their own keys.
OutcomeOf(j) == TallyOutcome(j.action, j.collected, PubkeysOf(j.asked), Threshold, Len(j.asked))

\* As long as add has not been called since the call began, all of its reads agree.
QuietSoFar(t) ==
  job[t].begun = adds =>
    /\ pc[t] \in {"signing", "tallying", "assembling", "publishing"} => job[t].asked = registry
    /\ pc[t] \in {"signing", "publishing"} =>
         \A i \in DOMAIN job[t].read : job[t].read[i] = PublicOf(job[t].asked)[i]
    /\ pc[t] = "tallying" => job[t].pubkeys = PubkeysOf(job[t].asked)
    /\ pc[t] \in {"assembling", "publishing"} => job[t].outcome = OutcomeOf(job[t])
    /\ pc[t] = "publishing" => job[t].n = Len(job[t].asked)

\* A returned receipt, and what it says when add was not called during the call.
Returned(t) ==
  pc[t] = "done" =>
    /\ job[t].receipt \in Receipts
    /\ job[t].receipt.signatures = job[t].collected
    /\ job[t].receipt.count <= job[t].receipt.n
    /\ job[t].begun <= job[t].ended
    /\ job[t].ended <= adds
    /\ job[t].begun = job[t].ended =>
         /\ job[t].receipt.schema = RECEIPT_SCHEMA
         /\ job[t].receipt.action = job[t].action
         /\ job[t].receipt.threshold = Threshold
         /\ ValidQuorumCounts(Threshold, Len(job[t].asked))
         /\ job[t].receipt.n = Len(job[t].asked)
         /\ job[t].receipt.witnesses = PublicOf(job[t].asked)
         /\ job[t].receipt.decision = OutcomeOf(job[t]).decision
         /\ job[t].receipt.count = OutcomeOf(job[t]).count

RaisedFor(t) ==
  pc[t] = "raised" =>
    \/ ~ValidQuorumCounts(Threshold, job[t].n)
    \/ \E i \in DOMAIN job[t].asked : job[t].asked[i].priv = BadPem
    \/ Len(registry) > job[t].n

CallInv(t) ==
  /\ job[t] \in JobRecord
  /\ CheckedEarlier(t)
  /\ Answered(t)
  /\ ReadSoFar(t)
  /\ CountBounded(t)
  /\ QuietSoFar(t)
  /\ Returned(t)
  /\ RaisedFor(t)

\* The receipt that travels: its rows were around, and an unedited one is the one returned.
Travelling == [phase : {"travelling"}, from : Callers, receipt : Receipts, edits : Nat]

DeskInv ==
  /\ desk = EmptyDesk \/ desk.phase \in {"travelling", "judged"}
  /\ desk.phase = "travelling" => desk \in Travelling
  /\ desk.phase \in {"travelling", "judged"} =>
       /\ desk.from \in Callers /\ desk.receipt \in Receipts
       /\ pc[desk.from] = "done"
       /\ desk.receipt.signatures # Junk =>
            \A i \in DOMAIN desk.receipt.signatures : Backed(desk.receipt.signatures[i], signed)
       /\ desk.edits = 0 => desk.receipt = job[desk.from].receipt
  /\ desk.phase = "judged" =>
       /\ job[desk.from].ended <= desk.at /\ desk.at \in Nat
       /\ desk.result = VerifyReceipt(desk.receipt, desk.trusted, Threshold)

Shape ==
  /\ scenario \in Scenario
  /\ registry \in Registries
  /\ adds \in 0..scenario.maxAdds
  /\ signed \subseteq [pem : Pems, body : Statements]
  /\ pc \in [Callers -> Labels]
  /\ job \in [DOMAIN scenario.calls -> JobRecord]
  /\ DOMAIN scenario.calls \subseteq Callers
  /\ \A t \in Callers : pc[t] # "idle" => t \in DOMAIN job

IInv ==
  /\ Shape
  /\ \A t \in DOMAIN job : CallInv(t)
  /\ DeskInv

-----------------------------------------------------------------------------
(* What the steps of one call leave alone.                                  *)

\* The calls that do not move keep what is known of them when other calls step, and when
\* add is called.
LEMMA OthersKeep ==
  ASSUME NEW u, CallInv(u), job'[u] = job[u], pc'[u] = pc[u], signed \subseteq signed',
         adds \in Nat, Len(registry) \in Nat, Len(registry') \in Nat,
         \/ registry' = registry /\ adds' = adds
         \/ adds' = adds + 1 /\ Len(registry') >= Len(registry)
  PROVE  CallInv(u)'
<1>1. job'[u] \in JobRecord
  BY DEF CallInv
<1>2. /\ job[u].begun \in Nat /\ job[u].ended \in Nat /\ job[u].n \in Nat
      /\ job[u].size \in Nat
  BY DEF CallInv, JobRecord
<1>3. CheckedEarlier(u)'
  BY <1>2 DEF CallInv, CheckedEarlier
<1>4. Answered(u)'
  BY DEF CallInv, Answered, Backed
<1>5. ReadSoFar(u)'
  BY <1>2 DEF CallInv, ReadSoFar
<1>6. CountBounded(u)'
  <2>1. pc[u] = "tallying" => Cardinality(DOMAIN job[u].pubkeys) \in Nat
    BY FS_CardinalityType DEF CallInv, CountBounded
  <2>2. pc[u] \in {"assembling", "publishing"} => job[u].outcome.count \in Nat
    BY DEF CallInv, CountBounded, TallyOutcomes
  <2> QED
    BY <1>2, <2>1, <2>2 DEF CallInv, CountBounded
<1>7. QuietSoFar(u)'
  <2>1. CASE registry' = registry /\ adds' = adds
    BY <2>1 DEF CallInv, QuietSoFar
  <2>2. CASE adds' = adds + 1 /\ pc[u] # "idle"
    BY <1>2, <2>2 DEF CallInv, QuietSoFar, CheckedEarlier
  <2>3. CASE pc[u] = "idle"
    BY <2>3 DEF QuietSoFar
  <2> QED
    BY <2>1, <2>2, <2>3
<1>8. Returned(u)'
  BY <1>2 DEF CallInv, Returned
<1>9. RaisedFor(u)'
  BY <1>2 DEF CallInv, RaisedFor
<1> QED
  BY <1>1, <1>3, <1>4, <1>5, <1>6, <1>7, <1>8, <1>9 DEF CallInv

\* A step of one call is all that a step need be shown to do for that call.
LEMMA OneCallMoves ==
  ASSUME IInv, NEW t \in DOMAIN job, NEW j \in JobRecord, NEW label \in Labels \ {"idle"},
         job' = [job EXCEPT ![t] = j], pc' = [pc EXCEPT ![t] = label],
         pc[t] # "done",
         signed \subseteq signed', signed' \subseteq [pem : Pems, body : Statements],
         UNCHANGED <<scenario, registry, adds, desk>>,
         CallInv(t)'
  PROVE  IInv'
<1>1. Shape'
  BY DEF IInv, Shape
<1>2. DOMAIN job' = DOMAIN job /\ t \in Callers
  BY DEF IInv, Shape
<1>3. ASSUME NEW u \in DOMAIN job PROVE CallInv(u)'
  <2>1. CASE u = t
    BY <2>1
  <2>2. CASE u # t
    <3>1. job'[u] = job[u] /\ pc'[u] = pc[u]
      BY <1>2, <2>2 DEF IInv, Shape
    <3>2. adds \in Nat /\ Len(registry) \in Nat
      BY PublicTyped DEF IInv, Shape
    <3> QED
      BY <3>1, <3>2, OthersKeep DEF IInv
  <2> QED
    BY <2>1, <2>2
<1>4. DeskInv'
  <2>1. desk.phase \in {"travelling", "judged"} =>
          pc'[desk.from] = "done" /\ job'[desk.from] = job[desk.from]
    BY <1>2 DEF IInv, DeskInv, Shape
  <2>2. \A row : Backed(row, signed) => Backed(row, signed')
    BY DEF Backed
  <2> QED
    BY <2>1, <2>2 DEF IInv, DeskInv
<1> QED
  BY <1>1, <1>2, <1>3, <1>4 DEF IInv

-----------------------------------------------------------------------------
(* The steps of a call.                                                     *)

\* What holds before any step of a call.
LEMMA Before ==
  ASSUME IInv, NEW t \in DOMAIN job
  PROVE  /\ CallInv(t) /\ t \in Callers /\ job[t] \in JobRecord /\ pc[t] \in Labels
         /\ registry \in Registries /\ registry \in Seq(Witnesses) /\ Len(registry) \in Nat
         /\ adds \in Nat /\ signed \subseteq [pem : Pems, body : Statements]
         /\ job = [job EXCEPT ![t] = job[t]] /\ pc = [pc EXCEPT ![t] = pc[t]]
         /\ DOMAIN job = DOMAIN scenario.calls
         /\ pc \in [Callers -> Labels] /\ job \in [DOMAIN job -> JobRecord]
         /\ job[t].asked \in Seq(Witnesses) /\ Len(job[t].asked) \in Nat
         /\ job[t].collected \in Seq(Items) /\ Len(job[t].collected) \in Nat
         /\ job[t].read \in Seq(PublicWitnesses) /\ Len(job[t].read) \in Nat
         /\ DOMAIN job[t].asked = 1..Len(job[t].asked)
<1>1. CallInv(t) /\ job[t] \in JobRecord
  BY DEF IInv, CallInv
<1>2. registry \in Seq(Witnesses) /\ job[t].asked \in Seq(Witnesses)
  BY <1>1 DEF IInv, Shape, Registries, JobRecord
<1>3. job[t].collected \in Seq(Items) /\ job[t].read \in Seq(PublicWitnesses)
  BY <1>1 DEF JobRecord
<1>4. job = [job EXCEPT ![t] = job[t]] /\ pc = [pc EXCEPT ![t] = pc[t]]
  BY DEF IInv, Shape
<1> QED
  BY <1>1, <1>2, <1>3, <1>4, LenProperties DEF IInv, Shape, Scenario

LEMMA BeginStep ==
  ASSUME IInv, NEW t \in Callers, Begin(t)
  PROVE  IInv'
<1> DEFINE j == [[job[t] EXCEPT !.begun = adds] EXCEPT !.n = Len(registry)]
           label == IF ValidQuorumCounts(Threshold, Len(registry)) THEN "asking" ELSE "raised"
<1>1. t \in DOMAIN job /\ pc[t] = "idle"
  BY DEF Begin
<1>0. job[t] \in JobRecord /\ adds \in Nat /\ Len(registry) \in Nat
  BY <1>1, Before
<1>2. j \in JobRecord
  <2>1. [job[t] EXCEPT !.begun = adds] \in JobRecord
    BY <1>0 DEF JobRecord
  <2> QED
    BY <1>0, <2>1 DEF JobRecord
<1>3. job' = [job EXCEPT ![t] = j] /\ pc' = [pc EXCEPT ![t] = label]
  BY <1>1, Before DEF Begin, Goto
<1>4. UNCHANGED <<scenario, registry, adds, signed, desk>>
  BY DEF Begin
<1>5. job'[t] = j /\ pc'[t] = label /\ label \in {"asking", "raised"}
  BY <1>1, <1>3, Before
<1>6. CallInv(t)'
  BY <1>1, <1>2, <1>4, <1>5, Before
     DEF CallInv, CheckedEarlier, Answered, ReadSoFar, CountBounded, QuietSoFar,
         Returned, RaisedFor, Backed, JobRecord
<1> QED
  BY <1>1, <1>2, <1>3, <1>4, <1>5, <1>6, Before, OneCallMoves DEF Labels

LEMMA SnapshotStep ==
  ASSUME IInv, NEW t \in DOMAIN job, Snapshot(t)
  PROVE  IInv'
<1> DEFINE j == [job[t] EXCEPT !.asked = registry]
<1>0. job[t] \in JobRecord /\ registry \in Registries
  BY Before
<1>1. j \in JobRecord
  BY <1>0 DEF JobRecord
<1>2. job' = [job EXCEPT ![t] = j] /\ pc' = [pc EXCEPT ![t] = "signing"]
  BY Before DEF Snapshot, Goto
<1>3. pc[t] = "asking" /\ UNCHANGED <<scenario, registry, adds, signed, desk>>
  BY DEF Snapshot
<1>4. job'[t] = j /\ pc'[t] = "signing"
  BY <1>2, Before
<1>5. j.collected = <<>> /\ j.read = <<>>
  BY <1>3, Before DEF CallInv, Answered, JobRecord
<1>6. CheckedEarlier(t)'
  BY <1>1, <1>3, <1>4, <1>5, Before DEF CallInv, CheckedEarlier, JobRecord
<1>7. Answered(t)'
  BY <1>1, <1>3, <1>4, <1>5, Before DEF CallInv, Answered, JobRecord
<1>8. ReadSoFar(t)'
  BY <1>1, <1>3, <1>4, <1>5, Before DEF CallInv, ReadSoFar, JobRecord
<1>9. CountBounded(t)' /\ Returned(t)' /\ RaisedFor(t)'
  BY <1>1, <1>3, <1>4, <1>5, Before DEF CallInv, CountBounded, Returned, RaisedFor
<1>10. QuietSoFar(t)'
  BY <1>1, <1>3, <1>4, <1>5, Before DEF CallInv, QuietSoFar, JobRecord
<1>11. CallInv(t)'
  BY <1>1, <1>4, <1>6, <1>7, <1>8, <1>9, <1>10 DEF CallInv
<1> QED
  BY <1>1, <1>2, <1>3, <1>11, Before, OneCallMoves DEF Labels

\* A witness has answered.
LEMMA CollectStep ==
  ASSUME IInv, NEW t \in DOMAIN job, MoreToAsk(t), NEW row \in Items,
         NextWitness(t).priv \in Pems \cup {NoPem},
         row = AnswerOf(job[t], NextWitness(t)),
         job' = [job EXCEPT ![t].collected = Append(@, row)],
         signed \subseteq signed', signed' \subseteq [pem : Pems, body : Statements],
         Backed(row, signed'),
         UNCHANGED <<scenario, registry, adds, pc, desk>>
  PROVE  IInv'
<1> DEFINE new == Append(job[t].collected, row)
           j   == [job[t] EXCEPT !.collected = new]
<1>1. /\ job[t] \in JobRecord /\ CallInv(t) /\ pc[t] = "signing"
      /\ job[t].collected \in Seq(Items) /\ Len(job[t].collected) \in Nat
      /\ Len(job[t].asked) \in Nat
      /\ Len(job[t].collected) < Len(job[t].asked)
  BY Before DEF MoreToAsk
<1>2. /\ new \in Seq(Items)
      /\ Len(new) = Len(job[t].collected) + 1
      /\ \A i \in 1..Len(job[t].collected) : new[i] = job[t].collected[i]
      /\ new[Len(new)] = row
  BY <1>1, AppendProperties
<1> HIDE DEF new
<1>3. j \in JobRecord
  BY <1>1, <1>2 DEF JobRecord
<1>4. job' = [job EXCEPT ![t] = j] /\ pc' = [pc EXCEPT ![t] = "signing"]
  BY <1>1, Before DEF new
<1>5. job'[t] = j /\ pc'[t] = "signing"
  BY <1>4, Before
<1>6. /\ j.collected = new /\ j.asked = job[t].asked /\ j.read = job[t].read
      /\ j.n = job[t].n /\ j.begun = job[t].begun /\ j.size = job[t].size
      /\ \A w : AnswerOf(j, w) = AnswerOf(job[t], w)
  BY <1>1 DEF JobRecord, AnswerOf
<1> HIDE DEF j
<1>7. CheckedEarlier(t)' /\ ReadSoFar(t)' /\ CountBounded(t)'
  BY <1>1, <1>5, <1>6 DEF CallInv, CheckedEarlier, ReadSoFar, CountBounded
<1>11. QuietSoFar(t)'
  BY <1>1, <1>5, <1>6 DEF CallInv, QuietSoFar
<1>8. Returned(t)' /\ RaisedFor(t)'
  BY <1>5 DEF Returned, RaisedFor
<1>9. Answered(t)'
  <2>1. \A i \in 1..Len(new) :
          /\ j.asked[i].priv \in Pems \cup {NoPem}
          /\ new[i] = AnswerOf(j, j.asked[i])
          /\ Backed(new[i], signed')
    <3> TAKE i \in 1..Len(new)
    <3>1. CASE i \in 1..Len(job[t].collected)
      <4>1. /\ job[t].asked[i].priv \in Pems \cup {NoPem}
            /\ job[t].collected[i] = AnswerOf(job[t], job[t].asked[i])
            /\ Backed(job[t].collected[i], signed)
        BY <1>1, <3>1 DEF CallInv, Answered
      <4>2. Backed(job[t].collected[i], signed')
        BY <4>1 DEF Backed
      <4> QED
        BY <1>2, <1>6, <3>1, <4>1, <4>2
    <3>2. CASE i = Len(new)
      <4>1. NextWitness(t) = j.asked[i]
        BY <1>2, <1>6, <3>2 DEF NextWitness
      <4> QED
        BY <1>2, <1>6, <3>2, <4>1
    <3> QED
      BY <1>1, <1>2, <3>1, <3>2
  <2> QED
    <3>1. Len(new) <= Len(j.asked)
      BY <1>1, <1>2, <1>6
    <3>2. job'[t].collected = new /\ job'[t].asked = j.asked /\ job'[t] = j
      BY <1>5, <1>6
    <3> QED
      BY <1>5, <2>1, <3>1, <3>2 DEF Answered
<1>10. CallInv(t)'
  BY <1>3, <1>5, <1>7, <1>8, <1>9, <1>11 DEF CallInv
<1> QED
  BY <1>1, <1>3, <1>4, <1>10, OneCallMoves DEF Labels

LEMMA AbstainStepKeeps ==
  ASSUME IInv, NEW t \in DOMAIN job, AbstainStep(t)
  PROVE  IInv'
<1>1. Backed(Abstain, signed')
  BY DEF Backed
<1> QED
  BY <1>1, Before, CollectStep DEF AbstainStep, AnswerOf, Items

LEMMA SignStepKeeps ==
  ASSUME IInv, NEW t \in DOMAIN job, SignStep(t)
  PROVE  IInv'
<1>1. /\ MoreToAsk(t)
      /\ NextWitness(t).priv \in Pems
  BY DEF SignStep
<1>2. NextWitness(t) \in Witnesses /\ job[t].action \in Actions
  <2>1. Len(job[t].collected) + 1 \in 1..Len(job[t].asked)
    BY <1>1, Before DEF MoreToAsk
  <2>2. job[t].action \in Actions
    BY Before DEF JobRecord
  <2> QED
    BY <2>1, <2>2, Before, ElementOfSeq DEF NextWitness
<1>3. VoteOf(t, NextWitness(t).organ) \in {"allow", "block"}
  BY DEF VoteOf
<1>4. PICK row : row = SignVerdict(NextWitness(t).organ, job[t].action,
                                   VoteOf(t, NextWitness(t).organ), NextWitness(t).priv)
  OBVIOUS
<1>5. /\ job' = [job EXCEPT ![t].collected = Append(@, row)]
      /\ signed' = signed \cup {[pem |-> NextWitness(t).priv, body |-> row.payload]}
      /\ UNCHANGED <<scenario, registry, adds, pc, desk>>
  BY <1>4 DEF SignStep
<1>6. /\ row \in Rows
      /\ row.payload \in Statements
      /\ row.signature.pem = NextWitness(t).priv
      /\ row.signature.body = row.payload
  BY <1>1, <1>2, <1>3, <1>4, SignVerdictTyped DEF Witnesses
<1>7. row = AnswerOf(job[t], NextWitness(t))
  BY <1>1, <1>4, PemAssumption DEF AnswerOf, VoteOf
<1>8. Backed(row, signed')
  BY <1>5, <1>6 DEF Backed
<1>9. signed' \subseteq [pem : Pems, body : Statements]
  BY <1>1, <1>5, <1>6, Before
<1> QED
  BY <1>1, <1>5, <1>6, <1>7, <1>8, <1>9, CollectStep DEF Items

LEMMA RaiseKeeps ==
  ASSUME IInv, NEW t \in DOMAIN job, pc[t] \in {"signing", "publishing"},
         Goto(t, "raised"), UNCHANGED <<scenario, registry, adds, signed, job, desk>>,
         RaisedFor(t)'
  PROVE  IInv'
<1>1. job[t] \in JobRecord /\ CallInv(t)
  BY Before
<1>2. job' = [job EXCEPT ![t] = job[t]] /\ pc' = [pc EXCEPT ![t] = "raised"]
  BY Before DEF Goto
<1>3. job'[t] = job[t] /\ pc'[t] = "raised"
  BY <1>2, Before
<1>4. CheckedEarlier(t)' /\ Answered(t)' /\ ReadSoFar(t)'
  BY <1>1, <1>3 DEF CallInv, CheckedEarlier, Answered, ReadSoFar, Backed
<1>5. CountBounded(t)' /\ QuietSoFar(t)' /\ Returned(t)'
  BY <1>3 DEF CountBounded, QuietSoFar, Returned
<1>6. CallInv(t)'
  BY <1>1, <1>3, <1>4, <1>5 DEF CallInv
<1> QED
  BY <1>1, <1>2, <1>6, Before, OneCallMoves DEF Labels

LEMMA SignRaisesKeeps ==
  ASSUME IInv, NEW t \in DOMAIN job, SignRaises(t)
  PROVE  IInv'
<1>1. Len(job[t].collected) + 1 \in DOMAIN job[t].asked /\ pc[t] = "signing"
  BY Before DEF SignRaises, MoreToAsk
<1>2. RaisedFor(t)'
  BY <1>1 DEF SignRaises, RaisedFor, NextWitness
<1> QED
  BY <1>1, <1>2, RaiseKeeps DEF SignRaises

LEMMA ReadRaisesKeeps ==
  ASSUME IInv, NEW t \in DOMAIN job, ReadRaises(t)
  PROVE  IInv'
<1>1. /\ job[t].read # <<>> /\ Len(registry) # job[t].size
      /\ pc[t] \in {"signing", "publishing"}
      /\ UNCHANGED <<registry, job>>
  BY DEF ReadRaises, Grown, Reading, AllAsked
<1>2. job[t].n <= job[t].size /\ job[t].size <= Len(registry)
  BY <1>1, Before DEF CallInv, ReadSoFar
<1>3. job[t].n \in Nat /\ job[t].size \in Nat
  BY Before DEF JobRecord
<1>4. RaisedFor(t)'
  BY <1>1, <1>2, <1>3, Before DEF RaisedFor
<1> QED
  BY <1>1, <1>4, RaiseKeeps DEF ReadRaises

LEMMA ReadWitnessKeeps ==
  ASSUME IInv, NEW t \in DOMAIN job, ReadWitness(t)
  PROVE  IInv'
<1> DEFINE next == PublicOf(registry)[Len(job[t].read) + 1]
           new  == Append(job[t].read, next)
           size == IF job[t].read = <<>> THEN Len(registry) ELSE job[t].size
           j    == [[job[t] EXCEPT !.size = size] EXCEPT !.read = new]
<1>1. /\ job[t] \in JobRecord /\ CallInv(t) /\ pc[t] \in {"signing", "publishing"}
      /\ job[t].read \in Seq(PublicWitnesses) /\ Len(job[t].read) \in Nat
      /\ job[t].n \in Nat /\ job[t].size \in Nat
      /\ Len(registry) \in Nat
      /\ UNCHANGED <<scenario, registry, adds, signed, pc, desk>>
  BY Before DEF ReadWitness, Reading, AllAsked, JobRecord
<1>2. /\ job[t].n <= size /\ size = Len(registry)
      /\ Len(job[t].read) < Len(registry)
  <2>1. CASE job[t].read = <<>>
    BY <1>1, <2>1, Before DEF ReadWitness, Grown, AllRead, CallInv, CheckedEarlier
  <2>2. CASE job[t].read # <<>>
    BY <1>1, <2>2 DEF ReadWitness, Grown, AllRead, CallInv, ReadSoFar
  <2> QED
    BY <2>1, <2>2
<1>3. next \in PublicWitnesses
  BY <1>1, <1>2, PublicTyped, Before
<1>4. /\ new \in Seq(PublicWitnesses)
      /\ Len(new) = Len(job[t].read) + 1
      /\ \A i \in 1..Len(job[t].read) : new[i] = job[t].read[i]
      /\ new[Len(new)] = next
      /\ DOMAIN new = 1..Len(new)
      /\ DOMAIN job[t].read = 1..Len(job[t].read)
  BY <1>1, <1>3, AppendProperties, LenProperties
<1> HIDE DEF new, next, size
<1>5. j \in JobRecord
  <2>1. [job[t] EXCEPT !.size = size] \in JobRecord
    BY <1>1, <1>2 DEF JobRecord
  <2> QED
    BY <1>4, <2>1 DEF JobRecord
<1>6. job' = [job EXCEPT ![t] = j] /\ pc' = [pc EXCEPT ![t] = pc[t]]
  BY <1>1, Before DEF ReadWitness, new, next, size
<1>7. job'[t] = j /\ pc'[t] = pc[t]
  BY <1>6, Before
<1>8. /\ j.read = new /\ j.size = size /\ j.n = job[t].n /\ j.begun = job[t].begun
      /\ j.collected = job[t].collected /\ j.asked = job[t].asked
      /\ j.action = job[t].action /\ j.blocking = job[t].blocking
      /\ j.outcome = job[t].outcome
      /\ OutcomeOf(j) = OutcomeOf(job[t])
      /\ \A w : AnswerOf(j, w) = AnswerOf(job[t], w)
  BY <1>1 DEF JobRecord, AnswerOf, OutcomeOf
<1> HIDE DEF j
<1>9. CheckedEarlier(t)' /\ Answered(t)' /\ CountBounded(t)'
  BY <1>1, <1>7, <1>8 DEF CallInv, CheckedEarlier, Answered, CountBounded
<1>10. ReadSoFar(t)'
  BY <1>1, <1>2, <1>4, <1>7, <1>8 DEF ReadSoFar
<1>11. Returned(t)' /\ RaisedFor(t)'
  BY <1>1, <1>7 DEF Returned, RaisedFor
<1>12. QuietSoFar(t)'
  <2>1. job[t].begun = adds =>
          /\ job[t].asked = registry
          /\ \A i \in DOMAIN job[t].read : job[t].read[i] = PublicOf(job[t].asked)[i]
    BY <1>1 DEF CallInv, QuietSoFar
  <2>2. job[t].begun = adds => \A i \in DOMAIN new : new[i] = PublicOf(job[t].asked)[i]
    BY <1>1, <1>4, <2>1 DEF next
  <2> QED
    BY <1>1, <1>7, <1>8, <2>1, <2>2 DEF CallInv, QuietSoFar
<1>13. CallInv(t)'
  BY <1>5, <1>7, <1>9, <1>10, <1>11, <1>12 DEF CallInv
<1> QED
  BY <1>1, <1>5, <1>6, <1>13, Before, OneCallMoves DEF Labels

LEMMA ReadPubkeysKeeps ==
  ASSUME IInv, NEW t \in DOMAIN job, ReadPubkeys(t)
  PROVE  IInv'
<1> DEFINE keys == PubkeysOf(job[t].read)
           j    == [[job[t] EXCEPT !.pubkeys = keys] EXCEPT !.read = <<>>]
<1>1. /\ job[t] \in JobRecord /\ CallInv(t) /\ pc[t] = "signing"
      /\ Len(job[t].collected) = Len(job[t].asked)
      /\ job[t].read \in Seq(PublicWitnesses) /\ Len(job[t].read) = Len(registry)
      /\ Len(registry) \in Nat /\ registry \in Registries
      /\ UNCHANGED <<scenario, registry, adds, signed, desk>>
  BY Before DEF ReadPubkeys, AllAsked, AllRead
<1>2. /\ IsFiniteSet(DOMAIN keys)
      /\ Cardinality(DOMAIN keys) <= Len(registry)
      /\ keys \in PubkeyMaps
  <2>1. DOMAIN keys = OrgansOf(job[t].read)
    BY DEF PubkeysOf
  <2> QED
    BY <1>1, <2>1, OrgansCount, PubkeysTyped
<1>3. job[t].begun = adds => job[t].asked = registry /\ keys = PubkeysOf(job[t].asked)
  BY <1>1, PublicKeys DEF CallInv, QuietSoFar
<1> HIDE DEF keys
<1>4. j \in JobRecord
  <2>1. [job[t] EXCEPT !.pubkeys = keys] \in JobRecord
    BY <1>1, <1>2 DEF JobRecord
  <2>2. <<>> \in Seq(PublicWitnesses)
    BY EmptySeq
  <2> QED
    BY <2>1, <2>2 DEF JobRecord
<1>5. job' = [job EXCEPT ![t] = j] /\ pc' = [pc EXCEPT ![t] = "tallying"]
  BY <1>1, Before DEF ReadPubkeys, Goto, keys
<1>6. job'[t] = j /\ pc'[t] = "tallying"
  BY <1>5, Before
<1>7. /\ j.read = <<>> /\ j.pubkeys = keys /\ j.n = job[t].n /\ j.begun = job[t].begun
      /\ j.collected = job[t].collected /\ j.asked = job[t].asked
      /\ \A w : AnswerOf(j, w) = AnswerOf(job[t], w)
  BY <1>1 DEF JobRecord, AnswerOf
<1> HIDE DEF j
<1>8. CheckedEarlier(t)' /\ Answered(t)' /\ ReadSoFar(t)'
  BY <1>1, <1>6, <1>7 DEF CallInv, CheckedEarlier, Answered, ReadSoFar
<1>9. CountBounded(t)' /\ Returned(t)' /\ RaisedFor(t)'
  BY <1>1, <1>2, <1>6, <1>7 DEF CountBounded, Returned, RaisedFor
<1>10. QuietSoFar(t)'
  BY <1>1, <1>3, <1>6, <1>7 DEF QuietSoFar
<1>11. CallInv(t)'
  BY <1>4, <1>6, <1>8, <1>9, <1>10 DEF CallInv
<1> QED
  BY <1>1, <1>4, <1>5, <1>11, Before, OneCallMoves DEF Labels

LEMMA TallyStepKeeps ==
  ASSUME IInv, NEW t \in DOMAIN job, TallyStep(t)
  PROVE  IInv'
<1> DEFINE result == TallyOutcome(job[t].action, job[t].collected, job[t].pubkeys,
                                  Threshold, Len(registry))
           j == [job[t] EXCEPT !.outcome = result]
<1>1. /\ job[t] \in JobRecord /\ CallInv(t) /\ pc[t] = "tallying"
      /\ Len(registry) \in Nat
      /\ UNCHANGED <<scenario, registry, adds, signed, desk>>
  BY Before DEF TallyStep
<1>2. /\ IsFiniteSet(DOMAIN job[t].pubkeys)
      /\ Cardinality(DOMAIN job[t].pubkeys) <= Len(registry)
  BY <1>1 DEF CallInv, CountBounded
<1>3. result \in TallyOutcomes /\ result.count <= Cardinality(DOMAIN job[t].pubkeys)
  BY <1>2, OutcomeBounded
<1>4. result.count <= Len(registry)
  BY <1>1, <1>2, <1>3, FS_CardinalityType DEF TallyOutcomes
<1>5. job[t].begun = adds => result = OutcomeOf(job[t])
  BY <1>1 DEF CallInv, QuietSoFar, OutcomeOf
<1> HIDE DEF result
<1>6. j \in JobRecord
  BY <1>1, <1>3 DEF JobRecord
<1>7. job' = [job EXCEPT ![t] = j] /\ pc' = [pc EXCEPT ![t] = "assembling"]
  BY <1>1, Before DEF TallyStep, Goto, result
<1>8. job'[t] = j /\ pc'[t] = "assembling"
  BY <1>7, Before
<1>9. /\ j.outcome = result /\ j.read = job[t].read /\ j.n = job[t].n /\ j.size = job[t].size
      /\ j.begun = job[t].begun /\ j.collected = job[t].collected /\ j.asked = job[t].asked
      /\ \A w : AnswerOf(j, w) = AnswerOf(job[t], w)
      /\ OutcomeOf(j) = OutcomeOf(job[t])
  BY <1>1 DEF JobRecord, AnswerOf, OutcomeOf
<1> HIDE DEF j
<1>10. CheckedEarlier(t)' /\ Answered(t)' /\ ReadSoFar(t)'
  BY <1>1, <1>8, <1>9 DEF CallInv, CheckedEarlier, Answered, ReadSoFar
<1>11. CountBounded(t)' /\ Returned(t)' /\ RaisedFor(t)'
  BY <1>1, <1>3, <1>4, <1>8, <1>9 DEF CountBounded, Returned, RaisedFor
<1>12. QuietSoFar(t)'
  <2>1. j.begun = adds => j.asked = registry
    BY <1>1, <1>9 DEF CallInv, QuietSoFar
  <2>2. OutcomeOf(job[t])' = OutcomeOf(j)
    BY <1>8 DEF OutcomeOf
  <2> QED
    BY <1>1, <1>5, <1>8, <1>9, <2>1, <2>2 DEF QuietSoFar
<1>13. CallInv(t)'
  BY <1>6, <1>8, <1>10, <1>11, <1>12 DEF CallInv
<1> QED
  BY <1>1, <1>6, <1>7, <1>13, Before, OneCallMoves DEF Labels

LEMMA ReadNKeeps ==
  ASSUME IInv, NEW t \in DOMAIN job, ReadN(t)
  PROVE  IInv'
<1> DEFINE j == [job[t] EXCEPT !.n = Len(registry)]
<1>1. /\ job[t] \in JobRecord /\ CallInv(t) /\ pc[t] = "assembling"
      /\ Len(registry) \in Nat /\ job[t].n \in Nat
      /\ UNCHANGED <<scenario, registry, adds, signed, desk>>
  BY Before DEF ReadN, JobRecord
<1>2. j \in JobRecord
  BY <1>1 DEF JobRecord
<1>3. job' = [job EXCEPT ![t] = j] /\ pc' = [pc EXCEPT ![t] = "publishing"]
  BY <1>1, Before DEF ReadN, Goto, N
<1>4. job'[t] = j /\ pc'[t] = "publishing"
  BY <1>3, Before
<1>5. /\ j.n = Len(registry) /\ j.outcome = job[t].outcome /\ j.read = job[t].read
      /\ j.begun = job[t].begun /\ j.collected = job[t].collected /\ j.asked = job[t].asked
      /\ \A w : AnswerOf(j, w) = AnswerOf(job[t], w)
      /\ OutcomeOf(j) = OutcomeOf(job[t])
  BY <1>1 DEF JobRecord, AnswerOf, OutcomeOf
<1> HIDE DEF j
<1>6. job[t].read = <<>> /\ j.read = <<>>
  BY <1>1, <1>5 DEF CallInv, ReadSoFar
<1>7. CheckedEarlier(t)'
  BY <1>1, <1>4, <1>5 DEF CallInv, CheckedEarlier, ValidQuorumCounts
<1>8. Answered(t)' /\ ReadSoFar(t)' /\ CountBounded(t)'
  BY <1>1, <1>4, <1>5, <1>6 DEF CallInv, Answered, ReadSoFar, CountBounded
<1>9. Returned(t)' /\ RaisedFor(t)'
  BY <1>4 DEF Returned, RaisedFor
<1>10. QuietSoFar(t)'
  <2>1. j.begun = adds => j.asked = registry /\ j.outcome = OutcomeOf(j)
    BY <1>1, <1>5 DEF CallInv, QuietSoFar
  <2>2. OutcomeOf(job[t])' = OutcomeOf(j)
    BY <1>4 DEF OutcomeOf
  <2>3. DOMAIN j.read = {}
    BY <1>6
  <2> QED
    BY <1>1, <1>4, <1>5, <2>1, <2>2, <2>3 DEF QuietSoFar
<1>11. CallInv(t)'
  BY <1>2, <1>4, <1>7, <1>8, <1>9, <1>10 DEF CallInv
<1> QED
  BY <1>1, <1>2, <1>3, <1>11, Before, OneCallMoves DEF Labels

LEMMA IssueKeeps ==
  ASSUME IInv, NEW t \in DOMAIN job, Issue(t)
  PROVE  IInv'
<1> DEFINE rec == [schema     |-> RECEIPT_SCHEMA,
                   action     |-> job[t].action,
                   threshold  |-> Threshold,
                   n          |-> job[t].n,
                   decision   |-> job[t].outcome.decision,
                   count      |-> job[t].outcome.count,
                   signatures |-> job[t].collected,
                   witnesses  |-> job[t].read]
           j   == [[[job[t] EXCEPT !.ended = adds] EXCEPT !.read = <<>>] EXCEPT !.receipt = rec]
<1>1. /\ job[t] \in JobRecord /\ CallInv(t) /\ pc[t] = "publishing"
      /\ job[t].read \in Seq(PublicWitnesses) /\ Len(job[t].read) = Len(registry)
      /\ Len(registry) \in Nat /\ adds \in Nat /\ registry \in Registries
      /\ UNCHANGED <<scenario, registry, adds, signed, desk>>
  BY Before DEF Issue, AllRead
<1>2. /\ job[t].outcome \in TallyOutcomes /\ job[t].outcome.count <= job[t].n
      /\ ValidQuorumCounts(Threshold, job[t].n) /\ job[t].begun <= adds
  BY <1>1 DEF CallInv, CheckedEarlier, CountBounded
<1>3. rec \in Receipts
  <2>1. /\ job[t].action \in Actions /\ job[t].n \in Nat /\ job[t].collected \in Seq(Items)
    BY <1>1 DEF JobRecord
  <2>2. Threshold \in Int
    BY <1>2 DEF ValidQuorumCounts
  <2>3. job[t].outcome.decision \in {"canonical", "rejected"} /\ job[t].outcome.count \in Nat
    BY <1>2 DEF TallyOutcomes
  <2> QED
    BY <1>1, <2>1, <2>2, <2>3 DEF Receipts
<1>4. /\ rec.schema = RECEIPT_SCHEMA /\ rec.action = job[t].action
      /\ rec.threshold = Threshold /\ rec.n = job[t].n
      /\ rec.decision = job[t].outcome.decision /\ rec.count = job[t].outcome.count
      /\ rec.signatures = job[t].collected /\ rec.witnesses = job[t].read
  OBVIOUS
<1> HIDE DEF rec
<1>5. job[t].begun = adds =>
        /\ job[t].n = Len(job[t].asked)
        /\ job[t].read = PublicOf(job[t].asked)
        /\ job[t].outcome = OutcomeOf(job[t])
  BY <1>1, PublicKeys DEF CallInv, QuietSoFar
<1>6. j \in JobRecord
  <2>1. [job[t] EXCEPT !.ended = adds] \in JobRecord
    BY <1>1 DEF JobRecord
  <2>2. <<>> \in Seq(PublicWitnesses)
    BY EmptySeq
  <2>3. [[job[t] EXCEPT !.ended = adds] EXCEPT !.read = <<>>] \in JobRecord
    BY <2>1, <2>2 DEF JobRecord
  <2> QED
    BY <1>3, <2>3 DEF JobRecord
<1>7. job' = [job EXCEPT ![t] = j] /\ pc' = [pc EXCEPT ![t] = "done"]
  BY <1>1, Before DEF Issue, Goto, rec
<1>8. job'[t] = j /\ pc'[t] = "done"
  BY <1>7, Before
<1>9. /\ j.n = job[t].n /\ j.read = <<>> /\ j.receipt = rec
      /\ j.action = job[t].action /\ j.begun = job[t].begun /\ j.ended = adds
      /\ j.collected = job[t].collected /\ j.asked = job[t].asked
      /\ \A w : AnswerOf(j, w) = AnswerOf(job[t], w)
      /\ OutcomeOf(j) = OutcomeOf(job[t])
  BY <1>1 DEF JobRecord, AnswerOf, OutcomeOf
<1> HIDE DEF j
<1>10. CheckedEarlier(t)' /\ Answered(t)' /\ ReadSoFar(t)'
  BY <1>1, <1>8, <1>9 DEF CallInv, CheckedEarlier, Answered, ReadSoFar
<1>11. CountBounded(t)' /\ QuietSoFar(t)' /\ RaisedFor(t)'
  BY <1>8, <1>9 DEF CountBounded, QuietSoFar, RaisedFor
<1>12. Returned(t)'
  <2>1. OutcomeOf(job[t])' = OutcomeOf(j)
    BY <1>8 DEF OutcomeOf
  <2>2. job[t].begun = adds => ValidQuorumCounts(Threshold, Len(job[t].asked))
    BY <1>2, <1>5
  <2> QED
    BY <1>1, <1>2, <1>3, <1>4, <1>5, <1>8, <1>9, <2>1, <2>2 DEF Returned
<1>13. CallInv(t)'
  BY <1>6, <1>8, <1>10, <1>11, <1>12 DEF CallInv
<1> QED
  BY <1>1, <1>6, <1>7, <1>13, Before, OneCallMoves DEF Labels

\* The next step of a call, whichever it is.
LEMMA AttestKeeps ==
  ASSUME IInv, NEW t \in Callers, Attest(t)
  PROVE  IInv'
<1>1. t \in DOMAIN job
  <2>1. pc[t] # "idle"
    BY DEF Attest, Snapshot, AbstainStep, SignStep, SignRaises, ReadWitness, ReadRaises,
           ReadPubkeys, TallyStep, ReadN, Issue, MoreToAsk, Reading, AllAsked
  <2> QED
    BY <2>1 DEF IInv, Shape
<1> QED
  BY <1>1, SnapshotStep, AbstainStepKeeps, SignStepKeeps, SignRaisesKeeps, ReadWitnessKeeps,
     ReadRaisesKeeps, ReadPubkeysKeeps, TallyStepKeeps, ReadNKeeps, IssueKeeps DEF Attest

LEMMA AddStepKeeps ==
  ASSUME IInv, Add
  PROVE  IInv'
<1>1. PICK w \in scenario.joining : registry' = AddWitness(registry, w)
  BY DEF Add
<1>2. /\ adds' = adds + 1 /\ adds < scenario.maxAdds
      /\ UNCHANGED <<scenario, signed, pc, job, desk>>
  BY DEF Add
<1>3. w \in Witnesses /\ scenario.maxAdds \in Nat /\ registry \in Registries
  BY DEF IInv, Shape, Scenario
<1>4. /\ registry' \in Registries /\ Len(registry') >= Len(registry)
      /\ Len(registry) \in Nat /\ Len(registry') \in Nat
  BY <1>1, <1>3, AddKeepsRegistry, PublicTyped
<1>5. adds \in Nat /\ adds' \in 0..scenario.maxAdds
  BY <1>2, <1>3 DEF IInv, Shape
<1>6. Shape'
  BY <1>2, <1>4, <1>5 DEF IInv, Shape
<1>7. ASSUME NEW u \in DOMAIN job PROVE CallInv(u)'
  BY <1>2, <1>4, <1>5, OthersKeep DEF IInv
<1>8. DeskInv'
  BY <1>2 DEF IInv, DeskInv
<1> QED
  BY <1>2, <1>6, <1>7, <1>8 DEF IInv

-----------------------------------------------------------------------------
(* The steps of a receipt in other hands.                                   *)

\* A step of the desk leaves the calls as they are.
LEMMA DeskMoves ==
  ASSUME IInv, UNCHANGED <<scenario, registry, adds, signed, pc, job>>, DeskInv'
  PROVE  IInv'
<1>1. Shape'
  BY DEF IInv, Shape
<1>2. ASSUME NEW u \in DOMAIN job PROVE CallInv(u)'
  <2>1. adds \in Nat /\ Len(registry) \in Nat
    BY PublicTyped DEF IInv, Shape
  <2> QED
    BY <2>1, OthersKeep DEF IInv
<1> QED
  BY <1>1, <1>2 DEF IInv

\* What is known of a caller whose receipt has left.
LEMMA DoneCall ==
  ASSUME IInv, NEW t \in Callers, pc[t] = "done"
  PROVE  /\ t \in DOMAIN job
         /\ job[t].receipt \in Receipts
         /\ job[t].receipt.signatures = job[t].collected
         /\ job[t].ended <= adds
         /\ adds \in Nat
         /\ \A i \in DOMAIN job[t].collected : Backed(job[t].collected[i], signed)
<1>1. t \in DOMAIN job
  BY DEF IInv, Shape
<1>2. CallInv(t) /\ adds \in Nat /\ DOMAIN job[t].collected = 1..Len(job[t].collected)
  BY <1>1, Before, LenProperties
<1> QED
  BY <1>1, <1>2 DEF CallInv, Returned, Answered

LEMMA SendKeeps ==
  ASSUME IInv, Send
  PROVE  IInv'
<1>1. PICK t \in Callers :
        /\ pc[t] = "done"
        /\ desk' = [phase |-> "travelling", from |-> t, receipt |-> job[t].receipt, edits |-> 0]
  BY DEF Send
<1>2. UNCHANGED <<scenario, registry, adds, signed, pc, job>>
  BY DEF Send
<1>3. /\ desk'.phase = "travelling" /\ desk'.from = t /\ desk'.receipt = job[t].receipt
      /\ desk' \in Travelling
  BY <1>1, DoneCall DEF Travelling
<1>4. DeskInv'
  BY <1>1, <1>2, <1>3, DoneCall DEF DeskInv
<1> QED
  BY <1>2, <1>4, DeskMoves

\* Removing an entry leaves entries that were there.
LEMMA RemoveAtKeepsEntries ==
  ASSUME NEW S, NEW s \in Seq(S), NEW i \in DOMAIN s
  PROVE  /\ RemoveAt(s, i) \in Seq(S)
         /\ \A k \in DOMAIN RemoveAt(s, i) : \E m \in DOMAIN s : RemoveAt(s, i)[k] = s[m]
<1>1. i \in 1..Len(s) /\ Len(s) \in Nat
  BY LenProperties
<1> DEFINE a == SubSeq(s, 1, i - 1)
           b == SubSeq(s, i + 1, Len(s))
           c == a \o b
<1>2. a \in Seq(S) /\ Len(a) = i - 1 /\ \A k \in 1..Len(a) : a[k] = s[k]
  BY <1>1, SubSeqProperties
<1>3. b \in Seq(S) /\ Len(b) = Len(s) - i /\ \A k \in 1..Len(b) : b[k] = s[i + k]
  BY <1>1, SubSeqProperties
<1> HIDE DEF a, b
<1>4. /\ c \in Seq(S)
      /\ Len(c) = Len(s) - 1
      /\ \A k \in 1..(Len(s) - 1) : c[k] = IF k < i THEN s[k] ELSE s[k + 1]
  BY <1>1, <1>2, <1>3, ConcatProperties
<1> HIDE DEF c
<1>5. DOMAIN c = 1..(Len(s) - 1) /\ DOMAIN s = 1..Len(s)
  BY <1>4, LenProperties
<1>6. ASSUME NEW k \in DOMAIN c PROVE \E m \in DOMAIN s : c[k] = s[m]
  <2>1. k \in DOMAIN s /\ k + 1 \in DOMAIN s
    BY <1>1, <1>5
  <2>2. k \in 1..(Len(s) - 1)
    BY <1>5
  <2>3. c[k] = s[k] \/ c[k] = s[k + 1]
    BY <1>4, <2>2
  <2> QED
    BY <2>1, <2>3
<1>7. RemoveAt(s, i) = c
  BY DEF RemoveAt, a, b, c
<1> QED
  BY <1>4, <1>6, <1>7

\* The rows anyone can come by hold no signature of an honest key that attest did not ask for.
LEMMA RowsAroundBacked ==
  ASSUME IInv, NEW row \in RowsAround
  PROVE  row \in Items /\ Backed(row, signed)
<1> DEFINE Sent   == UNION {ToSet(r.signatures) : r \in Issued}
           Forged == {SignVerdict(o, a, "allow", p) : o \in Organs, a \in Actions, p \in FaultyPems}
<1>1. CASE row = Abstain
  BY <1>1 DEF Items, Backed
<1>2. CASE row \in Sent
  <2>1. PICK t \in Callers : pc[t] = "done" /\ row \in ToSet(job[t].receipt.signatures)
    BY <1>2 DEF Issued
  <2>2. /\ job[t].receipt.signatures = job[t].collected
        /\ job[t].collected \in Seq(Items)
        /\ \A i \in DOMAIN job[t].collected : Backed(job[t].collected[i], signed)
    BY <2>1, DoneCall, Before
  <2>3. PICK i \in DOMAIN job[t].collected : row = job[t].collected[i]
    BY <2>1, <2>2 DEF ToSet
  <2>4. i \in 1..Len(job[t].collected)
    BY <2>2, LenProperties
  <2> QED
    BY <2>2, <2>3, <2>4, ElementOfSeq
<1>3. CASE row \in Forged
  <2>1. PICK o \in Organs, a \in Actions, p \in FaultyPems : row = SignVerdict(o, a, "allow", p)
    BY <1>3
  <2>2. row \in Rows /\ row.signature.pem = p
    BY <2>1, SignVerdictTyped, SystemAssumption DEF OrganNames
  <2> QED
    BY <2>1, <2>2 DEF Items, Backed
<1>4. row \in {Abstain} \cup Sent \cup Forged
  BY DEF RowsAround
<1> HIDE DEF Sent, Forged
<1> QED
  BY <1>1, <1>2, <1>3, <1>4

\* Whatever is edited, the rows remain rows that were around.
RowsBacked(r) ==
  r.signatures # Junk =>
    \A i \in DOMAIN r.signatures : r.signatures[i] \in Items /\ Backed(r.signatures[i], signed)

LEMMA RowEditsBacked ==
  ASSUME IInv, NEW r0 \in Receipts, RowsBacked(r0), NEW r \in RowEdits(r0)
  PROVE  r \in Receipts /\ RowsBacked(r)
<1> DEFINE sigs == r0.signatures
<1>1. /\ sigs \in Seq(Items)
      /\ DOMAIN sigs = 1..Len(sigs) /\ Len(sigs) \in Nat
      /\ \A i \in DOMAIN sigs : sigs[i] \in Items /\ Backed(sigs[i], signed)
  <2>1. sigs # Junk /\ sigs \in Seq(Items)
    BY DEF RowEdits, Receipts
  <2> QED
    BY <2>1, LenProperties DEF RowsBacked
<1>2. ASSUME NEW new \in Seq(Items), r = [r0 EXCEPT !.signatures = new],
             \A k \in DOMAIN new : Backed(new[k], signed)
      PROVE  r \in Receipts /\ RowsBacked(r)
  <2>1. r \in Receipts
    BY <1>2 DEF Receipts
  <2>2. r.signatures = new
    BY <1>2 DEF Receipts
  <2>3. \A k \in DOMAIN new : new[k] \in Items
    BY ElementOfSeq, LenProperties
  <2> QED
    BY <1>2, <2>1, <2>2, <2>3 DEF RowsBacked
<1>3. CASE \E i \in DOMAIN sigs : r = [r0 EXCEPT !.signatures = RemoveAt(sigs, i)]
  <2>1. PICK i \in DOMAIN sigs : r = [r0 EXCEPT !.signatures = RemoveAt(sigs, i)]
    BY <1>3
  <2>2. /\ RemoveAt(sigs, i) \in Seq(Items)
        /\ \A k \in DOMAIN RemoveAt(sigs, i) : \E m \in DOMAIN sigs : RemoveAt(sigs, i)[k] = sigs[m]
    BY <1>1, RemoveAtKeepsEntries
  <2>3. \A k \in DOMAIN RemoveAt(sigs, i) : Backed(RemoveAt(sigs, i)[k], signed)
    BY <1>1, <2>2
  <2> QED
    BY <1>2, <2>1, <2>2, <2>3
<1>4. CASE \E i \in DOMAIN sigs, row \in RowsAround :
             r = [r0 EXCEPT !.signatures = [sigs EXCEPT ![i] = row]]
  <2>1. PICK i \in DOMAIN sigs, row \in RowsAround :
          r = [r0 EXCEPT !.signatures = [sigs EXCEPT ![i] = row]]
    BY <1>4
  <2>2. row \in Items /\ Backed(row, signed)
    BY <2>1, RowsAroundBacked
  <2>3. [sigs EXCEPT ![i] = row] \in Seq(Items)
    BY <1>1, <2>2, ExceptSeq
  <2>4. \A k \in DOMAIN [sigs EXCEPT ![i] = row] : Backed([sigs EXCEPT ![i] = row][k], signed)
    BY <1>1, <2>2
  <2> QED
    BY <1>2, <2>1, <2>3, <2>4
<1>5. CASE \E row \in RowsAround : r = [r0 EXCEPT !.signatures = Append(sigs, row)]
  <2>1. PICK row \in RowsAround : r = [r0 EXCEPT !.signatures = Append(sigs, row)]
    BY <1>5
  <2>2. row \in Items /\ Backed(row, signed)
    BY <2>1, RowsAroundBacked
  <2> DEFINE new == Append(sigs, row)
  <2>3. /\ new \in Seq(Items)
        /\ Len(new) = Len(sigs) + 1
        /\ \A k \in 1..Len(sigs) : new[k] = sigs[k]
        /\ new[Len(sigs) + 1] = row
    BY <1>1, <2>2, AppendProperties
  <2>4. DOMAIN new = 1..(Len(sigs) + 1)
    BY <2>3, LenProperties
  <2> HIDE DEF new
  <2>5. \A k \in DOMAIN new : Backed(new[k], signed)
    BY <1>1, <2>2, <2>3, <2>4
  <2> QED
    BY <1>2, <2>1, <2>3, <2>5 DEF new
<1>6. /\ r0.signatures # Junk
      /\ r \in {[r0 EXCEPT !.signatures = RemoveAt(sigs, i)] : i \in DOMAIN sigs}
               \cup {[r0 EXCEPT !.signatures[i] = row] : i \in DOMAIN sigs, row \in RowsAround}
               \cup {[r0 EXCEPT !.signatures = Append(sigs, row)] : row \in RowsAround}
  BY DEF RowEdits
<1>7. \/ \E i \in DOMAIN sigs : r = [r0 EXCEPT !.signatures = RemoveAt(sigs, i)]
      \/ \E i \in DOMAIN sigs, row \in RowsAround : r = [r0 EXCEPT !.signatures[i] = row]
      \/ \E row \in RowsAround : r = [r0 EXCEPT !.signatures = Append(sigs, row)]
  BY <1>6
<1>8. ASSUME NEW i \in DOMAIN sigs, NEW row
      PROVE  [r0 EXCEPT !.signatures[i] = row]
               = [r0 EXCEPT !.signatures = [sigs EXCEPT ![i] = row]]
  OBVIOUS
<1> QED
  BY <1>3, <1>4, <1>5, <1>7, <1>8

LEMMA ClaimEditsBacked ==
  ASSUME IInv, Threshold \in Int, NEW r0 \in Receipts, RowsBacked(r0), NEW r \in ClaimEdits(r0)
  PROVE  r \in Receipts /\ RowsBacked(r)
<1>1. CASE r.signatures = r0.signatures /\ r \in Receipts
  BY <1>1 DEF RowsBacked
<1>2. ASSUME NEW k \in {1, Threshold}, r = [r0 EXCEPT !.threshold = k]
      PROVE  r.signatures = r0.signatures /\ r \in Receipts
  BY <1>2 DEF Receipts
<1>3. ASSUME NEW d \in {"canonical", "rejected"}, r = [r0 EXCEPT !.decision = d]
      PROVE  r.signatures = r0.signatures /\ r \in Receipts
  BY <1>3 DEF Receipts
<1>4. ASSUME NEW a \in Actions, r = [r0 EXCEPT !.action = a]
      PROVE  r.signatures = r0.signatures /\ r \in Receipts
  BY <1>4 DEF Receipts
<1>5. ASSUME r = [r0 EXCEPT !.witnesses = PublicOf(registry), !.n = Len(registry)]
      PROVE  r.signatures = r0.signatures /\ r \in Receipts
  <2>1. PublicOf(registry) \in Seq(PublicWitnesses) /\ Len(registry) \in Int
    BY PublicTyped DEF IInv, Shape
  <2>2. [r0 EXCEPT !.witnesses = PublicOf(registry)] \in Receipts
    BY <2>1 DEF Receipts
  <2>3. /\ r = [[r0 EXCEPT !.witnesses = PublicOf(registry)] EXCEPT !.n = Len(registry)]
        /\ [r0 EXCEPT !.witnesses = PublicOf(registry)].signatures = r0.signatures
    BY <1>5 DEF Receipts
  <2> QED
    BY <2>1, <2>2, <2>3 DEF Receipts
<1>6. ASSUME r = [r0 EXCEPT !.schema = "other"]
      PROVE  r.signatures = r0.signatures /\ r \in Receipts
  BY <1>6 DEF Receipts
<1>7. ASSUME r = [r0 EXCEPT !.witnesses = Junk]
      PROVE  r.signatures = r0.signatures /\ r \in Receipts
  BY <1>7 DEF Receipts
<1>8. ASSUME r = [r0 EXCEPT !.signatures = Junk]
      PROVE  r \in Receipts /\ RowsBacked(r)
  BY <1>8 DEF Receipts, RowsBacked
<1>9. \/ \E k \in {1, Threshold} : r = [r0 EXCEPT !.threshold = k]
      \/ \E d \in {"canonical", "rejected"} : r = [r0 EXCEPT !.decision = d]
      \/ \E a \in Actions : r = [r0 EXCEPT !.action = a]
      \/ r = [r0 EXCEPT !.witnesses = PublicOf(registry), !.n = Len(registry)]
      \/ r = [r0 EXCEPT !.schema = "other"]
      \/ r = [r0 EXCEPT !.signatures = Junk]
      \/ r = [r0 EXCEPT !.witnesses = Junk]
  BY Zenon DEF ClaimEdits
<1> QED
  BY <1>1, <1>2, <1>3, <1>4, <1>5, <1>6, <1>7, <1>8, <1>9

LEMMA EditKeeps ==
  ASSUME IInv, Edit
  PROVE  IInv'
<1>1. PICK r \in RowEdits(desk.receipt) \cup ClaimEdits(desk.receipt) :
        desk' = [desk EXCEPT !.receipt = r, !.edits = @ + 1]
  BY DEF Edit
<1>2. /\ desk.phase = "travelling" /\ desk \in Travelling
      /\ UNCHANGED <<scenario, registry, adds, signed, pc, job>>
  BY DEF Edit, IInv, DeskInv
<1>3. /\ desk.receipt \in Receipts /\ RowsBacked(desk.receipt)
      /\ pc[desk.from] = "done" /\ desk.from \in Callers
  <2>1. desk.receipt.signatures # Junk =>
          \A i \in DOMAIN desk.receipt.signatures : Backed(desk.receipt.signatures[i], signed)
    BY <1>2 DEF IInv, DeskInv
  <2>2. desk.receipt \in Receipts
    BY <1>2 DEF Travelling
  <2>3. desk.receipt.signatures # Junk =>
          \A i \in DOMAIN desk.receipt.signatures : desk.receipt.signatures[i] \in Items
    BY <2>2, ElementOfSeq, LenProperties DEF Receipts
  <2> QED
    BY <1>2, <2>1, <2>2, <2>3 DEF RowsBacked, IInv, DeskInv
<1>4. Threshold \in Int
  BY <1>3, DoneCall, Before DEF CallInv, CheckedEarlier, ValidQuorumCounts
<1>5. r \in Receipts /\ RowsBacked(r)
  BY <1>1, <1>3, <1>4, RowEditsBacked, ClaimEditsBacked
<1>6. /\ desk' \in Travelling /\ desk'.phase = "travelling"
      /\ desk'.receipt = r /\ desk'.from = desk.from /\ desk'.edits # 0
  <2> DEFINE d == [desk EXCEPT !.receipt = r]
  <2>1. d \in Travelling
    BY <1>2, <1>5 DEF Travelling
  <2>2. desk' = [d EXCEPT !.edits = d.edits + 1]
    BY <1>1, <1>2 DEF Travelling
  <2>3. d.edits = desk.edits /\ d.edits \in Nat
    BY <1>2 DEF Travelling
  <2> HIDE DEF d
  <2>4. desk' \in Travelling
    BY <2>1, <2>2, <2>3 DEF Travelling
  <2>5. /\ desk'.phase = desk.phase /\ desk'.receipt = r /\ desk'.from = desk.from
        /\ desk'.edits = desk.edits + 1
    BY <1>1, <1>2 DEF Travelling
  <2>6. desk.edits + 1 # 0
    BY <2>3
  <2> QED
    BY <1>2, <2>4, <2>5, <2>6
<1>7. DeskInv'
  BY <1>2, <1>3, <1>5, <1>6 DEF DeskInv, RowsBacked
<1> QED
  BY <1>2, <1>7, DeskMoves

LEMMA JudgeKeeps ==
  ASSUME IInv, Judge
  PROVE  IInv'
<1>1. PICK keys \in {PubkeysOf(registry)} \cup scenario.policies :
        desk' = [phase   |-> "judged",
                 from    |-> desk.from,
                 receipt |-> desk.receipt,
                 edits   |-> desk.edits,
                 trusted |-> keys,
                 at      |-> adds,
                 result  |-> VerifyReceipt(desk.receipt, keys, Threshold)]
  BY DEF Judge
<1>2. desk.phase = "travelling" /\ UNCHANGED <<scenario, registry, adds, signed, pc, job>>
  BY DEF Judge
<1>3. /\ desk'.phase = "judged" /\ desk'.from = desk.from /\ desk'.receipt = desk.receipt
      /\ desk'.edits = desk.edits /\ desk'.trusted = keys /\ desk'.at = adds
      /\ desk'.result = VerifyReceipt(desk.receipt, keys, Threshold)
  BY <1>1
<1>4. job[desk.from].ended <= adds /\ adds \in Nat
  BY <1>2, DoneCall DEF IInv, DeskInv
<1>5. DeskInv'
  BY <1>2, <1>3, <1>4 DEF IInv, DeskInv
<1> QED
  BY <1>2, <1>5, DeskMoves

LEMMA FileKeeps ==
  ASSUME IInv, File
  PROVE  IInv'
<1>1. DeskInv'
  BY DEF File, DeskInv, EmptyDesk
<1> QED
  BY <1>1, DeskMoves DEF File

-----------------------------------------------------------------------------
(* The invariant holds.                                                     *)

LEMMA InitHolds == Init => IInv
<1> SUFFICES ASSUME Init PROVE IInv
  OBVIOUS
<1>1. /\ scenario \in Scenario /\ registry = scenario.registry /\ adds = 0 /\ signed = {}
      /\ pc = [t \in Callers |-> "idle"] /\ desk = EmptyDesk
  BY SystemAssumption DEF Init
<1>2. PICK C \in SUBSET Callers : scenario.calls \in [C -> Ask]
  BY <1>1 DEF Scenario
<1>3. \A t \in DOMAIN scenario.calls :
        scenario.calls[t].action \in Actions /\ scenario.calls[t].blocking \in SUBSET Organs
  BY <1>2 DEF Ask
<1>4. /\ registry \in Registries /\ Len(registry) \in Nat /\ scenario.maxAdds \in Nat
  BY <1>1, PublicTyped DEF Scenario
<1>5. <<>> \in Registries /\ <<>> \in Seq(Items) /\ <<>> \in Seq(PublicWitnesses)
      /\ <<>> \in PubkeyMaps /\ Len(<<>>) = 0
  <2>1. <<>> \in [{} -> Pems \cup {NoPem, BadPem}]
    OBVIOUS
  <2>2. <<>> \in PubkeyMaps
    BY <2>1 DEF PubkeyMaps
  <2>3. <<>> \in Registries
    BY EmptySeq DEF Registries
  <2> QED
    BY <2>2, <2>3, EmptySeq
<1>6. ASSUME NEW t \in DOMAIN scenario.calls
      PROVE  /\ job[t] \in JobRecord
             /\ job[t].collected = <<>> /\ job[t].read = <<>> /\ job[t].asked = <<>>
  BY <1>3, <1>5 DEF Init, JobRecord
<1>7. DOMAIN job = DOMAIN scenario.calls /\ job \in [DOMAIN scenario.calls -> JobRecord]
  BY <1>6 DEF Init
<1>8. Shape
  BY <1>1, <1>2, <1>4, <1>7 DEF Shape, Labels
<1>9. ASSUME NEW t \in DOMAIN job PROVE CallInv(t)
  <2>1. pc[t] = "idle"
    BY <1>1, <1>2, <1>7
  <2>2. CheckedEarlier(t) /\ Answered(t) /\ ReadSoFar(t)
    BY <1>5, <1>6, <1>7, <2>1 DEF CheckedEarlier, Answered, ReadSoFar
  <2>3. CountBounded(t) /\ QuietSoFar(t) /\ Returned(t) /\ RaisedFor(t)
    BY <2>1 DEF CountBounded, QuietSoFar, Returned, RaisedFor
  <2> QED
    BY <1>6, <1>7, <2>2, <2>3 DEF CallInv
<1>10. DeskInv
  BY <1>1 DEF DeskInv, EmptyDesk
<1> QED
  BY <1>8, <1>9, <1>10 DEF IInv

LEMMA NextKeeps == IInv /\ [Next]_vars => IInv'
<1> SUFFICES ASSUME IInv, [Next]_vars PROVE IInv'
  OBVIOUS
<1>1. CASE UNCHANGED vars
  BY <1>1 DEF vars, IInv, Shape, CallInv, CheckedEarlier, Answered, ReadSoFar, CountBounded,
              QuietSoFar, OutcomeOf, Returned, RaisedFor, DeskInv
<1>2. CASE Terminating
  BY <1>1, <1>2 DEF Terminating
<1> QED
  BY <1>1, <1>2, AddStepKeeps, BeginStep, AttestKeeps, SendKeeps, EditKeeps, JudgeKeeps,
     FileKeeps DEF Next

LEMMA Invariant == Spec => []IInv
  BY InitHolds, NextKeeps, PTL DEF Spec

-----------------------------------------------------------------------------
(* What a returned receipt says of the witnesses asked.                     *)

\* Of the rows collected, exactly those of the willing witnesses allow the action, each in
\* the name of its own organ.
LEMMA WillingSupport ==
  ASSUME IInv, NEW t \in Callers, pc[t] = "done", NEW i \in DOMAIN job[t].asked,
         NEW o \in OrganNames
  PROVE  Supports(job[t].collected[i], o, PubkeysOf(job[t].asked), job[t].action)
           <=> o = job[t].asked[i].organ /\ i \in Willing(t)
<1> DEFINE w   == job[t].asked[i]
           row == job[t].collected[i]
           pem == PubkeyOf(PubkeysOf(job[t].asked), w.organ)
<1>1. /\ t \in DOMAIN job /\ CallInv(t) /\ job[t] \in JobRecord
      /\ job[t].asked \in Registries /\ job[t].asked \in Seq(Witnesses)
      /\ job[t].action \in Actions
      /\ i \in 1..Len(job[t].asked) /\ i \in 1..Len(job[t].collected)
  <2>1. t \in DOMAIN job
    BY DEF IInv, Shape
  <2> QED
    BY <2>1, Before DEF CallInv, Answered, JobRecord
<1>2. w \in Witnesses /\ w.priv \in Pems \cup {NoPem} /\ row = AnswerOf(job[t], w)
  BY <1>1, ElementOfSeq DEF CallInv, Answered
<1>3. pem = w.pem
  BY <1>1, OwnKey
<1> HIDE DEF pem, row, w
<1>4. CASE w.priv = NoPem
  <2>1. row = Abstain
    BY <1>2, <1>4 DEF AnswerOf
  <2> QED
    BY <1>4, <2>1, PemAssumption DEF Supports, Willing, w, row
<1>5. CASE w.priv \in Pems
  <2> DEFINE vote == IF w.organ \in job[t].blocking THEN "block" ELSE "allow"
  <2>1. row = SignVerdict(w.organ, job[t].action, vote, w.priv)
    BY <1>2, <1>5, PemAssumption DEF AnswerOf
  <2>2. /\ row # Abstain
        /\ row.organ = w.organ
        /\ row.keyid = KeyidOf(w.organ)
        /\ row.type = VerdictType
        /\ row.payload = [schema |-> Schema, organ |-> w.organ, keyid |-> KeyidOf(w.organ),
                          action |-> job[t].action, verdict |-> vote]
        /\ row.signature = SignatureBy(w.priv, VerdictType, row.payload)
    <3>1. row \in Rows
      BY <1>1, <1>2, <1>5, <2>1, SignVerdictTyped DEF Witnesses
    <3>2. row # Abstain
      BY <3>1, BytesAssumption
    <3> QED
      BY <2>1, <3>2 DEF SignVerdict
  <2>3. i \in Willing(t) <=> w.organ \in Organs /\ vote = "allow" /\ w.priv = w.pem
    BY <1>5 DEF Willing, w
  <2>4. row.payload = SignedAllow(w.organ, job[t].action) <=> vote = "allow"
    BY <2>2 DEF SignedAllow
  <2>5. row.signature = SignatureBy(pem, VerdictType, row.payload) <=> w.priv = w.pem
    BY <1>3, <2>2 DEF SignatureBy
  <2> HIDE DEF vote
  <2>6. CASE o = w.organ
    BY <1>3, <1>5, <2>2, <2>3, <2>4, <2>5, <2>6 DEF Supports, pem, row, w
  <2>7. CASE o # w.organ
    BY <2>2, <2>7 DEF Supports, row, w
  <2> QED
    BY <2>6, <2>7
<1> QED
  BY <1>2, <1>4, <1>5

LEMMA WillingCounted ==
  ASSUME IInv, NEW t \in Callers, pc[t] = "done"
  PROVE  Cardinality(AllowingWitnesses(job[t].action, job[t].collected, PubkeysOf(job[t].asked)))
           = Cardinality(Willing(t))
<1> DEFINE A == AllowingWitnesses(job[t].action, job[t].collected, PubkeysOf(job[t].asked))
           f == [i \in Willing(t) |-> job[t].asked[i].organ]
<1>1. /\ t \in DOMAIN job /\ CallInv(t) /\ job[t].asked \in Registries
      /\ job[t].asked \in Seq(Witnesses)
      /\ DOMAIN job[t].asked = 1..Len(job[t].asked) /\ Len(job[t].asked) \in Nat
      /\ DOMAIN job[t].collected = DOMAIN job[t].asked
  <2>1. t \in DOMAIN job
    BY DEF IInv, Shape
  <2>2. Len(job[t].collected) = Len(job[t].asked)
    BY <2>1, Before DEF CallInv, Answered
  <2> QED
    BY <2>1, <2>2, Before, LenProperties DEF JobRecord
<1>2. Willing(t) \subseteq 1..Len(job[t].asked)
  BY <1>1 DEF Willing
<1>3. IsFiniteSet(Willing(t))
  <2>1. IsFiniteSet(1..Len(job[t].asked))
    BY <1>1, FS_Interval
  <2> QED
    BY <1>2, <2>1, FS_Subset
<1>4. \A i \in Willing(t) : job[t].asked[i].organ \in OrganNames
  BY DEF Willing, OrganNames
<1>5. A = {job[t].asked[i].organ : i \in Willing(t)}
  <2>1. ASSUME NEW o \in A PROVE \E i \in Willing(t) : o = job[t].asked[i].organ
    <3>1. PICK i \in DOMAIN job[t].asked :
            Supports(job[t].collected[i], o, PubkeysOf(job[t].asked), job[t].action)
      BY <1>1 DEF AllowingWitnesses
    <3>2. o \in OrganNames
      BY DEF AllowingWitnesses
    <3> QED
      BY <3>1, <3>2, WillingSupport
  <2>2. ASSUME NEW i \in Willing(t) PROVE job[t].asked[i].organ \in A
    <3>1. i \in DOMAIN job[t].asked
      BY DEF Willing
    <3>2. Supports(job[t].collected[i], job[t].asked[i].organ, PubkeysOf(job[t].asked),
                   job[t].action)
      BY <1>4, <3>1, WillingSupport
    <3> QED
      BY <1>1, <1>4, <3>1, <3>2 DEF AllowingWitnesses
  <2> QED
    BY <2>1, <2>2
<1>6. f \in Surjection(Willing(t), A)
  BY <1>5 DEF Surjection
<1>7. \A i, k \in Willing(t) : job[t].asked[i].organ = job[t].asked[k].organ => i = k
  BY <1>1 DEF Willing, Registries
<1>8. f \in Injection(Willing(t), A)
  BY <1>6, <1>7 DEF Injection, IsInjective, Surjection
<1> HIDE DEF f, A
<1>9. Cardinality(A) = Cardinality(Willing(t))
  BY <1>3, <1>6, <1>8, FS_Surjection
<1> QED
  BY <1>9 DEF A

-----------------------------------------------------------------------------
(* The properties.                                                          *)

\* Every variable keeps its type, for any registry, callers and history (witness.py: attest,
\* WitnessRegistry.add, verify_receipt).
THEOREM TypeCorrect == Spec => []TypeOK
<1>1. IInv => TypeOK
  <2> SUFFICES ASSUME IInv PROVE TypeOK
    OBVIOUS
  <2>1. \A t \in DOMAIN job :
          /\ job[t].collected \in Seq(Items)
          /\ Len(job[t].collected) <= Len(job[t].asked)
          /\ job[t].asked \in Registries
          /\ pc[t] = "done" => job[t].receipt \in Receipts
    BY DEF IInv, CallInv, JobRecord, Answered, Returned
  <2>2. desk.phase \in {"empty", "travelling", "judged"}
        /\ (desk.phase # "empty" => desk.receipt \in Receipts)
    BY DEF IInv, DeskInv, EmptyDesk
  <2> QED
    BY <2>1, <2>2 DEF IInv, Shape, TypeOK
<1> QED
  BY <1>1, Invariant, PTL

\* However the registry grows while attest reads it, a receipt never claims more counting
\* witnesses than witnesses (witness.py: attest reads n after the keys).
THEOREM CountNeverExceedsN == Spec => []CountWithinN
<1>1. IInv => CountWithinN
  BY DEF IInv, Shape, CallInv, Returned, CountWithinN
<1> QED
  BY <1>1, Invariant, PTL

\* attest raises only for malformed counts, a private key that does not load, or an organ
\* that joined during the call (witness.py: attest, WitnessRegistry.pubkeys and public).
THEOREM RaisesForCause == Spec => []RaisesOnlyForCause
<1>1. IInv => RaisesOnlyForCause
  BY DEF IInv, Shape, CallInv, RaisedFor, RaisesOnlyForCause
<1> QED
  BY <1>1, Invariant, PTL

\* In a quiet registry the decision is canonical exactly when a quorum is willing, whatever
\* the others do (witness.py: attest).
THEOREM QuorumDecides == Spec => []QuorumSuffices
<1>1. ASSUME IInv, NEW t \in Callers, pc[t] = "done", job[t].begun = job[t].ended
      PROVE  job[t].receipt.decision = "canonical" <=> Cardinality(Willing(t)) >= Threshold
  <2>1. CallInv(t)
    BY <1>1 DEF IInv, Shape
  <2>2. /\ job[t].receipt.decision = OutcomeOf(job[t]).decision
        /\ ValidQuorumCounts(Threshold, Len(job[t].asked))
    BY <1>1, <2>1 DEF CallInv, Returned
  <2> QED
    BY <1>1, <2>2, WillingCounted DEF OutcomeOf, TallyOutcome
<1>2. IInv => QuorumSuffices
  BY <1>1 DEF QuorumSuffices
<1> QED
  BY <1>2, Invariant, PTL

\* What a canonical result of verify_receipt rests on.
LEMMA CanonicalResult ==
  ASSUME NEW r \in Receipts, NEW trusted, NEW threshold,
         VerifyReceipt(r, trusted, threshold).decision = "canonical"
  PROVE  /\ IsFiniteSet(DOMAIN trusted)
         /\ threshold \in Int
         /\ r.signatures # Junk
         /\ Cardinality(AllowingWitnesses(r.action, r.signatures, trusted)) >= threshold
<1> DEFINE result == VerifyReceipt(r, trusted, threshold)
<1>1. /\ ~PolicyRefused(trusted, threshold)
      /\ TrustPolicyMatches(r, trusted, threshold)
      /\ ValidSignatureEntries(r.signatures, trusted)
      /\ TallyOutcome(r.action, r.signatures, trusted, threshold,
                      Cardinality(DOMAIN trusted)).decision = "canonical"
  BY DEF VerifyReceipt
<1>2. threshold \in Int /\ r.signatures # Junk
  BY <1>1 DEF PolicyRefused, ValidSignatureEntries
<1>3. Cardinality(AllowingWitnesses(r.action, r.signatures, trusted)) >= threshold
  BY <1>1 DEF TallyOutcome
<1>4. IsFiniteSet(DOMAIN trusted)
  <2>1. r.witnesses \in Seq(PublicWitnesses) /\ trusted = PubkeysOf(r.witnesses)
    BY <1>1 DEF TrustPolicyMatches, EmbeddedWellFormed, Receipts
  <2> QED
    BY <2>1, OrgansCount DEF PubkeysOf
<1> QED
  BY <1>2, <1>3, <1>4

\* A canonical verdict of verify_receipt is backed, but for the faulty keys, by `threshold`
\* trusted witnesses that attest had sign this action, whatever was done to the receipt
\* (witness.py: verify_receipt).
THEOREM ByzantineSafety == Spec => []CanonicalIsBacked
<1>1. ASSUME IInv, desk.phase = "judged", desk.result.decision = "canonical"
      PROVE  LET honest  == HonestOrgans(desk.trusted)
                 backing == {o \in honest : [pem  |-> desk.trusted[o],
                                             body |-> SignedAllow(o, desk.receipt.action)] \in signed}
             IN  Cardinality(backing) + Cardinality(DOMAIN desk.trusted \ honest) >= Threshold
  <2> DEFINE r       == desk.receipt
             trusted == desk.trusted
             honest  == HonestOrgans(trusted)
             backing == {o \in honest : [pem  |-> trusted[o],
                                         body |-> SignedAllow(o, r.action)] \in signed}
             others  == DOMAIN trusted \ honest
             A       == AllowingWitnesses(r.action, r.signatures, trusted)
  <2>1. /\ IsFiniteSet(DOMAIN trusted)
        /\ Threshold \in Int
        /\ r.signatures # Junk
        /\ Cardinality(A) >= Threshold
    BY <1>1, CanonicalResult DEF IInv, DeskInv
  <2>2. r.action \in Actions /\ \A i \in DOMAIN r.signatures : Backed(r.signatures[i], signed)
    BY <1>1, <2>1 DEF IInv, DeskInv, Receipts
  <2>3. A \subseteq DOMAIN trusted
    BY AllowingHaveKeys
  <2>4. ASSUME NEW o \in A, o \in honest PROVE o \in backing
    <3>1. PICK i \in DOMAIN r.signatures : Supports(r.signatures[i], o, trusted, r.action)
      BY DEF AllowingWitnesses
    <3> DEFINE row == r.signatures[i]
    <3>2. /\ row # Abstain
          /\ o \in Organs
          /\ trusted[o] \in Pems
          /\ row.signature = SignatureBy(trusted[o], VerdictType, SignedAllow(o, r.action))
      BY <2>3, <3>1 DEF Supports, PubkeyOf
    <3>3. SignedAllow(o, r.action) \in Statements
      BY <2>2, <3>2 DEF SignedAllow, Statements, Keyids, OrganNames
    <3>4. /\ row.signature \in Signatures
          /\ row.signature.pem = trusted[o]
          /\ row.signature.body = SignedAllow(o, r.action)
      BY <3>2, <3>3 DEF SignatureBy, Signatures, Bodies
    <3>5. trusted[o] \notin FaultyPems
      BY <2>4 DEF HonestOrgans
    <3> QED
      BY <2>2, <2>4, <3>2, <3>4, <3>5 DEF Backed
  <2>5. backing \subseteq DOMAIN trusted /\ others \subseteq DOMAIN trusted
    BY DEF HonestOrgans
  <2>6. A \subseteq backing \cup others
    BY <2>3, <2>4
  <2> HIDE DEF A, backing, others
  <2>7. /\ IsFiniteSet(backing) /\ IsFiniteSet(others)
        /\ IsFiniteSet(backing \cup others) /\ IsFiniteSet(A)
    BY <2>1, <2>3, <2>5, FS_Subset, FS_Union
  <2>8. /\ Cardinality(A) <= Cardinality(backing \cup others)
        /\ Cardinality(backing \cup others)
             = Cardinality(backing) + Cardinality(others) - Cardinality(backing \cap others)
    BY <2>6, <2>7, FS_Subset, FS_Union
  <2>9. /\ Cardinality(A) \in Nat /\ Cardinality(backing) \in Nat /\ Cardinality(others) \in Nat
        /\ Cardinality(backing \cap others) \in Nat /\ Cardinality(backing \cup others) \in Nat
    BY <2>7, FS_CardinalityType, FS_Intersection
  <2>10. Cardinality(backing) + Cardinality(others) >= Threshold
    BY <2>1, <2>8, <2>9
  <2> QED
    BY <2>10 DEF backing, others
<1>2. IInv => CanonicalIsBacked
  BY <1>1 DEF CanonicalIsBacked
<1> QED
  BY <1>2, Invariant, PTL

\* The rows that a call collected are well-formed entries for the verifier whose keys they
\* were collected under.
LEMMA CollectedAreEntries ==
  ASSUME IInv, NEW t \in Callers, pc[t] = "done",
         NoOrgan \notin DOMAIN PubkeysOf(job[t].asked)
  PROVE  ValidSignatureEntries(job[t].collected, PubkeysOf(job[t].asked))
<1> DEFINE asked == job[t].asked
           sigs  == job[t].collected
<1>1. /\ t \in DOMAIN job /\ CallInv(t) /\ asked \in Registries /\ asked \in Seq(Witnesses)
      /\ sigs \in Seq(Items) /\ Len(sigs) = Len(asked) /\ job[t].action \in Actions
      /\ DOMAIN sigs = 1..Len(asked) /\ DOMAIN asked = 1..Len(asked)
  <2>1. t \in DOMAIN job
    BY DEF IInv, Shape
  <2> QED
    BY <2>1, Before, LenProperties DEF CallInv, Answered, JobRecord
<1>3. ASSUME NEW i \in DOMAIN asked
      PROVE  \/ sigs[i] = Abstain
             \/ \E action \in Actions, vote \in {"allow", "block"}, pem \in Pems :
                  sigs[i] = SignVerdict(asked[i].organ, action, vote, pem)
  <2>1. asked[i].priv \in Pems \cup {NoPem} /\ sigs[i] = AnswerOf(job[t], asked[i])
    BY <1>1, <1>3 DEF CallInv, Answered
  <2> QED
    BY <1>1, <2>1 DEF AnswerOf
<1>4. NoOrgan \notin OrgansOf(asked)
  BY DEF PubkeysOf
<1> HIDE DEF asked, sigs
<1>5. ValidSignatureEntries(sigs, PubkeysOf(asked))
  BY <1>1, <1>3, <1>4, AnswersAreEntries
<1> QED
  BY <1>5 DEF asked, sigs

\* A receipt that nobody edited, judged by the unchanged registry it was made from, is
\* confirmed, or the registry itself is refused (witness.py: attest, verify_receipt).
THEOREM RoundTrip == Spec => []IntactReceiptConfirmed
<1>1. ASSUME IInv, desk.phase = "judged", desk.edits = 0, desk.at = job[desk.from].begun,
             desk.trusted = PubkeysOf(job[desk.from].asked)
      PROVE  IF \/ NoOrgan \in DOMAIN desk.trusted
                \/ \E o \in DOMAIN desk.trusted : desk.trusted[o] = NoPem
             THEN desk.result.decision = "refused"
             ELSE desk.result.matches /\ desk.result.count = desk.receipt.count
  <2> DEFINE t == desk.from
             r == job[t].receipt
             keys == desk.trusted
  <2>1. /\ t \in Callers /\ pc[t] = "done" /\ t \in DOMAIN job /\ CallInv(t)
        /\ desk.receipt = r
        /\ desk.result = VerifyReceipt(r, keys, Threshold)
        /\ job[t].ended <= desk.at
    BY <1>1 DEF IInv, DeskInv, Shape
  <2>2. job[t].begun = job[t].ended /\ job[t].asked \in Registries
        /\ job[t].asked \in Seq(Witnesses) /\ Len(job[t].asked) \in Nat
    BY <1>1, <2>1, Before DEF CallInv, Returned, JobRecord
  <2>3. /\ r.schema = RECEIPT_SCHEMA
        /\ r.action = job[t].action
        /\ r.threshold = Threshold
        /\ ValidQuorumCounts(Threshold, Len(job[t].asked))
        /\ r.n = Len(job[t].asked)
        /\ r.witnesses = PublicOf(job[t].asked)
        /\ r.decision = OutcomeOf(job[t]).decision
        /\ r.count = OutcomeOf(job[t]).count
        /\ r.signatures = job[t].collected
    BY <2>1, <2>2 DEF CallInv, Returned
  <2>4. DOMAIN keys = OrgansOf(job[t].asked) /\ Cardinality(DOMAIN keys) = Len(job[t].asked)
    BY <1>1, <2>2, OrgansCount DEF PubkeysOf, Registries
  <2>5. CASE NoOrgan \in DOMAIN keys \/ \E o \in DOMAIN keys : keys[o] = NoPem
    <3>1. PolicyRefused(keys, Threshold)
      BY <2>5 DEF PolicyRefused
    <3>2. desk.result.decision = "refused"
      BY <2>1, <3>1 DEF VerifyReceipt
    <3> QED
      BY <2>5, <3>2
  <2>6. CASE NoOrgan \notin DOMAIN keys /\ \A o \in DOMAIN keys : keys[o] # NoPem
    <3>1. ~PolicyRefused(keys, Threshold)
      <4>1. /\ Threshold \in Int /\ 1 <= Threshold /\ Threshold <= Cardinality(DOMAIN keys)
        BY <2>3, <2>4 DEF ValidQuorumCounts
      <4>2. DOMAIN keys # {}
        BY <4>1, FS_EmptySet
      <4> QED
        BY <2>2, <2>4, <2>6, <4>1, <4>2 DEF PolicyRefused
    <3>2. ValidSignatureEntries(r.signatures, keys)
      BY <1>1, <2>1, <2>3, <2>6, CollectedAreEntries
    <3>3. TrustPolicyMatches(r, keys, Threshold)
      <4>1. EmbeddedWellFormed(r.witnesses)
        BY <1>1, <2>2, <2>3, <2>6, PublishedKeys DEF EmbeddedWellFormed, Registries
      <4>2. PubkeysOf(r.witnesses) = keys
        BY <1>1, <2>2, <2>3, PublishedKeys
      <4> QED
        BY <2>3, <2>4, <4>1, <4>2 DEF TrustPolicyMatches
    <3>4. TallyOutcome(r.action, r.signatures, keys, Threshold, Cardinality(DOMAIN keys))
            = OutcomeOf(job[t])
      BY <1>1, <2>3, <2>4 DEF OutcomeOf
    <3>5. desk.result.matches /\ desk.result.count = r.count
      BY <2>1, <2>3, <3>1, <3>2, <3>3, <3>4, ConfirmedWhen
    <3> QED
      BY <2>1, <2>6, <3>5
  <2> QED
    BY <2>5, <2>6
<1>2. IInv => IntactReceiptConfirmed
  BY <1>1 DEF IntactReceiptConfirmed
<1> QED
  BY <1>2, Invariant, PTL
=============================================================================
