---------------------------- MODULE TallyProofs ----------------------------
(***************************************************************************)
(* Proofs about Tally, for every set of lists of rows and of key maps and  *)
(* every set of quorum counts.                                             *)
(***************************************************************************)
EXTENDS Tally, ReceiptsProofs

-----------------------------------------------------------------------------
(* The rows of a call.                                                      *)

LEMMA CallTyped ==
  ASSUME call \in Calls
  PROVE  /\ call.action \in Actions
         /\ call.verdicts \in Seq(Items)
         /\ call.pubkeys \in PubkeyPool
         /\ call.threshold \in Counts
         /\ call.n \in Counts
<1>1. call.verdicts \in RowLists
  BY DEF Calls
<1>2. call.verdicts \in Seq(Items)
  BY <1>1, PoolAssumption
<1> QED
  BY <1>2 DEF Calls

\* What the row the loop looks at says about who allows.
LEMMA RowMeaning ==
  ASSUME TypeOK, InLoop
  PROVE  /\ pos + 1 \in 1..Len(call.verdicts)
         /\ Item \in Items
         /\ Item = Abstain => \A o \in OrganNames : ~SupportsAt(pos + 1, o)
         /\ Item # Abstain =>
              /\ Verdict \in Rows
              /\ Verdict.organ \in OrganNames
              /\ Check \in Checks
              /\ Check.organ = Verdict.organ
              /\ Check.counts <=> SupportsAt(pos + 1, Verdict.organ)
              /\ \A o \in OrganNames : SupportsAt(pos + 1, o) => o = Verdict.organ
              /\ Pem = NoPem => \A o \in OrganNames : ~SupportsAt(pos + 1, o)
<1>1. call \in Calls /\ pos \in 0..Len(call.verdicts) /\ pos < Len(call.verdicts)
  BY DEF TypeOK, InLoop
<1>2. call.verdicts \in Seq(Items) /\ call.action \in Actions
  BY <1>1, CallTyped
<1>3. pos + 1 \in 1..Len(call.verdicts)
  BY <1>1, <1>2
<1>4. Item \in Items
  BY <1>2, <1>3 DEF Item
<1>5. Item = Abstain => \A o \in OrganNames : ~SupportsAt(pos + 1, o)
  BY DEF SupportsAt, Supports, Item
<1>6. ASSUME Item # Abstain
      PROVE  /\ Verdict \in Rows
             /\ Verdict.organ \in OrganNames
             /\ Check \in Checks
             /\ Check.organ = Verdict.organ
             /\ Check.counts <=> SupportsAt(pos + 1, Verdict.organ)
             /\ \A o \in OrganNames : SupportsAt(pos + 1, o) => o = Verdict.organ
             /\ Pem = NoPem => \A o \in OrganNames : ~SupportsAt(pos + 1, o)
  <2>1. Item \in Rows
    BY <1>4, <1>6 DEF Items
  <2>2. Verdict \in Rows /\ Verdict.organ = Item.organ
    BY <2>1, FromDictTyped DEF Verdict
  <2>3. Verdict.organ \in OrganNames
    BY <2>2 DEF Rows
  <2>4. Check \in Checks
    BY <2>2, VerifyVerdictTyped DEF Check
  <2>5. Check.organ = Verdict.organ
    BY DEF Check, VerifyVerdict, NotValid
  <2>6. Check.counts <=> Supports(Item, Verdict.organ, call.pubkeys, call.action)
    BY <1>2, <2>1, <2>2, <2>3, CountsIffSupports DEF Check, Pem, Verdict
  <2>7. \A o \in OrganNames : SupportsAt(pos + 1, o) => o = Verdict.organ
    BY <2>2 DEF SupportsAt, Supports, Item
  <2>8. Pem = NoPem => ~SupportsAt(pos + 1, Verdict.organ)
    BY PemAssumption DEF SupportsAt, Supports, Pem
  <2> QED
    BY <2>2, <2>3, <2>4, <2>5, <2>6, <2>7, <2>8 DEF SupportsAt, Item
<1> QED
  BY <1>3, <1>4, <1>5, <1>6

-----------------------------------------------------------------------------
(* Type correctness.                                                        *)

LEMMA RecordTyped ==
  ASSUME TypeOK, InLoop, NEW chk \in Checks, Record(chk)
  PROVE  /\ call' \in Calls
         /\ pos' \in 0..Len(call'.verdicts)
         /\ checks' \in Seq(Checks)
         /\ Len(checks') = pos'
         /\ decision' \in {"none", "canonical", "rejected"}
<1>1. call' = call /\ pos' = pos + 1 /\ checks' = Append(checks, chk) /\ decision' = decision
  BY DEF Record
<1>2. pos + 1 \in 1..Len(call.verdicts)
  BY RowMeaning
<1>3. call.verdicts \in Seq(Items)
  BY CallTyped DEF TypeOK
<1> QED
  BY <1>1, <1>2, <1>3 DEF TypeOK

LEMMA NotValidTyped ==
  ASSUME NEW o \in OrganNames, NEW r \in Reasons
  PROVE  NotValid(o, r) \in Checks
  BY DEF NotValid, Checks

LEMMA TypeStep == TypeOK /\ [Next]_vars => TypeOK'
<1> SUFFICES ASSUME TypeOK, [Next]_vars PROVE TypeOK'
  OBVIOUS
<1>1. CASE RejectCounts
  BY <1>1 DEF RejectCounts, TypeOK
<1>2. CASE RecordAbstention
  <2>1. NotValid(NoOrgan, "abstain/timeout") \in Checks
    BY NotValidTyped DEF OrganNames, Reasons
  <2> QED
    BY <1>2, <2>1, RecordTyped DEF RecordAbstention, TypeOK
<1>3. CASE RecordNoKey
  <2>1. NotValid(Verdict.organ, "no public key") \in Checks
    BY <1>3, RowMeaning, NotValidTyped DEF RecordNoKey, Reasons
  <2> QED
    BY <1>3, <2>1, RecordTyped DEF RecordNoKey, TypeOK
<1>4. CASE RecordDuplicate
  <2>1. [Check EXCEPT !.counts = FALSE,
                      !.reason = "duplicate-witness (already counted)"] \in Checks
    BY <1>4, RowMeaning DEF RecordDuplicate, Verified, Checks, Reasons
  <2> QED
    BY <1>4, <2>1, RecordTyped DEF RecordDuplicate, Verified, TypeOK
<1>5. CASE CountWitness
  <2>1. Check \in Checks /\ Verdict.organ \in OrganNames
    BY <1>5, RowMeaning DEF CountWitness, Verified
  <2> QED
    BY <1>5, <2>1, RecordTyped DEF CountWitness, Verified, TypeOK
<1>6. CASE RecordNonCounting
  <2>1. Check \in Checks
    BY <1>6, RowMeaning DEF RecordNonCounting, Verified
  <2> QED
    BY <1>6, <2>1, RecordTyped DEF RecordNonCounting, Verified, TypeOK
<1>7. CASE Decide
  BY <1>7 DEF Decide, TypeOK
<1>8. CASE UNCHANGED vars
  BY <1>8 DEF vars, TypeOK
<1> QED
  BY <1>1, <1>2, <1>3, <1>4, <1>5, <1>6, <1>7, <1>8 DEF Next, HandleRow, Terminating

\* Every variable of the loop keeps its type, and there is one check for each handled row.
THEOREM TypeCorrect == Spec => []TypeOK
<1>1. Init => TypeOK
  <2> SUFFICES ASSUME Init PROVE TypeOK
    OBVIOUS
  <2>1. Len(call.verdicts) \in Nat
    BY CallTyped DEF Init
  <2> QED
    BY <2>1 DEF Init, TypeOK
<1> QED
  BY <1>1, TypeStep, PTL DEF Spec

-----------------------------------------------------------------------------
(* The inductive invariant.                                                 *)

\* How the call can stand: malformed counts never enter the loop, and a decision of the
\* loop is taken at the end of the list, by the threshold.
DecisionReached ==
  /\ ~ValidQuorumCounts(call.threshold, call.n) => pos = 0 /\ decision # "canonical"
  /\ decision # "none" /\ ValidQuorumCounts(call.threshold, call.n) =>
       /\ pos = Len(call.verdicts)
       /\ decision = "canonical" <=> count >= call.threshold

IInv ==
  /\ TypeOK
  /\ IsFiniteSet(counted)
  /\ CountedSoFar
  /\ TrailMatchesCount
  /\ DecisionReached

\* The organs that the next row adds to those with a supporting row so far.
NewAt(i) == {o \in OrganNames : SupportsAt(i, o)}

\* What every row of the loop owes the bookkeeping: the organs of the row are added, and its
\* check counts when it adds one.
LEMMA RecordKeepsBooks ==
  ASSUME IInv, InLoop, TypeOK', NEW chk, Record(chk),
         IsFiniteSet(counted'),
         counted' = counted \cup NewAt(pos + 1),
         count' = Cardinality(counted'),
         chk.counts <=> \E o \in OrganNames :
                          chk.organ = o /\ SupportsAt(pos + 1, o) /\ o \notin counted
  PROVE  IInv'
<1>1. call' = call /\ pos' = pos + 1 /\ checks' = Append(checks, chk) /\ decision' = decision
  BY DEF Record
<1>2. /\ checks \in Seq(Checks)
      /\ Len(checks) = pos
      /\ pos \in Nat
  BY CallTyped DEF IInv, TypeOK
<1>3. \A i, o : SupportsAt(i, o)' <=> SupportsAt(i, o)
  BY <1>1 DEF SupportsAt
<1>4. \A i : i \in 1..pos' <=> i \in 1..pos \/ i = pos + 1
  BY <1>1, <1>2
<1>5. CountedSoFar'
  <2>1. counted = {o \in OrganNames : \E i \in 1..pos : SupportsAt(i, o)}
    BY DEF IInv, CountedSoFar
  <2>2. counted' = {o \in OrganNames : \E i \in 1..pos' : SupportsAt(i, o)}
    BY <1>4, <2>1 DEF NewAt
  <2>3. counted' = {o \in OrganNames : \E i \in 1..pos' : SupportsAt(i, o)'}
    BY <1>3, <2>2
  <2> QED
    BY <2>3 DEF CountedSoFar
<1>6. TrailMatchesCount'
  <2> SUFFICES ASSUME NEW i \in 1..pos'
               PROVE  checks'[i].counts <=>
                        \E o \in OrganNames : /\ checks'[i].organ = o
                                              /\ SupportsAt(i, o)
                                              /\ \A j \in 1..(i - 1) : ~SupportsAt(j, o)
    BY <1>3 DEF TrailMatchesCount
  <2>1. CASE i \in 1..pos
    <3>1. checks'[i] = checks[i]
      BY <1>1, <1>2, <2>1
    <3> QED
      BY <2>1, <3>1 DEF IInv, TrailMatchesCount
  <2>2. CASE i = pos + 1
    <3>1. checks'[i] = chk
      BY <1>1, <1>2, <2>2
    <3>2. 1..(i - 1) = 1..pos
      BY <1>2, <2>2
    <3>3. \A o \in OrganNames :
            o \notin counted <=> \A j \in 1..(i - 1) : ~SupportsAt(j, o)
      BY <3>2 DEF IInv, CountedSoFar
    <3> QED
      BY <2>2, <3>1, <3>3
  <2> QED
    BY <1>4, <2>1, <2>2
<1>7. DecisionReached'
  <2>1. ValidQuorumCounts(call.threshold, call.n) /\ decision = "none"
    BY DEF InLoop
  <2> QED
    BY <1>1, <2>1 DEF DecisionReached
<1> QED
  BY <1>5, <1>6, <1>7 DEF IInv

LEMMA InitIInv == Init => IInv
<1> SUFFICES ASSUME Init PROVE IInv
  OBVIOUS
<1>1. Len(call.verdicts) \in Nat
  BY CallTyped DEF Init
<1>2. TypeOK
  BY <1>1 DEF Init, TypeOK
<1>3. 1..0 = {}
  OBVIOUS
<1>4. IsFiniteSet({}) /\ Cardinality({}) = 0
  BY FS_EmptySet
<1>5. CountedSoFar
  BY <1>3, <1>4 DEF Init, CountedSoFar
<1>6. TrailMatchesCount
  BY <1>3 DEF Init, TrailMatchesCount
<1>7. DecisionReached
  BY DEF Init, DecisionReached
<1> QED
  BY <1>2, <1>4, <1>5, <1>6, <1>7 DEF Init, IInv

LEMMA StepIInv == IInv /\ [Next]_vars => IInv'
<1> SUFFICES ASSUME IInv, [Next]_vars PROVE IInv'
  OBVIOUS
<1>0. TypeOK /\ TypeOK'
  BY TypeStep DEF IInv
<1>1. CASE RejectCounts
  <2>1. /\ UNCHANGED <<call, pos, counted, count, checks>>
        /\ decision' = "rejected"
        /\ ~ValidQuorumCounts(call.threshold, call.n)
    BY <1>1 DEF RejectCounts
  <2>2. CountedSoFar' /\ TrailMatchesCount'
    BY <2>1 DEF IInv, CountedSoFar, TrailMatchesCount, SupportsAt
  <2>3. DecisionReached'
    BY <2>1 DEF IInv, DecisionReached
  <2> QED
    BY <1>0, <2>1, <2>2, <2>3 DEF IInv
<1>2. CASE RecordAbstention
  <2>1. InLoop /\ Item = Abstain /\ UNCHANGED <<counted, count>>
    BY <1>2 DEF RecordAbstention
  <2>2. \A o \in OrganNames : ~SupportsAt(pos + 1, o)
    BY <1>0, <2>1, RowMeaning
  <2>3. counted' = counted \cup NewAt(pos + 1)
    BY <2>1, <2>2 DEF NewAt
  <2>4. Record(NotValid(NoOrgan, "abstain/timeout"))
    BY <1>2 DEF RecordAbstention
  <2>5. ~NotValid(NoOrgan, "abstain/timeout").counts
    BY DEF NotValid
  <2> QED
    BY <1>0, <2>1, <2>2, <2>3, <2>4, <2>5, RecordKeepsBooks DEF IInv, CountedSoFar
<1>3. CASE RecordNoKey
  <2>1. InLoop /\ Item # Abstain /\ Pem = NoPem /\ UNCHANGED <<counted, count>>
    BY <1>3 DEF RecordNoKey
  <2>2. \A o \in OrganNames : ~SupportsAt(pos + 1, o)
    BY <1>0, <2>1, RowMeaning
  <2>3. counted' = counted \cup NewAt(pos + 1)
    BY <2>1, <2>2 DEF NewAt
  <2>4. Record(NotValid(Verdict.organ, "no public key"))
    BY <1>3 DEF RecordNoKey
  <2>5. ~NotValid(Verdict.organ, "no public key").counts
    BY DEF NotValid
  <2> QED
    BY <1>0, <2>1, <2>2, <2>3, <2>4, <2>5, RecordKeepsBooks DEF IInv, CountedSoFar
<1>4. CASE RecordDuplicate
  <2> DEFINE chk == [Check EXCEPT !.counts = FALSE,
                                  !.reason = "duplicate-witness (already counted)"]
  <2>1. /\ InLoop
        /\ Item # Abstain
        /\ Check.counts
        /\ Verdict.organ \in counted
        /\ Record(chk)
        /\ UNCHANGED <<counted, count>>
    BY <1>4 DEF RecordDuplicate, Verified
  <2>2. /\ Check \in Checks
        /\ \A o \in OrganNames : SupportsAt(pos + 1, o) => o = Verdict.organ
    BY <1>0, <2>1, RowMeaning
  <2>3. counted' = counted \cup NewAt(pos + 1)
    BY <2>1, <2>2 DEF NewAt
  <2>4. ~chk.counts
    BY <2>2 DEF Checks
  <2>5. ~\E o \in OrganNames : SupportsAt(pos + 1, o) /\ o \notin counted
    BY <2>1, <2>2
  <2> HIDE DEF chk
  <2> QED
    BY <1>0, <2>1, <2>3, <2>4, <2>5, RecordKeepsBooks DEF IInv, CountedSoFar
<1>5. CASE CountWitness
  <2>1. /\ InLoop
        /\ Item # Abstain
        /\ Check.counts
        /\ Verdict.organ \notin counted
        /\ counted' = counted \cup {Verdict.organ}
        /\ count' = count + 1
        /\ Record(Check)
    BY <1>5 DEF CountWitness, Verified
  <2>2. /\ Verdict.organ \in OrganNames
        /\ Check.organ = Verdict.organ
        /\ SupportsAt(pos + 1, Verdict.organ)
        /\ \A o \in OrganNames : SupportsAt(pos + 1, o) => o = Verdict.organ
    BY <1>0, <2>1, RowMeaning
  <2>3. counted' = counted \cup NewAt(pos + 1)
    BY <2>1, <2>2 DEF NewAt
  <2>4. IsFiniteSet(counted') /\ count' = Cardinality(counted')
    BY <2>1, FS_AddElement DEF IInv, CountedSoFar
  <2> QED
    BY <1>0, <2>1, <2>2, <2>3, <2>4, RecordKeepsBooks
<1>6. CASE RecordNonCounting
  <2>1. /\ InLoop
        /\ Item # Abstain
        /\ ~Check.counts
        /\ Record(Check)
        /\ UNCHANGED <<counted, count>>
    BY <1>6 DEF RecordNonCounting, Verified
  <2>2. \A o \in OrganNames : ~SupportsAt(pos + 1, o)
    BY <1>0, <2>1, RowMeaning
  <2>3. counted' = counted \cup NewAt(pos + 1)
    BY <2>1, <2>2 DEF NewAt
  <2> QED
    BY <1>0, <2>1, <2>2, <2>3, RecordKeepsBooks DEF IInv, CountedSoFar
<1>7. CASE Decide
  <2>1. /\ UNCHANGED <<call, pos, counted, count, checks>>
        /\ decision' = IF count >= call.threshold THEN "canonical" ELSE "rejected"
        /\ pos = Len(call.verdicts)
        /\ ValidQuorumCounts(call.threshold, call.n)
    BY <1>7 DEF Decide
  <2>2. CountedSoFar' /\ TrailMatchesCount'
    BY <2>1 DEF IInv, CountedSoFar, TrailMatchesCount, SupportsAt
  <2>3. DecisionReached'
    BY <2>1 DEF DecisionReached
  <2> QED
    BY <1>0, <2>1, <2>2, <2>3 DEF IInv
<1>8. CASE UNCHANGED vars
  <2>1. UNCHANGED <<call, pos, counted, count, checks, decision>>
    BY <1>8 DEF vars
  <2> QED
    BY <1>0, <2>1
       DEF IInv, CountedSoFar, TrailMatchesCount, SupportsAt, DecisionReached
<1> QED
  BY <1>1, <1>2, <1>3, <1>4, <1>5, <1>6, <1>7, <1>8 DEF Next, HandleRow, Terminating

THEOREM Invariance == Spec => []IInv
  BY InitIInv, StepIInv, PTL DEF Spec

-----------------------------------------------------------------------------
(* What the invariant gives.                                                *)

LEMMA AllowingAtEnd ==
  ASSUME IInv, pos = Len(call.verdicts)
  PROVE  counted = Allowing /\ count = Cardinality(Allowing)
<1>1. call.verdicts \in Seq(Items)
  BY CallTyped DEF IInv, TypeOK
<1>2. DOMAIN call.verdicts = 1..pos
  BY <1>1
<1>3. Allowing = {o \in OrganNames : \E i \in 1..pos : SupportsAt(i, o)}
  BY <1>2 DEF Allowing, AllowingWitnesses, SupportsAt
<1> QED
  BY <1>3 DEF IInv, CountedSoFar

\* tally counts distinct witnesses: at every point `counted` is the set of organs with a
\* supporting row so far and `count` its size.
THEOREM DistinctCounting == Spec => []CountedSoFar
<1>1. IInv => CountedSoFar
  BY DEF IInv
<1> QED
  BY <1>1, Invariance, PTL

\* The recorded checks single out the first supporting row of each organ.
THEOREM TrailCorrect == Spec => []TrailMatchesCount
<1>1. IInv => TrailMatchesCount
  BY DEF IInv
<1> QED
  BY <1>1, Invariance, PTL

\* The decision is canonical exactly when the counts are well-formed and `threshold` distinct
\* witnesses validly allow the action, for every list of rows in every order.
THEOREM DecisionCorrect == Spec => []DecisionExact
<1>1. IInv => DecisionExact
  <2> SUFFICES ASSUME IInv, decision # "none"
               PROVE  decision = "canonical" <=>
                        /\ ValidQuorumCounts(call.threshold, call.n)
                        /\ Cardinality(Allowing) >= call.threshold
    BY DEF DecisionExact
  <2>1. CASE ~ValidQuorumCounts(call.threshold, call.n)
    BY <2>1 DEF IInv, DecisionReached
  <2>2. CASE ValidQuorumCounts(call.threshold, call.n)
    BY <2>2, AllowingAtEnd DEF IInv, DecisionReached
  <2> QED
    BY <2>1, <2>2
<1> QED
  BY <1>1, Invariance, PTL

\* Safety half of the refinement: started from any arguments the loop is, to its caller, the one
\* step of QuorumDecision.
THEOREM RefinesQuorumDecision == Spec => Abstract!Safety
<1>1. Init => Abstract!Init
  <2> SUFFICES ASSUME Init PROVE Abstract!Init
    OBVIOUS
  <2>1. Allowing \in SUBSET OrganNames
    BY DEF Allowing, AllowingWitnesses
  <2>2. call.threshold \in Counts /\ call.n \in Counts
    BY CallTyped DEF Init
  <2> QED
    BY <2>1, <2>2 DEF Init, Abstract!Init, Abstract!Pending
<1>2. IInv /\ [Next]_vars => [Abstract!Decide]_Abstract!vars
  <2> SUFFICES ASSUME IInv, IInv', [Next]_vars
               PROVE  [Abstract!Decide]_Abstract!vars
    BY StepIInv
  <2>1. CASE RejectCounts
    <3>1. call' = call /\ Allowing' = Allowing
      BY <2>1 DEF RejectCounts, Allowing
    <3>2. pos = 0 /\ count = 0
      <4>1. pos = 0
        BY <2>1 DEF RejectCounts, IInv, DecisionReached
      <4>2. counted = {}
        BY <4>1 DEF IInv, CountedSoFar
      <4> QED
        BY <4>1, <4>2, FS_EmptySet DEF IInv, CountedSoFar
    <3>3. decision = "none" /\ decision' = "rejected" /\ count' = count
      BY <2>1 DEF RejectCounts
    <3>4. Abstract!Decide
      BY <2>1, <3>1, <3>2, <3>3
         DEF Abstract!Decide, Abstract!Outcome, Abstract!Pending, RejectCounts,
             ValidQuorumCounts
    <3> QED
      BY <3>4
  <2>2. CASE HandleRow
    <3>1. call' = call /\ decision' = decision /\ decision = "none"
      BY <2>2 DEF HandleRow, RecordAbstention, RecordNoKey, RecordDuplicate, CountWitness,
                  RecordNonCounting, Verified, InLoop, Record
    <3>2. Allowing' = Allowing
      BY <3>1 DEF Allowing
    <3> QED
      BY <3>1, <3>2 DEF Abstract!vars
  <2>3. CASE Decide
    <3>1. call' = call /\ Allowing' = Allowing
      BY <2>3 DEF Decide, Allowing
    <3>2. count = Cardinality(Allowing) /\ count' = count
      BY <2>3, AllowingAtEnd DEF Decide
    <3>3. Abstract!Cardinality(Allowing) = Cardinality(Allowing)
      BY DEF Abstract!Cardinality, Cardinality
    <3>4. Abstract!Decide
      BY <2>3, <3>1, <3>2, <3>3
         DEF Abstract!Decide, Abstract!Outcome, Abstract!Pending, Decide, ValidQuorumCounts
    <3> QED
      BY <3>4
  <2>4. CASE UNCHANGED vars
    BY <2>4 DEF vars, Abstract!vars, Allowing
  <2> QED
    BY <2>1, <2>2, <2>3, <2>4 DEF Next, Terminating
<1> QED
  BY <1>1, <1>2, Invariance, PTL DEF Spec, Abstract!Safety

\* What the modules that call tally as one step rely on: when the loop has ended it has
\* computed TallyOutcome of its arguments.
ReturnsTallyOutcome ==
  decision # "none" =>
    [decision |-> decision, count |-> count] =
      TallyOutcome(call.action, call.verdicts, call.pubkeys, call.threshold, call.n)

\* The loop of tally returns TallyOutcome, the operator by which attest and verify_receipt
\* call it.
THEOREM LoopReturnsTallyOutcome == Spec => []ReturnsTallyOutcome
<1>1. IInv => ReturnsTallyOutcome
  <2> SUFFICES ASSUME IInv, decision # "none"
               PROVE  [decision |-> decision, count |-> count] =
                        TallyOutcome(call.action, call.verdicts, call.pubkeys,
                                     call.threshold, call.n)
    BY DEF ReturnsTallyOutcome
  <2>1. CASE ~ValidQuorumCounts(call.threshold, call.n)
    <3>1. counted = {} /\ decision = "rejected"
      BY <2>1 DEF IInv, DecisionReached, CountedSoFar, TypeOK
    <3>2. count = 0
      BY <3>1, FS_EmptySet DEF IInv, CountedSoFar
    <3> QED
      BY <2>1, <3>1, <3>2 DEF TallyOutcome
  <2>2. CASE ValidQuorumCounts(call.threshold, call.n)
    <3>1. count = Cardinality(AllowingWitnesses(call.action, call.verdicts, call.pubkeys))
      BY <2>2, AllowingAtEnd DEF IInv, DecisionReached, Allowing
    <3>2. decision = IF count >= call.threshold THEN "canonical" ELSE "rejected"
      BY <2>2 DEF IInv, DecisionReached, TypeOK
    <3> QED
      BY <2>2, <3>1, <3>2 DEF TallyOutcome
  <2> QED
    BY <2>1, <2>2
<1> QED
  BY <1>1, Invariance, PTL
=============================================================================
