------------------------------- MODULE Tally -------------------------------
(***************************************************************************)
(* tally (python/khipu_consensus/__init__.py), one step per verdict row.    *)
(* The arguments of a call are any rows, in any order, with repetitions     *)
(* and gaps: the loop must turn them into a count of distinct witnesses.    *)
(***************************************************************************)
EXTENDS KhipuVerdict, SequencesExt

CONSTANTS
  RowLists,    \* the lists of verdict rows a caller can pass, None among the rows
  PubkeyPool,  \* the key maps a caller can pass
  Counts       \* the thresholds and witness numbers a caller can pass

ASSUME PoolAssumption ==
  /\ RowLists \subseteq Seq(Items)
  /\ PubkeyPool \subseteq PubkeyMaps

VARIABLES
  call,      \* the arguments
  pos,       \* rows already handled
  counted,   \* the organs that have counted
  count,
  checks,    \* one OrganCheck per handled row
  decision   \* "none" while the call runs

vars == <<call, pos, counted, count, checks, decision>>

Calls == [action    : Actions,
          verdicts  : RowLists,
          pubkeys   : PubkeyPool,
          threshold : Counts,
          n         : Counts]

Init ==
  /\ call \in Calls
  /\ pos = 0
  /\ counted = {}
  /\ count = 0
  /\ checks = <<>>
  /\ decision = "none"

-----------------------------------------------------------------------------
InLoop ==
  /\ decision = "none"
  /\ ValidQuorumCounts(call.threshold, call.n)
  /\ pos < Len(call.verdicts)

Item == call.verdicts[pos + 1]
Verdict == FromDict(Item)
Pem == PubkeyOf(call.pubkeys, Verdict.organ)
Check == VerifyVerdict(Verdict, Pem, call.action)

\* checks.append(chk), and on to the next row.
Record(chk) ==
  /\ checks' = Append(checks, chk)
  /\ pos' = pos + 1
  /\ UNCHANGED <<call, decision>>

\* Malformed quorum counts end the call before any row is looked at.
RejectCounts ==
  /\ decision = "none"
  /\ ~ValidQuorumCounts(call.threshold, call.n)
  /\ decision' = "rejected"
  /\ UNCHANGED <<call, pos, counted, count, checks>>

\* Defect: an abstention leaves no check behind.
RecordAbstention_NoCheck ==
  /\ InLoop
  /\ Item = Abstain
  /\ pos' = pos + 1
  /\ UNCHANGED <<call, counted, count, checks, decision>>

RecordAbstention ==
  /\ InLoop
  /\ Item = Abstain
  /\ Record(NotValid(NoOrgan, "abstain/timeout"))
  /\ UNCHANGED <<counted, count>>

RecordNoKey ==
  /\ InLoop
  /\ Item # Abstain
  /\ Pem = NoPem
  /\ Record(NotValid(Verdict.organ, "no public key"))
  /\ UNCHANGED <<counted, count>>

Verified ==
  /\ InLoop
  /\ Item # Abstain
  /\ Pem # NoPem

\* Defect: the check of a duplicate is recorded as it came out of verify_verdict.
RecordDuplicate_KeepCheck ==
  /\ Verified
  /\ Check.counts
  /\ Verdict.organ \in counted
  /\ Record(Check)
  /\ UNCHANGED <<counted, count>>

RecordDuplicate ==
  /\ Verified
  /\ Check.counts
  /\ Verdict.organ \in counted
  /\ Record([Check EXCEPT !.counts = FALSE,
                          !.reason = "duplicate-witness (already counted)"])
  /\ UNCHANGED <<counted, count>>

\* Defect: one count per valid row, as in adversary.py's naive_perverdict_tally.
CountWitness_PerRow ==
  /\ Verified
  /\ Check.counts
  /\ counted' = counted \cup {Verdict.organ}
  /\ count' = count + 1
  /\ Record(Check)

CountWitness ==
  /\ Verified
  /\ Check.counts
  /\ Verdict.organ \notin counted
  /\ counted' = counted \cup {Verdict.organ}
  /\ count' = count + 1
  /\ Record(Check)

\* A row that is invalid, or valid but no allow of this action.
RecordNonCounting ==
  /\ Verified
  /\ ~Check.counts
  /\ Record(Check)
  /\ UNCHANGED <<counted, count>>

\* Defect: the threshold must be exceeded.
Decide_Strict ==
  /\ decision = "none"
  /\ ValidQuorumCounts(call.threshold, call.n)
  /\ pos = Len(call.verdicts)
  /\ decision' = IF count > call.threshold THEN "canonical" ELSE "rejected"
  /\ UNCHANGED <<call, pos, counted, count, checks>>

\* Defect: the loop stops at the quorum and reports a short count.
Decide_AtQuorum ==
  /\ decision = "none"
  /\ ValidQuorumCounts(call.threshold, call.n)
  /\ pos = Len(call.verdicts) \/ count >= call.threshold
  /\ decision' = IF count >= call.threshold THEN "canonical" ELSE "rejected"
  /\ UNCHANGED <<call, pos, counted, count, checks>>

Decide ==
  /\ decision = "none"
  /\ ValidQuorumCounts(call.threshold, call.n)
  /\ pos = Len(call.verdicts)
  /\ decision' = IF count >= call.threshold THEN "canonical" ELSE "rejected"
  /\ UNCHANGED <<call, pos, counted, count, checks>>

\* The call has returned.
Terminating == decision # "none" /\ UNCHANGED vars

HandleRow ==
  \/ RecordAbstention
  \/ RecordNoKey
  \/ RecordDuplicate
  \/ CountWitness
  \/ RecordNonCounting

Next == RejectCounts \/ HandleRow \/ Decide \/ Terminating

\* The loop is sequential code over a finite list: it keeps running.
Spec == Init /\ [][Next]_vars /\ WF_vars(RejectCounts \/ HandleRow \/ Decide)

-----------------------------------------------------------------------------
TypeOK ==
  /\ call \in Calls
  /\ pos \in 0..Len(call.verdicts)
  /\ counted \subseteq OrganNames
  /\ count \in Nat
  /\ checks \in Seq(Checks)
  /\ Len(checks) = pos
  /\ decision \in {"none", "canonical", "rejected"}

SupportsAt(i, organ) == Supports(call.verdicts[i], organ, call.pubkeys, call.action)

Allowing == AllowingWitnesses(call.action, call.verdicts, call.pubkeys)

\* The loop's bookkeeping: after each row, `counted` is exactly the set of organs with a
\* supporting row so far, and `count` its size (tally, the lines that update both).
CountedSoFar ==
  /\ counted = {o \in OrganNames : \E i \in 1..pos : SupportsAt(i, o)}
  /\ count = Cardinality(counted)

\* The audit trail agrees with the count: a check counts exactly when its row is the first
\* supporting row of its organ, so a reader who adds up `checks` gets consensus_count and
\* no organ twice (tally: the duplicate branch rewrites the check, the others keep it).
TrailMatchesCount ==
  \A i \in 1..pos :
    checks[i].counts <=> \E o \in OrganNames :
                           /\ checks[i].organ = o
                           /\ SupportsAt(i, o)
                           /\ \A j \in 1..(i - 1) : ~SupportsAt(j, o)

\* The verdict is exact: canonical if and only if the counts are well-formed and at least
\* `threshold` distinct witnesses validly allow this action, whatever the order of the rows,
\* however often one is repeated and whatever else stands between them.
DecisionExact ==
  decision # "none" =>
    (decision = "canonical" <=>
       /\ ValidQuorumCounts(call.threshold, call.n)
       /\ Cardinality(Allowing) >= call.threshold)

-----------------------------------------------------------------------------
(* tally implements QuorumDecision: the loop is invisible to the caller.    *)
Abstract == INSTANCE QuorumDecision WITH
  Witnesses <- OrganNames,
  allowing  <- Allowing,
  threshold <- call.threshold,
  n         <- call.n,
  outcome   <- [decision |-> decision, count |-> IF decision = "none" THEN 0 ELSE count]

\* The loop implements the one-step decision, and always reaches it.
ImplementsQuorumDecision == Abstract!Spec
=============================================================================
