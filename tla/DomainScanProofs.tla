-------------------------- MODULE DomainScanProofs --------------------------
(***************************************************************************)
(* Proofs about the gate: about DomainScan, for every index, work tree and  *)
(* batch size, and any edits and tool failures during the scan; and, at the *)
(* end, about GuardJudgement, for every source.                             *)
(***************************************************************************)
EXTENDS DomainScan, GuardJudgement, FiniteSetTheorems, SequenceTheorems, TLAPS

-----------------------------------------------------------------------------
(* Sequences and sets.                                                      *)

LEMMA ToSetOfSeq ==
  ASSUME NEW S, NEW s \in Seq(S)
  PROVE  ToSet(s) \subseteq S /\ ToSet(s) = {s[i] : i \in 1 .. Len(s)}
<1>1. DOMAIN s = 1 .. Len(s) /\ \A i \in 1 .. Len(s) : s[i] \in S
  BY LenProperties, ElementOfSeq
<1> QED
  BY <1>1 DEF ToSet

\* Taking the head off a list.
LEMMA HeadOrTail ==
  ASSUME NEW S, NEW s \in Seq(S), s # <<>>
  PROVE  /\ Head(s) \in ToSet(s) /\ Tail(s) \in Seq(S)
         /\ ToSet(s) = {Head(s)} \cup ToSet(Tail(s))
<1> DEFINE t == Tail(s)
<1>1. /\ t \in Seq(S) /\ Len(t) = Len(s) - 1 /\ Len(s) \in Nat \ {0}
      /\ \A i \in 1 .. Len(t) : t[i] = s[i + 1]
  BY HeadTailProperties, LenProperties, EmptySeq
<1>2. Head(s) = s[1]
  OBVIOUS
<1> HIDE DEF t
<1>3. ToSet(s) = {s[i] : i \in 1 .. Len(s)} /\ ToSet(t) = {t[i] : i \in 1 .. Len(t)}
  BY <1>1, ToSetOfSeq
<1>4. ToSet(t) \subseteq ToSet(s)
  <2>1. \A i \in 1 .. Len(t) : i + 1 \in 1 .. Len(s)
    BY <1>1
  <2> QED
    BY <1>1, <1>3, <2>1
<1>5. Head(s) \in ToSet(s)
  BY <1>1, <1>2, <1>3
<1>6. ASSUME NEW i \in 1 .. Len(s), i # 1 PROVE s[i] \in ToSet(t)
  <2>1. i - 1 \in 1 .. Len(t) /\ (i - 1) + 1 = i
    BY <1>1, <1>6
  <2>2. t[i - 1] = s[i]
    BY <1>1, <2>1
  <2> QED
    BY <1>3, <2>1, <2>2
<1> QED
  BY <1>1, <1>2, <1>3, <1>4, <1>5, <1>6 DEF t

\* The paths of a list are those of its next batch and those of the rest.
LEMMA BatchAndRest ==
  ASSUME NEW ps \in Seq(Paths)
  PROVE  /\ Rest(ps) \in Seq(Paths)
         /\ ToSet(Rest(ps)) \subseteq ToSet(ps)
         /\ ToSet(ps) = {ps[i] : i \in DOMAIN ps \cap (1 .. BatchSize)} \cup ToSet(Rest(ps))
<1> DEFINE r == Rest(ps)
           first == {ps[i] : i \in DOMAIN ps \cap (1 .. BatchSize)}
<1>1. DOMAIN ps = 1 .. Len(ps) /\ Len(ps) \in Nat /\ BatchSize \in Nat \ {0}
      /\ \A i \in 1 .. Len(ps) : ps[i] \in Paths
  BY LenProperties, ElementOfSeq, ScanAssumption
<1>2. \A i \in BatchSize + 1 .. Len(ps) : ps[i] \in Paths
  BY <1>1
<1>3. /\ r \in Seq(Paths)
      /\ Len(r) = IF BatchSize + 1 <= Len(ps) THEN Len(ps) - BatchSize ELSE 0
      /\ \A i \in 1 .. Len(ps) - BatchSize : r[i] = ps[BatchSize + i]
  BY <1>1, <1>2, SubSeqProperties DEF Rest
<1> HIDE DEF r
<1>4. ToSet(ps) = {ps[i] : i \in 1 .. Len(ps)} /\ ToSet(r) = {r[i] : i \in 1 .. Len(r)}
  BY <1>3, ToSetOfSeq
<1>10. /\ BatchSize \in Nat /\ Len(ps) \in Nat
       /\ Len(r) = IF BatchSize < Len(ps) THEN Len(ps) - BatchSize ELSE 0
  <2>1. (BatchSize + 1 <= Len(ps)) <=> (BatchSize < Len(ps))
    BY <1>1
  <2> QED
    BY <1>1, <1>3, <2>1, Zenon
<1>5. ASSUME NEW i \in 1 .. Len(r) PROVE r[i] \in ToSet(ps)
  <2>1. i \in 1 .. Len(ps) - BatchSize /\ BatchSize + i \in 1 .. Len(ps)
    BY <1>10
  <2> QED
    BY <1>3, <1>4, <2>1
<1>6. ASSUME NEW i \in 1 .. Len(ps) PROVE ps[i] \in first \cup ToSet(r)
  <2>1. CASE i \in 1 .. BatchSize
    BY <1>1, <2>1
  <2>2. CASE i > BatchSize
    <3>1. /\ i - BatchSize \in 1 .. Len(r) /\ i - BatchSize \in 1 .. Len(ps) - BatchSize
          /\ BatchSize + (i - BatchSize) = i
      BY <1>10, <2>2
    <3>2. r[i - BatchSize] = ps[i]
      BY <1>3, <3>1
    <3> QED
      BY <1>4, <3>1, <3>2
  <2> QED
    BY <1>1, <2>1, <2>2
<1>7. first \subseteq ToSet(ps)
  BY <1>1, <1>4
<1> HIDE DEF first
<1>8. ToSet(ps) \subseteq first \cup ToSet(r)
  BY <1>4, <1>6
<1>9. ToSet(r) \subseteq ToSet(ps)
  BY <1>4, <1>5
<1> QED
  BY <1>3, <1>7, <1>8, <1>9 DEF r, first

LEMMA AppendToSet ==
  ASSUME NEW S, NEW s \in Seq(S), NEW x \in S
  PROVE  Append(s, x) \in Seq(S) /\ ToSet(Append(s, x)) = ToSet(s) \cup {x}
<1> DEFINE a == Append(s, x)
<1>1. /\ a \in Seq(S) /\ Len(a) = Len(s) + 1 /\ Len(s) \in Nat
      /\ \A i \in 1 .. Len(s) : a[i] = s[i]
      /\ a[Len(s) + 1] = x
  BY AppendProperties, LenProperties
<1> HIDE DEF a
<1>2. ToSet(s) = {s[i] : i \in 1 .. Len(s)} /\ ToSet(a) = {a[i] : i \in 1 .. Len(a)}
  BY <1>1, ToSetOfSeq
<1>3. \A i : i \in 1 .. Len(a) <=> i \in 1 .. Len(s) \/ i = Len(s) + 1
  BY <1>1
<1> QED
  BY <1>1, <1>2, <1>3 DEF a

\* The lines of one file are finitely many records.
LEMMA RecordsFinite ==
  ASSUME NEW p, NEW lines \in Seq(Lines), NEW T \in SUBSET DOMAIN lines
  PROVE  IsFiniteSet({<<p, i, lines[i]>> : i \in T})
<1> DEFINE f == [i \in T |-> <<p, i, lines[i]>>]
           R == {<<p, i, lines[i]>> : i \in T}
<1>1. IsFiniteSet(T)
  <2>1. DOMAIN lines = 1 .. Len(lines) /\ Len(lines) \in Nat
    BY LenProperties
  <2>2. IsFiniteSet(1 .. Len(lines))
    BY <2>1, FS_Interval
  <2> QED
    BY <2>1, <2>2, FS_Subset
<1>2. f \in Surjection(T, R)
  BY DEF Surjection
<1> QED
  BY <1>1, <1>2, FS_Surjection

-----------------------------------------------------------------------------
(* The inductive invariant.                                                 *)

Records == Scope \X Nat \X {"host", "guarded"}

Files ==
  /\ index \in Seq(IndexEntry) /\ tree \in [Paths -> Entry]
  /\ todo \in Seq(IndexEntry) /\ ToSet(todo) \subseteq ToSet(index)
  /\ paths \in Seq(Paths) /\ ToSet(paths) \subseteq Scope /\ batch \subseteq Scope
  /\ found \subseteq Records /\ IsFiniteSet(found) /\ matches \subseteq Records
  /\ edits \in Nat

\* A scan goes on only with sound tools, and a verdict is one about its violations.
Sound ==
  /\ pc \in {"stat", "batch", "scan", "done"}
  /\ pc # "done" => ~faulted /\ exit = -1
  /\ pc \in {"batch", "scan"} => rgWorks
  /\ pc = "done" => exit \in {0, 1, 2}
  /\ exit \in {0, 1} => ~faulted /\ rgWorks /\ (exit = 0 <=> violations = {})

\* What the history says of the work tree and of the violations reported.
History ==
  /\ standing \subseteq InViolation(tree, Scope) /\ InViolation(tree, Scope) \subseteq ever
  /\ violations \subseteq ever
  /\ edits = 0 => standing = ever

ListsLine(records, v) == \E m \in records : m[1] = v[1] /\ m[2] = v[2]

\* A violation that stands is never lost on its way from the index to the report.
Located(v) ==
  /\ pc = "stat" =>
       \/ v[1] \in ToSet(paths)
       \/ \E e \in ToSet(todo) : e.mode = "file" /\ e.path = v[1]
  /\ pc = "batch" => v[1] \in ToSet(paths) \/ ListsLine(matches, v)
  /\ pc = "scan" => \/ v[1] \in ToSet(paths) \cup batch
                    \/ ListsLine(found, v) \/ ListsLine(matches, v)
  /\ pc # "done" /\ v[1] \in judged => v \in violations
  /\ exit \in {0, 1} => v \in violations

Tracked == \A v \in standing : Located(v)

IInv == Files /\ Sound /\ History /\ Tracked

-----------------------------------------------------------------------------
(* What the definitions say, in the form the steps need.                    *)

\* A line in violation is a reference, in a regular file, that no guard covers.
LEMMA ViolationIsUncovered ==
  ASSUME NEW t \in [Paths -> Entry], NEW scope \in SUBSET Paths,
         NEW v \in InViolation(t, scope)
  PROVE  /\ v[1] \in scope /\ v = <<v[1], v[2]>> /\ t[v[1]].type = "file"
         /\ v[2] \in DOMAIN t[v[1]].lines /\ Carries(t[v[1]].lines[v[2]])
         /\ ~Covered(t[v[1]].lines, v[2])
<1>1. PICK p \in scope : t[p].type = "file" /\ v \in {p} \X Offending(t[p].lines)
  BY DEF InViolation
<1>2. v[1] = p /\ v = <<v[1], v[2]>> /\ v[2] \in Offending(t[p].lines)
  BY <1>1
<1> QED
  BY <1>1, <1>2 DEF Offending, Covered

LEMMA UncoveredIsViolation ==
  ASSUME NEW t \in [Paths -> Entry], NEW scope \in SUBSET Paths,
         NEW p \in scope, t[p].type = "file",
         NEW i \in DOMAIN t[p].lines, Carries(t[p].lines[i]), ~Covered(t[p].lines, i)
  PROVE  <<p, i>> \in InViolation(t, scope)
<1>1. i \in Offending(t[p].lines)
  BY DEF Offending, Covered
<1> QED
  BY <1>1 DEF InViolation

LEMMA ScopeIsPaths ==
  ASSUME index \in Seq(IndexEntry)
  PROVE  Scope \subseteq Paths
<1>1. ToSet(index) \subseteq IndexEntry
  BY ToSetOfSeq
<1> QED
  BY <1>1 DEF Scope, IndexEntry

LEMMA LinesAreLines ==
  ASSUME tree \in [Paths -> Entry], NEW p \in Paths
  PROVE  /\ tree[p].lines \in Seq(Lines) /\ DOMAIN tree[p].lines \subseteq Nat
         /\ \A i \in DOMAIN tree[p].lines : tree[p].lines[i] \in Lines
<1>1. tree[p].lines \in Seq(Lines)
  BY DEF Entry
<1> QED
  BY <1>1, LenProperties, ElementOfSeq

\* Output the gate accepts is the whole output: a record lost changes the count that the
\* summary gives, and a summary lost is none.
LEMMA AcceptedIsWhole ==
  ASSUME IsFiniteSet(found), NEW out \in {Whole} \cup Damaged, BatchAccepted(out)
  PROVE  out = Whole
<1>1. Cardinality(found) \in Nat /\ \A L \in SUBSET found : Cardinality(L) \in Nat
  BY FS_CardinalityType, FS_Subset
<1>2. ASSUME NEW L \in SUBSET found, out = [Whole EXCEPT !.lines = L, !.summary = -1]
      PROVE  FALSE
  BY <1>1, <1>2 DEF BatchAccepted, Whole
<1>3. ASSUME NEW L \in SUBSET found, L # found, out = [Whole EXCEPT !.lines = L]
      PROVE  FALSE
  <2>1. Cardinality(L) = Cardinality(found)
    BY <1>3 DEF BatchAccepted, Whole
  <2> QED
    BY <1>3, <2>1, FS_Subset
<1>4. ASSUME out = [Whole EXCEPT !.status = 2] PROVE FALSE
  BY <1>4 DEF BatchAccepted, Whole
<1>5. out # Whole =>
        \/ \E L \in SUBSET found : out = [Whole EXCEPT !.lines = L, !.summary = -1]
        \/ \E L \in (SUBSET found) \ {found} : out = [Whole EXCEPT !.lines = L]
        \/ out = [Whole EXCEPT !.status = 2]
  BY Zenon DEF Damaged
<1> QED
  BY <1>2, <1>3, <1>4, <1>5

-----------------------------------------------------------------------------
(* The steps.                                                               *)

LEMMA InitHolds ==
  ASSUME Init
  PROVE  IInv
<1>1. Files
  <2>1. index \in Seq(IndexEntry) /\ tree \in [Paths -> Entry]
    BY ScanAssumption DEF Init
  <2>2. ToSet(<<>>) = {}
    BY DEF ToSet
  <2> QED
    BY <2>1, <2>2, FS_EmptySet, EmptySeq DEF Init, Files
<1>2. Sound /\ History
  BY DEF Init, Sound, History
<1>3. ASSUME NEW v \in standing PROVE Located(v)
  <2>1. v[1] \in Scope
    BY <1>1, <1>3, ScopeIsPaths, ViolationIsUncovered DEF Init, Files
  <2> QED
    BY <2>1 DEF Init, Scope, Located
<1> QED
  BY <1>1, <1>2, <1>3 DEF IInv, Tracked

LEMMA StatEntryHolds ==
  ASSUME IInv, StatEntry
  PROVE  IInv'
<1> USE DEF IInv, StatEntry, fail, Exit, repo, rgVars, history
<1> DEFINE e == Head(todo)
<1>1. Scope' = Scope /\ Scope \subseteq Paths
  BY ScopeIsPaths DEF Scope, Files
<1>2. /\ e \in ToSet(todo) /\ todo' \in Seq(IndexEntry)
      /\ ToSet(todo) = {e} \cup ToSet(todo')
  BY HeadOrTail DEF Files
<1>3. e \in ToSet(index) /\ e \in IndexEntry
  BY <1>2, ToSetOfSeq DEF Files
<1>4. CASE paths' = paths /\ UNCHANGED <<pc, exit>> /\ e.mode # "file"
  <2>1. Files'
    BY <1>1, <1>2, <1>4 DEF Files, Records
  <2>2. Sound' /\ History'
    BY <1>1, <1>4 DEF Sound, History, InViolation
  <2>3. ASSUME NEW v \in standing PROVE Located(v)'
    BY <1>2, <1>4 DEF Tracked, Located, ListsLine, Sound
  <2> QED
    BY <2>1, <2>2, <2>3 DEF Tracked
<1>5. CASE /\ e.mode = "file" /\ paths' = Append(paths, e.path) /\ UNCHANGED <<pc, exit>>
  <2>1. e.path \in Scope
    BY <1>3, <1>5 DEF Scope
  <2>2. paths' \in Seq(Paths) /\ ToSet(paths') = ToSet(paths) \cup {e.path}
    BY <1>1, <1>5, <2>1, AppendToSet DEF Files
  <2>3. Files'
    BY <1>1, <1>2, <2>1, <2>2 DEF Files, Records
  <2>4. Sound' /\ History'
    BY <1>1, <1>5 DEF Sound, History, InViolation
  <2>5. ASSUME NEW v \in standing PROVE Located(v)'
    BY <1>2, <1>5, <2>2 DEF Tracked, Located, ListsLine, Sound
  <2> QED
    BY <2>3, <2>4, <2>5 DEF Tracked
<1>6. CASE paths' = paths /\ exit' = 2 /\ pc' = "done"
  <2>1. Files'
    BY <1>1, <1>2, <1>6 DEF Files, Records
  <2>2. Sound' /\ History' /\ Tracked'
    BY <1>1, <1>6 DEF Sound, History, Tracked, Located, InViolation
  <2> QED
    BY <2>1, <2>2
<1> QED
  BY <1>4, <1>5, <1>6

LEMMA CheckVersionHolds ==
  ASSUME IInv, CheckVersion
  PROVE  IInv'
<1> USE DEF IInv, CheckVersion, fail, Exit, repo, rgVars, history
<1>1. Scope' = Scope
  BY DEF Scope
<1>2. Files' /\ Sound' /\ History'
  BY <1>1 DEF Files, Records, Sound, History, InViolation
<1>3. ASSUME NEW v \in standing PROVE Located(v)'
  <2>1. ToSet(todo) = {}
    BY DEF ToSet
  <2> QED
    BY <2>1 DEF Tracked, Located, ListsLine, Sound
<1> QED
  BY <1>2, <1>3 DEF Tracked

LEMMA NextBatchHolds ==
  ASSUME IInv, NextBatch
  PROVE  IInv'
<1> USE DEF IInv, NextBatch, repo, history
<1>1. Scope' = Scope
  BY DEF Scope
<1>2. /\ paths' \in Seq(Paths) /\ ToSet(paths') \subseteq ToSet(paths)
      /\ ToSet(paths) = batch' \cup ToSet(paths')
  BY BatchAndRest DEF Files
<1>3. Files'
  BY <1>1, <1>2, FS_EmptySet DEF Files, Records
<1>4. Sound' /\ History'
  BY <1>1 DEF Sound, History, InViolation
<1>5. ASSUME NEW v \in standing PROVE Located(v)'
  BY <1>2 DEF Tracked, Located, ListsLine, Sound
<1> QED
  BY <1>3, <1>4, <1>5 DEF Tracked

LEMMA ScanFileHolds ==
  ASSUME IInv, NEW p \in Paths, ScanFile(p)
  PROVE  IInv'
<1> USE DEF IInv, ScanFile, repo, history
<1> DEFINE lines == tree[p].lines
           T == {j \in DOMAIN lines : Carries(lines[j])}
           new == {<<p, i, lines[i]>> : i \in T}
<1>1. Scope' = Scope /\ Scope \subseteq Paths /\ p \in Scope
  BY ScopeIsPaths DEF Scope, Files
<1>2. /\ lines \in Seq(Lines) /\ DOMAIN lines \subseteq Nat
      /\ \A i \in DOMAIN lines : lines[i] \in Lines
  BY LinesAreLines DEF Files
<1>3. new \subseteq Records /\ IsFiniteSet(new)
  <2>1. IsFiniteSet(new)
    BY <1>2, RecordsFinite
  <2>2. ASSUME NEW i \in T PROVE <<p, i, lines[i]>> \in Records
    BY <1>1, <1>2 DEF Records, Carries
  <2> QED
    BY <2>1, <2>2
<1>4. /\ tree[p].type = "missing" => found' = found
      /\ tree[p].type # "missing" => found' = found \cup new
  OBVIOUS
<1>5. ASSUME NEW v \in standing, v[1] = p PROVE ListsLine(found', v)
  <2>1. tree[p].type = "file" /\ v[2] \in T
    BY <1>1, <1>5, ViolationIsUncovered DEF History, Files
  <2>2. <<p, v[2], lines[v[2]]>> \in found'
    BY <1>4, <2>1
  <2> QED
    BY <1>5, <2>2 DEF ListsLine
<1> HIDE DEF T, new
<1>6. found' \subseteq Records /\ IsFiniteSet(found') /\ found \subseteq found'
  BY <1>3, <1>4, FS_Union DEF Files
<1>7. Files'
  BY <1>1, <1>6 DEF Files, Records
<1>8. Sound' /\ History'
  BY <1>1 DEF Sound, History, InViolation
<1>9. ASSUME NEW v \in standing PROVE Located(v)'
  BY <1>5, <1>6 DEF Tracked, Located, ListsLine, Sound
<1> QED
  BY <1>7, <1>8, <1>9 DEF Tracked

LEMMA FinishBatchHolds ==
  ASSUME IInv, FinishBatch
  PROVE  IInv'
<1> USE DEF IInv, FinishBatch, fail, Exit, repo, rgVars, history
<1>1. Scope' = Scope
  BY DEF Scope
<1>2. PICK out \in {Whole} \cup Damaged :
        /\ faulted' = (faulted \/ out # Whole)
        /\ IF BatchAccepted(out)
           THEN matches' = matches \cup out.lines /\ pc' = "batch" /\ exit' = exit
           ELSE matches' = matches /\ pc' = "done" /\ exit' = 2
  OBVIOUS
<1>3. CASE BatchAccepted(out)
  <2>1. out = Whole /\ matches' = matches \cup found
    BY <1>2, <1>3, AcceptedIsWhole DEF Files, Whole
  <2>2. Files' /\ Sound' /\ History'
    BY <1>1, <1>2, <1>3, <2>1 DEF Files, Records, Sound, History, InViolation
  <2>3. ASSUME NEW v \in standing PROVE Located(v)'
    BY <1>2, <1>3, <2>1 DEF Tracked, Located, ListsLine, Sound
  <2> QED
    BY <2>2, <2>3 DEF Tracked
<1>4. CASE ~BatchAccepted(out)
  BY <1>1, <1>2, <1>4 DEF Files, Records, Sound, History, InViolation, Tracked, Located
<1> QED
  BY <1>3, <1>4

LEMMA ToolFailsHolds ==
  ASSUME IInv, ToolFails
  PROVE  IInv'
<1>1. Scope' = Scope
  BY DEF Scope, ToolFails, repo
<1> QED
  BY <1>1 DEF IInv, ToolFails, fail, Exit, repo, rgVars, history, Files, Records, Sound,
              History, InViolation, Tracked, Located

LEMMA JudgeFileHolds ==
  ASSUME IInv, NEW p \in Paths, JudgeFile(p)
  PROVE  IInv'
<1> USE DEF IInv, JudgeFile, fail, Exit, repo, rgVars, history
<1> DEFINE reported == {<<p, m[2]>> : m \in {x \in matches : x[1] = p /\ ~Covered(tree[p].lines, x[2])}}
<1>1. Scope' = Scope /\ Scope \subseteq Paths
  BY ScopeIsPaths DEF Scope, Files
<1>2. Files'
  BY <1>1 DEF Files, Records
<1>3. CASE tree[p].type = "file" /\ Unchanged(p)
  <2>1. violations' = violations \cup reported /\ UNCHANGED <<pc, exit>>
    BY <1>3
  <2>2. ASSUME NEW m \in matches, m[1] = p, ~Covered(tree[p].lines, m[2])
        PROVE  <<p, m[2]>> \in ever
    <3>1. m[1] \in Scope /\ Carries(m[3])
      BY DEF Files, Records, Carries
    <3>2. m[2] \in DOMAIN tree[p].lines /\ Carries(tree[p].lines[m[2]])
      BY <1>3, <2>2, <3>1 DEF Unchanged
    <3> QED
      BY <1>1, <1>3, <2>2, <3>1, <3>2, UncoveredIsViolation DEF Files, History
  <2>3. reported \subseteq ever
    BY <2>2
  <2>4. ASSUME NEW v \in standing, v[1] = p PROVE v \in reported
    <3>1. v = <<p, v[2]>> /\ ~Covered(tree[p].lines, v[2])
      BY <1>1, <2>4, ViolationIsUncovered DEF Files, History
    <3>2. ToSet(paths) = {}
      BY DEF ToSet
    <3>3. PICK m \in matches : m[1] = p /\ m[2] = v[2]
      BY <2>4, <3>2 DEF Tracked, Located, ListsLine
    <3> QED
      BY <3>1, <3>3
  <2> HIDE DEF reported
  <2>5. Sound' /\ History'
    BY <1>1, <2>1, <2>3 DEF Sound, History, InViolation
  <2>6. ASSUME NEW v \in standing PROVE Located(v)'
    BY <2>1, <2>4 DEF Tracked, Located, ListsLine, Sound
  <2> QED
    BY <1>2, <2>5, <2>6 DEF Tracked
<1>4. CASE ~(tree[p].type = "file" /\ Unchanged(p))
  BY <1>1, <1>2, <1>4 DEF Sound, History, InViolation, Tracked, Located
<1> QED
  BY <1>3, <1>4

LEMMA FinishHolds ==
  ASSUME IInv, Finish
  PROVE  IInv'
<1> USE DEF IInv, Finish, Exit, repo, rgVars, history
<1>1. Scope' = Scope
  BY DEF Scope
<1>2. Files' /\ Sound' /\ History'
  BY <1>1 DEF Files, Records, Sound, History, InViolation
<1>3. ASSUME NEW v \in standing PROVE v \in violations
  <2>1. ToSet(paths) = {}
    BY DEF ToSet
  <2>2. PICK m \in matches : m[1] = v[1] /\ m[2] = v[2]
    BY <2>1 DEF Tracked, Located, ListsLine
  <2>3. v[1] \in judged
    BY <2>2 DEF ToJudge
  <2> QED
    BY <2>3 DEF Tracked, Located
<1>4. ASSUME NEW v \in standing PROVE Located(v)'
  BY <1>3 DEF Located
<1> QED
  BY <1>2, <1>4 DEF Tracked

LEMMA EditTreeHolds ==
  ASSUME IInv, EditTree
  PROVE  IInv'
<1> USE DEF IInv, EditTree, repo, rgVars
<1>1. Scope' = Scope
  BY DEF Scope
<1>2. tree' \in [Paths -> Entry]
  <2>1. PICK p \in Paths :
          \/ \E i \in DOMAIN tree[p].lines, l \in Lines : tree' = [tree EXCEPT ![p].lines[i] = l]
          \/ tree[p].lines # <<>> /\ tree' = [tree EXCEPT ![p].lines = Front(@)]
          \/ \E type \in {"file", "link", "missing"} : tree' = [tree EXCEPT ![p].type = type]
    OBVIOUS
  <2>2. tree \in [Paths -> Entry] /\ tree[p].lines \in Seq(Lines)
    BY DEF Files, Entry
  <2>3. CASE \E i \in DOMAIN tree[p].lines, l \in Lines : tree' = [tree EXCEPT ![p].lines[i] = l]
    <3>1. PICK i \in DOMAIN tree[p].lines, l \in Lines :
            tree' = [tree EXCEPT ![p].lines[i] = l]
      BY <2>3
    <3>2. [tree[p].lines EXCEPT ![i] = l] \in Seq(Lines)
      BY <2>2, <3>1, LenProperties, ExceptSeq
    <3>3. [tree[p] EXCEPT !.lines[i] = l] \in Entry
      BY <2>2, <3>2 DEF Entry
    <3> QED
      BY <2>2, <3>1, <3>3
  <2>4. CASE tree[p].lines # <<>> /\ tree' = [tree EXCEPT ![p].lines = Front(@)]
    <3>1. Front(tree[p].lines) \in Seq(Lines)
      BY <2>2, LenProperties, ElementOfSeq, SubSeqProperties DEF Front
    <3> QED
      BY <2>2, <2>4, <3>1 DEF Entry
  <2>5. CASE \E type \in {"file", "link", "missing"} : tree' = [tree EXCEPT ![p].type = type]
    BY <2>2, <2>5 DEF Entry
  <2> QED
    BY <2>1, <2>3, <2>4, <2>5
<1>3. Files'
  BY <1>1, <1>2 DEF Files, Records
<1>4. Sound'
  BY DEF Sound
<1>5. History'
  BY <1>1 DEF History, Files
<1>6. Tracked'
  BY DEF Tracked, Located, ListsLine
<1> QED
  BY <1>3, <1>4, <1>5, <1>6

LEMMA Inductive == Spec => []IInv
<1>1. IInv /\ UNCHANGED vars => IInv'
  BY DEF vars, IInv, Files, Records, Scope, Sound, History, InViolation, Tracked, Located,
         ListsLine
<1>2. IInv /\ Next => IInv'
  BY <1>1, StatEntryHolds, CheckVersionHolds, NextBatchHolds, ScanFileHolds, JudgeFileHolds,
     FinishBatchHolds, ToolFailsHolds, FinishHolds, EditTreeHolds
  DEF Next, Scan, Terminating
<1> QED
  BY <1>1, <1>2, InitHolds, PTL DEF Spec

-----------------------------------------------------------------------------
(* The theorems.                                                            *)

\* No scan of any repository is green over a violation that stood untouched from its first
\* step to its exit: not in a second batch, a retyped file or a damaged record stream.
THEOREM StandingBlocks == Spec => []StandingViolationBlocks
<1>1. IInv => StandingViolationBlocks
  BY DEF IInv, Sound, Tracked, Located, StandingViolationBlocks
<1> QED
  BY <1>1, Inductive, PTL

\* Whatever is edited while it runs, a scan that blocks names only lines that were in
\* violation at some time during it, and at least one.
THEOREM ReportsAreReal == Spec => []ReportedOnceReal
<1>1. IInv => ReportedOnceReal
  BY DEF IInv, Sound, History, ReportedOnceReal
<1> QED
  BY <1>1, Inductive, PTL

\* Without edits the violations reported are exactly those of the work tree.
THEOREM QuietIsExact == Spec => []QuietScanIsExact
<1>1. IInv => QuietScanIsExact
  BY DEF IInv, Sound, History, Tracked, Located, QuietScanIsExact
<1> QED
  BY <1>1, Inductive, PTL

\* A verdict, green or red, is reached only with a ripgrep that runs and output that is
\* whole: no loss or truncation of records passes the checks of the summary and status.
THEOREM FaultsFailClosed == Spec => []FaultFailsClosed
<1>1. IInv => FaultFailsClosed
  BY DEF IInv, Sound, FaultFailsClosed
<1> QED
  BY <1>1, Inductive, PTL

-----------------------------------------------------------------------------
(* GuardJudgement: the brackets a source leaves open, and the walk back     *)
(* from a literal.  Its recursive functions are reasoned about by the least *)
(* argument at which a claim fails.                                         *)

LEMMA LeastNumber ==
  ASSUME NEW T, T \subseteq Nat, T # {}
  PROVE  \E x \in T : \A y \in T : x <= y
<1> DEFINE R == OpToRel(<, Nat)
<1>1. IsWellFoundedOn(R, Nat)
  BY NatLessThanWellFounded
<1>2. \A x, y \in Nat : x < y => <<x, y>> \in R
  BY DEF OpToRel
<1> HIDE DEF R
<1>3. PICK x \in T : \A y \in T : ~ (<<y, x>> \in R)
  BY <1>1, WFMin, Zenon
<1>4. \A y \in T : x \in Nat /\ y \in Nat /\ ~(y < x)
  BY <1>2, <1>3
<1> QED
  BY <1>4

LEMMA InInterval ==
  ASSUME NEW a \in Int, NEW b \in Int, NEW x \in a .. b
  PROVE  x \in Int /\ a <= x /\ x <= b
OBVIOUS

LEMMA GreatestNumber ==
  ASSUME NEW n \in Nat, NEW T, T \subseteq 0 .. n, T # {}
  PROVE  \E x \in T : \A y \in T : y <= x
<1> DEFINE D == {n - x : x \in T}
<1>1. D \subseteq Nat /\ D # {}
  <2>1. \A x \in T : x \in 0 .. n /\ n - x \in Nat
    OBVIOUS
  <2> QED
    BY <2>1
<1>2. PICK d \in D : \A e \in D : d <= e
  <2> HIDE DEF D
  <2> QED
    BY <1>1, LeastNumber
<1>3. PICK x \in T : d = n - x
  BY <1>2
<1>4. ASSUME NEW y \in T PROVE y <= x
  <2>1. n - y \in D /\ n - x <= n - y /\ x \in 0 .. n /\ y \in 0 .. n
    BY <1>2, <1>3
  <2> QED
    BY <2>1
<1> QED
  BY <1>4

\* What advance does to the stack of open brackets with the token t.
StackStep(old, t, new) ==
  \/ /\ t \in Openers
     /\ Len(new) = Len(old) + 1 /\ new[Len(new)] = t
     /\ \A j \in 1 .. Len(old) : new[j] = old[j]
  \/ /\ t \in Closers
     /\ Len(old) > 0 /\ CloserFor(old[Len(old)]) = t
     /\ Len(new) = Len(old) - 1
     /\ \A j \in 1 .. Len(new) : new[j] = old[j]
  \/ t \notin Openers \cup Closers /\ new = old

\* stack[m] is the brackets open after m tokens of s, for every m up to n.
Reading(s, n, stack) ==
  /\ stack \in [0 .. n -> Seq(Openers)]
  /\ stack[0] = <<>>
  /\ \A m \in 1 .. n : StackStep(stack[m - 1], s[m], stack[m])

LEMMA AdvanceOverSteps ==
  ASSUME NEW old \in Seq(Openers), NEW t, AdvanceOver(old, t) # Unknown
  PROVE  /\ AdvanceOver(old, t) \in Seq(Openers)
         /\ StackStep(old, t, AdvanceOver(old, t))
<1> DEFINE new == AdvanceOver(old, t)
<1>1. old # Unknown
  <2>1. "unknown" \notin Openers
    BY DEF Openers
  <2>2. Unknown[1] = "unknown" /\ Len(Unknown) = 1
    BY DEF Unknown
  <2>3. \A i \in 1 .. Len(old) : old[i] \in Openers
    BY ElementOfSeq
  <2> QED
    BY <2>1, <2>2, <2>3
<1>2. Openers \cap Closers = {}
  BY DEF Openers, Closers
<1>3. CASE t \in Openers
  <2>1. new = Append(old, t)
    BY <1>1, <1>3 DEF AdvanceOver
  <2> QED
    BY <1>3, <2>1, AppendProperties DEF StackStep
<1>4. CASE t \in Closers
  <2>1. old # <<>> /\ CloserFor(Last(old)) = t /\ new = Front(old)
    BY <1>1, <1>2, <1>4 DEF AdvanceOver
  <2>2. Len(old) \in Nat \ {0}
    BY <2>1, EmptySeq, LenProperties
  <2>3. Last(old) = old[Len(old)]
    BY DEF Last
  <2> DEFINE l == Len(old)
  <2>4. /\ new \in Seq(Openers) /\ Len(new) = l - 1
        /\ \A j \in 1 .. Len(new) : new[j] = old[j]
    <3>1. new = SubSeq(old, 1, l - 1)
      BY <2>1 DEF Front
    <3>2. \A i \in 1 .. l - 1 : old[i] \in Openers
      BY <2>2, ElementOfSeq
    <3>3. l \in Nat /\ l >= 1
      BY <2>2
    <3> HIDE DEF new, l
    <3>4. /\ new \in Seq(Openers)
          /\ Len(new) = IF 1 <= l - 1 THEN (l - 1) - 1 + 1 ELSE 0
          /\ \A i \in 1 .. (l - 1) - 1 + 1 : new[i] = old[1 + i - 1]
      BY <3>1, <3>2, <3>3, SubSeqProperties
    <3>5. Len(new) = l - 1
      BY <3>3, <3>4
    <3>6. \A j \in 1 .. l - 1 : j \in 1 .. (l - 1) - 1 + 1 /\ 1 + j - 1 = j
      BY <3>3
    <3> QED
      BY <3>3, <3>4, <3>5, <3>6
  <2> QED
    BY <1>4, <2>1, <2>2, <2>3, <2>4 DEF StackStep
<1>5. CASE t \notin Openers \cup Closers
  <2>1. new = old
    BY <1>1, <1>5 DEF AdvanceOver
  <2> QED
    BY <1>5, <2>1 DEF StackStep
<1> QED
  BY <1>3, <1>4, <1>5

\* A run of code that advance gets through is read bracket by bracket.
LEMMA AdvanceReads ==
  ASSUME NEW T, NEW s \in Seq(T), Advance(s) # Unknown
  PROVE  \E stack : Reading(s, Len(s), stack) /\ stack[Len(s)] = Advance(s)
<1> DEFINE N == Len(s)
           Is(f, n) == f = [m \in 0 .. n |-> IF m = 0 THEN <<>>
                                             ELSE AdvanceOver(f[m - 1], s[m])]
           stack == CHOOSE f : Is(f, N)
<1>1. N \in Nat
  BY LenProperties
<1>2. Advance(s) = stack[N]
  BY DEF Advance
<1> HIDE DEF N
<1>3. \A n \in 0 .. N : \E f : Is(f, n)
  <2> DEFINE Bad == {n \in 0 .. N : ~\E f : Is(f, n)}
  <2>1. SUFFICES ASSUME Bad # {} PROVE FALSE
    OBVIOUS
  <2>2. Bad \subseteq Nat
    BY <1>1
  <2>3. PICK n \in Bad : \A y \in Bad : n <= y
    <3> HIDE DEF Bad
    <3> QED
      BY <2>1, <2>2, LeastNumber
  <2>4. n # 0
    <3> DEFINE z == [m \in 0 .. 0 |-> <<>>]
    <3>1. Is(z, 0)
      OBVIOUS
    <3> QED
      BY <2>3, <3>1
  <2>5. n - 1 \in 0 .. N /\ n \in 1 .. N /\ n - 1 \notin Bad
    <3>1. n \in 0 .. N
      BY <2>3
    <3> HIDE DEF Bad
    <3>2. n - 1 \in 0 .. N /\ n \in 1 .. N /\ ~(n <= n - 1)
      BY <1>1, <2>4, <3>1
    <3> QED
      BY <2>3, <3>2
  <2>6. PICK g : Is(g, n - 1)
    BY <2>5
  <2> DEFINE h == [m \in 0 .. n |-> IF m = n THEN AdvanceOver(g[n - 1], s[n]) ELSE g[m]]
  <2>7. ASSUME NEW m \in 0 .. n
        PROVE  h[m] = IF m = 0 THEN <<>> ELSE AdvanceOver(h[m - 1], s[m])
    <3>1. CASE m = n
      <4>1. h[m - 1] = g[n - 1] /\ h[m] = AdvanceOver(g[n - 1], s[n])
        BY <2>5, <3>1
      <4> QED
        BY <2>5, <3>1, <4>1
    <3>2. CASE m # n
      <4>1. m \in 0 .. n - 1 /\ h[m] = g[m]
        BY <2>5, <3>2
      <4>2. m # 0 => h[m - 1] = g[m - 1]
        BY <2>5, <3>2
      <4>3. g[m] = IF m = 0 THEN <<>> ELSE AdvanceOver(g[m - 1], s[m])
        BY <2>6, <4>1
      <4> QED
        BY <4>1, <4>2, <4>3
    <3> QED
      BY <3>1, <3>2
  <2>8. Is(h, n)
    BY <2>7
  <2> QED
    BY <2>3, <2>8
<1>4. Is(stack, N)
  <2>1. \E f : Is(f, N)
    BY <1>1, <1>3
  <2> QED
    BY <2>1
<1>5. /\ stack[0] = <<>>
      /\ \A m \in 1 .. N : stack[m] = AdvanceOver(stack[m - 1], s[m])
      /\ DOMAIN stack = 0 .. N
      /\ stack = [m \in 0 .. N |-> stack[m]]
  <2> HIDE DEF stack
  <2>1. DOMAIN stack = 0 .. N /\ stack = [m \in 0 .. N |-> stack[m]]
    BY <1>4
  <2>2. \A m \in 0 .. N : stack[m] = IF m = 0 THEN <<>> ELSE AdvanceOver(stack[m - 1], s[m])
    BY <1>4
  <2> QED
    BY <1>1, <2>1, <2>2
<1> HIDE DEF stack
\* Once it is Unknown it stays so; hence it never is.
<1>6. ASSUME NEW m \in 0 .. N
      PROVE  stack[m] # Unknown
  <2> DEFINE Bad == {k \in 0 .. N : stack[k] = Unknown}
  <2>1. SUFFICES ASSUME Bad # {} PROVE FALSE
    OBVIOUS
  <2>2. PICK k \in Bad : \A y \in Bad : y <= k
    <3>1. Bad \subseteq 0 .. N
      OBVIOUS
    <3> HIDE DEF Bad
    <3> QED
      BY <1>1, <2>1, <3>1, GreatestNumber
  <2>3. k # N
    BY <1>2, <2>2
  <2>4. k + 1 \in 1 .. N /\ (k + 1) - 1 = k
    BY <1>1, <2>2, <2>3
  <2>5. stack[k + 1] = AdvanceOver(stack[k], s[k + 1])
    BY <1>5, <2>4
  <2>6. stack[k + 1] = Unknown
    BY <2>2, <2>5 DEF AdvanceOver
  <2> QED
    BY <1>1, <2>2, <2>4, <2>6
<1>7. ASSUME NEW m \in 0 .. N
      PROVE  stack[m] \in Seq(Openers)
  <2> DEFINE Bad == {k \in 0 .. N : stack[k] \notin Seq(Openers)}
  <2>1. SUFFICES ASSUME Bad # {} PROVE FALSE
    OBVIOUS
  <2>2. PICK k \in Bad : \A y \in Bad : k <= y
    <3>1. Bad \subseteq Nat
      BY <1>1
    <3> HIDE DEF Bad
    <3> QED
      BY <2>1, <3>1, LeastNumber
  <2>3. k # 0
    BY <1>5, <2>2, EmptySeq
  <2>4. k - 1 \in 0 .. N /\ k \in 1 .. N
    BY <1>1, <2>2, <2>3
  <2>5. stack[k - 1] \in Seq(Openers)
    BY <2>2, <2>4
  <2>6. stack[k] = AdvanceOver(stack[k - 1], s[k]) /\ stack[k] # Unknown
    BY <1>5, <1>6, <2>4
  <2>7. stack[k] \in Seq(Openers)
    BY <2>5, <2>6, AdvanceOverSteps
  <2> QED
    BY <2>2, <2>7
<1>8. ASSUME NEW m \in 1 .. N
      PROVE  StackStep(stack[m - 1], s[m], stack[m])
  <2>1. m - 1 \in 0 .. N /\ m \in 0 .. N
    BY <1>1
  <2>2. stack[m - 1] \in Seq(Openers) /\ stack[m] # Unknown
        /\ stack[m] = AdvanceOver(stack[m - 1], s[m])
    BY <1>5, <1>6, <1>7, <2>1
  <2> QED
    BY <2>2, AdvanceOverSteps
<1>9. Reading(s, N, stack)
  BY <1>5, <1>7, <1>8 DEF Reading
<1> QED
  BY <1>2, <1>9 DEF N
\* What is known of the stack after each token.
LEMMA ReadingSteps ==
  ASSUME NEW s, NEW n \in Nat, NEW stack, Reading(s, n, stack)
  PROVE  /\ \A m \in 0 .. n : stack[m] \in Seq(Openers) /\ Len(stack[m]) \in Nat
         /\ \A m \in 1 .. n :
              /\ m - 1 \in 0 .. n /\ m \in 0 .. n
              /\ StackStep(stack[m - 1], s[m], stack[m])
              /\ Len(stack[m]) \in {Len(stack[m - 1]) - 1, Len(stack[m - 1]),
                                    Len(stack[m - 1]) + 1}
<1>1. \A m \in 0 .. n : stack[m] \in Seq(Openers) /\ Len(stack[m]) \in Nat
  <2>1. \A m \in 0 .. n : stack[m] \in Seq(Openers)
    BY DEF Reading
  <2> QED
    BY <2>1, LenProperties
<1>2. ASSUME NEW m \in 1 .. n
      PROVE  /\ m - 1 \in 0 .. n /\ m \in 0 .. n
             /\ StackStep(stack[m - 1], s[m], stack[m])
             /\ Len(stack[m]) \in {Len(stack[m - 1]) - 1, Len(stack[m - 1]),
                                   Len(stack[m - 1]) + 1}
  <2>1. m - 1 \in 0 .. n /\ m \in 0 .. n
    OBVIOUS
  <2>2. StackStep(stack[m - 1], s[m], stack[m])
    BY DEF Reading
  <2> QED
    BY <2>1, <2>2 DEF StackStep
<1> QED
  BY <1>1, <1>2

\* No fewer brackets are open from p to r than at p.
NeverShorter(stack, p, r) == \A m \in p .. r : Len(stack[m]) >= Len(stack[p])

Keeps(old, new) == \A j \in 1 .. Len(old) : new[j] = old[j]

\* While the stack is no shorter than it was, what was on it stays on it.
LEMMA OpenStays ==
  ASSUME NEW s, NEW n \in Nat, NEW stack, Reading(s, n, stack),
         NEW p \in 0 .. n, NEW r \in p .. n,
         NeverShorter(stack, p, r)
  PROVE  Keeps(stack[p], stack[r])
<1> SUFFICES ASSUME NEW j \in 1 .. Len(stack[p])
             PROVE  stack[r][j] = stack[p][j]
  BY DEF Keeps
<1> DEFINE Bad == {m \in p .. r : stack[m][j] # stack[p][j]}
<1>1. SUFFICES ASSUME Bad # {} PROVE FALSE
  OBVIOUS
<1>2. PICK m \in Bad : \A y \in Bad : m <= y
  <2>1. Bad \subseteq Nat
    OBVIOUS
  <2> HIDE DEF Bad
  <2> QED
    BY <1>1, <2>1, LeastNumber
<1>3. m \in p .. r /\ stack[m][j] # stack[p][j] /\ m # p
  BY <1>2
<1>4. m - 1 \in p .. r /\ m \in 1 .. n /\ m - 1 \in 0 .. n /\ ~(m <= m - 1)
  BY <1>3
<1>5. stack[m - 1][j] = stack[p][j]
  BY <1>2, <1>4
<1>6. /\ Len(stack[m - 1]) \in Nat /\ Len(stack[m]) \in Nat /\ Len(stack[p]) \in Nat
      /\ j <= Len(stack[m - 1]) /\ j <= Len(stack[m])
  BY <1>3, <1>4, ReadingSteps DEF NeverShorter
<1>7. StackStep(stack[m - 1], s[m], stack[m])
  BY <1>4, ReadingSteps
<1>8. j \in 1 .. Len(stack[m - 1]) /\ j \in 1 .. Len(stack[m])
  BY <1>6
<1>9. stack[m][j] = stack[m - 1][j]
  BY <1>7, <1>8 DEF StackStep
<1> QED
  BY <1>3, <1>5, <1>9

\* If the stack is ever shorter than the opener s[q] left it, the first time it is so the
\* token is the opener's closer.
LEMMA FirstShorter ==
  ASSUME NEW s, NEW n \in Nat, NEW stack, Reading(s, n, stack),
         NEW q \in 1 .. n, s[q] \in Openers,
         NEW e \in q .. n, Len(stack[e]) < Len(stack[q])
  PROVE  \E c \in q + 1 .. e :
           /\ s[c] = CloserFor(s[q])
           /\ Len(stack[c]) = Len(stack[q]) - 1 /\ Len(stack[c - 1]) = Len(stack[q])
           /\ \A m \in q .. c - 1 : Len(stack[m]) >= Len(stack[q])
<1> DEFINE Short == {m \in q .. e : Len(stack[m]) < Len(stack[q])}
<1>1. PICK c \in Short : \A y \in Short : c <= y
  <2>1. Short \subseteq Nat /\ e \in Short
    OBVIOUS
  <2> HIDE DEF Short
  <2> QED
    BY <2>1, LeastNumber
<1>2. c \in q .. e /\ Len(stack[c]) < Len(stack[q]) /\ c \in 0 .. n /\ q \in 0 .. n
  BY <1>1
<1>3. Len(stack[c]) \in Nat /\ Len(stack[q]) \in Nat
  BY <1>2, ReadingSteps
<1>4. c # q
  BY <1>2, <1>3
<1>5. c \in q + 1 .. e /\ c \in 1 .. n /\ c - 1 \in q .. n /\ c - 1 \in q .. e
      /\ c - 1 \in 0 .. n
  BY <1>2, <1>4
<1>6. \A m \in q .. c - 1 : Len(stack[m]) >= Len(stack[q])
  <2> TAKE m \in q .. c - 1
  <2>1. m \in q .. e /\ m \in 0 .. n /\ ~(c <= m)
    BY <1>5
  <2>2. ~(Len(stack[m]) < Len(stack[q]))
    BY <1>1, <2>1
  <2>3. Len(stack[m]) \in Nat
    BY <2>1, ReadingSteps
  <2> QED
    BY <1>3, <2>2, <2>3
<1>7. Len(stack[c - 1]) >= Len(stack[q]) /\ Len(stack[c - 1]) \in Nat
  <2>1. c - 1 \in q .. c - 1
    BY <1>5
  <2> QED
    BY <1>5, <1>6, <2>1, ReadingSteps
<1>8. StackStep(stack[c - 1], s[c], stack[c])
      /\ Len(stack[c]) \in {Len(stack[c - 1]) - 1, Len(stack[c - 1]), Len(stack[c - 1]) + 1}
  BY <1>5, ReadingSteps
<1>9. Len(stack[c]) = Len(stack[q]) - 1 /\ Len(stack[c - 1]) = Len(stack[q])
  BY <1>2, <1>3, <1>7, <1>8
<1>10. CloserFor(stack[c - 1][Len(stack[c - 1])]) = s[c]
  <2>1. Len(stack[c]) # Len(stack[c - 1]) /\ Len(stack[c]) # Len(stack[c - 1]) + 1
    BY <1>3, <1>9
  <2> QED
    BY <1>8, <2>1 DEF StackStep
<1>11. Len(stack[q]) > 0 /\ stack[q][Len(stack[q])] = s[q]
  <2>1. StackStep(stack[q - 1], s[q], stack[q])
    BY ReadingSteps
  <2>2. q - 1 \in 0 .. n /\ Len(stack[q - 1]) \in Nat
    BY ReadingSteps
  <2>3. s[q] \notin Closers
    BY DEF Openers, Closers
  <2> QED
    BY <2>1, <2>2, <2>3 DEF StackStep
<1>12. stack[c - 1][Len(stack[q])] = stack[q][Len(stack[q])]
  <2>1. Len(stack[q]) \in 1 .. Len(stack[q])
    BY <1>3, <1>11
  <2>2. Keeps(stack[q], stack[c - 1])
    <3>1. q \in 0 .. n /\ c - 1 \in q .. n /\ NeverShorter(stack, q, c - 1)
      BY <1>5, <1>6 DEF NeverShorter
    <3> HIDE DEF Short
    <3> QED
      BY <3>1, OpenStays
  <2> QED
    BY <2>1, <2>2 DEF Keeps
<1> QED
  BY <1>5, <1>6, <1>9, <1>10, <1>11, <1>12

\* Between two places with the same number of brackets open, and no fewer in between,
\* the brackets match.
LEMMA LevelIsBalanced ==
  ASSUME NEW s, NEW n \in Nat, NEW stack, Reading(s, n, stack),
         NEW a \in 1 .. n + 1, NEW b \in a - 1 .. n,
         Len(stack[b]) = Len(stack[a - 1]),
         \A m \in a - 1 .. b : Len(stack[m]) >= Len(stack[a - 1])
  PROVE  Balanced(s, a, b)
<1> DEFINE X == a .. b + 1
           Y == a - 1 .. b
           Holds(f, x, y) ==
             IF x > y THEN TRUE
             ELSE IF s[x] \in Openers
             THEN \E c \in x + 1 .. y :
                    s[c] = CloserFor(s[x]) /\ f[x + 1][c - 1] /\ f[c + 1][y]
             ELSE s[x] \notin Closers /\ f[x + 1][y]
           Rule(f, x) == [y \in Y |-> Holds(f, x, y)]
           Is(f) == f = [x \in X |-> Rule(f, x)]
           matched == CHOOSE f : Is(f)
           Ahead(x) == b + 1 - x
           Width(x, y) == y + 1 - x
<1>1. Balanced(s, a, b) = matched[a][b]
  BY DEF Balanced
<1>2. a \in Int /\ b \in Int /\ a <= b + 1 /\ a >= 1
  OBVIOUS
<1> HIDE DEF matched
\* The places at which the definition of matched[x] looks lie further on.
<1>3. ASSUME NEW f, NEW g, NEW x \in X,
             \A u \in X : u > x => f[u] = g[u]
      PROVE  Rule(f, x) = Rule(g, x)
  <2>1. ASSUME NEW y \in Y
        PROVE  Holds(f, x, y) = Holds(g, x, y)
    <3>1. ASSUME x <= y
          PROVE  f[x + 1] = g[x + 1]
      BY <1>2, <1>3, <3>1
    <3>2. ASSUME NEW c \in x + 1 .. y
          PROVE  f[x + 1] = g[x + 1] /\ f[c + 1] = g[c + 1]
      <4>1. x + 1 \in X /\ x + 1 > x /\ c + 1 \in X /\ c + 1 > x
        BY <1>2
      <4> HIDE DEF X
      <4> QED
        BY <1>3, <4>1
    <3>3. x \in Int /\ y \in Int /\ (x > y \/ x <= y)
      BY <1>2
    <3> QED
      BY <3>1, <3>2, <3>3
  <2> HIDE DEF Holds
  <2> QED
    BY <2>1
<1> HIDE DEF Rule
\* It has a solution, found from the end.
<1>4. \A w \in Nat : \E f : \A x \in X : Ahead(x) <= w => f[x] = Rule(f, x)
  <2> DEFINE Good(w) == \E f : \A x \in X : Ahead(x) <= w => f[x] = Rule(f, x)
             Bad == {w \in Nat : ~Good(w)}
  <2>1. SUFFICES ASSUME Bad # {} PROVE FALSE
    OBVIOUS
  <2>2. PICK w \in Bad : \A v \in Bad : w <= v
    <3>1. Bad \subseteq Nat
      OBVIOUS
    <3> HIDE DEF Bad
    <3> QED
      BY <2>1, <3>1, LeastNumber
  <2> DEFINE Solved(g) == \A x \in X : Ahead(x) <= w - 1 => g[x] = Rule(g, x)
  <2>3. \E g : Solved(g)
    <3>1. CASE w = 0
      <4>1. \A x \in X : ~(Ahead(x) <= w - 1)
        BY <1>2, <3>1
      <4> QED
        BY <4>1
    <3>2. CASE w # 0
      <4>1. w \in Nat
        BY <2>2
      <4>2. w - 1 \in Nat /\ ~(w <= w - 1)
        BY <3>2, <4>1
      <4>3. w - 1 \notin Bad
        BY <2>2, <4>2
      <4>4. Good(w - 1)
        <5> HIDE DEF Good
        <5> QED
          BY <4>2, <4>3
      <4> QED
        BY <4>4
    <3> QED
      BY <3>1, <3>2
  <2>4. PICK g : Solved(g)
    BY <2>3
  <2>5. w \in Nat
    BY <2>2
  <2> DEFINE h == [x \in X |-> IF Ahead(x) = w THEN Rule(g, x) ELSE g[x]]
  <2>6. /\ \A x \in X : Ahead(x) = w => h[x] = Rule(g, x)
        /\ \A x \in X : Ahead(x) # w => h[x] = g[x]
    BY DEF h
  <2> HIDE DEF h
  <2>7. ASSUME NEW x \in X, Ahead(x) <= w
        PROVE  h[x] = Rule(h, x)
    <3>1. ASSUME NEW u \in X, u > x
          PROVE  h[u] = g[u]
      <4>1. Ahead(u) # w
        BY <1>2, <2>5, <2>7, <3>1
      <4> QED
        BY <2>6, <4>1
    <3>2. Rule(h, x) = Rule(g, x)
      <4> HIDE DEF X
      <4> QED
        BY <1>3, <3>1
    <3>3. Ahead(x) # w => Ahead(x) <= w - 1
      BY <1>2, <2>5, <2>7
    <3> QED
      BY <2>4, <2>6, <3>2, <3>3
  <2>8. Good(w)
    <3> HIDE DEF X, Ahead
    <3> QED
      BY <2>7
  <2> HIDE DEF Good
  <2> QED
    BY <2>2, <2>8
<1>5. Is(matched)
  <2>1. b + 1 - a \in Nat /\ \A x \in X : Ahead(x) <= b + 1 - a
    BY <1>2
  <2>2. PICK f : \A x \in X : f[x] = Rule(f, x)
    <3>1. \E f : \A x \in X : Ahead(x) <= b + 1 - a => f[x] = Rule(f, x)
      <4> HIDE DEF X, Ahead
      <4> QED
        BY <1>4, <2>1
    <3> HIDE DEF X, Ahead
    <3> QED
      BY <2>1, <3>1
  <2> DEFINE g == [x \in X |-> f[x]]
  <2>3. \A x \in X : g[x] = f[x]
    BY DEF g
  <2>4. \A x \in X : Rule(g, x) = Rule(f, x)
    <3> HIDE DEF X, g
    <3> QED
      BY <1>3, <2>3
  <2>5. \A x \in X : f[x] = Rule(g, x)
    BY <2>2, <2>4
  <2>6. g = [x \in X |-> Rule(g, x)]
    <3>1. [x \in X |-> f[x]] = [x \in X |-> Rule(g, x)]
      <4> HIDE DEF X, g
      <4> QED
        BY <2>5
    <3> QED
      BY <3>1 DEF g
  <2> HIDE DEF g
  <2> QED
    BY <2>6 DEF matched
<1>6. \A x \in X, y \in Y : matched[x][y] = Holds(matched, x, y)
  <2>1. \A x \in X : matched[x] = Rule(matched, x)
    <3> HIDE DEF X
    <3> QED
      BY <1>5
  <2> HIDE DEF Holds
  <2> QED
    BY <2>1 DEF Rule
\* No two places of one level are a counterexample, least width first.
<1> DEFINE Level(x, y) == /\ Len(stack[y]) = Len(stack[x - 1])
                          /\ \A m \in x - 1 .. y : Len(stack[m]) >= Len(stack[x - 1])
           Wrong == {w \in Nat : \E x \in X, y \in Y : /\ x <= y + 1 /\ Width(x, y) = w
                                                       /\ Level(x, y) /\ ~matched[x][y]}
<1>7. Wrong = {}
  <2>1. SUFFICES ASSUME Wrong # {} PROVE FALSE
    OBVIOUS
  <2>2. PICK w \in Wrong : \A v \in Wrong : w <= v
    <3>1. Wrong \subseteq Nat
      OBVIOUS
    <3> HIDE DEF Wrong
    <3> QED
      BY <2>1, <3>1, LeastNumber
  <2>3. PICK x \in X, y \in Y : /\ x <= y + 1 /\ Width(x, y) = w
                                /\ Level(x, y) /\ ~matched[x][y]
    BY <2>2
  <2>4. ASSUME NEW u \in X, NEW v \in Y, u <= v + 1, Width(u, v) < w, Level(u, v)
        PROVE  matched[u][v]
    <3>1. Width(u, v) \in Nat /\ w \in Nat
      BY <1>2, <2>2, <2>4
    <3>2. Width(u, v) \notin Wrong
      <4>1. ~(w <= Width(u, v))
        BY <2>4, <3>1
      <4> HIDE DEF Wrong, Width
      <4> QED
        BY <2>2, <4>1
    <3> HIDE DEF Level
    <3> QED
      BY <2>4, <3>1, <3>2
  <2>5. Holds(matched, x, y) = FALSE
    BY <1>6, <2>3
  <2>6. x <= y /\ x \in 1 .. n /\ y \in x .. n /\ x - 1 \in 0 .. n /\ y \in 0 .. n
        /\ x \in 0 .. n
    <3>1. ~(x > y)
      BY <2>5
    <3> QED
      BY <1>2, <3>1
  <2>7. /\ Len(stack[x - 1]) \in Nat /\ Len(stack[x]) \in Nat
        /\ StackStep(stack[x - 1], s[x], stack[x])
    BY <2>6, ReadingSteps
  <2>8. CASE s[x] \in Openers
    <3>1. Len(stack[x]) = Len(stack[x - 1]) + 1
      <4>1. s[x] \notin Closers
        BY <2>8 DEF Openers, Closers
      <4> QED
        BY <2>7, <2>8, <4>1 DEF StackStep
    <3>2. Len(stack[y]) < Len(stack[x])
      BY <2>3, <2>7, <3>1
    <3>3. PICK c \in x + 1 .. y :
            /\ s[c] = CloserFor(s[x])
            /\ Len(stack[c]) = Len(stack[x]) - 1 /\ Len(stack[c - 1]) = Len(stack[x])
            /\ \A m \in x .. c - 1 : Len(stack[m]) >= Len(stack[x])
      BY <2>6, <2>8, <3>2, FirstShorter
    <3>4. Level(x + 1, c - 1)
      <4>1. (x + 1) - 1 = x
        BY <2>6
      <4> QED
        BY <3>3, <4>1
    <3>5. Level(c + 1, y)
      <4>1. (c + 1) - 1 = c /\ c \in x - 1 .. y
        BY <2>6
      <4>2. Len(stack[c]) = Len(stack[x - 1])
        BY <2>7, <3>1, <3>3
      <4>3. \A m \in c .. y : m \in x - 1 .. y
        BY <4>1
      <4> QED
        BY <2>3, <4>1, <4>2, <4>3
    <3>6. matched[x + 1][c - 1]
      <4>1. /\ x + 1 \in X /\ c - 1 \in Y /\ x + 1 <= (c - 1) + 1
            /\ Width(x + 1, c - 1) < w
        BY <1>2, <2>3, <2>6
      <4> HIDE DEF Level, X, Y, Width
      <4> QED
        BY <2>4, <3>4, <4>1
    <3>7. matched[c + 1][y]
      <4>1. c + 1 \in X /\ c + 1 <= y + 1 /\ Width(c + 1, y) < w
        BY <1>2, <2>3, <2>6
      <4> HIDE DEF Level, X, Y, Width
      <4> QED
        BY <2>4, <3>5, <4>1
    <3> QED
      BY <2>5, <2>6, <2>8, <3>3, <3>6, <3>7
  <2>9. CASE s[x] \in Closers
    <3>1. Len(stack[x]) = Len(stack[x - 1]) - 1
      <4>1. s[x] \notin Openers
        BY <2>9 DEF Openers, Closers
      <4> QED
        BY <2>7, <2>9, <4>1 DEF StackStep
    <3>2. x \in x - 1 .. y
      BY <2>6
    <3>3. Len(stack[x]) >= Len(stack[x - 1])
      BY <2>3, <3>2
    <3> QED
      BY <2>7, <3>1, <3>3
  <2>10. CASE s[x] \notin Openers \cup Closers
    <3>1. stack[x] = stack[x - 1]
      BY <2>7, <2>10 DEF StackStep
    <3>2. (x + 1) - 1 = x /\ \A m \in x .. y : m \in x - 1 .. y
      BY <2>6
    <3>3. Level(x + 1, y)
      BY <2>3, <3>1, <3>2
    <3>4. x + 1 \in X /\ x + 1 <= y + 1 /\ Width(x + 1, y) < w
      BY <1>2, <2>3, <2>6
    <3>5. matched[x + 1][y]
      <4> HIDE DEF Level, X, Y, Width
      <4> QED
        BY <2>3, <2>4, <3>3, <3>4
    <3>6. ~(x > y)
      BY <2>6
    <3> QED
      BY <2>5, <2>10, <3>5, <3>6
  <2> QED
    BY <2>8, <2>9, <2>10
<1>8. a \in X /\ b \in Y /\ Width(a, b) \in Nat /\ Level(a, b)
  BY <1>2
<1>9. matched[a][b]
  <2> HIDE DEF Level, X, Y, Width
  <2> QED
    BY <1>2, <1>7, <1>8
<1> QED
  BY <1>1, <1>9

\* A parenthesis that is no longer on the stack has been closed.
LEMMA ClosedInBetween ==
  ASSUME NEW s, NEW n \in Nat, NEW stack, Reading(s, n, stack),
         NEW q \in 1 .. n, s[q] = "(", ~Contains(stack[n], "(")
  PROVE  \E c \in q + 1 .. n : s[c] = ")" /\ Balanced(s, q + 1, c - 1)
<1>1. s[q] \in Openers /\ s[q] \notin Closers
  BY DEF Openers, Closers
<1>2. \E e \in q .. n : Len(stack[e]) < Len(stack[q])
  <2>1. SUFFICES ASSUME \A e \in q .. n : ~(Len(stack[e]) < Len(stack[q])) PROVE FALSE
    OBVIOUS
  <2>2. \A m \in q .. n : Len(stack[m]) >= Len(stack[q])
    <3> TAKE m \in q .. n
    <3>1. m \in 0 .. n /\ q \in 0 .. n
      OBVIOUS
    <3>2. Len(stack[m]) \in Nat /\ Len(stack[q]) \in Nat
      BY <3>1, ReadingSteps
    <3> QED
      BY <2>1, <3>2
  <2>3. /\ Len(stack[q]) \in 1 .. Len(stack[q]) /\ stack[q][Len(stack[q])] = "("
        /\ n \in q .. n /\ q \in 0 .. n
    <3>1. StackStep(stack[q - 1], s[q], stack[q]) /\ Len(stack[q - 1]) \in Nat
      BY ReadingSteps
    <3> QED
      BY <1>1, <3>1 DEF StackStep
  <2>4. stack[n][Len(stack[q])] = "("
    <3>1. NeverShorter(stack, q, n)
      BY <2>2 DEF NeverShorter
    <3>2. Keeps(stack[q], stack[n])
      BY <2>3, <3>1, OpenStays
    <3> QED
      BY <2>3, <3>2 DEF Keeps
  <2>5. Len(stack[n]) \in Nat /\ Len(stack[q]) \in Nat /\ Len(stack[q]) \in 1 .. Len(stack[n])
    <3>1. n \in 0 .. n
      OBVIOUS
    <3>2. Len(stack[n]) \in Nat /\ Len(stack[q]) \in Nat
      BY <2>3, <3>1, ReadingSteps
    <3> QED
      BY <2>2, <2>3, <3>2
  <2> QED
    BY <2>4, <2>5 DEF Contains
<1>3. PICK e \in q .. n : Len(stack[e]) < Len(stack[q])
  BY <1>2
<1>4. PICK c \in q + 1 .. e :
        /\ s[c] = CloserFor(s[q])
        /\ Len(stack[c]) = Len(stack[q]) - 1 /\ Len(stack[c - 1]) = Len(stack[q])
        /\ \A m \in q .. c - 1 : Len(stack[m]) >= Len(stack[q])
  BY <1>1, <1>3, FirstShorter
<1>5. c \in q + 1 .. n /\ q + 1 \in 1 .. n + 1 /\ c - 1 \in (q + 1) - 1 .. n /\ (q + 1) - 1 = q
  BY <1>3
<1>6. Balanced(s, q + 1, c - 1)
  BY <1>4, <1>5, LevelIsBalanced
<1>7. CloserFor(s[q]) = ")"
  BY DEF CloserFor
<1> QED
  BY <1>4, <1>5, <1>6, <1>7

LEMMA SkipBackTrivia ==
  ASSUME NEW s, NEW p \in Nat
  PROVE  SkipBack(s, p) \in 0 .. p /\ \A m \in SkipBack(s, p) + 1 .. p : s[m] \in Trivia
<1> DEFINE solid == {q \in 1 .. p : s[q] \notin Trivia}
<1>1. CASE solid = {}
  <2>1. SkipBack(s, p) = 0
    BY <1>1 DEF SkipBack
  <2> QED
    BY <1>1, <2>1
<1>2. CASE solid # {}
  <2>1. \E q \in solid : \A r \in solid : r <= q
    <3>1. solid \subseteq 0 .. p
      OBVIOUS
    <3> HIDE DEF solid
    <3> QED
      BY <1>2, <3>1, GreatestNumber
  <2> DEFINE last == CHOOSE q \in solid : \A r \in solid : r <= q
  <2>2. SkipBack(s, p) = last
    BY <1>2 DEF SkipBack
  <2>3. last \in solid /\ \A r \in solid : r <= last
    <3> HIDE DEF solid
    <3> QED
      BY <2>1
  <2> HIDE DEF last
  <2>4. ASSUME NEW m \in last + 1 .. p PROVE s[m] \in Trivia
    <3>1. m \in 1 .. p /\ ~(m <= last)
      BY <2>3
    <3> QED
      BY <2>3, <3>1
  <2> QED
    BY <2>2, <2>3, <2>4
<1> QED
  BY <1>1, <1>2

\* From where crossing the collection starts to where it ends there is data alone.
LEMMA CrossBackOverData ==
  ASSUME NEW T, NEW s \in Seq(T), NEW p \in 0 .. Len(s), CrossBack(s, p) # -1
  PROVE  /\ CrossBack(s, p) \in 0 .. p
         /\ \A m \in CrossBack(s, p) + 1 .. p : s[m] \in Literals \cup {","} \cup Trivia
<1> DEFINE N == Len(s)
           Data == Literals \cup {","} \cup Trivia
           behind(r) == SkipBack(s, r - 1)
           beyond(r) == SkipBack(s, behind(r) - 1)
           Rule(f, r) == IF At(s, r) # "," THEN r
                         ELSE IF At(s, behind(r)) \in Literals THEN f[beyond(r)] ELSE -1
           Is(f) == f = [r \in 0 .. N |-> Rule(f, r)]
           crossed == CHOOSE f : Is(f)
<1>1. N \in Nat /\ DOMAIN s = 1 .. N
  BY LenProperties
<1>2. CrossBack(s, p) = crossed[p]
  BY DEF CrossBack
<1> HIDE DEF N, crossed
\* Where a literal is found before the comma at r, the walk goes on further back.
<1>3. ASSUME NEW r \in 0 .. N, At(s, r) = ",", At(s, behind(r)) \in Literals
      PROVE  /\ r \in 1 .. N /\ behind(r) \in 1 .. r - 1 /\ beyond(r) \in 0 .. behind(r) - 1
             /\ \A m \in beyond(r) + 1 .. r : s[m] \in Data
  <2>1. r \in 1 .. N /\ s[r] = ","
    BY <1>1, <1>3 DEF At
  <2>2. r - 1 \in Nat
    <3>1. 1 \in Int /\ N \in Int
      BY <1>1
    <3>2. r \in Int /\ 1 <= r
      BY <2>1, <3>1, InInterval
    <3> QED
      BY <3>2
  <2>3. behind(r) \in 0 .. r - 1 /\ \A m \in behind(r) + 1 .. r - 1 : s[m] \in Trivia
    BY <2>2, SkipBackTrivia
  <2>4. behind(r) \in 1 .. r - 1 /\ s[behind(r)] \in Literals
    <3> HIDE DEF behind
    <3>1. behind(r) \in 1 .. N /\ s[behind(r)] \in Literals
      BY <1>1, <1>3 DEF At, Literals
    <3> QED
      BY <2>3, <3>1
  <2>5. behind(r) - 1 \in Nat
    BY <2>4
  <2>6. beyond(r) \in 0 .. behind(r) - 1
        /\ \A m \in beyond(r) + 1 .. behind(r) - 1 : s[m] \in Trivia
    BY <2>5, SkipBackTrivia
  <2> HIDE DEF behind, beyond
  <2>7. ASSUME NEW m \in beyond(r) + 1 .. r PROVE s[m] \in Data
    <3>1. \/ m = r \/ m = behind(r)
          \/ m \in behind(r) + 1 .. r - 1 \/ m \in beyond(r) + 1 .. behind(r) - 1
      <4>1. r \in Int /\ behind(r) \in Int /\ beyond(r) \in Int
        <5>1. r - 1 \in Int /\ behind(r) - 1 \in Int /\ 0 \in Int /\ 1 \in Int /\ N \in Int
          BY <1>1, <2>2, <2>5
        <5> QED
          BY <2>1, <2>4, <2>6, <5>1, InInterval
      <4>2. m \in Int /\ beyond(r) + 1 <= m /\ m <= r
        BY <4>1
      <4> QED
        BY <4>1, <4>2
    <3> QED
      BY <2>1, <2>3, <2>4, <2>6, <3>1
  <2> QED
    BY <2>1, <2>4, <2>6, <2>7
<1>4. ASSUME NEW f, NEW g, NEW r \in 0 .. N, \A u \in 0 .. r - 1 : f[u] = g[u]
      PROVE  Rule(f, r) = Rule(g, r)
  <2>1. CASE At(s, r) = "," /\ At(s, behind(r)) \in Literals
    <3>1. r \in 1 .. N /\ behind(r) \in 1 .. r - 1 /\ beyond(r) \in 0 .. behind(r) - 1
      BY <1>3, <2>1
    <3> HIDE DEF behind, beyond
    <3>2. beyond(r) \in 0 .. r - 1
      BY <3>1
    <3> QED
      BY <1>4, <3>2
  <2>2. CASE ~(At(s, r) = "," /\ At(s, behind(r)) \in Literals)
    <3> HIDE DEF behind, beyond
    <3> QED
      BY <2>2
  <2> QED
    BY <2>1, <2>2
<1> HIDE DEF Rule
\* The recursive definition has a solution, found from the start.
<1>5. \A w \in Nat : \E f : \A r \in 0 .. N : r < w => f[r] = Rule(f, r)
  <2> DEFINE Good(w) == \E f : \A r \in 0 .. N : r < w => f[r] = Rule(f, r)
             Bad == {w \in Nat : ~Good(w)}
  <2>1. SUFFICES ASSUME Bad # {} PROVE FALSE
    OBVIOUS
  <2>2. PICK w \in Bad : \A v \in Bad : w <= v
    <3>1. Bad \subseteq Nat
      OBVIOUS
    <3> HIDE DEF Bad
    <3> QED
      BY <2>1, <3>1, LeastNumber
  <2>3. w # 0
    <3>1. \A r \in 0 .. N : ~(r < 0)
      OBVIOUS
    <3>2. Good(0)
      BY <3>1
    <3> HIDE DEF Good
    <3> QED
      BY <2>2, <3>2
  <2>4. w \in Nat /\ Good(w - 1)
    <3>1. w \in Nat
      BY <2>2
    <3>2. w - 1 \in Nat /\ ~(w <= w - 1)
      BY <2>3, <3>1
    <3>3. w - 1 \notin Bad
      BY <2>2, <3>2
    <3> HIDE DEF Good
    <3> QED
      BY <3>1, <3>2, <3>3
  <2>5. PICK g : \A r \in 0 .. N : r < w - 1 => g[r] = Rule(g, r)
    BY <2>4
  <2> DEFINE h == [r \in 0 .. N |-> IF r = w - 1 THEN Rule(g, r) ELSE g[r]]
  <2>6. /\ \A r \in 0 .. N : r = w - 1 => h[r] = Rule(g, r)
        /\ \A r \in 0 .. N : r # w - 1 => h[r] = g[r]
    BY DEF h
  <2> HIDE DEF h
  <2>7. ASSUME NEW r \in 0 .. N, r < w PROVE h[r] = Rule(h, r)
    <3>1. \A u \in 0 .. r - 1 : h[u] = g[u]
      <4> TAKE u \in 0 .. r - 1
      <4>1. u \in 0 .. N /\ u # w - 1
        BY <1>1, <2>4, <2>7
      <4> QED
        BY <2>6, <4>1
    <3>2. Rule(h, r) = Rule(g, r)
      BY <1>4, <3>1
    <3>3. r # w - 1 => r < w - 1
      BY <2>4, <2>7
    <3> QED
      BY <2>5, <2>6, <3>2, <3>3
  <2>8. Good(w)
    BY <2>7
  <2> HIDE DEF Good
  <2> QED
    BY <2>2, <2>8
<1>6. Is(crossed)
  <2>1. PICK f : \A r \in 0 .. N : f[r] = Rule(f, r)
    <3>1. N + 1 \in Nat /\ \A r \in 0 .. N : r < N + 1
      BY <1>1
    <3>2. \E f : \A r \in 0 .. N : r < N + 1 => f[r] = Rule(f, r)
      BY <1>5, <3>1
    <3> QED
      BY <3>1, <3>2
  <2> DEFINE g == [r \in 0 .. N |-> f[r]]
  <2>2. \A r \in 0 .. N : g[r] = f[r]
    BY DEF g
  <2>3. ASSUME NEW r \in 0 .. N PROVE f[r] = Rule(g, r)
    <3>1. \A u \in 0 .. r - 1 : g[u] = f[u]
      <4> TAKE u \in 0 .. r - 1
      <4>1. u \in 0 .. N
        BY <1>1
      <4> HIDE DEF g
      <4> QED
        BY <2>2, <4>1
    <3>2. Rule(g, r) = Rule(f, r)
      <4> HIDE DEF g
      <4> QED
        BY <1>4, <3>1
    <3> QED
      BY <2>1, <3>2
  <2>4. g = [r \in 0 .. N |-> Rule(g, r)]
    <3>1. [r \in 0 .. N |-> f[r]] = [r \in 0 .. N |-> Rule(g, r)]
      <4> HIDE DEF g
      <4> QED
        BY <2>3
    <3> QED
      BY <3>1 DEF g
  <2> HIDE DEF g
  <2> QED
    BY <2>4 DEF crossed
<1>7. \A r \in 0 .. N : crossed[r] = Rule(crossed, r)
  BY <1>6
<1> DEFINE Claim(r) == crossed[r] # -1 => /\ crossed[r] \in 0 .. r
                                          /\ \A m \in crossed[r] + 1 .. r : s[m] \in Data
           Wrong == {r \in 0 .. N : ~Claim(r)}
<1>8. Wrong = {}
  <2>1. SUFFICES ASSUME Wrong # {} PROVE FALSE
    OBVIOUS
  <2>2. PICK r \in Wrong : \A v \in Wrong : r <= v
    <3>1. Wrong \subseteq Nat
      <4> HIDE DEF Claim
      <4> QED
        BY <1>1
    <3> HIDE DEF Wrong
    <3> QED
      BY <2>1, <3>1, LeastNumber
  <2>3. r \in 0 .. N /\ ~Claim(r)
    <3> HIDE DEF Claim
    <3> QED
      BY <2>2
  <2>4. crossed[r] = Rule(crossed, r)
    BY <1>7, <2>3
  <2>5. CASE At(s, r) # ","
    <3>1. crossed[r] = r
      BY <2>4, <2>5 DEF Rule
    <3>2. r \in 0 .. r /\ \A m \in r + 1 .. r : FALSE
      <4> HIDE DEF Claim, Wrong
      <4>1. r \in Nat
        BY <1>1, <2>3
      <4> QED
        BY <4>1
    <3>3. Claim(r)
      BY <3>1, <3>2
    <3> HIDE DEF Claim
    <3> QED
      BY <2>3, <3>3
  <2>6. CASE At(s, r) = "," /\ At(s, behind(r)) \in Literals
    <3>1. /\ r \in 1 .. N /\ behind(r) \in 1 .. r - 1 /\ beyond(r) \in 0 .. behind(r) - 1
          /\ \A m \in beyond(r) + 1 .. r : s[m] \in Data
      BY <1>3, <2>3, <2>6
    <3>2. crossed[r] = crossed[beyond(r)]
      BY <2>4, <2>6 DEF Rule
    <3> HIDE DEF behind, beyond, Data
    <3>3. beyond(r) \in 0 .. N /\ ~(r <= beyond(r))
      BY <1>1, <3>1
    <3>4. Claim(beyond(r))
      <4> HIDE DEF Claim
      <4> QED
        BY <2>2, <3>3
    <3>5. ASSUME crossed[r] # -1 PROVE crossed[r] \in 0 .. r
                                       /\ \A m \in crossed[r] + 1 .. r : s[m] \in Data
      <4>1. /\ crossed[r] \in 0 .. beyond(r)
            /\ \A m \in crossed[r] + 1 .. beyond(r) : s[m] \in Data
        BY <3>2, <3>4, <3>5
      <4>2. \A m \in crossed[r] + 1 .. r :
              m \in crossed[r] + 1 .. beyond(r) \/ m \in beyond(r) + 1 .. r
        BY <3>1, <4>1
      <4>3. crossed[r] \in 0 .. r
        BY <3>1, <4>1
      <4> QED
        BY <3>1, <4>1, <4>2, <4>3
    <3> QED
      BY <2>3, <3>5
  <2>7. CASE At(s, r) = "," /\ At(s, behind(r)) \notin Literals
    <3>1. crossed[r] = -1
      BY <2>4, <2>7 DEF Rule
    <3> QED
      BY <2>3, <3>1
  <2> QED
    BY <2>5, <2>6, <2>7
<1>9. Claim(p)
  <2>1. p \in 0 .. N
    BY DEF N
  <2> HIDE DEF Claim
  <2> QED
    BY <1>8, <2>1
<1> QED
  BY <1>2, <1>9

-----------------------------------------------------------------------------
(* The source as far as it has been written.                                *)

Written == left \in Seq(LeftTokens) /\ right \in Seq(RightTokens)

LEMMA WrittenInvariant == JudgementSpec => []Written
<1>1. SourceInit => Written
  BY EmptySeq DEF SourceInit, Written
<1>2. ASSUME Written, [SourceNext]_sourceVars
      PROVE  Written'
  <2>1. CASE \E t \in LeftTokens : WriteLeft(t)
    BY <1>2, <2>1, AppendProperties DEF Written, WriteLeft
  <2>2. CASE \E t \in RightTokens : WriteRight(t)
    BY <1>2, <2>2, AppendProperties DEF Written, WriteRight
  <2>3. CASE UNCHANGED sourceVars
    BY <1>2, <2>3 DEF Written, sourceVars
  <2> QED
    BY <1>2, <2>1, <2>2, <2>3 DEF SourceNext
<1> QED
  BY <1>1, <1>2, PTL DEF JudgementSpec

\* The tokens to the left of the literal are the first of the source.
LEMMA SourceBegins ==
  ASSUME Written
  PROVE  /\ Source \in Seq(LeftTokens \cup {Host} \cup RightTokens)
         /\ Len(left) \in Nat /\ DOMAIN left = 1 .. Len(left)
         /\ DOMAIN Source = 1 .. Len(Source) /\ Len(Source) \in Nat
         /\ Len(Source) >= Place /\ Place = Len(left) + 1
         /\ \A m \in 1 .. Len(left) : Source[m] = left[m]
<1> DEFINE T == LeftTokens \cup {Host} \cup RightTokens
           mid == <<Host>>
           most == left \o mid
<1>1. left \in Seq(T) /\ right \in Seq(T) /\ mid \in Seq(T) /\ Len(mid) = 1
  <2>1. left \in Seq(T) /\ right \in Seq(T)
    BY DEF Written
  <2> QED
    BY <2>1
<1>2. Len(left) \in Nat /\ Len(right) \in Nat /\ DOMAIN left = 1 .. Len(left)
  BY <1>1, LenProperties
<1> HIDE DEF T, mid
<1>3. /\ most \in Seq(T) /\ Len(most) = Len(left) + 1
      /\ \A m \in 1 .. Len(left) : most[m] = left[m]
  <2>1. /\ most \in Seq(T) /\ Len(most) = Len(left) + Len(mid)
        /\ \A m \in 1 .. Len(left) + Len(mid) :
             most[m] = IF m <= Len(left) THEN left[m] ELSE mid[m - Len(left)]
    BY <1>1, ConcatProperties
  <2> HIDE DEF most
  <2>2. \A m \in 1 .. Len(left) : m \in 1 .. Len(left) + Len(mid) /\ m <= Len(left)
    BY <1>1, <1>2
  <2> QED
    BY <1>1, <2>1, <2>2
<1>4. Source = most \o right
  BY DEF Source, mid
<1> HIDE DEF most
<1>5. /\ Source \in Seq(T) /\ Len(Source) = Len(most) + Len(right)
      /\ \A m \in 1 .. Len(most) : Source[m] = most[m]
  <2>1. LET whole == most \o right
        IN  /\ whole \in Seq(T) /\ Len(whole) = Len(most) + Len(right)
            /\ \A m \in 1 .. Len(most) + Len(right) :
                 whole[m] = IF m <= Len(most) THEN most[m] ELSE right[m - Len(most)]
    BY <1>1, <1>3, ConcatProperties
  <2>2. \A m \in 1 .. Len(most) : m \in 1 .. Len(most) + Len(right) /\ m <= Len(most)
    BY <1>2, <1>3
  <2> QED
    BY <1>4, <2>1, <2>2
<1>6. \A m \in 1 .. Len(left) : Source[m] = left[m]
  <2> TAKE m \in 1 .. Len(left)
  <2>1. m \in 1 .. Len(most)
    BY <1>2, <1>3
  <2> QED
    BY <1>3, <1>5, <2>1
<1>7. DOMAIN Source = 1 .. Len(Source) /\ Len(Source) \in Nat
  BY <1>5, LenProperties
<1> QED
  BY <1>2, <1>3, <1>5, <1>6, <1>7 DEF Place, T

\* A key that covers the literal stands behind every call before it, or the call is closed.
LEMMA KeyedOutsideCalls ==
  ASSUME Written, NEW line, KeyedLiteral(Source, Place, line),
         NEW q \in DOMAIN left, left[q] = "(", At(left, q - 1) \in Names
  PROVE  \E c \in q + 1 .. Len(left) : left[c] = ")" /\ Balanced(left, q + 1, c - 1)
<1> DEFINE s == Source
           i == Place
           start == SkipBack(s, i - 1)
           back == CrossBack(s, start)
           enclosed == back > 0 /\ s[back] \in Openers
           p == IF enclosed THEN SkipBack(s, back - 1) ELSE back
           k == p - 1
<1>1. /\ back # -1
      /\ enclosed \/ back = start
      /\ GuardBinding(s, p, line)
  BY DEF KeyedLiteral
<1>2. /\ s \in Seq(LeftTokens \cup {Host} \cup RightTokens)
      /\ Len(left) \in Nat /\ DOMAIN left = 1 .. Len(left)
      /\ DOMAIN s = 1 .. Len(s) /\ Len(s) \in Nat
      /\ Len(s) >= i /\ i = Len(left) + 1
      /\ \A m \in 1 .. Len(left) : s[m] = left[m]
  BY SourceBegins
<1> HIDE DEF s, i
<1>3. /\ start \in 0 .. i - 1 /\ \A m \in start + 1 .. i - 1 : s[m] \in Trivia
  BY <1>2, SkipBackTrivia
<1> HIDE DEF start
<1>4. start \in 0 .. Len(s)
  BY <1>2, <1>3
<1>5. /\ back \in 0 .. start
      /\ \A m \in back + 1 .. start : s[m] \in Literals \cup {","} \cup Trivia
  BY <1>1, <1>2, <1>4, CrossBackOverData
<1> HIDE DEF back
<1>6. /\ i \in Nat /\ start \in Nat /\ back \in Nat
       /\ back <= start /\ start <= i - 1
  <2> HIDE DEF p, enclosed
  <2>1. i \in Nat /\ i - 1 \in Nat
    BY <1>2
  <2>2. start \in Nat /\ start <= i - 1
    BY <1>3, <2>1
  <2>3. back \in Int /\ 0 <= back /\ back <= start
    <3>1. 0 \in Int /\ start \in Int
      BY <2>2
    <3> QED
      BY <1>5, <3>1, InInterval
  <2> QED
    BY <2>1, <2>2, <2>3
<1>7. /\ p \in 0 .. back
      /\ \A m \in p + 1 .. back - 1 : s[m] \in Trivia
      /\ p # back => p <= back - 1
  <2>1. CASE enclosed
    <3>1. p = SkipBack(s, back - 1)
      BY <2>1
    <3>2. back - 1 \in Nat
      BY <1>6, <2>1
    <3>3. SkipBack(s, back - 1) \in 0 .. back - 1
          /\ \A m \in SkipBack(s, back - 1) + 1 .. back - 1 : s[m] \in Trivia
      BY <3>2, SkipBackTrivia
    <3> HIDE DEF p
    <3> QED
      BY <1>6, <3>1, <3>2, <3>3
  <2>2. CASE ~enclosed
    <3>1. p = back
      BY <2>2
    <3> HIDE DEF p
    <3>2. \A m \in back + 1 .. back - 1 : FALSE
      BY <1>6
    <3> QED
      BY <1>6, <3>1, <3>2
  <2> QED
    BY <2>1, <2>2
<1>8. p = back \/ (back > 0 /\ s[back] \in Openers)
  OBVIOUS
<1> HIDE DEF p
<1>9. /\ At(s, p) = "bind" /\ At(s, k) \in Names \cup Literals
      /\ s[k] \in {"guard", "guardLit"}
      /\ Advance(SubSeq(s, 1, k - 1)) # Unknown
      /\ ~Contains(Advance(SubSeq(s, 1, k - 1)), "(")
  BY <1>1 DEF GuardBinding, GuardName
<1>10. p \in 1 .. Len(s) /\ k \in 1 .. Len(s) /\ s[p] = "bind" /\ k < i /\ p < i
  <2>1. p \in DOMAIN s /\ s[p] = "bind" /\ k \in DOMAIN s
    BY <1>9 DEF At, Names, Literals
  <2> QED
    <3>1. p \in Nat /\ p <= back /\ p \in 1 .. Len(s) /\ k \in 1 .. Len(s)
      BY <1>2, <1>6, <1>7, <2>1
    <3> QED
      BY <1>6, <2>1, <3>1
<1>11. /\ q \in 1 .. Len(left) /\ s[q] = "(" /\ q - 1 \in 1 .. Len(left)
       /\ s[q - 1] \in Names
  <2>1. q - 1 \in DOMAIN left /\ left[q - 1] \in Names
    BY DEF At, Names
  <2> QED
    BY <1>2, <2>1
\* The parenthesis is no token of what the walk has crossed.
<1>12. q < k
  <2>1. "(" \notin Trivia /\ "(" \notin Literals /\ "bind" \notin Names
        /\ Names \cap Trivia = {}
    BY DEF Trivia, Literals, Names
  <2>2. ~(q \in start + 1 .. i - 1) /\ ~(q \in back + 1 .. start)
        /\ ~(q \in p + 1 .. back - 1) /\ q # p /\ q # k
    BY <1>3, <1>5, <1>7, <1>9, <1>10, <1>11, <2>1
  <2>3. q # back
    <3>1. SUFFICES ASSUME q = back PROVE FALSE
      OBVIOUS
    <3>2. p <= back - 1 /\ ~(back - 1 \in p + 1 .. back - 1)
      BY <1>7, <1>11, <2>1, <2>2, <3>1
    <3>3. p = q - 1
      BY <1>6, <1>7, <1>10, <3>1, <3>2
    <3> QED
      BY <1>10, <1>11, <2>1, <3>3
  <2>4. q \in Nat /\ p \in Nat /\ back \in Nat /\ start \in Nat /\ i \in Nat /\ k = p - 1
        /\ p <= back /\ back <= start /\ start <= i - 1 /\ q <= i - 1
    BY <1>2, <1>6, <1>7, <1>11
  <2> QED
    BY <2>2, <2>3, <2>4
<1> DEFINE n == k - 1
           t == SubSeq(s, 1, n)
<1>13. n \in Nat /\ n <= Len(left) /\ q \in 1 .. n
  BY <1>2, <1>10, <1>11, <1>12
<1>14. /\ t \in Seq(LeftTokens \cup {Host} \cup RightTokens) /\ Len(t) = n
       /\ \A m \in 1 .. n : t[m] = left[m]
  <2> DEFINE S == LeftTokens \cup {Host} \cup RightTokens
  <2>1. \A m \in 1 .. n : s[m] \in S /\ s[m] = left[m]
    <3> TAKE m \in 1 .. n
    <3>1. m \in 1 .. Len(s) /\ m \in 1 .. Len(left)
      BY <1>2, <1>13
    <3> HIDE DEF S, n
    <3> QED
      BY <1>2, <3>1, ElementOfSeq DEF S
  <2> HIDE DEF S, n
  <2>2. t \in Seq(S) /\ Len(t) = (IF 1 <= n THEN n - 1 + 1 ELSE 0)
        /\ \A m \in 1 .. n - 1 + 1 : t[m] = s[1 + m - 1]
    BY <1>13, <2>1, SubSeqProperties
  <2> HIDE DEF t
  <2>3. Len(t) = n /\ n - 1 + 1 = n /\ \A m \in 1 .. n : 1 + m - 1 = m
    BY <1>13, <2>2
  <2> QED
    BY <2>1, <2>2, <2>3 DEF S
<1>15. Advance(t) # Unknown /\ ~Contains(Advance(t), "(")
  BY <1>9
<1> HIDE DEF n, t
<1>16. PICK stack : Reading(t, n, stack) /\ stack[n] = Advance(t)
  BY <1>14, <1>15, AdvanceReads
<1>17. Reading(left, n, stack)
  BY <1>14, <1>16 DEF Reading
<1>18. ~Contains(stack[n], "(")
  BY <1>15, <1>16
<1>19. \E c \in q + 1 .. n : left[c] = ")" /\ Balanced(left, q + 1, c - 1)
  BY <1>13, <1>17, <1>18, ClosedInBetween
<1>20. PICK c \in q + 1 .. n : left[c] = ")" /\ Balanced(left, q + 1, c - 1)
  BY <1>19
<1>21. c \in q + 1 .. Len(left)
  BY <1>2, <1>13
<1> QED
  BY <1>20, <1>21

\* Whatever the source, its length and its tokens, a literal in an open call is judged a live
\* reference unless it is asserted absent: the judgement of forbidden_domain_scan.py does
\* not let a key of, around or in a call stand as a guard for the call's arguments.
THEOREM CallsStayLive == JudgementSpec => []CallArgumentsStayLive
<1>1. ASSUME Written
      PROVE  CallArgumentsStayLive
  <2>1. SUFFICES ASSUME NEW q \in DOMAIN left, left[q] = "(", At(left, q - 1) \in Names,
                        ~\E c \in q + 1 .. Len(left) :
                           left[c] = ")" /\ Balanced(left, q + 1, c - 1),
                        Structural
                 PROVE  AssertedAbsent(Source, Place)
    BY DEF CallArgumentsStayLive
  <2>2. ~KeyedLiteral(Source, Place, LineStart)
    BY <1>1, <2>1, KeyedOutsideCalls
  <2> QED
    BY <2>1, <2>2 DEF Structural
<1> QED
  BY <1>1, WrittenInvariant, PTL
=============================================================================
