----------------------------- MODULE DomainScan -----------------------------
(***************************************************************************)
(* The forbidden-domain gate (forbidden_domain_scan.py): enumerate the Git  *)
(* index, let ripgrep read the tracked files in batches, re-read the files  *)
(* that match and judge every matched line, while the work tree is edited.  *)
(*                                                                         *)
(* A line is "plain"; "host", a live reference; "guarded", a reference a    *)
(* guard covers if the code before it leaves no bracket open; or "opener",  *)
(* which leaves one open.  GuardJudgement.tla is the judgement in detail.   *)
(* Git and ripgrep are external: they are modelled by what may come back.   *)
(***************************************************************************)
EXTENDS Integers, FiniteSets, SequencesExt

CONSTANTS
  Paths,      \* tracked paths
  Indexes,    \* the Git indexes: sequences of [path, mode, stage]
  Trees,      \* the work trees a scan may start from
  BatchSize,  \* paths in one command line of ripgrep
  MaxEdits    \* bound on the edits during a scan

Lines == {"plain", "host", "guarded", "opener"}
Entry == [type : {"file", "link", "missing"}, lines : Seq(Lines)]

\* A path of the index; a conflicting path stands there in several stages, and "tree" is a
\* mode the scan does not know.
IndexEntry == [path : Paths, mode : {"file", "symlink", "gitlink", "tree"}, stage : 0 .. 3]

ASSUME ScanAssumption ==
  /\ BatchSize \in Nat \ {0} /\ MaxEdits \in Nat
  /\ Indexes \subseteq Seq(IndexEntry)
  /\ Trees \subseteq [Paths -> Entry]

VARIABLES
  index, tree, rgWorks,    \* the repository, and whether ripgrep can run at all
  pc, todo, paths,         \* main: index entries to look at; paths still to scan
  batch, found, rgError,   \* the running ripgrep: files to read, its lines, a read error
  matches, judged,         \* lines to judge; files re-read so far
  violations, exit,
  edits, faulted,          \* history: edits, and whether a tool returned bad output
  standing, ever           \* history: lines in violation all along; at some time

repo == <<index, rgWorks>>
rgVars == <<batch, found, rgError>>
history == <<edits, standing, ever>>
vars == <<index, tree, rgWorks, pc, todo, paths, batch, found, rgError, matches, judged,
          violations, exit, edits, faulted, standing, ever>>

Carries(line) == line \in {"host", "guarded"}

\* Defect: the judgement looks at the line alone.
Covered_LineOnly(lines, i) == lines[i] = "guarded"

\* covered: a guard counts where the nesting of the code before it is known.
Covered(lines, i) == lines[i] = "guarded" /\ \A j \in 1 .. i - 1 : lines[j] # "opener"

\* The rule itself, stated apart from the judgement that applies it.
Offending(lines) ==
  {i \in DOMAIN lines :
     /\ Carries(lines[i])
     /\ ~(lines[i] = "guarded" /\ \A j \in 1 .. i - 1 : lines[j] # "opener")}

InViolation(t, scope) ==
  UNION {{p} \X Offending(t[p].lines) : p \in {q \in scope : t[q].type = "file"}}

\* What the gate answers for: the regular files the index records.
Scope == {e.path : e \in {x \in ToSet(index) : x.mode = "file"}}

Init ==
  /\ index \in Indexes /\ tree \in Trees /\ rgWorks \in BOOLEAN
  /\ pc = "stat" /\ todo = index /\ paths = <<>>
  /\ batch = {} /\ found = {} /\ rgError = FALSE
  /\ matches = {} /\ judged = {} /\ violations = {} /\ exit = -1
  /\ edits = 0 /\ faulted = FALSE
  /\ standing = InViolation(tree, Scope) /\ ever = standing

Exit(code) == exit' = code /\ pc' = "done"

fail == Exit(2)

-----------------------------------------------------------------------------
(* tracked_sources: one entry of git ls-files after the other.              *)

StatEntry ==
  /\ pc = "stat" /\ todo # <<>>
  /\ LET e == Head(todo)
     IN  \/ /\ e.stage = 0 /\ e.mode \in {"symlink", "gitlink"}
            /\ paths' = paths /\ UNCHANGED <<pc, exit>>
         \/ /\ e.stage = 0 /\ e.mode = "file" /\ tree[e.path].type = "file"
            /\ paths' = Append(paths, e.path) /\ UNCHANGED <<pc, exit>>
         \/ /\ \/ e.stage # 0
               \/ e.mode \notin {"symlink", "gitlink", "file"}
               \/ e.mode = "file" /\ tree[e.path].type # "file"
            /\ paths' = paths /\ fail
  /\ todo' = Tail(todo)
  /\ UNCHANGED <<repo, tree, rgVars, matches, judged, violations, history, faulted>>

\* Defect: an empty list of files needs no scanner.
CheckVersion_OnlyIfNeeded ==
  /\ pc = "stat" /\ todo = <<>>
  /\ IF rgWorks \/ paths = <<>> THEN pc' = "batch" /\ exit' = exit ELSE fail
  /\ UNCHANGED <<repo, tree, todo, paths, rgVars, matches, judged, violations, history,
                 faulted>>

\* rg --version, even when there is nothing to scan.
CheckVersion ==
  /\ pc = "stat" /\ todo = <<>>
  /\ IF rgWorks THEN pc' = "batch" /\ exit' = exit ELSE fail
  /\ UNCHANGED <<repo, tree, todo, paths, rgVars, matches, judged, violations, history,
                 faulted>>

-----------------------------------------------------------------------------
(* collect_matches: ripgrep on one batch after the other.                   *)

\* Defect: the path that overflows a batch is dropped with it.
Rest_DropsOverflow(ps) == SubSeq(ps, BatchSize + 2, Len(ps))

\* Defect: a full batch is not taken off the list.
Rest_KeepsAll(ps) == ps

Rest(ps) == SubSeq(ps, BatchSize + 1, Len(ps))

NextBatch ==
  /\ pc = "batch" /\ paths # <<>>
  /\ batch' = {paths[i] : i \in DOMAIN paths \cap (1 .. BatchSize)}
  /\ paths' = Rest(paths)
  /\ found' = {} /\ rgError' = FALSE /\ pc' = "scan"
  /\ UNCHANGED <<repo, tree, todo, matches, judged, violations, exit, history, faulted>>

\* ripgrep reads the files of its batch in any order; it follows a path named to it that
\* has become a link, and goes on after a file it cannot open.
ScanFile(p) ==
  /\ pc = "scan" /\ p \in batch
  /\ batch' = batch \ {p}
  /\ IF tree[p].type = "missing" THEN rgError' = TRUE /\ found' = found
     ELSE /\ found' = found \cup {<<p, i, tree[p].lines[i]>> :
                                    i \in {j \in DOMAIN tree[p].lines : Carries(tree[p].lines[j])}}
          /\ rgError' = rgError
  /\ UNCHANGED <<repo, tree, pc, todo, paths, matches, judged, violations, exit, history,
                 faulted>>

\* What ripgrep hands over: its records with the summary last, and its status.
Whole == [lines |-> found, summary |-> Cardinality(found),
          status |-> IF rgError THEN 2 ELSE IF found = {} THEN 1 ELSE 0]
\* Output cut short, a record lost on the way, or a failing or killed process.
Damaged ==
  {[Whole EXCEPT !.lines = L, !.summary = -1] : L \in SUBSET found}
  \cup {[Whole EXCEPT !.lines = L] : L \in (SUBSET found) \ {found}}
  \cup {[Whole EXCEPT !.status = 2]}

\* rg and batch_matches: the status is one of two, and the records add up.
BatchAccepted(out) ==
  /\ out.status \in {0, 1}
  /\ out.summary = Cardinality(out.lines)
  /\ (out.status = 0) <=> (out.lines # {})

FinishBatch ==
  /\ pc = "scan" /\ batch = {}
  /\ \E out \in {Whole} \cup Damaged :
       /\ faulted' = (faulted \/ out # Whole)
       /\ IF BatchAccepted(out)
          THEN matches' = matches \cup out.lines /\ pc' = "batch" /\ exit' = exit
          ELSE matches' = matches /\ fail
  /\ UNCHANGED <<repo, tree, todo, paths, rgVars, judged, violations, history>>

\* A command that cannot start, times out or breaks its framing.
ToolFails ==
  /\ pc \in {"stat", "batch", "scan"}
  /\ faulted' = TRUE /\ fail
  /\ UNCHANGED <<repo, tree, todo, paths, rgVars, matches, judged, violations, history>>

-----------------------------------------------------------------------------
(* filter_violations: load_source once for each matched file, then judge.   *)

ToJudge == {m[1] : m \in matches} \ judged

\* Defect: the matched line is not compared with the line re-read.
Unchanged_NumberOnly(p) == \A m \in matches : m[1] = p => m[2] \in DOMAIN tree[p].lines

\* The matched lines are still there and still the same.
Unchanged(p) ==
  \A m \in matches : m[1] = p =>
    m[2] \in DOMAIN tree[p].lines /\ tree[p].lines[m[2]] = m[3]

JudgeFile(p) ==
  /\ pc = "batch" /\ paths = <<>> /\ p \in ToJudge
  /\ judged' = judged \cup {p}
  /\ IF tree[p].type = "file" /\ Unchanged(p)
     THEN /\ violations' = violations \cup
               {<<p, m[2]>> : m \in {x \in matches : x[1] = p /\ ~Covered(tree[p].lines, x[2])}}
          /\ UNCHANGED <<pc, exit>>
     ELSE violations' = violations /\ fail
  /\ UNCHANGED <<repo, tree, todo, paths, rgVars, matches, history, faulted>>

Finish ==
  /\ pc = "batch" /\ paths = <<>> /\ ToJudge = {}
  /\ Exit(IF violations = {} THEN 0 ELSE 1)
  /\ UNCHANGED <<repo, tree, todo, paths, rgVars, matches, judged, violations, history,
                 faulted>>

-----------------------------------------------------------------------------
\* Somebody writes in the work tree: a line, a shorter file, another kind of file.
EditTree ==
  /\ pc # "done" /\ edits < MaxEdits
  /\ edits' = edits + 1
  /\ \E p \in Paths :
       \/ \E i \in DOMAIN tree[p].lines, l \in Lines : tree' = [tree EXCEPT ![p].lines[i] = l]
       \/ tree[p].lines # <<>> /\ tree' = [tree EXCEPT ![p].lines = Front(@)]
       \/ \E type \in {"file", "link", "missing"} : tree' = [tree EXCEPT ![p].type = type]
  /\ standing' = standing \cap InViolation(tree', Scope)
  /\ ever' = ever \cup InViolation(tree', Scope)
  /\ UNCHANGED <<repo, pc, todo, paths, rgVars, matches, judged, violations, exit, faulted>>

Scan ==
  \/ StatEntry \/ CheckVersion \/ NextBatch
  \/ \E p \in Paths : ScanFile(p) \/ JudgeFile(p)
  \/ FinishBatch \/ ToolFails \/ Finish

Terminating == pc = "done" /\ UNCHANGED vars

Next == Scan \/ EditTree \/ Terminating

\* The scan is a running program and every command it waits for has a timeout.
Spec == Init /\ [][Next]_vars /\ WF_vars(Scan)

-----------------------------------------------------------------------------
\* The gate is never green over a violation that stood in a tracked file, untouched, from
\* the first step to the exit, whatever else is edited, retyped, lost or batched meanwhile.
StandingViolationBlocks == exit = 0 => standing = {}

\* It never blocks a release without cause: each violation it reports was one in the work
\* tree at some time during the scan.
ReportedOnceReal == exit = 1 => violations # {} /\ violations \subseteq ever

\* In a quiet work tree with sound tools the answer is exact.
QuietScanIsExact ==
  pc = "done" /\ edits = 0 /\ ~faulted /\ exit # 2 =>
    violations = standing /\ exit = IF standing = {} THEN 0 ELSE 1

\* A tool that is missing, fails, or whose output does not add up never yields a verdict.
FaultFailsClosed == exit \in {0, 1} => ~faulted /\ rgWorks

\* Every scan ends with an exit code.
ScanEnds == <>(pc = "done")
=============================================================================
