-------------------------- MODULE ReleasePipeline --------------------------
(***************************************************************************)
(* The release path: the publish-pypi workflow's runs, the gate its build  *)
(* job executes (szl_pypi_release_gate.py) and the uploads of its publish  *)
(* job.  GitHub's queue, re-runs and artifacts and the package index are   *)
(* external: they are modelled by what the workflow relies on.             *)
(***************************************************************************)
EXTENDS Naturals, FiniteSets

CONSTANTS
  RunIds,       \* workflow runs that may be triggered (a bound)
  Packages,     \* names of packages
  Declarations, \* what SZL_PACKAGES may declare: sets of names
  NoName,       \* the package part of a tag `v<version>'
  MaxVersion,   \* bound on [project].version
  MaxAttempts   \* bound on the attempts of a run

ASSUME PackagesAssumption ==
  /\ IsFiniteSet(Packages) /\ NoName \notin Packages
  /\ Declarations \subseteq (SUBSET Packages) \ {{}}
ASSUME BoundsAssumption == MaxVersion \in Nat \ {0} /\ MaxAttempts \in Nat \ {0}

VARIABLES
  declared,  \* the packages of SZL_PACKAGES
  source,    \* [project].version of every package at the head of main
  runs,      \* every workflow run: its state, event, tag and commit, the job to enter next,
             \* its attempt and the attempt that built its artifact (0 for none)
  pypi,      \* the files the index holds
  indexed    \* the <<package, version>> pairs its JSON listing shows

vars == <<declared, source, runs, pypi, indexed>>

Versions == 1 .. MaxVersion
Tags == [name : Packages \union {NoName}, version : Versions]
NoTag == [name |-> NoName, version |-> 0]
Kinds == {"wheel", "sdist"}
Builds == RunIds \X (1 .. MaxAttempts)

\* A run occupies its concurrency group while one of its jobs runs.
Running == {"building", "uploadWheel", "uploadSdist"}
Finished == {"ready", "published", "failed", "cancelled"}

\* At most one run of a concurrency group (event, ref) runs.
SameGroup(r, s) == runs[r].event = runs[s].event /\ runs[r].tag = runs[s].tag

Enter(r, state) == runs' = [runs EXCEPT ![r].state = state]

----------------------------------------------------------------------------
(* The gate.                                                               *)

\* The package a release selects: the only one declared, else the tag's.
Selected(tag) ==
  IF Cardinality(declared) = 1 THEN declared ELSE {p \in declared : p = tag.name}

\* Defect: the tag's version is not compared.
TagMatches_AnyVersion(tag, p, version) == tag.name \in {NoName, p}

\* Either form of tag is accepted, whatever the number of packages.
TagMatches(tag, p, version) ==
  tag.version = version /\ tag.name \in {NoName, p}

\* pypi_versions: the listed versions, none when the project is unknown;
\* any other failure is an answer of its own.
Unavailable == {0}
Lookups(p) == {{v \in Versions : <<p, v>> \in indexed}, Unavailable}

\* gate_package for one package of a release.  On other events the tag and
\* the index are not a reason to fail.
ReleaseGate(run, p, existing) ==
  /\ TagMatches(run.tag, p, run.commit[p])
  /\ existing # Unavailable
  /\ run.commit[p] \notin existing

\* main: a release gates the package its tag names, other events gate all.
Passes(run, local, existing) ==
  /\ local      \* pyproject, build, twine, metadata and venv checks
  /\ run.event = "release" =>
       \E p \in Selected(run.tag) : ReleaseGate(run, p, existing[p])

----------------------------------------------------------------------------
(* The workflow.                                                           *)

Init ==
  /\ declared \in Declarations
  /\ source = [p \in Packages |-> 1]
  /\ runs = [r \in RunIds |->
       [state |-> "absent", event |-> "push", tag |-> NoTag, commit |-> source,
        job |-> "building", attempt |-> 0, artifact |-> 0]]
  /\ pypi = {} /\ indexed = {}

BumpVersion(p) ==
  /\ p \in declared
  /\ source[p] < MaxVersion
  /\ source' = [source EXCEPT ![p] = @ + 1]
  /\ UNCHANGED <<declared, runs, pypi, indexed>>

\* Defect: cancel-in-progress: true.
Queue_CancelsRunning(r, run) ==
  runs' = [s \in RunIds |->
    IF s = r THEN run
    ELSE IF runs[s].state \in Running \union {"queued"} /\ runs[s].event = run.event
            /\ runs[s].tag = run.tag
         THEN [runs[s] EXCEPT !.state = "cancelled"]
         ELSE runs[s]]

\* A run queued in its group displaces the one that waits there; one that
\* runs is left alone (cancel-in-progress: false).
Queue(r, run) ==
  runs' = [s \in RunIds |->
    IF s = r THEN run
    ELSE IF runs[s].state = "queued" /\ runs[s].event = run.event
            /\ runs[s].tag = run.tag
         THEN [runs[s] EXCEPT !.state = "cancelled"]
         ELSE runs[s]]

Trigger(r, event, tag) ==
  /\ runs[r].state = "absent"
  /\ Queue(r, [state |-> "queued", event |-> event, tag |-> tag, commit |-> source,
               job |-> "building", attempt |-> 1, artifact |-> 0])
  /\ UNCHANGED <<declared, source, pypi, indexed>>

\* A push to main or a pull request; a published release and its tag.
PushEvent(r) == Trigger(r, "push", NoTag)
ReleasePublished(r) == \E tag \in Tags : Trigger(r, "release", tag)

\* Defect: a run that failed keeps its group.
Start_FailedHolds(r) ==
  /\ runs[r].state = "queued"
  /\ \A s \in RunIds : SameGroup(r, s) => runs[s].state \notin Running \union {"failed"}
  /\ Enter(r, runs[r].job)
  /\ UNCHANGED <<declared, source, pypi, indexed>>

Start(r) ==
  /\ runs[r].state = "queued"
  /\ \A s \in RunIds : SameGroup(r, s) => runs[s].state \notin Running
  /\ Enter(r, runs[r].job)
  /\ UNCHANGED <<declared, source, pypi, indexed>>

\* Whether the publish job follows the build job.
NeedsPublish(run) == run.event = "release"

\* The build job: gate, then upload of dist/ as the run's artifact.
BuildJob(r) ==
  /\ runs[r].state = "building"
  /\ \E local \in BOOLEAN, existing \in [declared -> UNION {Lookups(p) : p \in declared}] :
       /\ \A p \in declared : existing[p] \in Lookups(p)
       /\ IF ~Passes(runs[r], local, existing) THEN Enter(r, "failed")
          ELSE IF NeedsPublish(runs[r])
          THEN runs' = [runs EXCEPT ![r].state = "uploadWheel", ![r].job = "uploadWheel",
                                    ![r].artifact = runs[r].attempt]
          ELSE Enter(r, "ready")
  /\ UNCHANGED <<declared, source, pypi, indexed>>

----------------------------------------------------------------------------
(* The publish job: the artifact's wheel, then its sdist.                  *)

File(r, kind) ==
  LET p == CHOOSE p \in Selected(runs[r].tag) : TRUE
  IN [package |-> p, version |-> runs[r].commit[p], kind |-> kind,
      build |-> <<r, runs[r].artifact>>]

SameName(f, g) == f.package = g.package /\ f.version = g.version /\ f.kind = g.kind
Holds(f) == \E g \in pypi : SameName(f, g)

\* Defect: skip-existing: true.
Accepted_SkipExisting(f) == TRUE

\* What an upload may end as.  A new name is stored; the index refuses a name
\* it holds (skip-existing: false), except that it may accept the same bytes.
Accepted(f) == ~Holds(f) \/ f \in pypi

\* Defect: the index lets a file be replaced.
Store_Replaces(f) == pypi' = {g \in pypi : ~SameName(f, g)} \union {f}

Store(f) == pypi' = IF Holds(f) THEN pypi ELSE pypi \union {f}

\* The upload is answered; or the answer, or the upload itself, is lost.
Upload(r, kind, next) ==
  LET f == File(r, kind)
  IN /\ \/ Accepted(f) /\ Store(f) /\ Enter(r, next)
        \/ Store(f) /\ Enter(r, "failed")
        \/ pypi' = pypi /\ Enter(r, "failed")
     /\ UNCHANGED <<declared, source, indexed>>

UploadWheel(r) == runs[r].state = "uploadWheel" /\ Upload(r, "wheel", "uploadSdist")
UploadSdist(r) == runs[r].state = "uploadSdist" /\ Upload(r, "sdist", "published")

\* "Re-run failed jobs" resumes at the failed job, with the artifact of the
\* attempt that built it; "Re-run all jobs" builds and gates again.
Rerun(r, job) ==
  /\ runs[r].state \in Finished
  /\ runs[r].attempt < MaxAttempts
  /\ Queue(r, [runs[r] EXCEPT !.state = "queued", !.attempt = @ + 1, !.job = job])
  /\ UNCHANGED <<declared, source, pypi, indexed>>
RerunFailedJobs(r) == runs[r].state \in {"failed", "cancelled"} /\ Rerun(r, runs[r].job)
RerunAllJobs(r) == Rerun(r, "building")

\* The JSON listing follows the index at its own pace.
RefreshListing ==
  /\ indexed' = {<<f.package, f.version>> : f \in pypi}
  /\ UNCHANGED <<declared, source, runs, pypi>>

RunStep(r) == Start(r) \/ BuildJob(r) \/ UploadWheel(r) \/ UploadSdist(r)

Next ==
  \/ \E p \in Packages : BumpVersion(p)
  \/ \E r \in RunIds : \/ PushEvent(r) \/ ReleasePublished(r) \/ RunStep(r)
                       \/ RerunFailedJobs(r) \/ RerunAllJobs(r)
  \/ RefreshListing

\* Runners make progress and every job has a timeout; nobody is bound to bump,
\* release or re-run, and the listing may lag for ever.
Spec == Init /\ [][Next]_vars /\ \A r \in RunIds : WF_vars(RunStep(r))

----------------------------------------------------------------------------
(* Properties.                                                             *)

\* The pipeline implements IndexHistory: each version on the index is a wheel and then the
\* sdist of the same build, put there in this order and never touched again.  Whatever runs
\* race, lag behind the listing, break off half-way or are re-run, a wheel is never published
\* beside the sdist of another build.
History == INSTANCE IndexHistory WITH files <- pypi
ImplementsIndexHistory == History!Spec

\* A publish job that ends green published its own two distributions: a
\* duplicate version is an error, never a silent skip.
PublishedIsOwn ==
  \A r \in RunIds : runs[r].state = "published" =>
    \A k \in Kinds : File(r, k) \in pypi

\* Every file on the index was put there by a release whose tag names its
\* package and its version, and main carried that version when it was tagged.
TagNamesFile ==
  \A f \in pypi : LET run == runs[f.build[1]]
    IN /\ run.event = "release"
       /\ run.tag.version = f.version /\ run.commit[f.package] = f.version
       /\ run.tag.name = f.package \/ (run.tag.name = NoName /\ declared = {f.package})

\* A run whose job runs, an upload above all, is left alone (cancel-in-progress: false): no
\* release, push or re-run of its group takes it back to the queue, cancels it or runs beside
\* it; what it becomes is what its own job makes of it.
RunningLeftAlone ==
  [][\A r \in RunIds : runs[r].state \in Running =>
       /\ runs'[r].state \notin {"absent", "queued", "cancelled"}
       /\ \A s \in RunIds \ {r} : SameGroup(r, s)' =>
            {runs'[r].state, runs'[s].state} \ Running # {}]_vars

\* Every queued run ends: it gets its turn in its group, or is displaced.
RunsEnd == \A r \in RunIds : (runs[r].state = "queued") ~> (runs[r].state \in Finished)
============================================================================
