--------------------------- MODULE ReleaseProofs ---------------------------
(***************************************************************************)
(* Proofs about ReleasePipeline, for any number of runs, packages,          *)
(* versions and attempts: what is published is the run's own and named by   *)
(* its tag, and the pipeline implements IndexHistory.                       *)
(***************************************************************************)
EXTENDS ReleasePipeline, FiniteSetTheorems, TLAPS

----------------------------------------------------------------------------
(* The inductive invariant.                                                *)

States == {"absent", "queued", "ready", "published", "failed", "cancelled",
           "building", "uploadWheel", "uploadSdist"}

RunRecords ==
  [state : States, event : {"push", "release"}, tag : Tags \union {NoTag},
   commit : [Packages -> Versions], job : {"building", "uploadWheel"},
   attempt : 0 .. MaxAttempts, artifact : 0 .. MaxAttempts]

Files == [package : Packages, version : Versions, kind : Kinds, build : Builds]

TypeInv ==
  /\ declared \in SUBSET Packages /\ declared # {}
  /\ source \in [Packages -> Versions]
  /\ runs \in [RunIds -> RunRecords]
  /\ pypi \subseteq Files

\* The tag of a release run selects p, names it and carries its version.
Names(run, p) ==
  /\ p \in declared /\ Selected(run.tag) = {p}
  /\ run.tag.version = run.commit[p]
  /\ run.tag.name = p \/ (run.tag.name = NoName /\ declared = {p})

\* A run that has come past its build job is a release, gated, with an artifact.
Gated(run) ==
  /\ run.state # "absent" /\ run.event = "release"
  /\ run.artifact \in 1 .. MaxAttempts
  /\ \E p \in Packages : Names(run, p)

RunsInv ==
  \A r \in RunIds :
    /\ runs[r].state # "absent" => runs[r].attempt # 0
    /\ runs[r].job = "uploadWheel" => Gated(runs[r])
    /\ runs[r].state \in {"uploadWheel", "uploadSdist", "published"}
         => runs[r].job = "uploadWheel"

\* A name is on the index once, and an sdist beside the wheel of its own build.
IndexInv ==
  /\ \A f, g \in pypi : SameName(f, g) => f = g
  /\ \A f \in pypi : f.kind = "sdist" => [f EXCEPT !.kind = "wheel"] \in pypi

\* A run about to upload its sdist has published its wheel; files come from triggered runs.
LinkInv ==
  /\ \A r \in RunIds : runs[r].state = "uploadSdist" => File(r, "wheel") \in pypi
  /\ \A f \in pypi : runs[f.build[1]].state # "absent"

IInv == TypeInv /\ RunsInv /\ IndexInv /\ LinkInv /\ PublishedIsOwn /\ TagNamesFile

----------------------------------------------------------------------------
(* What the gate establishes, and what a run's files are.                  *)

\* Whether one package or several are declared, a tag that matches a package it selects
\* selects no other.
LEMMA SelectedIsNamed ==
  ASSUME TypeInv, NEW run \in RunRecords, NEW p \in Selected(run.tag),
         TagMatches(run.tag, p, run.commit[p])
  PROVE  Names(run, p)
<1>1. p \in declared /\ p \in Packages /\ p # NoName
  BY PackagesAssumption DEF Selected, TypeInv
<1>2. run.tag.version = run.commit[p] /\ run.tag.name \in {NoName, p}
  BY DEF TagMatches
<1>3. CASE Cardinality(declared) = 1
  <2>1. IsFiniteSet(declared)
    BY FS_Subset, PackagesAssumption DEF TypeInv
  <2>2. PICK x : declared = {x}
    BY <1>3, <2>1, FS_Singleton
  <2>3. declared = {p} /\ Selected(run.tag) = {p}
    BY <1>1, <1>3, <2>2 DEF Selected
  <2> QED
    BY <1>1, <1>2, <2>3 DEF Names
<1>4. CASE Cardinality(declared) # 1
  <2>1. run.tag.name = p /\ Selected(run.tag) = {p}
    BY <1>1, <1>4 DEF Selected
  <2> QED
    BY <1>1, <1>2, <2>1 DEF Names
<1> QED
  BY <1>3, <1>4

\* A run that passes the gate to publish is a release whose tag names its package.
LEMMA PassesIsNamed ==
  ASSUME TypeInv, NEW run \in RunRecords, NEW local, NEW existing,
         Passes(run, local, existing), NeedsPublish(run)
  PROVE  run.event = "release" /\ \E p \in Packages : Names(run, p)
<1>1. run.event = "release"
  BY DEF NeedsPublish
<1>2. PICK p \in Selected(run.tag) : ReleaseGate(run, p, existing[p])
  BY <1>1 DEF Passes
<1>3. Names(run, p)
  BY <1>2, SelectedIsNamed DEF ReleaseGate
<1> QED
  BY <1>1, <1>3 DEF Names, TypeInv

LEMMA FileOfGated ==
  ASSUME TypeInv, NEW r \in RunIds, NEW kind \in Kinds, Gated(runs[r])
  PROVE  /\ File(r, kind) \in Files
         /\ File(r, kind).kind = kind
         /\ File(r, kind).build = <<r, runs[r].artifact>>
         /\ Names(runs[r], File(r, kind).package)
         /\ File(r, kind).version = runs[r].commit[File(r, kind).package]
         /\ \A k \in Kinds : File(r, k) = [File(r, kind) EXCEPT !.kind = k]
<1>1. PICK p \in Packages : Names(runs[r], p)
  BY DEF Gated
<1>2. (CHOOSE q \in Selected(runs[r].tag) : TRUE) = p
  BY <1>1 DEF Names
<1>3. \A k \in Kinds : File(r, k) = [package |-> p, version |-> runs[r].commit[p],
                                     kind |-> k, build |-> <<r, runs[r].artifact>>]
  BY <1>2 DEF File
<1>4. runs[r].commit[p] \in Versions /\ <<r, runs[r].artifact>> \in Builds
  BY DEF TypeInv, RunRecords, Builds, Gated
<1> QED
  BY <1>1, <1>3, <1>4 DEF Files

----------------------------------------------------------------------------
(* The runs.                                                               *)

LEMMA InitIInv == Init => IInv
<1> SUFFICES ASSUME Init PROVE IInv
  OBVIOUS
<1>1. 1 \in Versions /\ 0 \in 0 .. MaxAttempts
  BY BoundsAssumption DEF Versions
<1>2. TypeInv
  BY <1>1, PackagesAssumption DEF Init, TypeInv, RunRecords, States
<1>3. RunsInv
  BY DEF Init, RunsInv
<1>4. IndexInv /\ LinkInv /\ PublishedIsOwn /\ TagNamesFile
  BY DEF Init, IndexInv, LinkInv, PublishedIsOwn, TagNamesFile
<1> QED
  BY <1>2, <1>3, <1>4 DEF IInv

\* An action that gives run r a new record and displaces queued runs at most.
LEMMA QueueKeepsRuns ==
  ASSUME TypeInv, RunsInv, NEW r \in RunIds, NEW run \in RunRecords, Queue(r, run),
         run.state = "queued", run.attempt # 0, run.job = "uploadWheel" => Gated(run),
         declared' = declared
  PROVE  /\ runs' \in [RunIds -> RunRecords]
         /\ RunsInv'
<1>1. \A s \in RunIds : s # r =>
        runs'[s] = runs[s] \/ (runs'[s] = [runs[s] EXCEPT !.state = "cancelled"]
                                 /\ runs[s].state = "queued")
  BY DEF Queue
<1>2. runs'[r] = run /\ runs' = [s \in RunIds |-> runs'[s]]
  BY DEF Queue
<1>3. \A s \in RunIds : runs'[s] \in RunRecords
  <2> SUFFICES ASSUME NEW s \in RunIds, s # r PROVE runs'[s] \in RunRecords
    BY <1>2
  <2>1. runs[s] \in RunRecords
    BY DEF TypeInv
  <2>2. [runs[s] EXCEPT !.state = "cancelled"] \in RunRecords
    BY <2>1 DEF RunRecords, States
  <2> QED
    BY <1>1, <2>1, <2>2
<1>4. ASSUME NEW s \in RunIds
      PROVE  /\ runs'[s].state # "absent" => runs'[s].attempt # 0
             /\ runs'[s].job = "uploadWheel" => Gated(runs[s])'
             /\ runs'[s].state \in {"uploadWheel", "uploadSdist", "published"}
                  => runs'[s].job = "uploadWheel"
  <2>1. CASE s = r
    BY <1>2, <2>1 DEF Gated, Names, Selected
  <2>2. CASE s # r /\ runs'[s] = runs[s]
    BY <2>2 DEF RunsInv, Gated, Names, Selected
  <2>3. CASE s # r /\ runs'[s] # runs[s]
    <3>1. runs[s] \in RunRecords
      BY DEF TypeInv
    <3>2. /\ runs'[s].state = "cancelled" /\ runs'[s].attempt = runs[s].attempt
          /\ runs'[s].job = runs[s].job /\ runs'[s].event = runs[s].event
          /\ runs'[s].artifact = runs[s].artifact /\ runs'[s].tag = runs[s].tag
          /\ runs'[s].commit = runs[s].commit /\ runs[s].state = "queued"
      BY <1>1, <2>3, <3>1 DEF RunRecords
    <3> QED
      BY <3>2 DEF RunsInv, Gated, Names, Selected
  <2> QED
    BY <2>1, <2>2, <2>3
<1> QED
  BY <1>2, <1>3, <1>4 DEF RunsInv

\* What a step leaves of a run: once triggered it keeps its event, tag and commit, and only
\* the upload of an sdist's wheel or of an sdist brings it past these, with its artifact kept.
KeepsRuns ==
  \A s \in RunIds : runs[s].state # "absent" =>
    /\ runs'[s].event = runs[s].event /\ runs'[s].tag = runs[s].tag
    /\ runs'[s].commit = runs[s].commit /\ runs'[s].state # "absent"

KeepsUploaders ==
  \A s \in RunIds : runs'[s].state \in {"uploadSdist", "published"} =>
    runs'[s].state = runs[s].state /\ runs'[s].artifact = runs[s].artifact

Quiet == declared' = declared /\ pypi' = pypi /\ KeepsRuns /\ KeepsUploaders

Uploads(r) == UploadWheel(r) \/ UploadSdist(r)

\* Moving run r, which has begun, to another state.
LEMMA EnterKeepsRuns ==
  ASSUME TypeInv, RunsInv, NEW r \in RunIds, NEW state \in States, Enter(r, state),
         runs[r].state # "absent", state # "absent", declared' = declared,
         state \in {"uploadWheel", "uploadSdist", "published"} => runs[r].job = "uploadWheel"
  PROVE  /\ runs' \in [RunIds -> RunRecords]
         /\ RunsInv'
         /\ KeepsRuns
         /\ \A s \in RunIds : runs'[s].artifact = runs[s].artifact
         /\ \A s \in RunIds : s # r => runs'[s] = runs[s]
         /\ runs'[r].state = state
<1>1. runs[r] \in RunRecords
  BY DEF TypeInv
<1>2. /\ runs'[r].state = state /\ runs'[r].event = runs[r].event
      /\ runs'[r].tag = runs[r].tag /\ runs'[r].commit = runs[r].commit
      /\ runs'[r].job = runs[r].job /\ runs'[r].attempt = runs[r].attempt
      /\ runs'[r].artifact = runs[r].artifact
  BY <1>1 DEF Enter, TypeInv, RunRecords
<1>3. \A s \in RunIds : s # r => runs'[s] = runs[s]
  BY DEF Enter, TypeInv
<1>4. runs' \in [RunIds -> RunRecords]
  <2>1. [runs[r] EXCEPT !.state = state] \in RunRecords
    BY <1>1 DEF RunRecords
  <2> QED
    BY <2>1 DEF Enter, TypeInv
<1>5. RunsInv'
  <2> SUFFICES ASSUME NEW s \in RunIds
               PROVE  /\ runs'[s].state # "absent" => runs'[s].attempt # 0
                      /\ runs'[s].job = "uploadWheel" => Gated(runs[s])'
                      /\ runs'[s].state \in {"uploadWheel", "uploadSdist", "published"}
                           => runs'[s].job = "uploadWheel"
    BY DEF RunsInv
  <2>1. CASE s = r
    BY <1>2, <2>1 DEF RunsInv, Gated, Names, Selected
  <2>2. CASE s # r
    BY <1>3, <2>2 DEF RunsInv, Gated, Names, Selected
  <2> QED
    BY <2>1, <2>2
<1> QED
  BY <1>2, <1>3, <1>4, <1>5 DEF KeepsRuns

LEMMA QueueIsQuiet ==
  ASSUME TypeInv, NEW r \in RunIds, NEW run \in RunRecords, Queue(r, run),
         run.state = "queued", UNCHANGED <<declared, source, pypi, indexed>>,
         runs[r].state # "absent" =>
           run.event = runs[r].event /\ run.tag = runs[r].tag /\ run.commit = runs[r].commit
  PROVE  Quiet
<1> SUFFICES ASSUME NEW s \in RunIds
             PROVE  /\ runs[s].state # "absent" =>
                         /\ runs'[s].event = runs[s].event /\ runs'[s].tag = runs[s].tag
                         /\ runs'[s].commit = runs[s].commit /\ runs'[s].state # "absent"
                    /\ runs'[s].state \in {"uploadSdist", "published"} =>
                         runs'[s].state = runs[s].state /\ runs'[s].artifact = runs[s].artifact
  BY DEF Quiet, KeepsRuns, KeepsUploaders
<1>1. runs[s] \in RunRecords
  BY DEF TypeInv
<1>2. CASE s = r
  BY <1>2 DEF Queue
<1>3. CASE s # r
  <2>1. runs'[s] = runs[s] \/ runs'[s] = [runs[s] EXCEPT !.state = "cancelled"]
    BY <1>3 DEF Queue
  <2> QED
    BY <1>1, <2>1 DEF RunRecords
<1> QED
  BY <1>2, <1>3

\* Every action but an upload keeps the index, and the invariant of the runs.
LEMMA QuietSteps ==
  ASSUME TypeInv, RunsInv, [Next]_vars, \A r \in RunIds : ~Uploads(r)
  PROVE  Quiet /\ TypeInv' /\ RunsInv'
<1>1. CASE UNCHANGED vars \/ RefreshListing
  <2>1. UNCHANGED <<declared, source, runs, pypi>>
    BY <1>1 DEF vars, RefreshListing
  <2>2. TypeInv'
    BY <2>1 DEF TypeInv
  <2>3. RunsInv'
    BY <2>1 DEF RunsInv, Gated, Names, Selected
  <2> QED
    BY <2>1, <2>2, <2>3 DEF Quiet, KeepsRuns, KeepsUploaders
<1>2. ASSUME NEW p \in Packages, BumpVersion(p)
      PROVE  Quiet /\ TypeInv' /\ RunsInv'
  <2>1. UNCHANGED <<declared, runs, pypi>>
    BY <1>2 DEF BumpVersion
  <2>2. source' \in [Packages -> Versions]
    BY <1>2, BoundsAssumption DEF BumpVersion, TypeInv, Versions
  <2>3. TypeInv'
    BY <2>1, <2>2 DEF TypeInv
  <2>4. RunsInv'
    BY <2>1 DEF RunsInv, Gated, Names, Selected
  <2> QED
    BY <2>1, <2>3, <2>4 DEF Quiet, KeepsRuns, KeepsUploaders
<1>3. ASSUME NEW r \in RunIds, PushEvent(r) \/ ReleasePublished(r)
      PROVE  Quiet /\ TypeInv' /\ RunsInv'
  <2>1. PICK event \in {"push", "release"}, tag \in Tags \union {NoTag} : Trigger(r, event, tag)
    BY <1>3 DEF PushEvent, ReleasePublished
  <2> DEFINE run == [state |-> "queued", event |-> event, tag |-> tag, commit |-> source,
                     job |-> "building", attempt |-> 1, artifact |-> 0]
  <2>2. run \in RunRecords
    BY BoundsAssumption DEF RunRecords, States, TypeInv
  <2>3. Queue(r, run) /\ UNCHANGED <<declared, source, pypi, indexed>>
        /\ runs[r].state = "absent"
    BY <2>1 DEF Trigger
  <2>4. run.state = "queued" /\ run.attempt # 0 /\ run.job # "uploadWheel"
    OBVIOUS
  <2> HIDE DEF run
  <2>5. runs' \in [RunIds -> RunRecords] /\ RunsInv'
    BY <2>2, <2>3, <2>4, QueueKeepsRuns
  <2>6. Quiet
    BY <2>2, <2>3, <2>4, QueueIsQuiet
  <2> QED
    BY <2>3, <2>5, <2>6 DEF TypeInv
<1>4. ASSUME NEW r \in RunIds, RerunFailedJobs(r) \/ RerunAllJobs(r)
      PROVE  Quiet /\ TypeInv' /\ RunsInv'
  <2>1. PICK job \in {"building", runs[r].job} : Rerun(r, job)
    BY <1>4 DEF RerunFailedJobs, RerunAllJobs
  <2> DEFINE run == [runs[r] EXCEPT !.state = "queued", !.attempt = @ + 1, !.job = job]
  <2>2. runs[r] \in RunRecords
    BY DEF TypeInv
  <2>3. /\ Queue(r, run) /\ UNCHANGED <<declared, source, pypi, indexed>>
        /\ runs[r].state \in Finished /\ runs[r].attempt < MaxAttempts
    BY <2>1 DEF Rerun
  <2>4. run \in RunRecords
    <3>1. runs[r].attempt + 1 \in 0 .. MaxAttempts
      BY <2>2, <2>3, BoundsAssumption DEF RunRecords
    <3>2. job \in {"building", "uploadWheel"} /\ "queued" \in States
      BY <2>2 DEF RunRecords, States
    <3>3. [runs[r] EXCEPT !.state = "queued"] \in RunRecords
      BY <2>2, <3>2 DEF RunRecords
    <3>4. [runs[r] EXCEPT !.state = "queued", !.attempt = @ + 1] \in RunRecords
      BY <2>2, <3>1, <3>2, <3>3 DEF RunRecords
    <3> QED
      BY <2>2, <3>1, <3>2, <3>4 DEF RunRecords
  <2>5. /\ run.state = "queued" /\ run.attempt # 0 /\ run.job = job
        /\ run.event = runs[r].event /\ run.tag = runs[r].tag
        /\ run.commit = runs[r].commit /\ run.artifact = runs[r].artifact
    BY <2>2, BoundsAssumption DEF RunRecords
  <2> HIDE DEF run
  <2>6. run.job = "uploadWheel" => Gated(run)
    BY <2>5 DEF RunsInv, Gated, Names
  <2>7. runs' \in [RunIds -> RunRecords] /\ RunsInv'
    BY <2>3, <2>4, <2>5, <2>6, QueueKeepsRuns
  <2>8. Quiet
    BY <2>3, <2>4, <2>5, QueueIsQuiet
  <2> QED
    BY <2>3, <2>7, <2>8 DEF TypeInv
<1>5. ASSUME NEW r \in RunIds, Start(r)
      PROVE  Quiet /\ TypeInv' /\ RunsInv'
  <2>1. runs[r].job \in {"building", "uploadWheel"}
    BY DEF TypeInv, RunRecords
  <2>2. /\ Enter(r, runs[r].job) /\ runs[r].state = "queued"
        /\ UNCHANGED <<declared, source, pypi, indexed>>
    BY <1>5 DEF Start
  <2>3. /\ runs' \in [RunIds -> RunRecords] /\ RunsInv' /\ KeepsRuns
        /\ \A s \in RunIds : runs'[s].artifact = runs[s].artifact
        /\ \A s \in RunIds : s # r => runs'[s] = runs[s]
        /\ runs'[r].state = runs[r].job
    BY <2>1, <2>2, EnterKeepsRuns DEF States
  <2>4. KeepsUploaders
    BY <2>1, <2>3 DEF KeepsUploaders
  <2> QED
    BY <2>2, <2>3, <2>4 DEF Quiet, TypeInv
<1>6. ASSUME NEW r \in RunIds, BuildJob(r)
      PROVE  Quiet /\ TypeInv' /\ RunsInv'
  <2>1. runs[r].state = "building" /\ UNCHANGED <<declared, source, pypi, indexed>>
    BY <1>6 DEF BuildJob
  <2>2. ASSUME NEW state \in {"failed", "ready"}, Enter(r, state)
        PROVE  Quiet /\ TypeInv' /\ RunsInv'
    <3>1. /\ runs' \in [RunIds -> RunRecords] /\ RunsInv' /\ KeepsRuns
          /\ \A s \in RunIds : s # r => runs'[s] = runs[s]
          /\ runs'[r].state = state
      BY <2>1, <2>2, EnterKeepsRuns DEF States
    <3>2. KeepsUploaders
      BY <3>1 DEF KeepsUploaders
    <3> QED
      BY <2>1, <3>1, <3>2 DEF Quiet, TypeInv
  <2>3. ASSUME NEW local, NEW existing, Passes(runs[r], local, existing), NeedsPublish(runs[r]),
               runs' = [runs EXCEPT ![r].state = "uploadWheel", ![r].job = "uploadWheel",
                                    ![r].artifact = runs[r].attempt]
        PROVE  Quiet /\ TypeInv' /\ RunsInv'
    <3>1. runs[r] \in RunRecords /\ runs[r].attempt # 0
      BY <2>1 DEF TypeInv, RunsInv
    <3>2. runs'[r] = [runs[r] EXCEPT !.state = "uploadWheel", !.job = "uploadWheel",
                                     !.artifact = runs[r].attempt]
      BY <2>3 DEF TypeInv
    <3>3. /\ runs'[r].state = "uploadWheel" /\ runs'[r].event = runs[r].event
          /\ runs'[r].tag = runs[r].tag /\ runs'[r].commit = runs[r].commit
          /\ runs'[r].job = "uploadWheel" /\ runs'[r].attempt = runs[r].attempt
          /\ runs'[r].artifact = runs[r].attempt /\ runs'[r] \in RunRecords
      BY <3>1, <3>2 DEF RunRecords, States
    <3>4. \A s \in RunIds : s # r => runs'[s] = runs[s]
      BY <2>3 DEF TypeInv
    <3>5. runs' \in [RunIds -> RunRecords]
      <4>1. runs' = [s \in RunIds |-> runs'[s]]
        BY <2>3 DEF TypeInv
      <4> QED
        BY <3>3, <3>4, <4>1 DEF TypeInv
    <3>6. runs[r].event = "release" /\ \E p \in Packages : Names(runs[r], p)
      BY <2>3, <3>1, PassesIsNamed
    <3>7. Gated(runs[r])'
      <4>1. runs[r].attempt \in 1 .. MaxAttempts
        BY <3>1, BoundsAssumption DEF RunRecords
      <4> QED
        BY <2>1, <3>3, <3>6, <4>1 DEF Gated, Names, Selected
    <3>8. RunsInv'
      BY <2>1, <3>1, <3>3, <3>4, <3>7 DEF RunsInv, Gated, Names, Selected
    <3>9. KeepsRuns /\ KeepsUploaders
      BY <3>3, <3>4 DEF KeepsRuns, KeepsUploaders
    <3> QED
      BY <2>1, <3>5, <3>8, <3>9 DEF Quiet, TypeInv
  <2> QED
    BY <1>6, <2>2, <2>3 DEF BuildJob
<1> QED
  BY <1>1, <1>2, <1>3, <1>4, <1>5, <1>6 DEF Next, RunStep, Uploads

----------------------------------------------------------------------------
(* The index.                                                              *)

\* A file of a run that has come past its build job stays what it is.
LEMMA FileStays ==
  ASSUME NEW s \in RunIds, NEW kind \in Kinds, declared' = declared, KeepsRuns,
         runs[s].state # "absent", runs'[s].artifact = runs[s].artifact
  PROVE  File(s, kind)' = File(s, kind)
  BY DEF File, Selected, KeepsRuns

\* What every step keeps true of the tags of the files already on the index.
LEMMA TagsStay ==
  ASSUME TypeInv, LinkInv, TagNamesFile, declared' = declared, KeepsRuns,
         NEW f \in pypi
  PROVE  LET run == runs'[f.build[1]]
         IN  /\ run.event = "release" /\ run.state # "absent"
             /\ run.tag.version = f.version /\ run.commit[f.package] = f.version
             /\ run.tag.name = f.package \/ (run.tag.name = NoName /\ declared' = {f.package})
<1>1. f.build[1] \in RunIds
  BY DEF TypeInv, Files, Builds
<1>2. runs[f.build[1]].state # "absent"
  BY DEF LinkInv
<1> QED
  BY <1>1, <1>2 DEF TagNamesFile, KeepsRuns

LEMMA QuietKeepsIInv ==
  ASSUME IInv, Quiet, TypeInv', RunsInv'
  PROVE  IInv'
<1>1. declared' = declared /\ pypi' = pypi /\ KeepsRuns /\ KeepsUploaders
  BY DEF Quiet
<1>2. IndexInv'
  BY <1>1 DEF IInv, IndexInv, SameName
<1>3. ASSUME NEW s \in RunIds, NEW kind \in Kinds,
             runs'[s].state \in {"uploadSdist", "published"}
      PROVE  File(s, kind)' = File(s, kind) /\ runs[s].state = runs'[s].state
  BY <1>1, <1>3, FileStays DEF KeepsUploaders
<1>4. LinkInv' /\ TagNamesFile'
  BY <1>1, <1>3, TagsStay DEF IInv, LinkInv, TagNamesFile, Kinds
<1>5. PublishedIsOwn'
  BY <1>1, <1>3 DEF IInv, PublishedIsOwn
<1> QED
  BY <1>2, <1>4, <1>5 DEF IInv

\* An upload keeps the runs' records, adds its file if the index has none of its name, and
\* ends green only with its own file on the index.
LEMMA UploadSteps ==
  ASSUME TypeInv, RunsInv, NEW r \in RunIds, NEW kind \in Kinds,
         NEW next \in {"uploadSdist", "published"}, Upload(r, kind, next),
         runs[r].state \in {"uploadWheel", "uploadSdist"}
  PROVE  /\ declared' = declared /\ KeepsRuns /\ RunsInv' /\ TypeInv'
         /\ Gated(runs[r])
         /\ pypi' = pypi \/ (~Holds(File(r, kind)) /\ pypi' = pypi \union {File(r, kind)})
         /\ \A s \in RunIds : runs'[s].artifact = runs[s].artifact
         /\ \A s \in RunIds : s # r => runs'[s] = runs[s]
         /\ runs'[r].state = "failed" \/ (runs'[r].state = next /\ File(r, kind) \in pypi')
<1>1. Gated(runs[r])
  BY DEF RunsInv
<1>2. File(r, kind) \in Files
  BY <1>1, FileOfGated
<1>3. pypi' = pypi \/ (~Holds(File(r, kind)) /\ pypi' = pypi \union {File(r, kind)})
  BY DEF Upload, Store
<1>4. PICK state \in {"failed", next} :
        Enter(r, state) /\ (state = next => File(r, kind) \in pypi')
  BY DEF Upload, Store, Accepted
<1>5. UNCHANGED <<declared, source, indexed>>
  BY DEF Upload
<1>6. /\ runs' \in [RunIds -> RunRecords] /\ RunsInv' /\ KeepsRuns
      /\ \A s \in RunIds : runs'[s].artifact = runs[s].artifact
      /\ \A s \in RunIds : s # r => runs'[s] = runs[s]
      /\ runs'[r].state = state
  BY <1>4, <1>5, EnterKeepsRuns DEF States, RunsInv
<1>7. TypeInv'
  BY <1>2, <1>3, <1>5, <1>6 DEF TypeInv
<1> QED
  BY <1>1, <1>3, <1>4, <1>5, <1>6, <1>7

\* The two uploads, with the file that the step may add and where it leads.
LEMMA UploadsAre ==
  ASSUME NEW r \in RunIds, Uploads(r)
  PROVE  \/ runs[r].state = "uploadWheel" /\ Upload(r, "wheel", "uploadSdist")
         \/ runs[r].state = "uploadSdist" /\ Upload(r, "sdist", "published")
  BY DEF Uploads, UploadWheel, UploadSdist

LEMMA UploadKeepsIInv ==
  ASSUME IInv, NEW r \in RunIds, Uploads(r)
  PROVE  IInv'
<1> USE DEF IInv
<1>1. PICK kind \in Kinds, next \in {"uploadSdist", "published"} :
        /\ Upload(r, kind, next)
        /\ \/ kind = "wheel" /\ next = "uploadSdist" /\ runs[r].state = "uploadWheel"
           \/ kind = "sdist" /\ next = "published" /\ runs[r].state = "uploadSdist"
  BY UploadsAre DEF Kinds
<1> DEFINE f == File(r, kind)
<1>2. /\ declared' = declared /\ KeepsRuns /\ RunsInv' /\ TypeInv'
      /\ Gated(runs[r])
      /\ pypi' = pypi \/ (~Holds(f) /\ pypi' = pypi \union {f})
      /\ \A s \in RunIds : runs'[s].artifact = runs[s].artifact
      /\ \A s \in RunIds : s # r => runs'[s] = runs[s]
      /\ runs'[r].state = "failed" \/ (runs'[r].state = next /\ f \in pypi')
  BY <1>1, UploadSteps
<1>3. /\ f \in Files /\ f.kind = kind /\ f.build = <<r, runs[r].artifact>>
      /\ Names(runs[r], f.package) /\ f.version = runs[r].commit[f.package]
      /\ \A k \in Kinds : File(r, k) = [f EXCEPT !.kind = k]
  BY <1>2, FileOfGated
<1>4. kind = "sdist" => File(r, "wheel") \in pypi
  BY <1>1 DEF LinkInv
<1>5. \A s \in RunIds, k \in Kinds : runs[s].state # "absent" => File(s, k)' = File(s, k)
  BY <1>2, FileStays
<1>6. pypi \subseteq pypi'
  BY <1>2
<1> HIDE DEF f
<1>7. IndexInv'
  <2>1. ASSUME NEW g \in pypi', NEW h \in pypi', SameName(g, h) PROVE g = h
    BY <1>2, <2>1 DEF IndexInv, Holds, SameName
  <2>2. ASSUME NEW g \in pypi', g.kind = "sdist"
        PROVE  [g EXCEPT !.kind = "wheel"] \in pypi'
    <3>1. CASE g \in pypi
      BY <1>6, <2>2, <3>1 DEF IndexInv
    <3>2. CASE g = f
      BY <1>3, <1>4, <1>6, <2>2, <3>2 DEF Kinds
    <3> QED
      BY <1>2, <3>1, <3>2
  <2> QED
    BY <2>1, <2>2 DEF IndexInv, SameName
<1>8. runs[r].state # "absent" /\ \A s \in RunIds :
        runs'[s].state \in {"uploadSdist", "published"} => runs[s].state # "absent"
  BY <1>1, <1>2
<1>9. LinkInv'
  <2>1. ASSUME NEW s \in RunIds, runs'[s].state = "uploadSdist"
        PROVE  File(s, "wheel")' \in pypi'
    <3>1. CASE s = r
      BY <1>1, <1>2, <1>5, <1>8, <2>1, <3>1 DEF f, Kinds
    <3>2. CASE s # r
      BY <1>2, <1>5, <1>6, <1>8, <2>1, <3>2 DEF LinkInv, Kinds
    <3> QED
      BY <3>1, <3>2
  <2>2. ASSUME NEW g \in pypi' PROVE runs'[g.build[1]].state # "absent"
    <3>1. CASE g \in pypi
      BY <1>2, <3>1, TagsStay
    <3>2. CASE g = f
      BY <1>2, <1>3, <1>8, <3>2 DEF KeepsRuns
    <3> QED
      BY <1>2, <3>1, <3>2
  <2> QED
    BY <2>1, <2>2 DEF LinkInv
<1>10. PublishedIsOwn'
  <2> SUFFICES ASSUME NEW s \in RunIds, runs'[s].state = "published", NEW k \in Kinds
               PROVE  File(s, k)' \in pypi'
    BY DEF PublishedIsOwn, Kinds
  <2>1. CASE s = r
    BY <1>1, <1>2, <1>4, <1>5, <1>6, <1>8, <2>1 DEF f, Kinds
  <2>2. CASE s # r
    BY <1>2, <1>5, <1>6, <1>8, <2>2 DEF PublishedIsOwn
  <2> QED
    BY <2>1, <2>2
<1>11. TagNamesFile'
  <2>1. ASSUME NEW g \in pypi'
        PROVE  LET run == runs'[g.build[1]]
               IN  /\ run.event = "release"
                   /\ run.tag.version = g.version /\ run.commit[g.package] = g.version
                   /\ run.tag.name = g.package
                      \/ (run.tag.name = NoName /\ declared' = {g.package})
    <3>1. CASE g \in pypi
      BY <1>2, <3>1, TagsStay
    <3>2. CASE g = f
      <4>1. /\ runs'[r].event = runs[r].event /\ runs'[r].tag = runs[r].tag
            /\ runs'[r].commit = runs[r].commit
        BY <1>2, <1>8 DEF KeepsRuns
      <4> QED
        BY <1>2, <1>3, <3>2, <4>1 DEF Names, Gated
    <3> QED
      BY <1>2, <3>1, <3>2
  <2> QED
    BY <2>1 DEF TagNamesFile
<1> QED
  BY <1>2, <1>7, <1>9, <1>10, <1>11

LEMMA StepIInv == IInv /\ [Next]_vars => IInv'
<1> SUFFICES ASSUME IInv, [Next]_vars PROVE IInv'
  OBVIOUS
<1>1. CASE \E r \in RunIds : Uploads(r)
  BY <1>1, UploadKeepsIInv
<1>2. CASE \A r \in RunIds : ~Uploads(r)
  BY <1>2, QuietSteps, QuietKeepsIInv DEF IInv
<1> QED
  BY <1>1, <1>2

----------------------------------------------------------------------------
(* The theorems.                                                           *)

\* The invariant, which links each run to its files and each sdist to its wheel, always holds.
THEOREM ReleaseInvariance == Spec => []IInv
  BY InitIInv, StepIInv, PTL DEF Spec

\* A publish job that ends green has published its own wheel and sdist.
THEOREM GreenMeansOwn == Spec => []PublishedIsOwn
<1>1. IInv => PublishedIsOwn
  BY DEF IInv
<1> QED
  BY <1>1, ReleaseInvariance, PTL

\* A file on the index is what the tag of its release names, however many packages are
\* declared and whatever main has become since.
THEOREM TagsNameFiles == Spec => []TagNamesFile
<1>1. IInv => TagNamesFile
  BY DEF IInv
<1> QED
  BY <1>1, ReleaseInvariance, PTL

\* An upload is a step of the index's history, or leaves the index alone.
LEMMA UploadIsHistory ==
  ASSUME IInv, NEW r \in RunIds, Uploads(r)
  PROVE  History!Next \/ pypi' = pypi
<1> USE DEF IInv
<1>1. PICK kind \in Kinds, next \in {"uploadSdist", "published"} :
        /\ Upload(r, kind, next)
        /\ \/ kind = "wheel" /\ runs[r].state = "uploadWheel"
           \/ kind = "sdist" /\ runs[r].state = "uploadSdist"
  BY UploadsAre DEF Kinds
<1> DEFINE f == File(r, kind)
           p == f.package
           v == f.version
           b == f.build
<1>2. Gated(runs[r]) /\ (pypi' = pypi \/ (~Holds(f) /\ pypi' = pypi \union {f}))
  BY <1>1, UploadSteps
<1>3. /\ f \in Files /\ f.kind = kind
      /\ \A k \in Kinds : File(r, k) = [f EXCEPT !.kind = k]
  BY <1>2, FileOfGated
<1>4. kind = "sdist" => File(r, "wheel") \in pypi
  BY <1>1 DEF LinkInv
<1> SUFFICES ASSUME ~Holds(f), pypi' = pypi \union {f} PROVE History!Next
  BY <1>2
<1> HIDE DEF f
<1>5. /\ p \in Packages /\ v \in Versions /\ b \in Builds
      /\ f = [package |-> p, version |-> v, kind |-> kind, build |-> b]
  BY <1>3 DEF Files
<1>6. History!Put(p, v, kind, b)
  BY <1>5 DEF History!Put
<1>7. \A g \in pypi : g \in Files /\ ~SameName(f, g)
  BY DEF Holds, TypeInv
<1>8. CASE kind = "wheel"
  <2>1. ASSUME NEW g \in pypi, g.package = p, g.version = v PROVE FALSE
    <3>1. g.kind = "sdist"
      BY <1>3, <1>7, <1>8, <2>1 DEF SameName, Files, Kinds
    <3> DEFINE w == [g EXCEPT !.kind = "wheel"]
    <3>2. w \in pypi
      BY <3>1 DEF IndexInv
    <3>3. w.package = p /\ w.version = v /\ w.kind = "wheel"
      BY <1>7, <2>1 DEF Files
    <3> QED
      BY <1>3, <1>7, <1>8, <3>2, <3>3 DEF SameName
  <2>2. History!Of(p, v) = {}
    BY <2>1 DEF History!Of
  <2> QED
    BY <1>5, <1>6, <1>8, <2>2 DEF History!Next, History!PublishWheel
<1>9. CASE kind = "sdist"
  <2> DEFINE w == File(r, "wheel")
  <2>1. w \in pypi /\ w = [f EXCEPT !.kind = "wheel"]
    BY <1>3, <1>4, <1>9 DEF Kinds
  <2>2. w = History!Wheel(p, v, b)
    BY <1>5, <2>1 DEF History!Wheel
  <2>3. w.package = p /\ w.version = v /\ w.kind = "wheel"
    BY <2>2 DEF History!Wheel
  <2> HIDE DEF w
  <2>4. ASSUME NEW g \in pypi, g.package = p, g.version = v PROVE g = w
    <3>1. g.kind = "wheel"
      BY <1>3, <1>7, <1>9, <2>4 DEF SameName, Files, Kinds
    <3> QED
      BY <2>1, <2>3, <2>4, <3>1 DEF IndexInv, SameName
  <2>5. History!Of(p, v) = {w}
    BY <2>1, <2>3, <2>4 DEF History!Of
  <2> QED
    BY <1>5, <1>6, <1>9, <2>2, <2>5 DEF History!Next, History!PublishSdist
<1> QED
  BY <1>8, <1>9 DEF Kinds

\* Whatever runs race, break off or are re-run, a version on the index is one build: its wheel,
\* and then its sdist, put there once and never touched again.
THEOREM RefinesIndexHistory == Spec => ImplementsIndexHistory
<1>1. Init => History!Init
  BY DEF Init, History!Init
<1>2. IInv /\ [Next]_vars => [History!Next]_pypi
  <2> SUFFICES ASSUME IInv, [Next]_vars PROVE History!Next \/ pypi' = pypi
    OBVIOUS
  <2>1. CASE \E r \in RunIds : Uploads(r)
    BY <2>1, UploadIsHistory
  <2>2. CASE \A r \in RunIds : ~Uploads(r)
    BY <2>2, QuietSteps DEF IInv, Quiet
  <2> QED
    BY <2>1, <2>2
<1> QED
  BY <1>1, <1>2, ReleaseInvariance, PTL DEF Spec, ImplementsIndexHistory, History!Spec

----------------------------------------------------------------------------
(* The concurrency groups.                                                 *)

\* A group has one running run at most: two runs that both run are of different groups.
Exclusion ==
  \A r, s \in RunIds : r # s /\ SameGroup(r, s) =>
    runs[r].state \notin Running \/ runs[s].state \notin Running

\* What a step does to the runs: it queues one that does not run, and at most takes others out
\* of the queue; or a run's own job goes on, or ends; or one starts whose group is free.
Queueing ==
  \E r \in RunIds :
    /\ runs[r].state \notin Running /\ runs'[r].state = "queued"
    /\ \A s \in RunIds \ {r} :
         \/ runs'[s] = runs[s]
         \/ runs[s].state \notin Running /\ runs'[s].state = "cancelled"

Advancing ==
  \E r \in RunIds :
    /\ runs'[r].event = runs[r].event /\ runs'[r].tag = runs[r].tag
    /\ \A s \in RunIds \ {r} : runs'[s] = runs[s]
    /\ \/ /\ runs[r].state \in Running
          /\ runs'[r].state \in Running \union {"failed", "ready", "published"}
       \/ /\ runs[r].state = "queued"
          /\ \A s \in RunIds : SameGroup(r, s) => runs[s].state \notin Running

LEMMA QueueIsQueueing ==
  ASSUME NEW r \in RunIds, NEW run, run.state = "queued", runs[r].state \notin Running,
         TypeInv, Queue(r, run)
  PROVE  Queueing
<1>1. runs'[r] = run
  BY DEF Queue
<1>2. ASSUME NEW s \in RunIds \ {r}
      PROVE  \/ runs'[s] = runs[s]
             \/ runs[s].state \notin Running /\ runs'[s].state = "cancelled"
  <2>1. \/ runs'[s] = runs[s]
        \/ runs[s].state = "queued" /\ runs'[s] = [runs[s] EXCEPT !.state = "cancelled"]
    BY DEF Queue
  <2>2. runs[s] \in RunRecords
    BY DEF TypeInv
  <2> QED
    BY <2>1, <2>2 DEF RunRecords, Running
<1> QED
  BY <1>1, <1>2 DEF Queueing

\* Moving a run on, whatever else of its record changes.
LEMMA EnterIsAdvancing ==
  ASSUME TypeInv, NEW r \in RunIds, NEW state, Enter(r, state),
         \/ runs[r].state \in Running /\ state \in Running \union {"failed", "ready", "published"}
         \/ /\ runs[r].state = "queued"
            /\ \A s \in RunIds : SameGroup(r, s) => runs[s].state \notin Running
  PROVE  Advancing
<1>1. runs[r] \in RunRecords
  BY DEF TypeInv
<1>2. /\ runs'[r].state = state
      /\ runs'[r].event = runs[r].event /\ runs'[r].tag = runs[r].tag
  BY <1>1 DEF Enter, TypeInv, RunRecords
<1>3. \A s \in RunIds \ {r} : runs'[s] = runs[s]
  BY DEF Enter, TypeInv
<1> QED
  BY <1>2, <1>3 DEF Advancing

LEMMA StepsOfRuns ==
  ASSUME TypeInv, [Next]_vars
  PROVE  runs' = runs \/ Queueing \/ Advancing
<1>1. CASE UNCHANGED vars \/ RefreshListing \/ \E p \in Packages : BumpVersion(p)
  BY <1>1 DEF vars, RefreshListing, BumpVersion
<1>2. ASSUME NEW r \in RunIds, PushEvent(r) \/ ReleasePublished(r)
      PROVE  Queueing
  <2>1. PICK event, tag : Trigger(r, event, tag)
    BY <1>2 DEF PushEvent, ReleasePublished
  <2>2. runs[r].state \notin Running
    BY <2>1 DEF Trigger, Running
  <2> QED
    BY <2>1, <2>2, QueueIsQueueing DEF Trigger
<1>3. ASSUME NEW r \in RunIds, RerunFailedJobs(r) \/ RerunAllJobs(r)
      PROVE  Queueing
  <2>1. PICK job : Rerun(r, job)
    BY <1>3 DEF RerunFailedJobs, RerunAllJobs
  <2> DEFINE run == [runs[r] EXCEPT !.state = "queued", !.attempt = @ + 1, !.job = job]
  <2>2. Queue(r, run) /\ runs[r].state \notin Running
    BY <2>1 DEF Rerun, Running, Finished
  <2>3. run.state = "queued"
    BY DEF TypeInv, RunRecords
  <2> HIDE DEF run
  <2> QED
    BY <2>2, <2>3, QueueIsQueueing
<1>4. ASSUME NEW r \in RunIds, Start(r)
      PROVE  Advancing
  BY <1>4, EnterIsAdvancing DEF Start
<1>5. ASSUME NEW r \in RunIds, BuildJob(r)
      PROVE  Advancing
  <2>1. runs[r].state \in Running /\ runs[r] \in RunRecords
    BY <1>5 DEF BuildJob, Running, TypeInv
  <2>2. CASE \E state \in {"failed", "ready"} : Enter(r, state)
    BY <2>1, <2>2, EnterIsAdvancing
  <2>3. CASE runs' = [runs EXCEPT ![r].state = "uploadWheel", ![r].job = "uploadWheel",
                                  ![r].artifact = runs[r].attempt]
    <3>1. /\ runs'[r].state = "uploadWheel"
          /\ runs'[r].event = runs[r].event /\ runs'[r].tag = runs[r].tag
      BY <2>1, <2>3 DEF TypeInv, RunRecords
    <3>2. \A s \in RunIds \ {r} : runs'[s] = runs[s]
      BY <2>3 DEF TypeInv
    <3> QED
      BY <2>1, <3>1, <3>2 DEF Advancing, Running
  <2> QED
    BY <1>5, <2>2, <2>3 DEF BuildJob
<1>6. ASSUME NEW r \in RunIds, Uploads(r)
      PROVE  Advancing
  <2>1. PICK next \in {"uploadSdist", "published"} : \E kind : Upload(r, kind, next)
    BY <1>6, UploadsAre
  <2>2. runs[r].state \in Running
    BY <1>6, UploadsAre DEF Running
  <2>3. PICK state \in {"failed", next} : Enter(r, state)
    BY <2>1 DEF Upload
  <2> QED
    BY <2>2, <2>3, EnterIsAdvancing DEF Running
<1> QED
  BY <1>1, <1>2, <1>3, <1>4, <1>5, <1>6 DEF Next, RunStep, Uploads

\* A running run stays or ends by its own step, and no other of its group joins it.
LeftAlone ==
  \A r \in RunIds : runs[r].state \in Running =>
    /\ runs'[r].state \notin {"absent", "queued", "cancelled"}
    /\ \A s \in RunIds \ {r} : SameGroup(r, s)' =>
         {runs'[r].state, runs'[s].state} \ Running # {}

LEMMA StepLeavesAlone ==
  ASSUME TypeInv, Exclusion, [Next]_vars
  PROVE  Exclusion' /\ LeftAlone
<1>1. Exclusion'
  <2>1. CASE runs' = runs
    BY <2>1 DEF Exclusion, SameGroup
  <2>2. CASE Queueing
    <3>1. \A s \in RunIds : runs'[s].state \in Running => runs'[s] = runs[s]
      BY <2>2 DEF Queueing, Running
    <3> QED
      BY <3>1 DEF Exclusion, SameGroup
  <2>3. CASE Advancing
    BY <2>3 DEF Advancing, Exclusion, SameGroup, Running
  <2> QED
    BY <2>1, <2>2, <2>3, StepsOfRuns
<1>2. ASSUME NEW r \in RunIds, runs[r].state \in Running
      PROVE  runs'[r].state \notin {"absent", "queued", "cancelled"}
  <2>1. CASE runs' = runs
    BY <1>2, <2>1 DEF Running
  <2>2. CASE Queueing
    BY <1>2, <2>2 DEF Queueing, Running
  <2>3. CASE Advancing
    BY <1>2, <2>3 DEF Advancing, Running
  <2> QED
    BY <2>1, <2>2, <2>3, StepsOfRuns
<1>3. ASSUME NEW r \in RunIds, NEW s \in RunIds \ {r}, SameGroup(r, s)'
      PROVE  {runs'[r].state, runs'[s].state} \ Running # {}
  BY <1>1, <1>3 DEF Exclusion
<1> QED
  BY <1>1, <1>2, <1>3 DEF LeftAlone

\* For any number of runs: one that runs is neither cancelled nor put back into the queue, and
\* no other run of its group ever runs beside it, whatever is released, pushed or re-run.
THEOREM RunningStays == Spec => RunningLeftAlone
<1>1. Init => Exclusion
  BY DEF Init, Exclusion, Running
<1>2. IInv /\ Exclusion /\ [Next]_vars => Exclusion'
  BY StepLeavesAlone DEF IInv
<1>3. IInv /\ Exclusion /\ [Next]_vars => [LeftAlone]_vars
  BY StepLeavesAlone DEF IInv
<1> QED
  BY <1>1, <1>2, <1>3, ReleaseInvariance, PTL DEF Spec, RunningLeftAlone, LeftAlone
============================================================================
