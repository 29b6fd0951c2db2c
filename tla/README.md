# Verification of khipu-consensus

This directory models the consensus core of khipu-consensus in TLA+: the tally of signed witness
verdicts, the attestation that collects them over a registry that may change meanwhile, the
independent verification of the receipts, the HTTP service and its clients across restarts, the
adversarial harness, the agreement of the three language ports, the spine receipt into which a
decision is folded, the collusion lane, and the two programs that guard a release: the publishing
workflow with its gate, and the forbidden-domain scan. TLC checks the models on small instances;
TLAPS proves, for every instance, the safety of all of these, but for the exactness of the
forbidden-domain scan's token-level judgement.

## The system

An *action* (a hash) is put to a set of *witnesses* ("organs"). Each signs a statement that names
itself, the action and `allow` or `block`. `tally` counts the distinct witnesses with a valid
`allow` over exactly this action; at least `threshold` of them make the action *canonical*.

| Component | State it keeps | Operations | Interacts with | What is hard | What makes it correct |
|---|---|---|---|---|---|
| Verdict (`__init__.py`: `sign_verdict`, `verify_verdict`) | none | sign, verify | called by all others | eight ordered reasons for refusing a row | a row counts exactly if the organ's key signed an allow of this action |
| Tally (`__init__.py`: `tally`) | the organs counted, the count, the checks of one call | one pass over a list of rows | called by `attest`, `verify_receipt`, the harness | rows repeated, reordered, missing; boundary of the quorum | distinct counting, exact decision, truthful checks |
| Registry (`witness.py`: `WitnessRegistry`) | organ to witness | `add`, and reads | shared by all callers of `attest` and by the verifier, without a lock | keys rotated while calls run | one entry for each organ |
| Coordinator (`witness.py`: `attest`) | local variables of a call | sign fan-out, tally, assembly | registry, witnesses | several reads of the registry in one call; a witness that abstains or raises | quorum exactness, count within n, raising only for a cause |
| Receipt verifier (`witness.py`: `verify_receipt`) | none | policy, entries, re-tally | registry or explicit keys | everything in the receipt is a claim | canonical is backed by honest signatures; unedited receipts are confirmed |
| Go and TypeScript ports | none | verify, tally | the shared vectors | reading the same wire row alike: type, base64, JSON, PEM | equal checks, counts and decisions on rows as signers write them; on any row, each counts exactly what it reads as signed |
| Adversarial harness (`adversary.py`) | counters of a report | named rounds, fuzz loop, oracle, three tallies | tally | the oracle shares `verify_verdict` with what it tests | oracle is right; only duplicates fool the old tally |
| Service (`service/app.py`) | registry read once at start | attest, verify, witnesses, healthz | coordinator, verifier, policy file | no registry (503), foreign keys (400), raising handlers (500), restarts | a verdict depends on the trust policy alone; healthz tells the truth |
| SDK (`sdk.py`) | address, timeout | attest, verify, witnesses | service | lost and late answers | every call ends |
| CLI (`cli.py`) | none | verify a receipt file | policy file, verifier | same file, other loader, other time | same verdict as the service |
| Spine receipt (`spine.py`) | none | build, emit, verify, rebind | MultiWitnessReceipt, szl_receipt | envelope and receipt are kept apart, and only two digests join them | an accepted pair is a receipt the key's holder folded |
| Collusion lane (`collusion.py`) | HMAC keys of four witnesses | round, campaign, lane | none | quorum constant 3, amount 0, odd arguments | every round is counted in the outcome its colluders decide |
| Release gate and workflow (`szl_pypi_release_gate.py`, `publish-pypi.yml`) | runs, their artifacts; the index | gate, build, publish, re-run | PyPI, GitHub | check and uploads are separate steps; uploads break off; the listing lags | a version is one build, named by its tag |
| Forbidden-domain scan (`forbidden_domain_scan.py`) | lists of one scan | enumerate, scan in batches, re-read, judge | git, ripgrep, work tree | tools that fail, files that change meanwhile | never green over a standing violation; every fault fails closed |

The Lean formalisation that `docs/FORMAL.md` describes is kept elsewhere and is not modelled.

## Modules

| Module | Models | Extends |
|---|---|---|
| `KhipuVerdict` | the signed statement, the wire row, `verify_verdict`, the result of `tally` as an operator | |
| `QuorumDecision` | what `tally` promises: one decision, taken once, from a set of witnesses and two counts | |
| `Tally` | the loop of `tally`, row by row | `KhipuVerdict`; instantiates `QuorumDecision` |
| `TallyProofs` | theorems about `Tally` | `Tally`, `ReceiptsProofs` |
| `Receipts` | registry, receipt, `verify_receipt` as an operator | `KhipuVerdict` |
| `ReceiptsProofs` | lemmas about `verify_verdict`, registries, receipts and `verify_receipt`, for the other proofs | `Receipts` |
| `Attestation` | `attest` in steps, `add`, receipts edited on their way, `verify_receipt` | `Receipts` |
| `AttestationProofs` | theorems about `Attestation` | `Attestation`, `ReceiptsProofs` |
| `WitnessService` | the service between restarts, the SDK's HTTP transport, the CLI | `Receipts` |
| `ServiceProofs` | theorems about `WitnessService` | `WitnessService`, `ReceiptsProofs` |
| `CrossLanguage` | the Python, Go and TypeScript tallies side by side | `KhipuVerdict` |
| `AdversarialHarness` | the named rounds, the fuzz loop, three tallies and the oracle | `KhipuVerdict` |
| `SpineReceipt` | the fold of a receipt into a signed envelope, and its verification | `Receipts` |
| `SpineProofs` | theorems about `SpineReceipt` | `SpineReceipt` |
| `Collusion` | rounds, campaigns and the full lane | |
| `CrossCheckProofs` | theorems about `CrossLanguage`, `AdversarialHarness` and `Collusion` | these three, `ReceiptsProofs` |
| `ReleasePipeline` | the workflow's runs, the gate, the uploads | instantiates `IndexHistory` |
| `IndexHistory` | what the workflow promises of the package index | |
| `ReleaseProofs` | theorems about `ReleasePipeline` | `ReleasePipeline` |
| `DomainScan` | one scan of the work tree, from the index to the exit code | |
| `GuardJudgement` | the walk around a literal that decides whether a guard covers it | |
| `DomainScanProofs` | theorems about `DomainScan` and `GuardJudgement` | these two |
| `MC...` | the constants of the runs | the module of that name |

**How state and actions correspond to the code.** In `Tally`, `counted`, `count` and `checks` are
the local variables of `tally`, `pos` its position in the list; each action is one branch of the
loop body, `RejectCounts` the early return and `Decide` the last two lines. In `Attestation`,
`pc` and `job` are the position and the local variables of each thread inside `attest`; every
separate read of the registry (the check of the counts, `all()`, `pubkeys()`, `n` for the tally,
`n` for the receipt, `public()`) is a step of its own, because `attest` takes no lock and `add`
may come between any two; `pubkeys()` and `public()` iterate the live dict and are read a witness
at a time (`read`, `size`), and `ReadRaises` is the `RuntimeError` of a dict that grew; `signed` is a
history of what honest witnesses signed, and `desk` holds
a receipt between the coordinator and a verifier. In `WitnessService`, `policy` is the module
variable `REGISTRY`, `file` the file that `KHIPU_WITNESSES` names, `call` an HTTP exchange, and
`held`, `seen` and `exit` what a client has been given; nothing in the service changes `REGISTRY`,
so the steps of concurrent requests commute and a request is one step; `InProcess` is the SDK
without HTTP on the same registry. In `AdversarialHarness`
the random generator is a free choice, so one run covers every seed of the battery's size.
In `CrossLanguage` the three tallies take each row in the same step, since they do not interact; its
rows are on the wire (`WireRows`), where the others' are decoded, and `Wire` puts one of those there.
`Orders`, from which the harness's shuffle chooses, intersects `Permutations` of the module TLC, which
TLC lists fast and the prover does not know, with `Bijection`, which says the same. `CrossLanguage`
and `Collusion` name their specifications `PortsSpec` and `LaneSpec`, because one module of proofs
extends both and the harness; `GuardJudgement` names its own `JudgementSpec`, because its proofs stand
beside those of `DomainScan`.

In `SpineReceipt` the `archive` is the receipt somebody keeps, `envelope` the one that reached the
verifier, `emitted` the history of what was signed; the two are edited, resent and replaced apart
from each other. In `Collusion`, `running` is the campaign under way and `spectrum` the lane's
list. In `ReleasePipeline` a run is a record of its event, tag, commit, state, attempt and
artifact; `BuildJob` is the gate and the upload of `dist/`, each file's upload is a step of its
own, and each may break off before or after the index has stored the file; `pypi` is the index and
`indexed` its JSON listing. In `DomainScan`, `pc`, `todo`, `paths` and `matches` are the lists of
one scan, each file ripgrep reads and each file re-read is a step, and `EditTree` is anybody who
writes in the work tree between them. In `GuardJudgement` the state is the source around the
literal, written token by token, so that every source within the bounds is a state.

**Abstractions.** A signature is the record of the key, the payload type and the body it covers,
and verifies under exactly these (ECDSA, PAE, base64 and canonical JSON are ideal). In
`CrossLanguage` base64 and JSON are not: a base64 text has *readers*, the ports that decode it to the
bytes it was made of, and so has a JSON document, with the statement under the five keys as spelled
(`exact`, for Python and Node) and the one Go decodes, to which a key in any case is the key
(`folded`). `RefusalIn` has the looks of the three `verify` functions in their order: Go decodes both
texts before it looks at the type and refuses what is not standard base64; Python decodes each where
it uses it; to Node, and to Python when it passes over characters, a text it cannot read is other
bytes, which no signature covers. `KeysOf` has the keys a port loads: Node makes one of a
certificate, a private key and an RSA key too (`OtherPems`). Which texts a port reads is left open,
beyond that all read what `Text` and `Written` make. A PEM stands
for its key pair; a PEM of white space is the empty PEM to `verify_receipt` and an unreadable one
elsewhere, and the model has only the empty and the unreadable. Reasons, time stamps, regions,
endpoints, `lean_sha`, provenance and the SHA-256 identities that `verify_receipt` adds to its
answer are left out, as no check depends on them; `checks` are without the key id they echo.
`verify_receipt` reads the registry's keys in one step. Any vote that is not `allow` is `block`.
`TallyOutcome` stands for a call of `tally` in `Receipts`, `Attestation`, `WitnessService` and
`AdversarialHarness`; `LoopReturnsTallyOutcome` is the proof that the loop computes it. The CLI is
run on the file the service reads. A digest of `spine.py` is the value digested, and the body's
constant fields (energy, honesty notes) are left out. In `ReleasePipeline` the checks of the built
files are one free boolean, a pull request and a push are one event, and GitHub's queue, re-runs
and artifacts and PyPI's uploads are external: modelled by what the workflow relies on. In
`DomainScan` a line is plain, a live reference, a reference a guard covers, or a line that leaves a
bracket open; git and ripgrep are external and may return sound output, damaged output or none.
`GuardJudgement` works on tokens: the lexers that find literals and comments, the prose guard and
the bare keys of configuration files are left out.

Operators with a suffix and the comment "Defect:" (as `CountWitness_PerRow`) are not part of any
specification. Each is a plausible mistake in the definition that follows it; `PROJECT.json`
says which property fails when it takes the definition's place.

## Runs

| Run | Bounds | Shows |
|---|---|---|
| `tally_orders` | lists of up to 4 rows from 6, or up to 3 from 15 that hold one for each way to fail `verify_verdict`; two key maps, two actions, counts 0 to 2 and one that is no integer | bookkeeping, audit trail and decision are exact in every order; no refused row counts or keeps a good one from counting; the loop implements `QuorumDecision` with its fairness |
| `attest_under_rotation` | *changing*: 1 caller, 7 registries, 3 calls of `add`; *edited*: 2 callers, 2 actions, one rotation, one faulty key, 2 witnesses and 2 edits of a receipt or 3 witnesses and 1 edit | count within n, round trip, exact quorum, raising only for a cause; a canonical verdict is backed by honest signatures |
| `ports_side_by_side` | lists of up to 3 rows from 22: as signers write them, genuine, edited or refused; types, base64 and documents that the ports read differently; a certificate's signature; three key maps, keys missing, unreadable or a certificate; counts 0 to 2 | each port counts exactly the witnesses whose signed allow it reads, and decides by these; as long as the rows are as signed, the three record the same judgements and decide alike |
| `ports_differ_on_empty_type` | an empty and a null payloadType | **violation**: the ports differ there, as they do with `MCEncodedRows` or `MCDocumentRows` as the `RowPool` |
| `harness_every_attack` | 4 organs, threshold 3; one fuzz round of 7 kinds of row for each organ and one copy, or two rounds of 3 kinds and up to 3 copies, every order | named rounds, oracle, agreement of the two distinct tallies; no false canonical; the old tally is fooled by copies alone |
| `hardened_without_quorum_check` | threshold 0 | **violation**: `distinct_witness_tally` accepts what `tally` rejects |
| `service_reconfigured` | 1 client; 4 policy files that work, or 5 that fail in different ways, or none; any number of edits and restarts | a receipt is confirmed exactly while the same keys and threshold are trusted; CLI and service agree, and the witness list foretells a later verdict, across restarts in between; statuses, health answers, both transports agree, every call ends |
| `release_pipeline` | 2 runs, 1 or 2 packages, 2 versions, 2 attempts | a file is its run's own and named by its tag; the pipeline implements `IndexHistory`; a running run is left alone by its group; every queued run ends |
| `spine_receipt` | 3 rounds, 3 keys or none, 2 envelopes, 1 edit of receipt or envelope | an accepted pair is a receipt that was folded, and its body agrees with it |
| `domain_scan` | 3 files of at most 2 lines in batches of 2, and odd indexes; 2 edits, damaged output | never green over a standing violation, no false report, faults fail closed, every scan ends |
| `guard_judgement` | 15 kinds of token before the literal and 9 behind it, up to 4 and 2; up to 6 before it of the 6 kinds that make nested and multi-line collections | the walk finds exactly the documented shape; arguments of calls stay live |
| `collusion` | every set of witnesses and colluders, 3 amounts, arguments -1 to 5 and no integer, 2 calls | changes are repelled or caught; counts and verdict are measured |

Where a run covers several configurations (`scenario`, `battery`, `deployment`, `declared`), a
variable holds the one in force: it is chosen at the start and no action changes it.

*Why these bounds are enough to meet the cases.* Wrong counting needs a repeated organ with
another row between its rows, and a quorum one short: four rows, two organs and thresholds from
0 to 2 have all of them, an n below the threshold included. The reads of the registry that can
disagree are five, and an inconsistency needs at most one `add` before and one after a read; three
leave one to spare. Two callers with two actions are the least that can mix the rows of two
receipts. Two edits are the least that can change the rows and a claim together. The policy files
differ from each other by one edit, and restarts are unbounded. The harness has the four organs and
the threshold of `run_adversarial_suite`; `equivocation_verdict` and `replay_verdict` make the same
row, so the fuzz round leaves out one of the two. Mixing two builds in one version needs two runs,
or a run and its re-run, one of which breaks off between its files; a third run could only queue
behind these, and two already wait for and displace each other. Two edits of the work tree are the
least that can move a line and put another in its place; three files with batches of two make a
full and a short batch. Four tokens hold a key, its operator, an opener and one thing out of place;
six nest a collection in another. `guard_judgement` is checked without deadlock: a source at its
bound is complete. No run uses symmetry.

*Fairness.* `Tally`: the loop is sequential code over a finite list, so it keeps running.
`WitnessService`: only the client's own timeout is certain (`sdk.py` passes `timeout` to every
request); the service need not start, answer or stay up.
`ReleasePipeline`: each started or startable job makes progress, since runners serve the queue
and jobs have timeouts; nobody need bump, release or re-run, and the listing may lag for ever.
`DomainScan`: the scan keeps running, since each command it waits for has a timeout; edits are
free. The other modules state no fairness and no liveness: a call of `attest`, for one, is a straight
run through its snapshot of the witnesses.

## What is proved

`TallyProofs` holds for every set of organs, keys and actions, every set of lists of rows of any
length, and every set of key maps and of quorum counts. It rests on the named assumptions of
`KhipuVerdict` (the special values are distinct from the ordinary ones) and `Tally` (the lists
contain rows, the key maps are key maps), which TLC evaluates on the runs; `JunkAssumption` of
`Receipts` is in scope and not used.

1. `CountsIffSupports` (in `ReceiptsProofs`): `verify_verdict` lets a row count exactly when it *supports* its organ,
   that is, when it carries that organ's signature over the v1 statement that allows this action.
   The definition of `Supports` does not mention `verify_verdict`.
2. `TypeCorrect`: the type invariant, with one check for each row handled.
3. `Invariance`: the inductive invariant `IInv`: types, finiteness of `counted`, `CountedSoFar`,
   `TrailMatchesCount`, and that a decision comes from exhausted rows or malformed counts.
   `DecisionExact` alone is not inductive, since it says nothing of a loop under way; the step
   for `CountWitness` needs `counted` to be exactly the supporting organs so far, and finite for
   the cardinality to grow by one.
4. `DistinctCounting`, `TrailCorrect`, `DecisionCorrect`: the three invariants of the runs.
5. `RefinesQuorumDecision`: every step of the loop is a step or a stutter of `QuorumDecision`.
6. `LoopReturnsTallyOutcome`: the operator the other modules use is what the loop returns.

`ReleaseProofs` holds for any finite set of packages and any declarations of them, any set of
workflow runs, and any number of versions and attempts. It rests on the assumptions of
`ReleasePipeline`: the set of packages is finite (the gate counts the declared ones), each
declaration is a non-empty set of them, and the bounds are positive.

1. `SelectedIsNamed`, `PassesIsNamed`: a release that passes the gate names, by its tag, the one
   package it selects, whether one is declared or several.
2. `ReleaseInvariance`: the inductive invariant `IInv`: types; `RunsInv`, a run whose next job is the
   publish job is a gated release with an artifact; `IndexInv`, a name is on the index once, and an
   sdist beside the wheel of its own build; `LinkInv`, a run about to upload its sdist has its wheel
   on the index. `PublishedIsOwn` is not inductive without `LinkInv`, since the step that ends the
   run adds the sdist only, and the refinement needs `IndexInv`: an absent wheel must mean that the
   version is not on the index at all. Every action but an upload is shown to be *quiet*: it
   keeps the index, and the tag, commit and artifact of each run on its way to publish.
3. `GreenMeansOwn`, `TagsNameFiles`: two invariants of the run.
4. `RefinesIndexHistory`: the whole of `ImplementsIndexHistory`, which states no fairness.
5. `RunningStays`: `RunningLeftAlone`, by the invariant `Exclusion` (one running run in a group at most).
   Every step that touches a run is a `Queueing`, which takes no running run, or an `Advancing`, which
   moves one run of a free group or on its own job.

`AttestationProofs` holds for every set of organs, keys, faulty keys and callers, every registry of
any length, any number of calls of `add` and of edits of a receipt, and the one `Threshold` of the
service, an ill-formed one included. Beside the assumptions of `KhipuVerdict` it rests on
`JunkAssumption` (what is no list is no list) and on those of `Attestation`.

1. In `ReceiptsProofs`: `AddKeepsRegistry`, `add` keeps one entry for each organ and never
   shrinks the registry; `OrgansCount`, a registry has as many organs as entries; `PublishedKeys`,
   `public()` and `pubkeys()` say the same; `AnswersAreEntries`, what witnesses answer is never
   a malformed entry to a verifier with their keys; `ConfirmedWhen`.
2. The inductive invariant `IInv` says what each local variable of `attest` is known to be at each
   label. `CountWithinN` needs a chain through all of them: the registry only grows, so the keys
   read are at most as many as the witnesses of any later read, and the count is bounded by the
   keys (`CountBounded`). The round trip and the exact quorum need `QuietSoFar`: while `adds` is
   what it was at the start, every read so far is of one registry. Byzantine safety needs that any
   row, on whatever desk and however edited, either is signed by a faulty key or carries a
   statement in `signed`, and that `signed` holds only what attest had a witness sign.
3. `TypeCorrect`, `CountNeverExceedsN`, `RaisesForCause`, `QuorumDecides`, `ByzantineSafety`,
   `RoundTrip`: the type invariant and the five others of the run.

`ServiceProofs` holds for any number of clients, every deployment (`ServiceAssumption`: a policy
file that loads has a list of witnesses), and any history of edits and restarts.

1. `AddedInTurnIsRegistry`: a policy file with any list of witnesses, repeated organs included,
   makes a registry. `AddedInTurn` is a recursive function; the library's induction theorems cannot
   be applied, so the proof goes by least counterexample (`LeastElement`, from the well-foundedness
   of the naturals), once for the existence of the function and once for its values.
2. `IssuedConfirmed`: a receipt that attest made under one policy is confirmed by verify under
   another exactly when both have the same keys and threshold, a canonical verdict implies
   confirmation, and a policy that verify takes never yields "refused". This is the whole argument of
   `ConfirmsByTrust`, and the middle of `CliAgrees` and `ListingForetells`.
3. `IInv` ties each history variable to what it goes with: a held receipt was made under the policy
   recorded with it; a call's request names the receipt its client holds; an answer is what the
   endpoint makes under the policy recorded; a verdict, a listing and an exit code are about the
   receipt still held (a new one resets them). None of the five invariants is inductive without it,
   as they relate answers to requests that were sent before restarts.
4. `ConfirmsByTrust`, `CliAgrees`, `ListingForetells`, `SameTransports`, `HealthIsTrue`.

`SpineProofs` holds for every pool of rounds and set of keys (`PoolAssumption`) and any number of
emissions and edits. `IInv`: the fields of receipt and envelope; every emission is what `emit` makes
of its receipt (`Genuine`); a signature in circulation is one that some emission made
(`Circulates`). Without the last, nothing links an accepted envelope, whose payload and signature
may have been exchanged apart, to an emission. Theorems `RebindIsGenuine`, `BodyAgrees`,
`RoundTrips`.

`CrossCheckProofs` has a part for each of three components that set implementations or outcomes beside
each other.

*The ports*, for lists of any length. First what holds of every pool of rows, however written and
whatever a port makes of them (`WireAssumption`, `LanguagesAssumption`), with integers for the quorum
counts:

1. `CountsIffSupportsIn`: a port lets a row count exactly when, in the text this port decodes, stands a
   document signed by the key published for the organ which, as this port reads it, allows this action.
   `SupportsIn` says so without the port's checks and their order.
2. `AllPortsCount`, inductive: each port that runs has counted exactly the organs with a row so far that
   supports them in this sense, each once. Theorem `PortsCountWhatTheyRead`.

Then what holds as long as the rows are as their signers write them: canonical JSON that all read
alike, in standard base64, edited in whatever the signature does not cover, with no empty or null
payload type, and no key is a certificate (`AsSignedUpTo`). The pool of rows and the key maps are still
any; the theorems are about the lists, and the parts of lists, that satisfy this. Without the conditions
on type, base64 and JSON TLC finds the opposite. They say nothing of what a port does, so what is proved
is that the different decoders, defaults, orders of looking and key loaders make no difference there.

3. `VerifiedAlike`: on such a row all ports find the same reason to refuse it, or none, and read the same
   statement. `RecordedAlike`: what a port records is one common judgement, up to the wording of a
   refusal; Go passes an empty key on to verification, where the others stop, and all refuse.
4. `InStepOnSigned`, inductive together with `AllPortsCount`: the ports have counted the same organs,
   recorded the same judgements and decided alike. `PortsMirror` needs it in this form, without the
   condition that both still run. Theorem `PortsMirror`.
5. `PortsDecideByQuorum`: agreement could be agreement in error. `WireAsSigned`: what `Wire` makes of a
   row of the Python model is such a row. `VerifyAlike`: on it each port's `VerifyIn` is
   `verify_verdict` of the Python model on `FromDict(row)`, one case for each refusal, since the ports
   turn to the checks in different orders; by this, `SupportsOnWire` and `AllPortsCount` each port
   decides as `TallyOutcome` does on the rows before they were put on the wire. No run checks it.

*The harness*, for every roster of four organs or more, every threshold, set of kinds of row, number of
copies and of rounds (`HarnessAssumption`).

1. `RowForCounts`: of the eight kinds of row only a genuine allow counts. One case for each attack:
   a forged signature is no signature, an impersonation is by another key, a tampered payload is not
   the body signed, a replay names another action.
2. `DistinctCountIsExact`: `distinct_witness_tally`, a recursive function over the rows, counts the
   organs with a counting row, in any list: by least counterexample (`LeastElement`) against a closed
   form. `DecisionsSafe`: hence neither it nor `tally` is canonical where the oracle is not, they
   agree on valid quorum counts, and without duplicates the per-verdict tally is as safe.
3. `HarnessIInv`: while the rows of a round are made the i-th is the i-th organ's (`RowsInOrder`, without
   which an organ might count twice unnoticed); the organs that count are those that signed a genuine
   allow, and two counting rows name one organ only after copies were added (`RowsAsMade`); the
   counters (`CountersHold`); each named round is decided on its own rows (`RoundsRecorded`). The shuffle
   keeps `RowsAsMade` because an order is a bijection (`ShuffledRows`).
4. `OracleTrue`, `FuzzReportTrue`; `HardenedIsTally`, where `tally` accepts the quorum counts (run
   `hardened_without_quorum_check` shows that it is false otherwise); `NamedRoundsTrue`, for the default
   threshold of 3, on which the descriptions of the rounds depend: it rests on `NamedCounts`, how many
   rows and organs count in each of the nine.

*The collusion lane*, for any arguments that callers pass, integers or not, and any number of rounds
(`CollusionAssumption`). `LaneIInv` says of the campaign under way that each round so far had the
outcome its colluders decide and that there are not too many, and of the lane that each campaign in
its list is exact and stands at the place of its number of colluders; the two properties are part of
it, since they are about the last result. Theorems `NoChangePasses`, `CountsAreExact`.

`DomainScanProofs` holds for every set of paths, index, work tree, batch size and number of edits
(`ScanAssumption`). `IInv` has four parts: `Files`, types, and that what is still to do comes from
the index; `Sound`, a scan goes on only with sound tools and ends with the exit code of its
violations; `History`, what stands is in the tree now, and what is there or was reported is in
`ever`; `Tracked`, a violation that stands is in a file still to be read, or among the lines found or
matched, or reported. `StandingBlocks` is `Tracked` at the exit; it needs `History` for a file that
is judged, since what stands is still there to be re-read. Theorems
`StandingBlocks`, `ReportsAreReal`, `QuietIsExact`, `FaultsFailClosed`.

*The judgement*, for every source, whatever its length and its tokens. What a guard covers is read off
recursive functions: `Advance`, the stack of open brackets, and `CrossBack`, the walk over a
collection; the reference `Balanced` is one too. Each is shown to have a solution, found one argument
at a time, and claims about it are proved at the least argument that could refute them. A run of code
that `Advance` gets through is a `Reading`: a stack for each of its prefixes. What is on the stack
stays on it as long as the stack does not get shorter (`OpenStays`), the first token to make it
shorter is the closer (`FirstShorter`), and the brackets between two places of one level match
(`LevelIsBalanced`); so a parenthesis that is not on the stack at the key was closed
(`ClosedInBetween`). The walk back from the literal crosses only literals, commas and trivia
(`CrossBackOverData`), so that the parenthesis of a call cannot be among what it crosses, nor be the
opener of the collection, which stands after an operator (`KeyedOutsideCalls`). Theorem
`CallsStayLive`; its only invariant is that the source consists of tokens.

TLC checked each of these inductive invariants on the constants of its run before it was proved.

Model-checked only: liveness (`EveryCallEnds`, `RunsEnd`, `ScanEnds`, and the fairness
part of `ImplementsQuorumDecision`), which is out of the prover's reach; and `WalkFindsKeyed`, that
`GuardJudgement` finds the documented shape and nothing else.

## What the work brought to light

- Go takes an empty `payloadType` for the default and counts the row; Python and TypeScript refuse
  it, and on `null` Python stands alone (`go/consensus.go:169`; line 220 says the tallies mirror
  each other).
- Go decodes base64 strictly, Python and Node pass over stray characters, and Node does without
  padding: a genuine row with a space in its base64 counts in Python and TypeScript and is refused in
  Go (`go/consensus.go:158` and `:163`). At the quorum boundary the decisions differ.
- Go unmarshals the signed statement into a struct: a key in another case sets a field, and a number
  is an error. One signed document can be an allow to Python and TypeScript and a block to Go
  (`go/consensus.go:198`). What each counts is nevertheless signed by the witness as it reads it
  (`EachCountsWhatItReads`). TLC shows this difference and the one before it when `MCDocumentRows` or
  `MCEncodedRows` is the `RowPool` of `ports_differ_on_empty_type`.
- Node's `createPublicKey` takes a certificate, a private key and an RSA key, which Python and Go
  refuse (`index.ts:104`); `ports_side_by_side` has a map with a certificate.
- `distinct_witness_tally` does not check the quorum counts, so at threshold 0 or below it does
  not agree with `tally` as its docstring says (`adversary.py:247` and `:275`).
- `attest` accepts a registry with an empty key or a nameless witness and can return a canonical
  receipt that `verify_receipt` refuses to judge by that registry (`IntactReceiptConfirmed` states
  this exception).
- A policy file that names an organ twice is served by the service with its last entry and
  refused by the CLI (`CliAgreesWithService` states this exception).
- `healthz` says ready for a registry with which every attest raises; only a missing registry
  makes it say otherwise (`HealthTellsTruth` says what its answers do tell).
- Read while modelling, with no run of its own: the release gate takes either form of tag whatever
  the number of packages (`szl_pypi_release_gate.py:154`, against its docstring at 9 and
  `publish-pypi.yml:7`). `TagMatches` is modelled as the code has it.
- Likewise: the domain scan compares only the matched lines with what it re-reads, so another line
  of the file may change unnoticed and decide the verdict (`forbidden_domain_scan.py:569`, against
  the docstring at 36). `StandingViolationBlocks` holds all the same: a violation that nobody
  touches is never lost.
- `add` of a new organ during `attest` can make it raise; a rotated key never does
  (`RaisesOnlyForCause`).
- A wheel whose sdist failed cannot be completed by re-running all jobs, which build again: the
  new wheel is refused. Only "re-run failed jobs", with the old artifact, or a new version can.

## Plan

1. Done: verdict, tally and its proofs; receipts and attestation; ports; harness; service, SDK,
   CLI; spine receipt; collusion lane; release pipeline; domain scan and its judgement.
2. Done: `ReleaseProofs`, the refinement of `IndexHistory` and the invariants about published files.
3. Done: `AttestationProofs`, `ServiceProofs`, `SpineProofs`, `DomainScanProofs`, and `CrossCheckProofs`
   for the ports, the harness and the lane; `DomainScanProofs` with the judgement's calls.

## Not modelled

`demo_witness.py` is a straight-line use of what is modelled. PAE and ECDSA have the effect of the
identity of the bytes signed, and outside `CrossLanguage` so have canonical JSON and base64; that the
three ports' encoders produce the same bytes is a property of text that the shared vectors test, and
which texts their decoders take is left to the libraries. The lexers of the domain scan
(strings, comments, regular expressions, prose), its locator test and its prose guard are functions
of characters alone, without state or interleaving, and longer in TLA+ than in Python. The checks of
the built distributions (twine, metadata, a virtual environment) are calls of other programs. Key
generation, packaging and the report's texts carry no state. The Lean model is not in the
repository.
