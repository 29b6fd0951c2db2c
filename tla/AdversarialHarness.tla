------------------------- MODULE AdversarialHarness -------------------------
(***************************************************************************)
(* run_adversarial_suite (python/khipu_consensus/adversary.py): nine named  *)
(* rounds and a fuzz loop put the shipped tally, the "hardened" tally and   *)
(* the historical per-verdict tally beside an oracle.  The random generator *)
(* becomes a free choice; the counters and flags of the report are state.   *)
(***************************************************************************)
EXTENDS KhipuVerdict, SequencesExt

CONSTANTS
  OrganList,    \* the organs, in order; the named rounds use the first four
  Keys,         \* the throwaway key pair of each organ
  AttackerPem,  \* and the one nobody registered
  ActionA,
  ActionB,
  Threshold,
  Batteries     \* the fuzz loops to run: [choices, copies, rounds]

AllChoices == {"allow", "block", "silent", "forged", "impersonation",
               "action_mismatch", "payload_tamper", "replay"}

ASSUME HarnessAssumption ==
  /\ OrganList \in Seq(Organs) /\ Len(OrganList) >= 4 /\ IsInjective(OrganList)
  /\ Keys \in [ToSet(OrganList) -> Pems]
  /\ AttackerPem \in Pems \ {Keys[o] : o \in DOMAIN Keys}
  /\ {ActionA, ActionB} \subseteq Actions /\ ActionA # ActionB
  /\ Threshold \in Int
  /\ Batteries \subseteq [choices : SUBSET AllChoices, copies : Nat, rounds : Nat]

VARIABLES
  battery,   \* what the fuzz loop may do for an organ, how many copies of a row it may add
             \* (3 in the code), and its number of rounds
  phase,     \* "named", "rows", "shuffle", "judge", "next" or "report"
  named,     \* named rounds already run
  decided,   \* for each named round, how the three tallies decided it
  round,     \* fuzz rounds already judged
  verdicts,  \* the rows of the current round
  genuine,   \* used_genuine: the organs whose row is a genuine allow
  stuffed,   \* had_duplicate
  found      \* safety violations counted so far

vars == <<battery, phase, named, decided, round, verdicts, genuine, stuffed, found>>

N == Len(OrganList)

-----------------------------------------------------------------------------
(* Rows.                                                                    *)

Allow(o, action) == SignVerdict(o, action, "allow", Keys[o])
Block(o) == SignVerdict(o, ActionA, "block", Keys[o])

\* forged_signature_verdict: the right statement under random signature bytes.
Forged(o) == [Allow(o, ActionA) EXCEPT !.signature = Junk]

\* impersonation_verdict
Impersonation(o) == SignVerdict(o, ActionA, "allow", AttackerPem)

\* Defect: the edited payload is signed again.
Tampered_Resigned(row) ==
  [row EXCEPT !.payload.verdict = "allow", !.signature.body.verdict = "allow"]

\* tamper_verdict, flipping the verdict under the original signature.
Tampered(row) == [row EXCEPT !.payload.verdict = "allow"]

\* The row the fuzz loop makes of a choice; equivocation_verdict and replay_verdict both
\* bring a genuine allow of the other action.
RowFor(choice, o) ==
  CASE choice = "allow"           -> Allow(o, ActionA)
    [] choice = "block"           -> Block(o)
    [] choice = "silent"          -> Abstain
    [] choice = "forged"          -> Forged(o)
    [] choice = "impersonation"   -> Impersonation(o)
    [] choice = "payload_tamper"  -> Tampered(Block(o))
    [] choice \in {"action_mismatch", "replay"} -> Allow(o, ActionB)

-----------------------------------------------------------------------------
(* The three tallies and the oracle, over ActionA and the registered keys.  *)

RowCounts(item) ==
  /\ item # Abstain
  /\ PubkeyOf(Keys, item.organ) # NoPem
  /\ VerifyVerdict(FromDict(item), PubkeyOf(Keys, item.organ), ActionA).counts

CountingRows(rows) == {i \in DOMAIN rows : RowCounts(rows[i])}

DecideBy(count) == IF count >= Threshold THEN "canonical" ELSE "rejected"

\* honest_allow_count
HonestAllowCount(rows) == Cardinality({rows[i].organ : i \in CountingRows(rows)})

\* naive_perverdict_tally
NaiveDecision(rows) == DecideBy(Cardinality(CountingRows(rows)))

\* tally
CoreDecision(rows) == TallyOutcome(ActionA, rows, Keys, Threshold, N).decision

\* Defect: only the organ that counted last is remembered.
CountItem_LastOnly(sum, item) ==
  IF ~RowCounts(item) \/ item.organ \in sum.counted THEN sum
  ELSE [counted |-> {item.organ}, count |-> sum.count + 1]

\* The body of distinct_witness_tally's own loop,
CountItem(sum, item) ==
  IF ~RowCounts(item) \/ item.organ \in sum.counted THEN sum
  ELSE [counted |-> sum.counted \cup {item.organ}, count |-> sum.count + 1]

\* and the loop.
DistinctCount(rows) ==
  LET sum[i \in 0 .. Len(rows)] ==
        IF i = 0 THEN [counted |-> {}, count |-> 0] ELSE CountItem(sum[i - 1], rows[i])
  IN  sum[Len(rows)].count

HardenedDecision(rows) == DecideBy(DistinctCount(rows))

\* safety_holds, for one decision about these rows.
SafetyHolds(decision, rows) ==
  ~(decision = "canonical" /\ HonestAllowCount(rows) < Threshold)

Decisions(rows) == [naive    |-> NaiveDecision(rows),
                    core     |-> CoreDecision(rows),
                    hardened |-> HardenedDecision(rows)]

-----------------------------------------------------------------------------
(* The nine named rounds, in order.  Seven of them are two genuine allows   *)
(* followed by what the third and the fourth organ bring.                   *)

TwoAllowsAnd(choice) ==
  [i \in 1..4 |-> RowFor(IF i <= 2 THEN "allow" ELSE choice, OrganList[i])]

NamedRounds ==
  << [attack |-> "none",            rows |-> [i \in 1..N |-> RowFor("allow", OrganList[i])]],
     [attack |-> "none",
      rows   |-> [i \in 1..4 |-> RowFor(IF i <= 3 THEN "allow" ELSE "block", OrganList[i])]],
     [attack |-> "silent",          rows |-> TwoAllowsAnd("silent")],
     [attack |-> "forged",          rows |-> TwoAllowsAnd("forged")],
     [attack |-> "impersonation",   rows |-> TwoAllowsAnd("impersonation")],
     [attack |-> "action_mismatch", rows |-> TwoAllowsAnd("action_mismatch")],
     [attack |-> "payload_tamper",  rows |-> TwoAllowsAnd("payload_tamper")],
     [attack |-> "replay",          rows |-> TwoAllowsAnd("replay")],
     [attack |-> "duplicate_stuffing",
      rows   |-> [i \in 1..3 |-> Allow(OrganList[1], ActionA)]] >>

Init ==
  /\ battery \in Batteries
  /\ phase = "named"
  /\ named = 0
  /\ decided = <<>>
  /\ round = 0
  /\ verdicts = <<>>
  /\ genuine = {}
  /\ stuffed = FALSE
  /\ found = [naive |-> 0, core |-> 0, hardened |-> 0, withDup |-> 0]

\* _scenario, on the next named round
RunNamed ==
  /\ phase = "named"
  /\ named < Len(NamedRounds)
  /\ named' = named + 1
  /\ decided' = Append(decided, Decisions(NamedRounds[named + 1].rows))
  /\ UNCHANGED <<battery, phase, round, verdicts, genuine, stuffed, found>>

\* The head of the fuzz loop.
BeginRound ==
  /\ \/ phase = "named" /\ named = Len(NamedRounds)
     \/ phase = "next"
  /\ round < battery.rounds
  /\ phase' = "rows"
  /\ verdicts' = <<>>
  /\ genuine' = {}
  /\ stuffed' = FALSE
  /\ UNCHANGED <<battery, named, decided, round, found>>

\* One organ's choice.
AddRow ==
  /\ phase = "rows"
  /\ Len(verdicts) < N
  /\ LET o == OrganList[Len(verdicts) + 1]
     IN  \E choice \in battery.choices :
           /\ verdicts' = Append(verdicts, RowFor(choice, o))
           /\ genuine' = IF choice = "allow" THEN genuine \cup {o} ELSE genuine
  /\ UNCHANGED <<battery, phase, named, decided, round, stuffed, found>>

AllRows == phase = "rows" /\ Len(verdicts) = N

NoStuffing ==
  /\ AllRows
  /\ phase' = "shuffle"
  /\ UNCHANGED <<battery, named, decided, round, verdicts, genuine, stuffed, found>>

\* Defect: a single copy is not noted as a duplicate.
Stuff_NoteSeveral ==
  /\ AllRows
  /\ \E victim \in genuine, copies \in 1..battery.copies :
       /\ verdicts' = verdicts \o [i \in 1..copies |-> Allow(victim, ActionA)]
       /\ stuffed' = (copies > 1)
  /\ phase' = "shuffle"
  /\ UNCHANGED <<battery, named, decided, round, genuine, found>>

\* Copies of one genuine allow.
Stuff ==
  /\ AllRows
  /\ \E victim \in genuine, copies \in 1..battery.copies :
       verdicts' = verdicts \o [i \in 1..copies |-> Allow(victim, ActionA)]
  /\ stuffed' = TRUE
  /\ phase' = "shuffle"
  /\ UNCHANGED <<battery, named, decided, round, genuine, found>>

\* The orders a shuffle can bring about: Permutations lists the bijections of a set.
Orders(S) == Permutations(S) \cap Bijection(S, S)

\* rng.shuffle
Shuffle ==
  /\ phase = "shuffle"
  /\ \E p \in Orders(DOMAIN verdicts) :
       verdicts' = [i \in DOMAIN verdicts |-> verdicts[p[i]]]
  /\ phase' = "judge"
  /\ UNCHANGED <<battery, named, decided, round, genuine, stuffed, found>>

JudgeRound ==
  /\ phase = "judge"
  /\ LET decision == Decisions(verdicts)
         Unsafe(tallyFn) == IF SafetyHolds(decision[tallyFn], verdicts) THEN 0 ELSE 1
     IN  found' = [naive    |-> found.naive + Unsafe("naive"),
                   core     |-> found.core + Unsafe("core"),
                   hardened |-> found.hardened + Unsafe("hardened"),
                   withDup  |-> found.withDup + (IF stuffed THEN Unsafe("naive") ELSE 0)]
  /\ round' = round + 1
  /\ phase' = "next"
  /\ UNCHANGED <<battery, named, decided, verdicts, genuine, stuffed>>

Report ==
  /\ \/ phase = "named" /\ named = Len(NamedRounds)
     \/ phase = "next"
  /\ round = battery.rounds
  /\ phase' = "report"
  /\ UNCHANGED <<battery, named, decided, round, verdicts, genuine, stuffed, found>>

\* The report's core_all_safe and hardened_all_safe, and the exit code _main makes of it.
AllSafe(tallyFn) ==
  \A i \in 1..named : SafetyHolds(decided[i][tallyFn], NamedRounds[i].rows)
MainExit ==
  IF /\ AllSafe("core") /\ AllSafe("hardened")
     /\ found.core = 0 /\ found.hardened = 0
  THEN 0 ELSE 1

Terminating == phase = "report" /\ UNCHANGED vars

Next == \/ RunNamed \/ BeginRound \/ AddRow \/ NoStuffing \/ Stuff
        \/ Shuffle \/ JudgeRound \/ Report \/ Terminating

Spec == Init /\ [][Next]_vars

-----------------------------------------------------------------------------
(* Properties.                                                              *)

\* The battery's descriptions come true: the two rounds without an attack are canonical,
\* every attack is rejected by the shipped and the hardened tally, and duplicate stuffing is
\* the one attack that fools the per-verdict tally.
NamedRoundsAsDescribed ==
  \A i \in DOMAIN decided :
    LET attack == NamedRounds[i].attack
        right  == IF attack = "none" THEN "canonical" ELSE "rejected"
    IN  /\ decided[i].core = right /\ decided[i].hardened = right
        /\ (decided[i].naive # right) <=> (attack = "duplicate_stuffing")

\* The report's fuzz counters: no choice of rows, copies and order gets a false canonical
\* past the shipped tally or the hardened one, so that the command line ends with exit code 0
\* whatever the seed; and whenever the per-verdict tally is fooled, copies of a genuine row
\* were added in that round (fuzz_naive_violations_all_from_duplicate_stuffing).
ShippedTallySafe == found.core = 0 /\ found.hardened = 0
                    /\ (phase = "report" => MainExit = 0)
NaiveGapFromDuplicates == found.naive = found.withDup
FuzzReportHolds == ShippedTallySafe /\ NaiveGapFromDuplicates

\* The oracle honest_allow_count, which reads keys and signatures, finds exactly the organs
\* for which the round signed a genuine allow, and counts each once, whatever the other rows,
\* copies and order.
OracleIsTruth ==
  phase = "judge" =>
    /\ {verdicts[i].organ : i \in CountingRows(verdicts)} = genuine
    /\ HonestAllowCount(verdicts) = Cardinality(genuine)

\* The docstring of distinct_witness_tally: it agrees with the shipped tally.
HardenedAgrees == phase = "judge" => HardenedDecision(verdicts) = CoreDecision(verdicts)
=============================================================================
