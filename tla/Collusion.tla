------------------------------ MODULE Collusion ------------------------------
(***************************************************************************)
(* The collusion lane (collusion.py): four simulated witnesses, the first   *)
(* `colluders' of which sign whatever they are shown, and a campaign of     *)
(* rounds for each number of colluders.  A hash stands for the payload.     *)
(***************************************************************************)
EXTENDS Integers, FiniteSets, SequencesExt

CONSTANTS
  Asked,     \* what a caller may pass for colluders and rounds
  NotInt,    \* a value that is no integer, True among them
  Amounts,   \* amounts a caller of run_round may commit to
  MaxCalls   \* bound on the calls

ASSUME CollusionAssumption ==
  Asked \subseteq Int \cup {NotInt} /\ Amounts \subseteq Nat /\ MaxCalls \in Nat

VARIABLES
  calls,     \* calls made so far
  running,   \* the campaign under way: colluders, rounds asked for, outcomes so far
  spectrum,  \* the lane's finished campaigns; NoLane outside full_lane
  result     \* what the last call returned

laneVars == <<calls, running, spectrum, result>>

Quorum == 3
WitnessIds == 0 .. 3
Outcomes == {"REPELLED", "QUORUM_BREACH_CHAIN_CAUGHT", "PASSED"}
None == [kind |-> "none"]
NoLane == <<None>>

-----------------------------------------------------------------------------
\* What the witnesses are shown.
Presented(amount, tampered) == IF tampered THEN amount * 100 ELSE amount

\* Defect: an honest witness attests without comparing the hashes.
Attests_Unchecked(colluder, committed, presented) == TRUE

\* attest: an honest witness signs only what was committed.
Attests(colluder, committed, presented) == colluder \/ presented = committed

\* Defect: a majority of the four is taken for the quorum.
RunRound_Majority(colluders, witnesses, amount, tampered) ==
  LET shown == Presented(amount, tampered)
      signers == {w \in witnesses : Attests(w \in colluders, amount, shown)}
  IN  [signers |-> signers, tampered |-> tampered, changed |-> shown # amount,
       outcome |-> IF Cardinality(signers) < Quorum - 1 THEN "REPELLED"
                   ELSE IF shown # amount THEN "QUORUM_BREACH_CHAIN_CAUGHT" ELSE "PASSED"]

\* run_round: the chain catches a change the quorum signed.
RunRound(colluders, witnesses, amount, tampered) ==
  LET shown == Presented(amount, tampered)
      signers == {w \in witnesses : Attests(w \in colluders, amount, shown)}
  IN  [signers |-> signers, tampered |-> tampered, changed |-> shown # amount,
       outcome |-> IF Cardinality(signers) < Quorum THEN "REPELLED"
                   ELSE IF shown # amount THEN "QUORUM_BREACH_CHAIN_CAUGHT" ELSE "PASSED"]

\* The validation of run_campaign; ValueError otherwise.
Admitted(colluders, rounds) ==
  /\ colluders \in Int /\ colluders \in 0 .. 4
  /\ rounds \in Int /\ rounds >= 1

Tally(outcomes, o) == Cardinality({i \in DOMAIN outcomes : outcomes[i] = o})
Campaign(c) == [kind |-> "campaign", colluders |-> c.colluders, rounds |-> c.rounds,
                counts |-> [o \in Outcomes |-> Tally(c.outcomes, o)]]

\* _verdict
Verdict(s, rounds) ==
  IF /\ \A k \in {1, 2} : s[k + 1].counts["REPELLED"] = s[k + 1].rounds
     /\ \A k \in {3, 4} : s[k + 1].counts["QUORUM_BREACH_CHAIN_CAUGHT"] = rounds
  THEN "catches every tamper" ELSE "INCONCLUSIVE"

-----------------------------------------------------------------------------
LaneInit == calls = 0 /\ running = None /\ spectrum = NoLane /\ result = None

Idle == running = None /\ spectrum = NoLane /\ calls < MaxCalls

\* run_round, called on its own with any witnesses and payload.
DirectRound ==
  /\ Idle /\ calls' = calls + 1
  /\ \E witnesses \in SUBSET WitnessIds, amount \in Amounts, tampered \in BOOLEAN :
       \E colluders \in SUBSET witnesses :
         result' = [kind |-> "round", colluders |-> colluders, amount |-> amount,
                    round |-> RunRound(colluders, witnesses, amount, tampered)]
  /\ UNCHANGED <<running, spectrum>>

Begin(colluders, rounds) ==
  IF Admitted(colluders, rounds)
  THEN running' = [kind |-> "running", colluders |-> colluders, rounds |-> rounds,
                   outcomes |-> <<>>] /\ result' = result
  ELSE running' = None /\ result' = [kind |-> "ValueError"]

RunCampaign ==
  /\ Idle /\ calls' = calls + 1
  /\ \E colluders, rounds \in Asked : Begin(colluders, rounds)
  /\ UNCHANGED spectrum

\* full_lane: campaigns of 0, 1, ..., 4 colluders; the first refuses bad rounds.
FullLane ==
  /\ Idle /\ calls' = calls + 1
  /\ \E rounds \in Asked :
       /\ Begin(0, rounds)
       /\ spectrum' = IF Admitted(0, rounds) THEN <<>> ELSE NoLane

\* One round of the campaign: amount 1, tampered if anybody colludes.
NextRound ==
  /\ running # None /\ Len(running.outcomes) < running.rounds
  /\ LET r == RunRound({w \in WitnessIds : w < running.colluders}, WitnessIds, 1,
                       running.colluders > 0)
     IN running' = [running EXCEPT !.outcomes = Append(@, r.outcome)]
  /\ UNCHANGED <<calls, spectrum, result>>

\* The campaign returns, to its caller or to full_lane, which runs the next or returns.
EndCampaign ==
  /\ running # None /\ Len(running.outcomes) >= running.rounds
  /\ IF spectrum = NoLane
     THEN result' = Campaign(running) /\ running' = None /\ spectrum' = NoLane
     ELSE IF Len(spectrum) < 4
     THEN /\ spectrum' = Append(spectrum, Campaign(running))
          /\ running' = [running EXCEPT !.colluders = @ + 1, !.outcomes = <<>>]
          /\ result' = result
     ELSE /\ result' = [kind |-> "lane", rounds |-> running.rounds,
                        spectrum |-> Append(spectrum, Campaign(running)),
                        verdict |-> Verdict(Append(spectrum, Campaign(running)), running.rounds)]
          /\ running' = None /\ spectrum' = NoLane
  /\ calls' = calls

LaneOver == running = None /\ calls = MaxCalls /\ UNCHANGED laneVars

LaneNext == DirectRound \/ RunCampaign \/ FullLane \/ NextRound \/ EndCampaign \/ LaneOver
LaneSpec == LaneInit /\ [][LaneNext]_laneVars

-----------------------------------------------------------------------------
\* A change is signed off by the quorum exactly when at least three of the witnesses of the
\* round collude, and then the committed hash catches it; a flag without a change, as the
\* hundredfold of an amount of 0 is, passes as an honest round does.
ChangesRepelledOrCaught ==
  result.kind = "round" =>
    LET r == result.round
    IN  /\ r.changed => (r.outcome = "REPELLED" <=> Cardinality(result.colluders) < Quorum)
        /\ r.outcome = "PASSED" => ~r.changed
        /\ r.tampered /\ ~r.changed => result.amount = 0

\* Whatever a caller passes, a campaign that returns counted every round it was asked for
\* once, in the one outcome its colluders decide, and never none ("zero or negative rounds
\* cannot produce a result": docs/ADVERSARIAL.md).
Exact(c) ==
  LET expected == IF c.colluders = 0 THEN "PASSED"
                  ELSE IF c.colluders < Quorum THEN "REPELLED"
                  ELSE "QUORUM_BREACH_CHAIN_CAUGHT"
  IN  /\ c.rounds >= 1
      /\ \A o \in Outcomes : c.counts[o] = IF o = expected THEN c.rounds ELSE 0

\* And a lane holds such campaigns of 0 to 4 colluders with the same rounds, so that its
\* verdict is measured and never INCONCLUSIVE.
CountsMeasured ==
  /\ result.kind = "campaign" => Exact(result)
  /\ result.kind = "lane" =>
       /\ result.verdict = "catches every tamper"
       /\ \A k \in 0 .. 4 : /\ Exact(result.spectrum[k + 1])
                            /\ result.spectrum[k + 1].colluders = k
                            /\ result.spectrum[k + 1].rounds = result.rounds
=============================================================================
