------------------------------ MODULE MCAssembly ------------------------------
(***************************************************************************)
(* What becomes of a finished document: Assembly, on two nodes; the        *)
(* document review; and the benchmark that harvests and scores it.  The    *)
(* three run after one another and share no variable, so a behaviour       *)
(* follows one of them while the others are at rest.                       *)
(***************************************************************************)
EXTENDS Assembly, TLC

CONSTANTS
    n1, n2,
    Size, Window, Stride, Median, MaxItems, MaxEdits, MaxReviews,
    Units, MaxRuns, MaxSweeps, MaxKills

TwoNodes == {n1, n2}
\* One cell of the bare agent and one of the harness, of one task.
Matrix == <<"bare", "harness">>
Bare == {"bare"}

VARIABLES
    followed,
    tier, passed, row, contract, cache, review, cleared, edits, reviews,
    dir, raw, bench, rows, children, sweep, runs, sweeps, kills, cut, escaped

Reviewing == INSTANCE DocReview WITH MaxRuns <- MaxReviews, runs <- reviews
Measuring == INSTANCE Sweep

ASSUME MCAssemblyAssumption == Reviewing!DocReviewAssumption /\ Measuring!SweepAssumption

reviewVars == <<tier, passed, row, contract, cache, review, cleared, edits, reviews>>
sweepVars == <<dir, raw, bench, rows, children, sweep, runs, sweeps, kills, cut, escaped>>
allVars == <<followed, vars, reviewVars, sweepVars>>

\* The one that is not followed starts in a single state.
MCInit ==
    /\ followed \in {"assembly", "review", "sweep"}
    /\ Init /\ Reviewing!Init /\ Measuring!Init
    /\ followed # "assembly" => \A n \in Node : art[n].builds
    /\ followed # "review" => tier = "T2" /\ passed = 1..Size

MCNext ==
    /\ UNCHANGED followed
    /\ \/ followed = "assembly" /\ Next /\ UNCHANGED <<reviewVars, sweepVars>>
       \/ followed = "review" /\ Reviewing!Next /\ UNCHANGED <<vars, sweepVars>>
       \/ followed = "sweep" /\ Measuring!Next /\ UNCHANGED <<vars, reviewVars>>

(* One coroutine assembles, one reviews, one script sweeps; their calls    *)
(* have deadlines.                                                         *)
MCSpec ==
    /\ MCInit /\ [][MCNext]_allVars
    /\ WF_vars(followed = "assembly" /\ Working)
    /\ WF_reviewVars(followed = "review" /\ Reviewing!Work)
    /\ WF_sweepVars(followed = "sweep" /\ Measuring!Steps)

-----------------------------------------------------------------------------
(* A document review that says nothing is wrong has earned it: every two   *)
(* neighbouring rows were shown to one call, it is only skipped on the     *)
(* record of a whole review of what is there now, and a defect it can      *)
(* place in no node is neither repaired over nor recorded as a clean pass  *)
(* (driver.py:2905-2960).                                                  *)
CleanIsEarned ==
    /\ [](Reviewing!TypeOK /\ Reviewing!NeighboursShown)
    /\ Reviewing!SkipIsEarned /\ Reviewing!UnplacedStops

(* A row of the benchmark measures one run: no unit of its text comes from *)
(* an earlier run left in the run directory, in raw/ or in the workspace,  *)
(* and the prediction made from raw/ at the end is the text that was       *)
(* scored (run_longgen_bench.py:333-411, 1065-1141).                       *)
ScoresItsRun ==
    /\ Measuring!TypeOK /\ Measuring!MeasuresItsRun
    /\ Measuring!PredictsWhatItScored /\ Measuring!AttemptsAreRuns

(* Whatever compiles, reviewers and children do, an assembly or a triage   *)
(* that is not killed returns, the review phase ends, the sweep ends.      *)
EverythingReturns ==
    LET AtRest == At("idle") /\ review.at = "idle" /\ sweep.at = "idle"
    IN  ~AtRest ~> AtRest
===============================================================================
