---------------------------- MODULE MCPreparation ----------------------------
(***************************************************************************)
(* What is done before the first node is written: Intake, which freezes    *)
(* the goal; Survey, which cuts the source into the spine's units;         *)
(* Planning, which makes the spine the leaves of a tree; Research, which   *)
(* probes for them; and Slicing, which gives a document written without a  *)
(* plan to the leaves of the plan that comes after it.  The phases follow  *)
(* one another and share no variable, so a behaviour follows one of them   *)
(* while the others are at rest.                                           *)
(***************************************************************************)
EXTENDS Survey

CONSTANTS
    MaxUnits, PlanIds, MaxClaims, MaxDeps, DepthCap, NodeCap, TokenBudget,
    Leaves, Shown, Slugs, Questions, MaxSuggested, PerWindow, OperatorPlans, TopUnits,
    Explorers, MaxParallel, MaxBypassed, MaxStops,
    SingleUnits, MaxParts,
    Ids, PerRound, MaxSets, MaxKills

\* The pieces of an identifier; two leaves; no operator's plan, one of web probes and one with
\* a kind that has no tool.
MCIds == {<<"a">>, <<"b">>}
MCNodes == <<"n1", "n2">>
MCProbe(n, s, q, k) == [node |-> n, slug |-> <<s, 1>>, question |-> q, kind |-> k]
MCOperatorPlans ==
    {<<>>,
     <<MCProbe("n1", "s", "q1", "web"), MCProbe("n1", "t", "q1", "web"),
       MCProbe("n2", "s", "q1", "web")>>,
     <<MCProbe("n1", "s", "q1", "web"), MCProbe("n2", "s", "q1", "doc_retrieval")>>}

VARIABLES
    followed,
    spine, stack, nodes, taken, reported,
    run, at, batch, jobs, suggested, inTree, completed, raw, found, attached, bypassed, stops,
    single, cuts, rangeIn, leaf, phase,
    waived, merged, approvals, spec, intake, sets, kills

Plan == INSTANCE Planning WITH Ids <- PlanIds
Probes == INSTANCE Research WITH Nodes <- Leaves, Units <- TopUnits
Slices == INSTANCE Slicing WITH Units <- SingleUnits
Asking == INSTANCE Intake

ASSUME PreparationAssumption ==
    /\ Plan!PlanningAssumption /\ Probes!ResearchAssumption
    /\ Slices!SlicingAssumption /\ Asking!IntakeAssumption

planVars == <<spine, stack, nodes, taken, reported>>
probeVars == <<run, at, batch, jobs, suggested, inTree, completed, raw, found, attached,
               bypassed, stops>>
sliceVars == <<single, cuts, rangeIn, leaf, phase>>
intakeVars == <<waived, merged, approvals, spec, intake, sets, kills>>
allVars == <<followed, surveyVars, planVars, probeVars, sliceVars, intakeVars>>

\* Those that are not followed start in a single state.
MCInit ==
    /\ followed \in {"intake", "survey", "plan", "probes", "slices"}
    /\ IF followed = "survey" THEN Init
       ELSE /\ source = [text |-> <<[tokens |-> MinChunk, mark |-> "none"]>>, model |-> FALSE]
            /\ step = "voting" /\ windows = NoWindows /\ votes = {}
            /\ units = <<>> /\ files = <<>> /\ saved = <<>> /\ crashes = 0
    /\ Plan!Init
    /\ followed # "plan" => spine = [units |-> 0, counted |-> FALSE, code_tiles |-> FALSE]
    /\ IF followed = "slices" THEN Slices!SliceInit
       ELSE /\ single = <<>> /\ cuts = {} /\ rangeIn = <<>> /\ leaf = <<>> /\ phase = "planned"
    /\ Probes!Init
    /\ followed # "probes" => run = [tier |-> "T2", operator |-> <<>>, explores |-> FALSE,
                                     slices |-> FALSE] /\ inTree
    /\ Asking!IntakeInit
    /\ followed # "intake" => waived /\ merged = Asking!NoSet

MCNext ==
    /\ UNCHANGED followed
    /\ \/ followed = "survey" /\ Next
          /\ UNCHANGED <<planVars, probeVars, sliceVars, intakeVars>>
       \/ followed = "plan" /\ Plan!Next
          /\ UNCHANGED <<surveyVars, probeVars, sliceVars, intakeVars>>
       \/ followed = "probes" /\ Probes!Next
          /\ UNCHANGED <<surveyVars, planVars, sliceVars, intakeVars>>
       \/ followed = "slices" /\ Slices!SliceNext
          /\ UNCHANGED <<surveyVars, planVars, probeVars, intakeVars>>
       \/ followed = "intake" /\ Asking!IntakeNext
          /\ UNCHANGED <<surveyVars, planVars, probeVars, sliceVars>>

(* The research driver goes on with what it can do; an episode's budget    *)
(* ends it.  The operator of the intake need not answer.                   *)
MCSpec ==
    /\ MCInit /\ [][MCNext]_allVars
    /\ WF_probeVars(followed = "probes" /\ Probes!Work)

-----------------------------------------------------------------------------
(* From the source to the leaves nothing is lost or given out twice: the   *)
(* spine tiles the source and its files hold it, the leaves tile the spine *)
(* or an event says that they do not, and a document sliced among them is  *)
(* in them once (v2/survey.py, v2/planner.py, driver.py:2656-2660).        *)
EveryUnitOnce ==
    /\ TypeOK /\ SpineTiles /\ SpineIsBacked /\ EveryBoundaryShown
    /\ Plan!TypeOK /\ Plan!TilesSpine
    /\ Slices!NoUnitTwice

(* Probes end, what one of them put into its file reaches the leaf it was  *)
(* for across a kill and a replay, a leaf is pointed to no empty file and  *)
(* no two questions share one (v4/research.py, v4/research_loop.py).       *)
FindingsArrive ==
    /\ [](Probes!TypeOK /\ Probes!AttachedIsFound /\ Probes!OneFilePerQuestion)
    /\ Probes!FiledAnswerArrives
    /\ <>(followed # "probes" \/ at \in {"done", "failed"})

(* The goal is frozen with every assumption stated, across a kill and a    *)
(* resume; nobody has two forms of a round to answer, and nobody silent is *)
(* asked again (v2/intake.py, driver.py _ask_intake_round).                *)
IntakeIsHonest ==
    /\ [](Asking!IntakeTypeOK /\ Asking!NothingUnstated /\ Asking!AskedOnce)
    /\ Asking!SilenceEnds
===============================================================================
