------------------------------ MODULE Research ------------------------------
(***************************************************************************)
(* Probes: the structural exploration of _phase_explore, the operator's    *)
(* research plan, and the research phase with the plan it builds           *)
(* (v4/probe_planner.py), all run by v4/research_loop.py and               *)
(* v4/research.py.  A probe is one episode under an id of its own; what it *)
(* answers is read from the file it was told to write, else from its last  *)
(* message, and becomes a finding file; the node it was asked for gets the *)
(* path among its inputs, when the whole plan is done.                     *)
(*                                                                         *)
(* The files are what a resumed run goes by: the completion in             *)
(* events.jsonl, the raw file, the finding, tree.json and probe_plan.json. *)
(* A finding that is there but empty counts as none.                       *)
(***************************************************************************)
EXTENDS Naturals, Sequences, FiniteSets, SequencesExt

CONSTANTS
    Nodes,          \* the leaves of the plan, in tree order
    Shown,          \* candidates in one window of the probe planner
    Slugs, Questions,
    MaxSuggested,   \* suggestions in one answer
    PerWindow,      \* MAX_PROBES_PER_WINDOW
    OperatorPlans,  \* what options.research_plan may be: sequences of probes
    Units,          \* top-level units of the spine
    Explorers,      \* max_explorers_for the tier
    MaxParallel,    \* max_parallel_probes
    MaxBypassed,    \* probes the operator bypasses
    MaxStops        \* kills and failures the run is resumed from

ResearchAssumption ==
    /\ {Shown, PerWindow, MaxParallel} \subseteq Nat \ {0}
    /\ {MaxSuggested, Units, Explorers, MaxBypassed, MaxStops} \subseteq Nat

VARIABLES
    run,        \* tier, operator's plan, needs_explore, spine of slices of the output
    at,         \* the phase, or the place in it
    batch,      \* the probes being run, in order
    jobs,       \* what has become of each
    suggested,  \* probe_plan.json: the one answer in it, or nothing
    inTree,     \* tree.json is there
    completed,  \* episode_completed of a probe
    raw,        \* raw findings written
    found,      \* findings that hold text
    attached,   \* findings named in the inputs of tree.json
    bypassed,   \* probes with a bypass flag
    stops

files == <<completed, raw, found, attached>>
researchVars == <<run, at, batch, jobs, suggested, inTree, files, bypassed, stops>>

Suggestion == [node : Range(Nodes) \cup {"unknown"}, slug : Slugs, question : Questions]

-----------------------------------------------------------------------------
(* The plan of the research phase                                          *)

(* Mutant: a slug that is taken is taken again.                             *)
FreeSlugTaken(plan, s) == <<s.slug, 1>>

(* A probe's file is named by its slug: of two questions under one slug the *)
(* second gets a number.                                                    *)
FreeSlug(plan, s) ==
    LET taken(k) == \E i \in DOMAIN plan : plan[i].node = s.node /\ plan[i].slug = <<s.slug, k>>
    IN  <<s.slug, CHOOSE k \in 1..Len(plan) + 1 : ~taken(k) /\ \A j \in 1..k - 1 : taken(j)>>

\* _merge_into_plan, for one suggestion
Merge(plan, s) ==
    IF \E i \in DOMAIN plan :
            plan[i].node = s.node /\ plan[i].slug = <<s.slug, 1>> /\ plan[i].question = s.question
      THEN plan
      ELSE Append(plan, [node |-> s.node, slug |-> FreeSlug(plan, s), question |-> s.question,
                         kind |-> "web"])

\* What one call may suggest, and what is kept of it for the nodes it was shown.
Answers == SeqOf(Suggestion, MaxSuggested)
Kept(answer, shown) == SelectSeq(answer, LAMBDA s : s.node \in shown)
Capped(answer) == SubSeq(answer, 1, IF Len(answer) < PerWindow THEN Len(answer) ELSE PerWindow)

\* research_plan_from_suggestions
FromPlanCall(answer) == FoldLeft(Merge, <<>>, Kept(answer, Range(Nodes)))

Windows == {k \in DOMAIN Nodes : k % Shown = 1 \/ Shown = 1}
InWindow(k) == Range(SubSeq(Nodes, k, IF k + Shown - 1 < Len(Nodes) THEN k + Shown - 1 ELSE Len(Nodes)))

\* plan_probes: one call for each window.
FromWindows(answers) ==
    FoldLeft(LAMBDA plan, k : FoldLeft(Merge, plan, Capped(Kept(answers[k], InWindow(k)))),
             <<>>, SetToSortSeq(Windows, <))

-----------------------------------------------------------------------------
Key(p) == <<p.node, p.slug>>
Running == {i \in DOMAIN jobs : jobs[i] = "running"}
Ended == \A i \in DOMAIN jobs : jobs[i] \in {"found", "missed"}

Init ==
    /\ run \in [tier : {"T2", "T3"}, operator : OperatorPlans,
                explores : BOOLEAN, slices : BOOLEAN]
    /\ at = "explore" /\ batch = <<>> /\ jobs = <<>> /\ suggested = <<>>
    /\ inTree \in BOOLEAN      \* a tier raised by the operator leaves T1's tree.json
    /\ completed = {} /\ raw = {} /\ found = {} /\ attached = {}
    /\ bypassed = {} /\ stops = 0

Begin(probes, where) ==
    /\ batch' = probes /\ jobs' = [i \in DOMAIN probes |-> "waiting"]
    /\ at' = where

(* _phase_explore, with spine.json there: one probe for each of the largest  *)
(* units, unless the units are slices of the output the goal asks for.      *)
Structural ==
    IF run.slices THEN <<>>
    ELSE [u \in 1..(IF Units < Explorers THEN Units ELSE Explorers) |->
            [node |-> "_explore", slug |-> <<"unit", u>>, question |-> "unit", kind |-> "corpus"]]

Explore ==
    /\ at = "explore"
    /\ IF run.explores THEN Begin(Structural, "exploring")
       ELSE at' = "plan" /\ UNCHANGED <<batch, jobs>>
    /\ UNCHANGED <<run, suggested, inTree, files, bypassed, stops>>

(* run_research_loop loads tree.json before anything else; what it raises for *)
(* want of the file, or of a node the plan names, is no ValueError and ends  *)
(* the run.                                                                 *)
Loads(plan) == inTree /\ \A i \in DOMAIN plan : plan[i].node \in Range(Nodes)
RunPlan(plan, where, next) ==
    IF plan = <<>> THEN at' = next /\ batch' = <<>> /\ jobs' = <<>>
    ELSE IF Loads(plan) THEN Begin(plan, where)
    ELSE at' = "failed" /\ batch' = <<>> /\ jobs' = <<>>

\* The operator's plan is run early, within explore.
ExploreEnds ==
    /\ at = "exploring" /\ Ended
    /\ RunPlan(run.operator, "early", "plan")
    /\ UNCHANGED <<run, suggested, inTree, files, bypassed, stops>>

\* _phase_plan: probe_plan.json, then tree.json; neither when there is a tree.
PlanCall ==
    /\ at = "plan" /\ ~inTree
    /\ \E answer \in Answers : suggested' = <<answer>>
    /\ at' = "save_tree"
    /\ UNCHANGED <<run, batch, jobs, inTree, files, bypassed, stops>>

SaveTree ==
    /\ at = "save_tree" \/ (at = "plan" /\ inTree)
    /\ inTree' = TRUE
    /\ at' = IF run.tier = "T3" THEN "research" ELSE "done"
    /\ UNCHANGED <<run, batch, jobs, suggested, files, bypassed, stops>>

(* _phase_research: the operator's plan, else the plan call's suggestions,   *)
(* else, when no plan call was ever made, the probe planner's windows.      *)
Research ==
    /\ at = "research"
    /\ IF run.operator # <<>> THEN RunPlan(run.operator, "researching", "done")
       ELSE IF suggested # <<>> THEN RunPlan(FromPlanCall(suggested[1]), "researching", "done")
       ELSE \E answers \in [Windows -> Answers] :
                RunPlan(FromWindows(answers), "researching", "done")
    /\ UNCHANGED <<run, suggested, inTree, files, bypassed, stops>>

-----------------------------------------------------------------------------
(* One probe: run_research_query                                           *)

(* Mutant: a probe that came to nothing does not give its slot back.        *)
HeldByTheLost == {i \in DOMAIN jobs : jobs[i] \in {"running", "missed"}}

\* The semaphore, whose waiters are served in order.
Held == Running
Waiting == {i \in DOMAIN jobs : jobs[i] = "waiting"}

(* Mutant: one more than the semaphore has slots.                           *)
NextUpOneMore ==
    {i \in Waiting : (\A j \in Waiting : i <= j) /\ Cardinality(Held) <= MaxParallel}

NextUp == {i \in Waiting : (\A j \in Waiting : i <= j) /\ Cardinality(Held) < MaxParallel}

Set(i, s) == jobs' = [jobs EXCEPT ![i] = s]

(* A kind with no tool is refused when its adapter is built: one at a time   *)
(* that is when its turn comes; in parallel at once, and the other probes    *)
(* go on, but nobody waits for them.                                        *)
Refused(i) == batch[i].kind = "doc_retrieval"
Refuse ==
    /\ \E i \in Waiting : Refused(i) /\ (MaxParallel > 1 \/ (i \in NextUp /\ Running = {}))
    /\ at' = IF at = "early" THEN "plan" ELSE "done"
    /\ batch' = <<>> /\ jobs' = <<>>
    /\ UNCHANGED <<run, suggested, inTree, files, bypassed, stops>>

(* The cached finding, a bypass, the replay of a recorded episode (which has *)
(* no message any more), or an episode.                                     *)
StartProbe ==
    /\ MaxParallel = 1 => Running = {}
    /\ \E i \in NextUp :
        /\ ~Refused(i)
        /\ Set(i, IF Key(batch[i]) \in found THEN "found"
                  ELSE IF Key(batch[i]) \in bypassed THEN "missed"
                  ELSE IF Key(batch[i]) \in completed THEN "silent" ELSE "running")
    /\ UNCHANGED <<run, at, batch, suggested, inTree, files, bypassed, stops>>

(* The episode ends: with its answer in the file, with a message only, or    *)
(* with nothing, which a trace in place of a message also counts as.        *)
EpisodeEnds ==
    /\ \E i \in Running :
        /\ completed' = completed \cup {Key(batch[i])}
        /\ \/ Set(i, "silent") /\ raw' \in {raw, raw \cup {Key(batch[i])}}
           \/ Set(i, "said") /\ UNCHANGED raw
    /\ UNCHANGED <<run, at, batch, suggested, inTree, found, attached, bypassed, stops>>

(* Mutant: what the episode returned is all that is looked at.              *)
HasTextReturned(i) == jobs[i] = "said"

HasText(i) == jobs[i] = "said" \/ Key(batch[i]) \in raw

WriteFinding ==
    /\ \E i \in DOMAIN jobs :
        /\ jobs[i] \in {"said", "silent"}
        /\ found' = IF HasText(i) THEN found \cup {Key(batch[i])} ELSE found
        /\ Set(i, IF HasText(i) THEN "found" ELSE "missed")
    /\ UNCHANGED <<run, at, batch, suggested, inTree, completed, raw, attached, bypassed, stops>>

(* Mutant: a finding is attached before its gate is looked at.              *)
AttachableAny == DOMAIN jobs

\* attach_finding: the gate is that it is not empty.
Attachable == {i \in DOMAIN jobs : jobs[i] = "found"}

\* The end of run_research_loop: only now is tree.json written.
SaveFindings ==
    /\ at \in {"early", "researching"} /\ Ended
    /\ attached' = attached \cup {Key(batch[i]) : i \in Attachable}
    /\ at' = IF at = "early" THEN "plan" ELSE "done"
    /\ batch' = <<>> /\ jobs' = <<>>
    /\ UNCHANGED <<run, suggested, inTree, completed, raw, found, bypassed, stops>>

-----------------------------------------------------------------------------
(* The operator sets the bypass flag of a probe; it is read when the probe's  *)
(* turn comes.                                                              *)
Bypass ==
    /\ Cardinality(bypassed) < MaxBypassed
    /\ \E i \in Waiting :
        /\ Key(batch[i]) \notin bypassed
        /\ bypassed' = bypassed \cup {Key(batch[i])}
    /\ UNCHANGED <<run, at, batch, jobs, suggested, inTree, files, stops>>

(* A run that failed or was killed, perhaps after a probe had written its    *)
(* file, is resumed: explore is taken to be done, as its spine is there, and *)
(* research is run again.                                                   *)
Resume ==
    /\ at # "done" /\ stops < MaxStops
    /\ stops' = stops + 1
    /\ at' = IF inTree /\ run.tier = "T3" THEN "research" ELSE "plan"
    /\ \E answered \in SUBSET Running : raw' = raw \cup {Key(batch[i]) : i \in answered}
    /\ batch' = <<>> /\ jobs' = <<>>
    /\ UNCHANGED <<run, suggested, inTree, completed, found, attached, bypassed>>

Work ==
    \/ Explore \/ ExploreEnds \/ PlanCall \/ SaveTree \/ Research
    \/ Refuse \/ StartProbe \/ EpisodeEnds \/ WriteFinding \/ SaveFindings

Next == Work \/ Bypass \/ Resume

-----------------------------------------------------------------------------
TypeOK ==
    /\ at \in {"explore", "exploring", "early", "plan", "save_tree", "research", "researching",
               "done", "failed"}
    /\ Cardinality(Running) <= MaxParallel
    /\ DOMAIN jobs = DOMAIN batch
    /\ found \subseteq completed

(* An answer that a probe has put into its file reaches the node it was      *)
(* asked for, whatever was killed and replayed between the episode and the   *)
(* save (v4/research.py:29-36).                                             *)
FiledAnswerArrives ==
    [][(SaveFindings) => \A i \in DOMAIN batch :
            Key(batch[i]) \in raw \ bypassed => Key(batch[i]) \in attached']_researchVars

(* tree.json names only findings that hold text: no node is pointed to       *)
(* nothing (attach_finding).                                                *)
AttachedIsFound == attached \subseteq found

(* Two questions of a plan the harness built never share a finding file.     *)
OneFilePerQuestion ==
    run.operator = <<>> =>
        \A i, j \in DOMAIN batch : Key(batch[i]) = Key(batch[j]) => i = j
=============================================================================
