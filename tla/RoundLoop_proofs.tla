--------------------------- MODULE RoundLoop_proofs ---------------------------
(***************************************************************************)
(* Theorems about RoundLoop, for every task tree and every value of its    *)
(* constants, in three parts.                                              *)
(*                                                                         *)
(* For every run: type correctness, and that a node only awaits review or  *)
(* has passed on an artifact that earned it.                               *)
(*                                                                         *)
(* For a run whose tree no operator writes (Unedited), through every       *)
(* crash, resume, replay and restore: memory is the disk at every await,   *)
(* the attempt budget, dependency order and split bookkeeping hold, and    *)
(* the durable tree follows the abstract life cycle.  One inductive        *)
(* invariant, LoopInv, says where jobs may be and what they own.  From it  *)
(* follows DiskSteps: tree.json only ever changes by a wave, a split, a    *)
(* writer's outcome or a verdict.                                          *)
(*                                                                         *)
(* For a tree that an operator edits during the run: what has passed is    *)
(* kept, and no node is left ready or in flight behind the loop's back.    *)
(***************************************************************************)
EXTENDS RoundLoop, FiniteSetTheorems, TLAPS

-----------------------------------------------------------------------------
(* The operators preserve types. *)

LEMMA TransitionTypes ==
    ASSUME NEW s \in NodeState
    PROVE  /\ Charge(s) \in NodeState
           /\ Accept(s) \in NodeState
           /\ Requeue(s) \in NodeState
           /\ \A o : NonAttempt(s, o) \in NodeState
<1>1. /\ s.attempts + 1 \in Nat /\ s.nonAttempts + 1 \in Nat
      /\ "pending" \in Status /\ "blocked" \in Status /\ "awaiting_review" \in Status
      /\ "none" \in Defect /\ "other" \in Defect /\ "throttled" \in Defect
      /\ "provider" \in Defect
  BY DEF NodeState, Status, InFlightStatus, Defect
<1>2. Charge(s) \in NodeState
  BY <1>1 DEF Charge, NodeState
<1>3. Accept(s) \in NodeState
  BY <1>1 DEF Accept, NodeState
<1>4. Requeue(s) \in NodeState
  BY <1>1 DEF Requeue, NodeState
<1>5. ASSUME NEW o PROVE NonAttempt(s, o) \in NodeState
  <2> DEFINE count == IF o.art.units > o.prior.units THEN 1 ELSE s.nonAttempts + 1
             down  == NonAttemptCapReached(count, o.streakOld /\ count > 1)
  <2>1. count \in Nat
    BY <1>1
  <2>2. (IF down THEN "blocked" ELSE "pending") \in Status
    BY <1>1
  <2>3. (IF down THEN "provider" ELSE IF o.status = "throttled" THEN "throttled" ELSE "other")
          \in Defect
    BY <1>1
  <2> HIDE DEF down, count
  <2>4. [s EXCEPT !.nonAttempts = count,
                  !.status = IF down THEN "blocked" ELSE "pending",
                  !.defect = IF down THEN "provider"
                             ELSE IF o.status = "throttled" THEN "throttled" ELSE "other"]
          \in NodeState
    BY <2>1, <2>2, <2>3 DEF NodeState
  <2> QED
    BY <2>4 DEF NonAttempt, down, count
<1> QED
  BY <1>2, <1>3, <1>4, <1>5

LEMMA AfterWriterType ==
    ASSUME NEW s \in NodeState, NEW o
    PROVE  AfterWriter(s, o).node \in NodeState
<1> DEFINE base == [s EXCEPT !.nudges = 0,
                             !.nonAttempts = IF o.status \in NonAttemptStatus THEN @ ELSE 0]
<1>1. base \in NodeState
  BY DEF NodeState
<1> HIDE DEF base
<1>2. [Requeue(base) EXCEPT !.nudges = s.nudges + 1] \in NodeState
  <2>1. Requeue(base) \in NodeState
    BY <1>1, TransitionTypes
  <2>2. s.nudges + 1 \in Nat
    BY DEF NodeState
  <2> HIDE DEF base
  <2> QED
    BY <2>1, <2>2 DEF NodeState
<1>3. /\ Charge(base) \in NodeState /\ Accept(base) \in NodeState
      /\ Requeue(base) \in NodeState /\ NonAttempt(base, o) \in NodeState
  BY <1>1, TransitionTypes
<1> QED
  BY <1>2, <1>3 DEF AfterWriter, base

LEMMA AfterReviewType ==
    ASSUME NEW s \in NodeState, NEW verdict
    PROVE  AfterReview(s, verdict).node \in NodeState
BY TransitionTypes DEF AfterReview, NodeState, Status, InFlightStatus, Defect

LEMMA SyncTreeType ==
    ASSUME NEW m \in [Node -> NodeState], NEW d \in [Node -> NodeState], NEW skip
    PROVE  SyncTree(m, d, skip) \in [Node -> NodeState]
<1>1. ASSUME NEW n \in Node PROVE SyncNode(m[n], d[n]) \in NodeState
  BY DEF SyncNode, NodeState, Status, InFlightStatus, Defect
<1> QED
  BY <1>1 DEF SyncTree

LEMMA MarkedType ==
    ASSUME NEW t \in [Node -> NodeState], NEW S
    PROVE  Marked(t, S) \in [Node -> NodeState]
BY DEF Marked, NodeState, Status, InFlightStatus

LEMMA GraftType ==
    ASSUME NEW t \in [Node -> NodeState], NEW n \in Node
    PROVE  Graft(t, n) \in [Node -> NodeState]
BY DEF Graft, FreshNode, NodeState, Status, InFlightStatus, Defect

LEMMA WaveOutcomeType ==
    ASSUME cap \in 1..MaxParallel, NEW throttled
    PROVE  WaveOutcome(throttled) \in 1..MaxParallel
BY LoopAssumption DEF WaveOutcome

LEMMA ArtifactTypes ==
    /\ EmptyArtifact \in Artifact
    /\ [units |-> Units, ok |-> TRUE] \in Artifact
BY BudgetAssumption DEF Artifact, EmptyArtifact

LEMMA WriterLeavesType ==
    ASSUME TypeOK, NEW S, WriterLeaves(S)
    PROVE  art' \in [Node -> Artifact] /\ proposal' \in [Node -> {"none", "good", "bad"}]
BY DEF TypeOK, WriterLeaves

LEMMA EditedType ==
    ASSUME NEW kind \in EditKinds \ {"bypass", "halt"}, NEW node \in NodeState
    PROVE  Edited(kind, node) \in NodeState
BY LoopAssumption DEF Edited, NodeState, Status, InFlightStatus, Defect

-----------------------------------------------------------------------------
(* Type correctness. *)

LEMMA InitialTreeType == InitialTree \in [Node -> NodeState]
BY DEF InitialTree, AbsentNode, FreshNode, NodeState, Status, InFlightStatus, Defect

LEMMA SyncedType ==
    ASSUME TypeOK PROVE Synced \in [Node -> NodeState]
BY SyncTreeType DEF TypeOK, Synced

LEMMA SaveType ==
    ASSUME TypeOK, NEW t \in [Node -> NodeState], Save(t)
    PROVE  mem' \in [Node -> NodeState] /\ disk' \in [Node -> NodeState]
BY SyncTreeType DEF TypeOK, Save

LEMMA TypeInit == Init => TypeOK
<1> SUFFICES ASSUME Init PROVE TypeOK
  OBVIOUS
<1>1. disk \in [Node -> NodeState] /\ mem \in [Node -> NodeState]
  BY InitialTreeType DEF Init
<1>2. art \in [Node -> Artifact] /\ prior \in [Node -> Artifact]
  BY ArtifactTypes DEF Init
<1>3. job \in [Node -> JobStage] /\ loop \in LoopStage
  BY DEF Init, JobStage, LoopStage
<1>4. rounds \in Nat /\ cap \in 1..MaxParallel /\ edit \in Edit \cup {NoEdit}
  BY LoopAssumption DEF Init
<1> QED
  BY <1>1, <1>2, <1>3, <1>4 DEF Init, TypeOK

LEMMA CommitType ==
    ASSUME TypeOK, NEW tree, NEW S, Commit(tree, S)
    PROVE  /\ rounds' \in Nat /\ noNewWork' \in BOOLEAN
           /\ job' \in [Node -> JobStage] /\ loop' \in LoopStage
<1>1. rounds' \in Nat
  BY DEF Commit, TypeOK
<1>2. noNewWork' \in BOOLEAN
  <2>1. noNewWork' = (rounds' >= MaxRounds)
    BY DEF Commit
  <2>2. (rounds' >= MaxRounds) \in BOOLEAN
    BY <1>1, LoopAssumption
  <2> QED
    BY <2>1, <2>2
<1>3. job' \in [Node -> JobStage] /\ loop' \in LoopStage
  BY DEF Commit, TypeOK, JobStage, LoopStage
<1> QED
  BY <1>1, <1>2, <1>3

LEMMA TypeScheduling == TypeOK /\ Scheduling => TypeOK'
<1> SUFFICES ASSUME TypeOK, Scheduling PROVE TypeOK'
  OBVIOUS
<1> USE DEF durable, scheduler, counters
<1>1. ASSUME NEW n \in Node, Admit(n) PROVE TypeOK'
  BY <1>1 DEF TypeOK, Admit, JobStage, LoopStage
<1>2. ASSUME DecideStop \/ DecideSkip PROVE TypeOK'
  BY <1>2 DEF TypeOK, DecideStop, DecideSkip, LoopStage
<1>3. ASSUME DecideTerminal \/ DecideNothing \/ DecideAsk PROVE TypeOK'
  BY <1>3, SyncedType DEF TypeOK, DecideTerminal, DecideNothing, DecideAsk, LoopStage
<1>4. ASSUME DecideForced PROVE TypeOK'
  <2>1. mem' \in [Node -> NodeState] /\ disk' \in [Node -> NodeState]
    BY <1>4, SaveType, MarkedType, SyncedType DEF DecideForced
  <2> QED
    <3>1. Commit(mem', Offered(Synced))
      BY <1>4 DEF DecideForced
    <3> QED
      BY <1>4, <2>1, <3>1, CommitType DEF TypeOK, DecideForced
<1>5. ASSUME AnswerHalted \/ AnswerWait PROVE TypeOK'
  BY <1>5 DEF TypeOK, AnswerHalted, AnswerWait, LoopStage
<1>6. ASSUME AnswerDispatch PROVE TypeOK'
  <2>1. PICK S \in (SUBSET Offered(mem)) \ {{}} :
           /\ \E first \in S :
                 LET saved == SyncTree(Marked(mem, {first}), disk, {})
                 IN  mem' = SyncTree(Marked(saved, S \ {first}), saved, {})
           /\ disk' = mem'
           /\ Commit(mem, S)
    BY <1>6 DEF AnswerDispatch
  <2>2. PICK first \in S :
           mem' = SyncTree(Marked(SyncTree(Marked(mem, {first}), disk, {}), S \ {first}),
                           SyncTree(Marked(mem, {first}), disk, {}), {})
    BY <2>1
  <2>3. SyncTree(Marked(mem, {first}), disk, {}) \in [Node -> NodeState]
    BY MarkedType, SyncTreeType DEF TypeOK
  <2>4. mem' \in [Node -> NodeState] /\ disk' \in [Node -> NodeState]
    BY <2>1, <2>2, <2>3, MarkedType, SyncTreeType
  <2> QED
    BY <1>6, <2>1, <2>4, CommitType DEF TypeOK, AnswerDispatch
<1>7. ASSUME Rest \/ Reap PROVE TypeOK'
  BY <1>7 DEF TypeOK, Rest, Reap, JobStage, LoopStage
<1> QED
  BY <1>1, <1>2, <1>3, <1>4, <1>5, <1>6, <1>7 DEF Scheduling

LEMMA TypeWorking ==
    ASSUME TypeOK, NEW n \in Node, Working(n) \/ JobRaises(n) PROVE TypeOK'
<1> USE DEF durable, scheduler, counters
<1>0. ASSUME NEW tree PROVE ToReview(n, tree) \in JobStage
  BY DEF ToReview, JobStage
<1>1. ASSUME JobShortcut(n) PROVE TypeOK'
  <2>1. [mem EXCEPT ![n].status = "awaiting_review"] \in [Node -> NodeState]
    BY DEF TypeOK, NodeState, Status, InFlightStatus
  <2>2. mem' \in [Node -> NodeState] /\ disk' \in [Node -> NodeState]
    BY <1>1, <2>1, SaveType DEF JobShortcut
  <2> QED
    BY <1>0, <1>1, <2>2 DEF TypeOK, JobShortcut, Move
<1>2. ASSUME JobRecall(n) PROVE TypeOK'
  BY <1>2 DEF TypeOK, JobRecall, Move, JobStage
<1>3. ASSUME JobBypassed(n) PROVE TypeOK'
  BY <1>3 DEF TypeOK, JobBypassed, Move, JobStage, EpisodeStatus
<1>4. ASSUME JobEpisode(n) PROVE TypeOK'
  BY <1>4, LoopAssumption DEF TypeOK, JobEpisode, Move, JobStage
<1>5. ASSUME EpisodeEnds(n) PROVE TypeOK'
  BY <1>5, WriterLeavesType DEF TypeOK, EpisodeEnds, Move, JobStage
<1>6. ASSUME JobRaises(n) PROVE TypeOK'
  BY <1>6, WriterLeavesType DEF TypeOK, JobRaises, Move, JobStage
<1>7. ASSUME SettleSplit(n) PROVE TypeOK'
  <2>1. mem' \in [Node -> NodeState]
    BY <1>7, GraftType DEF TypeOK, SettleSplit, NodeState, Status
  <2> QED
    BY <1>7, <2>1, WaveOutcomeType DEF TypeOK, SettleSplit, Move, JobStage
<1>8. ASSUME SettleConflict(n) PROVE TypeOK'
  <2>1. [mem EXCEPT ![n].status = "pending", ![n].defect = "other"] \in [Node -> NodeState]
    <3>1. [mem EXCEPT ![n].status = "pending"] \in [Node -> NodeState]
      BY DEF TypeOK, NodeState, Status
    <3> QED
      BY <3>1 DEF NodeState, Defect
  <2>2. mem' \in [Node -> NodeState] /\ disk' \in [Node -> NodeState]
    BY <1>8, <2>1, SaveType DEF SettleConflict
  <2> QED
    BY <1>8, <2>2, WaveOutcomeType DEF TypeOK, SettleConflict, Move, JobStage
<1>9. ASSUME SettleGates(n) PROVE TypeOK'
  <2>1. mem' \in [Node -> NodeState] /\ rec' \in [Node -> EpisodeStatus \cup {"none"}]
        /\ art' \in [Node -> Artifact]
    BY <1>9, AfterWriterType DEF TypeOK, SettleGates
  <2> QED
    BY <1>9, <2>1 DEF TypeOK, SettleGates, Move, JobStage
<1>10. ASSUME SaveSettled(n) PROVE TypeOK'
  <2>1. mem' \in [Node -> NodeState] /\ disk' \in [Node -> NodeState]
    BY <1>10, SaveType DEF SaveSettled, TypeOK
  <2> QED
    BY <1>0, <1>10, <2>1, WaveOutcomeType DEF TypeOK, SaveSettled, Move
<1>11. ASSUME JobReview(n) PROVE TypeOK'
  BY <1>0, <1>11 DEF TypeOK, JobReview, Move
<1>12. ASSUME ReviewEnds(n) PROVE TypeOK'
  <2>1. mem' \in [Node -> NodeState] /\ rec' \in [Node -> EpisodeStatus \cup {"none"}]
    BY <1>12, AfterReviewType DEF TypeOK, ReviewEnds
  <2> QED
    BY <1>12, <2>1 DEF TypeOK, ReviewEnds, Move, JobStage
<1>13. ASSUME SaveJudged(n) PROVE TypeOK'
  <2>1. mem' \in [Node -> NodeState] /\ disk' \in [Node -> NodeState]
    BY <1>13, SaveType DEF SaveJudged, TypeOK
  <2> QED
    BY <1>13, <2>1 DEF TypeOK, SaveJudged, Move, JobStage
<1>14. ASSUME OnNodePassed(n) PROVE TypeOK'
  BY <1>14, ArtifactTypes DEF TypeOK, OnNodePassed, Move, JobStage
<1> QED
  BY <1>1, <1>2, <1>3, <1>4, <1>5, <1>6, <1>7, <1>8, <1>9, <1>10, <1>11, <1>12, <1>13, <1>14
     DEF Working

LEMMA TypeOutside == TypeOK /\ (Start \/ Crash \/ Operating) => TypeOK'
<1> SUFFICES ASSUME TypeOK, Start \/ Crash \/ Operating PROVE TypeOK'
  OBVIOUS
<1> USE DEF durable, scheduler, counters
<1>1. ASSUME Start PROVE TypeOK'
  <2>1. mem' \in [Node -> NodeState]
    <3>1. ASSUME NEW n \in Node
          PROVE [disk[n] EXCEPT !.status = "awaiting_review"] \in NodeState
      BY DEF TypeOK, NodeState, Status, InFlightStatus
    <3> QED
      BY <1>1, <3>1 DEF TypeOK, Start
  <2>2. cap' \in 1..MaxParallel
    BY <1>1, LoopAssumption DEF TypeOK, Start
  <2>3. resumeQ' \in [Node -> {"no", "dispatch", "review"}]
    BY <1>1 DEF Start
  <2> QED
    <3>1. loop' \in LoopStage /\ news' \in BOOLEAN /\ rounds' \in Nat /\ starts' \in Nat
          /\ noNewWork' \in BOOLEAN /\ stopping' \in BOOLEAN
      <4>1. loop' \in LoopStage /\ rounds' \in Nat
        BY <1>1 DEF Start, LoopStage
      <4>2. starts' \in Nat
        BY <1>1 DEF Start, TypeOK
      <4>3. news' \in BOOLEAN /\ noNewWork' \in BOOLEAN /\ stopping' \in BOOLEAN
        BY <1>1 DEF Start
      <4> QED
        BY <4>1, <4>2, <4>3
    <3>2. UNCHANGED <<disk, rec, art, prior, proposal, landed, bypass, halt, job, edit, crashes,
                      edits>>
      BY <1>1 DEF Start
    <3> QED
      BY <2>1, <2>2, <2>3, <3>1, <3>2 DEF TypeOK
<1>2. ASSUME Crash PROVE TypeOK'
  <2>1. art' \in [Node -> Artifact] /\ proposal' \in [Node -> {"none", "good", "bad"}]
    BY <1>2, WriterLeavesType DEF Crash
  <2>2. cap' \in 1..MaxParallel /\ job' \in [Node -> JobStage] /\ loop' \in LoopStage
    BY <1>2, LoopAssumption DEF Crash, JobStage, LoopStage
  <2> QED
    <3>1. /\ mem' \in [Node -> NodeState] /\ resumeQ' \in [Node -> {"no", "dispatch", "review"}]
          /\ news' \in BOOLEAN /\ noNewWork' \in BOOLEAN /\ stopping' \in BOOLEAN
          /\ rounds' \in Nat /\ crashes' \in Nat
      <4>1. mem' \in [Node -> NodeState] /\ crashes' \in Nat /\ rounds' \in Nat
        BY <1>2 DEF TypeOK, Crash
      <4>2. resumeQ' \in [Node -> {"no", "dispatch", "review"}]
        BY <1>2 DEF Crash
      <4>3. news' \in BOOLEAN /\ noNewWork' \in BOOLEAN /\ stopping' \in BOOLEAN
        BY <1>2 DEF Crash
      <4> QED
        BY <4>1, <4>2, <4>3
    <3>2. UNCHANGED <<disk, rec, prior, landed, bypass, halt, edit, starts, edits>>
      BY <1>2 DEF Crash
    <3> QED
      BY <2>1, <2>2, <3>1, <3>2 DEF TypeOK
<1>3. ASSUME NEW kind \in EditKinds \ {"bypass", "halt"}, NEW n \in Node, BeginEdit(kind, n)
      PROVE TypeOK'
  <2>1. [disk EXCEPT ![n] = Edited(kind, @)] \in [Node -> NodeState]
    BY EditedType DEF TypeOK
  <2> QED
    BY <1>3, <2>1 DEF TypeOK, BeginEdit, Edit
<1>4. ASSUME SaveEdit PROVE TypeOK'
  <2>1. edit \in Edit
    BY <1>4 DEF TypeOK, SaveEdit
  <2>2. edit.tree \in [Node -> NodeState] /\ [edit EXCEPT !.saved = TRUE] \in Edit
    BY <2>1 DEF Edit
  <2> QED
    BY <1>4, <2>2 DEF TypeOK, SaveEdit
<1>5. ASSUME LogEdit PROVE TypeOK'
  BY <1>5 DEF TypeOK, LogEdit
<1>6. ASSUME NEW n \in Node, SetBypass(n) PROVE TypeOK'
  BY <1>6 DEF TypeOK, SetBypass
<1>7. ASSUME ToggleHalt PROVE TypeOK'
  BY <1>7 DEF TypeOK, ToggleHalt
<1> QED
  BY <1>1, <1>2, <1>3, <1>4, <1>5, <1>6, <1>7 DEF Operating

LEMMA TypeStep == TypeOK /\ [Next]_vars => TypeOK'
<1>1. TypeOK /\ UNCHANGED vars => TypeOK'
  BY DEF TypeOK, vars, durable, scheduler, counters
<1> QED
  BY <1>1, TypeScheduling, TypeWorking, TypeOutside DEF Next

(* Every variable keeps its type. *)
THEOREM TypeCorrect == Spec => []TypeOK
BY TypeInit, TypeStep, PTL DEF Spec

-----------------------------------------------------------------------------
(* The inductive invariant behind PassedEarned. *)

Writing == {"new", "episode", "completed", "recalled"}

(* What must hold of a node nobody bypassed: what disk or memory calls
   worked is earned; a node that is handed to a writer, or queued for one,
   is not worked; a review reads an earned artifact; memory follows disk for
   what is worked; a pending save of an edit brings nothing new to it.      *)
Earned(n) ==
    /\ disk[n].status \in Worked => art[n].ok
    /\ mem[n].status \in Worked => art[n].ok
    /\ job[n] \in Writing \/ resumeQ[n] = "dispatch"
          => disk[n].status \notin Worked /\ mem[n].status \notin Worked
    /\ job[n] \in {"reviewing", "waived"} => art[n].ok
    /\ disk[n].status \in Worked /\ loop # "down"
          => mem[n].status = disk[n].status \/ job[n] = "judged"
    /\ edit # NoEdit /\ ~edit.saved /\ edit.tree[n].status \in Worked
          => edit.tree[n].status = disk[n].status

(* Where jobs and queued nodes can be. *)
Placed ==
    /\ loop \in {"down", "ended"} => \A n \in Node : job[n] = "idle"
    /\ \A n \in Node : resumeQ[n] # "no" => job[n] = "idle"
    /\ loop = "asking" => \A n \in Node : resumeQ[n] = "no"

EarnedInv == Placed /\ \A n \in Node : bypass[n] \/ Earned(n)

LEMMA SyncTreeWorked ==
    ASSUME NEW m \in [Node -> NodeState], NEW d \in [Node -> NodeState], NEW skip,
           NEW n \in Node
    PROVE  /\ SyncTree(m, d, skip)[n].status \in Worked
                 => m[n].status \in Worked \/ d[n].status \in Worked
           /\ m[n].status = d[n].status => SyncTree(m, d, skip)[n].status = d[n].status
<1>1. /\ SyncNode(m[n], d[n]).status \in Worked
            => m[n].status \in Worked \/ d[n].status \in Worked
      /\ m[n].status = d[n].status => SyncNode(m[n], d[n]).status = d[n].status
  BY DEF SyncNode, Worked, InFlightStatus, NodeState
<1> QED
  BY <1>1 DEF SyncTree

LEMMA SyncedWorked ==
    ASSUME TypeOK, NEW n \in Node
    PROVE  /\ Synced[n].status \in Worked => mem[n].status \in Worked \/ disk[n].status \in Worked
           /\ mem[n].status = disk[n].status => Synced[n].status = disk[n].status
           /\ job[n] # "idle" => Synced[n] = mem[n]
<1>1. job[n] # "idle" => Synced[n] = mem[n]
  BY DEF Synced, SyncTree, Running
<1> QED
  BY <1>1, SyncTreeWorked DEF Synced, TypeOK

LEMMA SaveWorked ==
    ASSUME TypeOK, NEW t \in [Node -> NodeState], Save(t), NEW n \in Node
    PROVE  /\ disk' = mem'
           /\ mem'[n].status \in Worked => t[n].status \in Worked \/ disk[n].status \in Worked
BY SyncTreeWorked DEF Save, TypeOK

LEMMA MarkedWorked ==
    ASSUME NEW t \in [Node -> NodeState], NEW S, NEW n \in Node
    PROVE  /\ Marked(t, S)[n].status \in Worked => t[n].status \in Worked /\ n \notin S
           /\ n \notin S => Marked(t, S)[n] = t[n]
BY DEF Marked, Worked, NodeState

(* A step that moves other nodes only, and brings nothing worked to n.      *)
LEMMA Bystander ==
    ASSUME NEW n \in Node, Earned(n), edit' = NoEdit,
           job'[n] = job[n], resumeQ'[n] = resumeQ[n], loop # "down",
           art[n].ok => art'[n].ok,
           mem'[n].status \in Worked => mem[n].status \in Worked \/ disk[n].status \in Worked,
           disk'[n].status \in Worked => mem[n].status \in Worked \/ disk[n].status \in Worked,
           disk'[n].status \in Worked => mem'[n].status = disk'[n].status \/ job[n] = "judged"
    PROVE  Earned(n)'
BY DEF Earned

(* The scheduler hands out no node that disk or memory calls worked.        *)
LEMMA OfferedUnworked ==
    ASSUME TypeOK, NEW n \in Node, Earned(n), loop # "down",
           n \in Offered(Synced) \/ n \in Offered(mem)
    PROVE  disk[n].status \notin Worked /\ job[n] = "idle"
<1>1. job[n] = "idle"
  BY DEF Offered, ReadyNodes, IsReady, Claimed, Running, TypeOK, NodeState
<1>2. Synced[n].status = "pending" \/ mem[n].status = "pending"
  BY <1>1 DEF Offered, ReadyNodes, IsReady, Claimed, Running
<1>3. disk[n].status \in Worked => mem[n].status = disk[n].status
  BY <1>1 DEF Earned
<1> QED
  BY <1>1, <1>2, <1>3, SyncedWorked DEF Worked

LEMMA PlacedScheduling ==
    ASSUME TypeOK, Placed, Scheduling
    PROVE  Placed'
<1> USE DEF durable, counters, scheduler
<1>1. ASSUME NEW n \in Node, Admit(n) PROVE Placed'
  BY <1>1 DEF Placed, Admit, TypeOK
<1>2. ASSUME DecideForced \/ AnswerDispatch PROVE Placed'
  <2>1. loop' = "resting" /\ resumeQ' = resumeQ
    BY <1>2 DEF DecideForced, AnswerDispatch, Commit
  <2>2. \A n \in Node : resumeQ[n] = "no"
    BY <1>2 DEF DecideForced, AnswerDispatch, Deciding, MayDecide, Queued, Placed
  <2> QED
    BY <2>1, <2>2 DEF Placed
<1>3. ASSUME DecideStop \/ DecideSkip \/ DecideNothing \/ DecideTerminal \/ DecideAsk
      PROVE Placed'
  BY <1>3 DEF Placed, DecideStop, DecideSkip, DecideNothing, DecideTerminal,
              DecideAsk, Deciding, MayDecide, Queued, Running
<1>4. ASSUME AnswerHalted \/ AnswerWait \/ Rest PROVE Placed'
  BY <1>4 DEF Placed, AnswerHalted, AnswerWait, Rest, Running
<1>5. ASSUME Reap PROVE Placed'
  BY <1>5 DEF Placed, Reap
<1> QED
  BY <1>1, <1>2, <1>3, <1>4, <1>5 DEF Scheduling

LEMMA EarnedScheduling ==
    ASSUME TypeOK, EarnedInv, edit = NoEdit, Scheduling
    PROVE  EarnedInv'
<1> USE DEF durable, counters, scheduler
<1>1. Placed'
  BY PlacedScheduling DEF EarnedInv
<1>2. ASSUME NEW n \in Node, ~bypass'[n] PROVE Earned(n)'
  <2>0. bypass' = bypass /\ edit' = NoEdit /\ art' = art /\ Earned(n) /\ loop # "down"
    <3>1. bypass' = bypass /\ edit' = edit /\ art' = art /\ loop # "down"
      BY DEF Scheduling, Admit, DecideStop, DecideSkip, DecideTerminal, DecideNothing,
             DecideForced, DecideAsk, AnswerHalted, AnswerDispatch, AnswerWait, Rest, Reap,
             AtDecision, Deciding
    <3> QED
      BY <1>2, <3>1 DEF EarnedInv
  <2>1. ASSUME NEW k \in Node, Admit(k) PROVE Earned(n)'
    <3>1. /\ disk' = disk /\ mem' = mem /\ loop' = loop
          /\ n # k => job'[n] = job[n] /\ resumeQ'[n] = resumeQ[n]
          /\ n = k => resumeQ'[n] = "no"
      BY <2>1 DEF Admit, TypeOK
    <3>2. n = k => \/ resumeQ[n] = "dispatch" /\ job'[n] = "new"
                   \/ job'[n] = "toReview"
      BY <2>1 DEF Admit, TypeOK
    <3>3. n = k => job[n] = "idle"
      BY <2>1 DEF Admit, EarnedInv, Placed
    <3>4. CASE n = k
      BY <2>0, <3>1, <3>2, <3>3, <3>4 DEF Earned, Writing
    <3>5. CASE n # k
      BY <2>0, <3>1, <3>5, Bystander DEF Earned
    <3> QED
      BY <3>4, <3>5
  <2>2. ASSUME DecideStop \/ DecideSkip \/ AnswerHalted \/ AnswerWait \/ Rest PROVE Earned(n)'
    BY <2>0, <2>2, Bystander DEF DecideStop, DecideSkip, AnswerHalted, AnswerWait, Rest, Earned
  <2>3. ASSUME DecideTerminal \/ DecideNothing \/ DecideAsk PROVE Earned(n)'
    <3>1. mem' = Synced /\ disk' = disk /\ job' = job /\ resumeQ' = resumeQ
      BY <2>3 DEF DecideTerminal, DecideNothing, DecideAsk
    <3>2. disk'[n].status \in Worked => mem'[n].status = disk'[n].status \/ job[n] = "judged"
      BY <2>0, <3>1, SyncedWorked DEF Earned
    <3> QED
      BY <2>0, <3>1, <3>2, SyncedWorked, Bystander
  <2>4. ASSUME DecideForced PROVE Earned(n)'
    <3> DEFINE S == Offered(Synced)
               t == Marked(Synced, S)
    <3>1. t \in [Node -> NodeState] /\ Save(t) /\ Commit(mem', S) /\ resumeQ' = resumeQ
      BY <2>4, SyncedType, MarkedType DEF DecideForced
    <3>2. CASE n \in S
      <4>1. disk[n].status \notin Worked /\ t[n].status \notin Worked
        BY <2>0, <3>2, OfferedUnworked, SyncedType, MarkedWorked
      <4>2. disk'[n].status \notin Worked /\ mem'[n].status \notin Worked
        BY <3>1, <4>1, SaveWorked
      <4>3. job'[n] = "new"
        BY <3>1, <3>2 DEF Commit
      <4> QED
        BY <2>0, <4>2, <4>3 DEF Earned
    <3>3. CASE n \notin S
      <4>1. mem'[n].status \in Worked => mem[n].status \in Worked \/ disk[n].status \in Worked
        BY <3>1, SaveWorked, SyncedWorked, SyncedType, MarkedWorked
      <4>2. disk' = mem' /\ job'[n] = job[n]
        BY <3>1, <3>3, SaveWorked DEF Commit
      <4> QED
        BY <2>0, <3>1, <4>1, <4>2, Bystander
    <3> QED
      BY <3>2, <3>3
  <2>5. ASSUME AnswerDispatch PROVE Earned(n)'
    <3>1. PICK S \in (SUBSET Offered(mem)) \ {{}} :
             /\ \E first \in S :
                   LET saved == SyncTree(Marked(mem, {first}), disk, {})
                   IN  mem' = SyncTree(Marked(saved, S \ {first}), saved, {})
             /\ disk' = mem'
             /\ Commit(mem, S)
      BY <2>5 DEF AnswerDispatch
    <3>2. PICK first \in S :
             mem' = SyncTree(Marked(SyncTree(Marked(mem, {first}), disk, {}), S \ {first}),
                             SyncTree(Marked(mem, {first}), disk, {}), {})
      BY <3>1
    <3> DEFINE marked == Marked(mem, {first})
               saved  == SyncTree(marked, disk, {})
               again  == Marked(saved, S \ {first})
    <3>3. /\ marked \in [Node -> NodeState] /\ saved \in [Node -> NodeState]
          /\ again \in [Node -> NodeState] /\ mem \in [Node -> NodeState]
          /\ disk \in [Node -> NodeState]
      BY MarkedType, SyncTreeType DEF TypeOK
    <3>4. mem' = SyncTree(again, saved, {})
      BY <3>2
    <3> HIDE DEF again, saved
    <3>5. mem'[n].status \in Worked => saved[n].status \in Worked
      <4>1. mem'[n].status \in Worked => again[n].status \in Worked \/ saved[n].status \in Worked
        BY <3>3, <3>4, SyncTreeWorked
      <4>2. again[n].status \in Worked => saved[n].status \in Worked
        BY <3>3, MarkedWorked DEF again
      <4> QED
        BY <4>1, <4>2
    <3>6. saved[n].status \in Worked => marked[n].status \in Worked \/ disk[n].status \in Worked
      BY <3>3, SyncTreeWorked DEF saved
    <3>7. marked[n].status \in Worked => mem[n].status \in Worked
      BY <3>3, MarkedWorked
    <3>8. resumeQ' = resumeQ
      BY <2>5 DEF AnswerDispatch
    <3>9. CASE n \in S
      <4>1. disk[n].status \notin Worked /\ mem[n].status \notin Worked /\ job[n] = "idle"
        <5>1. n \in Offered(mem)
          BY <3>1, <3>9
        <5>2. mem[n].status = "pending" \/ n \in Running
          BY <5>1 DEF Offered, ReadyNodes, IsReady, Claimed
        <5>3. disk[n].status \notin Worked /\ job[n] = "idle"
          BY <2>0, <5>1, OfferedUnworked
        <5> QED
          BY <5>2, <5>3 DEF Running, Worked
      <4>2. disk'[n].status \notin Worked /\ mem'[n].status \notin Worked
        BY <3>1, <3>5, <3>6, <3>7, <4>1
      <4>3. job'[n] = "new"
        BY <3>1, <3>9 DEF Commit
      <4> QED
        BY <2>0, <4>2, <4>3 DEF Earned
    <3>10. CASE n \notin S
      <4>1. job'[n] = job[n]
        BY <3>1, <3>10 DEF Commit
      <4> QED
        BY <2>0, <3>1, <3>5, <3>6, <3>7, <3>8, <4>1, Bystander
    <3> QED
      BY <3>9, <3>10
  <2>6. ASSUME Reap PROVE Earned(n)'
    <3>1. /\ disk' = disk /\ mem' = mem /\ resumeQ' = resumeQ
          /\ job'[n] = job[n] \/ job'[n] = "idle"
          /\ job'[n] # job[n] => job[n] # "judged"
      BY <2>6 DEF Reap
    <3> QED
      BY <2>0, <3>1 DEF Earned, Writing
  <2> QED
    BY <2>1, <2>2, <2>3, <2>4, <2>5, <2>6 DEF Scheduling
<1> QED
  BY <1>1, <1>2 DEF EarnedInv

(* What _transition_after_writer accepts has an artifact that passes its
   gates, once a lost one is restored, or belongs to a bypassed node.       *)
LEMMA AfterWriterEarned ==
    ASSUME NEW s \in NodeState, NEW o, ~o.bypassed,
           o.lost => ~(o.status = "done" /\ o.art.ok),
           AfterWriter(s, o).node.status \in Worked
    PROVE  IF o.lost THEN o.prior.ok ELSE o.art.ok
<1> DEFINE base == [s EXCEPT !.nudges = 0,
                             !.nonAttempts = IF o.status \in NonAttemptStatus THEN @ ELSE 0]
<1>1. base \in NodeState
  BY DEF NodeState
<1> HIDE DEF base
<1>2. /\ Charge(base).status \notin Worked /\ NonAttempt(base, o).status \notin Worked
      /\ Requeue(base).status \notin Worked
      /\ [Requeue(base) EXCEPT !.nudges = s.nudges + 1].status \notin Worked
  BY <1>1 DEF Charge, NonAttempt, Requeue, NodeState, Worked
<1>3. Accepted(o) \/ RestoredComplete(o)
  BY <1>2 DEF AfterWriter, base
<1>4. RestoredComplete(o) => o.lost /\ o.prior.ok
  BY DEF RestoredComplete
<1>5. Accepted(o) => o.art.ok /\ ~o.lost
  BY DEF Accepted, Salvaged
<1> QED
  BY <1>3, <1>4, <1>5

(* A step of one job leaves the others and the scheduler alone.             *)
LEMMA WorkingFrame ==
    ASSUME TypeOK, NEW k \in Node, Working(k) \/ JobRaises(k)
    PROVE  /\ UNCHANGED <<scheduler, edit, bypass, halt>>
           /\ resumeQ' = resumeQ /\ loop' = loop
           /\ \A n \in Node : n # k => job'[n] = job[n]
           /\ job[k] # "idle" /\ job'[k] # "idle"
BY DEF durable, scheduler, counters, TypeOK, Working, JobShortcut, JobRecall, JobBypassed,
       JobEpisode, EpisodeEnds, JobRaises, SettleSplit, SettleConflict, SettleGates, SaveSettled,
       JobReview, ReviewEnds, SaveJudged, OnNodePassed, Dispatching, Settling, Move, ToReview

LEMMA EarnedWorking ==
    ASSUME TypeOK, EarnedInv, edit = NoEdit, NEW k \in Node, Working(k) \/ JobRaises(k)
    PROVE  EarnedInv'
<1> USE DEF durable, counters, scheduler
<1>0. /\ resumeQ' = resumeQ /\ loop' = loop /\ edit' = edit /\ bypass' = bypass
      /\ \A n \in Node : n # k => job'[n] = job[n]
      /\ job[k] # "idle" /\ job'[k] # "idle"
  BY WorkingFrame
<1>1. Placed'
  BY <1>0 DEF EarnedInv, Placed
<1>2. loop # "down"
  BY <1>0 DEF EarnedInv, Placed
<1>3. /\ \A n \in Node : mem[n] \in NodeState
      /\ mem \in [Node -> NodeState] /\ art \in [Node -> Artifact] /\ prior \in [Node -> Artifact]
      /\ job \in [Node -> JobStage]
  BY DEF TypeOK
<1>4. ASSUME NEW n \in Node, n # k, ~bypass'[n] PROVE Earned(n)'
  <2>1. Earned(n) /\ edit' = NoEdit /\ job'[n] = job[n] /\ resumeQ'[n] = resumeQ[n]
    BY <1>0, <1>4 DEF EarnedInv
  <2>2. art[n].ok => art'[n].ok
    <3>1. ASSUME WriterLeaves({k} \cap {m \in Node : job[m] = "episode"}) \/ WriterLeaves({k})
          PROVE art'[n] = art[n]
      BY <3>1, <1>4 DEF WriterLeaves
    <3>2. ASSUME SettleGates(k) PROVE art'[n] = art[n]
      BY <3>2, <1>3, <1>4 DEF SettleGates
    <3>3. ASSUME OnNodePassed(k) PROVE art[n].ok => art'[n].ok
      BY <3>3 DEF OnNodePassed
    <3> QED
      BY <3>1, <3>2, <3>3 DEF Working, JobShortcut, JobRecall, JobBypassed, JobEpisode,
         EpisodeEnds, JobRaises, SettleSplit, SettleConflict, SaveSettled, JobReview, ReviewEnds,
         SaveJudged
  <2>3. \/ mem'[n] = mem[n] /\ disk' = disk
        \/ \E t \in [Node -> NodeState] : t[n] = mem[n] /\ Save(t)
        \/ SettleSplit(k)
    <3>1. ASSUME JobShortcut(k) PROVE \E t \in [Node -> NodeState] : t[n] = mem[n] /\ Save(t)
      <4>1. [mem EXCEPT ![k].status = "awaiting_review"] \in [Node -> NodeState]
        BY <1>3 DEF NodeState, Status, InFlightStatus
      <4> QED
        BY <4>1, <3>1, <1>3, <1>4 DEF JobShortcut
    <3>2. ASSUME SettleConflict(k) PROVE \E t \in [Node -> NodeState] : t[n] = mem[n] /\ Save(t)
      <4>1. [mem EXCEPT ![k].status = "pending", ![k].defect = "other"] \in [Node -> NodeState]
        <5>1. [mem EXCEPT ![k].status = "pending"] \in [Node -> NodeState]
          BY <1>3 DEF NodeState, Status
        <5> QED
          BY <5>1 DEF NodeState, Defect
      <4>2. [mem EXCEPT ![k].status = "pending", ![k].defect = "other"][n] = mem[n]
        BY <1>3, <1>4
      <4> QED
        BY <4>1, <4>2, <3>2 DEF SettleConflict
    <3>3. ASSUME SaveSettled(k) \/ SaveJudged(k)
          PROVE \E t \in [Node -> NodeState] : t[n] = mem[n] /\ Save(t)
      BY <3>3, <1>3 DEF SaveSettled, SaveJudged
    <3>4. ASSUME SettleGates(k) \/ ReviewEnds(k) PROVE mem'[n] = mem[n] /\ disk' = disk
      BY <3>4, <1>3, <1>4 DEF SettleGates, ReviewEnds
    <3> QED
      BY <3>1, <3>2, <3>3, <3>4 DEF Working, JobRecall, JobBypassed, JobEpisode,
         EpisodeEnds, JobRaises, JobReview, OnNodePassed
  <2>4. CASE mem'[n] = mem[n] /\ disk' = disk
    BY <1>2, <2>1, <2>2, <2>4, Bystander DEF Earned
  <2>5. CASE \E t \in [Node -> NodeState] : t[n] = mem[n] /\ Save(t)
    <3>1. PICK t \in [Node -> NodeState] : t[n] = mem[n] /\ Save(t)
      BY <2>5
    <3>2. /\ disk' = mem'
          /\ mem'[n].status \in Worked => mem[n].status \in Worked \/ disk[n].status \in Worked
      BY <3>1, SaveWorked
    <3> QED
      BY <1>2, <2>1, <2>2, <3>2, Bystander
  <2>6. CASE SettleSplit(k)
    <3>1. disk' = mem' /\ (mem'[n] = mem[n] \/ mem'[n] = FreshNode)
      BY <2>6, <1>3, <1>4 DEF SettleSplit, Graft
    <3>2. mem'[n].status \in Worked => mem[n].status \in Worked
      BY <3>1 DEF FreshNode, Worked
    <3> QED
      BY <1>2, <2>1, <2>2, <3>1, <3>2, Bystander
  <2> QED
    BY <2>3, <2>4, <2>5, <2>6
<1>5. ASSUME ~bypass'[k] PROVE Earned(k)'
  <2>0. /\ Earned(k) /\ ~bypass[k] /\ edit' = NoEdit
        /\ resumeQ[k] = "no" /\ resumeQ'[k] = "no"
    BY <1>0, <1>5 DEF EarnedInv, Placed, TypeOK
  <2>1. ASSUME JobShortcut(k) \/ JobBypassed(k) PROVE FALSE
    BY <2>0, <2>1 DEF JobShortcut, JobBypassed
  <2>2. ASSUME JobRecall(k) \/ JobEpisode(k) PROVE Earned(k)'
    <3>1. /\ disk' = disk /\ mem' = mem /\ art' = art /\ job[k] = "new"
          /\ job'[k] \in {"recalled", "episode"}
      BY <1>3, <2>2 DEF JobRecall, JobEpisode, Dispatching, Move
    <3> QED
      BY <2>0, <3>1 DEF Earned, Writing
  <2>3. ASSUME EpisodeEnds(k) \/ JobRaises(k) PROVE Earned(k)'
    <3>1. /\ disk' = disk /\ mem' = mem /\ job[k] \in {"new", "episode"}
          /\ job'[k] \in {"completed", "failed"}
      BY <1>3, <2>3 DEF EpisodeEnds, JobRaises, Move
    <3> QED
      BY <2>0, <3>1 DEF Earned, Writing
  <2>4. ASSUME SettleSplit(k) PROVE Earned(k)'
    <3>1. /\ mem'[k].status \in {"split", "pending"} /\ disk' = mem' /\ job'[k] = "done"
      BY <1>3, <2>4 DEF SettleSplit, Graft, Move, NodeState
    <3> QED
      BY <2>0, <3>1 DEF Earned, Writing, Worked
  <2>5. ASSUME SettleConflict(k) PROVE Earned(k)'
    <3> DEFINE t == [mem EXCEPT ![k].status = "pending", ![k].defect = "other"]
    <3>1. t \in [Node -> NodeState] /\ t[k].status = "pending"
      <4>1. [mem EXCEPT ![k].status = "pending"] \in [Node -> NodeState]
        BY <1>3 DEF NodeState, Status
      <4> QED
        BY <4>1, <1>3 DEF NodeState, Defect
    <3>2. Save(t) /\ job[k] \in Writing /\ job'[k] = "done"
      BY <1>3, <2>5 DEF SettleConflict, Settling, Move, Writing
    <3>3. disk[k].status \notin Worked
      BY <2>0, <3>2 DEF Earned
    <3> HIDE DEF t
    <3>4. disk' = mem' /\ mem'[k].status \notin Worked
      BY <3>1, <3>2, <3>3, SaveWorked DEF Worked
    <3> QED
      BY <2>0, <3>2, <3>4 DEF Earned, Writing
  <2>6. ASSUME SettleGates(k) PROVE Earned(k)'
    <3>1. PICK unscoped \in BOOLEAN, streakOld \in BOOLEAN :
             LET lost    == AccidentalLoss(Result(k), art[k], prior[k], bypass[k], unscoped)
                 outcome == [status |-> Result(k), art |-> art[k], prior |-> prior[k],
                             bypassed |-> bypass[k], lost |-> lost, streakOld |-> streakOld]
                 after   == AfterWriter(mem[k], outcome)
             IN  /\ mem' = [mem EXCEPT ![k] = after.node]
                 /\ art' = IF lost THEN [art EXCEPT ![k] = prior[k]] ELSE art
      BY <2>6 DEF SettleGates
    <3> DEFINE lost == AccidentalLoss(Result(k), art[k], prior[k], FALSE, unscoped)
               outcome == [status |-> Result(k), art |-> art[k], prior |-> prior[k],
                           bypassed |-> FALSE, lost |-> lost, streakOld |-> streakOld]
    <3>2. /\ mem'[k] = AfterWriter(mem[k], outcome).node
          /\ art'[k] = IF lost THEN prior[k] ELSE art[k]
      <4>1. bypass[k] = FALSE
        BY <2>0 DEF TypeOK
      <4> QED
        BY <1>3, <3>1, <4>1
    <3>3. mem'[k].status \in Worked => art'[k].ok
      <4>1. /\ ~outcome.bypassed /\ outcome.lost = lost
            /\ outcome.art = art[k] /\ outcome.prior = prior[k]
        OBVIOUS
      <4>2. lost => ~(outcome.status = "done" /\ outcome.art.ok)
        BY DEF AccidentalLoss
      <4>3. mem[k] \in NodeState
        BY <1>3
      <4> HIDE DEF outcome, lost
      <4>4. mem'[k].status \in Worked => IF outcome.lost THEN outcome.prior.ok ELSE outcome.art.ok
        BY <3>2, <4>1, <4>2, <4>3, AfterWriterEarned
      <4> QED
        BY <3>2, <4>1, <4>4
    <3>4. /\ job[k] \in Writing /\ job'[k] = "settled" /\ disk' = disk
      BY <1>3, <2>6 DEF SettleGates, Settling, Move, Writing
    <3> QED
      BY <2>0, <3>3, <3>4 DEF Earned, Writing
  <2>7. ASSUME SaveSettled(k) \/ SaveJudged(k) PROVE Earned(k)'
    <3>1. /\ disk' = mem' /\ art' = art
          /\ mem'[k].status \in Worked => mem[k].status \in Worked \/ disk[k].status \in Worked
      BY <1>3, <2>7, SaveWorked DEF SaveSettled, SaveJudged
    <3>2. mem'[k].status \in Worked => art'[k].ok
      BY <2>0, <3>1 DEF Earned
    <3>3. /\ job'[k] \notin Writing \cup {"waived"}
          /\ job'[k] = "reviewing" => mem'[k].status = "awaiting_review"
      BY <1>3, <2>0, <2>7 DEF SaveSettled, SaveJudged, Move, ToReview, Writing
    <3>4. job'[k] = "reviewing" => art'[k].ok
      BY <3>2, <3>3 DEF Worked
    <3> QED
      BY <2>0, <3>1, <3>2, <3>3, <3>4 DEF Earned
  <2>8. ASSUME JobReview(k) PROVE Earned(k)'
    <3>1. /\ disk' = disk /\ mem' = mem /\ art' = art /\ job[k] = "toReview"
          /\ job'[k] \in {"done", "reviewing"}
          /\ job'[k] = "reviewing" => mem[k].status = "awaiting_review"
      BY <1>3, <2>0, <2>8 DEF JobReview, Move, ToReview
    <3> QED
      BY <1>2, <2>0, <3>1 DEF Earned, Writing, Worked
  <2>9. ASSUME ReviewEnds(k) PROVE Earned(k)'
    <3>1. /\ disk' = disk /\ art' = art /\ job[k] \in {"waived", "reviewing"}
          /\ job'[k] = "judged"
      BY <1>3, <2>9 DEF ReviewEnds, Move
    <3> QED
      BY <2>0, <3>1 DEF Earned, Writing
  <2>10. ASSUME OnNodePassed(k) PROVE Earned(k)'
    <3>1. /\ disk' = disk /\ mem' = mem /\ job[k] = "passing" /\ job'[k] = "done"
          /\ art[k].ok => art'[k].ok
      BY <1>3, <2>10 DEF OnNodePassed, Move
    <3> QED
      BY <1>2, <2>0, <3>1 DEF Earned, Writing
  <2> QED
    BY <2>1, <2>2, <2>3, <2>4, <2>5, <2>6, <2>7, <2>8, <2>9, <2>10 DEF Working
<1>6. ASSUME NEW n \in Node PROVE bypass'[n] \/ Earned(n)'
  BY <1>4, <1>5
<1> QED
  BY <1>1, <1>6 DEF EarnedInv

LEMMA EarnedOutside ==
    ASSUME TypeOK, EarnedInv, (Start /\ edit = NoEdit) \/ Crash \/ Operating
    PROVE  EarnedInv'
<1> USE DEF durable, counters, scheduler
<1>1. CASE Start /\ edit = NoEdit
  <2>1. \A n \in Node : job'[n] = "idle"
    BY <1>1 DEF EarnedInv, Placed, Start
  <2>2. Placed'
    BY <1>1, <2>1 DEF Placed, Start
  <2>3. ASSUME NEW n \in Node, ~bypass'[n] PROVE Earned(n)'
    <3>1. bypass' = bypass /\ disk' = disk /\ art' = art /\ edit' = NoEdit /\ Earned(n)
      BY <1>1, <2>3 DEF Start, EarnedInv
    <3>2. /\ mem'[n].status = disk[n].status
          /\ resumeQ'[n] = "dispatch" => disk[n].status = "dispatched"
      BY <1>1, <2>3, <3>1 DEF Start
    <3> QED
      BY <2>1, <3>1, <3>2 DEF Earned, Writing, Worked
  <2> QED
    BY <2>2, <2>3 DEF EarnedInv
<1>2. CASE Crash
  <2>1. Placed'
    BY <1>2 DEF Placed, Crash
  <2>2. ASSUME NEW n \in Node, ~bypass'[n] PROVE Earned(n)'
    <3>1. /\ bypass' = bypass /\ disk' = disk /\ mem' = disk /\ edit' = edit /\ Earned(n)
          /\ job'[n] = "idle" /\ resumeQ'[n] = "no"
      BY <1>2, <2>2 DEF Crash, EarnedInv
    <3>2. disk[n].status \in Worked => art'[n].ok
      BY <1>2, <3>1 DEF Crash, WriterLeaves, Earned, Writing
    <3> QED
      BY <3>1, <3>2 DEF Earned, Writing
  <2> QED
    BY <2>1, <2>2 DEF EarnedInv
<1>3. CASE Operating
  <2>1. /\ loop' = loop /\ job' = job /\ resumeQ' = resumeQ /\ mem' = mem /\ art' = art
        /\ \A n \in Node : bypass[n] => bypass'[n]
    BY <1>3 DEF Operating, BeginEdit, SaveEdit, LogEdit, SetBypass, ToggleHalt, TypeOK
  <2>2. Placed'
    BY <2>1 DEF Placed, EarnedInv
  <2>3. ASSUME NEW n \in Node, ~bypass'[n] PROVE Earned(n)'
    <3>0. Earned(n)
      BY <2>1, <2>3 DEF EarnedInv
    <3>1. ASSUME NEW kind \in EditKinds \ {"bypass", "halt"}, NEW k \in Node, BeginEdit(kind, k)
          PROVE Earned(n)'
      <4>1. disk' = disk /\ disk \in [Node -> NodeState] /\ bypass \in [Node -> BOOLEAN]
        BY <3>1 DEF BeginEdit, TypeOK
      <4>2. edit'.tree = [disk EXCEPT ![k] = Edited(kind, @)]
        BY <3>1 DEF BeginEdit
      <4>3. n = k => kind # "pass"
        BY <2>3, <3>1, <4>1 DEF BeginEdit
      <4>4. n = k => edit'.tree[n].status = "pending"
        <5>1. kind \in {"redispatch", "reopen", "cli_reopen", "pass"}
          BY LoopAssumption
        <5>2. disk[k] \in NodeState
          BY <4>1
        <5> QED
          BY <4>1, <4>2, <4>3, <5>1, <5>2 DEF Edited, NodeState
      <4>5. n # k => edit'.tree[n].status = disk[n].status
        BY <4>1, <4>2
      <4> QED
        BY <2>1, <3>0, <4>1, <4>4, <4>5 DEF Earned, Worked
    <3>2. ASSUME SaveEdit PROVE Earned(n)'
      <4>1. disk'[n].status \in Worked => disk'[n].status = disk[n].status
        BY <3>0, <3>2 DEF SaveEdit, Earned
      <4>2. edit' # NoEdit => edit'.saved
        BY <3>2 DEF SaveEdit, TypeOK, Edit
      <4> QED
        BY <2>1, <3>0, <4>1, <4>2 DEF Earned
    <3>3. ASSUME LogEdit PROVE Earned(n)'
      BY <2>1, <3>0, <3>3 DEF LogEdit, Earned
    <3>4. ASSUME NEW k \in Node, SetBypass(k) PROVE Earned(n)'
      BY <2>1, <3>0, <3>4 DEF SetBypass, Earned
    <3>5. ASSUME ToggleHalt PROVE Earned(n)'
      BY <2>1, <3>0, <3>5 DEF ToggleHalt, Earned
    <3> QED
      BY <1>3, <3>1, <3>2, <3>3, <3>4, <3>5 DEF Operating
  <2> QED
    BY <2>2, <2>3 DEF EarnedInv
<1> QED
  BY <1>1, <1>2, <1>3

LEMMA EarnedInit == Init => EarnedInv
BY DEF Init, EarnedInv, Placed, Earned, InitialTree, AbsentNode, FreshNode, Worked, Writing

LEMMA EarnedStep ==
    ASSUME ~Racing
    PROVE  TypeOK /\ EarnedInv /\ [Next]_vars => EarnedInv'
<1>1. EarnedInv /\ UNCHANGED vars => EarnedInv'
  BY DEF vars, durable, scheduler, counters, EarnedInv, Placed, Earned
<1> QED
  BY <1>1, EarnedScheduling, EarnedWorking, EarnedOutside DEF Next, Undisturbed

(* As long as no edit of an operator's process overlaps a step of the
   harness, tree.json only ever says of a node that it awaits review or has
   passed when its artifact passes the hard gates or the operator bypassed
   it: over every task tree, every crash, resume, replay, restore and edit.  *)
THEOREM PassedIsEarned ==
    ASSUME ~Racing PROVE Spec => []PassedEarned
<1>1. TypeOK /\ EarnedInv /\ [Next]_vars => EarnedInv'
  BY EarnedStep
<1>2. EarnedInv => PassedEarned
  BY DEF EarnedInv, Earned, PassedEarned
<1> QED
  BY <1>1, <1>2, EarnedInit, TypeCorrect, PTL DEF Spec

-----------------------------------------------------------------------------
(* A run whose tree no operator writes. *)

Unedited == EditKinds \subseteq {"halt"}

-----------------------------------------------------------------------------
(* The steps of the durable tree. *)

Charged(before, after) ==
    /\ after.attempts = before.attempts + 1
    /\ after.status = IF after.attempts < MaxAttempts THEN "pending" ELSE "blocked"

(* What an episode may make of the node that was dispatched ...             *)
WriterMoves(before, after) ==
    \/ after.status \in {"pending", "awaiting_review"} /\ after.attempts = before.attempts
    \/ /\ after.status = "blocked" /\ after.defect = "provider"
       /\ after.attempts = before.attempts
    \/ Charged(before, after)

(* ... and a verdict of the node that awaited it.                           *)
ReviewMoves(before, after) ==
    \/ after.status \in {"passed", "awaiting_review"} /\ after.attempts = before.attempts
    \/ Charged(before, after)

Dispatched(tree) == {n \in Node : tree[n].status = "dispatched"}

Wave(S) ==
    /\ S # {} /\ S \subseteq ReadyNodes(disk)
    /\ Cardinality(Dispatched(disk) \cup S) <= MaxParallel
    /\ disk' = Marked(disk, S)
WriterStep(n) ==
    /\ disk[n].status = "dispatched"
    /\ disk'[n] \in NodeState /\ disk' = [disk EXCEPT ![n] = disk'[n]]
    /\ WriterMoves(disk[n], disk'[n])
ReviewStep(n) ==
    /\ disk[n].status = "awaiting_review"
    /\ disk'[n] \in NodeState /\ disk' = [disk EXCEPT ![n] = disk'[n]]
    /\ ReviewMoves(disk[n], disk'[n])
SplitStep(n) ==
    n \in GoodSplit /\ disk[n].status = "dispatched" /\ disk' = Graft(disk, n)

DiskStep == \/ \E S \in SUBSET Node : Wave(S)
            \/ \E n \in Node : WriterStep(n) \/ ReviewStep(n) \/ SplitStep(n)

-----------------------------------------------------------------------------
(* The inductive invariant. *)

OnWriter == {"new", "episode", "completed", "recalled", "settled"}
OnReview == {"toReview", "reviewing", "judged"}
Unsaved == {"settled", "judged"}

(* What a node's job, or its place in the queue, says of the durable tree.  *)
Owned(n) ==
    /\ job[n] \in OnWriter \/ resumeQ[n] = "dispatch" => disk[n].status = "dispatched"
    /\ job[n] \in OnReview \/ resumeQ[n] = "review" => disk[n].status = "awaiting_review"
    /\ job[n] = "passing" => disk[n].status = "passed"
    /\ job[n] = "done" => disk[n].status # "dispatched"
    /\ job[n] # "waived"
    /\ job[n] \notin Unsaved => mem[n] = disk[n]
    /\ job[n] = "settled" => WriterMoves(disk[n], mem[n])
    /\ job[n] = "judged" => ReviewMoves(disk[n], mem[n])

(* Nobody else writes; one job at a time is between two awaits; a node left
   dispatched without a job or a place in the queue is one whose job raised,
   and nothing is started after that.                                       *)
LoopInv ==
    /\ edit = NoEdit /\ \A n \in Node : ~bypass[n]
    /\ Placed
    /\ \A m, n \in Node : job[m] \in Midway /\ job[n] \in Midway => m = n
    /\ loop = "resting" => \A n \in Node : job[n] \notin Midway
    /\ loop = "asking" => ~stopping
    /\ \A n \in Node : Owned(n)
    /\ loop \notin {"down", "ended"} /\ ~stopping
          => \A n \in Dispatched(disk) : job[n] # "idle" \/ resumeQ[n] # "no"

-----------------------------------------------------------------------------
(* Reading the disk back never changes what was just taken from it. *)

LEMMA SyncNodeSame == \A x \in NodeState : SyncNode(x, x) = x
BY DEF SyncNode, NodeState, InFlightStatus

LEMMA SyncTreeSame ==
    ASSUME NEW t \in [Node -> NodeState], NEW skip
    PROVE  SyncTree(t, t, skip) = t
BY SyncNodeSame DEF SyncTree

LEMMA SyncTreeWave ==
    ASSUME NEW t \in [Node -> NodeState], NEW S, \A n \in S : t[n].status = "pending"
    PROVE  SyncTree(Marked(t, S), t, {}) = Marked(t, S)
<1>1. ASSUME NEW n \in Node
      PROVE  SyncTree(Marked(t, S), t, {})[n] = Marked(t, S)[n]
  <2>1. CASE n \in S
    <3>1. Marked(t, S)[n].status = "dispatched"
      BY <2>1 DEF Marked, NodeState
    <3>2. SyncNode(Marked(t, S)[n], t[n]) = Marked(t, S)[n]
      BY <2>1, <3>1 DEF SyncNode, InFlightStatus
    <3> QED
      BY <2>1, <3>1, <3>2 DEF SyncTree
  <2>2. CASE n \notin S
    BY <2>2, SyncNodeSame DEF SyncTree, Marked
  <2> QED
    BY <2>1, <2>2
<1> QED
  BY <1>1 DEF SyncTree, Marked

LEMMA SyncTreeOutcome ==
    ASSUME NEW t \in [Node -> NodeState], NEW m \in [Node -> NodeState], NEW n \in Node,
           \A k \in Node : k # n => m[k] = t[k],
           t[n].status \in InFlightStatus, m[n].status # "absent"
    PROVE  SyncTree(m, t, {}) = m
<1>1. ASSUME NEW k \in Node PROVE SyncTree(m, t, {})[k] = m[k]
  <2>1. SyncNode(m[n], t[n]) = m[n]
    BY DEF SyncNode, InFlightStatus
  <2> QED
    BY <2>1, SyncNodeSame DEF SyncTree, InFlightStatus
<1> QED
  BY <1>1 DEF SyncTree

(* What the two transitions make of a node. *)

LEMMA ChargeMoves == \A x \in NodeState : Charged(x, Charge(x))
BY BudgetAssumption DEF Charge, Charged, NodeState

LEMMA AfterWriterMoves ==
    ASSUME NEW x \in NodeState, NEW o
    PROVE  WriterMoves(x, AfterWriter(x, o).node)
<1> DEFINE base == [x EXCEPT !.nudges = 0,
                             !.nonAttempts = IF o.status \in NonAttemptStatus THEN @ ELSE 0]
<1>1. base \in NodeState /\ base.attempts = x.attempts
  BY DEF NodeState
<1> HIDE DEF base
<1>2. WriterMoves(x, Charge(base))
  BY <1>1, ChargeMoves DEF WriterMoves, Charged
<1>3. WriterMoves(x, Accept(base)) /\ WriterMoves(x, Requeue(base))
  BY <1>1 DEF WriterMoves, Accept, Requeue, NodeState
<1>4. WriterMoves(x, [Requeue(base) EXCEPT !.nudges = x.nudges + 1])
  BY <1>1 DEF WriterMoves, Requeue, NodeState
<1>5. WriterMoves(x, NonAttempt(base, o))
  BY <1>1 DEF WriterMoves, NonAttempt, NodeState
<1> QED
  BY <1>2, <1>3, <1>4, <1>5 DEF AfterWriter, base

LEMMA AfterReviewMoves ==
    ASSUME NEW x \in NodeState, NEW verdict
    PROVE  ReviewMoves(x, AfterReview(x, verdict).node)
BY ChargeMoves DEF AfterReview, ReviewMoves, NodeState

-----------------------------------------------------------------------------
(* The durable tree changes by a wave, a split, an outcome or a verdict. *)

(* Between two jobs' steps memory is the disk. *)
LEMMA MemoryIsDisk ==
    ASSUME TypeOK, LoopInv, \A n \in Node : job[n] \notin Unsaved
    PROVE  mem = disk /\ Synced = disk
<1>1. mem = disk
  BY DEF TypeOK, LoopInv, Owned
<1> QED
  BY <1>1, SyncTreeSame DEF Synced, TypeOK

LEMMA IdleMemory ==
    ASSUME TypeOK, LoopInv, ~Busy PROVE mem = disk /\ Synced = disk
BY MemoryIsDisk DEF Busy, Midway, Unsaved

(* A node offered by the claimed tree is ready in the tree, and unclaimed.  *)
LEMMA ClaimedReady ==
    ASSUME NEW t \in [Node -> NodeState], NEW own, NEW n \in ReadyNodes(Claimed(t, own))
    PROVE  n \in Node /\ n \notin own /\ n \in ReadyNodes(t)
<1> DEFINE c == Claimed(t, own)
<1>1. \A m \in Node : IF m \in own THEN c[m].status = "dispatched" ELSE c[m] = t[m]
  BY DEF Claimed, NodeState
<1> HIDE DEF c
<1>2. /\ n \in Node /\ c[n].status = "pending"
      /\ \A d \in DependsOn[n] : c[d].status = "passed"
  BY DEF ReadyNodes, IsReady, c
<1>3. n \notin own /\ t[n].status = "pending"
  BY <1>1, <1>2
<1>4. ASSUME NEW d \in DependsOn[n] PROVE t[d].status = "passed"
  <2>1. d \in Node /\ c[d].status = "passed"
    BY <1>2, NodeAssumption
  <2> QED
    BY <1>1, <2>1
<1> QED
  BY <1>2, <1>3, <1>4 DEF ReadyNodes, IsReady

(* A set of offered nodes that fits the free slots fits beside the writers. *)
LEMMA WaveFits ==
    ASSUME TypeOK, LoopInv, loop \notin {"down", "ended"}, ~stopping,
           \A n \in Node : resumeQ[n] = "no",
           NEW S, S \subseteq Offered(disk), S # {}, Cardinality(S) <= Free
    PROVE  /\ S \subseteq ReadyNodes(disk) /\ S \in SUBSET Node
           /\ Cardinality(Dispatched(disk) \cup S) <= MaxParallel
           /\ S \cap Running = {}
<1>1. S \subseteq ReadyNodes(disk) /\ S \subseteq Node /\ S \cap Running = {}
  <2>1. disk \in [Node -> NodeState]
    BY DEF TypeOK
  <2> QED
    BY <2>1, ClaimedReady DEF Offered
<1>2. IsFiniteSet(S) /\ IsFiniteSet(Running)
  BY <1>1, NodeAssumption, FS_Subset DEF Running
<1>3. Dispatched(disk) \subseteq Running
  BY DEF Dispatched, LoopInv, Running
<1>4. /\ Cardinality(Dispatched(disk) \cup S) <= Cardinality(Running \cup S)
      /\ IsFiniteSet(Running \cup S)
  BY <1>2, <1>3, FS_Union, FS_Subset
<1>5. Cardinality(Running \cup S) <= Cardinality(Running) + Cardinality(S)
  <2>1. /\ IsFiniteSet(Running \cap S)
        /\ Cardinality(Running \cup S)
             = Cardinality(Running) + Cardinality(S) - Cardinality(Running \cap S)
    BY <1>2, FS_Union, FS_Subset
  <2>2. Cardinality(Running \cap S) = 0
    BY <1>1, FS_EmptySet
  <2> QED
    BY <1>2, <2>1, <2>2, FS_CardinalityType
<1>6. Cardinality(S) \in Nat /\ Cardinality(S) # 0 /\ Cardinality(Running) \in Nat
      /\ Cardinality(Running \cup S) \in Nat /\ Cardinality(Dispatched(disk) \cup S) \in Nat
  BY <1>2, <1>3, <1>4, FS_CardinalityType, FS_EmptySet, FS_Subset
<1>7. cap \in Nat /\ cap <= MaxParallel /\ MaxParallel \in Nat
  BY LoopAssumption DEF TypeOK
<1>8. Cardinality(Running) + Cardinality(S) <= cap
  BY <1>6, <1>7 DEF Free
<1>9. Cardinality(Dispatched(disk) \cup S) <= MaxParallel
  BY <1>4, <1>5, <1>6, <1>7, <1>8
<1> QED
  BY <1>1, <1>9

LEMMA ForcedWave ==
    ASSUME TypeOK, LoopInv, DecideForced
    PROVE  /\ Wave(Offered(disk)) /\ mem' = disk' /\ Commit(mem', Offered(disk))
           /\ Offered(disk) \in SUBSET Node /\ Offered(disk) \cap Running = {}
<1> DEFINE S == Offered(disk)
<1>1. mem = disk /\ Synced = disk
  BY IdleMemory DEF DecideForced, Deciding, AtDecision
<1>2. /\ S # {} /\ Free > 0 /\ ForcedChoice(disk)
      /\ Save(Marked(disk, S)) /\ Commit(mem', S)
  BY <1>1 DEF DecideForced
<1>3. loop \notin {"down", "ended"} /\ ~stopping /\ \A n \in Node : resumeQ[n] = "no"
  BY DEF DecideForced, Deciding, AtDecision, MayDecide, Queued
<1>4. Cardinality(S) <= Free
  <2>1. (Cardinality(S) = 1 /\ Free = 1) \/ Cardinality(S) <= Free
    BY <1>2 DEF ForcedChoice
  <2> QED
    BY <2>1
<1> HIDE DEF S
<1>5. /\ S \subseteq ReadyNodes(disk) /\ S \in SUBSET Node
      /\ Cardinality(Dispatched(disk) \cup S) <= MaxParallel /\ S \cap Running = {}
  BY <1>2, <1>3, <1>4, WaveFits DEF S
<1>6. disk' = Marked(disk, S) /\ mem' = disk'
  <2>1. \A n \in S : disk[n].status = "pending"
    BY <1>5 DEF ReadyNodes, IsReady
  <2> QED
    BY <1>2, <2>1, SyncTreeWave DEF Save, TypeOK
<1> QED
  BY <1>2, <1>5, <1>6 DEF Wave, S

LEMMA AnsweredWave ==
    ASSUME TypeOK, LoopInv, AnswerDispatch
    PROVE  /\ mem' = disk'
           /\ \E S \in SUBSET Node : Wave(S) /\ Commit(mem, S) /\ S \cap Running = {}
<1>1. mem = disk
  BY IdleMemory DEF AnswerDispatch
<1>2. PICK S \in (SUBSET Offered(mem)) \ {{}} :
         /\ Cardinality(S) <= Free
         /\ \E first \in S :
               LET saved == SyncTree(Marked(mem, {first}), disk, {})
               IN  mem' = SyncTree(Marked(saved, S \ {first}), saved, {})
         /\ disk' = mem'
         /\ Commit(mem, S)
  BY DEF AnswerDispatch
<1>3. PICK first \in S :
         mem' = SyncTree(Marked(SyncTree(Marked(mem, {first}), disk, {}), S \ {first}),
                         SyncTree(Marked(mem, {first}), disk, {}), {})
  BY <1>2
<1>4. /\ S \subseteq ReadyNodes(disk) /\ S \in SUBSET Node
      /\ Cardinality(Dispatched(disk) \cup S) <= MaxParallel /\ S \cap Running = {}
  BY <1>1, <1>2, WaveFits DEF AnswerDispatch, LoopInv, Placed
<1>5. \A n \in S : disk[n].status = "pending"
  BY <1>4 DEF ReadyNodes, IsReady
<1> DEFINE saved == Marked(disk, {first})
<1>6. disk \in [Node -> NodeState] /\ saved \in [Node -> NodeState]
  BY MarkedType DEF TypeOK
<1>7. SyncTree(Marked(mem, {first}), disk, {}) = saved
  BY <1>1, <1>5, <1>6, SyncTreeWave
<1>8. \A n \in S \ {first} : saved[n].status = "pending"
  BY <1>4, <1>5 DEF Marked
<1>9. Marked(saved, S \ {first}) = Marked(disk, S)
  BY <1>3, <1>4, <1>6 DEF Marked
<1> HIDE DEF saved
<1>10. mem' = Marked(disk, S)
  BY <1>3, <1>6, <1>7, <1>8, <1>9, SyncTreeWave
<1> QED
  BY <1>2, <1>4, <1>10 DEF Wave

-----------------------------------------------------------------------------
(* The scheduler's steps. *)

(* A step that leaves the trees and the jobs alone. *)
LEMMA OwnedFrame ==
    ASSUME LoopInv, disk' = disk, mem' = mem, NEW n \in Node,
           job'[n] = job[n], resumeQ'[n] = resumeQ[n] \/ resumeQ'[n] = "no"
    PROVE  Owned(n)'
BY DEF LoopInv, Owned

LEMMA WaveOwned ==
    ASSUME TypeOK, LoopInv, ~Busy, NEW S, Wave(S), S \cap Running = {}, mem' = disk',
           resumeQ' = resumeQ, \A n \in Node : resumeQ[n] = "no",
           job' = [n \in Node |-> IF n \in S THEN "new" ELSE job[n]]
    PROVE  /\ \A n \in Node : Owned(n)'
           /\ \A n \in Dispatched(disk)' : job'[n] # "idle" \/ n \in Dispatched(disk)
<1>1. mem = disk
  BY IdleMemory
<1>2. ASSUME NEW n \in S PROVE /\ n \in Node /\ disk'[n].status = "dispatched"
                               /\ mem'[n] = disk'[n] /\ job'[n] = "new"
  <2>1. n \in Node
    BY DEF Wave, ReadyNodes
  <2> QED
    BY <2>1 DEF Wave, Marked, TypeOK, NodeState
<1>3. ASSUME NEW n \in Node, n \notin S
      PROVE  disk'[n] = disk[n] /\ mem'[n] = mem[n] /\ job'[n] = job[n]
  BY <1>1, <1>3 DEF Wave, Marked
<1>4. ASSUME NEW n \in Node PROVE Owned(n)'
  <2>1. CASE n \in S
    BY <1>2, <2>1 DEF Owned, OnWriter, OnReview, Unsaved
  <2>2. CASE n \notin S
    BY <1>3, <2>2 DEF Owned, LoopInv
  <2> QED
    BY <2>1, <2>2
<1> QED
  BY <1>2, <1>3, <1>4 DEF Dispatched

LEMMA LoopScheduling ==
    ASSUME TypeOK, LoopInv, Scheduling
    PROVE  LoopInv' /\ (disk' = disk \/ DiskStep)
<1> USE DEF durable, counters, scheduler
<1>1. Placed'
  BY PlacedScheduling DEF LoopInv
<1>2. edit' = edit /\ bypass' = bypass
  BY DEF Scheduling, Admit, DecideStop, DecideSkip, DecideTerminal, DecideNothing,
         DecideForced, DecideAsk, AnswerHalted, AnswerDispatch, AnswerWait, Rest, Reap
<1>3. ASSUME NEW k \in Node, Admit(k) PROVE LoopInv' /\ disk' = disk
  <2>1. /\ disk' = disk /\ mem' = mem /\ loop' = loop /\ loop = "deciding" /\ ~Busy
        /\ stopping' = stopping
        /\ \A n \in Node : n # k => job'[n] = job[n] /\ resumeQ'[n] = resumeQ[n]
        /\ job[k] = "idle" /\ resumeQ'[k] = "no"
        /\ job'[k] = IF resumeQ[k] = "dispatch" THEN "new" ELSE "toReview"
        /\ resumeQ[k] \in {"dispatch", "review"}
    BY <1>3 DEF Admit, TypeOK, LoopInv, Placed
  <2>2. ASSUME NEW n \in Node PROVE Owned(n)'
    <3>1. CASE n = k
      BY <2>1, <3>1 DEF LoopInv, Owned, OnWriter, OnReview, Unsaved
    <3>2. CASE n # k
      BY <2>1, <3>2, OwnedFrame
    <3> QED
      BY <3>1, <3>2
  <2>3. \A n \in Node : job'[n] \notin Midway
    BY <2>1 DEF Busy, Midway
  <2> QED
    BY <1>1, <1>2, <2>1, <2>2, <2>3 DEF LoopInv, Dispatched
<1>4. ASSUME DecideStop \/ DecideSkip \/ AnswerHalted \/ AnswerWait \/ Rest
      PROVE  LoopInv' /\ disk' = disk
  <2>1. /\ disk' = disk /\ mem' = mem /\ job' = job /\ resumeQ' = resumeQ /\ stopping' = stopping
        /\ loop' # "asking" /\ loop \notin {"down", "ended"}
    BY <1>4 DEF DecideStop, DecideSkip, AnswerHalted, AnswerWait, Rest, AtDecision
  <2>2. loop' = "resting" => \A n \in Node : job'[n] \notin Midway
    BY <1>4, <2>1 DEF DecideStop, DecideSkip, AnswerHalted, AnswerWait, Rest, AtDecision, Busy
  <2>3. \A n \in Node : Owned(n)'
    BY <2>1, OwnedFrame
  <2> QED
    BY <1>1, <1>2, <2>1, <2>2, <2>3 DEF LoopInv, Dispatched
<1>5. ASSUME DecideTerminal \/ DecideNothing \/ DecideAsk PROVE LoopInv' /\ disk' = disk
  <2>1. /\ disk' = disk /\ mem' = Synced /\ job' = job /\ resumeQ' = resumeQ
        /\ stopping' = stopping /\ ~stopping /\ loop \notin {"down", "ended"} /\ ~Busy
    BY <1>5 DEF DecideTerminal, DecideNothing, DecideAsk, Deciding, AtDecision, MayDecide
  <2>2. mem' = mem
    BY <2>1, IdleMemory
  <2>3. \A n \in Node : Owned(n)' /\ job'[n] \notin Midway
    BY <2>1, <2>2, OwnedFrame DEF Busy
  <2> QED
    BY <1>1, <1>2, <2>1, <2>3 DEF LoopInv, Dispatched
<1>6. ASSUME DecideForced \/ AnswerDispatch PROVE LoopInv' /\ DiskStep
  <2>1. PICK S \in SUBSET Node : /\ Wave(S) /\ S \cap Running = {} /\ mem' = disk'
                                 /\ \E tree : Commit(tree, S)
    BY <1>6, ForcedWave, AnsweredWave
  <2>2. job' = [n \in Node |-> IF n \in S THEN "new" ELSE job[n]] /\ loop' = "resting"
    BY <2>1 DEF Commit
  <2>3. /\ ~Busy /\ resumeQ' = resumeQ /\ stopping' = stopping /\ loop \notin {"down", "ended"}
        /\ \A n \in Node : resumeQ[n] = "no"
    BY <1>6 DEF DecideForced, AnswerDispatch, Deciding, AtDecision, MayDecide, Queued, LoopInv,
                Placed
  <2>4. /\ \A n \in Node : Owned(n)'
        /\ \A n \in Dispatched(disk)' : job'[n] # "idle" \/ n \in Dispatched(disk)
    BY <2>1, <2>2, <2>3, WaveOwned
  <2>5. \A n \in Node : job'[n] \notin Midway
    BY <2>2, <2>3 DEF Busy, Midway
  <2>6. \A n \in Node : job[n] # "idle" => job'[n] # "idle"
    BY <2>2
  <2> QED
    BY <1>1, <1>2, <2>1, <2>2, <2>3, <2>4, <2>5, <2>6 DEF LoopInv, DiskStep, Dispatched
<1>7. ASSUME Reap PROVE LoopInv' /\ disk' = disk
  <2>1. /\ disk' = disk /\ mem' = mem /\ resumeQ' = resumeQ /\ loop' = "deciding"
        /\ loop = "waiting" /\ ~Busy
        /\ \A n \in Node : job'[n] = IF job[n] \in {"done", "failed"} THEN "idle" ELSE job[n]
        /\ stopping' = (stopping \/ \E n \in Node : job[n] = "failed")
    BY <1>7 DEF Reap
  <2>2. ASSUME NEW n \in Node PROVE Owned(n)' /\ job'[n] \notin Midway
    BY <2>1 DEF LoopInv, Owned, OnWriter, OnReview, Unsaved, Busy, Midway
  <2>3. ~stopping' => \A n \in Dispatched(disk)' : job'[n] # "idle" \/ resumeQ'[n] # "no"
    BY <2>1 DEF LoopInv, Owned, Dispatched
  <2> QED
    BY <1>1, <1>2, <2>1, <2>2, <2>3 DEF LoopInv
<1> QED
  BY <1>3, <1>4, <1>5, <1>6, <1>7 DEF Scheduling

-----------------------------------------------------------------------------
(* The jobs' steps. *)

(* Only a splitter's writer leaves a proposal, and nobody else touches one. *)
LEMMA ProposalMoves ==
    ASSUME TypeOK, Next
    PROVE  \A n \in Node : \/ proposal'[n] = proposal[n]
                           \/ n \in Splitters /\ (proposal'[n] = "good" => n \in GoodSplit)
<1>1. ASSUME NEW S, WriterLeaves(S)
      PROVE  \A n \in Node : \/ proposal'[n] = proposal[n]
                             \/ n \in Splitters /\ (proposal'[n] = "good" => n \in GoodSplit)
  <2>1. PICK P \in SUBSET (S \cap Splitters) :
           proposal' = [n \in Node |-> IF n \notin P THEN proposal[n]
                                      ELSE IF n \in GoodSplit THEN "good" ELSE "bad"]
    BY <1>1 DEF WriterLeaves
  <2> QED
    BY <2>1
<1>2. ASSUME ~\E S : WriterLeaves(S) PROVE proposal' = proposal
  <2>1. CASE Scheduling
    BY <2>1 DEF Scheduling, Admit, DecideStop, DecideSkip, DecideTerminal, DecideNothing,
                DecideForced, DecideAsk, AnswerHalted, AnswerDispatch, AnswerWait, Rest, Reap,
                durable
  <2>2. ASSUME NEW k \in Node, Working(k) PROVE proposal' = proposal
    BY <1>2, <2>2
       DEF Working, JobShortcut, JobRecall, JobBypassed, JobEpisode, EpisodeEnds, SettleSplit,
           SettleConflict, SettleGates, SaveSettled, JobReview, ReviewEnds, SaveJudged,
           OnNodePassed, durable
  <2>3. CASE (\E k \in Node : JobRaises(k)) \/ Start \/ Crash
    BY <1>2, <2>3 DEF JobRaises, Start, Crash, durable
  <2>4. CASE Operating
    BY <2>4 DEF Operating, BeginEdit, SaveEdit, LogEdit, SetBypass, ToggleHalt
  <2> QED
    BY <2>1, <2>2, <2>3, <2>4 DEF Next
<1>3. CASE \E S : WriterLeaves(S)
  <2>1. PICK S : WriterLeaves(S)
    BY <1>3
  <2> QED
    BY <1>1, <2>1
<1>4. CASE ~\E S : WriterLeaves(S)
  BY <1>2, <1>4
<1> QED
  BY <1>3, <1>4

Proposed == \A n \in Node : proposal[n] = "good" => n \in GoodSplit

(* A job that is between two awaits is the only one.                        *)
LEMMA Alone ==
    ASSUME TypeOK, LoopInv, NEW k \in Node, job[k] \in Midway \/ ~Busy
    PROVE  /\ \A n \in Node : n # k => job[n] \notin Midway /\ mem[n] = disk[n]
           /\ job[k] \notin Unsaved => mem = disk
           /\ loop # "resting"
<1>1. \A n \in Node : n # k => job[n] \notin Midway
  BY DEF LoopInv, Busy
<1>2. \A n \in Node : n # k => job[n] \notin Unsaved
  BY <1>1 DEF Midway, Unsaved
<1>3. job[k] \notin Unsaved => mem = disk
  BY <1>2, MemoryIsDisk
<1>4. loop # "resting"
  BY DEF LoopInv, Busy
<1> QED
  BY <1>1, <1>2, <1>3, <1>4 DEF LoopInv, Owned

(* The moves of one job keep the invariant if what it now owns is right.    *)
LEMMA JobMoves ==
    ASSUME TypeOK, LoopInv, NEW k \in Node, job[k] \in Midway \/ ~Busy,
           Working(k) \/ JobRaises(k), Owned(k)',
           \A n \in Node : n # k => Owned(n)',
           disk' = disk \/ DiskStep,
           \A n \in Node : n # k /\ disk'[n].status = "dispatched" => disk[n].status = "dispatched"
    PROVE  LoopInv' /\ (disk' = disk \/ DiskStep)
<1>1. /\ resumeQ' = resumeQ /\ loop' = loop /\ edit' = edit /\ bypass' = bypass
      /\ stopping' = stopping
      /\ \A n \in Node : n # k => job'[n] = job[n]
      /\ job[k] # "idle" /\ job'[k] # "idle"
  BY WorkingFrame DEF scheduler
<1>2. Placed'
  BY <1>1 DEF LoopInv, Placed
<1>3. \A n \in Node : n # k => job'[n] \notin Midway
  BY <1>1, Alone
<1>4. loop' # "resting"
  BY <1>1, Alone
<1>5. loop' \notin {"down", "ended"} /\ ~stopping'
         => \A n \in Dispatched(disk)' : job'[n] # "idle" \/ resumeQ'[n] # "no"
  <2>1. \A n \in Dispatched(disk)' : n \in Node /\ (n = k \/ n \in Dispatched(disk))
    BY DEF Dispatched
  <2> QED
    BY <1>1, <2>1 DEF LoopInv
<1>6. \A n \in Node : Owned(n)'
  OBVIOUS
<1>7. edit' = NoEdit /\ (\A n \in Node : ~bypass'[n]) /\ (loop' = "asking" => ~stopping')
  BY <1>1 DEF LoopInv
<1> QED
  BY <1>2, <1>3, <1>4, <1>5, <1>6, <1>7 DEF LoopInv

(* ... in memory only. *)
LEMMA MemoryMoves ==
    ASSUME TypeOK, LoopInv, NEW k \in Node, job[k] \in Midway \/ ~Busy,
           Working(k) \/ JobRaises(k), disk' = disk, Owned(k)',
           \A n \in Node : n # k => mem'[n] = mem[n]
    PROVE  LoopInv'
<1>1. resumeQ' = resumeQ /\ \A n \in Node : n # k => job'[n] = job[n]
  BY WorkingFrame
<1>2. \A n \in Node : n # k => Owned(n)'
  BY <1>1 DEF LoopInv, Owned
<1> QED
  BY <1>2, JobMoves

(* ... or by saving an outcome of the node. *)
LEMMA SavedMoves ==
    ASSUME TypeOK, LoopInv, NEW k \in Node, job[k] \in Midway,
           Working(k) \/ JobRaises(k), NEW m \in [Node -> NodeState], Save(m),
           \A n \in Node : n # k => m[n] = mem[n],
           \/ disk[k].status = "dispatched" /\ WriterMoves(disk[k], m[k])
           \/ disk[k].status = "awaiting_review" /\ ReviewMoves(disk[k], m[k]),
           \/ job'[k] = "done"
           \/ job'[k] = "reviewing" /\ m[k].status = "awaiting_review"
           \/ job'[k] = "passing" /\ m[k].status = "passed"
    PROVE  LoopInv' /\ DiskStep
<1>1. disk \in [Node -> NodeState] /\ \A n \in Node : n # k => m[n] = disk[n]
  BY Alone DEF TypeOK
<1>2. m[k].status \notin {"absent", "dispatched"}
  BY DEF WriterMoves, ReviewMoves, Charged
<1>3. disk' = m /\ mem' = m
  BY <1>1, <1>2, SyncTreeOutcome DEF Save, InFlightStatus
<1>4. disk' = [disk EXCEPT ![k] = disk'[k]] /\ disk'[k] \in NodeState
  BY <1>1, <1>3
<1>5. DiskStep
  BY <1>3, <1>4 DEF DiskStep, WriterStep, ReviewStep
<1>6. resumeQ' = resumeQ /\ resumeQ[k] = "no" /\ \A n \in Node : n # k => job'[n] = job[n]
  BY WorkingFrame DEF TypeOK, LoopInv, Placed
<1>7. \A n \in Node : n # k => Owned(n)'
  BY <1>1, <1>3, <1>6 DEF LoopInv, Owned
<1>8. Owned(k)'
  BY <1>2, <1>3, <1>6 DEF Owned, OnWriter, OnReview, Unsaved
<1> QED
  BY <1>1, <1>3, <1>5, <1>7, <1>8, JobMoves

LEMMA LoopWorking ==
    ASSUME TypeOK, LoopInv, SplitConsistent, Proposed, NEW k \in Node, Working(k) \/ JobRaises(k)
    PROVE  LoopInv' /\ (disk' = disk \/ DiskStep)
<1> USE DEF durable, counters, scheduler
<1>0. /\ resumeQ' = resumeQ /\ resumeQ[k] = "no" /\ ~bypass[k] /\ Owned(k)
      /\ \A n \in Node : n # k => job'[n] = job[n]
      /\ job \in [Node -> JobStage] /\ mem \in [Node -> NodeState] /\ disk \in [Node -> NodeState]
  BY WorkingFrame DEF TypeOK, LoopInv, Placed
<1>1. ASSUME JobShortcut(k) \/ JobBypassed(k) PROVE FALSE
  BY <1>0, <1>1 DEF JobShortcut, JobBypassed
<1>2. ASSUME JobRecall(k) \/ JobEpisode(k) \/ EpisodeEnds(k) \/ JobRaises(k)
      PROVE  LoopInv' /\ disk' = disk
  <2>1. /\ disk' = disk /\ mem' = mem /\ ~Busy /\ job[k] \in {"new", "episode"}
        /\ job'[k] \in {"recalled", "episode", "completed", "failed"}
    BY <1>0, <1>2 DEF JobRecall, JobEpisode, EpisodeEnds, JobRaises, Dispatching, Move
  <2>2. Owned(k)'
    BY <1>0, <2>1 DEF Owned, OnWriter, OnReview, Unsaved
  <2> QED
    BY <1>2, <2>1, <2>2, MemoryMoves
<1>3. ASSUME SettleSplit(k) PROVE LoopInv' /\ DiskStep
  <2>1. job[k] \in {"completed", "recalled"} /\ job[k] \in Midway /\ job'[k] = "done"
    BY <1>0, <1>3 DEF SettleSplit, Settling, Midway, Move
  <2>2. mem = disk /\ disk[k].status = "dispatched" /\ disk' = mem'
    BY <1>0, <1>3, <2>1, Alone DEF Owned, OnWriter, Unsaved, SettleSplit
  <2>3. CASE proposal[k] = "good"
    <3>1. disk' = Graft(disk, k) /\ mem' = disk'
      BY <1>3, <2>2, <2>3 DEF SettleSplit
    <3>2. DiskStep
      BY <2>2, <2>3, <3>1 DEF DiskStep, SplitStep, Proposed
    <3>3. disk'[k].status = "split"
      BY <1>0, <3>1 DEF Graft, NodeState
    <3>4. ASSUME NEW n \in Node, n # k PROVE Owned(n)'
      <4>1. CASE n \in Children[k]
        <5>1. disk[n].status = "absent"
          BY <2>2, <4>1 DEF SplitConsistent
        <5>2. disk'[n].status = "pending" /\ mem'[n] = disk'[n]
          BY <3>1, <3>4, <4>1 DEF Graft, FreshNode
        <5> QED
          BY <1>0, <3>4, <5>1, <5>2 DEF LoopInv, Owned, OnWriter, OnReview, Unsaved
      <4>2. CASE n \notin Children[k]
        <5>1. disk'[n] = disk[n] /\ mem'[n] = mem[n]
          BY <2>2, <3>1, <3>4, <4>2 DEF Graft
        <5> QED
          BY <1>0, <3>4, <5>1 DEF LoopInv, Owned
      <4> QED
        BY <4>1, <4>2
    <3>5. Owned(k)'
      BY <1>0, <2>1, <3>1, <3>3 DEF Owned, OnWriter, OnReview, Unsaved
    <3>6. \A n \in Node : n # k /\ disk'[n].status = "dispatched" => disk[n].status = "dispatched"
      BY <3>1 DEF Graft, FreshNode
    <3> QED
      BY <1>3, <2>1, <3>2, <3>4, <3>5, <3>6, JobMoves DEF Working
  <2>4. CASE proposal[k] # "good"
    <3> DEFINE m == [mem EXCEPT ![k].status = "pending"]
    <3>1. m \in [Node -> NodeState] /\ m[k].status = "pending" /\ m[k].attempts = mem[k].attempts
          /\ \A n \in Node : n # k => m[n] = mem[n]
      BY <1>0 DEF NodeState, Status
    <3>2. mem' = m /\ disk' = m
      BY <1>3, <2>4 DEF SettleSplit
    <3> HIDE DEF m
    <3>3. Save(m)
      BY <2>2, <3>1, <3>2, <1>0, SyncTreeOutcome DEF Save, InFlightStatus
    <3>4. WriterMoves(disk[k], m[k])
      BY <2>2, <3>1 DEF WriterMoves
    <3> QED
      BY <1>3, <2>1, <2>2, <3>1, <3>3, <3>4, SavedMoves DEF Working
  <2> QED
    BY <2>3, <2>4
<1>4. ASSUME SettleConflict(k) PROVE LoopInv' /\ DiskStep
  <2>1. job[k] = "completed" /\ job[k] \in Midway /\ job'[k] = "done"
    BY <1>0, <1>4 DEF SettleConflict, Midway, Move
  <2>2. mem = disk /\ disk[k].status = "dispatched"
    BY <1>0, <2>1, Alone DEF Owned, OnWriter, Unsaved
  <2> DEFINE m == [mem EXCEPT ![k].status = "pending", ![k].defect = "other"]
  <2>3. m \in [Node -> NodeState] /\ m[k].status = "pending" /\ m[k].attempts = mem[k].attempts
        /\ \A n \in Node : n # k => m[n] = mem[n]
    <3>1. [mem EXCEPT ![k].status = "pending"] \in [Node -> NodeState]
      BY <1>0 DEF NodeState, Status
    <3> QED
      BY <1>0, <3>1 DEF NodeState, Defect
  <2>4. Save(m)
    BY <1>4 DEF SettleConflict
  <2> HIDE DEF m
  <2>5. WriterMoves(disk[k], m[k])
    BY <2>2, <2>3 DEF WriterMoves
  <2> QED
    BY <1>4, <2>1, <2>2, <2>3, <2>4, <2>5, SavedMoves DEF Working
<1>5. ASSUME SettleGates(k) PROVE LoopInv' /\ disk' = disk
  <2>1. /\ disk' = disk /\ job[k] \in {"completed", "recalled"} /\ job[k] \in Midway
        /\ job'[k] = "settled"
    BY <1>0, <1>5 DEF SettleGates, Settling, Midway, Move
  <2>2. mem = disk /\ disk[k].status = "dispatched"
    BY <1>0, <2>1, Alone DEF Owned, OnWriter, Unsaved
  <2>3. PICK o : mem' = [mem EXCEPT ![k] = AfterWriter(mem[k], o).node]
    BY <1>5 DEF SettleGates
  <2>4. /\ WriterMoves(disk'[k], mem'[k])
        /\ \A n \in Node : n # k => mem'[n] = mem[n]
    BY <1>0, <2>1, <2>2, <2>3, AfterWriterMoves
  <2>5. Owned(k)'
    BY <1>0, <2>1, <2>2, <2>4 DEF Owned, OnWriter, OnReview, Unsaved
  <2> QED
    BY <1>5, <2>1, <2>4, <2>5, MemoryMoves DEF Working
<1>6. ASSUME SaveSettled(k) PROVE LoopInv' /\ DiskStep
  <2>1. /\ job[k] = "settled" /\ job[k] \in Midway /\ Save(mem)
        /\ disk[k].status = "dispatched" /\ WriterMoves(disk[k], mem[k])
    BY <1>0, <1>6 DEF SaveSettled, Midway, Owned, OnWriter
  <2>2. mem'[k] = mem[k]
    <3>1. \A n \in Node : n # k => mem[n] = disk[n]
      BY <2>1, Alone
    <3>2. mem[k].status # "absent"
      BY <2>1 DEF WriterMoves, Charged
    <3> QED
      BY <1>0, <2>1, <3>1, <3>2, SyncTreeOutcome DEF Save, InFlightStatus
  <2>3. job'[k] = "done" \/ (job'[k] = "reviewing" /\ mem[k].status = "awaiting_review")
    BY <1>0, <1>6, <2>2 DEF SaveSettled, Move, ToReview
  <2> QED
    BY <1>0, <1>6, <2>1, <2>3, SavedMoves DEF Working
<1>7. ASSUME JobReview(k) PROVE LoopInv' /\ disk' = disk
  <2>1. /\ disk' = disk /\ mem' = mem /\ ~Busy /\ job[k] = "toReview"
        /\ mem[k] = disk[k] /\ disk[k].status = "awaiting_review"
    BY <1>0, <1>7 DEF JobReview, Owned, OnReview, Unsaved
  <2>2. job'[k] = "reviewing"
    BY <1>0, <1>7, <2>1 DEF JobReview, Move, ToReview
  <2>3. Owned(k)'
    BY <1>0, <2>1, <2>2 DEF Owned, OnWriter, OnReview, Unsaved
  <2> QED
    BY <1>7, <2>1, <2>3, MemoryMoves DEF Working
<1>8. ASSUME ReviewEnds(k) PROVE LoopInv' /\ disk' = disk
  <2>1. /\ disk' = disk /\ job[k] = "reviewing" /\ ~Busy /\ job'[k] = "judged"
        /\ mem[k] = disk[k] /\ disk[k].status = "awaiting_review"
    BY <1>0, <1>8 DEF ReviewEnds, Move, Owned, OnReview, Unsaved
  <2>2. PICK verdict : mem' = [mem EXCEPT ![k] = AfterReview(mem[k], verdict).node]
    BY <1>8 DEF ReviewEnds
  <2>3. /\ ReviewMoves(disk'[k], mem'[k])
        /\ \A n \in Node : n # k => mem'[n] = mem[n]
    BY <1>0, <2>1, <2>2, AfterReviewMoves
  <2>4. Owned(k)'
    BY <1>0, <2>1, <2>3 DEF Owned, OnWriter, OnReview, Unsaved
  <2> QED
    BY <1>8, <2>1, <2>3, <2>4, MemoryMoves DEF Working
<1>9. ASSUME SaveJudged(k) PROVE LoopInv' /\ DiskStep
  <2>1. /\ job[k] = "judged" /\ job[k] \in Midway /\ Save(mem)
        /\ disk[k].status = "awaiting_review" /\ ReviewMoves(disk[k], mem[k])
    BY <1>0, <1>9 DEF SaveJudged, Midway, Owned, OnReview
  <2>2. mem'[k] = mem[k]
    <3>1. \A n \in Node : n # k => mem[n] = disk[n]
      BY <2>1, Alone
    <3>2. mem[k].status # "absent"
      BY <2>1 DEF ReviewMoves, Charged
    <3> QED
      BY <1>0, <2>1, <3>1, <3>2, SyncTreeOutcome DEF Save, InFlightStatus
  <2>3. job'[k] = "done" \/ (job'[k] = "passing" /\ mem[k].status = "passed")
    BY <1>0, <1>9, <2>2 DEF SaveJudged, Move
  <2> QED
    BY <1>0, <1>9, <2>1, <2>3, SavedMoves DEF Working
<1>10. ASSUME OnNodePassed(k) PROVE LoopInv' /\ disk' = disk
  <2>1. /\ disk' = disk /\ mem' = mem /\ job[k] = "passing" /\ job[k] \in Midway
        /\ job'[k] = "done"
    BY <1>0, <1>10 DEF OnNodePassed, Move, Midway
  <2>2. Owned(k)'
    BY <1>0, <2>1 DEF Owned, OnWriter, OnReview, Unsaved
  <2> QED
    BY <1>10, <2>1, <2>2, MemoryMoves DEF Working
<1> QED
  BY <1>1, <1>2, <1>3, <1>4, <1>5, <1>6, <1>7, <1>8, <1>9, <1>10 DEF Working

-----------------------------------------------------------------------------
(* The steps from outside, and the durable tree's own invariants. *)

LEMMA LoopOutside ==
    ASSUME Unedited, TypeOK, LoopInv, Start \/ Crash \/ Operating
    PROVE  LoopInv' /\ disk' = disk
<1> USE DEF durable, counters, scheduler
<1>1. CASE Start
  <2>1. \A n \in Node : job'[n] = "idle"
    BY <1>1 DEF LoopInv, Placed, Start
  <2>2. Placed'
    BY <1>1, <2>1 DEF Placed, Start
  <2>3. /\ disk' = disk /\ edit' = edit /\ bypass' = bypass /\ loop' = "deciding"
        /\ resumeQ' = [n \in Node |-> IF disk[n].status = "dispatched" THEN "dispatch"
                                      ELSE IF disk[n].status = "awaiting_review" THEN "review"
                                      ELSE "no"]
        /\ mem' = [n \in Node |-> disk[n]]
    BY <1>1 DEF Start, LoopInv
  <2>4. ASSUME NEW n \in Node PROVE Owned(n)'
    BY <2>1, <2>3 DEF Owned, OnWriter, OnReview, Unsaved
  <2> QED
    BY <2>1, <2>2, <2>3, <2>4 DEF LoopInv, Dispatched, Midway
<1>2. CASE Crash
  <2>1. /\ disk' = disk /\ mem' = disk /\ edit' = edit /\ bypass' = bypass /\ loop' = "down"
        /\ job' = [n \in Node |-> "idle"] /\ resumeQ' = [n \in Node |-> "no"]
    BY <1>2 DEF Crash
  <2>2. \A n \in Node : Owned(n)'
    BY <2>1 DEF Owned, OnWriter, OnReview, Unsaved
  <2> QED
    BY <2>1, <2>2 DEF LoopInv, Placed, Midway
<1>3. CASE Operating
  <2>1. ToggleHalt
    BY <1>3, LoopAssumption DEF Operating, Unedited, SaveEdit, LogEdit, SetBypass, MayEdit, LoopInv
  <2>2. UNCHANGED <<disk, mem, job, loop, resumeQ, stopping, edit, bypass>>
    BY <2>1 DEF ToggleHalt
  <2> QED
    BY <2>2 DEF LoopInv, Placed, Owned, Dispatched
<1> QED
  BY <1>1, <1>2, <1>3

AbsentUntouched == \A n \in Node : disk[n].status = "absent" => disk[n].attempts = 0

TreeInv == /\ AttemptsBounded /\ InFlightDepsPassed /\ SplitConsistent
           /\ AbsentUntouched /\ Proposed

LEMMA TreeStep == ASSUME TypeOK, TreeInv, Proposed', DiskStep PROVE TreeInv'
<1>0. disk \in [Node -> NodeState] /\ \A n \in Node : disk[n] \in NodeState
  BY DEF TypeOK
<1>1. ASSUME NEW S \in SUBSET Node, Wave(S) PROVE TreeInv'
  <2>1. \A n \in Node : IF n \in S
                        THEN /\ disk'[n] = [disk[n] EXCEPT !.status = "dispatched"]
                             /\ disk'[n].status = "dispatched"
                             /\ disk'[n].attempts = disk[n].attempts
                             /\ disk[n].status = "pending"
                             /\ \A d \in DependsOn[n] : disk[d].status = "passed"
                        ELSE disk'[n] = disk[n]
    BY <1>0, <1>1 DEF Wave, Marked, ReadyNodes, IsReady, NodeState
  <2>2. AttemptsBounded'
    BY <2>1 DEF AttemptsBounded, TreeInv
  <2>3. InFlightDepsPassed'
    <3>1. \A n \in Node : disk[n].status = "passed" => disk'[n].status = "passed"
      BY <2>1
    <3>2. \A n \in Node : disk'[n].status \in Worked \cup {"dispatched", "split"}
                             => \A d \in DependsOn[n] : d \in Node /\ disk[d].status = "passed"
      BY <2>1, NodeAssumption DEF InFlightDepsPassed, TreeInv
    <3> QED
      BY <3>1, <3>2 DEF InFlightDepsPassed
  <2>4. SplitConsistent'
    <3>1. \A n \in Node : /\ disk'[n].status = "absent" <=> disk[n].status = "absent"
                          /\ disk'[n].status = "split" <=> disk[n].status = "split"
      BY <2>1
    <3> QED
      BY <3>1, NodeAssumption DEF SplitConsistent, TreeInv
  <2>5. AbsentUntouched'
    BY <2>1 DEF AbsentUntouched, TreeInv
  <2> QED
    BY <2>2, <2>3, <2>4, <2>5 DEF TreeInv
<1>2. ASSUME NEW n \in Node, WriterStep(n) \/ ReviewStep(n) PROVE TreeInv'
  <2>1. /\ \A m \in Node : m # n => disk'[m] = disk[m]
        /\ disk[n].status \in {"dispatched", "awaiting_review"}
        /\ disk'[n].status \in {"pending", "awaiting_review", "passed", "blocked"}
        /\ disk'[n].status \in {"awaiting_review", "passed"} => disk'[n].attempts = disk[n].attempts
    BY <1>0, <1>2 DEF WriterStep, ReviewStep, WriterMoves, ReviewMoves, Charged
  <2>2. AttemptsBounded'
    <3>1. disk[n].attempts < MaxAttempts /\ disk[n].attempts \in Nat /\ MaxAttempts \in Nat
      BY <1>0, <2>1, BudgetAssumption DEF AttemptsBounded, TreeInv, NodeState
    <3>2. /\ disk'[n].status \in {"pending", "awaiting_review"} => disk'[n].attempts < MaxAttempts
          /\ disk'[n].status = "blocked" => \/ disk'[n].attempts = MaxAttempts
                                            \/ disk'[n].defect = "provider"
      BY <1>2, <3>1 DEF WriterStep, ReviewStep, WriterMoves, ReviewMoves, Charged
    <3> QED
      BY <2>1, <3>2 DEF AttemptsBounded, TreeInv
  <2>3. InFlightDepsPassed'
    <3>1. \A m \in Node : disk[m].status = "passed" => disk'[m].status = "passed"
      BY <2>1
    <3>2. \A m \in Node : disk'[m].status \in Worked \cup {"dispatched", "split"}
                             => \A d \in DependsOn[m] : d \in Node /\ disk[d].status = "passed"
      BY <2>1, NodeAssumption DEF InFlightDepsPassed, TreeInv, Worked
    <3> QED
      BY <3>1, <3>2 DEF InFlightDepsPassed
  <2>4. SplitConsistent'
    <3>1. \A m \in Node : /\ disk'[m].status = "absent" <=> disk[m].status = "absent"
                          /\ disk'[m].status = "split" <=> disk[m].status = "split"
      BY <2>1
    <3> QED
      BY <3>1, NodeAssumption DEF SplitConsistent, TreeInv
  <2>5. AbsentUntouched'
    BY <2>1 DEF AbsentUntouched, TreeInv
  <2> QED
    BY <2>2, <2>3, <2>4, <2>5 DEF TreeInv
<1>3. ASSUME NEW n \in Node, SplitStep(n) PROVE TreeInv'
  <2>1. /\ \A m \in Node : m # n /\ m \notin Children[n] => disk'[m] = disk[m]
        /\ \A m \in Children[n] : /\ m \in Node /\ m # n /\ disk'[m] = FreshNode
                                  /\ disk[m].status = "absent"
        /\ disk[n].status = "dispatched" /\ disk'[n].status = "split"
    BY <1>0, <1>3, NodeAssumption, GraftAssumption
       DEF SplitStep, Graft, NodeState, SplitConsistent, TreeInv
  <2>2. AttemptsBounded'
    BY <2>1, BudgetAssumption DEF AttemptsBounded, TreeInv, FreshNode
  <2>3. InFlightDepsPassed'
    <3>1. \A m \in Node : disk[m].status = "passed" => disk'[m].status = "passed"
      BY <2>1
    <3>2. \A m \in Node : disk'[m].status \in Worked \cup {"dispatched", "split"}
                             => \A d \in DependsOn[m] : d \in Node /\ disk[d].status = "passed"
      BY <2>1, NodeAssumption DEF InFlightDepsPassed, TreeInv, Worked, FreshNode
    <3> QED
      BY <3>1, <3>2 DEF InFlightDepsPassed
  <2>4. SplitConsistent'
    <3>1. ASSUME NEW p \in Node, NEW child \in Children[p]
          PROVE  disk'[child].status = "absent" <=> disk'[p].status # "split"
      <4>1. child \in Node /\ (disk[child].status = "absent" <=> disk[p].status # "split")
        BY NodeAssumption DEF SplitConsistent, TreeInv
      <4>2. CASE p = n
        BY <2>1, <4>2 DEF FreshNode
      <4>3. CASE p # n
        <5>1. child \notin Children[n]
          BY <4>3, GraftAssumption
        <5>2. disk'[child].status = "absent" <=> disk[child].status = "absent"
          BY <2>1, <4>1, <5>1
        <5>3. disk'[p].status = "split" <=> disk[p].status = "split"
          BY <2>1, <4>3 DEF FreshNode
        <5> QED
          BY <4>1, <5>2, <5>3
      <4> QED
        BY <4>2, <4>3
    <3> QED
      BY <3>1 DEF SplitConsistent
  <2>5. AbsentUntouched'
    BY <2>1 DEF AbsentUntouched, TreeInv, FreshNode
  <2> QED
    BY <2>2, <2>3, <2>4, <2>5 DEF TreeInv
<1> QED
  BY <1>1, <1>2, <1>3 DEF DiskStep

LEMMA LoopInit == Init => LoopInv /\ TreeInv
<1> SUFFICES ASSUME Init PROVE LoopInv /\ TreeInv
  OBVIOUS
<1>1. \A n \in Node : disk[n] = (IF n \in Grafted THEN AbsentNode ELSE FreshNode) /\ mem[n] = disk[n]
  BY DEF Init, InitialTree
<1>2. \A n \in Node : disk[n].status = (IF n \in Grafted THEN "absent" ELSE "pending")
                      /\ disk[n].attempts = 0
  BY <1>1 DEF AbsentNode, FreshNode
<1>3. LoopInv
  BY <1>1, <1>2 DEF Init, LoopInv, Placed, Owned, OnWriter, OnReview, Unsaved, Midway, Dispatched
<1>4. SplitConsistent
  BY <1>2, NodeAssumption DEF SplitConsistent, Grafted
<1>5. AttemptsBounded /\ InFlightDepsPassed
  BY <1>2, BudgetAssumption DEF AttemptsBounded, InFlightDepsPassed, Worked
<1>6. AbsentUntouched /\ Proposed
  BY <1>2 DEF AbsentUntouched, Init, Proposed
<1> QED
  BY <1>3, <1>4, <1>5, <1>6 DEF TreeInv

LEMMA LoopStep ==
    ASSUME Unedited
    PROVE  TypeOK /\ LoopInv /\ TreeInv /\ [Next]_vars
              => LoopInv' /\ TreeInv' /\ (disk' = disk \/ DiskStep)
<1> SUFFICES ASSUME TypeOK, LoopInv, TreeInv, [Next]_vars
             PROVE  LoopInv' /\ TreeInv' /\ (disk' = disk \/ DiskStep)
  OBVIOUS
<1>1. CASE UNCHANGED vars
  BY <1>1 DEF vars, durable, scheduler, counters, LoopInv, TreeInv, Placed, Owned, Dispatched,
              AttemptsBounded, InFlightDepsPassed, SplitConsistent, AbsentUntouched, Proposed
<1>2. CASE Next
  <2>1. LoopInv' /\ (disk' = disk \/ DiskStep)
    BY <1>2, LoopScheduling, LoopWorking, LoopOutside DEF Next, TreeInv
  <2>2. Proposed'
    BY <1>2, ProposalMoves DEF Proposed, TreeInv
  <2>3. TreeInv'
    BY <2>1, <2>2, TreeStep DEF TreeInv, AttemptsBounded, InFlightDepsPassed, SplitConsistent,
                                AbsentUntouched
  <2> QED
    BY <2>1, <2>3
<1> QED
  BY <1>1, <1>2

LEMMA LoopCorrect == ASSUME Unedited PROVE Spec => [](TypeOK /\ LoopInv /\ TreeInv)
<1>1. TypeOK /\ LoopInv /\ TreeInv /\ [Next]_vars => LoopInv' /\ TreeInv'
  BY LoopStep
<1> QED
  BY <1>1, LoopInit, TypeCorrect, PTL DEF Spec

-----------------------------------------------------------------------------
(* The theorems. *)

(* At every await of the event loop the tree in memory is the one on disk:
   no path of a job leaves a transition unsaved behind an await.            *)
THEOREM MemoryFollowsDisk == ASSUME Unedited PROVE Spec => []DiskIsTruth
<1>1. TypeOK /\ LoopInv => DiskIsTruth
  BY IdleMemory DEF DiskIsTruth, Awaiting
<1> QED
  BY <1>1, LoopCorrect, PTL

(* No interleaving of charges, replays, forgiven episodes and restarts lets
   a node run with its attempt budget spent, or blocks one that has budget
   left while its provider is up.                                           *)
THEOREM BudgetIsKept == ASSUME Unedited PROVE Spec => []AttemptsBounded
BY LoopCorrect, PTL DEF TreeInv

(* A node is handed out, reviewed, passed or split only with all of its
   dependencies passed on disk, whatever was resumed or replayed.           *)
THEOREM DependenciesFirst == ASSUME Unedited PROVE Spec => []InFlightDepsPassed
BY LoopCorrect, PTL DEF TreeInv

(* The children of a split are in the durable tree exactly while their
   parent reads "split": no crash, replay or rejected proposal leaves half
   of a split behind.                                                       *)
THEOREM SplitsAreWhole == ASSUME Unedited PROVE Spec => []SplitConsistent
BY LoopCorrect, PTL DEF TreeInv

-----------------------------------------------------------------------------
(* The refinement of the abstract life cycle. *)

LEMMA PhaseOf ==
    ASSUME NEW x
    PROVE  /\ x.status = "pending" => Phase(x) = "waiting"
           /\ x.status = "dispatched" => Phase(x) = "active"
           /\ x.status = "awaiting_review" => Phase(x) = "submitted"
           /\ x.status \in {"absent", "passed", "blocked", "split"} => Phase(x) = x.status
BY DEF Phase

LEMMA PhaseIs ==
    ASSUME NEW x \in NodeState
    PROVE  /\ Phase(x) = "active" => x.status = "dispatched"
           /\ Phase(x) = "passed" => x.status = "passed"
BY PhaseOf DEF NodeState, Status, InFlightStatus

(* The cardinality NodeLifecycle is instantiated with is the same operator. *)
LEMMA SameCardinality == ASSUME NEW S PROVE Abstract!Cardinality(S) = Cardinality(S)
BY Zenon DEF Abstract!Cardinality, Cardinality

LEMMA LifecycleInit == Init => Abstract!Init
<1> SUFFICES ASSUME Init PROVE Abstract!Init
  OBVIOUS
<1>1. \A n \in Node : disk[n] = IF n \in Grafted THEN AbsentNode ELSE FreshNode
  BY DEF Init, InitialTree
<1>2. \A n \in Node : /\ Phase(disk[n]) = IF n \in Grafted THEN "absent" ELSE "waiting"
                      /\ disk[n].attempts = 0
  BY <1>1, PhaseOf DEF AbsentNode, FreshNode
<1>3. \A n \in Node : n \in Grafted <=> \E p \in Node : n \in Children[p]
  BY DEF Grafted
<1> QED
  BY <1>2, <1>3 DEF Abstract!Init

LEMMA LifecycleStep ==
    ASSUME TypeOK, TypeOK', TreeInv, DiskStep
    PROVE  Abstract!Next \/ UNCHANGED Abstract!lifecycle
<1>0. /\ disk \in [Node -> NodeState] /\ disk' \in [Node -> NodeState]
      /\ \A n \in Node : disk[n] \in NodeState /\ disk'[n] \in NodeState
  BY DEF TypeOK
<1>1. ASSUME NEW S \in SUBSET Node, Wave(S) PROVE Abstract!Next
  <2>1. \A n \in Node : IF n \in S
                        THEN /\ Phase(disk[n]) = "waiting" /\ disk[n].attempts < MaxAttempts
                             /\ \A d \in DependsOn[n] : Phase(disk[d]) = "passed"
                             /\ Phase(disk'[n]) = "active" /\ disk'[n].attempts = disk[n].attempts
                        ELSE disk'[n] = disk[n]
    <3>1. \A n \in Node : IF n \in S
                          THEN /\ disk'[n].status = "dispatched" /\ disk[n].status = "pending"
                               /\ disk'[n].attempts = disk[n].attempts
                               /\ \A d \in DependsOn[n] : disk[d].status = "passed"
                          ELSE disk'[n] = disk[n]
      BY <1>0, <1>1 DEF Wave, Marked, ReadyNodes, IsReady, NodeState
    <3> QED
      BY <3>1, PhaseOf DEF TreeInv, AttemptsBounded
  <2>2. S \subseteq {n \in Node : Abstract!Startable(n)}
    BY <2>1, NodeAssumption DEF Abstract!Startable
  <2>3. Abstract!Active = Dispatched(disk)
    BY <1>0, PhaseIs, PhaseOf DEF Abstract!Active, Dispatched
  <2>4. Cardinality(Abstract!Active \cup S) <= MaxParallel /\ S # {}
    BY <1>1, <2>3 DEF Wave
  <2>5. [n \in Node |-> Phase(disk[n])]'
           = [n \in Node |-> IF n \in S THEN "active" ELSE [m \in Node |-> Phase(disk[m])][n]]
    BY <2>1
  <2>6. [n \in Node |-> disk[n].attempts]' = [n \in Node |-> disk[n].attempts]
    BY <2>1
  <2>7. S \in (SUBSET {n \in Node : Abstract!Startable(n)}) \ {{}}
    BY <2>2, <2>4
  <2>8. Abstract!Begin
    <3>1. \E T \in (SUBSET {n \in Node : Abstract!Startable(n)}) \ {{}} :
             /\ Abstract!Cardinality(Abstract!Active \cup T) <= MaxParallel
             /\ [n \in Node |-> Phase(disk[n])]'
                  = [n \in Node |-> IF n \in T THEN "active"
                                    ELSE [m \in Node |-> Phase(disk[m])][n]]
             /\ UNCHANGED [n \in Node |-> disk[n].attempts]
      <4>1. Abstract!Cardinality(Abstract!Active \cup S) <= MaxParallel
        BY <2>4, SameCardinality
      <4> QED
        BY <4>1, <2>5, <2>6, <2>7, Zenon
    <3> QED
      BY <3>1, Zenon DEF Abstract!Begin
  <2> QED
    BY <2>8 DEF Abstract!Next
<1>2. ASSUME NEW n \in Node, SplitStep(n) PROVE Abstract!Next
  <2>1. /\ disk[n].status = "dispatched" /\ disk'[n].status = "split"
        /\ disk'[n].attempts = disk[n].attempts
        /\ \A m \in Node \ {n} : IF m \in Children[n]
                                 THEN disk'[m].status = "pending" /\ disk'[m].attempts = 0
                                 ELSE disk'[m] = disk[m]
    BY <1>0, <1>2 DEF SplitStep, Graft, NodeState, FreshNode
  <2>2. \A m \in Children[n] : m \in Node /\ m # n /\ disk[m].attempts = 0
    BY <2>1, NodeAssumption, GraftAssumption DEF TreeInv, SplitConsistent, AbsentUntouched
  <2>3. [m \in Node |-> Phase(disk[m])][n] = "active"
    BY <2>1, PhaseOf
  <2>4. [m \in Node |-> Phase(disk[m])]'
           = [m \in Node |-> IF m = n THEN "split"
                             ELSE IF m \in Children[n] THEN "waiting"
                             ELSE [k \in Node |-> Phase(disk[k])][m]]
    BY <2>1, PhaseOf
  <2>5. [m \in Node |-> disk[m].attempts]' = [m \in Node |-> disk[m].attempts]
    BY <2>1, <2>2
  <2>6. Abstract!Split(n)
    BY <2>3, <2>4, <2>5, Zenon DEF Abstract!Split
  <2> QED
    BY <2>6 DEF Abstract!Next
<1>3. ASSUME NEW n \in Node, WriterStep(n) \/ ReviewStep(n)
      PROVE  Abstract!Next \/ UNCHANGED Abstract!lifecycle
  <2> DEFINE before == disk[n]
             after == disk'[n]
  <2>1. /\ before \in NodeState /\ after \in NodeState /\ disk' = [disk EXCEPT ![n] = after]
        /\ before.attempts < MaxAttempts
    BY <1>0, <1>3 DEF WriterStep, ReviewStep, TreeInv, AttemptsBounded
  <2>2. \/ /\ Phase(before) = "active" /\ after.attempts = before.attempts
           /\ Phase(after) \in {"waiting", "submitted", "blocked"}
        \/ /\ Phase(before) = "submitted" /\ after.attempts = before.attempts
           /\ Phase(after) \in {"passed", "submitted"}
        \/ /\ Phase(before) \in {"active", "submitted"} /\ after.attempts = before.attempts + 1
           /\ Phase(after) = IF after.attempts < MaxAttempts THEN "waiting" ELSE "blocked"
    <3>1. before.status = "dispatched" \/ before.status = "awaiting_review"
      BY <1>3 DEF WriterStep, ReviewStep
    <3>2. CASE Charged(before, after)
      BY <3>1, <3>2, PhaseOf DEF Charged
    <3>3. CASE WriterStep(n) /\ ~Charged(before, after)
      BY <3>3, PhaseOf DEF WriterStep, WriterMoves
    <3>4. CASE ReviewStep(n) /\ ~Charged(before, after)
      BY <3>4, PhaseOf DEF ReviewStep, ReviewMoves
    <3> QED
      BY <1>3, <3>2, <3>3, <3>4
  <2> DEFINE phase == [m \in Node |-> Phase(disk[m])]
             spent == [m \in Node |-> disk[m].attempts]
  <2>3. /\ phase' = [phase EXCEPT ![n] = Phase(after)] /\ phase[n] = Phase(before)
        /\ spent' = [spent EXCEPT ![n] = after.attempts] /\ spent[n] = before.attempts
        /\ spent'[n] = after.attempts
    BY <2>1, <1>0
  <2>4. after.attempts = before.attempts => spent' = spent
    BY <2>3
  <2>5. after.attempts = before.attempts + 1 => spent' = [spent EXCEPT ![n] = @ + 1]
    BY <2>3
  <2> HIDE DEF before, after
  <2>6. CASE Phase(before) = "active" /\ Phase(after) = "waiting"
             /\ after.attempts = before.attempts
    <3>1. Abstract!Forgive(n)
      BY <2>3, <2>4, <2>6, Zenon DEF Abstract!Forgive, Abstract!Become
    <3> QED
      BY <3>1 DEF Abstract!Next
  <2>7. CASE Phase(before) = "active" /\ Phase(after) = "submitted"
             /\ after.attempts = before.attempts
    <3>1. Abstract!Submit(n)
      BY <2>3, <2>4, <2>7, Zenon DEF Abstract!Submit, Abstract!Become
    <3> QED
      BY <3>1 DEF Abstract!Next
  <2>8. CASE Phase(before) = "active" /\ Phase(after) = "blocked"
             /\ after.attempts = before.attempts
    <3>1. Abstract!GiveUp(n)
      BY <2>3, <2>4, <2>8, Zenon DEF Abstract!GiveUp, Abstract!Become
    <3> QED
      BY <3>1 DEF Abstract!Next
  <2>9. CASE Phase(before) = "submitted" /\ Phase(after) = "passed"
             /\ after.attempts = before.attempts
    <3>1. Abstract!Pass(n)
      BY <2>3, <2>4, <2>9, Zenon DEF Abstract!Pass, Abstract!Become
    <3> QED
      BY <3>1 DEF Abstract!Next
  <2>10. CASE Phase(before) = "submitted" /\ Phase(after) = "submitted"
              /\ after.attempts = before.attempts
    <3>1. phase' = phase /\ spent' = spent
      BY <2>3, <2>4, <2>10
    <3> QED
      BY <3>1, Zenon DEF Abstract!lifecycle
  <2>11. CASE /\ Phase(before) \in {"active", "submitted"}
              /\ after.attempts = before.attempts + 1
              /\ Phase(after) = IF after.attempts < MaxAttempts THEN "waiting" ELSE "blocked"
    <3>1. Abstract!Charge(n)
      BY <2>3, <2>5, <2>11, Zenon DEF Abstract!Charge, Abstract!Become
    <3> QED
      BY <3>1 DEF Abstract!Next
  <2> QED
    BY <2>2, <2>6, <2>7, <2>8, <2>9, <2>10, <2>11
<1> QED
  BY <1>1, <1>2, <1>3 DEF DiskStep

(* Left alone by operators the loop implements the abstract life cycle: a
   crash, a resume, a replay and a restore are stuttering steps of it.      *)
THEOREM LifecycleImplemented == ASSUME Unedited PROVE Spec => ImplementsLifecycle
<1>1. TypeOK /\ TypeOK' /\ LoopInv /\ TreeInv /\ [Next]_vars => [Abstract!Next]_(Abstract!lifecycle)
  <2> SUFFICES ASSUME TypeOK, TypeOK', LoopInv, TreeInv, [Next]_vars
               PROVE  Abstract!Next \/ UNCHANGED Abstract!lifecycle
    OBVIOUS
  <2>1. CASE disk' = disk
    BY <2>1, Zenon DEF Abstract!lifecycle
  <2>2. CASE DiskStep
    BY <2>2, LifecycleStep
  <2> QED
    BY <2>1, <2>2, LoopStep
<1> QED
  BY <1>1, LifecycleInit, LoopCorrect, PTL DEF Spec, ImplementsLifecycle, Abstract!Spec

-----------------------------------------------------------------------------
(* The artifact of a split, of a run that is not killed. *)

(* A split whose children have all passed has its artifact, or the job of
   the child that passed last is about to write it.                         *)
Derived(p) ==
    disk[p].status = "split" /\ (\A c \in Children[p] : disk[c].status = "passed")
       => art[p].ok \/ \E c \in Children[p] : job[c] = "passing"

(* A node that passes does so by the save of a verdict. *)
LEMMA PassesByVerdict ==
    ASSUME Unedited, TypeOK, LoopInv, TreeInv, Next, disk' = disk \/ DiskStep,
           NEW c \in Node, disk[c].status # "passed", disk'[c].status = "passed"
    PROVE  job'[c] = "passing"
<1>0. /\ disk \in [Node -> NodeState] /\ mem \in [Node -> NodeState]
      /\ job \in [Node -> JobStage]
  BY DEF TypeOK
<1>1. disk[c].status = "awaiting_review"
  <2>1. ASSUME NEW S, Wave(S) PROVE FALSE
    BY <1>0, <2>1 DEF Wave, Marked, NodeState
  <2>2. ASSUME NEW n \in Node, WriterStep(n) PROVE FALSE
    BY <1>0, <2>2 DEF WriterStep, WriterMoves, Charged
  <2>3. ASSUME NEW n \in Node, SplitStep(n) PROVE FALSE
    BY <1>0, <2>3 DEF SplitStep, Graft, FreshNode, NodeState
  <2>4. ASSUME NEW n \in Node, ReviewStep(n) PROVE disk[c].status = "awaiting_review"
    BY <1>0, <2>4 DEF ReviewStep
  <2> QED
    BY <2>1, <2>2, <2>3, <2>4 DEF DiskStep
<1>2. ~Scheduling
  <2>1. ASSUME DecideForced \/ AnswerDispatch PROVE FALSE
    <3>1. PICK S : Wave(S)
      BY <2>1, ForcedWave, AnsweredWave
    <3> QED
      BY <1>0, <3>1 DEF Wave, Marked, NodeState
  <2> QED
    BY <2>1 DEF Scheduling, Admit, DecideStop, DecideSkip, DecideTerminal, DecideNothing,
                DecideAsk, AnswerHalted, AnswerWait, Rest, Reap, durable
<1>3. ~Start /\ ~Crash /\ ~Operating
  BY LoopOutside
<1>4. ASSUME NEW k \in Node, Working(k) \/ JobRaises(k) PROVE job'[c] = "passing"
  <2>1. Owned(k) /\ Owned(c) /\ ~bypass[k]
    BY DEF LoopInv
  <2>2. CASE SettleSplit(k) \/ SettleConflict(k) \/ SaveSettled(k) \/ SaveJudged(k)
    <3>1. /\ job[k] \in Midway
          /\ SaveJudged(k) \/ k # c
      BY <1>1, <2>1, <2>2
         DEF SettleSplit, SettleConflict, SaveSettled, SaveJudged, Settling, Midway, Owned, OnWriter
    <3>2. \A n \in Node : n # k => mem[n] = disk[n]
      BY <3>1, Alone
    <3>3. CASE k = c
      <4>1. mem' = disk' /\ job'[k] = IF mem'[k].status = "passed" THEN "passing" ELSE "done"
        BY <1>0, <3>1, <3>3 DEF SaveJudged, Save, Move
      <4> QED
        BY <3>3, <4>1
    <3>4. CASE k # c
      <4>1. ASSUME NEW m, Save(m), m[c] = mem[c] PROVE FALSE
        <5>1. disk'[c] = IF disk[c].status = "absent" THEN m[c]
                         ELSE IF m[c].status = "absent" THEN disk[c]
                         ELSE SyncNode(m[c], disk[c])
          BY <4>1 DEF Save, SyncTree
        <5>2. disk'[c] = disk[c]
          BY <1>0, <3>2, <3>4, <4>1, <5>1, SyncNodeSame
        <5> QED
          BY <5>2
      <4>2. CASE SettleSplit(k)
        BY <1>0, <3>2, <3>4, <4>2 DEF SettleSplit, Graft, FreshNode
      <4>3. CASE SettleConflict(k)
        BY <1>0, <3>4, <4>1, <4>3 DEF SettleConflict
      <4>4. CASE SaveSettled(k) \/ SaveJudged(k)
        BY <4>1, <4>4 DEF SaveSettled, SaveJudged
      <4> QED
        BY <2>2, <4>2, <4>3, <4>4
    <3> QED
      BY <3>3, <3>4
  <2>3. CASE JobShortcut(k)
    BY <2>1, <2>3 DEF JobShortcut
  <2> QED
    BY <1>4, <2>2, <2>3
       DEF Working, JobRecall, JobBypassed, JobEpisode, EpisodeEnds, JobRaises, SettleGates,
           JobReview, ReviewEnds, OnNodePassed, durable
<1> QED
  BY <1>2, <1>3, <1>4 DEF Next

(* Nothing rewrites the artifact of a split, and the job that is to write it
   ends no other way.                                                       *)
LEMMA ArtifactKept ==
    ASSUME Unedited, MaxCrashes = 0, TypeOK, LoopInv, TreeInv, Next,
           NEW p \in Node, disk[p].status = "split"
    PROVE  /\ art[p].ok => art'[p].ok
           /\ \A c \in Node : job[c] = "passing" => job'[c] = "passing" \/ OnNodePassed(c)
<1>0. /\ art \in [Node -> Artifact] /\ job \in [Node -> JobStage]
      /\ disk \in [Node -> NodeState]
  BY DEF TypeOK
<1>1. CASE Scheduling
  <2>1. art' = art
    BY <1>1 DEF Scheduling, Admit, DecideStop, DecideSkip, DecideTerminal, DecideNothing,
                DecideForced, DecideAsk, AnswerHalted, AnswerDispatch, AnswerWait, Rest, Reap,
                durable
  <2>2. ASSUME NEW c \in Node, job[c] = "passing" PROVE job'[c] = "passing"
    <3>1. CASE DecideForced \/ AnswerDispatch \/ Reap
      <4>1. Busy
        BY <2>2 DEF Busy, Midway
      <4> QED
        BY <3>1, <4>1 DEF DecideForced, AnswerDispatch, Reap, Deciding, AtDecision
    <3>2. CASE \E n \in Node : Admit(n)
      <4>1. Busy
        BY <2>2 DEF Busy, Midway
      <4> QED
        BY <3>2, <4>1 DEF Admit
    <3> QED
      BY <1>1, <2>2, <3>1, <3>2
         DEF Scheduling, DecideStop, DecideSkip, DecideTerminal, DecideNothing, DecideAsk,
             AnswerHalted, AnswerWait, Rest
  <2> QED
    BY <2>1, <2>2
<1>2. ASSUME NEW k \in Node, Working(k) \/ JobRaises(k)
      PROVE  /\ art[p].ok => art'[p].ok
             /\ \A c \in Node : job[c] = "passing" => job'[c] = "passing" \/ OnNodePassed(c)
  <2>1. \A n \in Node : n # k => job'[n] = job[n]
    BY <1>2, WorkingFrame
  <2>2. job[k] = "passing" => OnNodePassed(k)
    BY <1>2 DEF Working, JobShortcut, JobRecall, JobBypassed, JobEpisode, EpisodeEnds, JobRaises,
                SettleSplit, SettleConflict, SettleGates, SaveSettled, JobReview, ReviewEnds,
                SaveJudged, Dispatching, Settling
  <2>3. job[k] \in OnWriter => k # p
    BY DEF LoopInv, Owned
  <2>4. art[p].ok => art'[p].ok
    <3>1. CASE EpisodeEnds(k)
      BY <1>0, <2>3, <3>1 DEF EpisodeEnds, WriterLeaves, OnWriter
    <3>2. CASE JobRaises(k)
      BY <1>0, <2>3, <3>2 DEF JobRaises, WriterLeaves, OnWriter
    <3>3. CASE SettleGates(k)
      <4>1. PICK lost : art' = IF lost THEN [art EXCEPT ![k] = prior[k]] ELSE art
        BY <3>3 DEF SettleGates
      <4> QED
        BY <1>0, <2>3, <3>3, <4>1 DEF SettleGates, Settling, OnWriter
    <3>4. CASE OnNodePassed(k)
      BY <3>4 DEF OnNodePassed
    <3> QED
      BY <1>2, <3>1, <3>2, <3>3, <3>4
         DEF Working, JobShortcut, JobRecall, JobBypassed, JobEpisode, SettleSplit, SettleConflict,
             SaveSettled, JobReview, ReviewEnds, SaveJudged, durable
  <2> QED
    BY <2>1, <2>2, <2>4
<1>3. CASE Start
  BY <1>3 DEF Start, durable
<1>4. ~Crash
  BY DEF Crash, TypeOK
<1>5. CASE Operating
  BY <1>5 DEF Operating, BeginEdit, SaveEdit, LogEdit, SetBypass, ToggleHalt
<1> QED
  BY <1>1, <1>2, <1>3, <1>4, <1>5 DEF Next

LEMMA DerivedStep ==
    ASSUME Unedited, MaxCrashes = 0, TypeOK, LoopInv, TreeInv, Next, LoopInv',
           disk' = disk \/ DiskStep, NEW p \in Node, Derived(p)
    PROVE  Derived(p)'
<1> SUFFICES ASSUME disk'[p].status = "split",
                    \A c \in Children[p] : disk'[c].status = "passed"
             PROVE  art'[p].ok \/ \E c \in Children[p] : job'[c] = "passing"
  BY DEF Derived
<1>0. disk \in [Node -> NodeState]
  BY DEF TypeOK
<1>1. disk[p].status = "split"
  <2>1. ASSUME NEW S, Wave(S) PROVE disk[p].status = "split"
    BY <1>0, <2>1 DEF Wave, Marked, NodeState
  <2>2. ASSUME NEW n \in Node, WriterStep(n) \/ ReviewStep(n) PROVE disk[p].status = "split"
    BY <1>0, <2>2 DEF WriterStep, ReviewStep, WriterMoves, ReviewMoves, Charged
  <2>3. ASSUME NEW n \in Node, SplitStep(n) PROVE disk[p].status = "split"
    <3>1. n # p
      <4>1. CASE n = p
        <5>1. PICK c \in Children[p] : c # p /\ c \in Node
          BY <2>3, <4>1, LoopAssumption, NodeAssumption, GraftAssumption DEF SplitStep
        <5>2. disk'[c].status = "pending"
          BY <2>3, <4>1, <5>1 DEF SplitStep, Graft, FreshNode
        <5> QED
          BY <5>1, <5>2
      <4> QED
        BY <4>1
    <3> QED
      BY <1>0, <2>3, <3>1 DEF SplitStep, Graft, FreshNode
  <2> QED
    BY <2>1, <2>2, <2>3 DEF DiskStep
<1>2. \A c \in Children[p] : c \in Node
  BY NodeAssumption
<1>3. CASE \E c \in Children[p] : disk[c].status # "passed"
  BY <1>2, <1>3, PassesByVerdict
<1>4. CASE \A c \in Children[p] : disk[c].status = "passed"
  <2>1. CASE art[p].ok
    BY <1>1, <2>1, ArtifactKept
  <2>2. ASSUME NEW c \in Children[p], job[c] = "passing"
        PROVE  art'[p].ok \/ job'[c] = "passing"
    <3>1. CASE OnNodePassed(c)
      <4>1. mem = disk
        <5>1. \A n \in Node : job[n] \notin Unsaved
          BY <1>2, <2>2 DEF LoopInv, Midway, Unsaved
        <5> QED
          BY <5>1, MemoryIsDisk
      <4> QED
        BY <1>1, <1>4, <2>2, <3>1, <4>1 DEF OnNodePassed
    <3> QED
      BY <1>1, <1>2, <2>2, <3>1, ArtifactKept
  <2> QED
    BY <1>1, <1>4, <2>1, <2>2 DEF Derived
<1> QED
  BY <1>3, <1>4

(* A loop that returns leaves every split parent whose children have all
   passed with its derived artifact: whichever child passes last, and in
   whatever order the jobs end, the job of that child writes it before the
   loop can return.  (A kill between the save of the last pass and that
   write loses it.)                                                         *)
THEOREM SplitsAreDerived ==
    ASSUME Unedited, MaxCrashes = 0 PROVE Spec => []SplitDerived
<1> DEFINE Inv == \A p \in Node : Derived(p)
<1>1. Init => Inv
  BY DEF Init, InitialTree, Derived, AbsentNode, FreshNode
<1>2. TypeOK /\ LoopInv /\ TreeInv /\ Inv /\ [Next]_vars => Inv'
  <2> SUFFICES ASSUME TypeOK, LoopInv, TreeInv, Inv, [Next]_vars, NEW p \in Node
               PROVE  Derived(p)'
    OBVIOUS
  <2>1. CASE UNCHANGED vars
    BY <2>1 DEF vars, durable, Derived
  <2>2. CASE Next
    BY <2>2, LoopStep, DerivedStep
  <2> QED
    BY <2>1, <2>2
<1>3. LoopInv /\ Inv => SplitDerived
  BY NodeAssumption DEF LoopInv, Placed, Derived, SplitDerived
<1> QED
  BY <1>1, <1>2, <1>3, LoopCorrect, PTL DEF Spec

-----------------------------------------------------------------------------
(***************************************************************************)
(* What holds while an operator's process writes tree.json too, as long as *)
(* no edit overlaps a step of the harness (~Racing): what has passed stays *)
(* so, and a loop that returns leaves nothing behind.                      *)
(***************************************************************************)

-----------------------------------------------------------------------------
(* What has passed stays so, with and without edits. *)

(* A writer leaves no proposal; and while an edit is between its load and its
   save, the tree it holds differs from the disk in its own node only.      *)
EditInv ==
    /\ \A n \in Node : proposal[n] = "none"
    /\ edit # NoEdit /\ ~edit.saved
          => \A n \in Node : n # edit.node => edit.tree[n] = disk[n]

LEMMA SyncKeepsPassed ==
    ASSUME NEW t \in [Node -> NodeState], NEW d \in [Node -> NodeState],
           NEW n \in Node, d[n].status = "passed"
    PROVE  SyncTree(t, d, {})[n].status = "passed"
<1>1. SyncNode(t[n], d[n]).status = "passed"
  BY DEF SyncNode, NodeState
<1> QED
  BY <1>1 DEF SyncTree

LEMMA SaveKeepsPassed ==
    ASSUME disk \in [Node -> NodeState], NEW t \in [Node -> NodeState], Save(t),
           NEW n \in Node, disk[n].status = "passed"
    PROVE  disk'[n].status = "passed"
BY SyncKeepsPassed DEF Save

LEMMA HarnessKeepsPassed ==
    ASSUME TypeOK, EditInv, NEW n \in Node, disk[n].status = "passed",
           Scheduling \/ (\E k \in Node : Working(k) \/ JobRaises(k)) \/ Start \/ Crash
    PROVE  disk'[n].status = "passed"
<1>0. /\ mem \in [Node -> NodeState] /\ disk \in [Node -> NodeState]
  BY DEF TypeOK
<1>1. CASE DecideForced
  <2>1. Marked(Synced, Offered(Synced)) \in [Node -> NodeState]
    BY SyncedType, MarkedType
  <2> QED
    BY <1>0, <1>1, <2>1, SaveKeepsPassed DEF DecideForced
<1>2. CASE AnswerDispatch
  <2>1. PICK S, first : disk' = SyncTree(Marked(SyncTree(Marked(mem, {first}), disk, {}), S),
                                         SyncTree(Marked(mem, {first}), disk, {}), {})
    BY <1>2 DEF AnswerDispatch
  <2> DEFINE saved == SyncTree(Marked(mem, {first}), disk, {})
  <2>2. saved \in [Node -> NodeState] /\ saved[n].status = "passed"
    BY <1>0, MarkedType, SyncTreeType, SyncKeepsPassed
  <2> HIDE DEF saved
  <2>3. Marked(saved, S) \in [Node -> NodeState]
    BY <2>2, MarkedType
  <2>4. SyncTree(Marked(saved, S), saved, {})[n].status = "passed"
    BY <2>2, <2>3, SyncKeepsPassed
  <2> QED
    BY <2>1, <2>4 DEF saved
<1>3. ASSUME NEW k \in Node, JobShortcut(k) PROVE disk'[n].status = "passed"
  <2>1. [mem EXCEPT ![k].status = "awaiting_review"] \in [Node -> NodeState]
    BY <1>0 DEF NodeState, Status, InFlightStatus
  <2> QED
    BY <1>0, <1>3, <2>1, SaveKeepsPassed DEF JobShortcut
<1>4. ASSUME NEW k \in Node, SettleConflict(k) PROVE disk'[n].status = "passed"
  <2>1. [mem EXCEPT ![k].status = "pending", ![k].defect = "other"] \in [Node -> NodeState]
    BY <1>0 DEF NodeState, Status, Defect
  <2> QED
    BY <1>0, <1>4, <2>1, SaveKeepsPassed DEF SettleConflict
<1>5. ASSUME NEW k \in Node, SaveSettled(k) \/ SaveJudged(k) PROVE disk'[n].status = "passed"
  BY <1>0, <1>5, SaveKeepsPassed DEF SaveSettled, SaveJudged
<1>6. ASSUME NEW k \in Node, SettleSplit(k) PROVE FALSE
  BY <1>6 DEF SettleSplit, EditInv
<1>7. CASE Scheduling
  BY <1>1, <1>2, <1>7
     DEF Scheduling, Admit, DecideStop, DecideSkip, DecideTerminal, DecideNothing, DecideAsk,
         AnswerHalted, AnswerWait, Rest, Reap, durable
<1>8. ASSUME NEW k \in Node, Working(k) PROVE disk'[n].status = "passed"
  BY <1>3, <1>4, <1>5, <1>6, <1>8
     DEF Working, JobRecall, JobBypassed, JobEpisode, EpisodeEnds, SettleGates, JobReview,
         ReviewEnds, OnNodePassed, durable
<1>9. CASE (\E k \in Node : JobRaises(k)) \/ Start \/ Crash
  BY <1>9 DEF JobRaises, Start, Crash, durable
<1> QED
  BY <1>7, <1>8, <1>9

LEMMA NoProposals ==
    ASSUME Splitters = {}, TypeOK, EditInv, Next
    PROVE  \A n \in Node : proposal'[n] = "none"
BY ProposalMoves DEF EditInv

LEMMA EditStep ==
    ASSUME ~Racing, Splitters = {}
    PROVE  TypeOK /\ EditInv /\ [Next]_vars
              => /\ EditInv'
                 /\ \A n \in Node : disk[n].status = "passed" /\ disk'[n].status # "passed"
                                       => edit # NoEdit /\ edit.node = n
<1> SUFFICES ASSUME TypeOK, EditInv, [Next]_vars
             PROVE  /\ EditInv'
                    /\ \A n \in Node : disk[n].status = "passed" /\ disk'[n].status # "passed"
                                          => edit # NoEdit /\ edit.node = n
  OBVIOUS
<1>1. CASE UNCHANGED vars
  BY <1>1 DEF vars, durable, EditInv
<1>2. CASE Undisturbed /\ (Scheduling \/ (\E k \in Node : Working(k) \/ JobRaises(k)) \/ Start)
  <2>1. edit' = NoEdit
    BY <1>2 DEF Undisturbed, Scheduling, Admit, DecideStop, DecideSkip, DecideTerminal,
                DecideNothing, DecideForced, DecideAsk, AnswerHalted, AnswerDispatch, AnswerWait,
                Rest, Reap, Working, JobShortcut, JobRecall, JobBypassed, JobEpisode, EpisodeEnds,
                SettleSplit, SettleConflict, SettleGates, SaveSettled, JobReview, ReviewEnds,
                SaveJudged, OnNodePassed, JobRaises, Start
  <2>2. EditInv'
    BY <1>2, <2>1, NoProposals DEF Next, EditInv
  <2> QED
    BY <1>2, <2>2, HarnessKeepsPassed
<1>3. CASE Crash
  <2>1. disk' = disk /\ edit' = edit
    BY <1>3 DEF Crash
  <2> QED
    BY <1>3, <2>1, NoProposals DEF Next, EditInv
<1>4. CASE Operating
  <2>0. \A n \in Node : proposal'[n] = "none"
    BY <1>4, NoProposals DEF Next
  <2>1. ASSUME NEW kind, NEW n \in Node, BeginEdit(kind, n)
        PROVE  EditInv' /\ disk' = disk
    <3>1. /\ disk' = disk /\ edit'.node = n
          /\ edit'.tree = [disk EXCEPT ![n] = Edited(kind, @)]
      BY <2>1 DEF BeginEdit
    <3> QED
      BY <2>0, <3>1 DEF EditInv, TypeOK
  <2>2. CASE SaveEdit
    <3>1. /\ edit # NoEdit /\ ~edit.saved /\ disk' = edit.tree
          /\ edit' = NoEdit \/ edit'.saved
      BY <2>2 DEF SaveEdit, TypeOK, Edit, NoEdit
    <3>2. \A n \in Node : n # edit.node => disk'[n] = disk[n]
      BY <3>1 DEF EditInv
    <3> QED
      BY <2>0, <3>1, <3>2 DEF EditInv
  <2>3. CASE LogEdit \/ (\E n \in Node : SetBypass(n)) \/ ToggleHalt
    <3>1. disk' = disk /\ edit' \in {edit, NoEdit}
      BY <2>3 DEF LogEdit, SetBypass, ToggleHalt
    <3> QED
      BY <2>0, <3>1 DEF EditInv
  <2> QED
    BY <1>4, <2>1, <2>2, <2>3 DEF Operating
<1> QED
  BY <1>1, <1>2, <1>3, <1>4 DEF Next

LEMMA LoopKeepsPassed ==
    ASSUME TypeOK, TreeInv, disk' = disk \/ DiskStep, NEW n \in Node, disk[n].status = "passed"
    PROVE  disk'[n].status = "passed"
<1>0. disk \in [Node -> NodeState] /\ disk[n] \in NodeState
  BY DEF TypeOK
<1>1. ASSUME NEW S, Wave(S) PROVE disk'[n] = disk[n]
  BY <1>1 DEF Wave, Marked, ReadyNodes, IsReady
<1>2. ASSUME NEW k \in Node, WriterStep(k) \/ ReviewStep(k) PROVE disk'[n] = disk[n]
  BY <1>0, <1>2 DEF WriterStep, ReviewStep
<1>3. ASSUME NEW k \in Node, SplitStep(k) PROVE disk'[n] = disk[n]
  BY <1>3 DEF SplitStep, Graft, TreeInv, SplitConsistent
<1> QED
  BY <1>1, <1>2, <1>3 DEF DiskStep

(* No step un-passes a node, except the save of an edit of that very node:
   on its own the loop never does, and with an operator at work it does not
   either, as long as no edit overlaps a step of the harness and no writer
   proposes a split, whose tree is saved without reading the disk.          *)
THEOREM PassedIsKept ==
    ASSUME Unedited \/ (~Racing /\ Splitters = {})
    PROVE  Spec => PassedStays
<1>1. CASE Unedited
  <2>1. TypeOK /\ LoopInv /\ TreeInv /\ [Next]_vars
           => \A n \in Node : disk[n].status = "passed" /\ disk'[n].status # "passed"
                                 => edit # NoEdit /\ edit.node = n
    BY <1>1, LoopStep, LoopKeepsPassed
  <2> QED
    BY <1>1, <2>1, LoopCorrect, PTL DEF Spec, PassedStays
<1>2. CASE ~Racing /\ Splitters = {}
  <2>1. Init => EditInv
    BY DEF Init, EditInv
  <2>2. TypeOK /\ EditInv /\ [Next]_vars => EditInv'
    BY <1>2, EditStep
  <2>3. Spec => []EditInv
    BY <2>1, <2>2, TypeCorrect, PTL DEF Spec
  <2>4. TypeOK /\ EditInv /\ [Next]_vars
           => \A n \in Node : disk[n].status = "passed" /\ disk'[n].status # "passed"
                                 => edit # NoEdit /\ edit.node = n
    BY <1>2, EditStep
  <2> QED
    BY <2>3, <2>4, TypeCorrect, PTL DEF Spec, PassedStays
<1> QED
  BY <1>1, <1>2

-----------------------------------------------------------------------------
(* A loop that returns leaves nothing behind. *)

InFlight(node) == node.status \in InFlightStatus
Held(n) == job[n] \notin {"idle", "passing", "done"} \/ resumeQ[n] # "no"

(* What is in flight on disk is in flight in memory, or about to be saved as
   something else; and what is in flight in memory has a job or a place in
   the queue that will answer for it.                                       *)
Followed(n) ==
    /\ InFlight(disk[n]) => InFlight(mem[n]) \/ job[n] \in Unsaved
    /\ InFlight(mem[n]) /\ ~stopping => Held(n)
    /\ job[n] = "toReview" \/ resumeQ[n] = "review" => mem[n].status # "dispatched"
    /\ job[n] = "settled" => mem[n].status \notin {"absent", "dispatched"}
    /\ job[n] = "judged" => ~InFlight(mem[n]) /\ mem[n].status # "absent"

(* An edit about to be saved puts nothing in flight; a loop at rest with news
   it did not look at still has nodes queued.                               *)
StrandInv ==
    /\ Placed
    /\ edit # NoEdit /\ ~edit.saved
          => \A n \in Node : InFlight(edit.tree[n]) => InFlight(disk[n])
    /\ loop \notin {"down", "ended"} => \A n \in Node : Followed(n)
    /\ loop = "asking" => ~news
    /\ loop = "resting" /\ ~stopping /\ ~noNewWork /\ news => Queued # {}

(* Reading the disk in puts nothing in flight that was not. *)
LEMMA SyncTreeInFlight ==
    ASSUME NEW t \in [Node -> NodeState], NEW d \in [Node -> NodeState], NEW skip,
           NEW n \in Node, t[n].status = "absent" => ~InFlight(d[n])
    PROVE  /\ InFlight(SyncTree(t, d, skip)[n]) => SyncTree(t, d, skip)[n].status = t[n].status
           /\ SyncTree(t, d, skip)[n].status = "absent" => t[n].status = "absent"
<1>1. /\ InFlight(SyncNode(t[n], d[n])) => SyncNode(t[n], d[n]).status = t[n].status
      /\ SyncNode(t[n], d[n]).status = "absent" => t[n].status = "absent"
  BY DEF SyncNode, InFlight, InFlightStatus, NodeState
<1> QED
  BY <1>1 DEF SyncTree

LEMMA FollowedSync ==
    ASSUME TypeOK, NEW n \in Node, Followed(n), NEW skip
    PROVE  /\ InFlight(SyncTree(mem, disk, skip)[n])
                 => SyncTree(mem, disk, skip)[n].status = mem[n].status
           /\ SyncTree(mem, disk, skip)[n].status = "absent" => ~InFlight(disk[n])
<1>1. mem[n].status = "absent" => ~InFlight(disk[n])
  BY DEF Followed, Unsaved, InFlight, InFlightStatus
<1> QED
  BY <1>1, SyncTreeInFlight DEF TypeOK

LEMMA StrandScheduling ==
    ASSUME TypeOK, StrandInv, edit = NoEdit, Scheduling
    PROVE  StrandInv'
<1> USE DEF durable, counters, scheduler
<1>1. Placed' /\ edit' = NoEdit /\ loop \notin {"down", "ended"}
  BY PlacedScheduling
     DEF StrandInv, Scheduling, Admit, DecideStop, DecideSkip, DecideTerminal, DecideNothing,
         DecideForced, DecideAsk, AnswerHalted, AnswerDispatch, AnswerWait, Rest, Reap, Deciding,
         AtDecision
<1>2. \A n \in Node : Followed(n)
  BY <1>1 DEF StrandInv
<1>3. /\ loop' = "asking" => ~news'
      /\ loop' = "resting" /\ ~stopping' /\ ~noNewWork' /\ news' => Queued' # {}
  <2>1. CASE DecideForced \/ AnswerDispatch
    BY <2>1 DEF StrandInv, DecideForced, AnswerDispatch, Commit
  <2>2. CASE \E n \in Node : Admit(n)
    BY <2>2 DEF Admit
  <2>3. CASE DecideStop \/ DecideTerminal \/ DecideNothing \/ DecideAsk \/ AnswerHalted
    BY <2>3 DEF DecideStop, DecideTerminal, DecideNothing, DecideAsk, AnswerHalted
  <2>4. CASE DecideSkip
    BY <2>4 DEF DecideSkip, MayDecide, Queued
  <2>5. CASE AnswerWait \/ Reap
    BY <2>5 DEF AnswerWait, Reap, StrandInv
  <2>6. CASE Rest
    <3>1. loop' \in {"waiting", "deciding", "ended"}
      BY <2>6 DEF Rest
    <3> QED
      BY <3>1
  <2> QED
    BY <2>1, <2>2, <2>3, <2>4, <2>5, <2>6 DEF Scheduling
<1>4. ASSUME NEW n \in Node, loop' \notin {"down", "ended"} PROVE Followed(n)'
  <2>0. mem[n] \in NodeState /\ disk[n] \in NodeState /\ Followed(n)
    BY <1>2 DEF TypeOK
  <2>1. CASE DecideForced \/ AnswerDispatch
    <3>1. PICK S : /\ job' = [k \in Node |-> IF k \in S THEN "new" ELSE job[k]]
                   /\ disk' = mem' /\ resumeQ' = resumeQ /\ stopping' = stopping
                   /\ n \notin S /\ InFlight(mem'[n]) => mem'[n].status = mem[n].status
      <4>1. CASE DecideForced
        <5> DEFINE S == Offered(Synced)
                   t == Marked(Synced, S)
        <5>1. t \in [Node -> NodeState] /\ mem' = SyncTree(t, disk, {})
          BY <4>1, SyncedType, MarkedType DEF DecideForced, Save
        <5>2. n \notin S => t[n] = Synced[n]
          BY MarkedWorked, SyncedType
        <5>3. n \notin S => (t[n].status = "absent" => ~InFlight(disk[n]))
          BY <2>0, <5>2, FollowedSync DEF Synced
        <5> HIDE DEF t
        <5>4. n \notin S /\ InFlight(mem'[n]) => mem'[n].status = t[n].status
          BY <5>1, <5>3, SyncTreeInFlight DEF TypeOK
        <5>5. n \notin S /\ InFlight(mem'[n]) => mem'[n].status = mem[n].status
          BY <2>0, <5>2, <5>4, FollowedSync DEF InFlight, Synced
        <5> QED
          BY <4>1, <5>5 DEF DecideForced, Commit, Save
      <4>2. CASE AnswerDispatch
        <5>1. PICK S, first : /\ first \in S
                              /\ mem' = SyncTree(Marked(SyncTree(Marked(mem, {first}), disk, {}),
                                                        S \ {first}),
                                                 SyncTree(Marked(mem, {first}), disk, {}), {})
                              /\ disk' = mem' /\ Commit(mem, S)
          BY <4>2 DEF AnswerDispatch
        <5> DEFINE marked == Marked(mem, {first})
                   saved == SyncTree(marked, disk, {})
                   t == Marked(saved, S \ {first})
        <5>2. /\ marked \in [Node -> NodeState] /\ saved \in [Node -> NodeState]
              /\ t \in [Node -> NodeState] /\ mem' = SyncTree(t, saved, {})
          BY <5>1, MarkedType, SyncTreeType DEF TypeOK
        <5>3. n \notin S => marked[n] = mem[n] /\ t[n] = saved[n]
          BY <5>1, <5>2 DEF Marked
        <5>4. n \notin S /\ InFlight(saved[n]) => saved[n].status = mem[n].status
          <6>1. mem[n].status = "absent" => ~InFlight(disk[n])
            BY <2>0 DEF Followed, Unsaved, InFlight, InFlightStatus
          <6> HIDE DEF marked
          <6> QED
            BY <5>2, <5>3, <6>1, SyncTreeInFlight DEF TypeOK
        <5> HIDE DEF marked, saved, t
        <5>5. n \notin S /\ InFlight(mem'[n]) => mem'[n].status = t[n].status
          <6>1. n \notin S => (t[n].status = "absent" => ~InFlight(saved[n]))
            BY <5>3 DEF InFlight, InFlightStatus
          <6> QED
            BY <5>2, <6>1, SyncTreeInFlight
        <5>6. n \notin S /\ InFlight(mem'[n]) => mem'[n].status = mem[n].status
          BY <5>3, <5>4, <5>5 DEF InFlight
        <5> QED
          BY <4>2, <5>1, <5>6 DEF AnswerDispatch, Commit
      <4> QED
        BY <2>1, <4>1, <4>2
    <3>2. resumeQ[n] = "no" /\ ~Busy
      BY <2>1 DEF DecideForced, AnswerDispatch, Deciding, AtDecision, MayDecide, Queued,
                  StrandInv, Placed
    <3>3. job[n] \notin Unsaved
      BY <3>2 DEF Busy, Midway, Unsaved
    <3>4. CASE n \in S
      BY <3>1, <3>2, <3>4 DEF Followed, Held, Unsaved
    <3>5. CASE n \notin S
      <4>1. job'[n] = job[n] /\ disk'[n] = mem'[n] /\ resumeQ'[n] = "no"
        BY <3>1, <3>2, <3>5
      <4>2. InFlight(mem'[n]) => InFlight(mem[n]) /\ mem'[n].status = mem[n].status
        BY <3>1, <3>5 DEF InFlight
      <4> QED
        BY <2>0, <3>1, <3>2, <3>3, <4>1, <4>2
           DEF Followed, Held, Unsaved, InFlight, InFlightStatus
    <3> QED
      BY <3>4, <3>5
  <2>2. CASE DecideNothing \/ DecideAsk \/ DecideTerminal
    <3>1. /\ mem' = Synced /\ disk' = disk /\ job' = job /\ resumeQ' = resumeQ
          /\ stopping' = stopping /\ resumeQ[n] = "no"
      BY <2>2 DEF DecideNothing, DecideAsk, DecideTerminal, Deciding, MayDecide, Queued
    <3>2. CASE job[n] # "idle"
      <4>1. Synced[n] = mem[n]
        BY <3>2 DEF Synced, SyncTree, Running
      <4> QED
        BY <2>0, <3>1, <4>1 DEF Followed, Held, Unsaved
    <3>3. CASE job[n] = "idle"
      <4>1. ~InFlight(mem[n]) /\ ~InFlight(disk[n])
        BY <2>0, <2>2, <3>1, <3>3
           DEF Followed, Held, Unsaved, DecideNothing, DecideAsk, DecideTerminal, Deciding,
               MayDecide
      <4>2. ~InFlight(Synced[n])
        BY <2>0, <4>1, FollowedSync DEF Synced, InFlight
      <4> QED
        BY <3>1, <3>3, <4>1, <4>2 DEF Followed, Unsaved, InFlight
    <3> QED
      BY <3>2, <3>3
  <2>3. CASE \E k \in Node : Admit(k)
    BY <2>0, <2>3 DEF Admit, Followed, Held, Unsaved, TypeOK, StrandInv, Placed
  <2>4. CASE Reap
    <3>1. disk' = disk /\ mem' = mem /\ resumeQ' = resumeQ /\ (stopping => stopping')
      BY <2>4 DEF Reap
    <3>2. CASE job'[n] = job[n]
      BY <2>0, <3>1, <3>2 DEF Followed, Held, Unsaved
    <3>3. CASE job'[n] # job[n]
      <4>1. /\ job[n] \in {"done", "failed"} /\ job'[n] = "idle"
            /\ job[n] = "failed" => stopping'
        BY <2>4, <3>3 DEF Reap, TypeOK
      <4> QED
        BY <2>0, <3>1, <4>1 DEF Followed, Held, Unsaved
    <3> QED
      BY <3>2, <3>3
  <2>5. CASE DecideStop \/ DecideSkip \/ AnswerHalted \/ AnswerWait \/ Rest
    <3>1. UNCHANGED <<disk, mem, job, resumeQ, stopping>>
      BY <2>5 DEF DecideStop, DecideSkip, AnswerHalted, AnswerWait, Rest
    <3> QED
      BY <2>0, <3>1 DEF Followed, Held, InFlight
  <2> QED
    BY <2>1, <2>2, <2>3, <2>4, <2>5 DEF Scheduling
<1> QED
  BY <1>1, <1>3, <1>4 DEF StrandInv

(* A node whose job does not move, while another's is saved. *)
LEMMA SavedBystander ==
    ASSUME TypeOK, NEW n \in Node, Followed(n), NEW t \in [Node -> NodeState],
           t[n] = mem[n], Save(t)
    PROVE  /\ disk' = mem'
           /\ InFlight(mem'[n]) => mem'[n].status = mem[n].status
           /\ mem'[n].status = "absent" => mem[n].status = "absent"
<1>1. mem[n].status = "absent" => ~InFlight(disk[n])
  BY DEF Followed, Unsaved, InFlight, InFlightStatus
<1> QED
  BY <1>1, SyncTreeInFlight DEF TypeOK, Save

LEMMA FollowedFrame ==
    ASSUME NEW n \in Node, Followed(n), job'[n] = job[n], resumeQ'[n] = resumeQ[n],
           stopping' = stopping,
           disk' = mem' \/ (disk'[n] = disk[n] /\ mem'[n] = mem[n]),
           InFlight(mem'[n]) => mem'[n].status = mem[n].status,
           mem'[n].status = "absent" => mem[n].status = "absent"
    PROVE  Followed(n)'
BY DEF Followed, Held, InFlight, InFlightStatus

(* The outcome of a job is saved: the tree to save has the outcome at k.    *)
LEMMA SavedOutcome ==
    ASSUME TypeOK, NEW k \in Node, NEW t \in [Node -> NodeState], Save(t),
           t[k].status # "absent", \A n \in Node : n # k => t[n] = mem[n]
    PROVE  /\ disk' = mem' /\ mem'[k].status # "absent"
           /\ InFlight(mem'[k]) => mem'[k].status = t[k].status
           /\ \A n \in Node : n # k /\ Followed(n)
                 => /\ InFlight(mem'[n]) => mem'[n].status = mem[n].status
                    /\ mem'[n].status = "absent" => mem[n].status = "absent"
<1>1. /\ InFlight(mem'[k]) => mem'[k].status = t[k].status
      /\ mem'[k].status # "absent"
  BY SyncTreeInFlight DEF TypeOK, Save
<1>2. ASSUME NEW n \in Node, n # k, Followed(n)
      PROVE  /\ InFlight(mem'[n]) => mem'[n].status = mem[n].status
             /\ mem'[n].status = "absent" => mem[n].status = "absent"
  BY <1>2, SavedBystander
<1>3. disk' = mem'
  BY DEF Save
<1> QED
  BY <1>1, <1>2, <1>3

LEMMA StrandWorking ==
    ASSUME ~ReviewRetry, TypeOK, StrandInv, edit = NoEdit,
           NEW k \in Node, Working(k) \/ JobRaises(k)
    PROVE  StrandInv'
<1> USE DEF durable, counters, scheduler
<1>1. /\ resumeQ' = resumeQ /\ loop' = loop /\ stopping' = stopping /\ news' = news
      /\ noNewWork' = noNewWork /\ edit' = NoEdit
      /\ \A n \in Node : n # k => job'[n] = job[n]
      /\ job[k] # "idle" /\ job'[k] # "idle"
  BY WorkingFrame
<1>2. Placed' /\ loop \notin {"down", "ended"} /\ resumeQ[k] = "no"
  BY <1>1 DEF StrandInv, Placed
<1>3. /\ \A n \in Node : Followed(n) /\ mem[n] \in NodeState
      /\ mem \in [Node -> NodeState] /\ job \in [Node -> JobStage]
  BY <1>2 DEF StrandInv, TypeOK
<1>4. ASSUME NEW x \in NodeState, Save([mem EXCEPT ![k] = x]), x.status # "absent",
             InFlight(x) => job'[k] \in {"reviewing", "waived"} \/ mem'[k].status # x.status,
             job'[k] \notin {"toReview", "settled", "judged"}
      PROVE  \A n \in Node : Followed(n)'
  <2>1. /\ disk' = mem'
        /\ InFlight(mem'[k]) => mem'[k].status = x.status
        /\ \A n \in Node : n # k => /\ InFlight(mem'[n]) => mem'[n].status = mem[n].status
                                    /\ mem'[n].status = "absent" => mem[n].status = "absent"
    <3> DEFINE t == [mem EXCEPT ![k] = x]
    <3>1. t \in [Node -> NodeState] /\ t[k] = x /\ Save(t) /\ \A n \in Node : n # k => t[n] = mem[n]
      BY <1>3, <1>4
    <3> HIDE DEF t
    <3> QED
      BY <1>3, <1>4, <3>1, SavedOutcome
  <2>2. ASSUME NEW n \in Node, n # k PROVE Followed(n)'
    <3>1. /\ Followed(n) /\ job'[n] = job[n] /\ resumeQ'[n] = resumeQ[n]
          /\ InFlight(mem'[n]) => mem'[n].status = mem[n].status
          /\ mem'[n].status = "absent" => mem[n].status = "absent"
      BY <1>1, <1>3, <2>1, <2>2
    <3> QED
      BY <1>1, <2>1, <3>1 DEF Followed, Held, InFlight, InFlightStatus
  <2>3. Followed(k)'
    <3>1. InFlight(mem'[k]) => job'[k] \in {"reviewing", "waived"}
      BY <1>4, <2>1 DEF InFlight
    <3> QED
      BY <1>1, <1>2, <1>4, <2>1, <3>1 DEF Followed, Held, Unsaved, InFlight
  <2> QED
    BY <2>2, <2>3
<1>5. ASSUME NEW n \in Node PROVE Followed(n)'
  <2>1. CASE JobShortcut(k)
    <3> DEFINE x == [mem[k] EXCEPT !.status = "awaiting_review"]
    <3>1. x \in NodeState /\ x.status = "awaiting_review"
      BY <1>3 DEF NodeState, Status, InFlightStatus
    <3>2. Save([mem EXCEPT ![k] = x]) /\ job'[k] = ToReview(k, mem')
      BY <1>3, <2>1 DEF JobShortcut, Move
    <3> QED
      BY <1>4, <3>1, <3>2 DEF ToReview
  <2>2. CASE SettleConflict(k)
    <3> DEFINE x == [mem[k] EXCEPT !.status = "pending", !.defect = "other"]
    <3>1. x \in NodeState /\ x.status = "pending"
      BY <1>3 DEF NodeState, Status, Defect
    <3>2. Save([mem EXCEPT ![k] = x]) /\ job'[k] = "done"
      BY <1>3, <2>2 DEF SettleConflict, Move
    <3> QED
      BY <1>4, <3>1, <3>2 DEF InFlight, InFlightStatus
  <2>3. CASE SaveSettled(k)
    <3>1. Save([mem EXCEPT ![k] = mem[k]]) /\ job'[k] = ToReview(k, mem')
      BY <1>3, <2>3 DEF SaveSettled, Move
    <3>2. mem[k].status \notin {"absent", "dispatched"}
      BY <1>3, <2>3 DEF SaveSettled, Followed
    <3> QED
      BY <1>3, <1>4, <3>1, <3>2 DEF ToReview, InFlight, InFlightStatus
  <2>4. CASE SaveJudged(k)
    <3>1. Save([mem EXCEPT ![k] = mem[k]]) /\ job'[k] \in {"passing", "done"}
      BY <1>3, <2>4 DEF SaveJudged, Move
    <3>2. ~InFlight(mem[k]) /\ mem[k].status # "absent"
      BY <1>3, <2>4 DEF SaveJudged, Followed
    <3> QED
      BY <1>3, <1>4, <3>1, <3>2
  <2>5. CASE SettleSplit(k)
    <3>1. /\ disk' = mem' /\ job'[k] = "done"
          /\ mem' = Graft(mem, k) \/ mem' = [mem EXCEPT ![k].status = "pending"]
      BY <1>3, <2>5 DEF SettleSplit, Move
    <3>2. mem'[k].status \in {"split", "pending"}
      BY <1>3, <3>1 DEF Graft, NodeState
    <3>3. n # k => mem'[n] = mem[n] \/ mem'[n].status = "pending"
      BY <1>3, <3>1 DEF Graft, FreshNode
    <3> QED
      BY <1>1, <1>3, <3>1, <3>2, <3>3, FollowedFrame
         DEF Followed, InFlight, InFlightStatus
  <2>6. CASE SettleGates(k)
    <3>1. PICK o : mem' = [mem EXCEPT ![k] = AfterWriter(mem[k], o).node]
      BY <2>6 DEF SettleGates
    <3>2. mem'[k].status \in {"pending", "awaiting_review", "blocked"}
      BY <1>3, <3>1, AfterWriterMoves DEF WriterMoves, Charged
    <3>3. disk' = disk /\ job'[k] = "settled"
      BY <1>3, <2>6 DEF SettleGates, Move
    <3>4. n # k => mem'[n] = mem[n]
      BY <1>3, <3>1
    <3> QED
      BY <1>1, <1>3, <3>2, <3>3, <3>4, FollowedFrame DEF Followed, Held, Unsaved
  <2>7. CASE ReviewEnds(k)
    <3>1. PICK verdict \in Verdict : mem' = [mem EXCEPT ![k] = AfterReview(mem[k], verdict).node]
      BY <2>7 DEF ReviewEnds
    <3>2. mem'[k].status \in {"pending", "blocked", "passed"}
      BY <1>3, <3>1 DEF AfterReview, Charge, NodeState
    <3>3. disk' = disk /\ job'[k] = "judged"
      BY <1>3, <2>7 DEF ReviewEnds, Move
    <3>4. n # k => mem'[n] = mem[n]
      BY <1>3, <3>1
    <3> QED
      BY <1>1, <1>3, <3>2, <3>3, <3>4, FollowedFrame
         DEF Followed, Unsaved, InFlight, InFlightStatus
  <2>8. CASE JobReview(k)
    <3>1. /\ disk' = disk /\ mem' = mem /\ job[k] = "toReview" /\ job'[k] = ToReview(k, mem)
      BY <1>3, <2>8 DEF JobReview, Move
    <3>2. mem[k].status # "dispatched"
      BY <1>3, <3>1 DEF Followed
    <3> QED
      BY <1>1, <1>3, <3>1, <3>2, FollowedFrame
         DEF Followed, Held, Unsaved, ToReview, InFlight, InFlightStatus
  <2>9. CASE OnNodePassed(k)
    <3>1. /\ disk' = disk /\ mem' = mem /\ job[k] = "passing" /\ job'[k] = "done"
      BY <1>3, <2>9 DEF OnNodePassed, Move
    <3> QED
      BY <1>1, <1>3, <3>1, FollowedFrame DEF Followed, Held, Unsaved, InFlight
  <2>10. CASE JobRecall(k) \/ JobBypassed(k) \/ JobEpisode(k) \/ EpisodeEnds(k) \/ JobRaises(k)
    <3>1. /\ disk' = disk /\ mem' = mem /\ job[k] \in {"new", "episode"}
          /\ job'[k] \in {"recalled", "episode", "completed", "failed"}
      BY <1>3, <2>10 DEF JobRecall, JobBypassed, JobEpisode, EpisodeEnds, JobRaises,
                         Dispatching, Move
    <3> QED
      BY <1>1, <1>3, <3>1, FollowedFrame DEF Followed, Held, Unsaved, InFlight
  <2> QED
    BY <2>1, <2>2, <2>3, <2>4, <2>5, <2>6, <2>7, <2>8, <2>9, <2>10 DEF Working
<1>6. loop' = "asking" => ~news'
  BY <1>1 DEF StrandInv
<1>7. loop' = "resting" /\ ~stopping' /\ ~noNewWork' /\ news' => Queued' # {}
  BY <1>1 DEF StrandInv, Queued
<1> QED
  BY <1>1, <1>2, <1>5, <1>6, <1>7 DEF StrandInv

LEMMA StrandOutside ==
    ASSUME TypeOK, StrandInv, (Start /\ edit = NoEdit) \/ Crash \/ Operating
    PROVE  StrandInv'
<1> USE DEF durable, counters, scheduler
<1>0. disk \in [Node -> NodeState] /\ mem \in [Node -> NodeState]
  BY DEF TypeOK
<1>1. CASE Start /\ edit = NoEdit
  <2>1. /\ \A n \in Node : job'[n] = "idle"
        /\ loop' = "deciding" /\ edit' = NoEdit /\ disk' = disk
    BY <1>1 DEF StrandInv, Placed, Start
  <2>2. ASSUME NEW n \in Node PROVE Followed(n)'
    <3>1. \/ /\ mem'[n] = disk[n] /\ ~InFlight(disk[n])
          \/ mem'[n] = disk[n] /\ resumeQ'[n] = "dispatch"
          \/ mem'[n].status = "awaiting_review" /\ resumeQ'[n] = "review"
      BY <1>0, <1>1 DEF Start, InFlight, InFlightStatus, NodeState
    <3>2. resumeQ'[n] = "review" => mem'[n].status = "awaiting_review"
      BY <1>0, <1>1 DEF Start, NodeState
    <3> QED
      BY <2>1, <3>1, <3>2 DEF Followed, Held, Unsaved, InFlight, InFlightStatus
  <2> QED
    BY <2>1, <2>2 DEF StrandInv, Placed
<1>2. CASE Crash
  <2>1. /\ loop' = "down" /\ disk' = disk /\ edit' = edit
        /\ job' = [n \in Node |-> "idle"] /\ resumeQ' = [n \in Node |-> "no"]
    BY <1>2 DEF Crash
  <2> QED
    BY <2>1 DEF StrandInv, Placed
<1>3. CASE Operating
  <2>1. /\ UNCHANGED <<mem, job, loop, resumeQ, news, noNewWork, stopping>>
        /\ \A n \in Node : InFlight(disk'[n]) => InFlight(disk[n])
        /\ edit' # NoEdit /\ ~edit'.saved
              => \A n \in Node : InFlight(edit'.tree[n]) => InFlight(disk'[n])
    <3>1. ASSUME NEW kind \in EditKinds \ {"bypass", "halt"}, NEW k \in Node, BeginEdit(kind, k)
          PROVE  \A n \in Node : InFlight(edit'.tree[n]) => InFlight(disk[n])
      <4>1. edit'.tree = [disk EXCEPT ![k] = Edited(kind, @)]
        BY <3>1 DEF BeginEdit
      <4>2. kind \in {"redispatch", "reopen", "cli_reopen", "pass"}
        BY LoopAssumption
      <4>3. ~InFlight(Edited(kind, disk[k]))
        BY <1>0, <4>2 DEF Edited, NodeState, InFlight, InFlightStatus
      <4> QED
        BY <1>0, <4>1, <4>3
    <3>2. CASE SaveEdit
      <4>1. /\ edit # NoEdit /\ ~edit.saved /\ disk' = edit.tree
            /\ edit' = NoEdit \/ edit'.saved
        BY <3>2 DEF SaveEdit, TypeOK, Edit, NoEdit
      <4> QED
        BY <3>2, <4>1 DEF SaveEdit, StrandInv
    <3>3. CASE LogEdit \/ (\E n \in Node : SetBypass(n)) \/ ToggleHalt
      <4>1. disk' = disk /\ edit' \in {edit, NoEdit}
            /\ UNCHANGED <<mem, job, loop, resumeQ, news, noNewWork, stopping>>
        BY <3>3 DEF LogEdit, SetBypass, ToggleHalt
      <4> QED
        BY <4>1 DEF StrandInv
    <3>4. CASE \E kind \in EditKinds \ {"bypass", "halt"}, n \in Node : BeginEdit(kind, n)
      BY <3>1, <3>4 DEF BeginEdit
    <3> QED
      BY <1>3, <3>2, <3>3, <3>4 DEF Operating
  <2>2. Placed'
    BY <2>1 DEF StrandInv, Placed
  <2>3. loop' \notin {"down", "ended"} => \A n \in Node : Followed(n)'
    BY <2>1 DEF StrandInv, Followed, Held, InFlight
  <2> QED
    BY <2>1, <2>2, <2>3 DEF StrandInv, Queued
<1> QED
  BY <1>1, <1>2, <1>3

LEMMA StrandInit == Init => StrandInv
BY DEF Init, StrandInv, Placed

LEMMA StrandStep ==
    ASSUME ~Racing, ~ReviewRetry
    PROVE  TypeOK /\ StrandInv /\ [Next]_vars => StrandInv'
<1>1. StrandInv /\ UNCHANGED vars => StrandInv'
  BY DEF vars, durable, scheduler, counters, StrandInv, Placed, Followed, Held, Queued
<1> QED
  BY <1>1, StrandScheduling, StrandWorking, StrandOutside DEF Next, Undisturbed

LEMMA ReturnsEmpty ==
    ASSUME TypeOK, StrandInv, Next, loop' = "ended", loop # "ended", ~stopping', ~noNewWork'
    PROVE  ReadyNodes(disk) = {} /\ DurableInFlight = {}
<1>0. disk \in [Node -> NodeState] /\ mem \in [Node -> NodeState]
  BY DEF TypeOK
<1>1. CASE DecideTerminal
  <2>1. /\ Offered(Synced) = {} /\ Running = {} /\ ~stopping
        /\ \A n \in Node : job[n] = "idle" /\ resumeQ[n] = "no" /\ Followed(n)
    BY <1>1 DEF DecideTerminal, Deciding, AtDecision, MayDecide, Queued, Running, StrandInv
  <2>2. \A n \in Node : ~InFlight(mem[n]) /\ ~InFlight(disk[n])
    BY <2>1 DEF Followed, Held, Unsaved
  <2>3. ASSUME NEW n \in ReadyNodes(disk) PROVE n \in Offered(Synced)
    <3>1. n \in Node /\ Synced[n].status = "pending"
      BY <1>0, <2>1, <2>2
         DEF ReadyNodes, IsReady, Synced, SyncTree, SyncNode, InFlight, NodeState
    <3>2. ASSUME NEW d \in DependsOn[n] PROVE d \in Node /\ Synced[d].status = "passed"
      <4>1. d \in Node /\ disk[d].status = "passed"
        BY <3>1, NodeAssumption DEF ReadyNodes, IsReady
      <4>2. SyncNode(mem[d], disk[d]).status = "passed"
        BY <1>0, <4>1 DEF SyncNode, NodeState
      <4> QED
        BY <2>1, <4>1, <4>2 DEF Synced, SyncTree
    <3>3. Claimed(Synced, Running) = Synced
      BY <2>1 DEF Claimed, Synced, SyncTree
    <3> QED
      BY <3>1, <3>2, <3>3 DEF Offered, ReadyNodes, IsReady
  <2> QED
    BY <2>1, <2>2, <2>3 DEF DurableInFlight, InFlight
<1>2. CASE Rest
  BY <1>2 DEF Rest, StrandInv
<1>3. ~Start /\ ~Crash /\ ~Operating
  BY DEF Start, Crash, Operating, BeginEdit, SaveEdit, LogEdit, SetBypass, ToggleHalt, scheduler
<1>4. ASSUME NEW n \in Node PROVE ~Working(n) /\ ~JobRaises(n)
  BY WorkingFrame
<1>5. CASE Scheduling /\ ~DecideTerminal /\ ~Rest
  BY <1>5 DEF Scheduling, Admit, DecideStop, DecideSkip, DecideNothing, DecideForced, DecideAsk,
              AnswerHalted, AnswerDispatch, AnswerWait, Reap, Commit, scheduler
<1> QED
  BY <1>1, <1>2, <1>3, <1>4, <1>5 DEF Next

(* A loop that returns of its own accord leaves no node ready and none in
   flight on disk, with an operator redispatching, reopening, passing and
   bypassing nodes while it ran: no edit that was saved before its last
   decision goes unseen, and no job ends with its node half-way.            *)
THEOREM NothingIsStranded ==
    ASSUME ~Racing, ~ReviewRetry PROVE Spec => NoStrandedWork
<1>1. TypeOK /\ StrandInv /\ [Next]_vars => StrandInv'
  BY StrandStep
<1>2. Spec => []StrandInv
  BY <1>1, StrandInit, TypeCorrect, PTL DEF Spec
<1>3. TypeOK /\ StrandInv /\ [Next]_vars
         => (loop' = "ended" /\ loop # "ended" /\ ~stopping' /\ ~noNewWork'
               => ReadyNodes(disk) = {} /\ DurableInFlight = {})
  BY ReturnsEmpty DEF vars, scheduler
<1> QED
  BY <1>2, <1>3, TypeCorrect, PTL DEF Spec, NoStrandedWork
=============================================================================
