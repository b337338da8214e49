---------------------------- MODULE Assembly_proofs ----------------------------
(***************************************************************************)
(* Theorems about what follows the writing, for every bound.               *)
(*                                                                         *)
(* Assembly: type correctness, that out/ only holds texts that cleared     *)
(* gates and review, that a repair that fails leaves the artifact as it    *)
(* found it, and that "done" means that what has been compiled is what is  *)
(* in out/.                                                                *)
(*                                                                         *)
(* DocReview, for documents of every length: a review that says nothing is *)
(* wrong has earned it.  Sweep, for every matrix of cells: a row of the    *)
(* benchmark measures the run it is of.                                    *)
(***************************************************************************)
EXTENDS MCAssembly, FiniteSetTheorems, SequenceTheorems, TLAPS

-----------------------------------------------------------------------------
(* The strengthening. *)

(* A node that is not blocked has an attempt left, so the id of its next
   repair exists.                                                           *)
HasRoom(t) == \A n \in Node : t[n].status # "blocked" => t[n].attempts < MaxAttempts

(* Only nodes with an attempt left are queued.                              *)
QueueOpen == \A n \in loop.todo : loop.tree[n].status # "blocked"

Repairing == loop.at \in {"dispatch", "written", "judge", "promote", "restore"}

(* While a repair is under way the snapshot under its id is the artifact,
   and a candidate about to be promoted has been vetted.                    *)
RepairInv ==
    /\ Repairing => /\ loop.tree[loop.node].status # "blocked"
                    /\ loop.node \notin loop.todo
                    /\ snapshot[Current] = art[loop.node]
    /\ At("save") => loop.node \notin loop.todo
    /\ At("promote") => candidate[Current] \in vetted[loop.node]

IInv == TypeOK /\ HasRoom(tree) /\ HasRoom(loop.tree) /\ QueueOpen /\ RepairInv /\ VettedOnly

-----------------------------------------------------------------------------
(* Lemmas. *)

LEMMA IdleState ==
    ASSUME NEW result \in {"none", "done", "escalated", "error"}
    PROVE  /\ Idle(result) \in LoopState
           /\ Idle(result).at = "idle" /\ Idle(result).todo = {}
           /\ HasRoom(Idle(result).tree)
<1>1. (CHOOSE n \in Node : TRUE) \in Node
  BY AssemblyAssumption
<1>2. [n \in Node |-> [status |-> "passed", attempts |-> 0]] \in [Node -> NodeState]
  BY AssemblyAssumption DEF NodeState
<1>3. Idle(result) \in LoopState
  BY <1>1, <1>2, AssemblyAssumption DEF Idle, LoopState, Step
<1>4. HasRoom(Idle(result).tree)
  BY AssemblyAssumption DEF Idle, HasRoom
<1> QED
  BY <1>3, <1>4 DEF Idle

(* What a process leaves behind when it returns, fails or is killed.        *)
LEMMA ReturnKeeps ==
    ASSUME IInv, UNCHANGED disk,
           NEW result \in {"none", "done", "escalated", "error"}, Return(result),
           crashes' \in 0..MaxCrashes, starts' \in 0..MaxStarts
    PROVE  IInv'
<1>1. loop' \in LoopState /\ loop'.at = "idle" /\ loop'.todo = {} /\ HasRoom(loop'.tree)
  BY IdleState DEF Return
<1>2. TypeOK'
  BY <1>1 DEF IInv, TypeOK, disk
<1>3. HasRoom(tree') /\ VettedOnly'
  BY DEF IInv, HasRoom, VettedOnly, disk
<1> QED
  BY <1>1, <1>2, <1>3 DEF IInv, QueueOpen, RepairInv, Repairing, At, HasRoom

(* The id of a repair that can be under way.                                *)
LEMMA RepairIds ==
    ASSUME TypeOK, HasRoom(loop.tree), NEW n \in Node, loop.tree[n].status # "blocked"
    PROVE  RepairOf(n) \in RepairId /\ RepairOf(n)[1] = n
<1>1. loop.tree[n].attempts \in 0..MaxAttempts /\ loop.tree[n].attempts < MaxAttempts
  BY DEF TypeOK, LoopState, NodeState, HasRoom
<1>2. loop.tree[n].attempts + 1 \in 1..MaxAttempts
  BY <1>1, AssemblyAssumption
<1> QED
  BY <1>2 DEF RepairOf, RepairId

-----------------------------------------------------------------------------
(* The steps. *)

LEMMA InitInv == Init => IInv
<1> SUFFICES ASSUME Init PROVE IInv
  OBVIOUS
<1>1. /\ loop \in LoopState /\ loop.at = "idle" /\ loop.todo = {}
      /\ HasRoom(loop.tree)
  BY IdleState DEF Init
<1>2. tree \in [Node -> NodeState] /\ HasRoom(tree)
  <2>1. \A a \in Charged : a \in 0..MaxAttempts /\ a < MaxAttempts
    BY AssemblyAssumption
  <2> QED
    BY <2>1 DEF Init, NodeState, HasRoom
<1>3. art \in [Node -> Text] /\ vetted \in [Node -> SUBSET Text] /\ VettedOnly
  <2>1. \A b \in BOOLEAN : [by |-> 0, gates |-> TRUE, builds |-> b] \in Text
    BY AssemblyAssumption DEF Text
  <2>2. art \in [Node -> Text]
    BY <2>1 DEF Init
  <2> QED
    BY <2>2 DEF Init, VettedOnly
<1>4. TypeOK
  BY <1>1, <1>2, <1>3, AssemblyAssumption DEF Init, TypeOK
<1> QED
  BY <1>1, <1>2, <1>3, <1>4 DEF IInv, QueueOpen, RepairInv, Repairing, At

(* Steps that only move the process while no repair is under way.           *)
LEMMA LoopSteps ==
    ASSUME IInv,
           StartAssembly \/ CompilePasses \/ CompileFails \/ Reassemble \/ Revalidate
             \/ StartTriage \/ TriageEnds \/ ReviewRaises \/ Crash
    PROVE  IInv'
<1>1. CASE StartAssembly
  <2>1. starts' \in 0..MaxStarts /\ crashes' \in 0..MaxCrashes
    BY <1>1, AssemblyAssumption DEF StartAssembly, MayStart, IInv, TypeOK
  <2>2. CASE ~ChecksPass
    BY <1>1, <2>1, <2>2, ReturnKeeps DEF StartAssembly, disk
  <2>3. CASE ChecksPass
    <3>1. loop' = [Idle("none") EXCEPT !.at = "compile", !.tree = tree, !.document = art]
      BY <1>1, <2>3 DEF StartAssembly
    <3>2. /\ loop' \in LoopState /\ loop'.at = "compile" /\ loop'.todo = {}
          /\ loop'.tree = tree
      BY <3>1, IdleState DEF IInv, TypeOK, LoopState, Step
    <3> QED
      BY <1>1, <2>1, <3>2 DEF StartAssembly, IInv, TypeOK, HasRoom, QueueOpen, RepairInv,
                              Repairing, VettedOnly, At
  <2> QED
    BY <2>2, <2>3
<1>2. CASE CompilePasses
  BY <1>2, ReturnKeeps DEF CompilePasses, counters, IInv, TypeOK
<1>3. CASE CompileFails
  <2>1. CASE Return("escalated")
    BY <1>3, <2>1, ReturnKeeps DEF CompileFails, counters, IInv, TypeOK
  <2>2. CASE /\ loop.round < MaxRepairs
             /\ \E S \in SUBSET Passed(loop.tree) \ {{}} :
                   loop' = [loop EXCEPT !.at = "repair", !.todo = S, !.round = @ + 1]
    <3>1. PICK S \in SUBSET Passed(loop.tree) :
                 loop' = [loop EXCEPT !.at = "repair", !.todo = S, !.round = @ + 1]
      BY <2>2
    <3>2. loop.round + 1 \in 0..MaxRepairs
      BY <2>2, AssemblyAssumption DEF IInv, TypeOK, LoopState
    <3>3. /\ loop' \in LoopState /\ loop'.at = "repair" /\ loop'.tree = loop.tree
          /\ loop'.todo = S
      BY <3>1, <3>2 DEF IInv, TypeOK, LoopState, Step, Passed
    <3> QED
      BY <1>3, <3>3 DEF CompileFails, IInv, TypeOK, HasRoom, QueueOpen, RepairInv,
                        Repairing, VettedOnly, At, Passed, disk, counters
  <2> QED
    BY <1>3, <2>1, <2>2 DEF CompileFails
<1>4. CASE Reassemble
  <2>1. CASE Return("escalated")
    BY <1>4, <2>1, ReturnKeeps DEF Reassemble, counters, IInv, TypeOK
  <2>2. CASE loop' = [loop EXCEPT !.at = "compile", !.document = art]
    <3>1. /\ loop' \in LoopState /\ loop'.at = "compile" /\ loop'.tree = loop.tree
          /\ loop'.todo = loop.todo
      BY <2>2 DEF IInv, TypeOK, LoopState, Step
    <3> QED
      BY <1>4, <3>1 DEF Reassemble, IInv, TypeOK, HasRoom, QueueOpen, RepairInv, Repairing,
                        VettedOnly, At, disk, counters
  <2> QED
    BY <1>4, <2>1, <2>2 DEF Reassemble
<1>5. CASE Revalidate
  <2>1. tree' \in [Node -> NodeState] /\ HasRoom(tree')
    BY <1>5 DEF Revalidate, Passed, HasRoom, IInv, TypeOK, NodeState
  <2>2. starts' \in 0..MaxStarts
    <3>1. starts' = starts + 1 /\ starts < MaxStarts
      BY <1>5 DEF Revalidate, MayStart
    <3> QED
      BY <3>1, AssemblyAssumption DEF IInv, TypeOK
  <2>3. UNCHANGED <<art, snapshot, candidate, recorded, vetted, loop, crashes>> /\ At("idle")
    BY <1>5 DEF Revalidate, MayStart
  <2>4. TypeOK' /\ VettedOnly' /\ QueueOpen' /\ HasRoom(loop'.tree)
    BY <2>1, <2>2, <2>3 DEF IInv, TypeOK, VettedOnly, QueueOpen, HasRoom
  <2>5. RepairInv'
    BY <2>3 DEF RepairInv, Repairing, At
  <2> QED
    BY <2>1, <2>3, <2>4, <2>5 DEF IInv, HasRoom
<1>6. CASE StartTriage
  <2>1. PICK S \in SUBSET {n \in Node : tree[n].status # "blocked"} :
               loop' = [Idle("none") EXCEPT !.at = "repair", !.kind = "triage",
                                            !.tree = tree, !.todo = S]
    BY <1>6 DEF StartTriage
  <2>2. /\ loop' \in LoopState /\ loop'.at = "repair" /\ loop'.tree = tree
        /\ loop'.todo = S
    BY <2>1, IdleState DEF IInv, TypeOK, LoopState, Step
  <2>3. starts' \in 0..MaxStarts
    <3>1. starts' = starts + 1 /\ starts < MaxStarts
      BY <1>6 DEF StartTriage, MayStart
    <3> QED
      BY <3>1, AssemblyAssumption DEF IInv, TypeOK
  <2> QED
    BY <1>6, <2>2, <2>3 DEF StartTriage, IInv, TypeOK, HasRoom, QueueOpen, RepairInv,
                            Repairing, VettedOnly, At, disk
<1>7. CASE TriageEnds
  BY <1>7, ReturnKeeps DEF TriageEnds, counters, IInv, TypeOK
<1>8. CASE ReviewRaises
  BY <1>8, ReturnKeeps DEF ReviewRaises, counters, IInv, TypeOK
<1>9. CASE Crash
  <2>1. crashes' \in 0..MaxCrashes
    BY <1>9, AssemblyAssumption DEF Crash, IInv, TypeOK
  <2> QED
    BY <1>9, <2>1, ReturnKeeps DEF Crash, IInv, TypeOK
<1> QED
  BY <1>1, <1>2, <1>3, <1>4, <1>5, <1>6, <1>7, <1>8, <1>9

(* Steps that leave the files and both trees alone while a repair is under
   way.                                                                     *)
LEMMA RepairMoves ==
    ASSUME IInv, Repairing, loop' \in LoopState,
           loop'.at \in Step \ {"idle", "compile", "repair", "save", "promote"},
           loop'.tree = loop.tree, loop'.node = loop.node, loop'.todo = loop.todo,
           UNCHANGED <<tree, art, snapshot, vetted, counters>>,
           candidate' \in [RepairId -> Text \cup {NoText}],
           recorded' \in [RepairId -> {"none", "done", "timeout"}]
    PROVE  IInv'
<1>1. TypeOK'
  BY DEF IInv, TypeOK, counters
<1>2. RepairInv'
  BY DEF IInv, RepairInv, Repairing, At, Current, RepairOf
<1> QED
  BY <1>1, <1>2 DEF IInv, HasRoom, QueueOpen, VettedOnly

(* The steps of run_repair.                                                 *)
LEMMA RepairSteps ==
    ASSUME IInv,
           Snapshot \/ Replay \/ Dispatch \/ EpisodeEnds \/ JudgePasses \/ JudgeFails
             \/ Promote \/ Restore \/ Save
    PROVE  IInv'
<1>t. TypeOK /\ HasRoom(loop.tree) /\ loop \in LoopState /\ loop.node \in Node
  BY DEF IInv, TypeOK, LoopState
<1>c. Repairing => Current \in RepairId
  BY <1>t, RepairIds DEF IInv, RepairInv, Current
<1>1. CASE Snapshot
  <2>1. PICK n \in loop.todo :
          /\ snapshot' = [snapshot EXCEPT ![RepairOf(n)] = art[n]]
          /\ loop' = [loop EXCEPT !.at = "dispatch", !.node = n, !.todo = @ \ {n}]
    BY <1>1 DEF Snapshot
  <2>2. n \in Node /\ loop.tree[n].status # "blocked"
    BY <1>t DEF IInv, QueueOpen, LoopState
  <2>3. RepairOf(n) \in RepairId
    BY <1>t, <2>2, RepairIds
  <2>4. /\ loop' \in LoopState /\ loop'.at = "dispatch" /\ loop'.node = n
        /\ loop'.todo = loop.todo \ {n} /\ loop'.tree = loop.tree
    BY <1>t, <2>1, <2>2 DEF LoopState, Step
  <2>5. /\ snapshot' \in [RepairId -> Text \cup {NoText}]
        /\ snapshot'[RepairOf(n)] = art[n]
    BY <2>1, <2>2, <2>3 DEF IInv, TypeOK
  <2>6. RepairInv'
    BY <1>1, <2>2, <2>4, <2>5 DEF Snapshot, RepairInv, Repairing, At, Current, RepairOf
  <2> QED
    BY <1>1, <2>4, <2>5, <2>6 DEF Snapshot, IInv, TypeOK, HasRoom, QueueOpen, VettedOnly,
                                  counters
<1>2. CASE Replay
  <2>1. /\ loop' \in LoopState /\ loop'.at = "judge" /\ loop'.tree = loop.tree
        /\ loop'.node = loop.node /\ loop'.todo = loop.todo
    BY <1>2, <1>t DEF Replay, LoopState, Step
  <2> QED
    BY <1>2, <2>1, RepairMoves DEF Replay, IInv, TypeOK, Repairing, At, Step, disk, counters
<1>3. CASE Dispatch
  <2>1. /\ loop' \in LoopState /\ loop'.at = "written" /\ loop'.tree = loop.tree
        /\ loop'.node = loop.node /\ loop'.todo = loop.todo
    BY <1>3, <1>t DEF Dispatch, To, LoopState, Step
  <2>2. candidate' \in [RepairId -> Text \cup {NoText}]
    BY <1>3 DEF Dispatch, IInv, TypeOK
  <2> QED
    BY <1>3, <2>1, <2>2, RepairMoves DEF Dispatch, IInv, TypeOK, Repairing, At, Step
<1>4. CASE EpisodeEnds
  <2>1. PICK status \in {"done", "timeout", "throttled"} :
          /\ recorded' = [recorded EXCEPT
                             ![Current] = IF status = "timeout" THEN status ELSE "done"]
          /\ loop' = [loop EXCEPT !.at = "judge", !.ok = status = "done"]
    BY <1>4 DEF EpisodeEnds
  <2>2. /\ loop' \in LoopState /\ loop'.at = "judge" /\ loop'.tree = loop.tree
        /\ loop'.node = loop.node /\ loop'.todo = loop.todo
    BY <2>1, <1>t DEF LoopState, Step
  <2>3. recorded' \in [RepairId -> {"none", "done", "timeout"}]
    BY <2>1 DEF IInv, TypeOK
  <2> QED
    BY <1>4, <2>2, <2>3, RepairMoves DEF EpisodeEnds, IInv, TypeOK, Repairing, At, Step
<1>5. CASE JudgePasses
  <2>1. /\ loop' \in LoopState /\ loop'.at = "promote" /\ loop'.tree = loop.tree
        /\ loop'.node = loop.node /\ loop'.todo = loop.todo
    BY <1>5, <1>t DEF JudgePasses, To, LoopState, Step
  <2>2. Repairing /\ Current \in RepairId
    BY <1>5, <1>c DEF JudgePasses, At, Repairing
  <2>3. candidate[Current] \in Text
    BY <1>5, <2>2 DEF JudgePasses, Acceptable, IInv, TypeOK
  <2>4. vetted' = [vetted EXCEPT ![loop.node] = @ \cup {candidate[Current]}]
    BY <1>5 DEF JudgePasses
  <2>5. /\ vetted' \in [Node -> SUBSET Text]
        /\ candidate[Current] \in vetted'[loop.node]
        /\ \A n \in Node : vetted[n] \subseteq vetted'[n]
    BY <1>t, <2>3, <2>4 DEF IInv, TypeOK
  <2>6. TypeOK' /\ VettedOnly'
    BY <1>5, <2>1, <2>5 DEF JudgePasses, IInv, TypeOK, VettedOnly, counters
  <2>7. RepairInv'
    BY <1>5, <2>1, <2>2, <2>5 DEF JudgePasses, IInv, RepairInv, Repairing, At, Current, RepairOf
  <2> QED
    BY <1>5, <2>1, <2>6, <2>7 DEF JudgePasses, IInv, HasRoom, QueueOpen
<1>6. CASE JudgeFails
  <2>1. /\ loop' \in LoopState /\ loop'.at = "restore" /\ loop'.tree = loop.tree
        /\ loop'.node = loop.node /\ loop'.todo = loop.todo
    BY <1>6, <1>t DEF JudgeFails, To, LoopState, Step
  <2> QED
    BY <1>6, <2>1, RepairMoves DEF JudgeFails, IInv, TypeOK, Repairing, At, Step, disk, counters
<1>7. CASE Promote
  <2>1. Repairing /\ Current \in RepairId /\ loop.node \notin loop.todo
    BY <1>7, <1>c DEF Promote, At, Repairing, IInv, RepairInv
  <2>2. candidate[Current] \in vetted[loop.node] /\ candidate[Current] \in Text
    BY <1>7, <1>t DEF Promote, IInv, RepairInv, TypeOK
  <2>3. art' = [art EXCEPT ![loop.node] = candidate[Current]]
    BY <1>7 DEF Promote
  <2>4. art' \in [Node -> Text] /\ \A n \in Node : art'[n] \in vetted[n]
    BY <1>t, <2>2, <2>3 DEF IInv, TypeOK, VettedOnly
  <2>5. loop' = [loop EXCEPT !.at = "save", !.tree[loop.node].status = "passed"]
    BY <1>7 DEF Promote
  <2>6. /\ loop' \in LoopState /\ loop'.at = "save" /\ loop'.node = loop.node
        /\ loop'.todo = loop.todo
        /\ loop'.tree = [loop.tree EXCEPT ![loop.node].status = "passed"]
    <3>1. [loop.tree EXCEPT ![loop.node].status = "passed"] \in [Node -> NodeState]
      BY <1>t DEF LoopState, NodeState
    <3>2. loop' = [[loop EXCEPT !.at = "save"]
                     EXCEPT !.tree = [loop.tree EXCEPT ![loop.node].status = "passed"]]
      BY <1>t, <2>5 DEF LoopState
    <3> QED
      BY <1>t, <3>1, <3>2 DEF LoopState, Step
  <2>7. HasRoom(loop'.tree) /\ QueueOpen'
    BY <1>t, <2>1, <2>6 DEF IInv, HasRoom, QueueOpen, RepairInv, LoopState, NodeState
  <2>8. TypeOK'
    BY <1>7, <2>4, <2>6 DEF Promote, IInv, TypeOK, counters
  <2>9. RepairInv'
    BY <2>1, <2>6 DEF RepairInv, Repairing, At
  <2> QED
    BY <1>7, <2>4, <2>7, <2>8, <2>9 DEF Promote, IInv, HasRoom, VettedOnly
<1>8. CASE Restore
  <2> DEFINE charged == loop.tree[loop.node].attempts + 1
             restored == [status |-> IF charged >= MaxAttempts THEN "blocked" ELSE "stale",
                          attempts |-> charged]
  <2>1. Repairing /\ loop.node \notin loop.todo
    BY <1>8 DEF Restore, At, Repairing, IInv, RepairInv
  <2>2. art' = art
    BY <1>8, <1>t, <2>1 DEF Restore, IInv, RepairInv, TypeOK
  <2>3. restored \in NodeState /\ (restored.status # "blocked" => charged < MaxAttempts)
    <3>1. loop.tree[loop.node].attempts \in Nat /\ loop.tree[loop.node].attempts < MaxAttempts
      BY <1>t, <2>1, AssemblyAssumption DEF IInv, RepairInv, HasRoom, LoopState, NodeState
    <3>2. charged \in 0..MaxAttempts
      BY <3>1, AssemblyAssumption
    <3> QED
      BY <3>2, AssemblyAssumption DEF NodeState
  <2>4. loop' = [loop EXCEPT !.at = "save", !.tree[loop.node] = restored]
    BY <1>8 DEF Restore
  <2> HIDE DEF restored
  <2>5. /\ loop' \in LoopState /\ loop'.at = "save" /\ loop'.node = loop.node
        /\ loop'.todo = loop.todo
        /\ loop'.tree = [loop.tree EXCEPT ![loop.node] = restored]
    BY <1>t, <2>3, <2>4 DEF LoopState, Step
  <2>6. restored.attempts = charged
    BY DEF restored
  <2>7. HasRoom(loop'.tree) /\ QueueOpen'
    BY <1>t, <2>1, <2>3, <2>5, <2>6 DEF IInv, HasRoom, QueueOpen, LoopState
  <2>8. TypeOK' /\ VettedOnly'
    BY <1>8, <2>2, <2>5 DEF Restore, IInv, TypeOK, VettedOnly, counters
  <2>9. RepairInv'
    BY <2>1, <2>5 DEF RepairInv, Repairing, At
  <2> QED
    BY <1>8, <2>7, <2>8, <2>9 DEF Restore, IInv, HasRoom
<1>9. CASE Save
  <2>1. /\ loop' \in LoopState /\ loop'.at = "repair" /\ loop'.tree = loop.tree
        /\ loop'.todo = loop.todo
    BY <1>9, <1>t DEF Save, To, LoopState, Step
  <2>2. tree' = loop.tree /\ tree' \in [Node -> NodeState]
    BY <1>9, <1>t DEF Save, LoopState
  <2> QED
    BY <1>9, <1>t, <2>1, <2>2 DEF Save, IInv, TypeOK, HasRoom, QueueOpen, RepairInv, Repairing,
                                  At, VettedOnly, counters
<1> QED
  BY <1>1, <1>2, <1>3, <1>4, <1>5, <1>6, <1>7, <1>8, <1>9

LEMMA StepInv == IInv /\ [Next]_vars => IInv'
<1> SUFFICES ASSUME IInv, [Next]_vars PROVE IInv'
  OBVIOUS
<1>1. CASE UNCHANGED vars
  BY <1>1 DEF IInv, TypeOK, HasRoom, QueueOpen, RepairInv, Repairing, At, Current, RepairOf,
              VettedOnly, vars, disk, counters
<1>2. CASE Next
  BY <1>2, LoopSteps, RepairSteps DEF Next, Working
<1> QED
  BY <1>1, <1>2

-----------------------------------------------------------------------------
(* The theorems. *)

LEMMA Inductive == Spec => []IInv
<1> QED
  BY InitInv, StepInv, PTL DEF Spec

(* Every variable keeps its type: in particular every id a repair dispatches
   under is one of the node's MaxAttempts, whatever was charged, repaired or
   killed before (v3/repair.py: repair_node_id).                            *)
THEOREM TypeCorrect == Spec => []TypeOK
<1>1. IInv => TypeOK
  BY DEF IInv
<1> QED
  BY <1>1, Inductive, PTL

(* out/ only holds texts that have cleared gates and review, across replays,
   restores and crashes (v3/repair.py: "only after its output re-clears both
   bars").                                                                  *)
THEOREM OutIsVetted == Spec => []VettedOnly
<1>1. IInv => VettedOnly
  BY DEF IInv
<1> QED
  BY <1>1, Inductive, PTL

(* A repair that fails leaves the artifact exactly as it found it, although
   the snapshot it puts back may have been written over an earlier one.     *)
THEOREM FailedRepairIsUndone == Spec => FailedRepairUndoesNothing
<1>1. IInv /\ [Next]_vars => [At("restore") /\ ~At("idle")' => art' = art]_vars
  <2> SUFFICES ASSUME IInv, Next, At("restore"), ~At("idle")' PROVE art' = art
    OBVIOUS
  <2>1. CASE Restore
    BY <2>1 DEF Restore, IInv, RepairInv, Repairing, At, TypeOK, LoopState
  <2>2. CASE ~Restore
    BY <2>2 DEF Next, Working, StartAssembly, Revalidate, StartTriage, Crash, CompilePasses,
                CompileFails, Reassemble, TriageEnds, Snapshot, Replay, Dispatch, EpisodeEnds,
                JudgePasses, JudgeFails, ReviewRaises, Promote, Save, MayStart, At, disk
  <2> QED
    BY <2>1, <2>2
<1> QED
  BY <1>1, Inductive, PTL DEF Spec, FailedRepairUndoesNothing

(* The process works on the tree as it is on disk but between a repair and
   its save, what compiles is what is in out/, every node passed, and only a
   process that has returned has a result.                                  *)
DocumentInv ==
    /\ ~At("idle") => loop.result = "none"
    /\ loop.at \notin {"idle", "save"} => loop.tree = tree
    /\ At("compile") => loop.document = art /\ Passed(loop.tree) = Node

LEMMA DocumentInit == Init => DocumentInv
BY DEF Init, DocumentInv, Idle, At

LEMMA DocumentStep == IInv /\ DocumentInv /\ [Next]_vars => DocumentInv'
<1> SUFFICES ASSUME IInv, DocumentInv, [Next]_vars PROVE DocumentInv'
  OBVIOUS
<1>t. loop \in LoopState
  BY DEF IInv, TypeOK
<1>i. ASSUME NEW result, Return(result) PROVE DocumentInv'
  BY <1>i DEF Return, Idle, DocumentInv, At
<1>1. CASE UNCHANGED vars
  BY <1>1 DEF DocumentInv, At, Passed, vars, disk
<1>2. CASE StartAssembly
  <2>1. CASE ~ChecksPass
    BY <1>2, <2>1, <1>i DEF StartAssembly
  <2>2. CASE ChecksPass
    BY <1>2, <2>2 DEF StartAssembly, ChecksPass, Idle, DocumentInv, At, Passed
  <2> QED
    BY <2>1, <2>2
<1>3. CASE Revalidate
  BY <1>3 DEF Revalidate, MayStart, At, DocumentInv
<1>4. CASE StartTriage
  BY <1>4 DEF StartTriage, Idle, At, DocumentInv, disk
<1>5. CASE CompilePasses \/ TriageEnds \/ ReviewRaises \/ Crash
  BY <1>5, <1>i DEF CompilePasses, TriageEnds, ReviewRaises, Crash
<1>6. CASE CompileFails
  <2>1. CASE Return("escalated")
    BY <2>1, <1>i
  <2>2. CASE \E S \in SUBSET Passed(loop.tree) \ {{}} :
               loop' = [loop EXCEPT !.at = "repair", !.todo = S, !.round = @ + 1]
    BY <1>6, <1>t, <2>2 DEF CompileFails, DocumentInv, At, LoopState, disk
  <2> QED
    BY <1>6, <2>1, <2>2 DEF CompileFails
<1>7. CASE Reassemble
  <2>1. CASE Passed(loop.tree) = Node
    BY <1>7, <1>t, <2>1 DEF Reassemble, DocumentInv, At, Passed, LoopState, disk
  <2>2. CASE Passed(loop.tree) # Node
    BY <1>7, <2>2, <1>i DEF Reassemble
  <2> QED
    BY <2>1, <2>2
<1>8. CASE Snapshot \/ Replay \/ Dispatch \/ EpisodeEnds \/ JudgePasses \/ JudgeFails
  BY <1>8, <1>t DEF Snapshot, Replay, Dispatch, EpisodeEnds, JudgePasses, JudgeFails, To,
                    DocumentInv, At, LoopState, disk
<1>9. CASE Promote \/ Restore
  BY <1>9, <1>t DEF Promote, Restore, DocumentInv, At, LoopState
<1>10. CASE Save
  BY <1>10, <1>t DEF Save, To, DocumentInv, At, LoopState
<1> QED
  BY <1>1, <1>2, <1>3, <1>4, <1>5, <1>6, <1>7, <1>8, <1>9, <1>10 DEF Next, Working

(* An assembly that reports done has compiled the texts that are in out/ at
   that moment, and tree.json has every node passed: whatever was repaired,
   undone or blocked between two compiles (v3/assembly_loop.py).            *)
THEOREM DoneIsWhole == Spec => DoneIsAssembled
<1>1. IInv /\ DocumentInv /\ [Next]_vars
        => [At("compile") /\ loop'.result = "done"
              => loop.document = art /\ Passed(tree) = Node
                   /\ \A n \in Node : art[n].builds]_vars
  <2> SUFFICES ASSUME IInv, DocumentInv, Next, At("compile"), loop'.result = "done"
               PROVE  /\ loop.document = art /\ Passed(tree) = Node
                      /\ \A n \in Node : art[n].builds
    OBVIOUS
  <2>1. loop.document = art /\ Passed(tree) = Node
    BY DEF DocumentInv, At
  <2>2. CASE CompilePasses
    BY <2>1, <2>2 DEF CompilePasses, Builds
  <2>3. ~CompileFails
    <3>1. SUFFICES ASSUME CompileFails PROVE FALSE
      OBVIOUS
    <3>2. loop' # Idle("escalated")
      BY DEF Idle
    <3>3. PICK S : loop' = [loop EXCEPT !.at = "repair", !.todo = S, !.round = @ + 1]
      BY <3>1, <3>2 DEF CompileFails, Return
    <3>4. loop'.result = loop.result
      BY <3>3 DEF IInv, TypeOK, LoopState
    <3> QED
      BY <3>4 DEF DocumentInv, At
  <2>4. ~Crash
    BY DEF Crash, Return, Idle
  <2> QED
    BY <2>2, <2>3, <2>4 DEF Next, Working, StartAssembly, Revalidate, StartTriage, MayStart,
         Reassemble, TriageEnds, Snapshot, Replay, Dispatch, EpisodeEnds, JudgePasses,
         JudgeFails, ReviewRaises, Promote, Restore, Save, At
<1> QED
  BY <1>1, Inductive, DocumentInit, DocumentStep, PTL DEF Spec, DoneIsAssembled

-----------------------------------------------------------------------------
(* DocReview: the inductive invariant.                                     *)

Indexes == [rows : UNION {[P -> 0..MaxEdits] : P \in SUBSET Reviewing!TreeNode},
            contract : 0..(MaxEdits + 1)]
Digests == [index : Indexes, depth : BOOLEAN]

ReviewRecord ==
    [at : Reviewing!Stage, digest : Digests, read : Indexes, start : 0..(Size - 1),
     items : 0..MaxItems, depth : SUBSET Median,
     triage : [Reviewing!TreeNode -> Reviewing!Class],
     escalated : BOOLEAN, named : BOOLEAN, together : SUBSET SUBSET Reviewing!TreeNode]

DocTyped ==
    /\ tier \in {"T2", "T3"} /\ passed \in SUBSET Reviewing!TreeNode
    /\ row \in [Reviewing!TreeNode -> 0..MaxEdits] /\ contract \in 0..(MaxEdits + 1)
    /\ cache \in [digest : Digests, clean : BOOLEAN]
    /\ review \in ReviewRecord
    /\ edits \in 0..MaxEdits /\ reviews \in 0..MaxReviews

\* Every change of a row, and every amendment, has a number of its own; the contract of the
\* promotion has the last.
KnownContract(c) == c <= edits \/ (c = MaxEdits + 1 /\ tier = "T3")
ContentKnown ==
    /\ KnownContract(contract)
    /\ \A n \in Reviewing!TreeNode : row[n] <= edits

\* A digest was taken of something that was there.
Known(d) ==
    /\ KnownContract(d.index.contract)
    /\ \A n \in DOMAIN d.index.rows : d.index.rows[n] <= row[n]
    /\ d.depth => tier = "T3"

\* What it was taken of is there no more, and never will be again.
Bygone(d) ==
    \/ ~d.depth /\ tier = "T3"
    \/ \E n \in DOMAIN d.index.rows : d.index.rows[n] < row[n]
    \/ d.index.contract # contract

\* A clean record was earned by what it is of, unless that is gone.
CacheEarned ==
    /\ Known(cache.digest)
    /\ cache.clean => cache.digest \in cleared \/ Bygone(cache.digest)

RankIn(r, n) == Cardinality({m \in DOMAIN r.read.rows : m < n})
Total(r) == Cardinality(DOMAIN r.read.rows)
EndOf(r) == Reviewing!Lesser(r.start + Window, Total(r))

\* Neighbours up to a rank have been shown to one call.
ShownUpTo(r, k) ==
    \A a, b \in DOMAIN r.read.rows :
        RankIn(r, b) = RankIn(r, a) + 1 /\ RankIn(r, b) <= k => {a, b} \in r.together

Found(r) == r.escalated \/ \E n \in Reviewing!TreeNode : r.triage[n] # "none"

\* What a review has read, shown and found at each of its stages.
SoundReview(r) ==
    /\ Known(r.digest)
    /\ r.at \in {"idle", "started", "digested"} => r.start = 0
    /\ r.at \notin {"idle", "started"} => (r.digest.depth <=> tier = "T3")
    /\ r.at \in {"windows", "answer", "depth", "closer", "reviewed"} =>
         r.digest.index = r.read \/ Bygone(r.digest)
    /\ r.at = "windows" => r.start < Total(r) /\ ShownUpTo(r, r.start)
    /\ r.at = "answer" => r.start < Total(r) /\ ShownUpTo(r, EndOf(r) - 1)
    /\ r.at \in {"depth", "closer", "reviewed"} =>
         r.escalated \/ Total(r) <= 1 \/ ShownUpTo(r, Total(r))
    /\ r.at \notin {"triaged", "approval", "repairing"} => (r.named => Found(r))
    /\ r.escalated => r.at \notin {"approval", "repairing"}

DocInv == DocTyped /\ ContentKnown /\ CacheEarned /\ SoundReview(review)

-----------------------------------------------------------------------------
(* DocReview: its content and its digests.                                 *)

LEMMA Bounds ==
    /\ Size \in Nat \ {0} /\ Window \in Nat \ {0} /\ Stride \in Nat \ {0} /\ Stride < Window
    /\ Median \subseteq Reviewing!TreeNode
    /\ MaxItems \in Nat /\ MaxEdits \in Nat /\ MaxReviews \in Nat
BY MCAssemblyAssumption DEF Reviewing!DocReviewAssumption

\* What other people, a repair or the promotion do to what a review reads.
ContentMoves ==
    \/ UNCHANGED <<tier, row, contract, edits>>
    \/ \E n \in Reviewing!TreeNode :
         /\ edits < MaxEdits /\ edits' = edits + 1 /\ row' = [row EXCEPT ![n] = edits + 1]
         /\ UNCHANGED <<tier, contract>>
    \/ /\ edits < MaxEdits /\ edits' = edits + 1 /\ contract' = edits + 1
       /\ UNCHANGED <<tier, row>>
    \/ /\ tier = "T2" /\ tier' = "T3" /\ contract' = MaxEdits + 1
       /\ UNCHANGED <<row, edits>>

\* Whatever is changed gets a value it never had.
LEMMA Forward ==
    ASSUME DocTyped, ContentKnown, ContentMoves
    PROVE  /\ tier' \in {"T2", "T3"} /\ row' \in [Reviewing!TreeNode -> 0..MaxEdits]
           /\ contract' \in 0..(MaxEdits + 1) /\ edits' \in 0..MaxEdits
           /\ ContentKnown'
           /\ tier = "T3" => tier' = "T3"
           /\ \A n \in Reviewing!TreeNode : row[n] <= row'[n]
           /\ contract' # contract =>
                \/ contract' = edits + 1 /\ edits < MaxEdits /\ edits' = edits + 1
                \/ contract' = MaxEdits + 1 /\ tier = "T2" /\ tier' = "T3"
           /\ edits <= edits'
<1>0. /\ tier \in {"T2", "T3"} /\ row \in [Reviewing!TreeNode -> 0..MaxEdits]
      /\ contract \in 0..(MaxEdits + 1) /\ edits \in 0..MaxEdits /\ MaxEdits \in Nat
      /\ KnownContract(contract) /\ \A n \in Reviewing!TreeNode : row[n] <= edits
  BY Bounds DEF DocTyped, ContentKnown
<1>1. CASE UNCHANGED <<tier, row, contract, edits>>
  BY <1>0, <1>1 DEF ContentKnown, KnownContract
<1>2. ASSUME NEW n \in Reviewing!TreeNode,
             edits < MaxEdits, edits' = edits + 1, row' = [row EXCEPT ![n] = edits + 1],
             UNCHANGED <<tier, contract>>
      PROVE  /\ row' \in [Reviewing!TreeNode -> 0..MaxEdits] /\ edits' \in 0..MaxEdits
             /\ ContentKnown' /\ \A m \in Reviewing!TreeNode : row[m] <= row'[m]
  BY <1>0, <1>2 DEF ContentKnown, KnownContract
<1>3. CASE /\ edits < MaxEdits /\ edits' = edits + 1 /\ contract' = edits + 1
           /\ UNCHANGED <<tier, row>>
  BY <1>0, <1>3 DEF ContentKnown, KnownContract
<1>4. CASE /\ tier = "T2" /\ tier' = "T3" /\ contract' = MaxEdits + 1
           /\ UNCHANGED <<row, edits>>
  BY <1>0, <1>4 DEF ContentKnown, KnownContract
<1> QED
  BY <1>0, <1>1, <1>2, <1>3, <1>4 DEF ContentMoves

\* So what was known stays known, and what is gone stays gone.
LEMMA KnownStays ==
    ASSUME DocTyped, ContentKnown, ContentMoves, NEW d \in Digests, Known(d)
    PROVE  Known(d)' /\ (Bygone(d) => Bygone(d)')
<1>0. /\ tier \in {"T2", "T3"} /\ edits \in 0..MaxEdits /\ MaxEdits \in Nat
      /\ row \in [Reviewing!TreeNode -> 0..MaxEdits]
      /\ row' \in [Reviewing!TreeNode -> 0..MaxEdits]
      /\ contract \in 0..(MaxEdits + 1) /\ contract' \in 0..(MaxEdits + 1)
      /\ edits' \in 0..MaxEdits /\ edits <= edits'
      /\ tier = "T3" => tier' = "T3"
      /\ \A n \in Reviewing!TreeNode : row[n] <= row'[n]
      /\ contract' # contract =>
           \/ contract' = edits + 1 /\ edits < MaxEdits
           \/ contract' = MaxEdits + 1 /\ tier = "T2"
  BY Bounds, Forward DEF DocTyped
<1>1. /\ d.index.contract \in 0..(MaxEdits + 1)
      /\ DOMAIN d.index.rows \subseteq Reviewing!TreeNode
      /\ \A n \in DOMAIN d.index.rows : d.index.rows[n] \in 0..MaxEdits
  BY DEF Digests, Indexes
<1>2. KnownContract(d.index.contract) /\ KnownContract(d.index.contract)'
  BY <1>0, <1>1 DEF Known, KnownContract
<1>3. \A n \in DOMAIN d.index.rows : d.index.rows[n] <= row'[n]
  BY <1>0, <1>1 DEF Known
<1>4. Known(d)'
  BY <1>0, <1>2, <1>3 DEF Known
<1>5. CASE ~d.depth /\ tier = "T3"
  <2>1. ~d.depth /\ tier' = "T3"
    BY <1>0, <1>5
  <2> QED
    BY <1>4, <2>1, Zenon DEF Bygone
<1>6. CASE \E n \in DOMAIN d.index.rows : d.index.rows[n] < row[n]
  <2>1. PICK n \in DOMAIN d.index.rows : d.index.rows[n] < row[n]
    BY <1>6
  <2>2. d.index.rows[n] < row'[n]
    BY <1>0, <1>1, <2>1
  <2> QED
    BY <1>4, <2>2, Zenon DEF Bygone
<1>7. CASE d.index.contract # contract
  <2>1. d.index.contract # contract'
    BY <1>0, <1>1, <1>2, <1>7 DEF KnownContract
  <2> QED
    BY <1>4, <2>1, Zenon DEF Bygone
<1> QED
  BY <1>4, <1>5, <1>6, <1>7, Zenon DEF Bygone

\* What is read now is known, and it is not gone.
LEMMA NowIsKnown ==
    ASSUME DocTyped, ContentKnown, NEW P \in SUBSET Reviewing!TreeNode
    PROVE  /\ Reviewing!Index(P) \in Indexes /\ DOMAIN Reviewing!Index(P).rows = P
           /\ Reviewing!Digest(P) \in Digests /\ Known(Reviewing!Digest(P))
           /\ (Reviewing!Digest(P).depth <=> tier = "T3") /\ ~Bygone(Reviewing!Digest(P))
<1>0. /\ row \in [Reviewing!TreeNode -> 0..MaxEdits] /\ contract \in 0..(MaxEdits + 1)
      /\ tier \in {"T2", "T3"} /\ MaxEdits \in Nat
  BY Bounds DEF DocTyped
<1> DEFINE rs == [n \in P |-> row[n]]
<1>1. rs \in [P -> 0..MaxEdits] /\ DOMAIN rs = P /\ \A n \in P : rs[n] = row[n]
  BY <1>0
<1>2. rs \in UNION {[Q -> 0..MaxEdits] : Q \in SUBSET Reviewing!TreeNode}
  BY <1>1
<1>3. Reviewing!Index(P) = [rows |-> rs, contract |-> contract]
  BY DEF Reviewing!Index
<1> HIDE DEF rs
<1>4. /\ Reviewing!Index(P) \in Indexes /\ Reviewing!Index(P).rows = rs
      /\ Reviewing!Index(P).contract = contract
  BY <1>0, <1>2, <1>3 DEF Indexes
<1> DEFINE d == Reviewing!Digest(P)
<1>5. d \in Digests /\ d.index = Reviewing!Index(P) /\ d.depth = (tier = "T3")
  BY <1>4 DEF Reviewing!Digest, Digests
<1> HIDE DEF d
<1>a. d.depth <=> tier = "T3"
  BY <1>5, Zenon
<1>b. /\ d.index.contract = contract /\ DOMAIN d.index.rows = P
      /\ \A n \in P : d.index.rows[n] = row[n] /\ row[n] \in Nat
  BY <1>0, <1>1, <1>4, <1>5
<1>6. Known(d)
  <2>1. KnownContract(d.index.contract)
    BY <1>b DEF ContentKnown
  <2>2. \A n \in DOMAIN d.index.rows : d.index.rows[n] <= row[n]
    BY <1>b
  <2> QED
    BY <1>a, <2>1, <2>2, Zenon DEF Known
<1>7. ~Bygone(d)
  <2>1. ~(\E n \in DOMAIN d.index.rows : d.index.rows[n] < row[n])
    BY <1>b
  <2> QED
    BY <1>a, <1>b, <2>1, Zenon DEF Bygone
<1> QED
  BY <1>1, <1>4, <1>5, <1>6, <1>7, <1>a DEF d

\* A digest that is not gone says what is there now.
LEMMA KnownIsNow ==
    ASSUME DocTyped, ContentKnown, NEW d \in Digests, Known(d), ~Bygone(d)
    PROVE  d.index = Reviewing!Index(DOMAIN d.index.rows)
<1> DEFINE P == DOMAIN d.index.rows
<1>0. /\ row \in [Reviewing!TreeNode -> 0..MaxEdits] /\ MaxEdits \in Nat
      /\ d.index \in Indexes
  BY Bounds DEF DocTyped, Digests
<1>1. PICK Q \in SUBSET Reviewing!TreeNode : d.index.rows \in [Q -> 0..MaxEdits]
  BY <1>0 DEF Indexes
<1>2. \A n \in P : n \in Reviewing!TreeNode /\ d.index.rows[n] \in 0..MaxEdits
  BY <1>1
<1>3. \A n \in P : d.index.rows[n] = row[n]
  BY <1>0, <1>2 DEF Known, Bygone
<1>4. d.index.rows = [n \in P |-> row[n]]
  BY <1>1, <1>3
<1>5. d.index.contract = contract
  BY DEF Bygone
<1>6. d.index = [rows |-> d.index.rows, contract |-> d.index.contract]
  BY <1>0 DEF Indexes
<1> QED
  BY <1>4, <1>5, <1>6 DEF Reviewing!Index

-----------------------------------------------------------------------------
(* DocReview: ranks and windows.                                           *)

LEMMA SameCounts ==
    ASSUME NEW S PROVE Reviewing!Cardinality(S) = Cardinality(S)
BY Zenon DEF Reviewing!Cardinality, Cardinality

LEMMA RankFacts ==
    ASSUME NEW r \in ReviewRecord
    PROVE  /\ DOMAIN r.read.rows \subseteq Reviewing!TreeNode
           /\ Total(r) \in 0..Size
           /\ \A n \in DOMAIN r.read.rows : RankIn(r, n) \in Nat /\ RankIn(r, n) < Total(r)
<1> DEFINE D == DOMAIN r.read.rows
<1>1. r.read \in Indexes
  BY DEF ReviewRecord
<1>2. D \subseteq Reviewing!TreeNode
  BY <1>1 DEF Indexes
<1>3. /\ IsFiniteSet(Reviewing!TreeNode) /\ Cardinality(Reviewing!TreeNode) = Size
      /\ Reviewing!TreeNode \subseteq Nat
  BY Bounds, FS_Interval DEF Reviewing!TreeNode
<1>4. IsFiniteSet(D) /\ Cardinality(D) \in Nat /\ Cardinality(D) <= Size
  BY <1>2, <1>3, FS_Subset, FS_CardinalityType
<1>5. ASSUME NEW n \in D
      PROVE  /\ Cardinality({m \in D : m < n}) \in Nat
             /\ Cardinality({m \in D : m < n}) < Cardinality(D)
  <2> DEFINE L == {m \in D : m < n}
  <2>a. n \in Nat
    BY <1>2, <1>3, <1>5
  <2>0. ~(n < n)
    BY <2>a
  <2>1. L \subseteq D \ {n}
    BY <2>0
  <2>2. IsFiniteSet(D \ {n}) /\ Cardinality(D \ {n}) = Cardinality(D) - 1
    BY <1>4, FS_RemoveElement
  <2>3. IsFiniteSet(L) /\ Cardinality(L) \in Nat /\ Cardinality(L) <= Cardinality(D) - 1
    BY <2>1, <2>2, FS_Subset, FS_CardinalityType
  <2> HIDE DEF L
  <2>4. Cardinality(L) \in Nat /\ Cardinality(L) < Cardinality(D)
    BY <1>4, <2>3
  <2> QED
    BY <2>4 DEF L
<1> QED
  BY <1>2, <1>4, <1>5, Bounds DEF Total, RankIn

\* A call sees all of the window, and what came before it was seen.
LEMMA CallShows ==
    ASSUME NEW r \in ReviewRecord, NEW s \in ReviewRecord, NEW e \in Int,
           ShownUpTo(r, r.start), s.read = r.read,
           \A a, b \in DOMAIN r.read.rows :
               RankIn(r, a) \in r.start..(e - 1) /\ RankIn(r, b) \in r.start..(e - 1)
                 => {a, b} \in s.together,
           r.together \subseteq s.together
    PROVE  ShownUpTo(s, e - 1)
<1>0. r.start \in Nat
  BY Bounds DEF ReviewRecord
<1>1. \A n \in DOMAIN r.read.rows : RankIn(s, n) = RankIn(r, n)
  BY DEF RankIn
<1>2. ASSUME NEW a \in DOMAIN r.read.rows, NEW b \in DOMAIN r.read.rows,
             RankIn(s, b) = RankIn(s, a) + 1, RankIn(s, b) <= e - 1
      PROVE  {a, b} \in s.together
  <2>1. /\ RankIn(r, b) = RankIn(r, a) + 1 /\ RankIn(r, b) <= e - 1
        /\ RankIn(r, a) \in Nat /\ RankIn(r, b) \in Nat
    BY <1>1, <1>2, RankFacts
  <2>2. CASE RankIn(r, b) <= r.start
    BY <2>1, <2>2 DEF ShownUpTo
  <2>3. CASE ~(RankIn(r, b) <= r.start)
    <3>1. RankIn(r, a) \in r.start..(e - 1) /\ RankIn(r, b) \in r.start..(e - 1)
      BY <1>0, <2>1, <2>3
    <3> QED
      BY <3>1
  <2> QED
    BY <2>2, <2>3
<1> QED
  BY <1>2 DEF ShownUpTo

\* The windows overlap: the next one begins within this one.
LEMMA WindowsOverlap ==
    ASSUME NEW r \in ReviewRecord, r.start < Total(r), ShownUpTo(r, EndOf(r) - 1)
    PROVE  /\ EndOf(r) \in Nat
           /\ EndOf(r) = Total(r) => ShownUpTo(r, Total(r))
           /\ EndOf(r) # Total(r) =>
                /\ r.start + Stride \in 0..(Size - 1) /\ r.start + Stride < Total(r)
                /\ ShownUpTo(r, r.start + Stride)
<1>0. /\ r.start \in Nat /\ Window \in Nat /\ Stride \in Nat /\ Stride < Window /\ Size \in Nat
      /\ Total(r) \in Nat /\ Total(r) <= Size
      /\ \A n \in DOMAIN r.read.rows : RankIn(r, n) \in Nat /\ RankIn(r, n) < Total(r)
  BY Bounds, RankFacts DEF ReviewRecord
<1>1. EndOf(r) \in Nat /\ (EndOf(r) # Total(r) => EndOf(r) = r.start + Window
                                                 /\ r.start + Window < Total(r))
  BY <1>0 DEF EndOf, Reviewing!Lesser
<1>2. CASE EndOf(r) = Total(r)
  <2>1. \A n \in DOMAIN r.read.rows : RankIn(r, n) <= EndOf(r) - 1
    BY <1>0, <1>2
  <2>2. ShownUpTo(r, Total(r))
    BY <2>1 DEF ShownUpTo
  <2> QED
    BY <1>1, <1>2, <2>2
<1>3. CASE EndOf(r) # Total(r)
  <2>1. \A n \in DOMAIN r.read.rows : RankIn(r, n) <= r.start + Stride
                                        => RankIn(r, n) <= EndOf(r) - 1
    BY <1>0, <1>1, <1>3
  <2>2. ShownUpTo(r, r.start + Stride)
    BY <2>1 DEF ShownUpTo
  <2>3. r.start + Stride \in 0..(Size - 1) /\ r.start + Stride < Total(r)
    BY <1>0, <1>1, <1>3
  <2> QED
    BY <1>1, <1>3, <2>2, <2>3
<1> QED
  BY <1>2, <1>3

-----------------------------------------------------------------------------
(* DocReview: every step keeps the invariant.                              *)

LEMMA ReviewFields ==
    ASSUME NEW r \in ReviewRecord
    PROVE  /\ r.at \in Reviewing!Stage /\ r.digest \in Digests /\ r.digest.index \in Indexes
           /\ r.read \in Indexes /\ r.start \in 0..(Size - 1) /\ r.items \in 0..MaxItems
           /\ r.depth \in SUBSET Median
           /\ r.triage \in [Reviewing!TreeNode -> Reviewing!Class]
           /\ r.escalated \in BOOLEAN /\ r.named \in BOOLEAN
           /\ r.together \in SUBSET SUBSET Reviewing!TreeNode
BY DEF ReviewRecord, Digests

LEMMA NoDigestIsKnown ==
    ASSUME DocTyped
    PROVE  /\ Reviewing!NoDigest \in Digests /\ Reviewing!Nothing \in Indexes
           /\ Known(Reviewing!NoDigest)
<1>0. edits \in Nat /\ MaxEdits \in Nat
  BY Bounds DEF DocTyped
<1> DEFINE rs == [n \in {} |-> 0]
<1>1. rs \in UNION {[P -> 0..MaxEdits] : P \in SUBSET Reviewing!TreeNode} /\ DOMAIN rs = {}
  <2>1. rs \in [{} -> 0..MaxEdits]
    OBVIOUS
  <2> QED
    BY <2>1
<1>a. Reviewing!Nothing = [rows |-> rs, contract |-> 0]
  BY DEF Reviewing!Nothing
<1> HIDE DEF rs
<1>2. /\ Reviewing!Nothing \in Indexes /\ DOMAIN Reviewing!Nothing.rows = {}
      /\ Reviewing!Nothing.contract = 0
  <2>1. 0 \in 0..(MaxEdits + 1)
    BY <1>0
  <2>2. [rows |-> rs, contract |-> 0] \in Indexes
    BY <1>1, <2>1, Zenon DEF Indexes
  <2> QED
    BY <1>1, <1>a, <2>2
<1>3. /\ Reviewing!NoDigest \in Digests /\ Reviewing!NoDigest.index = Reviewing!Nothing
      /\ ~Reviewing!NoDigest.depth
  BY <1>2 DEF Reviewing!NoDigest, Digests
<1>4. KnownContract(0)
  BY <1>0 DEF KnownContract
<1>5. \A n \in DOMAIN Reviewing!NoDigest.index.rows :
          Reviewing!NoDigest.index.rows[n] <= row[n]
  BY <1>2, <1>3
<1>6. Known(Reviewing!NoDigest)
  BY <1>2, <1>3, <1>4, <1>5, Zenon DEF Known
<1> QED
  BY <1>2, <1>3, <1>6

LEMMA IdleIsSound ==
    ASSUME DocTyped
    PROVE  /\ Reviewing!Idle \in ReviewRecord /\ SoundReview(Reviewing!Idle)
           /\ [Reviewing!Idle EXCEPT !.at = "started"] \in ReviewRecord
           /\ SoundReview([Reviewing!Idle EXCEPT !.at = "started"])
<1>0. /\ Reviewing!NoDigest \in Digests /\ Reviewing!Nothing \in Indexes
      /\ Known(Reviewing!NoDigest) /\ 0 \in 0..(Size - 1) /\ 0 \in 0..MaxItems
  BY Bounds, NoDigestIsKnown
<1>1. [n \in Reviewing!TreeNode |-> "none"] \in [Reviewing!TreeNode -> Reviewing!Class]
  BY DEF Reviewing!Class
<1> DEFINE i == Reviewing!Idle
           s == [i EXCEPT !.at = "started"]
<1>2. /\ i \in ReviewRecord /\ i.at = "idle" /\ i.digest = Reviewing!NoDigest
      /\ i.named = FALSE /\ i.escalated = FALSE /\ i.start = 0
  BY <1>0, <1>1 DEF Reviewing!Idle, ReviewRecord, Reviewing!Stage
<1>3. /\ s \in ReviewRecord /\ s.at = "started" /\ s.digest = Reviewing!NoDigest
      /\ s.named = FALSE /\ s.escalated = FALSE /\ s.start = 0
  BY <1>2 DEF ReviewRecord, Reviewing!Stage
<1> HIDE DEF i, s
<1>4. SoundReview(i) /\ SoundReview(s)
  BY <1>0, <1>2, <1>3 DEF SoundReview
<1> QED
  BY <1>2, <1>3, <1>4 DEF i, s

\* What is known and what is gone move with the content; the rest of a review is its own.
LEMMA StaysSound ==
    ASSUME DocTyped, ContentKnown, ContentMoves, tier' = tier,
           NEW r \in ReviewRecord, SoundReview(r)
    PROVE  SoundReview(r)'
<1>1. Known(r.digest) /\ Known(r.digest)' /\ (Bygone(r.digest) => Bygone(r.digest)')
  BY ReviewFields, KnownStays DEF SoundReview
<1>2. /\ Total(r)' = Total(r) /\ EndOf(r)' = EndOf(r)
      /\ Found(r)' <=> Found(r)
      /\ ShownUpTo(r, r.start)' <=> ShownUpTo(r, r.start)
      /\ ShownUpTo(r, EndOf(r) - 1)' <=> ShownUpTo(r, EndOf(r) - 1)
      /\ ShownUpTo(r, Total(r))' <=> ShownUpTo(r, Total(r))
  BY DEF Total, EndOf, Found, ShownUpTo, RankIn
<1> QED
  BY <1>1, <1>2 DEF SoundReview

\* A record stays earned while the content moves.
LEMMA CacheStays ==
    ASSUME DocInv, ContentMoves, cache' = cache, cleared \subseteq cleared'
    PROVE  cache' \in [digest : Digests, clean : BOOLEAN] /\ CacheEarned'
<1>1. /\ cache.digest \in Digests /\ Known(cache.digest)
      /\ cache.clean => cache.digest \in cleared \/ Bygone(cache.digest)
  BY DEF DocInv, DocTyped, CacheEarned
<1>2. PICK d : d = cache.digest
  OBVIOUS
<1>3. Known(d)' /\ (Bygone(d) => Bygone(d)')
  BY <1>1, <1>2, KnownStays DEF DocInv
<1>4. cache.digest' = d
  BY <1>2
<1>5. Known(cache.digest)' /\ (Bygone(d)' => Bygone(cache.digest)')
  BY <1>3, <1>4 DEF Known, Bygone, KnownContract
<1>6. cache' \in [digest : Digests, clean : BOOLEAN]
  BY DEF DocInv, DocTyped
<1>7. cache'.clean => cache'.digest \in cleared' \/ Bygone(cache.digest)'
  BY <1>1, <1>2, <1>3, <1>5
<1> QED
  BY <1>5, <1>6, <1>7 DEF CacheEarned

\* The invariant after a step, from its parts.
LEMMA Combine ==
    ASSUME DocInv, ContentMoves, NEW s \in ReviewRecord, review' = s, SoundReview(s)',
           passed' \in SUBSET Reviewing!TreeNode, reviews' \in 0..MaxReviews,
           cache' \in [digest : Digests, clean : BOOLEAN], CacheEarned'
    PROVE  DocInv'
<1>1. DocTyped' /\ ContentKnown'
  BY Forward DEF DocInv, DocTyped
<1>2. SoundReview(review)'
  <2>1. Total(review)' = Total(s)' /\ (Found(review)' <=> Found(s)')
    BY DEF Total, Found
  <2>2. EndOf(review)' = EndOf(s)'
    BY <2>1 DEF EndOf
  <2>3. \A n : RankIn(review, n)' = RankIn(s, n)'
    BY DEF RankIn
  <2>4. \A k : ShownUpTo(s, k)' => ShownUpTo(review, k)'
    BY <2>3 DEF ShownUpTo
  <2>5. /\ Known(s.digest)' => Known(review.digest)'
        /\ Bygone(s.digest)' => Bygone(review.digest)'
    BY DEF Known, Bygone, KnownContract
  <2> QED
    BY <2>1, <2>2, <2>4, <2>5 DEF SoundReview
<1> QED
  BY <1>1, <1>2 DEF DocInv

\* A step of the review that changes nothing it reads.
LEMMA Moves ==
    ASSUME DocInv, NEW s \in ReviewRecord, review' = s, SoundReview(s),
           UNCHANGED <<tier, passed, row, contract, cache, cleared, edits>>,
           reviews' \in 0..MaxReviews
    PROVE  DocInv'
<1>1. ContentMoves
  BY DEF ContentMoves
<1>2. SoundReview(s)'
  BY <1>1, StaysSound DEF DocInv
<1>3. cache' \in [digest : Digests, clean : BOOLEAN] /\ CacheEarned'
  BY <1>1, CacheStays
<1>4. passed' \in SUBSET Reviewing!TreeNode
  BY DEF DocInv, DocTyped
<1> QED
  BY <1>1, <1>2, <1>3, <1>4, Combine

\* The operators of DocReview, said of the review under way.
LEMMA Views ==
    ASSUME DocTyped
    PROVE  /\ \A n \in DOMAIN review.read.rows : Reviewing!Rank(n) = RankIn(review, n)
           /\ Reviewing!Rows = DOMAIN review.read.rows
           /\ Reviewing!End = EndOf(review)
           /\ Reviewing!InWindow = {n \in DOMAIN review.read.rows :
                                      RankIn(review, n) \in review.start..(EndOf(review) - 1)}
           /\ Reviewing!LastWindow <=> EndOf(review) = Total(review)
           /\ Reviewing!NextStart = review.start + Stride
           /\ Reviewing!Clean <=> ~Found(review)
<1>1. Reviewing!Rows = DOMAIN review.read.rows
  BY DEF Reviewing!Rows
<1>2. \A n : Reviewing!Rank(n) = RankIn(review, n)
  BY <1>1, SameCounts DEF Reviewing!Rank, RankIn
<1>3. Reviewing!Cardinality(Reviewing!Rows) = Total(review)
  BY <1>1, SameCounts DEF Total
<1>4. Reviewing!End = EndOf(review)
  BY <1>3 DEF Reviewing!End, EndOf
<1>5. Reviewing!InWindow = {n \in DOMAIN review.read.rows :
                              RankIn(review, n) \in review.start..(EndOf(review) - 1)}
  BY <1>1, <1>2, <1>4 DEF Reviewing!InWindow
<1>6. Reviewing!Clean <=> ~Found(review)
  BY DEF Reviewing!Clean, Reviewing!Triaged, Found
<1> QED
  BY <1>1, <1>2, <1>3, <1>4, <1>5, <1>6 DEF Reviewing!LastWindow, Reviewing!NextStart

\* What a node is given, or an escalation, is a finding.
LEMMA AbsorbFinds ==
    ASSUME NEW r \in ReviewRecord, NEW ids, NEW class \in {"patchable", "regenerate"},
           NEW s, s = Reviewing!Absorb(r, ids, class)
    PROVE  /\ s \in ReviewRecord /\ s.at = r.at /\ s.digest = r.digest /\ s.read = r.read
           /\ s.start = r.start /\ s.together = r.together /\ s.named = r.named
           /\ r.escalated => s.escalated
           /\ Found(s)
<1>0. /\ r.triage \in [Reviewing!TreeNode -> Reviewing!Class]
      /\ Reviewing!Class = {"none", "patchable", "regenerate"}
  BY ReviewFields DEF Reviewing!Class
<1>1. CASE ids \cap Reviewing!TreeNode = {}
  <2>1. s = [r EXCEPT !.escalated = TRUE]
    BY <1>1 DEF Reviewing!Absorb
  <2>2. /\ s \in ReviewRecord /\ s.at = r.at /\ s.digest = r.digest /\ s.read = r.read
        /\ s.start = r.start /\ s.together = r.together /\ s.named = r.named
        /\ s.escalated
    BY <2>1 DEF ReviewRecord
  <2> QED
    BY <2>2 DEF Found
<1>2. CASE ids \cap Reviewing!TreeNode # {}
  <2> DEFINE t == [n \in Reviewing!TreeNode |->
                     IF n \in ids \cap Reviewing!TreeNode /\ r.triage[n] # "regenerate"
                     THEN class ELSE r.triage[n]]
  <2>1. s = [r EXCEPT !.triage = t]
    BY <1>2 DEF Reviewing!Absorb
  <2>2. t \in [Reviewing!TreeNode -> Reviewing!Class]
    BY <1>0
  <2>3. PICK n \in Reviewing!TreeNode : n \in ids
    BY <1>2
  <2>4. t[n] # "none"
    BY <2>3
  <2> HIDE DEF t
  <2>5. /\ s \in ReviewRecord /\ s.at = r.at /\ s.digest = r.digest /\ s.read = r.read
        /\ s.start = r.start /\ s.together = r.together /\ s.named = r.named
        /\ s.escalated = r.escalated /\ s.triage = t
    BY <2>1, <2>2 DEF ReviewRecord
  <2> QED
    BY <2>3, <2>4, <2>5 DEF Found
<1> QED
  BY <1>1, <1>2

\* A review that reads, has shown and has found as much is as sound.
LEMMA SoundLike ==
    ASSUME NEW r \in ReviewRecord, SoundReview(r), NEW s \in ReviewRecord,
           \/ s.at = "answer" /\ r.at = "answer"
           \/ {r.at, s.at} \subseteq {"depth", "closer", "reviewed"},
           s.digest = r.digest, s.read = r.read, s.start = r.start, s.together = r.together,
           r.escalated => s.escalated, s.named => Found(s)
    PROVE  SoundReview(s)
<1>1. /\ Total(s) = Total(r) /\ EndOf(s) = EndOf(r)
      /\ \A k : ShownUpTo(s, k) <=> ShownUpTo(r, k)
  BY DEF Total, EndOf, ShownUpTo, RankIn
<1>2. CASE s.at = "answer" /\ r.at = "answer"
  BY <1>1, <1>2 DEF SoundReview
<1>3. CASE {r.at, s.at} \subseteq {"depth", "closer", "reviewed"}
  BY <1>1, <1>3 DEF SoundReview
<1> QED
  BY <1>2, <1>3

LEMMA EndsKeep ==
    ASSUME DocInv, NEW result, Reviewing!Ends(result),
           \/ cache' = cache
           \/ cache' = [digest |-> Reviewing!NoDigest, clean |-> FALSE]
    PROVE  DocInv'
<1>0. /\ review' = Reviewing!Idle
      /\ UNCHANGED <<tier, passed, row, contract, cleared, edits, reviews>>
  BY DEF Reviewing!Ends, Reviewing!content
<1>1. Reviewing!Idle \in ReviewRecord /\ SoundReview(Reviewing!Idle)
  BY IdleIsSound DEF DocInv
<1>2. reviews' \in 0..MaxReviews /\ passed' \in SUBSET Reviewing!TreeNode
  BY <1>0 DEF DocInv, DocTyped
<1>3. CASE cache' = cache
  BY <1>0, <1>1, <1>2, <1>3, Moves
<1>4. CASE cache' = [digest |-> Reviewing!NoDigest, clean |-> FALSE]
  <2>1. ContentMoves
    BY <1>0 DEF ContentMoves
  <2>2. SoundReview(Reviewing!Idle)'
    BY <1>0, <1>1, <2>1, StaysSound DEF DocInv
  <2>3. /\ cache.digest' = Reviewing!NoDigest /\ cache.clean' = FALSE
        /\ cache' \in [digest : Digests, clean : BOOLEAN]
    BY <1>4, NoDigestIsKnown DEF DocInv
  <2>4. Known(Reviewing!NoDigest)'
    BY <2>1, NoDigestIsKnown, KnownStays DEF DocInv
  <2>5. Known(cache.digest)'
    BY <2>3, <2>4 DEF Known, KnownContract
  <2>6. CacheEarned'
    BY <2>3, <2>5 DEF CacheEarned
  <2> QED
    BY <1>0, <1>1, <1>2, <2>1, <2>2, <2>3, <2>6, Combine
<1> QED
  BY <1>3, <1>4

\* A step of the review alone.
LEMMA StepKeeps ==
    ASSUME DocInv, NEW s \in ReviewRecord, Reviewing!Step(s), SoundReview(s)
    PROVE  DocInv'
<1>1. /\ review' = s
      /\ UNCHANGED <<tier, passed, row, contract, cache, cleared, edits, reviews>>
  BY DEF Reviewing!Step, Reviewing!content
<1>2. reviews' \in 0..MaxReviews
  BY <1>1 DEF DocInv, DocTyped
<1> QED
  BY <1>1, <1>2, Moves

LEMMA EnterKeeps == DocInv /\ Reviewing!Enter => DocInv'
<1> SUFFICES ASSUME DocInv, Reviewing!Enter PROVE DocInv'
  OBVIOUS
<1> DEFINE s == [Reviewing!Idle EXCEPT !.at = "started"]
<1>1. s \in ReviewRecord /\ SoundReview(s)
  BY IdleIsSound DEF DocInv
<1>2. /\ review' = s /\ reviews < MaxReviews /\ reviews' = reviews + 1
      /\ UNCHANGED <<tier, passed, row, contract, cache, cleared, edits>>
  BY DEF Reviewing!Enter, Reviewing!content
<1>3. reviews' \in 0..MaxReviews
  BY <1>2, Bounds DEF DocInv, DocTyped
<1> QED
  BY <1>1, <1>2, <1>3, Moves

LEMMA MissKeeps == DocInv /\ Reviewing!Miss => DocInv'
<1> SUFFICES ASSUME DocInv, Reviewing!Miss PROVE DocInv'
  OBVIOUS
<1> DEFINE d == Reviewing!Digest(passed)
           s == [review EXCEPT !.at = "digested", !.digest = d]
<1>0. /\ review.at = "started" /\ review' = s
      /\ UNCHANGED <<tier, passed, row, contract, cache, cleared, edits, reviews>>
  BY DEF Reviewing!Miss, Reviewing!content
<1>1. d \in Digests /\ Known(d) /\ (d.depth <=> tier = "T3")
  BY NowIsKnown DEF DocInv, DocTyped
<1>2. review \in ReviewRecord /\ SoundReview(review)
  BY DEF DocInv, DocTyped
<1> HIDE DEF d
<1>3. /\ s \in ReviewRecord /\ s.at = "digested" /\ s.digest = d /\ s.start = review.start
      /\ s.named = review.named /\ s.escalated = review.escalated /\ s.triage = review.triage
  BY <1>1, <1>2 DEF ReviewRecord, Reviewing!Stage
<1> HIDE DEF s
<1>4. SoundReview(s)
  BY <1>0, <1>1, <1>2, <1>3 DEF SoundReview, Found
<1>5. reviews' \in 0..MaxReviews
  BY <1>0 DEF DocInv, DocTyped
<1> QED
  BY <1>0, <1>3, <1>4, <1>5, Moves

\* A reading that is not of what the digest was taken of comes after a change.
LEMMA ReadKeeps == DocInv /\ Reviewing!Read => DocInv'
<1> SUFFICES ASSUME DocInv, Reviewing!Read PROVE DocInv'
  OBVIOUS
<1> DEFINE P == DOMAIN review.digest.index.rows
           i == Reviewing!Index(P)
           dp == IF tier = "T3" THEN Median ELSE {}
           r == [review EXCEPT !.read = i, !.depth = dp]
<1>0. /\ review \in ReviewRecord /\ SoundReview(review) /\ review.at = "digested"
      /\ review.start = 0 /\ DocTyped /\ ContentKnown
  BY DEF DocInv, DocTyped, Reviewing!Read, SoundReview
<1>1. P \in SUBSET Reviewing!TreeNode
  BY <1>0, ReviewFields DEF Indexes
<1>2. i \in Indexes /\ DOMAIN i.rows = P
  BY <1>0, <1>1, NowIsKnown
<1>3. review.digest.index = i \/ Bygone(review.digest)
  BY <1>0, ReviewFields, KnownIsNow DEF SoundReview
<1>4. dp \in SUBSET Median
  OBVIOUS
<1>5. PICK at \in {"windows", "depth", "reviewed"} :
        /\ Reviewing!Step([r EXCEPT !.at = at])
        /\ at = "windows" => P # {}
        /\ at # "windows" => P = {} \/ Reviewing!Cardinality(P) <= 1
  <2>1. Reviewing!Step(IF Reviewing!Cardinality(P) <= 1 /\ tier = "T2"
                       THEN [r EXCEPT !.at = "reviewed"] ELSE Reviewing!FirstCall(r, P))
    BY DEF Reviewing!Read
  <2> HIDE DEF r, P
  <2>2. CASE Reviewing!Cardinality(P) <= 1 /\ tier = "T2"
    BY <2>1, <2>2
  <2>3. CASE ~(Reviewing!Cardinality(P) <= 1 /\ tier = "T2")
    BY <2>1, <2>3 DEF Reviewing!FirstCall
  <2> QED
    BY <2>2, <2>3
<1> DEFINE s == [r EXCEPT !.at = at]
<1> HIDE DEF dp, i
<1>6. /\ s \in ReviewRecord /\ s.at = at /\ s.digest = review.digest /\ s.read = i
      /\ s.start = 0 /\ s.named = review.named /\ s.escalated = review.escalated
      /\ s.triage = review.triage
  BY <1>0, <1>2, <1>4 DEF ReviewRecord, Reviewing!Stage
<1>7. Total(s) = Cardinality(P) /\ Total(s) \in Nat /\ (P # {} => Total(s) > 0)
  <2> HIDE DEF s, P
  <2>a. Total(s) \in 0..Size
    BY <1>6, RankFacts
  <2>1. Total(s) = Cardinality(P) /\ Total(s) \in Nat
    BY <1>2, <1>6, <2>a, Bounds DEF Total
  <2>b. IsFiniteSet(Reviewing!TreeNode)
    BY FS_Interval, Bounds DEF Reviewing!TreeNode
  <2>2. IsFiniteSet(P)
    BY <1>1, <2>b, FS_Subset
  <2>3. P # {} => Cardinality(P) # 0
    BY <2>2, FS_EmptySet
  <2> QED
    BY <2>1, <2>3
<1>8. ShownUpTo(s, 0)
  <2>1. \A n \in DOMAIN s.read.rows : RankIn(s, n) \in Nat
    BY <1>6, RankFacts
  <2> QED
    BY <2>1 DEF ShownUpTo
<1>9. at # "windows" => Total(s) <= 1
  <2>1. P = {} => Cardinality(P) = 0
    BY FS_EmptySet
  <2>2. Reviewing!Cardinality(P) = Cardinality(P)
    BY SameCounts
  <2> QED
    BY <1>5, <1>7, <2>1, <2>2
<1>10. SoundReview(s)
  <2>1. Found(s) <=> Found(review)
    BY <1>6 DEF Found
  <2>2. /\ Known(s.digest) /\ (s.digest.depth <=> tier = "T3")
        /\ s.digest.index = s.read \/ Bygone(s.digest)
        /\ s.named => Found(s)
    BY <1>0, <1>3, <1>6, <2>1 DEF SoundReview
  <2>3. s.at = "windows" => s.start < Total(s) /\ ShownUpTo(s, s.start)
    BY <1>5, <1>6, <1>7, <1>8
  <2>4. s.at \in {"depth", "closer", "reviewed"} => Total(s) <= 1
    BY <1>6, <1>9
  <2>5. s.at \in {"windows", "depth", "reviewed"}
    BY <1>5, <1>6
  <2> HIDE DEF s
  <2> QED
    BY <2>2, <2>3, <2>4, <2>5 DEF SoundReview
<1> HIDE DEF r
<1> QED
  BY <1>5, <1>6, <1>10, StepKeeps

LEMMA CallKeeps == DocInv /\ Reviewing!Call => DocInv'
<1> SUFFICES ASSUME DocInv, Reviewing!Call PROVE DocInv'
  OBVIOUS
<1> DEFINE tg == review.together \cup {{a, b} : a, b \in Reviewing!InWindow}
           s == [review EXCEPT !.at = "answer", !.items = 0, !.together = tg]
<1>0. /\ review \in ReviewRecord /\ SoundReview(review) /\ review.at = "windows"
      /\ Reviewing!Step(s) /\ DocTyped
  BY DEF DocInv, DocTyped, Reviewing!Call
<1>1. Reviewing!InWindow = {n \in DOMAIN review.read.rows :
                              RankIn(review, n) \in review.start..(EndOf(review) - 1)}
  BY <1>0, Views
<1>2. DOMAIN review.read.rows \subseteq Reviewing!TreeNode
  BY <1>0, RankFacts
<1>3. /\ tg \in SUBSET SUBSET Reviewing!TreeNode
      /\ review.together \subseteq tg
      /\ \A a, b \in DOMAIN review.read.rows :
           RankIn(review, a) \in review.start..(EndOf(review) - 1)
             /\ RankIn(review, b) \in review.start..(EndOf(review) - 1) => {a, b} \in tg
  <2>1. Reviewing!InWindow \subseteq Reviewing!TreeNode
    BY <1>1, <1>2
  <2>2. tg \in SUBSET SUBSET Reviewing!TreeNode
    BY <1>0, <2>1, ReviewFields
  <2>3. \A a, b \in Reviewing!InWindow : {a, b} \in tg
    OBVIOUS
  <2>4. review.together \subseteq tg
    OBVIOUS
  <2> HIDE DEF tg
  <2> QED
    BY <1>1, <2>2, <2>3, <2>4
<1> HIDE DEF tg
<1>a. 0 \in 0..MaxItems /\ "answer" \in Reviewing!Stage
  BY Bounds DEF Reviewing!Stage
<1>4. /\ s \in ReviewRecord /\ s.at = "answer" /\ s.digest = review.digest
      /\ s.read = review.read /\ s.start = review.start /\ s.together = tg
      /\ s.named = review.named /\ s.escalated = review.escalated
      /\ s.triage = review.triage
  BY <1>0, <1>3, <1>a DEF ReviewRecord
<1> HIDE DEF s
<1>5. review.start < Total(review) /\ ShownUpTo(review, review.start)
  BY <1>0 DEF SoundReview
<1>6. EndOf(s) = EndOf(review) /\ Total(s) = Total(review) /\ EndOf(review) \in Int
  <2>1. EndOf(s) = EndOf(review) /\ Total(s) = Total(review)
    BY <1>4 DEF EndOf, Total
  <2>2. review.start + Window \in Int /\ Total(review) \in Int
    BY <1>0, RankFacts, ReviewFields, Bounds
  <2> QED
    BY <2>1, <2>2 DEF EndOf, Reviewing!Lesser
<1>7. ShownUpTo(s, EndOf(s) - 1)
  BY <1>0, <1>3, <1>4, <1>5, <1>6, CallShows
<1>8. SoundReview(s)
  <2>1. Found(s) <=> Found(review)
    BY <1>4 DEF Found
  <2> QED
    BY <1>0, <1>4, <1>5, <1>6, <1>7, <2>1 DEF SoundReview
<1> QED
  BY <1>0, <1>4, <1>8, StepKeeps

\* An item out of scope finds nothing and names nothing; every other one that names is found.
LEMMA ItemKeeps ==
    ASSUME DocInv, NEW ids, NEW class \in {"patchable", "regenerate"},
           Reviewing!Item(ids, class)
    PROVE  DocInv'
<1> DEFINE in == review.named \/ ids = {} \/ ids \cap Reviewing!InWindow # {}
           r == [review EXCEPT !.items = review.items + 1, !.named = in]
           s == Reviewing!Absorb(r, ids, class)
<1>0. /\ review \in ReviewRecord /\ SoundReview(review) /\ review.at = "answer"
      /\ review.items < MaxItems
      /\ Reviewing!Step(IF Reviewing!OutOfScope(ids) THEN r ELSE s)
  BY DEF DocInv, DocTyped, Reviewing!Item
<1>1. review.items + 1 \in 0..MaxItems
  BY <1>0, ReviewFields, Bounds
<1>2. in \in BOOLEAN /\ (Reviewing!OutOfScope(ids) => (in <=> review.named))
  <2>1. review.named \in BOOLEAN
    BY <1>0, ReviewFields
  <2> QED
    BY <2>1 DEF Reviewing!OutOfScope
<1> HIDE DEF in
<1>3. /\ r \in ReviewRecord /\ r.at = review.at /\ r.digest = review.digest
      /\ r.read = review.read /\ r.start = review.start /\ r.together = review.together
      /\ r.escalated = review.escalated /\ r.triage = review.triage /\ r.named = in
  BY <1>0, <1>1, <1>2 DEF ReviewRecord
<1> HIDE DEF r
<1>4. CASE Reviewing!OutOfScope(ids)
  <2>1. Found(r) <=> Found(review)
    BY <1>3 DEF Found
  <2>2. r.named => Found(r)
    BY <1>0, <1>2, <1>3, <1>4, <2>1 DEF SoundReview
  <2>3. SoundReview(r)
    BY <1>0, <1>3, <2>2, SoundLike
  <2> QED
    BY <1>0, <1>3, <1>4, <2>3, StepKeeps
<1>5. CASE ~Reviewing!OutOfScope(ids)
  <2>1. PICK t : t = s
    OBVIOUS
  <2> HIDE DEF s
  <2>2. /\ t \in ReviewRecord /\ t.at = r.at /\ t.digest = r.digest /\ t.read = r.read
        /\ t.start = r.start /\ t.together = r.together
        /\ (r.escalated => t.escalated) /\ Found(t)
    BY <1>3, <2>1, AbsorbFinds DEF s
  <2>3. SoundReview(t)
    BY <1>0, <1>3, <2>2, SoundLike
  <2>4. Reviewing!Step(t)
    BY <1>0, <1>5, <2>1
  <2> QED
    BY <2>2, <2>3, <2>4, StepKeeps
<1> QED
  BY <1>4, <1>5

LEMMA CloserItemKeeps ==
    ASSUME DocInv, NEW ids, NEW class \in {"patchable", "regenerate"},
           Reviewing!CloserItem(ids, class)
    PROVE  DocInv'
<1> DEFINE r == [review EXCEPT !.items = review.items + 1, !.named = TRUE]
           s == Reviewing!Absorb(r, ids, class)
<1>0. /\ review \in ReviewRecord /\ SoundReview(review) /\ review.at = "closer"
      /\ review.items < MaxItems /\ Reviewing!Step(s)
  BY DEF DocInv, DocTyped, Reviewing!CloserItem
<1>1. review.items + 1 \in 0..MaxItems
  BY <1>0, ReviewFields, Bounds
<1>3. /\ r \in ReviewRecord /\ r.at = review.at /\ r.digest = review.digest
      /\ r.read = review.read /\ r.start = review.start /\ r.together = review.together
      /\ r.escalated = review.escalated
  BY <1>0, <1>1 DEF ReviewRecord
<1> HIDE DEF r
<1>4. PICK t : t = s
  OBVIOUS
<1> HIDE DEF s
<1>5. /\ t \in ReviewRecord /\ t.at = r.at /\ t.digest = r.digest /\ t.read = r.read
      /\ t.start = r.start /\ t.together = r.together
      /\ (r.escalated => t.escalated) /\ Found(t)
  BY <1>3, <1>4, AbsorbFinds DEF s
<1>6. SoundReview(t)
  BY <1>0, <1>3, <1>5, SoundLike
<1>7. Reviewing!Step(t)
  BY <1>0, <1>4
<1> QED
  BY <1>5, <1>6, <1>7, StepKeeps

LEMMA CallEndsKeeps == DocInv /\ Reviewing!CallEnds => DocInv'
<1> SUFFICES ASSUME DocInv, Reviewing!CallEnds PROVE DocInv'
  OBVIOUS
<1>0. /\ review \in ReviewRecord /\ SoundReview(review) /\ review.at = "answer" /\ DocTyped
      /\ review.start < Total(review) /\ ShownUpTo(review, EndOf(review) - 1)
  BY DEF DocInv, DocTyped, Reviewing!CallEnds, SoundReview
<1>1. /\ EndOf(review) = Total(review) => ShownUpTo(review, Total(review))
      /\ EndOf(review) # Total(review) =>
           /\ review.start + Stride \in 0..(Size - 1)
           /\ review.start + Stride < Total(review)
           /\ ShownUpTo(review, review.start + Stride)
  BY <1>0, WindowsOverlap
<1>2. ASSUME NEW at \in {"depth", "reviewed"},
             Reviewing!Step([review EXCEPT !.at = at]),
             review.escalated \/ EndOf(review) = Total(review)
      PROVE  DocInv'
  <2> DEFINE s == [review EXCEPT !.at = at]
  <2>1. /\ s \in ReviewRecord /\ s.at = at /\ s.digest = review.digest
        /\ s.read = review.read /\ s.start = review.start /\ s.together = review.together
        /\ s.named = review.named /\ s.escalated = review.escalated
        /\ s.triage = review.triage
    BY <1>0 DEF ReviewRecord, Reviewing!Stage
  <2> HIDE DEF s
  <2>2. /\ Found(s) <=> Found(review)
        /\ Total(s) = Total(review)
        /\ ShownUpTo(s, Total(review)) <=> ShownUpTo(review, Total(review))
    BY <2>1 DEF Found, Total, ShownUpTo, RankIn
  <2>3. SoundReview(s)
    BY <1>0, <1>1, <1>2, <2>1, <2>2 DEF SoundReview
  <2> QED
    BY <1>2, <2>1, <2>3, StepKeeps DEF s
<1>3. CASE review.escalated
  BY <1>2, <1>3 DEF Reviewing!CallEnds
<1>4. CASE ~review.escalated /\ Reviewing!LastWindow
  <2>1. EndOf(review) = Total(review)
    BY <1>0, <1>4, Views
  <2> QED
    BY <1>2, <1>4, <2>1 DEF Reviewing!CallEnds
<1>5. CASE ~review.escalated /\ ~Reviewing!LastWindow
  <2> DEFINE s == [review EXCEPT !.at = "windows", !.start = Reviewing!NextStart]
  <2>1. EndOf(review) # Total(review) /\ Reviewing!NextStart = review.start + Stride
    BY <1>0, <1>5, Views
  <2>2. Reviewing!NextStart \in 0..(Size - 1)
    BY <1>1, <2>1
  <2>3. /\ s \in ReviewRecord /\ s.at = "windows" /\ s.digest = review.digest
        /\ s.read = review.read /\ s.start = review.start + Stride
        /\ s.together = review.together
        /\ s.named = review.named /\ s.escalated = review.escalated
        /\ s.triage = review.triage
    BY <1>0, <2>1, <2>2 DEF ReviewRecord, Reviewing!Stage
  <2>4. Reviewing!Step(s)
    BY <1>5 DEF Reviewing!CallEnds
  <2> HIDE DEF s
  <2>5. /\ Found(s) <=> Found(review)
        /\ Total(s) = Total(review)
        /\ ShownUpTo(s, review.start + Stride) <=> ShownUpTo(review, review.start + Stride)
    BY <2>3 DEF Found, Total, ShownUpTo, RankIn
  <2>6. SoundReview(s)
    BY <1>0, <1>1, <2>1, <2>3, <2>5 DEF SoundReview
  <2> QED
    BY <2>3, <2>4, <2>6, StepKeeps
<1> QED
  BY <1>3, <1>4, <1>5

LEMMA DepthKeeps ==
    ASSUME DocInv, \/ \E n \in Median : Reviewing!CallCloser(n)
                   \/ Reviewing!CloserEnds \/ Reviewing!DepthEnds
    PROVE  DocInv'
<1>0. review \in ReviewRecord /\ SoundReview(review) /\ 0 \in 0..MaxItems
  BY Bounds DEF DocInv, DocTyped
<1>1. ASSUME NEW s \in ReviewRecord, {review.at, s.at} \subseteq {"depth", "closer", "reviewed"},
             s.digest = review.digest, s.read = review.read, s.start = review.start,
             s.together = review.together, s.named = review.named,
             s.escalated = review.escalated, s.triage = review.triage
      PROVE  SoundReview(s)
  <2>1. Found(s) <=> Found(review)
    BY <1>1 DEF Found
  <2>2. s.named => Found(s)
    BY <1>0, <1>1, <2>1 DEF SoundReview
  <2> QED
    BY <1>0, <1>1, <2>2, SoundLike
<1>2. ASSUME NEW n \in Median, Reviewing!CallCloser(n) PROVE DocInv'
  <2> DEFINE dp == review.depth \ {n}
             s == [review EXCEPT !.at = "closer", !.items = 0, !.depth = dp]
  <2>1. review.at = "depth" /\ Reviewing!Step(s) /\ dp \in SUBSET Median
    BY <1>0, <1>2, ReviewFields DEF Reviewing!CallCloser
  <2> HIDE DEF dp
  <2>2. /\ s \in ReviewRecord /\ s.at = "closer" /\ s.digest = review.digest
        /\ s.read = review.read /\ s.start = review.start /\ s.together = review.together
        /\ s.named = review.named /\ s.escalated = review.escalated
        /\ s.triage = review.triage
    BY <1>0, <2>1 DEF ReviewRecord, Reviewing!Stage
  <2> HIDE DEF s
  <2>3. SoundReview(s)
    BY <1>1, <2>1, <2>2
  <2> QED
    BY <2>1, <2>2, <2>3, StepKeeps
<1>3. ASSUME NEW at \in {"depth", "reviewed"}, review.at \in {"closer", "depth"},
             Reviewing!Step([review EXCEPT !.at = at])
      PROVE  DocInv'
  <2> DEFINE s == [review EXCEPT !.at = at]
  <2>2. /\ s \in ReviewRecord /\ s.at = at /\ s.digest = review.digest
        /\ s.read = review.read /\ s.start = review.start /\ s.together = review.together
        /\ s.named = review.named /\ s.escalated = review.escalated
        /\ s.triage = review.triage
    BY <1>0 DEF ReviewRecord, Reviewing!Stage
  <2> HIDE DEF s
  <2>3. SoundReview(s)
    BY <1>1, <1>3, <2>2
  <2> QED
    BY <1>3, <2>2, <2>3, StepKeeps DEF s
<1> QED
  BY <1>2, <1>3 DEF Reviewing!CloserEnds, Reviewing!DepthEnds

\* The record says of a digest what the whole review that it opened has found.
LEMMA ReviewedKeeps == DocInv /\ Reviewing!Reviewed => DocInv'
<1> SUFFICES ASSUME DocInv, Reviewing!Reviewed PROVE DocInv'
  OBVIOUS
<1> DEFINE s == [review EXCEPT !.at = "triaged"]
<1>0. /\ review \in ReviewRecord /\ SoundReview(review) /\ review.at = "reviewed" /\ DocTyped
      /\ review' = s
      /\ cache' = [digest |-> review.digest, clean |-> Reviewing!Clean]
      /\ cleared' = IF review.named THEN cleared
                    ELSE cleared \cup {[index |-> review.read, depth |-> tier = "T3"]}
      /\ UNCHANGED <<tier, passed, row, contract, edits, reviews>>
      /\ tier = "T3" => ~review.escalated
  BY DEF DocInv, DocTyped, Reviewing!Reviewed, Reviewing!Record, Reviewing!content
<1>s. PICK t : t = s
  OBVIOUS
<1>1. /\ t \in ReviewRecord /\ t.at = "triaged" /\ t.digest = review.digest
      /\ t.escalated = review.escalated /\ review' = t
  BY <1>0, <1>s DEF ReviewRecord, Reviewing!Stage
<1> HIDE DEF s
<1>2. SoundReview(t)
  BY <1>0, <1>1 DEF SoundReview
<1>3. ContentMoves
  BY <1>0 DEF ContentMoves
<1>4. SoundReview(t)'
  BY <1>1, <1>2, <1>3, <1>0, StaysSound DEF DocInv
<1>5. PICK d : d = review.digest
  OBVIOUS
<1>6. d \in Digests /\ Known(d) /\ (d.depth <=> tier = "T3")
      /\ (d.index = review.read \/ Bygone(d))
  BY <1>0, <1>5, ReviewFields DEF SoundReview
<1>7. Known(d)' /\ (Bygone(d) => Bygone(d)')
  BY <1>3, <1>6, KnownStays DEF DocInv
<1>8. cache.digest' = d /\ (cache.clean' <=> ~Found(review)) /\ Reviewing!Clean \in BOOLEAN
  <2>1. Reviewing!Clean \in BOOLEAN
    BY DEF Reviewing!Clean
  <2> QED
    BY <1>0, <1>5, <2>1, Views
<1>9. cache' \in [digest : Digests, clean : BOOLEAN]
  BY <1>0, <1>5, <1>6, <1>8
<1>10. Known(cache.digest)' /\ (Bygone(d)' => Bygone(cache.digest)')
  BY <1>7, <1>8 DEF Known, Bygone, KnownContract
<1>11. d = [index |-> d.index, depth |-> tier = "T3"]
  <2>1. d = [index |-> d.index, depth |-> d.depth] /\ d.depth \in BOOLEAN
    BY <1>6 DEF Digests
  <2>2. d.depth = (tier = "T3")
    BY <1>6, <2>1, Zenon
  <2> QED
    BY <2>1, <2>2, Zenon
<1>12. cache.clean' => cache.digest' \in cleared' \/ Bygone(cache.digest)'
  <2>1. SUFFICES ASSUME cache.clean', ~Bygone(d) PROVE d \in cleared'
    BY <1>7, <1>8, <1>10
  <2>2. ~review.named
    BY <1>0, <1>8, <2>1 DEF SoundReview
  <2>3. d.index = review.read
    BY <1>6, <2>1
  <2> QED
    BY <1>0, <1>11, <2>2, <2>3
<1>13. CacheEarned'
  BY <1>10, <1>12 DEF CacheEarned
<1>14. passed' \in SUBSET Reviewing!TreeNode /\ reviews' \in 0..MaxReviews
  BY <1>0 DEF DocTyped
<1> QED
  BY <1>0, <1>1, <1>3, <1>4, <1>9, <1>13, <1>14, Combine

\* On to the repairs, which no escalated review reaches.
LEMMA ToRepairsKeeps == DocInv /\ (Reviewing!Dispatch \/ Reviewing!Approved) => DocInv'
<1> SUFFICES ASSUME DocInv, Reviewing!Dispatch \/ Reviewing!Approved PROVE DocInv'
  OBVIOUS
<1>0. review \in ReviewRecord /\ SoundReview(review)
  BY DEF DocInv, DocTyped
<1>1. ASSUME NEW at \in {"approval", "repairing"}, review.at \in {"triaged", "approval"},
             ~review.escalated, Reviewing!Step([review EXCEPT !.at = at])
      PROVE  DocInv'
  <2> DEFINE s == [review EXCEPT !.at = at]
  <2>1. /\ s \in ReviewRecord /\ s.at = at /\ s.digest = review.digest
        /\ s.escalated = review.escalated
    BY <1>0 DEF ReviewRecord, Reviewing!Stage
  <2> HIDE DEF s
  <2>2. SoundReview(s)
    BY <1>0, <1>1, <2>1 DEF SoundReview
  <2> QED
    BY <1>1, <2>1, <2>2, StepKeeps DEF s
<1>2. CASE Reviewing!Dispatch
  BY <1>1, <1>2 DEF Reviewing!Dispatch, Reviewing!HasTriage
<1>3. CASE Reviewing!Approved
  BY <1>0, <1>1, <1>3 DEF Reviewing!Approved, SoundReview
<1> QED
  BY <1>2, <1>3

LEMMA PromoteKeeps == DocInv /\ Reviewing!Promote => DocInv'
<1> SUFFICES ASSUME DocInv, Reviewing!Promote PROVE DocInv'
  OBVIOUS
<1>0. /\ tier = "T2" /\ tier' = "T3" /\ contract' = MaxEdits + 1
      /\ review' = Reviewing!Idle
      /\ UNCHANGED <<passed, row, cache, cleared, edits, reviews>>
  BY DEF Reviewing!Promote
<1>1. ContentMoves
  BY <1>0 DEF ContentMoves
<1>2. Reviewing!Idle \in ReviewRecord
  BY IdleIsSound DEF DocInv
<1>3. Known(Reviewing!NoDigest)'
  BY <1>1, NoDigestIsKnown, KnownStays DEF DocInv
<1>4. SoundReview(Reviewing!Idle)'
  <2>1. PICK i : i = Reviewing!Idle
    OBVIOUS
  <2>2. /\ i.at = "idle" /\ i.digest = Reviewing!NoDigest /\ i.start = 0
        /\ i.named = FALSE /\ i.escalated = FALSE
    BY <2>1 DEF Reviewing!Idle
  <2>3. SoundReview(i)'
    BY <1>3, <2>2 DEF SoundReview
  <2> QED
    BY <2>1, <2>3
<1>5. cache' \in [digest : Digests, clean : BOOLEAN] /\ CacheEarned'
  BY <1>0, <1>1, CacheStays
<1>6. passed' \in SUBSET Reviewing!TreeNode /\ reviews' \in 0..MaxReviews
  BY <1>0 DEF DocInv, DocTyped
<1> QED
  BY <1>0, <1>1, <1>2, <1>4, <1>5, <1>6, Combine

\* A repair changes a row or takes a node out; what it repairs is off the list.
LEMMA RepairKeeps ==
    ASSUME DocInv, NEW n \in Reviewing!TreeNode, NEW promoted \in BOOLEAN,
           Reviewing!Repair(n, promoted)
    PROVE  DocInv'
<1> DEFINE tr == [review.triage EXCEPT ![n] = "none"]
           s == [review EXCEPT !.triage = tr]
<1>0. /\ review \in ReviewRecord /\ SoundReview(review) /\ review.at = "repairing"
      /\ review' = s /\ UNCHANGED <<tier, contract, cache, cleared, reviews>>
  BY DEF DocInv, DocTyped, Reviewing!Repair
<1>1. tr \in [Reviewing!TreeNode -> Reviewing!Class]
  BY <1>0, ReviewFields DEF Reviewing!Class
<1> HIDE DEF tr
<1>s. PICK t : t = s
  OBVIOUS
<1>2. /\ t \in ReviewRecord /\ t.at = review.at /\ t.digest = review.digest
      /\ t.escalated = review.escalated /\ review' = t
  BY <1>0, <1>1, <1>s DEF ReviewRecord
<1> HIDE DEF s
<1>3. SoundReview(t)
  BY <1>0, <1>2 DEF SoundReview
<1>4. ContentMoves /\ passed' \in SUBSET Reviewing!TreeNode
  BY <1>0 DEF Reviewing!Repair, ContentMoves, DocInv, DocTyped
<1>5. SoundReview(t)'
  BY <1>0, <1>2, <1>3, <1>4, StaysSound DEF DocInv
<1>6. cache' \in [digest : Digests, clean : BOOLEAN] /\ CacheEarned'
  BY <1>0, <1>4, CacheStays
<1>7. reviews' \in 0..MaxReviews
  BY <1>0 DEF DocInv, DocTyped
<1> QED
  BY <1>0, <1>2, <1>4, <1>5, <1>6, <1>7, Combine

\* Others change what is read while the review goes on.
LEMMA OthersKeep ==
    ASSUME DocInv, (\E n \in Reviewing!TreeNode : Reviewing!Rewrite(n)) \/ Reviewing!Amend
    PROVE  DocInv'
<1>1. /\ UNCHANGED <<tier, cache, review, cleared, reviews>>
      /\ ContentMoves /\ passed' \in SUBSET Reviewing!TreeNode
  BY DEF Reviewing!Rewrite, Reviewing!Amend, ContentMoves, DocInv, DocTyped
<1>2. PICK r : r = review
  OBVIOUS
<1>3. r \in ReviewRecord /\ SoundReview(r) /\ review' = r
  BY <1>1, <1>2 DEF DocInv, DocTyped
<1>4. SoundReview(r)'
  BY <1>1, <1>3, StaysSound DEF DocInv
<1>5. cache' \in [digest : Digests, clean : BOOLEAN] /\ CacheEarned'
  BY <1>1, CacheStays
<1>6. reviews' \in 0..MaxReviews
  BY <1>1 DEF DocInv, DocTyped
<1> QED
  BY <1>1, <1>3, <1>4, <1>5, <1>6, Combine

LEMMA DocStep == DocInv /\ Reviewing!Next => DocInv'
<1> SUFFICES ASSUME DocInv, Reviewing!Next PROVE DocInv'
  OBVIOUS
<1>1. ASSUME \/ Reviewing!Skip \/ Reviewing!Hit \/ Reviewing!TimesOut \/ Reviewing!Fails
             \/ Reviewing!Done \/ Reviewing!Refused \/ Reviewing!Repaired \/ Reviewing!Crash
             \/ Reviewing!Unavailable
      PROVE  DocInv'
  <2>1. ASSUME Reviewing!Ends(UNCHANGED cache) PROVE DocInv'
    BY <2>1, EndsKeep DEF Reviewing!Ends
  <2>2. CASE Reviewing!Unavailable
    <3>1. CASE tier = "T2"
      <4>1. /\ Reviewing!Ends(cache' = [digest |-> Reviewing!NoDigest, clean |-> FALSE])
            /\ cache' = [digest |-> Reviewing!NoDigest, clean |-> FALSE]
        BY <2>2, <3>1 DEF Reviewing!Unavailable, Reviewing!Ends
      <4> QED
        BY <4>1, EndsKeep
    <3>2. CASE tier # "T2"
      <4>1. Reviewing!Ends(UNCHANGED cache)
        BY <2>2, <3>2 DEF Reviewing!Unavailable, Reviewing!Ends
      <4> QED
        BY <4>1, <2>1
    <3> QED
      BY <3>1, <3>2
  <2>3. CASE ~Reviewing!Unavailable
    BY <1>1, <2>1, <2>3 DEF Reviewing!Skip, Reviewing!Hit, Reviewing!TimesOut,
       Reviewing!Fails, Reviewing!Done, Reviewing!Refused, Reviewing!Repaired, Reviewing!Crash
  <2> QED
    BY <2>2, <2>3
<1> QED
  BY <1>1, EnterKeeps, MissKeeps, ReadKeeps, CallKeeps, ItemKeeps, CloserItemKeeps,
     CallEndsKeeps, DepthKeeps, ReviewedKeeps, ToRepairsKeeps, PromoteKeeps, RepairKeeps,
     OthersKeep DEF Reviewing!Next, Reviewing!Work, Reviewing!Answers

-----------------------------------------------------------------------------
(* DocReview: what follows.                                                *)

LEMMA DocStart == Reviewing!Init => DocInv
<1> SUFFICES ASSUME Reviewing!Init PROVE DocInv
  OBVIOUS
<1>0. /\ tier \in {"T2", "T3"} /\ passed \in SUBSET Reviewing!TreeNode
      /\ row = [n \in Reviewing!TreeNode |-> 0] /\ contract = 0
      /\ cache = [digest |-> Reviewing!NoDigest, clean |-> FALSE]
      /\ review = Reviewing!Idle /\ edits = 0 /\ reviews = 0
  BY DEF Reviewing!Init
<1>1. 0 \in 0..MaxEdits /\ 0 \in 0..(MaxEdits + 1) /\ 0 \in 0..MaxReviews
      /\ 0 \in 0..(Size - 1) /\ 0 \in 0..MaxItems
  BY Bounds
<1>2. Reviewing!NoDigest \in Digests /\ Reviewing!Nothing \in Indexes
  <2> DEFINE rs == [n \in {} |-> 0]
  <2>1. rs \in UNION {[P -> 0..MaxEdits] : P \in SUBSET Reviewing!TreeNode}
    <3>1. rs \in [{} -> 0..MaxEdits]
      OBVIOUS
    <3> QED
      BY <3>1
  <2>2. Reviewing!Nothing = [rows |-> rs, contract |-> 0]
    BY DEF Reviewing!Nothing
  <2> HIDE DEF rs
  <2>3. Reviewing!Nothing \in Indexes
    BY <1>1, <2>1, <2>2, Zenon DEF Indexes
  <2> QED
    BY <2>3 DEF Reviewing!NoDigest, Digests
<1>3. Reviewing!Idle \in ReviewRecord
  BY <1>1, <1>2 DEF Reviewing!Idle, ReviewRecord, Reviewing!Stage, Reviewing!Class
<1>4. DocTyped
  BY <1>0, <1>1, <1>2, <1>3 DEF DocTyped
<1>5. ContentKnown
  BY <1>0 DEF ContentKnown, KnownContract
<1>6. Known(Reviewing!NoDigest)
  BY <1>4, NoDigestIsKnown
<1>7. CacheEarned
  BY <1>0, <1>6 DEF CacheEarned
<1> QED
  BY <1>0, <1>4, <1>5, <1>7, IdleIsSound DEF DocInv

\* What the review is checked for, from the invariant.
LEMMA DocShows == DocInv => Reviewing!TypeOK /\ Reviewing!NeighboursShown
<1> SUFFICES ASSUME DocInv PROVE Reviewing!TypeOK /\ Reviewing!NeighboursShown
  OBVIOUS
<1>0. review \in ReviewRecord /\ SoundReview(review) /\ DocTyped
  BY DEF DocInv, DocTyped
<1>1. Reviewing!TypeOK
  <2>1. cache.clean \in BOOLEAN /\ cache.digest.index \in Indexes
    BY <1>0 DEF DocTyped, Digests
  <2>2. DOMAIN cache.digest.index.rows \subseteq Reviewing!TreeNode
    BY <2>1 DEF Indexes
  <2> QED
    BY <1>0, <2>1, <2>2, ReviewFields DEF DocTyped, Reviewing!TypeOK
<1>2. Reviewing!NeighboursShown
  <2> SUFFICES ASSUME review.at = "reviewed", ~review.escalated,
                      Reviewing!Cardinality(Reviewing!Rows) > 1,
                      NEW a \in DOMAIN review.read.rows, NEW b \in DOMAIN review.read.rows,
                      RankIn(review, b) = RankIn(review, a) + 1
               PROVE  {a, b} \in review.together
    BY <1>0, Views DEF Reviewing!NeighboursShown
  <2>1. Total(review) > 1 /\ Total(review) \in Nat
    BY <1>0, SameCounts, RankFacts, Bounds DEF Reviewing!Rows, Total
  <2>2. ShownUpTo(review, Total(review))
    BY <1>0, <2>1 DEF SoundReview
  <2>3. RankIn(review, b) \in Nat /\ RankIn(review, b) < Total(review)
    BY <1>0, RankFacts
  <2>4. RankIn(review, b) <= Total(review)
    BY <2>1, <2>3
  <2> QED
    BY <2>2, <2>4 DEF ShownUpTo
<1> QED
  BY <1>1, <1>2

\* A hit is on a record of what is there now, so the record was earned by just that.
LEMMA HitIsEarned == DocInv /\ Reviewing!Hit => Reviewing!Digest(passed) \in cleared
<1> SUFFICES ASSUME DocInv, Reviewing!Hit PROVE Reviewing!Digest(passed) \in cleared
  OBVIOUS
<1>1. cache.digest = Reviewing!Digest(passed) /\ cache.clean
  BY DEF Reviewing!Hit, Reviewing!Matches
<1>2. ~Bygone(Reviewing!Digest(passed))
  BY NowIsKnown DEF DocInv, DocTyped
<1> QED
  BY <1>1, <1>2 DEF DocInv, CacheEarned

\* Where a reading and an item leave the review.
LEMMA ReadAt ==
    ASSUME DocTyped, Reviewing!Read
    PROVE  review'.at \in {"windows", "depth", "reviewed"} /\ cache' = cache
<1> DEFINE P == DOMAIN review.digest.index.rows
           r == [review EXCEPT !.read = Reviewing!Index(P),
                               !.depth = IF tier = "T3" THEN Median ELSE {}]
<1>1. Reviewing!Step(IF Reviewing!Cardinality(P) <= 1 /\ tier = "T2"
                     THEN [r EXCEPT !.at = "reviewed"] ELSE Reviewing!FirstCall(r, P))
  BY DEF Reviewing!Read
<1>2. \A at : [r EXCEPT !.at = at].at = at
  BY DEF DocTyped, ReviewRecord
<1> HIDE DEF r, P
<1> QED
  BY <1>1, <1>2 DEF Reviewing!FirstCall, Reviewing!Step

LEMMA ItemAt ==
    ASSUME DocTyped, NEW ids, NEW class,
           Reviewing!Item(ids, class) \/ Reviewing!CloserItem(ids, class)
    PROVE  review'.at = review.at /\ cache' = cache
<1>0. review \in ReviewRecord
  BY DEF DocTyped
<1>1. \A r : review.at = r.at /\ DOMAIN r = DOMAIN review
               => Reviewing!Absorb(r, ids, class).at = r.at
  BY <1>0 DEF Reviewing!Absorb, ReviewRecord
<1>2. CASE Reviewing!Item(ids, class)
  <2> DEFINE r == [review EXCEPT !.items = review.items + 1,
                     !.named = review.named \/ ids = {} \/ ids \cap Reviewing!InWindow # {}]
  <2>1. Reviewing!Step(IF Reviewing!OutOfScope(ids) THEN r ELSE Reviewing!Absorb(r, ids, class))
    BY <1>2 DEF Reviewing!Item
  <2>2. r.at = review.at /\ DOMAIN r = DOMAIN review
    BY <1>0 DEF ReviewRecord
  <2> HIDE DEF r
  <2> QED
    BY <1>1, <2>1, <2>2 DEF Reviewing!Step
<1>3. CASE Reviewing!CloserItem(ids, class)
  <2> DEFINE r == [review EXCEPT !.items = review.items + 1, !.named = TRUE]
  <2>1. Reviewing!Step(Reviewing!Absorb(r, ids, class))
    BY <1>3 DEF Reviewing!CloserItem
  <2>2. r.at = review.at /\ DOMAIN r = DOMAIN review
    BY <1>0 DEF ReviewRecord
  <2> HIDE DEF r
  <2> QED
    BY <1>1, <2>1, <2>2 DEF Reviewing!Step
<1> QED
  BY <1>2, <1>3

\* An escalation neither repairs nor leaves a clean record.
LEMMA EscalationStops ==
    ASSUME DocInv, Reviewing!Next, review.escalated
    PROVE  /\ review'.at \notin {"approval", "repairing"}
           /\ cache' # cache => ~cache'.clean
<1>0. /\ review \in ReviewRecord /\ SoundReview(review)
      /\ review.at \notin {"approval", "repairing"}
  BY DEF DocInv, DocTyped, SoundReview
<1>1. Reviewing!Idle.at = "idle"
  BY DEF Reviewing!Idle
<1>2. ~Reviewing!Clean
  BY DEF Reviewing!Clean
<1>3. ASSUME NEW result, Reviewing!Ends(result), UNCHANGED cache
      PROVE  review'.at \notin {"approval", "repairing"} /\ cache' = cache
  BY <1>1, <1>3 DEF Reviewing!Ends
<1>4. CASE \/ Reviewing!Skip \/ Reviewing!Hit \/ Reviewing!TimesOut \/ Reviewing!Fails
           \/ Reviewing!Done \/ Reviewing!Crash
  <2>1. Reviewing!Ends(UNCHANGED cache)
    BY <1>4 DEF Reviewing!Skip, Reviewing!Hit, Reviewing!TimesOut, Reviewing!Fails,
                Reviewing!Done, Reviewing!Crash
  <2> QED
    BY <2>1, <1>3 DEF Reviewing!Ends
<1>5. CASE Reviewing!Unavailable
  <2>1. review' = Reviewing!Idle
    BY <1>5 DEF Reviewing!Unavailable, Reviewing!Ends
  <2>2. cache' = cache \/ cache' = [digest |-> Reviewing!NoDigest, clean |-> FALSE]
    BY <1>5 DEF Reviewing!Unavailable, Reviewing!Ends
  <2> QED
    BY <1>1, <2>1, <2>2
<1>6. CASE Reviewing!Enter \/ Reviewing!Miss \/ Reviewing!Call
  <2>1. CASE Reviewing!Enter
    BY <2>1 DEF Reviewing!Enter, Reviewing!Idle
  <2>2. CASE Reviewing!Miss
    BY <1>0, <2>2 DEF Reviewing!Miss, ReviewRecord
  <2>3. CASE Reviewing!Call
    <3>1. \A tg : [review EXCEPT !.at = "answer", !.items = 0, !.together = tg].at = "answer"
      BY <1>0 DEF ReviewRecord
    <3> QED
      BY <2>3, <3>1 DEF Reviewing!Call, Reviewing!Step
  <2> QED
    BY <1>6, <2>1, <2>2, <2>3
<1>7. CASE Reviewing!Read
  BY <1>7, ReadAt DEF DocInv
<1>8. ASSUME NEW ids, NEW class \in {"patchable", "regenerate"},
             Reviewing!Item(ids, class) \/ Reviewing!CloserItem(ids, class)
      PROVE  review'.at \notin {"approval", "repairing"} /\ cache' = cache
  BY <1>0, <1>8, ItemAt DEF DocInv
<1>9. CASE \/ Reviewing!CallEnds \/ Reviewing!CloserEnds \/ Reviewing!DepthEnds
           \/ \E n \in Median : Reviewing!CallCloser(n)
  <2>1. \A at : [review EXCEPT !.at = at].at = at
    BY <1>0 DEF ReviewRecord
  <2>2. [review EXCEPT !.at = "windows", !.start = Reviewing!NextStart].at = "windows"
    BY <1>0 DEF ReviewRecord
  <2>3. CASE Reviewing!CallEnds
    BY <2>1, <2>2, <2>3 DEF Reviewing!CallEnds, Reviewing!Step
  <2>4. CASE Reviewing!CloserEnds \/ Reviewing!DepthEnds
    BY <2>1, <2>4 DEF Reviewing!CloserEnds, Reviewing!DepthEnds, Reviewing!Step
  <2>5. ASSUME NEW n \in Median, Reviewing!CallCloser(n)
        PROVE  review'.at = "closer" /\ cache' = cache
    BY <1>0, <2>5 DEF Reviewing!CallCloser, Reviewing!Step, ReviewRecord
  <2> QED
    BY <1>9, <2>3, <2>4, <2>5
<1>10. CASE Reviewing!Reviewed
  BY <1>0, <1>2, <1>10 DEF Reviewing!Reviewed, Reviewing!Record, ReviewRecord
<1>11. CASE Reviewing!Promote \/ Reviewing!Dispatch
  BY <1>11 DEF Reviewing!Promote, Reviewing!Dispatch, Reviewing!HasTriage
<1>12. CASE \/ Reviewing!Refused \/ Reviewing!Approved \/ Reviewing!Repaired
            \/ \E n \in Reviewing!TreeNode, promoted \in BOOLEAN : Reviewing!Repair(n, promoted)
  BY <1>0, <1>12 DEF Reviewing!Refused, Reviewing!Approved, Reviewing!Repaired, Reviewing!Repair
<1>13. CASE (\E n \in Reviewing!TreeNode : Reviewing!Rewrite(n)) \/ Reviewing!Amend
  BY <1>0, <1>13 DEF Reviewing!Rewrite, Reviewing!Amend
<1> QED
  BY <1>4, <1>5, <1>6, <1>7, <1>8, <1>9, <1>10, <1>11, <1>12, <1>13
  DEF Reviewing!Next, Reviewing!Work, Reviewing!Answers

LEMMA DocInductive == MCSpec => []DocInv
<1>1. MCInit => DocInv
  BY DocStart DEF MCInit
<1>2. DocInv /\ [MCNext]_allVars => DocInv'
  <2>1. DocInv /\ UNCHANGED reviewVars => DocInv'
    <3> SUFFICES ASSUME DocInv, UNCHANGED reviewVars PROVE DocInv'
      OBVIOUS
    <3>1. PICK r : r = review
      OBVIOUS
    <3>2. /\ r \in ReviewRecord /\ SoundReview(r) /\ review' = r
          /\ UNCHANGED <<tier, passed, row, contract, cache, cleared, edits>>
          /\ reviews' \in 0..MaxReviews
      BY <3>1 DEF DocInv, DocTyped, reviewVars
    <3> QED
      BY <3>2, Moves
  <2> QED
    BY <2>1, DocStep DEF MCNext, allVars
<1> QED
  BY <1>1, <1>2, PTL DEF MCSpec

(* A document review that says nothing is wrong has earned it: neighbours
   were shown to one call, the skip is on the record of a whole review of
   what is there now, an unplaced defect stops the phase
   (driver.py:2905-2960, v3/document_review.py:43).                          *)
THEOREM CleanIsAlwaysEarned == MCSpec => CleanIsEarned
<1>1. DocInv /\ [MCNext]_allVars
        => /\ [Reviewing!Hit => Reviewing!Digest(passed) \in cleared]_(Reviewing!vars)
           /\ [review.escalated => review'.at \notin {"approval", "repairing"}
                                   /\ (cache' # cache => ~cache'.clean)]_(Reviewing!vars)
  <2> SUFFICES ASSUME DocInv, [MCNext]_allVars, Reviewing!vars' # Reviewing!vars
               PROVE  /\ Reviewing!Hit => Reviewing!Digest(passed) \in cleared
                      /\ review.escalated => review'.at \notin {"approval", "repairing"}
                                             /\ (cache' # cache => ~cache'.clean)
    OBVIOUS
  <2>1. Reviewing!Next
    BY DEF MCNext, allVars, reviewVars, Reviewing!vars, Reviewing!content
  <2> QED
    BY <2>1, HitIsEarned, EscalationStops
<1> QED
  BY <1>1, DocInductive, DocShows, PTL
  DEF MCSpec, CleanIsEarned, Reviewing!SkipIsEarned, Reviewing!UnplacedStops

-----------------------------------------------------------------------------
(* Sweep: the inductive invariant.                                         *)

SweepCell == Measuring!Cells
UnitText == Measuring!Texts
Row == [cell : SweepCell, attempt : Nat, run : 0..MaxRuns, text : UnitText, continued : BOOLEAN]

SweepRecord ==
    [at : {"idle", "cells", "archive", "waiting", "record", "harvest", "score", "append",
           "summary", "summed"},
     mode : Measuring!Modes, todo : Seq(SweepCell), cell : SweepCell, run : 0..MaxRuns,
     left : Seq({"dir", "raw", "bench"}), text : UnitText]

SweepTyped ==
    /\ dir \in [SweepCell -> [units : UnitText, main : UnitText]] /\ raw \in [SweepCell -> UnitText]
    /\ bench \in [SweepCell -> {"none", "partial", "ran", "scored"}]
    /\ rows \in Seq(Row) /\ sweep \in SweepRecord
    /\ children \in SUBSET [cell : SweepCell, run : 1..MaxRuns, at : {"working", "done", "exported"}]
    /\ runs \in 0..MaxRuns /\ sweep.run <= runs
    /\ kills \in Nat /\ cut \in SUBSET SweepCell /\ escaped \in SUBSET SweepCell

Ran == {"waiting", "record", "harvest", "score", "append"}

\* A sweep was only begun with runs enough for all of its cells.
Budgeted ==
    /\ sweep.at = "cells" /\ sweep.mode # "rescore" => runs + Len(sweep.todo) <= MaxRuns
    /\ sweep.at = "archive" => runs + Len(sweep.todo) < MaxRuns
    /\ sweep.at \in Ran /\ sweep.mode # "rescore" => runs + Len(sweep.todo) <= MaxRuns

\* Only a killed sweep leaves a child behind.
Attended ==
    /\ IsFiniteSet(children)
    /\ Cardinality(children) <= kills
         + (IF sweep.at = "waiting" /\ Measuring!Own # {} THEN 1 ELSE 0)
    /\ \A k \in children : k.cell \notin escaped =>
         sweep.at = "waiting" /\ k.cell = sweep.cell /\ k.run = sweep.run

\* Of one run: no unit was written by another.
OfRun(text, run) == \A u \in Units : text[u] \in {0, run}

\* What a fresh run leaves, and what is measured of it, is its own.
Fresh == sweep.mode \in {"plain", "resume"} /\ sweep.cell \notin escaped
OwnFiles ==
    /\ sweep.at \in {"archive", "waiting", "record"} => sweep.mode # "rescore"
    /\ sweep.at \in Ran => (sweep.run # 0 <=> sweep.mode # "rescore")
    /\ sweep.at = "archive" /\ Fresh =>
         /\ (\A i \in DOMAIN sweep.left : sweep.left[i] # "dir") =>
              dir[sweep.cell] = Measuring!NoDir
         /\ (\A i \in DOMAIN sweep.left : sweep.left[i] # "raw") =>
              raw[sweep.cell] = Measuring!Nothing
    /\ sweep.at \in Ran /\ Fresh =>
         /\ OfRun(dir[sweep.cell].units, sweep.run) /\ OfRun(dir[sweep.cell].main, sweep.run)
         /\ OfRun(raw[sweep.cell], sweep.run)
    /\ sweep.at \in {"score", "append"} /\ Fresh => OfRun(sweep.text, sweep.run)
    /\ \A i \in DOMAIN rows :
         rows[i].run # 0 /\ ~rows[i].continued /\ rows[i].cell \notin escaped =>
           OfRun(rows[i].text, rows[i].run)

\* The attempts of a cell count its real runs; its rows have a last one.
Real(c, i, j) == {k \in Measuring!RowsOf(c) : i < k /\ k <= j /\ rows[k].run # 0}
Counted(c) ==
    /\ Measuring!RowsOf(c) # {} =>
         \E n \in Measuring!RowsOf(c) : \A i \in Measuring!RowsOf(c) : i <= n
    /\ \A i, j \in Measuring!RowsOf(c) : i <= j =>
         /\ IsFiniteSet(Real(c, i, j))
         /\ rows[j].attempt = rows[i].attempt + Cardinality(Real(c, i, j))

LastOf(c, n) == n \in Measuring!RowsOf(c) /\ \A i \in Measuring!RowsOf(c) : i <= n

\* The cell that is being run again: its files are ahead of its rows.
Renewed(c) == /\ sweep.at \in {"archive", "waiting", "record", "harvest", "score", "append"}
              /\ sweep.cell = c /\ sweep.mode # "rescore"

\* What a cell was scored for is what raw/ has and what would be harvested again.
Settled(c) ==
    /\ Renewed(c) \/ \A n \in Measuring!RowsOf(c) : LastOf(c, n) =>
         raw[c] = rows[n].text /\ Measuring!Harvested(c) = rows[n].text
    /\ \A i, j \in Measuring!RowsOf(c) :
         rows[i].attempt = rows[j].attempt => rows[i].text = rows[j].text

Harvests ==
    sweep.at \in {"score", "append"} /\ sweep.cell \notin escaped =>
        raw[sweep.cell] = sweep.text /\ Measuring!Harvested(sweep.cell) = sweep.text

SweepInv ==
    /\ SweepTyped /\ Budgeted /\ Attended /\ OwnFiles /\ Harvests
    /\ \A c \in SweepCell : Counted(c) /\ (c \notin cut \cup escaped => Settled(c))

-----------------------------------------------------------------------------
(* Sweep: types, and the bound on the runs.                                *)

LEMMA SweepBounds ==
    /\ Matrix \in Seq(SweepCell) /\ Matrix # <<>> /\ SweepCell # {}
    /\ MaxRuns \in Nat /\ MaxSweeps \in Nat /\ MaxKills \in Nat
<1>1. /\ Matrix \in Seq(SweepCell) /\ Matrix # <<>>
      /\ MaxRuns \in Nat /\ MaxSweeps \in Nat /\ MaxKills \in Nat
  BY MCAssemblyAssumption DEF Measuring!SweepAssumption, SweepCell, Measuring!Cells
<1>2. 1 \in DOMAIN Matrix /\ Matrix[1] \in SweepCell
  BY <1>1
<1> QED
  BY <1>1, <1>2

LEMMA SweepIdle ==
    /\ Measuring!Idle \in SweepRecord /\ Measuring!Nothing \in UnitText
    /\ Measuring!NoDir \in [units : UnitText, main : UnitText]
    /\ Measuring!Idle.at = "idle" /\ Measuring!Idle.run = 0 /\ Measuring!Idle.mode = "plain"
<1>1. Measuring!Nothing \in UnitText
  BY SweepBounds DEF Measuring!Nothing, UnitText, Measuring!Texts
<1>2. (CHOOSE c \in SweepCell : TRUE) \in SweepCell
  BY SweepBounds
<1>3. 0 \in 0..MaxRuns
  BY SweepBounds
<1>4. Measuring!Idle \in SweepRecord
  BY <1>1, <1>2, <1>3 DEF Measuring!Idle, SweepRecord, Measuring!Modes, SweepCell
<1> QED
  BY <1>1, <1>4 DEF Measuring!Idle, Measuring!NoDir

LEMMA SweepFields ==
    ASSUME SweepTyped
    PROVE  /\ sweep \in SweepRecord /\ sweep.cell \in SweepCell /\ sweep.todo \in Seq(SweepCell)
           /\ sweep.left \in Seq({"dir", "raw", "bench"}) /\ sweep.text \in UnitText
           /\ sweep.run \in 0..MaxRuns /\ runs \in 0..MaxRuns
           /\ sweep.mode \in Measuring!Modes
           /\ MaxRuns \in Nat
BY SweepBounds DEF SweepTyped, SweepRecord

\* What a child hands over is of its run directory.
LEMMA ExportedIs ==
    ASSUME NEW c, NEW text \in Measuring!Exported(c)
    PROVE  \/ text = dir[c].units \/ text = dir[c].main
           \/ \E u \in Units : text = [Measuring!Nothing EXCEPT ![u] = dir[c].units[u]]
<1>1. CASE c \in Bare
  BY <1>1 DEF Measuring!Exported, Measuring!Harness
<1>2. CASE c \in Measuring!Harness /\ dir[c].main # Measuring!Nothing
  BY <1>2 DEF Measuring!Exported, Measuring!Harness
<1>3. CASE ~(c \in Bare) /\ ~(c \in Measuring!Harness /\ dir[c].main # Measuring!Nothing)
  BY <1>3 DEF Measuring!Exported
<1> QED
  BY <1>1, <1>2, <1>3

\* A child's step leaves everything of the right type.
LEMMA ChildTypes ==
    ASSUME SweepTyped, NEW k \in children,
           \/ Measuring!Writes(k) \/ Measuring!Assembles(k) \/ Measuring!Exports(k)
           \/ Measuring!Records(k) \/ Measuring!Fails(k)
    PROVE  SweepTyped'
<1>0. /\ k.cell \in SweepCell /\ k.run \in 1..MaxRuns /\ k.run \in 0..MaxRuns
      /\ dir \in [SweepCell -> [units : UnitText, main : UnitText]]
      /\ raw \in [SweepCell -> UnitText]
      /\ bench \in [SweepCell -> {"none", "partial", "ran", "scored"}]
      /\ dir[k.cell].units \in UnitText /\ dir[k.cell].main \in UnitText
      /\ UnitText = [Units -> 0..MaxRuns]
  <2>1. k.cell \in SweepCell /\ k.run \in 1..MaxRuns /\ k.run \in 0..MaxRuns
    BY SweepBounds DEF SweepTyped
  <2> QED
    BY <2>1 DEF SweepTyped, UnitText, Measuring!Texts
<1>1. /\ rows' = rows /\ sweep' = sweep /\ runs' = runs /\ kills' = kills /\ cut' = cut
      /\ escaped' = escaped
  BY DEF Measuring!Writes, Measuring!Assembles, Measuring!Exports, Measuring!Records,
         Measuring!Fails, Measuring!ghosts, Measuring!files
<1>2. children' \in SUBSET [cell : SweepCell, run : 1..MaxRuns,
                            at : {"working", "done", "exported"}]
  <2>1. /\ [k EXCEPT !.at = "done"] \in [cell : SweepCell, run : 1..MaxRuns,
                                        at : {"working", "done", "exported"}]
        /\ [k EXCEPT !.at = "exported"] \in [cell : SweepCell, run : 1..MaxRuns,
                                            at : {"working", "done", "exported"}]
    BY DEF SweepTyped
  <2> QED
    BY <2>1 DEF SweepTyped, Measuring!Writes, Measuring!Assembles, Measuring!Exports,
           Measuring!Records, Measuring!Fails, Measuring!Goes
<1>3. dir' \in [SweepCell -> [units : UnitText, main : UnitText]]
  <2>1. CASE Measuring!Writes(k)
    <3>1. PICK u \in Units : dir' = [dir EXCEPT ![k.cell].units[u] = k.run]
      BY <2>1 DEF Measuring!Writes
    <3> DEFINE t == [dir[k.cell].units EXCEPT ![u] = k.run]
               d == [dir[k.cell] EXCEPT !.units = t]
    <3>2. t \in UnitText
      BY <1>0
    <3> HIDE DEF t
    <3>3. d \in [units : UnitText, main : UnitText]
      BY <1>0, <3>2
    <3>4. dir' = [dir EXCEPT ![k.cell] = d]
      BY <3>1 DEF t
    <3> HIDE DEF d
    <3> QED
      BY <1>0, <3>3, <3>4
  <2>2. CASE Measuring!Assembles(k)
    BY <1>0, <2>2 DEF Measuring!Assembles
  <2> QED
    BY <1>0, <2>1, <2>2 DEF Measuring!Exports, Measuring!Records, Measuring!Fails,
                            Measuring!files
<1>4. raw' \in [SweepCell -> UnitText]
  <2>1. CASE Measuring!Exports(k)
    <3>1. PICK text \in Measuring!Exported(k.cell) :
            raw' = [raw EXCEPT ![k.cell] =
              IF text = Measuring!Nothing /\ k.cell \in Measuring!Harness THEN raw[k.cell] ELSE text]
      BY <2>1 DEF Measuring!Exports
    <3>2. \A u \in Units : [Measuring!Nothing EXCEPT ![u] = dir[k.cell].units[u]] \in UnitText
      BY <1>0, SweepIdle
    <3>a. \/ text = dir[k.cell].units \/ text = dir[k.cell].main
          \/ \E u \in Units : text = [Measuring!Nothing EXCEPT ![u] = dir[k.cell].units[u]]
      BY ExportedIs
    <3>3. text \in UnitText
      BY <1>0, <3>2, <3>a
    <3> QED
      BY <1>0, <3>1, <3>3
  <2> QED
    BY <1>0, <2>1 DEF Measuring!Writes, Measuring!Assembles, Measuring!Records,
                      Measuring!Fails, Measuring!files
<1>5. bench' \in [SweepCell -> {"none", "partial", "ran", "scored"}]
  BY <1>0 DEF Measuring!Writes, Measuring!Assembles, Measuring!Exports, Measuring!Records,
              Measuring!Fails, Measuring!files
<1> QED
  BY <1>1, <1>2, <1>3, <1>4, <1>5 DEF SweepTyped

\* The last row of a cell is of its last attempt.
LEMMA LastRow ==
    ASSUME SweepTyped, NEW c, Counted(c), NEW n, LastOf(c, n)
    PROVE  /\ \A i \in Measuring!RowsOf(c) : rows[i].attempt <= rows[n].attempt
           /\ rows[n].attempt \in Nat
           /\ Measuring!Attempts(c) # {}
           /\ Measuring!Max(Measuring!Attempts(c)) = rows[n].attempt
           /\ Measuring!LatestRow(c) = rows[n]
<1>0. /\ n \in Measuring!RowsOf(c)
      /\ \A i \in Measuring!RowsOf(c) : i \in Nat /\ i <= n /\ rows[i] \in Row
                                          /\ rows[i].attempt \in Nat
  <2>1. \A i \in DOMAIN rows : i \in Nat /\ rows[i] \in Row
    BY DEF SweepTyped
  <2>2. \A r \in Row : r.attempt \in Nat
    BY DEF Row
  <2> QED
    BY <2>1, <2>2 DEF LastOf, Measuring!RowsOf
<1>1. \A i \in Measuring!RowsOf(c) : rows[i].attempt <= rows[n].attempt
  <2> SUFFICES ASSUME NEW i \in Measuring!RowsOf(c) PROVE rows[i].attempt <= rows[n].attempt
    OBVIOUS
  <2>1. /\ IsFiniteSet(Real(c, i, n))
        /\ rows[n].attempt = rows[i].attempt + Cardinality(Real(c, i, n))
    BY <1>0 DEF Counted
  <2>2. Cardinality(Real(c, i, n)) \in Nat
    BY <2>1, FS_CardinalityType
  <2> QED
    BY <1>0, <2>1, <2>2
<1>2. rows[n].attempt \in Measuring!Attempts(c)
  BY <1>0 DEF Measuring!Attempts
<1>3. \A a \in Measuring!Attempts(c) : a \in Nat /\ a <= rows[n].attempt
  BY <1>0, <1>1 DEF Measuring!Attempts
<1>4. Measuring!Max(Measuring!Attempts(c)) = rows[n].attempt
  BY <1>0, <1>2, <1>3 DEF Measuring!Max
<1>5. n \in Measuring!Latest(c) /\ \A i \in Measuring!Latest(c) : i \in Nat /\ i <= n
  BY <1>0, <1>4 DEF Measuring!Latest
<1>6. Measuring!Max(Measuring!Latest(c)) = n
  BY <1>0, <1>5 DEF Measuring!Max
<1> QED
  BY <1>0, <1>1, <1>2, <1>4, <1>6 DEF Measuring!LatestRow

LEMMA NextAttemptIs ==
    ASSUME SweepTyped, NEW c, Counted(c), NEW real \in BOOLEAN
    PROVE  /\ Measuring!RowsOf(c) = {} => Measuring!NextAttempt(c, real) = 1
           /\ \A n : LastOf(c, n) =>
                Measuring!NextAttempt(c, real) =
                  IF real THEN rows[n].attempt + 1 ELSE rows[n].attempt
           /\ Measuring!NextAttempt(c, real) \in Nat
<1>1. CASE Measuring!RowsOf(c) = {}
  <2>1. Measuring!Attempts(c) = {}
    BY <1>1 DEF Measuring!Attempts
  <2> QED
    BY <1>1, <2>1 DEF Measuring!NextAttempt, LastOf
<1>2. CASE Measuring!RowsOf(c) # {}
  <2>1. PICK m : LastOf(c, m)
    BY <1>2 DEF Counted, LastOf
  <2>2. \A n : LastOf(c, n) => n = m
    BY <2>1 DEF LastOf, Measuring!RowsOf, SweepTyped
  <2>3. /\ rows[m].attempt \in Nat /\ Measuring!Attempts(c) # {}
        /\ Measuring!Max(Measuring!Attempts(c)) = rows[m].attempt
    BY <2>1, LastRow
  <2>4. Measuring!NextAttempt(c, real) = IF real THEN rows[m].attempt + 1 ELSE rows[m].attempt
    <3>1. CASE real
      BY <2>3, <3>1 DEF Measuring!NextAttempt
    <3>2. CASE ~real
      BY <2>3, <3>2 DEF Measuring!NextAttempt
    <3> QED
      BY <3>1, <3>2
  <2> QED
    BY <1>2, <2>2, <2>3, <2>4
<1> QED
  BY <1>1, <1>2

\* A run is only launched while there is budget; a cell that is taken uses its share.
LEMMA SweepTypes ==
    ASSUME SweepTyped, Budgeted, \A c \in SweepCell : Counted(c),
           Measuring!Begin \/ Measuring!Steps \/ Measuring!Crash \/ Measuring!Interrupt
    PROVE  SweepTyped' /\ Budgeted'
<1>0. /\ sweep \in SweepRecord /\ sweep.cell \in SweepCell /\ sweep.todo \in Seq(SweepCell)
      /\ sweep.left \in Seq({"dir", "raw", "bench"}) /\ sweep.text \in UnitText
      /\ sweep.run \in 0..MaxRuns /\ runs \in 0..MaxRuns /\ sweep.run <= runs
      /\ MaxRuns \in Nat /\ sweep.mode \in Measuring!Modes
      /\ dir \in [SweepCell -> [units : UnitText, main : UnitText]]
      /\ raw \in [SweepCell -> UnitText]
      /\ bench \in [SweepCell -> {"none", "partial", "ran", "scored"}]
      /\ rows \in Seq(Row) /\ kills \in Nat
      /\ children \in SUBSET [cell : SweepCell, run : 1..MaxRuns,
                              at : {"working", "done", "exported"}]
      /\ cut \in SUBSET SweepCell /\ escaped \in SUBSET SweepCell
      /\ Measuring!Idle \in SweepRecord /\ Measuring!Idle.at = "idle" /\ Measuring!Idle.run = 0
      /\ Measuring!Nothing \in UnitText
      /\ Measuring!NoDir \in [units : UnitText, main : UnitText]
  BY SweepFields, SweepIdle DEF SweepTyped
\* Only what a sweep holds changes.
<1>1. ASSUME NEW s \in SweepRecord, sweep' = s, s.run \in 0..MaxRuns, s.run <= runs,
             UNCHANGED <<dir, raw, bench, rows, children, runs, kills, cut, escaped>>
      PROVE  SweepTyped'
  BY <1>0, <1>1 DEF SweepTyped
<1>2. ASSUME NEW at \in {"record", "harvest", "append", "summary"},
             sweep' = [sweep EXCEPT !.at = at]
      PROVE  /\ sweep' \in SweepRecord /\ sweep'.at = at /\ sweep'.run = sweep.run
             /\ sweep'.mode = sweep.mode /\ sweep'.todo = sweep.todo
  BY <1>0, <1>2 DEF SweepRecord
<1>3. CASE Measuring!Begin
  <2>1. PICK mode \in Measuring!Modes :
          /\ mode = "rescore" \/ runs + Len(Matrix) <= MaxRuns
          /\ sweep' = [Measuring!Idle EXCEPT !.at = "cells", !.mode = mode, !.todo = Matrix]
    BY <1>3 DEF Measuring!Begin
  <2>2. /\ sweep' \in SweepRecord /\ sweep'.at = "cells" /\ sweep'.mode = mode
        /\ sweep'.todo = Matrix /\ sweep'.run = 0
    BY <1>0, <2>1, SweepBounds DEF SweepRecord
  <2>3. UNCHANGED <<dir, raw, bench, rows, children, runs, kills, cut, escaped>>
    BY <1>3 DEF Measuring!Begin, Measuring!files
  <2>4. SweepTyped'
    BY <1>0, <1>1, <2>2, <2>3
  <2> QED
    BY <2>1, <2>2, <2>3, <2>4 DEF Budgeted, Ran
<1>4. CASE Measuring!Skip
  <2>1. /\ sweep' = [sweep EXCEPT !.todo = Tail(sweep.todo)] /\ sweep.todo # <<>>
        /\ sweep.at = "cells"
        /\ UNCHANGED <<dir, raw, bench, rows, children, runs, kills, cut, escaped>>
    BY <1>4 DEF Measuring!Skip, Measuring!files, Measuring!ghosts
  <2>2. Tail(sweep.todo) \in Seq(SweepCell) /\ Len(Tail(sweep.todo)) = Len(sweep.todo) - 1
        /\ Len(sweep.todo) \in Nat
    BY <1>0, <2>1
  <2>3. /\ sweep' \in SweepRecord /\ sweep'.at = "cells" /\ sweep'.mode = sweep.mode
        /\ sweep'.todo = Tail(sweep.todo) /\ sweep'.run = sweep.run
    BY <1>0, <2>1, <2>2 DEF SweepRecord
  <2>4. SweepTyped'
    BY <1>0, <1>1, <2>1, <2>3
  <2> QED
    BY <1>0, <2>1, <2>2, <2>3, <2>4 DEF Budgeted, Ran
<1>5. CASE Measuring!Take
  <2> DEFINE left == IF sweep.mode \in {"plain", "resume"}
                     THEN Measuring!Archived(Head(sweep.todo)) ELSE <<>>
             at == IF sweep.mode = "rescore" THEN "harvest" ELSE "archive"
  <2>1. /\ sweep' = [sweep EXCEPT !.cell = Head(sweep.todo), !.todo = Tail(sweep.todo),
                                  !.run = 0, !.left = left, !.at = at]
        /\ sweep.todo # <<>> /\ sweep.at = "cells"
        /\ UNCHANGED <<dir, raw, bench, rows, children, runs, kills, cut, escaped>>
    BY <1>5 DEF Measuring!Take, Measuring!files, Measuring!ghosts
  <2>2. /\ Tail(sweep.todo) \in Seq(SweepCell) /\ Head(sweep.todo) \in SweepCell
        /\ Len(Tail(sweep.todo)) = Len(sweep.todo) - 1 /\ Len(sweep.todo) \in Nat
    BY <1>0, <2>1
  <2>3. left \in Seq({"dir", "raw", "bench"}) /\ at \in {"harvest", "archive"}
    <3>1. /\ <<"raw", "bench", "dir">> \in Seq({"dir", "raw", "bench"})
          /\ <<"dir", "raw", "bench">> \in Seq({"dir", "raw", "bench"})
          /\ <<>> \in Seq({"dir", "raw", "bench"})
      OBVIOUS
    <3> QED
      BY <3>1, Zenon DEF Measuring!Archived
  <2>4. at = "archive" => sweep.mode # "rescore"
    OBVIOUS
  <2>5. at = "harvest" => sweep.mode = "rescore"
    OBVIOUS
  <2> HIDE DEF left, at
  <2>6. /\ sweep' \in SweepRecord /\ sweep'.at = at /\ sweep'.mode = sweep.mode
        /\ sweep'.todo = Tail(sweep.todo) /\ sweep'.run = 0
    BY <1>0, <2>1, <2>2, <2>3 DEF SweepRecord
  <2>a. 0 \in 0..MaxRuns /\ 0 <= runs
    BY <1>0
  <2>7. SweepTyped'
    BY <1>1, <2>1, <2>6, <2>a
  <2> QED
    BY <1>0, <2>1, <2>2, <2>3, <2>4, <2>5, <2>6, <2>7 DEF Budgeted, Ran
<1>6. CASE Measuring!Archive
  <2>1. /\ sweep' = [sweep EXCEPT !.left = Tail(sweep.left)] /\ sweep.left # <<>>
        /\ sweep.at = "archive"
        /\ UNCHANGED <<rows, children, runs, kills, cut, escaped>>
    BY <1>6 DEF Measuring!Archive, Measuring!ghosts
  <2>2. Tail(sweep.left) \in Seq({"dir", "raw", "bench"})
    BY <1>0, <2>1
  <2>3. /\ sweep' \in SweepRecord /\ sweep'.at = "archive" /\ sweep'.mode = sweep.mode
        /\ sweep'.todo = sweep.todo /\ sweep'.run = sweep.run
    BY <1>0, <2>1, <2>2 DEF SweepRecord
  <2>4. Head(sweep.left) \in {"dir", "raw", "bench"}
    BY <1>0, <2>1
  <2>5. /\ dir' \in [SweepCell -> [units : UnitText, main : UnitText]]
        /\ raw' \in [SweepCell -> UnitText]
        /\ bench' \in [SweepCell -> {"none", "partial", "ran", "scored"}]
    BY <1>0, <1>6, <2>4 DEF Measuring!Archive
  <2>6. SweepTyped'
    BY <1>0, <2>1, <2>3, <2>5 DEF SweepTyped
  <2> QED
    BY <2>1, <2>3, <2>6 DEF Budgeted, Ran
<1>7. CASE Measuring!Launch
  <2> DEFINE k == [cell |-> sweep.cell, run |-> runs + 1, at |-> "working"]
  <2>1. /\ sweep' = [sweep EXCEPT !.at = "waiting", !.run = runs + 1] /\ sweep.at = "archive"
        /\ runs' = runs + 1 /\ children' = children \cup {k}
        /\ UNCHANGED <<dir, raw, bench, rows, kills, cut, escaped>>
    BY <1>7 DEF Measuring!Launch, Measuring!files
  <2>2. runs + Len(sweep.todo) < MaxRuns /\ Len(sweep.todo) \in Nat
    BY <1>0, <2>1 DEF Budgeted
  <2>3. runs + 1 \in 1..MaxRuns /\ runs + 1 \in 0..MaxRuns
    BY <1>0, <2>2
  <2>4. k \in [cell : SweepCell, run : 1..MaxRuns, at : {"working", "done", "exported"}]
    BY <1>0, <2>3
  <2>5. /\ sweep' \in SweepRecord /\ sweep'.at = "waiting" /\ sweep'.mode = sweep.mode
        /\ sweep'.todo = sweep.todo /\ sweep'.run = runs + 1
    BY <1>0, <2>1, <2>3 DEF SweepRecord
  <2> HIDE DEF k
  <2>6. SweepTyped'
    BY <1>0, <2>1, <2>3, <2>4, <2>5 DEF SweepTyped
  <2> QED
    BY <1>0, <2>1, <2>2, <2>5, <2>6 DEF Budgeted, Ran
<1>8. CASE Measuring!Waited \/ Measuring!TimeOut \/ Measuring!Record \/ Measuring!WriteBack
  <2>1. PICK at \in {"record", "harvest", "append"} :
          /\ sweep' = [sweep EXCEPT !.at = at] /\ sweep.at \in Ran
    BY <1>8 DEF Measuring!Waited, Measuring!TimeOut, Measuring!Record, Measuring!WriteBack,
                Measuring!Now, Ran
  <2>2. /\ bench' \in [SweepCell -> {"none", "partial", "ran", "scored"}]
        /\ children' \subseteq children
        /\ UNCHANGED <<dir, raw, rows, runs, kills, cut, escaped>>
    BY <1>0, <1>8 DEF Measuring!Waited, Measuring!TimeOut, Measuring!Record,
                Measuring!WriteBack, Measuring!files, Measuring!ghosts
  <2>3. SweepTyped'
    BY <1>0, <1>2, <2>1, <2>2 DEF SweepTyped
  <2> QED
    BY <1>2, <2>1, <2>2, <2>3 DEF Budgeted, Ran
<1>9. CASE Measuring!Harvest
  <2> DEFINE text == Measuring!Harvested(sweep.cell)
  <2>1. /\ sweep' = [sweep EXCEPT !.at = "score", !.text = text] /\ sweep.at = "harvest"
        /\ raw' = [raw EXCEPT ![sweep.cell] = Measuring!Persisted(sweep.cell, text)]
        /\ UNCHANGED <<dir, bench, rows, children, runs, kills, cut, escaped>>
    BY <1>9 DEF Measuring!Harvest, Measuring!ghosts
  <2>2. text \in UnitText /\ Measuring!Persisted(sweep.cell, text) \in UnitText
    BY <1>0 DEF Measuring!Harvested, Measuring!Persisted
  <2> HIDE DEF text
  <2>3. /\ sweep' \in SweepRecord /\ sweep'.at = "score" /\ sweep'.mode = sweep.mode
        /\ sweep'.todo = sweep.todo /\ sweep'.run = sweep.run
    BY <1>0, <2>1, <2>2 DEF SweepRecord
  <2>4. SweepTyped'
    BY <1>0, <2>1, <2>2, <2>3 DEF SweepTyped
  <2> QED
    BY <2>1, <2>3, <2>4 DEF Budgeted, Ran
<1>10. CASE Measuring!AppendRow
  <2> DEFINE r == [cell |-> sweep.cell,
                   attempt |-> Measuring!NextAttempt(sweep.cell, sweep.mode # "rescore"),
                   run |-> sweep.run, text |-> sweep.text,
                   continued |-> sweep.mode = "continue"]
  <2>1. /\ sweep' = [sweep EXCEPT !.at = "cells", !.run = 0, !.text = Measuring!Nothing]
        /\ sweep.at = "append" /\ rows' = Append(rows, r)
        /\ UNCHANGED <<dir, raw, bench, children, runs, kills, cut, escaped>>
    BY <1>10 DEF Measuring!AppendRow, Measuring!ghosts
  <2>2. Measuring!NextAttempt(sweep.cell, sweep.mode # "rescore") \in Nat
    BY <1>0, NextAttemptIs
  <2>3. r \in Row
    BY <1>0, <2>2 DEF Row
  <2> HIDE DEF r
  <2>4. rows' \in Seq(Row)
    BY <1>0, <2>1, <2>3
  <2>5. /\ sweep' \in SweepRecord /\ sweep'.at = "cells" /\ sweep'.mode = sweep.mode
        /\ sweep'.todo = sweep.todo /\ sweep'.run = 0
    BY <1>0, <2>1 DEF SweepRecord
  <2>6. SweepTyped'
    BY <1>0, <2>1, <2>4, <2>5 DEF SweepTyped
  <2> QED
    BY <2>1, <2>5, <2>6 DEF Budgeted, Ran
<1>11. ASSUME sweep' = Measuring!Idle, UNCHANGED <<dir, raw, bench, rows, runs>>,
              children' \subseteq children, kills' \in Nat,
              cut' \in SUBSET SweepCell, escaped' \in SUBSET SweepCell
       PROVE  SweepTyped' /\ Budgeted'
  BY <1>0, <1>11 DEF SweepTyped, Budgeted, Ran
<1>12. CASE Measuring!Predict \/ Measuring!Summarize \/ Measuring!Report
  <2>1. UNCHANGED <<dir, raw, bench, rows, children, runs, kills, cut, escaped>>
    BY <1>12 DEF Measuring!Predict, Measuring!Summarize, Measuring!Report, Measuring!files,
                 Measuring!ghosts
  <2>2. CASE sweep' = Measuring!Idle
    BY <1>0, <1>11, <2>1, <2>2
  <2>3. CASE sweep' = [sweep EXCEPT !.at = "summary"]
    BY <1>0, <1>1, <1>2, <2>1, <2>3 DEF Budgeted, Ran
  <2>4. CASE sweep' = [Measuring!Idle EXCEPT !.at = "summed"]
    <3>1. sweep' \in SweepRecord /\ sweep'.at = "summed" /\ sweep'.run = 0
      BY <1>0, <2>4 DEF SweepRecord
    <3> QED
      BY <1>0, <1>1, <2>1, <3>1 DEF Budgeted, Ran
  <2> QED
    BY <1>12, <2>2, <2>3, <2>4 DEF Measuring!Predict, Measuring!Summarize, Measuring!Report,
                                   Measuring!Now
<1>13. CASE Measuring!Crash \/ Measuring!Interrupt
  <2>1. Measuring!Midway \in SUBSET SweepCell
    BY <1>0 DEF Measuring!Midway
  <2>2. {k.cell : k \in children} \in SUBSET SweepCell
    BY <1>0
  <2> QED
    BY <1>0, <1>11, <1>13, <2>1, <2>2 DEF Measuring!Crash, Measuring!Interrupt, Measuring!files
<1> QED
  BY <1>3, <1>4, <1>5, <1>6, <1>7, <1>8, <1>9, <1>10, <1>12, <1>13 DEF Measuring!Steps

-----------------------------------------------------------------------------
(* Sweep: who looks after a child.                                         *)

\* A child goes on or ends: its run has no more children than before.
LEMMA ChildGoes ==
    ASSUME SweepTyped, NEW k \in children,
           \/ Measuring!Writes(k) \/ Measuring!Assembles(k) \/ Measuring!Exports(k)
           \/ Measuring!Records(k) \/ Measuring!Fails(k)
    PROVE  /\ sweep' = sweep /\ kills' = kills /\ escaped' = escaped /\ cut' = cut
           /\ rows' = rows /\ runs' = runs
           /\ \A j \in children' : \E i \in children : j.cell = i.cell /\ j.run = i.run
           /\ \/ children' = children \/ children' = children \ {k}
              \/ \E j : children' = (children \ {k}) \cup {j} /\ j.run = k.run
<1>0. /\ sweep' = sweep /\ kills' = kills /\ escaped' = escaped /\ cut' = cut
      /\ rows' = rows /\ runs' = runs
  BY DEF Measuring!Writes, Measuring!Assembles, Measuring!Exports, Measuring!Records,
         Measuring!Fails, Measuring!ghosts, Measuring!files
<1>1. ASSUME NEW at, Measuring!Goes(k, at)
      PROVE  /\ \E j : children' = (children \ {k}) \cup {j} /\ j.run = k.run /\ j.cell = k.cell
  <2> DEFINE j == [k EXCEPT !.at = at]
  <2>1. j.run = k.run /\ j.cell = k.cell
    BY DEF SweepTyped
  <2>2. children' = (children \ {k}) \cup {j}
    BY <1>1 DEF Measuring!Goes
  <2> QED
    BY <2>1, <2>2
<1>2. CASE Measuring!Writes(k)
  BY <1>0, <1>2 DEF Measuring!Writes
<1>3. CASE Measuring!Assembles(k) \/ Measuring!Exports(k)
  <2>1. PICK j : children' = (children \ {k}) \cup {j} /\ j.run = k.run /\ j.cell = k.cell
    BY <1>1, <1>3 DEF Measuring!Assembles, Measuring!Exports
  <2> QED
    BY <1>0, <2>1
<1>4. CASE Measuring!Records(k) \/ Measuring!Fails(k)
  BY <1>0, <1>4 DEF Measuring!Records, Measuring!Fails
<1> QED
  BY <1>2, <1>3, <1>4

LEMMA ChildAttended ==
    ASSUME SweepTyped, Attended, NEW k \in children,
           \/ Measuring!Writes(k) \/ Measuring!Assembles(k) \/ Measuring!Exports(k)
           \/ Measuring!Records(k) \/ Measuring!Fails(k)
    PROVE  Attended'
<1>0. /\ sweep' = sweep /\ kills' = kills /\ escaped' = escaped
      /\ \A j \in children' : \E i \in children : j.cell = i.cell /\ j.run = i.run
      /\ IsFiniteSet(children) /\ Cardinality(children) \in Nat /\ kills \in Nat
  BY ChildGoes, FS_CardinalityType DEF Attended, SweepTyped
<1> DEFINE more == IF sweep.at = "waiting" /\ Measuring!Own # {} THEN 1 ELSE 0
<1>1. Cardinality(children) <= kills + more /\ more \in {0, 1}
  BY DEF Attended
<1>2. /\ IsFiniteSet(children \ {k})
      /\ Cardinality(children \ {k}) = Cardinality(children) - 1
  BY <1>0, FS_RemoveElement
<1>3. IsFiniteSet(children') /\ Cardinality(children') <= kills
         + (IF sweep.at = "waiting" /\ Measuring!Own' # {} THEN 1 ELSE 0)
  <2>1. CASE children' = children
    BY <1>0, <1>1, <2>1 DEF Measuring!Own
  <2>2. CASE children' = children \ {k}
    BY <1>0, <1>1, <1>2, <2>2
  <2>3. ASSUME NEW j, children' = (children \ {k}) \cup {j}, j.run = k.run
        PROVE  IsFiniteSet(children') /\ Cardinality(children') <= kills
                 + (IF sweep.at = "waiting" /\ Measuring!Own' # {} THEN 1 ELSE 0)
    <3>1. IsFiniteSet(children') /\ Cardinality(children') <= Cardinality(children)
      <4>1. /\ IsFiniteSet((children \ {k}) \cup {j})
            /\ \/ Cardinality((children \ {k}) \cup {j}) = Cardinality(children \ {k})
               \/ Cardinality((children \ {k}) \cup {j}) = Cardinality(children \ {k}) + 1
        BY <1>2, FS_AddElement
      <4> QED
        BY <1>0, <1>2, <2>3, <4>1
    <3>2. Cardinality(children') \in Nat
      BY <3>1, FS_CardinalityType
    <3>3. Measuring!Own # {} => Measuring!Own' # {}
      <4>1. SUFFICES ASSUME NEW i \in children, i.run = sweep.run PROVE Measuring!Own' # {}
        BY DEF Measuring!Own
      <4>2. CASE i = k
        BY <1>0, <2>3, <4>1, <4>2 DEF Measuring!Own
      <4>3. CASE i # k
        BY <1>0, <2>3, <4>1, <4>3 DEF Measuring!Own
      <4> QED
        BY <4>2, <4>3
    <3> QED
      BY <1>0, <1>1, <3>1, <3>2, <3>3
  <2> QED
    BY <2>1, <2>2, <2>3, ChildGoes
<1>4. \A j \in children' : j.cell \notin escaped' =>
         sweep'.at = "waiting" /\ j.cell = sweep'.cell /\ j.run = sweep'.run
  BY <1>0 DEF Attended
<1> QED
  BY <1>0, <1>3, <1>4 DEF Attended

LEMMA SweepAttended ==
    ASSUME SweepTyped, Attended,
           Measuring!Begin \/ Measuring!Steps \/ Measuring!Crash \/ Measuring!Interrupt
    PROVE  Attended'
<1>0. /\ sweep \in SweepRecord /\ runs \in Nat /\ sweep.run <= runs /\ sweep.run \in Nat
      /\ IsFiniteSet(children) /\ Cardinality(children) \in Nat /\ kills \in Nat
      /\ \A k \in children : k.cell \notin escaped =>
           sweep.at = "waiting" /\ k.cell = sweep.cell /\ k.run = sweep.run
      /\ Measuring!Idle.at = "idle"
  BY SweepFields, SweepIdle, FS_CardinalityType DEF Attended, SweepTyped
<1>a. ~(sweep.at = "waiting" /\ Measuring!Own # {}) => Cardinality(children) <= kills
  BY <1>0 DEF Attended
<1>b. Cardinality(children) <= kills + 1
  BY <1>0 DEF Attended
\* A step of a sweep that does not wait.
<1>1. ASSUME sweep.at # "waiting", sweep'.at # "waiting",
             UNCHANGED <<children, kills, escaped>>
      PROVE  Attended'
  BY <1>0, <1>a, <1>1 DEF Attended
<1>2. CASE Measuring!Launch
  <2> DEFINE k == [cell |-> sweep.cell, run |-> runs + 1, at |-> "working"]
  <2>1. /\ sweep' = [sweep EXCEPT !.at = "waiting", !.run = runs + 1] /\ sweep.at = "archive"
        /\ children' = children \cup {k} /\ UNCHANGED <<kills, escaped>>
    BY <1>2 DEF Measuring!Launch
  <2>2. sweep'.at = "waiting" /\ sweep'.run = runs + 1 /\ sweep'.cell = sweep.cell
    BY <1>0, <2>1 DEF SweepRecord
  <2>3. k.cell = sweep.cell /\ k.run = runs + 1
    OBVIOUS
  <2> HIDE DEF k
  <2>4. /\ IsFiniteSet(children')
        /\ \/ Cardinality(children') = Cardinality(children)
           \/ Cardinality(children') = Cardinality(children) + 1
    BY <1>0, <2>1, FS_AddElement
  <2>5. Measuring!Own' # {}
    BY <2>1, <2>2, <2>3 DEF Measuring!Own
  <2>6. Cardinality(children') <= kills + 1
    BY <1>0, <1>a, <2>1, <2>4
  <2>7. \A j \in children' : j.cell \notin escaped' =>
          sweep'.at = "waiting" /\ j.cell = sweep'.cell /\ j.run = sweep'.run
    BY <1>0, <2>1, <2>2, <2>3
  <2> QED
    BY <2>1, <2>2, <2>4, <2>5, <2>6, <2>7 DEF Attended
<1>3. CASE Measuring!Waited
  <2>1. /\ sweep' = [sweep EXCEPT !.at = "record"] /\ sweep.at = "waiting"
        /\ Measuring!Own = {} /\ UNCHANGED <<children, kills, escaped>>
    BY <1>3 DEF Measuring!Waited, Measuring!Now, Measuring!ghosts
  <2>2. sweep'.at = "record"
    BY <1>0, <2>1 DEF SweepRecord
  <2>3. \A k \in children : k.cell \in escaped
    BY <1>0, <2>1 DEF Measuring!Own
  <2> QED
    BY <1>0, <1>a, <2>1, <2>2, <2>3 DEF Attended
<1>4. CASE Measuring!TimeOut
  <2>1. /\ sweep' = [sweep EXCEPT !.at = "record"] /\ sweep.at = "waiting"
        /\ children' = children \ Measuring!Own /\ Measuring!Own # {}
        /\ UNCHANGED <<kills, escaped>>
    BY <1>4 DEF Measuring!TimeOut, Measuring!Now, Measuring!ghosts
  <2>2. sweep'.at = "record"
    BY <1>0, <2>1 DEF SweepRecord
  <2>3. PICK k \in children : k \in Measuring!Own
    BY <2>1 DEF Measuring!Own
  <2>4. /\ IsFiniteSet(children \ {k})
        /\ Cardinality(children \ {k}) = Cardinality(children) - 1
    BY <1>0, FS_RemoveElement
  <2>5. children' \subseteq children \ {k}
    BY <2>1, <2>3
  <2>6. IsFiniteSet(children') /\ Cardinality(children') <= Cardinality(children \ {k})
        /\ Cardinality(children') \in Nat
    BY <2>4, <2>5, FS_Subset, FS_CardinalityType
  <2>7. Cardinality(children') <= kills
    BY <1>0, <1>b, <2>4, <2>6
  <2>8. \A j \in children' : j.cell \in escaped
    BY <1>0, <2>1 DEF Measuring!Own
  <2> QED
    BY <1>0, <2>1, <2>2, <2>6, <2>7, <2>8 DEF Attended
<1>5. CASE \/ Measuring!Begin \/ Measuring!Skip \/ Measuring!Take \/ Measuring!Archive
           \/ Measuring!Record \/ Measuring!Harvest \/ Measuring!WriteBack
           \/ Measuring!AppendRow \/ Measuring!Predict \/ Measuring!Summarize
           \/ Measuring!Report
  <2>1. UNCHANGED <<children, kills, escaped>> /\ sweep.at # "waiting"
    BY <1>5 DEF Measuring!Begin, Measuring!Skip, Measuring!Take, Measuring!Archive,
       Measuring!Record, Measuring!Harvest, Measuring!WriteBack, Measuring!AppendRow,
       Measuring!Predict, Measuring!Summarize, Measuring!Report, Measuring!ghosts,
       Measuring!files
  <2>2. sweep'.at # "waiting"
    <3>1. \A s, at, text : /\ [sweep EXCEPT !.todo = s].at = sweep.at
                           /\ [sweep EXCEPT !.left = s].at = sweep.at
                           /\ [sweep EXCEPT !.at = at].at = at
                           /\ [sweep EXCEPT !.at = at, !.text = text].at = at
                           /\ [sweep EXCEPT !.at = at, !.run = 0, !.text = text].at = at
      BY <1>0 DEF SweepRecord
    <3>2. \A c, s, left, at : [sweep EXCEPT !.cell = c, !.todo = s, !.run = 0, !.left = left,
                                            !.at = at].at = at
      BY <1>0 DEF SweepRecord
    <3>3. \A at, mode, s : /\ [Measuring!Idle EXCEPT !.at = at, !.mode = mode, !.todo = s].at = at
                           /\ [Measuring!Idle EXCEPT !.at = at].at = at
      BY SweepIdle DEF SweepRecord
    <3>4. CASE Measuring!Begin
      BY <3>3, <3>4 DEF Measuring!Begin
    <3>5. CASE Measuring!Skip
      BY <3>1, <3>5 DEF Measuring!Skip
    <3>6. CASE Measuring!Take
      BY <3>2, <3>6 DEF Measuring!Take
    <3>7. CASE Measuring!Archive
      BY <3>1, <3>7 DEF Measuring!Archive
    <3>8. CASE \/ Measuring!Record \/ Measuring!Harvest \/ Measuring!WriteBack
               \/ Measuring!AppendRow
      <4>1. CASE Measuring!Record \/ Measuring!WriteBack
        BY <1>0, <4>1 DEF Measuring!Record, Measuring!WriteBack, Measuring!Now, SweepRecord
      <4>2. CASE Measuring!Harvest
        <5>1. PICK text : sweep' = [sweep EXCEPT !.at = "score", !.text = text]
          BY <4>2 DEF Measuring!Harvest
        <5> QED
          BY <1>0, <5>1 DEF SweepRecord
      <4>3. CASE Measuring!AppendRow
        <5>1. PICK text : sweep' = [sweep EXCEPT !.at = "cells", !.run = 0, !.text = text]
          BY <4>3 DEF Measuring!AppendRow
        <5> QED
          BY <1>0, <5>1 DEF SweepRecord
      <4> QED
        BY <3>8, <4>1, <4>2, <4>3
    <3>9. CASE Measuring!Predict \/ Measuring!Summarize \/ Measuring!Report
      <4>1. \/ sweep' = Measuring!Idle \/ sweep' = [sweep EXCEPT !.at = "summary"]
            \/ sweep' = [Measuring!Idle EXCEPT !.at = "summed"]
        BY <3>9 DEF Measuring!Predict, Measuring!Summarize, Measuring!Report, Measuring!Now
      <4> QED
        BY <1>0, <4>1, SweepIdle DEF SweepRecord
    <3> QED
      BY <1>5, <3>4, <3>5, <3>6, <3>7, <3>8, <3>9
  <2> QED
    BY <1>1, <2>1, <2>2
<1>6. CASE Measuring!Crash
  <2>1. sweep'.at = "idle" /\ children' = {} /\ kills' = kills + 1
    BY <1>0, <1>6 DEF Measuring!Crash
  <2> QED
    BY <1>0, <2>1, FS_EmptySet DEF Attended
<1>7. CASE Measuring!Interrupt
  <2>1. /\ sweep'.at = "idle" /\ children' = children /\ kills' = kills + 1
        /\ escaped' = escaped \cup {k.cell : k \in children}
    BY <1>0, <1>7 DEF Measuring!Interrupt, Measuring!files
  <2> QED
    BY <1>0, <1>b, <2>1 DEF Attended
<1> QED
  BY <1>2, <1>3, <1>4, <1>5, <1>6, <1>7 DEF Measuring!Steps

-----------------------------------------------------------------------------
(* Sweep: what each step does to the sweep itself.                         *)

Rests == {"idle", "cells", "summary", "summed"}

\* The steps that leave no cell under way.
LEMMA SweepRests ==
    ASSUME SweepTyped,
           \/ Measuring!Begin \/ Measuring!Skip \/ Measuring!Predict \/ Measuring!Summarize
           \/ Measuring!Report \/ Measuring!Crash \/ Measuring!Interrupt
    PROVE  /\ sweep'.at \in Rests /\ UNCHANGED <<dir, raw, rows>>
           /\ escaped \subseteq escaped' /\ cut \subseteq cut'
           /\ sweep.at \notin Rests => sweep.cell \in cut'
<1>0. sweep \in SweepRecord /\ Measuring!Idle.at = "idle" /\ Measuring!Idle \in SweepRecord
  BY SweepFields, SweepIdle
<1>1. CASE Measuring!Begin
  <2>1. PICK mode : sweep' = [Measuring!Idle EXCEPT !.at = "cells", !.mode = mode, !.todo = Matrix]
    BY <1>1 DEF Measuring!Begin
  <2>2. sweep'.at = "cells"
    BY <1>0, <2>1 DEF SweepRecord
  <2> QED
    BY <1>1, <2>2 DEF Measuring!Begin, Measuring!files, Rests
<1>2. CASE Measuring!Skip
  <2>1. sweep'.at = sweep.at
    BY <1>0, <1>2 DEF Measuring!Skip, SweepRecord
  <2> QED
    BY <1>2, <2>1 DEF Measuring!Skip, Measuring!files, Measuring!ghosts, Rests
<1>3. CASE Measuring!Predict \/ Measuring!Summarize \/ Measuring!Report
  <2>1. \/ sweep' = Measuring!Idle \/ sweep' = [sweep EXCEPT !.at = "summary"]
        \/ sweep' = [Measuring!Idle EXCEPT !.at = "summed"]
    BY <1>3 DEF Measuring!Predict, Measuring!Summarize, Measuring!Report, Measuring!Now
  <2>2. sweep'.at \in Rests
    BY <1>0, <2>1 DEF SweepRecord, Rests
  <2>3. sweep.at \in Rests /\ UNCHANGED <<dir, raw, rows, escaped, cut>>
    BY <1>3 DEF Measuring!Predict, Measuring!Summarize, Measuring!Report, Measuring!files,
                Measuring!ghosts, Rests
  <2> QED
    BY <2>2, <2>3
<1>4. CASE Measuring!Crash \/ Measuring!Interrupt
  <2>1. sweep' = Measuring!Idle /\ cut' = cut \cup Measuring!Midway /\ sweep.at # "idle"
        /\ UNCHANGED <<dir, raw, rows>> /\ escaped \subseteq escaped'
    BY <1>4 DEF Measuring!Crash, Measuring!Interrupt, Measuring!files
  <2>2. sweep.at \notin Rests => sweep.cell \in Measuring!Midway
    BY DEF Rests, Measuring!Midway
  <2> QED
    BY <1>0, <2>1, <2>2 DEF Rests
<1> QED
  BY <1>1, <1>2, <1>3, <1>4

LEMMA TakeGoes ==
    ASSUME SweepTyped, Measuring!Take
    PROVE  /\ sweep.at = "cells" /\ sweep'.mode = sweep.mode /\ sweep'.run = 0
           /\ sweep'.at \in {"archive", "harvest"}
           /\ sweep'.at = "harvest" <=> sweep.mode = "rescore"
           /\ sweep.mode \in {"plain", "resume"} =>
                \E i, j \in DOMAIN sweep'.left : sweep'.left[i] = "dir" /\ sweep'.left[j] = "raw"
           /\ UNCHANGED <<dir, raw, rows, escaped, cut>>
<1> DEFINE left == IF sweep.mode \in {"plain", "resume"}
                   THEN Measuring!Archived(Head(sweep.todo)) ELSE <<>>
           at == IF sweep.mode = "rescore" THEN "harvest" ELSE "archive"
<1>0. sweep \in SweepRecord
  BY SweepFields
<1>1. /\ sweep' = [sweep EXCEPT !.cell = Head(sweep.todo), !.todo = Tail(sweep.todo),
                                !.run = 0, !.left = left, !.at = at]
      /\ sweep.at = "cells" /\ UNCHANGED <<dir, raw, rows, escaped, cut>>
  BY DEF Measuring!Take, Measuring!files, Measuring!ghosts
<1>2. sweep.mode \in {"plain", "resume"} =>
        \E i, j \in DOMAIN left : left[i] = "dir" /\ left[j] = "raw"
  <2>1. CASE Head(sweep.todo) \in Bare
    <3>1. Measuring!Archived(Head(sweep.todo)) = <<"raw", "bench", "dir">>
      BY <2>1 DEF Measuring!Archived
    <3>2. 3 \in DOMAIN <<"raw", "bench", "dir">> /\ 1 \in DOMAIN <<"raw", "bench", "dir">>
          /\ <<"raw", "bench", "dir">>[3] = "dir" /\ <<"raw", "bench", "dir">>[1] = "raw"
      OBVIOUS
    <3> QED
      BY <3>1, <3>2
  <2>2. CASE Head(sweep.todo) \notin Bare
    <3>1. Measuring!Archived(Head(sweep.todo)) = <<"dir", "raw", "bench">>
      BY <2>2 DEF Measuring!Archived
    <3>2. 1 \in DOMAIN <<"dir", "raw", "bench">> /\ 2 \in DOMAIN <<"dir", "raw", "bench">>
          /\ <<"dir", "raw", "bench">>[1] = "dir" /\ <<"dir", "raw", "bench">>[2] = "raw"
      OBVIOUS
    <3> QED
      BY <3>1, <3>2
  <2> QED
    BY <2>1, <2>2
<1>3. at \in {"archive", "harvest"} /\ (at = "harvest" <=> sweep.mode = "rescore")
  OBVIOUS
<1> HIDE DEF left, at
<1>4. sweep'.mode = sweep.mode /\ sweep'.run = 0 /\ sweep'.at = at /\ sweep'.left = left
  BY <1>0, <1>1 DEF SweepRecord
<1> QED
  BY <1>1, <1>2, <1>3, <1>4

LEMMA ArchiveGoes ==
    ASSUME SweepTyped, Measuring!Archive
    PROVE  /\ sweep.at = "archive" /\ sweep'.at = "archive" /\ sweep'.mode = sweep.mode
           /\ sweep'.cell = sweep.cell /\ sweep'.run = sweep.run
           /\ \A i \in DOMAIN sweep.left : sweep.left[i] # Head(sweep.left) =>
                \E j \in DOMAIN sweep'.left : sweep'.left[j] = sweep.left[i]
           /\ Head(sweep.left) = "dir" \/ dir' = dir
           /\ Head(sweep.left) = "raw" \/ raw' = raw
           /\ Head(sweep.left) = "dir" => dir'[sweep.cell] = Measuring!NoDir
           /\ Head(sweep.left) = "raw" => raw'[sweep.cell] = Measuring!Nothing
           /\ \A c \in SweepCell \ {sweep.cell} : dir'[c] = dir[c] /\ raw'[c] = raw[c]
           /\ UNCHANGED <<rows, escaped, cut>>
<1>0. /\ sweep \in SweepRecord /\ sweep.left \in Seq({"dir", "raw", "bench"})
      /\ sweep.cell \in SweepCell
      /\ dir \in [SweepCell -> [units : UnitText, main : UnitText]]
      /\ raw \in [SweepCell -> UnitText]
  BY SweepFields DEF SweepTyped
<1>1. /\ sweep' = [sweep EXCEPT !.left = Tail(sweep.left)] /\ sweep.at = "archive"
      /\ sweep.left # <<>> /\ UNCHANGED <<rows, escaped, cut>>
  BY DEF Measuring!Archive, Measuring!ghosts
<1>2. /\ sweep'.at = "archive" /\ sweep'.mode = sweep.mode /\ sweep'.cell = sweep.cell
      /\ sweep'.run = sweep.run /\ sweep'.left = Tail(sweep.left)
  BY <1>0, <1>1 DEF SweepRecord
<1>3. Head(sweep.left) \in {"dir", "raw", "bench"}
  BY <1>0, <1>1
<1>4. ASSUME NEW i \in DOMAIN sweep.left, sweep.left[i] # Head(sweep.left)
      PROVE  \E j \in DOMAIN sweep'.left : sweep'.left[j] = sweep.left[i]
  <2>1. i # 1 /\ i \in 1..Len(sweep.left)
    BY <1>0, <1>1, <1>4
  <2>2. i - 1 \in 1..Len(Tail(sweep.left)) /\ Tail(sweep.left)[i - 1] = sweep.left[i]
    BY <1>0, <1>1, <2>1
  <2> QED
    BY <1>0, <1>1, <1>2, <2>2
<1>5. CASE Head(sweep.left) = "dir"
  BY <1>0, <1>1, <1>2, <1>4, <1>5 DEF Measuring!Archive
<1>6. CASE Head(sweep.left) = "raw"
  BY <1>0, <1>1, <1>2, <1>4, <1>6 DEF Measuring!Archive
<1>7. CASE Head(sweep.left) = "bench"
  BY <1>0, <1>1, <1>2, <1>4, <1>7 DEF Measuring!Archive
<1> QED
  BY <1>3, <1>5, <1>6, <1>7

\* From the launch to the row: the cell, the mode and, once started, the run stay.
LEMMA RunGoes ==
    ASSUME SweepTyped,
           \/ Measuring!Launch \/ Measuring!Waited \/ Measuring!TimeOut \/ Measuring!Record
           \/ Measuring!WriteBack
    PROVE  /\ sweep'.mode = sweep.mode /\ sweep'.cell = sweep.cell /\ sweep'.text = sweep.text
           /\ UNCHANGED <<dir, raw, rows, escaped, cut>>
           /\ \/ /\ sweep.at = "archive" /\ sweep'.at = "waiting" /\ sweep'.run = runs + 1
                 /\ sweep.left = <<>>
              \/ /\ sweep'.run = sweep.run
                 /\ \/ sweep.at = "waiting" /\ sweep'.at = "record"
                    \/ sweep.at = "record" /\ sweep'.at = "harvest"
                    \/ sweep.at = "score" /\ sweep'.at = "append"
<1>0. sweep \in SweepRecord
  BY SweepFields
<1>1. CASE Measuring!Launch
  BY <1>0, <1>1 DEF Measuring!Launch, SweepRecord, Measuring!files
<1>2. ASSUME NEW at, sweep' = [sweep EXCEPT !.at = at]
      PROVE  /\ sweep'.mode = sweep.mode /\ sweep'.cell = sweep.cell /\ sweep'.text = sweep.text
             /\ sweep'.at = at /\ sweep'.run = sweep.run
  BY <1>0, <1>2 DEF SweepRecord
<1>3. CASE Measuring!Waited \/ Measuring!TimeOut
  BY <1>2, <1>3 DEF Measuring!Waited, Measuring!TimeOut, Measuring!Now, Measuring!files,
                    Measuring!ghosts
<1>4. CASE Measuring!Record
  BY <1>2, <1>4 DEF Measuring!Record, Measuring!Now, Measuring!ghosts
<1>5. CASE Measuring!WriteBack
  BY <1>2, <1>5 DEF Measuring!WriteBack, Measuring!Now, Measuring!ghosts
<1> QED
  BY <1>1, <1>3, <1>4, <1>5

\* What is harvested is one of the three texts there are, and raw/ has it afterwards.
LEMMA HarvestGoes ==
    ASSUME SweepTyped, Measuring!Harvest
    PROVE  LET c == sweep.cell IN
           /\ sweep.at = "harvest" /\ sweep'.at = "score" /\ sweep'.mode = sweep.mode
           /\ sweep'.cell = c /\ sweep'.run = sweep.run
           /\ sweep'.text = Measuring!Harvested(c) /\ raw'[c] = sweep'.text
           /\ sweep'.text \in {dir[c].main, dir[c].units, raw[c]}
           /\ Measuring!Harvested(c)' = sweep'.text
           /\ \A x \in SweepCell \ {c} : raw'[x] = raw[x]
           /\ UNCHANGED <<dir, rows, escaped, cut>>
<1> DEFINE c == sweep.cell
           text == Measuring!Harvested(c)
<1>0. /\ sweep \in SweepRecord /\ c \in SweepCell
      /\ raw \in [SweepCell -> UnitText]
  BY SweepFields DEF SweepTyped
<1>1. /\ sweep' = [sweep EXCEPT !.at = "score", !.text = text] /\ sweep.at = "harvest"
      /\ raw' = [raw EXCEPT ![c] = Measuring!Persisted(c, text)]
      /\ UNCHANGED <<dir, rows, escaped, cut>>
  BY DEF Measuring!Harvest, Measuring!ghosts
<1>2. PICK t : t = text
  OBVIOUS
<1>3. /\ sweep'.at = "score" /\ sweep'.mode = sweep.mode /\ sweep'.cell = c
      /\ sweep'.run = sweep.run /\ sweep'.text = t
  BY <1>0, <1>1, <1>2 DEF SweepRecord
<1>4. /\ t \in {dir[c].main, dir[c].units, raw[c]}
      /\ t = Measuring!Nothing => raw[c] = t
  BY <1>2 DEF Measuring!Harvested
<1>5. raw'[c] = t /\ \A x \in SweepCell \ {c} : raw'[x] = raw[x]
  BY <1>0, <1>1, <1>2, <1>4 DEF Measuring!Persisted
<1>6. Measuring!Harvested(c)' = t
  BY <1>1, <1>2, <1>3, <1>5 DEF Measuring!Harvested
<1> QED
  BY <1>1, <1>2, <1>3, <1>4, <1>5, <1>6

LEMMA AppendGoes ==
    ASSUME SweepTyped, Measuring!AppendRow, Counted(sweep.cell)
    PROVE  \E r \in Row :
           /\ rows' = Append(rows, r)
           /\ r.cell = sweep.cell /\ r.run = sweep.run /\ r.text = sweep.text
           /\ r.continued <=> sweep.mode = "continue"
           /\ r.attempt = Measuring!NextAttempt(sweep.cell, sweep.mode # "rescore")
           /\ sweep.at = "append" /\ sweep'.at = "cells"
           /\ UNCHANGED <<dir, raw, escaped, cut>>
<1> DEFINE a == Measuring!NextAttempt(sweep.cell, sweep.mode # "rescore")
           r == [cell |-> sweep.cell, attempt |-> a, run |-> sweep.run, text |-> sweep.text,
                 continued |-> sweep.mode = "continue"]
<1>0. /\ sweep \in SweepRecord /\ sweep.cell \in SweepCell /\ sweep.run \in 0..MaxRuns
      /\ sweep.text \in UnitText
  BY SweepFields
<1>1. /\ sweep' = [sweep EXCEPT !.at = "cells", !.run = 0, !.text = Measuring!Nothing]
      /\ sweep.at = "append" /\ rows' = Append(rows, r)
      /\ UNCHANGED <<dir, raw, escaped, cut>>
  BY DEF Measuring!AppendRow, Measuring!ghosts
<1>2. sweep'.at = "cells"
  BY <1>0, <1>1 DEF SweepRecord
<1>3. a \in Nat
  BY NextAttemptIs
<1> HIDE DEF a
<1>4. /\ r \in Row /\ r.cell = sweep.cell /\ r.run = sweep.run /\ r.text = sweep.text
      /\ r.attempt = a
  BY <1>0, <1>3 DEF Row
<1>5. r.continued <=> sweep.mode = "continue"
  OBVIOUS
<1> HIDE DEF r
<1> QED
  BY <1>1, <1>2, <1>4, <1>5 DEF a

-----------------------------------------------------------------------------
(* Sweep: a fresh run leaves its own.                                      *)

\* A child only touches its own cell, and writes there what its run has written.
LEMMA ChildFiles ==
    ASSUME SweepTyped, NEW k \in children,
           \/ Measuring!Writes(k) \/ Measuring!Assembles(k) \/ Measuring!Exports(k)
           \/ Measuring!Records(k) \/ Measuring!Fails(k)
    PROVE  /\ \A c \in SweepCell \ {k.cell} : dir'[c] = dir[c] /\ raw'[c] = raw[c]
           /\ /\ OfRun(dir[k.cell].units, k.run) /\ OfRun(dir[k.cell].main, k.run)
              /\ OfRun(raw[k.cell], k.run)
              => /\ OfRun(dir'[k.cell].units, k.run) /\ OfRun(dir'[k.cell].main, k.run)
                 /\ OfRun(raw'[k.cell], k.run)
<1>0. /\ k.cell \in SweepCell
      /\ dir \in [SweepCell -> [units : UnitText, main : UnitText]]
      /\ raw \in [SweepCell -> UnitText]
      /\ UnitText = [Units -> 0..MaxRuns]
  BY DEF SweepTyped, UnitText, Measuring!Texts
<1>1. CASE Measuring!Writes(k)
  <2>1. PICK u \in Units : dir' = [dir EXCEPT ![k.cell].units[u] = k.run] /\ raw' = raw
    BY <1>1 DEF Measuring!Writes
  <2> DEFINE t == [dir[k.cell].units EXCEPT ![u] = k.run]
             d == [dir[k.cell] EXCEPT !.units = t]
  <2>2. \A v \in Units : t[v] = dir[k.cell].units[v] \/ t[v] = k.run
    BY <1>0
  <2> HIDE DEF t
  <2>3. d.units = t /\ d.main = dir[k.cell].main
    BY <1>0
  <2>4. dir' = [dir EXCEPT ![k.cell] = d]
    BY <2>1 DEF t
  <2> HIDE DEF d
  <2>5. dir'[k.cell] = d /\ \A c \in SweepCell \ {k.cell} : dir'[c] = dir[c]
    BY <1>0, <2>4
  <2> QED
    BY <2>1, <2>2, <2>3, <2>5 DEF OfRun
<1>2. CASE Measuring!Assembles(k)
  <2>1. dir' = [dir EXCEPT ![k.cell].main = dir[k.cell].units] /\ raw' = raw
    BY <1>2 DEF Measuring!Assembles
  <2>2. /\ dir'[k.cell].units = dir[k.cell].units /\ dir'[k.cell].main = dir[k.cell].units
        /\ \A c \in SweepCell \ {k.cell} : dir'[c] = dir[c]
    BY <1>0, <2>1
  <2> QED
    BY <2>1, <2>2
<1>3. CASE Measuring!Exports(k)
  <2>1. PICK text \in Measuring!Exported(k.cell) :
          /\ dir' = dir
          /\ raw' = [raw EXCEPT ![k.cell] =
               IF text = Measuring!Nothing /\ k.cell \in Measuring!Harness
               THEN raw[k.cell] ELSE text]
    BY <1>3 DEF Measuring!Exports
  <2>2. \/ text = dir[k.cell].units \/ text = dir[k.cell].main
        \/ \E u \in Units : text = [Measuring!Nothing EXCEPT ![u] = dir[k.cell].units[u]]
    BY ExportedIs
  <2>3. OfRun(dir[k.cell].units, k.run) /\ OfRun(dir[k.cell].main, k.run)
          => OfRun(text, k.run)
    <3>1. ASSUME NEW u \in Units, OfRun(dir[k.cell].units, k.run)
          PROVE  OfRun([Measuring!Nothing EXCEPT ![u] = dir[k.cell].units[u]], k.run)
      BY <3>1 DEF OfRun, Measuring!Nothing
    <3> QED
      BY <2>2, <3>1
  <2>4. raw'[k.cell] \in {raw[k.cell], text}
        /\ \A c \in SweepCell \ {k.cell} : raw'[c] = raw[c]
    BY <1>0, <2>1
  <2> QED
    BY <2>1, <2>3, <2>4
<1>4. CASE Measuring!Records(k) \/ Measuring!Fails(k)
  BY <1>4 DEF Measuring!Records, Measuring!Fails, Measuring!files
<1> QED
  BY <1>1, <1>2, <1>3, <1>4

LEMMA OwnFilesChild ==
    ASSUME SweepTyped, Attended, OwnFiles, NEW k \in children,
           \/ Measuring!Writes(k) \/ Measuring!Assembles(k) \/ Measuring!Exports(k)
           \/ Measuring!Records(k) \/ Measuring!Fails(k)
    PROVE  OwnFiles'
<1>0. sweep' = sweep /\ escaped' = escaped /\ rows' = rows
  BY ChildGoes
<1>1. sweep.cell \in SweepCell /\ (Fresh' <=> Fresh)
  BY <1>0, SweepFields DEF Fresh
<1>2. k.cell = sweep.cell /\ Fresh => sweep.at = "waiting" /\ k.run = sweep.run
  BY DEF Attended, Fresh
<1>3. k.cell # sweep.cell => dir'[sweep.cell] = dir[sweep.cell]
                              /\ raw'[sweep.cell] = raw[sweep.cell]
  BY <1>1, ChildFiles
<1>4. sweep.at \in Ran /\ Fresh =>
         /\ OfRun(dir[sweep.cell].units, sweep.run) /\ OfRun(dir[sweep.cell].main, sweep.run)
         /\ OfRun(raw[sweep.cell], sweep.run)
  BY DEF OwnFiles
<1>5. sweep.at \in Ran /\ Fresh =>
         /\ OfRun(dir'[sweep.cell].units, sweep.run) /\ OfRun(dir'[sweep.cell].main, sweep.run)
         /\ OfRun(raw'[sweep.cell], sweep.run)
  BY <1>2, <1>3, <1>4, ChildFiles DEF Ran
<1>6. sweep.at = "archive" /\ Fresh => dir'[sweep.cell] = dir[sweep.cell]
                                       /\ raw'[sweep.cell] = raw[sweep.cell]
  BY <1>2, <1>3
<1> QED
  BY <1>0, <1>1, <1>5, <1>6 DEF OwnFiles, OfRun

LEMMA OwnFilesStep ==
    ASSUME SweepTyped, OwnFiles, \A c \in SweepCell : Counted(c),
           Measuring!Begin \/ Measuring!Steps \/ Measuring!Crash \/ Measuring!Interrupt
    PROVE  OwnFiles'
<1>0. /\ sweep.cell \in SweepCell /\ runs \in 0..MaxRuns /\ MaxRuns \in Nat
      /\ rows \in Seq(Row)
  BY SweepFields DEF SweepTyped
<1>r. ASSUME rows' = rows, escaped \subseteq escaped'
      PROVE  \A i \in DOMAIN rows' :
               rows'[i].run # 0 /\ ~rows'[i].continued /\ rows'[i].cell \notin escaped' =>
                 OfRun(rows'[i].text, rows'[i].run)
  BY <1>r DEF OwnFiles
<1>1. CASE \/ Measuring!Begin \/ Measuring!Skip \/ Measuring!Predict \/ Measuring!Summarize
           \/ Measuring!Report \/ Measuring!Crash \/ Measuring!Interrupt
  <2>1. sweep'.at \in Rests /\ rows' = rows /\ escaped \subseteq escaped'
    BY <1>1, SweepRests
  <2>2. sweep'.at \notin Ran \cup {"archive", "waiting", "record", "score", "append"}
    BY <2>1 DEF Rests, Ran
  <2> QED
    BY <1>r, <2>1, <2>2 DEF OwnFiles, OfRun
<1>2. CASE Measuring!Take
  <2>1. /\ sweep'.mode = sweep.mode /\ sweep'.run = 0
        /\ sweep'.at \in {"archive", "harvest"}
        /\ sweep'.at = "harvest" <=> sweep.mode = "rescore"
        /\ sweep.mode \in {"plain", "resume"} =>
             \E i, j \in DOMAIN sweep'.left : sweep'.left[i] = "dir" /\ sweep'.left[j] = "raw"
        /\ UNCHANGED <<dir, raw, rows, escaped, cut>>
    BY <1>2, TakeGoes
  <2>2. sweep'.at = "harvest" => ~Fresh'
    BY <2>1 DEF Fresh
  <2>3. Fresh' => sweep.mode \in {"plain", "resume"}
    BY <2>1 DEF Fresh
  <2> QED
    BY <1>r, <2>1, <2>2, <2>3 DEF OwnFiles, Ran, OfRun
<1>3. CASE Measuring!Archive
  <2>1. /\ sweep.at = "archive" /\ sweep'.at = "archive" /\ sweep'.mode = sweep.mode
        /\ sweep'.cell = sweep.cell /\ sweep'.run = sweep.run
        /\ \A i \in DOMAIN sweep.left : sweep.left[i] # Head(sweep.left) =>
             \E j \in DOMAIN sweep'.left : sweep'.left[j] = sweep.left[i]
        /\ Head(sweep.left) = "dir" \/ dir' = dir
        /\ Head(sweep.left) = "raw" \/ raw' = raw
        /\ Head(sweep.left) = "dir" => dir'[sweep.cell] = Measuring!NoDir
        /\ Head(sweep.left) = "raw" => raw'[sweep.cell] = Measuring!Nothing
        /\ UNCHANGED <<rows, escaped, cut>>
    BY <1>3, ArchiveGoes
  <2>2. Fresh' <=> Fresh
    BY <2>1 DEF Fresh
  <2>3. ASSUME Fresh, \A j \in DOMAIN sweep'.left : sweep'.left[j] # "dir"
        PROVE  dir'[sweep.cell] = Measuring!NoDir
    BY <2>1, <2>3 DEF OwnFiles
  <2>4. ASSUME Fresh, \A j \in DOMAIN sweep'.left : sweep'.left[j] # "raw"
        PROVE  raw'[sweep.cell] = Measuring!Nothing
    BY <2>1, <2>4 DEF OwnFiles
  <2>5. Measuring!NoDir' = Measuring!NoDir /\ Measuring!Nothing' = Measuring!Nothing
    BY DEF Measuring!NoDir, Measuring!Nothing
  <2> QED
    BY <1>r, <2>1, <2>2, <2>3, <2>4, <2>5 DEF OwnFiles, Ran, OfRun
<1>4. CASE \/ Measuring!Launch \/ Measuring!Waited \/ Measuring!TimeOut \/ Measuring!Record
           \/ Measuring!WriteBack
  <2>0. /\ sweep'.mode = sweep.mode /\ sweep'.cell = sweep.cell /\ sweep'.text = sweep.text
        /\ UNCHANGED <<dir, raw, rows, escaped, cut>>
        /\ Fresh' <=> Fresh
    BY <1>4, RunGoes DEF Fresh
  <2>1. CASE /\ sweep.at = "archive" /\ sweep'.at = "waiting" /\ sweep'.run = runs + 1
             /\ sweep.left = <<>>
    <3>1. Fresh => dir[sweep.cell] = Measuring!NoDir /\ raw[sweep.cell] = Measuring!Nothing
      BY <2>1 DEF OwnFiles
    <3>2. \A u \in Units : Measuring!Nothing[u] = 0
      BY DEF Measuring!Nothing
    <3>3. \A r : OfRun(Measuring!Nothing, r)
      BY <3>2 DEF OfRun
    <3>4. Measuring!NoDir.units = Measuring!Nothing /\ Measuring!NoDir.main = Measuring!Nothing
      BY DEF Measuring!NoDir
    <3>5. Fresh => /\ OfRun(dir[sweep.cell].units, runs + 1)
                   /\ OfRun(dir[sweep.cell].main, runs + 1)
                   /\ OfRun(raw[sweep.cell], runs + 1)
      BY <3>1, <3>3, <3>4
    <3>6. runs + 1 # 0 /\ sweep.mode # "rescore"
      BY <1>0, <2>1 DEF OwnFiles
    <3> QED
      BY <1>r, <2>0, <2>1, <3>5, <3>6 DEF OwnFiles, Ran, OfRun
  <2>2. CASE /\ sweep'.run = sweep.run
             /\ \/ sweep.at = "waiting" /\ sweep'.at = "record"
                \/ sweep.at = "record" /\ sweep'.at = "harvest"
                \/ sweep.at = "score" /\ sweep'.at = "append"
    BY <1>r, <2>0, <2>2 DEF OwnFiles, Ran, OfRun
  <2> QED
    BY <1>4, <2>1, <2>2, RunGoes
<1>5. CASE Measuring!Harvest
  <2>1. /\ sweep.at = "harvest" /\ sweep'.at = "score" /\ sweep'.mode = sweep.mode
        /\ sweep'.cell = sweep.cell /\ sweep'.run = sweep.run
        /\ raw'[sweep.cell] = sweep'.text
        /\ sweep'.text \in {dir[sweep.cell].main, dir[sweep.cell].units, raw[sweep.cell]}
        /\ UNCHANGED <<dir, rows, escaped, cut>>
    BY <1>5, HarvestGoes
  <2>2. Fresh' <=> Fresh
    BY <2>1 DEF Fresh
  <2>3. Fresh => OfRun(sweep'.text, sweep.run)
    BY <2>1 DEF OwnFiles, Ran
  <2> QED
    BY <1>r, <2>1, <2>2, <2>3 DEF OwnFiles, Ran, OfRun
<1>6. CASE Measuring!AppendRow
  <2>1. PICK r \in Row :
           /\ rows' = Append(rows, r)
           /\ r.cell = sweep.cell /\ r.run = sweep.run /\ r.text = sweep.text
           /\ r.continued <=> sweep.mode = "continue"
           /\ sweep.at = "append" /\ sweep'.at = "cells"
           /\ UNCHANGED <<dir, raw, escaped, cut>>
    BY <1>0, <1>6, AppendGoes
  <2>2. ASSUME r.run # 0, ~r.continued, r.cell \notin escaped PROVE OfRun(r.text, r.run)
    <3>1. sweep.mode # "rescore" /\ sweep.mode # "continue"
      BY <2>1, <2>2 DEF OwnFiles, Ran
    <3>2. Fresh
      BY <2>1, <2>2, <3>1, SweepFields DEF Fresh, Measuring!Modes
    <3> QED
      BY <2>1, <3>2 DEF OwnFiles
  <2>3. \A i \in DOMAIN rows' : \/ i \in DOMAIN rows /\ rows'[i] = rows[i]
                                \/ rows'[i] = r
    BY <1>0, <2>1
  <2>4. \A i \in DOMAIN rows' :
               rows'[i].run # 0 /\ ~rows'[i].continued /\ rows'[i].cell \notin escaped' =>
                 OfRun(rows'[i].text, rows'[i].run)
    BY <2>1, <2>2, <2>3 DEF OwnFiles
  <2> QED
    BY <2>1, <2>4 DEF OwnFiles, Ran, OfRun
<1> QED
  BY <1>1, <1>2, <1>3, <1>4, <1>5, <1>6 DEF Measuring!Steps

-----------------------------------------------------------------------------
(* Sweep: attempts and what they were scored for.                          *)

LEMMA HarvestedSame ==
    ASSUME NEW c, dir'[c] = dir[c], raw'[c] = raw[c]
    PROVE  Measuring!Harvested(c)' = Measuring!Harvested(c)
BY DEF Measuring!Harvested

LEMMA HarvestsStep ==
    ASSUME SweepTyped, Attended, Harvests, \A c \in SweepCell : Counted(c), Measuring!Next
    PROVE  Harvests'
<1>0. sweep.cell \in SweepCell
  BY SweepFields
<1>1. PICK c \in SweepCell : c = sweep.cell
  BY <1>0
<1>2. ASSUME sweep'.at \notin {"score", "append"} PROVE Harvests'
  BY <1>2 DEF Harvests
<1>3. ASSUME NEW k \in children,
             \/ Measuring!Writes(k) \/ Measuring!Assembles(k) \/ Measuring!Exports(k)
             \/ Measuring!Records(k) \/ Measuring!Fails(k)
      PROVE  Harvests'
  <2>1. sweep' = sweep /\ escaped' = escaped
    BY <1>3, ChildGoes
  <2>2. SUFFICES ASSUME sweep.at \in {"score", "append"}, c \notin escaped
                 PROVE  raw'[c] = sweep.text /\ Measuring!Harvested(c)' = sweep.text
    BY <1>1, <2>1 DEF Harvests, Measuring!Harvested
  <2>3. k.cell # c
    BY <1>1, <2>2 DEF Attended
  <2>4. dir'[c] = dir[c] /\ raw'[c] = raw[c]
    BY <1>3, <2>3, ChildFiles
  <2> QED
    BY <1>1, <2>2, <2>4, HarvestedSame DEF Harvests
<1>4. CASE \/ Measuring!Begin \/ Measuring!Skip \/ Measuring!Predict \/ Measuring!Summarize
           \/ Measuring!Report \/ Measuring!Crash \/ Measuring!Interrupt
  BY <1>2, <1>4, SweepRests DEF Rests
<1>5. CASE Measuring!Take \/ Measuring!Archive
  BY <1>2, <1>5, TakeGoes, ArchiveGoes
<1>6. CASE \/ Measuring!Launch \/ Measuring!Waited \/ Measuring!TimeOut \/ Measuring!Record
           \/ Measuring!WriteBack
  <2>1. /\ sweep'.cell = sweep.cell /\ sweep'.text = sweep.text
        /\ UNCHANGED <<dir, raw, escaped>>
        /\ sweep'.at \in {"score", "append"} => sweep.at = "score"
    BY <1>6, RunGoes
  <2>2. Measuring!Harvested(c)' = Measuring!Harvested(c)
    BY <2>1, HarvestedSame
  <2> QED
    BY <1>1, <2>1, <2>2 DEF Harvests, Measuring!Harvested
<1>7. CASE Measuring!Harvest
  <2>1. /\ sweep'.cell = sweep.cell /\ raw'[sweep.cell] = sweep'.text
        /\ Measuring!Harvested(sweep.cell)' = sweep'.text
    BY <1>7, HarvestGoes
  <2> QED
    BY <2>1 DEF Harvests
<1>8. CASE Measuring!AppendRow
  BY <1>0, <1>2, <1>8, AppendGoes
<1> QED
  BY <1>3, <1>4, <1>5, <1>6, <1>7, <1>8 DEF Measuring!Next, Measuring!Child, Measuring!Steps

LEMMA AppendRows ==
    ASSUME SweepTyped, NEW r \in Row, rows' = Append(rows, r), NEW N, N = Len(rows) + 1
    PROVE  /\ N \in Nat /\ rows'[N] = r /\ Len(rows) \in Nat
           /\ \A c : \A i \in Measuring!RowsOf(c) :
                i \in Nat /\ i < N /\ rows'[i] = rows[i] /\ rows[i] \in Row
           /\ Measuring!RowsOf(r.cell)' = Measuring!RowsOf(r.cell) \cup {N}
           /\ \A c : c # r.cell => Measuring!RowsOf(c)' = Measuring!RowsOf(c)
<1>0. /\ rows \in Seq(Row) /\ Len(rows) \in Nat /\ rows' \in Seq(Row)
      /\ DOMAIN rows = 1..Len(rows) /\ DOMAIN rows' = 1..(Len(rows) + 1)
      /\ rows'[Len(rows) + 1] = r /\ \A i \in 1..Len(rows) : rows'[i] = rows[i]
  BY DEF SweepTyped
<1>1. \A c : Measuring!RowsOf(c)' = {i \in DOMAIN rows' : rows'[i].cell = c}
  BY DEF Measuring!RowsOf
<1>2. \A c : \A i \in Measuring!RowsOf(c) :
         i \in Nat /\ i < N /\ rows'[i] = rows[i] /\ rows[i] \in Row
  BY <1>0 DEF Measuring!RowsOf
<1>3. Measuring!RowsOf(r.cell)' = Measuring!RowsOf(r.cell) \cup {N}
  BY <1>0, <1>1 DEF Measuring!RowsOf
<1>4. \A c : c # r.cell => Measuring!RowsOf(c)' = Measuring!RowsOf(c)
  BY <1>0, <1>1 DEF Measuring!RowsOf
<1>5. N \in Nat /\ rows'[N] = r /\ Len(rows) \in Nat
  BY <1>0
<1> QED
  BY <1>2, <1>3, <1>4, <1>5, Zenon

LEMMA SameCardinal ==
    ASSUME NEW S PROVE Measuring!Cardinality(S) = Cardinality(S)
BY Zenon DEF Measuring!Cardinality, Cardinality

\* A new row is the last of its cell, in a new attempt if it is of a real run.
LEMMA CountedStep ==
    ASSUME SweepTyped, OwnFiles, NEW c \in SweepCell, Counted(c),
           Counted(sweep.cell), Measuring!AppendRow
    PROVE  Counted(c)'
<1>1. PICK r \in Row :
         /\ rows' = Append(rows, r)
         /\ r.cell = sweep.cell /\ r.run = sweep.run
         /\ r.attempt = Measuring!NextAttempt(sweep.cell, sweep.mode # "rescore")
         /\ sweep.at = "append"
  BY AppendGoes
<1>n. PICK N : N = Len(rows) + 1
  OBVIOUS
<1>2. /\ N \in Nat /\ rows'[N] = r /\ Len(rows) \in Nat
      /\ \A i \in Measuring!RowsOf(c) :
           i \in Nat /\ i < N /\ rows'[i] = rows[i] /\ rows[i] \in Row
      /\ Measuring!RowsOf(r.cell)' = Measuring!RowsOf(r.cell) \cup {N}
      /\ c # r.cell => Measuring!RowsOf(c)' = Measuring!RowsOf(c)
  BY <1>1, <1>n, AppendRows
<1>3. ASSUME NEW i \in Measuring!RowsOf(c), NEW j \in Measuring!RowsOf(c)
      PROVE  Real(c, i, j)' = Real(c, i, j)
  <2>1. Real(c, i, j)' = {k \in Measuring!RowsOf(c)' : i < k /\ k <= j /\ rows'[k].run # 0}
    BY DEF Real
  <2>2. \A k \in Measuring!RowsOf(c)' : k \in Measuring!RowsOf(c) \/ (k = N /\ ~(k <= j))
    BY <1>2
  <2>3. \A k \in Measuring!RowsOf(c) : k \in Measuring!RowsOf(c)' /\ rows'[k] = rows[k]
    BY <1>2
  <2> QED
    BY <2>1, <2>2, <2>3 DEF Real
<1>4. ASSUME NEW i \in Measuring!RowsOf(c), NEW j \in Measuring!RowsOf(c), i <= j
      PROVE  /\ IsFiniteSet(Real(c, i, j)')
             /\ rows'[j].attempt = rows'[i].attempt + Cardinality(Real(c, i, j)')
  <2>1. /\ IsFiniteSet(Real(c, i, j))
        /\ rows[j].attempt = rows[i].attempt + Cardinality(Real(c, i, j))
    BY <1>4 DEF Counted
  <2> QED
    BY <1>2, <1>3, <2>1
<1>5. CASE c # sweep.cell
  <2>1. Measuring!RowsOf(c)' = Measuring!RowsOf(c)
    BY <1>1, <1>2, <1>5
  <2> QED
    BY <1>4, <2>1 DEF Counted
<1>6. CASE c = sweep.cell
  <2>0. Measuring!RowsOf(c)' = Measuring!RowsOf(c) \cup {N}
    BY <1>1, <1>2, <1>6
  <2>1. N \in Measuring!RowsOf(c)' /\ \A i \in Measuring!RowsOf(c)' : i <= N
    BY <1>2, <2>0
  <2>2. r.run # 0 <=> sweep.mode # "rescore"
    BY <1>1 DEF OwnFiles, Ran
  <2>3. Real(c, N, N)' = {}
    <3>1. Real(c, N, N)' = {k \in Measuring!RowsOf(c)' : N < k /\ k <= N /\ rows'[k].run # 0}
      BY <1>1, <1>2 DEF Real
    <3> QED
      BY <1>2, <2>0, <3>1
  <2>4. ASSUME NEW i \in Measuring!RowsOf(c)
        PROVE  /\ IsFiniteSet(Real(c, i, N)')
               /\ rows'[N].attempt = rows'[i].attempt + Cardinality(Real(c, i, N)')
    <3>1. PICK n : LastOf(c, n)
      BY DEF Counted, LastOf
    <3>2. n \in Measuring!RowsOf(c) /\ i <= n /\ rows[n].attempt \in Nat
      BY <3>1, LastRow DEF LastOf
    <3>3. /\ IsFiniteSet(Real(c, i, n))
          /\ rows[n].attempt = rows[i].attempt + Cardinality(Real(c, i, n))
      BY <3>2 DEF Counted
    <3>4. r.attempt = IF sweep.mode # "rescore" THEN rows[n].attempt + 1 ELSE rows[n].attempt
      BY <1>1, <1>6, <3>1, NextAttemptIs
    <3>5. Real(c, i, N)' = Real(c, i, n) \cup (IF r.run # 0 THEN {N} ELSE {})
      <4>1. Real(c, i, N)' = {k \in Measuring!RowsOf(c)' : i < k /\ k <= N /\ rows'[k].run # 0}
        BY <1>1, <1>2 DEF Real
      <4>2. \A k \in Measuring!RowsOf(c) : k <= n /\ k <= N /\ rows'[k] = rows[k]
        BY <1>2, <3>1 DEF LastOf
      <4>3. i < N /\ N <= N /\ rows'[N] = r
        BY <1>2
      <4> QED
        BY <2>0, <4>1, <4>2, <4>3 DEF Real
    <3>6. N \notin Real(c, i, n)
      BY <1>2 DEF Real
    <3>7. /\ IsFiniteSet(Real(c, i, n) \cup {N})
          /\ Cardinality(Real(c, i, n) \cup {N}) = Cardinality(Real(c, i, n)) + 1
      BY <3>3, <3>6, FS_AddElement
    <3>8. Cardinality(Real(c, i, n)) \in Nat /\ rows[i].attempt \in Nat
      BY <1>2, <3>3, FS_CardinalityType DEF Row
    <3>9. CASE r.run # 0
      <4>1. Real(c, i, N)' = Real(c, i, n) \cup {N}
        BY <3>5, <3>9
      <4>2. /\ rows'[N].attempt = rows[n].attempt + 1
            /\ rows'[i].attempt = rows[i].attempt
        BY <1>2, <2>2, <3>4, <3>9
      <4>3. IsFiniteSet(Real(c, i, N)')
            /\ Cardinality(Real(c, i, N)') = Cardinality(Real(c, i, n)) + 1
        BY <3>7, <4>1
      <4> QED
        BY <3>3, <3>8, <4>2, <4>3
    <3>10. CASE ~(r.run # 0)
      BY <1>2, <2>2, <3>3, <3>4, <3>5, <3>8, <3>10
    <3> QED
      BY <3>9, <3>10
  <2>5. /\ IsFiniteSet(Real(c, N, N)')
        /\ rows'[N].attempt = rows'[N].attempt + Cardinality(Real(c, N, N)')
    <3>1. r.attempt \in Nat
      BY DEF Row
    <3> QED
      BY <1>2, <2>3, <3>1, FS_EmptySet
  <2>6. ASSUME NEW i \in Measuring!RowsOf(c)', NEW j \in Measuring!RowsOf(c)', i <= j
        PROVE  /\ IsFiniteSet(Real(c, i, j)')
               /\ rows'[j].attempt = rows'[i].attempt + Cardinality(Real(c, i, j)')
    <3>1. CASE i \in Measuring!RowsOf(c) /\ j \in Measuring!RowsOf(c)
      BY <1>4, <2>6, <3>1
    <3>2. CASE i \in Measuring!RowsOf(c) /\ j = N
      BY <2>4, <3>2
    <3>3. CASE i = N /\ j = N
      BY <2>5, <3>3
    <3>4. ~(i = N /\ j \in Measuring!RowsOf(c))
      BY <1>2, <2>6
    <3> QED
      BY <2>0, <3>1, <3>2, <3>3, <3>4
  <2> QED
    BY <2>1, <2>6 DEF Counted
<1> QED
  BY <1>5, <1>6

\* Rows that are there already, and a cell that is not under way, stay as they are.
LEMMA SettledFrame ==
    ASSUME SweepTyped, NEW c \in SweepCell, Settled(c), rows' = rows,
           \/ Renewed(c)'
           \/ ~Renewed(c) /\ raw'[c] = raw[c]
              /\ Measuring!Harvested(c)' = Measuring!Harvested(c)
    PROVE  Settled(c)'
<1>1. /\ Measuring!RowsOf(c)' = Measuring!RowsOf(c)
      /\ \A n : LastOf(c, n)' <=> LastOf(c, n)
  BY DEF Measuring!RowsOf, LastOf
<1> QED
  BY <1>1 DEF Settled

LEMMA SettledAppend ==
    ASSUME SweepTyped, OwnFiles, Harvests, NEW c \in SweepCell, Counted(c),
           Counted(sweep.cell), c \notin cut \cup escaped, Settled(c), Measuring!AppendRow
    PROVE  Settled(c)'
<1>1. PICK r \in Row :
         /\ rows' = Append(rows, r)
         /\ r.cell = sweep.cell /\ r.run = sweep.run /\ r.text = sweep.text
         /\ r.attempt = Measuring!NextAttempt(sweep.cell, sweep.mode # "rescore")
         /\ sweep.at = "append" /\ UNCHANGED <<dir, raw>>
  BY AppendGoes
<1>n. PICK N : N = Len(rows) + 1
  OBVIOUS
<1>2. /\ N \in Nat /\ rows'[N] = r /\ Len(rows) \in Nat
      /\ \A i \in Measuring!RowsOf(c) :
           i \in Nat /\ i < N /\ rows'[i] = rows[i] /\ rows[i] \in Row
      /\ Measuring!RowsOf(r.cell)' = Measuring!RowsOf(r.cell) \cup {N}
      /\ c # r.cell => Measuring!RowsOf(c)' = Measuring!RowsOf(c)
  <2>1. rows' = Append(rows, r)
    BY <1>1
  <2> QED
    BY <1>n, <2>1, AppendRows
<1>3. Measuring!Harvested(c)' = Measuring!Harvested(c) /\ raw'[c] = raw[c]
  BY <1>1, HarvestedSame
<1>4. \A n : LastOf(c, n)' <=> n \in Measuring!RowsOf(c)'
                                 /\ \A i \in Measuring!RowsOf(c)' : i <= n
  BY DEF LastOf
<1>5. CASE c # sweep.cell
  <2>1. Measuring!RowsOf(c)' = Measuring!RowsOf(c)
    BY <1>1, <1>2, <1>5
  <2>2. ~Renewed(c)
    BY <1>5 DEF Renewed
  <2>3. \A n : LastOf(c, n)' <=> LastOf(c, n)
    BY <1>4, <2>1 DEF LastOf
  <2>4. \A n \in Measuring!RowsOf(c)' : LastOf(c, n)' =>
           raw'[c] = rows'[n].text /\ Measuring!Harvested(c)' = rows'[n].text
    BY <1>2, <1>3, <2>1, <2>2, <2>3 DEF Settled
  <2>5. \A i, j \in Measuring!RowsOf(c)' :
           rows'[i].attempt = rows'[j].attempt => rows'[i].text = rows'[j].text
    BY <1>2, <2>1 DEF Settled
  <2> QED
    BY <2>4, <2>5 DEF Settled
<1>6. CASE c = sweep.cell
  <2>0. Measuring!RowsOf(c)' = Measuring!RowsOf(c) \cup {N}
    BY <1>1, <1>2, <1>6
  <2>1. raw[c] = r.text /\ Measuring!Harvested(c) = r.text
    BY <1>1, <1>6 DEF Harvests
  <2>2. \A n \in Measuring!RowsOf(c)' : LastOf(c, n)' => n = N
    <3>1. \A n \in Measuring!RowsOf(c) : ~(N <= n)
      BY <1>2
    <3> QED
      BY <1>4, <2>0, <3>1
  <2>3. \A n \in Measuring!RowsOf(c)' : LastOf(c, n)' =>
           raw'[c] = rows'[n].text /\ Measuring!Harvested(c)' = rows'[n].text
    BY <1>2, <1>3, <2>1, <2>2
  \* An older row of the new row's attempt: then nothing has run, and its text is still there.
  <2>4. ASSUME NEW i \in Measuring!RowsOf(c), rows[i].attempt = r.attempt
        PROVE  rows[i].text = r.text
    <3>1. PICK n : LastOf(c, n)
      BY DEF Counted, LastOf
    <3>2. /\ n \in Measuring!RowsOf(c) /\ rows[n].attempt \in Nat
          /\ rows[i].attempt <= rows[n].attempt /\ rows[i].attempt \in Nat
      BY <1>2, <3>1, LastRow DEF LastOf, Row
    <3>3. r.attempt = IF sweep.mode # "rescore" THEN rows[n].attempt + 1 ELSE rows[n].attempt
      BY <1>1, <1>6, <3>1, NextAttemptIs
    <3>4. sweep.mode = "rescore" /\ rows[i].attempt = rows[n].attempt
      BY <2>4, <3>2, <3>3
    <3>5. ~Renewed(c)
      BY <3>4 DEF Renewed
    <3>6. raw[c] = rows[n].text /\ rows[i].text = rows[n].text
      BY <3>1, <3>2, <3>4, <3>5 DEF Settled
    <3> QED
      BY <2>1, <3>6
  <2>5. ASSUME NEW i \in Measuring!RowsOf(c)', NEW j \in Measuring!RowsOf(c)',
               rows'[i].attempt = rows'[j].attempt
        PROVE  rows'[i].text = rows'[j].text
    <3>1. CASE i \in Measuring!RowsOf(c) /\ j \in Measuring!RowsOf(c)
      BY <1>2, <2>5, <3>1 DEF Settled
    <3>2. CASE i \in Measuring!RowsOf(c) /\ j = N
      BY <1>2, <2>4, <2>5, <3>2
    <3>3. CASE i = N /\ j \in Measuring!RowsOf(c)
      BY <1>2, <2>4, <2>5, <3>3
    <3>4. CASE i = N /\ j = N
      BY <3>4
    <3> QED
      BY <2>0, <3>1, <3>2, <3>3, <3>4
  <2> QED
    BY <2>3, <2>5 DEF Settled
<1> QED
  BY <1>5, <1>6

LEMMA SettledStep ==
    ASSUME SweepTyped, Attended, OwnFiles, Harvests, NEW c \in SweepCell,
           Counted(c), Counted(sweep.cell), c \notin cut \cup escaped, Settled(c),
           Measuring!Next, c \notin cut' \cup escaped'
    PROVE  Settled(c)'
<1>0. sweep.cell \in SweepCell
  BY SweepFields
<1>1. ASSUME NEW k \in children,
             \/ Measuring!Writes(k) \/ Measuring!Assembles(k) \/ Measuring!Exports(k)
             \/ Measuring!Records(k) \/ Measuring!Fails(k)
      PROVE  Settled(c)'
  <2>1. sweep' = sweep /\ rows' = rows
    BY <1>1, ChildGoes
  <2>2. Renewed(c)' <=> Renewed(c)
    BY <2>1 DEF Renewed
  <2>3. CASE k.cell = c
    <3>1. sweep.at = "waiting" /\ sweep.cell = c
      BY <2>3 DEF Attended
    <3>2. Renewed(c)
      BY <3>1 DEF Renewed, OwnFiles
    <3> QED
      BY <2>1, <2>2, <3>2, SettledFrame
  <2>4. CASE k.cell # c
    <3>1. dir'[c] = dir[c] /\ raw'[c] = raw[c]
      BY <1>1, <2>4, ChildFiles
    <3> QED
      BY <2>1, <2>2, <3>1, HarvestedSame, SettledFrame
  <2> QED
    BY <2>3, <2>4
<1>2. CASE \/ Measuring!Begin \/ Measuring!Skip \/ Measuring!Predict \/ Measuring!Summarize
           \/ Measuring!Report \/ Measuring!Crash \/ Measuring!Interrupt
  <2>1. UNCHANGED <<dir, raw, rows>> /\ (sweep.at \notin Rests => sweep.cell \in cut')
    BY <1>2, SweepRests
  <2>2. ~Renewed(c)
    BY <2>1 DEF Renewed, Rests
  <2> QED
    BY <2>1, <2>2, HarvestedSame, SettledFrame
<1>3. CASE Measuring!Take
  <2>1. UNCHANGED <<dir, raw, rows>> /\ sweep.at = "cells"
    BY <1>3, TakeGoes
  <2>2. ~Renewed(c)
    BY <2>1 DEF Renewed
  <2> QED
    BY <2>1, <2>2, HarvestedSame, SettledFrame
<1>4. CASE Measuring!Archive
  <2>1. /\ sweep.at = "archive" /\ sweep'.at = "archive" /\ sweep'.mode = sweep.mode
        /\ sweep'.cell = sweep.cell /\ rows' = rows
        /\ \A x \in SweepCell \ {sweep.cell} : dir'[x] = dir[x] /\ raw'[x] = raw[x]
    BY <1>4, ArchiveGoes
  <2>2. CASE sweep.cell = c
    BY <2>1, <2>2, SettledFrame DEF Renewed, OwnFiles
  <2>3. CASE sweep.cell # c
    <3>1. dir'[c] = dir[c] /\ raw'[c] = raw[c] /\ ~Renewed(c)
      BY <2>1, <2>3 DEF Renewed
    <3> QED
      BY <2>1, <3>1, HarvestedSame, SettledFrame
  <2> QED
    BY <2>2, <2>3
<1>5. CASE \/ Measuring!Launch \/ Measuring!Waited \/ Measuring!TimeOut \/ Measuring!Record
           \/ Measuring!WriteBack
  <2>1. /\ sweep'.mode = sweep.mode /\ sweep'.cell = sweep.cell
        /\ UNCHANGED <<dir, raw, rows>>
        /\ {sweep.at, sweep'.at} \subseteq {"archive", "waiting", "record", "harvest", "score",
                                            "append"}
    BY <1>5, RunGoes
  <2>2. Renewed(c)' <=> Renewed(c)
    BY <2>1 DEF Renewed
  <2> QED
    BY <2>1, <2>2, HarvestedSame, SettledFrame
<1>6. CASE Measuring!Harvest
  <2>1. /\ sweep.at = "harvest" /\ sweep'.at = "score" /\ sweep'.mode = sweep.mode
        /\ sweep'.cell = sweep.cell
        /\ sweep'.text = Measuring!Harvested(sweep.cell) /\ raw'[sweep.cell] = sweep'.text
        /\ Measuring!Harvested(sweep.cell)' = sweep'.text
        /\ \A x \in SweepCell \ {sweep.cell} : raw'[x] = raw[x]
        /\ UNCHANGED <<dir, rows>>
    BY <1>6, HarvestGoes
  <2>2. Renewed(c)' <=> Renewed(c)
    BY <2>1 DEF Renewed
  <2>3. CASE Renewed(c)
    BY <2>1, <2>2, <2>3, SettledFrame
  <2>4. CASE ~Renewed(c) /\ sweep.cell # c
    <3>1. dir'[c] = dir[c] /\ raw'[c] = raw[c]
      BY <2>1, <2>4
    <3> QED
      BY <2>1, <2>4, <3>1, HarvestedSame, SettledFrame
  <2>5. CASE ~Renewed(c) /\ sweep.cell = c
    <3>1. \A n \in Measuring!RowsOf(c) : LastOf(c, n) =>
             raw'[c] = rows[n].text /\ Measuring!Harvested(c)' = rows[n].text
      BY <2>1, <2>5 DEF Settled, Measuring!Harvested
    <3>2. /\ Measuring!RowsOf(c)' = Measuring!RowsOf(c)
          /\ \A n : LastOf(c, n)' <=> LastOf(c, n)
      BY <2>1 DEF Measuring!RowsOf, LastOf
    <3> QED
      BY <2>1, <3>1, <3>2 DEF Settled
  <2> QED
    BY <2>3, <2>4, <2>5
<1>7. CASE Measuring!AppendRow
  BY <1>7, SettledAppend
<1> QED
  BY <1>1, <1>2, <1>3, <1>4, <1>5, <1>6, <1>7
  DEF Measuring!Next, Measuring!Child, Measuring!Steps

-----------------------------------------------------------------------------
(* Sweep: the invariant is inductive.                                      *)

LEMMA CountedStays ==
    ASSUME NEW c, Counted(c), rows' = rows
    PROVE  Counted(c)'
<1>1. Measuring!RowsOf(c)' = Measuring!RowsOf(c)
  BY DEF Measuring!RowsOf
<1>2. \A i, j : Real(c, i, j)' = Real(c, i, j)
  BY <1>1 DEF Real
<1> QED
  BY <1>1, <1>2 DEF Counted

\* Only AppendRow adds a row, and nothing forgets a kill.
LEMMA SweepKeeps ==
    ASSUME SweepTyped, \A c \in SweepCell : Counted(c), Measuring!Next
    PROVE  /\ rows' = rows \/ Measuring!AppendRow
           /\ cut \subseteq cut' /\ escaped \subseteq escaped'
<1>1. CASE Measuring!Child
  BY <1>1, ChildGoes DEF Measuring!Child
<1>2. CASE \/ Measuring!Begin \/ Measuring!Skip \/ Measuring!Predict \/ Measuring!Summarize
           \/ Measuring!Report \/ Measuring!Crash \/ Measuring!Interrupt
  BY <1>2, SweepRests
<1>3. CASE Measuring!Take
  BY <1>3, TakeGoes
<1>4. CASE Measuring!Archive
  BY <1>4, ArchiveGoes
<1>5. CASE \/ Measuring!Launch \/ Measuring!Waited \/ Measuring!TimeOut \/ Measuring!Record
           \/ Measuring!WriteBack
  BY <1>5, RunGoes
<1>6. CASE Measuring!Harvest
  BY <1>6, HarvestGoes
<1>7. CASE Measuring!AppendRow
  BY <1>7, SweepFields, AppendGoes
<1> QED
  BY <1>1, <1>2, <1>3, <1>4, <1>5, <1>6, <1>7 DEF Measuring!Next, Measuring!Steps

LEMMA SweepStep == SweepInv /\ Measuring!Next => SweepInv'
<1> SUFFICES ASSUME SweepInv, Measuring!Next PROVE SweepInv'
  OBVIOUS
<1>1. /\ SweepTyped /\ Budgeted /\ Attended /\ OwnFiles /\ Harvests
      /\ \A c \in SweepCell : Counted(c)
      /\ \A c \in SweepCell : c \notin cut \cup escaped => Settled(c)
      /\ sweep.cell \in SweepCell
  BY SweepFields DEF SweepInv
<1>2. SweepTyped' /\ Budgeted' /\ Attended' /\ OwnFiles'
  <2>1. ASSUME NEW k \in children,
               \/ Measuring!Writes(k) \/ Measuring!Assembles(k) \/ Measuring!Exports(k)
               \/ Measuring!Records(k) \/ Measuring!Fails(k)
        PROVE  SweepTyped' /\ Budgeted' /\ Attended' /\ OwnFiles'
    <3>1. SweepTyped' /\ Attended' /\ OwnFiles'
      BY <1>1, <2>1, ChildTypes, ChildAttended, OwnFilesChild
    <3>2. sweep' = sweep /\ runs' = runs
      BY <1>1, <2>1, ChildGoes
    <3> QED
      BY <1>1, <3>1, <3>2 DEF Budgeted
  <2>2. CASE Measuring!Begin \/ Measuring!Steps \/ Measuring!Crash \/ Measuring!Interrupt
    BY <1>1, <2>2, SweepTypes, SweepAttended, OwnFilesStep
  <2> QED
    BY <2>1, <2>2 DEF Measuring!Next, Measuring!Child
<1>3. Harvests'
  BY <1>1, HarvestsStep
<1>4. ASSUME NEW c \in SweepCell PROVE Counted(c)'
  <2>1. CASE rows' = rows
    BY <1>1, <2>1, CountedStays
  <2>2. CASE Measuring!AppendRow
    BY <1>1, <2>2, CountedStep
  <2> QED
    BY <1>1, <2>1, <2>2, SweepKeeps
<1>5. ASSUME NEW c \in SweepCell, c \notin cut' \cup escaped' PROVE Settled(c)'
  <2>1. c \notin cut \cup escaped
    BY <1>1, <1>5, SweepKeeps
  <2> QED
    BY <1>1, <1>5, <2>1, SettledStep
<1>6. SweepCell' = SweepCell
  BY DEF SweepCell, Measuring!Cells
<1> QED
  BY <1>2, <1>3, <1>4, <1>5, <1>6 DEF SweepInv

LEMMA SweepStart == Measuring!Init => SweepInv
<1> SUFFICES ASSUME Measuring!Init PROVE SweepInv
  OBVIOUS
<1>1. /\ dir = [c \in SweepCell |-> Measuring!NoDir]
      /\ raw = [c \in SweepCell |-> Measuring!Nothing]
      /\ bench = [c \in SweepCell |-> "none"] /\ rows = <<>> /\ children = {}
      /\ sweep = Measuring!Idle /\ runs = 0 /\ kills = 0 /\ cut = {} /\ escaped = {}
      /\ sweep.at = "idle" /\ sweep.run = 0 /\ sweep \in SweepRecord
  BY SweepIdle DEF Measuring!Init, SweepCell
<1>2. SweepTyped
  <2>1. rows \in Seq(Row) /\ runs \in 0..MaxRuns
    BY <1>1, SweepBounds
  <2>2. /\ dir \in [SweepCell -> [units : UnitText, main : UnitText]]
        /\ raw \in [SweepCell -> UnitText]
        /\ bench \in [SweepCell -> {"none", "partial", "ran", "scored"}]
    BY <1>1, SweepIdle
  <2> QED
    BY <1>1, <2>1, <2>2 DEF SweepTyped
<1>3. Budgeted /\ OwnFiles /\ Harvests
  BY <1>1 DEF Budgeted, OwnFiles, Harvests, Ran
<1>4. Attended
  BY <1>1, FS_EmptySet DEF Attended
<1>5. \A c \in SweepCell : Measuring!RowsOf(c) = {}
  BY <1>1 DEF Measuring!RowsOf
<1>6. \A c \in SweepCell : Counted(c) /\ Settled(c)
  BY <1>5 DEF Counted, Settled
<1> QED
  BY <1>2, <1>3, <1>4, <1>6 DEF SweepInv

LEMMA SweepStutter == SweepInv /\ UNCHANGED sweepVars => SweepInv'
<1> SUFFICES ASSUME SweepInv, UNCHANGED sweepVars PROVE SweepInv'
  OBVIOUS
<1>1. /\ dir' = dir /\ raw' = raw /\ bench' = bench /\ rows' = rows /\ children' = children
      /\ sweep' = sweep /\ runs' = runs /\ kills' = kills /\ cut' = cut /\ escaped' = escaped
  BY DEF sweepVars
<1>2. SweepTyped' /\ Budgeted' /\ OwnFiles'
  BY <1>1 DEF SweepInv, SweepTyped, Budgeted, OwnFiles, Fresh, OfRun
<1>3. Attended'
  BY <1>1 DEF SweepInv, Attended, Measuring!Own
<1>4. Harvests'
  BY <1>1 DEF SweepInv, Harvests, Measuring!Harvested
<1>5. ASSUME NEW c \in SweepCell
      PROVE  Counted(c)' /\ (c \notin cut' \cup escaped' => Settled(c)')
  <2>1. Counted(c)'
    BY <1>1, CountedStays DEF SweepInv
  <2>2. c \notin cut \cup escaped => Settled(c)'
    <3>1. Renewed(c)' <=> Renewed(c)
      BY <1>1 DEF Renewed
    <3> QED
      BY <1>1, <3>1, HarvestedSame, SettledFrame DEF SweepInv
  <2> QED
    BY <1>1, <2>1, <2>2
<1>6. SweepCell' = SweepCell
  BY DEF SweepCell, Measuring!Cells
<1> QED
  BY <1>2, <1>3, <1>4, <1>5, <1>6 DEF SweepInv

-----------------------------------------------------------------------------
(* Sweep: what the invariant says.                                         *)

LEMMA SweepShowsTypes == SweepInv => Measuring!TypeOK
<1> SUFFICES ASSUME SweepInv PROVE Measuring!TypeOK
  OBVIOUS
<1>1. Cardinality(children) <= 1 + kills
  <2>1. Cardinality(children) \in Nat /\ kills \in Nat
    BY FS_CardinalityType DEF SweepInv, Attended, SweepTyped
  <2> QED
    BY <2>1 DEF SweepInv, Attended
<1>2. Measuring!Cardinality(children) <= 1 + kills
  BY <1>1, SameCardinal
<1>3. \A c \in SweepCell : dir[c].units \in UnitText /\ dir[c].main \in UnitText
                             /\ raw[c] \in UnitText
  BY DEF SweepInv, SweepTyped
<1>4. \A c \in SweepCell : bench[c] \in {"none", "partial", "ran", "scored"}
  BY DEF SweepInv, SweepTyped
<1>5. runs \in 0..MaxRuns /\ sweep.run \in 0..runs
  BY SweepFields DEF SweepInv, SweepTyped
<1> QED
  BY <1>2, <1>3, <1>4, <1>5 DEF Measuring!TypeOK, SweepCell, UnitText

LEMMA SweepShowsRuns == SweepInv => Measuring!MeasuresItsRun
<1> SUFFICES ASSUME SweepInv, NEW r \in Measuring!ToSet(rows),
                    r.run # 0, ~r.continued, r.cell \notin escaped
             PROVE  OfRun(r.text, r.run)
  BY DEF Measuring!MeasuresItsRun, OfRun
<1>1. PICK i \in DOMAIN rows : r = rows[i]
  BY DEF Measuring!ToSet
<1> QED
  BY <1>1 DEF SweepInv, OwnFiles

LEMMA SweepShowsPredictions == SweepInv => Measuring!PredictsWhatItScored
<1> SUFFICES ASSUME SweepInv, sweep.at = "summary",
                    NEW c \in Measuring!Measured \ (cut \cup escaped)
             PROVE  raw[c] = Measuring!LatestRow(c).text
  BY DEF Measuring!PredictsWhatItScored
<1>1. c \in SweepCell /\ Measuring!RowsOf(c) # {}
  BY DEF Measuring!Measured, SweepCell
<1>2. SweepTyped /\ Counted(c) /\ Settled(c) /\ ~Renewed(c)
  BY <1>1 DEF SweepInv, Renewed
<1>3. PICK n : LastOf(c, n)
  BY <1>1, <1>2 DEF Counted, LastOf
<1>4. raw[c] = rows[n].text
  BY <1>2, <1>3 DEF Settled, LastOf
<1>5. Measuring!LatestRow(c) = rows[n]
  BY <1>2, <1>3, LastRow
<1> QED
  BY <1>4, <1>5

LEMMA SweepShowsAttempts == SweepInv => Measuring!AttemptsAreRuns
<1> SUFFICES ASSUME SweepInv, NEW c \in SweepCell,
                    NEW i \in Measuring!RowsOf(c), NEW j \in Measuring!RowsOf(c)
             PROVE  /\ i < j => rows[j].attempt = rows[i].attempt
                          + Measuring!Cardinality({k \in Measuring!RowsOf(c) :
                                i < k /\ k <= j /\ rows[k].run # 0})
                    /\ c \notin cut \cup escaped /\ rows[i].attempt = rows[j].attempt
                         => rows[i].text = rows[j].text
  BY DEF Measuring!AttemptsAreRuns, SweepCell
<1>1. i \in Nat /\ j \in Nat
  BY DEF SweepInv, SweepTyped, Measuring!RowsOf
<1>2. i < j => rows[j].attempt = rows[i].attempt + Cardinality(Real(c, i, j))
  BY <1>1 DEF SweepInv, Counted
<1>3. Measuring!Cardinality(Real(c, i, j)) = Cardinality(Real(c, i, j))
  BY SameCardinal
<1>4. c \notin cut \cup escaped /\ rows[i].attempt = rows[j].attempt
        => rows[i].text = rows[j].text
  BY DEF SweepInv, Settled
<1> QED
  BY <1>2, <1>3, <1>4 DEF Real

LEMMA SweepInductive == MCSpec => []SweepInv
<1>1. MCInit => SweepInv
  BY SweepStart DEF MCInit
<1>2. SweepInv /\ [MCNext]_allVars => SweepInv'
  <2> SUFFICES ASSUME SweepInv, [MCNext]_allVars PROVE SweepInv'
    OBVIOUS
  <2>1. Measuring!Next \/ UNCHANGED sweepVars
    BY DEF MCNext, allVars
  <2> QED
    BY <2>1, SweepStep, SweepStutter
<1> QED
  BY <1>1, <1>2, PTL DEF MCSpec

\* A row of the benchmark measures the run it is of: whatever a killed, resumed, continued or
\* re-scored sweep left in the run directory, in raw/ or in the workspace, for every matrix
\* of cells and every number of runs, sweeps and kills (run_longgen_bench.py:333-411,
\* 1065-1141).
THEOREM SweepScoresItsRuns == MCSpec => []ScoresItsRun
<1>1. SweepInv => ScoresItsRun
  BY SweepShowsTypes, SweepShowsRuns, SweepShowsPredictions, SweepShowsAttempts
  DEF ScoresItsRun
<1> QED
  BY <1>1, SweepInductive, PTL
===============================================================================
