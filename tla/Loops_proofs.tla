------------------------------ MODULE Loops_proofs ------------------------------
(***************************************************************************)
(* Theorems about the branches of run_round_loop that retry a node in      *)
(* place, RefillLoop and SerialLoop, for every tree without splitters and  *)
(* every value of the constants: both implement the life cycle that        *)
(* RoundLoop_proofs shows of the event-driven branch, and refill_loop      *)
(* leaves no slot idle.                                                    *)
(*                                                                         *)
(* Neither branch has any memory of its own between two awaits: a step     *)
(* reads the disk, changes one node or hands out a wave, and writes it     *)
(* back (TreeMoves).  The inductive invariants say which node a job, or a   *)
(* place in the resume queue, stands for.                                  *)
(***************************************************************************)
EXTENDS MCLoops, RoundLoop_proofs, WellFoundedInduction

-----------------------------------------------------------------------------
(* The steps of the durable tree, of a loop with so many slots. *)

Tree == [LoopNode -> NodeState]
HandedOut == {n \in LoopNode : disk[n].status = "dispatched"}

Startable(n) ==
    /\ disk[n].status = "pending" /\ disk[n].attempts < MaxAttempts
    /\ \A k \in LoopDependsOn[n] : disk[k].status = "passed"

HandsOut(S, slots) ==
    /\ S # {} /\ S \subseteq LoopNode /\ \A n \in S : Startable(n)
    /\ Cardinality(HandedOut \cup S) <= slots
    /\ \A n \in LoopNode : disk'[n] = IF n \in S THEN [disk[n] EXCEPT !.status = "dispatched"]
                                                 ELSE disk[n]

Settles(n) ==
    /\ \A k \in LoopNode : k # n => disk'[k] = disk[k]
    /\ disk[n].attempts < MaxAttempts
    /\ \/ disk[n].status = "dispatched" /\ WriterMoves(disk[n], disk'[n])
       \/ disk[n].status = "awaiting_review" /\ ReviewMoves(disk[n], disk'[n])

TreeMoves(slots) ==
    \/ disk' = disk
    \/ \E S \in SUBSET LoopNode : HandsOut(S, slots)
    \/ \E n \in LoopNode : Settles(n)

-----------------------------------------------------------------------------
(* What the branches share is the same operator in each. *)

LEMMA SameTypes ==
    /\ Refill!NodeState = NodeState /\ Serial!NodeState = NodeState
    /\ Refill!FreshNode = FreshNode /\ Serial!FreshNode = FreshNode
BY Zenon DEF Refill!NodeState, Serial!NodeState, NodeState, Refill!Status, Serial!Status, Status,
       Refill!InFlightStatus, Serial!InFlightStatus, InFlightStatus, Refill!Defect,
       Serial!Defect, Defect, Refill!FreshNode, Serial!FreshNode, FreshNode

LEMMA SameTransitions ==
    ASSUME NEW x, NEW o
    PROVE  /\ Refill!Charge(x) = Charge(x) /\ Refill!Accept(x) = Accept(x)
           /\ Refill!Requeue(x) = Requeue(x) /\ Refill!NonAttempt(x, o) = NonAttempt(x, o)
           /\ Refill!AfterReview(x, o) = AfterReview(x, o)
<1>1. /\ Refill!Charge(x) = Charge(x) /\ Refill!Accept(x) = Accept(x)
      /\ Refill!Requeue(x) = Requeue(x)
  BY Zenon DEF Refill!Charge, Charge, Refill!Accept, Accept, Refill!Requeue, Requeue
<1>2. Refill!NonAttempt(x, o) = NonAttempt(x, o)
  BY Zenon DEF Refill!NonAttempt, NonAttempt, Refill!NonAttemptCapReached, NonAttemptCapReached
<1>3. Refill!AfterReview(x, o) = AfterReview(x, o)
  BY <1>1, Zenon DEF Refill!AfterReview, AfterReview
<1> QED
  BY <1>1, <1>2, <1>3

LEMMA SameInSerial ==
    ASSUME NEW x, NEW o
    PROVE  /\ Serial!AfterWriter(x, o) = Refill!AfterWriter(x, o)
           /\ Serial!AfterReview(x, o) = Refill!AfterReview(x, o)
<1>1. /\ Serial!Charge(x) = Refill!Charge(x) /\ Serial!Accept(x) = Refill!Accept(x)
      /\ Serial!Requeue(x) = Refill!Requeue(x)
  BY Zenon DEF Refill!Charge, Serial!Charge, Refill!Accept, Serial!Accept, Refill!Requeue,
               Serial!Requeue
<1> QED
  BY <1>1, Zenon
     DEF Serial!AfterWriter, Refill!AfterWriter, Serial!AfterReview, Refill!AfterReview,
         Serial!Charge, Refill!Charge, Serial!Accept, Refill!Accept, Serial!Requeue,
         Refill!Requeue, Serial!NonAttempt, Refill!NonAttempt, Serial!NonAttemptCapReached,
         Refill!NonAttemptCapReached, Serial!NonAttemptStatus, Refill!NonAttemptStatus,
         Serial!Accepted, Refill!Accepted, Serial!Salvaged, Refill!Salvaged,
         Serial!RestoredComplete, Refill!RestoredComplete, Serial!Nudged, Refill!Nudged,
         Serial!Progressed, Refill!Progressed

LEMMA SameRequeue == ASSUME NEW x PROVE Serial!Requeue(x) = Refill!Requeue(x)
BY Zenon DEF Refill!Requeue, Serial!Requeue

LEMMA SameSync ==
    ASSUME NEW t, NEW u, NEW S
    PROVE  Serial!SyncTree(t, u, S) = Refill!SyncTree(t, u, S)
BY Zenon DEF Serial!SyncTree, Refill!SyncTree, Serial!SyncNode, Refill!SyncNode,
             Serial!InFlightStatus, Refill!InFlightStatus

-----------------------------------------------------------------------------
(* What the transitions make of a node, and the write back of one. *)

LEMMA EpisodeLeaves ==
    ASSUME NEW x \in NodeState, NEW o
    PROVE  /\ Refill!AfterWriter(x, o).node \in NodeState
           /\ WriterMoves(x, Refill!AfterWriter(x, o).node)
           /\ Refill!AfterWriter(x, o).node.status \notin {"dispatched", "absent"}
           /\ Refill!AfterWriter(x, o).node.defect = "throttled"
                => Refill!AfterWriter(x, o).node.status = "pending"
<1> DEFINE base == [x EXCEPT !.nudges = 0,
                             !.nonAttempts = IF o.status \in Refill!NonAttemptStatus THEN @ ELSE 0]
           Good(y) == /\ y \in NodeState /\ WriterMoves(x, y)
                      /\ y.status \notin {"dispatched", "absent"}
                      /\ y.defect = "throttled" => y.status = "pending"
<1>1. base \in NodeState /\ base.attempts = x.attempts
  BY DEF NodeState
<1> HIDE DEF base
<1>2. Good(Charge(base))
  BY <1>1, ChargeMoves, TransitionTypes DEF WriterMoves, Charged, Charge, NodeState
<1>3. Good(Accept(base)) /\ Good(Requeue(base))
  BY <1>1, TransitionTypes DEF WriterMoves, Accept, Requeue, NodeState
<1>4. Good([Requeue(base) EXCEPT !.nudges = x.nudges + 1])
  <2>1. Requeue(base) \in NodeState /\ x.nudges + 1 \in Nat
    BY <1>1, TransitionTypes DEF NodeState
  <2> DEFINE r == [Requeue(base) EXCEPT !.nudges = x.nudges + 1]
  <2>2. r \in NodeState
    BY <2>1 DEF NodeState
  <2>3. r.status = "pending" /\ r.attempts = x.attempts
    BY <1>1, <2>1 DEF Requeue, NodeState
  <2> HIDE DEF r
  <2>4. Good(r)
    BY <2>2, <2>3 DEF WriterMoves
  <2> QED
    BY <2>4 DEF r
<1>5. Good(NonAttempt(base, o))
  <2>1. NonAttempt(base, o) \in NodeState
    BY <1>1, TransitionTypes
  <2> QED
    BY <1>1, <2>1 DEF WriterMoves, NonAttempt, NodeState
<1> HIDE DEF Good
<1>6. Good(Refill!AfterWriter(x, o).node)
  BY <1>2, <1>3, <1>4, <1>5, SameTransitions DEF Refill!AfterWriter, base
<1> QED
  BY <1>6 DEF Good

LEMMA RequeueLeaves ==
    ASSUME NEW x \in NodeState
    PROVE  /\ Refill!Requeue(x) \in NodeState /\ WriterMoves(x, Refill!Requeue(x))
           /\ Refill!Requeue(x).status = "pending"
<1>1. Refill!Requeue(x) = Requeue(x)
  BY SameTransitions
<1> QED
  BY <1>1, TransitionTypes DEF WriterMoves, Requeue, NodeState

LEMMA ReviewLeaves ==
    ASSUME NEW x \in NodeState, NEW verdict
    PROVE  /\ Refill!AfterReview(x, verdict).node \in NodeState
           /\ ReviewMoves(x, Refill!AfterReview(x, verdict).node)
           /\ Refill!AfterReview(x, verdict).node.status \notin {"dispatched", "absent"}
<1>1. Refill!AfterReview(x, verdict) = AfterReview(x, verdict)
  BY SameTransitions
<1>2. AfterReview(x, verdict).node.status \notin {"dispatched", "absent"}
  BY DEF AfterReview, Charge, NodeState
<1> QED
  BY <1>1, <1>2, AfterReviewType, AfterReviewMoves

LEMMA WriteBackType ==
    ASSUME NEW t \in Tree, NEW u \in Tree, NEW skip
    PROVE  Refill!SyncTree(t, u, skip) \in Tree
<1>1. ASSUME NEW n \in LoopNode PROVE Refill!SyncNode(t[n], u[n]) \in NodeState
  BY DEF Refill!SyncNode, Tree, NodeState, Status, InFlightStatus, Defect
<1> QED
  BY <1>1 DEF Refill!SyncTree, Tree

LEMMA WriteBackSame ==
    ASSUME NEW t \in Tree, NEW skip
    PROVE  Refill!SyncTree(t, t, skip) = t
<1>1. \A x \in NodeState : Refill!SyncNode(x, x) = x
  BY DEF Refill!SyncNode, NodeState, Refill!InFlightStatus
<1> QED
  BY <1>1 DEF Refill!SyncTree, Tree

(* Whatever is in flight on the disk, or was just sent out, is written back
   as it is in memory.                                                      *)
LEMMA WriteBack ==
    ASSUME NEW t \in Tree, NEW u \in Tree,
           \A n \in LoopNode : \/ t[n] = u[n]
                               \/ u[n].status \in InFlightStatus /\ t[n].status # "absent"
                               \/ u[n].status = "pending" /\ t[n].status = "dispatched"
    PROVE  Refill!SyncTree(t, u, {}) = t
<1>1. ASSUME NEW n \in LoopNode PROVE Refill!SyncTree(t, u, {})[n] = t[n]
  <2>1. t[n] \in NodeState /\ u[n] \in NodeState
    BY DEF Tree
  <2>2. CASE t[n] = u[n]
    BY <2>1, <2>2 DEF Refill!SyncTree, Refill!SyncNode, NodeState, Refill!InFlightStatus
  <2>3. CASE u[n].status \in InFlightStatus /\ t[n].status # "absent"
    BY <2>3 DEF Refill!SyncTree, Refill!SyncNode, InFlightStatus
  <2>4. CASE u[n].status = "pending" /\ t[n].status = "dispatched"
    BY <2>4 DEF Refill!SyncTree, Refill!SyncNode, Refill!InFlightStatus
  <2> QED
    BY <2>2, <2>3, <2>4
<1> QED
  BY <1>1 DEF Refill!SyncTree, Tree

-----------------------------------------------------------------------------
(* Each step of the tree is a step of the abstract life cycle. *)

LEMMA RefillPhase ==
    ASSUME NEW x \in NodeState
    PROVE  /\ x.status = "pending" => Refill!Phase(x) = "waiting"
           /\ x.status = "dispatched" <=> Refill!Phase(x) = "active"
           /\ x.status = "awaiting_review" => Refill!Phase(x) = "submitted"
           /\ x.status = "passed" <=> Refill!Phase(x) = "passed"
           /\ x.status = "blocked" => Refill!Phase(x) = "blocked"
BY DEF Refill!Phase, NodeState, Status, InFlightStatus

LEMMA SameCardinalities ==
    ASSUME NEW S
    PROVE  /\ Refill!Cardinality(S) = Cardinality(S)
           /\ Refill!Abstract!Cardinality(S) = Cardinality(S)
           /\ Serial!Abstract!Cardinality(S) = Cardinality(S)
BY Zenon DEF Refill!Cardinality, Refill!Abstract!Cardinality, Serial!Abstract!Cardinality,
             Cardinality

LEMMA SamePhases ==
    /\ \A x : Serial!Phase(x) = Refill!Phase(x)
    /\ Serial!Abstract!Active = Refill!Abstract!Active
    /\ \A n : Serial!Abstract!Startable(n) <=> Refill!Abstract!Startable(n)
<1>1. \A x : Serial!Phase(x) = Refill!Phase(x)
  BY Zenon DEF Serial!Phase, Refill!Phase
<1> QED
  BY <1>1 DEF Serial!Abstract!Active, Refill!Abstract!Active,
              Serial!Abstract!Startable, Refill!Abstract!Startable

Phases == [n \in LoopNode |-> Refill!Phase(disk[n])]
Charges == [n \in LoopNode |-> disk[n].attempts]

LEMMA HandsOutBegins ==
    ASSUME disk \in Tree, disk' \in Tree, NEW slots, NEW S, HandsOut(S, slots)
    PROVE  /\ S \in (SUBSET {n \in LoopNode : Refill!Abstract!Startable(n)}) \ {{}}
           /\ Cardinality(Refill!Abstract!Active \cup S) <= slots
           /\ Phases' = [n \in LoopNode |-> IF n \in S THEN "active" ELSE Phases[n]]
           /\ Charges' = Charges
<1>0. \A n \in LoopNode : disk[n] \in NodeState /\ disk'[n] \in NodeState
  BY DEF Tree
<1>1. \A n \in LoopNode :
         /\ n \in S => disk'[n].status = "dispatched" /\ disk'[n].attempts = disk[n].attempts
         /\ n \notin S => disk'[n] = disk[n]
  BY <1>0 DEF HandsOut, NodeState
<1>2. \A n \in S : /\ n \in LoopNode /\ disk[n].status = "pending"
                   /\ disk[n].attempts < MaxAttempts
                   /\ \A k \in LoopDependsOn[n] : k \in LoopNode /\ disk[k].status = "passed"
  BY LoopsAssumption DEF HandsOut, Startable
<1>3. \A n \in S : Refill!Abstract!Startable(n)
  BY <1>0, <1>2, RefillPhase DEF Refill!Abstract!Startable
<1>4. Refill!Abstract!Active = HandedOut
  BY <1>0, RefillPhase DEF Refill!Abstract!Active, HandedOut
<1>5. Phases' = [n \in LoopNode |-> IF n \in S THEN "active" ELSE Phases[n]]
  BY <1>0, <1>1, RefillPhase DEF Phases
<1>6. Charges' = Charges
  BY <1>1 DEF Charges
<1> QED
  BY <1>2, <1>3, <1>4, <1>5, <1>6 DEF HandsOut

LEMMA SettlesMoves ==
    ASSUME disk \in Tree, disk' \in Tree, NEW n \in LoopNode, Settles(n)
    PROVE  \/ Refill!Abstract!Submit(n) \/ Refill!Abstract!Pass(n) \/ Refill!Abstract!Forgive(n)
           \/ Refill!Abstract!Charge(n) \/ Refill!Abstract!GiveUp(n)
           \/ Phases' = Phases /\ Charges' = Charges
<1> DEFINE before == disk[n]
           after == disk'[n]
<1>1. /\ before \in NodeState /\ after \in NodeState /\ before.attempts < MaxAttempts
      /\ before.attempts \in Nat /\ after.attempts \in Nat
  BY DEF Settles, Tree, NodeState
<1>2. \/ /\ Refill!Phase(before) = "active" /\ after.attempts = before.attempts
         /\ Refill!Phase(after) \in {"waiting", "submitted", "blocked"}
      \/ /\ Refill!Phase(before) = "submitted" /\ after.attempts = before.attempts
         /\ Refill!Phase(after) \in {"passed", "submitted"}
      \/ /\ Refill!Phase(before) \in {"active", "submitted"}
         /\ after.attempts = before.attempts + 1
         /\ Refill!Phase(after) = IF after.attempts < MaxAttempts THEN "waiting" ELSE "blocked"
  <2>1. CASE Charged(before, after)
    BY <1>1, <2>1, RefillPhase DEF Settles, Charged
  <2>2. CASE disk[n].status = "dispatched" /\ ~Charged(before, after)
    BY <1>1, <2>2, RefillPhase DEF Settles, WriterMoves
  <2>3. CASE disk[n].status = "awaiting_review" /\ ~Charged(before, after)
    BY <1>1, <2>3, RefillPhase DEF Settles, ReviewMoves
  <2> QED
    BY <2>1, <2>2, <2>3 DEF Settles
<1>3. /\ Phases' = [Phases EXCEPT ![n] = Refill!Phase(after)]
      /\ Phases[n] = Refill!Phase(before) /\ Charges[n] = before.attempts
      /\ Charges' = [Charges EXCEPT ![n] = after.attempts] /\ Charges'[n] = after.attempts
  BY DEF Settles, Phases, Charges
<1>4. /\ after.attempts = before.attempts => Charges' = Charges
      /\ after.attempts = before.attempts + 1 => Charges' = [Charges EXCEPT ![n] = @ + 1]
  BY <1>3 DEF Charges
<1> HIDE DEF before, after
<1>5. CASE Refill!Phase(before) = "active" /\ Refill!Phase(after) = "waiting"
           /\ after.attempts = before.attempts
  BY <1>3, <1>4, <1>5, Zenon
     DEF Refill!Abstract!Forgive, Refill!Abstract!Become, Phases, Charges
<1>6. CASE Refill!Phase(before) = "active" /\ Refill!Phase(after) = "submitted"
           /\ after.attempts = before.attempts
  BY <1>3, <1>4, <1>6, Zenon
     DEF Refill!Abstract!Submit, Refill!Abstract!Become, Phases, Charges
<1>7. CASE Refill!Phase(before) = "active" /\ Refill!Phase(after) = "blocked"
           /\ after.attempts = before.attempts
  BY <1>3, <1>4, <1>7, Zenon
     DEF Refill!Abstract!GiveUp, Refill!Abstract!Become, Phases, Charges
<1>8. CASE Refill!Phase(before) = "submitted" /\ Refill!Phase(after) = "passed"
           /\ after.attempts = before.attempts
  BY <1>3, <1>4, <1>8, Zenon
     DEF Refill!Abstract!Pass, Refill!Abstract!Become, Phases, Charges
<1>9. CASE Refill!Phase(before) = "submitted" /\ Refill!Phase(after) = "submitted"
           /\ after.attempts = before.attempts
  <2>1. Phases' = Phases
    BY <1>3, <1>9 DEF Phases
  <2> QED
    BY <1>4, <1>9, <2>1
<1>10. CASE /\ Refill!Phase(before) \in {"active", "submitted"}
            /\ after.attempts = before.attempts + 1
            /\ Refill!Phase(after) = IF after.attempts < MaxAttempts THEN "waiting" ELSE "blocked"
  BY <1>3, <1>4, <1>10, Zenon
     DEF Refill!Abstract!Charge, Refill!Abstract!Become, Phases, Charges
<1> QED
  BY <1>2, <1>5, <1>6, <1>7, <1>8, <1>9, <1>10

LEMMA RefillCycles ==
    ASSUME disk \in Tree, disk' \in Tree, TreeMoves(MaxParallel)
    PROVE  [Refill!Abstract!Next]_(Refill!Abstract!lifecycle)
<1>1. CASE disk' = disk
  BY <1>1, Zenon DEF Refill!Abstract!lifecycle
<1>2. ASSUME NEW S \in SUBSET LoopNode, HandsOut(S, MaxParallel)
      PROVE  Refill!Abstract!Begin
  <2>1. /\ S \in (SUBSET {n \in LoopNode : Refill!Abstract!Startable(n)}) \ {{}}
        /\ Refill!Abstract!Cardinality(Refill!Abstract!Active \cup S) <= MaxParallel
        /\ Phases' = [n \in LoopNode |-> IF n \in S THEN "active" ELSE Phases[n]]
        /\ Charges' = Charges
    BY <1>2, HandsOutBegins, SameCardinalities
  <2> QED
    BY <2>1, Zenon DEF Refill!Abstract!Begin, Phases, Charges
<1>3. ASSUME NEW n \in LoopNode, Settles(n)
      PROVE  [Refill!Abstract!Next]_(Refill!Abstract!lifecycle)
  <2>1. CASE Phases' = Phases /\ Charges' = Charges
    BY <2>1, Zenon DEF Phases, Charges, Refill!Abstract!lifecycle
  <2> QED
    BY <1>3, <2>1, SettlesMoves DEF Refill!Abstract!Next
<1> QED
  BY <1>1, <1>2, <1>3 DEF TreeMoves, Refill!Abstract!Next

LEMMA SerialCycles ==
    ASSUME disk \in Tree, disk' \in Tree, TreeMoves(1)
    PROVE  [Serial!Abstract!Next]_(Serial!Abstract!lifecycle)
<1>0. /\ Phases = [n \in LoopNode |-> Serial!Phase(disk[n])]
      /\ Phases' = [n \in LoopNode |-> Serial!Phase(disk'[n])]
  BY SamePhases DEF Phases
<1>1. CASE disk' = disk
  BY <1>1, Zenon DEF Serial!Abstract!lifecycle
<1>2. ASSUME NEW S \in SUBSET LoopNode, HandsOut(S, 1)
      PROVE  Serial!Abstract!Begin
  <2>1. /\ S \in (SUBSET {n \in LoopNode : Serial!Abstract!Startable(n)}) \ {{}}
        /\ Serial!Abstract!Cardinality(Serial!Abstract!Active \cup S) <= 1
        /\ Phases' = [n \in LoopNode |-> IF n \in S THEN "active" ELSE Phases[n]]
        /\ Charges' = Charges
    BY <1>2, HandsOutBegins, SameCardinalities, SamePhases
  <2> QED
    BY <1>0, <2>1, Zenon DEF Serial!Abstract!Begin, Charges
<1>3. ASSUME NEW n \in LoopNode, Settles(n)
      PROVE  [Serial!Abstract!Next]_(Serial!Abstract!lifecycle)
  <2>1. CASE Phases' = Phases /\ Charges' = Charges
    BY <1>0, <2>1, Zenon DEF Charges, Serial!Abstract!lifecycle
  <2>2. CASE Refill!Abstract!Submit(n) \/ Refill!Abstract!Pass(n) \/ Refill!Abstract!Forgive(n)
             \/ Refill!Abstract!Charge(n) \/ Refill!Abstract!GiveUp(n)
    <3>1. \/ Serial!Abstract!Submit(n) \/ Serial!Abstract!Pass(n) \/ Serial!Abstract!Forgive(n)
          \/ Serial!Abstract!Charge(n) \/ Serial!Abstract!GiveUp(n)
      BY <1>0, <2>2, Zenon
         DEF Refill!Abstract!Submit, Refill!Abstract!Pass, Refill!Abstract!Forgive,
             Refill!Abstract!Charge, Refill!Abstract!GiveUp, Refill!Abstract!Become,
             Serial!Abstract!Submit, Serial!Abstract!Pass, Serial!Abstract!Forgive,
             Serial!Abstract!Charge, Serial!Abstract!GiveUp, Serial!Abstract!Become, Phases
    <3> QED
      BY <3>1 DEF Serial!Abstract!Next
  <2> QED
    BY <1>3, <2>1, <2>2, SettlesMoves
<1> QED
  BY <1>1, <1>2, <1>3 DEF TreeMoves, Serial!Abstract!Next

-----------------------------------------------------------------------------
(* RefillLoop: types, and where jobs may be. *)

(* A node waits in the resume queue or has a job; a loop that is over has no
   jobs, and one that takes a decision has an empty queue and no job that is
   between two awaits.                                                      *)
RefillPlaces ==
    /\ Refill!TypeOK
    /\ \A n \in LoopNode : resumeQ[n] # "no" => job[n] = "idle"
    /\ loop \in {"down", "ended"} => \A n \in LoopNode : job[n] = "idle"
    /\ loop = "asking" => ~stopping /\ \A n \in LoopNode : resumeQ[n] = "no" /\ job[n] # "again"

LEMMA RefillTrees == Refill!TypeOK => disk \in Tree /\ mem \in Tree
BY SameTypes DEF Refill!TypeOK, Tree

LEMMA RefillSaves ==
    ASSUME Refill!TypeOK, NEW t \in Tree, Refill!Save(t)
    PROVE  disk' \in Tree /\ mem' = disk' /\ disk' = Refill!SyncTree(t, disk, {})
BY RefillTrees, WriteBackType DEF Refill!Save

LEMMA RefillSyncedType == Refill!TypeOK => Refill!Synced \in Tree
BY RefillTrees, WriteBackType DEF Refill!Synced

LEMMA RefillInit == Refill!Init => RefillPlaces
<1>1. FreshNode \in NodeState
  BY DEF FreshNode, NodeState, Status, InFlightStatus, Defect
<1>2. Refill!Init => /\ disk \in [LoopNode -> Refill!NodeState]
                     /\ mem \in [LoopNode -> Refill!NodeState]
  BY <1>1, SameTypes DEF Refill!Init
<1>3. MaxParallel \in 1..MaxParallel /\ 0 \in 0..RefillRounds /\ 0 \in 0..RefillStarts
      /\ 0 \in 0..MaxTroubles
  BY LoopsAssumption, LoopAssumption
<1>4. Refill!Init => /\ cap \in 1..MaxParallel /\ rounds \in 0..RefillRounds
                     /\ starts \in 0..RefillStarts /\ crashes \in 0..MaxTroubles
  BY <1>3 DEF Refill!Init
<1>5. Refill!Init => /\ loop = "down" /\ job \in [LoopNode -> Refill!JobStage] /\ loop \in Refill!LoopStage
                     /\ resumeQ \in [LoopNode -> {"no", "dispatch", "review"}]
                     /\ noNewWork \in BOOLEAN /\ stopping \in BOOLEAN
                     /\ bypass \in [LoopNode -> BOOLEAN] /\ halt \in BOOLEAN
                     /\ \A n \in LoopNode : resumeQ[n] = "no" /\ job[n] = "idle"
  BY DEF Refill!Init, Refill!JobStage, Refill!LoopStage
<1> QED
  BY <1>2, <1>4, <1>5 DEF RefillPlaces, Refill!TypeOK

LEMMA RefillLoopTypes ==
    ASSUME RefillPlaces,
           \/ Refill!FillEnds \/ Refill!RoundHalted \/ Refill!NothingNew \/ Refill!Ask
           \/ Refill!AnswerNone \/ Refill!AnswerHalted \/ Refill!AnswerRaises
           \/ Refill!Reap \/ Refill!Drained
    PROVE  RefillPlaces'
<1>1. Refill!Synced \in [LoopNode -> Refill!NodeState]
  BY RefillSyncedType, SameTypes DEF RefillPlaces, Tree
<1> USE DEF Refill!EndFill, Refill!queue, Refill!outside, Refill!counters, Refill!TypeOK,
            Refill!JobStage, Refill!LoopStage, RefillPlaces, Refill!Filling, Refill!AtRound
<1>2. ASSUME Refill!FillEnds PROVE RefillPlaces'
  BY <1>2 DEF Refill!FillEnds
<1>3. ASSUME Refill!RoundHalted PROVE RefillPlaces'
  BY <1>3 DEF Refill!RoundHalted
<1>4. ASSUME Refill!NothingNew PROVE RefillPlaces'
  BY <1>1, <1>4 DEF Refill!NothingNew
<1>5. ASSUME Refill!Ask PROVE RefillPlaces'
  <2>1. rounds' \in 0..RefillRounds
    BY <1>5, LoopsAssumption DEF Refill!Ask
  <2> QED
    BY <1>1, <1>5, <2>1 DEF Refill!Ask, Refill!MayStart, Refill!Queued, Refill!Busy
<1>6. ASSUME Refill!AnswerNone PROVE RefillPlaces'
  BY <1>6 DEF Refill!AnswerNone
<1>7. ASSUME Refill!AnswerHalted PROVE RefillPlaces'
  BY <1>7 DEF Refill!AnswerHalted
<1>8. ASSUME Refill!AnswerRaises PROVE RefillPlaces'
  BY <1>8 DEF Refill!AnswerRaises
<1>9. ASSUME Refill!Reap PROVE RefillPlaces'
  BY <1>9 DEF Refill!Reap
<1>10. ASSUME Refill!Drained PROVE RefillPlaces'
  BY <1>10 DEF Refill!Drained
<1> QED
  BY <1>2, <1>3, <1>4, <1>5, <1>6, <1>7, <1>8, <1>9, <1>10

LEMMA RefillAdmitTypes ==
    ASSUME RefillPlaces, NEW n \in LoopNode, Refill!Admit(n) PROVE RefillPlaces'
BY DEF Refill!Admit, Refill!Move, Refill!outside, Refill!counters, Refill!Filling,
       RefillPlaces, Refill!TypeOK, Refill!JobStage, Refill!LoopStage

LEMMA RefillOutsideTypes ==
    ASSUME RefillPlaces, Refill!Start \/ Refill!Crash \/ Refill!Operator
    PROVE  RefillPlaces'
<1> USE DEF Refill!queue, Refill!outside, Refill!counters, Refill!TypeOK,
            Refill!JobStage, Refill!LoopStage, RefillPlaces
<1>1. ASSUME Refill!Start PROVE RefillPlaces'
  <2>1. mem' \in [LoopNode -> Refill!NodeState]
    <3>1. ASSUME NEW n \in LoopNode
          PROVE  [disk[n] EXCEPT !.status = "awaiting_review"] \in NodeState /\ disk[n] \in NodeState
      BY SameTypes DEF NodeState, Status, InFlightStatus
    <3> QED
      BY <1>1, <3>1, SameTypes DEF Refill!Start
  <2>2. resumeQ' \in [LoopNode -> {"no", "dispatch", "review"}]
    BY <1>1 DEF Refill!Start
  <2>3. starts' \in 0..RefillStarts /\ rounds' \in 0..RefillRounds /\ cap' \in 1..MaxParallel
    BY <1>1, LoopsAssumption, LoopAssumption DEF Refill!Start
  <2> QED
    BY <1>1, <2>1, <2>2, <2>3 DEF Refill!Start
<1>2. ASSUME Refill!Crash PROVE RefillPlaces'
  <2>1. crashes' \in 0..MaxTroubles /\ rounds' \in 0..RefillRounds /\ cap' \in 1..MaxParallel
    BY <1>2, LoopsAssumption, LoopAssumption DEF Refill!Crash, Refill!Trouble
  <2> QED
    BY <1>2, <2>1 DEF Refill!Crash
<1>3. ASSUME Refill!Operator PROVE RefillPlaces'
  <2>1. crashes' \in 0..MaxTroubles
    BY <1>3, LoopsAssumption DEF Refill!Operator, Refill!Trouble
  <2>2. halt' \in BOOLEAN /\ bypass' \in [LoopNode -> BOOLEAN]
    BY <1>3 DEF Refill!Operator
  <2> QED
    BY <1>3, <2>1, <2>2 DEF Refill!Operator
<1> QED
  BY <1>1, <1>2, <1>3

(* A step of a job moves it on, and leaves the loop and the queue alone.    *)
LEMMA RefillJobFrame ==
    ASSUME RefillPlaces, NEW n \in LoopNode, Refill!Working(n) \/ Refill!JobRaises(n)
    PROVE  /\ loop # "asking"
           /\ job[n] # "idle" /\ resumeQ' = resumeQ /\ loop' = loop /\ bypass' = bypass
           /\ noNewWork' = noNewWork /\ stopping' = stopping /\ rounds' = rounds
           /\ halt' = halt /\ starts' = starts
           /\ \E stage \in Refill!JobStage \ {"idle"} : job' = [job EXCEPT ![n] = stage]
<1> USE DEF Refill!Move, Refill!queue, Refill!outside, Refill!counters
<1>1. ASSUME Refill!Board(n) \/ Refill!Cooled(n) \/ Refill!ResumeReview(n) \/ Refill!JobRaises(n)
      PROVE  /\ job[n] # "idle" /\ UNCHANGED <<resumeQ, loop, bypass, noNewWork, stopping, rounds,
                                               halt, starts>>
             /\ \E stage \in Refill!JobStage \ {"idle"} : job' = [job EXCEPT ![n] = stage]
  BY <1>1 DEF Refill!Board, Refill!Cooled, Refill!ResumeReview, Refill!JobRaises, Refill!JobStage
<1>2. ASSUME Refill!EpisodeEnds(n) \/ Refill!HandedBack(n)
      PROVE  /\ job[n] # "idle" /\ UNCHANGED <<resumeQ, loop, bypass, noNewWork, stopping, rounds,
                                               halt, starts>>
             /\ \E stage \in Refill!JobStage \ {"idle"} : job' = [job EXCEPT ![n] = stage]
  BY <1>2 DEF Refill!EpisodeEnds, Refill!HandedBack, Refill!Attempted, Refill!Settled,
              Refill!JobStage, Refill!Trouble
<1>3. ASSUME Refill!ReviewEnds(n) \/ Refill!Again(n) \/ Refill!Retry(n)
      PROVE  /\ job[n] # "idle" /\ UNCHANGED <<resumeQ, loop, bypass, noNewWork, stopping, rounds,
                                               halt, starts>>
             /\ \E stage \in Refill!JobStage \ {"idle"} : job' = [job EXCEPT ![n] = stage]
  BY <1>3 DEF Refill!ReviewEnds, Refill!Again, Refill!Retry, Refill!JobStage
<1>4. loop # "asking"
  BY DEF Refill!Working, Refill!JobRaises, Refill!Board, Refill!Cooled, Refill!ResumeReview,
         Refill!EpisodeEnds, Refill!HandedBack, Refill!ReviewEnds, Refill!Again, Refill!Retry,
         Refill!Busy, RefillPlaces
<1> QED
  BY <1>1, <1>2, <1>3, <1>4 DEF Refill!Working

(* What a job saves is a tree.                                              *)
LEMMA RefillNodeSaved ==
    ASSUME Refill!TypeOK, NEW n \in LoopNode, NEW x \in NodeState
    PROVE  [mem EXCEPT ![n] = x] \in Tree
BY RefillTrees DEF Tree

LEMMA RefillMarked ==
    ASSUME Refill!TypeOK, NEW n \in LoopNode,
           NEW s \in {"dispatched", "awaiting_review"}
    PROVE  /\ [mem EXCEPT ![n].status = s] = [mem EXCEPT ![n] = [mem[n] EXCEPT !.status = s]]
           /\ [mem[n] EXCEPT !.status = s] \in NodeState
           /\ [mem[n] EXCEPT !.status = s].status = s
           /\ [mem[n] EXCEPT !.status = s].attempts = mem[n].attempts
           /\ [mem EXCEPT ![n].status = s] \in Tree
<1>1. mem \in Tree
  BY RefillTrees
<1>2. mem[n] \in NodeState
  BY <1>1 DEF Tree
<1>3. [mem[n] EXCEPT !.status = s] \in NodeState
  BY <1>2 DEF NodeState, Status, InFlightStatus
<1>4. [mem EXCEPT ![n].status = s] = [mem EXCEPT ![n] = [mem[n] EXCEPT !.status = s]]
  OBVIOUS
<1>5. [mem EXCEPT ![n].status = s] \in Tree
  BY <1>3, <1>4, RefillNodeSaved
<1> QED
  BY <1>2, <1>3, <1>4, <1>5 DEF NodeState

LEMMA RefillJobTypes ==
    ASSUME RefillPlaces, NEW n \in LoopNode, Refill!Working(n) \/ Refill!JobRaises(n)
    PROVE  RefillPlaces'
<1>1. /\ loop # "asking" /\ job[n] # "idle" /\ resumeQ' = resumeQ /\ loop' = loop /\ bypass' = bypass
      /\ noNewWork' = noNewWork /\ stopping' = stopping /\ rounds' = rounds
      /\ halt' = halt /\ starts' = starts
  BY RefillJobFrame
<1>2. PICK stage \in Refill!JobStage \ {"idle"} : job' = [job EXCEPT ![n] = stage]
  BY RefillJobFrame
<1>3. disk' \in Tree /\ mem' \in Tree
  <2>0. disk \in Tree /\ mem \in Tree /\ mem[n] \in NodeState
    BY RefillTrees DEF RefillPlaces, Tree
  <2>1. ASSUME Refill!EpisodeEnds(n) PROVE disk' \in Tree /\ mem' \in Tree
    <3>1. PICK o : Refill!Save([mem EXCEPT ![n] = Refill!AfterWriter(mem[n], o).node])
      BY <2>1 DEF Refill!EpisodeEnds, Refill!Attempted
    <3> QED
      BY <2>0, <3>1, EpisodeLeaves, RefillNodeSaved, RefillSaves DEF RefillPlaces
  <2>2. ASSUME Refill!HandedBack(n) PROVE disk' \in Tree /\ mem' \in Tree
    BY <2>0, <2>2, RequeueLeaves, RefillNodeSaved, RefillSaves
       DEF RefillPlaces, Refill!HandedBack, Refill!Attempted
  <2>3. ASSUME Refill!ReviewEnds(n) PROVE disk' \in Tree /\ mem' \in Tree
    <3>1. PICK v : Refill!Save([mem EXCEPT ![n] = Refill!AfterReview(mem[n], v).node])
      BY <2>3 DEF Refill!ReviewEnds
    <3> QED
      BY <2>0, <3>1, ReviewLeaves, RefillNodeSaved, RefillSaves DEF RefillPlaces
  <2>4. ASSUME Refill!Again(n) \/ Refill!Retry(n) PROVE disk' \in Tree /\ mem' \in Tree
    <3>1. \/ disk' = disk /\ mem' = mem
          \/ \E s \in {"dispatched", "awaiting_review"} : Refill!Save([mem EXCEPT ![n].status = s])
      BY <2>4 DEF Refill!Again, Refill!Retry
    <3> QED
      BY <2>0, <3>1, RefillMarked, RefillSaves DEF RefillPlaces
  <2> QED
    BY <2>0, <2>1, <2>2, <2>3, <2>4
       DEF Refill!Working, Refill!Board, Refill!Cooled, Refill!ResumeReview, Refill!JobRaises
<1>4. cap' \in 1..MaxParallel /\ crashes' \in 0..MaxTroubles
  <2>1. \A throttled : Refill!WaveOutcome(throttled) \in 1..MaxParallel
    BY LoopAssumption DEF RefillPlaces, Refill!TypeOK, Refill!WaveOutcome
  <2>2. crashes' = crashes \/ Refill!Trouble
    BY DEF Refill!Working, Refill!Board, Refill!Cooled, Refill!ResumeReview, Refill!JobRaises,
           Refill!EpisodeEnds, Refill!HandedBack, Refill!ReviewEnds, Refill!Again, Refill!Retry,
           Refill!counters
  <2>3. crashes' \in 0..MaxTroubles
    BY <2>2, LoopsAssumption DEF RefillPlaces, Refill!TypeOK, Refill!Trouble
  <2>4. cap' = cap \/ \E throttled : cap' = Refill!WaveOutcome(throttled)
    BY DEF Refill!Working, Refill!Board, Refill!Cooled, Refill!ResumeReview, Refill!JobRaises,
           Refill!EpisodeEnds, Refill!HandedBack, Refill!ReviewEnds, Refill!Again, Refill!Retry,
           Refill!Attempted
  <2> QED
    BY <2>1, <2>3, <2>4 DEF RefillPlaces, Refill!TypeOK
<1>5. disk' \in [LoopNode -> Refill!NodeState] /\ mem' \in [LoopNode -> Refill!NodeState]
  BY <1>3, SameTypes DEF Tree
<1> QED
  BY <1>1, <1>2, <1>4, <1>5 DEF RefillPlaces, Refill!TypeOK

(* The nodes of a wave are free, and there is one.                          *)
LEMMA RefillWaveTypes ==
    ASSUME RefillPlaces, Refill!AnswerWave PROVE RefillPlaces'
<1>1. CASE UNCHANGED <<disk, mem, job>> /\ Refill!EndFill
  BY <1>1 DEF Refill!AnswerWave, Refill!EndFill, Refill!queue, Refill!outside, Refill!counters,
              RefillPlaces, Refill!TypeOK, Refill!LoopStage
<1>2. CASE ~(UNCHANGED <<disk, mem, job>> /\ Refill!EndFill)
  <2>1. PICK S \in Refill!Waves(Refill!Offered(mem)), refused \in BOOLEAN :
           /\ Refill!Save([n \in LoopNode |-> IF n \in S THEN [mem[n] EXCEPT !.status = "dispatched"]
                                                         ELSE mem[n]])
           /\ job' = [n \in LoopNode |-> IF n \in S THEN "boarding" ELSE job[n]]
           /\ loop' = IF refused THEN "waiting" ELSE "filling"
    BY <1>2 DEF Refill!AnswerWave
  <2>2. [n \in LoopNode |-> IF n \in S THEN [mem[n] EXCEPT !.status = "dispatched"]
                                       ELSE mem[n]] \in Tree
    BY RefillTrees, RefillMarked DEF RefillPlaces, Tree
  <2>3. disk' \in [LoopNode -> Refill!NodeState] /\ mem' \in [LoopNode -> Refill!NodeState]
    BY <2>1, <2>2, RefillSaves, SameTypes DEF RefillPlaces, Tree
  <2>4. \A n \in S : n \in LoopNode /\ job[n] = "idle"
    BY <2>1 DEF Refill!Waves, Refill!Running, Refill!Offered, Refill!ReadyNodes
  <2> QED
    BY <1>2, <2>1, <2>3, <2>4
       DEF Refill!AnswerWave, Refill!queue, Refill!outside, Refill!counters,
           RefillPlaces, Refill!TypeOK, Refill!LoopStage, Refill!JobStage
<1> QED
  BY <1>1, <1>2

LEMMA RefillPlacesStep == RefillPlaces /\ Refill!Next => RefillPlaces'
BY RefillLoopTypes, RefillAdmitTypes, RefillOutsideTypes, RefillJobTypes, RefillWaveTypes
   DEF Refill!Next, Refill!Step

-----------------------------------------------------------------------------
(* RefillLoop: what a job stands for, until a node is bypassed. *)

NoBypass == \A n \in LoopNode : ~bypass[n]

Ready(n) == \A k \in LoopDependsOn[n] : disk[k].status = "passed"

Stands(n) ==
    /\ job[n] \in {"boarding", "episode"} \/ resumeQ[n] = "dispatch" => disk[n].status = "dispatched"
    /\ job[n] \in {"toReview", "reviewing"} \/ resumeQ[n] = "review"
          => disk[n].status = "awaiting_review"
    /\ job[n] = "backoff" => disk[n].status = "pending"
    /\ job[n] \in {"cooling", "again", "done"} => disk[n].status # "dispatched"
    /\ job[n] # "lastReview"
    /\ job[n] # "idle" \/ disk[n].status \in InFlightStatus => Ready(n)
    /\ disk[n].status \in {"pending"} \cup InFlightStatus => disk[n].attempts < MaxAttempts

(* The nodes a slot is taken by, or kept for.                               *)
Engaged == {n \in LoopNode : job[n] # "idle" \/ resumeQ[n] = "dispatch"}

(* Memory is the disk; a node that is with a writer has a slot, but where a
   job raised and nothing more is started; and there are slots for all.     *)
RefillTree ==
    /\ mem = disk
    /\ \A n \in LoopNode : Stands(n)
    /\ loop \notin {"down", "ended"} /\ ~stopping => HandedOut \subseteq Engaged
    /\ Cardinality(Engaged) <= MaxParallel /\ Cardinality(HandedOut) <= MaxParallel

LEMMA LoopSets ==
    ASSUME NEW S, S \subseteq LoopNode
    PROVE  IsFiniteSet(S) /\ Cardinality(S) \in Nat
BY LoopsAssumption, FS_Subset, FS_CardinalityType

LEMMA Smaller ==
    ASSUME NEW S, NEW T, S \subseteq T, T \subseteq LoopNode, NEW k \in Nat, Cardinality(T) <= k
    PROVE  Cardinality(S) <= k
<1>1. S \subseteq LoopNode
  OBVIOUS
<1>2. IsFiniteSet(T) /\ Cardinality(T) \in Nat /\ Cardinality(S) \in Nat
  BY <1>1, LoopSets
<1>3. Cardinality(S) <= Cardinality(T)
  BY <1>2, FS_Subset
<1> QED
  BY <1>2, <1>3

LEMMA Joined ==
    ASSUME NEW S, NEW T, S \subseteq LoopNode, T \subseteq LoopNode
    PROVE  Cardinality(S \cup T) <= Cardinality(S) + Cardinality(T)
<1>1. IsFiniteSet(S) /\ IsFiniteSet(T) /\ S \cap T \subseteq LoopNode
  BY LoopSets
<1>2. Cardinality(S \cup T) = Cardinality(S) + Cardinality(T) - Cardinality(S \cap T)
  BY <1>1, FS_Union
<1>3. Cardinality(S \cap T) \in Nat /\ Cardinality(S) \in Nat /\ Cardinality(T) \in Nat
  BY <1>1, LoopSets
<1> QED
  BY <1>2, <1>3

LEMMA SlotsNat == MaxParallel \in Nat /\ MaxParallel >= 1
BY LoopAssumption

(* What has passed stays so.                                                *)
LEMMA StaysPassed ==
    ASSUME NEW slots, TreeMoves(slots), NEW k \in LoopNode, disk[k].status = "passed"
    PROVE  disk'[k].status = "passed"
BY DEF TreeMoves, HandsOut, Startable, Settles

LEMMA StaysReady ==
    ASSUME NEW slots, TreeMoves(slots), NEW n \in LoopNode, Ready(n)
    PROVE  Ready(n)'
BY StaysPassed, LoopsAssumption DEF Ready

LEMMA StandsFrame ==
    ASSUME NEW slots, TreeMoves(slots), NEW n \in LoopNode, Stands(n), disk'[n] = disk[n],
           job'[n] = job[n] \/ job'[n] = "idle",
           resumeQ'[n] = resumeQ[n] \/ resumeQ'[n] = "no"
    PROVE  Stands(n)'
BY StaysReady DEF Stands

LEMMA RefillInitTree == Refill!Init => RefillTree
<1> SUFFICES ASSUME Refill!Init PROVE RefillTree
  OBVIOUS
<1>1. \A n \in LoopNode : disk[n] = FreshNode /\ job[n] = "idle" /\ resumeQ[n] = "no"
  BY SameTypes DEF Refill!Init
<1>2. \A n \in LoopNode : Stands(n)
  BY <1>1, BudgetAssumption DEF Stands, FreshNode, InFlightStatus
<1>3. Engaged = {} /\ HandedOut = {}
  BY <1>1 DEF Engaged, HandedOut, FreshNode
<1>4. Cardinality({}) = 0
  BY FS_EmptySet
<1>5. Cardinality(Engaged) <= MaxParallel /\ Cardinality(HandedOut) <= MaxParallel
  BY <1>3, <1>4, SlotsNat
<1> QED
  BY <1>2, <1>3, <1>5 DEF Refill!Init, RefillTree

(* A step that leaves tree.json alone.                                      *)
LEMMA RefillSameTree == RefillPlaces /\ RefillTree => Refill!Synced = disk
BY RefillTrees, WriteBackSame DEF RefillPlaces, RefillTree, Refill!Synced

LEMMA RefillLoopTree ==
    ASSUME RefillPlaces, RefillTree,
           \/ Refill!FillEnds \/ Refill!RoundHalted \/ Refill!NothingNew \/ Refill!Ask
           \/ Refill!AnswerNone \/ Refill!AnswerHalted \/ Refill!AnswerRaises
    PROVE  RefillTree' /\ disk' = disk
<1>1. /\ disk' = disk /\ mem' = disk /\ job' = job /\ resumeQ' = resumeQ /\ stopping' = stopping
      /\ loop \notin {"down", "ended"}
  BY RefillSameTree
     DEF RefillTree, Refill!FillEnds, Refill!RoundHalted, Refill!NothingNew, Refill!Ask,
         Refill!AnswerNone, Refill!AnswerHalted, Refill!AnswerRaises, Refill!queue,
         Refill!AtRound, Refill!Filling
<1>2. /\ Engaged' = Engaged /\ HandedOut' = HandedOut
      /\ \A n \in LoopNode : Stands(n)' <=> Stands(n)
  BY <1>1 DEF Engaged, HandedOut, Stands, Ready
<1> QED
  BY <1>1, <1>2 DEF RefillTree

LEMMA RefillRestTree ==
    ASSUME RefillPlaces, RefillTree,
           Refill!Reap \/ Refill!Drained \/ Refill!Crash
    PROVE  RefillTree' /\ disk' = disk
<1>1. /\ disk' = disk /\ mem' = disk
      /\ \A n \in LoopNode : /\ job'[n] = job[n] \/ job'[n] = "idle"
                             /\ resumeQ'[n] = resumeQ[n] \/ resumeQ'[n] = "no"
  BY DEF RefillPlaces, Refill!TypeOK, RefillTree, Refill!Reap, Refill!Drained, Refill!Crash,
         Refill!queue
<1>2. \A n \in LoopNode : Stands(n)'
  BY <1>1, StandsFrame DEF RefillTree, TreeMoves
<1>3. Engaged' \subseteq Engaged /\ HandedOut' = HandedOut
  BY <1>1 DEF Engaged, HandedOut
<1>4. Cardinality(Engaged') <= MaxParallel /\ Cardinality(HandedOut') <= MaxParallel
  <2>1. Engaged \subseteq LoopNode
    BY DEF Engaged
  <2> QED
    BY <1>3, <2>1, Smaller, SlotsNat DEF RefillTree
<1>5. loop' \notin {"down", "ended"} /\ ~stopping' => HandedOut' \subseteq Engaged'
  <2> SUFFICES ASSUME loop' \notin {"down", "ended"}, ~stopping', NEW n \in HandedOut
               PROVE  n \in Engaged'
    BY <1>3
  <2>1. Refill!Reap
    BY DEF Refill!Drained, Refill!Crash
  <2>2. n \in Engaged /\ n \in LoopNode /\ disk[n].status = "dispatched"
    BY <2>1 DEF RefillTree, HandedOut, Refill!Reap
  <2>3. job[n] \notin {"done", "failed"}
    BY <2>1, <2>2 DEF Refill!Reap, Refill!Over, RefillTree, Stands
  <2> QED
    BY <2>1, <2>2, <2>3 DEF Engaged, Refill!Reap, Refill!Over
<1> QED
  BY <1>1, <1>2, <1>4, <1>5 DEF RefillTree

LEMMA RefillStartTree ==
    ASSUME RefillPlaces, RefillTree, NoBypass, Refill!Start
    PROVE  RefillTree' /\ disk' = disk
<1>1. /\ disk' = disk /\ job' = job /\ \A n \in LoopNode : job[n] = "idle"
      /\ \A n \in LoopNode : mem'[n] = disk[n]
      /\ mem' = [n \in LoopNode |-> mem'[n]]
  BY DEF Refill!Start, RefillPlaces, NoBypass
<1>2. mem' = disk
  <2>1. disk \in Tree
    BY RefillTrees DEF RefillPlaces
  <2> QED
    BY <1>1, <2>1 DEF Tree
<1>3. \A n \in LoopNode :
         /\ resumeQ'[n] = "dispatch" <=> disk[n].status = "dispatched"
         /\ resumeQ'[n] = "review" <=> disk[n].status = "awaiting_review"
  BY DEF Refill!Start, NoBypass
<1>4. \A n \in LoopNode : Stands(n)'
  BY <1>1, <1>3 DEF RefillTree, Stands, Ready
<1>5. Engaged' = HandedOut /\ HandedOut' = HandedOut
  BY <1>1, <1>3 DEF Engaged, HandedOut
<1> QED
  BY <1>1, <1>2, <1>4, <1>5 DEF RefillTree

LEMMA RefillAdmitTree ==
    ASSUME RefillPlaces, RefillTree, NEW n \in LoopNode, Refill!Admit(n)
    PROVE  RefillTree' /\ disk' = disk
<1>1. /\ disk' = disk /\ mem' = disk /\ loop' = loop /\ stopping' = stopping
      /\ resumeQ[n] # "no" /\ job[n] = "idle" /\ resumeQ'[n] = "no"
      /\ job'[n] = IF resumeQ[n] = "dispatch" THEN "boarding" ELSE "toReview"
      /\ \A m \in LoopNode : m # n => job'[m] = job[m] /\ resumeQ'[m] = resumeQ[m]
  BY DEF Refill!Admit, Refill!Move, RefillPlaces, RefillTree, Refill!TypeOK
<1>2. ASSUME NEW m \in LoopNode PROVE Stands(m)'
  <2>1. CASE m = n
    <3>1. resumeQ[n] \in {"dispatch", "review"}
      BY <1>1 DEF RefillPlaces, Refill!TypeOK
    <3> QED
      BY <1>1, <2>1, <3>1 DEF RefillTree, Stands, Ready, InFlightStatus
  <2>2. CASE m # n
    BY <1>1, <2>2, StandsFrame DEF RefillTree, TreeMoves
  <2> QED
    BY <2>1, <2>2
<1>3. Engaged \subseteq Engaged' /\ Engaged' = Engaged \cup {n} /\ HandedOut' = HandedOut
  BY <1>1 DEF Engaged, HandedOut
<1>4. Cardinality(Engaged') <= MaxParallel
  <2>1. CASE resumeQ[n] = "dispatch"
    <3>1. Engaged' = Engaged
      BY <1>3, <2>1 DEF Engaged
    <3> QED
      BY <3>1 DEF RefillTree
  <2>2. CASE resumeQ[n] # "dispatch"
    <3>1. resumeQ[n] = "review"
      BY <1>1, <2>2 DEF RefillPlaces, Refill!TypeOK
    <3>2. Engaged = Refill!Running
      BY <3>1 DEF Refill!Admit, Engaged, Refill!Running
    <3>3. Cardinality(Engaged) < cap
      BY <3>2, SameCardinalities DEF Refill!Admit, Refill!MayStart
    <3>4. Cardinality({n}) = 1
      BY FS_Singleton
    <3>5. Engaged \subseteq LoopNode /\ {n} \subseteq LoopNode
      BY DEF Engaged
    <3>6. Cardinality(Engaged') <= Cardinality(Engaged) + 1
      BY <1>3, <3>4, <3>5, Joined
    <3>7. Cardinality(Engaged) \in Nat /\ Cardinality(Engaged') \in Nat
      BY <1>3, <3>5, LoopSets
    <3>8. cap \in Nat /\ cap <= MaxParallel
      BY SlotsNat DEF RefillPlaces, Refill!TypeOK
    <3> QED
      BY <3>3, <3>6, <3>7, <3>8, SlotsNat
  <2> QED
    BY <2>1, <2>2
<1> QED
  BY <1>1, <1>2, <1>3, <1>4 DEF RefillTree

(* A job that moves without writing.                                        *)
RefillQuiet(n) ==
    /\ job[n] # "idle" /\ job'[n] # "idle" /\ job'[n] # "lastReview"
    /\ disk' = disk /\ mem' = mem /\ resumeQ' = resumeQ /\ loop' = loop /\ stopping' = stopping
    /\ \A m \in LoopNode : m # n => job'[m] = job[m]

LEMMA RefillQuietTree ==
    ASSUME RefillPlaces, RefillTree, NEW n \in LoopNode, RefillQuiet(n), Stands(n)'
    PROVE  RefillTree'
<1>1. ASSUME NEW m \in LoopNode PROVE Stands(m)'
  BY StandsFrame DEF RefillTree, RefillQuiet, TreeMoves
<1>2. Engaged' = Engaged /\ HandedOut' = HandedOut
  BY DEF RefillQuiet, Engaged, HandedOut
<1> QED
  BY <1>1, <1>2 DEF RefillTree, RefillQuiet

LEMMA RefillQuietSteps ==
    ASSUME RefillPlaces, RefillTree, NoBypass, NEW n \in LoopNode,
           \/ Refill!Board(n) \/ Refill!Cooled(n) \/ Refill!ResumeReview(n)
           \/ Refill!Again(n) \/ Refill!JobRaises(n)
           \/ Refill!Retry(n) /\ Refill!Halted
    PROVE  RefillTree' /\ disk' = disk
<1> USE DEF Refill!Move, Refill!queue, Refill!outside, Refill!counters
<1>0. Stands(n) /\ mem = disk /\ job \in [LoopNode -> Refill!JobStage]
      /\ (job[n] # "idle" => resumeQ[n] = "no")
  BY DEF RefillPlaces, Refill!TypeOK, RefillTree
<1>1. ASSUME Refill!Board(n) PROVE RefillQuiet(n) /\ Stands(n)'
  BY <1>1, <1>0 DEF Refill!Board, RefillQuiet, Stands, Ready
<1>2. ASSUME Refill!Cooled(n) PROVE RefillQuiet(n) /\ Stands(n)'
  BY <1>2, <1>0 DEF Refill!Cooled, RefillQuiet, Stands, Ready
<1>3. ASSUME Refill!ResumeReview(n) PROVE RefillQuiet(n) /\ Stands(n)'
  BY <1>3, <1>0 DEF Refill!ResumeReview, RefillQuiet, Stands, Ready
<1>4. ASSUME Refill!Again(n) PROVE RefillQuiet(n) /\ Stands(n)'
  <2>1. /\ disk' = disk /\ mem' = mem /\ resumeQ' = resumeQ /\ loop' = loop
        /\ stopping' = stopping /\ job[n] = "again"
        /\ \/ job' = [job EXCEPT ![n] = "done"]
           \/ job' = [job EXCEPT ![n] = "backoff"] /\ mem[n].status = "pending"
    BY <1>4 DEF Refill!Again, Refill!Retriable, NoBypass
  <2> QED
    BY <2>1, <1>0 DEF RefillQuiet, Stands, Ready
<1>5. ASSUME Refill!JobRaises(n) PROVE RefillQuiet(n) /\ Stands(n)'
  BY <1>5, <1>0 DEF Refill!JobRaises, RefillQuiet, Stands, Ready
<1>6. ASSUME Refill!Retry(n), Refill!Halted PROVE RefillQuiet(n) /\ Stands(n)'
  <2>1. /\ disk' = disk /\ mem' = mem /\ resumeQ' = resumeQ /\ loop' = loop
        /\ stopping' = stopping /\ job[n] = "backoff" /\ job' = [job EXCEPT ![n] = "done"]
    BY <1>6 DEF Refill!Retry
  <2> QED
    BY <2>1, <1>0 DEF RefillQuiet, Stands, Ready
<1> QED
  BY <1>1, <1>2, <1>3, <1>4, <1>5, <1>6, RefillQuietTree DEF RefillQuiet

(* A job that saves what has become of its node.                            *)
LEMMA RefillSettled ==
    ASSUME RefillPlaces, RefillTree, NEW n \in LoopNode,
           Refill!Working(n), NEW x \in NodeState, Refill!Save([mem EXCEPT ![n] = x]),
           x.status \notin {"dispatched", "absent"},
           \/ disk[n].status = "dispatched" /\ WriterMoves(disk[n], x)
           \/ disk[n].status = "awaiting_review" /\ ReviewMoves(disk[n], x),
           \/ job'[n] \in {"again", "done", "failed"}
           \/ job'[n] = "cooling"
           \/ job'[n] = "reviewing" /\ mem'[n].status = "awaiting_review"
    PROVE  RefillTree' /\ Settles(n)
<1>0. disk \in Tree /\ mem = disk /\ disk[n] \in NodeState /\ x.attempts \in Nat
      /\ disk[n].attempts \in Nat /\ MaxAttempts \in Nat
  BY RefillTrees, BudgetAssumption DEF RefillPlaces, RefillTree, Tree, NodeState
<1>1. disk' = [disk EXCEPT ![n] = x] /\ mem' = disk'
  <2>1. [mem EXCEPT ![n] = x] \in Tree
    BY RefillNodeSaved DEF RefillPlaces
  <2>2. Refill!SyncTree([mem EXCEPT ![n] = x], disk, {}) = [mem EXCEPT ![n] = x]
    <3>1. \A k \in LoopNode : \/ [mem EXCEPT ![n] = x][k] = disk[k]
                              \/ /\ disk[k].status \in InFlightStatus
                                 /\ [mem EXCEPT ![n] = x][k].status # "absent"
      BY <1>0 DEF InFlightStatus, Tree
    <3> QED
      BY <1>0, <2>1, <3>1, WriteBack
  <2> QED
    BY <1>0, <2>1, <2>2, RefillSaves DEF RefillPlaces
<1>2. disk'[n] = x /\ \A m \in LoopNode : m # n => disk'[m] = disk[m]
  BY <1>0, <1>1 DEF Tree
<1>3. Stands(n) /\ disk[n].attempts < MaxAttempts /\ Ready(n)
  BY DEF RefillTree, Stands, InFlightStatus
<1>4. Settles(n)
  BY <1>2, <1>3 DEF Settles
<1>5. /\ job[n] # "idle" /\ resumeQ' = resumeQ /\ loop' = loop /\ stopping' = stopping
      /\ resumeQ[n] = "no" /\ job'[n] # "idle"
      /\ \A m \in LoopNode : m # n => job'[m] = job[m]
  <2>1. job \in [LoopNode -> Refill!JobStage]
    BY DEF RefillPlaces, Refill!TypeOK
  <2> QED
    BY <2>1, RefillJobFrame DEF RefillPlaces
<1>6. TreeMoves(1)
  BY <1>4 DEF TreeMoves
<1>7. ASSUME NEW m \in LoopNode PROVE Stands(m)'
  <2>1. CASE m = n
    <3>1. Ready(n)'
      BY <1>3, <1>6, StaysReady
    <3>2. x.status \in {"pending"} \cup InFlightStatus => x.attempts < MaxAttempts
      BY <1>0, <1>3 DEF WriterMoves, ReviewMoves, Charged, InFlightStatus
    <3>3. job'[n] = "reviewing" => x.status = "awaiting_review"
      BY <1>1, <1>2
    <3> QED
      BY <1>2, <1>5, <2>1, <3>1, <3>2, <3>3 DEF Stands
  <2>2. CASE m # n
    BY <1>2, <1>5, <1>6, <2>2, StandsFrame DEF RefillTree
  <2> QED
    BY <2>1, <2>2
<1>8. Engaged' = Engaged /\ HandedOut' \subseteq HandedOut
  BY <1>2, <1>5 DEF Engaged, HandedOut
<1>9. Cardinality(HandedOut') <= MaxParallel
  <2>1. HandedOut \subseteq LoopNode
    BY DEF HandedOut
  <2> QED
    BY <1>8, <2>1, Smaller, SlotsNat DEF RefillTree
<1> QED
  BY <1>1, <1>4, <1>5, <1>7, <1>8, <1>9 DEF RefillTree

LEMMA RefillOutcomes ==
    ASSUME RefillPlaces, RefillTree, NoBypass, NEW n \in LoopNode,
           Refill!EpisodeEnds(n) \/ Refill!HandedBack(n) \/ Refill!ReviewEnds(n)
    PROVE  RefillTree' /\ Settles(n)
<1>0. /\ mem = disk /\ Stands(n) /\ disk[n] \in NodeState
      /\ job \in [LoopNode -> Refill!JobStage] /\ mem \in Tree
  BY RefillTrees DEF RefillPlaces, RefillTree, Refill!TypeOK, Tree
<1>1. Refill!Working(n)
  BY DEF Refill!Working
<1>2. ASSUME NEW x \in NodeState, Refill!Attempted(n, x)
      PROVE  /\ Refill!Save([mem EXCEPT ![n] = x])
             /\ \/ job'[n] \in {"again", "done", "failed"}
                \/ job'[n] = "cooling"
                \/ job'[n] = "reviewing" /\ mem'[n].status = "awaiting_review"
  BY <1>0, <1>2 DEF Refill!Attempted, Refill!Settled, Refill!Move
<1>3. ASSUME Refill!EpisodeEnds(n) PROVE RefillTree' /\ Settles(n)
  <2>1. PICK o : Refill!Attempted(n, Refill!AfterWriter(mem[n], o).node)
    BY <1>3 DEF Refill!EpisodeEnds
  <2>2. PICK x : x = Refill!AfterWriter(mem[n], o).node
    OBVIOUS
  <2>3. /\ x \in NodeState /\ WriterMoves(disk[n], x) /\ x.status \notin {"dispatched", "absent"}
    BY <1>0, <2>2, EpisodeLeaves
  <2>4. disk[n].status = "dispatched"
    BY <1>0, <1>3 DEF Stands, Refill!EpisodeEnds
  <2>5. /\ Refill!Save([mem EXCEPT ![n] = x])
        /\ \/ job'[n] \in {"again", "done", "failed"}
           \/ job'[n] = "cooling"
           \/ job'[n] = "reviewing" /\ mem'[n].status = "awaiting_review"
    BY <1>2, <2>1, <2>2, <2>3
  <2> QED
    BY <1>1, <2>3, <2>4, <2>5, RefillSettled
<1>4. ASSUME Refill!HandedBack(n) PROVE RefillTree' /\ Settles(n)
  <2>2. PICK x : x = Refill!Requeue(mem[n])
    OBVIOUS
  <2>3. x \in NodeState /\ WriterMoves(disk[n], x) /\ x.status \notin {"dispatched", "absent"}
    BY <1>0, <2>2, RequeueLeaves
  <2>4. disk[n].status = "dispatched" /\ Refill!Attempted(n, x)
    BY <1>0, <1>4, <2>2 DEF Stands, Refill!HandedBack
  <2>5. /\ Refill!Save([mem EXCEPT ![n] = x])
        /\ \/ job'[n] \in {"again", "done", "failed"}
           \/ job'[n] = "cooling"
           \/ job'[n] = "reviewing" /\ mem'[n].status = "awaiting_review"
    BY <1>2, <2>3, <2>4
  <2> QED
    BY <1>1, <2>3, <2>4, <2>5, RefillSettled
<1>5. ASSUME Refill!ReviewEnds(n) PROVE RefillTree' /\ Settles(n)
  <2>1. PICK v : Refill!Save([mem EXCEPT ![n] = Refill!AfterReview(mem[n], v).node])
    BY <1>5 DEF Refill!ReviewEnds
  <2>2. PICK x : x = Refill!AfterReview(mem[n], v).node
    OBVIOUS
  <2>3. /\ x \in NodeState /\ ReviewMoves(disk[n], x) /\ x.status \notin {"dispatched", "absent"}
    BY <1>0, <2>2, ReviewLeaves
  <2>4. disk[n].status = "awaiting_review" /\ job'[n] \in {"again", "done"}
    BY <1>0, <1>5 DEF Stands, Refill!ReviewEnds, Refill!Move
  <2>5. Refill!Save([mem EXCEPT ![n] = x])
    BY <2>1, <2>2
  <2> QED
    BY <1>1, <2>3, <2>4, <2>5, RefillSettled
<1> QED
  BY <1>3, <1>4, <1>5

(* Nodes that are sent out, by the loop or by a job in its retry loop.      *)
LEMMA RefillSent ==
    ASSUME RefillPlaces, RefillTree, loop \notin {"down", "ended"}, ~stopping,
           NEW S \in SUBSET LoopNode, S # {},
           \A n \in S : disk[n].status = "pending" /\ Ready(n) /\ resumeQ[n] = "no",
           Cardinality(Engaged \cup S) <= MaxParallel,
           Refill!Save([n \in LoopNode |-> IF n \in S THEN [mem[n] EXCEPT !.status = "dispatched"]
                                           ELSE mem[n]]),
           \A n \in LoopNode : job'[n] = IF n \in S THEN "boarding" ELSE job[n],
           resumeQ' = resumeQ
    PROVE  RefillTree' /\ HandsOut(S, MaxParallel)
<1> DEFINE t == [n \in LoopNode |-> IF n \in S THEN [disk[n] EXCEPT !.status = "dispatched"]
                                    ELSE disk[n]]
<1>0. disk \in Tree /\ mem = disk /\ \A n \in LoopNode : disk[n] \in NodeState
  BY RefillTrees DEF RefillPlaces, RefillTree, Tree
<1>1. \A n \in LoopNode : /\ [disk[n] EXCEPT !.status = "dispatched"] \in NodeState
                          /\ [disk[n] EXCEPT !.status = "dispatched"].status = "dispatched"
                          /\ [disk[n] EXCEPT !.status = "dispatched"].attempts = disk[n].attempts
  BY <1>0 DEF NodeState, Status, InFlightStatus
<1>2. t \in Tree
  BY <1>0, <1>1 DEF Tree
<1>3. Refill!SyncTree(t, disk, {}) = t
  <2>1. \A n \in LoopNode : \/ t[n] = disk[n]
                            \/ disk[n].status = "pending" /\ t[n].status = "dispatched"
    BY <1>1
  <2> HIDE DEF t
  <2> QED
    BY <1>0, <1>2, <2>1, WriteBack
<1>4. disk' = t /\ mem' = disk'
  <2>1. Refill!Save(t)
    BY <1>0
  <2> HIDE DEF t
  <2> QED
    BY <1>2, <1>3, <2>1, RefillSaves DEF RefillPlaces
<1>5. HandedOut \subseteq Engaged
  BY DEF RefillTree
<1>6. Engaged' = Engaged \cup S
  BY DEF Engaged
<1>7. HandedOut \cup S \subseteq Engaged \cup S /\ Engaged \cup S \subseteq LoopNode
  BY <1>5 DEF Engaged
<1>8. Cardinality(HandedOut \cup S) <= MaxParallel
  BY <1>7, Smaller, SlotsNat
<1>9. \A n \in LoopNode :
         /\ n \in S => disk'[n].status = "dispatched" /\ disk'[n].attempts = disk[n].attempts
         /\ n \notin S => disk'[n] = disk[n]
  BY <1>1, <1>4
<1>10. \A n \in S : Startable(n)
  BY DEF Startable, Ready, RefillTree, Stands
<1>11. HandsOut(S, MaxParallel)
  BY <1>4, <1>8, <1>10 DEF HandsOut
<1>12. TreeMoves(MaxParallel)
  BY <1>11 DEF TreeMoves
<1>13. ASSUME NEW n \in LoopNode PROVE Stands(n)'
  <2>1. CASE n \in S
    <3>1. Ready(n)'
      BY <1>12, <2>1, StaysReady
    <3>2. disk'[n].attempts < MaxAttempts
      BY <1>9, <1>10, <2>1 DEF Startable
    <3> QED
      BY <1>9, <2>1, <3>1, <3>2 DEF Stands
  <2>2. CASE n \notin S
    BY <1>9, <1>12, <2>2, StandsFrame DEF RefillTree
  <2> QED
    BY <2>1, <2>2
<1>14. HandedOut' = HandedOut \cup S
  BY <1>9 DEF HandedOut
<1>15. HandedOut' \subseteq Engaged'
  BY <1>5, <1>6, <1>14
<1>16. Cardinality(Engaged') <= MaxParallel /\ Cardinality(HandedOut') <= MaxParallel
  BY <1>6, <1>8, <1>14
<1> HIDE DEF t
<1> QED
  BY <1>4, <1>11, <1>13, <1>15, <1>16 DEF RefillTree

LEMMA RefillRetried ==
    ASSUME RefillPlaces, RefillTree, NEW n \in LoopNode, Refill!Retry(n), ~Refill!Halted
    PROVE  RefillTree' /\ HandsOut({n}, MaxParallel)
<1>1. /\ job[n] = "backoff" /\ Refill!Save([mem EXCEPT ![n].status = "dispatched"])
      /\ job' = [job EXCEPT ![n] = "boarding"] /\ resumeQ' = resumeQ /\ ~stopping
      /\ job \in [LoopNode -> Refill!JobStage] /\ mem \in Tree
  BY RefillTrees
     DEF Refill!Retry, Refill!Move, Refill!Halted, Refill!queue, RefillPlaces, Refill!TypeOK
<1>2. disk[n].status = "pending" /\ Ready(n) /\ resumeQ[n] = "no"
      /\ loop \notin {"down", "ended"}
  BY <1>1 DEF RefillTree, Stands, RefillPlaces
<1>3. [mem EXCEPT ![n].status = "dispatched"]
         = [m \in LoopNode |-> IF m \in {n} THEN [mem[m] EXCEPT !.status = "dispatched"]
                               ELSE mem[m]]
  BY <1>1 DEF Tree
<1>4. Engaged \cup {n} = Engaged
  BY <1>1 DEF Engaged
<1>5. Cardinality(Engaged \cup {n}) <= MaxParallel
  BY <1>4 DEF RefillTree
<1>6. \A m \in LoopNode : job'[m] = IF m \in {n} THEN "boarding" ELSE job[m]
  BY <1>1
<1>7. Refill!Save([m \in LoopNode |-> IF m \in {n} THEN [mem[m] EXCEPT !.status = "dispatched"]
                                      ELSE mem[m]])
  BY <1>1, <1>3
<1>8. {n} \in SUBSET LoopNode /\ {n} # {}
      /\ \A m \in {n} : disk[m].status = "pending" /\ Ready(m) /\ resumeQ[m] = "no"
  BY <1>2
<1> QED
  BY <1>1, <1>2, <1>5, <1>6, <1>7, <1>8, RefillSent

(* What the claimed tree offers is ready in the tree, and free.             *)
LEMMA RefillOffered ==
    ASSUME NEW t \in Tree, NEW n \in Refill!Offered(t)
    PROVE  /\ n \in LoopNode /\ job[n] = "idle" /\ t[n].status = "pending"
           /\ \A k \in LoopDependsOn[n] : t[k].status = "passed"
<1> DEFINE own == Refill!Running
           u == Refill!Claimed(t, own)
<1>1. \A m \in LoopNode : IF m \in own THEN u[m].status = "dispatched" ELSE u[m] = t[m]
  BY DEF Refill!Claimed, Tree, NodeState
<1>2. n \in LoopNode /\ u[n].status = "pending"
      /\ \A k \in LoopDependsOn[n] : u[k].status = "passed"
  BY DEF Refill!Offered, Refill!ReadyNodes, Refill!IsReady
<1> HIDE DEF u
<1>3. n \notin own /\ t[n].status = "pending"
  BY <1>1, <1>2
<1>4. ASSUME NEW k \in LoopDependsOn[n] PROVE t[k].status = "passed"
  <2>1. k \in LoopNode /\ u[k].status = "passed"
    BY <1>2, LoopsAssumption
  <2> QED
    BY <1>1, <2>1
<1> QED
  BY <1>2, <1>3, <1>4 DEF Refill!Running

LEMMA RefillWave ==
    ASSUME RefillPlaces, RefillTree, Refill!AnswerWave
    PROVE  RefillTree' /\ TreeMoves(MaxParallel)
<1>1. CASE UNCHANGED <<disk, mem, job>> /\ Refill!EndFill
  <2>1. disk' = disk /\ mem' = mem /\ job' = job /\ resumeQ' = resumeQ /\ stopping' = stopping
        /\ loop = "asking"
    BY <1>1 DEF Refill!AnswerWave, Refill!queue
  <2>2. /\ Engaged' = Engaged /\ HandedOut' = HandedOut
        /\ \A n \in LoopNode : Stands(n)' <=> Stands(n)
    BY <2>1 DEF Engaged, HandedOut, Stands, Ready
  <2> QED
    BY <2>1, <2>2 DEF RefillTree, TreeMoves
<1>2. CASE ~(UNCHANGED <<disk, mem, job>> /\ Refill!EndFill)
  <2>1. PICK S \in Refill!Waves(Refill!Offered(mem)) :
           /\ Refill!Save([n \in LoopNode |-> IF n \in S THEN [mem[n] EXCEPT !.status = "dispatched"]
                                                         ELSE mem[n]])
           /\ job' = [n \in LoopNode |-> IF n \in S THEN "boarding" ELSE job[n]]
    BY <1>2 DEF Refill!AnswerWave
  <2>2. /\ S \subseteq Refill!Offered(mem) /\ S # {}
        /\ Refill!Cardinality(S) <= cap - Refill!Cardinality(Refill!Running)
    BY <2>1 DEF Refill!Waves
  <2>3. mem = disk /\ mem \in Tree /\ loop = "asking" /\ resumeQ' = resumeQ /\ ~stopping
        /\ \A n \in LoopNode : resumeQ[n] = "no"
    BY RefillTrees DEF RefillPlaces, RefillTree, Refill!AnswerWave, Refill!queue
  <2>4. \A n \in S : n \in LoopNode /\ disk[n].status = "pending" /\ Ready(n)
    BY <2>2, <2>3, RefillOffered DEF Ready
  <2>5. Engaged = Refill!Running
    BY <2>3 DEF Engaged, Refill!Running
  <2>6. Cardinality(Engaged \cup S) <= MaxParallel
    <3>1. S \subseteq LoopNode /\ Engaged \subseteq LoopNode
      BY <2>4 DEF Engaged
    <3>2. Cardinality(S) <= cap - Cardinality(Engaged)
      BY <2>2, <2>5, SameCardinalities
    <3>3. Cardinality(Engaged \cup S) <= Cardinality(Engaged) + Cardinality(S)
      BY <3>1, Joined
    <3>4. Cardinality(S) \in Nat /\ Cardinality(Engaged) \in Nat /\ Cardinality(Engaged \cup S) \in Nat
      BY <3>1, LoopSets
    <3>5. cap \in Nat /\ cap <= MaxParallel
      BY SlotsNat DEF RefillPlaces, Refill!TypeOK
    <3> QED
      BY <3>2, <3>3, <3>4, <3>5, SlotsNat
  <2>7. S \in SUBSET LoopNode
    BY <2>4
  <2>8. \A n \in S : disk[n].status = "pending" /\ Ready(n) /\ resumeQ[n] = "no"
    BY <2>3, <2>4
  <2>9. \A n \in LoopNode : job'[n] = IF n \in S THEN "boarding" ELSE job[n]
    BY <2>1
  <2>10. RefillTree' /\ HandsOut(S, MaxParallel)
    BY <2>1, <2>2, <2>3, <2>6, <2>7, <2>8, <2>9, RefillSent
  <2> QED
    BY <2>7, <2>10 DEF TreeMoves
<1> QED
  BY <1>1, <1>2

LEMMA RefillTreeStep ==
    ASSUME RefillPlaces, RefillTree, NoBypass, NoBypass', Refill!Next
    PROVE  RefillTree' /\ TreeMoves(MaxParallel)
<1>1. CASE Refill!Operator
  <2>1. /\ disk' = disk /\ mem' = mem /\ job' = job /\ loop' = loop /\ resumeQ' = resumeQ
        /\ stopping' = stopping
    BY <1>1 DEF Refill!Operator, Refill!queue
  <2>2. /\ Engaged' = Engaged /\ HandedOut' = HandedOut
        /\ \A n \in LoopNode : Stands(n)' <=> Stands(n)
    BY <2>1 DEF Engaged, HandedOut, Stands, Ready
  <2> QED
    BY <2>1, <2>2 DEF RefillTree, TreeMoves
<1>2. CASE Refill!Start \/ Refill!Crash
  BY <1>2, RefillStartTree, RefillRestTree DEF TreeMoves
<1>3. ASSUME NEW n \in LoopNode, Refill!Admit(n) PROVE RefillTree' /\ TreeMoves(MaxParallel)
  BY <1>3, RefillAdmitTree DEF TreeMoves
<1>4. ASSUME NEW n \in LoopNode, Refill!Working(n) \/ Refill!JobRaises(n)
      PROVE  RefillTree' /\ TreeMoves(MaxParallel)
  <2>1. CASE \/ Refill!Board(n) \/ Refill!Cooled(n) \/ Refill!ResumeReview(n)
             \/ Refill!Again(n) \/ Refill!JobRaises(n)
             \/ Refill!Retry(n) /\ Refill!Halted
    BY <2>1, RefillQuietSteps DEF TreeMoves
  <2>2. CASE Refill!EpisodeEnds(n) \/ Refill!HandedBack(n) \/ Refill!ReviewEnds(n)
    BY <2>2, RefillOutcomes DEF TreeMoves
  <2>3. CASE Refill!Retry(n) /\ ~Refill!Halted
    <3>1. {n} \in SUBSET LoopNode
      OBVIOUS
    <3> QED
      BY <2>3, <3>1, RefillRetried DEF TreeMoves
  <2> QED
    BY <1>4, <2>1, <2>2, <2>3 DEF Refill!Working
<1>5. CASE \/ Refill!FillEnds \/ Refill!RoundHalted \/ Refill!NothingNew \/ Refill!Ask
           \/ Refill!AnswerNone \/ Refill!AnswerHalted \/ Refill!AnswerRaises
  BY <1>5, RefillLoopTree DEF TreeMoves
<1>6. CASE Refill!Reap \/ Refill!Drained
  BY <1>6, RefillRestTree DEF TreeMoves
<1>7. CASE Refill!AnswerWave
  BY <1>7, RefillWave
<1> QED
  BY <1>1, <1>2, <1>3, <1>4, <1>5, <1>6, <1>7 DEF Refill!Next, Refill!Step

-----------------------------------------------------------------------------
(* The first node of a set, in the order of tree.json. *)

LEMMA LeastOf ==
    ASSUME NEW N, N \subseteq Nat, N # {}
    PROVE  \E least \in N : \A k \in N : least <= k
<1> DEFINE R == OpToRel(<, Nat)
<1>1. IsWellFoundedOn(R, Nat)
  BY NatLessThanWellFounded
<1>2. \A j, k \in Nat : j < k <=> <<j, k>> \in R
  BY DEF OpToRel
<1> HIDE DEF R
<1>3. \E least \in N : \A k \in N : ~(<<k, least>> \in R)
  BY <1>1, WFMin
<1>4. PICK least \in N : \A k \in N : ~(<<k, least>> \in R)
  BY <1>3
<1>5. \A k \in N : least <= k
  <2> TAKE k \in N
  <2>1. k \in Nat /\ least \in Nat /\ ~(k < least)
    BY <1>2, <1>4
  <2> QED
    BY <2>1
<1> QED
  BY <1>4, <1>5

LEMMA FirstNode ==
    ASSUME NEW S, S \subseteq LoopNode, S # {}
    PROVE  /\ Refill!First(S) \in S /\ Serial!First(S) \in S
           /\ \A m \in S : LoopPosition[Refill!First(S)] <= LoopPosition[m]
<1>1. PICK least \in {LoopPosition[n] : n \in S} :
           \A k \in {LoopPosition[n] : n \in S} : least <= k
  <2>1. {LoopPosition[n] : n \in S} \subseteq Nat
    BY LoopsAssumption
  <2>2. {LoopPosition[n] : n \in S} # {}
    OBVIOUS
  <2> QED
    BY <2>1, <2>2, LeastOf
<1>2. \E n \in S : \A m \in S : LoopPosition[n] <= LoopPosition[m]
  BY <1>1
<1> QED
  BY <1>2 DEF Refill!First, Serial!First

-----------------------------------------------------------------------------
(* SerialLoop: types. *)

LEMMA SerialTrees == Serial!TypeOK => disk \in Tree /\ mem \in Tree
BY SameTypes DEF Serial!TypeOK, Tree

LEMMA SerialSaves ==
    ASSUME Serial!TypeOK, NEW t \in Tree, Serial!Save(t)
    PROVE  /\ disk' \in Tree /\ mem' = disk' /\ disk' = Refill!SyncTree(t, disk, {})
           /\ disk' \in [LoopNode -> Serial!NodeState] /\ mem' \in [LoopNode -> Serial!NodeState]
BY SerialTrees, WriteBackType, SameSync, SameTypes DEF Serial!Save, Tree

LEMMA SerialSynced == Serial!Synced = Refill!SyncTree(mem, disk, {})
BY SameSync DEF Serial!Synced

LEMMA SerialNodeSaved ==
    ASSUME Serial!TypeOK, NEW n, NEW x \in NodeState
    PROVE  [mem EXCEPT ![n] = x] \in Tree
BY SerialTrees DEF Tree

LEMMA SerialMarked ==
    ASSUME Serial!TypeOK, NEW n, NEW s \in {"dispatched", "awaiting_review"}
    PROVE  /\ [mem EXCEPT ![n].status = s] \in Tree
           /\ n \in LoopNode =>
                 /\ [mem EXCEPT ![n].status = s] = [mem EXCEPT ![n] = [mem[n] EXCEPT !.status = s]]
                 /\ [mem[n] EXCEPT !.status = s] \in NodeState
<1>1. mem \in Tree
  BY SerialTrees
<1>2. CASE n \in LoopNode
  <2>1. mem[n] \in NodeState
    BY <1>1, <1>2 DEF Tree
  <2>2. [mem[n] EXCEPT !.status = s] \in NodeState
    BY <2>1 DEF NodeState, Status, InFlightStatus
  <2>3. [mem EXCEPT ![n].status = s] = [mem EXCEPT ![n] = [mem[n] EXCEPT !.status = s]]
    OBVIOUS
  <2> QED
    BY <2>2, <2>3, SerialNodeSaved
<1>3. CASE n \notin LoopNode
  <2>1. [mem EXCEPT ![n].status = s] = mem
    BY <1>1, <1>3 DEF Tree
  <2> QED
    BY <1>1, <1>3, <2>1
<1> QED
  BY <1>2, <1>3

LEMMA SerialInit == Serial!Init => Serial!TypeOK
<1>1. FreshNode \in NodeState
  BY DEF FreshNode, NodeState, Status, InFlightStatus, Defect
<1>2. Serial!Init => /\ disk \in [LoopNode -> Serial!NodeState]
                     /\ mem \in [LoopNode -> Serial!NodeState]
  BY <1>1, SameTypes DEF Serial!Init
<1>3. 0 \in 0..RefillRounds /\ 0 \in 0..RefillStarts /\ 0 \in 0..MaxTroubles
  BY LoopsAssumption
<1> QED
  BY <1>2, <1>3 DEF Serial!Init, Serial!TypeOK

LEMMA SerialWorkingType ==
    ASSUME Serial!TypeOK, NEW n \in LoopNode, Serial!Working(n)
    PROVE  Serial!TypeOK'
<1> USE DEF Serial!Move, Serial!counters, Serial!TypeOK
<1>0. disk \in Tree /\ mem \in Tree /\ mem[n] \in NodeState
  BY SerialTrees DEF Tree
<1>1. \A stage : Serial!NextStage(n, stage) \in {"idle", "episode", "reviewing", "lastReview", "again"}
  BY DEF Serial!NextStage
<1>2. ASSUME Serial!Resume(n) PROVE Serial!TypeOK'
  <2>1. mem' \in [LoopNode -> Serial!NodeState]
    BY <1>2, <1>0, SerialMarked, SameTypes DEF Serial!Resume, Tree
  <2>2. resumeQ' \in [LoopNode -> {"no", "dispatch", "review"}]
        /\ job' \in [LoopNode -> {"idle", "episode", "reviewing", "lastReview", "again"}]
    BY <1>2 DEF Serial!Resume
  <2> QED
    BY <1>2, <2>1, <2>2 DEF Serial!Resume
<1>3. ASSUME Serial!EpisodeEnds(n) PROVE Serial!TypeOK'
  <2>1. PICK o : Serial!Save([mem EXCEPT ![n] = Serial!AfterWriter(mem[n], o).node])
    BY <1>3 DEF Serial!EpisodeEnds
  <2>2. disk' \in [LoopNode -> Serial!NodeState] /\ mem' \in [LoopNode -> Serial!NodeState]
    <3>1. PICK x : x = Serial!AfterWriter(mem[n], o).node
      OBVIOUS
    <3>2. x \in NodeState
      BY <1>0, <3>1, EpisodeLeaves, SameInSerial
    <3>3. [mem EXCEPT ![n] = x] \in Tree
      BY <3>2, SerialNodeSaved
    <3> QED
      BY <2>1, <3>1, <3>3, SerialSaves
  <2>3. crashes' \in 0..MaxTroubles
    BY <1>3, LoopsAssumption DEF Serial!EpisodeEnds, Serial!Trouble
  <2>4. job' \in [LoopNode -> {"idle", "episode", "reviewing", "lastReview", "again"}]
    BY <1>1, <1>3 DEF Serial!EpisodeEnds
  <2> QED
    BY <1>3, <2>2, <2>3, <2>4 DEF Serial!EpisodeEnds
<1>4. ASSUME Serial!HandedBack(n) PROVE Serial!TypeOK'
  <2>1. disk' \in [LoopNode -> Serial!NodeState] /\ mem' \in [LoopNode -> Serial!NodeState]
    BY <1>0, <1>4, RequeueLeaves, SameRequeue, SerialNodeSaved, SerialSaves
       DEF Serial!HandedBack
  <2>2. crashes' \in 0..MaxTroubles
    BY <1>4, LoopsAssumption DEF Serial!HandedBack, Serial!Trouble
  <2>3. job' \in [LoopNode -> {"idle", "episode", "reviewing", "lastReview", "again"}]
    BY <1>1, <1>4 DEF Serial!HandedBack
  <2> QED
    BY <1>4, <2>1, <2>2, <2>3 DEF Serial!HandedBack
<1>5. ASSUME Serial!ReviewEnds(n) PROVE Serial!TypeOK'
  <2>1. PICK v : Serial!Save([mem EXCEPT ![n] = Serial!AfterReview(mem[n], v).node])
    BY <1>5 DEF Serial!ReviewEnds
  <2>2. disk' \in [LoopNode -> Serial!NodeState] /\ mem' \in [LoopNode -> Serial!NodeState]
    BY <1>0, <2>1, ReviewLeaves, SameInSerial, SerialNodeSaved, SerialSaves
  <2>3. job' \in [LoopNode -> {"idle", "episode", "reviewing", "lastReview", "again"}]
    BY <1>1, <1>5 DEF Serial!ReviewEnds
  <2> QED
    BY <1>5, <2>2, <2>3 DEF Serial!ReviewEnds
<1>6. ASSUME Serial!Again(n) PROVE Serial!TypeOK'
  <2>1. \/ disk' = disk /\ mem' = mem
        \/ \E s \in {"dispatched", "awaiting_review"} : Serial!Save([mem EXCEPT ![n].status = s])
    BY <1>6 DEF Serial!Again
  <2>2. disk' \in [LoopNode -> Serial!NodeState] /\ mem' \in [LoopNode -> Serial!NodeState]
    BY <2>1, SerialMarked, SerialSaves
  <2>3. job' \in [LoopNode -> {"idle", "episode", "reviewing", "lastReview", "again"}]
    BY <1>6 DEF Serial!Again
  <2> QED
    BY <1>6, <2>2, <2>3 DEF Serial!Again
<1>7. ASSUME Serial!EpisodeRaises(n) PROVE Serial!TypeOK'
  BY <1>7 DEF Serial!EpisodeRaises
<1> QED
  BY <1>2, <1>3, <1>4, <1>5, <1>6, <1>7 DEF Serial!Working

(* A round is begun while one is left.                                      *)
SerialTyped == Serial!TypeOK /\ (loop = "asking" => rounds < RefillRounds)

LEMMA SerialTypeStep ==
    ASSUME SerialTyped, Serial!Next PROVE SerialTyped'
<1> USE DEF Serial!Move, Serial!counters, Serial!TypeOK, SerialTyped
<1>0. disk \in Tree /\ mem \in Tree
  BY SerialTrees
<1>1. CASE Serial!Start
  <2>1. starts' \in 0..RefillStarts /\ rounds' \in 0..RefillRounds
    BY <1>1, LoopsAssumption DEF Serial!Start
  <2> QED
    BY <1>1, <2>1 DEF Serial!Start
<1>2. CASE Serial!ListReviews
  BY <1>2 DEF Serial!ListReviews
<1>3. CASE Serial!Resumed
  BY <1>3 DEF Serial!Resumed
<1>4. CASE Serial!Ends \/ Serial!Ask
  <2>1. Serial!Synced \in [LoopNode -> Serial!NodeState]
    BY <1>0, SerialSynced, WriteBackType, SameTypes DEF Tree
  <2> QED
    BY <1>4, <2>1 DEF Serial!Ends, Serial!Ask
<1>5. CASE Serial!AnswerEnds
  BY <1>5 DEF Serial!AnswerEnds
<1>6. CASE Serial!Dispatch
  <2>1. PICK n : /\ Serial!Save([mem EXCEPT ![n].status = "dispatched"])
                 /\ job' = [job EXCEPT ![n] = "episode"]
    BY <1>6 DEF Serial!Dispatch
  <2>2. disk' \in [LoopNode -> Serial!NodeState] /\ mem' \in [LoopNode -> Serial!NodeState]
    BY <2>1, SerialMarked, SerialSaves
  <2>3. job' \in [LoopNode -> {"idle", "episode", "reviewing", "lastReview", "again"}]
    BY <2>1
  <2>4. rounds' \in 0..RefillRounds
    BY <1>6, LoopsAssumption DEF Serial!Dispatch
  <2> QED
    BY <1>6, <2>2, <2>3, <2>4 DEF Serial!Dispatch
<1>7. CASE Serial!Crash
  <2>1. crashes' \in 0..MaxTroubles /\ rounds' \in 0..RefillRounds
    BY <1>7, LoopsAssumption DEF Serial!Crash, Serial!Trouble
  <2> QED
    BY <1>7, <2>1 DEF Serial!Crash
<1>8. CASE Serial!Operator
  <2>1. crashes' \in 0..MaxTroubles
    BY <1>8, LoopsAssumption DEF Serial!Operator, Serial!Trouble
  <2>2. halt' \in BOOLEAN /\ bypass' \in [LoopNode -> BOOLEAN]
    BY <1>8 DEF Serial!Operator
  <2> QED
    BY <1>8, <2>1, <2>2 DEF Serial!Operator
<1>9. ASSUME NEW n \in LoopNode, Serial!Working(n) PROVE SerialTyped'
  <2>1. loop' # "asking" \/ UNCHANGED <<loop, rounds>>
    BY <1>9 DEF Serial!Working, Serial!Resume, Serial!EpisodeEnds, Serial!HandedBack,
                Serial!ReviewEnds, Serial!Again, Serial!EpisodeRaises
  <2> QED
    BY <1>9, <2>1, SerialWorkingType
<1> QED
  BY <1>1, <1>2, <1>3, <1>4, <1>5, <1>6, <1>7, <1>8, <1>9 DEF Serial!Next, Serial!Step

-----------------------------------------------------------------------------
(* SerialLoop: what is awaited, until a node is bypassed. *)

Awaited(n) ==
    /\ job[n] = "episode" \/ resumeQ[n] = "dispatch" => disk[n].status = "dispatched"
    /\ job[n] = "reviewing" \/ resumeQ[n] = "review" => disk[n].status = "awaiting_review"
    /\ job[n] = "again" => disk[n].status # "dispatched" /\ loop = "rounds"
    /\ job[n] # "lastReview"
    /\ resumeQ[n] # "no" => job[n] = "idle"
    /\ job[n] # "idle" \/ disk[n].status \in InFlightStatus => Ready(n)
    /\ disk[n].status \in {"pending"} \cup InFlightStatus => disk[n].attempts < MaxAttempts
    /\ disk[n].status = "dispatched" =>
          /\ loop \in {"reviewing", "rounds", "asking"} => job[n] = "episode"
          /\ loop = "dispatching" => job[n] = "episode" \/ resumeQ[n] = "dispatch"

(* One node is awaited, and one is with a writer; a decision is about a node
   that is ready.                                                           *)
SerialTree ==
    /\ mem = disk
    /\ \A n \in LoopNode : Awaited(n)
    /\ \A m, n \in LoopNode : job[m] # "idle" /\ job[n] # "idle" => m = n
    /\ \A m, n \in HandedOut : m = n
    /\ loop \in {"down", "ended", "asking"} => \A n \in LoopNode : job[n] = "idle"
    /\ loop = "asking" => Serial!ReadyNodes(disk) # {}

LEMMA SerialInitTree == Serial!Init => SerialTree
<1> SUFFICES ASSUME Serial!Init PROVE SerialTree
  OBVIOUS
<1>1. \A n \in LoopNode : disk[n] = FreshNode /\ job[n] = "idle" /\ resumeQ[n] = "no"
  BY SameTypes DEF Serial!Init
<1>2. \A n \in LoopNode : Awaited(n)
  BY <1>1, BudgetAssumption DEF Awaited, FreshNode, InFlightStatus
<1>3. HandedOut = {}
  BY <1>1 DEF HandedOut, FreshNode
<1> QED
  BY <1>1, <1>2, <1>3 DEF Serial!Init, SerialTree

LEMMA SerialSameTree ==
    ASSUME Serial!TypeOK, SerialTree PROVE Serial!Synced = disk /\ disk \in Tree /\ mem \in Tree
BY SerialTrees, WriteBackSame, SerialSynced DEF SerialTree

(* What the loop does between two nodes.                                    *)
LEMMA SerialLoopTree ==
    ASSUME Serial!TypeOK, SerialTree, NoBypass,
           \/ Serial!ListReviews \/ Serial!Resumed \/ Serial!Ends \/ Serial!Ask
           \/ Serial!AnswerEnds \/ Serial!Start \/ Serial!Crash
    PROVE  SerialTree' /\ disk' = disk
<1>0. Serial!Synced = disk /\ mem = disk
  BY SerialSameTree DEF SerialTree
<1>1. disk' = disk /\ mem' = disk
  BY <1>0 DEF Serial!ListReviews, Serial!Resumed, Serial!Ends, Serial!Ask, Serial!AnswerEnds,
              Serial!Start, Serial!Crash
<1>2. \A n \in LoopNode : job'[n] = "idle" /\ (job[n] = "idle" \/ Serial!Crash)
  BY DEF SerialTree, Serial!ListReviews, Serial!Resumed, Serial!Ends, Serial!Ask,
         Serial!AnswerEnds, Serial!Start, Serial!Crash, Serial!AtRound, Serial!Idle
<1>3. loop' = "asking" => Serial!ReadyNodes(disk) # {}
  BY <1>0 DEF Serial!ListReviews, Serial!Resumed, Serial!Ends, Serial!Ask, Serial!AnswerEnds,
              Serial!Start, Serial!Crash
<1>4. ASSUME NEW n \in LoopNode PROVE Awaited(n)'
  <2>0. Awaited(n) /\ resumeQ[n] \in {"no", "dispatch", "review"}
    BY DEF SerialTree, Serial!TypeOK
  <2>1. CASE Serial!ListReviews
    <3>1. disk[n].status # "dispatched"
      BY <1>2, <2>0, <2>1 DEF Serial!ListReviews, Serial!Queued, Serial!Idle, Awaited
    <3>2. resumeQ'[n] = IF disk[n].status = "awaiting_review" THEN "review" ELSE "no"
      BY <1>0, <2>1 DEF Serial!ListReviews, NoBypass
    <3> QED
      BY <1>1, <1>2, <2>0, <3>1, <3>2 DEF Awaited, Ready
  <2>2. CASE Serial!Resumed \/ Serial!Ends \/ Serial!Ask \/ Serial!AnswerEnds
    <3>1. /\ resumeQ' = resumeQ /\ loop' \in {"rounds", "asking", "ended"}
          /\ loop \in {"reviewing", "rounds", "asking"} /\ job[n] = "idle"
      BY <1>2, <2>2 DEF Serial!Resumed, Serial!Ends, Serial!Ask, Serial!AnswerEnds,
                        Serial!AtRound, Serial!Crash, Serial!Idle, SerialTree
    <3> QED
      BY <1>1, <1>2, <2>0, <3>1 DEF Awaited, Ready
  <2>3. CASE Serial!Start
    <3>1. resumeQ'[n] = (IF disk[n].status = "dispatched" THEN "dispatch" ELSE "no")
          /\ loop' = "dispatching"
      BY <2>3 DEF Serial!Start
    <3> QED
      BY <1>1, <1>2, <2>0, <3>1 DEF Awaited, Ready
  <2>4. CASE Serial!Crash
    <3>1. resumeQ'[n] = "no" /\ loop' = "down"
      BY <2>4 DEF Serial!Crash
    <3> QED
      BY <1>1, <1>2, <2>0, <3>1 DEF Awaited, Ready
  <2> QED
    BY <2>1, <2>2, <2>3, <2>4
<1>5. HandedOut' = HandedOut
  BY <1>1 DEF HandedOut
<1>6. Serial!ReadyNodes(disk)' = Serial!ReadyNodes(disk)
  BY <1>1 DEF Serial!ReadyNodes, Serial!IsReady
<1> QED
  BY <1>1, <1>2, <1>3, <1>4, <1>5, <1>6 DEF SerialTree

(* The step of the one node that is awaited.                                *)
LEMMA SerialNodeTree ==
    ASSUME Serial!TypeOK, SerialTree, NEW n \in LoopNode,
           \A m \in LoopNode : m # n => /\ job[m] = "idle" /\ job'[m] = "idle"
                                        /\ disk'[m] = disk[m]
                                        /\ resumeQ'[m] = resumeQ[m] \/ resumeQ'[m] = "no",
           mem' = disk', NEW slots, TreeMoves(slots), Awaited(n)',
           loop' = loop \/ loop' \in {"rounds", "ended"},
           loop = "asking" => loop' \in {"rounds", "ended"},
           disk'[n].status = "dispatched" /\ disk[n].status # "dispatched" => HandedOut = {},
           resumeQ' = resumeQ \/ \A m \in LoopNode \ {n} : resumeQ'[m] = resumeQ[m],
           loop' # loop => loop = "asking" \/ loop' = "ended",
           loop' = "ended" => job'[n] = "idle",
           loop \notin {"down", "ended"}
    PROVE  SerialTree'
<1>1. ASSUME NEW m \in LoopNode, m # n PROVE Awaited(m)'
  <2>1. Awaited(m) /\ job[m] = "idle" /\ job'[m] = "idle" /\ disk'[m] = disk[m]
        /\ resumeQ'[m] = resumeQ[m]
    BY <1>1 DEF SerialTree
  <2>2. Ready(m) => Ready(m)'
    BY StaysReady
  <2>3. loop' = "dispatching" => loop = "dispatching"
    OBVIOUS
  <2>4. loop' \in {"reviewing", "rounds", "asking"} => loop \in {"reviewing", "rounds", "asking"}
    OBVIOUS
  <2> QED
    BY <2>1, <2>2, <2>3, <2>4 DEF Awaited
<1>2. \A k, m \in HandedOut' : k = m
  <2>1. \A m \in HandedOut' : m = n \/ m \in HandedOut
    BY DEF HandedOut
  <2>2. CASE HandedOut = {}
    BY <2>1, <2>2
  <2>3. CASE HandedOut # {}
    <3>1. HandedOut' \subseteq HandedOut
      BY <2>1, <2>3 DEF HandedOut
    <3> QED
      BY <3>1 DEF SerialTree
  <2> QED
    BY <2>2, <2>3
<1> QED
  BY <1>1, <1>2 DEF SerialTree

(* The node that is awaited is the only one with a job.                     *)
LEMMA SerialAlone ==
    ASSUME Serial!TypeOK, SerialTree, NEW n \in LoopNode, job[n] # "idle"
    PROVE  /\ \A m \in LoopNode : m # n => job[m] = "idle"
           /\ loop \notin {"down", "ended", "asking"}
           /\ Awaited(n) /\ resumeQ[n] = "no" /\ Ready(n)
           /\ mem = disk /\ disk \in Tree /\ mem \in Tree /\ disk[n] \in NodeState
           /\ job \in [LoopNode -> {"idle", "episode", "reviewing", "lastReview", "again"}]
BY SerialTrees DEF SerialTree, Awaited, Serial!TypeOK, Tree

LEMMA SerialSettled ==
    ASSUME Serial!TypeOK, SerialTree, NEW n \in LoopNode, job[n] # "idle",
           NEW x \in NodeState, Serial!Save([mem EXCEPT ![n] = x]),
           x.status \notin {"dispatched", "absent"},
           \/ disk[n].status = "dispatched" /\ WriterMoves(disk[n], x)
           \/ disk[n].status = "awaiting_review" /\ ReviewMoves(disk[n], x),
           NEW stage \in {"idle", "again", "reviewing"}, job' = [job EXCEPT ![n] = stage],
           stage = "again" => loop = "rounds",
           stage = "reviewing" => mem'[n].status = "awaiting_review",
           resumeQ' = resumeQ, loop' = loop
    PROVE  SerialTree' /\ Settles(n)
<1>0. /\ \A m \in LoopNode : m # n => job[m] = "idle"
      /\ loop \notin {"down", "ended", "asking"}
      /\ Awaited(n) /\ resumeQ[n] = "no" /\ Ready(n)
      /\ mem = disk /\ disk \in Tree /\ mem \in Tree /\ disk[n] \in NodeState
      /\ job \in [LoopNode -> {"idle", "episode", "reviewing", "lastReview", "again"}]
  BY SerialAlone
<1>1. disk' = [disk EXCEPT ![n] = x] /\ mem' = disk'
  <2>1. [mem EXCEPT ![n] = x] \in Tree
    BY SerialNodeSaved
  <2>2. Refill!SyncTree([mem EXCEPT ![n] = x], disk, {}) = [mem EXCEPT ![n] = x]
    <3>1. \A k \in LoopNode : \/ [mem EXCEPT ![n] = x][k] = disk[k]
                              \/ /\ disk[k].status \in InFlightStatus
                                 /\ [mem EXCEPT ![n] = x][k].status # "absent"
      BY <1>0 DEF InFlightStatus, Tree
    <3>2. PICK t \in Tree : t = [mem EXCEPT ![n] = x]
      BY <2>1
    <3>3. \A k \in LoopNode : \/ t[k] = disk[k]
                              \/ disk[k].status \in InFlightStatus /\ t[k].status # "absent"
      BY <3>1, <3>2
    <3>4. disk \in Tree
      BY <1>0
    <3>5. Refill!SyncTree(t, disk, {}) = t
      BY <3>3, <3>4, WriteBack
    <3> QED
      BY <3>2, <3>5
  <2> QED
    BY <1>0, <2>1, <2>2, SerialSaves
<1>2. disk'[n] = x /\ \A m \in LoopNode : m # n => disk'[m] = disk[m]
  BY <1>0, <1>1 DEF Tree
<1>3. disk[n].attempts < MaxAttempts
  BY <1>0 DEF Awaited, InFlightStatus
<1>4. Settles(n)
  BY <1>2, <1>3 DEF Settles
<1>5. TreeMoves(1)
  BY <1>4 DEF TreeMoves
<1>6. Awaited(n)'
  <2>1. Ready(n)'
    BY <1>0, <1>5, StaysReady
  <2>2. x.status \in {"pending"} \cup InFlightStatus => x.attempts < MaxAttempts
    <3>1. x.attempts \in Nat /\ disk[n].attempts \in Nat /\ MaxAttempts \in Nat
      BY <1>0, BudgetAssumption DEF NodeState
    <3> QED
      BY <1>3, <3>1 DEF WriterMoves, ReviewMoves, Charged, InFlightStatus
  <2>3. job'[n] = stage
    BY <1>0
  <2>4. stage = "reviewing" => x.status = "awaiting_review"
    BY <1>1, <1>2
  <2> QED
    BY <1>0, <1>2, <2>1, <2>2, <2>3, <2>4 DEF Awaited
<1>7. \A m \in LoopNode : m # n => /\ job[m] = "idle" /\ job'[m] = "idle"
                                   /\ disk'[m] = disk[m]
                                   /\ resumeQ'[m] = resumeQ[m] \/ resumeQ'[m] = "no"
  BY <1>0, <1>2
<1>8. disk'[n].status = "dispatched" /\ disk[n].status # "dispatched" => HandedOut = {}
  BY <1>2
<1> QED
  BY <1>0, <1>1, <1>4, <1>5, <1>6, <1>7, <1>8, SerialNodeTree

LEMMA SerialOutcomes ==
    ASSUME Serial!TypeOK, SerialTree, NoBypass, NEW n \in LoopNode,
           Serial!EpisodeEnds(n) \/ Serial!HandedBack(n) \/ Serial!ReviewEnds(n)
    PROVE  SerialTree' /\ Settles(n)
<1>0. job[n] \in {"episode", "reviewing"}
  BY DEF Serial!EpisodeEnds, Serial!HandedBack, Serial!ReviewEnds, SerialTree, Awaited
<1>1. /\ Awaited(n) /\ mem = disk /\ disk[n] \in NodeState
      /\ resumeQ' = resumeQ /\ loop' = loop
  BY <1>0, SerialAlone DEF Serial!EpisodeEnds, Serial!HandedBack, Serial!ReviewEnds
<1>2. PICK stage \in {"idle", "again", "reviewing"} :
         /\ job' = [job EXCEPT ![n] = stage]
         /\ stage = "again" => loop = "rounds"
         /\ stage = "reviewing" => mem'[n].status = "awaiting_review"
  BY <1>0 DEF Serial!EpisodeEnds, Serial!HandedBack, Serial!ReviewEnds, Serial!NextStage,
              Serial!Move
<1>3. \E x \in NodeState :
         /\ Serial!Save([mem EXCEPT ![n] = x])
         /\ x.status \notin {"dispatched", "absent"}
         /\ \/ disk[n].status = "dispatched" /\ WriterMoves(disk[n], x)
            \/ disk[n].status = "awaiting_review" /\ ReviewMoves(disk[n], x)
  <2>1. CASE Serial!EpisodeEnds(n)
    <3>1. PICK o : Serial!Save([mem EXCEPT ![n] = Serial!AfterWriter(mem[n], o).node])
      BY <2>1 DEF Serial!EpisodeEnds
    <3>2. PICK x : x = Serial!AfterWriter(mem[n], o).node
      OBVIOUS
    <3>3. x = Refill!AfterWriter(disk[n], o).node
      BY <1>1, <3>2, SameInSerial
    <3>4. x \in NodeState /\ WriterMoves(disk[n], x) /\ x.status \notin {"dispatched", "absent"}
      BY <1>1, <3>3, EpisodeLeaves
    <3>5. disk[n].status = "dispatched"
      BY <1>1, <2>1 DEF Awaited, Serial!EpisodeEnds
    <3> QED
      BY <3>1, <3>2, <3>4, <3>5
  <2>2. CASE Serial!HandedBack(n)
    <3>1. PICK x : x = Serial!Requeue(mem[n])
      OBVIOUS
    <3>2. x = Refill!Requeue(disk[n])
      BY <1>1, <3>1, SameRequeue
    <3>3. x \in NodeState /\ WriterMoves(disk[n], x) /\ x.status \notin {"dispatched", "absent"}
      BY <1>1, <3>2, RequeueLeaves
    <3>4. disk[n].status = "dispatched" /\ Serial!Save([mem EXCEPT ![n] = x])
      BY <1>1, <2>2, <3>1 DEF Awaited, Serial!HandedBack
    <3> QED
      BY <3>3, <3>4
  <2>3. CASE Serial!ReviewEnds(n)
    <3>1. PICK v : Serial!Save([mem EXCEPT ![n] = Serial!AfterReview(mem[n], v).node])
      BY <2>3 DEF Serial!ReviewEnds
    <3>2. PICK x : x = Serial!AfterReview(mem[n], v).node
      OBVIOUS
    <3>3. x = Refill!AfterReview(disk[n], v).node
      BY <1>1, <3>2, SameInSerial
    <3>4. x \in NodeState /\ ReviewMoves(disk[n], x) /\ x.status \notin {"dispatched", "absent"}
      BY <1>1, <3>3, ReviewLeaves
    <3>5. disk[n].status = "awaiting_review"
      BY <1>0, <1>1, <2>3 DEF Awaited, Serial!ReviewEnds
    <3> QED
      BY <3>1, <3>2, <3>4, <3>5
  <2> QED
    BY <2>1, <2>2, <2>3
<1> QED
  BY <1>0, <1>1, <1>2, <1>3, SerialSettled

(* The one node that is sent out, by a decision or a retry.                 *)
LEMMA SerialSent ==
    ASSUME Serial!TypeOK, SerialTree, NEW n \in LoopNode,
           \A m \in LoopNode : m # n => job[m] = "idle",
           disk[n].status = "pending", Ready(n), HandedOut = {}, resumeQ[n] = "no",
           Serial!Save([mem EXCEPT ![n].status = "dispatched"]),
           job' = [job EXCEPT ![n] = "episode"], resumeQ' = resumeQ,
           loop \in {"asking", "rounds"}, loop' = "rounds"
    PROVE  SerialTree' /\ HandsOut({n}, 1)
<1> DEFINE x == [disk[n] EXCEPT !.status = "dispatched"]
<1>0. /\ mem = disk /\ disk \in Tree /\ disk[n] \in NodeState /\ mem \in Tree
      /\ job \in [LoopNode -> {"idle", "episode", "reviewing", "lastReview", "again"}]
  BY SerialTrees DEF SerialTree, Serial!TypeOK, Tree
<1>1. /\ x \in NodeState /\ x.status = "dispatched" /\ x.attempts = disk[n].attempts
      /\ [mem EXCEPT ![n].status = "dispatched"] = [mem EXCEPT ![n] = x]
      /\ [mem EXCEPT ![n] = x] \in Tree
  BY <1>0, SerialMarked DEF NodeState
<1> HIDE DEF x
<1>2. Refill!SyncTree([mem EXCEPT ![n] = x], disk, {}) = [mem EXCEPT ![n] = x]
  <2>1. \A k \in LoopNode : \/ [mem EXCEPT ![n] = x][k] = disk[k]
                            \/ /\ disk[k].status = "pending"
                               /\ [mem EXCEPT ![n] = x][k].status = "dispatched"
    BY <1>0, <1>1 DEF Tree
  <2> QED
    BY <1>0, <1>1, <2>1, WriteBack
<1>3. disk' = [mem EXCEPT ![n] = x] /\ mem' = disk'
  BY <1>1, <1>2, SerialSaves
<1>4. disk'[n] = x /\ \A m \in LoopNode : m # n => disk'[m] = disk[m]
  BY <1>0, <1>3 DEF Tree
<1>5. Startable(n)
  BY DEF Startable, Ready, SerialTree, Awaited
<1>6. HandsOut({n}, 1)
  <2>1. Cardinality(HandedOut \cup {n}) <= 1
    <3>1. HandedOut \cup {n} = {n} /\ Cardinality({n}) = 1
      BY FS_Singleton
    <3> QED
      BY <3>1
  <2> QED
    BY <1>4, <1>5, <2>1 DEF HandsOut, x
<1>7. TreeMoves(1)
  <2>1. {n} \in SUBSET LoopNode
    OBVIOUS
  <2> QED
    BY <1>6, <2>1 DEF TreeMoves
<1>8. Awaited(n)'
  <2>1. Ready(n)'
    BY <1>7, StaysReady
  <2>2. job'[n] = "episode" /\ resumeQ'[n] = "no" /\ disk'[n].status = "dispatched"
    BY <1>0, <1>1, <1>4
  <2>3. disk'[n].attempts < MaxAttempts
    BY <1>1, <1>4, <1>5 DEF Startable
  <2> QED
    BY <2>1, <2>2, <2>3 DEF Awaited
<1>9. \A m \in LoopNode : m # n => /\ job[m] = "idle" /\ job'[m] = "idle"
                                   /\ disk'[m] = disk[m]
                                   /\ resumeQ'[m] = resumeQ[m] \/ resumeQ'[m] = "no"
  BY <1>0, <1>4
<1> QED
  BY <1>3, <1>6, <1>7, <1>8, <1>9, SerialNodeTree

LEMMA SerialResumes ==
    ASSUME Serial!TypeOK, SerialTree, NEW n \in LoopNode, Serial!Resume(n)
    PROVE  SerialTree' /\ disk' = disk
<1>0. /\ mem = disk /\ disk \in Tree /\ Awaited(n) /\ resumeQ[n] \in {"dispatch", "review"}
      /\ \A m \in LoopNode : job[m] = "idle"
      /\ job \in [LoopNode -> {"idle", "episode", "reviewing", "lastReview", "again"}]
      /\ resumeQ \in [LoopNode -> {"no", "dispatch", "review"}]
  BY SerialTrees DEF SerialTree, Serial!TypeOK, Serial!Resume, Serial!Idle
<1>1. mem' = disk /\ disk' = disk
  <2>1. CASE resumeQ[n] = "review"
    <3>1. disk[n].status = "awaiting_review" /\ disk[n] \in NodeState
      BY <1>0, <2>1 DEF Awaited, Tree
    <3>2. [mem EXCEPT ![n].status = "awaiting_review"] = mem
      BY <1>0, <3>1 DEF Tree, NodeState
    <3> QED
      BY <1>0, <2>1, <3>2 DEF Serial!Resume
  <2>2. CASE resumeQ[n] # "review"
    BY <1>0, <2>2 DEF Serial!Resume
  <2> QED
    BY <2>1, <2>2
<1>2. /\ job'[n] = IF resumeQ[n] = "dispatch" THEN "episode" ELSE "reviewing"
      /\ resumeQ'[n] = "no" /\ loop' = loop /\ loop \in {"dispatching", "reviewing"}
      /\ \A m \in LoopNode : m # n => job'[m] = "idle" /\ resumeQ'[m] = resumeQ[m]
  BY <1>0 DEF Serial!Resume, Serial!Move
<1>3. Awaited(n)'
  BY <1>0, <1>1, <1>2 DEF Awaited, Ready, InFlightStatus
<1>4. TreeMoves(1)
  BY <1>1 DEF TreeMoves
<1> QED
  BY <1>0, <1>1, <1>2, <1>3, <1>4, SerialNodeTree

LEMMA SerialAgains ==
    ASSUME Serial!TypeOK, SerialTree, NoBypass, NEW n \in LoopNode, Serial!Again(n)
    PROVE  SerialTree' /\ TreeMoves(1)
<1>0. /\ \A m \in LoopNode : m # n => job[m] = "idle"
      /\ Awaited(n) /\ resumeQ[n] = "no" /\ Ready(n) /\ mem = disk /\ loop = "rounds"
      /\ job[n] = "again" /\ resumeQ' = resumeQ /\ loop' = loop
      /\ job \in [LoopNode -> {"idle", "episode", "reviewing", "lastReview", "again"}]
  <2>1. job[n] = "again" /\ resumeQ' = resumeQ /\ loop' = loop
    BY DEF Serial!Again
  <2>2. job[n] # "idle"
    BY <2>1
  <2> QED
    BY <2>1, <2>2, SerialAlone DEF Awaited
<1>1. CASE job' = [job EXCEPT ![n] = "idle"] /\ UNCHANGED <<disk, mem>>
  <2>1. job'[n] = "idle" /\ disk' = disk /\ mem' = disk
        /\ \A m \in LoopNode : m # n => job'[m] = "idle"
    BY <1>0, <1>1
  <2>2. Awaited(n)'
    BY <1>0, <2>1 DEF Awaited, Ready
  <2>3. TreeMoves(1)
    BY <2>1 DEF TreeMoves
  <2> QED
    BY <1>0, <2>1, <2>2, <2>3, SerialNodeTree
<1>2. CASE /\ Serial!Retriable(n) /\ Serial!Save([mem EXCEPT ![n].status = "dispatched"])
           /\ job' = [job EXCEPT ![n] = "episode"]
  <2>1. disk[n].status = "pending"
    BY <1>0, <1>2 DEF Serial!Retriable
  <2>2. HandedOut = {}
    BY <1>0 DEF HandedOut, SerialTree, Awaited
  <2>3. SerialTree' /\ HandsOut({n}, 1)
    BY <1>0, <1>2, <2>1, <2>2, SerialSent
  <2>4. {n} \in SUBSET LoopNode
    OBVIOUS
  <2> QED
    BY <2>3, <2>4 DEF TreeMoves
<1> QED
  BY <1>1, <1>2 DEF Serial!Again, Serial!Move, NoBypass

LEMMA SerialRaises ==
    ASSUME Serial!TypeOK, SerialTree, NEW n \in LoopNode, Serial!EpisodeRaises(n)
    PROVE  SerialTree' /\ disk' = disk
<1>0. /\ \A m \in LoopNode : m # n => job[m] = "idle"
      /\ loop \notin {"down", "ended", "asking"}
      /\ Awaited(n) /\ mem = disk /\ disk' = disk /\ mem' = disk /\ resumeQ' = resumeQ
      /\ loop' = "ended" /\ \A m \in LoopNode : job'[m] = "idle"
  <2>1. job[n] # "idle"
    BY DEF Serial!EpisodeRaises
  <2> QED
    BY <2>1, SerialAlone DEF Serial!EpisodeRaises
<1>1. Awaited(n)'
  BY <1>0 DEF Awaited, Ready
<1>2. TreeMoves(1)
  BY <1>0 DEF TreeMoves
<1> QED
  BY <1>0, <1>1, <1>2, SerialNodeTree

LEMMA SerialDispatches ==
    ASSUME Serial!TypeOK, SerialTree, Serial!Dispatch
    PROVE  SerialTree' /\ TreeMoves(1)
<1> DEFINE ready == Serial!ReadyNodes(disk)
<1>0. /\ mem = disk /\ loop = "asking" /\ loop' = "rounds" /\ resumeQ' = resumeQ
      /\ ready # {} /\ ready \subseteq LoopNode /\ \A m \in LoopNode : job[m] = "idle"
  BY DEF Serial!Dispatch, SerialTree, Serial!ReadyNodes
<1>1. Serial!First(ready) \in ready
  <2> HIDE DEF ready
  <2> QED
    BY <1>0, FirstNode
<1>2. PICK n \in Serial!Chosen(ready) :
         /\ Serial!Save([mem EXCEPT ![n].status = "dispatched"])
         /\ job' = [job EXCEPT ![n] = "episode"]
  BY <1>0 DEF Serial!Dispatch, Serial!Move
<1>3. n \in ready
  BY <1>1 DEF Serial!Chosen
<1>4. n \in LoopNode /\ disk[n].status = "pending" /\ Ready(n)
  BY <1>3 DEF Serial!ReadyNodes, Serial!IsReady, Ready
<1>5. HandedOut = {} /\ resumeQ[n] = "no"
  <2>1. HandedOut = {}
    BY <1>0 DEF HandedOut, SerialTree, Awaited
  <2>2. resumeQ[n] = "no"
    BY <1>0, <1>4 DEF SerialTree, Awaited, Serial!TypeOK
  <2> QED
    BY <2>1, <2>2
<1>6. SerialTree' /\ HandsOut({n}, 1)
  BY <1>0, <1>2, <1>4, <1>5, SerialSent
<1>7. {n} \in SUBSET LoopNode
  BY <1>4
<1> QED
  BY <1>6, <1>7 DEF TreeMoves

LEMMA SerialTreeStep ==
    ASSUME Serial!TypeOK, SerialTree, NoBypass, NoBypass', Serial!Next
    PROVE  SerialTree' /\ TreeMoves(1)
<1>1. CASE Serial!Operator
  <2>1. /\ disk' = disk /\ mem' = mem /\ job' = job /\ loop' = loop /\ resumeQ' = resumeQ
    BY <1>1 DEF Serial!Operator
  <2>2. /\ HandedOut' = HandedOut /\ Serial!ReadyNodes(disk)' = Serial!ReadyNodes(disk)
        /\ \A n \in LoopNode : Awaited(n)' <=> Awaited(n)
    BY <2>1 DEF HandedOut, Awaited, Ready, Serial!ReadyNodes, Serial!IsReady
  <2> QED
    BY <2>1, <2>2 DEF SerialTree, TreeMoves
<1>2. CASE \/ Serial!ListReviews \/ Serial!Resumed \/ Serial!Ends \/ Serial!Ask
           \/ Serial!AnswerEnds \/ Serial!Start \/ Serial!Crash
  BY <1>2, SerialLoopTree DEF TreeMoves
<1>3. CASE Serial!Dispatch
  BY <1>3, SerialDispatches
<1>4. ASSUME NEW n \in LoopNode, Serial!Working(n) PROVE SerialTree' /\ TreeMoves(1)
  <2>1. CASE Serial!EpisodeEnds(n) \/ Serial!HandedBack(n) \/ Serial!ReviewEnds(n)
    BY <2>1, SerialOutcomes DEF TreeMoves
  <2>2. CASE Serial!Resume(n) \/ Serial!EpisodeRaises(n)
    BY <2>2, SerialResumes, SerialRaises DEF TreeMoves
  <2>3. CASE Serial!Again(n)
    BY <2>3, SerialAgains
  <2> QED
    BY <1>4, <2>1, <2>2, <2>3 DEF Serial!Working
<1> QED
  BY <1>1, <1>2, <1>3, <1>4 DEF Serial!Next, Serial!Step

-----------------------------------------------------------------------------
(* RefillLoop: a slot is kept free only when there is nothing for it. *)

LEMMA RefillWaveStarts ==
    ASSUME RefillPlaces, Refill!AnswerWave
    PROVE  \E S \in SUBSET LoopNode :
              /\ S # {} /\ \A n \in S : job[n] = "idle"
              /\ job' = [n \in LoopNode |-> IF n \in S THEN "boarding" ELSE job[n]]
<1> DEFINE ready == Refill!Offered(mem)
<1>1. \A n \in ready : n \in LoopNode /\ job[n] = "idle"
  BY RefillTrees, RefillOffered DEF RefillPlaces
<1>2. ready # {}
  BY DEF Refill!AnswerWave
<1>3. Refill!Chosen(ready) # {} /\ Refill!Chosen(ready) \subseteq ready
  <2>1. ready \subseteq LoopNode
    BY <1>1
  <2> HIDE DEF ready
  <2>2. Refill!First(ready) \in ready
    BY <1>2, <2>1, FirstNode
  <2> QED
    BY <1>2, <2>2 DEF Refill!Chosen
<1>4. ~(Refill!Chosen(ready) \subseteq Refill!Running)
  BY <1>1, <1>3 DEF Refill!Running
<1>5. PICK S \in Refill!Waves(ready) :
         job' = [n \in LoopNode |-> IF n \in S THEN "boarding" ELSE job[n]]
  BY <1>4 DEF Refill!AnswerWave
<1>6. S # {} /\ S \subseteq ready
  BY <1>5 DEF Refill!Waves
<1>7. S \in SUBSET LoopNode /\ \A n \in S : job[n] = "idle"
  BY <1>1, <1>6
<1> QED
  BY <1>5, <1>6, <1>7

LEMMA RefillFills == ASSUME RefillPlaces, Refill!Next PROVE Refill!FillsSlots
<1> SUFFICES ASSUME loop # "waiting", loop' = "waiting", ~stopping', ~noNewWork',
                    ~(rounds' >= RefillRounds), job' = job,
                    ~(Refill!Cardinality(Refill!Running) >= cap)
             PROVE  Refill!ReadyNodes(Refill!Claimed(mem', Refill!Running)) = {}
  BY DEF Refill!FillsSlots
<1>1. Refill!NothingNew \/ Refill!Offered(mem') = {}
      => Refill!ReadyNodes(Refill!Claimed(mem', Refill!Running)) = {}
  BY DEF Refill!NothingNew, Refill!Offered
<1>2. ~Refill!FillEnds
  <2>1. Refill!Cardinality(Refill!Running) < cap
    <3>1. Refill!Running \subseteq LoopNode
      BY DEF Refill!Running
    <3>2. Refill!Cardinality(Refill!Running) \in Nat
      BY <3>1, LoopSets, SameCardinalities
    <3>3. cap \in Nat
      BY SlotsNat DEF RefillPlaces, Refill!TypeOK
    <3> QED
      BY <3>2, <3>3
  <2> QED
    BY <2>1 DEF Refill!FillEnds, Refill!MayStart, Refill!queue
<1>3. ~Refill!RoundHalted /\ ~Refill!AnswerNone /\ ~Refill!AnswerHalted
  BY DEF Refill!RoundHalted, Refill!AnswerNone, Refill!AnswerHalted
<1>4. ~Refill!AnswerWave
  <2> SUFFICES ASSUME Refill!AnswerWave PROVE FALSE
    OBVIOUS
  <2>1. PICK S \in SUBSET LoopNode :
           /\ S # {} /\ \A n \in S : job[n] = "idle"
           /\ job' = [n \in LoopNode |-> IF n \in S THEN "boarding" ELSE job[n]]
    BY RefillWaveStarts
  <2>2. PICK n \in S : job[n] = "idle" /\ job'[n] = "boarding"
    BY <2>1
  <2> QED
    BY <2>2
<1>5. \A n \in LoopNode : ~Refill!Working(n) /\ ~Refill!JobRaises(n) /\ ~Refill!Admit(n)
  BY RefillJobFrame DEF Refill!Admit
<1>6. /\ ~Refill!Ask /\ ~Refill!AnswerRaises /\ ~Refill!Reap /\ ~Refill!Drained
      /\ ~Refill!Start /\ ~Refill!Crash /\ ~Refill!Operator
  BY DEF Refill!Ask, Refill!AnswerRaises, Refill!Reap, Refill!Drained, Refill!Start,
         Refill!Crash, Refill!Operator
<1> QED
  BY <1>1, <1>2, <1>3, <1>4, <1>5, <1>6 DEF Refill!Next, Refill!Step

LEMMA RefillStops == ASSUME RefillPlaces, Refill!Next PROVE Refill!StopsRetries
<1> SUFFICES ASSUME NEW n \in LoopNode, job[n] = "backoff", job'[n] = "boarding"
             PROVE  ~Refill!Halted
  BY DEF Refill!StopsRetries
<1>0. job \in [LoopNode -> Refill!JobStage]
  BY DEF RefillPlaces, Refill!TypeOK
<1>1. ASSUME NEW m \in LoopNode, Refill!Working(m) \/ Refill!JobRaises(m) PROVE Refill!Retry(n)
  <2>1. m = n
    BY <1>0, <1>1, RefillJobFrame
  <2> QED
    BY <1>1, <2>1
       DEF Refill!Working, Refill!JobRaises, Refill!Board, Refill!EpisodeEnds,
           Refill!HandedBack, Refill!Cooled, Refill!ResumeReview, Refill!ReviewEnds,
           Refill!Again
<1>2. ~Refill!AnswerWave
  <2> SUFFICES ASSUME Refill!AnswerWave PROVE FALSE
    OBVIOUS
  <2>1. PICK S \in SUBSET LoopNode :
           /\ S # {} /\ \A m \in S : job[m] = "idle"
           /\ job' = [m \in LoopNode |-> IF m \in S THEN "boarding" ELSE job[m]]
    BY RefillWaveStarts
  <2> QED
    BY <2>1
<1>3. \A m \in LoopNode : ~Refill!Admit(m)
  BY <1>0 DEF RefillPlaces, Refill!Admit, Refill!Move
<1>4. /\ ~Refill!FillEnds /\ ~Refill!RoundHalted /\ ~Refill!NothingNew /\ ~Refill!Ask
      /\ ~Refill!AnswerNone /\ ~Refill!AnswerHalted /\ ~Refill!AnswerRaises
  BY DEF Refill!FillEnds, Refill!RoundHalted, Refill!NothingNew, Refill!Ask, Refill!AnswerNone,
         Refill!AnswerHalted, Refill!AnswerRaises
<1>5. /\ ~Refill!Reap /\ ~Refill!Drained /\ ~Refill!Start /\ ~Refill!Crash /\ ~Refill!Operator
  BY <1>0 DEF Refill!Reap, Refill!Drained, Refill!Start, Refill!Crash, Refill!Operator
<1>6. Refill!Retry(n)
  BY <1>1, <1>2, <1>3, <1>4, <1>5 DEF Refill!Next, Refill!Step
<1> QED
  BY <1>0, <1>6 DEF Refill!Retry, Refill!Move

-----------------------------------------------------------------------------
(* The life cycle, branch by branch. *)

LEMMA BeginsInLifecycle ==
    /\ Refill!Init => Refill!Abstract!Init
    /\ Serial!Init => Serial!Abstract!Init
<1>1. FreshNode \in NodeState /\ FreshNode.status = "pending" /\ FreshNode.attempts = 0
  BY DEF FreshNode, NodeState, Status, InFlightStatus, Defect
<1>2. ASSUME disk = [n \in LoopNode |-> FreshNode]
      PROVE  /\ Phases = [n \in LoopNode |-> "waiting"]
             /\ Charges = [n \in LoopNode |-> 0]
  BY <1>1, <1>2, RefillPhase DEF Phases, Charges
<1>3. [n \in LoopNode |-> IF \E p \in LoopNode : n \in Unsplit[p] THEN "absent" ELSE "waiting"]
      = [n \in LoopNode |-> "waiting"]
  BY DEF Unsplit
<1>4. Refill!Init => Refill!Abstract!Init
  <2>1. Refill!Init => disk = [n \in LoopNode |-> FreshNode]
    BY SameTypes DEF Refill!Init
  <2> QED
    BY <1>2, <1>3, <2>1 DEF Refill!Abstract!Init, Phases, Charges
<1>5. Serial!Init => Serial!Abstract!Init
  <2>1. Serial!Init => disk = [n \in LoopNode |-> FreshNode]
    BY SameTypes DEF Serial!Init
  <2>2. Phases = [n \in LoopNode |-> Serial!Phase(disk[n])]
    BY SamePhases DEF Phases
  <2> QED
    BY <1>2, <1>3, <2>1, <2>2 DEF Serial!Abstract!Init, Charges
<1> QED
  BY <1>4, <1>5

(* A bypass is never taken back, and setting one leaves the tree alone.     *)
LEMMA RefillBypass ==
    ASSUME Refill!TypeOK, Refill!Next
    PROVE  (NoBypass' => NoBypass) /\ (NoBypass /\ ~NoBypass' => disk' = disk)
<1>1. CASE Refill!Operator
  BY <1>1 DEF Refill!Operator, NoBypass, Refill!TypeOK
<1>2. CASE ~Refill!Operator
  <2>1. bypass' = bypass
    <3>1. ASSUME NEW n \in LoopNode, Refill!Working(n) \/ Refill!JobRaises(n) \/ Refill!Admit(n)
          PROVE  bypass' = bypass
      BY <3>1 DEF Refill!Working, Refill!JobRaises, Refill!Board, Refill!EpisodeEnds,
                  Refill!HandedBack, Refill!Cooled, Refill!ResumeReview, Refill!ReviewEnds,
                  Refill!Again, Refill!Retry, Refill!Admit, Refill!outside
    <3>2. CASE \/ Refill!FillEnds \/ Refill!RoundHalted \/ Refill!NothingNew \/ Refill!Ask
               \/ Refill!AnswerNone \/ Refill!AnswerHalted \/ Refill!AnswerRaises
               \/ Refill!AnswerWave
      BY <3>2 DEF Refill!FillEnds, Refill!RoundHalted, Refill!NothingNew, Refill!Ask,
                  Refill!AnswerNone, Refill!AnswerHalted, Refill!AnswerRaises,
                  Refill!AnswerWave, Refill!outside
    <3>3. CASE Refill!Reap \/ Refill!Drained \/ Refill!Start \/ Refill!Crash
      BY <3>3 DEF Refill!Reap, Refill!Drained, Refill!Start, Refill!Crash, Refill!outside
    <3> QED
      BY <1>2, <3>1, <3>2, <3>3 DEF Refill!Next, Refill!Step
  <2> QED
    BY <2>1 DEF NoBypass
<1> QED
  BY <1>1, <1>2

LEMMA SerialBypass ==
    ASSUME Serial!TypeOK, Serial!Next
    PROVE  (NoBypass' => NoBypass) /\ (NoBypass /\ ~NoBypass' => disk' = disk)
<1>1. CASE Serial!Operator
  BY <1>1 DEF Serial!Operator, NoBypass, Serial!TypeOK
<1>2. CASE ~Serial!Operator
  <2>1. bypass' = bypass
    <3>1. ASSUME NEW n \in LoopNode, Serial!Working(n) PROVE bypass' = bypass
      BY <3>1 DEF Serial!Working, Serial!Resume, Serial!EpisodeEnds, Serial!HandedBack,
                  Serial!ReviewEnds, Serial!Again, Serial!EpisodeRaises
    <3>2. CASE \/ Serial!ListReviews \/ Serial!Resumed \/ Serial!Ends \/ Serial!Ask
               \/ Serial!AnswerEnds \/ Serial!Dispatch \/ Serial!Start \/ Serial!Crash
      BY <3>2 DEF Serial!ListReviews, Serial!Resumed, Serial!Ends, Serial!Ask,
                  Serial!AnswerEnds, Serial!Dispatch, Serial!Start, Serial!Crash
    <3> QED
      BY <1>2, <3>1, <3>2 DEF Serial!Next, Serial!Step
  <2> QED
    BY <2>1 DEF NoBypass
<1> QED
  BY <1>1, <1>2

LEMMA RefillTreesNext == ASSUME Refill!TypeOK' PROVE disk' \in Tree
BY SameTypes DEF Refill!TypeOK, Tree

LEMMA SerialTreesNext == ASSUME Serial!TypeOK' PROVE disk' \in Tree
BY SameTypes DEF Serial!TypeOK, Tree

LEMMA RefillStepInLifecycle ==
    ASSUME RefillPlaces, NoBypass => RefillTree, Refill!Next
    PROVE  /\ RefillPlaces' /\ (NoBypass' => RefillTree') /\ Refill!StepsInLifecycle
<1>1. RefillPlaces'
  BY RefillPlacesStep
<1>0. Refill!TypeOK => disk \in Tree
  BY RefillTrees
<1>2. Refill!TypeOK /\ disk \in Tree /\ disk' \in Tree
  <2>1. Refill!TypeOK /\ Refill!TypeOK'
    BY <1>1 DEF RefillPlaces
  <2> QED
    BY <2>1, RefillTreesNext, <1>0
<1>3. CASE NoBypass /\ NoBypass'
  <2>1. RefillTree' /\ TreeMoves(MaxParallel)
    BY <1>3, RefillTreeStep
  <2>2. [Refill!Abstract!Next]_(Refill!Abstract!lifecycle)
    BY <1>2, <2>1, RefillCycles
  <2> QED
    BY <1>1, <2>1, <2>2 DEF Refill!StepsInLifecycle
<1>4. CASE NoBypass /\ ~NoBypass'
  <2>1. disk' = disk
    BY <1>2, <1>4, RefillBypass
  <2> QED
    BY <1>1, <1>4, <2>1, Zenon DEF Refill!StepsInLifecycle, Refill!Abstract!lifecycle
<1>5. CASE ~NoBypass
  <2>1. ~NoBypass'
    BY <1>2, <1>5, RefillBypass
  <2>2. \E n \in LoopNode : bypass[n]
    BY <1>5 DEF NoBypass
  <2> QED
    BY <1>1, <2>1, <2>2 DEF Refill!StepsInLifecycle
<1> QED
  BY <1>3, <1>4, <1>5

LEMMA SerialStepInLifecycle ==
    ASSUME SerialTyped, NoBypass => SerialTree, Serial!Next
    PROVE  SerialTyped' /\ (NoBypass' => SerialTree') /\ Serial!StepsInLifecycle
<1>1. SerialTyped'
  BY SerialTypeStep
<1>0. Serial!TypeOK => disk \in Tree
  BY SerialTrees
<1>2. Serial!TypeOK /\ disk \in Tree /\ disk' \in Tree
  <2>1. Serial!TypeOK /\ Serial!TypeOK'
    BY <1>1 DEF SerialTyped
  <2> QED
    BY <2>1, SerialTreesNext, <1>0
<1>3. CASE NoBypass /\ NoBypass'
  <2>1. SerialTree' /\ TreeMoves(1)
    BY <1>2, <1>3, SerialTreeStep
  <2>2. [Serial!Abstract!Next]_(Serial!Abstract!lifecycle)
    BY <1>2, <2>1, SerialCycles
  <2> QED
    BY <1>1, <2>1, <2>2 DEF Serial!StepsInLifecycle
<1>4. CASE NoBypass /\ ~NoBypass'
  <2>1. disk' = disk
    BY <1>2, <1>4, SerialBypass
  <2> QED
    BY <1>1, <1>4, <2>1, Zenon DEF Serial!StepsInLifecycle, Serial!Abstract!lifecycle
<1>5. CASE ~NoBypass
  <2>1. ~NoBypass'
    BY <1>2, <1>5, SerialBypass
  <2>2. \E n \in LoopNode : bypass[n]
    BY <1>5 DEF NoBypass
  <2> QED
    BY <1>1, <2>1, <2>2 DEF Serial!StepsInLifecycle
<1> QED
  BY <1>3, <1>4, <1>5

-----------------------------------------------------------------------------
(* The loop of a run, whichever branch the run takes. *)

LoopsInv ==
    /\ branch = "refill" => RefillPlaces /\ (NoBypass => RefillTree)
    /\ branch = "serial" => SerialTyped /\ (NoBypass => SerialTree)

LEMMA LoopsInitInv ==
    LoopsInit => /\ LoopsInv
                 /\ branch = "refill" => Refill!Abstract!Init
                 /\ branch = "serial" => Serial!Abstract!Init
<1> SUFFICES ASSUME LoopsInit
             PROVE  /\ LoopsInv
                    /\ branch = "refill" => Refill!Abstract!Init
                    /\ branch = "serial" => Serial!Abstract!Init
  OBVIOUS
<1>1. branch = "refill" => Refill!Init
  BY DEF LoopsInit
<1>2. branch = "serial" => Serial!Init
  BY DEF LoopsInit
<1>3. Serial!Init => loop = "down"
  BY DEF Serial!Init
<1> QED
  BY <1>1, <1>2, <1>3, RefillInit, RefillInitTree, SerialInit, SerialInitTree, BeginsInLifecycle
     DEF LoopsInv, SerialTyped

(* A step of the run is a step of its branch, or leaves it as it was.       *)
LEMMA LoopsStep ==
    ASSUME LoopsInv, [LoopsNext]_allVars
    PROVE  /\ LoopsInv'
           /\ branch = "refill" => Refill!StepsInLifecycle
           /\ branch = "serial" => Serial!StepsInLifecycle
<1>1. CASE LoopsNext
  <2>1. branch' = branch
    BY <1>1 DEF LoopsNext
  <2>2. CASE branch = "refill"
    <3>1. Refill!Next
      BY <1>1, <2>2 DEF LoopsNext
    <3>2. RefillPlaces' /\ (NoBypass' => RefillTree') /\ Refill!StepsInLifecycle
      BY <2>2, <3>1, RefillStepInLifecycle DEF LoopsInv
    <3> QED
      BY <2>1, <2>2, <3>2 DEF LoopsInv
  <2>3. CASE branch = "serial"
    <3>1. Serial!Next
      BY <1>1, <2>3 DEF LoopsNext
    <3>2. SerialTyped' /\ (NoBypass' => SerialTree') /\ Serial!StepsInLifecycle
      BY <2>3, <3>1, SerialStepInLifecycle DEF LoopsInv
    <3> QED
      BY <2>1, <2>3, <3>2 DEF LoopsInv
  <2> QED
    BY <2>1, <2>2, <2>3 DEF LoopsInv
<1>2. CASE UNCHANGED allVars
  <2>1. /\ branch' = branch /\ disk' = disk /\ mem' = mem /\ job' = job /\ loop' = loop
        /\ resumeQ' = resumeQ /\ noNewWork' = noNewWork /\ stopping' = stopping
        /\ rounds' = rounds /\ cap' = cap /\ bypass' = bypass /\ halt' = halt
        /\ starts' = starts /\ crashes' = crashes
    BY <1>2 DEF allVars, vars, durable, scheduler, counters
  <2>2. (NoBypass' <=> NoBypass) /\ HandedOut' = HandedOut /\ Engaged' = Engaged
    BY <2>1 DEF NoBypass, HandedOut, Engaged
  <2>3. RefillPlaces' <=> RefillPlaces
    BY <2>1 DEF RefillPlaces, Refill!TypeOK
  <2>4. SerialTyped' <=> SerialTyped
    BY <2>1 DEF SerialTyped, Serial!TypeOK
  <2>5. RefillTree' <=> RefillTree
    BY <2>1, <2>2 DEF RefillTree, Stands, Ready
  <2>6. SerialTree' <=> SerialTree
    BY <2>1, <2>2 DEF SerialTree, Awaited, Ready, Serial!ReadyNodes, Serial!IsReady
  <2>7. LoopsInv'
    BY <2>1, <2>2, <2>3, <2>4, <2>5, <2>6 DEF LoopsInv
  <2>8. Refill!StepsInLifecycle
    BY <2>1, Zenon DEF Refill!StepsInLifecycle, Refill!Abstract!lifecycle
  <2>9. Serial!StepsInLifecycle
    BY <2>1, Zenon DEF Serial!StepsInLifecycle, Serial!Abstract!lifecycle
  <2> QED
    BY <2>7, <2>8, <2>9
<1> QED
  BY <1>1, <1>2

(* Both branches of run_round_loop that retry a node in place implement the *)
(* life cycle of the event-driven one until an operator bypasses a node:    *)
(* whatever the episodes, the reviews and the decisions do, and through     *)
(* crashes, raised jobs, resumes and halts, a node is handed out only when   *)
(* its dependencies have passed and a slot is free, passes only after it was *)
(* submitted, and spends at most its budget; the serial branch keeps to a   *)
(* single slot.                                                             *)
THEOREM LoopsFollowLifecycle == LoopsSpec => LoopsImplementLifecycle
<1>1. LoopsInv => /\ branch = "refill" => Refill!TypeOK
                  /\ branch = "serial" => Serial!TypeOK
  BY DEF LoopsInv, RefillPlaces, SerialTyped
<1>2. LoopsInv /\ [LoopsNext]_allVars
         => LoopsInv' /\ (/\ branch = "refill" => Refill!StepsInLifecycle
                          /\ branch = "serial" => Serial!StepsInLifecycle)
  BY LoopsStep
<1> QED
  BY <1>1, <1>2, LoopsInitInv, PTL DEF LoopsSpec, LoopsImplementLifecycle

(* refill_loop goes to sleep only when it was told to stop, when the budget *)
(* of rounds is spent, when the slots are taken, when the machine refused a *)
(* node of the wave it has just started, or when no node is ready: no job   *)
(* in backoff, no resumed node and no answer of the orchestrator hides one. *)
(* And a job in backoff starts no further attempt once the run is halted, a *)
(* sibling raised or the provider went down.                                *)
THEOREM SlotsAreFilled == LoopsSpec => SlotsFilled
<1>1. LoopsInv /\ [LoopsNext]_allVars => LoopsInv'
  BY LoopsStep
<1>2. ASSUME LoopsInv, [LoopsNext]_allVars
      PROVE  [branch = "refill" => Refill!FillsSlots /\ Refill!StopsRetries]_allVars
  <2> SUFFICES ASSUME LoopsNext, branch = "refill"
               PROVE  Refill!FillsSlots /\ Refill!StopsRetries
    BY <1>2
  <2>1. RefillPlaces /\ Refill!Next
    BY <1>2 DEF LoopsInv, LoopsNext
  <2> QED
    BY <2>1, RefillFills, RefillStops
<1> QED
  BY <1>1, <1>2, LoopsInitInv, PTL DEF LoopsSpec, SlotsFilled
===============================================================================
