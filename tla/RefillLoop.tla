------------------------------ MODULE RefillLoop ------------------------------
(***************************************************************************)
(* run_round_loop under the "model" and "document_order" policies with     *)
(* several slots (v1/round_loop.py:refill_loop): a job owns its node from  *)
(* the dispatch to the review and through its in-place retries, and the    *)
(* loop refills a slot as soon as any job is over.  The policy's decision  *)
(* is a synchronous call (v1/orchestrator.py): it holds the event loop.    *)
(*                                                                         *)
(* What an episode and a review do to the tree is NodeTransitions', what   *)
(* they do to the files RoundLoop's: here an attempt leaves one of the     *)
(* nodes that AfterWriter can leave, or the node a conflict or a refused   *)
(* split hands back.                                                       *)
(***************************************************************************)
EXTENDS NodeTransitions

CONSTANTS
    Position,     \* the order of the nodes in tree.json
    Policy,       \* dispatch_policy
    MaxParallel,  \* jobs in flight at once
    MaxRounds,    \* decisions one call of the loop may take
    MaxStarts,    \* bound: calls of the loop
    MaxTroubles   \* bound: crashes, operator's writes, uncharged returns

VARIABLES
    disk, mem,   \* tree.json, and the loop's TaskTree
    job,         \* job[n]: where the node's job is
    loop,        \* where the loop is
    resumeQ,     \* resume_queue
    noNewWork,   \* no_new_rounds
    stopping,    \* a job raised
    rounds,      \* rounds_used
    cap,         \* the admission controller's current_wave_cap
    bypass, halt,
    starts, troubles

queue == <<resumeQ, noNewWork, stopping, rounds>>
outside == <<bypass, halt>>
counters == <<starts, troubles>>
vars == <<disk, mem, job, loop, queue, cap, outside, counters>>

JobStage == {"idle",
             "boarding",    \* marked dispatched; backoff, jitter, admission
             "episode",
             "cooling",     \* throttled: the sleep of after_attempt
             "toReview",    \* a resumed node whose artifact awaits review
             "reviewing",
             "lastReview",  \* the review of a node bypassed between attempts
             "again",       \* the test of the retry loop
             "backoff",     \* its sleep
             "done", "failed"}
LoopStage == {"down", "filling", "asking", "waiting", "draining", "ended"}

Running == {n \in Node : job[n] # "idle"}
Queued == {n \in Node : resumeQ[n] # "no"}
Over == {n \in Node : job[n] \in {"done", "failed"}}
Busy == loop = "asking" \/ \E n \in Node : job[n] = "again"

TypeOK ==
    /\ disk \in [Node -> NodeState] /\ mem \in [Node -> NodeState]
    /\ job \in [Node -> JobStage] /\ loop \in LoopStage
    /\ resumeQ \in [Node -> {"no", "dispatch", "review"}]
    /\ noNewWork \in BOOLEAN /\ stopping \in BOOLEAN
    /\ rounds \in 0..MaxRounds /\ cap \in 1..MaxParallel
    /\ bypass \in [Node -> BOOLEAN] /\ halt \in BOOLEAN
    /\ starts \in 0..MaxStarts /\ troubles \in 0..MaxTroubles

Init ==
    /\ disk = [n \in Node |-> FreshNode] /\ mem = disk
    /\ job = [n \in Node |-> "idle"] /\ loop = "down"
    /\ resumeQ = [n \in Node |-> "no"]
    /\ noNewWork = FALSE /\ stopping = FALSE /\ rounds = 0 /\ cap = MaxParallel
    /\ bypass = [n \in Node |-> FALSE] /\ halt = FALSE
    /\ starts = 0 /\ troubles = 0

Trouble == troubles < MaxTroubles /\ troubles' = troubles + 1

(* _save_tree_locked: the disk's tree is folded in first.                  *)
Save(tree) == mem' = SyncTree(tree, disk, {}) /\ disk' = mem'
Move(n, stage) == job' = [job EXCEPT ![n] = stage]

-----------------------------------------------------------------------------
(* The loop.                                                               *)

(* Load the tree; queue what a crash left mid-flight, dispatched nodes
   first, and send bypassed nodes to review, in memory.                    *)
Start ==
    /\ loop \in {"down", "ended"} /\ starts < MaxStarts
    /\ starts' = starts + 1
    /\ LET Waived(n) == disk[n].status \in {"pending", "blocked"} /\ bypass[n]
       IN  /\ mem' = [n \in Node |-> IF Waived(n)
                                     THEN [disk[n] EXCEPT !.status = "awaiting_review"]
                                     ELSE disk[n]]
           /\ resumeQ' = [n \in Node |->
                             CASE disk[n].status = "dispatched" -> "dispatch"
                               [] disk[n].status = "awaiting_review" \/ Waived(n) -> "review"
                               [] OTHER -> "no"]
    /\ loop' = "filling" /\ noNewWork' = FALSE /\ stopping' = FALSE /\ rounds' = 0
    /\ cap' = MaxParallel \/ (loop = "ended" /\ cap' = cap)
    /\ UNCHANGED <<disk, job, outside, troubles>>

Filling == loop = "filling" /\ ~Busy
MayStart == ~stopping /\ Cardinality(Running) < cap

(* Nothing more is started: wait for a job, or return when there is none.  *)
EndFill == loop' = IF \A n \in Node : job[n] = "idle" THEN "ended" ELSE "waiting"

Admit(n) ==
    /\ Filling /\ MayStart
    /\ resumeQ[n] # "no"
    /\ resumeQ[n] = "review" => \A m \in Node : resumeQ[m] # "dispatch"
    /\ Move(n, IF resumeQ[n] = "dispatch" THEN "boarding" ELSE "toReview")
    /\ resumeQ' = [resumeQ EXCEPT ![n] = "no"]
    /\ UNCHANGED <<disk, mem, loop, noNewWork, stopping, rounds, cap, outside, counters>>

AtRound == Filling /\ MayStart /\ Queued = {} /\ ~noNewWork /\ rounds < MaxRounds

FillEnds ==
    /\ Filling
    /\ ~MayStart \/ (Queued = {} /\ (noNewWork \/ rounds >= MaxRounds))
    /\ EndFill
    /\ UNCHANGED <<disk, mem, job, queue, cap, outside, counters>>

(* Section E15 (a): no decision is taken for a halted run.                 *)
RoundHalted ==
    /\ AtRound /\ halt
    /\ noNewWork' = TRUE
    /\ EndFill
    /\ UNCHANGED <<disk, mem, job, resumeQ, stopping, rounds, cap, outside, counters>>

(* Mutant: the nodes the jobs own are offered too. *)
OfferedUnclaimed(tree) == ReadyNodes(tree)

(* The ready nodes, those a job still owns reading as dispatched.          *)
Offered(tree) == ReadyNodes(Claimed(tree, Running))
Synced == SyncTree(mem, disk, Running)

(* Nothing new to hand out until a job finishes: no round is spent.        *)
NothingNew ==
    /\ AtRound /\ ~halt
    /\ Offered(Synced) = {} /\ Running # {}
    /\ mem' = Synced
    /\ EndFill
    /\ UNCHANGED <<disk, job, queue, cap, outside, counters>>

Ask ==
    /\ AtRound /\ ~halt
    /\ Offered(Synced) # {} \/ Running = {}
    /\ mem' = Synced
    /\ rounds' = rounds + 1
    /\ loop' = "asking"
    /\ UNCHANGED <<disk, job, resumeQ, noNewWork, stopping, cap, outside, counters>>

First(S) == CHOOSE n \in S : \A m \in S : Position[n] <= Position[m]

(* With one ready node, or slots for all of them, there is nothing to ask. *)
ModelIsAsked(ready) == Policy = "model" /\ Cardinality(ready) > MaxParallel

(* A model's answer that is not a ready node, or not a dispatch, becomes
   the first ready node.                                                   *)
Chosen(ready) == IF ModelIsAsked(ready) THEN ready ELSE {First(ready)}

(* _arbitrate_empty_ready: complete, stuck or in flight, the loop takes no
   further decision.                                                       *)
AnswerNone ==
    /\ loop = "asking" /\ Offered(mem) = {}
    /\ noNewWork' = TRUE
    /\ EndFill
    /\ UNCHANGED <<disk, mem, job, resumeQ, stopping, rounds, cap, outside, counters>>

(* Section E15 (b): halted while the call was out. *)
AnswerHalted ==
    /\ loop = "asking" /\ Offered(mem) # {} /\ halt
    /\ noNewWork' = TRUE
    /\ EndFill
    /\ UNCHANGED <<disk, mem, job, resumeQ, stopping, rounds, cap, outside, counters>>

(* The provider, or the write of the round's trace, raised: the jobs in
   flight are awaited, then it is raised.                                  *)
AnswerRaises ==
    /\ loop = "asking"
    /\ loop' = "draining"
    /\ UNCHANGED <<disk, mem, job, queue, cap, outside, counters>>

(* Mutant: the running jobs are not deducted. *)
WavesOverflowing(ready) == {S \in SUBSET (ready \ Running) : S # {} /\ Cardinality(S) <= cap}

(* The waves a round may start: the chosen node, filled up in tree order to
   the free slots.                                                         *)
Waves(ready) ==
    {S \in SUBSET (ready \ Running) :
        /\ Cardinality(S) <= cap - Cardinality(Running)
        /\ \E n \in Chosen(ready) \cap S :
             \A m \in S \ {n} : \A k \in ready \ S : Position[m] < Position[k]}

(* A chosen node that a job owns would end the fill.  The nodes are
   marked, saved and started.  A wave short of the free slots was cut by
   the hardware's refusal, which ends the fill, or by a lack of ready
   nodes, which the next round of the fill finds out.                      *)
AnswerWave ==
    /\ loop = "asking" /\ Offered(mem) # {} /\ ~halt
    /\ IF Chosen(Offered(mem)) \subseteq Running
       THEN EndFill /\ UNCHANGED <<disk, mem, job>>
       ELSE \E S \in Waves(Offered(mem)), refused \in BOOLEAN :
          /\ ~refused => \/ S = Offered(mem)
                         \/ Cardinality(S) = cap - Cardinality(Running)
          /\ Save([n \in Node |-> IF n \in S THEN [mem[n] EXCEPT !.status = "dispatched"]
                                             ELSE mem[n]])
          /\ job' = [n \in Node |-> IF n \in S THEN "boarding" ELSE job[n]]
          /\ loop' = IF refused THEN "waiting" ELSE "filling"
    /\ UNCHANGED <<queue, cap, outside, counters>>

(* Mutant: a job that raised is not taken off the running ones. *)
ReapTheWell ==
    /\ loop = "waiting" /\ ~Busy /\ Over # {}
    /\ job' = [n \in Node |-> IF job[n] = "done" THEN "idle" ELSE job[n]]
    /\ stopping' = (stopping \/ \E n \in Over : job[n] = "failed")
    /\ loop' = "filling"
    /\ UNCHANGED <<disk, mem, resumeQ, noNewWork, rounds, cap, outside, counters>>

(* asyncio.wait, FIRST_COMPLETED: take the finished jobs off; one that
   raised stops the loop from starting anything.                           *)
Reap ==
    /\ loop = "waiting" /\ ~Busy /\ Over # {}
    /\ job' = [n \in Node |-> IF n \in Over THEN "idle" ELSE job[n]]
    /\ stopping' = (stopping \/ \E n \in Over : job[n] = "failed")
    /\ loop' = "filling"
    /\ UNCHANGED <<disk, mem, resumeQ, noNewWork, rounds, cap, outside, counters>>

(* An error of the harness itself: all jobs end, then it is raised.        *)
Drained ==
    /\ loop = "draining" /\ ~Busy /\ Running = Over
    /\ job' = [n \in Node |-> "idle"]
    /\ loop' = "ended"
    /\ UNCHANGED <<disk, mem, queue, cap, outside, counters>>

-----------------------------------------------------------------------------
(* A job.                                                                  *)

Board(n) ==
    /\ job[n] = "boarding" /\ ~Busy
    /\ Move(n, "episode")
    /\ UNCHANGED <<disk, mem, loop, queue, cap, outside, counters>>

Settled(n) == IF mem'[n].status = "awaiting_review" THEN "reviewing" ELSE "again"

(* Mutant: a success opens the wave past its bound. *)
WaveOutcomeUnbounded(throttled) ==
    IF throttled THEN (IF cap \div 2 > 1 THEN cap \div 2 ELSE 1) ELSE cap + 1

(* record_wave_outcome, per finished attempt; a success never lowers it.   *)
WaveOutcome(throttled) ==
    IF throttled THEN (IF cap \div 2 > 1 THEN cap \div 2 ELSE 1)
    ELSE IF cap < MaxParallel THEN cap + 1 ELSE cap

(* dispatch, then after_attempt, which sleeps when it was throttled.       *)
Attempted(n, node) ==
    /\ Save([mem EXCEPT ![n] = node])
    /\ LET throttled == mem'[n].defect = "throttled"
       IN  /\ cap' = WaveOutcome(throttled)
           /\ Move(n, IF throttled THEN "cooling" ELSE Settled(n))

EpisodeEnds(n) ==
    /\ job[n] = "episode" /\ ~Busy
    /\ \E status \in {"done", "error", "throttled"}, made \in BOOLEAN, old \in BOOLEAN :
          LET written == IF made THEN [units |-> Units, ok |-> TRUE] ELSE EmptyArtifact
          IN  Attempted(n, AfterWriter(mem[n],
                                [status |-> status, art |-> written, prior |-> EmptyArtifact,
                                 bypassed |-> bypass[n], lost |-> FALSE,
                                 streakOld |-> old]).node)
                 /\ IF status = "throttled" THEN Trouble ELSE UNCHANGED troubles
    /\ UNCHANGED <<loop, queue, outside, starts>>

(* A merge conflict or a refused split: pending again, charged nothing.    *)
HandedBack(n) ==
    /\ job[n] = "episode" /\ ~Busy
    /\ Trouble
    /\ Attempted(n, Requeue(mem[n]))
    /\ UNCHANGED <<loop, queue, outside, starts>>

Cooled(n) ==
    /\ job[n] = "cooling" /\ ~Busy
    /\ Move(n, IF mem[n].status = "awaiting_review" THEN "reviewing" ELSE "again")
    /\ UNCHANGED <<disk, mem, loop, queue, cap, outside, counters>>

ResumeReview(n) ==
    /\ job[n] = "toReview" /\ ~Busy
    /\ Move(n, IF mem[n].status = "awaiting_review" THEN "reviewing" ELSE "again")
    /\ UNCHANGED <<disk, mem, loop, queue, cap, outside, counters>>

ReviewEnds(n) ==
    /\ job[n] \in {"reviewing", "lastReview"} /\ ~Busy
    /\ \E verdict \in IF bypass[n] THEN {"pass"} ELSE Verdict :
          Save([mem EXCEPT ![n] = AfterReview(mem[n], verdict).node])
    /\ Move(n, IF job[n] = "reviewing" THEN "again" ELSE "done")
    /\ UNCHANGED <<loop, queue, cap, outside, counters>>

(* halted(): a failed sibling, the flag, or a provider that is down.       *)
Halted == stopping \/ halt \/ \E n \in Node : mem[n].defect = "provider"

Retriable(n) == mem[n].status = "pending" /\ mem[n].attempts < MaxAttempts

(* The retry loop's tests: no retry is left, the operator sends the node to
   review, or it backs off.                                                *)
Again(n) ==
    /\ job[n] = "again"
    /\ \E old \in BOOLEAN :
          LET capped == NonAttemptCapReached(mem[n].nonAttempts, old /\ mem[n].nonAttempts > 1)
              retry  == Retriable(n) /\ ~capped
          IN  \/ /\ ~retry \/ (~bypass[n] /\ Halted)
                 /\ Move(n, "done")
                 /\ UNCHANGED <<disk, mem>>
              \/ /\ retry /\ bypass[n]
                 /\ Save([mem EXCEPT ![n].status = "awaiting_review"])
                 /\ Move(n, "lastReview")
              \/ /\ retry /\ ~bypass[n] /\ ~Halted
                 /\ Move(n, "backoff")
                 /\ UNCHANGED <<disk, mem>>
    /\ UNCHANGED <<loop, queue, cap, outside, counters>>

(* Mutant: the retry is dispatched without looking again. *)
RetryUnasked(n) ==
    /\ job[n] = "backoff" /\ ~Busy
    /\ Save([mem EXCEPT ![n].status = "dispatched"])
    /\ Move(n, "boarding")
    /\ UNCHANGED <<loop, queue, cap, outside, counters>>

(* After the sleep: left pending when halted meanwhile, or sent out again. *)
Retry(n) ==
    /\ job[n] = "backoff" /\ ~Busy
    /\ IF Halted THEN Move(n, "done") /\ UNCHANGED <<disk, mem>>
       ELSE /\ Save([mem EXCEPT ![n].status = "dispatched"])
            /\ Move(n, "boarding")
    /\ UNCHANGED <<loop, queue, cap, outside, counters>>

JobRaises(n) ==
    /\ job[n] \in {"boarding", "episode"} /\ ~Busy
    /\ Move(n, "failed")
    /\ UNCHANGED <<disk, mem, loop, queue, cap, outside, counters>>
-----------------------------------------------------------------------------
Crash ==
    /\ loop \notin {"down", "ended"} /\ Trouble
    /\ loop' = "down" /\ mem' = disk
    /\ job' = [n \in Node |-> "idle"]
    /\ resumeQ' = [n \in Node |-> "no"]
    /\ noNewWork' = FALSE /\ stopping' = FALSE /\ rounds' = 0 /\ cap' = MaxParallel
    /\ UNCHANGED <<disk, outside, starts>>

Operator ==
    /\ Trouble
    /\ \/ halt' = ~halt /\ UNCHANGED bypass
       \/ /\ \E n \in Node : bypass' = [bypass EXCEPT ![n] = TRUE]
          /\ UNCHANGED halt
    /\ UNCHANGED <<disk, mem, job, loop, queue, cap, starts>>

Working(n) == \/ Board(n) \/ EpisodeEnds(n) \/ HandedBack(n) \/ Cooled(n)
              \/ ResumeReview(n) \/ ReviewEnds(n) \/ Again(n) \/ Retry(n)

Step == \/ \E n \in Node : Admit(n)
        \/ FillEnds \/ RoundHalted \/ NothingNew \/ Ask
        \/ AnswerNone \/ AnswerHalted \/ AnswerRaises \/ AnswerWave
        \/ Reap \/ Drained
        \/ \E n \in Node : Working(n) \/ JobRaises(n)

Next == Step \/ Start \/ Crash \/ Operator

-----------------------------------------------------------------------------
(* The loop never goes to sleep beside a free slot and a node it could
   hand out, unless the run is halted, over budget, failing, or the machine
   refused the node: a claimed node in backoff hides no other node, and a
   fill that follows a resume, a retry or a refusal misses none.           *)
FillsSlots ==
    loop # "waiting" /\ loop' = "waiting"
        => \/ stopping' \/ noNewWork' \/ rounds' >= MaxRounds
           \/ job' # job   \* the wave that was refused its next node
           \/ Cardinality(Running) >= cap
           \/ ReadyNodes(Claimed(mem', Running)) = {}

(* A job that is still in backoff when the run is halted, when a sibling
   raised or the provider went down starts no further attempt.             *)
StopsRetries == \A n \in Node : job[n] = "backoff" /\ job'[n] = "boarding" => ~Halted

Phase(node) == CASE node.status = "pending" -> "waiting"
                 [] node.status = "dispatched" -> "active"
                 [] node.status = "awaiting_review" -> "submitted"
                 [] OTHER -> node.status

Abstract == INSTANCE NodeLifecycle WITH
                Slots <- MaxParallel, Budget <- MaxAttempts,
                phase <- [n \in Node |-> Phase(disk[n])],
                spent <- [n \in Node |-> disk[n].attempts]

(* A loop whose jobs retry in place implements the same life cycle as the
   event-driven one, through crashes and resumes, until the operator
   bypasses a node.                                                        *)
StepsInLifecycle ==
    [(\E n \in Node : bypass[n]) \/ Abstract!Next]_(Abstract!lifecycle)
===============================================================================
