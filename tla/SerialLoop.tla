------------------------------ MODULE SerialLoop ------------------------------
(***************************************************************************)
(* run_round_loop with one slot (v1/round_loop.py, the last branch): what  *)
(* a crash left mid-flight is dispatched again, then reviewed; after that  *)
(* each round takes one decision, runs the node it names, and retries it   *)
(* in place.  Everything is awaited in turn: one node moves at a time.     *)
(***************************************************************************)
EXTENDS NodeTransitions

CONSTANTS Position, Policy, MaxRounds,   \* as in RefillLoop
          MaxStarts, MaxTroubles         \* bounds of the checked behaviours

VARIABLES disk, mem, bypass, halt,
          job,      \* job[n]: what is awaited for n, if anything
          loop,     \* which part of the loop is under way
          resumeQ,  \* what the part under way has still to take up
          rounds, starts, troubles

counters == <<starts, troubles>>
vars == <<disk, mem, bypass, halt, job, loop, resumeQ, rounds, counters>>

TypeOK ==
    /\ disk \in [Node -> NodeState] /\ mem \in [Node -> NodeState]
    /\ bypass \in [Node -> BOOLEAN] /\ halt \in BOOLEAN
    /\ job \in [Node -> {"idle", "episode", "reviewing", "lastReview", "again"}]
    /\ loop \in {"down", "dispatching", "reviewing", "rounds", "asking", "ended"}
    /\ resumeQ \in [Node -> {"no", "dispatch", "review"}]
    /\ rounds \in 0..MaxRounds
    /\ starts \in 0..MaxStarts /\ troubles \in 0..MaxTroubles

Init ==
    /\ disk = [n \in Node |-> FreshNode] /\ mem = disk
    /\ bypass = [n \in Node |-> FALSE] /\ halt = FALSE
    /\ job = [n \in Node |-> "idle"] /\ loop = "down"
    /\ resumeQ = [n \in Node |-> "no"] /\ rounds = 0
    /\ starts = 0 /\ troubles = 0

Trouble == troubles < MaxTroubles /\ troubles' = troubles + 1
Save(tree) == mem' = SyncTree(tree, disk, {}) /\ disk' = mem'
Move(n, stage) == job' = [job EXCEPT ![n] = stage]
Idle == \A n \in Node : job[n] = "idle"
Queued == {n \in Node : resumeQ[n] # "no"}

Start ==
    /\ loop \in {"down", "ended"} /\ starts < MaxStarts
    /\ starts' = starts + 1
    /\ mem' = disk
    /\ resumeQ' = [n \in Node |-> IF disk[n].status = "dispatched" THEN "dispatch" ELSE "no"]
    /\ loop' = "dispatching" /\ rounds' = 0
    /\ UNCHANGED <<disk, bypass, halt, job, troubles>>

(* The resumed nodes, one at a time; the flag is not looked at.            *)
Resume(n) ==
    /\ loop \in {"dispatching", "reviewing"} /\ Idle
    /\ resumeQ[n] # "no"
    /\ resumeQ' = [resumeQ EXCEPT ![n] = "no"]
    /\ Move(n, IF resumeQ[n] = "dispatch" THEN "episode" ELSE "reviewing")
    /\ mem' = IF resumeQ[n] = "review" THEN [mem EXCEPT ![n].status = "awaiting_review"] ELSE mem
    /\ UNCHANGED <<disk, bypass, halt, loop, rounds, counters>>

(* The nodes to review are listed once the resumed episodes are over.      *)
ListReviews ==
    /\ loop = "dispatching" /\ Idle /\ Queued = {}
    /\ resumeQ' = [n \in Node |->
                      IF \/ mem[n].status = "awaiting_review"
                         \/ mem[n].status \in {"pending", "blocked"} /\ bypass[n]
                      THEN "review" ELSE "no"]
    /\ loop' = "reviewing"
    /\ UNCHANGED <<disk, mem, bypass, halt, job, rounds, counters>>

Resumed ==
    /\ loop = "reviewing" /\ Idle /\ Queued = {}
    /\ loop' = "rounds"
    /\ UNCHANGED <<disk, mem, bypass, halt, job, resumeQ, rounds, counters>>

AtRound == loop = "rounds" /\ Idle
Synced == SyncTree(mem, disk, {})

(* No round is left, the run is halted, or nothing is ready.               *)
Ends ==
    /\ AtRound
    /\ rounds >= MaxRounds \/ halt \/ ReadyNodes(Synced) = {}
    /\ mem' = IF rounds >= MaxRounds \/ halt THEN mem ELSE Synced
    /\ loop' = "ended"
    /\ UNCHANGED <<disk, bypass, halt, job, resumeQ, rounds, counters>>

Ask ==
    /\ AtRound /\ rounds < MaxRounds /\ ~halt
    /\ ReadyNodes(Synced) # {}
    /\ mem' = Synced
    /\ loop' = "asking"
    /\ UNCHANGED <<disk, bypass, halt, job, resumeQ, rounds, counters>>

First(S) == CHOOSE n \in S : \A m \in S : Position[n] <= Position[m]
Chosen(ready) == IF Policy = "model" THEN ready ELSE {First(ready)}

(* Halted while the call was out, or the call raised. *)
AnswerEnds ==
    /\ loop = "asking"
    /\ halt \/ Policy = "model"
    /\ loop' = "ended"
    /\ UNCHANGED <<disk, mem, bypass, halt, job, resumeQ, rounds, counters>>

Dispatch ==
    /\ loop = "asking" /\ ~halt
    /\ \E n \in Chosen(ReadyNodes(mem)) :
          /\ Save([mem EXCEPT ![n].status = "dispatched"])
          /\ Move(n, "episode")
    /\ loop' = "rounds" /\ rounds' = rounds + 1
    /\ UNCHANGED <<bypass, halt, resumeQ, counters>>

(* After an attempt: the review it earned, then, in a round, the retries.  *)
NextStage(n, stage) ==
    IF loop # "rounds" THEN "idle"
    ELSE IF stage = "episode" /\ mem'[n].status = "awaiting_review" THEN "reviewing"
    ELSE IF stage = "lastReview" THEN "idle" ELSE "again"

EpisodeEnds(n) ==
    /\ job[n] = "episode"
    /\ \E status \in {"done", "error", "throttled"}, made, old \in BOOLEAN :
          LET written == IF made THEN [units |-> Units, ok |-> TRUE] ELSE EmptyArtifact
          IN  /\ Save([mem EXCEPT ![n] = AfterWriter(mem[n],
                          [status |-> status, art |-> written, prior |-> EmptyArtifact,
                           bypassed |-> bypass[n], lost |-> FALSE, streakOld |-> old]).node])
              /\ IF status = "throttled" THEN Trouble ELSE UNCHANGED troubles
    /\ Move(n, NextStage(n, "episode"))
    /\ UNCHANGED <<bypass, halt, loop, resumeQ, rounds, starts>>

HandedBack(n) ==
    /\ job[n] = "episode" /\ Trouble
    /\ Save([mem EXCEPT ![n] = Requeue(mem[n])])
    /\ Move(n, NextStage(n, "episode"))
    /\ UNCHANGED <<bypass, halt, loop, resumeQ, rounds, starts>>

ReviewEnds(n) ==
    /\ job[n] \in {"reviewing", "lastReview"}
    /\ \E verdict \in IF bypass[n] THEN {"pass"} ELSE Verdict :
          Save([mem EXCEPT ![n] = AfterReview(mem[n], verdict).node])
    /\ Move(n, NextStage(n, job[n]))
    /\ UNCHANGED <<bypass, halt, loop, resumeQ, rounds, counters>>

(* Mutant: a node out of attempts is retried as well. *)
RetriableBlocked(n) == mem[n].status \in {"pending", "blocked"} /\ mem[n].attempts <= MaxAttempts

Retriable(n) == mem[n].status = "pending" /\ mem[n].attempts < MaxAttempts

(* The in-place retry.  There is no backoff for a throttled node and no
   test of its streak, unlike a job's of refill_loop.                      *)
Again(n) ==
    /\ job[n] = "again"
    /\ \/ /\ ~Retriable(n) \/ (halt /\ ~bypass[n])
          /\ Move(n, "idle")
          /\ UNCHANGED <<disk, mem>>
       \/ /\ Retriable(n) /\ bypass[n]
          /\ Save([mem EXCEPT ![n].status = "awaiting_review"])
          /\ Move(n, "lastReview")
       \/ /\ Retriable(n) /\ ~bypass[n] /\ ~halt
          /\ Save([mem EXCEPT ![n].status = "dispatched"])
          /\ Move(n, "episode")
    /\ UNCHANGED <<bypass, halt, loop, resumeQ, rounds, counters>>

(* Nothing is caught: the loop raises, the node stays dispatched. *)
EpisodeRaises(n) ==
    /\ job[n] = "episode"
    /\ job' = [m \in Node |-> "idle"]
    /\ loop' = "ended"
    /\ UNCHANGED <<disk, mem, bypass, halt, resumeQ, rounds, counters>>

Crash ==
    /\ loop \notin {"down", "ended"} /\ Trouble
    /\ loop' = "down" /\ mem' = disk /\ rounds' = 0
    /\ job' = [n \in Node |-> "idle"] /\ resumeQ' = [n \in Node |-> "no"]
    /\ UNCHANGED <<disk, bypass, halt, starts>>

Operator ==
    /\ Trouble
    /\ \/ halt' = ~halt /\ UNCHANGED bypass
       \/ /\ \E n \in Node : bypass' = [bypass EXCEPT ![n] = TRUE]
          /\ UNCHANGED halt
    /\ UNCHANGED <<disk, mem, job, loop, resumeQ, rounds, starts>>

Working(n) == \/ Resume(n) \/ EpisodeEnds(n) \/ HandedBack(n) \/ ReviewEnds(n)
              \/ Again(n) \/ EpisodeRaises(n)

Step == \/ ListReviews \/ Resumed \/ Ends \/ Ask \/ AnswerEnds \/ Dispatch
        \/ \E n \in Node : Working(n)

Next == Step \/ Start \/ Crash \/ Operator
-----------------------------------------------------------------------------
Phase(node) == CASE node.status = "pending" -> "waiting"
                 [] node.status = "dispatched" -> "active"
                 [] node.status = "awaiting_review" -> "submitted"
                 [] OTHER -> node.status

Abstract == INSTANCE NodeLifecycle WITH
                Slots <- 1, Budget <- MaxAttempts,
                phase <- [n \in Node |-> Phase(disk[n])],
                spent <- [n \in Node |-> disk[n].attempts]

(* The serial loop implements the life cycle with a single slot, until the
   operator bypasses a node.                                               *)
StepsInLifecycle ==
    [(\E n \in Node : bypass[n]) \/ Abstract!Next]_(Abstract!lifecycle)
===============================================================================
