------------------------------ MODULE RoundLoop ------------------------------
(***************************************************************************)
(* run_round_loop under its event-driven scheduler (v1/round_loop.py:      *)
(* orchestrated_loop, the default dispatch policy), with the jobs it runs, *)
(* the durable files they write and the other processes that write them.   *)
(*                                                                         *)
(* Every step is one stretch of code between two points at which something *)
(* else can happen: an await of the event loop, or a durable write another *)
(* process or a kill -9 can fall behind.  The event loop is one thread, so *)
(* while a job is between such writes (Busy) nothing else of the harness   *)
(* moves, but the operator's process and a crash may.                      *)
(***************************************************************************)
EXTENDS NodeTransitions

CONSTANTS
    MaxParallel,    \* jobs in flight at once
    MaxRounds,      \* decisions that may start never-attempted work
    Splitters,      \* nodes whose writer may leave a split.json behind
    GoodSplit,      \* of those, the ones whose proposal passes evaluate_split
    Worktrees,      \* episodes run in isolated worktrees
    MayConflict,    \* a worktree's patch may fail to apply to trunk
    EditKinds,      \* what the operator's processes do while the loop may run
    Racing,         \* the harness moves between an edit's load and its save
    MaxCrashes, MaxStarts, MaxEdits     \* bounds of the checked behaviours

ASSUME LoopAssumption ==
    /\ MaxParallel \in Nat \ {0}
    /\ MaxRounds \in Nat \ {0}
    /\ Splitters \subseteq Node /\ GoodSplit \subseteq Splitters
    /\ \A n \in GoodSplit : Children[n] # {}     \* evaluate_split: SPLIT_MIN_CHILDREN
    /\ Worktrees \in BOOLEAN /\ MayConflict \in BOOLEAN
    /\ EditKinds \subseteq {"redispatch", "reopen", "cli_reopen", "pass", "bypass", "halt"}
    /\ Racing \in BOOLEAN
    /\ MaxCrashes \in Nat /\ MaxStarts \in Nat /\ MaxEdits \in Nat

VARIABLES
    disk,       \* tree.json
    rec,        \* rec[n]: the last episode_completed no later event voids, or "none"
    art,        \* art[n]: the node's artifact under out/
    prior,      \* prior[n]: the latest attempt snapshot under out/.versions/
    proposal,   \* proposal[n]: "none", or the split.json under scratch/
    landed,     \* landed[n]: the workspace changes of n's last episode are on trunk
    bypass,     \* bypass[n]: the operator's flag under bypass/
    halt,       \* halt.flag exists
    mem,        \* the loop's in-memory TaskTree
    job,        \* job[n]: where the node's job is
    loop,       \* where the scheduler is
    resumeQ,    \* resume_queue: "no", or how the queued node starts
    news,       \* something happened since the last decision
    noNewWork,  \* no_new_work
    stopping,   \* a job raised: start nothing else
    rounds,     \* fresh_rounds
    cap,        \* the admission controller's current_wave_cap
    edit,       \* the operator's read-modify-write under way
    crashes, starts, edits  \* counters behind the bounds

durable == <<disk, rec, art, prior, proposal, landed, bypass, halt>>
scheduler == <<loop, resumeQ, news, noNewWork, stopping, rounds>>
counters == <<crashes, starts, edits>>
vars == <<durable, mem, job, scheduler, cap, edit, counters>>

JobStage == {"idle",        \* no job
             "new",         \* started to dispatch; in backoff or waiting for admission
             "toReview",    \* started to review a resumed node
             "episode",     \* a writer episode is running
             "completed",   \* episode_completed is appended
             "recalled",    \* run_node returned without running an episode
             "settled",     \* the outcome is applied in memory and logged
             "waived",      \* a review the operator bypassed
             "reviewing",   \* a reviewer call is running
             "judged",      \* the verdict is applied in memory and logged
             "passing",     \* saved as passed; on_node_passed has not run yet
             "done",        \* the future is done and not yet reaped
             "failed"}      \* the future holds an exception

LoopStage == {"down",      \* no process runs the loop
              "deciding",  \* top of the scheduler's while
              "asking",    \* the orchestrator's model call is out
              "resting",   \* the decision is made; about to wait or to end
              "waiting",   \* in asyncio.wait for the first job to finish
              "ended"}     \* run_round_loop returned or raised

Running == {n \in Node : job[n] # "idle"}
Midway == {"completed", "recalled", "settled", "waived", "judged", "passing"}
Busy == loop = "resting" \/ \E n \in Node : job[n] \in Midway
Free == IF cap > Cardinality(Running) THEN cap - Cardinality(Running) ELSE 0
Queued == {n \in Node : resumeQ[n] # "no"}

NoEdit == [kind |-> "none"]
Edit == [kind: EditKinds \ {"bypass", "halt"}, node: Node, tree: [Node -> NodeState],
         saved: BOOLEAN]
TypeOK ==
    /\ disk \in [Node -> NodeState] /\ mem \in [Node -> NodeState]
    /\ rec \in [Node -> EpisodeStatus \cup {"none"}]
    /\ art \in [Node -> Artifact] /\ prior \in [Node -> Artifact]
    /\ proposal \in [Node -> {"none", "good", "bad"}]
    /\ landed \in [Node -> BOOLEAN] /\ bypass \in [Node -> BOOLEAN]
    /\ halt \in BOOLEAN
    /\ job \in [Node -> JobStage]
    /\ loop \in LoopStage
    /\ resumeQ \in [Node -> {"no", "dispatch", "review"}]
    /\ news \in BOOLEAN /\ noNewWork \in BOOLEAN /\ stopping \in BOOLEAN
    /\ rounds \in Nat /\ cap \in 1..MaxParallel
    /\ edit \in Edit \cup {NoEdit}
    /\ crashes \in Nat /\ starts \in Nat /\ edits \in Nat

Init ==
    /\ disk = InitialTree /\ mem = InitialTree
    /\ rec = [n \in Node |-> "none"]
    /\ art = [n \in Node |-> EmptyArtifact] /\ prior = [n \in Node |-> EmptyArtifact]
    /\ proposal = [n \in Node |-> "none"]
    /\ landed = [n \in Node |-> FALSE]
    /\ bypass = [n \in Node |-> FALSE]
    /\ halt = FALSE
    /\ job = [n \in Node |-> "idle"]
    /\ loop = "down"
    /\ resumeQ = [n \in Node |-> "no"]
    /\ news = FALSE /\ noNewWork = FALSE /\ stopping = FALSE
    /\ rounds = 0 /\ cap = MaxParallel
    /\ edit = NoEdit
    /\ crashes = 0 /\ starts = 0 /\ edits = 0

-----------------------------------------------------------------------------
(* Saving: _save_tree_locked folds every node of the disk's tree in first.  *)
Save(tree) ==
    /\ mem' = SyncTree(tree, disk, {})
    /\ disk' = mem'

Marked(tree, S) ==
    [n \in Node |-> IF n \in S THEN [tree[n] EXCEPT !.status = "dispatched"] ELSE tree[n]]

(* Mutant: the wave grows past the slots. *)
WaveOutcomeUnbounded(throttled) ==
    IF throttled THEN (IF cap \div 2 > 1 THEN cap \div 2 ELSE 1) ELSE cap + 1

(* record_wave_outcome: halve on a throttled attempt, else grow by one.     *)
WaveOutcome(throttled) ==
    IF throttled THEN (IF cap \div 2 > 1 THEN cap \div 2 ELSE 1)
    ELSE IF cap < MaxParallel THEN cap + 1 ELSE cap

Voids(event) == event \in ReplayInvalidating

(* Racing = FALSE: nothing of the harness falls between an edit's load and
   its save.                                                                *)
Undisturbed == Racing \/ edit = NoEdit

-----------------------------------------------------------------------------
(* The scheduler.                                                           *)

(* run_round_loop starts, in a new process: load the tree, queue what a
   crash left mid-flight, send bypassed nodes to review.  seed_wave_cap opens
   the wave, unless this process has been throttled before.                 *)
Start ==
    /\ loop \in {"down", "ended"} /\ ~halt
    /\ starts < MaxStarts
    /\ LET Waived(n) == disk[n].status \in {"pending", "blocked"} /\ bypass[n]
       IN  /\ mem' = [n \in Node |-> IF Waived(n)
                                     THEN [disk[n] EXCEPT !.status = "awaiting_review"]
                                     ELSE disk[n]]
           /\ resumeQ' = [n \in Node |->
                             IF disk[n].status = "dispatched" THEN "dispatch"
                             ELSE IF disk[n].status = "awaiting_review" \/ Waived(n) THEN "review"
                             ELSE "no"]
    /\ loop' = "deciding" /\ news' = TRUE
    /\ noNewWork' = FALSE /\ stopping' = FALSE
    /\ rounds' = 0
    /\ cap' = MaxParallel \/ (loop = "ended" /\ cap' = cap)
    /\ starts' = starts + 1
    /\ UNCHANGED <<durable, job, edit, crashes, edits>>

Admit(n) ==
    /\ loop = "deciding" /\ ~Busy
    /\ resumeQ[n] # "no"
    /\ resumeQ[n] = "review" => \A m \in Node : resumeQ[m] # "dispatch"
    /\ Cardinality(Running) < cap
    /\ job' = [job EXCEPT ![n] = IF resumeQ[n] = "dispatch" THEN "new" ELSE "toReview"]
    /\ resumeQ' = [resumeQ EXCEPT ![n] = "no"]
    /\ UNCHANGED <<durable, mem, loop, news, noNewWork, stopping, rounds, cap, edit, counters>>

AtDecision == /\ loop = "deciding" /\ ~Busy
              /\ Queued = {} \/ Cardinality(Running) >= cap

MayDecide == ~stopping /\ ~noNewWork /\ Queued = {} /\ news

ProviderDown == \E n \in Node : mem[n].defect = "provider"

(* Section E15 (a): a halt, or a provider that is down, ends new work.      *)
DecideStop ==
    /\ AtDecision /\ MayDecide
    /\ halt \/ ProviderDown
    /\ noNewWork' = TRUE
    /\ loop' = "resting"
    /\ UNCHANGED <<durable, mem, job, resumeQ, news, stopping, rounds, cap, edit, counters>>

DecideSkip ==
    /\ AtDecision /\ ~MayDecide
    /\ loop' = "resting"
    /\ UNCHANGED <<durable, mem, job, resumeQ, news, noNewWork, stopping, rounds, cap, edit,
                   counters>>

Deciding == AtDecision /\ MayDecide /\ ~halt /\ ~ProviderDown

(* Mutant: the decision is taken without reading the disk again. *)
SyncedNever == mem

(* The tree a decision is taken on, and the nodes it may hand out.          *)
Synced == SyncTree(mem, disk, Running)
Offered(tree) == ReadyNodes(Claimed(tree, Running))

(* Mutant: nothing to hand out alone ends the loop. *)
DecideTerminalEarly ==
    /\ Deciding
    /\ Offered(Synced) = {}
    /\ mem' = Synced
    /\ loop' = "ended"
    /\ UNCHANGED <<durable, job, resumeQ, news, noNewWork, stopping, rounds, cap, edit, counters>>

(* Nothing to hand out and nothing running: the loop returns.               *)
DecideTerminal ==
    /\ Deciding
    /\ Offered(Synced) = {} /\ Running = {}
    /\ mem' = Synced
    /\ loop' = "ended"
    /\ UNCHANGED <<durable, job, resumeQ, news, noNewWork, stopping, rounds, cap, edit, counters>>

(* Nothing to hand out, or no free slot: wait without a model call.         *)
DecideNothing ==
    /\ Deciding
    /\ Running # {}
    /\ Offered(Synced) = {} \/ Free = 0
    /\ mem' = Synced
    /\ news' = FALSE
    /\ loop' = "resting"
    /\ UNCHANGED <<durable, job, resumeQ, noNewWork, stopping, rounds, cap, edit, counters>>

ForcedChoice(tree) ==
    LET ready == Offered(tree)
    IN  \/ Cardinality(ready) = 1 /\ Free = 1 /\ Running = {}
        \/ Cardinality(ready) <= Free /\ \A n \in ready : tree[n].attempts = 0

Commit(tree, S) ==
    /\ rounds' = IF \E n \in S : tree[n].attempts = 0 THEN rounds + 1 ELSE rounds
    /\ noNewWork' = (rounds' >= MaxRounds)
    /\ job' = [n \in Node |-> IF n \in S THEN "new" ELSE job[n]]
    /\ loop' = "resting"

(* One possible answer: dispatch it with no model call.                     *)
DecideForced ==
    /\ Deciding
    /\ Offered(Synced) # {} /\ Free > 0
    /\ ForcedChoice(Synced)
    /\ Save(Marked(Synced, Offered(Synced)))
    /\ Commit(mem', Offered(Synced))
    /\ news' = FALSE
    /\ UNCHANGED <<rec, art, prior, proposal, landed, bypass, halt, resumeQ, stopping, cap, edit,
                   counters>>

(* A real choice: the model is asked, and the loop awaits its answer.       *)
DecideAsk ==
    /\ Deciding
    /\ Offered(Synced) # {} /\ Free > 0
    /\ ~ForcedChoice(Synced)
    /\ mem' = Synced
    /\ news' = FALSE
    /\ loop' = "asking"
    /\ UNCHANGED <<durable, job, resumeQ, noNewWork, stopping, rounds, cap, edit, counters>>

(* Section E15 (b): a halt while the call was out. *)
AnswerHalted ==
    /\ loop = "asking" /\ ~Busy /\ halt
    /\ noNewWork' = TRUE
    /\ loop' = "resting"
    /\ UNCHANGED <<durable, mem, job, resumeQ, news, stopping, rounds, cap, edit, counters>>

(* parse_orchestrator_decision corrects every answer, the fallback's too, to
   a set of ready nodes that fits the free slots.  The nodes are marked and
   saved one by one, the first of them before the others.                  *)
AnswerDispatch ==
    /\ loop = "asking" /\ ~Busy /\ ~halt
    /\ \E S \in (SUBSET Offered(mem)) \ {{}} :
          /\ Cardinality(S) <= Free
          /\ \E first \in S :
                LET saved == SyncTree(Marked(mem, {first}), disk, {})
                IN  mem' = SyncTree(Marked(saved, S \ {first}), saved, {})
          /\ disk' = mem'
          /\ Commit(mem, S)
    /\ UNCHANGED <<rec, art, prior, proposal, landed, bypass, halt, resumeQ, news, stopping, cap,
                   edit, counters>>

(* ... or to a wait, which it refuses when nothing runs and work is ready.  *)
AnswerWait ==
    /\ loop = "asking" /\ ~Busy /\ ~halt
    /\ Running # {} \/ Offered(mem) = {}
    /\ loop' = "resting"
    /\ UNCHANGED <<durable, mem, job, resumeQ, news, noNewWork, stopping, rounds, cap, edit,
                   counters>>

(* After a decision: wait on the running jobs, look again, or return.       *)
Rest ==
    /\ loop = "resting"
    /\ LET again == ~stopping /\ ~noNewWork /\ ~news
       IN  /\ loop' = IF Running # {} THEN "waiting"
                      ELSE IF Queued # {} \/ again THEN "deciding"
                      ELSE "ended"
           /\ news' = IF Running = {} /\ Queued = {} /\ again THEN TRUE ELSE news
    /\ UNCHANGED <<durable, mem, job, resumeQ, noNewWork, stopping, rounds, cap, edit, counters>>

Reap ==
    /\ loop = "waiting" /\ ~Busy
    /\ LET finished == {n \in Node : job[n] \in {"done", "failed"}}
       IN  /\ finished # {}
           /\ job' = [n \in Node |-> IF n \in finished THEN "idle" ELSE job[n]]
           /\ stopping' = (stopping \/ \E n \in finished : job[n] = "failed")
    /\ news' = TRUE
    /\ loop' = "deciding"
    /\ UNCHANGED <<durable, mem, resumeQ, noNewWork, rounds, cap, edit, counters>>

-----------------------------------------------------------------------------
(* The jobs: attempt_job, with the dispatch and the review it awaits.       *)

ToReview(n, tree) == IF tree[n].status # "awaiting_review" THEN "done"
                     ELSE IF bypass[n] THEN "waived" ELSE "reviewing"
Move(n, stage) == job' = [job EXCEPT ![n] = stage]

(* A bypassed retry goes to review without an episode.                      *)
JobShortcut(n) ==
    /\ job[n] = "new" /\ ~Busy
    /\ mem[n].attempts > 0 /\ bypass[n]
    /\ Save([mem EXCEPT ![n].status = "awaiting_review"])
    /\ Move(n, ToReview(n, mem'))
    /\ UNCHANGED <<rec, art, prior, proposal, landed, bypass, halt, scheduler, cap, edit, counters>>

Dispatching(n) == job[n] = "new" /\ ~Busy /\ ~(mem[n].attempts > 0 /\ bypass[n])

(* run_node replays a recorded completion, in an empty new worktree.        *)
JobRecall(n) ==
    /\ Dispatching(n)
    /\ rec[n] # "none"
    /\ Move(n, "recalled")
    /\ UNCHANGED <<durable, mem, scheduler, cap, edit, counters>>

(* ... or, for a bypassed node, records a completion of an episode not run. *)
JobBypassed(n) ==
    /\ Dispatching(n)
    /\ rec[n] = "none" /\ bypass[n]
    /\ rec' = [rec EXCEPT ![n] = "done"]
    /\ Move(n, "recalled")
    /\ UNCHANGED <<disk, art, prior, proposal, landed, bypass, halt, mem, scheduler, cap, edit,
                   counters>>

(* ... or snapshots the artifact and starts the writer.                     *)
JobEpisode(n) ==
    /\ Dispatching(n)
    /\ rec[n] = "none" /\ ~bypass[n]
    /\ prior' = IF art[n].units > 0 THEN [prior EXCEPT ![n] = art[n]] ELSE prior
    /\ landed' = [landed EXCEPT ![n] = ~Worktrees]
    /\ Move(n, "episode")
    /\ UNCHANGED <<disk, rec, art, proposal, bypass, halt, mem, scheduler, cap, edit, counters>>

(* What a writer may have left on disk when its episode stops.              *)
WriterLeaves(S) ==
    /\ \E out \in [S -> Artifact] :
          art' = [n \in Node |-> IF n \in S THEN out[n] ELSE art[n]]
    /\ \E P \in SUBSET (S \cap Splitters) :
          proposal' = [n \in Node |-> IF n \notin P THEN proposal[n]
                                      ELSE IF n \in GoodSplit THEN "good" ELSE "bad"]

EpisodeEnds(n) ==
    /\ job[n] = "episode" /\ ~Busy
    /\ WriterLeaves({n})
    /\ \E status \in EpisodeStatus : rec' = [rec EXCEPT ![n] = status]
    /\ Move(n, "completed")
    /\ UNCHANGED <<disk, prior, landed, bypass, halt, mem, scheduler, cap, edit, counters>>

(* The adapter, the prompt builder or the environment raised.               *)
JobRaises(n) ==
    /\ job[n] \in {"new", "episode"} /\ ~Busy
    /\ WriterLeaves({n} \cap {m \in Node : job[m] = "episode"})
    /\ Move(n, "failed")
    /\ UNCHANGED <<disk, rec, prior, landed, bypass, halt, mem, scheduler, cap, edit, counters>>

(* _result_from_completed_event knows no throttled or transport status.     *)
Result(n) == IF job[n] = "recalled" /\ rec[n] \in NonAttemptStatus THEN "done" ELSE rec[n]
Settling(n) == job[n] \in {"completed", "recalled"}

(* handle_split_proposal: saves the tree as it is, with no sync.  Neither
   outcome voids the completion or removes the proposal.                    *)
SettleSplit(n) ==
    /\ Settling(n)
    /\ proposal[n] # "none"
    /\ mem' = IF proposal[n] = "good" THEN Graft(mem, n)
              ELSE [mem EXCEPT ![n].status = "pending"]
    /\ disk' = mem'
    /\ cap' = WaveOutcome(mem[n].defect = "throttled")
    /\ Move(n, "done")
    /\ UNCHANGED <<rec, art, prior, proposal, landed, bypass, halt, scheduler, edit, counters>>

(* Mutant: the node goes back to the pool in memory only. *)
SettleConflictUnsaved(n) ==
    /\ Settling(n)
    /\ proposal[n] = "none"
    /\ Worktrees /\ MayConflict
    /\ job[n] = "completed" /\ rec[n] = "done"
    /\ mem' = [mem EXCEPT ![n].status = "pending", ![n].defect = "other"]
    /\ cap' = WaveOutcome(mem'[n].defect = "throttled")
    /\ Move(n, "done")
    /\ UNCHANGED <<durable, scheduler, edit, counters>>

(* The patch of the worktree does not apply to trunk: back to the pool.     *)
SettleConflict(n) ==
    /\ Settling(n)
    /\ proposal[n] = "none"
    /\ Worktrees /\ MayConflict
    /\ job[n] = "completed" /\ rec[n] = "done"
    /\ Save([mem EXCEPT ![n].status = "pending", ![n].defect = "other"])
    /\ cap' = WaveOutcome(mem'[n].defect = "throttled")
    /\ Move(n, "done")
    /\ UNCHANGED <<rec, art, prior, proposal, landed, bypass, halt, scheduler, edit, counters>>

(* Gates, manifest and _transition_after_writer up to its save.  A replayed
   completion has an empty worktree: its patch lands nothing.               *)
SettleGates(n) ==
    /\ Settling(n)
    /\ proposal[n] = "none"
    /\ \E unscoped, streakOld \in BOOLEAN :
          LET lost    == AccidentalLoss(Result(n), art[n], prior[n], bypass[n], unscoped)
              outcome == [status |-> Result(n), art |-> art[n], prior |-> prior[n],
                          bypassed |-> bypass[n], lost |-> lost, streakOld |-> streakOld]
              after   == AfterWriter(mem[n], outcome)
          IN  /\ mem' = [mem EXCEPT ![n] = after.node]
              /\ rec' = IF Voids(after.event) THEN [rec EXCEPT ![n] = "none"] ELSE rec
              /\ art' = IF lost THEN [art EXCEPT ![n] = prior[n]] ELSE art
    /\ landed' = IF job[n] = "completed" /\ Result(n) = "done"
                 THEN [landed EXCEPT ![n] = TRUE] ELSE landed
    /\ Move(n, "settled")
    /\ UNCHANGED <<disk, prior, proposal, bypass, halt, scheduler, cap, edit, counters>>

(* The save of _transition_after_writer; then on to the review it awaits.   *)
SaveSettled(n) ==
    /\ job[n] = "settled"
    /\ Save(mem)
    /\ cap' = WaveOutcome(mem'[n].defect = "throttled")
    /\ Move(n, ToReview(n, mem'))
    /\ UNCHANGED <<rec, art, prior, proposal, landed, bypass, halt, scheduler, edit, counters>>

JobReview(n) ==
    /\ job[n] = "toReview" /\ ~Busy
    /\ Move(n, ToReview(n, mem))
    /\ UNCHANGED <<durable, mem, scheduler, cap, edit, counters>>

(* A verdict, up to the save of _transition_after_review.  A bypass seen
   before the reviewer answers passes the node.                             *)
ReviewEnds(n) ==
    /\ \/ job[n] = "waived"
       \/ job[n] = "reviewing" /\ ~Busy
    /\ \E verdict \in Verdict :
          LET after == AfterReview(mem[n], verdict)
          IN  /\ job[n] = "waived" => verdict = "pass"
              /\ mem' = [mem EXCEPT ![n] = after.node]
              /\ rec' = IF Voids(after.event) THEN [rec EXCEPT ![n] = "none"] ELSE rec
    /\ Move(n, "judged")
    /\ UNCHANGED <<disk, art, prior, proposal, landed, bypass, halt, scheduler, cap, edit, counters>>

(* Mutant: on_node_passed is not called. *)
SaveJudgedOnly(n) ==
    /\ job[n] = "judged"
    /\ Save(mem)
    /\ Move(n, "done")
    /\ UNCHANGED <<rec, art, prior, proposal, landed, bypass, halt, scheduler, cap, edit, counters>>

SaveJudged(n) ==
    /\ job[n] = "judged"
    /\ Save(mem)
    /\ Move(n, IF mem'[n].status = "passed" THEN "passing" ELSE "done")
    /\ UNCHANGED <<rec, art, prior, proposal, landed, bypass, halt, scheduler, cap, edit, counters>>

(* maybe_derive_split_parent: the last child to pass writes the parent's
   artifact, the concatenation of its children's.                           *)
OnNodePassed(n) ==
    /\ job[n] = "passing"
    /\ art' = [p \in Node |->
                 IF /\ n \in Children[p] /\ mem[p].status = "split"
                    /\ \A c \in Children[p] : mem[c].status = "passed"
                 THEN [units |-> Units, ok |-> TRUE] ELSE art[p]]
    /\ Move(n, "done")
    /\ UNCHANGED <<disk, rec, prior, proposal, landed, bypass, halt, mem, scheduler, cap, edit,
                   counters>>

-----------------------------------------------------------------------------
(* What happens to the loop from outside.                                   *)

(* kill -9, at any of the points above.                                     *)
Crash ==
    /\ loop \notin {"down", "ended"}
    /\ crashes < MaxCrashes
    /\ crashes' = crashes + 1
    /\ WriterLeaves({n \in Node : job[n] = "episode"})
    /\ loop' = "down"
    /\ mem' = disk
    /\ job' = [n \in Node |-> "idle"]
    /\ resumeQ' = [n \in Node |-> "no"]
    /\ news' = FALSE /\ noNewWork' = FALSE /\ stopping' = FALSE /\ rounds' = 0
    /\ cap' = MaxParallel
    /\ UNCHANGED <<disk, rec, prior, landed, bypass, halt, edit, starts, edits>>

MayEdit(kind) == kind \in EditKinds /\ edit = NoEdit /\ edits < MaxEdits

(* What each kind of edit accepts, and what it leaves the node as.          *)
Editable(kind, node) ==
    CASE kind = "redispatch" -> node.status \in {"pending", "blocked"}
      [] kind \in {"reopen", "cli_reopen"} -> node.status \notin {"absent", "split"}
      [] kind = "pass" -> node.status \in {"awaiting_review", "pending", "blocked"}
Edited(kind, node) ==
    CASE kind = "redispatch" ->
            [node EXCEPT !.status = "pending", !.attempts = 0, !.defect = "other"]
      [] kind \in {"reopen", "cli_reopen"} -> [node EXCEPT !.status = "pending", !.defect = "other"]
      [] kind = "pass" -> [node EXCEPT !.status = "passed", !.defect = "none"]

(* redispatch, reopen_node, cmd_reopen, bypass_node: load the whole tree.   *)
BeginEdit(kind, n) ==
    /\ MayEdit(kind)
    /\ Editable(kind, disk[n])
    /\ edits' = edits + 1
    /\ bypass' = IF kind = "pass" THEN [bypass EXCEPT ![n] = TRUE] ELSE bypass
    /\ edit' = [kind |-> kind, node |-> n, saved |-> FALSE,
                tree |-> [disk EXCEPT ![n] = Edited(kind, @)]]
    /\ UNCHANGED <<disk, rec, art, prior, proposal, landed, halt, mem, job, scheduler, cap,
                   crashes, starts>>

(* ... write the whole tree back ...                                        *)
SaveEdit ==
    /\ edit # NoEdit /\ ~edit.saved
    /\ disk' = edit.tree
    /\ edit' = IF edit.kind \in {"redispatch", "reopen"} THEN [edit EXCEPT !.saved = TRUE]
               ELSE NoEdit
    /\ UNCHANGED <<rec, art, prior, proposal, landed, bypass, halt, mem, job, scheduler, cap,
                   counters>>

(* ... and, the dashboard's two only, log the event that voids a recorded
   completion.                                                              *)
LogEdit ==
    /\ edit # NoEdit /\ edit.saved
    /\ rec' = [rec EXCEPT ![edit.node] = "none"]
    /\ edit' = NoEdit
    /\ UNCHANGED <<disk, art, prior, proposal, landed, bypass, halt, mem, job, scheduler, cap,
                   counters>>

(* cmd_bypass: the flag alone. *)
SetBypass(n) ==
    /\ MayEdit("bypass")
    /\ bypass' = [bypass EXCEPT ![n] = TRUE]
    /\ edits' = edits + 1
    /\ UNCHANGED <<disk, rec, art, prior, proposal, landed, halt, mem, job, scheduler, cap, edit,
                   crashes, starts>>

ToggleHalt ==
    /\ MayEdit("halt")
    /\ halt' = ~halt
    /\ edits' = edits + 1
    /\ UNCHANGED <<disk, rec, art, prior, proposal, landed, bypass, mem, job, scheduler, cap, edit,
                   crashes, starts>>

-----------------------------------------------------------------------------
Scheduling == \/ \E n \in Node : Admit(n)
              \/ DecideStop \/ DecideSkip \/ DecideTerminal \/ DecideNothing
              \/ DecideForced \/ DecideAsk
              \/ AnswerHalted \/ AnswerDispatch \/ AnswerWait
              \/ Rest \/ Reap

Working(n) == \/ JobShortcut(n) \/ JobRecall(n) \/ JobBypassed(n) \/ JobEpisode(n)
              \/ EpisodeEnds(n) \/ SettleSplit(n) \/ SettleConflict(n) \/ SettleGates(n)
              \/ SaveSettled(n) \/ JobReview(n) \/ ReviewEnds(n) \/ SaveJudged(n)
              \/ OnNodePassed(n)

Operating == \/ \E kind \in EditKinds \ {"bypass", "halt"}, n \in Node : BeginEdit(kind, n)
             \/ SaveEdit \/ LogEdit
             \/ \E n \in Node : SetBypass(n)
             \/ ToggleHalt

Next == \/ Undisturbed /\ Scheduling
        \/ \E n \in Node : Undisturbed /\ Working(n)
        \/ \E n \in Node : Undisturbed /\ JobRaises(n)
        \/ Undisturbed /\ Start
        \/ Crash
        \/ Operating

Spec == Init /\ [][Next]_vars
-----------------------------------------------------------------------------
(* Properties.                                                              *)

Worked == {"awaiting_review", "passed"}
DurableInFlight == {n \in Node : disk[n].status \in InFlightStatus}
Awaiting == loop \notin {"down"} /\ ~Busy

(* Invariant 1 of the plan: the durable tree never says that a node awaits
   review or has passed unless the artifact now on disk passes its hard
   gates or the operator bypassed the node.  Crashes, replayed completions,
   restored snapshots and operator edits all rewrite one side of this.      *)
PassedEarned == \A n \in Node : disk[n].status \in Worked => art[n].ok \/ bypass[n]

(* A node that was handed out, or further, has every dependency passed, on
   disk, whatever crash or replay came between (no operator edits).         *)
InFlightDepsPassed ==
    \A n \in Node : disk[n].status \in Worked \cup {"dispatched", "split"}
                      => \A d \in DependsOn[n] : disk[d].status = "passed"

(* The attempt budget: a node that may still run has budget left, and a node
   is only blocked with its budget spent or its provider down (no edits).   *)
AttemptsBounded ==
    \A n \in Node :
        /\ disk[n].status \in {"pending", "dispatched", "awaiting_review"}
              => disk[n].attempts < MaxAttempts
        /\ disk[n].status = "blocked" => \/ disk[n].attempts = MaxAttempts
                                         \/ disk[n].defect = "provider"

(* At every await of the event loop the tree in memory is the one on disk:
   no job leaves a transition unsaved behind an await (no edits).           *)
DiskIsTruth == Awaiting => mem = disk

(* What a node's durable record amounts to in the abstract life cycle.      *)
Phase(node) == CASE node.status = "pending" -> "waiting"
                 [] node.status = "dispatched" -> "active"
                 [] node.status = "awaiting_review" -> "submitted"
                 [] OTHER -> node.status

Abstract == INSTANCE NodeLifecycle WITH
                Slots <- MaxParallel, Budget <- MaxAttempts,
                phase <- [n \in Node |-> Phase(disk[n])],
                spent <- [n \in Node |-> disk[n].attempts]

(* Left alone by operators, the loop implements the abstract life cycle: a
   crash, a resume and a replay are stuttering steps of the durable tree.   *)
ImplementsLifecycle == Abstract!Spec

(* A loop that returns of its own accord leaves nothing ready and nothing in
   flight on disk, the operator's last edit included.                       *)
NoStrandedWork ==
    [][loop' = "ended" /\ loop # "ended" /\ ~stopping' /\ ~noNewWork'
          => ReadyNodes(disk) = {} /\ DurableInFlight = {}]_vars

(* No step un-passes a node, except the save of an edit of that very node.  *)
PassedStays ==
    [][\A n \in Node : disk[n].status = "passed" /\ disk'[n].status # "passed"
          => edit # NoEdit /\ edit.node = n]_vars

(* The children of a split are in the durable tree exactly when their parent
   reads "split", whatever was killed or replayed in between.               *)
SplitConsistent ==
    \A p \in Node : \A child \in Children[p] :
        disk[child].status = "absent" <=> disk[p].status # "split"

(* A loop that returns leaves every split parent whose children have all
   passed with its derived artifact (no crash, no edits).                   *)
SplitDerived ==
    loop = "ended" => \A p \in Node :
        disk[p].status = "split" /\ (\A child \in Children[p] : disk[child].status = "passed")
            => art[p].ok

(* A node that passed on its gates and review has its workspace changes on
   trunk.                                                                   *)
WorkLands ==
    \A n \in Node : disk[n].status = "passed" /\ ~bypass[n] => landed[n]
=============================================================================
