------------------------------- MODULE Assembly -------------------------------
(***************************************************************************)
(* Assembling a complete tree and repairing what does not compile          *)
(* (v3/assembly_loop.py, v3/repair.py), and the triage that repairs nodes  *)
(* an amendment, a document review or the operator has found wanting       *)
(* (v3/revalidate.py, pipeline/driver.py: apply_triage).                   *)
(*                                                                         *)
(* A repair writes a candidate under an id of its own and replaces the     *)
(* node's artifact only once the candidate has passed gates and review.    *)
(* The process may die between any two durable writes.                     *)
(***************************************************************************)
EXTENDS Naturals, FiniteSets

CONSTANTS
    Node,           \* the leaves of the tree
    MaxAttempts,    \* max_attempts
    MaxRepairs,     \* max_repairs: repair rounds of one assembly
    Charged,        \* attempts the round loop may have charged to a passed node
    NoText,         \* a file that does not exist
    MaxTriaged, MaxCrashes, MaxStarts   \* bounds of the checked behaviours: nodes of
                    \* one triage, crashes, jobs

ASSUME AssemblyAssumption ==
    /\ Node # {} /\ MaxAttempts \in Nat \ {0} /\ MaxRepairs \in Nat
    /\ Charged \subseteq 0..(MaxAttempts - 1)
    /\ NoText \notin [by: 0..MaxAttempts, gates: BOOLEAN, builds: BOOLEAN]
    /\ MaxTriaged \in Nat /\ MaxCrashes \in Nat /\ MaxStarts \in Nat

VARIABLES
    tree,       \* tree.json: status and attempts of every node
    art,        \* out/<node>.md
    snapshot,   \* out/.versions/<node>/<repair id>.md
    candidate,  \* out/<repair id>.md
    recorded,   \* the completion events.jsonl holds for a repair id
    vetted,     \* history: the texts of a node that have cleared gates and review
    loop,       \* the process: its copy of the tree, the document it has
                \* assembled, and where it is
    crashes, starts

disk == <<tree, art, snapshot, candidate, recorded, vetted>>
counters == <<crashes, starts>>
vars == <<disk, loop, counters>>

-----------------------------------------------------------------------------
(* A text of a node: who wrote it (0 the writer, a the repair of attempt a),
   whether it passes the node's hard gates, whether the document compiles
   with it (asked only of texts that pass).                                 *)

RepairId == Node \X (1..MaxAttempts)
Text == {t \in [by: 0..MaxAttempts, gates: BOOLEAN, builds: BOOLEAN] : t.builds => t.gates}
NodeState == [status: {"passed", "stale", "blocked"}, attempts: 0..MaxAttempts]

Step == {"idle",        \* no process assembles or repairs
         "compile",     \* the document is written and compiles
         "repair",      \* between two repairs
         "dispatch",    \* the snapshot is taken; run_node is called
         "written",     \* the writer's episode has left what it leaves
         "judge",       \* run_node has returned
         "promote",     \* the candidate has passed
         "restore",     \* the candidate has not
         "save"}        \* the artifact is written, the tree is not saved

LoopState == [at: Step, kind: {"assembly", "triage"},
              tree: [Node -> NodeState],                \* its copy of tree.json
              document: [Node -> Text \cup {NoText}],   \* the texts of assembly/main.md
              todo: SUBSET Node,                        \* the nodes still to repair
              node: Node, ok: BOOLEAN,                  \* the node under repair, its episode
              round: 0..MaxRepairs, result: {"none", "done", "escalated", "error"}]

TypeOK ==
    /\ tree \in [Node -> NodeState]
    /\ art \in [Node -> Text]
    /\ snapshot \in [RepairId -> Text \cup {NoText}]
    /\ candidate \in [RepairId -> Text \cup {NoText}]
    /\ recorded \in [RepairId -> {"none", "done", "timeout"}]
    /\ vetted \in [Node -> SUBSET Text]
    /\ loop \in LoopState
    /\ crashes \in 0..MaxCrashes /\ starts \in 0..MaxStarts

Idle(result) == [at |-> "idle", kind |-> "assembly",
                 tree |-> [n \in Node |-> [status |-> "passed", attempts |-> 0]],
                 document |-> [n \in Node |-> NoText], todo |-> {},
                 node |-> CHOOSE n \in Node : TRUE, ok |-> FALSE, round |-> 0,
                 result |-> result]

(* The round loop has left every node passed, on an artifact that earned it
   and with attempts to spare.                                              *)
Init ==
    /\ tree \in [Node -> {[status |-> "passed", attempts |-> a] : a \in Charged}]
    /\ art \in [Node -> {[by |-> 0, gates |-> TRUE, builds |-> b] : b \in BOOLEAN}]
    /\ snapshot = [i \in RepairId |-> NoText]
    /\ candidate = [i \in RepairId |-> NoText]
    /\ recorded = [i \in RepairId |-> "none"]
    /\ vetted = [n \in Node |-> {art[n]}]
    /\ loop = Idle("none")
    /\ crashes = 0 /\ starts = 0

At(step) == loop.at = step
To(step) == loop' = [loop EXCEPT !.at = step]
Return(result) == loop' = Idle(result)

Passed(t) == {n \in Node : t[n].status = "passed"}

(* repair_node_id: the attempts already charged, plus one.                  *)
RepairOf(n) == <<n, loop.tree[n].attempts + 1>>

-----------------------------------------------------------------------------
(* Assembly.                                                                *)

MayStart == At("idle") /\ starts < MaxStarts

(* Mutant: the cross-cutting checks look at the artifacts alone. *)
ChecksPassUnfinished == \A n \in Node : art[n].gates

(* run_cross_cutting_checks: every node passed, no artifact has drifted out
   of its gates.                                                            *)
ChecksPass == Passed(tree) = Node /\ \A n \in Node : art[n].gates

StartAssembly ==
    /\ MayStart
    /\ starts' = starts + 1
    /\ IF ChecksPass
       THEN loop' = [Idle("none") EXCEPT !.at = "compile", !.tree = tree, !.document = art]
       ELSE Return("escalated")
    /\ UNCHANGED <<tree, art, snapshot, candidate, recorded, vetted, crashes>>

Builds == \A n \in Node : loop.document[n].builds

CompilePasses ==
    /\ At("compile") /\ Builds
    /\ Return("done")
    /\ UNCHANGED <<disk, counters>>

(* Mutant: one repair round too many. *)
CompileFailsOnceMore ==
    /\ At("compile") /\ ~Builds
    /\ \/ Return("escalated")
       \/ /\ loop.round <= MaxRepairs
          /\ \E S \in SUBSET Passed(loop.tree) \ {{}} :
                loop' = [loop EXCEPT !.at = "repair", !.todo = S, !.round = @ + 1]
    /\ UNCHANGED <<disk, counters>>

(* Mutant: the repair rounds are not counted. *)
CompileFailsUncounted ==
    /\ At("compile") /\ ~Builds
    /\ \/ Return("escalated")
       \/ \E S \in SUBSET Passed(loop.tree) \ {{}} :
             loop' = [loop EXCEPT !.at = "repair", !.todo = S]
    /\ UNCHANGED <<disk, counters>>

(* The log names some of the passed nodes' files, or none of them.          *)
CompileFails ==
    /\ At("compile") /\ ~Builds
    /\ \/ Return("escalated")
       \/ /\ loop.round < MaxRepairs
          /\ \E S \in SUBSET Passed(loop.tree) \ {{}} :
                loop' = [loop EXCEPT !.at = "repair", !.todo = S, !.round = @ + 1]
    /\ UNCHANGED <<disk, counters>>

(* Mutant: assembled without require_complete. *)
ReassembleUnfinished ==
    /\ At("repair") /\ loop.todo = {} /\ loop.kind = "assembly"
    /\ loop' = [loop EXCEPT !.at = "compile", !.document = art]
    /\ UNCHANGED <<disk, counters>>

(* The document is concatenated again from what is now in out/.             *)
Reassemble ==
    /\ At("repair") /\ loop.todo = {} /\ loop.kind = "assembly"
    /\ IF Passed(loop.tree) = Node
       THEN loop' = [loop EXCEPT !.at = "compile", !.document = art]
       ELSE Return("escalated")
    /\ UNCHANGED <<disk, counters>>

-----------------------------------------------------------------------------
(* Triage.                                                                  *)

(* run_revalidation_pass: the reviewer alone; what is not clean is stale.   *)
Revalidate ==
    /\ MayStart
    /\ starts' = starts + 1
    /\ \E S \in SUBSET Passed(tree) :
          tree' = [n \in Node |-> IF n \in S THEN [tree[n] EXCEPT !.status = "stale"] ELSE tree[n]]
    /\ UNCHANGED <<art, snapshot, candidate, recorded, vetted, loop, crashes>>

(* apply_triage, of a re-validation, a document review or a reopened node.  *)
StartTriage ==
    /\ MayStart
    /\ starts' = starts + 1
    /\ \E S \in SUBSET {n \in Node : tree[n].status # "blocked"} :
          /\ Cardinality(S) \in 1..MaxTriaged
          /\ loop' = [Idle("none") EXCEPT !.at = "repair", !.kind = "triage", !.tree = tree,
                                          !.todo = S]
    /\ UNCHANGED <<disk, crashes>>

TriageEnds ==
    /\ At("repair") /\ loop.todo = {} /\ loop.kind = "triage"
    /\ Return("done")
    /\ UNCHANGED <<disk, counters>>

-----------------------------------------------------------------------------
(* run_repair.                                                              *)

(* Mutant: a snapshot that exists is kept. *)
SnapshotFirstOnly ==
    /\ At("repair")
    /\ \E n \in loop.todo :
          /\ snapshot' = [snapshot EXCEPT ![RepairOf(n)] = IF @ = NoText THEN art[n] ELSE @]
          /\ loop' = [loop EXCEPT !.at = "dispatch", !.node = n, !.todo = @ \ {n}]
    /\ UNCHANGED <<tree, art, candidate, recorded, vetted, counters>>

Snapshot ==
    /\ At("repair")
    /\ \E n \in loop.todo :
          /\ snapshot' = [snapshot EXCEPT ![RepairOf(n)] = art[n]]
          /\ loop' = [loop EXCEPT !.at = "dispatch", !.node = n, !.todo = @ \ {n}]
    /\ UNCHANGED <<tree, art, candidate, recorded, vetted, counters>>

Current == RepairOf(loop.node)

(* run_node: a completion on record is replayed; nothing a repair logs ever
   consumes it.                                                             *)
Replay ==
    /\ At("dispatch") /\ recorded[Current] # "none"
    /\ loop' = [loop EXCEPT !.at = "judge", !.ok = recorded[Current] = "done"]
    /\ UNCHANGED <<disk, counters>>

(* The writer's episode leaves a candidate, or none.                        *)
Dispatch ==
    /\ At("dispatch") /\ recorded[Current] = "none"
    /\ \/ UNCHANGED candidate
       \/ \E t \in Text : /\ t.by = Current[2]
                          /\ candidate' = [candidate EXCEPT ![Current] = t]
    /\ To("written")
    /\ UNCHANGED <<tree, art, snapshot, recorded, vetted, counters>>

(* A timeout (or an error) is replayed as one; a status that cannot be
   replayed is read back as "done".                                         *)
EpisodeEnds ==
    /\ At("written")
    /\ \E status \in {"done", "timeout", "throttled"} :
          /\ recorded' = [recorded EXCEPT
                             ![Current] = IF status = "timeout" THEN status ELSE "done"]
          /\ loop' = [loop EXCEPT !.at = "judge", !.ok = status = "done"]
    /\ UNCHANGED <<tree, art, snapshot, candidate, vetted, counters>>

Acceptable == loop.ok /\ candidate[Current] # NoText /\ candidate[Current].gates

JudgePasses ==
    /\ At("judge") /\ Acceptable
    /\ vetted' = [vetted EXCEPT ![loop.node] = @ \cup {candidate[Current]}]
    /\ To("promote")
    /\ UNCHANGED <<tree, art, snapshot, candidate, recorded, counters>>

(* Mutant: a failing review does not stop a candidate that passes gates. *)
JudgeFailsOpen ==
    /\ At("judge")
    /\ IF Acceptable THEN To("promote") ELSE To("restore")
    /\ UNCHANGED <<disk, counters>>

(* The gates or the review find it wanting.                                 *)
JudgeFails ==
    /\ At("judge")
    /\ To("restore")
    /\ UNCHANGED <<disk, counters>>

(* The reviewer cannot be had: the error leaves the loop.                   *)
ReviewRaises ==
    /\ At("judge") /\ Acceptable
    /\ Return("error")
    /\ UNCHANGED <<disk, counters>>

Promote ==
    /\ At("promote")
    /\ art' = [art EXCEPT ![loop.node] = candidate[Current]]
    /\ loop' = [loop EXCEPT !.at = "save", !.tree[loop.node].status = "passed"]
    /\ UNCHANGED <<tree, snapshot, candidate, recorded, vetted, counters>>

Restore ==
    /\ At("restore")
    /\ art' = [art EXCEPT ![loop.node] = snapshot[Current]]
    /\ LET charged == loop.tree[loop.node].attempts + 1
       IN  loop' = [loop EXCEPT
                       !.at = "save",
                       !.tree[loop.node] =
                           [status |-> IF charged >= MaxAttempts THEN "blocked" ELSE "stale",
                            attempts |-> charged]]
    /\ UNCHANGED <<tree, snapshot, candidate, recorded, vetted, counters>>

Save ==
    /\ At("save")
    /\ tree' = loop.tree
    /\ To("repair")
    /\ UNCHANGED <<art, snapshot, candidate, recorded, vetted, counters>>

Crash ==
    /\ ~At("idle") /\ crashes < MaxCrashes
    /\ crashes' = crashes + 1
    /\ Return("none")
    /\ UNCHANGED <<disk, starts>>

Working == \/ CompilePasses \/ CompileFails \/ Reassemble \/ TriageEnds
           \/ Snapshot \/ Replay \/ Dispatch \/ EpisodeEnds
           \/ JudgePasses \/ JudgeFails \/ ReviewRaises \/ Promote \/ Restore \/ Save

Next == StartAssembly \/ Revalidate \/ StartTriage \/ Working \/ Crash

(* One coroutine, whose calls have deadlines.                               *)
Spec == Init /\ [][Next]_vars /\ WF_vars(Working)

-----------------------------------------------------------------------------
(* Properties.                                                              *)

(* Only a writer that has cleared gates and review changes an artifact that
   had passed: whatever fails, is replayed, restored or killed on the way,
   out/ never holds a text that has not.                                    *)
VettedOnly == \A n \in Node : art[n] \in vetted[n]

(* A repair that does not pass leaves the artifact as it found it: putting
   the snapshot back never undoes an earlier repair.                        *)
FailedRepairUndoesNothing == [][At("restore") /\ ~At("idle")' => art' = art]_vars

(* An assembly reported done has compiled what is in out/ now, and every
   node of it has passed on disk.                                           *)
DoneIsAssembled ==
    [][At("compile") /\ loop'.result = "done"
          => loop.document = art /\ Passed(tree) = Node /\ \A n \in Node : art[n].builds]_vars
=============================================================================
