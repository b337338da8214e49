# kusudaemon in TLA+

kusudaemon turns a goal into a long document or a changed workspace by driving
external coding agents. A run is classified into a tier, prepared (intake,
survey, plan, research), written node by node, gated, reviewed, assembled and
repaired. Everything durable is a file of the run directory, any process may be
killed at any time, and the operator edits the same files from a dashboard or a
command line while the run is going on. This directory models that machinery,
checks it with TLC and proves part of it with TLAPS. Paths below are relative to
`src/src/kusudaemon/` unless they begin with `src/`.

| Module | Models | Checked by |
|---|---|---|
| `TaskTree` | the task tree: readiness, synchronisation with the disk, the graft of a split | (used by the loops) |
| `NodeTransitions` | what an episode's outcome and a verdict do to a node | (used by the loops) |
| `RoundLoop` | the event-driven scheduler, its jobs, crash and resume, the operator's edits | `MCRoundLoop`: `resume`, `splits`, `operator_edits`, `salvaged_patch_lost` |
| `RefillLoop`, `SerialLoop` | the two other branches of `run_round_loop` | `MCLoops`: `terminates` (with `RoundLoop`) |
| `NodeLifecycle` | the abstract life cycle that all three loops implement | `ImplementsLifecycle`, `LoopsImplementLifecycle` |
| `TierDriver` | one pipeline run: phases, tiers, escalations, approvals, resumes | `MCTierDriver`: `tier_driver`, `operator_escalation_skips_plan` |
| `Intake`, `Survey`, `Planning`, `Research`, `Slicing` | what comes before the first node is written | `MCPreparation`: `preparation` |
| `RunNode` | one node's episodes over `events.jsonl`, its sessions and snapshots | `MCExecution`: `execution` |
| `TraceView`, `FileCache` | what the dashboard and a browser tab make of a growing trace | `MCExecution`: `execution` |
| `Review` | the review of one node, its parts, turns, cache and audit | `MCModelCalls`: `model_calls` |
| `Provider`, `RequestLadder` | one structured model call; its HTTP requests | `MCModelCalls`: `model_calls` |
| `Episode` | one command-line agent under the harness, its worker and its signals | `MCModelCalls`: `model_calls` |
| `Assembly` | assembling, compiling, repairing, triage | `MCAssembly`: `assembly` |
| `DocReview` | the review of the whole document and its cache | `MCAssembly`: `assembly` |
| `Sweep` | the benchmark sweep that harvests and scores runs | `MCAssembly`: `assembly` |
| `Hosting` | who drives a run: registry, heartbeats, halts, answers | `MCDashboard`: `dashboard` |
| `Jobs`, `CliJobs` | the dashboard's background jobs; the tools tab | `MCDashboard`: `dashboard` |
| `RoundLoop_proofs`, `Loops_proofs` | the theorems about `RoundLoop`; about `RefillLoop` and `SerialLoop` | TLAPS |
| `TierDriver_proofs` | the theorems about `TierDriver` | TLAPS |
| `Preparation_proofs` | the theorems about `Intake`, `Survey`, `Planning`, `Research`, `Slicing` | TLAPS |
| `RunNode_proofs` | the theorems about `RunNode` and `FileCache` | TLAPS |
| `ModelCalls_proofs` | the theorems about `Review`, `Provider`, `RequestLadder`, `Episode` | TLAPS |
| `Assembly_proofs` | the theorems about `Assembly`, `DocReview`, `Sweep` | TLAPS |
| `Dashboard_proofs` | the theorems about `Hosting`, `Jobs`, `CliJobs` | TLAPS |

---

## 1. Inventory

### 1.1 The parts, their state, their operations

**Task tree** (`v1/tree.py`). `tree.json`: per node a status (`pending`,
`dispatched`, `awaiting_review`, `passed`, `blocked`, `split`, `stale`),
attempts, non-attempts, nudges, the last defect, dependencies, parent. Read and
written whole. *Correct when* a node only starts with its dependencies passed,
budgets bound the attempts, a split is all or nothing.

**Round loop** (`v1/round_loop.py`). `run_round_loop` has three branches. The
event-driven scheduler (`orchestrated_loop`) keeps the tree in memory, decides
at each change which ready nodes to start, runs up to `max_parallel` jobs as
coroutines of one thread, and reaps them as they finish; a job is one attempt.
`refill_loop` decides in rounds and its jobs retry in place; the serial branch
awaits one node at a time. All sync their tree from disk before each save.
*Correct when* memory and disk agree at every await, nothing ready or in flight
is left when a loop returns, nothing passed is un-passed, slots are neither
overrun nor left idle, and the loop returns.

**Node runner and event log** (`v0/runner.py`, `v0/events.py`).
`events.jsonl`, append-only; `trace.jsonl`, the CLI's output over all attempts;
attempt snapshots. `run_node` runs an episode for a node id or replays the
completion on record, unless a later event voids it; it captures the CLI's
session, resumes it, and frames the prompt by what the log says happened.
*Correct when* each recorded result is handed on once, what an episode found
can be put back, and work on disk is continued and not begun again.

**Episode** (`environment/local.py`, `adapters/_agent_worker.py`,
`adapters/cli_agent.py`, `utils/process_group.py`). A shell, a worker in its
group, a CLI in a group of its own. *Correct when* nothing outlives the episode
or a terminated harness, and it returns within its budget.

**Provider client** (`v1/provider.py`, `roles/backend_provider.py`). Retries of
six kinds, latches about what the endpoint supports, a throttle, a ladder of
sleeps, fallback models; shared by threads. *Correct when* each request carries
its schema, nothing stale or garbled is carried forward, and a call ends.

**Reviewer** (`v1/reviewer.py`, `v1/review_loop.py`, `review_one` of
`v1/round_loop.py`). Screens, parts judged in parallel, a read loop with
coverage, a verdict cache in `audit/<node>.json`. *Correct when* a node passes
on what a judge saw of what it is now, and a writer pays for its own faults only.

**Runtime split, admission, orchestrator, worktrees, writer and gates**
(`v7/split.py`, `pipeline/admission.py`, `v1/orchestrator.py`, `v1/worktree.py`,
`v1/writer.py`, `v1/gates.py`). Proposals that turn a node into children; the
AIMD cap on jobs in flight; the model call that picks nodes; patches that may
conflict; functions from text to outcome.

**Tier driver** (`pipeline/driver.py`, `pipeline/run.py`, `v6/`). `tier.json`,
`phase.json`, `spec.md`, `spine.json`, `tree.json`, `contract.md`, approvals.
`RecursiveDriver.run` repeats: read the tier, take the first of its phases that
has not run in this process, run it unless its file says it is done. Escalations
raise the tier, archiving what must be rebuilt. *Correct when* the tier only
rises, nothing valuable is discarded, `done` means that what the final tier asks
for exists, and every run reports.

**Intake, survey, planning, research, slicing** (`v2/`, `v4/`, and their phases
in the driver). Forms and `spec.md`; chunks, votes, `spine/*.md` and
`spine.json`; the recursion that makes leaves of units; probes, raw and
canonical findings; the distribution of a finished one-node document.
*Correct when* no assumption goes unstated, every unit of the source ends up in
one leaf, what a probe found reaches its leaf.

**Assembly, repair, re-validation, document review** (`v3/`). Checks,
concatenation, compile; a failing compile leads to scoped repairs under ids of
their own. The document review reads an index in windows, and its clean verdict
is cached by a digest. *Correct when* `out/` only holds texts that cleared gates
and review, a failed repair changes nothing, `done` means the document is what
is in `out/` and compiles, a skipped review had been earned.

**Dashboard** (`dashboard/`, `src/frontend/`). Hosts drivers as threads, keeps a
registry, background jobs and command-line jobs; parses traces incrementally and
caches counts. Command line (`pipeline/cli.py`) and dashboard are also the
operator's hands: redispatch, reopen, accept, bypass, halt, escalate, override,
resolve an approval, each a read-modify-write of a file without a lock shared
with the run. *Correct when* a start is refused beside a working driver, a
working driver is never called stalled and a dead one is, a cancel is final, and
what is shown is what was written.

**Approvals** (`pipeline/approvals.py`). Records appended to one file, in more
than one write; drivers poll by whole lines.

**Benchmark sweep** (`src/scripts/run_longgen_bench.py`). Starts one
`kusudaemon bench` child per cell, harvests and scores what it left. *Correct
when* a row measures the run it names.

**Around them**: prompts, backends, templates, retrieval, prices, views, static
capabilities, evaluation. `PROJECT.json` lists every part with what is left out.

### 1.2 How they interact

- The driver calls the preparation phases, `run_round_loop` in its execute phase
  and `run_assembly_loop` in its assemble phase. All of them call `run_node` for
  episodes, which calls `LocalEnvironment.exec`; reviews, plans, surveys and
  decisions call `complete_json`.
- The loop's jobs share its in-memory tree; other processes share `tree.json`.
- `events.jsonl` ties a node's life to the replay decision and to its sessions.
- Each module states of the ones below it only how they can end. `RoundLoop`
  takes from `RunNode` "a completion is replayed until something voids it", from
  `Review` a verdict; `Review` takes from `Provider` an answer or an exception;
  `TierDriver` takes from the loops and from the preparation their outcomes.
- Approvals, `halt.flag` and bypass flags are how the operator's process speaks
  to the run; nothing acknowledges them.
- The dashboard reads what the run writes, while it is written.

### 1.3 What is hard

Interleavings of jobs at their awaits; lost updates between processes; a kill
between any two durable writes, followed by a resume that infers what happened
from the files; replays; budgets with several counters and thresholds; phases
that are skipped because a file of a lower tier exists; answers that arrive
while nobody waits; caches that outlive what they describe; a file read while
it grows, is torn or is replaced; process trees that signals do not reach;
threads that latch what another thread is about to read. `PROJECT.json` lists
each at its line under `hazards`, with the property that watches it or the
reason none does.


---

## 2. The models and the code

A step of every module is the code between two points where something else can
happen: an await, a lock let go, a signal, or a durable write behind which a
kill or another process can fall.

### 2.1 `TaskTree`, `NodeTransitions`, `RoundLoop`

`disk` is `tree.json`, `mem` the loop's tree; both map a node to its status,
attempts, non-attempts, nudges and a class of defect. `rec[n]` is the last
completion in `events.jsonl` that no later event voids; `art[n]`, `prior[n]` are
the artifact and the latest snapshot (units, hard gates, whether it is empty);
`job[n]` is where the node's coroutine is; `loop`, `resumeQ`, `news`, `noNewWork`,
`stopping`, `rounds`, `cap` are the scheduler's variables of the same names.
`edit` holds an operator's read-modify-write between its load and its save.
While a job is between durable writes (`Busy`) no other coroutine moves, as on
one event loop; a crash and another process may.

| Actions | Code |
|---|---|
| `Start` | process start, `orchestrated_loop`'s resume scan |
| `Admit`, `Decide*`, `Answer*`, `Rest`, `Reap` | the scheduler's `while` |
| `JobShortcut`, `JobRecall`, `JobBypassed`, `JobEpisode`, `EpisodeEnds` | `dispatch_node` up to the end of `run_node` |
| `SettleSplit`, `SettleConflict`, `SettleGates`, `SaveSettled` | the rest of `dispatch_node`, `_transition_after_writer` |
| `JobReview`, `ReviewEnds`, `SaveJudged`, `OnNodePassed` | `review_and_transition_node`, `maybe_derive_split_parent` |
| `JobRaises` | an exception out of a job |
| `BeginEdit`, `SaveEdit`, `LogEdit`, `SetBypass`, `ToggleHalt` | the operator |
| `Crash` | `kill -9` |

Abstractions:
- Text is `units`, `ok` (hard gates) and emptiness. A verdict is pass, fail or
  unavailable; how it comes about is `Review`, how a completion comes to be
  replayed is `RunNode`.
- `node_throttled` and `node_transport` void a completion alike and are one
  event; back-off times and jitter are left out, so any delay is possible.
- The saves of one dispatch answer are one step (they are adjacent, and a
  crash between them leaves a prefix that is a smaller answer). The restore of a
  lost artifact and its event are one step.
- The bypass flags per process are one flag. The wave cap is clamped per loop.
- A run starts with all leaves pending: pre-passed nodes and `stale` nodes are
  excluded (see `Slicing` and `Assembly` for where they come from). Reopening a
  split parent is excluded.

### 2.2 `RefillLoop`, `SerialLoop`, `NodeLifecycle`

The two other branches keep the same state under the same names. In them an
attempt is one step: it leaves one of the nodes `AfterWriter` can leave, or the
node that a conflict or a refused split hands back, so that what they add is
theirs alone: `FillEnds`, `Ask`, `Answer*`, `Reap`, `Drained` are the rounds of
`refill_loop`, and `Working` carries a job through its retries in place
(`again`, `backoff`) and the review of a node bypassed between them.
`SerialLoop` dispatches what a crash left, reviews it, then takes a decision at
a time. `troubles` bounds crashes, the operator's halts and bypasses, and
returns that charge no attempt.

`NodeLifecycle` is what the loops promise about the durable tree when nobody
edits it: dependency order, slots, a verdict on submitted work before it passes,
one attempt per failure, no way back from passed or split. A slot is held by a
node with a writer; a node whose work awaits a verdict holds none, since with a
reviewer that cannot be reached and `ReviewRetry` such nodes outlive their jobs
and there may be more of them than slots. `Abstract` in each loop maps a node's
status to its phase and its attempts to what it has spent; crash, resume and
replay are stuttering steps.

### 2.3 `RunNode`

`log` is the node's lines of `events.jsonl`; `trace` the session ids in
`trace.jsonl`, with `half` a torn last line; `art`, `snaps`, `flag`, `stubs`,
`store` the files and the CLI's own sessions. `call` is what the call under way
has decided. `Replay`, `Dispatch`, `Prepare`, `Waive`, `Launch`, `Complete` are
`run_node` from append to append; `CliOpens`, `CliPrints`, `CliWrites`, `CliEnds`
the CLI, which is external; `Poll`, `Fill` the session watcher; `Judged`,
`Pass`, `Reopen` what the round loop appends; `CleanerDeletes`, `CleanerFails`,
`CleanerLogs` the thread that deletes the sessions of a passed node. The time
stamps of the log are its order. Only two ends of an episode are told apart:
stopped by the output guard, and any other. `MayTear` lets a kill leave half a
line in `events.jsonl`, to which the next append is glued; the run keeps it
`FALSE`, since with it an event is lost and no promise about results holds (§3.1).

### 2.4 `TraceView`, `FileCache`

A record of a CLI becomes lines of `trace.jsonl` by the family's table
(`Claude`, `Codex`, `Opencode`, ...), lines become entries; a text is the number
of its record; a line has two bytes, so a reader may find it torn. `heap` holds
parser objects because a request goes on with the one it looked up although
another has replaced it in the cache. `polls` is each tab's request, its cursor
and how far the server is; `feeds` what the tab shows. opencode's parts are
read from its own database (`rows`), which may be pruned. `FileCache` is
`_cached_read` by several threads over two growing files, in the case with most
to go wrong: token totals counted from the ledger and from the trace.

### 2.5 `Episode`, `Provider`, `RequestLadder`

`Episode`: harness, shell, worker and CLI, with the two process groups; a step
is one signal, one process event or one wait that ends. `wakesEarly` is a
difference between builds of Python. `abandoned` and `missed` record the two
ways in which a CLI may escape: the worker died under it, or `ps` did not show it.

`Provider`: `call` holds the locals of `complete_json` and `_call`, one counter
per kind of retry; `formatOk`, `switchOk`, `supported` are the instance's
latches; `Others` is every other thread that uses the instance and may change
them between any two steps. `Build` makes the payload, `Response` is one of the
endpoint's outcomes with the code that treats it. `StartEpisode` is the same call
answered by a backend.

`RequestLadder`: each thread's `_call` around the throttle: `Acquire`, `Receive`
with any status, `Wake`, `Abort`. The thread whose second 429 finds a fallback
moves the whole instance.

### 2.6 `Review`

The artifact is a sequence of units with versions; `context` what the digest
covers besides. `audit` is `audit/<node>.json`, in which the gates replace and the
review merges. The ways to judge are `JudgeWhole`, `JudgeSections` with
`PartStep`/`PartsJudged` (threads in parallel, any of which may raise) and
`JudgeInTurns` with `Reads`, `Faults`, `Passes`, `TurnRaises`, `ReaskAnswered`.
`PassUnjudged`, `ReuseVerdict`, `TriagePasses`, `BypassTakes` are the ways round
a judge. `accepted` is a history: what a judge, a screen or the operator passed.

### 2.7 `Hosting`, `Jobs`, `CliJobs`

`Hosting` sees a driver from outside: it begins a phase, works, may ask, stops.
`pid` is `driver.pid.json` with the age of its heartbeat, which `Tick` raises up
to `Stale`; `hosts` the registry; `handlers` the HTTP threads inside `start_run`;
`serve` the dashboard process. An answer of the operator becomes visible in two
writes. `Jobs`: `tabs` are the threads inside `resolve_approval` between their
read of an approval and their record; `line` the last status of a job;
`workers` its threads, with the event each may be cancelled by. `CliJobs`: two
HTTP threads that start jobs, the thread that reaps each, and the tab's requests
for the tail of a log, a timer's and a click's, which may be under way together.

### 2.8 `Intake`, `Survey`, `Planning`, `Research`, `Slicing`

- `Intake`: a question is an id and a text; `approvals` are the forms; `spec` is
  `spec.md`. A kill may fall between any two writes; a silent operator ends a round.
- `Survey`: the source is a sequence of segments, each a number of tokens and a
  mark, so that chunks and units are ranges. `Structural` and `AskWindow` are the
  two ways to vote; `Assemble` applies the floor and the ceiling of a unit;
  `Materialize` and `SaveSpine` write.
- `Planning`: `stack` are the calls of the recursion; an answer is any claims and
  dependencies over the slice; `Settle`, `Plan`, `Classify`, `AddLeaves` are a
  call's parts. Identifiers are sequences of pieces, so that a renamed and a
  nested leaf can be told apart or collide as in the code. A unit counts one token.
- `Research`: probes are keys of node, slug, question and kind; `completed`,
  `raw`, `found`, `attached` are the files a resume goes by. `at` is the phase;
  `Work` carries on the batch in the serial or the parallel loop.
- `Slicing`: one step, from the ordinals of `out/single.md` to the leaves.

### 2.9 `TierDriver`

`disk` is the run directory: `tier`, `spec`, `explored`, `tree` (`none`,
`single` for T1's code-built one-node tree, `planned`), `contract` (`none`,
`script`, `pilot`), `work` (how the tree's nodes stand), `direct`, `document`, one
approval per kind, `halt`. `drv` is the process: which phase it is in and where,
`ran` (the keys of the phases that have run), attempts of the phase, the report.
Each phase is one disjunct of `Body` per durable write or wait. `run_round_loop`,
the research loop and the intake are one step with any of their outcomes (the
modules above say what happens inside); one pilot; `phase.json` is what the
report amounts to; an operator's reopening of nodes is excluded.

### 2.10 `Assembly`, `DocReview`, `Sweep`

`art[n]` is `out/<n>.md` as a text: who wrote it (0 the writer, *a* the repair
of attempt *a*), whether it passes the gates, whether the document compiles with
it. `snapshot`, `candidate`, `recorded` are indexed by the repair id
`<n>~repair<a>`, as the files and the log are. `vetted` is a history variable.
`loop` is the process that assembles or applies a triage, with its copy of the
tree. A repair is seven steps, one per durable effect: `Snapshot`, `Dispatch`,
`EpisodeEnds` (or `Replay`), the judgement, `Promote` or `Restore`, `Save`.
Bypass flags are left out; the cross-cutting checks and the first assembly are
one step (nothing but a report is written in between); the nodes of one round
are repaired in any order; one process assembles or repairs at a time. A triage
of a blocked node is excluded: its id would lie past the budget.

`DocReview`: one row per passed node; a call sees a window of rows; the depth
pass sees one node per shape. `Work` is the driver's side, `Answers`,
`Unavailable`, `TimesOut` the reviewer's. A repair may change a row or un-pass a
node. `cleared` records the indexes a whole review has read and found well.

`Sweep`: a text is a function from units to the run that wrote them. `Steps` are
those of the script over its cells; `Child` is a `kusudaemon bench` process,
which writes on its own time and may outlive the sweep that started it
(`escaped`); `cut` are the cells a kill cut short.

---

## 3. What the runs check

Deadlock checking is off everywhere: a run that has ended with every bound
spent has no next step.

| Run | Instance | What it shows |
|---|---|---|
| `resume` | *a* may split into *c*, *b* depends on *a*; 2 slots, 2 attempts, worktrees with conflicts, review retries, 1 crash | `TypeOK`; memory is disk at every await (`DiskIsTruth`); `AttemptsBounded`; `InFlightDepsPassed`; `SplitConsistent`; the loop implements `NodeLifecycle` |
| `splits` | *a* may split into *b*, *c*; *d* alone; 2 slots (*b*, *c* symmetric) | `SplitDerived` |
| `operator_edits` | *b* depends on *a*; two edits of any kind, two starts | `PassedEarned`, `PassedStays`, `NoStrandedWork` under every edit that does not overlap a step |
| `terminates` | events: a chain of two, throttling, progress credit, halts; refill and serial: three independent nodes, 2 starts, 1 trouble | `LoopsReturn`, under fairness; `SlotsFilled`; `LoopsImplementLifecycle` |
| `execution` | 3 calls, 1 kill, 1 edit, of these four in all; 1 tab, 2 records, 2 attempts, 1 upset of each CLI, of these four in all; 2 threads, 1 eviction | `WorkIsKept`, `AnswersAreTrue`, `OneEpisodePerResult`, `TabHoldsText` |
| `model_calls` | every role with one retry of a kind; 2 threads on one slot; 2 units, 2 attempts, every mode; a worker that may die | `PassIsEarned`, `CallsAreSound`, `ChargedForAFault`, `CallsReturn` |
| `dashboard` | 2 drivers, 1 handler, 1 approval, halt and death; 2 tabs and 2 job threads; 3 bytes read two at a time | `ViewsAreSound`, `CancelStands`, `ForeignDriverKept`, `OperatorIsHeard` |
| `preparation` | up to 5 segments; 4 units, 3 claims; 2 leaves; 3 units sliced; 2 rounds of 2 questions; one kill each | `EveryUnitOnce`, `FindingsArrive`, `IntakeIsHonest` |
| `tier_driver` | every classification, 2 tries, a ceiling, 1 crash, 1 edit | `TypeOK`, `TierRises`, `DoneIsEarned`, `NothingDiscarded`, `Reports` |
| `assembly` | two nodes, 2 attempts, 2 repair rounds, 1 crash; 3 rows read two at a time, 1 edit, 2 reviews; 2 cells, 2 sweeps, 1 kill | `TypeOK`, `VettedOnly`, `FailedRepairUndoesNothing`, `DoneIsAssembled`; `CleanIsEarned`; `ScoresItsRun`; `EverythingReturns` |
| `salvaged_patch_lost` | one node, worktrees | violated: `WorkLands` |
| `operator_escalation_skips_plan` | T1, one escalation | violated: `RoundsPrepared` |

**Runs over several modules.** `MCLoops`, `MCExecution`, `MCModelCalls`,
`MCDashboard`, `MCPreparation` and `MCAssembly` put machines side by side that
share no variable. A behaviour follows one of them (`followed`, or `branch` in
`MCLoops`) while the others rest in one initial state: since none reads what
another writes, each machine has in it exactly the behaviours it has alone, and
the product of their states is not explored for nothing. A property of such a
run conjoins named parts (`WorkIsKept` is `CapturedOnce`, `SeenIsCaptured`,
`FoundIsKept`, `FramedAsContinuation` and a type invariant); each part is stated
with a comment of its own in its module.

**Why these bounds.** Two slots are the least with two jobs in flight; a crash
and a second start are the least in which a resume meets every half-done state;
two attempts separate "charged" from "blocked"; two nodes with a dependency and
one that splits exercise each branch of readiness. `MaxRounds` (8, and 4 for the
other loops) is above what any instance needs, so the fresh-round budget never
hides a behaviour. In `execution` three calls are the least with a replay after
a retry after a kill; two attempts the least in which an earlier attempt's
session is in the trace; `MaxTurns` 4 allows three calls with either a kill or an
edit, and two with both, and two records and two attempts or one of these less
and an upset. In `model_calls` one retry of each kind still lets
every kind follow every other; two units are two parts, so the merging of more
sections than `MaxFan` into runs, in `Groups`, is not exercised by the run: that
these runs tile the units at every length is proved (`GroupsTile`, §4).
In `dashboard` two drivers are the least of which one takes over, and `Stale` 2
leaves room for a heartbeat between two ticks. In `preparation` five segments
are the least with a fold, a boundary between two windows and a unit over the
ceiling; four units and three claims the least with an overlap, a gap and a
recursion. In `assembly` two repair rounds and a later triage let a node be
repaired with the same id twice; three rows read two at a time have an inner
window. Every bound is a named constant of the `.cfg`.

**Fairness.** Weak fairness of what the event loop, a thread or a process does by
itself once it can: the scheduler, each job, the steps of a call, a review, an
episode, a driver, a sweep, and the second half of an edit, a few lines of one
function. Strong fairness twice: of a thread that waits for a slot of the throttle
(the slot is free again and again while others take it, and a semaphore serves
its waiters), and of the tools tab's next fetch (its timer fires again and
again). None of crashes, starts, edits, exceptions, the operator's answers or
the agent's good behaviour: an episode ends because its deadline does.
`Reports` therefore allows a driver parked on an approval, and `CallsReturn` a
thread that sleeps for hours, until the run is halted.

### 3.1 Where the code and its documentation part

Two runs refute a sentence of the repository; `PROJECT.json` quotes it under
`findings`.

1. `salvaged_patch_lost`. A timeout that is salvaged because units and gates
   are complete passes review with its worktree's patch never applied
   (`v1/round_loop.py:286`).
2. `operator_escalation_skips_plan`. The operator's escalation of a T1 run
   leaves the one-node tree in place, and T2 takes it for its plan
   (`pipeline/driver.py:3769`).

Others were met while modelling. The properties are stated so that they hold
beside them, and where a model excludes one it says so.

*The loops and the runner*
- A merge conflict returns the node to the pool without an event that voids its
  completion: the next dispatch replays it over an empty worktree
  (`v1/round_loop.py:302`).
- An edit through the dashboard writes back a stale copy of nodes it does not
  mean to touch (`dashboard/state.py:696`); `Racing` excludes it.
- A graft and the rejection of a proposal save the tree without reading the disk
  first (`v7/split.py:421`, `485`): an edit saved since the last decision, an
  operator's pass for one, is undone.
- A node bypassed before the loop starts loses its pass to the sync of the save
  that records it. `stale` nodes are never dispatched. `clear_node_bypass` has no caller.
- The drain of `refill_loop` does not set `stopping` (`v1/round_loop.py:1037-1040`):
  a job in backoff still starts an attempt.
- A line torn by a kill is glued to the next append, and an event that was
  fsynced is lost with it (`v0/events.py:62-69`).
- A session deleted but not yet logged as deleted is resumed
  (`adapters/opencode_cleanup.py:24-26`).
- A throttled completion replayed after a crash reads as `done`.
- `async_sem` gives each caller a semaphore of its own until somebody has waited
  (`pipeline/admission.py:44`).
- With `KUSUDAEMON_REVIEW_UNAVAILABLE=retry` a node whose reviewer is down waits
  for the next start. A fallback model keeps the old Authorization header
  (`v1/provider.py:944`).

*The driver and what it prepares*
- An approval resolved while no driver waits is not read on resume: the question
  is asked again and the answer stays unused (`pipeline/approvals.py:177`).
- A question of the second round with an id of the first overwrites its answer
  (`v2/intake.py:214`).
- "The plan phase can never ship an unloadable tree.json"
  (`v2/planner.py:806-809`): dangling edges are dropped, but two children of one
  name can leave a cycle, which `TaskTree.load` refuses.
- "Left-to-right order" of the leaves (`v3/assemble.py:7-11`): the leaves of a
  slice that was planned further enter the tree before the leaves beside it.
- A range that only the brief gives raises `IndexError` in the slicing, and the
  phase has failed.
- A probe whose file is missing, or a node the plan no longer has, is no
  `ValueError` and ends the run that "never blocks" (`v4/research_loop.py:53`,
  `pipeline/driver.py:1824-1833`, `2282`).
- An override of the tier before classification leaves a `tier.json` that stops
  every resume; `tier.json` is not locked; a kill between `tree.json` and the
  contract of a T2 run executes without the contract; a halt during the rounds is
  reported as an exhausted budget; a driver that waits for an approval does not
  look at `halt.flag`.

*The document and its benchmark*
- A repair that passes charges no attempt, so the next one has the same id: its
  snapshot replaces the only copy of the original text, and the recorded episode
  is replayed in place of a new one (`v3/repair.py:166`).
- A defect of the document review that can be placed in no node is to go to
  escalation (`v3/document_review.py:22-25`); one whose ids are all unknown is
  dropped with them.
- A benchmark cell whose process is killed between the bench record and the row is
  skipped by `--resume` without a row.

*The dashboard*
- A driver built in a handler and run in another thread records the handler as its
  thread, and a second start beside the first is hosted
  (`dashboard/state.py:1055`, `pipeline/driver.py:679`).
- `RunState` calls itself thread-safe (`dashboard/state.py:237-239`), but
  `_parse_trace_incremental` reads `offset`, the file and the entries of a cached
  object under no lock: of two polls that overlap each parses what was appended,
  and the feed has it twice (`dashboard/state.py:1863-1888`). TLC finds it with two
  tabs in `execution`; the run has one, whose polls follow each other.
- Two requests at once make two `CliJobs` objects, and the jobs of one are lost
  (`dashboard/server.py:738-743`).
- A tool call worded differently by opencode's trace and its database is shown
  twice (`dashboard/state.py:199-207`).

### 3.2 Mutants

Next to a definition stands, where a run needs one, a variant with a plausible
slip (`SyncNodeMissingPass`, `RanKeyOnce`, `SnapshotFirstOnly`,
`NextStartApart`, ...). Nothing uses them; put in place of the definition they
precede, each makes TLC find the property `PROJECT.json` pairs it with violated.
A property with several parts is paired with one; the other variants in the
modules each break a further part in the same way.

---

## 4. What is proved

Every theorem holds for every set of nodes, every tree and every value of the
constants that meets the named assumptions (`NodeAssumption`, `GraftAssumption`,
`LoopAssumption`, `AssemblyAssumption`, `PlanningAssumption`, ...), which TLC
evaluates in the runs, and the hypotheses of its own that are named below.
Those say what the code guarantees, or mark where the property is known not to
hold. `PROJECT.json` lists the theorems with the property of a run each states.

**`RoundLoop_proofs`**
- `TypeCorrect`: `Spec => []TypeOK`.
- `PassedIsEarned`: with no edit overlapping a step of the harness (`~Racing`),
  a node that awaits review or has passed *on disk* has an artifact that passes
  its hard gates or is bypassed. `PassedEarned` is not inductive: the transition
  is decided in memory and saved later. `EarnedInv` adds that memory satisfies
  the same, that a job between its settlement and its save still has the artifact
  it was judged on, and that the tree an edit will write back does too, since
  nothing moves meanwhile.

In a run whose tree nobody else writes
(`Unedited`: the operator may halt and resume it), through any number of
crashes, resumes, replays and restores.
- `MemoryFollowsDisk` (`DiskIsTruth`), `BudgetIsKept` (`AttemptsBounded`),
  `DependenciesFirst` (`InFlightDepsPassed`), `SplitsAreWhole`
  (`SplitConsistent`), and `LifecycleImplemented` (`ImplementsLifecycle`), the
  refinement of `NodeLifecycle`.
- The argument has two halves. `LoopInv` says where jobs are: at most one is
  between two durable writes, and only there does memory differ from disk, in
  that job's node alone; what a job's place says of its node; that a dispatched
  node has a job or is queued for one. From it follows `DiskSteps`: `tree.json`
  only ever changes by a wave of ready nodes, by a writer's outcome, by a
  verdict or by a graft. `TreeInv` (the three properties of the tree, with: a
  node that is not in the tree is untouched, an accepted proposal lies at a node
  that may split) is kept by these four steps, and each of them is an action of
  `NodeLifecycle`; all other steps stutter.
- `SplitsAreDerived` (`SplitDerived`), without crashes (`MaxCrashes = 0`: a kill
  between the save of the last child's pass and the write of the parent's
  artifact loses it). `Derived(p)` adds to the property the child whose job is
  in between (`"passing"`), and holds in every state, not only of a loop that
  has returned.

With an operator who redispatches, reopens, passes
and bypasses nodes while the loop runs.
- `PassedIsKept` (`PassedStays`): in a run nobody edits, or with edits that
  overlap no step of the harness in a tree without splitters. A graft is saved
  without reading the disk first (§3.1), so beside an operator's pass it may
  un-pass a node. `EditInv`: an edit that is not saved yet differs from the disk
  in its own node only.
- `NothingIsStranded` (`NoStrandedWork`): with edits that overlap no step and
  with `ReviewRetry` off (it parks a node whose reviewer is down until the next
  start, on purpose). `StrandInv` follows a node from disk to memory to a job
  or the queue (`Followed`), and says that a loop that waits for an answer has
  no news it did not look at.

**`TierDriver_proofs`**
- `TypeCorrect`, `TierOnlyRises` (`TierRises`) and `NothingIsDiscarded`
  (`NothingDiscarded`), for a run whose driver does not move while an edit of
  `tier.json` is under way (`~Racing`: the file is not locked, and a stale edit
  may lower the tier). The inductive invariant `IInv` adds: an edit under way
  writes a tier exactly when there is one, and no lower one (`EditFresh`);
  `classify` runs only while there is none (`ClassifyOnce`); every other phase is
  a phase of some tier, and plan and pilot of the high ones (`HighPhase`); so what
  they leave behind belongs to a high tier, and a body that began at T1 has no
  planned tree under it, one that began at T2 no piloted contract (`HighFiles`).
  That last part is why the promotions of `execute`, which trust the tier read at
  the start of the body, archive nothing that T2 or T3 made.
- `DoneIsDelivered` (`DoneIsEarned`), under the same hypothesis. `DoneInv` is
  about `ran`: a key in it was reached by the tier (`RanInv`), the phase under way
  has not run at its tier and nothing has at a higher one (`KeyInv`), a phase that
  ends well leaves what it owes (`LeavingInv`), and what a phase in `ran` owes is
  still there as long as the tier is the one it ran at (`RanDelivers`): what could
  take it away is an escalation, or a phase that comes earlier in the tier.

**`Assembly_proofs`**
- `TypeCorrect`: in particular the id of each repair that starts exists.
- `OutIsVetted` (`VettedOnly`) and `FailedRepairIsUndone`
  (`FailedRepairUndoesNothing`). The inductive invariant `IInv` adds: a node
  that is not blocked has an attempt left, on disk and in the process's copy;
  only such nodes are queued, and the node under repair is no longer queued; while
  a repair is under way the snapshot under its id *is* the artifact, even if the
  id was used before; a candidate about to be promoted has been vetted. So
  reusing an id (§3.1) loses history, but never puts a wrong text into `out/`.
- `DoneIsWhole` (`DoneIsAssembled`). `DocumentInv`: the process's tree is the one
  on disk but between a repair and its save, and what is being compiled is the
  artifacts as they are, with every node passed.

**`RunNode_proofs`**
- With or without torn lines: `TypeCorrect`; `SessionsCapturedOnce`
  (`CapturedOnce`), because until its watcher has logged a session a call knows
  all those on record (`CaptureInv`); and `FoundIsPutBack` (`FoundIsKept`).
- Where no kill tears a line (`MayTear = FALSE`; a torn line takes an event with
  it, §3.1): `WorkKept`, all of `WorkIsKept`, and `ActedOnOnce`
  (`OneEpisodePerResult`). `OwedInv` ties the history variable `owed` to the log
  (a result is owed exactly if the last completion has no later event that voids
  it), which is the test by which `run_node` replays; `TraceInv` bounds the sessions the watcher can
  meet in the trace; `FrameInv` says that whatever there is has been dispatched
  for, so the call that finds nothing on record is the first.
- Of `FileCache`: `TotalsAreCurrent`, the counting half of `AnswersAreTrue`, for any
  number of threads. `CountInv`: whatever a thread holds is at least as new as its
  stamps, and the ledger and what the running episode has spent are the trace.

**`ModelCalls_proofs`**: of `Review`, for artifacts of every length, every way to
cut them into parts and every bound (`ReviewAssumption`):
- `GroupsTile`: the runs into which the sections of an artifact are merged when
  there are more than `MaxFan` tile its units. It is arithmetic of `div`, without
  induction.
- `TypeCorrect`; `PassesAreEarned` (`PassIsEarned`), where the read loop can be
  shown every unit or is not used (two units with one ordinal leave it one of
  them, and then a pass may rest on a unit nobody saw); `ChargesAreFaults`
  (`ChargedForAFault`). `ReviewInv` adds: a review under way judges the artifact
  as it is (`WholeInv`); a pass in the audit or in one of its sections covers only
  what was passed (`AuditInv`, `VerdictInv`); the parts under way add up to the
  whole, and one that failed is a fault, one that was lost is one of several or
  comes after a fault (`PartsInv`).

Of `Provider`, `RequestLadder` and `Episode`, for any budgets of retries, any number
of threads on one provider and a worker that may die at any time:
- `CallsAreAlwaysSound` (`CallsAreSound`). `ProviderInv` says what the locals of
  `complete_json` are at each place (a payload without a schema has it in its
  text, reasoning is carried only from the answer before); `LadderInv` counts the
  permits of the throttle; `EpisodeInv` says who is in which process group. The
  two ways in which a CLI escapes are history variables of `Episode`
  (`abandoned`, `missed`), since what makes one escape may be over when it is seen.

**`Loops_proofs`**: `RefillLoop` and `SerialLoop`, for every tree without splitters
(`LoopsAssumption`).
- `LoopsFollowLifecycle` (`LoopsImplementLifecycle`), the refinement of
  `NodeLifecycle`, until an operator bypasses a node. Neither branch has a memory
  of its own between two awaits, so a step reads the disk, changes one node or
  hands out a wave, and writes it back: `TreeMoves` names these, and each is shown
  to be a step of the life cycle once for both. `RefillPlaces` says which nodes a
  slot is taken by or kept for, `RefillTree` what a job's place says of its node;
  `SerialTree` that the node awaited is the only one with a writer.
- `SlotsAreFilled` (`SlotsFilled`).

**`Preparation_proofs`**
- `IntakeIsAlwaysHonest` (`IntakeIsHonest`). `IntakeInv` adds to it where the
  driver is with each form and what it has heard of the forms before.
- `FindingsAreKept`, the safety half of `FindingsArrive` but for the names of
  files. `ProbesInv`: a job that came to nothing had no answer in its file, unless
  another one of its name has it.
- `EveryUnitIsOnce` (`EveryUnitOnce`), the conjunction of three invariants.
  `SurveyInv`: the chunks tile the text (`Tiling`), so do the raw units whatever was
  voted for, the units they are split into, and what the floor makes of them; until
  the last window each boundary before the next one was shown. `PlanInv`, by parts:
  what a slice still has to give is above what it gave (`FrameFine`); the calls
  that wait are each at the candidate that the call they wait for is about
  (`Nested`); a unit is in the tree or `Pending` at one slice, and nowhere only
  when it was reported (`PlanPlaces`); no two leaves share a name (`Distinct`: of
  `Len + 1` names one is free); and the budget is the leaves in the tree and those
  the calls still hold (`PlanCounts`). `SlicesInv`: a leaf holds units of its own
  range, in order. TLC checked `PlanInv` on a small spine before it was proved.
- The values of the recursive functions these three are built on (`Folding`,
  `RawUnits`, `Cutting`, `Accepting`, `Uncycling`, `Growing`, ...) are found by
  induction on the prefix (`UpTo`): a first natural number that is not as claimed
  is contradicted. For each function a lemma shows that it satisfies its own
  equation (`FoldingUnfolds`, ...), which `LET f[k \in 0..n] == ...` alone does not
  give the provers.

**`Dashboard_proofs`**: for any number of drivers, handlers, approvals, tabs,
threads and requests.
- `ViewsAreSoundAlways` (`ViewsAreSound`), `CancellationStands` (`CancelStands`),
  `ForeignDriverIsKept` (`ForeignDriverKept`). `HostingInv` ties what the registry
  and `driver.pid.json` say to the threads that run; `JobsInv` the lines of
  `jobs.jsonl` to the thread, its event and whoever is cancelling; `CliInv` the
  answers on their way to what the log was when each was made.

**What the proofs taught about the models.**
- `NodeLifecycle` once let a node that awaits its verdict keep its slot. The
  refinement could not be proved, and is false: with `ReviewRetry` and a reviewer
  that is down such nodes outlive their jobs, and the next start hands out a full
  wave beside them, as the code does (`max_parallel` bounds jobs). Now only a node
  with a writer holds a slot.
- An accepted proposal has children, and no two nodes share one: `SplitDerived` and
  `SplitConsistent` need what `evaluate_split` and `graft_split` refuse, and the
  two facts are assumptions now.
- `Episode` told an escaped CLI by what was true when it was looked at; the
  invariant needs what was true when it escaped, hence `abandoned` and `missed`.
- The runs of `Sweep` were bounded by a number the proof could not meet: a cell may
  start one child more than there are kills.
- `DocReview!CallEnds` was a `CASE` whose guards overlap, which is a choice TLC does
  not make; it is an `IF` in the order of the code.
- The folds of `Survey`, `Planning`, `Slicing` and `FileCache` were library folds over
  an operator argument; as recursive functions they say the same and can be
  reasoned about.

**Only model-checked**
- Liveness, out of the prover's reach: `LoopsReturn`, `Reports`, `CallsReturn`,
  `OperatorIsHeard`, `EverythingReturns` and the last part of `FindingsArrive`.
- `OneFilePerQuestion`, in `FindingsArrive`: that a slug is numbered until no other
  question has it rests on a fold over the batch with the numbers given so far.
- The trace half of `AnswersAreTrue`, and `TabHoldsText`. With more than one tab they
  do not hold (§3.1); with one they rest on a merge of two sorted sequences and on
  library folds over lines that a state holds twice.

---

## 5. Plan

Done, in this order: `TaskTree`, `NodeTransitions`, `RoundLoop` with
`NodeLifecycle`; `TierDriver`; `Assembly`; `RunNode`, the calls of a model
(`Provider`, `RequestLadder`, `Review`, `Episode`); the dashboard; the other
branches of the loop; the preparation; the document review and the sweep; the
theorems of §4, the loop and the driver first, then each module beside them.

Next: the trace half of `AnswersAreTrue` and `TabHoldsText` for polls that follow each
other; `OneFilePerQuestion`; a run of `TraceView` in which polls overlap, once the
parser of a trace is locked.

---

## 6. Not modelled

- Text: prompts, templates, briefs, the parsing and repair of a model's JSON, gates
  and screens as such, degeneration heuristics, lexical prefilters, the corruption
  probe. Each is a nondeterministic outcome of the step that uses it.
- Ranking and arithmetic: retrieval and embeddings, prices and estimates, the
  classifier's signals, the scores of a benchmark.
- What only reads and renders: routes, views, the front end outside the feed of an
  agent and the tail of a tool.
- Processes the harness only talks to: git, the compiler, the agents' CLIs, the
  HTTP endpoints; boot slots, remote files, the gptme worker.
- A static check of capabilities before a run; the evaluation of finished runs;
  distribution scripts.
- In the driver: the amendment of a frozen contract in the middle of the rounds
  and the operator's reopening of single nodes, which would multiply every phase of
  `TierDriver` by the states of each node.
