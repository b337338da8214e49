------------------------------- MODULE Episode -------------------------------
(***************************************************************************)
(* One agent CLI run by LocalEnvironment.exec: the harness, the shell it   *)
(* starts, the worker (adapters/_agent_worker.py) under the shell, and the *)
(* CLI, which the worker puts in a session of its own.                     *)
(*                                                                         *)
(* The shell and the worker share a process group; the CLI has another, so *)
(* a signal to the shell's group never reaches it: the worker forwards it, *)
(* and the harness looks for detached groups itself.  Every step is one    *)
(* signal, one process event, or one wait that ends.                       *)
(***************************************************************************)
EXTENDS Naturals, FiniteSets

CONSTANTS WorkerMayDie      \* the worker may be killed or crash by itself

EpisodeAssumption == WorkerMayDie \in BOOLEAN

VARIABLES
    exec,       \* where exec is in the harness
    reason,     \* why it stopped waiting
    time,       \* the episode's budget
    groups,     \* the process groups _terminate or the handler collected
    wakesEarly, \* the build: Process.wait returns before the pipes are closed
    shell, worker, cli,
    cliCode,    \* the exit code of the CLI; 1 also stands for a signal
    code,       \* the exit code exec sees, the worker's passed on by the shell
    held,       \* a process the CLI left behind keeps its output open
    guarded,    \* the worker stopped the CLI: garbage, rate limit, no output
    abandoned,  \* history: the worker died under a live CLI, not killed by a harness that saw it
    missed      \* history: ps failed, or the CLI was forked after it had run

history == <<abandoned, missed>>
harness == <<exec, reason, time, groups, wakesEarly>>
tree == <<shell, worker, cli, cliCode, code, held>>
vars == <<harness, tree, guarded, history>>

ExecStage == {"idle",
              "waiting",    \* the io_task is awaited
              "stopping",   \* _terminate is about to collect the groups
              "signalling", \* collected; SIGTERM is next
              "reaping",    \* waits up to 5 s for the shell
              "killing",    \* SIGKILL sent, or the blocking sweep done
              "draining",   \* _finish_io waits up to 5 s for the streams
              "sweeping",   \* the handler of SIGTERM has collected the groups
              "swept",      \* it has sent SIGTERM
              "gone",       \* the harness has ended
              "returned"}
WorkerStage == {"none",
                "booting",      \* no signal handler yet
                "forked",       \* the CLI runs; still no handler
                "serving",
                "grace",        \* SIGTERM passed on; SIGKILL in 1.5 s
                "fatal",        \* the guard's SIGTERM sent; SIGKILL in 1.5 s
                "draining",     \* the CLI has exited; its output is read to the end
                "exited", "killed"}

TypeOK ==
    /\ exec \in ExecStage /\ reason \in {"none", "timeout", "cancelled"}
    /\ time \in {"within", "extended", "over"}
    /\ groups \subseteq {"shell", "cli"} /\ wakesEarly \in BOOLEAN
    /\ shell \in {"none", "up", "dead"} /\ worker \in WorkerStage
    /\ cli \in {"none", "up", "lingers", "dead"}
    /\ cliCode \in {0, 1} /\ code \in {0, 1} /\ held \in BOOLEAN
    /\ guarded \in BOOLEAN /\ abandoned \in BOOLEAN /\ missed \in BOOLEAN

Init ==
    /\ exec = "idle" /\ reason = "none" /\ time = "within"
    /\ groups = {} /\ wakesEarly \in BOOLEAN
    /\ shell = "none" /\ worker = "none" /\ cli = "none"
    /\ cliCode = 0 /\ code = 0 /\ held = FALSE
    /\ guarded = FALSE /\ abandoned = FALSE /\ missed = FALSE

WorkerAlive == worker \notin {"none", "exited", "killed"}
CliAlive == cli \in {"up", "lingers"}
(* Nothing holds the pipes exec reads: the CLI's own end at the worker.     *)
StreamsClosed == shell = "dead" /\ ~WorkerAlive

-----------------------------------------------------------------------------
(* The process tree. *)

ShellStarts ==
    /\ shell = "up" /\ worker = "none"
    /\ worker' = "booting"
    /\ UNCHANGED <<harness, shell, cli, cliCode, code, held, guarded, history>>

WorkerForks ==
    /\ worker = "booting"
    /\ worker' = "forked" /\ cli' = "up"
    /\ missed' = (groups # {})
    /\ UNCHANGED <<harness, shell, cliCode, code, held, guarded, abandoned>>

(* No such command: exit code 127. *)
WorkerFindsNoCli ==
    /\ worker = "booting"
    /\ worker' = "exited" /\ code' = 1
    /\ UNCHANGED <<harness, shell, cli, cliCode, held, guarded, history>>

(* _forward_termination *)
WorkerHandles ==
    /\ worker = "forked"
    /\ worker' = "serving"
    /\ UNCHANGED <<harness, shell, cli, cliCode, code, held, guarded, history>>

CliEnds ==
    /\ CliAlive
    /\ cli' = "dead"
    /\ cliCode' \in {0, 1} /\ held' \in BOOLEAN
    /\ UNCHANGED <<harness, shell, worker, code, guarded, history>>

(* A process a signal reached: it dies of it, or handles it and lingers.    *)
Signalled(hit) == cli' \in (IF hit /\ CliAlive THEN {"lingers", "dead"} ELSE {cli})

(* _pump, _pump_stderr, _watch_opencode_log or _first_output_watchdog. *)
GuardFires ==
    /\ worker = "serving" /\ cli = "up"
    /\ worker' = "fatal" /\ guarded' = TRUE
    /\ Signalled(TRUE)
    /\ UNCHANGED <<harness, shell, cliCode, code, held, history>>

(* Mutant: the signal's number is passed on. *)
GraceEndsRaw ==
    /\ worker \in {"grace", "fatal"} /\ cli = "lingers"
    /\ cli' = "dead" /\ cliCode' = 9
    /\ UNCHANGED <<harness, shell, worker, code, held, guarded, history>>

(* _kill_if_running, _fatal_killer *)
GraceEnds ==
    /\ worker \in {"grace", "fatal"} /\ cli = "lingers"
    /\ cli' = "dead" /\ cliCode' = 1
    /\ UNCHANGED <<harness, shell, worker, code, held, guarded, history>>

(* Mutant: the CLI's own exit code is passed on. *)
FatalExitAsIs ==
    /\ worker = "fatal" /\ ~CliAlive
    /\ worker' = "exited" /\ code' = cliCode
    /\ UNCHANGED <<harness, shell, cli, cliCode, held, guarded, history>>

(* A guarded end never exits 0: proc.returncode or 1. *)
FatalExit ==
    /\ worker = "fatal" /\ ~CliAlive
    /\ worker' = "exited" /\ code' = 1
    /\ UNCHANGED <<harness, shell, cli, cliCode, held, guarded, history>>

WorkerSeesEnd ==
    /\ worker \in {"serving", "grace"} /\ ~CliAlive
    /\ worker' = "draining"
    /\ UNCHANGED <<harness, shell, cli, cliCode, code, held, guarded, history>>

(* The CLI's output is read to its end, which a process it left behind may
   put off.                                                                 *)
WorkerDrains ==
    /\ worker = "draining" /\ ~held
    /\ worker' = "exited" /\ code' = cliCode
    /\ UNCHANGED <<harness, shell, cli, cliCode, held, guarded, history>>

OutputReleased ==
    /\ held /\ held' = FALSE
    /\ UNCHANGED <<harness, shell, worker, cli, cliCode, code, guarded, history>>

ShellEnds ==
    /\ shell = "up" /\ worker \in {"exited", "killed"}
    /\ shell' = "dead"
    /\ code' = IF worker = "killed" THEN 1 ELSE code
    /\ UNCHANGED <<harness, worker, cli, cliCode, held, guarded, history>>

WorkerDies ==
    /\ WorkerMayDie /\ WorkerAlive
    /\ worker' = "killed"
    /\ abandoned' = (abandoned \/ CliAlive)
    /\ UNCHANGED <<harness, shell, cli, cliCode, code, held, guarded, missed>>

-----------------------------------------------------------------------------
(* exec. *)

Spawn ==
    /\ exec = "idle"
    /\ exec' = "waiting" /\ shell' = "up"
    /\ UNCHANGED <<reason, time, groups, wakesEarly, worker, cli, cliCode, code, held, guarded, history>>

(* The base time-out passes, then max_deadline. *)
TimePasses ==
    /\ exec = "waiting" /\ time # "over"
    /\ time' = IF time = "within" THEN "extended" ELSE "over"
    /\ UNCHANGED <<exec, reason, groups, wakesEarly, tree, guarded, history>>

Finish ==
    /\ exec = "waiting" /\ StreamsClosed
    /\ exec' = "returned"
    /\ UNCHANGED <<reason, time, groups, wakesEarly, tree, guarded, history>>

Stop(why) ==
    /\ exec = "waiting"
    /\ reason' = why /\ exec' = "stopping"
    /\ UNCHANGED <<time, groups, wakesEarly, tree, guarded, history>>

(* Past the base time-out an episode that shows neither output, CPU nor a
   socket is stopped;                                                       *)
TimeOutIdle == time = "extended" /\ Stop("timeout")
(* Mutant: ... and one that shows some never is. *)
TimeOutNever == FALSE /\ Stop("timeout")
(* past max_deadline every one is. *)
TimeOut == time = "over" /\ Stop("timeout")
Cancel == Stop("cancelled")

(* descendant_process_groups: found through the worker, while it lives; the
   ps call itself may fail.                                                 *)
Collected == {{"shell"}} \cup (IF WorkerAlive /\ CliAlive THEN {{"shell", "cli"}} ELSE {})

(* _terminate does nothing for a shell that has been reaped. *)
Collect ==
    /\ exec = "stopping"
    /\ IF shell = "dead" THEN exec' = "draining" /\ UNCHANGED <<groups, missed>>
       ELSE /\ exec' = "signalling" /\ groups' \in Collected
            /\ missed' = (CliAlive /\ WorkerAlive /\ "cli" \notin groups')
    /\ UNCHANGED <<reason, time, wakesEarly, tree, guarded, abandoned>>

(* SIGTERM to the collected groups: the shell dies; the worker passes it on
   once it has its handler, and dies before that.                           *)
TermWorker ==
    LET handled == worker \in {"serving", "grace", "fatal", "draining"}
    IN  /\ worker' = IF worker \in {"booting", "forked"} THEN "killed"
                     ELSE IF worker = "serving" THEN "grace" ELSE worker
        /\ Signalled("cli" \in groups \/ handled)
        /\ abandoned' = (abandoned \/ (worker = "forked" /\ cli' \in {"up", "lingers"}))

TermGroups ==
    /\ shell' = IF shell = "up" THEN "dead" ELSE shell
    /\ TermWorker
    /\ code' = IF shell = "up" THEN 1 ELSE code

Signal ==
    /\ exec = "signalling"
    /\ TermGroups
    /\ exec' = "reaping"
    /\ UNCHANGED <<reason, time, groups, wakesEarly, cliCode, held, guarded, missed>>

(* proc.wait returns once the shell is dead; in some versions of Python only
   when the pipes are closed too.                                           *)
Reaped ==
    /\ exec = "reaping" /\ shell = "dead"
    /\ wakesEarly \/ StreamsClosed
    /\ exec' = "draining"
    /\ UNCHANGED <<reason, time, groups, wakesEarly, tree, guarded, history>>

(* Only a CLI that ps did not show is left behind. *)
KillGroups ==
    /\ shell' = "dead"
    /\ worker' = IF WorkerAlive THEN "killed" ELSE worker
    /\ cli' = IF "cli" \in groups /\ CliAlive THEN "dead" ELSE cli
    /\ abandoned' = (abandoned \/ (missed /\ WorkerAlive /\ cli' \in {"up", "lingers"}))

(* The worker's 1.5 s are over before the harness's 5 s. *)
GraceOver == ~(worker \in {"grace", "fatal"} /\ cli = "lingers")

(* 5 s, and the shell's streams are still open: SIGKILL. *)
Escalate ==
    /\ exec = "reaping" /\ ~wakesEarly /\ ~StreamsClosed /\ GraceOver
    /\ KillGroups
    /\ exec' = "draining"
    /\ UNCHANGED <<reason, time, groups, wakesEarly, cliCode, code, held, guarded, missed>>

(* Cancelled once more: the blocking kill_process_group on every group.     *)
CancelAgain ==
    /\ exec = "reaping"
    /\ KillGroups
    /\ exec' = "draining"
    /\ UNCHANGED <<reason, time, groups, wakesEarly, cliCode, code, held, guarded, missed>>

(* Mutant: exec does not wait for the streams. *)
DrainedAtOnce ==
    /\ exec = "draining"
    /\ exec' = "returned"
    /\ UNCHANGED <<reason, time, groups, wakesEarly, tree, guarded, history>>

(* _finish_io: until the streams close, at most 5 s. *)
Drained ==
    /\ exec = "draining"
    /\ StreamsClosed \/ GraceOver
    /\ exec' = "returned"
    /\ UNCHANGED <<reason, time, groups, wakesEarly, tree, guarded, history>>

-----------------------------------------------------------------------------
(* SIGTERM or SIGHUP to the harness: kill_all_tracked in the handler, which
   blocks the event loop, then the default action.                          *)
HarnessTerminated ==
    /\ exec \in {"waiting", "stopping", "signalling", "reaping", "draining"}
    /\ groups' \in {groups \cup g : g \in Collected}
    /\ missed' = (CliAlive /\ WorkerAlive /\ "cli" \notin groups')
    /\ exec' = "sweeping"
    /\ UNCHANGED <<reason, time, wakesEarly, tree, guarded, abandoned>>
Sweep ==
    /\ exec = "sweeping"
    /\ TermGroups
    /\ exec' = "swept"
    /\ UNCHANGED <<reason, time, groups, wakesEarly, cliCode, held, guarded, missed>>
(* Mutant: the stragglers are left alone. *)
SweepKillsNone ==
    /\ exec = "swept"
    /\ exec' = "gone"
    /\ UNCHANGED <<reason, time, groups, wakesEarly, tree, guarded, history>>
(* One second later. *)
SweepKills ==
    /\ exec = "swept"
    /\ KillGroups
    /\ exec' = "gone"
    /\ UNCHANGED <<reason, time, groups, wakesEarly, cliCode, code, held, guarded, missed>>

(* CommandAgentAdapter.run_episode: the status it reports. *)
EpisodeStatus ==
    IF reason # "none" THEN reason ELSE IF code = 0 THEN "done" ELSE "error"

Next ==
    \/ ShellStarts \/ WorkerForks \/ WorkerFindsNoCli \/ WorkerHandles
    \/ CliEnds \/ GuardFires \/ GraceEnds \/ FatalExit \/ WorkerSeesEnd \/ WorkerDrains
    \/ OutputReleased \/ ShellEnds \/ WorkerDies
    \/ Spawn \/ TimePasses \/ Finish \/ TimeOutIdle \/ TimeOut \/ Cancel
    \/ Collect \/ Signal \/ Reaped \/ Escalate \/ CancelAgain \/ Drained
    \/ HarnessTerminated \/ Sweep \/ SweepKills

(* The event loop and the worker run, their timers expire, and SIGKILL works;
   what the CLI does and when it ends is up to it.                          *)
Timely ==
    \/ ShellStarts \/ WorkerForks \/ WorkerHandles \/ GraceEnds \/ FatalExit \/ WorkerSeesEnd
    \/ WorkerDrains \/ ShellEnds \/ TimePasses \/ Finish \/ TimeOut
    \/ Collect \/ Signal \/ Reaped \/ Escalate \/ Drained \/ Sweep \/ SweepKills

-----------------------------------------------------------------------------
(* When exec returns, the CLI is dead, however it was stopped and whether or
   not it heeds a signal - unless the worker died under it, for then nobody
   is left who knows its group: by itself, by SIGTERM before it had a handler,
   or by the SIGKILL of a harness whose ps had missed the CLI.  Otherwise two
   CLIs would write the same artifact, the old one and the next attempt's.  *)
NoneOutlivesExec == exec = "returned" /\ CliAlive => abandoned

(* A harness that is terminated takes its CLI along, even one that ignores
   the signal, if ps saw it and the worker did not die under it.            *)
DiesWithHarness == exec = "gone" /\ CliAlive => abandoned

(* An episode the worker stopped is never reported as done, even if the CLI
   answers the signal with a clean exit.                                    *)
StoppedIsNotDone == exec = "returned" /\ guarded => EpisodeStatus # "done"
=============================================================================
