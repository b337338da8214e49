----------------------------- MODULE MCDashboard -----------------------------
(***************************************************************************)
(* What the dashboard runs for its operator: Hosting, who drives a run;    *)
(* Jobs, the background jobs an approval dispatches; CliJobs, the command  *)
(* lines of the tools tab.  They live in one process and share no variable,*)
(* so a behaviour follows one of them while the others are at rest.        *)
(***************************************************************************)
EXTENDS Hosting

CONSTANTS
    Approvals, Tabs, Workers, MaxRequests, MaxCancels,
    MaxJobs, MaxBytes, ChunkBytes, Fetches

VARIABLES
    followed,
    approvals, tabs, line, events, workers, cancels,
    starting, made, jobs, tail, fetches

J == INSTANCE Jobs
Cli == INSTANCE CliJobs

ASSUME DashboardAssumption == J!JobsAssumption /\ Cli!CliAssumption

jobVars == <<approvals, tabs, line, events, workers, cancels>>
cliVars == <<starting, made, jobs, tail, fetches>>
allVars == <<followed, vars, jobVars, cliVars>>

MCInit ==
    /\ followed \in {"hosting", "jobs", "tools"}
    /\ Init /\ J!Init /\ Cli!JobsInit

MCNext ==
    /\ UNCHANGED followed
    /\ \/ followed = "hosting" /\ Next /\ UNCHANGED <<jobVars, cliVars>>
       \/ followed = "jobs" /\ J!Next /\ UNCHANGED <<vars, cliVars>>
       \/ followed = "tools" /\ Cli!JobsNext /\ UNCHANGED <<vars, jobVars>>

(* A thread that can run does, and time passes.  Nothing is assumed of the *)
(* operator, nor that a snapshot is taken.  The tools tab has a timer, so  *)
(* that it asks again and again; a click need not happen.                  *)
MCSpec ==
    /\ MCInit /\ [][MCNext]_allVars
    /\ WF_vars(followed = "hosting" /\ Tick)
    /\ \A d \in Drivers :
         /\ WF_vars(followed = "hosting" /\ DriverSteps(d))
         /\ WF_vars(followed = "hosting" /\ Beat(d))
    /\ WF_cliVars(followed = "tools" /\ \E f \in Fetches : Cli!Answer(f) \/ Cli!Receive(f))
    /\ SF_cliVars(followed = "tools" /\ \E f \in Fetches : Cli!Fetch(f))

-----------------------------------------------------------------------------
(* What the operator is shown is so: a driver at work is never called      *)
(* stalled, whoever built it and whoever else wrote the record, and a tail *)
(* fetched by two requests at once is the log, nothing twice and nothing   *)
(* left out (pipeline/liveness.py, frontend toolsTab.js).                  *)
ViewsAreSound ==
    /\ TypeOK /\ NoFalseAlarm
    /\ J!TypeOK
    /\ Cli!JobsTypeOK /\ Cli!TailIsTheLog

(* What an operator cancelled stays cancelled: neither the end of the job's*)
(* thread nor the reaper of the command line has the last word             *)
(* (dashboard/state.py cancel_job, dashboard/extras.py cancel).            *)
CancelStands == []J!CancelStands /\ Cli!CancelIsKept

(* What the operator and the drivers do reaches the other side: an answer  *)
(* goes to the driver that waits for it, a halt stops the one at work, a   *)
(* dead driver shows as stalled, one that ended leaves the registry without*)
(* anybody's help, the last of a log comes to the screen.                  *)
OperatorIsHeard ==
    /\ AnswerIsHeard /\ HaltIsObeyed
    /\ DeadIsSeen /\ RegistryForgets
    /\ Cli!TailArrives
===============================================================================
