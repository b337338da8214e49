------------------------------ MODULE CliJobs ------------------------------
(***************************************************************************)
(* The dashboard's command-line jobs: CliJobs of dashboard/extras.py,      *)
(* reached by HTTP threads through _cli_jobs of dashboard/server.py, and   *)
(* the tools tab that starts, tails and cancels them.  A job is a process, *)
(* a record and a thread that reaps it; the tab asks for the job's log     *)
(* from where its text ends, from a timer and from a click, and nothing    *)
(* keeps the two from being under way together.                            *)
(*                                                                         *)
(* The log is the bytes 1..n; a text is the sequence of the bytes shown.   *)
(***************************************************************************)
EXTENDS Integers, Sequences, SequencesExt

CONSTANTS
    MaxJobs,
    MaxBytes,   \* bytes a job prints
    ChunkBytes, \* bytes of one answer
    Fetches     \* requests of the tab that may be under way together

CliAssumption == {MaxJobs, MaxBytes, ChunkBytes} \subseteq Nat

VARIABLES
    starting,       \* the two HTTP threads that start jobs
    made,       \* CliJobs objects made; the last one is the server's
    jobs,
    tail,       \* the tab's text of the open job, the first of the list
    fetches

jobVars == <<starting, made, jobs, tail, fetches>>

NoText == [text |-> <<>>, next |-> 0]
NoFetch == [at |-> "away", from |-> NoText, got |-> <<>>, next |-> 0]
NoAsk == [at |-> "away", saw |-> 0]

JobsInit ==
    /\ starting = [t \in {1, 2} |-> NoAsk] /\ made = 0 /\ jobs = <<>>
    /\ tail = NoText /\ fetches = [f \in Fetches |-> NoFetch]

-----------------------------------------------------------------------------
(* Starting, reaping and cancelling                                        *)

\* getattr(handler.state, "_cli_jobs", None)
Look(t) ==
    /\ starting[t].at = "away" /\ Len(jobs) < MaxJobs
    /\ starting' = [starting EXCEPT ![t] = [at |-> "asked", saw |-> made]]
    /\ UNCHANGED <<made, jobs, tail, fetches>>

Make(t) ==
    /\ starting[t].at = "asked" /\ starting[t].saw = 0
    /\ made' = made + 1
    /\ starting' = [starting EXCEPT ![t].saw = made + 1]
    /\ UNCHANGED <<jobs, tail, fetches>>

Start(t) ==
    /\ starting[t].at = "asked" /\ starting[t].saw # 0 /\ Len(jobs) < MaxJobs
    /\ jobs' = Append(jobs, [object |-> starting[t].saw, process |-> "runs", code |-> 0, log |-> 0,
                             status |-> "running", killing |-> FALSE])
    /\ starting' = [starting EXCEPT ![t] = NoAsk]
    /\ UNCHANGED <<made, tail, fetches>>

Prints(j) ==
    /\ jobs[j].process = "runs" /\ jobs[j].log < MaxBytes
    /\ jobs' = [jobs EXCEPT ![j].log = @ + 1]
    /\ UNCHANGED <<starting, made, tail, fetches>>

Exits(j) ==
    /\ jobs[j].process = "runs"
    /\ \E code \in {0, 1} :
         jobs' = [jobs EXCEPT ![j].process = "exited", ![j].code = code]
    /\ UNCHANGED <<starting, made, tail, fetches>>

\* What the reaper writes into the record of a job that ended.
VerdictAnew(job) == IF job.code = 0 THEN "done" ELSE "failed"
Verdict(job) ==
    CASE job.status # "running" -> job.status
      [] job.status = "running" /\ job.code = 0 -> "done"
      [] OTHER -> "failed"

Reap(j) ==
    /\ jobs[j].process = "exited"
    /\ jobs' = [jobs EXCEPT ![j].process = "reaped", ![j].status = Verdict(jobs[j])]
    /\ UNCHANGED <<starting, made, tail, fetches>>

\* Marked under the lock, signalled after it.
Cancel(j) ==
    /\ jobs[j].object = made /\ jobs[j].process = "runs" /\ ~jobs[j].killing
    /\ jobs' = [jobs EXCEPT ![j].status = "cancelled", ![j].killing = TRUE]
    /\ UNCHANGED <<starting, made, tail, fetches>>

Signal(j) ==
    /\ jobs[j].killing /\ jobs[j].process = "runs"
    /\ jobs' = [jobs EXCEPT ![j].process = "exited", ![j].code = -15]
    /\ UNCHANGED <<starting, made, tail, fetches>>

-----------------------------------------------------------------------------
(* The tab                                                                 *)

Listed == Len(jobs) > 0 /\ jobs[1].object = made

\* The text as the tab has it when it asks is what the answer is added to.
FetchWhileRunning(f) ==
    /\ Listed /\ jobs[1].status = "running" /\ fetches[f].at = "away"
    /\ fetches' = [fetches EXCEPT ![f] = [NoFetch EXCEPT !.at = "asked", !.from = tail]]
    /\ UNCHANGED <<starting, made, jobs, tail>>
Fetch(f) ==
    /\ Listed /\ fetches[f].at = "away"
    /\ fetches' = [fetches EXCEPT ![f] = [NoFetch EXCEPT !.at = "asked", !.from = tail]]
    /\ UNCHANGED <<starting, made, jobs, tail>>

Answer(f) ==
    /\ fetches[f].at = "asked"
    /\ LET since == fetches[f].from.next
           end == Min({since + ChunkBytes, jobs[1].log})
       IN  fetches' = [fetches EXCEPT ![f].at = "answered", ![f].next = end,
                         ![f].got = [i \in 1..(end - since) |-> since + i]]
    /\ UNCHANGED <<starting, made, jobs, tail>>

ShownOntoTheNewest(fetch) == [text |-> tail.text \o fetch.got, next |-> fetch.next]
Shown(fetch) == [text |-> fetch.from.text \o fetch.got, next |-> fetch.next]

Receive(f) ==
    /\ fetches[f].at = "answered"
    /\ tail' = IF fetches[f].got = <<>> THEN tail ELSE Shown(fetches[f])
    /\ fetches' = [fetches EXCEPT ![f] = NoFetch]
    /\ UNCHANGED <<starting, made, jobs>>

Tab(f) == Fetch(f) \/ Answer(f) \/ Receive(f)
JobsNext ==
    \/ \E t \in {1, 2} : Look(t) \/ Make(t) \/ Start(t)
    \/ \E j \in DOMAIN jobs : Prints(j) \/ Exits(j) \/ Reap(j) \/ Cancel(j) \/ Signal(j)
    \/ \E f \in Fetches : Tab(f)

-----------------------------------------------------------------------------
(* Properties                                                              *)

JobsTypeOK ==
    /\ made \in 0..2 /\ Len(jobs) <= MaxJobs
    /\ \A j \in DOMAIN jobs : jobs[j].log \in 0..MaxBytes /\ jobs[j].object \in 1..made
    /\ tail.next \in 0..MaxBytes

(* Two requests for the log may be under way together, and their answers   *)
(* come in any order; the text shown is the log up to where the tab will   *)
(* ask on from, nothing twice and nothing left out.                        *)
TailIsTheLog == tail.text = [i \in 1..tail.next |-> i]

(* A job that an operator cancelled stays cancelled in the record, however *)
(* it ended before the signal reached it.                                  *)
CancelIsKept ==
    [][\A j \in DOMAIN jobs : jobs[j].status = "cancelled" =>
         jobs'[j].status = "cancelled"]_jobVars

(* What a job that has ended printed comes to be shown to its end.         *)
TailArrives ==
    (Len(jobs) > 0 /\ jobs[1].process = "reaped" /\ Listed)
        ~> (Listed => tail.next = jobs[1].log)
=============================================================================
