-------------------------------- MODULE Jobs --------------------------------
(***************************************************************************)
(* The operator's background jobs of dashboard/state.py: a request creates *)
(* an approval, whoever resolves it with "apply" dispatches its job, and   *)
(* the job runs as a thread of the dashboard that can only be cancelled    *)
(* around its work.  What the operator is shown is the last line of        *)
(* jobs.jsonl under the job's id, which is the id of the approval.         *)
(*                                                                         *)
(* Nothing is locked between the reading of an approval and the record that*)
(* resolves it, so that two browser tabs may dispatch the same job twice;  *)
(* a worker is therefore not named after its job.                          *)
(***************************************************************************)
EXTENDS Naturals, FiniteSets

CONSTANTS
    Approvals,      \* approvals that requests and jobs may create
    Tabs,           \* threads of the dashboard in which resolve_approval runs
    Workers,        \* job threads that may ever be started
    MaxRequests,    \* requests an operator makes
    MaxCancels      \* cancel_job calls

JobsAssumption ==
    /\ Approvals \subseteq Nat \ {0} /\ Workers \subseteq Nat \ {0}
    /\ IsFiniteSet(Tabs) /\ IsFiniteSet(Workers)
    /\ MaxCancels \in Nat

VARIABLES
    approvals,      \* kind and status of each approval, as approvals.jsonl says
    tabs,           \* each resolver: where it is, and with what approval
    line,           \* the last status in jobs.jsonl of each job
    events,         \* _job_cancel_events: whose event is registered for a job
    workers,        \* each job thread: its job, where it is, whether its event is set
    cancels         \* the job a cancel_job is about to record, and calls so far

jobVars == <<approvals, tabs, line, events, workers, cancels>>

Nobody == 0
NewTab == [at |-> "away", job |-> 0]
Over(w) == workers[w].at \in {"none", "over"}
WorkersOf(j) == {w \in Workers : workers[w].job = j}

Init ==
    /\ approvals = [a \in Approvals |-> [kind |-> "none", status |-> "none"]]
    /\ tabs = [t \in Tabs |-> NewTab]
    /\ line = [a \in Approvals |-> "none"]
    /\ events = [a \in Approvals |-> Nobody]
    /\ workers = [w \in Workers |-> [job |-> 0, at |-> "none", cancelled |-> FALSE,
                              raised |-> FALSE]]
    /\ cancels = [job |-> 0, made |-> 0]

\* approval_store.append of a fresh approval.
Created(kind) ==
    \E a \in Approvals :
        /\ approvals[a].status = "none"
        /\ \A b \in Approvals : b < a => approvals[b].status # "none"
        /\ approvals' = [approvals EXCEPT ![a] = [kind |-> kind, status |-> "pending"]]

\* request_amend, request_reopen.
Request ==
    /\ Cardinality({a \in Approvals : approvals[a].kind \in {"amend", "reopen"}}) < MaxRequests
    /\ \E kind \in {"amend", "reopen"} : Created(kind)
    /\ UNCHANGED <<tabs, line, events, workers, cancels>>

-----------------------------------------------------------------------------
(* resolve_approval: read, append, dispatch.                               *)

Read(t, a) ==
    /\ tabs[t].at = "away" /\ approvals[a].status = "pending"
    /\ tabs' = [tabs EXCEPT ![t] = [at |-> "read", job |-> a]]
    /\ UNCHANGED <<approvals, line, events, workers, cancels>>

Resolve(t) ==
    /\ tabs[t].at = "read"
    /\ approvals' = [approvals EXCEPT ![tabs[t].job].status = "resolved"]
    /\ \E apply \in BOOLEAN :
         tabs' = [tabs EXCEPT ![t] = IF apply THEN [@ EXCEPT !.at = "resolved"] ELSE NewTab]
    /\ UNCHANGED <<line, events, workers, cancels>>

\* _spawn_job: the line first, then the event and the thread.
ListJob(t) ==
    /\ tabs[t].at = "resolved"
    /\ line' = [line EXCEPT ![tabs[t].job] = "running"]
    /\ tabs' = [tabs EXCEPT ![t].at = "listed"]
    /\ UNCHANGED <<approvals, events, workers, cancels>>

SpawnJob(t) ==
    /\ tabs[t].at = "listed"
    /\ \E w \in Workers :
         /\ workers[w].at = "none"
         /\ \A v \in Workers : v < w => workers[v].at # "none"
         /\ events' = [events EXCEPT ![tabs[t].job] = w]
         /\ workers' = [workers EXCEPT ![w] = [@ EXCEPT !.job = tabs[t].job, !.at = "started"]]
    /\ tabs' = [tabs EXCEPT ![t] = NewTab]
    /\ UNCHANGED <<approvals, line, cancels>>

-----------------------------------------------------------------------------
(* _job_thread.                                                            *)

\* The event is set: the thread records it, and is over.
RecordsCancel(w) ==
    /\ line' = [line EXCEPT ![workers[w].job] = "cancelled"]
    /\ workers' = [workers EXCEPT ![w].at = "popping"]

Begin(w) ==
    /\ workers[w].at = "started"
    /\ IF workers[w].cancelled THEN RecordsCancel(w)
         ELSE workers' = [workers EXCEPT ![w].at = "working"] /\ UNCHANGED line
    /\ UNCHANGED <<approvals, tabs, events, cancels>>

(* _run_amend_job, _run_triage_job, _run_reopen_job: the job's own last     *)
(* record.  An amendment asks what to do with its triage.                   *)
Work(w) ==
    LET j == workers[w].job IN
    /\ workers[w].at = "working"
    /\ \E outcome \in {"done", "failed"} :
         /\ IF outcome = "done" /\ approvals[j].kind = "amend"
              THEN Created("triage") ELSE UNCHANGED approvals
         /\ line' = [line EXCEPT ![j] = outcome]
    /\ workers' = [workers EXCEPT ![w].at = "returned"]
    /\ UNCHANGED <<tabs, events, cancels>>

\* The target itself raises, before it has recorded anything.
Raises(w) ==
    /\ workers[w].at = "working"
    /\ IF workers[w].cancelled THEN RecordsCancel(w)
         ELSE workers' = [workers EXCEPT ![w].at = "failing"] /\ UNCHANGED line
    /\ UNCHANGED <<approvals, tabs, events, cancels>>

Fails(w) ==
    /\ workers[w].at = "failing"
    /\ line' = [line EXCEPT ![workers[w].job] = "failed"]
    /\ workers' = [workers EXCEPT ![w].at = "popping", ![w].raised = TRUE]
    /\ UNCHANGED <<approvals, tabs, events, cancels>>

(* Mutant: the event is looked at only before the work.                    *)
FinishUnasked(w) ==
    /\ workers[w].at = "returned"
    /\ workers' = [workers EXCEPT ![w].at = "popping"]
    /\ UNCHANGED <<approvals, tabs, line, events, cancels>>

\* The event is asked once more after the work.
Finish(w) ==
    /\ workers[w].at = "returned"
    /\ IF workers[w].cancelled THEN RecordsCancel(w)
         ELSE workers' = [workers EXCEPT ![w].at = "popping"] /\ UNCHANGED line
    /\ UNCHANGED <<approvals, tabs, events, cancels>>

\* on_done takes the job's event away, whichever thread registered it.
Pop(w) ==
    /\ workers[w].at = "popping"
    /\ events' = [events EXCEPT ![workers[w].job] = Nobody]
    /\ workers' = [workers EXCEPT ![w].at = "over"]
    /\ UNCHANGED <<approvals, tabs, line, cancels>>

-----------------------------------------------------------------------------
(* cancel_job: the event, if one is registered, and then the line.         *)

SetEvent(j) ==
    /\ cancels.job = 0 /\ cancels.made < MaxCancels
    /\ line[j] # "none"
    /\ IF events[j] = Nobody THEN UNCHANGED workers
         ELSE workers' = [workers EXCEPT ![events[j]].cancelled = TRUE]
    /\ cancels' = [job |-> j, made |-> cancels.made + 1]
    /\ UNCHANGED <<approvals, tabs, line, events>>

RecordCancel ==
    /\ cancels.job # 0
    /\ line' = [line EXCEPT ![cancels.job] = "cancelled"]
    /\ cancels' = [cancels EXCEPT !.job = 0]
    /\ UNCHANGED <<approvals, tabs, events, workers>>

-----------------------------------------------------------------------------
Dispatches(t) == Resolve(t) \/ ListJob(t) \/ SpawnJob(t)
Runs(w) == Begin(w) \/ Work(w) \/ Raises(w) \/ Fails(w) \/ Finish(w) \/ Pop(w)

Next ==
    \/ Request
    \/ \E t \in Tabs : Dispatches(t) \/ \E a \in Approvals : Read(t, a)
    \/ \E w \in Workers : Runs(w)
    \/ \E a \in Approvals : SetEvent(a)
    \/ RecordCancel

-----------------------------------------------------------------------------
TypeOK ==
    /\ \A a \in Approvals :
         /\ approvals[a].kind \in {"none", "amend", "reopen", "triage"}
         /\ approvals[a].status \in {"none", "pending", "resolved"}
         /\ line[a] \in {"none", "running", "done", "failed", "cancelled"}
         /\ line[a] # "none" => approvals[a].status = "resolved"
         /\ events[a] \in {Nobody} \cup WorkersOf(a)
    /\ \A t \in Tabs : tabs[t].at \in {"away", "read", "resolved", "listed"}
    /\ \A w \in Workers :
         /\ workers[w].at \in {"none", "started", "working", "returned", "failing",
                               "popping", "over"}
         /\ workers[w].cancelled \in BOOLEAN /\ workers[w].raised \in BOOLEAN
    /\ cancels.job \in {0} \cup Approvals /\ cancels.made \in 0..MaxCancels

\* One tab, and no more, resolved the approval of the job.
DispatchedOnce(j) ==
    Cardinality(WorkersOf(j)) + Cardinality({t \in Tabs : tabs[t].job = j}) = 1

(* A cancellation that reached a job's thread is the job's last word: when *)
(* the thread is over, neither its own "done" nor its own "failed" hides   *)
(* the line of the cancellation.  The exception is a target that raised    *)
(* before the event was set, whose "failed" may come last; and a job that  *)
(* two tabs dispatched has two last words.                                 *)
CancelStands ==
    \A w \in Workers :
        LET j == workers[w].job IN
        (/\ Over(w) /\ workers[w].cancelled /\ ~workers[w].raised
         /\ DispatchedOnce(j) /\ cancels.job # j)
        => line[j] = "cancelled"

=============================================================================
