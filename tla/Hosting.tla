------------------------------ MODULE Hosting ------------------------------
(***************************************************************************)
(* Who drives one run: the dashboard server (dashboard/state.py), which    *)
(* hosts drivers as threads of its own process, the command line           *)
(* (pipeline/run.py, pipeline/cli.py), which starts one per process, and   *)
(* the driver itself as they see it.  They share no lock, only the files   *)
(* of the run directory: phase.json, driver.pid.json with its heartbeat    *)
(* (pipeline/liveness.py), halt.flag and approvals.jsonl                   *)
(* (pipeline/approvals.py).                                                *)
(*                                                                         *)
(* A driver is here what the others can tell of it: it begins a phase,     *)
(* works, may ask the operator, and stops.  What it works at is the        *)
(* subject of TierDriver.  The number of phases is not bounded, so that a  *)
(* driver is stopped by nothing but what stops the real one.               *)
(***************************************************************************)
EXTENDS Naturals, FiniteSets

CONSTANTS
    MaxDrivers,     \* drivers ever constructed for the run
    Handlers,       \* HTTP handler threads that may be in start_run at once
    MaxAsks,        \* approvals the drivers may create
    MaxHalts,       \* times an operator writes or removes halt.flag
    MaxDeaths,      \* processes that may be killed from outside
    Stale           \* HEARTBEAT_STALL_AFTER_SECONDS, in ticks of the clock

ASSUME HostingAssumption ==
    /\ MaxDrivers \in Nat \ {0} /\ Stale \in Nat \ {0}
    /\ {MaxAsks, MaxHalts, MaxDeaths} \subseteq Nat
    /\ IsFiniteSet(Handlers) /\ 0 \notin Handlers

VARIABLES
    phase,      \* status in phase.json
    halted,     \* halt.flag exists
    pid,        \* driver.pid.json: who recorded it, and the age of heartbeat_ts
    asks,       \* approvals.jsonl: what a reader sees of each approval
    drivers,    \* each driver: its process, where it is, its heartbeat, its ask
    hosts,      \* RunState._hosts: the thread registered for the run, 0 for none
    handlers,   \* each HTTP handler inside start_run, and the driver it built
    serve,      \* incarnation of the dashboard process (its pid)
    spent       \* operator actions and deaths so far

vars == <<phase, halted, pid, asks, drivers, hosts, handlers, serve, spent>>

Drivers == 1..MaxDrivers
Asks == 1..MaxAsks
Active == {"in_progress", "waiting_for_approval"}

\* A driver that was never constructed.
Unborn == [home |-> 0, at |-> "unborn", beats |-> FALSE, ask |-> 0,
           passed |-> FALSE, report |-> "none"]
NoRecord == [of |-> 0, home |-> 0, ident |-> 0, age |-> 0]
Away == [at |-> "away", driver |-> 0]
CommandLine == 0        \* the home of a driver that has a process of its own

Alive(d) == drivers[d].at \notin {"unborn", "dead", "gone"}
InRun(d) == drivers[d].at \in {"boundary", "working", "asked", "waiting"}
Move(d, at) == drivers' = [drivers EXCEPT ![d].at = at]
NextDriver == Cardinality({d \in Drivers : drivers[d].at # "unborn"}) + 1

Init ==
    /\ phase = "none" /\ halted = FALSE /\ pid = NoRecord
    /\ asks = [a \in Asks |-> "none"]
    /\ drivers = [d \in Drivers |-> Unborn]
    /\ hosts = 0 /\ handlers = [h \in Handlers |-> Away]
    /\ serve = 1
    /\ spent = [halts |-> 0, deaths |-> 0]

-----------------------------------------------------------------------------
(* The probe: is a driver alive?                                           *)

Pending == {a \in Asks : asks[a] \in {"pending", "arriving"}}

\* What status and the dashboard report of the run (run_liveness).
Stalled ==
    \/ phase = "waiting_for_approval" /\ Pending = {}
    \/ phase = "in_progress" /\ pid.of # 0 /\ pid.age = Stale

(* Whether start_run takes a driver for alive.  The record names the thread *)
(* that constructed the driver; a handler of this process is gone once it   *)
(* answered, but its identifier may have been given to another thread, so   *)
(* that either outcome is possible.                                         *)
IdentAlive == IF pid.ident \in Handlers /\ handlers[pid.ident].at = "away"
                THEN BOOLEAN ELSE {TRUE}

(* Mutant: the thread is looked up whatever process recorded it.            *)
OtherDriverAnyProcess ==
    IF phase \notin Active \cup {"none"} \/ pid.of = 0 THEN {FALSE}
    ELSE {pid.home = serve /\ alive /\ pid.age < Stale : alive \in IdentAlive}

OtherDriver ==
    IF phase \notin Active \cup {"none"} \/ pid.of = 0 THEN {FALSE}
    ELSE IF pid.home = serve
           THEN {alive /\ pid.age < Stale : alive \in IdentAlive}
           ELSE {pid.age < Stale}

\* The driver's constructor records itself (record_driver_start).
Construct(d, home, ident) ==
    /\ pid' = [of |-> d, home |-> home, ident |-> ident, age |-> 0]
    /\ drivers' = [drivers EXCEPT ![d] =
            [Unborn EXCEPT !.home = home, !.at = "built"]]

-----------------------------------------------------------------------------
(* The dashboard: start_run in a handler thread.                           *)

\* The probe.  A refused start leaves everything as it was.
Admit(h) ==
    /\ handlers[h].at = "away"
    /\ \E other \in OtherDriver :
         /\ ~other
         /\ handlers' = [handlers EXCEPT ![h].at = "allowed"]
    /\ UNCHANGED <<phase, halted, pid, asks, drivers, hosts, serve, spent>>

\* The flag of the last halt goes, and the driver is constructed.
Build(h) ==
    /\ handlers[h].at = "allowed"
    /\ NextDriver \in Drivers
    /\ halted' = FALSE
    /\ Construct(NextDriver, serve, h)
    /\ handlers' = [handlers EXCEPT ![h] =
            [at |-> "built", driver |-> NextDriver]]
    /\ UNCHANGED <<phase, asks, hosts, serve, spent>>

Register(h) ==
    /\ handlers[h].at = "built"
    /\ hosts' = handlers[h].driver
    /\ handlers' = [handlers EXCEPT ![h].at = "registered"]
    /\ UNCHANGED <<phase, halted, pid, asks, drivers, serve, spent>>

Launch(h) ==
    /\ handlers[h].at = "registered"
    /\ Move(handlers[h].driver, "started")
    /\ handlers' = [handlers EXCEPT ![h] = Away]
    /\ UNCHANGED <<phase, halted, pid, asks, hosts, serve, spent>>

(* is_hosted and hosted_count, called by every snapshot, drop an entry     *)
(* whose thread is not alive: one that ended, or one not yet started.      *)
Prune ==
    /\ hosts # 0
    /\ drivers[hosts].at \in {"built", "gone", "dead"}
    /\ hosts' = 0
    /\ UNCHANGED <<phase, halted, pid, asks, drivers, handlers, serve, spent>>

\* The command line asks nobody: run and resume clear the flag and start.
CliStart ==
    /\ NextDriver \in Drivers
    /\ halted' = FALSE
    /\ pid' = [of |-> NextDriver, home |-> CommandLine, ident |-> 0, age |-> 0]
    /\ drivers' = [drivers EXCEPT ![NextDriver] =
            [Unborn EXCEPT !.home = CommandLine, !.at = "started"]]
    /\ UNCHANGED <<phase, asks, hosts, handlers, serve, spent>>

-----------------------------------------------------------------------------
(* The driver.                                                             *)

(* Mutant: it watches the thread that constructed the driver.              *)
EnterRunBuilder(d) ==
    /\ drivers[d].at = "started"
    /\ drivers' = [drivers EXCEPT ![d].at = "boundary",
                                  ![d].beats = drivers[d].home = CommandLine]
    /\ UNCHANGED <<phase, halted, pid, asks, hosts, handlers, serve, spent>>

\* run(): the heartbeat thread watches the thread that called it.
EnterRun(d) ==
    /\ drivers[d].at = "started"
    /\ drivers' = [drivers EXCEPT ![d].at = "boundary", ![d].beats = TRUE]
    /\ UNCHANGED <<phase, halted, pid, asks, hosts, handlers, serve, spent>>

(* Mutant: a driver that has begun no longer looks at the flag.            *)
BoundaryBlind(d) ==
    /\ drivers[d].at = "boundary"
    /\ phase' = "in_progress"
    /\ Move(d, "working")
    /\ UNCHANGED <<halted, pid, asks, hosts, handlers, serve, spent>>

\* _run_phase enters a phase, or stops before it when halt.flag exists.
Boundary(d) ==
    /\ drivers[d].at = "boundary"
    /\ phase' = IF halted THEN "halted" ELSE "in_progress"
    /\ drivers' = [drivers EXCEPT
            ![d].at = IF halted THEN "stopping" ELSE "working",
            ![d].report = IF halted THEN "halted" ELSE @]
    /\ UNCHANGED <<halted, pid, asks, hosts, handlers, serve, spent>>

\* A phase ends: the next one, or the end of the run; or its error stops it.
PhaseDone(d) ==
    /\ drivers[d].at = "working"
    /\ \E last \in BOOLEAN, outcome \in {"done", "error"} :
         /\ outcome = "error" => last
         /\ phase' = outcome
         /\ drivers' = [drivers EXCEPT
                ![d].at = IF last THEN "stopping" ELSE "boundary",
                ![d].report = IF last THEN outcome ELSE @]
    /\ UNCHANGED <<halted, pid, asks, hosts, handlers, serve, spent>>

\* An exception no phase reports: _host_driver does, the command line does not.
Escapes(d) ==
    /\ drivers[d].at \in {"boundary", "working"}
    /\ drivers' = [drivers EXCEPT ![d].at = "stopping", ![d].report = "error"]
    /\ UNCHANGED <<phase, halted, pid, asks, hosts, handlers, serve, spent>>

(* _ask reuses a pending approval of the same kind and context, or appends *)
(* one, before phase.json says that the driver waits.                      *)
AskOperator(d) ==
    /\ drivers[d].at = "working"
    /\ \E a \in Asks :
         /\ IF Pending # {} THEN a \in Pending
              ELSE asks[a] = "none" /\ \A b \in Asks : b < a => asks[b] # "none"
         /\ asks' = IF a \in Pending THEN asks ELSE [asks EXCEPT ![a] = "pending"]
         /\ drivers' = [drivers EXCEPT ![d].at = "asked", ![d].ask = a]
    /\ UNCHANGED <<phase, halted, pid, hosts, handlers, serve, spent>>

(* Mutant: it starts at the end of the file.                               *)
WaitFromTheEnd(d) ==
    /\ drivers[d].at = "asked"
    /\ phase' = "waiting_for_approval"
    /\ drivers' = [drivers EXCEPT ![d].at = "waiting",
            ![d].passed = asks[drivers[d].ask] = "resolved"]
    /\ UNCHANGED <<halted, pid, asks, hosts, handlers, serve, spent>>

\* A new scanner starts at the first byte of approvals.jsonl.
Wait(d) ==
    /\ drivers[d].at = "asked"
    /\ phase' = "waiting_for_approval"
    /\ drivers' = [drivers EXCEPT ![d].at = "waiting", ![d].passed = FALSE]
    /\ UNCHANGED <<halted, pid, asks, hosts, handlers, serve, spent>>

(* A poll consumes whole lines only: an answer still arriving is read again *)
(* from its first byte.  wait_for_resolution returns at the answer, and     *)
(* _ask puts the phase back.                                                *)
Poll(d) ==
    /\ drivers[d].at = "waiting"
    /\ ~drivers[d].passed /\ asks[drivers[d].ask] = "resolved"
    /\ phase' = "in_progress"
    /\ drivers' = [drivers EXCEPT ![d].at = "working", ![d].ask = 0]
    /\ UNCHANGED <<halted, pid, asks, hosts, handlers, serve, spent>>

\* run() returns: the heartbeat stops.  The process of a command line exits.
LeaveRun(d) ==
    /\ drivers[d].at = "stopping"
    /\ drivers' = [drivers EXCEPT ![d].beats = FALSE,
            ![d].at = IF drivers[d].home = CommandLine THEN "gone" ELSE "returned"]
    /\ UNCHANGED <<phase, halted, pid, asks, hosts, handlers, serve, spent>>

\* _host_driver writes the report, then on_done takes the run off the registry.
Report(d) ==
    /\ drivers[d].at = "returned"
    /\ phase' = drivers[d].report
    /\ Move(d, "reported")
    /\ UNCHANGED <<halted, pid, asks, hosts, handlers, serve, spent>>

(* Mutant: only kill_run ever takes a run off the registry, and no        *)
(* snapshot prunes it.                                                     *)
RemoveHostNot(d) ==
    /\ drivers[d].at = "reported"
    /\ Move(d, "gone")
    /\ UNCHANGED <<phase, halted, pid, asks, hosts, handlers, serve, spent>>

RemoveHost(d) ==
    /\ drivers[d].at = "reported"
    /\ hosts' = 0
    /\ Move(d, "gone")
    /\ UNCHANGED <<phase, halted, pid, asks, handlers, serve, spent>>

-----------------------------------------------------------------------------
(* The heartbeat and the clock.                                            *)

(* Mutant: a heartbeat thread that never asks whether its driver ended.    *)
BeatsOn(d) == drivers[d].beats \/ drivers[d].at = "gone"

Beats(d) == drivers[d].beats /\ Alive(d)

Beat(d) ==
    /\ Beats(d) /\ pid.age > 0
    /\ pid' = [pid EXCEPT !.age = 0]
    /\ UNCHANGED <<phase, halted, asks, drivers, hosts, handlers, serve, spent>>

(* The clock, as far as the heartbeat matters: a beating thread (one beat   *)
(* every HEARTBEAT_INTERVAL_SECONDS) and a driver just constructed are in   *)
(* time.                                                                    *)
Tick ==
    /\ pid.of # 0 /\ pid.age < Stale
    /\ (\E d \in Drivers : Beats(d) \/ drivers[d].at \in {"built", "started"})
          => pid.age + 1 < Stale
    /\ pid' = [pid EXCEPT !.age = @ + 1]
    /\ UNCHANGED <<phase, halted, asks, drivers, hosts, handlers, serve, spent>>

-----------------------------------------------------------------------------
(* The operator and the environment.                                       *)

\* Pause (halt(True), cmd_pause) and un-halt (halt(False)).
SetHalt ==
    /\ spent.halts < MaxHalts
    /\ halted' = ~halted
    /\ spent' = [spent EXCEPT !.halts = @ + 1]
    /\ UNCHANGED <<phase, pid, asks, drivers, hosts, handlers, serve>>

(* Mutant: the heartbeat of a dead driver is still counted.                *)
DiesBeating(D) == drivers' = [d \in Drivers |->
    IF d \in D /\ Alive(d) THEN [drivers[d] EXCEPT !.at = "dead"] ELSE drivers[d]]

Dies(D) == drivers' = [d \in Drivers |->
    IF d \in D /\ Alive(d) THEN [drivers[d] EXCEPT !.at = "dead", !.beats = FALSE]
    ELSE drivers[d]]

(* kill_run: the flag, the registry, then a signal to the recorded process, *)
(* unless that is the dashboard itself: its own thread goes on until it     *)
(* sees the flag.                                                           *)
KillRun ==
    /\ spent.halts < MaxHalts
    /\ halted' = TRUE
    /\ hosts' = 0
    /\ Dies(IF pid.home = CommandLine THEN {pid.of} ELSE {})
    /\ spent' = [spent EXCEPT !.halts = @ + 1]
    /\ UNCHANGED <<phase, pid, asks, handlers, serve>>

\* The process of a driver of the command line dies.
CliDies(d) ==
    /\ spent.deaths < MaxDeaths
    /\ drivers[d].home = CommandLine /\ Alive(d)
    /\ Dies({d})
    /\ spent' = [spent EXCEPT !.deaths = @ + 1]
    /\ UNCHANGED <<phase, halted, pid, asks, hosts, handlers, serve>>

\* The dashboard dies with all its threads, and is started again.
ServeDies ==
    /\ spent.deaths < MaxDeaths
    /\ Dies({d \in Drivers : drivers[d].home = serve})
    /\ hosts' = 0 /\ handlers' = [h \in Handlers |-> Away]
    /\ serve' = serve + 1
    /\ spent' = [spent EXCEPT !.deaths = @ + 1]
    /\ UNCHANGED <<phase, halted, pid, asks>>

(* An operator answers (resolve_approval, cmd_approve).  The record is     *)
(* appended in more than one write when it carries a document.             *)
Answer(a) ==
    /\ asks[a] \in {"pending", "arriving"}
    /\ asks' = [asks EXCEPT ![a] = IF @ = "pending" THEN "arriving" ELSE "resolved"]
    /\ UNCHANGED <<phase, halted, pid, drivers, hosts, handlers, serve, spent>>

-----------------------------------------------------------------------------
StartSteps(h) == Build(h) \/ Register(h) \/ Launch(h)
DriverSteps(d) ==
    \/ EnterRun(d) \/ Boundary(d) \/ PhaseDone(d) \/ Wait(d) \/ Poll(d)
    \/ LeaveRun(d) \/ Report(d) \/ RemoveHost(d)

Next ==
    \/ \E h \in Handlers : Admit(h) \/ StartSteps(h)
    \/ \E d \in Drivers : DriverSteps(d) \/ Escapes(d) \/ AskOperator(d)
                            \/ Beat(d) \/ CliDies(d)
    \/ Prune \/ CliStart \/ Tick \/ SetHalt \/ KillRun \/ ServeDies
    \/ \E a \in Asks : Answer(a)

-----------------------------------------------------------------------------
TypeOK ==
    /\ phase \in Active \cup {"none", "done", "error", "halted"}
    /\ halted \in BOOLEAN
    /\ pid \in [of : 0..MaxDrivers, home : Nat, ident : {0} \cup Handlers, age : 0..Stale]
    /\ asks \in [Asks -> {"none", "pending", "arriving", "resolved"}]
    /\ \A d \in Drivers :
         /\ drivers[d].at \in {"unborn", "built", "started", "boundary", "working",
                "asked", "waiting", "stopping", "returned", "reported", "gone", "dead"}
         /\ drivers[d].ask \in {0} \cup Asks
         /\ drivers[d].at = "returned" => drivers[d].report # "none"
         /\ drivers[d].beats => InRun(d) \/ drivers[d].at = "stopping"
    /\ hosts \in {0} \cup Drivers
    /\ \A h \in Handlers : handlers[h].driver \in {0} \cup Drivers

(* A working driver is never reported as stalled: while one is at work in a *)
(* phase that phase.json shows, the heartbeat of the record is fresh,       *)
(* whoever constructed the driver and whoever else wrote the record         *)
(* (run_liveness, start_heartbeat_thread).                                  *)
NoFalseAlarm ==
    phase = "in_progress" /\ (\E d \in Drivers : drivers[d].at = "working") => ~Stalled

(* The dashboard never lets a start through while a driver of another       *)
(* process, the one on record, is at work in an active phase.               *)
(* (_other_driver_pid)                                                      *)
ForeignDriverKept ==
    [][\A h \in Handlers :
         handlers[h].at = "away" /\ handlers'[h].at = "allowed" =>
             ~(phase \in Active /\ pid.of # 0 /\ pid.home # serve /\ InRun(pid.of))]_vars

(* A run whose driver died in a phase is shown as stalled in the end, unless*)
(* another driver took it over: phase.json alone would say in_progress      *)
(* forever.                                                                 *)
DeadIsSeen ==
    (phase = "in_progress" /\ ~\E d \in Drivers : Alive(d))
        ~> (Stalled \/ \E d \in Drivers : Alive(d))

(* An answer is heard, whenever it landed: the driver that waits for it     *)
(* goes on.                                                                 *)
AnswerIsHeard ==
    \A a \in Asks, d \in Drivers :
        (drivers[d].at = "waiting" /\ drivers[d].ask = a /\ asks[a] = "resolved")
            ~> (drivers[d].at # "waiting")

(* A halt is obeyed: a driver stops, unless the flag is taken away first or *)
(* it waits for an answer.                                                  *)
HaltIsObeyed ==
    \A d \in Drivers :
        (halted /\ InRun(d)) ~> (~halted \/ ~InRun(d) \/ drivers[d].at = "waiting")

(* The registry forgets a driver whose thread has ended (section E9: it     *)
(* used to keep every run that finished on its own).                        *)
RegistryForgets ==
    \A d \in Drivers : (hosts = d /\ drivers[d].at = "returned") ~> (hosts # d)

=============================================================================
