--------------------------- MODULE Dashboard_proofs ---------------------------
(***************************************************************************)
(* Theorems about what the dashboard runs for its operator, for any number *)
(* of drivers, handlers, tabs, job threads and requests: a driver at work  *)
(* is never shown as stalled, a start is refused while the driver of       *)
(* another process is at work, a cancelled job stays cancelled, and the    *)
(* tail of a log is the log.  Each of the three components that MCDashboard*)
(* puts side by side has an invariant of its own.                          *)
(***************************************************************************)
EXTENDS MCDashboard, FiniteSetTheorems, SequenceTheorems, TLAPS

-----------------------------------------------------------------------------
(* Hosting: the inductive invariant.                                       *)

Places == {"unborn", "built", "started", "boundary", "working", "asked", "waiting",
           "stopping", "returned", "reported", "gone", "dead"}
Verdicts == {"done", "error", "halted"}
DriverRecord ==
    [home : Nat, at : Places, beats : BOOLEAN, ask : {0} \cup Asks,
     passed : BOOLEAN, report : Verdicts \cup {"none"}]

Typed ==
    /\ phase \in Active \cup {"none"} \cup Verdicts
    /\ halted \in BOOLEAN
    /\ pid \in [of : 0..MaxDrivers, home : Nat, ident : {0} \cup Handlers, age : 0..Stale]
    /\ asks \in [Asks -> {"none", "pending", "arriving", "resolved"}]
    /\ drivers \in [Drivers -> DriverRecord]
    /\ hosts \in {0} \cup Drivers
    /\ handlers \in [Handlers -> [at : {"away", "allowed", "built", "registered"},
                                  driver : {0} \cup Drivers]]
    /\ serve \in Nat
    /\ spent \in [halts : Nat, deaths : Nat]

\* The drivers are constructed one after the other.
BornInOrder == \E k \in 0..MaxDrivers : \A d \in Drivers : drivers[d].at = "unborn" <=> k < d

\* Whoever is inside run() beats, and nobody else does.
BeatsInRun == \A d \in Drivers : drivers[d].beats <=> InRun(d) \/ drivers[d].at = "stopping"

\* A driver that stops has something to report.
ReportsAnEnd ==
    \A d \in Drivers : drivers[d].at \in {"stopping", "returned"} => drivers[d].report # "none"

\* A handler holds a driver nobody has started yet, and no other handler does.
Holds(h) == handlers[h].at \in {"built", "registered"}
HeldByHandler ==
    \A h \in Handlers : Holds(h) =>
        /\ handlers[h].driver \in Drivers
        /\ drivers[handlers[h].driver].at = "built"
        /\ drivers[handlers[h].driver].home = serve
        /\ \A g \in Handlers \ {h} : Holds(g) => handlers[g].driver # handlers[h].driver

\* The record names the process its driver lives in.
RecordNamesTheHome == pid.of # 0 => drivers[pid.of].home = pid.home

\* A home of 0 is a process of the command line: the dashboard's never is.
ServeIsNoCommandLine == serve # CommandLine

\* While a driver is about to run or runs, the record is not stale.
FreshWhileDriven ==
    (\E d \in Drivers : Beats(d) \/ drivers[d].at \in {"built", "started"}) => pid.age < Stale

HostingInv ==
    /\ Typed /\ BornInOrder /\ BeatsInRun /\ ReportsAnEnd
    /\ HeldByHandler /\ RecordNamesTheHome /\ ServeIsNoCommandLine
    /\ FreshWhileDriven

-----------------------------------------------------------------------------
(* Jobs: the inductive invariant.                                          *)

JobsTyped ==
    /\ approvals \in [Approvals -> [kind : {"none", "amend", "reopen", "triage"},
                                    status : {"none", "pending", "resolved"}]]
    /\ tabs \in [Tabs -> [at : {"away", "read", "resolved", "listed"},
                          job : {0} \cup Approvals]]
    /\ line \in [Approvals -> {"none", "running", "done", "failed", "cancelled"}]
    /\ events \in [Approvals -> {0} \cup Workers]
    /\ workers \in [Workers -> [job : {0} \cup Approvals,
                                at : {"none", "started", "working", "returned", "failing",
                                      "popping", "over"},
                                cancelled : BOOLEAN, raised : BOOLEAN]]
    /\ cancels \in [job : {0} \cup Approvals, made : 0..MaxCancels]

\* A tab has an approval in hand until it is away again, and one that it resolved is so.
TabsHoldApprovals ==
    \A t \in Tabs :
        /\ tabs[t].at # "away" =>
             /\ tabs[t].job \in Approvals
             /\ approvals[tabs[t].job].status # "none"
        /\ tabs[t].at \in {"resolved", "listed"} => approvals[tabs[t].job].status = "resolved"

\* A thread is somebody's job from its start on, and the job's approval is resolved.
ThreadsHaveJobs ==
    \A w \in Workers :
        IF workers[w].at = "none"
          THEN workers[w].job = 0 /\ ~workers[w].cancelled
          ELSE /\ workers[w].job \in Approvals
               /\ approvals[workers[w].job].status = "resolved"

EventsAreTheJobs ==
    \A a \in Approvals :
        /\ line[a] # "none" => approvals[a].status = "resolved"
        /\ events[a] # 0 => workers[events[a]].job = a

\* Only a job that was listed is cancelled, and its approval is resolved.
CancelsAreListed == cancels.job # 0 => approvals[cancels.job].status = "resolved"

\* No tab but those that have only read the approval may still dispatch the job.
OnlyThread(w) ==
    /\ \A v \in Workers : workers[v].job = workers[w].job => v = w
    /\ \A t \in Tabs : tabs[t].job = workers[w].job => tabs[t].at \in {"away", "read"}

\* The job's line once its thread has had its say and was told of the cancellation.
LastWord ==
    \A w \in Workers :
        (/\ workers[w].at \in {"popping", "over"} /\ workers[w].cancelled
         /\ ~workers[w].raised /\ OnlyThread(w) /\ cancels.job # workers[w].job)
        => line[workers[w].job] = "cancelled"

JobsInv ==
    /\ JobsTyped /\ TabsHoldApprovals /\ ThreadsHaveJobs /\ EventsAreTheJobs
    /\ CancelsAreListed /\ LastWord

-----------------------------------------------------------------------------
(* CliJobs: the inductive invariant.                                       *)

CliRecord ==
    [object : Nat, process : {"runs", "exited", "reaped"}, code : Int, log : 0..MaxBytes,
     status : {"running", "done", "failed", "cancelled"}, killing : BOOLEAN]
Views == [text : Seq(Nat), next : 0..MaxBytes]

CliTyped ==
    /\ starting \in [{1, 2} -> [at : {"away", "asked"}, saw : Nat]]
    /\ made \in Nat
    /\ jobs \in Seq(CliRecord) /\ Len(jobs) <= MaxJobs
    /\ tail \in Views
    /\ fetches \in [Fetches -> [at : {"away", "asked", "answered"}, from : Views,
                                got : Seq(Nat), next : 0..MaxBytes]]

\* Two threads may each find no object and make one; from then on there is one.
FindsNone(t) == starting[t].at = "asked" /\ starting[t].saw = 0
ObjectsMade ==
    /\ made \in 0..2
    /\ made = 1 => ~(FindsNone(1) /\ FindsNone(2))
    /\ made = 2 => ~(FindsNone(1) \/ FindsNone(2))
    /\ \A t \in {1, 2} : starting[t].saw <= made
    /\ \A j \in DOMAIN jobs : jobs[j].object \in 1..made

\* The log of the open job as far as it was ever seen.
Printed == IF Len(jobs) = 0 THEN 0 ELSE jobs[1].log
ShowsTheLog(view) ==
    view.text = [i \in 1..view.next |-> i] /\ view.next <= Printed
AnswersInOrder ==
    /\ ShowsTheLog(tail)
    /\ \A f \in Fetches :
         /\ ShowsTheLog(fetches[f].from)
         /\ fetches[f].at # "away" => Len(jobs) > 0
         /\ fetches[f].at = "answered" =>
              /\ fetches[f].next \in fetches[f].from.next..Printed
              /\ fetches[f].got =
                   [i \in 1..(fetches[f].next - fetches[f].from.next) |->
                        fetches[f].from.next + i]

CliInv == CliTyped /\ ObjectsMade /\ AnswersInOrder

-----------------------------------------------------------------------------
(* Hosting: the invariant holds.                                           *)

LEMMA NextIsUnborn ==
    ASSUME HostingAssumption, HostingInv
    PROVE  /\ NextDriver \in Drivers => drivers[NextDriver].at = "unborn"
           /\ NextDriver \in Drivers =>
                \E k \in 0..MaxDrivers :
                    /\ k = NextDriver - 1
                    /\ \A d \in Drivers : drivers[d].at = "unborn" <=> k < d
<1>1. PICK k \in 0..MaxDrivers : \A d \in Drivers : drivers[d].at = "unborn" <=> k < d
  BY DEF HostingInv, BornInOrder
<1>2. {d \in Drivers : drivers[d].at # "unborn"} = 1..k
  BY <1>1, HostingAssumption DEF HostingAssumption, Drivers
<1>3. Cardinality(1..k) = k
  BY FS_Interval
<1>4. NextDriver = k + 1
  BY <1>2, <1>3 DEF NextDriver
<1>5. k \in 0..MaxDrivers /\ k = NextDriver - 1
  BY <1>4
<1> QED
  BY <1>1, <1>4, <1>5 DEF Drivers

LEMMA HostingInit ==
    ASSUME HostingAssumption, Init PROVE HostingInv
<1> USE HostingAssumption DEF HostingAssumption, Init, Unborn, NoRecord, Away
<1>1. Typed
  <2>1. pid \in [of : 0..MaxDrivers, home : Nat, ident : {0} \cup Handlers, age : 0..Stale]
    OBVIOUS
  <2>2. drivers \in [Drivers -> DriverRecord]
    BY DEF DriverRecord, Places
  <2>3. handlers \in [Handlers -> [at : {"away", "allowed", "built", "registered"},
                                  driver : {0} \cup Drivers]]
    OBVIOUS
  <2> QED
    BY <2>1, <2>2, <2>3 DEF Typed
<1>2. BornInOrder
  BY DEF BornInOrder, Drivers
<1>3. BeatsInRun /\ ReportsAnEnd /\ HeldByHandler /\ RecordNamesTheHome /\ ServeIsNoCommandLine
  BY DEF BeatsInRun, ReportsAnEnd, HeldByHandler, RecordNamesTheHome, ServeIsNoCommandLine,
         CommandLine, InRun, Holds
<1>4. FreshWhileDriven
  BY DEF FreshWhileDriven, Beats
<1> QED
  BY <1>1, <1>2, <1>3, <1>4 DEF HostingInv

\* A driver that stays where a handler or a clock cannot tell the difference.
LEMMA DriverStep ==
    ASSUME HostingAssumption, HostingInv,
           NEW d \in Drivers, NEW r \in DriverRecord,
           drivers' = [drivers EXCEPT ![d] = r],
           drivers[d].at \notin {"unborn", "built"}, r.at \notin {"unborn", "built"},
           r.home = drivers[d].home,
           r.beats <=> r.at \in {"boundary", "working", "asked", "waiting", "stopping"},
           r.at = "started" => drivers[d].at = "started",
           r.beats => drivers[d].beats \/ drivers[d].at = "started",
           r.at \in {"stopping", "returned"} => r.report # "none",
           UNCHANGED <<pid, handlers, serve>>
    PROVE  /\ drivers' \in [Drivers -> DriverRecord]
           /\ BornInOrder' /\ BeatsInRun' /\ ReportsAnEnd' /\ HeldByHandler'
           /\ RecordNamesTheHome' /\ ServeIsNoCommandLine' /\ FreshWhileDriven'
<1> USE DEF HostingInv
<1>1. drivers' \in [Drivers -> DriverRecord] /\ drivers'[d] = r
      /\ \A e \in Drivers \ {d} : drivers'[e] = drivers[e]
  BY DEF Typed
<1>2. BornInOrder'
  <2>1. PICK k \in 0..MaxDrivers : \A e \in Drivers : drivers[e].at = "unborn" <=> k < e
    BY DEF BornInOrder
  <2>2. \A e \in Drivers : drivers'[e].at = "unborn" <=> k < e
    BY <1>1, <2>1
  <2> QED
    BY <2>2 DEF BornInOrder
<1>3. BeatsInRun' /\ ReportsAnEnd'
  BY <1>1 DEF BeatsInRun, ReportsAnEnd, InRun
<1>4. HeldByHandler'
  <2> SUFFICES ASSUME NEW h \in Handlers, Holds(h)
               PROVE  /\ handlers[h].driver \in Drivers
                      /\ drivers'[handlers[h].driver].at = "built"
                      /\ drivers'[handlers[h].driver].home = serve
                      /\ \A g \in Handlers \ {h} :
                           Holds(g) => handlers[g].driver # handlers[h].driver
    BY DEF HeldByHandler, Holds
  <2>1. handlers[h].driver \in Drivers /\ drivers[handlers[h].driver].at = "built"
        /\ drivers[handlers[h].driver].home = serve
        /\ \A g \in Handlers \ {h} : Holds(g) => handlers[g].driver # handlers[h].driver
    BY DEF HeldByHandler
  <2> QED
    BY <1>1, <2>1
<1>5. RecordNamesTheHome' /\ ServeIsNoCommandLine'
  <2>1. pid.of # 0 => pid.of \in Drivers
    BY HostingAssumption DEF Typed, Drivers, HostingAssumption
  <2> QED
    BY <1>1, <2>1 DEF RecordNamesTheHome, ServeIsNoCommandLine
<1>6. FreshWhileDriven'
  <2> SUFFICES ASSUME NEW e \in Drivers, Beats(e)' \/ drivers'[e].at \in {"built", "started"}
               PROVE  pid.age < Stale
    BY DEF FreshWhileDriven
  <2>1. Beats(e) \/ drivers[e].at \in {"built", "started"}
    BY <1>1 DEF Beats, Alive, BeatsInRun, InRun
  <2> QED
    BY <2>1 DEF FreshWhileDriven
<1> QED
  BY <1>1, <1>2, <1>3, <1>4, <1>5, <1>6

\* A driver that moves from one place to another, and all that it takes.
LEMMA DriverMoves ==
    ASSUME HostingAssumption, HostingInv,
           NEW d \in Drivers, NEW r \in DriverRecord,
           drivers' = [drivers EXCEPT ![d] = r],
           drivers[d].at \notin {"unborn", "built"}, r.at \notin {"unborn", "built"},
           r.home = drivers[d].home,
           r.beats <=> r.at \in {"boundary", "working", "asked", "waiting", "stopping"},
           r.at = "started" => drivers[d].at = "started",
           r.beats => drivers[d].beats \/ drivers[d].at = "started",
           r.at \in {"stopping", "returned"} => r.report # "none",
           phase' \in Active \cup {"none"} \cup Verdicts,
           asks' \in [Asks -> {"none", "pending", "arriving", "resolved"}],
           hosts' \in {0} \cup Drivers,
           UNCHANGED <<halted, pid, handlers, serve, spent>>
    PROVE  HostingInv'
<1>1. Typed'
  BY DriverStep DEF HostingInv, Typed
<1> QED
  BY <1>1, DriverStep DEF HostingInv

\* What a driver does moves it, whatever it writes.
LEMMA HostingDrives ==
    ASSUME HostingAssumption, HostingInv, NEW d \in Drivers,
           DriverSteps(d) \/ Escapes(d) \/ AskOperator(d)
    PROVE  HostingInv'
<1>1. /\ drivers[d] \in DriverRecord /\ drivers \in [Drivers -> DriverRecord]
      /\ phase \in Active \cup {"none"} \cup Verdicts /\ hosts \in {0} \cup Drivers
      /\ asks \in [Asks -> {"none", "pending", "arriving", "resolved"}]
      /\ halted \in BOOLEAN
  BY DEF HostingInv, Typed
<1>2. /\ drivers[d].beats <=>
            drivers[d].at \in {"boundary", "working", "asked", "waiting", "stopping"}
      /\ drivers[d].at \in {"stopping", "returned"} => drivers[d].report # "none"
  BY DEF HostingInv, BeatsInRun, ReportsAnEnd, InRun
<1>3. CASE EnterRun(d)
  <2> DEFINE r == [drivers[d] EXCEPT !.at = "boundary", !.beats = TRUE]
  <2>1. drivers' = [drivers EXCEPT ![d] = r]
    BY <1>1, <1>3 DEF EnterRun, DriverRecord
  <2>2. r \in DriverRecord /\ r.at \in {"boundary"} /\ r.home = drivers[d].home
        /\ r.beats
    BY <1>1 DEF DriverRecord, Places, Verdicts
  <2>3. /\ drivers[d].at = "started"
        /\ phase' \in Active \cup {"none"} \cup Verdicts /\ hosts' \in {0} \cup Drivers
        /\ asks' \in [Asks -> {"none", "pending", "arriving", "resolved"}]
        /\ UNCHANGED <<halted, pid, handlers, serve, spent>>
    BY <1>1, <1>3 DEF EnterRun
  <2> HIDE DEF r
  <2> QED
    BY <1>2, <2>1, <2>2, <2>3, DriverMoves
<1>4. CASE Boundary(d)
  <2> DEFINE r == [drivers[d] EXCEPT !.at = IF halted THEN "stopping" ELSE "working",
                                     !.report = IF halted THEN "halted" ELSE @]
  <2>1. drivers' = [drivers EXCEPT ![d] = r]
    BY <1>1, <1>4 DEF Boundary, DriverRecord
  <2>2. r \in DriverRecord /\ r.at \in {"stopping", "working"} /\ r.home = drivers[d].home
        /\ r.beats = drivers[d].beats
        /\ (r.at = "stopping" => r.report # "none")
    BY <1>1 DEF DriverRecord, Places, Verdicts
  <2>3. /\ drivers[d].at = "boundary"
        /\ phase' \in Active \cup {"none"} \cup Verdicts /\ hosts' \in {0} \cup Drivers
        /\ asks' \in [Asks -> {"none", "pending", "arriving", "resolved"}]
        /\ UNCHANGED <<halted, pid, handlers, serve, spent>>
    BY <1>1, <1>4 DEF Boundary, Active, Verdicts
  <2> HIDE DEF r
  <2> QED
    BY <1>2, <2>1, <2>2, <2>3, DriverMoves
<1>5. CASE PhaseDone(d)
  <2>0. PICK last \in BOOLEAN, outcome \in {"done", "error"} :
            /\ phase' = outcome
            /\ drivers' = [drivers EXCEPT
                    ![d].at = IF last THEN "stopping" ELSE "boundary",
                    ![d].report = IF last THEN outcome ELSE @]
    BY <1>5 DEF PhaseDone
  <2> DEFINE r == [drivers[d] EXCEPT !.at = IF last THEN "stopping" ELSE "boundary",
                                     !.report = IF last THEN outcome ELSE @]
  <2>1. drivers' = [drivers EXCEPT ![d] = r]
    BY <1>1, <2>0 DEF DriverRecord
  <2>2. r \in DriverRecord /\ r.at \in {"stopping", "boundary"} /\ r.home = drivers[d].home
        /\ r.beats = drivers[d].beats
        /\ (r.at = "stopping" => r.report # "none")
    BY <1>1 DEF DriverRecord, Places, Verdicts
  <2>3. /\ drivers[d].at = "working"
        /\ phase' \in Active \cup {"none"} \cup Verdicts /\ hosts' \in {0} \cup Drivers
        /\ asks' \in [Asks -> {"none", "pending", "arriving", "resolved"}]
        /\ UNCHANGED <<halted, pid, handlers, serve, spent>>
    BY <1>1, <1>5, <2>0 DEF PhaseDone, Verdicts
  <2> HIDE DEF r
  <2> QED
    BY <1>2, <2>1, <2>2, <2>3, DriverMoves
<1>6. CASE Wait(d)
  <2> DEFINE r == [drivers[d] EXCEPT !.at = "waiting", !.passed = FALSE]
  <2>1. drivers' = [drivers EXCEPT ![d] = r]
    BY <1>1, <1>6 DEF Wait, DriverRecord
  <2>2. r \in DriverRecord /\ r.at \in {"waiting"} /\ r.home = drivers[d].home
        /\ r.beats = drivers[d].beats
    BY <1>1 DEF DriverRecord, Places, Verdicts
  <2>3. /\ drivers[d].at = "asked"
        /\ phase' \in Active \cup {"none"} \cup Verdicts /\ hosts' \in {0} \cup Drivers
        /\ asks' \in [Asks -> {"none", "pending", "arriving", "resolved"}]
        /\ UNCHANGED <<halted, pid, handlers, serve, spent>>
    BY <1>1, <1>6 DEF Wait, Active
  <2> HIDE DEF r
  <2> QED
    BY <1>2, <2>1, <2>2, <2>3, DriverMoves
<1>7. CASE Poll(d)
  <2> DEFINE r == [drivers[d] EXCEPT !.at = "working", !.ask = 0]
  <2>1. drivers' = [drivers EXCEPT ![d] = r]
    BY <1>1, <1>7 DEF Poll, DriverRecord
  <2>2. r \in DriverRecord /\ r.at \in {"working"} /\ r.home = drivers[d].home
        /\ r.beats = drivers[d].beats
    BY <1>1 DEF DriverRecord, Places, Verdicts
  <2>3. /\ drivers[d].at = "waiting"
        /\ phase' \in Active \cup {"none"} \cup Verdicts /\ hosts' \in {0} \cup Drivers
        /\ asks' \in [Asks -> {"none", "pending", "arriving", "resolved"}]
        /\ UNCHANGED <<halted, pid, handlers, serve, spent>>
    BY <1>1, <1>7 DEF Poll, Active
  <2> HIDE DEF r
  <2> QED
    BY <1>2, <2>1, <2>2, <2>3, DriverMoves
<1>8. CASE LeaveRun(d)
  <2> DEFINE r == [drivers[d] EXCEPT !.beats = FALSE,
            !.at = IF drivers[d].home = CommandLine THEN "gone" ELSE "returned"]
  <2>1. drivers' = [drivers EXCEPT ![d] = r]
    BY <1>1, <1>8 DEF LeaveRun, DriverRecord
  <2>2. r \in DriverRecord /\ r.at \in {"gone", "returned"} /\ r.home = drivers[d].home
        /\ ~r.beats
        /\ r.report = drivers[d].report
    BY <1>1 DEF DriverRecord, Places, Verdicts
  <2>3. /\ drivers[d].at = "stopping"
        /\ phase' \in Active \cup {"none"} \cup Verdicts /\ hosts' \in {0} \cup Drivers
        /\ asks' \in [Asks -> {"none", "pending", "arriving", "resolved"}]
        /\ UNCHANGED <<halted, pid, handlers, serve, spent>>
    BY <1>1, <1>8 DEF LeaveRun
  <2> HIDE DEF r
  <2> QED
    BY <1>2, <2>1, <2>2, <2>3, DriverMoves
<1>9. CASE Report(d)
  <2> DEFINE r == [drivers[d] EXCEPT !.at = "reported"]
  <2>1. drivers' = [drivers EXCEPT ![d] = r]
    BY <1>1, <1>9 DEF Report, DriverRecord, Move
  <2>2. r \in DriverRecord /\ r.at \in {"reported"} /\ r.home = drivers[d].home
        /\ r.beats = drivers[d].beats
    BY <1>1 DEF DriverRecord, Places, Verdicts
  <2>3. /\ drivers[d].at = "returned"
        /\ phase' \in Active \cup {"none"} \cup Verdicts /\ hosts' \in {0} \cup Drivers
        /\ asks' \in [Asks -> {"none", "pending", "arriving", "resolved"}]
        /\ UNCHANGED <<halted, pid, handlers, serve, spent>>
    BY <1>1, <1>9, <1>2 DEF Report, DriverRecord
  <2> HIDE DEF r
  <2> QED
    BY <1>2, <2>1, <2>2, <2>3, DriverMoves
<1>10. CASE RemoveHost(d)
  <2> DEFINE r == [drivers[d] EXCEPT !.at = "gone"]
  <2>1. drivers' = [drivers EXCEPT ![d] = r]
    BY <1>1, <1>10 DEF RemoveHost, DriverRecord, Move
  <2>2. r \in DriverRecord /\ r.at \in {"gone"} /\ r.home = drivers[d].home
        /\ r.beats = drivers[d].beats
    BY <1>1 DEF DriverRecord, Places, Verdicts
  <2>3. /\ drivers[d].at = "reported"
        /\ phase' \in Active \cup {"none"} \cup Verdicts /\ hosts' \in {0} \cup Drivers
        /\ asks' \in [Asks -> {"none", "pending", "arriving", "resolved"}]
        /\ UNCHANGED <<halted, pid, handlers, serve, spent>>
    BY <1>1, <1>10 DEF RemoveHost
  <2> HIDE DEF r
  <2> QED
    BY <1>2, <2>1, <2>2, <2>3, DriverMoves
<1>11. CASE Escapes(d)
  <2> DEFINE r == [drivers[d] EXCEPT !.at = "stopping", !.report = "error"]
  <2>1. drivers' = [drivers EXCEPT ![d] = r]
    BY <1>1, <1>11 DEF Escapes, DriverRecord
  <2>2. r \in DriverRecord /\ r.at \in {"stopping"} /\ r.home = drivers[d].home
        /\ r.beats = drivers[d].beats
        /\ r.report = "error"
    BY <1>1 DEF DriverRecord, Places, Verdicts
  <2>3. /\ drivers[d].at \in {"boundary", "working"}
        /\ phase' \in Active \cup {"none"} \cup Verdicts /\ hosts' \in {0} \cup Drivers
        /\ asks' \in [Asks -> {"none", "pending", "arriving", "resolved"}]
        /\ UNCHANGED <<halted, pid, handlers, serve, spent>>
    BY <1>1, <1>11 DEF Escapes
  <2> HIDE DEF r
  <2> QED
    BY <1>2, <2>1, <2>2, <2>3, DriverMoves
<1>12. CASE AskOperator(d)
  <2>0. PICK a \in Asks :
            /\ asks' = IF a \in Pending THEN asks ELSE [asks EXCEPT ![a] = "pending"]
            /\ drivers' = [drivers EXCEPT ![d].at = "asked", ![d].ask = a]
    BY <1>12 DEF AskOperator
  <2> DEFINE r == [drivers[d] EXCEPT !.at = "asked", !.ask = a]
  <2>1. drivers' = [drivers EXCEPT ![d] = r]
    BY <1>1, <2>0 DEF DriverRecord
  <2>2. r \in DriverRecord /\ r.at \in {"asked"} /\ r.home = drivers[d].home
        /\ r.beats = drivers[d].beats
    BY <1>1 DEF DriverRecord, Places, Verdicts
  <2>3. /\ drivers[d].at = "working"
        /\ phase' \in Active \cup {"none"} \cup Verdicts /\ hosts' \in {0} \cup Drivers
        /\ asks' \in [Asks -> {"none", "pending", "arriving", "resolved"}]
        /\ UNCHANGED <<halted, pid, handlers, serve, spent>>
    BY <1>1, <1>12, <2>0 DEF AskOperator
  <2> HIDE DEF r
  <2> QED
    BY <1>2, <2>1, <2>2, <2>3, DriverMoves
<1> QED
  BY <1>3, <1>4, <1>5, <1>6, <1>7, <1>8, <1>9, <1>10, <1>11, <1>12 DEF DriverSteps

\* A driver comes into being, at the next free place.
LEMMA DriverBorn ==
    ASSUME HostingAssumption, HostingInv, NextDriver \in Drivers,
           NEW home \in Nat, NEW ident \in {0} \cup Handlers, NEW at \in {"built", "started"},
           pid' = [of |-> NextDriver, home |-> home, ident |-> ident, age |-> 0],
           drivers' = [drivers EXCEPT ![NextDriver] =
                            [[Unborn EXCEPT !.home = home] EXCEPT !.at = at]],
           halted' = FALSE, UNCHANGED <<phase, asks, hosts, serve, spent>>
    PROVE  /\ NextDriver \in Drivers /\ drivers[NextDriver].at = "unborn"
           /\ drivers' \in [Drivers -> DriverRecord]
           /\ drivers'[NextDriver].at = at /\ drivers'[NextDriver].home = home
           /\ \A d \in Drivers \ {NextDriver} : drivers'[d] = drivers[d]
           /\ (handlers' \in [Handlers -> [at : {"away", "allowed", "built", "registered"},
                                  driver : {0} \cup Drivers]] => Typed')
           /\ BornInOrder' /\ BeatsInRun' /\ ReportsAnEnd'
           /\ RecordNamesTheHome' /\ ServeIsNoCommandLine' /\ FreshWhileDriven'
<1> USE HostingAssumption DEF HostingInv, HostingAssumption
<1> DEFINE n == NextDriver
           r == [[Unborn EXCEPT !.home = home] EXCEPT !.at = at]
<1>1. PICK k \in 0..MaxDrivers :
          /\ k = n - 1
          /\ \A d \in Drivers : drivers[d].at = "unborn" <=> k < d
  BY NextIsUnborn
<1>2. n \in Drivers /\ drivers[n].at = "unborn"
  BY NextIsUnborn
<1>3. r \in DriverRecord /\ r.at = at /\ r.home = home /\ r.beats = FALSE
  BY DEF Unborn, DriverRecord, Places
<1>4. drivers' = [drivers EXCEPT ![n] = r]
  OBVIOUS
<1> HIDE DEF r, n
<1>5. drivers' \in [Drivers -> DriverRecord] /\ drivers'[n] = r
      /\ \A d \in Drivers \ {n} : drivers'[d] = drivers[d]
  BY <1>2, <1>3, <1>4 DEF Typed
<1>6. BornInOrder'
  <2>1. n \in Nat /\ k + 1 \in 0..MaxDrivers
    BY <1>1, <1>2 DEF Drivers
  <2>2. \A d \in Drivers : drivers'[d].at = "unborn" <=> k + 1 < d
    BY <1>1, <1>2, <1>3, <1>5, <2>1 DEF Drivers
  <2> QED
    BY <2>1, <2>2 DEF BornInOrder
<1>7. BeatsInRun' /\ ReportsAnEnd'
  BY <1>3, <1>5 DEF BeatsInRun, ReportsAnEnd, InRun
<1>8. RecordNamesTheHome' /\ ServeIsNoCommandLine'
  BY <1>3, <1>5 DEF RecordNamesTheHome, ServeIsNoCommandLine, n
<1>9. FreshWhileDriven'
  BY DEF FreshWhileDriven
<1>10. pid' \in [of : 0..MaxDrivers, home : Nat, ident : {0} \cup Handlers, age : 0..Stale]
  BY <1>2 DEF n, Drivers
<1>11. handlers' \in [Handlers -> [at : {"away", "allowed", "built", "registered"},
                                  driver : {0} \cup Drivers]] => Typed'
  BY <1>5, <1>10 DEF Typed
<1> QED
  BY <1>2, <1>3, <1>5, <1>6, <1>7, <1>8, <1>9, <1>11 DEF n

\* Some drivers die, and whatever they did ends with them.
LEMMA DriversDie ==
    ASSUME HostingAssumption, HostingInv, NEW D, Dies(D), UNCHANGED pid
    PROVE  /\ drivers' \in [Drivers -> DriverRecord]
           /\ \A d \in Drivers : /\ drivers'[d].home = drivers[d].home
                                 /\ d \notin D => drivers'[d] = drivers[d]
           /\ BornInOrder' /\ BeatsInRun' /\ ReportsAnEnd'
           /\ RecordNamesTheHome' /\ FreshWhileDriven'
<1> USE HostingAssumption DEF HostingInv
<1> DEFINE late(d) == [drivers[d] EXCEPT !.at = "dead", !.beats = FALSE]
<1>1. \A d \in Drivers : late(d) \in DriverRecord /\ late(d).at = "dead" /\ ~late(d).beats
                           /\ late(d).home = drivers[d].home
  <2> SUFFICES ASSUME NEW d \in Drivers
               PROVE  late(d) \in DriverRecord /\ late(d).at = "dead" /\ ~late(d).beats
                      /\ late(d).home = drivers[d].home
    OBVIOUS
  <2>1. drivers[d] \in DriverRecord
    BY DEF Typed
  <2> QED
    BY <2>1 DEF DriverRecord, Places
<1>2. \A d \in Drivers : drivers'[d] = IF d \in D /\ Alive(d) THEN late(d) ELSE drivers[d]
  BY DEF Dies
<1> HIDE DEF late
<1>3. drivers' \in [Drivers -> DriverRecord]
  <2>1. drivers' = [d \in Drivers |-> drivers'[d]]
    BY DEF Dies
  <2>2. \A d \in Drivers : drivers'[d] \in DriverRecord
    BY <1>1, <1>2 DEF Typed
  <2> QED
    BY <2>1, <2>2
<1>4. BornInOrder'
  <2>1. PICK k \in 0..MaxDrivers : \A d \in Drivers : drivers[d].at = "unborn" <=> k < d
    BY DEF BornInOrder
  <2>2. \A d \in Drivers : drivers'[d].at = "unborn" <=> k < d
    BY <1>1, <1>2, <2>1 DEF Alive
  <2> QED
    BY <2>2 DEF BornInOrder
<1>5. BeatsInRun' /\ ReportsAnEnd'
  BY <1>1, <1>2 DEF BeatsInRun, ReportsAnEnd, InRun
<1>6. RecordNamesTheHome'
  <2>1. pid.of # 0 => pid.of \in Drivers
    BY DEF Typed, Drivers, HostingAssumption
  <2> QED
    BY <1>1, <1>2, <2>1 DEF RecordNamesTheHome
<1>7. FreshWhileDriven'
  <2> SUFFICES ASSUME NEW e \in Drivers, Beats(e)' \/ drivers'[e].at \in {"built", "started"}
               PROVE  pid.age < Stale
    BY DEF FreshWhileDriven
  <2>1. Beats(e) \/ drivers[e].at \in {"built", "started"}
    BY <1>1, <1>2 DEF Beats, Alive
  <2> QED
    BY <2>1 DEF FreshWhileDriven
<1> QED
  BY <1>1, <1>2, <1>3, <1>4, <1>5, <1>6, <1>7

LEMMA HostingHandles ==
    ASSUME HostingAssumption, HostingInv, NEW h \in Handlers, Admit(h) \/ StartSteps(h)
    PROVE  HostingInv'
<1> USE HostingAssumption DEF HostingInv
<1> DEFINE HandlerRecord == [at : {"away", "allowed", "built", "registered"},
                             driver : {0} \cup Drivers]
<1>1. /\ handlers \in [Handlers -> HandlerRecord] /\ handlers[h] \in HandlerRecord
      /\ drivers \in [Drivers -> DriverRecord]
  BY DEF Typed
<1>2. CASE Admit(h)
  <2>1. handlers' = [handlers EXCEPT ![h].at = "allowed"]
        /\ UNCHANGED <<phase, halted, pid, asks, drivers, hosts, serve, spent>>
    BY <1>2 DEF Admit
  <2>2. handlers' \in [Handlers -> HandlerRecord] /\ handlers'[h].at = "allowed"
        /\ \A g \in Handlers \ {h} : handlers'[g] = handlers[g]
    BY <1>1, <2>1
  <2>3. HeldByHandler'
    BY <2>1, <2>2 DEF HeldByHandler, Holds
  <2> QED
    BY <2>1, <2>2, <2>3 DEF Typed, BornInOrder, BeatsInRun, InRun, ReportsAnEnd,
       RecordNamesTheHome, ServeIsNoCommandLine, FreshWhileDriven, Beats, Alive
<1>3. CASE Build(h)
  <2> DEFINE n == NextDriver
  <2>1. /\ handlers[h].at = "allowed" /\ NextDriver \in Drivers /\ halted' = FALSE
        /\ pid' = [of |-> n, home |-> serve, ident |-> h, age |-> 0]
        /\ drivers' = [drivers EXCEPT ![n] =
                            [[Unborn EXCEPT !.home = serve] EXCEPT !.at = "built"]]
        /\ handlers' = [handlers EXCEPT ![h] = [at |-> "built", driver |-> n]]
        /\ UNCHANGED <<phase, asks, hosts, serve, spent>>
    BY <1>3 DEF Build, Construct, Unborn
  <2>2. serve \in Nat
    BY DEF Typed
  <2>3. /\ n \in Drivers /\ drivers[n].at = "unborn"
        /\ drivers'[n].at = "built" /\ drivers'[n].home = serve
        /\ \A d \in Drivers \ {n} : drivers'[d] = drivers[d]
        /\ (handlers' \in [Handlers -> HandlerRecord] => Typed')
        /\ BornInOrder' /\ BeatsInRun' /\ ReportsAnEnd'
        /\ RecordNamesTheHome' /\ ServeIsNoCommandLine' /\ FreshWhileDriven'
    BY <2>1, <2>2, DriverBorn
  <2> HIDE DEF n
  <2>4. handlers' \in [Handlers -> HandlerRecord]
        /\ handlers'[h] = [at |-> "built", driver |-> n]
        /\ \A g \in Handlers \ {h} : handlers'[g] = handlers[g]
    BY <1>1, <2>1, <2>3
  <2>5. HeldByHandler'
    <3>1. ASSUME NEW g \in Handlers \ {h}, Holds(g)'
          PROVE  /\ Holds(g) /\ handlers'[g].driver = handlers[g].driver
                 /\ handlers[g].driver \in Drivers \ {n}
                 /\ drivers'[handlers[g].driver].at = "built"
                 /\ drivers'[handlers[g].driver].home = serve
      BY <2>3, <2>4, <3>1 DEF HeldByHandler, Holds
    <3>2. \A g, f \in Handlers \ {h} : Holds(g) /\ Holds(f) /\ g # f =>
              handlers[f].driver # handlers[g].driver
      BY DEF HeldByHandler
    <3>3. handlers'[h].driver = n /\ serve' = serve
      BY <2>1, <2>4
    <3> SUFFICES ASSUME NEW g \in Handlers, Holds(g)'
                 PROVE  /\ handlers'[g].driver \in Drivers
                        /\ drivers'[handlers'[g].driver].at = "built"
                        /\ drivers'[handlers'[g].driver].home = serve
                        /\ \A f \in Handlers \ {g} :
                             Holds(f)' => handlers'[f].driver # handlers'[g].driver
      BY <3>3 DEF HeldByHandler
    <3>4. CASE g = h
      BY <2>3, <3>1, <3>3, <3>4
    <3>5. CASE g # h
      BY <3>1, <3>2, <3>3, <3>5
    <3> QED
      BY <3>4, <3>5
  <2> QED
    BY <2>3, <2>4, <2>5
<1>4. CASE Register(h)
  <2>1. /\ Holds(h) /\ hosts' = handlers[h].driver
        /\ handlers' = [handlers EXCEPT ![h].at = "registered"]
        /\ UNCHANGED <<phase, halted, pid, asks, drivers, serve, spent>>
    BY <1>4 DEF Register, Holds
  <2>2. handlers' \in [Handlers -> HandlerRecord] /\ handlers'[h].at = "registered"
        /\ handlers'[h].driver = handlers[h].driver
        /\ \A g \in Handlers \ {h} : handlers'[g] = handlers[g]
    BY <1>1, <2>1
  <2>3. HeldByHandler' /\ hosts' \in {0} \cup Drivers
    <3>1. \A g \in Handlers : (Holds(g)' => Holds(g)) /\ handlers'[g].driver = handlers[g].driver
      BY <2>1, <2>2 DEF Holds
    <3> QED
      BY <2>1, <3>1 DEF HeldByHandler
  <2> QED
    BY <2>1, <2>2, <2>3 DEF Typed, BornInOrder, BeatsInRun, InRun, ReportsAnEnd,
       RecordNamesTheHome, ServeIsNoCommandLine, FreshWhileDriven, Beats, Alive
<1>5. CASE Launch(h)
  <2> DEFINE b == handlers[h].driver
             r == [drivers[b] EXCEPT !.at = "started"]
  <2>1. /\ Holds(h) /\ drivers' = [drivers EXCEPT ![b].at = "started"]
        /\ handlers' = [handlers EXCEPT ![h] = Away]
        /\ UNCHANGED <<phase, halted, pid, asks, hosts, serve, spent>>
    BY <1>5 DEF Launch, Move, Holds
  <2>2. b \in Drivers /\ drivers[b].at = "built" /\ drivers[b].home = serve
        /\ \A g \in Handlers \ {h} : Holds(g) => handlers[g].driver # b
    BY <2>1 DEF HeldByHandler
  <2>3. drivers[b] \in DriverRecord /\ ~drivers[b].beats
    BY <1>1, <2>2 DEF BeatsInRun, InRun, DriverRecord
  <2>4. r \in DriverRecord /\ r.at = "started" /\ ~r.beats /\ r.home = serve
    BY <2>2, <2>3 DEF DriverRecord, Places
  <2>5. drivers' = [drivers EXCEPT ![b] = r]
    BY <1>1, <2>1, <2>2 DEF DriverRecord
  <2> HIDE DEF b, r
  <2>6. drivers' \in [Drivers -> DriverRecord] /\ drivers'[b] = r
        /\ \A d \in Drivers \ {b} : drivers'[d] = drivers[d]
    BY <1>1, <2>2, <2>4, <2>5
  <2>7. handlers' \in [Handlers -> HandlerRecord] /\ handlers'[h].at = "away"
        /\ \A g \in Handlers \ {h} : handlers'[g] = handlers[g]
    BY <1>1, <2>1 DEF Away
  <2>8. HeldByHandler'
    <3>1. \A g \in Handlers : Holds(g)' =>
              /\ g # h /\ Holds(g) /\ handlers'[g].driver = handlers[g].driver
              /\ handlers[g].driver # b
      BY <2>2, <2>7 DEF Holds
    <3> QED
      BY <2>1, <2>6, <3>1 DEF HeldByHandler
  <2>9. BornInOrder'
    <3>1. PICK k \in 0..MaxDrivers : \A d \in Drivers : drivers[d].at = "unborn" <=> k < d
      BY DEF BornInOrder
    <3>2. \A d \in Drivers : drivers'[d].at = "unborn" <=> k < d
      BY <2>2, <2>4, <2>6, <3>1
    <3> QED
      BY <3>2 DEF BornInOrder
  <2>10. BeatsInRun' /\ ReportsAnEnd' /\ ServeIsNoCommandLine'
    BY <2>1, <2>4, <2>6 DEF BeatsInRun, InRun, ReportsAnEnd, ServeIsNoCommandLine
  <2>11. RecordNamesTheHome'
    <3>1. pid.of # 0 => pid.of \in Drivers
      BY DEF Typed, Drivers, HostingAssumption
    <3> QED
      BY <2>1, <2>2, <2>4, <2>6, <3>1 DEF RecordNamesTheHome
  <2>12. FreshWhileDriven'
    <3> SUFFICES ASSUME NEW e \in Drivers, Beats(e)' \/ drivers'[e].at \in {"built", "started"}
                 PROVE  pid.age < Stale
      BY <2>1 DEF FreshWhileDriven
    <3>1. Beats(e) \/ drivers[e].at \in {"built", "started"}
      BY <2>2, <2>4, <2>6 DEF Beats, Alive
    <3> QED
      BY <3>1 DEF FreshWhileDriven
  <2>13. Typed'
    BY <2>1, <2>6, <2>7 DEF Typed
  <2> QED
    BY <2>8, <2>9, <2>10, <2>11, <2>12, <2>13
<1> QED
  BY <1>2, <1>3, <1>4, <1>5 DEF StartSteps

\* Steps that leave the drivers and the handlers as they are.
LEMMA HostingWaits ==
    ASSUME HostingAssumption, HostingInv,
           Prune \/ Tick \/ SetHalt \/ (\E d \in Drivers : Beat(d)) \/ (\E a \in Asks : Answer(a))
    PROVE  HostingInv'
<1> USE HostingAssumption DEF HostingInv, HostingAssumption
<1>1. /\ pid \in [of : 0..MaxDrivers, home : Nat, ident : {0} \cup Handlers, age : 0..Stale]
      /\ asks \in [Asks -> {"none", "pending", "arriving", "resolved"}]
      /\ halted \in BOOLEAN /\ spent \in [halts : Nat, deaths : Nat]
  BY DEF Typed
<1>2. /\ UNCHANGED <<phase, drivers, handlers, serve>>
      /\ hosts' \in {0, hosts} /\ halted' \in BOOLEAN
      /\ asks' \in [Asks -> {"none", "pending", "arriving", "resolved"}]
      /\ spent' \in [halts : Nat, deaths : Nat]
      /\ pid' \in [of : 0..MaxDrivers, home : Nat, ident : {0} \cup Handlers, age : 0..Stale]
      /\ pid'.of = pid.of /\ pid'.home = pid.home
      /\ FreshWhileDriven'
  <2>1. CASE Prune
    BY <1>1, <2>1 DEF Prune, FreshWhileDriven, Beats, Alive
  <2>2. CASE Tick
    <3>1. pid' = [pid EXCEPT !.age = @ + 1] /\ pid.age < Stale
          /\ UNCHANGED <<phase, halted, asks, drivers, hosts, handlers, serve, spent>>
      BY <2>2 DEF Tick
    <3>2. pid' \in [of : 0..MaxDrivers, home : Nat, ident : {0} \cup Handlers, age : 0..Stale]
          /\ pid'.of = pid.of /\ pid'.home = pid.home /\ pid'.age = pid.age + 1
      BY <1>1, <3>1
    <3>3. FreshWhileDriven'
      BY <2>2, <3>1, <3>2 DEF Tick, FreshWhileDriven, Beats, Alive
    <3> QED
      BY <1>1, <3>1, <3>2, <3>3
  <2>3. CASE SetHalt
    BY <1>1, <2>3 DEF SetHalt, FreshWhileDriven, Beats, Alive
  <2>4. CASE \E d \in Drivers : Beat(d)
    BY <1>1, <2>4 DEF Beat, FreshWhileDriven, Alive
  <2>5. ASSUME NEW a \in Asks, Answer(a)
        PROVE  /\ UNCHANGED <<phase, drivers, handlers, serve, halted, hosts, spent, pid>>
               /\ asks' \in [Asks -> {"none", "pending", "arriving", "resolved"}]
               /\ FreshWhileDriven'
    BY <1>1, <2>5 DEF Answer, FreshWhileDriven, Beats, Alive
  <2> QED
    BY <1>1, <2>1, <2>2, <2>3, <2>4, <2>5
<1>3. Typed'
  BY <1>2 DEF Typed
<1>4. BornInOrder' /\ BeatsInRun' /\ ReportsAnEnd' /\ ServeIsNoCommandLine'
  BY <1>2 DEF BornInOrder, BeatsInRun, InRun, ReportsAnEnd, ServeIsNoCommandLine
<1>5. HeldByHandler' /\ RecordNamesTheHome'
  BY <1>2 DEF HeldByHandler, Holds, RecordNamesTheHome
<1> QED
  BY <1>2, <1>3, <1>4, <1>5

\* A command line starts, a process dies, the operator kills the run.
LEMMA HostingProcesses ==
    ASSUME HostingAssumption, HostingInv,
           CliStart \/ KillRun \/ ServeDies \/ \E d \in Drivers : CliDies(d)
    PROVE  HostingInv'
<1> USE HostingAssumption DEF HostingInv
<1> DEFINE HandlerRecord == [at : {"away", "allowed", "built", "registered"},
                             driver : {0} \cup Drivers]
<1>1. /\ handlers \in [Handlers -> HandlerRecord] /\ serve \in Nat
      /\ spent \in [halts : Nat, deaths : Nat]
      /\ pid \in [of : 0..MaxDrivers, home : Nat, ident : {0} \cup Handlers, age : 0..Stale]
  BY DEF Typed
<1>2. \A h \in Handlers : Holds(h) =>
          /\ handlers[h].driver \in Drivers
          /\ drivers[handlers[h].driver].at = "built"
          /\ drivers[handlers[h].driver].home # CommandLine
          /\ drivers[handlers[h].driver].home = serve
          /\ \A g \in Handlers \ {h} : Holds(g) => handlers[g].driver # handlers[h].driver
  BY DEF HeldByHandler, ServeIsNoCommandLine
<1>3. CASE CliStart
  <2> DEFINE n == NextDriver
  <2>1. /\ NextDriver \in Drivers /\ halted' = FALSE
        /\ pid' = [of |-> n, home |-> CommandLine, ident |-> 0, age |-> 0]
        /\ drivers' = [drivers EXCEPT ![n] =
                    [[Unborn EXCEPT !.home = CommandLine] EXCEPT !.at = "started"]]
        /\ UNCHANGED <<phase, asks, hosts, handlers, serve, spent>>
    BY <1>3 DEF CliStart, Unborn
  <2>2. CommandLine \in Nat
    BY DEF CommandLine
  <2>3. /\ n \in Drivers /\ drivers[n].at = "unborn"
        /\ \A d \in Drivers \ {n} : drivers'[d] = drivers[d]
        /\ (handlers' \in [Handlers -> HandlerRecord] => Typed')
        /\ BornInOrder' /\ BeatsInRun' /\ ReportsAnEnd'
        /\ RecordNamesTheHome' /\ ServeIsNoCommandLine' /\ FreshWhileDriven'
    BY <2>1, <2>2, DriverBorn
  <2> HIDE DEF n
  <2>4. HeldByHandler'
    <3>1. \A h \in Handlers : Holds(h) => handlers[h].driver \in Drivers \ {n}
      BY <1>2, <2>3
    <3>2. \A h \in Handlers : Holds(h)' = Holds(h) /\ handlers'[h] = handlers[h]
      BY <2>1 DEF Holds
    <3>3. serve' = serve
      BY <2>1
    <3> QED
      BY <1>2, <2>3, <3>1, <3>2, <3>3 DEF HeldByHandler
  <2> QED
    BY <1>1, <2>1, <2>3, <2>4
<1>4. ASSUME NEW D, Dies(D), UNCHANGED <<pid, phase, asks, handlers, serve>>,
             \A d \in Drivers : d \in D => drivers[d].home = CommandLine,
             halted' \in BOOLEAN, hosts' \in {0} \cup Drivers,
             spent' \in [halts : Nat, deaths : Nat]
      PROVE  HostingInv'
  <2>1. /\ drivers' \in [Drivers -> DriverRecord]
        /\ \A d \in Drivers : d \notin D => drivers'[d] = drivers[d]
        /\ BornInOrder' /\ BeatsInRun' /\ ReportsAnEnd'
        /\ RecordNamesTheHome' /\ FreshWhileDriven'
    BY <1>4, DriversDie
  <2>2. HeldByHandler'
    <3>1. \A h \in Handlers : Holds(h) => handlers[h].driver \notin D
      BY <1>2, <1>4
    <3>2. \A h \in Handlers : Holds(h)' = Holds(h) /\ handlers'[h] = handlers[h]
      BY <1>4 DEF Holds
    <3>3. serve' = serve
      BY <1>4
    <3> QED
      BY <1>2, <2>1, <3>1, <3>2, <3>3 DEF HeldByHandler
  <2>3. Typed' /\ ServeIsNoCommandLine'
    BY <1>4, <2>1 DEF Typed, ServeIsNoCommandLine
  <2> QED
    BY <2>1, <2>2, <2>3
<1>5. CASE KillRun
  <2> DEFINE D == IF pid.home = CommandLine THEN {pid.of} ELSE {}
  <2>1. Dies(D) /\ UNCHANGED <<pid, phase, asks, handlers, serve>>
        /\ halted' \in BOOLEAN /\ hosts' \in {0} \cup Drivers
        /\ spent' \in [halts : Nat, deaths : Nat]
    BY <1>1, <1>5 DEF KillRun
  <2>2. \A d \in Drivers : d \in D => drivers[d].home = CommandLine
    BY HostingAssumption DEF RecordNamesTheHome, Drivers
  <2> HIDE DEF D
  <2> QED
    BY <1>4, <2>1, <2>2
<1>6. ASSUME NEW d \in Drivers, CliDies(d)
      PROVE  HostingInv'
  <2>1. Dies({d}) /\ UNCHANGED <<pid, phase, asks, handlers, serve, halted, hosts>>
        /\ drivers[d].home = CommandLine
        /\ spent' \in [halts : Nat, deaths : Nat]
    BY <1>1, <1>6 DEF CliDies
  <2>2. halted' \in BOOLEAN /\ hosts' \in {0} \cup Drivers
    BY <2>1 DEF Typed
  <2> QED
    BY <1>4, <2>1, <2>2
<1>7. CASE ServeDies
  <2> DEFINE D == {d \in Drivers : drivers[d].home = serve}
  <2>1. /\ Dies(D) /\ hosts' = 0 /\ handlers' = [h \in Handlers |-> Away]
        /\ serve' = serve + 1 /\ UNCHANGED <<phase, halted, pid, asks>>
        /\ spent' \in [halts : Nat, deaths : Nat]
    BY <1>1, <1>7 DEF ServeDies
  <2> HIDE DEF D
  <2>2. /\ drivers' \in [Drivers -> DriverRecord]
        /\ BornInOrder' /\ BeatsInRun' /\ ReportsAnEnd'
        /\ RecordNamesTheHome' /\ FreshWhileDriven'
    BY <2>1, DriversDie
  <2>3. handlers' \in [Handlers -> HandlerRecord] /\ \A h \in Handlers : ~Holds(h)'
    BY <2>1 DEF Away, Holds
  <2>4. HeldByHandler' /\ Typed' /\ ServeIsNoCommandLine'
    BY <1>1, <2>1, <2>2, <2>3 DEF HeldByHandler, Typed, ServeIsNoCommandLine, CommandLine
  <2> QED
    BY <2>2, <2>4
<1> QED
  BY <1>3, <1>5, <1>6, <1>7

LEMMA HostingInductive ==
    ASSUME HostingAssumption, HostingInv, [Next]_vars PROVE HostingInv'
<1>1. CASE UNCHANGED vars
  <2>1. /\ Typed' /\ BornInOrder' /\ BeatsInRun' /\ ReportsAnEnd'
    BY <1>1 DEF HostingInv, vars, Typed, BornInOrder, BeatsInRun, InRun, ReportsAnEnd
  <2>2. HeldByHandler' /\ RecordNamesTheHome' /\ ServeIsNoCommandLine' /\ FreshWhileDriven'
    BY <1>1 DEF HostingInv, vars, HeldByHandler, Holds, RecordNamesTheHome,
       ServeIsNoCommandLine, FreshWhileDriven, Beats, Alive
  <2> QED
    BY <2>1, <2>2 DEF HostingInv
<1>2. CASE Next
  BY <1>2, HostingHandles, HostingDrives, HostingWaits, HostingProcesses DEF Next
<1> QED
  BY <1>1, <1>2

\* What the run checks follows from the invariant.
LEMMA HostingIsSound ==
    ASSUME HostingAssumption, HostingInv PROVE TypeOK /\ NoFalseAlarm
<1> USE DEF HostingInv
<1>1. TypeOK
  <2>1. \A d \in Drivers : drivers[d] \in DriverRecord
    BY DEF Typed
  <2>2. \A h \in Handlers : handlers[h].driver \in {0} \cup Drivers
    BY DEF Typed
  <2>3. phase \in Active \cup {"none", "done", "error", "halted"}
    BY DEF Typed, Verdicts
  <2>4. \A d \in Drivers :
         /\ drivers[d].at \in Places /\ drivers[d].ask \in {0} \cup Asks
         /\ drivers[d].at = "returned" => drivers[d].report # "none"
         /\ drivers[d].beats => InRun(d) \/ drivers[d].at = "stopping"
    BY <2>1 DEF DriverRecord, ReportsAnEnd, BeatsInRun
  <2> QED
    BY <2>2, <2>3, <2>4 DEF Typed, TypeOK, Places
<1>2. NoFalseAlarm
  <2> SUFFICES ASSUME phase = "in_progress", NEW d \in Drivers, drivers[d].at = "working"
               PROVE  ~Stalled
    BY DEF NoFalseAlarm
  <2>1. Beats(d)
    BY DEF Beats, Alive, BeatsInRun, InRun
  <2>2. pid.age < Stale /\ pid.age \in Nat /\ Stale \in Nat
    BY <2>1, HostingAssumption DEF FreshWhileDriven, Typed, HostingAssumption
  <2> QED
    BY <2>2 DEF Stalled
<1> QED
  BY <1>1, <1>2

\* Only the probe lets a start through, and it sees the heartbeat of whoever is in run().
LEMMA StartsAreRefused ==
    ASSUME HostingAssumption, HostingInv, [Next]_vars,
           NEW h \in Handlers, handlers[h].at = "away", handlers'[h].at = "allowed"
    PROVE  ~(phase \in Active /\ pid.of # 0 /\ pid.home # serve /\ InRun(pid.of))
<1> USE HostingAssumption DEF HostingInv
<1>1. Admit(h)
  <2>1. handlers \in [Handlers -> [at : {"away", "allowed", "built", "registered"},
                                   driver : {0} \cup Drivers]]
    BY DEF Typed
  <2>2. handlers' # handlers
    OBVIOUS
  <2>3. ASSUME NEW g \in Handlers, Admit(g) \/ StartSteps(g) PROVE Admit(h)
    BY <2>1, <2>3 DEF Admit, StartSteps, Build, Register, Launch, Away
  <2>4. ASSUME \/ CliStart \/ Prune \/ Tick \/ SetHalt \/ KillRun
               \/ \E a \in Asks : Answer(a)
        PROVE  FALSE
    BY <2>2, <2>4 DEF CliStart, Prune, Tick, SetHalt, KillRun, Answer
  <2>5. ASSUME ServeDies PROVE FALSE
    BY <2>5 DEF ServeDies, Away
  <2>6. ASSUME NEW d \in Drivers,
               DriverSteps(d) \/ Escapes(d) \/ AskOperator(d) \/ Beat(d) \/ CliDies(d)
        PROVE  FALSE
    BY <2>2, <2>6 DEF DriverSteps, EnterRun, Boundary, PhaseDone, Wait, Poll, LeaveRun, Report,
       RemoveHost, Escapes, AskOperator, Beat, CliDies
  <2> QED
    BY <2>2, <2>3, <2>4, <2>5, <2>6 DEF Next, vars
<1> SUFFICES ASSUME phase \in Active, pid.of # 0, pid.home # serve, InRun(pid.of)
             PROVE  FALSE
  OBVIOUS
<1>2. pid.of \in Drivers /\ pid.age \in Nat
  BY DEF Typed, Drivers, HostingAssumption
<1>3. pid.age < Stale
  BY <1>2 DEF FreshWhileDriven, Beats, Alive, BeatsInRun, InRun
<1>4. OtherDriver = {TRUE}
  BY <1>3 DEF OtherDriver
<1> QED
  BY <1>1, <1>4 DEF Admit

-----------------------------------------------------------------------------
(* Jobs: the invariant holds.                                              *)

ApprovalRecord == [kind : {"none", "amend", "reopen", "triage"},
                   status : {"none", "pending", "resolved"}]
TabRecord == [at : {"away", "read", "resolved", "listed"}, job : {0} \cup Approvals]
ThreadRecord == [job : {0} \cup Approvals,
                 at : {"none", "started", "working", "returned", "failing", "popping", "over"},
                 cancelled : BOOLEAN, raised : BOOLEAN]
Lines == {"none", "running", "done", "failed", "cancelled"}

LEMMA JobsInit ==
    ASSUME J!JobsAssumption, J!Init PROVE JobsInv
<1> USE DEF J!JobsAssumption, J!Init, J!NewTab, J!Nobody
<1>1. JobsTyped
  <2>1. approvals \in [Approvals -> ApprovalRecord]
    BY DEF ApprovalRecord
  <2>2. tabs \in [Tabs -> TabRecord]
    BY DEF TabRecord
  <2>3. workers \in [Workers -> ThreadRecord]
    BY DEF ThreadRecord
  <2> QED
    BY <2>1, <2>2, <2>3 DEF JobsTyped, ApprovalRecord, TabRecord, ThreadRecord
<1> QED
  BY <1>1 DEF JobsInv, TabsHoldApprovals, ThreadsHaveJobs, EventsAreTheJobs, CancelsAreListed, LastWord

\* A new approval takes the place of none, and nobody holds it yet.
LEMMA CreatedKeepsOthers ==
    ASSUME J!JobsAssumption, JobsInv, NEW kind \in {"amend", "reopen", "triage"},
           J!Created(kind)
    PROVE  /\ approvals' \in [Approvals -> ApprovalRecord]
           /\ \A a \in Approvals : approvals[a].status # "none" => approvals'[a] = approvals[a]
<1>1. PICK a \in Approvals :
          /\ approvals[a].status = "none"
          /\ approvals' = [approvals EXCEPT ![a] = [kind |-> kind, status |-> "pending"]]
  BY DEF J!Created
<1>2. approvals \in [Approvals -> ApprovalRecord]
  BY DEF JobsInv, JobsTyped, ApprovalRecord
<1>3. [kind |-> kind, status |-> "pending"] \in ApprovalRecord
  BY DEF ApprovalRecord
<1> QED
  BY <1>1, <1>2, <1>3

\* The approvals change, and what was asked or resolved stays so.
LEMMA ApprovalsMove ==
    ASSUME JobsInv,
           approvals' \in [Approvals -> ApprovalRecord],
           \A a \in Approvals :
               /\ approvals[a].status # "none" => approvals'[a].status # "none"
               /\ approvals[a].status = "resolved" => approvals'[a].status = "resolved",
           UNCHANGED <<tabs, line, events, workers, cancels>>
    PROVE  JobsInv'
<1>1. JobsTyped'
  BY DEF JobsInv, JobsTyped, ApprovalRecord
<1>2. TabsHoldApprovals'
  BY DEF JobsInv, TabsHoldApprovals
<1>3. ThreadsHaveJobs'
  BY DEF JobsInv, ThreadsHaveJobs
<1>4. EventsAreTheJobs' /\ LastWord'
  BY DEF JobsInv, EventsAreTheJobs, LastWord, OnlyThread
<1>5. CancelsAreListed'
  BY DEF JobsInv, JobsTyped, CancelsAreListed
<1> QED
  BY <1>1, <1>2, <1>3, <1>4, <1>5 DEF JobsInv

\* A tab reads, resolves, lists and spawns.
LEMMA TabsDispatch ==
    ASSUME J!JobsAssumption, JobsInv, NEW t \in Tabs,
           J!Dispatches(t) \/ \E a \in Approvals : J!Read(t, a)
    PROVE  JobsInv'
<1> USE DEF JobsInv
<1>1. /\ approvals \in [Approvals -> ApprovalRecord]
      /\ tabs \in [Tabs -> TabRecord] /\ line \in [Approvals -> Lines]
      /\ events \in [Approvals -> {0} \cup Workers]
      /\ workers \in [Workers -> ThreadRecord]
      /\ cancels \in [job : {0} \cup Approvals, made : 0..MaxCancels]
      /\ 0 \notin Approvals /\ 0 \notin Workers
  BY DEF JobsTyped, ApprovalRecord, TabRecord, ThreadRecord, Lines, J!JobsAssumption
<1>2. /\ tabs[t] \in TabRecord
      /\ tabs[t].at # "away" =>
           tabs[t].job \in Approvals /\ approvals[tabs[t].job].status # "none"
      /\ tabs[t].at \in {"resolved", "listed"} => approvals[tabs[t].job].status = "resolved"
  BY <1>1 DEF TabsHoldApprovals
<1>0. CancelsAreListed'
  <2>1. ASSUME J!Resolve(t) PROVE CancelsAreListed'
    <3>1. approvals' = [approvals EXCEPT ![tabs[t].job].status = "resolved"] /\ cancels' = cancels
      BY <2>1 DEF J!Resolve
    <3>2. \A a \in Approvals :
              approvals[a].status = "resolved" => approvals'[a].status = "resolved"
      BY <1>1, <3>1 DEF ApprovalRecord
    <3> QED
      BY <1>1, <3>1, <3>2 DEF CancelsAreListed
  <2>2. ASSUME UNCHANGED <<approvals, cancels>> PROVE CancelsAreListed'
    BY <2>2 DEF CancelsAreListed
  <2> QED
    BY <2>1, <2>2 DEF J!Dispatches, J!ListJob, J!SpawnJob, J!Read
<1>3. ASSUME NEW a \in Approvals, J!Read(t, a) PROVE JobsInv'
  <2>1. /\ tabs[t].at = "away" /\ approvals[a].status = "pending"
        /\ tabs' = [tabs EXCEPT ![t] = [at |-> "read", job |-> a]]
        /\ UNCHANGED <<approvals, line, events, workers, cancels>>
    BY <1>3 DEF J!Read
  <2>2. [at |-> "read", job |-> a] \in TabRecord
    BY DEF TabRecord
  <2>3. tabs' \in [Tabs -> TabRecord] /\ tabs'[t] = [at |-> "read", job |-> a]
        /\ \A s \in Tabs \ {t} : tabs'[s] = tabs[s]
    BY <1>1, <2>1, <2>2
  <2>4. TabsHoldApprovals'
    BY <2>1, <2>3 DEF TabsHoldApprovals
  <2>5. LastWord'
    <3>1. \A w \in Workers : OnlyThread(w)' => workers[w].job = a \/ OnlyThread(w)
      BY <2>1, <2>3 DEF OnlyThread
    <3>2. \A w \in Workers : workers[w].at # "none" => workers[w].job # a
      BY <2>1 DEF ThreadsHaveJobs
    <3> QED
      BY <2>1, <3>1, <3>2 DEF LastWord
  <2> QED
    BY <1>0, <1>1, <2>1, <2>3, <2>4, <2>5
       DEF JobsTyped, ThreadsHaveJobs, EventsAreTheJobs, TabRecord
<1>4. CASE J!Resolve(t)
  <2> DEFINE j == tabs[t].job
  <2>1. PICK apply \in BOOLEAN :
            tabs' = [tabs EXCEPT ![t] = IF apply THEN [@ EXCEPT !.at = "resolved"]
                                          ELSE [at |-> "away", job |-> 0]]
    BY <1>4 DEF J!Resolve, J!NewTab
  <2>2. /\ tabs[t].at = "read" /\ approvals' = [approvals EXCEPT ![j].status = "resolved"]
        /\ UNCHANGED <<line, events, workers, cancels>>
    BY <1>4 DEF J!Resolve
  <2>3. j \in Approvals
    BY <1>2, <2>2
  <2> HIDE DEF j
  <2>4. /\ approvals' \in [Approvals -> ApprovalRecord]
        /\ approvals'[j].status = "resolved"
        /\ \A a \in Approvals \ {j} : approvals'[a] = approvals[a]
    BY <1>1, <2>2, <2>3 DEF ApprovalRecord
  <2>5. /\ tabs' \in [Tabs -> TabRecord]
        /\ \/ tabs'[t].at = "away" /\ tabs'[t].job = 0
           \/ tabs'[t].at = "resolved" /\ tabs'[t].job = j
        /\ \A s \in Tabs \ {t} : tabs'[s] = tabs[s]
    BY <1>1, <1>2, <2>1 DEF TabRecord, j
  <2>6. TabsHoldApprovals'
    <3>1. \A a \in Approvals : /\ approvals[a].status # "none" => approvals'[a].status # "none"
                               /\ approvals[a].status = "resolved" =>
                                    approvals'[a].status = "resolved"
      BY <2>4
    <3> QED
      BY <2>3, <2>4, <2>5, <3>1 DEF TabsHoldApprovals
  <2>7. ThreadsHaveJobs'
    BY <2>2, <2>4 DEF ThreadsHaveJobs
  <2>8. EventsAreTheJobs'
    BY <2>2, <2>4 DEF EventsAreTheJobs
  <2>9. LastWord'
    <3>1. ASSUME NEW w \in Workers, OnlyThread(w)' PROVE OnlyThread(w)
      <4>1. workers' = workers
        BY <2>2
      <4>2. \A v \in Workers : workers[v].job = workers[w].job => v = w
        BY <3>1, <4>1 DEF OnlyThread
      <4>3. \A s \in Tabs : tabs'[s].job = workers[w].job => tabs'[s].at \in {"away", "read"}
        BY <3>1, <4>1 DEF OnlyThread
      <4>4. \A s \in Tabs : tabs[s].job = workers[w].job => tabs[s].at \in {"away", "read"}
        BY <2>2, <2>5, <4>3
      <4> QED
        BY <4>2, <4>4 DEF OnlyThread
    <3> QED
      BY <2>2, <3>1 DEF LastWord
  <2> QED
    BY <1>0, <1>1, <2>2, <2>4, <2>5, <2>6, <2>7, <2>8, <2>9
       DEF JobsTyped, TabRecord, ApprovalRecord
<1>5. CASE J!ListJob(t)
  <2> DEFINE j == tabs[t].job
  <2>1. /\ tabs[t].at = "resolved" /\ line' = [line EXCEPT ![j] = "running"]
        /\ tabs' = [tabs EXCEPT ![t].at = "listed"]
        /\ UNCHANGED <<approvals, events, workers, cancels>>
    BY <1>5 DEF J!ListJob
  <2>2. j \in Approvals /\ approvals[j].status = "resolved"
    BY <1>2, <2>1
  <2>3. /\ tabs' \in [Tabs -> TabRecord]
        /\ tabs'[t].at = "listed" /\ tabs'[t].job = j
        /\ \A s \in Tabs \ {t} : tabs'[s] = tabs[s]
    BY <1>1, <1>2, <2>1 DEF TabRecord
  <2> HIDE DEF j
  <2>4. /\ line' \in [Approvals -> Lines]
        /\ \A a \in Approvals \ {j} : line'[a] = line[a]
    BY <1>1, <2>1, <2>2 DEF Lines
  <2>5. TabsHoldApprovals'
    BY <2>1, <2>2, <2>3 DEF TabsHoldApprovals
  <2>6. EventsAreTheJobs'
    BY <2>1, <2>2, <2>4 DEF EventsAreTheJobs
  <2>7. LastWord'
    <3>1. \A w \in Workers : OnlyThread(w)' => OnlyThread(w) /\ workers[w].job # j
      BY <2>1, <2>3 DEF OnlyThread, j
    <3>2. \A w \in Workers : workers[w].at # "none" => workers[w].job \in Approvals
      BY DEF ThreadsHaveJobs
    <3> QED
      BY <2>1, <2>4, <3>1, <3>2 DEF LastWord
  <2> QED
    BY <1>0, <1>1, <2>1, <2>3, <2>4, <2>5, <2>6, <2>7
       DEF JobsTyped, ThreadsHaveJobs, TabRecord, Lines
<1>6. CASE J!SpawnJob(t)
  <2> DEFINE j == tabs[t].job
  <2>1. PICK w \in Workers :
            /\ workers[w].at = "none"
            /\ events' = [events EXCEPT ![j] = w]
            /\ workers' = [workers EXCEPT ![w] = [@ EXCEPT !.job = j, !.at = "started"]]
    BY <1>6 DEF J!SpawnJob
  <2>2. /\ tabs[t].at = "listed" /\ tabs' = [tabs EXCEPT ![t] = [at |-> "away", job |-> 0]]
        /\ UNCHANGED <<approvals, line, cancels>>
    BY <1>6 DEF J!SpawnJob, J!NewTab
  <2>3. j \in Approvals /\ approvals[j].status = "resolved"
    BY <1>2, <2>2
  <2> HIDE DEF j
  <2>4. [at |-> "away", job |-> 0] \in TabRecord
    BY DEF TabRecord
  <2>5. /\ tabs' \in [Tabs -> TabRecord] /\ tabs'[t] = [at |-> "away", job |-> 0]
        /\ \A s \in Tabs \ {t} : tabs'[s] = tabs[s]
    BY <1>1, <2>2, <2>4
  <2>6. /\ workers' \in [Workers -> ThreadRecord]
        /\ workers'[w].job = j /\ workers'[w].at = "started"
        /\ \A v \in Workers \ {w} : workers'[v] = workers[v]
    BY <1>1, <2>1, <2>3 DEF ThreadRecord
  <2>7. /\ events' \in [Approvals -> {0} \cup Workers] /\ events'[j] = w
        /\ \A a \in Approvals \ {j} : events'[a] = events[a]
    BY <1>1, <2>1, <2>3
  <2>8. TabsHoldApprovals'
    BY <2>2, <2>5 DEF TabsHoldApprovals
  <2>9. ThreadsHaveJobs'
    BY <2>2, <2>3, <2>6 DEF ThreadsHaveJobs
  <2>10. EventsAreTheJobs'
    <3>1. \A a \in Approvals : events[a] # w
      BY <1>1, <2>1 DEF EventsAreTheJobs, ThreadsHaveJobs
    <3> QED
      BY <1>1, <2>2, <2>6, <2>7, <3>1 DEF EventsAreTheJobs
  <2>11. LastWord'
    <3> SUFFICES ASSUME NEW v \in Workers, workers'[v].at \in {"popping", "over"},
                        workers'[v].cancelled, ~workers'[v].raised, OnlyThread(v)',
                        cancels.job # workers'[v].job
                 PROVE  line[workers'[v].job] = "cancelled"
      BY <2>2 DEF LastWord
    <3>1. v # w /\ workers'[v] = workers[v]
      BY <2>6
    <3>2. workers[v].job # j
      BY <2>6, <3>1 DEF OnlyThread
    <3>3. OnlyThread(v)
      <4>1. ASSUME NEW u \in Workers, workers[u].job = workers[v].job PROVE u = v
        <5>1. workers[w].job = 0 /\ workers[v].job # 0
          BY <1>1, <2>1, <3>1 DEF ThreadsHaveJobs
        <5> QED
          BY <2>6, <3>1, <4>1, <5>1 DEF OnlyThread
      <4>2. ASSUME NEW s \in Tabs, tabs[s].job = workers[v].job
            PROVE  tabs[s].at \in {"away", "read"}
        <5>1. s # t
          BY <3>2, <4>2 DEF j
        <5> QED
          BY <2>5, <3>1, <4>2, <5>1 DEF OnlyThread
      <4> QED
        BY <4>1, <4>2 DEF OnlyThread
    <3> QED
      BY <3>1, <3>3 DEF LastWord
  <2> QED
    BY <1>0, <1>1, <2>2, <2>5, <2>6, <2>7, <2>8, <2>9, <2>10, <2>11
       DEF JobsTyped, TabRecord, ThreadRecord
<1> QED
  BY <1>3, <1>4, <1>5, <1>6 DEF J!Dispatches

\* A job's thread moves on, with or without a line of its own.
LEMMA ThreadMoves ==
    ASSUME J!JobsAssumption, JobsInv, NEW w \in Workers, NEW r \in ThreadRecord,
           workers[w].at \notin {"none", "over"}, r.at # "none",
           workers' = [workers EXCEPT ![w] = r],
           r.job = workers[w].job, r.cancelled = workers[w].cancelled,
           r.at \in {"popping", "over"} /\ r.cancelled /\ ~r.raised =>
               \/ line'[r.job] = "cancelled"
               \/ /\ workers[w].at \in {"popping", "over"} /\ ~workers[w].raised
                  /\ UNCHANGED line,
           \/ UNCHANGED line
           \/ /\ line' \in [Approvals -> Lines]
              /\ \A a \in Approvals \ {r.job} : line'[a] = line[a],
           events' \in [Approvals -> {0} \cup Workers],
           \A a \in Approvals : events'[a] \in {0, events[a]},
           approvals' \in [Approvals -> ApprovalRecord],
           \A a \in Approvals : approvals[a].status # "none" => approvals'[a] = approvals[a],
           UNCHANGED <<tabs, cancels>>
    PROVE  JobsInv'
<1> USE DEF JobsInv
<1>1. /\ workers \in [Workers -> ThreadRecord] /\ line \in [Approvals -> Lines]
      /\ workers' \in [Workers -> ThreadRecord] /\ workers'[w] = r
      /\ \A v \in Workers \ {w} : workers'[v] = workers[v]
      /\ r.job \in Approvals /\ approvals[r.job].status = "resolved"
  BY DEF JobsTyped, ThreadRecord, Lines, ThreadsHaveJobs
<1>2. JobsTyped'
  BY <1>1 DEF JobsTyped, ThreadRecord, Lines, ApprovalRecord
<1>3. TabsHoldApprovals'
  BY DEF TabsHoldApprovals
<1>4. ThreadsHaveJobs'
  <2>1. \A v \in Workers : workers[v].at # "none" =>
            workers[v].job \in Approvals /\ approvals'[workers[v].job].status = "resolved"
    BY DEF ThreadsHaveJobs
  <2>2. \A v \in Workers : workers[v].at = "none" => workers[v].job = 0 /\ ~workers[v].cancelled
    BY DEF ThreadsHaveJobs
  <2> QED
    BY <1>1, <2>1, <2>2 DEF ThreadsHaveJobs
<1>5. EventsAreTheJobs'
  <2>1. \A a \in Approvals : line'[a] # "none" => approvals'[a].status = "resolved"
    BY <1>1 DEF EventsAreTheJobs
  <2>2. ASSUME NEW a \in Approvals, events'[a] # 0 PROVE workers'[events'[a]].job = a
    <3>1. events'[a] = events[a] /\ workers[events[a]].job = a /\ events[a] \in Workers
      BY <2>2 DEF EventsAreTheJobs, JobsTyped
    <3> QED
      BY <1>1, <3>1
  <2> QED
    BY <2>1, <2>2 DEF EventsAreTheJobs
<1>6. LastWord'
  <2> SUFFICES ASSUME NEW v \in Workers, workers'[v].at \in {"popping", "over"},
                      workers'[v].cancelled, ~workers'[v].raised, OnlyThread(v)',
                      cancels.job # workers'[v].job
               PROVE  line'[workers'[v].job] = "cancelled"
    BY DEF LastWord
  <2>1. \A u \in Workers : workers'[u].job = workers[u].job
    BY <1>1
  <2>2. OnlyThread(v)
    BY <2>1 DEF OnlyThread
  <2>3. CASE v = w
    BY <1>1, <2>2, <2>3 DEF LastWord
  <2>4. CASE v # w
    <3>1. workers'[v] = workers[v] /\ workers[v].job # r.job
      BY <1>1, <2>2, <2>4 DEF OnlyThread
    <3>2. workers[v].job \in Approvals
      BY <3>1 DEF ThreadsHaveJobs
    <3>3. line'[workers[v].job] = line[workers[v].job]
      BY <3>1, <3>2
    <3> QED
      BY <2>2, <3>1, <3>3 DEF LastWord
  <2> QED
    BY <2>3, <2>4
<1>7. CancelsAreListed'
  BY DEF JobsTyped, CancelsAreListed
<1> QED
  BY <1>2, <1>3, <1>4, <1>5, <1>6, <1>7

LEMMA ThreadsRun ==
    ASSUME J!JobsAssumption, JobsInv, NEW w \in Workers, J!Runs(w)
    PROVE  JobsInv'
<1> DEFINE to(at) == [workers[w] EXCEPT !.at = at]
           j == workers[w].job
<1>1. /\ approvals \in [Approvals -> ApprovalRecord]
      /\ line \in [Approvals -> Lines]
      /\ events \in [Approvals -> {0} \cup Workers]
      /\ workers \in [Workers -> ThreadRecord] /\ workers[w] \in ThreadRecord
  BY DEF JobsInv, JobsTyped, ApprovalRecord, ThreadRecord, Lines
<1>2. workers[w].at # "none" => workers[w].job \in Approvals
  BY DEF JobsInv, ThreadsHaveJobs
<1>3. \A at \in {"working", "returned", "failing", "popping", "over"} :
        /\ to(at) \in ThreadRecord /\ to(at).at = at /\ to(at).job = j
        /\ to(at).cancelled = workers[w].cancelled /\ to(at).raised = workers[w].raised
  BY <1>1 DEF ThreadRecord
<1>4. ASSUME J!RecordsCancel(w), workers[w].at \in {"started", "working", "returned"},
             UNCHANGED <<approvals, tabs, events, cancels>>
      PROVE  JobsInv'
  <2>1. workers' = [workers EXCEPT ![w] = to("popping")]
        /\ line' = [line EXCEPT ![j] = "cancelled"]
    BY <1>1, <1>4 DEF J!RecordsCancel, ThreadRecord
  <2>2. line' \in [Approvals -> Lines] /\ line'[j] = "cancelled"
        /\ \A a \in Approvals \ {j} : line'[a] = line[a]
    BY <1>1, <1>2, <1>4, <2>1 DEF Lines
  <2> HIDE DEF j, to
  <2> QED
    BY <1>1, <1>3, <1>4, <2>1, <2>2, ThreadMoves DEF j
<1>5. ASSUME NEW at \in {"working", "returned", "failing", "popping"},
             workers[w].at \in {"started", "working", "returned"},
             workers' = [workers EXCEPT ![w].at = at],
             at = "popping" => ~workers[w].cancelled,
             UNCHANGED <<approvals, line, tabs, events, cancels>>
      PROVE  JobsInv'
  <2> DEFINE r == to(at)
  <2>1. workers' = [workers EXCEPT ![w] = r]
    BY <1>1, <1>5 DEF ThreadRecord
  <2>2. r \in ThreadRecord /\ r.at = at /\ r.job = j
        /\ r.cancelled = workers[w].cancelled /\ r.raised = workers[w].raised
    BY <1>3
  <2>3. /\ approvals' \in [Approvals -> ApprovalRecord]
        /\ events' \in [Approvals -> {0} \cup Workers]
        /\ \A a \in Approvals : events'[a] \in {0, events[a]} /\ approvals'[a] = approvals[a]
    BY <1>1, <1>5
  <2>4. at # "over" /\ at # "none" /\ workers[w].at \notin {"none", "over"}
    BY <1>5
  <2> HIDE DEF j, to, r
  <2> QED
    BY <1>5, <2>1, <2>2, <2>3, <2>4, ThreadMoves DEF j
<1>6. CASE J!Begin(w)
  BY <1>4, <1>5, <1>6 DEF J!Begin
<1>7. CASE J!Raises(w)
  BY <1>4, <1>5, <1>7 DEF J!Raises
<1>8. CASE J!Finish(w)
  BY <1>4, <1>5, <1>8 DEF J!Finish
<1>9. CASE J!Work(w)
  <2>1. PICK outcome \in {"done", "failed"} :
            /\ IF outcome = "done" /\ approvals[j].kind = "amend"
                 THEN J!Created("triage") ELSE UNCHANGED approvals
            /\ line' = [line EXCEPT ![j] = outcome]
    BY <1>9 DEF J!Work
  <2>2. /\ workers[w].at = "working" /\ workers' = [workers EXCEPT ![w].at = "returned"]
        /\ UNCHANGED <<tabs, events, cancels>>
    BY <1>9 DEF J!Work
  <2>3. /\ approvals' \in [Approvals -> ApprovalRecord]
        /\ \A a \in Approvals : approvals[a].status # "none" => approvals'[a] = approvals[a]
    BY <1>1, <2>1, CreatedKeepsOthers
  <2>4. line' \in [Approvals -> Lines] /\ \A a \in Approvals \ {j} : line'[a] = line[a]
    BY <1>1, <1>2, <2>1, <2>2 DEF Lines
  <2>5. workers' = [workers EXCEPT ![w] = to("returned")]
    BY <1>1, <2>2 DEF ThreadRecord
  <2>6. events' \in [Approvals -> {0} \cup Workers]
        /\ \A a \in Approvals : events'[a] \in {0, events[a]}
    BY <1>1, <2>2
  <2> HIDE DEF j, to
  <2> QED
    BY <1>3, <2>2, <2>3, <2>4, <2>5, <2>6, ThreadMoves DEF j
<1>10. CASE J!Fails(w)
  <2> DEFINE r == [workers[w] EXCEPT !.at = "popping", !.raised = TRUE]
  <2>1. /\ workers[w].at = "failing" /\ line' = [line EXCEPT ![j] = "failed"]
        /\ workers' = [workers EXCEPT ![w] = r]
        /\ UNCHANGED <<approvals, tabs, events, cancels>>
    BY <1>1, <1>10 DEF J!Fails, ThreadRecord
  <2>2. line' \in [Approvals -> Lines] /\ \A a \in Approvals \ {j} : line'[a] = line[a]
    BY <1>1, <1>2, <2>1 DEF Lines
  <2>3. r \in ThreadRecord /\ r.at = "popping" /\ r.job = j /\ r.raised
        /\ r.cancelled = workers[w].cancelled
    BY <1>1 DEF ThreadRecord
  <2> HIDE DEF j, to, r
  <2> QED
    BY <1>1, <2>1, <2>2, <2>3, ThreadMoves DEF j
<1>11. CASE J!Pop(w)
  <2>1. /\ workers[w].at = "popping" /\ events' = [events EXCEPT ![j] = 0]
        /\ workers' = [workers EXCEPT ![w] = to("over")]
        /\ UNCHANGED <<approvals, tabs, line, cancels>>
    BY <1>1, <1>11 DEF J!Pop, J!Nobody, ThreadRecord
  <2>2. events' \in [Approvals -> {0} \cup Workers]
        /\ \A a \in Approvals : events'[a] \in {0, events[a]}
    BY <1>1, <1>2, <2>1
  <2> HIDE DEF j, to
  <2> QED
    BY <1>1, <1>3, <2>1, <2>2, ThreadMoves DEF j
<1> QED
  BY <1>6, <1>7, <1>8, <1>9, <1>10, <1>11 DEF J!Runs

LEMMA JobsCancelled ==
    ASSUME J!JobsAssumption, JobsInv, J!RecordCancel \/ \E a \in Approvals : J!SetEvent(a)
    PROVE  JobsInv'
<1> USE DEF JobsInv
<1>1. /\ line \in [Approvals -> Lines]
      /\ events \in [Approvals -> {0} \cup Workers]
      /\ workers \in [Workers -> ThreadRecord]
      /\ cancels \in [job : {0} \cup Approvals, made : 0..MaxCancels]
      /\ 0 \notin Approvals /\ MaxCancels \in Nat
  BY DEF JobsTyped, ThreadRecord, Lines, J!JobsAssumption
<1>2. ASSUME NEW j \in Approvals, J!SetEvent(j) PROVE JobsInv'
  <2>1. /\ cancels.job = 0 /\ cancels.made < MaxCancels /\ line[j] # "none"
        /\ IF events[j] = 0 THEN UNCHANGED workers
             ELSE workers' = [workers EXCEPT ![events[j]].cancelled = TRUE]
        /\ cancels' = [job |-> j, made |-> cancels.made + 1]
        /\ UNCHANGED <<approvals, tabs, line, events>>
    BY <1>2 DEF J!SetEvent, J!Nobody
  <2>2. events[j] # 0 => events[j] \in Workers /\ workers[events[j]].job = j
    BY <1>1 DEF EventsAreTheJobs
  <2>3. /\ workers' \in [Workers -> ThreadRecord]
        /\ \A w \in Workers :
             /\ workers'[w].job = workers[w].job /\ workers'[w].at = workers[w].at
             /\ workers'[w].raised = workers[w].raised
             /\ workers[w].job # j => workers'[w].cancelled = workers[w].cancelled
    <3>1. CASE events[j] = 0
      BY <1>1, <2>1, <3>1
    <3>2. CASE events[j] # 0
      <4> DEFINE e == events[j]
                 r == [workers[e] EXCEPT !.cancelled = TRUE]
      <4>1. e \in Workers /\ workers[e].job = j /\ workers[e] \in ThreadRecord
        BY <1>1, <2>2, <3>2
      <4>2. r \in ThreadRecord /\ r.job = j /\ r.at = workers[e].at
            /\ r.raised = workers[e].raised
        BY <4>1 DEF ThreadRecord
      <4>3. workers' = [workers EXCEPT ![e] = r]
        BY <1>1, <2>1, <3>2, <4>1 DEF ThreadRecord
      <4> HIDE DEF e, r
      <4> QED
        BY <1>1, <4>1, <4>2, <4>3
    <3> QED
      BY <3>1, <3>2
  <2>4. JobsTyped'
    <3>1. cancels' \in [job : {0} \cup Approvals, made : 0..MaxCancels]
      BY <1>1, <2>1
    <3> QED
      BY <2>1, <2>3, <3>1 DEF JobsTyped, ThreadRecord
  <2>5. TabsHoldApprovals' /\ ThreadsHaveJobs' /\ EventsAreTheJobs'
    <3>1. \A w \in Workers : workers[w].at = "none" => workers[w].job # j
      BY <1>1 DEF ThreadsHaveJobs
    <3>2. ThreadsHaveJobs'
      BY <2>1, <2>3, <3>1 DEF ThreadsHaveJobs
    <3>3. EventsAreTheJobs'
      BY <1>1, <2>1, <2>3 DEF EventsAreTheJobs
    <3> QED
      BY <2>1, <3>2, <3>3 DEF TabsHoldApprovals
  <2>6. LastWord'
    <3> SUFFICES ASSUME NEW v \in Workers, workers'[v].at \in {"popping", "over"},
                        workers'[v].cancelled, ~workers'[v].raised, OnlyThread(v)',
                        j # workers'[v].job
                 PROVE  line[workers'[v].job] = "cancelled"
      BY <2>1 DEF LastWord
    <3>1. OnlyThread(v)
      BY <2>1, <2>3 DEF OnlyThread
    <3>2. workers[v].job # 0
      BY <1>1, <2>3 DEF ThreadsHaveJobs
    <3> QED
      BY <2>1, <2>3, <3>1, <3>2 DEF LastWord
  <2>7. CancelsAreListed'
    BY <2>1 DEF EventsAreTheJobs, CancelsAreListed
  <2> QED
    BY <2>4, <2>5, <2>6, <2>7
<1>3. CASE J!RecordCancel
  <2> DEFINE j == cancels.job
  <2>1. /\ j # 0 /\ line' = [line EXCEPT ![j] = "cancelled"]
        /\ cancels' = [cancels EXCEPT !.job = 0]
        /\ UNCHANGED <<approvals, tabs, events, workers>>
    BY <1>3 DEF J!RecordCancel
  <2>2. j \in Approvals
    BY <1>1, <2>1
  <2>3. cancels' \in [job : {0} \cup Approvals, made : 0..MaxCancels]
    BY <1>1, <2>1
  <2> HIDE DEF j
  <2>4. line' \in [Approvals -> Lines] /\ line'[j] = "cancelled"
        /\ \A a \in Approvals \ {j} : line'[a] = line[a]
    BY <1>1, <2>1, <2>2 DEF Lines
  <2>5. EventsAreTheJobs'
    BY <2>1, <2>4 DEF EventsAreTheJobs, CancelsAreListed, j
  <2>6. LastWord'
    <3>1. \A w \in Workers : OnlyThread(w)' => OnlyThread(w)
      BY <2>1 DEF OnlyThread
    <3>2. \A w \in Workers : workers[w].at # "none" => workers[w].job \in Approvals
      BY DEF ThreadsHaveJobs
    <3> QED
      BY <2>1, <2>4, <3>1, <3>2 DEF LastWord, j
  <2> QED
    BY <2>1, <2>3, <2>4, <2>5, <2>6
       DEF JobsTyped, TabsHoldApprovals, ThreadsHaveJobs, CancelsAreListed, Lines
<1> QED
  BY <1>2, <1>3

LEMMA JobsInductive ==
    ASSUME J!JobsAssumption, JobsInv, [J!Next]_(J!jobVars) PROVE JobsInv'
<1>1. CASE UNCHANGED J!jobVars
  BY <1>1 DEF J!jobVars, JobsInv, JobsTyped, TabsHoldApprovals, ThreadsHaveJobs,
     EventsAreTheJobs, CancelsAreListed, LastWord, OnlyThread
<1>2. CASE J!Request
  <2>1. PICK kind \in {"amend", "reopen"} : J!Created(kind)
    BY <1>2 DEF J!Request
  <2>2. UNCHANGED <<tabs, line, events, workers, cancels>>
    BY <1>2 DEF J!Request
  <2>3. /\ approvals' \in [Approvals -> ApprovalRecord]
        /\ \A a \in Approvals : approvals[a].status # "none" => approvals'[a] = approvals[a]
    BY <2>1, CreatedKeepsOthers
  <2> QED
    BY <2>2, <2>3, ApprovalsMove
<1> QED
  BY <1>1, <1>2, TabsDispatch, ThreadsRun, JobsCancelled DEF J!Next

\* A set of at most one member has no other one.
LEMMA OnlyMember ==
    ASSUME NEW S, NEW T, IsFiniteSet(S), IsFiniteSet(T), NEW x \in S,
           Cardinality(S) + Cardinality(T) = 1
    PROVE  S = {x} /\ T = {}
<1>1. Cardinality(S) \in Nat /\ Cardinality(T) \in Nat
  BY FS_CardinalityType
<1>2. Cardinality(S) # 0
  BY FS_EmptySet
<1>3. Cardinality(S) = 1 /\ Cardinality(T) = 0
  BY <1>1, <1>2
<1>4. T = {}
  BY <1>3, FS_EmptySet
<1>5. PICK y : S = {y}
  BY <1>3, FS_Singleton
<1> QED
  BY <1>4, <1>5

\* The instance counts as everybody does.
LEMMA SameCount ==
    ASSUME NEW S
    PROVE  J!Cardinality(S) = Cardinality(S) /\ (J!IsFiniteSet(S) <=> IsFiniteSet(S))
BY Zenon DEF J!Cardinality, Cardinality, J!IsFiniteSet, IsFiniteSet

LEMMA JobsAreSound ==
    ASSUME J!JobsAssumption, JobsInv PROVE J!TypeOK /\ J!CancelStands
<1> USE DEF JobsInv
<1>1. J!TypeOK
  <2>1. ASSUME NEW a \in Approvals
        PROVE  /\ approvals[a].kind \in {"none", "amend", "reopen", "triage"}
               /\ approvals[a].status \in {"none", "pending", "resolved"}
               /\ line[a] \in {"none", "running", "done", "failed", "cancelled"}
               /\ line[a] # "none" => approvals[a].status = "resolved"
               /\ events[a] \in {J!Nobody} \cup J!WorkersOf(a)
    BY <2>1 DEF JobsTyped, EventsAreTheJobs, J!Nobody, J!WorkersOf
  <2>2. \A t \in Tabs : tabs[t].at \in {"away", "read", "resolved", "listed"}
    BY DEF JobsTyped
  <2>3. \A w \in Workers :
         /\ workers[w].at \in {"none", "started", "working", "returned", "failing",
                               "popping", "over"}
         /\ workers[w].cancelled \in BOOLEAN /\ workers[w].raised \in BOOLEAN
    BY DEF JobsTyped
  <2>4. cancels.job \in {0} \cup Approvals /\ cancels.made \in 0..MaxCancels
    BY DEF JobsTyped
  <2> QED
    BY <2>1, <2>2, <2>3, <2>4 DEF J!TypeOK
<1>2. J!CancelStands
  <2> SUFFICES ASSUME NEW w \in Workers, J!Over(w), workers[w].cancelled, ~workers[w].raised,
                      J!DispatchedOnce(workers[w].job), cancels.job # workers[w].job
               PROVE  line[workers[w].job] = "cancelled"
    BY DEF J!CancelStands
  <2>1. workers[w].at = "over"
    BY DEF J!Over, ThreadsHaveJobs
  <2> DEFINE j == workers[w].job
             holding == {t \in Tabs : tabs[t].job = j}
  <2>2. IsFiniteSet(J!WorkersOf(j)) /\ IsFiniteSet(holding) /\ w \in J!WorkersOf(j)
    BY SameCount, FS_Subset DEF J!JobsAssumption, J!WorkersOf
  <2>3. Cardinality(J!WorkersOf(j)) + Cardinality(holding) = 1
    BY SameCount DEF J!DispatchedOnce
  <2>4. J!WorkersOf(j) = {w} /\ holding = {}
    BY <2>2, <2>3, OnlyMember
  <2>5. OnlyThread(w)
    BY <2>4 DEF OnlyThread, J!WorkersOf
  <2> QED
    BY <2>1, <2>5 DEF LastWord
<1> QED
  BY <1>1, <1>2

-----------------------------------------------------------------------------
(* CliJobs: the invariant holds.                                           *)

FetchRecord == [at : {"away", "asked", "answered"}, from : Views, got : Seq(Nat),
                next : 0..MaxBytes]
AskRecord == [at : {"away", "asked"}, saw : Nat]

\* Text up to a place, and the bytes from there, are the text up to where they end.
LEMMA TextGoesOn ==
    ASSUME NEW a \in Nat, NEW b \in Nat, a <= b
    PROVE  [i \in 1..a |-> i] \o [i \in 1..(b - a) |-> a + i] = [i \in 1..b |-> i]
<1> DEFINE s == [i \in 1..a |-> i]
           t == [i \in 1..(b - a) |-> a + i]
           u == [i \in 1..b |-> i]
<1>1. s \in Seq(Nat) /\ Len(s) = a
  OBVIOUS
<1>2. t \in Seq(Nat) /\ Len(t) = b - a
  OBVIOUS
<1>3. u \in Seq(Nat) /\ Len(u) = b
  OBVIOUS
<1>4. s \o t \in Seq(Nat) /\ Len(s \o t) = b
      /\ \A i \in 1..b : (s \o t)[i] = IF i <= a THEN s[i] ELSE t[i - a]
  BY <1>1, <1>2, ConcatProperties
<1>5. \A i \in 1..b : (s \o t)[i] = u[i]
  BY <1>4
<1> QED
  BY <1>3, <1>4, <1>5, SeqEqual

LEMMA LesserOfTwo ==
    ASSUME NEW a \in Nat, NEW b \in Nat
    PROVE  Cli!Min({a, b}) = IF a <= b THEN a ELSE b
BY DEF Cli!Min

LEMMA CliInit ==
    ASSUME Cli!CliAssumption, Cli!JobsInit PROVE CliInv
<1> USE DEF Cli!CliAssumption, Cli!JobsInit, Cli!NoAsk, Cli!NoText, Cli!NoFetch
<1>1. tail \in Views /\ Cli!NoText \in Views
  BY DEF Views
<1>2. Cli!NoFetch \in FetchRecord /\ Cli!NoAsk \in AskRecord
  BY <1>1 DEF FetchRecord, AskRecord
<1>3. CliTyped
  BY <1>1, <1>2 DEF CliTyped, FetchRecord, AskRecord
<1>4. ObjectsMade
  BY DEF ObjectsMade, FindsNone
<1>5. AnswersInOrder
  <2>1. <<>> = [i \in 1..0 |-> i]
    OBVIOUS
  <2> QED
    BY <2>1 DEF AnswersInOrder, ShowsTheLog, Printed
<1> QED
  BY <1>3, <1>4, <1>5 DEF CliInv

\* A log only grows, and what was seen of it stays so.
LEMMA LogGrows ==
    ASSUME CliInv, Printed' \in Nat, Printed <= Printed', Len(jobs') > 0 \/ Len(jobs) = 0,
           UNCHANGED <<tail, fetches>>
    PROVE  AnswersInOrder'
<1>1. Printed \in Nat
  <2>1. Len(jobs) \in Nat /\ (Len(jobs) # 0 => jobs[1] \in CliRecord)
    BY DEF CliInv, CliTyped
  <2> QED
    BY <2>1 DEF Printed, CliRecord
<1>2. \A view \in Views : ShowsTheLog(view) => ShowsTheLog(view)'
  BY <1>1 DEF ShowsTheLog, Views
<1>3. tail \in Views /\ \A f \in Fetches : fetches[f].from \in Views /\ fetches[f].next \in Nat
                                             /\ fetches[f].from.next \in Nat
  BY DEF CliInv, CliTyped, Views
<1>4. ShowsTheLog(tail)'
  BY <1>2, <1>3 DEF CliInv, AnswersInOrder, ShowsTheLog
<1>5. ASSUME NEW f \in Fetches
      PROVE  /\ ShowsTheLog(fetches[f].from)'
             /\ fetches[f].at # "away" => Len(jobs') > 0
             /\ fetches[f].at = "answered" =>
                  /\ fetches[f].next \in fetches[f].from.next..Printed'
                  /\ fetches[f].got =
                       [i \in 1..(fetches[f].next - fetches[f].from.next) |->
                            fetches[f].from.next + i]
  <2>1. fetches[f].from \in Views /\ fetches[f].next \in Nat /\ fetches[f].from.next \in Nat
    BY <1>3
  <2>2. fetches[f].from' = fetches[f].from
    OBVIOUS
  <2>3. ShowsTheLog(fetches[f].from)'
    <3>1. ShowsTheLog(fetches[f].from)
      BY DEF CliInv, AnswersInOrder
    <3> QED
      BY <1>1, <2>1, <2>2, <3>1 DEF ShowsTheLog
  <2>4. fetches[f].at # "away" => Len(jobs') > 0
    <3>1. fetches[f].at # "away" => Len(jobs) > 0
      BY DEF CliInv, AnswersInOrder
    <3>2. Len(jobs) \in Nat
      BY DEF CliInv, CliTyped
    <3> QED
      BY <3>1, <3>2
  <2>5. fetches[f].at = "answered" =>
          /\ fetches[f].next \in fetches[f].from.next..Printed'
          /\ fetches[f].got = [i \in 1..(fetches[f].next - fetches[f].from.next) |->
                                    fetches[f].from.next + i]
    BY <1>1, <2>1 DEF CliInv, AnswersInOrder
  <2> QED
    BY <2>3, <2>4, <2>5
<1>6. fetches' = fetches
  OBVIOUS
<1> QED
  BY <1>4, <1>5, <1>6 DEF AnswersInOrder

\* A job's record changes, and its log does not shrink.
LEMMA JobChanges ==
    ASSUME Cli!CliAssumption, CliInv, NEW j \in DOMAIN jobs, NEW r \in CliRecord,
           jobs' = [jobs EXCEPT ![j] = r],
           r.object = jobs[j].object, jobs[j].log <= r.log,
           jobs[j].status = "cancelled" => r.status = "cancelled",
           UNCHANGED <<starting, made, tail, fetches>>
    PROVE  /\ CliInv'
           /\ \A i \in DOMAIN jobs : jobs[i].status = "cancelled" => jobs'[i].status = "cancelled"
<1>1. /\ jobs \in Seq(CliRecord) /\ Len(jobs) \in Nat /\ DOMAIN jobs = 1..Len(jobs)
      /\ \A i \in 1..Len(jobs) : jobs[i] \in CliRecord
  BY DEF CliInv, CliTyped
<1>2. /\ jobs' \in Seq(CliRecord) /\ Len(jobs') = Len(jobs) /\ jobs'[j] = r
      /\ \A i \in 1..Len(jobs) : i # j => jobs'[i] = jobs[i]
  BY <1>1
<1>3. CliTyped'
  BY <1>2 DEF CliInv, CliTyped
<1>4. ObjectsMade'
  <2>1. DOMAIN jobs' = 1..Len(jobs)
    BY <1>2
  <2>2. \A i \in DOMAIN jobs' : jobs'[i].object \in 1..made
    BY <1>1, <1>2, <2>1 DEF CliInv, ObjectsMade
  <2>3. \A t \in {1, 2} : starting'[t].saw <= made' /\ FindsNone(t)' = FindsNone(t)
    BY DEF CliInv, ObjectsMade, FindsNone
  <2> QED
    BY <2>2, <2>3 DEF CliInv, ObjectsMade
<1>5. AnswersInOrder'
  <2>1. \A i \in 1..Len(jobs) : jobs[i].log \in Nat /\ jobs'[i].log \in Nat
                                  /\ jobs[i].log <= jobs'[i].log
    BY <1>1, <1>2 DEF CliRecord
  <2>2. Len(jobs) # 0 => 1 \in 1..Len(jobs)
    BY <1>1
  <2>3. Printed' \in Nat /\ Printed <= Printed'
    BY <1>1, <1>2, <2>1, <2>2 DEF Printed
  <2> QED
    BY <1>1, <1>2, <2>3, LogGrows
<1> QED
  BY <1>1, <1>2, <1>3, <1>4, <1>5 DEF CliInv

LEMMA CliJobsRun ==
    ASSUME Cli!CliAssumption, CliInv, NEW j \in DOMAIN jobs,
           Cli!Prints(j) \/ Cli!Exits(j) \/ Cli!Reap(j) \/ Cli!Cancel(j) \/ Cli!Signal(j)
    PROVE  /\ CliInv'
           /\ \A i \in DOMAIN jobs : jobs[i].status = "cancelled" => jobs'[i].status = "cancelled"
<1>0. jobs[j] \in CliRecord /\ MaxBytes \in Nat
  BY DEF CliInv, CliTyped, Cli!CliAssumption
<1>1. jobs[j] \in CliRecord /\ MaxBytes \in Nat /\ jobs[j].log \in Nat
  BY <1>0 DEF CliRecord
<1>2. CASE Cli!Prints(j)
  <2> DEFINE r == [jobs[j] EXCEPT !.log = @ + 1]
  <2>1. jobs' = [jobs EXCEPT ![j] = r] /\ jobs[j].log < MaxBytes
        /\ UNCHANGED <<starting, made, tail, fetches>>
    BY <1>1, <1>2 DEF Cli!Prints, CliRecord
  <2>2. r \in CliRecord /\ r.object = jobs[j].object /\ jobs[j].log <= r.log
        /\ r.status = jobs[j].status
    BY <1>1, <2>1 DEF CliRecord
  <2> HIDE DEF r
  <2> QED
    BY <2>1, <2>2, JobChanges
<1>3. CASE Cli!Exits(j)
  <2>1. PICK code \in {0, 1} :
            jobs' = [jobs EXCEPT ![j].process = "exited", ![j].code = code]
    BY <1>3 DEF Cli!Exits
  <2> DEFINE r == [jobs[j] EXCEPT !.process = "exited", !.code = code]
  <2>2. jobs' = [jobs EXCEPT ![j] = r] /\ UNCHANGED <<starting, made, tail, fetches>>
    BY <1>1, <1>3, <2>1 DEF Cli!Exits, CliRecord
  <2>3. r \in CliRecord /\ r.object = jobs[j].object /\ r.log = jobs[j].log
        /\ r.status = jobs[j].status
    <3>1. code \in Int
      OBVIOUS
    <3> QED
      BY <1>1, <3>1 DEF CliRecord
  <2>4. jobs[j].log <= r.log
    BY <1>1, <2>3
  <2> HIDE DEF r
  <2> QED
    BY <2>2, <2>3, <2>4, JobChanges
<1>4. CASE Cli!Reap(j)
  <2> DEFINE r == [jobs[j] EXCEPT !.process = "reaped", !.status = Cli!Verdict(jobs[j])]
  <2>1. jobs' = [jobs EXCEPT ![j] = r] /\ UNCHANGED <<starting, made, tail, fetches>>
    BY <1>1, <1>4 DEF Cli!Reap, CliRecord
  <2>2. /\ Cli!Verdict(jobs[j]) \in {"running", "done", "failed", "cancelled"}
        /\ jobs[j].status = "cancelled" => Cli!Verdict(jobs[j]) = "cancelled"
    BY <1>1 DEF Cli!Verdict, CliRecord
  <2>3. r \in CliRecord /\ r.object = jobs[j].object /\ r.log = jobs[j].log
        /\ r.status = Cli!Verdict(jobs[j])
    BY <1>1, <2>2 DEF CliRecord
  <2>4. jobs[j].log <= r.log
    BY <1>1, <2>3
  <2> HIDE DEF r
  <2> QED
    BY <2>1, <2>2, <2>3, <2>4, JobChanges
<1>5. CASE Cli!Cancel(j)
  <2> DEFINE r == [jobs[j] EXCEPT !.status = "cancelled", !.killing = TRUE]
  <2>1. jobs' = [jobs EXCEPT ![j] = r] /\ UNCHANGED <<starting, made, tail, fetches>>
    BY <1>1, <1>5 DEF Cli!Cancel, CliRecord
  <2>2. r \in CliRecord /\ r.object = jobs[j].object /\ r.log = jobs[j].log
        /\ r.status = "cancelled"
    BY <1>1 DEF CliRecord
  <2>4. jobs[j].log <= r.log
    BY <1>1, <2>2
  <2> HIDE DEF r
  <2> QED
    BY <2>1, <2>2, <2>4, JobChanges
<1>6. CASE Cli!Signal(j)
  <2> DEFINE r == [jobs[j] EXCEPT !.process = "exited", !.code = -15]
  <2>1. jobs' = [jobs EXCEPT ![j] = r] /\ UNCHANGED <<starting, made, tail, fetches>>
    BY <1>1, <1>6 DEF Cli!Signal, CliRecord
  <2>2. r \in CliRecord /\ r.object = jobs[j].object /\ r.log = jobs[j].log
        /\ r.status = jobs[j].status
    <3>1. -15 \in Int
      OBVIOUS
    <3> QED
      BY <1>1, <3>1 DEF CliRecord
  <2>4. jobs[j].log <= r.log
    BY <1>1, <2>2
  <2> HIDE DEF r
  <2> QED
    BY <2>1, <2>2, <2>4, JobChanges
<1> QED
  BY <1>2, <1>3, <1>4, <1>5, <1>6

LEMMA CliStarts ==
    ASSUME Cli!CliAssumption, CliInv, NEW t \in {1, 2},
           Cli!Look(t) \/ Cli!Make(t) \/ Cli!Start(t)
    PROVE  /\ CliInv'
           /\ \A i \in DOMAIN jobs : jobs[i].status = "cancelled" => jobs'[i].status = "cancelled"
<1> USE DEF CliInv
<1>1. /\ starting \in [{1, 2} -> AskRecord] /\ made \in Nat /\ starting[t] \in AskRecord
      /\ jobs \in Seq(CliRecord) /\ Len(jobs) \in Nat /\ Len(jobs) <= MaxJobs
      /\ MaxBytes \in Nat /\ MaxJobs \in Nat
  BY DEF CliTyped, AskRecord, Cli!CliAssumption
<1>2. ASSUME UNCHANGED <<jobs, tail, fetches>> PROVE AnswersInOrder'
  BY <1>2 DEF AnswersInOrder, ShowsTheLog, Printed
<1>3. CASE Cli!Look(t)
  <2>1. /\ starting' = [starting EXCEPT ![t] = [at |-> "asked", saw |-> made]]
        /\ UNCHANGED <<made, jobs, tail, fetches>>
    BY <1>3 DEF Cli!Look
  <2>2. [at |-> "asked", saw |-> made] \in AskRecord
    BY <1>1 DEF AskRecord
  <2>3. starting' \in [{1, 2} -> AskRecord] /\ starting'[t] = [at |-> "asked", saw |-> made]
        /\ \A s \in {1, 2} \ {t} : starting'[s] = starting[s]
    BY <1>1, <2>1, <2>2
  <2>4. CliTyped'
    BY <2>1, <2>3 DEF CliTyped, AskRecord
  <2>5. ObjectsMade'
    <3>1. \A s \in {1, 2} : FindsNone(s)' => made = 0 \/ FindsNone(s)
      BY <1>1, <2>1, <2>3 DEF FindsNone
    <3>2. \A s \in {1, 2} : starting'[s].saw <= made
      BY <1>1, <2>1, <2>3 DEF ObjectsMade, AskRecord
    <3> QED
      BY <1>1, <2>1, <3>1, <3>2 DEF ObjectsMade
  <2> QED
    BY <1>2, <2>1, <2>4, <2>5
<1>4. CASE Cli!Make(t)
  <2>1. /\ starting[t].at = "asked" /\ starting[t].saw = 0 /\ made' = made + 1
        /\ starting' = [starting EXCEPT ![t].saw = made + 1]
        /\ UNCHANGED <<jobs, tail, fetches>>
    BY <1>4 DEF Cli!Make
  <2>2. starting' \in [{1, 2} -> AskRecord] /\ starting'[t].saw = made + 1
        /\ \A s \in {1, 2} \ {t} : starting'[s] = starting[s]
    BY <1>1, <2>1 DEF AskRecord
  <2>3. CliTyped'
    BY <1>1, <2>1, <2>2 DEF CliTyped, AskRecord
  <2>4. \A s \in {1, 2} : starting'[s].saw \in Nat /\ starting[s].saw \in Nat
    BY <1>1, <2>2 DEF AskRecord
  <2>5. \A s \in {1, 2} : starting'[s].saw <= made'
    BY <1>1, <2>1, <2>2, <2>4 DEF ObjectsMade
  <2>6. \A i \in DOMAIN jobs' : jobs'[i].object \in 1..made'
    BY <1>1, <2>1 DEF ObjectsMade
  <2>7. FindsNone(t) /\ ~FindsNone(t)' /\ \A s \in {1, 2} \ {t} : FindsNone(s)' = FindsNone(s)
    BY <1>1, <2>1, <2>2 DEF FindsNone
  <2>8. /\ made' \in 0..2
        /\ made' = 1 => ~(FindsNone(1)' /\ FindsNone(2)')
        /\ made' = 2 => ~(FindsNone(1)' \/ FindsNone(2)')
    BY <1>1, <2>1, <2>7 DEF ObjectsMade
  <2> QED
    BY <1>2, <2>1, <2>3, <2>5, <2>6, <2>8 DEF ObjectsMade
<1>5. CASE Cli!Start(t)
  <2> DEFINE r == [object |-> starting[t].saw, process |-> "runs", code |-> 0, log |-> 0,
                   status |-> "running", killing |-> FALSE]
  <2>1. /\ starting[t].saw # 0 /\ Len(jobs) < MaxJobs /\ jobs' = Append(jobs, r)
        /\ starting' = [starting EXCEPT ![t] = Cli!NoAsk]
        /\ UNCHANGED <<made, tail, fetches>>
    BY <1>5 DEF Cli!Start
  <2>2. r \in CliRecord /\ r.object = starting[t].saw /\ r.log = 0
    BY <1>1 DEF CliRecord, AskRecord
  <2> HIDE DEF r
  <2>3. /\ jobs' \in Seq(CliRecord) /\ Len(jobs') = Len(jobs) + 1
        /\ \A i \in 1..Len(jobs) : jobs'[i] = jobs[i]
        /\ jobs'[Len(jobs) + 1] = r
    BY <1>1, <2>1, <2>2
  <2>4. Cli!NoAsk \in AskRecord /\ Cli!NoAsk.at = "away" /\ Cli!NoAsk.saw = 0
    BY DEF Cli!NoAsk, AskRecord
  <2>5. starting' \in [{1, 2} -> AskRecord] /\ starting'[t] = Cli!NoAsk
        /\ \A s \in {1, 2} \ {t} : starting'[s] = starting[s]
    BY <1>1, <2>1, <2>4
  <2>6. CliTyped'
    BY <1>1, <2>1, <2>3, <2>5 DEF CliTyped, AskRecord
  <2>7. ObjectsMade'
    <3>1. \A i \in DOMAIN jobs' : jobs'[i].object \in 1..made
      <4>1. \A i \in DOMAIN jobs' : i \in 1..Len(jobs) \/ i = Len(jobs) + 1
        BY <1>1, <2>3
      <4>2. \A i \in 1..Len(jobs) : jobs[i].object \in 1..made
        BY <1>1 DEF ObjectsMade
      <4>3. starting[t].saw \in 1..made
        BY <1>1, <2>1 DEF ObjectsMade, AskRecord
      <4> QED
        BY <2>2, <2>3, <4>1, <4>2, <4>3
    <3> QED
      BY <1>1, <2>1, <2>4, <2>5, <3>1 DEF ObjectsMade, FindsNone
  <2>8. AnswersInOrder'
    <3>1. Printed' \in Nat /\ Printed <= Printed'
      <4>1. CASE Len(jobs) = 0
        BY <1>1, <2>2, <2>3, <4>1 DEF Printed
      <4>2. CASE Len(jobs) # 0
        <5>1. jobs[1] \in CliRecord /\ jobs'[1] = jobs[1] /\ Len(jobs') # 0
          BY <1>1, <2>3, <4>2
        <5>2. jobs[1].log \in Nat
          BY <1>1, <5>1 DEF CliRecord
        <5> QED
          BY <4>2, <5>1, <5>2 DEF Printed
      <4> QED
        BY <4>1, <4>2
    <3> QED
      BY <1>1, <2>1, <2>3, <3>1, LogGrows
  <2>9. \A i \in DOMAIN jobs : jobs'[i] = jobs[i]
    BY <1>1, <2>3
  <2> QED
    BY <2>6, <2>7, <2>8, <2>9
<1> QED
  BY <1>3, <1>4, <1>5

\* The tab asks, is answered, and shows.
LEMMA CliTab ==
    ASSUME Cli!CliAssumption, CliInv, NEW f \in Fetches, Cli!Tab(f)
    PROVE  CliInv' /\ UNCHANGED jobs
<1> USE DEF CliInv
<1>1. /\ tail \in Views /\ fetches \in [Fetches -> FetchRecord] /\ fetches[f] \in FetchRecord
      /\ jobs \in Seq(CliRecord) /\ Len(jobs) \in Nat
      /\ MaxBytes \in Nat /\ ChunkBytes \in Nat
  BY DEF CliTyped, FetchRecord, Cli!CliAssumption
<1>2. /\ fetches[f].at \in {"away", "asked", "answered"} /\ fetches[f].from \in Views
      /\ fetches[f].from.text \in Seq(Nat) /\ fetches[f].from.next \in 0..MaxBytes
      /\ fetches[f].got \in Seq(Nat) /\ fetches[f].next \in 0..MaxBytes
  BY <1>1 DEF FetchRecord, Views
<1>3. /\ ShowsTheLog(tail) /\ ShowsTheLog(fetches[f].from)
      /\ fetches[f].at # "away" => Len(jobs) > 0
      /\ fetches[f].at = "answered" =>
           /\ fetches[f].next \in fetches[f].from.next..Printed
           /\ fetches[f].got =
                [i \in 1..(fetches[f].next - fetches[f].from.next) |->
                     fetches[f].from.next + i]
  BY DEF AnswersInOrder
<1>4. Cli!NoText \in Views /\ Cli!NoFetch \in FetchRecord /\ Cli!NoFetch.at = "away"
      /\ Cli!NoFetch.from = Cli!NoText /\ ShowsTheLog(Cli!NoText)
  <2>1. Cli!NoText \in Views
    BY <1>1 DEF Cli!NoText, Views
  <2>2. Cli!NoFetch \in FetchRecord
    BY <1>1, <2>1 DEF Cli!NoFetch, FetchRecord
  <2>3. Printed \in Nat
    <3>1. Len(jobs) # 0 => jobs[1] \in CliRecord
      BY <1>1
    <3> QED
      BY <3>1 DEF Printed, CliRecord
  <2>4. ShowsTheLog(Cli!NoText)
    BY <2>3 DEF ShowsTheLog, Cli!NoText
  <2> QED
    BY <2>1, <2>2, <2>4 DEF Cli!NoFetch
<1>5. ASSUME NEW r \in FetchRecord, fetches' = [fetches EXCEPT ![f] = r],
             UNCHANGED <<starting, made, jobs>>, tail' \in Views, ShowsTheLog(tail'),
             ShowsTheLog(r.from), r.at # "away" => Len(jobs) > 0,
             r.at = "answered" =>
                 /\ r.next \in r.from.next..Printed
                 /\ r.got = [i \in 1..(r.next - r.from.next) |-> r.from.next + i]
      PROVE  CliInv' /\ UNCHANGED jobs
  <2>1. fetches' \in [Fetches -> FetchRecord] /\ fetches'[f] = r
        /\ \A g \in Fetches \ {f} : fetches'[g] = fetches[g]
    BY <1>1, <1>5
  <2>2. CliTyped'
    BY <1>5, <2>1 DEF CliTyped, FetchRecord
  <2>3. ObjectsMade'
    BY <1>5 DEF ObjectsMade, FindsNone
  <2>4. Printed' = Printed /\ Len(jobs') = Len(jobs)
    BY <1>5 DEF Printed
  <2>5. ShowsTheLog(tail)'
    BY <1>5, <2>4 DEF ShowsTheLog
  <2>6. ASSUME NEW g \in Fetches
        PROVE  /\ ShowsTheLog(fetches[g].from)'
               /\ fetches'[g].at # "away" => Len(jobs') > 0
               /\ fetches'[g].at = "answered" =>
                    /\ fetches'[g].next \in fetches'[g].from.next..Printed'
                    /\ fetches'[g].got =
                         [i \in 1..(fetches'[g].next - fetches'[g].from.next) |->
                              fetches'[g].from.next + i]
    <3>1. CASE g = f
      BY <1>5, <2>1, <2>4, <3>1 DEF ShowsTheLog
    <3>2. CASE g # f
      <4>1. fetches'[g] = fetches[g]
        BY <2>1, <3>2
      <4> QED
        BY <2>4, <4>1 DEF AnswersInOrder, ShowsTheLog
    <3> QED
      BY <3>1, <3>2
  <2>7. AnswersInOrder'
    BY <2>5, <2>6 DEF AnswersInOrder
  <2> QED
    BY <1>5, <2>2, <2>3, <2>7
<1>6. CASE Cli!Fetch(f)
  <2> DEFINE r == [Cli!NoFetch EXCEPT !.at = "asked", !.from = tail]
  <2>1. /\ fetches' = [fetches EXCEPT ![f] = r] /\ Len(jobs) > 0
        /\ UNCHANGED <<starting, made, jobs, tail>>
    BY <1>6 DEF Cli!Fetch, Cli!Listed
  <2>2. r \in FetchRecord /\ r.at = "asked" /\ r.from = tail
    BY <1>1, <1>4 DEF FetchRecord
  <2> HIDE DEF r
  <2> QED
    BY <1>1, <1>3, <1>5, <2>1, <2>2
<1>7. CASE Cli!Answer(f)
  <2> DEFINE since == fetches[f].from.next
             end == Cli!Min({since + ChunkBytes, jobs[1].log})
             r == [fetches[f] EXCEPT !.at = "answered", !.next = end,
                                     !.got = [i \in 1..(end - since) |-> since + i]]
  <2>1. /\ fetches[f].at = "asked"
        /\ fetches' = [fetches EXCEPT ![f].at = "answered", ![f].next = end,
                                 ![f].got = [i \in 1..(end - since) |-> since + i]]
        /\ UNCHANGED <<starting, made, jobs, tail>>
    BY <1>7 DEF Cli!Answer
  <2>2. jobs[1] \in CliRecord /\ Len(jobs) > 0
    BY <1>1, <1>3, <2>1
  <2>3. jobs[1].log \in 0..MaxBytes /\ jobs[1].log \in Nat /\ Printed = jobs[1].log
    BY <1>1, <2>2 DEF CliRecord, Printed
  <2>4. since \in Nat /\ since <= jobs[1].log
    BY <1>1, <1>2, <1>3, <2>3 DEF ShowsTheLog
  <2>5. end = IF since + ChunkBytes <= jobs[1].log THEN since + ChunkBytes ELSE jobs[1].log
    <3>1. since + ChunkBytes \in Nat /\ jobs[1].log \in Nat
      <4> HIDE DEF since
      <4> QED
        BY <1>1, <2>3, <2>4
    <3>2. \A p, q \in Nat : Cli!Min({p, q}) = IF p <= q THEN p ELSE q
      BY LesserOfTwo
    <3> HIDE DEF since
    <3> QED
      BY <3>1, <3>2
  <2> HIDE DEF end
  <2>6. end \in since..jobs[1].log /\ end \in 0..MaxBytes
    BY <1>1, <2>3, <2>4, <2>5
  <2> HIDE DEF since
  <2>7. [i \in 1..(end - since) |-> since + i] \in Seq(Nat)
    BY <2>4, <2>6
  <2>8. fetches' = [fetches EXCEPT ![f] = r]
    BY <1>1, <2>1 DEF FetchRecord
  <2>9. /\ r \in FetchRecord /\ r.at = "answered" /\ r.from = fetches[f].from
        /\ r.next = end /\ r.got = [i \in 1..(end - since) |-> since + i]
    BY <1>1, <2>6, <2>7 DEF FetchRecord
  <2> HIDE DEF r
  <2>10. ShowsTheLog(tail') /\ tail' \in Views
    BY <1>1, <1>3, <2>1
  <2> QED
    BY <1>3, <1>5, <2>1, <2>2, <2>3, <2>6, <2>8, <2>9, <2>10 DEF since
<1>8. CASE Cli!Receive(f)
  <2> DEFINE shown == Cli!Shown(fetches[f])
  <2>1. /\ fetches[f].at = "answered"
        /\ tail' = IF fetches[f].got = <<>> THEN tail ELSE shown
        /\ fetches' = [fetches EXCEPT ![f] = Cli!NoFetch]
        /\ UNCHANGED <<starting, made, jobs>>
    BY <1>8 DEF Cli!Receive
  <2>2. shown = [text |-> fetches[f].from.text \o fetches[f].got, next |-> fetches[f].next]
    BY DEF Cli!Shown
  <2>7. shown.text = fetches[f].from.text \o fetches[f].got /\ shown.next = fetches[f].next
    <3> HIDE DEF shown
    <3> QED
      BY <2>2
  <2>3. fetches[f].from.text \o fetches[f].got \in Seq(Nat)
    BY <1>2, ConcatProperties
  <2>4. shown \in Views
    BY <1>2, <2>2, <2>3 DEF Views
  <2>5. ShowsTheLog(shown)
    <3>1. /\ fetches[f].from.text = [i \in 1..fetches[f].from.next |-> i]
          /\ fetches[f].from.next \in Nat /\ fetches[f].next \in Nat
          /\ fetches[f].from.next <= fetches[f].next /\ fetches[f].next <= Printed
      BY <1>1, <1>2, <1>3, <2>1 DEF ShowsTheLog
    <3> DEFINE a == fetches[f].from.next
               b == fetches[f].next
    <3>2. fetches[f].got = [i \in 1..(b - a) |-> a + i]
      BY <1>3, <2>1
    <3>3. [i \in 1..a |-> i] \o [i \in 1..(b - a) |-> a + i] = [i \in 1..b |-> i]
      <4> a \in Nat /\ b \in Nat /\ a <= b
        BY <3>1
      <4> HIDE DEF a, b
      <4> QED
        BY TextGoesOn
    <3>4. fetches[f].from.text = [i \in 1..a |-> i]
      BY <3>1
    <3>5. shown.text = [i \in 1..b |-> i] /\ shown.next = b
      <4>1. shown.text = fetches[f].from.text \o fetches[f].got /\ shown.next = b
        BY <2>7
      <4> HIDE DEF shown, a, b
      <4> QED
        BY <3>2, <3>3, <3>4, <4>1
    <3>6. b <= Printed
      BY <3>1
    <3> HIDE DEF shown, b
    <3> QED
      BY <3>5, <3>6 DEF ShowsTheLog
  <2> HIDE DEF shown
  <2>6. tail' \in Views /\ ShowsTheLog(tail')
    BY <1>1, <1>3, <2>1, <2>4, <2>5
  <2> QED
    BY <1>4, <1>5, <2>1, <2>6
<1> QED
  BY <1>6, <1>7, <1>8 DEF Cli!Tab

LEMMA CliInductive ==
    ASSUME Cli!CliAssumption, CliInv, [Cli!JobsNext]_(Cli!jobVars)
    PROVE  /\ CliInv'
           /\ \A i \in DOMAIN jobs : jobs[i].status = "cancelled" => jobs'[i].status = "cancelled"
<1>1. CASE UNCHANGED Cli!jobVars
  <2>1. UNCHANGED <<starting, made, jobs, tail, fetches>>
    BY <1>1 DEF Cli!jobVars
  <2>2. CliTyped'
    BY <2>1 DEF CliInv, CliTyped
  <2>3. ObjectsMade'
    BY <2>1 DEF CliInv, ObjectsMade, FindsNone
  <2>4. AnswersInOrder'
    <3>1. ShowsTheLog(tail)' /\ Printed' = Printed
      BY <2>1 DEF CliInv, AnswersInOrder, ShowsTheLog, Printed
    <3>2. \A f \in Fetches : ShowsTheLog(fetches[f].from)'
      BY <2>1 DEF CliInv, AnswersInOrder, ShowsTheLog, Printed
    <3> QED
      BY <2>1, <3>1, <3>2 DEF CliInv, AnswersInOrder
  <2> QED
    BY <2>1, <2>2, <2>3, <2>4 DEF CliInv
<1>2. ASSUME NEW f \in Fetches, Cli!Tab(f)
      PROVE  /\ CliInv'
             /\ \A i \in DOMAIN jobs :
                    jobs[i].status = "cancelled" => jobs'[i].status = "cancelled"
  BY <1>2, CliTab
<1> QED
  BY <1>1, <1>2, CliStarts, CliJobsRun DEF Cli!JobsNext

LEMMA CliIsSound ==
    ASSUME CliInv PROVE Cli!JobsTypeOK /\ Cli!TailIsTheLog
<1>1. \A j \in DOMAIN jobs : jobs[j] \in CliRecord
  BY DEF CliInv, CliTyped
<1>2. \A j \in DOMAIN jobs : jobs[j].log \in 0..MaxBytes
  BY <1>1 DEF CliRecord
<1>3. Cli!JobsTypeOK
  BY <1>2 DEF CliInv, CliTyped, ObjectsMade, Views, Cli!JobsTypeOK
<1>4. Cli!TailIsTheLog
  BY DEF CliInv, AnswersInOrder, ShowsTheLog, Cli!TailIsTheLog
<1> QED
  BY <1>3, <1>4

-----------------------------------------------------------------------------
(* The dashboard.                                                          *)

DashboardInv == HostingInv /\ JobsInv /\ CliInv

LEMMA DashboardInit ==
    MCInit => DashboardInv
BY HostingAssumption, DashboardAssumption, HostingInit, JobsInit, CliInit
   DEF MCInit, DashboardInv

LEMMA DashboardInductive ==
    ASSUME DashboardInv, [MCNext]_allVars
    PROVE  /\ [Next]_vars /\ [J!Next]_(J!jobVars) /\ [Cli!JobsNext]_(Cli!jobVars)
           /\ DashboardInv'
<1>1. [Next]_vars /\ [J!Next]_(J!jobVars) /\ [Cli!JobsNext]_(Cli!jobVars)
  BY DEF MCNext, allVars, jobVars, cliVars, J!jobVars, Cli!jobVars
<1> QED
  BY <1>1, HostingAssumption, DashboardAssumption, HostingInductive, JobsInductive,
     CliInductive DEF DashboardInv

LEMMA DashboardInvariant == MCSpec => []DashboardInv
<1>1. DashboardInv /\ [MCNext]_allVars => DashboardInv'
  BY DashboardInductive
<1> QED
  BY <1>1, DashboardInit, PTL DEF MCSpec

(* What the operator is shown is so, for any number of drivers, handlers,  *)
(* approvals, tabs, threads and requests: a driver at work is never called *)
(* stalled, and the tail of a log is the log, however its answers overlap  *)
(* (pipeline/liveness.py run_liveness, dashboard/extras.py CliJobs.tail).  *)
THEOREM ViewsAreSoundAlways == MCSpec => []ViewsAreSound
<1>1. DashboardInv => ViewsAreSound
  BY HostingAssumption, DashboardAssumption, HostingIsSound, JobsAreSound, CliIsSound
     DEF DashboardInv, ViewsAreSound
<1> QED
  BY <1>1, DashboardInvariant, PTL

(* What an operator cancelled stays cancelled, whatever the thread of the  *)
(* job, its reaper and the other tabs do in between (dashboard/state.py    *)
(* cancel_job and _job_thread, dashboard/extras.py CliJobs.cancel).        *)
THEOREM CancellationStands == MCSpec => CancelStands
<1>1. DashboardInv => J!CancelStands
  BY DashboardAssumption, JobsAreSound DEF DashboardInv
<1>2. DashboardInv /\ [MCNext]_allVars =>
          [\A j \in DOMAIN jobs : jobs[j].status = "cancelled" =>
               jobs'[j].status = "cancelled"]_(Cli!jobVars)
  BY DashboardAssumption, DashboardInductive, CliInductive DEF DashboardInv
<1> QED
  BY <1>1, <1>2, DashboardInvariant, PTL DEF MCSpec, CancelStands, Cli!CancelIsKept

(* No start goes through while the driver of another process, the one on   *)
(* record, is inside run() in an active phase: its heartbeat is fresh then *)
(* (dashboard/state.py start_run, _other_driver_pid).                      *)
THEOREM ForeignDriverIsKept == MCSpec => ForeignDriverKept
<1>1. DashboardInv /\ [MCNext]_allVars =>
        [\A h \in Handlers :
           handlers[h].at = "away" /\ handlers'[h].at = "allowed" =>
             ~(phase \in Active /\ pid.of # 0 /\ pid.home # serve /\ InRun(pid.of))]_vars
  BY HostingAssumption, DashboardInductive, StartsAreRefused DEF DashboardInv
<1> QED
  BY <1>1, DashboardInvariant, PTL DEF MCSpec, ForeignDriverKept
===============================================================================
