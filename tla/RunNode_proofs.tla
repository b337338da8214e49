----------------------------- MODULE RunNode_proofs -----------------------------
(***************************************************************************)
(* Theorems about RunNode, for every adapter and every bound: type         *)
(* correctness, that a session is captured once, that what an episode      *)
(* found can be put back, and - where no kill tears events.jsonl - that    *)
(* the watcher passes no session over, that found work is gone on with,    *)
(* and that every recorded result is acted on exactly once.  With it a     *)
(* theorem about FileCache, for any number of threads: the totals the      *)
(* dashboard shows are current, and count nothing twice.                   *)
(***************************************************************************)
EXTENDS MCExecution, SequenceTheorems, WellFoundedInduction, TLAPS

-----------------------------------------------------------------------------
(* The strengthening. *)

(* What run_node writes into the log, and that it counts its calls.         *)
Form ==
    /\ \A i \in DOMAIN log :
          /\ log[i].type = "episode_completed" => log[i].note \in Status
          /\ log[i].type = "session_captured" => log[i].sid # 0
    /\ stage # "idle" => calls # 0

(* Until its watcher has logged one, an episode's call knows every session
   that was ever captured.                                                  *)
CaptureInv ==
    /\ watching => stage = "episode" /\ call.resumes
    /\ stage \in {"dispatched", "prepared"} \/ watching =>
          \A i \in DOMAIN log : log[i].type = "session_captured" => log[i].sid \in call.known
    /\ call.known \subseteq KnownSessions

BaseInv == TypeOK /\ Form /\ CaptureInv /\ CapturedOnce /\ FoundIsKept

-----------------------------------------------------------------------------
(* Numbers and sequences. *)

LEMMA HasLeast ==
    ASSUME NEW I \in SUBSET Nat, I # {}
    PROVE  \E m \in I : \A n \in I : m <= n
<1> DEFINE R == OpToRel(<, Nat)
<1>1. IsWellFoundedOn(R, Nat)
  BY NatLessThanWellFounded
<1>2. \A x, y \in Nat : x < y => <<x, y>> \in R
  BY DEF OpToRel
<1> HIDE DEF R
<1>3. PICK m \in I : \A y \in I : ~ (<<y, m>> \in R)
  BY <1>1, WFMin
<1>4. ASSUME NEW n \in I PROVE m <= n
  <2>1. ~(n < m)
    BY <1>2, <1>3, Zenon
  <2> QED
    BY <2>1
<1> QED
  BY <1>4

LEMMA HasGreatest ==
    ASSUME NEW n \in Nat, NEW I \in SUBSET (1..n), I # {}
    PROVE  \E m \in I : \A k \in I : k <= m
<1> DEFINE J == {n - i : i \in I}
<1>1. J \in SUBSET Nat /\ J # {}
  <2>1. \A i \in I : n - i \in Nat
    OBVIOUS
  <2> QED
    BY <2>1
<1>2. PICK j \in J : \A k \in J : j <= k
  BY <1>1, HasLeast
<1>3. PICK m \in I : j = n - m
  BY <1>2
<1>4. ASSUME NEW k \in I PROVE k <= m
  <2>1. j <= n - k
    BY <1>2
  <2> QED
    BY <1>3, <2>1
<1> QED
  BY <1>4

(* SelectInSeq finds the first line that names a session the call does not
   know.                                                                    *)
LEMMA NewInFinds ==
    ASSUME NEW lines \in Seq(Session)
    PROVE  /\ NewIn(lines) \in 0..Len(lines)
           /\ NewIn(lines) = 0 => \A i \in 1..Len(lines) : lines[i] \in call.known
           /\ NewIn(lines) # 0 => lines[NewIn(lines)] \notin call.known
<1> DEFINE I == {i \in 1..Len(lines) : lines[i] \notin call.known}
<1>1. NewIn(lines) = IF I # {} THEN Min(I) ELSE 0
  BY DEF NewIn, SelectInSeq
<1>2. CASE I = {}
  BY <1>1, <1>2
<1>3. CASE I # {}
  <2>1. I \in SUBSET Nat
    OBVIOUS
  <2> HIDE DEF I
  <2>3. PICK m \in I : \A k \in I : m <= k
    BY <1>3, <2>1, HasLeast
  <2>4. Min(I) \in I
    BY <2>3, Zenon DEF Min
  <2>2. NewIn(lines) \in I
    BY <1>1, <1>3, <2>4
  <2> QED
    BY <2>2 DEF I
<1> QED
  BY <1>2, <1>3

(* SelectLastInSeq finds the last event of some types.                      *)
LEMMA LastEventFinds ==
    ASSUME log \in Seq(Event), NEW types
    PROVE  /\ LastEvent(types) \in 0..Len(log)
           /\ LastEvent(types) = 0 => \A i \in DOMAIN log : log[i].type \notin types
           /\ LastEvent(types) # 0 =>
                 /\ log[LastEvent(types)].type \in types
                 /\ \A i \in DOMAIN log : i > LastEvent(types) => log[i].type \notin types
<1> DEFINE I == {i \in 1..Len(log) : log[i].type \in types}
<1>1. LastEvent(types) = IF I # {} THEN Max(I) ELSE 0
  BY DEF LastEvent, SelectLastInSeq
<1>d. DOMAIN log = 1..Len(log) /\ Len(log) \in Nat
  OBVIOUS
<1>2. CASE I = {}
  BY <1>1, <1>2, <1>d
<1>3. CASE I # {}
  <2>1. \E m \in I : \A k \in I : k <= m
    BY <1>3, <1>d, HasGreatest
  <2>2. \E m \in I : \A k \in I : m >= k
    BY <2>1
  <2>3. Max(I) \in I /\ \A k \in I : Max(I) >= k
    BY <2>2, Zenon DEF Max
  <2>4. LastEvent(types) \in I /\ \A k \in I : LastEvent(types) >= k
    BY <1>1, <1>3, <2>3
  <2>5. ASSUME NEW i \in DOMAIN log, i > LastEvent(types) PROVE log[i].type \notin types
    BY <1>d, <2>4, <2>5
  <2> QED
    BY <2>4, <2>5
<1> QED
  BY <1>2, <1>3

-----------------------------------------------------------------------------
(* What a step does to the log. *)

(* An event in the form run_node writes it. *)
WellFormed(e) ==
    /\ e \in Event
    /\ e.type = "episode_completed" => e.note \in Status
    /\ e.type = "session_captured" => e.sid # 0

LEMMA EvWellFormed ==
    /\ \A t \in EventType \ {"episode_completed", "session_captured"} :
          WellFormed(Ev(t)) /\ Ev(t).type = t
    /\ \A st \in Status :
          LET e == [Ev("episode_completed") EXCEPT !.note = st]
          IN  WellFormed(e) /\ e.type = "episode_completed" /\ e.note = st
    /\ \A s \in Session :
          LET e == [Ev("session_captured") EXCEPT !.sid = s]
          IN  WellFormed(e) /\ e.type = "session_captured" /\ e.sid = s
    /\ \A s \in Session :
          LET e == [Ev("opencode_session_deleted") EXCEPT !.sid = s]
          IN  WellFormed(e) /\ e.type = "opencode_session_deleted"
<1>1. ASSUME NEW t \in EventType \ {"episode_completed", "session_captured"}
      PROVE  WellFormed(Ev(t)) /\ Ev(t).type = t
  BY DEF WellFormed, Ev, Event, Status
<1>2. ASSUME NEW st \in Status
      PROVE  LET e == [Ev("episode_completed") EXCEPT !.note = st]
             IN  WellFormed(e) /\ e.type = "episode_completed" /\ e.note = st
  BY DEF WellFormed, Ev, Event, Status, EventType, WriterLifecycle
<1>3. ASSUME NEW s \in Session
      PROVE  LET e == [Ev("session_captured") EXCEPT !.sid = s]
             IN  WellFormed(e) /\ e.type = "session_captured" /\ e.sid = s
  BY DEF WellFormed, Ev, Event, Status, EventType, Session
<1>4. ASSUME NEW s \in Session
      PROVE  LET e == [Ev("opencode_session_deleted") EXCEPT !.sid = s]
             IN  WellFormed(e) /\ e.type = "opencode_session_deleted"
  BY DEF WellFormed, Ev, Event, Status, EventType, Session
<1> QED
  BY <1>1, <1>2, <1>3, <1>4

(* The log with one more line. *)
Grown(e) ==
    /\ log' \in Seq(Event)
    /\ Len(log') = Len(log) + 1
    /\ DOMAIN log' = DOMAIN log \cup {Len(log) + 1}
    /\ Len(log) + 1 \notin DOMAIN log
    /\ \A i \in DOMAIN log : i < Len(log) + 1 /\ log'[i] = log[i]
    /\ log'[Len(log) + 1] = e

(* An append is a line, or glued to half a line and so none. *)
LEMMA AppendGrows ==
    ASSUME log \in Seq(Event), torn \in BOOLEAN, NEW e, WellFormed(e), AppendEvent(e)
    PROVE  (torn /\ log' = log) \/ (~torn /\ Grown(e))
<1>1. CASE torn
  BY <1>1 DEF AppendEvent, Appended
<1>2. CASE ~torn
  <2>1. log' = Append(log, e) /\ e \in Event
    BY <1>2 DEF AppendEvent, Appended, WellFormed
  <2>2. /\ Append(log, e) \in Seq(Event)
        /\ Len(Append(log, e)) = Len(log) + 1
        /\ \A i \in 1..Len(log) : Append(log, e)[i] = log[i]
        /\ Append(log, e)[Len(log) + 1] = e
    BY <2>1, AppendProperties
  <2>3. DOMAIN log = 1..Len(log) /\ Len(log) \in Nat
    OBVIOUS
  <2>4. log' \in Seq(Event) /\ Len(log') = Len(log) + 1 /\ DOMAIN log' = 1..(Len(log) + 1)
    BY <2>1, <2>2
  <2>5. DOMAIN log' = DOMAIN log \cup {Len(log) + 1}
    BY <2>3, <2>4
  <2>6. \A i \in DOMAIN log : i < Len(log) + 1 /\ log'[i] = log[i]
    BY <2>1, <2>2, <2>3
  <2>7. Len(log) + 1 \notin DOMAIN log /\ log'[Len(log) + 1] = e
    BY <2>1, <2>2, <2>3
  <2>8. Grown(e)
    BY <2>4, <2>5, <2>6, <2>7, Zenon DEF Grown
  <2> QED
    BY <1>2, <2>8
<1> QED
  BY <1>1, <1>2

(* Nobody but the watcher logs a captured session. *)
LogStep ==
    \/ log' = log
    \/ \E e : WellFormed(e) /\ e.type # "session_captured" /\ Grown(e)

LEMMA AppendIsLogStep ==
    ASSUME log \in Seq(Event), torn \in BOOLEAN, NEW e, WellFormed(e),
           e.type # "session_captured", AppendEvent(e)
    PROVE  LogStep
BY AppendGrows DEF LogStep

LEMMA StepsLog ==
    ASSUME TypeOK, Form, Next
    PROVE  LogStep \/ Poll
<1> USE DEF TypeOK
<1>t. \A t \in {"node_dispatched", "node_redispatched", "node_gate_failed", "node_nudged",
                "node_reopened"} : t \in EventType \ {"episode_completed", "session_captured"}
  BY DEF EventType, ReplayInvalidating, WriterLifecycle
<1>1. CASE Replay
  BY <1>1 DEF Replay, durable, LogStep
<1>2. CASE Dispatch
  <2>1. PICK t \in {"node_dispatched", "node_redispatched"} : AppendEvent(Ev(t))
    BY <1>2 DEF Dispatch
  <2> QED
    BY <1>t, <2>1, EvWellFormed, AppendIsLogStep
<1>3. CASE Prepare \/ Waive \/ Launch \/ CliOpens \/ CliPrints \/ CliWrites \/ BypassMidFlight
           \/ Fill \/ Pass \/ RequestBypass \/ Kill
  BY <1>3 DEF Prepare, Waive, Launch, CliOpens, CliPrints, CliWrites, BypassMidFlight, Fill, Pass,
              RequestBypass, Kill, AppendUnread, durable, LogStep
<1>4. CASE \E status \in Status : CliEnds(status)
  BY <1>4 DEF CliEnds, LogStep
<1>5. CASE WaiveDone \/ Complete
  <2>1. PICK st \in Status : AppendEvent([Ev("episode_completed") EXCEPT !.note = st])
    BY <1>5 DEF WaiveDone, Complete, Status
  <2> QED
    BY <2>1, EvWellFormed, AppendIsLogStep
<1>6. CASE Judged("node_gate_failed") \/ Judged("node_nudged") \/ Reopen
  <2>1. PICK t \in {"node_gate_failed", "node_nudged", "node_reopened"} : AppendEvent(Ev(t))
    BY <1>6 DEF Judged, Reopen
  <2> QED
    BY <1>t, <2>1, EvWellFormed, AppendIsLogStep
<1>7. CASE \E s \in cleaner : CleanerDeletes(s) \/ CleanerFails(s)
  BY <1>7 DEF CleanerDeletes, CleanerFails, AppendUnread, durable, LogStep
<1>8. CASE CleanerLogs
  BY <1>8, EvWellFormed, AppendIsLogStep DEF CleanerLogs, Session
<1> QED
  BY <1>1, <1>2, <1>3, <1>4, <1>5, <1>6, <1>7, <1>8 DEF Next

LEMMA LogStepKeeps ==
    ASSUME TypeOK, Form, LogStep
    PROVE  /\ log' \in Seq(Event)
           /\ \A i \in DOMAIN log' :
                 /\ log'[i].type = "episode_completed" => log'[i].note \in Status
                 /\ log'[i].type = "session_captured" =>
                       log'[i].sid # 0 /\ i \in DOMAIN log /\ log'[i] = log[i]
           /\ CapturedOnce => CapturedOnce'
           /\ KnownSessions \subseteq KnownSessions'
<1>1. CASE log' = log
  BY <1>1 DEF TypeOK, Form, CapturedOnce, KnownSessions
<1>2. ASSUME NEW e, WellFormed(e), e.type # "session_captured", Grown(e)
      PROVE  /\ log' \in Seq(Event)
             /\ \A i \in DOMAIN log' :
                   /\ log'[i].type = "episode_completed" => log'[i].note \in Status
                   /\ log'[i].type = "session_captured" =>
                         log'[i].sid # 0 /\ i \in DOMAIN log /\ log'[i] = log[i]
             /\ KnownSessions \subseteq KnownSessions'
  <2>1. log' \in Seq(Event)
    BY <1>2 DEF Grown
  <2>2. ASSUME NEW i \in DOMAIN log'
        PROVE  /\ log'[i].type = "episode_completed" => log'[i].note \in Status
               /\ log'[i].type = "session_captured" =>
                     log'[i].sid # 0 /\ i \in DOMAIN log /\ log'[i] = log[i]
    BY <1>2 DEF Grown, Form, WellFormed
  <2>3. KnownSessions \subseteq KnownSessions'
    BY <1>2, Zenon DEF Grown, KnownSessions
  <2> QED
    BY <2>1, <2>2, <2>3
<1>3. /\ log' \in Seq(Event)
      /\ \A i \in DOMAIN log' :
            /\ log'[i].type = "episode_completed" => log'[i].note \in Status
            /\ log'[i].type = "session_captured" =>
                  log'[i].sid # 0 /\ i \in DOMAIN log /\ log'[i] = log[i]
      /\ KnownSessions \subseteq KnownSessions'
  BY <1>1, <1>2 DEF LogStep, TypeOK, Form, KnownSessions
<1>4. CapturedOnce => CapturedOnce'
  BY <1>3 DEF CapturedOnce
<1> QED
  BY <1>3, <1>4

(* What the watcher finds, when it polls. *)
LEMMA PollLogs ==
    ASSUME TypeOK, Form, Poll
    PROVE  /\ seen' = Len(trace) /\ seen < Len(trace)
           /\ \/ /\ log' = log /\ UNCHANGED <<torn, watching>>
                 /\ \A i \in DOMAIN trace : i > seen => trace[i] \in call.known
              \/ \E e : /\ WellFormed(e) /\ e.type = "session_captured" /\ e.sid \notin call.known
                        /\ e.sid \in ToSet(trace)
                        /\ AppendEvent(e) /\ watching' = FALSE
<1> DEFINE lines == SubSeq(trace, seen + 1, Len(trace))
<1>1. trace \in Seq(Session) /\ Len(trace) \in Nat /\ seen \in Nat /\ seen < Len(trace)
  BY DEF TypeOK, Poll
<1>2. /\ lines \in Seq(Session)
      /\ Len(lines) = Len(trace) - seen
      /\ \A i \in 1..Len(lines) : lines[i] = trace[seen + i]
  <2>1. \A i \in (seen + 1)..Len(trace) : trace[i] \in Session
    BY <1>1
  <2>2. /\ lines \in Seq(Session)
        /\ Len(lines) = IF seen + 1 <= Len(trace) THEN Len(trace) - (seen + 1) + 1 ELSE 0
        /\ \A i \in 1..(Len(trace) - (seen + 1) + 1) : lines[i] = trace[seen + 1 + i - 1]
    BY <1>1, <2>1, SubSeqProperties
  <2>3. Len(lines) = Len(trace) - seen
    BY <1>1, <2>2
  <2>4. ASSUME NEW i \in 1..Len(lines) PROVE lines[i] = trace[seen + i]
    BY <1>1, <2>2, <2>3
  <2> QED
    BY <2>2, <2>3, <2>4
<1> HIDE DEF lines
<1>3. /\ NewIn(lines) \in 0..Len(lines)
      /\ NewIn(lines) = 0 => \A i \in 1..Len(lines) : lines[i] \in call.known
      /\ NewIn(lines) # 0 => lines[NewIn(lines)] \notin call.known
  BY <1>2, NewInFinds
<1>4. /\ seen' = Len(trace)
      /\ IF NewIn(lines) = 0 THEN UNCHANGED <<log, torn, watching>>
         ELSE /\ AppendEvent([Ev("session_captured") EXCEPT !.sid = lines[NewIn(lines)]])
              /\ watching' = FALSE
  BY DEF Poll, lines
<1>5. CASE NewIn(lines) = 0
  <2>1. ASSUME NEW i \in DOMAIN trace, i > seen PROVE trace[i] \in call.known
    <3>1. i - seen \in 1..Len(lines) /\ seen + (i - seen) = i
      BY <1>1, <1>2, <2>1
    <3> QED
      BY <1>2, <1>3, <1>5, <3>1
  <2> QED
    BY <1>1, <1>4, <1>5, <2>1
<1>6. CASE NewIn(lines) # 0
  <2>1. /\ lines[NewIn(lines)] \in Session /\ lines[NewIn(lines)] \notin call.known
        /\ lines[NewIn(lines)] \in ToSet(trace)
    <3>1. NewIn(lines) \in 1..Len(lines) /\ seen + NewIn(lines) \in DOMAIN trace
      BY <1>1, <1>2, <1>3, <1>6
    <3> QED
      BY <1>1, <1>2, <1>3, <1>6, <3>1 DEF ToSet
  <2> DEFINE e == [Ev("session_captured") EXCEPT !.sid = lines[NewIn(lines)]]
  <2>2. WellFormed(e) /\ e.type = "session_captured" /\ e.sid = lines[NewIn(lines)]
    BY <2>1, EvWellFormed
  <2>3. AppendEvent(e) /\ watching' = FALSE
    BY <1>4, <1>6
  <2> HIDE DEF e
  <2> QED
    BY <1>1, <1>4, <2>1, <2>2, <2>3
<1> QED
  BY <1>5, <1>6

LEMMA PollKeeps ==
    ASSUME TypeOK, Form, CaptureInv, Poll
    PROVE  /\ log' \in Seq(Event)
           /\ \A i \in DOMAIN log' :
                 /\ log'[i].type = "episode_completed" => log'[i].note \in Status
                 /\ log'[i].type = "session_captured" => log'[i].sid # 0
           /\ CapturedOnce => CapturedOnce'
           /\ KnownSessions \subseteq KnownSessions'
           /\ torn' \in BOOLEAN /\ watching' \in BOOLEAN
           /\ watching' => watching /\ log' = log
<1>1. CASE log' = log /\ torn' \in BOOLEAN /\ watching' \in BOOLEAN /\ (watching' => watching)
  BY <1>1 DEF TypeOK, Form, CapturedOnce, KnownSessions
<1>2. ASSUME NEW e, WellFormed(e), e.type = "session_captured", e.sid \notin call.known,
             Grown(e), torn' = FALSE, watching' = FALSE
      PROVE  /\ log' \in Seq(Event)
             /\ \A i \in DOMAIN log' :
                   /\ log'[i].type = "episode_completed" => log'[i].note \in Status
                   /\ log'[i].type = "session_captured" => log'[i].sid # 0
             /\ CapturedOnce => CapturedOnce'
             /\ KnownSessions \subseteq KnownSessions'
  <2>1. log' \in Seq(Event)
    BY <1>2 DEF Grown
  <2>2. ASSUME NEW i \in DOMAIN log'
        PROVE  /\ log'[i].type = "episode_completed" => log'[i].note \in Status
               /\ log'[i].type = "session_captured" => log'[i].sid # 0
    BY <1>2 DEF Grown, Form, WellFormed
  <2>3. KnownSessions \subseteq KnownSessions'
    BY <1>2, Zenon DEF Grown, KnownSessions
  <2>4. watching
    BY DEF Poll
  <2>5. \A i \in DOMAIN log : log[i].type = "session_captured" => log[i].sid # e.sid
    BY <1>2, <2>4 DEF CaptureInv
  <2>6. ASSUME CapturedOnce PROVE CapturedOnce'
    BY <1>2, <2>5, <2>6 DEF CapturedOnce, Grown
  <2> QED
    BY <2>1, <2>2, <2>3, <2>6
<1>3. CASE \E e : /\ WellFormed(e) /\ e.type = "session_captured" /\ e.sid \notin call.known
                  /\ AppendEvent(e) /\ watching' = FALSE
  <2>1. PICK e : /\ WellFormed(e) /\ e.type = "session_captured" /\ e.sid \notin call.known
                 /\ AppendEvent(e) /\ watching' = FALSE
    BY <1>3
  <2>2. log \in Seq(Event) /\ torn \in BOOLEAN
    BY DEF TypeOK
  <2>3. (torn /\ log' = log) \/ (~torn /\ Grown(e))
    BY <2>1, <2>2, AppendGrows
  <2>4. torn' = FALSE
    BY <2>1 DEF AppendEvent
  <2>5. CASE log' = log
    BY <1>1, <2>1, <2>4, <2>5
  <2>6. CASE Grown(e)
    BY <1>2, <2>1, <2>4, <2>6
  <2> QED
    BY <2>3, <2>5, <2>6
<1> QED
  BY <1>1, <1>3, PollLogs DEF TypeOK

-----------------------------------------------------------------------------
(* Type correctness. *)

(* The snapshot just taken is the last, and no more than MaxKeep are kept.  *)
LEMMA SnapshottedLast ==
    ASSUME art \in Artifact, snaps \in Seq(Artifact), Len(snaps) <= MaxKeep
    PROVE  /\ Snapshotted \in Seq(Artifact) /\ Len(Snapshotted) <= MaxKeep
           /\ art.v # 0 => Snapshotted # <<>> /\ Last(Snapshotted) = art
<1> DEFINE all == Append(snaps, art)
           from == IF Len(all) > MaxKeep THEN Len(all) - MaxKeep + 1 ELSE 1
<1>1. CASE art.v = 0
  BY <1>1 DEF Snapshotted
<1>2. CASE art.v # 0
  <2>1. MaxKeep \in Nat /\ MaxKeep # 0 /\ Len(snaps) \in Nat
    BY RunNodeAssumption
  <2>2. /\ all \in Seq(Artifact) /\ Len(all) = Len(snaps) + 1
        /\ all[Len(snaps) + 1] = art
    BY AppendProperties
  <2>3. Snapshotted = SubSeq(all, from, Len(all))
    BY <1>2 DEF Snapshotted
  <2> HIDE DEF all
  <2>4. from \in 1..Len(all) /\ Len(all) - from + 1 \in 1..MaxKeep
    BY <2>1, <2>2
  <2> HIDE DEF from
  <2>5. \A i \in from..Len(all) : all[i] \in Artifact
    BY <2>2, <2>4
  <2>6. /\ Snapshotted \in Seq(Artifact)
        /\ Len(Snapshotted) = Len(all) - from + 1
        /\ \A i \in 1..(Len(all) - from + 1) : Snapshotted[i] = all[from + i - 1]
    BY <2>1, <2>2, <2>3, <2>4, <2>5, SubSeqProperties
  <2>7. Snapshotted[Len(Snapshotted)] = art
    BY <2>1, <2>2, <2>4, <2>6
  <2>8. Snapshotted # <<>> /\ Last(Snapshotted) = art
    BY <2>4, <2>6, <2>7 DEF Last
  <2> QED
    BY <2>4, <2>6, <2>8
<1> QED
  BY <1>1, <1>2

LEMMA SessionsNamed ==
    ASSUME TypeOK
    PROVE  KnownSessions \in SUBSET Session /\ CapturedSession \in Nat
<1>1. \A i \in DOMAIN log : log[i].sid \in Nat
  <2>1. \A i \in DOMAIN log : log[i] \in Event
    BY DEF TypeOK
  <2> QED
    BY <2>1 DEF Event
<1>2. LastEvent({"session_captured"}) \in 0..Len(log)
  BY LastEventFinds DEF TypeOK
<1>3. CapturedSession \in Nat
  BY <1>1, <1>2 DEF CapturedSession, TypeOK
<1> QED
  BY <1>1, <1>3 DEF KnownSessions, Session

LEMMA CompletedStatus ==
    ASSUME TypeOK, Form, Completed # 0
    PROVE  Completed \in DOMAIN log /\ log[Completed].note \in Status
<1>1. /\ Completed \in 0..Len(log)
      /\ log[Completed].type \in {"episode_completed"}
  BY LastEventFinds DEF TypeOK, Completed
<1> QED
  BY <1>1 DEF TypeOK, Form

LEMMA TypeInit == Init => TypeOK
<1> SUFFICES ASSUME Init PROVE TypeOK
  OBVIOUS
<1>1. NoCall \in [reason: Reason, resume: Nat, known: SUBSET Session, old: SUBSET Session,
                  resumes: BOOLEAN, status: Status, found: Artifact]
  BY DEF NoCall, Reason, Status, Artifact, Empty
<1>2. log \in Seq(Event) /\ trace \in Seq(Session) /\ snaps \in Seq(Artifact)
  BY DEF Init
<1>3. Len(snaps) <= MaxKeep /\ Len(trace) = 0
  BY RunNodeAssumption DEF Init
<1>4. art \in Artifact /\ stage \in Stage
  BY DEF Init, Artifact, Empty, Stage
<1>5. calls \in 0..MaxCalls /\ crashes \in 0..MaxCrashes /\ edits \in 0..MaxEdits
  BY RunNodeAssumption DEF Init
<1>6. seen \in 0..Len(trace) + 1 /\ gone \in Nat /\ cli \in Nat
  BY <1>3 DEF Init
<1>7. /\ torn \in BOOLEAN /\ half \in BOOLEAN /\ flag \in BOOLEAN /\ stubs \in BOOLEAN
      /\ watching \in BOOLEAN /\ owed \in BOOLEAN /\ node \in {"pending", "passed"}
      /\ store \in SUBSET Session /\ cleaner \in SUBSET Session
  BY Zenon DEF Init
<1>8. call \in [reason: Reason, resume: Nat, known: SUBSET Session, old: SUBSET Session,
                resumes: BOOLEAN, status: Status, found: Artifact]
  BY <1>1 DEF Init
<1> QED
  BY <1>2, <1>3, <1>4, <1>5, <1>6, <1>7, <1>8 DEF TypeOK

LEMMA TypeStep ==
    ASSUME TypeOK, Form, CaptureInv, Next
    PROVE  TypeOK'
<1> USE RunNodeAssumption DEF TypeOK
<1>l. log' \in Seq(Event)
  BY StepsLog, LogStepKeeps, PollKeeps
<1>n. NoCall \in [reason: Reason, resume: Nat, known: SUBSET Session, old: SUBSET Session,
                  resumes: BOOLEAN, status: Status, found: Artifact]
  BY DEF NoCall, Reason, Status, Artifact, Empty
<1>1. CASE Replay
  <2>1. log[Completed].note \in Status
    BY <1>1, CompletedStatus DEF Replay
  <2>2. call' \in [reason: Reason, resume: Nat, known: SUBSET Session, old: SUBSET Session,
                   resumes: BOOLEAN, status: Status, found: Artifact]
    BY <1>1, <1>n, <2>1 DEF Replay
  <2>3. calls' \in 0..MaxCalls /\ stage' \in Stage
    BY <1>1 DEF Replay, Stage
  <2> QED
    BY <1>1, <2>2, <2>3 DEF Replay, durable, episode, cleanup
<1>2. CASE Dispatch
  <2>1. PICK resumes \in Adapters :
            call' = [NoCall EXCEPT
                       !.reason = Why(resumes), !.resumes = resumes, !.known = KnownSessions,
                       !.resume = IF Why(resumes) \in {"resumed_session", "nudged_session"}
                                  THEN CapturedSession ELSE 0]
    BY <1>2 DEF Dispatch
  <2>2. Why(resumes) \in Reason
    <3>1. \/ CapturedSession = 0 /\ LastEvent({"node_dispatched"}) = 0
          \/ CapturedSession = 0 /\ LastEvent({"node_dispatched"}) # 0
          \/ CapturedSession # 0 /\ SessionDeleted(CapturedSession)
          \/ CapturedSession # 0 /\ ~SessionDeleted(CapturedSession) /\ ~resumes
          \/ CapturedSession # 0 /\ ~SessionDeleted(CapturedSession) /\ resumes /\ ~Resumable
          \/ CapturedSession # 0 /\ ~SessionDeleted(CapturedSession) /\ resumes /\ Resumable
      OBVIOUS
    <3> QED
      BY <3>1 DEF Why, Reason
  <2>3. call' \in [reason: Reason, resume: Nat, known: SUBSET Session, old: SUBSET Session,
                   resumes: BOOLEAN, status: Status, found: Artifact]
    BY <1>n, <2>1, <2>2, SessionsNamed
  <2>4. calls' \in 0..MaxCalls /\ stage' \in Stage
    BY <1>2 DEF Dispatch, Stage
  <2>5. torn' = FALSE
    BY <1>2 DEF Dispatch, AppendEvent
  <2> QED
    BY <1>2, <1>l, <2>3, <2>4, <2>5 DEF Dispatch, episode, cleanup
<1>3. CASE Prepare
  BY <1>3, <1>l DEF Prepare, AppendUnread, episode, cleanup, counters, Stage, Artifact
<1>4. CASE Waive \/ WaiveDone
  BY <1>4, <1>l DEF Waive, WaiveDone, AppendUnread, AppendEvent, episode, cleanup, counters, Stage
<1>5. CASE Launch
  <2>1. snaps' \in Seq(Artifact) /\ Len(snaps') <= MaxKeep
    BY <1>5, SnapshottedLast DEF Launch
  <2>2. ToSet(trace) \in SUBSET Session
    BY DEF ToSet
  <2>3. call' \in [reason: Reason, resume: Nat, known: SUBSET Session, old: SUBSET Session,
                   resumes: BOOLEAN, status: Status, found: Artifact]
    BY <1>5, <2>2 DEF Launch
  <2> QED
    BY <1>5, <2>1, <2>3 DEF Launch, cleanup, counters, Stage
<1>6. CASE CliOpens
  <2>1. cli' \in Session
    BY <1>6 DEF CliOpens, Form, Session
  <2> QED
    BY <1>6, <2>1 DEF CliOpens, counters, Session
<1>7. CASE CliPrints
  <2>1. trace' \in Seq(Session) /\ Len(trace') = Len(trace) + 1
    BY <1>7, AppendProperties DEF CliPrints, Session
  <2>2. seen' \in 0..Len(trace') + 1
    BY <1>7, <2>1 DEF CliPrints, episode
  <2> QED
    BY <1>7, <2>1, <2>2 DEF CliPrints, episode, cleanup, counters
<1>8. CASE CliWrites
  <2>1. art' = Empty \/ art' \in [v: {calls}, curly: Punctuations]
    BY <1>8 DEF CliWrites
  <2>2. Empty \in Artifact
    BY DEF Empty, Artifact
  <2>3. [v: {calls}, curly: Punctuations] \subseteq Artifact
    BY DEF Artifact
  <2>4. art' \in Artifact
    BY <2>1, <2>2, <2>3
  <2> QED
    BY <1>8, <2>4 DEF CliWrites, episode, cleanup, counters
<1>9. CASE \E status \in Status : CliEnds(status)
  <2>1. PICK status \in Status : CliEnds(status)
    BY <1>9
  <2>2. call' \in [reason: Reason, resume: Nat, known: SUBSET Session, old: SUBSET Session,
                   resumes: BOOLEAN, status: Status, found: Artifact]
    BY <2>1 DEF CliEnds
  <2>3. stage' \in Stage /\ seen' \in 0..Len(trace) + 1
    BY <2>1 DEF CliEnds, Stage
  <2> QED
    BY <2>1, <2>2, <2>3 DEF CliEnds, cleanup, counters
<1>10. CASE BypassMidFlight
  <2>1. call' \in [reason: Reason, resume: Nat, known: SUBSET Session, old: SUBSET Session,
                   resumes: BOOLEAN, status: Status, found: Artifact]
    BY <1>10 DEF BypassMidFlight, Status
  <2>2. stage' \in Stage /\ seen' \in 0..Len(trace) + 1
    BY <1>10 DEF BypassMidFlight, Stage
  <2> QED
    BY <1>10, <1>l, <2>1, <2>2 DEF BypassMidFlight, AppendUnread, cleanup, counters
<1>11. CASE Poll
  <2>1. torn' \in BOOLEAN /\ watching' \in BOOLEAN
    BY <1>11, PollKeeps
  <2>2. seen' \in 0..Len(trace) + 1
    BY <1>11 DEF Poll
  <2> QED
    BY <1>11, <1>l, <2>1, <2>2 DEF Poll, cleanup, counters
<1>12. CASE Fill
  <2>1. art' \in Artifact
    BY <1>12 DEF Fill, Artifact
  <2> QED
    BY <1>12, <2>1 DEF Fill, episode, cleanup, counters, Stage
<1>13. CASE Complete
  BY <1>13, <1>l DEF Complete, AppendEvent, episode, cleanup, counters, Stage
<1>14. CASE Judged("node_gate_failed") \/ Judged("node_nudged")
  BY <1>14, <1>l, <1>n DEF Judged, AppendEvent, episode, cleanup, counters, Stage
<1>15. CASE Pass
  <2>1. cleaner' \in SUBSET Session
    BY <1>15, SessionsNamed DEF Pass, Deletable
  <2> QED
    BY <1>15, <1>n, <2>1 DEF Pass, durable, episode, counters, Stage
<1>16. CASE \E s \in cleaner : CleanerDeletes(s) \/ CleanerFails(s)
  BY <1>16, <1>l DEF CleanerDeletes, CleanerFails, AppendUnread, durable, episode, counters, Session
<1>17. CASE CleanerLogs
  BY <1>17, <1>l DEF CleanerLogs, AppendEvent, episode, counters
<1>18. CASE Reopen
  <2>1. edits' \in 0..MaxEdits
    BY <1>18 DEF Reopen
  <2> QED
    BY <1>18, <1>l, <2>1 DEF Reopen, AppendEvent, episode, cleanup
<1>19. CASE RequestBypass
  <2>1. edits' \in 0..MaxEdits
    BY <1>19 DEF RequestBypass
  <2> QED
    BY <1>19, <1>l, <2>1 DEF RequestBypass, AppendUnread, episode, cleanup
<1>20. CASE Kill
  <2>1. crashes' \in 0..MaxCrashes /\ stage' \in Stage /\ seen' \in 0..Len(trace) + 1
    BY <1>20 DEF Kill, Stage
  <2> QED
    BY <1>20, <1>n, <2>1 DEF Kill
<1> QED
  BY <1>1, <1>2, <1>3, <1>4, <1>5, <1>6, <1>7, <1>8, <1>9, <1>10, <1>11, <1>12, <1>13, <1>14,
     <1>15, <1>16, <1>17, <1>18, <1>19, <1>20 DEF Next

-----------------------------------------------------------------------------
(* Captured once, and what was found kept. *)

LEMMA FormStep ==
    ASSUME TypeOK, Form, CaptureInv, Next
    PROVE  Form'
<1>1. \A i \in DOMAIN log' :
          /\ log'[i].type = "episode_completed" => log'[i].note \in Status
          /\ log'[i].type = "session_captured" => log'[i].sid # 0
  BY StepsLog, LogStepKeeps, PollKeeps
<1>2. stage' # "idle" => calls' # 0
  <2>1. CASE stage = "idle" /\ stage' # "idle"
    <3>1. calls' = calls + 1
      BY <2>1 DEF Next, Replay, Dispatch, Prepare, Waive, WaiveDone, Launch, CliOpens, CliPrints,
                  CliWrites, CliEnds, BypassMidFlight, Poll, Fill, Complete, Judged, Pass,
                  CleanerDeletes, CleanerFails, CleanerLogs, Reopen, RequestBypass, Kill
    <3> QED
      BY <3>1 DEF TypeOK
  <2>2. CASE stage # "idle"
    <3>1. calls' = calls
      BY <2>2 DEF Next, Replay, Dispatch, Prepare, Waive, WaiveDone, Launch, CliOpens, CliPrints,
                  CliWrites, CliEnds, BypassMidFlight, Poll, Fill, Complete, Judged, Pass,
                  CleanerDeletes, CleanerFails, CleanerLogs, Reopen, RequestBypass, Kill, counters
    <3> QED
      BY <2>2, <3>1 DEF Form
  <2> QED
    BY <2>1, <2>2
<1> QED
  BY <1>1, <1>2 DEF Form

(* A call knows more sessions only when it is dispatched, and forgets them
   only when no watcher is there.                                           *)
LEMMA CallKnown ==
    ASSUME TypeOK, CaptureInv, Next
    PROVE  \/ Dispatch
           \/ Launch
           \/ /\ call'.known = {} /\ ~watching' /\ stage' \notin {"dispatched", "prepared"}
           \/ /\ call'.known = call.known /\ call'.resumes = call.resumes
              /\ watching' => watching
              /\ stage' = stage \/ (stage' # "episode" /\ ~watching')
              /\ stage' \in {"dispatched", "prepared"} => stage \in {"dispatched", "prepared"}
<1> USE DEF TypeOK, CaptureInv
<1>n. NoCall.known = {} /\ \A st : [NoCall EXCEPT !.status = st].known = {}
  BY DEF NoCall
<1>1. CASE Replay
  <2>1. call'.known = {}
    BY <1>1, <1>n DEF Replay
  <2>2. ~watching' /\ stage' = "returned"
    BY <1>1 DEF Replay, episode
  <2> QED
    BY <2>1, <2>2
<1>2. CASE Judged("node_gate_failed") \/ Judged("node_nudged") \/ Pass \/ Kill
  <2>1. call' = NoCall /\ stage' = "idle"
    BY <1>2 DEF Judged, Pass, Kill
  <2>2. ~watching'
    BY <1>2 DEF Judged, Pass, Kill, episode
  <2> QED
    BY <1>n, <2>1, <2>2
<1>3. CASE \/ Prepare \/ Waive \/ WaiveDone \/ CliOpens \/ CliPrints \/ CliWrites
           \/ BypassMidFlight \/ Fill \/ Complete \/ CleanerLogs \/ Reopen \/ RequestBypass
  BY <1>3 DEF Prepare, Waive, WaiveDone, CliOpens, CliPrints, CliWrites, BypassMidFlight, Fill,
              Complete, CleanerLogs, Reopen, RequestBypass, episode
<1>4. CASE \E status \in Status : CliEnds(status)
  BY <1>4 DEF CliEnds
<1>5. CASE \E s \in cleaner : CleanerDeletes(s) \/ CleanerFails(s)
  BY <1>5 DEF CleanerDeletes, CleanerFails, episode
<1>6. CASE Poll
  <2>1. UNCHANGED <<call, stage>> /\ (watching' => watching)
    BY <1>6 DEF Poll
  <2> QED
    BY <2>1
<1> QED
  BY <1>1, <1>2, <1>3, <1>4, <1>5, <1>6 DEF Next

LEMMA CaptureStep ==
    ASSUME TypeOK, Form, CaptureInv, Next
    PROVE  CaptureInv'
<1>1. ASSUME LogStep PROVE CaptureInv'
  <2>1. /\ \A i \in DOMAIN log' : log'[i].type = "session_captured" =>
              i \in DOMAIN log /\ log'[i] = log[i]
        /\ KnownSessions \subseteq KnownSessions'
    BY <1>1, LogStepKeeps
  <2>2. CASE Dispatch
    <3>1. call'.known = KnownSessions
      BY <2>2 DEF Dispatch, NoCall
    <3>2. ~watching'
      BY <2>2 DEF Dispatch, episode, CaptureInv
    <3>3. \A i \in DOMAIN log : log[i].type = "session_captured" => log[i].sid \in KnownSessions
      BY DEF Form, KnownSessions
    <3> QED
      BY <2>1, <3>1, <3>2, <3>3 DEF CaptureInv
  <2>3. CASE Launch
    <3>1. call'.known = call.known /\ call'.resumes = call.resumes
      BY <2>3 DEF Launch, TypeOK
    <3> QED
      BY <2>1, <2>3, <3>1 DEF CaptureInv, Launch
  <2>4. CASE call'.known = {} /\ ~watching' /\ stage' \notin {"dispatched", "prepared"}
    BY <2>4 DEF CaptureInv
  <2>5. CASE /\ call'.known = call.known /\ call'.resumes = call.resumes
             /\ watching' => watching
             /\ stage' = stage \/ (stage' # "episode" /\ ~watching')
             /\ stage' \in {"dispatched", "prepared"} => stage \in {"dispatched", "prepared"}
    BY <2>1, <2>5 DEF CaptureInv
  <2> QED
    BY <2>2, <2>3, <2>4, <2>5, CallKnown
<1>2. ASSUME Poll PROVE CaptureInv'
  <2>1. watching /\ UNCHANGED <<stage, call>>
    BY <1>2 DEF Poll
  <2>2. KnownSessions \subseteq KnownSessions' /\ (watching' => watching /\ log' = log)
    BY <1>2, PollKeeps
  <2> QED
    BY <2>1, <2>2 DEF CaptureInv
<1> QED
  BY <1>1, <1>2, StepsLog

LEMMA FoundStep ==
    ASSUME TypeOK, FoundIsKept, Next
    PROVE  FoundIsKept'
<1> USE DEF FoundIsKept
<1>1. CASE Launch
  <2>1. call'.found = art /\ snaps' = Snapshotted
    BY <1>1 DEF Launch, TypeOK
  <2> QED
    BY <2>1, SnapshottedLast DEF TypeOK
<1>2. CASE stage' \notin {"episode", "ended", "filled"}
  BY <1>2
<1>3. CASE ~Launch /\ stage' \in {"episode", "ended", "filled"}
  <2>1. UNCHANGED snaps /\ call'.found = call.found /\ stage \in {"episode", "ended", "filled"}
    BY <1>3 DEF Next, Replay, Dispatch, Prepare, Waive, WaiveDone, CliOpens, CliPrints,
                CliWrites, CliEnds, BypassMidFlight, Poll, Fill, Complete, Judged, Pass,
                CleanerDeletes, CleanerFails, CleanerLogs, Reopen, RequestBypass, Kill, durable,
                TypeOK
  <2> QED
    BY <1>3, <2>1
<1> QED
  BY <1>1, <1>2, <1>3

LEMMA BaseInit == Init => BaseInv
BY TypeInit DEF Init, BaseInv, Form, CaptureInv, CapturedOnce, FoundIsKept, NoCall, KnownSessions

LEMMA BaseStep == BaseInv /\ [Next]_vars => BaseInv'
<1>1. ASSUME BaseInv, Next PROVE BaseInv'
  <2>1. CapturedOnce'
    BY <1>1, StepsLog, LogStepKeeps, PollKeeps DEF BaseInv
  <2> QED
    BY <1>1, <2>1, TypeStep, FormStep, CaptureStep, FoundStep DEF BaseInv
<1>2. ASSUME BaseInv, UNCHANGED vars PROVE BaseInv'
  BY <1>2 DEF BaseInv, TypeOK, Form, CaptureInv, CapturedOnce, FoundIsKept, KnownSessions, vars,
              durable, episode, cleanup, counters
<1> QED
  BY <1>1, <1>2

LEMMA BaseAlways == Spec => []BaseInv
BY BaseInit, BaseStep, PTL DEF Spec

(* TypeOK, for every adapter and every bound. *)
THEOREM TypeCorrect == Spec => []TypeOK
BY BaseAlways, PTL DEF BaseInv

(* CapturedOnce: a session is captured once, over any number of kills and
   retries, with lines of events.jsonl lost to a torn tail or not.          *)
THEOREM SessionsCapturedOnce == Spec => []CapturedOnce
BY BaseAlways, PTL DEF BaseInv

(* FoundIsKept: while an episode runs and until its result is logged, the
   newest snapshot is the artifact the episode started from.                *)
THEOREM FoundIsPutBack == Spec => []FoundIsKept
BY BaseAlways, PTL DEF BaseInv

-----------------------------------------------------------------------------
(* Where no kill tears events.jsonl. *)

(* A result nobody has acted on, as the log shows it. *)
PendingResult ==
    \E i \in DOMAIN log :
        /\ log[i].type = "episode_completed"
        /\ \A j \in DOMAIN log :
              j > i => log[j].type \notin ReplayInvalidating \cup {"episode_completed"}

OwedInv ==
    /\ ~torn
    /\ node = "pending" => (owed <=> PendingResult)
    /\ node = "passed" => stage = "idle"

LEMMA PendingIsReplayed ==
    ASSUME TypeOK
    PROVE  PendingResult <=> Completed # 0 /\ ~Consumed
<1>1. /\ Completed \in 0..Len(log)
      /\ Completed = 0 => \A i \in DOMAIN log : log[i].type # "episode_completed"
      /\ Completed # 0 =>
            /\ log[Completed].type = "episode_completed"
            /\ \A i \in DOMAIN log : i > Completed => log[i].type # "episode_completed"
  BY LastEventFinds DEF TypeOK, Completed
<1>d. DOMAIN log = 1..Len(log) /\ Len(log) \in Nat
  BY DEF TypeOK
<1>2. ASSUME Completed # 0, ~Consumed PROVE PendingResult
  BY <1>1, <1>d, <1>2 DEF PendingResult, Consumed
<1>3. ASSUME PendingResult PROVE Completed # 0 /\ ~Consumed
  <2>1. PICK i \in DOMAIN log :
            /\ log[i].type = "episode_completed"
            /\ \A j \in DOMAIN log :
                  j > i => log[j].type \notin ReplayInvalidating \cup {"episode_completed"}
    BY <1>3 DEF PendingResult
  <2>2. Completed # 0
    BY <1>1, <2>1
  <2>3. Completed = i
    BY <1>1, <1>d, <2>1, <2>2
  <2> QED
    BY <2>1, <2>2, <2>3 DEF Consumed
<1> QED
  BY <1>2, <1>3

LEMMA PendingGrows ==
    ASSUME log \in Seq(Event), NEW e, Grown(e)
    PROVE  /\ e.type = "episode_completed" => PendingResult'
           /\ e.type \in ReplayInvalidating => ~PendingResult'
           /\ e.type \notin ReplayInvalidating \cup {"episode_completed"} =>
                 (PendingResult' <=> PendingResult)
<1>1. ASSUME e.type = "episode_completed" PROVE PendingResult'
  <2>1. Len(log) + 1 \in DOMAIN log'
    BY DEF Grown
  <2>2. \A j \in DOMAIN log' : ~(j > Len(log) + 1)
    <3>1. DOMAIN log = 1..Len(log) /\ Len(log) \in Nat
      OBVIOUS
    <3> QED
      BY <3>1 DEF Grown
  <2> QED
    BY <1>1, <2>1, <2>2 DEF Grown, PendingResult
<1>2. ASSUME e.type \in ReplayInvalidating PROVE ~PendingResult'
  <2>1. e.type # "episode_completed"
    BY <1>2 DEF ReplayInvalidating
  <2> SUFFICES ASSUME NEW i \in DOMAIN log', log'[i].type = "episode_completed"
               PROVE  \E j \in DOMAIN log' : j > i /\ log'[j].type \in ReplayInvalidating
    BY DEF PendingResult
  <2>2. i \in DOMAIN log /\ Len(log) + 1 > i
    BY <2>1 DEF Grown
  <2> QED
    BY <1>2, <2>2 DEF Grown
<1>3. ASSUME e.type \notin ReplayInvalidating \cup {"episode_completed"}
      PROVE  PendingResult' <=> PendingResult
  <2>1. ASSUME PendingResult PROVE PendingResult'
    <3>1. PICK i \in DOMAIN log :
              /\ log[i].type = "episode_completed"
              /\ \A j \in DOMAIN log :
                    j > i => log[j].type \notin ReplayInvalidating \cup {"episode_completed"}
      BY <2>1 DEF PendingResult
    <3>2. i \in DOMAIN log' /\ log'[i].type = "episode_completed"
      BY <3>1 DEF Grown
    <3>3. ASSUME NEW j \in DOMAIN log', j > i
          PROVE  log'[j].type \notin ReplayInvalidating \cup {"episode_completed"}
      BY <1>3, <3>1, <3>3 DEF Grown
    <3> QED
      BY <3>2, <3>3 DEF PendingResult
  <2>2. ASSUME PendingResult' PROVE PendingResult
    <3>1. PICK i \in DOMAIN log' :
              /\ log'[i].type = "episode_completed"
              /\ \A j \in DOMAIN log' :
                    j > i => log'[j].type \notin ReplayInvalidating \cup {"episode_completed"}
      BY <2>2 DEF PendingResult
    <3>2. i \in DOMAIN log /\ log[i].type = "episode_completed"
      BY <1>3, <3>1 DEF Grown
    <3>3. ASSUME NEW j \in DOMAIN log, j > i
          PROVE  log[j].type \notin ReplayInvalidating \cup {"episode_completed"}
      BY <3>1, <3>3 DEF Grown
    <3> QED
      BY <3>2, <3>3 DEF PendingResult
  <2> QED
    BY <2>1, <2>2
<1> QED
  BY <1>1, <1>2, <1>3

(* Without tears, a line that is appended is there. *)
LEMMA AppendLands ==
    ASSUME TypeOK, ~torn, NEW e, WellFormed(e), AppendEvent(e)
    PROVE  Grown(e) /\ torn' = FALSE
BY AppendGrows DEF TypeOK, AppendEvent

LEMMA PollLands ==
    ASSUME TypeOK, Form, ~torn, Poll
    PROVE  /\ seen' = Len(trace) /\ seen < Len(trace)
           /\ ~torn'
           /\ \/ /\ log' = log
                 /\ \A i \in DOMAIN trace : i > seen => trace[i] \in call.known
              \/ \E e : /\ e.type = "session_captured" /\ e.sid \notin call.known
                        /\ e.sid \in ToSet(trace) /\ Grown(e)
<1>1. CASE log' = log /\ UNCHANGED torn /\ \A i \in DOMAIN trace : i > seen => trace[i] \in call.known
  BY <1>1, PollLogs
<1>2. ASSUME NEW e, WellFormed(e), e.type = "session_captured", e.sid \notin call.known,
             e.sid \in ToSet(trace), AppendEvent(e)
      PROVE  Grown(e) /\ torn' = FALSE
  BY <1>2, AppendLands
<1> QED
  BY <1>1, <1>2, PollLogs

LEMMA OwedStep ==
    ASSUME MayTear = FALSE, BaseInv, OwedInv, Next
    PROVE  OwedInv'
<1> USE DEF OwedInv
<1>t. TypeOK /\ Form /\ log \in Seq(Event)
  BY DEF BaseInv, TypeOK
<1>e. /\ "episode_completed" \notin ReplayInvalidating
      /\ \A t \in {"node_dispatched", "node_redispatched", "session_captured",
                   "opencode_session_deleted"} :
            t \notin ReplayInvalidating \cup {"episode_completed"}
      /\ {"node_gate_failed", "node_nudged", "node_reopened"} \subseteq ReplayInvalidating
      /\ \A t \in {"node_dispatched", "node_redispatched", "node_gate_failed", "node_nudged",
                   "node_reopened"} : t \in EventType \ {"episode_completed", "session_captured"}
  BY DEF ReplayInvalidating, EventType, WriterLifecycle
<1>1. CASE /\ log' = log /\ ~torn' /\ owed' = owed /\ node' = node
           /\ node = "passed" => stage' = "idle"
  BY <1>1 DEF PendingResult
<1>2. ASSUME NEW e, Grown(e), e.type \notin ReplayInvalidating \cup {"episode_completed"},
             ~torn', owed' = owed, node' = node, node = "passed" => stage' = "idle"
      PROVE  OwedInv'
  BY <1>t, <1>2, PendingGrows
<1>3. CASE Dispatch
  <2>1. PICK t \in {"node_dispatched", "node_redispatched"} : AppendEvent(Ev(t))
    BY <1>3 DEF Dispatch
  <2>2. WellFormed(Ev(t)) /\ Ev(t).type = t
    BY <1>e, EvWellFormed
  <2>3. Grown(Ev(t)) /\ ~torn'
    BY <1>t, <2>1, <2>2, AppendLands
  <2>4. owed' = owed /\ node' = node /\ node = "pending"
    BY <1>3 DEF Dispatch
  <2> QED
    BY <1>e, <1>2, <2>2, <2>3, <2>4
<1>4. CASE CleanerLogs
  <2> DEFINE e == [Ev("opencode_session_deleted") EXCEPT !.sid = gone]
  <2>1. gone \in Session
    BY <1>4 DEF CleanerLogs, BaseInv, TypeOK, Session
  <2>2. WellFormed(e) /\ e.type = "opencode_session_deleted"
    BY <2>1, EvWellFormed
  <2>3. AppendEvent(e) /\ owed' = owed /\ node' = node /\ stage' = stage
    BY <1>4 DEF CleanerLogs
  <2> HIDE DEF e
  <2>4. Grown(e) /\ ~torn'
    BY <1>t, <2>2, <2>3, AppendLands
  <2> QED
    BY <1>e, <1>2, <2>2, <2>3, <2>4
<1>5. CASE Poll
  <2>1. owed' = owed /\ node' = node /\ stage' = stage
    BY <1>5 DEF Poll
  <2>2. /\ ~torn'
        /\ log' = log \/ \E e : e.type = "session_captured" /\ Grown(e)
    BY <1>t, <1>5, PollLands
  <2> QED
    BY <1>e, <1>1, <1>2, <2>1, <2>2
<1>6. CASE WaiveDone \/ Complete
  <2>1. PICK st \in Status : AppendEvent([Ev("episode_completed") EXCEPT !.note = st])
    BY <1>6, <1>t DEF WaiveDone, Complete, Status, TypeOK
  <2> DEFINE e == [Ev("episode_completed") EXCEPT !.note = st]
  <2>2. WellFormed(e) /\ e.type = "episode_completed" /\ AppendEvent(e)
    BY <2>1, EvWellFormed
  <2> HIDE DEF e
  <2>3. Grown(e) /\ ~torn'
    BY <1>t, <2>2, AppendLands
  <2>4. PendingResult'
    BY <1>t, <2>2, <2>3, PendingGrows
  <2>5. owed' = TRUE /\ node' = node /\ stage # "idle"
    BY <1>6 DEF WaiveDone, Complete
  <2> QED
    BY <2>3, <2>4, <2>5
<1>7. CASE Judged("node_gate_failed") \/ Judged("node_nudged") \/ Reopen
  <2>1. PICK t \in {"node_gate_failed", "node_nudged", "node_reopened"} : AppendEvent(Ev(t))
    BY <1>7 DEF Judged, Reopen
  <2>2. WellFormed(Ev(t)) /\ Ev(t).type = t
    BY <1>e, EvWellFormed
  <2>3. Grown(Ev(t)) /\ ~torn'
    BY <1>t, <2>1, <2>2, AppendLands
  <2>4. ~PendingResult'
    BY <1>t, <1>e, <2>2, <2>3, PendingGrows
  <2>5. owed' = FALSE /\ (node' = "passed" => stage' = "idle")
    BY <1>7 DEF Judged, Reopen
  <2> QED
    BY <2>3, <2>4, <2>5
<1>8. CASE Pass
  BY <1>8 DEF Pass, durable
<1>9. CASE Replay \/ Prepare \/ Waive \/ Launch \/ CliOpens \/ CliPrints \/ CliWrites
           \/ BypassMidFlight \/ Fill \/ RequestBypass
  BY <1>1, <1>9 DEF Replay, Prepare, Waive, Launch, CliOpens, CliPrints, CliWrites,
                    BypassMidFlight, Fill, RequestBypass, AppendUnread, durable
<1>10. CASE \E status \in Status : CliEnds(status)
  BY <1>1, <1>10 DEF CliEnds
<1>11. CASE \E s \in cleaner : CleanerDeletes(s) \/ CleanerFails(s)
  BY <1>1, <1>11 DEF CleanerDeletes, CleanerFails, AppendUnread, durable
<1>12. CASE Kill
  BY <1>1, <1>12 DEF Kill
<1> QED
  BY <1>3, <1>4, <1>5, <1>6, <1>7, <1>8, <1>9, <1>10, <1>11, <1>12 DEF Next

-----------------------------------------------------------------------------
(* The watcher. *)

(* The trace holds the lines of earlier attempts and of this session.       *)
TraceInv ==
    /\ half => stage = "episode" /\ cli # 0
    /\ stage = "episode" => \A i \in DOMAIN trace : trace[i] \in call.old \cup {cli}
    /\ seen <= Len(trace)

LEMMA TraceStep ==
    ASSUME BaseInv, TraceInv, Next
    PROVE  TraceInv'
<1> USE DEF TraceInv
<1>t. /\ trace \in Seq(Session) /\ DOMAIN trace = 1..Len(trace) /\ Len(trace) \in Nat
      /\ seen \in Nat
      /\ \A i \in DOMAIN trace : trace[i] # 0
  BY DEF BaseInv, TypeOK, Session
<1>1. CASE Launch
  <2>1. call'.old = ToSet(trace) /\ trace' = trace /\ ~half' /\ seen' = 0
    BY <1>1 DEF Launch, BaseInv, TypeOK
  <2>2. \A i \in DOMAIN trace : trace[i] \in ToSet(trace)
    BY DEF ToSet
  <2> QED
    BY <1>t, <2>1, <2>2
<1>2. CASE CliOpens
  <2>1. /\ UNCHANGED <<trace, seen, stage, call>> /\ stage = "episode" /\ cli = 0
    BY <1>2 DEF CliOpens
  <2>2. cli' # 0
    BY <1>2 DEF CliOpens, BaseInv, Form
  <2> QED
    BY <1>t, <2>1, <2>2
<1>3. CASE CliPrints
  <2>1. UNCHANGED <<seen, stage, call, cli>> /\ stage = "episode" /\ ~half'
    BY <1>3 DEF CliPrints, episode
  <2>2. trace' = Append(trace, cli) /\ cli \in Session
    BY <1>3 DEF CliPrints, BaseInv, TypeOK, Session
  <2>3. /\ Len(trace') = Len(trace) + 1 /\ DOMAIN trace' = 1..(Len(trace) + 1)
        /\ \A i \in 1..Len(trace) : trace'[i] = trace[i]
        /\ trace'[Len(trace) + 1] = cli
    BY <1>t, <2>2, AppendProperties
  <2>4. ASSUME NEW i \in DOMAIN trace' PROVE trace'[i] \in call.old \cup {cli}
    BY <1>t, <2>1, <2>3
  <2>5. seen' <= Len(trace')
    BY <1>t, <2>1, <2>3
  <2> QED
    BY <2>1, <2>4, <2>5
<1>4. CASE Poll
  <2>1. seen' = Len(trace) /\ UNCHANGED <<trace, half, stage, call, cli>>
    BY <1>4 DEF Poll
  <2> QED
    BY <1>t, <2>1
<1>5. CASE Kill \/ BypassMidFlight \/ \E status \in Status : CliEnds(status)
  <2>1. seen' = 0 /\ trace' = trace /\ ~half' /\ stage' # "episode"
    BY <1>5 DEF Kill, BypassMidFlight, CliEnds
  <2> QED
    BY <1>t, <2>1
<1>6. CASE \/ Replay \/ Dispatch \/ Prepare \/ Waive \/ WaiveDone \/ Fill \/ Complete
           \/ Judged("node_gate_failed") \/ Judged("node_nudged") \/ Pass
  <2>1. UNCHANGED <<trace, half, seen>> /\ stage # "episode" /\ stage' # "episode"
    BY <1>6 DEF Replay, Dispatch, Prepare, Waive, WaiveDone, Fill, Complete, Judged, Pass,
                durable, episode
  <2> QED
    BY <2>1
<1>7. CASE \/ CliWrites \/ (\E s \in cleaner : CleanerDeletes(s) \/ CleanerFails(s))
           \/ CleanerLogs \/ Reopen \/ RequestBypass
  <2>1. UNCHANGED <<trace, half, seen, stage, call, cli>>
    BY <1>7 DEF CliWrites, CleanerDeletes, CleanerFails, CleanerLogs, Reopen, RequestBypass,
                durable, episode
  <2> QED
    BY <2>1
<1> QED
  BY <1>1, <1>2, <1>3, <1>4, <1>5, <1>6, <1>7 DEF Next

LEMMA SeenStep ==
    ASSUME MayTear = FALSE, BaseInv, OwedInv, TraceInv, SeenIsCaptured, Next
    PROVE  SeenIsCaptured'
<1>t. /\ TypeOK /\ Form /\ CaptureInv /\ ~torn
      /\ trace \in Seq(Session) /\ DOMAIN trace = 1..Len(trace) /\ Len(trace) \in Nat
      /\ seen \in Nat
  BY DEF BaseInv, OwedInv, TypeOK
<1>k. KnownSessions \subseteq KnownSessions'
  BY <1>t, StepsLog, LogStepKeeps, PollKeeps
<1>1. CASE Poll
  <2>1. UNCHANGED <<trace, stage, call, cli>> /\ seen' = Len(trace)
    BY <1>1 DEF Poll
  <2> SUFFICES ASSUME stage = "episode", call.resumes, call.old \subseteq call.known,
                      NEW i \in DOMAIN trace
               PROVE  trace[i] \in KnownSessions'
    BY <2>1 DEF SeenIsCaptured
  <2>2. i <= seen => trace[i] \in KnownSessions
    BY DEF SeenIsCaptured
  <2>3. trace[i] \in call.old \cup {cli}
    BY DEF TraceInv
  <2>4. call.known \subseteq KnownSessions
    BY <1>t DEF CaptureInv
  <2>5. CASE i <= seen
    BY <1>k, <2>2, <2>5
  <2>6. CASE \A j \in DOMAIN trace : j > seen => trace[j] \in call.known
    BY <1>t, <1>k, <2>4, <2>5, <2>6
  <2>7. ASSUME NEW e, e.sid \notin call.known, e.sid \in ToSet(trace), Grown(e)
        PROVE  trace[i] \in KnownSessions'
    <3>1. e.sid \in call.old \cup {cli} /\ e.sid # 0
      BY <1>t, <2>7 DEF TraceInv, ToSet, Session
    <3>2. e.sid = cli
      BY <2>7, <3>1
    <3>3. log'[Len(log) + 1] = e /\ Len(log) + 1 \in DOMAIN log'
      BY <2>7 DEF Grown
    <3>4. cli \in KnownSessions'
      BY <3>1, <3>2, <3>3 DEF KnownSessions
    <3> QED
      BY <1>k, <2>3, <2>4, <3>4
  <2> QED
    BY <1>1, <1>t, <2>6, <2>7, PollLands
<1>2. CASE Launch
  <2>1. seen' = 0 /\ trace' = trace
    BY <1>2 DEF Launch
  <2> QED
    BY <1>t, <2>1 DEF SeenIsCaptured
<1>3. CASE stage' # "episode"
  BY <1>3 DEF SeenIsCaptured
<1>4. CASE CliPrints
  <2>1. UNCHANGED <<seen, stage, call>> /\ trace' = Append(trace, cli) /\ cli \in Session
    BY <1>4, <1>t DEF CliPrints, episode, TypeOK, Session
  <2>2. /\ DOMAIN trace' = 1..(Len(trace) + 1)
        /\ \A i \in 1..Len(trace) : trace'[i] = trace[i]
    BY <1>t, <2>1, AppendProperties
  <2>3. seen <= Len(trace)
    BY DEF TraceInv
  <2>4. ASSUME NEW i \in DOMAIN trace', i <= seen PROVE i \in DOMAIN trace /\ trace'[i] = trace[i]
    BY <1>t, <2>2, <2>3, <2>4
  <2> QED
    BY <1>k, <2>1, <2>4 DEF SeenIsCaptured
<1>5. CASE ~Poll /\ ~Launch /\ ~CliPrints /\ stage' = "episode"
  <2>1. UNCHANGED <<seen, stage, call, trace>>
    BY <1>5 DEF Next, Replay, Dispatch, Prepare, Waive, WaiveDone, CliOpens,
                CliWrites, CliEnds, BypassMidFlight, Fill, Complete, Judged, Pass,
                CleanerDeletes, CleanerFails, CleanerLogs, Reopen, RequestBypass, Kill, durable,
                episode
  <2> QED
    BY <1>k, <2>1 DEF SeenIsCaptured
<1> QED
  BY <1>1, <1>2, <1>3, <1>4, <1>5

-----------------------------------------------------------------------------
(* The framing of an episode. *)

Dispatched == \E i \in DOMAIN log : log[i].type = "node_dispatched"
Captured == \E i \in DOMAIN log : log[i].type = "session_captured"

(* Whatever there is has been dispatched for, and the call that was the first
   has found nothing.                                                       *)
FrameInv ==
    /\ \/ art.v # 0 \/ Captured
       \/ stage \in {"dispatched", "prepared", "waived", "episode", "ended", "filled"}
       => Dispatched
    /\ stage \in {"dispatched", "prepared"} /\ call.reason = "dispatched" => art.v = 0
    /\ stage = "episode" /\ call.reason = "dispatched" => call.found.v = 0

LEMMA WhyDispatched ==
    ASSUME TypeOK, Form, NEW resumes \in BOOLEAN
    PROVE  IF Why(resumes) = "dispatched" THEN ~Dispatched ELSE Dispatched \/ Captured
<1>t. log \in Seq(Event) /\ DOMAIN log = 1..Len(log) /\ Len(log) \in Nat
  BY DEF TypeOK
<1>1. /\ LastEvent({"node_dispatched"}) # 0 => Dispatched
      /\ LastEvent({"node_dispatched"}) = 0 => ~Dispatched
  BY <1>t, LastEventFinds DEF Dispatched
<1>2. CapturedSession # 0 => Captured
  <2>1. CapturedSession # 0 => LastEvent({"session_captured"}) # 0
    BY DEF CapturedSession
  <2>2. LastEvent({"session_captured"}) # 0 => Captured
    BY <1>t, LastEventFinds DEF Captured
  <2> QED
    BY <2>1, <2>2
<1>3. CASE CapturedSession = 0
  BY <1>1, <1>3 DEF Why
<1>4. CASE CapturedSession # 0
  <2>1. \/ SessionDeleted(CapturedSession)
        \/ ~SessionDeleted(CapturedSession) /\ ~resumes
        \/ ~SessionDeleted(CapturedSession) /\ resumes /\ ~Resumable
        \/ ~SessionDeleted(CapturedSession) /\ resumes /\ Resumable
    OBVIOUS
  <2>2. Why(resumes) # "dispatched"
    BY <1>4, <2>1 DEF Why
  <2> QED
    BY <1>2, <1>4, <2>2
<1> QED
  BY <1>3, <1>4

LEMMA FrameStep ==
    ASSUME MayTear = FALSE, BaseInv, OwedInv, FrameInv, Next
    PROVE  FrameInv'
<1>t. TypeOK /\ Form /\ CaptureInv /\ ~torn
  BY DEF BaseInv, OwedInv
<1>d. Dispatched => Dispatched'
  <2>1. ASSUME NEW e, Grown(e) PROVE Dispatched => Dispatched'
    BY <2>1 DEF Grown, Dispatched
  <2>2. log' = log => (Dispatched => Dispatched')
    BY DEF Dispatched
  <2> QED
    BY <1>t, <2>1, <2>2, StepsLog, PollLands DEF LogStep
<1>c. ASSUME ~Poll PROVE Captured' => Captured
  <2>1. \A i \in DOMAIN log' : log'[i].type = "session_captured" =>
            i \in DOMAIN log /\ log'[i] = log[i]
    BY <1>c, <1>t, StepsLog, LogStepKeeps
  <2> QED
    BY <2>1 DEF Captured
<1>1. CASE Dispatch
  <2>1. PICK resumes \in Adapters :
            /\ call' = [NoCall EXCEPT
                          !.reason = Why(resumes), !.resumes = resumes, !.known = KnownSessions,
                          !.resume = IF Why(resumes) \in {"resumed_session", "nudged_session"}
                                     THEN CapturedSession ELSE 0]
            /\ AppendEvent(Ev(IF Why(resumes) = "dispatched" THEN "node_dispatched"
                              ELSE "node_redispatched"))
    BY <1>1 DEF Dispatch
  <2>2. IF Why(resumes) = "dispatched" THEN ~Dispatched ELSE Dispatched \/ Captured
    <3>1. resumes \in BOOLEAN
      BY RunNodeAssumption
    <3> QED
      BY <1>t, <3>1, WhyDispatched, Zenon
  <2>3. call'.reason = Why(resumes) /\ stage' = "dispatched" /\ art' = art
    BY <1>1, <2>1 DEF Dispatch, NoCall
  <2>4. CASE Why(resumes) = "dispatched"
    <3>1. AppendEvent(Ev("node_dispatched")) /\ WellFormed(Ev("node_dispatched"))
          /\ Ev("node_dispatched").type = "node_dispatched"
      BY <2>1, <2>4, EvWellFormed DEF EventType, WriterLifecycle
    <3>2. Dispatched'
      <4>1. Grown(Ev("node_dispatched"))
        BY <1>t, <3>1, AppendLands
      <4> QED
        BY <3>1, <4>1 DEF Grown, Dispatched
    <3>3. ~Dispatched
      BY <2>2, <2>4
    <3>4. art.v = 0
      BY <3>3 DEF FrameInv
    <3> QED
      BY <2>3, <3>2, <3>4 DEF FrameInv
  <2>5. CASE Why(resumes) # "dispatched"
    <3>1. Dispatched'
      BY <1>d, <2>2, <2>5 DEF FrameInv
    <3> QED
      BY <2>3, <2>5, <3>1 DEF FrameInv
  <2> QED
    BY <2>4, <2>5
<1>2. CASE Prepare
  <2>1. art'.v = art.v /\ call' = call /\ stage = "dispatched" /\ stage' = "prepared"
    BY <1>2, <1>t DEF Prepare, TypeOK, Artifact
  <2> QED
    BY <1>d, <2>1 DEF FrameInv
<1>3. CASE Launch
  <2>1. /\ call'.found = art /\ call'.reason = call.reason /\ stage = "prepared"
        /\ stage' = "episode"
    BY <1>3, <1>t DEF Launch, TypeOK
  <2> QED
    BY <1>d, <2>1 DEF FrameInv
<1>4. CASE Poll
  <2>1. stage = "episode" /\ stage' = stage /\ call' = call
    BY <1>4, <1>t DEF Poll, CaptureInv
  <2> QED
    BY <1>d, <2>1 DEF FrameInv
<1>5. CASE CliWrites
  <2>1. stage = "episode" /\ stage' = stage /\ call' = call
    BY <1>5 DEF CliWrites
  <2> QED
    BY <1>d, <2>1 DEF FrameInv
<1>6. CASE Waive \/ WaiveDone \/ BypassMidFlight \/ Fill \/ Complete
           \/ \E status \in Status : CliEnds(status)
  <2>1. /\ stage \in {"prepared", "waived", "episode", "ended", "filled"}
        /\ stage' \in {"waived", "ended", "filled", "returned"}
    BY <1>6 DEF Waive, WaiveDone, BypassMidFlight, Fill, Complete, CliEnds
  <2> QED
    BY <1>d, <2>1 DEF FrameInv
<1>7. CASE Replay \/ Judged("node_gate_failed") \/ Judged("node_nudged") \/ Pass
  <2>1. stage \in {"idle", "returned"} /\ stage' \in {"idle", "returned"} /\ art' = art
    BY <1>7 DEF Replay, Judged, Pass, durable
  <2>2. ~Poll
    BY <1>t, <2>1 DEF Poll, CaptureInv
  <2> QED
    BY <1>c, <1>d, <2>1, <2>2 DEF FrameInv
<1>9. CASE Kill
  <2>1. stage' = "idle" /\ art' = art /\ (Captured' <=> Captured)
    BY <1>9 DEF Kill, Captured
  <2> QED
    BY <1>d, <2>1 DEF FrameInv
<1>8. CASE \/ CliOpens \/ CliPrints \/ (\E s \in cleaner : CleanerDeletes(s) \/ CleanerFails(s))
           \/ CleanerLogs \/ Reopen \/ RequestBypass
  <2>1. UNCHANGED <<stage, call, art>>
    BY <1>8 DEF CliOpens, CliPrints, CleanerDeletes, CleanerFails, CleanerLogs, Reopen,
                RequestBypass, durable
  <2>2. CASE Poll
    BY <1>4, <2>2
  <2> QED
    BY <1>c, <1>d, <2>1, <2>2 DEF FrameInv
<1> QED
  BY <1>1, <1>2, <1>3, <1>4, <1>5, <1>6, <1>7, <1>8, <1>9 DEF Next

-----------------------------------------------------------------------------
NodeInv == BaseInv /\ OwedInv /\ TraceInv /\ SeenIsCaptured /\ FrameInv

LEMMA NodeInit == Init => NodeInv
<1> SUFFICES ASSUME Init PROVE NodeInv
  OBVIOUS
<1>1. BaseInv
  BY BaseInit
<1>2. OwedInv
  BY DEF Init, OwedInv, PendingResult
<1>3. TraceInv /\ SeenIsCaptured
  BY DEF Init, TraceInv, SeenIsCaptured
<1>4. FrameInv
  BY DEF Init, FrameInv, Captured, Empty
<1> QED
  BY <1>1, <1>2, <1>3, <1>4 DEF NodeInv

LEMMA NodeStep ==
    ASSUME MayTear = FALSE, NodeInv, [Next]_vars
    PROVE  NodeInv'
<1>1. CASE Next
  BY <1>1, BaseStep, OwedStep, TraceStep, SeenStep, FrameStep DEF NodeInv
<1>2. CASE UNCHANGED vars
  <2>1. BaseInv'
    BY <1>2, BaseStep DEF NodeInv
  <2>2. OwedInv' /\ FrameInv'
    BY <1>2 DEF NodeInv, OwedInv, PendingResult, FrameInv, Captured, Dispatched, vars, durable
  <2>3. TraceInv' /\ SeenIsCaptured'
    BY <1>2 DEF NodeInv, TraceInv, SeenIsCaptured, KnownSessions, vars, durable, episode
  <2> QED
    BY <2>1, <2>2, <2>3 DEF NodeInv
<1> QED
  BY <1>1, <1>2

LEMMA NodeAlways == ASSUME MayTear = FALSE PROVE Spec => []NodeInv
<1>1. NodeInv /\ [Next]_vars => NodeInv'
  BY NodeStep
<1> QED
  BY <1>1, NodeInit, PTL DEF Spec

(* WorkIsKept: over any number of kills that leave whole lines, retries, lost
   and deleted sessions and reopened nodes, the artifact an episode started
   from can be put back, a session is captured once and never passed over,
   and an episode that finds work is told to go on with it.                 *)
THEOREM WorkKept == ASSUME MayTear = FALSE PROVE Spec => []WorkIsKept
<1>1. NodeInv => WorkIsKept
  <2> SUFFICES ASSUME NodeInv PROVE WorkIsKept
    OBVIOUS
  <2>1. FramedAsContinuation
    BY DEF NodeInv, FrameInv, FramedAsContinuation, Prompt
  <2> QED
    BY <2>1 DEF NodeInv, BaseInv, WorkIsKept
<1> QED
  BY <1>1, NodeAlways, PTL

(* OneEpisodePerResult: a result is handed over until somebody has acted on
   it, and no episode starts before.                                        *)
THEOREM ActedOnOnce == ASSUME MayTear = FALSE PROVE Spec => OneEpisodePerResult
<1>1. ASSUME NodeInv, Next
      PROVE  /\ stage = "idle" /\ stage' = "returned" => owed
             /\ stage = "idle" /\ stage' = "dispatched" => ~owed
  <2>1. stage = "idle" /\ stage' = "returned" => Replay
    BY <1>1 DEF Next, Replay, Dispatch, Prepare, Waive, WaiveDone, Launch, CliOpens, CliPrints,
                CliWrites, CliEnds, BypassMidFlight, Poll, Fill, Complete, Judged, Pass,
                CleanerDeletes, CleanerFails, CleanerLogs, Reopen, RequestBypass, Kill
  <2>2. stage = "idle" /\ stage' = "dispatched" => Dispatch
    BY <1>1 DEF Next, Replay, Dispatch, Prepare, Waive, WaiveDone, Launch, CliOpens, CliPrints,
                CliWrites, CliEnds, BypassMidFlight, Poll, Fill, Complete, Judged, Pass,
                CleanerDeletes, CleanerFails, CleanerLogs, Reopen, RequestBypass, Kill
  <2>3. node = "pending" => (owed <=> Completed # 0 /\ ~Consumed)
    BY <1>1, PendingIsReplayed DEF NodeInv, BaseInv, OwedInv
  <2>4. Replay => node = "pending" /\ Completed # 0 /\ ~Consumed
    BY DEF Replay
  <2>5. Dispatch => node = "pending" /\ (Completed = 0 \/ Consumed)
    BY DEF Dispatch
  <2> QED
    BY <2>1, <2>2, <2>3, <2>4, <2>5
<1>2. NodeInv /\ [Next]_vars =>
         [/\ stage = "idle" /\ stage' = "returned" => owed
          /\ stage = "idle" /\ stage' = "dispatched" => ~owed]_vars
  BY <1>1
<1> QED
  BY <1>2, NodeAlways, PTL DEF Spec, OneEpisodePerResult

-----------------------------------------------------------------------------
(* Counting: the tokens a snapshot shows. *)

LEMMA UpTo ==
    ASSUME NEW n \in Nat, NEW S, 0 \in S, \A k \in 1..n : k - 1 \in S => k \in S
    PROVE  \A k \in 0..n : k \in S
<1> DEFINE Bad == {k \in 0..n : k \notin S}
<1>1. SUFFICES ASSUME Bad # {} PROVE FALSE
  OBVIOUS
<1>2. Bad \in SUBSET Nat
  OBVIOUS
<1>3. PICK m \in Bad : \A k \in Bad : m <= k
  BY <1>1, <1>2, HasLeast
<1>4. m \in 1..n /\ m - 1 \in 0..n /\ ~(m <= m - 1)
  BY <1>3
<1>5. m - 1 \in S
  BY <1>3, <1>4
<1> QED
  BY <1>3, <1>4, <1>5

LEMMA SummingUnfolds ==
    ASSUME NEW l \in Seq(Nat), NEW k \in 0..Len(l)
    PROVE  Counting!Summing(l)[k] = IF k = 0 THEN 0 ELSE Counting!Summing(l)[k - 1] + l[k]
<1> DEFINE Is(g, m) == g = [j \in 0..m |-> IF j = 0 THEN 0 ELSE g[j - 1] + l[j]]
           S == {m \in 0..Len(l) : \E g : Is(g, m)}
<1>1. Len(l) \in Nat
  OBVIOUS
<1>2. 0 \in S
  <2> DEFINE g == [j \in 0..0 |-> 0]
  <2>1. Is(g, 0)
    OBVIOUS
  <2> HIDE DEF g, Is
  <2> QED
    BY <1>1, <2>1
<1>3. ASSUME NEW m \in 1..Len(l), m - 1 \in S PROVE m \in S
  <2>1. PICK g : Is(g, m - 1)
    BY <1>3
  <2> DEFINE h == [j \in 0..m |-> IF j < m THEN g[j] ELSE g[m - 1] + l[m]]
  <2>2. \A j \in 0..m : h[j] = IF j = 0 THEN 0 ELSE h[j - 1] + l[j]
    BY <2>1
  <2>3. Is(h, m)
    BY <2>2
  <2> HIDE DEF h, Is
  <2> QED
    BY <1>1, <2>3
<1> HIDE DEF Is
<1>4. PICK g : Is(g, Len(l))
  <2>1. \A m \in 0..Len(l) : m \in S
    BY <1>1, <1>2, <1>3, UpTo
  <2> QED
    BY <1>1, <2>1
<1>5. Counting!Summing(l) = CHOOSE x : Is(x, Len(l))
  BY Zenon DEF Counting!Summing, Is
<1>6. Is(Counting!Summing(l), Len(l))
  BY <1>4, <1>5
<1> QED
  BY <1>6 DEF Is

LEMMA SumsAreNumbers ==
    ASSUME NEW l \in Seq(Nat) PROVE \A k \in 0..Len(l) : Counting!Summing(l)[k] \in Nat
<1> DEFINE S == {k \in 0..Len(l) : Counting!Summing(l)[k] \in Nat}
<1>1. Len(l) \in Nat
  OBVIOUS
<1>2. 0 \in S
  BY <1>1, SummingUnfolds
<1>3. ASSUME NEW k \in 1..Len(l), k - 1 \in S PROVE k \in S
  <2>1. l[k] \in Nat /\ k \in 0..Len(l) /\ k # 0
    OBVIOUS
  <2>2. Counting!Summing(l)[k] = Counting!Summing(l)[k - 1] + l[k]
    BY <2>1, SummingUnfolds
  <2> QED
    BY <1>3, <2>1, <2>2
<1> HIDE DEF S
<1>4. \A k \in 0..Len(l) : k \in S
  BY <1>1, <1>2, <1>3, UpTo
<1> QED
  BY <1>4 DEF S

(* What another episode adds.                                               *)
LEMMA SumOfOneMore ==
    ASSUME NEW l \in Seq(Nat), NEW n \in Nat
    PROVE  /\ Counting!Sum(<<>>) = 0 /\ Counting!Sum(l) \in Nat
           /\ Counting!Sum(Append(l, n)) = Counting!Sum(l) + n
<1> DEFINE m == Append(l, n)
           S == {k \in 0..Len(l) : Counting!Summing(m)[k] = Counting!Summing(l)[k]}
<1>1. /\ Len(l) \in Nat /\ m \in Seq(Nat) /\ Len(m) = Len(l) + 1 /\ m[Len(l) + 1] = n
      /\ \A i \in 1..Len(l) : m[i] = l[i]
  OBVIOUS
<1>2. Counting!Sum(<<>>) = 0
  <2>1. <<>> \in Seq(Nat) /\ 0 \in 0..Len(<<>>) /\ Len(<<>>) = 0
    OBVIOUS
  <2>2. Counting!Summing(<<>>)[0] = 0
    BY <2>1, SummingUnfolds
  <2> QED
    BY <2>1, <2>2 DEF Counting!Sum
<1> HIDE DEF m
<1>3. \A k \in 0..Len(l) :
         Counting!Summing(l)[k] = IF k = 0 THEN 0 ELSE Counting!Summing(l)[k - 1] + l[k]
  BY SummingUnfolds
<1>4. \A k \in 0..Len(l) + 1 :
         Counting!Summing(m)[k] = IF k = 0 THEN 0 ELSE Counting!Summing(m)[k - 1] + m[k]
  BY <1>1, SummingUnfolds
<1>5. 0 \in S
  BY <1>1, <1>3, <1>4
<1>6. ASSUME NEW k \in 1..Len(l), k - 1 \in S PROVE k \in S
  BY <1>1, <1>3, <1>4, <1>6
<1> HIDE DEF S
<1>7. \A k \in 0..Len(l) : k \in S
  BY <1>1, <1>5, <1>6, UpTo
<1>8. Counting!Summing(m)[Len(l)] = Counting!Summing(l)[Len(l)]
  BY <1>1, <1>7 DEF S
<1>9. Counting!Summing(m)[Len(l) + 1] = Counting!Summing(l)[Len(l)] + n
  BY <1>1, <1>4, <1>8
<1>10. Counting!Summing(l)[Len(l)] \in Nat
  BY <1>1, SumsAreNumbers
<1> QED
  BY <1>1, <1>2, <1>9, <1>10 DEF Counting!Sum, m

(* A value that is no older than the stamps it goes with, and not too high. *)
Values == [ledger : Nat, trace : Nat, total : Nat]
Entries == [stamp : Int \X Int, value : Values]
Loads == [at : {"away", "stat", "look", "load", "scan", "store", "back"},
          began : Nat \X Nat, stamp : Nat \X Nat, seen : Entries, ledger : Seq(Nat),
          value : Values]
AsNew(v, since) == v.ledger >= since[1] /\ v.trace >= since[2] /\ v.total <= tokens
Loading(l) ==
    /\ l \in Loads
    /\ l.at = "stat" => l.stamp[1] >= l.began[1] /\ l.began[2] <= tokens
    /\ l.at \notin {"away", "stat"} =>
          l.stamp[1] >= l.began[1] /\ l.stamp[2] >= l.began[2] /\ l.stamp[2] <= tokens
    /\ l.at # "away" => l.stamp[1] <= Len(ledger)
    /\ l.at \in {"scan", "store"} =>
          Len(l.ledger) >= l.stamp[1] /\ Counting!Sum(l.ledger) <= tokens
    /\ l.at = "store" => AsNew(l.value, l.stamp)
    /\ l.at = "back" => AsNew(l.value, l.began)
CountInv ==
    /\ ledger \in Seq(Nat) /\ tokens \in Nat /\ running \in Nat
    /\ Counting!Sum(ledger) + running = tokens
    /\ cache \in Entries /\ AsNew(cache.value, cache.stamp)
    /\ DOMAIN loads = Threads /\ \A t \in Threads : Loading(loads[t])

LEMMA CountStarts == Counting!CacheInit => CountInv
<1> SUFFICES ASSUME Counting!CacheInit PROVE CountInv
  OBVIOUS
<1>1. /\ ledger = <<>> /\ tokens = 0 /\ running = 0 /\ cache = Counting!None
      /\ loads = [t \in Threads |-> Counting!Away]
  BY DEF Counting!CacheInit
<1>2. Counting!Sum(<<>>) = 0
  <2>1. <<>> \in Seq(Nat) /\ 0 \in Nat
    OBVIOUS
  <2> QED
    BY <2>1, SumOfOneMore
<1>3. Counting!None \in Entries /\ AsNew(Counting!None.value, Counting!None.stamp)
  BY <1>1 DEF Counting!None, Entries, Values, AsNew
<1>4. Counting!Away \in Loads /\ Counting!Away.at = "away"
  BY <1>3 DEF Counting!Away, Loads, Entries
<1> QED
  BY <1>1, <1>2, <1>3, <1>4 DEF CountInv, Loading

(* Tokens are spent and episodes end while a thread loads.                  *)
LEMMA LoadsAge ==
    ASSUME CountInv, ledger' \in Seq(Nat), Len(ledger') >= Len(ledger), tokens' \in Nat,
           tokens' >= tokens, NEW l, Loading(l)
    PROVE  Loading(l)'
<1>1. l \in Loads /\ tokens \in Nat /\ Len(ledger) \in Nat /\ Len(ledger') \in Nat
  BY DEF Loading, CountInv
<1>2. /\ l.began \in Nat \X Nat /\ l.stamp \in Nat \X Nat /\ l.ledger \in Seq(Nat)
      /\ l.value \in Values /\ l.value.total \in Nat
  BY <1>1 DEF Loads, Values
<1>3. l.began[2] \in Nat /\ l.stamp[1] \in Nat /\ l.stamp[2] \in Nat
  BY <1>2
<1>4. Counting!Sum(l.ledger) \in Nat
  BY <1>2, SumOfOneMore
<1>5. \A s : AsNew(l.value, s) => AsNew(l.value, s)'
  BY <1>1, <1>2 DEF AsNew
<1> QED
  BY <1>1, <1>2, <1>3, <1>4, <1>5 DEF Loading

LEMMA CountWrites ==
    ASSUME CountInv, Counting!Spends \/ Counting!Finishes \/ Counting!Evict PROVE CountInv'
<1>1. /\ ledger \in Seq(Nat) /\ tokens \in Nat /\ running \in Nat
      /\ Counting!Sum(ledger) + running = tokens /\ Counting!Sum(ledger) \in Nat
      /\ cache \in Entries /\ AsNew(cache.value, cache.stamp) /\ cache.value.total \in Nat
  BY SumOfOneMore DEF CountInv, Entries, Values
<1>2. loads' = loads
  BY DEF Counting!Spends, Counting!Finishes, Counting!Evict
<1>3. /\ ledger' \in Seq(Nat) /\ Len(ledger') >= Len(ledger) /\ tokens' \in Nat
      /\ tokens' >= tokens /\ running' \in Nat /\ Counting!Sum(ledger') + running' = tokens'
  <2>1. CASE Counting!Spends
    BY <1>1, <2>1 DEF Counting!Spends
  <2>2. CASE Counting!Finishes
    <3>1. ledger' = Append(ledger, running) /\ running' = 0 /\ tokens' = tokens
      BY <2>2 DEF Counting!Finishes
    <3>2. Counting!Sum(ledger') = Counting!Sum(ledger) + running
      BY <1>1, <3>1, SumOfOneMore
    <3> QED
      BY <1>1, <3>1, <3>2
  <2>3. CASE Counting!Evict
    BY <1>1, <2>3 DEF Counting!Evict
  <2> QED
    BY <2>1, <2>2, <2>3
<1>4. cache' \in Entries /\ AsNew(cache.value, cache.stamp)'
  <2>1. CASE cache' = cache
    BY <1>1, <1>3, <2>1 DEF AsNew
  <2>2. CASE cache' = Counting!None
    BY <1>3, <2>2 DEF Counting!None, Entries, Values, AsNew
  <2> QED
    BY <2>1, <2>2 DEF Counting!Spends, Counting!Finishes, Counting!Evict
<1>5. \A t \in Threads : Loading(loads[t])'
  <2> SUFFICES ASSUME NEW t \in Threads PROVE Loading(loads[t])'
    OBVIOUS
  <2> DEFINE l == loads[t]
  <2>1. Loading(l)
    BY DEF CountInv
  <2>2. PICK m : m = l
    OBVIOUS
  <2>3. Loading(m)'
    BY <1>3, <2>1, <2>2, LoadsAge
  <2> QED
    BY <1>2, <2>2, <2>3 DEF Loading, AsNew
<1> QED
  BY <1>2, <1>3, <1>4, <1>5 DEF CountInv

(* A step of a thread: it leaves the files, and what it holds is fine.      *)
LEMMA ThreadGoes ==
    ASSUME CountInv, NEW t \in Threads, NEW l, Counting!Go(t, l), Loading(l),
           cache' \in Entries, AsNew(cache'.value, cache'.stamp)
    PROVE  CountInv'
<1>1. loads' = [loads EXCEPT ![t] = l] /\ UNCHANGED <<ledger, tokens, running>>
  BY DEF Counting!Go
<1>2. \A u \in Threads : Loading(loads'[u])
  BY <1>1 DEF CountInv
<1>3. \A u \in Threads : Loading(loads[u])'
  BY <1>1, <1>2 DEF Loading, AsNew
<1> QED
  BY <1>1, <1>3 DEF CountInv, AsNew

LEMMA CountThreads ==
    ASSUME CountInv, NEW t \in Threads,
           \/ Counting!StatLedger(t) \/ Counting!StatTrace(t) \/ Counting!Lookup(t)
           \/ Counting!LoadLedger(t) \/ Counting!LoadTrace(t) \/ Counting!Store(t)
           \/ Counting!Return(t)
    PROVE  CountInv'
<1> DEFINE l == loads[t]
<1>1. /\ ledger \in Seq(Nat) /\ Len(ledger) \in Nat /\ tokens \in Nat /\ running \in Nat
      /\ Counting!Sum(ledger) + running = tokens /\ Counting!Sum(ledger) \in Nat
      /\ cache \in Entries /\ AsNew(cache.value, cache.stamp)
  BY SumOfOneMore DEF CountInv
<1>2. Loading(l) /\ l \in Loads
  BY DEF CountInv, Loading
<1>3. /\ l.began \in Nat \X Nat /\ l.stamp \in Nat \X Nat /\ l.seen \in Entries
      /\ l.ledger \in Seq(Nat) /\ l.value \in Values
      /\ l.began[1] \in Nat /\ l.began[2] \in Nat /\ l.stamp[1] \in Nat /\ l.stamp[2] \in Nat
      /\ Counting!Sum(l.ledger) \in Nat /\ Len(l.ledger) \in Nat
  <2>1. /\ l.began \in Nat \X Nat /\ l.stamp \in Nat \X Nat /\ l.seen \in Entries
        /\ l.ledger \in Seq(Nat) /\ l.value \in Values
    BY <1>2 DEF Loads
  <2>2. Counting!Sum(l.ledger) \in Nat
    <3>1. l.ledger \in Seq(Nat) /\ 0 \in Nat
      BY <2>1
    <3> QED
      BY <3>1, SumOfOneMore
  <2> QED
    BY <2>1, <2>2
<1>4. /\ cache.stamp \in Int \X Int /\ cache.value \in Values
      /\ cache.value.ledger \in Nat /\ cache.value.trace \in Nat /\ cache.value.total \in Nat
  BY <1>1 DEF Entries, Values
<1>5. /\ Counting!Away \in Loads /\ Counting!Away.at = "away"
  BY DEF Counting!Away, Counting!None, Loads, Entries, Values
<1> HIDE DEF l
<1>6. CASE Counting!StatLedger(t)
  <2> DEFINE m == [Counting!Away EXCEPT !.at = "stat", !.began = <<Len(ledger), tokens>>,
                                        !.stamp = <<Len(ledger), 0>>]
  <2>1. Counting!Go(t, m) /\ cache' = cache
    BY <1>6 DEF Counting!StatLedger
  <2>2. m \in Loads /\ m.at = "stat" /\ m.began = <<Len(ledger), tokens>>
        /\ m.stamp = <<Len(ledger), 0>>
    BY <1>1, <1>5 DEF Loads
  <2> HIDE DEF m
  <2>3. Loading(m)
    BY <1>1, <2>2 DEF Loading
  <2> QED
    BY <1>1, <2>1, <2>3, ThreadGoes
<1>7. CASE Counting!StatTrace(t)
  <2> DEFINE m == [l EXCEPT !.at = "look", !.stamp[2] = tokens]
  <2>1. Counting!Go(t, m) /\ cache' = cache /\ l.at = "stat"
    BY <1>7 DEF Counting!StatTrace, l
  <2>2. m \in Loads /\ m.at = "look" /\ m.began = l.began
        /\ m.stamp = <<l.stamp[1], tokens>>
    <3>1. [l.stamp EXCEPT ![2] = tokens] = <<l.stamp[1], tokens>>
      BY <1>3
    <3>2. m.stamp = [l.stamp EXCEPT ![2] = tokens]
      BY <1>2 DEF Loads
    <3>3. m.stamp = <<l.stamp[1], tokens>> /\ m.stamp \in Nat \X Nat
      BY <1>1, <1>3, <3>1, <3>2
    <3> QED
      BY <1>2, <3>3 DEF Loads
  <2> HIDE DEF m
  <2>3. Loading(m)
    BY <1>1, <1>2, <1>3, <2>1, <2>2 DEF Loading
  <2> QED
    BY <1>1, <2>1, <2>3, ThreadGoes
<1>8. CASE Counting!Lookup(t)
  <2>1. l.at = "look" /\ cache' = cache
    BY <1>8 DEF Counting!Lookup, l
  <2>2. CASE cache.stamp = l.stamp
    <3> DEFINE m == [l EXCEPT !.at = "back", !.value = cache.value]
    <3>1. Counting!Go(t, m)
      BY <1>8, <2>2 DEF Counting!Lookup, l
    <3>2. m \in Loads /\ m.at = "back" /\ m.began = l.began /\ m.stamp = l.stamp
          /\ m.value = cache.value
      BY <1>2, <1>4 DEF Loads
    <3> HIDE DEF m
    <3>3. l.stamp[1] >= l.began[1] /\ l.stamp[2] >= l.began[2] /\ l.stamp[1] <= Len(ledger)
          /\ l.stamp[2] <= tokens
      BY <1>2, <2>1 DEF Loading
    <3>4. AsNew(m.value, m.began)
      <4>1. /\ cache.value.ledger >= l.stamp[1] /\ cache.value.trace >= l.stamp[2]
            /\ cache.value.total <= tokens
        BY <1>1, <2>2 DEF AsNew
      <4>2. /\ cache.value.ledger >= l.began[1] /\ cache.value.trace >= l.began[2]
        BY <1>3, <1>4, <3>3, <4>1
      <4> QED
        BY <3>2, <4>1, <4>2 DEF AsNew
    <3>5. Loading(m)
      BY <3>2, <3>3, <3>4 DEF Loading
    <3> QED
      BY <1>1, <2>1, <3>1, <3>5, ThreadGoes
  <2>3. CASE cache.stamp # l.stamp
    <3> DEFINE m == [l EXCEPT !.at = "load", !.seen = cache]
    <3>1. Counting!Go(t, m)
      BY <1>8, <2>3 DEF Counting!Lookup, l
    <3>2. m \in Loads /\ m.at = "load" /\ m.began = l.began /\ m.stamp = l.stamp
      BY <1>1, <1>2 DEF Loads
    <3> HIDE DEF m
    <3>3. Loading(m)
      BY <1>2, <2>1, <3>2 DEF Loading
    <3> QED
      BY <1>1, <2>1, <3>1, <3>3, ThreadGoes
  <2> QED
    BY <2>2, <2>3
<1>9. CASE Counting!LoadLedger(t)
  <2> DEFINE m == [l EXCEPT !.at = "scan", !.ledger = ledger]
  <2>1. Counting!Go(t, m) /\ cache' = cache /\ l.at = "load"
    BY <1>9 DEF Counting!LoadLedger, l
  <2>2. m \in Loads /\ m.at = "scan" /\ m.began = l.began /\ m.stamp = l.stamp
        /\ m.ledger = ledger
    BY <1>1, <1>2 DEF Loads
  <2> HIDE DEF m
  <2>3. Loading(m)
    BY <1>1, <1>2, <1>3, <2>1, <2>2 DEF Loading
  <2> QED
    BY <1>1, <2>1, <2>3, ThreadGoes
<1>10. CASE Counting!LoadTrace(t)
  <2> DEFINE v == Counting!Totals(l.ledger, tokens)
             m == [l EXCEPT !.at = "store", !.value = v]
  <2>1. Counting!Go(t, m) /\ cache' = cache /\ l.at = "scan"
    BY <1>10 DEF Counting!LoadTrace, l
  <2>2. v \in Values /\ v.ledger = Len(l.ledger) /\ v.trace = tokens
        /\ (v.total = tokens \/ v.total = Counting!Sum(l.ledger))
    BY <1>1, <1>3 DEF Counting!Totals, Values
  <2> HIDE DEF v
  <2>3. m \in Loads /\ m.at = "store" /\ m.began = l.began /\ m.stamp = l.stamp
        /\ m.ledger = l.ledger /\ m.value = v
    BY <1>2, <2>2 DEF Loads
  <2> HIDE DEF m
  <2>4. /\ l.stamp[1] >= l.began[1] /\ l.stamp[2] >= l.began[2] /\ l.stamp[1] <= Len(ledger)
        /\ l.stamp[2] <= tokens /\ Len(l.ledger) >= l.stamp[1]
        /\ Counting!Sum(l.ledger) <= tokens
    BY <1>2, <2>1 DEF Loading
  <2>5. AsNew(m.value, m.stamp)
    BY <1>1, <1>3, <2>2, <2>3, <2>4 DEF AsNew
  <2>6. Loading(m)
    BY <2>3, <2>4, <2>5 DEF Loading
  <2> QED
    BY <1>1, <2>1, <2>6, ThreadGoes
<1>11. CASE Counting!Store(t)
  <2> DEFINE old == Counting!Overtaken(l)
             v == IF old /\ cache.stamp = l.stamp THEN cache.value ELSE l.value
             m == [l EXCEPT !.at = "back", !.value = v]
  <2>1. /\ cache' = (IF old THEN cache ELSE Counting!EntryOf(l)) /\ l.at = "store"
        /\ Counting!Go(t, m)
    BY <1>11 DEF Counting!Store, l
  <2>2. /\ l.stamp[1] >= l.began[1] /\ l.stamp[2] >= l.began[2] /\ l.stamp[1] <= Len(ledger)
        /\ l.stamp[2] <= tokens /\ AsNew(l.value, l.stamp)
    BY <1>2, <2>1 DEF Loading
  <2> HIDE DEF old
  <2>3. v \in Values /\ AsNew(v, l.stamp)
    BY <1>1, <1>3, <1>4, <2>2 DEF AsNew
  <2>4. cache' \in Entries /\ AsNew(cache'.value, cache'.stamp)
    <3>1. CASE cache' = cache
      BY <1>1, <3>1
    <3>2. CASE cache' = Counting!EntryOf(l)
      <4>1. cache'.value = l.value /\ cache'.stamp = l.stamp
        BY <3>2 DEF Counting!EntryOf
      <4>2. l.stamp \in Int \X Int
        BY <1>3
      <4> QED
        BY <1>3, <2>2, <3>2, <4>1, <4>2 DEF Counting!EntryOf, Entries
    <3> QED
      BY <2>1, <3>1, <3>2
  <2> HIDE DEF v
  <2>5. m \in Loads /\ m.at = "back" /\ m.began = l.began /\ m.stamp = l.stamp /\ m.value = v
    BY <1>2, <2>3 DEF Loads
  <2> HIDE DEF m
  <2>6. AsNew(m.value, m.began)
    <3>1. v.ledger \in Nat /\ v.trace \in Nat
      BY <2>3 DEF Values
    <3> QED
      BY <1>3, <2>2, <2>3, <2>5, <3>1 DEF AsNew
  <2>7. Loading(m)
    BY <2>2, <2>5, <2>6 DEF Loading
  <2> QED
    BY <2>1, <2>4, <2>7, ThreadGoes
<1>12. CASE Counting!Return(t)
  <2>1. Counting!Go(t, Counting!Away) /\ cache' = cache
    BY <1>12 DEF Counting!Return
  <2>2. Loading(Counting!Away)
    BY <1>5 DEF Loading
  <2> QED
    BY <1>1, <2>1, <2>2, ThreadGoes
<1> QED
  BY <1>6, <1>7, <1>8, <1>9, <1>10, <1>11, <1>12

LEMMA CountStep ==
    ASSUME CountInv, Counting!CacheNext \/ UNCHANGED countVars PROVE CountInv'
<1>1. CASE UNCHANGED countVars
  <2>1. UNCHANGED <<ledger, tokens, running, cache, loads>>
    BY <1>1 DEF countVars
  <2> QED
    BY <2>1 DEF CountInv, Loading, AsNew
<1>2. CASE Counting!CacheNext
  BY <1>2, CountWrites, CountThreads DEF Counting!CacheNext
<1> QED
  BY <1>1, <1>2

(* Any number of threads over two files that grow: a total the dashboard    *)
(* shows is never older than the request it answers, whichever thread's     *)
(* entry the cache had, and no token of an episode that ends while the two  *)
(* files are read is in it twice.                                           *)
THEOREM TotalsAreCurrent == MCSpec => [](Counting!ReadIsCurrent /\ Counting!CountedOnce)
<1>1. MCInit => CountInv
  BY CountStarts DEF MCInit
<1>2. CountInv /\ [MCNext]_allVars => CountInv'
  BY CountStep DEF MCNext, allVars
<1>3. CountInv => Counting!ReadIsCurrent /\ Counting!CountedOnce
  BY DEF CountInv, Loading, AsNew, Counting!ReadIsCurrent, Counting!CountedOnce
<1> QED
  BY <1>1, <1>2, <1>3, PTL DEF MCSpec
===============================================================================
