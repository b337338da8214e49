------------------------------- MODULE RunNode -------------------------------
(***************************************************************************)
(* run_node (v0/runner.py) for one node: the one entry point of a writer   *)
(* episode, for a first run, a retry and a resume after a kill -9 alike.   *)
(* What it does next is decided by events.jsonl (v0/events.py) alone.      *)
(*                                                                         *)
(* Beside it run the watcher that copies the CLI's session id into the     *)
(* log, the operator's bypass, and the thread that deletes the sessions of *)
(* a passed node (adapters/opencode_cleanup.py).  A step is one stretch of *)
(* code between two durable writes.                                        *)
(***************************************************************************)
EXTENDS Naturals, FiniteSets, SequencesExt

CONSTANTS
    Adapters,       \* values of supports_session_resume, chosen at each call
    FileTools,      \* the adapter's has_file_tools
    MaxKeep,        \* attempt snapshots kept (max_keep)
    Punctuations,   \* whether a writer may leave typographic punctuation behind
    MayTear,        \* a kill may leave half a line at the end of events.jsonl
    MaxCalls, MaxCrashes, MaxEdits   \* bounds of the checked behaviours

ASSUME RunNodeAssumption ==
    /\ Adapters \subseteq BOOLEAN /\ Adapters # {}
    /\ FileTools \in BOOLEAN /\ MayTear \in BOOLEAN
    /\ MaxKeep \in Nat \ {0}
    /\ Punctuations \subseteq BOOLEAN /\ Punctuations # {}
    /\ MaxCalls \in Nat /\ MaxCrashes \in Nat /\ MaxEdits \in Nat

VARIABLES
    log,        \* the node's readable lines of events.jsonl
    torn,       \* events.jsonl ends in half a line
    trace,      \* the session ids on the complete lines of trace.jsonl
    half,       \* trace.jsonl ends in half of a line that will name a session
    art,        \* the node's artifact
    snaps,      \* the attempt_* snapshots, oldest first
    flag,       \* the operator's bypass flag for this writer
    stubs,      \* the node is a unit leaf: out/<node>/u*.md were laid out for it
    store,      \* the sessions the CLI still has
    stage,      \* where run_node is
    call,       \* what this call decided
    cli,        \* the CLI's session, or 0 while it has none
    watching,   \* the session watcher still looks
    seen,       \* complete lines of the trace it has read
    node,       \* what the round loop makes of the node
    cleaner,    \* the cleanup thread: the sessions it still has to delete
    gone,       \* the session it has just deleted and not yet logged, or 0
    owed,       \* history: the caller has not acted on the last recorded result
    calls, crashes, edits    \* counters behind the bounds

durable == <<log, torn, trace, half, art, snaps, flag, stubs>>
episode == <<cli, watching, seen>>
cleanup == <<store, cleaner, gone>>
counters == <<calls, crashes, edits>>
vars == <<durable, episode, cleanup, stage, call, node, owed, counters>>

Session == Nat \ {0}
Reason == {"dispatched", "no_session_captured", "resumed_session", "nudged_session",
           "session_deleted", "session_degenerate", "session_stalled_empty",
           "resume_unsupported", "fresh_session_continuation"}
Status == {"done", "degenerate"}    \* done: any end the output guard did not cause

(* The events whose presence after a completion means somebody acted on it:
   node_gate_failed stands for the seven the round loop logs besides a nudge,
   node_reopened for the operator's two.                                    *)
ReplayInvalidating == {"node_gate_failed", "node_nudged", "node_reopened"}
WriterLifecycle == {"node_nudged", "node_dispatched", "node_redispatched", "episode_completed"}
EventType == ReplayInvalidating \cup WriterLifecycle
                \cup {"session_captured", "opencode_session_deleted"}
Event == [type: EventType, sid: Nat, note: Status \cup {""}]
Ev(type) == [type |-> type, sid |-> 0, note |-> ""]

Empty == [v |-> 0, curly |-> FALSE]
Artifact == [v: Nat, curly: BOOLEAN]    \* curly: holds typographic punctuation

NoCall == [reason |-> "dispatched", resume |-> 0, known |-> {}, old |-> {}, resumes |-> FALSE,
           status |-> "done", found |-> Empty]
Stage == {"idle",       \* no call
          "dispatched", \* the dispatch event is logged
          "prepared",   \* the artifact left behind is normalised
          "waived",     \* bypassed before the start
          "episode",    \* the CLI runs
          "ended",      \* the CLI has ended
          "filled",     \* the artifact file exists
          "returned"}   \* run_node has returned; the caller has not acted on it

TypeOK ==
    /\ log \in Seq(Event) /\ torn \in BOOLEAN
    /\ trace \in Seq(Session) /\ half \in BOOLEAN
    /\ art \in Artifact /\ snaps \in Seq(Artifact) /\ Len(snaps) <= MaxKeep
    /\ flag \in BOOLEAN /\ stubs \in BOOLEAN
    /\ store \in SUBSET Session /\ cleaner \in SUBSET Session /\ gone \in Nat
    /\ stage \in Stage
    /\ call \in [reason: Reason, resume: Nat, known: SUBSET Session, old: SUBSET Session,
                 resumes: BOOLEAN, status: Status, found: Artifact]
    /\ cli \in Nat /\ watching \in BOOLEAN /\ seen \in 0..Len(trace) + 1
    /\ node \in {"pending", "passed"} /\ owed \in BOOLEAN
    /\ calls \in 0..MaxCalls /\ crashes \in 0..MaxCrashes /\ edits \in 0..MaxEdits

Init ==
    /\ log = <<>> /\ torn = FALSE
    /\ trace = <<>> /\ half = FALSE
    /\ art = Empty /\ snaps = <<>>
    /\ flag = FALSE /\ stubs \in BOOLEAN
    /\ store = {} /\ cleaner = {} /\ gone = 0
    /\ stage = "idle" /\ call = NoCall
    /\ cli = 0 /\ watching = FALSE /\ seen = 0
    /\ node = "pending" /\ owed = FALSE
    /\ calls = 0 /\ crashes = 0 /\ edits = 0

-----------------------------------------------------------------------------
(* events.jsonl: a new line is glued to half a line left by a kill, and the
   reader drops what it cannot parse.                                       *)
Appended(e) == IF torn THEN log ELSE Append(log, e)
AppendEvent(e) == log' = Appended(e) /\ torn' = FALSE
(* An event nobody reads back. *)
AppendUnread == UNCHANGED log /\ torn' = FALSE

LastEvent(types) == SelectLastInSeq(log, LAMBDA e : e.type \in types)
Completed == LastEvent({"episode_completed"})
(* Mutant: a nudge does not void the completion it answers. *)
ConsumedButByNudge ==
    \E i \in DOMAIN log : i > Completed /\ log[i].type \in ReplayInvalidating \ {"node_nudged"}
(* Timestamps are taken in the order of the appends.                        *)
Consumed == \E i \in DOMAIN log : i > Completed /\ log[i].type \in ReplayInvalidating

CapturedSession == LET i == LastEvent({"session_captured"}) IN IF i = 0 THEN 0 ELSE log[i].sid
KnownSessions == {log[i].sid : i \in DOMAIN log} \ {0}
SessionDeleted(s) == \E i \in DOMAIN log : log[i] = [Ev("opencode_session_deleted") EXCEPT !.sid = s]
PendingNudge == LET i == LastEvent(WriterLifecycle) IN i # 0 /\ log[i].type = "node_nudged"

(* _session_tail_degenerate: the last recorded episode ended in garbage, which
   the guard stopped or left as the last output of the trace.               *)
TailDegenerate == Completed # 0 /\ log[Completed].note = "degenerate"
StalledEmpty == ~PendingNudge /\ Completed # 0 /\ art.v = 0
Resumable == ~stubs \/ PendingNudge

(* Mutant: a session that never printed its id counts as a first dispatch. *)
WhyUnframed(resumes) ==
    IF CapturedSession # 0 THEN "resumed_session" ELSE "dispatched"

(* Why, and so how, this call starts its episode. *)
Why(resumes) ==
    LET s == CapturedSession
    IN  CASE s = 0 /\ LastEvent({"node_dispatched"}) = 0 -> "dispatched"
          [] s = 0 /\ LastEvent({"node_dispatched"}) # 0 -> "no_session_captured"
          [] s # 0 /\ SessionDeleted(s) -> "session_deleted"
          [] s # 0 /\ ~SessionDeleted(s) /\ ~resumes -> "resume_unsupported"
          [] s # 0 /\ ~SessionDeleted(s) /\ resumes /\ ~Resumable -> "fresh_session_continuation"
          [] s # 0 /\ ~SessionDeleted(s) /\ resumes /\ Resumable ->
                IF TailDegenerate THEN "session_degenerate"
                ELSE IF StalledEmpty THEN "session_stalled_empty"
                ELSE IF PendingNudge THEN "nudged_session" ELSE "resumed_session"

Prompt(reason) == CASE reason = "dispatched" -> "task"
                    [] reason = "nudged_session" -> "nudge"
                    [] OTHER -> "continuation"
-----------------------------------------------------------------------------
(* run_node. *)

(* A completion nobody has acted on is returned again; no episode runs.     *)
Replay ==
    /\ stage = "idle" /\ node = "pending" /\ calls < MaxCalls
    /\ Completed # 0 /\ ~Consumed
    /\ stage' = "returned"
    /\ call' = [NoCall EXCEPT !.status = log[Completed].note]
    /\ calls' = calls + 1
    /\ UNCHANGED <<durable, episode, cleanup, node, owed, crashes, edits>>

Dispatch ==
    /\ stage = "idle" /\ node = "pending" /\ calls < MaxCalls
    /\ Completed = 0 \/ Consumed
    /\ \E resumes \in Adapters :
          LET why == Why(resumes)
          IN  /\ call' = [NoCall EXCEPT
                            !.reason = why, !.resumes = resumes, !.known = KnownSessions,
                            !.resume = IF why \in {"resumed_session", "nudged_session"}
                                       THEN CapturedSession ELSE 0]
              /\ AppendEvent(Ev(IF why = "dispatched" THEN "node_dispatched"
                                ELSE "node_redispatched"))
    /\ stage' = "dispatched"
    /\ calls' = calls + 1
    /\ UNCHANGED <<trace, half, art, snaps, flag, stubs, episode, cleanup, node, owed, crashes, edits>>

(* Section F6: what a previous attempt left is put into plain punctuation.  *)
Prepare ==
    /\ stage = "dispatched"
    /\ IF call.reason # "dispatched" /\ art.curly
       THEN art' = [art EXCEPT !.curly = FALSE] /\ AppendUnread
       ELSE UNCHANGED <<art, log, torn>>
    /\ stage' = "prepared"
    /\ UNCHANGED <<trace, half, snaps, flag, stubs, episode, cleanup, call, node, owed, counters>>

(* The operator's flag is seen before the start: an empty artifact, no CLI. *)
Waive ==
    /\ stage = "prepared" /\ flag
    /\ AppendUnread
    /\ stage' = "waived"
    /\ UNCHANGED <<trace, half, art, snaps, flag, stubs, episode, cleanup, call, node, owed, counters>>

WaiveDone ==
    /\ stage = "waived"
    /\ AppendEvent([Ev("episode_completed") EXCEPT !.note = "done"])
    /\ owed' = TRUE
    /\ stage' = "returned"
    /\ UNCHANGED <<trace, half, art, snaps, flag, stubs, episode, cleanup, call, node, counters>>

(* Mutant: nothing is pruned. *)
SnapshottedAll == IF art.v = 0 THEN snaps ELSE Append(snaps, art)
(* Mutant: the newest snapshots are the ones pruned. *)
SnapshottedOldest == IF art.v = 0 THEN snaps ELSE
    LET all == Append(snaps, art) IN SubSeq(all, 1, IF Len(all) > MaxKeep THEN MaxKeep ELSE Len(all))

(* _snapshot_pre_writer: a copy of a non-empty artifact, the newest MaxKeep kept. *)
Snapshotted == IF art.v = 0 THEN snaps ELSE
    LET all == Append(snaps, art)
    IN  SubSeq(all, IF Len(all) > MaxKeep THEN Len(all) - MaxKeep + 1 ELSE 1, Len(all))

Launch ==
    /\ stage = "prepared" /\ ~flag
    /\ snaps' = Snapshotted
    /\ call' = [call EXCEPT !.found = art, !.old = ToSet(trace)]
    /\ cli' = 0
    /\ watching' = call.resumes /\ seen' = 0
    /\ stage' = "episode"
    /\ UNCHANGED <<log, torn, trace, half, art, flag, stubs, cleanup, node, owed, counters>>

-----------------------------------------------------------------------------
(* The CLI under an adapter (external), its output teed to the trace.       *)

(* It opens its session: the one asked for, or a new one.  Only an adapter
   that resumes prints one.                                                 *)
CliOpens ==
    /\ stage = "episode" /\ cli = 0 /\ call.resumes
    /\ call.resume = 0 \/ call.resume \in store
    /\ cli' = IF call.resume # 0 THEN call.resume ELSE calls
    /\ store' = store \cup {cli'}
    /\ half' = TRUE
    /\ UNCHANGED <<log, torn, trace, art, snaps, flag, stubs, watching, seen, cleaner, gone, stage,
                   call, node, owed, counters>>

CliPrints ==
    /\ stage = "episode" /\ cli # 0 /\ half
    /\ trace' = Append(trace, cli)
    /\ half' = FALSE
    /\ UNCHANGED <<log, torn, art, snaps, flag, stubs, episode, cleanup, stage, call, node,
                   owed, counters>>

(* It writes, rewrites or wipes the artifact. *)
CliWrites ==
    /\ stage = "episode" /\ art = call.found
    /\ cli # 0 \/ ~call.resumes
    /\ art' \in {Empty} \cup [v: {calls}, curly: Punctuations]
    /\ UNCHANGED <<log, torn, trace, half, snaps, flag, stubs, episode, cleanup, stage, call, node,
                   owed, counters>>

CliEnds(status) ==
    /\ stage = "episode"
    /\ call' = [call EXCEPT !.status = status]
    /\ cli' = 0 /\ watching' = FALSE /\ seen' = 0   \* the watcher is cancelled, not drained
    /\ half' = FALSE    \* a line without its end is never read
    /\ stage' = "ended"
    /\ UNCHANGED <<log, torn, trace, art, snaps, flag, stubs, cleanup, node, owed, counters>>

(* _watch_for_bypass cancels the episode; run_node turns that into done.    *)
BypassMidFlight ==
    /\ stage = "episode" /\ flag
    /\ AppendUnread
    /\ call' = [call EXCEPT !.status = "done"]
    /\ cli' = 0 /\ watching' = FALSE /\ seen' = 0
    /\ half' = FALSE
    /\ stage' = "ended"
    /\ UNCHANGED <<trace, art, snaps, flag, stubs, cleanup, node, owed, counters>>

-----------------------------------------------------------------------------
(* _watch_for_session_id: the complete lines since the last poll; the first
   id this node's log did not name when the call began ends the watch.      *)
(* Mutant: the lines of earlier attempts are not skipped. *)
NewInAny(lines) == SelectInSeq(lines, LAMBDA s : TRUE)
NewIn(lines) == SelectInSeq(lines, LAMBDA s : s \notin call.known)
(* Mutant: a half line counts as read. *)
PollTorn ==
    /\ watching /\ seen < Len(trace) + (IF half THEN 1 ELSE 0)
    /\ LET lines == SubSeq(trace, seen + 1, Len(trace)) i == NewIn(lines)
       IN  IF i = 0 THEN UNCHANGED <<log, torn, watching>>
           ELSE AppendEvent([Ev("session_captured") EXCEPT !.sid = lines[i]]) /\ watching' = FALSE
    /\ seen' = Len(trace) + (IF half THEN 1 ELSE 0)
    /\ UNCHANGED <<trace, half, art, snaps, flag, stubs, cli, cleanup, stage, call, node, owed,
                   counters>>
Poll ==
    /\ watching /\ seen < Len(trace)
    /\ LET lines == SubSeq(trace, seen + 1, Len(trace)) i == NewIn(lines)
       IN  IF i = 0 THEN UNCHANGED <<log, torn, watching>>
           ELSE AppendEvent([Ev("session_captured") EXCEPT !.sid = lines[i]]) /\ watching' = FALSE
    /\ seen' = Len(trace)
    /\ UNCHANGED <<trace, half, art, snaps, flag, stubs, cli, cleanup, stage, call, node, owed, counters>>

-----------------------------------------------------------------------------
(* After the episode. *)

(* An adapter with file tools that wrote nothing leaves an empty file; any
   other's last visible message, if there is one, is the artifact.          *)
Fill ==
    /\ stage = "ended"
    /\ art' \in {art} \cup (IF art.v = 0 /\ ~FileTools THEN [v: {calls}, curly: Punctuations]
                           ELSE {})
    /\ stage' = "filled"
    /\ UNCHANGED <<log, torn, trace, half, snaps, flag, stubs, episode, cleanup, call, node,
                   owed, counters>>

Complete ==
    /\ stage = "filled"
    /\ AppendEvent([Ev("episode_completed") EXCEPT !.note = call.status])
    /\ owed' = TRUE
    /\ stage' = "returned"
    /\ UNCHANGED <<trace, half, art, snaps, flag, stubs, episode, cleanup, call, node, counters>>

-----------------------------------------------------------------------------
(* The caller: _transition_after_writer and the review, in the terms of what
   they log about this node.                                                *)
Judged(event) ==
    /\ stage = "returned"
    /\ AppendEvent(Ev(event))
    /\ stage' = "idle" /\ call' = NoCall
    /\ owed' = FALSE
    /\ UNCHANGED <<trace, half, art, snaps, flag, stubs, episode, cleanup, node, counters>>

(* sessions_to_delete: captured, still in the store, not yet logged as deleted. *)
Deletable == {s \in KnownSessions \cap store : ~SessionDeleted(s)}

(* The node passes; schedule_node_cleanup starts the thread.                *)
Pass ==
    /\ stage = "returned"
    /\ art.v # 0 \/ flag
    /\ node' = "passed"
    /\ stage' = "idle" /\ call' = NoCall
    /\ cleaner' = cleaner \cup Deletable
    /\ owed' = FALSE
    /\ UNCHANGED <<durable, episode, store, gone, counters>>

(* Each deletion boots the CLI, which may take as long as an episode's boot,
   and is logged only after it.                                             *)
CleanerDeletes(s) ==
    /\ s \in cleaner /\ gone = 0
    /\ gone' = s
    /\ store' = store \ {s}
    /\ cleaner' = cleaner \ {s}
    /\ UNCHANGED <<durable, episode, stage, call, node, owed, counters>>
CleanerLogs ==
    /\ gone # 0
    /\ AppendEvent([Ev("opencode_session_deleted") EXCEPT !.sid = gone])
    /\ gone' = 0
    /\ UNCHANGED <<trace, half, art, snaps, flag, stubs, episode, store, cleaner, stage, call, node,
                   owed, counters>>
(* A time-out, or a CLI that fails, deletes nothing it reports. *)
CleanerFails(s) ==
    /\ s \in cleaner /\ gone = 0
    /\ cleaner' = cleaner \ {s}
    /\ AppendUnread
    /\ UNCHANGED <<trace, half, art, snaps, flag, stubs, episode, store, gone, stage, call, node,
                   owed, counters>>

-----------------------------------------------------------------------------
(* The operator and the machine. *)
Reopen ==
    /\ node = "passed" /\ edits < MaxEdits
    /\ AppendEvent(Ev("node_reopened"))
    /\ node' = "pending"
    /\ owed' = FALSE
    /\ edits' = edits + 1
    /\ UNCHANGED <<trace, half, art, snaps, flag, stubs, episode, cleanup, stage, call, calls,
                   crashes>>

RequestBypass ==
    /\ ~flag /\ edits < MaxEdits
    /\ flag' = TRUE
    /\ AppendUnread
    /\ edits' = edits + 1
    /\ UNCHANGED <<trace, half, art, snaps, stubs, episode, cleanup, stage, call, node, owed, calls,
                   crashes>>

(* kill -9: the harness and its threads are gone, the files stay.           *)
Kill ==
    /\ stage # "idle" \/ cleaner # {} \/ gone # 0
    /\ crashes < MaxCrashes
    /\ crashes' = crashes + 1
    /\ torn' \in (IF MayTear THEN {torn, TRUE} ELSE {torn})
    /\ half' = FALSE
    /\ stage' = "idle" /\ call' = NoCall
    /\ cli' = 0 /\ watching' = FALSE /\ seen' = 0
    /\ cleaner' = {} /\ gone' = 0
    /\ UNCHANGED <<log, trace, art, snaps, flag, stubs, store, node, owed, calls, edits>>

Next ==
    \/ Replay \/ Dispatch \/ Prepare \/ Waive \/ WaiveDone \/ Launch
    \/ CliOpens \/ CliPrints \/ CliWrites
    \/ \E status \in Status : CliEnds(status)
    \/ BypassMidFlight \/ Poll \/ Fill \/ Complete
    \/ Judged("node_gate_failed") \/ Judged("node_nudged") \/ Pass
    \/ \E s \in cleaner : CleanerDeletes(s) \/ CleanerFails(s)
    \/ CleanerLogs
    \/ Reopen \/ RequestBypass \/ Kill

Spec == Init /\ [][Next]_vars

-----------------------------------------------------------------------------
(* A recorded result is handed to the caller until the caller has acted on
   it, and an episode only runs once it has: across kills, resumes, retries
   and bypasses no result is processed twice, and none is dropped
   (_completion_consumed).                                                  *)
OneEpisodePerResult ==
    [][/\ stage = "idle" /\ stage' = "returned" => owed
       /\ stage = "idle" /\ stage' = "dispatched" => ~owed]_vars

(* A session is captured at most once, although every watcher reads the
   trace of all attempts from its start.                                    *)
CapturedOnce ==
    \A i, j \in DOMAIN log :
        /\ log[i].type = "session_captured" /\ log[j].type = "session_captured"
        /\ log[i].sid = log[j].sid
        => i = j

(* What an episode found can be put back after it: the newest snapshot is
   what was there when it started, whatever it has written or wiped since.  *)
FoundIsKept ==
    stage \in {"episode", "ended", "filled"} /\ call.found.v # 0
        => snaps # <<>> /\ Last(snaps) = call.found

(* An episode that finds work on disk is never given the bare task, which a
   model reads as "do it again": over kills before any output, lost and
   deleted sessions and reopened nodes.                                     *)
FramedAsContinuation ==
    stage = "episode" /\ call.found.v # 0 => Prompt(call.reason) # "task"

(* What the watcher has moved past is in the log, even when it polled in the
   middle of a line - as long as no earlier attempt left a session in the
   trace that its own watcher had missed.                                   *)
SeenIsCaptured ==
    stage = "episode" /\ call.resumes /\ call.old \subseteq call.known
        => \A i \in DOMAIN trace : i <= seen => trace[i] \in KnownSessions

(* Across kills, retries, lost sessions and deleted ones, what an episode
   found and what it captured is kept: the artifact it started from can be
   put back, a session is captured once and never passed over, and an
   episode that finds work is told to go on with it.                        *)
WorkIsKept ==
    /\ TypeOK /\ CapturedOnce /\ SeenIsCaptured
    /\ FoundIsKept /\ FramedAsContinuation
=============================================================================
