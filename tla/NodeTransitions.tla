--------------------------- MODULE NodeTransitions ---------------------------
(***************************************************************************)
(* What one finished writer episode, or one review verdict, does to a node *)
(* (v1/round_loop.py:_transition_after_writer, _transition_after_review,   *)
(* _writer_stall_nudge, non_attempt_cap_reached).  Pure: the round loop    *)
(* and the T0 direct path both apply these to the node they hold.          *)
(***************************************************************************)
EXTENDS TaskTree

CONSTANTS
    MaxAttempts,        \* max_attempts: charged failures before a node blocks
    NonAttemptCap,      \* KUSUDAEMON_MAX_NON_ATTEMPTS
    NonAttemptHardCap,  \* ten times that count in the code
    NudgeCap,           \* KUSUDAEMON_WRITER_NUDGES
    Units,              \* budget.units_expected: units a complete artifact holds
    CreditsProgress,    \* unit stubs, a single-writer node, or the opt-in flag
    ReviewRetry         \* KUSUDAEMON_REVIEW_UNAVAILABLE = "retry"

ASSUME BudgetAssumption ==
    /\ MaxAttempts \in Nat \ {0}
    /\ NonAttemptCap \in Nat \ {0}
    /\ NonAttemptHardCap \in Nat /\ NonAttemptHardCap >= NonAttemptCap
    /\ NudgeCap \in Nat
    /\ Units \in Nat \ {0}
    /\ CreditsProgress \in BOOLEAN
    /\ ReviewRetry \in BOOLEAN

NonAttemptStatus == {"throttled", "transport"}
EpisodeStatus == {"done", "timeout", "error"} \cup NonAttemptStatus
Verdict == {"pass", "fail", "unavailable"}

(* An artifact on disk: the units it holds and whether it passes the node's
   hard gates.  units_min is one of the gates, so only a full one passes.  *)
Artifact == {a \in [units: 0..Units, ok: BOOLEAN] : a.ok => a.units = Units}
EmptyArtifact == [units |-> 0, ok |-> FALSE]

(* What the transition reads: the episode's status, the artifact now on
   disk, the snapshot taken before the episode, whether the operator
   bypassed the node, whether a shrunken artifact was judged accidental and
   restored, and whether the non-attempt streak is older than the window.  *)
Outcome == [status: EpisodeStatus, art: Artifact, prior: Artifact,
            bypassed: BOOLEAN, lost: BOOLEAN, streakOld: BOOLEAN]

(* Section L4: the artifact shrank and the shrinking was unscoped.         *)
AccidentalLoss(status, art, prior, bypassed, unscoped) ==
    /\ art.units < prior.units
    /\ art.units = 0 \/ unscoped
    /\ ~(status = "done" /\ (art.ok \/ bypassed))

(* The units an episode is credited with are counted before a restore.     *)
Salvaged(o) == /\ o.status \in {"timeout"} \cup NonAttemptStatus
               /\ ~o.lost
               /\ o.art.ok

(* Mutant: an episode that says it is done is believed. *)
AcceptedUngated(o) == o.status = "done" \/ Salvaged(o)

Accepted(o) == /\ o.status = "done" \/ Salvaged(o)
               /\ o.art.ok \/ o.bypassed

RestoredComplete(o) == o.lost /\ o.prior.ok

Nudged(nudges, o) ==
    /\ NudgeCap > 0
    /\ o.status = "done" /\ ~o.art.ok
    /\ o.art.units < Units
    /\ nudges < NudgeCap
    /\ nudges > 0 => o.art.units > o.prior.units

Progressed(o) == CreditsProgress /\ o.art.units > o.prior.units

NonAttemptCapReached(count, streakOld) ==
    \/ count >= NonAttemptCap /\ streakOld
    \/ count >= NonAttemptHardCap

(* Mutant: one attempt too many. *)
ChargeLate(s) ==
    [s EXCEPT !.attempts = @ + 1,
              !.status = IF s.attempts + 1 > MaxAttempts THEN "blocked" ELSE "pending",
              !.defect = "other"]

(* A charged attempt: the node blocks once its budget is spent.            *)
Charge(s) ==
    [s EXCEPT !.attempts = @ + 1,
              !.status = IF s.attempts + 1 >= MaxAttempts THEN "blocked" ELSE "pending",
              !.defect = "other"]

Accept(s) == [s EXCEPT !.status = "awaiting_review", !.nonAttempts = 0, !.defect = "none"]

(* Mutant: an episode that lost nothing counts as progress. *)
NonAttemptLenient(s, o) ==
    LET count == IF o.art.units >= o.prior.units THEN 1 ELSE s.nonAttempts + 1
        down  == NonAttemptCapReached(count, o.streakOld /\ count > 1)
    IN  [s EXCEPT !.nonAttempts = count,
                  !.status = IF down THEN "blocked" ELSE "pending",
                  !.defect = IF down THEN "provider"
                             ELSE IF o.status = "throttled" THEN "throttled" ELSE "other"]

(* An episode cut short by the provider: not charged, but counted.          *)
NonAttempt(s, o) ==
    LET count == IF o.art.units > o.prior.units THEN 1 ELSE s.nonAttempts + 1
        down  == NonAttemptCapReached(count, o.streakOld /\ count > 1)
    IN  [s EXCEPT !.nonAttempts = count,
                  !.status = IF down THEN "blocked" ELSE "pending",
                  !.defect = IF down THEN "provider"
                             ELSE IF o.status = "throttled" THEN "throttled" ELSE "other"]

Requeue(s) == [s EXCEPT !.status = "pending", !.defect = "other"]

(* _transition_after_writer: the node it leaves behind, and the event it
   logs ("quiet" stands for the events that do not void a recorded
   completion).                                                            *)
AfterWriter(s, o) ==
    LET base == [s EXCEPT !.nudges = 0,
                          !.nonAttempts = IF o.status \in NonAttemptStatus THEN @ ELSE 0]
    IN  IF Accepted(o)
        THEN [node |-> Accept(base), event |-> "quiet"]
        ELSE IF o.status \in NonAttemptStatus
        THEN LET after == NonAttempt(base, o)
             IN  [node |-> after,
                  event |-> IF after.status = "blocked" THEN "quiet" ELSE "node_non_attempt"]
        ELSE IF RestoredComplete(o)
        THEN [node |-> Accept(base), event |-> "quiet"]
        ELSE IF o.lost
        THEN [node |-> Requeue(base), event |-> "quiet"]
        ELSE IF Nudged(s.nudges, o)
        THEN [node |-> [Requeue(base) EXCEPT !.nudges = s.nudges + 1], event |-> "node_nudged"]
        ELSE IF Progressed(o)
        THEN [node |-> Requeue(base), event |-> "node_continuation_progress"]
        ELSE [node |-> Charge(base),
              event |-> IF o.status = "timeout" THEN "node_episode_timeout" ELSE "node_gate_failed"]

(* _transition_after_review. *)
AfterReview(s, verdict) ==
    IF verdict = "fail"
    THEN [node |-> Charge(s), event |-> "node_review_failed"]
    ELSE IF verdict = "unavailable" /\ ReviewRetry
    THEN [node |-> [s EXCEPT !.status = "awaiting_review"], event |-> "quiet"]
    ELSE [node |-> [s EXCEPT !.status = "passed", !.defect = "none"], event |-> "quiet"]

(* v0/runner.py:_REPLAY_INVALIDATING_TYPES: events after which a recorded
   completion is no longer replayed.                                       *)
ReplayInvalidating ==
    {"node_gate_failed", "node_episode_timeout", "node_non_attempt",
     "node_continuation_progress", "node_nudged", "node_review_failed",
     "node_redispatch_requested", "node_reopened"}
=============================================================================
