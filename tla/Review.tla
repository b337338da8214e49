------------------------------- MODULE Review -------------------------------
(***************************************************************************)
(* The review of one node: review_one of v1/round_loop.py with the three   *)
(* ways review_node judges an artifact (v1/reviewer.py): in one call, part *)
(* by part with the calls in parallel, or in the turns of the read loop    *)
(* (v1/review_loop.py).  What it has judged is kept in audit/<node>.json,  *)
(* which a resumed run reads back.                                         *)
(*                                                                         *)
(* The artifact is a sequence of units, each with a version its writer     *)
(* gave it; the context stands for what the verdict's digest covers next   *)
(* to the text: the contract, the brief and the rubric.                    *)
(***************************************************************************)
EXTENDS Integers, FiniteSets

CONSTANTS
    Length,       \* the artifact has the units 1..Length
    Listed,       \* those build_unit_slices can hand out: the last of an ordinal
    Version, Context,
    MaxFan,       \* MAX_FANOUT_SECTIONS
    Modes,        \* "whole", "parts", "loop": by the size of the artifact and the environment
    Turns,        \* turn_budget of the read loop
    OnOutage,     \* KUSUDAEMON_REVIEW_UNAVAILABLE: "retry", or anything else
    MaxAttempts,
    MaxEdits, MaxRedone   \* bounds: edits of the context; crashes and retries together

Unit == 1..Length

ReviewAssumption ==
    /\ Length \in Nat \ {0} /\ MaxFan \in Nat \ {0} /\ Listed \subseteq Unit
    /\ Version # {} /\ Context # {}
    /\ Modes \subseteq {"whole", "parts", "loop"} /\ Modes # {}
    /\ OnOutage \subseteq {"retry", "pass"} /\ OnOutage # {}
    /\ {Turns, MaxAttempts} \subseteq Nat \ {0} /\ {MaxEdits, MaxRedone} \subseteq Nat

VARIABLES
    node,       \* status and attempts, as in tree.json
    text,       \* the artifact
    context,
    audit,      \* audit/<node>.json: the gate list alone, or with a verdict merged into it
    bypassed,   \* the operator's review bypass
    review,     \* the review under way
    accepted,   \* history: the units, in their context, that a judge or the operator passed
    edits, redone

vars == <<node, text, context, audit, bypassed, review, accepted, edits, redone>>

(* compute_verdict_digest of a part of an artifact. *)
Digest(part, t, c) == [units |-> [u \in part |-> t[u]], context |-> c]

Covers(digest) == {<<u, digest.units[u], digest.context>> : u \in DOMAIN digest.units}

Blank == Digest({}, <<>>, CHOOSE c \in Context : TRUE)

GatesOnly == [verdict |-> "none", digest |-> Blank, sections |-> {},
              unverified |-> FALSE]

(* _group_sections: adjacent units merged into at most MaxFan runs. *)
Groups ==
    IF Length <= MaxFan THEN {{u} : u \in Unit}
    ELSE {((g * Length) \div MaxFan + 1) .. (((g + 1) * Length) \div MaxFan) : g \in 0..(MaxFan - 1)}
         \ {{}}

Idle == [pc |-> "idle", whole |-> Blank, answers |-> <<>>, fanned |-> FALSE,
         covered |-> {}, turn |-> 0, found |-> FALSE, dropped |-> FALSE,
         fault |-> FALSE, unanswered |-> FALSE, verdict |-> "none", sections |-> {}]

Verdict == {"none", "pass", "fail", "unavailable"}
Answer == {"asked", "reasked", "pass", "fail", "regenerate", "unavailable", "lost"}

TypeOK ==
    /\ node.status \in {"pending", "awaiting_review", "passed", "blocked"}
    /\ node.attempts \in 0..MaxAttempts
    /\ text \in [Unit -> Version] /\ context \in Context
    /\ audit.verdict \in Verdict /\ audit.unverified \in BOOLEAN
    /\ audit.sections \subseteq [digest : {audit.digest} \cup {s.digest : s \in audit.sections},
                                 verdict : Verdict \ {"none"}]
    /\ review.pc \in {"idle", "triage", "parts", "loop", "reask", "judged", "audited"}
    /\ \A d \in DOMAIN review.answers : review.answers[d] \in Answer
    /\ review.covered \subseteq Listed
    /\ review.turn \in 0..Turns /\ review.verdict \in Verdict
    /\ accepted \subseteq Unit \X Version \X Context
    /\ bypassed \in BOOLEAN /\ edits \in 0..MaxEdits /\ redone \in 0..MaxRedone

(* The first episode has ended. *)
Init ==
    /\ node = [status |-> "awaiting_review", attempts |-> 0]
    /\ text = [u \in Unit |-> CHOOSE v \in Version : TRUE]
    /\ context = Blank.context
    /\ audit = GatesOnly /\ review = Idle
    /\ bypassed = FALSE /\ accepted = {} /\ edits = 0 /\ redone = 0

(* An episode ends with its gates passed: write_gate_cache replaces the audit
   file, and with it every verdict it held, even of units left as they were. *)
Dispatch ==
    /\ node.status = "pending" /\ review.pc = "idle"
    /\ text' \in [Unit -> Version]
    /\ node' = [node EXCEPT !.status = "awaiting_review"]
    /\ audit' = GatesOnly
    /\ UNCHANGED <<context, bypassed, review, accepted, edits, redone>>

(* Contract or brief, edited by the operator. *)
EditContext ==
    /\ edits < MaxEdits /\ edits' = edits + 1
    /\ context' \in Context \ {context}
    /\ UNCHANGED <<node, text, audit, bypassed, review, accepted, redone>>

Bypass ==
    /\ ~bypassed /\ bypassed' = TRUE
    /\ UNCHANGED <<node, text, context, audit, review, accepted, edits, redone>>

(* What is left of a review when its verdict is known.  A part counts as
   unanswered when its call was lost or its defect stayed unclear.          *)
Settles(r, v) ==
    review' = [Idle EXCEPT !.pc = "judged", !.whole = r.whole, !.verdict = v, !.fault = r.fault,
                    !.sections = r.sections,
                    !.unanswered = \E d \in DOMAIN r.answers \ {r.whole} :
                                        r.answers[d] \in {"lost", "unavailable"}]

Accepts(marks) == accepted' = accepted \cup marks

Rests == UNCHANGED <<node, text, context, audit, bypassed, edits, redone>>

Begins == node.status = "awaiting_review" /\ review.pc = "idle"

Fresh == [Idle EXCEPT !.pc = "triage", !.whole = Digest(Unit, text, context)]

(* Reviews disabled for the run, or bypassed before the call; or nothing is
   left to judge: no judgment item, only items of other reviewers, only items
   nothing could ground, or only items the gates that passed cover. *)
PassUnjudged ==
    /\ Begins
    /\ Settles(Fresh, "pass") /\ Accepts(Covers(Fresh.whole)) /\ Rests

CachedPass == audit.verdict = "pass" /\ audit.digest = Fresh.whole

ReuseVerdict ==
    /\ Begins /\ ~bypassed /\ CachedPass
    /\ Settles([Fresh EXCEPT !.sections = audit.sections], audit.verdict)
    /\ UNCHANGED accepted /\ Rests

BeginReview ==
    /\ Begins /\ ~bypassed /\ ~CachedPass
    /\ review' = Fresh
    /\ UNCHANGED accepted /\ Rests

(* The triage call sees an outline and the gate results, and may pass it all. *)
TriagePasses ==
    /\ review.pc = "triage"
    /\ Settles(review, "pass") /\ Accepts(Covers(review.whole)) /\ Rests

Recorded(digest) == \E s \in audit.sections : s.digest = digest /\ s.verdict = "pass"

DigestOf(part) == [units |-> [u \in part |-> review.whole.units[u]],
                   context |-> review.whole.context]

(* No triage provider, suspect, or failed: the parts that need a call. *)
JudgeParts(parts) ==
    LET all == {DigestOf(p) : p \in parts}
        ask == {d \in all : ~Recorded(d)}
    IN  /\ review.pc = "triage"
        /\ review' = [review EXCEPT !.pc = "parts",
                        !.answers = [d \in all |-> IF d \in ask THEN "asked" ELSE "pass"],
                        !.fanned = Cardinality(ask) > 1]
        /\ UNCHANGED accepted /\ Rests

JudgeWhole == "whole" \in Modes /\ JudgeParts({Unit})

JudgeSections == "parts" \in Modes /\ JudgeParts(Groups)

JudgeInTurns ==
    /\ "loop" \in Modes /\ review.pc = "triage"
    /\ review' = [review EXCEPT !.pc = "loop"]
    /\ UNCHANGED accepted /\ Rests

---------------------------------------------------------------------------
(* The calls of _call_reviewer. *)

Open(d) == review.pc = "parts" /\ d \in DOMAIN review.answers /\ review.answers[d] \in {"asked", "reasked"}

(* Mutant: the answers still out are waited for and then thrown away. *)
AnsweredDiscarding(d, a) ==
    /\ Open(d) /\ Rests
    /\ IF review.dropped THEN UNCHANGED review
       ELSE review' = [review EXCEPT !.answers[d] = a, !.dropped = a = "regenerate",
                            !.fault = @ \/ a \in {"fail", "regenerate"}]

(* Once a part fails so badly that the whole is to be regenerated, the answers
   that are still out change nothing. *)
Answered(d, a) ==
    /\ Open(d)
    /\ review' = [review EXCEPT
            !.answers[d] = IF review.dropped THEN "lost" ELSE a,
            !.dropped = @ \/ a = "regenerate",
            !.fault = @ \/ (a \in {"fail", "regenerate"} /\ ~review.dropped)]
    /\ Rests

PartPasses(d) ==
    /\ review.pc = "parts" /\ d \in DOMAIN review.answers /\ review.answers[d] = "asked"
    /\ Answered(d, "pass") /\ Accepts(Covers(d))

PartFails(d) == (\E a \in {"fail", "regenerate"} : Answered(d, a)) /\ UNCHANGED accepted

(* A defect no writer could act on is asked for once more. *)
AskAgain(d) ==
    /\ Open(d) /\ review.answers[d] = "asked" /\ ~review.dropped
    /\ review' = [review EXCEPT !.answers[d] = "reasked"]
    /\ UNCHANGED accepted /\ Rests

DefectUnclear(d) ==
    /\ Open(d) /\ review.answers[d] = "reasked"
    /\ Answered(d, "unavailable") /\ UNCHANGED accepted

(* A provider error leaves review_node when calls are made in turn; a thread
   of the fan-out swallows it. *)
CallRaises(d) ==
    /\ Open(d) /\ review.answers[d] = "asked" /\ UNCHANGED accepted
    /\ IF review.fanned THEN Answered(d, "lost")
       ELSE Settles(review, "unavailable") /\ Rests

(* One call: its verdict.  Several: anything but a pass of all is a fail. *)
Overall ==
    LET answers == {review.answers[d] : d \in DOMAIN review.answers} IN
    IF answers = {"pass"} THEN "pass"
    ELSE IF DOMAIN review.answers = {review.whole} /\ answers = {"unavailable"} THEN "unavailable"
    ELSE "fail"

Sections == {[digest |-> d, verdict |-> CASE review.answers[d] = "pass" -> "pass"
                                          [] review.answers[d] = "unavailable" -> "unavailable"
                                          [] OTHER -> "fail"]
             : d \in {e \in DOMAIN review.answers : review.answers[e] # "lost"}}

PartsJudged ==
    /\ review.pc = "parts" /\ \A d \in DOMAIN review.answers : ~Open(d)
    /\ Settles([review EXCEPT !.sections = IF Overall = "unavailable" THEN {} ELSE Sections],
               Overall)
    /\ UNCHANGED accepted /\ Rests

---------------------------------------------------------------------------
(* The turns of run_review_read_loop.  A prompt shows what the turn before it
   read, so whatever is covered has been shown when the reply comes.        *)

InTurn == review.pc = "loop"

NextTurn(r) ==
    IF r.turn + 1 < Turns THEN review' = [r EXCEPT !.turn = @ + 1]
    ELSE Settles(r, "unavailable")

(* A read up to its cap, of units that may not exist; an unknown action. *)
Reads ==
    /\ InTurn /\ ~review.found
    /\ \E got \in SUBSET Listed : NextTurn([review EXCEPT !.covered = @ \cup got])
    /\ UNCHANGED accepted /\ Rests

(* A failing finding in any reply, or a verdict that fails. *)
Faults ==
    /\ InTurn /\ UNCHANGED accepted /\ Rests
    /\ \/ Settles([review EXCEPT !.fault = TRUE], "fail")
       \/ review' = [review EXCEPT !.pc = "reask"]

(* Mutant: a verdict that passes ends the loop. *)
CoverageUnasked == TRUE

CoverageComplete == Listed \subseteq review.covered

(* A reply may pass with its items and fail with a finding: the verdict counts
   now, the finding at the next reply that is not a verdict.               *)
Passes ==
    /\ InTurn /\ Rests
    /\ IF CoverageComplete
       THEN Settles(review, "pass") /\ Accepts(Covers(DigestOf(review.covered)))
       ELSE /\ \E contradicts \in BOOLEAN :
                    NextTurn([review EXCEPT !.found = @ \/ contradicts])
            /\ UNCHANGED accepted

(* Mutant: the exception counts as a verdict that fails. *)
TurnRaisesFail == InTurn /\ Settles(review, "fail") /\ UNCHANGED accepted /\ Rests

TurnRaises == InTurn /\ Settles(review, "unavailable") /\ UNCHANGED accepted /\ Rests

(* The second answer to an unclear defect fails, whatever its items say. *)
ReaskAnswered ==
    /\ review.pc = "reask" /\ UNCHANGED accepted /\ Rests
    /\ \/ Settles([review EXCEPT !.fault = TRUE], "fail")
       \/ Settles(review, "unavailable")

---------------------------------------------------------------------------

InCall == review.pc \in {"triage", "parts", "loop", "reask"}

(* Polled while the thread of the call is out; its result is dropped. *)
BypassTakes ==
    /\ InCall /\ bypassed
    /\ Settles([Idle EXCEPT !.whole = review.whole], "pass")
    /\ Accepts(Covers(review.whole)) /\ Rests

Stamped == review.whole

(* _write_audit merges into what the file holds. *)
WriteAudit ==
    /\ review.pc = "judged"
    /\ audit' = [verdict |-> review.verdict, digest |-> Stamped, sections |-> review.sections,
                 unverified |-> audit.unverified \/ review.verdict = "unavailable"]
    /\ review' = [review EXCEPT !.pc = "audited"]
    /\ UNCHANGED <<node, text, context, bypassed, accepted, edits, redone>>

(* Mutant: nobody counts the attempts. *)
ChargedUncounted(n) == [status |-> "pending", attempts |-> n.attempts + 1]

Charged(n) == [status |-> IF n.attempts + 1 >= MaxAttempts THEN "blocked" ELSE "pending",
               attempts |-> n.attempts + 1]

(* _transition_after_review, and the save of the tree. *)
Transition ==
    /\ review.pc = "audited" /\ review' = Idle
    /\ \/ /\ review.verdict = "fail"
          /\ node' = Charged(node) /\ UNCHANGED redone
       \/ /\ review.verdict = "pass" \/ (review.verdict = "unavailable" /\ "pass" \in OnOutage)
          /\ node' = [node EXCEPT !.status = "passed"] /\ UNCHANGED redone
       \/ /\ review.verdict = "unavailable" /\ "retry" \in OnOutage /\ redone < MaxRedone
          /\ redone' = redone + 1 /\ UNCHANGED node
    /\ UNCHANGED <<text, context, audit, bypassed, accepted, edits>>

(* The harness is killed and resumed: the node is reviewed again. *)
Crash ==
    /\ review.pc # "idle" /\ redone < MaxRedone
    /\ redone' = redone + 1 /\ review' = Idle
    /\ UNCHANGED <<node, text, context, audit, bypassed, accepted, edits>>

PartStep == \E d \in DOMAIN review.answers :
    PartPasses(d) \/ PartFails(d) \/ AskAgain(d) \/ DefectUnclear(d) \/ CallRaises(d)

Step ==
    \/ TriagePasses \/ JudgeWhole \/ JudgeSections \/ JudgeInTurns
    \/ PartStep \/ PartsJudged
    \/ Reads \/ Faults \/ Passes \/ TurnRaises \/ ReaskAnswered
    \/ BypassTakes \/ WriteAudit \/ Transition

Next ==
    \/ Dispatch \/ EditContext \/ Bypass
    \/ PassUnjudged \/ ReuseVerdict \/ BeginReview
    \/ Step \/ Crash

Spec == Init /\ [][Next]_vars

---------------------------------------------------------------------------

(* A node passes only on the units it has, each passed in the contract and the
   brief the audit is stamped with: by a judge that was shown it, by the screen
   or the triage, or by the operator.  Else the audit says that no reviewer was
   to be had.  (review_one, run_review_read_loop, compute_verdict_digest.)  *)
PassIsEarned ==
    node.status = "passed" =>
        \/ audit.verdict = "unavailable"
        \/ \A u \in Unit : <<u, text[u], audit.digest.context>> \in accepted

(* An attempt is only charged for a fault some call of this very review found;
   a cached verdict, an outage or a budget that ran out costs none.  Only a
   part of an artifact judged in parts that nobody answered for does.
   (_transition_after_review.) *)
ChargedForAFault ==
    [][node'.attempts > node.attempts =>
            review.fault \/ review.unanswered]_vars
=============================================================================
