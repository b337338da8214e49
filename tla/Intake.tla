------------------------------- MODULE Intake -------------------------------
(***************************************************************************)
(* The intake phase: _phase_intake and _ask_intake_round of                *)
(* pipeline/driver.py around run_intake of v2/intake.py.  The operator is  *)
(* asked in at most two rounds, each one approval with a form; what is     *)
(* answered, what was assumed and what was objected is frozen in spec.md,  *)
(* whose "## Goal" is also how a resumed run knows the phase as done.      *)
(*                                                                         *)
(* A question is the id the model gave it and a text, which is a number of *)
(* its own; an answer is the text of the question it was given to, 0 when  *)
(* it was left blank.                                                      *)
(***************************************************************************)
EXTENDS Naturals, Sequences, FiniteSets, SequencesExt

CONSTANTS
    Ids,            \* ids a model may give a question
    PerRound,       \* questions a model may ask at a time
    MaxSets,        \* question sets built by all attempts
    MaxKills

IntakeAssumption == {PerRound, MaxSets, MaxKills} \subseteq Nat

MaxRounds == 2      \* MAX_INTAKE_ROUNDS

VARIABLES
    waived,     \* --no-intake, or an estimate without doubts
    merged,     \* tier.json's intake_round1, made by classify; or none
    approvals,  \* approvals.jsonl: each form, its round, and its answers
    spec,       \* spec.md
    intake,     \* run_intake
    sets,       \* question sets built
    kills

intakeVars == <<waived, merged, approvals, spec, intake, sets, kills>>

NoSet == [asks |-> <<>>, objects |-> FALSE]
NoSpec == [state |-> "none", answers |-> <<>>, assumed |-> {}, objects |-> FALSE]
Ended == [at |-> "ended", round |-> 0, form |-> NoSet, ask |-> 0,
          answers |-> <<>>, assumed |-> {}, objects |-> FALSE, asked |-> {}]
Fresh == [Ended EXCEPT !.at = "begin"]

\* Any set of questions the n-th call may return.
SetsBuilt(n) ==
    {[asks |-> [i \in DOMAIN ids |-> [id |-> ids[i], text |-> PerRound * n + i]],
      objects |-> o] : ids \in SeqOf(Ids, PerRound), o \in BOOLEAN}

IntakeInit ==
    /\ waived \in BOOLEAN /\ merged \in SetsBuilt(0)
    /\ approvals = <<>> /\ spec = NoSpec /\ intake = Fresh
    /\ sets = 0 /\ kills = 0

Becomes(i) == intake' = i /\ UNCHANGED <<waived, merged, kills>>

\* spec.md has no "## Goal" yet.
Begin ==
    /\ intake.at = "begin" /\ spec.state # "whole"
    /\ Becomes([intake EXCEPT !.at = IF waived THEN "writing" ELSE "round", !.round = 1])
    /\ UNCHANGED <<approvals, spec, sets>>

FoundDone ==
    /\ intake.at = "begin" /\ spec.state = "whole"
    /\ Becomes(Ended)
    /\ UNCHANGED <<approvals, spec, sets>>

Take(form) ==
    [intake EXCEPT !.at = IF form.asks = <<>> THEN "writing" ELSE "asking",
                   !.form = form,
                   !.objects = IF intake.round = 1 THEN form.objects ELSE @]

\* The first round's questions are classify's, when it made some.
TakeMerged ==
    /\ intake.at = "round" /\ intake.round = 1 /\ merged # NoSet
    /\ Becomes(Take(merged))
    /\ UNCHANGED <<approvals, spec, sets>>

Build ==
    /\ intake.at = "round" /\ ~(intake.round = 1 /\ merged # NoSet)
    /\ sets < MaxSets /\ sets' = sets + 1
    /\ \E form \in SetsBuilt(sets + 1) : Becomes(Take(form))
    /\ UNCHANGED <<approvals, spec>>

-----------------------------------------------------------------------------
(* A round's approval                                                      *)

\* find_pending goes by the round and the objections, not by the questions.
PendingNone(i) == {}
Pending(i) ==
    {a \in DOMAIN approvals :
       /\ approvals[a].status = "pending" /\ approvals[a].round = i.round
       /\ approvals[a].form.objects = i.form.objects}

Ask ==
    /\ intake.at = "asking"
    /\ IF Pending(intake) # {}
         THEN /\ Becomes([intake EXCEPT !.at = "waiting", !.ask = Min(Pending(intake))])
              /\ UNCHANGED approvals
         ELSE /\ approvals' = Append(approvals,
                   [round |-> intake.round, form |-> intake.form, status |-> "pending",
                    answers |-> <<>>])
              /\ Becomes([intake EXCEPT !.at = "waiting", !.ask = Len(approvals')])
    /\ UNCHANGED <<spec, sets>>

\* Answers go by id: of two questions of one id the later's is kept.
Replied(asks, given) ==
    [id \in {asks[i].id : i \in given} |-> asks[Max({i \in given : asks[i].id = id})].text]

\* The operator answers the form the approval shows, in part or not at all.
Resolve(a) ==
    /\ approvals[a].status = "pending"
    /\ \E given \in SUBSET DOMAIN approvals[a].form.asks :
          approvals' = [approvals EXCEPT
                           ![a].status = "resolved",
                           ![a].answers = Replied(approvals[a].form.asks, given)]
    /\ UNCHANGED <<waived, merged, spec, intake, sets, kills>>

\* Of two answers under one id the later is kept.
Updated(old, new) ==
    [id \in DOMAIN old \cup DOMAIN new |-> IF id \in DOMAIN new THEN new[id] ELSE old[id]]

\* A blank answer is an assumption; one that is not is kept by its id.
HeardLast(i, asks, answers) ==
    LET given == {k \in DOMAIN asks : asks[k].id \in DOMAIN answers}
    IN  [i EXCEPT !.answers = Updated(@, [id \in {asks[k].id : k \in given} |-> answers[id]]),
                  !.assumed = {asks[k].text : k \in DOMAIN asks \ given},
                  !.asked = @ \cup ToSet(asks)]
Heard(i, asks, answers) ==
    LET given == {k \in DOMAIN asks : asks[k].id \in DOMAIN answers}
    IN  [i EXCEPT !.answers = Updated(@, [id \in {asks[k].id : k \in given} |-> answers[id]]),
                  !.assumed = @ \cup {asks[k].text : k \in DOMAIN asks \ given},
                  !.asked = @ \cup ToSet(asks)]

\* A second round is only for an operator who said something.
GoesOnAnyway(i, answers) == i.round < MaxRounds
GoesOnForEver(i, answers) == \E k \in DOMAIN i.form.asks : i.form.asks[k].id \in DOMAIN answers
GoesOn(i, answers) ==
    /\ i.round < MaxRounds
    /\ \E k \in DOMAIN i.form.asks : i.form.asks[k].id \in DOMAIN answers

Hear ==
    /\ intake.at = "waiting" /\ approvals[intake.ask].status = "resolved"
    /\ LET answers == approvals[intake.ask].answers
           heard == Heard(intake, intake.form.asks, answers)
       IN  Becomes(IF GoesOn(intake, answers)
                     THEN [heard EXCEPT !.at = "round", !.round = @ + 1, !.form = NoSet, !.ask = 0]
                     ELSE [heard EXCEPT !.at = "writing", !.form = NoSet, !.ask = 0])
    /\ UNCHANGED <<approvals, spec, sets>>

-----------------------------------------------------------------------------
(* spec.md                                                                 *)

\* The file is emptied before it is written.
Truncate ==
    /\ intake.at = "writing"
    /\ spec' = [NoSpec EXCEPT !.state = "empty"]
    /\ Becomes([intake EXCEPT !.at = "filling"])
    /\ UNCHANGED <<approvals, sets>>

Fill ==
    /\ intake.at = "filling"
    /\ spec' = [state |-> "whole", answers |-> intake.answers,
                assumed |-> intake.assumed, objects |-> intake.objects]
    /\ Becomes([intake EXCEPT !.at = "ended"])
    /\ UNCHANGED <<approvals, sets>>

\* Killed and resumed: only the approvals and spec.md are left of it.
Kill ==
    /\ kills < MaxKills /\ kills' = kills + 1 /\ intake' = Fresh
    /\ UNCHANGED <<waived, merged, approvals, spec, sets>>

IntakeNext ==
    \/ Begin \/ FoundDone \/ TakeMerged \/ Build \/ Ask \/ Hear
    \/ Truncate \/ Fill \/ Kill
    \/ \E a \in DOMAIN approvals : Resolve(a)

-----------------------------------------------------------------------------
(* Properties                                                              *)

IntakeTypeOK ==
    /\ intake.round \in 0..MaxRounds /\ intake.ask \in 0..Len(approvals)
    /\ DOMAIN intake.answers \subseteq Ids /\ sets \in 0..MaxSets
    /\ spec.state \in {"none", "empty", "whole"}

(* "No unstated assumptions" (v2/intake.py): once spec.md is there, each   *)
(* question of either round that got no answer has its assumption in it,   *)
(* and what was objected in the first round is in it too.                  *)
NothingUnstated ==
    (intake.at = "ended" /\ spec.state = "whole" /\ ~waived) =>
        /\ \A q \in intake.asked : q.text \in spec.assumed \/ q.id \in DOMAIN spec.answers
        /\ intake.objects => spec.objects

(* A resumed intake takes up the form the operator has before him: there   *)
(* are never two of one round and of the same objections to answer.        *)
AskedOnce ==
    \A a, b \in DOMAIN approvals :
        (/\ approvals[a].status = "pending" /\ approvals[b].status = "pending"
         /\ approvals[a].round = approvals[b].round
         /\ approvals[a].form.objects = approvals[b].form.objects) => a = b

(* A silent operator is not asked again.                                   *)
SilenceEnds ==
    [][(intake.round = 1 /\ intake'.round = 2) =>
         \E a \in DOMAIN approvals :
            approvals[a].round = 1 /\ DOMAIN approvals[a].answers # {}]_intakeVars
=============================================================================
