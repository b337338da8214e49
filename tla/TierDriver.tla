------------------------------ MODULE TierDriver ------------------------------
(***************************************************************************)
(* One pipeline run (pipeline/driver.py: RecursiveDriver.run): the phases  *)
(* its tier asks for, the files that say which of them are done, the       *)
(* escalations that raise the tier on the way, the approvals that park it, *)
(* and the operator and the crashes around it.                             *)
(*                                                                         *)
(* A step is the code between two durable writes or awaits of one phase.   *)
(* run_round_loop is one step here: RoundLoop says what happens inside.    *)
(***************************************************************************)
EXTENDS Naturals

CONSTANTS
    Classified,     \* the tiers the classify phase may arrive at
    MaxTransient,   \* _PHASE_TRANSIENT_MAX_ATTEMPTS
    Budgeted,       \* a cost, token or wall-clock ceiling is set
    EditKinds,      \* what the operator does to the run
    Racing,         \* the driver moves between an edit's read and its write of tier.json
    MaxCrashes, MaxStarts, MaxEdits     \* bounds of the checked behaviours

Tier == {"T0", "T1", "T2", "T3"}

ASSUME DriverAssumption ==
    /\ Classified \subseteq Tier
    /\ MaxTransient \in Nat \ {0}
    /\ Budgeted \in BOOLEAN /\ Racing \in BOOLEAN
    /\ EditKinds \subseteq {"escalate", "override", "halt", "redispatch"}
    /\ MaxCrashes \in Nat /\ MaxStarts \in Nat /\ MaxEdits \in Nat

VARIABLES
    disk,       \* the run directory
    drv,        \* the driver's process
    edit,       \* the operator's read-modify-write of tier.json under way
    crashes, starts, edits      \* counters behind the bounds

counters == <<crashes, starts, edits>>
vars == <<disk, drv, edit, counters>>

-----------------------------------------------------------------------------
(* Tiers and their phases (v6/tiering.py).                                  *)

Rank == [T0 |-> 0, T1 |-> 1, T2 |-> 2, T3 |-> 3]
Above == [T0 |-> "T1", T1 |-> "T2", T2 |-> "T3", T3 |-> "T3"]

(* escalate: never lower than the current tier.                             *)
Escalate(current, target) == IF Rank[target] > Rank[current] THEN target ELSE current

PhasesFor == [T0 |-> <<"classify", "execute", "verify">>,
              T1 |-> <<"classify", "intake", "explore", "execute", "review">>,
              T2 |-> <<"classify", "intake", "explore", "plan", "execute", "review", "assemble">>,
              T3 |-> <<"classify", "intake", "explore", "plan", "pilot", "research",
                       "execute", "review", "assemble">>]
Phase == UNION {{PhasesFor[t][i] : i \in DOMAIN PhasesFor[t]} : t \in Tier}
TierScoped == {"execute", "review", "research", "assemble", "verify"}

(* Mutant: what ran at a lower tier is taken to have run at this one. *)
RanKeyOnce(phase, tier) == <<phase, "any">>

RanKey(phase, tier) == IF phase \in TierScoped THEN <<phase, tier>> ELSE <<phase, "any">>

-----------------------------------------------------------------------------
(* State.  work is the state of tree.json's nodes as TaskTree reads it: open
   (something is ready or in flight), complete, blocked, or blocked at the
   one node of T1 with a size defect.  direct is the same of T0's node.      *)

Kind == {"intake", "pilot", "triage"}
WorkState == {"open", "complete", "blocked", "oversize"}

Disk == [tier: Tier \cup {"none", "invalid"}, spec: BOOLEAN, spine: BOOLEAN,
         tree: {"none", "single", "planned"}, work: WorkState, split: BOOLEAN,
         contract: {"none", "script", "pilot"}, piloted: BOOLEAN,
         direct: WorkState, document: BOOLEAN,
         approval: [Kind -> {"none", "pending", "resolved"}],
         halt: BOOLEAN, overspent: BOOLEAN]

EmptyDisk == [tier |-> "none", spec |-> FALSE, spine |-> FALSE,
              tree |-> "none", work |-> "open", split |-> FALSE,
              contract |-> "none", piloted |-> FALSE,
              direct |-> "open", document |-> FALSE,
              approval |-> [k \in Kind |-> "none"],
              halt |-> FALSE, overspent |-> FALSE]

Driver == [proc: {"down", "entering", "trying", "body", "leaving", "choosing", "returned"},
           phase: Phase, key: Phase \X (Tier \cup {"any"}),
           ran: SUBSET (Phase \X (Tier \cup {"any"})),
           at: {"begin", "contract", "asked", "answered", "freeze", "rounds", "settle",
                "raise", "triage", "reassemble"},
           seen: Tier \cup {"none", "invalid"}, attempt: 1..MaxTransient,
           outcome: {"done", "escalated"},
           report: {"none", "done", "halted", "escalated", "error"}, late: BOOLEAN]

NoDriver == [proc |-> "down", phase |-> "classify", key |-> RanKey("classify", "any"),
             ran |-> {}, at |-> "begin", seen |-> "none", attempt |-> 1,
             outcome |-> "done", report |-> "none", late |-> FALSE]

NoEdit == [kind |-> "none"]

TypeOK == /\ disk \in Disk /\ drv \in Driver
          /\ edit = NoEdit \/ edit \in [kind: {"escalate", "override"}, tier: Tier \cup {"invalid"}]
          /\ crashes \in Nat /\ starts \in Nat /\ edits \in Nat

Init == /\ disk = EmptyDisk /\ drv = NoDriver /\ edit = NoEdit
        /\ crashes = 0 /\ starts = 0 /\ edits = 0

Undisturbed == Racing \/ edit = NoEdit

-----------------------------------------------------------------------------
(* The loop of run() and _run_phase.                                        *)

PhaseDone(phase) == CASE phase = "classify" -> disk.tier # "none"
                      [] phase = "intake"   -> disk.spec
                      [] phase = "explore"  -> disk.spine
                      [] phase = "plan"     -> disk.tree # "none"
                      [] phase = "pilot"    -> disk.contract # "none"
                      [] OTHER              -> FALSE

Halting == disk.halt \/ drv.late
Return(report) == drv' = [NoDriver EXCEPT !.proc = "returned", !.report = report]

(* A resume clears halt.flag.                                               *)
Start ==
    /\ drv.proc \in {"down", "returned"} /\ starts < MaxStarts
    /\ starts' = starts + 1
    /\ disk' = [disk EXCEPT !.halt = FALSE]
    /\ drv' = [NoDriver EXCEPT !.proc = "entering"]
    /\ UNCHANGED <<edit, crashes, edits>>

SkipPhase ==
    /\ drv.proc = "entering" /\ PhaseDone(drv.phase)
    /\ drv' = [drv EXCEPT !.proc = "choosing", !.ran = @ \cup {drv.key}]
    /\ UNCHANGED <<disk, edit, counters>>

EnterPhase ==
    /\ drv.proc = "entering" /\ ~PhaseDone(drv.phase)
    /\ drv' = [drv EXCEPT !.proc = "trying"]
    /\ UNCHANGED <<disk, edit, counters>>

(* A ceiling passed before the body leaves halt.flag behind; so does a
   wall-clock budget that is all gone.                                      *)
TryHalted ==
    /\ drv.proc = "trying"
    /\ disk.overspent \/ Halting
    /\ disk' \in {[disk EXCEPT !.halt = @ \/ disk.overspent],
                  [disk EXCEPT !.halt = @ \/ disk.overspent \/ drv.late]}
    /\ Return("halted")
    /\ UNCHANGED <<edit, counters>>

BeginBody ==
    /\ drv.proc = "trying"
    /\ ~disk.overspent /\ ~Halting
    /\ drv' = [drv EXCEPT !.proc = "body", !.at = "begin", !.seen = disk.tier]
    /\ UNCHANGED <<disk, edit, counters>>

(* Mutant: one attempt more than the bound. *)
BodyRaisesOnceMore ==
    /\ drv.proc = "body"
    /\ drv.at \in {"begin", "rounds", "answered", "freeze", "reassemble"}
    /\ \/ /\ drv.attempt <= MaxTransient
          /\ drv' = [drv EXCEPT !.proc = "trying", !.attempt = @ + 1]
       \/ Return("error")
    /\ UNCHANGED <<disk, edit, counters>>

(* A phase body raises: a transient error is retried from its beginning.    *)
BodyRaises ==
    /\ drv.proc = "body"
    /\ drv.at \in {"begin", "rounds", "answered", "freeze", "reassemble"}
    /\ \/ /\ drv.attempt < MaxTransient
          /\ drv' = [drv EXCEPT !.proc = "trying", !.attempt = @ + 1]
       \/ Return("error")
    /\ UNCHANGED <<disk, edit, counters>>

(* Mutant: the phase is not entered in `ran`. *)
LeaveUnrecorded ==
    /\ drv.proc = "leaving" /\ ~disk.overspent
    /\ IF drv.outcome = "escalated" THEN Return("escalated")
       ELSE drv' = [drv EXCEPT !.proc = "choosing"]
    /\ UNCHANGED <<disk, edit, counters>>

Leave ==
    /\ drv.proc = "leaving" /\ ~disk.overspent
    /\ IF drv.outcome = "escalated" THEN Return("escalated")
       ELSE drv' = [drv EXCEPT !.proc = "choosing", !.ran = @ \cup {drv.key}]
    /\ UNCHANGED <<disk, edit, counters>>

LeaveOverspent ==
    /\ drv.proc = "leaving" /\ disk.overspent
    /\ disk' = [disk EXCEPT !.halt = TRUE]
    /\ Return("halted")
    /\ UNCHANGED <<edit, counters>>

(* The places in the tier's list of the phases that have not run.           *)
Remaining == {i \in DOMAIN PhasesFor[disk.tier] :
                 RanKey(PhasesFor[disk.tier][i], disk.tier) \notin drv.ran}

(* The tier is read again before every phase.                               *)
Choose ==
    /\ drv.proc = "choosing" /\ disk.tier \in Tier
    /\ \E i \in Remaining :
          /\ \A j \in Remaining : i <= j
          /\ IF Halting THEN Return("halted")
             ELSE drv' = [drv EXCEPT !.proc = "entering", !.phase = PhasesFor[disk.tier][i],
                                     !.key = RanKey(PhasesFor[disk.tier][i], disk.tier)]
    /\ UNCHANGED <<disk, edit, counters>>

RunCompletes ==
    /\ drv.proc = "choosing" /\ disk.tier \in Tier
    /\ Remaining = {}
    /\ Return("done")
    /\ UNCHANGED <<disk, edit, counters>>

(* tier.json holds no tier: _current_tier raises out of run().              *)
ChooseWithoutTier ==
    /\ drv.proc = "choosing" /\ disk.tier \notin Tier
    /\ Return("error")
    /\ UNCHANGED <<disk, edit, counters>>

-----------------------------------------------------------------------------
(* The phases' bodies.                                                      *)

In(phase, step) == drv.proc = "body" /\ drv.phase = phase /\ drv.at = step
To(step) == drv' = [drv EXCEPT !.at = step]
End(outcome) ==
    drv' = [drv EXCEPT !.proc = "leaving", !.at = "begin", !.seen = "none", !.attempt = 1,
                       !.outcome = outcome]

Classify ==
    /\ In("classify", "begin")
    /\ \E t \in Classified : disk' = [disk EXCEPT !.tier = t]
    /\ End("done")

(* An attended run whose scope estimate fails twice records T2 and raises.  *)
ClassifyGivesUp ==
    /\ In("classify", "begin")
    /\ disk' = [disk EXCEPT !.tier = "T2"]
    /\ Return("error")

(* _ask: reuse the pending approval or create one, and wait for it; neither
   a halt nor a deadline ends the wait.                                     *)
Asked == CASE drv.phase = "intake" -> "intake"
           [] drv.phase = "pilot" -> "pilot"
           [] OTHER -> "triage"
Ask ==
    /\ \/ In("intake", "begin")
       \/ In("pilot", "begin") /\ ~disk.piloted
       \/ In("assemble", "triage")
    /\ disk' = [disk EXCEPT !.approval[Asked] = "pending"]
    /\ To("asked")

Answered ==
    /\ drv.proc = "body" /\ drv.at = "asked"
    /\ disk.approval[Asked] = "resolved"
    /\ To("answered")
    /\ UNCHANGED disk

(* spec.md, with no question to ask or with the answers.                    *)
WriteSpec ==
    /\ In("intake", "begin") \/ In("intake", "answered")
    /\ disk' = [disk EXCEPT !.spec = TRUE]
    /\ End("done")

(* T1 has no plan phase and needs no spine.                                 *)
Explore ==
    /\ In("explore", "begin")
    /\ disk' = IF drv.seen = "T1" THEN disk ELSE [disk EXCEPT !.spine = TRUE]
    /\ End("done")

(* The tree is saved before the contract is rendered.                       *)
Plan ==
    /\ In("plan", "begin")
    /\ \E surveyed \in BOOLEAN :
          disk' = [disk EXCEPT !.spine = @ \/ surveyed, !.tree = "planned", !.work = "open",
                               !.split = FALSE]
    /\ To("contract")

RenderContract ==
    /\ In("plan", "contract")
    /\ disk' = IF disk.tier = "T2" /\ disk.contract = "none"
               THEN [disk EXCEPT !.contract = "script"] ELSE disk
    /\ End("done")

(* approve_pilot logs pilot_approved; a later pass reads it back.           *)
ApprovePilot ==
    /\ \/ In("pilot", "begin") /\ disk.piloted
       \/ In("pilot", "answered")
    /\ disk' = [disk EXCEPT !.piloted = TRUE]
    /\ To("freeze")

FreezeContract ==
    /\ In("pilot", "freeze")
    /\ disk' = [disk EXCEPT !.contract = "pilot"]
    /\ End("done")

Research ==
    /\ In("research", "begin")
    /\ End("done")
    /\ UNCHANGED disk

(* run_direct_episode: a node that is passed or blocked stays so; a review
   that could not be had leaves it open.                                    *)
Direct == IF disk.direct = "open" THEN WorkState ELSE {disk.direct}

ExecuteDirect ==
    /\ In("execute", "begin") /\ drv.seen = "T0"
    /\ \E d \in Direct : disk' = [disk EXCEPT !.direct = d]
    /\ End("done")

Verify ==
    /\ In("verify", "begin")
    /\ \E d \in Direct :
          /\ disk' = [disk EXCEPT !.direct = d]
          /\ IF d = "oversize" THEN To("raise")
             ELSE End(IF d = "complete" THEN "done" ELSE "escalated")

(* T1 builds its one node by code, once.                                    *)
ExecuteTree ==
    /\ In("execute", "begin") /\ drv.seen # "T0"
    /\ disk' = IF drv.seen = "T1" /\ disk.tree = "none"
               THEN [disk EXCEPT !.tree = "single", !.work = "open", !.split = FALSE] ELSE disk
    /\ To("rounds")

(* run_round_loop, which also returns with work left: halted, out of rounds,
   or with a review to be retried.                                          *)
Rounds ==
    /\ In("execute", "rounds") /\ disk.tree # "none"
    /\ \E w \in IF disk.work # "open" THEN {disk.work}
                ELSE IF drv.seen = "T1" THEN WorkState ELSE WorkState \ {"oversize"} :
       \E grafted \in IF disk.work = "open" /\ drv.seen \in {"T2", "T3"} THEN BOOLEAN ELSE {FALSE} :
          disk' = [disk EXCEPT !.work = w, !.split = @ \/ grafted]
    /\ To("settle")

(* The tier rose just before the body read it: there is no tree to load.    *)
RoundsWithoutTree ==
    /\ In("execute", "rounds") /\ disk.tree = "none"
    /\ Return("error")
    /\ UNCHANGED disk

Oversized == drv.seen = "T1" /\ disk.work = "oversize"
SplitAtT2 == drv.seen = "T2" /\ disk.split

(* Archive the one-node tree, so that T2 plans.                             *)
PromoteOversized ==
    /\ In("execute", "settle") /\ Oversized
    /\ disk' = [disk EXCEPT !.tree = "none", !.work = "open", !.split = FALSE]
    /\ To("raise")

(* Mutant: a split archives the contract at T3 too. *)
PromoteSplitAtAny ==
    /\ In("execute", "settle") /\ drv.seen \in {"T2", "T3"} /\ disk.split
    /\ disk' = [disk EXCEPT !.contract = "none"]
    /\ To("raise")

(* Archive the scripted contract, so that T3 pilots.                        *)
PromoteSplit ==
    /\ In("execute", "settle") /\ SplitAtT2
    /\ disk' = [disk EXCEPT !.contract = "none"]
    /\ To("raise")

Settle ==
    /\ In("execute", "settle") /\ ~Oversized /\ ~SplitAtT2
    /\ End(IF disk.work = "complete" THEN "done" ELSE "escalated")
    /\ UNCHANGED disk

(* _escalate_tier: size_defect_retry to T2; split_accepted and
   majority_regenerate to T3.                                               *)
RaiseTier ==
    /\ drv.proc = "body" /\ drv.at = "raise"
    /\ LET target == IF drv.phase = "verify" \/ drv.seen = "T1" THEN "T2" ELSE "T3"
       IN  disk' = [disk EXCEPT !.tier = Escalate(@, target)]
    /\ End("done")

(* The review is switched off, unavailable, or finds nothing to do.         *)
ReviewPasses ==
    /\ In("review", "begin")
    /\ End("done")
    /\ UNCHANGED disk

ReviewEscalates ==
    /\ In("review", "begin")
    /\ disk.work \in {"blocked", "oversize"} \/ disk.tier = "T2"
    /\ End("escalated")
    /\ UNCHANGED disk

ReviewAtT2 == In("review", "begin") /\ disk.tier = "T2" /\ disk.work \notin {"blocked", "oversize"}

ReviewRegenerates ==
    /\ ReviewAtT2
    /\ disk' = [disk EXCEPT !.contract = "none"]
    /\ To("raise")

(* A repair that fails leaves its node stale or blocked.                    *)
Repaired == {[disk EXCEPT !.work = w] : w \in {disk.work, "blocked"}}

ReviewRepairs ==
    /\ ReviewAtT2
    /\ disk' \in Repaired
    /\ End("done")

(* run_assembly_loop: its checks ask for a complete tree.                   *)
AssembleFails ==
    /\ In("assemble", "begin") \/ In("assemble", "reassemble")
    /\ disk' \in Repaired
    /\ End("escalated")

(* Only T3 reviews the document here, and asks before it repairs.           *)
Assemble ==
    /\ In("assemble", "begin") \/ In("assemble", "reassemble")
    /\ disk.work = "complete"
    /\ disk' = [disk EXCEPT !.document = TRUE]
    /\ \/ End("done")
       \/ disk.tier = "T3" /\ drv.at = "begin" /\ To("triage")

TriageAnswered ==
    /\ In("assemble", "answered")
    /\ \/ End("done") /\ UNCHANGED disk
       \/ disk' \in Repaired /\ To("reassemble")

Body == /\ \/ Classify \/ ClassifyGivesUp \/ Ask \/ Answered \/ WriteSpec \/ Explore
           \/ Plan \/ RenderContract \/ ApprovePilot \/ FreezeContract \/ Research
           \/ ExecuteDirect \/ Verify \/ ExecuteTree \/ Rounds \/ RoundsWithoutTree
           \/ PromoteOversized \/ PromoteSplit \/ Settle \/ RaiseTier
           \/ ReviewPasses \/ ReviewEscalates \/ ReviewRegenerates \/ ReviewRepairs
           \/ AssembleFails \/ Assemble \/ TriageAnswered
        /\ UNCHANGED <<edit, counters>>

-----------------------------------------------------------------------------
(* Around the driver.                                                       *)

Crash ==
    /\ drv.proc \notin {"down", "returned"} /\ crashes < MaxCrashes
    /\ crashes' = crashes + 1
    /\ drv' = NoDriver
    /\ UNCHANGED <<disk, edit, starts, edits>>

(* What a phase spends may pass a ceiling; the time may run out.            *)
Overspend ==
    /\ Budgeted /\ drv.proc = "body" /\ ~disk.overspent
    /\ disk' = [disk EXCEPT !.overspent = TRUE]
    /\ UNCHANGED <<drv, edit, counters>>

RunLate ==
    /\ Budgeted /\ drv.proc \notin {"down", "returned"} /\ ~drv.late
    /\ drv' = [drv EXCEPT !.late = TRUE]
    /\ UNCHANGED <<disk, edit, counters>>

Resolve(kind) ==
    /\ disk.approval[kind] = "pending"
    /\ disk' = [disk EXCEPT !.approval[kind] = "resolved"]
    /\ UNCHANGED <<drv, edit, counters>>

MayEdit(kind) == kind \in EditKinds /\ edits < MaxEdits /\ edits' = edits + 1

(* escalate_run: read tier.json ... *)
BeginEscalate ==
    /\ MayEdit("escalate") /\ edit = NoEdit
    /\ disk.tier \in Tier
    /\ edit' = [kind |-> "escalate", tier |-> Escalate(disk.tier, Above[disk.tier])]
    /\ UNCHANGED <<disk, drv, crashes, starts>>

(* Mutant: the override is written as the tier. *)
BeginOverrideInPlace ==
    /\ MayEdit("override") /\ edit = NoEdit
    /\ \E t \in Tier : edit' = [kind |-> "override", tier |-> t]
    /\ UNCHANGED <<disk, drv, crashes, starts>>

(* cmd_tier, set_tier_override: nothing reads the override back, but the
   tier read is written with it, and a file is made where there is none ... *)
BeginOverride ==
    /\ MayEdit("override") /\ edit = NoEdit
    /\ edit' = [kind |-> "override",
                tier |-> IF disk.tier = "none" THEN "invalid" ELSE disk.tier]
    /\ UNCHANGED <<disk, drv, crashes, starts>>

(* ... and write it back.                                                   *)
SaveEdit ==
    /\ edit # NoEdit
    /\ disk' = [disk EXCEPT !.tier = edit.tier]
    /\ edit' = NoEdit
    /\ UNCHANGED <<drv, counters>>

ToggleHalt ==
    /\ MayEdit("halt")
    /\ disk' = [disk EXCEPT !.halt = ~@]
    /\ UNCHANGED <<drv, edit, crashes, starts>>

(* A blocked node is dispatched again (dashboard: redispatch).              *)
Redispatch ==
    /\ MayEdit("redispatch")
    /\ disk.tree # "none" /\ disk.work \in {"blocked", "oversize"}
    /\ disk' = [disk EXCEPT !.work = "open"]
    /\ UNCHANGED <<drv, edit, crashes, starts>>

Driving == \/ SkipPhase \/ EnterPhase \/ TryHalted \/ BeginBody \/ Leave \/ LeaveOverspent
           \/ Choose \/ RunCompletes \/ ChooseWithoutTier \/ Body

Operating == \/ \E kind \in Kind : Resolve(kind)
             \/ BeginEscalate \/ BeginOverride \/ SaveEdit \/ ToggleHalt \/ Redispatch

Next == \/ Undisturbed /\ (Start \/ Driving \/ BodyRaises)
        \/ Crash \/ Overspend \/ RunLate
        \/ Operating

(* The driver is one coroutine that nothing blocks but its calls, which have
   deadlines, and its approvals; an edit is a few lines of one function.    *)
Spec == Init /\ [][Next]_vars /\ WF_vars(Undisturbed /\ Driving) /\ WF_vars(SaveEdit)

-----------------------------------------------------------------------------
(* Properties.                                                              *)

(* Invariant 9: the tier of a run only ever rises, whoever rewrites
   tier.json: the driver's escalations, the operator's, an override.        *)
TierRises ==
    [][disk.tier \in Tier => disk'.tier \in Tier /\ Rank[disk'.tier] >= Rank[disk.tier]]_vars

(* What the final tier owes before the run may be called done.              *)
Delivered == CASE disk.tier = "T0" -> disk.direct = "complete"
               [] disk.tier = "T1" -> disk.tree # "none" /\ disk.work = "complete"
               [] OTHER -> disk.tree # "none" /\ disk.work = "complete" /\ disk.document

(* run_completed is a claim about the outcome: a driver that reports "done"
   has delivered what the tier it ends at asks for, whatever was skipped as
   already done, interrupted, resumed or escalated on the way.              *)
DoneIsEarned ==
    [][drv.proc = "choosing" /\ drv'.proc = "returned" /\ drv'.report = "done" => Delivered]_vars

(* Invariant 9, second half: nothing that is done is discarded.  A planned
   tree, a frozen spec and a piloted contract survive every escalation.     *)
NothingDiscarded ==
    [][/\ disk.tree = "planned" => disk'.tree = "planned"
       /\ disk.contract = "pilot" => disk'.contract = "pilot"
       /\ disk.spec => disk'.spec]_vars

(* A driver that is not killed returns, or is parked on an approval nobody
   resolves: escalations and retries do not keep it going for ever.         *)
Reports == drv.proc = "entering" ~> \/ drv.proc \in {"returned", "down"}
                                    \/ drv.proc = "body" /\ drv.at = "asked"

(* The execute phase of a raised tier does not run what a lower one left
   behind: at T2 and T3 never the one-node tree T1 built by code, at T3 never
   under the contract T2 rendered by script.                                *)
RoundsPrepared ==
    In("execute", "rounds") =>
        /\ drv.key[2] \in {"T2", "T3"} => disk.tree # "single"
        /\ drv.key[2] = "T3" => disk.contract # "script"
=============================================================================
