--------------------------- MODULE TierDriver_proofs ---------------------------
(***************************************************************************)
(* Theorems about TierDriver, for every bound and every set of tiers the   *)
(* classification may arrive at: type correctness, that the tier only      *)
(* rises, that no escalation discards a plan, a spec or a piloted          *)
(* contract, and that "done" means that the tier's work is delivered.      *)
(***************************************************************************)
EXTENDS TierDriver, TLAPS

-----------------------------------------------------------------------------
(* The strengthening. *)

(* What an edit under way will write is a tier exactly when tier.json holds
   one, and no lower one.                                                   *)
EditFresh ==
    edit # NoEdit =>
        /\ edit.tier \in Tier <=> disk.tier \in Tier
        /\ disk.tier \in Tier => Rank[edit.tier] >= Rank[disk.tier]

(* classify only runs while tier.json holds no tier.                        *)
ClassifyOnce ==
    drv.proc \in {"trying", "body"} /\ drv.phase = "classify" => disk.tier \notin Tier

(* Every phase but the first is a phase of some tier, plan of T2 and T3 and
   pilot of T3; it is not classify that raises the tier.                                                             *)
HighPhase ==
    /\ drv.proc \in {"entering", "trying", "body"} =>
          /\ drv.phase # "classify" => disk.tier \in Tier
          /\ drv.phase = "plan" => disk.tier \in {"T2", "T3"}
          /\ drv.phase = "pilot" => disk.tier = "T3"
    /\ drv.proc = "body" /\ drv.phase = "classify" => drv.at # "raise"

(* What plan and pilot leave behind belongs to a tier that has them, and a
   body that began below that tier has none of it under it.                 *)
HighFiles ==
    /\ disk.tree = "planned" => disk.tier \in {"T2", "T3"}
    /\ disk.contract = "pilot" => disk.tier = "T3"
    /\ drv.proc = "body" /\ drv.phase = "execute" =>
          /\ drv.seen = "T1" => disk.tree # "planned"
          /\ drv.seen = "T2" => disk.contract # "pilot"

IInv == TypeOK /\ EditFresh /\ ClassifyOnce /\ HighPhase /\ HighFiles

-----------------------------------------------------------------------------
(* Tiers and phases. *)

LEMMA Ranks ==
    /\ \A t \in Tier : Rank[t] \in 0..3 /\ Above[t] \in Tier
    /\ \A t, u \in Tier : Escalate(t, u) \in Tier /\ Rank[Escalate(t, u)] >= Rank[t]
    /\ \A t \in Tier : Rank[t] >= 2 <=> t \in {"T2", "T3"}
    /\ \A t \in Tier : Rank[t] >= 3 <=> t = "T3"
BY DEF Tier, Rank, Above, Escalate

(* A tier at or above T2, or T3, stays there when it rises.                 *)
LEMMA RaisedHigh ==
    ASSUME NEW t \in Tier, NEW u \in Tier, Rank[u] >= Rank[t]
    PROVE  /\ t \in {"T2", "T3"} => u \in {"T2", "T3"}
           /\ t = "T3" => u = "T3"
BY Ranks

LEMMA PhaseAt ==
    ASSUME NEW t \in Tier, NEW i \in DOMAIN PhasesFor[t]
    PROVE  /\ PhasesFor[t][i] \in Phase
           /\ PhasesFor[t][i] = "plan" => t \in {"T2", "T3"}
           /\ PhasesFor[t][i] = "pilot" => t = "T3"
<1>1. PhasesFor[t][i] \in Phase
  BY DEF Phase
<1>2. CASE t = "T0"
  <2>1. PhasesFor[t] = <<"classify", "execute", "verify">>
    BY <1>2 DEF PhasesFor
  <2>2. i \in 1..3
    BY <2>1
  <2> QED
    BY <1>1, <2>1, <2>2
<1>3. CASE t = "T1"
  <2>1. PhasesFor[t] = <<"classify", "intake", "explore", "execute", "review">>
    BY <1>3 DEF PhasesFor
  <2>2. i \in 1..5
    BY <2>1
  <2> QED
    BY <1>1, <2>1, <2>2
<1>4. CASE t = "T2"
  <2>1. PhasesFor[t] = <<"classify", "intake", "explore", "plan", "execute", "review",
                         "assemble">>
    BY <1>4 DEF PhasesFor
  <2>2. i \in 1..7
    BY <2>1
  <2> QED
    BY <1>1, <1>4, <2>1, <2>2
<1>5. CASE t = "T3"
  BY <1>1, <1>5
<1> QED
  BY <1>2, <1>3, <1>4, <1>5 DEF Tier

LEMMA Phases ==
    /\ "classify" \in Phase
    /\ \A p \in Phase, t \in Tier \cup {"any"} : RanKey(p, t) \in Phase \X (Tier \cup {"any"})
<1>1. PhasesFor["T0"][1] = "classify" /\ 1 \in DOMAIN PhasesFor["T0"] /\ "T0" \in Tier
  BY DEF PhasesFor, Tier
<1>2. "classify" \in Phase
  BY <1>1, PhaseAt
<1> QED
  BY <1>2 DEF RanKey

LEMMA NoDriverType == NoDriver \in Driver
BY Phases, DriverAssumption DEF NoDriver, Driver

LEMMA Returned ==
    ASSUME NEW report \in {"none", "done", "halted", "escalated", "error"}, Return(report)
    PROVE  drv' \in Driver /\ drv'.proc = "returned"
BY NoDriverType DEF Return, NoDriver, Driver

LEMMA Ended ==
    ASSUME drv \in Driver, NEW outcome \in {"done", "escalated"}, End(outcome)
    PROVE  drv' \in Driver /\ drv'.proc = "leaving"
<1>1. 1 \in 1..MaxTransient
  BY DriverAssumption
<1>2. /\ "leaving" \in {"down", "entering", "trying", "body", "leaving", "choosing", "returned"}
      /\ "begin" \in {"begin", "contract", "asked", "answered", "freeze", "rounds", "settle",
                      "raise", "triage", "reassemble"}
      /\ "none" \in Tier \cup {"none", "invalid"}
  OBVIOUS
<1>3. drv' = [drv EXCEPT !.proc = "leaving", !.at = "begin", !.seen = "none", !.attempt = 1,
                         !.outcome = outcome]
  BY DEF End
<1>4. drv' \in Driver
  BY <1>1, <1>2, <1>3 DEF Driver
<1> QED
  BY <1>3, <1>4 DEF Driver

LEMMA Moved ==
    ASSUME drv \in Driver, NEW step, To(step),
           step \in {"begin", "contract", "asked", "answered", "freeze", "rounds", "settle",
                     "raise", "triage", "reassemble"}
    PROVE  /\ drv' \in Driver /\ drv'.proc = drv.proc /\ drv'.phase = drv.phase
           /\ drv'.seen = drv.seen /\ drv'.at = step
BY DEF To, Driver

-----------------------------------------------------------------------------
(* The steps. *)

LEMMA InitInv == Init => IInv
<1>1. Init => TypeOK
  BY NoDriverType DEF Init, TypeOK, EmptyDisk, Disk, Kind, WorkState
<1> QED
  BY <1>1 DEF Init, IInv, EditFresh, ClassifyOnce, HighPhase, HighFiles, EmptyDisk, NoDriver

(* A step of a body that ends it, or that makes the run return.             *)
LEMMA Left ==
    ASSUME IInv, edit = NoEdit, UNCHANGED <<edit, counters>>,
           disk' \in Disk, drv' \in Driver, drv'.proc \in {"leaving", "returned"},
           disk'.tree = "planned" => disk'.tier \in {"T2", "T3"},
           disk'.contract = "pilot" => disk'.tier = "T3"
    PROVE  IInv'
BY DEF IInv, TypeOK, EditFresh, ClassifyOnce, HighPhase, HighFiles, counters

(* A step of a body that goes on with it, at the tier it began with.        *)
LEMMA GoesOn ==
    ASSUME IInv, edit = NoEdit, UNCHANGED <<edit, counters>>, drv.proc = "body",
           disk' \in Disk, NEW step, To(step),
           step \in {"begin", "contract", "asked", "answered", "freeze", "rounds", "settle",
                     "raise", "triage", "reassemble"},
           drv.phase = "classify" => step # "raise",
           disk'.tier = disk.tier,
           disk'.tree = "planned" => disk.tree = "planned" \/ drv.phase = "plan",
           disk'.contract = disk.contract \/ disk'.contract # "pilot"
    PROVE  IInv'
<1>1. /\ drv' \in Driver /\ drv'.proc = "body" /\ drv'.phase = drv.phase
      /\ drv'.seen = drv.seen /\ drv'.at = step
  BY Moved DEF IInv, TypeOK
<1>2. TypeOK'
  BY <1>1 DEF IInv, TypeOK, counters
<1>3. EditFresh' /\ ClassifyOnce' /\ HighPhase'
  BY <1>1 DEF IInv, EditFresh, ClassifyOnce, HighPhase
<1>4. HighFiles'
  BY <1>1 DEF IInv, HighPhase, HighFiles
<1> QED
  BY <1>2, <1>3, <1>4 DEF IInv

(* What one step of the program may do to the tier and to what is done. *)
TierUp == disk.tier \in Tier => disk'.tier \in Tier /\ Rank[disk'.tier] >= Rank[disk.tier]

Kept == /\ disk.tree = "planned" => disk'.tree = "planned"
        /\ disk.contract = "pilot" => disk'.contract = "pilot"
        /\ disk.spec => disk'.spec

LEMMA SameTier ==
    ASSUME disk'.tier = disk.tier
    PROVE  TierUp
BY Ranks DEF TierUp

-----------------------------------------------------------------------------
(* The loop of run() and _run_phase.                                        *)

LEMMA LoopSteps ==
    ASSUME IInv, edit = NoEdit,
           Start \/ SkipPhase \/ EnterPhase \/ TryHalted \/ BeginBody \/ BodyRaises
             \/ Leave \/ LeaveOverspent \/ RunCompletes \/ ChooseWithoutTier
    PROVE  IInv' /\ TierUp /\ Kept
<1> USE DEF IInv
<1>1. CASE Start
  <2>1. drv' \in Driver /\ drv'.proc = "entering" /\ drv'.phase = "classify"
    BY <1>1, NoDriverType DEF Start, NoDriver, Driver
  <2>2. /\ disk' \in Disk /\ disk'.tier = disk.tier /\ disk'.tree = disk.tree
        /\ disk'.contract = disk.contract /\ disk'.spec = disk.spec
    BY <1>1 DEF Start, TypeOK, Disk
  <2>3. TypeOK'
    BY <1>1, <2>1, <2>2 DEF Start, TypeOK
  <2> QED
    BY <1>1, <2>1, <2>2, <2>3, SameTier
       DEF Start, EditFresh, ClassifyOnce, HighPhase, HighFiles, Kept
<1>2. CASE SkipPhase
  <2>1. drv' \in Driver /\ drv'.proc = "choosing"
    BY <1>2 DEF SkipPhase, TypeOK, Driver
  <2> QED
    BY <1>2, <2>1, SameTier
       DEF SkipPhase, TypeOK, EditFresh, ClassifyOnce, HighPhase, HighFiles, Kept, counters
<1>3. CASE EnterPhase
  <2>1. drv' \in Driver /\ drv'.proc = "trying" /\ drv'.phase = drv.phase
    BY <1>3 DEF EnterPhase, TypeOK, Driver
  <2>2. drv.phase = "classify" => disk.tier \notin Tier
    BY <1>3 DEF EnterPhase, PhaseDone, Tier
  <2> QED
    BY <1>3, <2>1, <2>2, SameTier
       DEF EnterPhase, TypeOK, EditFresh, ClassifyOnce, HighPhase, HighFiles, Kept, counters
<1>4. CASE TryHalted
  <2>1. drv' \in Driver /\ drv'.proc = "returned"
    BY <1>4, Returned DEF TryHalted
  <2>2. /\ disk' \in Disk /\ disk'.tier = disk.tier /\ disk'.tree = disk.tree
        /\ disk'.contract = disk.contract /\ disk'.spec = disk.spec
    BY <1>4 DEF TryHalted, TypeOK, Disk, Driver
  <2> QED
    BY <1>4, <2>1, <2>2, SameTier, Left DEF TryHalted, HighFiles, Kept
<1>5. CASE BeginBody
  <2>1. drv' \in Driver /\ drv'.proc = "body" /\ drv'.phase = drv.phase /\ drv'.seen = disk.tier
        /\ drv'.at = "begin"
    BY <1>5 DEF BeginBody, TypeOK, Driver, Disk
  <2>2. HighFiles'
    BY <1>5, <2>1 DEF BeginBody, HighFiles
  <2> QED
    BY <1>5, <2>1, <2>2, SameTier
       DEF BeginBody, TypeOK, EditFresh, ClassifyOnce, HighPhase, Kept, counters
<1>6. CASE BodyRaises
  <2>1. CASE Return("error")
    <3>1. drv' \in Driver /\ drv'.proc = "returned"
      BY <2>1, Returned
    <3> QED
      BY <1>6, <3>1, SameTier, Left DEF BodyRaises, TypeOK, HighFiles, Kept
  <2>2. CASE /\ drv.attempt < MaxTransient
             /\ drv' = [drv EXCEPT !.proc = "trying", !.attempt = @ + 1]
    <3>1. drv.attempt + 1 \in 1..MaxTransient
      BY <2>2, DriverAssumption DEF TypeOK, Driver
    <3>2. drv' \in Driver /\ drv'.proc = "trying" /\ drv'.phase = drv.phase
      BY <2>2, <3>1 DEF TypeOK, Driver
    <3> QED
      BY <1>6, <3>2, SameTier
         DEF BodyRaises, TypeOK, EditFresh, ClassifyOnce, HighPhase, HighFiles, Kept, counters
  <2> QED
    BY <1>6, <2>1, <2>2 DEF BodyRaises
<1>7. CASE Leave
  <2>1. CASE Return("escalated")
    <3>1. drv' \in Driver /\ drv'.proc = "returned"
      BY <2>1, Returned
    <3> QED
      BY <1>7, <3>1, SameTier, Left DEF Leave, TypeOK, HighFiles, Kept
  <2>2. CASE drv' = [drv EXCEPT !.proc = "choosing", !.ran = @ \cup {drv.key}]
    <3>1. drv' \in Driver /\ drv'.proc = "choosing"
      BY <2>2 DEF TypeOK, Driver
    <3> QED
      BY <1>7, <3>1, SameTier
         DEF Leave, TypeOK, EditFresh, ClassifyOnce, HighPhase, HighFiles, Kept, counters
  <2> QED
    BY <1>7, <2>1, <2>2 DEF Leave
<1>8. CASE LeaveOverspent
  <2>1. drv' \in Driver /\ drv'.proc = "returned"
    BY <1>8, Returned DEF LeaveOverspent
  <2>2. /\ disk' \in Disk /\ disk'.tier = disk.tier /\ disk'.tree = disk.tree
        /\ disk'.contract = disk.contract /\ disk'.spec = disk.spec
    BY <1>8 DEF LeaveOverspent, TypeOK, Disk
  <2> QED
    BY <1>8, <2>1, <2>2, SameTier, Left DEF LeaveOverspent, HighFiles, Kept
<1>9. CASE RunCompletes \/ ChooseWithoutTier
  <2>1. drv' \in Driver /\ drv'.proc = "returned"
    BY <1>9, Returned DEF RunCompletes, ChooseWithoutTier
  <2> QED
    BY <1>9, <2>1, SameTier, Left DEF RunCompletes, ChooseWithoutTier, TypeOK, HighFiles, Kept
<1> QED
  BY <1>1, <1>2, <1>3, <1>4, <1>5, <1>6, <1>7, <1>8, <1>9

LEMMA ChooseStep ==
    ASSUME IInv, edit = NoEdit, Choose
    PROVE  IInv' /\ TierUp /\ Kept
<1>1. PICK i \in DOMAIN PhasesFor[disk.tier] :
             \/ Return("halted")
             \/ drv' = [drv EXCEPT !.proc = "entering", !.phase = PhasesFor[disk.tier][i],
                                   !.key = RanKey(PhasesFor[disk.tier][i], disk.tier)]
  BY DEF Choose, Remaining
<1>2. disk.tier \in Tier /\ UNCHANGED <<disk, edit, counters>> /\ drv.proc = "choosing"
  BY DEF Choose
<1>3. CASE Return("halted")
  <2>1. drv' \in Driver /\ drv'.proc = "returned"
    BY <1>3, Returned
  <2> QED
    BY <1>2, <2>1, SameTier, Left DEF IInv, TypeOK, HighFiles, Kept
<1>4. CASE drv' = [drv EXCEPT !.proc = "entering", !.phase = PhasesFor[disk.tier][i],
                              !.key = RanKey(PhasesFor[disk.tier][i], disk.tier)]
  <2> DEFINE p == PhasesFor[disk.tier][i]
  <2>1. p \in Phase /\ (p = "plan" => disk.tier \in {"T2", "T3"}) /\ (p = "pilot" => disk.tier = "T3")
    BY <1>2, PhaseAt
  <2>2. RanKey(p, disk.tier) \in Phase \X (Tier \cup {"any"})
    BY <1>2, <2>1, Phases
  <2> HIDE DEF p
  <2>3. drv' = [drv EXCEPT !.proc = "entering", !.phase = p, !.key = RanKey(p, disk.tier)]
    BY <1>4 DEF p
  <2>4. drv' \in Driver /\ drv'.proc = "entering" /\ drv'.phase = p
    BY <2>1, <2>2, <2>3 DEF IInv, TypeOK, Driver
  <2> QED
    BY <1>2, <2>1, <2>4, SameTier
       DEF IInv, TypeOK, EditFresh, ClassifyOnce, HighPhase, HighFiles, Kept, counters
<1> QED
  BY <1>1, <1>3, <1>4

-----------------------------------------------------------------------------
(* The phases' bodies. *)

(* What a body writes when it leaves the tier, the tree, the contract and the
   spec of the run directory alone.                                         *)
Aside == /\ disk' \in Disk
         /\ disk'.tier = disk.tier /\ disk'.tree = disk.tree
         /\ disk'.contract = disk.contract /\ disk'.spec = disk.spec

LEMMA EndsAside ==
    ASSUME IInv, edit = NoEdit, UNCHANGED <<edit, counters>>, Aside,
           NEW outcome \in {"done", "escalated"}, End(outcome)
    PROVE  IInv' /\ TierUp /\ Kept
<1>1. drv' \in Driver /\ drv'.proc = "leaving"
  BY Ended DEF IInv, TypeOK
<1> QED
  BY <1>1, Left, SameTier DEF Aside, IInv, HighFiles, Kept

LEMMA MovesAside ==
    ASSUME IInv, edit = NoEdit, UNCHANGED <<edit, counters>>, drv.proc = "body", Aside,
           NEW step, To(step),
           step \in {"begin", "contract", "asked", "answered", "freeze", "rounds", "settle",
                     "raise", "triage", "reassemble"},
           drv.phase = "classify" => step # "raise"
    PROVE  IInv' /\ TierUp /\ Kept
BY GoesOn, SameTier DEF Aside, IInv, HighFiles, Kept

LEMMA UnchangedAside ==
    ASSUME IInv, UNCHANGED disk
    PROVE  Aside
BY DEF Aside, IInv, TypeOK

(* classify: the tier is written while tier.json holds none.                *)
LEMMA ClassifySteps ==
    ASSUME IInv, edit = NoEdit, UNCHANGED <<edit, counters>>, Classify \/ ClassifyGivesUp
    PROVE  IInv' /\ TierUp /\ Kept
<1>1. disk.tier \notin Tier
  BY DEF Classify, ClassifyGivesUp, In, IInv, ClassifyOnce
<1>2. disk.tree # "planned" /\ disk.contract # "pilot"
  BY <1>1 DEF IInv, HighFiles, Tier
<1>3. PICK t \in Tier : disk' = [disk EXCEPT !.tier = t]
  BY DriverAssumption DEF Classify, ClassifyGivesUp, Tier
<1>4. /\ disk' \in Disk /\ disk'.tree = disk.tree /\ disk'.contract = disk.contract
      /\ disk'.spec = disk.spec
  BY <1>3 DEF IInv, TypeOK, Disk
<1>5. drv' \in Driver /\ drv'.proc \in {"leaving", "returned"}
  BY Ended, Returned DEF Classify, ClassifyGivesUp, IInv, TypeOK
<1> QED
  BY <1>1, <1>2, <1>4, <1>5, Left DEF TierUp, Kept

(* The approvals, and the phases that leave tree, tier and contract alone.  *)
LEMMA AsideSteps ==
    ASSUME IInv, edit = NoEdit, UNCHANGED <<edit, counters>>,
           Ask \/ Answered \/ Explore \/ ApprovePilot \/ Research \/ ExecuteDirect \/ Verify
    PROVE  IInv' /\ TierUp /\ Kept
<1>1. CASE Ask
  <2>1. Aside
    BY <1>1 DEF Ask, Asked, Aside, IInv, TypeOK, Disk, Kind
  <2> QED
    BY <1>1, <2>1, MovesAside DEF Ask, In
<1>2. CASE Answered
  BY <1>2, UnchangedAside, MovesAside DEF Answered
<1>3. CASE Explore
  <2>1. Aside
    BY <1>3 DEF Explore, Aside, IInv, TypeOK, Disk
  <2> QED
    BY <1>3, <2>1, EndsAside DEF Explore
<1>4. CASE ApprovePilot
  <2>1. Aside
    BY <1>4 DEF ApprovePilot, Aside, IInv, TypeOK, Disk
  <2> QED
    BY <1>4, <2>1, MovesAside DEF ApprovePilot, In
<1>5. CASE Research
  BY <1>5, UnchangedAside, EndsAside DEF Research
<1>6. \A d \in Direct : d \in WorkState
  BY DEF Direct, IInv, TypeOK, Disk
<1>7. CASE ExecuteDirect
  <2>1. Aside
    BY <1>6, <1>7 DEF ExecuteDirect, Aside, IInv, TypeOK, Disk
  <2> QED
    BY <1>7, <2>1, EndsAside DEF ExecuteDirect
<1>8. CASE Verify
  <2>1. PICK d \in Direct : /\ disk' = [disk EXCEPT !.direct = d]
                            /\ IF d = "oversize" THEN To("raise")
                               ELSE End(IF d = "complete" THEN "done" ELSE "escalated")
    BY <1>8 DEF Verify
  <2>2. Aside
    BY <1>6, <2>1 DEF Aside, IInv, TypeOK, Disk
  <2>3. CASE To("raise")
    BY <1>8, <2>2, <2>3, MovesAside DEF Verify, In
  <2>4. CASE \E outcome \in {"done", "escalated"} : End(outcome)
    BY <2>2, <2>4, EndsAside
  <2> QED
    BY <2>1, <2>3, <2>4
<1> QED
  BY <1>1, <1>2, <1>3, <1>4, <1>5, <1>7, <1>8

(* spec.md, the plan and the contracts.                                     *)
LEMMA PlanningSteps ==
    ASSUME IInv, edit = NoEdit, UNCHANGED <<edit, counters>>,
           WriteSpec \/ Plan \/ RenderContract \/ FreezeContract
    PROVE  IInv' /\ TierUp /\ Kept
<1>1. CASE WriteSpec
  <2>1. disk' \in Disk /\ disk'.tier = disk.tier /\ disk'.tree = disk.tree
        /\ disk'.contract = disk.contract /\ disk'.spec
    BY <1>1 DEF WriteSpec, IInv, TypeOK, Disk
  <2>2. drv' \in Driver /\ drv'.proc = "leaving"
    BY <1>1, Ended DEF WriteSpec, IInv, TypeOK
  <2> QED
    BY <2>1, <2>2, Left, SameTier DEF IInv, HighFiles, Kept
<1>2. CASE Plan
  <2>1. /\ disk' \in Disk /\ disk'.tier = disk.tier /\ disk'.tree = "planned"
        /\ disk'.contract = disk.contract /\ disk'.spec = disk.spec
    <3>1. PICK surveyed \in BOOLEAN :
                 disk' = [disk EXCEPT !.spine = @ \/ surveyed, !.tree = "planned",
                                      !.work = "open", !.split = FALSE]
      BY <1>2 DEF Plan
    <3>2. (disk.spine \/ surveyed) \in BOOLEAN
      OBVIOUS
    <3> QED
      BY <3>1, <3>2 DEF IInv, TypeOK, Disk, WorkState
  <2>2. To("contract") /\ drv.proc = "body" /\ drv.phase = "plan"
    BY <1>2 DEF Plan, In
  <2>3. IInv'
    BY <2>1, <2>2, GoesOn
  <2> QED
    BY <2>1, <2>3, SameTier DEF Kept
<1>3. CASE RenderContract
  <2>1. disk' \in Disk /\ disk'.tier = disk.tier /\ disk'.tree = disk.tree
        /\ (disk'.contract = "pilot" <=> disk.contract = "pilot") /\ disk'.spec = disk.spec
    BY <1>3 DEF RenderContract, IInv, TypeOK, Disk
  <2>2. drv' \in Driver /\ drv'.proc = "leaving"
    BY <1>3, Ended DEF RenderContract, IInv, TypeOK
  <2> QED
    BY <2>1, <2>2, Left, SameTier DEF IInv, HighFiles, Kept
<1>4. CASE FreezeContract
  <2>1. disk' \in Disk /\ disk'.tier = disk.tier /\ disk'.tree = disk.tree
        /\ disk'.contract = "pilot" /\ disk'.spec = disk.spec
    BY <1>4 DEF FreezeContract, IInv, TypeOK, Disk
  <2>2. drv' \in Driver /\ drv'.proc = "leaving"
    BY <1>4, Ended DEF FreezeContract, IInv, TypeOK
  <2>3. disk.tier = "T3"
    BY <1>4 DEF FreezeContract, In, IInv, HighPhase
  <2> QED
    BY <2>1, <2>2, <2>3, Left, SameTier DEF IInv, HighFiles, Kept
<1> QED
  BY <1>1, <1>2, <1>3, <1>4

(* execute: what is archived is the one-node tree or the scripted contract. *)
LEMMA ExecuteSteps ==
    ASSUME IInv, edit = NoEdit, UNCHANGED <<edit, counters>>,
           ExecuteTree \/ Rounds \/ RoundsWithoutTree \/ PromoteOversized \/ PromoteSplit
             \/ Settle \/ RaiseTier
    PROVE  IInv' /\ TierUp /\ Kept
<1>1. CASE ExecuteTree
  <2>1. disk' \in Disk /\ disk'.tier = disk.tier /\ disk'.spec = disk.spec
        /\ disk'.contract = disk.contract
        /\ \/ disk'.tree = disk.tree
           \/ (disk.tree = "none" /\ disk'.tree = "single")
    BY <1>1 DEF ExecuteTree, IInv, TypeOK, Disk, WorkState
  <2>2. To("rounds") /\ drv.proc = "body"
    BY <1>1 DEF ExecuteTree, In
  <2>3. IInv'
    BY <2>1, <2>2, GoesOn
  <2> QED
    BY <2>1, <2>3, SameTier DEF Kept
<1>2. CASE Rounds
  <2>1. disk.work \in WorkState
    BY DEF IInv, TypeOK, Disk
  <2>2. PICK w \in WorkState, grafted \in BOOLEAN :
               disk' = [disk EXCEPT !.work = w, !.split = @ \/ grafted]
    BY <1>2, <2>1, Zenon DEF Rounds
  <2>3. (disk.split \/ grafted) \in BOOLEAN
    OBVIOUS
  <2>4. Aside
    BY <2>2, <2>3 DEF Aside, IInv, TypeOK, Disk
  <2> QED
    BY <1>2, <2>4, MovesAside DEF Rounds, In
<1>3. CASE RoundsWithoutTree
  <2>1. drv' \in Driver /\ drv'.proc = "returned"
    BY <1>3, Returned DEF RoundsWithoutTree
  <2>2. UNCHANGED disk
    BY <1>3 DEF RoundsWithoutTree
  <2> QED
    BY <2>1, <2>2, SameTier, Left DEF IInv, TypeOK, HighFiles, Kept
<1>4. CASE PromoteOversized
  <2>1. disk' \in Disk /\ disk'.tier = disk.tier /\ disk'.tree = "none"
        /\ disk'.contract = disk.contract /\ disk'.spec = disk.spec
    BY <1>4 DEF PromoteOversized, IInv, TypeOK, Disk, WorkState
  <2>2. disk.tree # "planned"
    BY <1>4 DEF PromoteOversized, Oversized, In, IInv, HighFiles
  <2>3. To("raise") /\ drv.proc = "body" /\ drv.phase = "execute"
    BY <1>4 DEF PromoteOversized, In
  <2>4. IInv'
    BY <2>1, <2>3, GoesOn
  <2> QED
    BY <2>1, <2>2, <2>4, SameTier DEF Kept
<1>5. CASE PromoteSplit
  <2>1. disk' \in Disk /\ disk'.tier = disk.tier /\ disk'.tree = disk.tree
        /\ disk'.contract = "none" /\ disk'.spec = disk.spec
    BY <1>5 DEF PromoteSplit, IInv, TypeOK, Disk
  <2>2. disk.contract # "pilot"
    BY <1>5 DEF PromoteSplit, SplitAtT2, In, IInv, HighFiles
  <2>3. To("raise") /\ drv.proc = "body" /\ drv.phase = "execute"
    BY <1>5 DEF PromoteSplit, In
  <2>4. IInv'
    BY <2>1, <2>3, GoesOn
  <2> QED
    BY <2>1, <2>2, <2>4, SameTier DEF Kept
<1>6. CASE Settle
  <2>1. \E outcome \in {"done", "escalated"} : End(outcome)
    BY <1>6 DEF Settle
  <2> QED
    BY <1>6, <2>1, UnchangedAside, EndsAside DEF Settle
<1>7. CASE RaiseTier
  <2>1. PICK target \in Tier : disk' = [disk EXCEPT !.tier = Escalate(disk.tier, target)]
    BY <1>7 DEF RaiseTier, Tier
  <2>2. disk.tier \in Tier
    <3>1. drv.phase # "classify"
      BY <1>7 DEF RaiseTier, IInv, HighPhase
    <3> QED
      BY <1>7, <3>1 DEF RaiseTier, IInv, HighPhase
  <2>3. disk'.tier \in Tier /\ Rank[disk'.tier] >= Rank[disk.tier]
    BY <2>1, <2>2, Ranks DEF IInv, TypeOK, Disk
  <2>4. /\ disk' \in Disk /\ disk'.tree = disk.tree /\ disk'.contract = disk.contract
        /\ disk'.spec = disk.spec
    BY <2>1, <2>3 DEF IInv, TypeOK, Disk
  <2>5. drv' \in Driver /\ drv'.proc = "leaving"
    BY <1>7, Ended DEF RaiseTier, IInv, TypeOK
  <2>6. /\ disk'.tree = "planned" => disk'.tier \in {"T2", "T3"}
        /\ disk'.contract = "pilot" => disk'.tier = "T3"
    BY <2>2, <2>3, <2>4, RaisedHigh DEF IInv, HighFiles
  <2> QED
    BY <2>3, <2>4, <2>5, <2>6, Left DEF TierUp, Kept
<1> QED
  BY <1>1, <1>2, <1>3, <1>4, <1>5, <1>6, <1>7

(* The reviews of the tree and of the document.                             *)
LEMMA ReviewSteps ==
    ASSUME IInv, edit = NoEdit, UNCHANGED <<edit, counters>>,
           ReviewPasses \/ ReviewEscalates \/ ReviewRegenerates \/ ReviewRepairs
             \/ AssembleFails \/ Assemble \/ TriageAnswered
    PROVE  IInv' /\ TierUp /\ Kept
<1>1. CASE ReviewPasses \/ ReviewEscalates
  BY <1>1, UnchangedAside, EndsAside DEF ReviewPasses, ReviewEscalates
<1>2. CASE ReviewRegenerates
  <2>1. /\ disk' \in Disk /\ disk'.tier = disk.tier /\ disk'.tree = disk.tree
        /\ disk'.contract = "none" /\ disk'.spec = disk.spec
    BY <1>2 DEF ReviewRegenerates, IInv, TypeOK, Disk
  <2>2. disk.contract # "pilot"
    BY <1>2 DEF ReviewRegenerates, ReviewAtT2, IInv, HighFiles
  <2>3. To("raise") /\ drv.proc = "body" /\ drv.phase = "review"
    BY <1>2 DEF ReviewRegenerates, ReviewAtT2, In
  <2>4. IInv'
    BY <2>1, <2>3, GoesOn
  <2> QED
    BY <2>1, <2>2, <2>4, SameTier DEF Kept
<1>3. ASSUME disk' \in Repaired PROVE Aside
  BY <1>3 DEF Repaired, Aside, IInv, TypeOK, Disk, WorkState
<1>4. CASE ReviewRepairs \/ AssembleFails
  BY <1>3, <1>4, EndsAside DEF ReviewRepairs, AssembleFails
<1>5. CASE Assemble
  <2>1. Aside
    BY <1>5 DEF Assemble, Aside, IInv, TypeOK, Disk
  <2> QED
    BY <1>5, <2>1, EndsAside, MovesAside DEF Assemble, In
<1>6. CASE TriageAnswered
  <2>1. CASE End("done") /\ UNCHANGED disk
    BY <2>1, UnchangedAside, EndsAside
  <2>2. CASE disk' \in Repaired /\ To("reassemble")
    BY <1>3, <1>6, <2>2, MovesAside DEF TriageAnswered, In
  <2> QED
    BY <1>6, <2>1, <2>2 DEF TriageAnswered
<1> QED
  BY <1>1, <1>2, <1>4, <1>5, <1>6

-----------------------------------------------------------------------------
(* Around the driver. *)

LEMMA AroundSteps ==
    ASSUME IInv, Crash \/ Overspend \/ RunLate
    PROVE  IInv' /\ TierUp /\ Kept
<1> USE DEF IInv
<1>1. CASE Crash
  <2>1. drv' \in Driver /\ drv'.proc = "down"
    BY <1>1, NoDriverType DEF Crash, NoDriver
  <2>2. TypeOK'
    BY <1>1, <2>1 DEF Crash, TypeOK
  <2> QED
    BY <1>1, <2>1, <2>2, SameTier
       DEF Crash, EditFresh, ClassifyOnce, HighPhase, HighFiles, Kept
<1>2. CASE Overspend
  <2>1. Aside
    BY <1>2 DEF Overspend, Aside, TypeOK, Disk
  <2> QED
    BY <1>2, <2>1, SameTier
       DEF Overspend, Aside, TypeOK, EditFresh, ClassifyOnce, HighPhase, HighFiles, Kept, counters
<1>3. CASE RunLate
  <2>1. /\ drv' \in Driver /\ drv'.proc = drv.proc /\ drv'.phase = drv.phase
        /\ drv'.seen = drv.seen /\ drv'.at = drv.at
    BY <1>3 DEF RunLate, TypeOK, Driver
  <2> QED
    BY <1>3, <2>1, SameTier
       DEF RunLate, TypeOK, EditFresh, ClassifyOnce, HighPhase, HighFiles, Kept, counters
<1> QED
  BY <1>1, <1>2, <1>3

(* The operator's steps that leave tier.json alone.                         *)
LEMMA OperatorAside ==
    ASSUME IInv, (\E kind \in Kind : Resolve(kind)) \/ ToggleHalt \/ Redispatch
    PROVE  IInv' /\ TierUp /\ Kept
<1>1. UNCHANGED <<drv, edit, crashes, starts>> /\ edits' \in Nat
  BY DEF Resolve, ToggleHalt, Redispatch, MayEdit, counters, IInv, TypeOK
<1>2. Aside
  <2>1. CASE \E kind \in Kind : Resolve(kind)
    <3>1. PICK kind \in Kind : disk' = [disk EXCEPT !.approval[kind] = "resolved"]
      BY <2>1 DEF Resolve
    <3> QED
      BY <3>1 DEF Aside, IInv, TypeOK, Disk
  <2>2. CASE ToggleHalt
    <3>1. disk' = [disk EXCEPT !.halt = ~disk.halt] /\ (~disk.halt) \in BOOLEAN
      BY <2>2 DEF ToggleHalt
    <3> QED
      BY <3>1 DEF Aside, IInv, TypeOK, Disk
  <2>3. CASE Redispatch
    BY <2>3 DEF Redispatch, Aside, IInv, TypeOK, Disk, WorkState
  <2> QED
    BY <2>1, <2>2, <2>3
<1> QED
  BY <1>1, <1>2, SameTier
     DEF Aside, IInv, TypeOK, EditFresh, ClassifyOnce, HighPhase, HighFiles, Kept

(* What an edit read is not stale until it is written.                      *)
LEMMA EditSteps ==
    ASSUME IInv, BeginEscalate \/ BeginOverride \/ SaveEdit
    PROVE  IInv' /\ TierUp /\ Kept
<1> USE DEF IInv
<1>1. ASSUME UNCHANGED <<disk, drv, crashes, starts>>, edits' \in Nat, EditFresh',
             edit' \in [kind: {"escalate", "override"}, tier: Tier \cup {"invalid"}]
      PROVE  IInv' /\ TierUp /\ Kept
  BY <1>1, SameTier DEF TypeOK, ClassifyOnce, HighPhase, HighFiles, Kept
<1>2. CASE BeginEscalate
  <2>1. Above[disk.tier] \in Tier /\ disk.tier \in Tier
    BY <1>2, Ranks DEF BeginEscalate
  <2>2. /\ Escalate(disk.tier, Above[disk.tier]) \in Tier
        /\ Rank[Escalate(disk.tier, Above[disk.tier])] >= Rank[disk.tier]
    BY <2>1, Ranks
  <2>3. edit' = [kind |-> "escalate", tier |-> Escalate(disk.tier, Above[disk.tier])]
    BY <1>2 DEF BeginEscalate
  <2>4. UNCHANGED <<disk, drv, crashes, starts>> /\ edits' \in Nat
    BY <1>2 DEF BeginEscalate, MayEdit, TypeOK
  <2>5. EditFresh'
    BY <2>1, <2>2, <2>3, <2>4 DEF EditFresh
  <2> QED
    BY <1>1, <2>2, <2>3, <2>4, <2>5
<1>3. CASE BeginOverride
  <2>1. edit' = [kind |-> "override",
                 tier |-> IF disk.tier = "none" THEN "invalid" ELSE disk.tier]
    BY <1>3 DEF BeginOverride
  <2>2. UNCHANGED <<disk, drv, crashes, starts>> /\ edits' \in Nat
    BY <1>3 DEF BeginOverride, MayEdit, TypeOK
  <2>3. edit'.tier \in Tier \cup {"invalid"} /\ (edit'.tier \in Tier <=> disk.tier \in Tier)
        /\ (disk.tier \in Tier => edit'.tier = disk.tier)
    BY <2>1 DEF TypeOK, Disk, Tier
  <2>4. EditFresh'
    BY <2>2, <2>3, Ranks DEF EditFresh
  <2> QED
    BY <1>1, <2>1, <2>2, <2>3, <2>4
<1>4. CASE SaveEdit
  <2>1. /\ edit.tier \in Tier \cup {"invalid"}
        /\ edit.tier \in Tier <=> disk.tier \in Tier
        /\ disk.tier \in Tier => Rank[edit.tier] >= Rank[disk.tier]
    BY <1>4 DEF SaveEdit, EditFresh, TypeOK
  <2>2. /\ disk' \in Disk /\ disk'.tier = edit.tier /\ disk'.tree = disk.tree
        /\ disk'.contract = disk.contract /\ disk'.spec = disk.spec
    BY <1>4, <2>1 DEF SaveEdit, TypeOK, Disk
  <2>3. /\ disk.tier \in {"T2", "T3"} => disk'.tier \in {"T2", "T3"}
        /\ disk.tier = "T3" => disk'.tier = "T3"
    BY <2>1, <2>2, RaisedHigh DEF Tier
  <2>4. TypeOK'
    BY <1>4, <2>2 DEF SaveEdit, TypeOK, counters
  <2>5. EditFresh' /\ ClassifyOnce' /\ HighPhase' /\ HighFiles'
    BY <1>4, <2>1, <2>2, <2>3 DEF SaveEdit, EditFresh, ClassifyOnce, HighPhase, HighFiles
  <2> QED
    BY <2>1, <2>2, <2>4, <2>5 DEF TierUp, Kept
<1> QED
  BY <1>2, <1>3, <1>4

LEMMA StepInv ==
    ASSUME IInv, ~Racing, Next
    PROVE  IInv' /\ TierUp /\ Kept
<1>1. CASE Undisturbed /\ (Start \/ Driving \/ BodyRaises)
  <2>1. edit = NoEdit
    BY <1>1 DEF Undisturbed
  <2>2. CASE Start \/ SkipPhase \/ EnterPhase \/ TryHalted \/ BeginBody \/ BodyRaises
               \/ Leave \/ LeaveOverspent \/ RunCompletes \/ ChooseWithoutTier
    BY <2>1, <2>2, LoopSteps
  <2>3. CASE Choose
    BY <2>1, <2>3, ChooseStep
  <2>4. CASE Body
    BY <2>1, <2>4, ClassifySteps, AsideSteps, PlanningSteps, ExecuteSteps, ReviewSteps
       DEF Body
  <2> QED
    BY <1>1, <2>2, <2>3, <2>4 DEF Driving
<1>2. CASE Crash \/ Overspend \/ RunLate
  BY <1>2, AroundSteps
<1>3. CASE Operating
  BY <1>3, OperatorAside, EditSteps DEF Operating
<1> QED
  BY <1>1, <1>2, <1>3 DEF Next

LEMMA StutterInv ==
    ASSUME IInv, UNCHANGED vars
    PROVE  IInv'
BY DEF IInv, TypeOK, EditFresh, ClassifyOnce, HighPhase, HighFiles, vars, counters

LEMMA Invariance == ASSUME ~Racing PROVE Spec => []IInv
<1>1. IInv /\ [Next]_vars => IInv'
  BY StepInv, StutterInv
<1> QED
  BY <1>1, InitInv, PTL DEF Spec

-----------------------------------------------------------------------------
(* What the phases deliver. *)

(* Only a tree that exists is complete.                                     *)
WorkHasTree == disk.work = "complete" => disk.tree # "none"

(* plan only begins where there is no tree.                                 *)
PlanOnce ==
    drv.phase = "plan" =>
        /\ drv.proc = "trying" => disk.tree = "none"
        /\ drv.proc = "body" => drv.at = "contract" \/ (drv.at = "begin" /\ disk.tree = "none")

(* The tier under which a phase is entered in `ran` has been reached.       *)
Reached(k) == k[2] \in Tier => disk.tier \in Tier /\ Rank[k[2]] <= Rank[disk.tier]

RanInv ==
    \A k \in drv.ran :
        /\ Reached(k)
        /\ k[1] = "assemble" => k[2] \in {"T2", "T3"} /\ <<"review", k[2]>> \in drv.ran

Live == drv.proc \in {"entering", "trying", "body", "leaving"}

(* The phase under way has not run at its tier, and nothing has at a higher
   one; assemble comes after review.                                        *)
KeyInv ==
    Live => /\ drv.key \notin drv.ran /\ drv.key[1] = drv.phase /\ Reached(drv.key)
            /\ drv.phase \in TierScoped =>
                  /\ drv.key[2] \in Tier
                  /\ \A k \in drv.ran : k[2] \in Tier => Rank[k[2]] <= Rank[drv.key[2]]
            /\ drv.phase = "assemble" =>
                  drv.key[2] \in {"T2", "T3"} /\ <<"review", drv.key[2]>> \in drv.ran

BodyInv ==
    drv.proc = "body" =>
        /\ drv.phase = "execute" => drv.seen \in Tier /\ Rank[drv.key[2]] <= Rank[drv.seen]
        /\ drv.phase = "assemble" =>
              /\ drv.at # "raise"
              /\ drv.at \in {"triage", "asked", "answered"} =>
                    disk.work = "complete" /\ disk.document

(* What a phase that ends well leaves behind ...                            *)
LeavingInv ==
    drv.proc = "leaving" /\ drv.outcome = "done" =>
        /\ drv.phase = "verify" /\ disk.tier = "T0" => disk.direct = "complete"
        /\ drv.phase = "execute" /\ drv.key[2] = "T1" /\ disk.tier = "T1" =>
              disk.work = "complete"
        /\ drv.phase = "assemble" => disk.work = "complete" /\ disk.document

(* ... and what is still so while the tier is the one it ran at.            *)
RanDelivers ==
    /\ <<"verify", "T0">> \in drv.ran /\ disk.tier = "T0" => disk.direct = "complete"
    /\ <<"execute", "T1">> \in drv.ran /\ disk.tier = "T1" => disk.work = "complete"
    /\ \A t \in {"T2", "T3"} : <<"assemble", t>> \in drv.ran /\ disk.tier = t =>
          disk.work = "complete" /\ disk.document

DoneInv == /\ WorkHasTree /\ PlanOnce /\ RanInv /\ KeyInv /\ BodyInv /\ LeavingInv
           /\ RanDelivers

LEMMA DoneInit == Init => DoneInv
<1> SUFFICES ASSUME Init PROVE DoneInv
  OBVIOUS
<1>1. disk.work = "open" /\ drv.proc = "down" /\ drv.phase = "classify" /\ drv.ran = {}
  BY DEF Init, EmptyDisk, NoDriver
<1> QED
  BY <1>1 DEF DoneInv, WorkHasTree, PlanOnce, RanInv, KeyInv, Live, BodyInv, LeavingInv,
              RanDelivers

(* What has been reached stays reached while the tier rises.                *)
LEMMA StaysReached ==
    ASSUME TypeOK, TypeOK', TierUp, NEW k, Reached(k)
    PROVE  Reached(k)'
<1>1. k[2] \in Tier => disk'.tier \in Tier /\ Rank[k[2]] <= Rank[disk'.tier]
  <2>1. SUFFICES ASSUME k[2] \in Tier PROVE disk'.tier \in Tier /\ Rank[k[2]] <= Rank[disk'.tier]
    OBVIOUS
  <2>2. disk.tier \in Tier /\ Rank[k[2]] <= Rank[disk.tier]
    BY <2>1 DEF Reached
  <2>3. disk'.tier \in Tier /\ Rank[disk'.tier] >= Rank[disk.tier]
    BY <2>2 DEF TierUp
  <2> QED
    BY <2>1, <2>2, <2>3, Ranks
<1> QED
  BY <1>1 DEF Reached

(* A run that starts again, returns or dies owes nothing.                   *)
LEMMA DoneResets ==
    ASSUME DoneInv, drv'.proc \in {"down", "entering", "returned"},
           drv'.phase = NoDriver.phase, drv'.ran = NoDriver.ran, drv'.key = NoDriver.key,
           disk'.work = disk.work, disk'.tree = disk.tree
    PROVE  DoneInv'
<1>1. drv'.phase = "classify" /\ drv'.ran = {} /\ drv'.key = <<"classify", "any">>
  BY DEF NoDriver, RanKey, TierScoped
<1>2. Reached(drv.key)'
  BY <1>1 DEF Reached, Tier
<1>3. WorkHasTree' /\ PlanOnce' /\ RanInv' /\ BodyInv' /\ LeavingInv' /\ RanDelivers'
  BY <1>1 DEF DoneInv, WorkHasTree, PlanOnce, RanInv, BodyInv, LeavingInv, RanDelivers
<1>4. KeyInv'
  BY <1>1, <1>2 DEF KeyInv, TierScoped
<1> QED
  BY <1>3, <1>4 DEF DoneInv

(* A step within a phase, or beside it.                                     *)
SamePhase == drv'.key = drv.key /\ drv'.ran = drv.ran /\ drv'.phase = drv.phase

LEMMA KeysStay ==
    ASSUME TypeOK, TypeOK', TierUp, RanInv, KeyInv, SamePhase, Live' => Live
    PROVE  RanInv' /\ KeyInv'
<1>1. \A k : Reached(k) => Reached(k)'
  BY StaysReached
<1>2. RanInv'
  BY <1>1 DEF RanInv, SamePhase
<1>3. KeyInv'
  <2>1. SUFFICES ASSUME Live' PROVE KeyInv'
    BY DEF KeyInv
  <2>2. Live
    BY <2>1
  <2> QED
    BY <1>1, <2>2 DEF KeyInv, SamePhase
<1> QED
  BY <1>2, <1>3

(* What has been delivered stays so under a step that takes a complete tree
   apart only in the review of T2 or in assemble.                           *)
Unharmed ==
    /\ disk.direct = "complete" => disk'.direct = "complete"
    /\ disk.document => disk'.document
    /\ disk.work = "complete" =>
          \/ disk'.work = "complete"
          \/ drv.proc = "body" /\ drv.phase = "review" /\ disk.tier = "T2"
          \/ drv.proc = "body" /\ drv.phase = "assemble"

(* The tier at which a phase ran has not changed when it is still the tier. *)
LEMMA SameTierReached ==
    ASSUME TypeOK, TypeOK', TierUp, NEW k, Reached(k), k[2] \in Tier, disk'.tier = k[2]
    PROVE  disk.tier = k[2]
<1>1. disk.tier \in Tier /\ Rank[k[2]] <= Rank[disk.tier]
  BY DEF Reached
<1>2. Rank[disk'.tier] >= Rank[disk.tier]
  BY <1>1 DEF TierUp
<1>3. \A t, u \in Tier : Rank[t] = Rank[u] => t = u
  BY DEF Tier, Rank
<1>4. Rank[k[2]] \in 0..3 /\ Rank[disk.tier] \in 0..3
  BY <1>1, Ranks
<1> QED
  BY <1>1, <1>2, <1>3, <1>4

(* While assemble is in `ran`, neither review nor assemble is under way at
   that tier; nor is assemble at T1.                                        *)
LEMMA NotUnderWay ==
    ASSUME TypeOK, RanInv, KeyInv, drv.proc = "body", NEW t \in Tier, disk.tier = t
    PROVE  /\ <<"assemble", t>> \in drv.ran => drv.phase \notin {"review", "assemble"}
           /\ t = "T1" => drv.phase # "assemble"
<1>k. \A a, b : <<a, b>>[1] = a /\ <<a, b>>[2] = b
  OBVIOUS
<1>l. Live
  BY DEF Live
<1>t. drv.key = <<drv.key[1], drv.key[2]>>
  BY DEF TypeOK, Driver
<1>r. \A u, v \in Tier : Rank[u] <= Rank[v] /\ Rank[v] <= Rank[u] => u = v
  BY DEF Tier, Rank
<1>1. ASSUME <<"assemble", t>> \in drv.ran, drv.phase \in {"review", "assemble"} PROVE FALSE
  <2>1. <<"review", t>> \in drv.ran
    BY <1>1, <1>k DEF RanInv
  <2>2. drv.phase \in TierScoped
    BY <1>1 DEF TierScoped
  <2>3. drv.key[2] \in Tier /\ Rank[t] <= Rank[drv.key[2]]
    BY <1>1, <1>k, <1>l, <2>2 DEF KeyInv
  <2>4. Rank[drv.key[2]] <= Rank[t]
    BY <1>l, <2>3 DEF KeyInv, Reached
  <2>5. drv.key[2] = t
    BY <1>r, <2>3, <2>4
  <2> QED
    BY <1>1, <1>t, <1>l, <2>1, <2>5 DEF KeyInv
<1>2. ASSUME t = "T1", drv.phase = "assemble" PROVE FALSE
  <2>1. drv.key[2] \in {"T2", "T3"} /\ Reached(drv.key)
    BY <1>2, <1>l DEF KeyInv
  <2>2. Rank[drv.key[2]] <= Rank["T1"]
    BY <1>2, <2>1 DEF Reached, Tier
  <2> QED
    BY <2>1, <2>2 DEF Rank
<1> QED
  BY <1>1, <1>2

LEMMA DeliveryStays ==
    ASSUME TypeOK, TypeOK', TierUp, RanInv, KeyInv, RanDelivers, Unharmed, drv'.ran = drv.ran
    PROVE  RanDelivers'
<1>k. \A a, b : <<a, b>>[1] = a /\ <<a, b>>[2] = b
  OBVIOUS
<1>t. {"T0", "T1", "T2", "T3"} = Tier
  BY DEF Tier
<1>1. \A p, t : <<p, t>> \in drv.ran /\ t \in Tier /\ disk'.tier = t => disk.tier = t
  <2> SUFFICES ASSUME NEW p, NEW t, <<p, t>> \in drv.ran, t \in Tier, disk'.tier = t
               PROVE  disk.tier = t
    OBVIOUS
  <2>1. Reached(<<p, t>>)
    BY DEF RanInv
  <2> QED
    BY <1>k, <2>1, SameTierReached
<1>2. ASSUME <<"verify", "T0">> \in drv.ran, disk'.tier = "T0" PROVE disk'.direct = "complete"
  BY <1>1, <1>2, <1>t DEF RanDelivers, Unharmed
<1>3. ASSUME <<"execute", "T1">> \in drv.ran, disk'.tier = "T1" PROVE disk'.work = "complete"
  <2>1. disk.tier = "T1" /\ disk.work = "complete"
    BY <1>1, <1>3, <1>t DEF RanDelivers
  <2> QED
    BY <2>1, <1>t, NotUnderWay DEF Unharmed
<1>4. ASSUME NEW t \in {"T2", "T3"}, <<"assemble", t>> \in drv.ran, disk'.tier = t
      PROVE  disk'.work = "complete" /\ disk'.document
  <2>1. disk.tier = t /\ disk.work = "complete" /\ disk.document
    BY <1>1, <1>4, <1>t DEF RanDelivers
  <2> QED
    BY <1>4, <2>1, <1>t, NotUnderWay DEF Unharmed
<1> QED
  BY <1>2, <1>3, <1>4 DEF RanDelivers

-----------------------------------------------------------------------------
(* The steps that preserve it. *)

LEMMA Within ==
    ASSUME IInv, IInv', TierUp, DoneInv, SamePhase, Live' => Live, Unharmed,
           WorkHasTree', PlanOnce', BodyInv', LeavingInv'
    PROVE  DoneInv'
<1>1. TypeOK /\ TypeOK' /\ RanInv /\ KeyInv /\ RanDelivers
  BY DEF IInv, DoneInv
<1>2. RanInv' /\ KeyInv'
  BY <1>1, KeysStay
<1>3. RanDelivers'
  BY <1>1, DeliveryStays DEF SamePhase
<1> QED
  BY <1>2, <1>3 DEF DoneInv

(* A body that ends.                                                        *)
LEMMA DoneEnds ==
    ASSUME IInv, IInv', TierUp, DoneInv, drv.proc = "body", NEW outcome, End(outcome),
           Unharmed, WorkHasTree',
           outcome = "done" =>
              /\ drv.phase = "verify" /\ disk'.tier = "T0" => disk'.direct = "complete"
              /\ drv.phase = "execute" /\ drv.key[2] = "T1" /\ disk'.tier = "T1" =>
                    disk'.work = "complete"
              /\ drv.phase = "assemble" => disk'.work = "complete" /\ disk'.document
    PROVE  DoneInv'
<1>1. /\ SamePhase /\ drv'.proc = "leaving" /\ drv'.outcome = outcome
  BY DEF End, SamePhase, IInv, TypeOK, Driver
<1>2. PlanOnce' /\ BodyInv'
  BY <1>1 DEF PlanOnce, BodyInv
<1>3. LeavingInv'
  BY <1>1 DEF LeavingInv, SamePhase
<1> QED
  BY <1>1, <1>2, <1>3, Within DEF Live

(* A body that goes on.                                                     *)
LEMMA DoneMoves ==
    ASSUME IInv, IInv', TierUp, DoneInv, drv.proc = "body", NEW step, To(step),
           Unharmed, WorkHasTree', drv.phase = "plan" => step = "contract",
           drv.phase = "assemble" =>
              /\ step # "raise"
              /\ step \in {"triage", "asked", "answered"} =>
                    disk'.work = "complete" /\ disk'.document
    PROVE  DoneInv'
<1>1. /\ SamePhase /\ drv'.proc = "body" /\ drv'.at = step /\ drv'.seen = drv.seen
  BY DEF To, SamePhase, IInv, TypeOK, Driver
<1>2. PlanOnce' /\ LeavingInv'
  BY <1>1 DEF PlanOnce, LeavingInv, SamePhase
<1>3. BodyInv'
  BY <1>1 DEF BodyInv, SamePhase, DoneInv
<1> QED
  BY <1>1, <1>2, <1>3, Within DEF Live

(* The work a step leaves alone.                                            *)
SameWork == /\ disk'.work = disk.work /\ disk'.tree = disk.tree
            /\ disk'.direct = disk.direct /\ disk'.document = disk.document

LEMMA SameWorkIsUnharmed == DoneInv /\ SameWork => Unharmed /\ WorkHasTree'
BY DEF SameWork, Unharmed, DoneInv, WorkHasTree

(* The steps of everybody but the driver.                                   *)
LEMMA DoneBeside ==
    ASSUME IInv, IInv', TierUp, DoneInv,
           drv'.proc = drv.proc, SamePhase, drv'.at = drv.at, drv'.seen = drv.seen,
           drv'.outcome = drv.outcome,
           disk'.tree = disk.tree, disk'.direct = disk.direct, disk'.document = disk.document,
           disk'.work = "complete" <=> disk.work = "complete"
    PROVE  DoneInv'
<1>1. Unharmed /\ WorkHasTree'
  BY DEF Unharmed, DoneInv, WorkHasTree
<1>2. PlanOnce' /\ BodyInv'
  BY DEF PlanOnce, BodyInv, DoneInv, SamePhase
<1>3. LeavingInv'
  <2>1. SUFFICES ASSUME drv.proc = "leaving", drv.outcome = "done" PROVE LeavingInv'
    BY DEF LeavingInv
  <2>2. Reached(drv.key)
    BY <2>1 DEF DoneInv, KeyInv, Live
  <2>3. ASSUME drv.phase = "verify", disk'.tier = "T0" PROVE disk.tier = "T0"
    <3>1. drv.key[2] \in Tier
      BY <2>1, <2>3 DEF DoneInv, KeyInv, Live, TierScoped
    <3>2. disk.tier \in Tier
      BY <2>2, <3>1 DEF Reached
    <3>3. Rank[disk.tier] <= Rank["T0"]
      BY <2>3, <3>2 DEF TierUp
    <3> QED
      BY <3>2, <3>3 DEF Tier, Rank
  <2>4. ASSUME drv.key[2] = "T1", disk'.tier = "T1" PROVE disk.tier = "T1"
    BY <2>2, <2>4, SameTierReached DEF IInv, Tier
  <2> QED
    BY <2>1, <2>3, <2>4 DEF LeavingInv, DoneInv, SamePhase
<1> QED
  BY <1>1, <1>2, <1>3, Within DEF Live

LEMMA DoneAround ==
    ASSUME IInv, IInv', TierUp, DoneInv, Crash \/ Overspend \/ RunLate \/ Operating
    PROVE  DoneInv'
<1>t. disk \in Disk /\ drv \in Driver
  BY DEF IInv, TypeOK
<1>1. CASE Crash
  <2>1. drv' = NoDriver /\ NoDriver.proc = "down"
    BY <1>1 DEF Crash, NoDriver
  <2> QED
    BY <1>1, <2>1, DoneResets DEF Crash
<1>2. ASSUME UNCHANGED drv, SameWork PROVE DoneInv'
  BY <1>2, DoneBeside DEF SameWork, SamePhase
<1>3. CASE Overspend
  <2>1. UNCHANGED drv /\ SameWork
    BY <1>3, <1>t DEF Overspend, SameWork, Disk
  <2> QED
    BY <1>2, <2>1
<1>4. CASE RunLate
  <2>1. /\ drv'.proc = drv.proc /\ SamePhase /\ drv'.at = drv.at /\ drv'.seen = drv.seen
        /\ drv'.outcome = drv.outcome /\ UNCHANGED disk
    BY <1>4, <1>t DEF RunLate, SamePhase, Driver
  <2> QED
    BY <2>1, DoneBeside
<1>5. CASE (\E kind \in Kind : Resolve(kind)) \/ ToggleHalt \/ SaveEdit
  <2>1. UNCHANGED drv /\ SameWork
    BY <1>5, <1>t DEF Resolve, ToggleHalt, SaveEdit, SameWork, Disk
  <2> QED
    BY <1>2, <2>1
<1>6. CASE BeginEscalate \/ BeginOverride
  <2>1. UNCHANGED drv /\ SameWork
    BY <1>6 DEF BeginEscalate, BeginOverride, SameWork
  <2> QED
    BY <1>2, <2>1
<1>7. CASE Redispatch
  <2>1. /\ UNCHANGED drv
        /\ disk'.tree = disk.tree /\ disk'.direct = disk.direct
        /\ disk'.document = disk.document
        /\ disk'.work = "complete" <=> disk.work = "complete"
    BY <1>7, <1>t DEF Redispatch, Disk
  <2> QED
    BY <2>1, DoneBeside DEF SamePhase
<1> QED
  BY <1>1, <1>3, <1>4, <1>5, <1>6, <1>7 DEF Operating

(* The run returns.                                                         *)
LEMMA DoneReturns ==
    ASSUME DoneInv, NEW report, Return(report), disk'.work = disk.work, disk'.tree = disk.tree
    PROVE  DoneInv'
<1>1. /\ drv'.proc = "returned" /\ drv'.phase = NoDriver.phase /\ drv'.ran = NoDriver.ran
      /\ drv'.key = NoDriver.key
  BY DEF Return, NoDriver
<1> QED
  BY <1>1, DoneResets

(* A phase is entered in `ran`.                                             *)
LEMMA DoneRecorded ==
    ASSUME IInv, DoneInv, Live, UNCHANGED disk,
           drv' = [drv EXCEPT !.proc = "choosing", !.ran = @ \cup {drv.key}],
           drv.phase \in TierScoped => drv.proc = "leaving" /\ drv.outcome = "done"
    PROVE  DoneInv'
<1>t. drv \in Driver
  BY DEF IInv, TypeOK
<1>1. drv'.proc = "choosing" /\ drv'.ran = drv.ran \cup {drv.key}
  BY <1>t DEF Driver
<1>k. \A a, b : <<a, b>>[1] = a /\ <<a, b>>[2] = b
  OBVIOUS
<1>2. WorkHasTree' /\ PlanOnce' /\ KeyInv' /\ BodyInv' /\ LeavingInv'
  BY <1>1 DEF DoneInv, WorkHasTree, PlanOnce, KeyInv, Live, BodyInv, LeavingInv
<1>3. RanInv'
  BY <1>1 DEF DoneInv, RanInv, KeyInv, Reached
<1>4. \A p, u : drv.key = <<p, u>> => drv.phase = p /\ drv.key[2] = u
  BY <1>k DEF DoneInv, KeyInv
<1>5. RanDelivers'
  <2>1. ASSUME NEW p \in TierScoped, NEW u, <<p, u>> \in drv'.ran
        PROVE  \/ <<p, u>> \in drv.ran
               \/ /\ drv.phase = p /\ drv.key[2] = u
                  /\ drv.proc = "leaving" /\ drv.outcome = "done"
    BY <1>1, <1>4, <2>1
  <2>2. "verify" \in TierScoped /\ "execute" \in TierScoped /\ "assemble" \in TierScoped
    BY DEF TierScoped
  <2>3. ASSUME <<"verify", "T0">> \in drv'.ran, disk.tier = "T0" PROVE disk.direct = "complete"
    BY <2>1, <2>2, <2>3 DEF DoneInv, RanDelivers, LeavingInv
  <2>4. ASSUME <<"execute", "T1">> \in drv'.ran, disk.tier = "T1" PROVE disk.work = "complete"
    BY <2>1, <2>2, <2>4 DEF DoneInv, RanDelivers, LeavingInv
  <2>5. ASSUME NEW u \in {"T2", "T3"}, <<"assemble", u>> \in drv'.ran, disk.tier = u
        PROVE  disk.work = "complete" /\ disk.document
    BY <2>1, <2>2, <2>5 DEF DoneInv, RanDelivers, LeavingInv
  <2> QED
    BY <2>3, <2>4, <2>5 DEF RanDelivers
<1> QED
  BY <1>2, <1>3, <1>5 DEF DoneInv

LEMMA DoneLoop ==
    ASSUME IInv, IInv', TierUp, DoneInv,
           Start \/ SkipPhase \/ EnterPhase \/ TryHalted \/ BeginBody \/ BodyRaises
             \/ Leave \/ LeaveOverspent \/ RunCompletes \/ ChooseWithoutTier
    PROVE  DoneInv'
<1>t. disk \in Disk /\ drv \in Driver
  BY DEF IInv, TypeOK
<1>1. CASE Start
  <2>1. /\ drv'.proc = "entering" /\ drv'.phase = NoDriver.phase /\ drv'.ran = NoDriver.ran
        /\ drv'.key = NoDriver.key
    BY <1>1 DEF Start, NoDriver
  <2>2. disk'.work = disk.work /\ disk'.tree = disk.tree
    BY <1>1, <1>t DEF Start, Disk
  <2> QED
    BY <2>1, <2>2, DoneResets
<1>2. CASE SkipPhase
  <2>1. drv.phase \notin TierScoped
    BY <1>2 DEF SkipPhase, PhaseDone, TierScoped
  <2> QED
    BY <1>2, <2>1, DoneRecorded DEF SkipPhase, Live
<1>3. CASE EnterPhase
  <2>1. SamePhase /\ drv'.proc = "trying" /\ UNCHANGED disk
    BY <1>3, <1>t DEF EnterPhase, SamePhase, Driver
  <2>2. PlanOnce'
    BY <1>3, <2>1 DEF EnterPhase, PhaseDone, PlanOnce, SamePhase
  <2>3. BodyInv' /\ LeavingInv'
    BY <2>1 DEF BodyInv, LeavingInv
  <2> QED
    BY <1>3, <2>1, <2>2, <2>3, Within, SameWorkIsUnharmed DEF EnterPhase, SameWork, Live
<1>4. CASE TryHalted \/ LeaveOverspent \/ RunCompletes \/ ChooseWithoutTier
  <2>1. disk'.work = disk.work /\ disk'.tree = disk.tree
    BY <1>4, <1>t DEF TryHalted, LeaveOverspent, RunCompletes, ChooseWithoutTier, Disk
  <2> QED
    BY <1>4, <2>1, DoneReturns DEF TryHalted, LeaveOverspent, RunCompletes, ChooseWithoutTier
<1>5. CASE BeginBody
  <2>1. /\ SamePhase /\ drv'.proc = "body" /\ drv'.at = "begin" /\ drv'.seen = disk.tier
        /\ UNCHANGED disk /\ drv.proc = "trying"
    BY <1>5, <1>t DEF BeginBody, SamePhase, Driver
  <2>2. PlanOnce' /\ LeavingInv'
    BY <2>1 DEF PlanOnce, LeavingInv, DoneInv, SamePhase
  <2>3. BodyInv'
    BY <2>1 DEF BodyInv, SamePhase, DoneInv, KeyInv, Live, Reached, TierScoped
  <2> QED
    BY <2>1, <2>2, <2>3, Within, SameWorkIsUnharmed DEF SameWork, Live
<1>6. CASE BodyRaises
  <2>1. CASE Return("error")
    BY <1>6, <2>1, DoneReturns DEF BodyRaises
  <2>2. CASE drv' = [drv EXCEPT !.proc = "trying", !.attempt = @ + 1]
    <3>1. SamePhase /\ drv'.proc = "trying" /\ UNCHANGED disk /\ drv.proc = "body"
      BY <1>6, <1>t, <2>2 DEF BodyRaises, SamePhase, Driver
    <3>2. drv.phase = "plan" => disk.tree = "none"
      BY <1>6, <3>1 DEF BodyRaises, DoneInv, PlanOnce
    <3>3. PlanOnce' /\ BodyInv' /\ LeavingInv'
      BY <3>1, <3>2 DEF PlanOnce, BodyInv, LeavingInv, SamePhase
    <3> QED
      BY <3>1, <3>3, Within, SameWorkIsUnharmed DEF SameWork, Live
  <2> QED
    BY <1>6, <2>1, <2>2 DEF BodyRaises
<1>7. CASE Leave
  <2>1. CASE drv.outcome = "escalated"
    BY <1>7, <2>1, DoneReturns DEF Leave
  <2>2. CASE drv.outcome # "escalated"
    <3>1. drv.outcome = "done"
      BY <1>t, <2>2 DEF Driver
    <3> QED
      BY <1>7, <2>2, <3>1, DoneRecorded DEF Leave, Live
  <2> QED
    BY <2>1, <2>2
<1> QED
  BY <1>1, <1>2, <1>3, <1>4, <1>5, <1>6, <1>7

(* assemble is a phase of T2 and T3 and comes after their review.           *)
LEMMA AssembleAfterReview ==
    ASSUME NEW t \in Tier, NEW i \in DOMAIN PhasesFor[t], PhasesFor[t][i] = "assemble"
    PROVE  /\ t \in {"T2", "T3"}
           /\ \E j \in DOMAIN PhasesFor[t] : j < i /\ PhasesFor[t][j] = "review"
<1>1. CASE t = "T0"
  <2>1. PhasesFor[t] = <<"classify", "execute", "verify">>
    BY <1>1 DEF PhasesFor
  <2> QED
    BY <2>1
<1>2. CASE t = "T1"
  <2>1. PhasesFor[t] = <<"classify", "intake", "explore", "execute", "review">>
    BY <1>2 DEF PhasesFor
  <2> QED
    BY <2>1
<1>3. CASE t = "T2"
  <2>1. PhasesFor[t] = <<"classify", "intake", "explore", "plan", "execute", "review",
                         "assemble">>
    BY <1>3 DEF PhasesFor
  <2>2. i = 7 /\ 6 \in DOMAIN PhasesFor[t] /\ PhasesFor[t][6] = "review"
    BY <2>1
  <2> QED
    BY <1>3, <2>2
<1>4. CASE t = "T3"
  <2>1. PhasesFor[t] = <<"classify", "intake", "explore", "plan", "pilot", "research",
                         "execute", "review", "assemble">>
    BY <1>4 DEF PhasesFor
  <2>2. i = 9 /\ 8 \in DOMAIN PhasesFor[t] /\ PhasesFor[t][8] = "review"
    BY <2>1
  <2> QED
    BY <1>4, <2>2
<1> QED
  BY <1>1, <1>2, <1>3, <1>4 DEF Tier

LEMMA PlacesAreNumbers == \A t \in Tier : DOMAIN PhasesFor[t] \subseteq Nat
BY DEF Tier, PhasesFor

LEMMA DoneChoose ==
    ASSUME IInv, DoneInv, Choose
    PROVE  DoneInv'
<1>d. drv \in Driver /\ disk.tier \in Tier /\ drv.proc = "choosing" /\ UNCHANGED disk
  BY DEF Choose, IInv, TypeOK
<1>k. \A a, b : <<a, b>>[1] = a /\ <<a, b>>[2] = b
  OBVIOUS
<1>1. CASE Halting
  BY <1>1, DoneReturns DEF Choose
<1>2. CASE ~Halting
  <2> DEFINE p(j) == PhasesFor[disk.tier][j]
  <2>1. PICK i \in Remaining :
            /\ \A j \in Remaining : i <= j
            /\ drv' = [drv EXCEPT !.proc = "entering", !.phase = p(i),
                                  !.key = RanKey(p(i), disk.tier)]
    BY <1>2 DEF Choose
  <2>2. i \in DOMAIN PhasesFor[disk.tier] /\ RanKey(p(i), disk.tier) \notin drv.ran
    BY <2>1 DEF Remaining
  <2>3. /\ drv'.proc = "entering" /\ drv'.phase = p(i) /\ drv'.key = RanKey(p(i), disk.tier)
        /\ drv'.ran = drv.ran
    BY <1>d, <2>1 DEF Driver
  <2>4. /\ RanKey(p(i), disk.tier)[1] = p(i)
        /\ p(i) \in TierScoped => RanKey(p(i), disk.tier)[2] = disk.tier
        /\ p(i) \notin TierScoped => RanKey(p(i), disk.tier)[2] = "any"
    BY <1>k DEF RanKey
  <2>5. p(i) = "assemble" => disk.tier \in {"T2", "T3"} /\ <<"review", disk.tier>> \in drv.ran
    <3>1. SUFFICES ASSUME p(i) = "assemble"
                   PROVE  disk.tier \in {"T2", "T3"} /\ <<"review", disk.tier>> \in drv.ran
      OBVIOUS
    <3>2. PICK j \in DOMAIN PhasesFor[disk.tier] : j < i /\ p(j) = "review"
      BY <1>d, <2>2, <3>1, AssembleAfterReview
    <3>3. j \notin Remaining
      <4>1. i \in Nat /\ j \in Nat
        BY <1>d, <2>2, <3>2, PlacesAreNumbers
      <4> QED
        BY <2>1, <3>2, <4>1
    <3>4. RanKey("review", disk.tier) \in drv.ran
      BY <3>2, <3>3 DEF Remaining
    <3> QED
      BY <1>d, <2>2, <3>1, <3>4, AssembleAfterReview DEF RanKey, TierScoped
  <2>6. Reached(drv.key)'
    <3>1. Rank[disk.tier] <= Rank[disk.tier]
      BY <1>d, Ranks
    <3> QED
      BY <1>d, <2>3, <2>4, <3>1 DEF Reached, Tier
  <2> HIDE DEF p
  <2>7. KeyInv'
    <3>1. \A k \in drv.ran : k[2] \in Tier => Rank[k[2]] <= Rank[disk.tier]
      BY DEF DoneInv, RanInv, Reached
    <3>2. "assemble" \in TierScoped
      BY DEF TierScoped
    <3> QED
      BY <1>d, <2>2, <2>3, <2>4, <2>5, <2>6, <3>1, <3>2 DEF KeyInv
  <2>8. RanInv' /\ RanDelivers'
    BY <1>d, <2>3 DEF DoneInv, RanInv, Reached, RanDelivers
  <2>9. WorkHasTree' /\ PlanOnce' /\ BodyInv' /\ LeavingInv'
    BY <1>d, <2>3 DEF DoneInv, WorkHasTree, PlanOnce, BodyInv, LeavingInv
  <2> QED
    BY <2>7, <2>8, <2>9 DEF DoneInv
<1> QED
  BY <1>1, <1>2

-----------------------------------------------------------------------------
(* The phases' bodies again. *)

LEMMA DonePlanning ==
    ASSUME IInv, IInv', TierUp, DoneInv,
           Classify \/ ClassifyGivesUp \/ Ask \/ Answered \/ WriteSpec \/ Explore \/ Plan
             \/ RenderContract \/ ApprovePilot \/ FreezeContract \/ Research
    PROVE  DoneInv'
<1>t. disk \in Disk /\ drv \in Driver
  BY DEF IInv, TypeOK
<1>w. SameWork => Unharmed /\ WorkHasTree'
  BY SameWorkIsUnharmed
<1>1. CASE Classify \/ WriteSpec \/ Explore \/ RenderContract \/ FreezeContract \/ Research
  <2>1. SameWork
    BY <1>1, <1>t DEF Classify, WriteSpec, Explore, RenderContract, FreezeContract, Research,
                      SameWork, Disk
  <2>2. /\ drv.proc = "body" /\ End("done")
        /\ drv.phase \in {"classify", "intake", "explore", "plan", "pilot", "research"}
    BY <1>1 DEF Classify, WriteSpec, Explore, RenderContract, FreezeContract, Research, In
  <2> QED
    BY <1>w, <2>1, <2>2, DoneEnds
<1>2. CASE ClassifyGivesUp
  <2>1. disk'.work = disk.work /\ disk'.tree = disk.tree
    BY <1>2, <1>t DEF ClassifyGivesUp, Disk
  <2> QED
    BY <1>2, <2>1, DoneReturns DEF ClassifyGivesUp
<1>3. CASE Ask
  <2>1. SameWork
    BY <1>3, <1>t DEF Ask, SameWork, Disk
  <2>2. /\ drv.proc = "body" /\ drv.phase # "plan" /\ To("asked")
        /\ drv.phase = "assemble" => drv.at = "triage"
    BY <1>3 DEF Ask, In
  <2> QED
    BY <1>w, <2>1, <2>2, DoneMoves DEF DoneInv, BodyInv, SameWork
<1>4. CASE Answered
  <2>1. SameWork /\ drv.proc = "body" /\ drv.at = "asked" /\ To("answered")
    BY <1>4 DEF Answered, SameWork
  <2>2. drv.phase # "plan"
    BY <2>1 DEF DoneInv, PlanOnce
  <2> QED
    BY <1>w, <2>1, <2>2, DoneMoves DEF DoneInv, BodyInv, SameWork
<1>5. CASE ApprovePilot
  <2>1. SameWork
    BY <1>5, <1>t DEF ApprovePilot, SameWork, Disk
  <2>2. drv.proc = "body" /\ drv.phase = "pilot" /\ To("freeze")
    BY <1>5 DEF ApprovePilot, In
  <2> QED
    BY <1>w, <2>1, <2>2, DoneMoves
<1>6. CASE Plan
  <2>1. drv.proc = "body" /\ drv.phase = "plan" /\ drv.at = "begin" /\ To("contract")
    BY <1>6 DEF Plan, In
  <2>2. disk.work # "complete"
    BY <2>1 DEF DoneInv, PlanOnce, WorkHasTree
  <2>3. /\ disk'.work = "open" /\ disk'.direct = disk.direct
        /\ disk'.document = disk.document
    BY <1>6, <1>t DEF Plan, Disk
  <2>4. Unharmed /\ WorkHasTree'
    BY <2>2, <2>3 DEF Unharmed, WorkHasTree
  <2> QED
    BY <2>1, <2>4, DoneMoves
<1> QED
  BY <1>1, <1>2, <1>3, <1>4, <1>5, <1>6

LEMMA DoneExecuting ==
    ASSUME IInv, IInv', TierUp, DoneInv,
           ExecuteDirect \/ Verify \/ ExecuteTree \/ Rounds \/ RoundsWithoutTree
             \/ PromoteOversized \/ PromoteSplit \/ Settle \/ RaiseTier
    PROVE  DoneInv'
<1>t. disk \in Disk /\ drv \in Driver
  BY DEF IInv, TypeOK
<1>w. SameWork => Unharmed /\ WorkHasTree'
  BY SameWorkIsUnharmed
<1>b. drv.proc = "body"
  BY DEF ExecuteDirect, Verify, ExecuteTree, Rounds, RoundsWithoutTree, PromoteOversized,
         PromoteSplit, Settle, RaiseTier, In
<1>1. ASSUME NEW d \in Direct, disk' = [disk EXCEPT !.direct = d]
      PROVE  Unharmed /\ WorkHasTree' /\ disk'.direct = d
  BY <1>1, <1>t DEF Direct, Unharmed, WorkHasTree, DoneInv, Disk
<1>2. CASE ExecuteDirect
  <2>1. drv.phase = "execute" /\ drv.seen = "T0" /\ End("done")
    BY <1>2 DEF ExecuteDirect, In
  <2>2. Rank[drv.key[2]] <= Rank["T0"]
    BY <1>b, <2>1 DEF DoneInv, BodyInv
  <2>3. drv.key[2] # "T1"
    BY <2>2 DEF Rank
  <2>4. Unharmed /\ WorkHasTree'
    BY <1>1, <1>2 DEF ExecuteDirect
  <2> QED
    BY <1>b, <2>1, <2>3, <2>4, DoneEnds
<1>3. CASE Verify
  <2>1. drv.phase = "verify"
    BY <1>3 DEF Verify, In
  <2>2. PICK d \in Direct : /\ disk' = [disk EXCEPT !.direct = d]
                            /\ IF d = "oversize" THEN To("raise")
                               ELSE End(IF d = "complete" THEN "done" ELSE "escalated")
    BY <1>3 DEF Verify
  <2>3. Unharmed /\ WorkHasTree' /\ disk'.direct = d
    BY <1>1, <2>2
  <2>4. CASE d = "oversize"
    BY <1>b, <2>1, <2>2, <2>3, <2>4, DoneMoves
  <2>5. CASE d = "complete"
    BY <1>b, <2>1, <2>2, <2>3, <2>5, DoneEnds
  <2>6. CASE d \notin {"oversize", "complete"}
    <3>1. End("escalated")
      BY <2>2, <2>6
    <3> QED
      BY <1>b, <2>3, <3>1, DoneEnds
  <2> QED
    BY <2>4, <2>5, <2>6
<1>4. CASE ExecuteTree
  <2>1. drv.phase = "execute" /\ To("rounds")
    BY <1>4 DEF ExecuteTree, In
  <2>2. /\ disk'.direct = disk.direct /\ disk'.document = disk.document
        /\ \/ disk'.work = disk.work /\ disk'.tree = disk.tree
           \/ disk.tree = "none" /\ disk'.work = "open"
    BY <1>4, <1>t DEF ExecuteTree, Disk
  <2>3. Unharmed /\ WorkHasTree'
    BY <2>2 DEF Unharmed, WorkHasTree, DoneInv
  <2> QED
    BY <1>b, <2>1, <2>3, DoneMoves
<1>5. CASE Rounds
  <2>1. drv.phase = "execute" /\ To("settle") /\ disk.tree # "none"
    BY <1>5 DEF Rounds, In
  <2>2. /\ disk'.direct = disk.direct /\ disk'.document = disk.document
        /\ disk'.tree = disk.tree /\ (disk.work = "complete" => disk'.work = "complete")
    <3>1. PICK w \in IF disk.work # "open" THEN {disk.work}
                     ELSE IF drv.seen = "T1" THEN WorkState ELSE WorkState \ {"oversize"} :
              \E grafted \in IF disk.work = "open" /\ drv.seen \in {"T2", "T3"} THEN BOOLEAN
                             ELSE {FALSE} :
                 disk' = [disk EXCEPT !.work = w, !.split = @ \/ grafted]
      BY <1>5 DEF Rounds
    <3>2. PICK s : disk' = [disk EXCEPT !.work = w, !.split = s]
      BY <3>1
    <3>3. disk.work = "complete" => w = "complete"
      BY <3>1
    <3> QED
      BY <1>t, <3>2, <3>3 DEF Disk
  <2>3. Unharmed /\ WorkHasTree'
    BY <2>1, <2>2 DEF Unharmed, WorkHasTree
  <2> QED
    BY <1>b, <2>1, <2>3, DoneMoves
<1>6. CASE RoundsWithoutTree
  BY <1>6, DoneReturns DEF RoundsWithoutTree
<1>7. CASE PromoteOversized
  <2>1. drv.phase = "execute" /\ To("raise") /\ disk.work = "oversize"
    BY <1>7 DEF PromoteOversized, Oversized, In
  <2>2. disk'.direct = disk.direct /\ disk'.document = disk.document /\ disk'.work = "open"
    BY <1>7, <1>t DEF PromoteOversized, Disk
  <2>3. Unharmed /\ WorkHasTree'
    BY <2>1, <2>2 DEF Unharmed, WorkHasTree
  <2> QED
    BY <1>b, <2>1, <2>3, DoneMoves
<1>8. CASE PromoteSplit
  <2>1. drv.phase = "execute" /\ To("raise")
    BY <1>8 DEF PromoteSplit, In
  <2>2. SameWork
    BY <1>8, <1>t DEF PromoteSplit, SameWork, Disk
  <2> QED
    BY <1>b, <1>w, <2>1, <2>2, DoneMoves
<1>9. CASE Settle
  <2>1. drv.phase = "execute" /\ SameWork /\ drv.at = "settle"
    BY <1>9 DEF Settle, In, SameWork
  <2>2. CASE disk.work = "complete"
    BY <1>9, <1>b, <1>w, <2>1, <2>2, DoneEnds DEF Settle
  <2>3. CASE disk.work # "complete"
    <3>1. End("escalated")
      BY <1>9, <2>3 DEF Settle
    <3> QED
      BY <1>b, <1>w, <2>1, <3>1, DoneEnds
  <2> QED
    BY <2>2, <2>3
<1>10. CASE RaiseTier
  <2>1. PICK target \in {"T2", "T3"} : disk' = [disk EXCEPT !.tier = Escalate(disk.tier, target)]
    BY <1>10 DEF RaiseTier
  <2>2. drv.phase # "classify" /\ drv.phase # "assemble" /\ End("done")
    BY <1>10, <1>b DEF RaiseTier, IInv, HighPhase, DoneInv, BodyInv
  <2>3. disk.tier \in Tier
    BY <1>b, <2>2 DEF IInv, HighPhase
  <2>4. disk'.tier \notin {"T0", "T1"} /\ SameWork
    <3>1. Escalate(disk.tier, target) \notin {"T0", "T1"}
      BY <2>3 DEF Escalate, Tier, Rank
    <3> QED
      BY <1>t, <2>1, <3>1 DEF SameWork, Disk
  <2> QED
    BY <1>b, <1>w, <2>2, <2>4, DoneEnds
<1> QED
  BY <1>2, <1>3, <1>4, <1>5, <1>6, <1>7, <1>8, <1>9, <1>10

LEMMA DoneReviewing ==
    ASSUME IInv, IInv', TierUp, DoneInv,
           ReviewPasses \/ ReviewEscalates \/ ReviewRegenerates \/ ReviewRepairs
             \/ AssembleFails \/ Assemble \/ TriageAnswered
    PROVE  DoneInv'
<1>t. disk \in Disk /\ drv \in Driver
  BY DEF IInv, TypeOK
<1>w. SameWork => Unharmed /\ WorkHasTree'
  BY SameWorkIsUnharmed
<1>b. drv.proc = "body"
  BY DEF ReviewPasses, ReviewEscalates, ReviewRegenerates, ReviewAtT2, ReviewRepairs,
         AssembleFails, Assemble, TriageAnswered, In
<1>1. CASE ReviewPasses \/ ReviewEscalates
  <2>1. SameWork /\ drv.phase = "review"
    BY <1>1 DEF ReviewPasses, ReviewEscalates, SameWork, In
  <2> QED
    BY <1>1, <1>b, <1>w, <2>1, DoneEnds DEF ReviewPasses, ReviewEscalates
<1>2. CASE ReviewRegenerates
  <2>1. SameWork
    BY <1>2, <1>t DEF ReviewRegenerates, SameWork, Disk
  <2>2. drv.phase = "review" /\ To("raise")
    BY <1>2 DEF ReviewRegenerates, ReviewAtT2, In
  <2> QED
    BY <1>b, <1>w, <2>1, <2>2, DoneMoves
<1>3. ASSUME disk' \in Repaired,
             (drv.phase = "review" /\ disk.tier = "T2") \/ drv.phase = "assemble"
      PROVE  Unharmed /\ WorkHasTree'
  <2>1. /\ disk'.tree = disk.tree /\ disk'.direct = disk.direct
        /\ disk'.document = disk.document /\ disk'.work \in {disk.work, "blocked"}
    BY <1>3, <1>t DEF Repaired, Disk
  <2> QED
    BY <1>3, <1>b, <2>1 DEF Unharmed, WorkHasTree, DoneInv
<1>4. CASE ReviewRepairs
  <2>1. drv.phase = "review" /\ disk.tier = "T2" /\ disk' \in Repaired /\ End("done")
    BY <1>4 DEF ReviewRepairs, ReviewAtT2, In
  <2> QED
    BY <1>b, <1>3, <2>1, DoneEnds
<1>5. CASE AssembleFails
  <2>1. drv.phase = "assemble" /\ disk' \in Repaired /\ End("escalated")
    BY <1>5 DEF AssembleFails, In
  <2> QED
    BY <1>b, <1>3, <2>1, DoneEnds
<1>6. CASE Assemble
  <2>1. /\ drv.phase = "assemble" /\ disk.work = "complete"
        /\ disk' = [disk EXCEPT !.document = TRUE] /\ (End("done") \/ To("triage"))
    BY <1>6 DEF Assemble, In
  <2>2. /\ disk'.tree = disk.tree /\ disk'.direct = disk.direct /\ disk'.document
        /\ disk'.work = "complete"
    BY <1>t, <2>1 DEF Disk
  <2>3. Unharmed /\ WorkHasTree'
    BY <2>1, <2>2 DEF Unharmed, WorkHasTree, DoneInv
  <2> QED
    BY <1>b, <2>1, <2>2, <2>3, DoneEnds, DoneMoves
<1>7. CASE TriageAnswered
  <2>1. drv.phase = "assemble" /\ drv.at = "answered"
    BY <1>7 DEF TriageAnswered, In
  <2>2. CASE End("done") /\ UNCHANGED disk
    <3>1. SameWork /\ disk.work = "complete" /\ disk.document
      BY <1>b, <2>1, <2>2 DEF SameWork, DoneInv, BodyInv
    <3>2. disk'.work = "complete" /\ disk'.document
      BY <2>2, <3>1
    <3> QED
      BY <1>b, <1>w, <2>1, <2>2, <3>1, <3>2, DoneEnds
  <2>3. CASE disk' \in Repaired /\ To("reassemble")
    BY <1>b, <1>3, <2>1, <2>3, DoneMoves
  <2> QED
    BY <1>7, <2>2, <2>3 DEF TriageAnswered
<1> QED
  BY <1>1, <1>2, <1>4, <1>5, <1>6, <1>7

LEMMA DoneStep ==
    ASSUME IInv, DoneInv, ~Racing, [Next]_vars
    PROVE  DoneInv'
<1>1. CASE UNCHANGED vars
  BY <1>1 DEF DoneInv, WorkHasTree, PlanOnce, RanInv, KeyInv, Live, BodyInv, LeavingInv,
              RanDelivers, Reached, vars
<1>2. CASE Next
  <2>1. IInv' /\ TierUp
    BY <1>2, StepInv
  <2>2. CASE Start \/ SkipPhase \/ EnterPhase \/ TryHalted \/ BeginBody \/ BodyRaises
               \/ Leave \/ LeaveOverspent \/ RunCompletes \/ ChooseWithoutTier
    BY <2>1, <2>2, DoneLoop
  <2>3. CASE Choose
    BY <2>3, DoneChoose
  <2>4. CASE Body
    BY <2>1, <2>4, DonePlanning, DoneExecuting, DoneReviewing DEF Body
  <2>5. CASE Crash \/ Overspend \/ RunLate \/ Operating
    BY <2>1, <2>5, DoneAround
  <2> QED
    BY <1>2, <2>2, <2>3, <2>4, <2>5 DEF Next, Driving
<1> QED
  BY <1>1, <1>2

(* Only RunCompletes reports "done".                                        *)
LEMMA FinalStep ==
    ASSUME TypeOK, Next, drv.proc = "choosing", drv'.proc = "returned", drv'.report = "done"
    PROVE  RunCompletes
<1>t. drv \in Driver
  BY DEF TypeOK
<1>1. ASSUME NEW report, Return(report), report # "done" PROVE FALSE
  BY <1>1 DEF Return, NoDriver
<1>2. ~Choose /\ ~ChooseWithoutTier
  BY <1>1, <1>t DEF Choose, ChooseWithoutTier, Driver
<1>3. ~Crash /\ ~RunLate /\ ~Overspend /\ ~Operating
  BY <1>t DEF Crash, RunLate, Overspend, Operating, Resolve, BeginEscalate, BeginOverride,
              SaveEdit, ToggleHalt, Redispatch, NoDriver, Driver
<1>4. ~Body
  BY DEF Body, Classify, ClassifyGivesUp, Ask, Answered, WriteSpec, Explore, Plan,
         RenderContract, ApprovePilot, FreezeContract, Research, ExecuteDirect, Verify,
         ExecuteTree, Rounds, RoundsWithoutTree, PromoteOversized, PromoteSplit, Settle,
         RaiseTier, ReviewPasses, ReviewEscalates, ReviewRegenerates, ReviewAtT2,
         ReviewRepairs, AssembleFails, Assemble, TriageAnswered, In
<1> QED
  BY <1>2, <1>3, <1>4 DEF Next, Driving, Start, SkipPhase, EnterPhase, TryHalted, BeginBody,
                          BodyRaises, Leave, LeaveOverspent

-----------------------------------------------------------------------------
(* The theorems.  They are about a run whose driver does not move while an
   edit of tier.json is under way: the file is not locked, and an edit that
   writes back what it read long ago may lower the tier.                    *)

(* Every value the driver, the run directory and an operator's edit take is
   one the program knows: the phases of RecursiveDriver.run, the tiers of
   tier.json and the attempts of _run_phase stay in their ranges for any
   number of restarts and edits.                                            *)
THEOREM TypeCorrect == ASSUME ~Racing PROVE Spec => []TypeOK
<1>1. IInv => TypeOK
  BY DEF IInv
<1> QED
  BY <1>1, Invariance, PTL

(* The tier in tier.json never falls and is never lost, whoever rewrites it:
   classify, the escalations of the driver, the operator's escalate_run and
   set_tier_override.                                                       *)
THEOREM TierOnlyRises == ASSUME ~Racing PROVE Spec => TierRises
<1>1. IInv /\ [Next]_vars => [TierUp]_vars
  BY StepInv
<1>2. [TierUp]_vars =>
        [disk.tier \in Tier => disk'.tier \in Tier /\ Rank[disk'.tier] >= Rank[disk.tier]]_vars
  BY DEF TierUp
<1> QED
  BY <1>1, <1>2, Invariance, PTL DEF Spec, TierRises

(* No phase, escalation, restart or edit throws away a planned tree.json, the
   contract of an approved pilot or a spec.md: what the promotions archive is
   T1's one-node tree and T2's scripted contract.                           *)
THEOREM NothingIsDiscarded == ASSUME ~Racing PROVE Spec => NothingDiscarded
<1>1. IInv /\ [Next]_vars => [Kept]_vars
  BY StepInv
<1>2. [Kept]_vars => [/\ disk.tree = "planned" => disk'.tree = "planned"
                      /\ disk.contract = "pilot" => disk'.contract = "pilot"
                      /\ disk.spec => disk'.spec]_vars
  BY DEF Kept
<1> QED
  BY <1>1, <1>2, Invariance, PTL DEF Spec, NothingDiscarded

(* A driver that reports "done" has delivered what the tier it ends at asks
   for: the verified node of T0, T1's tree, and beyond it the assembled
   document of a tree that is still complete.  A phase that was skipped as
   done, interrupted, or run for a lower tier does not stand in for it
   (pipeline/driver.py: run, `ran`).                                        *)
THEOREM DoneIsDelivered == ASSUME ~Racing PROVE Spec => DoneIsEarned
<1>1. IInv /\ DoneInv /\ [Next]_vars => DoneInv'
  BY DoneStep
<1>2. IInv /\ DoneInv /\ [Next]_vars =>
        [drv.proc = "choosing" /\ drv'.proc = "returned" /\ drv'.report = "done"
            => Delivered]_vars
  <2> SUFFICES ASSUME IInv, DoneInv, Next, drv.proc = "choosing",
                      drv'.proc = "returned", drv'.report = "done"
               PROVE  Delivered
    OBVIOUS
  <2>1. RunCompletes
    BY FinalStep DEF IInv
  <2>2. disk.tier \in Tier /\ Remaining = {}
    BY <2>1 DEF RunCompletes
  <2>3. \A i \in DOMAIN PhasesFor[disk.tier] :
           RanKey(PhasesFor[disk.tier][i], disk.tier) \in drv.ran
    BY <2>2 DEF Remaining
  <2>4. CASE disk.tier = "T0"
    <3>1. 3 \in DOMAIN PhasesFor["T0"] /\ PhasesFor["T0"][3] = "verify"
      BY DEF PhasesFor
    <3>2. <<"verify", "T0">> \in drv.ran
      BY <2>3, <2>4, <3>1 DEF RanKey, TierScoped
    <3> QED
      BY <2>4, <3>2 DEF DoneInv, RanDelivers, Delivered
  <2>5. CASE disk.tier = "T1"
    <3>1. 4 \in DOMAIN PhasesFor["T1"] /\ PhasesFor["T1"][4] = "execute"
      BY DEF PhasesFor
    <3>2. <<"execute", "T1">> \in drv.ran
      BY <2>3, <2>5, <3>1 DEF RanKey, TierScoped
    <3> QED
      BY <2>5, <3>2 DEF DoneInv, RanDelivers, WorkHasTree, Delivered
  <2>6. CASE disk.tier \in {"T2", "T3"}
    <3>1. /\ 7 \in DOMAIN PhasesFor["T2"] /\ PhasesFor["T2"][7] = "assemble"
          /\ 9 \in DOMAIN PhasesFor["T3"] /\ PhasesFor["T3"][9] = "assemble"
      BY DEF PhasesFor
    <3>2. <<"assemble", disk.tier>> \in drv.ran
      BY <2>3, <2>6, <3>1 DEF RanKey, TierScoped
    <3> QED
      BY <2>6, <3>2 DEF DoneInv, RanDelivers, WorkHasTree, Delivered
  <2> QED
    BY <2>2, <2>4, <2>5, <2>6 DEF Tier
<1> QED
  BY <1>1, <1>2, DoneInit, Invariance, PTL DEF Spec, DoneIsEarned
===============================================================================
