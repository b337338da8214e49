--------------------------- MODULE Preparation_proofs ---------------------------
(***************************************************************************)
(* Theorems about what is done before the first node is written, for every *)
(* bound and every answer of the models: what the operator was asked and   *)
(* said is in the spec (Intake), what a probe found reaches its leaf       *)
(* (Research), and no unit of the source is lost or given out twice        *)
(* (Survey, Planning, Slicing).  Each of these has an invariant of its     *)
(* own.  What the recursive functions of Survey, Planning and Slicing      *)
(* compute is shown by induction on how far they have come (UpTo).         *)
(***************************************************************************)
EXTENDS MCPreparation, FiniteSetTheorems, SequenceTheorems, WellFoundedInduction, TLAPS

-----------------------------------------------------------------------------
(* The least and the greatest of a set of numbers. *)

LEMMA LeastOf ==
    ASSUME NEW N, N \subseteq Nat, N # {}
    PROVE  \E least \in N : \A k \in N : least <= k
<1> DEFINE R == OpToRel(<, Nat)
<1>1. IsWellFoundedOn(R, Nat)
  BY NatLessThanWellFounded
<1>2. \A j, k \in Nat : j < k <=> <<j, k>> \in R
  BY DEF OpToRel
<1> HIDE DEF R
<1>3. \E least \in N : \A k \in N : ~(<<k, least>> \in R)
  BY <1>1, WFMin
<1>4. PICK least \in N : \A k \in N : ~(<<k, least>> \in R)
  BY <1>3
<1>5. \A k \in N : least <= k
  <2> TAKE k \in N
  <2>1. k \in Nat /\ least \in Nat /\ ~(k < least)
    BY <1>2, <1>4
  <2> QED
    BY <2>1
<1> QED
  BY <1>4, <1>5

LEMMA GreatestOf ==
    ASSUME NEW n \in Nat, NEW N, N \subseteq 1..n, N # {}
    PROVE  \E greatest \in N : \A k \in N : k <= greatest
<1>1. PICK least \in {n - k : k \in N} : \A j \in {n - k : k \in N} : least <= j
  <2>1. \A k \in N : n - k \in Nat
    OBVIOUS
  <2>2. {n - k : k \in N} \subseteq Nat
    BY <2>1
  <2>3. PICK k \in N : TRUE
    OBVIOUS
  <2>4. n - k \in {n - j : j \in N}
    OBVIOUS
  <2> QED
    BY <2>2, <2>4, LeastOf
<1>2. PICK g \in N : least = n - g
  BY <1>1
<1>3. \A k \in N : n - g <= n - k /\ k \in 1..n /\ g \in 1..n
  BY <1>1, <1>2
<1>4. \A k \in N : k <= g
  BY <1>3
<1> QED
  BY <1>4

-----------------------------------------------------------------------------
(* Intake: types. *)

Asked == [id : Ids, text : Nat]
Forms == [asks : Seq(Asked), objects : BOOLEAN]
Replies == UNION {[D -> Nat] : D \in SUBSET Ids}
Approved == [round : 0..2, form : Forms, status : {"pending", "resolved"}, answers : Replies]
Intaking == [at : {"begin", "round", "asking", "waiting", "writing", "filling", "ended"},
             round : 0..2, form : Forms, ask : Nat, answers : Replies,
             assumed : SUBSET Nat, objects : BOOLEAN, asked : SUBSET Asked]
Frozen == [state : {"none", "empty", "whole"}, answers : Replies, assumed : SUBSET Nat,
           objects : BOOLEAN]

IntakeTyped ==
    /\ merged \in Forms /\ approvals \in Seq(Approved) /\ spec \in Frozen
    /\ intake \in Intaking /\ sets \in 0..MaxSets

(* What is in hand of a question: its assumption, or an answer.             *)
Stated(q) == q.text \in intake.assumed \/ q.id \in DOMAIN intake.answers

(* A round waits for an approval of its own; a question that was put has    *)
(* been answered or assumed.                                                *)
IntakeInv ==
    /\ IntakeTyped
    /\ intake.ask <= Len(approvals)
    /\ intake.at = "waiting" =>
          intake.ask \in DOMAIN approvals /\ approvals[intake.ask].round = intake.round
    /\ intake.at # "ended" => \A q \in intake.asked : Stated(q)
    /\ Asking!NothingUnstated /\ Asking!AskedOnce

LEMMA NoReplies == <<>> \in Replies /\ DOMAIN <<>> = {}
<1>1. <<>> \in [{} -> Nat]
  OBVIOUS
<1> QED
  BY <1>1 DEF Replies

LEMMA IntakeEnds == Asking!Ended \in Intaking /\ Asking!Fresh \in Intaking
<1>1. <<>> \in Seq(Asked)
  OBVIOUS
<1>2. Asking!Ended \in Intaking
  BY <1>1, NoReplies DEF Asking!Ended, Asking!NoSet, Intaking, Forms
<1> QED
  BY <1>2 DEF Asking!Fresh, Intaking

LEMMA IntakeMoves ==
    ASSUME NEW x \in Intaking, NEW r \in 0..2,
           NEW stage \in {"begin", "round", "asking", "waiting", "writing", "filling", "ended"}
    PROVE  [x EXCEPT !.at = stage, !.round = r] \in Intaking
BY DEF Intaking

LEMMA FormsBuilt ==
    ASSUME NEW n \in Nat PROVE Asking!SetsBuilt(n) \subseteq Forms
<1> SUFFICES ASSUME NEW ids \in Asking!SeqOf(Ids, PerRound), NEW o \in BOOLEAN
             PROVE  [asks |-> [i \in DOMAIN ids |-> [id |-> ids[i], text |-> PerRound * n + i]],
                     objects |-> o] \in Forms
  BY DEF Asking!SetsBuilt
<1>1. PICK m \in 0..PerRound : ids \in [1..m -> Ids]
  BY DEF Asking!SeqOf
<1>2. PerRound \in Nat /\ PerRound * n \in Nat
  BY PreparationAssumption DEF Asking!IntakeAssumption
<1>3. \A i \in 1..m : PerRound * n + i \in Nat
  BY <1>2
<1>4. [i \in DOMAIN ids |-> [id |-> ids[i], text |-> PerRound * n + i]] \in Seq(Asked)
  BY <1>1, <1>3 DEF Asked
<1> QED
  BY <1>4 DEF Forms

LEMMA IntakeStarts == Asking!IntakeInit => IntakeInv
<1> SUFFICES ASSUME Asking!IntakeInit PROVE IntakeInv
  OBVIOUS
<1>1. merged \in Forms
  BY FormsBuilt DEF Asking!IntakeInit
<1>2. sets \in 0..MaxSets
  BY PreparationAssumption DEF Asking!IntakeInit, Asking!IntakeAssumption
<1>3. <<>> \in Seq(Asked) /\ <<>> \in Seq(Approved)
  OBVIOUS
<1>4. /\ intake = [at |-> "begin", round |-> 0, form |-> [asks |-> <<>>, objects |-> FALSE],
                   ask |-> 0, answers |-> <<>>, assumed |-> {}, objects |-> FALSE, asked |-> {}]
      /\ spec = [state |-> "none", answers |-> <<>>, assumed |-> {}, objects |-> FALSE]
      /\ approvals = <<>>
  BY DEF Asking!IntakeInit, Asking!Fresh, Asking!Ended, Asking!NoSpec, Asking!NoSet
<1>5. intake \in Intaking /\ spec \in Frozen
  BY <1>3, <1>4, NoReplies DEF Intaking, Frozen, Forms
<1> QED
  BY <1>1, <1>2, <1>3, <1>4, <1>5
     DEF IntakeInv, IntakeTyped, Asking!NothingUnstated, Asking!AskedOnce

-----------------------------------------------------------------------------
(* Intake: the steps.  Begin, TakeMerged and Build only move the intake on. *)

LEMMA IntakeOpens ==
    ASSUME IntakeInv, Asking!Begin \/ Asking!FoundDone
    PROVE  IntakeInv' /\ ~(intake.round = 1 /\ intake'.round = 2)
<1> USE DEF IntakeInv, IntakeTyped
<1>1. CASE Asking!Begin
  <2>0. /\ intake' = [intake EXCEPT !.at = IF waived THEN "writing" ELSE "round", !.round = 1]
        /\ intake.at = "begin" /\ UNCHANGED <<waived, merged, approvals, spec, sets>>
    BY <1>1 DEF Asking!Begin, Asking!Becomes
  <2>1. PICK stage \in {"writing", "round"} :
           intake' = [intake EXCEPT !.at = stage, !.round = 1]
    BY <2>0
  <2>2. intake' \in Intaking
    <3>1. intake \in Intaking /\ 1 \in 0..2
      OBVIOUS
    <3> HIDE DEF IntakeInv, IntakeTyped
    <3> QED
      BY <2>1, <3>1, IntakeMoves
  <2>3. /\ intake'.at \in {"writing", "round"} /\ intake'.ask = intake.ask
        /\ intake'.asked = intake.asked /\ intake'.assumed = intake.assumed
        /\ intake'.answers = intake.answers /\ intake'.round = 1
    BY <2>1 DEF Intaking
  <2> QED
    BY <2>0, <2>2, <2>3 DEF Stated, Asking!NothingUnstated, Asking!AskedOnce
<1>2. CASE Asking!FoundDone
  <2>1. /\ intake' = [at |-> "ended", round |-> 0, form |-> [asks |-> <<>>, objects |-> FALSE],
                      ask |-> 0, answers |-> <<>>, assumed |-> {}, objects |-> FALSE, asked |-> {}]
        /\ UNCHANGED <<waived, merged, approvals, spec, sets>>
    BY <1>2 DEF Asking!FoundDone, Asking!Becomes, Asking!Ended, Asking!NoSet
  <2>3. intake' \in Intaking
    BY <1>2, IntakeEnds DEF Asking!FoundDone, Asking!Becomes
  <2>4. Len(approvals) \in Nat
    OBVIOUS
  <2> QED
    BY <2>1, <2>3, <2>4 DEF Asking!NothingUnstated, Asking!AskedOnce
<1> QED
  BY <1>1, <1>2

LEMMA IntakeTakes ==
    ASSUME IntakeInv, Asking!TakeMerged \/ Asking!Build
    PROVE  IntakeInv' /\ ~(intake.round = 1 /\ intake'.round = 2)
<1> USE DEF IntakeInv, IntakeTyped
<1>1. PICK form \in Forms : intake' = Asking!Take(form)
  <2>1. CASE Asking!TakeMerged
    BY <2>1 DEF Asking!TakeMerged, Asking!Becomes
  <2>2. CASE Asking!Build
    <3>1. PICK form \in Asking!SetsBuilt(sets + 1) : intake' = Asking!Take(form)
      BY <2>2 DEF Asking!Build, Asking!Becomes
    <3>2. sets + 1 \in Nat
      BY PreparationAssumption DEF Asking!IntakeAssumption
    <3> QED
      BY <3>1, <3>2, FormsBuilt
  <2> QED
    BY <2>1, <2>2
<1>2. /\ intake.at = "round" /\ UNCHANGED <<waived, merged, approvals, spec>>
      /\ sets' \in 0..MaxSets
  BY PreparationAssumption
     DEF Asking!TakeMerged, Asking!Build, Asking!Becomes, Asking!IntakeAssumption
<1>3. /\ intake' \in Intaking /\ intake'.at \in {"writing", "asking"}
      /\ intake'.ask = intake.ask /\ intake'.asked = intake.asked
      /\ intake'.assumed = intake.assumed /\ intake'.answers = intake.answers
      /\ intake'.round = intake.round
  BY <1>1 DEF Asking!Take, Intaking, Forms
<1> QED
  BY <1>2, <1>3 DEF Stated, Asking!NothingUnstated, Asking!AskedOnce

(* A form goes to the approval that is there, or to one of its own.         *)
LEMMA IntakeAsks ==
    ASSUME IntakeInv, Asking!Ask
    PROVE  IntakeInv' /\ ~(intake.round = 1 /\ intake'.round = 2)
<1> USE DEF IntakeInv, IntakeTyped
<1>0. /\ intake.at = "asking" /\ UNCHANGED <<waived, merged, spec, sets>>
      /\ \E k : intake' = [intake EXCEPT !.at = "waiting", !.ask = k]
  BY DEF Asking!Ask, Asking!Becomes
<1>1. CASE Asking!Pending(intake) # {}
  <2> DEFINE asks == Asking!Pending(intake)
  <2>1. asks \subseteq Nat /\ asks \subseteq DOMAIN approvals
        /\ \A k \in asks : approvals[k].round = intake.round
    BY DEF Asking!Pending
  <2>2. Asking!Min(asks) \in asks
    <3> HIDE DEF asks
    <3>1. \E least \in asks : \A k \in asks : least <= k
      BY <1>1, <2>1, LeastOf DEF asks
    <3> QED
      BY <3>1 DEF Asking!Min
  <2>3. PICK k \in asks : k = Asking!Min(asks)
    BY <2>2
  <2>4. /\ intake' = [intake EXCEPT !.at = "waiting", !.ask = k]
        /\ approvals' = approvals
    BY <1>1, <2>3 DEF Asking!Ask, Asking!Becomes
  <2>5. /\ intake' \in Intaking /\ intake'.at = "waiting" /\ intake'.ask = k
        /\ intake'.asked = intake.asked /\ intake'.assumed = intake.assumed
        /\ intake'.answers = intake.answers /\ intake'.round = intake.round
    BY <2>1, <2>4 DEF Intaking
  <2>6. k \in DOMAIN approvals /\ approvals[k].round = intake.round /\ k <= Len(approvals)
    BY <2>1
  <2> QED
    BY <1>0, <2>4, <2>5, <2>6 DEF Stated, Asking!NothingUnstated, Asking!AskedOnce
<1>2. CASE Asking!Pending(intake) = {}
  <2> DEFINE put == [round |-> intake.round, form |-> intake.form, status |-> "pending",
                     answers |-> <<>>]
  <2>1. put \in Approved /\ put.round = intake.round /\ put.form = intake.form
    BY NoReplies DEF Intaking, Approved
  <2>2. approvals' = Append(approvals, put)
        /\ intake' = [intake EXCEPT !.at = "waiting", !.ask = Len(approvals')]
    BY <1>2 DEF Asking!Ask, Asking!Becomes
  <2> HIDE DEF put
  <2>3. /\ approvals' \in Seq(Approved) /\ Len(approvals') = Len(approvals) + 1
        /\ Len(approvals) \in Nat
        /\ approvals'[Len(approvals')] = put
        /\ \A k \in DOMAIN approvals : approvals'[k] = approvals[k]
        /\ DOMAIN approvals' = DOMAIN approvals \cup {Len(approvals')}
    BY <2>1, <2>2
  <2>4. /\ intake' \in Intaking /\ intake'.at = "waiting" /\ intake'.ask = Len(approvals')
        /\ intake'.asked = intake.asked /\ intake'.assumed = intake.assumed
        /\ intake'.answers = intake.answers /\ intake'.round = intake.round
    <3>1. PICK k \in Nat : k = Len(approvals')
      BY <2>3
    <3>2. intake' = [intake EXCEPT !.at = "waiting", !.ask = k]
      BY <2>2, <3>1
    <3> QED
      BY <3>1, <3>2 DEF Intaking
  <2>5. Asking!AskedOnce'
    <3>1. \A k \in DOMAIN approvals :
             ~(/\ approvals[k].status = "pending" /\ approvals[k].round = put.round
               /\ approvals[k].form.objects = put.form.objects)
      BY <1>2, <2>1 DEF Asking!Pending
    <3> QED
      BY <2>3, <3>1 DEF Asking!AskedOnce
  <2>6. intake'.ask \in DOMAIN approvals' /\ approvals'[intake'.ask].round = intake'.round
        /\ intake'.ask <= Len(approvals')
    BY <2>1, <2>3, <2>4
  <2> QED
    BY <1>0, <2>3, <2>4, <2>5, <2>6 DEF Stated, Asking!NothingUnstated
<1> QED
  BY <1>1, <1>2

(* The answers of an operator are numbers under ids of the form.            *)
LEMMA IntakeResolves ==
    ASSUME IntakeInv, NEW k \in DOMAIN approvals, Asking!Resolve(k)
    PROVE  IntakeInv' /\ ~(intake.round = 1 /\ intake'.round = 2)
<1> USE DEF IntakeInv, IntakeTyped
<1>0. UNCHANGED <<waived, merged, spec, intake, sets>>
  BY DEF Asking!Resolve
<1>1. approvals[k] \in Approved
  OBVIOUS
<1>2. PICK asks \in Seq(Asked) : asks = approvals[k].form.asks
  BY <1>1 DEF Approved, Forms
<1>3. PICK given \in SUBSET DOMAIN asks :
         approvals' = [approvals EXCEPT ![k].status = "resolved",
                                        ![k].answers = Asking!Replied(asks, given)]
  BY <1>2 DEF Asking!Resolve
<1>4. ASSUME NEW id \in {asks[i].id : i \in given}
      PROVE  id \in Ids /\ asks[Asking!Max({i \in given : asks[i].id = id})].text \in Nat
  <2> DEFINE those == {i \in given : asks[i].id = id}
  <2>1. those \subseteq 1..Len(asks) /\ Len(asks) \in Nat
    OBVIOUS
  <2>2. those # {}
    BY <1>4
  <2>3. Asking!Max(those) \in those
    <3> HIDE DEF those
    <3>1. PICK g \in those : \A i \in those : i <= g
      BY <2>1, <2>2, GreatestOf
    <3>2. \A i \in those : g >= i
      <4>1. \A i \in those : i \in Nat /\ g \in Nat
        BY <2>1
      <4> QED
        BY <3>1, <4>1
    <3> QED
      BY <3>2 DEF Asking!Max
  <2>4. PICK i \in those : i = Asking!Max(those)
    BY <2>3
  <2>5. asks[i] \in Asked
    BY <2>1, <2>4
  <2> QED
    BY <2>4, <2>5 DEF Asked
<1>5. PICK replies \in Replies : replies = Asking!Replied(asks, given)
  <2>1. {asks[i].id : i \in given} \in SUBSET Ids
    BY <1>4
  <2>2. [id \in {asks[i].id : i \in given} |->
            asks[Asking!Max({i \in given : asks[i].id = id})].text]
        \in [{asks[i].id : i \in given} -> Nat]
    BY <1>4
  <2> QED
    BY <2>1, <2>2 DEF Replies, Asking!Replied
<1>6. approvals' = [approvals EXCEPT ![k].status = "resolved", ![k].answers = replies]
  BY <1>3, <1>5
<1>7. /\ approvals'[k] \in Approved /\ approvals'[k].status = "resolved"
      /\ approvals'[k].round = approvals[k].round
      /\ \A i \in DOMAIN approvals : i # k => approvals'[i] = approvals[i]
      /\ DOMAIN approvals' = DOMAIN approvals
  BY <1>1, <1>6 DEF Approved
<1>8. approvals' \in Seq(Approved) /\ Len(approvals') = Len(approvals)
  <2>1. approvals' = [approvals EXCEPT ![k] = approvals'[k]]
    BY <1>6
  <2> QED
    BY <1>7, <2>1
<1>9. Asking!AskedOnce'
  BY <1>7 DEF Asking!AskedOnce
<1>10. intake.at = "waiting" => approvals'[intake.ask].round = intake.round
  BY <1>7
<1> QED
  BY <1>0, <1>7, <1>8, <1>9, <1>10 DEF Stated, Asking!NothingUnstated, Intaking

(* A question that was put to the operator has his answer, or becomes an    *)
(* assumption; what was stated before stays so.                             *)
LEMMA IntakeHears ==
    ASSUME IntakeInv, Asking!Hear
    PROVE  /\ IntakeInv'
           /\ intake.round = 1 /\ intake'.round = 2
                 => \E k \in DOMAIN approvals :
                       approvals[k].round = 1 /\ DOMAIN approvals[k].answers # {}
<1> USE DEF IntakeInv, IntakeTyped
<1>0. intake.at = "waiting" /\ UNCHANGED <<waived, merged, approvals, spec, sets>>
  BY DEF Asking!Hear, Asking!Becomes
<1>1. PICK k \in DOMAIN approvals : k = intake.ask
  BY <1>0
<1>2. approvals[k] \in Approved /\ approvals[k].round = intake.round
  BY <1>0, <1>1
<1>3. PICK answers \in Replies : answers = approvals[k].answers
  BY <1>2 DEF Approved
<1>4. PICK asks \in Seq(Asked) : asks = intake.form.asks
  BY DEF Intaking, Forms
<1> DEFINE given == {i \in DOMAIN asks : asks[i].id \in DOMAIN answers}
           told == [id \in {asks[i].id : i \in given} |-> answers[id]]
<1>5. PICK replies \in Replies :
         /\ replies = Asking!Updated(intake.answers, told)
         /\ DOMAIN replies = DOMAIN intake.answers \cup {asks[i].id : i \in given}
  <2>1. PICK known \in SUBSET Ids : intake.answers \in [known -> Nat]
    BY DEF Intaking, Replies
  <2>2. PICK D \in SUBSET Ids : answers \in [D -> Nat]
    BY DEF Replies
  <2>3. PICK new \in SUBSET D : new = {asks[i].id : i \in given}
    BY <2>2
  <2>4. told \in [new -> Nat]
    BY <2>2, <2>3
  <2> HIDE DEF told, given
  <2>5. Asking!Updated(intake.answers, told) \in [known \cup new -> Nat]
    BY <2>1, <2>4 DEF Asking!Updated
  <2>6. known \cup new \in SUBSET Ids
    OBVIOUS
  <2> QED
    BY <2>1, <2>3, <2>5, <2>6 DEF Replies
<1>6. PICK assumed \in SUBSET Nat :
         assumed = intake.assumed \cup {asks[i].text : i \in DOMAIN asks \ given}
  <2>1. \A i \in DOMAIN asks : asks[i].text \in Nat
    <3>1. \A i \in DOMAIN asks : asks[i] \in Asked
      OBVIOUS
    <3> QED
      BY <3>1 DEF Asked
  <2>2. intake.assumed \subseteq Nat
    BY DEF Intaking
  <2> QED
    BY <2>1, <2>2
<1>7. PICK asked \in SUBSET Asked : asked = intake.asked \cup {asks[i] : i \in DOMAIN asks}
  <2>1. \A i \in DOMAIN asks : asks[i] \in Asked
    OBVIOUS
  <2>2. intake.asked \subseteq Asked
    BY DEF Intaking
  <2> QED
    BY <2>1, <2>2
<1>8. Asking!Heard(intake, asks, answers)
      = [intake EXCEPT !.answers = replies, !.assumed = assumed, !.asked = asked]
  <2>1. Asking!Heard(intake, asks, answers)
        = [intake EXCEPT !.answers = Asking!Updated(@, told), !.assumed = assumed,
                         !.asked = asked]
    BY <1>6, <1>7, Zenon DEF Asking!Heard, Asking!ToSet
  <2> HIDE DEF told, given
  <2> QED
    BY <1>5, <2>1
<1>9. \A q \in asked : q.text \in assumed \/ q.id \in DOMAIN replies
  <2>1. \A q \in intake.asked : q.text \in intake.assumed \/ q.id \in DOMAIN intake.answers
    BY <1>0 DEF Stated
  <2>2. ASSUME NEW i \in DOMAIN asks
        PROVE  asks[i].text \in assumed \/ asks[i].id \in DOMAIN replies
    BY <1>5, <1>6
  <2> QED
    BY <1>5, <1>6, <1>7, <2>1, <2>2
<1>10. <<>> \in Seq(Asked) /\ Asking!NoSet \in Forms
  <2>1. <<>> \in Seq(Asked)
    OBVIOUS
  <2> QED
    BY <2>1 DEF Asking!NoSet, Forms
<1>11. PICK none \in Forms : none = Asking!NoSet
  BY <1>10
<1>12. PICK heard \in Intaking :
          /\ heard = Asking!Heard(intake, asks, answers)
          /\ heard.answers = replies /\ heard.assumed = assumed /\ heard.asked = asked
          /\ heard.round = intake.round
  <2> HIDE DEF told, given
  <2> QED
    BY <1>5, <1>6, <1>7, <1>8 DEF Intaking
<1> HIDE DEF told, given
<1>13. CASE Asking!GoesOn(intake, answers)
  <2>1. intake' = [heard EXCEPT !.at = "round", !.round = @ + 1, !.form = none, !.ask = 0]
    BY <1>1, <1>3, <1>4, <1>11, <1>12, <1>13 DEF Asking!Hear, Asking!Becomes
  <2>2. PICK next \in 0..2 : next = heard.round + 1
    <3>1. intake.round < 2 /\ intake.round \in 0..2
      BY <1>13 DEF Asking!GoesOn, Asking!MaxRounds, Intaking
    <3> QED
      BY <1>12, <3>1
  <2>3. /\ intake' \in Intaking /\ intake'.at = "round" /\ intake'.ask = 0
        /\ intake'.answers = replies /\ intake'.assumed = assumed /\ intake'.asked = asked
    <3>1. intake' = [heard EXCEPT !.at = "round", !.round = next, !.form = none, !.ask = 0]
      BY <2>1, <2>2
    <3> QED
      BY <1>12, <3>1 DEF Intaking
  <2>4. DOMAIN answers # {}
    BY <1>13 DEF Asking!GoesOn
  <2> QED
    BY <1>0, <1>2, <1>3, <1>9, <2>3, <2>4 DEF Stated, Asking!NothingUnstated, Asking!AskedOnce
<1>14. CASE ~Asking!GoesOn(intake, answers)
  <2>1. intake' = [heard EXCEPT !.at = "writing", !.form = none, !.ask = 0]
    BY <1>1, <1>3, <1>4, <1>11, <1>12, <1>14 DEF Asking!Hear, Asking!Becomes
  <2>2. /\ intake' \in Intaking /\ intake'.at = "writing" /\ intake'.ask = 0
        /\ intake'.answers = replies /\ intake'.assumed = assumed /\ intake'.asked = asked
        /\ intake'.round = intake.round
    BY <1>12, <2>1 DEF Intaking
  <2> QED
    BY <1>0, <1>9, <2>2 DEF Stated, Asking!NothingUnstated, Asking!AskedOnce
<1> QED
  BY <1>13, <1>14

(* spec.md is emptied and filled; a kill leaves the approvals and the file. *)
LEMMA IntakeWrites ==
    ASSUME IntakeInv, Asking!Truncate \/ Asking!Fill \/ Asking!Kill
    PROVE  IntakeInv' /\ ~(intake.round = 1 /\ intake'.round = 2)
<1> USE DEF IntakeInv, IntakeTyped
<1>1. CASE Asking!Truncate
  <2>1. /\ intake' = [intake EXCEPT !.at = "filling"] /\ intake.at = "writing"
        /\ spec' = [state |-> "empty", answers |-> <<>>, assumed |-> {}, objects |-> FALSE]
        /\ UNCHANGED <<waived, merged, approvals, sets>>
    BY <1>1 DEF Asking!Truncate, Asking!Becomes, Asking!NoSpec
  <2>2. spec' \in Frozen
    BY <2>1, NoReplies DEF Frozen
  <2>3. /\ intake' \in Intaking /\ intake'.at = "filling" /\ intake'.ask = intake.ask
        /\ intake'.asked = intake.asked /\ intake'.assumed = intake.assumed
        /\ intake'.answers = intake.answers /\ intake'.round = intake.round
    BY <2>1 DEF Intaking
  <2> QED
    BY <2>1, <2>2, <2>3 DEF Stated, Asking!NothingUnstated, Asking!AskedOnce
<1>2. CASE Asking!Fill
  <2>1. /\ intake' = [intake EXCEPT !.at = "ended"] /\ intake.at = "filling"
        /\ spec' = [state |-> "whole", answers |-> intake.answers,
                    assumed |-> intake.assumed, objects |-> intake.objects]
        /\ UNCHANGED <<waived, merged, approvals, sets>>
    BY <1>2 DEF Asking!Fill, Asking!Becomes
  <2>2. spec' \in Frozen
    BY <2>1 DEF Frozen, Intaking
  <2>3. /\ intake' \in Intaking /\ intake'.at = "ended" /\ intake'.ask = intake.ask
        /\ intake'.asked = intake.asked /\ intake'.objects = intake.objects
        /\ intake'.round = intake.round
    BY <2>1 DEF Intaking
  <2> QED
    BY <2>1, <2>2, <2>3 DEF Stated, Asking!NothingUnstated, Asking!AskedOnce
<1>3. CASE Asking!Kill
  <2>1. intake' = Asking!Fresh /\ UNCHANGED <<waived, merged, approvals, spec, sets>>
    BY <1>3 DEF Asking!Kill
  <2>2. /\ intake' \in Intaking /\ intake'.at = "begin" /\ intake'.ask = 0
        /\ intake'.asked = {} /\ intake'.round = 0
    BY <2>1, IntakeEnds DEF Asking!Fresh, Asking!Ended
  <2>3. Len(approvals) \in Nat
    OBVIOUS
  <2> QED
    BY <2>1, <2>2, <2>3 DEF Asking!NothingUnstated, Asking!AskedOnce
<1> QED
  BY <1>1, <1>2, <1>3

LEMMA IntakeStep ==
    ASSUME IntakeInv, [Asking!IntakeNext]_intakeVars
    PROVE  /\ IntakeInv'
           /\ intake.round = 1 /\ intake'.round = 2
                 => \E k \in DOMAIN approvals :
                       approvals[k].round = 1 /\ DOMAIN approvals[k].answers # {}
<1>1. CASE UNCHANGED intakeVars
  BY <1>1 DEF intakeVars, IntakeInv, IntakeTyped, Stated, Asking!NothingUnstated,
              Asking!AskedOnce
<1>2. CASE Asking!IntakeNext
  BY <1>2, IntakeOpens, IntakeTakes, IntakeAsks, IntakeResolves, IntakeHears, IntakeWrites
     DEF Asking!IntakeNext
<1> QED
  BY <1>1, <1>2

(* The phases share no variable: a step of another one leaves this one as   *)
(* it was, and it starts in a state of its own.                             *)
LEMMA IntakeFollowed ==
    /\ MCInit => Asking!IntakeInit
    /\ [MCNext]_allVars => [Asking!IntakeNext]_intakeVars
<1>1. MCInit => Asking!IntakeInit
  BY DEF MCInit
<1>2. MCNext => [Asking!IntakeNext]_intakeVars
  BY DEF MCNext
<1>3. UNCHANGED allVars => UNCHANGED intakeVars
  BY DEF allVars
<1> QED
  BY <1>1, <1>2, <1>3

(* Over any order of answers, silences, kills and resumes: spec.md, once it *)
(* is whole, states an answer or an assumption for every question that was  *)
(* put to the operator and what was objected to him; he never has two forms *)
(* of one round before him; and he is asked a second round only when he     *)
(* answered something of the first.                                         *)
THEOREM IntakeIsAlwaysHonest == MCSpec => IntakeIsHonest
<1>1. MCInit => IntakeInv
  BY IntakeFollowed, IntakeStarts
<1>2. IntakeInv /\ [MCNext]_allVars => IntakeInv'
  BY IntakeFollowed, IntakeStep
<1>3. IntakeInv => Asking!IntakeTypeOK /\ Asking!NothingUnstated /\ Asking!AskedOnce
  <2> SUFFICES ASSUME IntakeInv PROVE Asking!IntakeTypeOK
    BY DEF IntakeInv
  <2>1. intake.round \in 0..2 /\ intake.ask \in 0..Len(approvals)
    BY DEF IntakeInv, IntakeTyped, Intaking
  <2>2. DOMAIN intake.answers \subseteq Ids
    <3>1. PICK D \in SUBSET Ids : intake.answers \in [D -> Nat]
      BY DEF IntakeInv, IntakeTyped, Intaking, Replies
    <3> QED
      BY <3>1
  <2> QED
    BY <2>1, <2>2
       DEF IntakeInv, IntakeTyped, Frozen, Asking!IntakeTypeOK, Asking!MaxRounds
<1>4. IntakeInv /\ [MCNext]_allVars
         => [(intake.round = 1 /\ intake'.round = 2) =>
                \E a \in DOMAIN approvals :
                   approvals[a].round = 1 /\ DOMAIN approvals[a].answers # {}]_(Asking!intakeVars)
  BY IntakeFollowed, IntakeStep
<1> QED
  BY <1>1, <1>2, <1>3, <1>4, PTL DEF MCSpec, IntakeIsHonest, Asking!SilenceEnds

-----------------------------------------------------------------------------
(* Probes: what a job stands for. *)

Stages == {"explore", "exploring", "early", "plan", "save_tree", "research", "researching",
           "done", "failed"}
KeyOf(i) == Probes!Key(batch[i])

(* A job that came to nothing had no answer in its file, unless another one *)
(* of the same name has it.                                                 *)
ProbesInv ==
    /\ at \in Stages /\ DOMAIN jobs = DOMAIN batch
    /\ IsFiniteSet(Probes!Running) /\ Cardinality(Probes!Running) <= MaxParallel
    /\ found \subseteq completed /\ attached \subseteq found
    /\ \A i \in DOMAIN jobs :
          /\ jobs[i] = "found" => KeyOf(i) \in found
          /\ jobs[i] \in {"silent", "said"} => KeyOf(i) \in completed
          /\ jobs[i] = "missed" /\ KeyOf(i) \in raw \ bypassed =>
                \E j \in DOMAIN jobs :
                   KeyOf(j) = KeyOf(i) /\ jobs[j] \in {"silent", "said", "found"}

LEMMA SlotsThere == MaxParallel \in Nat /\ MaxParallel >= 1
BY PreparationAssumption DEF Probes!ResearchAssumption

LEMMA SameCount == ASSUME NEW S PROVE Probes!Cardinality(S) = Cardinality(S)
BY Zenon DEF Probes!Cardinality, Cardinality

LEMMA NoneRun ==
    ASSUME NEW S, S = {} PROVE IsFiniteSet(S) /\ Cardinality(S) <= MaxParallel
<1>1. IsFiniteSet({}) /\ Cardinality({}) = 0
  BY FS_EmptySet
<1> QED
  BY <1>1, SlotsThere

LEMMA ProbesStart == Probes!Init => ProbesInv
<1> SUFFICES ASSUME Probes!Init PROVE ProbesInv
  OBVIOUS
<1>1. jobs = <<>> /\ batch = <<>> /\ found = {} /\ attached = {} /\ at = "explore"
  BY DEF Probes!Init
<1>2. DOMAIN jobs = {} /\ DOMAIN batch = {}
  BY <1>1
<1>3. Probes!Running = {}
  BY <1>2 DEF Probes!Running
<1> QED
  BY <1>1, <1>2, <1>3, NoneRun DEF ProbesInv, Stages

(* A batch is begun, or dropped.                                            *)
LEMMA ProbesBegun ==
    ASSUME ProbesInv, at' \in Stages, DOMAIN jobs' = DOMAIN batch',
           \A i \in DOMAIN jobs' : jobs'[i] = "waiting",
           UNCHANGED <<completed, found, attached>>
    PROVE  ProbesInv'
<1>1. Probes!Running' = {}
  BY DEF Probes!Running
<1> QED
  BY <1>1, NoneRun DEF ProbesInv

LEMMA ProbesPlanned ==
    ASSUME NEW plan, NEW where \in Stages, NEW next \in Stages, Probes!RunPlan(plan, where, next)
    PROVE  /\ at' \in Stages /\ DOMAIN jobs' = DOMAIN batch'
           /\ \A i \in DOMAIN jobs' : jobs'[i] = "waiting"
<1>1. DOMAIN <<>> = {}
  OBVIOUS
<1>2. CASE Probes!Begin(plan, where)
  BY <1>2 DEF Probes!Begin
<1>3. CASE at' \in {next, "failed"} /\ batch' = <<>> /\ jobs' = <<>>
  BY <1>1, <1>3 DEF Stages
<1> QED
  BY <1>2, <1>3 DEF Probes!RunPlan

LEMMA ProbesPhases ==
    ASSUME ProbesInv,
           \/ Probes!Explore \/ Probes!ExploreEnds \/ Probes!PlanCall \/ Probes!SaveTree
           \/ Probes!Research \/ Probes!Refuse \/ Probes!Resume
    PROVE  ProbesInv'
<1>0. DOMAIN <<>> = {}
  OBVIOUS
<1>1. ASSUME at' \in Stages, UNCHANGED <<batch, jobs, completed, raw, found, attached, bypassed>>
      PROVE  ProbesInv'
  BY <1>1 DEF ProbesInv, KeyOf, Probes!Running
<1>2. CASE Probes!Explore
  <2>1. CASE Probes!Begin(Probes!Structural, "exploring")
    BY <1>2, <2>1, ProbesBegun DEF Probes!Explore, Probes!Begin, Probes!files, Stages
  <2>2. CASE at' = "plan" /\ UNCHANGED <<batch, jobs>>
    BY <1>1, <1>2, <2>2 DEF Probes!Explore, Probes!files, Stages
  <2> QED
    BY <1>2, <2>1, <2>2 DEF Probes!Explore
<1>3. CASE Probes!ExploreEnds
  BY <1>3, ProbesPlanned, ProbesBegun DEF Probes!ExploreEnds, Probes!files, Stages
<1>4. CASE Probes!PlanCall
  BY <1>1, <1>4 DEF Probes!PlanCall, Probes!files, Stages
<1>5. CASE Probes!SaveTree
  BY <1>1, <1>5 DEF Probes!SaveTree, Probes!files, Stages
<1>6. CASE Probes!Research
  <2>1. \E plan : Probes!RunPlan(plan, "researching", "done")
    BY <1>6 DEF Probes!Research
  <2>2. /\ at' \in Stages /\ DOMAIN jobs' = DOMAIN batch'
        /\ \A i \in DOMAIN jobs' : jobs'[i] = "waiting"
    BY <2>1, ProbesPlanned DEF Stages
  <2> QED
    BY <1>6, <2>2, ProbesBegun DEF Probes!Research, Probes!files
<1>7. CASE Probes!Refuse
  BY <1>0, <1>7, ProbesBegun DEF Probes!Refuse, Probes!files, Stages
<1>8. CASE Probes!Resume
  BY <1>0, <1>8, ProbesBegun DEF Probes!Resume, Stages
<1> QED
  BY <1>2, <1>3, <1>4, <1>5, <1>6, <1>7, <1>8

(* One job moves, and what it moves to is backed by a file.                 *)
LEMMA ProbesMove ==
    ASSUME ProbesInv, NEW i \in DOMAIN jobs, NEW s, jobs' = [jobs EXCEPT ![i] = s],
           jobs[i] \in {"waiting", "running", "silent", "said"},
           batch' = batch, at' = at, attached' = attached,
           completed \subseteq completed', found \subseteq found', found' \subseteq completed',
           bypassed' = bypassed,
           raw' \subseteq raw \cup (IF s = "silent" THEN {KeyOf(i)} ELSE {}),
           s = "running" => jobs[i] = "waiting" /\ Cardinality(Probes!Running) < MaxParallel,
           s = "found" => KeyOf(i) \in found',
           s \in {"silent", "said"} => KeyOf(i) \in completed',
           s = "missed" => KeyOf(i) \notin raw \ bypassed,
           jobs[i] \in {"silent", "said"} => KeyOf(i) \notin raw \/ s = "found"
    PROVE  ProbesInv'
<1>1. /\ DOMAIN jobs' = DOMAIN jobs /\ jobs'[i] = s
      /\ \A j \in DOMAIN jobs : j # i => jobs'[j] = jobs[j]
      /\ \A j \in DOMAIN jobs : KeyOf(j)' = KeyOf(j)
  BY DEF KeyOf
<1>2. IsFiniteSet(Probes!Running') /\ Cardinality(Probes!Running') <= MaxParallel
  <2>1. IsFiniteSet(Probes!Running) /\ Cardinality(Probes!Running) \in Nat
    BY FS_CardinalityType DEF ProbesInv
  <2>2. CASE s = "running"
    <3>1. Probes!Running' = Probes!Running \cup {i}
      BY <1>1, <2>2 DEF Probes!Running
    <3>2. i \notin Probes!Running
      BY <2>2 DEF Probes!Running
    <3>3. IsFiniteSet(Probes!Running \cup {i})
          /\ Cardinality(Probes!Running \cup {i}) = Cardinality(Probes!Running) + 1
      BY <2>1, <3>2, FS_AddElement
    <3> QED
      BY <2>1, <2>2, <3>1, <3>3, SlotsThere
  <2>3. CASE s # "running"
    <3>1. Probes!Running' \subseteq Probes!Running
      BY <1>1, <2>3 DEF Probes!Running
    <3>2. IsFiniteSet(Probes!Running') /\ Cardinality(Probes!Running') <= Cardinality(Probes!Running)
          /\ Cardinality(Probes!Running') \in Nat
      BY <2>1, <3>1, FS_Subset, FS_CardinalityType
    <3> QED
      BY <2>1, <3>2, SlotsThere DEF ProbesInv
  <2> QED
    BY <2>2, <2>3
<1>3. ASSUME NEW j \in DOMAIN jobs, jobs'[j] = "missed", KeyOf(j) \in raw' \ bypassed
      PROVE  \E k \in DOMAIN jobs :
                KeyOf(k) = KeyOf(j) /\ jobs'[k] \in {"silent", "said", "found"}
  <2>1. CASE KeyOf(j) = KeyOf(i) /\ s \in {"silent", "said", "found"}
    BY <1>1, <2>1
  <2>2. CASE ~(KeyOf(j) = KeyOf(i) /\ s \in {"silent", "said", "found"})
    <3>1. KeyOf(j) \in raw \ bypassed
      BY <1>3, <2>2
    <3>2. j # i
      BY <1>1, <1>3, <3>1
    <3>3. PICK k \in DOMAIN jobs :
             KeyOf(k) = KeyOf(j) /\ jobs[k] \in {"silent", "said", "found"}
      BY <1>1, <1>3, <3>1, <3>2 DEF ProbesInv
    <3>4. k # i
      BY <2>2, <3>1, <3>3
    <3> QED
      BY <1>1, <3>3, <3>4
  <2> QED
    BY <2>1, <2>2
<1>4. \A j \in DOMAIN jobs :
         /\ jobs'[j] = "found" => KeyOf(j) \in found'
         /\ jobs'[j] \in {"silent", "said"} => KeyOf(j) \in completed'
  BY <1>1 DEF ProbesInv
<1> QED
  BY <1>1, <1>2, <1>3, <1>4 DEF ProbesInv

LEMMA ProbesJobs ==
    ASSUME ProbesInv, Probes!StartProbe \/ Probes!EpisodeEnds \/ Probes!WriteFinding
    PROVE  ProbesInv'
<1> USE DEF Probes!Set, Probes!files, KeyOf
<1>1. CASE Probes!StartProbe
  <2>1. PICK i \in Probes!NextUp :
           Probes!Set(i, IF Probes!Key(batch[i]) \in found THEN "found"
                         ELSE IF Probes!Key(batch[i]) \in bypassed THEN "missed"
                         ELSE IF Probes!Key(batch[i]) \in completed THEN "silent" ELSE "running")
    BY <1>1 DEF Probes!StartProbe
  <2>2. i \in DOMAIN jobs /\ jobs[i] = "waiting" /\ Cardinality(Probes!Running) < MaxParallel
    BY SameCount DEF Probes!NextUp, Probes!Waiting, Probes!Held
  <2>3. PICK s : /\ jobs' = [jobs EXCEPT ![i] = s]
                 /\ s \in {"found", "missed", "silent", "running"}
                 /\ s = "found" => KeyOf(i) \in found
                 /\ s = "missed" => KeyOf(i) \in bypassed
                 /\ s = "silent" => KeyOf(i) \in completed
    <3>1. PICK s : s = IF Probes!Key(batch[i]) \in found THEN "found"
                       ELSE IF Probes!Key(batch[i]) \in bypassed THEN "missed"
                       ELSE IF Probes!Key(batch[i]) \in completed THEN "silent" ELSE "running"
      OBVIOUS
    <3>2. jobs' = [jobs EXCEPT ![i] = s]
      BY <2>1, <3>1
    <3>3. /\ s \in {"found", "missed", "silent", "running"}
          /\ s = "found" => KeyOf(i) \in found
          /\ s = "missed" => KeyOf(i) \in bypassed
          /\ s = "silent" => KeyOf(i) \in completed
      BY <3>1
    <3> HIDE DEF Probes!Set, Probes!files, KeyOf
    <3> QED
      BY <3>2, <3>3
  <2>4. /\ batch' = batch /\ at' = at /\ attached' = attached /\ completed' = completed
        /\ found' = found /\ bypassed' = bypassed /\ raw' = raw /\ found \subseteq completed
    BY <1>1 DEF Probes!StartProbe, ProbesInv
  <2> HIDE DEF KeyOf
  <2> QED
    BY <2>2, <2>3, <2>4, ProbesMove
<1>2. CASE Probes!EpisodeEnds
  <2>1. PICK i \in Probes!Running :
           /\ completed' = completed \cup {Probes!Key(batch[i])}
           /\ \/ Probes!Set(i, "silent") /\ raw' \in {raw, raw \cup {Probes!Key(batch[i])}}
              \/ Probes!Set(i, "said") /\ UNCHANGED raw
    BY <1>2 DEF Probes!EpisodeEnds
  <2>2. i \in DOMAIN jobs /\ jobs[i] = "running"
    BY DEF Probes!Running
  <2>3. PICK s \in {"silent", "said"} :
           /\ jobs' = [jobs EXCEPT ![i] = s]
           /\ raw' \subseteq raw \cup (IF s = "silent" THEN {KeyOf(i)} ELSE {})
    BY <2>1
  <2>4. /\ batch' = batch /\ at' = at /\ attached' = attached /\ completed \subseteq completed'
        /\ found' = found /\ bypassed' = bypassed /\ found' \subseteq completed'
        /\ KeyOf(i) \in completed'
    BY <1>2, <2>1 DEF Probes!EpisodeEnds, ProbesInv
  <2> HIDE DEF KeyOf
  <2> QED
    BY <2>2, <2>3, <2>4, ProbesMove
<1>3. CASE Probes!WriteFinding
  <2>1. PICK i \in DOMAIN jobs :
           /\ jobs[i] \in {"said", "silent"}
           /\ found' = IF Probes!HasText(i) THEN found \cup {Probes!Key(batch[i])} ELSE found
           /\ Probes!Set(i, IF Probes!HasText(i) THEN "found" ELSE "missed")
    BY <1>3 DEF Probes!WriteFinding
  <2>2. PICK s \in {"found", "missed"} :
           /\ jobs' = [jobs EXCEPT ![i] = s]
           /\ s = "found" => KeyOf(i) \in found'
           /\ s = "missed" => jobs[i] # "said" /\ KeyOf(i) \notin raw
    BY <2>1 DEF Probes!HasText
  <2>3. /\ batch' = batch /\ at' = at /\ attached' = attached /\ completed' = completed
        /\ bypassed' = bypassed /\ raw' = raw
    BY <1>3 DEF Probes!WriteFinding
  <2>4. KeyOf(i) \in completed
    BY <2>1 DEF ProbesInv
  <2>5. found \subseteq found' /\ found' \subseteq completed'
    BY <2>1, <2>3, <2>4 DEF ProbesInv
  <2> HIDE DEF KeyOf
  <2> QED
    BY <2>1, <2>2, <2>3, <2>5, ProbesMove
<1> QED
  BY <1>1, <1>2, <1>3

(* What the loop saves is each probe whose file holds its answer.           *)
LEMMA ProbesSaved ==
    ASSUME ProbesInv, Probes!SaveFindings
    PROVE  /\ ProbesInv'
           /\ \A i \in DOMAIN batch : KeyOf(i) \in raw \ bypassed => KeyOf(i) \in attached'
<1>1. /\ attached' = attached \cup {KeyOf(i) : i \in Probes!Attachable}
      /\ at' \in Stages /\ batch' = <<>> /\ jobs' = <<>>
      /\ UNCHANGED <<completed, raw, found, bypassed>>
      /\ \A i \in DOMAIN jobs : jobs[i] \in {"found", "missed"}
  BY DEF Probes!SaveFindings, Probes!Ended, KeyOf, Stages
<1>2. \A i \in DOMAIN jobs : jobs[i] = "found" => i \in Probes!Attachable
  BY DEF Probes!Attachable
<1>3. \A i \in DOMAIN batch : KeyOf(i) \in raw \ bypassed => KeyOf(i) \in attached'
  <2> SUFFICES ASSUME NEW i \in DOMAIN batch, KeyOf(i) \in raw \ bypassed
               PROVE  KeyOf(i) \in attached'
    OBVIOUS
  <2>1. PICK j \in DOMAIN jobs : KeyOf(j) = KeyOf(i) /\ jobs[j] = "found"
    BY <1>1 DEF ProbesInv
  <2> QED
    BY <1>1, <1>2, <2>1
<1>4. attached' \subseteq found
  <2>1. \A i \in Probes!Attachable : KeyOf(i) \in found
    BY DEF ProbesInv, Probes!Attachable
  <2> QED
    BY <1>1, <2>1 DEF ProbesInv
<1>5. DOMAIN jobs' = {} /\ DOMAIN batch' = {}
  BY <1>1
<1>6. Probes!Running' = {}
  BY <1>5 DEF Probes!Running
<1>7. ProbesInv'
  BY <1>1, <1>4, <1>5, <1>6, NoneRun DEF ProbesInv
<1> QED
  BY <1>3, <1>7

LEMMA ProbesStep ==
    ASSUME ProbesInv, [Probes!Next]_probeVars
    PROVE  /\ ProbesInv'
           /\ Probes!SaveFindings =>
                 \A i \in DOMAIN batch : KeyOf(i) \in raw \ bypassed => KeyOf(i) \in attached'
<1>1. CASE UNCHANGED probeVars
  BY <1>1, ProbesSaved DEF probeVars, ProbesInv, KeyOf, Probes!Running
<1>2. CASE Probes!Bypass
  <2>1. /\ UNCHANGED <<at, batch, jobs, completed, raw, found, attached>>
        /\ bypassed \subseteq bypassed'
    BY <1>2 DEF Probes!Bypass, Probes!files
  <2>2. ProbesInv'
    BY <2>1 DEF ProbesInv, KeyOf, Probes!Running
  <2> QED
    BY <2>2, ProbesSaved
<1>3. CASE Probes!Work \/ Probes!Resume
  BY <1>3, ProbesPhases, ProbesJobs, ProbesSaved DEF Probes!Work
<1> QED
  BY <1>1, <1>2, <1>3 DEF Probes!Next

LEMMA ProbesFollowed ==
    /\ MCInit => Probes!Init
    /\ [MCNext]_allVars => [Probes!Next]_probeVars
<1>1. MCInit => Probes!Init
  BY DEF MCInit
<1>2. MCNext => [Probes!Next]_probeVars
  BY DEF MCNext
<1>3. UNCHANGED allVars => UNCHANGED probeVars
  BY DEF allVars
<1> QED
  BY <1>1, <1>2, <1>3

(* The safety half of FindingsArrive, for every plan of probes, whether the *)
(* operator or the harness made it: never more probes run at once than the  *)
(* loop has slots for; a finding that a node is pointed to holds text; and  *)
(* when the loop saves, an answer that a probe had put into its file is     *)
(* attached, whatever was killed between the episode and the save, whichever *)
(* probes share a name, and whatever the operator let go meanwhile.         *)
THEOREM FindingsAreKept ==
    MCSpec => /\ [](Probes!TypeOK /\ Probes!AttachedIsFound)
              /\ Probes!FiledAnswerArrives
<1>1. MCInit => ProbesInv
  BY ProbesFollowed, ProbesStart
<1>2. ProbesInv /\ [MCNext]_allVars => ProbesInv'
  BY ProbesFollowed, ProbesStep
<1>3. ProbesInv => Probes!TypeOK /\ Probes!AttachedIsFound
  BY SameCount DEF ProbesInv, Stages, Probes!TypeOK, Probes!AttachedIsFound
<1>4. ProbesInv /\ [MCNext]_allVars
         => [Probes!SaveFindings => \A i \in DOMAIN batch :
                Probes!Key(batch[i]) \in raw \ bypassed
                   => Probes!Key(batch[i]) \in attached']_(Probes!researchVars)
  BY ProbesFollowed, ProbesStep DEF KeyOf
<1> QED
  BY <1>1, <1>2, <1>3, <1>4, PTL DEF MCSpec, Probes!FiledAnswerArrives

-----------------------------------------------------------------------------
(* Induction: a set of numbers that has 0, and each k whose predecessor it   *)
(* has, has all of them.  The recursive functions of the models, and what    *)
(* they compute, are reasoned about with it.                                 *)

LEMMA UpTo ==
    ASSUME NEW n \in Nat, NEW S, 0 \in S, \A k \in 1..n : k - 1 \in S => k \in S
    PROVE  \A k \in 0..n : k \in S
<1> DEFINE Bad == {k \in 0..n : k \notin S}
<1>1. SUFFICES ASSUME Bad # {} PROVE FALSE
  OBVIOUS
<1>2. Bad \subseteq Nat
  OBVIOUS
<1>3. PICK m \in Bad : \A k \in Bad : m <= k
  BY <1>1, <1>2, LeastOf
<1>4. m \in 1..n /\ m - 1 \in 0..n /\ ~(m <= m - 1)
  BY <1>3
<1>5. m - 1 \in S
  BY <1>3, <1>4
<1> QED
  BY <1>3, <1>4, <1>5

LEMMA Appended ==
    ASSUME NEW S, NEW s \in Seq(S), NEW e \in S
    PROVE  /\ Append(s, e) \in Seq(S) /\ Len(Append(s, e)) = Len(s) + 1
           /\ Append(s, e)[Len(s) + 1] = e
           /\ \A i \in 1..Len(s) : Append(s, e)[i] = s[i]
BY AppendProperties

LEMMA FirstOnes ==
    ASSUME NEW S, NEW s \in Seq(S), NEW n \in 0..Len(s)
    PROVE  /\ SubSeq(s, 1, n) \in Seq(S) /\ Len(SubSeq(s, 1, n)) = n
           /\ \A i \in 1..n : SubSeq(s, 1, n)[i] = s[i]
OBVIOUS

-----------------------------------------------------------------------------
(* Survey: what the folds make of ranges that tile the text. *)

Ranges == [lo : Nat, hi : Nat, tokens : Nat]

(* The ranges are all from one segment to another, each once and in order.   *)
Tiling(ranges, from, to) ==
    /\ ranges \in Seq(Ranges) /\ Len(ranges) >= 1
    /\ ranges[1].lo = from /\ ranges[Len(ranges)].hi = to
    /\ \A i \in 1..Len(ranges) : ranges[i].lo <= ranges[i].hi
    /\ \A i \in 1..Len(ranges) - 1 : ranges[i].hi + 1 = ranges[i + 1].lo

(* No range is under the limit, but perhaps the last.                        *)
Full(limit, ranges) == \A i \in 1..Len(ranges) - 1 : ranges[i].tokens >= limit

LEMMA FoldingUnfolds ==
    ASSUME NEW limit, NEW ranges \in Seq(Ranges), NEW k \in 0..Len(ranges)
    PROVE  Folding(limit, ranges)[k] =
             IF k = 0 THEN <<>> ELSE Fold(limit, Folding(limit, ranges)[k - 1], ranges[k])
<1> DEFINE Is(g, m) ==
        g = [j \in 0..m |-> IF j = 0 THEN <<>> ELSE Fold(limit, g[j - 1], ranges[j])]
    S == {m \in 0..Len(ranges) : \E g : Is(g, m)}
<1>1. Len(ranges) \in Nat
  OBVIOUS
<1>2. 0 \in S
  <2> DEFINE g == [j \in 0..0 |-> <<>>]
  <2>1. Is(g, 0)
    OBVIOUS
  <2> HIDE DEF g, Is
  <2> QED
    BY <1>1, <2>1
<1>3. ASSUME NEW m \in 1..Len(ranges), m - 1 \in S PROVE m \in S
  <2>1. PICK g : Is(g, m - 1)
    BY <1>3
  <2> DEFINE h == [j \in 0..m |-> IF j < m THEN g[j] ELSE Fold(limit, g[m - 1], ranges[m])]
  <2>2. \A j \in 0..m : h[j] = IF j = 0 THEN <<>> ELSE Fold(limit, h[j - 1], ranges[j])
    BY <2>1
  <2>3. Is(h, m)
    BY <2>2
  <2> HIDE DEF h, Is
  <2> QED
    BY <1>1, <2>3
<1> HIDE DEF Is
<1>4. PICK g : Is(g, Len(ranges))
  <2>1. \A m \in 0..Len(ranges) : m \in S
    BY <1>1, <1>2, <1>3, UpTo
  <2> QED
    BY <1>1, <2>1
<1>5. Folding(limit, ranges) = CHOOSE x : Is(x, Len(ranges))
  BY DEF Folding, Is
<1>6. Is(Folding(limit, ranges), Len(ranges))
  BY <1>4, <1>5
<1> QED
  BY <1>6 DEF Is

LEMMA FoldTiles ==
    ASSUME NEW limit \in Nat, NEW done, NEW from \in Nat, NEW to \in Nat, NEW next \in Ranges,
           Tiling(done, from, to), Full(limit, done), next.lo = to + 1, next.lo <= next.hi
    PROVE  /\ Tiling(Fold(limit, done, next), from, next.hi)
           /\ Full(limit, Fold(limit, done, next))
<1> DEFINE n == Len(done)
<1>1. done \in Seq(Ranges) /\ n \in Nat /\ n >= 1
  BY DEF Tiling
<1>2. CASE Last(done).tokens < limit
  <2> DEFINE last == Joined(done[n], next)
             after == Append(SubSeq(done, 1, n - 1), last)
  <2>1. done[n] \in Ranges
    BY <1>1
  <2>2. done[n].lo <= done[n].hi /\ done[n].hi = to
    BY <1>1 DEF Tiling
  <2>3. last \in Ranges /\ last.lo = done[n].lo /\ last.hi = next.hi /\ last.lo <= last.hi
    BY <2>1, <2>2 DEF Joined, Ranges
  <2>4. Fold(limit, done, next) = after
    BY <1>1, <1>2 DEF Fold, Last, Front
  <2> HIDE DEF last
  <2>5. /\ after \in Seq(Ranges) /\ Len(after) = n /\ after[n] = last
        /\ \A i \in 1..n - 1 : after[i] = done[i]
    <3>1. /\ SubSeq(done, 1, n - 1) \in Seq(Ranges) /\ Len(SubSeq(done, 1, n - 1)) = n - 1
          /\ \A i \in 1..n - 1 : SubSeq(done, 1, n - 1)[i] = done[i]
      <4>1. n - 1 \in 0..n
        BY <1>1
      <4> QED
        BY <1>1, <4>1, FirstOnes
    <3> QED
      BY <1>1, <2>3, <3>1, Appended
  <2> HIDE DEF after
  <2>6. after[1].lo = from
    BY <1>1, <2>3, <2>5 DEF Tiling
  <2>7. \A i \in 1..n : after[i].lo <= after[i].hi
    BY <1>1, <2>3, <2>5 DEF Tiling
  <2>8. \A i \in 1..n - 1 : after[i].hi + 1 = after[i + 1].lo
    BY <1>1, <2>3, <2>5 DEF Tiling
  <2>9. after[n].hi = next.hi /\ \A i \in 1..n - 1 : after[i].tokens >= limit
    BY <1>1, <2>3, <2>5 DEF Full
  <2> QED
    BY <1>1, <2>4, <2>5, <2>6, <2>7, <2>8, <2>9 DEF Tiling, Full
<1>3. CASE ~(Last(done).tokens < limit)
  <2> DEFINE after == Append(done, next)
  <2>1. Fold(limit, done, next) = after
    BY <1>3 DEF Fold
  <2>2. /\ after \in Seq(Ranges) /\ Len(after) = n + 1 /\ after[n + 1] = next
        /\ \A i \in 1..n : after[i] = done[i]
    BY <1>1, Appended
  <2> HIDE DEF after
  <2>3. done[n].tokens >= limit
    <3>1. done[n] \in Ranges /\ Last(done) = done[n]
      BY <1>1 DEF Last
    <3>2. done[n].tokens \in Nat
      BY <3>1 DEF Ranges
    <3> QED
      BY <1>3, <3>1, <3>2
  <2>4. after[1].lo = from /\ after[n].hi = to
    BY <1>1, <2>2 DEF Tiling
  <2>5. \A i \in 1..n + 1 : after[i].lo <= after[i].hi
    BY <1>1, <2>2 DEF Tiling
  <2>6. \A i \in 1..n : after[i].hi + 1 = after[i + 1].lo
    BY <1>1, <2>2, <2>4 DEF Tiling
  <2>7. \A i \in 1..n : after[i].tokens >= limit
    BY <1>1, <2>2, <2>3 DEF Full
  <2> QED
    BY <1>1, <2>1, <2>2, <2>4, <2>5, <2>6, <2>7 DEF Tiling, Full
<1> QED
  BY <1>2, <1>3

LEMMA FoldedTiles ==
    ASSUME NEW limit \in Nat, NEW ranges, NEW from \in Nat, NEW to \in Nat,
           Tiling(ranges, from, to)
    PROVE  Tiling(Folded(limit, ranges), from, to) /\ Full(limit, Folded(limit, ranges))
<1> DEFINE f == Folding(limit, ranges)
           n == Len(ranges)
           S == {k \in 0..n : k = 0 \/ (Tiling(f[k], from, ranges[k].hi) /\ Full(limit, f[k]))}
<1>1. ranges \in Seq(Ranges) /\ n \in Nat /\ n >= 1
  BY DEF Tiling
<1>2. \A k \in 0..n : f[k] = IF k = 0 THEN <<>> ELSE Fold(limit, f[k - 1], ranges[k])
  BY <1>1, FoldingUnfolds
<1> HIDE DEF f
<1>3. 0 \in S
  BY <1>1
<1>4. ASSUME NEW k \in 1..n, k - 1 \in S PROVE k \in S
  <2>1. ranges[k] \in Ranges /\ ranges[k].lo <= ranges[k].hi /\ ranges[k].hi \in Nat
    <3>1. ranges[k] \in Ranges
      BY <1>1
    <3> QED
      BY <3>1 DEF Tiling, Ranges
  <2>2. CASE k = 1
    <3>1. f[1] = <<ranges[1]>>
      <4>1. f[0] = <<>> /\ f[1] = Fold(limit, f[0], ranges[1])
        BY <1>1, <1>2
      <4> QED
        BY <4>1 DEF Fold
    <3>2. ranges[1].lo = from
      BY DEF Tiling
    <3>3. <<ranges[1]>> \in Seq(Ranges) /\ Len(<<ranges[1]>>) = 1 /\ <<ranges[1]>>[1] = ranges[1]
      BY <2>1, <2>2
    <3>4. Tiling(<<ranges[1]>>, from, ranges[1].hi) /\ Full(limit, <<ranges[1]>>)
      BY <2>1, <2>2, <3>2, <3>3 DEF Tiling, Full
    <3> QED
      BY <2>2, <3>1, <3>4
  <2>3. CASE k # 1
    <3>1. /\ k - 1 \in 1..n - 1
          /\ Tiling(f[k - 1], from, ranges[k - 1].hi) /\ Full(limit, f[k - 1])
      BY <1>1, <1>4, <2>3
    <3>2. ranges[k - 1].hi + 1 = ranges[k].lo
      BY <3>1 DEF Tiling
    <3>3. ranges[k - 1].hi \in Nat
      <4>1. ranges[k - 1] \in Ranges
        BY <1>1, <3>1
      <4> QED
        BY <4>1 DEF Ranges
    <3>4. f[k] = Fold(limit, f[k - 1], ranges[k])
      BY <1>1, <1>2
    <3> QED
      BY <2>1, <3>1, <3>2, <3>3, <3>4, FoldTiles
  <2> QED
    BY <2>2, <2>3
<1>5. n \in S
  <2>1. \A k \in 0..n : k \in S
    BY <1>1, <1>3, <1>4, UpTo
  <2> QED
    BY <1>1, <2>1
<1>6. Folded(limit, ranges) = f[n]
  BY DEF Folded, f
<1> QED
  BY <1>1, <1>5, <1>6 DEF Tiling

LEMMA FoldLastTiles ==
    ASSUME NEW limit \in Nat, NEW ranges, NEW from \in Nat, NEW to \in Nat,
           Tiling(ranges, from, to), Full(limit, ranges)
    PROVE  /\ Tiling(FoldLast(ranges, limit), from, to)
           /\ \A i \in 1..Len(FoldLast(ranges, limit)) :
                 FoldLast(ranges, limit)[i].tokens >= limit \/ Len(FoldLast(ranges, limit)) = 1
<1> DEFINE n == Len(ranges)
<1>1. ranges \in Seq(Ranges) /\ n \in Nat /\ n >= 1 /\ \A i \in 1..n : ranges[i] \in Ranges
  BY DEF Tiling
<1>2. CASE n > 1 /\ ranges[n].tokens < limit
  <2>0. n \in Nat /\ n > 1
    BY <1>1, <1>2
  <2> DEFINE last == Joined(ranges[n - 1], ranges[n])
             after == Append(SubSeq(ranges, 1, n - 2), last)
  <2>1. SubSeq(SubSeq(ranges, 1, n - 1), 1, n - 2) = SubSeq(ranges, 1, n - 2)
    BY <1>1, <1>2
  <2>2. /\ Front(ranges) = SubSeq(ranges, 1, n - 1) /\ Len(Front(ranges)) = n - 1
        /\ Front(Front(ranges)) = SubSeq(ranges, 1, n - 2)
        /\ Last(Front(ranges)) = ranges[n - 1] /\ Last(ranges) = ranges[n]
    BY <1>1, <1>2, <2>1 DEF Front, Last
  <2>3. FoldLast(ranges, limit) = after
    BY <1>2, <2>2 DEF FoldLast
  <2>4. /\ n - 1 \in 1..n /\ n \in 1..n
        /\ ranges[n - 1].tokens >= limit /\ ranges[n - 1].hi + 1 = ranges[n].lo
        /\ ranges[n - 1].lo <= ranges[n - 1].hi /\ ranges[n].lo <= ranges[n].hi
        /\ ranges[n].hi = to
    BY <1>1, <1>2 DEF Tiling, Full
  <2>5. /\ last \in Ranges /\ last.lo = ranges[n - 1].lo /\ last.hi = to /\ last.lo <= last.hi
        /\ last.tokens >= limit
    <3>1. ranges[n - 1] \in Ranges /\ ranges[n] \in Ranges
      BY <1>1, <2>4
    <3> QED
      BY <2>4, <3>1 DEF Joined, Ranges
  <2> HIDE DEF last
  <2>6. /\ after \in Seq(Ranges) /\ Len(after) = n - 1 /\ after[n - 1] = last
        /\ \A i \in 1..n - 2 : after[i] = ranges[i]
    <3>1. n - 2 \in 0..n
      BY <1>1, <1>2
    <3>2. /\ SubSeq(ranges, 1, n - 2) \in Seq(Ranges) /\ Len(SubSeq(ranges, 1, n - 2)) = n - 2
          /\ \A i \in 1..n - 2 : SubSeq(ranges, 1, n - 2)[i] = ranges[i]
      BY <1>1, <3>1, FirstOnes
    <3> QED
      BY <1>1, <2>5, <3>2, Appended
  <2> HIDE DEF after
  <2>7. Tiling(after, from, to)
    <3>1. after[1].lo = from /\ after[n - 1].hi = to
      <4>1. n - 1 = 1 \/ 1 \in 1..n - 2
        <5> HIDE DEF n
        <5> QED
          BY <2>0
      <4>2. ranges[1].lo = from
        BY DEF Tiling
      <4> QED
        BY <2>5, <2>6, <4>1, <4>2
    <3>2. \A i \in 1..n - 1 : after[i].lo <= after[i].hi
      <4>1. \A i \in 1..n - 1 : i \in 1..n /\ (i = n - 1 \/ i \in 1..n - 2)
        BY <2>0
      <4> QED
        BY <2>5, <2>6, <4>1 DEF Tiling
    <3>3. \A i \in 1..n - 2 : after[i].hi + 1 = after[i + 1].lo
      <4>1. \A i \in 1..n - 2 : i \in 1..n - 1 /\ (i + 1 = n - 1 \/ i + 1 \in 1..n - 2)
        BY <2>0
      <4>2. \A i \in 1..n - 1 : ranges[i].hi + 1 = ranges[i + 1].lo
        BY DEF Tiling
      <4> QED
        BY <2>5, <2>6, <4>1, <4>2
    <3> QED
      BY <1>1, <1>2, <2>6, <3>1, <3>2, <3>3 DEF Tiling
  <2>8. \A i \in 1..n - 1 : after[i].tokens >= limit
    <3>1. \A i \in 1..n - 1 : ranges[i].tokens >= limit
      BY DEF Full
    <3>2. \A i \in 1..n - 1 : i = n - 1 \/ (i \in 1..n - 2 /\ i \in 1..n - 1)
      <4> HIDE DEF n
      <4> QED
        BY <2>0
    <3>3. \A i \in 1..n - 2 : i \in 1..n - 1
      <4> HIDE DEF n
      <4> QED
        BY <2>0
    <3> HIDE DEF n
    <3> QED
      BY <2>5, <2>6, <3>1, <3>2, <3>3
  <2> QED
    BY <2>3, <2>6, <2>7, <2>8
<1>3. CASE ~(n > 1 /\ ranges[n].tokens < limit)
  <2>1. FoldLast(ranges, limit) = ranges
    BY <1>3 DEF FoldLast, Last
  <2>2. \A i \in 1..n : ranges[i].tokens >= limit \/ n = 1
    <3>1. ranges[n] \in Ranges
      BY <1>1
    <3>2. ranges[n].tokens \in Nat
      BY <3>1 DEF Ranges
    <3> QED
      <4>1. n = 1 \/ ranges[n].tokens >= limit
        BY <1>1, <1>3, <3>2
      <4>2. \A i \in 1..n - 1 : ranges[i].tokens >= limit
        BY DEF Full
      <4>3. \A i \in 1..n : i \in 1..n - 1 \/ i = n
        BY <1>1
      <4> QED
        BY <4>1, <4>2, <4>3
  <2> QED
    BY <2>1, <2>2
<1> QED
  BY <1>2, <1>3

-----------------------------------------------------------------------------
(* Survey: chunks and raw units. *)

LEMMA Tilings ==
    ASSUME NEW ranges, NEW from, NEW to, Tiling(ranges, from, to), NEW i \in 1..Len(ranges)
    PROVE  /\ ranges[i] \in Ranges /\ ranges[i].lo \in Nat /\ ranges[i].hi \in Nat
           /\ ranges[i].tokens \in Nat /\ ranges[i].lo <= ranges[i].hi
           /\ i < Len(ranges) => ranges[i].hi + 1 = ranges[i + 1].lo
<1>1. ranges[i] \in Ranges
  BY DEF Tiling
<1>2. ranges[i].lo \in Nat /\ ranges[i].hi \in Nat /\ ranges[i].tokens \in Nat
  BY <1>1 DEF Ranges
<1>3. Len(ranges) \in Nat /\ (i < Len(ranges) => i \in 1..Len(ranges) - 1)
  BY DEF Tiling
<1> QED
  BY <1>1, <1>2, <1>3 DEF Tiling

LEMMA ConcatTiles ==
    ASSUME NEW r, NEW s, NEW from \in Nat, NEW mid \in Nat, NEW to \in Nat,
           Tiling(r, from, mid), Tiling(s, mid + 1, to)
    PROVE  Tiling(r \o s, from, to)
<1> DEFINE m == Len(r)
           n == Len(s)
           both == r \o s
<1>1. m \in Nat /\ n \in Nat /\ m >= 1 /\ n >= 1 /\ r \in Seq(Ranges) /\ s \in Seq(Ranges)
  BY DEF Tiling
<1>2. /\ both \in Seq(Ranges) /\ Len(both) = m + n
      /\ \A i \in 1..m : both[i] = r[i]
      /\ \A i \in 1..n : both[m + i] = s[i]
  BY <1>1, ConcatProperties
<1> HIDE DEF m, n, both
<1>3. \A i \in 1..m + n : i \in 1..m \/ (i - m \in 1..n /\ i = m + (i - m))
  BY <1>1
<1>4. \A i \in 1..m + n - 1 : i \in 1..m - 1 \/ i = m \/ (i - m \in 1..n - 1)
  BY <1>1
<1>5. /\ r[1].lo = from /\ r[m].hi = mid /\ s[1].lo = mid + 1 /\ s[n].hi = to
      /\ \A i \in 1..m : r[i].lo <= r[i].hi
      /\ \A i \in 1..n : s[i].lo <= s[i].hi
      /\ \A i \in 1..m - 1 : r[i].hi + 1 = r[i + 1].lo
      /\ \A i \in 1..n - 1 : s[i].hi + 1 = s[i + 1].lo
  BY DEF Tiling, m, n
<1>6. both[1].lo = from /\ both[m + n].hi = to
  BY <1>1, <1>2, <1>5
<1>7. \A i \in 1..m + n : both[i].lo <= both[i].hi
  BY <1>2, <1>3, <1>5
<1>8. \A i \in 1..m + n - 1 : both[i].hi + 1 = both[i + 1].lo
  <2> TAKE i \in 1..m + n - 1
  <2>1. CASE i \in 1..m - 1
    <3>1. i \in 1..m /\ i + 1 \in 1..m
      BY <1>1, <2>1
    <3> QED
      BY <1>2, <1>5, <2>1, <3>1
  <2>2. CASE i = m
    <3>1. i \in 1..m /\ 1 \in 1..n
      BY <1>1, <2>2
    <3> QED
      BY <1>2, <1>5, <2>2, <3>1
  <2>3. CASE i - m \in 1..n - 1
    <3>1. /\ i - m \in 1..n /\ i - m + 1 \in 1..n
          /\ i = m + (i - m) /\ i + 1 = m + (i - m + 1)
      BY <1>1, <2>3
    <3>2. both[i] = s[i - m] /\ both[i + 1] = s[i - m + 1]
      BY <1>2, <3>1
    <3> QED
      BY <1>5, <2>3, <3>2
  <2> QED
    BY <1>4, <2>1, <2>2, <2>3
<1> QED
  <2>1. Len(both) >= 1 /\ Len(both) - 1 = m + n - 1
    BY <1>1, <1>2
  <2>2. Tiling(both, from, to)
    BY <1>2, <1>6, <1>7, <1>8, <2>1 DEF Tiling
  <2> QED
    BY <2>2 DEF both

LEMMA OneTiles ==
    ASSUME NEW x \in Ranges, x.lo <= x.hi PROVE Tiling(<<x>>, x.lo, x.hi)
<1>1. <<x>> \in Seq(Ranges) /\ Len(<<x>>) = 1 /\ <<x>>[1] = x
  OBVIOUS
<1> QED
  BY <1>1 DEF Tiling

LEMMA AppendTiles ==
    ASSUME NEW r, NEW from \in Nat, NEW to \in Nat, Tiling(r, from, to),
           NEW x \in Ranges, x.lo = to + 1, x.lo <= x.hi
    PROVE  Tiling(Append(r, x), from, x.hi)
<1>1. Append(r, x) = r \o <<x>>
  <2>1. r \in Seq(Ranges)
    BY DEF Tiling
  <2> QED
    BY <2>1, AppendIsConcat
<1>2. x.hi \in Nat /\ Tiling(<<x>>, to + 1, x.hi)
  BY OneTiles DEF Ranges
<1> QED
  BY <1>1, <1>2, ConcatTiles

Segments == [tokens : Nat, mark : {"none", "heading", "page"}]

LEMMA ChunksTile ==
    ASSUME source.text \in Seq(Segments), source.text # <<>>
    PROVE  Tiling(Chunks, 1, Len(source.text))
<1> DEFINE n == Len(source.text)
<1>1. n \in Nat /\ n >= 1
  OBVIOUS
<1>2. /\ Pieces \in Seq(Ranges) /\ Len(Pieces) = n
      /\ \A i \in 1..n : Pieces[i].lo = i /\ Pieces[i].hi = i
  <2>1. DOMAIN source.text = 1..n /\ \A i \in 1..n : source.text[i].tokens \in Nat
    <3>1. \A i \in 1..n : source.text[i] \in Segments
      OBVIOUS
    <3> QED
      BY <3>1 DEF Segments
  <2>2. Pieces \in [1..n -> Ranges]
    BY <2>1 DEF Pieces, Ranges
  <2> QED
    BY <1>1, <2>1, <2>2 DEF Pieces
<1>3. Tiling(Pieces, 1, n)
  <2> HIDE DEF n
  <2> QED
    BY <1>1, <1>2 DEF Tiling
<1>4. MinChunk \in Nat /\ FoldTo \in Nat
  BY SurveyAssumption
<1>5. Tiling(Merged, 1, n)
  <2>1. Tiling(Folded(MinChunk, Pieces), 1, n) /\ Full(MinChunk, Folded(MinChunk, Pieces))
    BY <1>1, <1>3, <1>4, FoldedTiles
  <2> QED
    BY <1>1, <1>4, <2>1, FoldLastTiles DEF Merged
<1> QED
  BY <1>1, <1>4, <1>5, FoldedTiles DEF Chunks

Raws == [a : Nat, b : Nat, tokens : Nat]

(* Raw units are all of the first so many chunks.                            *)
RawTiling(raws, to) ==
    /\ raws \in Seq(Raws) /\ Len(raws) >= 1
    /\ raws[1].a = 1 /\ raws[Len(raws)].b = to
    /\ \A i \in 1..Len(raws) : 1 <= raws[i].a /\ raws[i].a <= raws[i].b /\ raws[i].b <= to
    /\ \A i \in 1..Len(raws) - 1 : raws[i].b + 1 = raws[i + 1].a

RawStep(raws, chunks, c) ==
    IF c = 1 \/ c - 1 \in votes
      THEN Append(raws, [a |-> c, b |-> c, tokens |-> chunks[c].tokens])
      ELSE Append(Front(raws), [a |-> Last(raws).a, b |-> c,
                                tokens |-> Last(raws).tokens + chunks[c].tokens])

LEMMA RawUnitsUnfolds ==
    ASSUME NEW chunks \in Seq(Ranges), NEW k \in 0..Len(chunks)
    PROVE  RawUnits(chunks)[k] =
             IF k = 0 THEN <<>> ELSE RawStep(RawUnits(chunks)[k - 1], chunks, k)
<1> DEFINE Is(g, m) ==
        g = [j \in 0..m |-> IF j = 0 THEN <<>> ELSE RawStep(g[j - 1], chunks, j)]
    S == {m \in 0..Len(chunks) : \E g : Is(g, m)}
<1>1. Len(chunks) \in Nat
  OBVIOUS
<1>2. 0 \in S
  <2> DEFINE g == [j \in 0..0 |-> <<>>]
  <2>1. Is(g, 0)
    OBVIOUS
  <2> HIDE DEF g, Is
  <2> QED
    BY <1>1, <2>1
<1>3. ASSUME NEW m \in 1..Len(chunks), m - 1 \in S PROVE m \in S
  <2>1. PICK g : Is(g, m - 1)
    BY <1>3
  <2> DEFINE h == [j \in 0..m |-> IF j < m THEN g[j] ELSE RawStep(g[m - 1], chunks, m)]
  <2>2. \A j \in 0..m : h[j] = IF j = 0 THEN <<>> ELSE RawStep(h[j - 1], chunks, j)
    BY <2>1
  <2>3. Is(h, m)
    BY <2>2
  <2> HIDE DEF h, Is
  <2> QED
    BY <1>1, <2>3
<1> HIDE DEF Is
<1>4. PICK g : Is(g, Len(chunks))
  <2>1. \A m \in 0..Len(chunks) : m \in S
    BY <1>1, <1>2, <1>3, UpTo
  <2> QED
    BY <1>1, <2>1
<1>5. RawUnits(chunks) = CHOOSE x : Is(x, Len(chunks))
  <2>1. \A x : Is(x, Len(chunks)) <=>
          x = [c \in 0..Len(chunks) |->
                IF c = 0 THEN <<>>
                ELSE IF c = 1 \/ c - 1 \in votes
                  THEN Append(x[c - 1], [a |-> c, b |-> c, tokens |-> chunks[c].tokens])
                  ELSE Append(Front(x[c - 1]),
                              [a |-> Last(x[c - 1]).a, b |-> c,
                               tokens |-> Last(x[c - 1]).tokens + chunks[c].tokens])]
    BY Zenon DEF Is, RawStep
  <2> QED
    BY Zenon DEF RawUnits, Is, RawStep
<1>6. Is(RawUnits(chunks), Len(chunks))
  BY <1>4, <1>5
<1> QED
  BY <1>6 DEF Is

LEMMA RawUnitsTile ==
    ASSUME NEW chunks \in Seq(Ranges), Len(chunks) >= 1
    PROVE  RawTiling(RawUnits(chunks)[Len(chunks)], Len(chunks))
<1> DEFINE f == RawUnits(chunks)
           n == Len(chunks)
           S == {c \in 0..n : c = 0 \/ RawTiling(f[c], c)}
<1>1. n \in Nat /\ \A c \in 1..n : chunks[c].tokens \in Nat
  <2>1. \A c \in 1..n : chunks[c] \in Ranges
    OBVIOUS
  <2> QED
    BY <2>1 DEF Ranges
<1>2. \A c \in 0..n : f[c] = IF c = 0 THEN <<>> ELSE RawStep(f[c - 1], chunks, c)
  BY RawUnitsUnfolds
<1> HIDE DEF f
<1>3. 0 \in S
  BY <1>1
<1>4. ASSUME NEW c \in 1..n, c - 1 \in S PROVE c \in S
  <2>1. f[c] = RawStep(f[c - 1], chunks, c)
    BY <1>1, <1>2
  <2> DEFINE x == [a |-> c, b |-> c, tokens |-> chunks[c].tokens]
  <2>2. x \in Raws /\ x.a = c /\ x.b = c
    BY <1>1 DEF Raws
  <2>3. CASE c = 1
    <3>1. f[0] = <<>>
      BY <1>1, <1>2
    <3>2. f[1] = <<x>>
      BY <2>1, <2>3, <3>1 DEF RawStep
    <3> HIDE DEF x
    <3>3. <<x>> \in Seq(Raws) /\ Len(<<x>>) = 1 /\ <<x>>[1] = x
      BY <2>2
    <3>4. RawTiling(<<x>>, 1)
      BY <2>2, <2>3, <3>3 DEF RawTiling
    <3> QED
      BY <2>3, <3>2, <3>4
  <2>4. CASE c # 1
    <3> DEFINE r == f[c - 1]
               m == Len(r)
    <3>1. RawTiling(r, c - 1)
      BY <1>1, <1>4, <2>4
    <3>2. /\ r \in Seq(Raws) /\ m \in Nat /\ m >= 1 /\ r[m].b = c - 1 /\ r[m].a <= r[m].b
          /\ r[1].a = 1
          /\ \A i \in 1..m : 1 <= r[i].a /\ r[i].a <= r[i].b /\ r[i].b <= c - 1
          /\ \A i \in 1..m - 1 : r[i].b + 1 = r[i + 1].a
      BY <3>1 DEF RawTiling
    <3>3. r[m] \in Raws
      BY <3>2
    <3>4. r[m].a \in Nat /\ r[m].b \in Nat /\ r[m].tokens \in Nat
      BY <3>3 DEF Raws
    <3>7. c \in Nat /\ \A i \in 1..m : r[i].b <= c
      <4>1. \A i \in 1..m : r[i].b \in Nat
        <5>1. \A i \in 1..m : r[i] \in Raws
          BY <3>2
        <5> QED
          BY <5>1 DEF Raws
      <4>2. c \in Nat
        BY <1>1
      <4> QED
        BY <3>2, <4>1, <4>2
    <3> HIDE DEF x
    <3>5. CASE c - 1 \in votes
      <4> DEFINE after == Append(r, x)
      <4>1. f[c] = after
        BY <2>1, <3>5 DEF RawStep, x
      <4>2. /\ after \in Seq(Raws) /\ Len(after) = m + 1 /\ after[m + 1] = x
            /\ \A i \in 1..m : after[i] = r[i]
        BY <2>2, <3>2, Appended
      <4> HIDE DEF after, r, m
      <4>3. \A i \in 1..m + 1 : i = m + 1 \/ i \in 1..m
        BY <3>2
      <4>4. /\ after[1].a = 1
            /\ \A i \in 1..m + 1 :
                  1 <= after[i].a /\ after[i].a <= after[i].b /\ after[i].b <= c
        <5>1. 1 <= c /\ c <= c
          BY <1>1
        <5>2. after[1].a = 1
          BY <3>2, <4>2
        <5>3. 1 <= x.a /\ x.a <= x.b /\ x.b <= c
          BY <2>2, <5>1
        <5>4. \A i \in 1..m : 1 <= after[i].a /\ after[i].a <= after[i].b /\ after[i].b <= c
          BY <3>2, <3>7, <4>2
        <5> QED
          BY <4>2, <4>3, <5>2, <5>3, <5>4
      <4>5. \A i \in 1..m : after[i].b + 1 = after[i + 1].a
        <5>1. \A i \in 1..m : i = m \/ (i \in 1..m - 1 /\ i + 1 \in 1..m)
          BY <3>2
        <5>2. m \in 1..m /\ r[m].b + 1 = x.a
          BY <2>2, <3>2
        <5> QED
          BY <3>2, <4>2, <5>1, <5>2
      <4> QED
        <5>1. m + 1 >= 1 /\ Len(after) - 1 = m
          BY <3>2, <4>2
        <5>2. RawTiling(after, c)
          BY <2>2, <4>2, <4>4, <4>5, <5>1 DEF RawTiling
        <5> QED
          BY <4>1, <5>2
    <3>6. CASE ~(c - 1 \in votes)
      <4> DEFINE y == [a |-> r[m].a, b |-> c, tokens |-> r[m].tokens + chunks[c].tokens]
                 after == Append(SubSeq(r, 1, m - 1), y)
      <4>1. f[c] = after
        BY <2>1, <2>4, <3>6 DEF RawStep, Front, Last
      <4>2. y \in Raws /\ y.a = r[m].a /\ y.b = c /\ y.a <= y.b
        <5>1. c \in Nat /\ chunks[c].tokens \in Nat
          BY <1>1
        <5>2. r[m].tokens + chunks[c].tokens \in Nat /\ r[m].a <= c
          BY <3>2, <3>4, <5>1
        <5> QED
          BY <3>4, <5>1, <5>2 DEF Raws
      <4> HIDE DEF y
      <4>3. /\ after \in Seq(Raws) /\ Len(after) = m /\ after[m] = y
            /\ \A i \in 1..m - 1 : after[i] = r[i]
        <5>1. m - 1 \in 0..m
          BY <3>2
        <5>2. /\ SubSeq(r, 1, m - 1) \in Seq(Raws) /\ Len(SubSeq(r, 1, m - 1)) = m - 1
              /\ \A i \in 1..m - 1 : SubSeq(r, 1, m - 1)[i] = r[i]
          BY <3>2, <5>1, FirstOnes
        <5> QED
          BY <3>2, <4>2, <5>2, Appended
      <4> HIDE DEF after, r, m
      <4>4. \A i \in 1..m : i = m \/ i \in 1..m - 1
        BY <3>2
      <4>5. /\ after[1].a = 1
            /\ \A i \in 1..m : 1 <= after[i].a /\ after[i].a <= after[i].b /\ after[i].b <= c
        <5>1. m = 1 \/ 1 \in 1..m - 1
          BY <3>2
        <5> QED
          <6>1. 1 <= y.a /\ y.a <= y.b /\ y.b <= c
            BY <3>2, <3>7, <4>2
          <6>2. \A i \in 1..m - 1 :
                   1 <= after[i].a /\ after[i].a <= after[i].b /\ after[i].b <= c
            <7>1. \A i \in 1..m - 1 : i \in 1..m
              BY <3>2
            <7> QED
              BY <3>2, <3>7, <4>3, <7>1
          <6>3. after[1].a = 1
            BY <3>2, <4>2, <4>3, <5>1
          <6> QED
            BY <4>3, <4>4, <6>1, <6>2, <6>3
      <4>6. \A i \in 1..m - 1 : after[i].b + 1 = after[i + 1].a
        <5>1. \A i \in 1..m - 1 : i + 1 = m \/ i + 1 \in 1..m - 1
          BY <3>2
        <5> QED
          BY <3>2, <4>2, <4>3, <5>1
      <4> QED
        BY <3>2, <4>1, <4>2, <4>3, <4>5, <4>6 DEF RawTiling
    <3> QED
      BY <3>5, <3>6
  <2> QED
    BY <2>3, <2>4
<1>5. \A c \in 0..n : c \in S
  BY <1>1, <1>3, <1>4, UpTo
<1> QED
  BY <1>1, <1>5 DEF f

LEMMA TilingSpans ==
    ASSUME NEW ranges, NEW from, NEW to, Tiling(ranges, from, to),
           NEW i \in 1..Len(ranges), NEW j \in i..Len(ranges)
    PROVE  ranges[i].lo <= ranges[j].hi
<1> DEFINE n == Len(ranges) - i
           S == {d \in 0..n : ranges[i].lo <= ranges[i + d].hi}
<1>1. Len(ranges) \in Nat /\ i \in Nat /\ n \in Nat
  BY DEF Tiling
<1>2. 0 \in S
  <2>1. i + 0 = i
    BY <1>1
  <2> QED
    BY <1>1, <2>1, Tilings
<1>3. ASSUME NEW d \in 1..n, d - 1 \in S PROVE d \in S
  <2>1. /\ i + (d - 1) \in 1..Len(ranges) /\ i + d \in 1..Len(ranges)
        /\ i + (d - 1) < Len(ranges) /\ i + (d - 1) + 1 = i + d
    BY <1>1
  <2>2. /\ ranges[i].lo \in Nat /\ ranges[i + d].lo \in Nat /\ ranges[i + d].hi \in Nat
        /\ ranges[i + (d - 1)].hi \in Nat
        /\ ranges[i + d].lo <= ranges[i + d].hi
        /\ ranges[i + (d - 1)].hi + 1 = ranges[i + (d - 1) + 1].lo
    BY <2>1, Tilings
  <2>3. ranges[i].lo <= ranges[i + (d - 1)].hi
    BY <1>3
  <2> QED
    BY <2>1, <2>2, <2>3
<1>4. \A d \in 0..n : d \in S
  BY <1>1, <1>2, <1>3, UpTo
<1>5. j - i \in 0..n /\ i + (j - i) = j
  BY <1>1
<1> QED
  BY <1>4, <1>5

-----------------------------------------------------------------------------
(* Survey: units that are too large are cut, and the rest of them put        *)
(* together.                                                                 *)

Cuts == [out : Seq(Ranges), start : Nat, tokens : Nat]

LEMMA CuttingUnfolds ==
    ASSUME NEW chunks, NEW range \in Raws, range.a <= range.b, NEW k \in 0..range.b - range.a + 1
    PROVE  Cutting(chunks, range)[k] =
             IF k = 0 THEN [out |-> <<>>, start |-> range.a, tokens |-> 0]
             ELSE Cut(chunks, Cutting(chunks, range)[k - 1], range.a + k - 1)
<1> DEFINE none == [out |-> <<>>, start |-> range.a, tokens |-> 0]
           n == range.b - range.a + 1
           Is(g, m) == g = [j \in 0..m |->
                              IF j = 0 THEN none ELSE Cut(chunks, g[j - 1], range.a + j - 1)]
           S == {m \in 0..n : \E g : Is(g, m)}
<1>1. n \in Nat
  BY DEF Raws
<1>2. 0 \in S
  <2> DEFINE g == [j \in 0..0 |-> none]
  <2>1. Is(g, 0)
    OBVIOUS
  <2> HIDE DEF g, Is, n
  <2> QED
    BY <1>1, <2>1
<1>3. ASSUME NEW m \in 1..n, m - 1 \in S PROVE m \in S
  <2> HIDE DEF n, none
  <2>1. PICK g : Is(g, m - 1)
    BY <1>3
  <2> DEFINE h == [j \in 0..m |-> IF j < m THEN g[j] ELSE Cut(chunks, g[m - 1], range.a + m - 1)]
  <2>2. \A j \in 0..m : h[j] = IF j = 0 THEN none ELSE Cut(chunks, h[j - 1], range.a + j - 1)
    BY <1>1, <2>1
  <2>3. Is(h, m)
    BY <2>2
  <2> HIDE DEF h, Is
  <2> QED
    BY <1>1, <2>3
<1> HIDE DEF Is
<1>4. PICK g : Is(g, n)
  <2> HIDE DEF n
  <2>1. \A m \in 0..n : m \in S
    BY <1>1, <1>2, <1>3, UpTo
  <2> QED
    BY <1>1, <2>1
<1>5. Cutting(chunks, range) = CHOOSE x : Is(x, n)
  BY Zenon DEF Cutting, Is
<1>6. Is(Cutting(chunks, range), n)
  BY <1>4, <1>5
<1> QED
  BY <1>6 DEF Is

LEMMA SplitUnitTiles ==
    ASSUME NEW chunks, NEW from \in Nat, NEW to \in Nat, Tiling(chunks, from, to),
           NEW range \in Raws, 1 <= range.a, range.a <= range.b, range.b <= Len(chunks)
    PROVE  Tiling(SplitUnit(chunks, range), chunks[range.a].lo, chunks[range.b].hi)
<1>1. range.a \in Nat /\ range.b \in Nat /\ range.tokens \in Nat /\ Len(chunks) \in Nat
  BY DEF Raws, Tiling
<1>2. \A i \in range.a..range.b : i \in 1..Len(chunks)
  BY <1>1
<1>3. ASSUME NEW i \in range.a..range.b, NEW j \in i..range.b, NEW tokens \in Nat
      PROVE  /\ Unit(chunks, i, j, tokens) \in Ranges
             /\ Unit(chunks, i, j, tokens).lo = chunks[i].lo
             /\ Unit(chunks, i, j, tokens).hi = chunks[j].hi
             /\ Unit(chunks, i, j, tokens).lo <= Unit(chunks, i, j, tokens).hi
  <2>1. i \in 1..Len(chunks) /\ j \in 1..Len(chunks) /\ j \in i..Len(chunks)
    BY <1>1, <1>2
  <2>2. chunks[i].lo \in Nat /\ chunks[j].hi \in Nat
    BY <2>1, Tilings
  <2>3. chunks[i].lo <= chunks[j].hi
    BY <2>1, TilingSpans
  <2> QED
    BY <2>2, <2>3 DEF Unit, Ranges
<1>4. CASE range.tokens <= MaxUnit \/ range.b = range.a
  <2> DEFINE u == Unit(chunks, range.a, range.b, range.tokens)
  <2>1. range.a \in range.a..range.b /\ range.b \in range.a..range.b
    BY <1>1
  <2>2. u \in Ranges /\ u.lo = chunks[range.a].lo /\ u.hi = chunks[range.b].hi /\ u.lo <= u.hi
    BY <1>1, <1>3, <2>1
  <2>3. SplitUnit(chunks, range) = <<u>>
    BY <1>4 DEF SplitUnit
  <2> HIDE DEF u
  <2> QED
    BY <2>2, <2>3, OneTiles
<1>5. CASE ~(range.tokens <= MaxUnit \/ range.b = range.a)
  <2> DEFINE f == Cutting(chunks, range)
             n == range.b - range.a + 1
             Fine(acc, k) ==
               /\ acc \in Cuts /\ range.a <= acc.start
               /\ acc.start = range.a \/ acc.start <= range.a + k - 1
               /\ \/ acc.out = <<>> /\ acc.start = range.a
                  \/ /\ acc.start > range.a
                     /\ Tiling(acc.out, chunks[range.a].lo, chunks[acc.start - 1].hi)
             S == {k \in 0..n : Fine(f[k], k)}
  <2>1. n \in Nat /\ n >= 1
    BY <1>1
  <2>2. /\ f[0] = [out |-> <<>>, start |-> range.a, tokens |-> 0]
        /\ \A k \in 1..n : f[k] = Cut(chunks, f[k - 1], range.a + k - 1)
    BY <2>1, CuttingUnfolds
  <2> HIDE DEF f
  <2>3. 0 \in S
    <3>1. <<>> \in Seq(Ranges)
      OBVIOUS
    <3>2. Fine(f[0], 0)
      BY <1>1, <2>2, <3>1 DEF Cuts
    <3> QED
      BY <2>1, <3>2
  <2>4. ASSUME NEW k \in 1..n, k - 1 \in S PROVE k \in S
    <3> DEFINE acc == f[k - 1]
               c == range.a + k - 1
    <3>1. Fine(acc, k - 1)
      BY <2>4
    <3>2. acc \in Cuts /\ acc.out \in Seq(Ranges) /\ acc.start \in Nat /\ acc.tokens \in Nat
      BY <3>1 DEF Cuts
    <3>3. c \in range.a..range.b /\ k \in Nat /\ c \in Nat
      BY <1>1
    <3>4. chunks[c].tokens \in Nat
      BY <1>2, <3>3, Tilings
    <3>5. f[k] = Cut(chunks, acc, c)
      BY <2>2
    <3> HIDE DEF acc
    <3>6. CASE acc.tokens + chunks[c].tokens > MaxUnit /\ c > acc.start
      <4> DEFINE u == Unit(chunks, acc.start, c - 1, acc.tokens)
      <4>1. acc.start \in range.a..range.b /\ c - 1 \in acc.start..range.b
        <5>1. range.a <= acc.start /\ c > acc.start
          BY <3>1, <3>6
        <5> HIDE DEF c
        <5> QED
          BY <1>1, <3>2, <3>3, <5>1
      <4>2. /\ u \in Ranges /\ u.lo = chunks[acc.start].lo /\ u.hi = chunks[c - 1].hi
            /\ u.lo <= u.hi
        BY <1>3, <3>2, <4>1
      <4> HIDE DEF u
      <4>3. f[k] = [out |-> Append(acc.out, u), start |-> c, tokens |-> chunks[c].tokens]
        BY <3>5, <3>6 DEF Cut, u
      <4>4. Tiling(Append(acc.out, u), chunks[range.a].lo, chunks[c - 1].hi)
        <5>1. CASE acc.out = <<>> /\ acc.start = range.a
          <6>1. Append(acc.out, u) = <<u>>
            BY <5>1
          <6> QED
            BY <4>2, <5>1, <6>1, OneTiles
        <5>2. CASE /\ acc.start > range.a
                   /\ Tiling(acc.out, chunks[range.a].lo, chunks[acc.start - 1].hi)
          <6>1. /\ acc.start - 1 \in 1..Len(chunks) /\ acc.start - 1 < Len(chunks)
                /\ acc.start - 1 + 1 = acc.start /\ range.a \in 1..Len(chunks)
            <7>1. acc.start > range.a
              BY <5>2
            <7> QED
              <8>1. acc.start <= range.b
                BY <1>1, <3>2, <4>1
              <8>2. 1 <= range.a /\ range.a <= range.b /\ range.b <= Len(chunks)
                OBVIOUS
              <8> QED
                BY <1>1, <3>2, <7>1, <8>1, <8>2
          <6>2. /\ chunks[range.a].lo \in Nat /\ chunks[acc.start - 1].hi \in Nat
                /\ chunks[acc.start - 1].hi + 1 = chunks[acc.start].lo
            BY <6>1, Tilings
          <6> QED
            BY <4>2, <5>2, <6>2, AppendTiles
        <5> QED
          BY <3>1, <5>1, <5>2
      <4>5. Append(acc.out, u) \in Seq(Ranges)
        BY <3>2, <4>2, Appended
      <4>6. f[k] \in Cuts
        BY <3>3, <3>4, <4>3, <4>5 DEF Cuts
      <4>7. c > range.a /\ range.a <= c /\ c <= range.a + k - 1
        BY <1>1, <3>1, <3>2, <3>3, <3>6
      <4>8. f[k].start = c /\ f[k].out = Append(acc.out, u)
        BY <4>3
      <4> HIDE DEF c
      <4>9. Fine(f[k], k)
        BY <4>4, <4>6, <4>7, <4>8
      <4> QED
        BY <4>9
    <3>7. CASE ~(acc.tokens + chunks[c].tokens > MaxUnit /\ c > acc.start)
      <4>1. f[k] = [acc EXCEPT !.tokens = @ + chunks[c].tokens]
        BY <3>5, <3>7 DEF Cut
      <4>2. f[k] \in Cuts /\ f[k].out = acc.out /\ f[k].start = acc.start
        <5>1. acc.tokens + chunks[c].tokens \in Nat
          BY <3>2, <3>4
        <5> HIDE DEF c
        <5> QED
          BY <3>2, <4>1, <5>1 DEF Cuts
      <4>3. acc.start <= range.a + (k - 1) - 1 => acc.start <= range.a + k - 1
        BY <1>1, <3>2, <3>3
      <4>4. Fine(f[k], k)
        BY <3>1, <4>2, <4>3
      <4> QED
        BY <4>4
    <3> QED
      BY <3>6, <3>7
  <2>5. \A k \in 0..n : k \in S
    <3> HIDE DEF n
    <3> QED
      BY <2>1, <2>3, <2>4, UpTo
  <2> DEFINE cut == f[n]
             u == Unit(chunks, cut.start, range.b, cut.tokens)
  <2>6. Fine(cut, n)
    BY <2>1, <2>5
  <2>7. SplitUnit(chunks, range) = Append(cut.out, u)
    BY <1>5 DEF SplitUnit, f
  <2>8. /\ cut.out \in Seq(Ranges) /\ cut.start \in Nat /\ cut.tokens \in Nat
        /\ cut.start \in range.a..range.b /\ range.b \in cut.start..range.b
    <3>1. cut.out \in Seq(Ranges) /\ cut.start \in Nat /\ cut.tokens \in Nat
      BY <2>6 DEF Cuts
    <3> QED
      BY <1>1, <2>6, <3>1
  <2>9. u \in Ranges /\ u.lo = chunks[cut.start].lo /\ u.hi = chunks[range.b].hi /\ u.lo <= u.hi
    BY <1>3, <2>8
  <2> HIDE DEF u, cut
  <2>10. CASE cut.out = <<>> /\ cut.start = range.a
    <3>1. Append(cut.out, u) = <<u>>
      BY <2>10
    <3> QED
      BY <2>7, <2>9, <2>10, <3>1, OneTiles
  <2>11. CASE /\ cut.start > range.a
              /\ Tiling(cut.out, chunks[range.a].lo, chunks[cut.start - 1].hi)
    <3>1. /\ cut.start - 1 \in 1..Len(chunks) /\ cut.start - 1 < Len(chunks)
          /\ cut.start - 1 + 1 = cut.start /\ range.a \in 1..Len(chunks)
      <4>1. /\ cut.start \in Nat /\ range.a \in Nat /\ range.b \in Nat /\ Len(chunks) \in Nat
            /\ cut.start <= range.b
        BY <1>1, <2>8
      <4>2. /\ 1 <= range.a /\ range.a < cut.start /\ range.b <= Len(chunks)
        BY <2>11, <4>1
      <4>3. \A a, b, s, m \in Nat :
               1 <= a /\ a < s /\ s <= b /\ b <= m
                 => s - 1 \in 1..m /\ s - 1 < m /\ s - 1 + 1 = s /\ a \in 1..m
        OBVIOUS
      <4> HIDE DEF n, Fine, S
      <4> QED
        BY <4>1, <4>2, <4>3
    <3>2. /\ chunks[range.a].lo \in Nat /\ chunks[cut.start - 1].hi \in Nat
          /\ chunks[cut.start - 1].hi + 1 = chunks[cut.start].lo
      BY <3>1, Tilings
    <3>3. Tiling(Append(cut.out, u), chunks[range.a].lo, u.hi)
      BY <2>9, <2>11, <3>2, AppendTiles
    <3> QED
      BY <2>7, <2>9, <3>3
  <2> QED
    BY <2>6, <2>10, <2>11
<1> QED
  BY <1>4, <1>5

SplitStep(out, chunks, range) == out \o SplitUnit(chunks, range)

LEMMA SplittingUnfolds ==
    ASSUME NEW chunks, NEW raws \in Seq(Raws), NEW k \in 0..Len(raws)
    PROVE  Splitting(chunks, raws)[k] =
             IF k = 0 THEN <<>> ELSE SplitStep(Splitting(chunks, raws)[k - 1], chunks, raws[k])
<1> DEFINE n == Len(raws)
           Is(g, m) == g = [j \in 0..m |->
                              IF j = 0 THEN <<>> ELSE SplitStep(g[j - 1], chunks, raws[j])]
           S == {m \in 0..n : \E g : Is(g, m)}
<1>1. n \in Nat
  OBVIOUS
<1>2. 0 \in S
  <2> DEFINE g == [j \in 0..0 |-> <<>>]
  <2>1. Is(g, 0)
    OBVIOUS
  <2> HIDE DEF g, Is, n
  <2> QED
    BY <1>1, <2>1
<1>3. ASSUME NEW m \in 1..n, m - 1 \in S PROVE m \in S
  <2> HIDE DEF n
  <2>1. PICK g : Is(g, m - 1)
    BY <1>3
  <2> DEFINE h == [j \in 0..m |-> IF j < m THEN g[j] ELSE SplitStep(g[m - 1], chunks, raws[m])]
  <2>2. \A j \in 0..m : h[j] = IF j = 0 THEN <<>> ELSE SplitStep(h[j - 1], chunks, raws[j])
    BY <1>1, <2>1
  <2>3. Is(h, m)
    BY <2>2
  <2> HIDE DEF h, Is
  <2> QED
    BY <1>1, <2>3
<1> HIDE DEF Is
<1>4. PICK g : Is(g, n)
  <2> HIDE DEF n
  <2>1. \A m \in 0..n : m \in S
    BY <1>1, <1>2, <1>3, UpTo
  <2> QED
    BY <1>1, <2>1
<1>5. Splitting(chunks, raws) = CHOOSE x : Is(x, n)
  BY Zenon DEF Splitting, Is, SplitStep
<1>6. Is(Splitting(chunks, raws), n)
  BY <1>4, <1>5
<1> QED
  BY <1>6 DEF Is

LEMMA SplittingTiles ==
    ASSUME NEW chunks, NEW to \in Nat, Tiling(chunks, 1, to),
           NEW raws, RawTiling(raws, Len(chunks))
    PROVE  Tiling(Splitting(chunks, raws)[Len(raws)], 1, to)
<1> DEFINE f == Splitting(chunks, raws)
           n == Len(raws)
           S == {k \in 0..n : k = 0 \/ Tiling(f[k], 1, chunks[raws[k].b].hi)}
<1>1. /\ raws \in Seq(Raws) /\ n \in Nat /\ n >= 1 /\ chunks \in Seq(Ranges)
      /\ Len(chunks) \in Nat /\ Len(chunks) >= 1
  BY DEF Tiling, RawTiling
<1>2. /\ f[0] = <<>>
      /\ \A k \in 1..n : f[k] = SplitStep(f[k - 1], chunks, raws[k])
  <2>1. \A k \in 0..n :
           f[k] = IF k = 0 THEN <<>> ELSE SplitStep(f[k - 1], chunks, raws[k])
    BY <1>1, SplittingUnfolds
  <2> HIDE DEF f, n
  <2> QED
    BY <1>1, <2>1
<1> HIDE DEF f
<1>3. 0 \in S
  BY <1>1
<1>4. ASSUME NEW k \in 1..n, k - 1 \in S PROVE k \in S
  <2> DEFINE a == raws[k].a
             b == raws[k].b
             new == SplitUnit(chunks, raws[k])
  <2>1. raws[k] \in Raws /\ 1 <= a /\ a <= b /\ b <= Len(chunks)
    BY <1>1 DEF RawTiling
  <2>2. a \in Nat /\ b \in Nat /\ a \in 1..Len(chunks) /\ b \in 1..Len(chunks)
    <3>1. a \in Nat /\ b \in Nat
      BY <2>1 DEF Raws
    <3> QED
      BY <1>1, <2>1, <3>1
  <2>3. Tiling(new, chunks[a].lo, chunks[b].hi)
    BY <2>1, SplitUnitTiles
  <2>4. chunks[a].lo \in Nat /\ chunks[b].hi \in Nat
    BY <2>2, Tilings
  <2>5. f[k] = f[k - 1] \o new
    BY <1>2 DEF SplitStep
  <2>6. CASE k = 1
    <3>1. a = 1 /\ chunks[1].lo = 1
      BY <2>6 DEF RawTiling, Tiling
    <3>2. f[k] = <<>> \o new
      <4>1. k - 1 = 0
        BY <2>6
      <4> QED
        BY <1>2, <2>5, <4>1
    <3>3. new \in Seq(Ranges)
      BY <2>3 DEF Tiling
    <3>4. f[k] = new
      BY <3>2, <3>3
    <3> HIDE DEF a, new
    <3> QED
      BY <2>3, <3>1, <3>4
  <2>7. CASE k # 1
    <3> DEFINE p == raws[k - 1].b
    <3>1. k - 1 \in 1..n /\ k - 1 \in 1..n - 1 /\ k - 1 + 1 = k /\ k - 1 # 0
      BY <1>1, <2>7
    <3>2. Tiling(f[k - 1], 1, chunks[p].hi)
      BY <1>4, <3>1
    <3>3. p + 1 = a /\ 1 <= raws[k - 1].a /\ raws[k - 1].a <= p
      BY <3>1 DEF RawTiling
    <3>4. p \in Nat /\ p \in 1..Len(chunks) /\ p < Len(chunks)
      <4>1. raws[k - 1] \in Raws
        BY <1>1, <3>1
      <4>2. raws[k - 1].a \in Nat /\ p \in Nat
        BY <4>1 DEF Raws
      <4> QED
        BY <1>1, <2>2, <3>3, <4>2
    <3>5. chunks[p].hi \in Nat /\ chunks[p].hi + 1 = chunks[p + 1].lo
      BY <3>4, Tilings
    <3> HIDE DEF p, a, b, new
    <3>6. Tiling(new, chunks[p].hi + 1, chunks[b].hi)
      BY <2>3, <3>3, <3>5
    <3>7. Tiling(f[k], 1, chunks[b].hi)
      BY <2>4, <2>5, <3>2, <3>5, <3>6, ConcatTiles
    <3> QED
      BY <3>7 DEF b
  <2> QED
    BY <2>6, <2>7
<1>5. \A k \in 0..n : k \in S
  <2> HIDE DEF n
  <2> QED
    BY <1>1, <1>3, <1>4, UpTo
<1>6. Tiling(f[n], 1, chunks[raws[n].b].hi)
  BY <1>1, <1>5
<1>7. raws[n].b = Len(chunks) /\ chunks[Len(chunks)].hi = to
  BY DEF RawTiling, Tiling
<1> QED
  BY <1>6, <1>7 DEF f

(* The units of a spine: they tile the source, and none is under the floor   *)
(* but the only one.                                                         *)
Spine(spun) ==
    /\ Tiling(spun, 1, Len(source.text))
    /\ \A i \in 1..Len(spun) : spun[i].tokens >= MinUnit \/ Len(spun) = 1

LEMMA AssembledIsASpine ==
    ASSUME source.text \in Seq(Segments), source.text # <<>>
    PROVE  LET raws == RawUnits(Chunks)[Len(Chunks)]
           IN  Spine(Floored(Splitting(Chunks, raws)[Len(raws)]))
<1> DEFINE raws == RawUnits(Chunks)[Len(Chunks)]
           n == Len(source.text)
           split == Splitting(Chunks, raws)[Len(raws)]
<1>1. n \in Nat /\ Tiling(Chunks, 1, n)
  BY ChunksTile
<1>2. RawTiling(raws, Len(Chunks))
  <2>1. Chunks \in Seq(Ranges) /\ Len(Chunks) >= 1
    BY <1>1 DEF Tiling
  <2> QED
    BY <2>1, RawUnitsTile
<1>3. Tiling(split, 1, n)
  <2> HIDE DEF raws
  <2> QED
    BY <1>1, <1>2, SplittingTiles
<1>4. MinUnit \in Nat
  BY SurveyAssumption
<1> HIDE DEF split, n, raws
<1>5. Tiling(Folded(MinUnit, split), 1, n) /\ Full(MinUnit, Folded(MinUnit, split))
  BY <1>1, <1>3, <1>4, FoldedTiles
<1>6. Spine(FoldLast(Folded(MinUnit, split), MinUnit))
  BY <1>1, <1>4, <1>5, FoldLastTiles DEF Spine, n
<1> QED
  BY <1>6 DEF Floored, split, raws

-----------------------------------------------------------------------------
(* Survey: every behaviour. *)

SurveyInv ==
    /\ source.text \in Seq(Segments) /\ source.text # <<>>
    /\ step \in {"voting", "assembling", "writing", "done"}
    /\ votes \subseteq Boundaries
    /\ windows.calls \in 0..MaxCalls /\ windows.start \in Nat
    /\ windows.shown \subseteq Boundaries
    /\ windows \in [calls : Nat, start : Nat, shown : SUBSET Nat]
    /\ step = "voting" => windows.calls < MaxCalls
    /\ (step = "voting" /\ source.model) =>
          \A b \in Boundaries : b < windows.start => b \in windows.shown
    /\ EveryBoundaryShown
    /\ step = "writing" => Spine(units)
    /\ step = "done" => Spine(saved) /\ SpineIsBacked
    /\ step # "done" => saved = <<>>

LEMMA SurveyShows == SurveyInv => TypeOK /\ SpineTiles /\ SpineIsBacked /\ EveryBoundaryShown
<1> SUFFICES ASSUME SurveyInv PROVE TypeOK /\ SpineTiles /\ SpineIsBacked /\ EveryBoundaryShown
  OBVIOUS
<1>1. CASE step = "done"
  <2>1. Spine(saved)
    BY <1>1 DEF SurveyInv
  <2>2. saved \in Seq(Ranges) /\ Len(saved) \in Nat /\ Len(saved) >= 1 /\ Last(saved) = saved[Len(saved)]
    BY <2>1 DEF Spine, Tiling, Last
  <2>3. saved # <<>> /\ DOMAIN saved = 1..Len(saved)
    BY <2>2
  <2>4. SpineTiles
    BY <2>1, <2>2, <2>3 DEF SpineTiles, Spine, Tiling
  <2> QED
    BY <1>1, <2>3, <2>4 DEF SurveyInv, TypeOK
<1>2. CASE step # "done"
  BY <1>2 DEF SurveyInv, TypeOK, SpineTiles, SpineIsBacked
<1> QED
  BY <1>1, <1>2

LEMMA SurveyAtRest ==
    ASSUME source.text \in Seq(Segments), source.text # <<>>,
           step = "voting", windows = NoWindows, votes = {}, saved = <<>>
    PROVE  SurveyInv
<1>1. MaxCalls \in Nat /\ MaxCalls > 0
  BY SurveyAssumption
<1>2. windows = [calls |-> 0, start |-> 1, shown |-> {}]
  BY DEF NoWindows
<1>3. \A b \in Boundaries : ~(b < 1)
  <2>1. Len(Chunks) \in Nat
    BY ChunksTile DEF Tiling
  <2> QED
    BY <2>1 DEF Boundaries
<1> QED
  BY <1>1, <1>2, <1>3 DEF SurveyInv, EveryBoundaryShown

LEMMA SurveyStarts == Init => SurveyInv
<1> SUFFICES ASSUME Init PROVE SurveyInv
  OBVIOUS
<1>1. source.text \in Seq(Segments) /\ source.text # <<>>
  <2>1. \A S : SeqOf(S, MaxSegments) \subseteq Seq(S)
    <3> SUFFICES ASSUME NEW S, NEW s \in SeqOf(S, MaxSegments) PROVE s \in Seq(S)
      OBVIOUS
    <3>1. MaxSegments \in Nat
      BY SurveyAssumption
    <3>2. PICK m \in 0..MaxSegments : s \in [1..m -> S]
      BY DEF SeqOf
    <3>3. m \in Nat
      BY <3>1
    <3> QED
      BY <3>2, <3>3
  <2>2. Segment \subseteq Segments /\ Plain \subseteq Segments
    BY SurveyAssumption DEF Segment, Plain, Segments
  <2>3. Seq(Segment) \subseteq Seq(Segments) /\ Seq(Plain) \subseteq Seq(Segments)
    BY <2>2, SeqMonotonic
  <2>4. \/ source.text \in SeqOf(Segment, MaxSegments) \ {<<>>}
        \/ source.text \in SeqOf(Plain, MaxSegments) \ {<<>>}
    BY DEF Init
  <2> QED
    BY <2>1, <2>3, <2>4
<1> QED
  BY <1>1, SurveyAtRest DEF Init

LEMMA SurveyStaysPut ==
    ASSUME SurveyInv, UNCHANGED surveyVars PROVE SurveyInv'
<1>1. Boundaries' = Boundaries
  BY DEF surveyVars, Boundaries, Chunks, Merged, Pieces
<1> QED
  BY <1>1 DEF surveyVars, SurveyInv, EveryBoundaryShown, Spine, SpineIsBacked, Text

LEMMA SurveySteps ==
    ASSUME SurveyInv, Next PROVE SurveyInv'
<1> DEFINE n == Len(Chunks)
<1>1. /\ source' = source /\ Boundaries' = Boundaries
      /\ n \in Nat /\ n >= 1 /\ Boundaries = 1..n - 1
  <2>1. source' = source
    BY DEF Next, Structural, AskWindow, NothingToAsk, Assemble, Materialize, SaveSpine, Crash
  <2>2. Boundaries' = Boundaries
    BY <2>1 DEF Boundaries, Chunks, Merged, Pieces
  <2>3. n \in Nat /\ n >= 1
    BY ChunksTile DEF SurveyInv, Tiling
  <2> QED
    BY <2>1, <2>2, <2>3 DEF Boundaries
<1>2. /\ MaxCalls \in Nat /\ MaxCalls > 0 /\ Window \in Nat /\ Stride \in Nat
      /\ Stride < Window /\ Stride > 0
  BY SurveyAssumption
<1>3. /\ windows.calls \in 0..MaxCalls /\ windows.start \in Nat
      /\ windows \in [calls : Nat, start : Nat, shown : SUBSET Nat]
      /\ windows.shown \subseteq Boundaries
  BY DEF SurveyInv
<1> HIDE DEF n
<1>4. CASE Structural
  <2>1. votes' \subseteq Boundaries
    BY <1>1, <1>4 DEF Structural, StructuralVotes, n
  <2> QED
    BY <1>1, <1>4, <2>1 DEF Structural, SurveyInv, EveryBoundaryShown, Spine, SpineIsBacked
<1>5. CASE AskWindow
  <2> DEFINE more == windows.shown \cup
                       {b \in Boundaries : windows.start <= b /\ b < windows.start + Window - 1}
  <2>1. /\ step = "voting" /\ source.model /\ n > 1
        /\ votes' \subseteq Boundaries
        /\ windows' = [calls |-> windows.calls + 1, start |-> NextStart, shown |-> more]
        /\ step' = IF MoreWindows THEN "voting" ELSE "assembling"
        /\ UNCHANGED <<source, units, files, saved, crashes>>
    <3>1. votes \subseteq Boundaries
      BY DEF SurveyInv
    <3> QED
      BY <1>5, <3>1 DEF AskWindow, n
  <2>2. more \subseteq Boundaries /\ NextStart = windows.start + Stride /\ NextStart \in Nat
    BY <1>2, <1>3 DEF NextStart
  <2>3. windows.calls < MaxCalls
    BY <2>1 DEF SurveyInv
  <2>4. /\ windows'.calls = windows.calls + 1 /\ windows'.start = NextStart
        /\ windows'.shown = more
    BY <2>1
  <2>5. /\ windows'.calls \in 0..MaxCalls /\ windows'.start \in Nat
        /\ windows'.shown \subseteq Boundaries
        /\ windows' \in [calls : Nat, start : Nat, shown : SUBSET Nat]
    <3>1. windows.calls + 1 \in 0..MaxCalls /\ windows.calls + 1 \in Nat
      BY <1>2, <1>3, <2>3
    <3>2. more \subseteq Nat
      BY <1>1, <2>2
    <3> HIDE DEF more
    <3> QED
      BY <2>1, <2>2, <2>4, <3>1, <3>2
  <2>6. \A b \in Boundaries : b < windows.start + Window - 1 => b \in more
    <3>1. \A b \in Boundaries : b < windows.start => b \in windows.shown
      BY <2>1 DEF SurveyInv
    <3>2. \A b \in Boundaries : b \in Nat
      BY <1>1
    <3> QED
      BY <1>2, <1>3, <3>1, <3>2
  <2> HIDE DEF more
  <2>7. \A b \in Boundaries : b < NextStart => b \in more
    <3>1. \A b \in Boundaries : b \in Nat
      BY <1>1
    <3> QED
      BY <1>2, <1>3, <2>2, <2>6, <3>1
  <2>8. MoreWindows => windows.calls + 1 < MaxCalls
    BY DEF MoreWindows
  <2>9. ~MoreWindows /\ windows.calls + 1 < MaxCalls => more = Boundaries
    <3> SUFFICES ASSUME ~MoreWindows, windows.calls + 1 < MaxCalls, NEW b \in Boundaries
                 PROVE  b \in more
      BY <2>2
    <3>1. ~(windows.start + Window - 1 < n /\ n > NextStart)
      BY DEF MoreWindows, n
    <3>2. b \in Nat /\ b < n
      BY <1>1
    <3>3. b < windows.start + Window - 1
      BY <1>1, <1>2, <1>3, <2>2, <3>1, <3>2
    <3> QED
      BY <2>6, <3>3
  <2>10. step' \in {"voting", "assembling"} /\ (step' = "voting" <=> MoreWindows)
    BY <2>1
  <2>11. EveryBoundaryShown'
    BY <1>1, <2>4, <2>9, <2>10 DEF EveryBoundaryShown
  <2>12. step' = "voting" => windows'.calls < MaxCalls
    BY <2>4, <2>8, <2>10
  <2>13. step' # "done" /\ saved' = <<>> /\ step' # "writing"
    BY <2>1, <2>10 DEF SurveyInv
  <2> QED
    BY <1>1, <2>1, <2>4, <2>5, <2>7, <2>10, <2>11, <2>12, <2>13 DEF SurveyInv
<1>6. CASE NothingToAsk
  <2>1. Boundaries = {}
    BY <1>1, <1>6 DEF NothingToAsk, n
  <2> QED
    BY <1>1, <1>6, <2>1 DEF NothingToAsk, SurveyInv, EveryBoundaryShown
<1>7. CASE Assemble
  <2>1. Spine(units')
    BY <1>7, AssembledIsASpine DEF Assemble, SurveyInv
  <2>2. Spine(units)'
    BY <1>1, <2>1 DEF Spine
  <2> QED
    BY <1>1, <1>7, <2>2 DEF Assemble, SurveyInv, EveryBoundaryShown
<1>8. CASE Materialize \/ Crash
  <2>1. step \notin {"done"} /\ saved' = saved
    BY <1>8 DEF Materialize, Crash
  <2>2. CASE step' = "voting" /\ units' = <<>> /\ votes' = {} /\ windows' = NoWindows
    <3>1. windows' = [calls |-> 0, start |-> 1, shown |-> {}]
      BY <2>2 DEF NoWindows
    <3>2. \A b \in Boundaries : ~(b < 1)
      BY <1>1
    <3> QED
      BY <1>1, <1>2, <2>1, <2>2, <3>1, <3>2 DEF SurveyInv, EveryBoundaryShown
  <2>3. CASE UNCHANGED <<step, units, votes, windows>>
    <3>1. Spine(units)' <=> Spine(units)
      BY <1>1, <2>3 DEF Spine
    <3> QED
      BY <1>1, <2>1, <2>3, <3>1 DEF SurveyInv, EveryBoundaryShown
  <2> QED
    BY <1>8, <2>2, <2>3 DEF Materialize, Crash
<1>9. CASE SaveSpine
  <2>1. Spine(units)
    BY <1>9 DEF SaveSpine, SurveyInv
  <2>2. Spine(saved)'
    BY <1>1, <1>9, <2>1 DEF SaveSpine, Spine
  <2>3. SpineIsBacked'
    <3>1. \A i \in DOMAIN units : i \in DOMAIN files /\ files[i] = Text(units[i])
      BY <1>9 DEF SaveSpine, Unwritten, Written
    <3> QED
      BY <1>9, <3>1 DEF SaveSpine, SpineIsBacked, Text
  <2> QED
    BY <1>1, <1>9, <2>2, <2>3 DEF SaveSpine, SurveyInv, EveryBoundaryShown
<1> QED
  BY <1>4, <1>5, <1>6, <1>7, <1>8, <1>9 DEF Next

-----------------------------------------------------------------------------
(* Slicing: the units of a set, in order. *)

LEMMA SlicingUnits == SingleUnits \in Nat /\ SingleUnits >= 1 /\ MaxParts \in Nat
BY PreparationAssumption DEF Slices!SlicingAssumption

OrderStep(upto, S, u) == IF u \in S THEN Append(upto, u) ELSE upto

LEMMA InOrderUnfolds ==
    ASSUME NEW S
    PROVE  /\ Slices!InOrder(S)[0] = <<>>
           /\ \A u \in 1..SingleUnits :
                 Slices!InOrder(S)[u] = OrderStep(Slices!InOrder(S)[u - 1], S, u)
<1> DEFINE n == SingleUnits
           Is(g, m) == g = [u \in 0..m |-> IF u = 0 THEN <<>> ELSE OrderStep(g[u - 1], S, u)]
           N == {m \in 0..n : \E g : Is(g, m)}
<1>1. n \in Nat
  BY SlicingUnits
<1>2. 0 \in N
  <2> DEFINE g == [j \in 0..0 |-> <<>>]
  <2>1. Is(g, 0)
    OBVIOUS
  <2> HIDE DEF g, Is, n
  <2> QED
    BY <1>1, <2>1
<1>3. ASSUME NEW m \in 1..n, m - 1 \in N PROVE m \in N
  <2> HIDE DEF n
  <2>1. PICK g : Is(g, m - 1)
    BY <1>3
  <2> DEFINE h == [u \in 0..m |-> IF u < m THEN g[u] ELSE OrderStep(g[m - 1], S, m)]
  <2>2. \A u \in 0..m : h[u] = IF u = 0 THEN <<>> ELSE OrderStep(h[u - 1], S, u)
    BY <1>1, <2>1
  <2>3. Is(h, m)
    BY <2>2
  <2> HIDE DEF h, Is
  <2> QED
    BY <1>1, <2>3
<1> HIDE DEF Is
<1>4. PICK g : Is(g, n)
  <2> HIDE DEF n
  <2>1. \A m \in 0..n : m \in N
    BY <1>1, <1>2, <1>3, UpTo
  <2> QED
    BY <1>1, <2>1
<1>5. Slices!InOrder(S) = CHOOSE x : Is(x, n)
  BY Zenon DEF Slices!InOrder, Is, OrderStep
<1>6. Is(Slices!InOrder(S), n)
  BY <1>4, <1>5
<1> QED
  BY <1>1, <1>6 DEF Is

(* As far as u: the units of S, as many as there are, and the last the       *)
(* greatest.                                                                 *)
LEMMA InOrderIs ==
    ASSUME NEW S, NEW u \in 0..SingleUnits
    PROVE  /\ Slices!InOrder(S)[u] \in Seq(S \cap 1..u)
           /\ Len(Slices!InOrder(S)[u]) = Cardinality(S \cap 1..u)
           /\ S \cap 1..u # {} =>
                 LET s == Slices!InOrder(S)[u]
                 IN  /\ s # <<>> /\ s[Len(s)] \in S \cap 1..u
                     /\ \A v \in S \cap 1..u : v <= s[Len(s)]
<1> DEFINE f == Slices!InOrder(S)
           Fine(s, k) ==
             /\ s \in Seq(S \cap 1..k) /\ Len(s) = Cardinality(S \cap 1..k)
             /\ S \cap 1..k # {} =>
                   /\ s # <<>> /\ s[Len(s)] \in S \cap 1..k
                   /\ \A v \in S \cap 1..k : v <= s[Len(s)]
           N == {k \in 0..SingleUnits : Fine(f[k], k)}
<1>1. /\ SingleUnits \in Nat /\ f[0] = <<>>
      /\ \A k \in 1..SingleUnits : f[k] = OrderStep(f[k - 1], S, k)
  BY SlicingUnits, InOrderUnfolds
<1> HIDE DEF f
<1>2. 0 \in N
  <2>1. S \cap 1..0 = {} /\ <<>> \in Seq({}) /\ Cardinality({}) = 0
    BY FS_EmptySet
  <2>2. Len(<<>>) = 0
    OBVIOUS
  <2>3. Fine(f[0], 0)
    BY <1>1, <2>1, <2>2
  <2> HIDE DEF Fine
  <2> QED
    BY <1>1, <2>3
<1>3. ASSUME NEW k \in 1..SingleUnits, k - 1 \in N PROVE k \in N
  <2> DEFINE old == S \cap 1..k - 1
             new == S \cap 1..k
             s == f[k - 1]
  <2>1. k \in Nat /\ k - 1 \in Nat /\ Fine(s, k - 1)
    BY <1>1, <1>3
  <2>2. f[k] = OrderStep(s, S, k)
    BY <1>1
  <2>3. CASE k \in S
    <3>1. new = old \cup {k} /\ k \notin old
      BY <1>1, <2>1, <2>3
    <3>2. IsFiniteSet(old)
      <4>1. IsFiniteSet(1..k - 1)
        BY <2>1, FS_Interval
      <4>2. old \subseteq 1..k - 1
        OBVIOUS
      <4> HIDE DEF old
      <4> QED
        BY <4>1, <4>2, FS_Subset
    <3>3. Cardinality(new) = Cardinality(old) + 1
      BY <3>1, <3>2, FS_AddElement
    <3>4. s \in Seq(old) /\ Len(s) = Cardinality(old)
      BY <2>1
    <3> HIDE DEF old, new, s
    <3>5. s \in Seq(new) /\ k \in new
      <4>1. old \subseteq new
        BY <3>1
      <4> QED
        BY <3>1, <3>4, <4>1, SeqMonotonic
    <3>6. /\ Append(s, k) \in Seq(new) /\ Len(Append(s, k)) = Len(s) + 1
          /\ Append(s, k)[Len(s) + 1] = k
      BY <3>5, Appended
    <3>7. f[k] = Append(s, k)
      BY <2>2, <2>3 DEF OrderStep
    <3>8. \A v \in new : v <= k
      BY <2>1 DEF new
    <3>9. Len(f[k]) = Cardinality(new) /\ f[k] \in Seq(new) /\ f[k][Len(f[k])] = k
      BY <3>3, <3>4, <3>6, <3>7
    <3>10. f[k] # <<>>
      <4>1. Len(s) \in Nat /\ Len(<<>>) = 0
        BY <3>5
      <4> QED
        BY <3>6, <3>7, <4>1
    <3>11. Fine(f[k], k)
      BY <3>5, <3>8, <3>9, <3>10 DEF new
    <3> HIDE DEF Fine
    <3> QED
      BY <3>11
  <2>4. CASE k \notin S
    <3>1. S \cap 1..k = S \cap 1..k - 1
      BY <1>1, <2>1, <2>4
    <3>2. f[k] = s
      BY <2>2, <2>4 DEF OrderStep
    <3>3. Fine(f[k], k)
      BY <2>1, <3>1, <3>2
    <3> HIDE DEF Fine
    <3> QED
      BY <3>3
  <2> QED
    BY <2>3, <2>4
<1>4. \A k \in 0..SingleUnits : k \in N
  BY <1>1, <1>2, <1>3, UpTo
<1>5. Fine(f[u], u)
  BY <1>4
<1> QED
  BY <1>5 DEF f

LEMMA SortedIs ==
    ASSUME NEW S, S \subseteq 1..SingleUnits
    PROVE  /\ Slices!Sorted(S) \in Seq(S) /\ Len(Slices!Sorted(S)) = Cardinality(S)
           /\ S # {} =>
                 LET s == Slices!Sorted(S)
                 IN  s # <<>> /\ s[Len(s)] \in S /\ \A v \in S : v <= s[Len(s)]
<1>1. SingleUnits \in 0..SingleUnits
  BY SlicingUnits
<1>2. S \cap 1..SingleUnits = S
  OBVIOUS
<1> QED
  BY <1>1, <1>2, InOrderIs DEF Slices!Sorted

LEMMA AppendedLater ==
    ASSUME NEW p \in Seq(Nat), NEW q \in Seq(Nat), NEW k \in Nat
    PROVE  Append(p \o q, k) = p \o Append(q, k)
<1>1. Append(q, k) = q \o <<k>> /\ <<k>> \in Seq(Nat)
  BY AppendIsConcat
<1>2. p \o q \in Seq(Nat)
  BY ConcatProperties
<1>3. Append(p \o q, k) = (p \o q) \o <<k>>
  BY <1>2, AppendIsConcat
<1>4. \A u \in Seq(Nat) : (p \o q) \o u = p \o (q \o u)
  BY ConcatAssociative
<1>5. (p \o q) \o <<k>> = p \o (q \o <<k>>)
  BY <1>1, <1>4
<1> QED
  BY Zenon, <1>1, <1>3, <1>5

(* A set and one that is above it, one after the other.                      *)
LEMMA SortedConcat ==
    ASSUME NEW F, NEW R, F \subseteq 1..SingleUnits, R \subseteq 1..SingleUnits,
           \A u \in F, v \in R : u < v
    PROVE  Slices!Sorted(F \cup R) = Slices!Sorted(F) \o Slices!Sorted(R)
<1> DEFINE f == Slices!InOrder(F)
           r == Slices!InOrder(R)
           b == Slices!InOrder(F \cup R)
           Then(x, y) == x \o y
           N == {k \in 0..SingleUnits : b[k] = Then(f[k], r[k])}
<1>1. /\ SingleUnits \in Nat /\ f[0] = <<>> /\ r[0] = <<>> /\ b[0] = <<>>
      /\ \A k \in 1..SingleUnits :
            /\ f[k] = OrderStep(f[k - 1], F, k) /\ r[k] = OrderStep(r[k - 1], R, k)
            /\ b[k] = OrderStep(b[k - 1], F \cup R, k)
  BY SlicingUnits, InOrderUnfolds
<1>2. \A k \in 0..SingleUnits : f[k] \in Seq(F \cap 1..k) /\ r[k] \in Seq(R \cap 1..k)
  BY InOrderIs
<1> HIDE DEF f, r, b
<1>3. 0 \in N
  <2>1. Then(<<>>, <<>>) = <<>>
    OBVIOUS
  <2> HIDE DEF Then
  <2> QED
    BY <1>1, <2>1
<1>4. ASSUME NEW k \in 1..SingleUnits, k - 1 \in N PROVE k \in N
  <2> DEFINE p == f[k - 1]
             q == r[k - 1]
  <2>1. k \in Nat /\ k - 1 \in 0..SingleUnits
    BY <1>1
  <2>6. b[k - 1] = Then(p, q)
    <3> HIDE DEF Then
    <3> QED
      BY <1>4
  <2>2. p \in Seq(Nat) /\ q \in Seq(Nat)
    <3>1. F \cap 1..k - 1 \subseteq Nat /\ R \cap 1..k - 1 \subseteq Nat
      OBVIOUS
    <3>2. p \in Seq(F \cap 1..k - 1) /\ q \in Seq(R \cap 1..k - 1)
      BY <1>2, <2>1
    <3> HIDE DEF p, q
    <3> QED
      BY <3>1, <3>2, SeqMonotonic
  <2>3. CASE k \in R
    <3>1. k \notin F
      <4>1. ~(k < k)
        BY <2>1
      <4> QED
        BY <2>3, <4>1
    <3>2. f[k] = p /\ r[k] = Append(q, k) /\ b[k] = Append(Then(p, q), k)
      BY <1>1, <2>3, <2>6, <3>1 DEF OrderStep
    <3> HIDE DEF p, q
    <3>3. Append(Then(p, q), k) = Then(p, Append(q, k))
      BY <2>1, <2>2, AppendedLater
    <3> HIDE DEF Then
    <3>4. b[k] = Then(f[k], r[k])
      BY <3>2, <3>3
    <3> QED
      BY <1>1, <2>1, <3>4
  <2>4. CASE k \in F
    <3>1. R \cap 1..k = {}
      <4> SUFFICES ASSUME NEW v \in R, v \in 1..k PROVE FALSE
        OBVIOUS
      <4>1. k < v
        BY <2>4
      <4> QED
        BY <2>1, <4>1
    <3>2. R \cap 1..k - 1 = {} /\ k \notin R
      BY <2>1, <3>1
    <3>3. q = <<>>
      <4>1. q \in Seq({})
        BY <1>2, <2>1, <3>2
      <4>2. Len(q) = 0
        <5>1. \A i \in 1..Len(q) : q[i] \in {}
          BY <4>1
        <5>2. Len(q) \in Nat
          BY <4>1
        <5>3. Len(q) = 0 \/ 1 \in 1..Len(q)
          BY <5>2
        <5> QED
          BY <5>1, <5>3
      <4> QED
        BY <4>1, <4>2
    <3>4. f[k] = Append(p, k) /\ r[k] = q /\ b[k] = Append(Then(p, q), k)
      BY <1>1, <2>4, <2>6, <3>2 DEF OrderStep
    <3> HIDE DEF p, q
    <3>5. Append(Then(p, <<>>), k) = Then(Append(p, k), <<>>)
      <4>1. p \o <<>> = p /\ Append(p, k) \in Seq(Nat)
        BY <2>1, <2>2, ConcatEmptySeq, Appended
      <4> QED
        BY <4>1, ConcatEmptySeq
    <3> HIDE DEF Then
    <3>6. b[k] = Then(f[k], r[k])
      BY <3>3, <3>4, <3>5
    <3> QED
      BY <1>1, <2>1, <3>6
  <2>5. CASE k \notin F \cup R
    <3>1. f[k] = p /\ r[k] = q /\ b[k] = b[k - 1]
      BY <1>1, <2>5 DEF OrderStep
    <3> HIDE DEF Then, p, q
    <3> QED
      BY <2>6, <3>1
  <2> QED
    BY <2>3, <2>4, <2>5
<1>5. \A k \in 0..SingleUnits : k \in N
  BY <1>1, <1>3, <1>4, UpTo
<1>6. SingleUnits \in 0..SingleUnits
  BY <1>1
<1>7. b[SingleUnits] = f[SingleUnits] \o r[SingleUnits]
  <2>1. b[SingleUnits] = Then(f[SingleUnits], r[SingleUnits])
    <3> HIDE DEF Then
    <3> QED
      BY <1>5, <1>6
  <2> QED
    BY <2>1
<1> QED
  BY <1>7 DEF Slices!Sorted, b, f, r

-----------------------------------------------------------------------------
(* Slicing: every behaviour. *)

Sliceable == [status : {"pending", "awaiting_review"}, text : Seq(Nat), resumeAt : Nat]

(* A leaf holds its range, or will when its writer has done what it is told. *)
Whole(c) ==
    IF leaf[c].status = "awaiting_review"
      THEN leaf[c].text = Slices!Sorted(Slices!Span(c))
      ELSE leaf[c].text \o Slices!Sorted({u \in Slices!Span(c) : u >= leaf[c].resumeAt})
             = Slices!Sorted(Slices!Span(c))

SlicesInv ==
    /\ single \in Seq(1..SingleUnits) /\ cuts \subseteq 1..SingleUnits
    /\ leaf \in [cuts -> Sliceable]
    /\ phase = "sliced" /\ Slices!BrokenOff => \A c \in cuts : Whole(c)

LEMMA SpansAreUnits ==
    ASSUME cuts \subseteq 1..SingleUnits, NEW c \in cuts
    PROVE  Slices!Span(c) \subseteq 1..SingleUnits
BY SlicingUnits DEF Slices!Span

LEMMA SlicesShow == SlicesInv => Slices!NoUnitTwice
BY DEF SlicesInv, Slices!NoUnitTwice, Whole

LEMMA FreshSlice == Slices!Fresh \in Sliceable
<1>1. <<>> \in Seq(Nat)
  OBVIOUS
<1> QED
  BY <1>1 DEF Slices!Fresh, Sliceable

LEMMA SlicesStart ==
    Slices!SliceInit \/ (single = <<>> /\ cuts = {} /\ leaf = <<>> /\ phase = "planned")
      => SlicesInv
<1>1. CASE Slices!SliceInit
  <2>1. PICK m \in 0..MaxParts : single \in [1..m -> 1..SingleUnits]
    BY <1>1 DEF Slices!SliceInit, Slices!SeqOf
  <2>2. m \in Nat
    BY SlicingUnits
  <2>3. single \in Seq(1..SingleUnits)
    <3>1. \A U : [1..m -> U] \subseteq Seq(U)
      BY <2>2
    <3> QED
      BY <2>1, <3>1
  <2> QED
    BY <1>1, <2>3, FreshSlice DEF Slices!SliceInit, SlicesInv
<1>2. CASE single = <<>> /\ cuts = {} /\ leaf = <<>> /\ phase = "planned"
  BY <1>2 DEF SlicesInv
<1> QED
  BY <1>1, <1>2

LEMMA SlicedIsWhole ==
    ASSUME single \in Seq(1..SingleUnits), cuts \subseteq 1..SingleUnits, NEW c \in cuts
    PROVE  LET l == Slices!Sliced(c)
               S == Slices!Span(c)
           IN  /\ l \in Sliceable
               /\ Slices!BrokenOff =>
                     IF l.status = "awaiting_review" THEN l.text = Slices!Sorted(S)
                     ELSE l.text \o Slices!Sorted({u \in S : u >= l.resumeAt}) = Slices!Sorted(S)
<1> DEFINE l == Slices!Sliced(c)
           S == Slices!Span(c)
           W == {single[i] : i \in DOMAIN single}
           F == W \cap S
           s == Slices!Sorted(F)
<1>1. S \subseteq 1..SingleUnits /\ F \subseteq S /\ F \subseteq 1..SingleUnits
  BY SpansAreUnits
<1>2. Slices!Found(c) = s /\ Slices!Range(single) = W
  BY DEF Slices!Found, Slices!Range
<1>3. s \in Seq(F) /\ s \in Seq(Nat) /\ Len(s) = Cardinality(F)
  <2>1. F \subseteq Nat
    BY <1>1
  <2> HIDE DEF F
  <2> QED
    BY <1>1, <2>1, SortedIs, SeqMonotonic
<1>4. \A u \in S : u \in Nat /\ u >= 0
  BY <1>1
<1> HIDE DEF S, F, W, s
<1>5. CASE rangeIn[c] # "gates" \/ s = <<>>
  <2>1. l = Slices!Fresh
    BY <1>2, <1>5 DEF Slices!Sliced
  <2>2. l.status = "pending" /\ l.text = <<>> /\ l.resumeAt = 0
    BY <2>1 DEF Slices!Fresh
  <2>3. {u \in S : u >= 0} = S
    BY <1>4
  <2>4. Slices!Sorted(S) \in Seq(S)
    BY <1>1, SortedIs
  <2>5. <<>> \o Slices!Sorted(S) = Slices!Sorted(S)
    BY <2>4
  <2> HIDE DEF l
  <2> QED
    BY <2>1, <2>2, <2>3, <2>5, FreshSlice DEF l, S
<1>6. CASE ~(rangeIn[c] # "gates" \/ s = <<>>) /\ Len(s) >= Cardinality(S)
  <2>1. Slices!Cardinality(S) = Cardinality(S)
    BY Zenon DEF Slices!Cardinality, Cardinality
  <2>2. l = [status |-> "awaiting_review", text |-> s, resumeAt |-> 0]
    BY <1>2, <1>6, <2>1 DEF Slices!Sliced, S
  <2>3. F = S
    <3>1. IsFiniteSet(S)
      <4>1. IsFiniteSet(1..SingleUnits)
        BY SlicingUnits, FS_Interval
      <4> QED
        BY <1>1, <4>1, FS_Subset
    <3>2. Cardinality(F) = Cardinality(S) => F = S
      BY <1>1, <3>1, FS_Subset
    <3>4. Cardinality(F) <= Cardinality(S)
      BY <1>1, <3>1, FS_Subset
    <3>3. Cardinality(F) \in Nat /\ Cardinality(S) \in Nat
      BY <1>1, <3>1, FS_Subset, FS_CardinalityType
    <3> QED
      BY <1>3, <1>6, <3>2, <3>3, <3>4
  <2>4. l \in Sliceable
    BY <1>3, <2>2 DEF Sliceable
  <2> QED
    BY <2>2, <2>3, <2>4 DEF s, S
<1>7. CASE ~(rangeIn[c] # "gates" \/ s = <<>>) /\ ~(Len(s) >= Cardinality(S))
  <2> DEFINE m == s[Len(s)]
  <2>1. Slices!Cardinality(S) = Cardinality(S)
    BY Zenon DEF Slices!Cardinality, Cardinality
  <2>2. l = [status |-> "pending", text |-> s, resumeAt |-> m + 1]
    BY <1>2, <1>7, <2>1 DEF Slices!Sliced, Slices!ResumeAt, S
  <2>3. m \in F /\ \A v \in F : v <= m
    <3>1. F # {}
      <4>1. Len(s) \in Nat /\ Len(s) # 0
        BY <1>3, <1>7
      <4> QED
        BY <1>3, <4>1, FS_EmptySet
    <3> QED
      BY <1>1, <3>1, SortedIs DEF s
  <2>4. m \in Nat /\ m \in W /\ m \in 1..SingleUnits
    BY <1>1, <2>3 DEF F
  <2> HIDE DEF m
  <2>5. l \in Sliceable
    BY <1>3, <2>2, <2>4 DEF Sliceable
  <2>6. ASSUME Slices!BrokenOff
        PROVE  s \o Slices!Sorted({u \in S : u >= m + 1}) = Slices!Sorted(S)
    <3> DEFINE R == {u \in S : u >= m + 1}
    <3>1. \A u \in 1..m : u \in W
      <4>1. PICK i \in DOMAIN single : single[i] = m
        BY <2>4 DEF W
      <4> QED
        BY <1>2, <2>6, <4>1 DEF Slices!BrokenOff
    <3>2. F \cup R = S
      <4>1. ASSUME NEW u \in S PROVE u \in F \cup R
        <5>1. u \in 1..SingleUnits /\ u \in Nat
          BY <1>1
        <5>2. u \in 1..m \/ u >= m + 1
          BY <2>4, <5>1
        <5> QED
          BY <3>1, <5>2 DEF F
      <4> QED
        BY <1>1, <4>1
    <3>3. \A u \in F, v \in R : u < v
      <4>1. \A u \in F : u \in Nat /\ u <= m
        BY <1>1, <2>3
      <4>2. \A v \in R : v \in Nat /\ v >= m + 1
        BY <1>1
      <4> QED
        BY <2>4, <4>1, <4>2
    <3>4. R \subseteq 1..SingleUnits
      BY <1>1
    <3> HIDE DEF R
    <3> QED
      BY <1>1, <3>2, <3>3, <3>4, SortedConcat DEF s, R
  <2> QED
    BY <2>2, <2>5, <2>6 DEF S
<1> QED
  BY <1>5, <1>6, <1>7

LEMMA SlicesStep == ASSUME SlicesInv, Slices!SliceNext PROVE SlicesInv'
<1>1. single \in Seq(1..SingleUnits) /\ cuts \subseteq 1..SingleUnits /\ leaf \in [cuts -> Sliceable]
  BY DEF SlicesInv
<1>2. UNCHANGED <<single, cuts, rangeIn>>
  BY DEF Slices!SliceNext, Slices!SliceSingle, Slices!WriteLeaf
<1>3. Slices!BrokenOff' <=> Slices!BrokenOff
  BY <1>2 DEF Slices!BrokenOff, Slices!Range
<1>4. \A c : Slices!Span(c)' = Slices!Span(c)
  BY <1>2 DEF Slices!Span
<1>5. CASE Slices!SliceSingle /\ phase' = "raised"
  BY <1>1, <1>2, <1>5 DEF Slices!SliceSingle, SlicesInv
<1>6. CASE Slices!SliceSingle /\ phase' # "raised"
  <2>1. leaf' = [c \in cuts |-> IF single = <<>> THEN Slices!Fresh ELSE Slices!Sliced(c)]
    BY <1>6 DEF Slices!SliceSingle
  <2>2. CASE single = <<>>
    <3>1. leaf' \in [cuts -> Sliceable] /\ \A c \in cuts : leaf'[c] = Slices!Fresh
      BY <2>1, <2>2, FreshSlice
    <3>2. \A c \in cuts : Whole(c)'
      <4> SUFFICES ASSUME NEW c \in cuts PROVE Whole(c)'
        OBVIOUS
      <4> DEFINE S == Slices!Span(c)
      <4>1. S \subseteq 1..SingleUnits
        BY <1>1, SpansAreUnits
      <4>2. {u \in S : u >= 0} = S
        BY <4>1
      <4> HIDE DEF S
      <4>3. Slices!Sorted(S) \in Seq(S)
        BY <4>1, SortedIs
      <4>4. <<>> \o Slices!Sorted(S) = Slices!Sorted(S)
        BY <4>3
      <4>5. leaf'[c].status = "pending" /\ leaf'[c].text = <<>> /\ leaf'[c].resumeAt = 0
        BY <3>1 DEF Slices!Fresh
      <4>6. Slices!Span(c)' = S
        BY <1>4 DEF S
      <4> QED
        BY <4>2, <4>4, <4>5, <4>6 DEF Whole
    <3> QED
      BY <1>1, <1>2, <3>1, <3>2 DEF SlicesInv
  <2>3. CASE single # <<>>
    <3>1. \A c \in cuts : leaf'[c] = Slices!Sliced(c)
      BY <2>1, <2>3
    <3>2. leaf' \in [cuts -> Sliceable]
      <4>1. \A c \in cuts : Slices!Sliced(c) \in Sliceable
        BY <1>1, SlicedIsWhole
      <4> QED
        BY <2>1, <2>3, <4>1
    <3>3. Slices!BrokenOff => \A c \in cuts : Whole(c)'
      <4> SUFFICES ASSUME Slices!BrokenOff, NEW c \in cuts PROVE Whole(c)'
        OBVIOUS
      <4>1. Slices!Span(c)' = Slices!Span(c)
        BY <1>4
      <4> QED
        BY <1>1, <3>1, <4>1, SlicedIsWhole DEF Whole
    <3> QED
      BY <1>1, <1>2, <1>3, <3>2, <3>3 DEF SlicesInv
  <2> QED
    BY <2>2, <2>3
<1>7. ASSUME NEW c \in cuts, phase = "sliced", Slices!WriteLeaf(c) PROVE SlicesInv'
  <2> DEFINE S == Slices!Span(c)
             R == {u \in S : u >= leaf[c].resumeAt}
             new == [status |-> "awaiting_review", resumeAt |-> 0,
                     text |-> leaf[c].text \o Slices!Sorted(R)]
  <2>1. leaf[c].status = "pending" /\ phase' = phase /\ leaf' = [leaf EXCEPT ![c] = new]
    BY <1>7 DEF Slices!WriteLeaf
  <2>2. leaf[c].text \in Seq(Nat)
    BY <1>1 DEF Sliceable
  <2>3. R \subseteq 1..SingleUnits
    BY <1>1, SpansAreUnits
  <2>4. Slices!Sorted(R) \in Seq(Nat)
    <3>1. R \subseteq Nat
      BY <2>3
    <3> HIDE DEF R
    <3> QED
      BY <2>3, <3>1, SortedIs, SeqMonotonic
  <2>5. new \in Sliceable
    BY <2>2, <2>4 DEF Sliceable
  <2>6. leaf' \in [cuts -> Sliceable] /\ leaf'[c] = new /\ \A d \in cuts \ {c} : leaf'[d] = leaf[d]
    <3> HIDE DEF new
    <3> QED
      BY <1>1, <2>1, <2>5
  <2>7. ASSUME Slices!BrokenOff, NEW d \in cuts PROVE Whole(d)'
    <3>1. Whole(d)
      BY <1>7, <2>7 DEF SlicesInv
    <3>2. Slices!Span(d)' = Slices!Span(d)
      BY <1>4
    <3>3. CASE d = c
      <4>1. new.text = Slices!Sorted(S)
        BY <2>1, <3>1, <3>3 DEF Whole
      <4> HIDE DEF S
      <4>2. new.status = "awaiting_review"
        OBVIOUS
      <4> HIDE DEF new
      <4> QED
        BY <2>6, <3>2, <3>3, <4>1, <4>2 DEF Whole, S
    <3>4. CASE d # c
      BY <2>6, <3>1, <3>2, <3>4 DEF Whole
    <3> QED
      BY <3>3, <3>4
  <2> QED
    BY <1>1, <1>2, <1>3, <2>6, <2>7 DEF SlicesInv
<1> QED
  BY <1>5, <1>6, <1>7 DEF Slices!SliceNext

LEMMA SlicesStayPut ==
    ASSUME SlicesInv, UNCHANGED sliceVars PROVE SlicesInv'
<1>1. UNCHANGED <<single, cuts, rangeIn, leaf, phase>>
  BY DEF sliceVars
<1>2. \A c : Slices!Span(c)' = Slices!Span(c)
  BY <1>1 DEF Slices!Span
<1>3. \A c \in cuts : Whole(c)' <=> Whole(c)
  BY <1>1, <1>2 DEF Whole
<1>4. Slices!BrokenOff' <=> Slices!BrokenOff
  BY <1>1 DEF Slices!BrokenOff, Slices!Range
<1> QED
  BY <1>1, <1>3, <1>4 DEF SlicesInv

-----------------------------------------------------------------------------
(* Planning: what a slice, a candidate and a leaf are made of. *)

Piece == (UNION {Plan!ToSet(id) : id \in PlanIds}) \cup {".", "-", "gap", "root", "unit"} \cup Nat
Name == Seq(Piece)
Partial(A, B) == UNION {[D -> B] : D \in SUBSET A}
Part == [lo : Nat, hi : Nat, gap : BOOLEAN]
Cand == [id : Name, lo : Nat, hi : Nat, fits : BOOLEAN, deps : SUBSET Name]
Node == [id : Name, lo : Nat, hi : Nat, deps : SUBSET Name]
Frame == [lo : Nat, hi : Nat, depth : Nat, path : Name, at : {"entered", "planned"},
          todo : Seq(Cand), leaves : Seq(Cand), final : Partial(Name, Name),
          below : Partial(Name, SUBSET Name)]

Holds(r, u) == r.lo <= u /\ u <= r.hi
HeldIn(s, from, u) == \E i \in from..Len(s) : Holds(s[i], u)

(* The ranges of a sequence are inside lo..hi, one above the other.          *)
Rising(s, lo, hi) ==
    /\ \A i \in 1..Len(s) : lo <= s[i].lo /\ s[i].lo <= s[i].hi /\ s[i].hi <= hi
    /\ \A i, j \in 1..Len(s) : i < j => s[i].hi < s[j].lo

(* They are all of lo..hi.                                                   *)
Tiles(s, lo, hi) == Rising(s, lo, hi) /\ \A u \in lo..hi : HeldIn(s, 1, u)

(* A slice in itself: its leaves are below what it has to do, and have the   *)
(* name they will have in the tree.                                          *)
FrameFine(f) ==
    /\ 1 <= f.lo /\ f.lo <= f.hi
    /\ f.at = "entered" => f.todo = <<>> /\ f.leaves = <<>>
    /\ Rising(f.leaves, f.lo, f.hi) /\ Rising(f.todo, f.lo, f.hi)
    /\ \A i \in 1..Len(f.leaves), j \in 1..Len(f.todo) : f.leaves[i].hi < f.todo[j].lo
    /\ \A i \in 1..Len(f.leaves) : f.leaves[i].id \in DOMAIN f.final

(* A slice within the calls: those that wait for it are at a candidate that  *)
(* holds it.                                                                 *)
Nested ==
    /\ \A i \in 1..Len(stack) : stack[i].hi <= spine.units /\ stack[i].depth = Len(stack) - i
    /\ \A i \in 2..Len(stack) :
          /\ stack[i].at = "planned" /\ stack[i].todo # <<>>
          /\ \A j \in 1..i - 1 :
                stack[i].todo[1].lo <= stack[j].lo /\ stack[j].hi <= stack[i].todo[1].hi

(* What a slice has still to give to the tree: its leaves and what it has to *)
(* do, less the candidate that a call it waits for is about.                 *)
Pending(k, u) ==
    \/ HeldIn(stack[k].leaves, 1, u)
    \/ k = 1 /\ stack[k].at = "entered" /\ Holds(stack[k], u)
    \/ HeldIn(stack[k].todo, IF k = 1 THEN 1 ELSE 2, u)

PlanTyped ==
    /\ spine \in [units : Nat, counted : BOOLEAN, code_tiles : BOOLEAN]
    /\ stack \in Seq(Frame) /\ nodes \in Seq(Node)
    /\ taken \in 0..NodeCap /\ reported \in BOOLEAN

PlanShape == Len(stack) <= DepthCap + 1 /\ (\A i \in 1..Len(stack) : FrameFine(stack[i])) /\ Nested

(* No unit is in two places, and none is in no place unless that was         *)
(* reported.                                                                 *)
PlanPlaces ==
    /\ \A u \in 1..spine.units : \A k \in 1..Len(stack) :
          Pending(k, u) => ~HeldIn(nodes, 1, u)
    /\ \A u \in 1..spine.units : \A i, j \in 1..Len(nodes) :
          Holds(nodes[i], u) /\ Holds(nodes[j], u) => i = j
    /\ ~reported => \A u \in 1..spine.units :
          HeldIn(nodes, 1, u) \/ \E k \in 1..Len(stack) : Pending(k, u)

Distinct(ns) == \A i, j \in 1..Len(ns) : ns[i].id = ns[j].id => i = j

(* f sums up the leaves of the calls, the outermost first.                   *)
Sums(f) ==
    /\ f \in [0..Len(stack) -> Nat] /\ f[0] = 0
    /\ \A d \in 1..Len(stack) : f[d] = f[d - 1] + Len(stack[Len(stack) - d + 1].leaves)

(* The budget is what is in the tree and what waits to be.                   *)
PlanCounts ==
    /\ stack # <<>> /\ (stack[1].at = "entered" \/ stack[1].todo # <<>>) => taken < NodeCap
    /\ \E f : Sums(f) /\ taken = Len(nodes) + f[Len(stack)]

PlanInv == PlanTyped /\ PlanShape /\ PlanPlaces /\ Distinct(nodes) /\ PlanCounts

LEMMA PlanBounds ==
    /\ DepthCap \in Nat /\ DepthCap >= 1 /\ NodeCap \in Nat /\ NodeCap >= 1
    /\ MaxUnits \in Nat /\ MaxClaims \in Nat
BY PreparationAssumption DEF Plan!PlanningAssumption

LEMMA PiecesMakeNames ==
    /\ PlanIds \subseteq Name /\ <<>> \in Name /\ <<"root">> \in Name /\ <<".">> \in Name
    /\ \A u \in Nat : <<"unit", u>> \in Name /\ <<"-", u>> \in Name
    /\ \A u, v \in Nat : <<"gap", u, v>> \in Name
<1>1. \A id \in PlanIds : Plan!ToSet(id) \subseteq Piece
  BY DEF Piece
<1>2. \A id \in PlanIds : id \in Seq(Plan!ToSet(id))
  BY PreparationAssumption DEF Plan!PlanningAssumption
<1>3. {".", "-", "gap", "root", "unit"} \subseteq Piece /\ Nat \subseteq Piece
  BY DEF Piece
<1> HIDE DEF Piece
<1>4. PlanIds \subseteq Name
  BY <1>1, <1>2, SeqMonotonic DEF Name
<1> QED
  BY <1>3, <1>4 DEF Name

LEMMA JoinedName ==
    ASSUME NEW path \in Name, NEW id \in Name PROVE Plan!Joined(path, id) \in Name
<1>1. path \o <<".">> \o id \in Name
  BY PiecesMakeNames, ConcatProperties DEF Name
<1> QED
  BY <1>1 DEF Plan!Joined

LEMMA PutIs ==
    ASSUME NEW A, NEW B, NEW f \in Partial(A, B), NEW a \in A, NEW b \in B
    PROVE  /\ Plan!Put(f, a, b) \in Partial(A, B)
           /\ DOMAIN Plan!Put(f, a, b) = DOMAIN f \cup {a}
<1>1. PICK D \in SUBSET A : f \in [D -> B]
  BY DEF Partial
<1>2. Plan!Put(f, a, b) \in [D \cup {a} -> B]
  BY <1>1 DEF Plan!Put
<1>3. D \cup {a} \in SUBSET A
  OBVIOUS
<1> QED
  BY <1>1, <1>2, <1>3 DEF Partial

\* A name filed under a name.
LEMMA NamedIs ==
    ASSUME NEW f \in Partial(Name, Name), NEW a \in Name, NEW b \in Name
    PROVE  /\ Plan!Put(f, a, b) \in Partial(Name, Name)
           /\ DOMAIN Plan!Put(f, a, b) = DOMAIN f \cup {a}
<1>1. PICK D \in SUBSET Name : f \in [D -> Name]
  BY DEF Partial
<1>2. Plan!Put(f, a, b) \in [D \cup {a} -> Name]
  BY <1>1 DEF Plan!Put
<1>3. D \cup {a} \in SUBSET Name
  OBVIOUS
<1> QED
  BY <1>1, <1>2, <1>3 DEF Partial

LEMMA UniqueName ==
    ASSUME NEW ns \in Seq(Node), NEW id \in Name
    PROVE  /\ Plan!UniqueIn(ns, id) \in Name
           /\ \A i \in 1..Len(ns) : ns[i].id # Plan!UniqueIn(ns, id)
<1> DEFINE n == Len(ns)
           With(k) == id \o <<"-", k>>
           free == {k \in 2..n + 2 : With(k) \notin Plan!IdsOf(ns)}
<1>1. n \in Nat /\ DOMAIN ns = 1..n
  OBVIOUS
<1>2. Plan!IdsOf(ns) = {ns[i].id : i \in 1..n}
  BY <1>1 DEF Plan!IdsOf
<1>3. \A k \in Nat : With(k) \in Name /\ With(k)[Len(id) + 2] = k
  <2> SUFFICES ASSUME NEW k \in Nat PROVE With(k) \in Name /\ With(k)[Len(id) + 2] = k
    OBVIOUS
  <2>1. id \in Seq(Piece) /\ <<"-", k>> \in Seq(Piece)
    BY PiecesMakeNames DEF Name
  <2> QED
    BY <2>1 DEF Name
<1> HIDE DEF n, With
<1>4. CASE id \notin Plan!IdsOf(ns)
  BY <1>2, <1>4 DEF Plan!UniqueIn, n
<1>5. CASE id \in Plan!IdsOf(ns)
  <2>1. free # {}
    <3> SUFFICES ASSUME free = {} PROVE FALSE
      OBVIOUS
    <3> DEFINE g == [k \in 2..n + 2 |-> CHOOSE i \in 1..n : ns[i].id = With(k)]
    <3>1. \A k \in 2..n + 2 : \E i \in 1..n : ns[i].id = With(k)
      BY <1>2
    <3>2. \A k \in 2..n + 2 : g[k] \in 1..n /\ ns[g[k]].id = With(k)
      BY <3>1
    <3>3. g \in [2..n + 2 -> 1..n]
      BY <3>2
    <3> HIDE DEF g
    <3>4. /\ IsFiniteSet(1..n) /\ Cardinality(1..n) = n
          /\ IsFiniteSet(2..n + 2) /\ Cardinality(2..n + 2) = n + 1
      BY <1>1, FS_Interval
    <3>5. PICK k, l \in 2..n + 2 : k # l /\ g[k] = g[l]
      <4> DEFINE K == 2..n + 2
                 I == 1..n
      <4>1. IsFiniteSet(K) /\ IsFiniteSet(I) /\ Cardinality(I) < Cardinality(K) /\ g \in [K -> I]
        BY <1>1, <3>3, <3>4
      <4> HIDE DEF K, I
      <4>2. \E x, y \in K : x # y /\ g[x] = g[y]
        BY <4>1, FS_PigeonHole
      <4> QED
        BY <4>2 DEF K
    <3>6. With(k) = With(l)
      BY <3>2, <3>5
    <3> QED
      BY <1>1, <1>3, <3>5, <3>6
  <2>2. free \subseteq Nat
    BY <1>1
  <2>3. PICK k \in free : \A l \in free : k <= l
    BY <2>1, <2>2, LeastOf
  <2> DEFINE c == CHOOSE k2 \in free : \A l \in free : k2 <= l
  <2>4. c \in free
    BY <2>3
  <2>5. Plan!UniqueIn(ns, id) = With(c)
    BY <1>5 DEF Plan!UniqueIn, n, With
  <2> HIDE DEF c
  <2>6. With(c) \in Name /\ With(c) \notin Plan!IdsOf(ns)
    BY <1>1, <1>3, <2>4
  <2> QED
    BY <1>2, <2>5, <2>6 DEF n
<1> QED
  BY <1>4, <1>5

-----------------------------------------------------------------------------
(* Planning: whatever the answer claims, its parts tile the slice. *)

LEMMA TileOn ==
    ASSUME NEW S, \A r \in S : r.lo \in Nat /\ r.hi \in Nat,
           NEW s \in Seq(S), NEW lo \in Nat, NEW t \in Int, NEW r \in S, lo - 1 <= t,
           Tiles(s, lo, t), r.lo = t + 1, r.lo <= r.hi
    PROVE  /\ s \o <<r>> \in Seq(S)
           /\ Tiles(s \o <<r>>, lo, r.hi)
<1> DEFINE n == Len(s)
           x == s \o <<r>>
<1>1. /\ n \in Nat /\ x \in Seq(S) /\ Len(x) = n + 1 /\ x[n + 1] = r
      /\ \A i \in 1..n : x[i] = s[i] /\ s[i] \in S
  OBVIOUS
<1>2. Rising(s, lo, t) /\ \A u \in lo..t : HeldIn(s, 1, u)
  BY DEF Tiles
<1> HIDE DEF n, x
<1>3. Rising(x, lo, r.hi)
  <2>1. \A i \in 1..n : /\ lo <= s[i].lo /\ s[i].lo <= s[i].hi /\ s[i].hi <= t
                        /\ s[i].lo \in Nat /\ s[i].hi \in Nat
    BY <1>1, <1>2 DEF Rising, n
  <2>2. r.lo \in Nat /\ r.hi \in Nat
    OBVIOUS
  <2>3. \A i \in 1..n + 1 : lo <= x[i].lo /\ x[i].lo <= x[i].hi /\ x[i].hi <= r.hi
    <3> SUFFICES ASSUME NEW i \in 1..n + 1
                 PROVE  lo <= x[i].lo /\ x[i].lo <= x[i].hi /\ x[i].hi <= r.hi
      OBVIOUS
    <3>1. CASE i \in 1..n
      BY <1>1, <2>1, <2>2, <3>1
    <3>2. CASE i = n + 1
      BY <1>1, <2>2, <3>2
    <3> QED
      BY <1>1, <3>1, <3>2
  <2>4. \A i, j \in 1..n + 1 : i < j => x[i].hi < x[j].lo
    <3> SUFFICES ASSUME NEW i \in 1..n + 1, NEW j \in 1..n + 1, i < j
                 PROVE  x[i].hi < x[j].lo
      OBVIOUS
    <3>1. i \in 1..n
      BY <1>1
    <3>2. CASE j \in 1..n
      BY <1>1, <1>2, <3>1, <3>2 DEF Rising, n
    <3>3. CASE j = n + 1
      BY <1>1, <2>1, <2>2, <3>1, <3>3
    <3> QED
      BY <1>1, <3>2, <3>3
  <2> QED
    BY <1>1, <2>3, <2>4 DEF Rising
<1>4. ASSUME NEW u \in lo..r.hi PROVE HeldIn(x, 1, u)
  <2>1. r.hi \in Nat /\ r.lo \in Nat
    OBVIOUS
  <2>2. CASE u <= t
    <3>1. PICK i \in 1..n : Holds(s[i], u)
      BY <1>2, <2>2 DEF HeldIn, n
    <3> QED
      BY <1>1, <3>1 DEF HeldIn
  <2>3. CASE u > t
    <3>1. Holds(x[n + 1], u)
      BY <1>1, <2>1, <2>3 DEF Holds
    <3> QED
      BY <1>1, <3>1 DEF HeldIn
  <2> QED
    BY <2>2, <2>3
<1> QED
  BY <1>1, <1>3, <1>4 DEF Tiles, x

Claim(lo, hi) == {c \in [lo : lo..hi, hi : lo..hi] : c.lo <= c.hi}

(* What has been accepted so far.                                            *)
Accepts(done, lo, hi) ==
    /\ done = [through |-> done.through, parts |-> done.parts]
    /\ done.through \in lo - 1..hi /\ done.parts \in Seq(Part)
    /\ Tiles(done.parts, lo, done.through)

LEMMA AcceptedTiles ==
    ASSUME NEW lo \in Nat, NEW hi \in Nat, NEW done, Accepts(done, lo, hi), NEW c \in Claim(lo, hi)
    PROVE  Accepts(Plan!Accepted(done, c), lo, hi)
<1> DEFINE t == done.through
           p == done.parts
           l == IF c.lo <= t THEN t + 1 ELSE c.lo
           part == [lo |-> l, hi |-> c.hi, gap |-> FALSE]
           gap == Plan!Gap(t + 1, l - 1)
<1>1. c.lo \in lo..hi /\ c.hi \in lo..hi /\ c.lo <= c.hi
  BY DEF Claim
<1>2. t \in lo - 1..hi /\ p \in Seq(Part) /\ Tiles(p, lo, t)
  BY DEF Accepts
<1>3. \A r \in Part : r.lo \in Nat /\ r.hi \in Nat
  BY DEF Part
<1> HIDE DEF t, p
<1>4. CASE c.hi <= t
  <2>1. Plan!Accepted(done, c) = done
    BY <1>4 DEF Plan!Accepted, t
  <2> QED
    BY <2>1
<1>5. CASE ~(c.hi <= t)
  <2>1. /\ l \in t + 1..c.hi /\ l \in Nat /\ t \in Int /\ lo - 1 <= t
    BY <1>1, <1>2, <1>5
  <2>2. part \in Part /\ part.lo = l /\ part.hi = c.hi
    BY <1>1, <2>1 DEF Part
  <2>3. CASE l > t + 1
    <3>1. gap \in Part /\ gap.lo = t + 1 /\ gap.hi = l - 1
      BY <1>1, <1>2, <2>1, <2>3 DEF Plan!Gap, Part
    <3> DEFINE q == p \o <<gap>>
               r == q \o <<part>>
    <3>2. Plan!Accepted(done, c) = [through |-> c.hi, parts |-> r]
      BY <1>5, <2>3 DEF Plan!Accepted, t, p
    <3> HIDE DEF gap
    <3>3. q \in Seq(Part) /\ Tiles(q, lo, l - 1)
      <4>1. gap.lo <= gap.hi
        BY <1>2, <2>1, <2>3, <3>1
      <4> HIDE DEF l
      <4> QED
        BY <1>2, <1>3, <2>1, <3>1, <4>1, TileOn
    <3> HIDE DEF q, part
    <3>4. r \in Seq(Part) /\ Tiles(r, lo, c.hi)
      <4>1. l - 1 \in Int /\ lo - 1 <= l - 1 /\ part.lo = (l - 1) + 1 /\ part.lo <= part.hi
        BY <1>1, <2>1, <2>2
      <4> HIDE DEF l
      <4> QED
        BY <1>3, <2>2, <3>3, <4>1, TileOn
    <3> HIDE DEF r
    <3> QED
      BY <1>1, <3>2, <3>4 DEF Accepts
  <2>4. CASE ~(l > t + 1)
    <3> DEFINE r == p \o <<part>>
    <3>1. p \o <<>> = p
      BY <1>2, ConcatEmptySeq
    <3>2. Plan!Accepted(done, c) = [through |-> c.hi, parts |-> (p \o <<>>) \o <<part>>]
      BY <1>5, <2>4 DEF Plan!Accepted, t, p
    <3>3. Plan!Accepted(done, c) = [through |-> c.hi, parts |-> r]
      BY <3>1, <3>2
    <3>4. r \in Seq(Part) /\ Tiles(r, lo, c.hi)
      <4>1. part.lo = t + 1 /\ part.lo <= part.hi
        BY <2>1, <2>2, <2>4
      <4> HIDE DEF part, l
      <4> QED
        BY <1>2, <1>3, <2>1, <2>2, <4>1, TileOn
    <3> HIDE DEF r
    <3> QED
      BY <1>1, <3>3, <3>4 DEF Accepts
  <2> QED
    BY <2>3, <2>4
<1> QED
  BY <1>4, <1>5

LEMMA AcceptingUnfolds ==
    ASSUME NEW S, NEW claims \in Seq(S), NEW lo
    PROVE  /\ Plan!Accepting(claims, lo)[0] = [through |-> lo - 1, parts |-> <<>>]
           /\ \A k \in 1..Len(claims) : Plan!Accepting(claims, lo)[k] = Plan!Accepted(Plan!Accepting(claims, lo)[k - 1], claims[k])
<1> DEFINE m == Len(claims)
           Is(g, l) == g = [k \in 0..l |-> IF k = 0 THEN [through |-> lo - 1, parts |-> <<>>] ELSE Plan!Accepted(g[k - 1], claims[k])]
           N == {l \in 0..m : \E g : Is(g, l)}
<1>1. m \in Nat
  OBVIOUS
<1>2. 0 \in N
  <2> DEFINE g == [j \in 0..0 |-> [through |-> lo - 1, parts |-> <<>>]]
  <2>1. Is(g, 0)
    OBVIOUS
  <2> HIDE DEF g, Is, m
  <2> QED
    BY <1>1, <2>1
<1>3. ASSUME NEW l \in 1..m, l - 1 \in N PROVE l \in N
  <2> HIDE DEF m
  <2>1. PICK g : Is(g, l - 1)
    BY <1>3
  <2> DEFINE h == [k \in 0..l |-> IF k < l THEN g[k] ELSE Plan!Accepted(g[l - 1], claims[l])]
  <2>2. \A k \in 0..l : h[k] = IF k = 0 THEN [through |-> lo - 1, parts |-> <<>>] ELSE Plan!Accepted(h[k - 1], claims[k])
    BY <1>1, <2>1
  <2>3. Is(h, l)
    BY <2>2
  <2> HIDE DEF h, Is
  <2> QED
    BY <1>1, <2>3
<1> HIDE DEF Is
<1>4. PICK g : Is(g, m)
  <2> HIDE DEF m
  <2>1. \A l \in 0..m : l \in N
    BY <1>1, <1>2, <1>3, UpTo
  <2> QED
    BY <1>1, <2>1
<1>5. Plan!Accepting(claims, lo) = CHOOSE x : Is(x, m)
  BY Zenon DEF Plan!Accepting, Is
<1>6. Is(Plan!Accepting(claims, lo), m)
  BY <1>4, <1>5
<1> QED
  BY <1>1, <1>6 DEF Is

LEMMA TiledTiles ==
    ASSUME NEW lo \in Nat, NEW hi \in Nat, lo >= 1, lo <= hi, NEW claims \in Seq(Claim(lo, hi))
    PROVE  Plan!Tiled(claims, lo, hi) \in Seq(Part) /\ Tiles(Plan!Tiled(claims, lo, hi), lo, hi)
<1> DEFINE n == Len(claims)
           f == Plan!Accepting(claims, lo)
           N == {k \in 0..n : Accepts(f[k], lo, hi)}
<1>1. n \in Nat /\ \A k \in 1..n : claims[k] \in Claim(lo, hi)
  OBVIOUS
<1>2. /\ f[0] = [through |-> lo - 1, parts |-> <<>>]
      /\ \A k \in 1..n : f[k] = Plan!Accepted(f[k - 1], claims[k])
  BY AcceptingUnfolds
<1> HIDE DEF n, f
<1>3. 0 \in N
  <2>1. Tiles(<<>>, lo, lo - 1) /\ <<>> \in Seq(Part)
    BY DEF Tiles, Rising
  <2>2. Accepts(f[0], lo, hi)
    BY <1>2, <2>1 DEF Accepts
  <2> QED
    BY <1>1, <2>2
<1>4. ASSUME NEW k \in 1..n, k - 1 \in N PROVE k \in N
  <2>1. claims[k] \in Claim(lo, hi) /\ Accepts(f[k - 1], lo, hi)
    BY <1>1, <1>4
  <2>2. Accepts(Plan!Accepted(f[k - 1], claims[k]), lo, hi)
    BY <2>1, AcceptedTiles
  <2> QED
    BY <1>1, <1>2, <2>2
<1>5. \A k \in 0..n : k \in N
  BY <1>1, <1>3, <1>4, UpTo
<1>6. Accepts(f[n], lo, hi)
  BY <1>1, <1>5
<1> DEFINE t == f[n].through
           p == f[n].parts
<1>7. t \in lo - 1..hi /\ p \in Seq(Part) /\ Tiles(p, lo, t)
  BY <1>6 DEF Accepts
<1>8. Plan!Tiled(claims, lo, hi)
        = p \o (IF t < hi THEN <<Plan!Gap(t + 1, hi)>> ELSE <<>>)
  BY DEF Plan!Tiled, f, n
<1> HIDE DEF t, p
<1>9. CASE t < hi
  <2> DEFINE gap == Plan!Gap(t + 1, hi)
  <2>1. gap \in Part /\ gap.lo = t + 1 /\ gap.hi = hi
    BY <1>7, <1>9 DEF Plan!Gap, Part
  <2>2. \A r \in Part : r.lo \in Nat /\ r.hi \in Nat
    BY DEF Part
  <2>3. t \in Int /\ lo - 1 <= t /\ gap.lo <= gap.hi
    BY <1>7, <1>9, <2>1
  <2> HIDE DEF gap
  <2>4. p \o <<gap>> \in Seq(Part) /\ Tiles(p \o <<gap>>, lo, hi)
    BY <1>7, <2>1, <2>2, <2>3, TileOn
  <2> QED
    BY <1>8, <1>9, <2>4 DEF gap
<1>10. CASE ~(t < hi)
  <2>1. t = hi
    BY <1>7, <1>10
  <2>2. p \o <<>> = p
    BY <1>7, ConcatEmptySeq
  <2> QED
    BY <1>7, <1>8, <1>10, <2>1, <2>2
<1> QED
  BY <1>9, <1>10

-----------------------------------------------------------------------------
(* Planning: the candidates are the parts, whatever they are called, and     *)
(* leaving out dependencies changes no range.                                *)

NoAnswer == {<<>>}

LEMMA AnsweringUnfolds ==
    ASSUME NEW S, NEW parts \in Seq(S)
    PROVE  /\ Plan!Answering(parts)[0] = NoAnswer
           /\ \A k \in 1..Len(parts) : Plan!Answering(parts)[k] = Plan!AndThen(Plan!Answering(parts)[k - 1], parts[k])
<1> DEFINE m == Len(parts)
           Is(g, l) == g = [k \in 0..l |-> IF k = 0 THEN NoAnswer ELSE Plan!AndThen(g[k - 1], parts[k])]
           N == {l \in 0..m : \E g : Is(g, l)}
<1>1. m \in Nat
  OBVIOUS
<1>2. 0 \in N
  <2> DEFINE g == [j \in 0..0 |-> NoAnswer]
  <2>1. Is(g, 0)
    OBVIOUS
  <2> HIDE DEF g, Is, m
  <2> QED
    BY <1>1, <2>1
<1>3. ASSUME NEW l \in 1..m, l - 1 \in N PROVE l \in N
  <2> HIDE DEF m
  <2>1. PICK g : Is(g, l - 1)
    BY <1>3
  <2> DEFINE h == [k \in 0..l |-> IF k < l THEN g[k] ELSE Plan!AndThen(g[l - 1], parts[l])]
  <2>2. \A k \in 0..l : h[k] = IF k = 0 THEN NoAnswer ELSE Plan!AndThen(h[k - 1], parts[k])
    BY <1>1, <2>1
  <2>3. Is(h, l)
    BY <2>2
  <2> HIDE DEF h, Is
  <2> QED
    BY <1>1, <2>3
<1> HIDE DEF Is
<1>4. PICK g : Is(g, m)
  <2> HIDE DEF m
  <2>1. \A l \in 0..m : l \in N
    BY <1>1, <1>2, <1>3, UpTo
  <2> QED
    BY <1>1, <2>1
<1>5. Plan!Answering(parts) = CHOOSE x : Is(x, m)
  BY Zenon DEF Plan!Answering, NoAnswer, Is
<1>6. Is(Plan!Answering(parts), m)
  BY <1>4, <1>5
<1> QED
  BY <1>1, <1>6 DEF Is

(* The first candidates are in the places of the first parts.               *)
SamePlaces(cands, parts, k) ==
    /\ cands \in Seq(Cand) /\ Len(cands) = k
    /\ \A i \in 1..k : cands[i].lo = parts[i].lo /\ cands[i].hi = parts[i].hi

LEMMA DescribedIs ==
    ASSUME NEW part \in Part, NEW cand \in Plan!Described(part)
    PROVE  cand \in Cand /\ cand.lo = part.lo /\ cand.hi = part.hi
<1>1. /\ cand = [id |-> cand.id, lo |-> cand.lo, hi |-> cand.hi, fits |-> cand.fits,
                 deps |-> cand.deps]
      /\ cand.id \in (IF part.gap THEN {<<"gap", part.lo, part.hi>>} ELSE PlanIds)
      /\ cand.lo = part.lo /\ cand.hi = part.hi /\ cand.fits \in Plan!Fits(part)
      /\ cand.deps \in SUBSET PlanIds
  BY DEF Plan!Described
<1>2. part.lo \in Nat /\ part.hi \in Nat
  BY DEF Part
<1>3. cand.id \in Name
  BY <1>1, <1>2, PiecesMakeNames
<1>4. cand.fits \in BOOLEAN
  BY <1>1 DEF Plan!Fits
<1>5. cand.deps \in SUBSET Name
  BY <1>1, PiecesMakeNames
<1> QED
  BY <1>1, <1>2, <1>3, <1>4, <1>5 DEF Cand

LEMMA AnswersKeepPlaces ==
    ASSUME NEW parts \in Seq(Part), NEW cands \in Plan!Answers(parts)
    PROVE  SamePlaces(cands, parts, Len(parts))
<1> DEFINE n == Len(parts)
           f == Plan!Answering(parts)
           N == {k \in 0..n : \A c \in f[k] : SamePlaces(c, parts, k)}
<1>1. n \in Nat /\ \A k \in 1..n : parts[k] \in Part
  OBVIOUS
<1>2. f[0] = NoAnswer /\ \A k \in 1..n : f[k] = Plan!AndThen(f[k - 1], parts[k])
  BY AnsweringUnfolds
<1>3. cands \in f[n]
  BY DEF Plan!Answers
<1> HIDE DEF n, f
<1>4. 0 \in N
  <2>1. SamePlaces(<<>>, parts, 0)
    BY DEF SamePlaces
  <2> QED
    BY <1>1, <1>2, <2>1 DEF NoAnswer
<1>5. ASSUME NEW k \in 1..n, k - 1 \in N PROVE k \in N
  <2> SUFFICES ASSUME NEW c \in f[k] PROVE SamePlaces(c, parts, k)
    BY <1>1
  <2>1. PICK b \in f[k - 1], cand \in Plan!Described(parts[k]) : c = Append(b, cand)
    BY <1>2 DEF Plan!AndThen
  <2>2. SamePlaces(b, parts, k - 1)
    BY <1>5, <2>1
  <2>3. cand \in Cand /\ cand.lo = parts[k].lo /\ cand.hi = parts[k].hi
    BY <1>1, DescribedIs
  <2>4. b \in Seq(Cand) /\ Len(b) = k - 1 /\ k \in Nat
    BY <1>1, <2>2 DEF SamePlaces
  <2>5. /\ c \in Seq(Cand) /\ Len(c) = k /\ c[k] = cand
        /\ \A i \in 1..k - 1 : c[i] = b[i]
    BY <2>1, <2>3, <2>4, Appended
  <2> QED
    BY <2>2, <2>3, <2>4, <2>5 DEF SamePlaces
<1>6. \A k \in 0..n : k \in N
  BY <1>1, <1>4, <1>5, UpTo
<1>7. SamePlaces(cands, parts, n)
  BY <1>1, <1>3, <1>6
<1> QED
  BY <1>7 DEF n

LEMMA UncyclingUnfolds ==
    ASSUME NEW S, NEW cands \in Seq(S)
    PROVE  /\ Plan!Uncycling(cands)[0] = [cands |-> <<>>, adj |-> Plan!Edges(cands)]
           /\ \A j \in 1..Len(cands) : Plan!Uncycling(cands)[j] = Plan!Uncycled(Plan!Uncycling(cands)[j - 1], cands[j])
<1> DEFINE m == Len(cands)
           Is(g, l) == g = [j \in 0..l |-> IF j = 0 THEN [cands |-> <<>>, adj |-> Plan!Edges(cands)] ELSE Plan!Uncycled(g[j - 1], cands[j])]
           N == {l \in 0..m : \E g : Is(g, l)}
<1>1. m \in Nat
  OBVIOUS
<1>2. 0 \in N
  <2> DEFINE g == [j \in 0..0 |-> [cands |-> <<>>, adj |-> Plan!Edges(cands)]]
  <2>1. Is(g, 0)
    OBVIOUS
  <2> HIDE DEF g, Is, m
  <2> QED
    BY <1>1, <2>1
<1>3. ASSUME NEW l \in 1..m, l - 1 \in N PROVE l \in N
  <2> HIDE DEF m
  <2>1. PICK g : Is(g, l - 1)
    BY <1>3
  <2> DEFINE h == [j \in 0..l |-> IF j < l THEN g[j] ELSE Plan!Uncycled(g[l - 1], cands[l])]
  <2>2. \A j \in 0..l : h[j] = IF j = 0 THEN [cands |-> <<>>, adj |-> Plan!Edges(cands)] ELSE Plan!Uncycled(h[j - 1], cands[j])
    BY <1>1, <2>1
  <2>3. Is(h, l)
    BY <2>2
  <2> HIDE DEF h, Is
  <2> QED
    BY <1>1, <2>3
<1> HIDE DEF Is
<1>4. PICK g : Is(g, m)
  <2> HIDE DEF m
  <2>1. \A l \in 0..m : l \in N
    BY <1>1, <1>2, <1>3, UpTo
  <2> QED
    BY <1>1, <2>1
<1>5. Plan!Uncycling(cands) = CHOOSE x : Is(x, m)
  BY Zenon DEF Plan!Uncycling, Is
<1>6. Is(Plan!Uncycling(cands), m)
  BY <1>4, <1>5
<1> QED
  BY <1>1, <1>6 DEF Is

LEMMA UncycledKeeps ==
    ASSUME NEW cands \in Seq(Cand), NEW k \in 1..Len(cands), NEW acc,
           acc = [cands |-> acc.cands, adj |-> acc.adj], SamePlaces(acc.cands, cands, k - 1)
    PROVE  LET b == Plan!Uncycled(acc, cands[k])
           IN  b = [cands |-> b.cands, adj |-> b.adj] /\ SamePlaces(b.cands, cands, k)
<1> DEFINE b == Plan!Uncycled(acc, cands[k])
           c == cands[k]
           d == [c EXCEPT !.deps = {}]
<1>1. c \in Cand /\ k \in Nat
  OBVIOUS
<1>2. acc.cands \in Seq(Cand) /\ Len(acc.cands) = k - 1
  BY DEF SamePlaces
<1>3. PICK x \in {c, d} : /\ b.cands = Append(acc.cands, x)
                          /\ b = [cands |-> b.cands, adj |-> b.adj]
  <2>1. CASE c.id \in Plan!Seen(acc.adj, c.deps)
    BY <2>1 DEF Plan!Uncycled
  <2>2. CASE c.id \notin Plan!Seen(acc.adj, c.deps)
    <3>1. b = [acc EXCEPT !.cands = Append(acc.cands, c)]
      BY <2>2 DEF Plan!Uncycled
    <3> HIDE DEF b, c
    <3> QED
      BY <3>1
  <2> QED
    BY <2>1, <2>2
<1>4. x \in Cand /\ x.lo = c.lo /\ x.hi = c.hi
  <2>1. d \in Cand /\ d.lo = c.lo /\ d.hi = c.hi
    BY <1>1 DEF Cand
  <2> HIDE DEF d, c
  <2> QED
    BY <1>1, <1>3, <2>1
<1> HIDE DEF b, d
<1>5. /\ b.cands \in Seq(Cand) /\ Len(b.cands) = k /\ b.cands[k] = x
      /\ \A i \in 1..k - 1 : b.cands[i] = acc.cands[i]
  <2> HIDE DEF c
  <2> QED
    BY <1>1, <1>2, <1>3, <1>4, Appended
<1>6. SamePlaces(b.cands, cands, k)
  BY <1>1, <1>4, <1>5 DEF SamePlaces
<1> QED
  BY <1>3, <1>6 DEF b

LEMMA KnownKeeps ==
    ASSUME NEW cands \in Seq(Cand)
    PROVE  SamePlaces(Plan!Known(cands), cands, Len(cands))
<1> DEFINE known == Plan!Known(cands)
           Less(c) == [c EXCEPT !.deps = (c.deps \cap Plan!IdsOf(cands)) \ {c.id}]
<1>1. \A c \in Cand : Less(c) \in Cand /\ Less(c).lo = c.lo /\ Less(c).hi = c.hi
  BY DEF Cand
<1>2. known = [i \in 1..Len(cands) |-> Less(cands[i])]
  BY DEF Plan!Known
<1>3. Len(cands) \in Nat /\ \A i \in 1..Len(cands) : cands[i] \in Cand
  OBVIOUS
<1> HIDE DEF Less, known
<1>4. known \in Seq(Cand) /\ Len(known) = Len(cands)
  BY <1>1, <1>2, <1>3
<1>5. \A i \in 1..Len(cands) : known[i].lo = cands[i].lo /\ known[i].hi = cands[i].hi
  BY <1>1, <1>2, <1>3
<1> QED
  BY <1>4, <1>5 DEF SamePlaces, known

LEMMA SanitizedKeeps ==
    ASSUME NEW cands \in Seq(Cand)
    PROVE  SamePlaces(Plan!Sanitized(cands), cands, Len(cands))
<1> DEFINE known == Plan!Known(cands)
           n == Len(known)
           f == Plan!Uncycling(known)
           N == {k \in 0..n : /\ f[k] = [cands |-> f[k].cands, adj |-> f[k].adj]
                              /\ SamePlaces(f[k].cands, known, k)}
<1>1. SamePlaces(known, cands, Len(cands))
  BY KnownKeeps
<1>2. known \in Seq(Cand) /\ n = Len(cands) /\ n \in Nat
  BY <1>1 DEF SamePlaces
<1> HIDE DEF known
<1>3. /\ f[0] = [cands |-> <<>>, adj |-> Plan!Edges(known)]
      /\ \A k \in 1..n : f[k] = Plan!Uncycled(f[k - 1], known[k])
  BY <1>2, UncyclingUnfolds
<1> HIDE DEF f
<1>4. 0 \in N
  <2>1. SamePlaces(<<>>, known, 0)
    BY DEF SamePlaces
  <2>2. f[0].cands = <<>> /\ f[0] = [cands |-> f[0].cands, adj |-> f[0].adj]
    BY <1>3
  <2> HIDE DEF n
  <2> QED
    BY <1>2, <2>1, <2>2
<1>5. ASSUME NEW k \in 1..n, k - 1 \in N PROVE k \in N
  <2>1. /\ f[k - 1] = [cands |-> f[k - 1].cands, adj |-> f[k - 1].adj]
        /\ SamePlaces(f[k - 1].cands, known, k - 1)
    BY <1>5
  <2>2. f[k] = Plan!Uncycled(f[k - 1], known[k])
    BY <1>3
  <2>3. f[k] = [cands |-> f[k].cands, adj |-> f[k].adj] /\ SamePlaces(f[k].cands, known, k)
    BY <1>2, <2>1, <2>2, UncycledKeeps
  <2> QED
    BY <1>2, <2>3
<1>6. \A k \in 0..n : k \in N
  <2> HIDE DEF n
  <2> QED
    BY <1>2, <1>4, <1>5, UpTo
<1>7. SamePlaces(f[n].cands, known, n)
  <2> HIDE DEF n
  <2>1. n \in N
    BY <1>2, <1>6
  <2> QED
    BY <2>1
<1>8. Plan!Sanitized(cands) = f[n].cands
  BY <1>2 DEF Plan!Sanitized, f, known
<1> QED
  BY <1>1, <1>2, <1>7, <1>8 DEF SamePlaces

-----------------------------------------------------------------------------
(* Planning: what enters the tree. *)

LEMMA AddLeafIs ==
    ASSUME NEW ns \in Seq(Node), NEW r \in Node
    PROVE  LET a == Plan!AddLeaf(ns, r)
               n == Len(ns)
           IN  /\ a \in Seq(Node) /\ Len(a) = n + 1 /\ \A i \in 1..n : a[i] = ns[i]
               /\ a[n + 1].lo = r.lo /\ a[n + 1].hi = r.hi
               /\ Distinct(ns) => Distinct(a)
<1> DEFINE a == Plan!AddLeaf(ns, r)
           n == Len(ns)
           id == Plan!UniqueIn(ns, r.id)
           s == [r EXCEPT !.id = id]
<1>1. n \in Nat
  OBVIOUS
<1>2. id \in Name /\ \A i \in 1..n : ns[i].id # id
  <2>1. r.id \in Name
    BY DEF Node
  <2> QED
    BY <2>1, UniqueName
<1> HIDE DEF id
<1>3. s \in Node /\ s.id = id /\ s.lo = r.lo /\ s.hi = r.hi
  BY <1>2 DEF Node
<1>4. a = Append(ns, s)
  BY DEF Plan!AddLeaf, id
<1> HIDE DEF a, s
<1>5. /\ a \in Seq(Node) /\ Len(a) = n + 1 /\ a[n + 1] = s
      /\ \A i \in 1..n : a[i] = ns[i]
  BY <1>3, <1>4, Appended
<1> HIDE DEF n
<1>6. Distinct(ns) => Distinct(a)
  <2> SUFFICES ASSUME Distinct(ns), NEW i \in 1..n + 1, NEW j \in 1..n + 1, a[i].id = a[j].id
               PROVE  i = j
    BY <1>5 DEF Distinct
  <2>1. CASE i \in 1..n /\ j \in 1..n
    BY <1>5, <2>1 DEF Distinct, n
  <2>2. CASE i \in 1..n /\ j = n + 1
    BY <1>2, <1>3, <1>5, <2>2
  <2>3. CASE i = n + 1 /\ j \in 1..n
    BY <1>2, <1>3, <1>5, <2>3
  <2> QED
    BY <1>1, <2>1, <2>2, <2>3
<1> QED
  BY <1>3, <1>5, <1>6 DEF a, n

LEMMA GrowingUnfolds ==
    ASSUME NEW S, NEW leaves \in Seq(S)
    PROVE  /\ Plan!Growing(leaves)[0] = nodes
           /\ \A k \in 1..Len(leaves) : Plan!Growing(leaves)[k] = Plan!AddLeaf(Plan!Growing(leaves)[k - 1], leaves[k])
<1> DEFINE m == Len(leaves)
           Is(g, l) == g = [k \in 0..l |-> IF k = 0 THEN nodes ELSE Plan!AddLeaf(g[k - 1], leaves[k])]
           N == {l \in 0..m : \E g : Is(g, l)}
<1>1. m \in Nat
  OBVIOUS
<1>2. 0 \in N
  <2> DEFINE g == [j \in 0..0 |-> nodes]
  <2>1. Is(g, 0)
    OBVIOUS
  <2> HIDE DEF g, Is, m
  <2> QED
    BY <1>1, <2>1
<1>3. ASSUME NEW l \in 1..m, l - 1 \in N PROVE l \in N
  <2> HIDE DEF m
  <2>1. PICK g : Is(g, l - 1)
    BY <1>3
  <2> DEFINE h == [k \in 0..l |-> IF k < l THEN g[k] ELSE Plan!AddLeaf(g[l - 1], leaves[l])]
  <2>2. \A k \in 0..l : h[k] = IF k = 0 THEN nodes ELSE Plan!AddLeaf(h[k - 1], leaves[k])
    BY <1>1, <2>1
  <2>3. Is(h, l)
    BY <2>2
  <2> HIDE DEF h, Is
  <2> QED
    BY <1>1, <2>3
<1> HIDE DEF Is
<1>4. PICK g : Is(g, m)
  <2> HIDE DEF m
  <2>1. \A l \in 0..m : l \in N
    BY <1>1, <1>2, <1>3, UpTo
  <2> QED
    BY <1>1, <2>1
<1>5. Plan!Growing(leaves) = CHOOSE x : Is(x, m)
  BY Zenon DEF Plan!Growing, Is
<1>6. Is(Plan!Growing(leaves), m)
  BY <1>4, <1>5
<1> QED
  BY <1>1, <1>6 DEF Is

LEMMA GrownIs ==
    ASSUME nodes \in Seq(Node), NEW leaves \in Seq(Node)
    PROVE  LET a == Plan!Growing(leaves)[Len(leaves)]
           IN  /\ a \in Seq(Node) /\ Len(a) = Len(nodes) + Len(leaves)
               /\ \A i \in 1..Len(nodes) : a[i] = nodes[i]
               /\ \A i \in 1..Len(leaves) : /\ a[Len(nodes) + i].lo = leaves[i].lo
                                            /\ a[Len(nodes) + i].hi = leaves[i].hi
               /\ Distinct(nodes) => Distinct(a)
<1> DEFINE n == Len(nodes)
           l == Len(leaves)
           f == Plan!Growing(leaves)
           Fine(a, k) ==
             /\ a \in Seq(Node) /\ Len(a) = n + k
             /\ \A i \in 1..n : a[i] = nodes[i]
             /\ \A i \in 1..k : a[n + i].lo = leaves[i].lo /\ a[n + i].hi = leaves[i].hi
             /\ Distinct(nodes) => Distinct(a)
           N == {k \in 0..l : Fine(f[k], k)}
<1>1. n \in Nat /\ l \in Nat /\ \A k \in 1..l : leaves[k] \in Node
  OBVIOUS
<1>2. f[0] = nodes /\ \A k \in 1..l : f[k] = Plan!AddLeaf(f[k - 1], leaves[k])
  BY GrowingUnfolds
<1> HIDE DEF f, l
<1>3. 0 \in N
  <2>1. Fine(f[0], 0)
    BY <1>2
  <2> HIDE DEF Fine
  <2> QED
    BY <1>1, <2>1
<1> HIDE DEF n
<1>4. ASSUME NEW k \in 1..l, k - 1 \in N PROVE k \in N
  <2> DEFINE b == f[k - 1]
             a == f[k]
  <2>1. k \in Nat /\ k \in 0..l
    BY <1>1
  <2>2. b \in Seq(Node) /\ Len(b) = n + (k - 1) /\ \A i \in 1..n : b[i] = nodes[i]
    BY <1>4
  <2>3. \A i \in 1..k - 1 : b[n + i].lo = leaves[i].lo /\ b[n + i].hi = leaves[i].hi
    BY <1>4
  <2>4. Distinct(nodes) => Distinct(b)
    BY <1>4
  <2>5. a = Plan!AddLeaf(b, leaves[k]) /\ leaves[k] \in Node
    BY <1>1, <1>2
  <2> HIDE DEF a, b
  <2>6. /\ a \in Seq(Node) /\ Len(a) = n + k /\ \A i \in 1..n + (k - 1) : a[i] = b[i]
        /\ a[n + k].lo = leaves[k].lo /\ a[n + k].hi = leaves[k].hi
        /\ Distinct(b) => Distinct(a)
    <3>1. Len(b) + 1 = n + k
      BY <1>1, <2>1, <2>2
    <3>2. /\ a \in Seq(Node) /\ Len(a) = Len(b) + 1 /\ \A i \in 1..Len(b) : a[i] = b[i]
          /\ a[Len(b) + 1].lo = leaves[k].lo /\ a[Len(b) + 1].hi = leaves[k].hi
          /\ Distinct(b) => Distinct(a)
      BY <2>2, <2>5, AddLeafIs
    <3> QED
      BY <2>2, <3>1, <3>2
  <2>7. \A i \in 1..n : a[i] = nodes[i]
    BY <1>1, <2>1, <2>2, <2>6
  <2>8. \A i \in 1..k : a[n + i].lo = leaves[i].lo /\ a[n + i].hi = leaves[i].hi
    <3> SUFFICES ASSUME NEW i \in 1..k
                 PROVE  a[n + i].lo = leaves[i].lo /\ a[n + i].hi = leaves[i].hi
      OBVIOUS
    <3>1. CASE i = k
      BY <2>6, <3>1
    <3>2. CASE i \in 1..k - 1
      <4>1. n + i \in 1..n + (k - 1)
        BY <1>1, <2>1, <3>2
      <4> QED
        BY <2>3, <2>6, <3>2, <4>1
    <3> QED
      BY <2>1, <3>1, <3>2
  <2>9. Fine(a, k)
    BY <2>4, <2>6, <2>7, <2>8
  <2> HIDE DEF Fine
  <2> QED
    BY <2>1, <2>9 DEF a
<1> HIDE DEF Fine
<1>5. \A k \in 0..l : k \in N
  BY <1>1, <1>3, <1>4, UpTo
<1>6. l \in N
  BY <1>1, <1>5
<1>7. Fine(f[l], l)
  BY <1>6
<1> QED
  BY <1>7 DEF Fine, f, l, n

(* The leaves that are added are held next to those there were.              *)
LEMMA GrownHolds ==
    ASSUME NEW ns \in Seq(Node), NEW leaves \in Seq(Node), NEW a \in Seq(Node),
           Len(a) = Len(ns) + Len(leaves), \A i \in 1..Len(ns) : a[i] = ns[i],
           \A i \in 1..Len(leaves) : /\ a[Len(ns) + i].lo = leaves[i].lo
                                     /\ a[Len(ns) + i].hi = leaves[i].hi,
           NEW u
    PROVE  HeldIn(a, 1, u) <=> HeldIn(ns, 1, u) \/ HeldIn(leaves, 1, u)
<1> DEFINE n == Len(ns)
           l == Len(leaves)
<1>1. n \in Nat /\ l \in Nat /\ Len(a) = n + l
  OBVIOUS
<1>2. /\ \A i \in 1..n : Holds(a[i], u) <=> Holds(ns[i], u)
      /\ \A i \in 1..l : Holds(a[n + i], u) <=> Holds(leaves[i], u)
  BY DEF Holds
<1> HIDE DEF n, l
<1>3. \A i \in 1..n + l : i \in 1..n \/ \E j \in 1..l : i = n + j
  <2> SUFFICES ASSUME NEW i \in 1..n + l, i \notin 1..n PROVE \E j \in 1..l : i = n + j
    OBVIOUS
  <2>1. i - n \in 1..l /\ i = n + (i - n)
    BY <1>1
  <2> QED
    BY <2>1
<1>4. \A j \in 1..l : n + j \in 1..n + l
  BY <1>1
<1>5. \A i \in 1..n : i \in 1..n + l
  BY <1>1
<1>6. ASSUME HeldIn(a, 1, u) PROVE HeldIn(ns, 1, u) \/ HeldIn(leaves, 1, u)
  <2>1. PICK i \in 1..n + l : Holds(a[i], u)
    BY <1>1, <1>6 DEF HeldIn
  <2>2. CASE i \in 1..n
    BY <1>2, <2>1, <2>2 DEF HeldIn, n
  <2>3. CASE i \notin 1..n
    <3>1. PICK j \in 1..l : i = n + j
      BY <1>3, <2>3
    <3> QED
      BY <1>2, <2>1, <3>1 DEF HeldIn, l
  <2> QED
    BY <2>2, <2>3
<1>7. HeldIn(ns, 1, u) => HeldIn(a, 1, u)
  BY <1>1, <1>2, <1>5 DEF HeldIn, n
<1>8. HeldIn(leaves, 1, u) => HeldIn(a, 1, u)
  BY <1>1, <1>2, <1>4 DEF HeldIn, l
<1> QED
  BY <1>6, <1>7, <1>8

-----------------------------------------------------------------------------
(* Planning: what the invariant says of a plan. *)

LEMMA HoldsTyped ==
    ASSUME NEW ns \in Seq(Node), NEW i \in 1..Len(ns), NEW u
    PROVE  u \in ns[i].lo..ns[i].hi <=> u \in Int /\ Holds(ns[i], u)
<1>1. ns[i] \in Node
  OBVIOUS
<1>2. ns[i].lo \in Nat /\ ns[i].hi \in Nat
  BY <1>1 DEF Node
<1> QED
  BY <1>2 DEF Holds

LEMMA PlanShows == PlanInv => Plan!TypeOK /\ Plan!TilesSpine
<1> SUFFICES ASSUME PlanInv PROVE Plan!TypeOK /\ Plan!TilesSpine
  OBVIOUS
<1> DEFINE n == Len(nodes)
<1>1. PlanTyped /\ PlanShape /\ PlanPlaces /\ Distinct(nodes) /\ PlanCounts
  BY DEF PlanInv
<1>2. stack \in Seq(Frame) /\ nodes \in Seq(Node) /\ n \in Nat /\ DOMAIN nodes = 1..n
  BY <1>1 DEF PlanTyped
<1>3. Plan!TypeOK
  <2>1. taken \in 0..NodeCap /\ reported \in BOOLEAN /\ Len(stack) <= DepthCap + 1
    BY <1>1 DEF PlanTyped, PlanShape
  <2>2. \A i \in DOMAIN stack : 1 <= stack[i].lo /\ stack[i].hi <= spine.units
    BY <1>1, <1>2 DEF PlanShape, FrameFine, Nested
  <2>3. ASSUME Plan!Planned PROVE n = taken
    <3>1. Len(stack) = 0
      BY <1>2, <2>3 DEF Plan!Planned
    <3>2. PICK f : Sums(f) /\ taken = Len(nodes) + f[Len(stack)]
      BY <1>1 DEF PlanCounts
    <3>3. f[0] = 0
      BY <3>2 DEF Sums
    <3> QED
      BY <1>2, <3>1, <3>2, <3>3
  <2>4. Plan!Cardinality(Plan!IdsOf(nodes)) = n
    <3> DEFINE g == [i \in 1..n |-> nodes[i].id]
               T == Plan!IdsOf(nodes)
    <3>1. T = {nodes[i].id : i \in 1..n}
      BY <1>2 DEF Plan!IdsOf
    <3>2. \A i, j \in 1..n : nodes[i].id = nodes[j].id => i = j
      BY <1>1 DEF Distinct
    <3>3. g \in [1..n -> T]
      BY <3>1
    <3>4. \A t \in T : \E i \in 1..n : g[i] = t
      BY <3>1
    <3>5. \A i, j \in 1..n : g[i] = g[j] => i = j
      BY <3>2
    <3> HIDE DEF g, T, n
    <3>6. g \in Surjection(1..n, T) /\ g \in Injection(1..n, T)
      BY <3>3, <3>4, <3>5 DEF Surjection, Injection, IsInjective
    <3>7. IsFiniteSet(1..n) /\ Cardinality(1..n) = n
      BY <1>2, FS_Interval
    <3>8. Cardinality(T) = n
      BY <3>6, <3>7, FS_Surjection
    <3>9. Plan!Cardinality(T) = Cardinality(T)
      BY Zenon DEF Plan!Cardinality, Cardinality
    <3> QED
      BY <3>8, <3>9 DEF T, n
  <2> QED
    BY <2>1, <2>2, <2>3, <2>4 DEF Plan!TypeOK
<1>4. Plan!TilesSpine
  <2> SUFFICES ASSUME NEW u \in 1..spine.units
               PROVE  /\ Plan!Cardinality(Plan!Holders(u)) <= 1
                      /\ Plan!Planned /\ ~reported => Plan!Holders(u) # {}
    BY DEF Plan!TilesSpine
  <2> DEFINE H == Plan!Holders(u)
  <2>1. H = {i \in 1..n : Holds(nodes[i], u)}
    <3>1. \A i \in 1..n : u \in nodes[i].lo..nodes[i].hi <=> Holds(nodes[i], u)
      BY <1>2, HoldsTyped
    <3> QED
      BY <1>2, <3>1 DEF Plan!Holders
  <2>2. \A i, j \in H : i = j
    BY <1>1, <2>1 DEF PlanPlaces
  <2> HIDE DEF H
  <2>3. Cardinality(H) <= 1
    <3>1. CASE H = {}
      BY <3>1, FS_EmptySet
    <3>2. CASE H # {}
      <4>1. PICK i \in H : TRUE
        BY <3>2
      <4>2. H = {i}
        BY <2>2, <4>1
      <4>3. Cardinality({i}) = 1
        BY FS_Singleton
      <4> QED
        BY <4>2, <4>3
    <3> QED
      BY <3>1, <3>2
  <2>4. Plan!Cardinality(H) = Cardinality(H)
    BY Zenon DEF Plan!Cardinality, Cardinality
  <2>5. ASSUME Plan!Planned, ~reported PROVE H # {}
    <3>1. Len(stack) = 0
      BY <1>2, <2>5 DEF Plan!Planned
    <3>2. HeldIn(nodes, 1, u)
      BY <1>1, <2>5, <3>1 DEF PlanPlaces
    <3> QED
      BY <2>1, <3>2 DEF HeldIn
  <2> QED
    BY <2>3, <2>4, <2>5 DEF H
<1> QED
  BY <1>3, <1>4

LEMMA SliceIs ==
    ASSUME NEW lo \in Nat, NEW hi \in Nat, NEW depth \in Nat, NEW path \in Name,
           1 <= lo, lo <= hi
    PROVE  LET f == Plan!Slice(lo, hi, depth, path)
           IN  f \in Frame /\ FrameFine(f)
<1> DEFINE f == Plan!Slice(lo, hi, depth, path)
           none == <<>>
<1>1. f = [lo |-> lo, hi |-> hi, depth |-> depth, path |-> path, at |-> "entered",
           todo |-> none, leaves |-> none, final |-> none, below |-> none]
  BY DEF Plan!Slice
<1>2. none \in Seq(Cand) /\ Len(none) = 0
  OBVIOUS
<1>3. none \in Partial(Name, Name) /\ none \in Partial(Name, SUBSET Name)
  <2>1. \A B : none \in [{} -> B]
    OBVIOUS
  <2>2. \A A, B : none \in Partial(A, B)
    BY <2>1 DEF Partial
  <2> QED
    BY <2>2
<1> HIDE DEF none, f
<1>4. f \in Frame
  BY <1>1, <1>2, <1>3 DEF Frame
<1>5. /\ f.lo = lo /\ f.hi = hi /\ f.at = "entered" /\ f.todo = none /\ f.leaves = none
      /\ Len(none) = 0
  BY <1>1, <1>2
<1>6. FrameFine(f)
  BY <1>5 DEF FrameFine, Rising, none
<1> QED
  BY <1>4, <1>6 DEF f

LEMMA PlanStarts == Plan!Init => PlanInv
<1> SUFFICES ASSUME Plan!Init PROVE PlanInv
  OBVIOUS
<1>1. /\ spine \in [units : 0..MaxUnits, counted : BOOLEAN, code_tiles : BOOLEAN]
      /\ stack = IF spine.units = 0 THEN <<>> ELSE <<Plan!Slice(1, spine.units, 0, <<>>)>>
      /\ nodes = <<>> /\ taken = 0 /\ reported = FALSE
  BY DEF Plan!Init
<1>2. spine.units \in Nat /\ spine \in [units : Nat, counted : BOOLEAN, code_tiles : BOOLEAN]
  BY <1>1, PlanBounds
<1>3. taken \in 0..NodeCap /\ reported \in BOOLEAN
  <2>1. 0 \in 0..NodeCap
    BY PlanBounds
  <2> QED
    BY <1>1, <2>1
<1>4. nodes \in Seq(Node) /\ Len(nodes) = 0
  BY <1>1
<1>5. Distinct(nodes) /\ \A u : ~HeldIn(nodes, 1, u)
  BY <1>4 DEF Distinct, HeldIn
<1>6. CASE spine.units = 0
  <2>1. stack \in Seq(Frame) /\ Len(stack) = 0 /\ stack = <<>>
    BY <1>1, <1>6
  <2>2. PlanTyped
    BY <1>2, <1>4, <1>3, <2>1 DEF PlanTyped
  <2>3. PlanShape
    BY <2>1, PlanBounds DEF PlanShape, Nested
  <2>4. PlanPlaces
    BY <1>4, <1>5, <1>6, <2>1 DEF PlanPlaces
  <2>5. PlanCounts
    <3> DEFINE f == [d \in 0..0 |-> 0]
    <3>1. f[0] = 0 /\ f \in [0..0 -> Nat]
      OBVIOUS
    <3> HIDE DEF f
    <3>2. Sums(f)
      BY <2>1, <3>1 DEF Sums
    <3> QED
      BY <1>1, <1>4, <2>1, <3>1, <3>2 DEF PlanCounts
  <2> QED
    BY <1>5, <2>2, <2>3, <2>4, <2>5 DEF PlanInv
<1>7. CASE spine.units # 0
  <2> DEFINE s == Plan!Slice(1, spine.units, 0, <<>>)
  <2>1. s \in Frame /\ FrameFine(s)
    <3>1. 1 \in Nat /\ 0 \in Nat /\ 1 <= spine.units /\ <<>> \in Name
      BY <1>2, <1>7, PiecesMakeNames
    <3> QED
      BY <1>2, <3>1, SliceIs
  <2>2. s.lo = 1 /\ s.hi = spine.units /\ s.depth = 0 /\ s.at = "entered" /\ s.leaves = <<>>
    BY DEF Plan!Slice
  <2> HIDE DEF s
  <2>3. stack = <<s>> /\ stack \in Seq(Frame) /\ Len(stack) = 1 /\ stack[1] = s
    BY <1>1, <1>7, <2>1 DEF s
  <2>4. PlanTyped
    BY <1>2, <1>4, <1>3, <2>3 DEF PlanTyped
  <2>5. Nested
    BY <1>2, <2>2, <2>3 DEF Nested
  <2>6. PlanShape
    BY <2>1, <2>3, <2>5, PlanBounds DEF PlanShape
  <2>7. \A u \in 1..spine.units : Pending(1, u)
    BY <2>2, <2>3 DEF Pending, Holds
  <2>8. PlanPlaces
    BY <1>4, <1>5, <2>3, <2>7 DEF PlanPlaces
  <2>9. PlanCounts
    <3> DEFINE f == [d \in 0..1 |-> 0]
    <3>1. f[0] = 0 /\ f[1] = 0 /\ f \in [0..1 -> Nat]
      OBVIOUS
    <3>2. Len(<<>>) = 0
      OBVIOUS
    <3> HIDE DEF f
    <3>3. Sums(f)
      BY <2>2, <2>3, <3>1, <3>2 DEF Sums
    <3>4. taken < NodeCap
      BY <1>1, PlanBounds
    <3> QED
      BY <1>1, <1>4, <2>3, <3>1, <3>3, <3>4 DEF PlanCounts
  <2> QED
    BY <1>5, <2>4, <2>6, <2>8, <2>9 DEF PlanInv
<1> QED
  BY <1>6, <1>7

LEMMA PlanStaysPut == ASSUME PlanInv, UNCHANGED planVars PROVE PlanInv'
<1>1. UNCHANGED <<spine, stack, nodes, taken, reported>>
  BY DEF planVars
<1>2. \A k, u : Pending(k, u)' <=> Pending(k, u)
  BY <1>1 DEF Pending
<1>3. \A f : Sums(f)' <=> Sums(f)
  BY <1>1 DEF Sums
<1>4. PlanTyped' /\ PlanShape'
  BY <1>1 DEF PlanInv, PlanTyped, PlanShape, Nested
<1>5. PlanPlaces'
  BY <1>1, <1>2 DEF PlanInv, PlanPlaces
<1>6. PlanCounts'
  BY <1>1, <1>3 DEF PlanInv, PlanCounts
<1> QED
  BY <1>1, <1>4, <1>5, <1>6 DEF PlanInv

(* What a slice has to give is in the candidate that its callers are at, and *)
(* in nothing else of theirs.                                                *)
LEMMA OtherPlaces ==
    ASSUME PlanInv, NEW k \in 2..Len(stack), NEW u \in Nat, Pending(1, u)
    PROVE  Holds(stack[1], u) /\ ~Pending(k, u)
<1>1. /\ stack \in Seq(Frame) /\ Len(stack) \in Nat /\ 1 \in 1..Len(stack) /\ k \in 1..Len(stack)
      /\ 1 \in 1..k - 1
  BY DEF PlanInv, PlanTyped
<1>2. FrameFine(stack[1]) /\ FrameFine(stack[k])
  BY <1>1 DEF PlanInv, PlanShape
<1>3. stack[1] \in Frame /\ stack[k] \in Frame
  BY <1>1
<1>4. /\ stack[1].lo \in Nat /\ stack[1].hi \in Nat
      /\ stack[1].todo \in Seq(Cand) /\ stack[1].leaves \in Seq(Cand)
      /\ stack[k].todo \in Seq(Cand) /\ stack[k].leaves \in Seq(Cand)
  BY <1>3 DEF Frame
<1>5. \A c \in Cand : c.lo \in Nat /\ c.hi \in Nat
  BY DEF Cand
<1>6. Holds(stack[1], u)
  <2>1. ASSUME NEW s \in Seq(Cand), Rising(s, stack[1].lo, stack[1].hi), HeldIn(s, 1, u)
        PROVE  Holds(stack[1], u)
    <3>1. PICK i \in 1..Len(s) : s[i].lo <= u /\ u <= s[i].hi
      BY <2>1 DEF HeldIn, Holds
    <3>2. s[i] \in Cand
      BY <2>1
    <3> QED
      BY <1>4, <1>5, <2>1, <3>1, <3>2 DEF Rising, Holds
  <2>2. Rising(stack[1].leaves, stack[1].lo, stack[1].hi) /\ Rising(stack[1].todo, stack[1].lo, stack[1].hi)
    BY <1>2 DEF FrameFine
  <2> QED
    BY <1>4, <2>1, <2>2 DEF Pending
<1>7. /\ stack[k].at = "planned" /\ stack[k].todo # <<>>
      /\ stack[k].todo[1].lo <= stack[1].lo /\ stack[1].hi <= stack[k].todo[1].hi
  BY <1>1 DEF PlanInv, PlanShape, Nested
<1> DEFINE c == stack[k].todo[1]
<1>8. Len(stack[k].todo) \in Nat /\ 1 \in 1..Len(stack[k].todo) /\ c \in Cand
  BY <1>4, <1>7
<1>9. c.lo <= u /\ u <= c.hi /\ c.lo \in Nat /\ c.hi \in Nat
  BY <1>4, <1>5, <1>6, <1>7, <1>8 DEF Holds
<1>10. ~HeldIn(stack[k].leaves, 1, u)
  <2> SUFFICES ASSUME NEW i \in 1..Len(stack[k].leaves), Holds(stack[k].leaves[i], u) PROVE FALSE
    BY DEF HeldIn
  <2>1. stack[k].leaves[i].hi < c.lo
    BY <1>2, <1>8 DEF FrameFine
  <2>2. stack[k].leaves[i] \in Cand
    BY <1>4
  <2> QED
    BY <1>5, <1>9, <2>1, <2>2 DEF Holds
<1>11. ~HeldIn(stack[k].todo, 2, u)
  <2> SUFFICES ASSUME NEW i \in 2..Len(stack[k].todo), Holds(stack[k].todo[i], u) PROVE FALSE
    BY DEF HeldIn
  <2>1. i \in 1..Len(stack[k].todo) /\ 1 < i
    OBVIOUS
  <2>2. c.hi < stack[k].todo[i].lo
    BY <1>2, <1>8, <2>1 DEF FrameFine, Rising
  <2>3. stack[k].todo[i] \in Cand
    BY <1>4, <2>1
  <2> QED
    BY <1>5, <1>9, <2>2, <2>3 DEF Holds
<1> QED
  BY <1>6, <1>10, <1>11 DEF Pending

-----------------------------------------------------------------------------
(* Planning: a call returns. *)

LEMMA Popped ==
    ASSUME NEW S, NEW s \in Seq(S), Len(s) > 1, NEW x \in S
    PROVE  LET r == <<x>> \o SubSeq(s, 3, Len(s))
           IN  /\ r \in Seq(S) /\ Len(r) = Len(s) - 1 /\ r[1] = x
               /\ \A k \in 2..Len(s) - 1 : r[k] = s[k + 1]
<1> DEFINE q == SubSeq(s, 3, Len(s))
<1>1. Len(s) \in Nat /\ q \in Seq(S) /\ Len(q) = Len(s) - 2
  <2>1. Len(s) \in Nat /\ Len(s) > 1
    OBVIOUS
  <2>2. \A i \in 3..Len(s) : s[i] \in S
    BY <2>1
  <2>3. 3 \in Int /\ Len(s) \in Int
    BY <2>1
  <2>4. q \in Seq(S) /\ Len(q) = IF 3 <= Len(s) THEN Len(s) - 3 + 1 ELSE 0
    BY <2>2, <2>3, SubSeqProperties
  <2> HIDE DEF q
  <2>5. \A k \in Nat : k > 1 => k - 3 + 1 = k - 2 /\ (~(3 <= k) => k - 2 = 0)
    OBVIOUS
  <2> QED
    BY <2>1, <2>4, <2>5
<1>2. \A i \in 1..Len(s) - 2 : q[i] = s[i + 2]
  BY <1>1
<1> HIDE DEF q
<1> DEFINE r == <<x>> \o q
<1>3. r \in Seq(S) /\ Len(r) = Len(s) - 1 /\ r[1] = x
  BY <1>1
<1>4. ASSUME NEW k \in 2..Len(s) - 1 PROVE r[k] = s[k + 1]
  <2>1. r[k] = q[k - 1] /\ k - 1 \in 1..Len(s) - 2 /\ (k - 1) + 2 = k + 1
    BY <1>1
  <2> QED
    BY <1>2, <2>1
<1> QED
  BY <1>3, <1>4 DEF q

LEMMA Pushed ==
    ASSUME NEW S, NEW s \in Seq(S), NEW x \in S
    PROVE  LET r == <<x>> \o s
           IN  /\ r \in Seq(S) /\ Len(r) = Len(s) + 1 /\ r[1] = x
               /\ \A k \in 1..Len(s) : r[k + 1] = s[k]
OBVIOUS

(* What there is to do after the first of it, unless the budget is spent.    *)
LEMMA Onward ==
    ASSUME NEW s \in Seq(Cand), s # <<>>, NEW spent \in Nat
    PROVE  LET t == Plan!OrStop(Tail(s), spent)
           IN  /\ Head(s) = s[1] /\ s[1] \in Cand /\ 1 \in 1..Len(s)
               /\ t \in Seq(Cand) /\ (t # <<>> => spent < NodeCap)
               /\ \A i \in 1..Len(t) : i + 1 \in 2..Len(s) /\ t[i] = s[i + 1]
               /\ \A u : HeldIn(s, 1, u) <=> Holds(s[1], u) \/ HeldIn(s, 2, u)
               /\ \A u : HeldIn(t, 1, u) => HeldIn(s, 2, u)
               /\ spent < NodeCap => \A u : HeldIn(s, 2, u) => HeldIn(t, 1, u)
<1> DEFINE t == Plan!OrStop(Tail(s), spent)
<1>1. /\ Head(s) = s[1] /\ s[1] \in Cand /\ Tail(s) \in Seq(Cand)
      /\ Len(s) \in Nat /\ Len(s) >= 1 /\ Len(Tail(s)) = Len(s) - 1
      /\ \A i \in 1..Len(s) - 1 : Tail(s)[i] = s[i + 1]
  OBVIOUS
<1>2. t \in Seq(Cand) /\ (t # <<>> => spent < NodeCap) /\ (spent < NodeCap => t = Tail(s))
  BY <1>1, PlanBounds DEF Plan!OrStop
<1>3. t = <<>> \/ t = Tail(s)
  BY DEF Plan!OrStop
<1> HIDE DEF t
<1>4. \A i \in 1..Len(t) : i + 1 \in 2..Len(s) /\ t[i] = s[i + 1]
  <2>1. CASE t = <<>>
    BY <2>1
  <2>2. CASE t = Tail(s)
    BY <1>1, <2>2
  <2> QED
    BY <1>3, <2>1, <2>2
<1>5. \A u : HeldIn(s, 1, u) <=> Holds(s[1], u) \/ HeldIn(s, 2, u)
  <2>1. \A i : i \in 1..Len(s) <=> i = 1 \/ i \in 2..Len(s)
    BY <1>1
  <2> QED
    BY <2>1 DEF HeldIn
<1>6. \A u : HeldIn(t, 1, u) => HeldIn(s, 2, u)
  BY <1>4 DEF HeldIn
<1>7. ASSUME spent < NodeCap, NEW u, HeldIn(s, 2, u) PROVE HeldIn(t, 1, u)
  <2>1. PICK i \in 2..Len(s) : Holds(s[i], u)
    BY <1>7 DEF HeldIn
  <2>2. i - 1 \in 1..Len(t) /\ t[i - 1] = s[i]
    BY <1>1, <1>2, <1>7
  <2> QED
    BY <2>1, <2>2 DEF HeldIn
<1> QED
  BY <1>1, <1>2, <1>4, <1>5, <1>6, <1>7 DEF t

(* The caller as the call leaves it.                                         *)
LEMMA CallerIs ==
    ASSUME PlanInv, Len(stack) > 1, NEW ids \in SUBSET Name, NEW spent \in Nat
    PROVE  LET c == stack[2]
               d == [c EXCEPT !.below = Plan!Put(@, Head(c.todo).id, ids),
                              !.todo = Plan!OrStop(Tail(@), spent)]
           IN  /\ d \in Frame /\ FrameFine(d)
               /\ d.lo = c.lo /\ d.hi = c.hi /\ d.depth = c.depth /\ d.at = "planned"
               /\ d.leaves = c.leaves
               /\ d.todo # <<>> => spent < NodeCap
               /\ \A u : HeldIn(d.todo, 1, u) => HeldIn(c.todo, 2, u)
               /\ spent < NodeCap => \A u : HeldIn(c.todo, 2, u) => HeldIn(d.todo, 1, u)
<1> DEFINE c == stack[2]
           b == Plan!Put(c.below, Head(c.todo).id, ids)
           t == Plan!OrStop(Tail(c.todo), spent)
           d == [c EXCEPT !.below = b, !.todo = t]
<1>1. stack \in Seq(Frame) /\ 2 \in 1..Len(stack) /\ 2 \in 2..Len(stack)
  BY DEF PlanInv, PlanTyped
<1>2. c \in Frame /\ FrameFine(c) /\ c.at = "planned" /\ c.todo # <<>>
  BY <1>1 DEF PlanInv, PlanShape, Nested
<1> HIDE DEF c
<1>3. c.todo \in Seq(Cand) /\ c.below \in Partial(Name, SUBSET Name) /\ c.leaves \in Seq(Cand)
  BY <1>2 DEF Frame
<1>4. /\ Head(c.todo) \in Cand /\ t \in Seq(Cand) /\ (t # <<>> => spent < NodeCap)
      /\ \A i \in 1..Len(t) : i + 1 \in 2..Len(c.todo) /\ t[i] = c.todo[i + 1]
      /\ \A u : HeldIn(t, 1, u) => HeldIn(c.todo, 2, u)
      /\ spent < NodeCap => \A u : HeldIn(c.todo, 2, u) => HeldIn(t, 1, u)
  BY <1>2, <1>3, Onward
<1>5. b \in Partial(Name, SUBSET Name)
  <2>1. Head(c.todo).id \in Name
    BY <1>4 DEF Cand
  <2> QED
    BY <1>3, <2>1, PutIs
<1> HIDE DEF b, t
<1>6. /\ d \in Frame /\ d.lo = c.lo /\ d.hi = c.hi /\ d.depth = c.depth /\ d.at = "planned"
      /\ d.leaves = c.leaves /\ d.todo = t /\ d.final = c.final
  BY <1>2, <1>4, <1>5 DEF Frame
<1> HIDE DEF d
<1>7. FrameFine(d)
  <2>1. \A i \in 1..Len(t) : i + 1 \in 1..Len(c.todo)
    BY <1>4
  <2>2. Rising(t, c.lo, c.hi)
    <3>1. \A i, j \in 1..Len(t) : i < j => i + 1 < j + 1
      OBVIOUS
    <3> QED
      BY <1>2, <1>4, <2>1, <3>1 DEF FrameFine, Rising
  <2>3. \A i \in 1..Len(c.leaves), j \in 1..Len(t) : c.leaves[i].hi < t[j].lo
    BY <1>2, <1>4, <2>1 DEF FrameFine
  <2> QED
    BY <1>2, <1>6, <2>2, <2>3 DEF FrameFine
<1> QED
  BY <1>4, <1>6, <1>7 DEF b, c, d, t

(* The first of the calls ends, or the others are left with one less.        *)
LEMMA GrowStep ==
    ASSUME PlanInv, stack # <<>>, NEW leaves \in Seq(Node), NEW dropped \in BOOLEAN,
           Plan!Grow(leaves, dropped), taken' \in 0..NodeCap, spine' = spine,
           Rising(leaves, stack[1].lo, stack[1].hi),
           \A u \in 1..spine.units : HeldIn(leaves, 1, u) => Pending(1, u),
           ~dropped => \A u \in 1..spine.units : Pending(1, u) => HeldIn(leaves, 1, u),
           taken' = taken - Len(stack[1].leaves) + Len(leaves)
    PROVE  PlanInv'
<1> DEFINE n == Len(nodes)
           l == Len(leaves)
           m == Len(stack)
           a == Plan!Growing(leaves)[l]
           U == 1..spine.units
           ids == {a[i].id : i \in n + 1..Len(a)}
<1>1. /\ PlanTyped /\ PlanShape /\ PlanPlaces /\ Distinct(nodes) /\ PlanCounts
      /\ stack \in Seq(Frame) /\ nodes \in Seq(Node) /\ taken \in 0..NodeCap
      /\ spine \in [units : Nat, counted : BOOLEAN, code_tiles : BOOLEAN] /\ reported \in BOOLEAN
  BY DEF PlanInv, PlanTyped
<1>2. /\ m \in Nat /\ m >= 1 /\ n \in Nat /\ l \in Nat /\ spine.units \in Nat
      /\ \A u \in U : u \in Nat
  BY <1>1
<1>3. nodes' = a /\ Plan!Return(ids, dropped)
  BY DEF Plan!Grow
<1>4. /\ a \in Seq(Node) /\ Len(a) = n + l /\ \A i \in 1..n : a[i] = nodes[i]
      /\ \A i \in 1..l : a[n + i].lo = leaves[i].lo /\ a[n + i].hi = leaves[i].hi
      /\ Distinct(a)
  BY <1>1, GrownIs
<1> HIDE DEF a
<1>5. \A u : HeldIn(nodes', 1, u) <=> HeldIn(nodes, 1, u) \/ HeldIn(leaves, 1, u)
  BY <1>1, <1>3, <1>4, GrownHolds
<1>6. ids \in SUBSET Name
  <2>1. \A i \in n + 1..Len(a) : a[i] \in Node
    BY <1>2, <1>4
  <2> QED
    BY <2>1 DEF Node
<1> HIDE DEF ids, n, m, l, U
<1>7. reported' = (reported \/ dropped \/ (m > 1 /\ taken' >= NodeCap))
  BY <1>3 DEF Plan!Return, m
<1>8. \A u \in U : HeldIn(leaves, 1, u) => Pending(1, u)
  BY DEF U
<1>9. ~dropped => \A u \in U : Pending(1, u) => HeldIn(leaves, 1, u)
  BY DEF U
<1>10. \A u \in U, k \in 2..m : Pending(1, u) => ~Pending(k, u)
  BY <1>2, OtherPlaces DEF m
<1>11. /\ \A u \in U : \A k \in 1..m : Pending(k, u) => ~HeldIn(nodes, 1, u)
       /\ \A u \in U : \A i, j \in 1..n : Holds(nodes[i], u) /\ Holds(nodes[j], u) => i = j
       /\ ~reported => \A u \in U : HeldIn(nodes, 1, u) \/ \E k \in 1..m : Pending(k, u)
  BY <1>1 DEF PlanPlaces, U, m, n
<1>12. 1 \in 1..m
  BY <1>2
<1>13. \A u \in U : \A i, j \in 1..n + l : Holds(a[i], u) /\ Holds(a[j], u) => i = j
  <2> SUFFICES ASSUME NEW u \in U, NEW i \in 1..n + l, NEW j \in 1..n + l,
                      Holds(a[i], u), Holds(a[j], u), i < j
               PROVE  FALSE
    <3>1. \A i, j \in 1..n + l : i < j \/ j < i \/ i = j
      BY <1>2
    <3> QED
      BY <3>1
  <2>1. i \in Nat /\ j \in Nat
    BY <1>2
  <2>2. CASE j \in 1..n
    <3>1. i \in 1..n
      BY <1>2, <2>1, <2>2
    <3>2. Holds(nodes[i], u) /\ Holds(nodes[j], u)
      BY <1>4, <2>2, <3>1
    <3> QED
      BY <1>11, <2>1, <2>2, <3>1, <3>2
  <2>3. CASE j \notin 1..n
    <3>1. j - n \in 1..l /\ n + (j - n) = j
      BY <1>2, <2>1, <2>3
    <3>2. Holds(leaves[j - n], u)
      BY <1>4, <3>1 DEF Holds
    <3>3. HeldIn(leaves, 1, u)
      BY <3>1, <3>2 DEF HeldIn, l
    <3>4. ~HeldIn(nodes, 1, u)
      BY <1>8, <1>11, <1>12, <3>3
    <3>5. i \notin 1..n
      BY <1>4, <3>4 DEF HeldIn, n
    <3>6. i - n \in 1..l /\ n + (i - n) = i /\ i - n < j - n
      BY <1>2, <2>1, <3>5
    <3>7. Holds(leaves[i - n], u)
      BY <1>4, <3>6 DEF Holds
    <3>8. leaves[i - n].hi < leaves[j - n].lo
      BY <3>1, <3>6 DEF Rising, l
    <3>9. leaves[i - n] \in Node /\ leaves[j - n] \in Node
      BY <3>1, <3>6 DEF l
    <3> QED
      BY <1>2, <3>2, <3>7, <3>8, <3>9 DEF Holds, Node
  <2> QED
    BY <2>2, <2>3
<1>14. PICK f : Sums(f) /\ taken = n + f[m]
  BY <1>1 DEF PlanCounts, n, m
<1>15. /\ f \in [0..m -> Nat] /\ f[0] = 0
       /\ \A d \in 1..m : f[d] = f[d - 1] + Len(stack[m - d + 1].leaves)
  BY <1>14 DEF Sums, m
<1>16. f[m - 1] \in Nat /\ taken' = (n + l) + f[m - 1]
  <2>1. f[m] = f[m - 1] + Len(stack[1].leaves)
    <3>1. m \in 1..m /\ m - m + 1 = 1
      BY <1>2
    <3> QED
      BY <1>15, <3>1
  <2>2. f[m - 1] \in Nat
    BY <1>2, <1>15
  <2>3. stack[1] \in Frame
    BY <1>1, <1>12 DEF m
  <2>4. Len(stack[1].leaves) \in Nat
    BY <2>3 DEF Frame
  <2>5. taken' = taken - Len(stack[1].leaves) + l
    BY DEF l
  <2> DEFINE x == Len(stack[1].leaves)
             y == f[m - 1]
  <2>6. /\ taken = n + (y + x) /\ taken' = taken - x + l
        /\ x \in Nat /\ y \in Nat /\ n \in Nat /\ l \in Nat
    BY <1>2, <1>14, <2>1, <2>2, <2>4, <2>5
  <2> HIDE DEF x, y
  <2>7. taken' = (n + l) + y
    <3>1. \A p, q, r, s \in Nat : (p + (q + r)) - r + s = (p + s) + q
      OBVIOUS
    <3>2. taken' = (n + (y + x)) - x + l
      BY <2>6
    <3>3. (n + (y + x)) - x + l = (n + l) + y
      BY <2>6, <3>1
    <3> QED
      BY Zenon, <3>2, <3>3
  <2> QED
    BY <2>2, <2>7 DEF y
<1>17. nodes' \in Seq(Node) /\ Distinct(nodes') /\ Len(nodes') = n + l
  BY <1>3, <1>4 DEF Distinct
<1>18. reported' \in BOOLEAN
  BY <1>7
<1>19. CASE m = 1
  <2>1. stack' = <<>> /\ stack' \in Seq(Frame) /\ Len(stack') = 0
    BY <1>3, <1>19 DEF Plan!Return, m
  <2>2. PlanTyped'
    BY <1>1, <1>17, <1>18, <2>1 DEF PlanTyped
  <2>3. PlanShape'
    BY <2>1, PlanBounds DEF PlanShape, Nested
  <2>4. PlanPlaces'
    <3>1. \A u \in U : \A i, j \in 1..Len(nodes') : Holds(nodes'[i], u) /\ Holds(nodes'[j], u) => i = j
      BY <1>3, <1>13, <1>17
    <3>2. ~reported' => \A u \in U : HeldIn(nodes', 1, u)
      <4> SUFFICES ASSUME ~reported', NEW u \in U PROVE HeldIn(nodes', 1, u)
        OBVIOUS
      <4>1. HeldIn(nodes, 1, u) \/ Pending(1, u)
        <5>1. \A k \in 1..m : k = 1
          BY <1>19
        <5> QED
          BY <1>7, <1>11, <5>1
      <4> QED
        BY <1>5, <1>7, <1>9, <4>1
    <3> QED
      BY <2>1, <3>1, <3>2 DEF PlanPlaces, U
  <2>5. PlanCounts'
    <3> DEFINE g == [d \in 0..0 |-> 0]
    <3>1. g[0] = 0 /\ g \in [0..0 -> Nat]
      OBVIOUS
    <3> HIDE DEF g
    <3>2. Sums(g)'
      BY <2>1, <3>1 DEF Sums
    <3>3. taken' = Len(nodes') + g[Len(stack')]
      BY <1>15, <1>16, <1>17, <1>19, <2>1, <3>1
    <3> QED
      BY <2>1, <3>2, <3>3 DEF PlanCounts
  <2> QED
    BY <1>17, <2>2, <2>3, <2>4, <2>5 DEF PlanInv
<1>20. CASE m > 1
  <2> DEFINE c == stack[2]
             d == [c EXCEPT !.below = Plan!Put(@, Head(c.todo).id, ids),
                            !.todo = Plan!OrStop(Tail(@), taken')]
  <2>1. stack' = <<d>> \o SubSeq(stack, 3, m)
    <3>1. m # 1
      BY <1>2, <1>20
    <3> QED
      BY Zenon, <1>3, <3>1 DEF Plan!Return, m, c, d
  <2>2. /\ d \in Frame /\ FrameFine(d)
        /\ d.lo = c.lo /\ d.hi = c.hi /\ d.depth = c.depth /\ d.at = "planned"
        /\ d.leaves = c.leaves
        /\ d.todo # <<>> => taken' < NodeCap
        /\ \A u : HeldIn(d.todo, 1, u) => HeldIn(c.todo, 2, u)
        /\ taken' < NodeCap => \A u : HeldIn(c.todo, 2, u) => HeldIn(d.todo, 1, u)
    <3>1. taken' \in Nat /\ Len(stack) > 1
      BY <1>20, PlanBounds DEF m
    <3> QED
      BY <1>6, <3>1, CallerIs
  <2> HIDE DEF d, c
  <2>3. /\ stack' \in Seq(Frame) /\ Len(stack') = m - 1 /\ stack'[1] = d
        /\ \A k \in 2..m - 1 : stack'[k] = stack[k + 1]
    BY <1>1, <1>20, <2>1, <2>2, Popped DEF m
  <2>4. \A k \in 1..m - 1 : /\ k + 1 \in 2..m /\ k + 1 \in 1..m /\ k \in Nat
                            /\ k = 1 \/ k \in 2..m - 1
    BY <1>2
  <2>5. \A k \in 1..m - 1 : /\ stack'[k].lo = stack[k + 1].lo /\ stack'[k].hi = stack[k + 1].hi
                            /\ stack'[k].depth = stack[k + 1].depth
                            /\ stack'[k].leaves = stack[k + 1].leaves
    BY <2>2, <2>3, <2>4 DEF c
  <2>6. \A u \in U : \A k \in 1..m - 1 : Pending(k, u)' => Pending(k + 1, u)
    <3> SUFFICES ASSUME NEW u \in U, NEW k \in 1..m - 1, Pending(k, u)' PROVE Pending(k + 1, u)
      OBVIOUS
    <3>1. k + 1 # 1
      BY <2>4
    <3>2. CASE k = 1
      BY <2>2, <2>3, <3>2 DEF Pending, c
    <3>3. CASE k # 1
      BY <2>3, <2>4, <3>1, <3>3 DEF Pending
    <3> QED
      BY <3>2, <3>3
  <2>7. ASSUME taken' < NodeCap, NEW u \in U, NEW k \in 2..m, Pending(k, u)
        PROVE  \E j \in 1..m - 1 : Pending(j, u)'
    <3>1. k - 1 \in 1..m - 1 /\ (k - 1) + 1 = k
      BY <1>2
    <3>2. k # 1
      OBVIOUS
    <3>3. CASE k = 2
      <4>1. HeldIn(c.leaves, 1, u) \/ HeldIn(c.todo, 2, u)
        BY <2>7, <3>3 DEF Pending, c
      <4>2. HeldIn(d.leaves, 1, u) \/ HeldIn(d.todo, 1, u)
        BY <2>2, <2>7, <4>1
      <4>3. Pending(1, u)'
        BY <2>3, <4>2 DEF Pending
      <4> QED
        BY <3>1, <3>3, <4>3
    <3>4. CASE k # 2
      <4>1. k - 1 \in 2..m - 1 /\ k - 1 # 1
        BY <1>2, <3>4
      <4>2. stack'[k - 1] = stack[k]
        BY <2>3, <3>1, <4>1
      <4>3. Pending(k - 1, u)'
        BY <2>7, <3>2, <4>1, <4>2 DEF Pending
      <4> QED
        BY <3>1, <4>3
    <3> QED
      BY <3>3, <3>4
  <2>8. PlanTyped'
    BY <1>1, <1>17, <1>18, <2>3 DEF PlanTyped
  <2>9. PlanShape'
    <3>1. /\ m <= DepthCap + 1
          /\ \A i \in 1..m : FrameFine(stack[i])
          /\ \A i \in 1..m : stack[i].hi <= spine.units /\ stack[i].depth = m - i
          /\ \A i \in 2..m :
                /\ stack[i].at = "planned" /\ stack[i].todo # <<>>
                /\ \A j \in 1..i - 1 :
                      stack[i].todo[1].lo <= stack[j].lo /\ stack[j].hi <= stack[i].todo[1].hi
      BY <1>1 DEF PlanShape, Nested, m
    <3>2. \A i \in 1..m - 1 : FrameFine(stack'[i])
      BY <2>2, <2>3, <2>4, <3>1
    <3>3. \A i \in 1..m - 1 : stack'[i].hi <= spine.units /\ stack'[i].depth = (m - 1) - i
      <4> SUFFICES ASSUME NEW i \in 1..m - 1
                   PROVE  stack'[i].hi <= spine.units /\ stack'[i].depth = (m - 1) - i
        OBVIOUS
      <4>1. i + 1 \in 1..m
        BY <2>4
      <4>2. m - (i + 1) = (m - 1) - i
        BY <1>2
      <4>3. stack[i + 1].hi <= spine.units /\ stack[i + 1].depth = m - (i + 1)
        BY <3>1, <4>1
      <4> QED
        BY <2>5, <4>2, <4>3
    <3>4. \A i \in 2..m - 1 :
                /\ stack'[i].at = "planned" /\ stack'[i].todo # <<>>
                /\ \A j \in 1..i - 1 :
                      /\ stack'[i].todo[1].lo <= stack'[j].lo
                      /\ stack'[j].hi <= stack'[i].todo[1].hi
      <4> SUFFICES ASSUME NEW i \in 2..m - 1
                   PROVE  /\ stack'[i].at = "planned" /\ stack'[i].todo # <<>>
                          /\ \A j \in 1..i - 1 :
                                /\ stack'[i].todo[1].lo <= stack'[j].lo
                                /\ stack'[j].hi <= stack'[i].todo[1].hi
        OBVIOUS
      <4>1. i + 1 \in 2..m /\ stack'[i] = stack[i + 1]
        BY <1>2, <2>3
      <4>2. \A j \in 1..i - 1 : j \in 1..m - 1 /\ j + 1 \in 1..(i + 1) - 1
        BY <1>2
      <4>3. \A j \in 1..i - 1 : /\ stack[i + 1].todo[1].lo <= stack[j + 1].lo
                                /\ stack[j + 1].hi <= stack[i + 1].todo[1].hi
        BY <3>1, <4>1, <4>2
      <4>4. \A j \in 1..i - 1 : stack'[j].lo = stack[j + 1].lo /\ stack'[j].hi = stack[j + 1].hi
        BY <2>5, <4>2
      <4> QED
        BY <3>1, <4>1, <4>3, <4>4
    <3>5. m - 1 <= DepthCap + 1
      BY <1>2, <3>1, PlanBounds
    <3>6. Nested'
      BY <2>3, <3>3, <3>4 DEF Nested
    <3> QED
      BY <2>3, <3>2, <3>5, <3>6 DEF PlanShape
  <2>10. PlanPlaces'
    <3>1. \A u \in U : \A k \in 1..m - 1 : Pending(k, u)' => ~HeldIn(nodes', 1, u)
      BY <1>5, <1>8, <1>10, <1>11, <2>4, <2>6
    <3>2. \A u \in U : \A i, j \in 1..Len(nodes') : Holds(nodes'[i], u) /\ Holds(nodes'[j], u) => i = j
      BY <1>3, <1>13, <1>17
    <3>3. ASSUME ~reported', NEW u \in U
          PROVE  HeldIn(nodes', 1, u) \/ \E k \in 1..m - 1 : Pending(k, u)'
      <4>1. taken' < NodeCap /\ ~dropped /\ ~reported
        <5>1. ~(taken' >= NodeCap)
          BY <1>7, <1>20, <3>3
        <5>2. taken' < NodeCap
          BY <5>1, PlanBounds
        <5> QED
          BY <1>7, <3>3, <5>2
      <4>2. CASE HeldIn(nodes, 1, u)
        BY <1>5, <4>2
      <4>3. CASE Pending(1, u)
        BY <1>5, <1>9, <4>1, <4>3
      <4>4. ASSUME NEW k \in 2..m, Pending(k, u) PROVE \E j \in 1..m - 1 : Pending(j, u)'
        BY <2>7, <4>1, <4>4
      <4>5. \A k \in 1..m : k = 1 \/ k \in 2..m
        BY <1>2
      <4> QED
        BY <1>11, <4>1, <4>2, <4>3, <4>4, <4>5
    <3> QED
      BY <2>3, <3>1, <3>2, <3>3 DEF PlanPlaces, U
  <2>11. PlanCounts'
    <3>9. PICK g : g = [e \in 0..m - 1 |-> f[e]]
      OBVIOUS
    <3>1. g \in [0..m - 1 -> Nat] /\ \A e \in 0..m - 1 : g[e] = f[e]
      BY <1>2, <1>15, <3>9
    <3>2. g[0] = 0 /\ g[m - 1] = f[m - 1]
      BY <1>2, <1>15, <3>1
    <3>3. \A e \in 1..m - 1 : g[e] = g[e - 1] + Len(stack'[(m - 1) - e + 1].leaves)
      <4> SUFFICES ASSUME NEW e \in 1..m - 1
                   PROVE  g[e] = g[e - 1] + Len(stack'[(m - 1) - e + 1].leaves)
        OBVIOUS
      <4>1. /\ e \in 1..m /\ e \in 0..m - 1 /\ e - 1 \in 0..m - 1 /\ m - e \in 1..m - 1
            /\ (m - 1) - e + 1 = m - e
        BY <1>2
      <4>2. f[e] = f[e - 1] + Len(stack[m - e + 1].leaves)
        BY <1>15, <4>1
      <4>3. stack'[m - e].leaves = stack[m - e + 1].leaves
        BY <2>5, <4>1
      <4> QED
        BY <3>1, <4>1, <4>2, <4>3
    <3>4. Sums(g)'
      BY <2>3, <3>1, <3>2, <3>3 DEF Sums
    <3>5. taken' = Len(nodes') + g[Len(stack')]
      BY <1>16, <1>17, <2>3, <3>2
    <3>6. stack' # <<>> /\ (stack'[1].at = "entered" \/ stack'[1].todo # <<>>) => taken' < NodeCap
      BY <2>2, <2>3
    <3> QED
      BY <3>4, <3>5, <3>6 DEF PlanCounts
  <2> QED
    BY <1>17, <2>8, <2>9, <2>10, <2>11 DEF PlanInv
<1> QED
  BY <1>2, <1>19, <1>20

-----------------------------------------------------------------------------
(* Planning: a slice is made leaves of, or is answered, or is gone through. *)

LEMMA TopIs ==
    ASSUME PlanInv, stack # <<>>
    PROVE  LET f == stack[1]
           IN  /\ Plan!Top = f /\ f \in Frame /\ FrameFine(f) /\ Len(stack) \in Nat /\ Len(stack) >= 1
               /\ f.lo \in Nat /\ f.hi \in Nat /\ f.path \in Name /\ f.depth \in Nat
               /\ f.todo \in Seq(Cand) /\ f.leaves \in Seq(Cand)
               /\ f.final \in Partial(Name, Name) /\ f.below \in Partial(Name, SUBSET Name)
               /\ f.hi <= spine.units /\ f.depth = Len(stack) - 1
               /\ spine.units \in Nat
<1>1. stack \in Seq(Frame) /\ Len(stack) \in Nat /\ 1 \in 1..Len(stack)
  BY DEF PlanInv, PlanTyped
<1>2. Plan!Top = stack[1] /\ stack[1] \in Frame
  BY <1>1 DEF Plan!Top
<1>3. FrameFine(stack[1]) /\ stack[1].hi <= spine.units /\ stack[1].depth = Len(stack) - 1
  BY <1>1 DEF PlanInv, PlanShape, Nested
<1>4. spine.units \in Nat
  BY DEF PlanInv, PlanTyped
<1>5. Len(stack) >= 1
  BY <1>1
<1> QED
  BY <1>1, <1>2, <1>3, <1>4, <1>5 DEF Frame

LEMMA EnteredIs ==
    ASSUME PlanInv, stack # <<>>, stack[1].at = "entered"
    PROVE  /\ taken < NodeCap /\ Len(stack[1].leaves) = 0
           /\ \A u : Pending(1, u) <=> Holds(stack[1], u)
<1>1. taken < NodeCap
  BY DEF PlanInv, PlanCounts
<1>2. stack[1].leaves = <<>> /\ stack[1].todo = <<>>
  BY TopIs DEF FrameFine
<1>3. Len(<<>>) = 0
  OBVIOUS
<1>4. \A u : ~HeldIn(<<>>, 1, u)
  BY <1>3 DEF HeldIn
<1> QED
  BY <1>1, <1>2, <1>3, <1>4 DEF Pending

LEMMA ForceStep ==
    ASSUME PlanInv, stack # <<>>, stack[1].at = "entered", NEW parts \in Seq(Node),
           Tiles(parts, stack[1].lo, stack[1].hi), Plan!Force(parts), spine' = spine
    PROVE  PlanInv'
<1> DEFINE room == NodeCap - taken
           n == Len(parts)
           k == IF room < n THEN room ELSE n
           kept == SubSeq(parts, 1, k)
<1>1. /\ taken \in Nat /\ NodeCap \in Nat /\ room \in Nat /\ n \in Nat /\ k \in 0..n
      /\ taken + k \in 0..NodeCap /\ spine.units \in Nat
  <2>1. taken \in 0..NodeCap /\ NodeCap \in Nat /\ n \in Nat /\ spine.units \in Nat
    BY PlanBounds DEF PlanInv, PlanTyped
  <2> HIDE DEF n
  <2> QED
    BY <2>1
<1> HIDE DEF k, n
<1>2. kept \in Seq(Node) /\ Len(kept) = k /\ \A i \in 1..k : kept[i] = parts[i]
  BY <1>1, FirstOnes DEF n
<1>3. taken' = taken + Len(kept) /\ Plan!Grow(kept, Len(kept) < Len(parts))
  BY DEF Plan!Force, k, n
<1> HIDE DEF kept
<1>4. Rising(parts, stack[1].lo, stack[1].hi)
  BY DEF Tiles
<1>5. Rising(kept, stack[1].lo, stack[1].hi)
  <2>1. \A i \in 1..k : i \in 1..n
    BY <1>1
  <2> QED
    BY <1>2, <1>4, <2>1 DEF Rising, n
<1>6. \A u : HeldIn(kept, 1, u) => HeldIn(parts, 1, u)
  <2>1. \A i \in 1..k : i \in 1..n
    BY <1>1
  <2> QED
    BY <1>2, <2>1 DEF HeldIn, n
<1>7. ASSUME NEW u \in 1..spine.units, HeldIn(parts, 1, u) PROVE Holds(stack[1], u)
  <2>1. PICK i \in 1..Len(parts) : Holds(parts[i], u)
    BY <1>7 DEF HeldIn
  <2>2. parts[i] \in Node
    OBVIOUS
  <2>3. stack[1].lo \in Nat /\ stack[1].hi \in Nat
    BY TopIs
  <2>4. stack[1].lo <= parts[i].lo /\ parts[i].hi <= stack[1].hi
    BY <1>4 DEF Rising
  <2> QED
    BY <2>1, <2>2, <2>3, <2>4 DEF Holds, Node
<1>8. ASSUME NEW u \in 1..spine.units, Holds(stack[1], u) PROVE HeldIn(parts, 1, u)
  <2>1. stack[1].lo \in Nat /\ stack[1].hi \in Nat
    BY TopIs
  <2>2. u \in stack[1].lo..stack[1].hi
    BY <1>8, <2>1 DEF Holds
  <2> QED
    BY <2>2 DEF Tiles
<1>9. ASSUME ~(Len(kept) < Len(parts)) PROVE \A u : HeldIn(parts, 1, u) => HeldIn(kept, 1, u)
  <2>1. k = n
    BY <1>1, <1>2, <1>9 DEF n
  <2> QED
    BY <1>2, <2>1 DEF HeldIn, n
<1>10. \A u \in 1..spine.units : HeldIn(kept, 1, u) => Pending(1, u)
  BY <1>6, <1>7, EnteredIs
<1>11. ~(Len(kept) < Len(parts)) => \A u \in 1..spine.units : Pending(1, u) => HeldIn(kept, 1, u)
  BY <1>8, <1>9, EnteredIs
<1>12. taken' \in 0..NodeCap /\ taken' = taken - Len(stack[1].leaves) + Len(kept)
  <2>1. Len(stack[1].leaves) = 0
    BY EnteredIs
  <2> QED
    BY <1>1, <1>2, <1>3, <2>1
<1>13. (Len(kept) < Len(parts)) \in BOOLEAN
  OBVIOUS
<1> QED
  BY <1>2, <1>3, <1>5, <1>10, <1>11, <1>12, <1>13, GrowStep

LEMMA LeafIs ==
    ASSUME NEW id \in Name, NEW lo \in Nat, NEW hi \in Nat, NEW deps \in SUBSET Name
    PROVE  LET r == Plan!Leaf(id, lo, hi, deps) IN r \in Node /\ r.lo = lo /\ r.hi = hi
BY DEF Plan!Leaf, Node

LEMMA OneLeafStep ==
    ASSUME PlanInv, stack # <<>>, stack[1].at = "entered", Plan!OneLeaf, spine' = spine
    PROVE  PlanInv'
<1> DEFINE f == stack[1]
           r == Plan!Leaf(IF f.path # <<>> THEN f.path ELSE <<"root">>, f.lo, f.hi, {})
<1>1. f.lo \in Nat /\ f.hi \in Nat /\ f.path \in Name /\ Plan!Top = f /\ f.lo <= f.hi
  BY TopIs DEF FrameFine
<1>2. r \in Node /\ r.lo = f.lo /\ r.hi = f.hi
  BY <1>1, LeafIs, PiecesMakeNames
<1>3. Plan!Force(<<r>>)
  BY <1>1 DEF Plan!OneLeaf
<1> HIDE DEF r, f
<1> DEFINE s == <<r>>
<1>4. s \in Seq(Node) /\ Len(s) = 1 /\ s[1] = r
  BY <1>2
<1> HIDE DEF s
<1>5. Tiles(s, f.lo, f.hi)
  BY <1>1, <1>2, <1>4 DEF Tiles, Rising, HeldIn, Holds
<1> QED
  BY <1>3, <1>4, <1>5, ForceStep DEF s, f

LEMMA PerUnitStep ==
    ASSUME PlanInv, stack # <<>>, stack[1].at = "entered", Plan!PerUnit, spine' = spine
    PROVE  PlanInv'
<1> DEFINE f == stack[1]
           n == f.hi - f.lo + 1
           R(u) == Plan!Leaf(Plan!Joined(f.path, <<"unit", u>>), u, u, {})
           s == [i \in 1..n |-> R(f.lo + i - 1)]
<1>1. f.lo \in Nat /\ f.hi \in Nat /\ f.path \in Name /\ Plan!Top = f /\ f.lo <= f.hi
  BY TopIs DEF FrameFine
<1>2. Plan!Force(s)
  <2>1. Plan!PerUnit <=> Plan!Force(s)
    BY <1>1 DEF Plan!PerUnit, Plan!Span
  <2> QED
    BY <2>1
<1>3. \A u \in Nat : R(u) \in Node /\ R(u).lo = u /\ R(u).hi = u
  <2> SUFFICES ASSUME NEW u \in Nat PROVE R(u) \in Node /\ R(u).lo = u /\ R(u).hi = u
    OBVIOUS
  <2> DEFINE id == Plan!Joined(f.path, <<"unit", u>>)
  <2>1. id \in Name
    BY <1>1, JoinedName, PiecesMakeNames
  <2>2. {} \in SUBSET Name
    OBVIOUS
  <2> HIDE DEF id
  <2>3. LET r == Plan!Leaf(id, u, u, {}) IN r \in Node /\ r.lo = u /\ r.hi = u
    BY <2>1, <2>2, LeafIs
  <2> QED
    BY <2>3 DEF id
<1> HIDE DEF R, f
<1>4. /\ n \in Nat /\ n >= 1 /\ s \in Seq(Node) /\ Len(s) = n
      /\ \A i \in 1..n : s[i].lo = f.lo + i - 1 /\ s[i].hi = f.lo + i - 1
  <2>1. \A i \in 1..n : f.lo + i - 1 \in Nat
    BY <1>1
  <2>2. n \in Nat /\ n >= 1
    BY <1>1
  <2> HIDE DEF n
  <2> QED
    BY <1>3, <2>1, <2>2
<1> HIDE DEF s
<1>5. Tiles(s, f.lo, f.hi)
  <2>1. Rising(s, f.lo, f.hi)
    BY <1>1, <1>4 DEF Rising
  <2>2. ASSUME NEW u \in f.lo..f.hi PROVE HeldIn(s, 1, u)
    <3>1. u - f.lo + 1 \in 1..n /\ f.lo + (u - f.lo + 1) - 1 = u
      BY <1>1
    <3>2. Holds(s[u - f.lo + 1], u)
      BY <1>1, <1>4, <3>1 DEF Holds
    <3> QED
      BY <1>4, <3>1, <3>2 DEF HeldIn
  <2> QED
    BY <2>1, <2>2 DEF Tiles
<1> QED
  BY <1>2, <1>4, <1>5, ForceStep DEF f

(* All that changes is the innermost slice, and what it has still to give is *)
(* what it had.                                                              *)
LEMMA RetopStep ==
    ASSUME PlanInv, stack # <<>>, NEW d \in Frame, FrameFine(d),
           stack' = [stack EXCEPT ![1] = d], spine' = spine, nodes' = nodes,
           taken' \in 0..NodeCap, reported' \in BOOLEAN, reported => reported',
           d.lo = stack[1].lo, d.hi = stack[1].hi, d.depth = stack[1].depth,
           \A u \in 1..spine.units : Pending(1, u)' => Pending(1, u),
           ~reported' => \A u \in 1..spine.units : Pending(1, u) => Pending(1, u)',
           taken' = taken + (Len(d.leaves) - Len(stack[1].leaves)),
           d.at = "entered" \/ d.todo # <<>> => taken' < NodeCap
    PROVE  PlanInv'
<1> DEFINE m == Len(stack)
           U == 1..spine.units
<1>1. /\ PlanTyped /\ PlanShape /\ PlanPlaces /\ Distinct(nodes) /\ PlanCounts
      /\ stack \in Seq(Frame) /\ nodes \in Seq(Node) /\ taken \in 0..NodeCap
  BY DEF PlanInv, PlanTyped
<1>2. m \in Nat /\ m >= 1 /\ 1 \in 1..m
  BY <1>1
<1>3. /\ stack' \in Seq(Frame) /\ Len(stack') = m /\ stack'[1] = d
      /\ \A k \in 2..m : stack'[k] = stack[k]
  BY <1>1, <1>2
<1>4. \A k \in 1..m : k = 1 \/ k \in 2..m
  BY <1>2
<1> HIDE DEF m
<1>5. \A k \in 1..m : stack'[k].lo = stack[k].lo /\ stack'[k].hi = stack[k].hi
                      /\ stack'[k].depth = stack[k].depth
  BY <1>3, <1>4
<1>6. PlanTyped'
  BY <1>1, <1>3 DEF PlanTyped
<1>7. PlanShape'
  <2>1. Len(stack) = m /\ m <= DepthCap + 1 /\ (\A i \in 1..m : FrameFine(stack[i])) /\ Nested
    BY <1>1 DEF PlanShape, m
  <2>2. \A i \in 1..m : FrameFine(stack'[i])
    BY <1>3, <1>4, <2>1
  <2>3. Nested'
    <3>1. \A i \in 2..m : \A j \in 1..i - 1 : j \in 1..m
      BY <1>2
    <3>2. /\ \A i \in 1..m : stack[i].hi <= spine.units /\ stack[i].depth = m - i
          /\ \A i \in 2..m :
                /\ stack[i].at = "planned" /\ stack[i].todo # <<>>
                /\ \A j \in 1..i - 1 :
                      stack[i].todo[1].lo <= stack[j].lo /\ stack[j].hi <= stack[i].todo[1].hi
      BY <2>1 DEF Nested
    <3>3. \A i \in 1..m : stack'[i].hi <= spine.units /\ stack'[i].depth = m - i
      BY <1>5, <3>2
    <3>4. \A i \in 2..m :
                /\ stack'[i].at = "planned" /\ stack'[i].todo # <<>>
                /\ \A j \in 1..i - 1 : /\ stack'[i].todo[1].lo <= stack'[j].lo
                                       /\ stack'[j].hi <= stack'[i].todo[1].hi
      <4> SUFFICES ASSUME NEW i \in 2..m
                   PROVE  /\ stack'[i].at = "planned" /\ stack'[i].todo # <<>>
                          /\ \A j \in 1..i - 1 : /\ stack'[i].todo[1].lo <= stack'[j].lo
                                                 /\ stack'[j].hi <= stack'[i].todo[1].hi
        OBVIOUS
      <4>1. stack'[i] = stack[i]
        BY <1>3
      <4>2. \A j \in 1..i - 1 : stack'[j].lo = stack[j].lo /\ stack'[j].hi = stack[j].hi
        BY <1>5, <3>1
      <4> QED
        BY <3>2, <4>1, <4>2
    <3> QED
      BY <1>3, <3>3, <3>4 DEF Nested
  <2> QED
    BY <1>3, <2>1, <2>2, <2>3 DEF PlanShape
<1>8. \A u : \A k \in 2..m : Pending(k, u)' <=> Pending(k, u)
  <2> SUFFICES ASSUME NEW u, NEW k \in 2..m PROVE Pending(k, u)' <=> Pending(k, u)
    OBVIOUS
  <2>1. k # 1 /\ stack'[k] = stack[k]
    BY <1>3
  <2> QED
    BY <2>1 DEF Pending
<1>9. PlanPlaces'
  <2>1. /\ \A u \in U : \A k \in 1..m : Pending(k, u) => ~HeldIn(nodes, 1, u)
        /\ \A u \in U : \A i, j \in 1..Len(nodes) : Holds(nodes[i], u) /\ Holds(nodes[j], u) => i = j
        /\ ~reported => \A u \in U : HeldIn(nodes, 1, u) \/ \E k \in 1..m : Pending(k, u)
    BY <1>1 DEF PlanPlaces, m
  <2>2. \A u \in U : \A k \in 1..m : Pending(k, u)' => Pending(k, u)
    BY <1>4, <1>8
  <2>3. ~reported' => \A u \in U : \A k \in 1..m : Pending(k, u) => Pending(k, u)'
    BY <1>4, <1>8
  <2>4. ~reported' => \A u \in U : HeldIn(nodes, 1, u) \/ \E k \in 1..m : Pending(k, u)'
    BY <2>1, <2>3
  <2> HIDE DEF U
  <2>5. \A u \in U : \A k \in 1..m : Pending(k, u)' => ~HeldIn(nodes, 1, u)
    BY <2>1, <2>2
  <2> QED
    BY <1>3, <2>1, <2>4, <2>5 DEF PlanPlaces, U
<1>10. PlanCounts'
  <2>1. PICK f : Sums(f) /\ taken = Len(nodes) + f[m]
    BY <1>1 DEF PlanCounts, m
  <2>2. /\ f \in [0..m -> Nat] /\ f[0] = 0
        /\ \A e \in 1..m : f[e] = f[e - 1] + Len(stack[m - e + 1].leaves)
    BY <2>1 DEF Sums, m
  <2>3. PICK g : g = [f EXCEPT ![m] = f[m - 1] + Len(d.leaves)]
    OBVIOUS
  <2>4. Len(d.leaves) \in Nat /\ Len(stack[1].leaves) \in Nat
    <3>1. stack[1] \in Frame
      BY <1>1, <1>2 DEF m
    <3> QED
      BY <3>1 DEF Frame
  <2>5. f[m - 1] \in Nat
    BY <1>2, <2>2
  <2>6. g \in [0..m -> Nat] /\ g[m] = f[m - 1] + Len(d.leaves) /\ \A e \in 0..m - 1 : g[e] = f[e]
    BY <1>2, <2>2, <2>3, <2>4, <2>5
  <2>7. \A e \in 1..m : g[e] = g[e - 1] + Len(stack'[m - e + 1].leaves)
    <3> SUFFICES ASSUME NEW e \in 1..m PROVE g[e] = g[e - 1] + Len(stack'[m - e + 1].leaves)
      OBVIOUS
    <3>1. e - 1 \in 0..m - 1 /\ g[e - 1] = f[e - 1]
      BY <1>2, <2>6
    <3>2. CASE e = m
      <4>1. m - e + 1 = 1
        BY <1>2, <3>2
      <4> QED
        BY <1>3, <2>6, <3>1, <3>2, <4>1
    <3>3. CASE e # m
      <4>1. e \in 0..m - 1 /\ m - e + 1 \in 2..m
        BY <1>2, <3>3
      <4>2. stack'[m - e + 1] = stack[m - e + 1] /\ g[e] = f[e]
        BY <1>3, <2>6, <4>1
      <4> QED
        BY <2>2, <3>1, <4>2
    <3> QED
      BY <3>2, <3>3
  <2>8. g[0] = 0
    BY <1>2, <2>2, <2>6
  <2>9. Sums(g)'
    BY <1>3, <2>6, <2>7, <2>8 DEF Sums
  <2>10. taken' = Len(nodes') + g[m]
    <3> DEFINE x == Len(stack[1].leaves)
               y == f[m - 1]
               z == Len(d.leaves)
               n == Len(nodes)
    <3>1. f[m] = y + x
      <4>1. m \in 1..m /\ m - m + 1 = 1
        BY <1>2
      <4> QED
        BY <2>2, <4>1
    <3>2. /\ taken = n + (y + x) /\ taken' = taken + (z - x) /\ g[m] = y + z
          /\ x \in Nat /\ y \in Nat /\ z \in Nat /\ n \in Nat
      BY <1>1, <2>1, <2>4, <2>5, <2>6, <3>1
    <3> HIDE DEF x, y, z, n
    <3>3. \A p, q, r, s \in Nat : (p + (q + r)) + (s - r) = p + (q + s)
      OBVIOUS
    <3>4. (n + (y + x)) + (z - x) = n + (y + z)
      BY <3>2, <3>3
    <3>5. taken' = n + (y + z)
      BY Zenon, <3>2, <3>4
    <3> QED
      BY Zenon, <3>2, <3>5 DEF n
  <2>11. stack' # <<>> /\ (stack'[1].at = "entered" \/ stack'[1].todo # <<>>) => taken' < NodeCap
    BY <1>3
  <2> QED
    BY <1>3, <2>9, <2>10, <2>11 DEF PlanCounts
<1> QED
  BY <1>1, <1>6, <1>7, <1>9, <1>10 DEF PlanInv, Distinct

LEMMA Retopped ==
    ASSUME stack \in Seq(Frame), 1 \in 1..Len(stack), NEW d, stack' = [stack EXCEPT ![1] = d]
    PROVE  stack'[1] = d
OBVIOUS

LEMMA TilesMoved ==
    ASSUME NEW parts, NEW cands, NEW s, NEW lo, NEW hi, NEW n \in Nat, Len(parts) = n,
           SamePlaces(cands, parts, n), SamePlaces(s, cands, n), Tiles(parts, lo, hi)
    PROVE  s \in Seq(Cand) /\ Tiles(s, lo, hi)
<1>1. /\ Len(cands) = n /\ Len(s) = n /\ s \in Seq(Cand)
      /\ \A i \in 1..n : s[i].lo = parts[i].lo /\ s[i].hi = parts[i].hi
  BY DEF SamePlaces
<1>2. \A u : \A i \in 1..n : Holds(s[i], u) <=> Holds(parts[i], u)
  BY <1>1 DEF Holds
<1> QED
  BY <1>1, <1>2 DEF Tiles, Rising, HeldIn

LEMMA AnsweredTiles ==
    ASSUME NEW lo \in Nat, NEW hi \in Nat, 1 <= lo, lo <= hi,
           NEW parts \in Plan!Tilings(lo, hi), NEW cands \in Plan!Answers(parts)
    PROVE  LET s == Plan!Sanitized(cands) IN s \in Seq(Cand) /\ Tiles(s, lo, hi)
<1>1. PICK claims \in Plan!SeqOf(Plan!Claims(lo, hi), MaxClaims) : parts = Plan!Tiled(claims, lo, hi)
  BY DEF Plan!Tilings
<1>2. claims \in Seq(Claim(lo, hi))
  <2>1. Plan!Claims(lo, hi) = Claim(lo, hi)
    BY DEF Plan!Claims, Claim
  <2>2. PICK m \in 0..MaxClaims : claims \in [1..m -> Claim(lo, hi)]
    BY <1>1, <2>1 DEF Plan!SeqOf
  <2>3. m \in Nat
    BY PlanBounds
  <2>4. \A C : [1..m -> C] \subseteq Seq(C)
    BY <2>3
  <2> QED
    BY <2>2, <2>4
<1>3. parts \in Seq(Part) /\ Tiles(parts, lo, hi)
  BY <1>1, <1>2, TiledTiles
<1>4. SamePlaces(cands, parts, Len(parts)) /\ Len(parts) \in Nat
  BY <1>3, AnswersKeepPlaces
<1>5. cands \in Seq(Cand) /\ Len(cands) = Len(parts)
  BY <1>4 DEF SamePlaces
<1>6. SamePlaces(Plan!Sanitized(cands), cands, Len(parts))
  BY <1>5, SanitizedKeeps
<1> QED
  BY <1>3, <1>4, <1>6, TilesMoved

(* The answer is what the slice has to do.                                   *)
Answered(cands) ==
    stack' = [stack EXCEPT ![1].at = "planned", ![1].todo = Plan!Sanitized(cands)]

LEMMA AnswerStep ==
    ASSUME PlanInv, stack # <<>>, stack[1].at = "entered",
           NEW parts \in Plan!Tilings(stack[1].lo, stack[1].hi), NEW cands \in Plan!Answers(parts),
           Answered(cands),
           UNCHANGED <<spine, nodes, taken, reported>>
    PROVE  PlanInv'
<1> DEFINE f == stack[1]
           s == Plan!Sanitized(cands)
           d == [f EXCEPT !.at = "planned", !.todo = s]
<1>1. f \in Frame /\ FrameFine(f) /\ f.lo \in Nat /\ f.hi \in Nat /\ 1 <= f.lo /\ f.lo <= f.hi
  BY TopIs DEF FrameFine
<1>2. s \in Seq(Cand) /\ Tiles(s, f.lo, f.hi)
  BY <1>1, AnsweredTiles
<1>3. f.leaves = <<>> /\ Len(<<>>) = 0
  BY <1>1 DEF FrameFine
<1>4. stack \in Seq(Frame) /\ 1 \in 1..Len(stack)
  BY TopIs DEF PlanInv, PlanTyped
<1> HIDE DEF s
<1>5. stack' = [stack EXCEPT ![1] = d]
  BY <1>1, <1>4 DEF Answered, Frame, s
<1> HIDE DEF f
<1>6. /\ d \in Frame /\ d.lo = f.lo /\ d.hi = f.hi /\ d.depth = f.depth /\ d.at = "planned"
      /\ d.todo = s /\ d.leaves = <<>>
  BY <1>1, <1>2, <1>3 DEF Frame
<1> HIDE DEF d
<1>7. FrameFine(d)
  BY <1>1, <1>2, <1>3, <1>6 DEF FrameFine, Tiles, Rising
<1>8. stack'[1] = d
  BY Zenon, <1>4, <1>5, <1>6, Retopped
<1>9. \A u : Pending(1, u) <=> Holds(f, u)
  BY EnteredIs DEF f
<1>10. \A u : Pending(1, u)' <=> HeldIn(s, 1, u)
  <2>1. \A u : ~HeldIn(<<>>, 1, u)
    BY <1>3 DEF HeldIn
  <2> QED
    BY <1>6, <1>8, <2>1 DEF Pending
<1>11. ASSUME NEW u \in 1..spine.units, HeldIn(s, 1, u) PROVE Holds(f, u)
  <2>1. PICK i \in 1..Len(s) : Holds(s[i], u)
    BY <1>11 DEF HeldIn
  <2>2. s[i] \in Cand
    BY <1>2
  <2>3. f.lo <= s[i].lo /\ s[i].hi <= f.hi
    BY <1>2 DEF Tiles, Rising
  <2> QED
    BY <1>1, <2>1, <2>2, <2>3 DEF Holds, Cand
<1>12. ASSUME NEW u \in 1..spine.units, Holds(f, u) PROVE HeldIn(s, 1, u)
  <2>1. u \in f.lo..f.hi
    BY <1>1, <1>12, TopIs DEF Holds
  <2> QED
    BY <1>2, <2>1 DEF Tiles
<1>13. taken < NodeCap /\ taken \in 0..NodeCap /\ reported \in BOOLEAN
  BY EnteredIs DEF PlanInv, PlanTyped
<1>14. taken' = taken + (Len(d.leaves) - Len(f.leaves))
  BY <1>3, <1>6, <1>13, PlanBounds
<1>15. \A u \in 1..spine.units : Pending(1, u)' <=> Pending(1, u)
  BY <1>9, <1>10, <1>11, <1>12
<1>16. spine' = spine /\ nodes' = nodes /\ taken' \in 0..NodeCap /\ reported' \in BOOLEAN
       /\ (reported => reported') /\ taken' < NodeCap
  BY <1>13
<1> QED
  BY <1>5, <1>6, <1>7, <1>14, <1>15, <1>16, RetopStep DEF f

(* The first candidate becomes a leaf.                                       *)
Added(name) ==
    LET cand == Head(stack[1].todo) IN
    /\ taken' = taken + 1 /\ reported' = (reported \/ taken' >= NodeCap)
    /\ stack' = [stack EXCEPT
            ![1].leaves = Append(@, cand),
            ![1].final = Plan!Put(@, cand.id, name),
            ![1].todo = Plan!OrStop(Tail(@), taken')]

LEMMA LeafStep ==
    ASSUME PlanInv, stack # <<>>, stack[1].at = "planned", stack[1].todo # <<>>,
           NEW name \in Name, Added(name), UNCHANGED <<spine, nodes>>
    PROVE  PlanInv'
<1> DEFINE f == stack[1]
           c == Head(f.todo)
           t == Plan!OrStop(Tail(f.todo), taken')
           l == Append(f.leaves, c)
           p == Plan!Put(f.final, c.id, name)
           d == [f EXCEPT !.leaves = l, !.final = p, !.todo = t]
<1>1. /\ f \in Frame /\ FrameFine(f) /\ f.todo \in Seq(Cand) /\ f.leaves \in Seq(Cand)
      /\ f.final \in Partial(Name, Name) /\ spine.units \in Nat
  BY TopIs
<1>2. stack \in Seq(Frame) /\ 1 \in 1..Len(stack)
  BY TopIs DEF PlanInv, PlanTyped
<1>3. taken < NodeCap /\ taken \in 0..NodeCap /\ reported \in BOOLEAN
  BY DEF PlanInv, PlanTyped, PlanCounts
<1>4. taken' \in Nat /\ taken' \in 0..NodeCap /\ taken' = taken + 1
      /\ reported' = (reported \/ taken' >= NodeCap)
  <2>1. taken' = taken + 1 /\ reported' = (reported \/ taken' >= NodeCap)
    BY DEF Added
  <2> QED
    BY <1>3, <2>1, PlanBounds
<1>5. /\ c = f.todo[1] /\ c \in Cand /\ 1 \in 1..Len(f.todo)
      /\ t \in Seq(Cand) /\ (t # <<>> => taken' < NodeCap)
      /\ \A i \in 1..Len(t) : i + 1 \in 2..Len(f.todo) /\ t[i] = f.todo[i + 1]
      /\ \A u : HeldIn(f.todo, 1, u) <=> Holds(f.todo[1], u) \/ HeldIn(f.todo, 2, u)
      /\ \A u : HeldIn(t, 1, u) => HeldIn(f.todo, 2, u)
      /\ taken' < NodeCap => \A u : HeldIn(f.todo, 2, u) => HeldIn(t, 1, u)
  BY <1>1, <1>4, Onward
<1>6. stack' = [stack EXCEPT ![1] = d]
  <2> HIDE DEF c, t, l, p
  <2>1. stack' = [stack EXCEPT ![1].leaves = l, ![1].final = Plan!Put(@, c.id, name),
                               ![1].todo = Plan!OrStop(Tail(@), taken')]
    BY DEF Added, c, l
  <2>2. f \in Frame
    BY <1>1
  <2>3. [f EXCEPT !.leaves = l].final = f.final
    BY <2>2 DEF Frame
  <2>4. [[f EXCEPT !.leaves = l] EXCEPT !.final = p].todo = f.todo
    BY <2>2 DEF Frame
  <2> QED
    BY <1>2, <2>1, <2>3, <2>4 DEF t, p
<1>7. /\ l \in Seq(Cand) /\ Len(l) = Len(f.leaves) + 1 /\ l[Len(f.leaves) + 1] = c
      /\ \A i \in 1..Len(f.leaves) : l[i] = f.leaves[i]
  BY <1>1, <1>5, Appended
<1>8. p \in Partial(Name, Name) /\ DOMAIN p = DOMAIN f.final \cup {c.id}
  <2>1. c.id \in Name
    BY <1>5 DEF Cand
  <2>2. f.final \in Partial(Name, Name)
    BY <1>1
  <2> HIDE DEF f, c, p
  <2>3. /\ Plan!Put(f.final, c.id, name) \in Partial(Name, Name)
        /\ DOMAIN Plan!Put(f.final, c.id, name) = DOMAIN f.final \cup {c.id}
    BY <2>1, <2>2, NamedIs
  <2> QED
    BY Zenon, <2>3 DEF p
<1> HIDE DEF f, c, t, l, p
<1>9. /\ d \in Frame /\ d.lo = f.lo /\ d.hi = f.hi /\ d.depth = f.depth /\ d.at = f.at
      /\ d.todo = t /\ d.leaves = l /\ d.final = p
  BY <1>1, <1>5, <1>7, <1>8 DEF Frame
<1> HIDE DEF d
<1> DEFINE n == Len(f.leaves)
<1>10. n \in Nat /\ \A i \in 1..n + 1 : i \in 1..n \/ i = n + 1
  BY <1>1
<1>11. \A i \in 1..Len(t) : i + 1 \in 1..Len(f.todo) /\ 1 < i + 1
  BY <1>5
<1>12. f.at = "planned"
  BY DEF f
<1>13. FrameFine(d)
  <2>1. /\ 1 <= f.lo /\ f.lo <= f.hi /\ Rising(f.leaves, f.lo, f.hi) /\ Rising(f.todo, f.lo, f.hi)
        /\ \A i \in 1..n, j \in 1..Len(f.todo) : f.leaves[i].hi < f.todo[j].lo
        /\ \A i \in 1..n : f.leaves[i].id \in DOMAIN f.final
    BY <1>1 DEF FrameFine
  <2> HIDE DEF n
  <2>2. f.lo <= c.lo /\ c.lo <= c.hi /\ c.hi <= f.hi
    BY <1>5, <2>1 DEF Rising
  <2>3. Rising(l, f.lo, f.hi)
    <3>1. \A i \in 1..n : /\ f.lo <= l[i].lo /\ l[i].lo <= l[i].hi /\ l[i].hi <= f.hi
                          /\ l[i].hi < c.lo
      BY <1>5, <1>7, <2>1 DEF Rising, n
    <3>2. \A i, j \in 1..n : i < j => l[i].hi < l[j].lo
      BY <1>7, <2>1 DEF Rising, n
    <3>3. Len(l) = n + 1 /\ l[n + 1] = c
      BY <1>7 DEF n
    <3>4. \A i \in 1..n + 1 : f.lo <= l[i].lo /\ l[i].lo <= l[i].hi /\ l[i].hi <= f.hi
      BY <1>10, <2>2, <3>1, <3>3
    <3>5. \A i, j \in 1..n + 1 : i < j => i \in 1..n /\ (j \in 1..n \/ j = n + 1)
      BY <1>10
    <3>6. \A i, j \in 1..n + 1 : i < j => l[i].hi < l[j].lo
      BY <3>1, <3>2, <3>3, <3>5
    <3> QED
      BY <3>3, <3>4, <3>6 DEF Rising
  <2>4. Rising(t, f.lo, f.hi)
    <3>1. \A i, j \in 1..Len(t) : i < j => i + 1 < j + 1
      OBVIOUS
    <3> QED
      BY <1>5, <1>11, <2>1, <3>1 DEF Rising
  <2>5. \A i \in 1..Len(l), j \in 1..Len(t) : l[i].hi < t[j].lo
    <3> SUFFICES ASSUME NEW i \in 1..Len(l), NEW j \in 1..Len(t) PROVE l[i].hi < t[j].lo
      OBVIOUS
    <3>1. CASE i \in 1..n
      BY <1>5, <1>7, <1>11, <2>1, <3>1 DEF n
    <3>2. CASE i = n + 1
      BY <1>5, <1>7, <1>11, <2>1, <3>2 DEF Rising, n
    <3> QED
      BY <1>7, <1>10, <3>1, <3>2 DEF n
  <2>6. \A i \in 1..Len(l) : l[i].id \in DOMAIN p
    <3> SUFFICES ASSUME NEW i \in 1..Len(l) PROVE l[i].id \in DOMAIN p
      OBVIOUS
    <3>1. CASE i \in 1..n
      BY <1>7, <1>8, <2>1, <3>1 DEF n
    <3>2. CASE i = n + 1
      BY <1>7, <1>8, <3>2 DEF n
    <3> QED
      BY <1>7, <1>10, <3>1, <3>2 DEF n
  <2> QED
    BY <1>9, <1>12, <2>1, <2>3, <2>4, <2>5, <2>6 DEF FrameFine
<1>14. stack'[1] = d
  BY Zenon, <1>2, <1>6, <1>9, Retopped
<1>15. \A u : HeldIn(l, 1, u) <=> HeldIn(f.leaves, 1, u) \/ Holds(c, u)
  <2> SUFFICES ASSUME NEW u PROVE HeldIn(l, 1, u) <=> HeldIn(f.leaves, 1, u) \/ Holds(c, u)
    OBVIOUS
  <2>1. Len(l) = n + 1 /\ l[n + 1] = c /\ n + 1 \in 1..n + 1 /\ \A i \in 1..n : i \in 1..n + 1
    BY <1>7, <1>10
  <2> QED
    BY <1>7, <1>10, <2>1 DEF HeldIn
<1>16. \A u : Pending(1, u) <=> HeldIn(f.leaves, 1, u) \/ Holds(c, u) \/ HeldIn(f.todo, 2, u)
  BY <1>5, <1>12 DEF Pending, f
<1>17. \A u : Pending(1, u)' <=> HeldIn(f.leaves, 1, u) \/ Holds(c, u) \/ HeldIn(t, 1, u)
  BY <1>9, <1>12, <1>14, <1>15 DEF Pending
<1>18. \A u \in 1..spine.units : Pending(1, u)' => Pending(1, u)
  BY <1>5, <1>16, <1>17
<1>19. ASSUME ~reported' PROVE \A u \in 1..spine.units : Pending(1, u) => Pending(1, u)'
  <2>1. ~(taken' >= NodeCap)
    BY <1>4, <1>19
  <2>2. taken' < NodeCap
    BY <1>4, <2>1, PlanBounds
  <2> QED
    BY <1>5, <1>16, <1>17, <2>2
<1>20. taken' = taken + (Len(d.leaves) - Len(f.leaves))
  <2>1. Len(d.leaves) - Len(f.leaves) = 1
    BY <1>7, <1>9, <1>10
  <2> QED
    BY <1>4, <2>1
<1>21. /\ spine' = spine /\ nodes' = nodes /\ reported' \in BOOLEAN /\ (reported => reported')
       /\ (d.at = "entered" \/ d.todo # <<>> => taken' < NodeCap)
  BY <1>3, <1>4, <1>5, <1>9, <1>12
<1> QED
  BY <1>4, <1>6, <1>9, <1>13, <1>18, <1>19, <1>20, <1>21, RetopStep DEF f

LEMMA AddLeavesStep == ASSUME PlanInv, Plan!AddLeaves PROVE PlanInv'
<1> DEFINE f == stack[1]
           n == Len(f.leaves)
           R(cand) == Plan!Leaf(f.final[cand.id], cand.lo, cand.hi, Plan!Rewritten(cand))
           s == [i \in 1..n |-> R(f.leaves[i])]
<1>1. stack # <<>> /\ f.at = "planned" /\ f.todo = <<>> /\ spine' = spine /\ taken' = taken
  <2>1. stack # <<>>
    BY DEF Plan!AddLeaves
  <2> QED
    BY <2>1, TopIs DEF Plan!AddLeaves
<1>2. /\ f \in Frame /\ FrameFine(f) /\ f.leaves \in Seq(Cand) /\ Plan!Top = f
      /\ f.final \in Partial(Name, Name) /\ f.below \in Partial(Name, SUBSET Name)
  BY <1>1, TopIs
<1>3. n \in Nat /\ \A i \in 1..n : f.leaves[i] \in Cand
  BY <1>2
<1>4. Plan!Grow(s, FALSE)
  <2>1. DOMAIN f.leaves = 1..n
    BY <1>2
  <2> QED
    BY <1>2, <2>1 DEF Plan!AddLeaves
<1>5. PICK F \in SUBSET Name : f.final \in [F -> Name]
  BY <1>2 DEF Partial
<1>6. PICK B \in SUBSET Name : f.below \in [B -> SUBSET Name]
  BY <1>2 DEF Partial
<1>7. \A cand : Plan!Rewritten(cand) \subseteq Name
  BY <1>2, <1>5, <1>6 DEF Plan!Rewritten
<1>8. \A i \in 1..n : /\ R(f.leaves[i]) \in Node
                      /\ R(f.leaves[i]).lo = f.leaves[i].lo /\ R(f.leaves[i]).hi = f.leaves[i].hi
  <2> SUFFICES ASSUME NEW i \in 1..n
               PROVE  /\ R(f.leaves[i]) \in Node
                      /\ R(f.leaves[i]).lo = f.leaves[i].lo /\ R(f.leaves[i]).hi = f.leaves[i].hi
    OBVIOUS
  <2> DEFINE c == f.leaves[i]
             deps == Plan!Rewritten(c)
  <2>1. c \in Cand /\ c.lo \in Nat /\ c.hi \in Nat
    BY <1>3 DEF Cand
  <2>2. f.final[c.id] \in Name
    BY <1>2, <1>5 DEF FrameFine
  <2>3. deps \in SUBSET Name
    BY <1>7
  <2> HIDE DEF c, deps
  <2> QED
    BY <2>1, <2>2, <2>3, LeafIs DEF c, deps
<1> HIDE DEF R, n
<1>9. s \in Seq(Node) /\ Len(s) = n /\ \A i \in 1..n : s[i].lo = f.leaves[i].lo /\ s[i].hi = f.leaves[i].hi
  BY <1>3, <1>8
<1> HIDE DEF s
<1>10. Rising(s, f.lo, f.hi)
  BY <1>2, <1>9 DEF FrameFine, Rising, n
<1>11. \A u : HeldIn(s, 1, u) <=> HeldIn(f.leaves, 1, u)
  BY <1>9 DEF HeldIn, Holds, n
<1>12. \A u : Pending(1, u) <=> HeldIn(f.leaves, 1, u)
  <2>1. Len(<<>>) = 0
    OBVIOUS
  <2> QED
    BY <1>1, <2>1 DEF Pending, HeldIn
<1>13. taken' \in 0..NodeCap /\ taken' = taken - Len(stack[1].leaves) + Len(s)
  <2>1. taken \in 0..NodeCap /\ NodeCap \in Nat
    BY PlanBounds DEF PlanInv, PlanTyped
  <2>2. Len(stack[1].leaves) = n
    BY DEF n
  <2>3. \A p, q \in Nat : p - q + q = p
    OBVIOUS
  <2> QED
    BY <1>1, <1>3, <1>9, <2>1, <2>2, <2>3
<1>14. \A u \in 1..spine.units : HeldIn(s, 1, u) => Pending(1, u)
  BY <1>11, <1>12
<1>15. ~FALSE => \A u \in 1..spine.units : Pending(1, u) => HeldIn(s, 1, u)
  BY <1>11, <1>12
<1>16. FALSE \in BOOLEAN
  OBVIOUS
<1> QED
  BY <1>1, <1>4, <1>9, <1>10, <1>13, <1>14, <1>15, <1>16, GrowStep DEF f

(* The first candidate becomes a slice: a call is made for it.               *)
LEMMA PushStep ==
    ASSUME PlanInv, stack # <<>>, stack[1].at = "planned", stack[1].todo # <<>>,
           stack[1].depth + 1 < DepthCap, NEW path \in Name,
           stack' = <<Plan!Slice(Head(stack[1].todo).lo, Head(stack[1].todo).hi,
                                 stack[1].depth + 1, path)>> \o stack,
           UNCHANGED <<spine, nodes, taken, reported>>
    PROVE  PlanInv'
<1> DEFINE f == stack[1]
           c == Head(f.todo)
           m == Len(stack)
           d == Plan!Slice(c.lo, c.hi, f.depth + 1, path)
           U == 1..spine.units
<1>1. /\ PlanTyped /\ PlanShape /\ PlanPlaces /\ Distinct(nodes) /\ PlanCounts
      /\ stack \in Seq(Frame) /\ nodes \in Seq(Node) /\ taken \in 0..NodeCap
  BY DEF PlanInv, PlanTyped
<1>2. /\ f \in Frame /\ FrameFine(f) /\ f.todo \in Seq(Cand) /\ m \in Nat /\ m >= 1
      /\ f.depth = m - 1 /\ f.depth \in Nat /\ f.lo \in Nat /\ f.hi \in Nat
      /\ f.hi <= spine.units /\ spine.units \in Nat
  BY TopIs
<1>3. /\ c = f.todo[1] /\ c \in Cand /\ 1 \in 1..Len(f.todo)
      /\ \A u : HeldIn(f.todo, 1, u) <=> Holds(f.todo[1], u) \/ HeldIn(f.todo, 2, u)
  BY <1>2, Onward
<1>4. c.lo \in Nat /\ c.hi \in Nat /\ f.lo <= c.lo /\ c.lo <= c.hi /\ c.hi <= f.hi /\ 1 <= f.lo
  BY <1>2, <1>3 DEF FrameFine, Rising, Cand
<1>5. /\ d \in Frame /\ FrameFine(d)
      /\ d.lo = c.lo /\ d.hi = c.hi /\ d.depth = f.depth + 1 /\ d.at = "entered"
      /\ d.todo = <<>> /\ d.leaves = <<>>
  <2>1. 1 <= c.lo /\ f.depth + 1 \in Nat
    BY <1>2, <1>4
  <2>2. d \in Frame /\ FrameFine(d)
    BY <1>4, <2>1, SliceIs
  <2> QED
    BY <2>2 DEF Plan!Slice
<1>6. stack' = <<d>> \o stack
  OBVIOUS
<1> HIDE DEF d, c, m
<1>7. m \in Nat /\ m >= 1
  BY <1>2
<1>8. /\ stack' \in Seq(Frame) /\ Len(stack') = m + 1 /\ stack'[1] = d
      /\ \A k \in 1..m : stack'[k + 1] = stack[k]
  BY <1>1, <1>5, <1>6, Pushed DEF m
<1>9. \A k \in 1..m + 1 : k = 1 \/ (k - 1 \in 1..m /\ (k - 1) + 1 = k)
  BY <1>2
<1>10. PlanTyped'
  BY <1>1, <1>8 DEF PlanTyped
<1>11. PlanShape'
  <2>1. /\ m <= DepthCap + 1 /\ \A i \in 1..m : FrameFine(stack[i])
        /\ \A i \in 1..m : stack[i].hi <= spine.units /\ stack[i].depth = m - i
        /\ \A i \in 2..m :
              /\ stack[i].at = "planned" /\ stack[i].todo # <<>>
              /\ \A j \in 1..i - 1 :
                    stack[i].todo[1].lo <= stack[j].lo /\ stack[j].hi <= stack[i].todo[1].hi
    BY <1>1 DEF PlanShape, Nested, m
  <2>2. \A i \in 1..m + 1 : FrameFine(stack'[i])
    BY <1>5, <1>8, <1>9, <2>1
  <2>3. \A i \in 1..m + 1 : stack'[i].hi <= spine.units /\ stack'[i].depth = (m + 1) - i
    <3> SUFFICES ASSUME NEW i \in 1..m + 1
                 PROVE  stack'[i].hi <= spine.units /\ stack'[i].depth = (m + 1) - i
      OBVIOUS
    <3>1. CASE i = 1
      BY <1>2, <1>4, <1>5, <1>8, <3>1
    <3>2. CASE i # 1
      <4>1. i - 1 \in 1..m /\ (i - 1) + 1 = i /\ m - (i - 1) = (m + 1) - i
        BY <1>7, <3>2
      <4> QED
        BY <1>8, <2>1, <4>1
    <3> QED
      BY <3>1, <3>2
  <2>4. \A i \in 2..m + 1 :
              /\ stack'[i].at = "planned" /\ stack'[i].todo # <<>>
              /\ \A j \in 1..i - 1 : /\ stack'[i].todo[1].lo <= stack'[j].lo
                                     /\ stack'[j].hi <= stack'[i].todo[1].hi
    <3> SUFFICES ASSUME NEW i \in 2..m + 1
                 PROVE  /\ stack'[i].at = "planned" /\ stack'[i].todo # <<>>
                        /\ \A j \in 1..i - 1 : /\ stack'[i].todo[1].lo <= stack'[j].lo
                                               /\ stack'[j].hi <= stack'[i].todo[1].hi
      OBVIOUS
    <3>1. i - 1 \in 1..m /\ stack'[i] = stack[i - 1] /\ i \in Nat
      BY <1>2, <1>8, <1>9
    <3>2. CASE i = 2
      <4>1. stack'[i] = f /\ \A j \in 1..i - 1 : j = 1
        BY <3>1, <3>2
      <4>2. c.lo <= c.lo /\ c.hi <= c.hi
        BY <1>4
      <4> QED
        BY <1>3, <1>5, <1>8, <4>1, <4>2 DEF f
    <3>3. CASE i # 2
      <4> DEFINE g == stack[i - 1]
      <4>1. i - 1 \in 2..m /\ 1 \in 1..(i - 1) - 1
        BY <1>2, <3>1, <3>3
      <4>2. g.at = "planned" /\ g.todo # <<>> /\ g.todo[1].lo <= f.lo /\ f.hi <= g.todo[1].hi
        BY <2>1, <4>1
      <4>3. g.todo[1].lo \in Nat /\ g.todo[1].hi \in Nat
        <5>1. g \in Frame
          BY <1>1, <3>1 DEF m
        <5>2. g.todo \in Seq(Cand)
          BY <5>1 DEF Frame
        <5>3. g.todo[1] \in Cand
          BY <4>2, <5>2
        <5> QED
          BY <5>3 DEF Cand
      <4>4. g.todo[1].lo <= d.lo /\ d.hi <= g.todo[1].hi
        <5>1. g.todo[1].lo <= f.lo /\ f.lo <= c.lo /\ c.hi <= f.hi /\ f.hi <= g.todo[1].hi
          BY <1>4, <4>2
        <5>2. \A p, q, r \in Nat : p <= q /\ q <= r => p <= r
          OBVIOUS
        <5>3. f.lo \in Nat /\ f.hi \in Nat /\ c.lo \in Nat /\ c.hi \in Nat
          BY <1>2, <1>4
        <5>4. g.todo[1].lo <= c.lo /\ c.hi <= g.todo[1].hi
          BY <4>3, <5>1, <5>2, <5>3
        <5> QED
          BY <1>5, <5>4
      <4>5. ASSUME NEW j \in 1..i - 1
            PROVE  g.todo[1].lo <= stack'[j].lo /\ stack'[j].hi <= g.todo[1].hi
        <5>1. CASE j = 1
          BY <1>8, <4>4, <5>1
        <5>2. CASE j # 1
          <6>1. j - 1 \in 1..(i - 1) - 1 /\ j - 1 \in 1..m /\ (j - 1) + 1 = j
            BY <1>7, <3>1, <5>2
          <6>2. stack'[j] = stack[j - 1]
            BY <1>8, <6>1
          <6> QED
            BY <2>1, <4>1, <6>1, <6>2
        <5> QED
          BY <5>1, <5>2
      <4> QED
        BY <3>1, <4>2, <4>5
    <3> QED
      BY <3>2, <3>3
  <2>5. m + 1 <= DepthCap + 1
    BY <1>2, PlanBounds
  <2>6. Nested'
    BY <1>8, <2>3, <2>4 DEF Nested
  <2> QED
    BY <1>8, <2>2, <2>5, <2>6 DEF PlanShape
<1>12. \A u : Pending(1, u)' <=> Holds(c, u)
  <2>1. Len(<<>>) = 0
    OBVIOUS
  <2>2. \A u : ~HeldIn(<<>>, 1, u)
    BY <2>1 DEF HeldIn
  <2>3. \A u : Holds(d, u) <=> Holds(c, u)
    BY <1>5 DEF Holds
  <2> QED
    BY <1>5, <1>8, <2>2, <2>3 DEF Pending
<1>13. \A u : Pending(2, u)' <=> HeldIn(f.leaves, 1, u) \/ HeldIn(f.todo, 2, u)
  <2>1. 1 \in 1..m /\ 1 + 1 = 2
    BY <1>2
  <2>2. stack'[2] = f
    BY <1>8, <2>1
  <2> QED
    BY <2>2 DEF Pending
<1>14. \A u : Pending(1, u) <=> HeldIn(f.leaves, 1, u) \/ Holds(c, u) \/ HeldIn(f.todo, 2, u)
  <2>1. f.at = "planned"
    OBVIOUS
  <2> QED
    BY <1>3, <2>1 DEF Pending, f
<1>15. \A u, k : k \in 2..m => (Pending(k + 1, u)' <=> Pending(k, u))
  <2> SUFFICES ASSUME NEW u, NEW k \in 2..m PROVE Pending(k + 1, u)' <=> Pending(k, u)
    OBVIOUS
  <2>1. k # 1 /\ k + 1 # 1 /\ k \in 1..m /\ stack'[k + 1] = stack[k]
    BY <1>2, <1>8
  <2> QED
    BY <2>1 DEF Pending
<1>16. PlanPlaces'
  <2>1. /\ \A u \in U : \A k \in 1..m : Pending(k, u) => ~HeldIn(nodes, 1, u)
        /\ \A u \in U : \A i, j \in 1..Len(nodes) : Holds(nodes[i], u) /\ Holds(nodes[j], u) => i = j
        /\ ~reported => \A u \in U : HeldIn(nodes, 1, u) \/ \E k \in 1..m : Pending(k, u)
    BY <1>1 DEF PlanPlaces, m
  <2>2. ASSUME NEW u \in U, NEW k \in 1..m + 1, Pending(k, u)' PROVE ~HeldIn(nodes, 1, u)
    <3>1. 1 \in 1..m
      BY <1>2
    <3>2. CASE k = 1 \/ k = 2
      BY <1>12, <1>13, <1>14, <2>1, <2>2, <3>1, <3>2
    <3>3. CASE ~(k = 1 \/ k = 2)
      <4>1. k - 1 \in 2..m /\ k - 1 \in 1..m /\ (k - 1) + 1 = k
        BY <1>2, <3>3
      <4>2. Pending(k - 1, u)
        BY <1>15, <2>2, <4>1
      <4> QED
        BY <2>1, <4>1, <4>2
    <3> QED
      BY <3>2, <3>3
  <2>3. ASSUME ~reported, NEW u \in U
        PROVE  HeldIn(nodes, 1, u) \/ \E k \in 1..m + 1 : Pending(k, u)'
    <3>1. 1 \in 1..m + 1 /\ 2 \in 1..m + 1
      BY <1>2
    <3>2. CASE Pending(1, u)
      BY <1>12, <1>13, <1>14, <3>1, <3>2
    <3>3. ASSUME NEW k \in 2..m, Pending(k, u) PROVE \E j \in 1..m + 1 : Pending(j, u)'
      <4>1. k + 1 \in 1..m + 1
        BY <1>2
      <4> QED
        BY <1>15, <3>3, <4>1
    <3>4. \A k \in 1..m : k = 1 \/ k \in 2..m
      BY <1>2
    <3> QED
      BY <2>1, <2>3, <3>2, <3>3, <3>4
  <2> QED
    BY <1>8, <2>1, <2>2, <2>3 DEF PlanPlaces, U
<1>17. PlanCounts'
  <2>1. PICK e : Sums(e) /\ taken = Len(nodes) + e[m]
    BY <1>1 DEF PlanCounts, m
  <2>2. /\ e \in [0..m -> Nat] /\ e[0] = 0
        /\ \A i \in 1..m : e[i] = e[i - 1] + Len(stack[m - i + 1].leaves)
    BY <2>1 DEF Sums, m
  <2>3. PICK g : g = [i \in 0..m + 1 |-> IF i <= m THEN e[i] ELSE e[m]]
    OBVIOUS
  <2>4. /\ g \in [0..m + 1 -> Nat] /\ g[m + 1] = e[m] /\ \A i \in 0..m : g[i] = e[i]
    BY <1>7, <2>2, <2>3
  <2>5. \A i \in 1..m + 1 : g[i] = g[i - 1] + Len(stack'[(m + 1) - i + 1].leaves)
    <3> SUFFICES ASSUME NEW i \in 1..m + 1
                 PROVE  g[i] = g[i - 1] + Len(stack'[(m + 1) - i + 1].leaves)
      OBVIOUS
    <3>1. CASE i = m + 1
      <4>1. (m + 1) - i + 1 = 1 /\ i - 1 = m /\ m \in 0..m
        <5>1. \A q \in Nat : (q + 1) - (q + 1) + 1 = 1 /\ (q + 1) - 1 = q /\ q \in 0..q
          OBVIOUS
        <5> QED
          BY Zenon, <1>7, <3>1, <5>1
      <4>2. Len(d.leaves) = 0
        BY <1>5
      <4>3. stack'[(m + 1) - i + 1] = d /\ e[m] \in Nat /\ g[i] = e[m] /\ g[i - 1] = e[m]
        BY <1>8, <2>2, <2>4, <3>1, <4>1
      <4>4. Len(stack'[(m + 1) - i + 1].leaves) = 0
        BY Zenon, <4>2, <4>3
      <4>5. e[m] = e[m] + 0
        BY <4>3
      <4> QED
        BY Zenon, <4>3, <4>4, <4>5
    <3>2. CASE i # m + 1
      <4>1. /\ i \in 1..m /\ i \in 0..m /\ i - 1 \in 0..m
            /\ m - i + 1 \in 1..m /\ (m - i + 1) + 1 = (m + 1) - i + 1
        BY <1>7, <3>2
      <4>2. stack'[(m + 1) - i + 1] = stack[m - i + 1]
        BY <1>8, <4>1
      <4> QED
        BY <2>2, <2>4, <4>1, <4>2
    <3> QED
      BY <3>1, <3>2
  <2>6. g[0] = 0
    BY <1>2, <2>2, <2>4
  <2>7. Sums(g)'
    BY <1>8, <2>4, <2>5, <2>6 DEF Sums
  <2>8. taken' = Len(nodes') + g[Len(stack')]
    BY <1>8, <2>1, <2>4
  <2>9. taken' < NodeCap
    BY <1>1 DEF PlanCounts
  <2> QED
    BY <2>7, <2>8, <2>9 DEF PlanCounts
<1> QED
  BY <1>1, <1>10, <1>11, <1>16, <1>17 DEF PlanInv, Distinct

LEMMA PlanSteps == ASSUME PlanInv, Plan!Next PROVE PlanInv'
<1> DEFINE f == stack[1]
<1>1. CASE Plan!Settle
  <2>1. stack # <<>>
    BY <1>1 DEF Plan!Settle
  <2>2. f.at = "entered" /\ spine' = spine /\ (Plan!OneLeaf \/ Plan!PerUnit)
    BY <1>1, <2>1, TopIs DEF Plan!Settle
  <2> QED
    BY <2>1, <2>2, OneLeafStep, PerUnitStep
<1>2. CASE Plan!Plan
  <2>1. stack # <<>>
    BY <1>2 DEF Plan!Plan
  <2>2. f.at = "entered" /\ spine' = spine
    BY <1>2, <2>1, TopIs DEF Plan!Plan
  <2>3. CASE Plan!OneLeaf
    BY <2>1, <2>2, <2>3, OneLeafStep
  <2>4. CASE ~Plan!OneLeaf
    <3>1. PICK parts \in Plan!Tilings(f.lo, f.hi) : \E cands \in Plan!Answers(parts) :
             Answered(cands) /\ UNCHANGED <<nodes, taken, reported>>
      BY <1>2, <2>1, <2>4, TopIs DEF Plan!Plan, Answered
    <3> QED
      BY <2>1, <2>2, <3>1, AnswerStep
  <2> QED
    BY <2>3, <2>4
<1>3. CASE Plan!Classify
  <2>1. stack # <<>>
    BY <1>3 DEF Plan!Classify
  <2>2. Plan!Top = f /\ f.path \in Name /\ f.todo \in Seq(Cand) /\ nodes \in Seq(Node)
    BY <2>1, TopIs DEF PlanInv, PlanTyped
  <2>3. f.at = "planned" /\ f.todo # <<>> /\ UNCHANGED <<spine, nodes>>
    BY <1>3, <2>2 DEF Plan!Classify
  <2> DEFINE cand == Head(f.todo)
             id == Plan!Joined(f.path, cand.id)
             name == Plan!UniqueIn(nodes, id)
  <2>4. cand \in Cand /\ cand.id \in Name
    <3>1. cand \in Cand
      BY <2>2, <2>3
    <3> QED
      BY <3>1 DEF Cand
  <2>5. id \in Name /\ name \in Name
    BY <2>2, <2>4, JoinedName, UniqueName
  <2>6. CASE cand.fits \/ f.depth + 1 >= DepthCap \/ Plan!Span(cand) = 1
    <3>1. Added(name)
      BY <1>3, <2>2, <2>6 DEF Plan!Classify, Added
    <3> HIDE DEF name
    <3> QED
      BY <2>1, <2>3, <2>5, <3>1, LeafStep
  <2>7. CASE ~(cand.fits \/ f.depth + 1 >= DepthCap \/ Plan!Span(cand) = 1)
    <3>1. /\ stack' = <<Plan!Slice(cand.lo, cand.hi, f.depth + 1, id)>> \o stack
          /\ UNCHANGED <<taken, reported>>
      BY <1>3, <2>2, <2>7 DEF Plan!Classify
    <3>2. f.depth + 1 < DepthCap
      <4>1. ~(f.depth + 1 >= DepthCap)
        BY <2>7
      <4>2. f.depth \in Nat
        BY <2>1, TopIs
      <4> QED
        BY <4>1, <4>2, PlanBounds
    <3> HIDE DEF id
    <3> QED
      BY <2>1, <2>3, <2>5, <3>1, <3>2, PushStep
  <2> QED
    BY <2>6, <2>7
<1>4. CASE Plan!AddLeaves
  BY <1>4, AddLeavesStep
<1> QED
  BY <1>1, <1>2, <1>3, <1>4 DEF Plan!Next

\* What the phases leave alone when another one is followed.
LEMMA NothingHeld ==
    MCInit => SurveyInv /\ PlanInv /\ SlicesInv
<1> SUFFICES ASSUME MCInit PROVE SurveyInv /\ PlanInv /\ SlicesInv
  OBVIOUS
<1>1. SurveyInv
  <2>1. CASE followed = "survey"
    BY <2>1, SurveyStarts DEF MCInit
  <2>2. CASE followed # "survey"
    <3>1. /\ source = [text |-> <<[tokens |-> MinChunk, mark |-> "none"]>>, model |-> FALSE]
          /\ step = "voting" /\ windows = NoWindows /\ votes = {} /\ saved = <<>>
      BY <2>2 DEF MCInit
    <3>2. source.text = <<[tokens |-> MinChunk, mark |-> "none"]>>
      BY <3>1
    <3>3. [tokens |-> MinChunk, mark |-> "none"] \in Segments
      BY SurveyAssumption DEF Segments
    <3>4. source.text \in Seq(Segments) /\ source.text # <<>>
      BY <3>2, <3>3
    <3> QED
      BY <3>1, <3>4, SurveyAtRest
  <2> QED
    BY <2>1, <2>2
<1>2. PlanInv
  BY PlanStarts DEF MCInit
<1>3. SlicesInv
  BY SlicesStart DEF MCInit
<1> QED
  BY <1>1, <1>2, <1>3

LEMMA NothingTaken ==
    ASSUME SurveyInv, PlanInv, SlicesInv, [MCNext]_allVars
    PROVE  SurveyInv' /\ PlanInv' /\ SlicesInv'
<1>1. Next \/ UNCHANGED surveyVars
  BY DEF MCNext, allVars
<1>2. Plan!Next \/ UNCHANGED planVars
  BY DEF MCNext, allVars
<1>3. Slices!SliceNext \/ UNCHANGED sliceVars
  BY DEF MCNext, allVars
<1>4. SurveyInv'
  BY <1>1, SurveySteps, SurveyStaysPut
<1>5. PlanInv'
  BY <1>2, PlanSteps, PlanStaysPut
<1>6. SlicesInv'
  BY <1>3, SlicesStep, SlicesStayPut
<1> QED
  BY <1>4, <1>5, <1>6

(* Whatever the text and the boundaries the model votes for, over any kill: *)
(* the spine tiles the source and its files hold it.  Whatever the model    *)
(* answers of its slices: the leaves of the plan tile the spine, or an      *)
(* event says that they do not.  And a document written before the plan     *)
(* gives none of its units to two leaves.                                   *)
THEOREM EveryUnitIsOnce == MCSpec => []EveryUnitOnce
<1>1. SurveyInv /\ PlanInv /\ SlicesInv /\ [MCNext]_allVars
         => SurveyInv' /\ PlanInv' /\ SlicesInv'
  BY NothingTaken
<1>2. SurveyInv /\ PlanInv /\ SlicesInv => EveryUnitOnce
  BY SurveyShows, PlanShows, SlicesShow DEF EveryUnitOnce
<1> QED
  BY <1>1, <1>2, NothingHeld, PTL DEF MCSpec
===============================================================================
