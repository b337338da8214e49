--------------------------- MODULE ModelCalls_proofs ---------------------------
(***************************************************************************)
(* Theorems about the calls of a model that MCModelCalls puts side by side.*)
(*                                                                         *)
(* Review, for artifacts of every length, every way they are cut into      *)
(* parts, and every order of answers, crashes and retries: type            *)
(* correctness, that a node only passes on units that were passed, and     *)
(* that an attempt is only charged for a fault.                            *)
(*                                                                         *)
(* Provider, RequestLadder and Episode, for any budgets of retries, any    *)
(* number of threads on one provider, any models and fallbacks, and a      *)
(* worker that may die at any time: a request carries its schema and no    *)
(* stale reasoning, and no CLI outlives the episode it was started for.    *)
(***************************************************************************)
EXTENDS MCModelCalls, FiniteSetTheorems, WellFoundedInduction, TLAPS

-----------------------------------------------------------------------------
(* Arithmetic of the parts. *)

LEMMA Products ==
    ASSUME NEW a \in Nat, NEW b \in Nat, NEW c \in Nat, a <= b
    PROVE  c * a <= c * b /\ c * a \in Nat
OBVIOUS

LEMMA Quotient ==
    ASSUME NEW a \in Nat, NEW m \in Nat \ {0}
    PROVE  /\ a \div m \in Nat
           /\ m * (a \div m) <= a
           /\ a < m * (a \div m) + m
OBVIOUS

LEMMA HasLeast ==
    ASSUME NEW I \in SUBSET Nat, I # {}
    PROVE  \E m \in I : \A n \in I : m <= n
<1> DEFINE R == OpToRel(<, Nat)
<1>1. IsWellFoundedOn(R, Nat)
  BY NatLessThanWellFounded
<1>2. \A x, y \in Nat : x < y => <<x, y>> \in R
  BY DEF OpToRel
<1> HIDE DEF R
<1>3. PICK m \in I : \A y \in I : ~ (<<y, m>> \in R)
  BY <1>1, WFMin
<1>4. ASSUME NEW n \in I PROVE m <= n
  <2>1. ~(n < m)
    BY <1>2, <1>3, Zenon
  <2> QED
    BY <2>1
<1> QED
  BY <1>4

(* Where the run of units with number x of MaxFan begins. *)
Cut(x) == (x * Length) \div MaxFan

LEMMA Cuts ==
    ASSUME ReviewAssumption, NEW x \in Nat
    PROVE  /\ Cut(x) \in Nat
           /\ MaxFan * Cut(x) <= x * Length /\ x * Length < MaxFan * Cut(x) + MaxFan
           /\ x * Length \in Nat
<1>1. x * Length \in Nat /\ MaxFan \in Nat \ {0}
  BY DEF ReviewAssumption
<1> QED
  BY <1>1, Quotient DEF Cut

LEMMA CutEnds ==
    ASSUME ReviewAssumption
    PROVE  Cut(0) = 0 /\ Cut(MaxFan) = Length
<1>a. MaxFan \in Nat /\ MaxFan # 0 /\ Length \in Nat
  BY DEF ReviewAssumption
<1>1. Cut(0) = 0
  <2>1. 0 * Length = 0
    BY <1>a
  <2>2. Cut(0) \in Nat /\ MaxFan * Cut(0) <= 0
    BY <2>1, Cuts
  <2>3. Cut(0) >= 1 => MaxFan * 1 <= MaxFan * Cut(0)
    BY <1>a, <2>2, Products
  <2> QED
    BY <1>a, <2>2, <2>3
<1>2. Cut(MaxFan) = Length
  <2> DEFINE q == Cut(MaxFan)
  <2>1. /\ q \in Nat /\ MaxFan * q <= MaxFan * Length
        /\ MaxFan * Length < MaxFan * q + MaxFan
    BY <1>a, Cuts
  <2> HIDE DEF q
  <2>2. q >= Length + 1 => MaxFan * (Length + 1) <= MaxFan * q
    BY <1>a, <2>1, Products
  <2>3. Length >= q + 1 => MaxFan * (q + 1) <= MaxFan * Length
    BY <1>a, <2>1, Products
  <2>4. /\ MaxFan * (Length + 1) = MaxFan * Length + MaxFan
        /\ MaxFan * (q + 1) = MaxFan * q + MaxFan
    BY <1>a, <2>1
  <2>5. MaxFan * Length \in Nat /\ MaxFan * q \in Nat
    BY <1>a, <2>1
  <2>6. q = Length
    BY <1>a, <2>1, <2>2, <2>3, <2>4, <2>5
  <2> QED
    BY <2>6 DEF q
<1> QED
  BY <1>1, <1>2

(* _group_sections leaves no unit out, and only a single part is the whole. *)
LEMMA GroupsTile ==
    ASSUME ReviewAssumption
    PROVE  /\ \A p \in Groups : p \subseteq Unit
           /\ \A u \in Unit : \E p \in Groups : u \in p
           /\ Unit \in Groups => Groups = {Unit}
<1>a. MaxFan \in Nat /\ MaxFan # 0 /\ Length \in Nat /\ Length # 0
  BY DEF ReviewAssumption
<1>1. CASE Length <= MaxFan
  <2>1. Groups = {{u} : u \in Unit}
    BY <1>1 DEF Groups
  <2>2. Unit \in Groups => Groups = {Unit}
    <3> SUFFICES ASSUME NEW w \in Unit, Unit = {w} PROVE Groups = {Unit}
      BY <2>1
    <3> QED
      BY <2>1, Zenon
  <2> QED
    BY <2>1, <2>2
<1>2. CASE Length > MaxFan
  <2> DEFINE Part(g) == (Cut(g) + 1) .. Cut(g + 1)
  <2>1. Groups = {Part(g) : g \in 0..(MaxFan - 1)} \ {{}}
    BY <1>2, <1>a DEF Groups, Cut
  <2>2. \A x \in 0..MaxFan : Cut(x) \in Nat /\ Cut(x) <= Length
    <3> TAKE x \in 0..MaxFan
    <3>1. x \in Nat /\ x <= MaxFan
      BY <1>a
    <3>2. Cut(x) \in Nat /\ MaxFan * Cut(x) <= x * Length
      BY <3>1, Cuts
    <3>3. Length * x <= Length * MaxFan
      BY <1>a, <3>1, Products
    <3>4. MaxFan * Cut(x) <= MaxFan * Length
      BY <1>a, <3>1, <3>2, <3>3
    <3>5. Cut(x) >= Length + 1 => MaxFan * (Length + 1) <= MaxFan * Cut(x)
      BY <1>a, <3>2, Products
    <3>6. MaxFan * (Length + 1) = MaxFan * Length + MaxFan /\ MaxFan * Length \in Nat
      BY <1>a
    <3>7. MaxFan * Cut(x) \in Nat
      BY <1>a, <3>2
    <3> QED
      BY <1>a, <3>2, <3>4, <3>5, <3>6, <3>7
  <2>3. \A p \in Groups : p \subseteq Unit
    BY <1>a, <2>1, <2>2 DEF Unit
  <2>4. ASSUME NEW u \in Unit PROVE \E p \in Groups : u \in p
    <3> DEFINE I == {x \in 1..MaxFan : u <= Cut(x)}
    <3>1. MaxFan \in I /\ I \subseteq Nat
      BY <1>a, CutEnds DEF Unit
    <3>2. PICK m \in I : \A n \in I : m <= n
      BY <3>1, HasLeast
    <3>3. m \in 1..MaxFan /\ u <= Cut(m) /\ m - 1 \in 0..(MaxFan - 1) /\ (m - 1) + 1 = m
      BY <1>a, <3>2
    <3>4. Cut(m - 1) < u
      <4>1. CASE m = 1
        BY <4>1, CutEnds DEF Unit
      <4>2. CASE m # 1
        <5>1. m - 1 \in 1..MaxFan /\ ~(m <= m - 1)
          BY <1>a, <3>3, <4>2
        <5>2. m - 1 \notin I
          BY <3>2, <5>1
        <5>3. ~(u <= Cut(m - 1))
          BY <5>1, <5>2
        <5>4. Cut(m - 1) \in Nat
          BY <2>2, <3>3, <1>a
        <5> QED
          BY <5>3, <5>4 DEF Unit
      <4> QED
        BY <4>1, <4>2
    <3>5. u \in Part(m - 1)
      <4>1. Cut(m - 1) \in Nat /\ Cut(m) \in Nat
        BY <1>a, <2>2, <3>3
      <4> QED
        BY <3>3, <3>4, <4>1 DEF Unit
    <3> QED
      BY <2>1, <3>3, <3>5
  <2>5. ASSUME Unit \in Groups PROVE Groups = {Unit}
    <3>1. PICK g \in 0..(MaxFan - 1) : Unit = Part(g)
      BY <2>1, <2>5
    <3>2. /\ g \in Nat /\ g + 1 \in Nat /\ g \in 0..MaxFan /\ g + 1 \in 0..MaxFan
          /\ Cut(g) \in Nat /\ Cut(g + 1) \in Nat
      BY <1>a, <2>2
    <3>3. Cut(g) = 0 /\ Cut(g + 1) = Length
      <4>1. 1 \in Unit /\ Length \in Unit
        BY <1>a DEF Unit
      <4>2. 1 \in Part(g) /\ Length \in Part(g)
        BY <3>1, <4>1, Zenon
      <4> QED
        BY <1>a, <2>2, <3>2, <4>2
    <3>4. g = 0
      <4>1. g >= 1 => Length * 1 <= Length * g
        BY <1>a, <3>2, Products
      <4>2. g * Length < MaxFan * Cut(g) + MaxFan
        BY <3>2, Cuts
      <4>3. g * Length < MaxFan
        BY <1>a, <3>3, <4>2
      <4> QED
        BY <1>a, <1>2, <3>2, <4>1, <4>3
    <3>5. MaxFan = 1
      <4>1. MaxFan * Cut(1) <= 1 * Length
        BY Cuts
      <4>2. MaxFan * Length <= Length
        BY <1>a, <3>3, <3>4, <4>1
      <4>3. MaxFan >= 2 => Length * 2 <= Length * MaxFan
        BY <1>a, Products
      <4> QED
        BY <1>a, <4>2, <4>3
    <3>6. \A h \in 0..(MaxFan - 1) : h = g
      BY <3>4, <3>5
    <3> QED
      BY <2>1, <2>5, <3>1, <3>6
  <2> QED
    BY <2>3, <2>4, <2>5
<1> QED
  BY <1>a, <1>1, <1>2

-----------------------------------------------------------------------------
(* The strengthening. *)

(* What the turns of the read loop can be shown is all there is, or no
   artifact is judged in turns.                                             *)
Seen == Listed = Unit \/ "loop" \notin Modes

(* A record of sections holds nothing that did not pass as passed. *)
SectionsOf(sections, marks) ==
    \A s \in sections :
        /\ s = [digest |-> s.digest, verdict |-> s.verdict]
        /\ s.verdict \in Verdict \ {"none"}
        /\ s.verdict = "pass" => Covers(s.digest) \subseteq marks

(* A review judges the artifact as it is, of a node that awaits it and has an
   attempt left.                                                            *)
WholeInv ==
    /\ DOMAIN review = DOMAIN Idle
    /\ node \in [status : {"pending", "awaiting_review", "passed", "blocked"},
                 attempts : 0..MaxAttempts]
    /\ node.status \in {"pending", "awaiting_review"} => node.attempts < MaxAttempts
    /\ review.pc \in {"loop", "reask"} => "loop" \in Modes
    /\ review.pc \in {"triage", "parts", "loop", "reask"} => review.sections = {}
    /\ review.pc = "triage" => ~review.dropped
    /\ review.pc # "idle" =>
          /\ node.status = "awaiting_review"
          /\ review.whole = Digest(Unit, text, review.whole.context)
          /\ review.whole.context \in Context

AuditInv ==
    /\ SectionsOf(audit.sections, accepted)
    /\ Seen /\ audit.verdict = "pass" => Covers(audit.digest) \subseteq accepted
    /\ node.status = "passed" => audit.verdict \in {"pass", "unavailable"}
    /\ node.status = "passed" /\ audit.verdict = "pass" =>
          audit.digest = Digest(Unit, text, audit.digest.context)

(* The parts add up to the whole; a part that failed is a fault, and one that
   was lost is one of several or comes after a fault.                       *)
PartsInv ==
    review.pc = "parts" =>
        /\ \A u \in Unit : \E d \in DOMAIN review.answers :
              <<u, text[u], review.whole.context>> \in Covers(d)
        /\ \A d \in DOMAIN review.answers :
              /\ Covers(d) \subseteq Unit \X Version \X Context
              /\ review.answers[d] = "pass" => Covers(d) \subseteq accepted
              /\ review.answers[d] \in {"fail", "regenerate"} => review.fault
              /\ review.answers[d] = "lost" => review.fault \/ review.fanned
        /\ review.dropped => review.fault
        /\ review.whole \in DOMAIN review.answers =>
              DOMAIN review.answers = {review.whole} /\ ~review.fanned

VerdictInv ==
    /\ review.pc \in {"judged", "audited"} =>
          /\ Seen /\ review.verdict = "pass" => Covers(review.whole) \subseteq accepted
          /\ review.verdict = "fail" => review.fault \/ review.unanswered
          /\ review.verdict # "none"
          /\ SectionsOf(review.sections, accepted)
    /\ review.pc = "audited" => audit.verdict = review.verdict /\ audit.digest = review.whole

ReviewInv == TypeOK /\ WholeInv /\ AuditInv /\ PartsInv /\ VerdictInv

-----------------------------------------------------------------------------
(* Digests. *)

LEMMA CoversWhole ==
    ASSUME NEW t, NEW c
    PROVE  Covers(Digest(Unit, t, c)) = {<<u, t[u], c>> : u \in Unit}
<1> DEFINE d == Digest(Unit, t, c)
<1>1. DOMAIN d.units = Unit /\ d.context = c /\ \A u \in Unit : d.units[u] = t[u]
  BY DEF Digest
<1> HIDE DEF d
<1>2. Covers(d) = {<<u, t[u], c>> : u \in Unit}
  BY <1>1 DEF Covers
<1> QED
  BY <1>2 DEF d

LEMMA CoversPart ==
    ASSUME NEW p \in SUBSET Unit, review.whole = Digest(Unit, text, review.whole.context)
    PROVE  /\ Covers(DigestOf(p)) = {<<u, text[u], review.whole.context>> : u \in p}
           /\ DigestOf(p) = review.whole => p = Unit
           /\ DigestOf(Unit) = review.whole
<1> DEFINE w == review.whole
           d == DigestOf(p)
<1>0. w = Digest(Unit, text, w.context)
  OBVIOUS
<1>1. DOMAIN w.units = Unit /\ \A u \in Unit : w.units[u] = text[u]
  <2>1. \A c : Digest(Unit, text, c).units = [u \in Unit |-> text[u]]
    BY DEF Digest
  <2>2. w.units = [u \in Unit |-> text[u]]
    BY <1>0, <2>1
  <2> HIDE DEF w
  <2> QED
    BY <2>2
<1>2. DOMAIN d.units = p /\ d.context = w.context /\ \A u \in p : d.units[u] = w.units[u]
  BY DEF DigestOf
<1>3. DigestOf(Unit) = w
  <2>1. DigestOf(Unit) = [units |-> [u \in Unit |-> text[u]], context |-> w.context]
    BY <1>1 DEF DigestOf
  <2> QED
    BY <1>0, <2>1 DEF Digest
<1> HIDE DEF d, w
<1>4. Covers(d) = {<<u, text[u], w.context>> : u \in p}
  BY <1>1, <1>2 DEF Covers
<1>5. d = w => p = Unit
  BY <1>1, <1>2
<1> QED
  BY <1>3, <1>4, <1>5 DEF d, w

LEMMA CoversTyped ==
    ASSUME TypeOK, NEW c \in Context, NEW p \in SUBSET Unit
    PROVE  {<<u, text[u], c>> : u \in p} \subseteq Unit \X Version \X Context
BY DEF TypeOK

-----------------------------------------------------------------------------
(* Steps that settle a review. *)

LEMMA Settled ==
    ASSUME NEW r, NEW v, Settles(r, v)
    PROVE  /\ DOMAIN review' = DOMAIN Idle
           /\ review'.pc = "judged" /\ review'.whole = r.whole /\ review'.verdict = v
           /\ review'.fault = r.fault /\ review'.sections = r.sections
           /\ review'.unanswered = (\E d \in DOMAIN r.answers \ {r.whole} :
                                        r.answers[d] \in {"lost", "unavailable"})
           /\ review'.covered = {} /\ review'.turn = 0 /\ DOMAIN review'.answers = {}
BY DEF Settles, Idle

(* A settled review keeps the invariant when its verdict is earned. *)
LEMMA Settling ==
    ASSUME ReviewAssumption, ReviewInv, Rests, NEW r, NEW v \in Verdict \ {"none"},
           Settles(r, v), node.status = "awaiting_review",
           r.whole = Digest(Unit, text, r.whole.context), r.whole.context \in Context,
           accepted \subseteq accepted', accepted' \subseteq Unit \X Version \X Context,
           Seen /\ v = "pass" => Covers(r.whole) \subseteq accepted',
           v = "fail" => \/ r.fault
                         \/ \E d \in DOMAIN r.answers \ {r.whole} :
                               r.answers[d] \in {"lost", "unavailable"},
           SectionsOf(r.sections, accepted')
    PROVE  ReviewInv'
<1>s. /\ DOMAIN review' = DOMAIN Idle
      /\ review'.pc = "judged" /\ review'.whole = r.whole /\ review'.verdict = v
      /\ review'.fault = r.fault /\ review'.sections = r.sections
      /\ review'.unanswered = (\E d \in DOMAIN r.answers \ {r.whole} :
                                   r.answers[d] \in {"lost", "unavailable"})
      /\ review'.covered = {} /\ review'.turn = 0 /\ DOMAIN review'.answers = {}
  BY Settled
<1>r. UNCHANGED <<node, text, context, audit, bypassed, edits, redone>>
  BY DEF Rests
<1>1. TypeOK'
  <2>1. review'.turn \in 0..Turns
    BY <1>s DEF ReviewAssumption
  <2> QED
    BY <1>s, <1>r, <2>1 DEF ReviewInv, TypeOK
<1>2. WholeInv'
  BY <1>s, <1>r DEF ReviewInv, WholeInv
<1>3. AuditInv'
  <2>1. SectionsOf(audit.sections, accepted')
    BY DEF ReviewInv, AuditInv, SectionsOf
  <2> QED
    BY <1>r, <2>1 DEF ReviewInv, AuditInv
<1>4. PartsInv'
  BY <1>s DEF PartsInv
<1>5. VerdictInv'
  BY <1>s DEF VerdictInv
<1> QED
  BY <1>1, <1>2, <1>3, <1>4, <1>5 DEF ReviewInv

LEMMA BlankSections == \A marks : SectionsOf({}, marks)
BY DEF SectionsOf

LEMMA FreshFields ==
    ASSUME ReviewInv, ReviewAssumption
    PROVE  /\ Fresh.whole = Digest(Unit, text, context)
           /\ Fresh.whole = Digest(Unit, text, Fresh.whole.context)
           /\ Fresh.whole.context = context /\ context \in Context
           /\ Covers(Fresh.whole) \subseteq Unit \X Version \X Context
           /\ DOMAIN Fresh = DOMAIN Idle /\ Fresh.pc = "triage" /\ DOMAIN Fresh.answers = {}
           /\ Fresh.covered = {} /\ Fresh.turn = 0 /\ Fresh.verdict = "none"
           /\ Fresh.fault = FALSE /\ Fresh.dropped = FALSE /\ Fresh.sections = {}
<1>1. Fresh.whole = Digest(Unit, text, context)
  BY DEF Fresh, Idle
<1>2. Fresh.whole.context = context
  BY <1>1 DEF Digest
<1>3. Covers(Fresh.whole) = {<<u, text[u], context>> : u \in Unit}
  BY <1>1, CoversWhole
<1>4. context \in Context
  BY DEF ReviewInv, TypeOK
<1>5. Covers(Fresh.whole) \subseteq Unit \X Version \X Context
  BY <1>3, <1>4, CoversTyped DEF ReviewInv
<1>6. /\ DOMAIN Fresh = DOMAIN Idle /\ Fresh.pc = "triage" /\ DOMAIN Fresh.answers = {}
      /\ Fresh.covered = {} /\ Fresh.turn = 0 /\ Fresh.verdict = "none"
      /\ Fresh.fault = FALSE /\ Fresh.dropped = FALSE /\ Fresh.sections = {}
  BY DEF Fresh, Idle
<1> QED
  BY <1>1, <1>2, <1>4, <1>5, <1>6

LEMMA WholeTyped ==
    ASSUME ReviewInv, review.pc # "idle"
    PROVE  Covers(review.whole) \subseteq Unit \X Version \X Context
<1> DEFINE w == review.whole
<1>1. w = Digest(Unit, text, w.context) /\ w.context \in Context
  BY DEF ReviewInv, WholeInv
<1>2. Covers(Digest(Unit, text, w.context)) = {<<u, text[u], w.context>> : u \in Unit}
  BY CoversWhole
<1>3. Covers(w) = {<<u, text[u], w.context>> : u \in Unit}
  BY <1>1, <1>2
<1> QED
  BY <1>1, <1>3, CoversTyped DEF ReviewInv

LEMMA PassUnjudgedStep ==
    ASSUME ReviewAssumption, ReviewInv, PassUnjudged
    PROVE  ReviewInv'
<1>1. /\ Settles(Fresh, "pass") /\ accepted' = accepted \cup Covers(Fresh.whole) /\ Rests
      /\ node.status = "awaiting_review"
  BY DEF PassUnjudged, Accepts, Begins
<1>2. accepted' \subseteq Unit \X Version \X Context
  BY <1>1, FreshFields DEF ReviewInv, TypeOK
<1>3. SectionsOf(Fresh.sections, accepted')
  BY FreshFields, BlankSections
<1> HIDE DEF ReviewInv
<1> QED
  BY <1>1, <1>2, <1>3, FreshFields, Settling DEF Verdict

LEMMA ReuseVerdictStep ==
    ASSUME ReviewAssumption, ReviewInv, ReuseVerdict
    PROVE  ReviewInv'
<1> DEFINE r == [Fresh EXCEPT !.sections = audit.sections]
<1>1. /\ Settles(r, "pass") /\ accepted' = accepted /\ Rests
      /\ node.status = "awaiting_review"
      /\ audit.verdict = "pass" /\ audit.digest = Fresh.whole
  BY DEF ReuseVerdict, CachedPass, Begins
<1>2. r.whole = Fresh.whole /\ r.sections = audit.sections
  BY FreshFields DEF Idle
<1> HIDE DEF r
<1>3. accepted' \subseteq Unit \X Version \X Context
  BY <1>1 DEF ReviewInv, TypeOK
<1>4. SectionsOf(r.sections, accepted') /\ (Seen => Covers(r.whole) \subseteq accepted')
  BY <1>1, <1>2 DEF ReviewInv, AuditInv
<1>5. r.whole = Digest(Unit, text, r.whole.context) /\ r.whole.context \in Context
  BY <1>2, FreshFields
<1> QED
  BY <1>1, <1>3, <1>4, <1>5, Settling DEF Verdict

(* A step of the call under way that settles it, with nothing new passed. *)
LEMMA SettlingUnpassed ==
    ASSUME ReviewAssumption, ReviewInv, Rests, accepted' = accepted, NEW r,
           NEW v \in {"fail", "unavailable"}, Settles(r, v),
           review.pc # "idle", r.whole = review.whole, r.sections = {},
           v = "fail" => r.fault
    PROVE  ReviewInv'
<1>1. /\ node.status = "awaiting_review" /\ accepted' \subseteq Unit \X Version \X Context
      /\ r.whole = Digest(Unit, text, r.whole.context) /\ r.whole.context \in Context
  BY DEF ReviewInv, WholeInv, TypeOK
<1>2. v \in Verdict \ {"none"} /\ v # "pass"
  BY DEF Verdict
<1>3. SectionsOf(r.sections, accepted')
  BY BlankSections
<1> QED
  BY <1>1, <1>2, <1>3, Settling

-----------------------------------------------------------------------------
(* Steps of a call. *)

(* Before the parts are asked about, and in the turns of the loop, nothing is
   claimed of the artifact.                                                 *)
LEMMA Waiting ==
    ASSUME ReviewInv, Rests, accepted' = accepted, node.status = "awaiting_review",
           DOMAIN review' = DOMAIN Idle, review'.pc \in {"triage", "loop", "reask"},
           review'.pc \in {"loop", "reask"} => "loop" \in Modes,
           review'.whole = Digest(Unit, text, review'.whole.context),
           review'.whole.context \in Context, review'.sections = {},
           review'.covered \subseteq Listed, review'.turn \in 0..Turns,
           review'.verdict \in Verdict, review'.pc = "triage" => ~review'.dropped,
           \A d \in DOMAIN review'.answers : review'.answers[d] \in Answer
    PROVE  ReviewInv'
<1>r. UNCHANGED <<node, text, context, audit, bypassed, edits, redone>>
  BY DEF Rests
<1>1. TypeOK'
  BY <1>r DEF ReviewInv, TypeOK
<1>2. WholeInv'
  BY <1>r DEF ReviewInv, WholeInv
<1>3. AuditInv'
  BY <1>r DEF ReviewInv, AuditInv
<1>4. PartsInv' /\ VerdictInv'
  BY DEF PartsInv, VerdictInv
<1> QED
  BY <1>1, <1>2, <1>3, <1>4 DEF ReviewInv

LEMMA BeginReviewStep ==
    ASSUME ReviewAssumption, ReviewInv, BeginReview
    PROVE  ReviewInv'
<1>1. review' = Fresh /\ accepted' = accepted /\ Rests /\ node.status = "awaiting_review"
  BY DEF BeginReview, Begins
<1>2. 0 \in 0..Turns /\ "none" \in Verdict
  BY DEF ReviewAssumption, Verdict
<1> QED
  BY <1>1, <1>2, FreshFields, Waiting

LEMMA NextTurnStep ==
    ASSUME ReviewAssumption, ReviewInv, Rests, accepted' = accepted, review.pc = "loop", NEW r,
           DOMAIN r = DOMAIN Idle, r.pc = "loop", r.whole = review.whole, r.sections = {},
           r.covered \subseteq Listed, r.turn = review.turn, r.verdict = review.verdict,
           r.answers = review.answers, NextTurn(r)
    PROVE  ReviewInv'
<1>1. CASE r.turn + 1 < Turns
  <2>1. review' = [r EXCEPT !.turn = @ + 1]
    BY <1>1 DEF NextTurn
  <2>2. /\ DOMAIN review' = DOMAIN Idle /\ review'.pc = "loop" /\ review'.whole = r.whole
        /\ review'.sections = {} /\ review'.covered = r.covered /\ review'.turn = r.turn + 1
        /\ review'.verdict = r.verdict /\ review'.answers = r.answers
    BY <2>1 DEF Idle
  <2>3. review'.turn \in 0..Turns
    BY <1>1, <2>2 DEF ReviewInv, TypeOK, ReviewAssumption
  <2>4. /\ node.status = "awaiting_review" /\ "loop" \in Modes
        /\ review.whole = Digest(Unit, text, review.whole.context)
        /\ review.whole.context \in Context
    BY DEF ReviewInv, WholeInv
  <2>5. /\ review.verdict \in Verdict
        /\ \A d \in DOMAIN review.answers : review.answers[d] \in Answer
    BY DEF ReviewInv, TypeOK
  <2> QED
    BY <2>2, <2>3, <2>4, <2>5, Waiting
<1>2. CASE ~(r.turn + 1 < Turns)
  <2>1. Settles(r, "unavailable")
    BY <1>2 DEF NextTurn
  <2> QED
    BY <2>1, SettlingUnpassed
<1> QED
  BY <1>1, <1>2

LEMMA InCallFacts ==
    ASSUME ReviewInv, review.pc \in {"triage", "parts", "loop", "reask"}
    PROVE  /\ node.status = "awaiting_review" /\ review.sections = {}
           /\ DOMAIN review = DOMAIN Idle
           /\ review.whole = Digest(Unit, text, review.whole.context)
           /\ review.whole.context \in Context
           /\ accepted \subseteq Unit \X Version \X Context
BY DEF ReviewInv, WholeInv, TypeOK

LEMMA TurnsStep ==
    ASSUME ReviewAssumption, ReviewInv, Reads \/ Faults \/ Passes \/ TurnRaises \/ ReaskAnswered
    PROVE  ReviewInv'
<1> HIDE DEF ReviewInv
<1>1. CASE Reads
  <2>1. PICK got \in SUBSET Listed : NextTurn([review EXCEPT !.covered = @ \cup got])
    BY <1>1 DEF Reads
  <2>2. review.pc = "loop" /\ accepted' = accepted /\ Rests
    BY <1>1 DEF Reads, InTurn
  <2> DEFINE r == [review EXCEPT !.covered = @ \cup got]
  <2>3. /\ DOMAIN r = DOMAIN review /\ r.pc = review.pc /\ r.whole = review.whole
        /\ r.sections = review.sections /\ r.covered = review.covered \cup got
        /\ r.turn = review.turn /\ r.verdict = review.verdict /\ r.answers = review.answers
    BY <2>2, InCallFacts DEF Idle
  <2>4. review.covered \subseteq Listed
    BY DEF ReviewInv, TypeOK
  <2> HIDE DEF r
  <2>5. NextTurn(r)
    BY <2>1 DEF r
  <2> QED
    BY <2>2, <2>3, <2>4, <2>5, InCallFacts, NextTurnStep
<1>2. CASE Faults
  <2>1. review.pc = "loop" /\ accepted' = accepted /\ Rests
    BY <1>2 DEF Faults, InTurn
  <2>2. CASE Settles([review EXCEPT !.fault = TRUE], "fail")
    <3> DEFINE r == [review EXCEPT !.fault = TRUE]
    <3>1. r.whole = review.whole /\ r.sections = {} /\ r.fault
      BY <2>1, InCallFacts DEF Idle
    <3> HIDE DEF r
    <3>2. Settles(r, "fail")
      BY <2>2 DEF r
    <3> QED
      BY <2>1, <3>1, <3>2, SettlingUnpassed
  <2>3. CASE review' = [review EXCEPT !.pc = "reask"]
    <3>1. /\ DOMAIN review' = DOMAIN Idle /\ review'.pc = "reask" /\ review'.whole = review.whole
          /\ review'.sections = review.sections /\ review'.covered = review.covered
          /\ review'.turn = review.turn /\ review'.verdict = review.verdict
          /\ review'.answers = review.answers
      BY <2>1, <2>3, InCallFacts DEF Idle
    <3>2. /\ "loop" \in Modes /\ review.covered \subseteq Listed /\ review.turn \in 0..Turns
          /\ review.verdict \in Verdict
          /\ \A d \in DOMAIN review.answers : review.answers[d] \in Answer
      BY <2>1 DEF ReviewInv, TypeOK, WholeInv
    <3> QED
      BY <2>1, <3>1, <3>2, InCallFacts, Waiting
  <2> QED
    BY <1>2, <2>2, <2>3 DEF Faults
<1>3. CASE Passes
  <2>1. review.pc = "loop" /\ Rests
    BY <1>3 DEF Passes, InTurn
  <2>2. CASE CoverageComplete
    <3>1. /\ Settles(review, "pass")
          /\ accepted' = accepted \cup Covers(DigestOf(review.covered))
      BY <1>3, <2>2 DEF Passes, Accepts
    <3>2. /\ review.covered = Listed /\ review.covered \in SUBSET Unit
      BY <2>2 DEF CoverageComplete, ReviewInv, TypeOK, ReviewAssumption
    <3>3. Covers(DigestOf(review.covered)) =
              {<<u, text[u], review.whole.context>> : u \in review.covered}
      BY <2>1, <3>2, InCallFacts, CoversPart
    <3>4. accepted' \subseteq Unit \X Version \X Context
      BY <2>1, <3>1, <3>2, <3>3, InCallFacts, CoversTyped DEF ReviewInv
    <3>5. Seen => Covers(review.whole) \subseteq accepted'
      <4>1. "loop" \in Modes
        BY <2>1 DEF ReviewInv, WholeInv
      <4>2. ASSUME Seen PROVE DigestOf(review.covered) = review.whole
        BY <2>1, <3>2, <4>1, <4>2, InCallFacts, CoversPart DEF Seen
      <4> QED
        BY <3>1, <4>2
    <3>6. SectionsOf(review.sections, accepted')
      BY <2>1, InCallFacts, BlankSections
    <3> QED
      BY <2>1, <3>1, <3>4, <3>5, <3>6, InCallFacts, Settling DEF Verdict
  <2>3. CASE ~CoverageComplete
    <3>1. /\ accepted' = accepted
          /\ \E contradicts \in BOOLEAN :
                NextTurn([review EXCEPT !.found = @ \/ contradicts])
      BY <1>3, <2>3 DEF Passes
    <3>2. PICK contradicts \in BOOLEAN : NextTurn([review EXCEPT !.found = @ \/ contradicts])
      BY <3>1
    <3> DEFINE r == [review EXCEPT !.found = @ \/ contradicts]
    <3>3. /\ DOMAIN r = DOMAIN review /\ r.pc = review.pc /\ r.whole = review.whole
          /\ r.sections = review.sections /\ r.covered = review.covered
          /\ r.turn = review.turn /\ r.verdict = review.verdict /\ r.answers = review.answers
      BY <2>1, InCallFacts DEF Idle
    <3>4. review.covered \subseteq Listed
      BY DEF ReviewInv, TypeOK
    <3> HIDE DEF r
    <3>5. NextTurn(r)
      BY <3>2 DEF r
    <3> QED
      BY <2>1, <3>1, <3>3, <3>4, <3>5, InCallFacts, NextTurnStep
  <2> QED
    BY <2>2, <2>3
<1>4. CASE TurnRaises
  <2>1. review.pc = "loop" /\ Settles(review, "unavailable") /\ accepted' = accepted /\ Rests
    BY <1>4 DEF TurnRaises, InTurn
  <2> QED
    BY <2>1, InCallFacts, SettlingUnpassed
<1>5. CASE ReaskAnswered
  <2>1. review.pc = "reask" /\ accepted' = accepted /\ Rests
    BY <1>5 DEF ReaskAnswered
  <2>2. CASE Settles([review EXCEPT !.fault = TRUE], "fail")
    <3> DEFINE r == [review EXCEPT !.fault = TRUE]
    <3>1. r.whole = review.whole /\ r.sections = {} /\ r.fault
      BY <2>1, InCallFacts DEF Idle
    <3> HIDE DEF r
    <3>2. Settles(r, "fail")
      BY <2>2 DEF r
    <3> QED
      BY <2>1, <3>1, <3>2, SettlingUnpassed
  <2>3. CASE Settles(review, "unavailable")
    BY <2>1, <2>3, InCallFacts, SettlingUnpassed
  <2> QED
    BY <1>5, <2>2, <2>3 DEF ReaskAnswered
<1> QED
  BY <1>1, <1>2, <1>3, <1>4, <1>5

(* The triage and the operator pass the whole. *)
LEMMA PassedWholeStep ==
    ASSUME ReviewAssumption, ReviewInv, TriagePasses \/ BypassTakes
    PROVE  ReviewInv'
<1> HIDE DEF ReviewInv
<1>1. /\ review.pc \in {"triage", "parts", "loop", "reask"} /\ Rests
      /\ accepted' = accepted \cup Covers(review.whole)
  BY DEF TriagePasses, BypassTakes, InCall, Accepts
<1>2. \E r : Settles(r, "pass") /\ r.whole = review.whole /\ r.sections = {}
  <2>1. CASE TriagePasses
    BY <1>1, <2>1, InCallFacts DEF TriagePasses
  <2>2. CASE BypassTakes
    <3> DEFINE r == [Idle EXCEPT !.whole = review.whole]
    <3>1. r.whole = review.whole /\ r.sections = {}
      BY DEF Idle
    <3>2. Settles(r, "pass")
      BY <2>2 DEF BypassTakes
    <3> HIDE DEF r
    <3> QED
      BY <3>1, <3>2
  <2> QED
    BY <2>1, <2>2
<1>3. PICK r : Settles(r, "pass") /\ r.whole = review.whole /\ r.sections = {}
  BY <1>2
<1>4. accepted' \subseteq Unit \X Version \X Context
  BY <1>1, InCallFacts, WholeTyped
<1>5. SectionsOf(r.sections, accepted')
  BY <1>3, BlankSections
<1>6. Covers(r.whole) \subseteq accepted' /\ accepted \subseteq accepted'
  BY <1>1, <1>3
<1> QED
  BY <1>1, <1>3, <1>4, <1>5, <1>6, InCallFacts, Settling DEF Verdict

-----------------------------------------------------------------------------
(* Parts. *)

(* A step among the parts keeps the invariant when it keeps what PartsInv
   says of their answers.                                                   *)
LEMMA PartsGoOn ==
    ASSUME ReviewInv, Rests, review.pc \in {"triage", "parts"},
           accepted \subseteq accepted', accepted' \subseteq Unit \X Version \X Context,
           DOMAIN review' = DOMAIN Idle, review'.pc = "parts", review'.whole = review.whole,
           review'.sections = {}, review'.covered = review.covered,
           review'.turn = review.turn, review'.verdict = review.verdict,
           \A d \in DOMAIN review'.answers : review'.answers[d] \in Answer,
           PartsInv'
    PROVE  ReviewInv'
<1>r. UNCHANGED <<node, text, context, audit, bypassed, edits, redone>>
  BY DEF Rests
<1>1. TypeOK'
  BY <1>r DEF ReviewInv, TypeOK
<1>2. WholeInv'
  BY <1>r DEF ReviewInv, WholeInv
<1>3. AuditInv'
  <2>1. SectionsOf(audit.sections, accepted')
    BY DEF ReviewInv, AuditInv, SectionsOf
  <2> QED
    BY <1>r, <2>1 DEF ReviewInv, AuditInv
<1>4. VerdictInv'
  BY DEF VerdictInv
<1> QED
  BY <1>1, <1>2, <1>3, <1>4 DEF ReviewInv

(* The verdicts on record are of parts that passed. *)
LEMMA RecordedCovers ==
    ASSUME ReviewInv, NEW d, Recorded(d)
    PROVE  Covers(d) \subseteq accepted
BY DEF ReviewInv, AuditInv, SectionsOf, Recorded

LEMMA JudgePartsStep ==
    ASSUME ReviewAssumption, ReviewInv, NEW parts, JudgeParts(parts),
           \A p \in parts : p \subseteq Unit,
           \A u \in Unit : \E p \in parts : u \in p,
           Unit \in parts => parts = {Unit}
    PROVE  ReviewInv'
<1> DEFINE all == {DigestOf(p) : p \in parts}
           ask == {d \in all : ~Recorded(d)}
           answers == [d \in all |-> IF d \in ask THEN "asked" ELSE "pass"]
<1>1. /\ review.pc = "triage" /\ accepted' = accepted /\ Rests
      /\ review' = [review EXCEPT !.pc = "parts", !.answers = answers,
                                  !.fanned = Cardinality(ask) > 1]
  BY DEF JudgeParts
<1>2. /\ DOMAIN answers = all
      /\ \A d \in all : /\ answers[d] \in {"asked", "pass"}
                        /\ answers[d] = "pass" => Recorded(d)
  OBVIOUS
<1>3. all = {review.whole} => ~(Cardinality(ask) > 1)
  <2> SUFFICES ASSUME all = {review.whole} PROVE ~(Cardinality(ask) > 1)
    OBVIOUS
  <2>1. ask = {} \/ ask = {review.whole}
    OBVIOUS
  <2> HIDE DEF ask
  <2>2. Cardinality({}) = 0 /\ Cardinality({review.whole}) = 1
    BY FS_EmptySet, FS_Singleton
  <2>3. Cardinality(ask) = 0 \/ Cardinality(ask) = 1
    BY <2>1, <2>2, Zenon
  <2> QED
    BY <2>3
<1>w. review.whole = Digest(Unit, text, review.whole.context) /\ review.whole.context \in Context
  BY <1>1, InCallFacts
<1>4. \A p \in parts :
          /\ Covers(DigestOf(p)) = {<<u, text[u], review.whole.context>> : u \in p}
          /\ Covers(DigestOf(p)) \subseteq Unit \X Version \X Context
          /\ DigestOf(p) = review.whole => p = Unit
  <2> TAKE p \in parts
  <2>1. p \in SUBSET Unit /\ TypeOK
    BY DEF ReviewInv
  <2>2. /\ Covers(DigestOf(p)) = {<<u, text[u], review.whole.context>> : u \in p}
        /\ DigestOf(p) = review.whole => p = Unit
    BY <1>w, <2>1, CoversPart
  <2>3. {<<u, text[u], review.whole.context>> : u \in p} \subseteq Unit \X Version \X Context
    BY <1>w, <2>1, CoversTyped
  <2> QED
    BY <2>2, <2>3
<1>5. \A u \in Unit : \E d \in all : <<u, text[u], review.whole.context>> \in Covers(d)
  <2> TAKE u \in Unit
  <2>1. PICK p \in parts : u \in p
    OBVIOUS
  <2>2. <<u, text[u], review.whole.context>> \in Covers(DigestOf(p))
    BY <1>4, <2>1
  <2> QED
    BY <2>2
<1>6. review.whole \in all => all = {review.whole}
  <2> SUFFICES ASSUME NEW p \in parts, review.whole = DigestOf(p) PROVE all = {review.whole}
    OBVIOUS
  <2>1. p = Unit
    BY <1>4
  <2>2. parts = {Unit}
    BY <2>1
  <2> QED
    BY <2>1, <2>2
<1>7. \A d \in all : Covers(d) \subseteq Unit \X Version \X Context
  BY <1>4
<1> DEFINE fanned == Cardinality(ask) > 1
<1> HIDE DEF all, answers, fanned
<1>8. /\ DOMAIN review' = DOMAIN Idle /\ review'.pc = "parts" /\ review'.whole = review.whole
      /\ review'.sections = review.sections /\ review'.covered = review.covered
      /\ review'.turn = review.turn /\ review'.verdict = review.verdict
      /\ review'.answers = answers /\ review'.fanned = fanned /\ review'.dropped = review.dropped
      /\ review'.fault = review.fault
  BY <1>1, InCallFacts DEF Idle, fanned
<1>9. review.dropped => review.fault
  BY <1>1 DEF ReviewInv, WholeInv
<1>10. PartsInv'
  BY <1>1, <1>2, <1>3, <1>5, <1>6, <1>7, <1>8, <1>9, RecordedCovers DEF PartsInv, fanned, Rests
<1>11. \A d \in DOMAIN review'.answers : review'.answers[d] \in Answer
  BY <1>2, <1>8 DEF Answer
<1>12. accepted \subseteq accepted' /\ accepted' \subseteq Unit \X Version \X Context
  BY <1>1, InCallFacts
<1> QED
  BY <1>1, <1>8, <1>10, <1>11, <1>12, InCallFacts, PartsGoOn

LEMMA PartsFacts ==
    ASSUME ReviewInv, review.pc = "parts"
    PROVE  /\ PartsInv
           /\ \A d \in DOMAIN review.answers : review.answers[d] \in Answer
BY DEF ReviewInv, TypeOK

(* One answer comes. *)
LEMMA AnsweredStep ==
    ASSUME ReviewAssumption, ReviewInv, NEW d \in DOMAIN review.answers, NEW a,
           a \in {"pass", "fail", "regenerate", "unavailable", "lost"},
           Answered(d, a), accepted \subseteq accepted',
           accepted' \subseteq Unit \X Version \X Context,
           a = "pass" => Covers(d) \subseteq accepted',
           a = "lost" => review.fanned
    PROVE  ReviewInv'
<1> DEFINE b == IF review.dropped THEN "lost" ELSE a
           drops == review.dropped \/ a = "regenerate"
           faults == review.fault \/ (a \in {"fail", "regenerate"} /\ ~review.dropped)
<1>1. review.pc = "parts" /\ Rests
  BY DEF Answered, Open
<1>2. /\ DOMAIN review' = DOMAIN Idle /\ review'.pc = "parts" /\ review'.whole = review.whole
      /\ review'.sections = review.sections /\ review'.covered = review.covered
      /\ review'.turn = review.turn /\ review'.verdict = review.verdict
      /\ review'.answers = [review.answers EXCEPT ![d] = b]
      /\ review'.fanned = review.fanned
      /\ review'.dropped = drops /\ review'.fault = faults
  BY <1>1, InCallFacts DEF Answered, Idle
<1>3. PartsInv /\ \A e \in DOMAIN review.answers : review.answers[e] \in Answer
  BY <1>1, PartsFacts
<1>4. /\ DOMAIN review'.answers = DOMAIN review.answers
      /\ review'.answers[d] = b
      /\ \A e \in DOMAIN review.answers \ {d} : review'.answers[e] = review.answers[e]
  BY <1>2
<1>5. /\ b \in Answer /\ (b = "pass" => a = "pass")
      /\ b \in {"fail", "regenerate"} => faults
      /\ b = "lost" => faults \/ review.fanned
      /\ review.fault => faults
      /\ drops => faults
  BY <1>1, <1>3 DEF Answer, PartsInv
<1> HIDE DEF b, drops, faults
<1>6. \A e \in DOMAIN review'.answers : review'.answers[e] \in Answer
  BY <1>3, <1>4, <1>5
<1>7. text' = text
  BY <1>1 DEF Rests
<1>8. \A u \in Unit : \E e \in DOMAIN review'.answers :
          <<u, text'[u], review'.whole.context>> \in Covers(e)
  BY <1>1, <1>2, <1>3, <1>4, <1>7 DEF PartsInv
<1>9. \A e \in DOMAIN review'.answers :
          /\ Covers(e) \subseteq Unit \X Version \X Context
          /\ review'.answers[e] = "pass" => Covers(e) \subseteq accepted'
          /\ review'.answers[e] \in {"fail", "regenerate"} => review'.fault
          /\ review'.answers[e] = "lost" => review'.fault \/ review'.fanned
  <2> TAKE e \in DOMAIN review'.answers
  <2>1. CASE e = d
    BY <1>1, <1>2, <1>3, <1>4, <1>5, <2>1 DEF PartsInv
  <2>2. CASE e # d
    BY <1>1, <1>2, <1>3, <1>4, <1>5, <2>2 DEF PartsInv
  <2> QED
    BY <2>1, <2>2
<1>10. /\ review'.dropped => review'.fault
       /\ review'.whole \in DOMAIN review'.answers =>
             DOMAIN review'.answers = {review'.whole} /\ ~review'.fanned
  BY <1>1, <1>2, <1>3, <1>4, <1>5 DEF PartsInv
<1>11. PartsInv'
  BY <1>8, <1>9, <1>10 DEF PartsInv
<1> QED
  BY <1>1, <1>2, <1>6, <1>11, InCallFacts, PartsGoOn

LEMMA PartStepKeeps ==
    ASSUME ReviewAssumption, ReviewInv, PartStep
    PROVE  ReviewInv'
<1> HIDE DEF ReviewInv
<1>1. PICK d \in DOMAIN review.answers :
          PartPasses(d) \/ PartFails(d) \/ AskAgain(d) \/ DefectUnclear(d) \/ CallRaises(d)
  BY DEF PartStep
<1>2. review.pc = "parts"
  BY <1>1 DEF PartPasses, PartFails, AskAgain, DefectUnclear, CallRaises, Answered, Open
<1>3. accepted \subseteq Unit \X Version \X Context
  BY <1>2, InCallFacts
<1>4. PartsInv /\ \A e \in DOMAIN review.answers : review.answers[e] \in Answer
  BY <1>2, PartsFacts
<1>5. CASE PartPasses(d)
  <2>1. Answered(d, "pass") /\ accepted' = accepted \cup Covers(d)
    BY <1>5 DEF PartPasses, Accepts
  <2>2. Covers(d) \subseteq Unit \X Version \X Context
    BY <1>2, <1>4 DEF PartsInv
  <2> QED
    BY <1>3, <2>1, <2>2, AnsweredStep
<1>6. CASE PartFails(d)
  <2>1. PICK a \in {"fail", "regenerate"} : Answered(d, a) /\ accepted' = accepted
    BY <1>6 DEF PartFails
  <2> QED
    BY <1>3, <2>1, AnsweredStep
<1>7. CASE DefectUnclear(d)
  <2>1. Answered(d, "unavailable") /\ accepted' = accepted
    BY <1>7 DEF DefectUnclear
  <2> QED
    BY <1>3, <2>1, AnsweredStep
<1>8. CASE CallRaises(d)
  <2>1. accepted' = accepted
    BY <1>8 DEF CallRaises
  <2>2. CASE review.fanned
    <3>1. Answered(d, "lost")
      BY <1>8, <2>2 DEF CallRaises
    <3> QED
      BY <1>3, <2>1, <2>2, <3>1, AnsweredStep
  <2>3. CASE ~review.fanned
    <3>1. Settles(review, "unavailable") /\ Rests
      BY <1>8, <2>3 DEF CallRaises
    <3> QED
      BY <1>2, <2>1, <3>1, InCallFacts, SettlingUnpassed
  <2> QED
    BY <2>2, <2>3
<1>9. CASE AskAgain(d)
  <2>1. /\ accepted' = accepted /\ Rests /\ text' = text
        /\ review' = [review EXCEPT !.answers[d] = "reasked"]
    BY <1>9 DEF AskAgain, Rests
  <2>2. /\ DOMAIN review' = DOMAIN Idle /\ review'.pc = "parts" /\ review'.whole = review.whole
        /\ review'.sections = review.sections /\ review'.covered = review.covered
        /\ review'.turn = review.turn /\ review'.verdict = review.verdict
        /\ review'.answers = [review.answers EXCEPT ![d] = "reasked"]
        /\ review'.fanned = review.fanned /\ review'.dropped = review.dropped
        /\ review'.fault = review.fault
    BY <1>2, <2>1, InCallFacts DEF Idle
  <2>3. /\ DOMAIN review'.answers = DOMAIN review.answers
        /\ \A e \in DOMAIN review.answers :
              review'.answers[e] = IF e = d THEN "reasked" ELSE review.answers[e]
    BY <2>2
  <2>4. \A e \in DOMAIN review'.answers : review'.answers[e] \in Answer
    BY <1>4, <2>3 DEF Answer
  <2>5. PartsInv'
    <3>1. \A u \in Unit : \E e \in DOMAIN review'.answers :
              <<u, text'[u], review'.whole.context>> \in Covers(e)
      BY <1>2, <1>4, <2>1, <2>2, <2>3 DEF PartsInv
    <3>2. \A e \in DOMAIN review'.answers :
              /\ Covers(e) \subseteq Unit \X Version \X Context
              /\ review'.answers[e] = "pass" => Covers(e) \subseteq accepted'
              /\ review'.answers[e] \in {"fail", "regenerate"} => review'.fault
              /\ review'.answers[e] = "lost" => review'.fault \/ review'.fanned
      <4> TAKE e \in DOMAIN review'.answers
      <4>1. review'.answers[e] = review.answers[e] \/ review'.answers[e] = "reasked"
        BY <2>3
      <4> QED
        BY <1>2, <1>4, <2>1, <2>2, <2>3, <4>1 DEF PartsInv
    <3>3. /\ review'.dropped => review'.fault
          /\ review'.whole \in DOMAIN review'.answers =>
                DOMAIN review'.answers = {review'.whole} /\ ~review'.fanned
      BY <1>2, <1>4, <2>2, <2>3 DEF PartsInv
    <3> QED
      BY <3>1, <3>2, <3>3 DEF PartsInv
  <2> QED
    BY <1>2, <1>3, <2>1, <2>2, <2>4, <2>5, InCallFacts, PartsGoOn
<1> QED
  BY <1>1, <1>5, <1>6, <1>7, <1>8, <1>9

(* When all parts have answered: a pass is a pass of all of them, a fail is a
   fault or a part nobody answered for.                                     *)
LEMMA PartsJudgedStep ==
    ASSUME ReviewAssumption, ReviewInv, PartsJudged
    PROVE  ReviewInv'
<1> HIDE DEF ReviewInv
<1> DEFINE secs == IF Overall = "unavailable" THEN {} ELSE Sections
           r == [review EXCEPT !.sections = secs]
<1>1. /\ review.pc = "parts" /\ accepted' = accepted /\ Rests /\ Settles(r, Overall)
      /\ \A d \in DOMAIN review.answers : review.answers[d] \notin {"asked", "reasked"}
  BY DEF PartsJudged, Open
<1>2. /\ r.whole = review.whole /\ r.sections = secs /\ r.fault = review.fault
      /\ r.answers = review.answers
  BY <1>1, InCallFacts DEF Idle
<1>3. PartsInv /\ \A d \in DOMAIN review.answers : review.answers[d] \in Answer
  BY <1>1, PartsFacts
<1>4. SectionsOf(secs, accepted')
  <2>1. SectionsOf(Sections, accepted)
    <3> SUFFICES ASSUME NEW d \in DOMAIN review.answers, review.answers[d] # "lost", NEW s,
                        s = [digest |-> d,
                             verdict |-> CASE review.answers[d] = "pass" -> "pass"
                                           [] review.answers[d] = "unavailable" -> "unavailable"
                                           [] OTHER -> "fail"]
                 PROVE  /\ s = [digest |-> s.digest, verdict |-> s.verdict]
                        /\ s.verdict \in Verdict \ {"none"}
                        /\ s.verdict = "pass" => Covers(s.digest) \subseteq accepted
      BY DEF Sections, SectionsOf
    <3>1. s.digest = d /\ s.verdict \in {"pass", "unavailable", "fail"}
      OBVIOUS
    <3>2. s.verdict = "pass" => review.answers[d] = "pass"
      OBVIOUS
    <3> QED
      BY <1>1, <1>3, <3>1, <3>2 DEF PartsInv, Verdict
  <2> QED
    BY <1>1, <2>1, BlankSections
<1> HIDE DEF secs, r
<1>5. Overall \in {"pass", "unavailable", "fail"}
  BY DEF Overall
<1>6. Overall = "pass" => Covers(review.whole) \subseteq accepted
  <2> SUFFICES ASSUME Overall = "pass", NEW u \in Unit
               PROVE  <<u, text[u], review.whole.context>> \in accepted
    <3>1. review.whole = Digest(Unit, text, review.whole.context)
      BY <1>1, InCallFacts
    <3>2. Covers(review.whole) = {<<u, text[u], review.whole.context>> : u \in Unit}
      BY <3>1, CoversPart DEF Unit
    <3> QED
      BY <3>2
  <2>1. {review.answers[d] : d \in DOMAIN review.answers} = {"pass"}
    BY DEF Overall
  <2>2. \A d \in DOMAIN review.answers : review.answers[d] = "pass"
    BY <2>1
  <2> QED
    BY <1>1, <1>3, <2>2 DEF PartsInv
<1>7. ASSUME Overall = "fail"
      PROVE  \/ r.fault
             \/ \E d \in DOMAIN r.answers \ {r.whole} : r.answers[d] \in {"lost", "unavailable"}
  <2>1. \E d \in DOMAIN review.answers : review.answers[d] # "pass"
    <3>1. 1 \in Unit
      BY DEF Unit, ReviewAssumption
    <3>2. DOMAIN review.answers # {}
      BY <1>1, <1>3, <3>1 DEF PartsInv
    <3>3. {review.answers[d] : d \in DOMAIN review.answers} # {"pass"}
      BY <1>7 DEF Overall
    <3> QED
      BY <3>2, <3>3
  <2>2. PICK d \in DOMAIN review.answers : review.answers[d] # "pass"
    BY <2>1
  <2>3. review.answers[d] \in {"fail", "regenerate", "unavailable", "lost"}
    BY <1>1, <1>3, <2>2 DEF Answer
  <2>4. CASE review.answers[d] \in {"fail", "regenerate"}
    BY <1>1, <1>2, <1>3, <2>4 DEF PartsInv
  <2>5. CASE d # review.whole /\ review.answers[d] \in {"unavailable", "lost"}
    BY <1>2, <2>5
  <2>6. CASE d = review.whole /\ review.answers[d] = "lost"
    BY <1>1, <1>2, <1>3, <2>6 DEF PartsInv
  <2>7. CASE d = review.whole /\ review.answers[d] = "unavailable"
    <3>1. DOMAIN review.answers = {review.whole}
      BY <1>1, <1>3, <2>7 DEF PartsInv
    <3>2. {review.answers[e] : e \in DOMAIN review.answers} = {"unavailable"}
      BY <2>7, <3>1
    <3>3. Overall = "unavailable"
      BY <3>1, <3>2 DEF Overall
    <3> QED
      BY <1>7, <3>3
  <2> QED
    BY <2>3, <2>4, <2>5, <2>6, <2>7
<1>8. accepted' \subseteq Unit \X Version \X Context
  BY <1>1, InCallFacts
<1>9. Overall \in Verdict \ {"none"}
  BY <1>5 DEF Verdict
<1> QED
  BY <1>1, <1>2, <1>4, <1>6, <1>7, <1>8, <1>9, InCallFacts, Settling

-----------------------------------------------------------------------------
(* The way a review is chosen, and what is made of its verdict. *)

LEMMA JudgeStep ==
    ASSUME ReviewAssumption, ReviewInv, JudgeWhole \/ JudgeSections \/ JudgeInTurns
    PROVE  ReviewInv'
<1> HIDE DEF ReviewInv
<1>1. CASE JudgeWhole
  BY <1>1, JudgePartsStep DEF JudgeWhole
<1>2. CASE JudgeSections
  BY <1>2, JudgePartsStep, GroupsTile DEF JudgeSections
<1>3. CASE JudgeInTurns
  <2>1. /\ "loop" \in Modes /\ review.pc = "triage" /\ accepted' = accepted /\ Rests
        /\ review' = [review EXCEPT !.pc = "loop"]
    BY <1>3 DEF JudgeInTurns
  <2>2. /\ DOMAIN review' = DOMAIN Idle /\ review'.pc = "loop" /\ review'.whole = review.whole
        /\ review'.sections = review.sections /\ review'.covered = review.covered
        /\ review'.turn = review.turn /\ review'.verdict = review.verdict
        /\ review'.answers = review.answers
    BY <2>1, InCallFacts DEF Idle
  <2>3. /\ review.covered \subseteq Listed /\ review.turn \in 0..Turns
        /\ review.verdict \in Verdict
        /\ \A d \in DOMAIN review.answers : review.answers[d] \in Answer
    BY DEF ReviewInv, TypeOK
  <2> QED
    BY <2>1, <2>2, <2>3, InCallFacts, Waiting
<1> QED
  BY <1>1, <1>2, <1>3

LEMMA WriteAuditStep ==
    ASSUME ReviewInv, WriteAudit
    PROVE  ReviewInv'
<1>1. /\ review.pc = "judged" /\ UNCHANGED <<node, text, context, bypassed, accepted, edits, redone>>
      /\ audit'.verdict = review.verdict /\ audit'.digest = review.whole
      /\ audit'.sections = review.sections
      /\ audit'.unverified = (audit.unverified \/ review.verdict = "unavailable")
      /\ review' = [review EXCEPT !.pc = "audited"]
  BY DEF WriteAudit, Stamped
<1>2. /\ DOMAIN review' = DOMAIN Idle /\ review'.pc = "audited" /\ review'.whole = review.whole
      /\ review'.sections = review.sections /\ review'.covered = review.covered
      /\ review'.turn = review.turn /\ review'.verdict = review.verdict
      /\ review'.answers = review.answers /\ review'.fault = review.fault
      /\ review'.unanswered = review.unanswered
  BY <1>1 DEF Idle, ReviewInv, WholeInv
<1>3. SectionsOf(review.sections, accepted)
  BY <1>1 DEF ReviewInv, VerdictInv
<1>4. audit'.sections \subseteq [digest : {audit'.digest} \cup {s.digest : s \in audit'.sections},
                                 verdict : Verdict \ {"none"}]
  <2> SUFFICES ASSUME NEW s \in review.sections
               PROVE  s \in [digest : {audit'.digest} \cup {t.digest : t \in audit'.sections},
                             verdict : Verdict \ {"none"}]
    BY <1>1
  <2>1. s = [digest |-> s.digest, verdict |-> s.verdict] /\ s.verdict \in Verdict \ {"none"}
    BY <1>3 DEF SectionsOf
  <2>2. s.digest \in {t.digest : t \in audit'.sections}
    BY <1>1
  <2> QED
    BY <2>1, <2>2
<1>5. TypeOK'
  <2>1. audit'.unverified \in BOOLEAN
    BY <1>1
  <2> QED
    BY <1>1, <1>2, <1>4, <2>1 DEF ReviewInv, TypeOK
<1>6. WholeInv'
  BY <1>1, <1>2 DEF ReviewInv, WholeInv
<1>7. AuditInv'
  <2>1. Seen /\ audit'.verdict = "pass" => Covers(audit'.digest) \subseteq accepted
    BY <1>1 DEF ReviewInv, VerdictInv
  <2>2. node.status = "awaiting_review"
    BY <1>1 DEF ReviewInv, WholeInv
  <2> QED
    BY <1>1, <1>3, <2>1, <2>2 DEF AuditInv
<1>8. PartsInv'
  BY <1>2 DEF PartsInv
<1>9. VerdictInv'
  BY <1>1, <1>2 DEF ReviewInv, VerdictInv
<1> QED
  BY <1>5, <1>6, <1>7, <1>8, <1>9 DEF ReviewInv

LEMMA IdleFields ==
    /\ Idle.pc = "idle" /\ DOMAIN Idle.answers = {} /\ Idle.covered = {} /\ Idle.turn = 0
    /\ Idle.verdict = "none"
BY DEF Idle

(* The review is over, or was cut short. *)
LEMMA EndedStep ==
    ASSUME ReviewAssumption, ReviewInv, Transition \/ Crash
    PROVE  ReviewInv'
<1>1. /\ review.pc # "idle" /\ review' = Idle
      /\ UNCHANGED <<text, context, audit, bypassed, accepted, edits>>
      /\ redone' \in 0..MaxRedone
  BY DEF Transition, Crash, ReviewInv, TypeOK, ReviewAssumption
<1>2. node.status = "awaiting_review" /\ node.attempts \in 0..MaxAttempts
      /\ node.attempts < MaxAttempts
  BY <1>1 DEF ReviewInv, WholeInv, TypeOK
<1>3. \/ node' = node
      \/ review.pc = "audited" /\ review.verdict = "fail" /\ node' = Charged(node)
      \/ /\ review.pc = "audited" /\ node' = [node EXCEPT !.status = "passed"]
         /\ review.verdict \in {"pass", "unavailable"}
  BY DEF Transition, Crash
<1>4. /\ node' \in [status : {"pending", "awaiting_review", "passed", "blocked"},
                    attempts : 0..MaxAttempts]
      /\ node'.status \in {"pending", "awaiting_review"} => node'.attempts < MaxAttempts
      /\ node'.status = "passed" =>
            review.pc = "audited" /\ review.verdict \in {"pass", "unavailable"}
  <2>1. CASE node' = node
    BY <1>2, <2>1 DEF ReviewInv, WholeInv
  <2>2. CASE node' = Charged(node)
    <3>1. /\ node' = [status |-> node'.status, attempts |-> node.attempts + 1]
          /\ node'.status \in {"blocked", "pending"} /\ node'.attempts = node.attempts + 1
          /\ node'.status = "pending" => node.attempts + 1 < MaxAttempts
      BY <1>2, <2>2 DEF Charged, ReviewAssumption
    <3>2. node.attempts + 1 \in 0..MaxAttempts
      BY <1>2 DEF ReviewAssumption
    <3> QED
      BY <3>1, <3>2
  <2>3. CASE /\ review.pc = "audited" /\ node' = [node EXCEPT !.status = "passed"]
             /\ review.verdict \in {"pass", "unavailable"}
    BY <2>3 DEF ReviewInv, WholeInv
  <2> QED
    BY <1>3, <2>1, <2>2, <2>3
<1>5. TypeOK'
  <2>1. review'.turn \in 0..Turns
    BY <1>1, IdleFields DEF ReviewAssumption
  <2>2. /\ node'.attempts \in 0..MaxAttempts
        /\ node'.status \in {"pending", "awaiting_review", "passed", "blocked"}
    BY <1>4
  <2> QED
    BY <1>1, <2>1, <2>2, IdleFields DEF ReviewInv, TypeOK, Verdict
<1>6. WholeInv'
  BY <1>1, <1>4, IdleFields DEF WholeInv
<1>7. AuditInv'
  <2>1. ASSUME node'.status = "passed"
        PROVE  /\ audit.verdict \in {"pass", "unavailable"}
               /\ audit.digest = Digest(Unit, text, audit.digest.context)
    BY <1>4, <2>1 DEF ReviewInv, VerdictInv, WholeInv
  <2> QED
    BY <1>1, <2>1 DEF ReviewInv, AuditInv
<1>8. PartsInv' /\ VerdictInv'
  BY <1>1, IdleFields DEF PartsInv, VerdictInv
<1> QED
  BY <1>5, <1>6, <1>7, <1>8 DEF ReviewInv

LEMMA OthersStep ==
    ASSUME ReviewAssumption, ReviewInv, Dispatch \/ EditContext \/ Bypass
    PROVE  ReviewInv'
<1>1. CASE Dispatch
  <2>1. /\ review.pc = "idle" /\ node.status = "pending"
        /\ UNCHANGED <<context, bypassed, review, accepted, edits, redone>>
        /\ text' \in [Unit -> Version] /\ node' = [node EXCEPT !.status = "awaiting_review"]
        /\ audit'.verdict = "none" /\ audit'.sections = {} /\ audit'.unverified = FALSE
    BY <1>1 DEF Dispatch, GatesOnly
  <2>2. /\ node' \in [status : {"pending", "awaiting_review", "passed", "blocked"},
                      attempts : 0..MaxAttempts]
        /\ node'.status = "awaiting_review" /\ node'.attempts = node.attempts
    BY <2>1 DEF ReviewInv, WholeInv
  <2>3. TypeOK'
    BY <2>1, <2>2 DEF ReviewInv, TypeOK, Verdict
  <2>4. WholeInv'
    BY <2>1, <2>2 DEF ReviewInv, WholeInv
  <2>5. AuditInv'
    BY <2>1, <2>2, BlankSections DEF AuditInv
  <2>6. PartsInv' /\ VerdictInv'
    BY <2>1 DEF PartsInv, VerdictInv
  <2> QED
    BY <2>3, <2>4, <2>5, <2>6 DEF ReviewInv
<1>2. CASE EditContext \/ Bypass
  <2>1. /\ UNCHANGED <<node, text, audit, review, accepted, redone>>
        /\ context' \in Context /\ bypassed' \in BOOLEAN /\ edits' \in 0..MaxEdits
    <3>1. CASE EditContext
      BY <3>1 DEF EditContext, ReviewInv, TypeOK, ReviewAssumption
    <3>2. CASE Bypass
      BY <3>2 DEF Bypass, ReviewInv, TypeOK, ReviewAssumption
    <3> QED
      BY <1>2, <3>1, <3>2
  <2>2. TypeOK'
    BY <2>1 DEF ReviewInv, TypeOK
  <2>3. WholeInv' /\ AuditInv' /\ PartsInv' /\ VerdictInv'
    BY <2>1 DEF ReviewInv, WholeInv, AuditInv, PartsInv, VerdictInv
  <2> QED
    BY <2>2, <2>3 DEF ReviewInv
<1> QED
  BY <1>1, <1>2

-----------------------------------------------------------------------------
LEMMA ReviewInit == ASSUME ReviewAssumption, Init PROVE ReviewInv
<1>1. Blank.context \in Context
  BY DEF Blank, Digest, ReviewAssumption
<1>2. /\ node = [status |-> "awaiting_review", attempts |-> 0]
      /\ review = Idle /\ accepted = {} /\ edits = 0 /\ redone = 0 /\ bypassed = FALSE
      /\ audit.verdict = "none" /\ audit.sections = {} /\ audit.unverified = FALSE
      /\ context = Blank.context
  BY DEF Init, GatesOnly
<1>3. text \in [Unit -> Version]
  BY DEF Init, ReviewAssumption
<1>4. TypeOK
  <2>1. 0 \in 0..Turns /\ 0 \in 0..MaxEdits /\ 0 \in 0..MaxRedone /\ 0 \in 0..MaxAttempts
    BY DEF ReviewAssumption
  <2> QED
    BY <1>1, <1>2, <1>3, <2>1, IdleFields DEF TypeOK, Verdict
<1>5. WholeInv
  BY <1>2, IdleFields DEF WholeInv, ReviewAssumption
<1>6. AuditInv
  BY <1>2, BlankSections DEF AuditInv
<1>7. PartsInv /\ VerdictInv
  BY <1>2, IdleFields DEF PartsInv, VerdictInv
<1> QED
  BY <1>4, <1>5, <1>6, <1>7 DEF ReviewInv

LEMMA ReviewStep ==
    ASSUME ReviewAssumption, ReviewInv, [Next]_vars
    PROVE  ReviewInv'
<1>1. CASE UNCHANGED vars
  BY <1>1 DEF vars, ReviewInv, TypeOK, WholeInv, AuditInv, PartsInv, VerdictInv
<1>2. CASE Next
  BY <1>2, PassUnjudgedStep, ReuseVerdictStep, BeginReviewStep, TurnsStep, PassedWholeStep,
     PartStepKeeps, PartsJudgedStep, JudgeStep, WriteAuditStep, EndedStep, OthersStep
     DEF Next, Step
<1> QED
  BY <1>1, <1>2

LEMMA ReviewAlways == ASSUME ReviewAssumption PROVE Spec => []ReviewInv
<1>1. Init => ReviewInv
  BY ReviewInit
<1>2. ReviewInv /\ [Next]_vars => ReviewInv'
  BY ReviewStep
<1> QED
  BY <1>1, <1>2, PTL DEF Spec

(* TypeOK, for artifacts of every length and however they are cut.          *)
THEOREM TypeCorrect == ASSUME ReviewAssumption PROVE Spec => []TypeOK
<1>1. ReviewInv => TypeOK
  BY DEF ReviewInv
<1> QED
  BY <1>1, ReviewAlways, PTL

(* PassIsEarned: over any order of answers, cached verdicts, edits of contract
   and brief, crashes and bypasses, a node only passes on units that were
   passed in the context its audit is stamped with - where the read loop can
   be shown all units there are, or is not used.                            *)
THEOREM PassesAreEarned ==
    ASSUME ReviewAssumption, Listed = Unit \/ "loop" \notin Modes
    PROVE  Spec => []PassIsEarned
<1>1. ReviewInv => PassIsEarned
  <2> SUFFICES ASSUME ReviewInv, node.status = "passed", audit.verdict # "unavailable",
                      NEW u \in Unit
               PROVE  <<u, text[u], audit.digest.context>> \in accepted
    BY DEF PassIsEarned
  <2>1. /\ audit.verdict = "pass" /\ Covers(audit.digest) \subseteq accepted
        /\ audit.digest = Digest(Unit, text, audit.digest.context)
    BY DEF ReviewInv, AuditInv, Seen
  <2> DEFINE d == audit.digest
  <2>2. Covers(Digest(Unit, text, d.context)) = {<<v, text[v], d.context>> : v \in Unit}
    BY CoversWhole
  <2>3. Covers(d) = {<<v, text[v], d.context>> : v \in Unit}
    BY <2>1, <2>2
  <2> QED
    BY <2>1, <2>3
<1> QED
  BY <1>1, ReviewAlways, PTL

(* ChargedForAFault: an attempt is only charged for a fault some call of this
   review found, or for a part that nobody answered for.                    *)
THEOREM ChargesAreFaults == ASSUME ReviewAssumption PROVE Spec => ChargedForAFault
<1>1. ASSUME ReviewInv, Next, node'.attempts > node.attempts
      PROVE  review.fault \/ review.unanswered
  <2>1. Transition /\ review.pc = "audited" /\ review.verdict = "fail"
    <3>1. node \in [status : {"pending", "awaiting_review", "passed", "blocked"},
                    attempts : 0..MaxAttempts]
      BY <1>1 DEF ReviewInv, WholeInv
    <3>2. node' # node /\ node' # [node EXCEPT !.status = "passed"]
          /\ node' # [node EXCEPT !.status = "awaiting_review"]
      BY <1>1, <3>1 DEF ReviewAssumption
    <3>3. Transition
      BY <1>1, <3>2 DEF Next, Step, Dispatch, EditContext, Bypass, PassUnjudged, ReuseVerdict,
              BeginReview, TriagePasses, JudgeWhole, JudgeSections, JudgeParts, JudgeInTurns,
              PartStep, PartPasses, PartFails, AskAgain, DefectUnclear, CallRaises, Answered,
              PartsJudged, Reads, Faults, Passes, TurnRaises, ReaskAnswered, BypassTakes,
              WriteAudit, Crash, Rests
    <3> QED
      BY <3>2, <3>3 DEF Transition
  <2> QED
    BY <1>1, <2>1 DEF ReviewInv, VerdictInv
<1>2. ReviewInv /\ [Next]_vars =>
         [node'.attempts > node.attempts => review.fault \/ review.unanswered]_vars
  BY <1>1
<1> QED
  BY <1>2, ReviewAlways, PTL DEF Spec, ChargedForAFault


-----------------------------------------------------------------------------
(* Provider: the inductive invariant.                                      *)

Payloads == [format : BOOLEAN, switch : BOOLEAN, prose : BOOLEAN]

CallRecord ==
    [pc : {"idle", "ready", "flying", "returned", "raised"},
     role : {"verdict", "orchestrator", "classify", "plain", "backend"},
     useFormat : BOOLEAN, again : BOOLEAN, payload : Payloads, resume : Model!Resumes,
     late : BOOLEAN, validation : 0..Retries, empty : 0..MaxEmpty,
     degenerate : 0..MaxDegenerate, deadline : 0..MaxDeadline, budget : 0..MaxBudget,
     verdict : BOOLEAN, truncation : 0..1, cap : 0..Doublings, episodes : 0..MaxEpisodes]

\* A request that is out carries the schema, whatever was latched since it was built.
CarriesSchema(c) ==
    c.pc = "flying" /\ c.role # "backend" => c.payload.prose \/ c.payload.format

\* What is carried forward is clean, and was cut off after the last reprompt; an
\* episode carries nothing forward at all.
CarriesLatest(c) ==
    /\ c.resume.kind # "garbage"
    /\ c.resume.kind # "none" => c.resume.at = c.validation
    /\ c.role = "backend" => c.resume.kind = "none"

SoundCall(c) == c \in CallRecord /\ CarriesSchema(c) /\ CarriesLatest(c)

ProviderInv ==
    /\ SoundCall(call)
    /\ formatOk \in BOOLEAN /\ switchOk \in BOOLEAN /\ supported \in BOOLEAN /\ halted \in BOOLEAN

-----------------------------------------------------------------------------
(* RequestLadder: the inductive invariant.                                 *)

ThreadRecord ==
    [pc : {"idle", "trying", "flying", "backoff", "pause", "ended"},
     attempt : 0..Ladder!MaxOf(Rungs, MaxHttp), transport : 0..MaxHttp,
     switches : 0..MaxSwitches, tried : SUBSET Models]

Flying == {c \in Callers : thread[c].pc = "flying"}

\* A slot is taken exactly as long as a request is in flight.
SlotsAreFlights == slots + Cardinality(Flying) = Slots

LadderInv ==
    /\ thread \in [Callers -> ThreadRecord]
    /\ model \in Models /\ slots \in Nat /\ aborted \in BOOLEAN
    /\ SlotsAreFlights

-----------------------------------------------------------------------------
(* Episode: the inductive invariant.                                       *)

\* The shell is there from the first moment of exec on, and the worker comes after it.
ShellFirst ==
    /\ exec = "idle" <=> shell = "none"
    /\ shell = "none" => worker = "none"

\* Where the worker is says what the CLI can still be: it was told to stop before the
\* worker waits for it, and a worker that went on to read its output saw it end.
WorkerKnows ==
    /\ worker \in {"none", "booting"} => cli = "none"
    /\ worker \in {"grace", "fatal"} => cli # "up"
    /\ worker \in {"draining", "exited"} => ~Ep!CliAlive

\* Nobody but a dead worker leaves a live CLI alone.
LeftAlone == worker = "killed" /\ Ep!CliAlive => abandoned

\* A shell only dies with its worker, or of the signal that reached the worker too.
WorkerWarned == shell = "dead" => worker \notin {"booting", "forked", "serving"}

\* Past the SIGTERM, or with nothing left to signal, the shell is dead.
ShellGone == exec \in {"reaping", "draining", "returned", "swept", "gone"} => shell = "dead"

\* Once the groups were collected, a live CLI is among them or ps missed it.
SeenOrMissed ==
    groups # {} /\ Ep!WorkerAlive /\ Ep!CliAlive => "cli" \in groups \/ missed

\* When exec has ended, only a CLI that was abandoned is alive.
NoneIsLeft == exec \in {"returned", "gone"} /\ Ep!CliAlive => abandoned

\* Groups are collected before anything is signalled.
CollectedFirst == exec \in {"signalling", "reaping", "sweeping", "swept"} => groups # {}

\* A worker that stopped the CLI ends in an error, whoever reports it.
StoppedIsAnError ==
    guarded => /\ worker \in {"fatal", "exited", "killed"}
               /\ worker = "exited" \/ shell = "dead" => code = 1

EpisodeInv ==
    /\ Ep!TypeOK
    /\ ShellFirst /\ WorkerKnows /\ LeftAlone /\ WorkerWarned /\ ShellGone
    /\ CollectedFirst /\ SeenOrMissed /\ NoneIsLeft /\ StoppedIsAnError

-----------------------------------------------------------------------------
(* Provider: every step keeps the invariant.                               *)

LEMMA BlankCall ==
    ASSUME Model!ProviderAssumption
    PROVE  /\ Model!Idle \in CallRecord /\ Model!Idle.resume.kind = "none"
           /\ Model!Idle.pc = "idle" /\ Model!Idle.role = "plain"
BY DEF Model!ProviderAssumption, Model!Idle, Model!Blank, Model!NoResume, Model!Resumes,
   CallRecord, Payloads

LEMMA ProviderInit ==
    ASSUME Model!ProviderAssumption, Model!Init PROVE ProviderInv
BY BlankCall DEF Model!Init, ProviderInv, SoundCall, CarriesSchema, CarriesLatest

LEMMA CallTyped ==
    ASSUME NEW c \in CallRecord
    PROVE  /\ c.validation \in Nat /\ c.validation \in 0..Retries
           /\ c.empty \in 0..MaxEmpty /\ c.degenerate \in 0..MaxDegenerate
           /\ c.deadline \in 0..MaxDeadline /\ c.budget \in 0..MaxBudget
           /\ c.truncation \in 0..1 /\ c.cap \in 0..Doublings /\ c.episodes \in 0..MaxEpisodes
           /\ c.payload \in Payloads /\ c.resume \in Model!Resumes
BY DEF CallRecord

\* A counter that is below its bound may be counted up.
LEMMA CountsUp ==
    ASSUME Model!ProviderAssumption, NEW c \in CallRecord
    PROVE  /\ c.deadline < MaxDeadline => c.deadline + 1 \in 0..MaxDeadline
           /\ ~(c.budget >= MaxBudget) => c.budget + 1 \in 0..MaxBudget
           /\ ~(c.degenerate >= MaxDegenerate) => c.degenerate + 1 \in 0..MaxDegenerate
           /\ c.empty < MaxEmpty => c.empty + 1 \in 0..MaxEmpty
           /\ c.cap < Doublings => c.cap + 1 \in 0..Doublings
           /\ ~(c.validation + 1 > Retries) => c.validation + 1 \in 0..Retries
           /\ ~(c.episodes >= MaxEpisodes) => c.episodes + 1 \in 0..MaxEpisodes
           /\ 0 \in 0..MaxEpisodes /\ 1 \in 0..1 /\ Model!NoResume \in Model!Resumes
<1>1. /\ Retries \in Nat /\ MaxEmpty \in Nat /\ MaxDegenerate \in Nat /\ MaxDeadline \in Nat
      /\ MaxBudget \in Nat /\ Doublings \in Nat /\ MaxEpisodes \in Nat
  BY DEF Model!ProviderAssumption
<1>2. Model!NoResume \in Model!Resumes
  BY <1>1 DEF Model!NoResume, Model!Resumes
<1> QED
  BY <1>1, <1>2, CallTyped

\* A call that has ended is a blank one, but for its role.
LEMMA EndedCall ==
    ASSUME Model!ProviderAssumption, SoundCall(call), NEW how \in {"returned", "raised"},
           Model!Ends(how)
    PROVE  SoundCall(call')
<1> DEFINE r == [Model!Idle EXCEPT !.pc = how, !.role = call.role]
<1>1. call' = r
  BY DEF Model!Ends
<1>2. call.role \in {"verdict", "orchestrator", "classify", "plain", "backend"}
  BY DEF SoundCall, CallRecord
<1>3. r \in CallRecord /\ r.pc = how /\ r.resume.kind = "none"
  BY <1>2, BlankCall DEF CallRecord
<1> HIDE DEF r
<1> QED
  BY <1>1, <1>3 DEF SoundCall, CarriesSchema, CarriesLatest

\* The next pass of the loop is sound if its locals are.
LEMMA AgainCall ==
    ASSUME NEW r \in CallRecord, CarriesLatest(r), Model!Again(r)
    PROVE  SoundCall(call')
<1> DEFINE s == [r EXCEPT !.pc = "ready", !.again = FALSE, !.payload = Model!Blank]
<1>1. call' = s
  BY DEF Model!Again
<1>2. s \in CallRecord /\ s.pc = "ready" /\ s.role = r.role
      /\ s.resume = r.resume /\ s.validation = r.validation
  BY DEF CallRecord, Payloads, Model!Blank
<1> HIDE DEF s
<1> QED
  BY <1>1, <1>2 DEF SoundCall, CarriesSchema, CarriesLatest

\* What is carried forward after a cut is clean and of this very pass.
LEMMA Carried ==
    ASSUME SoundCall(call), NEW partial \in Model!Partials
    PROVE  /\ Model!CarryForward(partial) \in Model!Resumes
           /\ Model!CarryForward(partial).kind \in {"carry", "nudge"}
           /\ Model!CarryForward(partial).at = call.validation
<1>1. call.validation \in 0..Retries
  BY CallTyped DEF SoundCall
<1> QED
  BY <1>1 DEF Model!CarryForward, Model!Resumes

LEMMA ResponseKeeps ==
    ASSUME Model!ProviderAssumption, ProviderInv, Model!Response
    PROVE  SoundCall(call')
<1>0. /\ SoundCall(call) /\ call \in CallRecord /\ CarriesLatest(call)
      /\ call.validation \in Nat
  BY CallTyped DEF ProviderInv, SoundCall
<1>1. CASE Model!Ends("raised") \/ Model!Ends("returned")
  BY <1>0, <1>1, EndedCall
\* Whatever is counted up, what is carried forward is of this very pass.
<1>2. ASSUME NEW partial \in Model!Partials, Model!Http, NEW r \in CallRecord,
             r.resume = Model!CarryForward(partial), r.validation = call.validation,
             r.role = call.role, Model!Again(r)
      PROVE  SoundCall(call')
  <2>1. CarriesLatest(r)
    BY <1>0, <1>2, Carried DEF CarriesLatest, Model!Http
  <2> QED
    BY <1>2, <2>1, AgainCall
<1>3. CASE Model!BadRequest
  <2>1. CASE Model!Again(call)
    BY <1>0, <2>1, AgainCall
  <2>2. CASE call' = [call EXCEPT !.pc = "ready", !.again = TRUE, !.useFormat = FALSE]
    <3> DEFINE s == [call EXCEPT !.pc = "ready", !.again = TRUE, !.useFormat = FALSE]
    <3>1. s \in CallRecord /\ s.pc = "ready" /\ s.role = call.role
          /\ s.resume = call.resume /\ s.validation = call.validation
      BY <1>0 DEF CallRecord
    <3>2. call' = s
      BY <2>2
    <3> HIDE DEF s
    <3> QED
      BY <1>0, <3>1, <3>2 DEF SoundCall, CarriesSchema, CarriesLatest
  <2> QED
    BY <1>1, <1>3, <2>1, <2>2 DEF Model!BadRequest
<1>4. CASE Model!DeadlineCut
  <2>0. Model!Http
    BY <1>4 DEF Model!DeadlineCut, Model!Streams, Model!Http
  <2>1. PICK partial \in Model!Partials :
          LET resumed == [call EXCEPT !.resume = Model!CarryForward(partial)] IN
          \/ Model!Again([resumed EXCEPT !.verdict = TRUE])
          \/ /\ call.deadline < MaxDeadline
             /\ Model!Again([resumed EXCEPT !.deadline = @ + 1])
          \/ Model!Ends("raised")
    BY <1>4 DEF Model!DeadlineCut
  <2> DEFINE r1 == [call EXCEPT !.resume = Model!CarryForward(partial), !.verdict = TRUE]
             r2 == [call EXCEPT !.resume = Model!CarryForward(partial), !.deadline = @ + 1]
  <2>2. /\ r1 \in CallRecord /\ r1.resume = Model!CarryForward(partial)
        /\ r1.validation = call.validation /\ r1.role = call.role
    BY <1>0, Carried DEF CallRecord
  <2>3. call.deadline < MaxDeadline =>
        /\ r2 \in CallRecord /\ r2.resume = Model!CarryForward(partial)
        /\ r2.validation = call.validation /\ r2.role = call.role
    BY <1>0, Carried, CountsUp DEF CallRecord
  <2>4. Model!Again(r1) \/ (call.deadline < MaxDeadline /\ Model!Again(r2))
        \/ Model!Ends("raised")
    BY <1>0, <2>1 DEF CallRecord
  <2> HIDE DEF r1, r2
  <2> QED
    BY <1>1, <1>2, <2>0, <2>2, <2>3, <2>4
<1>5. CASE Model!Overthought
  <2>0. Model!Http
    BY <1>5 DEF Model!Overthought, Model!HasBudget, Model!Http
  <2>1. CASE Model!Ends("raised")
    BY <1>1, <2>1
  <2>2. ASSUME NEW partial \in {"text", "garbage"}, ~(call.budget >= MaxBudget),
               Model!Again([call EXCEPT !.budget = @ + 1,
                                        !.resume = Model!CarryForward(partial)])
        PROVE  SoundCall(call')
    <3> DEFINE r == [call EXCEPT !.budget = @ + 1, !.resume = Model!CarryForward(partial)]
    <3>0. partial \in Model!Partials
      BY DEF Model!Partials
    <3>1. /\ r \in CallRecord /\ r.resume = Model!CarryForward(partial)
          /\ r.validation = call.validation /\ r.role = call.role
      BY <1>0, <2>2, <3>0, Carried, CountsUp DEF CallRecord
    <3>2. Model!Again(r)
      BY <2>2
    <3> HIDE DEF r
    <3> QED
      BY <1>2, <2>0, <3>0, <3>1, <3>2
  <2> QED
    BY <1>5, <2>1, <2>2 DEF Model!Overthought
<1>6. CASE Model!Degenerated
  <2>1. CASE Model!Ends("raised")
    BY <1>1, <2>1
  <2>2. CASE /\ ~(call.degenerate >= MaxDegenerate)
             /\ Model!Again([call EXCEPT !.degenerate = @ + 1, !.resume = Model!NoResume])
    <3> DEFINE r == [call EXCEPT !.degenerate = @ + 1, !.resume = Model!NoResume]
    <3>1. r \in CallRecord /\ r.resume.kind = "none"
      BY <1>0, <2>2, CountsUp DEF CallRecord, Model!NoResume
    <3>2. Model!Again(r)
      BY <2>2
    <3> HIDE DEF r
    <3> QED
      BY <3>1, <3>2, AgainCall DEF CarriesLatest
  <2> QED
    BY <1>6, <2>1, <2>2 DEF Model!Degenerated
<1>7. CASE Model!EmptyAnswer
  <2>1. PICK partial \in Model!Partials :
          Model!Again([call EXCEPT !.empty = @ + 1,
               !.resume = IF partial = "none" THEN @ ELSE Model!CarryForward(partial)])
    BY <1>7 DEF Model!EmptyAnswer
  <2>2. call.empty < MaxEmpty /\ Model!Http
    BY <1>7 DEF Model!EmptyAnswer
  <2> DEFINE r == [call EXCEPT !.empty = @ + 1,
                     !.resume = IF partial = "none" THEN @ ELSE Model!CarryForward(partial)]
  <2>3. /\ r \in CallRecord /\ r.validation = call.validation /\ r.role = call.role
        /\ r.resume = IF partial = "none" THEN call.resume ELSE Model!CarryForward(partial)
    BY <1>0, <2>2, Carried, CountsUp DEF CallRecord
  <2>4. Model!Again(r)
    BY <2>1
  <2> HIDE DEF r
  <2>5. CASE partial = "none"
    BY <1>0, <2>3, <2>4, <2>5, AgainCall DEF CarriesLatest
  <2>6. CASE partial # "none"
    BY <1>2, <2>2, <2>3, <2>4, <2>6
  <2> QED
    BY <2>5, <2>6
<1>8. CASE Model!Truncated
  <2>0. Model!Http
    BY <1>8 DEF Model!Truncated
  <2>1. PICK partial \in {"text", "garbage"} :
          LET resumed == [call EXCEPT !.resume = Model!CarryForward(partial)] IN
          \/ Model!Again([resumed EXCEPT !.verdict = TRUE])
          \/ Model!Again([resumed EXCEPT !.truncation = 1])
          \/ /\ call.cap < Doublings
             /\ Model!Again([resumed EXCEPT !.cap = @ + 1])
    BY <1>8 DEF Model!Truncated
  <2>a. partial \in Model!Partials
    BY DEF Model!Partials
  <2> DEFINE r1 == [call EXCEPT !.resume = Model!CarryForward(partial), !.verdict = TRUE]
             r2 == [call EXCEPT !.resume = Model!CarryForward(partial), !.truncation = 1]
             r3 == [call EXCEPT !.resume = Model!CarryForward(partial), !.cap = @ + 1]
  <2>2. /\ r1 \in CallRecord /\ r1.resume = Model!CarryForward(partial)
        /\ r1.validation = call.validation /\ r1.role = call.role
    BY <1>0, <2>a, Carried DEF CallRecord
  <2>3. /\ r2 \in CallRecord /\ r2.resume = Model!CarryForward(partial)
        /\ r2.validation = call.validation /\ r2.role = call.role
    BY <1>0, <2>a, Carried, CountsUp DEF CallRecord
  <2>4. call.cap < Doublings =>
        /\ r3 \in CallRecord /\ r3.resume = Model!CarryForward(partial)
        /\ r3.validation = call.validation /\ r3.role = call.role
    BY <1>0, <2>a, Carried, CountsUp DEF CallRecord
  <2>5. Model!Again(r1) \/ Model!Again(r2) \/ (call.cap < Doublings /\ Model!Again(r3))
    BY <1>0, <2>1 DEF CallRecord
  <2> HIDE DEF r1, r2, r3
  <2> QED
    BY <1>2, <2>0, <2>a, <2>2, <2>3, <2>4, <2>5
<1>9. CASE Model!Invalid
  <2>1. CASE Model!Ends("raised")
    BY <1>1, <2>1
  <2>2. CASE ~(call.validation + 1 > Retries) /\ Model!Again(Model!Reprompt)
    <3> DEFINE r == [call EXCEPT !.validation = @ + 1, !.resume = Model!NoResume]
    <3>1. r \in CallRecord /\ r.resume.kind = "none"
      BY <1>0, <2>2, CountsUp DEF CallRecord, Model!NoResume
    <3>2. Model!Again(r)
      BY <2>2 DEF Model!Reprompt
    <3> HIDE DEF r
    <3> QED
      BY <3>1, <3>2, AgainCall DEF CarriesLatest
  <2> QED
    BY <1>9, <2>1, <2>2 DEF Model!Invalid
<1>10. CASE Model!EpisodeFails
  <2>1. CASE Model!Ends("raised")
    BY <1>1, <2>1
  <2>2. CASE /\ ~(call.episodes >= MaxEpisodes)
             /\ call' = [call EXCEPT !.pc = "ready", !.episodes = @ + 1]
    <3> DEFINE s == [call EXCEPT !.pc = "ready", !.episodes = @ + 1]
    <3>1. s \in CallRecord /\ s.pc = "ready" /\ s.role = call.role
          /\ s.resume = call.resume /\ s.validation = call.validation
      BY <1>0, <2>2, CountsUp DEF CallRecord
    <3>2. call' = s
      BY <2>2
    <3> HIDE DEF s
    <3> QED
      BY <1>0, <3>1, <3>2 DEF SoundCall, CarriesSchema, CarriesLatest
  <2> QED
    BY <1>10, <2>1, <2>2 DEF Model!EpisodeFails
<1>11. CASE Model!EpisodeAnswers
  <2>1. CASE Model!Ends("raised") \/ Model!Ends("returned")
    BY <1>1, <2>1
  <2>2. CASE /\ ~(call.validation + 1 > Retries) /\ call.role = "backend"
             /\ Model!Again([call EXCEPT !.validation = @ + 1, !.episodes = 0])
    <3> DEFINE r == [call EXCEPT !.validation = @ + 1, !.episodes = 0]
    <3>1. r \in CallRecord /\ r.resume = call.resume
      BY <1>0, <2>2, CountsUp DEF CallRecord
    <3>2. Model!Again(r)
      BY <2>2
    <3>3. call.resume.kind = "none"
      BY <1>0, <2>2 DEF CarriesLatest
    <3> HIDE DEF r
    <3> QED
      BY <3>1, <3>2, <3>3, AgainCall DEF CarriesLatest
  <2> QED
    BY <1>11, <2>1, <2>2 DEF Model!EpisodeAnswers, Model!Http
<1> QED
  BY <1>1, <1>3, <1>4, <1>5, <1>6, <1>7, <1>8, <1>9, <1>10, <1>11
     DEF Model!Response, Model!CallRaises, Model!OutOfRoom, Model!Valid

\* The request that is built says its schema in prose unless response_format carries it.
LEMMA BuildKeeps ==
    ASSUME Model!ProviderAssumption, ProviderInv, Model!Build PROVE SoundCall(call')
<1>0. SoundCall(call) /\ call \in CallRecord
  BY DEF ProviderInv, SoundCall
<1>1. CASE Model!Ends("raised")
  BY <1>0, <1>1, EndedCall
<1>2. CASE ~Model!Ends("raised")
  <2> DEFINE p == [format |-> call.useFormat, switch |-> Model!ThinksOff /\ switchOk,
                   prose |-> Model!Prose(call.useFormat)]
             s == [call EXCEPT !.pc = "flying", !.payload = p]
  <2>1. call' = s
    BY <1>2 DEF Model!Build
  <2>2. call.useFormat \in BOOLEAN
    BY <1>0 DEF CallRecord
  <2>3. p \in Payloads /\ p.format = call.useFormat /\ p.prose = Model!Prose(call.useFormat)
    BY <2>2 DEF Payloads, Model!Prose, Model!ThinksOff
  <2>4. p.prose \/ p.format
    BY <2>2, <2>3 DEF Model!Prose
  <2> HIDE DEF p
  <2>5. s \in CallRecord /\ s.payload = p /\ s.role = call.role
        /\ s.resume = call.resume /\ s.validation = call.validation
    BY <1>0, <2>3 DEF CallRecord
  <2> HIDE DEF s
  <2> QED
    BY <1>0, <2>1, <2>4, <2>5 DEF SoundCall, CarriesSchema, CarriesLatest
<1> QED
  BY <1>1, <1>2

LEMMA BeginKeeps ==
    ASSUME Model!ProviderAssumption, ProviderInv, NEW role \in Roles, Model!Begin(role)
    PROVE  SoundCall(call')
<1> DEFINE s == [Model!Idle EXCEPT !.pc = "ready", !.role = role, !.useFormat = formatOk]
<1>1. call' = s
  BY DEF Model!Begin
<1>2. role \in {"verdict", "orchestrator", "classify", "plain", "backend"} /\ formatOk \in BOOLEAN
  BY DEF Model!ProviderAssumption, ProviderInv
<1>3. s \in CallRecord /\ s.pc = "ready" /\ s.resume.kind = "none"
  BY <1>2, BlankCall DEF CallRecord
<1> HIDE DEF s
<1> QED
  BY <1>1, <1>3 DEF SoundCall, CarriesSchema, CarriesLatest

\* The budget runs out beside the call, or an episode starts: only pc and late change.
LEMMA ElseKeeps ==
    ASSUME Model!ProviderAssumption, ProviderInv, Model!BudgetRunsOut \/ Model!StartEpisode
    PROVE  SoundCall(call')
<1>0. SoundCall(call) /\ call \in CallRecord
  BY DEF ProviderInv, SoundCall
<1>1. CASE Model!Ends("raised")
  BY <1>0, <1>1, EndedCall
<1>2. CASE call' = [call EXCEPT !.late = TRUE]
  <2> DEFINE s == [call EXCEPT !.late = TRUE]
  <2>1. s \in CallRecord /\ s.pc = call.pc /\ s.role = call.role /\ s.payload = call.payload
        /\ s.resume = call.resume /\ s.validation = call.validation
    BY <1>0 DEF CallRecord
  <2>2. call' = s
    BY <1>2
  <2> HIDE DEF s
  <2> QED
    BY <1>0, <2>1, <2>2 DEF SoundCall, CarriesSchema, CarriesLatest
<1>3. CASE call.role = "backend" /\ call' = [call EXCEPT !.pc = "flying"]
  <2> DEFINE s == [call EXCEPT !.pc = "flying"]
  <2>1. s \in CallRecord /\ s.role = "backend"
        /\ s.resume = call.resume /\ s.validation = call.validation
    BY <1>0, <1>3 DEF CallRecord
  <2>2. call' = s
    BY <1>3
  <2> HIDE DEF s
  <2> QED
    BY <1>0, <1>3, <2>1, <2>2 DEF SoundCall, CarriesSchema, CarriesLatest
<1> QED
  BY <1>1, <1>2, <1>3 DEF Model!BudgetRunsOut, Model!StartEpisode, Model!Http

LEMMA ProviderInductive ==
    ASSUME Model!ProviderAssumption, ProviderInv, [Model!Next]_callVars
    PROVE  ProviderInv'
<1>0. /\ SoundCall(call)
      /\ formatOk \in BOOLEAN /\ switchOk \in BOOLEAN /\ supported \in BOOLEAN
      /\ halted \in BOOLEAN
  BY DEF ProviderInv
<1>1. SoundCall(call')
  <2>1. CASE UNCHANGED call
    BY <1>0, <2>1
  <2>2. CASE Model!BudgetRunsOut \/ Model!StartEpisode
    BY <2>2, ElseKeeps
  <2>3. CASE Model!Build
    BY <2>3, BuildKeeps
  <2>4. CASE Model!Response
    BY <2>4, ResponseKeeps
  <2>5. ASSUME NEW role \in Roles, Model!Begin(role) PROVE SoundCall(call')
    BY <2>5, BeginKeeps
  <2> QED
    BY <2>1, <2>2, <2>3, <2>4, <2>5
       DEF Model!Next, Model!Step, Model!Halt, Model!Others, callVars
<1>2. formatOk' \in BOOLEAN /\ switchOk' \in BOOLEAN
  BY <1>0 DEF Model!Next, Model!Step, Model!Response, Model!Halt, Model!Others, callVars,
     Model!BudgetRunsOut, Model!Build, Model!StartEpisode, Model!Begin, Model!CallRaises,
     Model!BadRequest, Model!DeadlineCut, Model!Overthought, Model!Degenerated,
     Model!EmptyAnswer, Model!Truncated, Model!OutOfRoom, Model!Invalid, Model!Valid,
     Model!EpisodeFails, Model!EpisodeAnswers, Model!latches
<1>3. supported' \in BOOLEAN /\ halted' \in BOOLEAN
  BY <1>0 DEF Model!Next, Model!Step, Model!Response, Model!Halt, Model!Others, callVars,
     Model!BudgetRunsOut, Model!Build, Model!StartEpisode, Model!Begin, Model!CallRaises,
     Model!BadRequest, Model!DeadlineCut, Model!Overthought, Model!Degenerated,
     Model!EmptyAnswer, Model!Truncated, Model!OutOfRoom, Model!Invalid, Model!Valid,
     Model!EpisodeFails, Model!EpisodeAnswers, Model!latches
<1> QED
  BY <1>1, <1>2, <1>3 DEF ProviderInv

LEMMA ProviderIsSound ==
    ASSUME Model!ProviderAssumption, ProviderInv
    PROVE  Model!TypeOK /\ Model!SchemaCarried /\ Model!CarriesOnlyTheLatest
<1>1. Model!TypeOK
  BY CallTyped DEF ProviderInv, SoundCall, CallRecord, Model!TypeOK
<1>2. Model!SchemaCarried
  BY DEF ProviderInv, SoundCall, CarriesSchema, Model!SchemaCarried, Model!Http
<1>3. Model!CarriesOnlyTheLatest
  BY DEF ProviderInv, SoundCall, CarriesLatest, Model!CarriesOnlyTheLatest
<1> QED
  BY <1>1, <1>2, <1>3

-----------------------------------------------------------------------------
(* RequestLadder: every step keeps the invariant.                          *)

LEMMA LadderCounts ==
    ASSUME Ladder!LadderAssumption
    PROVE  /\ Slots \in Nat /\ MaxHttp \in Nat /\ Rungs \in Nat /\ MaxSwitches \in Nat
           /\ Ladder!MaxOf(Rungs, MaxHttp) \in Nat
           /\ Rungs <= Ladder!MaxOf(Rungs, MaxHttp) /\ MaxHttp <= Ladder!MaxOf(Rungs, MaxHttp)
           /\ IsFiniteSet(Callers)
<1>1. /\ Slots \in Nat /\ MaxHttp \in Nat /\ Rungs \in Nat /\ MaxSwitches \in Nat
  BY DEF Ladder!LadderAssumption
<1>2. /\ Ladder!MaxOf(Rungs, MaxHttp) \in Nat
      /\ Rungs <= Ladder!MaxOf(Rungs, MaxHttp) /\ MaxHttp <= Ladder!MaxOf(Rungs, MaxHttp)
  BY <1>1 DEF Ladder!MaxOf
<1>3. IsFiniteSet(Callers)
  BY Zenon DEF Ladder!LadderAssumption, Ladder!IsFiniteSet, IsFiniteSet
<1> QED
  BY <1>1, <1>2, <1>3

LEMMA LadderInit ==
    ASSUME Ladder!LadderAssumption, Ladder!Init PROVE LadderInv
<1>1. Ladder!Idle \in ThreadRecord /\ Ladder!Idle.pc = "idle"
  BY LadderCounts DEF Ladder!Idle, ThreadRecord
<1>2. Flying = {}
  BY <1>1 DEF Ladder!Init, Flying
<1>3. slots + Cardinality(Flying) = Slots /\ slots \in Nat
  BY <1>2, LadderCounts, FS_EmptySet DEF Ladder!Init
<1>4. thread \in [Callers -> ThreadRecord] /\ model \in Models /\ aborted \in BOOLEAN
  BY <1>1, Zenon DEF Ladder!Init, Ladder!LadderAssumption
<1> QED
  BY <1>3, <1>4 DEF LadderInv, SlotsAreFlights

\* One thread moves: what becomes of the slots depends on whether it is in flight.
LEMMA ThreadMoves ==
    ASSUME Ladder!LadderAssumption, LadderInv, NEW c \in Callers, NEW r \in ThreadRecord,
           Ladder!Moves(c, r), model' \in Models, aborted' \in BOOLEAN,
           IF r.pc = "flying"
             THEN thread[c].pc # "flying" /\ slots > 0 /\ slots' = slots - 1
             ELSE slots' = IF thread[c].pc = "flying" THEN slots + 1 ELSE slots
    PROVE  LadderInv'
<1>1. /\ thread' = [thread EXCEPT ![c] = r] /\ thread \in [Callers -> ThreadRecord]
      /\ slots \in Nat /\ slots + Cardinality(Flying) = Slots
  BY DEF Ladder!Moves, LadderInv, SlotsAreFlights
<1>2. thread' \in [Callers -> ThreadRecord]
  BY <1>1
<1>3. IsFiniteSet(Callers) /\ Flying \subseteq Callers
  BY LadderCounts DEF Flying
<1>4. IsFiniteSet(Flying) /\ Cardinality(Flying) \in Nat
  BY <1>3, FS_Subset, FS_CardinalityType
<1>5. CASE r.pc = "flying"
  <2>1. Flying' = Flying \cup {c} /\ c \notin Flying
    BY <1>1, <1>5 DEF Flying
  <2>2. Cardinality(Flying') = Cardinality(Flying) + 1
    BY <1>4, <2>1, FS_AddElement
  <2>3. slots' = slots - 1 /\ slots > 0
    BY <1>5
  <2>4. slots' \in Nat /\ slots' + Cardinality(Flying') = Slots
    BY <1>1, <1>4, <2>2, <2>3
  <2> QED
    BY <1>2, <2>4 DEF LadderInv, SlotsAreFlights
<1>6. CASE r.pc # "flying" /\ thread[c].pc = "flying"
  <2>1. Flying' = Flying \ {c} /\ c \in Flying
    BY <1>1, <1>6 DEF Flying
  <2>2. Cardinality(Flying') = Cardinality(Flying) - 1
    BY <1>4, <2>1, FS_RemoveElement
  <2>3. slots' = slots + 1
    BY <1>6
  <2>4. slots' \in Nat /\ slots' + Cardinality(Flying') = Slots
    BY <1>1, <1>4, <2>2, <2>3
  <2> QED
    BY <1>2, <2>4 DEF LadderInv, SlotsAreFlights
<1>7. CASE r.pc # "flying" /\ thread[c].pc # "flying"
  <2>1. Flying' = Flying
    BY <1>1, <1>7 DEF Flying
  <2>2. slots' = slots
    BY <1>7
  <2> QED
    BY <1>1, <1>2, <2>1, <2>2 DEF LadderInv, SlotsAreFlights
<1> QED
  BY <1>5, <1>6, <1>7

LEMMA ThreadKept ==
    ASSUME Ladder!LadderAssumption, LadderInv, NEW c \in Callers
    PROVE  /\ thread[c] \in ThreadRecord /\ thread[c].tried \subseteq Models
           /\ thread[c].attempt \in 0..Ladder!MaxOf(Rungs, MaxHttp)
           /\ thread[c].transport \in 0..MaxHttp /\ thread[c].switches \in 0..MaxSwitches
BY DEF LadderInv, ThreadRecord

\* Any request that has come back: the slot is free, the thread at rest or on its next rung.
LEMMA OutcomeKeeps ==
    ASSUME Ladder!LadderAssumption, LadderInv, NEW c \in Callers, NEW r \in ThreadRecord,
           r.pc # "flying", Ladder!Outcome(c, r), model' \in Models
    PROVE  LadderInv'
<1>1. thread[c].pc = "flying" /\ Ladder!Moves(c, r) /\ slots' = slots + 1 /\ UNCHANGED aborted
  BY DEF Ladder!Outcome, Ladder!Released
<1>2. aborted' \in BOOLEAN
  BY <1>1 DEF LadderInv
<1> QED
  BY <1>1, <1>2, ThreadMoves

LEMMA LadderThread ==
    ASSUME Ladder!LadderAssumption, LadderInv, NEW c \in Callers,
           Ladder!Begin(c) \/ Ladder!Acquire(c) \/ Ladder!Receive(c) \/ Ladder!Wake(c)
             \/ Ladder!Abort(c)
    PROVE  LadderInv'
<1> DEFINE t == thread[c]
           ended == [Ladder!Idle EXCEPT !.pc = "ended"]
<1>0. /\ model \in Models /\ aborted \in BOOLEAN /\ t \in ThreadRecord /\ t.tried \subseteq Models
      /\ t.attempt \in 0..Ladder!MaxOf(Rungs, MaxHttp)
      /\ t.transport \in 0..MaxHttp /\ t.switches \in 0..MaxSwitches
  BY ThreadKept DEF LadderInv
<1>e. ended \in ThreadRecord /\ ended.pc = "ended"
  BY LadderCounts DEF Ladder!Idle, ThreadRecord
<1>1. CASE Ladder!Begin(c)
  <2> DEFINE r == [Ladder!Idle EXCEPT !.pc = "trying", !.tried = {model}]
  <2>1. r \in ThreadRecord /\ r.pc = "trying"
    <3>1. Ladder!Idle \in ThreadRecord /\ {model} \in SUBSET Models
      BY <1>0, LadderCounts DEF Ladder!Idle, ThreadRecord
    <3> QED
      BY <3>1 DEF ThreadRecord
  <2>2. thread[c].pc \in {"idle", "ended"} /\ Ladder!Moves(c, r)
        /\ UNCHANGED <<model, slots, aborted>>
    BY <1>1 DEF Ladder!Begin
  <2> HIDE DEF r
  <2> QED
    BY <1>0, <2>1, <2>2, ThreadMoves
<1>2. CASE Ladder!Acquire(c)
  <2> DEFINE r == [t EXCEPT !.pc = "flying"]
  <2>1. r \in ThreadRecord /\ r.pc = "flying"
    BY <1>0 DEF ThreadRecord
  <2>2. /\ thread[c].pc = "trying" /\ slots > 0 /\ slots' = slots - 1
        /\ Ladder!Moves(c, r) /\ UNCHANGED <<model, aborted>>
    BY <1>2 DEF Ladder!Acquire
  <2> HIDE DEF r
  <2> QED
    BY <1>0, <2>1, <2>2, ThreadMoves
<1>3. CASE Ladder!Answered(c)
  <2>1. Ladder!Outcome(c, ended) /\ UNCHANGED model
    BY <1>3 DEF Ladder!Answered
  <2> HIDE DEF ended
  <2> QED
    BY <1>0, <1>e, <2>1, OutcomeKeeps
<1>4. CASE Ladder!SwitchModel(c)
  <2>1. PICK next \in Ladder!FallbackFor(c) :
          /\ Ladder!Outcome(c, [t EXCEPT !.pc = "trying", !.attempt = 0, !.switches = @ + 1,
                                         !.tried = @ \cup {next}])
          /\ model' = next
    BY <1>4 DEF Ladder!SwitchModel
  <2>2. next \in Models /\ t.switches < MaxSwitches
    BY <1>0, <2>1 DEF Ladder!FallbackFor, Ladder!LadderAssumption
  <2> DEFINE r == [t EXCEPT !.pc = "trying", !.attempt = 0, !.switches = @ + 1,
                            !.tried = @ \cup {next}]
  <2>3. t.switches + 1 \in 0..MaxSwitches /\ 0 \in 0..Ladder!MaxOf(Rungs, MaxHttp)
        /\ t.tried \cup {next} \in SUBSET Models
    BY <1>0, <2>2, LadderCounts
  <2>4. r \in ThreadRecord /\ r.pc = "trying"
    BY <1>0, <2>3 DEF ThreadRecord
  <2>5. Ladder!Outcome(c, r) /\ model' \in Models
    BY <2>1, <2>2
  <2> HIDE DEF r
  <2> QED
    BY <2>4, <2>5, OutcomeKeeps
<1>6. CASE Ladder!RateLimited(c)
  <2> DEFINE r == [t EXCEPT !.pc = "backoff", !.attempt = @ + 1]
             over == t.attempt >= Rungs
  <2>1. Ladder!Outcome(c, IF over THEN ended ELSE r) /\ UNCHANGED model
    BY <1>6 DEF Ladder!RateLimited
  <2>2. CASE over
    <3> HIDE DEF ended
    <3> QED
      BY <1>0, <1>e, <2>1, <2>2, OutcomeKeeps
  <2>3. CASE ~over
    <3>1. t.attempt + 1 \in 0..Ladder!MaxOf(Rungs, MaxHttp)
      BY <1>0, <2>3, LadderCounts
    <3>2. r \in ThreadRecord /\ r.pc = "backoff"
      BY <1>0, <3>1 DEF ThreadRecord
    <3>3. Ladder!Outcome(c, r)
      BY <2>1, <2>3
    <3> HIDE DEF r
    <3> QED
      BY <1>0, <2>1, <3>2, <3>3, OutcomeKeeps
  <2> QED
    BY <2>2, <2>3
<1>7. CASE Ladder!ServerError(c)
  <2> DEFINE r == [t EXCEPT !.pc = "pause", !.attempt = @ + 1]
             over == ~Ladder!ServerErrorsLeft(c)
  <2>1. Ladder!Outcome(c, IF Ladder!ServerErrorsLeft(c) THEN r ELSE ended) /\ UNCHANGED model
    BY <1>7 DEF Ladder!ServerError
  <2>2. CASE over
    <3> HIDE DEF ended
    <3> QED
      BY <1>0, <1>e, <2>1, <2>2, OutcomeKeeps
  <2>3. CASE ~over
    <3>1. t.attempt + 1 \in 0..Ladder!MaxOf(Rungs, MaxHttp)
      BY <1>0, <2>3, LadderCounts DEF Ladder!ServerErrorsLeft
    <3>2. r \in ThreadRecord /\ r.pc = "pause"
      BY <1>0, <3>1 DEF ThreadRecord
    <3>3. Ladder!Outcome(c, r)
      BY <2>1, <2>3
    <3> HIDE DEF r
    <3> QED
      BY <1>0, <2>1, <3>2, <3>3, OutcomeKeeps
  <2> QED
    BY <2>2, <2>3
<1>8. CASE Ladder!NetworkError(c)
  <2> DEFINE r == [t EXCEPT !.pc = "backoff", !.transport = @ + 1]
             over == t.transport >= MaxHttp
  <2>1. Ladder!Outcome(c, IF over THEN ended ELSE r) /\ UNCHANGED model
    BY <1>8 DEF Ladder!NetworkError
  <2>2. CASE over
    <3> HIDE DEF ended
    <3> QED
      BY <1>0, <1>e, <2>1, <2>2, OutcomeKeeps
  <2>3. CASE ~over
    <3>1. t.transport + 1 \in 0..MaxHttp
      BY <1>0, <2>3, LadderCounts
    <3>2. r \in ThreadRecord /\ r.pc = "backoff"
      BY <1>0, <3>1 DEF ThreadRecord
    <3>3. Ladder!Outcome(c, r)
      BY <2>1, <2>3
    <3> HIDE DEF r
    <3> QED
      BY <1>0, <2>1, <3>2, <3>3, OutcomeKeeps
  <2> QED
    BY <2>2, <2>3
<1>9. CASE Ladder!Wake(c)
  <2> DEFINE r == [t EXCEPT !.pc = "trying"]
  <2>1. r \in ThreadRecord /\ r.pc = "trying"
    BY <1>0 DEF ThreadRecord
  <2>2. thread[c].pc \in {"backoff", "pause"} /\ Ladder!Moves(c, r)
        /\ UNCHANGED <<model, slots, aborted>>
    BY <1>9 DEF Ladder!Wake
  <2> HIDE DEF r
  <2> QED
    BY <1>0, <2>1, <2>2, ThreadMoves
<1>10. CASE Ladder!Abort(c)
  <2>1. thread[c].pc = "backoff" /\ Ladder!Moves(c, ended) /\ UNCHANGED <<model, slots, aborted>>
    BY <1>10 DEF Ladder!Abort, Ladder!SliceAborts
  <2> HIDE DEF ended
  <2> QED
    BY <1>0, <1>e, <2>1, ThreadMoves
<1> QED
  BY <1>1, <1>2, <1>3, <1>4, <1>6, <1>7, <1>8, <1>9, <1>10 DEF Ladder!Receive

LEMMA LadderInductive ==
    ASSUME Ladder!LadderAssumption, LadderInv, [Ladder!Next]_ladderVars
    PROVE  LadderInv'
<1>1. CASE UNCHANGED <<thread, model, slots>> /\ aborted' \in BOOLEAN
  BY <1>1 DEF LadderInv, SlotsAreFlights, Flying
<1>2. ASSUME NEW c \in Callers,
             Ladder!Begin(c) \/ Ladder!Acquire(c) \/ Ladder!Receive(c) \/ Ladder!Wake(c)
               \/ Ladder!Abort(c)
      PROVE  LadderInv'
  BY <1>2, LadderThread
<1> QED
  BY <1>1, <1>2 DEF Ladder!Next, Ladder!Halt, ladderVars, LadderInv

LEMMA LadderIsSound ==
    ASSUME Ladder!LadderAssumption, LadderInv PROVE Ladder!TypeOK
<1>1. IsFiniteSet(Flying) /\ Cardinality(Flying) \in Nat
  BY LadderCounts, FS_Subset, FS_CardinalityType DEF Flying
<1>2. slots \in 0..Slots
  BY <1>1, LadderCounts DEF LadderInv, SlotsAreFlights
<1>3. \A c \in Callers : thread[c] \in ThreadRecord
  BY DEF LadderInv
<1> QED
  BY <1>2, <1>3 DEF LadderInv, ThreadRecord, Ladder!TypeOK

-----------------------------------------------------------------------------
(* Episode: every step keeps the invariant.                                *)

LEMMA EpisodeInit == ASSUME Ep!Init PROVE EpisodeInv
BY DEF Ep!Init, EpisodeInv, Ep!TypeOK, Ep!ExecStage, Ep!WorkerStage, ShellFirst, WorkerKnows,
   LeftAlone, WorkerWarned, ShellGone, CollectedFirst, SeenOrMissed, NoneIsLeft, StoppedIsAnError,
   Ep!CliAlive, Ep!WorkerAlive

\* The processes by themselves: the harness does not move.
Processes ==
    \/ Ep!ShellStarts \/ Ep!WorkerForks \/ Ep!WorkerFindsNoCli \/ Ep!WorkerHandles
    \/ Ep!CliEnds \/ Ep!GuardFires \/ Ep!GraceEnds \/ Ep!FatalExit \/ Ep!WorkerSeesEnd
    \/ Ep!WorkerDrains \/ Ep!OutputReleased \/ Ep!ShellEnds \/ Ep!WorkerDies

LEMMA ProcessesKeepTypes ==
    ASSUME EpisodeInv, Processes PROVE Ep!TypeOK'
<1>1. /\ exec' \in Ep!ExecStage /\ reason' \in {"none", "timeout", "cancelled"}
      /\ time' \in {"within", "extended", "over"} /\ groups' \subseteq {"shell", "cli"}
      /\ wakesEarly' \in BOOLEAN
  BY DEF Processes, EpisodeInv, Ep!TypeOK,
     Ep!ShellStarts, Ep!WorkerForks, Ep!WorkerFindsNoCli, Ep!WorkerHandles, Ep!CliEnds,
     Ep!GuardFires, Ep!Signalled, Ep!GraceEnds, Ep!FatalExit, Ep!WorkerSeesEnd, Ep!WorkerDrains,
     Ep!OutputReleased, Ep!ShellEnds, Ep!WorkerDies, Ep!WorkerAlive, Ep!CliAlive,
     Ep!harness, Ep!history
<1>2. shell' \in {"none", "up", "dead"} /\ worker' \in Ep!WorkerStage
  BY DEF Processes, EpisodeInv, Ep!TypeOK, Ep!WorkerStage,
     Ep!ShellStarts, Ep!WorkerForks, Ep!WorkerFindsNoCli, Ep!WorkerHandles, Ep!CliEnds,
     Ep!GuardFires, Ep!Signalled, Ep!GraceEnds, Ep!FatalExit, Ep!WorkerSeesEnd, Ep!WorkerDrains,
     Ep!OutputReleased, Ep!ShellEnds, Ep!WorkerDies, Ep!WorkerAlive, Ep!CliAlive,
     Ep!harness, Ep!history
<1>3. /\ cli' \in {"none", "up", "lingers", "dead"}
      /\ cliCode' \in {0, 1} /\ code' \in {0, 1}
  BY DEF Processes, EpisodeInv, Ep!TypeOK,
     Ep!ShellStarts, Ep!WorkerForks, Ep!WorkerFindsNoCli, Ep!WorkerHandles, Ep!CliEnds,
     Ep!GuardFires, Ep!Signalled, Ep!GraceEnds, Ep!FatalExit, Ep!WorkerSeesEnd, Ep!WorkerDrains,
     Ep!OutputReleased, Ep!ShellEnds, Ep!WorkerDies, Ep!WorkerAlive, Ep!CliAlive,
     Ep!harness, Ep!history
<1>4. /\ held' \in BOOLEAN /\ guarded' \in BOOLEAN
      /\ abandoned' \in BOOLEAN /\ missed' \in BOOLEAN
  BY DEF Processes, EpisodeInv, Ep!TypeOK,
     Ep!ShellStarts, Ep!WorkerForks, Ep!WorkerFindsNoCli, Ep!WorkerHandles, Ep!CliEnds,
     Ep!GuardFires, Ep!Signalled, Ep!GraceEnds, Ep!FatalExit, Ep!WorkerSeesEnd, Ep!WorkerDrains,
     Ep!OutputReleased, Ep!ShellEnds, Ep!WorkerDies, Ep!WorkerAlive, Ep!CliAlive,
     Ep!harness, Ep!history
<1> QED
  BY <1>1, <1>2, <1>3, <1>4 DEF Ep!TypeOK

LEMMA ProcessesKeepOrder ==
    ASSUME EpisodeInv, Processes
    PROVE  ShellFirst' /\ WorkerKnows' /\ LeftAlone' /\ WorkerWarned' /\ ShellGone'
BY DEF Processes, EpisodeInv, ShellFirst, WorkerKnows, LeftAlone, WorkerWarned, ShellGone,
   Ep!ShellStarts, Ep!WorkerForks, Ep!WorkerFindsNoCli, Ep!WorkerHandles, Ep!CliEnds,
   Ep!GuardFires, Ep!Signalled, Ep!GraceEnds, Ep!FatalExit, Ep!WorkerSeesEnd, Ep!WorkerDrains,
   Ep!OutputReleased, Ep!ShellEnds, Ep!WorkerDies, Ep!WorkerAlive, Ep!CliAlive,
   Ep!harness, Ep!history

LEMMA ProcessesKeepEnds ==
    ASSUME EpisodeInv, Processes
    PROVE  CollectedFirst' /\ SeenOrMissed' /\ NoneIsLeft' /\ StoppedIsAnError'
<1>1. CollectedFirst' /\ SeenOrMissed'
  BY DEF Processes, EpisodeInv, WorkerKnows, CollectedFirst, SeenOrMissed,
     Ep!ShellStarts, Ep!WorkerForks, Ep!WorkerFindsNoCli, Ep!WorkerHandles, Ep!CliEnds,
     Ep!GuardFires, Ep!Signalled, Ep!GraceEnds, Ep!FatalExit, Ep!WorkerSeesEnd, Ep!WorkerDrains,
     Ep!OutputReleased, Ep!ShellEnds, Ep!WorkerDies, Ep!WorkerAlive, Ep!CliAlive,
     Ep!harness, Ep!history
<1>2. NoneIsLeft'
  BY DEF Processes, EpisodeInv, WorkerKnows, WorkerWarned, ShellGone, NoneIsLeft,
     Ep!ShellStarts, Ep!WorkerForks, Ep!WorkerFindsNoCli, Ep!WorkerHandles, Ep!CliEnds,
     Ep!GuardFires, Ep!Signalled, Ep!GraceEnds, Ep!FatalExit, Ep!WorkerSeesEnd, Ep!WorkerDrains,
     Ep!OutputReleased, Ep!ShellEnds, Ep!WorkerDies, Ep!WorkerAlive, Ep!CliAlive,
     Ep!harness, Ep!history
<1>3. StoppedIsAnError'
  BY DEF Processes, EpisodeInv, WorkerKnows, WorkerWarned, StoppedIsAnError,
     Ep!ShellStarts, Ep!WorkerForks, Ep!WorkerFindsNoCli, Ep!WorkerHandles, Ep!CliEnds,
     Ep!GuardFires, Ep!Signalled, Ep!GraceEnds, Ep!FatalExit, Ep!WorkerSeesEnd, Ep!WorkerDrains,
     Ep!OutputReleased, Ep!ShellEnds, Ep!WorkerDies, Ep!WorkerAlive, Ep!CliAlive,
     Ep!harness, Ep!history
<1> QED
  BY <1>1, <1>2, <1>3

\* exec waits, gives up waiting, looks for the groups, or returns: it signals nobody.
Waits ==
    \/ Ep!Spawn \/ Ep!TimePasses \/ Ep!Finish \/ Ep!TimeOutIdle \/ Ep!TimeOut \/ Ep!Cancel
    \/ Ep!Collect \/ Ep!Reaped \/ Ep!Drained \/ Ep!HarnessTerminated

LEMMA WaitsKeep == ASSUME EpisodeInv, Waits PROVE EpisodeInv'
<1>1. Ep!TypeOK'
  <2>1. /\ exec' \in Ep!ExecStage /\ reason' \in {"none", "timeout", "cancelled"}
        /\ time' \in {"within", "extended", "over"} /\ groups' \subseteq {"shell", "cli"}
        /\ wakesEarly' \in BOOLEAN
    BY DEF Waits, EpisodeInv, Ep!TypeOK, Ep!ExecStage,
       Ep!Spawn, Ep!TimePasses, Ep!Finish, Ep!TimeOutIdle, Ep!TimeOut, Ep!Cancel, Ep!Stop,
       Ep!Collect, Ep!Collected, Ep!Reaped, Ep!Drained, Ep!HarnessTerminated,
       Ep!CliAlive, Ep!WorkerAlive, Ep!tree, Ep!history
  <2>2. /\ shell' \in {"none", "up", "dead"} /\ worker' \in Ep!WorkerStage
        /\ cli' \in {"none", "up", "lingers", "dead"}
        /\ cliCode' \in {0, 1} /\ code' \in {0, 1}
    BY DEF Waits, EpisodeInv, Ep!TypeOK, Ep!WorkerStage,
       Ep!Spawn, Ep!TimePasses, Ep!Finish, Ep!TimeOutIdle, Ep!TimeOut, Ep!Cancel, Ep!Stop,
       Ep!Collect, Ep!Collected, Ep!Reaped, Ep!Drained, Ep!HarnessTerminated,
       Ep!CliAlive, Ep!WorkerAlive, Ep!tree, Ep!history
  <2>3. /\ held' \in BOOLEAN /\ guarded' \in BOOLEAN
        /\ abandoned' \in BOOLEAN /\ missed' \in BOOLEAN
    BY DEF Waits, EpisodeInv, Ep!TypeOK,
       Ep!Spawn, Ep!TimePasses, Ep!Finish, Ep!TimeOutIdle, Ep!TimeOut, Ep!Cancel, Ep!Stop,
       Ep!Collect, Ep!Collected, Ep!Reaped, Ep!Drained, Ep!HarnessTerminated,
       Ep!CliAlive, Ep!WorkerAlive, Ep!tree, Ep!history
  <2> QED
    BY <2>1, <2>2, <2>3 DEF Ep!TypeOK
<1>2. ShellFirst' /\ WorkerKnows' /\ LeftAlone' /\ WorkerWarned' /\ ShellGone'
  BY DEF Waits, EpisodeInv, ShellFirst, WorkerKnows, LeftAlone, WorkerWarned, ShellGone,
     Ep!Spawn, Ep!TimePasses, Ep!Finish, Ep!TimeOutIdle, Ep!TimeOut, Ep!Cancel, Ep!Stop,
     Ep!Collect, Ep!Reaped, Ep!Drained, Ep!HarnessTerminated, Ep!StreamsClosed,
     Ep!CliAlive, Ep!WorkerAlive, Ep!tree, Ep!history
<1>3. CollectedFirst' /\ SeenOrMissed'
  BY DEF Waits, EpisodeInv, ShellFirst, ShellGone, CollectedFirst, SeenOrMissed,
     Ep!Spawn, Ep!TimePasses, Ep!Finish, Ep!TimeOutIdle, Ep!TimeOut, Ep!Cancel, Ep!Stop,
     Ep!Collect, Ep!Collected, Ep!Reaped, Ep!Drained, Ep!HarnessTerminated,
     Ep!CliAlive, Ep!WorkerAlive, Ep!tree, Ep!history
<1>4. NoneIsLeft' /\ StoppedIsAnError'
  BY DEF Waits, EpisodeInv, Ep!TypeOK, Ep!WorkerStage, ShellFirst, WorkerKnows, LeftAlone,
     WorkerWarned, ShellGone, NoneIsLeft, StoppedIsAnError,
     Ep!Spawn, Ep!TimePasses, Ep!Finish, Ep!TimeOutIdle, Ep!TimeOut, Ep!Cancel, Ep!Stop,
     Ep!Collect, Ep!Reaped, Ep!Drained, Ep!HarnessTerminated, Ep!StreamsClosed,
     Ep!GraceOver, Ep!CliAlive, Ep!WorkerAlive, Ep!tree, Ep!history
<1> QED
  BY <1>1, <1>2, <1>3, <1>4 DEF EpisodeInv

\* SIGTERM to the groups, from _terminate or from the handler of the harness.
Terms == Ep!Signal \/ Ep!Sweep

LEMMA TermsKeep == ASSUME EpisodeInv, Terms PROVE EpisodeInv'
<1>1. Ep!TypeOK'
  <2>1. /\ exec' \in Ep!ExecStage /\ reason' \in {"none", "timeout", "cancelled"}
        /\ time' \in {"within", "extended", "over"} /\ groups' \subseteq {"shell", "cli"}
        /\ wakesEarly' \in BOOLEAN
    BY DEF Terms, EpisodeInv, Ep!TypeOK, Ep!ExecStage,
       Ep!Signal, Ep!Sweep, Ep!TermGroups, Ep!TermWorker, Ep!Signalled,
       Ep!CliAlive, Ep!WorkerAlive
  <2>2. /\ shell' \in {"none", "up", "dead"} /\ worker' \in Ep!WorkerStage
        /\ cli' \in {"none", "up", "lingers", "dead"}
        /\ cliCode' \in {0, 1} /\ code' \in {0, 1}
    BY DEF Terms, EpisodeInv, Ep!TypeOK, Ep!WorkerStage,
       Ep!Signal, Ep!Sweep, Ep!TermGroups, Ep!TermWorker, Ep!Signalled,
       Ep!CliAlive, Ep!WorkerAlive
  <2>3. /\ held' \in BOOLEAN /\ guarded' \in BOOLEAN
        /\ abandoned' \in BOOLEAN /\ missed' \in BOOLEAN
    BY DEF Terms, EpisodeInv, Ep!TypeOK,
       Ep!Signal, Ep!Sweep, Ep!TermGroups, Ep!TermWorker, Ep!Signalled,
       Ep!CliAlive, Ep!WorkerAlive
  <2> QED
    BY <2>1, <2>2, <2>3 DEF Ep!TypeOK
<1>2. ShellFirst' /\ WorkerKnows' /\ LeftAlone' /\ WorkerWarned' /\ ShellGone'
  BY DEF Terms, EpisodeInv, Ep!TypeOK, ShellFirst, WorkerKnows, LeftAlone, WorkerWarned,
     ShellGone, Ep!Signal, Ep!Sweep,
     Ep!TermGroups, Ep!TermWorker, Ep!Signalled, Ep!CliAlive, Ep!WorkerAlive
<1>3. CollectedFirst' /\ SeenOrMissed' /\ NoneIsLeft' /\ StoppedIsAnError'
  BY DEF Terms, EpisodeInv, Ep!TypeOK, ShellFirst, WorkerKnows, CollectedFirst, SeenOrMissed,
     NoneIsLeft, StoppedIsAnError, Ep!Signal, Ep!Sweep,
     Ep!TermGroups, Ep!TermWorker, Ep!Signalled, Ep!CliAlive, Ep!WorkerAlive
<1> QED
  BY <1>1, <1>2, <1>3 DEF EpisodeInv

\* SIGKILL to the groups: after five seconds, on a second cancellation, from the handler.
Kills == Ep!Escalate \/ Ep!CancelAgain \/ Ep!SweepKills

LEMMA KillsKeep == ASSUME EpisodeInv, Kills PROVE EpisodeInv'
<1>1. Ep!TypeOK'
  <2>1. /\ exec' \in Ep!ExecStage /\ reason' \in {"none", "timeout", "cancelled"}
        /\ time' \in {"within", "extended", "over"} /\ groups' \subseteq {"shell", "cli"}
        /\ wakesEarly' \in BOOLEAN
    BY DEF Kills, EpisodeInv, Ep!TypeOK, Ep!ExecStage,
       Ep!Escalate, Ep!CancelAgain, Ep!SweepKills, Ep!KillGroups,
       Ep!CliAlive, Ep!WorkerAlive
  <2>2. /\ shell' \in {"none", "up", "dead"} /\ worker' \in Ep!WorkerStage
        /\ cli' \in {"none", "up", "lingers", "dead"}
        /\ cliCode' \in {0, 1} /\ code' \in {0, 1}
    BY DEF Kills, EpisodeInv, Ep!TypeOK, Ep!WorkerStage,
       Ep!Escalate, Ep!CancelAgain, Ep!SweepKills, Ep!KillGroups,
       Ep!CliAlive, Ep!WorkerAlive
  <2>3. /\ held' \in BOOLEAN /\ guarded' \in BOOLEAN
        /\ abandoned' \in BOOLEAN /\ missed' \in BOOLEAN
    BY DEF Kills, EpisodeInv, Ep!TypeOK,
       Ep!Escalate, Ep!CancelAgain, Ep!SweepKills, Ep!KillGroups,
       Ep!CliAlive, Ep!WorkerAlive
  <2> QED
    BY <2>1, <2>2, <2>3 DEF Ep!TypeOK
<1>2. ShellFirst' /\ WorkerKnows' /\ LeftAlone' /\ WorkerWarned' /\ ShellGone'
  BY DEF Kills, EpisodeInv, Ep!TypeOK, ShellFirst, WorkerKnows, LeftAlone, WorkerWarned,
     ShellGone, CollectedFirst, SeenOrMissed, Ep!Escalate,
     Ep!CancelAgain, Ep!SweepKills, Ep!KillGroups, Ep!CliAlive, Ep!WorkerAlive
<1>3. CollectedFirst' /\ SeenOrMissed' /\ NoneIsLeft' /\ StoppedIsAnError'
  BY DEF Kills, EpisodeInv, Ep!TypeOK, Ep!WorkerStage, ShellFirst, WorkerKnows, LeftAlone,
     WorkerWarned, ShellGone, CollectedFirst, SeenOrMissed, NoneIsLeft, StoppedIsAnError,
     Ep!Escalate, Ep!CancelAgain, Ep!SweepKills, Ep!KillGroups, Ep!CliAlive, Ep!WorkerAlive
<1> QED
  BY <1>1, <1>2, <1>3 DEF EpisodeInv

LEMMA EpisodeInductive ==
    ASSUME EpisodeInv, [Ep!Next]_episodeVars PROVE EpisodeInv'
<1>1. CASE UNCHANGED episodeVars
  BY <1>1 DEF episodeVars, EpisodeInv, Ep!TypeOK, ShellFirst, WorkerKnows, LeftAlone,
     WorkerWarned, ShellGone, CollectedFirst, SeenOrMissed, NoneIsLeft, StoppedIsAnError,
     Ep!CliAlive, Ep!WorkerAlive
<1>2. CASE Processes
  BY <1>2, ProcessesKeepTypes, ProcessesKeepOrder, ProcessesKeepEnds DEF EpisodeInv
<1>3. CASE Waits \/ Terms \/ Kills
  BY <1>3, WaitsKeep, TermsKeep, KillsKeep
<1> QED
  BY <1>1, <1>2, <1>3 DEF Ep!Next, Processes, Waits, Terms, Kills

LEMMA EpisodeIsSound ==
    ASSUME EpisodeInv
    PROVE  Ep!TypeOK /\ Ep!NoneOutlivesExec /\ Ep!DiesWithHarness /\ Ep!StoppedIsNotDone
<1>1. Ep!NoneOutlivesExec /\ Ep!DiesWithHarness
  BY DEF EpisodeInv, NoneIsLeft, Ep!NoneOutlivesExec, Ep!DiesWithHarness
<1>2. Ep!StoppedIsNotDone
  BY DEF EpisodeInv, Ep!TypeOK, ShellGone, StoppedIsAnError, Ep!StoppedIsNotDone, Ep!EpisodeStatus
<1> QED
  BY <1>1, <1>2 DEF EpisodeInv

-----------------------------------------------------------------------------
(* The calls.                                                              *)

CallsInv == ReviewInv /\ ProviderInv /\ LadderInv /\ EpisodeInv

LEMMA CallsInit == MCInit => CallsInv
BY ModelCallsAssumption, ReviewInit, ProviderInit, LadderInit, EpisodeInit
   DEF MCInit, CallsInv

LEMMA CallsInductive ==
    ASSUME CallsInv, [MCNext]_allVars PROVE [Next]_vars /\ CallsInv'
<1>1. /\ [Next]_vars /\ [Model!Next]_callVars /\ [Ladder!Next]_ladderVars
      /\ [Ep!Next]_episodeVars
  BY DEF MCNext, allVars
<1> QED
  BY <1>1, ModelCallsAssumption, ReviewStep, ProviderInductive, LadderInductive,
     EpisodeInductive DEF CallsInv

(* Whatever the endpoint refuses, the threads beside it latch and the      *)
(* fallbacks are, a request tells the model its schema and never carries   *)
(* garbage or stale reasoning forward, and a CLI neither outlives its      *)
(* episode nor reports done when it was stopped (v1/provider.py            *)
(* complete_json and _call, environment/local.py exec and _terminate,      *)
(* adapters/_agent_worker.py).                                             *)
THEOREM CallsAreAlwaysSound == MCSpec => []CallsAreSound
<1>1. CallsInv => CallsAreSound
  BY ModelCallsAssumption, ProviderIsSound, LadderIsSound, EpisodeIsSound
     DEF CallsInv, ReviewInv, CallsAreSound
<1>2. CallsInv /\ [MCNext]_allVars => CallsInv'
  BY CallsInductive
<1> QED
  BY <1>1, <1>2, CallsInit, PTL DEF MCSpec
===============================================================================
