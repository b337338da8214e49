------------------------------ MODULE DocReview ------------------------------
(***************************************************************************)
(* The review of the whole document: run_document_review                   *)
(* (v3/document_review.py), the cache the driver keeps around it and what  *)
(* the driver does with its findings (pipeline/driver.py: _phase_review at *)
(* T2, _phase_assemble at T3).                                             *)
(*                                                                         *)
(* The document's index is one row per passed node, in tree order: what    *)
(* its writer promised of it.  A call of the reviewer sees a window of     *)
(* rows; the depth pass of T3 sees one artifact per shape.  What the       *)
(* repairs do is Assembly's: here a repaired node's row may change and the *)
(* node may no longer be passed.                                           *)
(***************************************************************************)
EXTENDS Integers, FiniteSets

CONSTANTS
    Size,              \* the tree's nodes are 1..Size, in its order
    Window, Stride,    \* DEFAULT_REVIEW_WINDOW, DEFAULT_REVIEW_STRIDE
    Median,            \* select_pilot_nodes: one node per shape
    MaxItems,          \* bound: failing items in an answer
    MaxEdits,          \* bound: changes of a row or of the contract
    MaxRuns            \* bound: times the phase is entered

TreeNode == 1..Size

DocReviewAssumption ==
    /\ {Size, Window, Stride} \subseteq Nat \ {0} /\ Stride < Window
    /\ Median \subseteq TreeNode
    /\ {MaxItems, MaxEdits, MaxRuns} \subseteq Nat

Stranger == 0          \* a node id the reviewer made up
Class == {"none", "patchable", "regenerate"}

VARIABLES
    tier,
    passed, row,       \* the tree, and manifest.jsonl
    contract,
    cache,             \* audit/document_review.json
    review,            \* the review under way
    cleared,           \* history: the indexes a whole review has read and found well
    edits, runs

content == <<passed, row, contract>>
vars == <<tier, content, cache, review, cleared, edits, runs>>

(* What a review reads: build_document_index and the contract.             *)
Index(P) == [rows |-> [n \in P |-> row[n]], contract |-> contract]

(* _document_review_digest: of the index as it is before the review.       *)
Digest(P) == [index |-> Index(P), depth |-> tier = "T3"]

Nothing == [rows |-> [n \in {} |-> 0], contract |-> 0]
NoDigest == [index |-> Nothing, depth |-> FALSE]

Idle == [at |-> "idle", digest |-> NoDigest, read |-> Nothing, start |-> 0,
         items |-> 0, depth |-> {}, triage |-> [n \in TreeNode |-> "none"],
         escalated |-> FALSE, named |-> FALSE, together |-> {}]

Stage == {"idle", "started", "digested", "windows", "answer", "depth", "closer",
          "reviewed", "triaged", "approval", "repairing"}

TypeOK ==
    /\ tier \in {"T2", "T3"} /\ passed \subseteq TreeNode
    /\ row \in [TreeNode -> 0..MaxEdits] /\ contract \in 0..(MaxEdits + 1)
    /\ cache.clean \in BOOLEAN /\ DOMAIN cache.digest.index.rows \subseteq TreeNode
    /\ review.at \in Stage /\ review.start \in 0..(Size - 1)
    /\ review.items \in 0..MaxItems /\ review.depth \subseteq Median
    /\ review.triage \in [TreeNode -> Class]
    /\ review.escalated \in BOOLEAN /\ review.named \in BOOLEAN
    /\ edits \in 0..MaxEdits /\ runs \in 0..MaxRuns

Init ==
    /\ tier \in {"T2", "T3"} /\ passed \in {TreeNode, TreeNode \ {Size}}
    /\ row = [n \in TreeNode |-> 0] /\ contract = 0
    /\ cache = [digest |-> NoDigest, clean |-> FALSE]
    /\ review = Idle /\ cleared = {} /\ edits = 0 /\ runs = 0

-----------------------------------------------------------------------------
(* The windows: (start, end) pairs over the rows.                          *)

Rows == DOMAIN review.read.rows
Rank(n) == Cardinality({m \in Rows : m < n})
Lesser(a, b) == IF a < b THEN a ELSE b
End == Lesser(review.start + Window, Cardinality(Rows))
InWindow == {n \in Rows : Rank(n) \in review.start .. (End - 1)}
(* Mutant: windows laid end to end. *)
NextStartApart == review.start + Window
NextStart == review.start + Stride
(* Mutant: the walk stops only past the last row. *)
LastWindowPast == review.start >= Cardinality(Rows)
LastWindow == End = Cardinality(Rows)

-----------------------------------------------------------------------------
(* The phase.                                                              *)

Enter ==
    /\ review.at = "idle" /\ runs < MaxRuns /\ runs' = runs + 1
    /\ tier = "T3" => passed = TreeNode      \* or assemble() raises
    /\ review' = [Idle EXCEPT !.at = "started"]
    /\ UNCHANGED <<tier, content, cache, cleared, edits>>

Ends(result) ==
    /\ review' = Idle /\ result
    /\ UNCHANGED <<tier, content, cleared, edits, runs>>

(* Switched off, bypassed, or too late in the budget.                      *)
Skip == review.at = "started" /\ Ends(UNCHANGED cache)

Matches(digest) == cache.digest = digest /\ cache.clean

Hit == review.at = "started" /\ Matches(Digest(passed)) /\ Ends(UNCHANGED cache)

Miss ==
    /\ review.at = "started" /\ ~Matches(Digest(passed))
    /\ review' = [review EXCEPT !.at = "digested", !.digest = Digest(passed)]
    /\ UNCHANGED <<tier, content, cache, cleared, edits, runs>>

Step(next) == review' = next /\ UNCHANGED <<tier, content, cache, cleared, edits, runs>>

FirstCall(r, P) ==
    [r EXCEPT !.at = IF P # {} THEN "windows" ELSE IF tier = "T3" THEN "depth" ELSE "reviewed"]

(* The index is read again, in the thread that reviews; the nodes are those
   of the tree the phase has loaded.  At most one row and no depth pass:
   there is nothing to compare.                                            *)
Read ==
    /\ review.at = "digested"
    /\ LET P == DOMAIN review.digest.index.rows
           r == [review EXCEPT !.read = Index(P), !.depth = IF tier = "T3" THEN Median ELSE {}]
       IN  Step(IF Cardinality(P) <= 1 /\ tier = "T2" THEN [r EXCEPT !.at = "reviewed"]
                ELSE FirstCall(r, P))

Call ==
    /\ review.at = "windows"
    /\ Step([review EXCEPT !.at = "answer", !.items = 0,
                           !.together = @ \cup {{a, b} : a, b \in InWindow}])

(* absorb: ids no node has are dropped; an item without a node escalates,
   and the severest class a node is given stays.                           *)
Absorb(r, ids, class) ==
    LET valid == ids \cap TreeNode
    IN  IF valid = {} THEN [r EXCEPT !.escalated = TRUE]
        ELSE [r EXCEPT !.triage = [n \in TreeNode |->
                  IF n \in valid /\ r.triage[n] # "regenerate" THEN class ELSE r.triage[n]]]

(* An item that names nodes, none of them in the window, is out of scope.  *)
OutOfScope(ids) == ids # {} /\ ids \cap InWindow = {}

Item(ids, class) ==
    /\ review.at = "answer" /\ review.items < MaxItems
    /\ LET r == [review EXCEPT !.items = @ + 1,
                               !.named = @ \/ ids = {} \/ ids \cap InWindow # {}]
       IN  Step(IF OutOfScope(ids) THEN r ELSE Absorb(r, ids, class))

CallEnds ==
    /\ review.at = "answer"
    /\ Step(IF review.escalated THEN [review EXCEPT !.at = "reviewed"]
            ELSE IF LastWindow
            THEN [review EXCEPT !.at = IF tier = "T3" THEN "depth" ELSE "reviewed"]
            ELSE [review EXCEPT !.at = "windows", !.start = NextStart])

(* Mutant: the node stays on the list. *)
CallCloserAgain(n) ==
    /\ review.at = "depth" /\ n \in review.depth
    /\ Step([review EXCEPT !.at = "closer", !.items = 0])

(* The depth pass: one call for each shape's middle node.                  *)
CallCloser(n) ==
    /\ review.at = "depth" /\ n \in review.depth
    /\ Step([review EXCEPT !.at = "closer", !.items = 0, !.depth = @ \ {n}])

(* Without the field the item is the node's under review; an empty list
   names none.                                                             *)
CloserItem(ids, class) ==
    /\ review.at = "closer" /\ review.items < MaxItems
    /\ Step(Absorb([review EXCEPT !.items = @ + 1, !.named = TRUE], ids, class))

CloserEnds == review.at = "closer" /\ Step([review EXCEPT !.at = "depth"])

DepthEnds ==
    /\ review.at = "depth" /\ review.depth = {}
    /\ Step([review EXCEPT !.at = "reviewed"])

Calling == review.at \in {"answer", "closer"}

(* A ProviderError: at T2 the record says so and the phase is done, at T3
   it ends the run.                                                        *)
Unavailable ==
    /\ Calling
    /\ Ends(IF tier = "T2" THEN cache' = [digest |-> NoDigest, clean |-> FALSE]
            ELSE UNCHANGED cache)

(* T2 waits for the thread no longer than the budget allows; what the
   thread still finds is lost.                                             *)
TimesOut == Calling /\ tier = "T2" /\ Ends(UNCHANGED cache)

Triaged == {n \in TreeNode : review.triage[n] # "none"}
(* Mutant: an escalated review without triage is recorded as clean. *)
CleanOfTriage == Triaged = {}
Clean == Triaged = {} /\ ~review.escalated

(* Mutant: the digest is taken when the record is written. *)
RecordAfter == cache' = [digest |-> Digest(DOMAIN review.digest.index.rows), clean |-> Clean]

(* _write_document_review_cache.                                           *)
Record == cache' = [digest |-> review.digest, clean |-> Clean]

(* At T3 a review that escalates, or a document that does not compile, ends
   the phase before the record is written.                                 *)
Fails == review.at = "reviewed" /\ tier = "T3" /\ Ends(UNCHANGED cache)

Reviewed ==
    /\ review.at = "reviewed" /\ (tier = "T3" => ~review.escalated)
    /\ Record
    /\ review' = [review EXCEPT !.at = "triaged"]
    /\ cleared' = IF review.named THEN cleared
                  ELSE cleared \cup {[index |-> review.read, depth |-> tier = "T3"]}
    /\ UNCHANGED <<tier, content, edits, runs>>

Done == review.at = "triaged" /\ (review.escalated \/ Triaged = {}) /\ Ends(UNCHANGED cache)

Regenerated == {n \in TreeNode : review.triage[n] = "regenerate"}
Majority == 2 * Cardinality(Regenerated) >= Cardinality(Triaged)
HasTriage == review.at = "triaged" /\ ~review.escalated /\ Triaged # {}

(* Half of what is found must be written again: the run is promoted, and
   the pilot derives another contract.                                     *)
Promote ==
    /\ HasTriage /\ tier = "T2" /\ Majority
    /\ tier' = "T3" /\ contract' = MaxEdits + 1
    /\ review' = Idle
    /\ UNCHANGED <<passed, row, cache, cleared, edits, runs>>

Dispatch ==
    /\ HasTriage /\ (tier = "T2" => ~Majority)
    /\ Step([review EXCEPT !.at = IF tier = "T3" THEN "approval" ELSE "repairing"])

Refused == review.at = "approval" /\ Ends(UNCHANGED cache)
Approved == review.at = "approval" /\ Step([review EXCEPT !.at = "repairing"])

(* apply_triage: the nodes one after the other.                            *)
Repair(n, promoted) ==
    /\ review.at = "repairing" /\ n \in Triaged
    /\ review' = [review EXCEPT !.triage[n] = "none"]
    /\ IF promoted /\ edits < MaxEdits
       THEN row' = [row EXCEPT ![n] = edits + 1] /\ edits' = edits + 1 /\ UNCHANGED passed
       ELSE passed' \in {passed, passed \ {n}} /\ UNCHANGED <<row, edits>>
    /\ UNCHANGED <<tier, contract, cache, cleared, runs>>

Repaired == review.at = "repairing" /\ Triaged = {} /\ Ends(UNCHANGED cache)

-----------------------------------------------------------------------------
(* Others: a node that is written again, an amendment, a killed driver.    *)

Rewrite(n) ==
    /\ edits < MaxEdits /\ edits' = edits + 1
    /\ row' = [row EXCEPT ![n] = edits + 1] /\ passed' = passed \cup {n}
    /\ UNCHANGED <<tier, contract, cache, review, cleared, runs>>

Amend ==
    /\ edits < MaxEdits /\ edits' = edits + 1 /\ contract' = edits + 1
    /\ UNCHANGED <<tier, passed, row, cache, review, cleared, runs>>

Crash == review.at # "idle" /\ Ends(UNCHANGED cache)

Asked == {ids \in SUBSET (TreeNode \cup {Stranger}) : Cardinality(ids) <= 2}

Answers ==
    \/ \E ids \in Asked, class \in {"patchable", "regenerate"} :
         Item(ids, class) \/ CloserItem(ids, class)

Work ==
    \/ Skip \/ Hit \/ Miss \/ Read \/ Call \/ CallEnds
    \/ \E n \in Median : CallCloser(n)
    \/ CloserEnds \/ DepthEnds
    \/ Fails \/ Reviewed \/ Done \/ Promote \/ Dispatch \/ Refused \/ Approved
    \/ \E n \in TreeNode, promoted \in BOOLEAN : Repair(n, promoted)
    \/ Repaired

Next ==
    \/ Enter \/ Work \/ Answers \/ Unavailable \/ TimesOut
    \/ (\E n \in TreeNode : Rewrite(n)) \/ Amend \/ Crash

-----------------------------------------------------------------------------
(* A review that found nothing it could not place has shown every two
   neighbouring rows to one call: a defect at the boundary of two sections
   is in nobody's blind spot (document_review.py:43, 56-57).               *)
NeighboursShown ==
    review.at = "reviewed" /\ ~review.escalated /\ Cardinality(Rows) > 1
      => \A a, b \in Rows : Rank(b) = Rank(a) + 1 => {a, b} \in review.together

(* The review is skipped for its record only if a whole review has read
   what is there now, row for row, and found nothing: neither the edits
   made while it ran nor a review that was cut short earn the skip
   (driver.py:2912, 2944, 2960).                                           *)
SkipIsEarned == [][Hit => Digest(passed) \in cleared]_vars

(* A defect the reviewer can name no node for is not lost: the record of
   that review never lets the next one be skipped, and the phase does not
   repair and pass over it (driver.py:2905, assembly_loop.py:124).         *)
UnplacedStops == [][review.escalated => review'.at \notin {"approval", "repairing"}
                                        /\ (cache' # cache => ~cache'.clean)]_vars
==============================================================================
