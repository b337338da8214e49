------------------------------- MODULE Slicing -------------------------------
(***************************************************************************)
(* A promoted run's one document becomes the leaves of the new tree:       *)
(* _slice_single_artifact_to_leaves (pipeline/driver.py).  out/single.md   *)
(* is a sequence of units with their ordinals; a leaf is given the units   *)
(* of its range, and goes to review or is told where to resume.            *)
(***************************************************************************)
EXTENDS Integers, Sequences, FiniteSets, SequencesExt

CONSTANTS
    Units,      \* the units asked for are 1..Units
    MaxParts    \* bound: units in out/single.md

SlicingAssumption == Units \in Nat \ {0} /\ MaxParts \in Nat

VARIABLES
    single,     \* the ordinals of its units, in the order of the text
    cuts,       \* the leaves' ranges tile 1..Units: the last unit of each
    rangeIn,    \* where a leaf's range can be read: its gates, its brief, nowhere
    leaf,       \* the leaves, each under the last unit of its range
    phase       \* "planned", "raised", "sliced"

sliceVars == <<single, cuts, rangeIn, leaf, phase>>

Fresh == [status |-> "pending", text |-> <<>>, resumeAt |-> 0]

Span(c) == {u \in 1..c : \A b \in cuts : b < c => b < u}

SliceInit ==
    /\ single \in SeqOf(1..Units, MaxParts)
    /\ cuts \in {C \in SUBSET (1..Units) : Units \in C}
    /\ rangeIn \in [cuts -> {"gates", "brief", "nowhere"}]
    /\ leaf = [c \in cuts |-> Fresh] /\ phase = "planned"

\* A set of units in order, as far as the first ones.
InOrder(S) ==
    LET upto[u \in 0..Units] ==
            IF u = 0 THEN <<>>
            ELSE IF u \in S THEN Append(upto[u - 1], u) ELSE upto[u - 1]
    IN  upto
Sorted(S) == InOrder(S)[Units]

(* unit_slices: of several units with one ordinal the last is kept.        *)
Found(c) == Sorted(Range(single) \cap Span(c))

(* Mutant: the writer is sent back to the unit it ended with. *)
ResumeAtTheLast(units) == units[Len(units)]

ResumeAt(units) == units[Len(units)] + 1

Sliced(c) ==
    LET units == Found(c)
    IN  IF rangeIn[c] # "gates" \/ units = <<>> THEN Fresh
        ELSE IF Len(units) >= Cardinality(Span(c))
        THEN [status |-> "awaiting_review", text |-> units, resumeAt |-> 0]
        ELSE [status |-> "pending", text |-> units, resumeAt |-> ResumeAt(units)]

(* A range that only the brief gives raises: the groups read are the second
   and third of an expression that has two (planner.py:45).  The tree is
   not saved then, and the phase has failed.                               *)
SliceSingle ==
    /\ phase = "planned"
    /\ IF single # <<>> /\ \E c \in cuts : rangeIn[c] = "brief"
       THEN phase' = "raised" /\ UNCHANGED leaf
       ELSE /\ phase' = "sliced"
            /\ leaf' = [c \in cuts |-> IF single = <<>> THEN Fresh ELSE Sliced(c)]
    /\ UNCHANGED <<single, cuts, rangeIn>>

(* The writer of a leaf does what it is told: all of the range, or the rest
   of it from the unit named.                                              *)
WriteLeaf(c) ==
    /\ phase = "sliced" /\ leaf[c].status = "pending"
    /\ LET rest == {u \in Span(c) : u >= leaf[c].resumeAt}
       IN  leaf' = [leaf EXCEPT ![c] = [status |-> "awaiting_review", resumeAt |-> 0,
                                        text |-> @.text \o Sorted(rest)]]
    /\ UNCHANGED <<single, cuts, rangeIn, phase>>

SliceNext == SliceSingle \/ (phase = "sliced" /\ \E c \in cuts : WriteLeaf(c))

-----------------------------------------------------------------------------
(* The first writer stopped early: its units are 1, 2, ... as far as it got,
   one of them perhaps started over.                                       *)
BrokenOff == \A i \in DOMAIN single : \A u \in 1..single[i] : u \in Range(single)

(* Of a document that was broken off, no unit is lost and none is written
   twice: once every leaf has followed its framing, the leaves hold each
   unit once, in order (driver.py:2656-2660).                              *)
NoUnitTwice ==
    phase = "sliced" /\ BrokenOff =>
        \A c \in cuts : leaf[c].status = "awaiting_review"
            => leaf[c].text = Sorted(Span(c))
==============================================================================
