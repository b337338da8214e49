------------------------------- MODULE Survey -------------------------------
(***************************************************************************)
(* The survey of v2/survey.py and _phase_survey: the source is cut into    *)
(* segments, folded into chunks, the boundaries between chunks are voted   *)
(* for (by structure, or by a model that is shown overlapping windows),    *)
(* and the spine's units are assembled from the votes; then every unit is  *)
(* written to spine/<id>.md, and last of all spine.json, which is what     *)
(* later phases, and a resumed run, go by.                                 *)
(*                                                                         *)
(* A segment is a number of tokens and one of the marks structure knows, a *)
(* heading at its start or a page break; the text is the sequence of       *)
(* segments, so that a chunk or a unit is a range of them.                 *)
(***************************************************************************)
EXTENDS Naturals, Sequences, FiniteSets, SequencesExt

CONSTANTS
    MaxSegments,    \* segments of the source
    Sizes,          \* tokens a segment may have
    MinChunk,       \* min_chunk_tokens
    FoldTo,         \* effective_max of prefold_chunks
    MinUnit,        \* min_unit_tokens
    TargetUnit,     \* target_unit_tokens of the structural survey
    MaxUnit,        \* max_unit_tokens
    Window, Stride, \* window_size, stride
    MaxCalls,       \* max_calls, the fence of the model's survey
    MaxCrashes

ASSUME SurveyAssumption ==
    /\ {MaxSegments, MinChunk, FoldTo, MinUnit, TargetUnit, MaxUnit, Window, Stride,
        MaxCalls} \subseteq Nat \ {0}
    /\ Stride < Window /\ Sizes \subseteq Nat \ {0} /\ MaxCrashes \in Nat

VARIABLES
    source,     \* the segments, and whether the model votes
    step,       \* where _phase_survey is
    windows,    \* calls made, where the next window starts, boundaries shown
    votes,      \* boundaries voted for, with a confidence above the floor
    units,      \* assembled, in memory
    files,      \* spine/<id>.md of each unit: the range of segments in it
    saved,      \* spine.json
    crashes

surveyVars == <<source, step, windows, votes, units, files, saved, crashes>>

Segment == [tokens : Sizes, mark : {"none", "heading", "page"}]
Plain == [tokens : Sizes, mark : {"none"}]
NoWindows == [calls |-> 0, start |-> 1, shown |-> {}]

Init ==
    /\ source \in [text : SeqOf(Segment, MaxSegments) \ {<<>>}, model : {FALSE}]
                  \cup [text : SeqOf(Plain, MaxSegments) \ {<<>>}, model : {TRUE}]
    /\ step = "voting" /\ windows = NoWindows /\ votes = {}
    /\ units = <<>> /\ files = <<>> /\ saved = <<>> /\ crashes = 0

-----------------------------------------------------------------------------
(* Chunks                                                                  *)

Pieces == [i \in DOMAIN source.text |->
              [lo |-> i, hi |-> i, tokens |-> source.text[i].tokens]]
Joined(a, b) == [lo |-> a.lo, hi |-> b.hi, tokens |-> a.tokens + b.tokens]
Fold(limit, done, next) ==
    IF done # <<>> /\ Last(done).tokens < limit
      THEN Append(Front(done), Joined(Last(done), next)) ELSE Append(done, next)

\* What the first ranges become, as many as the argument says.
Folding(limit, ranges) ==
    LET done[k \in 0..Len(ranges)] ==
            IF k = 0 THEN <<>> ELSE Fold(limit, done[k - 1], ranges[k])
    IN  done

\* The last range, when too small, joins the one before it.
FoldLast(ranges, limit) ==
    IF Len(ranges) > 1 /\ Last(ranges).tokens < limit
      THEN Append(Front(Front(ranges)), Joined(Last(Front(ranges)), Last(ranges)))
      ELSE ranges
Folded(limit, ranges) == Folding(limit, ranges)[Len(ranges)]

\* chunk_text: a segment goes to a neighbour that is too small yet.
Merged == FoldLast(Folded(MinChunk, Pieces), MinChunk)

\* prefold_chunks
Chunks == Folded(FoldTo, Merged)
Boundaries == 1..Len(Chunks) - 1        \* boundary i is after chunk i

-----------------------------------------------------------------------------
(* Votes                                                                   *)

Heading(chunk) == source.text[chunk.lo].mark = "heading"
Page(chunk) == \E i \in chunk.lo..chunk.hi : source.text[i].mark = "page"

\* survey_chunks_structural: the tokens since the last boundary, after each.
Running(chunks) ==
    LET since[i \in 0..Len(chunks) - 1] ==
          IF i = 0 THEN [tokens |-> 0, cut |-> FALSE]
          ELSE LET tokens ==
                     chunks[i].tokens + (IF since[i - 1].cut THEN 0 ELSE since[i - 1].tokens)
               IN  [tokens |-> tokens,
                    cut |-> /\ \/ Heading(chunks[i + 1])
                               \/ Page(chunks[i]) \/ Page(chunks[i + 1])
                               \/ tokens >= TargetUnit
                            /\ tokens >= MinUnit]
    IN  since
StructuralVotes(chunks) == {i \in 1..Len(chunks) - 1 : Running(chunks)[i].cut}

Structural ==
    /\ step = "voting" /\ ~source.model
    /\ votes' = StructuralVotes(Chunks)
    /\ step' = "assembling"
    /\ UNCHANGED <<source, windows, units, files, saved, crashes>>

(* Mutant: the next window starts where this one ended.                    *)
NextStartApart == windows.start + Window

NextStart == windows.start + Stride

(* Mutant: the fence is not looked at.                                     *)
MoreWindowsUnfenced == windows.start + Window - 1 < Len(Chunks) /\ Len(Chunks) > NextStart

\* There is a next window: one with two chunks, before the fence.
MoreWindows ==
    /\ windows.start + Window - 1 < Len(Chunks) /\ Len(Chunks) > NextStart
    /\ windows.calls + 1 < MaxCalls

(* survey_chunks: one call shows a window; its answer may name any boundary *)
(* from there on, one that is not in the window included.                   *)
AskWindow ==
    /\ step = "voting" /\ source.model /\ Len(Chunks) > 1
    /\ \E named \in SUBSET {b \in Boundaries : b >= windows.start} : votes' = votes \cup named
    /\ windows' = [calls |-> windows.calls + 1, start |-> NextStart,
                   shown |-> windows.shown \cup
                       {b \in Boundaries : windows.start <= b /\ b < windows.start + Window - 1}]
    /\ step' = IF MoreWindows THEN "voting" ELSE "assembling"
    /\ UNCHANGED <<source, units, files, saved, crashes>>

\* Fewer than two chunks: no window has anything to ask about.
NothingToAsk ==
    /\ step = "voting" /\ source.model /\ Len(Chunks) < 2
    /\ step' = "assembling"
    /\ UNCHANGED <<source, windows, votes, units, files, saved, crashes>>

-----------------------------------------------------------------------------
(* Units                                                                   *)

\* Chunks a..b as a range of the text, of so many tokens.
Unit(chunks, a, b, tokens) == [lo |-> chunks[a].lo, hi |-> chunks[b].hi, tokens |-> tokens]

\* The raw units of the first chunks: ranges of chunks between the boundaries
\* voted for.
RawUnits(chunks) ==
    LET raw[c \in 0..Len(chunks)] ==
          IF c = 0 THEN <<>>
          ELSE IF c = 1 \/ c - 1 \in votes
            THEN Append(raw[c - 1], [a |-> c, b |-> c, tokens |-> chunks[c].tokens])
            ELSE Append(Front(raw[c - 1]), [a |-> Last(raw[c - 1]).a, b |-> c,
                                            tokens |-> Last(raw[c - 1]).tokens + chunks[c].tokens])
    IN  raw

\* _split_oversized_units: at chunk boundaries.
Cut(chunks, acc, c) ==
    IF acc.tokens + chunks[c].tokens > MaxUnit /\ c > acc.start
      THEN [out |-> Append(acc.out, Unit(chunks, acc.start, c - 1, acc.tokens)), start |-> c,
            tokens |-> chunks[c].tokens]
      ELSE [acc EXCEPT !.tokens = @ + chunks[c].tokens]
Cutting(chunks, raw) ==
    LET acc[k \in 0..raw.b - raw.a + 1] ==
            IF k = 0 THEN [out |-> <<>>, start |-> raw.a, tokens |-> 0]
            ELSE Cut(chunks, acc[k - 1], raw.a + k - 1)
    IN  acc
SplitUnit(chunks, raw) ==
    LET cut == Cutting(chunks, raw)[raw.b - raw.a + 1]
    IN  IF raw.tokens <= MaxUnit \/ raw.b = raw.a
          THEN <<Unit(chunks, raw.a, raw.b, raw.tokens)>>
          ELSE Append(cut.out, Unit(chunks, cut.start, raw.b, cut.tokens))
Splitting(chunks, raws) ==
    LET out[k \in 0..Len(raws)] ==
            IF k = 0 THEN <<>> ELSE out[k - 1] \o SplitUnit(chunks, raws[k])
    IN  out

(* Mutant: a small unit at the end is left as it is.                        *)
FlooredForwardOnly(ranges) == Folded(MinUnit, ranges)

(* _apply_min_size_floor: a small unit joins the next one, and the last one *)
(* the one before.                                                          *)
Floored(ranges) == FoldLast(Folded(MinUnit, ranges), MinUnit)

Assemble ==
    /\ step = "assembling"
    /\ LET raws == RawUnits(Chunks)[Len(Chunks)]
       IN  units' = Floored(Splitting(Chunks, raws)[Len(raws)])
    /\ step' = "writing"
    /\ UNCHANGED <<source, windows, votes, files, saved, crashes>>

-----------------------------------------------------------------------------
(* Files                                                                   *)

(* Mutant: a file that is there is not written again.                       *)
UnwrittenMissing == {i \in DOMAIN units : i \notin DOMAIN files}

Torn == [lo |-> 0, hi |-> 0]
Text(unit) == [lo |-> unit.lo, hi |-> unit.hi]
Written(i) == i \in DOMAIN files /\ files[i] = Text(units[i])
Unwritten == {i \in DOMAIN units : ~Written(i)}

PutFile(i, text) == files' = [j \in DOMAIN files \cup {i} |-> IF j = i THEN text ELSE files[j]]

(* materialize_units: each unit whose file does not hold its text is        *)
(* written, in place; a crash in the middle leaves a part of it.            *)
Materialize ==
    /\ step = "writing" /\ Unwritten # {}
    /\ LET i == CHOOSE i \in Unwritten : \A j \in Unwritten : i <= j
       IN  \/ PutFile(i, Text(units[i])) /\ UNCHANGED <<step, units, votes, windows, crashes>>
           \/ /\ crashes < MaxCrashes
              /\ PutFile(i, Torn)
              /\ crashes' = crashes + 1
              /\ step' = "voting" /\ units' = <<>> /\ votes' = {} /\ windows' = NoWindows
    /\ UNCHANGED <<source, saved>>

SaveSpine ==
    /\ step = "writing" /\ Unwritten = {}
    /\ saved' = units /\ step' = "done"
    /\ UNCHANGED <<source, windows, votes, units, files, crashes>>

(* A killed run is resumed: explore surveys again unless spine.json exists,  *)
(* and a model need not answer what it answered before.                     *)
Crash ==
    /\ crashes < MaxCrashes /\ step # "done"
    /\ step' = "voting" /\ units' = <<>> /\ votes' = {} /\ windows' = NoWindows
    /\ crashes' = crashes + 1
    /\ UNCHANGED <<source, files, saved>>

Next ==
    \/ Structural \/ AskWindow \/ NothingToAsk \/ Assemble \/ Materialize \/ SaveSpine \/ Crash

-----------------------------------------------------------------------------
TypeOK ==
    /\ step \in {"voting", "assembling", "writing", "done"}
    /\ votes \subseteq Boundaries
    /\ windows.calls \in 0..MaxCalls
    /\ step = "done" => saved # <<>>

(* Whatever the votes, the units of spine.json are the whole source, each   *)
(* segment once and in order, and no unit is under the floor unless it is   *)
(* the only one.                                                            *)
SpineTiles ==
    saved # <<>> =>
        /\ saved[1].lo = 1 /\ Last(saved).hi = Len(source.text)
        /\ \A i \in 1..Len(saved) - 1 : saved[i].hi + 1 = saved[i + 1].lo
        /\ \A i \in DOMAIN saved : saved[i].tokens >= MinUnit \/ Len(saved) = 1

(* Once spine.json exists every unit's file holds exactly that unit's text, *)
(* whatever a survey that was killed had written under the same names.      *)
SpineIsBacked == \A i \in DOMAIN saved : i \in DOMAIN files /\ files[i] = Text(saved[i])

(* The model is asked about every boundary between two chunks, unless the   *)
(* fence stopped the survey: windows overlap, so that none falls between.   *)
EveryBoundaryShown ==
    (step # "voting" /\ source.model /\ windows.calls < MaxCalls)
        => windows.shown = Boundaries

=============================================================================
