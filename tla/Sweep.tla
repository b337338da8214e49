------------------------------- MODULE Sweep -------------------------------
(***************************************************************************)
(* The benchmark sweep: scripts/run_longgen_bench.py with the data of      *)
(* scripts/longgen_integrity.py, and `kusudaemon bench` (cmd_bench of      *)
(* pipeline/cli.py), the child process a sweep starts for a cell of its    *)
(* matrix.  A sweep may be killed, resumed, continued or asked to score    *)
(* again; what it measures is handed on through files only: the child's    *)
(* run directory, raw/, bench/ and records.jsonl.                          *)
(*                                                                         *)
(* A text is a function: the run that wrote each unit of the document, 0   *)
(* for a unit that is missing.                                             *)
(***************************************************************************)
EXTENDS Naturals, Sequences, FiniteSets, SequencesExt

CONSTANTS
    Matrix,     \* the cells, in their order
    Bare,       \* those of arm A, the agent alone
    Units,      \* units of the document asked for
    MaxRuns,    \* bench processes ever started: a sweep that would need more is not begun
    MaxSweeps,  \* invocations of the script
    MaxKills

Cells == ToSet(Matrix)
Harness == Cells \ Bare     \* arms B and C
Modes == {"plain", "resume", "continue", "rescore"}

SweepAssumption ==
    /\ Matrix \in Seq(ToSet(Matrix)) /\ Matrix # <<>> /\ Bare \subseteq ToSet(Matrix)
    /\ {MaxRuns, MaxSweeps, MaxKills} \subseteq Nat

VARIABLES
    dir,        \* run directory (arm A: workspace): its units, its main.md
    raw,        \* raw/<cell>.md
    bench,      \* bench/<cell>.json
    rows,       \* records.jsonl
    children,   \* bench processes
    sweep,
    runs, sweeps, kills,
    cut,        \* cells whose run a kill of the sweep cut short
    escaped     \* cells with a child that outlived its sweep

vars == <<dir, raw, bench, rows, children, sweep, runs, sweeps, kills, cut, escaped>>
files == <<dir, raw, bench, rows>>
ghosts == <<runs, sweeps, kills, cut, escaped>>

Nothing == [u \in Units |-> 0]
NoDir == [units |-> Nothing, main |-> Nothing]
Idle == [at |-> "idle", mode |-> "plain", todo |-> <<>>, cell |-> CHOOSE c \in Cells : TRUE,
         run |-> 0, left |-> <<>>, text |-> Nothing]

Init ==
    /\ dir = [c \in Cells |-> NoDir] /\ raw = [c \in Cells |-> Nothing]
    /\ bench = [c \in Cells |-> "none"] /\ rows = <<>> /\ children = {}
    /\ sweep = Idle /\ runs = 0 /\ sweeps = 0 /\ kills = 0 /\ cut = {} /\ escaped = {}

-----------------------------------------------------------------------------
(* kusudaemon bench                                                        *)

\* The agent writes a unit; a run that continues another rewrites what it
\* has to.
Writes(k) ==
    /\ k.at = "working"
    /\ \E u \in Units :
         /\ dir[k.cell].units[u] # k.run
         /\ dir' = [dir EXCEPT ![k.cell].units[u] = k.run]
    /\ UNCHANGED <<raw, bench, rows, children, sweep, ghosts>>

Goes(k, at) == children' = (children \ {k}) \cup {[k EXCEPT !.at = at]}

\* assembly/main.md of a run that is done.
Assembles(k) ==
    /\ k.at = "working" /\ k.cell \in Harness
    /\ \A u \in Units : dir[k.cell].units[u] # 0
    /\ dir' = [dir EXCEPT ![k.cell].main = dir[k.cell].units]
    /\ Goes(k, "done")
    /\ UNCHANGED <<raw, bench, rows, sweep, ghosts>>

\* Arm A hands over the richest of its channels; another arm main.md, or one
\* file of a node that passed when the run got no further, or nothing.
Exported(c) ==
    CASE c \in Bare -> {dir[c].units}
      [] c \in Harness /\ dir[c].main # Nothing -> {dir[c].main}
      [] OTHER -> {[Nothing EXCEPT ![u] = dir[c].units[u]] : u \in Units}

Exports(k) ==
    /\ k.at \in {"working", "done"}
    /\ \E text \in Exported(k.cell) :
         raw' = [raw EXCEPT ![k.cell] =
                   IF text = Nothing /\ k.cell \in Harness THEN @ ELSE text]
    /\ Goes(k, "exported")
    /\ UNCHANGED <<dir, bench, rows, sweep, ghosts>>

Records(k) ==
    /\ k.at = "exported"
    /\ bench' = [bench EXCEPT ![k.cell] = "ran"] /\ children' = children \ {k}
    /\ UNCHANGED <<dir, raw, rows, sweep, ghosts>>

\* It ends without a record: an exception, or an argument it refuses.
Fails(k) ==
    /\ children' = children \ {k}
    /\ UNCHANGED <<files, sweep, ghosts>>

-----------------------------------------------------------------------------
(* The sweep, one cell after the other                                     *)

Begin ==
    /\ sweep.at = "idle" /\ sweeps < MaxSweeps /\ sweeps' = sweeps + 1
    /\ \E mode \in Modes :
         /\ mode = "rescore" \/ runs + Len(Matrix) <= MaxRuns
         /\ sweep' = [Idle EXCEPT !.at = "cells", !.mode = mode, !.todo = Matrix]
    /\ UNCHANGED <<files, children, runs, kills, cut, escaped>>

Now(at) == sweep' = [sweep EXCEPT !.at = at]

\* A cell with a record is done when the sweep resumes.
Done(c) == sweep.mode = "resume" /\ bench[c] # "none"

Skip ==
    /\ sweep.at = "cells" /\ sweep.todo # <<>> /\ Done(Head(sweep.todo))
    /\ sweep' = [sweep EXCEPT !.todo = Tail(@)]
    /\ UNCHANGED <<files, children, ghosts>>

\* What an earlier attempt left is moved away, one thing after the other.
ArchivedNotTheRun(c) == IF c \in Bare THEN <<"raw", "bench", "dir">> ELSE <<"raw", "bench">>
Archived(c) ==
    IF c \in Bare THEN <<"raw", "bench", "dir">> ELSE <<"dir", "raw", "bench">>

Take ==
    /\ sweep.at = "cells" /\ sweep.todo # <<>> /\ ~Done(Head(sweep.todo))
    /\ LET c == Head(sweep.todo)
       IN  sweep' = [sweep EXCEPT !.cell = c, !.todo = Tail(@), !.run = 0,
              !.left = IF sweep.mode \in {"plain", "resume"} THEN Archived(c) ELSE <<>>,
              !.at = IF sweep.mode = "rescore" THEN "harvest" ELSE "archive"]
    /\ UNCHANGED <<files, children, ghosts>>

Archive ==
    /\ sweep.at = "archive" /\ sweep.left # <<>>
    /\ sweep' = [sweep EXCEPT !.left = Tail(@)]
    /\ CASE Head(sweep.left) = "dir" ->
              dir' = [dir EXCEPT ![sweep.cell] = NoDir] /\ UNCHANGED <<raw, bench>>
         [] Head(sweep.left) = "raw" ->
              raw' = [raw EXCEPT ![sweep.cell] = Nothing] /\ UNCHANGED <<dir, bench>>
         [] Head(sweep.left) = "bench" ->
              bench' = [bench EXCEPT ![sweep.cell] = "none"] /\ UNCHANGED <<dir, raw>>
    /\ UNCHANGED <<rows, children, ghosts>>

Launch ==
    /\ sweep.at = "archive" /\ sweep.left = <<>>
    /\ runs' = runs + 1
    /\ sweep' = [sweep EXCEPT !.at = "waiting", !.run = runs + 1]
    /\ children' = children \cup {[cell |-> sweep.cell, run |-> runs + 1, at |-> "working"]}
    /\ UNCHANGED <<files, sweeps, kills, cut, escaped>>

Own == {k \in children : k.run = sweep.run}

Waited ==
    /\ sweep.at = "waiting" /\ Own = {}
    /\ Now("record")
    /\ UNCHANGED <<files, children, ghosts>>

\* --timeout-sec is over: the child's process group is killed.
TimeOutNever == FALSE /\ UNCHANGED vars
TimeOutLeaves ==
    /\ sweep.at = "waiting" /\ Own # {}
    /\ Now("record")
    /\ UNCHANGED <<files, children, ghosts>>
TimeOut ==
    /\ sweep.at = "waiting" /\ Own # {}
    /\ children' = children \ Own
    /\ Now("record")
    /\ UNCHANGED <<files, ghosts>>

\* A cell without a record gets one that says it is partial.
Record ==
    /\ sweep.at = "record"
    /\ bench' = [bench EXCEPT ![sweep.cell] = IF @ = "none" THEN "partial" ELSE @]
    /\ Now("harvest")
    /\ UNCHANGED <<dir, raw, rows, children, ghosts>>

\* main.md, all of the nodes' files, or what is in raw/ already.
Harvested(c) ==
    CASE c \in Harness /\ dir[c].main # Nothing -> dir[c].main
      [] c \in Harness /\ dir[c].main = Nothing /\ dir[c].units # Nothing -> dir[c].units
      [] OTHER -> raw[c]

\* Whatever is in raw/ is replaced by what was harvested.
PersistedIfAbsent(c, text) == IF raw[c] = Nothing THEN text ELSE raw[c]
Persisted(c, text) == IF text = Nothing THEN raw[c] ELSE text

Harvest ==
    /\ sweep.at = "harvest"
    /\ LET text == Harvested(sweep.cell)
       IN  /\ sweep' = [sweep EXCEPT !.at = "score", !.text = text]
           /\ raw' = [raw EXCEPT ![sweep.cell] = Persisted(sweep.cell, text)]
    /\ UNCHANGED <<dir, bench, rows, children, ghosts>>

WriteBack ==
    /\ sweep.at = "score"
    /\ bench' = [bench EXCEPT ![sweep.cell] = IF @ = "none" THEN @ ELSE "scored"]
    /\ Now("append")
    /\ UNCHANGED <<dir, raw, rows, children, ghosts>>

RowsOf(c) == {i \in DOMAIN rows : rows[i].cell = c}
Attempts(c) == {rows[i].attempt : i \in RowsOf(c)}

\* A real run opens an attempt, a new score stays in the last one.
NextAttemptAlways(c, real) == IF Attempts(c) = {} THEN 1 ELSE Max(Attempts(c)) + 1
NextAttempt(c, real) ==
    CASE Attempts(c) = {} -> 1
      [] Attempts(c) # {} /\ real -> Max(Attempts(c)) + 1
      [] OTHER -> Max(Attempts(c))

AppendRow ==
    /\ sweep.at = "append"
    /\ LET c == sweep.cell
           real == sweep.mode # "rescore"
       IN  rows' = Append(rows, [cell |-> c, attempt |-> NextAttempt(c, real),
                                 run |-> sweep.run, text |-> sweep.text,
                                 continued |-> sweep.mode = "continue"])
    /\ sweep' = [sweep EXCEPT !.at = "cells", !.run = 0, !.text = Nothing]
    /\ UNCHANGED <<dir, raw, bench, children, ghosts>>

-----------------------------------------------------------------------------
(* Predictions and summary                                                 *)

\* The last row of the last attempt.
Latest(c) == {i \in RowsOf(c) : rows[i].attempt = Max(Attempts(c))}
LatestRow(c) == rows[Max(Latest(c))]
Measured == {c \in Cells : RowsOf(c) # {}}

\* A row that claims a text of which there is no file.
Lost == {c \in Measured : LatestRow(c).text # Nothing /\ raw[c] = Nothing}

Predict ==
    /\ sweep.at = "cells" /\ sweep.todo = <<>>
    /\ IF Lost # {} THEN sweep' = Idle ELSE Now("summary")
    /\ UNCHANGED <<files, children, ghosts>>

\* Refused while a cell has no row.
Summarize ==
    /\ sweep.at = "summary"
    /\ sweep' = IF Measured = Cells THEN [Idle EXCEPT !.at = "summed"] ELSE Idle
    /\ UNCHANGED <<files, children, ghosts>>

Report == sweep.at = "summed" /\ sweep' = Idle /\ UNCHANGED <<files, children, ghosts>>

-----------------------------------------------------------------------------
(* Kills                                                                   *)

Midway == IF sweep.at \in {"cells", "summary", "summed"} THEN {} ELSE {sweep.cell}

\* The machine goes down.
Crash ==
    /\ kills < MaxKills /\ kills' = kills + 1 /\ sweep.at # "idle"
    /\ sweep' = Idle /\ children' = {} /\ cut' = cut \cup Midway
    /\ UNCHANGED <<files, runs, sweeps, escaped>>

\* An interrupt at the terminal: the child is in a session of its own.
Interrupt ==
    /\ kills < MaxKills /\ kills' = kills + 1 /\ sweep.at # "idle"
    /\ sweep' = Idle /\ cut' = cut \cup Midway
    /\ escaped' = escaped \cup {k.cell : k \in children}
    /\ UNCHANGED <<files, children, runs, sweeps>>

Child == \E k \in children :
    Writes(k) \/ Assembles(k) \/ Exports(k) \/ Records(k) \/ Fails(k)
Steps ==
    \/ Skip \/ Take \/ Archive \/ Launch \/ Waited \/ TimeOut \/ Record \/ Harvest
    \/ WriteBack \/ AppendRow \/ Predict \/ Summarize \/ Report
Next == Begin \/ Child \/ Steps \/ Crash \/ Interrupt

-----------------------------------------------------------------------------
(* Properties                                                              *)

Texts == [Units -> 0..MaxRuns]
TypeOK ==
    /\ \A c \in Cells : dir[c].units \in Texts /\ dir[c].main \in Texts /\ raw[c] \in Texts
    /\ \A c \in Cells : bench[c] \in {"none", "partial", "ran", "scored"}
    /\ Cardinality(children) <= 1 + kills
    /\ runs \in 0..MaxRuns /\ sweep.run \in 0..runs

(* A row of a run that was not told to continue another measures that run: *)
(* no unit of its text was written by an earlier one, be it in the run     *)
(* directory, in raw/ or in the workspace; a child that outlived its sweep *)
(* is the only way another run's units get in.                             *)
MeasuresItsRun ==
    \A r \in ToSet(rows) : (r.run # 0 /\ ~r.continued /\ r.cell \notin escaped) =>
        \A u \in Units : r.text[u] \in {0, r.run}

(* A prediction is read from raw/ long after its row was scored, yet it is *)
(* the text that was scored, for every cell that no kill cut short.        *)
PredictsWhatItScored ==
    sweep.at = "summary" =>
        \A c \in Measured \ (cut \cup escaped) : raw[c] = LatestRow(c).text

(* Rows of one attempt score one text, and the attempts are the real runs: *)
(* a cell scored again is not a run that was repeated.                     *)
AttemptsAreRuns ==
    \A c \in Cells : \A i, j \in RowsOf(c) :
        /\ i < j => rows[j].attempt = rows[i].attempt
                      + Cardinality({k \in RowsOf(c) : i < k /\ k <= j /\ rows[k].run # 0})
        /\ c \notin cut \cup escaped /\ rows[i].attempt = rows[j].attempt
             => rows[i].text = rows[j].text
=============================================================================
