----------------------------- MODULE MCExecution -----------------------------
(***************************************************************************)
(* A node's episode and what the dashboard shows of it: RunNode, which     *)
(* drives the CLI and keeps the log; TraceView, which follows the file the *)
(* episode writes into a browser's tab; FileCache, which counts the tokens *)
(* of two such files.  The dashboard only reads, so none of them acts on a *)
(* variable of another, and a behaviour follows one of them while the      *)
(* others are at rest.                                                     *)
(***************************************************************************)
EXTENDS RunNode

CONSTANTS
    Families, Tabs, MaxRecords, MaxAttempts, MaxUpsets, HeadBytes, MaxEntries,
    Threads, MaxTokens, MaxEvictions,
    MaxTurns        \* calls, kills and edits together; records, attempts and upsets

Resuming == {TRUE}
Curly == {TRUE}

VARIABLES
    followed,
    family, records, worker, pipe, file, rows, attempts, upsets, heap, cached, shelf, polls,
    feeds,
    ledger, tokens, running, cache, loads, evictions

View == INSTANCE TraceView
Counting == INSTANCE FileCache WITH trace <- tokens, episode <- running

viewVars == <<family, records, worker, pipe, file, rows, attempts, upsets, heap, cached, shelf,
              polls, feeds>>
countVars == <<ledger, tokens, running, cache, loads, evictions>>
allVars == <<followed, vars, viewVars, countVars>>

\* The one that is not followed starts in a single state.
MCInit ==
    /\ followed \in {"episode", "view", "count"}
    /\ Init /\ View!TraceInit /\ Counting!CacheInit
    /\ followed # "episode" => ~stubs
    /\ followed # "view" => family = CHOOSE f \in Families : TRUE

MCNext ==
    /\ UNCHANGED followed
    /\ \/ /\ followed = "episode" /\ Next /\ calls' + crashes' + edits' <= MaxTurns
          /\ UNCHANGED <<viewVars, countVars>>
       \/ /\ followed = "view" /\ View!TraceNext /\ records' + attempts' + upsets' <= MaxTurns
          /\ UNCHANGED <<vars, countVars>>
       \/ followed = "count" /\ Counting!CacheNext /\ UNCHANGED <<vars, viewVars>>

MCSpec == MCInit /\ [][MCNext]_allVars

-----------------------------------------------------------------------------
(* What the dashboard answers is what was written when it looked, although *)
(* the file grows, is torn, replaced and cached by other threads: all its  *)
(* entries, none twice, no count older than the poll or too high           *)
(* (dashboard/state.py:152-330, opencode_store.py).                        *)
AnswersAreTrue ==
    /\ View!TraceTypeOK /\ View!AnswerIsTheFile /\ View!NothingVanishes /\ View!SaidOnce
    /\ Counting!ReadIsCurrent /\ Counting!CountedOnce

(* After a tab has joined an answer to what it shows, it shows what the    *)
(* server has, through deletions of the run and answers of another file.   *)
TabHoldsText == View!TabHoldsText
=============================================================================
