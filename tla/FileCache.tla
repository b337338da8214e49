----------------------------- MODULE FileCache -----------------------------
(***************************************************************************)
(* RunState._cached_read (dashboard/state.py), which every snapshot of     *)
(* every client goes through from threads of its own: the files are        *)
(* stamped, the cache is looked up under a lock, the loader runs without   *)
(* it, and what it loaded is cached under the stamp of before.  The value  *)
(* is the one with the most to go wrong, the run's token total: it is      *)
(* loaded from two files in turn, the ledger, which has a record per       *)
(* finished episode, and the trace of an episode that has none yet.        *)
(*                                                                         *)
(* A stamp is the sizes of the files: both are only ever appended to.      *)
(***************************************************************************)
EXTENDS Integers, Sequences

CONSTANTS
    Threads,
    MaxTokens,      \* tokens of all episodes
    MaxEvictions    \* times another file's entry takes the place of this one

VARIABLES
    ledger,     \* cost.jsonl: the tokens of each finished episode
    trace,      \* tokens in trace.jsonl, of all episodes of the node
    episode,    \* tokens of the running one
    cache,      \* the entry of the file cache
    loads,      \* each thread in _cached_read
    evictions

None == [stamp |-> <<-1, -1>>, value |-> [ledger |-> 0, trace |-> 0, total |-> 0]]
Away == [at |-> "away", began |-> <<0, 0>>, stamp |-> <<0, 0>>, seen |-> None,
         ledger |-> <<>>, value |-> None.value]

CacheInit ==
    /\ ledger = <<>> /\ trace = 0 /\ episode = 0
    /\ cache = None /\ loads = [t \in Threads |-> Away] /\ evictions = 0

Spends ==
    /\ trace < MaxTokens
    /\ trace' = trace + 1 /\ episode' = episode + 1
    /\ UNCHANGED <<ledger, cache, loads, evictions>>

\* record_episode_completed appends the episode's cost.
Finishes ==
    /\ episode > 0
    /\ ledger' = Append(ledger, episode) /\ episode' = 0
    /\ UNCHANGED <<trace, cache, loads, evictions>>

\* The oldest entry goes when there are _CACHE_MAX_ENTRIES of them.
Evict ==
    /\ cache # None /\ evictions < MaxEvictions
    /\ cache' = None /\ evictions' = evictions + 1
    /\ UNCHANGED <<ledger, trace, episode, loads>>

-----------------------------------------------------------------------------
(* _cached_read and _calculate_totals                                      *)

\* The tokens of the first episodes, as many as the argument says.
Summing(l) ==
    LET first[k \in 0..Len(l)] == IF k = 0 THEN 0 ELSE first[k - 1] + l[k]
    IN  first
Sum(l) == Summing(l)[Len(l)]

\* The trace counts while the node has no record.
TotalsBoth(l, t) == [ledger |-> Len(l), trace |-> t, total |-> Sum(l) + t]
Totals(l, t) ==
    [ledger |-> Len(l), trace |-> t, total |-> IF Sum(l) = 0 THEN t ELSE Sum(l)]

Go(t, load) ==
    /\ loads' = [loads EXCEPT ![t] = load]
    /\ UNCHANGED <<ledger, trace, episode, evictions>>

StatLedger(t) ==
    /\ loads[t].at = "away"
    /\ Go(t, [Away EXCEPT !.at = "stat", !.began = <<Len(ledger), trace>>,
                          !.stamp = <<Len(ledger), 0>>])
    /\ UNCHANGED cache

StatTrace(t) ==
    /\ loads[t].at = "stat"
    /\ Go(t, [loads[t] EXCEPT !.at = "look", !.stamp[2] = trace])
    /\ UNCHANGED cache

Lookup(t) ==
    /\ loads[t].at = "look"
    /\ Go(t, IF cache.stamp = loads[t].stamp
               THEN [loads[t] EXCEPT !.at = "back", !.value = cache.value]
               ELSE [loads[t] EXCEPT !.at = "load", !.seen = cache])
    /\ UNCHANGED cache

LoadLedger(t) ==
    /\ loads[t].at = "load"
    /\ Go(t, [loads[t] EXCEPT !.at = "scan", !.ledger = ledger])
    /\ UNCHANGED cache

LoadTrace(t) ==
    /\ loads[t].at = "scan"
    /\ Go(t, [loads[t] EXCEPT !.at = "store", !.value = Totals(loads[t].ledger, trace)])
    /\ UNCHANGED cache

\* What is cached is as old as the stamp at least.
EntryStampedLate(l) == [stamp |-> <<Len(ledger), trace>>, value |-> l.value]
EntryOf(l) == [stamp |-> l.stamp, value |-> l.value]

\* Another thread's entry that came meanwhile stays; it is answered too when
\* it is of the same stamp.
Overtaken(l) == None \notin {cache, l.seen} /\ cache.stamp # l.seen.stamp

Store(t) ==
    /\ loads[t].at = "store"
    /\ LET l == loads[t]
       IN  /\ cache' = IF Overtaken(l) THEN cache ELSE EntryOf(l)
           /\ Go(t, [l EXCEPT !.at = "back",
                       !.value = IF Overtaken(l) /\ cache.stamp = l.stamp
                                   THEN cache.value ELSE @])

Return(t) ==
    /\ loads[t].at = "back"
    /\ Go(t, Away)
    /\ UNCHANGED cache

CacheNext ==
    \/ Spends \/ Finishes \/ Evict
    \/ \E t \in Threads :
         \/ StatLedger(t) \/ StatTrace(t) \/ Lookup(t)
         \/ LoadLedger(t) \/ LoadTrace(t) \/ Store(t) \/ Return(t)

-----------------------------------------------------------------------------
(* A read gives at least what both files held when it began: neither an    *)
(* entry another thread cached meanwhile, nor its own, is older.           *)
ReadIsCurrent ==
    \A t \in Threads : loads[t].at = "back" =>
        /\ loads[t].value.ledger >= loads[t].began[1]
        /\ loads[t].value.trace >= loads[t].began[2]

(* The two files are read one after the other while an episode ends, and   *)
(* no token of it is in the total twice.                                   *)
CountedOnce ==
    \A t \in Threads : loads[t].at = "back" => loads[t].value.total <= trace
=============================================================================
