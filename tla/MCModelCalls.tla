----------------------------- MODULE MCModelCalls -----------------------------
(***************************************************************************)
(* The calls of a model, from the outside in: Review, which makes them to  *)
(* judge an artifact; Provider, one structured call; RequestLadder, the    *)
(* HTTP requests of two threads, one of which sleeps without end; Episode, *)
(* the command line agent a backend answers with.  Each says of the next   *)
(* only how it can end and reads none of its variables, so a behaviour     *)
(* follows one of them while the others are at rest.                       *)
(***************************************************************************)
EXTENDS Review, TLC

CONSTANTS
    main, spare, patient, hasty,
    Callers, Patient, Models, First, Slots, MaxHttp, Rungs, MaxSwitches,
    Roles, Retries, MaxEmpty, MaxDegenerate, MaxDeadline, MaxBudget, Doublings, MaxEpisodes,
    WorkerMayDie

\* Each model is the other's fallback.
Fallback == [m \in {main, spare} |-> IF m = main THEN spare ELSE main]

VARIABLES
    followed,
    call, formatOk, switchOk, supported, halted,
    thread, model, slots, aborted,
    exec, reason, time, groups, wakesEarly, shell, worker, cli, cliCode, code, held,
    guarded, abandoned, missed

Model == INSTANCE Provider
Ladder == INSTANCE RequestLadder WITH halted <- aborted
Ep == INSTANCE Episode

ASSUME ModelCallsAssumption ==
    /\ ReviewAssumption /\ Model!ProviderAssumption
    /\ Ep!EpisodeAssumption /\ Ladder!LadderAssumption

ladderVars == <<thread, model, slots, aborted>>
callVars == <<call, formatOk, switchOk, supported, halted>>
episodeVars == <<exec, reason, time, groups, wakesEarly, shell, worker, cli, cliCode, code, held,
                 guarded, abandoned, missed>>
allVars == <<followed, vars, callVars, ladderVars, episodeVars>>

\* The one that is not followed starts in a single state.
MCInit ==
    /\ followed \in {"call", "ladder", "review", "episode"}
    /\ Init /\ Model!Init /\ Ladder!Init /\ Ep!Init
    /\ followed # "episode" => wakesEarly

MCNext ==
    /\ UNCHANGED followed
    /\ \/ followed = "call" /\ Model!Next /\ UNCHANGED <<vars, ladderVars, episodeVars>>
       \/ followed = "ladder" /\ Ladder!Next /\ UNCHANGED <<vars, callVars, episodeVars>>
       \/ followed = "review" /\ Next /\ UNCHANGED <<callVars, ladderVars, episodeVars>>
       \/ followed = "episode" /\ Ep!Next /\ UNCHANGED <<vars, callVars, ladderVars>>

\* What the harness does by itself of a call, a review and an episode.
Works ==
    /\ UNCHANGED followed
    /\ \/ followed = "call" /\ Model!Step /\ UNCHANGED <<vars, ladderVars, episodeVars>>
       \/ followed = "review" /\ Step /\ UNCHANGED <<callVars, ladderVars, episodeVars>>
       \/ followed = "episode" /\ Ep!Timely /\ UNCHANGED <<vars, callVars, ladderVars>>

(* The harness works.  A request ends, for it has a timeout; a thread that *)
(* waits for a slot gets one of those that are handed back again and again;*)
(* a sleep ends, but that of the patient thread may outlast everything     *)
(* else, in slices that ask for the abort.                                 *)
MCSpec ==
    /\ MCInit /\ [][MCNext]_allVars
    /\ WF_allVars(Works)
    /\ \A c \in Callers :
          WF_ladderVars(followed = "ladder" /\ (Ladder!Receive(c) \/ Ladder!Abort(c)))
    /\ \A c \in Callers \ Patient :
         /\ SF_ladderVars(followed = "ladder" /\ Ladder!Acquire(c))
         /\ WF_ladderVars(followed = "ladder" /\ Ladder!Wake(c))

-----------------------------------------------------------------------------
(* Whatever the endpoint refuses and the threads beside it latch, a        *)
(* request tells the model its schema and never carries garbage or stale   *)
(* reasoning forward; and a CLI neither outlives the episode that started  *)
(* it nor a harness that is terminated, nor reports done when it was       *)
(* stopped (provider.py:588-593, 921-923; adapters/_agent_worker.py).      *)
CallsAreSound ==
    /\ TypeOK
    /\ Model!TypeOK /\ Model!SchemaCarried /\ Model!CarriesOnlyTheLatest
    /\ Ladder!TypeOK
    /\ Ep!TypeOK /\ Ep!NoneOutlivesExec /\ Ep!DiesWithHarness /\ Ep!StoppedIsNotDone

(* Everything that starts ends: a call through all its fallbacks and       *)
(* retries, a request although the thread beside it sleeps for hours, a    *)
(* review, and an episode, also one that ignores every polite signal.  The *)
(* sleep for hours itself ends once the run is halted.                     *)
CallsReturn ==
    LET AtRest ==
            /\ call.pc \in {"idle", "returned", "raised"}
            /\ \A c \in Callers \ Patient : thread[c].pc \in {"idle", "ended"}
            /\ review.pc = "idle"
            /\ exec \in {"idle", "returned", "gone"}
        Asleep == aborted /\ \A c \in Patient : thread[c].pc = "backoff"
    IN  (~AtRest ~> AtRest) /\ (Asleep ~> ~Asleep)
===============================================================================
