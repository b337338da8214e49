------------------------------- MODULE Provider -------------------------------
(***************************************************************************)
(* Structured model calls of one thread: complete_json and _call of an     *)
(* OpenAICompatibleProvider (v1/provider.py) that other threads of the     *)
(* harness use at the same time, and complete_json of a                    *)
(* BackendRoleProvider (roles/backend_provider.py), which answers the same *)
(* calls with command line episodes.                                       *)
(*                                                                         *)
(* A call builds a payload, sends it, and reads one of the outcomes of the *)
(* endpoint.  Each kind of trouble has a counter of its own; the instance  *)
(* remembers what the endpoint refused and what it proved, for every later *)
(* call, and the other threads change what it remembers at any time.       *)
(***************************************************************************)
EXTENDS Naturals

CONSTANTS
    Roles,        \* the roles a call may be made in
    Retries,      \* retries: reprompts after an answer that did not validate
    MaxEmpty,     \* empty completions retried
    MaxDegenerate,\* _degenerate_retry_budget
    MaxDeadline,  \* _deadline_retry_budget
    MaxBudget,    \* _reasoning_retry_budget
    Doublings,    \* doublings from the role's cap to _MAX_STRUCTURED_TOKENS
    MaxEpisodes   \* max_episode_retries

ProviderAssumption ==
    /\ Roles \subseteq {"verdict", "orchestrator", "classify", "plain", "backend"}
    /\ {Retries, MaxEmpty, MaxDegenerate, MaxDeadline, MaxBudget, Doublings,
        MaxEpisodes} \subseteq Nat

VARIABLES
    call,         \* the locals of the call
    formatOk,     \* _response_format_ok is not False
    switchOk,     \* _reasoning_switch_ok is not False
    supported,    \* _format_supported is True
    halted        \* what should_abort answers

vars == <<call, formatOk, switchOk, supported, halted>>
latches == <<formatOk, switchOk, supported>>

NoResume == [kind |-> "none", at |-> 0]
Blank == [format |-> FALSE, switch |-> FALSE, prose |-> TRUE]

Idle == [pc |-> "idle", role |-> "plain", useFormat |-> FALSE, again |-> FALSE,
         payload |-> Blank, resume |-> NoResume, late |-> FALSE,
         validation |-> 0, empty |-> 0, degenerate |-> 0, deadline |-> 0, budget |-> 0,
         verdict |-> FALSE, truncation |-> 0, cap |-> 0,
         episodes |-> 0]

Resumes == [kind : {"none", "nudge", "carry", "garbage"}, at : 0..Retries]

TypeOK ==
    /\ {formatOk, switchOk, supported, halted} \subseteq BOOLEAN
    /\ call.pc \in {"idle", "ready", "flying", "returned", "raised"}
    /\ call.role \in {"verdict", "orchestrator", "classify", "plain", "backend"}
    /\ call.resume \in Resumes
    /\ call.validation \in 0..Retries /\ call.empty \in 0..MaxEmpty
    /\ call.degenerate \in 0..MaxDegenerate /\ call.deadline \in 0..MaxDeadline
    /\ call.budget \in 0..MaxBudget /\ call.truncation \in 0..1
    /\ call.cap \in 0..Doublings /\ call.episodes \in 0..MaxEpisodes

Init ==
    /\ call = Idle
    /\ formatOk = TRUE /\ switchOk = TRUE /\ supported = FALSE
    /\ halted = FALSE

Streams == call.role \in {"verdict", "orchestrator", "classify"}
ThinksOff == call.role = "orchestrator"
HasBudget == call.role \in {"orchestrator", "classify"}
Http == call.role # "backend"

Ends(how) == call' = [Idle EXCEPT !.pc = how, !.role = call.role]
(* The next pass of the while loop, with the locals changed as r says.      *)
Again(r) == call' = [r EXCEPT !.pc = "ready", !.again = FALSE, !.payload = Blank]

-----------------------------------------------------------------------------
(* The head of complete_json, and the request. *)

Begin(role) ==
    /\ call.pc \in {"idle", "returned", "raised"}
    /\ call' = [Idle EXCEPT !.pc = "ready", !.role = role, !.useFormat = formatOk]
    /\ UNCHANGED <<latches, halted>>

(* Mutant: the prose is dropped from a request without response_format too. *)
ProseOnceProven(withFormat) == ~supported

(* make_messages: the schema in prose, unless the endpoint is known to enforce it. *)
Prose(withFormat) == ~(withFormat /\ supported)

(* make_payload; the orchestrator's budget is looked at before each request. *)
Build ==
    /\ call.pc = "ready" /\ Http
    /\ IF call.role = "orchestrator" /\ call.late /\ ~call.again
       THEN Ends("raised")
       ELSE call' = [call EXCEPT
                !.pc = "flying",
                !.payload = [format |-> call.useFormat,
                             switch |-> ThinksOff /\ switchOk,
                             prose |-> Prose(call.useFormat)]]
    /\ UNCHANGED <<latches, halted>>

(* The whole-decision budget of the orchestrator is spent.                  *)
BudgetRunsOut ==
    /\ call.role = "orchestrator" /\ ~call.late
    /\ call.pc \notin {"idle", "returned", "raised"}
    /\ call' = [call EXCEPT !.late = TRUE]
    /\ UNCHANGED <<latches, halted>>

-----------------------------------------------------------------------------
(* What complete_json catches. *)

(* _call gave up (RequestLadder), another 4xx, or a body that is not JSON.  *)
CallRaises ==
    /\ call.pc = "flying" /\ Http
    /\ Ends("raised")
    /\ UNCHANGED <<latches, halted>>

(* Mutant: the second 400 in a row starts the same fallback again.          *)
BadRequestAgain ==
    /\ call.pc = "flying" /\ Http
    /\ formatOk' = FALSE /\ UNCHANGED switchOk
    /\ call' = [call EXCEPT !.pc = "ready", !.again = TRUE, !.useFormat = FALSE]
    /\ UNCHANGED <<supported, halted>>

(* 400: first the reasoning switch is dropped, then response_format; the    *)
(* request without either is part of the same pass, and its 400 is final.   *)
BadRequest ==
    /\ call.pc = "flying" /\ Http
    /\ \/ /\ call.again
          /\ Ends("raised")
          /\ UNCHANGED <<formatOk, switchOk>>
       \/ /\ ~call.again /\ call.payload.switch
          /\ switchOk' = FALSE /\ UNCHANGED formatOk
          /\ Again(call)
       \/ /\ ~call.again /\ ~call.payload.switch
          /\ formatOk' = FALSE /\ UNCHANGED switchOk
          /\ call' = [call EXCEPT !.pc = "ready", !.again = TRUE, !.useFormat = FALSE]
    /\ UNCHANGED <<supported, halted>>

(* Mutant: whatever was cut off is carried forward.                         *)
CarryForwardAnything(partial) ==
    [kind |-> IF partial = "none" THEN "nudge" ELSE IF partial = "garbage" THEN "garbage" ELSE "carry",
     at |-> call.validation]

(* _carry_forward: the tail of the cut-off attempt, unless it is garbage.   *)
CarryForward(partial) ==
    [kind |-> IF partial = "text" THEN "carry" ELSE "nudge", at |-> call.validation]

Partials == {"none", "text", "garbage"}

(* resume_after_cut, for a stream that ran past its deadline.               *)
DeadlineCut ==
    /\ call.pc = "flying" /\ Streams
    /\ \E partial \in Partials :
        LET resumed == [call EXCEPT !.resume = CarryForward(partial)] IN
        \/ /\ call.role = "verdict" /\ ~call.verdict
           /\ Again([resumed EXCEPT !.verdict = TRUE])
        \/ /\ call.role # "verdict" /\ call.deadline < MaxDeadline
           /\ Again([resumed EXCEPT !.deadline = @ + 1])
        \/ /\ IF call.role = "verdict" THEN call.verdict ELSE call.deadline >= MaxDeadline
           /\ Ends("raised")
    /\ UNCHANGED <<latches, halted>>

(* The reasoning passed its budget. *)
Overthought ==
    /\ call.pc = "flying" /\ HasBudget
    /\ IF call.budget >= MaxBudget
       THEN Ends("raised")
       ELSE \E partial \in {"text", "garbage"} :
                Again([call EXCEPT !.budget = @ + 1, !.resume = CarryForward(partial)])
    /\ UNCHANGED <<latches, halted>>

(* restart_after_degenerate: on a stream cut as it turns to garbage, or on  *)
(* a finished answer that is garbage and yields nothing valid.              *)
Degenerated ==
    /\ call.pc = "flying" /\ Http
    /\ IF call.degenerate >= MaxDegenerate
       THEN Ends("raised")
       ELSE Again([call EXCEPT !.degenerate = @ + 1, !.resume = NoResume])
    /\ UNCHANGED <<latches, halted>>

-----------------------------------------------------------------------------
(* A response. *)

(* Next to no tokens, or reasoning and no answer. *)
EmptyAnswer ==
    /\ call.pc = "flying" /\ Http /\ call.empty < MaxEmpty
    /\ \E partial \in Partials :
        Again([call EXCEPT !.empty = @ + 1,
                                 !.resume = IF partial = "none" THEN @ ELSE CarryForward(partial)])
    /\ UNCHANGED <<latches, halted>>

(* Retried at the same cap, then at doubled caps up to the ceiling; a       *)
(* verdict role has one retry, which it shares with the deadline.           *)
Truncated ==
    /\ call.pc = "flying" /\ Http
    /\ \E partial \in {"text", "garbage"} :
        LET resumed == [call EXCEPT !.resume = CarryForward(partial)] IN
        \/ /\ call.role = "verdict" /\ ~call.verdict
           /\ Again([resumed EXCEPT !.verdict = TRUE])
        \/ /\ call.role # "verdict" /\ call.truncation = 0
           /\ Again([resumed EXCEPT !.truncation = 1])
        \/ /\ call.role # "verdict" /\ call.truncation = 1 /\ call.cap < Doublings
           /\ Again([resumed EXCEPT !.cap = @ + 1])
    /\ UNCHANGED <<latches, halted>>

Room == IF call.role = "verdict" THEN call.verdict
                                       ELSE call.truncation = 1 /\ call.cap = Doublings

(* Cut off with nothing left to try, and no object in it.                   *)
OutOfRoom ==
    /\ call.pc = "flying" /\ Http /\ Room
    /\ Ends("raised")
    /\ UNCHANGED <<latches, halted>>

Reprompt == [call EXCEPT !.validation = @ + 1, !.resume = NoResume]

(* Mutant: one reprompt more than retries. *)
InvalidOnceMore ==
    /\ call.pc = "flying" /\ Http
    /\ IF call.validation > Retries THEN Ends("raised") ELSE Again(Reprompt)
    /\ UNCHANGED <<latches, halted>>

Invalid ==
    /\ call.pc = "flying" /\ Http
    /\ IF call.validation + 1 > Retries THEN Ends("raised") ELSE Again(Reprompt)
    /\ UNCHANGED <<latches, halted>>

Valid ==
    /\ call.pc = "flying" /\ Http
    /\ Ends("returned")
    /\ supported' = (supported \/ call.useFormat)
    /\ UNCHANGED <<formatOk, switchOk, halted>>

-----------------------------------------------------------------------------
(* complete_json of BackendRoleProvider. *)

StartEpisode ==
    /\ call.pc = "ready" /\ ~Http
    /\ IF halted THEN Ends("raised") ELSE call' = [call EXCEPT !.pc = "flying"]
    /\ UNCHANGED <<latches, halted>>

EpisodeFails ==
    /\ call.pc = "flying" /\ ~Http
    /\ IF call.episodes >= MaxEpisodes
       THEN Ends("raised")
       ELSE call' = [call EXCEPT !.pc = "ready", !.episodes = @ + 1]
    /\ UNCHANGED <<latches, halted>>

(* The second answer that ends at the output cap is the last.               *)
EpisodeAnswers ==
    /\ call.pc = "flying" /\ ~Http
    /\ \/ Ends("returned")
       \/ \E capped \in BOOLEAN :
            IF (capped /\ call.validation >= 1) \/ call.validation + 1 > Retries
            THEN Ends("raised")
            ELSE Again([call EXCEPT !.validation = @ + 1, !.episodes = 0])
    /\ UNCHANGED <<latches, halted>>

-----------------------------------------------------------------------------
Halt == ~halted /\ halted' = TRUE /\ UNCHANGED <<call, latches>>

Response ==
    \/ CallRaises \/ BadRequest \/ DeadlineCut \/ Overthought \/ Degenerated
    \/ EmptyAnswer \/ Truncated \/ OutOfRoom \/ Invalid \/ Valid
    \/ EpisodeFails \/ EpisodeAnswers

Step == Build \/ Response \/ StartEpisode

(* The other threads: what their calls leave in the shared instance.        *)
Others ==
    /\ formatOk' \in {formatOk, FALSE} /\ switchOk' \in {switchOk, FALSE}
    /\ supported' \in {supported, TRUE}
    /\ UNCHANGED <<call, halted>>

Next == Halt \/ Others \/ BudgetRunsOut \/ Step \/ \E role \in Roles : Begin(role)

-----------------------------------------------------------------------------
(* Every request tells the model the schema: in prose, or in the field the  *)
(* endpoint enforces, whatever the callers beside it have latched meanwhile *)
(* (provider.py:588-593: nothing else carries the schema then).             *)
SchemaCarried ==
    call.pc = "flying" /\ Http => call.payload.prose \/ call.payload.format

(* Garbage the model produced is never part of a later prompt
   (provider.py:115-117), and what a request carries forward was cut off after
   the last reprompt: older reasoning never follows a newer answer
   (provider.py:921-923). *)
CarriesOnlyTheLatest ==
    /\ call.resume.kind # "garbage"
    /\ call.resume.kind # "none" => call.resume.at = call.validation

===============================================================================
