---------------------------- MODULE RequestLadder ----------------------------
(***************************************************************************)
(* One HTTP request of a structured call: _call of the provider instance   *)
(* that several threads share (v1/provider.py).  Each thread climbs a      *)
(* ladder of its own: sleeps after a 429 up to six rungs, after a 5xx and  *)
(* after a transport failure a few short ones.  What they share is the     *)
(* throttle, and the model: the thread whose second 429 in a row finds a   *)
(* fallback moves the whole instance to it.                                *)
(***************************************************************************)
EXTENDS Naturals, FiniteSets

CONSTANTS
    Callers,     \* threads that call the instance
    Patient,     \* those whose sleeps may last for hours: nothing else of them is late
    Models,      \* a model, with its base_url and api_key, as resolve returns it
    First,       \* the one the instance was built for
    Fallback,    \* get_fallback_model: the model itself where it names none
    Slots,       \* concurrency: requests in flight at once
    MaxHttp,     \* max_http_retries: for 5xx and, separately, for the network
    Rungs,       \* Len(RATE_LIMIT_BACKOFFS)
    MaxSwitches  \* model fallbacks of one request

LadderAssumption ==
    /\ IsFiniteSet(Callers) /\ Patient \subseteq Callers
    /\ First \in Models /\ Fallback \in [Models -> Models]
    /\ {Slots, MaxHttp, Rungs, MaxSwitches} \subseteq Nat

VARIABLES
    thread,   \* the locals of each thread's _call
    model,    \* self.model, with self.base_url and self.api_key
    slots,    \* the value of _throttle
    halted    \* what should_abort answers

vars == <<thread, model, slots, halted>>

Idle == [pc |-> "idle", attempt |-> 0, transport |-> 0, switches |-> 0, tried |-> {}]

MaxOf(a, b) == IF a > b THEN a ELSE b

TypeOK ==
    /\ model \in Models /\ slots \in 0..Slots /\ halted \in BOOLEAN
    /\ \A c \in Callers :
        /\ thread[c].pc \in {"idle", "trying", "flying", "backoff", "pause", "ended"}
        /\ thread[c].attempt \in 0..MaxOf(Rungs, MaxHttp)
        /\ thread[c].transport \in 0..MaxHttp /\ thread[c].switches \in 0..MaxSwitches
        /\ thread[c].tried \subseteq Models

Init ==
    /\ thread = [c \in Callers |-> Idle]
    /\ model = First /\ slots = Slots /\ halted = FALSE

Moves(c, r) == thread' = [thread EXCEPT ![c] = r]

Begin(c) ==
    /\ thread[c].pc \in {"idle", "ended"}
    /\ Moves(c, [Idle EXCEPT !.pc = "trying", !.tried = {model}])
    /\ UNCHANGED <<model, slots, halted>>

(* with self._throttle *)
Acquire(c) ==
    /\ thread[c].pc = "trying" /\ slots > 0
    /\ slots' = slots - 1
    /\ Moves(c, [thread[c] EXCEPT !.pc = "flying"])
    /\ UNCHANGED <<model, halted>>

(* Mutant: the sleep is inside the with statement. *)
ReleasedAfterSleep(c) == IF thread'[c].pc \in {"backoff", "pause"} THEN slots ELSE slots + 1

(* The slot is handed back before the outcome is looked at.                 *)
Released(c) == slots + 1

Outcome(c, r) ==
    /\ thread[c].pc = "flying"
    /\ Moves(c, r)
    /\ slots' = Released(c)
    /\ UNCHANGED halted

(* A response; another 4xx; a stream past its deadline.                     *)
Answered(c) == Outcome(c, [Idle EXCEPT !.pc = "ended"]) /\ UNCHANGED model

(* The fallback of the model the instance is on now, if this request has not
   been on it. *)
FallbackFor(c) ==
    IF thread[c].attempt = 1 /\ thread[c].switches < MaxSwitches
    THEN {Fallback[model]} \ (thread[c].tried \cup {model}) ELSE {}

(* The second 429 in a row. *)
SwitchModel(c) ==
    \E next \in FallbackFor(c) :
        /\ Outcome(c, [thread[c] EXCEPT !.pc = "trying", !.attempt = 0, !.switches = @ + 1,
                                        !.tried = @ \cup {next}])
        /\ model' = next

(* No fallback, or one that does not resolve. *)
RateLimited(c) ==
    /\ Outcome(c, IF thread[c].attempt >= Rungs THEN [Idle EXCEPT !.pc = "ended"]
                  ELSE [thread[c] EXCEPT !.pc = "backoff", !.attempt = @ + 1])
    /\ UNCHANGED model

(* 5xx counts on the ladder's counter. *)
ServerErrorsLeft(c) == thread[c].attempt < MaxHttp

ServerError(c) ==
    /\ Outcome(c, IF ServerErrorsLeft(c) THEN [thread[c] EXCEPT !.pc = "pause", !.attempt = @ + 1]
                  ELSE [Idle EXCEPT !.pc = "ended"])
    /\ UNCHANGED model

NetworkError(c) ==
    /\ Outcome(c, IF thread[c].transport >= MaxHttp THEN [Idle EXCEPT !.pc = "ended"]
                  ELSE [thread[c] EXCEPT !.pc = "backoff", !.transport = @ + 1])
    /\ UNCHANGED model

(* Mutant: the abort hook is only looked at before the first slice.         *)
SliceUnasked(c) == FALSE

(* A slice of five seconds ends and should_abort says so; the sleep after a
   5xx is not sliced. *)
SliceAborts(c) == thread[c].pc = "backoff" /\ halted

Abort(c) ==
    /\ SliceAborts(c)
    /\ Moves(c, [Idle EXCEPT !.pc = "ended"])
    /\ UNCHANGED <<model, slots, halted>>

Wake(c) ==
    /\ thread[c].pc \in {"backoff", "pause"}
    /\ Moves(c, [thread[c] EXCEPT !.pc = "trying"])
    /\ UNCHANGED <<model, slots, halted>>

Halt == ~halted /\ halted' = TRUE /\ UNCHANGED <<thread, model, slots>>

Receive(c) ==
    Answered(c) \/ SwitchModel(c) \/ RateLimited(c) \/ ServerError(c) \/ NetworkError(c)

Next ==
    \/ Halt
    \/ \E c \in Callers :
        Begin(c) \/ Acquire(c) \/ Receive(c) \/ Wake(c) \/ Abort(c)

-----------------------------------------------------------------------------
===============================================================================
