---------------------------- MODULE NodeLifecycle ----------------------------
(***************************************************************************)
(* What the round loop promises of the durable task tree when no operator  *)
(* edits it: nodes are handed out in dependency order to a bounded number  *)
(* of writers, nothing passes without a verdict on submitted work, each    *)
(* node moves one at a time, a failure spends one attempt of a bounded     *)
(* budget, and what has passed or been split stays so.  Crashes, replays,  *)
(* gates and the orchestrator's choices are not seen.                      *)
(***************************************************************************)
EXTENDS Naturals, FiniteSets

CONSTANTS Node, DependsOn, Children,
          Slots,    \* nodes that may be with a writer at once
          Budget    \* attempts a node may spend

VARIABLES
    phase,    \* phase[n]: "absent", "waiting", "active" (with a writer), "submitted"
              \* (its work awaits a verdict), "passed", "blocked" or "split"
    spent     \* spent[n]: attempts charged to n

lifecycle == <<phase, spent>>

Active == {n \in Node : phase[n] = "active"}
Startable(n) == /\ phase[n] = "waiting"
                /\ spent[n] < Budget
                /\ \A d \in DependsOn[n] : phase[d] = "passed"

Init ==
    /\ phase = [n \in Node |-> IF \E p \in Node : n \in Children[p] THEN "absent" ELSE "waiting"]
    /\ spent = [n \in Node |-> 0]

Begin ==
    \E S \in (SUBSET {n \in Node : Startable(n)}) \ {{}} :
        /\ Cardinality(Active \cup S) <= Slots
        /\ phase' = [n \in Node |-> IF n \in S THEN "active" ELSE phase[n]]
        /\ UNCHANGED spent

Become(n, next) == phase' = [phase EXCEPT ![n] = next]

(* The work of an episode goes to review; there may be more nodes under
   review than slots, those a reviewer could not be reached for.            *)
Submit(n) == phase[n] = "active" /\ Become(n, "submitted") /\ UNCHANGED spent

Pass(n) == phase[n] = "submitted" /\ Become(n, "passed") /\ UNCHANGED spent

(* An episode that is not held against the node: throttled, nudged, making
   progress, lost and restored, in conflict.                               *)
Forgive(n) == phase[n] = "active" /\ Become(n, "waiting") /\ UNCHANGED spent

(* A failed episode or review. *)
Charge(n) == /\ phase[n] \in {"active", "submitted"}
             /\ spent' = [spent EXCEPT ![n] = @ + 1]
             /\ Become(n, IF spent'[n] < Budget THEN "waiting" ELSE "blocked")

(* The provider is down: nothing more is charged. *)
GiveUp(n) == phase[n] = "active" /\ Become(n, "blocked") /\ UNCHANGED spent

Split(n) ==
    /\ phase[n] = "active"
    /\ phase' = [m \in Node |-> IF m = n THEN "split"
                                ELSE IF m \in Children[n] THEN "waiting" ELSE phase[m]]
    /\ UNCHANGED spent

Next == \/ Begin
        \/ \E n \in Node : \/ Submit(n) \/ Pass(n) \/ Forgive(n) \/ Charge(n)
                          \/ GiveUp(n) \/ Split(n)

Spec == Init /\ [][Next]_lifecycle
=============================================================================
