----------------------------- MODULE MCRoundLoop -----------------------------
(* Instances of RoundLoop for TLC: task trees of one to four nodes. *)
EXTENDS RoundLoop, TLC

CONSTANTS a, b, c, d

(* A single node. *)
OneNode == {a}
OneDependsOn == (a :> {})

(* b waits for a. *)
ChainNode == {a, b}
ChainDependsOn == (a :> {}) @@ (b :> {a})

(* b waits for a, which may split into c. *)
BudNode == {a, b, c}
BudDependsOn == (a :> {}) @@ (b :> {a}) @@ (c :> {})
BudChildren == (a :> {c}) @@ (b :> {}) @@ (c :> {})

(* a may split into b and c; d stands alone. *)
GroveNode == {a, b, c, d}
GroveDependsOn == [n \in GroveNode |-> {}]
GroveChildren == (a :> {b, c}) @@ [n \in {b, c, d} |-> {}]
TwinLeaves == Permutations({b, c})

NoChildren == [n \in Node |-> {}]
=============================================================================
