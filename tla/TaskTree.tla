------------------------------ MODULE TaskTree ------------------------------
(***************************************************************************)
(* The task tree of one run (v1/tree.py): what a node records, when it is  *)
(* ready, when the tree is complete or stuck, and how the round loop folds *)
(* the tree.json another process wrote into the tree it holds in memory    *)
(* (v1/round_loop.py:_sync_tree_from_disk).                                *)
(*                                                                         *)
(* A tree is a function from Node to records.  A node that a runtime split *)
(* may graft later is in Node from the start, with the status "absent".    *)
(***************************************************************************)
EXTENDS Naturals, FiniteSets

CONSTANTS
    Node,         \* every node the tree holds or may come to hold
    DependsOn,    \* DependsOn[n]: the nodes n.depends_on names
    Children      \* Children[n]: the nodes a split of n grafts, {} if it never splits

ASSUME NodeAssumption ==
    /\ IsFiniteSet(Node)
    /\ DependsOn \in [Node -> SUBSET Node]
    /\ Children \in [Node -> SUBSET Node]

(* TaskTree._validate_dependencies refuses a tree whose edges form a cycle:
   an edge only leads to a node of a lower rank.                           *)
ASSUME AcyclicAssumption ==
    \E rank \in [Node -> 1..Cardinality(Node)] :
        \A n \in Node : \A d \in DependsOn[n] : rank[d] < rank[n]

(* graft_split gives every child an id that is new to the tree: it has one
   parent, which is another node.                                          *)
ASSUME GraftAssumption ==
    \A p \in Node : /\ p \notin Children[p]
                    /\ \A q \in Node \ {p} : Children[p] \cap Children[q] = {}

InFlightStatus == {"dispatched", "awaiting_review"}
Status == {"absent", "pending", "passed", "blocked", "split"} \cup InFlightStatus

(* What the code distinguishes in last_defect: a provider that is down (it
   stops the loop) and a throttled episode (it halves the wave).           *)
Defect == {"none", "throttled", "provider", "other"}

NodeState == [status: Status, attempts: Nat, nonAttempts: Nat, nudges: Nat, defect: Defect]

FreshNode == [status |-> "pending", attempts |-> 0, nonAttempts |-> 0, nudges |-> 0,
              defect |-> "none"]
AbsentNode == [FreshNode EXCEPT !.status = "absent"]

Grafted == UNION {Children[n] : n \in Node}
InitialTree == [n \in Node |-> IF n \in Grafted THEN AbsentNode ELSE FreshNode]

Present(tree) == {n \in Node : tree[n].status # "absent"}

(* Mutant: a dependency in flight already counts. *)
IsReadyEarly(tree, n) ==
    /\ tree[n].status = "pending"
    /\ \A d \in DependsOn[n] : tree[d].status \in {"passed"} \cup InFlightStatus

IsReady(tree, n) ==
    /\ tree[n].status = "pending"
    /\ \A d \in DependsOn[n] : tree[d].status = "passed"

ReadyNodes(tree) == {n \in Node : IsReady(tree, n)}

(* The tree as the orchestrator sees it: nodes a live job owns read as
   dispatched (_claimed_read_as_dispatched).                               *)
Claimed(tree, claimed) ==
    [n \in Node |-> IF n \in claimed THEN [tree[n] EXCEPT !.status = "dispatched"]
                                     ELSE tree[n]]

(* Mutant: a pass another process wrote is overlooked. *)
SyncNodeMissingPass(m, d) ==
    IF d.status = "pending" /\ m.status \notin InFlightStatus
    THEN [m EXCEPT !.status = "pending", !.attempts = d.attempts, !.defect = d.defect]
    ELSE IF d.status = "blocked" /\ m.status # "blocked"
    THEN [m EXCEPT !.status = "blocked", !.defect = d.defect]
    ELSE m

(* One node of _sync_tree_from_disk: m in memory, d on disk.               *)
SyncNode(m, d) ==
    IF d.status = "pending" /\ m.status \notin InFlightStatus
    THEN [m EXCEPT !.status = "pending", !.attempts = d.attempts, !.defect = d.defect]
    ELSE IF d.status = "passed" /\ m.status # "passed"
    THEN [m EXCEPT !.status = "passed", !.defect = "none"]
    ELSE IF d.status = "blocked" /\ m.status # "blocked"
    THEN [m EXCEPT !.status = "blocked", !.defect = d.defect]
    ELSE m

SyncTree(mem, disk, skip) ==
    [n \in Node |-> IF n \in skip \/ disk[n].status = "absent" THEN mem[n]
                    ELSE IF mem[n].status = "absent" THEN disk[n]
                    ELSE SyncNode(mem[n], disk[n])]

(* Mutants of Graft: the parent is left as it was; the children inherit the
   attempts the parent spent.                                              *)
GraftKeepingParent(tree, n) ==
    [c \in Node |-> IF c \in Children[n] THEN FreshNode ELSE tree[c]]
GraftInheriting(tree, n) ==
    [c \in Node |-> IF c = n THEN [tree[n] EXCEPT !.status = "split"]
                    ELSE IF c \in Children[n]
                    THEN [FreshNode EXCEPT !.attempts = tree[n].attempts] ELSE tree[c]]

(* graft_split: the proposing node becomes "split" and its children enter
   the tree with fresh budgets.                                            *)
Graft(tree, n) ==
    [c \in Node |-> IF c = n THEN [tree[n] EXCEPT !.status = "split"]
                    ELSE IF c \in Children[n] THEN FreshNode ELSE tree[c]]
=============================================================================
