------------------------------ MODULE Planning ------------------------------
(***************************************************************************)
(* The planner of v2/planner.py: build_tree recurses from the spine, one   *)
(* model call for each slice that is not settled without one, to the flat  *)
(* list of leaves that becomes tree.json.  Nothing a call returns is       *)
(* believed: its claims are made to tile the slice, its dependencies to    *)
(* name siblings and to have no cycle, and depth and number of nodes are   *)
(* capped whatever it says.                                                *)
(*                                                                         *)
(* Units are numbered as in the spine.  An identifier is a sequence of the *)
(* pieces it is put together from, so that a renamed leaf ("a-2") and a    *)
(* nested one ("a.b") are what they are.  A unit counts for one token.     *)
(*                                                                         *)
(* A call that raises ends the phase with nothing written: TierDriver.     *)
(***************************************************************************)
EXTENDS Naturals, Sequences, FiniteSets, SequencesExt

CONSTANTS
    MaxUnits,       \* units the spine may have
    Ids,            \* identifiers the model gives to children
    MaxClaims,      \* children in one answer
    MaxDeps,        \* dependencies of one child
    DepthCap,       \* depth_cap
    NodeCap,        \* node_cap
    TokenBudget     \* token_budget of a leaf, in units

PlanningAssumption ==
    /\ {MaxUnits, DepthCap, NodeCap, TokenBudget} \subseteq Nat \ {0}
    /\ {MaxClaims, MaxDeps} \subseteq Nat
    /\ \A id \in Ids : id \in Seq(ToSet(id)) /\ Len(id) > 0

VARIABLES
    spine,      \* number of units, whether each carries its own count, code_tile_planner
    stack,      \* the slices being planned, the innermost first
    nodes,      \* the leaves, in the order of the dict that becomes tree.json
    taken,      \* _NodeBudget.count
    reported    \* planner_node_cap_reached was emitted

planVars == <<spine, stack, nodes, taken, reported>>

\* A call of recurse that has not yet looked at its slice.
Slice(lo, hi, depth, path) ==
    [lo |-> lo, hi |-> hi, depth |-> depth, path |-> path, at |-> "entered",
     todo |-> <<>>, leaves |-> <<>>, final |-> <<>>, below |-> <<>>]

Init ==
    /\ spine \in [units : 0..MaxUnits, counted : BOOLEAN, code_tiles : BOOLEAN]
    /\ stack = IF spine.units = 0 THEN <<>> ELSE <<Slice(1, spine.units, 0, <<>>)>>
    /\ nodes = <<>> /\ taken = 0 /\ reported = FALSE

Top == Head(stack)
Span(c) == c.hi - c.lo + 1
Joined(path, id) == IF path = <<>> THEN id ELSE path \o <<".">> \o id
IdsOf(ns) == {ns[i].id : i \in DOMAIN ns}

\* unique_id
UniqueIn(ns, id) ==
    IF id \notin IdsOf(ns) THEN id
    ELSE LET free == {k \in 2..Len(ns) + 2 : id \o <<"-", k>> \notin IdsOf(ns)}
         IN  id \o <<"-", CHOOSE k \in free : \A l \in free : k <= l>>

-----------------------------------------------------------------------------
(* _repair_partition: first claim wins, gaps are filled.                   *)

Gap(lo, hi) == [lo |-> lo, hi |-> hi, gap |-> TRUE]

(* Mutant: an overlapping child keeps all it claimed.                       *)
AcceptedWhole(done, claim) ==
    IF claim.hi <= done.through THEN done
    ELSE [through |-> claim.hi,
          parts |-> done.parts
            \o (IF claim.lo > done.through + 1 THEN <<Gap(done.through + 1, claim.lo - 1)>>
                  ELSE <<>>)
            \o <<[lo |-> claim.lo, hi |-> claim.hi, gap |-> FALSE]>>]

Accepted(done, claim) ==
    LET lo == IF claim.lo <= done.through THEN done.through + 1 ELSE claim.lo
    IN  IF claim.hi <= done.through THEN done
        ELSE [through |-> claim.hi,
              parts |-> done.parts
                \o (IF lo > done.through + 1 THEN <<Gap(done.through + 1, lo - 1)>> ELSE <<>>)
                \o <<[lo |-> lo, hi |-> claim.hi, gap |-> FALSE]>>]

\* What the first claims are accepted as, as many as the argument says.
Accepting(claims, lo) ==
    LET done[k \in 0..Len(claims)] ==
            IF k = 0 THEN [through |-> lo - 1, parts |-> <<>>]
            ELSE Accepted(done[k - 1], claims[k])
    IN  done
Tiled(claims, lo, hi) ==
    LET done == Accepting(claims, lo)[Len(claims)]
    IN  done.parts \o (IF done.through < hi THEN <<Gap(done.through + 1, hi)>> ELSE <<>>)

\* plan_level puts every claim inside the slice.
Claims(lo, hi) == {c \in [lo : lo..hi, hi : lo..hi] : c.lo <= c.hi}
Tilings(lo, hi) ==
    {Tiled(claims, lo, hi) : claims \in SeqOf(Claims(lo, hi), MaxClaims) \ {<<>>}}

-----------------------------------------------------------------------------
(* _sanitize_dependencies                                                  *)

\* What the model may have said of a part; a gap's identifier is the harness's.
(* leaf_gate: too many tokens, or a call count the model puts too high.  A   *)
(* single unit becomes a leaf whatever the gate says of it.                 *)
Fits(part) ==
    IF Span(part) = 1 THEN {TRUE}
    ELSE IF Span(part) > TokenBudget THEN {FALSE} ELSE IF part.gap THEN {TRUE} ELSE BOOLEAN
Described(part) ==
    [id : IF part.gap THEN {<<"gap", part.lo, part.hi>>} ELSE Ids,
     lo : {part.lo}, hi : {part.hi}, fits : Fits(part),
     deps : IF part.gap THEN {{}} ELSE {D \in SUBSET Ids : Cardinality(D) <= MaxDeps}]
AndThen(some, part) == {Append(cands, cand) : cands \in some, cand \in Described(part)}
Answering(parts) ==
    LET some[k \in 0..Len(parts)] ==
            IF k = 0 THEN {<<>>} ELSE AndThen(some[k - 1], parts[k])
    IN  some
Answers(parts) == Answering(parts)[Len(parts)]

\* What a depth-first search from deps sees, by the edges of adj.
Seen(adj, deps) ==
    LET after[k \in Nat] ==
            IF k = 0 THEN deps
            ELSE after[k - 1] \cup UNION {adj[i] : i \in after[k - 1] \cap DOMAIN adj}
    IN  after[Cardinality(DOMAIN adj)]

(* The edges are kept by identifier: of two children of one name, the last.*)
Edges(cands) ==
    [id \in IdsOf(cands) |->
        cands[CHOOSE i \in DOMAIN cands :
                /\ cands[i].id = id
                /\ \A j \in DOMAIN cands : cands[j].id = id => j <= i].deps]

Uncycled(acc, cand) ==
    IF cand.id \in Seen(acc.adj, cand.deps)
      THEN [cands |-> Append(acc.cands, [cand EXCEPT !.deps = {}]),
            adj |-> [acc.adj EXCEPT ![cand.id] = {}]]
      ELSE [acc EXCEPT !.cands = Append(@, cand)]

Known(cands) ==
    [i \in DOMAIN cands |-> [cands[i] EXCEPT !.deps = (@ \cap IdsOf(cands)) \ {cands[i].id}]]
Uncycling(cands) ==
    LET done[k \in 0..Len(cands)] ==
            IF k = 0 THEN [cands |-> <<>>, adj |-> Edges(cands)]
            ELSE Uncycled(done[k - 1], cands[k])
    IN  done
Sanitized(cands) == Uncycling(Known(cands))[Len(cands)].cands

-----------------------------------------------------------------------------
(* recurse                                                                 *)

(* The call for the innermost slice returns the leaves it names, to the    *)
(* candidate its caller is at.  A caller that finds the budget spent goes  *)
(* to no further candidate.                                                *)
Put(f, id, x) == [i \in DOMAIN f \cup {id} |-> IF i = id THEN x ELSE f[i]]
OrStop(todo, spent) == IF spent >= NodeCap THEN <<>> ELSE todo

Return(ids, dropped) ==
    /\ reported' = (reported \/ dropped \/ (Len(stack) > 1 /\ taken' >= NodeCap))
    /\ stack' =
        IF Len(stack) = 1 THEN <<>>
        ELSE LET caller == stack[2] IN
             <<[caller EXCEPT !.below = Put(@, Head(caller.todo).id, ids),
                              !.todo = OrStop(Tail(@), taken')]>>
             \o SubSeq(stack, 3, Len(stack))

\* add_leaf, for one leaf and for the first of some: none takes the name of another.
AddLeaf(ns, new) == Append(ns, [new EXCEPT !.id = UniqueIn(ns, @)])
Growing(leaves) ==
    LET after[k \in 0..Len(leaves)] ==
            IF k = 0 THEN nodes ELSE AddLeaf(after[k - 1], leaves[k])
    IN  after
Grow(leaves, dropped) ==
    LET after == Growing(leaves)[Len(leaves)]
    IN  /\ nodes' = after
        /\ Return({after[i].id : i \in Len(nodes) + 1..Len(after)}, dropped)

\* forced_leaf: the leaves of the parts of the slice that fit the budget.
Force(parts) ==
    LET room == NodeCap - taken
        kept == SubSeq(parts, 1, IF room < Len(parts) THEN room ELSE Len(parts))
    IN  /\ taken' = taken + Len(kept)
        /\ Grow(kept, Len(kept) < Len(parts))

Leaf(id, lo, hi, deps) == [id |-> id, lo |-> lo, hi |-> hi, deps |-> deps]
OneLeaf ==
    Force(<<Leaf(IF Top.path # <<>> THEN Top.path ELSE <<"root">>, Top.lo, Top.hi, {})>>)

\* The spine's own counts make every unit a leaf.
PerUnit == Force([i \in 1..Span(Top) |->
    LET u == Top.lo + i - 1 IN Leaf(Joined(Top.path, <<"unit", u>>), u, u, {})])

(* Whether a slice needs no call, and the leaves it then becomes: with       *)
(* code_tile_planner, also a slice that fits the budget and one whose units *)
(* all fill it.                                                             *)
Small == Span(Top) = 1 \/ Top.depth >= DepthCap
Whole == Small \/ (spine.code_tiles /\ ~spine.counted /\ TokenBudget > 1 /\ Span(Top) <= TokenBudget)
Units == ~Small /\ (spine.counted \/ (spine.code_tiles /\ TokenBudget = 1))

Settle ==
    /\ stack # <<>> /\ Top.at = "entered"
    /\ (Whole /\ OneLeaf) \/ (Units /\ PerUnit)
    /\ UNCHANGED spine

\* plan_level, and what the harness makes of the answer.
Plan ==
    /\ stack # <<>> /\ Top.at = "entered"
    /\ ~Whole /\ ~Units
    /\ \/ OneLeaf                               \* no children in the answer
       \/ \E parts \in Tilings(Top.lo, Top.hi) : \E cands \in Answers(parts) :
            /\ stack' = [stack EXCEPT ![1].at = "planned", ![1].todo = Sanitized(cands)]
            /\ UNCHANGED <<nodes, taken, reported>>
    /\ UNCHANGED spine

(* Mutant: a leaf that waits to be added is not counted.                    *)
ClassifyUncounted ==
    /\ stack # <<>> /\ Top.at = "planned" /\ Top.todo # <<>>
    /\ LET cand == Head(Top.todo)
           id == Joined(Top.path, cand.id)
       IN  IF cand.fits \/ Top.depth + 1 >= DepthCap \/ Span(cand) = 1
             THEN /\ UNCHANGED <<taken, reported>>
                  /\ stack' = [stack EXCEPT
                        ![1].leaves = Append(@, cand),
                        ![1].final = Put(@, cand.id, UniqueIn(nodes, id)),
                        ![1].todo = Tail(@)]
             ELSE /\ stack' = <<Slice(cand.lo, cand.hi, Top.depth + 1, id)>> \o stack
                  /\ UNCHANGED <<taken, reported>>
    /\ UNCHANGED <<spine, nodes>>

(* The next candidate: a leaf when the gate or a cap says so, else a slice.  *)
(* The budget is spent nowhere but at the end of a loop, which then stops:  *)
(* take() cannot refuse here.                                               *)
Classify ==
    /\ stack # <<>> /\ Top.at = "planned" /\ Top.todo # <<>>
    /\ LET cand == Head(Top.todo)
           id == Joined(Top.path, cand.id)
       IN  IF cand.fits \/ Top.depth + 1 >= DepthCap \/ Span(cand) = 1
             THEN /\ taken' = taken + 1
                  /\ reported' = (reported \/ taken' >= NodeCap)
                  /\ stack' = [stack EXCEPT
                        ![1].leaves = Append(@, cand),
                        ![1].final = Put(@, cand.id, UniqueIn(nodes, id)),
                        ![1].todo = OrStop(Tail(@), taken')]
             ELSE /\ stack' = <<Slice(cand.lo, cand.hi, Top.depth + 1, id)>> \o stack
                  /\ UNCHANGED <<taken, reported>>
    /\ UNCHANGED <<spine, nodes>>

(* rewritten_deps: a leaf sibling by its final name, a sibling that was    *)
(* recursed into by the leaves its call returned.                          *)
Rewritten(cand) ==
    UNION {IF d \in DOMAIN Top.final THEN {Top.final[d]}
           ELSE IF d \in DOMAIN Top.below THEN Top.below[d] ELSE {} : d \in cand.deps}

\* All candidates are classified: the leaves of this slice enter the tree.
AddLeaves ==
    /\ stack # <<>> /\ Top.at = "planned" /\ Top.todo = <<>>
    /\ UNCHANGED <<spine, taken>>
    /\ Grow([i \in DOMAIN Top.leaves |->
                LET cand == Top.leaves[i]
                IN  Leaf(Top.final[cand.id], cand.lo, cand.hi, Rewritten(cand))], FALSE)

Next == Settle \/ Plan \/ Classify \/ AddLeaves

-----------------------------------------------------------------------------
\* The plan is made.
Planned == stack = <<>>

TypeOK ==
    /\ taken \in 0..NodeCap /\ reported \in BOOLEAN
    /\ Len(stack) <= DepthCap + 1
    /\ \A i \in DOMAIN stack : 1 <= stack[i].lo /\ stack[i].hi <= spine.units
    /\ Planned => Len(nodes) = taken /\ Cardinality(IdsOf(nodes)) = Len(nodes)

\* The leaves whose inputs hold a unit.
Holders(u) == {i \in DOMAIN nodes : u \in nodes[i].lo..nodes[i].hi}

(* Whatever the model answered, no unit of the spine is in two leaves, and  *)
(* none is lost without planner_node_cap_reached (section 11.4: a unit used *)
(* to be dropped from the tree, and so from the document, with no event).   *)
TilesSpine ==
    \A u \in 1..spine.units :
        /\ Cardinality(Holders(u)) <= 1
        /\ Planned /\ ~reported => Holders(u) # {}
=============================================================================
