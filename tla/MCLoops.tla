------------------------------- MODULE MCLoops -------------------------------
(***************************************************************************)
(* The three branches of run_round_loop.  The policy and the slots choose  *)
(* one of them for a run; they keep the same state under the same names,   *)
(* so one tree.json, one set of jobs and one loop are enough, and branch   *)
(* says whose they are.                                                    *)
(***************************************************************************)
EXTENDS MCRoundLoop

CONSTANTS
    LoopNode, LoopDependsOn, LoopPosition, LoopPolicy,  \* of the other two branches
    RefillRounds, RefillStarts, MaxTroubles

ASSUME LoopsAssumption ==
    /\ IsFiniteSet(LoopNode)
    /\ LoopDependsOn \in [LoopNode -> SUBSET LoopNode]
    /\ LoopPosition \in [LoopNode -> Nat]
    /\ RefillRounds \in Nat /\ RefillStarts \in Nat /\ MaxTroubles \in Nat

VARIABLE branch

Trio == {a, b, c}
First3 == (a :> 1) @@ (b :> 2) @@ (c :> 3)
Independent == [n \in Trio |-> {}]

\* Only the event-driven branch ever splits a node.
Unsplit == [n \in LoopNode |-> {}]

Refill == INSTANCE RefillLoop WITH
    Node <- LoopNode, DependsOn <- LoopDependsOn, Children <- Unsplit,
    Position <- LoopPosition,
    CreditsProgress <- FALSE, Policy <- LoopPolicy,
    MaxRounds <- RefillRounds, MaxStarts <- RefillStarts, troubles <- crashes

Serial == INSTANCE SerialLoop WITH
    Node <- LoopNode, DependsOn <- LoopDependsOn, Children <- Unsplit,
    Position <- LoopPosition,
    CreditsProgress <- FALSE, Policy <- LoopPolicy,
    MaxRounds <- RefillRounds, MaxStarts <- RefillStarts, troubles <- crashes

\* What the other two branches do not look at.
files == <<rec, art, prior, proposal, landed, news, edit, edits>>
NoFiles ==
    /\ rec = <<>> /\ art = <<>> /\ prior = <<>> /\ proposal = <<>> /\ landed = <<>>
    /\ news = FALSE /\ edit = NoEdit /\ edits = 0
allVars == <<branch, vars>>

LoopsInit ==
    \/ branch = "events" /\ Init
    \/ branch = "refill" /\ Refill!Init /\ NoFiles
    \/ branch = "serial" /\ Serial!Init /\ NoFiles
       /\ noNewWork = FALSE /\ stopping = FALSE /\ cap = 1

LoopsNext ==
    /\ UNCHANGED branch
    /\ \/ branch = "events" /\ Next
       \/ branch = "refill" /\ Refill!Next /\ UNCHANGED files
       \/ branch = "serial" /\ Serial!Next /\ UNCHANGED <<files, noNewWork, stopping, cap>>

(* The event loop runs every ready callback, every sleep, model call,      *)
(* episode and review ends, and an edit is a few lines of one function.    *)
LoopsSpec ==
    /\ LoopsInit /\ [][LoopsNext]_allVars
    /\ WF_vars(branch = "events" /\ Undisturbed /\ Scheduling)
    /\ \A n \in Node : WF_vars(branch = "events" /\ Undisturbed /\ Working(n))
    /\ WF_vars(branch = "events" /\ (SaveEdit \/ LogEdit))
    /\ WF_(Refill!vars)(branch = "refill" /\ Refill!Step)
    /\ WF_(Serial!vars)(branch = "serial" /\ Serial!Step)

-----------------------------------------------------------------------------
(* Every round loop that starts returns, whichever branch it is, whatever  *)
(* its episodes, reviews and decisions do: no budget is refilled for ever, *)
(* no node is retried for ever, no slot is lost by a job that is over.     *)
LoopsReturn ==
    loop \in {"deciding", "filling", "dispatching"} ~> loop \in {"ended", "down"}

(* refill_loop never goes to sleep beside a free slot and a node it could  *)
(* hand out, unless it was told to stop; and a job in backoff when the run *)
(* is halted, or a sibling raised, starts no further attempt.              *)
SlotsFilled ==
    [][branch = "refill" => Refill!FillsSlots /\ Refill!StopsRetries]_allVars

(* The two branches that retry a node in place implement the same abstract *)
(* life cycle as the event-driven one, through crashes and resumes, until  *)
(* the operator bypasses a node; the serial one with a single slot.        *)
LoopsImplementLifecycle ==
    /\ branch = "refill" => Refill!Abstract!Init
    /\ branch = "serial" => Serial!Abstract!Init
    /\ [](branch = "refill" => Refill!TypeOK)
    /\ [](branch = "serial" => Serial!TypeOK)
    /\ [][/\ branch = "refill" => Refill!StepsInLifecycle
          /\ branch = "serial" => Serial!StepsInLifecycle]_allVars
=============================================================================
