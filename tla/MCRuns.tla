------------------------------- MODULE MCRuns -------------------------------
(* Model-checking instance of runs and of runs that delegate: RunLifecycle   *)
(* behind a queue that keeps its jobs, the same behind tasks that die with   *)
(* their process, and Delegation.  `part` says which of them moves in a      *)
(* behaviour.                                                                *)
EXTENDS RunLifecycle, TLC

CONSTANTS
  Kin, Root, Holder, MaxDepth, MaxParks, MaxSweeps, MaxFaults

ASSUME KinAssumption ==
  /\ IsFiniteSet(Kin) /\ Root \in Kin /\ NoRun \notin Kin
  /\ MaxDepth \in Nat

VARIABLES
  part,
  kin, stack, due, told, promoted, stolen, count

I == INSTANCE RunLifecycle WITH Durable <- FALSE
K == INSTANCE Delegation WITH Run <- Kin, Worker <- Holder, row <- kin, queue <- due

kinVars == <<kin, stack, due, told, promoted, stolen, count>>
allVars == <<part, vars, kinVars>>

InitAll ==
  /\ part \in {"arq", "inline", "kin"}
  /\ Init /\ K!Init

\* No job is lost and no publish fails in the first part.
Kept == faults'.lost = 0 /\ faults'.bus = 0

NextAll ==
  \/ part = "arq" /\ Next /\ Kept /\ UNCHANGED <<part, kinVars>>
  \/ part = "inline" /\ I!Next /\ UNCHANGED <<part, kinVars>>
  \/ part = "kin" /\ K!Next /\ UNCHANGED <<part, vars>>

SpecAll == InitAll /\ [][NextAll]_allVars

Symmetry ==
  UNION {Permutations(S) : S \in {Task, Handler, Gate, Kin \ {Root}, Holder}}

\* The properties of the modules, stated there.
KeptRunsAreResumable == part = "arq" => ParkedIsResumable
InlineGatesHold == part = "inline" => I!ApprovalIsPerCall /\ I!GatedCallRunsOnce
TreeIsShallow == K!TreeIsShallow
AnswerIsEarned == K!AnswerIsEarned

=============================================================================
