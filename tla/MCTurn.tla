------------------------------- MODULE MCTurn -------------------------------
(* Model-checking instance of a run from its job to its turns: the life of a *)
(* run (RunLifecycle), the routing of its model calls (ProviderRouting) and  *)
(* the assembly of one streamed turn (TurnAssembly).  They share no variable *)
(* here, so one run checks all three, each under its own fairness: `part`    *)
(* says which of them moves in a behaviour.                                  *)
EXTENDS ProviderRouting, TLC

CONSTANTS
  Run, Task, Handler, Gate, NoRun, NoCkpt, NoJob, NoReq, ApiOps,
  MaxSteps, MaxCalls, MaxRequeues, MaxCrashes, MaxLost, MaxBusFails,
  Durable, Timely,
  Dialect, MaxText, Shapes

VARIABLES
  part,
  row, log, appr, answers, outbox, queue, task, req, ran, requeues, mishaps,
  dialect, turn, size, wire, spoken, opened, sent, closed, text, slots, calls,
  state

R == INSTANCE RunLifecycle WITH faults <- mishaps
T == INSTANCE TurnAssembly

\* "x" falls back on a ref that names nothing, then on "B".
Chains == "x" :> <<"A", "?", "B">> @@ "y" :> <<"B">>
\* Without a call, with one or two, and a call without arguments.
TurnShapes == {<<>>, <<2>>, <<1, 2>>, <<0, 1>>}

runVars == <<row, log, appr, answers, outbox, queue, task, req, ran, requeues,
             mishaps>>
turnVars == <<dialect, turn, size, wire, spoken, opened, sent, closed, text,
              slots, calls, state>>
allVars == <<part, vars, runVars, turnVars>>

\* One initial state of the parts that rest would do; the last conjuncts pick it.
InitAll ==
  /\ part \in {"run", "routing", "turn"}
  /\ Init /\ R!Init /\ T!Init
  /\ part # "routing" => well = Provider
  /\ part # "turn" => /\ turn = <<>> /\ size = 0
                      /\ dialect = CHOOSE d \in Dialect : TRUE

NextAll ==
  \/ part = "run" /\ R!Next /\ UNCHANGED <<part, vars, turnVars>>
  \/ part = "routing" /\ Next /\ UNCHANGED <<part, runVars, turnVars>>
  \/ part = "turn" /\ T!Next /\ UNCHANGED <<part, vars, runVars>>

FairSpecAll ==
  /\ InitAll /\ [][NextAll]_allVars
  /\ \/ part = "run" /\ R!Fairness
     \/ part = "routing" /\ Fairness
     \/ part = "turn"

\* The properties of the modules, stated there.
RunSettles == R!RunSettles
StreamIsParsed == T!StreamIsParsed
NoHalfCall == T!NoHalfCall

=============================================================================
