---------------------------- MODULE Delegation ----------------------------
(***************************************************************************)
(* Runs that delegate to runs (agents.py, _delegate_fn; tools/builtin/      *)
(* delegate.py).  A child is driven inside its parent's tool call, by the   *)
(* same worker: a worker holds a stack of frames.  A child that outlives    *)
(* that call - it parked, its worker died, the call timed out - goes on at  *)
(* the bottom of a stack of its own.  Steps, gates and cancellation of a    *)
(* single run are RunLifecycle's.                                           *)
(***************************************************************************)
EXTENDS Naturals, Sequences, SequencesExt, FiniteSets

CONSTANTS
  Run, Root,  \* runs; the one a user submitted
  Worker,
  NoRun,
  MaxDepth,   \* _MAX_DELEGATION_DEPTH
  MaxParks, MaxSweeps, MaxFaults \* bounds: gates met, runs swept, faults

VARIABLES
  row,      \* the runs table: [status, parent, beat]
  stack,    \* per worker, the frames it is in: [run, depth, child, pc]
  queue,    \* jobs: runs to be executed or resumed
  told,     \* what the tool call that made the run was answered
  promoted, \* history: children that went on without their parent
  stolen,   \* history: runs that were swept while a worker was driving them
  count     \* gates, sweeps and faults so far

vars == <<row, stack, queue, told, promoted, stolen, count>>

NoRow == [status |-> "none", parent |-> NoRun, beat |-> "none"]
Terminal == {"succeeded", "failed"}

Frame(r, depth) == [run |-> r, depth |-> depth, child |-> NoRun, pc |-> "active"]
Top(w) == stack[w][Len(stack[w])]
On(w, pc) == stack[w] # <<>> /\ Top(w).pc = pc
Drives(w, r) == \E i \in DOMAIN stack[w] : stack[w][i].run = r
Driven(r) == \E w \in Worker : Drives(w, r)

SetTop(w, f) == stack' = [stack EXCEPT ![w][Len(stack[w])] = f]
SetRow(r, s, beat) == row' = [row EXCEPT ![r].status = s, ![r].beat = beat]
Once(what, max) ==
  count[what] < max /\ count' = [count EXCEPT ![what] = @ + 1]

-----------------------------------------------------------------------------
(* Driving.                                                                *)

\* execute_run or resume_run from a job: depth starts at 0 again.
Take(w, r) ==
  /\ stack[w] = <<>> /\ r \in queue
  /\ queue' = queue \ {r}
  /\ IF row[r].status \in {"queued", "parked"}
       THEN /\ SetRow(r, "running", "fresh")
            /\ stack' = [stack EXCEPT ![w] = <<Frame(r, 0)>>]
            /\ promoted' = IF row[r].parent = NoRun THEN promoted
                           ELSE promoted \cup {r}
       ELSE UNCHANGED <<row, stack, promoted>>
  /\ UNCHANGED <<told, stolen, count>>

\* The child's row; beyond the depth limit the model is told to go on alone.
Delegate(w, c) ==
  /\ On(w, "active") /\ Top(w).depth < MaxDepth
  /\ row[c].status = "none"
  /\ row' = [row EXCEPT ![c] =
       [status |-> "queued", parent |-> Top(w).run, beat |-> "none"]]
  /\ SetTop(w, [Top(w) EXCEPT !.child = c, !.pc = "spawned"])
  /\ UNCHANGED <<queue, told, promoted, stolen, count>>

\* (Mutation: the child is given its parent's depth.)
DeeperNot(depth) == depth

Deeper(depth) == depth + 1

ClaimChild(w) ==
  /\ On(w, "spawned")
  /\ LET f == Top(w) IN
     /\ SetRow(f.child, "running", "fresh")
     /\ stack' = [stack EXCEPT ![w] =
          Append([@ EXCEPT ![Len(@)].pc = "waiting"],
                 Frame(f.child, Deeper(f.depth)))]
  /\ UNCHANGED <<queue, told, promoted, stolen, count>>

\* _build_transcript is outside the loop's handler: the exception ends the tool
\* call and leaves the child 'running'.
ChildRaises(w) ==
  /\ On(w, "spawned") /\ Once("faults", MaxFaults)
  /\ LET f == Top(w) IN
     /\ SetRow(f.child, "running", "fresh")
     /\ told' = [told EXCEPT ![f.child] = "error"]
     /\ SetTop(w, [f EXCEPT !.child = NoRun, !.pc = "active"])
  /\ UNCHANGED <<queue, promoted, stolen>>

\* The frame on top is left; what is below reads how its child ended.
Pop(w) ==
  stack' = [stack EXCEPT ![w] =
    IF Len(@) = 1 THEN <<>>
    ELSE [Front(@) EXCEPT ![Len(@) - 1].pc = "reading"]]

Finish(w, s) ==
  /\ On(w, "active")
  /\ SetRow(Top(w).run, s, "none")
  /\ Pop(w)
  /\ UNCHANGED <<queue, told, promoted, stolen, count>>

Park(w) ==
  /\ On(w, "active") /\ Once("parks", MaxParks)
  /\ SetRow(Top(w).run, "parked", row[Top(w).run].beat)
  /\ Pop(w)
  /\ UNCHANGED <<queue, told, promoted, stolen>>

\* decide_approval: the job that resumes the run.
Decide(r) ==
  /\ row[r].status = "parked" /\ r \notin queue
  /\ queue' = queue \cup {r}
  /\ UNCHANGED <<row, stack, told, promoted, stolen, count>>

\* (Mutation: the status of the child is not looked at.)
OutcomeUnread(s) == "answer"

Outcome(s) == IF s = "succeeded" THEN "answer" ELSE "status"

\* The child's row as it is now, and the step that is recorded with the answer.
ReadOutcome(w) ==
  /\ On(w, "reading")
  /\ LET f == Top(w) IN
     /\ told' = [told EXCEPT ![f.child] = Outcome(row[f.child].status)]
     /\ row' = [row EXCEPT ![f.run].beat = "fresh"]
     /\ SetTop(w, [f EXCEPT !.child = NoRun, !.pc = "active"])
  /\ UNCHANGED <<queue, promoted, stolen, count>>

\* wait_for cancels the tool call (1800 s) and all that runs in it; a
\* CancelledError is no Exception, so nothing records an end.
TimesOut(w, i) ==
  /\ i \in DOMAIN stack[w] /\ stack[w][i].pc \in {"spawned", "waiting", "reading"}
  /\ Once("faults", MaxFaults)
  /\ LET f == stack[w][i] IN
     /\ told' = [told EXCEPT ![f.child] = "timeout"]
     /\ row' = [row EXCEPT ![f.run].beat = "fresh"]
     /\ stack' = [stack EXCEPT ![w] =
          Append(SubSeq(@, 1, i - 1), [f EXCEPT !.child = NoRun, !.pc = "active"])]
  /\ UNCHANGED <<queue, promoted, stolen>>

Crash(w) ==
  /\ stack[w] # <<>> /\ Once("faults", MaxFaults)
  /\ stack' = [stack EXCEPT ![w] = <<>>]
  /\ UNCHANGED <<row, queue, told, promoted, stolen>>

-----------------------------------------------------------------------------
(* Recovery (recovery.py).  A frame beats when it records a step; one that  *)
(* waits for a child records none, and its child has 30 minutes to the      *)
(* sweep's 15.                                                              *)

HeartbeatExpires(r) ==
  /\ row[r].status = "running" /\ row[r].beat = "fresh"
  /\ ~ \E w \in Worker : stack[w] # <<>> /\ Top(w).run = r
  /\ row' = [row EXCEPT ![r].beat = "stale"]
  /\ UNCHANGED <<stack, queue, told, promoted, stolen, count>>

RequeueOrphaned(r) ==
  /\ row[r].status = "running" /\ row[r].beat = "stale"
  /\ Once("sweeps", MaxSweeps)
  /\ SetRow(r, "queued", "none")
  /\ queue' = queue \cup {r}
  /\ stolen' = IF Driven(r) THEN stolen \cup {r} ELSE stolen
  /\ UNCHANGED <<stack, told, promoted>>

-----------------------------------------------------------------------------
Init ==
  /\ row = [r \in Run |-> IF r = Root THEN [NoRow EXCEPT !.status = "queued"]
                          ELSE NoRow]
  /\ stack = [w \in Worker |-> <<>>]
  /\ queue = {Root}
  /\ told = [r \in Run |-> "nothing"]
  /\ promoted = {} /\ stolen = {}
  /\ count = [parks |-> 0, sweeps |-> 0, faults |-> 0]

Next ==
  \/ \E w \in Worker :
       \/ \E r \in Run : Take(w, r) \/ Delegate(w, r)
       \/ ClaimChild(w) \/ ChildRaises(w) \/ ReadOutcome(w) \/ Park(w) \/ Crash(w)
       \/ \E s \in Terminal : Finish(w, s)
       \/ \E i \in 1..Cardinality(Run) : TimesOut(w, i)
  \/ \E r \in Run : Decide(r) \/ HeartbeatExpires(r) \/ RequeueOrphaned(r)

Spec == Init /\ [][Next]_vars

-----------------------------------------------------------------------------
(* Properties.                                                             *)

\* The parent of a run, its parent, and so on: the runs that are in every set
\* which holds the parent and, with a run, that run's parent.
Closed(S) == \A s \in S : row[s].parent \in S \cup {NoRun}
Ancestors(r) ==
  {a \in Run : /\ row[r].parent # NoRun
               /\ \A S \in SUBSET Run : row[r].parent \in S /\ Closed(S) => a \in S}

\* The depth limit bounds the tree of runs, except that every child which goes
\* on without its parent may start a tree of the full depth below it: the depth
\* is an argument of the call and is not kept with the run.
TreeIsShallow ==
  \A r \in Run :
    Cardinality(Ancestors(r)) <= MaxDepth * (1 + Cardinality(Ancestors(r) \cap promoted))

\* A model that was told an answer was told the answer of a child that
\* succeeded, and it stays so, whatever became of the child's other drivers:
\* only a child that was stolen may end again.
AnswerIsEarned ==
  \A c \in Run : told[c] = "answer" => row[c].status = "succeeded" \/ c \in stolen

\* "Re-queuing live work is far worse than a late recovery" (recovery.py): the
\* sweep takes no run away from a worker that is driving it.
HealthyRunIsKept == stolen = {}

=============================================================================
