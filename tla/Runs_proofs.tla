----------------------------- MODULE Runs_proofs -----------------------------
(***************************************************************************)
(* Proofs about runs as MCRuns composes them, from what RunLifecycle_proofs  *)
(* shows of every run: the workers implement RunStatus; a run parked behind *)
(* a durable queue can be resumed; a gated call of the inline backend is    *)
(* made once, under its own approval; and of runs that delegate, what a     *)
(* parent hears of a child and how long a line of delegations can get.      *)
(***************************************************************************)
EXTENDS MCRuns, RunLifecycle_proofs, TLAPS

(***************************************************************************)
(* The workers implement the run table that a client is promised.           *)
(***************************************************************************)
Owned(r) == \E t \in Task : Drives(t, r)

\* What a step leaves alone about a run, as a client sees it.
Unmoved(r) ==
  /\ row'[r].status = row[r].status
  /\ Owned(r)' <=> Owned(r)

(***************************************************************************)
(* A cancellation under way is about a run that was submitted.             *)
(***************************************************************************)
CancelInv ==
  \A h \in Handler :
    req[h] \in CancelReq => row[req[h].run].status # "absent"

LEMMA NeverAbsentAgain ==
  ASSUME TypeOK, TaskInv, [Next]_vars, NEW r \in Run,
         row[r].status # "absent"
  PROVE  row'[r].status # "absent"
<1>1. StatusWritten(r)
  BY StatusWriters
<1>2. QED
  BY <1>1 DEF StatusWritten, StatusStays, StatusMoves, Settles, Terminal

LEMMA CancelInvStep ==
  ASSUME TypeOK, TaskInv, CancelInv, [Next]_vars
  PROVE  CancelInv'
<1> SUFFICES ASSUME NEW h \in Handler, req'[h] \in CancelReq
             PROVE  row'[req'[h].run].status # "absent"
  BY DEF CancelInv
<1>1. req \in [Handler -> ReqType] /\ req'[h].run \in Run
  BY DEF TypeOK, CancelReq
<1>2. CASE req'[h] = req[h]
  BY <1>1, <1>2, NeverAbsentAgain DEF CancelInv
<1>3. ASSUME NEW f \in Handler, NEW r \in Run, RequestCancelRead(f, r),
             req'[h] # req[h]
      PROVE  row'[req'[h].run].status # "absent"
  <2>1. req'[h].run = r /\ row' = row /\ row[r].status # "absent"
    BY <1>1, <1>3 DEF RequestCancelRead
  <2>2. QED
    BY <2>1
<1>4. ASSUME NEW f \in Handler, NEW g \in Gate, NEW a \in BOOLEAN,
             DecideApprovalRead(f, g, a), req'[h] # req[h]
      PROVE  FALSE
  <2>1. req'[h] = [op |-> "decide", gate |-> g, approved |-> a]
    BY <1>1, <1>4 DEF DecideApprovalRead
  <2>2. QED
    BY <2>1 DEF CancelReq
<1>5. ASSUME NEW f \in Handler, HandlerStep(f), req'[h] # req[h]
      PROVE  FALSE
  <2>1. req'[h] = NoReq
    BY <1>1, <1>5 DEF HandlerStep, RequestCancelWrite, DecideApprovalWrite
  <2>2. QED
    BY <2>1, NullsAssumption
<1>6. CASE UNCHANGED req
  BY <1>2, <1>6
<1>7. CASE \E t \in Task : TaskStep(t)
  BY <1>6, <1>7 DEF TaskStep, BuildTranscript, ResumeClaim, RunGatedCall,
          RecordGatedCall, RunTool, RecordTool, LoopHead, AnswerTurn,
          ToolTurn, LoopRaises, Finish, FinishFailed, ParkForApproval
<1>8. CASE \/ \E t \in Task : ResumeRaises(t) \/ Crash(t) \/ Escape(t)
           \/ \E j \in queue : TakeJob(j)
  BY <1>6, <1>8 DEF ResumeRaises, Crash, Escape, TakeJob, ExecuteRun,
                    ResumeRead
<1>9. CASE \/ \E r \in Run : SubmitMessage(r) \/ HeartbeatExpires(r)
           \/ \E j \in outbox : Dispatch(j) \/ LoseDispatch(j)
           \/ RequeueOrphanedRuns \/ UNCHANGED vars
  BY <1>6, <1>9 DEF SubmitMessage, HeartbeatExpires, Dispatch,
                    LoseDispatch, RequeueOrphanedRuns, vars
<1>10. QED
  BY <1>2, <1>3, <1>4, <1>5, <1>7, <1>8, <1>9 DEF Next

(***************************************************************************)
(* From rows to the two variables of RunStatus.                            *)
(***************************************************************************)
Statuses == [r \in Run |-> row[r].status]
OwnedRuns == {r \in Run : \E t \in Task : Drives(t, r)}

LEMMA AbstractStutter ==
  ASSUME \A r \in Run : Unmoved(r)
  PROVE  UNCHANGED Lease!vars
<1>1. Statuses' = Statuses
  BY DEF Unmoved, Statuses
<1>2. OwnedRuns' = OwnedRuns
  BY DEF Unmoved, Owned, OwnedRuns
<1>3. QED
  BY <1>1, <1>2 DEF Lease!vars, Statuses, OwnedRuns

\* One run moves: how its new status and owner look in RunStatus.
LEMMA AbstractMove ==
  ASSUME NEW q \in Run, \A r \in Run \ {q} : Unmoved(r)
  PROVE  /\ Statuses' = [Statuses EXCEPT ![q] = row'[q].status]
         /\ ~Owned(q)' => OwnedRuns' = OwnedRuns \ {q}
         /\ Owned(q)' => OwnedRuns' = OwnedRuns \cup {q}
         /\ (Owned(q)' <=> Owned(q)) => OwnedRuns' = OwnedRuns
<1>1. Statuses' = [Statuses EXCEPT ![q] = row'[q].status]
  BY DEF Unmoved, Statuses
<1>2. OwnedRuns = {r \in Run : Owned(r)} /\ OwnedRuns' = {r \in Run : Owned(r)'}
  BY DEF OwnedRuns, Owned
<1>3. \A r \in Run : r # q => (Owned(r)' <=> Owned(r))
  BY DEF Unmoved
<1> HIDE DEF Owned, OwnedRuns
<1>4. QED
  BY <1>1, <1>2, <1>3

(***************************************************************************)
(* Who owns a run after a step.                                            *)
(***************************************************************************)
LEMMA OwnedByOthers ==
  ASSUME TypeOK, NEW u \in Task, NEW v, task' = [task EXCEPT ![u] = v],
         NEW r, ~Drives(u, r), ~Drives(u, r)'
  PROVE  Owned(r)' <=> Owned(r)
<1>1. task \in [Task -> TaskType]
  BY DEF TypeOK
<1>2. \A t \in Task : t # u => (Drives(t, r)' <=> Drives(t, r))
  BY <1>1 DEF Drives
<1>3. QED
  BY <1>2 DEF Owned

\* A task inside the loop that goes on keeps its run and takes no other.
LEMMA GoingOn ==
  ASSUME TypeOK, NEW u \in Task, NEW v, task' = [task EXCEPT ![u] = v],
         task[u].pc \in Driving, v.pc \in Driving, v.job = task[u].job, NEW r
  PROVE  Owned(r)' <=> Owned(r)
<1>1. task \in [Task -> TaskType]
  BY DEF TypeOK
<1>2. \A t \in Task : Drives(t, r)' <=> Drives(t, r)
  BY <1>1 DEF Drives
<1>3. QED
  BY <1>2 DEF Owned

LEMMA GivingUp ==
  ASSUME TypeOK, SingleDriver, NEW u \in Task, Release(u), NEW r \in Run
  PROVE  /\ Drives(u, r) => Owned(r) /\ ~Owned(r)'
         /\ ~Drives(u, r) => (Owned(r)' <=> Owned(r))
<1>1. task \in [Task -> TaskType] /\ IdleTask.pc \notin Driving
  BY DEF TypeOK, IdleTask, Driving
<1>2. task' = [task EXCEPT ![u] = IdleTask] /\ ~Drives(u, r)'
  BY <1>1 DEF Release, Drives
<1>3. ASSUME Drives(u, r), NEW t \in Task, Drives(t, r)'
      PROVE  FALSE
  <2>1. Drives(t, r) /\ t # u
    BY <1>2, <1>3, ReleaseDrives
  <2>2. QED
    BY <1>3, <2>1 DEF SingleDriver
<1>4. QED
  BY <1>2, <1>3, OwnedByOthers DEF Owned

\* A job that no task drives yet; the task starts to drive it, or does not.
LEMMA TakingOn ==
  ASSUME TypeOK, NEW u \in Task, NEW v, task' = [task EXCEPT ![u] = v],
         task[u].pc \notin Driving
  PROVE  /\ v.pc \notin Driving => \A r : Owned(r)' <=> Owned(r)
         /\ \A r : r # v.job.run => (Owned(r)' <=> Owned(r))
         /\ v.pc \in Driving => Owned(v.job.run)'
<1>1. task \in [Task -> TaskType] /\ task'[u] = v
  BY DEF TypeOK
<1>2. \A r : ~Drives(u, r)
  BY DEF Drives
<1>3. \A r : (v.pc \notin Driving \/ r # v.job.run) => ~Drives(u, r)'
  BY <1>1 DEF Drives
<1>4. v.pc \in Driving => Owned(v.job.run)'
  BY <1>1 DEF Owned, Drives
<1>5. QED
  BY <1>2, <1>3, <1>4, OwnedByOthers

LEMMA NobodyElse ==
  ASSUME UNCHANGED task, NEW r
  PROVE  Owned(r)' <=> Owned(r)
BY DEF Owned, Drives

(***************************************************************************)
(* Every step is a step of RunStatus or a stutter.                         *)
(***************************************************************************)
LEMMA AbstractClaim ==
  ASSUME TypeOK, DriverInv, NEW t \in Task, NEW j \in Job,
         NEW from \in {"queued", "awaiting_approval"}, NEW pc \in Driving,
         NEW ck, Claim(t, j, from, pc, ck), task[t].pc \notin Driving
  PROVE  [Lease!Next]_(Lease!vars)
<1> DEFINE q == j.run
           v == [IdleTask EXCEPT !.pc = pc, !.job = j, !.ckpt = ck,
                      !.steps = row[j.run].steps, !.seq = Len(log[j.run])]
<1>1. row \in [Run -> RowType] /\ q \in Run /\ IdleTask.pc \notin Driving
  BY JobRun DEF TypeOK, IdleTask, Driving
<1>2. row[q].status = from => ~Owned(q) /\ row[q].status \in Lease!Waiting
  BY <1>1 DEF Owned, DriverInv, Terminal, Lease!Waiting
<1>3. Release(t) => \A r : Owned(r)' <=> Owned(r)
  BY <1>1, TakingOn DEF Release
<1>4. CASE /\ row[q].status = from
           /\ row' = [row EXCEPT ![q] =
                  [@ EXCEPT !.status = "running", !.ckpt = NoCkpt,
                            !.heartbeat = "fresh"]]
           /\ task' = [task EXCEPT ![t] = v]
  <2>1. v.pc \in Driving /\ v.job.run = q
    BY DEF IdleTask
  <2> HIDE DEF v
  <2>2. Owned(q)' /\ \A r \in Run \ {q} : Unmoved(r)
    BY <1>1, <1>4, <2>1, TakingOn DEF Unmoved
  <2> HIDE DEF q
  <2>3. row'[q].status = "running"
    BY <1>1, <1>4 DEF RowType
  <2>4. /\ Statuses' = [Statuses EXCEPT ![q] = "running"]
        /\ OwnedRuns' = OwnedRuns \cup {q}
    BY <1>1, <2>2, <2>3, AbstractMove
  <2>5. q \notin OwnedRuns /\ Statuses[q] \in Lease!Waiting
    BY <1>1, <1>2, <1>4 DEF OwnedRuns, Owned, Statuses
  <2>6. Lease!Claim(q)
    BY <2>4, <2>5 DEF Lease!Claim, Statuses, OwnedRuns
  <2>7. QED
    BY <1>1, <2>6 DEF Lease!Next
<1>5. CASE /\ row[q].status = from
           /\ row' = [row EXCEPT ![q] =
                  [@ EXCEPT !.status = "failed", !.ckpt = NoCkpt,
                            !.heartbeat = "fresh"]]
           /\ Release(t)
  <2> HIDE DEF v, q
  <2>1. row'[q].status = "failed" /\ (Owned(q)' <=> Owned(q))
        /\ \A r \in Run \ {q} : Unmoved(r)
    BY <1>1, <1>3, <1>5 DEF RowType, Unmoved
  <2>2. Statuses' = [Statuses EXCEPT ![q] = "failed"] /\ OwnedRuns' = OwnedRuns
    BY <1>1, <2>1, AbstractMove
  <2>3. q \notin OwnedRuns /\ Statuses[q] \in Lease!Waiting
    BY <1>1, <1>2, <1>5 DEF OwnedRuns, Owned, Statuses
  <2>4. Lease!Refuse(q)
    BY <2>2, <2>3 DEF Lease!Refuse, Statuses, OwnedRuns
  <2>5. QED
    BY <1>1, <2>4 DEF Lease!Next
<1>6. CASE Release(t) /\ UNCHANGED row
  BY <1>3, <1>6, AbstractStutter DEF Unmoved
<1>7. QED
  BY <1>4, <1>5, <1>6 DEF Claim

\* The owner parks or settles its run and lets it go.
LEMMA AbstractYield ==
  ASSUME TypeOK, SingleDriver, NEW t \in Task, NEW q \in Run, Drives(t, q),
         Release(t), NEW x, row' = [row EXCEPT ![q] = x],
         x.status \in Terminal \cup {"awaiting_approval"}
  PROVE  [Lease!Next]_(Lease!vars)
<1>1. row \in [Run -> RowType]
  BY DEF TypeOK
<1>2. \A r \in Run \ {q} : ~Drives(t, r)
  BY DEF Drives
<1>3. /\ Owned(q) /\ ~Owned(q)'
      /\ \A r \in Run \ {q} : Unmoved(r)
  BY <1>1, <1>2, GivingUp DEF Unmoved
<1>4. /\ Statuses' = [Statuses EXCEPT ![q] = x.status]
      /\ OwnedRuns' = OwnedRuns \ {q}
      /\ q \in OwnedRuns
  <2>1. row'[q] = x
    BY <1>1
  <2>2. q \in OwnedRuns
    BY <1>3 DEF OwnedRuns, Owned
  <2>3. QED
    BY <1>3, <2>1, <2>2, AbstractMove
<1>5. x.status \in Lease!Settled \cup {"awaiting_approval"}
  BY DEF Terminal, Lease!Settled
<1>6. Lease!Yield(q)
  BY <1>4, <1>5 DEF Lease!Yield, Statuses, OwnedRuns
<1>7. QED
  BY <1>6 DEF Lease!Next

\* A task that dies abandons the run it drives, if it drives one.
LEMMA AbstractAbandon ==
  ASSUME TypeOK, SingleDriver, TaskInv, NEW t \in Task, Release(t),
         UNCHANGED row
  PROVE  [Lease!Next]_(Lease!vars)
<1>1. CASE task[t].pc \notin Driving
  <2>1. \A r \in Run : ~Drives(t, r)
    BY <1>1 DEF Drives
  <2>2. \A r \in Run : Unmoved(r)
    BY <2>1, GivingUp DEF Unmoved
  <2>3. QED
    BY <2>2, AbstractStutter
<1>2. CASE task[t].pc \in Driving
  <2>1. task[t].job.run \in Run
    BY <1>2, JobRun DEF TaskInv, TaskOK, Driving
  <2>2. PICK q \in Run : Drives(t, q) /\ \A r \in Run \ {q} : ~Drives(t, r)
    BY <1>2, <2>1 DEF Drives
  <2>3. /\ Owned(q) /\ ~Owned(q)'
        /\ \A r \in Run \ {q} : Unmoved(r)
    BY <2>2, GivingUp DEF Unmoved
  <2>4. Statuses' = Statuses
    BY DEF Statuses
  <2>5. OwnedRuns' = OwnedRuns \ {q}
    BY <2>3, AbstractMove
  <2>6. q \in OwnedRuns
    BY <2>3 DEF OwnedRuns, Owned
  <2>7. Lease!Abandon(q)
    BY <2>4, <2>5, <2>6 DEF Lease!Abandon, Statuses, OwnedRuns
  <2>8. QED
    BY <2>7 DEF Lease!Next
<1>3. QED
  BY <1>1, <1>2

\* The steps of the loop after which the task still drives its run.
LEMMA AbstractLoop ==
  ASSUME TypeOK, NEW t \in Task,
         \/ BuildTranscript(t) \/ RunGatedCall(t) \/ RunTool(t)
         \/ LoopHead(t) \/ RecordGatedCall(t) \/ RecordTool(t)
         \/ AnswerTurn(t) \/ (\E k \in 1..MaxCalls : ToolTurn(t, k))
         \/ LoopRaises(t)
  PROVE  [Lease!Next]_(Lease!vars)
<1>1. task \in [Task -> TaskType] /\ row \in [Run -> RowType]
  BY DEF TypeOK
<1>2. task[t].pc \in Driving
  BY DEF BuildTranscript, RunGatedCall, RunTool, LoopHead, RecordGatedCall,
         RecordTool, AnswerTurn, ToolTurn, LoopRaises, Driving
<1>3. task'[t].pc \in Driving
  <2>1. CASE BuildTranscript(t) \/ RunGatedCall(t) \/ RunTool(t)
    BY <1>1, <2>1 DEF BuildTranscript, RunGatedCall, RunTool, TaskType, Driving
  <2>2. CASE LoopHead(t) \/ LoopRaises(t)
    BY <1>1, <2>2 DEF LoopHead, LoopRaises, Raise, Conclude, TaskType, Driving
  <2>3. CASE \/ RecordGatedCall(t) \/ RecordTool(t) \/ AnswerTurn(t)
             \/ \E k \in 1..MaxCalls : ToolTurn(t, k)
    BY <1>1, <2>3 DEF RecordGatedCall, RecordTool, AnswerTurn, ToolTurn, TaskType,
                      Driving
  <2>4. QED
    BY <2>1, <2>2, <2>3
<1>4. \A r \in Run : Owned(r)' <=> Owned(r)
  <2>1. PICK v : task' = [task EXCEPT ![t] = v] /\ v.job = task[t].job
    BY JobKept DEF LoopRaises
  <2>2. v.pc \in Driving
    BY <1>1, <1>3, <2>1
  <2>3. QED
    BY <1>2, <2>1, <2>2, GoingOn
<1>5. \A r \in Run : row'[r].status = row[r].status
  <2>1. \/ UNCHANGED row
        \/ row' = [row EXCEPT ![task[t].job.run].heartbeat = "fresh"]
    BY DEF BuildTranscript, RunGatedCall, RunTool, LoopHead, RecordGatedCall,
           RecordTool, AnswerTurn, ToolTurn, LoopRaises, RecordStep
  <2>2. QED
    BY <1>1, <2>1 DEF RowType
<1>6. QED
  BY <1>4, <1>5, AbstractStutter DEF Unmoved

LEMMA AbstractTaskStep ==
  ASSUME TypeOK, TaskInv, SingleDriver, DriverInv, MaxBusFails = 0,
         NEW t \in Task, TaskStep(t)
  PROVE  [Lease!Next]_(Lease!vars)
<1> DEFINE q == task[t].job.run
<1>1. task[t].pc # "idle" => task[t].job \in Job /\ q \in Run
  BY JobRun DEF TaskInv, TaskOK
<1>2. CASE ResumeClaim(t)
  <2>1. task[t].pc \notin Driving /\ "gated" \in Driving
    BY <1>2 DEF ResumeClaim, Driving
  <2>2. QED
    BY <1>1, <1>2, <2>1, AbstractClaim DEF ResumeClaim
<1>3. ASSUME NEW g \in Gate, ParkForApproval(t, g)
      PROVE  [Lease!Next]_(Lease!vars)
  <2> DEFINE x == [row[q] EXCEPT !.status = "awaiting_approval",
                      !.steps = task[t].steps,
                      !.ckpt = [gate |-> g, rest |-> task[t].left - 1]]
  <2>1. Release(t) /\ Drives(t, q) /\ q \in Run
    BY <1>1, <1>3, AnnounceReleases DEF ParkForApproval, Drives, Driving
  <2>2. row' = [row EXCEPT ![q] = x]
    BY <1>3 DEF ParkForApproval
  <2>3. x.status = "awaiting_approval"
    BY <2>1 DEF TypeOK, RowType
  <2> HIDE DEF x, q
  <2>4. QED
    BY <2>1, <2>2, <2>3, AbstractYield
<1>4. CASE Finish(t) \/ FinishFailed(t)
  <2> DEFINE x == [row[q] EXCEPT !.status = task[t].outcome,
                      !.ckpt = NoCkpt, !.steps = task[t].steps,
                      !.heartbeat = "none"]
  <2>1. Release(t) /\ Drives(t, q) /\ q \in Run
    BY <1>1, <1>4, AnnounceReleases DEF Finish, FinishFailed, Drives, Driving
  <2>2. row' = [row EXCEPT ![q] = x]
    BY <1>4 DEF Finish, FinishFailed, RecordOutcome
  <2>3. x.status = task[t].outcome /\ task[t].outcome \in Terminal
    BY <1>4, <2>1 DEF TypeOK, RowType, Finish, FinishFailed, TaskInv, TaskOK
  <2> HIDE DEF x, q
  <2>4. QED
    BY <2>1, <2>2, <2>3, AbstractYield
<1>5. QED
  BY <1>2, <1>3, <1>4, AbstractLoop DEF TaskStep

\* A write that only concerns the status of one run, by nobody's task.
LEMMA AbstractWrite ==
  ASSUME TypeOK, UNCHANGED task, NEW q \in Run, NEW x,
         row' = [row EXCEPT ![q] = x]
  PROVE  /\ Statuses' = [Statuses EXCEPT ![q] = x.status]
         /\ OwnedRuns' = OwnedRuns
<1>1. row \in [Run -> RowType] /\ row'[q] = x
  BY DEF TypeOK
<1>2. (Owned(q)' <=> Owned(q)) /\ \A r \in Run \ {q} : Unmoved(r)
  BY <1>1, NobodyElse DEF Unmoved
<1>3. QED
  BY <1>1, <1>2, AbstractMove

LEMMA AbstractCancel ==
  ASSUME TypeOK, CancelInv, NEW h \in Handler, RequestCancelWrite(h)
  PROVE  [Lease!Next]_(Lease!vars)
<1>0. UNCHANGED task
  BY DEF RequestCancelWrite
<1>1. row \in [Run -> RowType] /\ req[h] \in ReqType
  BY DEF TypeOK
<1>2. req[h] \in CancelReq /\ req[h].run \in Run
  BY <1>1 DEF RequestCancelWrite, ReqType, DecideReq, CancelReq
<1>3. PICK q : q = req[h].run /\ q \in Run /\ row[q].status # "absent"
  BY <1>2 DEF CancelInv
<1>4. ASSUME NEW x, row' = [row EXCEPT ![q] = x], x.status = "cancelled"
      PROVE  [Lease!Next]_(Lease!vars)
  <2>1. Statuses' = [Statuses EXCEPT ![q] = "cancelled"]
        /\ OwnedRuns' = OwnedRuns
    BY <1>0, <1>3, <1>4, AbstractWrite
  <2>2. Statuses[q] # "absent"
    BY <1>3 DEF Statuses
  <2>3. Lease!Cancel(q)
    BY <2>1, <2>2 DEF Lease!Cancel, Statuses, OwnedRuns
  <2>4. QED
    BY <1>3, <2>3 DEF Lease!Next
<1>5. CASE row' = [row EXCEPT ![q] =
                     [@ EXCEPT !.cancel = TRUE, !.status = "cancelled"]]
  <2>1. [row[q] EXCEPT !.cancel = TRUE, !.status = "cancelled"].status
          = "cancelled"
    BY <1>1, <1>3 DEF RowType
  <2>2. QED
    BY <1>4, <1>5, <2>1
<1>6. CASE row' = [row EXCEPT ![q] =
                     [@ EXCEPT !.cancel = TRUE, !.status = "cancelled",
                               !.ckpt = NoCkpt]]
  <2>1. [row[q] EXCEPT !.cancel = TRUE, !.status = "cancelled",
                       !.ckpt = NoCkpt].status = "cancelled"
    BY <1>1, <1>3 DEF RowType
  <2>2. QED
    BY <1>4, <1>6, <2>1
<1>7. CASE row' = [row EXCEPT ![q].cancel = TRUE]
  <2>1. \A r \in Run : row'[r].status = row[r].status
    BY <1>1, <1>3, <1>7 DEF RowType
  <2>2. QED
    BY <2>1, NobodyElse, AbstractStutter DEF Unmoved, RequestCancelWrite
<1>8. QED
  BY <1>3, <1>5, <1>6, <1>7 DEF RequestCancelWrite

\* Only runs that nobody drives are requeued: a driver keeps its run's
\* heartbeat fresh.
LEMMA AbstractSweep ==
  ASSUME TypeOK, DriverInv, RequeueOrphanedRuns
  PROVE  [Lease!Next]_(Lease!vars)
<1>1. row \in [Run -> RowType] /\ UNCHANGED task /\ Orphaned \in SUBSET Run
  BY DEF TypeOK, RequeueOrphanedRuns, Orphaned
<1>2. \A r \in Orphaned : row[r].status = "running" /\ r \notin OwnedRuns
  BY DEF Orphaned, OwnedRuns, DriverInv
<1>3. OwnedRuns' = OwnedRuns
  BY <1>1, NobodyElse DEF OwnedRuns, Owned
<1>4. Statuses' = [r \in Run |->
                     IF r \in Orphaned THEN "queued" ELSE Statuses[r]]
  <2>1. \A r \in Run : row'[r].status =
                         IF r \in Orphaned THEN "queued" ELSE row[r].status
    BY <1>1 DEF RequeueOrphanedRuns, RowType
  <2>2. QED
    BY <2>1 DEF Statuses
<1>5. PICK S \in SUBSET Run : S = Orphaned
  BY <1>1
<1>6. Lease!Recover(S)
  BY <1>1, <1>2, <1>3, <1>4, <1>5 DEF Lease!Recover, Statuses, OwnedRuns
<1>7. QED
  BY <1>6 DEF Lease!Next

LEMMA AbstractStep ==
  ASSUME TypeOK, TaskInv, SingleDriver, DriverInv, CancelInv,
         MaxBusFails = 0, [Next]_vars
  PROVE  [Lease!Next]_(Lease!vars)
<1>1. row \in [Run -> RowType]
  BY DEF TypeOK
<1>2. CASE \E t \in Task : TaskStep(t)
  BY <1>2, AbstractTaskStep
<1>3. CASE \E t \in Task : ResumeRaises(t) \/ Crash(t) \/ Escape(t)
  BY <1>3, AbstractAbandon DEF ResumeRaises, Crash, Escape
<1>4. ASSUME NEW j \in queue, TakeJob(j)
      PROVE  [Lease!Next]_(Lease!vars)
  <2>1. PICK t \in Task : ExecuteRun(t, j) \/ ResumeRead(t, j)
    BY <1>4 DEF TakeJob
  <2>2. j \in Job /\ task[t].pc \notin Driving
    BY <2>1 DEF TypeOK, ExecuteRun, ResumeRead, Driving
  <2>3. CASE ExecuteRun(t, j)
    <3>1. "building" \in Driving
      BY DEF Driving
    <3>2. QED
      BY <2>2, <2>3, <3>1, AbstractClaim DEF ExecuteRun
  <2>4. CASE ResumeRead(t, j)
    <3> DEFINE v == [IdleTask EXCEPT !.pc = "reading", !.job = j,
                                     !.ckpt = row[j.run].ckpt]
    <3>1. UNCHANGED row
          /\ (task' = [task EXCEPT ![t] = v] \/ UNCHANGED task)
      BY <2>4 DEF ResumeRead
    <3>2. v.pc \notin Driving
      BY DEF IdleTask, Driving
    <3> HIDE DEF v
    <3>3. \A r \in Run : Unmoved(r)
      BY <2>2, <3>1, <3>2, TakingOn, NobodyElse DEF Unmoved
    <3>4. QED
      BY <3>3, AbstractStutter
  <2>5. QED
    BY <2>1, <2>3, <2>4
<1>5. ASSUME NEW q \in Run, SubmitMessage(q)
      PROVE  [Lease!Next]_(Lease!vars)
  <2> DEFINE x == [row[q] EXCEPT !.status = "queued"]
  <2>1. UNCHANGED task /\ row' = [row EXCEPT ![q] = x]
        /\ row[q].status = "absent"
    BY <1>5 DEF SubmitMessage
  <2>2. x.status = "queued"
    BY <1>1 DEF RowType
  <2> HIDE DEF x
  <2>3. Statuses' = [Statuses EXCEPT ![q] = "queued"] /\ OwnedRuns' = OwnedRuns
    BY <2>1, <2>2, AbstractWrite
  <2>4. Statuses[q] = "absent"
    BY <2>1 DEF Statuses
  <2>5. Lease!Submit(q)
    BY <2>3, <2>4 DEF Lease!Submit, Statuses, OwnedRuns
  <2>6. QED
    BY <2>5 DEF Lease!Next
<1>6. ASSUME NEW q \in Run, HeartbeatExpires(q)
      PROVE  [Lease!Next]_(Lease!vars)
  <2>1. \A r \in Run : row'[r].status = row[r].status
    BY <1>1, <1>6 DEF HeartbeatExpires, RowType
  <2>2. QED
    BY <1>6, <2>1, NobodyElse, AbstractStutter DEF Unmoved, HeartbeatExpires
<1>7. CASE \E h \in Handler : RequestCancelWrite(h)
  BY <1>7, AbstractCancel
<1>8. CASE RequeueOrphanedRuns
  BY <1>8, AbstractSweep
<1>9. CASE \/ \E h \in Handler, q \in Run : RequestCancelRead(h, q)
           \/ \E h \in Handler, g \in Gate, a \in BOOLEAN :
                DecideApprovalRead(h, g, a)
           \/ \E h \in Handler : DecideApprovalWrite(h)
           \/ \E j \in outbox : Dispatch(j) \/ LoseDispatch(j)
           \/ UNCHANGED vars
  <2>1. UNCHANGED <<row, task>>
    BY <1>9 DEF RequestCancelRead, DecideApprovalRead, DecideApprovalWrite,
                Dispatch, LoseDispatch, vars
  <2>2. QED
    BY <2>1, NobodyElse, AbstractStutter DEF Unmoved
<1>10. QED
  BY <1>2, <1>3, <1>4, <1>5, <1>6, <1>7, <1>8, <1>9 DEF Next, HandlerStep

LEMMA AbstractInit == Init => Lease!Init
BY DEF Init, Lease!Init, FreshRow, Drives, IdleTask, Driving

\* The workers implement the run table a client is promised: where no live
\* loop is silent for the fifteen minutes of the sweep and no publish fails
\* after a commit, every claim, pause, outcome, crash, redelivery, sweep and
\* cancellation is a step of RunStatus or none, whatever the number of runs,
\* tasks and faults.  The mapping needs the inductive invariant of OneDriver
\* (a driven run has one driver, a status no claim accepts and a heartbeat the
\* sweep ignores) and that a cancellation is about a submitted run.
THEOREM WorkersImplementRunStatus ==
  ASSUME Timely, MaxBusFails = 0
  PROVE  Spec => ImplementsRunStatus
<1> DEFINE Inv == /\ TypeOK /\ TaskInv /\ GateInv
                  /\ SingleDriver /\ DriverInv /\ CancelInv
<1>1. Init => Inv
  <2>1. Init => TypeOK /\ TaskInv /\ GateInv
    BY BaseInit DEF BaseInv
  <2>2. Init => SingleDriver /\ DriverInv
    BY DEF Init, SingleDriver, DriverInv, Drives, IdleTask, Driving
  <2>3. Init => CancelInv
    BY NullsAssumption DEF Init, CancelInv
  <2>4. QED
    BY <2>1, <2>2, <2>3
<1>2. Inv /\ [Next]_vars => Inv'
  BY TypeStep, TaskInvStep, GateInvStep, SingleDriverStep, DriverInvStep,
     CancelInvStep
<1>3. Inv /\ [Next]_vars => [Lease!Next]_(Lease!vars)
  BY AbstractStep
<1>4. QED
  BY <1>1, <1>2, <1>3, AbstractInit, PTL
     DEF Spec, ImplementsRunStatus, Lease!Spec

(***************************************************************************)
(* A parked run of a durable queue can be resumed.                         *)
(***************************************************************************)
\* A run comes to wait for a human by parking, and waits at the same gate until
\* it is claimed or settled.
LEMMA AwaitingWriters ==
  ASSUME TypeOK, TaskInv, [Next]_vars, NEW r \in Run,
         row'[r].status = "awaiting_approval"
  PROVE  \/ /\ row[r].status = "awaiting_approval"
            /\ row'[r].ckpt = row[r].ckpt
         \/ \E t \in Task, g \in Gate :
              ParkForApproval(t, g) /\ task[t].job.run = r
<1> DEFINE Stays == /\ row[r].status = "awaiting_approval"
                    /\ row'[r].ckpt = row[r].ckpt
<1>1. row \in [Run -> RowType]
  BY DEF TypeOK
<1>2. CASE row'[r] = row[r]
  BY <1>2
<1>3. ASSUME NEW t \in Task, NEW j \in Job, NEW from, NEW pc, NEW ck,
             Claim(t, j, from, pc, ck)
      PROVE  row'[r] = row[r]
  <2>1. j.run \in Run
    BY JobRun
  <2>2. CASE \E s \in {"running", "failed"} :
               row' = [row EXCEPT ![j.run] =
                         [@ EXCEPT !.status = s, !.ckpt = NoCkpt,
                                   !.heartbeat = "fresh"]]
    BY <1>1, <2>1, <2>2 DEF RowType
  <2>3. QED
    BY <1>3, <2>2 DEF Claim
<1>4. CASE \E t \in Task : TaskStep(t)
  <2>1. PICK t \in Task : TaskStep(t)
    BY <1>4
  <2>2. CASE ResumeClaim(t)
    <3>1. task[t].job \in Job
      BY <2>2 DEF ResumeClaim, TaskInv, TaskOK
    <3>2. QED
      BY <1>2, <1>3, <2>2, <3>1 DEF ResumeClaim
  <2>3. CASE \/ BuildTranscript(t) \/ RunGatedCall(t) \/ RunTool(t)
             \/ LoopHead(t) \/ LoopRaises(t)
    BY <1>2, <2>3 DEF BuildTranscript, RunGatedCall, RunTool, LoopHead,
                      LoopRaises
  <2>4. CASE \/ RecordGatedCall(t) \/ RecordTool(t) \/ AnswerTurn(t)
             \/ \E k \in 1..MaxCalls : ToolTurn(t, k)
    <3>1. row' = [row EXCEPT ![task[t].job.run].heartbeat = "fresh"]
      BY <2>4 DEF RecordGatedCall, RecordTool, AnswerTurn, ToolTurn,
                  RecordStep
    <3>2. Stays
      BY <1>1, <3>1 DEF RowType
    <3>3. QED
      BY <3>2
  <2>5. CASE Finish(t) \/ FinishFailed(t)
    <3>1. /\ task[t].outcome \in Terminal
          /\ row' = [row EXCEPT ![task[t].job.run] =
               [@ EXCEPT !.status = task[t].outcome, !.ckpt = NoCkpt,
                         !.steps = task[t].steps, !.heartbeat = "none"]]
      BY <2>5 DEF Finish, FinishFailed, RecordOutcome, TaskInv, TaskOK
    <3>2. row'[r] = row[r]
      BY <1>1, <3>1 DEF RowType, Terminal
    <3>3. QED
      BY <1>2, <3>2
  <2>6. ASSUME NEW g \in Gate, ParkForApproval(t, g)
        PROVE  Stays \/ task[t].job.run = r
    <3>1. row' = [row EXCEPT ![task[t].job.run] =
            [@ EXCEPT !.status = "awaiting_approval", !.steps = task[t].steps,
                      !.ckpt = [gate |-> g, rest |-> task[t].left - 1]]]
      BY <2>6 DEF ParkForApproval
    <3>2. QED
      BY <1>1, <3>1
  <2>7. QED
    BY <2>1, <2>2, <2>3, <2>4, <2>5, <2>6 DEF TaskStep
<1>5. CASE \E t \in Task : ResumeRaises(t) \/ Crash(t) \/ Escape(t)
  BY <1>2, <1>5 DEF ResumeRaises, Crash, Escape
<1>6. CASE \E j \in queue : TakeJob(j)
  <2>1. PICK j \in queue, t \in Task : ExecuteRun(t, j) \/ ResumeRead(t, j)
    BY <1>6 DEF TakeJob
  <2>2. j \in Job
    BY DEF TypeOK
  <2>3. QED
    BY <1>2, <1>3, <2>1, <2>2 DEF ExecuteRun, ResumeRead
<1>7. CASE \E q \in Run : SubmitMessage(q)
  <2>1. PICK q \in Run : row' = [row EXCEPT ![q].status = "queued"]
    BY <1>7 DEF SubmitMessage
  <2>2. row'[r] = row[r]
    BY <1>1, <2>1 DEF RowType
  <2>3. QED
    BY <1>2, <2>2
<1>8. CASE \E q \in Run : HeartbeatExpires(q)
  <2>1. PICK q \in Run : row' = [row EXCEPT ![q].heartbeat = "stale"]
    BY <1>8 DEF HeartbeatExpires
  <2>2. Stays
    BY <1>1, <2>1 DEF RowType
  <2>3. QED
    BY <2>2
<1>9. CASE \E h \in Handler : RequestCancelWrite(h)
  <2>1. PICK h \in Handler : RequestCancelWrite(h)
    BY <1>9
  <2>2. CASE row' = [row EXCEPT ![req[h].run] =
                    [@ EXCEPT !.cancel = TRUE, !.status = "cancelled"]]
    <3>1. row'[r] = row[r]
      BY <1>1, <2>2 DEF RowType
    <3>2. QED
      BY <1>2, <3>1
  <2>3. CASE row' = [row EXCEPT ![req[h].run] =
                    [@ EXCEPT !.cancel = TRUE, !.status = "cancelled",
                              !.ckpt = NoCkpt]]
    <3>1. row'[r] = row[r]
      BY <1>1, <2>3 DEF RowType
    <3>2. QED
      BY <1>2, <3>1
  <2>4. CASE row' = [row EXCEPT ![req[h].run].cancel = TRUE]
    <3>1. Stays
      BY <1>1, <2>4 DEF RowType
    <3>2. QED
      BY <3>1
  <2>5. QED
    BY <2>1, <2>2, <2>3, <2>4 DEF RequestCancelWrite
<1>10. CASE RequeueOrphanedRuns
  <2>1. row'[r] = row[r]
    <3>1. CASE r \in Orphaned
      <4>1. row'[r] = [row[r] EXCEPT !.status = "queued", !.heartbeat = "none"]
        BY <1>10, <3>1 DEF RequeueOrphanedRuns
      <4>2. row[r] \in RowType
        BY <1>1
      <4>3. QED
        BY <4>1, <4>2 DEF RowType
    <3>2. CASE r \notin Orphaned
      BY <1>10, <3>2 DEF RequeueOrphanedRuns
    <3>3. QED
      BY <3>1, <3>2
  <2>2. QED
    BY <1>2, <2>1
<1>11. CASE \/ \E h \in Handler, q \in Run : RequestCancelRead(h, q)
            \/ \E h \in Handler, g \in Gate, a \in BOOLEAN :
                 DecideApprovalRead(h, g, a)
            \/ \E h \in Handler : DecideApprovalWrite(h)
            \/ \E j \in outbox : Dispatch(j) \/ LoseDispatch(j)
            \/ UNCHANGED vars
  BY <1>2, <1>11 DEF RequestCancelRead, DecideApprovalRead,
                     DecideApprovalWrite, Dispatch, LoseDispatch, vars
<1>12. QED
  BY <1>4, <1>5, <1>6, <1>7, <1>8, <1>9, <1>10, <1>11 DEF Next, HandlerStep

\* What would resume a gate before a step, the step taken by one task.
AtTask(g, t) == task[t].pc = "reading" /\ ResumeOf(g, task[t].job)

\* Nothing that could resume the gate a run waits on is used up.
LEMMA ResumableKept ==
  ASSUME BaseInv, Durable, [Next]_vars, faults.lost = 0, faults'.lost = 0,
         NEW r \in Run, row[r].status = "awaiting_approval",
         row'[r].status = "awaiting_approval", row[r].ckpt # NoCkpt,
         NEW g \in Gate, g = row[r].ckpt.gate, Resumable(g)
  PROVE  Resumable(g)'
<1>1. /\ TypeOK /\ TaskInv /\ GateInv
      /\ task \in [Task -> TaskType] /\ appr \in [Gate -> ApprType]
  BY DEF BaseInv, TypeOK
<1>2. NamesGate(r, g)
  BY <1>1 DEF GateInv
<1>3. faults \in [crash: Nat, lost: Nat, bus: Nat] /\ outbox \subseteq Job
      /\ queue \subseteq Job /\ row \in [Run -> RowType]
  BY <1>1 DEF TypeOK
<1>4. faults' # [faults EXCEPT !.lost = @ + 1]
  BY <1>3
<1>5. ASSUME NEW j \in JobsInSystem, j \in Job, ResumeOf(g, j)
      PROVE  j.run = r
  <2>1. j \in ResumeJob
    BY <1>5 DEF ResumeOf, Job, ExecuteJob, ResumeJob
  <2>2. QED
    BY <1>1, <1>2, <1>5, <2>1 DEF GateInv, NamesGate, ResumeOf
<1>6. CASE appr[g].status = "pending" /\ UNCHANGED appr
  BY <1>6 DEF Resumable
<1>7. CASE \E h \in Handler : DecideApprovalWrite(h)
  <2>1. PICK h \in Handler : DecideApprovalWrite(h)
    BY <1>7
  <2>2. UNCHANGED <<task, queue>> /\ outbox \subseteq outbox'
    BY <2>1 DEF DecideApprovalWrite
  <2>3. CASE req[h].gate = g
    <3> DEFINE j == [kind |-> "resume", run |-> appr[g].run, gate |-> g,
                     approved |-> req[h].approved, by |-> h]
    <3>1. j \in outbox' /\ ResumeOf(g, j)
      BY <2>1, <2>3 DEF DecideApprovalWrite, ResumeOf
    <3> HIDE DEF j
    <3>2. QED
      BY <3>1 DEF Resumable
  <2>4. CASE req[h].gate # g
    <3>1. appr'[g] = appr[g]
      BY <1>1, <2>1, <2>4 DEF DecideApprovalWrite
    <3>2. QED
      BY <2>2, <3>1 DEF Resumable
  <2>5. QED
    BY <2>3, <2>4
<1>8. ASSUME NEW t \in Task, NEW f \in Gate, ParkForApproval(t, f)
      PROVE  Resumable(g)'
  <2>1. UNCHANGED <<outbox, queue>> /\ task[t].pc = "calls"
    BY <1>8 DEF ParkForApproval
  <2>2. \A u \in Task : u # t => task'[u] = task[u]
    BY <1>1, <1>8 DEF ParkForApproval, Announce, Release, Raise
  <2>3. appr[g].status = "pending" => appr'[g].status = "pending"
    BY <1>1, <1>8 DEF ParkForApproval
  <2>4. QED
    BY <2>1, <2>2, <2>3 DEF Resumable
<1>9. CASE /\ UNCHANGED appr
           /\ \A j \in outbox \cup queue :
                j \in outbox' \cup queue' \/ ~ResumeOf(g, j)
           /\ \A t \in Task : AtTask(g, t) =>
                task[t] = task'[t] \/ task[t].job \in queue'
  BY <1>9 DEF Resumable, AtTask
<1>10. ASSUME NEW t \in Task, NEW v, task' = [task EXCEPT ![t] = v],
              ~AtTask(g, t), UNCHANGED <<appr, outbox, queue>>
       PROVE  Resumable(g)'
  BY <1>1, <1>9, <1>10
<1>11. CASE \E t \in Task : TaskStep(t)
  <2>1. PICK t \in Task : TaskStep(t)
    BY <1>11
  <2>2. CASE ResumeClaim(t)
    <3>1. \E v : task' = [task EXCEPT ![t] = v]
      BY <2>2 DEF ResumeClaim, Claim, Release
    <3>2. ASSUME AtTask(g, t)
          PROVE  FALSE
      <4>1. task[t].job \in Job /\ task[t].job.run = r
        <5>1. task[t].job \in JobsInSystem /\ task[t].job \in Job
          BY <1>1, <2>2 DEF JobsInSystem, ResumeClaim, TaskInv, TaskOK
        <5>2. QED
          BY <1>5, <3>2, <5>1 DEF AtTask
      <4>2. row'[r].status # "awaiting_approval"
        <5>1. \E s \in {"running", "failed"} :
                row' = [row EXCEPT ![r] =
                          [@ EXCEPT !.status = s, !.ckpt = NoCkpt,
                                    !.heartbeat = "fresh"]]
          BY <2>2, <4>1 DEF ResumeClaim, Claim
        <5>2. QED
          BY <1>3, <5>1 DEF RowType
      <4>3. QED
        BY <4>2
    <3>3. QED
      BY <1>10, <2>2, <3>1, <3>2 DEF ResumeClaim
  <2>3. CASE \/ BuildTranscript(t) \/ RunGatedCall(t) \/ RunTool(t)
             \/ LoopHead(t) \/ LoopRaises(t)
             \/ RecordGatedCall(t) \/ RecordTool(t) \/ AnswerTurn(t)
             \/ \E k \in 1..MaxCalls : ToolTurn(t, k)
    <3>1. UNCHANGED <<appr, outbox, queue>> /\ ~AtTask(g, t)
      BY <2>3 DEF BuildTranscript, RunGatedCall, RunTool, LoopHead,
            LoopRaises, RecordGatedCall, RecordTool, AnswerTurn, ToolTurn,
            AtTask
    <3>2. \E v : task' = [task EXCEPT ![t] = v]
      <4>1. \/ BuildTranscript(t) \/ RunGatedCall(t) \/ RunTool(t)
            \/ LoopHead(t) \/ RecordGatedCall(t) \/ RecordTool(t)
            \/ AnswerTurn(t) \/ (\E k \in 1..MaxCalls : ToolTurn(t, k))
            \/ Raise(t)
        BY <2>3 DEF LoopRaises
      <4>2. QED
        BY <1>1, <4>1, JobKept
    <3>3. QED
      BY <1>10, <3>1, <3>2
  <2>4. CASE Finish(t) \/ FinishFailed(t)
    <3>1. UNCHANGED <<appr, outbox, queue>> /\ ~AtTask(g, t)
      BY <2>4 DEF Finish, FinishFailed, AtTask
    <3>2. \E v : task' = [task EXCEPT ![t] = v]
      BY <2>4 DEF Finish, FinishFailed, Announce, Release, Raise
    <3>3. QED
      BY <1>10, <3>1, <3>2
  <2>5. QED
    BY <1>8, <2>1, <2>2, <2>3, <2>4 DEF TaskStep
<1>12. CASE \E t \in Task : ResumeRaises(t) \/ Crash(t) \/ Escape(t)
  <2>1. PICK t \in Task : ResumeRaises(t) \/ Crash(t) \/ Escape(t)
    BY <1>12
  <2>2. CASE Escape(t)
    <3>1. UNCHANGED <<appr, outbox, queue>> /\ ~AtTask(g, t)
      BY <2>2 DEF Escape, AtTask, Driving
    <3>2. QED
      BY <1>10, <2>2, <3>1 DEF Escape, Release
  <2>3. CASE Crash(t)
    <3>1. /\ UNCHANGED <<appr, outbox>> /\ queue' = queue \cup {task[t].job}
          /\ \A u \in Task : u # t => task'[u] = task[u]
      BY <1>1, <2>3 DEF Crash, Release
    <3>2. QED
      BY <1>9, <3>1
  <2>4. QED
    BY <1>4, <2>1, <2>2, <2>3 DEF ResumeRaises
<1>13. CASE \E j \in queue : TakeJob(j)
  <2>1. PICK j \in queue, t \in Task : ExecuteRun(t, j) \/ ResumeRead(t, j)
    BY <1>13 DEF TakeJob
  <2>2. /\ UNCHANGED <<appr, outbox>> /\ queue' = queue \ {j}
        /\ task[t].pc = "idle"
    BY <2>1 DEF ExecuteRun, ResumeRead
  <2>3. \A u \in Task : u # t => task'[u] = task[u]
    BY <1>1, <2>1 DEF ExecuteRun, ResumeRead, Claim, Release
  <2>4. \A u \in Task : AtTask(g, u) => task'[u] = task[u]
    BY <2>2, <2>3 DEF AtTask
  <2>5. CASE ~ResumeOf(g, j)
    BY <1>9, <2>2, <2>4, <2>5
  <2>6. CASE ResumeOf(g, j)
    <3>1. j \in Job /\ j.run = r /\ ResumeRead(t, j)
      BY <1>3, <1>5, <2>1, <2>6 DEF JobsInSystem, ExecuteRun, ResumeOf
    <3> DEFINE v == [IdleTask EXCEPT !.pc = "reading", !.job = j,
                                     !.ckpt = row[r].ckpt]
    <3>2. task'[t] = v
      BY <1>1, <3>1 DEF ResumeRead
    <3>3. v.pc = "reading" /\ v.job = j
      BY DEF IdleTask
    <3> HIDE DEF v
    <3>4. QED
      BY <2>6, <3>2, <3>3 DEF Resumable
  <2>7. QED
    BY <2>5, <2>6
<1>14. CASE \E j \in outbox : Dispatch(j)
  <2>1. PICK j \in outbox : Dispatch(j)
    BY <1>14
  <2>2. UNCHANGED <<appr, task>> /\ outbox \cup queue \subseteq outbox' \cup queue'
    BY <2>1 DEF Dispatch
  <2>3. QED
    BY <1>9, <2>2
<1>15. CASE UNCHANGED <<appr, task, queue>> /\ outbox \subseteq outbox'
  BY <1>9, <1>15
<1>16. QED
  BY <1>4, <1>7, <1>11, <1>12, <1>13, <1>14, <1>15
     DEF Next, SubmitMessage, HeartbeatExpires, RequestCancelRead,
         DecideApprovalRead, HandlerStep, RequestCancelWrite, LoseDispatch,
         RequeueOrphanedRuns, vars

LEMMA ParkedStep ==
  ASSUME BaseInv, Durable, ParkedIsResumable, [Next]_vars,
         faults.lost = 0, faults'.lost = 0
  PROVE  ParkedIsResumable'
<1> SUFFICES ASSUME NEW r \in Run, row'[r].status = "awaiting_approval"
             PROVE  row'[r].ckpt # NoCkpt /\ Resumable(row[r].ckpt.gate)'
  BY DEF ParkedIsResumable
<1>1. TypeOK /\ TaskInv /\ GateInv
  BY DEF BaseInv
<1>2. row \in [Run -> RowType] /\ appr \in [Gate -> ApprType]
      /\ task \in [Task -> TaskType]
  BY <1>1 DEF TypeOK
<1>3. CASE row[r].status = "awaiting_approval" /\ row'[r].ckpt = row[r].ckpt
  <2>1. row[r].ckpt # NoCkpt /\ Resumable(row[r].ckpt.gate)
    BY <1>3 DEF ParkedIsResumable
  <2>2. row[r].ckpt.gate \in Gate
    BY <1>2, <2>1 DEF RowType, Ckpt
  <2> DEFINE g == row[r].ckpt.gate
  <2>3. PICK f \in Gate : f = row[r].ckpt.gate
    BY <2>2
  <2>4. Resumable(f)'
    BY <1>3, <2>1, <2>3, ResumableKept
  <2>5. row'[r].ckpt.gate = f
    BY <1>3, <2>3
  <2>6. QED
    BY <1>3, <2>1, <2>4, <2>5 DEF Resumable, ResumeOf
<1>4. ASSUME NEW t \in Task, NEW g \in Gate, ParkForApproval(t, g),
             task[t].job.run = r
      PROVE  row'[r].ckpt # NoCkpt /\ Resumable(row[r].ckpt.gate)'
  <2>1. /\ task[t].left \in Nat /\ task[t].left > 0
        /\ row' = [row EXCEPT ![r] =
            [@ EXCEPT !.status = "awaiting_approval", !.steps = task[t].steps,
                      !.ckpt = [gate |-> g, rest |-> task[t].left - 1]]]
    BY <1>2, <1>4 DEF ParkForApproval, TaskType
  <2>2. [gate |-> g, rest |-> task[t].left - 1] \in Ckpt
    BY <2>1 DEF Ckpt
  <2>3. row'[r].ckpt = [gate |-> g, rest |-> task[t].left - 1]
    BY <1>2, <2>1 DEF RowType
  <2>4. appr'[g].status = "pending"
    BY <1>2, <1>4 DEF ParkForApproval
  <2>5. QED
    BY <2>2, <2>3, <2>4, NullsAssumption DEF Resumable
<1>5. QED
  BY <1>1, <1>3, <1>4, AwaitingWriters

\* Where the queue keeps its jobs and no process dies between a commit and the
\* enqueue after it, a run that waits for a human waits on a request that is
\* still to be decided, or whose decision is still on its way: no resume job is
\* used up by a task that does not claim.  The checkpoint, the request and the
\* job that name a gate agree on its run (GateInv), so that a task which gives
\* up a job because its run does not wait gives up nobody else's.
THEOREM ParkedCanBeResumed == Durable => (SpecAll => []KeptRunsAreResumable)
<1> SUFFICES ASSUME Durable PROVE SpecAll => []KeptRunsAreResumable
  OBVIOUS
<1> DEFINE Inv == part = "arq" =>
                    BaseInv /\ faults.lost = 0 /\ ParkedIsResumable
<1>1. InitAll => Inv
  <2>1. Init => BaseInv
    BY BaseInit
  <2>2. Init => faults.lost = 0 /\ ParkedIsResumable
    BY DEF Init, ParkedIsResumable, FreshRow
  <2>3. QED
    BY <2>1, <2>2 DEF InitAll
<1>2. Inv /\ [NextAll]_allVars => Inv'
  <2> SUFFICES ASSUME Inv, [NextAll]_allVars, part' = "arq"
               PROVE  (BaseInv /\ faults.lost = 0 /\ ParkedIsResumable)'
    OBVIOUS
  <2>1. part = "arq"
    BY DEF NextAll, allVars
  <2>2. [Next]_vars /\ faults'.lost = 0
    BY <2>1 DEF NextAll, allVars, Kept, vars
  <2>3. BaseInv'
    BY <2>1, <2>2, BaseStep
  <2>4. ParkedIsResumable'
    BY <2>1, <2>2, ParkedStep
  <2>5. QED
    BY <2>2, <2>3, <2>4
<1>3. Inv => KeptRunsAreResumable
  BY DEF KeptRunsAreResumable
<1>4. QED
  BY <1>1, <1>2, <1>3, PTL DEF SpecAll

(***************************************************************************)
(* Gated calls of the inline backend.                                      *)
(***************************************************************************)
\* A task that may still call tools or park: one whose loop has not failed.
Moves(t, r) == Drives(t, r) /\ task[t].pc # "failing"

Decided(g, a) ==
  appr[g].status = (IF a THEN "approved" ELSE "denied") /\ ran[g] = 0

\* While something can resume a gate, its run waits at that gate or is over ...
OpenWaits ==
  \A r \in Run, g \in Gate : NamesGate(r, g) /\ Resumable(g) =>
    \/ row[r].status \in Terminal
    \/ /\ row[r].status = "awaiting_approval" /\ row[r].ckpt # NoCkpt
       /\ row[r].ckpt.gate = g

\* ... and a run that moves has one driver that moves it and no such gate.
MoversClose ==
  \A r \in Run, t \in Task : Moves(t, r) =>
    /\ row[r].status \in {"running"} \cup Terminal
    /\ \A u \in Task : Moves(u, r) => u = t
    /\ \A g \in Gate : NamesGate(r, g) => ~Resumable(g)

NewHasNoGate ==
  \A r \in Run, g \in Gate :
    row[r].status \in {"absent", "queued"} => ~NamesGate(r, g)

\* A decision is carried by one job, which is in one place until the claim.
Reads(t, g) == task[t].pc = "reading" /\ task[t].job.gate = g
OnePlace ==
  /\ \A j, k \in outbox \cup queue :
       j.kind = "resume" /\ k.kind = "resume" /\ j.gate = k.gate => j = k
  /\ \A j \in outbox : j.kind = "resume" => j \notin queue
  /\ \A j \in outbox \cup queue, t \in Task : j.kind = "resume" => ~Reads(t, j.gate)
  /\ \A t, u \in Task, g \in Gate : Reads(t, g) /\ Reads(u, g) => t = u

\* Until the call is made, the one who carries the decision agrees with the row.
Holding(t) == task[t].pc \in {"reading", "gated"}
Told ==
  /\ \A j \in outbox \cup queue : j.kind = "resume" => Decided(j.gate, j.approved)
  /\ \A t \in Task : Holding(t) =>
       /\ Decided(task[t].job.gate, task[t].job.approved)
       /\ task[t].ckpt.gate = task[t].job.gate

NotYet == \A g \in Gate : appr[g].status \in {"unused", "pending"} => ran[g] = 0

OneDecision ==
  \A h \in Handler : req[h] \in DecideReq => appr[req[h].gate].status = "pending"

\* Hypothesis: no two requests are deciding the same gate.
DecidedOneByOne ==
  \A h, k \in Handler :
    req[h] \in DecideReq /\ req[k] \in DecideReq /\ req[h].gate = req[k].gate
      => h = k

Spent == ApprovalIsPerCall /\ GatedCallRunsOnce

GatesInv ==
  /\ BaseInv /\ OpenWaits /\ MoversClose /\ NewHasNoGate /\ OnePlace /\ Told
  /\ NotYet /\ OneDecision /\ Spent

\* A step that opens nothing, starts nothing and decides nothing.
CalmRows ==
  \A r \in Run : \/ /\ row'[r].status = row[r].status
                    /\ row'[r].ckpt = row[r].ckpt
                 \/ row'[r].status \in Terminal
                 \/ row[r].status = "absent" /\ row'[r].status = "queued"
CalmTasks ==
  \A t \in Task : /\ task'[t].pc \in {"reading", "gated"} => task'[t] = task[t]
                  /\ \A r \in Run : Moves(t, r)' => Moves(t, r)
CalmJobs ==
  \A j \in Job : j.kind = "resume" => /\ j \in outbox' => j \in outbox
                                      /\ j \in queue' => j \in queue
CalmReqs == \A h \in Handler : req'[h] \in DecideReq => req'[h] = req[h]

LEMMA GateTypes ==
  ASSUME BaseInv
  PROVE  /\ row \in [Run -> RowType] /\ task \in [Task -> TaskType]
         /\ appr \in [Gate -> ApprType] /\ outbox \subseteq Job
         /\ queue \subseteq Job /\ req \in [Handler -> ReqType]
         /\ ran \in [Gate -> Nat]
         /\ \A j \in Job : j.kind = "resume" => j \in ResumeJob /\ j.gate \in Gate
         /\ \A j \in outbox \cup queue : j.kind = "resume" =>
              j.gate \in Gate /\ j.run \in Run /\ NamesGate(j.run, j.gate)
         /\ \A t \in Task : Holding(t) =>
              /\ task[t].job \in ResumeJob /\ task[t].job \in Job
              /\ task[t].job.kind = "resume"
              /\ task[t].job.gate \in Gate /\ task[t].job.run \in Run
              /\ NamesGate(task[t].job.run, task[t].job.gate)
<1>1. /\ row \in [Run -> RowType] /\ task \in [Task -> TaskType]
      /\ appr \in [Gate -> ApprType] /\ outbox \subseteq Job
      /\ queue \subseteq Job /\ req \in [Handler -> ReqType]
      /\ ran \in [Gate -> Nat]
  BY DEF BaseInv, TypeOK
<1>2. \A j \in Job : j.kind = "resume" => j \in ResumeJob /\ j.gate \in Gate
  BY DEF Job, ExecuteJob, ResumeJob
<1>3. \A j \in outbox \cup queue : j.kind = "resume" =>
        j.gate \in Gate /\ j.run \in Run /\ NamesGate(j.run, j.gate)
  BY <1>1, <1>2, JobRun DEF BaseInv, GateInv, JobsInSystem
<1>4. ASSUME NEW t \in Task, Holding(t)
      PROVE  /\ task[t].job \in ResumeJob /\ task[t].job \in Job
             /\ task[t].job.kind = "resume"
             /\ task[t].job.gate \in Gate /\ task[t].job.run \in Run
             /\ NamesGate(task[t].job.run, task[t].job.gate)
  <2>1. task[t].job \in ResumeJob /\ task[t].job \in Job
    BY <1>4 DEF BaseInv, TaskInv, TaskOK, Holding
  <2>2. task[t].job \in JobsInSystem
    BY DEF JobsInSystem
  <2>3. NamesGate(task[t].job.run, task[t].job.gate)
    BY <2>1, <2>2 DEF BaseInv, GateInv
  <2>4. QED
    BY <2>1, <2>3 DEF ResumeJob
<1>5. QED
  BY <1>1, <1>2, <1>3, <1>4

\* Nobody carries a decision about a gate that nothing can resume.
LEMMA NoCarrier ==
  ASSUME NEW g, ~Resumable(g)
  PROVE  /\ appr[g].status # "pending"
         /\ \A j \in outbox \cup queue : j.kind = "resume" => j.gate # g
         /\ \A t \in Task : task[t].pc = "reading" /\ task[t].job.kind = "resume"
              => task[t].job.gate # g
BY DEF Resumable, ResumeOf

LEMMA CalmOpens ==
  ASSUME CalmTasks, CalmJobs, UNCHANGED appr, outbox' \cup queue' \subseteq Job,
         NEW g, Resumable(g)'
  PROVE  Resumable(g)
<1>1. CASE appr'[g].status = "pending"
  BY <1>1 DEF Resumable
<1>2. ASSUME NEW j \in outbox' \cup queue', ResumeOf(g, j)
      PROVE  Resumable(g)
  <2>1. j \in outbox \cup queue
    BY <1>2 DEF CalmJobs, ResumeOf
  <2>2. QED
    BY <1>2, <2>1 DEF Resumable
<1>3. ASSUME NEW t \in Task, task'[t].pc = "reading", ResumeOf(g, task'[t].job)
      PROVE  Resumable(g)
  <2>1. task'[t] = task[t]
    BY <1>3 DEF CalmTasks
  <2>2. QED
    BY <1>3, <2>1 DEF Resumable
<1>4. QED
  BY <1>1, <1>2, <1>3 DEF Resumable

LEMMA CalmKeeps ==
  ASSUME GatesInv, BaseInv', CalmRows, CalmTasks, CalmJobs, CalmReqs,
         UNCHANGED <<appr, ran>>
  PROVE  GatesInv'
<1>1. outbox' \cup queue' \subseteq Job
  BY GateTypes DEF BaseInv, TypeOK
<1>2. \A g : Resumable(g)' => Resumable(g)
  BY <1>1, CalmOpens
<1>3. \A r, g : NamesGate(r, g)' <=> NamesGate(r, g)
  BY DEF NamesGate
<1>4. \A g, a : Decided(g, a)' <=> Decided(g, a)
  BY DEF Decided
<1>5. OpenWaits'
  BY <1>2, <1>3 DEF GatesInv, OpenWaits, CalmRows, Terminal
<1>6. MoversClose'
  BY <1>2, <1>3 DEF GatesInv, MoversClose, CalmRows, CalmTasks, Terminal
<1>7. NewHasNoGate'
  BY <1>3 DEF GatesInv, NewHasNoGate, CalmRows, Terminal
<1>8. \A j \in outbox' \cup queue' : j.kind = "resume" => j \in outbox \cup queue
  BY <1>1 DEF CalmJobs
<1>9. \A g : \A t \in Task : Reads(t, g)' => Reads(t, g)
  BY DEF CalmTasks, Reads
<1>10. OnePlace'
  BY <1>1, <1>8, <1>9 DEF GatesInv, OnePlace, CalmJobs
<1>11. Told'
  BY <1>4, <1>8 DEF GatesInv, Told, CalmTasks, Holding
<1>12. NotYet' /\ Spent'
  BY DEF GatesInv, NotYet, Spent, ApprovalIsPerCall, GatedCallRunsOnce
<1>13. OneDecision'
  BY DEF GatesInv, OneDecision, CalmReqs
<1>14. QED
  BY <1>5, <1>6, <1>7, <1>10, <1>11, <1>12, <1>13 DEF GatesInv

(* The steps that are calm. *)
LEMMA OneTaskCalm ==
  ASSUME BaseInv, NEW t \in Task, NEW v, task' = [task EXCEPT ![t] = v],
         v.pc \notin {"reading", "gated"},
         v.pc \in Driving /\ v.pc # "failing" =>
           /\ task[t].pc \in Driving /\ task[t].pc # "failing"
           /\ v.job = task[t].job
  PROVE  CalmTasks
<1>1. task \in [Task -> TaskType]
  BY GateTypes
<1>2. task'[t] = v /\ \A u \in Task : u # t => task'[u] = task[u]
  BY <1>1
<1>3. QED
  BY <1>2 DEF CalmTasks, Moves, Drives

LEMMA ReleaseCalm ==
  ASSUME BaseInv, NEW t \in Task, Release(t)
  PROVE  CalmTasks
<1>1. IdleTask.pc \notin {"reading", "gated"} /\ IdleTask.pc \notin Driving
  BY DEF IdleTask, Driving
<1>2. QED
  BY <1>1, OneTaskCalm DEF Release

LEMMA RaiseCalm ==
  ASSUME BaseInv, NEW t \in Task, Raise(t)
  PROVE  CalmTasks
<1>1. task[t] \in TaskType
  BY GateTypes
<1> DEFINE v == [task[t] EXCEPT !.pc = "failing", !.outcome = "failed"]
<1>2. v.pc = "failing"
  BY <1>1 DEF TaskType
<1>3. task' = [task EXCEPT ![t] = v]
  BY DEF Raise
<1> HIDE DEF v
<1>4. QED
  BY <1>2, <1>3, OneTaskCalm

LEMMA StillCalm ==
  /\ UNCHANGED row => CalmRows
  /\ UNCHANGED task => CalmTasks
  /\ UNCHANGED <<outbox, queue>> => CalmJobs
  /\ UNCHANGED req => CalmReqs
BY DEF CalmRows, CalmTasks, CalmJobs, CalmReqs, Moves, Drives

\* The loop between its claim and its end.
Loops(t) ==
  \/ BuildTranscript(t) \/ RunTool(t) \/ LoopHead(t) \/ LoopRaises(t)
  \/ RecordGatedCall(t) \/ RecordTool(t) \/ AnswerTurn(t)
  \/ \E k \in 1..MaxCalls : ToolTurn(t, k)

LEMMA LoopsCalm ==
  ASSUME GatesInv, BaseInv', NEW t \in Task, Loops(t)
  PROVE  GatesInv'
<1>1. BaseInv /\ task[t] \in TaskType /\ row \in [Run -> RowType]
  BY GateTypes DEF GatesInv
<1>2. UNCHANGED <<appr, ran, outbox, queue, req>>
  BY DEF Loops, BuildTranscript, RunTool, LoopHead, LoopRaises,
         RecordGatedCall, RecordTool, AnswerTurn, ToolTurn
<1>3. CalmRows
  <2>1. CASE UNCHANGED row
    BY <2>1, StillCalm
  <2>2. CASE row' = [row EXCEPT ![task[t].job.run].heartbeat = "fresh"]
    BY <1>1, <2>2 DEF CalmRows, RowType
  <2>3. QED
    BY <2>1, <2>2 DEF Loops, BuildTranscript, RunTool, LoopHead, LoopRaises,
         RecordGatedCall, RecordTool, AnswerTurn, ToolTurn, RecordStep
<1>4. task \in [Task -> TaskType]
  BY <1>1, GateTypes
<1>5. CalmTasks
  <2>1. CASE LoopRaises(t)
    BY <1>1, <2>1, RaiseCalm DEF LoopRaises
  <2>2. ASSUME NEW v, task' = [task EXCEPT ![t] = v], v.job = task[t].job,
               v.pc \in {"calls", "callDone", "turn", "finishing"},
               task[t].pc \in Driving, task[t].pc # "failing"
        PROVE  CalmTasks
    BY <1>1, <2>2, OneTaskCalm
  <2>3. CASE BuildTranscript(t)
    <3>1. /\ task' = [task EXCEPT ![t] = [task[t] EXCEPT !.pc = "calls"]]
          /\ task[t].pc = "building"
      BY <2>3 DEF BuildTranscript
    <3>2. /\ [task[t] EXCEPT !.pc = "calls"].job = task[t].job
          /\ [task[t] EXCEPT !.pc = "calls"].pc = "calls"
      BY <1>1 DEF TaskType
    <3>3. QED
      BY <2>2, <3>1, <3>2 DEF Driving
  <2>4. CASE RunTool(t) \/ RecordTool(t)
    <3>1. PICK v : /\ task' = [task EXCEPT ![t] = v] /\ v.job = task[t].job
                   /\ v.pc \in {"calls", "callDone"}
      BY <1>1, <2>4 DEF RunTool, RecordTool, TaskType
    <3>2. task[t].pc \in {"calls", "callDone"}
      BY <2>4 DEF RunTool, RecordTool
    <3>3. QED
      BY <2>2, <3>1, <3>2 DEF Driving
  <2>5. CASE LoopHead(t)
    <3>1. PICK v : task' = [task EXCEPT ![t] = v] /\ v.job = task[t].job
      BY <1>1, <2>5, JobKept DEF BaseInv
    <3>2. v = task'[t]
      BY <1>4, <3>1
    <3>3. task'[t].pc \in {"turn", "finishing"} /\ task[t].pc = "calls"
      <4> DEFINE a == [task[t] EXCEPT !.pc = "turn"]
                 b == [task[t] EXCEPT !.pc = "finishing", !.outcome = "failed"]
                 c == [task[t] EXCEPT !.pc = "finishing", !.outcome = "cancelled"]
      <4>1. \/ task' = [task EXCEPT ![t] = a] \/ task' = [task EXCEPT ![t] = b]
            \/ task' = [task EXCEPT ![t] = c]
        BY <2>5 DEF LoopHead, Conclude
      <4>2. a.pc = "turn" /\ b.pc = "finishing" /\ c.pc = "finishing"
        BY <1>1 DEF TaskType
      <4> HIDE DEF a, b, c
      <4>3. QED
        BY <1>4, <2>5, <4>1, <4>2 DEF LoopHead
    <3>4. QED
      BY <2>2, <3>1, <3>2, <3>3 DEF Driving
  <2>6. CASE RecordGatedCall(t)
    <3>1. PICK v : task' = [task EXCEPT ![t] = v] /\ v.job = task[t].job
      BY <1>1, <2>6, JobKept DEF BaseInv
    <3>2. v = task'[t]
      BY <1>4, <3>1
    <3>3. task'[t].pc = "calls" /\ task[t].pc = "gatedDone"
      BY <1>1, <1>4, <2>6 DEF RecordGatedCall, TaskType
    <3>4. QED
      BY <2>2, <3>1, <3>2, <3>3 DEF Driving
  <2>7. CASE AnswerTurn(t) \/ \E k \in 1..MaxCalls : ToolTurn(t, k)
    <3>1. PICK v : task' = [task EXCEPT ![t] = v] /\ v.job = task[t].job
      BY <1>1, <2>7, JobKept DEF BaseInv
    <3>2. v = task'[t]
      BY <1>4, <3>1
    <3>3. task'[t].pc \in {"calls", "finishing"} /\ task[t].pc = "turn"
      <4>1. CASE AnswerTurn(t)
        BY <1>1, <1>4, <4>1 DEF AnswerTurn, TaskType
      <4>2. CASE \E k \in 1..MaxCalls : ToolTurn(t, k)
        BY <1>1, <1>4, <4>2 DEF ToolTurn, TaskType
      <4>3. QED
        BY <2>7, <4>1, <4>2
    <3>4. QED
      BY <2>2, <3>1, <3>2, <3>3 DEF Driving
  <2>8. QED
    BY <2>1, <2>3, <2>4, <2>5, <2>6, <2>7 DEF Loops
<1>6. QED
  BY <1>2, <1>3, <1>5, StillCalm, CalmKeeps

LEMMA EndsCalm ==
  ASSUME GatesInv, BaseInv', NEW t \in Task, Finish(t) \/ FinishFailed(t)
  PROVE  GatesInv'
<1>1. BaseInv /\ row \in [Run -> RowType]
  BY GateTypes DEF GatesInv
<1>2. UNCHANGED <<appr, ran, outbox, queue, req>>
  BY DEF Finish, FinishFailed
<1>3. Release(t) \/ Raise(t)
  BY DEF Finish, FinishFailed, Announce
<1>4. /\ task[t].outcome \in Terminal
      /\ row' = [row EXCEPT ![task[t].job.run] =
           [@ EXCEPT !.status = task[t].outcome, !.ckpt = NoCkpt,
                     !.steps = task[t].steps, !.heartbeat = "none"]]
  BY <1>1 DEF Finish, FinishFailed, RecordOutcome, BaseInv, TaskInv, TaskOK
<1>5. CalmRows
  BY <1>1, <1>4 DEF CalmRows, RowType
<1>6. CalmTasks
  BY <1>1, <1>3, ReleaseCalm, RaiseCalm
<1>7. QED
  BY <1>2, <1>5, <1>6, StillCalm, CalmKeeps

\* A task that lets its job go, for whatever reason.
LetGo(t) ==
  Release(t) /\ UNCHANGED <<row, log, appr, answers, outbox, queue, req, ran, requeues>>

LEMMA LetGoCalm ==
  ASSUME GatesInv, BaseInv', NEW t \in Task, LetGo(t)
  PROVE  GatesInv'
<1>1. CalmTasks
  BY ReleaseCalm DEF LetGo, GatesInv
<1>2. QED
  BY <1>1, StillCalm, CalmKeeps DEF LetGo

\* Submitting, cancelling, the passing of time and the loss of a job.
LEMMA OthersCalm ==
  ASSUME GatesInv, BaseInv',
         \/ \E r \in Run : SubmitMessage(r) \/ HeartbeatExpires(r)
         \/ \E h \in Handler, r \in Run : RequestCancelRead(h, r)
         \/ \E h \in Handler : RequestCancelWrite(h)
         \/ \E j \in outbox : LoseDispatch(j)
         \/ UNCHANGED vars
  PROVE  GatesInv'
<1>1. BaseInv /\ row \in [Run -> RowType] /\ req \in [Handler -> ReqType]
  BY GateTypes DEF GatesInv
<1>2. UNCHANGED <<appr, ran, task>>
  BY DEF SubmitMessage, HeartbeatExpires, RequestCancelRead, RequestCancelWrite,
         LoseDispatch, vars
<1>3. CASE \E r \in Run : SubmitMessage(r)
  <2>1. PICK r \in Run : SubmitMessage(r)
    BY <1>3
  <2>2. CalmRows
    BY <1>1, <2>1 DEF SubmitMessage, CalmRows, RowType
  <2>3. CalmJobs
    BY <2>1 DEF SubmitMessage, CalmJobs
  <2>4. UNCHANGED req
    BY <2>1 DEF SubmitMessage
  <2>5. QED
    BY <1>2, <2>2, <2>3, <2>4, StillCalm, CalmKeeps
<1>4. CASE \E r \in Run : HeartbeatExpires(r)
  <2>1. PICK r \in Run : HeartbeatExpires(r)
    BY <1>4
  <2>2. CalmRows
    BY <1>1, <2>1 DEF HeartbeatExpires, CalmRows, RowType
  <2>3. UNCHANGED <<outbox, queue, req>>
    BY <2>1 DEF HeartbeatExpires
  <2>4. QED
    BY <1>2, <2>2, <2>3, StillCalm, CalmKeeps
<1>5. CASE \E h \in Handler, r \in Run : RequestCancelRead(h, r)
  <2>1. PICK h \in Handler, r \in Run : RequestCancelRead(h, r)
    BY <1>5
  <2>2. CalmReqs
    BY <1>1, <2>1 DEF RequestCancelRead, CalmReqs, DecideReq
  <2>3. UNCHANGED <<outbox, queue, row>>
    BY <2>1 DEF RequestCancelRead
  <2>4. QED
    BY <1>2, <2>2, <2>3, StillCalm, CalmKeeps
<1>6. CASE \E h \in Handler : RequestCancelWrite(h)
  <2>1. PICK h \in Handler : RequestCancelWrite(h)
    BY <1>6
  <2>2. CalmReqs
    BY <1>1, <2>1, NullsAssumption DEF RequestCancelWrite, CalmReqs
  <2>3. UNCHANGED <<outbox, queue>>
    BY <2>1 DEF RequestCancelWrite
  <2>4. CalmRows
    <3>1. CASE row' = [row EXCEPT ![req[h].run] =
                 [@ EXCEPT !.cancel = TRUE, !.status = "cancelled"]]
      BY <1>1, <3>1 DEF CalmRows, RowType, Terminal
    <3>2. CASE row' = [row EXCEPT ![req[h].run] =
                 [@ EXCEPT !.cancel = TRUE, !.status = "cancelled",
                           !.ckpt = NoCkpt]]
      BY <1>1, <3>2 DEF CalmRows, RowType, Terminal
    <3>3. CASE row' = [row EXCEPT ![req[h].run].cancel = TRUE]
      BY <1>1, <3>3 DEF CalmRows, RowType
    <3>4. QED
      BY <2>1, <3>1, <3>2, <3>3 DEF RequestCancelWrite
  <2>5. QED
    BY <1>2, <2>2, <2>3, <2>4, StillCalm, CalmKeeps
<1>7. CASE \E j \in outbox : LoseDispatch(j)
  <2>1. CalmJobs /\ UNCHANGED <<row, req>>
    BY <1>7 DEF LoseDispatch, CalmJobs
  <2>2. QED
    BY <1>2, <2>1, StillCalm, CalmKeeps
<1>8. CASE UNCHANGED vars
  <2>1. UNCHANGED <<row, req, outbox, queue>>
    BY <1>8 DEF vars
  <2>2. QED
    BY <1>2, <2>1, StillCalm, CalmKeeps
<1>9. QED
  BY <1>3, <1>4, <1>5, <1>6, <1>7, <1>8

(* The steps that open a gate, carry its decision or make its call. *)
LEMMA DecideReadKeeps ==
  ASSUME GatesInv, BaseInv', NEW h \in Handler, NEW g \in Gate, NEW a \in BOOLEAN,
         DecideApprovalRead(h, g, a)
  PROVE  GatesInv'
<1>1. /\ req \in [Handler -> ReqType] /\ appr[g].status = "pending"
      /\ req' = [req EXCEPT ![h] = [op |-> "decide", gate |-> g, approved |-> a]]
      /\ UNCHANGED <<row, appr, outbox, queue, task, ran>>
  BY GateTypes DEF GatesInv, DecideApprovalRead
<1>2. OneDecision'
  BY <1>1 DEF GatesInv, OneDecision
<1>3. OpenWaits' /\ MoversClose' /\ NewHasNoGate'
  BY <1>1 DEF GatesInv, OpenWaits, MoversClose, NewHasNoGate, Resumable, NamesGate,
              Moves, Drives
<1>4. OnePlace' /\ Told' /\ NotYet' /\ Spent'
  BY <1>1 DEF GatesInv, OnePlace, Told, NotYet, Spent, Reads, Holding, Decided,
              ApprovalIsPerCall, GatedCallRunsOnce
<1>5. QED
  BY <1>2, <1>3, <1>4 DEF GatesInv

LEMMA DispatchKeeps ==
  ASSUME GatesInv, BaseInv', NEW j \in outbox, Dispatch(j)
  PROVE  GatesInv'
<1>1. /\ outbox' = outbox \ {j} /\ queue' = queue \cup {j}
      /\ UNCHANGED <<row, appr, task, req, ran>>
  BY DEF Dispatch
<1>2. outbox' \cup queue' = outbox \cup queue
  BY <1>1
<1>3. \A g : Resumable(g)' <=> Resumable(g)
  BY <1>1, <1>2 DEF Resumable
<1>4. OpenWaits' /\ MoversClose' /\ NewHasNoGate'
  BY <1>1, <1>3 DEF GatesInv, OpenWaits, MoversClose, NewHasNoGate, NamesGate,
                    Moves, Drives
<1>5. OnePlace'
  BY <1>1, <1>2 DEF GatesInv, OnePlace, Reads
<1>6. Told' /\ NotYet' /\ Spent' /\ OneDecision'
  BY <1>1, <1>2 DEF GatesInv, Told, NotYet, Spent, Holding, Decided, OneDecision,
              ApprovalIsPerCall, GatedCallRunsOnce
<1>7. QED
  BY <1>4, <1>5, <1>6 DEF GatesInv

\* No two decisions of one gate at a time: one that was read is still to be made.
LEMMA DecideWriteKeeps ==
  ASSUME GatesInv, BaseInv', DecidedOneByOne,
         NEW h \in Handler, DecideApprovalWrite(h)
  PROVE  GatesInv'
<1>1. BaseInv /\ appr \in [Gate -> ApprType] /\ req \in [Handler -> ReqType]
  BY GateTypes DEF GatesInv
<1>2. req[h] \in DecideReq /\ req[h].gate \in Gate
  BY <1>1, DecideNames DEF BaseInv
<1>3. PICK g \in Gate : g = req[h].gate
  BY <1>2
<1>4. PICK a \in BOOLEAN : a = req[h].approved
  BY <1>2 DEF DecideReq
<1>5. PICK j : j = [kind |-> "resume", run |-> appr[g].run, gate |-> g,
                    approved |-> a, by |-> h]
  OBVIOUS
<1>6. j.kind = "resume" /\ j.gate = g /\ j.approved = a
  BY <1>5
<1>7. /\ appr' = [appr EXCEPT ![g].status = IF a THEN "approved" ELSE "denied"]
      /\ outbox' = outbox \cup {j} /\ req' = [req EXCEPT ![h] = NoReq]
      /\ UNCHANGED <<row, queue, task, ran>>
  BY <1>3, <1>4, <1>5 DEF DecideApprovalWrite
<1>8. appr[g].status = "pending" /\ ran[g] = 0
  BY <1>2, <1>3 DEF GatesInv, OneDecision, NotYet
<1>9. /\ appr'[g].status = (IF a THEN "approved" ELSE "denied")
      /\ appr'[g].run = appr[g].run
      /\ \A f \in Gate : f # g => appr'[f] = appr[f]
  BY <1>1, <1>7 DEF ApprType
<1>10. /\ \A k \in outbox \cup queue : k.kind = "resume" => k.gate # g
       /\ \A t \in Task : Holding(t) => task[t].job.gate # g
  BY <1>8 DEF GatesInv, Told, Decided
<1>11. \A f \in Gate : Resumable(f)' => Resumable(f)
  <2> SUFFICES ASSUME NEW f \in Gate, f # g, Resumable(f)' PROVE Resumable(f)
    BY <1>8 DEF Resumable
  <2>1. \A k \in outbox' \cup queue' : ResumeOf(f, k) => k \in outbox \cup queue
    BY <1>6, <1>7 DEF ResumeOf
  <2>2. QED
    BY <1>7, <1>9, <2>1 DEF Resumable
<1>12. \A r \in Run, f \in Gate : NamesGate(r, f)' <=> NamesGate(r, f)
  BY <1>8, <1>9 DEF NamesGate
<1>13. OpenWaits' /\ MoversClose' /\ NewHasNoGate'
  BY <1>7, <1>11, <1>12 DEF GatesInv, OpenWaits, MoversClose, NewHasNoGate,
                            Moves, Drives
<1>14. \A f \in Gate : \A b : f # g => (Decided(f, b)' <=> Decided(f, b))
  BY <1>7, <1>9 DEF Decided
<1>15. Decided(g, a)'
  BY <1>7, <1>8, <1>9 DEF Decided
<1>16. OnePlace'
  BY <1>6, <1>7, <1>10 DEF GatesInv, OnePlace, Reads, Holding
<1>17. Told'
  <2>1. \A k \in outbox \cup queue : k.kind = "resume" => k.gate \in Gate
    BY <1>1, GateTypes
  <2>2. \A t \in Task : Holding(t) => task[t].job.gate \in Gate
    BY <1>1, GateTypes
  <2>3. ASSUME NEW k \in outbox' \cup queue', k.kind = "resume"
        PROVE  Decided(k.gate, k.approved)'
    <3>1. CASE k = j
      BY <1>6, <1>15, <3>1
    <3>2. CASE k \in outbox \cup queue
      <4>1. PICK f \in Gate : f = k.gate
        BY <2>1, <2>3, <3>2
      <4>2. PICK b : b = k.approved
        OBVIOUS
      <4>3. Decided(f, b) /\ f # g
        BY <1>10, <2>3, <3>2, <4>1, <4>2 DEF GatesInv, Told
      <4>4. Decided(f, b)'
        BY <1>14, <4>3
      <4>5. QED
        BY <4>1, <4>2, <4>4
    <3>3. QED
      BY <1>7, <3>1, <3>2
  <2>4. ASSUME NEW t \in Task, Holding(t)'
        PROVE  /\ Decided(task[t].job.gate, task[t].job.approved)'
               /\ task'[t].ckpt.gate = task'[t].job.gate
    <3>1. Holding(t) /\ task'[t] = task[t]
      BY <1>7, <2>4 DEF Holding
    <3>2. PICK f \in Gate : f = task[t].job.gate
      BY <2>2, <3>1
    <3>3. PICK b : b = task[t].job.approved
      OBVIOUS
    <3>4. Decided(f, b) /\ f # g /\ task[t].ckpt.gate = f
      BY <1>10, <3>1, <3>2, <3>3 DEF GatesInv, Told
    <3>5. Decided(f, b)'
      BY <1>14, <3>4
    <3>6. QED
      BY <1>7, <3>2, <3>3, <3>4, <3>5 DEF Decided
  <2>5. QED
    BY <1>7, <2>3, <2>4 DEF Told
<1>18. NotYet' /\ Spent'
  <2>1. NotYet'
    BY <1>7, <1>8, <1>9 DEF GatesInv, NotYet
  <2>2. Spent'
    BY <1>7, <1>8, <1>9 DEF GatesInv, Spent, ApprovalIsPerCall, GatedCallRunsOnce
  <2>3. QED
    BY <2>1, <2>2
<1>19. OneDecision'
  <2> SUFFICES ASSUME NEW k \in Handler, req'[k] \in DecideReq
               PROVE  appr'[req'[k].gate].status = "pending"
    BY DEF OneDecision
  <2>1. k # h /\ req'[k] = req[k]
    BY <1>1, <1>7, NullsAssumption
  <2>2. PICK f \in Gate : f = req[k].gate
    BY <2>1 DEF DecideReq
  <2>3. f # g
    BY <1>2, <1>3, <2>1, <2>2 DEF DecidedOneByOne
  <2>4. appr[f].status = "pending"
    BY <2>1, <2>2 DEF GatesInv, OneDecision
  <2>5. QED
    BY <1>9, <2>1, <2>2, <2>3, <2>4
<1>20. QED
  BY <1>13, <1>16, <1>17, <1>18, <1>19 DEF GatesInv

\* A run is claimed from the queue.
LEMMA ExecuteKeeps ==
  ASSUME GatesInv, BaseInv', NEW t \in Task, NEW j \in queue, ExecuteRun(t, j)
  PROVE  GatesInv'
<1>1. /\ BaseInv /\ row \in [Run -> RowType] /\ task \in [Task -> TaskType]
      /\ j \in Job /\ j.run \in Run
  BY GateTypes, JobRun DEF GatesInv
<1>2. /\ j.kind = "execute" /\ queue' = queue \ {j}
      /\ UNCHANGED <<appr, outbox, req, ran>>
      /\ Claim(t, j, "queued", "building", NoCkpt)
  BY DEF ExecuteRun
<1>3. CalmJobs /\ CalmReqs
  BY <1>2 DEF CalmJobs, CalmReqs
<1>4. CASE /\ Release(t)
           /\ \/ UNCHANGED row
              \/ row' = [row EXCEPT ![j.run] =
                   [@ EXCEPT !.status = "failed", !.ckpt = NoCkpt,
                             !.heartbeat = "fresh"]]
  <2>1. CalmRows
    BY <1>1, <1>4, StillCalm DEF CalmRows, RowType, Terminal
  <2>2. CalmTasks
    BY <1>1, <1>4, ReleaseCalm
  <2>3. QED
    BY <1>2, <1>3, <2>1, <2>2, CalmKeeps
<1>5. CASE /\ row[j.run].status = "queued"
           /\ row' = [row EXCEPT ![j.run] =
                  [@ EXCEPT !.status = "running", !.ckpt = NoCkpt,
                            !.heartbeat = "fresh"]]
           /\ task' = [task EXCEPT ![t] =
                   [IdleTask EXCEPT !.pc = "building", !.job = j, !.ckpt = NoCkpt,
                      !.steps = row[j.run].steps, !.seq = Len(log[j.run])]]
  <2>1. PICK r \in Run : r = j.run
    BY <1>1
  <2>2. /\ row[r].status = "queued" /\ row'[r].status = "running"
        /\ \A q \in Run : q # r => row'[q] = row[q]
    BY <1>1, <1>5, <2>1 DEF RowType
  <2>3. /\ task'[t].pc = "building" /\ task'[t].job.run = r
        /\ \A u \in Task : u # t => task'[u] = task[u]
    BY <1>1, <1>5, <2>1 DEF IdleTask
  <2>4. /\ \A u \in Task : ~Moves(u, r)
        /\ \A g \in Gate : ~NamesGate(r, g)
    BY <2>2 DEF GatesInv, MoversClose, NewHasNoGate, Terminal
  <2>5. \A u \in Task, q \in Run : Moves(u, q)' => Moves(u, q) \/ (u = t /\ q = r)
    BY <2>3 DEF Moves, Drives
  <2>6. /\ \A u \in Task : Holding(u)' => Holding(u) /\ task'[u] = task[u]
        /\ \A g : \A u \in Task : Reads(u, g)' => Reads(u, g)
    BY <2>3 DEF Holding, Reads
  <2>7. \A k \in outbox' \cup queue' : k \in outbox \cup queue
    BY <1>2
  <2>8. \A g : Resumable(g)' => Resumable(g)
    BY <1>2, <2>3, <2>7 DEF Resumable
  <2>9. \A q, g : NamesGate(q, g)' <=> NamesGate(q, g)
    BY <1>2 DEF NamesGate
  <2>10. OpenWaits'
    BY <2>2, <2>4, <2>8, <2>9 DEF GatesInv, OpenWaits
  <2>11. MoversClose'
    BY <2>2, <2>4, <2>5, <2>8, <2>9 DEF GatesInv, MoversClose
  <2>12. NewHasNoGate'
    BY <2>2, <2>9 DEF GatesInv, NewHasNoGate
  <2>13. OnePlace'
    BY <1>2, <2>6, <2>7 DEF GatesInv, OnePlace
  <2>14. Told'
    BY <1>2, <2>6, <2>7 DEF GatesInv, Told, Decided
  <2>15. NotYet' /\ Spent' /\ OneDecision'
    BY <1>2 DEF GatesInv, NotYet, Spent, OneDecision, ApprovalIsPerCall,
                GatedCallRunsOnce
  <2>16. QED
    BY <2>10, <2>11, <2>12, <2>13, <2>14, <2>15 DEF GatesInv
<1>6. QED
  BY <1>2, <1>4, <1>5 DEF Claim

\* resume_run finds the run waiting at the very gate its job is about.
LEMMA ResumeReadKeeps ==
  ASSUME GatesInv, BaseInv', NEW t \in Task, NEW j \in queue, ResumeRead(t, j)
  PROVE  GatesInv'
<1>1. /\ BaseInv /\ row \in [Run -> RowType] /\ task \in [Task -> TaskType]
      /\ j \in Job /\ outbox \subseteq Job /\ queue \subseteq Job
  BY GateTypes DEF GatesInv
<1>2. /\ j.kind = "resume" /\ queue' = queue \ {j} /\ task[t].pc = "idle"
      /\ UNCHANGED <<row, appr, outbox, req, ran>>
  BY DEF ResumeRead
<1>3. j.gate \in Gate /\ j.run \in Run /\ NamesGate(j.run, j.gate)
  BY <1>1, <1>2, GateTypes
<1>4. CASE UNCHANGED task
  BY <1>2, <1>4, StillCalm, CalmKeeps DEF CalmJobs
<1>5. CASE /\ row[j.run].status = "awaiting_approval" /\ row[j.run].ckpt # NoCkpt
           /\ task' = [task EXCEPT ![t] =
                [IdleTask EXCEPT !.pc = "reading", !.job = j,
                                 !.ckpt = row[j.run].ckpt]]
  <2>1. PICK g \in Gate : g = j.gate
    BY <1>3
  <2>2. /\ task'[t].pc = "reading" /\ task'[t].job = j
        /\ task'[t].ckpt = row[j.run].ckpt
        /\ \A u \in Task : u # t => task'[u] = task[u]
    BY <1>1, <1>5 DEF IdleTask
  <2>3. Resumable(g)
    BY <1>2, <2>1 DEF Resumable, ResumeOf
  <2>4. row[j.run].ckpt.gate = g
    BY <1>3, <1>5, <2>1, <2>3 DEF GatesInv, OpenWaits, Terminal
  <2>5. \A u \in Task, q \in Run : Moves(u, q)' => Moves(u, q)
    BY <2>2 DEF Moves, Drives, Driving
  <2>6. \A k \in outbox' \cup queue' : k \in outbox \cup queue /\ (k \in queue' => k # j)
    BY <1>2
  <2>7. \A f : \A u \in Task : Reads(u, f)' => Reads(u, f) \/ (u = t /\ f = g)
    BY <2>1, <2>2 DEF Reads
  <2>8. ASSUME NEW f, Resumable(f)' PROVE Resumable(f)
    <3>1. ASSUME NEW u \in Task, task'[u].pc = "reading",
                 ResumeOf(f, task'[u].job)
          PROVE  Resumable(f)
      <4>1. CASE u = t
        BY <2>1, <2>2, <2>3, <3>1, <4>1 DEF ResumeOf
      <4>2. CASE u # t
        BY <2>2, <3>1, <4>2 DEF Resumable
      <4>3. QED
        BY <4>1, <4>2
    <3>2. QED
      BY <1>2, <2>6, <2>8, <3>1 DEF Resumable
  <2>9. \A q, f : NamesGate(q, f)' <=> NamesGate(q, f)
    BY <1>2 DEF NamesGate
  <2>10. OpenWaits' /\ NewHasNoGate'
    BY <1>2, <2>8, <2>9 DEF GatesInv, OpenWaits, NewHasNoGate
  <2>11. MoversClose'
    BY <1>2, <2>5, <2>8, <2>9 DEF GatesInv, MoversClose
  <2>12. /\ \A k \in outbox \cup queue : k.kind = "resume" /\ k.gate = g => k = j
         /\ j \notin outbox
         /\ \A u \in Task : ~Reads(u, g)
    BY <1>2, <2>1 DEF GatesInv, OnePlace
  <2>13. OnePlace'
    <3>1. \A k, l \in outbox' \cup queue' :
            k.kind = "resume" /\ l.kind = "resume" /\ k.gate = l.gate => k = l
      BY <2>6 DEF GatesInv, OnePlace
    <3>2. \A k \in outbox' : k.kind = "resume" => k \notin queue'
      BY <1>2 DEF GatesInv, OnePlace
    <3>3. \A k \in outbox' \cup queue', u \in Task :
            k.kind = "resume" => ~Reads(u, k.gate)'
      BY <1>2, <2>6, <2>7, <2>12 DEF GatesInv, OnePlace
    <3>4. \A u, v \in Task, f \in Gate : Reads(u, f)' /\ Reads(v, f)' => u = v
      BY <2>7, <2>12 DEF GatesInv, OnePlace
    <3>5. QED
      BY <3>1, <3>2, <3>3, <3>4 DEF OnePlace
  <2>14. Told'
    <3>1. \A f, a : Decided(f, a)' <=> Decided(f, a)
      BY <1>2 DEF Decided
    <3>2. \A k \in outbox' \cup queue' : k.kind = "resume" =>
            Decided(k.gate, k.approved)'
      BY <2>6, <3>1 DEF GatesInv, Told
    <3>3. Decided(j.gate, j.approved)
      BY <1>2 DEF GatesInv, Told
    <3>4. ASSUME NEW u \in Task, Holding(u)'
          PROVE  /\ Decided(task[u].job.gate, task[u].job.approved)'
                 /\ task'[u].ckpt.gate = task'[u].job.gate
      <4>1. CASE u = t
        BY <1>2, <2>1, <2>2, <2>4, <3>3, <4>1 DEF Decided
      <4>2. CASE u # t
        <5>1. Holding(u) /\ task'[u] = task[u]
          BY <2>2, <3>4, <4>2 DEF Holding
        <5>2. QED
          BY <1>2, <5>1 DEF GatesInv, Told, Decided
      <4>3. QED
        BY <4>1, <4>2
    <3>5. QED
      BY <3>2, <3>4 DEF Told
  <2>15. NotYet' /\ Spent' /\ OneDecision'
    BY <1>2 DEF GatesInv, NotYet, Spent, OneDecision, ApprovalIsPerCall,
                GatedCallRunsOnce
  <2>16. QED
    BY <2>10, <2>11, <2>13, <2>14, <2>15 DEF GatesInv
<1>6. QED
  BY <1>4, <1>5 DEF ResumeRead

\* The claim uses up what could resume the gate, and nobody else moves the run.
LEMMA ResumeClaimKeeps ==
  ASSUME GatesInv, BaseInv', NEW t \in Task, ResumeClaim(t)
  PROVE  GatesInv'
<1>1. /\ BaseInv /\ row \in [Run -> RowType] /\ task \in [Task -> TaskType]
      /\ task[t].pc = "reading" /\ Holding(t)
  BY GateTypes DEF GatesInv, ResumeClaim, Holding
<1>2. PICK j : j = task[t].job
  OBVIOUS
<1>3. PICK ck : ck = task[t].ckpt
  OBVIOUS
<1>4. /\ j.kind = "resume" /\ j.gate \in Gate /\ j.run \in Run
      /\ NamesGate(j.run, j.gate)
  BY <1>1, <1>2, GateTypes
<1>5. /\ Claim(t, j, "awaiting_approval", "gated", ck)
      /\ UNCHANGED <<appr, outbox, queue, req, ran>>
  BY <1>2, <1>3 DEF ResumeClaim
<1>6. CASE /\ Release(t)
           /\ \/ UNCHANGED row
              \/ row' = [row EXCEPT ![j.run] =
                   [@ EXCEPT !.status = "failed", !.ckpt = NoCkpt,
                             !.heartbeat = "fresh"]]
  <2>1. CalmRows
    BY <1>1, <1>6, StillCalm DEF CalmRows, RowType, Terminal
  <2>2. CalmTasks
    BY <1>1, <1>6, ReleaseCalm
  <2>3. QED
    BY <1>5, <2>1, <2>2, StillCalm, CalmKeeps
<1>7. CASE /\ row[j.run].status = "awaiting_approval"
           /\ row' = [row EXCEPT ![j.run] =
                  [@ EXCEPT !.status = "running", !.ckpt = NoCkpt,
                            !.heartbeat = "fresh"]]
           /\ task' = [task EXCEPT ![t] =
                   [IdleTask EXCEPT !.pc = "gated", !.job = j, !.ckpt = ck,
                      !.steps = row[j.run].steps, !.seq = Len(log[j.run])]]
  <2>1. PICK r \in Run : r = j.run
    BY <1>4
  <2>2. PICK g \in Gate : g = j.gate
    BY <1>4
  <2>3. /\ row[r].status = "awaiting_approval" /\ row'[r].status = "running"
        /\ \A q \in Run : q # r => row'[q] = row[q]
    BY <1>1, <1>7, <2>1 DEF RowType
  <2>4. /\ task'[t].pc = "gated" /\ task'[t].job = j /\ task'[t].ckpt = ck
        /\ \A u \in Task : u # t => task'[u] = task[u]
    BY <1>1, <1>7 DEF IdleTask
  <2>5. Resumable(g) /\ NamesGate(r, g) /\ Reads(t, g)
    BY <1>1, <1>2, <1>4, <2>1, <2>2 DEF Resumable, ResumeOf, Reads
  <2>6. \A u \in Task : ~Moves(u, r)
    BY <2>5 DEF GatesInv, MoversClose
  <2>7. \A f \in Gate : NamesGate(r, f) /\ Resumable(f) => f = g
    <3>1. \A f \in Gate : NamesGate(r, f) /\ Resumable(f) => row[r].ckpt.gate = f
      BY <2>3 DEF GatesInv, OpenWaits, Terminal
    <3>2. QED
      BY <2>5, <3>1
  <2>8. /\ Decided(g, j.approved) /\ ck.gate = g
        /\ \A k \in outbox \cup queue : k.kind = "resume" => k.gate # g
        /\ \A u \in Task : Reads(u, g) => u = t
    BY <1>1, <1>2, <1>3, <2>2, <2>5 DEF GatesInv, Told, OnePlace
  <2>9. ASSUME NEW f, Resumable(f)' PROVE Resumable(f)
    BY <1>5, <2>4, <2>9 DEF Resumable
  <2>10. ~Resumable(g)'
    <3>1. appr'[g].status # "pending"
      BY <1>5, <2>8 DEF Decided
    <3>2. \A k \in outbox' \cup queue' : ~ResumeOf(g, k)
      BY <1>5, <2>8 DEF ResumeOf
    <3>3. \A u \in Task : ~(task'[u].pc = "reading" /\ ResumeOf(g, task'[u].job))
      BY <2>4, <2>8 DEF Reads, ResumeOf
    <3>4. QED
      BY <3>1, <3>2, <3>3 DEF Resumable
  <2>11. \A q, f : NamesGate(q, f)' <=> NamesGate(q, f)
    BY <1>5 DEF NamesGate
  <2>12. \A u \in Task, q \in Run : Moves(u, q)' => Moves(u, q) \/ (u = t /\ q = r)
    BY <2>1, <2>4 DEF Moves, Drives
  <2>13. OpenWaits'
    BY <2>3, <2>7, <2>9, <2>10, <2>11 DEF GatesInv, OpenWaits
  <2>14. MoversClose'
    <3> SUFFICES ASSUME NEW q \in Run, NEW u \in Task, Moves(u, q)'
                 PROVE  /\ row'[q].status \in {"running"} \cup Terminal
                        /\ \A v \in Task : Moves(v, q)' => v = u
                        /\ \A f \in Gate : NamesGate(q, f)' => ~Resumable(f)'
      BY DEF MoversClose
    <3>1. CASE q = r
      BY <2>3, <2>6, <2>7, <2>9, <2>10, <2>11, <2>12, <3>1
    <3>2. CASE q # r
      BY <2>3, <2>9, <2>11, <2>12, <3>2 DEF GatesInv, MoversClose
    <3>3. QED
      BY <3>1, <3>2
  <2>15. NewHasNoGate'
    BY <2>3, <2>11 DEF GatesInv, NewHasNoGate
  <2>16. \A f : \A u \in Task : Reads(u, f)' => Reads(u, f)
    BY <2>4 DEF Reads
  <2>17. OnePlace'
    BY <1>5, <2>16 DEF GatesInv, OnePlace
  <2>18. Told'
    <3>1. \A k \in outbox' \cup queue' : k.kind = "resume" =>
            Decided(k.gate, k.approved)'
      BY <1>5 DEF GatesInv, Told, Decided
    <3>2. ASSUME NEW u \in Task, Holding(u)'
          PROVE  /\ Decided(task[u].job.gate, task[u].job.approved)'
                 /\ task'[u].ckpt.gate = task'[u].job.gate
      <4>1. CASE u = t
        BY <1>5, <2>2, <2>4, <2>8, <4>1 DEF Decided
      <4>2. CASE u # t
        <5>1. Holding(u) /\ task'[u] = task[u]
          BY <2>4, <3>2, <4>2 DEF Holding
        <5>2. QED
          BY <1>5, <5>1 DEF GatesInv, Told, Decided
      <4>3. QED
        BY <4>1, <4>2
    <3>3. QED
      BY <3>1, <3>2 DEF Told
  <2>19. NotYet' /\ Spent' /\ OneDecision'
    BY <1>5 DEF GatesInv, NotYet, Spent, OneDecision, ApprovalIsPerCall,
                GatedCallRunsOnce
  <2>20. QED
    BY <2>13, <2>14, <2>15, <2>17, <2>18, <2>19 DEF GatesInv
<1>8. QED
  BY <1>5, <1>6, <1>7 DEF Claim

\* The gated call is made by the one that carries the decision.
LEMMA GatedCallKeeps ==
  ASSUME GatesInv, BaseInv', NEW t \in Task, RunGatedCall(t)
  PROVE  GatesInv'
<1>1. /\ BaseInv /\ task \in [Task -> TaskType] /\ task[t] \in TaskType
      /\ ran \in [Gate -> Nat] /\ task[t].pc = "gated" /\ Holding(t)
  BY GateTypes DEF GatesInv, RunGatedCall, Holding
<1>2. PICK j : j = task[t].job
  OBVIOUS
<1>3. /\ j.gate \in Gate /\ j.run \in Run /\ NamesGate(j.run, j.gate)
      /\ Decided(j.gate, j.approved) /\ task[t].ckpt.gate = j.gate
  BY <1>1, <1>2, GateTypes DEF GatesInv, Told
<1>4. PICK g \in Gate : g = j.gate
  BY <1>3
<1>5. PICK r \in Run : r = j.run
  BY <1>3
<1>6. /\ ran' = IF j.approved THEN [ran EXCEPT ![g] = @ + 1] ELSE ran
      /\ task' = [task EXCEPT ![t] = [task[t] EXCEPT !.pc = "gatedDone"]]
      /\ UNCHANGED <<row, appr, outbox, queue, req>>
  BY <1>2, <1>3, <1>4 DEF RunGatedCall
<1>7. task'[t].pc = "gatedDone" /\ task'[t].job = j
  BY <1>1, <1>2, <1>6 DEF TaskType
<1>8. \A u \in Task : u # t => task'[u] = task[u]
  BY <1>6
<1>9. Moves(t, r)
  BY <1>1, <1>2, <1>5 DEF Moves, Drives, Driving
<1>10. CalmTasks
  BY <1>1, <1>2, <1>7, <1>8 DEF CalmTasks, Moves, Drives, Driving
<1>11. CASE ~j.approved
  BY <1>6, <1>10, <1>11, StillCalm, CalmKeeps
<1>12. CASE j.approved
  <2>1. NamesGate(r, g) /\ ~Resumable(g)
    BY <1>3, <1>4, <1>5, <1>9 DEF GatesInv, MoversClose
  <2>2. appr[g].status = "approved" /\ ran[g] = 0
    BY <1>3, <1>4, <1>12 DEF Decided
  <2>3. ran'[g] = 1 /\ \A f \in Gate : f # g => ran'[f] = ran[f]
    BY <1>1, <1>6, <1>12, <2>2
  <2>4. \A k \in outbox \cup queue : k.kind = "resume" => k.gate # g
    BY <2>1, NoCarrier
  <2>5. ASSUME NEW u \in Task, Holding(u), u # t
        PROVE  task[u].job.gate # g
    <3>1. CASE task[u].pc = "reading"
      BY <1>1, <2>1, <2>5, <3>1, GateTypes, NoCarrier
    <3>2. CASE task[u].pc = "gated"
      <4>1. ASSUME task[u].job.gate = g PROVE FALSE
        <5>1. task[u].job.run = r
          BY <1>1, <2>1, <2>5, <4>1, GateTypes DEF NamesGate
        <5>2. Moves(u, r)
          BY <3>2, <5>1 DEF Moves, Drives, Driving
        <5>3. QED
          BY <1>9, <2>5, <5>2 DEF GatesInv, MoversClose
      <4>2. QED
        BY <4>1
    <3>3. QED
      BY <2>5, <3>1, <3>2 DEF Holding
  <2>6. \A f \in Gate : \A a : f # g => (Decided(f, a)' <=> Decided(f, a))
    BY <1>6, <2>3 DEF Decided
  <2>7. \A q, f : NamesGate(q, f)' <=> NamesGate(q, f)
    BY <1>6 DEF NamesGate
  <2>8. outbox' \cup queue' \subseteq Job /\ CalmJobs
    BY <1>1, <1>6, GateTypes, StillCalm
  <2>9. \A f : Resumable(f)' => Resumable(f)
    BY <1>6, <1>10, <2>8, CalmOpens
  <2>10. OpenWaits' /\ NewHasNoGate'
    BY <1>6, <2>7, <2>9 DEF GatesInv, OpenWaits, NewHasNoGate
  <2>11. MoversClose'
    BY <1>6, <1>10, <2>7, <2>9 DEF GatesInv, MoversClose, CalmTasks
  <2>12. \A f : \A u \in Task : Reads(u, f)' => Reads(u, f)
    BY <1>10 DEF CalmTasks, Reads
  <2>13. OnePlace'
    BY <1>6, <2>12 DEF GatesInv, OnePlace
  <2>14. Told'
    <3>1. ASSUME NEW k \in outbox \cup queue, k.kind = "resume"
          PROVE  Decided(k.gate, k.approved)'
      <4>1. PICK f \in Gate : f = k.gate
        BY <1>1, <3>1, GateTypes
      <4>2. PICK a : a = k.approved
        OBVIOUS
      <4>3. Decided(f, a) /\ f # g
        BY <2>4, <3>1, <4>1, <4>2 DEF GatesInv, Told
      <4>4. QED
        BY <2>6, <4>1, <4>2, <4>3
    <3>2. ASSUME NEW u \in Task, Holding(u)'
          PROVE  /\ Decided(task[u].job.gate, task[u].job.approved)'
                 /\ task'[u].ckpt.gate = task'[u].job.gate
      <4>1. Holding(u) /\ task'[u] = task[u] /\ u # t
        BY <1>7, <1>8, <3>2 DEF Holding
      <4>2. PICK f \in Gate : f = task[u].job.gate
        BY <1>1, <4>1, GateTypes
      <4>3. PICK a : a = task[u].job.approved
        OBVIOUS
      <4>4. Decided(f, a) /\ f # g /\ task[u].ckpt.gate = f
        BY <2>5, <4>1, <4>2, <4>3 DEF GatesInv, Told
      <4>5. Decided(f, a)'
        BY <2>6, <4>4
      <4>6. QED
        BY <4>1, <4>2, <4>3, <4>4, <4>5 DEF Decided
    <3>3. QED
      BY <1>6, <3>1, <3>2 DEF Told
  <2>15. NotYet'
    BY <1>6, <2>2, <2>3 DEF GatesInv, NotYet
  <2>16. Spent'
    BY <1>6, <2>2, <2>3 DEF GatesInv, Spent, ApprovalIsPerCall, GatedCallRunsOnce
  <2>17. OneDecision'
    BY <1>6 DEF GatesInv, OneDecision
  <2>18. QED
    BY <2>10, <2>11, <2>13, <2>14, <2>15, <2>16, <2>17 DEF GatesInv
<1>13. QED
  BY <1>11, <1>12

\* The driver parks at a fresh gate and moves its run no more.
LEMMA ParkKeeps ==
  ASSUME GatesInv, BaseInv', NEW t \in Task, NEW g \in Gate, ParkForApproval(t, g)
  PROVE  GatesInv'
<1>1. /\ BaseInv /\ TypeOK /\ TaskInv /\ task \in [Task -> TaskType]
      /\ row \in [Run -> RowType] /\ appr \in [Gate -> ApprType]
  BY GateTypes DEF GatesInv, BaseInv
<1>2. task[t].job.run \in Run
  BY <1>1, ParkNames
<1>3. PICK r \in Run : r = task[t].job.run
  BY <1>2
<1>4. /\ task[t].pc = "calls" /\ appr[g].status = "unused"
      /\ appr' = [appr EXCEPT ![g] = [status |-> "pending", run |-> r]]
      /\ row' = [row EXCEPT ![r] =
           [@ EXCEPT !.status = "awaiting_approval", !.steps = task[t].steps,
                     !.ckpt = [gate |-> g, rest |-> task[t].left - 1]]]
      /\ Release(t) \/ Raise(t)
      /\ UNCHANGED <<outbox, queue, req, ran>>
  BY <1>3 DEF ParkForApproval, Announce
<1>5. /\ appr'[g].status = "pending" /\ appr'[g].run = r
      /\ \A f \in Gate : f # g => appr'[f] = appr[f]
  BY <1>1, <1>4
<1>6. /\ row'[r].status = "awaiting_approval"
      /\ row'[r].ckpt = [gate |-> g, rest |-> task[t].left - 1]
      /\ \A q \in Run : q # r => row'[q] = row[q]
  BY <1>1, <1>4 DEF RowType
<1>7. row'[r].ckpt.gate = g /\ row'[r].ckpt # NoCkpt
  <2>1. task[t].left \in Nat /\ task[t].left > 0
    BY <1>1 DEF ParkForApproval, TaskType
  <2>2. [gate |-> g, rest |-> task[t].left - 1] \in Ckpt
    BY <2>1 DEF Ckpt
  <2>3. QED
    BY <1>6, <2>2, NullsAssumption
<1>8. CalmTasks
  BY <1>1, <1>4, ReleaseCalm, RaiseCalm
<1>9. Moves(t, r)
  BY <1>3, <1>4 DEF Moves, Drives, Driving
<1>10. \A u \in Task : ~Moves(u, r)'
  <2>1. ~Moves(t, r)'
    <3>1. CASE Release(t)
      BY <1>1, <3>1 DEF Release, IdleTask, Moves, Drives, Driving
    <3>2. CASE Raise(t)
      <4> DEFINE v == [task[t] EXCEPT !.pc = "failing", !.outcome = "failed"]
      <4>1. v.pc = "failing"
        BY <1>1 DEF TaskType
      <4>2. task' = [task EXCEPT ![t] = v]
        BY <3>2 DEF Raise
      <4> HIDE DEF v
      <4>3. QED
        BY <1>1, <4>1, <4>2 DEF Moves
    <3>3. QED
      BY <1>4, <3>1, <3>2
  <2>2. QED
    BY <1>8, <1>9, <2>1 DEF CalmTasks, GatesInv, MoversClose
<1>11. /\ \A f \in Gate : NamesGate(r, f) => ~Resumable(f)
       /\ row[r].status \in {"running"} \cup Terminal
  BY <1>9 DEF GatesInv, MoversClose
<1>12. /\ \A q \in Run, f \in Gate : f # g => (NamesGate(q, f)' <=> NamesGate(q, f))
       /\ \A q \in Run : NamesGate(q, g)' => q = r
  BY <1>5 DEF NamesGate
<1>13. ASSUME NEW f \in Gate, f # g, Resumable(f)'
       PROVE  Resumable(f)
  <2>1. \A u \in Task : task'[u].pc = "reading" => task'[u] = task[u]
    BY <1>8 DEF CalmTasks
  <2>2. QED
    BY <1>4, <1>5, <1>13, <2>1 DEF Resumable
<1>14. OpenWaits'
  <2> SUFFICES ASSUME NEW q \in Run, NEW f \in Gate, NamesGate(q, f)', Resumable(f)'
               PROVE  \/ row'[q].status \in Terminal
                      \/ /\ row'[q].status = "awaiting_approval"
                         /\ row'[q].ckpt # NoCkpt /\ row'[q].ckpt.gate = f
    BY DEF OpenWaits
  <2>1. CASE f = g
    BY <1>6, <1>7, <1>12, <2>1
  <2>2. CASE f # g
    <3>1. NamesGate(q, f) /\ Resumable(f) /\ q # r
      BY <1>11, <1>12, <1>13, <2>2
    <3>2. QED
      BY <1>6, <3>1 DEF GatesInv, OpenWaits
  <2>3. QED
    BY <2>1, <2>2
<1>15. MoversClose'
  <2> SUFFICES ASSUME NEW q \in Run, NEW u \in Task, Moves(u, q)'
               PROVE  /\ row'[q].status \in {"running"} \cup Terminal
                      /\ \A v \in Task : Moves(v, q)' => v = u
                      /\ \A f \in Gate : NamesGate(q, f)' => ~Resumable(f)'
    BY DEF MoversClose
  <2>1. q # r /\ Moves(u, q)
    BY <1>8, <1>10 DEF CalmTasks
  <2>2. /\ row'[q].status \in {"running"} \cup Terminal
        /\ \A v \in Task : Moves(v, q)' => v = u
    BY <1>6, <1>8, <2>1 DEF GatesInv, MoversClose, CalmTasks
  <2>3. \A f \in Gate : NamesGate(q, f)' => ~Resumable(f)'
    BY <1>12, <1>13, <2>1 DEF GatesInv, MoversClose
  <2>4. QED
    BY <2>2, <2>3
<1>16. NewHasNoGate'
  <2> SUFFICES ASSUME NEW q \in Run, NEW f \in Gate, NamesGate(q, f)',
                      row'[q].status \in {"absent", "queued"}
               PROVE  FALSE
    BY DEF NewHasNoGate
  <2>1. q # r
    BY <1>6
  <2>2. QED
    BY <1>6, <1>12, <2>1 DEF GatesInv, NewHasNoGate
<1>17. OnePlace'
  <2>1. \A f : \A u \in Task : Reads(u, f)' => Reads(u, f)
    BY <1>8 DEF CalmTasks, Reads
  <2>2. QED
    BY <1>4, <2>1 DEF GatesInv, OnePlace
<1>18. \A f \in Gate : \A a : Decided(f, a) => f # g /\ Decided(f, a)'
  BY <1>4, <1>5 DEF Decided
<1>19. Told'
  <2>1. ASSUME NEW k \in outbox \cup queue, k.kind = "resume"
        PROVE  Decided(k.gate, k.approved)'
    <3>1. PICK f \in Gate : f = k.gate
      BY <1>1, <2>1, GateTypes
    <3>2. PICK a : a = k.approved
      OBVIOUS
    <3>3. Decided(f, a)
      BY <2>1, <3>1, <3>2 DEF GatesInv, Told
    <3>4. QED
      BY <1>18, <3>1, <3>2, <3>3
  <2>2. ASSUME NEW u \in Task, Holding(u)'
        PROVE  /\ Decided(task[u].job.gate, task[u].job.approved)'
               /\ task'[u].ckpt.gate = task'[u].job.gate
    <3>1. Holding(u) /\ task'[u] = task[u]
      BY <1>8, <2>2 DEF CalmTasks, Holding
    <3>2. PICK f \in Gate : f = task[u].job.gate
      BY <1>1, <3>1, GateTypes
    <3>3. PICK a : a = task[u].job.approved
      OBVIOUS
    <3>4. Decided(f, a) /\ task[u].ckpt.gate = f
      BY <3>1, <3>2, <3>3 DEF GatesInv, Told
    <3>5. Decided(f, a)'
      BY <1>18, <3>4
    <3>6. QED
      BY <3>1, <3>2, <3>3, <3>4, <3>5 DEF Decided
  <2>3. QED
    BY <1>4, <2>1, <2>2 DEF Told
<1>20. NotYet'
  BY <1>4, <1>5 DEF GatesInv, NotYet
<1>21. Spent'
  BY <1>4, <1>5 DEF GatesInv, Spent, ApprovalIsPerCall, GatedCallRunsOnce
<1>22. OneDecision'
  <2>1. ASSUME NEW h \in Handler, req[h] \in DecideReq
        PROVE  appr'[req[h].gate].status = "pending"
    <3>1. PICK f \in Gate : f = req[h].gate
      BY <2>1 DEF DecideReq
    <3>2. QED
      BY <1>4, <1>5, <2>1, <3>1 DEF GatesInv, OneDecision
  <2>2. QED
    BY <1>4, <2>1 DEF OneDecision
<1>23. QED
  BY <1>14, <1>15, <1>16, <1>17, <1>19, <1>20, <1>21, <1>22 DEF GatesInv

(* The inline backend: no job is delivered again and no run requeued.      *)
InlineStep ==
  \/ \E r \in Run : SubmitMessage(r) \/ HeartbeatExpires(r)
  \/ \E h \in Handler, r \in Run : RequestCancelRead(h, r)
  \/ \E h \in Handler : RequestCancelWrite(h)
  \/ \E j \in outbox : LoseDispatch(j)
  \/ \E h \in Handler, g \in Gate, a \in BOOLEAN : DecideApprovalRead(h, g, a)
  \/ \E h \in Handler : DecideApprovalWrite(h)
  \/ \E j \in outbox : Dispatch(j)
  \/ \E j \in queue, t \in Task : ExecuteRun(t, j) \/ ResumeRead(t, j)
  \/ \E t \in Task : \/ Loops(t) \/ ResumeClaim(t) \/ RunGatedCall(t)
                     \/ \E g \in Gate : ParkForApproval(t, g)
                     \/ Finish(t) \/ FinishFailed(t)
                     \/ ResumeRaises(t) \/ Escape(t)

\* The process dies and nothing is delivered again.
InlineCrash(t) == LetGo(t) /\ faults' = [faults EXCEPT !.crash = @ + 1]

LEMMA InlineKeeps ==
  ASSUME GatesInv, BaseInv', DecidedOneByOne,
         InlineStep \/ (\E t \in Task : InlineCrash(t)) \/ UNCHANGED vars
  PROVE  GatesInv'
<1>1. CASE \E h \in Handler, g \in Gate, a \in BOOLEAN : DecideApprovalRead(h, g, a)
  BY <1>1, DecideReadKeeps
<1>2. CASE \E h \in Handler : DecideApprovalWrite(h)
  BY <1>2, DecideWriteKeeps
<1>3. CASE \E j \in outbox : Dispatch(j)
  BY <1>3, DispatchKeeps
<1>4. CASE \E j \in queue, t \in Task : ExecuteRun(t, j) \/ ResumeRead(t, j)
  BY <1>4, ExecuteKeeps, ResumeReadKeeps
<1>5. CASE \E t \in Task : \/ Loops(t) \/ ResumeClaim(t) \/ RunGatedCall(t)
                           \/ \E g \in Gate : ParkForApproval(t, g)
                           \/ Finish(t) \/ FinishFailed(t)
  BY <1>5, LoopsCalm, ResumeClaimKeeps, GatedCallKeeps, ParkKeeps, EndsCalm
<1>6. CASE \E t \in Task : ResumeRaises(t) \/ Escape(t) \/ InlineCrash(t)
  <2>1. PICK t \in Task : LetGo(t)
    BY <1>6 DEF ResumeRaises, Escape, InlineCrash, LetGo
  <2>2. QED
    BY <2>1, LetGoCalm
<1>7. CASE \/ \E r \in Run : SubmitMessage(r) \/ HeartbeatExpires(r)
           \/ \E h \in Handler, r \in Run : RequestCancelRead(h, r)
           \/ \E h \in Handler : RequestCancelWrite(h)
           \/ \E j \in outbox : LoseDispatch(j)
           \/ UNCHANGED vars
  BY <1>7, OthersCalm
<1>8. QED
  BY <1>1, <1>2, <1>3, <1>4, <1>5, <1>6, <1>7 DEF InlineStep

LEMMA InlineBase ==
  ASSUME BaseInv, InlineStep \/ (\E t \in Task : InlineCrash(t)) \/ UNCHANGED vars
  PROVE  BaseInv'
<1>1. CASE InlineStep \/ UNCHANGED vars
  <2>1. InlineStep => Next
    BY DEF InlineStep, Next, Loops, HandlerStep, TaskStep, TakeJob
  <2>2. QED
    BY <1>1, <2>1, BaseStep
<1>2. CASE \E t \in Task : InlineCrash(t)
  <2>1. PICK t \in Task : InlineCrash(t)
    BY <1>2
  <2>2. /\ TypeOK /\ TaskInv /\ GateInv /\ task \in [Task -> TaskType]
        /\ faults \in [crash: Nat, lost: Nat, bus: Nat]
    BY DEF BaseInv, TypeOK
  <2>3. /\ Release(t) /\ faults' = [faults EXCEPT !.crash = @ + 1]
        /\ UNCHANGED <<row, log, appr, answers, outbox, queue, req, ran, requeues>>
    BY <2>1 DEF InlineCrash, LetGo
  <2>4. TypeOK'
    <3>1. task' \in [Task -> TaskType]
      BY <2>2, <2>3, ReleaseType
    <3>2. faults' \in [crash: Nat, lost: Nat, bus: Nat]
      BY <2>2, <2>3
    <3>3. QED
      BY <2>2, <2>3, <3>1, <3>2 DEF TypeOK
  <2>5. TaskInv'
    BY <2>2, <2>3, IdleOK, TaskUpdate DEF Release
  <2>6. GateInv'
    <3>1. IdleTask.job = NoJob
      BY DEF IdleTask
    <3>2. \A u \in Task : task'[u].job \in {NoJob, task[u].job}
      BY <2>2, <2>3, <3>1 DEF Release
    <3>3. NoJob \notin ResumeJob
      BY NullsAssumption DEF Job
    <3>4. \A j \in JobsInSystem' : j \in ResumeJob => j \in JobsInSystem
      BY <2>3, <3>2, <3>3 DEF JobsInSystem
    <3>5. \A j \in JobsInSystem' : j \in ResumeJob => NamesGate(j.run, j.gate)'
      BY <2>2, <2>3, <3>4 DEF GateInv, NamesGate
    <3>6. QED
      BY <2>2, <2>3, <3>5 DEF GateInv, NamesGate
  <2>7. QED
    BY <2>4, <2>5, <2>6 DEF BaseInv
<1>3. QED
  BY <1>1, <1>2

\* RunLifecycle with Durable = FALSE takes these steps, whatever Durable is here.
LEMMA InlineActions ==
  /\ \A r : /\ I!SubmitMessage(r) => SubmitMessage(r)
            /\ I!HeartbeatExpires(r) => HeartbeatExpires(r)
  /\ \A h, r : I!RequestCancelRead(h, r) => RequestCancelRead(h, r)
  /\ \A h : /\ I!RequestCancelWrite(h) => RequestCancelWrite(h)
            /\ I!DecideApprovalWrite(h) => DecideApprovalWrite(h)
  /\ \A h, g, a : I!DecideApprovalRead(h, g, a) => DecideApprovalRead(h, g, a)
  /\ \A j : I!Dispatch(j) => Dispatch(j)
  /\ \A j : I!LoseDispatch(j) => LoseDispatch(j)
  /\ ~I!RequeueOrphanedRuns
<1>1. \A r : I!SubmitMessage(r) => SubmitMessage(r)
  BY DEF I!SubmitMessage, SubmitMessage
<1>2. \A r : I!HeartbeatExpires(r) => HeartbeatExpires(r)
  BY DEF I!HeartbeatExpires, HeartbeatExpires, I!Drives, Drives, I!Driving, Driving
<1>3. \A h, r : I!RequestCancelRead(h, r) => RequestCancelRead(h, r)
  BY DEF I!RequestCancelRead, RequestCancelRead, I!Terminal, Terminal
<1>4. \A h : I!RequestCancelWrite(h) => RequestCancelWrite(h)
  BY DEF I!RequestCancelWrite, RequestCancelWrite
<1>5. \A h : I!DecideApprovalWrite(h) => DecideApprovalWrite(h)
  BY DEF I!DecideApprovalWrite, DecideApprovalWrite
<1>6. \A h, g, a : I!DecideApprovalRead(h, g, a) => DecideApprovalRead(h, g, a)
  BY DEF I!DecideApprovalRead, DecideApprovalRead
<1>7. \A j : (I!Dispatch(j) => Dispatch(j)) /\ (I!LoseDispatch(j) => LoseDispatch(j))
  BY DEF I!Dispatch, Dispatch, I!LoseDispatch, LoseDispatch
<1>8. ~I!RequeueOrphanedRuns
  BY DEF I!RequeueOrphanedRuns
<1>9. QED
  BY <1>1, <1>2, <1>3, <1>4, <1>5, <1>6, <1>7, <1>8

LEMMA InlineReleases ==
  /\ \A t : /\ I!Release(t) => Release(t)
            /\ I!Raise(t) => Raise(t)
            /\ I!Announce(t) => Announce(t)
            /\ I!RecordOutcome(t) => RecordOutcome(t)
  /\ \A t, kind : I!RecordStep(t, kind) => RecordStep(t, kind)
  /\ \A t, outcome : I!Conclude(t, outcome) => Conclude(t, outcome)
<1>1. \A t : (I!Release(t) => Release(t)) /\ (I!Raise(t) => Raise(t))
  BY DEF I!Release, Release, I!IdleTask, IdleTask, I!Raise, Raise
<1>2. \A t : I!Announce(t) => Announce(t)
  BY <1>1 DEF I!Announce, Announce
<1>3. \A t : I!RecordOutcome(t) => RecordOutcome(t)
  BY DEF I!RecordOutcome, RecordOutcome
<1>4. \A t, kind : I!RecordStep(t, kind) => RecordStep(t, kind)
  BY DEF I!RecordStep, RecordStep
<1>5. \A t, outcome : I!Conclude(t, outcome) => Conclude(t, outcome)
  BY DEF I!Conclude, Conclude
<1>6. QED
  BY <1>1, <1>2, <1>3, <1>4, <1>5

LEMMA InlineTakes ==
  /\ \A t, j : /\ I!ExecuteRun(t, j) => ExecuteRun(t, j)
               /\ I!ResumeRead(t, j) => ResumeRead(t, j)
  /\ \A t : I!ResumeClaim(t) => ResumeClaim(t)
<1>1. \A t, j, from, pc, ckpt :
        I!Claim(t, j, from, pc, ckpt) => Claim(t, j, from, pc, ckpt)
  BY InlineReleases DEF I!Claim, Claim, I!IdleTask, IdleTask
<1>2. \A t, j : I!ExecuteRun(t, j) => ExecuteRun(t, j)
  BY <1>1 DEF I!ExecuteRun, ExecuteRun
<1>3. \A t, j : I!ResumeRead(t, j) => ResumeRead(t, j)
  BY DEF I!ResumeRead, ResumeRead, I!IdleTask, IdleTask
<1>4. \A t : I!ResumeClaim(t) => ResumeClaim(t)
  BY <1>1 DEF I!ResumeClaim, ResumeClaim
<1>5. QED
  BY <1>2, <1>3, <1>4

LEMMA InlineLoops ==
  ASSUME NEW t \in Task, I!TaskStep(t)
  PROVE  \/ Loops(t) \/ ResumeClaim(t) \/ RunGatedCall(t)
         \/ \E g \in Gate : ParkForApproval(t, g)
         \/ Finish(t) \/ FinishFailed(t)
<1>1. CASE I!BuildTranscript(t)
  BY <1>1 DEF I!BuildTranscript, BuildTranscript, Loops
<1>2. CASE I!RecordGatedCall(t)
  BY <1>2, InlineReleases DEF I!RecordGatedCall, RecordGatedCall, Loops
<1>3. CASE I!RunTool(t)
  BY <1>3 DEF I!RunTool, RunTool, Loops
<1>4. CASE I!RecordTool(t)
  BY <1>4, InlineReleases DEF I!RecordTool, RecordTool, Loops
<1>5. CASE I!LoopHead(t)
  BY <1>5, InlineReleases DEF I!LoopHead, LoopHead, Loops
<1>6. CASE I!AnswerTurn(t)
  BY <1>6, InlineReleases DEF I!AnswerTurn, AnswerTurn, Loops
<1>7. CASE \E k \in 1..MaxCalls : I!ToolTurn(t, k)
  BY <1>7, InlineReleases DEF I!ToolTurn, ToolTurn, Loops
<1>8. CASE I!LoopRaises(t)
  BY <1>8, InlineReleases DEF I!LoopRaises, LoopRaises, Loops
<1>9. CASE I!RunGatedCall(t)
  BY <1>9 DEF I!RunGatedCall, RunGatedCall
<1>10. CASE \E g \in Gate : I!ParkForApproval(t, g)
  BY <1>10, InlineReleases DEF I!ParkForApproval, ParkForApproval
<1>11. CASE I!Finish(t) \/ I!FinishFailed(t)
  BY <1>11, InlineReleases DEF I!Finish, Finish, I!FinishFailed, FinishFailed
<1>12. CASE I!ResumeClaim(t)
  BY <1>12, InlineTakes
<1>13. QED
  BY <1>1, <1>2, <1>3, <1>4, <1>5, <1>6, <1>7, <1>8, <1>9, <1>10, <1>11, <1>12
     DEF I!TaskStep

LEMMA InlineNext ==
  ASSUME I!Next
  PROVE  InlineStep \/ \E t \in Task : InlineCrash(t)
<1>1. ASSUME NEW t \in Task, I!Crash(t)
      PROVE  InlineCrash(t)
  BY <1>1, InlineReleases DEF I!Crash, InlineCrash, LetGo
<1>2. ASSUME NEW t \in Task, I!ResumeRaises(t)
      PROVE  ResumeRaises(t)
  BY <1>2, InlineReleases DEF I!ResumeRaises, ResumeRaises
<1>3. ASSUME NEW t \in Task, I!Escape(t)
      PROVE  Escape(t)
  BY <1>3, InlineReleases DEF I!Escape, Escape, Driving
<1>4. ASSUME NEW j \in queue, I!TakeJob(j)
      PROVE  \E t \in Task : ExecuteRun(t, j) \/ ResumeRead(t, j)
  BY <1>4, InlineTakes DEF I!TakeJob
<1>5. ASSUME NEW h \in Handler, I!HandlerStep(h)
      PROVE  RequestCancelWrite(h) \/ DecideApprovalWrite(h)
  BY <1>5, InlineActions DEF I!HandlerStep
<1>6. CASE \E r \in Run : I!SubmitMessage(r) \/ I!HeartbeatExpires(r)
  BY <1>6, InlineActions DEF InlineStep
<1>7. CASE \E h \in Handler, r \in Run : I!RequestCancelRead(h, r)
  BY <1>7, InlineActions DEF InlineStep
<1>8. CASE \E h \in Handler, g \in Gate, a \in BOOLEAN : I!DecideApprovalRead(h, g, a)
  BY <1>8, InlineActions DEF InlineStep
<1>9. CASE \E h \in Handler : I!HandlerStep(h)
  BY <1>5, <1>9 DEF InlineStep
<1>10. CASE \E j \in outbox : I!Dispatch(j) \/ I!LoseDispatch(j)
  BY <1>10, InlineActions DEF InlineStep
<1>11. CASE \E j \in queue : I!TakeJob(j)
  BY <1>4, <1>11 DEF InlineStep
<1>12. CASE \E t \in Task : I!TaskStep(t)
  BY <1>12, InlineLoops DEF InlineStep
<1>13. CASE \E t \in Task : I!ResumeRaises(t) \/ I!Crash(t) \/ I!Escape(t)
  BY <1>1, <1>2, <1>3, <1>13 DEF InlineStep
<1>14. QED
  BY <1>6, <1>7, <1>8, <1>9, <1>10, <1>11, <1>12, <1>13, InlineActions
     DEF I!Next

LEMMA GatesInit == Init => GatesInv
<1> SUFFICES ASSUME Init PROVE GatesInv
  OBVIOUS
<1>1. BaseInv
  BY BaseInit
<1>2. /\ row = [r \in Run |-> FreshRow]
      /\ appr = [g \in Gate |-> [status |-> "unused", run |-> NoRun]]
      /\ outbox = {} /\ queue = {}
      /\ task = [t \in Task |-> IdleTask]
      /\ req = [h \in Handler |-> NoReq]
      /\ ran = [g \in Gate |-> 0]
  BY DEF Init
<1>3. \A t \in Task : task[t].pc = "idle"
  BY <1>2 DEF IdleTask
<1>4. \A g \in Gate : appr[g].status = "unused" /\ ran[g] = 0
  BY <1>2
<1>5. \A r \in Run, g \in Gate : ~NamesGate(r, g)
  BY <1>4 DEF NamesGate
<1>6. OpenWaits /\ NewHasNoGate
  BY <1>5 DEF OpenWaits, NewHasNoGate
<1>7. MoversClose
  BY <1>3 DEF MoversClose, Moves, Drives, Driving
<1>8. OnePlace
  BY <1>2, <1>3 DEF OnePlace, Reads
<1>9. Told
  BY <1>2, <1>3 DEF Told, Holding
<1>10. NotYet /\ Spent
  BY <1>4 DEF NotYet, Spent, ApprovalIsPerCall, GatedCallRunsOnce
<1>11. OneDecision
  BY <1>2, NullsAssumption DEF OneDecision, DecideReq
<1>12. QED
  BY <1>1, <1>6, <1>7, <1>8, <1>9, <1>10, <1>11 DEF GatesInv

\* Behind the inline backend a gated call is executed only under an approval of
\* that very call, and once (docs/security.md: "Approval is per-call"), when the
\* API never has two decisions of one request in flight: a decision is then
\* carried by one job, which is in one place until a task claims the run with it;
\* the run it resumes waits at the gate the decision is about, and its next gate
\* is a new one.  Nothing in the code excludes two decisions in flight
\* (RunApprovalRace shows what they do), so the hypothesis stays with the theorem.
THEOREM GatesHold == SpecAll /\ []DecidedOneByOne => []InlineGatesHold
<1> DEFINE Inv == part = "inline" => GatesInv
<1>1. InitAll => Inv
  BY GatesInit DEF InitAll
<1>2. Inv /\ DecidedOneByOne /\ [NextAll]_allVars => Inv'
  <2> SUFFICES ASSUME Inv, DecidedOneByOne, [NextAll]_allVars, part' = "inline"
               PROVE  GatesInv'
    OBVIOUS
  <2>1. part = "inline"
    BY DEF NextAll, allVars
  <2>2. I!Next \/ UNCHANGED vars
    BY <2>1 DEF NextAll, allVars
  <2>3. InlineStep \/ (\E t \in Task : InlineCrash(t)) \/ UNCHANGED vars
    BY <2>2, InlineNext
  <2>4. GatesInv /\ BaseInv
    BY <2>1 DEF GatesInv
  <2>5. QED
    BY <2>3, <2>4, InlineBase, InlineKeeps
<1>3. Inv => InlineGatesHold
  BY DEF InlineGatesHold, GatesInv, Spent, ApprovalIsPerCall, GatedCallRunsOnce,
         I!ApprovalIsPerCall, I!GatedCallRunsOnce
<1>4. QED
  BY <1>1, <1>2, <1>3, PTL DEF SpecAll

(***************************************************************************)
(* Delegation.                                                             *)
(***************************************************************************)
KinRow   == [status: {"none", "queued", "running", "parked"} \cup K!Terminal,
             parent: Kin \cup {NoRun}, beat: {"none", "fresh", "stale"}]
KinFrame == [run: Kin, depth: Nat, child: Kin \cup {NoRun},
             pc: {"active", "spawned", "waiting", "reading"}]
Calling  == {"spawned", "waiting", "reading"}

\* A frame that has called a child names it, and only the top one has none.
CallsNamed(s) ==
  \A i \in DOMAIN s : i # Len(s) \/ s[i].pc \in Calling => s[i].child \in Kin

KinTyped ==
  /\ kin \in [Kin -> KinRow]
  /\ stack \in [Holder -> Seq(KinFrame)]
  /\ due \subseteq Kin
  /\ told \in [Kin -> {"nothing", "error", "answer", "status", "timeout"}]
  /\ promoted \subseteq Kin
  /\ \A w \in Holder : CallsNamed(stack[w])

\* What the operations on a stack make of it, frame by frame.
LEMMA TopIsFrame ==
  ASSUME NEW s \in Seq(KinFrame), s # <<>>
  PROVE  /\ Len(s) \in Nat \ {0} /\ Len(s) \in DOMAIN s
         /\ DOMAIN s = 1..Len(s) /\ s[Len(s)] \in KinFrame
OBVIOUS

LEMMA TopSet ==
  ASSUME NEW s \in Seq(KinFrame), s # <<>>, NEW f \in KinFrame
  PROVE  LET d == [s EXCEPT ![Len(s)] = f]
         IN  /\ d \in Seq(KinFrame) /\ DOMAIN d = DOMAIN s
             /\ d[Len(s)] = f
             /\ \A i \in DOMAIN s : i # Len(s) => d[i] = s[i]
OBVIOUS

LEMMA Appended ==
  ASSUME NEW a \in Seq(KinFrame), NEW g \in KinFrame
  PROVE  /\ Append(a, g) \in Seq(KinFrame)
         /\ DOMAIN Append(a, g) = 1..(Len(a) + 1)
         /\ Append(a, g)[Len(a) + 1] = g
         /\ \A i \in 1..Len(a) : Append(a, g)[i] = a[i]
OBVIOUS

LEMMA Descended ==
  ASSUME NEW s \in Seq(KinFrame), s # <<>>, NEW g \in KinFrame
  PROVE  LET d == Append([s EXCEPT ![Len(s)].pc = "waiting"], g)
         IN  /\ d \in Seq(KinFrame) /\ DOMAIN d = 1..(Len(s) + 1)
             /\ d[Len(s)] = [s[Len(s)] EXCEPT !.pc = "waiting"]
             /\ d[Len(s)] \in KinFrame
             /\ d[Len(s) + 1] = g
             /\ \A i \in DOMAIN s : i # Len(s) => d[i] = s[i]
<1> DEFINE f == [s[Len(s)] EXCEPT !.pc = "waiting"]
           a == [s EXCEPT ![Len(s)] = f]
<1>1. /\ Len(s) \in Nat \ {0} /\ DOMAIN s = 1..Len(s)
      /\ s[Len(s)] \in KinFrame
  BY TopIsFrame
<1>2. f \in KinFrame
  BY <1>1 DEF KinFrame
<1>3. a = [s EXCEPT ![Len(s)].pc = "waiting"]
  OBVIOUS
<1> HIDE DEF f
<1>4. /\ a \in Seq(KinFrame) /\ Len(a) = Len(s) /\ a[Len(s)] = f
      /\ \A i \in 1..Len(s) : i # Len(s) => a[i] = s[i]
  <2>1. /\ a \in Seq(KinFrame) /\ DOMAIN a = DOMAIN s /\ a[Len(s)] = f
        /\ \A i \in DOMAIN s : i # Len(s) => a[i] = s[i]
    BY <1>2, TopSet
  <2> HIDE DEF a
  <2>2. Len(a) = Len(s)
    BY <1>1, <2>1
  <2>3. QED
    BY <1>1, <2>1, <2>2
<1> HIDE DEF a
<1> DEFINE d == Append(a, g)
<1>5. /\ d \in Seq(KinFrame) /\ DOMAIN d = 1..(Len(s) + 1)
      /\ d[Len(s) + 1] = g /\ \A i \in 1..Len(s) : d[i] = a[i]
  BY <1>4, Appended
<1> HIDE DEF d
<1>6. /\ d[Len(s)] = f
      /\ \A i \in DOMAIN s : i # Len(s) => d[i] = s[i]
  <2>1. Len(s) \in 1..Len(s)
    BY <1>1
  <2>2. QED
    BY <1>1, <1>4, <1>5, <2>1
<1>7. d = Append([s EXCEPT ![Len(s)].pc = "waiting"], g)
  BY <1>3 DEF d
<1>8. QED
  BY <1>2, <1>5, <1>6, <1>7 DEF f

LEMMA Popped ==
  ASSUME NEW s \in Seq(KinFrame), s # <<>>
  PROVE  LET d == IF Len(s) = 1 THEN <<>>
                  ELSE [K!Front(s) EXCEPT ![Len(s) - 1].pc = "reading"]
         IN  /\ d \in Seq(KinFrame) /\ DOMAIN d = 1..(Len(s) - 1)
             /\ \A i \in DOMAIN d :
                  /\ d[i].run = s[i].run /\ d[i].depth = s[i].depth
                  /\ d[i].child = s[i].child
                  /\ d[i].pc = "reading" \/ (i < Len(s) - 1 /\ d[i] = s[i])
<1> DEFINE d == IF Len(s) = 1 THEN <<>>
                ELSE [K!Front(s) EXCEPT ![Len(s) - 1].pc = "reading"]
           a == K!Front(s)
<1>1. Len(s) \in Nat \ {0} /\ DOMAIN s = 1..Len(s)
  BY TopIsFrame
<1>2. CASE Len(s) = 1
  <2>1. d = <<>>
    BY <1>2
  <2>2. <<>> \in Seq(KinFrame) /\ DOMAIN <<>> = {}
    OBVIOUS
  <2>3. 1..(Len(s) - 1) = {}
    BY <1>2
  <2> HIDE DEF d
  <2>4. QED
    BY <2>1, <2>2, <2>3 DEF d
<1>3. CASE Len(s) # 1
  <2>1. /\ a \in Seq(KinFrame) /\ Len(a) = Len(s) - 1
        /\ \A i \in 1..(Len(s) - 1) : a[i] = s[i]
    BY <1>1 DEF K!Front
  <2>2. d = [a EXCEPT ![Len(s) - 1] = [a[Len(s) - 1] EXCEPT !.pc = "reading"]]
    BY <1>3
  <2> DEFINE f == [a[Len(s) - 1] EXCEPT !.pc = "reading"]
  <2> HIDE DEF d, a
  <2>3. Len(s) - 1 \in 1..(Len(s) - 1)
    BY <1>1, <1>3
  <2>4. a[Len(s) - 1] \in KinFrame /\ a[Len(s) - 1] = s[Len(s) - 1]
    BY <2>1, <2>3
  <2>5. /\ f \in KinFrame /\ f.pc = "reading"
        /\ f.run = s[Len(s) - 1].run /\ f.depth = s[Len(s) - 1].depth
        /\ f.child = s[Len(s) - 1].child
    BY <2>4 DEF KinFrame
  <2> HIDE DEF f
  <2>6. /\ d \in Seq(KinFrame) /\ DOMAIN d = 1..(Len(s) - 1)
        /\ d[Len(s) - 1] = f
        /\ \A i \in 1..(Len(s) - 1) : i # Len(s) - 1 => d[i] = s[i]
    BY <1>1, <2>1, <2>2, <2>3, <2>5 DEF f
  <2>7. ASSUME NEW i \in DOMAIN d
        PROVE  /\ d[i].run = s[i].run /\ d[i].depth = s[i].depth
               /\ d[i].child = s[i].child
               /\ d[i].pc = "reading" \/ (i < Len(s) - 1 /\ d[i] = s[i])
    <3>1. CASE i = Len(s) - 1
      BY <2>5, <2>6, <3>1
    <3>2. CASE i # Len(s) - 1
      <4>1. i \in 1..(Len(s) - 1) /\ d[i] = s[i]
        BY <2>6, <3>2
      <4>2. i < Len(s) - 1
        BY <1>1, <3>2, <4>1
      <4>3. QED
        BY <4>1, <4>2
    <3>3. QED
      BY <3>1, <3>2
  <2>8. d = IF Len(s) = 1 THEN <<>>
            ELSE [K!Front(s) EXCEPT ![Len(s) - 1].pc = "reading"]
    BY DEF d, a
  <2>9. QED
    BY <2>6, <2>7, <2>8
<1>4. QED
  BY <1>2, <1>3

LEMMA CutBack ==
  ASSUME NEW s \in Seq(KinFrame), NEW i \in DOMAIN s, NEW f \in KinFrame
  PROVE  LET d == Append(SubSeq(s, 1, i - 1), f)
         IN  /\ d \in Seq(KinFrame) /\ DOMAIN d = 1..i
             /\ d[i] = f
             /\ \A k \in 1..(i - 1) : k \in DOMAIN s /\ d[k] = s[k]
<1> DEFINE a == SubSeq(s, 1, i - 1)
<1>1. i \in 1..Len(s) /\ Len(s) \in Nat /\ DOMAIN s = 1..Len(s)
  OBVIOUS
<1>2. /\ a \in Seq(KinFrame) /\ Len(a) = i - 1
      /\ \A k \in 1..(i - 1) : a[k] = s[k]
  BY <1>1
<1> HIDE DEF a
<1> DEFINE d == Append(a, f)
<1>3. /\ d \in Seq(KinFrame) /\ DOMAIN d = 1..i /\ d[i] = f
      /\ \A k \in 1..(i - 1) : d[k] = a[k]
  BY <1>1, <1>2
<1>4. QED
  BY <1>1, <1>2, <1>3 DEF a

\* What a step does to the rows, and to the frames of a worker that makes none.
RowSet(r, s) ==
  \A q \in Kin : /\ kin'[q].status = IF q = r THEN s ELSE kin[q].status
                 /\ kin'[q].parent = kin[q].parent

RowsStay ==
  \A q \in Kin : /\ kin'[q].status = kin[q].status
                 /\ kin'[q].parent = kin[q].parent

FramesKept(w) ==
  \A i \in DOMAIN stack'[w] :
    /\ i \in DOMAIN stack[w]
    /\ stack'[w][i].run = stack[w][i].run
    /\ stack'[w][i].depth = stack[w][i].depth
    /\ stack'[w][i].pc = "spawned" => stack'[w][i] = stack[w][i]

Others(w) == \A v \in Holder : v # w => stack'[v] = stack[v]

KinStatus == {"none", "queued", "running", "parked"} \cup K!Terminal

LEMMA KinSet ==
  ASSUME kin \in [Kin -> KinRow], NEW r \in Kin, NEW s \in KinStatus,
         NEW b \in {"none", "fresh", "stale"}, K!SetRow(r, s, b)
  PROVE  kin' \in [Kin -> KinRow] /\ RowSet(r, s)
<1>1. kin' = [kin EXCEPT ![r] = [kin[r] EXCEPT !.status = s, !.beat = b]]
  BY DEF K!SetRow
<1> DEFINE d == [kin[r] EXCEPT !.status = s, !.beat = b]
<1>2. d \in KinRow /\ d.status = s /\ d.parent = kin[r].parent
  BY DEF KinRow, KinStatus
<1> HIDE DEF d
<1>3. QED
  BY <1>1, <1>2 DEF RowSet, d

LEMMA KinBeat ==
  ASSUME kin \in [Kin -> KinRow], NEW r \in Kin,
         NEW b \in {"none", "fresh", "stale"},
         kin' = [kin EXCEPT ![r].beat = b]
  PROVE  kin' \in [Kin -> KinRow] /\ RowsStay
<1> DEFINE d == [kin[r] EXCEPT !.beat = b]
<1>1. kin' = [kin EXCEPT ![r] = d]
  OBVIOUS
<1>2. d \in KinRow /\ d.status = kin[r].status /\ d.parent = kin[r].parent
  BY DEF KinRow
<1> HIDE DEF d
<1>3. QED
  BY <1>1, <1>2 DEF RowsStay

\* A stack that is replaced by a typed one leaves the types as they were.
LEMMA StackSet ==
  ASSUME KinTyped, NEW w \in Holder, NEW d \in Seq(KinFrame),
         stack' = [stack EXCEPT ![w] = d]
  PROVE  /\ stack' \in [Holder -> Seq(KinFrame)]
         /\ stack'[w] = d /\ Others(w)
         /\ CallsNamed(d) => \A v \in Holder : CallsNamed(stack'[v])
<1>1. stack \in [Holder -> Seq(KinFrame)]
  BY DEF KinTyped
<1>2. stack' \in [Holder -> Seq(KinFrame)] /\ stack'[w] = d /\ Others(w)
  BY <1>1 DEF Others
<1>3. ASSUME CallsNamed(d), NEW v \in Holder
      PROVE  CallsNamed(stack'[v])
  <2>1. CASE v = w
    BY <1>2, <1>3, <2>1
  <2>2. CASE v # w
    BY <1>2, <2>2 DEF Others, KinTyped
  <2>3. QED
    BY <2>1, <2>2
<1>4. QED
  BY <1>2, <1>3

LEMMA KinFrames ==
  ASSUME KinTyped, NEW w \in Holder
  PROVE  /\ stack[w] \in Seq(KinFrame)
         /\ stack[w] # <<>> =>
              /\ Len(stack[w]) \in DOMAIN stack[w]
              /\ Len(stack[w]) \in Nat \ {0}
              /\ DOMAIN stack[w] = 1..Len(stack[w])
              /\ K!Top(w) = stack[w][Len(stack[w])]
              /\ K!Top(w) \in KinFrame
         /\ \A i \in DOMAIN stack[w] :
              /\ stack[w][i] \in KinFrame
              /\ stack[w][i].run \in Kin /\ stack[w][i].depth \in Nat
              /\ i # Len(stack[w]) \/ stack[w][i].pc \in Calling
                   => stack[w][i].child \in Kin
<1>1. stack[w] \in Seq(KinFrame)
  BY DEF KinTyped
<1>2. stack[w] # <<>> =>
        /\ Len(stack[w]) \in DOMAIN stack[w]
        /\ Len(stack[w]) \in Nat \ {0}
        /\ DOMAIN stack[w] = 1..Len(stack[w])
        /\ K!Top(w) = stack[w][Len(stack[w])]
        /\ K!Top(w) \in KinFrame
  BY <1>1, TopIsFrame DEF K!Top
<1>3. \A i \in DOMAIN stack[w] : stack[w][i] \in KinFrame
  BY <1>1
<1>4. QED
  BY <1>1, <1>2, <1>3 DEF KinTyped, KinFrame, CallsNamed

\* The frame on top is left.
LEMMA PopEffect ==
  ASSUME KinTyped, NEW w \in Holder, stack[w] # <<>>, K!Pop(w)
  PROVE  /\ stack' \in [Holder -> Seq(KinFrame)]
         /\ FramesKept(w) /\ Others(w)
         /\ \A i \in DOMAIN stack'[w] : i # Len(stack[w])
         /\ \A v \in Holder : CallsNamed(stack'[v])
<1> DEFINE s == stack[w]
           d == IF Len(s) = 1 THEN <<>>
                ELSE [K!Front(s) EXCEPT ![Len(s) - 1].pc = "reading"]
<1>1. stack' = [stack EXCEPT ![w] = d]
  BY DEF K!Pop
<1>2. /\ s \in Seq(KinFrame) /\ s # <<>> /\ Len(s) \in Nat \ {0}
      /\ DOMAIN s = 1..Len(s)
      /\ \A i \in DOMAIN s : i # Len(s) => s[i].child \in Kin
  BY KinFrames
<1>3. /\ d \in Seq(KinFrame) /\ DOMAIN d = 1..(Len(s) - 1)
      /\ \A i \in DOMAIN d :
           /\ d[i].run = s[i].run /\ d[i].depth = s[i].depth
           /\ d[i].child = s[i].child
           /\ d[i].pc = "reading" \/ (i < Len(s) - 1 /\ d[i] = s[i])
  BY <1>2, Popped
<1> HIDE DEF d
<1>4. \A i \in DOMAIN d : i \in DOMAIN s /\ i # Len(s)
  BY <1>2, <1>3
<1>5. CallsNamed(d)
  BY <1>2, <1>3, <1>4 DEF CallsNamed
<1>6. /\ stack' \in [Holder -> Seq(KinFrame)] /\ stack'[w] = d /\ Others(w)
      /\ \A v \in Holder : CallsNamed(stack'[v])
  BY <1>1, <1>3, <1>5, StackSet
<1>7. FramesKept(w)
  BY <1>3, <1>4, <1>6 DEF FramesKept
<1>8. QED
  BY <1>4, <1>6, <1>7

\* The frame on top is replaced by one of the same run that is not "spawned".
LEMMA TopEffect ==
  ASSUME KinTyped, NEW w \in Holder, stack[w] # <<>>, NEW f \in KinFrame,
         f.run = K!Top(w).run, f.depth = K!Top(w).depth,
         f.pc \in Calling => f.child \in Kin,
         K!SetTop(w, f)
  PROVE  /\ stack' \in [Holder -> Seq(KinFrame)] /\ Others(w)
         /\ DOMAIN stack'[w] = DOMAIN stack[w]
         /\ stack'[w][Len(stack[w])] = f
         /\ \A i \in DOMAIN stack[w] :
              i # Len(stack[w]) => stack'[w][i] = stack[w][i]
         /\ f.pc # "spawned" => FramesKept(w)
         /\ \A v \in Holder : CallsNamed(stack'[v])
<1> DEFINE s == stack[w]
           d == [s EXCEPT ![Len(s)] = f]
<1>1. stack \in [Holder -> Seq(KinFrame)]
  BY DEF KinTyped
<1>2. stack' = [stack EXCEPT ![w] = d]
  BY DEF K!SetTop
<1>3. /\ s \in Seq(KinFrame) /\ s # <<>> /\ Len(s) \in Nat \ {0}
      /\ DOMAIN s = 1..Len(s) /\ K!Top(w) = s[Len(s)]
      /\ \A i \in DOMAIN s : i # Len(s) => s[i].child \in Kin
  BY KinFrames
<1>4. /\ d \in Seq(KinFrame) /\ DOMAIN d = DOMAIN s /\ d[Len(s)] = f
      /\ \A i \in DOMAIN s : i # Len(s) => d[i] = s[i]
  BY <1>3, TopSet
<1> HIDE DEF d
<1>5. CallsNamed(d)
  <2>1. Len(d) = Len(s)
    BY <1>3, <1>4
  <2>2. QED
    BY <1>3, <1>4, <2>1 DEF CallsNamed
<1>6. /\ stack' \in [Holder -> Seq(KinFrame)] /\ stack'[w] = d /\ Others(w)
      /\ \A v \in Holder : CallsNamed(stack'[v])
  BY <1>2, <1>4, <1>5, StackSet
<1>7. f.pc # "spawned" => FramesKept(w)
  BY <1>3, <1>4, <1>6 DEF FramesKept
<1>8. QED
  BY <1>4, <1>6, <1>7

(* What each step does, frame by frame and row by row. *)

\* A run that nobody else writes ends or parks, and its frame is left.
LEMMA LeaveEffect ==
  ASSUME KinTyped, NEW w \in Holder,
         K!Park(w) \/ \E s \in K!Terminal : K!Finish(w, s)
  PROVE  /\ KinTyped' /\ FramesKept(w) /\ Others(w)
         /\ Len(stack[w]) \in DOMAIN stack[w]
         /\ \A i \in DOMAIN stack'[w] : i # Len(stack[w])
         /\ \E s \in {"parked"} \cup K!Terminal :
              RowSet(stack[w][Len(stack[w])].run, s)
         /\ UNCHANGED <<due, told, promoted, stolen>>
<1>1. stack[w] # <<>> /\ K!Pop(w) /\ UNCHANGED <<due, told, promoted, stolen>>
  BY DEF K!Park, K!Finish, K!On
<1>2. /\ Len(stack[w]) \in DOMAIN stack[w]
      /\ K!Top(w) = stack[w][Len(stack[w])] /\ K!Top(w).run \in Kin
      /\ kin \in [Kin -> KinRow]
  BY <1>1, KinFrames DEF KinTyped
<1>3. PICK s \in {"parked"} \cup K!Terminal :
        \E b \in {"none", "fresh", "stale"} : K!SetRow(K!Top(w).run, s, b)
  BY <1>2 DEF K!Park, K!Finish, KinRow
<1>4. s \in KinStatus
  BY DEF KinStatus
<1>5. kin' \in [Kin -> KinRow] /\ RowSet(stack[w][Len(stack[w])].run, s)
  BY <1>2, <1>3, <1>4, KinSet
<1>6. /\ stack' \in [Holder -> Seq(KinFrame)] /\ FramesKept(w) /\ Others(w)
      /\ \A i \in DOMAIN stack'[w] : i # Len(stack[w])
      /\ \A v \in Holder : CallsNamed(stack'[v])
  BY <1>1, PopEffect
<1>7. KinTyped'
  BY <1>1, <1>5, <1>6 DEF KinTyped
<1>8. QED
  BY <1>1, <1>2, <1>5, <1>6, <1>7

LEMMA TakeEffect ==
  ASSUME KinTyped, NEW w \in Holder, NEW r \in Kin, K!Take(w, r)
  PROVE  /\ KinTyped' /\ r \in due /\ due' = due \ {r} /\ Others(w)
         /\ UNCHANGED <<told, stolen>>
         /\ \/ UNCHANGED <<kin, stack, promoted>>
            \/ /\ kin[r].status \in {"queued", "parked"}
               /\ RowSet(r, "running")
               /\ DOMAIN stack'[w] = {1}
               /\ stack'[w][1] = K!Frame(r, 0)
               /\ promoted' = IF kin[r].parent = NoRun THEN promoted
                              ELSE promoted \cup {r}
<1>1. r \in due /\ due' = due \ {r} /\ UNCHANGED <<told, stolen>>
  BY DEF K!Take
<1>2. CASE UNCHANGED <<kin, stack, promoted>>
  BY <1>1, <1>2 DEF KinTyped, Others
<1>3. CASE kin[r].status \in {"queued", "parked"}
  <2> DEFINE f == K!Frame(r, 0)
             d == <<f>>
  <2>1. /\ K!SetRow(r, "running", "fresh")
        /\ stack' = [stack EXCEPT ![w] = d]
        /\ promoted' = IF kin[r].parent = NoRun THEN promoted
                       ELSE promoted \cup {r}
    BY <1>3 DEF K!Take
  <2>2. f \in KinFrame /\ f.pc \notin Calling
    BY DEF K!Frame, KinFrame, Calling
  <2> HIDE DEF f
  <2>3. d \in Seq(KinFrame) /\ DOMAIN d = {1} /\ d[1] = f /\ Len(d) = 1
    BY <2>2
  <2> HIDE DEF d
  <2>4. CallsNamed(d)
    BY <2>2, <2>3 DEF CallsNamed
  <2>5. /\ stack' \in [Holder -> Seq(KinFrame)] /\ stack'[w] = d /\ Others(w)
        /\ \A v \in Holder : CallsNamed(stack'[v])
    BY <2>1, <2>3, <2>4, StackSet
  <2>6. "running" \in KinStatus
    BY DEF KinStatus
  <2>7. kin' \in [Kin -> KinRow] /\ RowSet(r, "running")
    BY <2>1, <2>6, KinSet DEF KinTyped
  <2>8. KinTyped'
    BY <1>1, <2>1, <2>5, <2>7 DEF KinTyped
  <2>9. QED
    BY <1>1, <1>3, <2>1, <2>3, <2>5, <2>7, <2>8 DEF f
<1>4. QED
  BY <1>2, <1>3 DEF K!Take

LEMMA DelegateEffect ==
  ASSUME KinTyped, NEW w \in Holder, NEW c \in Kin, K!Delegate(w, c)
  PROVE  LET n == Len(stack[w])
             f == stack[w][n]
         IN  /\ KinTyped' /\ Others(w) /\ n \in DOMAIN stack[w]
             /\ f.depth < MaxDepth /\ kin[c].status = "none"
             /\ kin'[c].status = "queued" /\ kin'[c].parent = f.run
             /\ \A q \in Kin : q # c => kin'[q] = kin[q]
             /\ DOMAIN stack'[w] = DOMAIN stack[w]
             /\ stack'[w][n] = [f EXCEPT !.child = c, !.pc = "spawned"]
             /\ \A i \in DOMAIN stack[w] :
                  i # n => stack'[w][i] = stack[w][i]
             /\ UNCHANGED <<due, told, promoted, stolen>>
<1> DEFINE n == Len(stack[w])
           f == stack[w][n]
           g == [f EXCEPT !.child = c, !.pc = "spawned"]
           x == [status |-> "queued", parent |-> f.run, beat |-> "none"]
<1>1. stack[w] # <<>> /\ UNCHANGED <<due, told, promoted, stolen>>
  BY DEF K!Delegate, K!On
<1>2. /\ n \in DOMAIN stack[w] /\ K!Top(w) = f /\ f \in KinFrame /\ f.run \in Kin
  BY <1>1, KinFrames DEF KinFrame
<1>3. /\ f.depth < MaxDepth /\ kin[c].status = "none"
      /\ kin' = [kin EXCEPT ![c] = x] /\ K!SetTop(w, g)
  BY <1>2 DEF K!Delegate
<1>4. /\ g \in KinFrame /\ g.run = f.run /\ g.depth = f.depth
      /\ g.child = c /\ c \in Kin
  BY <1>2 DEF KinFrame
<1>5. x \in KinRow
  BY <1>2 DEF KinRow
<1>6. x.status = "queued" /\ x.parent = f.run
  OBVIOUS
<1> HIDE DEF g, x
<1>7. /\ stack' \in [Holder -> Seq(KinFrame)] /\ Others(w)
      /\ DOMAIN stack'[w] = DOMAIN stack[w] /\ stack'[w][n] = g
      /\ \A i \in DOMAIN stack[w] : i # n => stack'[w][i] = stack[w][i]
      /\ \A v \in Holder : CallsNamed(stack'[v])
  BY <1>1, <1>2, <1>3, <1>4, TopEffect
<1>8. /\ kin' \in [Kin -> KinRow] /\ kin'[c] = x
      /\ \A q \in Kin : q # c => kin'[q] = kin[q]
  BY <1>3, <1>5 DEF KinTyped
<1>9. KinTyped'
  BY <1>1, <1>7, <1>8 DEF KinTyped
<1>10. QED
  BY <1>1, <1>2, <1>3, <1>6, <1>7, <1>8, <1>9 DEF g

LEMMA ClaimChildEffect ==
  ASSUME KinTyped, NEW w \in Holder, K!ClaimChild(w)
  PROVE  LET n == Len(stack[w])
             f == stack[w][n]
         IN  /\ KinTyped' /\ Others(w) /\ n \in DOMAIN stack[w]
             /\ f.pc = "spawned" /\ f.child \in Kin
             /\ RowSet(f.child, "running")
             /\ DOMAIN stack'[w] = DOMAIN stack[w] \cup {n + 1}
             /\ n + 1 \notin DOMAIN stack[w]
             /\ stack'[w][n].run = f.run /\ stack'[w][n].depth = f.depth
             /\ stack'[w][n].pc = "waiting"
             /\ stack'[w][n + 1] = K!Frame(f.child, f.depth + 1)
             /\ \A i \in DOMAIN stack[w] :
                  i # n => stack'[w][i] = stack[w][i]
             /\ UNCHANGED <<due, told, promoted, stolen>>
<1> DEFINE s == stack[w]
           n == Len(s)
           f == s[n]
           g == K!Frame(f.child, f.depth + 1)
           e == [f EXCEPT !.pc = "waiting"]
           d == Append([s EXCEPT ![Len(s)].pc = "waiting"], g)
<1>1. s # <<>> /\ UNCHANGED <<due, told, promoted, stolen>>
  BY DEF K!ClaimChild, K!On
<1>2. /\ s \in Seq(KinFrame) /\ n \in DOMAIN s /\ n \in Nat \ {0}
      /\ DOMAIN s = 1..n /\ K!Top(w) = f /\ f \in KinFrame
      /\ f.run \in Kin /\ f.depth \in Nat
      /\ \A i \in DOMAIN s : i # n \/ s[i].pc \in Calling => s[i].child \in Kin
  BY <1>1, KinFrames
<1>3. /\ f.pc = "spawned" /\ K!SetRow(f.child, "running", "fresh")
      /\ stack' = [stack EXCEPT ![w] = d]
  BY <1>2 DEF K!ClaimChild, K!On, K!Deeper
<1>4. f.child \in Kin
  BY <1>2, <1>3 DEF Calling
<1>5. g \in KinFrame /\ g.pc = "active"
  BY <1>2, <1>4 DEF K!Frame, KinFrame
<1>6. /\ e.run = f.run /\ e.depth = f.depth /\ e.pc = "waiting"
      /\ e.child = f.child
  BY <1>2 DEF KinFrame
<1> HIDE DEF g
<1>7. /\ d \in Seq(KinFrame) /\ DOMAIN d = 1..(n + 1) /\ d[n] = e
      /\ d[n + 1] = g /\ \A i \in DOMAIN s : i # n => d[i] = s[i]
  BY <1>1, <1>2, <1>5, Descended
<1> HIDE DEF d, e
<1>8. DOMAIN d = DOMAIN s \cup {n + 1} /\ n + 1 \notin DOMAIN s
  BY <1>2, <1>7
<1>9. CallsNamed(d)
  <2> SUFFICES ASSUME NEW i \in DOMAIN d, i # Len(d) \/ d[i].pc \in Calling
               PROVE  d[i].child \in Kin
    BY DEF CallsNamed
  <2>1. Len(d) = n + 1
    BY <1>2, <1>7
  <2>2. CASE i = n + 1
    BY <1>5, <1>7, <2>1, <2>2 DEF Calling
  <2>3. CASE i = n
    BY <1>4, <1>6, <1>7, <2>3
  <2>4. CASE i \in DOMAIN s /\ i # n
    BY <1>2, <1>7, <2>4
  <2>5. QED
    BY <1>8, <2>2, <2>3, <2>4
<1>10. /\ stack' \in [Holder -> Seq(KinFrame)] /\ stack'[w] = d /\ Others(w)
       /\ \A v \in Holder : CallsNamed(stack'[v])
  BY <1>3, <1>7, <1>9, StackSet
<1>11. "running" \in KinStatus
  BY DEF KinStatus
<1>12. kin' \in [Kin -> KinRow] /\ RowSet(f.child, "running")
  BY <1>3, <1>4, <1>11, KinSet DEF KinTyped
<1>13. KinTyped'
  BY <1>1, <1>10, <1>12 DEF KinTyped
<1>14. QED
  BY <1>1, <1>2, <1>3, <1>4, <1>6, <1>7, <1>8, <1>10, <1>12, <1>13 DEF g

\* The tool call is answered, with an error, an outcome or a timeout: the frame
\* goes on and the frames above it are gone.
LEMMA AnsweredEffect ==
  ASSUME KinTyped, NEW w \in Holder,
         K!ChildRaises(w) \/ K!ReadOutcome(w) \/ \E i \in Nat : K!TimesOut(w, i)
  PROVE  /\ KinTyped' /\ FramesKept(w) /\ Others(w)
         /\ \E i \in DOMAIN stack[w] :
              LET c == stack[w][i].child
              IN  /\ c \in Kin
                  /\ i \in DOMAIN stack'[w] => stack'[w][i].pc = "active"
                  /\ \/ /\ stack[w][i].pc = "spawned" /\ RowSet(c, "running")
                        /\ told' = [told EXCEPT ![c] = "error"]
                     \/ /\ RowsStay
                        /\ told' = [told EXCEPT ![c] = "timeout"]
                     \/ /\ RowsStay
                        /\ told' = [told EXCEPT ![c] =
                                      K!Outcome(kin[c].status)]
         /\ UNCHANGED <<due, promoted, stolen>>
<1>1. UNCHANGED <<due, promoted, stolen>>
  BY DEF K!ChildRaises, K!ReadOutcome, K!TimesOut
<1>2. kin \in [Kin -> KinRow]
      /\ told \in [Kin -> {"nothing", "error", "answer", "status", "timeout"}]
  BY DEF KinTyped
<1> DEFINE n == Len(stack[w])
<1>3. CASE K!ChildRaises(w) \/ K!ReadOutcome(w)
  <2> DEFINE f == stack[w][n]
             g == [f EXCEPT !.child = NoRun, !.pc = "active"]
  <2>1. stack[w] # <<>> /\ K!Top(w).pc \in {"spawned", "reading"}
    BY <1>3 DEF K!ChildRaises, K!ReadOutcome, K!On
  <2>2. /\ n \in DOMAIN stack[w] /\ K!Top(w) = f /\ f \in KinFrame
        /\ f.run \in Kin /\ f.child \in Kin
    BY <2>1, KinFrames DEF Calling
  <2>3. K!SetTop(w, g)
    BY <1>3, <2>2 DEF K!ChildRaises, K!ReadOutcome
  <2>4. /\ g \in KinFrame /\ g.run = f.run /\ g.depth = f.depth
        /\ g.pc = "active"
    BY <2>2 DEF KinFrame
  <2> HIDE DEF g
  <2>5. /\ stack' \in [Holder -> Seq(KinFrame)] /\ Others(w)
        /\ stack'[w][n] = g /\ FramesKept(w)
        /\ \A v \in Holder : CallsNamed(stack'[v])
    BY <2>1, <2>2, <2>3, <2>4, TopEffect DEF Calling
  <2>6. CASE K!ChildRaises(w)
    <3>1. /\ f.pc = "spawned" /\ K!SetRow(f.child, "running", "fresh")
          /\ told' = [told EXCEPT ![f.child] = "error"]
      BY <2>2, <2>6 DEF K!ChildRaises, K!On
    <3>2. "running" \in KinStatus
      BY DEF KinStatus
    <3>3. kin' \in [Kin -> KinRow] /\ RowSet(f.child, "running")
      BY <1>2, <2>2, <3>1, <3>2, KinSet
    <3>4. KinTyped'
      BY <1>1, <1>2, <2>2, <2>5, <3>1, <3>3 DEF KinTyped
    <3>5. QED
      BY <1>1, <2>2, <2>4, <2>5, <3>1, <3>3, <3>4
  <2>7. CASE K!ReadOutcome(w)
    <3>1. /\ kin' = [kin EXCEPT ![f.run].beat = "fresh"]
          /\ told' = [told EXCEPT ![f.child] = K!Outcome(kin[f.child].status)]
      BY <2>2, <2>7 DEF K!ReadOutcome
    <3>2. kin' \in [Kin -> KinRow] /\ RowsStay
      BY <1>2, <2>2, <3>1, KinBeat
    <3>3. K!Outcome(kin[f.child].status) \in {"answer", "status"}
      BY DEF K!Outcome
    <3>4. told' \in [Kin -> {"nothing", "error", "answer", "status", "timeout"}]
      BY <1>2, <2>2, <3>1, <3>3
    <3>5. KinTyped'
      BY <1>1, <2>5, <3>2, <3>4 DEF KinTyped
    <3>6. QED
      BY <1>1, <2>2, <2>4, <2>5, <3>1, <3>2, <3>5
  <2>8. QED
    BY <1>3, <2>6, <2>7
<1>4. ASSUME NEW i \in Nat, K!TimesOut(w, i)
      PROVE  /\ KinTyped' /\ FramesKept(w) /\ Others(w)
             /\ i \in DOMAIN stack[w] /\ stack[w][i].child \in Kin
             /\ stack'[w][i].pc = "active"
             /\ RowsStay
             /\ told' = [told EXCEPT ![stack[w][i].child] = "timeout"]
  <2> DEFINE s == stack[w]
             f == s[i]
             g == [f EXCEPT !.child = NoRun, !.pc = "active"]
             d == Append(SubSeq(s, 1, i - 1), g)
  <2>1. /\ i \in DOMAIN s /\ f.pc \in Calling
        /\ told' = [told EXCEPT ![f.child] = "timeout"]
        /\ kin' = [kin EXCEPT ![f.run].beat = "fresh"]
        /\ stack' = [stack EXCEPT ![w] = d]
    BY <1>4 DEF K!TimesOut, Calling
  <2>2. /\ s \in Seq(KinFrame) /\ f \in KinFrame /\ f.run \in Kin
        /\ f.child \in Kin /\ Len(s) \in Nat /\ DOMAIN s = 1..Len(s)
        /\ \A k \in DOMAIN s : k # Len(s) \/ s[k].pc \in Calling
                                => s[k].child \in Kin
    BY <2>1, KinFrames
  <2>3. /\ g \in KinFrame /\ g.run = f.run /\ g.depth = f.depth
        /\ g.pc = "active"
    BY <2>2 DEF KinFrame
  <2> HIDE DEF g
  <2>4. /\ d \in Seq(KinFrame) /\ DOMAIN d = 1..i /\ d[i] = g
        /\ \A k \in 1..(i - 1) : k \in DOMAIN s /\ d[k] = s[k]
    BY <2>1, <2>2, <2>3, CutBack
  <2> HIDE DEF d
  <2>5. Len(d) = i /\ \A k \in DOMAIN d : k = i \/ (k \in 1..(i - 1) /\ k < Len(s))
    BY <2>1, <2>2, <2>4
  <2>6. CallsNamed(d)
    <3> SUFFICES ASSUME NEW k \in DOMAIN d, k # Len(d) \/ d[k].pc \in Calling
                 PROVE  d[k].child \in Kin
      BY DEF CallsNamed
    <3>1. CASE k = i
      BY <2>3, <2>4, <2>5, <3>1 DEF Calling
    <3>2. CASE k \in 1..(i - 1) /\ k < Len(s)
      BY <2>2, <2>4, <3>2
    <3>3. QED
      BY <2>5, <3>1, <3>2
  <2>7. /\ stack' \in [Holder -> Seq(KinFrame)] /\ stack'[w] = d /\ Others(w)
        /\ \A v \in Holder : CallsNamed(stack'[v])
    BY <2>1, <2>4, <2>6, StackSet
  <2>8. kin' \in [Kin -> KinRow] /\ RowsStay
    BY <1>2, <2>1, <2>2, KinBeat
  <2>9. KinTyped'
    BY <1>1, <1>2, <2>1, <2>2, <2>7, <2>8 DEF KinTyped
  <2>10. FramesKept(w)
    <3> SUFFICES ASSUME NEW k \in DOMAIN d
                 PROVE  /\ k \in DOMAIN s
                        /\ d[k].run = s[k].run /\ d[k].depth = s[k].depth
                        /\ d[k].pc = "spawned" => d[k] = s[k]
      BY <2>7 DEF FramesKept
    <3>1. CASE k = i
      BY <2>1, <2>3, <2>4, <3>1
    <3>2. CASE k \in 1..(i - 1)
      BY <2>4, <3>2
    <3>3. QED
      BY <2>5, <3>1, <3>2
  <2>11. QED
    BY <2>1, <2>2, <2>3, <2>4, <2>7, <2>8, <2>9, <2>10
<1>5. QED
  BY <1>1, <1>3, <1>4

(* A child has one driver, unless it was stolen. *)
Holds(w, i, r)  == i \in DOMAIN stack[w] /\ stack[w][i].run = r
Spawns(w, i, c) == /\ i \in DOMAIN stack[w]
                   /\ stack[w][i].pc = "spawned" /\ stack[w][i].child = c

\* A run that was not stolen is running in the one frame it has.
HeldOnce ==
  \A w \in Holder : \A i, r : Holds(w, i, r) /\ r \notin stolen =>
    /\ kin[r].status = "running"
    /\ \A v \in Holder : \A k : Holds(v, k, r) => v = w /\ k = i

\* A child that is made and not yet claimed is known to its parent alone.
SpawnedOnce ==
  \A w \in Holder : \A i, c : Spawns(w, i, c) =>
    /\ kin[c].status = "queued" /\ c \notin due
    /\ \A v \in Holder : \A k :
         ~Holds(v, k, c) /\ (Spawns(v, k, c) => v = w /\ k = i)

\* Nobody has heard of a run that is not there.
UnknownRuns ==
  \A c \in Kin : kin[c].status = "none" =>
    /\ kin[c].parent = NoRun /\ c \notin stolen /\ c \notin due

ChildInv == /\ KinTyped /\ HeldOnce /\ SpawnedOnce /\ UnknownRuns
            /\ K!AnswerIsEarned

LEMMA FramesHeld ==
  ASSUME NEW w \in Holder, FramesKept(w)
  PROVE  \A i, r : /\ Holds(w, i, r)' => Holds(w, i, r)
                   /\ Spawns(w, i, r)' => Spawns(w, i, r)
BY DEF FramesKept, Holds, Spawns

LEMMA SameFrames ==
  ASSUME NEW w \in Holder, stack'[w] = stack[w]
  PROVE  FramesKept(w)
BY DEF FramesKept

\* Frames that only go, rows that nobody holds any more or that stay.
LEMMA FewerFrames ==
  ASSUME ChildInv, KinTyped', UNCHANGED stolen,
         \A w \in Holder : FramesKept(w),
         \A c : c \in due' => c \in due \/ kin[c].status \in {"parked", "running"},
         \A r \in Kin :
           \/ /\ kin'[r].status = kin[r].status
              /\ kin'[r].parent = kin[r].parent
           \/ /\ kin'[r].status # "none"
              /\ \A w \in Holder : \A i : ~Spawns(w, i, r)'
              /\ r \in stolen \/ \A w \in Holder : \A i : ~Holds(w, i, r)'
  PROVE  HeldOnce' /\ SpawnedOnce' /\ UnknownRuns'
<1>1. \A w \in Holder : \A i, r : /\ Holds(w, i, r)' => Holds(w, i, r)
                                  /\ Spawns(w, i, r)' => Spawns(w, i, r)
  BY FramesHeld
<1>2. \A w \in Holder : \A i, r : Holds(w, i, r) => r \in Kin
  BY KinFrames DEF Holds, ChildInv
<1>3. \A w \in Holder : \A i, r : Spawns(w, i, r) => r \in Kin
  BY KinFrames DEF Spawns, ChildInv, Calling
<1>4. HeldOnce'
  <2> SUFFICES ASSUME NEW w \in Holder, NEW i, NEW r, Holds(w, i, r)',
                      r \notin stolen
               PROVE  /\ kin'[r].status = "running"
                      /\ \A v \in Holder : \A k :
                           Holds(v, k, r)' => v = w /\ k = i
    BY DEF HeldOnce
  <2>1. Holds(w, i, r) /\ r \in Kin
    BY <1>1, <1>2
  <2>2. /\ kin[r].status = "running"
        /\ \A v \in Holder : \A k : Holds(v, k, r) => v = w /\ k = i
    BY <2>1 DEF HeldOnce, ChildInv
  <2>3. kin'[r].status = kin[r].status
    BY <2>1
  <2>4. QED
    BY <1>1, <2>2, <2>3
<1>5. SpawnedOnce'
  <2> SUFFICES ASSUME NEW w \in Holder, NEW i, NEW c, Spawns(w, i, c)'
               PROVE  /\ kin'[c].status = "queued" /\ c \notin due'
                      /\ \A v \in Holder : \A k :
                           /\ ~Holds(v, k, c)'
                           /\ Spawns(v, k, c)' => v = w /\ k = i
    BY DEF SpawnedOnce
  <2>1. Spawns(w, i, c) /\ c \in Kin
    BY <1>1, <1>3
  <2>2. /\ kin[c].status = "queued" /\ c \notin due
        /\ \A v \in Holder : \A k :
             ~Holds(v, k, c) /\ (Spawns(v, k, c) => v = w /\ k = i)
    BY <2>1 DEF SpawnedOnce, ChildInv
  <2>3. kin'[c].status = kin[c].status /\ c \notin due'
    BY <2>1, <2>2
  <2>4. QED
    BY <1>1, <2>2, <2>3
<1>6. UnknownRuns'
  <2> SUFFICES ASSUME NEW c \in Kin, kin'[c].status = "none"
               PROVE  kin'[c].parent = NoRun /\ c \notin stolen /\ c \notin due'
    BY DEF UnknownRuns
  <2>1. kin'[c].status = kin[c].status /\ kin'[c].parent = kin[c].parent
    OBVIOUS
  <2>2. QED
    BY <2>1 DEF UnknownRuns, ChildInv
<1>7. QED
  BY <1>4, <1>5, <1>6

\* What the model was told stays earned while no successful child is written.
LEMMA EarnedKept ==
  ASSUME ChildInv, stolen \subseteq stolen',
         \A c \in Kin : told'[c] = "answer" =>
           told[c] = "answer" \/ kin[c].status = "succeeded",
         \A c \in Kin : kin[c].status = "succeeded" =>
           kin'[c].status = "succeeded" \/ c \in stolen'
  PROVE  K!AnswerIsEarned'
BY DEF ChildInv, K!AnswerIsEarned

LEMMA LeaveChild ==
  ASSUME ChildInv, NEW w \in Holder,
         K!Park(w) \/ \E s \in K!Terminal : K!Finish(w, s)
  PROVE  ChildInv'
<1>1. /\ KinTyped' /\ FramesKept(w) /\ Others(w)
      /\ Len(stack[w]) \in DOMAIN stack[w]
      /\ \A i \in DOMAIN stack'[w] : i # Len(stack[w])
      /\ UNCHANGED <<due, told, promoted, stolen>>
  BY LeaveEffect DEF ChildInv
<1>2. PICK s \in {"parked"} \cup K!Terminal :
        RowSet(stack[w][Len(stack[w])].run, s)
  BY LeaveEffect DEF ChildInv
<1>3. s # "none"
  BY DEF K!Terminal
<1>4. PICK n : n = Len(stack[w])
  OBVIOUS
<1>5. PICK r \in Kin : r = stack[w][n].run
  BY <1>1, <1>4, KinFrames DEF ChildInv
<1>6. Holds(w, n, r) /\ ~Holds(w, n, r)' /\ RowSet(r, s)
  BY <1>1, <1>2, <1>4, <1>5 DEF Holds
<1>7. \A v \in Holder : FramesKept(v)
  BY <1>1, SameFrames DEF Others
<1>8. \A v \in Holder : \A i, q : /\ Holds(v, i, q)' => Holds(v, i, q)
                                  /\ Spawns(v, i, q)' => Spawns(v, i, q)
  BY <1>7, FramesHeld
<1>9. \A v \in Holder : \A i : ~Spawns(v, i, r)'
  BY <1>6, <1>8 DEF ChildInv, SpawnedOnce
<1>10. r \in stolen \/ \A v \in Holder : \A i : ~Holds(v, i, r)'
  BY <1>6, <1>8 DEF ChildInv, HeldOnce
<1>11. HeldOnce' /\ SpawnedOnce' /\ UnknownRuns'
  BY <1>1, <1>3, <1>6, <1>7, <1>9, <1>10, FewerFrames DEF RowSet
<1>12. kin[r].status # "succeeded" \/ r \in stolen
  BY <1>6 DEF ChildInv, HeldOnce
<1>13. K!AnswerIsEarned'
  BY <1>1, <1>6, <1>12, EarnedKept DEF RowSet
<1>14. QED
  BY <1>1, <1>11, <1>13 DEF ChildInv

LEMMA AnsweredChild ==
  ASSUME ChildInv, NEW w \in Holder,
         K!ChildRaises(w) \/ K!ReadOutcome(w) \/ \E i \in Nat : K!TimesOut(w, i)
  PROVE  ChildInv'
<1>1. /\ KinTyped' /\ FramesKept(w) /\ Others(w)
      /\ UNCHANGED <<due, promoted, stolen>>
  BY AnsweredEffect DEF ChildInv
<1>2. PICK i \in DOMAIN stack[w] :
        /\ stack[w][i].child \in Kin
        /\ i \in DOMAIN stack'[w] => stack'[w][i].pc = "active"
        /\ \/ /\ stack[w][i].pc = "spawned"
              /\ RowSet(stack[w][i].child, "running")
              /\ told' = [told EXCEPT ![stack[w][i].child] = "error"]
           \/ /\ RowsStay
              /\ told' = [told EXCEPT ![stack[w][i].child] = "timeout"]
           \/ /\ RowsStay
              /\ told' = [told EXCEPT ![stack[w][i].child] =
                            K!Outcome(kin[stack[w][i].child].status)]
  BY AnsweredEffect DEF ChildInv
<1>3. PICK c \in Kin : c = stack[w][i].child
  BY <1>2
<1>4. \A v \in Holder : FramesKept(v)
  BY <1>1, SameFrames DEF Others
<1>5. \A v \in Holder : \A k, q : /\ Holds(v, k, q)' => Holds(v, k, q)
                                  /\ Spawns(v, k, q)' => Spawns(v, k, q)
  BY <1>4, FramesHeld
<1>6. told \in [Kin -> {"nothing", "error", "answer", "status", "timeout"}]
  BY DEF ChildInv, KinTyped
<1>7. CASE /\ stack[w][i].pc = "spawned" /\ RowSet(c, "running")
           /\ told' = [told EXCEPT ![c] = "error"]
  <2>1. Spawns(w, i, c)
    BY <1>3, <1>7 DEF Spawns
  <2>2. /\ kin[c].status = "queued"
        /\ \A v \in Holder : \A k :
             ~Holds(v, k, c) /\ (Spawns(v, k, c) => v = w /\ k = i)
    BY <2>1 DEF ChildInv, SpawnedOnce
  <2>3. ~Spawns(w, i, c)'
    BY <1>2 DEF Spawns
  <2>4. \A v \in Holder : \A k : ~Holds(v, k, c)' /\ ~Spawns(v, k, c)'
    BY <1>5, <2>2, <2>3
  <2>5. HeldOnce' /\ SpawnedOnce' /\ UnknownRuns'
    BY <1>1, <1>4, <1>7, <2>4, FewerFrames DEF RowSet
  <2>6. K!AnswerIsEarned'
    BY <1>1, <1>6, <1>7, <2>2, EarnedKept DEF RowSet
  <2>7. QED
    BY <1>1, <2>5, <2>6 DEF ChildInv
<1>8. CASE /\ RowsStay
           /\ \/ told' = [told EXCEPT ![c] = "timeout"]
              \/ told' = [told EXCEPT ![c] = K!Outcome(kin[c].status)]
  <2>1. HeldOnce' /\ SpawnedOnce' /\ UnknownRuns'
    BY <1>1, <1>4, <1>8, FewerFrames DEF RowsStay
  <2>2. K!Outcome(kin[c].status) = "answer" => kin[c].status = "succeeded"
    BY DEF K!Outcome
  <2>3. K!AnswerIsEarned'
    BY <1>1, <1>6, <1>8, <2>2, EarnedKept DEF RowsStay
  <2>4. QED
    BY <1>1, <2>1, <2>3 DEF ChildInv
<1>9. QED
  BY <1>2, <1>3, <1>7, <1>8

\* Steps that leave every row's status, or send a run back to the queue.
LEMMA QueueChild ==
  ASSUME ChildInv,
         \/ \E w \in Holder : K!Crash(w)
         \/ \E r \in Kin : \/ K!Decide(r) \/ K!HeartbeatExpires(r)
                           \/ K!RequeueOrphaned(r)
         \/ UNCHANGED kinVars
  PROVE  ChildInv'
<1>1. KinTyped /\ kin \in [Kin -> KinRow] /\ stack \in [Holder -> Seq(KinFrame)]
  BY DEF ChildInv, KinTyped
<1>2. UNCHANGED stack => \A v \in Holder : FramesKept(v)
  BY SameFrames
<1>3. CASE \E w \in Holder : K!Crash(w)
  <2>1. PICK w \in Holder : K!Crash(w)
    BY <1>3
  <2>2. /\ stack' = [stack EXCEPT ![w] = <<>>]
        /\ UNCHANGED <<kin, due, told, promoted, stolen>>
    BY <2>1 DEF K!Crash
  <2>3. <<>> \in Seq(KinFrame) /\ DOMAIN <<>> = {}
    OBVIOUS
  <2> DEFINE d == <<>>
  <2> HIDE DEF d
  <2>4. d \in Seq(KinFrame) /\ DOMAIN d = {} /\ stack' = [stack EXCEPT ![w] = d]
    BY <2>2, <2>3 DEF d
  <2>5. CallsNamed(d)
    BY <2>4 DEF CallsNamed
  <2>6. /\ stack' \in [Holder -> Seq(KinFrame)] /\ stack'[w] = d /\ Others(w)
        /\ \A v \in Holder : CallsNamed(stack'[v])
    BY <1>1, <2>4, <2>5, StackSet
  <2>7. KinTyped'
    BY <1>1, <2>2, <2>6 DEF KinTyped
  <2>8. \A v \in Holder : FramesKept(v)
    BY <2>4, <2>6, SameFrames DEF Others, FramesKept
  <2>9. HeldOnce' /\ SpawnedOnce' /\ UnknownRuns'
    BY <2>2, <2>7, <2>8, FewerFrames
  <2>10. K!AnswerIsEarned'
    BY <2>2, EarnedKept
  <2>11. QED
    BY <2>7, <2>9, <2>10 DEF ChildInv
<1>4. CASE \E r \in Kin : K!Decide(r)
  <2>1. PICK r \in Kin : K!Decide(r)
    BY <1>4
  <2>2. /\ kin[r].status = "parked" /\ due' = due \cup {r}
        /\ UNCHANGED <<kin, stack, told, promoted, stolen>>
    BY <2>1 DEF K!Decide
  <2>3. KinTyped'
    BY <1>1, <2>2 DEF KinTyped
  <2>4. HeldOnce' /\ SpawnedOnce' /\ UnknownRuns'
    BY <1>2, <2>2, <2>3, FewerFrames
  <2>5. K!AnswerIsEarned'
    BY <2>2, EarnedKept
  <2>6. QED
    BY <2>3, <2>4, <2>5 DEF ChildInv
<1>5. CASE \E r \in Kin : K!HeartbeatExpires(r)
  <2>1. PICK r \in Kin : K!HeartbeatExpires(r)
    BY <1>5
  <2>2. /\ kin' = [kin EXCEPT ![r].beat = "stale"]
        /\ UNCHANGED <<stack, due, told, promoted, stolen>>
    BY <2>1 DEF K!HeartbeatExpires
  <2>3. kin' \in [Kin -> KinRow] /\ RowsStay
    BY <1>1, <2>2, KinBeat
  <2>4. KinTyped'
    BY <1>1, <2>2, <2>3 DEF KinTyped
  <2>5. HeldOnce' /\ SpawnedOnce' /\ UnknownRuns'
    BY <1>2, <2>2, <2>3, <2>4, FewerFrames DEF RowsStay
  <2>6. K!AnswerIsEarned'
    BY <2>2, <2>3, EarnedKept DEF RowsStay
  <2>7. QED
    BY <2>4, <2>5, <2>6 DEF ChildInv
<1>6. CASE \E r \in Kin : K!RequeueOrphaned(r)
  <2>1. PICK r \in Kin : K!RequeueOrphaned(r)
    BY <1>6
  <2>2. /\ kin[r].status = "running" /\ K!SetRow(r, "queued", "none")
        /\ due' = due \cup {r}
        /\ stolen' = IF K!Driven(r) THEN stolen \cup {r} ELSE stolen
        /\ UNCHANGED <<stack, told, promoted>>
    BY <2>1 DEF K!RequeueOrphaned
  <2>3. "queued" \in KinStatus
    BY DEF KinStatus
  <2>4. kin' \in [Kin -> KinRow] /\ RowSet(r, "queued")
    BY <1>1, <2>2, <2>3, KinSet
  <2>5. KinTyped'
    BY <1>1, <2>2, <2>4 DEF KinTyped
  <2>6. \A w \in Holder : \A i, q : /\ Holds(w, i, q)' <=> Holds(w, i, q)
                                    /\ Spawns(w, i, q)' <=> Spawns(w, i, q)
    BY <2>2 DEF Holds, Spawns
  <2>7. r \in stolen' \/ \A w \in Holder : \A i : ~Holds(w, i, r)
    BY <2>2 DEF K!Driven, K!Drives, Holds
  <2>8. \A w \in Holder : \A i, c : Spawns(w, i, c) => c \in Kin /\ c # r
    <3>1. \A w \in Holder : \A i, c : Spawns(w, i, c) => c \in Kin
      BY <1>1, KinFrames DEF Spawns, Calling
    <3>2. QED
      BY <2>2, <3>1 DEF ChildInv, SpawnedOnce
  <2>9. \A w \in Holder : \A i, q : Holds(w, i, q) => q \in Kin
    BY <1>1, KinFrames DEF Holds
  <2>10. stolen \subseteq stolen' /\ stolen' \subseteq stolen \cup {r}
    BY <2>2
  <2>11. HeldOnce'
    <3> SUFFICES ASSUME NEW w \in Holder, NEW i, NEW q, Holds(w, i, q)',
                        q \notin stolen'
                 PROVE  /\ kin'[q].status = "running"
                        /\ \A v \in Holder : \A k :
                             Holds(v, k, q)' => v = w /\ k = i
      BY DEF HeldOnce
    <3>1. Holds(w, i, q) /\ q # r /\ q \in Kin /\ q \notin stolen
      BY <2>6, <2>7, <2>9, <2>10
    <3>2. QED
      BY <2>4, <2>6, <3>1 DEF ChildInv, HeldOnce, RowSet
  <2>12. SpawnedOnce'
    <3> SUFFICES ASSUME NEW w \in Holder, NEW i, NEW c, Spawns(w, i, c)'
                 PROVE  /\ kin'[c].status = "queued" /\ c \notin due'
                        /\ \A v \in Holder : \A k :
                             /\ ~Holds(v, k, c)'
                             /\ Spawns(v, k, c)' => v = w /\ k = i
      BY DEF SpawnedOnce
    <3>1. Spawns(w, i, c) /\ c # r /\ c \in Kin
      BY <2>6, <2>8
    <3>2. QED
      BY <2>2, <2>4, <2>6, <3>1 DEF ChildInv, SpawnedOnce, RowSet
  <2>13. UnknownRuns'
    <3> SUFFICES ASSUME NEW c \in Kin, kin'[c].status = "none"
                 PROVE  /\ kin'[c].parent = NoRun
                        /\ c \notin stolen' /\ c \notin due'
      BY DEF UnknownRuns
    <3>1. c # r /\ kin[c].status = "none" /\ kin'[c].parent = kin[c].parent
      BY <2>4 DEF RowSet
    <3>2. QED
      BY <2>2, <2>10, <3>1 DEF ChildInv, UnknownRuns
  <2>14. K!AnswerIsEarned'
    BY <2>2, <2>4, <2>10, EarnedKept DEF RowSet
  <2>15. QED
    BY <2>5, <2>11, <2>12, <2>13, <2>14 DEF ChildInv
<1>7. CASE UNCHANGED kinVars
  <2>1. UNCHANGED <<kin, stack, due, told, promoted, stolen>>
    BY <1>7 DEF kinVars
  <2>2. KinTyped'
    BY <1>1, <2>1 DEF KinTyped
  <2>3. HeldOnce' /\ SpawnedOnce' /\ UnknownRuns'
    BY <1>2, <2>1, <2>2, FewerFrames
  <2>4. K!AnswerIsEarned'
    BY <2>1, EarnedKept
  <2>5. QED
    BY <2>2, <2>3, <2>4 DEF ChildInv
<1>8. QED
  BY <1>3, <1>4, <1>5, <1>6, <1>7

LEMMA TakeChild ==
  ASSUME ChildInv, NEW w \in Holder, NEW r \in Kin, K!Take(w, r)
  PROVE  ChildInv'
<1>1. /\ KinTyped' /\ r \in due /\ due' = due \ {r} /\ Others(w)
      /\ UNCHANGED <<told, stolen>>
  BY TakeEffect DEF ChildInv
<1>2. CASE UNCHANGED <<kin, stack, promoted>>
  <2>1. \A v \in Holder : FramesKept(v)
    BY <1>2, SameFrames
  <2>2. HeldOnce' /\ SpawnedOnce' /\ UnknownRuns'
    BY <1>1, <1>2, <2>1, FewerFrames
  <2>3. K!AnswerIsEarned'
    BY <1>1, <1>2, EarnedKept
  <2>4. QED
    BY <1>1, <2>2, <2>3 DEF ChildInv
<1>3. CASE /\ kin[r].status \in {"queued", "parked"}
           /\ RowSet(r, "running")
           /\ DOMAIN stack'[w] = {1}
           /\ stack'[w][1] = K!Frame(r, 0)
  <2>1. stack'[w][1].run = r /\ stack'[w][1].pc = "active"
    BY <1>3 DEF K!Frame
  <2>2. \A v \in Holder : \A i, q :
          /\ Holds(v, i, q)' => Holds(v, i, q) \/ (v = w /\ i = 1 /\ q = r)
          /\ Spawns(v, i, q)' => Spawns(v, i, q)
    BY <1>1, <1>3, <2>1 DEF Others, Holds, Spawns
  <2>3. \A v \in Holder : \A i, q : Holds(v, i, q) => q \in Kin
    BY KinFrames DEF Holds, ChildInv
  <2>4. \A v \in Holder : \A i, q : Spawns(v, i, q) => q \in Kin
    BY KinFrames DEF Spawns, ChildInv, Calling
  <2>5. r \notin stolen => \A v \in Holder : \A i : ~Holds(v, i, r)
    BY <1>3 DEF ChildInv, HeldOnce
  <2>6. HeldOnce'
    <3> SUFFICES ASSUME NEW v \in Holder, NEW i, NEW q, Holds(v, i, q)',
                        q \notin stolen
                 PROVE  /\ kin'[q].status = "running"
                        /\ \A u \in Holder : \A k :
                             Holds(u, k, q)' => u = v /\ k = i
      BY <1>1 DEF HeldOnce
    <3>1. CASE q = r
      BY <1>3, <2>2, <2>5, <3>1 DEF RowSet
    <3>2. CASE q # r
      <4>1. Holds(v, i, q) /\ q \in Kin
        BY <2>2, <2>3, <3>2
      <4>2. QED
        BY <1>3, <2>2, <3>2, <4>1 DEF ChildInv, HeldOnce, RowSet
    <3>3. QED
      BY <3>1, <3>2
  <2>7. SpawnedOnce'
    <3> SUFFICES ASSUME NEW v \in Holder, NEW i, NEW c, Spawns(v, i, c)'
                 PROVE  /\ kin'[c].status = "queued" /\ c \notin due'
                        /\ \A u \in Holder : \A k :
                             /\ ~Holds(u, k, c)'
                             /\ Spawns(u, k, c)' => u = v /\ k = i
      BY DEF SpawnedOnce
    <3>1. Spawns(v, i, c) /\ c \in Kin
      BY <2>2, <2>4
    <3>2. /\ kin[c].status = "queued" /\ c \notin due
          /\ \A u \in Holder : \A k :
               ~Holds(u, k, c) /\ (Spawns(u, k, c) => u = v /\ k = i)
      BY <3>1 DEF ChildInv, SpawnedOnce
    <3>3. c # r
      BY <1>1, <3>2
    <3>4. QED
      BY <1>1, <1>3, <2>2, <3>1, <3>2, <3>3 DEF RowSet
  <2>8. UnknownRuns'
    BY <1>1, <1>3 DEF ChildInv, UnknownRuns, RowSet
  <2>9. K!AnswerIsEarned'
    BY <1>1, <1>3, EarnedKept DEF RowSet
  <2>10. QED
    BY <1>1, <2>6, <2>7, <2>8, <2>9 DEF ChildInv
<1>4. QED
  BY <1>2, <1>3, TakeEffect DEF ChildInv

\* A row that is not there yet has neither a frame nor a call that waits for it.
LEMMA NobodyKnows ==
  ASSUME ChildInv, NEW c \in Kin, kin[c].status = "none"
  PROVE  /\ c \notin stolen /\ c \notin due
         /\ \A v \in Holder : \A k : ~Holds(v, k, c) /\ ~Spawns(v, k, c)
<1>1. c \notin stolen /\ c \notin due
  BY DEF ChildInv, UnknownRuns
<1>2. \A v \in Holder : \A k : ~Holds(v, k, c)
  BY <1>1 DEF ChildInv, HeldOnce
<1>3. \A v \in Holder : \A k : ~Spawns(v, k, c)
  BY DEF ChildInv, SpawnedOnce
<1>4. QED
  BY <1>1, <1>2, <1>3

LEMMA DelegateChild ==
  ASSUME ChildInv, NEW w \in Holder, NEW c \in Kin, K!Delegate(w, c)
  PROVE  ChildInv'
<1>1. PICK n : n = Len(stack[w])
  OBVIOUS
<1>2. /\ KinTyped' /\ Others(w) /\ n \in DOMAIN stack[w]
      /\ kin[c].status = "none"
      /\ kin'[c].status = "queued"
      /\ \A q \in Kin : q # c => kin'[q] = kin[q]
      /\ DOMAIN stack'[w] = DOMAIN stack[w]
      /\ stack'[w][n] = [stack[w][n] EXCEPT !.child = c, !.pc = "spawned"]
      /\ \A i \in DOMAIN stack[w] : i # n => stack'[w][i] = stack[w][i]
      /\ UNCHANGED <<due, told, promoted, stolen>>
  BY <1>1, DelegateEffect DEF ChildInv
<1>3. /\ stack'[w][n].run = stack[w][n].run
      /\ stack'[w][n].child = c
  BY <1>2, KinFrames DEF KinFrame, ChildInv
<1>4. /\ c \notin stolen /\ c \notin due
      /\ \A v \in Holder : \A k : ~Holds(v, k, c) /\ ~Spawns(v, k, c)
  BY <1>2, NobodyKnows
<1>5. \A v \in Holder : \A i, q :
        /\ Holds(v, i, q)' => Holds(v, i, q)
        /\ Spawns(v, i, q)' => Spawns(v, i, q) \/ (v = w /\ i = n /\ q = c)
  <2> TAKE v \in Holder
  <2> TAKE i, q
  <2>1. CASE v # w
    BY <1>2, <2>1 DEF Others, Holds, Spawns
  <2>2. CASE v = w /\ i # n
    BY <1>2, <2>2 DEF Holds, Spawns
  <2>3. CASE v = w /\ i = n
    <3>1. Holds(v, i, q)' => Holds(v, i, q)
      BY <1>2, <1>3, <2>3 DEF Holds
    <3>2. Spawns(v, i, q)' => q = c
      BY <1>3, <2>3 DEF Spawns
    <3>3. QED
      BY <2>3, <3>1, <3>2
  <2>4. QED
    BY <2>1, <2>2, <2>3
<1>6. \A v \in Holder : \A i, q : Holds(v, i, q) => q \in Kin
  BY KinFrames DEF Holds, ChildInv
<1>7. \A v \in Holder : \A i, q : Spawns(v, i, q) => q \in Kin
  BY KinFrames DEF Spawns, ChildInv, Calling
<1>8. HeldOnce'
  <2> SUFFICES ASSUME NEW v \in Holder, NEW i, NEW q, Holds(v, i, q)',
                      q \notin stolen
               PROVE  /\ kin'[q].status = "running"
                      /\ \A u \in Holder : \A k :
                           Holds(u, k, q)' => u = v /\ k = i
    BY <1>2 DEF HeldOnce
  <2>1. Holds(v, i, q) /\ q # c /\ q \in Kin
    BY <1>4, <1>5, <1>6
  <2>2. QED
    BY <1>2, <1>5, <2>1 DEF ChildInv, HeldOnce
<1>9. SpawnedOnce'
  <2> SUFFICES ASSUME NEW v \in Holder, NEW i, NEW q, Spawns(v, i, q)'
               PROVE  /\ kin'[q].status = "queued" /\ q \notin due'
                      /\ \A u \in Holder : \A k :
                           /\ ~Holds(u, k, q)'
                           /\ Spawns(u, k, q)' => u = v /\ k = i
    BY DEF SpawnedOnce
  <2>1. CASE q = c
    BY <1>2, <1>4, <1>5, <2>1
  <2>2. CASE q # c
    <3>1. Spawns(v, i, q) /\ q \in Kin
      BY <1>5, <1>7, <2>2
    <3>2. /\ kin[q].status = "queued" /\ q \notin due
          /\ \A u \in Holder : \A k :
               ~Holds(u, k, q) /\ (Spawns(u, k, q) => u = v /\ k = i)
      BY <3>1 DEF ChildInv, SpawnedOnce
    <3>3. QED
      BY <1>2, <1>5, <2>2, <3>1, <3>2
  <2>3. QED
    BY <2>1, <2>2
<1>10. UnknownRuns'
  BY <1>2 DEF ChildInv, UnknownRuns
<1>11. K!AnswerIsEarned'
  BY <1>2, EarnedKept
<1>12. QED
  BY <1>2, <1>8, <1>9, <1>10, <1>11 DEF ChildInv

LEMMA ClaimedChild ==
  ASSUME ChildInv, NEW w \in Holder, K!ClaimChild(w)
  PROVE  ChildInv'
<1>1. PICK n : n = Len(stack[w])
  OBVIOUS
<1>2. PICK c : c = stack[w][n].child
  OBVIOUS
<1>3. /\ KinTyped' /\ Others(w) /\ n \in DOMAIN stack[w]
      /\ stack[w][n].pc = "spawned" /\ c \in Kin
      /\ RowSet(c, "running")
      /\ DOMAIN stack'[w] = DOMAIN stack[w] \cup {n + 1}
      /\ n + 1 \notin DOMAIN stack[w]
      /\ stack'[w][n].run = stack[w][n].run
      /\ stack'[w][n].pc = "waiting"
      /\ stack'[w][n + 1] = K!Frame(c, stack[w][n].depth + 1)
      /\ \A i \in DOMAIN stack[w] : i # n => stack'[w][i] = stack[w][i]
      /\ UNCHANGED <<due, told, promoted, stolen>>
  BY <1>1, <1>2, ClaimChildEffect DEF ChildInv
<1>4. PICK m : m = n + 1
  OBVIOUS
<1>5. /\ stack'[w][m].run = c /\ stack'[w][m].pc = "active"
      /\ DOMAIN stack'[w] = DOMAIN stack[w] \cup {m}
  BY <1>3, <1>4 DEF K!Frame
<1>6. Spawns(w, n, c)
  BY <1>2, <1>3 DEF Spawns
<1>7. /\ kin[c].status = "queued" /\ c \notin due
      /\ \A u \in Holder : \A k :
           ~Holds(u, k, c) /\ (Spawns(u, k, c) => u = w /\ k = n)
  BY <1>6 DEF ChildInv, SpawnedOnce
<1>8. \A v \in Holder : \A i, q :
        /\ Holds(v, i, q)' => Holds(v, i, q) \/ (v = w /\ i = m /\ q = c)
        /\ Spawns(v, i, q)' => Spawns(v, i, q) /\ ~(v = w /\ i = n)
  BY <1>3, <1>4, <1>5 DEF Others, Holds, Spawns
<1>9. \A v \in Holder : \A i, q : Holds(v, i, q) => q \in Kin
  BY KinFrames DEF Holds, ChildInv
<1>10. \A v \in Holder : \A i, q : Spawns(v, i, q) => q \in Kin
  BY KinFrames DEF Spawns, ChildInv, Calling
<1>11. HeldOnce'
  <2> SUFFICES ASSUME NEW v \in Holder, NEW i, NEW q, Holds(v, i, q)',
                      q \notin stolen
               PROVE  /\ kin'[q].status = "running"
                      /\ \A u \in Holder : \A k :
                           Holds(u, k, q)' => u = v /\ k = i
    BY <1>3 DEF HeldOnce
  <2>1. CASE q = c
    BY <1>3, <1>7, <1>8, <2>1 DEF RowSet
  <2>2. CASE q # c
    <3>1. Holds(v, i, q) /\ q \in Kin
      BY <1>8, <1>9, <2>2
    <3>2. QED
      BY <1>3, <1>8, <2>2, <3>1 DEF ChildInv, HeldOnce, RowSet
  <2>3. QED
    BY <2>1, <2>2
<1>12. SpawnedOnce'
  <2> SUFFICES ASSUME NEW v \in Holder, NEW i, NEW q, Spawns(v, i, q)'
               PROVE  /\ kin'[q].status = "queued" /\ q \notin due'
                      /\ \A u \in Holder : \A k :
                           /\ ~Holds(u, k, q)'
                           /\ Spawns(u, k, q)' => u = v /\ k = i
    BY DEF SpawnedOnce
  <2>1. Spawns(v, i, q) /\ q \in Kin /\ ~(v = w /\ i = n)
    BY <1>8, <1>10
  <2>2. q # c
    BY <1>7, <2>1
  <2>3. /\ kin[q].status = "queued" /\ q \notin due
        /\ \A u \in Holder : \A k :
             ~Holds(u, k, q) /\ (Spawns(u, k, q) => u = v /\ k = i)
    BY <2>1 DEF ChildInv, SpawnedOnce
  <2>4. QED
    BY <1>3, <1>8, <2>1, <2>2, <2>3 DEF RowSet
<1>13. UnknownRuns'
  BY <1>3 DEF ChildInv, UnknownRuns, RowSet
<1>14. K!AnswerIsEarned'
  BY <1>3, <1>7, EarnedKept DEF RowSet
<1>15. QED
  BY <1>3, <1>11, <1>12, <1>13, <1>14 DEF ChildInv

\* A step of the three parts is a step of delegation or leaves it alone.
KinNext ==
  \/ \E w \in Holder :
       \/ \E r \in Kin : K!Take(w, r) \/ K!Delegate(w, r)
       \/ K!ClaimChild(w) \/ K!Park(w)
       \/ \E s \in K!Terminal : K!Finish(w, s)
       \/ K!ChildRaises(w) \/ K!ReadOutcome(w) \/ \E i \in Nat : K!TimesOut(w, i)
       \/ K!Crash(w)
  \/ \E r \in Kin : K!Decide(r) \/ K!HeartbeatExpires(r) \/ K!RequeueOrphaned(r)
  \/ UNCHANGED kinVars

LEMMA KinSteps == [NextAll]_allVars => KinNext
<1>1. \A i \in 1..K!Cardinality(Kin) : i \in Nat
  <2>1. K!Cardinality(Kin) = Cardinality(Kin)
    BY DEF K!Cardinality, Cardinality
  <2>2. Cardinality(Kin) \in Nat
    BY FS_CardinalityType, KinAssumption
  <2>3. QED
    BY <2>1, <2>2
<1>2. K!Next => KinNext
  BY <1>1 DEF K!Next, KinNext
<1>3. UNCHANGED allVars => UNCHANGED kinVars
  BY DEF allVars
<1>4. QED
  BY <1>2, <1>3 DEF NextAll, KinNext

LEMMA ChildStep == ASSUME ChildInv, KinNext PROVE ChildInv'
BY LeaveChild, AnsweredChild, QueueChild, TakeChild, DelegateChild, ClaimedChild
   DEF KinNext

LEMMA ChildInit == InitAll => ChildInv
<1> SUFFICES ASSUME InitAll PROVE ChildInv
  OBVIOUS
<1>1. /\ kin = [r \in Kin |-> IF r = Root
                  THEN [K!NoRow EXCEPT !.status = "queued"] ELSE K!NoRow]
      /\ stack = [w \in Holder |-> <<>>] /\ due = {Root}
      /\ told = [r \in Kin |-> "nothing"] /\ promoted = {} /\ stolen = {}
  BY DEF InitAll, K!Init
<1>2. <<>> \in Seq(KinFrame) /\ DOMAIN <<>> = {}
  OBVIOUS
<1>3. \A r \in Kin : /\ kin[r] \in KinRow
                     /\ kin[r].parent = NoRun
                     /\ r # Root => kin[r].status = "none"
                     /\ r = Root => kin[r].status = "queued"
  BY <1>1 DEF K!NoRow, KinRow
<1>4. \A w \in Holder : stack[w] \in Seq(KinFrame) /\ DOMAIN stack[w] = {}
  BY <1>1, <1>2
<1>5. KinTyped
  <2>1. kin \in [Kin -> KinRow]
    BY <1>1, <1>3
  <2>2. stack \in [Holder -> Seq(KinFrame)]
    BY <1>1, <1>4
  <2>3. \A w \in Holder : CallsNamed(stack[w])
    BY <1>4 DEF CallsNamed
  <2>4. QED
    BY <1>1, <2>1, <2>2, <2>3, KinAssumption DEF KinTyped
<1>6. HeldOnce /\ SpawnedOnce
  BY <1>4 DEF HeldOnce, SpawnedOnce, Holds, Spawns
<1>7. UnknownRuns
  BY <1>1, <1>3 DEF UnknownRuns
<1>8. K!AnswerIsEarned
  BY <1>1 DEF K!AnswerIsEarned
<1>9. QED
  BY <1>5, <1>6, <1>7, <1>8 DEF ChildInv

\* What a model was told of a child it delegated to (agents.py, _delegate_fn)
\* stays true: an answer is only ever that of a child that has succeeded, however
\* many workers, sweeps, timeouts and crashes there are, unless the sweep took the
\* child from a worker that was driving it.
THEOREM AnswersAreEarned == SpecAll => []AnswerIsEarned
<1>1. InitAll => ChildInv
  BY ChildInit
<1>2. ChildInv /\ [NextAll]_allVars => ChildInv'
  BY ChildStep, KinSteps
<1>3. ChildInv => AnswerIsEarned
  BY DEF ChildInv, AnswerIsEarned
<1>4. QED
  BY <1>1, <1>2, <1>3, PTL DEF SpecAll

(* The tree of runs.  Who is above whom is a matter of the parents alone.  *)
UpClosed(p, S) == \A s \in S : p[s] \in S \cup {NoRun}
Above(p, r) ==
  {a \in Kin : /\ p[r] # NoRun
               /\ \A S \in SUBSET Kin : p[r] \in S /\ UpClosed(p, S) => a \in S}

Parents == [q \in Kin |-> kin[q].parent]

LEMMA AncestorsAreAbove ==
  ASSUME NEW r \in Kin
  PROVE  K!Ancestors(r) = Above(Parents, r)
<1>1. \A S \in SUBSET Kin : K!Closed(S) <=> UpClosed(Parents, S)
  BY DEF K!Closed, UpClosed, Parents
<1>2. Parents[r] = kin[r].parent
  BY DEF Parents
<1>3. QED
  BY <1>1, <1>2 DEF K!Ancestors, Above

LEMMA SizesOfRuns ==
  ASSUME NEW S, NEW T, S \subseteq T, T \subseteq Kin
  PROVE  /\ IsFiniteSet(S) /\ Cardinality(S) \in Nat /\ Cardinality(T) \in Nat
         /\ Cardinality(S) <= Cardinality(T)
<1>1. IsFiniteSet(T)
  BY FS_Subset, KinAssumption
<1>2. IsFiniteSet(S) /\ Cardinality(S) <= Cardinality(T)
  BY <1>1, FS_Subset
<1>3. Cardinality(S) \in Nat /\ Cardinality(T) \in Nat
  BY <1>1, <1>2, FS_CardinalityType
<1>4. QED
  BY <1>2, <1>3

LEMMA OneMore ==
  ASSUME NEW S, S \subseteq Kin, NEW r \in Kin, r \notin S
  PROVE  Cardinality(S \cup {r}) = Cardinality(S) + 1
<1>1. IsFiniteSet(S)
  BY FS_Subset, KinAssumption
<1>2. QED
  BY <1>1, FS_AddElement

LEMMA NobodyAbove ==
  ASSUME NEW p, NEW r, p[r] = NoRun
  PROVE  Above(p, r) = {}
BY DEF Above

\* A child is put below its parent, and nobody else has moved.
LEMMA ChildBelow ==
  ASSUME NEW p \in [Kin -> Kin \cup {NoRun}], NEW c \in Kin, NEW r \in Kin,
         r # c, \A q \in Kin : p[q] # c,
         NEW d \in [Kin -> Kin \cup {NoRun}],
         d[c] = r, \A q \in Kin : q # c => d[q] = p[q]
  PROVE  /\ Above(d, c) = Above(p, r) \cup {r}
         /\ c \notin Above(p, r)
         /\ \A q \in Kin : q # c => Above(d, q) = Above(p, q)
<1>1. \A S \in SUBSET Kin : UpClosed(d, S) => UpClosed(p, S \ {c})
  BY DEF UpClosed
<1>2. \A S \in SUBSET Kin : UpClosed(p, S) => UpClosed(d, S \ {c})
  BY DEF UpClosed
<1>3. ASSUME NEW q \in Kin, q # c
      PROVE  Above(d, q) = Above(p, q)
  <2>1. d[q] = p[q] /\ p[q] # c
    BY <1>3
  <2>2. ASSUME NEW a \in Above(p, q)
        PROVE  a \in Above(d, q)
    <3> SUFFICES ASSUME NEW S \in SUBSET Kin, d[q] \in S, UpClosed(d, S)
                 PROVE  a \in S
      BY <2>1 DEF Above
    <3>1. S \ {c} \in SUBSET Kin /\ p[q] \in S \ {c} /\ UpClosed(p, S \ {c})
      BY <1>1, <2>1
    <3>2. QED
      BY <3>1 DEF Above
  <2>3. ASSUME NEW a \in Above(d, q)
        PROVE  a \in Above(p, q)
    <3> SUFFICES ASSUME NEW S \in SUBSET Kin, p[q] \in S, UpClosed(p, S)
                 PROVE  a \in S
      BY <2>1 DEF Above
    <3>1. S \ {c} \in SUBSET Kin /\ d[q] \in S \ {c} /\ UpClosed(d, S \ {c})
      BY <1>2, <2>1
    <3>2. QED
      BY <3>1 DEF Above
  <2>4. QED
    BY <2>2, <2>3
<1>4. r # NoRun /\ d[r] = p[r]
  BY KinAssumption
<1>5. ASSUME NEW a \in Above(d, c), a # r
      PROVE  a \in Above(p, r)
  <2>1. \A S \in SUBSET Kin : r \in S /\ UpClosed(d, S) => a \in S
    BY DEF Above
  <2>2. p[r] # NoRun
    <3>1. ASSUME p[r] = NoRun PROVE FALSE
      <4>1. {r} \in SUBSET Kin /\ r \in {r} /\ UpClosed(d, {r})
        BY <1>4, <3>1 DEF UpClosed
      <4>2. QED
        BY <1>5, <2>1, <4>1
    <3>2. QED
      BY <3>1
  <2>3. ASSUME NEW S \in SUBSET Kin, p[r] \in S, UpClosed(p, S)
        PROVE  a \in S
    <3> DEFINE T == (S \ {c}) \cup {r}
    <3>1. T \in SUBSET Kin /\ r \in T
      OBVIOUS
    <3>2. UpClosed(d, T)
      BY <1>4, <2>3 DEF UpClosed
    <3>3. QED
      BY <1>5, <2>1, <3>1, <3>2
  <2>4. QED
    BY <2>2, <2>3 DEF Above
<1>6. ASSUME NEW a \in Above(p, r) \cup {r}
      PROVE  a \in Above(d, c)
  <2> SUFFICES ASSUME NEW S \in SUBSET Kin, r \in S, UpClosed(d, S)
               PROVE  a \in S
    BY <1>4 DEF Above
  <2>1. CASE a = r
    BY <2>1
  <2>2. CASE a \in Above(p, r)
    <3>1. p[r] # NoRun
      BY <2>2 DEF Above
    <3>2. p[r] \in S \ {c}
      BY <1>4, <3>1 DEF UpClosed
    <3>3. S \ {c} \in SUBSET Kin /\ UpClosed(p, S \ {c})
      BY <1>1
    <3>4. QED
      BY <2>2, <3>2, <3>3 DEF Above
  <2>3. QED
    BY <2>1, <2>2
<1>7. c \notin Above(p, r)
  <2>1. ASSUME c \in Above(p, r) PROVE FALSE
    <3>1. p[r] # NoRun
      BY <2>1 DEF Above
    <3>2. /\ Kin \ {c} \in SUBSET Kin /\ p[r] \in Kin \ {c}
          /\ UpClosed(p, Kin \ {c})
      BY <3>1 DEF UpClosed
    <3>3. c \in Kin \ {c}
      BY <2>1, <3>2 DEF Above
    <3>4. QED
      BY <3>3
  <2>2. QED
    BY <2>1
<1>8. Above(d, c) = Above(p, r) \cup {r}
  BY <1>5, <1>6
<1>9. QED
  BY <1>3, <1>7, <1>8

\* How many may be above a run, above the run of a frame, and above a child
\* that a frame of depth d has called.
RunFits(p, P, r) ==
  Cardinality(Above(p, r)) <= MaxDepth + MaxDepth * Cardinality(Above(p, r) \cap P)
FrameFits(p, P, r, d) ==
  /\ d <= MaxDepth
  /\ Cardinality(Above(p, r))
       <= d + MaxDepth * Cardinality((Above(p, r) \cup {r}) \cap P)
CallFits(p, P, c, d) ==
  /\ d + 1 <= MaxDepth
  /\ Cardinality(Above(p, c))
       <= d + 1 + MaxDepth * Cardinality(Above(p, c) \cap P)

LEMMA TimesDepth ==
  ASSUME NEW a \in Nat, NEW b \in Nat, a <= b
  PROVE  /\ MaxDepth \in Nat /\ MaxDepth * a \in Nat /\ MaxDepth * b \in Nat
         /\ MaxDepth * a <= MaxDepth * b
         /\ MaxDepth * (a + 1) = MaxDepth * a + MaxDepth
         /\ MaxDepth * (1 + a) = MaxDepth + MaxDepth * a
BY KinAssumption

LEMMA AboveAreRuns ==
  ASSUME NEW p, NEW r
  PROVE  Above(p, r) \subseteq Kin
BY DEF Above

\* More children that go on alone make more room.
LEMMA RoomGrows ==
  ASSUME NEW p, NEW P, NEW Q, P \subseteq Q, Q \subseteq Kin,
         NEW r \in Kin, NEW d \in Nat
  PROVE  /\ RunFits(p, P, r) => RunFits(p, Q, r)
         /\ FrameFits(p, P, r, d) => FrameFits(p, Q, r, d)
         /\ CallFits(p, P, r, d) => CallFits(p, Q, r, d)
<1> DEFINE A == Above(p, r)
           n == Cardinality(A)
           x == Cardinality(A \cap P)
           y == Cardinality(A \cap Q)
           u == Cardinality((A \cup {r}) \cap P)
           v == Cardinality((A \cup {r}) \cap Q)
<1>1. A \subseteq Kin
  BY AboveAreRuns
<1> HIDE DEF A
<1>2. n \in Nat
  BY <1>1, SizesOfRuns
<1>3. x \in Nat /\ y \in Nat /\ x <= y
  <2>1. A \cap P \subseteq A \cap Q /\ A \cap Q \subseteq Kin
    BY <1>1
  <2>2. QED
    BY <2>1, SizesOfRuns
<1>4. u \in Nat /\ v \in Nat /\ u <= v
  <2>1. /\ (A \cup {r}) \cap P \subseteq (A \cup {r}) \cap Q
        /\ (A \cup {r}) \cap Q \subseteq Kin
    BY <1>1
  <2>2. QED
    BY <2>1, SizesOfRuns
<1> HIDE DEF n, x, y, u, v
<1>5. /\ MaxDepth \in Nat /\ MaxDepth * x \in Nat /\ MaxDepth * y \in Nat
      /\ MaxDepth * x <= MaxDepth * y
  BY <1>3, TimesDepth
<1>6. /\ MaxDepth * u \in Nat /\ MaxDepth * v \in Nat
      /\ MaxDepth * u <= MaxDepth * v
  BY <1>4, TimesDepth
<1>7. n <= MaxDepth + MaxDepth * x => n <= MaxDepth + MaxDepth * y
  BY <1>2, <1>5
<1>8. n <= d + MaxDepth * u => n <= d + MaxDepth * v
  BY <1>2, <1>6
<1>9. n <= d + 1 + MaxDepth * x => n <= d + 1 + MaxDepth * y
  BY <1>2, <1>5
<1>10. QED
  BY <1>7, <1>8, <1>9 DEF RunFits, FrameFits, CallFits, A, n, x, y, u, v

LEMMA CallHasRoom ==
  ASSUME NEW p, NEW P, P \subseteq Kin, NEW r \in Kin, NEW d \in Nat,
         r \notin Above(p, r), FrameFits(p, P, r, d), d < MaxDepth,
         NEW e, NEW c \in Kin, Above(e, c) = Above(p, r) \cup {r}
  PROVE  CallFits(e, P, c, d) /\ RunFits(e, P, c)
<1> DEFINE A == Above(p, r)
           n == Cardinality(A)
           x == Cardinality((A \cup {r}) \cap P)
<1>1. A \subseteq Kin
  BY AboveAreRuns
<1>2. Cardinality(A \cup {r}) = n + 1
  BY <1>1, OneMore
<1>3. n \in Nat
  BY <1>1, SizesOfRuns
<1>4. x \in Nat
  <2>1. (A \cup {r}) \cap P \subseteq Kin
    OBVIOUS
  <2>2. QED
    BY <2>1, SizesOfRuns
<1>5. n <= d + MaxDepth * x
  BY DEF FrameFits
<1> HIDE DEF n, x, A
<1>6. MaxDepth \in Nat /\ MaxDepth * x \in Nat
  BY <1>4, KinAssumption
<1>7. n + 1 <= d + 1 + MaxDepth * x /\ d + 1 <= MaxDepth
  BY <1>3, <1>5, <1>6
<1>8. n + 1 <= MaxDepth + MaxDepth * x
  BY <1>3, <1>6, <1>7
<1>9. QED
  BY <1>2, <1>7, <1>8 DEF CallFits, RunFits, n, x, A

LEMMA ClaimHasRoom ==
  ASSUME NEW p, NEW P, P \subseteq Kin, NEW c \in Kin, NEW d \in Nat,
         CallFits(p, P, c, d)
  PROVE  FrameFits(p, P, c, d + 1)
<1> DEFINE A == Above(p, c)
           n == Cardinality(A)
           x == Cardinality(A \cap P)
           y == Cardinality((A \cup {c}) \cap P)
<1>1. A \subseteq Kin
  BY AboveAreRuns
<1>2. n \in Nat
  BY <1>1, SizesOfRuns
<1>3. x \in Nat /\ y \in Nat /\ x <= y
  <2>1. A \cap P \subseteq (A \cup {c}) \cap P /\ (A \cup {c}) \cap P \subseteq Kin
    OBVIOUS
  <2>2. QED
    BY <2>1, SizesOfRuns
<1>4. d + 1 <= MaxDepth /\ n <= d + 1 + MaxDepth * x
  BY DEF CallFits
<1> HIDE DEF n, x, y, A
<1>5. /\ MaxDepth * x \in Nat /\ MaxDepth * y \in Nat
      /\ MaxDepth * x <= MaxDepth * y
  BY <1>3, TimesDepth
<1>6. n <= (d + 1) + MaxDepth * y
  BY <1>2, <1>4, <1>5
<1>7. QED
  BY <1>4, <1>6 DEF FrameFits, n, y, A

LEMMA FreshStartHasRoom ==
  ASSUME NEW p, NEW P, P \subseteq Kin, NEW r \in Kin,
         r \notin Above(p, r), RunFits(p, P, r)
  PROVE  FrameFits(p, IF p[r] = NoRun THEN P ELSE P \cup {r}, r, 0)
<1>1. MaxDepth \in Nat
  BY KinAssumption
<1>2. CASE p[r] = NoRun
  <2>1. Above(p, r) = {}
    BY <1>2, NobodyAbove
  <2> DEFINE x == Cardinality((Above(p, r) \cup {r}) \cap P)
  <2>2. x \in Nat
    <3>1. (Above(p, r) \cup {r}) \cap P \subseteq Kin
      OBVIOUS
    <3>2. QED
      BY <3>1, SizesOfRuns
  <2>3. Cardinality(Above(p, r)) = 0
    BY <2>1, FS_EmptySet
  <2> HIDE DEF x
  <2>4. MaxDepth * x \in Nat
    BY <2>2, TimesDepth
  <2>5. 0 <= 0 + MaxDepth * x
    BY <2>4
  <2>6. QED
    BY <1>1, <1>2, <2>3, <2>5 DEF FrameFits, x
<1>3. CASE p[r] # NoRun
  <2> DEFINE A == Above(p, r)
             Q == P \cup {r}
             n == Cardinality(A)
             x == Cardinality(A \cap P)
             y == Cardinality((A \cup {r}) \cap Q)
  <2>1. A \subseteq Kin
    BY AboveAreRuns
  <2>2. n \in Nat /\ x \in Nat
    <3>1. A \cap P \subseteq A
      OBVIOUS
    <3>2. QED
      BY <2>1, <3>1, SizesOfRuns
  <2>3. y \in Nat /\ x + 1 <= y
    <3>1. /\ (A \cap P) \cup {r} \subseteq (A \cup {r}) \cap Q
          /\ (A \cup {r}) \cap Q \subseteq Kin /\ A \cap P \subseteq Kin
          /\ r \notin A \cap P
      BY <2>1
    <3>2. Cardinality((A \cap P) \cup {r}) = x + 1
      BY <3>1, OneMore
    <3>3. y \in Nat /\ Cardinality((A \cap P) \cup {r}) <= y
      BY <3>1, SizesOfRuns
    <3>4. QED
      BY <3>2, <3>3
  <2>4. n <= MaxDepth + MaxDepth * x
    BY DEF RunFits
  <2> HIDE DEF n, x, y, A, Q
  <2>5. /\ MaxDepth * (x + 1) \in Nat /\ MaxDepth * y \in Nat
        /\ MaxDepth * (x + 1) <= MaxDepth * y
    BY <2>2, <2>3, TimesDepth
  <2>6. MaxDepth * (x + 1) = MaxDepth * x + MaxDepth /\ MaxDepth * x \in Nat
    BY <2>2, TimesDepth
  <2>7. n <= 0 + MaxDepth * y
    BY <1>1, <2>2, <2>4, <2>5, <2>6
  <2>8. QED
    BY <1>1, <1>3, <2>7 DEF FrameFits, n, y, A, Q
<1>4. QED
  BY <1>2, <1>3

LEMMA TreeSizes ==
  K!TreeIsShallow <=> \A r \in Kin : RunFits(Parents, promoted, r)
<1>1. \A S : K!Cardinality(S) = Cardinality(S)
  BY DEF K!Cardinality, Cardinality
<1>2. ASSUME NEW r \in Kin
      PROVE  /\ K!Ancestors(r) = Above(Parents, r)
             /\ MaxDepth * (1 + Cardinality(Above(Parents, r) \cap promoted))
                  = MaxDepth + MaxDepth * Cardinality(Above(Parents, r) \cap promoted)
  <2>1. Cardinality(Above(Parents, r) \cap promoted) \in Nat
    <3>1. Above(Parents, r) \cap promoted \subseteq Kin
      BY AboveAreRuns
    <3>2. QED
      BY <3>1, SizesOfRuns
  <2> DEFINE x == Cardinality(Above(Parents, r) \cap promoted)
  <2> HIDE DEF x
  <2>2. MaxDepth * (1 + x) = MaxDepth + MaxDepth * x
    BY <2>1, TimesDepth DEF x
  <2>3. QED
    BY <2>2, AncestorsAreAbove DEF x
<1>3. QED
  BY <1>1, <1>2 DEF K!TreeIsShallow, RunFits

(* The tree as the steps change it. *)
ParentsExist ==
  \A q \in Kin : kin[q].parent \in Kin => kin[kin[q].parent].status # "none"

RunsFit(p, P) == \A r \in Kin : r \notin Above(p, r) /\ RunFits(p, P, r)

Fits(p, P, s, i) ==
  /\ FrameFits(p, P, s[i].run, s[i].depth)
  /\ s[i].pc = "spawned" => CallFits(p, P, s[i].child, s[i].depth)

TreeInv ==
  /\ ChildInv /\ ParentsExist /\ RunsFit(Parents, promoted)
  /\ \A w \in Holder : \A i \in DOMAIN stack[w] :
       Fits(Parents, promoted, stack[w], i)

\* No new child and no new frame: only more children that go on alone.
LEMMA TreeKept ==
  ASSUME TreeInv, ChildInv', promoted \subseteq promoted',
         \A w \in Holder : FramesKept(w),
         \A q \in Kin : /\ kin'[q].parent = kin[q].parent
                        /\ kin'[q].status = "none" => kin[q].status = "none"
  PROVE  TreeInv'
<1>1. Parents' = Parents
  BY DEF Parents
<1>2. promoted' \subseteq Kin
  BY DEF ChildInv, KinTyped
<1>3. ParentsExist'
  BY DEF ParentsExist, TreeInv
<1>4. RunsFit(Parents', promoted')
  <2> SUFFICES ASSUME NEW r \in Kin
               PROVE  r \notin Above(Parents, r) /\ RunFits(Parents, promoted', r)
    BY <1>1 DEF RunsFit
  <2>1. r \notin Above(Parents, r) /\ RunFits(Parents, promoted, r)
    BY DEF TreeInv, RunsFit
  <2>2. 0 \in Nat
    OBVIOUS
  <2>3. QED
    BY <1>2, <2>1, <2>2, RoomGrows
<1>5. ASSUME NEW w \in Holder, NEW i \in DOMAIN stack'[w]
      PROVE  Fits(Parents', promoted', stack'[w], i)
  <2>1. /\ i \in DOMAIN stack[w]
        /\ stack'[w][i].run = stack[w][i].run
        /\ stack'[w][i].depth = stack[w][i].depth
        /\ stack'[w][i].pc = "spawned" => stack'[w][i] = stack[w][i]
    BY DEF FramesKept
  <2>2. /\ stack[w][i].run \in Kin /\ stack[w][i].depth \in Nat
        /\ stack[w][i].pc = "spawned" => stack[w][i].child \in Kin
    BY <2>1, KinFrames DEF TreeInv, ChildInv, Calling
  <2>3. Fits(Parents, promoted, stack[w], i)
    BY <2>1 DEF TreeInv
  <2>4. FrameFits(Parents, promoted', stack[w][i].run, stack[w][i].depth)
    BY <1>2, <2>2, <2>3, RoomGrows DEF Fits
  <2>5. ASSUME stack'[w][i].pc = "spawned"
        PROVE  CallFits(Parents, promoted', stack[w][i].child, stack[w][i].depth)
    BY <1>2, <2>1, <2>2, <2>3, <2>5, RoomGrows DEF Fits
  <2>6. QED
    BY <1>1, <2>1, <2>4, <2>5 DEF Fits
<1>6. QED
  BY <1>3, <1>4, <1>5 DEF TreeInv

LEMMA LeaveTree ==
  ASSUME TreeInv, NEW w \in Holder,
         K!Park(w) \/ \E s \in K!Terminal : K!Finish(w, s)
  PROVE  TreeInv'
<1>1. ChildInv /\ KinTyped
  BY DEF TreeInv, ChildInv
<1>2. ChildInv'
  BY <1>1, LeaveChild
<1>3. /\ FramesKept(w) /\ Others(w) /\ promoted' = promoted
      /\ \E s \in {"parked"} \cup K!Terminal :
           RowSet(stack[w][Len(stack[w])].run, s)
  BY <1>1, LeaveEffect
<1>4. \A v \in Holder : FramesKept(v)
  BY <1>3, SameFrames DEF Others
<1>5. \A q \in Kin : /\ kin'[q].parent = kin[q].parent
                     /\ kin'[q].status = "none" => kin[q].status = "none"
  BY <1>3 DEF RowSet, K!Terminal
<1>6. QED
  BY <1>2, <1>3, <1>4, <1>5, TreeKept

LEMMA AnsweredTree ==
  ASSUME TreeInv, NEW w \in Holder,
         K!ChildRaises(w) \/ K!ReadOutcome(w) \/ \E i \in Nat : K!TimesOut(w, i)
  PROVE  TreeInv'
<1>1. ChildInv /\ KinTyped
  BY DEF TreeInv, ChildInv
<1>2. ChildInv'
  BY <1>1, AnsweredChild
<1>3. /\ FramesKept(w) /\ Others(w) /\ promoted' = promoted
      /\ RowsStay \/ \E c : RowSet(c, "running")
  BY <1>1, AnsweredEffect
<1>4. \A v \in Holder : FramesKept(v)
  BY <1>3, SameFrames DEF Others
<1>5. \A q \in Kin : /\ kin'[q].parent = kin[q].parent
                     /\ kin'[q].status = "none" => kin[q].status = "none"
  BY <1>3 DEF RowSet, RowsStay
<1>6. QED
  BY <1>2, <1>3, <1>4, <1>5, TreeKept

LEMMA QueueTree ==
  ASSUME TreeInv,
         \/ \E w \in Holder : K!Crash(w)
         \/ \E r \in Kin : \/ K!Decide(r) \/ K!HeartbeatExpires(r)
                           \/ K!RequeueOrphaned(r)
         \/ UNCHANGED kinVars
  PROVE  TreeInv'
<1>1. ChildInv /\ KinTyped /\ kin \in [Kin -> KinRow]
  BY DEF TreeInv, ChildInv, KinTyped
<1>2. ChildInv'
  BY <1>1, QueueChild
<1>3. promoted' = promoted
  BY DEF K!Crash, K!Decide, K!HeartbeatExpires, K!RequeueOrphaned, kinVars
<1>4. \A v \in Holder : FramesKept(v)
  <2>1. CASE \E w \in Holder : K!Crash(w)
    <3>1. PICK w \in Holder : K!Crash(w)
      BY <2>1
    <3>2. stack' = [stack EXCEPT ![w] = <<>>]
      BY <3>1 DEF K!Crash
    <3>3. DOMAIN <<>> = {}
      OBVIOUS
    <3> DEFINE d == <<>>
    <3> HIDE DEF d
    <3>4. DOMAIN d = {} /\ stack' = [stack EXCEPT ![w] = d]
      BY <3>2, <3>3 DEF d
    <3>5. stack'[w] = d /\ \A v \in Holder : v # w => stack'[v] = stack[v]
      BY <1>1, <3>4 DEF KinTyped
    <3>6. QED
      BY <3>4, <3>5 DEF FramesKept
  <2>2. CASE UNCHANGED stack
    BY <2>2, SameFrames
  <2>3. QED
    BY <2>1, <2>2 DEF K!Decide, K!HeartbeatExpires, K!RequeueOrphaned, kinVars
<1>5. \A q \in Kin : /\ kin'[q].parent = kin[q].parent
                     /\ kin'[q].status = "none" => kin[q].status = "none"
  <2>1. CASE UNCHANGED kin
    BY <2>1
  <2>2. ASSUME NEW r \in Kin, K!HeartbeatExpires(r)
        PROVE  RowsStay
    BY <1>1, <2>2, KinBeat DEF K!HeartbeatExpires
  <2>3. ASSUME NEW r \in Kin, K!RequeueOrphaned(r)
        PROVE  RowSet(r, "queued")
    <3>1. K!SetRow(r, "queued", "none") /\ "queued" \in KinStatus
      BY <2>3 DEF K!RequeueOrphaned, KinStatus
    <3>2. QED
      BY <1>1, <3>1, KinSet
  <2>4. QED
    BY <2>1, <2>2, <2>3
       DEF K!Crash, K!Decide, kinVars, RowsStay, RowSet
<1>6. QED
  BY <1>2, <1>3, <1>4, <1>5, TreeKept

LEMMA TakeTree ==
  ASSUME TreeInv, NEW w \in Holder, NEW r \in Kin, K!Take(w, r)
  PROVE  TreeInv'
<1>1. ChildInv /\ KinTyped
  BY DEF TreeInv, ChildInv
<1>2. ChildInv'
  BY <1>1, TakeChild
<1>3. Others(w)
  BY <1>1, TakeEffect
<1>4. CASE UNCHANGED <<kin, stack, promoted>>
  <2>1. \A v \in Holder : FramesKept(v)
    BY <1>4, SameFrames
  <2>2. QED
    BY <1>2, <1>4, <2>1, TreeKept
<1>5. CASE /\ RowSet(r, "running")
           /\ DOMAIN stack'[w] = {1}
           /\ stack'[w][1] = K!Frame(r, 0)
           /\ promoted' = IF kin[r].parent = NoRun THEN promoted
                          ELSE promoted \cup {r}
  <2>1. promoted \subseteq promoted' /\ promoted' \subseteq Kin
    BY <1>1, <1>5 DEF KinTyped
  <2>2. Parents' = Parents
    BY <1>5 DEF Parents, RowSet
  <2>3. ParentsExist'
    BY <1>5 DEF ParentsExist, TreeInv, RowSet
  <2>4. RunsFit(Parents', promoted')
    <3> SUFFICES ASSUME NEW q \in Kin
                 PROVE  q \notin Above(Parents, q) /\ RunFits(Parents, promoted', q)
      BY <2>2 DEF RunsFit
    <3>1. q \notin Above(Parents, q) /\ RunFits(Parents, promoted, q)
      BY DEF TreeInv, RunsFit
    <3>2. 0 \in Nat
      OBVIOUS
    <3>3. QED
      BY <2>1, <3>1, <3>2, RoomGrows
  <2>5. ASSUME NEW v \in Holder, NEW i \in DOMAIN stack'[v]
        PROVE  Fits(Parents', promoted', stack'[v], i)
    <3>1. CASE v = w
      <4>1. /\ stack'[w][1].run = r /\ stack'[w][1].depth = 0
            /\ stack'[w][1].pc = "active" /\ i = 1
        BY <1>5, <3>1 DEF K!Frame
      <4>2. r \notin Above(Parents, r) /\ RunFits(Parents, promoted, r)
        BY DEF TreeInv, RunsFit
      <4>3. Parents[r] = kin[r].parent /\ promoted \subseteq Kin
        BY <1>1 DEF Parents, KinTyped
      <4>4. FrameFits(Parents, IF Parents[r] = NoRun THEN promoted
                               ELSE promoted \cup {r}, r, 0)
        BY <4>2, <4>3, FreshStartHasRoom
      <4>5. FrameFits(Parents, promoted', r, 0)
        BY <1>5, <4>3, <4>4
      <4>6. QED
        BY <2>2, <3>1, <4>1, <4>5 DEF Fits
    <3>2. CASE v # w
      <4>1. stack'[v] = stack[v] /\ i \in DOMAIN stack[v]
        BY <1>3, <3>2 DEF Others
      <4>2. /\ stack[v][i].run \in Kin /\ stack[v][i].depth \in Nat
            /\ stack[v][i].pc = "spawned" => stack[v][i].child \in Kin
        BY <1>1, <4>1, KinFrames DEF Calling
      <4>3. Fits(Parents, promoted, stack[v], i)
        BY <4>1 DEF TreeInv
      <4>4. FrameFits(Parents, promoted', stack[v][i].run, stack[v][i].depth)
        BY <2>1, <4>2, <4>3, RoomGrows DEF Fits
      <4>5. ASSUME stack[v][i].pc = "spawned"
            PROVE  CallFits(Parents, promoted', stack[v][i].child, stack[v][i].depth)
        BY <2>1, <4>2, <4>3, <4>5, RoomGrows DEF Fits
      <4>6. QED
        BY <2>2, <4>1, <4>4, <4>5 DEF Fits
    <3>3. QED
      BY <3>1, <3>2
  <2>6. QED
    BY <1>2, <2>3, <2>4, <2>5 DEF TreeInv
<1>6. QED
  BY <1>1, <1>4, <1>5, TakeEffect

LEMMA DelegateTree ==
  ASSUME TreeInv, NEW w \in Holder, NEW c \in Kin, K!Delegate(w, c)
  PROVE  TreeInv'
<1>1. ChildInv /\ KinTyped /\ promoted \subseteq Kin
  BY DEF TreeInv, ChildInv, KinTyped
<1>2. ChildInv'
  BY <1>1, DelegateChild
<1>3. PICK n : n = Len(stack[w])
  OBVIOUS
<1>4. /\ Others(w) /\ n \in DOMAIN stack[w]
      /\ stack[w][n].depth < MaxDepth /\ kin[c].status = "none"
      /\ kin'[c].status = "queued" /\ kin'[c].parent = stack[w][n].run
      /\ \A q \in Kin : q # c => kin'[q] = kin[q]
      /\ DOMAIN stack'[w] = DOMAIN stack[w]
      /\ stack'[w][n] = [stack[w][n] EXCEPT !.child = c, !.pc = "spawned"]
      /\ \A i \in DOMAIN stack[w] : i # n => stack'[w][i] = stack[w][i]
      /\ promoted' = promoted
  BY <1>1, <1>3, DelegateEffect
<1>5. PICK r \in Kin : r = stack[w][n].run
  BY <1>1, <1>4, KinFrames
<1>6. PICK d \in Nat : d = stack[w][n].depth
  BY <1>1, <1>4, KinFrames
<1>7. /\ stack'[w][n].run = r /\ stack'[w][n].depth = d
      /\ stack'[w][n].child = c /\ stack'[w][n].pc = "spawned"
  BY <1>1, <1>4, <1>5, <1>6, KinFrames DEF KinFrame
<1>8. \A v \in Holder : \A k : ~Holds(v, k, c) /\ ~Spawns(v, k, c)
  BY <1>1, <1>4, NobodyKnows
<1>9. r # c /\ kin[r].status # "none"
  <2>1. Holds(w, n, r)
    BY <1>4, <1>5 DEF Holds
  <2>2. QED
    BY <1>1, <1>8, <2>1, NobodyKnows
<1>10. PICK p \in [Kin -> Kin \cup {NoRun}] : p = Parents
  BY <1>1 DEF Parents, KinTyped, KinRow
<1>11. PICK e \in [Kin -> Kin \cup {NoRun}] : e = Parents'
  <2>1. KinTyped'
    BY <1>2 DEF ChildInv
  <2>2. QED
    BY <2>1 DEF Parents, KinTyped, KinRow
<1>12. \A q \in Kin : p[q] # c
  <2>1. \A q \in Kin : kin[q].parent # c
    BY <1>4 DEF TreeInv, ParentsExist
  <2>2. QED
    BY <1>10, <2>1 DEF Parents
<1>13. e[c] = r /\ \A q \in Kin : q # c => e[q] = p[q]
  BY <1>4, <1>5, <1>10, <1>11 DEF Parents
<1>14. /\ Above(e, c) = Above(p, r) \cup {r}
       /\ c \notin Above(p, r)
       /\ \A q \in Kin : q # c => Above(e, q) = Above(p, q)
  BY <1>9, <1>12, <1>13, ChildBelow
<1>15. Fits(p, promoted, stack[w], n) /\ r \notin Above(p, r)
  BY <1>4, <1>10 DEF TreeInv, RunsFit
<1>16. FrameFits(p, promoted, r, d) /\ d < MaxDepth
  BY <1>4, <1>5, <1>6, <1>15 DEF Fits
<1>17. CallFits(e, promoted, c, d) /\ RunFits(e, promoted, c)
  BY <1>1, <1>14, <1>15, <1>16, CallHasRoom
<1>18. RunsFit(e, promoted)
  <2> SUFFICES ASSUME NEW q \in Kin
               PROVE  q \notin Above(e, q) /\ RunFits(e, promoted, q)
    BY DEF RunsFit
  <2>1. CASE q = c
    BY <1>9, <1>14, <1>17, <2>1
  <2>2. CASE q # c
    <3>1. q \notin Above(p, q) /\ RunFits(p, promoted, q)
      BY <1>10 DEF TreeInv, RunsFit
    <3>2. QED
      BY <1>14, <2>2, <3>1 DEF RunFits
  <2>3. QED
    BY <2>1, <2>2
<1>19. ParentsExist'
  BY <1>4, <1>5, <1>9 DEF TreeInv, ParentsExist
<1>20. ASSUME NEW v \in Holder, NEW i \in DOMAIN stack'[v]
       PROVE  Fits(e, promoted, stack'[v], i)
  <2>1. ASSUME i \in DOMAIN stack[v], stack'[v][i] = stack[v][i]
        PROVE  Fits(e, promoted, stack'[v], i)
    <3>1. Fits(p, promoted, stack[v], i)
      BY <1>10, <2>1 DEF TreeInv
    <3>2. stack[v][i].run \in Kin /\ stack[v][i].run # c
      <4>1. Holds(v, i, stack[v][i].run)
        BY <2>1 DEF Holds
      <4>2. QED
        BY <1>1, <1>8, <2>1, <4>1, KinFrames
    <3>3. stack[v][i].pc = "spawned" =>
            stack[v][i].child \in Kin /\ stack[v][i].child # c
      <4>1. stack[v][i].pc = "spawned" => Spawns(v, i, stack[v][i].child)
        BY <2>1 DEF Spawns
      <4>2. QED
        BY <1>1, <1>8, <2>1, <4>1, KinFrames DEF Calling
    <3>4. QED
      BY <1>14, <2>1, <3>1, <3>2, <3>3 DEF Fits, FrameFits, CallFits
  <2>2. CASE v = w /\ i = n
    <3>1. FrameFits(e, promoted, r, d)
      BY <1>9, <1>14, <1>16 DEF FrameFits
    <3>2. QED
      BY <1>7, <1>17, <2>2, <3>1 DEF Fits
  <2>3. QED
    BY <1>4, <2>1, <2>2 DEF Others
<1>21. QED
  BY <1>2, <1>4, <1>11, <1>18, <1>19, <1>20 DEF TreeInv

LEMMA ClaimedTree ==
  ASSUME TreeInv, NEW w \in Holder, K!ClaimChild(w)
  PROVE  TreeInv'
<1>1. ChildInv /\ KinTyped /\ promoted \subseteq Kin
  BY DEF TreeInv, ChildInv, KinTyped
<1>2. ChildInv'
  BY <1>1, ClaimedChild
<1>3. PICK n : n = Len(stack[w])
  OBVIOUS
<1>4. PICK c : c = stack[w][n].child
  OBVIOUS
<1>5. /\ Others(w) /\ n \in DOMAIN stack[w]
      /\ stack[w][n].pc = "spawned" /\ c \in Kin
      /\ RowSet(c, "running")
      /\ DOMAIN stack'[w] = DOMAIN stack[w] \cup {n + 1}
      /\ n + 1 \notin DOMAIN stack[w]
      /\ stack'[w][n].run = stack[w][n].run
      /\ stack'[w][n].depth = stack[w][n].depth
      /\ stack'[w][n].pc = "waiting"
      /\ stack'[w][n + 1] = K!Frame(c, stack[w][n].depth + 1)
      /\ \A i \in DOMAIN stack[w] : i # n => stack'[w][i] = stack[w][i]
      /\ promoted' = promoted
  BY <1>1, <1>3, <1>4, ClaimChildEffect
<1>6. PICK m : m = n + 1
  OBVIOUS
<1>7. PICK d \in Nat : d = stack[w][n].depth
  BY <1>1, <1>5, KinFrames
<1>8. /\ stack'[w][m].run = c /\ stack'[w][m].depth = d + 1
      /\ stack'[w][m].pc = "active"
  BY <1>5, <1>6, <1>7 DEF K!Frame
<1>9. Parents' = Parents
  BY <1>5 DEF Parents, RowSet
<1>10. ParentsExist' /\ RunsFit(Parents', promoted')
  BY <1>5, <1>9 DEF TreeInv, ParentsExist, RowSet
<1>11. Fits(Parents, promoted, stack[w], n)
  BY <1>5 DEF TreeInv
<1>12. FrameFits(Parents, promoted, c, d + 1)
  BY <1>1, <1>4, <1>5, <1>7, <1>11, ClaimHasRoom DEF Fits
<1>13. ASSUME NEW v \in Holder, NEW i \in DOMAIN stack'[v]
       PROVE  Fits(Parents, promoted, stack'[v], i)
  <2>1. CASE v = w /\ i = m
    BY <1>8, <1>12, <2>1 DEF Fits
  <2>2. CASE v = w /\ i = n
    BY <1>5, <1>11, <2>2 DEF Fits
  <2>3. ASSUME i \in DOMAIN stack[v], stack'[v][i] = stack[v][i]
        PROVE  Fits(Parents, promoted, stack'[v], i)
    <3>1. Fits(Parents, promoted, stack[v], i)
      BY <2>3 DEF TreeInv
    <3>2. QED
      BY <2>3, <3>1 DEF Fits
  <2>4. QED
    BY <1>5, <1>6, <2>1, <2>2, <2>3 DEF Others
<1>14. QED
  BY <1>2, <1>5, <1>9, <1>10, <1>13 DEF TreeInv

LEMMA TreeStep == ASSUME TreeInv, KinNext PROVE TreeInv'
BY LeaveTree, AnsweredTree, QueueTree, TakeTree, DelegateTree, ClaimedTree
   DEF KinNext

LEMMA TreeInit == InitAll => TreeInv
<1> SUFFICES ASSUME InitAll PROVE TreeInv
  OBVIOUS
<1>1. ChildInv
  BY ChildInit
<1>2. /\ kin = [r \in Kin |-> IF r = Root
                  THEN [K!NoRow EXCEPT !.status = "queued"] ELSE K!NoRow]
      /\ stack = [w \in Holder |-> <<>>] /\ promoted = {}
  BY DEF InitAll, K!Init
<1>3. \A r \in Kin : kin[r].parent = NoRun
  BY <1>2 DEF K!NoRow
<1>4. \A r \in Kin : Above(Parents, r) = {}
  <2>1. \A r \in Kin : Parents[r] = NoRun
    BY <1>3 DEF Parents
  <2>2. QED
    BY <2>1, NobodyAbove
<1>5. ParentsExist
  BY <1>3, KinAssumption DEF ParentsExist
<1>6. RunsFit(Parents, promoted)
  <2>1. MaxDepth \in Nat /\ Cardinality({}) = 0 /\ {} \cap promoted = {}
    BY KinAssumption, FS_EmptySet
  <2>2. 0 <= MaxDepth + MaxDepth * 0
    BY <2>1
  <2>3. QED
    BY <1>4, <2>1, <2>2 DEF RunsFit, RunFits
<1>7. \A w \in Holder : DOMAIN stack[w] = {}
  <2>1. DOMAIN <<>> = {}
    OBVIOUS
  <2>2. QED
    BY <1>2, <2>1
<1>8. QED
  BY <1>1, <1>5, <1>6, <1>7 DEF TreeInv

\* The depth limit of delegation (agents.py, _MAX_DELEGATION_DEPTH) is an argument
\* of the call and not a column of the row.  What it bounds all the same, for
\* every limit and every set of runs: the line of runs above any run is at most
\* one limit long, and one more for each of them that went on without its parent.
THEOREM TreesAreShallow == SpecAll => []TreeIsShallow
<1>1. InitAll => TreeInv
  BY TreeInit
<1>2. TreeInv /\ [NextAll]_allVars => TreeInv'
  BY TreeStep, KinSteps
<1>3. TreeInv => TreeIsShallow
  BY TreeSizes DEF TreeInv, RunsFit, TreeIsShallow
<1>4. QED
  BY <1>1, <1>2, <1>3, PTL DEF SpecAll

==============================================================================
