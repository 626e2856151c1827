------------------------ MODULE RunLifecycle_proofs ------------------------
(* Theorems about RunLifecycle for every value of its constants.            *)
EXTENDS RunLifecycle, FiniteSetTheorems, TLAPS

(***************************************************************************)
(* Type correctness, one lemma per action that changes a typed variable.   *)
(***************************************************************************)
LEMMA InitType == Init => TypeOK
<1>1. FreshRow \in RowType
  BY DEF FreshRow, RowType, Status
<1>2. IdleTask \in TaskType
  BY DEF IdleTask, TaskType
<1>3. QED
  BY <1>1, <1>2, BoundsAssumption
     DEF Init, TypeOK, StepType, ApprType, ReqType

LEMMA ReleaseType ==
  ASSUME TypeOK, NEW t \in Task, Release(t)
  PROVE  task' \in [Task -> TaskType]
<1>1. IdleTask \in TaskType
  BY DEF IdleTask, TaskType
<1>2. task \in [Task -> TaskType]
  BY DEF TypeOK
<1>3. QED
  BY <1>1, <1>2 DEF Release

LEMMA JobRun == \A j \in Job : j.run \in Run
BY DEF Job, ExecuteJob, ResumeJob

LEMMA SubmitType ==
  ASSUME TypeOK, NEW r \in Run, SubmitMessage(r)
  PROVE  TypeOK'
<1>1. row' \in [Run -> RowType]
  <2>1. row \in [Run -> RowType]
    BY DEF TypeOK
  <2>2. row' = [row EXCEPT ![r].status = "queued"]
    BY DEF SubmitMessage
  <2>3. QED
    BY <2>1, <2>2 DEF RowType, Status
<1>2. outbox' \subseteq Job
  <2>1. [kind |-> "execute", run |-> r, nth |-> 0] \in Job
    BY BoundsAssumption DEF Job, ExecuteJob
  <2>2. QED
    BY <2>1 DEF SubmitMessage, TypeOK
<1>3. QED
  BY <1>1, <1>2 DEF TypeOK, SubmitMessage

LEMMA CancelReadType ==
  ASSUME TypeOK, NEW h \in Handler, NEW r \in Run, RequestCancelRead(h, r)
  PROVE  TypeOK'
<1>1. [op |-> "cancel", run |-> r, seen |-> row[r].status] \in CancelReq
  BY DEF TypeOK, RowType, CancelReq
<1>2. req' \in [Handler -> ReqType]
  BY <1>1 DEF TypeOK, RequestCancelRead, ReqType
<1>3. QED
  BY <1>2 DEF TypeOK, RequestCancelRead

LEMMA DecideReadType ==
  ASSUME TypeOK, NEW h \in Handler, NEW g \in Gate, NEW a \in BOOLEAN,
         DecideApprovalRead(h, g, a)
  PROVE  TypeOK'
<1>1. [op |-> "decide", gate |-> g, approved |-> a] \in DecideReq
  BY DEF DecideReq
<1>2. req' \in [Handler -> ReqType]
  BY <1>1 DEF TypeOK, DecideApprovalRead, ReqType
<1>3. QED
  BY <1>2 DEF TypeOK, DecideApprovalRead

LEMMA CancelWriteType ==
  ASSUME TypeOK, NEW h \in Handler, RequestCancelWrite(h)
  PROVE  TypeOK'
<1>1. req[h] \in CancelReq
  BY DEF TypeOK, RequestCancelWrite, ReqType, CancelReq, DecideReq
<1>2. row' \in [Run -> RowType]
  <2>1. row \in [Run -> RowType]
    BY DEF TypeOK
  <2>2. req[h].run \in Run
    BY <1>1 DEF CancelReq
  <2>3. "cancelled" \in Status
    BY DEF Status, Terminal
  <2>4. CASE row' = [row EXCEPT ![req[h].run] =
                       [@ EXCEPT !.cancel = TRUE, !.status = "cancelled"]]
    BY <2>1, <2>2, <2>3, <2>4 DEF RowType
  <2>5. CASE row' = [row EXCEPT ![req[h].run] =
                       [@ EXCEPT !.cancel = TRUE, !.status = "cancelled",
                                 !.ckpt = NoCkpt]]
    BY <2>1, <2>2, <2>3, <2>5 DEF RowType
  <2>6. CASE row' = [row EXCEPT ![req[h].run].cancel = TRUE]
    BY <2>1, <2>2, <2>6 DEF RowType
  <2>7. QED
    BY <2>4, <2>5, <2>6 DEF RequestCancelWrite
<1>3. req' \in [Handler -> ReqType]
  BY DEF TypeOK, RequestCancelWrite, ReqType
<1>4. QED
  BY <1>2, <1>3 DEF TypeOK, RequestCancelWrite

LEMMA ClaimType ==
  ASSUME TypeOK, NEW t \in Task, NEW j \in Job, NEW from \in Status,
         NEW pc \in Driving, NEW ck \in Ckpt \cup {NoCkpt},
         Claim(t, j, from, pc, ck)
  PROVE  row' \in [Run -> RowType] /\ task' \in [Task -> TaskType]
<1>1. row \in [Run -> RowType] /\ j.run \in Run
  BY JobRun DEF TypeOK
<1>2. task \in [Task -> TaskType] /\ log[j.run] \in Seq(StepType)
  BY <1>1 DEF TypeOK
<1>3. CASE /\ row' = [row EXCEPT ![j.run] =
                       [@ EXCEPT !.status = "running", !.ckpt = NoCkpt,
                                 !.heartbeat = "fresh"]]
           /\ task' = [task EXCEPT ![t] =
                   [IdleTask EXCEPT !.pc = pc, !.job = j, !.ckpt = ck,
                      !.steps = row[j.run].steps, !.seq = Len(log[j.run])]]
  <2>1. row' \in [Run -> RowType]
    BY <1>1, <1>3 DEF RowType, Status
  <2>2. row[j.run].steps \in Nat /\ Len(log[j.run]) \in Nat
    BY <1>1, <1>2 DEF RowType
  <2>3. [IdleTask EXCEPT !.pc = pc, !.job = j, !.ckpt = ck,
                      !.steps = row[j.run].steps, !.seq = Len(log[j.run])] \in TaskType
    BY <2>2 DEF TaskType, IdleTask
  <2>4. QED
    BY <1>2, <1>3, <2>1, <2>3
<1>4. CASE /\ row' = [row EXCEPT ![j.run] =
                       [@ EXCEPT !.status = "failed", !.ckpt = NoCkpt,
                                 !.heartbeat = "fresh"]]
           /\ Release(t)
  <2>1. row' \in [Run -> RowType]
    BY <1>1, <1>4 DEF RowType, Status, Terminal
  <2>2. QED
    BY <2>1, <1>4, ReleaseType
<1>5. CASE UNCHANGED row /\ Release(t)
  BY <1>1, <1>5, ReleaseType
<1>6. QED
  BY <1>3, <1>4, <1>5 DEF Claim

LEMMA ExecuteType ==
  ASSUME TypeOK, NEW t \in Task, NEW j \in queue, ExecuteRun(t, j)
  PROVE  TypeOK'
<1>1. j \in Job
  BY DEF TypeOK
<1>2. row' \in [Run -> RowType] /\ task' \in [Task -> TaskType]
  <2>1. Claim(t, j, "queued", "building", NoCkpt)
    BY DEF ExecuteRun
  <2>2. "queued" \in Status /\ "building" \in Driving
    BY DEF Status, Driving
  <2>3. QED
    BY <1>1, <2>1, <2>2, ClaimType
<1>3. QED
  BY <1>2 DEF TypeOK, ExecuteRun

LEMMA ResumeReadType ==
  ASSUME TypeOK, NEW t \in Task, NEW j \in queue, ResumeRead(t, j)
  PROVE  TypeOK'
<1>1. j \in Job /\ j.run \in Run
  BY JobRun DEF TypeOK
<1>2. row[j.run].ckpt \in Ckpt \cup {NoCkpt}
  BY <1>1 DEF TypeOK, RowType
<1>3. [IdleTask EXCEPT !.pc = "reading", !.job = j, !.ckpt = row[j.run].ckpt]
        \in TaskType
  BY <1>1, <1>2 DEF TaskType, IdleTask
<1>4. task' \in [Task -> TaskType]
  BY <1>3 DEF TypeOK, ResumeRead
<1>5. QED
  BY <1>4 DEF TypeOK, ResumeRead

LEMMA ResumeClaimType ==
  ASSUME TypeOK, TaskInv, NEW t \in Task, ResumeClaim(t)
  PROVE  TypeOK'
<1>1. task[t].job \in Job /\ task[t].ckpt \in Ckpt
  BY DEF TaskInv, TaskOK, ResumeClaim, Job
<1>2. row' \in [Run -> RowType] /\ task' \in [Task -> TaskType]
  <2>1. Claim(t, task[t].job, "awaiting_approval", "gated", task[t].ckpt)
    BY DEF ResumeClaim
  <2>2. "awaiting_approval" \in Status /\ "gated" \in Driving
    BY DEF Status, Driving
  <2>3. QED
    BY <1>1, <2>1, <2>2, ClaimType
<1>3. QED
  BY <1>2 DEF TypeOK, ResumeClaim

LEMMA DecideWriteType ==
  ASSUME TypeOK, GateInv, NEW h \in Handler, DecideApprovalWrite(h)
  PROVE  TypeOK'
<1>1. req[h] \in DecideReq
  BY DEF TypeOK, DecideApprovalWrite, ReqType, CancelReq, DecideReq
<1> DEFINE g == req[h].gate
<1>2. g \in Gate /\ req[h].approved \in BOOLEAN /\ appr[g].run \in Run
  BY <1>1 DEF DecideReq, GateInv
<1>3. appr' \in [Gate -> ApprType]
  <2>1. appr \in [Gate -> ApprType]
    BY DEF TypeOK
  <2>2. \/ appr' = [appr EXCEPT ![g].status = "approved"]
        \/ appr' = [appr EXCEPT ![g].status = "denied"]
    BY DEF DecideApprovalWrite
  <2>3. QED
    BY <1>2, <2>1, <2>2 DEF ApprType
<1>4. outbox' \subseteq Job
  <2>1. [kind |-> "resume", run |-> appr[g].run, gate |-> g,
         approved |-> req[h].approved, by |-> h] \in Job
    BY <1>2 DEF Job, ResumeJob
  <2>2. QED
    BY <2>1 DEF TypeOK, DecideApprovalWrite
<1>5. req' \in [Handler -> ReqType]
  BY DEF TypeOK, DecideApprovalWrite, ReqType
<1>6. QED
  BY <1>3, <1>4, <1>5 DEF TypeOK, DecideApprovalWrite

LEMMA FaultsType ==
  ASSUME TypeOK,
         \/ faults' = [faults EXCEPT !.lost = @ + 1]
         \/ faults' = [faults EXCEPT !.crash = @ + 1]
         \/ faults' = [faults EXCEPT !.bus = @ + 1]
  PROVE  faults' \in [crash: Nat, lost: Nat, bus: Nat]
<1>1. faults \in [crash: Nat, lost: Nat, bus: Nat]
  BY DEF TypeOK
<1>2. QED
  BY <1>1

LEMMA DispatchType ==
  ASSUME TypeOK, NEW j \in outbox, Dispatch(j) \/ LoseDispatch(j)
  PROVE  TypeOK'
<1>1. CASE Dispatch(j)
  BY <1>1 DEF TypeOK, Dispatch
<1>2. CASE LoseDispatch(j)
  <2>1. faults' \in [crash: Nat, lost: Nat, bus: Nat]
    BY <1>2, FaultsType DEF LoseDispatch
  <2>2. QED
    BY <1>2, <2>1 DEF TypeOK, LoseDispatch
<1>3. QED
  BY <1>1, <1>2

\* Recording a step types the row and the log it writes.
LEMMA RecordStepType ==
  ASSUME TypeOK, NEW t \in Task, task[t].job \in Job,
         NEW kind \in {"model", "tool"}, RecordStep(t, kind)
  PROVE  row' \in [Run -> RowType] /\ log' \in [Run -> Seq(StepType)]
<1> DEFINE r == task[t].job.run
<1>1. r \in Run
  BY JobRun
<1>2. row' \in [Run -> RowType]
  <2>1. row \in [Run -> RowType] /\ row' = [row EXCEPT ![r].heartbeat = "fresh"]
    BY DEF TypeOK, RecordStep
  <2>2. QED
    BY <1>1, <2>1 DEF RowType
<1>3. [index |-> task[t].seq, kind |-> kind] \in StepType
  BY DEF TypeOK, TaskType, StepType
<1>4. log' \in [Run -> Seq(StepType)]
  <2>1. log \in [Run -> Seq(StepType)] /\ log[r] \in Seq(StepType)
    BY <1>1 DEF TypeOK
  <2>2. log' = [log EXCEPT ![r] =
                  Append(@, [index |-> task[t].seq, kind |-> kind])]
    BY DEF RecordStep
  <2>3. Append(log[r], [index |-> task[t].seq, kind |-> kind]) \in Seq(StepType)
    BY <1>3, <2>1
  <2>4. QED
    BY <2>1, <2>2, <2>3
<1>5. QED
  BY <1>2, <1>4

\* The steps that change nothing but the task's own state.
LEMMA LocalStepType ==
  ASSUME TypeOK, TaskInv, NEW t \in Task,
         \/ BuildTranscript(t) \/ RunGatedCall(t) \/ RunTool(t)
         \/ LoopHead(t) \/ LoopRaises(t)
  PROVE  TypeOK'
<1>1. task \in [Task -> TaskType] /\ ran \in [Gate -> Nat]
  BY DEF TypeOK
<1>2. CASE BuildTranscript(t)
  <2>1. task' \in [Task -> TaskType]
    BY <1>1, <1>2 DEF BuildTranscript, TaskType, Driving
  <2>2. QED
    BY <2>1, <1>2 DEF TypeOK, BuildTranscript
<1>3. CASE RunGatedCall(t)
  <2>1. task' \in [Task -> TaskType]
    BY <1>1, <1>3 DEF RunGatedCall, TaskType, Driving
  <2>2. task[t].ckpt.gate \in Gate
    BY <1>3 DEF RunGatedCall, TaskInv, TaskOK, Ckpt
  <2>3. ran' \in [Gate -> Nat]
    BY <1>1, <1>3, <2>2 DEF RunGatedCall
  <2>4. QED
    BY <2>1, <2>3, <1>3 DEF TypeOK, RunGatedCall
<1>4. CASE RunTool(t)
  <2>1. task' \in [Task -> TaskType]
    <3>1. task[t].left - 1 \in Nat /\ "callDone" \in Driving
      BY <1>1, <1>4 DEF RunTool, TaskType, Driving
    <3>2. [task[t] EXCEPT !.pc = "callDone",
                           !.left = task[t].left - 1]
            \in TaskType
      BY <1>1, <3>1 DEF TaskType
    <3>3. task' = [task EXCEPT ![t] =
            [task[t] EXCEPT !.pc = "callDone",
                           !.left = task[t].left - 1]]
      BY <1>4 DEF RunTool
    <3>4. QED
      BY <1>1, <3>2, <3>3
  <2>2. QED
    BY <2>1, <1>4 DEF TypeOK, RunTool
<1>5. CASE LoopHead(t)
  <2>1. task' \in [Task -> TaskType]
    <3>1. CASE Conclude(t, "failed") \/ Conclude(t, "cancelled")
      <4>1. /\ "finishing" \in Driving
            /\ "failed" \in Terminal /\ "cancelled" \in Terminal
        BY DEF Driving, Terminal
      <4>2. \A o \in Terminal :
              [task[t] EXCEPT !.pc = "finishing", !.outcome = o] \in TaskType
        BY <1>1, <4>1 DEF TaskType
      <4>3. QED
        BY <1>1, <3>1, <4>1, <4>2 DEF Conclude
    <3>2. CASE task' = [task EXCEPT ![t].pc = "turn"]
      BY <1>1, <3>2 DEF TaskType, Driving
    <3>3. QED
      BY <1>5, <3>1, <3>2 DEF LoopHead
  <2>2. QED
    BY <2>1, <1>5 DEF TypeOK, LoopHead
<1>6. CASE LoopRaises(t)
  <2>1. task' \in [Task -> TaskType]
    <3>1. "failing" \in Driving /\ "failed" \in Terminal
      BY DEF Driving, Terminal
    <3>2. [task[t] EXCEPT !.pc = "failing", !.outcome = "failed"] \in TaskType
      BY <1>1, <3>1 DEF TaskType
    <3>3. task' = [task EXCEPT ![t] =
            [task[t] EXCEPT !.pc = "failing", !.outcome = "failed"]]
      BY <1>6 DEF LoopRaises, Raise
    <3>4. QED
      BY <1>1, <3>2, <3>3
  <2>2. QED
    BY <2>1, <1>6 DEF TypeOK, LoopRaises
<1>7. QED
  BY <1>2, <1>3, <1>4, <1>5, <1>6

\* The steps that record a RunStep.
LEMMA RecordingStepType ==
  ASSUME TypeOK, TaskInv, NEW t \in Task,
         \/ RecordGatedCall(t) \/ RecordTool(t) \/ AnswerTurn(t)
         \/ \E k \in 1..MaxCalls : ToolTurn(t, k)
  PROVE  TypeOK'
<1>1. task \in [Task -> TaskType]
  BY DEF TypeOK
<1>2. task[t].job \in Job
  BY DEF TaskInv, TaskOK, RecordGatedCall, RecordTool, AnswerTurn, ToolTurn
<1>3. row' \in [Run -> RowType] /\ log' \in [Run -> Seq(StepType)]
  BY <1>2, RecordStepType
     DEF RecordGatedCall, RecordTool, AnswerTurn, ToolTurn
<1>4. CASE RecordGatedCall(t)
  <2>1. task[t].ckpt.rest \in Nat
    BY <1>4 DEF RecordGatedCall, TaskInv, TaskOK, Ckpt
  <2>2. task' \in [Task -> TaskType]
    <3>1. task[t].seq + 1 \in Nat /\ "calls" \in Driving
      BY <1>1 DEF TaskType, Driving
    <3>2. [task[t] EXCEPT !.pc = "calls",
                           !.seq = task[t].seq + 1,
                           !.left = task[t].ckpt.rest]
            \in TaskType
      BY <1>1, <2>1, <3>1 DEF TaskType
    <3>3. task' = [task EXCEPT ![t] =
            [task[t] EXCEPT !.pc = "calls",
                           !.seq = task[t].seq + 1,
                           !.left = task[t].ckpt.rest]]
      BY <1>4 DEF RecordGatedCall
    <3>4. QED
      BY <1>1, <3>2, <3>3
  <2>3. QED
    BY <1>3, <2>2, <1>4 DEF TypeOK, RecordGatedCall
<1>5. CASE RecordTool(t)
  <2>1. task' \in [Task -> TaskType]
    <3>1. task[t].seq + 1 \in Nat /\ "calls" \in Driving
      BY <1>1 DEF TaskType, Driving
    <3>2. [task[t] EXCEPT !.pc = "calls",
                           !.seq = task[t].seq + 1]
            \in TaskType
      BY <1>1, <3>1 DEF TaskType
    <3>3. task' = [task EXCEPT ![t] =
            [task[t] EXCEPT !.pc = "calls",
                           !.seq = task[t].seq + 1]]
      BY <1>5 DEF RecordTool
    <3>4. QED
      BY <1>1, <3>2, <3>3
  <2>2. QED
    BY <1>3, <2>1, <1>5 DEF TypeOK, RecordTool
<1>6. CASE AnswerTurn(t)
  <2>1. task' \in [Task -> TaskType]
    <3>1. /\ task[t].seq + 1 \in Nat /\ task[t].steps + 1 \in Nat
          /\ "finishing" \in Driving /\ "succeeded" \in Terminal
      BY <1>1 DEF TaskType, Driving, Terminal
    <3>2. [task[t] EXCEPT !.pc = "finishing",
                           !.outcome = "succeeded",
                           !.steps = task[t].steps + 1,
                           !.seq = task[t].seq + 1]
            \in TaskType
      BY <1>1, <3>1 DEF TaskType
    <3>3. task' = [task EXCEPT ![t] =
            [task[t] EXCEPT !.pc = "finishing",
                           !.outcome = "succeeded",
                           !.steps = task[t].steps + 1,
                           !.seq = task[t].seq + 1]]
      BY <1>6 DEF AnswerTurn
    <3>4. QED
      BY <1>1, <3>2, <3>3
  <2>2. QED
    BY <1>3, <2>1, <1>6 DEF TypeOK, AnswerTurn
<1>7. CASE \E k \in 1..MaxCalls : ToolTurn(t, k)
  <2>1. PICK k \in 1..MaxCalls : ToolTurn(t, k)
    BY <1>7
  <2>2. task' \in [Task -> TaskType]
    <3>1. /\ task[t].seq + 1 \in Nat /\ task[t].steps + 1 \in Nat
          /\ "calls" \in Driving /\ k \in Nat
      BY <1>1 DEF TaskType, Driving
    <3>2. [task[t] EXCEPT !.pc = "calls",
                           !.left = k,
                           !.steps = task[t].steps + 1,
                           !.seq = task[t].seq + 1]
            \in TaskType
      BY <1>1, <3>1 DEF TaskType
    <3>3. task' = [task EXCEPT ![t] =
            [task[t] EXCEPT !.pc = "calls",
                           !.left = k,
                           !.steps = task[t].steps + 1,
                           !.seq = task[t].seq + 1]]
      BY <2>1 DEF ToolTurn
    <3>4. QED
      BY <1>1, <3>2, <3>3
  <2>3. QED
    BY <1>3, <2>1, <2>2 DEF TypeOK, ToolTurn
<1>8. QED
  BY <1>4, <1>5, <1>6, <1>7

LEMMA AnnounceType ==
  ASSUME TypeOK, NEW t \in Task, Announce(t)
  PROVE  /\ task' \in [Task -> TaskType]
         /\ faults' \in [crash: Nat, lost: Nat, bus: Nat]
<1>1. task \in [Task -> TaskType] /\ faults \in [crash: Nat, lost: Nat, bus: Nat]
  BY DEF TypeOK
<1>2. CASE Release(t) /\ UNCHANGED faults
  BY <1>1, <1>2, ReleaseType
<1>3. CASE faults' = [faults EXCEPT !.bus = @ + 1] /\ Raise(t)
  <2>1. "failing" \in Driving /\ "failed" \in Terminal
    BY DEF Driving, Terminal
  <2>2. task' \in [Task -> TaskType]
    BY <1>1, <1>3, <2>1 DEF Raise, TaskType
  <2>3. QED
    BY <1>3, <2>2, FaultsType
<1>4. QED
  BY <1>2, <1>3 DEF Announce

LEMMA ParkType ==
  ASSUME TypeOK, TaskInv, NEW t \in Task, NEW g \in Gate,
         ParkForApproval(t, g)
  PROVE  TypeOK'
<1> DEFINE r == task[t].job.run
<1>1. r \in Run
  BY JobRun DEF TaskInv, TaskOK, ParkForApproval
<1>2. task[t].steps \in Nat /\ task[t].left - 1 \in Nat
  BY DEF TypeOK, ParkForApproval, TaskType
<1>3. row' \in [Run -> RowType]
  <2>1. row \in [Run -> RowType]
    BY DEF TypeOK
  <2>2. [gate |-> g, rest |-> task[t].left - 1] \in Ckpt
    BY <1>2 DEF Ckpt
  <2>3. "awaiting_approval" \in Status
    BY DEF Status
  <2>4. row' = [row EXCEPT ![r] =
            [@ EXCEPT !.status = "awaiting_approval", !.steps = task[t].steps,
                      !.ckpt = [gate |-> g, rest |-> task[t].left - 1]]]
    BY DEF ParkForApproval
  <2>5. QED
    BY <1>1, <1>2, <2>1, <2>2, <2>3, <2>4 DEF RowType
<1>4. appr' \in [Gate -> ApprType]
  <2>1. [status |-> "pending", run |-> r] \in ApprType
    BY <1>1 DEF ApprType
  <2>2. QED
    BY <2>1 DEF TypeOK, ParkForApproval
<1>5. /\ task' \in [Task -> TaskType]
      /\ faults' \in [crash: Nat, lost: Nat, bus: Nat]
  BY AnnounceType DEF ParkForApproval
<1>6. QED
  BY <1>3, <1>4, <1>5 DEF TypeOK, ParkForApproval

LEMMA RecordOutcomeType ==
  ASSUME TypeOK, NEW t \in Task, task[t].job \in Job,
         task[t].outcome \in Terminal, RecordOutcome(t)
  PROVE  row' \in [Run -> RowType] /\ answers' \in [Run -> Nat]
<1> DEFINE r == task[t].job.run
<1>1. r \in Run
  BY JobRun
<1>2. row' \in [Run -> RowType]
  <2>1. row \in [Run -> RowType] /\ task[t].steps \in Nat
    BY DEF TypeOK, TaskType
  <2>2. task[t].outcome \in Status
    BY DEF Status
  <2>3. row' = [row EXCEPT ![r] =
               [@ EXCEPT !.status = task[t].outcome, !.ckpt = NoCkpt,
                         !.steps = task[t].steps, !.heartbeat = "none"]]
    BY DEF RecordOutcome
  <2>4. QED
    BY <1>1, <2>1, <2>2, <2>3 DEF RowType
<1>3. answers' \in [Run -> Nat]
  <2>1. answers \in [Run -> Nat]
    BY DEF TypeOK
  <2>2. QED
    BY <1>1, <2>1 DEF RecordOutcome
<1>4. QED
  BY <1>2, <1>3

LEMMA FinishType ==
  ASSUME TypeOK, TaskInv, NEW t \in Task, Finish(t) \/ FinishFailed(t)
  PROVE  TypeOK'
<1>1. task[t].job \in Job /\ task[t].outcome \in Terminal
  BY DEF TaskInv, TaskOK, Finish, FinishFailed
<1>2. row' \in [Run -> RowType] /\ answers' \in [Run -> Nat]
  BY <1>1, RecordOutcomeType DEF Finish, FinishFailed
<1>3. CASE Finish(t)
  <2>1. /\ task' \in [Task -> TaskType]
        /\ faults' \in [crash: Nat, lost: Nat, bus: Nat]
    BY <1>3, AnnounceType DEF Finish
  <2>2. QED
    BY <1>2, <1>3, <2>1 DEF TypeOK, Finish
<1>4. CASE FinishFailed(t)
  <2>1. task' \in [Task -> TaskType]
    BY <1>4, ReleaseType DEF FinishFailed
  <2>2. QED
    BY <1>2, <1>4, <2>1 DEF TypeOK, FinishFailed
<1>5. QED
  BY <1>3, <1>4

LEMMA FaultType ==
  ASSUME TypeOK, TaskInv, NEW t \in Task,
         ResumeRaises(t) \/ Crash(t) \/ Escape(t)
  PROVE  TypeOK'
<1>1. task' \in [Task -> TaskType]
  BY ReleaseType DEF ResumeRaises, Crash, Escape
<1>2. faults' \in [crash: Nat, lost: Nat, bus: Nat]
  BY FaultsType DEF ResumeRaises, Crash, Escape
<1>3. queue' \subseteq Job
  BY DEF TypeOK, TaskInv, TaskOK, ResumeRaises, Crash, Escape
<1>4. QED
  BY <1>1, <1>2, <1>3 DEF TypeOK, ResumeRaises, Crash, Escape

LEMMA SweepType ==
  ASSUME TypeOK,
         RequeueOrphanedRuns \/ \E r \in Run : HeartbeatExpires(r)
  PROVE  TypeOK'
<1>1. row \in [Run -> RowType] /\ requeues \in [Run -> 0..MaxRequeues]
  BY DEF TypeOK
<1>2. CASE \E r \in Run : HeartbeatExpires(r)
  <2>1. PICK r \in Run : HeartbeatExpires(r)
    BY <1>2
  <2>2. row' = [row EXCEPT ![r].heartbeat = "stale"]
    BY <2>1 DEF HeartbeatExpires
  <2>3. row' \in [Run -> RowType]
    BY <1>1, <2>2 DEF RowType
  <2>4. QED
    BY <2>1, <2>3 DEF TypeOK, HeartbeatExpires
<1>3. CASE RequeueOrphanedRuns
  <2>1. ASSUME NEW r \in Run
        PROVE  [row[r] EXCEPT !.status = "queued", !.heartbeat = "none"]
                 \in RowType
    BY <1>1 DEF RowType, Status
  <2>2. row' \in [Run -> RowType]
    BY <1>1, <1>3, <2>1 DEF RequeueOrphanedRuns
  <2>3. \A r \in Orphaned : r \in Run /\ requeues[r] + 1 \in 0..MaxRequeues
    BY <1>1, BoundsAssumption DEF Orphaned
  <2>4. requeues' \in [Run -> 0..MaxRequeues]
    BY <1>1, <1>3, <2>3 DEF RequeueOrphanedRuns
  <2>5. outbox' \subseteq Job
    <3>1. \A r \in Orphaned :
            [kind |-> "execute", run |-> r, nth |-> requeues[r] + 1] \in Job
      BY <2>3 DEF Job, ExecuteJob
    <3>2. QED
      BY <1>3, <3>1 DEF TypeOK, RequeueOrphanedRuns
  <2>6. QED
    BY <1>3, <2>2, <2>4, <2>5 DEF TypeOK, RequeueOrphanedRuns
<1>4. QED
  BY <1>2, <1>3

LEMMA TypeStep ==
  ASSUME TypeOK, TaskInv, GateInv, [Next]_vars
  PROVE  TypeOK'
<1>1. CASE \E r \in Run : SubmitMessage(r)
  BY <1>1, SubmitType
<1>2. CASE RequeueOrphanedRuns \/ \E r \in Run : HeartbeatExpires(r)
  BY <1>2, SweepType
<1>3. CASE \E h \in Handler, r \in Run : RequestCancelRead(h, r)
  BY <1>3, CancelReadType
<1>4. CASE \E h \in Handler, g \in Gate, a \in BOOLEAN :
             DecideApprovalRead(h, g, a)
  BY <1>4, DecideReadType
<1>5. CASE \E h \in Handler : HandlerStep(h)
  BY <1>5, CancelWriteType, DecideWriteType DEF HandlerStep
<1>6. CASE \E j \in outbox : Dispatch(j) \/ LoseDispatch(j)
  BY <1>6, DispatchType
<1>7. CASE \E j \in queue : TakeJob(j)
  BY <1>7, ExecuteType, ResumeReadType DEF TakeJob
<1>8. CASE \E t \in Task : TaskStep(t)
  <2>1. PICK t \in Task : TaskStep(t)
    BY <1>8
  <2>2. CASE \/ BuildTranscript(t) \/ RunGatedCall(t) \/ RunTool(t)
             \/ LoopHead(t) \/ LoopRaises(t)
    BY <2>2, LocalStepType
  <2>3. CASE \/ RecordGatedCall(t) \/ RecordTool(t) \/ AnswerTurn(t)
             \/ \E k \in 1..MaxCalls : ToolTurn(t, k)
    BY <2>3, RecordingStepType
  <2>4. CASE ResumeClaim(t)
    BY <2>4, ResumeClaimType
  <2>5. CASE \E g \in Gate : ParkForApproval(t, g)
    BY <2>5, ParkType
  <2>6. CASE Finish(t) \/ FinishFailed(t)
    BY <2>6, FinishType
  <2>7. QED
    BY <2>1, <2>2, <2>3, <2>4, <2>5, <2>6 DEF TaskStep
<1>9. CASE \E t \in Task : ResumeRaises(t) \/ Crash(t) \/ Escape(t)
  BY <1>9, FaultType
<1>10. CASE UNCHANGED vars
  BY <1>10 DEF TypeOK, vars
<1>11. QED
  BY <1>1, <1>2, <1>3, <1>4, <1>5, <1>6, <1>7, <1>8, <1>9, <1>10 DEF Next

(***************************************************************************)
(* What tasks hold, and the gates that jobs and checkpoints name.          *)
(***************************************************************************)
LEMMA TaskUpdate ==
  ASSUME TypeOK, TaskInv, NEW t \in Task, NEW v,
         task' = [task EXCEPT ![t] = v], TaskOK(v)
  PROVE  TaskInv'
BY DEF TypeOK, TaskInv

LEMMA IdleOK == TaskOK(IdleTask)
BY DEF TaskOK, IdleTask

LEMMA ClaimTaskOK ==
  ASSUME TypeOK, TaskInv, NEW t \in Task, NEW j \in Job, NEW from,
         NEW pc \in Driving, NEW ck, Claim(t, j, from, pc, ck),
         pc = "building" \/ (pc = "gated" /\ j \in ResumeJob /\ ck \in Ckpt)
  PROVE  TaskInv'
<1>1. CASE Release(t)
  BY <1>1, IdleOK, TaskUpdate DEF Release
<1>2. CASE task' = [task EXCEPT ![t] =
                   [IdleTask EXCEPT !.pc = pc, !.job = j, !.ckpt = ck,
                      !.steps = row[j.run].steps, !.seq = Len(log[j.run])]]
  <2>1. TaskOK([IdleTask EXCEPT !.pc = pc, !.job = j, !.ckpt = ck,
                      !.steps = row[j.run].steps, !.seq = Len(log[j.run])])
    BY DEF TaskOK, IdleTask
  <2>2. QED
    BY <1>2, <2>1, TaskUpdate
<1>3. QED
  BY <1>1, <1>2 DEF Claim

LEMMA LocalTaskOK ==
  ASSUME TypeOK, TaskInv, NEW t \in Task,
         \/ BuildTranscript(t) \/ RunGatedCall(t) \/ RunTool(t)
         \/ LoopHead(t) \/ LoopRaises(t)
  PROVE  TaskInv'
<1>1. TaskOK(task[t]) /\ task[t] \in TaskType
  BY DEF TaskInv, TypeOK
<1>2. "failed" \in Terminal /\ "cancelled" \in Terminal
  BY DEF Terminal
<1>3. CASE BuildTranscript(t)
  <2>1. TaskOK([task[t] EXCEPT !.pc = "calls"])
    BY <1>1, <1>3 DEF BuildTranscript, TaskOK, TaskType
  <2>2. QED
    BY <1>3, <2>1, TaskUpdate DEF BuildTranscript
<1>4. CASE RunGatedCall(t)
  <2>1. TaskOK([task[t] EXCEPT !.pc = "gatedDone"])
    BY <1>1, <1>4 DEF RunGatedCall, TaskOK, TaskType
  <2>2. QED
    BY <1>4, <2>1, TaskUpdate DEF RunGatedCall
<1>5. CASE RunTool(t)
  <2>1. TaskOK([task[t] EXCEPT !.pc = "callDone", !.left = task[t].left - 1])
    BY <1>1, <1>5 DEF RunTool, TaskOK, TaskType
  <2>2. QED
    BY <1>5, <2>1, TaskUpdate DEF RunTool
<1>6. CASE LoopHead(t)
  <2>1. TaskOK([task[t] EXCEPT !.pc = "turn"])
    BY <1>1, <1>6 DEF LoopHead, TaskOK, TaskType
  <2>2. \A o \in Terminal :
          TaskOK([task[t] EXCEPT !.pc = "finishing", !.outcome = o])
    BY <1>1, <1>6 DEF LoopHead, TaskOK, TaskType
  <2>3. QED
    BY <1>2, <1>6, <2>1, <2>2, TaskUpdate DEF LoopHead, Conclude
<1>7. CASE LoopRaises(t)
  <2>1. TaskOK([task[t] EXCEPT !.pc = "failing", !.outcome = "failed"])
    BY <1>1, <1>2, <1>7 DEF LoopRaises, TaskOK, TaskType
  <2>2. QED
    BY <1>7, <2>1, TaskUpdate DEF LoopRaises, Raise
<1>8. QED
  BY <1>3, <1>4, <1>5, <1>6, <1>7

LEMMA RecordingTaskOK ==
  ASSUME TypeOK, TaskInv, NEW t \in Task,
         \/ RecordGatedCall(t) \/ RecordTool(t) \/ AnswerTurn(t)
         \/ \E k \in 1..MaxCalls : ToolTurn(t, k)
  PROVE  TaskInv'
<1>1. TaskOK(task[t]) /\ task[t] \in TaskType
  BY DEF TaskInv, TypeOK
<1>2. "succeeded" \in Terminal
  BY DEF Terminal
<1>3. CASE RecordGatedCall(t)
  <2>1. TaskOK([task[t] EXCEPT !.pc = "calls", !.seq = task[t].seq + 1,
                               !.left = task[t].ckpt.rest])
    BY <1>1, <1>3 DEF RecordGatedCall, TaskOK, TaskType
  <2>2. QED
    BY <1>3, <2>1, TaskUpdate DEF RecordGatedCall
<1>4. CASE RecordTool(t)
  <2>1. TaskOK([task[t] EXCEPT !.pc = "calls", !.seq = task[t].seq + 1])
    BY <1>1, <1>4 DEF RecordTool, TaskOK, TaskType
  <2>2. QED
    BY <1>4, <2>1, TaskUpdate DEF RecordTool
<1>5. CASE AnswerTurn(t)
  <2>1. TaskOK([task[t] EXCEPT !.pc = "finishing", !.outcome = "succeeded",
                               !.steps = task[t].steps + 1,
                               !.seq = task[t].seq + 1])
    BY <1>1, <1>2, <1>5 DEF AnswerTurn, TaskOK, TaskType
  <2>2. QED
    BY <1>5, <2>1, TaskUpdate DEF AnswerTurn
<1>6. CASE \E k \in 1..MaxCalls : ToolTurn(t, k)
  <2>1. PICK k \in 1..MaxCalls : ToolTurn(t, k)
    BY <1>6
  <2>2. TaskOK([task[t] EXCEPT !.pc = "calls", !.left = k,
                               !.steps = task[t].steps + 1,
                               !.seq = task[t].seq + 1])
    BY <1>1, <2>1 DEF ToolTurn, TaskOK, TaskType
  <2>3. QED
    BY <2>1, <2>2, TaskUpdate DEF ToolTurn
<1>7. QED
  BY <1>3, <1>4, <1>5, <1>6

LEMMA AnnounceTaskOK ==
  ASSUME TypeOK, TaskInv, NEW t \in Task, task[t].pc # "idle", Announce(t)
  PROVE  TaskInv'
<1>1. TaskOK(task[t]) /\ task[t] \in TaskType /\ "failed" \in Terminal
  BY DEF TaskInv, TypeOK, Terminal
<1>2. TaskOK([task[t] EXCEPT !.pc = "failing", !.outcome = "failed"])
  BY <1>1 DEF TaskOK, TaskType
<1>3. QED
  BY <1>2, IdleOK, TaskUpdate DEF Announce, Release, Raise

LEMMA TaskInvStep ==
  ASSUME TypeOK, TaskInv, [Next]_vars
  PROVE  TaskInv'
<1>1. CASE UNCHANGED task
  BY <1>1 DEF TaskInv
<1>2. CASE \E t \in Task : Release(t)
  BY <1>2, IdleOK, TaskUpdate DEF Release
<1>3. CASE \E j \in queue : TakeJob(j)
  <2>1. PICK j \in queue, t \in Task : ExecuteRun(t, j) \/ ResumeRead(t, j)
    BY <1>3 DEF TakeJob
  <2>2. j \in Job
    BY DEF TypeOK
  <2>3. CASE ExecuteRun(t, j)
    BY <2>2, <2>3, ClaimTaskOK DEF ExecuteRun, Driving
  <2>4. CASE ResumeRead(t, j)
    <3>1. CASE UNCHANGED task
      BY <3>1 DEF TaskInv
    <3>2. CASE row[j.run].ckpt # NoCkpt /\ task' = [task EXCEPT ![t] =
              [IdleTask EXCEPT !.pc = "reading", !.job = j,
                               !.ckpt = row[j.run].ckpt]]
      <4>1. j \in ResumeJob
        BY <2>2, <2>4 DEF ResumeRead, Job, ExecuteJob
      <4>2. row[j.run].ckpt \in Ckpt
        BY <2>2, <3>2, JobRun DEF TypeOK, RowType
      <4>3. TaskOK([IdleTask EXCEPT !.pc = "reading", !.job = j,
                               !.ckpt = row[j.run].ckpt])
        BY <2>2, <4>1, <4>2 DEF TaskOK, IdleTask
      <4>4. QED
        BY <3>2, <4>3, TaskUpdate
    <3>3. QED
      BY <2>4, <3>1, <3>2 DEF ResumeRead
  <2>5. QED
    BY <2>1, <2>3, <2>4
<1>4. CASE \E t \in Task : TaskStep(t)
  <2>1. PICK t \in Task : TaskStep(t)
    BY <1>4
  <2>2. TaskOK(task[t]) /\ task[t] \in TaskType
    BY DEF TaskInv, TypeOK
  <2>3. CASE ResumeClaim(t)
    <3>1. task[t].job \in ResumeJob /\ task[t].ckpt \in Ckpt
      BY <2>2, <2>3 DEF ResumeClaim, TaskOK
    <3>2. "gated" \in Driving /\ task[t].job \in Job
      BY <3>1 DEF Driving, Job
    <3>3. Claim(t, task[t].job, "awaiting_approval", "gated", task[t].ckpt)
      BY <2>3 DEF ResumeClaim
    <3>4. QED
      BY <3>1, <3>2, <3>3, ClaimTaskOK
  <2>4. CASE \/ BuildTranscript(t) \/ RunGatedCall(t) \/ RunTool(t)
             \/ LoopHead(t) \/ LoopRaises(t)
    BY <2>4, LocalTaskOK
  <2>5. CASE \/ RecordGatedCall(t) \/ RecordTool(t) \/ AnswerTurn(t)
             \/ \E k \in 1..MaxCalls : ToolTurn(t, k)
    BY <2>5, RecordingTaskOK
  <2>6. CASE (\E g \in Gate : ParkForApproval(t, g)) \/ Finish(t)
    <3>1. task[t].pc # "idle" /\ Announce(t)
      BY <2>6 DEF ParkForApproval, Finish
    <3>2. QED
      BY <3>1, AnnounceTaskOK
  <2>7. CASE FinishFailed(t)
    BY <2>7, IdleOK, TaskUpdate DEF FinishFailed, Release
  <2>8. QED
    BY <2>1, <2>3, <2>4, <2>5, <2>6, <2>7 DEF TaskStep
<1>5. QED
  <2>1. CASE \/ \E r \in Run : SubmitMessage(r) \/ HeartbeatExpires(r)
             \/ \E h \in Handler, r \in Run : RequestCancelRead(h, r)
             \/ \E h \in Handler, g \in Gate, a \in BOOLEAN :
                  DecideApprovalRead(h, g, a)
             \/ \E h \in Handler : HandlerStep(h)
             \/ \E j \in outbox : Dispatch(j) \/ LoseDispatch(j)
             \/ RequeueOrphanedRuns
             \/ UNCHANGED vars
    <3>1. UNCHANGED task
      BY <2>1 DEF SubmitMessage, HeartbeatExpires, RequestCancelRead,
                  DecideApprovalRead, HandlerStep, RequestCancelWrite,
                  DecideApprovalWrite, Dispatch, LoseDispatch,
                  RequeueOrphanedRuns, vars
    <3>2. QED
      BY <3>1, <1>1
  <2>2. CASE \E t \in Task : ResumeRaises(t) \/ Crash(t) \/ Escape(t)
    BY <2>2, <1>2 DEF ResumeRaises, Crash, Escape
  <2>3. QED
    BY <1>3, <1>4, <2>1, <2>2 DEF Next

\* Only a park creates an approval request and only a decision updates one.
LEMMA ApprWriters ==
  ASSUME [Next]_vars
  PROVE  \/ UNCHANGED appr
         \/ \E h \in Handler : DecideApprovalWrite(h)
         \/ \E t \in Task, g \in Gate : ParkForApproval(t, g)
<1>1. CASE \E t \in Task : TaskStep(t)
  BY <1>1 DEF TaskStep, BuildTranscript, ResumeClaim, RunGatedCall,
              RecordGatedCall, RunTool, RecordTool, LoopHead, AnswerTurn,
              ToolTurn, LoopRaises, Finish, FinishFailed
<1>2. CASE \E t \in Task : ResumeRaises(t) \/ Crash(t) \/ Escape(t)
  BY <1>2 DEF ResumeRaises, Crash, Escape
<1>3. CASE \E j \in queue : TakeJob(j)
  BY <1>3 DEF TakeJob, ExecuteRun, ResumeRead
<1>4. CASE \/ \E r \in Run : SubmitMessage(r) \/ HeartbeatExpires(r)
           \/ \E h \in Handler, r \in Run : RequestCancelRead(h, r)
           \/ \E h \in Handler, g \in Gate, a \in BOOLEAN :
                DecideApprovalRead(h, g, a)
           \/ \E h \in Handler : HandlerStep(h)
           \/ \E j \in outbox : Dispatch(j) \/ LoseDispatch(j)
           \/ RequeueOrphanedRuns
           \/ UNCHANGED vars
  BY <1>4 DEF SubmitMessage, HeartbeatExpires, RequestCancelRead,
              DecideApprovalRead, HandlerStep, RequestCancelWrite,
              Dispatch, LoseDispatch, RequeueOrphanedRuns, vars
<1>5. QED
  BY <1>1, <1>2, <1>3, <1>4 DEF Next

\* A request that exists goes on existing, for the same run.
LEMMA GatesKept ==
  ASSUME TypeOK, [Next]_vars, NEW g \in Gate, appr[g].status # "unused"
  PROVE  appr'[g].status # "unused" /\ appr'[g].run = appr[g].run
<1>1. appr \in [Gate -> ApprType]
  BY DEF TypeOK
<1>2. CASE UNCHANGED appr
  BY <1>2
<1>3. CASE \E h \in Handler : DecideApprovalWrite(h)
  <2>1. PICK h \in Handler :
          \/ appr' = [appr EXCEPT ![req[h].gate].status = "approved"]
          \/ appr' = [appr EXCEPT ![req[h].gate].status = "denied"]
    BY <1>3 DEF DecideApprovalWrite
  <2>2. QED
    BY <1>1, <2>1 DEF ApprType
<1>4. CASE \E t \in Task, f \in Gate : ParkForApproval(t, f)
  <2>1. PICK t \in Task, f \in Gate : ParkForApproval(t, f)
    BY <1>4
  <2>2. f # g /\ appr' = [appr EXCEPT ![f] =
                           [status |-> "pending", run |-> task[t].job.run]]
    BY <2>1 DEF ParkForApproval
  <2>3. QED
    BY <1>1, <2>2
<1>5. QED
  BY <1>2, <1>3, <1>4, ApprWriters

\* The request a decision is about is unused for nobody.
LEMMA DecideNames ==
  ASSUME TypeOK, GateInv, NEW h \in Handler, DecideApprovalWrite(h)
  PROVE  /\ req[h] \in DecideReq /\ req[h].gate \in Gate
         /\ appr[req[h].gate].run \in Run
         /\ appr'[req[h].gate].status # "unused"
         /\ appr'[req[h].gate].run = appr[req[h].gate].run
<1>1. req[h] \in DecideReq
  BY DEF TypeOK, DecideApprovalWrite, ReqType, CancelReq, DecideReq
<1>2. req[h].gate \in Gate
  BY <1>1 DEF DecideReq
<1>3. appr[req[h].gate].status # "unused" /\ appr[req[h].gate].run \in Run
  BY <1>1, <1>2 DEF GateInv
<1>4. Next
  BY DEF Next, HandlerStep
<1>5. QED
  BY <1>1, <1>2, <1>3, <1>4, GatesKept

\* The gate a run parks at is its own.
LEMMA ParkNames ==
  ASSUME TypeOK, TaskInv, NEW t \in Task, NEW g \in Gate,
         ParkForApproval(t, g)
  PROVE  /\ task[t].job.run \in Run
         /\ appr'[g] = [status |-> "pending", run |-> task[t].job.run]
<1>1. task[t].job.run \in Run
  BY JobRun DEF TaskInv, TaskOK, ParkForApproval
<1>2. appr \in [Gate -> ApprType]
  BY DEF TypeOK
<1>3. appr' = [appr EXCEPT ![g] =
                 [status |-> "pending", run |-> task[t].job.run]]
  BY DEF ParkForApproval
<1>4. QED
  BY <1>1, <1>2, <1>3

\* First conjunct of GateInv.
LEMMA ApprRunStep ==
  ASSUME TypeOK, TaskInv, GateInv, [Next]_vars,
         NEW g \in Gate, appr'[g].status # "unused"
  PROVE  appr'[g].run \in Run
<1>1. CASE appr[g].status # "unused"
  BY <1>1, GatesKept DEF GateInv
<1>2. CASE appr[g].status = "unused"
  <2>1. appr \in [Gate -> ApprType]
    BY DEF TypeOK
  <2>2. ~UNCHANGED appr
    BY <1>2
  <2>3. CASE \E h \in Handler : DecideApprovalWrite(h)
    <3>1. PICK h \in Handler : DecideApprovalWrite(h)
      BY <2>3
    <3>2. req[h].gate # g
      BY <1>2, <3>1, DecideNames DEF GateInv
    <3>3. \/ appr' = [appr EXCEPT ![req[h].gate].status = "approved"]
          \/ appr' = [appr EXCEPT ![req[h].gate].status = "denied"]
      BY <3>1 DEF DecideApprovalWrite
    <3>4. QED
      BY <1>2, <2>1, <3>2, <3>3
  <2>4. CASE \E t \in Task, f \in Gate : ParkForApproval(t, f)
    <3>1. PICK t \in Task, f \in Gate : ParkForApproval(t, f)
      BY <2>4
    <3>2. appr' = [appr EXCEPT ![f] =
                     [status |-> "pending", run |-> task[t].job.run]]
      BY <3>1 DEF ParkForApproval
    <3>3. task[t].job.run \in Run
      BY <3>1, ParkNames
    <3>4. QED
      BY <1>2, <2>1, <3>2, <3>3
  <2>5. QED
    BY <2>2, <2>3, <2>4, ApprWriters
<1>3. QED
  BY <1>1, <1>2

\* Second conjunct: a decision under way is about a request that exists.
LEMMA ReqStep ==
  ASSUME TypeOK, GateInv, [Next]_vars,
         NEW h \in Handler, req'[h] \in DecideReq
  PROVE  appr'[req'[h].gate].status # "unused"
<1>1. CASE req'[h] = req[h]
  <2>1. req[h].gate \in Gate /\ appr[req[h].gate].status # "unused"
    BY <1>1 DEF GateInv, DecideReq
  <2>2. QED
    BY <1>1, <2>1, GatesKept
<1>2. CASE req'[h] # req[h]
  <2>1. req \in [Handler -> ReqType]
    BY DEF TypeOK
  <2>2. CASE \E f \in Handler, r \in Run : RequestCancelRead(f, r)
    <3>1. PICK f \in Handler, r \in Run : RequestCancelRead(f, r)
      BY <2>2
    <3>2. req'[h] = [op |-> "cancel", run |-> r, seen |-> row[r].status]
      BY <1>2, <2>1, <3>1 DEF RequestCancelRead
    <3>3. QED
      BY <3>2 DEF DecideReq
  <2>3. CASE \E f \in Handler, g \in Gate, a \in BOOLEAN :
               DecideApprovalRead(f, g, a)
    <3>1. PICK f \in Handler, g \in Gate, a \in BOOLEAN :
            DecideApprovalRead(f, g, a)
      BY <2>3
    <3>2. req'[h].gate = g /\ appr' = appr /\ appr[g].status = "pending"
      BY <1>2, <2>1, <3>1 DEF DecideApprovalRead
    <3>3. QED
      BY <3>2
  <2>4. CASE \E f \in Handler : HandlerStep(f)
    <3>1. req'[h] = NoReq
      BY <1>2, <2>1, <2>4
         DEF HandlerStep, RequestCancelWrite, DecideApprovalWrite
    <3>2. QED
      BY <3>1, NullsAssumption
  <2>5. QED
    <3>1. CASE \E t \in Task : TaskStep(t)
      BY <1>2, <3>1 DEF TaskStep, BuildTranscript, ResumeClaim, RunGatedCall,
              RecordGatedCall, RunTool, RecordTool, LoopHead, AnswerTurn,
              ToolTurn, LoopRaises, Finish, FinishFailed, ParkForApproval
    <3>2. CASE \E t \in Task : ResumeRaises(t) \/ Crash(t) \/ Escape(t)
      BY <1>2, <3>2 DEF ResumeRaises, Crash, Escape
    <3>3. CASE \E j \in queue : TakeJob(j)
      BY <1>2, <3>3 DEF TakeJob, ExecuteRun, ResumeRead
    <3>4. CASE \/ \E r \in Run : SubmitMessage(r) \/ HeartbeatExpires(r)
               \/ \E j \in outbox : Dispatch(j) \/ LoseDispatch(j)
               \/ RequeueOrphanedRuns \/ UNCHANGED vars
      BY <1>2, <3>4 DEF SubmitMessage, HeartbeatExpires, Dispatch,
                        LoseDispatch, RequeueOrphanedRuns, vars
    <3>5. QED
      BY <2>2, <2>3, <2>4, <3>1, <3>2, <3>3, <3>4 DEF Next
<1>3. QED
  BY <1>1, <1>2

\* A step of a task that goes on keeps its job.
LEMMA JobKept ==
  ASSUME TypeOK, NEW t \in Task,
         \/ BuildTranscript(t) \/ RunGatedCall(t) \/ RunTool(t)
         \/ LoopHead(t) \/ RecordGatedCall(t) \/ RecordTool(t)
         \/ AnswerTurn(t) \/ (\E k \in 1..MaxCalls : ToolTurn(t, k))
         \/ Raise(t)
  PROVE  \E v : task' = [task EXCEPT ![t] = v] /\ v.job = task[t].job
<1>1. task \in [Task -> TaskType] /\ task[t] \in TaskType
  BY DEF TypeOK
<1> DEFINE V(v) == task' = [task EXCEPT ![t] = v] /\ v.job = task[t].job
<1>2. CASE BuildTranscript(t)
  <2>1. V([task[t] EXCEPT !.pc = "calls"])
    BY <1>1, <1>2 DEF BuildTranscript, TaskType
  <2>2. QED
    BY <2>1
<1>3. CASE RunGatedCall(t)
  <2>1. V([task[t] EXCEPT !.pc = "gatedDone"])
    BY <1>1, <1>3 DEF RunGatedCall, TaskType
  <2>2. QED
    BY <2>1
<1>4. CASE RunTool(t)
  <2>1. V([task[t] EXCEPT !.pc = "callDone", !.left = task[t].left - 1])
    BY <1>1, <1>4 DEF RunTool, TaskType
  <2>2. QED
    BY <2>1
<1>5. CASE LoopHead(t)
  <2>1. CASE task' = [task EXCEPT ![t].pc = "turn"]
    <3>1. V([task[t] EXCEPT !.pc = "turn"])
      BY <1>1, <2>1 DEF TaskType
    <3>2. QED
      BY <3>1
  <2>2. ASSUME NEW o, Conclude(t, o)
        PROVE  \E v : V(v)
    <3>1. V([task[t] EXCEPT !.pc = "finishing", !.outcome = o])
      BY <1>1, <2>2 DEF Conclude, TaskType
    <3>2. QED
      BY <3>1
  <2>3. QED
    BY <1>5, <2>1, <2>2 DEF LoopHead
<1>6. CASE RecordGatedCall(t)
  <2>1. V([task[t] EXCEPT !.pc = "calls", !.seq = task[t].seq + 1,
                          !.left = task[t].ckpt.rest])
    BY <1>1, <1>6 DEF RecordGatedCall, TaskType
  <2>2. QED
    BY <2>1
<1>7. CASE RecordTool(t)
  <2>1. V([task[t] EXCEPT !.pc = "calls", !.seq = task[t].seq + 1])
    BY <1>1, <1>7 DEF RecordTool, TaskType
  <2>2. QED
    BY <2>1
<1>8. CASE AnswerTurn(t)
  <2>1. V([task[t] EXCEPT !.pc = "finishing", !.outcome = "succeeded",
                          !.steps = task[t].steps + 1,
                          !.seq = task[t].seq + 1])
    BY <1>1, <1>8 DEF AnswerTurn, TaskType
  <2>2. QED
    BY <2>1
<1>9. CASE \E k \in 1..MaxCalls : ToolTurn(t, k)
  <2>1. PICK k \in 1..MaxCalls : ToolTurn(t, k)
    BY <1>9
  <2>2. V([task[t] EXCEPT !.pc = "calls", !.left = k,
                          !.steps = task[t].steps + 1,
                          !.seq = task[t].seq + 1])
    BY <1>1, <2>1 DEF ToolTurn, TaskType
  <2>3. QED
    BY <2>2
<1>10. CASE Raise(t)
  <2>1. V([task[t] EXCEPT !.pc = "failing", !.outcome = "failed"])
    BY <1>1, <1>10 DEF Raise, TaskType
  <2>2. QED
    BY <2>1
<1>11. QED
  BY <1>2, <1>3, <1>4, <1>5, <1>6, <1>7, <1>8, <1>9, <1>10

\* A task's job never changes except to one it takes from the queue.
LEMMA TaskJobs ==
  ASSUME TypeOK, [Next]_vars, NEW t \in Task
  PROVE  task'[t].job \in {NoJob, task[t].job} \cup queue
<1>1. task \in [Task -> TaskType] /\ IdleTask.job = NoJob
  BY DEF TypeOK, IdleTask
<1>2. CASE UNCHANGED task
  BY <1>2
<1>3. CASE \E u \in Task : \E v :
             /\ task' = [task EXCEPT ![u] = v]
             /\ v.job \in {NoJob, task[u].job} \cup queue
  BY <1>1, <1>3
<1>4. CASE \E u \in Task : Release(u)
  BY <1>1, <1>3, <1>4 DEF Release
<1>5. ASSUME NEW u \in Task, NEW j, NEW from, NEW pc, NEW ck,
             Claim(u, j, from, pc, ck), j \in queue \cup {task[u].job}
      PROVE  task'[t].job \in {NoJob, task[t].job} \cup queue
  <2> DEFINE v == [IdleTask EXCEPT !.pc = pc, !.job = j, !.ckpt = ck,
                     !.steps = row[j.run].steps, !.seq = Len(log[j.run])]
  <2>1. v.job = j
    BY DEF IdleTask
  <2>2. CASE task' = [task EXCEPT ![u] = v]
    <3> HIDE DEF v
    <3>1. QED
      BY <1>3, <1>5, <2>1, <2>2
  <2>3. CASE Release(u)
    BY <1>4, <2>3
  <2>4. QED
    BY <1>5, <2>2, <2>3 DEF Claim
<1>6. CASE \E j \in queue : TakeJob(j)
  <2>1. PICK j \in queue, u \in Task : ExecuteRun(u, j) \/ ResumeRead(u, j)
    BY <1>6 DEF TakeJob
  <2>2. CASE ResumeRead(u, j)
    <3>1. [IdleTask EXCEPT !.pc = "reading", !.job = j,
                           !.ckpt = row[j.run].ckpt].job = j
      BY DEF IdleTask
    <3>2. QED
      BY <1>2, <1>3, <2>2, <3>1 DEF ResumeRead
  <2>3. CASE ExecuteRun(u, j)
    BY <1>5, <2>3 DEF ExecuteRun
  <2>4. QED
    BY <2>1, <2>2, <2>3
<1>7. CASE \E u \in Task : TaskStep(u)
  <2>1. PICK u \in Task : TaskStep(u)
    BY <1>7
  <2>2. CASE ResumeClaim(u)
    BY <1>5, <2>2 DEF ResumeClaim
  <2>3. CASE \/ BuildTranscript(u) \/ RunGatedCall(u) \/ RunTool(u)
             \/ LoopHead(u) \/ RecordGatedCall(u) \/ RecordTool(u)
             \/ AnswerTurn(u) \/ (\E k \in 1..MaxCalls : ToolTurn(u, k))
             \/ Raise(u)
    BY <1>3, <2>3, JobKept
  <2>4. CASE LoopRaises(u)
    BY <2>3, <2>4 DEF LoopRaises
  <2>5. CASE (\E g \in Gate : ParkForApproval(u, g)) \/ Finish(u)
    <3>1. Release(u) \/ Raise(u)
      BY <2>5 DEF ParkForApproval, Finish, Announce
    <3>2. QED
      BY <1>4, <2>3, <3>1
  <2>6. CASE FinishFailed(u)
    BY <1>4, <2>6 DEF FinishFailed
  <2>7. QED
    BY <2>1, <2>2, <2>3, <2>4, <2>5, <2>6 DEF TaskStep
<1>8. CASE \E u \in Task : ResumeRaises(u) \/ Crash(u) \/ Escape(u)
  BY <1>4, <1>8 DEF ResumeRaises, Crash, Escape
<1>9. QED
  BY <1>2, <1>6, <1>7, <1>8
     DEF Next, SubmitMessage, HeartbeatExpires, RequestCancelRead,
         DecideApprovalRead, HandlerStep, RequestCancelWrite,
         DecideApprovalWrite, Dispatch, LoseDispatch, RequeueOrphanedRuns,
         vars

\* Jobs enter the queue from the outbox or from a worker that died.
LEMMA QueueJobs ==
  ASSUME [Next]_vars
  PROVE  queue' \subseteq JobsInSystem
<1>1. CASE \E t \in Task : TaskStep(t)
  BY <1>1 DEF TaskStep, BuildTranscript, ResumeClaim, RunGatedCall,
              RecordGatedCall, RunTool, RecordTool, LoopHead, AnswerTurn,
              ToolTurn, LoopRaises, Finish, FinishFailed, ParkForApproval,
              JobsInSystem
<1>2. CASE \E t \in Task : ResumeRaises(t) \/ Crash(t) \/ Escape(t)
  BY <1>2 DEF ResumeRaises, Crash, Escape, JobsInSystem
<1>3. CASE \E j \in queue : TakeJob(j)
  BY <1>3 DEF TakeJob, ExecuteRun, ResumeRead, JobsInSystem
<1>4. CASE \/ \E r \in Run : SubmitMessage(r) \/ HeartbeatExpires(r)
           \/ \E h \in Handler, r \in Run : RequestCancelRead(h, r)
           \/ \E h \in Handler, g \in Gate, a \in BOOLEAN :
                DecideApprovalRead(h, g, a)
           \/ \E h \in Handler : HandlerStep(h)
           \/ \E j \in outbox : Dispatch(j) \/ LoseDispatch(j)
           \/ RequeueOrphanedRuns
           \/ UNCHANGED vars
  BY <1>4 DEF SubmitMessage, HeartbeatExpires, RequestCancelRead,
              DecideApprovalRead, HandlerStep, RequestCancelWrite,
              DecideApprovalWrite, Dispatch, LoseDispatch,
              RequeueOrphanedRuns, vars, JobsInSystem
<1>5. QED
  BY <1>1, <1>2, <1>3, <1>4 DEF Next

\* Resume jobs come from decisions only.
LEMMA OutboxJobs ==
  ASSUME [Next]_vars, NEW j \in outbox', j \notin outbox
  PROVE  \/ j.kind = "execute"
         \/ \E h \in Handler :
              /\ DecideApprovalWrite(h)
              /\ j.gate = req[h].gate /\ j.run = appr[req[h].gate].run
<1>1. CASE \E t \in Task : TaskStep(t)
  BY <1>1 DEF TaskStep, BuildTranscript, ResumeClaim, RunGatedCall,
              RecordGatedCall, RunTool, RecordTool, LoopHead, AnswerTurn,
              ToolTurn, LoopRaises, Finish, FinishFailed, ParkForApproval
<1>2. CASE \E t \in Task : ResumeRaises(t) \/ Crash(t) \/ Escape(t)
  BY <1>2 DEF ResumeRaises, Crash, Escape
<1>3. CASE \E k \in queue : TakeJob(k)
  BY <1>3 DEF TakeJob, ExecuteRun, ResumeRead
<1>4. CASE \E h \in Handler : DecideApprovalWrite(h)
  <2>1. PICK h \in Handler : DecideApprovalWrite(h)
    BY <1>4
  <2>2. j = [kind |-> "resume", run |-> appr[req[h].gate].run,
             gate |-> req[h].gate, approved |-> req[h].approved, by |-> h]
    BY <2>1 DEF DecideApprovalWrite
  <2>3. QED
    BY <2>1, <2>2
<1>5. CASE (\E r \in Run : SubmitMessage(r)) \/ RequeueOrphanedRuns
  <2>1. CASE \E r \in Run : SubmitMessage(r)
    BY <2>1 DEF SubmitMessage
  <2>2. CASE RequeueOrphanedRuns
    <3>1. PICK r \in Orphaned :
            j = [kind |-> "execute", run |-> r, nth |-> requeues[r] + 1]
      BY <2>2 DEF RequeueOrphanedRuns
    <3>2. QED
      BY <3>1
  <2>3. QED
    BY <1>5, <2>1, <2>2
<1>6. CASE \/ \E r \in Run : HeartbeatExpires(r)
           \/ \E h \in Handler, r \in Run : RequestCancelRead(h, r)
           \/ \E h \in Handler, g \in Gate, a \in BOOLEAN :
                DecideApprovalRead(h, g, a)
           \/ \E h \in Handler : RequestCancelWrite(h)
           \/ \E k \in outbox : Dispatch(k) \/ LoseDispatch(k)
           \/ UNCHANGED vars
  BY <1>6 DEF HeartbeatExpires, RequestCancelRead, DecideApprovalRead,
              RequestCancelWrite, Dispatch, LoseDispatch, vars
<1>7. QED
  BY <1>1, <1>2, <1>3, <1>4, <1>5, <1>6 DEF Next, HandlerStep

\* Third conjunct: a resume job names a request of its own run.
LEMMA JobsStep ==
  ASSUME TypeOK, GateInv, [Next]_vars, NEW j \in JobsInSystem', j \in ResumeJob
  PROVE  appr'[j.gate].status # "unused" /\ appr'[j.gate].run = j.run
<1>1. j.gate \in Gate /\ j.kind # "execute" /\ j # NoJob
  BY NullsAssumption DEF ResumeJob, Job
<1>2. CASE j \in JobsInSystem
  BY <1>1, <1>2, GatesKept DEF GateInv, NamesGate
<1>3. CASE j \notin JobsInSystem
  <2>1. j \in outbox' /\ j \notin outbox
    BY <1>1, <1>3, QueueJobs, TaskJobs DEF JobsInSystem
  <2>2. PICK h \in Handler :
          /\ DecideApprovalWrite(h)
          /\ j.gate = req[h].gate /\ j.run = appr[req[h].gate].run
    BY <1>1, <2>1, OutboxJobs
  <2>3. QED
    BY <2>2, DecideNames
<1>4. QED
  BY <1>2, <1>3

\* A claim leaves the checkpoints of other runs alone and clears its own.
LEMMA ClaimCkpt ==
  ASSUME TypeOK, NEW t \in Task, NEW j \in Job, NEW from, NEW pc, NEW ck,
         Claim(t, j, from, pc, ck), NEW r \in Run, row'[r].ckpt # NoCkpt
  PROVE  row'[r].ckpt = row[r].ckpt
<1>1. row \in [Run -> RowType] /\ j.run \in Run
  BY JobRun DEF TypeOK
<1>2. CASE UNCHANGED row
  BY <1>2
<1>3. CASE \E s : row' = [row EXCEPT ![j.run] =
                  [@ EXCEPT !.status = s, !.ckpt = NoCkpt,
                            !.heartbeat = "fresh"]]
  BY <1>1, <1>3 DEF RowType
<1>4. QED
  BY <1>2, <1>3 DEF Claim

\* Recording a step or an outcome writes no checkpoint.
LEMMA RecordCkpt ==
  ASSUME TypeOK, NEW t \in Task, task[t].job \in Job,
         (\E k : RecordStep(t, k)) \/ RecordOutcome(t),
         NEW r \in Run, row'[r].ckpt # NoCkpt
  PROVE  row'[r].ckpt = row[r].ckpt
<1>1. row \in [Run -> RowType] /\ task[t].job.run \in Run
  BY JobRun DEF TypeOK
<1>2. CASE row' = [row EXCEPT ![task[t].job.run].heartbeat = "fresh"]
  BY <1>1, <1>2 DEF RowType
<1>3. CASE \E s, n : row' = [row EXCEPT ![task[t].job.run] =
               [@ EXCEPT !.status = s, !.ckpt = NoCkpt,
                         !.steps = n, !.heartbeat = "none"]]
  BY <1>1, <1>3 DEF RowType
<1>4. QED
  BY <1>2, <1>3 DEF RecordStep, RecordOutcome

\* Only a park writes a checkpoint.
LEMMA CkptWriters ==
  ASSUME TypeOK, TaskInv, [Next]_vars,
         NEW r \in Run, row'[r].ckpt # NoCkpt
  PROVE  \/ row'[r].ckpt = row[r].ckpt
         \/ \E t \in Task, g \in Gate :
              /\ ParkForApproval(t, g)
              /\ task[t].job.run = r /\ row'[r].ckpt.gate = g
<1>1. row \in [Run -> RowType]
  BY DEF TypeOK
<1>2. CASE UNCHANGED row
  BY <1>2
<1>3. CASE \E t \in Task : TaskStep(t)
  <2>1. PICK t \in Task : TaskStep(t)
    BY <1>3
  <2>2. task[t].pc # "idle" => task[t].job \in Job
    BY DEF TaskInv, TaskOK
  <2>3. CASE ResumeClaim(t)
    BY <2>2, <2>3, ClaimCkpt DEF ResumeClaim
  <2>4. CASE \/ BuildTranscript(t) \/ RunGatedCall(t) \/ RunTool(t)
             \/ LoopHead(t) \/ LoopRaises(t)
    BY <1>2, <2>4 DEF BuildTranscript, RunGatedCall, RunTool, LoopHead,
                      LoopRaises
  <2>5. CASE \/ RecordGatedCall(t) \/ RecordTool(t) \/ AnswerTurn(t)
             \/ \E k \in 1..MaxCalls : ToolTurn(t, k)
    BY <2>2, <2>5, RecordCkpt
       DEF RecordGatedCall, RecordTool, AnswerTurn, ToolTurn
  <2>6. CASE \E g \in Gate : ParkForApproval(t, g)
    <3>1. PICK g \in Gate : ParkForApproval(t, g)
      BY <2>6
    <3>2. task[t].job.run \in Run
      BY <2>2, <3>1, JobRun DEF ParkForApproval
    <3>3. row' = [row EXCEPT ![task[t].job.run] =
            [@ EXCEPT !.status = "awaiting_approval", !.steps = task[t].steps,
                      !.ckpt = [gate |-> g, rest |-> task[t].left - 1]]]
      BY <3>1 DEF ParkForApproval
    <3>4. r # task[t].job.run => row'[r].ckpt = row[r].ckpt
      BY <1>1, <3>2, <3>3
    <3>5. r = task[t].job.run => row'[r].ckpt.gate = g
      BY <1>1, <3>3 DEF RowType
    <3>6. QED
      BY <3>1, <3>4, <3>5
  <2>7. CASE Finish(t) \/ FinishFailed(t)
    BY <2>2, <2>7, RecordCkpt DEF Finish, FinishFailed
  <2>8. QED
    BY <2>1, <2>3, <2>4, <2>5, <2>6, <2>7 DEF TaskStep
<1>4. CASE \E t \in Task : ResumeRaises(t) \/ Crash(t) \/ Escape(t)
  BY <1>2, <1>4 DEF ResumeRaises, Crash, Escape
<1>5. CASE \E j \in queue : TakeJob(j)
  <2>1. PICK j \in queue, t \in Task : ExecuteRun(t, j) \/ ResumeRead(t, j)
    BY <1>5 DEF TakeJob
  <2>2. j \in Job
    BY DEF TypeOK
  <2>3. QED
    BY <1>2, <2>1, <2>2, ClaimCkpt DEF ExecuteRun, ResumeRead
<1>6. CASE \E q \in Run : SubmitMessage(q) \/ HeartbeatExpires(q)
  <2>1. PICK q \in Run : SubmitMessage(q) \/ HeartbeatExpires(q)
    BY <1>6
  <2>2. \/ row' = [row EXCEPT ![q].status = "queued"]
        \/ row' = [row EXCEPT ![q].heartbeat = "stale"]
    BY <2>1 DEF SubmitMessage, HeartbeatExpires
  <2>3. QED
    BY <1>1, <2>2 DEF RowType
<1>7. CASE \E h \in Handler : RequestCancelWrite(h)
  <2>1. PICK h \in Handler : RequestCancelWrite(h)
    BY <1>7
  <2>2. \/ row' = [row EXCEPT ![req[h].run] =
                    [@ EXCEPT !.cancel = TRUE, !.status = "cancelled"]]
        \/ row' = [row EXCEPT ![req[h].run] =
                    [@ EXCEPT !.cancel = TRUE, !.status = "cancelled",
                              !.ckpt = NoCkpt]]
        \/ row' = [row EXCEPT ![req[h].run].cancel = TRUE]
    BY <2>1 DEF RequestCancelWrite
  <2>3. row'[r].ckpt = row[r].ckpt
    <3>1. CASE row' = [row EXCEPT ![req[h].run] =
                    [@ EXCEPT !.cancel = TRUE, !.status = "cancelled"]]
      BY <1>1, <3>1 DEF RowType
    <3>2. CASE row' = [row EXCEPT ![req[h].run] =
                    [@ EXCEPT !.cancel = TRUE, !.status = "cancelled",
                              !.ckpt = NoCkpt]]
      BY <1>1, <3>2 DEF RowType
    <3>3. CASE row' = [row EXCEPT ![req[h].run].cancel = TRUE]
      BY <1>1, <3>3 DEF RowType
    <3>4. QED
      BY <2>2, <3>1, <3>2, <3>3
  <2>4. QED
    BY <2>3
<1>8. CASE RequeueOrphanedRuns
  BY <1>1, <1>8 DEF RequeueOrphanedRuns, RowType
<1>9. CASE \/ \E h \in Handler, q \in Run : RequestCancelRead(h, q)
           \/ \E h \in Handler, g \in Gate, a \in BOOLEAN :
                DecideApprovalRead(h, g, a)
           \/ \E h \in Handler : DecideApprovalWrite(h)
           \/ \E j \in outbox : Dispatch(j) \/ LoseDispatch(j)
           \/ UNCHANGED vars
  BY <1>2, <1>9 DEF RequestCancelRead, DecideApprovalRead,
                    DecideApprovalWrite, Dispatch, LoseDispatch, vars
<1>10. QED
  BY <1>3, <1>4, <1>5, <1>6, <1>7, <1>8, <1>9 DEF Next, HandlerStep

\* Fourth conjunct: a checkpoint names a request of its own run.
LEMMA CkptStep ==
  ASSUME TypeOK, TaskInv, GateInv, [Next]_vars,
         NEW r \in Run, row'[r].ckpt # NoCkpt
  PROVE  /\ appr'[row'[r].ckpt.gate].status # "unused"
         /\ appr'[row'[r].ckpt.gate].run = r
<1>1. CASE row'[r].ckpt = row[r].ckpt
  <2>1. row[r].ckpt.gate \in Gate
    BY <1>1 DEF TypeOK, RowType, Ckpt
  <2>2. QED
    BY <1>1, <2>1, GatesKept DEF GateInv, NamesGate
<1>2. CASE \E t \in Task, g \in Gate :
             /\ ParkForApproval(t, g)
             /\ task[t].job.run = r /\ row'[r].ckpt.gate = g
  <2>1. PICK t \in Task, g \in Gate :
          /\ ParkForApproval(t, g)
          /\ task[t].job.run = r /\ row'[r].ckpt.gate = g
    BY <1>2
  <2>2. appr'[g] = [status |-> "pending", run |-> r]
    BY <2>1, ParkNames
  <2>3. QED
    BY <2>1, <2>2
<1>3. QED
  BY <1>1, <1>2, CkptWriters

LEMMA GateInvStep ==
  ASSUME TypeOK, TaskInv, GateInv, [Next]_vars
  PROVE  GateInv'
BY ApprRunStep, ReqStep, JobsStep, CkptStep DEF GateInv, NamesGate

\* TypeOK is an invariant, for any number of runs, workers and requests.  It
\* is inductive together with what each task holds (TaskInv) and with the
\* agreement of jobs, requests and checkpoints with the gates they name
\* (GateInv): a decision builds its job from the run in the gate's row.
THEOREM TypeCorrect == Spec => []TypeOK
<1> DEFINE Inv == TypeOK /\ TaskInv /\ GateInv
<1>1. Init => Inv
  <2>1. Init => TypeOK
    BY InitType
  <2>2. Init => TaskInv
    BY IdleOK DEF Init, TaskInv
  <2>3. Init => GateInv
    BY NullsAssumption
       DEF Init, GateInv, JobsInSystem, FreshRow, IdleTask, Job
  <2>4. QED
    BY <2>1, <2>2, <2>3
<1>2. Inv /\ [Next]_vars => Inv'
  BY TypeStep, TaskInvStep, GateInvStep
<1>3. QED
  BY <1>1, <1>2, PTL DEF Spec

(***************************************************************************)
(* At most one driver per run.                                             *)
(***************************************************************************)
\* A successful claim: what _claim's update and the task's first state say.
NewDriver(t, r) ==
  /\ row[r].status \in {"queued", "awaiting_approval"}
  /\ row' = [row EXCEPT ![r] =
               [@ EXCEPT !.status = "running", !.ckpt = NoCkpt,
                         !.heartbeat = "fresh"]]
  /\ \E v : /\ task' = [task EXCEPT ![t] = v]
            /\ v.job.run = r /\ v.seq = Len(log[r])
  /\ UNCHANGED <<log, answers>>

\* A claim that fails, or that finds the run not claimable, drives nothing.
LEMMA ClaimDrives ==
  ASSUME TypeOK, NEW t \in Task, NEW j \in Job,
         NEW from \in {"queued", "awaiting_approval"}, NEW pc, NEW ck,
         Claim(t, j, from, pc, ck), UNCHANGED <<log, answers>>
  PROVE  \/ NewDriver(t, j.run)
         \/ Release(t)
<1> DEFINE v == [IdleTask EXCEPT !.pc = pc, !.job = j, !.ckpt = ck,
                   !.steps = row[j.run].steps, !.seq = Len(log[j.run])]
<1>1. v.job.run = j.run /\ v.seq = Len(log[j.run])
  BY DEF IdleTask
<1>2. CASE /\ row[j.run].status = from
           /\ row' = [row EXCEPT ![j.run] =
                  [@ EXCEPT !.status = "running", !.ckpt = NoCkpt,
                            !.heartbeat = "fresh"]]
           /\ task' = [task EXCEPT ![t] = v]
  <2> HIDE DEF v
  <2>1. QED
    BY <1>1, <1>2 DEF NewDriver
<1>3. CASE Release(t)
  BY <1>3
<1>4. QED
  BY <1>2, <1>3 DEF Claim

\* A task that gives its job up drives nothing.
LEMMA ReleaseDrives ==
  ASSUME TypeOK, NEW u \in Task, Release(u),
         NEW t \in Task, NEW r, Drives(t, r)'
  PROVE  Drives(t, r)
<1>1. task \in [Task -> TaskType] /\ IdleTask.pc \notin Driving
  BY DEF TypeOK, IdleTask, Driving
<1>2. task' = [task EXCEPT ![u] = IdleTask]
  BY DEF Release
<1>3. t # u
  BY <1>1, <1>2 DEF Drives
<1>4. QED
  BY <1>1, <1>2, <1>3 DEF Drives

\* Nobody starts to drive a run except by a claim.
LEMMA Drivers ==
  ASSUME TypeOK, TaskInv, [Next]_vars,
         NEW t \in Task, NEW r \in Run, Drives(t, r)', ~Drives(t, r)
  PROVE  NewDriver(t, r)
<1>1. task \in [Task -> TaskType]
  BY DEF TypeOK
<1>2. ~UNCHANGED task
  BY DEF Drives
<1>3. \A u \in Task : ~Release(u)
  BY ReleaseDrives
<1>4. ASSUME NEW u \in Task, NewDriver(u, r)
      PROVE  NewDriver(t, r)
  <2>1. u = t
    BY <1>1, <1>4 DEF NewDriver, Drives
  <2>2. QED
    BY <1>4, <2>1
<1>5. ASSUME NEW u \in Task, NEW q, NewDriver(u, q)
      PROVE  NewDriver(t, r)
  <2>1. PICK v : task' = [task EXCEPT ![u] = v] /\ v.job.run = q
    BY <1>5 DEF NewDriver
  <2>2. t = u
    BY <1>1, <2>1 DEF Drives
  <2>3. q = r
    BY <1>1, <2>1, <2>2 DEF Drives
  <2>4. QED
    BY <1>5, <2>2, <2>3
<1>6. CASE \E j \in queue : TakeJob(j)
  <2>1. PICK j \in queue, u \in Task : ExecuteRun(u, j) \/ ResumeRead(u, j)
    BY <1>6 DEF TakeJob
  <2>2. CASE ResumeRead(u, j)
    <3> DEFINE v == [IdleTask EXCEPT !.pc = "reading", !.job = j,
                                     !.ckpt = row[j.run].ckpt]
    <3>1. v.pc \notin Driving
      BY DEF IdleTask, Driving
    <3>2. task' = [task EXCEPT ![u] = v]
      BY <1>2, <2>2 DEF ResumeRead
    <3> HIDE DEF v
    <3>3. QED
      BY <1>1, <3>1, <3>2 DEF Drives
  <2>3. CASE ExecuteRun(u, j)
    <3>1. j \in Job
      BY DEF TypeOK
    <3>2. NewDriver(u, j.run) \/ Release(u)
      BY <2>3, <3>1, ClaimDrives DEF ExecuteRun
    <3>3. QED
      BY <1>3, <1>5, <3>2
  <2>4. QED
    BY <2>1, <2>2, <2>3
<1>7. CASE \E u \in Task : TaskStep(u)
  <2>1. PICK u \in Task : TaskStep(u)
    BY <1>7
  <2>2. CASE ResumeClaim(u)
    <3>1. task[u].job \in Job
      BY <2>2 DEF ResumeClaim, TaskInv, TaskOK
    <3>2. NewDriver(u, task[u].job.run) \/ Release(u)
      BY <2>2, <3>1, ClaimDrives DEF ResumeClaim
    <3>3. QED
      BY <1>3, <1>5, <3>2
  <2>3. CASE task[u].pc \in Driving
             /\ \E v : task' = [task EXCEPT ![u] = v] /\ v.job = task[u].job
    BY <1>1, <2>3 DEF Drives
  <2>4. CASE \/ BuildTranscript(u) \/ RunGatedCall(u) \/ RunTool(u)
             \/ LoopHead(u) \/ RecordGatedCall(u) \/ RecordTool(u)
             \/ AnswerTurn(u) \/ (\E k \in 1..MaxCalls : ToolTurn(u, k))
    <3>1. task[u].pc \in Driving
      BY <2>4 DEF BuildTranscript, RunGatedCall, RunTool, LoopHead,
                  RecordGatedCall, RecordTool, AnswerTurn, ToolTurn, Driving
    <3>2. QED
      BY <2>3, <2>4, <3>1, JobKept
  <2>5. CASE \/ LoopRaises(u) \/ Finish(u)
             \/ \E g \in Gate : ParkForApproval(u, g)
    <3>1. task[u].pc \in Driving /\ Raise(u)
      BY <1>3, <2>5 DEF LoopRaises, Finish, ParkForApproval, Announce, Driving
    <3>2. QED
      BY <2>3, <3>1, JobKept
  <2>6. CASE FinishFailed(u)
    BY <1>3, <2>6 DEF FinishFailed
  <2>7. QED
    BY <2>1, <2>2, <2>4, <2>5, <2>6 DEF TaskStep
<1>8. CASE \E u \in Task : ResumeRaises(u) \/ Crash(u) \/ Escape(u)
  BY <1>3, <1>8 DEF ResumeRaises, Crash, Escape
<1>9. QED
  BY <1>2, <1>6, <1>7, <1>8
     DEF Next, SubmitMessage, HeartbeatExpires, RequestCancelRead,
         DecideApprovalRead, HandlerStep, RequestCancelWrite,
         DecideApprovalWrite, Dispatch, LoseDispatch, RequeueOrphanedRuns,
         vars

LEMMA SingleDriverStep ==
  ASSUME TypeOK, TaskInv, SingleDriver, DriverInv, [Next]_vars
  PROVE  SingleDriver'
<1> SUFFICES ASSUME NEW r \in Run, NEW t \in Task, NEW u \in Task,
                    Drives(t, r)', Drives(u, r)'
             PROVE  t = u
  BY DEF SingleDriver
<1>1. task \in [Task -> TaskType]
  BY DEF TypeOK
<1>2. ASSUME NEW a \in Task, NEW b \in Task, a # b,
             NewDriver(a, r), Drives(b, r)'
      PROVE  FALSE
  <2>1. Drives(b, r)
    BY <1>1, <1>2 DEF NewDriver, Drives
  <2>2. QED
    BY <1>2, <2>1 DEF DriverInv, NewDriver, Terminal
<1>3. QED
  BY <1>2, Drivers DEF SingleDriver

\* A publish that cannot fail ends the job it announces.
LEMMA AnnounceReleases ==
  ASSUME TypeOK, MaxBusFails = 0, NEW t \in Task, Announce(t)
  PROVE  Release(t)
<1>1. faults.bus \in Nat
  BY DEF TypeOK
<1>2. QED
  BY <1>1 DEF Announce

\* What a step does to a run that one task drives before and after it.
LEMMA DrivenRow ==
  ASSUME TypeOK, TaskInv, SingleDriver, DriverInv, [Next]_vars,
         Timely, MaxBusFails = 0,
         NEW r \in Run, NEW t \in Task, Drives(t, r), Drives(t, r)'
  PROVE  /\ row'[r].status \in {"running"} \cup Terminal
         /\ row'[r].heartbeat = "fresh"
<1>1. row \in [Run -> RowType] /\ task \in [Task -> TaskType]
  BY DEF TypeOK
<1>2. /\ row[r].status \in {"running"} \cup Terminal
      /\ row[r].heartbeat = "fresh"
  BY DEF DriverInv
<1>3. CASE row'[r] = row[r]
  BY <1>2, <1>3
<1>4. \A q : row[q].status \in {"absent", "queued", "awaiting_approval"}
              => q # r
  BY <1>2 DEF Terminal
<1>5. ASSUME NEW u \in Task, Drives(u, r)
      PROVE  ~Release(u)
  <2>1. u = t
    BY <1>5 DEF SingleDriver
  <2>2. QED
    BY <1>1, <2>1 DEF Release, Drives, IdleTask, Driving
<1>6. ASSUME NEW u \in Task, NEW j \in Job, NEW pc, NEW ck,
             NEW from \in {"queued", "awaiting_approval"},
             Claim(u, j, from, pc, ck)
      PROVE  row'[r] = row[r]
  BY <1>1, <1>4, <1>6 DEF Claim
<1>7. CASE \E u \in Task : TaskStep(u)
  <2>1. PICK u \in Task : TaskStep(u)
    BY <1>7
  <2>2. CASE ResumeClaim(u)
    <3>1. task[u].job \in Job
      BY <2>2 DEF ResumeClaim, TaskInv, TaskOK
    <3>2. QED
      BY <1>3, <1>6, <2>2, <3>1 DEF ResumeClaim
  <2>3. CASE \/ BuildTranscript(u) \/ RunGatedCall(u) \/ RunTool(u)
             \/ LoopHead(u) \/ LoopRaises(u)
    BY <1>3, <2>3 DEF BuildTranscript, RunGatedCall, RunTool, LoopHead,
                      LoopRaises
  <2>4. CASE \/ RecordGatedCall(u) \/ RecordTool(u) \/ AnswerTurn(u)
             \/ \E k \in 1..MaxCalls : ToolTurn(u, k)
    <3>1. row' = [row EXCEPT ![task[u].job.run].heartbeat = "fresh"]
      BY <2>4 DEF RecordGatedCall, RecordTool, AnswerTurn, ToolTurn,
                  RecordStep
    <3>2. QED
      BY <1>1, <1>2, <3>1 DEF RowType
  <2>5. CASE \/ Finish(u) \/ FinishFailed(u)
             \/ \E g \in Gate : ParkForApproval(u, g)
    <3>1. Release(u) /\ task[u].pc \in Driving
      BY <2>5, AnnounceReleases
         DEF Finish, FinishFailed, ParkForApproval, Driving
    <3>2. task[u].job.run # r
      BY <1>5, <3>1 DEF Drives
    <3>3. CASE Finish(u) \/ FinishFailed(u)
      <4>1. RecordOutcome(u)
        BY <3>3 DEF Finish, FinishFailed
      <4>2. row'[r] = row[r]
        BY <1>1, <3>2, <4>1 DEF RecordOutcome
      <4>3. QED
        BY <1>3, <4>2
    <3>4. CASE \E g \in Gate : ParkForApproval(u, g)
      <4>1. row'[r] = row[r]
        BY <1>1, <3>2, <3>4 DEF ParkForApproval
      <4>2. QED
        BY <1>3, <4>1
    <3>5. QED
      BY <2>5, <3>3, <3>4
  <2>6. QED
    BY <2>1, <2>2, <2>3, <2>4, <2>5 DEF TaskStep
<1>8. CASE \E u \in Task : ResumeRaises(u) \/ Crash(u) \/ Escape(u)
  BY <1>3, <1>8 DEF ResumeRaises, Crash, Escape
<1>9. CASE \E j \in queue : TakeJob(j)
  <2>1. PICK j \in queue, u \in Task : ExecuteRun(u, j) \/ ResumeRead(u, j)
    BY <1>9 DEF TakeJob
  <2>2. j \in Job
    BY DEF TypeOK
  <2>3. QED
    BY <1>3, <1>6, <2>1, <2>2 DEF ExecuteRun, ResumeRead
<1>10. CASE \E q \in Run : SubmitMessage(q)
  BY <1>1, <1>3, <1>4, <1>10 DEF SubmitMessage
<1>11. CASE \E q \in Run : HeartbeatExpires(q)
  <2>1. PICK q \in Run : HeartbeatExpires(q)
    BY <1>11
  <2>2. q # r
    BY <2>1 DEF HeartbeatExpires
  <2>3. row'[r] = row[r]
    BY <1>1, <2>1, <2>2 DEF HeartbeatExpires
  <2>4. QED
    BY <1>3, <2>3
<1>12. CASE \E h \in Handler : RequestCancelWrite(h)
  <2>1. PICK h \in Handler : RequestCancelWrite(h)
    BY <1>12
  <2>2. "cancelled" \in Terminal
    BY DEF Terminal
  <2>3. CASE row' = [row EXCEPT ![req[h].run] =
                    [@ EXCEPT !.cancel = TRUE, !.status = "cancelled"]]
    BY <1>1, <1>2, <2>2, <2>3 DEF RowType
  <2>4. CASE row' = [row EXCEPT ![req[h].run] =
                    [@ EXCEPT !.cancel = TRUE, !.status = "cancelled",
                              !.ckpt = NoCkpt]]
    BY <1>1, <1>2, <2>2, <2>4 DEF RowType
  <2>5. CASE row' = [row EXCEPT ![req[h].run].cancel = TRUE]
    BY <1>1, <1>2, <2>5 DEF RowType
  <2>6. QED
    BY <2>1, <2>3, <2>4, <2>5 DEF RequestCancelWrite
<1>13. CASE RequeueOrphanedRuns
  <2>1. r \notin Orphaned
    BY <1>2 DEF Orphaned
  <2>2. QED
    BY <1>3, <1>13, <2>1 DEF RequeueOrphanedRuns
<1>14. CASE \/ \E h \in Handler, q \in Run : RequestCancelRead(h, q)
            \/ \E h \in Handler, g \in Gate, a \in BOOLEAN :
                 DecideApprovalRead(h, g, a)
            \/ \E h \in Handler : DecideApprovalWrite(h)
            \/ \E j \in outbox : Dispatch(j) \/ LoseDispatch(j)
            \/ UNCHANGED vars
  BY <1>3, <1>14 DEF RequestCancelRead, DecideApprovalRead,
                    DecideApprovalWrite, Dispatch, LoseDispatch, vars
<1>15. QED
  BY <1>7, <1>8, <1>9, <1>10, <1>11, <1>12, <1>13, <1>14
     DEF Next, HandlerStep

LEMMA DriverInvStep ==
  ASSUME TypeOK, TaskInv, SingleDriver, DriverInv, [Next]_vars,
         Timely, MaxBusFails = 0
  PROVE  DriverInv'
<1> SUFFICES ASSUME NEW r \in Run, NEW t \in Task, Drives(t, r)'
             PROVE  /\ row'[r].status \in {"running"} \cup Terminal
                    /\ row'[r].heartbeat = "fresh"
  BY DEF DriverInv
<1>1. CASE Drives(t, r)
  BY <1>1, DrivenRow
<1>2. CASE ~Drives(t, r)
  <2>1. row \in [Run -> RowType] /\ NewDriver(t, r)
    BY <1>2, Drivers DEF TypeOK
  <2>2. QED
    BY <2>1 DEF NewDriver, RowType
<1>3. QED
  BY <1>1, <1>2

\* Where no live loop is silent for the fifteen minutes of the sweep and no
\* publish fails after a commit, two tasks never drive one run, whatever is
\* delivered twice, cancelled, decided or requeued.  The inductive invariant
\* adds that a driven run is running or already terminal, so that no claim
\* succeeds on it, and that its heartbeat is fresh, so that no sweep takes it.
THEOREM OneDriver ==
  ASSUME Timely, MaxBusFails = 0
  PROVE  Spec => []SingleDriver
<1> DEFINE Inv == /\ TypeOK /\ TaskInv /\ GateInv
                  /\ SingleDriver /\ DriverInv
<1>1. Init => Inv
  <2>1. Init => TypeOK
    BY InitType
  <2>2. Init => TaskInv
    BY IdleOK DEF Init, TaskInv
  <2>3. Init => GateInv
    BY NullsAssumption
       DEF Init, GateInv, JobsInSystem, FreshRow, IdleTask, Job
  <2>4. Init => SingleDriver /\ DriverInv
    BY DEF Init, SingleDriver, DriverInv, Drives, IdleTask, Driving
  <2>5. QED
    BY <2>1, <2>2, <2>3, <2>4
<1>2. Inv /\ [Next]_vars => Inv'
  BY TypeStep, TaskInvStep, GateInvStep, SingleDriverStep, DriverInvStep
<1>3. QED
  BY <1>1, <1>2, PTL DEF Spec

(***************************************************************************)
(* The step log and the answer.                                            *)
(***************************************************************************)
\* Task t records one step of run r, at its own sequence number.
Records(t, r) ==
  /\ Drives(t, r)
  /\ \E k \in {"model", "tool"} :
       log' = [log EXCEPT ![r] = Append(@, [index |-> task[t].seq, kind |-> k])]
  /\ \E v : /\ task' = [task EXCEPT ![t] = v]
            /\ v.seq = task[t].seq + 1
  /\ row'[r].status = row[r].status
  /\ UNCHANGED answers

\* Task t records the outcome of run r, with its answer when there is one.
Settles(t, r) ==
  /\ Drives(t, r)
  /\ task[t].outcome \in Terminal
  /\ row'[r].status = task[t].outcome
  /\ answers' = [answers EXCEPT ![r] =
                   IF task[t].outcome = "succeeded" THEN @ + 1 ELSE @]
  /\ MaxBusFails = 0 => Release(t)
  /\ UNCHANGED log

\* The four steps of the loop that record a step.
LEMMA RecordingRecords ==
  ASSUME TypeOK, TaskInv, NEW t \in Task,
         \/ RecordGatedCall(t) \/ RecordTool(t) \/ AnswerTurn(t)
         \/ \E k \in 1..MaxCalls : ToolTurn(t, k)
  PROVE  task[t].job.run \in Run /\ Records(t, task[t].job.run)
<1> DEFINE r == task[t].job.run
<1>1. task[t].pc \in Driving
  BY DEF RecordGatedCall, RecordTool, AnswerTurn, ToolTurn, Driving
<1>2. r \in Run
  BY <1>1, JobRun DEF TaskInv, TaskOK, Driving
<1>3. \E k \in {"model", "tool"} : RecordStep(t, k)
  BY DEF RecordGatedCall, RecordTool, AnswerTurn, ToolTurn
<1>4. row'[r].status = row[r].status
  <2>1. row' = [row EXCEPT ![r].heartbeat = "fresh"]
    BY <1>3 DEF RecordStep
  <2>2. row \in [Run -> RowType]
    BY DEF TypeOK
  <2> HIDE DEF r
  <2>3. QED
    BY <1>2, <2>1, <2>2 DEF RowType
<1>5. \E k \in {"model", "tool"} :
        log' = [log EXCEPT ![r] = Append(@, [index |-> task[t].seq, kind |-> k])]
  BY <1>3 DEF RecordStep
<1>6. task[t] \in TaskType
  BY DEF TypeOK
<1>7. \E v : task' = [task EXCEPT ![t] = v] /\ v.seq = task[t].seq + 1
  <2>1. CASE RecordGatedCall(t)
    <3> DEFINE v == [task[t] EXCEPT !.pc = "calls", !.seq = task[t].seq + 1,
                                    !.left = task[t].ckpt.rest]
    <3>1. v.seq = task[t].seq + 1
      BY <1>6 DEF TaskType
    <3>2. QED
      BY <2>1, <3>1 DEF RecordGatedCall
  <2>2. CASE RecordTool(t)
    <3> DEFINE v == [task[t] EXCEPT !.pc = "calls", !.seq = task[t].seq + 1]
    <3>1. v.seq = task[t].seq + 1
      BY <1>6 DEF TaskType
    <3>2. QED
      BY <2>2, <3>1 DEF RecordTool
  <2>3. CASE AnswerTurn(t)
    <3> DEFINE v == [task[t] EXCEPT !.pc = "finishing", !.outcome = "succeeded",
                                    !.steps = task[t].steps + 1,
                                    !.seq = task[t].seq + 1]
    <3>1. v.seq = task[t].seq + 1
      BY <1>6 DEF TaskType
    <3>2. QED
      BY <2>3, <3>1 DEF AnswerTurn
  <2>4. ASSUME NEW k \in 1..MaxCalls, ToolTurn(t, k)
        PROVE  \E v : task' = [task EXCEPT ![t] = v] /\ v.seq = task[t].seq + 1
    <3> DEFINE v == [task[t] EXCEPT !.pc = "calls", !.left = k,
                                    !.steps = task[t].steps + 1,
                                    !.seq = task[t].seq + 1]
    <3>1. v.seq = task[t].seq + 1
      BY <1>6 DEF TaskType
    <3>2. QED
      BY <2>4, <3>1 DEF ToolTurn
  <2>5. QED
    BY <2>1, <2>2, <2>3, <2>4
<1>8. UNCHANGED answers
  BY DEF RecordGatedCall, RecordTool, AnswerTurn, ToolTurn
<1>9. QED
  BY <1>1, <1>2, <1>4, <1>5, <1>7, <1>8 DEF Records, Drives

\* Both ways of finishing record an outcome.
LEMMA FinishSettles ==
  ASSUME TypeOK, TaskInv, NEW t \in Task, Finish(t) \/ FinishFailed(t)
  PROVE  task[t].job.run \in Run /\ Settles(t, task[t].job.run)
<1> DEFINE r == task[t].job.run
<1>1. task[t].pc \in {"finishing", "failing"} /\ RecordOutcome(t)
      /\ UNCHANGED log
  BY DEF Finish, FinishFailed
<1>2. r \in Run /\ task[t].outcome \in Terminal
  BY <1>1, JobRun DEF TaskInv, TaskOK
<1>3. row \in [Run -> RowType]
  BY DEF TypeOK
<1>4. row' = [row EXCEPT ![r] =
               [@ EXCEPT !.status = task[t].outcome, !.ckpt = NoCkpt,
                         !.steps = task[t].steps, !.heartbeat = "none"]]
  BY <1>1 DEF RecordOutcome
<1>5. row'[r].status = task[t].outcome
  <2> HIDE DEF r
  <2>1. QED
    BY <1>2, <1>3, <1>4 DEF RowType
<1>6. answers' = [answers EXCEPT ![r] =
                   IF task[t].outcome = "succeeded" THEN @ + 1 ELSE @]
  BY <1>1 DEF RecordOutcome
<1>7. MaxBusFails = 0 => Release(t)
  BY AnnounceReleases DEF Finish, FinishFailed
<1>8. QED
  BY <1>1, <1>2, <1>5, <1>6, <1>7 DEF Settles, Drives, Driving

\* Who writes steps and answers: a recording step or a finish, nothing else.
LEMMA LogWriters ==
  ASSUME TypeOK, TaskInv, [Next]_vars
  PROVE  \/ UNCHANGED <<log, answers>>
         \/ \E t \in Task : \E r \in Run : Records(t, r) \/ Settles(t, r)
<1>1. CASE \E t \in Task : TaskStep(t)
  <2>1. PICK t \in Task : TaskStep(t)
    BY <1>1
  <2>2. CASE \/ RecordGatedCall(t) \/ RecordTool(t) \/ AnswerTurn(t)
             \/ \E k \in 1..MaxCalls : ToolTurn(t, k)
    BY <2>2, RecordingRecords
  <2>3. CASE Finish(t) \/ FinishFailed(t)
    BY <2>3, FinishSettles
  <2>4. CASE \/ BuildTranscript(t) \/ ResumeClaim(t) \/ RunGatedCall(t)
             \/ RunTool(t) \/ LoopHead(t) \/ LoopRaises(t)
             \/ \E g \in Gate : ParkForApproval(t, g)
    BY <2>4 DEF BuildTranscript, ResumeClaim, RunGatedCall, RunTool, LoopHead,
                LoopRaises, ParkForApproval
  <2>5. QED
    BY <2>1, <2>2, <2>3, <2>4 DEF TaskStep
<1>2. CASE \E t \in Task : ResumeRaises(t) \/ Crash(t) \/ Escape(t)
  BY <1>2 DEF ResumeRaises, Crash, Escape
<1>3. CASE \E j \in queue : TakeJob(j)
  BY <1>3 DEF TakeJob, ExecuteRun, ResumeRead
<1>4. QED
  BY <1>1, <1>2, <1>3
     DEF Next, SubmitMessage, HeartbeatExpires, RequestCancelRead,
         DecideApprovalRead, HandlerStep, RequestCancelWrite,
         DecideApprovalWrite, Dispatch, LoseDispatch, RequeueOrphanedRuns,
         vars

\* A recorded step goes to the end of the log of its run; nothing else writes.
LEMMA RecordedLog ==
  ASSUME TypeOK, NEW u \in Task, NEW q \in Run, Records(u, q)
  PROVE  /\ Len(log'[q]) = Len(log[q]) + 1
         /\ log'[q][Len(log[q]) + 1].index = task[u].seq
         /\ \A i \in DOMAIN log[q] : log'[q][i] = log[q][i]
         /\ DOMAIN log'[q] = 1..(Len(log[q]) + 1)
         /\ DOMAIN log[q] = 1..Len(log[q]) /\ Len(log[q]) \in Nat
         /\ \A r \in Run : r # q => log'[r] = log[r]
<1>1. log \in [Run -> Seq(StepType)] /\ task[u].seq \in Nat
  BY DEF TypeOK, TaskType
<1>2. PICK k \in {"model", "tool"} :
        log' = [log EXCEPT ![q] = Append(@, [index |-> task[u].seq, kind |-> k])]
  BY DEF Records
<1> DEFINE s == [index |-> task[u].seq, kind |-> k]
<1>3. s \in StepType /\ s.index = task[u].seq
  BY <1>1 DEF StepType
<1>4. log[q] \in Seq(StepType)
  BY <1>1
<1>5. log'[q] = Append(log[q], s) /\ \A r \in Run : r # q => log'[r] = log[r]
  BY <1>1, <1>2
<1> HIDE DEF s
<1>6. QED
  BY <1>3, <1>4, <1>5

\* A driver that goes on driving counts the steps it records.
LEMMA SeqKept ==
  ASSUME TypeOK, TaskInv, [Next]_vars,
         NEW t \in Task, NEW r \in Run, Drives(t, r), Drives(t, r)'
  PROVE  task'[t].seq = task[t].seq \/ Records(t, r)
<1>1. task \in [Task -> TaskType]
  BY DEF TypeOK
<1>2. CASE UNCHANGED task
  BY <1>2
<1>3. ASSUME NEW u \in Task, \E v : task' = [task EXCEPT ![u] = v] /\ u # t
      PROVE  task'[t].seq = task[t].seq
  BY <1>1, <1>3
<1>4. ~Release(t)
  BY <1>1 DEF Release, Drives, IdleTask, Driving
<1>5. ASSUME NEW u \in Task, Release(u)
      PROVE  task'[t].seq = task[t].seq
  BY <1>3, <1>4, <1>5 DEF Release
<1>6. ASSUME NEW u \in Task, task[u].pc \in {"idle", "reading"},
             \E v : task' = [task EXCEPT ![u] = v]
      PROVE  task'[t].seq = task[t].seq
  <2>1. u # t
    BY <1>6 DEF Drives, Driving
  <2>2. QED
    BY <1>3, <1>6, <2>1
<1>7. ASSUME NEW u \in Task,
             \E v : task' = [task EXCEPT ![u] = v] /\ v.seq = task[u].seq
      PROVE  task'[t].seq = task[t].seq
  BY <1>1, <1>7
<1>8. CASE \E u \in Task : TaskStep(u)
  <2>1. PICK u \in Task : TaskStep(u)
    BY <1>8
  <2>2. task[u] \in TaskType
    BY <1>1
  <2>3. CASE \/ RecordGatedCall(u) \/ RecordTool(u) \/ AnswerTurn(u)
             \/ \E k \in 1..MaxCalls : ToolTurn(u, k)
    <3>1. Records(u, task[u].job.run)
      BY <2>3, RecordingRecords
    <3>2. CASE u = t
      BY <3>1, <3>2 DEF Drives
    <3>3. CASE u # t
      BY <1>3, <3>1, <3>3 DEF Records
    <3>4. QED
      BY <3>2, <3>3
  <2>4. CASE ResumeClaim(u)
    <3>1. \E v : task' = [task EXCEPT ![u] = v]
      BY <2>4 DEF ResumeClaim, Claim, Release
    <3>2. QED
      BY <1>6, <2>4, <3>1 DEF ResumeClaim
  <2>5. CASE BuildTranscript(u) \/ RunGatedCall(u)
    <3>1. PICK pc : task' = [task EXCEPT ![u].pc = pc]
      BY <2>5 DEF BuildTranscript, RunGatedCall
    <3>2. [task[u] EXCEPT !.pc = pc].seq = task[u].seq
      BY <2>2 DEF TaskType
    <3>3. QED
      BY <1>7, <3>1, <3>2
  <2>6. CASE RunTool(u)
    <3>1. [task[u] EXCEPT !.pc = "callDone", !.left = task[u].left - 1].seq
            = task[u].seq
      BY <2>2 DEF TaskType
    <3>2. QED
      BY <1>7, <2>6, <3>1 DEF RunTool
  <2>7. CASE LoopHead(u)
    <3>1. [task[u] EXCEPT !.pc = "turn"].seq = task[u].seq
      BY <2>2 DEF TaskType
    <3>2. \A o : [task[u] EXCEPT !.pc = "finishing", !.outcome = o].seq
                  = task[u].seq
      BY <2>2 DEF TaskType
    <3>3. CASE task' = [task EXCEPT ![u].pc = "turn"]
      BY <1>7, <3>1, <3>3
    <3>4. ASSUME NEW o, Conclude(u, o)
          PROVE  task'[t].seq = task[t].seq
      BY <1>7, <3>2, <3>4 DEF Conclude
    <3>5. QED
      BY <2>7, <3>3, <3>4 DEF LoopHead
  <2>8. CASE \/ LoopRaises(u) \/ Finish(u) \/ FinishFailed(u)
             \/ \E g \in Gate : ParkForApproval(u, g)
    <3>1. Raise(u) \/ Release(u)
      BY <2>8 DEF LoopRaises, Finish, FinishFailed, ParkForApproval, Announce
    <3>2. [task[u] EXCEPT !.pc = "failing", !.outcome = "failed"].seq
            = task[u].seq
      BY <2>2 DEF TaskType
    <3>3. QED
      BY <1>5, <1>7, <3>1, <3>2 DEF Raise
  <2>9. QED
    BY <2>1, <2>3, <2>4, <2>5, <2>6, <2>7, <2>8 DEF TaskStep
<1>9. CASE \E u \in Task : ResumeRaises(u) \/ Crash(u) \/ Escape(u)
  BY <1>5, <1>9 DEF ResumeRaises, Crash, Escape
<1>10. CASE \E j \in queue : TakeJob(j)
  <2>1. PICK j \in queue, u \in Task : ExecuteRun(u, j) \/ ResumeRead(u, j)
    BY <1>10 DEF TakeJob
  <2>2. task[u].pc = "idle"
    BY <2>1 DEF ExecuteRun, ResumeRead
  <2>3. UNCHANGED task \/ \E v : task' = [task EXCEPT ![u] = v]
    BY <2>1 DEF ExecuteRun, ResumeRead, Claim, Release
  <2>4. QED
    BY <1>2, <1>6, <2>2, <2>3
<1>11. QED
  BY <1>2, <1>8, <1>9, <1>10
     DEF Next, SubmitMessage, HeartbeatExpires, RequestCancelRead,
         DecideApprovalRead, HandlerStep, RequestCancelWrite,
         DecideApprovalWrite, Dispatch, LoseDispatch, RequeueOrphanedRuns,
         vars

(***************************************************************************)
(* What becomes of the status of a run.                                    *)
(***************************************************************************)
\* The status stays, and a heartbeat is not lost.
StatusStays(r) ==
  /\ row'[r].status = row[r].status
  /\ row'[r].heartbeat # "none" \/ row'[r].heartbeat = row[r].heartbeat

\* A claim, a submission or the sweep moves a run that is not over.
StatusMoves(r) ==
  /\ row[r].status \notin Terminal
  /\ row'[r].status \in {"queued", "running", "failed"}
  /\ row'[r].status = "running" => row'[r].heartbeat # "none"

StatusWritten(r) ==
  \/ StatusStays(r)
  \/ StatusMoves(r)
  \/ row'[r].status = "cancelled"
  \/ \E t \in Task : Drives(t, r) /\ row'[r].status = "awaiting_approval"
  \/ \E t \in Task : Settles(t, r)

LEMMA ClaimStatus ==
  ASSUME TypeOK, NEW t \in Task, NEW j \in Job,
         NEW from \in {"queued", "awaiting_approval"}, NEW pc, NEW ck,
         Claim(t, j, from, pc, ck), NEW r \in Run
  PROVE  StatusWritten(r)
<1>1. row \in [Run -> RowType] /\ j.run \in Run
  BY JobRun DEF TypeOK
<1>2. CASE UNCHANGED row
  BY <1>2 DEF StatusWritten, StatusStays
<1>3. ASSUME NEW s \in {"running", "failed"}, row[j.run].status = from,
             row' = [row EXCEPT ![j.run] =
                  [@ EXCEPT !.status = s, !.ckpt = NoCkpt,
                            !.heartbeat = "fresh"]]
      PROVE  StatusWritten(r)
  <2>1. CASE r = j.run
    <3>1. row'[r].status = s /\ row'[r].heartbeat = "fresh"
      BY <1>1, <1>3, <2>1 DEF RowType
    <3>2. row[r].status \notin Terminal
      BY <1>3, <2>1 DEF Terminal
    <3>3. QED
      BY <3>1, <3>2 DEF StatusWritten, StatusMoves
  <2>2. CASE r # j.run
    BY <1>1, <1>3, <2>2 DEF StatusWritten, StatusStays
  <2>3. QED
    BY <2>1, <2>2
<1>4. QED
  BY <1>2, <1>3 DEF Claim

LEMMA StatusWriters ==
  ASSUME TypeOK, TaskInv, [Next]_vars, NEW r \in Run
  PROVE  StatusWritten(r)
<1>1. row \in [Run -> RowType]
  BY DEF TypeOK
<1>2. CASE row'[r] = row[r]
  BY <1>2 DEF StatusWritten, StatusStays
<1>3. CASE \E t \in Task : TaskStep(t)
  <2>1. PICK t \in Task : TaskStep(t)
    BY <1>3
  <2> DEFINE q == task[t].job.run
  <2>2. task[t].pc # "idle" => task[t].job \in Job /\ q \in Run
    BY JobRun DEF TaskInv, TaskOK
  <2>3. CASE ResumeClaim(t)
    BY <2>2, <2>3, ClaimStatus DEF ResumeClaim
  <2>4. CASE \/ BuildTranscript(t) \/ RunGatedCall(t) \/ RunTool(t)
             \/ LoopHead(t) \/ LoopRaises(t)
    BY <1>2, <2>4 DEF BuildTranscript, RunGatedCall, RunTool, LoopHead,
                      LoopRaises
  <2>5. CASE \/ RecordGatedCall(t) \/ RecordTool(t) \/ AnswerTurn(t)
             \/ \E k \in 1..MaxCalls : ToolTurn(t, k)
    <3>1. row' = [row EXCEPT ![q].heartbeat = "fresh"]
      BY <2>5 DEF RecordGatedCall, RecordTool, AnswerTurn, ToolTurn,
                  RecordStep
    <3> HIDE DEF q
    <3>2. StatusStays(r)
      BY <1>1, <3>1 DEF RowType, StatusStays
    <3>3. QED
      BY <3>2 DEF StatusWritten
  <2>6. ASSUME NEW g \in Gate, ParkForApproval(t, g)
        PROVE  StatusWritten(r)
    <3>1. row' = [row EXCEPT ![q] =
            [@ EXCEPT !.status = "awaiting_approval", !.steps = task[t].steps,
                      !.ckpt = [gate |-> g, rest |-> task[t].left - 1]]]
      BY <2>6 DEF ParkForApproval
    <3>2. CASE r = q
      <4>1. Drives(t, r)
        BY <2>6, <3>2 DEF ParkForApproval, Drives, Driving
      <4>2. row'[r].status = "awaiting_approval"
        <5> HIDE DEF q
        <5>1. QED
          BY <1>1, <3>1, <3>2 DEF RowType
      <4>3. QED
        BY <4>1, <4>2 DEF StatusWritten
    <3>3. CASE r # q
      <4>1. row'[r] = row[r]
        BY <1>1, <3>1, <3>3
      <4>2. QED
        BY <1>2, <4>1
    <3>4. QED
      BY <3>2, <3>3
  <2>7. CASE Finish(t) \/ FinishFailed(t)
    <3>1. CASE r = q
      BY <2>7, <3>1, FinishSettles DEF StatusWritten
    <3>2. CASE r # q
      <4>1. row'[r] = row[r]
        BY <1>1, <2>7, <3>2 DEF Finish, FinishFailed, RecordOutcome
      <4>2. QED
        BY <1>2, <4>1
    <3>3. QED
      BY <3>1, <3>2
  <2>8. QED
    BY <2>1, <2>3, <2>4, <2>5, <2>6, <2>7 DEF TaskStep
<1>4. CASE \E t \in Task : ResumeRaises(t) \/ Crash(t) \/ Escape(t)
  BY <1>2, <1>4 DEF ResumeRaises, Crash, Escape
<1>5. CASE \E j \in queue : TakeJob(j)
  <2>1. PICK j \in queue, t \in Task : ExecuteRun(t, j) \/ ResumeRead(t, j)
    BY <1>5 DEF TakeJob
  <2>2. j \in Job
    BY DEF TypeOK
  <2>3. QED
    BY <1>2, <2>1, <2>2, ClaimStatus DEF ExecuteRun, ResumeRead
<1>6. CASE \E q \in Run : SubmitMessage(q)
  <2>1. PICK q \in Run : SubmitMessage(q)
    BY <1>6
  <2>2. CASE r = q
    <3>1. row'[r].status = "queued" /\ row[r].status \notin Terminal
      BY <1>1, <2>1, <2>2 DEF SubmitMessage, RowType, Terminal
    <3>2. QED
      BY <3>1 DEF StatusWritten, StatusMoves
  <2>3. CASE r # q
    BY <1>1, <1>2, <2>1, <2>3 DEF SubmitMessage
  <2>4. QED
    BY <2>2, <2>3
<1>7. CASE \E q \in Run : HeartbeatExpires(q)
  <2>1. PICK q \in Run : row' = [row EXCEPT ![q].heartbeat = "stale"]
    BY <1>7 DEF HeartbeatExpires
  <2>2. StatusStays(r)
    BY <1>1, <2>1 DEF RowType, StatusStays
  <2>3. QED
    BY <2>2 DEF StatusWritten
<1>8. CASE \E h \in Handler : RequestCancelWrite(h)
  <2>1. PICK h \in Handler : RequestCancelWrite(h)
    BY <1>8
  <2>2. CASE row' = [row EXCEPT ![req[h].run] =
                    [@ EXCEPT !.cancel = TRUE, !.status = "cancelled"]]
    <3>1. row'[r] = row[r] \/ row'[r].status = "cancelled"
      BY <1>1, <2>2 DEF RowType
    <3>2. QED
      BY <1>2, <3>1 DEF StatusWritten
  <2>3. CASE row' = [row EXCEPT ![req[h].run] =
                    [@ EXCEPT !.cancel = TRUE, !.status = "cancelled",
                              !.ckpt = NoCkpt]]
    <3>1. row'[r] = row[r] \/ row'[r].status = "cancelled"
      BY <1>1, <2>3 DEF RowType
    <3>2. QED
      BY <1>2, <3>1 DEF StatusWritten
  <2>4. CASE row' = [row EXCEPT ![req[h].run].cancel = TRUE]
    <3>1. StatusStays(r)
      BY <1>1, <2>4 DEF RowType, StatusStays
    <3>2. QED
      BY <3>1 DEF StatusWritten
  <2>5. QED
    BY <2>1, <2>2, <2>3, <2>4 DEF RequestCancelWrite
<1>9. CASE RequeueOrphanedRuns
  <2>1. CASE r \in Orphaned
    <3>1. row[r].status \notin Terminal
      BY <2>1 DEF Orphaned, Terminal
    <3>2. row'[r].status = "queued"
      BY <1>1, <1>9, <2>1 DEF RequeueOrphanedRuns, RowType
    <3>3. QED
      BY <3>1, <3>2 DEF StatusWritten, StatusMoves
  <2>2. CASE r \notin Orphaned
    BY <1>2, <1>9, <2>2 DEF RequeueOrphanedRuns
  <2>3. QED
    BY <2>1, <2>2
<1>10. CASE \/ \E h \in Handler, q \in Run : RequestCancelRead(h, q)
            \/ \E h \in Handler, g \in Gate, a \in BOOLEAN :
                 DecideApprovalRead(h, g, a)
            \/ \E h \in Handler : DecideApprovalWrite(h)
            \/ \E j \in outbox : Dispatch(j) \/ LoseDispatch(j)
            \/ UNCHANGED vars
  BY <1>2, <1>10 DEF RequestCancelRead, DecideApprovalRead,
                     DecideApprovalWrite, Dispatch, LoseDispatch, vars
<1>11. QED
  BY <1>3, <1>4, <1>5, <1>6, <1>7, <1>8, <1>9, <1>10 DEF Next, HandlerStep

\* The invariant of TypeCorrect, for the theorems that need types only.
BaseInv == TypeOK /\ TaskInv /\ GateInv

LEMMA BaseInit == Init => BaseInv
<1>1. Init => TypeOK
  BY InitType
<1>2. Init => TaskInv
  BY IdleOK DEF Init, TaskInv
<1>3. Init => GateInv
  BY NullsAssumption
     DEF Init, GateInv, JobsInSystem, FreshRow, IdleTask, Job
<1>4. QED
  BY <1>1, <1>2, <1>3 DEF BaseInv

LEMMA BaseStep == BaseInv /\ [Next]_vars => BaseInv'
  BY TypeStep, TaskInvStep, GateInvStep DEF BaseInv

\* A row that is running always has a heartbeat, so the sweep can find the run
\* of a worker that died, whatever crashes, requeues and races came before.
THEOREM RunningHasHeartbeat == Spec => []RunningIsRecoverable
<1>1. Init => RunningIsRecoverable
  BY DEF Init, FreshRow, RunningIsRecoverable
<1>2. BaseInv /\ RunningIsRecoverable /\ [Next]_vars => RunningIsRecoverable'
  <2> SUFFICES ASSUME TypeOK, TaskInv, RunningIsRecoverable, [Next]_vars,
                      NEW r \in Run, row'[r].status = "running"
               PROVE  row'[r].heartbeat # "none"
    BY DEF RunningIsRecoverable, BaseInv
  <2>1. "running" \notin Terminal
    BY DEF Terminal
  <2>2. StatusStays(r) \/ StatusMoves(r)
    BY <2>1, StatusWriters DEF StatusWritten, Settles
  <2>3. QED
    BY <2>2 DEF StatusStays, StatusMoves, RunningIsRecoverable
<1>3. QED
  BY <1>1, <1>2, BaseInit, BaseStep, PTL DEF Spec

\* No claim, resume, requeue or cancellation brings a run that nobody drives
\* back from a terminal status.
THEOREM SettledStays == Spec => SettledRunStays
<1>1. BaseInv /\ [Next]_vars =>
        [\A r \in Run :
           row[r].status \in Terminal /\ (\A t \in Task : ~Drives(t, r))
             => row'[r].status \in Terminal]_vars
  <2> SUFFICES ASSUME TypeOK, TaskInv, [Next]_vars, NEW r \in Run,
                      row[r].status \in Terminal,
                      \A t \in Task : ~Drives(t, r)
               PROVE  row'[r].status \in Terminal
    BY DEF BaseInv
  <2>1. StatusWritten(r)
    BY StatusWriters
  <2>2. "cancelled" \in Terminal
    BY DEF Terminal
  <2>3. QED
    BY <2>1, <2>2 DEF StatusWritten, StatusStays, StatusMoves, Settles
<1>2. QED
  BY <1>1, BaseInit, BaseStep, PTL DEF Spec, SettledRunStays

(***************************************************************************)
(* One driver's count is the log's length, and only it answers.            *)
(***************************************************************************)
\* The inductive invariant of the step log: the log is in order, its driver
\* knows its length, and a run that is driven or not over has no answer yet.
LogInv ==
  /\ BaseInv /\ SingleDriver /\ DriverInv
  /\ DriverCounts /\ UnsettledHasNoAnswer
  /\ StepLogInOrder /\ OneAnswer

LEMMA DriverCountsStep ==
  ASSUME LogInv, [Next]_vars, MaxBusFails = 0
  PROVE  DriverCounts'
<1> SUFFICES ASSUME NEW r \in Run, NEW t \in Task, Drives(t, r)'
             PROVE  task'[t].seq = Len(log'[r]) /\ answers'[r] = 0
  BY DEF DriverCounts
<1>1. /\ TypeOK /\ TaskInv /\ SingleDriver /\ DriverInv /\ DriverCounts
      /\ UnsettledHasNoAnswer
  BY DEF LogInv, BaseInv
<1>2. task \in [Task -> TaskType] /\ answers \in [Run -> Nat]
  BY <1>1 DEF TypeOK
<1>3. CASE ~Drives(t, r)
  <2>1. NewDriver(t, r)
    BY <1>1, <1>3, Drivers
  <2>2. log' = log /\ answers' = answers /\ row[r].status \notin Terminal
    BY <2>1 DEF NewDriver, Terminal
  <2>3. task'[t].seq = Len(log[r])
    BY <1>2, <2>1 DEF NewDriver
  <2>4. QED
    BY <1>1, <2>2, <2>3 DEF UnsettledHasNoAnswer
<1>4. CASE Drives(t, r)
  <2>1. task[t].seq = Len(log[r]) /\ answers[r] = 0
    BY <1>1, <1>4 DEF DriverCounts
  <2>2. task'[t].seq = task[t].seq \/ Records(t, r)
    BY <1>1, <1>4, SeqKept
  <2>3. CASE Records(t, r)
    <3>1. task'[t].seq = task[t].seq + 1 /\ answers' = answers
      BY <1>2, <2>3 DEF Records
    <3>2. Len(log'[r]) = Len(log[r]) + 1
      BY <1>1, <2>3, RecordedLog
    <3>3. QED
      BY <2>1, <3>1, <3>2
  <2>4. CASE task'[t].seq = task[t].seq /\ ~Records(t, r)
    <3>1. CASE UNCHANGED <<log, answers>>
      BY <2>1, <2>4, <3>1
    <3>2. ASSUME NEW u \in Task, NEW q \in Run, Records(u, q)
          PROVE  log'[r] = log[r] /\ answers'[r] = answers[r]
      <4>1. q # r
        BY <1>1, <1>4, <2>4, <3>2 DEF Records, SingleDriver
      <4>2. QED
        BY <1>1, <3>2, <4>1, RecordedLog DEF Records
    <3>3. ASSUME NEW u \in Task, NEW q \in Run, Settles(u, q)
          PROVE  log'[r] = log[r] /\ answers'[r] = answers[r]
      <4>1. Drives(u, q) /\ Release(u) /\ log' = log
        BY <3>3 DEF Settles
      <4>2. ~Drives(u, q)'
        BY <1>2, <4>1 DEF Release, Drives, IdleTask, Driving
      <4>3. q # r
        BY <1>1, <1>4, <4>1, <4>2 DEF SingleDriver
      <4>4. answers'[r] = answers[r]
        BY <1>2, <3>3, <4>3 DEF Settles
      <4>5. QED
        BY <4>1, <4>4
    <3>4. QED
      BY <1>1, <2>1, <2>4, <3>1, <3>2, <3>3, LogWriters
  <2>5. QED
    BY <2>2, <2>3, <2>4
<1>5. QED
  BY <1>3, <1>4

\* An answer is only written by a driver that settles the run.
LEMMA AnswerWriters ==
  ASSUME TypeOK, TaskInv, [Next]_vars, NEW r \in Run
  PROVE  \/ answers'[r] = answers[r]
         \/ \E t \in Task : Settles(t, r)
<1>1. answers \in [Run -> Nat]
  BY DEF TypeOK
<1>2. ASSUME NEW t \in Task, NEW q \in Run, Settles(t, q), q # r
      PROVE  answers'[r] = answers[r]
  BY <1>1, <1>2 DEF Settles
<1>3. QED
  BY <1>2, LogWriters DEF Records

LEMMA UnsettledStep ==
  ASSUME LogInv, [Next]_vars
  PROVE  UnsettledHasNoAnswer'
<1> SUFFICES ASSUME NEW r \in Run, row'[r].status \notin Terminal
             PROVE  answers'[r] = 0
  BY DEF UnsettledHasNoAnswer
<1>1. TypeOK /\ TaskInv /\ DriverCounts /\ UnsettledHasNoAnswer
  BY DEF LogInv, BaseInv
<1>2. ~\E t \in Task : Settles(t, r)
  BY DEF Settles
<1>3. answers'[r] = answers[r]
  BY <1>1, <1>2, AnswerWriters
<1>4. row[r].status \notin Terminal \/ \E t \in Task : Drives(t, r)
  <2>1. "cancelled" \in Terminal
    BY DEF Terminal
  <2>2. StatusWritten(r)
    BY <1>1, StatusWriters
  <2>3. QED
    BY <1>2, <2>1, <2>2 DEF StatusWritten, StatusStays, StatusMoves
<1>5. QED
  BY <1>1, <1>3, <1>4 DEF DriverCounts, UnsettledHasNoAnswer

LEMMA OneAnswerStep ==
  ASSUME LogInv, [Next]_vars
  PROVE  OneAnswer'
<1> SUFFICES ASSUME NEW r \in Run
             PROVE  /\ answers'[r] <= 1
                    /\ row'[r].status = "succeeded" => answers'[r] = 1
  BY DEF OneAnswer
<1>1. TypeOK /\ TaskInv /\ DriverCounts /\ OneAnswer
  BY DEF LogInv, BaseInv
<1>2. answers \in [Run -> Nat]
  BY <1>1 DEF TypeOK
<1>3. ASSUME NEW t \in Task, Settles(t, r)
      PROVE  /\ answers'[r] <= 1
             /\ row'[r].status = "succeeded" => answers'[r] = 1
  <2>1. answers[r] = 0
    BY <1>1, <1>3 DEF DriverCounts, Settles
  <2>2. QED
    BY <1>2, <1>3, <2>1 DEF Settles
<1>4. CASE ~\E t \in Task : Settles(t, r)
  <2>1. answers'[r] = answers[r]
    BY <1>1, <1>4, AnswerWriters
  <2>2. row'[r].status = "succeeded" => row[r].status = "succeeded"
    BY <1>1, <1>4, StatusWriters DEF StatusWritten, StatusStays, StatusMoves
  <2>3. QED
    BY <1>1, <2>1, <2>2 DEF OneAnswer
<1>5. QED
  BY <1>3, <1>4

LEMMA StepLogStep ==
  ASSUME LogInv, [Next]_vars
  PROVE  StepLogInOrder'
<1> SUFFICES ASSUME NEW r \in Run, NEW i \in DOMAIN log'[r]
             PROVE  log'[r][i].index = i - 1
  BY DEF StepLogInOrder
<1>1. TypeOK /\ TaskInv /\ DriverCounts /\ StepLogInOrder
  BY DEF LogInv, BaseInv
<1>2. CASE log'[r] = log[r]
  BY <1>1, <1>2 DEF StepLogInOrder
<1>3. ASSUME NEW t \in Task, Records(t, r)
      PROVE  log'[r][i].index = i - 1
  <2>1. task[t].seq = Len(log[r])
    BY <1>1, <1>3 DEF DriverCounts, Records
  <2>2. /\ log'[r][Len(log[r]) + 1].index = Len(log[r])
        /\ \A k \in DOMAIN log[r] : log'[r][k] = log[r][k]
        /\ DOMAIN log'[r] = 1..(Len(log[r]) + 1)
        /\ DOMAIN log[r] = 1..Len(log[r]) /\ Len(log[r]) \in Nat
    BY <1>1, <1>3, <2>1, RecordedLog
  <2>3. CASE i = Len(log[r]) + 1
    BY <2>2, <2>3
  <2>4. CASE i \in DOMAIN log[r]
    BY <1>1, <2>2, <2>4 DEF StepLogInOrder
  <2>5. QED
    BY <2>2, <2>3, <2>4
<1>4. log'[r] = log[r] \/ \E t \in Task : Records(t, r)
  <2>1. ASSUME NEW t \in Task, NEW q \in Run, Records(t, q), q # r
        PROVE  log'[r] = log[r]
    BY <1>1, <2>1, RecordedLog
  <2>2. QED
    BY <1>1, <2>1, LogWriters DEF Settles
<1>5. QED
  BY <1>2, <1>3, <1>4

LEMMA LogInvInvariant ==
  ASSUME Timely, MaxBusFails = 0
  PROVE  Spec => []LogInv
<1>1. Init => LogInv
  <2>1. Init => BaseInv
    BY BaseInit
  <2>2. Init => SingleDriver /\ DriverInv /\ DriverCounts
    BY DEF Init, SingleDriver, DriverInv, DriverCounts, Drives, IdleTask,
           Driving
  <2>3. Init => StepLogInOrder
    BY DEF Init, StepLogInOrder
  <2>4. Init => UnsettledHasNoAnswer /\ OneAnswer
    BY DEF Init, UnsettledHasNoAnswer, OneAnswer, FreshRow
  <2>5. QED
    BY <2>1, <2>2, <2>3, <2>4 DEF LogInv
<1>2. LogInv /\ [Next]_vars => LogInv'
  <2> SUFFICES ASSUME LogInv, [Next]_vars PROVE LogInv'
    OBVIOUS
  <2>1. BaseInv'
    BY BaseStep DEF LogInv
  <2>2. SingleDriver' /\ DriverInv'
    BY SingleDriverStep, DriverInvStep DEF LogInv, BaseInv
  <2>3. DriverCounts' /\ UnsettledHasNoAnswer'
    BY DriverCountsStep, UnsettledStep
  <2>4. StepLogInOrder' /\ OneAnswer'
    BY StepLogStep, OneAnswerStep
  <2>5. QED
    BY <2>1, <2>2, <2>3, <2>4 DEF LogInv
<1>3. QED
  BY <1>1, <1>2, PTL DEF Spec

\* RunStep rows of a run are numbered 0, 1, 2, ... in the order in which they
\* are written, across every pause, resume, crash and requeue: a claim counts
\* the rows, and as there is one driver its count stays the length of the log.
THEOREM StepsAreNumbered ==
  ASSUME Timely, MaxBusFails = 0
  PROVE  Spec => []StepLogInOrder
<1>1. LogInv => StepLogInOrder
  BY DEF LogInv
<1>2. QED
  BY <1>1, LogInvInvariant, PTL

\* A run adds one assistant message when it succeeds and none otherwise,
\* whatever is redelivered, cancelled or requeued.
THEOREM AnsweredOnce ==
  ASSUME Timely, MaxBusFails = 0
  PROVE  Spec => []OneAnswer
<1>1. LogInv => OneAnswer
  BY DEF LogInv
<1>2. QED
  BY <1>1, LogInvInvariant, PTL

(***************************************************************************)
(* The step ceiling.                                                       *)
(***************************************************************************)
\* What a run may have spent: a row that a claim can take holds the count the
\* claim goes on from, and a driver's own count covers its turns.  `turns` are
\* the model turns in the log, `paid` those that earlier requeues wrote off.
RowPays(x, turns, paid) ==
  /\ x.steps <= MaxSteps
  /\ x.status \in {"absent", "queued", "awaiting_approval"}
       => turns <= paid + x.steps
  /\ turns <= paid + MaxSteps

DriverPays(k, turns, paid) ==
  /\ k.steps <= MaxSteps
  /\ k.pc = "turn" => k.steps < MaxSteps
  /\ turns <= paid + k.steps

BudgetInv ==
  /\ \A r \in Run : RowPays(row[r], ModelTurns(r), MaxSteps * requeues[r])
  /\ \A r \in Run, t \in Task : Drives(t, r) =>
       DriverPays(task[t], ModelTurns(r), MaxSteps * requeues[r])

\* The model turns of a log are finitely many.
LEMMA TurnsAreFinite ==
  ASSUME TypeOK, NEW r \in Run
  PROVE  /\ IsFiniteSet({i \in DOMAIN log[r] : log[r][i].kind = "model"})
         /\ ModelTurns(r) \in Nat
<1> DEFINE S == {i \in DOMAIN log[r] : log[r][i].kind = "model"}
<1>1. log[r] \in Seq(StepType)
  BY DEF TypeOK
<1>2. Len(log[r]) \in Nat /\ S \subseteq 1..Len(log[r])
  BY <1>1
<1>3. IsFiniteSet(1..Len(log[r]))
  BY <1>2, FS_Interval
<1>4. IsFiniteSet(S)
  BY <1>2, <1>3, FS_Subset
<1>5. Cardinality(S) \in Nat
  BY <1>4, FS_CardinalityType
<1>6. QED
  BY <1>4, <1>5 DEF ModelTurns

\* The model turns among the entries of a log, and with one entry more.
TurnsIn(l) == {i \in DOMAIN l : l[i].kind = "model"}

LEMMA TurnsAppended ==
  ASSUME NEW l \in Seq(StepType), NEW s \in StepType, IsFiniteSet(TurnsIn(l))
  PROVE  Cardinality(TurnsIn(Append(l, s))) =
           Cardinality(TurnsIn(l)) + (IF s.kind = "model" THEN 1 ELSE 0)
<1> DEFINE n == Len(l)
<1>1. n \in Nat /\ DOMAIN l = 1..n
  OBVIOUS
<1>2. DOMAIN Append(l, s) = 1..(n + 1) /\ Append(l, s)[n + 1] = s
  OBVIOUS
<1>3. \A i \in 1..n : Append(l, s)[i] = l[i]
  OBVIOUS
<1>4. Cardinality(TurnsIn(l)) \in Nat
  BY FS_CardinalityType
<1>5. CASE s.kind = "model"
  <2>1. TurnsIn(Append(l, s)) = TurnsIn(l) \cup {n + 1}
    <3>1. ASSUME NEW i
          PROVE  i \in TurnsIn(Append(l, s)) <=> i \in TurnsIn(l) \cup {n + 1}
      BY <1>1, <1>2, <1>3, <1>5 DEF TurnsIn
    <3>2. QED
      BY <3>1
  <2>2. n + 1 \notin TurnsIn(l)
    BY <1>1 DEF TurnsIn
  <2>3. Cardinality(TurnsIn(l) \cup {n + 1}) = Cardinality(TurnsIn(l)) + 1
    BY <2>2, FS_AddElement
  <2>4. QED
    BY <1>5, <2>1, <2>3
<1>6. CASE s.kind # "model"
  <2>1. TurnsIn(Append(l, s)) = TurnsIn(l)
    <3>1. ASSUME NEW i
          PROVE  i \in TurnsIn(Append(l, s)) <=> i \in TurnsIn(l)
      BY <1>1, <1>2, <1>3, <1>6 DEF TurnsIn
    <3>2. QED
      BY <3>1
  <2>2. QED
    BY <1>4, <1>6, <2>1
<1>7. QED
  BY <1>5, <1>6

\* A recorded step is one model turn more, or none.
LEMMA TurnsRecorded ==
  ASSUME TypeOK, NEW t \in Task, NEW q \in Run, task[t].job.run = q,
         NEW kind \in {"model", "tool"}, RecordStep(t, kind)
  PROVE  \A r \in Run :
           ModelTurns(r)' =
             ModelTurns(r) + (IF r = q /\ kind = "model" THEN 1 ELSE 0)
<1> DEFINE s == [index |-> task[t].seq, kind |-> kind]
<1>1. log \in [Run -> Seq(StepType)] /\ task[t].seq \in Nat
  BY DEF TypeOK, TaskType
<1>2. s \in StepType /\ s.kind = kind
  BY <1>1 DEF StepType
<1>3. log' = [log EXCEPT ![q] = Append(@, s)]
  BY DEF RecordStep
<1> HIDE DEF s
<1>4. log[q] \in Seq(StepType) /\ log'[q] = Append(log[q], s)
  BY <1>1, <1>3
<1>5. \A r \in Run : ModelTurns(r) = Cardinality(TurnsIn(log[r]))
  BY DEF ModelTurns, TurnsIn
<1>6. \A r \in Run : ModelTurns(r)' = Cardinality(TurnsIn(log'[r]))
  BY DEF ModelTurns, TurnsIn
<1>7. IsFiniteSet(TurnsIn(log[q]))
  BY TurnsAreFinite DEF TurnsIn
<1>8. Cardinality(TurnsIn(Append(log[q], s))) =
        Cardinality(TurnsIn(log[q])) + (IF kind = "model" THEN 1 ELSE 0)
  BY <1>2, <1>4, <1>7, TurnsAppended
<1>9. ASSUME NEW r \in Run
      PROVE  ModelTurns(r)' =
               ModelTurns(r) + (IF r = q /\ kind = "model" THEN 1 ELSE 0)
  <2>1. CASE r = q
    <3>1. Cardinality(TurnsIn(log'[r])) = Cardinality(TurnsIn(log[r]))
                                    + (IF kind = "model" THEN 1 ELSE 0)
      BY <1>4, <1>8, <2>1
    <3>2. QED
      BY <1>5, <1>6, <2>1, <3>1
  <2>2. CASE r # q
    <3>1. log'[r] = log[r]
      BY <1>1, <1>3, <2>2
    <3>2. ModelTurns(r)' = ModelTurns(r) /\ ModelTurns(r) \in Nat
      BY <1>5, <1>6, <3>1, TurnsAreFinite
    <3>3. QED
      BY <2>2, <3>2
  <2>3. QED
    BY <2>1, <2>2
<1>10. QED
  BY <1>9

LEMMA TurnsKept ==
  ASSUME UNCHANGED log
  PROVE  \A r \in Run : ModelTurns(r)' = ModelTurns(r)
BY DEF ModelTurns

\* A step that records nothing, keeps every count and lets nobody drive or claim
\* what could not be driven or claimed before.
LEMMA QuietPays ==
  ASSUME TypeOK, BudgetInv, UNCHANGED <<log, requeues>>,
         \A r \in Run :
           /\ row'[r].steps = row[r].steps
           /\ row'[r].status \in {"absent", "queued", "awaiting_approval"}
                => row[r].status \in {"absent", "queued", "awaiting_approval"},
         \A r \in Run, t \in Task : Drives(t, r)' =>
           /\ Drives(t, r) /\ task'[t].steps = task[t].steps
           /\ task'[t].pc = "turn"
                => task[t].pc = "turn" \/ task[t].steps < MaxSteps
  PROVE  BudgetInv'
<1>1. ASSUME NEW r \in Run
      PROVE  RowPays(row[r], ModelTurns(r), MaxSteps * requeues[r])'
  <2>1. RowPays(row[r], ModelTurns(r), MaxSteps * requeues[r])
    BY DEF BudgetInv
  <2>2. ModelTurns(r)' = ModelTurns(r) /\ requeues' = requeues
    BY TurnsKept
  <2>3. QED
    BY <2>1, <2>2 DEF RowPays
<1>2. ASSUME NEW r \in Run, NEW t \in Task, Drives(t, r)'
      PROVE  DriverPays(task[t], ModelTurns(r), MaxSteps * requeues[r])'
  <2>1. DriverPays(task[t], ModelTurns(r), MaxSteps * requeues[r])
    BY <1>2 DEF BudgetInv
  <2>2. ModelTurns(r)' = ModelTurns(r) /\ requeues' = requeues
    BY TurnsKept
  <2>3. QED
    BY <1>2, <2>1, <2>2 DEF DriverPays
<1>3. QED
  BY <1>1, <1>2 DEF BudgetInv

\* One task's step, when it neither starts to drive nor counts a turn.
LEMMA OneTaskKeeps ==
  ASSUME TypeOK, NEW u \in Task, NEW v, task' = [task EXCEPT ![u] = v],
         v.pc \in Driving =>
           /\ task[u].pc \in Driving
           /\ v.job = task[u].job /\ v.steps = task[u].steps
           /\ v.pc = "turn" => task[u].pc = "turn" \/ task[u].steps < MaxSteps,
         NEW r \in Run, NEW t \in Task, Drives(t, r)'
  PROVE  /\ Drives(t, r) /\ task'[t].steps = task[t].steps
         /\ task'[t].pc = "turn"
              => task[t].pc = "turn" \/ task[t].steps < MaxSteps
<1>1. task \in [Task -> TaskType]
  BY DEF TypeOK
<1>2. CASE t = u
  BY <1>1, <1>2 DEF Drives
<1>3. CASE t # u
  BY <1>1, <1>3 DEF Drives
<1>4. QED
  BY <1>2, <1>3

LEMMA ReleaseKeeps ==
  ASSUME TypeOK, NEW u \in Task, Release(u),
         NEW r \in Run, NEW t \in Task, Drives(t, r)'
  PROVE  Drives(t, r) /\ task'[t] = task[t]
<1>1. task \in [Task -> TaskType] /\ task' = [task EXCEPT ![u] = IdleTask]
  BY DEF TypeOK, Release
<1>2. IdleTask.pc \notin Driving
  BY DEF IdleTask, Driving
<1>3. t # u
  BY <1>1, <1>2 DEF Drives
<1>4. QED
  BY <1>1, <1>3 DEF Drives

\* The steps of the loop that only move their task on.
LEMMA LocalPays ==
  ASSUME TypeOK, BudgetInv, NEW u \in Task,
         \/ BuildTranscript(u) \/ RunGatedCall(u) \/ RunTool(u)
         \/ LoopHead(u) \/ LoopRaises(u)
  PROVE  BudgetInv'
<1>1. task[u] \in TaskType
  BY DEF TypeOK
<1>2. UNCHANGED <<row, log, requeues>>
  BY DEF BuildTranscript, RunGatedCall, RunTool, LoopHead, LoopRaises
<1>3. \A r \in Run, t \in Task : Drives(t, r)' =>
        /\ Drives(t, r) /\ task'[t].steps = task[t].steps
        /\ task'[t].pc = "turn"
             => task[t].pc = "turn" \/ task[t].steps < MaxSteps
  <2>1. CASE BuildTranscript(u)
    <3> DEFINE v == [task[u] EXCEPT !.pc = "calls"]
    <3>1. v.job = task[u].job /\ v.steps = task[u].steps /\ v.pc = "calls"
      BY <1>1 DEF TaskType
    <3>2. task' = [task EXCEPT ![u] = v] /\ task[u].pc \in Driving
      BY <2>1 DEF BuildTranscript, Driving
    <3> HIDE DEF v
    <3>3. QED
      BY <3>1, <3>2, OneTaskKeeps
  <2>2. CASE RunGatedCall(u)
    <3> DEFINE v == [task[u] EXCEPT !.pc = "gatedDone"]
    <3>1. v.job = task[u].job /\ v.steps = task[u].steps /\ v.pc = "gatedDone"
      BY <1>1 DEF TaskType
    <3>2. task' = [task EXCEPT ![u] = v] /\ task[u].pc \in Driving
      BY <2>2 DEF RunGatedCall, Driving
    <3> HIDE DEF v
    <3>3. QED
      BY <3>1, <3>2, OneTaskKeeps
  <2>3. CASE RunTool(u)
    <3> DEFINE v == [task[u] EXCEPT !.pc = "callDone",
                                    !.left = task[u].left - 1]
    <3>1. v.job = task[u].job /\ v.steps = task[u].steps /\ v.pc = "callDone"
      BY <1>1 DEF TaskType
    <3>2. task' = [task EXCEPT ![u] = v] /\ task[u].pc \in Driving
      BY <2>3 DEF RunTool, Driving
    <3> HIDE DEF v
    <3>3. QED
      BY <3>1, <3>2, OneTaskKeeps
  <2>4. CASE LoopHead(u) /\ \E o : Conclude(u, o)
    <3>1. PICK o : Conclude(u, o)
      BY <2>4
    <3> DEFINE v == [task[u] EXCEPT !.pc = "finishing", !.outcome = o]
    <3>2. v.job = task[u].job /\ v.steps = task[u].steps /\ v.pc = "finishing"
      BY <1>1 DEF TaskType
    <3>3. task' = [task EXCEPT ![u] = v] /\ task[u].pc \in Driving
      BY <2>4, <3>1 DEF LoopHead, Conclude, Driving
    <3> HIDE DEF v
    <3>4. QED
      BY <3>2, <3>3, OneTaskKeeps
  <2>5. CASE /\ LoopHead(u) /\ task[u].steps < MaxSteps
             /\ task' = [task EXCEPT ![u].pc = "turn"]
    <3> DEFINE v == [task[u] EXCEPT !.pc = "turn"]
    <3>1. v.job = task[u].job /\ v.steps = task[u].steps
      BY <1>1 DEF TaskType
    <3>2. /\ task' = [task EXCEPT ![u] = v]
          /\ task[u].pc \in Driving /\ task[u].steps < MaxSteps
      BY <2>5 DEF LoopHead, Driving
    <3> HIDE DEF v
    <3>3. QED
      BY <3>1, <3>2, OneTaskKeeps
  <2>6. CASE LoopRaises(u)
    <3> DEFINE v == [task[u] EXCEPT !.pc = "failing", !.outcome = "failed"]
    <3>1. v.job = task[u].job /\ v.steps = task[u].steps /\ v.pc = "failing"
      BY <1>1 DEF TaskType
    <3>2. task' = [task EXCEPT ![u] = v] /\ task[u].pc \in Driving
      BY <2>6 DEF LoopRaises, Raise, Driving
    <3> HIDE DEF v
    <3>3. QED
      BY <3>1, <3>2, OneTaskKeeps
  <2>7. LoopHead(u) => \/ \E o : Conclude(u, o)
                       \/ /\ task[u].steps < MaxSteps
                          /\ task' = [task EXCEPT ![u].pc = "turn"]
    BY DEF LoopHead
  <2>8. QED
    BY <2>1, <2>2, <2>3, <2>4, <2>5, <2>6, <2>7
<1>4. QED
  BY <1>2, <1>3, QuietPays

\* The steps that touch neither a count nor a driver, or end a driver.
LEMMA OtherPays ==
  ASSUME TypeOK, BudgetInv,
         \/ \E r \in Run : SubmitMessage(r) \/ HeartbeatExpires(r)
         \/ \E h \in Handler, r \in Run : RequestCancelRead(h, r)
         \/ \E h \in Handler, g \in Gate, a \in BOOLEAN :
              DecideApprovalRead(h, g, a)
         \/ \E h \in Handler : HandlerStep(h)
         \/ \E j \in outbox : Dispatch(j) \/ LoseDispatch(j)
         \/ \E t \in Task : ResumeRaises(t) \/ Crash(t) \/ Escape(t)
         \/ \E j \in queue, t \in Task : ResumeRead(t, j)
         \/ UNCHANGED vars
  PROVE  BudgetInv'
<1>1. row \in [Run -> RowType] /\ task \in [Task -> TaskType]
  BY DEF TypeOK
<1> DEFINE RowsKept ==
      \A r \in Run :
        /\ row'[r].steps = row[r].steps
        /\ row'[r].status \in {"absent", "queued", "awaiting_approval"}
             => row[r].status \in {"absent", "queued", "awaiting_approval"}
    TasksKept ==
      \A r \in Run, t \in Task : Drives(t, r)' =>
        /\ Drives(t, r) /\ task'[t].steps = task[t].steps
        /\ task'[t].pc = "turn"
             => task[t].pc = "turn" \/ task[t].steps < MaxSteps
<1>2. UNCHANGED task => TasksKept
  BY DEF Drives
<1>3. UNCHANGED row => RowsKept
  OBVIOUS
<1>4. UNCHANGED <<log, requeues>>
  BY DEF SubmitMessage, HeartbeatExpires, RequestCancelRead,
         DecideApprovalRead, HandlerStep, RequestCancelWrite,
         DecideApprovalWrite, Dispatch, LoseDispatch, ResumeRaises, Crash,
         Escape, ResumeRead, vars
<1>5. RowsKept
  <2>1. CASE \E r \in Run : SubmitMessage(r)
    BY <1>1, <2>1 DEF SubmitMessage, RowType
  <2>2. CASE \E r \in Run : HeartbeatExpires(r)
    BY <1>1, <2>2 DEF HeartbeatExpires, RowType
  <2>3. ASSUME NEW h \in Handler, RequestCancelWrite(h)
        PROVE  RowsKept
    <3>1. CASE row' = [row EXCEPT ![req[h].run] =
                         [@ EXCEPT !.cancel = TRUE, !.status = "cancelled"]]
      BY <1>1, <3>1 DEF RowType
    <3>2. CASE row' = [row EXCEPT ![req[h].run] =
                         [@ EXCEPT !.cancel = TRUE, !.status = "cancelled",
                                   !.ckpt = NoCkpt]]
      BY <1>1, <3>2 DEF RowType
    <3>3. CASE row' = [row EXCEPT ![req[h].run].cancel = TRUE]
      BY <1>1, <3>3 DEF RowType
    <3>4. QED
      BY <2>3, <3>1, <3>2, <3>3 DEF RequestCancelWrite
  <2>4. CASE UNCHANGED row
    BY <1>3, <2>4
  <2>5. QED
    BY <2>1, <2>2, <2>3, <2>4
       DEF RequestCancelRead, DecideApprovalRead, HandlerStep,
           DecideApprovalWrite, Dispatch, LoseDispatch, ResumeRaises, Crash,
           Escape, ResumeRead, vars
<1>6. TasksKept
  <2>1. ASSUME NEW u \in Task, Release(u)
        PROVE  TasksKept
    BY <2>1, ReleaseKeeps
  <2>2. ASSUME NEW j \in queue, NEW u \in Task, ResumeRead(u, j)
        PROVE  TasksKept
    <3> DEFINE v == [IdleTask EXCEPT !.pc = "reading", !.job = j,
                                     !.ckpt = row[j.run].ckpt]
    <3>1. v.pc \notin Driving
      BY DEF IdleTask, Driving
    <3>2. UNCHANGED task \/ task' = [task EXCEPT ![u] = v]
      BY <2>2 DEF ResumeRead
    <3> HIDE DEF v
    <3>3. QED
      BY <1>2, <3>1, <3>2, OneTaskKeeps
  <2>3. CASE UNCHANGED task
    BY <1>2, <2>3
  <2>4. QED
    BY <2>1, <2>2, <2>3
       DEF SubmitMessage, HeartbeatExpires, RequestCancelRead,
           DecideApprovalRead, HandlerStep, RequestCancelWrite,
           DecideApprovalWrite, Dispatch, LoseDispatch, ResumeRaises, Crash,
           Escape, vars
<1> HIDE DEF RowsKept, TasksKept
<1>7. QED
  BY <1>4, <1>5, <1>6, QuietPays DEF RowsKept, TasksKept

\* A claim goes on from the count in the row.
LEMMA ClaimPays ==
  ASSUME TypeOK, BudgetInv, NEW u \in Task, NEW j \in Job,
         NEW from \in {"queued", "awaiting_approval"},
         NEW pc \in Driving \ {"turn"}, NEW ck,
         Claim(u, j, from, pc, ck), UNCHANGED <<log, requeues>>
  PROVE  BudgetInv'
<1> DEFINE q == j.run
           v == [IdleTask EXCEPT !.pc = pc, !.job = j, !.ckpt = ck,
                   !.steps = row[j.run].steps, !.seq = Len(log[j.run])]
<1>1. row \in [Run -> RowType] /\ task \in [Task -> TaskType]
  BY DEF TypeOK
<1>2. q \in Run
  BY JobRun
<1>3. CASE Release(u)
  <2>1. \A r \in Run :
           /\ row'[r].steps = row[r].steps
           /\ row'[r].status \in {"absent", "queued", "awaiting_approval"}
                => row[r].status \in {"absent", "queued", "awaiting_approval"}
    <3>1. CASE row' = [row EXCEPT ![j.run] =
                         [@ EXCEPT !.status = "failed", !.ckpt = NoCkpt,
                                   !.heartbeat = "fresh"]]
      BY <1>1, <1>2, <3>1 DEF RowType
    <3>2. CASE row' = [row EXCEPT ![j.run] =
                         [@ EXCEPT !.status = "running", !.ckpt = NoCkpt,
                                   !.heartbeat = "fresh"]]
      BY <1>1, <1>2, <3>2 DEF RowType
    <3>3. QED
      BY <3>1, <3>2 DEF Claim
  <2>2. QED
    BY <1>3, <2>1, QuietPays, ReleaseKeeps
<1>4. CASE /\ row[q].status = from
           /\ row' = [row EXCEPT ![q] =
                       [@ EXCEPT !.status = "running", !.ckpt = NoCkpt,
                                 !.heartbeat = "fresh"]]
           /\ task' = [task EXCEPT ![u] = v]
  <2>1. v.pc = pc /\ v.job.run = q /\ v.steps = row[q].steps
    BY DEF IdleTask
  <2> HIDE DEF v, q
  <2>2. /\ row'[q].status = "running" /\ row'[q].steps = row[q].steps
        /\ \A r \in Run : r # q => row'[r] = row[r]
    BY <1>1, <1>2, <1>4 DEF RowType
  <2>3. /\ task'[u] = v
        /\ \A t \in Task : t # u => task'[t] = task[t]
    BY <1>1, <1>4
  <2>4. ASSUME NEW r \in Run
        PROVE  /\ RowPays(row[r], ModelTurns(r), MaxSteps * requeues[r])
               /\ ModelTurns(r)' = ModelTurns(r) /\ requeues' = requeues
    BY TurnsKept DEF BudgetInv
  <2>5. ASSUME NEW r \in Run
        PROVE  RowPays(row[r], ModelTurns(r), MaxSteps * requeues[r])'
    BY <2>2, <2>4 DEF RowPays
  <2>6. ASSUME NEW r \in Run, NEW t \in Task, Drives(t, r)'
        PROVE  DriverPays(task[t], ModelTurns(r), MaxSteps * requeues[r])'
    <3>1. CASE t = u
      <4>1. r = q
        BY <2>1, <2>3, <2>6, <3>1 DEF Drives
      <4>2. QED
        BY <1>4, <2>1, <2>3, <2>4, <3>1, <4>1 DEF RowPays, DriverPays
    <3>2. CASE t # u
      <4>1. Drives(t, r) /\ task'[t] = task[t]
        BY <2>3, <2>6, <3>2 DEF Drives
      <4>2. DriverPays(task[t], ModelTurns(r), MaxSteps * requeues[r])
        BY <4>1 DEF BudgetInv
      <4>3. QED
        BY <2>4, <4>1, <4>2 DEF DriverPays
    <3>3. QED
      BY <3>1, <3>2
  <2>7. QED
    BY <2>5, <2>6 DEF BudgetInv
<1>5. QED
  BY <1>3, <1>4 DEF Claim

\* A driver that parks or finishes its run writes its count to the row.
LEMMA EndPays ==
  ASSUME TypeOK, TaskInv, BudgetInv, NEW u \in Task,
         \/ Finish(u) \/ FinishFailed(u)
         \/ \E g \in Gate : ParkForApproval(u, g),
         MaxBusFails = 0
  PROVE  BudgetInv'
<1> DEFINE q == task[u].job.run
<1>1. row \in [Run -> RowType] /\ task \in [Task -> TaskType]
  BY DEF TypeOK
<1>2. task[u].pc \in Driving /\ q \in Run
  BY JobRun DEF Finish, FinishFailed, ParkForApproval, Driving, TaskInv, TaskOK
<1>3. Release(u) /\ UNCHANGED <<log, requeues>>
  BY AnnounceReleases DEF Finish, FinishFailed, ParkForApproval
<1>4. DriverPays(task[u], ModelTurns(q), MaxSteps * requeues[q])
  BY <1>2 DEF BudgetInv, Drives
<1>5. /\ row'[q].steps = task[u].steps
      /\ \A r \in Run : r # q => row'[r] = row[r]
  <2>1. CASE Finish(u) \/ FinishFailed(u)
    <3>1. RecordOutcome(u)
      BY <2>1 DEF Finish, FinishFailed
    <3>2. row' = [row EXCEPT ![q] =
               [@ EXCEPT !.status = task[u].outcome, !.ckpt = NoCkpt,
                         !.steps = task[u].steps, !.heartbeat = "none"]]
      BY <3>1 DEF RecordOutcome
    <3> HIDE DEF q
    <3>3. QED
      BY <1>1, <1>2, <3>2 DEF RowType
  <2>2. ASSUME NEW g \in Gate, ParkForApproval(u, g)
        PROVE  /\ row'[q].steps = task[u].steps
               /\ \A r \in Run : r # q => row'[r] = row[r]
    <3>1. row' = [row EXCEPT ![q] =
            [@ EXCEPT !.status = "awaiting_approval", !.steps = task[u].steps,
                      !.ckpt = [gate |-> g, rest |-> task[u].left - 1]]]
      BY <2>2 DEF ParkForApproval
    <3> HIDE DEF q
    <3>2. QED
      BY <1>1, <1>2, <3>1 DEF RowType
  <2>3. QED
    BY <2>1, <2>2
<1> HIDE DEF q
<1>6. ASSUME NEW r \in Run
      PROVE  /\ RowPays(row[r], ModelTurns(r), MaxSteps * requeues[r])
             /\ ModelTurns(r)' = ModelTurns(r) /\ requeues' = requeues
  BY <1>3, TurnsKept DEF BudgetInv
<1>7. ASSUME NEW r \in Run
      PROVE  RowPays(row[r], ModelTurns(r), MaxSteps * requeues[r])'
  <2>1. CASE r = q
    BY <1>2, <1>4, <1>5, <1>6, <2>1 DEF RowPays, DriverPays
  <2>2. CASE r # q
    BY <1>5, <1>6, <2>2 DEF RowPays
  <2>3. QED
    BY <2>1, <2>2
<1>8. ASSUME NEW r \in Run, NEW t \in Task, Drives(t, r)'
      PROVE  DriverPays(task[t], ModelTurns(r), MaxSteps * requeues[r])'
  <2>1. Drives(t, r) /\ task'[t] = task[t]
    BY <1>3, <1>8, ReleaseKeeps
  <2>2. DriverPays(task[t], ModelTurns(r), MaxSteps * requeues[r])
    BY <2>1 DEF BudgetInv
  <2>3. QED
    BY <1>6, <2>1, <2>2 DEF DriverPays
<1>9. QED
  BY <1>7, <1>8 DEF BudgetInv

\* What a recording step makes of its task: a model turn is counted, and was
\* begun below the ceiling.
Counts(u, kind, v) ==
  /\ RecordStep(u, kind) /\ UNCHANGED requeues
  /\ task[u].pc \in Driving
  /\ kind = "model" => task[u].pc = "turn"
  /\ task' = [task EXCEPT ![u] = v]
  /\ v.pc # "turn" /\ v.job = task[u].job
  /\ v.steps = task[u].steps + (IF kind = "model" THEN 1 ELSE 0)

LEMMA RecordingCounts ==
  ASSUME TypeOK, NEW u \in Task,
         \/ RecordGatedCall(u) \/ RecordTool(u) \/ AnswerTurn(u)
         \/ \E k \in 1..MaxCalls : ToolTurn(u, k)
  PROVE  \E kind \in {"model", "tool"} : \E v : Counts(u, kind, v)
<1>1. task[u] \in TaskType
  BY DEF TypeOK
<1>2. CASE RecordGatedCall(u)
  <2> DEFINE v == [task[u] EXCEPT !.pc = "calls", !.seq = task[u].seq + 1,
                                  !.left = task[u].ckpt.rest]
  <2>1. v.pc = "calls" /\ v.job = task[u].job /\ v.steps = task[u].steps + 0
    BY <1>1 DEF TaskType
  <2>2. /\ RecordStep(u, "tool") /\ UNCHANGED requeues
        /\ task[u].pc \in Driving /\ task' = [task EXCEPT ![u] = v]
    BY <1>2 DEF RecordGatedCall, Driving
  <2> HIDE DEF v
  <2>3. QED
    BY <2>1, <2>2 DEF Counts
<1>3. CASE RecordTool(u)
  <2> DEFINE v == [task[u] EXCEPT !.pc = "calls", !.seq = task[u].seq + 1]
  <2>1. v.pc = "calls" /\ v.job = task[u].job /\ v.steps = task[u].steps + 0
    BY <1>1 DEF TaskType
  <2>2. /\ RecordStep(u, "tool") /\ UNCHANGED requeues
        /\ task[u].pc \in Driving /\ task' = [task EXCEPT ![u] = v]
    BY <1>3 DEF RecordTool, Driving
  <2> HIDE DEF v
  <2>3. QED
    BY <2>1, <2>2 DEF Counts
<1>4. CASE AnswerTurn(u)
  <2> DEFINE v == [task[u] EXCEPT !.pc = "finishing", !.outcome = "succeeded",
                                  !.steps = task[u].steps + 1,
                                  !.seq = task[u].seq + 1]
  <2>1. v.pc = "finishing" /\ v.job = task[u].job /\ v.steps = task[u].steps + 1
    BY <1>1 DEF TaskType
  <2>2. /\ RecordStep(u, "model") /\ UNCHANGED requeues /\ task[u].pc = "turn"
        /\ task[u].pc \in Driving /\ task' = [task EXCEPT ![u] = v]
    BY <1>4 DEF AnswerTurn, Driving
  <2> HIDE DEF v
  <2>3. QED
    BY <2>1, <2>2 DEF Counts
<1>5. CASE \E k \in 1..MaxCalls : ToolTurn(u, k)
  <2>1. PICK k \in 1..MaxCalls : ToolTurn(u, k)
    BY <1>5
  <2> DEFINE v == [task[u] EXCEPT !.pc = "calls", !.left = k,
                                  !.steps = task[u].steps + 1,
                                  !.seq = task[u].seq + 1]
  <2>2. v.pc = "calls" /\ v.job = task[u].job /\ v.steps = task[u].steps + 1
    BY <1>1 DEF TaskType
  <2>3. /\ RecordStep(u, "model") /\ UNCHANGED requeues /\ task[u].pc = "turn"
        /\ task[u].pc \in Driving /\ task' = [task EXCEPT ![u] = v]
    BY <2>1 DEF ToolTurn, Driving
  <2> HIDE DEF v
  <2>4. QED
    BY <2>2, <2>3 DEF Counts
<1>6. QED
  BY <1>2, <1>3, <1>4, <1>5

\* As a run has one driver, the turn it records is counted by every driver.
LEMMA RecordingPays ==
  ASSUME TypeOK, TaskInv, SingleDriver, DriverInv, BudgetInv, NEW u \in Task,
         \/ RecordGatedCall(u) \/ RecordTool(u) \/ AnswerTurn(u)
         \/ \E k \in 1..MaxCalls : ToolTurn(u, k)
  PROVE  BudgetInv'
<1>a. PICK kind \in {"model", "tool"} : \E v : Counts(u, kind, v)
  BY RecordingCounts
<1>b. PICK v : Counts(u, kind, v)
  BY <1>a
<1>1. /\ RecordStep(u, kind) /\ UNCHANGED requeues
      /\ task[u].pc \in Driving
      /\ kind = "model" => task[u].pc = "turn"
      /\ task' = [task EXCEPT ![u] = v]
      /\ v.pc # "turn" /\ v.job = task[u].job
      /\ v.steps = task[u].steps + (IF kind = "model" THEN 1 ELSE 0)
  BY <1>b DEF Counts
<1> DEFINE q == task[u].job.run
           add == IF kind = "model" THEN 1 ELSE 0
<1>2. row \in [Run -> RowType] /\ task \in [Task -> TaskType]
  BY DEF TypeOK
<1>3. q \in Run /\ Drives(u, q)
  BY <1>1, JobRun DEF TaskInv, TaskOK, Driving, Drives
<1>4. row' = [row EXCEPT ![q].heartbeat = "fresh"]
  BY <1>1 DEF RecordStep
<1> HIDE DEF q
<1>5. \A r \in Run : /\ row'[r].steps = row[r].steps
                     /\ row'[r].status = row[r].status
  BY <1>2, <1>3, <1>4 DEF RowType
<1>6. ASSUME NEW r \in Run
      PROVE  /\ ModelTurns(r)' = ModelTurns(r) + (IF r = q THEN add ELSE 0)
             /\ ModelTurns(r) \in Nat
             /\ requeues[r] \in Nat /\ MaxSteps * requeues[r] \in Nat
  <2>1. requeues[r] \in Nat /\ MaxSteps \in Nat
    BY BoundsAssumption DEF TypeOK
  <2>2. MaxSteps * requeues[r] \in Nat
    BY <2>1
  <2>3. ModelTurns(r)' =
          ModelTurns(r) + (IF r = q /\ kind = "model" THEN 1 ELSE 0)
    BY <1>1, <1>3, TurnsRecorded DEF q
  <2>4. QED
    BY <2>1, <2>2, <2>3, TurnsAreFinite
<1>7. /\ row[q].status \in {"running"} \cup Terminal
      /\ DriverPays(task[u], ModelTurns(q), MaxSteps * requeues[q])
  BY <1>3 DEF DriverInv, BudgetInv
<1>8. task[u].steps \in Nat /\ add \in {0, 1} /\ MaxSteps \in Nat
  BY <1>2, BoundsAssumption DEF TaskType
<1>9. ASSUME NEW r \in Run, r = q
      PROVE  /\ v.steps <= MaxSteps /\ v.steps \in Nat
             /\ ModelTurns(r)' <= MaxSteps * requeues[r] + v.steps
             /\ ModelTurns(r)' <= MaxSteps * requeues[r] + MaxSteps
  <2>1. /\ ModelTurns(r) <= MaxSteps * requeues[r] + task[u].steps
        /\ task[u].steps + add <= MaxSteps /\ v.steps = task[u].steps + add
    BY <1>1, <1>7, <1>8, <1>9 DEF DriverPays
  <2>2. ModelTurns(r)' = ModelTurns(r) + add
    BY <1>6, <1>9
  <2> DEFINE paid == MaxSteps * requeues[r]
  <2>3. paid \in Nat /\ ModelTurns(r) \in Nat
    BY <1>6
  <2> HIDE DEF paid, add
  <2>4. QED
    BY <1>8, <2>1, <2>2, <2>3 DEF paid
<1>10. ASSUME NEW r \in Run
       PROVE  RowPays(row[r], ModelTurns(r), MaxSteps * requeues[r])'
  <2>1. RowPays(row[r], ModelTurns(r), MaxSteps * requeues[r])
    BY DEF BudgetInv
  <2>2. CASE r = q
    <3>1. ModelTurns(r)' <= MaxSteps * requeues[r] + MaxSteps
      BY <1>9, <2>2
    <3>2. row[r].status \notin {"absent", "queued", "awaiting_approval"}
      BY <1>7, <2>2 DEF Terminal
    <3>3. QED
      BY <1>1, <1>5, <2>1, <3>1, <3>2 DEF RowPays
  <2>3. CASE r # q
    <3>1. ModelTurns(r)' = ModelTurns(r)
      BY <1>6, <2>3
    <3>2. QED
      BY <1>1, <1>5, <2>1, <3>1 DEF RowPays
  <2>4. QED
    BY <2>2, <2>3
<1>11. ASSUME NEW r \in Run, NEW t \in Task, Drives(t, r)'
       PROVE  DriverPays(task[t], ModelTurns(r), MaxSteps * requeues[r])'
  <2>1. CASE t = u
    <3>1. task'[u] = v /\ r = q
      BY <1>1, <1>2, <1>11, <2>1 DEF Drives, q
    <3>2. QED
      <4>1. /\ v.steps <= MaxSteps
            /\ ModelTurns(r)' <= MaxSteps * requeues[r] + v.steps
        BY <1>9, <3>1
      <4>2. QED
        BY <1>1, <2>1, <3>1, <4>1 DEF DriverPays
  <2>2. CASE t # u
    <3>1. task'[t] = task[t] /\ Drives(t, r)
      BY <1>1, <1>2, <1>11, <2>2 DEF Drives
    <3>2. r # q
      BY <1>3, <2>2, <3>1 DEF SingleDriver
    <3>3. DriverPays(task[t], ModelTurns(r), MaxSteps * requeues[r])
      BY <3>1 DEF BudgetInv
    <3>4. QED
      <4>1. ModelTurns(r)' = ModelTurns(r)
        BY <1>6, <3>2
      <4>2. QED
        BY <1>1, <3>1, <3>3, <4>1 DEF DriverPays
  <2>3. QED
    BY <2>1, <2>2
<1>12. QED
  BY <1>10, <1>11 DEF BudgetInv

\* A requeue writes off at most a full budget.
LEMMA SweepPays ==
  ASSUME TypeOK, SingleDriver, DriverInv, BudgetInv, RequeueOrphanedRuns
  PROVE  BudgetInv'
<1>1. row \in [Run -> RowType] /\ requeues \in [Run -> 0..MaxRequeues]
  BY DEF TypeOK
<1>2. UNCHANGED <<log, task>>
  BY DEF RequeueOrphanedRuns
<1>3. ASSUME NEW r \in Run
      PROVE  /\ MaxSteps \in Nat /\ requeues[r] \in Nat
             /\ row[r].steps \in Nat /\ ModelTurns(r) \in Nat
             /\ ModelTurns(r)' = ModelTurns(r)
             /\ RowPays(row[r], ModelTurns(r), MaxSteps * requeues[r])
  <2>1. requeues[r] \in Nat /\ row[r].steps \in Nat /\ MaxSteps \in Nat
    BY <1>1, BoundsAssumption DEF RowType
  <2>2. ModelTurns(r) \in Nat /\ ModelTurns(r)' = ModelTurns(r)
    BY <1>2, TurnsAreFinite, TurnsKept
  <2>3. RowPays(row[r], ModelTurns(r), MaxSteps * requeues[r])
    BY DEF BudgetInv
  <2>4. QED
    BY <2>1, <2>2, <2>3
<1>4. ASSUME NEW r \in Run, r \in Orphaned
      PROVE  /\ MaxSteps * requeues'[r] = MaxSteps * requeues[r] + MaxSteps
             /\ row'[r].steps = row[r].steps
             /\ \A t \in Task : ~Drives(t, r)
  <2>1. requeues'[r] = requeues[r] + 1
    BY <1>4 DEF RequeueOrphanedRuns
  <2>2. MaxSteps * (requeues[r] + 1) = MaxSteps * requeues[r] + MaxSteps
    BY <1>3
  <2>3. row'[r].steps = row[r].steps
    BY <1>1, <1>4 DEF RequeueOrphanedRuns, RowType
  <2>4. row[r].heartbeat # "fresh"
    BY <1>4 DEF Orphaned
  <2>5. QED
    BY <2>1, <2>2, <2>3, <2>4 DEF DriverInv
<1>5. ASSUME NEW r \in Run, r \notin Orphaned
      PROVE  requeues'[r] = requeues[r] /\ row'[r] = row[r]
  BY <1>5 DEF RequeueOrphanedRuns
<1>6. ASSUME NEW r \in Run
      PROVE  RowPays(row[r], ModelTurns(r), MaxSteps * requeues[r])'
  <2>1. CASE r \in Orphaned
    <3>1. MaxSteps * requeues[r] \in Nat
      BY <1>3
    <3>2. ModelTurns(r) <= MaxSteps * requeues[r] + MaxSteps
      BY <1>3 DEF RowPays
    <3>3. QED
      BY <1>3, <1>4, <2>1, <3>1, <3>2 DEF RowPays
  <2>2. CASE r \notin Orphaned
    BY <1>3, <1>5, <2>2 DEF RowPays
  <2>3. QED
    BY <2>1, <2>2
<1>7. ASSUME NEW r \in Run, NEW t \in Task, Drives(t, r)'
      PROVE  DriverPays(task[t], ModelTurns(r), MaxSteps * requeues[r])'
  <2>1. Drives(t, r) /\ task' = task
    BY <1>2, <1>7 DEF Drives
  <2>2. requeues'[r] = requeues[r]
    BY <1>4, <1>5, <2>1
  <2>3. DriverPays(task[t], ModelTurns(r), MaxSteps * requeues[r])
    BY <2>1 DEF BudgetInv
  <2>4. QED
    BY <1>3, <2>1, <2>2, <2>3 DEF DriverPays
<1>8. QED
  BY <1>6, <1>7 DEF BudgetInv

LEMMA BudgetStep ==
  ASSUME LogInv, BudgetInv, [Next]_vars, MaxBusFails = 0
  PROVE  BudgetInv'
<1>1. TypeOK /\ TaskInv /\ SingleDriver /\ DriverInv
  BY DEF LogInv, BaseInv
<1>2. CASE \E t \in Task : TaskStep(t)
  <2>1. PICK t \in Task : TaskStep(t)
    BY <1>2
  <2>2. CASE ResumeClaim(t)
    <3>1. /\ task[t].job \in Job /\ UNCHANGED <<log, requeues>>
          /\ Claim(t, task[t].job, "awaiting_approval", "gated", task[t].ckpt)
      BY <1>1, <2>2 DEF ResumeClaim, TaskInv, TaskOK
    <3>2. "gated" \in Driving \ {"turn"}
      BY DEF Driving
    <3>3. QED
      BY <1>1, <3>1, <3>2, ClaimPays
  <2>3. QED
    BY <1>1, <2>1, <2>2, LocalPays, RecordingPays, EndPays DEF TaskStep
<1>3. CASE \E j \in queue : TakeJob(j)
  <2>1. PICK j \in queue, t \in Task : ExecuteRun(t, j) \/ ResumeRead(t, j)
    BY <1>3 DEF TakeJob
  <2>2. CASE ExecuteRun(t, j)
    <3>1. /\ j \in Job /\ UNCHANGED <<log, requeues>>
          /\ Claim(t, j, "queued", "building", NoCkpt)
      BY <1>1, <2>2 DEF ExecuteRun, TypeOK
    <3>2. "building" \in Driving \ {"turn"}
      BY DEF Driving
    <3>3. QED
      BY <1>1, <3>1, <3>2, ClaimPays
  <2>3. QED
    BY <1>1, <2>1, <2>2, OtherPays
<1>4. CASE RequeueOrphanedRuns
  BY <1>1, <1>4, SweepPays
<1>5. QED
  BY <1>1, <1>2, <1>3, <1>4, OtherPays DEF Next

\* Approval pauses, resumes and redelivered jobs give a run no model turn
\* beyond max_steps: the checkpoint carries the count, and only a requeue, which
\* loses the count the dead worker held, starts it anew.
THEOREM BudgetHolds ==
  ASSUME Timely, MaxBusFails = 0
  PROVE  Spec => []StepBudget
<1>1. Init => BudgetInv
  <2> SUFFICES ASSUME Init PROVE BudgetInv
    OBVIOUS
  <2>1. TypeOK
    BY InitType
  <2>2. ASSUME NEW r \in Run
        PROVE  /\ row[r] = FreshRow /\ requeues[r] = 0 /\ ModelTurns(r) = 0
               /\ MaxSteps \in Nat /\ MaxSteps * 0 = 0
    <3>1. {i \in DOMAIN log[r] : log[r][i].kind = "model"} = {}
      BY DEF Init
    <3>2. Cardinality({}) = 0
      BY FS_EmptySet
    <3>3. MaxSteps \in Nat /\ MaxSteps * 0 = 0
      BY BoundsAssumption
    <3>4. QED
      BY <3>1, <3>2, <3>3 DEF Init, ModelTurns
  <2>3. \A r \in Run, t \in Task : ~Drives(t, r)
    BY DEF Init, Drives, IdleTask, Driving
  <2>4. QED
    BY <2>2, <2>3 DEF BudgetInv, RowPays, FreshRow
<1>2. LogInv /\ BudgetInv /\ [Next]_vars => BudgetInv'
  BY BudgetStep
<1>3. BudgetInv /\ LogInv => StepBudget
  <2> SUFFICES ASSUME BudgetInv, LogInv, NEW r \in Run
               PROVE  ModelTurns(r) <= MaxSteps * (1 + requeues[r])
    BY DEF StepBudget
  <2>1. ModelTurns(r) <= MaxSteps * requeues[r] + MaxSteps
    BY DEF BudgetInv, RowPays
  <2>2. MaxSteps \in Nat /\ requeues[r] \in Nat
    BY BoundsAssumption DEF LogInv, BaseInv, TypeOK
  <2>3. MaxSteps * (1 + requeues[r]) = MaxSteps * requeues[r] + MaxSteps
    BY <2>2
  <2>4. QED
    BY <2>1, <2>3
<1>4. QED
  BY <1>1, <1>2, <1>3, LogInvInvariant, PTL DEF Spec

=============================================================================
