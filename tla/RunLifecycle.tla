---------------------------- MODULE RunLifecycle ----------------------------
(***************************************************************************)
(* The life of an agent run: the row in table "runs", the RunStep and      *)
(* ApprovalRequest rows beside it, the job queue, the worker tasks that    *)
(* drive the model/tool loop, and the API handlers that submit, cancel and *)
(* decide.  One action is one database transaction (or one point where the *)
(* code awaits and may be interleaved or killed).                          *)
(*                                                                         *)
(* A gated tool call is identified with the ApprovalRequest row created    *)
(* for it, so a checkpoint is "the gate it waits on and the number of calls *)
(* of the same model turn still to run"; transcripts are abstracted away.  *)
(***************************************************************************)
EXTENDS Naturals, Sequences, FiniteSets

CONSTANTS
  Run,          \* runs that may be submitted
  Task,         \* job slots of the workers (or inline asyncio tasks)
  Handler,      \* concurrent API requests
  Gate,         \* ids of ApprovalRequest rows; their number bounds the parks
  NoRun,        \* an ApprovalRequest row that does not exist yet has no run
  NoCkpt,       \* runs.checkpoint IS NULL
  NoJob,        \* an idle task has no job
  NoReq,        \* an idle handler has no request
  ApiOps,       \* which of "cancel", "decide" operators use
  MaxSteps,     \* profile.max_steps or settings.max_run_steps
  MaxCalls,     \* bound: tool calls in one model turn
  MaxRequeues,  \* bound: orphan requeues per run
  MaxCrashes,   \* bound: jobs that die (process crash, job timeout, escape)
  MaxLost,      \* bound: processes that die between commit and enqueue
  MaxBusFails,  \* bound: publishes that raise after the commit they announce
  Durable,      \* TRUE: task_backend = "arq"; FALSE: "inline"
  Timely        \* TRUE: no live loop ever goes 15 minutes without a step

Terminal == {"succeeded", "failed", "cancelled"}
Status   == {"absent", "queued", "running", "awaiting_approval"} \cup Terminal
Ckpt     == [gate: Gate, rest: Nat]

ExecuteJob == [kind: {"execute"}, run: Run, nth: 0..MaxRequeues]
ResumeJob  == [kind: {"resume"}, run: Run, gate: Gate, approved: BOOLEAN,
               by: Handler]
Job        == ExecuteJob \cup ResumeJob

CancelReq == [op: {"cancel"}, run: Run, seen: Status]
DecideReq == [op: {"decide"}, gate: Gate, approved: BOOLEAN]

ASSUME BoundsAssumption ==
  /\ MaxSteps \in Nat /\ MaxCalls \in Nat
  /\ MaxRequeues \in Nat /\ MaxCrashes \in Nat
  /\ MaxLost \in Nat /\ MaxBusFails \in Nat
  /\ Durable \in BOOLEAN /\ Timely \in BOOLEAN
  /\ ApiOps \subseteq {"cancel", "decide"}

ASSUME NullsAssumption ==
  /\ NoRun \notin Run
  /\ NoCkpt \notin Ckpt
  /\ NoJob \notin Job
  /\ NoReq \notin CancelReq \cup DecideReq

VARIABLES
  row,       \* the runs table
  log,       \* the run_steps table, per run in insertion order
  appr,      \* the approval_requests table
  answers,   \* assistant messages a run has added to its session
  outbox,    \* jobs whose transaction has committed, not yet enqueued
  queue,     \* jobs in the queue, waiting for a task
  task,      \* local state of each task
  req,       \* local state of each API request
  ran,       \* how often the call behind each gate has been executed
  requeues,  \* how often each run went back to queued; numbers its jobs
  faults     \* how many faults of each kind have happened

vars == <<row, log, appr, answers, outbox, queue, task, req, ran,
          requeues, faults>>

\* Where a task can be suspended.  "reading" is the only point at which it
\* holds a job without owning the run.
Driving == {"building", "gated", "gatedDone", "calls", "callDone", "turn",
            "finishing", "failing"}

IdleTask == [pc |-> "idle", job |-> NoJob, steps |-> 0, seq |-> 0,
             left |-> 0, ckpt |-> NoCkpt, outcome |-> "absent"]

Drives(t, r) == task[t].pc \in Driving /\ task[t].job.run = r

Release(t) == task' = [task EXCEPT ![t] = IdleTask]

FreshRow == [status |-> "absent", cancel |-> FALSE, ckpt |-> NoCkpt,
             steps |-> 0, heartbeat |-> "none"]

Init ==
  /\ row = [r \in Run |-> FreshRow]
  /\ log = [r \in Run |-> <<>>]
  /\ appr = [g \in Gate |-> [status |-> "unused", run |-> NoRun]]
  /\ answers = [r \in Run |-> 0]
  /\ outbox = {} /\ queue = {}
  /\ task = [t \in Task |-> IdleTask]
  /\ req = [h \in Handler |-> NoReq]
  /\ ran = [g \in Gate |-> 0]
  /\ requeues = [r \in Run |-> 0]
  /\ faults = [crash |-> 0, lost |-> 0, bus |-> 0]

-----------------------------------------------------------------------------
(* API handlers (orchestration.py, Conductor).                             *)

\* The second transaction of submit_message; the job is enqueued after it.
SubmitMessage(r) ==
  /\ row[r].status = "absent"
  /\ row' = [row EXCEPT ![r].status = "queued"]
  /\ outbox' = outbox \cup {[kind |-> "execute", run |-> r, nth |-> 0]}
  /\ UNCHANGED <<log, appr, answers, queue, task, req, ran, requeues, faults>>

\* request_cancel loads the row and decides on what it read ...
RequestCancelRead(h, r) ==
  /\ "cancel" \in ApiOps
  /\ req[h] = NoReq
  /\ row[r].status \notin Terminal \cup {"absent"}
  /\ req' = [req EXCEPT ![h] =
                [op |-> "cancel", run |-> r, seen |-> row[r].status]]
  /\ UNCHANGED <<row, log, appr, answers, outbox, queue, task, ran, requeues,
                 faults>>

\* ... and its flush updates the row by id alone.  The unit of work writes
\* only attributes that changed, so the checkpoint is cleared only when the
\* row it loaded had one.
RequestCancelWrite(h) ==
  /\ req[h] # NoReq /\ req[h].op = "cancel"
  /\ LET r == req[h].run IN
       \/ /\ req[h].seen = "queued"
          /\ row' = [row EXCEPT ![r] =
                       [@ EXCEPT !.cancel = TRUE, !.status = "cancelled"]]
       \/ /\ req[h].seen = "awaiting_approval"
          /\ row' = [row EXCEPT ![r] =
                       [@ EXCEPT !.cancel = TRUE, !.status = "cancelled",
                                 !.ckpt = NoCkpt]]
       \/ /\ req[h].seen \notin {"queued", "awaiting_approval"}
          /\ row' = [row EXCEPT ![r].cancel = TRUE]
  /\ req' = [req EXCEPT ![h] = NoReq]
  /\ UNCHANGED <<log, appr, answers, outbox, queue, task, ran, requeues,
                 faults>>

\* (Mutation: a request is decided again.)
DecideApprovalAgain(h, g, approved) ==
  /\ "decide" \in ApiOps
  /\ req[h] = NoReq
  /\ appr[g].status # "unused"
  /\ req' = [req EXCEPT ![h] =
                [op |-> "decide", gate |-> g, approved |-> approved]]
  /\ UNCHANGED <<row, log, appr, answers, outbox, queue, task, ran, requeues,
                 faults>>

\* decide_approval sees a pending request ...
DecideApprovalRead(h, g, approved) ==
  /\ "decide" \in ApiOps
  /\ req[h] = NoReq
  /\ appr[g].status = "pending"
  /\ req' = [req EXCEPT ![h] =
                [op |-> "decide", gate |-> g, approved |-> approved]]
  /\ UNCHANGED <<row, log, appr, answers, outbox, queue, task, ran, requeues,
                 faults>>

\* (Mutation: a denial resumes nothing.)
DecideApprovalOnlyResumesApproved(h) ==
  /\ req[h] # NoReq /\ req[h].op = "decide"
  /\ LET g == req[h].gate IN
       /\ appr' = [appr EXCEPT ![g].status =
                     IF req[h].approved THEN "approved" ELSE "denied"]
       /\ outbox' = outbox \cup
            {[kind |-> "resume", run |-> appr[g].run, gate |-> g,
              approved |-> a, by |-> h] : a \in {req[h].approved} \cap {TRUE}}
  /\ req' = [req EXCEPT ![h] = NoReq]
  /\ UNCHANGED <<row, log, answers, queue, task, ran, requeues, faults>>

\* ... records the decision and will enqueue the resume.
DecideApprovalWrite(h) ==
  /\ req[h] # NoReq /\ req[h].op = "decide"
  /\ LET g == req[h].gate IN
       /\ appr' = [appr EXCEPT ![g].status =
                     IF req[h].approved THEN "approved" ELSE "denied"]
       /\ outbox' = outbox \cup
            {[kind |-> "resume", run |-> appr[g].run, gate |-> g,
              approved |-> req[h].approved, by |-> h]}
  /\ req' = [req EXCEPT ![h] = NoReq]
  /\ UNCHANGED <<row, log, answers, queue, task, ran, requeues, faults>>

-----------------------------------------------------------------------------
(* The job queue (arq, or asyncio.create_task for the inline backend).     *)

Dispatch(j) ==
  /\ j \in outbox
  /\ outbox' = outbox \ {j}
  /\ queue' = queue \cup {j}
  /\ UNCHANGED <<row, log, appr, answers, task, req, ran, requeues, faults>>

\* The process that committed dies, or Redis refuses, before the enqueue.
LoseDispatch(j) ==
  /\ faults.lost < MaxLost
  /\ j \in outbox
  /\ outbox' = outbox \ {j}
  /\ faults' = [faults EXCEPT !.lost = @ + 1]
  /\ UNCHANGED <<row, log, appr, answers, queue, task, req, ran, requeues>>

-----------------------------------------------------------------------------
(* Claiming (agents.py, _claim): a compare-and-swap on the status.         *)

\* (Mutations: claims that skip the compare, start the sequence numbers
\* wrongly, or set no heartbeat.)
FaultyClaim(t, j, claimable, pc, ckpt, seq, heartbeat) ==
  LET r == j.run IN
  \/ /\ claimable
     /\ row' = [row EXCEPT ![r] =
                  [@ EXCEPT !.status = "running", !.ckpt = NoCkpt,
                            !.heartbeat = heartbeat]]
     /\ task' = [task EXCEPT ![t] =
                   [IdleTask EXCEPT !.pc = pc, !.job = j, !.ckpt = ckpt,
                      !.steps = row[r].steps, !.seq = seq]]
  \/ /\ ~claimable
     /\ Release(t)
     /\ UNCHANGED row
ClaimAnyStatus(t, j, from, pc, ckpt) ==
  FaultyClaim(t, j, TRUE, pc, ckpt, Len(log[j.run]), "fresh")
ClaimSeqShort(t, j, from, pc, ckpt) ==
  FaultyClaim(t, j, row[j.run].status = from, pc, ckpt,
              Len(log[j.run]) - 1, "fresh")
ClaimSeqZero(t, j, from, pc, ckpt) ==
  FaultyClaim(t, j, row[j.run].status = from, pc, ckpt, 0, "fresh")
ClaimNoHeartbeat(t, j, from, pc, ckpt) ==
  FaultyClaim(t, j, row[j.run].status = from, pc, ckpt, Len(log[j.run]),
              "none")

Claim(t, j, from, pc, ckpt) ==
  LET r == j.run IN
  \/ /\ row[r].status = from
     /\ row' = [row EXCEPT ![r] =
                  [@ EXCEPT !.status = "running", !.ckpt = NoCkpt,
                            !.heartbeat = "fresh"]]
     /\ task' = [task EXCEPT ![t] =
                   [IdleTask EXCEPT !.pc = pc, !.job = j, !.ckpt = ckpt,
                      !.steps = row[r].steps, !.seq = Len(log[r])]]
  \* the session or the agent profile is gone: recorded as failed
  \/ /\ row[r].status = from
     /\ row' = [row EXCEPT ![r] =
                  [@ EXCEPT !.status = "failed", !.ckpt = NoCkpt,
                            !.heartbeat = "fresh"]]
     /\ Release(t)
  \/ /\ row[r].status # from
     /\ Release(t)
     /\ UNCHANGED row

\* execute_run takes the job and claims from queued.
ExecuteRun(t, j) ==
  /\ task[t].pc = "idle"
  /\ j \in queue /\ j.kind = "execute"
  /\ queue' = queue \ {j}
  /\ Claim(t, j, "queued", "building", NoCkpt)
  /\ UNCHANGED <<log, appr, answers, outbox, req, ran, requeues, faults>>

\* _build_transcript: recall, history, context.
BuildTranscript(t) ==
  /\ task[t].pc = "building"
  /\ task' = [task EXCEPT ![t].pc = "calls"]
  /\ UNCHANGED <<row, log, appr, answers, outbox, queue, req, ran, requeues,
                 faults>>

\* resume_run reads the checkpoint in a transaction of its own ...
ResumeRead(t, j) ==
  /\ task[t].pc = "idle"
  /\ j \in queue /\ j.kind = "resume"
  /\ queue' = queue \ {j}
  /\ IF row[j.run].status = "awaiting_approval" /\ row[j.run].ckpt # NoCkpt
       THEN task' = [task EXCEPT ![t] =
              [IdleTask EXCEPT !.pc = "reading", !.job = j,
                               !.ckpt = row[j.run].ckpt]]
       ELSE UNCHANGED task
  /\ UNCHANGED <<row, log, appr, answers, outbox, req, ran, requeues, faults>>

\* ... and claims in the next.  Nothing compares the approval it was given
\* with the gate the run now waits on.
ResumeClaim(t) ==
  /\ task[t].pc = "reading"
  /\ Claim(t, task[t].job, "awaiting_approval", "gated", task[t].ckpt)
  /\ UNCHANGED <<log, appr, answers, outbox, queue, req, ran, requeues,
                 faults>>

\* (Mutation: the decision is not looked at.)
RunGatedCallAnyway(t) ==
  /\ task[t].pc = "gated"
  /\ ran' = [ran EXCEPT ![task[t].ckpt.gate] = @ + 1]
  /\ task' = [task EXCEPT ![t].pc = "gatedDone"]
  /\ UNCHANGED <<row, log, appr, answers, outbox, queue, req, requeues,
                 faults>>

\* The gated call: executed with approved=True, or answered with a denial.
RunGatedCall(t) ==
  /\ task[t].pc = "gated"
  /\ ran' = IF task[t].job.approved
              THEN [ran EXCEPT ![task[t].ckpt.gate] = @ + 1] ELSE ran
  /\ task' = [task EXCEPT ![t].pc = "gatedDone"]
  /\ UNCHANGED <<row, log, appr, answers, outbox, queue, req, requeues,
                 faults>>

\* The database fails resume_run before its claim: the job is used up.
ResumeRaises(t) ==
  /\ faults.lost < MaxLost
  /\ task[t].pc = "reading"
  /\ Release(t)
  /\ faults' = [faults EXCEPT !.lost = @ + 1]
  /\ UNCHANGED <<row, log, appr, answers, outbox, queue, req, ran, requeues>>

-----------------------------------------------------------------------------
(* The loop (agents.py, _loop).  "calls" with calls left is the inner loop  *)
(* over tool calls, "calls" with none left is the head of the outer loop.   *)

\* _record_step: a heartbeat and a RunStep at the task's own sequence number.
RecordStep(t, kind) ==
  LET r == task[t].job.run IN
  /\ row' = [row EXCEPT ![r].heartbeat = "fresh"]
  /\ log' = [log EXCEPT ![r] =
               Append(@, [index |-> task[t].seq, kind |-> kind])]

RecordGatedCall(t) ==
  /\ task[t].pc = "gatedDone"
  /\ RecordStep(t, "tool")
  /\ task' = [task EXCEPT ![t] =
                [@ EXCEPT !.pc = "calls", !.seq = task[t].seq + 1,
                          !.left = task[t].ckpt.rest]]
  /\ UNCHANGED <<appr, answers, outbox, queue, req, ran, requeues, faults>>

RunTool(t) ==
  /\ task[t].pc = "calls" /\ task[t].left > 0
  /\ task' = [task EXCEPT ![t] =
                [@ EXCEPT !.pc = "callDone", !.left = task[t].left - 1]]
  /\ UNCHANGED <<row, log, appr, answers, outbox, queue, req, ran, requeues,
                 faults>>

RecordTool(t) ==
  /\ task[t].pc = "callDone"
  /\ RecordStep(t, "tool")
  /\ task' = [task EXCEPT ![t] =
                [@ EXCEPT !.pc = "calls", !.seq = task[t].seq + 1]]
  /\ UNCHANGED <<appr, answers, outbox, queue, req, ran, requeues, faults>>

\* The except clause of the loop.
Raise(t) ==
  task' = [task EXCEPT ![t] =
             [@ EXCEPT !.pc = "failing", !.outcome = "failed"]]

\* The event published after a commit, still inside the loop's try block: when
\* publishing raises, the except clause goes on to record the run as failed.
Announce(t) ==
  \/ /\ Release(t)
     /\ UNCHANGED faults
  \/ /\ faults.bus < MaxBusFails
     /\ faults' = [faults EXCEPT !.bus = @ + 1]
     /\ Raise(t)

\* (Mutation: the checkpoint leaves out the steps used so far.)
ParkForgettingSteps(t, g) ==
  /\ task[t].pc = "calls" /\ task[t].left > 0
  /\ appr[g].status = "unused"
  /\ LET r == task[t].job.run IN
       /\ appr' = [appr EXCEPT ![g] = [status |-> "pending", run |-> r]]
       /\ row' = [row EXCEPT ![r] =
            [@ EXCEPT !.status = "awaiting_approval",
                      !.ckpt = [gate |-> g, rest |-> task[t].left - 1]]]
  /\ Announce(t)
  /\ UNCHANGED <<log, answers, outbox, queue, req, ran, requeues>>

\* _park_for_approval: one transaction, not conditional on the status.
ParkForApproval(t, g) ==
  /\ task[t].pc = "calls" /\ task[t].left > 0
  /\ appr[g].status = "unused"
  /\ LET r == task[t].job.run IN
       /\ appr' = [appr EXCEPT ![g] = [status |-> "pending", run |-> r]]
       /\ row' = [row EXCEPT ![r] =
            [@ EXCEPT !.status = "awaiting_approval", !.steps = task[t].steps,
                      !.ckpt = [gate |-> g, rest |-> task[t].left - 1]]]
  /\ Announce(t)
  /\ UNCHANGED <<log, answers, outbox, queue, req, ran, requeues>>

Conclude(t, outcome) ==
  task' = [task EXCEPT ![t] =
             [@ EXCEPT !.pc = "finishing", !.outcome = outcome]]

\* The head of the while loop: the step limit, then the cancellation flag.
LoopHead(t) ==
  /\ task[t].pc = "calls" /\ task[t].left = 0
  /\ \/ /\ task[t].steps >= MaxSteps
        /\ Conclude(t, "failed")
     \/ /\ task[t].steps < MaxSteps
        /\ row[task[t].job.run].cancel
        /\ Conclude(t, "cancelled")
     \/ /\ task[t].steps < MaxSteps
        /\ ~row[task[t].job.run].cancel
        /\ task' = [task EXCEPT ![t].pc = "turn"]
  /\ UNCHANGED <<row, log, appr, answers, outbox, queue, req, ran, requeues,
                 faults>>

\* (Mutation: the message is added with the turn, ahead of the outcome.)
AnswerTurnAddsMessage(t) ==
  /\ task[t].pc = "turn"
  /\ RecordStep(t, "model")
  /\ answers' = [answers EXCEPT ![task[t].job.run] = @ + 1]
  /\ task' = [task EXCEPT ![t] =
                [@ EXCEPT !.pc = "finishing", !.outcome = "succeeded",
                          !.steps = task[t].steps + 1,
                          !.seq = task[t].seq + 1]]
  /\ UNCHANGED <<appr, outbox, queue, req, ran, requeues, faults>>

\* A model turn that gives the final answer ...
AnswerTurn(t) ==
  /\ task[t].pc = "turn"
  /\ RecordStep(t, "model")
  /\ task' = [task EXCEPT ![t] =
                [@ EXCEPT !.pc = "finishing", !.outcome = "succeeded",
                          !.steps = task[t].steps + 1,
                          !.seq = task[t].seq + 1]]
  /\ UNCHANGED <<appr, answers, outbox, queue, req, ran, requeues, faults>>

\* ... or asks for k tool calls.
ToolTurn(t, k) ==
  /\ task[t].pc = "turn"
  /\ RecordStep(t, "model")
  /\ task' = [task EXCEPT ![t] =
                [@ EXCEPT !.pc = "calls", !.left = k,
                          !.steps = task[t].steps + 1,
                          !.seq = task[t].seq + 1]]
  /\ UNCHANGED <<appr, answers, outbox, queue, req, ran, requeues, faults>>

\* Any exception inside the loop is answered by recording the run as failed.
LoopRaises(t) ==
  /\ task[t].pc \in {"calls", "callDone", "turn", "finishing"}
  /\ Raise(t)
  /\ UNCHANGED <<row, log, appr, answers, outbox, queue, req, ran, requeues,
                 faults>>

\* _finish: the terminal update, by id alone, and the assistant message.
RecordOutcome(t) ==
  LET r == task[t].job.run IN
  /\ row' = [row EXCEPT ![r] =
               [@ EXCEPT !.status = task[t].outcome, !.ckpt = NoCkpt,
                         !.steps = task[t].steps, !.heartbeat = "none"]]
  /\ answers' = [answers EXCEPT ![r] =
                   IF task[t].outcome = "succeeded" THEN @ + 1 ELSE @]

Finish(t) ==
  /\ task[t].pc = "finishing"
  /\ RecordOutcome(t)
  /\ Announce(t)
  /\ UNCHANGED <<log, appr, outbox, queue, req, ran, requeues>>

\* _finish from the except clause, outside the try.
FinishFailed(t) ==
  /\ task[t].pc = "failing"
  /\ RecordOutcome(t)
  /\ Release(t)
  /\ UNCHANGED <<log, appr, outbox, queue, req, ran, requeues, faults>>

-----------------------------------------------------------------------------
(* Failure and recovery.                                                   *)

\* The worker dies: arq delivers an unfinished job again, the inline
\* backend does not.
Crash(t) ==
  /\ faults.crash < MaxCrashes
  /\ task[t].pc # "idle"
  /\ queue' = IF Durable THEN queue \cup {task[t].job} ELSE queue
  /\ Release(t)
  /\ faults' = [faults EXCEPT !.crash = @ + 1]
  /\ UNCHANGED <<row, log, appr, answers, outbox, req, ran, requeues>>

\* The job ends without an outcome and is not retried: an exception outside
\* the loop's try block, or (arq) the job timeout, which cancels anywhere.
Escape(t) ==
  /\ faults.crash < MaxCrashes
  /\ task[t].pc \in IF Durable
                     THEN Driving
                     ELSE {"building", "gated", "gatedDone", "failing"}
  /\ Release(t)
  /\ faults' = [faults EXCEPT !.crash = @ + 1]
  /\ UNCHANGED <<row, log, appr, answers, outbox, queue, req, ran, requeues>>

\* Fifteen minutes pass without a recorded step.
HeartbeatExpires(r) ==
  /\ row[r].status = "running" /\ row[r].heartbeat = "fresh"
  /\ Timely => \A t \in Task : ~Drives(t, r)
  /\ row' = [row EXCEPT ![r].heartbeat = "stale"]
  /\ UNCHANGED <<log, appr, answers, outbox, queue, task, req, ran, requeues,
                 faults>>

\* (Mutation: every running row is an orphan.)
OrphanedWhileAlive == {r \in Run : /\ row[r].status = "running"
                                   /\ requeues[r] < MaxRequeues}
Orphaned == {r \in Run : /\ row[r].status = "running"
                         /\ row[r].heartbeat = "stale"
                         /\ requeues[r] < MaxRequeues}

\* requeue_orphaned_runs (the arq worker's cron) and the enqueues after it.
RequeueOrphanedRuns ==
  /\ Durable
  /\ Orphaned # {}
  /\ row' = [r \in Run |->
       IF r \in Orphaned
         THEN [row[r] EXCEPT !.status = "queued", !.heartbeat = "none"]
         ELSE row[r]]
  /\ requeues' = [r \in Run |->
       IF r \in Orphaned THEN requeues[r] + 1 ELSE requeues[r]]
  /\ outbox' = outbox \cup
       {[kind |-> "execute", run |-> r, nth |-> requeues[r] + 1] :
          r \in Orphaned}
  /\ UNCHANGED <<log, appr, answers, queue, task, req, ran, faults>>

-----------------------------------------------------------------------------
HandlerStep(h) ==
  \/ RequestCancelWrite(h)
  \/ DecideApprovalWrite(h)

TaskStep(t) ==
  \/ BuildTranscript(t)
  \/ ResumeClaim(t)
  \/ RunGatedCall(t)
  \/ RecordGatedCall(t)
  \/ RunTool(t)
  \/ RecordTool(t)
  \/ \E g \in Gate : ParkForApproval(t, g)
  \/ LoopHead(t)
  \/ AnswerTurn(t)
  \/ \E k \in 1..MaxCalls : ToolTurn(t, k)
  \/ LoopRaises(t)
  \/ Finish(t)
  \/ FinishFailed(t)

TakeJob(j) == \E t \in Task : ExecuteRun(t, j) \/ ResumeRead(t, j)

Next ==
  \/ \E r \in Run : SubmitMessage(r) \/ HeartbeatExpires(r)
  \/ \E h \in Handler, r \in Run : RequestCancelRead(h, r)
  \/ \E h \in Handler, g \in Gate, a \in BOOLEAN : DecideApprovalRead(h, g, a)
  \/ \E h \in Handler : HandlerStep(h)
  \/ \E j \in outbox : Dispatch(j) \/ LoseDispatch(j)
  \/ \E j \in queue : TakeJob(j)
  \/ \E t \in Task : TaskStep(t) \/ ResumeRaises(t) \/ Crash(t) \/ Escape(t)
  \/ RequeueOrphanedRuns

Spec == Init /\ [][Next]_vars

\* Time passes, the queue is served, the loop and the sweep run: the scheduling
\* of asyncio, arq and its cron.  Operators owe nothing.
Fairness ==
  /\ \A t \in Task : WF_vars(TaskStep(t))
  /\ \A h \in Handler : WF_vars(HandlerStep(h))
  /\ \A j \in Job :
       /\ WF_vars(Dispatch(j))
       /\ SF_vars(TakeJob(j) /\ j \in queue)
  /\ \A r \in Run : WF_vars(HeartbeatExpires(r))
  /\ WF_vars(RequeueOrphanedRuns)

FairSpec == Spec /\ Fairness

-----------------------------------------------------------------------------
(* Properties.                                                             *)

RowType  == [status: Status, cancel: BOOLEAN, ckpt: Ckpt \cup {NoCkpt},
             steps: Nat, heartbeat: {"none", "fresh", "stale"}]
StepType == [index: Nat, kind: {"model", "tool"}]
ApprType == [status: {"unused", "pending", "approved", "denied"},
             run: Run \cup {NoRun}]
TaskType == [pc: Driving \cup {"idle", "reading"}, job: Job \cup {NoJob},
             steps: Nat, seq: Nat, left: Nat, ckpt: Ckpt \cup {NoCkpt},
             outcome: Terminal \cup {"absent"}]
ReqType  == CancelReq \cup DecideReq \cup {NoReq}

\* Types of every table, queue and local state.
TypeOK ==
  /\ row \in [Run -> RowType]
  /\ log \in [Run -> Seq(StepType)]
  /\ appr \in [Gate -> ApprType]
  /\ answers \in [Run -> Nat]
  /\ outbox \subseteq Job
  /\ queue \subseteq Job
  /\ task \in [Task -> TaskType]
  /\ req \in [Handler -> ReqType]
  /\ ran \in [Gate -> Nat]
  /\ requeues \in [Run -> 0..MaxRequeues]
  /\ faults \in [crash: Nat, lost: Nat, bus: Nat]

\* At most one task drives a run: "two workers pulling the same job cannot both
\* execute it" (docs/architecture.md), by the compare-and-swap in _claim.
SingleDriver ==
  \A r \in Run, t, u \in Task : Drives(t, r) /\ Drives(u, r) => t = u

\* RunStep.index numbers the steps of a run without gaps or duplicates, across
\* approval pauses and requeues: a claim counts the rows, the loop counts on.
StepLogInOrder ==
  \A r \in Run : \A i \in DOMAIN log[r] : log[r][i].index = i - 1

\* The step ceiling survives approval pauses: only a requeue buys a run more
\* model turns, because only a crash loses the count the loop holds.
ModelTurns(r) == Cardinality({i \in DOMAIN log[r] : log[r][i].kind = "model"})

StepBudget ==
  \A r \in Run : ModelTurns(r) <= MaxSteps * (1 + requeues[r])

\* A run adds at most one assistant message to its session, and one that
\* succeeded has added it: _finish writes both in one transaction.
OneAnswer ==
  \A r \in Run : /\ answers[r] <= 1
                 /\ row[r].status = "succeeded" => answers[r] = 1

\* A running row can always be found by the sweep: requeue_orphaned_runs skips
\* rows whose heartbeat is NULL.
RunningIsRecoverable ==
  \A r \in Run : row[r].status = "running" => row[r].heartbeat # "none"

\* What will resume gate g: its pending request, or the decision's job on its
\* way to a task that has yet to claim.
ResumeOf(g, j) == j.kind = "resume" /\ j.gate = g

Resumable(g) ==
  \/ appr[g].status = "pending"
  \/ \E j \in outbox \cup queue : ResumeOf(g, j)
  \/ \E t \in Task : task[t].pc = "reading" /\ ResumeOf(g, task[t].job)

\* A parked run waits on something that can still arrive: park_for_approval
\* writes the request with the checkpoint, and no job that could resume the
\* gate is used up while the run still waits on it.
ParkedIsResumable ==
  \A r \in Run : row[r].status = "awaiting_approval" =>
    /\ row[r].ckpt # NoCkpt
    /\ Resumable(row[r].ckpt.gate)

\* A run nobody drives never leaves a terminal status for a live one.
SettledRunStays ==
  [][\A r \in Run :
       row[r].status \in Terminal /\ (\A t \in Task : ~Drives(t, r))
         => row'[r].status \in Terminal]_vars

\* A gated call is executed only under an approval of that very call
\* (docs/security.md: "Approval is per-call").
ApprovalIsPerCall ==
  \A g \in Gate : ran[g] > 0 => appr[g].status = "approved"

\* The call behind a gate is executed once: a claim clears the checkpoint.
GatedCallRunsOnce == \A g \in Gate : ran[g] <= 1

\* A submitted run ends with a recorded outcome or waits for a human
\* (agents.py: "a run can never end without a recorded outcome").
RunSettles ==
  \A r \in Run : row[r].status \in {"queued", "running"}
     ~> row[r].status \in Terminal \cup {"awaiting_approval"}

\* A worker that dies never loses a run it had started (README.md: "a crashed
\* worker never means a duplicated or lost run").
StartedRunSettles ==
  \A r \in Run : row[r].status = "running"
     ~> row[r].status \in Terminal \cup {"awaiting_approval"}

\* A cancelled run settles, parked or not (orchestration.py: "settle it here
\* rather than leaving it waiting forever").
CancelSettles ==
  \A r \in Run : row[r].cancel ~> row[r].status \in Terminal

-----------------------------------------------------------------------------
(* Inductive strengthenings.                                               *)

\* Every job between its commit and its end.
JobsInSystem == outbox \cup queue \cup {task[t].job : t \in Task}

NamesGate(r, g) == appr[g].status # "unused" /\ appr[g].run = r

\* Jobs, requests and checkpoints that name a gate agree with its row.
GateInv ==
  /\ \A g \in Gate : appr[g].status # "unused" => appr[g].run \in Run
  /\ \A h \in Handler : req[h] \in DecideReq
                         => appr[req[h].gate].status # "unused"
  /\ \A j \in JobsInSystem : j \in ResumeJob => NamesGate(j.run, j.gate)
  /\ \A r \in Run : row[r].ckpt # NoCkpt => NamesGate(r, row[r].ckpt.gate)

\* What a task holds at each point where it can be suspended.
TaskOK(k) ==
  /\ k.pc # "idle" => k.job \in Job
  /\ k.pc \in {"reading", "gated", "gatedDone"}
       => k.job \in ResumeJob /\ k.ckpt \in Ckpt
  /\ k.pc \in {"finishing", "failing"} => k.outcome \in Terminal

TaskInv == \A t \in Task : TaskOK(task[t])

\* A driven run can be claimed by nobody and its heartbeat is fresh.
DriverInv ==
  \A r \in Run, t \in Task : Drives(t, r) =>
    /\ row[r].status \in {"running"} \cup Terminal
    /\ row[r].heartbeat = "fresh"

\* A driven run's log is as long as its driver counts, and it has not answered.
DriverCounts ==
  \A r \in Run, t \in Task : Drives(t, r) =>
    /\ task[t].seq = Len(log[r])
    /\ answers[r] = 0

UnsettledHasNoAnswer ==
  \A r \in Run : row[r].status \notin Terminal => answers[r] = 0

\* What tasks, jobs, requests, checkpoints and rows have to agree on for the
\* safety properties to be inductive: a decision's job names the run of its
\* gate, a task holds the job and checkpoint its next step needs, and a driver
\* owns a run nobody can claim and nobody else writes steps for.
RunSupport ==
  TaskInv /\ GateInv /\ DriverInv /\ DriverCounts /\ UnsettledHasNoAnswer

-----------------------------------------------------------------------------
(* The abstract run table.                                                 *)

Lease == INSTANCE RunStatus WITH
  status <- [r \in Run |-> row[r].status],
  owned  <- {r \in Run : \E t \in Task : Drives(t, r)}

\* The workers implement the run table a client is promised (RunStatus): the
\* claim's compare-and-swap, the heartbeat and the sweep amount to exclusive
\* ownership of a running run, crashes and redelivered jobs included.
ImplementsRunStatus == Lease!Spec

=============================================================================
