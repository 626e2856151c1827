---------------------------- MODULE LocalEngine ----------------------------
(***************************************************************************)
(* The engine without a server: the command line (cli/engine.py,            *)
(* cli/commands.py) and the desktop window (gui/bridge.py, gui/app.py) each *)
(* open the same database, drive their runs as inline tasks, and hear only  *)
(* the events of their own process.  There is no sweep: a run whose process *)
(* is killed stays as it was.                                              *)
(***************************************************************************)
EXTENDS Naturals, Sequences

CONSTANTS
  Terminal,   \* processes of the command line, a command each
  Window,     \* the process of the desktop window
  MaxRuns,    \* bound: runs, numbered as they are created
  MaxGates,   \* bound: approval requests, likewise
  MaxOdd      \* bound: what fails, is killed, or is heard of delegated runs

Process == Terminal \cup {Window}
Run == 1..MaxRuns
Gate == 1..MaxGates
NoRun == 0
NoGate == 0

VARIABLES
  row,     \* runs: [status, cancel], and (history) the process it is from
  gate,    \* approval_requests: [status, run]
  task,    \* inline tasks: [proc, run, pc, tells]
  cli,     \* each command: [pc, cmd, run, gate, seen, code]
  inbox,   \* what stream_run has heard
  engine,  \* the window's engine: "booting", "up", "failed", "gone"
  window,  \* [open, send, shown]; send: the Send button is enabled
  work,    \* what the window has submitted to its engine
  ui,      \* messages to the UI thread, oldest first
  orphans, \* history: runs whose task was killed or died
  away,    \* history: runs decided or cancelled by another process
  odd      \* how much of that has happened

tables == <<row, gate>>
screen == <<engine, window, work, ui>>
history == <<orphans, away>>
vars == <<tables, task, cli, inbox, screen, history, odd>>

Terminated == {"succeeded", "failed", "cancelled"}
Alive == {"queued", "running"}

Event(r, kind, what) == [run |-> r, kind |-> kind, what |-> what]
Silent == Event(NoRun, "none", NoGate)

-----------------------------------------------------------------------------
(* The bus of a process: its stream_run, or the window's pump.              *)

Hear(p, e) ==
  IF p = Window
    THEN /\ ui' = IF window.open THEN Append(ui, e) ELSE ui
         /\ UNCHANGED inbox
    ELSE /\ inbox' = IF cli[p].pc = "waiting"
                       THEN [inbox EXCEPT ![p] = Append(@, e)] ELSE inbox
         /\ UNCHANGED ui

-----------------------------------------------------------------------------
(* Inline tasks (Conductor._dispatch, AgentRuntime).                        *)

NewTask(p, r, pc) == [proc |-> p, run |-> r, pc |-> pc, tells |-> Silent]
Step(k, pc, e) == task' = (task \ {k}) \cup {[k EXCEPT !.pc = pc, !.tells = e]}

NextRun(r) == row[r].status = "absent" /\ \A q \in 1..r-1 : row[q].status # "absent"
NextGate(g) == gate[g].status = "unused" /\ \A h \in 1..g-1 : gate[h].status # "unused"

\* submit_message: the row, then the task.
Created(p, r) ==
  /\ NextRun(r)
  /\ row' = [row EXCEPT ![r].status = "queued", ![r].by = p]
  /\ task' = task \cup {NewTask(p, r, "start")}
  /\ UNCHANGED gate

\* _claim: one compare-and-swap; who loses it is done.
Claim(k) ==
  /\ k.pc \in {"start", "resume"}
  /\ IF row[k.run].status = (IF k.pc = "start" THEN "queued" ELSE "awaiting_approval")
       THEN /\ row' = [row EXCEPT ![k.run].status = "running"]
            /\ Step(k, "driving", Silent)
       ELSE task' = task \ {k} /\ UNCHANGED row
  /\ UNCHANGED <<gate, cli, inbox, screen, history, odd>>

Park(k) ==
  /\ k.pc = "driving"
  /\ \E g \in Gate :
       /\ NextGate(g)
       /\ gate' = [gate EXCEPT ![g] = [status |-> "pending", run |-> k.run]]
       /\ Step(k, "telling", Event(k.run, "awaiting_approval", g))
  /\ row' = [row EXCEPT ![k.run].status = "awaiting_approval"]
  /\ UNCHANGED <<cli, inbox, screen, history, odd>>

Settle(k) ==
  /\ k.pc = "driving"
  /\ \E s \in IF row[k.run].cancel THEN Terminated ELSE {"succeeded", "failed"} :
       /\ row' = [row EXCEPT ![k.run].status = s]
       /\ Step(k, "telling", Event(k.run, "finished", s))
  /\ UNCHANGED <<gate, cli, inbox, screen, history, odd>>

Tell(k) ==
  /\ k.pc = "telling"
  /\ Hear(k.proc, k.tells)
  /\ task' = task \ {k}
  /\ UNCHANGED <<tables, cli, engine, window, work, history, odd>>

\* A run that this one delegates to ends, in the same process.
Foreign(k) ==
  /\ k.pc = "driving" /\ odd < MaxOdd
  /\ \E s \in {"succeeded", "failed"} : Hear(k.proc, Event(NoRun, "finished", s))
  /\ odd' = odd + 1
  /\ UNCHANGED <<tables, task, cli, engine, window, work, history>>

\* An exception outside the loop's own handler.
Escape(k) ==
  /\ k.pc = "driving" /\ odd < MaxOdd
  /\ task' = task \ {k}
  /\ orphans' = orphans \cup {k.run}
  /\ odd' = odd + 1
  /\ UNCHANGED <<tables, cli, inbox, screen, away>>

Of(p) == {k \in task : k.proc = p}

\* A process ends, or cancels its tasks: a CancelledError is not an Exception,
\* so that nothing is recorded.
Killed(p) ==
  /\ task' = task \ Of(p)
  /\ orphans' = orphans \cup {k.run : k \in Of(p)}

-----------------------------------------------------------------------------
(* decide_approval and request_cancel, which any process may call: the row  *)
(* is loaded, then written by id.                                          *)

DecideWrite(p, g, approved) ==
  /\ gate' = [gate EXCEPT ![g].status = IF approved THEN "approved" ELSE "denied"]
  /\ task' = task \cup {NewTask(p, gate[g].run, "resume")}
  /\ away' = IF p = Window THEN away ELSE away \cup {gate[g].run}
  /\ UNCHANGED <<row, orphans>>

CancelWrite(r, seen) ==
  /\ row' = [row EXCEPT ![r].cancel = TRUE,
       ![r].status = IF seen \in {"queued", "awaiting_approval"} THEN "cancelled" ELSE @]
  /\ away' = away \cup {r}
  /\ UNCHANGED <<gate, task, orphans>>

-----------------------------------------------------------------------------
(* Commands.                                                               *)

Fresh == [pc |-> "idle", cmd |-> "none", run |-> NoRun, gate |-> NoGate,
          seen |-> "none", code |-> 0]

Ended(t, code) == cli' = [cli EXCEPT ![t].pc = "draining", ![t].code = code]

\* stream_run, for cmd_agent_run and for a line of cmd_chat: the pump listens
\* before the goal is submitted.
StreamRun(t, cmd, r) ==
  /\ cli[t].pc = "idle" \/ (cli[t].pc = "prompt" /\ cmd = "chat")
  /\ Created(t, r)
  /\ cli' = [cli EXCEPT ![t] = [Fresh EXCEPT !.pc = "waiting", !.cmd = cmd, !.run = r]]
  /\ inbox' = [inbox EXCEPT ![t] = <<>>]
  /\ UNCHANGED <<screen, history, odd>>

\* What the command makes of an event of its run.
Answered(t, e) ==
  cli' = [cli EXCEPT ![t].pc = "draining",
            ![t].gate = IF e.kind = "awaiting_approval" THEN e.what ELSE NoGate,
            ![t].code = IF e.kind = "awaiting_approval" THEN 2
                        ELSE IF e.what = "succeeded" THEN 0 ELSE 1]

Hears(t) ==
  /\ cli[t].pc = "waiting" /\ inbox[t] # <<>>
  /\ inbox' = [inbox EXCEPT ![t] = IF cli'[t].pc = "waiting" THEN Tail(@) ELSE <<>>]
  /\ UNCHANGED <<tables, task, screen, history, odd>>

\* (Mutation: any run of the workspace will do.)
HearAnyRun(t) ==
  /\ inbox[t] # <<>> /\ Answered(t, Head(inbox[t]))
  /\ Hears(t)

HearEvent(t) ==
  /\ inbox[t] # <<>>
  /\ IF Head(inbox[t]).run = cli[t].run THEN Answered(t, Head(inbox[t]))
     ELSE UNCHANGED cli
  /\ Hears(t)

\* 900 s without an event, or the first Ctrl-C: stream_run returns None, after
\* it has waited for the run.
GiveUpWaiting(t) ==
  /\ cli[t].pc = "waiting"
  /\ Ended(t, 1)
  /\ inbox' = [inbox EXCEPT ![t] = <<>>]
  /\ UNCHANGED <<tables, task, screen, history, odd>>

\* (Mutation: the process does not wait for its inline runs.)
ExitAtOnce(t) ==
  /\ cli[t].pc = "draining"
  /\ task' = task \ Of(t)
  /\ cli' = [cli EXCEPT ![t].pc = "exited"]
  /\ UNCHANGED <<tables, inbox, screen, history, odd>>

\* wait_for_inline_runs: then cmd_chat asks about a gate, or prompts again, and
\* any other command is over.
Drained(t) ==
  /\ cli[t].pc = "draining" /\ Of(t) = {}
  /\ cli' = [cli EXCEPT ![t].pc =
       IF cli[t].cmd # "chat" THEN "exited"
       ELSE IF cli[t].gate # NoGate THEN "asking" ELSE "prompt"]
  /\ UNCHANGED <<tables, task, inbox, screen, history, odd>>

\* Ctrl-D, "exit".
LeaveChat(t) ==
  /\ cli[t].pc \in {"prompt", "asking"}
  /\ cli' = [cli EXCEPT ![t].pc = "exited", ![t].code = 0]
  /\ UNCHANGED <<tables, task, inbox, screen, history, odd>>

\* The commands "approvals approve" and "approvals deny" look for a pending
\* request; the chat knows which.
DecideRead(t, g) ==
  /\ \/ cli[t].pc = "idle"
     \/ cli[t].pc = "asking" /\ g = cli[t].gate
  /\ cli' = [cli EXCEPT ![t] =
       IF gate[g].status = "pending"
         THEN [@ EXCEPT !.pc = "deciding", !.gate = g,
                        !.cmd = IF cli[t].cmd = "chat" THEN "chat" ELSE "decide"]
         ELSE [@ EXCEPT !.pc = "draining", !.gate = NoGate, !.code = 1]]
  /\ UNCHANGED <<tables, task, inbox, screen, history, odd>>

Decide(t, approved) ==
  /\ cli[t].pc = "deciding"
  /\ DecideWrite(t, cli[t].gate, approved)
  /\ cli' = [cli EXCEPT ![t].pc = "draining", ![t].gate = NoGate, ![t].code = 0]
  /\ UNCHANGED <<inbox, screen, odd>>

CancelRead(t, r) ==
  /\ cli[t].pc = "idle" /\ row[r].status # "absent"
  /\ cli' = [cli EXCEPT ![t] = [@ EXCEPT !.pc =
       IF row[r].status \in Terminated THEN "draining" ELSE "cancelling",
       !.cmd = "cancel", !.run = r, !.seen = row[r].status]]
  /\ UNCHANGED <<tables, task, inbox, screen, history, odd>>

Cancel(t) ==
  /\ cli[t].pc = "cancelling"
  /\ CancelWrite(cli[t].run, cli[t].seen)
  /\ Ended(t, 0)
  /\ UNCHANGED <<inbox, screen, odd>>

\* Ctrl-C while the runs are waited for, a second one, or a kill.
Kill(t) ==
  /\ cli[t].pc \notin {"idle", "exited"} /\ odd < MaxOdd
  /\ Killed(t)
  /\ cli' = [cli EXCEPT ![t].pc = "exited", ![t].code = 130]
  /\ inbox' = [inbox EXCEPT ![t] = <<>>]
  /\ odd' = odd + 1
  /\ UNCHANGED <<tables, screen, away>>

-----------------------------------------------------------------------------
(* The window (HoursXWindow) and its bridge.                                *)

Post(message) == ui' = Append(ui, message)
Error == Event(NoRun, "error", NoGate)

Boot ==
  /\ engine = "booting"
  /\ \/ engine' = "up" /\ UNCHANGED ui
     \/ engine' = "failed" /\ Post(Error)
  /\ UNCHANGED <<tables, task, cli, inbox, window, work, history, odd>>

\* _send.
Send ==
  /\ window.open /\ window.send /\ engine = "up"
  /\ window' = [window EXCEPT !.send = FALSE]
  /\ work' = work \cup {[kind |-> "submit", gate |-> NoGate, approved |-> FALSE]}
  /\ UNCHANGED <<tables, task, cli, inbox, engine, ui, history, odd>>

\* _decide: what is shown is put away before the decision is made.
Click(approved) ==
  /\ window.open /\ window.shown # NoGate
  /\ window' = [window EXCEPT !.shown = NoGate]
  /\ work' = work \cup {[kind |-> "decide", gate |-> window.shown, approved |-> approved]}
  /\ UNCHANGED <<tables, task, cli, inbox, engine, ui, history, odd>>

Works(w) == engine = "up" /\ w \in work /\ UNCHANGED <<cli, inbox, engine, window>>
Over(w) == work' = work \ {w}

SubmitWork(w) ==
  /\ Works(w) /\ Over(w) /\ w.kind = "submit"
  /\ \E r \in Run : Created(Window, r)
  /\ UNCHANGED <<ui, history, odd>>

\* The row is loaded, then written; a request that is decided stays so.
DecideLoads(w) ==
  /\ Works(w) /\ w.kind = "decide"
  /\ IF gate[w.gate].status = "pending"
       THEN work' = (work \ {w}) \cup {[w EXCEPT !.kind = "write"]}
       ELSE Over(w)
  /\ UNCHANGED <<tables, task, ui, history, odd>>

DecideWrites(w) ==
  /\ Works(w) /\ Over(w) /\ w.kind = "write"
  /\ DecideWrite(Window, w.gate, w.approved)
  /\ UNCHANGED <<ui, odd>>

\* The quota, the database: the wrapper posts what was raised.
WorkFails(w) ==
  /\ Works(w) /\ Over(w)
  /\ \/ w.kind = "submit" /\ \A r \in Run : row[r].status # "absent"
        /\ UNCHANGED odd
     \/ odd < MaxOdd /\ odd' = odd + 1
  /\ Post(Error)
  /\ UNCHANGED <<tables, task, history>>

Polls == window.open /\ ui # <<>> /\ ui' = Tail(ui)

\* (Mutation: an error is shown, and no more.)
HandleErrorAside ==
  /\ Polls
  /\ LET m == Head(ui) IN
     window' = [window EXCEPT
       !.send = @ \/ m.kind = "finished",
       !.shown = IF m.kind = "awaiting_approval" THEN m.what ELSE @]
  /\ UNCHANGED <<tables, task, cli, inbox, engine, work, history, odd>>

\* _poll and _handle.  Whatever run the event is about.
Handle ==
  /\ Polls
  /\ LET m == Head(ui) IN
     window' = [window EXCEPT
       !.send = @ \/ m.kind \in {"finished", "error"},
       !.shown = IF m.kind = "awaiting_approval" THEN m.what ELSE @]
  /\ UNCHANGED <<tables, task, cli, inbox, engine, work, history, odd>>

\* _on_close and EngineBridge.stop: the pump is cancelled; the runs have until
\* the timeouts are over, and then the engine's thread dies with the process.
Close ==
  /\ window.open /\ engine # "gone"
  /\ window' = [window EXCEPT !.open = FALSE] /\ ui' = <<>>
  /\ UNCHANGED <<tables, task, cli, inbox, engine, work, history, odd>>

Gone ==
  /\ ~window.open /\ engine # "gone"
  /\ Killed(Window)
  /\ engine' = "gone" /\ work' = {}
  /\ UNCHANGED <<tables, cli, inbox, window, ui, away, odd>>

-----------------------------------------------------------------------------
Init ==
  /\ row = [r \in Run |->
       [status |-> "absent", cancel |-> FALSE, by |-> NoRun]]
  /\ gate = [g \in Gate |-> [status |-> "unused", run |-> NoRun]]
  /\ task = {} /\ cli = [t \in Terminal |-> Fresh]
  /\ inbox = [t \in Terminal |-> <<>>]
  /\ engine = "booting" /\ window = [open |-> TRUE, send |-> TRUE, shown |-> NoGate]
  /\ work = {} /\ ui = <<>>
  /\ orphans = {} /\ away = {}
  /\ odd = 0

Drive == \E k \in task : Claim(k) \/ Park(k) \/ Settle(k) \/ Tell(k)

Serve == \E w \in work : SubmitWork(w) \/ DecideLoads(w) \/ DecideWrites(w) \/ WorkFails(w)

Command(t) ==
  \/ \E r \in Run : StreamRun(t, "run", r) \/ StreamRun(t, "chat", r) \/ CancelRead(t, r)
  \/ HearEvent(t) \/ GiveUpWaiting(t) \/ Drained(t) \/ LeaveChat(t)
  \/ \E g \in Gate : DecideRead(t, g)
  \/ \E approved \in BOOLEAN : Decide(t, approved)
  \/ Cancel(t) \/ Kill(t)

Next ==
  \/ Drive \/ Serve
  \/ \E k \in task : Foreign(k) \/ Escape(k)
  \/ \E t \in Terminal : Command(t)
  \/ Boot \/ Send \/ Handle \/ Close \/ Gone
  \/ \E approved \in BOOLEAN : Click(approved)

Spec == Init /\ [][Next]_vars

-----------------------------------------------------------------------------
(* Properties.                                                             *)

\* A run that is queued or running is driven by some process, unless a process
\* was killed or closed under it or an exception ended its task: a command
\* waits for its runs however it ends (close_local, the finally of stream_run),
\* and of two that resume the same run one gives way.
RunIsDriven ==
  \A r \in Run :
    row[r].status \in Alive => r \in orphans \/ \E k \in task : k.run = r

\* The exit code of `hoursx agent run` is about its own run: 0 when that
\* succeeded (a cancellation that loaded the row before may have overwritten
\* it), 2 when it was parked, with the request that is printed.
ExitTells ==
  \A t \in Terminal :
    LET c == cli[t] IN
    c.pc = "exited" /\ c.cmd = "run" =>
      /\ c.code = 0 => \/ row[c.run].status = "succeeded"
                       \/ row[c.run].status = "cancelled" /\ row[c.run].cancel
      /\ c.code = 2 => gate[c.gate].run = c.run

\* The Send button is never left disabled: a message that enables it is on its
\* way, or something still works towards one, or there is a request to decide;
\* unless another process took a run of the window over, whose events are never
\* heard here, or its task died.
SendIsOwed ==
  window.open /\ ~window.send =>
    \/ window.shown # NoGate \/ work # {} \/ Of(Window) # {}
    \/ \E i \in DOMAIN ui : ui[i].kind \in {"finished", "error", "awaiting_approval"}
    \/ \E r \in orphans \cup away : row[r].by = Window

=============================================================================
