------------------------- MODULE LocalEngine_proofs -------------------------
(***************************************************************************)
(* Proofs about the local engine, as MCHost composes it, for any number of  *)
(* processes, runs and requests: a run that is queued or running has a task *)
(* unless its process or its task was lost, a command exits with the code   *)
(* its own run has earned, and the window's Send button comes back.         *)
(***************************************************************************)
EXTENDS MCHost, Integers, Sequences, SequenceTheorems, TLAPS

\* The processes that share the local database, and the bounds.
Local ==
  /\ Window \notin Terminal
  /\ MaxRuns \in Nat /\ MaxGates \in Nat

RowState == {"absent", "queued", "running", "awaiting_approval"} \cup L!Terminated

Happening ==
  [run: L!Run \cup {0},
   kind: {"none", "finished", "awaiting_approval", "error"},
   what: L!Gate \cup {0} \cup L!Terminated]

Task == [proc: L!Process, run: L!Run,
         pc: {"start", "resume", "driving", "telling"}, tells: Happening]

Command ==
  [pc: {"idle", "waiting", "draining", "prompt", "asking", "deciding", "cancelling",
        "exited"},
   cmd: {"none", "run", "chat", "decide", "cancel"},
   run: L!Run \cup {0}, gate: L!Gate \cup {0}, seen: {"none"} \cup RowState,
   code: {0, 1, 2, 130}]

Work == [kind: {"submit", "decide", "write"}, gate: L!Gate \cup {0}, approved: BOOLEAN]

\* The runs there are, and the requests.
Created == {r \in L!Run : runs[r].status # "absent"}
Asked == {g \in L!Gate : gate[g].status # "unused"}

\* The type of each variable, and that what it refers to is there.
GoodTask(k, R, G) ==
  /\ k \in Task /\ k.run \in R
  /\ k.pc = "telling" => k.tells.kind \in {"finished", "awaiting_approval"}
  /\ k.tells.kind = "awaiting_approval" => k.tells.what \in G
GoodCommand(c, R, G) ==
  /\ c \in Command
  /\ c.pc = "deciding" => c.gate \in G
  /\ c.pc \in {"cancelling", "waiting"} => c.run \in R
  /\ c.cmd = "run" => c.pc \in {"waiting", "draining", "exited"} /\ c.run \in R
GoodNews(s, G) ==
  /\ s \in Seq(Happening)
  /\ \A i \in DOMAIN s : s[i].kind = "awaiting_approval" => s[i].what \in G
GoodWork(w, G) == w \in Work /\ (w.kind \in {"decide", "write"} => w.gate \in G)

RunsOk == runs \in [L!Run -> [status: RowState, cancel: BOOLEAN, by: L!Process \cup {0}]]
GateOk ==
  /\ gate \in [L!Gate -> [status: {"unused", "pending", "approved", "denied"},
                          run: L!Run \cup {0}]]
  /\ \A g \in Asked : gate[g].run \in Created
TaskOk == \A k \in task : GoodTask(k, Created, Asked)
CliOk ==
  cli \in [Terminal -> Command] /\ \A t \in Terminal : GoodCommand(cli[t], Created, Asked)
InboxOk ==
  inbox \in [Terminal -> Seq(Happening)] /\ \A t \in Terminal : GoodNews(inbox[t], Asked)
UiOk == GoodNews(ui, Asked)
WindowOk ==
  /\ window \in [open: BOOLEAN, send: BOOLEAN, shown: L!Gate \cup {0}]
  /\ window.shown # 0 => window.shown \in Asked
WorkOk == \A w \in work : GoodWork(w, Asked)
HistoryOk == orphans \cup away \subseteq Created

LocalInv ==
  /\ RunsOk /\ GateOk /\ TaskOk /\ CliOk /\ InboxOk /\ UiOk /\ WindowOk /\ WorkOk
  /\ HistoryOk

\* Runs and requests are never taken back.
Grows ==
  /\ Created \subseteq Created' /\ Asked \subseteq Asked'
  /\ \A g \in Asked : gate'[g].run = gate[g].run

LEMMA KeptParts ==
  ASSUME LocalInv, Grows
  PROVE  /\ gate' = gate => GateOk'
         /\ \A k \in task : GoodTask(k, Created', Asked')
         /\ task' \subseteq task => TaskOk'
         /\ \A t \in Terminal : GoodCommand(cli[t], Created', Asked')
         /\ cli' = cli => CliOk'
         /\ \A t \in Terminal : GoodNews(inbox[t], Asked')
         /\ inbox' = inbox => InboxOk'
         /\ GoodNews(ui, Asked')
         /\ ui' = ui => UiOk'
         /\ window' = window => WindowOk'
         /\ \A w \in work : GoodWork(w, Asked')
         /\ work' \subseteq work => WorkOk'
         /\ orphans' = orphans /\ away' = away => HistoryOk'
<1>1. Created \subseteq Created' /\ Asked \subseteq Asked'
  BY DEF Grows
<1>2. \A k \in task : GoodTask(k, Created', Asked')
  BY <1>1 DEF LocalInv, TaskOk, GoodTask
<1>3. \A t \in Terminal : GoodCommand(cli[t], Created', Asked')
  BY <1>1 DEF LocalInv, CliOk, GoodCommand
<1>4. \A t \in Terminal : GoodNews(inbox[t], Asked')
  BY <1>1 DEF LocalInv, InboxOk, GoodNews
<1>5. GoodNews(ui, Asked')
  BY <1>1 DEF LocalInv, UiOk, GoodNews
<1>6. \A w \in work : GoodWork(w, Asked')
  BY <1>1 DEF LocalInv, WorkOk, GoodWork
<1>7. gate' = gate => GateOk'
  BY <1>1 DEF LocalInv, GateOk, Asked
<1>8. window' = window => WindowOk'
  BY <1>1 DEF LocalInv, WindowOk
<1>9. orphans' = orphans /\ away' = away => HistoryOk'
  BY <1>1 DEF LocalInv, HistoryOk
<1>10. task' \subseteq task => TaskOk'
  BY <1>2 DEF TaskOk
<1>11. (cli' = cli => CliOk') /\ (inbox' = inbox => InboxOk')
  BY <1>3, <1>4 DEF LocalInv, CliOk, InboxOk
<1>12. (ui' = ui => UiOk') /\ (work' \subseteq work => WorkOk')
  BY <1>5, <1>6 DEF UiOk, WorkOk
<1> QED BY <1>2, <1>3, <1>4, <1>5, <1>6, <1>7, <1>8, <1>9, <1>10, <1>11, <1>12

\* A task moves on, or a new one starts.
LEMMA TaskMoves ==
  ASSUME LocalInv, Grows, NEW k \in task, NEW where \in {"driving", "telling"},
         NEW e \in Happening, L!Step(k, where, e),
         where = "telling" => e.kind \in {"finished", "awaiting_approval"},
         e.kind = "awaiting_approval" => e.what \in Asked'
  PROVE  TaskOk'
<1>1. \A l \in task : GoodTask(l, Created', Asked')
  BY KeptParts
<1>2. GoodTask([k EXCEPT !.pc = where, !.tells = e], Created', Asked')
  BY <1>1 DEF GoodTask, Task
<1> QED BY <1>1, <1>2 DEF L!Step, TaskOk

LEMMA TaskStarts ==
  ASSUME Local, LocalInv, Grows, NEW p \in L!Process, NEW r \in Created',
         NEW where \in {"start", "resume"}, task' = task \cup {L!NewTask(p, r, where)}
  PROVE  TaskOk'
<1>1. \A l \in task : GoodTask(l, Created', Asked')
  BY KeptParts
<1>2. L!NewTask(p, r, where) \in Task
  BY DEF L!NewTask, L!Silent, L!Event, L!NoRun, L!NoGate, Task, Happening, Created
<1>3. GoodTask(L!NewTask(p, r, where), Created', Asked')
  BY <1>2 DEF GoodTask, L!NewTask, L!Silent, L!Event
<1> QED BY <1>1, <1>3 DEF TaskOk

\* News: something is heard, or has been read.
LEMMA OneMore ==
  ASSUME NEW G, NEW s, GoodNews(s, G), NEW e \in Happening,
         e.kind = "awaiting_approval" => e.what \in G
  PROVE  GoodNews(Append(s, e), G)
<1>1. s \in Seq(Happening) /\ Append(s, e) \in Seq(Happening)
  BY DEF GoodNews
<1>2. ASSUME NEW i \in DOMAIN Append(s, e)
      PROVE  Append(s, e)[i] = e \/ (i \in DOMAIN s /\ Append(s, e)[i] = s[i])
  BY <1>1
<1> QED BY <1>1, <1>2 DEF GoodNews

LEMMA OneLess ==
  ASSUME NEW G, NEW s, GoodNews(s, G), s # <<>>
  PROVE  GoodNews(Tail(s), G) /\ Head(s) \in Happening /\ Head(s) = s[1] /\ 1 \in DOMAIN s
<1>1. s \in Seq(Happening)
  BY DEF GoodNews
<1>2. /\ Tail(s) \in Seq(Happening) /\ Head(s) \in Happening
      /\ Head(s) = s[1] /\ 1 \in DOMAIN s
      /\ \A i \in DOMAIN Tail(s) : i + 1 \in DOMAIN s /\ Tail(s)[i] = s[i + 1]
  BY <1>1
<1> QED BY <1>1, <1>2 DEF GoodNews

LEMMA NoNews == ASSUME NEW G PROVE GoodNews(<<>>, G)
<1>1. <<>> \in Seq(Happening)
  OBVIOUS
<1>2. DOMAIN <<>> = {}
  OBVIOUS
<1> QED BY <1>1, <1>2 DEF GoodNews

LEMMA NewsIsHeard ==
  ASSUME LocalInv, Grows, NEW p \in L!Process, NEW e \in Happening, L!Hear(p, e),
         e.kind = "awaiting_approval" => e.what \in Asked'
  PROVE  InboxOk' /\ UiOk'
<1>1. GoodNews(Append(ui, e), Asked')
  BY KeptParts, OneMore
<1>2. UiOk'
  BY <1>1, KeptParts DEF L!Hear, UiOk
<1>3. \A t \in Terminal : GoodNews(Append(inbox[t], e), Asked')
  BY KeptParts, OneMore
<1>4. CASE inbox' = inbox
  BY <1>2, <1>4, KeptParts
<1>5. CASE p \in Terminal /\ inbox' = [inbox EXCEPT ![p] = Append(@, e)]
  <2>1. \A t \in Terminal : inbox'[t] \in {inbox[t], Append(inbox[t], e)}
    BY <1>5 DEF LocalInv, InboxOk
  <2>2. \A t \in Terminal : GoodNews(inbox'[t], Asked')
    BY <1>3, <2>1, KeptParts
  <2>3. Append(inbox[p], e) \in Seq(Happening)
    BY <1>3, <1>5 DEF GoodNews
  <2>4. inbox' \in [Terminal -> Seq(Happening)]
    BY <1>5, <2>3 DEF LocalInv, InboxOk
  <2> QED BY <1>2, <2>2, <2>4 DEF InboxOk
<1> QED BY <1>2, <1>4, <1>5 DEF L!Hear, L!Process

LEMMA MailIsRead ==
  ASSUME LocalInv, Grows, NEW t \in Terminal, NEW s,
         inbox' = [inbox EXCEPT ![t] = s],
         s = <<>> \/ (inbox[t] # <<>> /\ s = Tail(inbox[t])) \/ s = inbox[t]
  PROVE  InboxOk'
<1>1. GoodNews(s, Asked')
  <2>1. GoodNews(inbox[t], Asked')
    BY KeptParts
  <2>2. CASE inbox[t] # <<>> /\ s = Tail(inbox[t])
    BY <2>1, <2>2, OneLess
  <2>3. CASE s = <<>>
    BY <2>3, NoNews
  <2>4. CASE s = inbox[t]
    BY <2>1, <2>4
  <2> QED BY <2>2, <2>3, <2>4
<1>2. \A u \in Terminal : GoodNews(inbox'[u], Asked')
  BY <1>1, KeptParts DEF LocalInv, InboxOk
<1>3. inbox' \in [Terminal -> Seq(Happening)]
  BY <1>2 DEF LocalInv, InboxOk, GoodNews
<1> QED BY <1>2, <1>3 DEF InboxOk

\* One command moves on.
LEMMA CommandMoves ==
  ASSUME LocalInv, Grows, NEW t \in Terminal, NEW c,
         cli' = [cli EXCEPT ![t] = c], GoodCommand(c, Created', Asked')
  PROVE  CliOk'
<1>1. \A u \in Terminal : GoodCommand(cli'[u], Created', Asked')
  BY KeptParts DEF LocalInv, CliOk
<1>2. cli' \in [Terminal -> Command]
  BY <1>1 DEF LocalInv, CliOk, GoodCommand
<1> QED BY <1>1, <1>2 DEF CliOk

LEMMA CommandEnds ==
  ASSUME NEW R, NEW G, NEW c, GoodCommand(c, R, G),
         NEW p \in {"draining", "exited"}, NEW n \in {0, 1, 2, 130},
         NEW d, d = [c EXCEPT !.pc = p, !.code = n]
  PROVE  GoodCommand(d, R, G)
<1>1. c \in Command
  BY DEF GoodCommand
<1>2. d \in Command
  BY <1>1 DEF Command
<1>3. d.pc = p /\ d.cmd = c.cmd /\ d.run = c.run
  BY <1>1 DEF Command
<1> QED BY <1>2, <1>3 DEF GoodCommand

LEMMA CommandAnswers ==
  ASSUME NEW R, NEW G, NEW c, GoodCommand(c, R, G),
         NEW g \in L!Gate \cup {0}, NEW n \in {0, 1, 2, 130},
         NEW d, d = [c EXCEPT !.pc = "draining", !.gate = g, !.code = n]
  PROVE  GoodCommand(d, R, G)
<1>1. c \in Command
  BY DEF GoodCommand
<1>2. d \in Command
  BY <1>1 DEF Command
<1>3. d.pc = "draining" /\ d.cmd = c.cmd /\ d.run = c.run
  BY <1>1 DEF Command
<1> QED BY <1>2, <1>3 DEF GoodCommand

LEMMA ClaimT ==
  ASSUME Local, LocalInv, NEW k \in task, L!Claim(k)
  PROVE  LocalInv' /\ Grows
<1> USE DEF L!tables, L!screen, L!history
<1>1. Grows
  BY DEF L!Claim, Grows, Asked, Created, LocalInv, RunsOk, RowState
<1>2. RunsOk'
  BY <1>1, KeptParts DEF L!Claim, LocalInv, RunsOk, RowState, TaskOk, GoodTask, Task,
         L!Terminated, L!Process, Created, CliOk, GoodCommand, Command
<1>3. TaskOk'
  <2>1. L!Silent \in Happening /\ L!Silent.kind = "none"
    BY DEF L!Silent, L!Event, L!NoRun, L!NoGate, Happening
  <2>2. CASE L!Step(k, "driving", L!Silent)
    BY <1>1, <2>1, <2>2, TaskMoves
  <2>3. CASE task' = task \ {k}
    BY <1>1, <2>3, KeptParts
  <2> QED BY <2>2, <2>3 DEF L!Claim
<1>4. /\ gate' = gate /\ cli' = cli /\ inbox' = inbox /\ ui' = ui /\ window' = window
      /\ work' \subseteq work /\ orphans' = orphans /\ away' = away
  BY DEF L!Claim, L!Hear, LocalInv
<1> QED BY <1>1, <1>2, <1>3, <1>4, KeptParts DEF LocalInv, RunsOk

LEMMA ParkT ==
  ASSUME Local, LocalInv, NEW k \in task, L!Park(k)
  PROVE  LocalInv' /\ Grows
<1> USE DEF L!tables, L!screen, L!history
<1>1. Grows
  BY DEF L!Park, Grows, Asked, Created, GateOk, L!NextGate, LocalInv
<1>2. RunsOk'
  BY <1>1, KeptParts DEF L!Park, LocalInv, RunsOk, RowState, TaskOk, GoodTask, Task,
         L!Terminated, L!Process, Created, CliOk, GoodCommand, Command
<1>3. GateOk'
  <2>1. PICK g \in L!Gate : gate' = [gate EXCEPT ![g] = [status |-> "pending", run |-> k.run]]
    BY DEF L!Park
  <2>2. k.run \in L!Run /\ k.run \in Created /\ k.run \in Created'
    BY <1>1 DEF LocalInv, TaskOk, GoodTask, Task, Grows
  <2> QED BY <1>1, <2>1, <2>2 DEF LocalInv, GateOk, Asked, Grows
<1>4. TaskOk'
  <2>1. PICK g \in L!Gate : /\ L!NextGate(g)
         /\ gate' = [gate EXCEPT ![g] = [status |-> "pending", run |-> k.run]]
         /\ L!Step(k, "telling", L!Event(k.run, "awaiting_approval", g))
    BY DEF L!Park
  <2>2. g \in Asked'
    BY <2>1 DEF LocalInv, GateOk, Asked
  <2>3. L!Event(k.run, "awaiting_approval", g) \in Happening
    BY DEF L!Event, Happening, LocalInv, TaskOk, GoodTask, Task
  <2> QED BY <1>1, <2>1, <2>2, <2>3, TaskMoves DEF L!Event
<1>5. /\ cli' = cli /\ inbox' = inbox /\ ui' = ui /\ window' = window
      /\ work' \subseteq work /\ orphans' = orphans /\ away' = away
  BY DEF L!Park, L!Hear, LocalInv
<1> QED BY <1>1, <1>2, <1>3, <1>4, <1>5, KeptParts DEF LocalInv, RunsOk

LEMMA SettleT ==
  ASSUME Local, LocalInv, NEW k \in task, L!Settle(k)
  PROVE  LocalInv' /\ Grows
<1> USE DEF L!tables, L!screen, L!history
<1>1. Grows
  <2>1. PICK s \in L!Terminated : runs' = [runs EXCEPT ![k.run].status = s]
    BY DEF L!Settle, L!Terminated
  <2> QED BY <2>1 DEF Grows, Created, Asked, LocalInv, RunsOk, L!Settle, L!Terminated
<1>2. RunsOk'
  <2>1. PICK s \in L!Terminated : runs' = [runs EXCEPT ![k.run].status = s]
    BY DEF L!Settle, L!Terminated
  <2> QED BY <2>1 DEF LocalInv, RunsOk, RowState
<1>3. TaskOk'
  <2>1. PICK s \in L!Terminated : L!Step(k, "telling", L!Event(k.run, "finished", s))
    BY DEF L!Settle, L!Terminated
  <2>2. L!Event(k.run, "finished", s) \in Happening
    BY DEF L!Event, Happening, LocalInv, TaskOk, GoodTask, Task
  <2> QED BY <1>1, <2>1, <2>2, TaskMoves DEF L!Event
<1>4. /\ gate' = gate /\ cli' = cli /\ inbox' = inbox /\ ui' = ui /\ window' = window
      /\ work' \subseteq work /\ orphans' = orphans /\ away' = away
  BY DEF L!Settle, L!Hear, LocalInv
<1> QED BY <1>1, <1>2, <1>3, <1>4, KeptParts DEF LocalInv, RunsOk

LEMMA TellT ==
  ASSUME Local, LocalInv, NEW k \in task, L!Tell(k)
  PROVE  LocalInv' /\ Grows
<1> USE DEF L!tables, L!screen, L!history
<1>1. Grows
  BY DEF L!Tell, Grows, Asked, Created, LocalInv
<1>2. InboxOk'
  <2>1. GoodTask(k, Created, Asked)
    BY DEF LocalInv, TaskOk
  <2>2. k.tells \in Happening /\ k.proc \in L!Process /\ Asked \subseteq Asked'
    BY <1>1, <2>1 DEF GoodTask, Task, Grows
  <2> QED BY <1>1, <2>1, <2>2, NewsIsHeard DEF L!Tell, GoodTask
<1>3. UiOk'
  <2>1. GoodTask(k, Created, Asked)
    BY DEF LocalInv, TaskOk
  <2>2. k.tells \in Happening /\ k.proc \in L!Process /\ Asked \subseteq Asked'
    BY <1>1, <2>1 DEF GoodTask, Task, Grows
  <2> QED BY <1>1, <2>1, <2>2, NewsIsHeard DEF L!Tell, GoodTask
<1>4. /\ runs' = runs /\ gate' = gate /\ task' \subseteq task /\ cli' = cli
      /\ window' = window /\ work' \subseteq work /\ orphans' = orphans /\ away' = away
  BY DEF L!Tell, L!Hear, LocalInv
<1> QED BY <1>1, <1>2, <1>3, <1>4, KeptParts DEF LocalInv, RunsOk

LEMMA ForeignT ==
  ASSUME Local, LocalInv, NEW k \in task, L!Foreign(k)
  PROVE  LocalInv' /\ Grows
<1> USE DEF L!tables, L!screen, L!history
<1>1. Grows
  BY DEF L!Foreign, Grows, Asked, Created, LocalInv
<1>2. InboxOk'
  <2>1. PICK s \in {"succeeded", "failed"} : L!Hear(k.proc, L!Event(L!NoRun, "finished", s))
    BY DEF L!Foreign
  <2>2. L!Event(L!NoRun, "finished", s) \in Happening /\ k.proc \in L!Process
    BY DEF L!Event, L!NoRun, L!NoGate, Happening, L!Terminated, LocalInv, TaskOk,
           GoodTask, Task
  <2> QED BY <1>1, <2>1, <2>2, NewsIsHeard DEF L!Event
<1>3. UiOk'
  <2>1. PICK s \in {"succeeded", "failed"} : L!Hear(k.proc, L!Event(L!NoRun, "finished", s))
    BY DEF L!Foreign
  <2>2. L!Event(L!NoRun, "finished", s) \in Happening /\ k.proc \in L!Process
    BY DEF L!Event, L!NoRun, L!NoGate, Happening, L!Terminated, LocalInv, TaskOk,
           GoodTask, Task
  <2> QED BY <1>1, <2>1, <2>2, NewsIsHeard DEF L!Event
<1>4. /\ runs' = runs /\ gate' = gate /\ task' \subseteq task /\ cli' = cli
      /\ window' = window /\ work' \subseteq work /\ orphans' = orphans /\ away' = away
  BY DEF L!Foreign, L!Hear, LocalInv
<1> QED BY <1>1, <1>2, <1>3, <1>4, KeptParts DEF LocalInv, RunsOk

LEMMA EscapeT ==
  ASSUME Local, LocalInv, NEW k \in task, L!Escape(k)
  PROVE  LocalInv' /\ Grows
<1> USE DEF L!tables, L!screen, L!history
<1>1. Grows
  BY DEF L!Escape, Grows, Asked, Created, LocalInv
<1>2. HistoryOk'
  BY <1>1, KeptParts DEF L!Escape, LocalInv, HistoryOk, TaskOk, GoodTask, Created,
         GateOk, CliOk, GoodCommand, WorkOk, GoodWork
<1>3. /\ runs' = runs /\ gate' = gate /\ task' \subseteq task /\ cli' = cli
      /\ inbox' = inbox /\ ui' = ui /\ window' = window /\ work' \subseteq work
  BY DEF L!Escape, L!Hear, LocalInv
<1> QED BY <1>1, <1>2, <1>3, KeptParts DEF LocalInv, RunsOk

LEMMA StreamT ==
  ASSUME Local, LocalInv, NEW t \in Terminal, NEW r \in L!Run,
         NEW c \in {"run", "chat"}, L!StreamRun(t, c, r)
  PROVE  LocalInv' /\ Grows
<1> USE DEF L!tables, L!screen, L!history
<1>1. Grows
  BY DEF L!StreamRun, L!Created, Grows, Asked, Created, L!NextRun, LocalInv, RunsOk
<1>2. RunsOk'
  BY DEF L!StreamRun, L!Created, LocalInv, RunsOk, RowState, L!Process
<1>3. TaskOk'
  <2>1. r \in Created' /\ t \in L!Process
    BY DEF L!StreamRun, L!Created, LocalInv, RunsOk, Created, L!Process
  <2> QED BY <1>1, <2>1, TaskStarts DEF L!StreamRun, L!Created
<1>4. CliOk'
  <2> DEFINE f == [L!Fresh EXCEPT !.pc = "waiting", !.cmd = c, !.run = r]
  <2>1. r \in Created'
    BY DEF L!StreamRun, L!Created, LocalInv, RunsOk, Created
  <2>2. GoodCommand(f, Created', Asked')
    BY <2>1 DEF L!Fresh, L!NoRun, L!NoGate, GoodCommand, Command
  <2> QED BY <1>1, <2>2, CommandMoves DEF L!StreamRun
<1>5. InboxOk'
  <2>1. inbox' = [inbox EXCEPT ![t] = <<>>]
    BY DEF L!StreamRun
  <2> QED BY <1>1, <2>1, MailIsRead
<1>6. /\ gate' = gate /\ ui' = ui /\ window' = window /\ work' \subseteq work
      /\ orphans' = orphans /\ away' = away
  BY DEF L!StreamRun, L!Created, L!Hear, LocalInv
<1> QED BY <1>1, <1>2, <1>3, <1>4, <1>5, <1>6, KeptParts DEF LocalInv, RunsOk

LEMMA HearsT ==
  ASSUME Local, LocalInv, NEW t \in Terminal, L!HearEvent(t)
  PROVE  LocalInv' /\ Grows
<1> USE DEF L!tables, L!screen, L!history
<1>1. Grows
  BY DEF L!HearEvent, L!Hears, Grows, Asked, Created, LocalInv
<1>2. CliOk'
  <2> DEFINE e == Head(inbox[t])
             h == IF e.kind = "awaiting_approval" THEN e.what ELSE 0
             n == IF e.kind = "awaiting_approval" THEN 2
                  ELSE IF e.what = "succeeded" THEN 0 ELSE 1
  <2>1. CASE cli' = cli
    BY <1>1, <2>1, KeptParts
  <2>2. CASE L!Answered(t, e) /\ e.run = cli[t].run
    <3>1. cli' = [cli EXCEPT ![t] =
                    [cli[t] EXCEPT !.pc = "draining", !.gate = h, !.code = n]]
      BY <2>2 DEF L!Answered, L!NoGate, LocalInv, CliOk, Command
    <3>2. e.kind = "awaiting_approval" => e.what \in L!Gate
      BY <1>1, KeptParts, OneLess DEF L!HearEvent, GoodNews, Asked
    <3>3. h \in L!Gate \cup {0} /\ n \in {0, 1, 2, 130}
      BY <3>2
    <3> HIDE DEF h, n
    <3>4. GoodCommand(cli[t], Created', Asked')
      BY <1>1, KeptParts
    <3> DEFINE d == [cli[t] EXCEPT !.pc = "draining", !.gate = h, !.code = n]
    <3>5. GoodCommand(d, Created', Asked')
      <4>0. cli[t] \in Command
        BY <3>4 DEF GoodCommand
      <4>2. d.pc = "draining" /\ d.cmd = cli[t].cmd /\ d.run = cli[t].run
        BY <4>0 DEF Command
      <4>1. d \in Command
        BY <3>3, <4>0 DEF Command
      <4> HIDE DEF d
      <4> QED BY <3>4, <4>1, <4>2 DEF GoodCommand
    <3> QED BY <1>1, <3>1, <3>5, CommandMoves
  <2> QED BY <2>1, <2>2 DEF L!HearEvent
<1>3. InboxOk'
  <2>1. PICK s : /\ inbox' = [inbox EXCEPT ![t] = s]
                 /\ s = <<>> \/ s = Tail(inbox[t])
    BY DEF L!HearEvent, L!Hears
  <2> QED BY <1>1, <2>1, MailIsRead DEF L!HearEvent
<1>4. /\ runs' = runs /\ gate' = gate /\ task' \subseteq task /\ ui' = ui
      /\ window' = window /\ work' \subseteq work /\ orphans' = orphans /\ away' = away
  BY DEF L!HearEvent, L!Hears, L!Hear, LocalInv
<1> QED BY <1>1, <1>2, <1>3, <1>4, KeptParts DEF LocalInv, RunsOk

LEMMA CliT ==
  ASSUME Local, LocalInv, NEW t \in Terminal,
         L!GiveUpWaiting(t) \/ L!Drained(t) \/ L!LeaveChat(t)
  PROVE  LocalInv' /\ Grows
<1> USE DEF L!tables, L!screen, L!history
<1>1. Grows
  BY DEF L!GiveUpWaiting, L!Drained, L!LeaveChat, L!Ended, Grows, Asked, Created, LocalInv
<1>2. CliOk'
  <2>1. GoodCommand(cli[t], Created', Asked') /\ cli[t] \in Command
    BY <1>1, KeptParts DEF LocalInv, CliOk
  <2>2. CASE L!GiveUpWaiting(t)
    <3>1. cli' = [cli EXCEPT ![t] = [cli[t] EXCEPT !.pc = "draining", !.code = 1]]
      BY <2>1, <2>2 DEF L!GiveUpWaiting, L!Ended, LocalInv, CliOk
    <3> QED BY <1>1, <2>1, <3>1, CommandEnds, CommandMoves
  <2>3. CASE L!Drained(t)
    <3> DEFINE p == IF cli[t].cmd # "chat" THEN "exited"
                    ELSE IF cli[t].gate # 0 THEN "asking" ELSE "prompt"
               c == [cli[t] EXCEPT !.pc = p]
    <3>1. cli' = [cli EXCEPT ![t] = c]
      BY <2>1, <2>3 DEF L!Drained, L!NoGate, LocalInv, CliOk, Command
    <3>2. p \in {"exited", "asking", "prompt"} /\ (p # "exited" => cli[t].cmd = "chat")
      OBVIOUS
    <3> HIDE DEF p
    <3>3. c \in Command /\ c.pc = p /\ c.cmd = cli[t].cmd /\ c.run = cli[t].run
      BY <2>1, <3>2 DEF Command
    <3> HIDE DEF c
    <3>4. GoodCommand(c, Created', Asked')
      BY <2>1, <3>2, <3>3 DEF GoodCommand
    <3> QED BY <1>1, <3>1, <3>4, CommandMoves
  <2>4. CASE L!LeaveChat(t)
    <3>1. cli' = [cli EXCEPT ![t] = [cli[t] EXCEPT !.pc = "exited", !.code = 0]]
      BY <2>1, <2>4 DEF L!LeaveChat, LocalInv, CliOk, Command
    <3> QED BY <1>1, <2>1, <3>1, CommandEnds, CommandMoves
  <2> QED BY <2>2, <2>3, <2>4
<1>3. InboxOk'
  <2>1. CASE inbox' = inbox
    BY <1>1, <2>1, KeptParts
  <2>2. CASE inbox' = [inbox EXCEPT ![t] = <<>>]
    BY <1>1, <2>2, MailIsRead
  <2> QED BY <2>1, <2>2 DEF L!GiveUpWaiting, L!Drained, L!LeaveChat
<1>4. /\ runs' = runs /\ gate' = gate /\ task' \subseteq task /\ ui' = ui
      /\ window' = window /\ work' \subseteq work /\ orphans' = orphans /\ away' = away
  BY DEF L!GiveUpWaiting, L!Drained, L!LeaveChat, L!Ended, L!Hear, LocalInv
<1> QED BY <1>1, <1>2, <1>3, <1>4, KeptParts DEF LocalInv, RunsOk

LEMMA DecideReadT ==
  ASSUME Local, LocalInv, NEW t \in Terminal, NEW g \in L!Gate, L!DecideRead(t, g)
  PROVE  LocalInv' /\ Grows
<1> USE DEF L!tables, L!screen, L!history
<1>1. Grows
  BY DEF L!DecideRead, Grows, Asked, Created, LocalInv
<1>2. CliOk'
  <2> DEFINE c == [cli[t] EXCEPT !.pc = "deciding", !.gate = g,
                    !.cmd = IF cli[t].cmd = "chat" THEN "chat" ELSE "decide"]
             d == [cli[t] EXCEPT !.pc = "draining", !.gate = 0, !.code = 1]
  <2>1. cli[t] \in Command /\ GoodCommand(cli[t], Created', Asked')
    BY <1>1, KeptParts DEF LocalInv, CliOk
  <2>2. cli' = [cli EXCEPT ![t] = IF gate[g].status = "pending" THEN c ELSE d]
    BY DEF L!DecideRead, L!NoGate
  <2>3. GoodCommand(d, Created', Asked')
    BY <2>1, CommandAnswers
  <2>4. ASSUME gate[g].status = "pending" PROVE GoodCommand(c, Created', Asked')
    <3>1. g \in Asked'
      BY <1>1, <2>4 DEF Asked, Grows
    <3>2. c \in Command /\ c.pc = "deciding" /\ c.gate = g /\ c.cmd \in {"chat", "decide"}
      BY <2>1 DEF Command
    <3> HIDE DEF c
    <3> QED BY <3>1, <3>2 DEF GoodCommand
  <2> HIDE DEF c, d
  <2> QED BY <1>1, <2>2, <2>3, <2>4, CommandMoves
<1>3. /\ runs' = runs /\ gate' = gate /\ task' \subseteq task /\ inbox' = inbox
      /\ ui' = ui /\ window' = window /\ work' \subseteq work /\ orphans' = orphans
      /\ away' = away
  BY DEF L!DecideRead, L!Hear, LocalInv
<1> QED BY <1>1, <1>2, <1>3, KeptParts DEF LocalInv, RunsOk

LEMMA DecideT ==
  ASSUME Local, LocalInv, NEW t \in Terminal, NEW a \in BOOLEAN, L!Decide(t, a)
  PROVE  LocalInv' /\ Grows
<1> USE DEF L!tables, L!screen, L!history
<1>1. Grows
  BY DEF L!Decide, L!DecideWrite, Grows, Asked, Created, LocalInv
<1>2. GateOk'
  <2> DEFINE g == cli[t].gate
  <2>1. g \in Asked /\ g \in L!Gate
    BY DEF L!Decide, LocalInv, CliOk, GoodCommand, WorkOk, GoodWork, Asked
  <2>2. PICK s \in {"approved", "denied"} : gate' = [gate EXCEPT ![g].status = s]
    BY DEF L!Decide, L!DecideWrite
  <2>3. /\ gate' \in [L!Gate -> [status: {"unused", "pending", "approved", "denied"},
                                  run: L!Run \cup {0}]]
        /\ Asked' = Asked /\ \A h \in L!Gate : gate'[h].run = gate[h].run
    BY <2>1, <2>2 DEF LocalInv, GateOk, Asked
  <2> QED BY <1>1, <2>3 DEF LocalInv, GateOk, Grows, Asked
<1>3. TaskOk'
  <2>1. gate[cli[t].gate].run \in Created /\ t \in L!Process
    BY DEF L!Decide, LocalInv, CliOk, GoodCommand, GateOk, L!Process
  <2> QED BY <1>1, <2>1, TaskStarts DEF L!Decide, L!DecideWrite, Grows
<1>4. CliOk'
  <2> DEFINE c == [cli[t] EXCEPT !.pc = "draining", !.gate = 0, !.code = 0]
  <2>1. cli' = [cli EXCEPT ![t] = c]
    BY DEF L!Decide, L!NoGate, LocalInv, CliOk, Command
  <2>2. GoodCommand(cli[t], Created', Asked') /\ cli[t] \in Command
    BY <1>1, KeptParts DEF LocalInv, CliOk
  <2>3. GoodCommand(c, Created', Asked')
    BY <2>2, CommandAnswers
  <2> QED BY <1>1, <2>1, <2>3, CommandMoves
<1>5. HistoryOk'
  BY <1>1, KeptParts DEF L!Decide, L!DecideWrite, LocalInv, HistoryOk, TaskOk, GoodTask,
         Created, GateOk, CliOk, GoodCommand, WorkOk, GoodWork
<1>6. runs' = runs /\ inbox' = inbox /\ ui' = ui /\ window' = window /\ work' \subseteq work
  BY DEF L!Decide, L!DecideWrite, L!Hear, LocalInv
<1> QED BY <1>1, <1>2, <1>3, <1>4, <1>5, <1>6, KeptParts DEF LocalInv, RunsOk

LEMMA CancelReadT ==
  ASSUME Local, LocalInv, NEW t \in Terminal, NEW r \in L!Run, L!CancelRead(t, r)
  PROVE  LocalInv' /\ Grows
<1> USE DEF L!tables, L!screen, L!history
<1>1. Grows
  BY DEF L!CancelRead, Grows, Asked, Created, LocalInv
<1>2. CliOk'
  <2> DEFINE p == IF runs[r].status \in L!Terminated THEN "draining" ELSE "cancelling"
             s == runs[r].status
             c == [cli[t] EXCEPT !.pc = p, !.cmd = "cancel", !.run = r, !.seen = s]
  <2>1. cli' = [cli EXCEPT ![t] = c]
    BY DEF L!CancelRead, LocalInv, CliOk, Command
  <2>2. /\ cli[t] \in Command /\ r \in Created /\ s \in RowState
        /\ p \in {"draining", "cancelling"}
    BY DEF L!CancelRead, LocalInv, CliOk, RunsOk, Created
  <2> HIDE DEF p, s
  <2>3. c.cmd = "cancel" /\ c.run = r /\ c.pc \in {"draining", "cancelling"}
    BY <2>2 DEF Command
  <2>4. c \in Command
    BY <2>2 DEF Command, Created
  <2> HIDE DEF c
  <2>5. GoodCommand(c, Created', Asked')
    BY <1>1, <2>2, <2>3, <2>4 DEF GoodCommand, Grows
  <2> QED BY <1>1, <2>1, <2>5, CommandMoves
<1>3. /\ runs' = runs /\ gate' = gate /\ task' \subseteq task /\ inbox' = inbox
      /\ ui' = ui /\ window' = window /\ work' \subseteq work /\ orphans' = orphans
      /\ away' = away
  BY DEF L!CancelRead, L!Hear, LocalInv
<1> QED BY <1>1, <1>2, <1>3, KeptParts DEF LocalInv, RunsOk

LEMMA CancelT ==
  ASSUME Local, LocalInv, NEW t \in Terminal, L!Cancel(t)
  PROVE  LocalInv' /\ Grows
<1> USE DEF L!tables, L!screen, L!history
<1>1. Grows
  BY DEF L!Cancel, L!CancelWrite, Grows, Asked, Created, LocalInv, RunsOk, RowState
<1>2. RunsOk'
  <2>1. cli[t].run \in L!Run
    BY DEF L!Cancel, LocalInv, CliOk, GoodCommand, Created
  <2>2. PICK s \in {"cancelled", runs[cli[t].run].status} :
          runs' = [runs EXCEPT ![cli[t].run].cancel = TRUE, ![cli[t].run].status = s]
    BY <2>1 DEF L!Cancel, L!CancelWrite, LocalInv, RunsOk
  <2>3. s \in RowState
    BY <2>1, <2>2 DEF LocalInv, RunsOk, RowState, L!Terminated
  <2> QED BY <2>1, <2>2, <2>3 DEF LocalInv, RunsOk
<1>3. CliOk'
  <2> DEFINE c == [cli[t] EXCEPT !.pc = "draining", !.code = 0]
  <2>1. cli' = [cli EXCEPT ![t] = c]
    BY DEF L!Cancel, L!Ended, LocalInv, CliOk, Command
  <2>2. GoodCommand(cli[t], Created', Asked') /\ cli[t] \in Command
    BY <1>1, KeptParts DEF LocalInv, CliOk
  <2>3. GoodCommand(c, Created', Asked')
    BY <2>2, CommandEnds
  <2> QED BY <1>1, <2>1, <2>3, CommandMoves
<1>4. HistoryOk'
  BY <1>1, KeptParts DEF L!Cancel, L!CancelWrite, LocalInv, HistoryOk, CliOk,
         GoodCommand, Grows
<1>5. /\ gate' = gate /\ task' \subseteq task /\ inbox' = inbox /\ ui' = ui
      /\ window' = window /\ work' \subseteq work
  BY DEF L!Cancel, L!CancelWrite, L!Hear, LocalInv
<1> QED BY <1>1, <1>2, <1>3, <1>4, <1>5, KeptParts DEF LocalInv, RunsOk

LEMMA KillT ==
  ASSUME Local, LocalInv, NEW t \in Terminal, L!Kill(t)
  PROVE  LocalInv' /\ Grows
<1> USE DEF L!tables, L!screen, L!history
<1>1. Grows
  BY DEF L!Kill, L!Killed, L!Of, Grows, Asked, Created, LocalInv
<1>2. CliOk'
  <2> DEFINE c == [cli[t] EXCEPT !.pc = "exited", !.code = 130]
  <2>1. cli' = [cli EXCEPT ![t] = c]
    BY DEF L!Kill, LocalInv, CliOk, Command
  <2>2. GoodCommand(cli[t], Created', Asked') /\ cli[t] \in Command
    BY <1>1, KeptParts DEF LocalInv, CliOk
  <2>3. GoodCommand(c, Created', Asked')
    BY <2>2, CommandEnds
  <2> QED BY <1>1, <2>1, <2>3, CommandMoves
<1>3. InboxOk'
  <2>1. inbox' = [inbox EXCEPT ![t] = <<>>]
    BY DEF L!Kill
  <2> QED BY <1>1, <2>1, MailIsRead
<1>4. HistoryOk'
  BY <1>1, KeptParts DEF L!Kill, L!Killed, L!Of, LocalInv, HistoryOk, TaskOk, GoodTask,
         Created, GateOk, CliOk, GoodCommand, WorkOk, GoodWork
<1>5. /\ runs' = runs /\ gate' = gate /\ task' \subseteq task /\ ui' = ui
      /\ window' = window /\ work' \subseteq work
  BY DEF L!Kill, L!Killed, L!Of, L!Hear, LocalInv
<1> QED BY <1>1, <1>2, <1>3, <1>4, <1>5, KeptParts DEF LocalInv, RunsOk

LEMMA GoneT == ASSUME Local, LocalInv, L!Gone PROVE LocalInv' /\ Grows
<1> USE DEF L!tables, L!screen, L!history
<1>1. Grows
  BY DEF L!Gone, L!Killed, L!Of, Grows, Asked, Created, LocalInv
<1>2. HistoryOk'
  BY <1>1, KeptParts DEF L!Gone, L!Killed, L!Of, LocalInv, HistoryOk, TaskOk, GoodTask,
         Created, GateOk, CliOk, GoodCommand, WorkOk, GoodWork
<1>3. /\ runs' = runs /\ gate' = gate /\ task' \subseteq task /\ cli' = cli
      /\ inbox' = inbox /\ ui' = ui /\ window' = window /\ work' \subseteq work
  BY DEF L!Gone, L!Killed, L!Of, L!Hear, LocalInv
<1> QED BY <1>1, <1>2, <1>3, KeptParts DEF LocalInv, RunsOk

LEMMA BootT == ASSUME Local, LocalInv, L!Boot PROVE LocalInv' /\ Grows
<1> USE DEF L!tables, L!screen, L!history
<1>1. Grows
  BY DEF L!Boot, Grows, Asked, Created, LocalInv
<1>2. UiOk'
  <2>1. L!Error \in Happening /\ L!Error.kind = "error"
    BY DEF L!Error, L!Event, L!NoRun, L!NoGate, Happening
  <2>2. GoodNews(Append(ui, L!Error), Asked') /\ GoodNews(ui, Asked')
    BY <1>1, <2>1, KeptParts, OneMore
  <2> QED BY <2>2 DEF L!Boot, L!Post, UiOk
<1>3. /\ runs' = runs /\ gate' = gate /\ task' \subseteq task /\ cli' = cli
      /\ inbox' = inbox /\ window' = window /\ work' \subseteq work
      /\ orphans' = orphans /\ away' = away
  BY DEF L!Boot, L!Hear, LocalInv
<1> QED BY <1>1, <1>2, <1>3, KeptParts DEF LocalInv, RunsOk

LEMMA SendT == ASSUME Local, LocalInv, L!Send \/ L!Close PROVE LocalInv' /\ Grows
<1> USE DEF L!tables, L!screen, L!history
<1>1. Grows
  BY DEF L!Send, L!Close, Grows, Asked, Created, LocalInv
<1>2. UiOk'
  <2>1. ui' = ui \/ ui' = <<>>
    BY DEF L!Send, L!Close
  <2>2. GoodNews(ui, Asked') /\ GoodNews(<<>>, Asked')
    BY <1>1, KeptParts, NoNews
  <2> QED BY <2>1, <2>2 DEF UiOk
<1>3. WindowOk'
  BY <1>1, KeptParts DEF L!Send, L!Close, LocalInv, WindowOk, UiOk, GoodNews, Happening,
         Asked, L!NoGate
<1>4. WorkOk'
  <2> DEFINE w == [kind |-> "submit", gate |-> 0, approved |-> FALSE]
  <2>1. w \in Work /\ w.kind = "submit"
    BY DEF Work
  <2> HIDE DEF w
  <2>2. work' \subseteq work \cup {w}
    BY DEF L!Send, L!Close, L!NoGate, w
  <2>3. GoodWork(w, Asked')
    BY <2>1 DEF GoodWork
  <2> QED BY <1>1, <2>2, <2>3, KeptParts DEF WorkOk
<1>5. /\ runs' = runs /\ gate' = gate /\ task' \subseteq task /\ cli' = cli
      /\ inbox' = inbox /\ orphans' = orphans /\ away' = away
  BY DEF L!Send, L!Close, L!Hear, LocalInv
<1> QED BY <1>1, <1>2, <1>3, <1>4, <1>5, KeptParts DEF LocalInv, RunsOk

LEMMA ClickT ==
  ASSUME Local, LocalInv, NEW a \in BOOLEAN, L!Click(a)
  PROVE  LocalInv' /\ Grows
<1> USE DEF L!tables, L!screen, L!history
<1>1. Grows
  BY DEF L!Click, Grows, Asked, Created, LocalInv
<1>2. WindowOk'
  BY <1>1, KeptParts DEF L!Click, LocalInv, WindowOk, UiOk, GoodNews, Happening, Asked,
         L!NoGate, L!NoGate
<1>3. WorkOk'
  <2> DEFINE w == [kind |-> "decide", gate |-> window.shown, approved |-> a]
  <2>1. window.shown \in Asked
    BY DEF L!Click, L!NoGate, LocalInv, WindowOk
  <2>2. w \in Work /\ w.gate = window.shown
    BY <2>1 DEF Work, Asked
  <2> HIDE DEF w
  <2>3. GoodWork(w, Asked')
    BY <1>1, <2>1, <2>2 DEF GoodWork, Grows
  <2>4. work' \subseteq work \cup {w}
    BY DEF L!Click, w
  <2> QED BY <1>1, <2>3, <2>4, KeptParts DEF WorkOk
<1>4. /\ runs' = runs /\ gate' = gate /\ task' \subseteq task /\ cli' = cli
      /\ inbox' = inbox /\ ui' = ui /\ orphans' = orphans /\ away' = away
  BY DEF L!Click, L!Hear, LocalInv
<1> QED BY <1>1, <1>2, <1>3, <1>4, KeptParts DEF LocalInv, RunsOk

LEMMA SubmitT ==
  ASSUME Local, LocalInv, NEW w \in work, L!SubmitWork(w)
  PROVE  LocalInv' /\ Grows
<1> USE DEF L!tables, L!screen, L!history
<1>1. Grows
  BY DEF L!SubmitWork, L!Works, L!Over, L!Created, Grows, Asked, Created, L!NextRun,
         LocalInv, RunsOk
<1>2. RunsOk'
  <2>1. PICK r \in L!Run : L!Created(Window, r)
    BY DEF L!SubmitWork
  <2> QED BY <2>1 DEF L!Created, LocalInv, RunsOk, RowState, L!Process
<1>3. TaskOk'
  <2>1. PICK r \in L!Run : L!Created(Window, r)
    BY DEF L!SubmitWork
  <2>2. r \in Created' /\ Window \in L!Process
    BY <2>1 DEF L!Created, LocalInv, RunsOk, Created, L!Process
  <2> QED BY <1>1, <2>1, <2>2, TaskStarts DEF L!Created
<1>4. /\ gate' = gate /\ cli' = cli /\ inbox' = inbox /\ ui' = ui /\ window' = window
      /\ work' \subseteq work /\ orphans' = orphans /\ away' = away
  BY DEF L!SubmitWork, L!Works, L!Over, L!Created, L!Hear, LocalInv
<1> QED BY <1>1, <1>2, <1>3, <1>4, KeptParts DEF LocalInv, RunsOk

LEMMA LoadsT ==
  ASSUME Local, LocalInv, NEW w \in work, L!DecideLoads(w)
  PROVE  LocalInv' /\ Grows
<1> USE DEF L!tables, L!screen, L!history
<1>1. Grows
  BY DEF L!DecideLoads, L!Works, L!Over, Grows, Asked, Created, LocalInv
<1>2. WorkOk'
  BY <1>1, KeptParts DEF L!DecideLoads, L!Works, L!Over, LocalInv, WorkOk, GoodWork,
         Work, WindowOk, L!NoGate
<1>3. /\ runs' = runs /\ gate' = gate /\ task' \subseteq task /\ cli' = cli
      /\ inbox' = inbox /\ ui' = ui /\ window' = window /\ orphans' = orphans
      /\ away' = away
  BY DEF L!DecideLoads, L!Works, L!Over, L!Hear, LocalInv
<1> QED BY <1>1, <1>2, <1>3, KeptParts DEF LocalInv, RunsOk

LEMMA WritesT ==
  ASSUME Local, LocalInv, NEW w \in work, L!DecideWrites(w)
  PROVE  LocalInv' /\ Grows
<1> USE DEF L!tables, L!screen, L!history
<1>1. Grows
  BY DEF L!DecideWrites, L!Works, L!Over, L!DecideWrite, Grows, Asked, Created, LocalInv
<1>2. GateOk'
  <2> DEFINE g == w.gate
  <2>1. g \in Asked /\ g \in L!Gate
    BY DEF L!DecideWrites, LocalInv, CliOk, GoodCommand, WorkOk, GoodWork, Asked
  <2>2. PICK s \in {"approved", "denied"} : gate' = [gate EXCEPT ![g].status = s]
    BY DEF L!DecideWrites, L!DecideWrite
  <2>3. /\ gate' \in [L!Gate -> [status: {"unused", "pending", "approved", "denied"},
                                  run: L!Run \cup {0}]]
        /\ Asked' = Asked /\ \A h \in L!Gate : gate'[h].run = gate[h].run
    BY <2>1, <2>2 DEF LocalInv, GateOk, Asked
  <2> QED BY <1>1, <2>3 DEF LocalInv, GateOk, Grows, Asked
<1>3. TaskOk'
  <2>1. gate[w.gate].run \in Created /\ Window \in L!Process
    BY DEF L!DecideWrites, LocalInv, WorkOk, GoodWork, GateOk, L!Process
  <2> QED BY <1>1, <2>1, TaskStarts DEF L!DecideWrites, L!DecideWrite, Grows
<1>4. HistoryOk'
  BY <1>1, KeptParts DEF L!DecideWrites, L!Works, L!Over, L!DecideWrite, LocalInv,
         HistoryOk, TaskOk, GoodTask, Created, GateOk, CliOk, GoodCommand, WorkOk,
         GoodWork
<1>5. /\ runs' = runs /\ cli' = cli /\ inbox' = inbox /\ ui' = ui /\ window' = window
      /\ work' \subseteq work
  BY DEF L!DecideWrites, L!Works, L!Over, L!DecideWrite, L!Hear, LocalInv
<1> QED BY <1>1, <1>2, <1>3, <1>4, <1>5, KeptParts DEF LocalInv, RunsOk

LEMMA FailsT ==
  ASSUME Local, LocalInv, NEW w \in work, L!WorkFails(w)
  PROVE  LocalInv' /\ Grows
<1> USE DEF L!tables, L!screen, L!history
<1>1. Grows
  BY DEF L!WorkFails, L!Works, L!Over, Grows, Asked, Created, LocalInv
<1>2. UiOk'
  <2>1. L!Error \in Happening /\ L!Error.kind = "error"
    BY DEF L!Error, L!Event, L!NoRun, L!NoGate, Happening
  <2>2. GoodNews(Append(ui, L!Error), Asked') /\ GoodNews(ui, Asked')
    BY <1>1, <2>1, KeptParts, OneMore
  <2> QED BY <2>2 DEF L!WorkFails, L!Post, UiOk
<1>3. /\ runs' = runs /\ gate' = gate /\ task' \subseteq task /\ cli' = cli
      /\ inbox' = inbox /\ window' = window /\ work' \subseteq work
      /\ orphans' = orphans /\ away' = away
  BY DEF L!WorkFails, L!Works, L!Over, L!Hear, LocalInv
<1> QED BY <1>1, <1>2, <1>3, KeptParts DEF LocalInv, RunsOk

LEMMA HandleT == ASSUME Local, LocalInv, L!Handle PROVE LocalInv' /\ Grows
<1> USE DEF L!tables, L!screen, L!history
<1>1. Grows
  BY DEF L!Handle, L!Polls, Grows, Asked, Created, LocalInv
<1>2. UiOk'
  BY <1>1, KeptParts, OneLess DEF L!Handle, L!Polls, UiOk
<1>3. WindowOk'
  <2>1. /\ Head(ui) \in Happening
        /\ Head(ui).kind = "awaiting_approval" => Head(ui).what \in Asked'
    BY <1>1, KeptParts, OneLess DEF L!Handle, L!Polls, GoodNews
  <2> QED BY <1>1, <2>1 DEF L!Handle, LocalInv, WindowOk, Grows, Asked
<1>4. /\ runs' = runs /\ gate' = gate /\ task' \subseteq task /\ cli' = cli
      /\ inbox' = inbox /\ work' \subseteq work /\ orphans' = orphans /\ away' = away
  BY DEF L!Handle, L!Polls, L!Hear, LocalInv
<1> QED BY <1>1, <1>2, <1>3, <1>4, KeptParts DEF LocalInv, RunsOk

LEMMA StutterT == ASSUME Local, LocalInv, UNCHANGED L!vars PROVE LocalInv' /\ Grows
<1> USE DEF L!tables, L!screen, L!history
<1>1. Grows
  BY DEF L!vars, L!screen, Grows, Asked, Created, LocalInv
<1>2. /\ runs' = runs /\ gate' = gate /\ task' \subseteq task /\ cli' = cli
      /\ inbox' = inbox /\ ui' = ui /\ window' = window /\ work' \subseteq work
      /\ orphans' = orphans /\ away' = away
  BY DEF L!vars, L!screen, L!Hear, LocalInv
<1> QED BY <1>1, <1>2, KeptParts DEF LocalInv, RunsOk

LEMMA LocalInvInit == ASSUME Local, L!Init PROVE LocalInv
<1>1. Created = {} /\ Asked = {}
  BY DEF L!Init, Created, Asked
<1>2. RunsOk /\ GateOk /\ TaskOk
  BY <1>1 DEF L!Init, RunsOk, GateOk, TaskOk, RowState, L!NoRun
<1>3. \A t \in Terminal : GoodCommand(L!Fresh, Created, Asked)
  BY DEF L!Fresh, GoodCommand, Command, L!NoRun, L!NoGate
<1>4. CliOk
  BY <1>3 DEF L!Init, CliOk, GoodCommand
<1>5. <<>> \in Seq(Happening) /\ GoodNews(<<>>, Asked)
  BY NoNews DEF GoodNews
<1>6. InboxOk /\ UiOk
  BY <1>5 DEF L!Init, InboxOk, UiOk
<1>7. WindowOk /\ WorkOk /\ HistoryOk
  BY DEF L!Init, WindowOk, WorkOk, HistoryOk, L!NoGate
<1> QED BY <1>2, <1>4, <1>6, <1>7 DEF LocalInv

LEMMA LocalInvStep == ASSUME Local, LocalInv, [L!Next]_(L!vars) PROVE LocalInv' /\ Grows
<1>1. ASSUME NEW k \in task, L!Claim(k) PROVE LocalInv' /\ Grows
  BY <1>1, ClaimT
<1>2. ASSUME NEW k \in task, L!Park(k) PROVE LocalInv' /\ Grows
  BY <1>2, ParkT
<1>3. ASSUME NEW k \in task, L!Settle(k) PROVE LocalInv' /\ Grows
  BY <1>3, SettleT
<1>4. ASSUME NEW k \in task, L!Tell(k) PROVE LocalInv' /\ Grows
  BY <1>4, TellT
<1>5. ASSUME NEW k \in task, L!Foreign(k) PROVE LocalInv' /\ Grows
  BY <1>5, ForeignT
<1>6. ASSUME NEW k \in task, L!Escape(k) PROVE LocalInv' /\ Grows
  BY <1>6, EscapeT
<1>7. ASSUME NEW t \in Terminal, NEW r \in L!Run, NEW c \in {"run", "chat"}, L!StreamRun(t, c, r)
      PROVE LocalInv' /\ Grows
  BY <1>7, StreamT
<1>8. ASSUME NEW t \in Terminal, L!HearEvent(t) PROVE LocalInv' /\ Grows
  BY <1>8, HearsT
<1>9. ASSUME NEW t \in Terminal, L!GiveUpWaiting(t) \/ L!Drained(t) \/ L!LeaveChat(t)
      PROVE LocalInv' /\ Grows
  BY <1>9, CliT
<1>10. ASSUME NEW t \in Terminal, NEW g \in L!Gate, L!DecideRead(t, g)
       PROVE LocalInv' /\ Grows
  BY <1>10, DecideReadT
<1>11. ASSUME NEW t \in Terminal, NEW a \in BOOLEAN, L!Decide(t, a) PROVE LocalInv' /\ Grows
  BY <1>11, DecideT
<1>12. ASSUME NEW t \in Terminal, NEW r \in L!Run, L!CancelRead(t, r)
       PROVE LocalInv' /\ Grows
  BY <1>12, CancelReadT
<1>13. ASSUME NEW t \in Terminal, L!Cancel(t) PROVE LocalInv' /\ Grows
  BY <1>13, CancelT
<1>14. ASSUME NEW t \in Terminal, L!Kill(t) PROVE LocalInv' /\ Grows
  BY <1>14, KillT
<1>15. ASSUME L!Gone PROVE LocalInv' /\ Grows
  BY <1>15, GoneT
<1>16. ASSUME L!Boot PROVE LocalInv' /\ Grows
  BY <1>16, BootT
<1>17. ASSUME L!Send \/ L!Close PROVE LocalInv' /\ Grows
  BY <1>17, SendT
<1>18. ASSUME NEW a \in BOOLEAN, L!Click(a) PROVE LocalInv' /\ Grows
  BY <1>18, ClickT
<1>19. ASSUME NEW w \in work, L!SubmitWork(w) PROVE LocalInv' /\ Grows
  BY <1>19, SubmitT
<1>20. ASSUME NEW w \in work, L!DecideLoads(w) PROVE LocalInv' /\ Grows
  BY <1>20, LoadsT
<1>21. ASSUME NEW w \in work, L!DecideWrites(w) PROVE LocalInv' /\ Grows
  BY <1>21, WritesT
<1>22. ASSUME NEW w \in work, L!WorkFails(w) PROVE LocalInv' /\ Grows
  BY <1>22, FailsT
<1>23. ASSUME L!Handle PROVE LocalInv' /\ Grows
  BY <1>23, HandleT
<1>24. ASSUME UNCHANGED L!vars PROVE LocalInv' /\ Grows
  BY <1>24, StutterT
<1> QED BY <1>1, <1>2, <1>3, <1>4, <1>5, <1>6, <1>7, <1>8, <1>9, <1>10, <1>11, <1>12,
           <1>13, <1>14, <1>15, <1>16, <1>17, <1>18, <1>19, <1>20, <1>21, <1>22, <1>23,
           <1>24
       DEF L!Next, L!Drive, L!Serve, L!Command

-----------------------------------------------------------------------------
(* No run is left without a driver.                                        *)

Starts(r) == \E k \in task : k.run = r /\ k.pc = "start"
Drives(r) == \E k \in task : k.run = r /\ k.pc = "driving"

Driven ==
  \A r \in L!Run :
    /\ runs[r].status = "queued" => r \in orphans \/ Starts(r)
    /\ runs[r].status = "running" => r \in orphans \/ Drives(r)

\* The steps that start no run and take none over.
LEMMA StillDriven ==
  ASSUME Driven, orphans \subseteq orphans',
         \A r \in L!Run : runs'[r].status = runs[r].status \/ runs'[r].status \notin L!Alive,
         \A k \in task : k.pc \in {"start", "driving"} =>
           k \in task' \/ k.run \in orphans' \/ runs'[k.run].status \notin L!Alive
  PROVE  Driven'
<1> SUFFICES ASSUME NEW r \in L!Run, runs'[r].status \in L!Alive, r \notin orphans'
             PROVE  /\ runs'[r].status = "queued" => Starts(r)'
                    /\ runs'[r].status = "running" => Drives(r)'
  BY DEF Driven, L!Alive
<1>1. /\ runs[r].status = "queued" => Starts(r)
      /\ runs[r].status = "running" => Drives(r)
      /\ runs'[r].status = runs[r].status
  BY DEF Driven
<1> QED BY <1>1 DEF Starts, Drives

\* A new run has a task that starts it.
LEMMA BornDriven ==
  ASSUME LocalInv, Driven, NEW p, NEW n \in L!Run, L!Created(p, n), orphans' = orphans
  PROVE  Driven'
<1>1. /\ \A r \in L!Run \ {n} : runs'[r] = runs[r]
      /\ runs'[n].status = "queued"
      /\ task' = task \cup {L!NewTask(p, n, "start")}
  BY DEF L!Created, LocalInv, RunsOk
<1>2. Starts(n)'
  <2>1. /\ L!NewTask(p, n, "start") \in task'
        /\ L!NewTask(p, n, "start").run = n /\ L!NewTask(p, n, "start").pc = "start"
    BY <1>1 DEF L!NewTask
  <2> QED BY <2>1 DEF Starts
<1>3. \A r \in L!Run : (Starts(r) => Starts(r)') /\ (Drives(r) => Drives(r)')
  BY <1>1 DEF Starts, Drives
<1>4. ASSUME NEW r \in L!Run
      PROVE  /\ runs'[r].status = "queued" => r \in orphans' \/ Starts(r)'
             /\ runs'[r].status = "running" => r \in orphans' \/ Drives(r)'
  BY <1>1, <1>2, <1>3 DEF Driven
<1> QED BY <1>4 DEF Driven

\* A task that claims its run drives it; one that does not is needed no more.
LEMMA ClaimDrives ==
  ASSUME LocalInv, Driven, NEW k \in task, L!Claim(k)
  PROVE  Driven'
<1>1. k.run \in L!Run /\ k \in Task /\ orphans' = orphans /\ k.pc \in {"start", "resume"}
  BY DEF L!Claim, L!history, LocalInv, TaskOk, GoodTask, Task
<1>2. CASE /\ runs' = [runs EXCEPT ![k.run].status = "running"]
           /\ L!Step(k, "driving", L!Silent)
           /\ runs[k.run].status = (IF k.pc = "start" THEN "queued" ELSE "awaiting_approval")
  <2>1. [k EXCEPT !.pc = "driving", !.tells = L!Silent] \in task'
    BY <1>2 DEF L!Step
  <2>2. Drives(k.run)'
    BY <1>1, <2>1 DEF Drives, Task
  <2>3. ASSUME NEW r \in L!Run, r # k.run
        PROVE  /\ runs'[r].status = runs[r].status
               /\ Starts(r) => Starts(r)'
               /\ Drives(r) => Drives(r)'
    BY <1>2, <2>3 DEF LocalInv, RunsOk, L!Step, Starts, Drives
  <2>4. runs'[k.run].status = "running"
    BY <1>1, <1>2 DEF LocalInv, RunsOk
  <2>5. ASSUME NEW r \in L!Run
        PROVE  /\ runs'[r].status = "queued" => r \in orphans' \/ Starts(r)'
               /\ runs'[r].status = "running" => r \in orphans' \/ Drives(r)'
    BY <1>1, <2>2, <2>3, <2>4 DEF Driven
  <2> QED BY <2>5 DEF Driven
<1>3. CASE /\ runs' = runs /\ task' = task \ {k}
           /\ runs[k.run].status # (IF k.pc = "start" THEN "queued" ELSE "awaiting_approval")
  <2>1. ASSUME NEW r \in L!Run, runs[r].status = "queued", Starts(r) PROVE Starts(r)'
    BY <1>1, <1>3, <2>1 DEF Starts
  <2>2. ASSUME NEW r \in L!Run, Drives(r) PROVE Drives(r)'
    BY <1>1, <1>3, <2>2 DEF Drives
  <2> QED BY <1>1, <1>3, <2>1, <2>2 DEF Driven
<1> QED BY <1>2, <1>3 DEF L!Claim

LEMMA DrivenStep ==
  ASSUME Local, LocalInv, Driven, [L!Next]_(L!vars)
  PROVE  Driven'
<1> USE DEF L!tables, L!screen, L!history
<1>1. ASSUME NEW k \in task, L!Claim(k) PROVE Driven'
  BY <1>1, ClaimDrives
<1>2. ASSUME NEW k \in task, L!Park(k) \/ L!Settle(k) PROVE Driven'
  <2>1. PICK s \in {"awaiting_approval"} \cup L!Terminated :
          runs' = [runs EXCEPT ![k.run].status = s]
    BY <1>2 DEF L!Park, L!Settle, L!Terminated
  <2>2. orphans' = orphans /\ task \ {k} \subseteq task' /\ k.run \in L!Run
    BY <1>2 DEF L!Park, L!Settle, L!Step, LocalInv, TaskOk, GoodTask, Task
  <2>3. /\ \A r \in L!Run : r # k.run => runs'[r].status = runs[r].status
        /\ runs'[k.run].status \notin L!Alive
    BY <2>1, <2>2 DEF LocalInv, RunsOk, L!Terminated, L!Alive
  <2> QED BY <2>2, <2>3, StillDriven
<1>3. ASSUME NEW k \in task, L!Tell(k) PROVE Driven'
  BY <1>3, StillDriven DEF L!Tell
<1>4. ASSUME NEW k \in task, L!Foreign(k) \/ L!Escape(k) PROVE Driven'
  BY <1>4, StillDriven DEF L!Foreign, L!Escape
<1>5. ASSUME NEW t \in Terminal, NEW r \in L!Run,
             L!StreamRun(t, "run", r) \/ L!StreamRun(t, "chat", r) PROVE Driven'
  BY <1>5, BornDriven DEF L!StreamRun
<1>6. ASSUME NEW w \in work, L!SubmitWork(w) PROVE Driven'
  BY <1>6, BornDriven DEF L!SubmitWork
<1>7. ASSUME NEW t \in Terminal, L!Cancel(t) PROVE Driven'
  <2>1. \A r \in L!Run : runs'[r].status = runs[r].status \/ runs'[r].status = "cancelled"
    BY <1>7 DEF L!Cancel, L!CancelWrite, LocalInv, RunsOk
  <2> QED BY <1>7, <2>1, StillDriven DEF L!Cancel, L!CancelWrite, L!Alive
<1>8. ASSUME UNCHANGED runs, task \subseteq task', orphans \subseteq orphans' PROVE Driven'
  BY <1>8, StillDriven
<1>9. ASSUME UNCHANGED runs, NEW p, L!Killed(p) PROVE Driven'
  <2>1. \A k \in task : k \in task' \/ k.run \in orphans'
    BY <1>9 DEF L!Killed, L!Of
  <2> QED BY <1>9, <2>1, StillDriven DEF L!Killed
<1>10. ASSUME NEW t \in Terminal, L!Kill(t) PROVE Driven'
  BY <1>9, <1>10 DEF L!Kill
<1>11. CASE L!Gone
  BY <1>9, <1>11 DEF L!Gone
<1>12. ASSUME NEW w \in work, L!DecideLoads(w) \/ L!DecideWrites(w) \/ L!WorkFails(w)
       PROVE  Driven'
  BY <1>8, <1>12 DEF L!DecideLoads, L!DecideWrites, L!WorkFails, L!DecideWrite
<1>13. ASSUME NEW t \in Terminal,
              \/ L!HearEvent(t) \/ L!GiveUpWaiting(t) \/ L!Drained(t) \/ L!LeaveChat(t)
              \/ \E g \in L!Gate : L!DecideRead(t, g)
              \/ \E r \in L!Run : L!CancelRead(t, r)
              \/ \E approved \in BOOLEAN : L!Decide(t, approved)
       PROVE  Driven'
  BY <1>8, <1>13 DEF L!HearEvent, L!Hears, L!GiveUpWaiting, L!Drained, L!LeaveChat,
                     L!DecideRead, L!CancelRead, L!Decide, L!DecideWrite
<1>14. CASE \/ L!Boot \/ L!Send \/ L!Handle \/ L!Close \/ UNCHANGED L!vars
            \/ \E approved \in BOOLEAN : L!Click(approved)
  BY <1>8, <1>14 DEF L!Boot, L!Send, L!Handle, L!Close, L!Click, L!vars
<1> QED BY <1>1, <1>2, <1>3, <1>4, <1>5, <1>6, <1>7, <1>10, <1>11, <1>12, <1>13, <1>14
        DEF L!Next, L!Drive, L!Serve, L!Command

\* However many processes share the database, and however their commands end: a
\* run that is queued or running has a task, but for those whose process was
\* killed or closed, or whose task died.
THEOREM RunsAreDriven == Local => (L!Spec => []RunIsDriven)
<1> SUFFICES ASSUME Local PROVE L!Spec => []L!RunIsDriven
  BY DEF RunIsDriven
<1>1. L!Init => LocalInv /\ Driven
  BY LocalInvInit DEF L!Init, Driven
<1>2. LocalInv /\ Driven /\ [L!Next]_(L!vars) => (LocalInv /\ Driven)'
  BY LocalInvStep, DrivenStep
<1>3. LocalInv /\ Driven => L!RunIsDriven
  BY DEF Driven, Starts, Drives, L!RunIsDriven, L!Alive
<1> QED BY <1>1, <1>2, <1>3, PTL DEF L!Spec

-----------------------------------------------------------------------------
(* What is told of a run is so, and stays so.                              *)

OneDriver ==
  \A k \in task : k.pc = "driving" =>
    /\ runs[k.run].status \in {"running", "cancelled"}
    /\ \A l \in task : l.run = k.run /\ l.pc = "driving" => l = k

\* Runs that succeeded, or that were cancelled after they did.
Settled ==
  {r \in L!Run :
     /\ ~Drives(r)
     /\ \/ runs[r].status = "succeeded"
        \/ runs[r].status = "cancelled" /\ runs[r].cancel}

True(e, S, g) ==
  /\ e.kind = "awaiting_approval" => g[e.what].run = e.run
  /\ e.kind = "finished" /\ e.run # 0 /\ e.what = "succeeded" => e.run \in S

TasksTell == 
  \A k \in task : k.pc = "telling" => k.tells.run = k.run /\ True(k.tells, Settled, gate)
MailTells ==
  \A t \in Terminal : \A i \in DOMAIN inbox[t] :
    /\ inbox[t][i].kind \in {"finished", "awaiting_approval"}
    /\ True(inbox[t][i], Settled, gate)
CodeTells(c, S, G, g) ==
  c.cmd = "run" /\ c.pc \in {"draining", "exited"} =>
    /\ c.code = 0 => c.run \in S
    /\ c.code = 2 => c.gate \in G /\ g[c.gate].run = c.run
CodesTell == \A t \in Terminal : CodeTells(cli[t], Settled, Asked, gate)

TellsInv == LocalInv /\ OneDriver /\ TasksTell /\ MailTells /\ CodesTell

\* What was so stays so.
Stays == Grows /\ Settled \subseteq Settled'

LEMMA KeptTells ==
  ASSUME TellsInv, Stays
  PROVE  /\ \A k \in task : k.pc = "telling" =>
               k.tells.run = k.run /\ True(k.tells, Settled', gate')
         /\ task' \subseteq task => TasksTell'
         /\ \A t \in Terminal : \A i \in DOMAIN inbox[t] : True(inbox[t][i], Settled', gate')
         /\ inbox' = inbox => MailTells'
         /\ \A t \in Terminal : CodeTells(cli[t], Settled', Asked', gate')
         /\ cli' = cli => CodesTell'
<1>1. /\ Settled \subseteq Settled' /\ Asked \subseteq Asked'
      /\ \A g \in Asked : gate'[g].run = gate[g].run
  BY DEF Stays, Grows
<1>2. ASSUME NEW e, e.kind = "awaiting_approval" => e.what \in Asked, True(e, Settled, gate)
      PROVE  True(e, Settled', gate')
  BY <1>1, <1>2 DEF True
<1>3. \A k \in task : k.pc = "telling" =>
        k.tells.run = k.run /\ True(k.tells, Settled', gate')
  BY <1>2 DEF TellsInv, TasksTell, LocalInv, TaskOk, GoodTask
<1>4. \A t \in Terminal : \A i \in DOMAIN inbox[t] : True(inbox[t][i], Settled', gate')
  BY <1>2 DEF TellsInv, MailTells, LocalInv, InboxOk, GoodNews
<1>5. \A t \in Terminal : CodeTells(cli[t], Settled', Asked', gate')
  BY <1>1 DEF TellsInv, CodesTell, CodeTells
<1>6. task' \subseteq task => TasksTell'
  BY <1>3 DEF TasksTell
<1>7. inbox' = inbox => MailTells'
  BY <1>4 DEF TellsInv, MailTells
<1>8. cli' = cli => CodesTell'
  BY <1>5 DEF CodesTell
<1> QED BY <1>3, <1>4, <1>5, <1>6, <1>7, <1>8

\* The steps that give no run a driver.
LEMMA NoNewDriver ==
  ASSUME LocalInv, OneDriver,
         \A k \in task' : k.pc = "driving" => k \in task,
         \A r \in L!Run :
           \/ runs'[r] = runs[r]
           \/ ~(\E k \in task' : k.run = r /\ k.pc = "driving") /\ r \notin Settled
           \/ runs'[r].status \in {runs[r].status, "cancelled"} /\ runs'[r].cancel
  PROVE  OneDriver' /\ Settled \subseteq Settled'
<1>1. \A k \in task' : k.pc = "driving" => k \in task /\ k.run \in L!Run
  BY DEF LocalInv, TaskOk, GoodTask, Task
<1>2. \A r \in L!Run : Drives(r)' => Drives(r)
  BY <1>1 DEF Drives
<1>3. OneDriver'
  <2> SUFFICES ASSUME NEW k \in task', k.pc = "driving"
               PROVE  /\ runs'[k.run].status \in {"running", "cancelled"}
                      /\ \A l \in task' : l.run = k.run /\ l.pc = "driving" => l = k
    BY DEF OneDriver
  <2>1. /\ k \in task /\ k.run \in L!Run /\ runs[k.run].status \in {"running", "cancelled"}
        /\ \A l \in task : l.run = k.run /\ l.pc = "driving" => l = k
    BY <1>1 DEF OneDriver
  <2> QED BY <1>1, <2>1
<1>4. ASSUME NEW r \in Settled PROVE r \in Settled'
  BY <1>2, <1>4 DEF Settled
<1> QED BY <1>3, <1>4

LEMMA ClaimTells ==
  ASSUME Local, TellsInv, NEW k \in task, L!Claim(k)
  PROVE  OneDriver' /\ Settled \subseteq Settled'
<1>1. k.run \in L!Run /\ k \in Task
  BY DEF TellsInv, LocalInv, TaskOk, GoodTask, Task
<1>2. CASE /\ runs' = [runs EXCEPT ![k.run].status = "running"]
           /\ L!Step(k, "driving", L!Silent)
           /\ runs[k.run].status \in {"queued", "awaiting_approval"}
  <2> DEFINE d == [k EXCEPT !.pc = "driving", !.tells = L!Silent]
  <2>1. d.run = k.run /\ d.pc = "driving" /\ task' = (task \ {k}) \cup {d}
    BY <1>1, <1>2 DEF L!Step, Task
  <2> HIDE DEF d
  <2>2. /\ runs'[k.run].status = "running"
        /\ \A r \in L!Run : r # k.run => runs'[r] = runs[r]
    BY <1>1, <1>2 DEF TellsInv, LocalInv, RunsOk
  <2>3. \A l \in task : l.run = k.run => l.pc # "driving"
    BY <1>2 DEF TellsInv, OneDriver
  <2>4. \A l \in task : l.run \in L!Run
    BY DEF TellsInv, LocalInv, TaskOk, GoodTask, Task
  <2>5. OneDriver'
    <3> SUFFICES ASSUME NEW l \in task', l.pc = "driving"
                 PROVE  /\ runs'[l.run].status \in {"running", "cancelled"}
                        /\ \A m \in task' : m.run = l.run /\ m.pc = "driving" => m = l
      BY DEF OneDriver
    <3>1. CASE l = d
      BY <2>1, <2>2, <2>3, <3>1
    <3>2. CASE l # d
      <4>1. l \in task /\ l.run # k.run /\ l.run \in L!Run
        BY <2>1, <2>3, <2>4, <3>2
      <4>2. /\ runs[l.run].status \in {"running", "cancelled"}
            /\ \A m \in task : m.run = l.run /\ m.pc = "driving" => m = l
        BY <4>1 DEF TellsInv, OneDriver
      <4> QED BY <2>1, <2>2, <4>1, <4>2
    <3> QED BY <3>1, <3>2
  <2>6. ASSUME NEW r \in Settled PROVE r \in Settled'
    <3>1. r # k.run /\ r \in L!Run /\ ~Drives(r)
      BY <1>2, <2>6 DEF Settled
    <3>2. ~Drives(r)'
      BY <2>1, <3>1 DEF Drives
    <3> QED BY <2>2, <2>6, <3>1, <3>2 DEF Settled
  <2> QED BY <2>5, <2>6
<1>3. CASE runs' = runs /\ task' = task \ {k}
  BY <1>3, NoNewDriver DEF TellsInv
<1> QED BY <1>2, <1>3 DEF L!Claim

\* Who parks or settles a run was its only driver.
LEMMA DriverLeaves ==
  ASSUME Local, TellsInv, NEW k \in task, k.pc = "driving", NEW e, L!Step(k, "telling", e),
         NEW s, runs' = [runs EXCEPT ![k.run].status = s]
  PROVE  /\ OneDriver' /\ Settled \subseteq Settled'
         /\ ~Drives(k.run)'
         /\ \A l \in task' : l \in task \/ (l.run = k.run /\ l.tells = e)
<1> DEFINE d == [k EXCEPT !.pc = "telling", !.tells = e]
<1>1. k.run \in L!Run /\ k \in Task
  BY DEF TellsInv, LocalInv, TaskOk, GoodTask, Task
<1>2. d.run = k.run /\ d.pc = "telling" /\ d.tells = e /\ task' = (task \ {k}) \cup {d}
  BY <1>1 DEF L!Step, Task
<1> HIDE DEF d
<1>3. \A r \in L!Run : r # k.run => runs'[r] = runs[r]
  BY DEF TellsInv, LocalInv, RunsOk
<1>4. \A l \in task' : l.run = k.run => l.pc # "driving"
  BY <1>2 DEF TellsInv, OneDriver
<1>5. k.run \notin Settled
  BY DEF Settled, Drives
<1>6. \A l \in task' : l.pc = "driving" => l \in task
  BY <1>2
<1>7. OneDriver' /\ Settled \subseteq Settled'
  BY <1>3, <1>4, <1>5, <1>6, NoNewDriver DEF TellsInv
<1> QED BY <1>2, <1>4, <1>7 DEF Drives

LEMMA DriversStep ==
  ASSUME Local, TellsInv, [L!Next]_(L!vars)
  PROVE  OneDriver' /\ Settled \subseteq Settled'
<1> USE DEF L!tables, L!screen, L!history
<1>0. LocalInv /\ OneDriver /\ \A k \in task : k \in Task
  BY DEF TellsInv, LocalInv, TaskOk, GoodTask
<1>1. ASSUME NEW k \in task, L!Claim(k) PROVE OneDriver' /\ Settled \subseteq Settled'
  BY <1>1, ClaimTells
<1>2. ASSUME NEW k \in task, L!Park(k) PROVE OneDriver' /\ Settled \subseteq Settled'
  BY <1>2, DriverLeaves DEF L!Park
<1>3. ASSUME NEW k \in task, L!Settle(k) PROVE OneDriver' /\ Settled \subseteq Settled'
  BY <1>3, DriverLeaves DEF L!Settle
<1>4. ASSUME UNCHANGED runs, \A k \in task' : k \in task \/ k.pc # "driving"
      PROVE  OneDriver' /\ Settled \subseteq Settled'
  BY <1>0, <1>4, NoNewDriver
<1>5. ASSUME NEW p, NEW n \in L!Run, L!Created(p, n)
      PROVE  OneDriver' /\ Settled \subseteq Settled'
  <2>1. /\ \A r \in L!Run : r # n => runs'[r] = runs[r]
        /\ runs[n].status = "absent"
        /\ \A k \in task' : k \in task \/ k.pc = "start"
    BY <1>0, <1>5 DEF L!Created, L!NextRun, L!NewTask, LocalInv, RunsOk
  <2>2. ~(\E k \in task' : k.run = n /\ k.pc = "driving") /\ n \notin Settled
    BY <1>0, <2>1 DEF OneDriver, Settled
  <2> QED BY <1>0, <2>1, <2>2, NoNewDriver
<1>6. ASSUME NEW t \in Terminal, L!Cancel(t) PROVE OneDriver' /\ Settled \subseteq Settled'
  <2>1. \A r \in L!Run :
          \/ runs'[r] = runs[r]
          \/ runs'[r].status \in {runs[r].status, "cancelled"} /\ runs'[r].cancel
    BY <1>0, <1>6 DEF L!Cancel, L!CancelWrite, LocalInv, RunsOk
  <2>2. task' = task
    BY <1>6 DEF L!Cancel, L!CancelWrite
  <2> QED BY <1>0, <2>1, <2>2, NoNewDriver
<1>7. ASSUME NEW t \in Terminal, NEW r \in L!Run,
             L!StreamRun(t, "run", r) \/ L!StreamRun(t, "chat", r)
      PROVE  OneDriver' /\ Settled \subseteq Settled'
  BY <1>5, <1>7 DEF L!StreamRun
<1>8. ASSUME NEW w \in work, L!SubmitWork(w) PROVE OneDriver' /\ Settled \subseteq Settled'
  BY <1>5, <1>8 DEF L!SubmitWork
<1>9. ASSUME NEW k \in task, L!Tell(k) \/ L!Foreign(k) \/ L!Escape(k)
      PROVE  OneDriver' /\ Settled \subseteq Settled'
  BY <1>4, <1>9 DEF L!Tell, L!Foreign, L!Escape
<1>10. ASSUME NEW p, NEW g, NEW a, L!DecideWrite(p, g, a)
       PROVE  OneDriver' /\ Settled \subseteq Settled'
  BY <1>4, <1>10 DEF L!DecideWrite, L!NewTask
<1>11. ASSUME NEW w \in work, L!DecideLoads(w) \/ L!DecideWrites(w) \/ L!WorkFails(w)
       PROVE  OneDriver' /\ Settled \subseteq Settled'
  BY <1>4, <1>10, <1>11 DEF L!DecideLoads, L!DecideWrites, L!WorkFails
<1>12. ASSUME NEW t \in Terminal,
              \/ L!HearEvent(t) \/ L!GiveUpWaiting(t) \/ L!Drained(t) \/ L!LeaveChat(t)
              \/ \E g \in L!Gate : L!DecideRead(t, g)
              \/ \E r \in L!Run : L!CancelRead(t, r)
              \/ \E approved \in BOOLEAN : L!Decide(t, approved)
              \/ L!Kill(t)
       PROVE  OneDriver' /\ Settled \subseteq Settled'
  BY <1>4, <1>10, <1>12 DEF L!HearEvent, L!Hears, L!GiveUpWaiting, L!Drained, L!LeaveChat,
                     L!DecideRead, L!CancelRead, L!Decide, L!Kill, L!Killed
<1>13. CASE \/ L!Boot \/ L!Send \/ L!Handle \/ L!Close \/ L!Gone \/ UNCHANGED L!vars
            \/ \E approved \in BOOLEAN : L!Click(approved)
  BY <1>4, <1>13 DEF L!Boot, L!Send, L!Handle, L!Close, L!Gone, L!Killed, L!Click, L!vars
<1> QED BY <1>1, <1>2, <1>3, <1>6, <1>7, <1>8, <1>9, <1>11, <1>12, <1>13
        DEF L!Next, L!Drive, L!Serve, L!Command

\* A task has something to tell.
LEMMA NewsIsTrue ==
  ASSUME TellsInv, Stays, NEW k, NEW e, e.run = k.run, True(e, Settled', gate'),
         \A l \in task' : l \in task \/ (l.run = k.run /\ l.tells = e)
  PROVE  TasksTell'
BY KeptTells DEF TasksTell

\* It is told.
LEMMA MailIsTrue ==
  ASSUME TellsInv, Stays, NEW p \in L!Process, NEW e \in Happening, L!Hear(p, e),
         e.kind \in {"finished", "awaiting_approval"}, True(e, Settled', gate')
  PROVE  MailTells'
<1>1. CASE inbox' = inbox
  BY <1>1, KeptTells
<1>2. CASE p \in Terminal /\ inbox' = [inbox EXCEPT ![p] = Append(@, e)]
  <2>1. inbox \in [Terminal -> Seq(Happening)]
    BY DEF TellsInv, LocalInv, InboxOk
  <2>2. \A t \in Terminal : inbox'[t] = IF t = p THEN Append(inbox[p], e) ELSE inbox[t]
    BY <1>2, <2>1
  <2>3. \A i \in DOMAIN Append(inbox[p], e) :
          Append(inbox[p], e)[i] = e
          \/ (i \in DOMAIN inbox[p] /\ Append(inbox[p], e)[i] = inbox[p][i])
    BY <1>2, <2>1
  <2> SUFFICES ASSUME NEW t \in Terminal, NEW i \in DOMAIN inbox'[t]
               PROVE  /\ inbox'[t][i].kind \in {"finished", "awaiting_approval"}
                      /\ True(inbox'[t][i], Settled', gate')
    BY DEF MailTells
  <2>4. inbox'[t][i] = e \/ (i \in DOMAIN inbox[t] /\ inbox'[t][i] = inbox[t][i])
    BY <1>2, <2>2, <2>3
  <2> QED BY <2>4, KeptTells DEF TellsInv, MailTells
<1> QED BY <1>1, <1>2 DEF L!Hear, L!Process

LEMMA MailStaysTrue ==
  ASSUME TellsInv, Stays, NEW t \in Terminal, NEW s, inbox' = [inbox EXCEPT ![t] = s],
         s = <<>> \/ (inbox[t] # <<>> /\ s = Tail(inbox[t]))
  PROVE  MailTells'
<1>1. inbox \in [Terminal -> Seq(Happening)]
  BY DEF TellsInv, LocalInv, InboxOk
<1>2. \A i \in DOMAIN s : \E j \in DOMAIN inbox[t] : s[i] = inbox[t][j]
  <2>1. DOMAIN <<>> = {}
    OBVIOUS
  <2>2. CASE inbox[t] # <<>> /\ s = Tail(inbox[t])
    <3>1. inbox[t] \in Seq(Happening)
      BY <1>1
    <3>2. \A i \in DOMAIN s : i + 1 \in DOMAIN inbox[t] /\ s[i] = inbox[t][i + 1]
      BY <2>2, <3>1
    <3> QED BY <3>2
  <2> QED BY <2>1, <2>2
<1>3. \A u \in Terminal : \A i \in DOMAIN inbox'[u] :
        \E j \in DOMAIN inbox[u] : inbox'[u][i] = inbox[u][j]
  BY <1>1, <1>2
<1> QED BY <1>3, KeptTells DEF TellsInv, MailTells

\* One command moves on.
LEMMA OneCode ==
  ASSUME TellsInv, Stays, NEW t \in Terminal, \A u \in Terminal \ {t} : cli'[u] = cli[u],
         CodeTells(cli'[t], Settled', Asked', gate')
  PROVE  CodesTell'
BY KeptTells DEF CodesTell

\* A command that runs no goal, or that knows nothing of how it ended.
LEMMA NoCode ==
  ASSUME TellsInv, Stays, NEW t \in Terminal, \A u \in Terminal \ {t} : cli'[u] = cli[u],
         \/ cli'[t].cmd # "run" \/ cli'[t].pc \notin {"draining", "exited"}
         \/ cli'[t].code \notin {0, 2}
  PROVE  CodesTell'
BY OneCode DEF CodeTells

\* What the command of a run makes of an event of it.
LEMMA AnswerTells ==
  ASSUME Local, TellsInv, Stays, NEW t \in Terminal, L!HearEvent(t)
  PROVE  CodesTell'
<1> DEFINE e == Head(inbox[t])
<1>1. CASE cli' = cli
  BY <1>1, KeptTells
<1>2. CASE L!Answered(t, e) /\ e.run = cli[t].run
  <2>1. cli[t] \in Command /\ cli[t].run \in L!Run /\ inbox[t] \in Seq(Happening)
    BY DEF L!HearEvent, L!Hears, TellsInv, LocalInv, CliOk, InboxOk, GoodCommand, Created
  <2>2. /\ 1 \in DOMAIN inbox[t] /\ e = inbox[t][1]
        /\ e.kind = "awaiting_approval" => e.what \in Asked
    BY OneLess DEF L!HearEvent, TellsInv, LocalInv, InboxOk, GoodNews
  <2>3. /\ e.kind \in {"finished", "awaiting_approval"}
        /\ True(e, Settled', gate')
        /\ e.kind = "awaiting_approval" => e.what \in Asked'
    BY <2>2, KeptTells DEF TellsInv, MailTells, Stays, Grows
  <2>4. /\ cli'[t].run = e.run
        /\ cli'[t].gate = IF e.kind = "awaiting_approval" THEN e.what ELSE L!NoGate
        /\ cli'[t].code = IF e.kind = "awaiting_approval" THEN 2
                          ELSE IF e.what = "succeeded" THEN 0 ELSE 1
        /\ \A u \in Terminal \ {t} : cli'[u] = cli[u]
    BY <1>2, <2>1 DEF L!Answered, TellsInv, LocalInv, CliOk, Command
  <2>5. e.run # 0
    BY <1>2, <2>1 DEF L!Run
  <2> HIDE DEF e
  <2>6. CodeTells(cli'[t], Settled', Asked', gate')
    BY <2>3, <2>4, <2>5 DEF CodeTells, True
  <2> QED BY <2>4, <2>6, OneCode
<1> QED BY <1>1, <1>2 DEF L!HearEvent

LEMMA DrainedTells ==
  ASSUME Local, TellsInv, Stays, NEW t \in Terminal, L!Drained(t)
  PROVE  CodesTell'
<1>1. cli[t] \in Command /\ cli \in [Terminal -> Command]
  BY DEF TellsInv, LocalInv, CliOk
<1>2. /\ cli'[t].cmd = cli[t].cmd /\ cli'[t].run = cli[t].run
      /\ cli'[t].gate = cli[t].gate /\ cli'[t].code = cli[t].code
      /\ \A u \in Terminal \ {t} : cli'[u] = cli[u]
  BY <1>1 DEF L!Drained, Command
<1>3. cli[t].pc = "draining" /\ CodeTells(cli[t], Settled', Asked', gate')
  BY KeptTells DEF L!Drained
<1>4. CodeTells(cli'[t], Settled', Asked', gate')
  BY <1>2, <1>3 DEF CodeTells
<1> QED BY <1>2, <1>4, OneCode

LEMMA TellsStep ==
  ASSUME Local, TellsInv, [L!Next]_(L!vars)
  PROVE  TellsInv'
<1> USE DEF L!tables, L!screen, L!history
<1>1. LocalInv' /\ OneDriver' /\ Stays
  BY LocalInvStep, DriversStep DEF TellsInv, Stays
<1> DEFINE Tell == TasksTell' /\ MailTells' /\ CodesTell'
<1>2. /\ task' \subseteq task => TasksTell'
      /\ inbox' = inbox => MailTells'
      /\ cli' = cli => CodesTell'
  BY <1>1, KeptTells
<1>3. /\ cli \in [Terminal -> Command] /\ \A t \in Terminal : cli[t] \in Command
      /\ \A t \in Terminal : GoodCommand(cli[t], Created, Asked)
  BY DEF TellsInv, LocalInv, CliOk
<1>4. \A k \in task : GoodTask(k, Created, Asked) /\ k \in Task
  BY DEF TellsInv, LocalInv, TaskOk, GoodTask
<1>5. ASSUME NEW p, NEW r, NEW where \in {"start", "resume"},
             task' = task \cup {L!NewTask(p, r, where)}
      PROVE  TasksTell'
  <2>1. \A k \in task' : k.pc = "telling" => k \in task
    BY <1>5 DEF L!NewTask
  <2> QED BY <2>1, <1>1, KeptTells DEF TasksTell
<1>6. ASSUME NEW k \in task, L!Claim(k) PROVE Tell
  <2>1. \A l \in task' : l.pc = "telling" => l \in task
    BY <1>4, <1>6 DEF L!Claim, L!Step, Task
  <2>2. TasksTell'
    BY <2>1, <1>1, KeptTells DEF TasksTell
  <2> QED BY <1>2, <1>6, <2>2 DEF L!Claim
<1>7. ASSUME NEW k \in task, L!Park(k) PROVE Tell
  <2>1. PICK g \in L!Gate :
          /\ gate' = [gate EXCEPT ![g] = [status |-> "pending", run |-> k.run]]
          /\ L!Step(k, "telling", L!Event(k.run, "awaiting_approval", g))
    BY <1>7 DEF L!Park
  <2>2. True(L!Event(k.run, "awaiting_approval", g), Settled', gate')
    BY <2>1 DEF True, L!Event, TellsInv, LocalInv, GateOk
  <2>3. \A l \in task' :
          l \in task \/ (l.run = k.run /\ l.tells = L!Event(k.run, "awaiting_approval", g))
    BY <1>7, <2>1, DriverLeaves DEF L!Park
  <2>4. TasksTell'
    BY <1>1, <2>2, <2>3, NewsIsTrue DEF L!Event
  <2> QED BY <1>2, <1>7, <2>4 DEF L!Park
<1>8. ASSUME NEW k \in task, L!Settle(k) PROVE Tell
  <2>1. PICK s \in L!Terminated : /\ runs' = [runs EXCEPT ![k.run].status = s]
                                  /\ L!Step(k, "telling", L!Event(k.run, "finished", s))
    BY <1>8 DEF L!Settle, L!Terminated
  <2>2. /\ ~Drives(k.run)'
        /\ \A l \in task' :
             l \in task \/ (l.run = k.run /\ l.tells = L!Event(k.run, "finished", s))
    BY <1>8, <2>1, DriverLeaves DEF L!Settle
  <2>3. runs'[k.run].status = s /\ k.run \in L!Run
    BY <1>4, <2>1 DEF TellsInv, LocalInv, RunsOk, Task
  <2>4. True(L!Event(k.run, "finished", s), Settled', gate')
    BY <2>2, <2>3 DEF True, L!Event, Settled
  <2>5. TasksTell'
    BY <1>1, <2>2, <2>4, NewsIsTrue DEF L!Event
  <2> QED BY <1>2, <1>8, <2>5 DEF L!Settle
<1>9. ASSUME NEW k \in task, L!Tell(k) PROVE Tell
  <2>1. /\ k.proc \in L!Process /\ k.tells \in Happening
        /\ k.tells.kind \in {"finished", "awaiting_approval"}
    BY <1>4, <1>9 DEF L!Tell, GoodTask, Task
  <2>2. True(k.tells, Settled', gate')
    BY <1>1, <1>9, KeptTells DEF L!Tell
  <2>3. MailTells'
    BY <1>1, <1>9, <2>1, <2>2, MailIsTrue DEF L!Tell
  <2> QED BY <1>2, <1>9, <2>3 DEF L!Tell
<1>10. ASSUME NEW k \in task, L!Foreign(k) PROVE Tell
  <2>1. PICK s \in {"succeeded", "failed"} : L!Hear(k.proc, L!Event(L!NoRun, "finished", s))
    BY <1>10 DEF L!Foreign
  <2>2. k.proc \in L!Process /\ L!Event(L!NoRun, "finished", s) \in Happening
    BY <1>4 DEF Task, L!Event, L!NoRun, Happening, L!Terminated
  <2>3. True(L!Event(L!NoRun, "finished", s), Settled', gate')
    BY DEF True, L!Event, L!NoRun
  <2>4. MailTells'
    BY <1>1, <2>1, <2>2, <2>3, MailIsTrue DEF L!Event
  <2> QED BY <1>2, <1>10, <2>4 DEF L!Foreign
<1>11. ASSUME NEW k \in task, L!Escape(k) PROVE Tell
  BY <1>2, <1>11 DEF L!Escape
<1>12. ASSUME NEW t \in Terminal, NEW r \in L!Run, NEW c \in {"run", "chat"},
              L!StreamRun(t, c, r) PROVE Tell
  <2>1. MailTells'
    BY <1>1, <1>12, MailStaysTrue DEF L!StreamRun
  <2>2. TasksTell'
    BY <1>5, <1>12 DEF L!StreamRun, L!Created
  <2>3. cli'[t].pc = "waiting" /\ \A u \in Terminal \ {t} : cli'[u] = cli[u]
    BY <1>3, <1>12 DEF L!StreamRun, L!Fresh
  <2> QED BY <1>1, <2>1, <2>2, <2>3, NoCode
<1>13. ASSUME NEW t \in Terminal, L!HearEvent(t) PROVE Tell
  <2>1. MailTells'
    BY <1>1, <1>13, MailStaysTrue DEF L!HearEvent, L!Hears
  <2> QED BY <1>1, <1>2, <1>13, <2>1, AnswerTells DEF L!HearEvent, L!Hears
<1>14. ASSUME NEW t \in Terminal, L!GiveUpWaiting(t) PROVE Tell
  <2>1. cli'[t].code = 1 /\ \A u \in Terminal \ {t} : cli'[u] = cli[u]
    BY <1>3, <1>14 DEF L!GiveUpWaiting, L!Ended, Command
  <2>2. MailTells'
    BY <1>1, <1>14, MailStaysTrue DEF L!GiveUpWaiting
  <2> QED BY <1>1, <1>2, <1>14, <2>1, <2>2, NoCode DEF L!GiveUpWaiting
<1>15. ASSUME NEW t \in Terminal, L!Drained(t) PROVE Tell
  BY <1>1, <1>2, <1>15, DrainedTells DEF L!Drained
<1>16. ASSUME NEW t \in Terminal, L!LeaveChat(t) PROVE Tell
  <2>1. cli'[t].cmd # "run" /\ \A u \in Terminal \ {t} : cli'[u] = cli[u]
    BY <1>3, <1>16 DEF L!LeaveChat, Command, GoodCommand
  <2> QED BY <1>1, <1>2, <1>16, <2>1, NoCode DEF L!LeaveChat
<1>17. ASSUME NEW t \in Terminal, NEW g \in L!Gate, L!DecideRead(t, g) PROVE Tell
  <2>1. cli[t] \in Command /\ cli[t].cmd # "run"
    BY <1>3, <1>17 DEF L!DecideRead, GoodCommand
  <2>2. cli'[t].cmd # "run" /\ \A u \in Terminal \ {t} : cli'[u] = cli[u]
    BY <1>3, <1>17, <2>1 DEF L!DecideRead, Command
  <2> QED BY <1>1, <1>2, <1>17, <2>2, NoCode DEF L!DecideRead
<1>18. ASSUME NEW t \in Terminal, NEW a \in BOOLEAN, L!Decide(t, a) PROVE Tell
  <2>1. cli'[t].cmd # "run" /\ \A u \in Terminal \ {t} : cli'[u] = cli[u]
    BY <1>3, <1>18 DEF L!Decide, Command, GoodCommand
  <2> QED BY <1>1, <1>2, <1>5, <1>18, <2>1, NoCode DEF L!Decide, L!DecideWrite
<1>19. ASSUME NEW t \in Terminal, NEW r \in L!Run, L!CancelRead(t, r) PROVE Tell
  <2>1. cli'[t].cmd # "run" /\ \A u \in Terminal \ {t} : cli'[u] = cli[u]
    BY <1>3, <1>19 DEF L!CancelRead, Command
  <2> QED BY <1>1, <1>2, <1>19, <2>1, NoCode DEF L!CancelRead
<1>20. ASSUME NEW t \in Terminal, L!Cancel(t) PROVE Tell
  <2>1. cli'[t].cmd # "run" /\ \A u \in Terminal \ {t} : cli'[u] = cli[u]
    BY <1>3, <1>20 DEF L!Cancel, L!Ended, Command, GoodCommand
  <2> QED BY <1>1, <1>2, <1>20, <2>1, NoCode DEF L!Cancel, L!CancelWrite
<1>21. ASSUME NEW t \in Terminal, L!Kill(t) PROVE Tell
  <2>1. cli'[t].code = 130 /\ \A u \in Terminal \ {t} : cli'[u] = cli[u]
    BY <1>3, <1>21 DEF L!Kill, Command
  <2>2. MailTells'
    BY <1>1, <1>21, MailStaysTrue DEF L!Kill
  <2>3. TasksTell'
    BY <1>2, <1>21 DEF L!Kill, L!Killed
  <2>4. CodesTell'
    BY <1>1, <2>1, NoCode
  <2> QED BY <2>2, <2>3, <2>4
<1>22. ASSUME NEW w \in work, L!SubmitWork(w) \/ L!DecideWrites(w) PROVE Tell
  BY <1>2, <1>5, <1>22 DEF L!SubmitWork, L!DecideWrites, L!Works, L!Created, L!DecideWrite
<1>23. ASSUME NEW w \in work, L!DecideLoads(w) \/ L!WorkFails(w) PROVE Tell
  BY <1>2, <1>23 DEF L!DecideLoads, L!WorkFails, L!Works
<1>24. ASSUME NEW a \in BOOLEAN, L!Click(a) PROVE Tell
  BY <1>2, <1>24 DEF L!Click
<1>25. ASSUME L!Boot \/ L!Send \/ L!Handle \/ L!Close \/ L!Gone PROVE Tell
  <2>1. task' \subseteq task /\ inbox' = inbox /\ cli' = cli
    BY <1>25 DEF L!Boot, L!Send, L!Handle, L!Close, L!Gone, L!Killed
  <2> QED BY <1>2, <2>1
<1>26. ASSUME UNCHANGED L!vars PROVE Tell
  BY <1>2, <1>26 DEF L!vars
<1> HIDE DEF Tell
<1>27. ASSUME NEW t \in Terminal, L!Command(t) PROVE Tell
  BY <1>12, <1>13, <1>14, <1>15, <1>16, <1>17, <1>18, <1>19, <1>20, <1>21, <1>27
     DEF L!Command
<1>28. Tell
  BY <1>6, <1>7, <1>8, <1>9, <1>10, <1>11, <1>22, <1>23, <1>24, <1>25,
     <1>26, <1>27 DEF L!Next, L!Drive, L!Serve
<1> QED BY <1>1, <1>28 DEF TellsInv, Tell

\* The exit code of a command that ran a goal is about its own run, whatever other
\* runs of the workspace ended or were parked while it waited: 0 only if that run
\* succeeded, 2 only with a request of that run.
THEOREM ExitCodesTell == Local => (L!Spec => []ExitTells)
<1> SUFFICES ASSUME Local PROVE L!Spec => []L!ExitTells
  BY DEF ExitTells
<1>1. L!Init => TellsInv
  <2> SUFFICES ASSUME L!Init PROVE TellsInv
    OBVIOUS
  <2>1. DOMAIN <<>> = {}
    OBVIOUS
  <2>2. OneDriver /\ TasksTell /\ MailTells
    BY <2>1 DEF L!Init, OneDriver, TasksTell, MailTells
  <2>3. CodesTell
    BY DEF L!Init, L!Fresh, CodesTell, CodeTells
  <2> QED BY <2>2, <2>3, LocalInvInit DEF TellsInv
<1>2. TellsInv /\ [L!Next]_(L!vars) => TellsInv'
  BY TellsStep
<1>3. TellsInv => L!ExitTells
  BY DEF TellsInv, CodesTell, CodeTells, Settled, L!ExitTells
<1> QED BY <1>1, <1>2, <1>3, PTL DEF L!Spec

-----------------------------------------------------------------------------
(* The Send button.                                                        *)

Noted(e, r) == e.kind = "awaiting_approval" /\ e.run = r
Orders(w, r, G) == w.kind \in {"decide", "write"} /\ G[w.gate].run = r
Shows(g, r, G) == g # 0 /\ G[g].run = r
Waits(g, G, status) == status = "awaiting_approval" /\ G[g].status = "pending"

\* A run of the window is in one place: with its task, in a message to the UI
\* thread, on the screen, or in a click that is being worked on ...
OnePlace(r, T, U, W, g, G) ==
  /\ \A k, l \in T : k.run = r /\ l.run = r => k = l
  /\ \A i, j \in DOMAIN U : Noted(U[i], r) /\ Noted(U[j], r) => i = j
  /\ \A v, w \in W : Orders(v, r, G) /\ Orders(w, r, G) => v = w
  /\ \A k \in T : k.run = r =>
       /\ \A i \in DOMAIN U : ~Noted(U[i], r)
       /\ \A w \in W : ~Orders(w, r, G)
       /\ ~Shows(g, r, G)
  /\ \A i \in DOMAIN U : Noted(U[i], r) =>
       (\A w \in W : ~Orders(w, r, G)) /\ ~Shows(g, r, G)
  /\ \A w \in W : Orders(w, r, G) => ~Shows(g, r, G)

\* ... and what is there agrees with its row and with its request.
TaskAgrees(k, G, status) ==
  /\ k.pc = "start" => status = "queued"
  /\ k.pc = "resume" => status = "awaiting_approval"
  /\ k.pc = "telling" /\ k.tells.kind = "awaiting_approval"
       => Waits(k.tells.what, G, status)
Agrees(r, T, U, W, g, G, status) ==
  /\ \A k \in T : k.run = r => TaskAgrees(k, G, status)
  /\ \A i \in DOMAIN U : Noted(U[i], r) => Waits(U[i].what, G, status)
  /\ \A w \in W : Orders(w, r, G) => Waits(w.gate, G, status)
  /\ Shows(g, r, G) => Waits(g, G, status)

Turn(r, T, U, W, g, G, status) ==
  OnePlace(r, T, U, W, g, G) /\ Agrees(r, T, U, W, g, G, status)

\* Nobody else has decided or cancelled it, and its task did not die.
Untouched(r) == r \in Created /\ runs[r].by = Window /\ r \notin away \cup orphans

Turns ==
  window.open => \A r \in L!Run :
    Untouched(r) => Turn(r, task, ui, work, window.shown, gate, runs[r].status)

\* What the window works on, hears of and shows are runs of its own, and who else
\* drives one of them has decided it.
Mine ==
  /\ \A k \in task : k.proc = Window => runs[k.run].by = Window
  /\ \A k \in task : k.proc # Window /\ runs[k.run].by = Window => k.run \in away
  /\ \A i \in DOMAIN ui : ui[i].kind = "awaiting_approval" =>
       /\ gate[ui[i].what].run = ui[i].run
       /\ ui[i].run \in Created /\ runs[ui[i].run].by = Window
  /\ \A w \in work : w.kind \in {"decide", "write"} => runs[gate[w.gate].run].by = Window
  /\ window.shown # 0 => runs[gate[window.shown].run].by = Window

LEMMA TurnRests ==
  ASSUME NEW r, NEW T, NEW U, NEW W, NEW g, NEW G, NEW status,
         Turn(r, T, U, W, g, G, status),
         NEW T2, NEW U2, NEW W2, NEW g2, NEW G2,
         \A k \in T2 : k.run = r => k \in T,
         NEW d \in Nat,
         \A i \in DOMAIN U2 : i \in Nat,
         \A i \in DOMAIN U2 : Noted(U2[i], r) => i + d \in DOMAIN U /\ U[i + d] = U2[i],
         \A w \in W2 : Orders(w, r, G2) =>
           w \in W /\ Orders(w, r, G) /\ G2[w.gate] = G[w.gate],
         Shows(g2, r, G2) => g2 = g /\ Shows(g, r, G) /\ G2[g] = G[g],
         \A k \in T : k.run = r /\ k.pc = "telling" /\ k.tells.kind = "awaiting_approval"
           => G2[k.tells.what] = G[k.tells.what],
         \A i \in DOMAIN U : Noted(U[i], r) => G2[U[i].what] = G[U[i].what]
  PROVE  Turn(r, T2, U2, W2, g2, G2, status)
<1>1. OnePlace(r, T2, U2, W2, g2, G2)
  <2>1. \A i, j \in DOMAIN U2 : Noted(U2[i], r) /\ Noted(U2[j], r) => i = j
    <3> SUFFICES ASSUME NEW i \in DOMAIN U2, NEW j \in DOMAIN U2,
                        Noted(U2[i], r), Noted(U2[j], r)
                 PROVE  i = j
      OBVIOUS
    <3>1. i + d = j + d
      BY DEF Turn, OnePlace
    <3> QED BY <3>1
  <2>2. \A i \in DOMAIN U2 : Noted(U2[i], r) => \E j \in DOMAIN U : Noted(U[j], r)
    OBVIOUS
  <2> QED BY <2>1, <2>2 DEF Turn, OnePlace
<1>2. Agrees(r, T2, U2, W2, g2, G2, status)
  <2>1. \A i \in DOMAIN U2 : Noted(U2[i], r) => Waits(U2[i].what, G2, status)
    BY DEF Turn, Agrees, Waits
  <2>2. \A k \in T2 : k.run = r => TaskAgrees(k, G2, status)
    BY DEF Turn, Agrees, TaskAgrees, Waits
  <2>3. \A w \in W2 : Orders(w, r, G2) => Waits(w.gate, G2, status)
    BY DEF Turn, Agrees, Waits
  <2>4. Shows(g2, r, G2) => Waits(g2, G2, status)
    BY DEF Turn, Agrees, Waits
  <2> QED BY <2>1, <2>2, <2>3, <2>4 DEF Agrees
<1> QED BY <1>1, <1>2 DEF Turn

\* Runs keep who created them, and histories what they have.
Remembers ==
  /\ \A r \in Created : runs'[r].by = runs[r].by
  /\ away \subseteq away' /\ orphans \subseteq orphans'

LEMMA HistoryGrows ==
  ASSUME LocalInv, [L!Next]_(L!vars)
  PROVE  Remembers
<1> USE DEF L!tables, L!screen, L!history
<1>1. runs \in [L!Run -> [status: RowState, cancel: BOOLEAN, by: L!Process \cup {0}]]
  BY DEF LocalInv, RunsOk
<1>2. ASSUME UNCHANGED <<runs, away, orphans>> PROVE Remembers
  BY <1>2 DEF Remembers
<1>3. ASSUME NEW k \in task, L!Claim(k) \/ L!Park(k) \/ L!Settle(k) PROVE Remembers
  <2>1. \/ runs' = runs
        \/ \E s : runs' = [runs EXCEPT ![k.run].status = s]
    BY <1>3 DEF L!Claim, L!Park, L!Settle
  <2>2. away' = away /\ orphans' = orphans
    BY <1>3 DEF L!Claim, L!Park, L!Settle
  <2>3. \A r \in L!Run : runs'[r].by = runs[r].by
    <3>1. CASE runs' = runs
      BY <3>1
    <3>2. ASSUME NEW s, runs' = [runs EXCEPT ![k.run].status = s],
                 NEW r \in L!Run
          PROVE  runs'[r].by = runs[r].by
      BY <1>1, <3>2
    <3> QED BY <2>1, <3>1, <3>2
  <2> QED BY <2>2, <2>3 DEF Remembers, Created
<1>4. ASSUME NEW p, NEW r \in L!Run, L!Created(p, r), UNCHANGED <<away, orphans>>
      PROVE  Remembers
  BY <1>1, <1>4 DEF L!Created, L!NextRun, Remembers, Created
<1>5. ASSUME NEW k \in task, L!Tell(k) \/ L!Foreign(k) \/ L!Escape(k) PROVE Remembers
  BY <1>5 DEF L!Tell, L!Foreign, L!Escape, Remembers
<1>6. ASSUME NEW p, L!Killed(p), UNCHANGED <<runs, away>> PROVE Remembers
  BY <1>6 DEF L!Killed, Remembers
<1>7. ASSUME NEW p, NEW g, NEW a, L!DecideWrite(p, g, a) PROVE Remembers
  BY <1>7 DEF L!DecideWrite, Remembers
<1>8. ASSUME NEW r, NEW s, L!CancelWrite(r, s) PROVE Remembers
  BY <1>1, <1>8 DEF L!CancelWrite, Remembers, Created
<1>9. ASSUME NEW t \in Terminal, L!Command(t) PROVE Remembers
  <2>1. CASE \E r \in L!Run : L!StreamRun(t, "run", r) \/ L!StreamRun(t, "chat", r)
    BY <1>4, <2>1 DEF L!StreamRun
  <2>2. CASE (\E a \in BOOLEAN : L!Decide(t, a)) \/ L!Cancel(t) \/ L!Kill(t)
    BY <1>6, <1>7, <1>8, <2>2 DEF L!Decide, L!Cancel, L!Kill
  <2>3. CASE \/ L!HearEvent(t) \/ L!GiveUpWaiting(t) \/ L!Drained(t) \/ L!LeaveChat(t)
             \/ \E g \in L!Gate : L!DecideRead(t, g)
             \/ \E r \in L!Run : L!CancelRead(t, r)
    BY <1>2, <2>3 DEF L!HearEvent, L!Hears, L!GiveUpWaiting, L!Drained, L!LeaveChat,
                      L!DecideRead, L!CancelRead
  <2> QED BY <1>9, <2>1, <2>2, <2>3 DEF L!Command
<1>10. ASSUME NEW w \in work,
              L!SubmitWork(w) \/ L!DecideLoads(w) \/ L!DecideWrites(w) \/ L!WorkFails(w)
       PROVE  Remembers
  BY <1>2, <1>4, <1>7, <1>10
     DEF L!SubmitWork, L!DecideLoads, L!DecideWrites, L!WorkFails
<1>11. CASE \/ L!Boot \/ L!Send \/ L!Handle \/ L!Close \/ L!Gone \/ UNCHANGED L!vars
            \/ \E a \in BOOLEAN : L!Click(a)
  BY <1>2, <1>6, <1>11 DEF L!Boot, L!Send, L!Handle, L!Close, L!Gone, L!Click, L!vars
<1> QED BY <1>3, <1>5, <1>9, <1>10, <1>11 DEF L!Next, L!Drive, L!Serve

-----------------------------------------------------------------------------
(* What the window has in hand is its own.                                 *)

LEMMA OwnKeep ==
  ASSUME TellsInv, Mine, Grows, Remembers
  PROVE  /\ task' \subseteq task =>
              /\ \A k \in task' : k.proc = Window => runs'[k.run].by = Window
              /\ \A k \in task' : k.proc # Window /\ runs'[k.run].by = Window
                   => k.run \in away'
         /\ \A k \in task : k.proc = Window => runs'[k.run].by = Window
         /\ \A k \in task : k.proc # Window /\ runs'[k.run].by = Window
              => k.run \in away'
         /\ \A i \in DOMAIN ui : ui[i].kind = "awaiting_approval" =>
              /\ gate'[ui[i].what].run = ui[i].run
              /\ ui[i].run \in Created' /\ runs'[ui[i].run].by = Window
         /\ \A w \in work : w.kind \in {"decide", "write"}
              => runs'[gate'[w.gate].run].by = Window
         /\ window.shown # 0 => runs'[gate'[window.shown].run].by = Window
<1>1. /\ Created \subseteq Created' /\ Asked \subseteq Asked'
      /\ \A g \in Asked : gate'[g].run = gate[g].run /\ gate[g].run \in Created
      /\ \A r \in Created : runs'[r].by = runs[r].by
      /\ away \subseteq away'
  BY DEF Grows, Remembers, TellsInv, LocalInv, GateOk
<1>2. /\ \A k \in task : k.run \in Created
      /\ \A i \in DOMAIN ui : ui[i].kind = "awaiting_approval" => ui[i].what \in Asked
      /\ \A w \in work : w.kind \in {"decide", "write"} => w.gate \in Asked
      /\ window.shown # 0 => window.shown \in Asked
  BY DEF TellsInv, LocalInv, TaskOk, GoodTask, UiOk, GoodNews, WorkOk, GoodWork, WindowOk
<1>3. /\ \A k \in task : k.proc = Window => runs'[k.run].by = Window
      /\ \A k \in task : k.proc # Window /\ runs'[k.run].by = Window => k.run \in away'
  BY <1>1, <1>2 DEF Mine
<1>4. \A i \in DOMAIN ui : ui[i].kind = "awaiting_approval" =>
        /\ gate'[ui[i].what].run = ui[i].run
        /\ ui[i].run \in Created' /\ runs'[ui[i].run].by = Window
  BY <1>1, <1>2 DEF Mine
<1>5. /\ \A w \in work : w.kind \in {"decide", "write"}
           => runs'[gate'[w.gate].run].by = Window
      /\ window.shown # 0 => runs'[gate'[window.shown].run].by = Window
  BY <1>1, <1>2 DEF Mine
<1> QED BY <1>3, <1>4, <1>5

\* What holds of each thing that a step adds is enough.
LEMMA MineKeeps ==
  ASSUME TellsInv, Mine, Grows, Remembers,
         \A k \in task' : \/ \E l \in task : k.proc = l.proc /\ k.run = l.run
                          \/ /\ k.proc = Window => runs'[k.run].by = Window
                             /\ k.proc # Window /\ runs'[k.run].by = Window
                                  => k.run \in away',
         \A i \in DOMAIN ui' : ui'[i].kind = "awaiting_approval" =>
           \/ \E j \in DOMAIN ui : ui'[i] = ui[j]
           \/ /\ gate'[ui'[i].what].run = ui'[i].run
              /\ ui'[i].run \in Created' /\ runs'[ui'[i].run].by = Window,
         \A w \in work' : w.kind \in {"decide", "write"} =>
           \/ \E v \in work : v.kind \in {"decide", "write"} /\ v.gate = w.gate
           \/ runs'[gate'[w.gate].run].by = Window,
         window'.shown # 0 =>
           window'.shown = window.shown \/ runs'[gate'[window'.shown].run].by = Window
  PROVE  Mine'
<1>1. /\ \A k \in task' : k.proc = Window => runs'[k.run].by = Window
      /\ \A k \in task' : k.proc # Window /\ runs'[k.run].by = Window => k.run \in away'
  BY OwnKeep
<1>2. \A i \in DOMAIN ui' : ui'[i].kind = "awaiting_approval" =>
        /\ gate'[ui'[i].what].run = ui'[i].run
        /\ ui'[i].run \in Created' /\ runs'[ui'[i].run].by = Window
  BY OwnKeep
<1>3. /\ \A w \in work' : w.kind \in {"decide", "write"}
           => runs'[gate'[w.gate].run].by = Window
      /\ window'.shown # 0 => runs'[gate'[window'.shown].run].by = Window
  BY OwnKeep
<1> QED BY <1>1, <1>2, <1>3 DEF Mine

\* What a bus carries: an item of its queue is an old one, or the new one.
LEMMA HeardItems ==
  ASSUME LocalInv, NEW p, NEW e, L!Hear(p, e)
  PROVE  \A i \in DOMAIN ui' :
           (i \in DOMAIN ui /\ ui'[i] = ui[i]) \/ (p = Window /\ ui'[i] = e)
<1>1. ui \in Seq(Happening)
  BY DEF LocalInv, UiOk, GoodNews
<1>2. ui' = ui \/ (p = Window /\ ui' = Append(ui, e))
  BY DEF L!Hear
<1> QED BY <1>1, <1>2

LEMMA PostedItems ==
  ASSUME LocalInv, NEW e, L!Post(e)
  PROVE  \A i \in DOMAIN ui' : (i \in DOMAIN ui /\ ui'[i] = ui[i]) \/ ui'[i] = e
<1>1. ui \in Seq(Happening)
  BY DEF LocalInv, UiOk, GoodNews
<1> QED BY <1>1 DEF L!Post

LEMMA PolledItems ==
  ASSUME LocalInv, L!Polls
  PROVE  /\ ui # <<>> /\ 1 \in DOMAIN ui /\ Head(ui) = ui[1]
         /\ \A i \in DOMAIN ui' :
              i \in Nat \ {0} /\ i + 1 \in DOMAIN ui /\ ui'[i] = ui[i + 1]
         /\ \A i \in DOMAIN ui : i # 1 => i - 1 \in DOMAIN ui' /\ ui'[i - 1] = ui[i]
<1>1. ui \in Seq(Happening)
  BY DEF LocalInv, UiOk, GoodNews
<1> QED BY <1>1 DEF L!Polls

LEMMA MineStep ==
  ASSUME Local, TellsInv, Mine, Grows, Remembers, [L!Next]_(L!vars)
  PROVE  Mine'
<1> USE DEF L!tables, L!screen, L!history
<1>1. LocalInv /\ \A k \in task : k \in Task /\ k.run \in Created
  BY DEF TellsInv, LocalInv, TaskOk, GoodTask
<1>2. ASSUME UNCHANGED <<ui, window>>, work' \subseteq work,
             \A k \in task' : \/ \E l \in task : k.proc = l.proc /\ k.run = l.run
                              \/ /\ k.proc = Window => runs'[k.run].by = Window
                                 /\ k.proc # Window /\ runs'[k.run].by = Window
                                      => k.run \in away'
      PROVE  Mine'
  BY <1>2, MineKeeps
<1>3. ASSUME NEW k \in task, L!Claim(k) \/ L!Park(k) \/ L!Settle(k) PROVE Mine'
  <2>1. \A l \in task' : \E m \in task : l.proc = m.proc /\ l.run = m.run
    <3>1. \/ task' \subseteq task
          \/ \E where, e : task' = (task \ {k}) \cup {[k EXCEPT !.pc = where, !.tells = e]}
      BY <1>3 DEF L!Claim, L!Park, L!Settle, L!Step
    <3>2. ASSUME NEW where, NEW e,
                 task' = (task \ {k}) \cup {[k EXCEPT !.pc = where, !.tells = e]}
          PROVE  \A l \in task' : \E m \in task : l.proc = m.proc /\ l.run = m.run
      <4> DEFINE n == [k EXCEPT !.pc = where, !.tells = e]
      <4>1. n.proc = k.proc /\ n.run = k.run
        BY <1>1 DEF Task
      <4>2. \A l \in task' : l \in task \/ l = n
        BY <3>2
      <4> HIDE DEF n
      <4> QED BY <4>1, <4>2
    <3>3. task' \subseteq task => \A l \in task' : \E m \in task : l.proc = m.proc /\ l.run = m.run
      OBVIOUS
    <3> QED BY <3>1, <3>2, <3>3
  <2>2. UNCHANGED <<ui, window, work>>
    BY <1>3 DEF L!Claim, L!Park, L!Settle
  <2> QED BY <1>2, <2>1, <2>2
<1>4. ASSUME NEW k \in task, L!Tell(k) PROVE Mine'
  <2>1. /\ L!Hear(k.proc, k.tells) /\ task' = task \ {k} /\ k.pc = "telling"
        /\ UNCHANGED <<runs, gate, window, work>>
    BY <1>4 DEF L!Tell
  <2>2. k.tells.kind = "awaiting_approval" =>
          gate[k.tells.what].run = k.run /\ k.tells.run = k.run
    BY <2>1 DEF TellsInv, TasksTell, True
  <2>3. k.run \in Created' /\ (k.proc = Window => runs'[k.run].by = Window)
    BY <1>1, OwnKeep DEF Grows
  <2>4. \A i \in DOMAIN ui' : ui'[i].kind = "awaiting_approval" =>
          \/ \E j \in DOMAIN ui : ui'[i] = ui[j]
          \/ /\ gate'[ui'[i].what].run = ui'[i].run
             /\ ui'[i].run \in Created' /\ runs'[ui'[i].run].by = Window
    BY <1>1, <2>1, <2>2, <2>3, HeardItems
  <2> QED BY <2>1, <2>4, MineKeeps
<1>5. ASSUME NEW k \in task, L!Foreign(k) PROVE Mine'
  <2>1. PICK state \in {"succeeded", "failed"} :
          L!Hear(k.proc, L!Event(L!NoRun, "finished", state))
    BY <1>5 DEF L!Foreign
  <2>2. \A i \in DOMAIN ui' : ui'[i].kind = "awaiting_approval" =>
          \E j \in DOMAIN ui : ui'[i] = ui[j]
    BY <1>1, <2>1, HeardItems DEF L!Event
  <2>3. UNCHANGED <<task, window, work>>
    BY <1>5 DEF L!Foreign
  <2> QED BY <2>2, <2>3, MineKeeps
<1>6. ASSUME NEW k \in task, L!Escape(k) PROVE Mine'
  BY <1>2, <1>6 DEF L!Escape
<1>7. ASSUME NEW q, NEW r \in L!Run, L!Created(q, r), UNCHANGED <<ui, window>>,
             work' \subseteq work
      PROVE  Mine'
  <2>1. runs'[r].by = q
    BY <1>1, <1>7 DEF L!Created, LocalInv, RunsOk
  <2>2. L!NewTask(q, r, "start").proc = q /\ L!NewTask(q, r, "start").run = r
    BY DEF L!NewTask
  <2> QED BY <1>2, <1>7, <2>1, <2>2 DEF L!Created
<1>8. ASSUME NEW t \in Terminal, L!Decide(t, TRUE) \/ L!Decide(t, FALSE) PROVE Mine'
  <2>1. PICK g : /\ task' = task \cup {L!NewTask(t, gate[g].run, "resume")}
                 /\ away' = away \cup {gate[g].run}
    BY <1>8 DEF L!Decide, L!DecideWrite, Local
  <2>2. /\ L!NewTask(t, gate[g].run, "resume").proc = t
        /\ L!NewTask(t, gate[g].run, "resume").run = gate[g].run
    BY DEF L!NewTask
  <2>3. UNCHANGED <<ui, window, work>> /\ t # Window
    BY <1>8 DEF L!Decide, Local
  <2> QED BY <1>2, <2>1, <2>2, <2>3
<1>9. ASSUME NEW t \in Terminal, L!Cancel(t) \/ L!Kill(t) PROVE Mine'
  <2>1. task' \subseteq task /\ UNCHANGED <<ui, window, work>>
    BY <1>9 DEF L!Cancel, L!CancelWrite, L!Kill, L!Killed
  <2> QED BY <1>2, <2>1
<1>10. ASSUME NEW t \in Terminal, L!Command(t) PROVE Mine'
  <2>1. CASE \E r \in L!Run : L!StreamRun(t, "run", r) \/ L!StreamRun(t, "chat", r)
    BY <1>7, <2>1 DEF L!StreamRun
  <2>2. CASE (\E a \in BOOLEAN : L!Decide(t, a)) \/ L!Cancel(t) \/ L!Kill(t)
    BY <1>8, <1>9, <2>2
  <2>3. CASE \/ L!HearEvent(t) \/ L!GiveUpWaiting(t) \/ L!Drained(t) \/ L!LeaveChat(t)
             \/ \E g \in L!Gate : L!DecideRead(t, g)
             \/ \E r \in L!Run : L!CancelRead(t, r)
    <3>1. UNCHANGED <<task, ui, window, work>>
      BY <2>3 DEF L!HearEvent, L!Hears, L!GiveUpWaiting, L!Drained, L!LeaveChat,
                  L!DecideRead, L!CancelRead
    <3> QED BY <1>2, <3>1
  <2> QED BY <1>10, <2>1, <2>2, <2>3 DEF L!Command
<1>11. ASSUME NEW w \in work, L!SubmitWork(w) PROVE Mine'
  BY <1>7, <1>11 DEF L!SubmitWork, L!Works, L!Over
<1>12. ASSUME NEW w \in work, L!DecideLoads(w) PROVE Mine'
  <2>1. w \in Work
    BY <1>1 DEF LocalInv, WorkOk, GoodWork
  <2>2. /\ UNCHANGED <<task, ui, window>> /\ w.kind = "decide"
        /\ work' \subseteq work \cup {[w EXCEPT !.kind = "write"]}
    BY <1>12 DEF L!DecideLoads, L!Works, L!Over
  <2>3. [w EXCEPT !.kind = "write"].gate = w.gate
    BY <2>1 DEF Work
  <2> QED BY <2>2, <2>3, MineKeeps
<1>13. ASSUME NEW w \in work, L!DecideWrites(w) PROVE Mine'
  <2>1. /\ task' = task \cup {L!NewTask(Window, gate[w.gate].run, "resume")}
        /\ UNCHANGED <<ui, window>> /\ work' \subseteq work /\ w.kind = "write"
        /\ gate' = [gate EXCEPT ![w.gate].status =
                      IF w.approved THEN "approved" ELSE "denied"]
    BY <1>13 DEF L!DecideWrites, L!DecideWrite, L!Works, L!Over
  <2>2. /\ L!NewTask(Window, gate[w.gate].run, "resume").proc = Window
        /\ L!NewTask(Window, gate[w.gate].run, "resume").run = gate[w.gate].run
    BY DEF L!NewTask
  <2>3. runs'[gate'[w.gate].run].by = Window
    BY <2>1, OwnKeep
  <2>4. gate'[w.gate].run = gate[w.gate].run
    BY <1>1, <2>1 DEF LocalInv, WorkOk, GoodWork, Grows
  <2> QED BY <1>2, <2>1, <2>2, <2>3, <2>4
<1>14. ASSUME NEW e, L!Post(e), e.kind = "error", UNCHANGED <<task, window>>,
              work' \subseteq work
       PROVE  Mine'
  <2>1. \A i \in DOMAIN ui' : ui'[i].kind = "awaiting_approval" =>
          \E j \in DOMAIN ui : ui'[i] = ui[j]
    BY <1>1, <1>14, PostedItems
  <2> QED BY <1>14, <2>1, MineKeeps
<1>15. L!Error.kind = "error"
  BY DEF L!Error, L!Event
<1>16. ASSUME NEW w \in work, L!WorkFails(w) PROVE Mine'
  BY <1>14, <1>15, <1>16 DEF L!WorkFails, L!Works, L!Over
<1>17. CASE L!Boot
  BY <1>2, <1>14, <1>15, <1>17 DEF L!Boot
<1>18. CASE L!Send
  <2>1. /\ UNCHANGED <<task, ui>> /\ window'.shown = window.shown
        /\ \A w \in work' : w \in work \/ w.kind = "submit"
    BY <1>1, <1>18 DEF L!Send, LocalInv, WindowOk
  <2> QED BY <2>1, MineKeeps
<1>19. ASSUME NEW a \in BOOLEAN, L!Click(a) PROVE Mine'
  <2>1. /\ UNCHANGED <<task, ui, gate, runs>> /\ window.shown # 0 /\ window'.shown = 0
        /\ \A w \in work' : w \in work \/ w.gate = window.shown
    BY <1>1, <1>19 DEF L!Click, L!NoGate, LocalInv, WindowOk
  <2>2. runs'[gate'[window.shown].run].by = Window
    BY <2>1, OwnKeep
  <2> QED BY <2>1, <2>2, MineKeeps
<1>20. CASE L!Handle
  <2>1. /\ L!Polls /\ UNCHANGED <<task, work, gate, runs>>
        /\ window'.shown = IF Head(ui).kind = "awaiting_approval"
                             THEN Head(ui).what ELSE window.shown
    BY <1>1, <1>20 DEF L!Handle, LocalInv, WindowOk
  <2>2. /\ 1 \in DOMAIN ui /\ Head(ui) = ui[1]
        /\ \A i \in DOMAIN ui' : \E j \in DOMAIN ui : ui'[i] = ui[j]
    BY <1>1, <2>1, PolledItems
  <2>3. window'.shown # 0 =>
          window'.shown = window.shown \/ runs'[gate'[window'.shown].run].by = Window
    BY <2>1, <2>2, OwnKeep
  <2> QED BY <2>1, <2>2, <2>3, MineKeeps
<1>21. CASE L!Close
  <2>1. UNCHANGED <<task, work>> /\ ui' = <<>> /\ window'.shown = window.shown
    BY <1>1, <1>21 DEF L!Close, LocalInv, WindowOk
  <2>2. DOMAIN <<>> = {}
    OBVIOUS
  <2>3. DOMAIN ui' = {}
    BY <2>1, <2>2
  <2> QED BY <2>1, <2>3, MineKeeps
<1>22. CASE L!Gone \/ UNCHANGED L!vars
  <2>1. task' \subseteq task /\ UNCHANGED <<ui, window>> /\ work' \subseteq work
    BY <1>22 DEF L!Gone, L!Killed, L!vars
  <2> QED BY <1>2, <2>1
<1> QED BY <1>3, <1>4, <1>5, <1>6, <1>10, <1>11, <1>12, <1>13, <1>16, <1>17, <1>18,
           <1>19, <1>20, <1>21, <1>22 DEF L!Next, L!Drive, L!Serve

-----------------------------------------------------------------------------
(* A run of the window is in one place, which it leaves for the next.      *)

\* Its task goes on.
LEMMA TurnGoesOn ==
  ASSUME NEW r, NEW T, NEW U, NEW W, NEW g, NEW G, NEW status,
         Turn(r, T, U, W, g, G, status),
         NEW k \in T, k.run = r, NEW n, n.run = r, NEW G2, NEW status2,
         \A w \in W : Orders(w, r, G2) => Orders(w, r, G),
         Shows(g, r, G2) => Shows(g, r, G),
         TaskAgrees(n, G2, status2)
  PROVE  Turn(r, (T \ {k}) \cup {n}, U, W, g, G2, status2)
<1>1. /\ \A l \in (T \ {k}) \cup {n} : l.run = r => l = n
      /\ \A i \in DOMAIN U : ~Noted(U[i], r)
      /\ \A w \in W : ~Orders(w, r, G2)
      /\ ~Shows(g, r, G2)
  BY DEF Turn, OnePlace
<1>2. OnePlace(r, (T \ {k}) \cup {n}, U, W, g, G2)
  BY <1>1 DEF OnePlace
<1>3. Agrees(r, (T \ {k}) \cup {n}, U, W, g, G2, status2)
  BY <1>1 DEF Agrees
<1> QED BY <1>2, <1>3 DEF Turn

\* Its task tells the window, and is over.
LEMMA TurnIsTold ==
  ASSUME NEW r, NEW T, NEW U \in Seq(Happening), NEW W, NEW g, NEW G, NEW status,
         Turn(r, T, U, W, g, G, status),
         NEW k \in T, k.run = r, k.pc = "telling", k.tells \in Happening
  PROVE  Turn(r, T \ {k}, Append(U, k.tells), W, g, G, status)
<1> DEFINE U2 == Append(U, k.tells)
<1>1. /\ \A l \in T \ {k} : l.run # r
      /\ \A i \in DOMAIN U : ~Noted(U[i], r)
      /\ \A w \in W : ~Orders(w, r, G)
      /\ ~Shows(g, r, G)
  BY DEF Turn, OnePlace
<1>2. \A i \in DOMAIN U2 : U2[i] = IF i = Len(U) + 1 THEN k.tells ELSE U[i]
  OBVIOUS
<1>3. \A i \in DOMAIN U2 : i # Len(U) + 1 => i \in DOMAIN U
  OBVIOUS
<1>4. \A i \in DOMAIN U2 : Noted(U2[i], r) => i = Len(U) + 1 /\ U2[i] = k.tells
  BY <1>1, <1>2, <1>3
<1> HIDE DEF U2
<1>5. OnePlace(r, T \ {k}, U2, W, g, G)
  BY <1>1, <1>4 DEF OnePlace
<1>6. Agrees(r, T \ {k}, U2, W, g, G, status)
  BY <1>1, <1>4 DEF Agrees, Turn, TaskAgrees, Noted
<1> QED BY <1>5, <1>6 DEF Turn, U2

\* The message is handled: its request is on the screen.
LEMMA TurnIsShown ==
  ASSUME NEW r, NEW T, NEW U, NEW W, NEW g, NEW G, NEW status,
         Turn(r, T, U, W, g, G, status), 1 \in DOMAIN U, Noted(U[1], r),
         NEW U2, \A i \in DOMAIN U2 : i \in Nat \ {0},
         \A i \in DOMAIN U2 : i + 1 \in DOMAIN U /\ U2[i] = U[i + 1]
  PROVE  Turn(r, T, U2, W, U[1].what, G, status)
<1>1. /\ \A k \in T : k.run # r
      /\ \A i \in DOMAIN U : Noted(U[i], r) => i = 1
      /\ \A w \in W : ~Orders(w, r, G)
      /\ Waits(U[1].what, G, status)
  BY DEF Turn, OnePlace, Agrees
<1>2. \A i \in DOMAIN U2 : ~Noted(U2[i], r)
  <2> SUFFICES ASSUME NEW i \in DOMAIN U2, Noted(U2[i], r) PROVE FALSE
    OBVIOUS
  <2>1. i + 1 = 1
    BY <1>1
  <2> QED BY <2>1
<1>3. OnePlace(r, T, U2, W, U[1].what, G)
  BY <1>1, <1>2 DEF OnePlace
<1>4. Agrees(r, T, U2, W, U[1].what, G, status)
  BY <1>1, <1>2 DEF Agrees
<1> QED BY <1>3, <1>4 DEF Turn

\* A button is clicked: the decision is what the window works on.
LEMMA TurnIsClicked ==
  ASSUME NEW r, NEW T, NEW U, NEW W, NEW g, NEW G, NEW status,
         Turn(r, T, U, W, g, G, status), Shows(g, r, G), NEW w, w.gate = g
  PROVE  Turn(r, T, U, W \cup {w}, 0, G, status)
<1>1. /\ \A k \in T : k.run # r
      /\ \A i \in DOMAIN U : ~Noted(U[i], r)
      /\ \A v \in W \cup {w} : Orders(v, r, G) => v = w
      /\ ~Shows(0, r, G) /\ Waits(g, G, status)
  BY DEF Turn, OnePlace, Agrees, Shows
<1>2. OnePlace(r, T, U, W \cup {w}, 0, G)
  BY <1>1 DEF OnePlace
<1>3. Agrees(r, T, U, W \cup {w}, 0, G, status)
  BY <1>1 DEF Agrees
<1> QED BY <1>2, <1>3 DEF Turn

\* The request is loaded ...
LEMMA TurnIsLoaded ==
  ASSUME NEW r, NEW T, NEW U, NEW W, NEW g, NEW G, NEW status,
         Turn(r, T, U, W, g, G, status), NEW w \in W, Orders(w, r, G),
         NEW v, v.gate = w.gate
  PROVE  Turn(r, T, U, (W \ {w}) \cup {v}, g, G, status)
<1>1. /\ \A k \in T : k.run # r
      /\ \A i \in DOMAIN U : ~Noted(U[i], r)
      /\ \A u \in (W \ {w}) \cup {v} : Orders(u, r, G) => u = v
      /\ ~Shows(g, r, G) /\ Waits(v.gate, G, status)
  BY DEF Turn, OnePlace, Agrees
<1>2. OnePlace(r, T, U, (W \ {w}) \cup {v}, g, G)
  BY <1>1 DEF OnePlace
<1>3. Agrees(r, T, U, (W \ {w}) \cup {v}, g, G, status)
  BY <1>1 DEF Agrees
<1> QED BY <1>2, <1>3 DEF Turn

\* ... and decided: a task resumes the run.
LEMMA TurnIsDecided ==
  ASSUME NEW r, NEW T, NEW U, NEW W, NEW g, NEW G, NEW status,
         Turn(r, T, U, W, g, G, status), NEW w \in W, Orders(w, r, G),
         NEW n, n.pc = "resume", NEW G2,
         \A v \in W : Orders(v, r, G2) => Orders(v, r, G),
         Shows(g, r, G2) => Shows(g, r, G)
  PROVE  Turn(r, T \cup {n}, U, W \ {w}, g, G2, status)
<1>1. /\ \A k \in T \cup {n} : k.run = r => k = n
      /\ \A i \in DOMAIN U : ~Noted(U[i], r)
      /\ \A v \in W \ {w} : ~Orders(v, r, G2)
      /\ ~Shows(g, r, G2) /\ status = "awaiting_approval"
  BY DEF Turn, OnePlace, Agrees, Waits
<1>2. OnePlace(r, T \cup {n}, U, W \ {w}, g, G2)
  BY <1>1 DEF OnePlace
<1>3. Agrees(r, T \cup {n}, U, W \ {w}, g, G2, status)
  BY <1>1 DEF Agrees, TaskAgrees
<1> QED BY <1>2, <1>3 DEF Turn

\* A run is born with its task.
LEMMA TurnBegins ==
  ASSUME NEW r, NEW T, NEW U, NEW W, NEW g, NEW G,
         \A k \in T : k.run # r, \A i \in DOMAIN U : ~Noted(U[i], r),
         \A w \in W : ~Orders(w, r, G), ~Shows(g, r, G),
         NEW n, n.pc = "start"
  PROVE  Turn(r, T \cup {n}, U, W, g, G, "queued")
BY DEF Turn, OnePlace, Agrees, TaskAgrees

\* A step that is not about a run of the window leaves it where it is.
LEMMA RunRests ==
  ASSUME TellsInv, Mine, Grows, NEW r \in Created,
         Turn(r, task, ui, work, window.shown, gate, runs[r].status),
         runs'[r].status = runs[r].status,
         \A k \in task' : k.run = r => k \in task,
         NEW d \in Nat,
         \A i \in DOMAIN ui' :
           i \in Nat /\ (Noted(ui'[i], r) => i + d \in DOMAIN ui /\ ui[i + d] = ui'[i]),
         \A w \in work' : Orders(w, r, gate') => w \in work,
         Shows(window'.shown, r, gate') => window'.shown = window.shown,
         \A g \in Asked : gate[g].run = r => gate'[g] = gate[g]
  PROVE  Turn(r, task', ui', work', window'.shown, gate', runs'[r].status)
<1>1. /\ \A g \in Asked : gate'[g].run = gate[g].run
      /\ \A w \in work : w.kind \in {"decide", "write"} => w.gate \in Asked
      /\ window.shown # 0 => window.shown \in Asked
      /\ \A i \in DOMAIN ui : ui[i].kind = "awaiting_approval" => ui[i].what \in Asked
      /\ \A k \in task : k.tells.kind = "awaiting_approval" => k.tells.what \in Asked
  BY DEF Grows, TellsInv, LocalInv, WorkOk, GoodWork, WindowOk, UiOk, GoodNews, TaskOk,
         GoodTask
<1>2. /\ \A i \in DOMAIN ui : Noted(ui[i], r) => gate[ui[i].what].run = r
      /\ \A k \in task : /\ k.run = r /\ k.pc = "telling"
                         /\ k.tells.kind = "awaiting_approval"
                         => gate[k.tells.what].run = r
  BY DEF Mine, Noted, TellsInv, TasksTell, True
<1>3. /\ \A w \in work' : Orders(w, r, gate') =>
           w \in work /\ Orders(w, r, gate) /\ gate'[w.gate] = gate[w.gate]
      /\ Shows(window'.shown, r, gate') =>
           /\ window'.shown = window.shown /\ Shows(window.shown, r, gate)
           /\ gate'[window.shown] = gate[window.shown]
  BY <1>1 DEF Orders, Shows
<1>4. /\ \A k \in task : /\ k.run = r /\ k.pc = "telling"
                         /\ k.tells.kind = "awaiting_approval"
                         => gate'[k.tells.what] = gate[k.tells.what]
      /\ \A i \in DOMAIN ui : Noted(ui[i], r) => gate'[ui[i].what] = gate[ui[i].what]
  BY <1>1, <1>2 DEF Noted
<1> QED BY <1>3, <1>4, TurnRests

-----------------------------------------------------------------------------
LEMMA Newborn ==
  ASSUME LocalInv, [L!Next]_(L!vars), NEW r \in L!Run, r \notin Created, r \in Created'
  PROVE  \/ \E w \in work : L!SubmitWork(w) /\ L!Created(Window, r)
         \/ \E t \in Terminal : L!Created(t, r)
<1> USE DEF L!tables, L!screen, L!history
<1>1. /\ runs \in [L!Run -> [status: RowState, cancel: BOOLEAN, by: L!Process \cup {0}]]
      /\ runs' # runs /\ runs[r].status = "absent" /\ runs'[r].status # "absent"
      /\ \A k \in task : k.run \in Created
  BY DEF LocalInv, RunsOk, TaskOk, GoodTask, Created
<1>2. ASSUME NEW k \in task, L!Claim(k) \/ L!Park(k) \/ L!Settle(k) PROVE FALSE
  <2>1. runs' = runs \/ \E s : runs' = [runs EXCEPT ![k.run].status = s]
    BY <1>2 DEF L!Claim, L!Park, L!Settle
  <2>2. k.run # r
    BY <1>1
  <2> QED BY <1>1, <2>1, <2>2
<1>3. ASSUME NEW t \in Terminal, L!Cancel(t) PROVE FALSE
  <2>1. cli[t].run \in Created
    BY <1>3 DEF L!Cancel, LocalInv, CliOk, GoodCommand
  <2>2. cli[t].run # r
    BY <2>1
  <2> QED BY <1>1, <1>3, <2>2 DEF L!Cancel, L!CancelWrite
<1>4. ASSUME NEW p, NEW q \in L!Run, L!Created(p, q) PROVE q = r
  BY <1>1, <1>4 DEF L!Created
<1>5. ASSUME NEW t \in Terminal, L!Command(t) PROVE L!Created(t, r)
  <2>1. CASE \E q \in L!Run : L!StreamRun(t, "run", q) \/ L!StreamRun(t, "chat", q)
    BY <1>4, <2>1 DEF L!StreamRun
  <2>2. CASE \/ L!HearEvent(t) \/ L!GiveUpWaiting(t) \/ L!Drained(t) \/ L!LeaveChat(t)
             \/ \E g \in L!Gate : L!DecideRead(t, g)
             \/ \E q \in L!Run : L!CancelRead(t, q)
             \/ \E a \in BOOLEAN : L!Decide(t, a)
             \/ L!Kill(t)
    BY <1>1, <2>2 DEF L!HearEvent, L!Hears, L!GiveUpWaiting, L!Drained, L!LeaveChat,
                      L!DecideRead, L!CancelRead, L!Decide, L!DecideWrite, L!Kill
  <2> QED BY <1>3, <1>5, <2>1, <2>2 DEF L!Command
<1>6. ASSUME NEW w \in work, L!SubmitWork(w) PROVE L!Created(Window, r)
  BY <1>4, <1>6 DEF L!SubmitWork
<1>7. ASSUME NEW w \in work, L!DecideLoads(w) \/ L!DecideWrites(w) \/ L!WorkFails(w)
      PROVE  FALSE
  BY <1>1, <1>7 DEF L!DecideLoads, L!DecideWrites, L!DecideWrite, L!WorkFails
<1>8. ASSUME NEW k \in task, L!Tell(k) \/ L!Foreign(k) \/ L!Escape(k) PROVE FALSE
  BY <1>1, <1>8 DEF L!Tell, L!Foreign, L!Escape
<1>9. ~(\/ L!Boot \/ L!Send \/ L!Handle \/ L!Close \/ L!Gone \/ UNCHANGED L!vars
        \/ \E a \in BOOLEAN : L!Click(a))
  BY <1>1 DEF L!Boot, L!Send, L!Handle, L!Close, L!Gone, L!Click, L!vars
<1> QED BY <1>2, <1>5, <1>6, <1>7, <1>8, <1>9 DEF L!Next, L!Drive, L!Serve

\* The run a task claims, drives or tells of.
LEMMA TurnOfTask ==
  ASSUME TellsInv, Mine, Grows, NEW r \in Created,
         Turn(r, task, ui, work, window.shown, gate, runs[r].status),
         NEW k \in task, L!Claim(k) \/ L!Park(k) \/ L!Settle(k)
  PROVE  Turn(r, task', ui', work', window'.shown, gate', runs'[r].status)
<1> USE DEF L!tables, L!screen, L!history
<1>1. /\ k \in Task /\ ui \in Seq(Happening) /\ r \in L!Run
      /\ runs \in [L!Run -> [status: RowState, cancel: BOOLEAN, by: L!Process \cup {0}]]
      /\ gate \in [L!Gate -> [status: {"unused", "pending", "approved", "denied"},
                              run: L!Run \cup {0}]]
  BY DEF TellsInv, LocalInv, TaskOk, GoodTask, UiOk, GoodNews, RunsOk, GateOk, Created
<1>2. UNCHANGED <<ui, work, window>>
  BY DEF L!Claim, L!Park, L!Settle
<1>3. /\ \A w \in work : Orders(w, r, gate') => Orders(w, r, gate)
      /\ Shows(window.shown, r, gate') => Shows(window.shown, r, gate)
  BY DEF Orders, Shows, Grows, TellsInv, LocalInv, WorkOk, GoodWork, WindowOk
<1>4. \A g \in Asked : gate'[g] = gate[g]
  BY <1>1 DEF L!Claim, L!Park, L!Settle, L!NextGate, Asked
<1>5. ASSUME runs'[r].status = runs[r].status, \A l \in task' : l.run = r => l \in task
      PROVE  Turn(r, task', ui', work', window'.shown, gate', runs'[r].status)
  <2>1. \A i \in DOMAIN ui' : i \in Nat /\ i + 0 \in DOMAIN ui /\ ui[i + 0] = ui'[i]
    BY <1>1, <1>2
  <2> QED BY <1>2, <1>4, <1>5, <2>1, RunRests
<1>6. ASSUME NEW n, n.run = k.run, task' = (task \ {k}) \cup {n}, k.run = r,
             TaskAgrees(n, gate', runs'[r].status)
      PROVE  Turn(r, task', ui', work', window'.shown, gate', runs'[r].status)
  BY <1>2, <1>3, <1>6, TurnGoesOn
<1>7. ASSUME L!Claim(k)
      PROVE  Turn(r, task', ui', work', window'.shown, gate', runs'[r].status)
  <2>1. CASE runs' = runs /\ task' = task \ {k}
    BY <1>5, <2>1
  <2>2. CASE /\ runs' = [runs EXCEPT ![k.run].status = "running"]
             /\ L!Step(k, "driving", L!Silent)
    <3> DEFINE n == [k EXCEPT !.pc = "driving", !.tells = L!Silent]
    <3>1. n.run = k.run /\ n.pc = "driving" /\ task' = (task \ {k}) \cup {n}
      BY <1>1, <2>2 DEF Task, L!Step
    <3> HIDE DEF n
    <3>2. TaskAgrees(n, gate', runs'[r].status)
      BY <3>1 DEF TaskAgrees
    <3>3. k.run # r => runs'[r].status = runs[r].status
      BY <1>1, <2>2
    <3> QED BY <1>5, <1>6, <3>1, <3>2, <3>3
  <2> QED BY <1>7, <2>1, <2>2 DEF L!Claim
<1>8. ASSUME L!Park(k)
      PROVE  Turn(r, task', ui', work', window'.shown, gate', runs'[r].status)
  <2>1. PICK g \in L!Gate :
          /\ gate' = [gate EXCEPT ![g] = [status |-> "pending", run |-> k.run]]
          /\ L!Step(k, "telling", L!Event(k.run, "awaiting_approval", g))
    BY <1>8 DEF L!Park
  <2>2. runs' = [runs EXCEPT ![k.run].status = "awaiting_approval"]
    BY <1>8 DEF L!Park
  <2> DEFINE e == L!Event(k.run, "awaiting_approval", g)
             n == [k EXCEPT !.pc = "telling", !.tells = e]
  <2>3. n.run = k.run /\ n.pc = "telling" /\ n.tells = e /\ task' = (task \ {k}) \cup {n}
    BY <1>1, <2>1 DEF Task, L!Step
  <2>4. e.what = g
    BY DEF L!Event
  <2> HIDE DEF n, e
  <2>5. gate'[g].status = "pending" /\ (k.run = r => runs'[r].status = "awaiting_approval")
    BY <1>1, <2>1, <2>2
  <2>6. k.run = r => TaskAgrees(n, gate', runs'[r].status)
    BY <2>3, <2>4, <2>5 DEF TaskAgrees, Waits
  <2>7. k.run # r => runs'[r].status = runs[r].status
    BY <1>1, <2>2
  <2> QED BY <1>5, <1>6, <2>3, <2>6, <2>7
<1>9. ASSUME L!Settle(k)
      PROVE  Turn(r, task', ui', work', window'.shown, gate', runs'[r].status)
  <2>1. PICK s : /\ runs' = [runs EXCEPT ![k.run].status = s]
                 /\ L!Step(k, "telling", L!Event(k.run, "finished", s))
    BY <1>9 DEF L!Settle
  <2> DEFINE e == L!Event(k.run, "finished", s)
             n == [k EXCEPT !.pc = "telling", !.tells = e]
  <2>2. n.run = k.run /\ n.pc = "telling" /\ n.tells = e /\ task' = (task \ {k}) \cup {n}
    BY <1>1, <2>1 DEF Task, L!Step
  <2>3. e.kind = "finished"
    BY DEF L!Event
  <2> HIDE DEF n, e
  <2>4. TaskAgrees(n, gate', runs'[r].status)
    BY <2>2, <2>3 DEF TaskAgrees
  <2>5. k.run # r => runs'[r].status = runs[r].status
    BY <1>1, <2>1
  <2> QED BY <1>5, <1>6, <2>2, <2>4, <2>5
<1> QED BY <1>7, <1>8, <1>9

\* What the window does for a run of its own.
LEMMA TurnOfWindow ==
  ASSUME TellsInv, Mine, Grows, NEW r \in Created, r \notin away, runs[r].by = Window,
         window.open,
         Turn(r, task, ui, work, window.shown, gate, runs[r].status),
         \/ \E k \in task : L!Tell(k)
         \/ \E w \in work : L!DecideLoads(w) \/ L!DecideWrites(w)
         \/ \E a \in BOOLEAN : L!Click(a)
         \/ L!Handle
  PROVE  Turn(r, task', ui', work', window'.shown, gate', runs'[r].status)
<1> DEFINE Goal == Turn(r, task', ui', work', window'.shown, gate', runs'[r].status)
<1> USE DEF L!tables, L!screen, L!history
<1>1. /\ LocalInv /\ ui \in Seq(Happening)
      /\ window \in [open: BOOLEAN, send: BOOLEAN, shown: L!Gate \cup {0}]
      /\ \A k \in task : k \in Task /\ k.run \in Created
      /\ \A w \in work : w \in Work /\ (w.kind \in {"decide", "write"} => w.gate \in Asked)
      /\ gate \in [L!Gate -> [status: {"unused", "pending", "approved", "denied"},
                              run: L!Run \cup {0}]]
  BY DEF TellsInv, LocalInv, UiOk, GoodNews, WindowOk, TaskOk, GoodTask, WorkOk, GoodWork,
         GateOk
<1>2. ASSUME runs'[r].status = runs[r].status, ui' = ui,
             \A k \in task' : k.run = r => k \in task,
             \A w \in work' : Orders(w, r, gate') => w \in work,
             Shows(window'.shown, r, gate') => window'.shown = window.shown,
             \A g \in Asked : gate[g].run = r => gate'[g] = gate[g]
      PROVE  Goal
  <2>1. \A i \in DOMAIN ui' : i \in Nat /\ i + 0 \in DOMAIN ui /\ ui[i + 0] = ui'[i]
    BY <1>1, <1>2
  <2> QED BY <1>2, <2>1, RunRests
<1>3. ASSUME NEW k \in task, L!Tell(k) PROVE Goal
  <2>1. /\ L!Hear(k.proc, k.tells) /\ task' = task \ {k} /\ k.pc = "telling"
        /\ UNCHANGED <<runs, gate, window, work>> /\ k.tells.run = k.run
    BY <1>3 DEF L!Tell, TellsInv, TasksTell
  <2>2. CASE k.run = r
    <3>1. k.proc = Window
      BY <2>2 DEF Mine
    <3>2. ui' = Append(ui, k.tells) /\ k.tells \in Happening
      BY <1>1, <2>1, <3>1 DEF L!Hear, Task
    <3> QED BY <1>1, <2>1, <2>2, <3>2, TurnIsTold
  <2>3. CASE k.run # r
    <3>1. \A i \in DOMAIN ui' :
            (i \in DOMAIN ui /\ ui'[i] = ui[i]) \/ ui'[i] = k.tells
      BY <1>1, <2>1, HeardItems
    <3>2. \A i \in DOMAIN ui' : i \in Nat
      BY <1>1, <2>1 DEF L!Hear
    <3>3. \A i \in DOMAIN ui' : i \in Nat /\
            (Noted(ui'[i], r) => i + 0 \in DOMAIN ui /\ ui[i + 0] = ui'[i])
      BY <2>1, <2>3, <3>1, <3>2 DEF Noted
    <3> QED BY <2>1, <3>3, RunRests
  <2> QED BY <2>2, <2>3
<1>4. ASSUME NEW w \in work, L!DecideLoads(w) PROVE Goal
  <2> DEFINE v == [w EXCEPT !.kind = "write"]
  <2>1. /\ w.kind = "decide" /\ UNCHANGED <<runs, gate, task, ui, window>>
        /\ gate[w.gate].status = "pending" => work' = (work \ {w}) \cup {v}
        /\ gate[w.gate].status # "pending" => work' = work \ {w}
    BY <1>4 DEF L!DecideLoads, L!Works, L!Over
  <2>2. v.gate = w.gate
    BY <1>1 DEF Work
  <2> HIDE DEF v
  <2>3. CASE Orders(w, r, gate)
    <3>1. gate[w.gate].status = "pending"
      BY <2>3 DEF Turn, Agrees, Waits
    <3> QED BY <2>1, <2>2, <2>3, <3>1, TurnIsLoaded
  <2>4. CASE ~Orders(w, r, gate)
    <3>1. ~Orders(v, r, gate)
      BY <2>1, <2>2, <2>4 DEF Orders
    <3> QED BY <1>2, <2>1, <3>1
  <2> QED BY <2>3, <2>4
<1>5. ASSUME NEW w \in work, L!DecideWrites(w) PROVE Goal
  <2> DEFINE n == L!NewTask(Window, gate[w.gate].run, "resume")
  <2>1. /\ w.kind = "write" /\ UNCHANGED <<runs, ui, window>>
        /\ work' = work \ {w} /\ task' = task \cup {n}
        /\ gate' = [gate EXCEPT ![w.gate].status =
                      IF w.approved THEN "approved" ELSE "denied"]
    BY <1>5 DEF L!DecideWrites, L!DecideWrite, L!Works, L!Over
  <2>2. n.run = gate[w.gate].run /\ n.pc = "resume"
    BY DEF L!NewTask
  <2> HIDE DEF n
  <2>3. CASE Orders(w, r, gate)
    <3>1. /\ \A v \in work : Orders(v, r, gate') => Orders(v, r, gate)
          /\ Shows(window.shown, r, gate') => Shows(window.shown, r, gate)
      BY DEF Orders, Shows, Grows, TellsInv, LocalInv, WorkOk, GoodWork, WindowOk
    <3> QED BY <2>1, <2>2, <2>3, <3>1, TurnIsDecided
  <2>4. CASE ~Orders(w, r, gate)
    <3>1. gate[w.gate].run # r
      BY <2>1, <2>4 DEF Orders
    <3>2. \A g \in Asked : gate[g].run = r => gate'[g] = gate[g]
      BY <1>1, <2>1, <3>1 DEF Asked
    <3> QED BY <1>2, <2>1, <2>2, <3>1, <3>2
  <2> QED BY <2>3, <2>4
<1>6. ASSUME NEW a \in BOOLEAN, L!Click(a) PROVE Goal
  <2>1. PICK w : w.gate = window.shown /\ work' = work \cup {w}
    <3>1. [kind |-> "decide", gate |-> window.shown, approved |-> a].gate = window.shown
      OBVIOUS
    <3> QED BY <1>6, <3>1 DEF L!Click
  <2>2. window'.shown = 0 /\ UNCHANGED <<runs, gate, task, ui>> /\ window.shown # 0
    BY <1>1, <1>6 DEF L!Click, L!NoGate
  <2>3. CASE Shows(window.shown, r, gate)
    BY <2>1, <2>2, <2>3, TurnIsClicked
  <2>4. CASE ~Shows(window.shown, r, gate)
    <3>1. ~Orders(w, r, gate) /\ ~Shows(0, r, gate)
      BY <2>1, <2>2, <2>4 DEF Orders, Shows
    <3> QED BY <1>2, <2>1, <2>2, <3>1
  <2> QED BY <2>3, <2>4
<1>7. ASSUME L!Handle PROVE Goal
  <2>1. /\ L!Polls /\ UNCHANGED <<task, work, gate, runs>>
        /\ window'.shown = IF Head(ui).kind = "awaiting_approval"
                             THEN Head(ui).what ELSE window.shown
    BY <1>1, <1>7 DEF L!Handle
  <2>2. /\ 1 \in DOMAIN ui /\ Head(ui) = ui[1]
        /\ \A i \in DOMAIN ui' :
             i \in Nat \ {0} /\ i + 1 \in DOMAIN ui /\ ui'[i] = ui[i + 1]
    BY <1>1, <2>1, PolledItems
  <2>3. CASE Noted(ui[1], r)
    <3>1. window'.shown = ui[1].what
      BY <2>1, <2>2, <2>3 DEF Noted
    <3> QED BY <2>1, <2>2, <2>3, <3>1, TurnIsShown
  <2>4. CASE ~Noted(ui[1], r)
    <3>1. Shows(window'.shown, r, gate') => window'.shown = window.shown
      <4>1. ui[1].kind = "awaiting_approval" => gate[ui[1].what].run # r
        BY <2>2, <2>4 DEF Mine, Noted
      <4> QED BY <2>1, <2>2, <4>1 DEF Shows
    <3> QED BY <2>1, <2>2, <3>1, RunRests
  <2> QED BY <2>3, <2>4
<1> QED BY <1>3, <1>4, <1>5, <1>6, <1>7

\* A run is in its first place.
LEMMA TurnOfNewborn ==
  ASSUME Local, TellsInv, Mine, Grows, NEW r \in L!Run, r \notin Created, r \in Created',
         runs'[r].by = Window, [L!Next]_(L!vars)
  PROVE  Turn(r, task', ui', work', window'.shown, gate', runs'[r].status)
<1>1. /\ LocalInv
      /\ runs \in [L!Run -> [status: RowState, cancel: BOOLEAN, by: L!Process \cup {0}]]
      /\ \A k \in task : k.run \in Created
      /\ \A w \in work : w.kind \in {"decide", "write"} => gate[w.gate].run \in Created
      /\ window.shown # 0 => gate[window.shown].run \in Created
      /\ \A i \in DOMAIN ui : ui[i].kind = "awaiting_approval" => ui[i].run \in Created
  BY DEF TellsInv, LocalInv, RunsOk, TaskOk, GoodTask, WorkOk, GoodWork, WindowOk, GateOk,
         Mine
<1>2. \A p : L!Created(p, r) =>
        /\ runs'[r].by = p /\ runs'[r].status = "queued" /\ gate' = gate
        /\ task' = task \cup {L!NewTask(p, r, "start")}
  BY <1>1 DEF L!Created
<1>3. PICK w \in work : L!SubmitWork(w) /\ L!Created(Window, r)
  BY <1>1, <1>2, Newborn DEF Local
<1>4. UNCHANGED <<ui, window>> /\ work' \subseteq work
  BY <1>3 DEF L!SubmitWork, L!Works, L!Over
<1>5. PICK n : n.pc = "start" /\ task' = task \cup {n}
  BY <1>2, <1>3 DEF L!NewTask
<1>6. /\ \A k \in task : k.run # r
      /\ \A i \in DOMAIN ui : ~Noted(ui[i], r)
      /\ \A v \in work' : ~Orders(v, r, gate)
      /\ ~Shows(window.shown, r, gate)
  BY <1>1, <1>4 DEF Noted, Orders, Shows
<1>7. Turn(r, task \cup {n}, ui, work', window.shown, gate, "queued")
  BY <1>5, <1>6, TurnBegins
<1> QED BY <1>2, <1>3, <1>4, <1>5, <1>7

LEMMA TurnsStep ==
  ASSUME Local, TellsInv, Mine, Turns, Grows, Remembers, [L!Next]_(L!vars)
  PROVE  Turns'
<1> SUFFICES ASSUME window'.open, NEW r \in L!Run, Untouched(r)'
             PROVE  Turn(r, task', ui', work', window'.shown, gate', runs'[r].status)
  BY DEF Turns
<1> DEFINE Goal == Turn(r, task', ui', work', window'.shown, gate', runs'[r].status)
<1> USE DEF L!tables, L!screen, L!history
<1>1. /\ LocalInv /\ ui \in Seq(Happening)
      /\ window \in [open: BOOLEAN, send: BOOLEAN, shown: L!Gate \cup {0}]
      /\ runs \in [L!Run -> [status: RowState, cancel: BOOLEAN, by: L!Process \cup {0}]]
      /\ gate \in [L!Gate -> [status: {"unused", "pending", "approved", "denied"},
                              run: L!Run \cup {0}]]
  BY DEF TellsInv, LocalInv, UiOk, GoodNews, WindowOk, RunsOk, GateOk
<1>2. r \in Created' /\ runs'[r].by = Window /\ r \notin away' \cup orphans'
  BY DEF Untouched
<1>3. CASE r \notin Created
  BY <1>2, <1>3, TurnOfNewborn
<1>4. ASSUME r \in Created PROVE Goal
  <2>1. runs[r].by = Window /\ r \notin away \cup orphans /\ Untouched(r)
    BY <1>2, <1>4 DEF Remembers, Untouched
  <2>2. window.open => Turn(r, task, ui, work, window.shown, gate, runs[r].status)
    BY <2>1 DEF Turns
  <2> DEFINE Rests == /\ runs'[r].status = runs[r].status
                      /\ \A k \in task' : k.run = r => k \in task
                      /\ \A w \in work' : Orders(w, r, gate') => w \in work
                      /\ window'.shown = window.shown
                      /\ window.open
                      /\ \A g \in Asked : gate[g].run = r => gate'[g] = gate[g]
  <2>3. ASSUME Rests, ui' = ui PROVE Goal
    <3>1. \A i \in DOMAIN ui' : i \in Nat /\ i + 0 \in DOMAIN ui /\ ui[i + 0] = ui'[i]
      BY <1>1, <2>3
    <3> QED BY <1>4, <2>2, <2>3, <3>1, RunRests
  <2>4. ASSUME Rests, NEW e, e.kind # "awaiting_approval", ui' = Append(ui, e)
        PROVE  Goal
    <3>1. \A i \in DOMAIN ui' :
            i \in Nat /\ (Noted(ui'[i], r) => i + 0 \in DOMAIN ui /\ ui[i + 0] = ui'[i])
      BY <1>1, <2>4 DEF Noted
    <3> QED BY <1>4, <2>2, <2>4, <3>1, RunRests
  <2>5. ASSUME NEW k \in task, L!Claim(k) \/ L!Park(k) \/ L!Settle(k) PROVE Goal
    <3>1. window.open
      BY <2>5 DEF L!Claim, L!Park, L!Settle
    <3> QED BY <1>4, <2>2, <2>5, <3>1, TurnOfTask
  <2>6. ASSUME \/ \E k \in task : L!Tell(k)
               \/ \E w \in work : L!DecideLoads(w) \/ L!DecideWrites(w)
               \/ \E a \in BOOLEAN : L!Click(a)
               \/ L!Handle
        PROVE  Goal
    <3>1. window.open
      BY <2>6 DEF L!Tell, L!DecideLoads, L!DecideWrites, L!Works, L!Click, L!Handle,
                  L!Polls
    <3> QED BY <1>4, <2>1, <2>2, <2>6, <3>1, TurnOfWindow
  <2>7. ASSUME NEW k \in task, L!Foreign(k) PROVE Goal
    <3>1. PICK state : L!Hear(k.proc, L!Event(L!NoRun, "finished", state))
      BY <2>7 DEF L!Foreign
    <3>2. ui' = ui \/ ui' = Append(ui, L!Event(L!NoRun, "finished", state))
      BY <3>1 DEF L!Hear
    <3>3. L!Event(L!NoRun, "finished", state).kind # "awaiting_approval"
      BY DEF L!Event
    <3>4. Rests
      BY <2>7 DEF L!Foreign
    <3> QED BY <2>3, <2>4, <3>2, <3>3, <3>4
  <2>8. ASSUME NEW k \in task, L!Escape(k) PROVE Goal
    BY <2>3, <2>8 DEF L!Escape
  <2>9. ASSUME NEW q, NEW n \in L!Run, L!Created(q, n), UNCHANGED <<ui, window>>,
               work' \subseteq work
        PROVE  Goal
    <3>1. n # r /\ runs'[r] = runs[r]
      BY <1>1, <1>4, <2>9 DEF L!Created, L!NextRun, Created
    <3>2. L!NewTask(q, n, "start").run = n
      BY DEF L!NewTask
    <3>3. Rests
      BY <2>9, <3>1, <3>2 DEF L!Created
    <3> QED BY <2>3, <2>9, <3>3
  <2>10. ASSUME NEW t \in Terminal, NEW a \in BOOLEAN, L!Decide(t, a) PROVE Goal
    <3>1. PICK g : /\ gate' = [gate EXCEPT ![g].status = IF a THEN "approved" ELSE "denied"]
                   /\ task' = task \cup {L!NewTask(t, gate[g].run, "resume")}
                   /\ away' = away \cup {gate[g].run}
                   /\ runs' = runs
      BY <2>10 DEF L!Decide, L!DecideWrite, Local
    <3>2. gate[g].run # r
      BY <1>2, <3>1
    <3>3. L!NewTask(t, gate[g].run, "resume").run = gate[g].run
      BY DEF L!NewTask
    <3>4. UNCHANGED <<ui, window, work>>
      BY <2>10 DEF L!Decide
    <3>5. \A f \in Asked : gate[f].run = r => gate'[f] = gate[f]
      BY <1>1, <3>1, <3>2 DEF Asked
    <3>6. Rests
      BY <3>1, <3>2, <3>3, <3>4, <3>5
    <3> QED BY <2>3, <3>4, <3>6
  <2>11. ASSUME NEW t \in Terminal, L!Cancel(t) PROVE Goal
    <3>1. PICK n : /\ away' = away \cup {n}
                   /\ \A m \in L!Run : m # n => runs'[m] = runs[m]
      BY <1>1, <2>11 DEF L!Cancel, L!CancelWrite
    <3>2. UNCHANGED <<ui, window, work, gate, task>>
      BY <2>11 DEF L!Cancel, L!CancelWrite
    <3>3. Rests
      BY <1>2, <3>1, <3>2
    <3> QED BY <2>3, <3>2, <3>3
  <2>12. ASSUME NEW t \in Terminal, L!Command(t) PROVE Goal
    <3>1. CASE \E n \in L!Run : L!StreamRun(t, "run", n) \/ L!StreamRun(t, "chat", n)
      BY <2>9, <3>1 DEF L!StreamRun
    <3>2. CASE (\E a \in BOOLEAN : L!Decide(t, a)) \/ L!Cancel(t)
      BY <2>10, <2>11, <3>2
    <3>3. CASE \/ L!HearEvent(t) \/ L!GiveUpWaiting(t) \/ L!Drained(t) \/ L!LeaveChat(t)
               \/ \E g \in L!Gate : L!DecideRead(t, g)
               \/ \E n \in L!Run : L!CancelRead(t, n)
               \/ L!Kill(t)
      <4>1. UNCHANGED <<ui, window, work, gate, runs>> /\ task' \subseteq task
        BY <3>3 DEF L!HearEvent, L!Hears, L!GiveUpWaiting, L!Drained, L!LeaveChat,
                    L!DecideRead, L!CancelRead, L!Kill, L!Killed
      <4> QED BY <2>3, <4>1
    <3> QED BY <2>12, <3>1, <3>2, <3>3 DEF L!Command
  <2>13. ASSUME NEW w \in work, L!SubmitWork(w) PROVE Goal
    BY <2>9, <2>13 DEF L!SubmitWork, L!Works, L!Over
  <2>14. L!Error.kind # "awaiting_approval"
    BY DEF L!Error, L!Event
  <2>15. ASSUME NEW w \in work, L!WorkFails(w) PROVE Goal
    BY <2>4, <2>14, <2>15 DEF L!WorkFails, L!Works, L!Over, L!Post
  <2>16. ASSUME L!Boot PROVE Goal
    BY <2>3, <2>4, <2>14, <2>16 DEF L!Boot, L!Post
  <2>17. ASSUME L!Send PROVE Goal
    <3>1. /\ UNCHANGED <<runs, gate, task, ui>> /\ window'.shown = window.shown
          /\ window.open /\ \A w \in work' : w \in work \/ w.kind = "submit"
      BY <1>1, <2>17 DEF L!Send
    <3>2. Rests
      BY <3>1 DEF Orders
    <3> QED BY <2>3, <3>1, <3>2
  <2>18. ~(L!Close \/ L!Gone)
    BY <1>1 DEF L!Close, L!Gone
  <2>19. ASSUME UNCHANGED L!vars PROVE Goal
    BY <2>3, <2>19 DEF L!vars
  <2> HIDE DEF Goal, Rests
  <2> QED BY <2>5, <2>6, <2>7, <2>8, <2>12, <2>13, <2>15, <2>16, <2>17, <2>18, <2>19
          DEF L!Next, L!Drive, L!Serve
<1> QED BY <1>3, <1>4

-----------------------------------------------------------------------------
\* What will enable the button again, or excuses that nothing does.
Owes ==
  \/ window.shown # 0 \/ work # {} \/ \E k \in task : k.proc = Window
  \/ \E i \in DOMAIN ui : ui[i].kind \in {"finished", "error", "awaiting_approval"}
  \/ \E r \in orphans \cup away : runs[r].by = Window

Owed == window.open /\ ~window.send => Owes

LEMMA OwesStill ==
  ASSUME LocalInv, Remembers, Owes,
         window.shown # 0 => window'.shown # 0,
         work # {} => work' # {} \/ \E k \in task' : k.proc = Window,
         \A k \in task : k.proc = Window =>
           \/ \E l \in task' : l.proc = Window
           \/ k.run \in orphans' \cup away' /\ runs'[k.run].by = Window,
         \A i \in DOMAIN ui : \E j \in DOMAIN ui' : ui'[j] = ui[i]
  PROVE  Owes'
<1>1. \A r \in orphans \cup away :
        r \in orphans' \cup away' /\ runs'[r].by = runs[r].by
  BY DEF LocalInv, HistoryOk, Remembers
<1> QED BY <1>1 DEF Owes

LEMMA OwedStep ==
  ASSUME Local, TellsInv, Mine, Turns, Owed, Grows, Remembers, [L!Next]_(L!vars)
  PROVE  Owed'
<1> SUFFICES ASSUME window'.open, ~window'.send PROVE Owes'
  BY DEF Owed
<1> USE DEF L!tables, L!screen, L!history
<1>1. /\ LocalInv /\ ui \in Seq(Happening)
      /\ window \in [open: BOOLEAN, send: BOOLEAN, shown: L!Gate \cup {0}]
      /\ \A k \in task : k \in Task /\ k.run \in Created
      /\ \A w \in work : w \in Work /\ (w.kind \in {"decide", "write"} => w.gate \in Asked)
      /\ \A g \in Asked : gate[g].run \in Created /\ g # 0
  BY DEF TellsInv, LocalInv, UiOk, GoodNews, WindowOk, TaskOk, GoodTask, WorkOk, GoodWork,
         GateOk, Asked, L!Gate
<1>2. ASSUME NEW r \in Created, runs[r].by = Window, window.open,
             ~Turn(r, task, ui, work, window.shown, gate, runs[r].status)
      PROVE  r \in orphans' \cup away' /\ runs'[r].by = Window
  <2>1. r \in orphans \cup away
    BY <1>2 DEF Turns, Untouched, Created
  <2> QED BY <1>2, <2>1 DEF Remembers
<1>3. ASSUME Owes, UNCHANGED window, task \subseteq task', work' = work,
             ui' = ui \/ \E e : ui' = Append(ui, e)
      PROVE  Owes'
  <2>1. \A i \in DOMAIN ui : \E j \in DOMAIN ui' : ui'[j] = ui[i]
    BY <1>1, <1>3
  <2> QED BY <1>1, <1>3, <2>1, OwesStill
<1>4. ASSUME window' = window PROVE Owes
  BY <1>4 DEF Owed
<1>5. ASSUME NEW k \in task, NEW where, NEW e, task' = (task \ {k}) \cup
               {[k EXCEPT !.pc = where, !.tells = e]},
             UNCHANGED <<window, work, ui>>
      PROVE  Owes'
  <2> DEFINE n == [k EXCEPT !.pc = where, !.tells = e]
  <2>1. n.proc = k.proc /\ n \in task'
    BY <1>1, <1>5 DEF Task
  <2> HIDE DEF n
  <2>2. \A l \in task : l.proc = Window => \E m \in task' : m.proc = Window
    BY <1>5, <2>1
  <2> QED BY <1>1, <1>4, <1>5, <2>2, OwesStill
<1>6. ASSUME NEW k \in task, L!Claim(k) PROVE Owes'
  <2>1. UNCHANGED <<window, work, ui>> /\ window.open
    BY <1>6 DEF L!Claim
  <2>2. CASE L!Step(k, "driving", L!Silent)
    BY <1>5, <2>1, <2>2 DEF L!Step
  <2>3. CASE /\ task' = task \ {k} /\ k.pc \in {"start", "resume"}
             /\ runs[k.run].status # (IF k.pc = "start" THEN "queued" ELSE "awaiting_approval")
    <3>1. ~Turn(k.run, task, ui, work, window.shown, gate, runs[k.run].status)
      BY <2>3 DEF Turn, Agrees, TaskAgrees
    <3>2. k.proc = Window => k.run \in orphans' \cup away' /\ runs'[k.run].by = Window
      BY <1>1, <1>2, <2>1, <3>1 DEF Mine
    <3> QED BY <1>1, <1>4, <2>1, <2>3, <3>2, OwesStill
  <2> QED BY <1>6, <2>2, <2>3 DEF L!Claim
<1>7. ASSUME NEW k \in task, L!Park(k) \/ L!Settle(k) PROVE Owes'
  BY <1>5, <1>7 DEF L!Park, L!Settle, L!Step
<1>8. ASSUME NEW k \in task, L!Tell(k) PROVE Owes'
  <2>1. /\ L!Hear(k.proc, k.tells) /\ task' = task \ {k}
        /\ UNCHANGED <<window, work>>
        /\ k.tells.kind \in {"finished", "awaiting_approval"}
    BY <1>8 DEF L!Tell, TellsInv, LocalInv, TaskOk, GoodTask
  <2>2. CASE k.proc = Window
    <3>1. ui' = Append(ui, k.tells)
      BY <2>1, <2>2 DEF L!Hear
    <3>2. Len(ui) + 1 \in DOMAIN ui' /\ ui'[Len(ui) + 1] = k.tells
      BY <1>1, <3>1
    <3> QED BY <2>1, <3>2 DEF Owes
  <2>3. CASE k.proc # Window
    <3>1. \A l \in task : l.proc = Window => l \in task'
      BY <2>1, <2>3
    <3>2. ui' = ui
      BY <2>1, <2>3 DEF L!Hear
    <3> QED BY <1>1, <1>4, <2>1, <3>1, <3>2, OwesStill
  <2> QED BY <2>2, <2>3
<1>9. ASSUME NEW k \in task, L!Foreign(k) PROVE Owes'
  BY <1>3, <1>4, <1>9 DEF L!Foreign, L!Hear
<1>10. ASSUME NEW k \in task, L!Escape(k) PROVE Owes'
  <2>1. k.proc = Window => k.run \in orphans' /\ runs'[k.run].by = Window
    BY <1>10 DEF L!Escape, Mine
  <2> QED BY <1>1, <1>4, <1>10, <2>1, OwesStill DEF L!Escape
<1>11. ASSUME NEW t \in Terminal, L!Command(t) PROVE Owes'
  <2>1. UNCHANGED <<window, work, ui>>
    BY <1>11 DEF L!Command, L!StreamRun, L!CancelRead, L!HearEvent, L!Hears,
                 L!GiveUpWaiting, L!Drained, L!LeaveChat, L!DecideRead, L!Decide,
                 L!Cancel, L!Kill
  <2>2. CASE L!Kill(t)
    <3>1. \A k \in task : k.proc = Window => k \in task'
      BY <2>2 DEF L!Kill, L!Killed, L!Of, Local
    <3> QED BY <1>1, <1>4, <2>1, <3>1, OwesStill
  <2>3. CASE ~L!Kill(t)
    <3>1. task \subseteq task'
      BY <1>11, <2>3 DEF L!Command, L!StreamRun, L!Created, L!CancelRead, L!HearEvent,
                         L!Hears, L!GiveUpWaiting, L!Drained, L!LeaveChat, L!DecideRead,
                         L!Decide, L!DecideWrite, L!Cancel, L!CancelWrite
    <3> QED BY <1>3, <1>4, <2>1, <3>1
  <2> QED BY <2>2, <2>3
<1>12. ASSUME NEW w \in work, L!SubmitWork(w) \/ L!DecideWrites(w) PROVE Owes'
  <2>1. PICK r, where : L!NewTask(Window, r, where) \in task'
    BY <1>12 DEF L!SubmitWork, L!Created, L!DecideWrites, L!DecideWrite
  <2>2. L!NewTask(Window, r, where).proc = Window
    BY DEF L!NewTask
  <2> QED BY <2>1, <2>2 DEF Owes
<1>13. ASSUME NEW w \in work, L!DecideLoads(w) PROVE Owes'
  <2>1. /\ w.kind = "decide" /\ UNCHANGED <<window, task, ui>>
        /\ gate[w.gate].status = "pending" \/ work' = work \ {w}
        /\ gate[w.gate].status = "pending" => work' # {}
    BY <1>13 DEF L!DecideLoads, L!Works, L!Over
  <2>2. ASSUME gate[w.gate].status # "pending" PROVE Owes'
    <3>1. PICK r \in Created : r = gate[w.gate].run /\ runs[r].by = Window
      BY <1>1, <2>1 DEF Mine
    <3>2. ~Turn(r, task, ui, work, window.shown, gate, runs[r].status)
      BY <2>1, <2>2, <3>1 DEF Turn, Agrees, Waits, Orders
    <3>3. window.open
      BY <2>1
    <3> QED BY <1>2, <3>1, <3>2, <3>3 DEF Owes
  <2> QED BY <2>1, <2>2 DEF Owes
<1>14. ASSUME L!Post(L!Error) PROVE Owes'
  <2>1. Len(ui) + 1 \in DOMAIN ui' /\ ui'[Len(ui) + 1] = L!Error
    BY <1>1, <1>14 DEF L!Post
  <2>2. L!Error.kind = "error"
    BY DEF L!Error, L!Event
  <2> QED BY <2>1, <2>2 DEF Owes
<1>15. ASSUME NEW w \in work, L!WorkFails(w) PROVE Owes'
  BY <1>14, <1>15 DEF L!WorkFails
<1>16. CASE L!Boot
  BY <1>3, <1>4, <1>14, <1>16 DEF L!Boot
<1>17. ASSUME L!Send \/ \E a \in BOOLEAN : L!Click(a) PROVE Owes'
  BY <1>17 DEF L!Send, L!Click, Owes
<1>18. CASE L!Handle
  <2>1. /\ L!Polls /\ UNCHANGED <<task, work>>
        /\ window'.send = (window.send \/ Head(ui).kind \in {"finished", "error"})
        /\ window'.shown = IF Head(ui).kind = "awaiting_approval"
                             THEN Head(ui).what ELSE window.shown
        /\ window'.open = window.open
    BY <1>1, <1>18 DEF L!Handle
  <2>2. /\ 1 \in DOMAIN ui /\ Head(ui) = ui[1]
        /\ \A i \in DOMAIN ui : i # 1 => i - 1 \in DOMAIN ui' /\ ui'[i - 1] = ui[i]
    BY <1>1, <2>1, PolledItems
  <2>3. Owes /\ ui[1].kind \notin {"finished", "error"}
    BY <2>1, <2>2 DEF Owed
  <2>4. CASE ui[1].kind = "awaiting_approval"
    <3>1. ui[1].what \in Asked
      BY <2>2, <2>4 DEF TellsInv, LocalInv, UiOk, GoodNews
    <3>2. window'.shown # 0
      BY <1>1, <2>1, <2>2, <2>4, <3>1
    <3> QED BY <3>2 DEF Owes
  <2>5. CASE ui[1].kind # "awaiting_approval"
    <3>1. \A i \in DOMAIN ui : ui[i].kind \in {"finished", "error", "awaiting_approval"} =>
            \E j \in DOMAIN ui' : ui'[j].kind \in {"finished", "error", "awaiting_approval"}
      BY <2>2, <2>3, <2>5
    <3>2. window'.shown = window.shown
      BY <2>1, <2>2, <2>5
    <3>3. \A r \in orphans \cup away :
            r \in orphans' \cup away' /\ runs'[r].by = runs[r].by
      BY <1>1 DEF LocalInv, HistoryOk, Remembers
    <3> QED BY <2>1, <2>3, <3>1, <3>2, <3>3 DEF Owes
  <2> QED BY <2>4, <2>5
<1>19. ~(L!Close \/ L!Gone)
  BY <1>1 DEF L!Close, L!Gone
<1>20. CASE UNCHANGED L!vars
  BY <1>3, <1>4, <1>20 DEF L!vars
<1> QED BY <1>6, <1>7, <1>8, <1>9, <1>10, <1>11, <1>12, <1>13, <1>15, <1>16, <1>17, <1>18,
           <1>19, <1>20 DEF L!Next, L!Drive, L!Serve

LEMMA TellsInit == ASSUME Local, L!Init PROVE TellsInv
<1>1. DOMAIN <<>> = {}
  OBVIOUS
<1>2. OneDriver /\ TasksTell /\ MailTells
  BY <1>1 DEF L!Init, OneDriver, TasksTell, MailTells
<1>3. CodesTell
  BY DEF L!Init, L!Fresh, CodesTell, CodeTells
<1> QED BY <1>2, <1>3, LocalInvInit DEF TellsInv

\* The Send button of the window comes back: whatever the commands of other processes
\* do meanwhile, and however events are told, polled and clicked, a disabled button
\* has a message on its way, work or a task that will send one, or a request on the
\* screen, unless another process took a run of the window over or a task died.
THEOREM SendComesBack == Local => (L!Spec => []SendIsOwed)
<1> SUFFICES ASSUME Local PROVE L!Spec => []L!SendIsOwed
  BY DEF SendIsOwed
<1> DEFINE Inv == TellsInv /\ Mine /\ Turns /\ Owed
<1>1. L!Init => Inv
  <2> SUFFICES ASSUME L!Init PROVE Inv
    OBVIOUS
  <2>1. DOMAIN <<>> = {}
    OBVIOUS
  <2>2. Mine
    BY <2>1 DEF L!Init, Mine, L!NoGate
  <2>3. Turns
    BY DEF L!Init, Turns, Untouched, Created
  <2>4. Owed
    BY DEF L!Init, Owed
  <2> QED BY <2>2, <2>3, <2>4, TellsInit
<1>2. Inv /\ [L!Next]_(L!vars) => Inv'
  <2> SUFFICES ASSUME Inv, [L!Next]_(L!vars) PROVE Inv'
    OBVIOUS
  <2>1. TellsInv' /\ Grows /\ Remembers
    BY TellsStep, LocalInvStep, HistoryGrows DEF TellsInv
  <2> QED BY <2>1, MineStep, TurnsStep, OwedStep
<1>3. Inv => L!SendIsOwed
  BY DEF Owed, Owes, L!SendIsOwed, L!Of, L!NoGate
<1> QED BY <1>1, <1>2, <1>3, PTL DEF L!Spec
====
