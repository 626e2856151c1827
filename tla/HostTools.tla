----------------------------- MODULE HostTools -----------------------------
(***************************************************************************)
(* The host tools of an agent: the tools (tools/builtin/system.py) behind   *)
(* the executor's gate, the operator's policy (system/privileges.py), the   *)
(* operations (system/ops.py), and the helper that may carry them out       *)
(* (system/helper.py and the daemon hoursx-sysd).  A call that is given up  *)
(* on is not a call that has no effect.                                     *)
(***************************************************************************)
EXTENDS Naturals, Sequences, SequencesExt, FiniteSets

CONSTANTS
  Call,      \* tool calls
  NoCall,
  Ops,       \* bound: the operations that calls ask for
  Allowlist, \* settings.system_sysctl_allowlist
  Backlog    \* listen(fd, 16): connections that wait

VARIABLES
  policy,  \* SystemPolicy: [enabled, mutations, backend]
  op,      \* what each call asks for
  pc,      \* where it is
  told,    \* what the model was answered
  prior,   \* history: the calls that were over when this one got to the host
  daemon,  \* hoursx-sysd: [up, backlog, serving]
  systemd, \* unit jobs, in the order they were asked for
  effects  \* calls that changed the host, in the order they did

vars == <<policy, op, pc, told, prior, daemon, systemd, effects>>

-----------------------------------------------------------------------------
(* The policy.  Names stand for the classes the tables tell apart.          *)

Sysctl(key) == [kind |-> "sysctl", target |-> key, action |-> "write"]
Signal(pid, sig) == [kind |-> "signal", target |-> pid, action |-> sig]
Service(unit, action) == [kind |-> "service", target |-> unit, action |-> action]

MutableKey == {"vm.swappiness"}       \* _SYSCTL_MUTABLE_PREFIXES
RefusedKey == {"kernel.core_pattern"} \* _SYSCTL_REFUSED
WritableKey == MutableKey \cup {"net.ipv4.ip_forward"} \* the daemon's table
ReadAction == {"status"}
Severing == {"stop", "restart"}
MutateAction == Severing \cup {"start"}
Critical == {"sshd"}
AllowedSignal == {"TERM"}

ClassifySysctl(key) ==
  IF key \in Allowlist \/ key \in MutableKey \ RefusedKey THEN "mutate" ELSE "refused"

ClassifySignal(pid, sig) ==
  IF pid \in {"init", "self", "group"} \/ sig \notin AllowedSignal
    THEN "refused" ELSE "mutate"

ClassifyService(unit, action) ==
  IF action \in ReadAction THEN "read"
  ELSE IF action \notin MutateAction \/ (unit \in Critical /\ action \in Severing)
    THEN "refused" ELSE "mutate"

Classify(o) ==
  CASE o.kind = "sysctl" -> ClassifySysctl(o.target)
    [] o.kind = "signal" -> ClassifySignal(o.target, o.action)
    [] o.kind = "service" -> ClassifyService(o.target, o.action)

Permits(o) ==
  /\ policy.enabled
  /\ Classify(o) # "refused"
  /\ Classify(o) = "mutate" => policy.mutations

\* What the daemon says, on its own authority: it does not know the allowlist,
\* nor which process is the agent's.
DaemonPermits(o) ==
  CASE o.kind = "sysctl" -> o.target \in WritableKey \ RefusedKey
    [] o.kind = "signal" -> o.target \notin {"init", "group"} /\ o.action \in AllowedSignal
    [] o.kind = "service" -> ClassifyService(o.target, o.action) # "refused"

-----------------------------------------------------------------------------
(* A call.                                                                 *)

Answer(c, what) ==
  /\ told' = [told EXCEPT ![c] = what]
  /\ pc' = [pc EXCEPT ![c] = "done"]

Goto(c, where) == pc' = [pc EXCEPT ![c] = where] /\ UNCHANGED told

Takes(c) ==
  effects' = IF Classify(op[c]) = "read" THEN effects ELSE Append(effects, c)

Over == {c \in Call : pc[c] = "done"}

\* The executor parks the run: every tool that can change the host asks, also
\* system.service for a status.
Request(c, o) ==
  /\ pc[c] = "idle"
  /\ op' = [op EXCEPT ![c] = o]
  /\ Goto(c, "asked")
  /\ UNCHANGED <<policy, prior, daemon, systemd, effects>>

Decide(c, approved) ==
  /\ pc[c] = "asked"
  /\ IF approved THEN Goto(c, "approved") ELSE Answer(c, "denied")
  /\ UNCHANGED <<policy, op, prior, daemon, systemd, effects>>

\* The read tools of the toolset: no gate, and no effect.
Inspect(c) ==
  /\ pc[c] = "idle"
  /\ Answer(c, IF policy.enabled THEN "reading" ELSE "refused")
  /\ UNCHANGED <<policy, op, prior, daemon, systemd, effects>>

\* Refused before anything is attempted, or handed to the backend.
Refuse(c) ==
  /\ pc[c] = "approved" /\ ~Permits(op[c])
  /\ Answer(c, "refused")
  /\ UNCHANGED <<policy, op, prior, daemon, systemd, effects>>

Dispatch(c, backend, where) ==
  /\ pc[c] = "approved" /\ Permits(op[c]) /\ policy.backend = backend
  /\ prior' = [prior EXCEPT ![c] = Over]
  /\ where

\* write_sysctl and send_signal: one system call.
Act(c) ==
  /\ op[c].kind # "service"
  /\ Dispatch(c, "direct",
       \/ Answer(c, "ok") /\ Takes(c)
       \/ Answer(c, "failed") /\ UNCHANGED effects)
  /\ UNCHANGED <<policy, op, daemon, systemd>>

\* manage_service: a systemctl process that asks systemd; without systemctl the
\* exception is nobody's.
Systemctl(c) ==
  /\ op[c].kind = "service"
  /\ Dispatch(c, "direct",
       \/ Goto(c, "waiting") /\ systemd' = Append(systemd, c)
       \/ Answer(c, "unexpected") /\ UNCHANGED systemd)
  /\ UNCHANGED <<policy, op, daemon, effects>>

\* The connection waits in the backlog with the request in it; a daemon that is
\* down, or 16 waiting connections, are "failed unexpectedly".
Connect(c) ==
  /\ Dispatch(c, "helper",
       IF daemon.up /\ Len(daemon.backlog) < Backlog
         THEN /\ daemon' = [daemon EXCEPT !.backlog = Append(@, c)]
              /\ Goto(c, "waiting")
         ELSE Answer(c, "unexpected") /\ UNCHANGED daemon)
  /\ UNCHANGED <<policy, op, systemd, effects>>

\* (Mutation: a call that is given up on is reported as failed.)
GiveUpForGood(c) ==
  /\ pc[c] = "waiting"
  /\ Answer(c, "failed")
  /\ UNCHANGED <<policy, op, prior, daemon, systemd, effects>>

\* The 60 s of systemctl, the 90 s of the helper or the executor's own limit:
\* the client leaves, the request stays where it is.
GiveUp(c) ==
  /\ pc[c] = "waiting"
  /\ Answer(c, "unexpected")
  /\ UNCHANGED <<policy, op, prior, daemon, systemd, effects>>

\* Whoever still waits gets the answer.
Deliver(c, ok) ==
  IF pc[c] = "waiting" THEN Answer(c, IF ok THEN "ok" ELSE "failed")
  ELSE UNCHANGED <<pc, told>>

-----------------------------------------------------------------------------
(* The daemon: one connection at a time, in the order they came.           *)

Idling == daemon.up /\ daemon.serving = NoCall

\* handle_request: the policy again, then the operation; systemctl is waited
\* for as long as it takes.
Handle(c, left) ==
  LET o == op[c] IN
  /\ IF ~DaemonPermits(o)
       THEN /\ Deliver(c, FALSE)
            /\ daemon' = [daemon EXCEPT !.backlog = left]
            /\ UNCHANGED <<systemd, effects>>
     ELSE IF o.kind = "service"
       THEN /\ daemon' = [daemon EXCEPT !.backlog = left, !.serving = c]
            /\ systemd' = Append(systemd, c)
            /\ UNCHANGED <<pc, told, effects>>
     ELSE /\ \/ Deliver(c, TRUE) /\ Takes(c)
             \/ Deliver(c, FALSE) /\ UNCHANGED effects
          /\ daemon' = [daemon EXCEPT !.backlog = left]
          /\ UNCHANGED systemd
  /\ UNCHANGED <<policy, op, prior>>

\* (Mutation: connections are served as they please.)
ServeAnyone ==
  /\ Idling
  /\ \E i \in DOMAIN daemon.backlog :
       Handle(daemon.backlog[i], RemoveAt(daemon.backlog, i))

Serve ==
  /\ Idling /\ daemon.backlog # <<>>
  /\ Handle(Head(daemon.backlog), Tail(daemon.backlog))

\* Restarted by its unit; who was waiting gets no answer (readline returns
\* nothing), and systemd goes on with what it was asked.
DaemonDies ==
  /\ daemon.up
  /\ daemon' = [up |-> FALSE, backlog |-> <<>>, serving |-> NoCall]
  /\ LET cut == ToSet(daemon.backlog) \cup {daemon.serving} IN
     /\ pc' = [c \in Call |-> IF c \in cut /\ pc[c] = "waiting" THEN "done" ELSE pc[c]]
     /\ told' = [c \in Call |-> IF c \in cut /\ pc[c] = "waiting" THEN "unexpected"
                                ELSE told[c]]
  /\ UNCHANGED <<policy, op, prior, systemd, effects>>

DaemonStarts ==
  /\ ~daemon.up
  /\ daemon' = [daemon EXCEPT !.up = TRUE]
  /\ UNCHANGED <<policy, op, pc, told, prior, systemd, effects>>

\* systemd: the jobs of a unit one after another, whether or not anybody waits.
JobEnds(i, ok) ==
  /\ i \in DOMAIN systemd
  /\ LET c == systemd[i] IN
     /\ \A j \in 1..i-1 : op[systemd[j]].target # op[c].target
     /\ IF ok THEN Takes(c) ELSE UNCHANGED effects
     /\ Deliver(c, ok)
     /\ systemd' = RemoveAt(systemd, i)
     /\ daemon' = [daemon EXCEPT !.serving = IF @ = c THEN NoCall ELSE @]
  /\ UNCHANGED <<policy, op, prior>>

-----------------------------------------------------------------------------
Policies == [enabled: BOOLEAN, mutations: BOOLEAN, backend: {"direct", "helper"}]

Init ==
  /\ policy \in Policies
  /\ op = [c \in Call |-> Service("none", "status")]
  /\ pc = [c \in Call |-> "idle"]
  /\ told = [c \in Call |-> "nothing"]
  /\ prior = [c \in Call |-> {}]
  /\ daemon = [up |-> TRUE, backlog |-> <<>>, serving |-> NoCall]
  /\ systemd = <<>> /\ effects = <<>>

Next ==
  \/ \E c \in Call :
       \/ \E o \in Ops : Request(c, o)
       \/ \E approved \in BOOLEAN : Decide(c, approved)
       \/ Inspect(c) \/ Refuse(c) \/ Act(c) \/ Systemctl(c) \/ Connect(c) \/ GiveUp(c)
  \/ Serve \/ DaemonDies \/ DaemonStarts
  \/ \E i \in 1..Cardinality(Call), ok \in BOOLEAN : JobEnds(i, ok)

Spec == Init /\ [][Next]_vars

-----------------------------------------------------------------------------
(* Properties.                                                             *)

\* Signalled init, its own process or a group, severed the operator's access,
\* wrote a key that disables the protections.
Protected(o) ==
  \/ o.kind = "signal" /\ o.target \in {"init", "self", "group"}
  \/ o.kind = "sysctl" /\ o.target \in RefusedKey
  \/ o.kind = "service" /\ o.target \in Critical /\ o.action \in Severing

\* What a model is told of a call is so, and stays so: an "ok" has changed the
\* host, and what was refused, denied or failed never does, however late a
\* daemon or systemd gets to it; only "unexpected" leaves it open.  Nothing
\* that the host must survive is ever touched, whichever backend acts.
AnswerIsTrue ==
  \A c \in Call :
    /\ told[c] = "ok" /\ Classify(op[c]) = "mutate" => c \in ToSet(effects)
    /\ told[c] \in {"failed", "refused", "denied"} => c \notin ToSet(effects)
    /\ c \in ToSet(effects) => ~Protected(op[c])

\* "Serialising them removes a whole class of concurrency bug" (main.cpp): a
\* call that was over for the model may still take effect, but not after a later
\* call for the same thing.
SameThing(c, d) == op[c].kind = op[d].kind /\ op[c].target = op[d].target

LaterCallPrevails ==
  \A i, j \in DOMAIN effects :
    LET early == effects[i]  late == effects[j] IN
    early \in prior[late] /\ SameThing(early, late) => i < j

=============================================================================
