------------------------------- MODULE MCHost -------------------------------
(* Model-checking instance of the host and of those who work on it directly: *)
(* guarded changes that race (GuardedChange), the host tools (HostTools),    *)
(* the post-conditions (PostConditions), and the processes that share the    *)
(* local database (LocalEngine).  They share no variable: `part` says which  *)
(* of them moves in a behaviour.                                             *)
EXTENDS GuardedChange, TLC

CONSTANTS
  c1, c2, key, unit,
  Call, NoCall, Ops, Allowlist, Backlog,
  Hosts, Conditions, NumberOf, Truthy, ProcessLimit,
  Terminal, Window, MaxRuns, MaxGates, MaxOdd

VARIABLES
  part,
  policy, op, pc, told, prior, daemon, systemd, effects,
  facts, asked, results, truth, outcome,
  runs, gate, task, cli, inbox, engine, window, work, ui, orphans, away, odd

OneUnit == c1 :> unit

\* What the calls ask for: every class of the policy's tables.
Ask(kind, target, action) == [kind |-> kind, target |-> target, action |-> action]
SomeCalls ==
  {Ask("sysctl", k, "write") :
     k \in {"vm.swappiness", "kernel.core_pattern", "fs.listed", "net.ipv4.ip_forward"}}
  \cup {Ask("signal", p, "TERM") : p \in {"worker", "self"}}
  \cup {Ask("service", "web", a) : a \in {"stop", "start", "status"}}
  \cup {Ask("service", "sshd", "restart")}

\* The texts that are numbers, four hosts, and conditions of every probe.
SomeNumbers == "1" :> 1 @@ "10" :> 10 @@ "20" :> 20

Num(n) == [type |-> "number", is |-> n]
Str(s) == [type |-> "text", is |-> s]
Yes(b) == [type |-> "truth", is |-> b]
Unread == [type |-> "none", is |-> "none"]

Facts(s, m, d, p, u, names) ==
  [sysctl |-> s, memory |-> m, disk |-> d, port |-> p, unit |-> u, processes |-> names]
SomeHosts ==
  { Facts(Str("10"), Num(20), Num(10), TRUE, Yes(TRUE), <<"init", "web">>),
    Facts(Str("always"), Unread, Num(10), FALSE, Yes(TRUE), <<"init", "web">>),
    Facts(Str(""), Num(20), Num(10), TRUE, Unread, <<"init", "shell", "web">>),
    Facts(Str("20"), Num(10), Unread, TRUE, Yes(FALSE), <<"init">>) }

Cond(p, o, v, t) == [probe |-> p, operator |-> o, value |-> v, target |-> t]
SomeConditions ==
  { Cond("sysctl", "eq", Num(10), "k"), Cond("sysctl", "eq", Str("10"), "k"),
    Cond("sysctl", "gt", Str("10"), "k"), Cond("sysctl", "ne", Str("always"), "k"),
    Cond("sysctl", "lte", Num(20), ""), Cond("sysctl", "eq", Yes(TRUE), "k"),
    Cond("memory", "lt", Num(20), ""), Cond("memory", "eq", Yes(FALSE), ""),
    Cond("memory", "eq", Str("always"), ""),
    Cond("disk", "gte", Num(10), "/"),
    Cond("port", "eq", Yes(TRUE), "80"), Cond("port", "eq", Num(1), "80"),
    Cond("port", "gt", Num(1), "80"), Cond("port", "ne", Str("true"), "80"),
    Cond("process", "eq", Yes(FALSE), "web"), Cond("process", "eq", Yes(TRUE), "web"),
    Cond("service", "eq", Str("active"), "web"), Cond("service", "ne", Yes(TRUE), "web") }

H == INSTANCE HostTools
C == INSTANCE PostConditions WITH host <- facts

L == INSTANCE LocalEngine WITH row <- runs

toolVars == <<policy, op, pc, told, prior, daemon, systemd, effects>>
conditionVars == <<facts, asked, results, truth, outcome>>
localVars == <<runs, gate, task, cli, inbox, engine, window, work, ui, orphans, away, odd>>
allVars == <<part, vars, toolVars, conditionVars, localVars>>

\* A part that does not move starts in one state.
InitAll ==
  /\ part \in {"changes", "tools", "conditions", "local"}
  /\ Init /\ H!Init /\ C!Init /\ L!Init
  /\ part # "tools" =>
       policy = [enabled |-> TRUE, mutations |-> TRUE, backend |-> "direct"]
  /\ part # "conditions" => asked = <<>> /\ facts.sysctl = Str("10")

NextAll ==
  \/ part = "changes" /\ Next /\ UNCHANGED <<part, toolVars, conditionVars, localVars>>
  \/ part = "tools" /\ H!Next /\ UNCHANGED <<part, vars, conditionVars, localVars>>
  \/ part = "conditions" /\ C!Next /\ UNCHANGED <<part, vars, toolVars, localVars>>
  \/ part = "local" /\ L!Next /\ UNCHANGED <<part, vars, toolVars, conditionVars>>

SpecAll == InitAll /\ [][NextAll]_allVars

\* The properties of the modules, stated there.
AnswerIsTrue == H!AnswerIsTrue
LaterCallPrevails == H!LaterCallPrevails
KeptIsTrue == C!KeptIsTrue
RunIsDriven == L!RunIsDriven
ExitTells == L!ExitTells
SendIsOwed == L!SendIsOwed

=============================================================================
