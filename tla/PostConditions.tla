--------------------------- MODULE PostConditions ---------------------------
(***************************************************************************)
(* The post-conditions of a guarded change (remediation/conditions.py) over *)
(* the probes they read the host with (system/probe.py).  The conditions    *)
(* are evaluated one after another while the host goes on; a verdict that   *)
(* they hold keeps the change, any other reverts it.                        *)
(***************************************************************************)
EXTENDS Integers, Sequences, FiniteSets

CONSTANTS
  Hosts,       \* bound: the states of the host
  Conditions,  \* bound: what agents ask for, [probe, operator, value, target]
  NumberOf,    \* float(s) of the texts that are numbers, a function
  Truthy,      \* the texts that _as_bool takes for true
  ProcessLimit \* list_processes(limit=200)

VARIABLES
  host,    \* what is so on the host
  asked,   \* the conditions of the change
  results, \* a verdict for each that has been evaluated: [met, seen]
  truth,   \* history: for each of them, whether it was true of the host then
  outcome  \* all_met, once every condition has its verdict

vars == <<host, asked, results, truth, outcome>>

-----------------------------------------------------------------------------
(* Values.                                                                 *)

Num(n) == [type |-> "number", is |-> n]
Str(s) == [type |-> "text", is |-> s]
Bool(b) == [type |-> "truth", is |-> b]
Unobservable == [type |-> "none", is |-> "none"]

-----------------------------------------------------------------------------
(* The probes.  A host is [sysctl, memory, disk, port, unit, processes]: a  *)
(* reading each, and the names of its processes in the order of their pids. *)

\* A sysctl is read as text; an empty one is not readable.
ReadSysctl(h) == IF h.sysctl = Str("") THEN Unobservable ELSE h.sysctl

Listening(h) == Bool(h.port)

\* list_processes: the first of them by pid.
Listed(h) ==
  {h.processes[i] : i \in {j \in DOMAIN h.processes : j <= ProcessLimit}}

ServiceIsActive(h) == h.unit

\* resource_snapshot: used of the total, where both could be read.
MemoryUsed(h) == h.memory
DiskUsed(h) == h.disk

Needs == {"sysctl", "disk", "port", "process", "service"}

Observe(h, c) ==
  IF c.probe \in Needs /\ c.target = "" THEN Unobservable
  ELSE CASE c.probe = "sysctl" -> ReadSysctl(h)
         [] c.probe = "port" -> Listening(h)
         [] c.probe = "process" -> Bool(c.target \in Listed(h))
         [] c.probe = "service" -> ServiceIsActive(h)
         [] c.probe = "memory" -> MemoryUsed(h)
         [] c.probe = "disk" -> DiskUsed(h)

-----------------------------------------------------------------------------
(* Comparison.                                                             *)

IsNumber(v) ==
  v.type = "number" \/ (v.type = "text" /\ v.is \in DOMAIN NumberOf)
AsNumber(v) == IF v.type = "number" THEN v.is ELSE NumberOf[v.is]

\* str(1.0) is "1.0", which is not among the texts for true.
AsBool(v) ==
  IF v.type = "truth" THEN v.is ELSE v.type = "text" /\ v.is \in Truthy

LooselyEqual(a, b) ==
  IF "truth" \in {a.type, b.type} THEN AsBool(a) = AsBool(b)
  ELSE IF IsNumber(a) /\ IsNumber(b) THEN AsNumber(a) = AsNumber(b)
  ELSE a.type = b.type /\ a.is = b.is

Ordered(x, operator, y) ==
  CASE operator = "lt" -> x < y
    [] operator = "lte" -> x <= y
    [] operator = "gt" -> x > y
    [] operator = "gte" -> x >= y

\* (Mutation: what cannot be ordered counts as met.)
CompareAnyhow(seen, operator, value) ==
  CASE operator = "eq" -> LooselyEqual(seen, value)
    [] operator = "ne" -> ~LooselyEqual(seen, value)
    [] OTHER -> IsNumber(seen) /\ IsNumber(value) =>
                  Ordered(AsNumber(seen), operator, AsNumber(value))

\* An order between values that are not both numbers is nonsense, and unmet.
Compare(seen, operator, value) ==
  CASE operator = "eq" -> LooselyEqual(seen, value)
    [] operator = "ne" -> ~LooselyEqual(seen, value)
    [] OTHER -> /\ IsNumber(seen) /\ IsNumber(value)
                /\ Ordered(AsNumber(seen), operator, AsNumber(value))

-----------------------------------------------------------------------------
(* What a condition says, whoever looks: a reading that is not there makes  *)
(* it false, and so does an order between things that have none.            *)

Means(v) == IF IsNumber(v) THEN <<"number", AsNumber(v)>> ELSE <<v.type, v.is>>

Same(a, b) ==
  IF a.type = "truth" /\ b.type = "text" THEN a.is = (b.is \in Truthy)
  ELSE IF b.type = "truth" /\ a.type = "text" THEN b.is = (a.is \in Truthy)
  ELSE Means(a)[1] = Means(b)[1] /\ Means(a)[2] = Means(b)[2]

\* The whole host, not the part of it that a probe lists.
Real(h, c) ==
  IF c.probe = "process" /\ c.target # ""
    THEN Bool(\E i \in DOMAIN h.processes : h.processes[i] = c.target)
    ELSE Observe(h, c)

True(h, c) ==
  LET v == Real(h, c) IN
  /\ v.type # "none"
  /\ CASE c.operator = "eq" -> Same(v, c.value)
       [] c.operator = "ne" -> ~Same(v, c.value)
       [] OTHER -> /\ IsNumber(v) /\ IsNumber(c.value)
                   /\ Ordered(AsNumber(v), c.operator, AsNumber(c.value))

-----------------------------------------------------------------------------
(* evaluate_conditions and all_met.                                        *)

HostChanges ==
  /\ outcome = "open"
  /\ host' \in Hosts
  /\ UNCHANGED <<asked, results, truth, outcome>>

\* Never raises: a probe that fails, or that cannot read, is an unmet condition.
EvaluateNext ==
  /\ Len(results) < Len(asked)
  /\ LET c == asked[Len(results) + 1]
         seen == Observe(host, c) IN
     /\ \E fault \in BOOLEAN :
          results' = Append(results,
            IF fault \/ seen.type = "none" THEN [met |-> FALSE, seen |-> Unobservable]
            ELSE [met |-> Compare(seen, c.operator, c.value), seen |-> seen])
     /\ truth' = Append(truth, True(host, c))
  /\ UNCHANGED <<host, asked, outcome>>

AllMet ==
  /\ outcome = "open" /\ Len(results) = Len(asked)
  /\ outcome' = IF \A i \in DOMAIN results : results[i].met THEN "verified" ELSE "failed"
  /\ UNCHANGED <<host, asked, results, truth>>

Init ==
  /\ host \in Hosts
  /\ asked \in {<<>>} \cup {<<a>> : a \in Conditions}
                \cup {<<a, b>> : a, b \in Conditions}
  /\ results = <<>> /\ truth = <<>> /\ outcome = "open"

Next == HostChanges \/ EvaluateNext \/ AllMet

Spec == Init /\ [][Next]_vars

-----------------------------------------------------------------------------
(* Properties.                                                             *)

\* Where the verdict is not to be relied on: a process that was not found, which
\* may be one that is not listed, and a yes or no compared with a number, which
\* counts as no whatever it is.
Blind(c, seen) ==
  \/ c.probe = "process" /\ seen.type = "truth" /\ ~seen.is
  \/ {seen.type, c.value.type} = {"truth", "number"}

\* "The safe direction" (conditions.py): a change is only kept when each of its
\* conditions was true of the host at the moment it was looked at; what could
\* not be observed, or makes no sense, reverts it.
KeptIsTrue ==
  outcome = "verified" =>
    \A i \in DOMAIN asked : truth[i] \/ Blind(asked[i], results[i].seen)

=============================================================================
