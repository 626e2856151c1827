------------------------------ MODULE Admission ------------------------------
(***************************************************************************)
(* How runs come into being: Conductor.submit_message (orchestration.py)   *)
(* with its idempotency lookup, quotas (quotas.py) and planning call, used  *)
(* by API clients and by the workers that fire schedules (scheduler.py).    *)
(*                                                                         *)
(* A submission is two transactions: the first looks up the key and counts  *)
(* rows, the second inserts the run.  A sweep is two transactions as well,  *)
(* one statement reads the schedules and later ones mark them, followed by  *)
(* one submission after another.  Sessions are READ COMMITTED.              *)
(***************************************************************************)
EXTENDS Naturals, Sequences, FiniteSets

CONSTANTS
  Client,     \* concurrent API requests
  Worker,     \* worker slots running fire_schedules_job
  Schedule,   \* schedules of the workspace, enabled when the model starts
  Key,        \* idempotency keys that clients use
  NoKey,      \* a submission without a key
  DueAt,        \* minute -> the schedules whose cron expression matches it
  MaxActive,  \* max_concurrent_runs_per_workspace
  MaxRecent,  \* max_runs_per_hour_per_workspace
  LastMinute, \* bound: minutes 0..LastMinute
  MaxSubmits, \* bound: submissions by clients
  MaxFaults   \* bound: workers that die, planning or publishing that fails

VARIABLES
  runs,       \* the runs table: [for, key, active, recent], in insertion order
  sub,        \* the submission each client or worker is in
  sweep,      \* the local state of each worker's fire_due_schedules
  last,       \* schedules.last_fired_at, by minute; deleted rows are not in it
  fires,      \* sessions created by sweeps: <<schedule, minute, sweep>>
  jobs,       \* fire_schedules jobs that arq's cron has enqueued
  minute,     \* the clock
  count       \* submissions, sweeps started, faults and refusals so far

vars == <<runs, sub, sweep, last, fires, jobs, minute, count>>

Submitter == Client \cup Worker
Minute == 0..LastMinute

NoSub   == [pc |-> "idle"]
NoSweep == [pc |-> "idle"]
Submitting(p) == sub[p].pc # "idle"

\* quotas.py, current_usage.
Active == {i \in DOMAIN runs : runs[i].active}
Recent == {i \in DOMAIN runs : runs[i].recent}

\* (Mutation: off by one.)
ExceededLate(used, limit) == limit > 0 /\ Cardinality(used) > limit

\* A limit of zero is switched off.
Exceeded(used, limit) == limit > 0 /\ Cardinality(used) >= limit

-----------------------------------------------------------------------------
(* submit_message.                                                         *)

\* The first transaction: a known key returns the run it has, a full quota
\* refuses, otherwise the submission goes on (to the planner, if asked).
Known(key) == key # NoKey /\ \E i \in DOMAIN runs : runs[i].key = key

OverQuota == Exceeded(Active, MaxActive) \/ Exceeded(Recent, MaxRecent)

Proceed(p, for, key) ==
  /\ ~Known(key) /\ ~OverQuota
  /\ sub' = [sub EXCEPT ![p] = [pc |-> "admitted", for |-> for, key |-> key]]

ClientSubmit(c, key) ==
  /\ ~Submitting(c) /\ count.submits < MaxSubmits
  /\ \/ Proceed(c, c, key)
     \/ (Known(key) \/ OverQuota) /\ UNCHANGED sub
  /\ count' = [count EXCEPT !.submits = @ + 1]
  /\ UNCHANGED <<runs, sweep, last, fires, jobs, minute>>

\* The second transaction.
Insert(p) ==
  /\ runs' = Append(runs, [for |-> sub[p].for, key |-> sub[p].key,
                           active |-> TRUE, recent |-> TRUE])
  /\ sub' = [sub EXCEPT ![p] = NoSub]

ClientInsert(c) ==
  /\ Submitting(c)
  /\ Insert(c)
  /\ UNCHANGED <<sweep, last, fires, jobs, minute, count>>

\* The planner's model call raises, or the request is cancelled.
ClientFails(c) ==
  /\ Submitting(c) /\ count.faults < MaxFaults
  /\ sub' = [sub EXCEPT ![c] = NoSub]
  /\ count' = [count EXCEPT !.faults = @ + 1]
  /\ UNCHANGED <<runs, sweep, last, fires, jobs, minute>>

\* A run reaches a terminal status; an hour passes for a run.
RunEnds(i) ==
  /\ runs[i].active
  /\ runs' = [runs EXCEPT ![i].active = FALSE]
  /\ UNCHANGED <<sub, sweep, last, fires, jobs, minute, count>>

HourPasses(i) ==
  /\ runs[i].recent /\ \A j \in 1..i - 1 : ~runs[j].recent
  /\ runs' = [runs EXCEPT ![i].recent = FALSE]
  /\ UNCHANGED <<sub, sweep, last, fires, jobs, minute, count>>

-----------------------------------------------------------------------------
(* fire_due_schedules.                                                     *)

\* arq's cron enqueues one job per minute; a busy worker takes it late.
Tick ==
  /\ minute < LastMinute
  /\ minute' = minute + 1
  /\ jobs' = jobs + 1
  /\ UNCHANGED <<runs, sub, sweep, last, fires, count>>

\* The select: due by the clock of this worker and not fired this minute.
\* last is minute + 1, and 0 for never.
StartSweep(w) ==
  /\ sweep[w].pc = "idle" /\ jobs > 0
  /\ jobs' = jobs - 1
  /\ count' = [count EXCEPT !.sweeps = @ + 1]
  /\ sweep' = [sweep EXCEPT ![w] =
       [pc |-> "selected", at |-> minute, id |-> count.sweeps,
        list |-> {s \in DOMAIN last \cap DueAt[minute] : last[s] # minute + 1}]]
  /\ UNCHANGED <<runs, sub, last, fires, minute>>

\* The rows are marked by id and get a session each; a row deleted meanwhile
\* fails the flush and with it the whole sweep.
MarkDue(w) ==
  /\ sweep[w].pc = "selected"
  /\ LET k == sweep[w] IN
     \/ /\ k.list \subseteq DOMAIN last
        /\ last' = [s \in DOMAIN last |->
                      IF s \in k.list THEN k.at + 1 ELSE last[s]]
        /\ fires' = fires \cup {<<s, k.at, k.id>> : s \in k.list}
        /\ sweep' = [sweep EXCEPT ![w].pc = "firing"]
     \/ /\ ~(k.list \subseteq DOMAIN last)
        /\ sweep' = [sweep EXCEPT ![w] = NoSweep]
        /\ UNCHANGED <<last, fires>>
  /\ UNCHANGED <<runs, sub, jobs, minute, count>>

\* One submission after another; the error of one ends the sweep.
FireNext(w, s) ==
  /\ sweep[w].pc = "firing" /\ ~Submitting(w)
  /\ s \in sweep[w].list
  /\ \/ /\ Proceed(w, <<s, sweep[w].at, sweep[w].id>>, NoKey)
        /\ sweep' = [sweep EXCEPT ![w].list = @ \ {s}]
        /\ UNCHANGED count
     \/ /\ OverQuota
        /\ sweep' = [sweep EXCEPT ![w] = NoSweep]
        /\ count' = [count EXCEPT !.refusals = @ + 1]
        /\ UNCHANGED sub
  /\ UNCHANGED <<runs, last, fires, jobs, minute>>

\* (Mutations: a schedule stays on the list after its submission; the sweep
\* takes itself for done after its first run.)
SweepInsertAgain(w) ==
  /\ Submitting(w)
  /\ Insert(w)
  /\ sweep' = [sweep EXCEPT ![w].list = @ \cup {sub[w].for[1]}]
  /\ UNCHANGED <<last, fires, jobs, minute, count>>
SweepInsertOnce(w) ==
  /\ Submitting(w)
  /\ Insert(w)
  /\ sweep' = [sweep EXCEPT ![w].list = {}]
  /\ UNCHANGED <<last, fires, jobs, minute, count>>

SweepInsert(w) ==
  /\ Submitting(w)
  /\ Insert(w)
  /\ UNCHANGED <<sweep, last, fires, jobs, minute, count>>

SweepEnds(w) ==
  /\ sweep[w].pc = "firing" /\ sweep[w].list = {} /\ ~Submitting(w)
  /\ sweep' = [sweep EXCEPT ![w] = NoSweep]
  /\ UNCHANGED <<runs, sub, last, fires, jobs, minute, count>>

\* The worker dies, or publishing the event raises.  arq runs the job of a
\* worker that died again.
SweepFails(w) ==
  /\ sweep[w].pc # "idle" /\ count.faults < MaxFaults
  /\ sweep' = [sweep EXCEPT ![w] = NoSweep]
  /\ sub' = [sub EXCEPT ![w] = NoSub]
  /\ jobs' \in {jobs, jobs + 1}
  /\ count' = [count EXCEPT !.faults = @ + 1]
  /\ UNCHANGED <<runs, last, fires, minute>>

DeleteSchedule(s) ==
  /\ s \in DOMAIN last
  /\ last' = [x \in DOMAIN last \ {s} |-> last[x]]
  /\ UNCHANGED <<runs, sub, sweep, fires, jobs, minute, count>>

-----------------------------------------------------------------------------
Init ==
  /\ runs = <<>>
  /\ sub = [p \in Submitter |-> NoSub]
  /\ sweep = [w \in Worker |-> NoSweep]
  /\ last = [s \in Schedule |-> 0]
  /\ fires = {}
  /\ jobs = 1
  /\ minute = 0
  /\ count = [submits |-> 0, sweeps |-> 0, faults |-> 0, refusals |-> 0]

ClientStep(c) ==
  \/ \E k \in Key \cup {NoKey} : ClientSubmit(c, k)
  \/ ClientInsert(c)
  \/ ClientFails(c)

SweepStep(w) ==
  \/ StartSweep(w)
  \/ MarkDue(w)
  \/ \E s \in Schedule : FireNext(w, s)
  \/ SweepInsert(w)
  \/ SweepEnds(w)
  \/ SweepFails(w)

Next ==
  \/ \E c \in Client : ClientStep(c)
  \/ \E w \in Worker : SweepStep(w)
  \/ \E i \in DOMAIN runs : RunEnds(i) \/ HourPasses(i)
  \/ \E s \in Schedule : DeleteSchedule(s)
  \/ Tick

Spec == Init /\ [][Next]_vars

-----------------------------------------------------------------------------
(* Properties.                                                             *)

Fire == Schedule \X Minute \X Nat
RunType == [for: Client \cup Fire, key: Key \cup {NoKey},
            active: BOOLEAN, recent: BOOLEAN]
SubType == {NoSub} \cup
           [pc: {"admitted"}, for: Client \cup Fire, key: Key \cup {NoKey}]
SweepType == {NoSweep} \cup [pc: {"selected", "firing"}, at: Minute, id: Nat,
                             list: SUBSET Schedule]

TypeOK ==
  /\ runs \in Seq(RunType)
  /\ sub \in [Submitter -> SubType]
  /\ sweep \in [Worker -> SweepType]
  /\ DOMAIN last \subseteq Schedule /\ \A s \in DOMAIN last : last[s] \in Nat
  /\ fires \subseteq Fire
  /\ jobs \in Nat /\ minute \in Minute
  /\ count \in [submits: Nat, sweeps: Nat, faults: Nat, refusals: Nat]

\* The quotas hold up to the submissions at work: each limit can be passed by
\* one run for every other submission that was counting at the same time
\* (enforce_run_quota counts in one transaction, submit_message inserts in
\* another), and by no more, however submissions, ends and the hour interleave.
Admitted == {p \in Submitter : Submitting(p)}

Within(used, limit) ==
  limit > 0 => Cardinality(used) + Cardinality(Admitted)
                 <= limit + Cardinality(Submitter) - 1

QuotaHolds == Within(Active, MaxActive) /\ Within(Recent, MaxRecent)

Listed(w, f) ==
  sweep[w].pc = "firing" /\ sweep[w].id = f[3] /\ f[1] \in sweep[w].list

\* A firing makes one run at most, although its sweep can be started again
\* after a crash: "a crash mid-submit cannot re-fire the minute" (scheduler.py,
\* fire_due_schedules), because the mark is committed first.  And what a sweep
\* has marked no later sweep will make up for: every firing has its run or is
\* still to get it, unless a worker died or a submission was refused.
MarkedFiresOnce ==
  /\ \A i \in DOMAIN runs : runs[i].for \in fires =>
       /\ \A j \in DOMAIN runs : runs[j].for = runs[i].for => j = i
       /\ \A w \in Worker : ~Listed(w, runs[i].for)
  /\ count.faults = 0 /\ count.refusals = 0 =>
       \A f \in fires :
         \/ \E i \in DOMAIN runs : runs[i].for = f
         \/ \E w \in Worker : \/ Submitting(w) /\ sub[w].for = f
                              \/ Listed(w, f)

=============================================================================
