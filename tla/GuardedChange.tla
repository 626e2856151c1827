--------------------------- MODULE GuardedChange ---------------------------
(***************************************************************************)
(* Guarded host changes (remediation/guard.py, ledger.py): the guard that   *)
(* records, applies and verifies a change, the row of table change_records, *)
(* the operators and agents that revert or confirm it through the API or    *)
(* the tools, and the dead-man sweep of the worker.                         *)
(*                                                                         *)
(* An inverse is applied to the host inside the transaction that later      *)
(* updates the row, so host and row can disagree in between.  Enable and    *)
(* disable have the shape of start and stop, reload that of restart.        *)
(***************************************************************************)
EXTENDS Naturals, FiniteSets

CONSTANTS
  Change,       \* ids of change_records rows, one guard call each
  Operator,     \* API requests and agent tools that revert or confirm
  Sweeper,      \* the worker's cron job revert_expired_changes_job
  Key,          \* sysctl keys
  ExtraKey,     \* keys allowed by system_sysctl_allowlist only
  Unit,         \* systemd units
  Value,        \* sysctl values
  TargetOf,     \* the key or unit each change is about
  NoRequest,    \* a guard that has not been called
  MaxCrashes,   \* bound: guards and transactions that die in the middle
  MaxFails,     \* bound: host operations that fail without effect
  MaxLate,      \* bound: systemctl calls reported failed that take effect
  LongWindows   \* TRUE: confirmation windows outlast the guard itself

Target  == Key \cup Unit
Running == {"active", "inactive"}
State   == Value \cup Running
Actor   == Operator \cup Change \cup {Sweeper}

Status == {"none", "applied", "verified", "confirmed", "reverted",
           "revert_failed", "unrevertible"}

\* What a guard call asks for: conditions to verify, a dead-man window.
Action(t) == IF t \in Key THEN Value ELSE {"start", "stop", "restart"}
Request(c) == [action: Action(TargetOf[c]), conds: BOOLEAN, window: BOOLEAN]

ASSUME GuardAssumption ==
  /\ ExtraKey \subseteq Key /\ Key \cap Unit = {}
  /\ TargetOf \in [Change -> Target]
  /\ \A c \in Change : NoRequest \notin Request(c)
  /\ Sweeper \notin Operator \cup Change /\ Operator \cap Change = {}
  /\ Value \cap (Running \cup {"start", "stop", "restart"}) = {}
  /\ MaxCrashes \in Nat /\ MaxFails \in Nat /\ MaxLate \in Nat
  /\ LongWindows \in BOOLEAN

VARIABLES
  host,    \* the value or activity of each key and unit
  row,     \* the change_records table
  call,    \* what each guard was asked
  guard,   \* where each guard is, and the prior value it read
  actor,   \* the open transaction of each actor that reverts or confirms
  latest,  \* (history) the change last applied to each target, with the state
           \* the target had just before
  faults   \* how many faults of each kind have happened

vars == <<host, row, call, guard, actor, latest, faults>>

NoRow   == [status |-> "none", prev |-> "none", expires |-> "never"]
Idle    == [pc |-> "idle", todo |-> {}, done |-> {}, failed |-> {}]
Nothing == [by |-> NoRequest, from |-> "none"]

Init ==
  /\ host \in {h \in [Target -> State] :
                 \A t \in Target : h[t] \in IF t \in Key THEN Value ELSE Running}
  /\ row = [c \in Change |-> NoRow]
  /\ call = [c \in Change |-> NoRequest]
  /\ guard = [c \in Change |-> [pc |-> "new", prior |-> "none"]]
  /\ actor = [a \in Actor |-> Idle]
  /\ latest = [t \in Target |-> Nothing]
  /\ faults = [crash |-> 0, fail |-> 0, late |-> 0]

\* What applying an action leaves the target in (write_sysctl, systemctl).
Effect(action) ==
  CASE action \in {"start", "restart"} -> "active"
    [] action = "stop"                 -> "inactive"
    [] OTHER                           -> action

\* record_change: restart has no entry in _SERVICE_INVERSE.
Revertible(c) == call[c] # NoRequest /\ call[c].action # "restart"

\* _apply_inverse: a key gets the recorded value, a unit the opposite action.
InverseState(c) ==
  CASE call[c].action = "start" -> "inactive"
    [] call[c].action = "stop"  -> "active"
    [] OTHER                    -> row[c].prev

\* The policy revert_expired_changes builds leaves out the operator's extra
\* allowlist; those of the API and of the tools include it.
Allows(a, c) == a = Sweeper => TargetOf[c] \notin ExtraKey

Goto(c, pc) == guard' = [guard EXCEPT ![c].pc = pc]

-----------------------------------------------------------------------------
(* apply_guarded, one guard per change.                                    *)

\* _read_prior_state, before anything is written anywhere.
ReadPriorState(c) ==
  /\ guard[c].pc = "new"
  /\ \E r \in Request(c) : call' = [call EXCEPT ![c] = r]
  /\ guard' = [guard EXCEPT ![c] = [pc |-> "record",
                                    prior |-> host[TargetOf[c]]]]
  /\ UNCHANGED <<host, row, actor, latest, faults>>

\* record_change.
RecordChange(c) ==
  /\ guard[c].pc = "record"
  /\ row' = [row EXCEPT ![c] =
       [status  |-> IF Revertible(c) THEN "applied" ELSE "unrevertible",
        prev    |-> guard[c].prior,
        expires |-> IF call[c].window /\ Revertible(c)
                      THEN "later" ELSE "never"]]
  /\ Goto(c, "apply")
  /\ UNCHANGED <<host, call, actor, latest, faults>>

\* The change reaches the host.
TakeEffect(c) ==
  LET t == TargetOf[c] IN
  /\ host' = [host EXCEPT ![t] = Effect(call[c].action)]
  /\ latest' = [latest EXCEPT ![t] = [by |-> c, from |-> host[t]]]

\* (Mutation: the host is changed before the ledger row is written.)
ApplyUnrecorded(c) ==
  /\ guard[c].pc = "record"
  /\ TakeEffect(c)
  /\ UNCHANGED <<row, call, guard, actor, faults>>

\* _apply succeeds; without conditions the guard is done.
Apply(c) ==
  /\ guard[c].pc = "apply"
  /\ TakeEffect(c)
  /\ Goto(c, IF call[c].conds THEN "verify" ELSE "done")
  /\ UNCHANGED <<row, call, actor, faults>>

\* _apply is refused or fails: write_sysctl or systemctl reports an error, or
\* systemctl is killed after its sixty seconds while systemd carries on.
ApplyFails(c) ==
  /\ guard[c].pc = "apply"
  /\ \/ /\ faults.fail < MaxFails
        /\ faults' = [faults EXCEPT !.fail = @ + 1]
        /\ UNCHANGED <<host, latest>>
     \/ /\ faults.late < MaxLate
        /\ TargetOf[c] \in Unit
        /\ faults' = [faults EXCEPT !.late = @ + 1]
        /\ TakeEffect(c)
  /\ Goto(c, "undone")
  /\ UNCHANGED <<row, call, actor>>

\* (Mutation: the window is left armed.)
SettleArmed(c, status) ==
  row' = [row EXCEPT ![c] = [@ EXCEPT !.status = status]]

\* _settle: an update by id that also disarms the window.
Settle(c, status) ==
  row' = [row EXCEPT ![c] =
            [@ EXCEPT !.status = status, !.expires = "never"]]

\* (Mutation: the early return is missing, the guard goes on to verify.)
SettleUnappliedFallsThrough(c) ==
  /\ guard[c].pc = "undone"
  /\ Settle(c, "reverted")
  /\ Goto(c, "verify")
  /\ UNCHANGED <<host, call, actor, latest, faults>>

\* "Nothing changed, so there is nothing to undo": the row is closed.
SettleUnapplied(c) ==
  /\ guard[c].pc = "undone"
  /\ Settle(c, "reverted")
  /\ Goto(c, "done")
  /\ UNCHANGED <<host, call, actor, latest, faults>>

\* evaluate_conditions, after the settle window.
Verify(c) ==
  /\ guard[c].pc = "verify"
  /\ \E met \in BOOLEAN : Goto(c, IF met THEN "met" ELSE "unmet")
  /\ UNCHANGED <<host, row, call, actor, latest, faults>>

SettleVerified(c) ==
  /\ guard[c].pc = "met"
  /\ Settle(c, "verified")
  /\ Goto(c, "done")
  /\ UNCHANGED <<host, call, actor, latest, faults>>

SettleUnrevertible(c) ==
  /\ guard[c].pc = "unmet"
  /\ ~Revertible(c)
  /\ Settle(c, "unrevertible")
  /\ Goto(c, "done")
  /\ UNCHANGED <<host, call, actor, latest, faults>>

\* revert_change on a freshly read record: nothing to do, or start to undo.
BeginUndo(a, c) ==
  IF row[c].status \in {"reverted", "confirmed"}
    THEN UNCHANGED actor
    ELSE actor' = [actor EXCEPT ![a] =
                     [Idle EXCEPT !.pc = "undoing", !.todo = {c}]]

\* (Mutation: the verdict is returned, the change is not undone.)
AutoRevertForgotten(c) ==
  /\ guard[c].pc = "unmet"
  /\ Revertible(c)
  /\ Goto(c, "done")
  /\ UNCHANGED <<host, row, call, actor, latest, faults>>

\* The post-conditions failed: the guard's own revert.
AutoRevert(c) ==
  /\ guard[c].pc = "unmet"
  /\ Revertible(c)
  /\ BeginUndo(c, c)
  /\ Goto(c, "done")
  /\ UNCHANGED <<host, row, call, latest, faults>>

\* The worker dies, the tool call times out or an exception other than
\* UnsafeOperationError leaves the guard; a systemctl under way still ends.
GuardDies(c) ==
  /\ faults.crash < MaxCrashes
  /\ guard[c].pc \notin {"new", "done", "dead"}
  /\ faults' = [faults EXCEPT !.crash = @ + 1]
  /\ \/ UNCHANGED <<host, latest>>
     \/ guard[c].pc = "apply" /\ TakeEffect(c)
  /\ Goto(c, "dead")
  /\ UNCHANGED <<row, call, actor>>

-----------------------------------------------------------------------------
(* The three callers of revert_change, and confirm_change.                 *)

\* POST /changes/{id}/revert, or the change.revert tool.
RevertRequest(o, c) ==
  /\ actor[o].pc = "idle"
  /\ row[c].status # "none" /\ Revertible(c)
  /\ row[c].status \notin {"reverted", "confirmed"}
  /\ BeginUndo(o, c)
  /\ UNCHANGED <<host, row, call, guard, latest, faults>>

\* (Mutation: only verified changes are swept.)
DueVerified ==
  {c \in Change : row[c].status = "verified" /\ row[c].expires = "past"}

\* revert_expired_changes: one select, and one transaction for all of it.
Due == {c \in Change : row[c].status = "applied" /\ row[c].expires = "past"}

BeginSweep ==
  /\ actor[Sweeper].pc = "idle"
  /\ Due # {}
  /\ actor' = [actor EXCEPT ![Sweeper] =
                 [Idle EXCEPT !.pc = "undoing", !.todo = Due]]
  /\ UNCHANGED <<host, row, call, guard, latest, faults>>

\* (Mutation: the row is marked, the inverse never runs.)
UndoOnPaper(a, c) ==
  /\ actor[a].pc = "undoing" /\ c \in actor[a].todo
  /\ actor' = [actor EXCEPT ![a].todo = @ \ {c}, ![a].done = @ \cup {c}]
  /\ UNCHANGED <<host, row, call, guard, latest, faults>>

\* revert_change applies the inverse of one record ...
Undo(a, c) ==
  /\ actor[a].pc = "undoing" /\ c \in actor[a].todo
  /\ \/ /\ Allows(a, c)
        /\ host' = [host EXCEPT ![TargetOf[c]] = InverseState(c)]
        /\ actor' = [actor EXCEPT ![a].todo = @ \ {c}, ![a].done = @ \cup {c}]
        /\ UNCHANGED faults
     \/ /\ ~Allows(a, c)
        /\ actor' = [actor EXCEPT ![a].todo = @ \ {c}, ![a].failed = @ \cup {c}]
        /\ UNCHANGED <<host, faults>>
     \/ /\ faults.fail < MaxFails
        /\ faults' = [faults EXCEPT !.fail = @ + 1]
        /\ actor' = [actor EXCEPT ![a].todo = @ \ {c}, ![a].failed = @ \cup {c}]
        /\ UNCHANGED host
  /\ UNCHANGED <<row, call, guard, latest>>

\* ... and the rows change when the transaction commits.
CommitUndo(a) ==
  /\ actor[a].pc = "undoing" /\ actor[a].todo = {}
  /\ row' = [c \in Change |->
       IF c \in actor[a].done
         THEN [row[c] EXCEPT !.status = "reverted", !.expires = "never"]
         ELSE IF c \in actor[a].failed
           THEN [row[c] EXCEPT !.status = "revert_failed", !.expires = "never"]
           ELSE row[c]]
  /\ actor' = [actor EXCEPT ![a] = Idle]
  /\ UNCHANGED <<host, call, guard, latest, faults>>

\* The process dies, or an exception rolls the transaction back.
UndoDies(a) ==
  /\ faults.crash < MaxCrashes
  /\ actor[a].pc = "undoing"
  /\ faults' = [faults EXCEPT !.crash = @ + 1]
  /\ actor' = [actor EXCEPT ![a] = Idle]
  /\ guard' = [c \in Change |->
                 IF c = a THEN [guard[c] EXCEPT !.pc = "dead"] ELSE guard[c]]
  /\ UNCHANGED <<host, row, call, latest>>

\* confirm_change reads the record and refuses what was reverted ...
ConfirmRead(o, c) ==
  /\ actor[o].pc = "idle"
  /\ row[c].status \notin {"none", "reverted", "revert_failed"}
  /\ actor' = [actor EXCEPT ![o] =
                 [Idle EXCEPT !.pc = "confirming", !.todo = {c}]]
  /\ UNCHANGED <<host, row, call, guard, latest, faults>>

\* ... and writes by id.
ConfirmWrite(o) ==
  /\ actor[o].pc = "confirming"
  /\ \E c \in actor[o].todo :
       row' = [row EXCEPT ![c] =
                 [@ EXCEPT !.status = "confirmed", !.expires = "never"]]
  /\ actor' = [actor EXCEPT ![o] = Idle]
  /\ UNCHANGED <<host, call, guard, latest, faults>>

\* The confirmation window of an armed row elapses.
WindowElapses(c) ==
  /\ row[c].expires = "later"
  /\ LongWindows => guard[c].pc \in {"done", "dead"} /\ actor[c].pc = "idle"
  /\ row' = [row EXCEPT ![c].expires = "past"]
  /\ UNCHANGED <<host, call, guard, actor, latest, faults>>

-----------------------------------------------------------------------------
GuardStep(c) ==
  \/ RecordChange(c)
  \/ Apply(c)
  \/ SettleUnapplied(c)
  \/ Verify(c)
  \/ SettleVerified(c)
  \/ SettleUnrevertible(c)
  \/ AutoRevert(c)

UndoStep(a) ==
  \/ \E c \in Change : Undo(a, c)
  \/ CommitUndo(a)

Next ==
  \/ \E c \in Change : \/ ReadPriorState(c) \/ GuardStep(c) \/ ApplyFails(c)
                       \/ GuardDies(c) \/ WindowElapses(c)
  \/ \E o \in Operator, c \in Change : RevertRequest(o, c) \/ ConfirmRead(o, c)
  \/ \E o \in Operator : ConfirmWrite(o)
  \/ BeginSweep
  \/ \E a \in Actor : UndoStep(a) \/ UndoDies(a)

Spec == Init /\ [][Next]_vars

\* asyncio runs the guard, the cron runs the sweep every minute, time passes.
Fairness ==
  /\ \A c \in Change : WF_vars(GuardStep(c)) /\ WF_vars(WindowElapses(c))
  /\ \A a \in Actor : WF_vars(UndoStep(a))
  /\ \A o \in Operator : WF_vars(ConfirmWrite(o))
  /\ WF_vars(BeginSweep)

FairSpec == Spec /\ Fairness

-----------------------------------------------------------------------------
(* Properties.                                                             *)

RowType   == [status: Status, prev: State \cup {"none"},
              expires: {"never", "later", "past"}]
GuardType == [pc: {"new", "record", "apply", "verify", "met", "unmet",
                   "undone", "done", "dead"}, prior: State \cup {"none"}]
ActorType == [pc: {"idle", "undoing", "confirming"}, todo: SUBSET Change,
              done: SUBSET Change, failed: SUBSET Change]

\* Types of the host, the table and the local states.
TypeOK ==
  /\ host \in [Target -> State]
  /\ row \in [Change -> RowType]
  /\ \A c \in Change : call[c] \in Request(c) \cup {NoRequest}
  /\ guard \in [Change -> GuardType]
  /\ actor \in [Actor -> ActorType]
  /\ latest \in [Target -> [by: Change \cup {NoRequest},
                            from: State \cup {"none"}]]
  /\ faults \in [crash: 0..MaxCrashes, fail: 0..MaxFails, late: 0..MaxLate]

TookEffect(c) == latest[TargetOf[c]].by = c

\* c is no longer what the host shows, because it was undone or because a
\* later change has replaced it.
Undone(c) == TookEffect(c) => host[TargetOf[c]] = InverseState(c)

\* A change never exists on the host without a stored path back: its row is
\* there, and holds the value the key had just before (record_change comes
\* before _apply, whatever crashes in between).
PathBack ==
  \A c \in Change : TookEffect(c) =>
    /\ row[c].status # "none"
    /\ TargetOf[c] \in Key => row[c].prev = latest[TargetOf[c]].from

\* An armed window can fire: the sweep selects applied rows, and every update
\* that takes a row out of applied disarms it; what has no inverse is never
\* armed.
ArmedIsSwept ==
  \A c \in Change : row[c].expires # "never" =>
    row[c].status = "applied" /\ Revertible(c)

\* A row that says reverted tells the truth about the host.
RevertedIsUndone ==
  \A c \in Change : row[c].status = "reverted" => Undone(c)

\* Where nobody reverts by hand, the guards and the sweep keep the ledger's
\* promise: a change is recorded before it is made, and made or undone only while
\* its row is open; a row is closed once, disarmed then, and says reverted only of
\* what is off the host (record_change, _settle, revert_change).
Ledger == INSTANCE ChangeLedger WITH
  status <- [c \in Change |-> row[c].status],
  armed  <- {c \in Change : row[c].expires # "never"},
  live   <- {c \in Change : ~Undone(c)}

ImplementsLedger == Ledger!Spec

\* A change whose window has elapsed leaves the host unless it was confirmed
\* (jobs.py: "unconfirmed changes must not outlive their window"), or its row
\* says that undoing it failed.
ExpiredIsSettled ==
  \A c \in Change :
    row[c].expires = "past"
      ~> row[c].status \in {"confirmed", "revert_failed"} \/ Undone(c)

\* A change that declares post-conditions is settled one way or the other
\* (guard.py: revert "including when verification itself could not run"), as
\* long as the guard itself survives.
GuardConcludes ==
  \A c \in Change :
    guard[c].pc = "verify"
      ~> row[c].status \notin {"none", "applied"} \/ guard[c].pc = "dead"

\* A change made with a window reverts unless a human confirms it
\* (docs/guarded-change.md).
DeadManFires ==
  \A c \in Change :
    TookEffect(c) /\ call[c].window
      ~> row[c].status = "confirmed" \/ Undone(c)

=============================================================================
