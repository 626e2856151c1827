------------------------ MODULE GuardedChange_proofs ------------------------
(***************************************************************************)
(* Proofs about GuardedChange, for any number of changes, operators and     *)
(* targets, and any number of faults.                                       *)
(***************************************************************************)
EXTENDS GuardedChange, TLAPS

\* Tables and local states have their fields, whatever the fields hold.
Shape ==
  /\ DOMAIN row = Change /\ DOMAIN guard = Change /\ DOMAIN call = Change
  /\ \A c \in Change : /\ DOMAIN row[c] = {"status", "prev", "expires"}
                       /\ DOMAIN guard[c] = {"pc", "prior"}

\* A guard that has not been called has armed nothing: what it will be asked,
\* and so whether its change can be reverted, is still open.
NewIsUnarmed ==
  \A c \in Change : guard[c].pc = "new" => row[c].expires = "never"

ArmedInv == Shape /\ NewIsUnarmed /\ ArmedIsSwept

\* Initially no window is armed.
LEMMA ArmedInit == Init => ArmedInv
  BY DEF Init, NoRow, ArmedInv, Shape, NewIsUnarmed, ArmedIsSwept

\* A row that is closed is disarmed, and no other row changes.
LEMMA SettleArmedInv ==
  ASSUME ArmedInv, NEW c \in Change, NEW status, NEW pc,
         guard[c].pc # "new",
         Settle(c, status), Goto(c, pc), pc # "new", UNCHANGED call
  PROVE  ArmedInv'
  BY DEF Settle, Goto, ArmedInv, Shape, NewIsUnarmed, ArmedIsSwept, Revertible

\* A step of a guard that leaves the table alone.
LEMMA GotoArmedInv ==
  ASSUME ArmedInv, NEW c \in Change, NEW pc, Goto(c, pc), pc # "new",
         UNCHANGED <<row, call>>
  PROVE  ArmedInv'
  BY DEF Goto, ArmedInv, Shape, NewIsUnarmed, ArmedIsSwept, Revertible

\* A step of somebody else that leaves the table and the guards alone.
LEMMA OtherArmedInv ==
  ASSUME ArmedInv, UNCHANGED <<row, call, guard>>
  PROVE  ArmedInv'
  BY DEF ArmedInv, Shape, NewIsUnarmed, ArmedIsSwept, Revertible

\* Every step keeps armed windows on rows the sweep selects.
LEMMA ArmedStep == ArmedInv /\ [Next]_vars => ArmedInv'
<1> SUFFICES ASSUME ArmedInv, [Next]_vars PROVE ArmedInv'
  OBVIOUS
<1>1. ASSUME NEW c \in Change, ReadPriorState(c) PROVE ArmedInv'
  <2>1. row' = row /\ guard[c].pc = "new" /\ row[c].expires = "never"
    BY <1>1 DEF ReadPriorState, ArmedInv, NewIsUnarmed
  <2>2. guard' = [guard EXCEPT ![c] = [pc |-> "record",
                                       prior |-> host[TargetOf[c]]]]
    BY <1>1 DEF ReadPriorState
  <2>3. PICK r : call' = [call EXCEPT ![c] = r]
    BY <1>1 DEF ReadPriorState
  <2>4. Shape' /\ NewIsUnarmed'
    BY <2>1, <2>2, <2>3 DEF ArmedInv, Shape, NewIsUnarmed
  <2>5. \A d \in Change : d # c => call'[d] = call[d]
    BY <2>3 DEF ArmedInv, Shape
  <2>6. ArmedIsSwept'
    BY <2>1, <2>5 DEF ArmedInv, ArmedIsSwept, Revertible
  <2> QED BY <2>4, <2>6 DEF ArmedInv
<1>2. ASSUME NEW c \in Change, RecordChange(c) PROVE ArmedInv'
  <2>1. /\ guard[c].pc = "record" /\ Goto(c, "apply") /\ call' = call
        /\ row' = [row EXCEPT ![c] =
             [status  |-> IF Revertible(c) THEN "applied" ELSE "unrevertible",
              prev    |-> guard[c].prior,
              expires |-> IF call[c].window /\ Revertible(c)
                            THEN "later" ELSE "never"]]
    BY <1>2 DEF RecordChange
  <2>2. Shape' /\ NewIsUnarmed'
    BY <2>1 DEF Goto, ArmedInv, Shape, NewIsUnarmed
  <2>3. \A d \in Change : Revertible(d)' <=> Revertible(d)
    BY <2>1 DEF Revertible
  <2>4. /\ row'[c].expires # "never"
             => row'[c].status = "applied" /\ Revertible(c)
        /\ \A d \in Change : d # c => row'[d] = row[d]
    BY <2>1 DEF ArmedInv, Shape
  <2>5. ArmedIsSwept'
    BY <2>3, <2>4 DEF ArmedInv, ArmedIsSwept
  <2> QED BY <2>2, <2>5 DEF ArmedInv
<1>3. ASSUME NEW c \in Change, Apply(c) PROVE ArmedInv'
  BY <1>3, GotoArmedInv DEF Apply
<1>4. ASSUME NEW c \in Change, ApplyFails(c) PROVE ArmedInv'
  BY <1>4, GotoArmedInv DEF ApplyFails
<1>5. ASSUME NEW c \in Change, SettleUnapplied(c) PROVE ArmedInv'
  BY <1>5, SettleArmedInv DEF SettleUnapplied
<1>6. ASSUME NEW c \in Change, Verify(c) PROVE ArmedInv'
  BY <1>6, GotoArmedInv DEF Verify
<1>7. ASSUME NEW c \in Change, SettleVerified(c) PROVE ArmedInv'
  BY <1>7, SettleArmedInv DEF SettleVerified
<1>8. ASSUME NEW c \in Change, SettleUnrevertible(c) PROVE ArmedInv'
  BY <1>8, SettleArmedInv DEF SettleUnrevertible
<1>9. ASSUME NEW c \in Change, AutoRevert(c) PROVE ArmedInv'
  BY <1>9, GotoArmedInv DEF AutoRevert
<1>10. ASSUME NEW c \in Change, GuardDies(c) PROVE ArmedInv'
  BY <1>10, GotoArmedInv DEF GuardDies
<1>11. ASSUME NEW c \in Change, WindowElapses(c) PROVE ArmedInv'
  BY <1>11 DEF WindowElapses, ArmedInv, Shape, NewIsUnarmed, ArmedIsSwept,
     Revertible
<1>12. ASSUME NEW o \in Operator, NEW c \in Change,
              RevertRequest(o, c) \/ ConfirmRead(o, c)
       PROVE  ArmedInv'
  BY <1>12, OtherArmedInv DEF RevertRequest, ConfirmRead
<1>13. ASSUME NEW o \in Operator, ConfirmWrite(o) PROVE ArmedInv'
  <2>1. PICK c \in actor[o].todo :
          row' = [row EXCEPT ![c] = [@ EXCEPT !.status = "confirmed",
                                              !.expires = "never"]]
    BY <1>13 DEF ConfirmWrite
  <2>2. guard' = guard /\ call' = call
    BY <1>13 DEF ConfirmWrite
  <2> QED BY <2>1, <2>2
          DEF ArmedInv, Shape, NewIsUnarmed, ArmedIsSwept, Revertible
<1>14. CASE BeginSweep
  BY <1>14, OtherArmedInv DEF BeginSweep
<1>15. ASSUME NEW a \in Actor, NEW c \in Change, Undo(a, c) PROVE ArmedInv'
  BY <1>15, OtherArmedInv DEF Undo
<1>16. ASSUME NEW a \in Actor, CommitUndo(a) PROVE ArmedInv'
  <2>1. guard' = guard /\ call' = call
    BY <1>16 DEF CommitUndo
  <2>2. row' = [c \in Change |->
          IF c \in actor[a].done
            THEN [row[c] EXCEPT !.status = "reverted", !.expires = "never"]
            ELSE IF c \in actor[a].failed
              THEN [row[c] EXCEPT !.status = "revert_failed",
                                  !.expires = "never"]
              ELSE row[c]]
    BY <1>16 DEF CommitUndo
  <2>3. \A c \in Change :
          /\ DOMAIN row'[c] = {"status", "prev", "expires"}
          /\ row'[c] = row[c] \/ row'[c].expires = "never"
    BY <2>2 DEF ArmedInv, Shape
  <2>4. DOMAIN row' = Change
    BY <2>2
  <2> QED BY <2>1, <2>3, <2>4
          DEF ArmedInv, Shape, NewIsUnarmed, ArmedIsSwept, Revertible
<1>17. ASSUME NEW a \in Actor, UndoDies(a) PROVE ArmedInv'
  <2>1. /\ row' = row /\ call' = call
        /\ guard' = [c \in Change |->
             IF c = a THEN [guard[c] EXCEPT !.pc = "dead"] ELSE guard[c]]
    BY <1>17 DEF UndoDies
  <2> QED BY <2>1
          DEF ArmedInv, Shape, NewIsUnarmed, ArmedIsSwept, Revertible
<1>18. CASE UNCHANGED vars
  BY <1>18, OtherArmedInv DEF vars
<1> QED
  BY <1>1, <1>2, <1>3, <1>4, <1>5, <1>6, <1>7, <1>8, <1>9, <1>10, <1>11,
     <1>12, <1>13, <1>14, <1>15, <1>16, <1>17, <1>18
  DEF Next, GuardStep, UndoStep

\* Whatever guards, operators and the sweep do to a row, in any order and with
\* any faults, an armed window is on a row that the sweep selects once the
\* window elapses (revert_expired_changes reads status 'applied').
THEOREM ArmedWindowsAreSwept == Spec => []ArmedIsSwept
<1>1. Init => ArmedInv
  BY ArmedInit
<1>2. ArmedInv /\ [Next]_vars => ArmedInv'
  BY ArmedStep
<1>3. ArmedInv => ArmedIsSwept
  BY DEF ArmedInv
<1> QED BY <1>1, <1>2, <1>3, PTL DEF Spec

-----------------------------------------------------------------------------
(* The path back.  Two guards on one target can record each other's value,  *)
(* so each change is about a target of its own.                             *)

Separate ==
  /\ \A c, d \in Change : TargetOf[c] = TargetOf[d] => c = d
  /\ NoRequest \notin Change

HostShape ==
  /\ Shape /\ DOMAIN host = Target /\ DOMAIN latest = Target
  /\ actor \in [Actor -> ActorType]

\* What an open transaction has undone, or still has to.
Members(a) == actor[a].todo \cup actor[a].done \cup actor[a].failed

\* The row comes before the change; from the read to the change, the host shows
\* the value that was read.
PathOf(c) ==
  /\ guard[c].pc # "new" /\ TargetOf[c] \in Key => call[c].action \in Value
  /\ row[c].status # "none" => guard[c].pc \notin {"new", "record"}
  /\ guard[c].pc \notin {"new", "record", "dead"} => row[c].status # "none"
  /\ TookEffect(c) =>
       guard[c].pc \notin {"new", "record", "apply"} /\ row[c].status # "none"
  /\ TargetOf[c] \in Key =>
       /\ guard[c].pc \in {"record", "apply"} => host[TargetOf[c]] = guard[c].prior
       /\ row[c].status # "none" => row[c].prev = guard[c].prior
       /\ TookEffect(c) => latest[TargetOf[c]].from = row[c].prev

PathInv ==
  /\ HostShape
  /\ \A c \in Change : PathOf(c)
  /\ \A a \in Actor : \A c \in Members(a) : row[c].status # "none"

LEMMA PathInit == ASSUME Separate, Init PROVE PathInv
<1>1. HostShape
  BY DEF Init, NoRow, Idle, HostShape, Shape, ActorType
<1>2. ASSUME NEW c \in Change PROVE PathOf(c)
  BY <1>2, GuardAssumption DEF Init, NoRow, Nothing, Separate, PathOf, TookEffect
<1>3. \A a \in Actor : Members(a) = {}
  BY DEF Init, Idle, Members
<1> QED BY <1>1, <1>2, <1>3 DEF PathInv

\* What a step may do to a change that keeps its path: its row keeps its value,
\* and its target keeps its own or goes back to the one that was read.
KeepsPath(c) ==
  /\ call'[c] = call[c] /\ guard'[c].prior = guard[c].prior
  /\ latest'[TargetOf[c]] = latest[TargetOf[c]]
  /\ row'[c].prev = row[c].prev
  /\ row'[c].status = "none" <=> row[c].status = "none"
  /\ \/ host'[TargetOf[c]] = host[TargetOf[c]]
     \/ TargetOf[c] \in Key => host'[TargetOf[c]] = guard[c].prior
  /\ \/ guard'[c].pc = guard[c].pc
     \/ /\ guard[c].pc # "new"
        /\ guard'[c].pc \notin {"new", "record", "apply"}
        /\ \/ guard'[c].pc = "dead"
           \/ guard[c].pc \notin {"new", "record", "dead"}

LEMMA PathKept ==
  ASSUME PathInv, HostShape', NEW S, S \subseteq Change,
         \A c \in S : KeepsPath(c), \A c \in Change \ S : PathOf(c)',
         \A a \in Actor : \A c \in Members(a)' :
           row'[c].status = "none" =>
             c \in Change /\ c \in S /\ c \in Members(a)
  PROVE  PathInv'
<1>1. ASSUME NEW c \in S PROVE PathOf(c)'
  <2>1. KeepsPath(c) /\ PathOf(c)
    BY <1>1 DEF PathInv
  <2> QED BY <2>1 DEF PathOf, TookEffect, KeepsPath
<1>2. ASSUME NEW a \in Actor, NEW c \in Members(a)', row'[c].status = "none"
      PROVE  FALSE
  <2>1. c \in S /\ c \in Members(a)
    BY <1>2
  <2> QED BY <1>2, <2>1 DEF PathInv, KeepsPath
<1> QED BY <1>1, <1>2 DEF PathInv

\* Only the target of c changes.
LEMMA EffectOfOne ==
  ASSUME Separate, HostShape, NEW c \in Change, TakeEffect(c)
  PROVE  /\ DOMAIN host' = Target /\ DOMAIN latest' = Target
         /\ latest'[TargetOf[c]] = [by |-> c, from |-> host[TargetOf[c]]]
         /\ \A d \in Change : d # c =>
              /\ host'[TargetOf[d]] = host[TargetOf[d]]
              /\ latest'[TargetOf[d]] = latest[TargetOf[d]]
<1>1. TargetOf \in [Change -> Target]
  BY GuardAssumption
<1> QED BY <1>1 DEF TakeEffect, HostShape, Separate

\* A guard that moves on without touching the host or the transactions.
LEMMA GuardPathInv ==
  ASSUME Separate, PathInv, NEW c \in Change, NEW pc,
         Goto(c, pc), UNCHANGED <<host, latest, call, actor>>,
         pc \notin {"new", "record", "apply"}, guard[c].pc # "new",
         pc = "dead" \/ guard[c].pc \notin {"record", "dead"},
         \/ UNCHANGED row
         \/ /\ \E status \in Status \ {"none"} : Settle(c, status)
            /\ row[c].status # "none"
  PROVE  PathInv'
<1>1. /\ \A d \in Change :
           /\ row'[d].prev = row[d].prev
           /\ row'[d].status = "none" <=> row[d].status = "none"
           /\ guard'[d].prior = guard[d].prior
           /\ d # c => guard'[d].pc = guard[d].pc
      /\ guard'[c].pc = pc
      /\ Shape'
  <2>1. /\ \A d \in Change : guard'[d].prior = guard[d].prior
        /\ \A d \in Change : d # c => guard'[d].pc = guard[d].pc
        /\ \A d \in Change : DOMAIN guard'[d] = {"pc", "prior"}
        /\ guard'[c].pc = pc /\ DOMAIN guard' = Change
    BY DEF PathInv, HostShape, Shape, Goto
  <2> DEFINE RowsKeep ==
        /\ \A d \in Change : row'[d].prev = row[d].prev
        /\ \A d \in Change : row'[d].status = "none" <=> row[d].status = "none"
        /\ \A d \in Change : DOMAIN row'[d] = {"status", "prev", "expires"}
        /\ DOMAIN row' = Change
  <2>2. RowsKeep
    <3>1. CASE UNCHANGED row
      BY <3>1 DEF PathInv, HostShape, Shape
    <3>2. ASSUME NEW status, status # "none", Settle(c, status), row[c].status # "none"
          PROVE  RowsKeep
      BY <3>2 DEF PathInv, HostShape, Shape, Settle
    <3> QED BY <3>1, <3>2
  <2> QED BY <2>1, <2>2 DEF PathInv, HostShape, Shape
<1>2. ASSUME NEW d \in Change PROVE KeepsPath(d)
  BY <1>1 DEF KeepsPath
<1>3. HostShape'
  BY <1>1 DEF PathInv, HostShape
<1>4. \A a \in Actor : Members(a)' = Members(a) /\ Members(a) \subseteq Change
  BY DEF Members, PathInv, HostShape, ActorType
<1> QED BY <1>1, <1>2, <1>3, <1>4, PathKept DEF PathInv

\* A step that only moves transactions, over changes that are recorded.
LEMMA ActorPathInv ==
  ASSUME Separate, PathInv, UNCHANGED <<host, latest, call, row>>,
         actor' \in [Actor -> ActorType],
         \A a \in Actor : \A c \in Members(a)' :
           c \in Members(a) \/ row[c].status # "none",
         DOMAIN guard' = Change,
         \A d \in Change :
           /\ guard'[d].prior = guard[d].prior /\ DOMAIN guard'[d] = {"pc", "prior"}
           /\ \/ guard'[d].pc = guard[d].pc
              \/ /\ guard'[d].pc \in {"done", "dead"}
                 /\ guard[d].pc \notin {"new", "record", "dead"}
  PROVE  PathInv'
<1>1. ASSUME NEW d \in Change PROVE KeepsPath(d)
  BY DEF KeepsPath
<1>2. HostShape'
  BY DEF PathInv, HostShape, Shape
<1>3. \A a \in Actor : \A c \in Members(a)' : row'[c].status # "none"
  BY DEF PathInv
<1> QED BY <1>1, <1>2, <1>3, PathKept DEF PathInv

\* A transaction that begins, and one that ends.
LEMMA Begins ==
  ASSUME actor \in [Actor -> ActorType], NEW o \in Actor,
         NEW pc \in {"undoing", "confirming"}, NEW todo \in SUBSET Change,
         actor' = [actor EXCEPT ![o] = [Idle EXCEPT !.pc = pc, !.todo = todo]]
  PROVE  /\ actor' \in [Actor -> ActorType]
         /\ actor'[o].pc = pc /\ actor'[o].done = {} /\ Members(o)' = todo
         /\ \A a \in Actor : a # o => actor'[a] = actor[a] /\ Members(a)' = Members(a)
<1> DEFINE r == [Idle EXCEPT !.pc = pc, !.todo = todo]
<1>1. /\ r.pc = pc /\ r.todo = todo /\ r.done = {} /\ r.failed = {}
      /\ r \in ActorType
  BY DEF Idle, ActorType
<1> HIDE DEF r
<1>2. actor' = [actor EXCEPT ![o] = r]
  BY DEF r
<1>3. /\ actor'[o] = r /\ actor' \in [Actor -> ActorType]
      /\ \A a \in Actor : a # o => actor'[a] = actor[a]
  BY <1>1, <1>2
<1> QED BY <1>1, <1>3 DEF Members

LEMMA Ends ==
  ASSUME actor \in [Actor -> ActorType], NEW o \in Actor,
         actor' = [actor EXCEPT ![o] = Idle]
  PROVE  /\ actor' \in [Actor -> ActorType]
         /\ actor'[o] = Idle /\ Members(o)' = {}
         /\ \A a \in Actor : a # o => actor'[a] = actor[a] /\ Members(a)' = Members(a)
<1>1. /\ Idle \in ActorType
      /\ Idle.todo = {} /\ Idle.done = {} /\ Idle.failed = {}
  BY DEF Idle, ActorType
<1>2. /\ actor'[o] = Idle /\ actor' \in [Actor -> ActorType]
      /\ \A a \in Actor : a # o => actor'[a] = actor[a]
  BY <1>1
<1> QED BY <1>1, <1>2 DEF Members

\* One record more that is undone, or could not be.
LEMMA Undoes ==
  ASSUME HostShape, NEW o \in Actor, NEW c \in Change, Undo(o, c)
  PROVE  /\ c \in actor[o].todo /\ actor[o].pc = "undoing"
         /\ UNCHANGED <<row, call, guard, latest>>
         /\ actor' \in [Actor -> ActorType]
         /\ actor'[o].pc = "undoing"
         /\ \A a \in Actor : a # o => actor'[a] = actor[a]
         /\ \A a \in Actor : Members(a)' = Members(a)
         /\ \/ /\ host' = [host EXCEPT ![TargetOf[c]] = InverseState(c)]
               /\ actor'[o].done = actor[o].done \cup {c}
            \/ host' = host /\ actor'[o].done = actor[o].done
<1>1. /\ actor \in [Actor -> ActorType] /\ actor[o] \in ActorType
      /\ c \in actor[o].todo /\ actor[o].pc = "undoing"
      /\ UNCHANGED <<row, call, guard, latest>>
  BY DEF Undo, HostShape
<1> DEFINE ok  == [actor[o] EXCEPT !.todo = @ \ {c}, !.done = @ \cup {c}]
           bad == [actor[o] EXCEPT !.todo = @ \ {c}, !.failed = @ \cup {c}]
<1>2. \/ /\ actor' = [actor EXCEPT ![o].todo = @ \ {c}, ![o].done = @ \cup {c}]
         /\ host' = [host EXCEPT ![TargetOf[c]] = InverseState(c)]
      \/ /\ actor' = [actor EXCEPT ![o].todo = @ \ {c}, ![o].failed = @ \cup {c}]
         /\ host' = host
  BY DEF Undo
<1>3. /\ ok \in ActorType /\ ok.pc = "undoing"
      /\ ok.todo = actor[o].todo \ {c} /\ ok.done = actor[o].done \cup {c}
      /\ ok.failed = actor[o].failed
  BY <1>1 DEF ActorType
<1>4. /\ bad \in ActorType /\ bad.pc = "undoing"
      /\ bad.todo = actor[o].todo \ {c} /\ bad.done = actor[o].done
      /\ bad.failed = actor[o].failed \cup {c}
  BY <1>1 DEF ActorType
<1> HIDE DEF ok, bad
<1>5. /\ actor' \in [Actor -> ActorType]
      /\ \/ actor'[o] = ok /\ host' = [host EXCEPT ![TargetOf[c]] = InverseState(c)]
         \/ actor'[o] = bad /\ host' = host
      /\ \A a \in Actor : a # o => actor'[a] = actor[a]
  BY <1>1, <1>2, <1>3, <1>4 DEF ok, bad
<1>6. Members(o)' = Members(o)
  BY <1>1, <1>2, <1>3, <1>4, <1>5 DEF Members
<1>7. \A a \in Actor : Members(a)' = Members(a)
  BY <1>5, <1>6 DEF Members
<1> QED BY <1>1, <1>2, <1>3, <1>4, <1>5, <1>7

LEMMA EffectPathInv ==
  ASSUME Separate, PathInv, NEW c \in Change, guard[c].pc = "apply", TakeEffect(c),
         NEW pc, pc \in {"verify", "done", "undone", "dead"}, Goto(c, pc),
         UNCHANGED <<row, call, actor>>
  PROVE  PathInv'
<1>1. /\ DOMAIN host' = Target /\ DOMAIN latest' = Target
      /\ latest'[TargetOf[c]] = [by |-> c, from |-> host[TargetOf[c]]]
      /\ \A d \in Change : d # c =>
           /\ host'[TargetOf[d]] = host[TargetOf[d]]
           /\ latest'[TargetOf[d]] = latest[TargetOf[d]]
  BY EffectOfOne DEF PathInv
<1>2. /\ \A d \in Change : guard'[d].prior = guard[d].prior
      /\ \A d \in Change : d # c => guard'[d].pc = guard[d].pc
      /\ \A d \in Change : DOMAIN guard'[d] = {"pc", "prior"}
      /\ guard'[c].pc = pc /\ DOMAIN guard' = Change
  BY DEF PathInv, HostShape, Shape, Goto
<1>3. HostShape'
  BY <1>1, <1>2 DEF PathInv, HostShape, Shape
<1>4. ASSUME NEW d \in Change \ {c} PROVE KeepsPath(d)
  BY <1>1, <1>2 DEF KeepsPath
<1>5. PathOf(c)'
  BY <1>1, <1>2 DEF PathInv, PathOf, TookEffect
<1>6. \A a \in Actor : \A d \in Members(a)' : row'[d].status # "none"
  BY DEF PathInv, Members
<1> QED BY <1>3, <1>4, <1>5, <1>6, PathKept

\* A guard that undoes its own change has nothing else left to do.
BusyInv == \A c \in Change : actor[c].pc # "idle" => guard[c].pc = "done"

LEMMA BusyStep == ASSUME HostShape, BusyInv, [Next]_vars PROVE BusyInv'
<1>0. /\ actor \in [Actor -> ActorType] /\ Change \subseteq Actor
      /\ Sweeper \notin Change /\ Operator \cap Change = {}
      /\ DOMAIN guard = Change /\ \A c \in Change : DOMAIN guard[c] = {"pc", "prior"}
  BY GuardAssumption DEF HostShape, Shape, Actor
<1>1. ASSUME NEW c \in Change, NEW pc, Goto(c, pc), UNCHANGED actor, guard[c].pc # "done"
      PROVE  BusyInv'
  BY <1>0, <1>1 DEF Goto, BusyInv
<1>2. ASSUME NEW c \in Change,
             RecordChange(c) \/ Apply(c) \/ ApplyFails(c) \/ SettleUnapplied(c)
               \/ SettleVerified(c) \/ SettleUnrevertible(c) \/ GuardDies(c)
      PROVE  BusyInv'
  BY <1>1, <1>2 DEF RecordChange, Apply, ApplyFails, SettleUnapplied, SettleVerified,
     SettleUnrevertible, GuardDies
<1>3. ASSUME NEW c \in Change, Verify(c) PROVE BusyInv'
  BY <1>1, <1>3 DEF Verify
<1>4. ASSUME NEW c \in Change, ReadPriorState(c) PROVE BusyInv'
  BY <1>0, <1>4 DEF ReadPriorState, BusyInv
<1>5. ASSUME NEW c \in Change, AutoRevert(c) PROVE BusyInv'
  BY <1>0, <1>5 DEF AutoRevert, BeginUndo, Goto, BusyInv
<1>6. ASSUME UNCHANGED guard, \A c \in Change : actor'[c] = actor[c] PROVE BusyInv'
  BY <1>6 DEF BusyInv
<1>7. ASSUME NEW o \in Operator, NEW c \in Change, RevertRequest(o, c) \/ ConfirmRead(o, c)
      PROVE  BusyInv'
  BY <1>0, <1>6, <1>7 DEF RevertRequest, ConfirmRead, BeginUndo
<1>8. ASSUME NEW o \in Operator, ConfirmWrite(o) PROVE BusyInv'
  BY <1>0, <1>6, <1>8 DEF ConfirmWrite
<1>9. CASE BeginSweep
  BY <1>0, <1>6, <1>9 DEF BeginSweep
<1>10. ASSUME NEW a \in Actor, NEW c \in Change, Undo(a, c) PROVE BusyInv'
  <2>1. /\ guard' = guard /\ actor[a].pc = "undoing" /\ actor'[a].pc = "undoing"
        /\ \A b \in Actor : b # a => actor'[b] = actor[b]
    BY <1>10, Undoes
  <2> QED BY <1>0, <2>1 DEF BusyInv
<1>11. ASSUME NEW a \in Actor, CommitUndo(a) PROVE BusyInv'
  <2>1. /\ guard' = guard /\ actor'[a] = Idle
        /\ \A b \in Actor : b # a => actor'[b] = actor[b]
    BY <1>0, <1>11 DEF CommitUndo
  <2> QED BY <1>0, <2>1 DEF BusyInv, Idle
<1>12. ASSUME NEW a \in Actor, UndoDies(a) PROVE BusyInv'
  <2>1. /\ actor'[a] = Idle
        /\ \A b \in Actor : b # a => actor'[b] = actor[b]
        /\ \A c \in Change : c # a => guard'[c] = guard[c]
    BY <1>0, <1>12 DEF UndoDies
  <2> QED BY <1>0, <2>1 DEF BusyInv, Idle
<1>13. CASE UNCHANGED vars \/ \E c \in Change : WindowElapses(c)
  BY <1>13 DEF vars, WindowElapses, BusyInv
<1> QED
  BY <1>2, <1>3, <1>4, <1>5, <1>7, <1>8, <1>9, <1>10, <1>11, <1>12, <1>13
  DEF Next, GuardStep, UndoStep

LEMMA PathStep == ASSUME Separate, PathInv, BusyInv, [Next]_vars PROVE PathInv'
<1>1. ASSUME NEW c \in Change, ReadPriorState(c) PROVE PathInv'
  <2>1. /\ guard[c].pc = "new" /\ UNCHANGED <<host, row, actor, latest>>
        /\ guard' = [guard EXCEPT ![c] = [pc |-> "record", prior |-> host[TargetOf[c]]]]
    BY <1>1 DEF ReadPriorState
  <2>2. PICK r \in Request(c) : call' = [call EXCEPT ![c] = r]
    BY <1>1 DEF ReadPriorState
  <2>3. HostShape'
    BY <2>1, <2>2 DEF PathInv, HostShape, Shape
  <2>4. ASSUME NEW d \in Change \ {c} PROVE KeepsPath(d)
    BY <2>1, <2>2 DEF PathInv, HostShape, Shape, KeepsPath
  <2>5. TargetOf[c] \in Key => call'[c].action \in Value
    BY <2>2 DEF Request, Action, PathInv, HostShape, Shape
  <2>6. PathOf(c)'
    BY <2>1, <2>5 DEF PathInv, HostShape, Shape, PathOf, TookEffect
  <2>7. \A a \in Actor : \A d \in Members(a)' : row'[d].status # "none"
    BY <2>1 DEF PathInv, Members
  <2> QED BY <2>3, <2>4, <2>6, <2>7, PathKept
<1>2. ASSUME NEW c \in Change, RecordChange(c) PROVE PathInv'
  <2>1. /\ guard[c].pc = "record" /\ Goto(c, "apply")
        /\ UNCHANGED <<host, call, actor, latest>>
        /\ \E status \in {"applied", "unrevertible"} : \E expires :
             row' = [row EXCEPT ![c] = [status |-> status, prev |-> guard[c].prior,
                                        expires |-> expires]]
    BY <1>2 DEF RecordChange
  <2>2. HostShape'
    BY <2>1 DEF PathInv, HostShape, Shape, Goto
  <2>3. ASSUME NEW d \in Change \ {c} PROVE KeepsPath(d)
    BY <2>1 DEF PathInv, HostShape, Shape, KeepsPath, Goto
  <2>4. PathOf(c)'
    BY <2>1 DEF PathInv, HostShape, Shape, PathOf, TookEffect, Goto
  <2>5. \A a \in Actor : \A d \in Members(a)' :
          d \in Members(a) /\ d \in Change
    BY <2>1 DEF PathInv, HostShape, ActorType, Members
  <2>6. row'[c].status # "none"
    BY <2>1 DEF PathInv, HostShape, Shape
  <2> QED BY <2>2, <2>3, <2>4, <2>5, <2>6, PathKept
<1>3. ASSUME NEW c \in Change, Apply(c) PROVE PathInv'
  BY <1>3, EffectPathInv DEF Apply
<1>4. ASSUME NEW c \in Change, ApplyFails(c) PROVE PathInv'
  <2>1. guard[c].pc = "apply" /\ Goto(c, "undone") /\ UNCHANGED <<row, call, actor>>
    BY <1>4 DEF ApplyFails
  <2>2. CASE TakeEffect(c)
    BY <2>1, <2>2, EffectPathInv
  <2>3. CASE UNCHANGED <<host, latest>>
    BY <2>1, <2>3, GuardPathInv
  <2> QED BY <1>4, <2>2, <2>3 DEF ApplyFails
<1>5. ASSUME NEW c \in Change,
             SettleUnapplied(c) \/ SettleVerified(c) \/ SettleUnrevertible(c)
      PROVE  PathInv'
  <2>1. /\ \E status \in Status \ {"none"} : Settle(c, status)
        /\ Goto(c, "done") /\ guard[c].pc \in {"undone", "met", "unmet"}
        /\ UNCHANGED <<host, latest, call, actor>>
    BY <1>5 DEF SettleUnapplied, SettleVerified, SettleUnrevertible, Status
  <2>2. row[c].status # "none"
    BY <2>1 DEF PathInv, PathOf
  <2> QED BY <2>1, <2>2, GuardPathInv
<1>6. ASSUME NEW c \in Change, Verify(c) PROVE PathInv'
  <2>1. PICK met \in BOOLEAN : Goto(c, IF met THEN "met" ELSE "unmet")
    BY <1>6 DEF Verify
  <2>2. guard[c].pc = "verify" /\ UNCHANGED <<host, row, latest, call, actor>>
    BY <1>6 DEF Verify
  <2> QED BY <2>1, <2>2, GuardPathInv
<1>7. ASSUME NEW c \in Change, AutoRevert(c) PROVE PathInv'
  <2>1. /\ guard[c].pc = "unmet" /\ Goto(c, "done") /\ BeginUndo(c, c)
        /\ UNCHANGED <<host, row, latest, call>> /\ c \in Actor
    BY <1>7 DEF AutoRevert, Actor
  <2>2. row[c].status # "none"
    BY <2>1 DEF PathInv, PathOf
  <2>3. /\ actor' \in [Actor -> ActorType]
        /\ \A a \in Actor : \A d \in Members(a)' : d \in Members(a) \/ d = c
    <3>1. CASE UNCHANGED actor
      BY <3>1 DEF PathInv, HostShape, Members
    <3>2. CASE actor' = [actor EXCEPT ![c] = [Idle EXCEPT !.pc = "undoing", !.todo = {c}]]
      <4>1. {c} \in SUBSET Change /\ actor \in [Actor -> ActorType]
        BY DEF PathInv, HostShape
      <4>2. /\ actor' \in [Actor -> ActorType] /\ Members(c)' = {c}
            /\ \A a \in Actor : a # c => Members(a)' = Members(a)
        BY <2>1, <3>2, <4>1, Begins
      <4> QED BY <4>2
    <3> QED BY <2>1, <3>1, <3>2 DEF BeginUndo
  <2>4. /\ DOMAIN guard' = Change
        /\ \A d \in Change :
             /\ guard'[d].prior = guard[d].prior /\ DOMAIN guard'[d] = {"pc", "prior"}
             /\ \/ guard'[d].pc = guard[d].pc
                \/ guard'[d].pc = "done" /\ guard[d].pc = "unmet"
    BY <2>1 DEF Goto, PathInv, HostShape, Shape
  <2> QED BY <2>1, <2>2, <2>3, <2>4, ActorPathInv
<1>8. ASSUME NEW c \in Change, GuardDies(c) PROVE PathInv'
  <2>1. /\ guard[c].pc \notin {"new", "done", "dead"} /\ Goto(c, "dead")
        /\ UNCHANGED <<row, call, actor>>
    BY <1>8 DEF GuardDies
  <2>2. CASE UNCHANGED <<host, latest>>
    BY <2>1, <2>2, GuardPathInv
  <2>3. CASE guard[c].pc = "apply" /\ TakeEffect(c)
    BY <2>1, <2>3, EffectPathInv
  <2> QED BY <1>8, <2>2, <2>3 DEF GuardDies
<1>9. ASSUME NEW o \in Operator, NEW c \in Change,
             RevertRequest(o, c) \/ ConfirmRead(o, c)
      PROVE  PathInv'
  <2>1. /\ row[c].status # "none" /\ UNCHANGED <<host, row, call, guard, latest>>
        /\ o \in Actor
        /\ \/ UNCHANGED actor
           \/ \E pc \in {"undoing", "confirming"} :
                actor' = [actor EXCEPT ![o] = [Idle EXCEPT !.pc = pc, !.todo = {c}]]
    BY <1>9 DEF RevertRequest, ConfirmRead, BeginUndo, Actor
  <2>2. /\ actor' \in [Actor -> ActorType]
        /\ \A a \in Actor : \A d \in Members(a)' : d \in Members(a) \/ d = c
    <3>1. CASE UNCHANGED actor
      BY <3>1 DEF PathInv, HostShape, Members
    <3>2. ASSUME NEW pc \in {"undoing", "confirming"},
                 actor' = [actor EXCEPT ![o] = [Idle EXCEPT !.pc = pc, !.todo = {c}]]
          PROVE  /\ actor' \in [Actor -> ActorType]
                 /\ \A a \in Actor : \A d \in Members(a)' : d \in Members(a) \/ d = c
      <4>1. {c} \in SUBSET Change /\ actor \in [Actor -> ActorType]
        BY DEF PathInv, HostShape
      <4>2. /\ actor' \in [Actor -> ActorType] /\ Members(o)' = {c}
            /\ \A a \in Actor : a # o => Members(a)' = Members(a)
        BY <2>1, <3>2, <4>1, Begins
      <4> QED BY <4>2
    <3> QED BY <2>1, <3>1, <3>2
  <2> QED BY <2>1, <2>2, ActorPathInv DEF PathInv, HostShape, Shape
<1>10. CASE BeginSweep
  <2>1. /\ UNCHANGED <<host, row, call, guard, latest>>
        /\ actor' = [actor EXCEPT ![Sweeper] = [Idle EXCEPT !.pc = "undoing", !.todo = Due]]
    BY <1>10 DEF BeginSweep
  <2>2. /\ actor' \in [Actor -> ActorType]
        /\ \A a \in Actor : \A d \in Members(a)' : d \in Members(a) \/ d \in Due
    BY <2>1 DEF PathInv, HostShape, Idle, ActorType, Members, Due, Actor
  <2> QED BY <2>1, <2>2, ActorPathInv DEF PathInv, HostShape, Shape, Due
<1>11. ASSUME NEW o \in Operator, ConfirmWrite(o) PROVE PathInv'
  <2>1. PICK c \in actor[o].todo :
          row' = [row EXCEPT ![c] = [@ EXCEPT !.status = "confirmed", !.expires = "never"]]
    BY <1>11 DEF ConfirmWrite
  <2>2. /\ UNCHANGED <<host, call, guard, latest>> /\ o \in Actor
        /\ actor' = [actor EXCEPT ![o] = Idle]
    BY <1>11 DEF ConfirmWrite, Actor
  <2>3. c \in Members(o) /\ c \in Change /\ row[c].status # "none"
    BY <2>2 DEF Members, PathInv, HostShape, ActorType
  <2>4. /\ actor' \in [Actor -> ActorType]
        /\ \A a \in Actor : Members(a)' \subseteq Members(a) /\ Members(a) \subseteq Change
    BY <2>2, Ends DEF PathInv, HostShape, ActorType, Members
  <2>5. HostShape'
    BY <2>1, <2>2, <2>4 DEF PathInv, HostShape, Shape
  <2>6. ASSUME NEW d \in Change PROVE KeepsPath(d)
    BY <2>1, <2>2, <2>3 DEF PathInv, HostShape, Shape, KeepsPath
  <2> QED BY <2>4, <2>5, <2>6, PathKept
<1>12. ASSUME NEW a \in Actor, NEW c \in Change, Undo(a, c) PROVE PathInv'
  <2>1. /\ c \in actor[a].todo /\ UNCHANGED <<row, call, guard, latest>>
        /\ actor' \in [Actor -> ActorType]
        /\ \A b \in Actor : Members(b)' = Members(b)
        /\ \/ host' = [host EXCEPT ![TargetOf[c]] = InverseState(c)]
           \/ host' = host
    BY <1>12, Undoes DEF PathInv
  <2>2. HostShape'
    BY <2>1 DEF PathInv, HostShape, Shape
  <2>3. row[c].status # "none" /\ PathOf(c)
    BY <2>1 DEF PathInv, Members
  <2>4. TargetOf[c] \in Key => InverseState(c) = guard[c].prior
    BY <2>3, GuardAssumption DEF PathOf, InverseState
  <2>5. ASSUME NEW d \in Change PROVE KeepsPath(d)
    <3>1. d # c => host'[TargetOf[d]] = host[TargetOf[d]]
      BY <2>1, GuardAssumption DEF Separate, PathInv, HostShape
    <3>2. TargetOf[c] \in DOMAIN host
      BY GuardAssumption DEF PathInv, HostShape
    <3> QED BY <2>1, <2>4, <3>1, <3>2 DEF KeepsPath
  <2>6. \A b \in Actor : Members(b) \subseteq Change
    BY DEF PathInv, HostShape, ActorType, Members
  <2> QED BY <2>1, <2>2, <2>5, <2>6, PathKept
<1>13. ASSUME NEW a \in Actor, CommitUndo(a) PROVE PathInv'
  <2>1. /\ UNCHANGED <<host, call, guard, latest>>
        /\ actor' = [actor EXCEPT ![a] = Idle]
        /\ row' = [c \in Change |->
             IF c \in actor[a].done
               THEN [row[c] EXCEPT !.status = "reverted", !.expires = "never"]
               ELSE IF c \in actor[a].failed
                 THEN [row[c] EXCEPT !.status = "revert_failed", !.expires = "never"]
                 ELSE row[c]]
    BY <1>13 DEF CommitUndo
  <2>2. /\ actor' \in [Actor -> ActorType]
        /\ \A b \in Actor : Members(b)' \subseteq Members(b) /\ Members(b) \subseteq Change
    BY <2>1, Ends DEF PathInv, HostShape, ActorType, Members
  <2>3. HostShape'
    BY <2>1, <2>2 DEF PathInv, HostShape, Shape
  <2>4. \A d \in actor[a].done \cup actor[a].failed : row[d].status # "none"
    BY DEF PathInv, Members
  <2>5. ASSUME NEW d \in Change PROVE KeepsPath(d)
    <3>1. DOMAIN row[d] = {"status", "prev", "expires"}
      BY DEF PathInv, HostShape, Shape
    <3>2. /\ row'[d].prev = row[d].prev
          /\ row'[d].status = "none" <=> row[d].status = "none"
      BY <2>1, <2>4, <3>1
    <3> QED BY <2>1, <3>2 DEF KeepsPath
  <2> QED BY <2>2, <2>3, <2>5, PathKept
<1>14. ASSUME NEW a \in Actor, UndoDies(a) PROVE PathInv'
  <2>1. /\ UNCHANGED <<host, row, call, latest>> /\ actor[a].pc = "undoing"
        /\ actor' = [actor EXCEPT ![a] = Idle]
        /\ guard' = [c \in Change |->
             IF c = a THEN [guard[c] EXCEPT !.pc = "dead"] ELSE guard[c]]
    BY <1>14 DEF UndoDies
  <2>2. /\ actor' \in [Actor -> ActorType]
        /\ \A b \in Actor : Members(b)' \subseteq Members(b) /\ Members(b) \subseteq Change
    BY <2>1, Ends DEF PathInv, HostShape, ActorType, Members
  <2>3. HostShape'
    BY <2>1, <2>2 DEF PathInv, HostShape, Shape
  <2>4. ASSUME NEW d \in Change PROVE KeepsPath(d)
    <3>1. d = a => guard[d].pc = "done"
      BY <2>1 DEF BusyInv
    <3> QED BY <2>1, <3>1 DEF KeepsPath, PathInv, HostShape, Shape
  <2> QED BY <2>2, <2>3, <2>4, PathKept
<1>15. ASSUME NEW c \in Change, WindowElapses(c) PROVE PathInv'
  <2>1. /\ row' = [row EXCEPT ![c].expires = "past"]
        /\ UNCHANGED <<host, call, guard, actor, latest>>
    BY <1>15 DEF WindowElapses
  <2>2. HostShape'
    BY <2>1 DEF PathInv, HostShape, Shape
  <2>3. ASSUME NEW d \in Change PROVE KeepsPath(d)
    BY <2>1 DEF PathInv, HostShape, Shape, KeepsPath
  <2>4. \A a \in Actor : Members(a)' = Members(a) /\ Members(a) \subseteq Change
    BY <2>1 DEF Members, PathInv, HostShape, ActorType
  <2> QED BY <2>2, <2>3, <2>4, PathKept
<1>16. CASE UNCHANGED vars
  BY <1>16, ActorPathInv DEF vars, PathInv, HostShape, Shape, Members
<1> QED
  BY <1>1, <1>2, <1>3, <1>4, <1>5, <1>6, <1>7, <1>8, <1>9, <1>10, <1>11, <1>12, <1>13,
     <1>14, <1>15, <1>16
  DEF Next, GuardStep, UndoStep

\* Whatever crashes, fails or is confirmed in between, and whoever undoes it: a
\* change that is on the host has its row, with the value its key had before.
THEOREM ChangesHaveAPathBack == Separate => (Spec => []PathBack)
<1> SUFFICES ASSUME Separate PROVE Spec => []PathBack
  OBVIOUS
<1>1. Init => PathInv /\ BusyInv
  BY PathInit, GuardAssumption DEF Init, Idle, Actor, BusyInv
<1>2. PathInv /\ BusyInv /\ [Next]_vars => PathInv' /\ BusyInv'
  BY PathStep, BusyStep DEF PathInv
<1>3. PathInv => PathBack
  BY DEF PathInv, PathOf, PathBack
<1> QED BY <1>1, <1>2, <1>3, PTL DEF Spec

-----------------------------------------------------------------------------
(* The ledger tells the truth, as long as nobody reverts by hand, windows   *)
(* outlast the guard and systemctl does not carry on after it has failed.   *)

Unattended == Separate /\ Operator = {} /\ LongWindows /\ MaxLate = 0

Over(c) == guard[c].pc \in {"done", "dead"}

\* One transaction at a time is about a change: its own guard's, or the sweep
\* once the guard is over; and the guard has nothing left to apply.
SafeOf(c) ==
  /\ row[c].status = "reverted" => Over(c) /\ Undone(c)
  /\ row[c].expires = "past" => Over(c) /\ actor[c].pc = "idle"
  /\ TookEffect(c) => guard[c].pc # "undone"
  /\ c \in Members(Sweeper) => row[c].expires = "past"
  /\ \A d \in Change : c \in Members(d) => d = c
  /\ actor[c].pc # "idle" => row[c].status # "reverted"
  /\ \A a \in Actor : c \in actor[a].done => Undone(c)

SafeInv ==
  /\ \A c \in Change : SafeOf(c)
  /\ \A a \in Actor : actor[a].pc = "idle" => Members(a) = {}
  /\ faults \in [crash: Nat, fail: Nat, late: {0}]

\* What the steps below start from.
Whole == Unattended /\ ArmedInv /\ PathInv /\ BusyInv /\ SafeInv

LEMMA SafeInit == ASSUME Unattended, Init PROVE SafeInv
<1>1. Actor = Change \cup {Sweeper}
  BY DEF Unattended, Actor
<1>2. /\ \A a \in Actor : actor[a] = Idle /\ Members(a) = {}
      /\ Idle.pc = "idle" /\ Idle.done = {}
  BY DEF Init, Idle, Members
<1>3. ASSUME NEW c \in Change PROVE SafeOf(c)
  <2>1. row[c].status = "none" /\ row[c].expires = "never" /\ ~TookEffect(c)
    BY GuardAssumption DEF Init, NoRow, Nothing, TookEffect, Unattended, Separate
  <2> QED BY <1>1, <1>2, <2>1 DEF SafeOf
<1> QED BY <1>2, <1>3 DEF Init, SafeInv

\* A change that a step leaves where it is.
LEMMA SafeKept ==
  ASSUME NEW c \in Change, SafeOf(c),
         call'[c] = call[c], guard'[c].pc = guard[c].pc \/ Over(c)',
         row'[c].prev = row[c].prev, row'[c].expires = row[c].expires,
         row'[c].status = "reverted" => row[c].status = "reverted",
         host'[TargetOf[c]] = host[TargetOf[c]],
         latest'[TargetOf[c]] = latest[TargetOf[c]],
         actor'[c].pc # "idle" => actor[c].pc # "idle",
         \A a \in Actor : c \in Members(a)' => c \in Members(a),
         \A a \in Actor : c \in actor'[a].done => c \in actor[a].done,
         Change \cup {Sweeper} \subseteq Actor
  PROVE  SafeOf(c)'
<1>1. Undone(c)' <=> Undone(c)
  BY DEF Undone, TookEffect, InverseState
<1>2. TookEffect(c)' <=> TookEffect(c)
  BY DEF TookEffect
<1> QED BY <1>1, <1>2 DEF SafeOf, Over

LEMMA WholeFacts ==
  ASSUME Whole
  PROVE  /\ Actor = Change \cup {Sweeper} /\ Sweeper \notin Change /\ Operator = {}
         /\ actor \in [Actor -> ActorType]
         /\ \A a \in Actor : Members(a) \subseteq Change /\ actor[a].done \subseteq Members(a)
         /\ DOMAIN guard = Change /\ \A c \in Change : DOMAIN guard[c] = {"pc", "prior"}
         /\ DOMAIN row = Change
         /\ \A c \in Change : DOMAIN row[c] = {"status", "prev", "expires"}
         /\ DOMAIN call = Change /\ DOMAIN host = Target
         /\ TargetOf \in [Change -> Target]
         /\ \A c, d \in Change : TargetOf[c] = TargetOf[d] => c = d
BY GuardAssumption DEF Whole, Unattended, Separate, Actor, PathInv, HostShape, Shape,
   ActorType, Members

\* A guard that is not over: no transaction is about its change, its window is
\* not past, its row not reverted.
LEMMA NotOver ==
  ASSUME Whole, NEW c \in Change, ~Over(c)
  PROVE  /\ row[c].status # "reverted" /\ row[c].expires # "past"
         /\ actor[c].pc = "idle" /\ \A a \in Actor : c \notin Members(a)
<1>1. SafeOf(c) /\ BusyInv
  BY DEF Whole, SafeInv
<1>2. actor[c].pc = "idle" /\ Members(c) = {}
  BY <1>1, WholeFacts DEF BusyInv, Over, Whole, SafeInv
<1> QED BY <1>1, <1>2, WholeFacts DEF SafeOf

\* A step of one guard, without a transaction.
LEMMA SafeGuard ==
  ASSUME Whole, NEW c \in Change, ~Over(c), UNCHANGED actor,
         faults' \in [crash: Nat, fail: Nat, late: {0}],
         \A d \in Change : d # c =>
           /\ call'[d] = call[d] /\ row'[d] = row[d] /\ guard'[d] = guard[d]
           /\ host'[TargetOf[d]] = host[TargetOf[d]]
           /\ latest'[TargetOf[d]] = latest[TargetOf[d]],
         row'[c].status = "reverted" => Over(c)' /\ ~TookEffect(c)',
         row'[c].expires # "past",
         TookEffect(c)' => guard'[c].pc # "undone"
  PROVE  SafeInv'
<1>1. \A a \in Actor : Members(a)' = Members(a)
  BY DEF Members
<1>2. ASSUME NEW d \in Change, d # c PROVE SafeOf(d)'
  <2>1. SafeOf(d)
    BY DEF Whole, SafeInv
  <2> QED BY <1>1, <1>2, <2>1, SafeKept, WholeFacts
<1>3. SafeOf(c)'
  <2>1. /\ actor'[c].pc = "idle"
        /\ \A a \in Actor : c \notin Members(a)' /\ c \notin actor'[a].done
    BY <1>1, NotOver, WholeFacts
  <2>2. row'[c].status = "reverted" => Undone(c)'
    BY DEF Undone
  <2> QED BY <2>1, <2>2, WholeFacts DEF SafeOf
<1>4. \A a \in Actor : actor'[a].pc = "idle" => Members(a)' = {}
  BY <1>1 DEF Whole, SafeInv
<1> QED BY <1>2, <1>3, <1>4 DEF SafeInv

\* ... that moves on, or applies its change.
LEMMA SafeGoto ==
  ASSUME Whole, NEW c \in Change, ~Over(c), NEW pc, Goto(c, pc),
         UNCHANGED <<row, call, actor>>,
         faults' \in [crash: Nat, fail: Nat, late: {0}],
         UNCHANGED <<host, latest>> \/ TakeEffect(c),
         pc = "undone" => ~TookEffect(c) /\ UNCHANGED latest
  PROVE  SafeInv'
<1>1. /\ \A d \in Change : d # c => guard'[d] = guard[d]
      /\ guard'[c].pc = pc
  BY WholeFacts DEF Goto
<1>2. \A d \in Change : d # c =>
        /\ host'[TargetOf[d]] = host[TargetOf[d]]
        /\ latest'[TargetOf[d]] = latest[TargetOf[d]]
  BY EffectOfOne DEF Whole, Unattended, PathInv
<1>3. UNCHANGED latest => (TookEffect(c)' <=> TookEffect(c))
  BY DEF TookEffect
<1> QED BY <1>1, <1>2, <1>3, NotOver, SafeGuard

\* ... that closes its row.
LEMMA SafeSettle ==
  ASSUME Whole, NEW c \in Change, ~Over(c), NEW status, Settle(c, status), Goto(c, "done"),
         UNCHANGED <<host, call, actor, latest, faults>>,
         status = "reverted" => ~TookEffect(c)
  PROVE  SafeInv'
<1>1. /\ \A d \in Change : d # c => guard'[d] = guard[d]
      /\ guard'[c].pc = "done"
  BY WholeFacts DEF Goto
<1>2. /\ \A d \in Change : d # c => row'[d] = row[d]
      /\ row'[c].expires = "never" /\ row'[c].status = status
  BY WholeFacts DEF Settle
<1>3. TookEffect(c)' <=> TookEffect(c)
  BY DEF TookEffect
<1>4. faults' \in [crash: Nat, fail: Nat, late: {0}]
  BY DEF Whole, SafeInv
<1> QED BY <1>1, <1>2, <1>3, <1>4, SafeGuard DEF Over

LEMMA SafeStep == ASSUME Whole, [Next]_vars PROVE SafeInv'
<1>0. /\ \A c \in Change : PathOf(c) /\ SafeOf(c)
      /\ faults \in [crash: Nat, fail: Nat, late: {0}] /\ MaxLate = 0 /\ Operator = {}
  BY DEF Whole, PathInv, SafeInv, Unattended
<1>1. ASSUME NEW c \in Change, ReadPriorState(c) PROVE SafeInv'
  <2>1. /\ guard[c].pc = "new" /\ UNCHANGED <<host, row, actor, latest, faults>>
        /\ guard' = [guard EXCEPT ![c] = [pc |-> "record", prior |-> host[TargetOf[c]]]]
        /\ \E r : call' = [call EXCEPT ![c] = r]
    BY <1>1 DEF ReadPriorState
  <2>2. /\ guard'[c].pc = "record" /\ ~Over(c)
        /\ row'[c].status # "reverted" /\ row'[c].expires # "past"
    BY <2>1, NotOver, WholeFacts DEF Over
  <2> QED BY <1>0, <2>1, <2>2, SafeGuard, WholeFacts
<1>2. ASSUME NEW c \in Change, RecordChange(c) PROVE SafeInv'
  <2>1. /\ guard[c].pc = "record" /\ Goto(c, "apply")
        /\ UNCHANGED <<host, call, actor, latest, faults>>
        /\ \E status \in {"applied", "unrevertible"}, expires \in {"later", "never"} :
             row' = [row EXCEPT ![c] = [status |-> status, prev |-> guard[c].prior,
                                        expires |-> expires]]
    BY <1>2 DEF RecordChange
  <2>2. /\ guard'[c].pc = "apply" /\ ~Over(c)
        /\ row'[c].status # "reverted" /\ row'[c].expires # "past"
        /\ \A d \in Change : d # c => guard'[d] = guard[d] /\ row'[d] = row[d]
    BY <2>1, WholeFacts DEF Goto, Over
  <2> QED BY <1>0, <2>1, <2>2, SafeGuard
<1>3. ASSUME NEW c \in Change, Apply(c) PROVE SafeInv'
  BY <1>0, <1>3, SafeGoto DEF Apply, Over
<1>4. ASSUME NEW c \in Change, ApplyFails(c) PROVE SafeInv'
  <2>1. /\ guard[c].pc = "apply" /\ Goto(c, "undone") /\ UNCHANGED <<row, call, actor>>
        /\ UNCHANGED <<host, latest>> /\ faults' = [faults EXCEPT !.fail = @ + 1]
    BY <1>0, <1>4 DEF ApplyFails
  <2>2. ~TookEffect(c) /\ ~Over(c)
    BY <1>0, <2>1 DEF PathOf, Over
  <2>3. faults' \in [crash: Nat, fail: Nat, late: {0}]
    BY <1>0, <2>1
  <2> QED BY <2>1, <2>2, <2>3, SafeGoto
<1>5. ASSUME NEW c \in Change,
             SettleUnapplied(c) \/ SettleVerified(c) \/ SettleUnrevertible(c)
      PROVE  SafeInv'
  <2>1. /\ Goto(c, "done") /\ UNCHANGED <<host, call, actor, latest, faults>>
        /\ guard[c].pc \in {"undone", "met", "unmet"}
        /\ \E status : /\ Settle(c, status)
                       /\ status = "reverted" => guard[c].pc = "undone"
    BY <1>5 DEF SettleUnapplied, SettleVerified, SettleUnrevertible
  <2>2. guard[c].pc = "undone" => ~TookEffect(c)
    BY <1>0 DEF SafeOf
  <2>3. ~Over(c)
    BY <2>1 DEF Over
  <2> QED BY <2>1, <2>2, <2>3, SafeSettle
<1>6. ASSUME NEW c \in Change, Verify(c) PROVE SafeInv'
  <2>1. PICK met \in BOOLEAN : Goto(c, IF met THEN "met" ELSE "unmet")
    BY <1>6 DEF Verify
  <2>2. /\ UNCHANGED <<host, row, call, actor, latest, faults>> /\ ~Over(c)
    BY <1>6 DEF Verify, Over
  <2> QED BY <1>0, <2>1, <2>2, SafeGoto
<1>7. ASSUME NEW c \in Change, AutoRevert(c) PROVE SafeInv'
  <2>1. /\ guard[c].pc = "unmet" /\ Goto(c, "done") /\ BeginUndo(c, c)
        /\ UNCHANGED <<host, row, latest, call, faults>>
        /\ c \in Actor /\ ~Over(c)
    BY <1>7, WholeFacts DEF AutoRevert, Over
  <2>2. CASE UNCHANGED actor
    BY <1>0, <2>1, <2>2, SafeGoto
  <2>3. CASE actor' = [actor EXCEPT ![c] = [Idle EXCEPT !.pc = "undoing", !.todo = {c}]]
    <3>1. {c} \in SUBSET Change
      OBVIOUS
    <3>2. /\ actor'[c].pc = "undoing" /\ actor'[c].done = {} /\ Members(c)' = {c}
          /\ \A a \in Actor : a # c => actor'[a] = actor[a] /\ Members(a)' = Members(a)
      BY <2>1, <2>3, <3>1, Begins, WholeFacts
    <3>3. /\ \A d \in Change : d # c => guard'[d] = guard[d]
          /\ guard'[c].pc = "done"
      BY <2>1, WholeFacts DEF Goto
    <3>4. ASSUME NEW d \in Change, d # c PROVE SafeOf(d)'
      BY <1>0, <2>1, <3>2, <3>3, <3>4, SafeKept, WholeFacts
    <3>5. SafeOf(c)'
      <4>1. /\ row[c].status # "reverted" /\ row[c].expires # "past"
            /\ \A a \in Actor : c \notin Members(a)
        BY <2>1, NotOver
      <4> QED BY <2>1, <3>2, <3>3, <4>1, WholeFacts DEF SafeOf
    <3>6. \A a \in Actor : actor'[a].pc = "idle" => Members(a)' = {}
      BY <3>2 DEF Whole, SafeInv
    <3> QED BY <1>0, <2>1, <3>4, <3>5, <3>6 DEF SafeInv
  <2> QED BY <2>1, <2>2, <2>3 DEF BeginUndo
<1>8. ASSUME NEW c \in Change, GuardDies(c) PROVE SafeInv'
  <2>1. /\ guard[c].pc \notin {"new", "done", "dead"} /\ Goto(c, "dead")
        /\ UNCHANGED <<row, call, actor>>
        /\ UNCHANGED <<host, latest>> \/ TakeEffect(c)
        /\ faults' = [faults EXCEPT !.crash = @ + 1]
    BY <1>8 DEF GuardDies
  <2>2. faults' \in [crash: Nat, fail: Nat, late: {0}]
    BY <1>0, <2>1
  <2> QED BY <2>1, <2>2, SafeGoto DEF Over
<1>9. CASE BeginSweep
  <2>1. /\ actor' = [actor EXCEPT ![Sweeper] = [Idle EXCEPT !.pc = "undoing", !.todo = Due]]
        /\ UNCHANGED <<host, row, call, guard, latest, faults>>
        /\ Sweeper \in Actor /\ Due \in SUBSET Change
    BY <1>9, WholeFacts DEF BeginSweep, Due
  <2>2. /\ actor'[Sweeper].pc = "undoing" /\ actor'[Sweeper].done = {}
        /\ Members(Sweeper)' = Due
        /\ \A a \in Actor : a # Sweeper => actor'[a] = actor[a] /\ Members(a)' = Members(a)
    BY <2>1, Begins, WholeFacts
  <2>3. ASSUME NEW c \in Change PROVE SafeOf(c)'
    <3>1. c \in Due => row[c].expires = "past"
      BY DEF Due
    <3>2. Undone(c)' <=> Undone(c)
      BY <2>1 DEF Undone, TookEffect, InverseState
    <3> QED BY <1>0, <2>1, <2>2, <3>1, <3>2, WholeFacts DEF SafeOf, Over, TookEffect
  <2>4. \A a \in Actor : actor'[a].pc = "idle" => Members(a)' = {}
    BY <2>2 DEF Whole, SafeInv
  <2> QED BY <1>0, <2>1, <2>3, <2>4 DEF SafeInv
<1>10. ASSUME NEW a \in Actor, NEW c \in Change, Undo(a, c) PROVE SafeInv'
  <2>1. /\ c \in actor[a].todo /\ actor[a].pc = "undoing" /\ actor'[a].pc = "undoing"
        /\ UNCHANGED <<row, call, guard, latest>>
        /\ \A b \in Actor : b # a => actor'[b] = actor[b]
        /\ \A b \in Actor : Members(b)' = Members(b)
        /\ \/ /\ host' = [host EXCEPT ![TargetOf[c]] = InverseState(c)]
              /\ actor'[a].done = actor[a].done \cup {c}
           \/ host' = host /\ actor'[a].done = actor[a].done
    BY <1>10, Undoes DEF Whole, PathInv
  <2>2. faults' \in [crash: Nat, fail: Nat, late: {0}]
    BY <1>0, <1>10 DEF Undo
  <2>3. \A b \in Actor : actor'[b].pc = "idle" => Members(b)' = {}
    BY <2>1 DEF Whole, SafeInv
  <2>4. ASSUME NEW d \in Change, d # c \/ (host' = host /\ actor'[a].done = actor[a].done)
        PROVE  SafeOf(d)'
    <3>1. host'[TargetOf[d]] = host[TargetOf[d]]
      BY <2>1, <2>4, WholeFacts
    <3>2. \A b \in Actor : d \in actor'[b].done => d \in actor[b].done
      BY <2>1, <2>4
    <3>3. actor'[d].pc # "idle" => actor[d].pc # "idle"
      BY <2>1, WholeFacts
    <3> QED BY <1>0, <2>1, <3>1, <3>2, <3>3, SafeKept, WholeFacts
  <2>5. CASE /\ host' = [host EXCEPT ![TargetOf[c]] = InverseState(c)]
             /\ actor'[a].done = actor[a].done \cup {c}
    <3>1. Undone(c)'
      BY <2>1, <2>5, WholeFacts DEF Undone, InverseState
    <3>2. actor'[c].pc # "idle" => actor[c].pc # "idle"
      BY <2>1, WholeFacts
    <3>3. SafeOf(c)'
      BY <1>0, <2>1, <3>1, <3>2, WholeFacts DEF SafeOf, Over, TookEffect
    <3>4. \A d \in Change : SafeOf(d)'
      BY <2>4, <3>3
    <3> QED BY <2>2, <2>3, <3>4 DEF SafeInv
  <2>6. CASE host' = host /\ actor'[a].done = actor[a].done
    BY <2>2, <2>3, <2>4, <2>6 DEF SafeInv
  <2> QED BY <2>1, <2>5, <2>6
<1>11. ASSUME NEW a \in Actor, CommitUndo(a) PROVE SafeInv'
  <2>1. /\ UNCHANGED <<host, call, guard, latest, faults>> /\ actor[a].pc = "undoing"
        /\ actor' = [actor EXCEPT ![a] = Idle] /\ actor[a].todo = {}
        /\ row' = [c \in Change |->
             IF c \in actor[a].done
               THEN [row[c] EXCEPT !.status = "reverted", !.expires = "never"]
               ELSE IF c \in actor[a].failed
                 THEN [row[c] EXCEPT !.status = "revert_failed", !.expires = "never"]
                 ELSE row[c]]
    BY <1>11 DEF CommitUndo
  <2>2. /\ actor'[a] = Idle /\ Members(a)' = {}
        /\ \A b \in Actor : b # a => actor'[b] = actor[b] /\ Members(b)' = Members(b)
    BY <2>1, Ends, WholeFacts
  <2>3. Idle.pc = "idle" /\ Idle.done = {}
    BY DEF Idle
  <2>4. ASSUME NEW c \in Change, c \notin Members(a) PROVE SafeOf(c)'
    <3>1. row'[c] = row[c]
      BY <2>1, <2>4 DEF Members
    <3>2. /\ actor'[c].pc # "idle" => actor[c].pc # "idle"
          /\ \A b \in Actor : c \in Members(b)' => c \in Members(b)
          /\ \A b \in Actor : c \in actor'[b].done => c \in actor[b].done
      BY <2>2, <2>3, WholeFacts
    <3> QED BY <1>0, <2>1, <3>1, <3>2, SafeKept, WholeFacts
  <2>5. ASSUME NEW c \in Change, c \in Members(a) PROVE SafeOf(c)'
    <3>1. /\ row'[c].prev = row[c].prev /\ row'[c].expires = "never"
          /\ row'[c].status = "reverted" => c \in actor[a].done \/ row[c].status = "reverted"
      BY <2>1, <2>5, WholeFacts DEF Members
    <3>2. Undone(c)' <=> Undone(c)
      BY <2>1, <3>1 DEF Undone, TookEffect, InverseState
    <3>3. Over(c) /\ Over(c)'
      <4>1. a = Sweeper \/ a = c
        BY <1>0, <2>5, WholeFacts DEF SafeOf
      <4>2. a = c => guard[c].pc = "done"
        BY <2>1 DEF Whole, BusyInv
      <4> QED BY <1>0, <2>1, <2>5, <4>1, <4>2 DEF SafeOf, Over
    <3>4. actor'[c].pc = "idle" /\ c \notin Members(Sweeper)'
      <4>1. CASE a = Sweeper
        BY <1>0, <2>2, <2>5, <4>1, WholeFacts DEF SafeOf
      <4>2. CASE a # Sweeper
        <5>1. a = c
          BY <1>0, <2>5, <4>2, WholeFacts DEF SafeOf
        <5>2. c \notin Members(Sweeper)
          BY <1>0, <2>1, <5>1 DEF SafeOf
        <5>3. Members(Sweeper)' = Members(Sweeper)
          BY <2>2, <4>2, WholeFacts
        <5> QED BY <2>2, <2>3, <5>1, <5>2, <5>3
      <4> QED BY <4>1, <4>2
    <3>5. TookEffect(c)' => guard'[c].pc # "undone"
      BY <3>3 DEF Over
    <3>6. /\ \A d \in Change : c \in Members(d)' => d = c
          /\ \A b \in Actor : c \in actor'[b].done => Undone(c)'
      BY <1>0, <2>2, <2>3, <3>2, WholeFacts DEF SafeOf
    <3>7. row'[c].status = "reverted" => Undone(c)'
      BY <1>0, <3>1, <3>2 DEF SafeOf
    <3> QED BY <3>1, <3>3, <3>4, <3>5, <3>6, <3>7 DEF SafeOf
  <2>6. \A b \in Actor : actor'[b].pc = "idle" => Members(b)' = {}
    BY <2>2 DEF Whole, SafeInv
  <2> QED BY <1>0, <2>1, <2>4, <2>5, <2>6 DEF SafeInv
<1>12. ASSUME NEW a \in Actor, UndoDies(a) PROVE SafeInv'
  <2>1. /\ UNCHANGED <<host, row, call, latest>>
        /\ actor' = [actor EXCEPT ![a] = Idle]
        /\ guard' = [c \in Change |->
             IF c = a THEN [guard[c] EXCEPT !.pc = "dead"] ELSE guard[c]]
        /\ faults' = [faults EXCEPT !.crash = @ + 1]
    BY <1>12 DEF UndoDies
  <2>2. /\ actor'[a] = Idle /\ Members(a)' = {}
        /\ \A b \in Actor : b # a => actor'[b] = actor[b] /\ Members(b)' = Members(b)
    BY <2>1, Ends, WholeFacts
  <2>3. Idle.pc = "idle" /\ Idle.done = {}
    BY DEF Idle
  <2>4. ASSUME NEW c \in Change PROVE SafeOf(c)'
    <3>1. guard'[c].pc = guard[c].pc \/ Over(c)'
      BY <2>1, WholeFacts DEF Over
    <3>2. /\ actor'[c].pc # "idle" => actor[c].pc # "idle"
          /\ \A b \in Actor : c \in Members(b)' => c \in Members(b)
          /\ \A b \in Actor : c \in actor'[b].done => c \in actor[b].done
      BY <2>2, <2>3, WholeFacts
    <3> QED BY <1>0, <2>1, <3>1, <3>2, SafeKept, WholeFacts
  <2>5. \A b \in Actor : actor'[b].pc = "idle" => Members(b)' = {}
    BY <2>2 DEF Whole, SafeInv
  <2>6. faults' \in [crash: Nat, fail: Nat, late: {0}]
    BY <1>0, <2>1
  <2> QED BY <2>4, <2>5, <2>6 DEF SafeInv
<1>13. ASSUME NEW c \in Change, WindowElapses(c) PROVE SafeInv'
  <2>1. /\ Over(c) /\ actor[c].pc = "idle" /\ row[c].expires = "later"
        /\ row' = [row EXCEPT ![c].expires = "past"]
        /\ UNCHANGED <<host, call, guard, actor, latest, faults>>
    BY <1>13 DEF WindowElapses, Whole, Unattended, Over
  <2>2. \A a \in Actor : Members(a)' = Members(a)
    BY <2>1 DEF Members
  <2>3. ASSUME NEW d \in Change PROVE SafeOf(d)'
    <3>1. /\ row'[d].prev = row[d].prev /\ row'[d].status = row[d].status
          /\ d # c => row'[d].expires = row[d].expires
          /\ row'[c].expires = "past"
      BY <2>1, WholeFacts
    <3>2. Undone(d)' <=> Undone(d)
      BY <2>1, <3>1 DEF Undone, TookEffect, InverseState
    <3>3. row'[d].expires = "past" => Over(d) /\ actor[d].pc = "idle"
      BY <1>0, <2>1, <3>1 DEF SafeOf
    <3>4. d \in Members(Sweeper) => row'[d].expires = "past"
      BY <1>0, <3>1 DEF SafeOf
    <3> QED BY <1>0, <2>1, <2>2, <3>1, <3>2, <3>3, <3>4, WholeFacts
            DEF SafeOf, Over, TookEffect
  <2> QED BY <1>0, <2>1, <2>2, <2>3 DEF SafeInv, Whole
<1>14. CASE UNCHANGED vars
  <2>1. \A a \in Actor : Members(a)' = Members(a)
    BY <1>14 DEF vars, Members
  <2>2. \A c \in Change : SafeOf(c)'
    BY <1>0, <1>14, <2>1, SafeKept, WholeFacts DEF vars
  <2> QED BY <1>0, <1>14, <2>1, <2>2 DEF vars, SafeInv, Whole
<1> QED
  BY <1>0, <1>1, <1>2, <1>3, <1>4, <1>5, <1>6, <1>7, <1>8, <1>9, <1>10, <1>11, <1>12,
     <1>13, <1>14
  DEF Next, GuardStep, UndoStep

LEMMA WholeInvariant == Unattended => (Spec => []Whole)
<1> SUFFICES ASSUME Unattended PROVE Spec => []Whole
  OBVIOUS
<1>1. Init => Whole
  BY ArmedInit, PathInit, SafeInit, GuardAssumption
  DEF Init, Idle, Actor, BusyInv, Whole, Unattended
<1>2. Whole /\ [Next]_vars => Whole'
  <2>1. Whole /\ [Next]_vars => ArmedInv' /\ PathInv' /\ BusyInv' /\ SafeInv'
    BY ArmedStep, PathStep, BusyStep, SafeStep DEF Whole, Unattended, PathInv
  <2> QED BY <2>1 DEF Whole
<1> QED BY <1>1, <1>2, PTL DEF Spec

\* What the ledger calls reverted is off the host, after any crashes and failed
\* operations.
THEOREM RevertedChangesAreUndone == Unattended => (Spec => []RevertedIsUndone)
<1>1. Whole => RevertedIsUndone
  BY DEF Whole, SafeInv, SafeOf, RevertedIsUndone
<1> QED BY <1>1, WholeInvariant, PTL

\* What was reverted stays reverted.
UndoneStaysUndone ==
  [][\A c \in Change : row[c].status = "reverted"
                         => row'[c].status = "reverted"]_vars

\* ... and it stays so: no writer that comes late, the guard's or the sweep's,
\* takes the verdict back.
THEOREM RevertedStays == Unattended => (Spec => UndoneStaysUndone)
<1> SUFFICES ASSUME Unattended PROVE Spec => UndoneStaysUndone
  OBVIOUS
<1>1. ASSUME Whole, [Next]_vars, NEW c \in Change, row[c].status = "reverted"
      PROVE  row'[c].status = "reverted"
  <2>1. /\ Over(c) /\ SafeOf(c) /\ row[c].expires # "past" /\ Operator = {}
        /\ guard[c].pc \notin {"new", "record", "apply", "verify", "met", "unmet", "undone"}
    BY <1>1 DEF Whole, SafeInv, SafeOf, Over, ArmedInv, ArmedIsSwept, Unattended
  <2>2. \A a \in Actor : c \notin Members(a)
    BY <1>1, <2>1, WholeFacts DEF SafeOf, Whole, SafeInv
  <2>3. ASSUME NEW d \in Change, NEW status, Settle(d, status), d # c
        PROVE  row'[c].status = "reverted"
    BY <1>1, <2>3 DEF Settle
  <2>4. ASSUME NEW d \in Change,
               RecordChange(d) \/ SettleUnapplied(d) \/ SettleVerified(d)
                 \/ SettleUnrevertible(d)
        PROVE  row'[c].status = "reverted"
    <3>1. d # c
      BY <2>1, <2>4 DEF RecordChange, SettleUnapplied, SettleVerified, SettleUnrevertible
    <3>2. CASE RecordChange(d)
      BY <1>1, <3>1, <3>2 DEF RecordChange
    <3>3. CASE ~RecordChange(d)
      <4>1. \E status : Settle(d, status)
        BY <2>4, <3>3 DEF SettleUnapplied, SettleVerified, SettleUnrevertible
      <4> QED BY <2>3, <3>1, <4>1
    <3> QED BY <3>2, <3>3
  <2>5. ASSUME NEW a \in Actor, CommitUndo(a) PROVE row'[c].status = "reverted"
    BY <1>1, <2>2, <2>5 DEF CommitUndo, Members
  <2>6. ASSUME NEW d \in Change, WindowElapses(d) PROVE row'[c].status = "reverted"
    BY <1>1, <2>6, WholeFacts DEF WindowElapses
  <2>7. CASE row' = row
    BY <1>1, <2>7
  <2>8. ASSUME NEW d \in Change,
               ReadPriorState(d) \/ Apply(d) \/ ApplyFails(d) \/ Verify(d) \/ AutoRevert(d)
                 \/ GuardDies(d)
        PROVE  row' = row
    BY <2>8 DEF ReadPriorState, Apply, ApplyFails, Verify, AutoRevert, GuardDies
  <2>9. ASSUME NEW a \in Actor, UndoDies(a) \/ \E d \in Change : Undo(a, d)
        PROVE  row' = row
    BY <2>9 DEF UndoDies, Undo
  <2>10. BeginSweep \/ UNCHANGED vars => row' = row
    BY DEF BeginSweep, vars
  <2> QED BY <1>1, <2>1, <2>4, <2>5, <2>6, <2>7, <2>8, <2>9, <2>10
          DEF Next, GuardStep, UndoStep
<1>2. Spec => []Whole
  BY WholeInvariant
<1>3. Whole /\ [Next]_vars => [\A c \in Change : row[c].status = "reverted"
                                   => row'[c].status = "reverted"]_vars
  BY <1>1
<1> QED BY <1>2, <1>3, PTL DEF Spec, UndoneStaysUndone

-----------------------------------------------------------------------------
(* The guards and the sweep implement ChangeLedger.  Beyond Whole the steps *)
(* rest on what a row says while its guard, or a transaction, is about it.  *)

AtWork == {"apply", "verify", "met", "unmet", "undone"}

LedgerInv ==
  /\ \A c \in Change : guard[c].pc \in AtWork =>
       row[c].status = IF Revertible(c) THEN "applied" ELSE "unrevertible"
  /\ \A a \in Actor : \A c \in Members(a) : row[c].status = "applied"

LEMMA LedgerInit == Init => LedgerInv
  BY DEF Init, AtWork, LedgerInv, Members, Idle

\* A change whose row, request and guard a step leaves as the invariant wants
\* them, and whose transactions are as before or find it applied.
LEMMA LedgerKept ==
  ASSUME LedgerInv,
         \A c \in Change : guard'[c].pc \in AtWork =>
           /\ guard[c].pc \in AtWork /\ call'[c] = call[c]
           /\ row'[c].status = row[c].status,
         \A a \in Actor : \A c \in Members(a)' :
           c \in Members(a) \/ row[c].status = "applied",
         \A a \in Actor : \A c \in Members(a)' : row'[c].status = row[c].status
  PROVE  LedgerInv'
<1>1. \A c \in Change : guard'[c].pc \in AtWork => (Revertible(c)' <=> Revertible(c))
  BY DEF Revertible
<1>2. \A c \in Change : guard'[c].pc \in AtWork =>
        row'[c].status = IF Revertible(c)' THEN "applied" ELSE "unrevertible"
  BY <1>1 DEF LedgerInv
<1>3. \A a \in Actor : \A c \in Members(a)' : row'[c].status = "applied"
  BY DEF LedgerInv
<1> QED BY <1>2, <1>3 DEF LedgerInv, AtWork

\* Two transactions are never about one change.
LEMMA OneTransaction ==
  ASSUME Whole, NEW a \in Actor, NEW b \in Actor, NEW c \in Change,
         c \in Members(a), c \in Members(b)
  PROVE  a = b
<1>1. SafeOf(c) /\ \A d \in Change : actor[d].pc = "idle" => Members(d) = {}
  BY WholeFacts DEF Whole, SafeInv
<1>2. CASE a = Sweeper
  <2>1. Members(c) = {}
    BY <1>1, <1>2 DEF SafeOf
  <2> QED BY <1>1, <1>2, <2>1, WholeFacts DEF SafeOf
<1>3. CASE b = Sweeper
  <2>1. Members(c) = {}
    BY <1>1, <1>3 DEF SafeOf
  <2> QED BY <1>1, <1>3, <2>1, WholeFacts DEF SafeOf
<1>4. CASE a # Sweeper /\ b # Sweeper
  BY <1>1, <1>4, WholeFacts DEF SafeOf
<1> QED BY <1>2, <1>3, <1>4

\* A guard that moves on, with its row as it was.
LEMMA LedgerGoto ==
  ASSUME Whole, LedgerInv, NEW c \in Change, NEW pc, Goto(c, pc),
         pc \in AtWork => guard[c].pc \in AtWork, UNCHANGED <<row, call, actor>>
  PROVE  LedgerInv'
<1>1. /\ guard'[c].pc = pc /\ \A d \in Change : d # c => guard'[d] = guard[d]
      /\ \A a \in Actor : Members(a)' = Members(a)
  BY WholeFacts DEF Goto, Members
<1> QED BY <1>1, LedgerKept

\* A guard that closes its row.
LEMMA LedgerSettle ==
  ASSUME Whole, LedgerInv, NEW c \in Change, NEW status, ~Over(c),
         Settle(c, status), Goto(c, "done"), UNCHANGED <<call, actor>>
  PROVE  LedgerInv'
<1>1. /\ guard'[c].pc = "done" /\ \A d \in Change : d # c => guard'[d] = guard[d]
      /\ \A d \in Change : d # c => row'[d] = row[d]
      /\ \A a \in Actor : Members(a)' = Members(a)
  BY WholeFacts DEF Goto, Settle, Members
<1>2. \A a \in Actor : c \notin Members(a)
  BY NotOver
<1>3. "done" \notin AtWork
  BY DEF AtWork
<1>4. \A d \in Change : guard'[d].pc \in AtWork =>
        guard[d].pc \in AtWork /\ call'[d] = call[d] /\ row'[d].status = row[d].status
  BY <1>1, <1>3
<1>5. \A a \in Actor : \A d \in Members(a)' :
        d \in Members(a) /\ row'[d].status = row[d].status
  BY <1>1, <1>2, WholeFacts
<1> QED BY <1>4, <1>5, LedgerKept

LEMMA LedgerStep == ASSUME Whole, LedgerInv, [Next]_vars PROVE LedgerInv'
<1>1. ASSUME NEW c \in Change, ReadPriorState(c) PROVE LedgerInv'
  <2>1. /\ UNCHANGED <<row, actor>>
        /\ guard' = [guard EXCEPT ![c] = [pc |-> "record", prior |-> host[TargetOf[c]]]]
        /\ \E r : call' = [call EXCEPT ![c] = r]
    BY <1>1 DEF ReadPriorState
  <2>2. /\ guard'[c].pc \notin AtWork
        /\ \A d \in Change : d # c => guard'[d] = guard[d] /\ call'[d] = call[d]
        /\ \A a \in Actor : Members(a)' = Members(a)
    BY <2>1, WholeFacts DEF AtWork, Members
  <2> QED BY <2>1, <2>2, LedgerKept
<1>2. ASSUME NEW c \in Change, RecordChange(c) PROVE LedgerInv'
  <2>1. /\ guard[c].pc = "record" /\ Goto(c, "apply") /\ UNCHANGED <<call, actor>>
        /\ \E expires, prev : row' = [row EXCEPT ![c] =
             [status |-> IF Revertible(c) THEN "applied" ELSE "unrevertible",
              prev |-> prev, expires |-> expires]]
    BY <1>2 DEF RecordChange
  <2>2. /\ row'[c].status = IF Revertible(c) THEN "applied" ELSE "unrevertible"
        /\ \A d \in Change : d # c => row'[d] = row[d] /\ guard'[d] = guard[d]
        /\ \A a \in Actor : Members(a)' = Members(a)
        /\ ~Over(c)
    BY <2>1, WholeFacts DEF Goto, Members, Over
  <2>3. \A d \in Change : Revertible(d)' <=> Revertible(d)
    BY <2>1 DEF Revertible
  <2>4. \A a \in Actor : c \notin Members(a)'
    BY <2>2, NotOver
  <2>5. \A d \in Change : guard'[d].pc \in AtWork =>
          row'[d].status = IF Revertible(d)' THEN "applied" ELSE "unrevertible"
    BY <2>2, <2>3 DEF LedgerInv
  <2>6. \A a \in Actor : \A d \in Members(a)' : row'[d].status = "applied"
    BY <2>2, <2>4, WholeFacts DEF LedgerInv
  <2> QED BY <2>5, <2>6 DEF LedgerInv, AtWork
<1>3. ASSUME NEW c \in Change, Apply(c) \/ ApplyFails(c) \/ Verify(c) \/ GuardDies(c)
      PROVE  LedgerInv'
  <2>1. /\ UNCHANGED <<row, call, actor>>
        /\ \/ guard[c].pc \in AtWork /\ \E pc : Goto(c, pc)
           \/ Goto(c, "dead")
    BY <1>3 DEF Apply, ApplyFails, Verify, GuardDies, AtWork
  <2>2. "dead" \notin AtWork
    BY DEF AtWork
  <2> QED BY <2>1, <2>2, LedgerGoto
<1>4. ASSUME NEW c \in Change,
             SettleUnapplied(c) \/ SettleVerified(c) \/ SettleUnrevertible(c)
      PROVE  LedgerInv'
  <2>1. /\ ~Over(c) /\ Goto(c, "done") /\ UNCHANGED <<call, actor>>
        /\ \E status : Settle(c, status)
    BY <1>4 DEF SettleUnapplied, SettleVerified, SettleUnrevertible, Over
  <2> QED BY <2>1, LedgerSettle
<1>5. ASSUME NEW c \in Change, AutoRevert(c) PROVE LedgerInv'
  <2>1. /\ guard[c].pc = "unmet" /\ Revertible(c) /\ Goto(c, "done") /\ BeginUndo(c, c)
        /\ UNCHANGED <<row, call>> /\ c \in Actor
    BY <1>5, WholeFacts DEF AutoRevert
  <2>2. "done" \notin AtWork /\ row[c].status = "applied"
    BY <2>1 DEF AtWork, LedgerInv
  <2>3. actor' = [actor EXCEPT ![c] = [Idle EXCEPT !.pc = "undoing", !.todo = {c}]]
    BY <2>1, <2>2 DEF BeginUndo
  <2>4. {c} \in SUBSET Change
    OBVIOUS
  <2>5. /\ Members(c)' = {c}
        /\ \A a \in Actor : a # c => Members(a)' = Members(a)
    BY <2>1, <2>3, <2>4, Begins, WholeFacts
  <2>6. guard'[c].pc = "done" /\ \A d \in Change : d # c => guard'[d] = guard[d]
    BY <2>1, WholeFacts DEF Goto
  <2> QED BY <2>1, <2>2, <2>5, <2>6, LedgerKept
<1>6. CASE BeginSweep
  <2>1. /\ actor' = [actor EXCEPT ![Sweeper] = [Idle EXCEPT !.pc = "undoing", !.todo = Due]]
        /\ UNCHANGED <<row, call, guard>>
        /\ Sweeper \in Actor /\ Due \in SUBSET Change
    BY <1>6, WholeFacts DEF BeginSweep, Due
  <2>2. /\ Members(Sweeper)' = Due
        /\ \A a \in Actor : a # Sweeper => Members(a)' = Members(a)
    BY <2>1, Begins, WholeFacts
  <2> QED BY <2>1, <2>2, LedgerKept DEF Due
<1>7. ASSUME NEW a \in Actor, NEW c \in Change, Undo(a, c) PROVE LedgerInv'
  <2>1. UNCHANGED <<row, call, guard>> /\ \A b \in Actor : Members(b)' = Members(b)
    BY <1>7, Undoes DEF Whole, PathInv
  <2> QED BY <2>1, LedgerKept
<1>8. ASSUME NEW a \in Actor, CommitUndo(a) PROVE LedgerInv'
  <2>1. /\ UNCHANGED <<call, guard>> /\ actor' = [actor EXCEPT ![a] = Idle]
        /\ \A c \in Change : c \notin Members(a) => row'[c] = row[c]
    BY <1>8 DEF CommitUndo, Members
  <2>2. /\ Members(a)' = {}
        /\ \A b \in Actor : b # a => Members(b)' = Members(b)
    BY <2>1, Ends, WholeFacts
  <2>3. \A c \in Change : guard[c].pc \in AtWork => ~Over(c)
    BY DEF AtWork, Over
  <2>4. \A c \in Change : guard[c].pc \in AtWork => row'[c] = row[c]
    BY <2>1, <2>3, NotOver
  <2>5. \A b \in Actor : \A c \in Members(b)' : c \in Members(b) /\ row'[c] = row[c]
    BY <2>1, <2>2, OneTransaction, WholeFacts
  <2> QED BY <2>1, <2>4, <2>5, LedgerKept
<1>9. ASSUME NEW a \in Actor, UndoDies(a) PROVE LedgerInv'
  <2>1. /\ UNCHANGED <<row, call>> /\ actor' = [actor EXCEPT ![a] = Idle]
        /\ guard' = [c \in Change |->
             IF c = a THEN [guard[c] EXCEPT !.pc = "dead"] ELSE guard[c]]
    BY <1>9 DEF UndoDies
  <2>2. /\ Members(a)' = {}
        /\ \A b \in Actor : b # a => Members(b)' = Members(b)
    BY <2>1, Ends, WholeFacts
  <2>3. \A c \in Change : guard'[c].pc \in AtWork => guard[c].pc \in AtWork
    BY <2>1, WholeFacts DEF AtWork
  <2> QED BY <2>1, <2>2, <2>3, LedgerKept
<1>10. ASSUME NEW c \in Change, WindowElapses(c) PROVE LedgerInv'
  <2>1. /\ UNCHANGED <<call, guard>> /\ \A a \in Actor : Members(a)' = Members(a)
        /\ \A d \in Change : row'[d].status = row[d].status
    BY <1>10, WholeFacts DEF WindowElapses, Members
  <2> QED BY <2>1, LedgerKept, WholeFacts
<1>11. CASE UNCHANGED vars
  BY <1>11, LedgerKept DEF vars, Members
<1>12. Operator = {}
  BY WholeFacts
<1> QED
  BY <1>1, <1>2, <1>3, <1>4, <1>5, <1>6, <1>7, <1>8, <1>9, <1>10, <1>11, <1>12
  DEF Next, GuardStep, UndoStep

\* The state of ChangeLedger.
Statuses == [c \in Change |-> row[c].status]
Armed    == {c \in Change : row[c].expires # "never"}
Live     == {c \in Change : ~Undone(c)}

\* A change that ChangeLedger does not see move.
Unmoved(c) ==
  /\ row'[c].status = row[c].status
  /\ row'[c].expires = "never" <=> row[c].expires = "never"
  /\ Undone(c)' <=> Undone(c)

LEMMA UnmovedWhere ==
  ASSUME NEW c \in Change, call'[c] = call[c], row'[c] = row[c],
         host'[TargetOf[c]] = host[TargetOf[c]],
         latest'[TargetOf[c]] = latest[TargetOf[c]]
  PROVE  Unmoved(c)
BY DEF Unmoved, Undone, TookEffect, InverseState

LEMMA UndoneAlike ==
  ASSUME NEW c \in Change, UNCHANGED <<call, host, latest>>, row'[c].prev = row[c].prev
  PROVE  Undone(c)' <=> Undone(c)
BY DEF Undone, TookEffect, InverseState

LEMMA LedgerStutter ==
  ASSUME \A c \in Change : Unmoved(c)
  PROVE  UNCHANGED Ledger!vars
<1>1. Statuses' = Statuses
  BY DEF Unmoved, Statuses
<1>2. Armed' = Armed
  BY DEF Unmoved, Armed
<1>3. Live' = Live
  BY DEF Unmoved, Live
<1> QED BY <1>1, <1>2, <1>3 DEF Ledger!vars, Statuses, Armed, Live

\* One change moves.
LEMMA LedgerMove ==
  ASSUME NEW c \in Change, \A d \in Change : d # c => Unmoved(d)
  PROVE  /\ Statuses' = [Statuses EXCEPT ![c] = row'[c].status]
         /\ row'[c].expires = "never" => Armed' = Armed \ {c}
         /\ row'[c].expires # "never" => Armed' = Armed \cup {c}
         /\ Undone(c)' => Live' = Live \ {c}
         /\ ~Undone(c)' => Live' = Live \cup {c}
<1>1. Statuses' = [Statuses EXCEPT ![c] = row'[c].status]
  BY DEF Unmoved, Statuses
<1>2. Armed = {d \in Change : row[d].expires # "never"} /\ Armed' = {d \in Change : row'[d].expires # "never"}
  BY DEF Armed
<1>3. Live = {d \in Change : ~Undone(d)} /\ Live' = {d \in Change : ~Undone(d)'}
  BY DEF Live
<1>4. \A d \in Change : d # c =>
        /\ row'[d].expires = "never" <=> row[d].expires = "never"
        /\ Undone(d)' <=> Undone(d)
  BY DEF Unmoved
<1> HIDE DEF Undone
<1> QED BY <1>1, <1>2, <1>3, <1>4

LEMMA LedgerStart == ASSUME Separate, Init PROVE Ledger!Init
<1>1. Statuses = [c \in Change |-> "none"] /\ Armed = {}
  BY DEF Init, NoRow, Statuses, Armed
<1>2. \A c \in Change : Undone(c)
  BY GuardAssumption DEF Init, Nothing, Undone, TookEffect, Separate
<1>3. Live = {}
  BY <1>2 DEF Live
<1> QED BY <1>1, <1>3 DEF Ledger!Init, Statuses, Armed, Live

\* The steps that touch no row that ChangeLedger knows, nor the host.
LEMMA LedgerQuiet ==
  ASSUME UNCHANGED <<row, call, host, latest>>
  PROVE  UNCHANGED Ledger!vars
BY UnmovedWhere, LedgerStutter

LEMMA LedgerRead ==
  ASSUME Whole, NEW c \in Change, ReadPriorState(c) PROVE UNCHANGED Ledger!vars
<1>1. /\ UNCHANGED <<row, host, latest>> /\ guard[c].pc = "new"
      /\ \E r : call' = [call EXCEPT ![c] = r]
  BY DEF ReadPriorState
<1>2. ~TookEffect(c)
  BY <1>1 DEF Whole, PathInv, PathOf
<1>3. Unmoved(c)
  BY <1>1, <1>2 DEF Unmoved, Undone, TookEffect
<1>4. ASSUME NEW d \in Change, d # c PROVE Unmoved(d)
  BY <1>1, <1>4, UnmovedWhere, WholeFacts
<1> QED BY <1>3, <1>4, LedgerStutter

\* The row is written before anything is on the host.
LEMMA LedgerRecord ==
  ASSUME Whole, NEW c \in Change, RecordChange(c) PROVE Ledger!Record(c)
<1>1. /\ guard[c].pc = "record" /\ UNCHANGED <<host, call, latest>>
      /\ row' = [row EXCEPT ![c] =
           [status  |-> IF Revertible(c) THEN "applied" ELSE "unrevertible",
            prev    |-> guard[c].prior,
            expires |-> IF call[c].window /\ Revertible(c) THEN "later" ELSE "never"]]
  BY DEF RecordChange
<1>2. /\ row'[c].status = IF Revertible(c) THEN "applied" ELSE "unrevertible"
      /\ row'[c].expires = IF call[c].window /\ Revertible(c) THEN "later" ELSE "never"
      /\ \A d \in Change : d # c => row'[d] = row[d]
  BY <1>1, WholeFacts
<1>3. \A d \in Change : d # c => Unmoved(d)
  BY <1>1, <1>2, UnmovedWhere
<1>4. ~TookEffect(c) /\ ~TookEffect(c)' /\ row[c].status = "none"
  BY <1>1 DEF Whole, PathInv, PathOf, TookEffect
<1>5. row[c].expires = "never"
  BY <1>4 DEF Whole, ArmedInv, ArmedIsSwept
<1>6. Undone(c) /\ Undone(c)'
  BY <1>4 DEF Undone
<1>7. c \notin Armed /\ c \notin Live /\ Statuses[c] = "none"
  BY <1>4, <1>5, <1>6 DEF Armed, Live, Statuses
<1>8. /\ Statuses' = [Statuses EXCEPT ![c] = row'[c].status]
      /\ row'[c].expires = "never" => Armed' = Armed
      /\ row'[c].expires # "never" => Armed' = Armed \cup {c}
      /\ Live' = Live
  BY <1>3, <1>6, <1>7, LedgerMove
<1>9. /\ row'[c].status \in {"applied", "unrevertible"}
      /\ row'[c].expires # "never" => row'[c].status = "applied"
      /\ Statuses'[c] = row'[c].status
  BY <1>2 DEF Statuses
<1> QED BY <1>7, <1>8, <1>9 DEF Ledger!Record, Ledger!Open, Statuses, Armed, Live

\* The change reaches the host: what the host shows may be what it showed.
LEMMA LedgerMake ==
  ASSUME Whole, LedgerInv, NEW c \in Change, guard[c].pc = "apply", TakeEffect(c),
         UNCHANGED <<row, call>>
  PROVE  Ledger!Make(c) \/ UNCHANGED Ledger!vars
<1>1. \A d \in Change : d # c => Unmoved(d)
  BY EffectOfOne, UnmovedWhere DEF Whole, Unattended, PathInv
<1>2. ~TookEffect(c) /\ Undone(c)
  BY DEF Whole, PathInv, PathOf, Undone
<1>3. CASE Undone(c)'
  <2>1. Unmoved(c)
    BY <1>2, <1>3 DEF Unmoved
  <2> QED BY <1>1, <2>1, LedgerStutter
<1>4. CASE ~Undone(c)'
  <2>1. Statuses' = Statuses /\ Armed' = Armed /\ Live' = Live \cup {c}
    BY <1>1, <1>4, LedgerMove DEF Statuses, Armed
  <2>2. Statuses[c] \in {"applied", "unrevertible"}
    BY DEF LedgerInv, AtWork, Statuses
  <2> QED BY <2>1, <2>2 DEF Ledger!Make, Ledger!Open, Statuses, Armed, Live
<1> QED BY <1>3, <1>4

LEMMA LedgerSettles ==
  ASSUME Whole, LedgerInv, NEW c \in Change,
         SettleUnapplied(c) \/ SettleVerified(c) \/ SettleUnrevertible(c)
  PROVE  Ledger!Close({c}, {}) \/ Ledger!Keep(c) \/ UNCHANGED Ledger!vars
<1>1. /\ UNCHANGED <<host, call, latest>>
      /\ guard[c].pc \in {"undone", "met", "unmet"}
      /\ \/ guard[c].pc = "undone" /\ Settle(c, "reverted")
         \/ guard[c].pc = "met" /\ Settle(c, "verified")
         \/ ~Revertible(c) /\ Settle(c, "unrevertible")
  BY DEF SettleUnapplied, SettleVerified, SettleUnrevertible
<1>2. row[c].status = IF Revertible(c) THEN "applied" ELSE "unrevertible"
  BY <1>1 DEF LedgerInv, AtWork
<1>3. PICK status : /\ Settle(c, status)
                    /\ \/ guard[c].pc = "undone" /\ status = "reverted"
                       \/ guard[c].pc = "met" /\ status = "verified"
                       \/ ~Revertible(c) /\ status = "unrevertible"
  BY <1>1
<1>4. /\ row'[c].status = status /\ row'[c].expires = "never"
      /\ row'[c].prev = row[c].prev
      /\ \A d \in Change : d # c => row'[d] = row[d]
  BY <1>3, WholeFacts DEF Settle
<1>5. /\ \A d \in Change : d # c => Unmoved(d)
      /\ Undone(c)' <=> Undone(c)
  BY <1>1, <1>4, UnmovedWhere, UndoneAlike
<1>6. Live' = Live /\ Armed' = Armed \ {c} /\ Statuses' = [Statuses EXCEPT ![c] = status]
  <2>1. Live' = Live
    BY <1>5 DEF Live, Unmoved
  <2> QED BY <1>4, <1>5, <2>1, LedgerMove
<1>7. Statuses[c] = row[c].status /\ Statuses[c] \in {"applied", "unrevertible"}
  BY <1>2 DEF Statuses
<1>8. CASE guard[c].pc = "undone" /\ status = "reverted"
  <2>1. ~TookEffect(c)
    BY <1>8 DEF Whole, SafeInv, SafeOf
  <2>2. c \notin Live
    BY <2>1 DEF Live, Undone
  <2>3. Statuses' = [d \in Change |-> IF d \in {c} THEN "reverted"
                                      ELSE IF d \in {} THEN "revert_failed" ELSE Statuses[d]]
    BY <1>6, <1>8 DEF Statuses
  <2> QED BY <1>6, <1>7, <2>2, <2>3 DEF Ledger!Close, Ledger!Open, Statuses, Armed, Live
<1>9. CASE guard[c].pc = "met" /\ status = "verified"
  BY <1>6, <1>7, <1>9 DEF Ledger!Keep, Ledger!Open, Statuses, Armed, Live
<1>10. CASE ~Revertible(c) /\ status = "unrevertible"
  <2>1. row[c].expires = "never"
    BY <1>10 DEF Whole, ArmedInv, ArmedIsSwept
  <2>2. Unmoved(c)
    BY <1>2, <1>4, <1>5, <1>10, <2>1 DEF Unmoved
  <2> QED BY <1>5, <2>2, LedgerStutter
<1> QED BY <1>3, <1>8, <1>9, <1>10

\* An inverse reaches the host, or fails: the row is still open.
LEMMA LedgerUndo ==
  ASSUME Whole, LedgerInv, NEW a \in Actor, NEW c \in Change, Undo(a, c)
  PROVE  Ledger!Unmake(c) \/ UNCHANGED Ledger!vars
<1>1. /\ c \in Members(a) /\ UNCHANGED <<row, call, guard, latest>>
      /\ \/ host' = [host EXCEPT ![TargetOf[c]] = InverseState(c)]
         \/ host' = host
  BY Undoes DEF Whole, PathInv, Members
<1>2. CASE host' = host
  BY <1>1, <1>2, LedgerQuiet
<1>3. CASE host' = [host EXCEPT ![TargetOf[c]] = InverseState(c)]
  <2>1. \A d \in Change : d # c => Unmoved(d)
    BY <1>1, <1>3, UnmovedWhere, WholeFacts
  <2>2. Undone(c)'
    BY <1>1, <1>3, WholeFacts DEF Undone, InverseState
  <2>3. Statuses' = Statuses /\ Armed' = Armed /\ Live' = Live \ {c}
    BY <1>1, <2>1, <2>2, LedgerMove DEF Statuses, Armed
  <2>4. Statuses[c] = "applied"
    BY <1>1 DEF LedgerInv, Statuses
  <2> QED BY <2>3, <2>4 DEF Ledger!Unmake, Statuses, Armed, Live
<1> QED BY <1>1, <1>2, <1>3

\* The rows of one transaction, all at once.
LEMMA LedgerCommit ==
  ASSUME Whole, LedgerInv, NEW a \in Actor, CommitUndo(a)
  PROVE  \E R, F \in SUBSET Change : Ledger!Close(R, F)
<1>0. PICK R \in SUBSET Change, F \in SUBSET Change :
        R = actor[a].done /\ F = actor[a].failed
  BY WholeFacts DEF Members
<1>1. /\ UNCHANGED <<host, call, latest>>
      /\ row' = [c \in Change |->
           IF c \in R THEN [row[c] EXCEPT !.status = "reverted", !.expires = "never"]
           ELSE IF c \in F
             THEN [row[c] EXCEPT !.status = "revert_failed", !.expires = "never"]
             ELSE row[c]]
  BY <1>0 DEF CommitUndo
<1>2. R \subseteq Members(a) /\ F \subseteq Members(a) /\ Members(a) \subseteq Change
  BY <1>0, WholeFacts DEF Members
<1>3. \A c \in R \cup F : c \in Change /\ row[c].status = "applied"
  BY <1>2 DEF LedgerInv
<1>4. \A c \in R : Undone(c)
  BY <1>0, <1>2 DEF Whole, SafeInv, SafeOf
<1>5. \A c \in Change :
        /\ row'[c].prev = row[c].prev
        /\ row'[c].status = IF c \in R THEN "reverted"
                            ELSE IF c \in F THEN "revert_failed" ELSE row[c].status
        /\ row'[c].expires = IF c \in R \cup F THEN "never" ELSE row[c].expires
  BY <1>1, WholeFacts
<1>6. Live' = Live
  <2>1. \A c \in Change : Undone(c)' <=> Undone(c)
    BY <1>1, <1>5, UndoneAlike
  <2> QED BY <2>1 DEF Live
<1>7. Armed' = Armed \ (R \cup F)
  BY <1>5 DEF Armed
<1>8. Statuses' = [c \in Change |-> IF c \in R THEN "reverted"
                                    ELSE IF c \in F THEN "revert_failed" ELSE Statuses[c]]
  BY <1>5 DEF Statuses
<1>9. /\ \A c \in R : Statuses[c] \in {"applied", "unrevertible"} /\ c \notin Live
      /\ \A c \in F : Statuses[c] = "applied"
  BY <1>3, <1>4 DEF Statuses, Live
<1>10. Ledger!Close(R, F)
  BY <1>6, <1>7, <1>8, <1>9 DEF Ledger!Close, Ledger!Open, Statuses, Armed, Live
<1> QED BY <1>10

LEMMA LedgerNext ==
  ASSUME Whole, LedgerInv, [Next]_vars
  PROVE  [Ledger!Next]_(Ledger!vars)
<1>1. ASSUME NEW c \in Change, ReadPriorState(c) PROVE UNCHANGED Ledger!vars
  BY <1>1, LedgerRead
<1>2. ASSUME NEW c \in Change, RecordChange(c) PROVE Ledger!Next
  BY <1>2, LedgerRecord DEF Ledger!Next
<1>3. ASSUME NEW c \in Change, Apply(c) \/ ApplyFails(c) \/ GuardDies(c)
      PROVE  [Ledger!Next]_(Ledger!vars)
  <2>1. /\ UNCHANGED <<row, call>>
        /\ UNCHANGED <<host, latest>> \/ (guard[c].pc = "apply" /\ TakeEffect(c))
    BY <1>3 DEF Apply, ApplyFails, GuardDies
  <2>2. CASE UNCHANGED <<host, latest>>
    BY <2>1, <2>2, LedgerQuiet
  <2>3. CASE guard[c].pc = "apply" /\ TakeEffect(c)
    BY <2>1, <2>3, LedgerMake DEF Ledger!Next
  <2> QED BY <2>1, <2>2, <2>3
<1>4. ASSUME NEW c \in Change,
             SettleUnapplied(c) \/ SettleVerified(c) \/ SettleUnrevertible(c)
      PROVE  [Ledger!Next]_(Ledger!vars)
  <2>1. {c} \in SUBSET Change /\ {} \in SUBSET Change
    OBVIOUS
  <2>2. Ledger!Close({c}, {}) \/ Ledger!Keep(c) \/ UNCHANGED Ledger!vars
    BY <1>4, LedgerSettles
  <2> QED BY <2>1, <2>2 DEF Ledger!Next
<1>5. ASSUME NEW a \in Actor, NEW c \in Change, Undo(a, c)
      PROVE  [Ledger!Next]_(Ledger!vars)
  BY <1>5, LedgerUndo DEF Ledger!Next
<1>6. ASSUME NEW a \in Actor, CommitUndo(a) PROVE Ledger!Next
  BY <1>6, LedgerCommit DEF Ledger!Next
<1>7. ASSUME NEW c \in Change, WindowElapses(c) PROVE UNCHANGED Ledger!vars
  <2>1. /\ UNCHANGED <<host, call, latest>> /\ row[c].expires = "later"
        /\ row' = [row EXCEPT ![c].expires = "past"]
    BY <1>7 DEF WindowElapses
  <2>2. /\ row'[c].expires = "past"
        /\ \A d \in Change : /\ row'[d].prev = row[d].prev
                             /\ row'[d].status = row[d].status
                             /\ d # c => row'[d].expires = row[d].expires
    BY <2>1, WholeFacts
  <2>3. \A d \in Change : Unmoved(d)
    BY <2>1, <2>2, UndoneAlike DEF Unmoved
  <2> QED BY <2>3, LedgerStutter
<1>8. ASSUME NEW c \in Change, Verify(c) \/ AutoRevert(c) PROVE UNCHANGED Ledger!vars
  BY <1>8, LedgerQuiet DEF Verify, AutoRevert
<1>9. ASSUME NEW a \in Actor, UndoDies(a) PROVE UNCHANGED Ledger!vars
  BY <1>9, LedgerQuiet DEF UndoDies
<1>10. CASE BeginSweep \/ UNCHANGED vars
  BY <1>10, LedgerQuiet DEF BeginSweep, vars
<1>11. Operator = {}
  BY WholeFacts
<1> QED
  BY <1>1, <1>2, <1>3, <1>4, <1>5, <1>6, <1>7, <1>8, <1>9, <1>10, <1>11
  DEF Next, GuardStep, UndoStep

\* Guards and the sweep, each of which touches the host at one time and the row
\* at another and may die in between, keep what ChangeLedger promises.
THEOREM LedgerIsImplemented == Unattended => (Spec => ImplementsLedger)
<1> SUFFICES ASSUME Unattended PROVE Spec => ImplementsLedger
  OBVIOUS
<1>1. Init => LedgerInv /\ Ledger!Init
  BY LedgerInit, LedgerStart DEF Unattended
<1>2. Whole /\ LedgerInv /\ [Next]_vars => LedgerInv'
  BY LedgerStep
<1>3. Whole /\ LedgerInv /\ [Next]_vars => [Ledger!Next]_(Ledger!vars)
  BY LedgerNext
<1>4. Spec => []Whole
  BY WholeInvariant
<1> QED BY <1>1, <1>2, <1>3, <1>4, PTL
        DEF Spec, ImplementsLedger, Ledger!Spec

=============================================================================
