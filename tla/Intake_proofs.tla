---------------------------- MODULE Intake_proofs ----------------------------
(***************************************************************************)
(* Proofs about what brings work in, as MCIntake composes it: Admission for *)
(* any number of clients, workers, schedules and keys, and any limits;      *)
(* GmailCursor for any number of requests, messages and faults; Members for *)
(* any number of accounts and requests; ChannelDelivery for any messages,   *)
(* requests and runs; and Knowledge for any texts and any window.           *)
(***************************************************************************)
EXTENDS MCIntake, Integers, FiniteSetTheorems, SequenceTheorems, WellFoundedInduction,
        TLAPS

Configured ==
  /\ IsFiniteSet(Client) /\ IsFiniteSet(Worker)
  /\ MaxActive \in Nat /\ MaxRecent \in Nat /\ LastMinute \in Nat

-----------------------------------------------------------------------------
(* Counting.                                                               *)

\* used and at work, against a limit.
Fits(used, atWork, limit) ==
  limit > 0 => Cardinality(used) + Cardinality(atWork)
                 <= limit + Cardinality(Submitter) - 1

LEMMA SubmittersAreFinite ==
  ASSUME Configured PROVE IsFiniteSet(Submitter) /\ Cardinality(Submitter) \in Nat
  BY FS_Union, FS_CardinalityType DEF Configured, Submitter

\* Runs that end and submissions that are over leave room.
LEMMA LessFits ==
  ASSUME NEW U, NEW A, IsFiniteSet(U), IsFiniteSet(A),
         NEW V \in SUBSET U, NEW B \in SUBSET A,
         Cardinality(Submitter) \in Nat,
         NEW limit \in Nat, Fits(U, A, limit)
  PROVE  Fits(V, B, limit)
<1>1. /\ IsFiniteSet(V) /\ Cardinality(V) <= Cardinality(U)
      /\ IsFiniteSet(B) /\ Cardinality(B) <= Cardinality(A)
  BY FS_Subset
<1>2. /\ Cardinality(U) \in Nat /\ Cardinality(A) \in Nat
      /\ Cardinality(V) \in Nat /\ Cardinality(B) \in Nat
  BY <1>1, FS_CardinalityType
<1> QED BY <1>1, <1>2 DEF Fits

\* A submission below the limit: all others may be at work as well.
LEMMA AdmittedFits ==
  ASSUME Configured, NEW U, IsFiniteSet(U),
         NEW p \in Submitter, NEW A \in SUBSET (Submitter \ {p}),
         NEW limit \in Nat, limit > 0 => Cardinality(U) < limit
  PROVE  Fits(U, A \cup {p}, limit)
<1>1. IsFiniteSet(Submitter) /\ Cardinality(Submitter) \in Nat
  BY SubmittersAreFinite
<1>2. A \cup {p} \in SUBSET Submitter
  OBVIOUS
<1>3. IsFiniteSet(A \cup {p}) /\ Cardinality(A \cup {p}) <= Cardinality(Submitter)
  BY <1>1, <1>2, FS_Subset
<1>4. Cardinality(A \cup {p}) \in Nat /\ Cardinality(U) \in Nat
  BY <1>3, FS_CardinalityType
<1> QED BY <1>1, <1>3, <1>4 DEF Fits

\* A run takes the place of its submission.
LEMMA InsertedFits ==
  ASSUME NEW U, IsFiniteSet(U), NEW A, IsFiniteSet(A), NEW x, x \notin U,
         NEW p \in A, Cardinality(Submitter) \in Nat,
         NEW limit \in Nat, Fits(U, A, limit)
  PROVE  Fits(U \cup {x}, A \ {p}, limit)
<1>1. Cardinality(U \cup {x}) = Cardinality(U) + 1
  BY FS_AddElement
<1>2. Cardinality(A \ {p}) = Cardinality(A) - 1
  BY FS_RemoveElement
<1>3. Cardinality(U) \in Nat /\ Cardinality(A) \in Nat
  BY FS_CardinalityType
<1> QED BY <1>1, <1>2, <1>3 DEF Fits

-----------------------------------------------------------------------------
(* The invariant.                                                          *)

QuotaInv == TypeOK /\ QuotaHolds

LEMMA SetsAreFinite ==
  ASSUME Configured, TypeOK
  PROVE  /\ IsFiniteSet(Active) /\ IsFiniteSet(Recent) /\ IsFiniteSet(Admitted)
         /\ Cardinality(Submitter) \in Nat
<1>1. Len(runs) \in Nat /\ DOMAIN runs = 1..Len(runs)
  BY DEF TypeOK
<1>2. IsFiniteSet(DOMAIN runs)
  BY <1>1, FS_Interval
<1>3. Active \subseteq DOMAIN runs /\ Recent \subseteq DOMAIN runs
      /\ Admitted \subseteq Submitter
  BY DEF Active, Recent, Admitted
<1> QED BY <1>2, <1>3, FS_Subset, SubmittersAreFinite

\* A step that starts no submission and makes no run.
LEMMA LessHolds ==
  ASSUME Configured, QuotaInv, TypeOK',
         Active' \subseteq Active, Recent' \subseteq Recent,
         Admitted' \subseteq Admitted
  PROVE  QuotaInv'
<1>1. Fits(Active, Admitted, MaxActive) /\ Fits(Recent, Admitted, MaxRecent)
  BY DEF QuotaInv, QuotaHolds, Within, Fits
<1>2. Fits(Active', Admitted', MaxActive) /\ Fits(Recent', Admitted', MaxRecent)
  BY <1>1, LessFits, SetsAreFinite DEF QuotaInv, Configured
<1> QED BY <1>2 DEF QuotaInv, QuotaHolds, Within, Fits

\* A submission goes on: below both limits.
LEMMA ProceedHolds ==
  ASSUME Configured, QuotaInv, TypeOK', NEW p \in Submitter, NEW for, NEW key,
         ~Submitting(p), Proceed(p, for, key), runs' = runs
  PROVE  QuotaInv'
<1>1. /\ sub' = [sub EXCEPT ![p] = [pc |-> "admitted", for |-> for, key |-> key]]
      /\ ~OverQuota
  BY DEF Proceed
<1>2. Admitted' = Admitted \cup {p} /\ Admitted \in SUBSET (Submitter \ {p})
  BY <1>1 DEF QuotaInv, TypeOK, Admitted, Submitting
<1>3. Active' = Active /\ Recent' = Recent
  BY DEF Active, Recent
<1>4. /\ IsFiniteSet(Active) /\ IsFiniteSet(Recent)
      /\ Cardinality(Active) \in Nat /\ Cardinality(Recent) \in Nat
  BY SetsAreFinite, FS_CardinalityType DEF QuotaInv
<1>5. /\ MaxActive > 0 => Cardinality(Active) < MaxActive
      /\ MaxRecent > 0 => Cardinality(Recent) < MaxRecent
      /\ MaxActive \in Nat /\ MaxRecent \in Nat
  BY <1>1, <1>4 DEF OverQuota, Exceeded, Configured
<1>6. /\ Fits(Active, Admitted \cup {p}, MaxActive)
      /\ Fits(Recent, Admitted \cup {p}, MaxRecent)
  BY <1>2, <1>4, <1>5, AdmittedFits
<1> QED BY <1>2, <1>3, <1>6 DEF QuotaInv, QuotaHolds, Within, Fits

\* The run of a submission.
LEMMA InsertHolds ==
  ASSUME Configured, QuotaInv, TypeOK', NEW p \in Submitter, Submitting(p), Insert(p)
  PROVE  QuotaInv'
<1> DEFINE n == Len(runs) + 1
<1>1. /\ runs' = Append(runs, [for |-> sub[p].for, key |-> sub[p].key,
                               active |-> TRUE, recent |-> TRUE])
      /\ sub' = [sub EXCEPT ![p] = NoSub]
  BY DEF Insert
<1>2. Admitted' = Admitted \ {p} /\ p \in Admitted
  BY <1>1 DEF QuotaInv, TypeOK, Admitted, Submitting, NoSub
<1>3. /\ Len(runs) \in Nat /\ DOMAIN runs = 1..Len(runs)
      /\ DOMAIN runs' = DOMAIN runs \cup {n} /\ n \notin DOMAIN runs
      /\ runs'[n].active = TRUE /\ runs'[n].recent = TRUE
      /\ \A i \in DOMAIN runs : runs'[i] = runs[i]
  BY <1>1 DEF QuotaInv, TypeOK
<1>4. /\ Active' = Active \cup {n} /\ n \notin Active
      /\ Recent' = Recent \cup {n} /\ n \notin Recent
  BY <1>3 DEF Active, Recent
<1>5. /\ Fits(Active, Admitted, MaxActive) /\ Fits(Recent, Admitted, MaxRecent)
      /\ MaxActive \in Nat /\ MaxRecent \in Nat
  BY DEF QuotaInv, QuotaHolds, Within, Fits, Configured
<1>6. /\ Fits(Active \cup {n}, Admitted \ {p}, MaxActive)
      /\ Fits(Recent \cup {n}, Admitted \ {p}, MaxRecent)
  <2> HIDE DEF n
  <2> QED BY <1>2, <1>4, <1>5, SetsAreFinite, InsertedFits DEF QuotaInv
<1> QED BY <1>2, <1>4, <1>6 DEF QuotaInv, QuotaHolds, Within, Fits

-----------------------------------------------------------------------------
(* Types.                                                                  *)

LEMMA SubFields ==
  ASSUME TypeOK, NEW p \in Submitter, Submitting(p)
  PROVE  sub[p].for \in Client \cup Fire /\ sub[p].key \in Key \cup {NoKey}
  BY DEF TypeOK, SubType, Submitting, NoSub

LEMMA InsertTypes ==
  ASSUME TypeOK, NEW p \in Submitter, Submitting(p), Insert(p)
  PROVE  runs' \in Seq(RunType) /\ sub' \in [Submitter -> SubType]
<1> DEFINE r == [for |-> sub[p].for, key |-> sub[p].key,
                 active |-> TRUE, recent |-> TRUE]
<1>1. r \in RunType
  BY SubFields DEF RunType
<1>2. runs' = Append(runs, r) /\ sub' = [sub EXCEPT ![p] = NoSub]
  BY DEF Insert
<1> HIDE DEF r
<1> QED BY <1>1, <1>2 DEF TypeOK, SubType

LEMMA ProceedTypes ==
  ASSUME TypeOK, NEW p \in Submitter, NEW for \in Client \cup Fire,
         NEW key \in Key \cup {NoKey}, Proceed(p, for, key)
  PROVE  sub' \in [Submitter -> SubType]
  BY DEF TypeOK, Proceed, SubType

LEMMA SweepFields ==
  ASSUME TypeOK, NEW w \in Worker, sweep[w].pc # "idle"
  PROVE  /\ sweep[w].at \in Minute /\ sweep[w].id \in Nat
         /\ sweep[w].list \in SUBSET Schedule
         /\ sweep[w] \in [pc: {"selected", "firing"}, at: Minute, id: Nat,
                          list: SUBSET Schedule]
  BY DEF TypeOK, SweepType, NoSweep

\* Every step keeps the types.
LEMMA TypeStep == ASSUME Configured, TypeOK, [Next]_vars PROVE TypeOK'
<1> USE DEF TypeOK
<1>1. ASSUME NEW c \in Client, NEW k \in Key \cup {NoKey}, ClientSubmit(c, k)
      PROVE  TypeOK'
  <2>1. c \in Submitter
    BY DEF Submitter
  <2>2. sub' \in [Submitter -> SubType]
    BY <1>1, <2>1, ProceedTypes DEF ClientSubmit
  <2> QED BY <1>1, <2>2 DEF ClientSubmit
<1>2. ASSUME NEW c \in Client, ClientInsert(c) PROVE TypeOK'
  <2>1. c \in Submitter
    BY DEF Submitter
  <2> QED BY <1>2, <2>1, InsertTypes DEF ClientInsert
<1>3. ASSUME NEW c \in Client, ClientFails(c) PROVE TypeOK'
  <2>1. sub' \in [Submitter -> SubType]
    BY <1>3 DEF ClientFails, SubType
  <2>2. count' \in [submits: Nat, sweeps: Nat, faults: Nat, refusals: Nat]
    BY <1>3 DEF ClientFails
  <2> QED BY <1>3, <2>1, <2>2 DEF ClientFails
<1>4. ASSUME NEW i \in DOMAIN runs, RunEnds(i) PROVE TypeOK'
  <2>1. runs' = [runs EXCEPT ![i] = [@ EXCEPT !.active = FALSE]]
    BY <1>4 DEF RunEnds
  <2>2. [runs[i] EXCEPT !.active = FALSE] \in RunType
    <3>1. runs[i] \in RunType
      OBVIOUS
    <3> QED BY <3>1 DEF RunType
  <2> QED BY <1>4, <2>1, <2>2 DEF RunEnds
<1>5. ASSUME NEW i \in DOMAIN runs, HourPasses(i) PROVE TypeOK'
  <2>1. runs' = [runs EXCEPT ![i] = [@ EXCEPT !.recent = FALSE]]
    BY <1>5 DEF HourPasses
  <2>2. [runs[i] EXCEPT !.recent = FALSE] \in RunType
    <3>1. runs[i] \in RunType
      OBVIOUS
    <3> QED BY <3>1 DEF RunType
  <2> QED BY <1>5, <2>1, <2>2 DEF HourPasses
<1>6. CASE Tick
  BY <1>6 DEF Tick, Minute, Configured
<1>7. ASSUME NEW w \in Worker, StartSweep(w) PROVE TypeOK'
  <2> DEFINE list == {s \in DOMAIN last \cap DueAt[minute] : last[s] # minute + 1}
             k == [pc |-> "selected", at |-> minute, id |-> count.sweeps, list |-> list]
  <2>1. list \subseteq Schedule
    OBVIOUS
  <2> HIDE DEF list
  <2>2. k \in SweepType
    BY <2>1 DEF SweepType
  <2>3. sweep' = [sweep EXCEPT ![w] = k]
    BY <1>7 DEF StartSweep, list
  <2>4. /\ jobs > 0 /\ jobs' = jobs - 1
        /\ count' = [count EXCEPT !.sweeps = @ + 1]
        /\ UNCHANGED <<runs, sub, last, fires, minute>>
    BY <1>7 DEF StartSweep
  <2>5. jobs' \in Nat /\ count' \in [submits: Nat, sweeps: Nat, faults: Nat, refusals: Nat]
    BY <2>4
  <2> HIDE DEF k
  <2> QED BY <2>2, <2>3, <2>4, <2>5
<1>8. ASSUME NEW w \in Worker, MarkDue(w) PROVE TypeOK'
  <2>1. /\ UNCHANGED <<runs, sub, jobs, minute, count>>
        /\ sweep[w].pc = "selected"
    BY <1>8 DEF MarkDue
  <2>2. CASE sweep[w].list \subseteq DOMAIN last
    <3>1. /\ last' = [s \in DOMAIN last |->
                        IF s \in sweep[w].list THEN sweep[w].at + 1 ELSE last[s]]
          /\ fires' = fires \cup {<<s, sweep[w].at, sweep[w].id>> : s \in sweep[w].list}
          /\ sweep' = [sweep EXCEPT ![w].pc = "firing"]
      BY <1>8, <2>2 DEF MarkDue
    <3>2. \A s \in sweep[w].list : <<s, sweep[w].at, sweep[w].id>> \in Fire
      BY <2>1, SweepFields DEF Fire
    <3>3. fires' \subseteq Fire
      BY <3>1, <3>2
    <3>4. DOMAIN last' \subseteq Schedule /\ \A s \in DOMAIN last' : last'[s] \in Nat
      BY <2>1, <3>1, SweepFields DEF Minute
    <3>5. sweep' \in [Worker -> SweepType]
      <4>1. [sweep[w] EXCEPT !.pc = "firing"] \in SweepType
        BY <2>1, SweepFields DEF SweepType
      <4> QED BY <3>1, <4>1
    <3> QED BY <2>1, <3>3, <3>4, <3>5
  <2>3. CASE ~(sweep[w].list \subseteq DOMAIN last)
    BY <1>8, <2>1, <2>3 DEF MarkDue, SweepType
  <2> QED BY <2>2, <2>3
<1>9. ASSUME NEW w \in Worker, NEW s \in Schedule, FireNext(w, s) PROVE TypeOK'
  <2>1. /\ UNCHANGED <<runs, last, fires, jobs, minute>>
        /\ sweep[w].pc = "firing"
    BY <1>9 DEF FireNext
  <2>2. w \in Submitter
    BY DEF Submitter
  <2>3. CASE /\ Proceed(w, <<s, sweep[w].at, sweep[w].id>>, NoKey)
             /\ sweep' = [sweep EXCEPT ![w].list = @ \ {s}]
             /\ count' = count
    <3>1. <<s, sweep[w].at, sweep[w].id>> \in Client \cup Fire
      BY <2>1, SweepFields DEF Fire
    <3>2. sub' \in [Submitter -> SubType]
      BY <2>2, <2>3, <3>1, ProceedTypes
    <3>3. [sweep[w] EXCEPT !.list = @ \ {s}] \in SweepType
      BY <2>1, SweepFields DEF SweepType
    <3> QED BY <2>1, <2>3, <3>2, <3>3
  <2>4. CASE /\ sweep' = [sweep EXCEPT ![w] = NoSweep] /\ sub' = sub
             /\ count' = [count EXCEPT !.refusals = @ + 1]
    BY <2>1, <2>4 DEF SweepType
  <2> QED BY <1>9, <2>3, <2>4 DEF FireNext
<1>10. ASSUME NEW w \in Worker, SweepInsert(w) PROVE TypeOK'
  <2>1. w \in Submitter
    BY DEF Submitter
  <2> QED BY <1>10, <2>1, InsertTypes DEF SweepInsert
<1>11. ASSUME NEW w \in Worker, SweepEnds(w) PROVE TypeOK'
  BY <1>11 DEF SweepEnds, SweepType
<1>12. ASSUME NEW w \in Worker, SweepFails(w) PROVE TypeOK'
  <2>1. sub' \in [Submitter -> SubType] /\ sweep' \in [Worker -> SweepType]
    BY <1>12 DEF SweepFails, SweepType, SubType
  <2>2. /\ jobs' \in Nat
        /\ count' \in [submits: Nat, sweeps: Nat, faults: Nat, refusals: Nat]
    BY <1>12 DEF SweepFails
  <2> QED BY <1>12, <2>1, <2>2 DEF SweepFails
<1>13. ASSUME NEW s \in Schedule, DeleteSchedule(s) PROVE TypeOK'
  BY <1>13 DEF DeleteSchedule
<1>14. CASE UNCHANGED vars
  BY <1>14 DEF vars
<1> QED BY <1>1, <1>2, <1>3, <1>4, <1>5, <1>6, <1>7, <1>8, <1>9, <1>10, <1>11,
           <1>12, <1>13, <1>14 DEF Next, ClientStep, SweepStep

LEMMA TypeInit == ASSUME Configured, Init PROVE TypeOK
<1>1. runs \in Seq(RunType) /\ fires \subseteq Fire
  BY DEF Init
<1>2. sub \in [Submitter -> SubType] /\ sweep \in [Worker -> SweepType]
  BY DEF Init, SubType, SweepType
<1> QED BY <1>1, <1>2 DEF Init, TypeOK, Minute, Configured

\* Types: rows, submissions, sweeps and firings, in every state that quotas.py,
\* scheduler.py and submit_message can be in.
THEOREM AdmissionIsTyped == Configured => (Spec => []TypeOK)
<1> SUFFICES ASSUME Configured PROVE Spec => []TypeOK
  OBVIOUS
<1>1. Init => TypeOK
  BY TypeInit
<1>2. TypeOK /\ [Next]_vars => TypeOK'
  BY TypeStep
<1> QED BY <1>1, <1>2, PTL DEF Spec

-----------------------------------------------------------------------------
(* Quotas.                                                                 *)

LEMMA QuotaStep == ASSUME Configured, QuotaInv, [Next]_vars PROVE QuotaInv'
<1>0. TypeOK /\ TypeOK'
  BY TypeStep DEF QuotaInv
<1>1. ASSUME NEW p \in Submitter, sub' = [sub EXCEPT ![p] = NoSub], runs' = runs
      PROVE  QuotaInv'
  <2>1. Active' = Active /\ Recent' = Recent
    BY <1>1 DEF Active, Recent
  <2>2. Admitted' \subseteq Admitted
    BY <1>0, <1>1 DEF TypeOK, Admitted, Submitting, NoSub
  <2> QED BY <1>0, <2>1, <2>2, LessHolds
<1>2. ASSUME sub' = sub, runs' = runs PROVE QuotaInv'
  <2>1. Active' = Active /\ Recent' = Recent /\ Admitted' = Admitted
    BY <1>2 DEF Active, Recent, Admitted, Submitting
  <2> QED BY <1>0, <2>1, LessHolds
<1>3. ASSUME NEW i \in DOMAIN runs, RunEnds(i) \/ HourPasses(i) PROVE QuotaInv'
  <2>1. /\ sub' = sub
        /\ runs' = [runs EXCEPT ![i].active = FALSE]
             \/ runs' = [runs EXCEPT ![i].recent = FALSE]
    BY <1>3 DEF RunEnds, HourPasses
  <2>2. runs \in Seq(RunType) /\ \A j \in DOMAIN runs : runs[j] \in RunType
    BY <1>0 DEF TypeOK
  <2>3. /\ DOMAIN runs' = DOMAIN runs
        /\ \A j \in DOMAIN runs : /\ runs'[j].active => runs[j].active
                                  /\ runs'[j].recent => runs[j].recent
    BY <2>1, <2>2 DEF RunType
  <2>4. Active' \subseteq Active /\ Recent' \subseteq Recent
    BY <2>3 DEF Active, Recent
  <2>5. Admitted' = Admitted
    BY <2>1 DEF Admitted, Submitting
  <2> QED BY <1>0, <2>4, <2>5, LessHolds
<1>4. ASSUME NEW c \in Client, NEW k \in Key \cup {NoKey}, ClientSubmit(c, k)
      PROVE  QuotaInv'
  <2>1. c \in Submitter /\ ~Submitting(c) /\ runs' = runs
    BY <1>4 DEF Submitter, ClientSubmit
  <2>2. CASE Proceed(c, c, k)
    BY <1>0, <2>1, <2>2, ProceedHolds
  <2>3. CASE sub' = sub
    BY <1>2, <2>1, <2>3
  <2> QED BY <1>4, <2>2, <2>3 DEF ClientSubmit
<1>5. ASSUME NEW c \in Client, ClientInsert(c) PROVE QuotaInv'
  BY <1>0, <1>5, InsertHolds DEF ClientInsert, Submitter
<1>6. ASSUME NEW w \in Worker, SweepInsert(w) PROVE QuotaInv'
  BY <1>0, <1>6, InsertHolds DEF SweepInsert, Submitter
<1>7. ASSUME NEW c \in Client, ClientFails(c) PROVE QuotaInv'
  BY <1>1, <1>7 DEF ClientFails, Submitter
<1>8. ASSUME NEW w \in Worker, SweepFails(w) PROVE QuotaInv'
  BY <1>1, <1>8 DEF SweepFails, Submitter
<1>9. ASSUME NEW w \in Worker, NEW s \in Schedule, FireNext(w, s) PROVE QuotaInv'
  <2>1. w \in Submitter /\ ~Submitting(w) /\ runs' = runs
    BY <1>9 DEF Submitter, FireNext
  <2>2. CASE Proceed(w, <<s, sweep[w].at, sweep[w].id>>, NoKey)
    BY <1>0, <2>1, <2>2, ProceedHolds
  <2>3. CASE sub' = sub
    BY <1>2, <2>1, <2>3
  <2> QED BY <1>9, <2>2, <2>3 DEF FireNext
<1>10. ASSUME NEW w \in Worker, StartSweep(w) \/ MarkDue(w) \/ SweepEnds(w)
       PROVE  QuotaInv'
  BY <1>2, <1>10 DEF StartSweep, MarkDue, SweepEnds
<1>11. CASE Tick \/ (\E s \in Schedule : DeleteSchedule(s)) \/ UNCHANGED vars
  BY <1>2, <1>11 DEF Tick, DeleteSchedule, vars
<1> QED BY <1>3, <1>4, <1>5, <1>6, <1>7, <1>8, <1>9, <1>10, <1>11
        DEF Next, ClientStep, SweepStep

LEMMA QuotaInit == ASSUME Configured, Init PROVE QuotaInv
<1>1. Active = {} /\ Recent = {} /\ Admitted = {}
  BY DEF Init, Active, Recent, Admitted, Submitting, NoSub
<1>2. Cardinality({}) = 0 /\ Cardinality(Submitter) \in Nat
  BY FS_EmptySet, SubmittersAreFinite
<1>3. \A limit \in Nat : Within({}, limit)
  BY <1>1, <1>2 DEF Within
<1> QED BY <1>1, <1>3, TypeInit DEF QuotaInv, QuotaHolds, Configured

\* However many clients and workers submit at once, a limit is passed by fewer
\* runs than there are submitters: enforce_run_quota counts what is there, and
\* everybody else can be between counting and inserting.
THEOREM QuotasHold == Configured => (Spec => []QuotaHolds)
<1> SUFFICES ASSUME Configured PROVE Spec => []QuotaHolds
  OBVIOUS
<1>1. Init => QuotaInv
  BY QuotaInit
<1>2. QuotaInv /\ [Next]_vars => QuotaInv'
  BY QuotaStep
<1>3. QuotaInv => QuotaHolds
  BY DEF QuotaInv
<1> QED BY <1>1, <1>2, <1>3, PTL DEF Spec

-----------------------------------------------------------------------------
(* Schedules.                                                              *)

\* Clients and workers are different processes, and no client is a firing.
Distinct == Configured /\ Client \cap Worker = {} /\ Client \cap Fire = {}

Sweeping(w) == sweep[w].pc # "idle"
\* The sweep of w has still to submit f, whether it has marked it or not.
Due(w, f) == Sweeping(w) /\ sweep[w].id = f[3] /\ f[1] \in sweep[w].list

\* A sweep has a number of its own.
SweepInv ==
  \A w \in Worker : Sweeping(w) =>
    /\ sweep[w].id < count.sweeps
    /\ \A v \in Worker : Sweeping(v) /\ sweep[v].id = sweep[w].id => v = w

\* A worker submits for its sweep, and what it submits is on no list any more.
SubInv ==
  /\ \A c \in Client : Submitting(c) => sub[c].for \in Client
  /\ \A w \in Worker : Submitting(w) =>
       /\ sweep[w].pc = "firing" /\ sub[w].for \in Fire
       /\ sub[w].for[3] = sweep[w].id /\ sub[w].for[1] \notin sweep[w].list

\* A run of a sweep is the only one of its firing, and nobody will make another.
OnceInv ==
  \A i \in DOMAIN runs : runs[i].for \in Fire =>
    /\ runs[i].for[3] < count.sweeps
    /\ \A j \in DOMAIN runs : runs[j].for = runs[i].for => j = i
    /\ \A w \in Worker : /\ ~Due(w, runs[i].for)
                         /\ Submitting(w) => sub[w].for # runs[i].for

Smooth == count.faults = 0 /\ count.refusals = 0

\* What is marked has its run, or gets it.
MarkInv ==
  \A f \in fires :
    /\ f[3] < count.sweeps
    /\ \A w \in Worker : Sweeping(w) /\ sweep[w].id = f[3] =>
         sweep[w].pc = "firing" /\ sweep[w].at = f[2]
    /\ Smooth => \/ \E i \in DOMAIN runs : runs[i].for = f
                 \/ \E w \in Worker : \/ Submitting(w) /\ sub[w].for = f
                                      \/ Listed(w, f)

FiringInv == TypeOK /\ SweepInv /\ SubInv /\ OnceInv /\ MarkInv

\* Steps of clients, of the clock and of runs.
LEMMA AsideKeeps ==
  ASSUME Distinct, FiringInv, TypeOK',
         \A w \in Worker : sub'[w] = sub[w], UNCHANGED <<sweep, fires>>,
         \A c \in Client : Submitting(c)' => sub'[c].for \in Client,
         count'.sweeps = count.sweeps, Smooth' => Smooth,
         DOMAIN runs \subseteq DOMAIN runs',
         \A i \in DOMAIN runs : runs'[i].for = runs[i].for,
         \A i \in DOMAIN runs' : i \in DOMAIN runs \/ runs'[i].for \in Client
  PROVE  FiringInv'
<1>1. \A w \in Worker : Submitting(w)' <=> Submitting(w)
  BY DEF Submitting
<1>2. SweepInv'
  BY DEF FiringInv, SweepInv, Sweeping
<1>3. SubInv'
  BY <1>1 DEF FiringInv, SubInv
<1>4. OnceInv'
  <2> SUFFICES ASSUME NEW i \in DOMAIN runs', runs'[i].for \in Fire
               PROVE  /\ runs'[i].for[3] < count'.sweeps
                      /\ \A j \in DOMAIN runs' : runs'[j].for = runs'[i].for => j = i
                      /\ \A w \in Worker : /\ ~Due(w, runs[i].for)'
                                           /\ Submitting(w)' => sub'[w].for # runs'[i].for
    BY DEF OnceInv
  <2>1. i \in DOMAIN runs /\ \A j \in DOMAIN runs' : runs'[j].for = runs'[i].for => j \in DOMAIN runs
    BY DEF Distinct
  <2> QED BY <1>1, <2>1 DEF FiringInv, OnceInv, Due, Sweeping
<1>5. MarkInv'
  <2> SUFFICES ASSUME NEW f \in fires
               PROVE  /\ f[3] < count'.sweeps
                      /\ \A w \in Worker : Sweeping(w)' /\ sweep'[w].id = f[3] =>
                           sweep'[w].pc = "firing" /\ sweep'[w].at = f[2]
                      /\ Smooth' => \/ \E i \in DOMAIN runs' : runs'[i].for = f
                                    \/ \E w \in Worker : \/ Submitting(w)' /\ sub'[w].for = f
                                                         \/ Listed(w, f)'
    BY DEF MarkInv
  <2>1. (\E i \in DOMAIN runs : runs[i].for = f) => \E i \in DOMAIN runs' : runs'[i].for = f
    OBVIOUS
  <2>2. \A w \in Worker : (Listed(w, f) <=> Listed(w, f)') /\ (Sweeping(w) <=> Sweeping(w)')
    BY DEF Listed, Sweeping
  <2> QED BY <1>1, <2>1, <2>2 DEF FiringInv, MarkInv
<1> QED BY <1>2, <1>3, <1>4, <1>5 DEF FiringInv

\* A sweep is over: of what it had still to submit nothing is marked, or it is
\* counted.
LEMMA SweepIsOver ==
  ASSUME Distinct, FiringInv, TypeOK', NEW w \in Worker, sweep' = [sweep EXCEPT ![w] = NoSweep],
         runs' = runs, fires' = fires, count'.sweeps = count.sweeps, ~Submitting(w)',
         \A p \in Submitter : p # w => sub'[p] = sub[p],
         Smooth' => /\ Smooth /\ ~Submitting(w)
                    /\ \A f \in fires : ~Listed(w, f)
  PROVE  FiringInv'
<1>1. /\ \A v \in Worker : v # w => sweep'[v] = sweep[v]
      /\ sweep'[w].pc = "idle"
  BY DEF FiringInv, TypeOK, NoSweep
<1>2. /\ \A v \in Worker : v # w => (Sweeping(v)' <=> Sweeping(v))
      /\ ~Sweeping(w)'
  BY <1>1 DEF Sweeping
<1>3. /\ \A v \in Worker : v # w => sub'[v] = sub[v] /\ (Submitting(v)' <=> Submitting(v))
      /\ \A c \in Client : sub'[c] = sub[c]
  BY DEF Submitting, Submitter, Distinct
<1>4. SweepInv' /\ SubInv'
  BY <1>1, <1>2, <1>3 DEF FiringInv, SweepInv, SubInv, Submitting
<1>5. OnceInv'
  BY <1>1, <1>2, <1>3 DEF FiringInv, OnceInv, Due
<1>6. ASSUME NEW f \in fires
      PROVE  /\ f[3] < count'.sweeps
             /\ \A v \in Worker : Sweeping(v)' /\ sweep'[v].id = f[3] =>
                  sweep'[v].pc = "firing" /\ sweep'[v].at = f[2]
             /\ Smooth' => \/ \E i \in DOMAIN runs' : runs'[i].for = f
                           \/ \E v \in Worker : \/ Submitting(v)' /\ sub'[v].for = f
                                                \/ Listed(v, f)'
  <2>1. \A v \in Worker : v # w /\ Listed(v, f) => Listed(v, f)'
    BY <1>1 DEF Listed
  <2> QED BY <1>1, <1>2, <1>3, <2>1 DEF FiringInv, MarkInv
<1>7. MarkInv'
  BY <1>6 DEF MarkInv
<1> QED BY <1>4, <1>5, <1>7 DEF FiringInv

LEMMA StartKeeps ==
  ASSUME Distinct, FiringInv, TypeOK', NEW w \in Worker, StartSweep(w) PROVE FiringInv'
<1>1. /\ sweep[w].pc = "idle" /\ ~Submitting(w) /\ sub' = sub /\ runs' = runs /\ fires' = fires
      /\ count'.sweeps = count.sweeps + 1 /\ count.sweeps \in Nat /\ Smooth' = Smooth
  BY DEF StartSweep, FiringInv, SubInv, TypeOK, Smooth
<1>2. /\ \A v \in Worker : v # w => sweep'[v] = sweep[v]
      /\ sweep'[w].id = count.sweeps /\ sweep'[w].pc = "selected"
  BY DEF StartSweep, FiringInv, TypeOK
<1>3. \A v \in Worker : v # w => (Sweeping(v)' <=> Sweeping(v))
  BY <1>2 DEF Sweeping
<1>4. \A v \in Worker : Submitting(v)' <=> Submitting(v)
  BY <1>1 DEF Submitting
<1>5. \A v \in Worker : Sweeping(v) => sweep[v].id \in Nat
  BY SweepFields DEF FiringInv, Sweeping
<1>6. SweepInv'
  BY <1>1, <1>2, <1>3, <1>5 DEF FiringInv, SweepInv
<1>7. SubInv'
  BY <1>1, <1>2, <1>4 DEF FiringInv, SubInv, Submitting
<1>8. OnceInv'
  BY <1>1, <1>2, <1>3, <1>4 DEF FiringInv, OnceInv, Due, Fire
<1>9. MarkInv'
  <2> SUFFICES ASSUME NEW f \in fires
               PROVE  /\ f[3] < count'.sweeps
                      /\ \A v \in Worker : Sweeping(v)' /\ sweep'[v].id = f[3] =>
                           sweep'[v].pc = "firing" /\ sweep'[v].at = f[2]
                      /\ Smooth' => \/ \E i \in DOMAIN runs' : runs'[i].for = f
                                    \/ \E v \in Worker : \/ Submitting(v)' /\ sub'[v].for = f
                                                         \/ Listed(v, f)'
    BY <1>1 DEF MarkInv
  <2>1. f[3] \in Nat /\ f[3] < count.sweeps
    BY DEF FiringInv, TypeOK, MarkInv, Fire
  <2>2. \A v \in Worker : Listed(v, f) => v # w /\ Listed(v, f)'
    BY <1>1, <1>2 DEF Listed
  <2> QED BY <1>1, <1>2, <1>3, <1>4, <2>1, <2>2 DEF FiringInv, MarkInv
<1> QED BY <1>6, <1>7, <1>8, <1>9 DEF FiringInv

LEMMA MarkKeeps ==
  ASSUME Distinct, FiringInv, TypeOK', NEW w \in Worker, MarkDue(w) PROVE FiringInv'
<1>1. /\ sweep[w].pc = "selected" /\ ~Submitting(w) /\ sub' = sub /\ runs' = runs
      /\ count' = count
  BY DEF MarkDue, FiringInv, SubInv
<1>2. \A v \in Worker : Submitting(v)' <=> Submitting(v)
  BY <1>1 DEF Submitting
<1>3. CASE /\ fires' = fires \cup {<<s, sweep[w].at, sweep[w].id>> : s \in sweep[w].list}
           /\ sweep' = [sweep EXCEPT ![w].pc = "firing"]
  <2>1. /\ \A v \in Worker : v # w => sweep'[v] = sweep[v]
        /\ sweep'[w].id = sweep[w].id /\ sweep'[w].list = sweep[w].list
        /\ sweep'[w].at = sweep[w].at /\ sweep'[w].pc = "firing"
    BY <1>1, <1>3, SweepFields DEF FiringInv, TypeOK
  <2>2. \A v \in Worker : Sweeping(v)' <=> Sweeping(v)
    BY <1>1, <2>1 DEF Sweeping
  <2>3. SweepInv' /\ SubInv'
    BY <1>1, <1>2, <2>1, <2>2 DEF FiringInv, SweepInv, SubInv, Submitting
  <2>4. OnceInv'
    BY <1>1, <1>2, <2>1, <2>2 DEF FiringInv, OnceInv, Due
  <2>5. Smooth' = Smooth
    BY <1>1 DEF Smooth
  <2>6. ASSUME NEW f \in fires'
        PROVE  /\ f[3] < count'.sweeps
               /\ \A v \in Worker : Sweeping(v)' /\ sweep'[v].id = f[3] =>
                    sweep'[v].pc = "firing" /\ sweep'[v].at = f[2]
               /\ Smooth' => \/ \E i \in DOMAIN runs' : runs'[i].for = f
                             \/ \E v \in Worker : \/ Submitting(v)' /\ sub'[v].for = f
                                                  \/ Listed(v, f)'
    <3>1. CASE f \in fires
      <4>1. \A v \in Worker : Listed(v, f) => Listed(v, f)'
        BY <1>1, <2>1 DEF Listed
      <4> QED BY <1>1, <1>2, <2>1, <2>2, <2>5, <3>1, <4>1 DEF FiringInv, MarkInv
    <3>2. CASE \E s \in sweep[w].list : f = <<s, sweep[w].at, sweep[w].id>>
      <4>1. f[1] \in sweep[w].list /\ f[2] = sweep[w].at /\ f[3] = sweep[w].id
        BY <3>2
      <4>2. Listed(w, f)' /\ Sweeping(w)
        BY <1>1, <2>1, <4>1 DEF Listed, Sweeping
      <4>3. \A v \in Worker : Sweeping(v)' /\ sweep'[v].id = f[3] => v = w
        BY <2>1, <2>2, <4>1, <4>2 DEF FiringInv, SweepInv
      <4> QED BY <1>1, <2>1, <4>1, <4>2, <4>3 DEF FiringInv, SweepInv
    <3> QED BY <1>3, <3>1, <3>2
  <2>7. MarkInv'
    BY <2>6 DEF MarkInv
  <2> QED BY <2>3, <2>4, <2>7 DEF FiringInv
<1>4. CASE sweep' = [sweep EXCEPT ![w] = NoSweep] /\ fires' = fires
  BY <1>1, <1>4, SweepIsOver DEF Submitting, Smooth, Listed
<1> QED BY <1>3, <1>4 DEF MarkDue

LEMMA FireKeeps ==
  ASSUME Distinct, FiringInv, TypeOK', NEW w \in Worker, NEW s \in Schedule, FireNext(w, s)
  PROVE  FiringInv'
<1>1. /\ sweep[w].pc = "firing" /\ ~Submitting(w) /\ s \in sweep[w].list /\ Sweeping(w)
      /\ runs' = runs /\ fires' = fires /\ w \in Submitter /\ w \notin Client
  BY DEF FireNext, Sweeping, Submitter, Distinct
<1> DEFINE g == <<s, sweep[w].at, sweep[w].id>>
<1>2. g \in Fire
  BY <1>1, SweepFields DEF FiringInv, Fire
<1>3. CASE /\ Proceed(w, g, NoKey) /\ count' = count
           /\ sweep' = [sweep EXCEPT ![w].list = @ \ {s}]
  <2>1. /\ sub' = [sub EXCEPT ![w] = [pc |-> "admitted", for |-> g, key |-> NoKey]]
        /\ g[1] = s /\ g[2] = sweep[w].at /\ g[3] = sweep[w].id
    BY <1>3 DEF Proceed
  <2> HIDE DEF g
  <2>2. /\ \A v \in Worker : v # w => sweep'[v] = sweep[v]
        /\ sweep'[w].id = sweep[w].id /\ sweep'[w].list = sweep[w].list \ {s}
        /\ sweep'[w].at = sweep[w].at /\ sweep'[w].pc = "firing"
    BY <1>1, <1>3, SweepFields DEF FiringInv, TypeOK
  <2>3. \A v \in Worker : Sweeping(v)' <=> Sweeping(v)
    BY <1>1, <2>2 DEF Sweeping
  <2>4. /\ sub'[w].for = g /\ Submitting(w)'
        /\ \A p \in Submitter : p # w => sub'[p] = sub[p] /\ (Submitting(p)' <=> Submitting(p))
    BY <1>1, <2>1 DEF Submitting, FiringInv, TypeOK
  <2>5. SweepInv'
    BY <1>3, <2>2, <2>3 DEF FiringInv, SweepInv
  <2>6. SubInv'
    <3>1. \A v \in Worker : v # w => sub'[v] = sub[v] /\ (Submitting(v)' <=> Submitting(v))
      BY <2>4 DEF Submitter
    <3>2. \A c \in Client : sub'[c] = sub[c] /\ (Submitting(c)' <=> Submitting(c))
      BY <1>1, <2>4 DEF Submitter
    <3> QED BY <1>1, <1>2, <2>1, <2>2, <2>4, <3>1, <3>2 DEF FiringInv, SubInv
  <2>7. \A v \in Worker : \A f : Due(v, f)' => Due(v, f)
    BY <2>2, <2>3 DEF Due
  <2>8. OnceInv'
    <3> SUFFICES ASSUME NEW i \in DOMAIN runs, runs[i].for \in Fire
                 PROVE  /\ runs[i].for[3] < count'.sweeps
                        /\ \A j \in DOMAIN runs : runs[j].for = runs[i].for => j = i
                        /\ \A v \in Worker : /\ ~Due(v, runs[i].for)'
                                             /\ Submitting(v)' => sub'[v].for # runs[i].for
      BY <1>1 DEF OnceInv
    <3>1. ~Due(w, runs[i].for)
      BY DEF FiringInv, OnceInv
    <3>2. Due(w, g)
      BY <1>1, <2>1 DEF Due
    <3>3. \A v \in Worker : v # w /\ Submitting(v)' => sub'[v].for # runs[i].for
      BY <2>4 DEF FiringInv, OnceInv, Submitter
    <3>4. \A v \in Worker : ~Due(v, runs[i].for)'
      BY <1>1, <2>7 DEF FiringInv, OnceInv, Due
    <3> QED BY <1>3, <2>4, <3>1, <3>2, <3>3, <3>4 DEF FiringInv, OnceInv
  <2>9. ASSUME NEW f \in fires
        PROVE  /\ f[3] < count'.sweeps
               /\ \A v \in Worker : Sweeping(v)' /\ sweep'[v].id = f[3] =>
                    sweep'[v].pc = "firing" /\ sweep'[v].at = f[2]
               /\ Smooth' => \/ \E i \in DOMAIN runs' : runs'[i].for = f
                             \/ \E v \in Worker : \/ Submitting(v)' /\ sub'[v].for = f
                                                  \/ Listed(v, f)'
    <3>1. f \in Fire /\ Smooth' = Smooth
      BY <1>3 DEF FiringInv, TypeOK, Smooth
    <3>2. ASSUME NEW v \in Worker, Listed(v, f)
          PROVE  Listed(v, f)' \/ (v = w /\ f[1] = s /\ f[3] = sweep[w].id)
      BY <2>2, <3>2 DEF Listed
    <3>3. ASSUME f[1] = s, f[3] = sweep[w].id PROVE f = g
      <4>1. f[2] = sweep[w].at
        BY <1>1, <3>3 DEF FiringInv, MarkInv
      <4>2. f = <<f[1], f[2], f[3]>>
        BY <3>1 DEF Fire
      <4> QED BY <3>3, <4>1, <4>2 DEF g
    <3>4. \A v \in Worker : Submitting(v) => Submitting(v)' /\ sub'[v] = sub[v]
      BY <1>1, <2>4 DEF Submitter
    <3> QED BY <1>1, <1>3, <2>2, <2>3, <2>4, <3>1, <3>2, <3>3, <3>4 DEF FiringInv, MarkInv
  <2>10. MarkInv'
    BY <1>1, <2>9 DEF MarkInv
  <2> QED BY <2>5, <2>6, <2>8, <2>10 DEF FiringInv
<1>4. CASE /\ sweep' = [sweep EXCEPT ![w] = NoSweep] /\ sub' = sub
           /\ count' = [count EXCEPT !.refusals = @ + 1]
  <2>1. count'.sweeps = count.sweeps /\ count'.refusals # 0 /\ ~Submitting(w)'
    BY <1>1, <1>4 DEF FiringInv, TypeOK, Submitting
  <2> QED BY <1>1, <1>4, <2>1, SweepIsOver DEF Smooth
<1> QED BY <1>3, <1>4 DEF FireNext

LEMMA SweepInsertKeeps ==
  ASSUME Distinct, FiringInv, TypeOK', NEW w \in Worker, SweepInsert(w) PROVE FiringInv'
<1>1. /\ Submitting(w) /\ sweep' = sweep /\ fires' = fires /\ count' = count
      /\ w \in Submitter /\ w \notin Client
      /\ sub[w].for \in Fire /\ sweep[w].pc = "firing" /\ Sweeping(w)
      /\ sub[w].for[3] = sweep[w].id /\ sub[w].for[1] \notin sweep[w].list
  BY DEF SweepInsert, Submitter, Distinct, FiringInv, SubInv, Sweeping
<1> DEFINE n == Len(runs) + 1
           g == sub[w].for
<1>2. /\ DOMAIN runs' = DOMAIN runs \cup {n} /\ n \notin DOMAIN runs /\ runs'[n].for = g
      /\ \A i \in DOMAIN runs : runs'[i] = runs[i]
  BY DEF SweepInsert, Insert, FiringInv, TypeOK
<1>3. /\ ~Submitting(w)'
      /\ \A p \in Submitter : p # w => sub'[p] = sub[p] /\ (Submitting(p)' <=> Submitting(p))
  BY DEF SweepInsert, Insert, FiringInv, TypeOK, Submitting, NoSub
<1> HIDE DEF n
<1>4. /\ \A v \in Worker : v # w => sub'[v] = sub[v] /\ (Submitting(v)' <=> Submitting(v))
      /\ \A c \in Client : sub'[c] = sub[c] /\ (Submitting(c)' <=> Submitting(c))
  BY <1>1, <1>3 DEF Submitter
<1>5. SweepInv'
  BY <1>1 DEF FiringInv, SweepInv, Sweeping
<1>6. SubInv'
  BY <1>1, <1>3, <1>4 DEF FiringInv, SubInv
<1>7. \A v \in Worker : \A f : Due(v, f)' = Due(v, f)
  BY <1>1 DEF Due, Sweeping
<1>8. /\ \A v \in Worker : Submitting(v) /\ sub[v].for = g => v = w
      /\ \A v \in Worker : ~Due(v, g)
      /\ g[3] < count.sweeps /\ \A i \in DOMAIN runs : runs[i].for # g
  <2>1. \A v \in Worker : Sweeping(v) /\ sweep[v].id = g[3] => v = w
    BY <1>1 DEF FiringInv, SweepInv
  <2>2. \A v \in Worker : Submitting(v) => Sweeping(v) /\ sub[v].for[3] = sweep[v].id
    BY DEF FiringInv, SubInv, Sweeping
  <2>3. g[3] < count.sweeps
    BY <1>1 DEF FiringInv, SweepInv
  <2>4. \A i \in DOMAIN runs : runs[i].for # g
    BY <1>1 DEF FiringInv, OnceInv
  <2> QED BY <1>1, <2>1, <2>2, <2>3, <2>4 DEF Due
<1>9. OnceInv'
  <2> SUFFICES ASSUME NEW i \in DOMAIN runs', runs'[i].for \in Fire
               PROVE  /\ runs'[i].for[3] < count'.sweeps
                      /\ \A j \in DOMAIN runs' : runs'[j].for = runs'[i].for => j = i
                      /\ \A v \in Worker : /\ ~Due(v, runs[i].for)'
                                           /\ Submitting(v)' => sub'[v].for # runs'[i].for
    BY DEF OnceInv
  <2>1. CASE i = n
    <3>1. \A v \in Worker : ~Due(v, runs[i].for)'
      BY <1>1, <1>2, <1>8, <2>1 DEF Due, Sweeping
    <3> QED BY <1>1, <1>2, <1>3, <1>4, <1>8, <2>1, <3>1
  <2>2. CASE i \in DOMAIN runs
    <3>1. \A v \in Worker : ~Due(v, runs[i].for)'
      BY <1>1, <1>2, <2>2 DEF FiringInv, OnceInv, Due, Sweeping
    <3> QED BY <1>1, <1>2, <1>3, <1>4, <1>8, <2>2, <3>1 DEF FiringInv, OnceInv
  <2> QED BY <1>2, <2>1, <2>2
<1>10. ASSUME NEW f \in fires
       PROVE  /\ f[3] < count'.sweeps
              /\ \A v \in Worker : Sweeping(v)' /\ sweep'[v].id = f[3] =>
                   sweep'[v].pc = "firing" /\ sweep'[v].at = f[2]
              /\ Smooth' => \/ \E i \in DOMAIN runs' : runs'[i].for = f
                            \/ \E v \in Worker : \/ Submitting(v)' /\ sub'[v].for = f
                                                 \/ Listed(v, f)'
  <2>1. \A v \in Worker : (Listed(v, f)' <=> Listed(v, f)) /\ (Sweeping(v)' <=> Sweeping(v))
    BY <1>1 DEF Listed, Sweeping
  <2>2. (\E i \in DOMAIN runs : runs[i].for = f) \/ f = g => \E i \in DOMAIN runs' : runs'[i].for = f
    BY <1>2
  <2>3. Smooth' = Smooth
    BY <1>1 DEF Smooth
  <2> HIDE DEF g
  <2>4. ASSUME NEW v \in Worker, Submitting(v), sub[v].for = f
        PROVE  f = g \/ (Submitting(v)' /\ sub'[v].for = f)
    BY <1>4, <2>4 DEF g
  <2> QED BY <1>1, <2>1, <2>2, <2>3, <2>4 DEF FiringInv, MarkInv
<1>11. MarkInv'
  BY <1>1, <1>10 DEF MarkInv
<1> QED BY <1>5, <1>6, <1>9, <1>11 DEF FiringInv

LEMMA FiringStep == ASSUME Distinct, FiringInv, [Next]_vars PROVE FiringInv'
<1>0. TypeOK' /\ TypeOK
  BY TypeStep DEF Distinct, FiringInv
<1>1. ASSUME NEW c \in Client, c \in Submitter, c \notin Worker,
             \A p \in Submitter : p # c => sub'[p] = sub[p],
             UNCHANGED <<sweep, fires>>, count'.sweeps = count.sweeps, Smooth' => Smooth,
             Submitting(c)' => sub'[c].for \in Client,
             DOMAIN runs \subseteq DOMAIN runs',
             \A i \in DOMAIN runs : runs'[i].for = runs[i].for,
             \A i \in DOMAIN runs' : i \in DOMAIN runs \/ runs'[i].for \in Client
      PROVE  FiringInv'
  <2>1. \A w \in Worker : sub'[w] = sub[w]
    BY <1>1 DEF Submitter
  <2>2. \A d \in Client : Submitting(d)' => sub'[d].for \in Client
    BY <1>1 DEF Submitter, Submitting, FiringInv, SubInv
  <2> QED BY <1>0, <1>1, <2>1, <2>2, AsideKeeps
<1>2. \A c \in Client : c \in Submitter /\ c \notin Worker
  BY DEF Submitter, Distinct
<1>3. ASSUME NEW c \in Client, NEW k \in Key \cup {NoKey}, ClientSubmit(c, k)
      PROVE  FiringInv'
  <2>1. /\ \A p \in Submitter : p # c => sub'[p] = sub[p]
        /\ Submitting(c)' => sub'[c].for \in Client
    BY <1>0, <1>2, <1>3 DEF ClientSubmit, Proceed, TypeOK, Submitting
  <2>2. count'.sweeps = count.sweeps /\ Smooth' = Smooth
    BY <1>0, <1>3 DEF ClientSubmit, TypeOK, Smooth
  <2> QED BY <1>1, <1>2, <1>3, <2>1, <2>2 DEF ClientSubmit
<1>4. ASSUME NEW c \in Client, ClientInsert(c) PROVE FiringInv'
  <2>1. /\ \A p \in Submitter : p # c => sub'[p] = sub[p]
        /\ ~Submitting(c)' /\ sub[c].for \in Client
    BY <1>0, <1>2, <1>4 DEF ClientInsert, Insert, TypeOK, Submitting, NoSub, FiringInv,
           SubInv
  <2>2. /\ DOMAIN runs \subseteq DOMAIN runs'
        /\ \A i \in DOMAIN runs : runs'[i] = runs[i]
        /\ \A i \in DOMAIN runs' : i \in DOMAIN runs \/ runs'[i].for = sub[c].for
    BY <1>0, <1>4 DEF ClientInsert, Insert, TypeOK
  <2>3. count' = count /\ UNCHANGED <<sweep, fires>>
    BY <1>4 DEF ClientInsert
  <2> QED BY <1>1, <1>2, <2>1, <2>2, <2>3 DEF Smooth
<1>5. ASSUME NEW c \in Client, ClientFails(c) PROVE FiringInv'
  <2>1. /\ \A p \in Submitter : p # c => sub'[p] = sub[p]
        /\ ~Submitting(c)'
    BY <1>0, <1>2, <1>5 DEF ClientFails, TypeOK, Submitting, NoSub
  <2>2. count'.sweeps = count.sweeps /\ ~Smooth'
    BY <1>0, <1>5 DEF ClientFails, TypeOK, Smooth
  <2> QED BY <1>1, <1>2, <1>5, <2>1, <2>2 DEF ClientFails
<1>6. ASSUME UNCHANGED <<sub, sweep, fires, count>>, DOMAIN runs' = DOMAIN runs,
             \A i \in DOMAIN runs : runs'[i].for = runs[i].for
      PROVE  FiringInv'
  <2>1. \A c \in Client : Submitting(c)' => sub'[c].for \in Client
    BY <1>6 DEF Submitting, FiringInv, SubInv
  <2> QED BY <1>0, <1>6, <2>1, AsideKeeps DEF Smooth
<1>7. ASSUME NEW i \in DOMAIN runs, RunEnds(i) \/ HourPasses(i) PROVE FiringInv'
  <2>1. \A j \in DOMAIN runs : runs[j] \in RunType
    BY <1>0 DEF TypeOK
  <2>2. DOMAIN runs' = DOMAIN runs /\ \A j \in DOMAIN runs : runs'[j].for = runs[j].for
    <3>1. runs' = [runs EXCEPT ![i].active = FALSE] \/ runs' = [runs EXCEPT ![i].recent = FALSE]
      BY <1>7 DEF RunEnds, HourPasses
    <3>2. runs \in Seq(RunType)
      BY <1>0 DEF TypeOK
    <3> QED BY <2>1, <3>1, <3>2 DEF RunType
  <2> QED BY <1>6, <1>7, <2>2 DEF RunEnds, HourPasses
<1>8. ASSUME NEW s \in Schedule, DeleteSchedule(s) PROVE FiringInv'
  BY <1>6, <1>8 DEF DeleteSchedule
<1>9. CASE Tick \/ UNCHANGED vars
  BY <1>6, <1>9 DEF Tick, vars
<1>10. ASSUME NEW w \in Worker, SweepEnds(w) \/ SweepFails(w) PROVE FiringInv'
  <2>1. /\ ~Submitting(w)' /\ \A p \in Submitter : p # w => sub'[p] = sub[p]
        /\ runs' = runs /\ fires' = fires /\ sweep' = [sweep EXCEPT ![w] = NoSweep]
    BY <1>0, <1>10 DEF SweepEnds, SweepFails, TypeOK, Submitting, NoSub, Submitter
  <2>2. CASE SweepEnds(w)
    BY <1>0, <2>1, <2>2, SweepIsOver DEF SweepEnds, Listed, Smooth
  <2>3. CASE SweepFails(w)
    <3>1. count'.sweeps = count.sweeps /\ ~Smooth'
      BY <1>0, <2>3 DEF SweepFails, TypeOK, Smooth
    <3> QED BY <1>0, <2>1, <3>1, SweepIsOver
  <2> QED BY <1>10, <2>2, <2>3
<1> QED BY <1>0, <1>3, <1>4, <1>5, <1>7, <1>8, <1>9, <1>10, StartKeeps, MarkKeeps,
           FireKeeps, SweepInsertKeeps DEF Next, ClientStep, SweepStep

\* However many sweeps run at once and whichever worker dies when: no schedule gets
\* two runs of one firing, and while no worker died and no quota refused, none of
\* what was marked is forgotten.
THEOREM FiringsAreOnce == Distinct => (Spec => []MarkedFiresOnce)
<1> SUFFICES ASSUME Distinct PROVE Spec => []MarkedFiresOnce
  OBVIOUS
<1>1. Init => FiringInv
  <2> SUFFICES ASSUME Init PROVE FiringInv
    OBVIOUS
  <2>1. TypeOK /\ DOMAIN runs = {} /\ fires = {}
    BY TypeInit DEF Init, Distinct
  <2>2. \A w \in Worker : ~Sweeping(w) /\ ~Submitting(w)
    BY DEF Init, Sweeping, Submitting, NoSweep, NoSub, Submitter
  <2>3. \A c \in Client : ~Submitting(c)
    BY DEF Init, Submitting, NoSub, Submitter
  <2> QED BY <2>1, <2>2, <2>3 DEF FiringInv, SweepInv, SubInv, OnceInv, MarkInv
<1>2. FiringInv /\ [Next]_vars => FiringInv'
  BY FiringStep
<1>3. FiringInv => MarkedFiresOnce
  BY DEF FiringInv, TypeOK, OnceInv, MarkInv, MarkedFiresOnce, Smooth, Due, Listed, Sweeping
<1> QED BY <1>1, <1>2, <1>3, PTL DEF Spec

-----------------------------------------------------------------------------
(* GmailCursor.                                                             *)


Bounded ==
  /\ MaxMail \in Nat /\ MaxHiccups \in Nat /\ MaxDrops \in Nat
  /\ NoCursor \notin Nat

\* A message is safe when it needs nothing from the cursor any more: it is our
\* own, has its run, is named as lost, or a request is about to route it.
Safe(m) == m \in own \cup routed \cup lost \/ G!Held(m)

\* Positions come from the mailbox.
RangeInv ==
  /\ \A m \in notes \cup own : m <= mail
  /\ cursor # NoCursor => cursor <= mail
  /\ base = NoCursor <=> cursor = NoCursor
  /\ \A h \in Hook :
       /\ fetcher[h].pc # "idle" => fetcher[h].note <= mail
       /\ fetcher[h].pc = "list" => fetcher[h].start <= mail
       /\ fetcher[h].pc = "commit" => fetcher[h].next <= mail
       /\ fetcher[h].pc \in {"list", "commit", "route"} => cursor # NoCursor

\* Where a request starts listing, everything before is safe; where it is going
\* to put the cursor, everything before is safe or among what it listed.
HookInv ==
  \A h \in Hook :
    /\ fetcher[h].pc = "list" =>
         \A m \in base + 1 .. fetcher[h].start : Safe(m)
    /\ fetcher[h].pc = "commit" =>
         \A m \in base + 1 .. fetcher[h].next : Safe(m) \/ m \in fetcher[h].ids

CursorInv == G!TypeOK /\ RangeInv /\ HookInv /\ G!NoMailSkipped

\* The fields of a request by where it is.
LEMMA HookFields ==
  ASSUME G!TypeOK, NEW h \in Hook
  PROVE  /\ fetcher[h].pc \in {"idle", "cursor", "baseline", "list", "commit", "route"}
         /\ fetcher[h].pc # "idle" => fetcher[h].note \in G!Position
         /\ fetcher[h].pc = "list" => fetcher[h].start \in G!Position
         /\ fetcher[h].pc = "commit" =>
              fetcher[h].ids \in SUBSET G!Position /\ fetcher[h].next \in G!Position
         /\ fetcher[h].pc = "route" => fetcher[h].ids \in SUBSET G!Position
<1>1. fetcher[h] \in G!HookType
  BY DEF G!TypeOK
<1> QED BY <1>1 DEF G!HookType, G!Idle

\* Safe messages stay safe over a step of one request, if those it was about
\* to route are still to be routed, routed or lost.
LEMMA SafeStays ==
  ASSUME G!TypeOK, NEW h \in Hook, NEW k, fetcher' = [fetcher EXCEPT ![h] = k],
         own \subseteq own', routed \subseteq routed', lost \subseteq lost',
         fetcher[h].pc = "route" =>
           \A m \in fetcher[h].ids : \/ k.pc = "route" /\ m \in k.ids
                                  \/ m \in own' \cup routed' \cup lost'
  PROVE  \A m : Safe(m) => Safe(m)'
<1> SUFFICES ASSUME NEW m, Safe(m) PROVE Safe(m)'
  OBVIOUS
<1>1. CASE m \in own \cup routed \cup lost
  BY <1>1 DEF Safe
<1>2. CASE G!Held(m)
  <2>1. PICK g \in Hook : fetcher[g].pc = "route" /\ m \in fetcher[g].ids
    BY <1>2 DEF G!Held
  <2>2. CASE g # h
    BY <2>1, <2>2 DEF G!TypeOK, Safe, G!Held
  <2>3. CASE g = h
    BY <2>1, <2>3 DEF G!TypeOK, Safe, G!Held
  <2> QED BY <2>2, <2>3
<1> QED BY <1>1, <1>2 DEF Safe

\* Nobody lists, commits or routes before there is a cursor; then positions
\* are numbers.
LEMMA CursorIsNumber ==
  ASSUME Bounded, CursorInv
  PROVE  /\ mail \in Nat
         /\ cursor # NoCursor => cursor \in Nat /\ base \in Nat
         /\ \A h \in Hook : fetcher[h].pc \in {"list", "commit"} => base \in Nat
  BY DEF Bounded, CursorInv, G!TypeOK, RangeInv, G!Position

\* A step of one request that leaves the mailbox and the cursor alone.
LEMMA HookKeeps ==
  ASSUME Bounded, CursorInv, NEW h \in Hook, NEW k \in G!HookType,
         fetcher' = [fetcher EXCEPT ![h] = k],
         mail' = mail, own' = own, cursor' = cursor, base' = base,
         notes' \subseteq notes, hiccups' \in Nat,
         routed \subseteq routed', routed' \subseteq G!Position,
         lost \subseteq lost', lost' \subseteq G!Position,
         fetcher[h].pc = "route" =>
           \A m \in fetcher[h].ids : \/ k.pc = "route" /\ m \in k.ids
                                  \/ m \in own' \cup routed' \cup lost',
         k.pc # "idle" => k.note <= mail,
         k.pc \in {"list", "commit", "route"} => cursor # NoCursor,
         k.pc = "list" => /\ k.start <= mail
                          /\ \A m \in base + 1 .. k.start : Safe(m)',
         k.pc = "commit" => /\ k.next <= mail
                            /\ \A m \in base + 1 .. k.next : Safe(m)' \/ m \in k.ids
  PROVE  CursorInv'
<1>1. \A m : Safe(m) => Safe(m)'
  BY SafeStays DEF CursorInv
<1>2. /\ fetcher'[h] = k
      /\ \A g \in Hook : g # h => fetcher'[g] = fetcher[g]
  BY DEF CursorInv, G!TypeOK
<1>3. G!TypeOK'
  BY DEF CursorInv, G!TypeOK
<1>4. RangeInv'
  BY <1>2 DEF CursorInv, RangeInv
<1>5. HookInv'
  <2> SUFFICES ASSUME NEW g \in Hook
      PROVE  /\ fetcher'[g].pc = "list" =>
                  \A m \in base + 1 .. fetcher'[g].start : Safe(m)'
             /\ fetcher'[g].pc = "commit" =>
                  \A m \in base + 1 .. fetcher'[g].next : Safe(m)' \/ m \in fetcher'[g].ids
    BY DEF HookInv
  <2>1. CASE g = h
    BY <1>2, <2>1
  <2>2. CASE g # h
    BY <1>1, <1>2, <2>2 DEF CursorInv, HookInv
  <2> QED BY <2>1, <2>2
<1>6. G!NoMailSkipped'
  <2>1. cursor # NoCursor =>
          \A m \in base + 1 .. mail : Safe(m) \/ m > cursor
    BY DEF CursorInv, G!NoMailSkipped, Safe
  <2> QED BY <1>1, <2>1 DEF G!NoMailSkipped, Safe
<1> QED BY <1>3, <1>4, <1>5, <1>6 DEF CursorInv

\* The messages of a listing are positions of the mailbox.
LEMMA HistoryTyped ==
  ASSUME Bounded, G!TypeOK, NEW start \in G!Position
  PROVE  /\ G!History(start) \in SUBSET G!Position
         /\ \A m \in start + 1 .. mail : m \in own \/ m \in G!History(start)
  BY DEF Bounded, G!TypeOK, G!Position, G!History

\* A listing that goes up to next, and gives everything on the way that is not
\* our own or lost.
LEMMA ListKeeps ==
  ASSUME Bounded, CursorInv, NEW h \in Hook, fetcher[h].pc = "list",
         NEW ids \in SUBSET G!Position, NEW next \in G!Position, next <= mail,
         G!Listed(h, ids, next),
         mail' = mail, own' = own, cursor' = cursor, base' = base, notes' = notes,
         routed' = routed, hiccups' \in Nat,
         lost \subseteq lost', lost' \subseteq G!Position,
         \A m \in fetcher[h].start + 1 .. next : m \in own \cup ids \cup lost'
  PROVE  CursorInv'
<1> DEFINE k == [pc |-> "commit", note |-> fetcher[h].note, ids |-> ids, next |-> next]
<1>1. fetcher' = [fetcher EXCEPT ![h] = k]
  BY DEF G!Listed
<1>2. /\ fetcher[h].note \in G!Position /\ fetcher[h].start \in G!Position
      /\ fetcher[h].note <= mail /\ cursor # NoCursor
  BY HookFields DEF CursorInv, RangeInv
<1>3. k \in G!HookType
  BY <1>2 DEF G!HookType
<1>4. \A m : Safe(m) => Safe(m)'
  BY <1>1, SafeStays DEF CursorInv
<1>5. \A m \in base + 1 .. next :
        m \in base + 1 .. fetcher[h].start \/ m \in fetcher[h].start + 1 .. next
  BY <1>2, CursorIsNumber DEF G!Position, Bounded
<1>6. \A m \in base + 1 .. next : Safe(m)' \/ m \in ids
  BY <1>4, <1>5 DEF CursorInv, HookInv, Safe
<1> QED BY <1>1, <1>2, <1>3, <1>6, HookKeeps DEF CursorInv, G!TypeOK

\* Every step keeps the cursor behind what is not safe.
LEMMA CursorStep ==
  ASSUME Bounded, CursorInv, [G!Next]_(G!vars) PROVE CursorInv'
<1>0. /\ G!TypeOK /\ RangeInv /\ HookInv
      /\ mail \in Nat /\ hiccups \in Nat
      /\ G!Idle \in G!HookType /\ G!Idle.pc = "idle"
  BY CursorIsNumber DEF CursorInv, G!TypeOK, G!HookType, G!Idle
<1>1. ASSUME NEW isOwn \in BOOLEAN, G!Arrive(isOwn) PROVE CursorInv'
  <2>1. /\ mail < MaxMail /\ mail' = mail + 1
        /\ own' = IF isOwn THEN own \cup {mail'} ELSE own
        /\ notes' = notes \cup {mail'}
        /\ cursor' = cursor /\ base' = base /\ fetcher' = fetcher /\ routed' = routed
        /\ lost' = lost /\ hiccups' = hiccups
    BY <1>1 DEF G!Arrive
  <2>2. \A m : Safe(m) => Safe(m)'
    BY <2>1 DEF Safe, G!Held
  <2>3. G!TypeOK'
    <3>1. G!Position \subseteq Nat /\ mail' \in G!Position
      BY <1>0, <2>1 DEF G!TypeOK, G!Position, Bounded
    <3> QED BY <1>0, <2>1, <3>1 DEF G!TypeOK
  <2>4. RangeInv'
    <3>1. \A h \in Hook :
            /\ fetcher[h].pc # "idle" => fetcher[h].note <= mail'
            /\ fetcher[h].pc = "list" => fetcher[h].start <= mail'
            /\ fetcher[h].pc = "commit" => fetcher[h].next <= mail'
      BY <1>0, <2>1, HookFields DEF RangeInv, G!Position, Bounded
    <3>2. \A m \in notes \cup own : m <= mail'
      BY <1>0, <2>1 DEF RangeInv, G!TypeOK, G!Position, Bounded
    <3>3. cursor # NoCursor => cursor <= mail'
      BY <1>0, <2>1, CursorIsNumber DEF RangeInv
    <3> QED BY <1>0, <2>1, <3>1, <3>2, <3>3 DEF RangeInv
  <2>5. HookInv'
    BY <1>0, <2>1, <2>2 DEF HookInv
  <2>6. G!NoMailSkipped'
    <3>1. cursor # NoCursor =>
            \A m \in base + 1 .. mail' : m \in base + 1 .. mail \/ m > cursor
      BY <1>0, <2>1, CursorIsNumber DEF RangeInv
    <3> QED BY <2>1, <2>2, <3>1 DEF CursorInv, G!NoMailSkipped, Safe
  <2> QED BY <2>3, <2>4, <2>5, <2>6 DEF CursorInv
<1>2. ASSUME NEW h \in Hook, NEW n \in notes, G!Receive(h, n) PROVE CursorInv'
  <2> DEFINE k == [pc |-> "cursor", note |-> n]
  <2>1. k \in G!HookType
    BY <1>0 DEF G!TypeOK, G!HookType
  <2> QED BY <1>0, <1>2, <2>1, HookKeeps DEF G!Receive, G!TypeOK, RangeInv
<1>3. ASSUME NEW h \in Hook, G!ReadCursor(h) PROVE CursorInv'
  <2> DEFINE k == IF cursor = NoCursor
                    THEN [pc |-> "baseline", note |-> fetcher[h].note]
                    ELSE [pc |-> "list", note |-> fetcher[h].note, start |-> cursor]
  <2>1. fetcher[h].pc = "cursor" /\ fetcher' = [fetcher EXCEPT ![h] = k]
    BY <1>3 DEF G!ReadCursor
  <2>2. UNCHANGED <<mail, own, notes, cursor, base, routed, lost, hiccups>>
    BY <1>3 DEF G!ReadCursor
  <2>3. k \in G!HookType
    BY <1>0, <2>1, HookFields DEF G!HookType, G!TypeOK
  <2>4. k.note <= mail
    BY <1>0, <2>1 DEF RangeInv
  <2>5. \A m : Safe(m) => Safe(m)'
    BY <1>0, <2>1, <2>2, SafeStays
  <2>6. cursor # NoCursor => \A m \in base + 1 .. cursor : Safe(m)'
    <3>1. cursor # NoCursor =>
            \A m \in base + 1 .. cursor : m \in base + 1 .. mail /\ ~(m > cursor)
      BY <1>0, CursorIsNumber DEF RangeInv
    <3> QED BY <2>5, <3>1 DEF CursorInv, G!NoMailSkipped, Safe
  <2>7. k.pc = "list" => k.start = cursor /\ cursor # NoCursor
    OBVIOUS
  <2>8. k.pc \in {"baseline", "list"}
    OBVIOUS
  <2> HIDE DEF k
  <2> QED BY <1>0, <2>1, <2>2, <2>3, <2>4, <2>6, <2>7, <2>8, HookKeeps
          DEF RangeInv, G!TypeOK
<1>4. ASSUME NEW h \in Hook, G!Baseline(h) PROVE CursorInv'
  <2>1. /\ fetcher[h].pc = "baseline" /\ fetcher' = [fetcher EXCEPT ![h] = G!Idle]
        /\ mail' = mail /\ own' = own /\ routed' = routed /\ lost' = lost
        /\ hiccups' = hiccups
    BY <1>4 DEF G!Baseline, G!Acknowledge, G!Unacknowledged
  <2>2. CASE /\ cursor # NoCursor
             /\ cursor' = cursor /\ base' = base /\ notes' = notes
    BY <1>0, <2>1, <2>2, HookKeeps DEF G!TypeOK
  <2>3. CASE /\ cursor = NoCursor
             /\ cursor' = fetcher[h].note /\ base' = fetcher[h].note
             /\ notes' = notes \ {fetcher[h].note}
    <3>1. /\ fetcher[h].note \in G!Position /\ fetcher[h].note \in Nat
          /\ fetcher[h].note <= mail /\ fetcher[h].note # NoCursor
      BY <1>0, <2>1, HookFields DEF RangeInv, G!Position, Bounded
    <3>2. \A g \in Hook : fetcher'[g].pc \notin {"list", "commit", "route"}
      BY <1>0, <2>1, <2>3 DEF G!TypeOK, RangeInv
    <3>3. G!TypeOK'
      BY <1>0, <2>1, <2>3, <3>1 DEF G!TypeOK
    <3>4. RangeInv'
      BY <1>0, <2>1, <2>3, <3>1, <3>2 DEF RangeInv, G!TypeOK
    <3>5. HookInv'
      BY <3>2 DEF HookInv
    <3>6. G!NoMailSkipped'
      BY <1>0, <2>1, <2>3, <3>1 DEF G!NoMailSkipped
    <3> QED BY <3>3, <3>4, <3>5, <3>6 DEF CursorInv
  <2> QED BY <1>4, <2>2, <2>3 DEF G!Baseline, G!Acknowledge
<1>5. ASSUME NEW h \in Hook, G!ListHistory(h) PROVE CursorInv'
  <2>1. /\ fetcher[h].pc = "list"
        /\ UNCHANGED <<mail, own, notes, cursor, base, routed, lost>>
        /\ hiccups' \in Nat
    BY <1>0, <1>5 DEF G!ListHistory
  <2> DEFINE start == fetcher[h].start
  <2>a. start \in G!Position /\ start <= mail /\ mail \in G!Position /\ start \in Nat
    BY <1>0, <2>1, HookFields DEF RangeInv, G!TypeOK, G!Position, Bounded
  <2>b. lost' \subseteq G!Position
    BY <1>0, <2>1 DEF G!TypeOK
  <2>2. CASE G!Listed(h, G!History(start), mail)
    <3>1. /\ G!History(start) \in SUBSET G!Position
          /\ \A m \in start + 1 .. mail : m \in own \cup G!History(start) \cup lost'
      BY <1>0, <2>a, HistoryTyped
    <3> HIDE DEF start
    <3> QED BY <1>0, <2>1, <2>2, <2>a, <2>b, <3>1, ListKeeps DEF start
  <2>3. CASE G!Listed(h, {}, start)
    <3>1. \A m \in start + 1 .. start : FALSE
      BY <2>a
    <3> QED BY <1>0, <2>1, <2>3, <2>a, <2>b, <3>1, ListKeeps
  <2>4. CASE G!Unacknowledged(h)
    BY <1>0, <2>1, <2>4, HookKeeps DEF G!Unacknowledged, G!TypeOK
  <2> QED BY <1>5, <2>2, <2>3, <2>4 DEF G!ListHistory
<1>6. ASSUME NEW h \in Hook, G!ListWithLoss(h) PROVE CursorInv'
  <2>1. /\ fetcher[h].pc = "list"
        /\ UNCHANGED <<mail, own, notes, cursor, base, routed>>
    BY <1>6 DEF G!ListWithLoss
  <2> DEFINE start == fetcher[h].start
             note == fetcher[h].note
  <2>a. /\ start \in G!Position /\ start <= mail /\ mail \in G!Position
        /\ note \in G!Position /\ note <= mail /\ mail \in Nat /\ note \in Nat
        /\ start \in Nat /\ lost \subseteq G!Position /\ hiccups + 1 \in Nat
    BY <1>0, <2>1, HookFields DEF RangeInv, G!TypeOK, G!Position, Bounded
  <2>b. /\ G!History(start) \in SUBSET G!Position
        /\ \A m \in start + 1 .. mail : m \in own \/ m \in G!History(start)
    BY <1>0, <2>a, HistoryTyped
  <2>2. ASSUME NEW m \in G!History(start),
               G!Listed(h, G!History(start) \ {m}, mail), G!Drop({m})
        PROVE  CursorInv'
    <3>1. /\ lost' = lost \cup {m} /\ hiccups' \in Nat /\ lost' \subseteq G!Position
          /\ G!History(start) \ {m} \in SUBSET G!Position
      BY <2>2, <2>a, <2>b DEF G!Drop
    <3>2. \A x \in start + 1 .. mail : x \in own \cup (G!History(start) \ {m}) \cup lost'
      BY <2>b, <3>1
    <3> QED BY <1>0, <2>1, <2>2, <2>a, <3>1, <3>2, ListKeeps
  <2>3. ASSUME G!Listed(h, {}, note), G!Drop({m \in G!History(start) : m <= note})
        PROVE  CursorInv'
    <3>1. /\ lost' = lost \cup {m \in G!History(start) : m <= note}
          /\ hiccups' \in Nat /\ lost' \subseteq G!Position
      BY <2>3, <2>a, <2>b DEF G!Drop
    <3>2. \A x \in start + 1 .. note : x \in start + 1 .. mail /\ x <= note
      BY <2>a
    <3>3. \A x \in start + 1 .. note : x \in own \cup {} \cup lost'
      BY <2>b, <3>1, <3>2
    <3> QED BY <1>0, <2>1, <2>3, <2>a, <3>1, <3>3, ListKeeps
  <2> QED BY <1>6, <2>2, <2>3 DEF G!ListWithLoss
<1>7. ASSUME NEW h \in Hook, G!CommitCursor(h) PROVE CursorInv'
  <2> DEFINE k == [pc |-> "route", note |-> fetcher[h].note, ids |-> fetcher[h].ids]
  <2>1. /\ fetcher[h].pc = "commit" /\ cursor' = fetcher[h].next
        /\ fetcher' = [fetcher EXCEPT ![h] = k]
        /\ mail' = mail /\ own' = own /\ notes' = notes /\ base' = base
        /\ routed' = routed /\ lost' = lost /\ hiccups' = hiccups
    BY <1>7 DEF G!CommitCursor
  <2>2. /\ fetcher'[h] = k
        /\ \A g \in Hook : g # h => fetcher'[g] = fetcher[g]
    BY <1>0, <2>1 DEF G!TypeOK
  <2>3. /\ fetcher[h].ids \in SUBSET G!Position /\ fetcher[h].next \in G!Position
        /\ fetcher[h].note \in G!Position /\ k \in G!HookType
        /\ fetcher[h].next <= mail /\ fetcher[h].note <= mail
        /\ cursor # NoCursor /\ fetcher[h].next # NoCursor /\ fetcher[h].next \in Nat
    BY <1>0, <2>1, HookFields DEF G!HookType, RangeInv, G!Position, Bounded
  <2>4. \A m : Safe(m) \/ m \in fetcher[h].ids => Safe(m)'
    <3>1. \A m : Safe(m) => Safe(m)'
      BY <1>0, <2>1, SafeStays
    <3>2. \A m \in fetcher[h].ids : G!Held(m)'
      BY <2>2 DEF G!Held
    <3> QED BY <3>1, <3>2 DEF Safe
  <2>5. G!TypeOK'
    BY <1>0, <2>1, <2>3 DEF G!TypeOK
  <2>6. RangeInv'
    BY <1>0, <2>1, <2>2, <2>3 DEF RangeInv
  <2>7. HookInv'
    BY <1>0, <2>1, <2>2, <2>4 DEF HookInv
  <2>8. G!NoMailSkipped'
    <3>1. \A m \in base + 1 .. mail :
            m \in base + 1 .. fetcher[h].next \/ m > fetcher[h].next
      BY <1>0, <2>3, CursorIsNumber
    <3>2. \A m \in base + 1 .. fetcher[h].next : Safe(m)'
      BY <1>0, <2>1, <2>4 DEF HookInv
    <3> QED BY <2>1, <3>1, <3>2 DEF G!NoMailSkipped, Safe
  <2> QED BY <2>5, <2>6, <2>7, <2>8 DEF CursorInv
<1>8. ASSUME NEW h \in Hook, G!Route(h) PROVE CursorInv'
  <2>1. PICK m \in fetcher[h].ids :
          /\ routed' = routed \cup {m}
          /\ fetcher' = [fetcher EXCEPT ![h].ids = @ \ {m}]
    BY <1>8 DEF G!Route
  <2> DEFINE k == [pc |-> "route", note |-> fetcher[h].note, ids |-> fetcher[h].ids \ {m}]
  <2>2. fetcher[h].pc = "route"
        /\ UNCHANGED <<mail, own, notes, cursor, base, lost, hiccups>>
    BY <1>8 DEF G!Route
  <2>3. /\ fetcher[h].ids \in SUBSET G!Position /\ fetcher[h].note \in G!Position
        /\ fetcher[h] \in [pc: {"route"}, note: G!Position, ids: SUBSET G!Position]
    BY <1>0, <2>2 DEF G!TypeOK, G!HookType, G!Idle
  <2>4. k \in G!HookType
    BY <2>3 DEF G!HookType
  <2>5. fetcher' = [fetcher EXCEPT ![h] = k]
    <3>1. [fetcher[h] EXCEPT !.ids = @ \ {m}] = k
      BY <2>3
    <3>2. fetcher' = [fetcher EXCEPT ![h] = [fetcher[h] EXCEPT !.ids = @ \ {m}]]
      BY <2>1
    <3> QED BY <3>1, <3>2
  <2>6. m \in G!Position /\ fetcher[h].note <= mail /\ cursor # NoCursor
    BY <1>0, <2>2, <2>3 DEF RangeInv
  <2> QED BY <1>0, <2>1, <2>2, <2>4, <2>5, <2>6, HookKeeps DEF G!TypeOK
<1>9. ASSUME NEW h \in Hook, G!RouteFails(h) PROVE CursorInv'
  <2>1. /\ fetcher[h].pc = "route" /\ fetcher' = [fetcher EXCEPT ![h] = G!Idle]
        /\ lost' = lost \cup fetcher[h].ids /\ hiccups' \in Nat
        /\ UNCHANGED <<mail, own, notes, cursor, base, routed>>
    BY <1>0, <1>9 DEF G!RouteFails, G!Drop, G!Unacknowledged
  <2>2. fetcher[h].ids \in SUBSET G!Position
    BY <1>0, <2>1, HookFields
  <2> QED BY <1>0, <2>1, <2>2, HookKeeps DEF G!TypeOK
<1>10. ASSUME NEW h \in Hook, G!DieEarly(h) PROVE CursorInv'
  <2>1. /\ fetcher[h].pc # "route" /\ fetcher' = [fetcher EXCEPT ![h] = G!Idle]
        /\ hiccups' \in Nat
        /\ UNCHANGED <<mail, own, notes, cursor, base, routed, lost>>
    BY <1>0, <1>10 DEF G!DieEarly, G!Unacknowledged
  <2> QED BY <1>0, <2>1, HookKeeps DEF G!TypeOK
<1>11. ASSUME NEW h \in Hook, G!Done(h) PROVE CursorInv'
  <2>1. /\ fetcher[h].ids = {} /\ fetcher' = [fetcher EXCEPT ![h] = G!Idle]
        /\ notes' \subseteq notes
        /\ UNCHANGED <<mail, own, cursor, base, routed, lost, hiccups>>
    BY <1>11 DEF G!Done, G!Acknowledge
  <2> QED BY <1>0, <2>1, HookKeeps DEF G!TypeOK
<1>12. CASE UNCHANGED G!vars
  BY <1>12 DEF G!vars, CursorInv, G!TypeOK, RangeInv, HookInv, G!NoMailSkipped, Safe, G!Held
<1> QED BY <1>1, <1>2, <1>3, <1>4, <1>5, <1>6, <1>7, <1>8, <1>9, <1>10, <1>11, <1>12
        DEF G!Next, G!HookStep

LEMMA CursorInit == ASSUME Bounded, G!Init PROVE CursorInv
<1>1. G!TypeOK
  BY DEF Bounded, G!Init, G!TypeOK, G!HookType, G!Idle, G!Position
<1>2. RangeInv /\ HookInv /\ G!NoMailSkipped
  BY DEF G!Init, RangeInv, HookInv, G!NoMailSkipped, G!Idle
<1> QED BY <1>1, <1>2 DEF CursorInv

\* However notifications overlap, fail and are delivered again, the cursor
\* passes no message that has neither a run, nor a request that is about to
\* route it, nor a failure of the kinds that cost messages.
THEOREM MailIsNotSkipped == Bounded => (G!Spec => []NoMailSkipped)
<1> SUFFICES ASSUME Bounded PROVE G!Spec => []G!NoMailSkipped
  BY DEF NoMailSkipped
<1>1. G!Init => CursorInv
  BY CursorInit
<1>2. CursorInv /\ [G!Next]_(G!vars) => CursorInv'
  BY CursorStep
<1>3. CursorInv => G!NoMailSkipped
  BY DEF CursorInv
<1> QED BY <1>1, <1>2, <1>3, PTL DEF G!Spec

-----------------------------------------------------------------------------
(* Members.                                                                *)

Roles == {"viewer", "member", "admin", "owner"}

\* What stands for "no row" and "nobody" is neither.
People == NoRow \notin [id: Nat, role: Roles] /\ NoUser \notin User /\ Asked \subseteq Roles

LEMMA RolesThere == M!Role = Roles
BY DEF M!Role, M!Rank, Roles

Picture == [id: Nat, role: Roles]
Working(h) == req[h].pc \in {"count", "write"}

ReqOk ==
  {M!Idle} \cup [pc: {"register"}, user: User]
    \cup [pc: {"read"}, op: {"add", "change", "remove"}, user: User, role: Roles]
    \cup [pc: {"count", "write"}, op: {"add", "change", "remove"}, user: User,
          role: Roles, row: Picture \cup {NoRow}, stale: BOOLEAN]

MemberTypes ==
  /\ member \in [User -> Picture \cup {NoRow}]
  /\ req \in [Handler -> ReqOk]
  /\ trail \in Seq([user: User, new: Roles \cup {"none"}, previous: Roles \cup {"none"}])
  /\ founder \in User \cup {NoUser} /\ raced \in BOOLEAN

\* Nobody works on the members before there is one.
FoundedInv ==
  founder = NoUser =>
    /\ \A u \in User : member[u] = NoRow
    /\ \A h \in Handler : req[h].pc \in {"idle", "register"}
    /\ trail = <<>>

\* What a request has read is so until another commits; and if it is about to take
\* an owner away, there was another.
PictureInv ==
  \A h \in Handler : Working(h) =>
    /\ req[h].op = "add" <=> req[h].row = NoRow
    /\ ~req[h].stale =>
         /\ req[h].row = member[req[h].user]
         /\ req[h].pc = "write" /\ M!TakesOwner(req[h], req[h].row) =>
              \E v \in M!Owners : v # req[h].user

\* The trail gives the table, and of the changes of a member one is the last.
Changes(u) == {i \in DOMAIN trail : trail[i].user = u /\ trail[i].new # trail[i].previous}
HasLast(u) == Changes(u) # {} => \E i \in Changes(u) : \A j \in Changes(u) : j <= i

TrailInv ==
  \A u \in User :
    /\ HasLast(u)
    /\ u \notin phantom =>
         M!LastChange(u) = IF member[u] = NoRow THEN "none" ELSE member[u].role

MemberInv == MemberTypes /\ FoundedInv /\ PictureInv /\ M!OwnerRemains /\ TrailInv

\* The last change is the last event that is one.
LEMMA LastIsNew ==
  ASSUME MemberTypes, founder' = founder, NEW e, trail' = Append(trail, e),
         e \in [user: User, new: Roles \cup {"none"}, previous: Roles \cup {"none"}],
         NEW u, HasLast(u)
  PROVE  /\ M!LastChange(u)' = IF e.user = u /\ e.new # e.previous THEN e.new
                               ELSE M!LastChange(u)
         /\ HasLast(u)'
<1> DEFINE hits == Changes(u)
           n == Len(trail) + 1
<1>1. /\ n \in Nat /\ DOMAIN trail = 1..Len(trail) /\ DOMAIN trail' = 1..n
      /\ trail'[n] = e /\ \A i \in DOMAIN trail : trail'[i] = trail[i]
  BY DEF MemberTypes
<1>2. hits' = IF e.user = u /\ e.new # e.previous THEN hits \cup {n} ELSE hits
  BY <1>1 DEF MemberTypes, Changes
<1>3. hits \subseteq 1..Len(trail) /\ Len(trail) \in Nat
  BY <1>1 DEF MemberTypes, Changes
<1>4. \A i \in hits : trail'[i] = trail[i]
  BY <1>1 DEF Changes
<1>5. /\ M!LastChange(u) = IF hits = {} THEN (IF u = founder THEN "owner" ELSE "none")
                           ELSE trail[CHOOSE i \in hits : \A j \in hits : j <= i].new
      /\ M!LastChange(u)' = IF hits' = {} THEN (IF u = founder' THEN "owner" ELSE "none")
                            ELSE trail'[CHOOSE i \in hits' : \A j \in hits' : j <= i].new
  BY DEF M!LastChange, Changes
<1>6. hits # {} => \E i \in hits : \A j \in hits : j <= i
  BY DEF HasLast
<1> HIDE DEF hits, n
<1>7. CASE e.user = u /\ e.new # e.previous
  <2>1. n \in hits' /\ \A j \in hits' : j <= n
    BY <1>2, <1>3, <1>7 DEF n
  <2>2. \A i \in hits' : (\A j \in hits' : j <= i) => i = n
    BY <1>2, <1>3, <1>7, <2>1 DEF n
  <2>3. (CHOOSE i \in hits' : \A j \in hits' : j <= i) = n
    BY <2>1, <2>2
  <2>4. HasLast(u)'
    BY <2>1 DEF HasLast, hits
  <2> QED BY <1>1, <1>2, <1>5, <1>7, <2>3, <2>4
<1>8. CASE ~(e.user = u /\ e.new # e.previous)
  <2>1. hits' = hits
    BY <1>2, <1>8
  <2>2. HasLast(u)'
    BY <1>6, <2>1 DEF HasLast, hits
  <2>3. CASE hits = {}
    BY <1>5, <1>8, <2>1, <2>2, <2>3
  <2>4. CASE hits # {}
    <3> DEFINE m == CHOOSE i \in hits : \A j \in hits : j <= i
    <3>1. m \in hits
      BY <1>6, <2>4
    <3>2. trail'[m] = trail[m]
      BY <1>4, <3>1
    <3> QED BY <1>5, <1>8, <2>1, <2>2, <2>4, <3>2
  <2> QED BY <2>3, <2>4
<1> QED BY <1>7, <1>8

\* What holds of a request on its own, when the members are as they are now.
PicOk(q, mem, owners) ==
  q.pc \in {"count", "write"} =>
    /\ q.op = "add" <=> q.row = NoRow
    /\ ~q.stale =>
         /\ q.row = mem[q.user]
         /\ q.pc = "write" /\ M!TakesOwner(q, q.row) => \E v \in owners : v # q.user

LEMMA PictureEach ==
  PictureInv <=> \A h \in Handler : PicOk(req[h], member, M!Owners)
BY DEF PictureInv, PicOk, Working

\* A request moves on; the members and the trail stay.
LEMMA QuietStep ==
  ASSUME MemberInv, NEW h \in Handler, NEW q \in ReqOk,
         req' = [req EXCEPT ![h] = q],
         UNCHANGED <<member, trail, founder, raced, phantom>>,
         founder = NoUser => q.pc \in {"idle", "register"},
         PicOk(q, member, M!Owners)
  PROVE  MemberInv'
<1>1. \A g \in Handler : req'[g] = IF g = h THEN q ELSE req[g]
  BY DEF MemberInv, MemberTypes
<1>2. MemberTypes'
  BY <1>1 DEF MemberInv, MemberTypes
<1>3. FoundedInv'
  BY <1>1 DEF MemberInv, FoundedInv
<1>4. M!Owners' = M!Owners
  BY DEF M!Owners
<1>5. PictureInv'
  <2>1. \A g \in Handler : PicOk(req'[g], member', M!Owners')
    BY <1>1, <1>4, PictureEach DEF MemberInv
  <2> QED BY <2>1 DEF PictureInv, PicOk, Working
<1>6. M!OwnerRemains'
  BY <1>4 DEF MemberInv, M!OwnerRemains
<1>7. TrailInv'
  BY DEF MemberInv, TrailInv, HasLast, Changes, M!LastChange
<1> QED BY <1>2, <1>3, <1>5, <1>6, <1>7 DEF MemberInv

\* A request that ends has nothing to answer for.
LEMMA FinishStep ==
  ASSUME MemberInv, NEW h \in Handler, M!Finish(h),
         UNCHANGED <<member, trail, founder, raced, phantom>>
  PROVE  MemberInv'
<1>1. M!Idle \in ReqOk /\ M!Idle.pc = "idle" /\ PicOk(M!Idle, member, M!Owners)
  BY DEF ReqOk, PicOk, M!Idle
<1> QED BY <1>1, QuietStep DEF M!Finish

LEMMA BeginRegisterKeeps ==
  ASSUME MemberInv, NEW h \in Handler, NEW u \in User, M!BeginRegister(h, u)
  PROVE  MemberInv'
<1> DEFINE q == [pc |-> "register", user |-> u]
<1>1. q \in ReqOk /\ q.pc = "register" /\ PicOk(q, member, M!Owners)
  BY DEF ReqOk, PicOk
<1>2. req' = [req EXCEPT ![h] = q] /\ UNCHANGED <<member, trail, founder, raced, phantom>>
  BY DEF M!BeginRegister
<1> HIDE DEF q
<1> QED BY <1>1, <1>2, QuietStep

\* The founder is the first owner: till then nothing has happened.
LEMMA InsertAccountKeeps ==
  ASSUME People, MemberInv, NEW h \in Handler, M!InsertAccount(h)
  PROVE  MemberInv'
<1>1. req[h].pc = "register" /\ M!Finish(h) /\ UNCHANGED <<trail, raced, phantom>>
  BY DEF M!InsertAccount
<1>2. CASE founder # NoUser
  BY <1>1, <1>2, FinishStep DEF M!InsertAccount
<1>3. CASE founder = NoUser
  <2> DEFINE u == req[h].user
             r == [id |-> 0, role |-> "owner"]
  <2>1. founder' = u /\ member' = [member EXCEPT ![u] = r]
    BY <1>3 DEF M!InsertAccount
  <2>2. u \in User
    BY <1>1 DEF MemberInv, MemberTypes, ReqOk, M!Idle
  <2>3. r \in Picture /\ r # NoRow /\ r.role = "owner"
    BY DEF People, Picture, Roles
  <2>4. /\ \A v \in User : member[v] = NoRow
        /\ \A g \in Handler : req[g].pc \in {"idle", "register"}
        /\ trail = <<>>
    BY <1>3 DEF MemberInv, FoundedInv
  <2> HIDE DEF u, r
  <2>5. \A v \in User : member'[v] = IF v = u THEN r ELSE NoRow
    BY <2>1, <2>4 DEF MemberInv, MemberTypes
  <2>6. \A g \in Handler : req'[g] = IF g = h THEN M!Idle ELSE req[g]
    BY <1>1 DEF M!Finish, MemberInv, MemberTypes
  <2>7. \A g \in Handler : req'[g].pc \in {"idle", "register"}
    BY <2>4, <2>6 DEF M!Idle
  <2>8. MemberTypes'
    <3>1. M!Idle \in ReqOk
      BY DEF ReqOk
    <3>2. member' \in [User -> Picture \cup {NoRow}]
      BY <2>1, <2>2, <2>3 DEF MemberInv, MemberTypes
    <3>3. req' \in [Handler -> ReqOk]
      BY <1>1, <3>1 DEF M!Finish, MemberInv, MemberTypes
    <3> QED BY <1>1, <2>1, <2>2, <3>2, <3>3 DEF MemberInv, MemberTypes
  <2>9. founder' # NoUser
    BY <2>1, <2>2 DEF People
  <2>10. FoundedInv' /\ PictureInv'
    BY <2>7, <2>9 DEF FoundedInv, PictureInv, Working
  <2>11. M!OwnerRemains'
    <3>1. u \in M!Owners'
      BY <2>2, <2>3, <2>5 DEF M!Owners
    <3> QED BY <3>1 DEF M!OwnerRemains
  <2>12. TrailInv'
    <3>1. trail' = <<>>
      BY <1>1, <2>4
    <3>2. DOMAIN trail' = {}
      BY <3>1
    <3>3. \A v \in User : HasLast(v)' /\ M!LastChange(v)' = IF v = founder' THEN "owner" ELSE "none"
      BY <3>2 DEF HasLast, Changes, M!LastChange
    <3>4. \A v \in User : (IF member'[v] = NoRow THEN "none" ELSE member'[v].role) = IF v = u THEN "owner" ELSE "none"
      BY <2>3, <2>5
    <3> QED BY <2>1, <3>3, <3>4 DEF TrailInv
  <2> QED BY <2>8, <2>10, <2>11, <2>12 DEF MemberInv
<1> QED BY <1>2, <1>3

LEMMA BeginKeeps ==
  ASSUME MemberInv, NEW h \in Handler, NEW a \in User, NEW u \in User,
         NEW op \in {"add", "change", "remove"}, NEW r \in Roles, M!Begin(h, a, op, u, r)
  PROVE  MemberInv'
<1> DEFINE q == [pc |-> "read", op |-> op, user |-> u, role |-> r]
<1>1. q \in ReqOk /\ q.pc = "read" /\ PicOk(q, member, M!Owners)
  BY DEF ReqOk, PicOk
<1>2. req' = [req EXCEPT ![h] = q] /\ UNCHANGED <<member, trail, founder, raced, phantom>>
  BY DEF M!Begin
<1>3. founder # NoUser
  BY DEF M!Begin, MemberInv, FoundedInv
<1> HIDE DEF q
<1> QED BY <1>1, <1>2, <1>3, QuietStep

LEMMA ReadTargetKeeps ==
  ASSUME MemberInv, NEW h \in Handler, M!ReadTarget(h)
  PROVE  MemberInv'
<1> DEFINE k == req[h]
           w == member[k.user]
           q == [pc |-> IF M!TakesOwner(k, w) THEN "count" ELSE "write",
                 op |-> k.op, user |-> k.user, role |-> k.role, row |-> w, stale |-> FALSE]
<1>1. k.pc = "read" /\ UNCHANGED <<member, trail, founder, raced, phantom>>
  BY DEF M!ReadTarget
<1>2. k.op \in {"add", "change", "remove"} /\ k.user \in User /\ k.role \in Roles
  BY <1>1 DEF MemberInv, MemberTypes, ReqOk, M!Idle
<1>3. CASE M!Finish(h)
  BY <1>1, <1>3, FinishStep
<1>4. CASE ~M!Finish(h)
  <2>1. req' = [req EXCEPT ![h] = q] /\ (k.op = "add" <=> w = NoRow)
    BY <1>4 DEF M!ReadTarget
  <2>2. w \in Picture \cup {NoRow}
    BY <1>2 DEF MemberInv, MemberTypes
  <2>3. q.op = k.op /\ q.user = k.user /\ q.role = k.role /\ q.row = w /\ q.stale = FALSE
    OBVIOUS
  <2>4. q.pc = IF M!TakesOwner(k, w) THEN "count" ELSE "write"
    OBVIOUS
  <2>5. q \in ReqOk
    BY <1>2, <2>2 DEF ReqOk
  <2>6. founder # NoUser
    BY <1>1 DEF MemberInv, FoundedInv
  <2> HIDE DEF q
  <2>7. M!TakesOwner(q, q.row) <=> M!TakesOwner(k, w)
    BY <2>3 DEF M!TakesOwner
  <2>8. PicOk(q, member, M!Owners)
    BY <2>1, <2>3, <2>4, <2>7 DEF PicOk
  <2> QED BY <1>1, <2>1, <2>5, <2>6, <2>8, QuietStep
<1> QED BY <1>3, <1>4

LEMMA CardinalityThere == ASSUME NEW S PROVE M!Cardinality(S) = Cardinality(S)
BY DEF M!Cardinality, Cardinality

\* Of several owners, one is somebody else.
LEMMA CountOwnersKeeps ==
  ASSUME MemberInv, NEW h \in Handler, M!CountOwners(h)
  PROVE  MemberInv'
<1> DEFINE k == req[h]
           q == [k EXCEPT !.pc = "write"]
<1>1. k.pc = "count" /\ UNCHANGED <<member, trail, founder, raced, phantom>>
  BY DEF M!CountOwners
<1>2. k \in [pc: {"count", "write"}, op: {"add", "change", "remove"}, user: User,
              role: Roles, row: Picture \cup {NoRow}, stale: BOOLEAN]
  BY <1>1 DEF MemberInv, MemberTypes, ReqOk, M!Idle
<1>3. CASE M!Finish(h)
  BY <1>1, <1>3, FinishStep
<1>4. CASE ~M!Finish(h)
  <2>1. Cardinality(M!Owners) # 1
    BY <1>4, CardinalityThere DEF M!CountOwners
  <2>2. req' = [req EXCEPT ![h] = q]
    BY <1>4, <2>1 DEF M!CountOwners
  <2>3. q \in ReqOk
    BY <1>2 DEF ReqOk
  <2>4. /\ q.pc = "write" /\ q.op = k.op /\ q.user = k.user /\ q.role = k.role
        /\ q.row = k.row /\ q.stale = k.stale
    BY <1>2
  <2>5. founder # NoUser
    BY <1>1 DEF MemberInv, FoundedInv
  <2>6. PicOk(k, member, M!Owners)
    BY PictureEach DEF MemberInv
  <2>7. k.user \in User
    BY <1>2
  <2> HIDE DEF q, k
  <2>8. ASSUME ~k.stale, M!TakesOwner(k, k.row) PROVE \E v \in M!Owners : v # k.user
    <3>1. k.user \in M!Owners
      BY <1>1, <2>6, <2>7, <2>8 DEF PicOk, M!TakesOwner, M!Owners
    <3>2. M!Owners # {k.user}
      BY <2>1, FS_Singleton
    <3> QED BY <3>1, <3>2
  <2>9. M!TakesOwner(q, q.row) <=> M!TakesOwner(k, k.row)
    BY <2>4 DEF M!TakesOwner
  <2>10. PicOk(q, member, M!Owners)
    BY <1>1, <2>4, <2>6, <2>8, <2>9 DEF PicOk
  <2> QED BY <1>1, <2>2, <2>3, <2>5, <2>10, QuietStep
<1> QED BY <1>3, <1>4

\* A commit: the event says what the row becomes, unless it is a removal that found
\* nothing; and the row of an owner who goes was read, or others have committed since.
LEMMA CommitStep ==
  ASSUME MemberInv, NEW h \in Handler, NEW fresh \in Picture \cup {NoRow},
         NEW new \in Roles \cup {"none"}, req[h].pc = "write",
         M!Commit(h, fresh, new),
         phantom' = phantom \/ phantom' = phantom \cup {req[h].user},
         (fresh # NoRow /\ fresh.role = "owner") \/ M!TakesOwner(req[h], member[req[h].user])
           \/ req[h].user \notin M!Owners,
         req[h].user \notin phantom' =>
           /\ req[h].row # NoRow /\ new # req[h].row.role => new = IF fresh = NoRow THEN "none" ELSE fresh.role
           /\ req[h].row = NoRow => new # "none" /\ fresh # NoRow /\ new = fresh.role
           /\ req[h].row # NoRow /\ new = req[h].row.role => fresh = member[req[h].user]
  PROVE  MemberInv'
<1> DEFINE k == req[h]
           u == req[h].user
           old == IF req[h].row = NoRow THEN "none" ELSE req[h].row.role
           e == [user |-> u, new |-> new, previous |-> old]
<1>1. /\ member' = [member EXCEPT ![u] = fresh] /\ trail' = Append(trail, e)
      /\ raced' = (raced \/ (k.stale /\ u \in M!Owners /\ (fresh = NoRow \/ fresh.role # "owner")))
      /\ founder' = founder
  BY Zenon DEF M!Commit
<1>2. req' = [g \in Handler |->
               IF g = h THEN M!Idle
               ELSE IF req[g].pc \in {"count", "write"} THEN [req[g] EXCEPT !.stale = TRUE]
               ELSE req[g]]
  BY DEF M!Commit
<1>3. k \in [pc: {"count", "write"}, op: {"add", "change", "remove"}, user: User,
              role: Roles, row: Picture \cup {NoRow}, stale: BOOLEAN]
  BY DEF MemberInv, MemberTypes, ReqOk, M!Idle
<1>4. u \in User /\ k.row \in Picture \cup {NoRow} /\ k.stale \in BOOLEAN
  BY <1>3
<1>5. old \in Roles \cup {"none"} /\ (k.row = NoRow => old = "none")
      /\ (k.row # NoRow => old = k.row.role /\ old \in Roles)
  BY <1>4 DEF Picture
<1>6. e \in [user: User, new: Roles \cup {"none"}, previous: Roles \cup {"none"}]
      /\ e.user = u /\ e.new = new /\ e.previous = old
  BY <1>4, <1>5
<1>7. PicOk(k, member, M!Owners) /\ founder # NoUser
  BY PictureEach DEF MemberInv, FoundedInv
<1>8. \A v \in User : member'[v] = IF v = u THEN fresh ELSE member[v]
  BY <1>1, <1>4 DEF MemberInv, MemberTypes
<1>9. \A g \in Handler : g # h /\ req[g].pc \in {"count", "write"} =>
        /\ req'[g] \in [pc: {"count", "write"}, op: {"add", "change", "remove"}, user: User,
                         role: Roles, row: Picture \cup {NoRow}, stale: BOOLEAN]
        /\ req'[g].stale = TRUE /\ req'[g].op = req[g].op /\ req'[g].row = req[g].row
  <2>1. SUFFICES ASSUME NEW g \in Handler, g # h, req[g].pc \in {"count", "write"}
                 PROVE  /\ req'[g] \in [pc: {"count", "write"}, op: {"add", "change", "remove"}, user: User,
                                         role: Roles, row: Picture \cup {NoRow}, stale: BOOLEAN]
                        /\ req'[g].stale = TRUE /\ req'[g].op = req[g].op /\ req'[g].row = req[g].row
    OBVIOUS
  <2>2. req[g] \in [pc: {"count", "write"}, op: {"add", "change", "remove"}, user: User,
                    role: Roles, row: Picture \cup {NoRow}, stale: BOOLEAN]
    BY <2>1 DEF MemberInv, MemberTypes, ReqOk, M!Idle
  <2>3. req'[g] = [req[g] EXCEPT !.stale = TRUE]
    BY <1>2, <2>1
  <2> QED BY <2>2, <2>3
<1>10. \A g \in Handler : g # h /\ req[g].pc \notin {"count", "write"} => req'[g] = req[g]
  BY <1>2
<1>11. req'[h] = M!Idle /\ M!Idle.pc = "idle" /\ M!Idle \in ReqOk
  BY <1>2 DEF M!Idle, ReqOk
<1> HIDE DEF e, u, k, old
<1>12. MemberTypes'
  <2>1. member' \in [User -> Picture \cup {NoRow}]
    BY <1>1, <1>4 DEF MemberInv, MemberTypes
  <2>2. \A g \in Handler : req'[g] \in ReqOk
    BY <1>9, <1>10, <1>11 DEF MemberInv, MemberTypes, ReqOk
  <2>3. req' \in [Handler -> ReqOk]
    BY <1>2, <2>2
  <2>4. trail' \in Seq([user: User, new: Roles \cup {"none"}, previous: Roles \cup {"none"}])
    BY <1>1, <1>6 DEF MemberInv, MemberTypes
  <2>5. founder' \in User \cup {NoUser} /\ raced' \in BOOLEAN
    BY <1>1, <1>4 DEF MemberInv, MemberTypes
  <2> QED BY <2>1, <2>3, <2>4, <2>5 DEF MemberTypes
<1>13. FoundedInv'
  BY <1>1, <1>7 DEF FoundedInv
<1>14. PictureInv'
  <2>1. SUFFICES ASSUME NEW g \in Handler, req'[g].pc \in {"count", "write"}
                 PROVE  (req'[g].op = "add" <=> req'[g].row = NoRow) /\ req'[g].stale = TRUE
    BY DEF PictureInv, Working
  <2>2. g # h /\ req[g].pc \in {"count", "write"}
    BY <1>10, <1>11, <2>1
  <2> QED BY <1>9, <2>2 DEF MemberInv, PictureInv, Working
<1>15. M!OwnerRemains'
  <2>1. SUFFICES ASSUME ~raced' PROVE M!Owners' # {}
    BY DEF M!OwnerRemains
  <2>2. ~raced /\ M!Owners # {}
    BY <1>1, <1>7, <2>1 DEF MemberInv, M!OwnerRemains
  <2>3. \A v \in M!Owners : v # u => v \in M!Owners'
    BY <1>8 DEF M!Owners
  <2>4. CASE u \notin M!Owners
    BY <2>2, <2>3, <2>4
  <2>5. CASE fresh # NoRow /\ fresh.role = "owner"
    <3>1. u \in M!Owners'
      BY <1>4, <1>8, <2>5 DEF M!Owners
    <3> QED BY <3>1
  <2>6. CASE M!TakesOwner(k, member[u]) /\ u \in M!Owners /\ ~(fresh # NoRow /\ fresh.role = "owner")
    <3>1. ~k.stale
      BY <1>1, <2>1, <2>6
    <3>2. k.row = member[u] /\ M!TakesOwner(k, k.row)
      BY <1>7, <2>6, <3>1 DEF PicOk, k, u
    <3>3. \E v \in M!Owners : v # u
      BY <1>7, <3>1, <3>2 DEF PicOk, k, u
    <3> QED BY <2>3, <3>3
  <2> QED BY <2>4, <2>5, <2>6 DEF k, u
<1>16. TrailInv'
  <2>1. SUFFICES ASSUME NEW v \in User
                 PROVE  /\ HasLast(v)'
                        /\ v \notin phantom' =>
                             M!LastChange(v)' = IF member'[v] = NoRow THEN "none" ELSE member'[v].role
    BY DEF TrailInv
  <2>2. /\ M!LastChange(v)' = IF e.user = v /\ e.new # e.previous THEN e.new ELSE M!LastChange(v)
        /\ HasLast(v)'
    BY <1>1, <1>6, LastIsNew DEF MemberInv, TrailInv
  <2>3. v \notin phantom' =>
          M!LastChange(v) = IF member[v] = NoRow THEN "none" ELSE member[v].role
    BY DEF MemberInv, TrailInv
  <2>4. CASE v # u
    BY <1>6, <1>8, <2>2, <2>3, <2>4
  <2>5. CASE v = u
    <3>1. u \notin phantom' =>
           /\ k.row # NoRow /\ new # k.row.role => new = IF fresh = NoRow THEN "none" ELSE fresh.role
           /\ k.row = NoRow => new # "none" /\ fresh # NoRow /\ new = fresh.role
           /\ k.row # NoRow /\ new = k.row.role => fresh = member[u]
      BY DEF k, u
    <3> QED BY <1>5, <1>6, <1>8, <2>2, <2>3, <2>5, <3>1
  <2> QED BY <2>4, <2>5
<1> QED BY <1>12, <1>13, <1>14, <1>15, <1>16 DEF MemberInv

\* What a request that is about to write knows.
LEMMA WritesWhatItRead ==
  ASSUME MemberInv, NEW h \in Handler, req[h].pc = "write"
  PROVE  /\ req[h].user \in User /\ req[h].role \in Roles /\ req[h].row \in Picture \cup {NoRow}
         /\ req[h].op = "add" <=> req[h].row = NoRow
         /\ member[req[h].user] \in Picture \cup {NoRow}
         /\ req[h].user \in M!Owners /\ (req[h].op = "remove" \/ req[h].role # "owner") =>
              M!TakesOwner(req[h], member[req[h].user])
<1>1. req[h] \in [pc: {"count", "write"}, op: {"add", "change", "remove"}, user: User,
                  role: Roles, row: Picture \cup {NoRow}, stale: BOOLEAN]
  BY DEF MemberInv, MemberTypes, ReqOk, M!Idle
<1>2. req[h].op = "add" <=> req[h].row = NoRow
  BY DEF MemberInv, PictureInv, Working
<1>3. member[req[h].user] \in Picture \cup {NoRow}
  BY <1>1 DEF MemberInv, MemberTypes
<1> QED BY <1>1, <1>2, <1>3 DEF M!TakesOwner, M!Owners

LEMMA WriteAddKeeps ==
  ASSUME People, MemberInv, NEW h \in Handler, M!WriteAdd(h)
  PROVE  MemberInv'
<1> DEFINE r == [id |-> Len(trail) + 1, role |-> req[h].role]
<1>1. req[h].pc = "write" /\ req[h].op = "add"
  BY DEF M!WriteAdd
<1>2. CASE M!Rollback(h)
  BY <1>2, FinishStep DEF M!Rollback
<1>3. CASE ~M!Rollback(h)
  <2>1. member[req[h].user] = NoRow /\ M!Commit(h, r, req[h].role) /\ phantom' = phantom
    BY <1>3 DEF M!WriteAdd
  <2>2. Len(trail) \in Nat
    BY DEF MemberInv, MemberTypes
  <2>3. r \in Picture /\ r # NoRow /\ r.role = req[h].role
    BY <1>1, <2>2, WritesWhatItRead DEF Picture, People
  <2>4. req[h].user \notin M!Owners
    BY <2>1 DEF M!Owners
  <2>5. req[h].row = NoRow /\ req[h].role \in Roles /\ req[h].role # "none"
    BY <1>1, WritesWhatItRead DEF Roles
  <2> HIDE DEF r
  <2> QED BY <1>1, <2>1, <2>3, <2>4, <2>5, CommitStep
<1> QED BY <1>2, <1>3

\* A change of role writes the row it has read, with the new role in it.
LEMMA WriteRoleKeeps ==
  ASSUME People, MemberInv, NEW h \in Handler, M!WriteRole(h)
  PROVE  MemberInv'
<1> DEFINE k == req[h]
           r == [req[h].row EXCEPT !.role = req[h].role]
<1>1. req[h].pc = "write" /\ req[h].op = "change"
  BY DEF M!WriteRole
<1>2. /\ k.row \in Picture /\ k.row # NoRow /\ k.role \in Roles /\ k.user \in User
      /\ member[k.user] \in Picture \cup {NoRow}
  BY <1>1, WritesWhatItRead
<1>3. CASE k.role = k.row.role
  <2>1. M!Commit(h, member[k.user], k.role) /\ phantom' = phantom
    BY <1>3 DEF M!WriteRole
  <2>2. k.user \in M!Owners => member[k.user] # NoRow /\ member[k.user].role = "owner"
    BY DEF M!Owners
  <2> QED BY <1>1, <1>2, <1>3, <2>1, <2>2, CommitStep
<1>4. CASE k.role # k.row.role /\ M!SameRow(h)
  <2>1. M!Commit(h, r, k.role) /\ phantom' = phantom
    BY <1>4 DEF M!WriteRole
  <2>2. r \in Picture /\ r # NoRow /\ r.role = k.role
    BY <1>2 DEF Picture, People
  <2>3. k.role = "owner" \/ k.user \notin M!Owners \/ M!TakesOwner(k, member[k.user])
    BY <1>1, WritesWhatItRead
  <2> HIDE DEF r
  <2> QED BY <1>1, <1>2, <1>4, <2>1, <2>2, <2>3, CommitStep
<1>5. CASE k.role # k.row.role /\ ~M!SameRow(h)
  BY <1>5, FinishStep DEF M!WriteRole, M!Rollback
<1> QED BY <1>3, <1>4, <1>5

\* A removal that finds its row gone is what the trail gets wrong.
LEMMA WriteRemovalKeeps ==
  ASSUME MemberInv, NEW h \in Handler, M!WriteRemoval(h)
  PROVE  MemberInv'
<1> DEFINE k == req[h]
           r == IF M!SameRow(h) THEN NoRow ELSE member[req[h].user]
<1>1. req[h].pc = "write" /\ req[h].op = "remove"
  BY DEF M!WriteRemoval
<1>2. /\ k.row \in Picture /\ k.row # NoRow /\ k.user \in User
      /\ member[k.user] \in Picture \cup {NoRow} /\ k.row.role # "none"
  BY <1>1, WritesWhatItRead DEF Picture, Roles
<1>3. /\ M!Commit(h, r, "none")
      /\ phantom' = IF M!SameRow(h) THEN phantom ELSE phantom \cup {k.user}
  BY DEF M!WriteRemoval
<1>4. k.user \notin M!Owners \/ M!TakesOwner(k, member[k.user])
  BY <1>1, WritesWhatItRead
<1>5. /\ r \in Picture \cup {NoRow}
      /\ k.user \notin phantom' => r = NoRow
  BY <1>2, <1>3
<1>6. phantom' = phantom \/ phantom' = phantom \cup {k.user}
  BY <1>3
<1> HIDE DEF r
<1> QED BY <1>1, <1>2, <1>3, <1>4, <1>5, <1>6, CommitStep

LEMMA MembersStart == ASSUME People, M!Init PROVE MemberInv
<1>1. trail = <<>> /\ founder = NoUser /\ (\A u \in User : member[u] = NoRow)
      /\ (\A h \in Handler : req[h] = M!Idle) /\ M!Idle.pc = "idle"
  BY DEF M!Init, M!Idle
<1>2. MemberTypes
  <2>1. M!Idle \in ReqOk
    BY DEF ReqOk
  <2>2. <<>> \in Seq([user: User, new: Roles \cup {"none"}, previous: Roles \cup {"none"}])
    OBVIOUS
  <2> QED BY <2>1, <2>2 DEF M!Init, MemberTypes
<1>3. FoundedInv /\ PictureInv /\ M!OwnerRemains
  BY <1>1 DEF FoundedInv, PictureInv, Working, M!OwnerRemains
<1>4. DOMAIN trail = {}
  BY <1>1
<1>5. \A u \in User : HasLast(u) /\ M!LastChange(u) = IF u = founder THEN "owner" ELSE "none"
  BY <1>4 DEF HasLast, Changes, M!LastChange
<1>6. TrailInv
  BY <1>1, <1>5 DEF TrailInv, People
<1> QED BY <1>2, <1>3, <1>6 DEF MemberInv

LEMMA MembersStep ==
  ASSUME People, MemberInv, [M!Next]_(M!vars)
  PROVE  MemberInv'
<1>1. CASE UNCHANGED M!vars
  <2>1. UNCHANGED <<member, req, trail, founder, raced, phantom>>
    BY <1>1 DEF M!vars
  <2>2. MemberTypes' /\ FoundedInv'
    BY <2>1 DEF MemberInv, MemberTypes, FoundedInv
  <2>3. PictureInv' /\ M!OwnerRemains'
    BY <2>1 DEF MemberInv, PictureInv, Working, M!OwnerRemains, M!Owners
  <2>4. TrailInv'
    BY <2>1 DEF MemberInv, TrailInv, HasLast, Changes, M!LastChange
  <2> QED BY <2>2, <2>3, <2>4 DEF MemberInv
<1>2. ASSUME NEW h \in Handler, M!Step(h) PROVE MemberInv'
  <2>1. ASSUME NEW u \in User, M!BeginRegister(h, u) PROVE MemberInv'
    BY <2>1, BeginRegisterKeeps
  <2>2. ASSUME NEW a \in User, NEW u \in User, NEW op \in {"add", "change"}, NEW r \in Asked,
               M!Begin(h, a, op, u, r)
        PROVE  MemberInv'
    BY <2>2, BeginKeeps DEF People
  <2>3. ASSUME NEW a \in User, NEW u \in User, M!Begin(h, a, "remove", u, "viewer")
        PROVE  MemberInv'
    BY <2>3, BeginKeeps DEF Roles
  <2>4. CASE M!Fail(h)
    BY <2>4, FinishStep DEF M!Fail, M!Rollback
  <2> QED BY <1>2, <2>1, <2>2, <2>3, <2>4, InsertAccountKeeps, ReadTargetKeeps,
             CountOwnersKeeps,
             WriteAddKeeps, WriteRoleKeeps, WriteRemovalKeeps DEF M!Step
<1> QED BY <1>1, <1>2 DEF M!Next

LEMMA MembersAlways == ASSUME People PROVE M!Spec => []MemberInv
<1>1. M!Init => MemberInv
  BY MembersStart
<1>2. MemberInv /\ [M!Next]_(M!vars) => MemberInv'
  BY MembersStep
<1> QED BY <1>1, <1>2, PTL DEF M!Spec

\* A workspace that was founded keeps an owner, however the requests that demote and
\* remove interleave, unless the last one went to a request that had counted before
\* another committed.
THEOREM OwnersRemain == People => (M!Spec => []OwnerRemains)
<1> SUFFICES ASSUME People PROVE M!Spec => []OwnerRemains
  OBVIOUS
<1>1. MemberInv => OwnerRemains
  BY DEF MemberInv, OwnerRemains
<1> QED BY <1>1, MembersAlways, PTL

\* Replayed, the audit trail gives the membership as it is, for everyone but those
\* whose removal found the row already gone.
THEOREM TrailsExplain == People => (M!Spec => []TrailExplains)
<1> SUFFICES ASSUME People PROVE M!Spec => []TrailExplains
  OBVIOUS
<1>1. MemberInv => TrailExplains
  BY DEF MemberInv, TrailInv, TrailExplains, M!TrailExplains
<1> QED BY <1>1, MembersAlways, PTL

-----------------------------------------------------------------------------
(* ChannelDelivery: a message is acknowledged once its reply is on record,   *)
(* and has no more runs than there were requests at work on it.              *)

\* No message is none, and there is a number of requests that run at a time.
Chats == NoMsg \notin Msg /\ NoRun \notin Run /\ IsFiniteSet(Hook)

AtOwe == {"owe", "insert", "ack"}
HookOk == [pc: {"idle", "find", "bind", "check", "submit", "owe", "insert", "ack"},
           msg: Msg \cup {NoMsg}, run: Run \cup {NoRun}]

\* What is written for a run stays, and a request that owes a reply has the run of
\* its message in hand.
HookTypes == hook \in [Hook -> HookOk]
RunMsgs ==
  /\ run \in [Run -> D!RunType] /\ \A r \in Run : run[r].msg \in Msg => run[r].status # "none"
  /\ reply \in [Run -> D!ReplyType]
  /\ service \in [Msg -> [acked: BOOLEAN, deliveries: Nat]]
Holding(k, ran, owed) ==
  /\ k.pc # "idle" => k.msg \in Msg
  /\ k.pc \in AtOwe => k.run \in Run /\ ran[k.run].msg = k.msg
  /\ k.pc = "ack" => owed[k.run].status # "none"
OnRecord(owed, now) == \A r \in Run : now[r].status = "none" => owed[r].status = "none"
OwedInv == HookTypes /\ RunMsgs /\ (\A h \in Hook : Holding(hook[h], run, reply)) /\ D!AckedIsOwed

\* Those that have found no run and will make one, with the runs there are.
Making(m) == {h \in Hook : hook[h].pc = "submit" /\ hook[h].msg = m}
CountInv ==
  \A m \in Msg : /\ IsFiniteSet(D!RunsFor(m))
                 /\ Cardinality(D!RunsFor(m)) + Cardinality(Making(m)) <= Cardinality(Hook)
ChatInv == OwedInv /\ CountInv

\* A request moves on to k; runs, replies and acknowledgements stay.
LEMMA HookMoves ==
  ASSUME Chats, ChatInv, NEW h \in Hook, NEW k \in HookOk, hook' = [hook EXCEPT ![h] = k],
         run' = run, reply' \in [Run -> D!ReplyType], OnRecord(reply, reply'),
         service' \in [Msg -> [acked: BOOLEAN, deliveries: Nat]],
         \A m \in Msg : service'[m].acked =>
           service[m].acked \/ (hook[h].pc = "ack" /\ hook[h].msg = m),
         Holding(k, run, reply'),
         k.pc = "submit" => D!RunsFor(k.msg) = {}
  PROVE  ChatInv'
<1>1. HookTypes' /\ \A g \in Hook : hook'[g] = IF g = h THEN k ELSE hook[g]
  BY DEF ChatInv, OwedInv, HookTypes
<1>2. RunMsgs'
  BY DEF ChatInv, OwedInv, RunMsgs
<1>3. \A m : D!RunsFor(m)' = D!RunsFor(m)
  BY DEF D!RunsFor
<1>4. \A g \in Hook : Holding(hook[g], run, reply) => Holding(hook[g], run, reply')
  BY DEF Holding, OnRecord, AtOwe
<1>5. \A g \in Hook : Holding(hook'[g], run', reply')
  BY <1>1, <1>4 DEF ChatInv, OwedInv
<1>6. D!AckedIsOwed'
  <2>1. SUFFICES ASSUME NEW m \in Msg, service'[m].acked
                 PROVE  \E r \in D!RunsFor(m) : reply'[r].status # "none"
    BY <1>3 DEF D!AckedIsOwed
  <2>2. CASE service[m].acked
    <3>1. PICK r \in D!RunsFor(m) : reply[r].status # "none"
      BY <2>2 DEF ChatInv, OwedInv, D!AckedIsOwed
    <3> QED BY <3>1 DEF D!RunsFor, OnRecord
  <2>3. CASE hook[h].pc = "ack" /\ hook[h].msg = m
    BY <2>3 DEF ChatInv, OwedInv, Holding, AtOwe, D!RunsFor, OnRecord
  <2> QED BY <2>1, <2>2, <2>3
<1>7. CountInv'
  <2>1. SUFFICES ASSUME NEW m \in Msg
                 PROVE  Cardinality(D!RunsFor(m)) + Cardinality(Making(m)') <= Cardinality(Hook)
    BY <1>3 DEF ChatInv, CountInv
  <2>2. /\ Making(m)' \subseteq Hook /\ Making(m) \subseteq Hook
        /\ IsFiniteSet(Hook) /\ IsFiniteSet(Making(m)') /\ IsFiniteSet(Making(m))
    BY FS_Subset DEF Making, Chats
  <2>3. /\ Cardinality(Making(m)') <= Cardinality(Hook)
        /\ Cardinality(Hook) \in Nat /\ Cardinality(Making(m)') \in Nat
        /\ Cardinality(Making(m)) \in Nat
    BY <2>2, FS_Subset, FS_CardinalityType
  <2>4. CASE k.pc = "submit" /\ k.msg = m
    <3>1. Cardinality(D!RunsFor(m)) = 0
      BY <2>4, FS_EmptySet
    <3> QED BY <2>3, <3>1
  <2>5. CASE ~(k.pc = "submit" /\ k.msg = m)
    <3>1. Making(m)' \subseteq Making(m)
      BY <1>1, <2>5 DEF Making
    <3>2. Cardinality(Making(m)') <= Cardinality(Making(m))
      BY <2>2, <3>1, FS_Subset
    <3>3. /\ Cardinality(D!RunsFor(m)) \in Nat
          /\ Cardinality(D!RunsFor(m)) + Cardinality(Making(m)) <= Cardinality(Hook)
      BY FS_CardinalityType DEF ChatInv, CountInv
    <3> QED BY <2>3, <3>2, <3>3
  <2> QED BY <2>4, <2>5
<1> QED BY <1>1, <1>2, <1>5, <1>6, <1>7 DEF ChatInv, OwedInv

\* ... and the replies stay too.
LEMMA HookGoesOn ==
  ASSUME Chats, ChatInv, NEW h \in Hook, NEW k \in HookOk, hook' = [hook EXCEPT ![h] = k],
         run' = run, reply' = reply,
         service' \in [Msg -> [acked: BOOLEAN, deliveries: Nat]],
         \A m \in Msg : service'[m].acked =>
           service[m].acked \/ (hook[h].pc = "ack" /\ hook[h].msg = m),
         Holding(k, run, reply),
         k.pc = "submit" => D!RunsFor(k.msg) = {}
  PROVE  ChatInv'
<1>1. reply' \in [Run -> D!ReplyType] /\ OnRecord(reply, reply') /\ Holding(k, run, reply')
  BY DEF ChatInv, OwedInv, RunMsgs, OnRecord
<1> QED BY <1>1, HookMoves

\* A request that ends.
LEMMA RefuseKeeps ==
  ASSUME Chats, ChatInv, NEW h \in Hook, D!Refuse(h), UNCHANGED <<service, run, reply>>
  PROVE  ChatInv'
<1> DEFINE k == D!IdleHook
<1>1. k \in HookOk /\ k.pc = "idle" /\ Holding(k, run, reply)
  BY DEF D!IdleHook, HookOk, Holding, AtOwe
<1>2. k.pc # "submit" /\ service' \in [Msg -> [acked: BOOLEAN, deliveries: Nat]]
      /\ \A m \in Msg : service'[m].acked => service[m].acked
  BY <1>1 DEF ChatInv, OwedInv, RunMsgs
<1>3. hook' = [hook EXCEPT ![h] = k]
  BY DEF D!Refuse
<1> HIDE DEF k
<1> QED BY <1>1, <1>2, <1>3, HookGoesOn

\* A request that goes on with the message it has.
LEMMA ProceedKeeps ==
  ASSUME Chats, ChatInv, NEW h \in Hook, UNCHANGED <<service, run, reply>>,
         NEW pc \in {"check", "bind", "submit", "ack", "insert"}, D!Proceed(h, pc),
         hook[h].pc # "idle",
         pc \in {"ack", "insert"} => hook[h].pc \in AtOwe,
         pc = "ack" => reply[hook[h].run].status # "none",
         pc = "submit" => D!RunsFor(hook[h].msg) = {}
  PROVE  ChatInv'
<1> DEFINE k == [hook[h] EXCEPT !.pc = pc]
<1>1. hook[h] \in HookOk
  BY DEF ChatInv, OwedInv, HookTypes
<1>2. k \in HookOk /\ k.pc = pc /\ k.msg = hook[h].msg /\ k.run = hook[h].run
  BY <1>1 DEF HookOk
<1>3. hook' = [hook EXCEPT ![h] = k]
  BY DEF D!Proceed
<1> HIDE DEF k
<1>4. Holding(hook[h], run, reply)
  BY DEF ChatInv, OwedInv
<1>5. Holding(k, run, reply)
  BY <1>2, <1>4 DEF Holding, AtOwe
<1>6. service' \in [Msg -> [acked: BOOLEAN, deliveries: Nat]] /\ \A m \in Msg : service'[m].acked => service[m].acked
  BY DEF ChatInv, OwedInv, RunMsgs
<1>7. k.pc = "submit" => D!RunsFor(k.msg) = {}
  BY <1>2
<1> QED BY <1>2, <1>3, <1>5, <1>6, <1>7, HookGoesOn

LEMMA DeliverKeeps ==
  ASSUME Chats, ChatInv, NEW h \in Hook, NEW m \in Msg, D!Deliver(h, m)
  PROVE  ChatInv'
<1> DEFINE k == [D!IdleHook EXCEPT !.pc = "find", !.msg = m]
<1>1. hook' = [hook EXCEPT ![h] = k] /\ UNCHANGED <<run, reply>>
  BY DEF D!Deliver
<1>2. k \in HookOk /\ k.pc = "find" /\ k.msg = m
  BY DEF HookOk, D!IdleHook
<1>3. service' \in [Msg -> [acked: BOOLEAN, deliveries: Nat]] /\ \A n \in Msg : service'[n].acked = service[n].acked
  BY DEF D!Deliver, ChatInv, OwedInv, RunMsgs
<1> HIDE DEF k
<1>4. Holding(k, run, reply) /\ k.pc # "submit"
  BY <1>2 DEF Holding, AtOwe
<1>5. \A n \in Msg : service'[n].acked => service[n].acked
  BY <1>3
<1> QED BY <1>1, <1>2, <1>3, <1>4, <1>5, HookGoesOn

LEMMA FindSessionKeeps ==
  ASSUME Chats, ChatInv, NEW h \in Hook, D!FindSession(h) PROVE ChatInv'
<1>1. UNCHANGED <<service, run, reply>> /\ hook[h].pc = "find"
  BY DEF D!FindSession
<1>2. D!Proceed(h, "check") \/ D!Proceed(h, "bind")
  BY DEF D!FindSession
<1> QED BY <1>1, <1>2, ProceedKeeps

LEMMA CreateSessionKeeps ==
  ASSUME Chats, ChatInv, NEW h \in Hook, D!CreateSession(h) PROVE ChatInv'
<1>1. UNCHANGED <<service, run, reply>> /\ hook[h].pc = "bind"
  BY DEF D!CreateSession
<1>2. D!Proceed(h, "check") \/ D!Refuse(h)
  BY DEF D!CreateSession
<1> QED BY <1>1, <1>2, ProceedKeeps, RefuseKeeps

\* The run of an earlier delivery is the message's.
LEMMA CheckKeeps ==
  ASSUME Chats, ChatInv, NEW h \in Hook, D!CheckIdempotencyKey(h) PROVE ChatInv'
<1>1. UNCHANGED <<service, run, reply>> /\ hook[h].pc = "check"
  BY DEF D!CheckIdempotencyKey
<1>2. ASSUME NEW r \in D!RunsFor(hook[h].msg),
             hook' = [hook EXCEPT ![h] = [@ EXCEPT !.pc = "owe", !.run = r]]
      PROVE  ChatInv'
  <2> DEFINE k == [hook[h] EXCEPT !.pc = "owe", !.run = r]
  <2>1. hook[h] \in HookOk /\ Holding(hook[h], run, reply)
    BY DEF ChatInv, OwedInv, HookTypes
  <2>2. r \in Run /\ run[r].msg = hook[h].msg
    BY DEF D!RunsFor
  <2>3. k \in HookOk /\ k.pc = "owe" /\ k.run = r /\ k.msg = hook[h].msg
    BY <2>1, <2>2 DEF HookOk
  <2>4. hook' = [hook EXCEPT ![h] = k]
    BY <1>2
  <2> HIDE DEF k
  <2>5. Holding(k, run, reply) /\ k.pc # "submit"
    BY <1>1, <2>1, <2>2, <2>3 DEF Holding, AtOwe
  <2>6. service' \in [Msg -> [acked: BOOLEAN, deliveries: Nat]] /\ \A m \in Msg : service'[m].acked => service[m].acked
    BY <1>1 DEF ChatInv, OwedInv, RunMsgs
  <2> QED BY <1>1, <2>3, <2>4, <2>5, <2>6, HookGoesOn
<1>3. \/ \E r \in D!RunsFor(hook[h].msg) :
           hook' = [hook EXCEPT ![h] = [@ EXCEPT !.pc = "owe", !.run = r]]
      \/ D!RunsFor(hook[h].msg) = {} /\ D!Proceed(h, "submit")
      \/ D!Refuse(h)
  BY DEF D!CheckIdempotencyKey
<1> QED BY <1>1, <1>2, <1>3, ProceedKeeps, RefuseKeeps

\* A request that submits was counted before: now its run is.
LEMMA SubmitRunKeeps ==
  ASSUME Chats, ChatInv, NEW h \in Hook, NEW r \in Run, D!SubmitRun(h, r) PROVE ChatInv'
<1> DEFINE k == [hook[h] EXCEPT !.pc = "owe", !.run = r]
           n == hook[h].msg
           w == [msg |-> hook[h].msg, status |-> "live"]
<1>1. /\ hook[h].pc = "submit" /\ run[r].status = "none" /\ UNCHANGED <<service, reply>>
      /\ run' = [run EXCEPT ![r] = w] /\ hook' = [hook EXCEPT ![h] = k]
  BY DEF D!SubmitRun
<1>2. hook[h] \in HookOk /\ Holding(hook[h], run, reply)
  BY DEF ChatInv, OwedInv, HookTypes
<1>3. k \in HookOk /\ k.pc = "owe" /\ k.run = r /\ k.msg = n /\ n \in Msg
  BY <1>1, <1>2 DEF HookOk, Holding
<1>4. w.msg = n /\ w.status = "live" /\ w \in D!RunType
  BY <1>3 DEF D!RunType
<1> HIDE DEF k, n, w
<1>5. /\ run[r].msg \notin Msg
      /\ DOMAIN run' = Run /\ \A s \in Run : run'[s] = IF s = r THEN w ELSE run[s]
  BY <1>1 DEF ChatInv, OwedInv, RunMsgs
<1>6. RunMsgs'
  BY <1>1, <1>4, <1>5 DEF ChatInv, OwedInv, RunMsgs
<1>7. HookTypes' /\ \A g \in Hook : hook'[g] = IF g = h THEN k ELSE hook[g]
  BY <1>1, <1>3 DEF ChatInv, OwedInv, HookTypes
<1>8. \A m \in Msg : D!RunsFor(m)' = IF m = n THEN D!RunsFor(m) \cup {r} ELSE D!RunsFor(m)
  BY <1>4, <1>5 DEF D!RunsFor
<1>9. \A m \in Msg : r \notin D!RunsFor(m)
  BY <1>5 DEF D!RunsFor
<1>10. \A g \in Hook : Holding(hook'[g], run', reply')
  <2>1. SUFFICES ASSUME NEW g \in Hook
                 PROVE  /\ hook'[g].pc # "idle" => hook'[g].msg \in Msg
                        /\ hook'[g].pc \in AtOwe => hook'[g].run \in Run /\ run'[hook'[g].run].msg = hook'[g].msg
                        /\ hook'[g].pc = "ack" => reply[hook'[g].run].status # "none"
    BY <1>1 DEF Holding
  <2>2. CASE g = h
    BY <1>3, <1>4, <1>5, <1>7, <2>2
  <2>3. CASE g # h
    <3>1. hook'[g] = hook[g] /\ Holding(hook[g], run, reply)
      BY <1>7, <2>3 DEF ChatInv, OwedInv
    <3>2. hook[g].pc \in AtOwe => hook[g].run # r
      BY <1>5, <3>1 DEF Holding, AtOwe
    <3> QED BY <1>5, <3>1, <3>2 DEF Holding
  <2> QED BY <2>2, <2>3
<1>11. D!AckedIsOwed'
  BY <1>1, <1>8 DEF ChatInv, OwedInv, D!AckedIsOwed
<1>12. CountInv'
  <2>1. SUFFICES ASSUME NEW m \in Msg
                 PROVE  /\ IsFiniteSet(D!RunsFor(m)')
                        /\ Cardinality(D!RunsFor(m)') + Cardinality(Making(m)') <= Cardinality(Hook)
    BY DEF CountInv
  <2>2. /\ IsFiniteSet(D!RunsFor(m))
        /\ Cardinality(D!RunsFor(m)) + Cardinality(Making(m)) <= Cardinality(Hook)
    BY DEF ChatInv, CountInv
  <2>3. IsFiniteSet(Making(m))
    BY FS_Subset DEF Making, Chats
  <2>4. Cardinality(D!RunsFor(m)) \in Nat /\ Cardinality(Making(m)) \in Nat
    BY <2>2, <2>3, FS_CardinalityType
  <2>5. CASE m = n
    <3>1. h \in Making(m) /\ Making(m)' = Making(m) \ {h}
      BY <1>1, <1>3, <1>7, <2>5 DEF Making, n
    <3>2. Cardinality(Making(m)') = Cardinality(Making(m)) - 1
      BY <2>3, <3>1, FS_RemoveElement
    <3>3. /\ IsFiniteSet(D!RunsFor(m) \cup {r})
          /\ Cardinality(D!RunsFor(m) \cup {r}) = Cardinality(D!RunsFor(m)) + 1
      BY <1>9, <2>2, FS_AddElement
    <3>4. D!RunsFor(m)' = D!RunsFor(m) \cup {r}
      BY <1>8, <2>5
    <3> QED BY <2>2, <2>4, <3>2, <3>3, <3>4
  <2>6. CASE m # n
    <3>1. D!RunsFor(m)' = D!RunsFor(m)
      BY <1>8, <2>6
    <3>2. Making(m)' = Making(m)
      BY <1>3, <1>7, <2>6 DEF Making, n
    <3> QED BY <2>2, <3>1, <3>2
  <2> QED BY <2>5, <2>6
<1> QED BY <1>6, <1>7, <1>10, <1>11, <1>12 DEF ChatInv, OwedInv

LEMMA FindReplyKeeps ==
  ASSUME Chats, ChatInv, NEW h \in Hook, D!FindReply(h) PROVE ChatInv'
<1>1. UNCHANGED <<service, run, reply>> /\ hook[h].pc = "owe"
  BY DEF D!FindReply
<1>2. \/ D!Proceed(h, "ack") /\ reply[hook[h].run].status # "none"
      \/ D!Proceed(h, "insert")
  BY DEF D!FindReply
<1> QED BY <1>1, <1>2, ProceedKeeps DEF AtOwe

\* Runs keep their message and stay submitted, replies stay on record.
LEMMA RowsMove ==
  ASSUME ChatInv, hook' = hook, service' = service,
         run' \in [Run -> D!RunType], reply' \in [Run -> D!ReplyType], OnRecord(reply, reply'),
         \A r \in Run : /\ run'[r].msg = run[r].msg
                        /\ run'[r].status = "none" => run[r].status = "none"
  PROVE  ChatInv'
<1>1. HookTypes'
  BY DEF ChatInv, OwedInv, HookTypes
<1>2. RunMsgs'
  BY DEF ChatInv, OwedInv, RunMsgs
<1>3. \A m : D!RunsFor(m)' = D!RunsFor(m) /\ Making(m)' = Making(m)
  BY DEF D!RunsFor, Making
<1>4. \A h \in Hook : Holding(hook[h], run, reply)
  BY DEF ChatInv, OwedInv
<1>5. \A h \in Hook : Holding(hook'[h], run', reply')
  BY <1>4 DEF Holding, AtOwe, OnRecord
<1>6. D!AckedIsOwed'
  <2>1. SUFFICES ASSUME NEW m \in Msg, service[m].acked
                 PROVE  \E r \in D!RunsFor(m) : reply'[r].status # "none"
    BY <1>3 DEF D!AckedIsOwed
  <2>2. PICK r \in D!RunsFor(m) : reply[r].status # "none"
    BY <2>1 DEF ChatInv, OwedInv, D!AckedIsOwed
  <2> QED BY <2>2 DEF D!RunsFor, OnRecord
<1>7. CountInv'
  BY <1>3 DEF ChatInv, CountInv
<1> QED BY <1>1, <1>2, <1>5, <1>6, <1>7 DEF ChatInv, OwedInv

LEMMA RepliesMove ==
  ASSUME ChatInv, hook' = hook, service' = service, run' = run,
         reply' \in [Run -> D!ReplyType], OnRecord(reply, reply')
  PROVE  ChatInv'
BY RowsMove DEF ChatInv, OwedInv, RunMsgs

\* The row first, then the acknowledgement.
LEMMA InsertReplyKeeps ==
  ASSUME Chats, ChatInv, NEW h \in Hook, D!InsertReply(h) PROVE ChatInv'
<1> DEFINE s == hook[h].run
           k == [hook[h] EXCEPT !.pc = "ack"]
<1>1. hook[h].pc = "insert" /\ UNCHANGED <<service, run>>
  BY DEF D!InsertReply
<1>2. CASE D!Refuse(h) /\ reply' = reply
  BY <1>1, <1>2, RefuseKeeps
<1>3. CASE reply' = [reply EXCEPT ![s].status = "pending"] /\ D!Proceed(h, "ack")
  <2>1. /\ s \in Run /\ hook[h] \in HookOk /\ Holding(hook[h], run, reply)
        /\ reply \in [Run -> D!ReplyType]
    BY <1>1 DEF ChatInv, OwedInv, Holding, AtOwe, HookTypes, RunMsgs
  <2>2. /\ reply' \in [Run -> D!ReplyType] /\ OnRecord(reply, reply')
        /\ reply'[s].status = "pending"
    BY <1>3, <2>1 DEF D!ReplyType, OnRecord
  <2>3. k \in HookOk /\ k.pc = "ack" /\ k.msg = hook[h].msg /\ k.run = s
    BY <2>1 DEF HookOk
  <2>4. hook' = [hook EXCEPT ![h] = k]
    BY <1>3 DEF D!Proceed
  <2>5. Holding(k, run, reply')
    BY <1>1, <2>1, <2>2, <2>3 DEF Holding, AtOwe
  <2>6. service' \in [Msg -> [acked: BOOLEAN, deliveries: Nat]]
        /\ \A m \in Msg : service'[m].acked => service[m].acked
    BY <1>1 DEF ChatInv, OwedInv, RunMsgs
  <2> HIDE DEF k, s
  <2> QED BY <1>1, <2>2, <2>3, <2>4, <2>5, <2>6, HookMoves
<1> QED BY <1>1, <1>2, <1>3 DEF D!InsertReply

\* The service gets its 200 when the reply of the message is on record.
LEMMA AcknowledgeKeeps ==
  ASSUME Chats, ChatInv, NEW h \in Hook, D!Acknowledge(h) PROVE ChatInv'
<1> DEFINE k == D!IdleHook
           n == hook[h].msg
<1>1. hook[h].pc = "ack" /\ run' = run /\ reply' = reply /\ hook' = [hook EXCEPT ![h] = k]
      /\ service' = [service EXCEPT ![n].acked = TRUE]
  BY DEF D!Acknowledge
<1>2. k \in HookOk /\ k.pc = "idle" /\ Holding(k, run, reply)
  BY DEF D!IdleHook, HookOk, Holding, AtOwe
<1>3. service \in [Msg -> [acked: BOOLEAN, deliveries: Nat]]
  BY DEF ChatInv, OwedInv, RunMsgs
<1>4. service' \in [Msg -> [acked: BOOLEAN, deliveries: Nat]]
      /\ \A m \in Msg : service'[m].acked => service[m].acked \/ n = m
  BY <1>1, <1>3
<1>5. n = hook[h].msg /\ k.pc # "submit"
  BY <1>2
<1> HIDE DEF k, n
<1>6. \A m \in Msg : service'[m].acked =>
        service[m].acked \/ (hook[h].pc = "ack" /\ hook[h].msg = m)
  BY <1>1, <1>4, <1>5
<1> QED BY <1>1, <1>2, <1>4, <1>5, <1>6, HookGoesOn

LEMMA RunChangesKeeps ==
  ASSUME ChatInv, NEW r \in Run, D!RunParks(r) \/ D!RunResumes(r) \/ D!RunEnds(r)
  PROVE  ChatInv'
<1>1. PICK to \in {"parked", "live", "over"} : run' = [run EXCEPT ![r].status = to]
  BY DEF D!RunParks, D!RunResumes, D!RunEnds, D!RunChanges
<1>2. UNCHANGED <<hook, service, reply>>
  BY DEF D!RunParks, D!RunResumes, D!RunEnds, D!RunChanges
<1>3. run \in [Run -> D!RunType] /\ reply \in [Run -> D!ReplyType]
  BY DEF ChatInv, OwedInv, RunMsgs
<1>4. /\ run' \in [Run -> D!RunType]
      /\ \A s \in Run : /\ run'[s].msg = run[s].msg
                        /\ run'[s].status = "none" => run[s].status = "none"
  BY <1>1, <1>3 DEF D!RunType
<1>5. OnRecord(reply, reply')
  BY <1>2 DEF OnRecord
<1> QED BY <1>2, <1>3, <1>4, <1>5, RowsMove

\* What a dispatcher writes is never the removal of a row.
LEMMA WritesKeep ==
  ASSUME ChatInv, NEW r, hook' = hook, service' = service, run' = run,
         \/ reply' = reply
         \/ reply' = [reply EXCEPT ![r].status = "abandoned"]
         \/ reply' = [reply EXCEPT ![r].status = "sent"]
         \/ reply' = [reply EXCEPT ![r].interim = TRUE]
         \/ reply' = [reply EXCEPT ![r].attempts = @ + 1]
  PROVE  ChatInv'
<1>1. reply \in [Run -> D!ReplyType]
  BY DEF ChatInv, OwedInv, RunMsgs
<1>2. ASSUME NEW s \in Run
      PROVE  reply'[s] \in D!ReplyType /\ (reply'[s].status = "none" => reply[s].status = "none")
  <2>1. reply[s] \in D!ReplyType
    BY <1>1
  <2>2. reply[s].attempts + 1 \in Nat
    BY <2>1 DEF D!ReplyType
  <2>3. \/ reply'[s] = reply[s]
        \/ reply'[s] = [reply[s] EXCEPT !.status = "abandoned"]
        \/ reply'[s] = [reply[s] EXCEPT !.status = "sent"]
        \/ reply'[s] = [reply[s] EXCEPT !.interim = TRUE]
        \/ reply'[s] = [reply[s] EXCEPT !.attempts = reply[s].attempts + 1]
    BY <1>1
  <2> QED BY <2>1, <2>2, <2>3 DEF D!ReplyType
<1>3. DOMAIN reply' = Run /\ reply' = [s \in Run |-> reply'[s]]
  BY <1>1
<1>4. reply' \in [Run -> D!ReplyType] /\ OnRecord(reply, reply')
  BY <1>2, <1>3 DEF OnRecord
<1> QED BY <1>4, RepliesMove

LEMMA DispatcherStepKeeps ==
  ASSUME ChatInv, NEW d \in Dispatcher, D!DispatcherStep(d) \/ D!DispatcherDies(d)
  PROVE  ChatInv'
<1> DEFINE r == disp[d].run
<1>1. hook' = hook /\ service' = service /\ run' = run
  BY DEF D!DispatcherStep, D!DispatcherDies, D!BeginSweep, D!LoadReply,
         D!AbandonUnconfigured,
         D!ClaimReply, D!Send, D!RecordOutcome
<1>2. \/ reply' = reply
      \/ reply' = [reply EXCEPT ![r].status = "abandoned"]
      \/ reply' = [reply EXCEPT ![r].status = "sent"]
      \/ reply' = [reply EXCEPT ![r].interim = TRUE]
      \/ reply' = [reply EXCEPT ![r].attempts = @ + 1]
  <2>1. CASE D!AbandonUnconfigured(d)
    BY <2>1 DEF D!AbandonUnconfigured
  <2>2. CASE D!ClaimReply(d)
    BY <2>2 DEF D!ClaimReply
  <2>3. CASE D!RecordOutcome(d)
    BY <2>3 DEF D!RecordOutcome
  <2>4. CASE D!DispatcherDies(d) \/ D!BeginSweep(d) \/ D!Send(d) \/ \E s \in Run : D!LoadReply(d, s)
    BY <2>4 DEF D!DispatcherDies, D!BeginSweep, D!Send, D!LoadReply
  <2> QED BY <2>1, <2>2, <2>3, <2>4 DEF D!DispatcherStep
<1> HIDE DEF r
<1> QED BY <1>1, <1>2, WritesKeep

LEMMA ChatStart == ASSUME Chats, D!Init PROVE ChatInv
<1>1. D!IdleHook \in HookOk /\ D!IdleHook.pc = "idle"
  BY DEF D!IdleHook, HookOk
<1>2. HookTypes /\ \A h \in Hook : hook[h].pc = "idle"
  BY <1>1 DEF D!Init, HookTypes
<1>3. RunMsgs
  BY DEF D!Init, RunMsgs, D!RunType, D!ReplyType, Chats
<1>4. \A h \in Hook : Holding(hook[h], run, reply)
  BY <1>2 DEF Holding, AtOwe
<1>5. D!AckedIsOwed
  BY DEF D!Init, D!AckedIsOwed
<1>6. \A m \in Msg : D!RunsFor(m) = {} /\ Making(m) = {}
  BY <1>2 DEF D!Init, D!RunsFor, Making, Chats
<1>7. CountInv
  <2>1. IsFiniteSet({}) /\ Cardinality({}) = 0
    BY FS_EmptySet
  <2>2. Cardinality(Hook) \in Nat
    BY FS_CardinalityType DEF Chats
  <2> QED BY <1>6, <2>1, <2>2 DEF CountInv
<1> QED BY <1>2, <1>3, <1>4, <1>5, <1>7 DEF ChatInv, OwedInv

LEMMA ChatStep ==
  ASSUME Chats, ChatInv, [D!Next]_(D!vars) PROVE ChatInv'
<1>1. ASSUME UNCHANGED <<hook, service, run, reply>> PROVE ChatInv'
  <2>1. reply \in [Run -> D!ReplyType] /\ OnRecord(reply, reply')
    BY <1>1 DEF ChatInv, OwedInv, RunMsgs, OnRecord
  <2> QED BY <1>1, <2>1, RepliesMove
<1>2. CASE UNCHANGED D!vars
  BY <1>1, <1>2 DEF D!vars
<1>3. CASE D!RemoveCredentials
  BY <1>1, <1>3 DEF D!RemoveCredentials
<1>4. ASSUME NEW h \in Hook, D!HookDies(h) PROVE ChatInv'
  BY <1>4, RefuseKeeps DEF D!HookDies
<1>5. ASSUME NEW h \in Hook, D!HookStep(h) PROVE ChatInv'
  BY <1>5, FindSessionKeeps, CreateSessionKeeps, CheckKeeps, SubmitRunKeeps, FindReplyKeeps,
     InsertReplyKeeps, AcknowledgeKeeps DEF D!HookStep
<1> QED BY <1>2, <1>3, <1>4, <1>5, DeliverKeeps, RunChangesKeeps, DispatcherStepKeeps
           DEF D!Next

LEMMA ChatAlways == ASSUME Chats PROVE D!Spec => []ChatInv
<1>1. D!Init => ChatInv
  BY ChatStart
<1>2. ChatInv /\ [D!Next]_(D!vars) => ChatInv'
  BY ChatStep
<1> QED BY <1>1, <1>2, PTL DEF D!Spec

\* A message is acknowledged only when a run of it has its reply on record, so that
\* nothing the service will not deliver again is forgotten.
THEOREM AckedAreOwed == Chats => (D!Spec => []AckedIsOwed)
<1> SUFFICES ASSUME Chats PROVE D!Spec => []AckedIsOwed
  OBVIOUS
<1>1. ChatInv => AckedIsOwed
  BY DEF ChatInv, OwedInv, AckedIsOwed
<1> QED BY <1>1, ChatAlways, PTL

LEMMA CardinalityHere == ASSUME NEW S PROVE D!Cardinality(S) = Cardinality(S)
BY DEF D!Cardinality, Cardinality

\* However often a message is delivered, it has no more runs than requests were at
\* work at the same time.
THEOREM DuplicatesAreBounded == Chats => (D!Spec => []DuplicatesAreConcurrent)
<1> SUFFICES ASSUME Chats PROVE D!Spec => []DuplicatesAreConcurrent
  OBVIOUS
<1>1. ChatInv => DuplicatesAreConcurrent
  <2> SUFFICES ASSUME ChatInv, NEW m \in Msg
               PROVE  Cardinality(D!RunsFor(m)) <= Cardinality(Hook)
    BY CardinalityHere DEF DuplicatesAreConcurrent, D!DuplicatesAreConcurrent
  <2>1. IsFiniteSet(Making(m)) /\ IsFiniteSet(D!RunsFor(m)) /\ IsFiniteSet(Hook)
    BY FS_Subset DEF Making, Chats, ChatInv, CountInv
  <2>2. /\ Cardinality(Making(m)) \in Nat /\ Cardinality(D!RunsFor(m)) \in Nat
        /\ Cardinality(Hook) \in Nat
    BY <2>1, FS_CardinalityType
  <2> QED BY <2>2 DEF ChatInv, CountInv
<1> QED BY <1>1, ChatAlways, PTL

-----------------------------------------------------------------------------
(* Numbers: the least of a set, induction, minimum and maximum.            *)

\* The least-number principle, for sets.
LEMMA LeastNumber ==
  ASSUME NEW T, T \subseteq Nat, T # {}
  PROVE  \E m \in T : \A n \in T : m <= n
<1>1. PICK m \in T : \A n \in T : ~ (<<n, m>> \in OpToRel(<, Nat))
  BY NatLessThanWellFounded, WFMin
<1>2. ASSUME NEW n \in T PROVE m <= n
  <2>1. ~ (<<n, m>> \in OpToRel(<, Nat))
    BY <1>1
  <2>2. ~ (n < m)
    BY <2>1 DEF OpToRel
  <2> QED BY <2>2
<1> QED BY <1>2

\* Induction over the numbers, for the set of those a fact holds of.
LEMMA EveryNumber ==
  ASSUME NEW T, 0 \in T, \A k \in Nat : k \in T => k + 1 \in T
  PROVE  \A k \in Nat : k \in T
<1>1. SUFFICES ASSUME Nat \ T # {} PROVE FALSE
  OBVIOUS
<1>2. PICK m \in Nat \ T : \A n \in Nat \ T : m <= n
  BY <1>1, LeastNumber
<1>3. m # 0
  BY <1>2
<1>4. m - 1 \in Nat /\ ~ (m <= m - 1)
  BY <1>2, <1>3
<1>5. m - 1 \in T
  BY <1>2, <1>4
<1>6. (m - 1) + 1 \in T
  BY <1>4, <1>5
<1> QED BY <1>2, <1>6

LEMMA MinIsLeast ==
  ASSUME NEW T, T \subseteq Nat, T # {}
  PROVE  K!Min(T) \in T /\ \A n \in T : K!Min(T) <= n
BY LeastNumber DEF K!Min

LEMMA MaxIsGreatest ==
  ASSUME NEW T, T \subseteq Nat, T # {}, NEW b \in Nat, \A n \in T : n <= b
  PROVE  K!Max(T) \in T /\ \A n \in T : n <= K!Max(T)
<1> DEFINE Gaps == {b - n : n \in T}
<1>0. \A n \in T : n \in Nat /\ b - n \in Nat
  OBVIOUS
<1>1. Gaps \subseteq Nat /\ Gaps # {}
  BY <1>0
<1>2. PICK g \in Gaps : \A h \in Gaps : g <= h
  BY <1>1, LeastNumber
<1>3. PICK m \in T : g = b - m
  BY <1>2
<1>4. ASSUME NEW n \in T PROVE m >= n
  <2>1. b - m <= b - n
    BY <1>2, <1>3
  <2> QED BY <2>1
<1> QED BY <1>4 DEF K!Max

-----------------------------------------------------------------------------
Splittable == ChunkSize \in Nat /\ Overlap \in Nat /\ Overlap < ChunkSize

Text == Seq(STRING)
Piece == [from : Nat, to : Nat]

LEMMA HalfIsLess ==
  ASSUME Splittable
  PROVE  ChunkSize \div 2 \in Nat /\ ChunkSize \div 2 <= ChunkSize
BY DEF Splittable

LEMMA BoundaryLengths ==
  /\ DOMAIN K!Boundaries = 1..3
  /\ \A k \in 1..3 : Len(K!Boundaries[k]) \in 1..2
<1>1. K!Boundaries = << <<"\n", "\n">>, <<".", " ">>, <<"\n">> >>
  BY DEF K!Boundaries
<1>2. Len(K!Boundaries[1]) = 2 /\ Len(K!Boundaries[2]) = 2 /\ Len(K!Boundaries[3]) = 1
  BY <1>1
<1>3. DOMAIN K!Boundaries = 1..3
  <2>1. ASSUME NEW a, NEW b, NEW c PROVE DOMAIN <<a, b, c>> = 1..3
    OBVIOUS
  <2>2. DOMAIN << <<"\n", "\n">>, <<".", " ">>, <<"\n">> >> = 1..3
    BY <2>1, Zenon
  <2> QED BY <1>1, <2>2, Zenon
<1> HIDE DEF K!Boundaries
<1>4. \A k \in 1..3 : k = 1 \/ k = 2 \/ k = 3
  OBVIOUS
<1> QED BY <1>2, <1>3, <1>4

\* Where the window at s ends, and where a boundary that counts stands in it.
End(t, s) == K!Min({s + ChunkSize, Len(t)})

Hits(t, s, b) ==
  {a \in Nat : /\ s + ChunkSize \div 2 + 1 <= a /\ a + Len(b) <= End(t, s)
               /\ SubSeq(t, a + 1, a + Len(b)) = b}

LEMMA EndFacts ==
  ASSUME Splittable, NEW t \in Text, NEW s \in Nat
  PROVE  /\ End(t, s) \in Nat
         /\ End(t, s) <= s + ChunkSize /\ End(t, s) <= Len(t)
         /\ End(t, s) = s + ChunkSize \/ End(t, s) = Len(t)
<1>1. Len(t) \in Nat /\ ChunkSize \in Nat
  BY DEF Text, Splittable
<1>2. {s + ChunkSize, Len(t)} \subseteq Nat
  BY <1>1
<1>3. /\ End(t, s) \in {s + ChunkSize, Len(t)}
      /\ \A n \in {s + ChunkSize, Len(t)} : End(t, s) <= n
  BY <1>2, MinIsLeast DEF End
<1> QED BY <1>1, <1>3

LEMMA EndsGrow ==
  ASSUME Splittable, NEW t \in Text, NEW s \in Nat, NEW n \in Nat, s <= n
  PROVE  End(t, s) \in Nat /\ End(t, n) \in Nat /\ End(t, s) <= End(t, n)
<1>1. Len(t) \in Nat /\ ChunkSize \in Nat
  BY DEF Text, Splittable
<1>2. /\ End(t, s) \in Nat /\ End(t, s) <= s + ChunkSize /\ End(t, s) <= Len(t)
  BY EndFacts
<1>3. /\ End(t, n) \in Nat /\ (End(t, n) = n + ChunkSize \/ End(t, n) = Len(t))
  BY EndFacts
<1> QED BY <1>1, <1>2, <1>3

\* Positions in the window, and in the text.
LEMMA FoundIsHit ==
  ASSUME Splittable, NEW t \in Text, NEW s \in Nat, NEW b, Len(b) \in 1..2
  PROVE  /\ \A p \in K!Found(t, s, End(t, s), b) :
              p \in Nat /\ p <= ChunkSize /\ s + p \in Hits(t, s, b)
         /\ \A a \in Hits(t, s, b) : a - s \in K!Found(t, s, End(t, s), b)
<1> DEFINE half == ChunkSize \div 2
<1>1. half \in Nat /\ ChunkSize \in Nat /\ End(t, s) \in Nat /\ End(t, s) <= s + ChunkSize
  BY HalfIsLess, EndFacts DEF Splittable
<1>2. \A p : p \in K!Found(t, s, End(t, s), b) <=>
               /\ p \in (half + 1)..ChunkSize
               /\ s + p + Len(b) <= End(t, s)
               /\ SubSeq(t, s + p + 1, s + p + Len(b)) = b
  BY DEF K!Found
<1>3. \A a : a \in Hits(t, s, b) <=>
               /\ a \in Nat /\ s + half + 1 <= a /\ a + Len(b) <= End(t, s)
               /\ SubSeq(t, a + 1, a + Len(b)) = b
  BY DEF Hits
<1> HIDE DEF half
<1>4. ASSUME NEW p \in K!Found(t, s, End(t, s), b)
      PROVE  p \in Nat /\ p <= ChunkSize /\ s + p \in Hits(t, s, b)
  <2>1. /\ p \in (half + 1)..ChunkSize
        /\ s + p + Len(b) <= End(t, s)
        /\ SubSeq(t, s + p + 1, s + p + Len(b)) = b
    BY <1>2
  <2>2. p \in Nat /\ p <= ChunkSize /\ s + p \in Nat /\ s + half + 1 <= s + p
    BY <1>1, <2>1
  <2> QED BY <1>3, <2>1, <2>2
<1>5. ASSUME NEW a \in Hits(t, s, b) PROVE a - s \in K!Found(t, s, End(t, s), b)
  <2>1. /\ a \in Nat /\ s + half + 1 <= a /\ a + Len(b) <= End(t, s)
        /\ SubSeq(t, a + 1, a + Len(b)) = b
    BY <1>3
  <2>2. a - s \in (half + 1)..ChunkSize /\ s + (a - s) = a
    BY <1>1, <2>1
  <2>3. /\ s + (a - s) + Len(b) <= End(t, s)
        /\ SubSeq(t, s + (a - s) + 1, s + (a - s) + Len(b)) = b
    BY <2>1, <2>2
  <2> QED BY <1>2, <2>2, <2>3
<1> QED BY <1>4, <1>5

\* A window is cut after the last occurrence of the first boundary it has, or
\* not at all.
CutsAfter(t, s, k, a) ==
  /\ a \in Hits(t, s, K!Boundaries[k])
  /\ K!CutAt(t, s) = a + Len(K!Boundaries[k])
  /\ \A c \in Hits(t, s, K!Boundaries[k]) : c <= a
  /\ \A j \in 1..3 : Hits(t, s, K!Boundaries[j]) # {} => k <= j

LEMMA CutCases ==
  ASSUME Splittable, NEW t \in Text, NEW s \in Nat
  PROVE  \/ K!CutAt(t, s) = End(t, s) /\ End(t, s) = Len(t)
         \/ K!CutAt(t, s) = End(t, s) /\ \A j \in 1..3 : Hits(t, s, K!Boundaries[j]) = {}
         \/ \E k \in 1..3, a \in Nat : CutsAfter(t, s, k, a)
<1> DEFINE e == End(t, s)
           hits == {k \in DOMAIN K!Boundaries : K!Found(t, s, e, K!Boundaries[k]) # {}}
           k == K!Min(hits)
           found == K!Found(t, s, e, K!Boundaries[k])
<1>1. K!CutAt(t, s) = IF e = Len(t) \/ hits = {} THEN e
                      ELSE s + K!Max(found) + Len(K!Boundaries[k])
  BY DEF K!CutAt, End
<1>2. \A j \in 1..3 : j \in hits <=> Hits(t, s, K!Boundaries[j]) # {}
  <2> SUFFICES ASSUME NEW j \in 1..3 PROVE j \in hits <=> Hits(t, s, K!Boundaries[j]) # {}
    OBVIOUS
  <2>1. j \in hits <=> K!Found(t, s, End(t, s), K!Boundaries[j]) # {}
    BY BoundaryLengths
  <2>2. Len(K!Boundaries[j]) \in 1..2
    BY BoundaryLengths
  <2> HIDE DEF hits
  <2> QED BY <2>1, <2>2, FoundIsHit
<1>3. CASE e = Len(t)
  BY <1>1, <1>3
<1>4. CASE hits = {}
  BY <1>1, <1>2, <1>4
<1>5. CASE ~ (e = Len(t) \/ hits = {})
  <2>1. hits \subseteq Nat
    BY BoundaryLengths
  <2>2. k \in hits /\ \A j \in hits : k <= j
    BY <1>5, <2>1, MinIsLeast
  <2>3. k \in 1..3 /\ found # {}
    BY <2>2, BoundaryLengths
  <2>4. Len(K!Boundaries[k]) \in 1..2
    BY <2>3, BoundaryLengths
  <2>5. /\ \A p \in found : p \in Nat /\ p <= ChunkSize /\ s + p \in Hits(t, s, K!Boundaries[k])
        /\ \A a \in Hits(t, s, K!Boundaries[k]) : a - s \in found
    BY <2>4, FoundIsHit
  <2>6. K!CutAt(t, s) = s + K!Max(found) + Len(K!Boundaries[k])
    BY <1>1, <1>5
  <2> HIDE DEF found, k, hits, e
  <2>7. K!Max(found) \in found /\ \A p \in found : p <= K!Max(found)
    <3>1. found \subseteq Nat /\ ChunkSize \in Nat
      BY <2>5 DEF Splittable
    <3> QED BY <2>3, <2>5, <3>1, MaxIsGreatest
  <2>8. PICK a : a = s + K!Max(found)
    OBVIOUS
  <2>9. a \in Nat /\ a \in Hits(t, s, K!Boundaries[k])
    BY <2>5, <2>7, <2>8
  <2>10. K!CutAt(t, s) = a + Len(K!Boundaries[k])
    BY <2>6, <2>8
  <2>11. \A c \in Hits(t, s, K!Boundaries[k]) : c <= a
    <3> SUFFICES ASSUME NEW c \in Hits(t, s, K!Boundaries[k]) PROVE c <= a
      OBVIOUS
    <3>1. c \in Nat /\ c - s \in found /\ c - s <= K!Max(found) /\ K!Max(found) \in Nat
      BY <2>5, <2>7 DEF Hits
    <3> QED BY <2>8, <3>1
  <2>12. \A j \in 1..3 : Hits(t, s, K!Boundaries[j]) # {} => k <= j
    BY <1>2, <2>2
  <2>13. CutsAfter(t, s, k, a)
    BY <2>9, <2>10, <2>11, <2>12 DEF CutsAfter
  <2> QED BY <2>3, <2>9, <2>13
<1> QED BY <1>3, <1>4, <1>5

\* The last window is taken whole.
LEMMA CutAtEnd ==
  ASSUME NEW t, NEW s, End(t, s) = Len(t) PROVE K!CutAt(t, s) = Len(t)
BY DEF K!CutAt, End

LEMMA HitFacts ==
  ASSUME Splittable, NEW t \in Text, NEW s \in Nat,
         NEW k \in 1..3, NEW a \in Hits(t, s, K!Boundaries[k])
  PROVE  a \in Nat /\ s + 1 <= a /\ a + Len(K!Boundaries[k]) <= End(t, s)
BY HalfIsLess DEF Hits

LEMMA CutFacts ==
  ASSUME Splittable, NEW t \in Text, NEW s \in Nat, s < Len(t)
  PROVE  /\ K!CutAt(t, s) \in Nat
         /\ s < K!CutAt(t, s) /\ K!CutAt(t, s) <= Len(t)
         /\ K!CutAt(t, s) <= s + ChunkSize
         /\ K!CutAt(t, s) <= End(t, s)
<1>1. /\ Len(t) \in Nat /\ ChunkSize \in Nat /\ ChunkSize > 0
      /\ End(t, s) \in Nat /\ s < End(t, s)
      /\ End(t, s) <= s + ChunkSize /\ End(t, s) <= Len(t)
  <2>1. Len(t) \in Nat /\ ChunkSize \in Nat /\ ChunkSize > 0
    BY DEF Text, Splittable
  <2>2. /\ End(t, s) \in Nat /\ End(t, s) <= s + ChunkSize /\ End(t, s) <= Len(t)
        /\ End(t, s) = s + ChunkSize \/ End(t, s) = Len(t)
    BY EndFacts
  <2> QED BY <2>1, <2>2
<1>2. CASE K!CutAt(t, s) = End(t, s)
  BY <1>1, <1>2
<1>3. ASSUME NEW k \in 1..3, NEW a \in Nat, CutsAfter(t, s, k, a)
      PROVE  K!CutAt(t, s) \in Nat /\ s < K!CutAt(t, s) /\ K!CutAt(t, s) <= End(t, s)
  <2>1. /\ s + 1 <= a /\ a + Len(K!Boundaries[k]) <= End(t, s)
        /\ K!CutAt(t, s) = a + Len(K!Boundaries[k])
    BY <1>3, HitFacts DEF CutsAfter
  <2>2. Len(K!Boundaries[k]) \in 1..2
    BY BoundaryLengths
  <2> QED BY <1>1, <2>1, <2>2
<1>4. CASE \E k \in 1..3, a \in Nat : CutsAfter(t, s, k, a)
  <2>1. K!CutAt(t, s) \in Nat /\ s < K!CutAt(t, s) /\ K!CutAt(t, s) <= End(t, s)
    BY <1>3, <1>4
  <2> QED BY <1>1, <2>1
<1> QED BY <1>2, <1>4, CutCases

LEMMA NextFacts ==
  ASSUME Splittable, NEW t \in Text, NEW s \in Nat, s < Len(t)
  PROVE  LET cut == K!CutAt(t, s)
             next == K!NextStart(s, cut)
         IN  /\ next \in Nat /\ s < next /\ next <= cut
             /\ next = cut \/ next = cut - Overlap
BY CutFacts DEF K!NextStart, Splittable, Text

LEMMA StrippedFacts ==
  ASSUME NEW t \in Text, NEW s \in Nat, NEW e \in Nat, s < e, e <= Len(t)
  PROVE  \/ /\ K!Stripped(t, s, e) = <<>>
            /\ \A p \in s+1..e : t[p] \in K!Blank
         \/ \E x \in Piece :
              /\ K!Stripped(t, s, e) = <<x>>
              /\ s < x.from /\ x.from <= x.to /\ x.to <= e
              /\ t[x.from] \notin K!Blank /\ t[x.to] \notin K!Blank
              /\ \A p \in s+1..e : t[p] \notin K!Blank => x.from <= p /\ p <= x.to
<1> DEFINE solid == {i \in s+1..e : t[i] \notin K!Blank}
           x == [from |-> K!Min(solid), to |-> K!Max(solid)]
<1>1. K!Stripped(t, s, e) = IF solid = {} THEN <<>> ELSE <<x>>
  BY DEF K!Stripped
<1>2. CASE solid = {}
  BY <1>1, <1>2
<1>3. CASE solid # {}
  <2>1. solid \subseteq Nat /\ \A n \in solid : n <= e
    OBVIOUS
  <2>2. K!Min(solid) \in solid /\ \A n \in solid : K!Min(solid) <= n
    BY <1>3, <2>1, MinIsLeast
  <2>3. K!Max(solid) \in solid /\ \A n \in solid : n <= K!Max(solid)
    BY <1>3, <2>1, MaxIsGreatest
  <2>4. x \in Piece /\ x.from = K!Min(solid) /\ x.to = K!Max(solid)
    BY <2>1, <2>2, <2>3 DEF Piece
  <2>5. K!Stripped(t, s, e) = <<x>>
    BY <1>1, <1>3
  <2> HIDE DEF x
  <2>6. /\ s < x.from /\ x.from <= x.to /\ x.to <= e
        /\ t[x.from] \notin K!Blank /\ t[x.to] \notin K!Blank
    BY <2>2, <2>3, <2>4
  <2>7. \A p \in s+1..e : t[p] \notin K!Blank => x.from <= p /\ p <= x.to
    BY <2>2, <2>3, <2>4
  <2> QED BY <2>4, <2>5, <2>6, <2>7
<1> QED BY <1>2, <1>3

-----------------------------------------------------------------------------
(* The recursion: `from` of Split is the function that satisfies it.       *)

Starts(t) == 0..Len(t) + Overlap

\* What Split's recursion asks of g at s.
Step(t, g, s) ==
  IF s >= Len(t) THEN <<>>
  ELSE K!Stripped(t, s, K!CutAt(t, s)) \o g[K!NextStart(s, K!CutAt(t, s))]

LEMMA StrippedIsSeq ==
  ASSUME NEW t \in Text, NEW s \in Nat, NEW e \in Nat, s < e, e <= Len(t)
  PROVE  K!Stripped(t, s, e) \in Seq(Piece)
<1>1. CASE K!Stripped(t, s, e) = <<>>
  BY <1>1
<1>2. CASE \E x \in Piece : K!Stripped(t, s, e) = <<x>>
  BY <1>2
<1> QED BY <1>1, <1>2, StrippedFacts

LEMMA NextIsLater ==
  ASSUME Splittable, NEW t \in Text, NEW s \in Starts(t), s < Len(t)
  PROVE  /\ K!NextStart(s, K!CutAt(t, s)) \in Starts(t)
         /\ s < K!NextStart(s, K!CutAt(t, s))
<1>1. s \in Nat /\ Len(t) \in Nat /\ Overlap \in Nat
  BY DEF Starts, Text, Splittable
<1> QED BY <1>1, NextFacts, CutFacts DEF Starts

LEMMA StepIsSeq ==
  ASSUME Splittable, NEW t \in Text, NEW s \in Starts(t), NEW g,
         s < Len(t) => g[K!NextStart(s, K!CutAt(t, s))] \in Seq(Piece)
  PROVE  Step(t, g, s) \in Seq(Piece)
<1>1. s \in Nat /\ Len(t) \in Nat
  BY DEF Starts, Text, Splittable
<1>2. CASE s >= Len(t)
  BY <1>2 DEF Step
<1>3. CASE s < Len(t)
  <2>1. K!Stripped(t, s, K!CutAt(t, s)) \in Seq(Piece)
    BY <1>1, <1>3, CutFacts, StrippedIsSeq
  <2>2. Step(t, g, s) = K!Stripped(t, s, K!CutAt(t, s)) \o g[K!NextStart(s, K!CutAt(t, s))]
    BY <1>1, <1>3 DEF Step
  <2> QED BY <1>3, <2>1, <2>2, ConcatProperties
<1> QED BY <1>1, <1>2, <1>3

\* A solution can be built from the end of the text.
LEMMA RecursionHasSolution ==
  ASSUME Splittable, NEW t \in Text
  PROVE  \E g : g = [s \in Starts(t) |-> Step(t, g, s)]
<1> DEFINE F == [Starts(t) -> Seq(Piece)]
           Solves(g, k) == \A s \in Starts(t) : s + k >= Len(t) => g[s] = Step(t, g, s)
           T == {k \in Nat : \E g \in F : Solves(g, k)}
<1>0. Len(t) \in Nat /\ Starts(t) \subseteq Nat /\ 0 \in Starts(t)
  BY DEF Text, Starts, Splittable
<1>1. 0 \in T
  <2>1. [s \in Starts(t) |-> <<>>] \in F
    OBVIOUS
  <2>2. Solves([s \in Starts(t) |-> <<>>], 0)
    BY <1>0 DEF Step
  <2> QED BY <2>1, <2>2
<1>2. ASSUME NEW k \in Nat, k \in T PROVE k + 1 \in T
  <2>1. PICK g \in F : Solves(g, k)
    BY <1>2
  <2>2. CASE k >= Len(t)
    <3>1. Solves(g, k + 1)
      BY <1>0, <2>1, <2>2
    <3> QED BY <3>1
  <2>3. CASE k < Len(t)
    <3> DEFINE x == Len(t) - (k + 1)
               h == [g EXCEPT ![x] = Step(t, g, x)]
    <3>1. x \in Starts(t) /\ x < Len(t) /\ x \in Nat
      BY <1>0, <2>3 DEF Starts, Splittable
    <3>2. Step(t, g, x) \in Seq(Piece)
      BY <2>1, <3>1, NextIsLater, StepIsSeq
    <3>3. h \in F /\ h[x] = Step(t, g, x) /\ \A s \in Starts(t) : s # x => h[s] = g[s]
      BY <2>1, <3>1, <3>2
    <3>4. \A s \in Starts(t) : s >= x => Step(t, h, s) = Step(t, g, s)
      <4> SUFFICES ASSUME NEW s \in Starts(t), s >= x PROVE Step(t, h, s) = Step(t, g, s)
        OBVIOUS
      <4>1. CASE s >= Len(t)
        BY <4>1 DEF Step
      <4>2. CASE s < Len(t)
        <5>1. /\ K!NextStart(s, K!CutAt(t, s)) \in Starts(t)
              /\ s < K!NextStart(s, K!CutAt(t, s))
          BY <4>2, NextIsLater
        <5>2. h[K!NextStart(s, K!CutAt(t, s))] = g[K!NextStart(s, K!CutAt(t, s))]
          <6> HIDE DEF h
          <6> QED BY <1>0, <3>1, <3>3, <5>1
        <5> QED BY <5>2 DEF Step
      <4> QED BY <1>0, <4>1, <4>2
    <3> HIDE DEF h, F
    <3>5. ASSUME NEW s \in Starts(t), s + (k + 1) >= Len(t) PROVE h[s] = Step(t, h, s)
      <4>1. s \in Nat /\ s >= x
        BY <1>0, <3>5
      <4>2. CASE s = x
        BY <3>1, <3>3, <3>4, <4>2, <4>1
      <4>3. CASE s # x
        <5>1. s + k >= Len(t)
          BY <1>0, <4>1, <4>3
        <5> QED BY <2>1, <3>3, <3>4, <4>1, <4>3, <5>1
      <4> QED BY <4>2, <4>3
    <3>6. h \in F /\ Solves(h, k + 1)
      BY <3>3, <3>5
    <3> QED BY <3>6
  <2>4. k >= Len(t) \/ k < Len(t)
    BY <1>0
  <2> HIDE DEF T
  <2> QED BY <2>2, <2>3, <2>4
<1> HIDE DEF T
<1>3. Len(t) \in T
  BY <1>0, <1>1, <1>2, EveryNumber
<1>4. PICK g \in F : Solves(g, Len(t))
  BY <1>3 DEF T
<1>5. \A s \in Starts(t) : g[s] = Step(t, g, s)
  BY <1>0, <1>4
<1>6. g = [s \in Starts(t) |-> Step(t, g, s)]
  BY <1>4, <1>5
<1> QED BY <1>6

LEMMA SplitIsRecursive ==
  ASSUME Splittable, NEW t \in Text
  PROVE  \E g : /\ K!Split(t) = g[0]
                /\ \A s \in Starts(t) : g[s] = Step(t, g, s)
<1> DEFINE g == CHOOSE f : f = [s \in Starts(t) |-> Step(t, f, s)]
<1>1. g = [s \in Starts(t) |-> Step(t, g, s)]
  BY RecursionHasSolution
<1>2. K!Split(t) = g[0]
  BY DEF K!Split, Step, Starts
<1> HIDE DEF g
<1>3. \A s \in Starts(t) : g[s] = Step(t, g, s)
  BY <1>1
<1> QED BY <1>2, <1>3

-----------------------------------------------------------------------------
(* What Split promises of the text after s.                                *)

Solid(t, p) == t[p] \notin K!Blank

\* Chunks hold text, and no more than the embedding model takes.
InLimits(t, c, s) ==
  \A i \in DOMAIN c :
    /\ s < c[i].from /\ c[i].from <= c[i].to /\ c[i].to <= Len(t)
    /\ c[i].to < c[i].from + ChunkSize
    /\ Solid(t, c[i].from)

\* They begin in the order of the text, and every word is in one of them.
Covers(t, c, s) ==
  /\ \A i \in DOMAIN c \ {1} : c[i - 1].from <= c[i].from
  /\ \A p \in s+1..Len(t) :
       Solid(t, p) => \E i \in DOMAIN c : p \in c[i].from..c[i].to

\* They end in its order too, none before its own window has.
EndsInOrder(t, c, s) ==
  /\ \A i \in DOMAIN c \ {1} : c[i - 1].to <= c[i].to
  /\ \A i \in DOMAIN c, p \in s+1..Len(t) :
       Solid(t, p) /\ p <= K!CutAt(t, s) => p <= c[i].to

Good(t, c, s) ==
  /\ c \in Seq(Piece)
  /\ InLimits(t, c, s)
  /\ Covers(t, c, s)
  /\ EndsInOrder(t, c, s)

LEMMA ConsFacts ==
  ASSUME NEW x \in Piece, NEW d \in Seq(Piece)
  PROVE  LET c == <<x>> \o d IN
         /\ c \in Seq(Piece) /\ Len(c) = Len(d) + 1 /\ DOMAIN c = 1..Len(d) + 1
         /\ Len(d) \in Nat /\ DOMAIN d = 1..Len(d)
         /\ c[1] = x
         /\ \A i \in DOMAIN d : c[i + 1] = d[i]
         /\ \A i \in DOMAIN c \ {1} : i - 1 \in DOMAIN d /\ c[i] = d[i - 1]
<1>1. <<x>> \in Seq(Piece) /\ Len(<<x>>) = 1 /\ <<x>>[1] = x
  OBVIOUS
<1>2. PICK c : c = <<x>> \o d
  OBVIOUS
<1>3. /\ c \in Seq(Piece) /\ Len(c) = 1 + Len(d)
      /\ \A i \in 1..1 + Len(d) : c[i] = IF i <= 1 THEN <<x>>[i] ELSE d[i - 1]
  BY <1>1, <1>2, ConcatProperties
<1>4. Len(d) \in Nat /\ DOMAIN d = 1..Len(d) /\ DOMAIN c = 1..Len(d) + 1
  BY <1>3, LenProperties
<1>5. c[1] = x
  BY <1>1, <1>3, <1>4
<1>6. \A i \in DOMAIN d : c[i + 1] = d[i]
  BY <1>3, <1>4
<1>7. \A i \in DOMAIN c \ {1} : i - 1 \in DOMAIN d /\ c[i] = d[i - 1]
  BY <1>3, <1>4
<1> QED BY <1>2, <1>3, <1>4, <1>5, <1>6, <1>7

\* A boundary past the middle of a window is past the middle of an earlier one
\* that reaches it.
LEMMA HitsOfEarlier ==
  ASSUME Splittable, NEW t \in Text, NEW s \in Nat, NEW n \in Nat, s <= n,
         NEW k \in 1..3, NEW a \in Hits(t, n, K!Boundaries[k]),
         a + Len(K!Boundaries[k]) <= End(t, s)
  PROVE  a \in Hits(t, s, K!Boundaries[k])
<1>1. ChunkSize \div 2 \in Nat /\ a \in Nat /\ n + ChunkSize \div 2 + 1 <= a
  BY HalfIsLess DEF Hits
<1>2. s + ChunkSize \div 2 + 1 <= a
  BY <1>1
<1> QED BY <1>1, <1>2 DEF Hits

\* It is past the middle of a later one that begins before it, unless it comes
\* before all that are.
LEMMA HitsOfLater ==
  ASSUME Splittable, NEW t \in Text, NEW s \in Nat, NEW n \in Nat, s <= n,
         NEW k \in 1..3, NEW a \in Hits(t, s, K!Boundaries[k]),
         NEW j \in 1..3, NEW c \in Hits(t, n, K!Boundaries[j]), c <= a
  PROVE  a \in Hits(t, n, K!Boundaries[k])
<1>1. /\ ChunkSize \div 2 \in Nat /\ a \in Nat /\ c \in Nat
      /\ n + ChunkSize \div 2 + 1 <= c
      /\ a + Len(K!Boundaries[k]) <= End(t, s)
  BY HalfIsLess DEF Hits
<1>2. n + ChunkSize \div 2 + 1 <= a
  BY <1>1
<1>3. End(t, s) <= End(t, n)
  BY EndsGrow
<1>4. a + Len(K!Boundaries[k]) <= End(t, n)
  <2>1. Len(K!Boundaries[k]) \in Nat /\ End(t, s) \in Nat /\ End(t, n) \in Nat
    BY BoundaryLengths, EndFacts
  <2> QED BY <1>1, <1>3, <2>1
<1> QED BY <1>1, <1>2, <1>4 DEF Hits

\* A window's cut is not before the one of the window that overlaps it.
LEMMA CutsInOrder ==
  ASSUME Splittable, NEW t \in Text, NEW s \in Nat, NEW n \in Nat, s <= n, n < Len(t)
  PROVE  K!CutAt(t, s) <= K!CutAt(t, n)
<1>1. /\ Len(t) \in Nat /\ ChunkSize \in Nat
      /\ End(t, s) \in Nat /\ End(t, n) \in Nat /\ End(t, s) <= End(t, n)
  BY EndsGrow DEF Text, Splittable
<1>2. K!CutAt(t, s) \in Nat /\ K!CutAt(t, s) <= End(t, s) /\ K!CutAt(t, n) \in Nat
  BY <1>1, CutFacts
<1>3. CASE K!CutAt(t, n) = End(t, n)
  BY <1>1, <1>2, <1>3
<1>4. CASE \E j \in 1..3, c \in Nat : CutsAfter(t, n, j, c)
  <2>1. PICK j \in 1..3, c \in Nat : CutsAfter(t, n, j, c)
    BY <1>4
  <2>2. /\ c \in Hits(t, n, K!Boundaries[j])
        /\ K!CutAt(t, n) = c + Len(K!Boundaries[j])
        /\ \A b \in Hits(t, n, K!Boundaries[j]) : b <= c
        /\ \A i \in 1..3 : Hits(t, n, K!Boundaries[i]) # {} => j <= i
    BY <2>1 DEF CutsAfter
  <2>3. Len(K!Boundaries[j]) \in 1..2
    BY BoundaryLengths
  <2>4. CASE c + Len(K!Boundaries[j]) > End(t, s)
    BY <1>1, <1>2, <2>2, <2>3, <2>4
  <2>5. CASE c + Len(K!Boundaries[j]) <= End(t, s)
    <3>1. c \in Hits(t, s, K!Boundaries[j])
      BY <2>2, <2>5, HitsOfEarlier
    <3>2. CASE End(t, s) = Len(t) /\ K!CutAt(t, s) = End(t, s)
      \* Then the later window is the last one too.
      <4>1. End(t, n) = Len(t)
        BY <1>1, <3>2, EndFacts
      <4> QED BY <1>1, <1>2, <2>2, <3>2, <4>1, CutAtEnd
    <3>3. CASE \E k \in 1..3, a \in Nat : CutsAfter(t, s, k, a)
      <4>1. PICK k \in 1..3, a \in Nat : CutsAfter(t, s, k, a)
        BY <3>3
      <4>2. /\ a \in Hits(t, s, K!Boundaries[k])
            /\ K!CutAt(t, s) = a + Len(K!Boundaries[k])
            /\ \A b \in Hits(t, s, K!Boundaries[k]) : b <= a
            /\ \A i \in 1..3 : Hits(t, s, K!Boundaries[i]) # {} => k <= i
        BY <4>1 DEF CutsAfter
      <4>3. k <= j /\ Len(K!Boundaries[k]) \in 1..2
        BY <3>1, <4>2, BoundaryLengths
      <4>4. CASE a < c
        <5>1. a + Len(K!Boundaries[k]) <= c + Len(K!Boundaries[j])
          <6>1. PICK x \in 1..2 : x = Len(K!Boundaries[k])
            BY <4>3
          <6>2. PICK y \in 1..2 : y = Len(K!Boundaries[j])
            BY <2>3
          <6>3. a + x <= c + y
            BY <4>4
          <6> QED BY <6>1, <6>2, <6>3
        <5> QED BY <2>2, <4>2, <5>1
      <4>5. CASE c <= a
        <5>1. a \in Hits(t, n, K!Boundaries[k])
          BY <2>2, <4>2, <4>5, HitsOfLater
        <5>2. j <= k
          BY <2>2, <5>1
        <5>3. j = k
          BY <4>3, <5>2
        <5>4. a = c
          BY <2>2, <4>5, <5>1, <5>3
        <5> QED BY <1>2, <2>2, <4>2, <5>3, <5>4
      <4> QED BY <4>4, <4>5
    <3>4. ~ \A i \in 1..3 : Hits(t, s, K!Boundaries[i]) = {}
      BY <3>1
    <3> QED BY <3>2, <3>3, <3>4, CutCases
  <2> QED BY <1>1, <2>2, <2>3, <2>4, <2>5
<1> QED BY <1>3, <1>4, CutCases

LEMMA GoodBase ==
  ASSUME NEW t \in Text, NEW s \in Nat, s >= Len(t)
  PROVE  Good(t, <<>>, s)
<1>1. DOMAIN <<>> = {}
  OBVIOUS
<1>2. <<>> \in Seq(Piece) /\ s + 1..Len(t) = {}
  BY DEF Text
<1> QED BY <1>1, <1>2 DEF Good, InLimits, Covers, EndsInOrder

LEMMA GoodStep ==
  ASSUME Splittable, NEW t \in Text, NEW s \in Nat, s < Len(t),
         NEW n, n = K!NextStart(s, K!CutAt(t, s)),
         NEW d, Good(t, d, n)
  PROVE  Good(t, K!Stripped(t, s, K!CutAt(t, s)) \o d, s)
<1> DEFINE cut == K!CutAt(t, s)
<1>1. /\ cut \in Nat /\ s < cut /\ cut <= Len(t) /\ cut <= s + ChunkSize
      /\ n \in Nat /\ s < n /\ n <= cut
  BY CutFacts, NextFacts
<1>2. Len(t) \in Nat /\ ChunkSize \in Nat
  BY DEF Splittable, Text
<1>3. n < Len(t) => cut <= K!CutAt(t, n) /\ K!CutAt(t, n) \in Nat
  BY <1>1, CutsInOrder, CutFacts
<1>4. d \in Seq(Piece) /\ InLimits(t, d, n) /\ Covers(t, d, n)
      /\ EndsInOrder(t, d, n)
  BY DEF Good
<1>5. \A i \in DOMAIN d : d[i] \in Piece /\ d[i].from \in Nat /\ d[i].to \in Nat
  <2>1. DOMAIN d = 1..Len(d)
    BY <1>4, LenProperties
  <2>2. \A i \in DOMAIN d : d[i] \in Piece
    BY <1>4, <2>1, ElementOfSeq
  <2> QED BY <2>2 DEF Piece
<1>b. \A i \in DOMAIN d :
        /\ n < d[i].from /\ d[i].from <= d[i].to /\ d[i].to <= Len(t)
        /\ d[i].to < d[i].from + ChunkSize /\ Solid(t, d[i].from)
  BY <1>4 DEF InLimits
<1> HIDE DEF cut
<1>6. CASE /\ K!Stripped(t, s, cut) = <<>>
           /\ \A p \in s+1..cut : t[p] \in K!Blank
  <2>1. K!Stripped(t, s, cut) \o d = d
    BY <1>4, <1>6, ConcatEmptySeq
  <2>2. InLimits(t, d, s)
    BY <1>1, <1>5, <1>b DEF InLimits
  <2>3. \A p \in s+1..Len(t) : Solid(t, p) => p > cut /\ p \in n+1..Len(t)
    BY <1>1, <1>2, <1>6 DEF Solid
  <2>4. Covers(t, d, s)
    BY <1>4, <2>3 DEF Covers
  <2>5. EndsInOrder(t, d, s)
    <3>1. \A p \in s+1..Len(t) : Solid(t, p) => ~ (p <= cut)
      BY <1>1, <1>2, <2>3
    <3> QED BY <1>4, <3>1 DEF EndsInOrder, cut
  <2> QED BY <1>4, <2>1, <2>2, <2>4, <2>5 DEF Good, cut
<1>7. CASE \E x \in Piece :
             /\ K!Stripped(t, s, cut) = <<x>>
             /\ s < x.from /\ x.from <= x.to /\ x.to <= cut
             /\ t[x.from] \notin K!Blank /\ t[x.to] \notin K!Blank
             /\ \A p \in s+1..cut : t[p] \notin K!Blank => x.from <= p /\ p <= x.to
  <2>1. PICK x \in Piece :
             /\ K!Stripped(t, s, cut) = <<x>>
             /\ s < x.from /\ x.from <= x.to /\ x.to <= cut
             /\ Solid(t, x.from) /\ Solid(t, x.to)
             /\ \A p \in s+1..cut : Solid(t, p) => x.from <= p /\ p <= x.to
    BY <1>7 DEF Solid
  <2>2. x.from \in Nat /\ x.to \in Nat
    BY DEF Piece
  <2>3. PICK c : c = <<x>> \o d
    OBVIOUS
  <2>4. /\ c \in Seq(Piece) /\ DOMAIN c = 1..Len(d) + 1
        /\ Len(d) \in Nat /\ DOMAIN d = 1..Len(d)
        /\ c[1] = x
        /\ \A i \in DOMAIN d : c[i + 1] = d[i]
        /\ \A i \in DOMAIN c \ {1} : i - 1 \in DOMAIN d /\ c[i] = d[i - 1]
    BY <1>4, <2>3, ConsFacts
  <2>5. InLimits(t, c, s)
    <3> SUFFICES ASSUME NEW i \in DOMAIN c
                 PROVE  /\ s < c[i].from /\ c[i].from <= c[i].to /\ c[i].to <= Len(t)
                        /\ c[i].to < c[i].from + ChunkSize
                        /\ Solid(t, c[i].from)
      BY DEF InLimits
    <3>1. CASE i = 1
      BY <1>1, <1>2, <2>1, <2>2, <2>4, <3>1
    <3>2. CASE i # 1
      <4>1. i - 1 \in DOMAIN d /\ c[i] = d[i - 1]
        BY <2>4, <3>2
      <4> QED BY <1>1, <1>5, <1>b, <4>1
    <3> QED BY <3>1, <3>2
  <2>6. \A i \in DOMAIN d : x.from <= d[i].from
    <3> SUFFICES ASSUME NEW i \in DOMAIN d PROVE x.from <= d[i].from
      OBVIOUS
    <3>1. CASE d[i].from <= cut
      <4>1. d[i].from \in s+1..cut
        BY <1>1, <1>5, <1>b, <3>1
      <4> QED BY <1>b, <2>1, <4>1
    <3>2. CASE d[i].from > cut
      BY <1>1, <1>5, <2>1, <2>2, <3>2
    <3> QED BY <1>1, <1>5, <3>1, <3>2
  <2>7. Covers(t, c, s)
    <3>1. ASSUME NEW i \in DOMAIN c \ {1} PROVE c[i - 1].from <= c[i].from
      <4>1. i - 1 \in DOMAIN d /\ c[i] = d[i - 1]
        BY <2>4
      <4>2. CASE i - 1 = 1
        BY <2>4, <2>6, <4>1, <4>2
      <4>3. CASE i - 1 # 1
        <5>1. i - 1 \in DOMAIN d \ {1} /\ i - 1 \in DOMAIN c \ {1}
          BY <2>4, <4>1, <4>3
        <5>2. c[i - 1] = d[(i - 1) - 1]
          BY <2>4, <5>1
        <5> QED BY <1>4, <4>1, <5>1, <5>2 DEF Covers
      <4> QED BY <4>2, <4>3
    <3>2. ASSUME NEW p \in s+1..Len(t), Solid(t, p)
          PROVE  \E i \in DOMAIN c : p \in c[i].from..c[i].to
      <4>1. CASE p <= cut
        <5>1. p \in s+1..cut
          BY <1>1, <1>2, <4>1
        <5>2. x.from <= p /\ p <= x.to
          BY <2>1, <3>2, <5>1
        <5>3. 1 \in DOMAIN c /\ p \in c[1].from..c[1].to
          BY <2>2, <2>4, <5>1, <5>2
        <5> QED BY <5>3
      <4>2. CASE p > cut
        <5>1. p \in n+1..Len(t)
          BY <1>1, <1>2, <4>2
        <5>2. PICK i \in DOMAIN d : p \in d[i].from..d[i].to
          BY <1>4, <3>2, <5>1 DEF Covers
        <5>3. i + 1 \in DOMAIN c /\ c[i + 1] = d[i]
          BY <2>4
        <5> QED BY <5>2, <5>3
      <4> QED BY <1>1, <1>2, <4>1, <4>2
    <3> QED BY <3>1, <3>2 DEF Covers
  <2>8. EndsInOrder(t, c, s)
    <3>0. /\ \A i \in DOMAIN d \ {1} : d[i - 1].to <= d[i].to
          /\ \A i \in DOMAIN d, p \in n+1..Len(t) :
               Solid(t, p) /\ p <= K!CutAt(t, n) => p <= d[i].to
      BY <1>4 DEF EndsInOrder
    <3>1. ASSUME NEW i \in DOMAIN d, NEW p \in s+1..cut, Solid(t, p) PROVE p <= d[i].to
      <4>1. CASE p <= n
        BY <1>1, <1>5, <1>b, <4>1
      <4>2. CASE p > n
        <5>1. n < Len(t) /\ p \in n+1..Len(t)
          BY <1>1, <1>2, <4>2
        <5>2. p <= K!CutAt(t, n)
          BY <1>1, <1>3, <5>1
        <5> QED BY <3>0, <3>1, <5>1, <5>2
      <4> QED BY <1>1, <4>1, <4>2
    <3>2. x.to \in s+1..cut
      BY <1>1, <2>1, <2>2
    <3>3. \A i \in DOMAIN d : x.to <= d[i].to
      BY <2>1, <3>1, <3>2
    <3>4. ASSUME NEW i \in DOMAIN c \ {1} PROVE c[i - 1].to <= c[i].to
      <4>1. i - 1 \in DOMAIN d /\ c[i] = d[i - 1]
        BY <2>4
      <4>2. CASE i - 1 = 1
        BY <2>4, <3>3, <4>1, <4>2
      <4>3. CASE i - 1 # 1
        <5>1. i - 1 \in DOMAIN d \ {1} /\ i - 1 \in DOMAIN c \ {1}
          BY <2>4, <4>1, <4>3
        <5>2. c[i - 1] = d[(i - 1) - 1]
          BY <2>4, <5>1
        <5> QED BY <3>0, <4>1, <5>1, <5>2
      <4> QED BY <4>2, <4>3
    <3>5. ASSUME NEW i \in DOMAIN c, NEW p \in s+1..Len(t), Solid(t, p), p <= cut
          PROVE  p <= c[i].to
      <4>1. p \in s+1..cut
        BY <1>1, <1>2, <3>5
      <4>2. CASE i = 1
        BY <2>1, <2>4, <3>5, <4>1, <4>2
      <4>3. CASE i # 1
        BY <2>4, <3>1, <3>5, <4>1, <4>3
      <4> QED BY <4>2, <4>3
    <3> QED BY <3>4, <3>5 DEF EndsInOrder, cut
  <2>9. K!Stripped(t, s, cut) \o d = c
    BY <2>1, <2>3
  <2> QED BY <2>4, <2>5, <2>7, <2>8, <2>9 DEF Good, cut
<1> QED
  <2>1. s < cut /\ cut \in Nat /\ cut <= Len(t)
    BY <1>1
  <2> QED BY <1>6, <1>7, <2>1, StrippedFacts

LEMMA SplitIsGood ==
  ASSUME Splittable, NEW t \in Text
  PROVE  Good(t, K!Split(t), 0)
<1>0. Len(t) \in Nat /\ Starts(t) \subseteq Nat /\ 0 \in Starts(t)
  BY DEF Text, Starts, Splittable
<1>1. PICK g : /\ K!Split(t) = g[0]
               /\ \A s \in Starts(t) : g[s] = Step(t, g, s)
  BY SplitIsRecursive
<1> DEFINE T == {k \in Nat : \A s \in Starts(t) : s + k >= Len(t) => Good(t, g[s], s)}
<1>2. \A s \in Starts(t) : s >= Len(t) => Good(t, g[s], s)
  BY <1>0, <1>1, GoodBase DEF Step
<1>3. 0 \in T
  BY <1>0, <1>2
<1>4. ASSUME NEW k \in Nat, k \in T PROVE k + 1 \in T
  <2> SUFFICES ASSUME NEW s \in Starts(t), s + (k + 1) >= Len(t)
               PROVE  Good(t, g[s], s)
    OBVIOUS
  <2>1. CASE s >= Len(t)
    BY <1>2, <2>1
  <2>2. CASE s < Len(t)
    <3> DEFINE n == K!NextStart(s, K!CutAt(t, s))
    <3>1. n \in Starts(t) /\ s < n /\ n \in Nat /\ s \in Nat
      BY <1>0, <2>2, NextIsLater
    <3>2. n + k >= Len(t)
      BY <1>0, <3>1
    <3>3. Good(t, g[n], n)
      BY <1>4, <3>1, <3>2
    <3>4. g[s] = K!Stripped(t, s, K!CutAt(t, s)) \o g[n]
      <4>1. g[s] = Step(t, g, s)
        BY <1>1
      <4>2. ~ (s >= Len(t))
        BY <1>0, <2>2, <3>1
      <4> QED BY <4>1, <4>2 DEF Step
    <3> HIDE DEF n
    <3>5. Good(t, K!Stripped(t, s, K!CutAt(t, s)) \o g[n], s)
      BY <2>2, <3>1, <3>3, GoodStep DEF n
    <3> QED BY <3>4, <3>5
  <2> QED BY <1>0, <2>1, <2>2
<1> HIDE DEF T
<1>5. Len(t) \in T
  BY <1>0, <1>3, <1>4, EveryNumber
<1>6. Good(t, g[0], 0)
  BY <1>0, <1>5 DEF T
<1> QED BY <1>1, <1>6

-----------------------------------------------------------------------------
(* The documents.                                                          *)

Documents ==
  /\ Splittable
  /\ Texts \subseteq Text
  /\ Batch \in Nat

RowOk == [status : {"none", "pending", "ready", "failed"}, count : Nat]
JobOk == [pc : {"idle", "outbox", "embed", "failed", "committed"},
          via : {"none", "arq", "inline", "cli"},
          done : Nat, tries : Nat]

\* A document's chunks are none or those of its text, whole; nothing is done for
\* a document that was not uploaded.
DocOk(t, r, c, j) ==
  /\ t \in Text /\ r \in RowOk /\ j \in JobOk
  /\ c \in {<<>>, K!Split(t)}
  /\ r.status = "ready" => c = K!Split(t) /\ r.count = Len(c)
  /\ r.status = "none" => c = <<>> /\ j.pc = "idle"

IsMap(f) == f = [d \in Doc |-> f[d]]

DocInv ==
  /\ IsMap(text) /\ IsMap(row) /\ IsMap(chunks) /\ IsMap(job)
  /\ \A d \in Doc : DocOk(text[d], row[d], chunks[d], job[d])

LEMMA PiecesCount ==
  ASSUME Splittable, NEW t \in Text PROVE Len(K!Split(t)) \in Nat
BY SplitIsGood, LenProperties DEF Good

LEMMA IdleIsOk == K!Idle \in JobOk /\ K!Idle.pc = "idle"
BY DEF K!Idle, JobOk

LEMMA DocStart == ASSUME Documents, K!Init PROVE DocInv
<1>1. <<>> \in Text
  BY DEF Text
<1>2. ASSUME NEW d \in Doc PROVE DocOk(text[d], row[d], chunks[d], job[d])
  BY <1>1, IdleIsOk DEF K!Init, DocOk, RowOk
<1> QED BY <1>2 DEF K!Init, DocInv, IsMap

\* One document moves, the others stay.
LEMMA DocMoves ==
  ASSUME DocInv, NEW d \in Doc, NEW t, NEW r, NEW c, NEW j, DocOk(t, r, c, j),
         text' = [text EXCEPT ![d] = t], row' = [row EXCEPT ![d] = r],
         chunks' = [chunks EXCEPT ![d] = c], job' = [job EXCEPT ![d] = j]
  PROVE  DocInv'
<1>1. IsMap(text)' /\ IsMap(row)' /\ IsMap(chunks)' /\ IsMap(job)'
  BY DEF DocInv, IsMap
<1>2. ASSUME NEW e \in Doc PROVE DocOk(text'[e], row'[e], chunks'[e], job'[e])
  <2>1. CASE e = d
    <3>1. text'[e] = t /\ row'[e] = r /\ chunks'[e] = c /\ job'[e] = j
      BY <2>1 DEF DocInv, IsMap
    <3> QED BY <3>1
  <2>2. CASE e # d
    <3>1. text'[e] = text[e] /\ row'[e] = row[e] /\ chunks'[e] = chunks[e] /\ job'[e] = job[e]
      BY <2>2 DEF DocInv, IsMap
    <3> QED BY <3>1 DEF DocInv
  <2> QED BY <2>1, <2>2
<1> QED BY <1>1, <1>2 DEF DocInv

\* What a step leaves alone, it leaves alone everywhere.
LEMMA Stays ==
  ASSUME NEW f, IsMap(f), NEW d \in Doc PROVE f = [f EXCEPT ![d] = f[d]]
BY DEF IsMap

\* A step of the job alone.
LEMMA JobMoves ==
  ASSUME DocInv, NEW d \in Doc, NEW j \in JobOk,
         row[d].status = "none" => j.pc = "idle",
         job' = [job EXCEPT ![d] = j], UNCHANGED <<text, row, chunks>>
  PROVE  DocInv'
<1>1. DocOk(text[d], row[d], chunks[d], j)
  BY DEF DocInv, DocOk
<1>2. /\ text' = [text EXCEPT ![d] = text[d]]
      /\ row' = [row EXCEPT ![d] = row[d]]
      /\ chunks' = [chunks EXCEPT ![d] = chunks[d]]
  BY Stays DEF DocInv
<1> QED BY <1>1, <1>2, DocMoves

LEMMA UploadKeeps ==
  ASSUME Documents, DocInv, NEW d \in Doc, NEW t \in Texts,
         NEW via \in {"arq", "inline", "cli"}, K!Upload(d, t, via)
  PROVE  DocInv'
<1> DEFINE r == [status |-> "pending", count |-> 0]
           j == [pc |-> IF via = "arq" THEN "outbox" ELSE "embed", via |-> via,
                 done |-> 0, tries |-> 1]
<1>1. chunks[d] = <<>> /\ t \in Text
  BY DEF K!Upload, DocInv, DocOk, Documents
<1>2. DocOk(t, r, <<>>, j)
  BY <1>1 DEF DocOk, RowOk, JobOk
<1>3. /\ text' = [text EXCEPT ![d] = t] /\ row' = [row EXCEPT ![d] = r]
      /\ job' = [job EXCEPT ![d] = j] /\ chunks' = chunks
  BY DEF K!Upload
<1>4. chunks' = [chunks EXCEPT ![d] = <<>>]
  BY <1>1, <1>3, Stays DEF DocInv
<1> HIDE DEF r, j
<1> QED BY <1>2, <1>3, <1>4, DocMoves

\* The job after a step that changes its place, or that and its count of tries.
LEMMA JobFields ==
  ASSUME NEW j \in JobOk, NEW pc \in {"idle", "outbox", "embed", "failed", "committed"}
  PROVE  /\ [j EXCEPT !.pc = pc] \in JobOk
         /\ \A n \in Nat : /\ [j EXCEPT !.done = n] \in JobOk
                           /\ [j EXCEPT !.done = n].pc = j.pc
BY DEF JobOk

\* arq's next attempt.
LEMMA JobAgain ==
  ASSUME NEW j \in JobOk, NEW n \in Nat
  PROVE  [j EXCEPT !.pc = "embed", !.done = 0, !.tries = n] \in JobOk
BY DEF JobOk

\* `f EXCEPT ![d].pc` on a map is the record put back with its place changed.
LEMMA PlaceMoves ==
  ASSUME DocInv, NEW d \in Doc, job[d].pc # "idle",
         NEW pc \in {"idle", "outbox", "embed", "failed", "committed"},
         job' = [job EXCEPT ![d].pc = pc], UNCHANGED <<text, row, chunks>>
  PROVE  DocInv'
<1>1. job[d] \in JobOk /\ row[d].status # "none"
  BY DEF DocInv, DocOk
<1>2. PICK j : j = [job[d] EXCEPT !.pc = pc]
  OBVIOUS
<1>3. job' = [job EXCEPT ![d] = j] /\ j \in JobOk
  BY <1>1, <1>2, JobFields
<1> QED BY <1>1, <1>3, JobMoves

LEMMA IdleMoves ==
  ASSUME DocInv, NEW d \in Doc, job' = [job EXCEPT ![d] = K!Idle],
         UNCHANGED <<text, row, chunks>>
  PROVE  DocInv'
BY IdleIsOk, JobMoves

LEMMA EnqueueKeeps ==
  ASSUME DocInv, NEW d \in Doc, K!Enqueue(d) PROVE DocInv'
BY PlaceMoves, IdleMoves DEF K!Enqueue

LEMMA EmbedBatchKeeps ==
  ASSUME Documents, DocInv, NEW d \in Doc, K!EmbedBatch(d) PROVE DocInv'
<1>1. text[d] \in Text /\ job[d] \in JobOk /\ job[d].pc = "embed" /\ row[d].status # "none"
  BY DEF DocInv, DocOk, K!EmbedBatch
<1>2. Len(K!Pieces(d)) \in Nat
  BY <1>1, PiecesCount DEF K!Pieces, Documents
<1>3. job[d].done \in Nat
  BY <1>1 DEF JobOk
<1>4. PICK n : n = K!Min({job[d].done + Batch, Len(K!Pieces(d))})
  OBVIOUS
<1>5. n \in Nat
  <2>1. {job[d].done + Batch, Len(K!Pieces(d))} \subseteq Nat
    BY <1>2, <1>3 DEF Documents
  <2> QED BY <1>4, <2>1, MinIsLeast
<1>6. job' = [job EXCEPT ![d] = [job[d] EXCEPT !.done = n]] /\ UNCHANGED <<text, row, chunks>>
  BY <1>4 DEF K!EmbedBatch
<1>7. [job[d] EXCEPT !.done = n] \in JobOk
  BY <1>1, <1>5, JobFields
<1> QED BY <1>1, <1>6, <1>7, JobMoves

LEMMA StoreKeeps ==
  ASSUME Documents, DocInv, NEW d \in Doc, K!Store(d) PROVE DocInv'
<1>1. text[d] \in Text /\ job[d] \in JobOk /\ row[d].status # "none"
  BY DEF DocInv, DocOk, K!Store
<1>2. PICK c : c = K!Split(text[d])
  OBVIOUS
<1>3. Len(c) \in Nat
  BY <1>1, <1>2, PiecesCount DEF Documents
<1>4. PICK r : r = [status |-> "ready", count |-> Len(c)]
  OBVIOUS
<1>5. PICK j : j = [job[d] EXCEPT !.pc = "committed"]
  OBVIOUS
<1>6. r \in RowOk /\ r.status = "ready" /\ r.count = Len(c)
  BY <1>3, <1>4 DEF RowOk
<1>7. j \in JobOk
  BY <1>1, <1>5, JobFields
<1>8. DocOk(text[d], r, c, j)
  BY <1>1, <1>2, <1>6, <1>7 DEF DocOk
<1>9. /\ chunks' = [chunks EXCEPT ![d] = c] /\ row' = [row EXCEPT ![d] = r]
      /\ job' = [job EXCEPT ![d] = j] /\ text' = text
  BY <1>2, <1>4, <1>5 DEF K!Store, K!Pieces
<1>10. text' = [text EXCEPT ![d] = text[d]]
  BY <1>9, Stays DEF DocInv
<1> QED BY <1>8, <1>9, <1>10, DocMoves

LEMMA IngestFailsKeeps ==
  ASSUME DocInv, NEW d \in Doc, K!IngestFails(d) PROVE DocInv'
<1>1. CASE job[d].via = "cli"
  BY <1>1, IdleMoves DEF K!IngestFails
<1>2. CASE job[d].via # "cli"
  <2>1. job' = [job EXCEPT ![d].pc = "failed"]
    BY <1>2 DEF K!IngestFails
  <2> QED BY <2>1, PlaceMoves DEF K!IngestFails
<1> QED BY <1>1, <1>2

LEMMA RecordFailureKeeps ==
  ASSUME DocInv, NEW d \in Doc, K!RecordFailure(d) PROVE DocInv'
<1>1. DocOk(text[d], row[d], chunks[d], job[d]) /\ row[d].status # "none"
  BY DEF DocInv, DocOk, K!RecordFailure
<1>2. PICK r : r = [row[d] EXCEPT !.status = "failed"]
  OBVIOUS
<1>3. PICK j : j = [job[d] EXCEPT !.pc = "committed"]
  OBVIOUS
<1>4. r \in RowOk /\ r.status = "failed"
  BY <1>1, <1>2 DEF DocOk, RowOk
<1>5. j \in JobOk
  BY <1>1, <1>3, JobFields DEF DocOk
<1>6. DocOk(text[d], r, chunks[d], j)
  BY <1>1, <1>4, <1>5 DEF DocOk
<1>7. /\ row' = [row EXCEPT ![d] = r] /\ job' = [job EXCEPT ![d] = j]
      /\ UNCHANGED <<text, chunks>>
  BY <1>2, <1>3 DEF K!RecordFailure
<1>8. text' = [text EXCEPT ![d] = text[d]] /\ chunks' = [chunks EXCEPT ![d] = chunks[d]]
  BY <1>7, Stays DEF DocInv
<1> QED BY <1>6, <1>7, <1>8, DocMoves

LEMMA CrashKeeps ==
  ASSUME DocInv, NEW d \in Doc, K!Crash(d) PROVE DocInv'
<1>1. job[d] \in JobOk /\ row[d].status # "none"
  BY DEF DocInv, DocOk, K!Crash
<1>2. CASE job[d].via = "arq" /\ job[d].pc # "outbox" /\ job[d].tries < MaxTries
  <2>1. PICK j : j = [job[d] EXCEPT !.pc = "embed", !.done = 0, !.tries = job[d].tries + 1]
    OBVIOUS
  <2>2. j \in JobOk
    <3>1. job[d].tries + 1 \in Nat
      BY <1>1 DEF JobOk
    <3> QED BY <1>1, <2>1, <3>1, JobAgain
  <2>3. /\ UNCHANGED <<text, row, chunks>>
        /\ job' = [job EXCEPT ![d] =
             IF job[d].via = "arq" /\ job[d].pc # "outbox" /\ job[d].tries < MaxTries
               THEN [job[d] EXCEPT !.pc = "embed", !.done = 0, !.tries = job[d].tries + 1]
               ELSE K!Idle]
    BY DEF K!Crash
  <2>4. job' = [job EXCEPT ![d] = j]
    BY <1>2, <2>1, <2>3, Zenon
  <2> QED BY <1>1, <2>2, <2>3, <2>4, JobMoves
<1>3. CASE ~ (job[d].via = "arq" /\ job[d].pc # "outbox" /\ job[d].tries < MaxTries)
  BY <1>3, IdleMoves DEF K!Crash
<1> QED BY <1>2, <1>3

LEMMA DocStep ==
  ASSUME Documents, DocInv, [K!Next]_(K!vars) PROVE DocInv'
<1>1. CASE UNCHANGED K!vars
  BY <1>1 DEF K!vars, DocInv, IsMap
<1>2. ASSUME NEW d \in Doc, K!Announce(d) PROVE DocInv'
  BY <1>2, IdleMoves DEF K!Announce
<1>3. ASSUME NEW d \in Doc, K!TimesOut(d) PROVE DocInv'
  BY <1>3, IdleMoves DEF K!TimesOut
<1> QED BY <1>1, <1>2, <1>3, UploadKeeps, EnqueueKeeps, EmbedBatchKeeps, StoreKeeps,
           IngestFailsKeeps, RecordFailureKeeps, CrashKeeps DEF K!Next

LEMMA DocAlways == ASSUME Documents PROVE K!Spec => []DocInv
<1>1. K!Init => DocInv
  BY DocStart
<1>2. DocInv /\ [K!Next]_(K!vars) => DocInv'
  BY DocStep
<1> QED BY <1>1, <1>2, PTL DEF K!Spec

LEMMA DocChunks ==
  ASSUME Documents, DocInv, NEW d \in Doc,
         chunks[d] # <<>> \/ row[d].status = "ready"
  PROVE  /\ Good(text[d], chunks[d], 0)
         /\ DOMAIN text[d] = 1..Len(text[d])
         /\ row[d].status = "ready" => row[d].count = Len(chunks[d])
<1>1. DocOk(text[d], row[d], chunks[d], job[d])
  BY DEF DocInv
<1>2. text[d] \in Text /\ chunks[d] = K!Split(text[d])
  BY <1>1 DEF DocOk
<1>3. DOMAIN text[d] = 1..Len(text[d])
  BY <1>2, LenProperties DEF Text
<1> QED BY <1>1, <1>2, <1>3, SplitIsGood DEF DocOk, Documents

\* Whatever was uploaded and however often its ingestion was started again, the
\* chunks of a document hold its whole text in order, none longer than the limit.
THEOREM DocumentsAreWhole ==
  Documents => (K!Spec => []ReadyIsWhole)
<1> SUFFICES ASSUME Documents PROVE K!Spec => []ReadyIsWhole
  OBVIOUS
<1>1. DocInv => ReadyIsWhole
  <2> SUFFICES ASSUME DocInv, NEW d \in Doc, chunks[d] # <<>> \/ row[d].status = "ready"
               PROVE  /\ K!Whole(d)
                      /\ row[d].status = "ready" => row[d].count = Len(chunks[d])
    BY DEF ReadyIsWhole, K!ReadyIsWhole
  <2>1. /\ Good(text[d], chunks[d], 0)
        /\ DOMAIN text[d] = 1..Len(text[d])
        /\ row[d].status = "ready" => row[d].count = Len(chunks[d])
    BY DocChunks
  <2>2. /\ InLimits(text[d], chunks[d], 0)
        /\ Covers(text[d], chunks[d], 0)
        /\ EndsInOrder(text[d], chunks[d], 0)
    BY <2>1 DEF Good
  <2>3. \A p \in DOMAIN text[d] :
          \/ text[d][p] \in K!Blank
          \/ \E i \in DOMAIN chunks[d] : p \in chunks[d][i].from..chunks[d][i].to
    BY <2>1, <2>2 DEF Covers, Solid
  <2>4. \A i \in DOMAIN chunks[d] : /\ chunks[d][i].from <= chunks[d][i].to
                                    /\ chunks[d][i].to < chunks[d][i].from + ChunkSize
    BY <2>2 DEF InLimits
  <2>5. \A i \in DOMAIN chunks[d] \ {1} : /\ chunks[d][i - 1].from <= chunks[d][i].from
                                          /\ chunks[d][i - 1].to <= chunks[d][i].to
    BY <2>2 DEF Covers, EndsInOrder
  <2> QED BY <2>1, <2>3, <2>4, <2>5 DEF K!Whole
<1> QED BY <1>1, DocAlways, PTL

=============================================================================
