--------------------------- MODULE ProviderRouting ---------------------------
(***************************************************************************)
(* Model calls through the router (providers/router.py) and the circuit    *)
(* breaker that every provider has (resilience.py).  Callers are coroutines *)
(* of one process: whatever runs between two awaits is one action.         *)
(*                                                                         *)
(* A breaker is the number of failures counted, whether the circuit was     *)
(* opened and the recovery time since then has passed, and the half-open    *)
(* flag.  A provider is well or not; the environment changes that.          *)
(***************************************************************************)
EXTENDS Naturals, Sequences

CONSTANTS
  Provider,   \* registered providers
  Caller,     \* concurrent calls
  Alias,      \* model aliases of the agent profiles
  Chain,      \* alias -> refs, the primary first; a ref may resolve to nothing
  NoProvider, \* what a ref resolves to when it names no registered provider
  Threshold,  \* breaker_failure_threshold
  Attempts,   \* provider_retry_attempts
  MaxFaults   \* bound: providers that fall ill, calls that are cancelled

VARIABLES
  breaker,    \* the CircuitBreaker of each provider
  call,       \* the local state of each caller
  well,       \* the providers that answer
  owned,      \* history: failures of calls a provider served, up to Threshold
  faults      \* how many faults there have been

vars == <<breaker, call, well, owned, faults>>

Ops == {"complete", "stream", "embed"}

Closed == [failures |-> 0, opened |-> "no", halfOpen |-> FALSE]
Idle   == [pc |-> "idle"]

\* A call waiting for the answer of link i of its chain.
Calling(op, a, i, n) ==
  [pc |-> "calling", op |-> op, alias |-> a, link |-> i, attempt |-> n]

\* Counts matter up to the threshold.
Capped(n) == IF n < Threshold THEN n ELSE Threshold

Waiting(c) == call[c].pc = "calling"
Server(k)  == Chain[k.alias][k.link]

-----------------------------------------------------------------------------
(* The breaker (resilience.py, CircuitBreaker).                            *)

\* allows_call: open is the only state that refuses; half-open is noted.
Allows(b)  == b.opened # "fresh"
Allowed(b) == [b EXCEPT !.halfOpen = @ \/ b.opened = "elapsed"]

\* (Mutation: a success clears the count and leaves the circuit open.)
RecordSuccessStaysOpen(b) == [b EXCEPT !.failures = 0, !.halfOpen = FALSE]

RecordSuccess(b) == Closed

\* (Mutation: a failure opens the circuit whatever the count.)
RecordFailureOpens(b) ==
  [failures |-> Threshold, opened |-> "fresh", halfOpen |-> FALSE]

\* A failed trial reopens at once; otherwise the count decides, and an open
\* circuit keeps its time.
RecordFailure(b) ==
  LET n == Capped(b.failures + 1) IN
  IF b.halfOpen
    THEN [failures |-> Threshold, opened |-> "fresh", halfOpen |-> FALSE]
    ELSE [b EXCEPT !.failures = n,
                   !.opened = IF n >= Threshold /\ @ = "no" THEN "fresh" ELSE @]

-----------------------------------------------------------------------------
(* The router (providers/router.py, ModelRouter).                          *)

\* embed resolves its ref and has no chain.
Links(op, a) == IF op = "embed" THEN {1} ELSE 1..Len(Chain[a])

\* The links at or after i that resolve and whose circuit lets a call through.
Usable(brk, op, a, i) ==
  {k \in Links(op, a) : /\ k >= i
                        /\ Chain[a][k] # NoProvider
                        /\ Allows(brk[Chain[a][k]])}

\* Go on along the chain from link i, with the breakers as they now are: the
\* first usable link is called, or the caller gets the error.
Walk(c, brk, op, a, i) ==
  LET usable == Usable(brk, op, a, i) IN
  \/ \E k \in usable :
       /\ \A j \in usable : k <= j
       /\ breaker' = [brk EXCEPT ![Chain[a][k]] = Allowed(@)]
       /\ call' = [call EXCEPT ![c] = Calling(op, a, k, 1)]
  \/ /\ usable = {}
     /\ breaker' = brk
     /\ call' = [call EXCEPT ![c] = Idle]

\* complete, stream and embed up to their first await.
Begin(c, op, a) ==
  /\ ~Waiting(c)
  /\ Walk(c, breaker, op, a, 1)
  /\ UNCHANGED <<well, owned, faults>>

\* note_stream_outcome reports to the head of the chain, whoever served.
Reported(k) == IF k.op = "stream" THEN Chain[k.alias][1] ELSE Server(k)

Feedback(k, Record(_)) ==
  IF Reported(k) = NoProvider
    THEN breaker
    ELSE [breaker EXCEPT ![Reported(k)] = Record(@)]

Succeed(c) ==
  /\ Waiting(c) /\ Server(call[c]) \in well
  /\ breaker' = Feedback(call[c], RecordSuccess)
  /\ call' = [call EXCEPT ![c] = Idle]
  /\ UNCHANGED <<well, owned, faults>>

\* A transient failure with attempts left; the breaker is not asked again.
Retry(c) ==
  /\ Waiting(c) /\ Server(call[c]) \notin well
  /\ call[c].op # "stream" /\ call[c].attempt < Attempts
  /\ call' = [call EXCEPT ![c].attempt = @ + 1]
  /\ UNCHANGED <<breaker, well, owned, faults>>

\* A persistent failure, or a transient one on the last attempt: recorded once.
\* Only complete goes on to the next link.
Fail(c) ==
  /\ Waiting(c) /\ Server(call[c]) \notin well
  /\ LET k == call[c]
         after == Feedback(k, RecordFailure) IN
       /\ IF k.op = "complete"
            THEN Walk(c, after, k.op, k.alias, k.link + 1)
            ELSE /\ breaker' = after
                 /\ call' = [call EXCEPT ![c] = Idle]
       /\ owned' = [owned EXCEPT ![Server(k)] = Capped(@ + 1)]
  /\ UNCHANGED <<well, faults>>

\* The caller is cancelled (job timeout, shutdown): no outcome is recorded.
Abandon(c) ==
  /\ Waiting(c)
  /\ faults < MaxFaults /\ faults' = faults + 1
  /\ call' = [call EXCEPT ![c] = Idle]
  /\ UNCHANGED <<breaker, well, owned>>

\* recovery_seconds pass.
Elapse(p) ==
  /\ breaker[p].opened = "fresh"
  /\ breaker' = [breaker EXCEPT ![p].opened = "elapsed"]
  /\ UNCHANGED <<call, well, owned, faults>>

Falter(p) ==
  /\ p \in well
  /\ faults < MaxFaults /\ faults' = faults + 1
  /\ well' = well \ {p}
  /\ UNCHANGED <<breaker, call, owned>>

Heal(p) ==
  /\ p \notin well
  /\ well' = well \cup {p}
  /\ UNCHANGED <<breaker, call, owned, faults>>

-----------------------------------------------------------------------------
Init ==
  /\ breaker = [p \in Provider |-> Closed]
  /\ call = [c \in Caller |-> Idle]
  /\ well \in SUBSET Provider
  /\ owned = [p \in Provider |-> 0]
  /\ faults = 0

Answer(c) == Succeed(c) \/ Retry(c) \/ Fail(c)

Next ==
  \/ \E c \in Caller : \/ \E op \in Ops, a \in Alias : Begin(c, op, a)
                       \/ Answer(c) \/ Abandon(c)
  \/ \E p \in Provider : Elapse(p) \/ Falter(p) \/ Heal(p)

Spec == Init /\ [][Next]_vars

\* Every call gets an answer or times out (httpx) and the clock advances.
\* Clients owe no calls.
Fairness ==
  /\ \A c \in Caller : WF_vars(Answer(c))
  /\ \A p \in Provider : WF_vars(Elapse(p))

FairSpec == Spec /\ Fairness

-----------------------------------------------------------------------------
(* Properties.                                                             *)

BreakerType == [failures: 0..Threshold, opened: {"no", "fresh", "elapsed"},
                halfOpen: BOOLEAN]
Link == UNION {DOMAIN Chain[a] : a \in Alias}
CallType == {Idle} \cup
  [pc: {"calling"}, op: Ops, alias: Alias, link: Link, attempt: 1..Attempts]

TypeOK ==
  /\ breaker \in [Provider -> BreakerType]
  /\ call \in [Caller -> CallType]
  /\ well \subseteq Provider
  /\ owned \in [Provider -> 0..Threshold]
  /\ faults \in 0..MaxFaults

\* A circuit is only ever opened against a provider that has itself failed
\* Threshold calls, although a stream's outcome is reported to the head of its
\* chain and not to the provider that served it (note_stream_outcome): a
\* fallback serves only when the head's circuit is open.
OpenIsEarned ==
  \A p \in Provider : breaker[p].opened # "no" => owned[p] >= Threshold

\* A primary that is well for good and keeps being called is let back in: its
\* circuit closes again, whatever late failures of its fallbacks are charged to
\* it and although half-open trials can be cancelled without a report.  (Two
\* providers that back each other up do not have this: the trial of one is
\* credited to the other.)
Fallbacks == UNION {{Chain[a][i] : i \in 2..Len(Chain[a])} : a \in Alias}

CalledFirst(p) ==
  \E c \in Caller, op \in Ops, a \in Alias :
     Chain[a][1] = p /\ Begin(c, op, a)

Readmitted ==
  \A p \in Provider \ Fallbacks :
     (<>[](p \in well) /\ []<><<CalledFirst(p)>>_vars)
       => []<>(breaker[p].opened = "no")

=============================================================================
