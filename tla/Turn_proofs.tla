----------------------------- MODULE Turn_proofs -----------------------------
(***************************************************************************)
(* Proofs about the model calls of a turn, as MCTurn composes them:         *)
(* ProviderRouting, for any number of providers, callers and chains and any *)
(* number of faults; and TurnAssembly, for any dialect and any cut of the   *)
(* stream into chunks.                                                      *)
(***************************************************************************)
EXTENDS MCTurn, SequenceTheorems, TLAPS

\* Every alias has a primary; a limit of failures and of attempts is a number.
Configured ==
  /\ Chain \in [Alias -> Seq(Provider \cup {NoProvider})]
  /\ \A a \in Alias : Chain[a] # <<>>
  /\ NoProvider \notin Provider
  /\ Threshold \in Nat /\ Attempts \in Nat \ {0} /\ MaxFaults \in Nat

\* A call waits for a provider, and never for a ref that resolves to nothing.
ServedInv ==
  \A c \in Caller : Waiting(c) =>
    /\ call[c].op \in Ops /\ call[c].alias \in Alias
    /\ call[c].link \in DOMAIN Chain[call[c].alias]
    /\ Server(call[c]) \in Provider

\* The count of a breaker never exceeds the failures its provider made itself,
\* and a stream that a fallback serves has a head that earned its open circuit.
CountInv ==
  \A p \in Provider :
    /\ breaker[p].failures <= owned[p]
    /\ breaker[p].halfOpen \/ breaker[p].opened # "no" => owned[p] = Threshold

HeadInv ==
  \A c \in Caller :
    Waiting(c) /\ call[c].op = "stream" /\ call[c].link # 1 =>
      LET head == Chain[call[c].alias][1] IN
      head # NoProvider => owned[head] = Threshold

EarnedInv == TypeOK /\ ServedInv /\ CountInv /\ HeadInv

LEMMA CappedNat ==
  ASSUME Configured, NEW n \in Nat
  PROVE  /\ Capped(n) \in 0..Threshold
         /\ Capped(n) <= n
         /\ \A m \in Nat : n <= m => Capped(n) <= Capped(m)
         /\ n >= Threshold => Capped(n) = Threshold
  BY SMT DEF Configured, Capped

\* What the three things that happen to a breaker do to its fields.
LEMMA BreakerTypes ==
  ASSUME Configured, NEW b \in BreakerType
  PROVE  /\ Allowed(b) \in BreakerType
         /\ RecordSuccess(b) \in BreakerType
         /\ RecordFailure(b) \in BreakerType
<1>1. b.failures + 1 \in Nat
  BY DEF BreakerType, Configured
<1>2. Capped(b.failures + 1) \in 0..Threshold
  BY <1>1, CappedNat
<1>3. (b.halfOpen \/ b.opened = "elapsed") \in BOOLEAN
  BY Zenon DEF BreakerType
<1>4. Allowed(b) \in BreakerType
  BY <1>3 DEF BreakerType, Allowed
<1>5. RecordSuccess(b) \in BreakerType
  BY DEF Configured, BreakerType, RecordSuccess, Closed
<1>6. RecordFailure(b) \in BreakerType
  <2> DEFINE n == Capped(b.failures + 1)
  <2>1. CASE b.halfOpen
    BY <2>1 DEF Configured, BreakerType, RecordFailure
  <2>2. CASE ~b.halfOpen
    <3>1. RecordFailure(b) =
            [b EXCEPT !.failures = n,
                      !.opened = IF n >= Threshold /\ @ = "no" THEN "fresh" ELSE @]
      BY <2>2 DEF RecordFailure
    <3> HIDE DEF n
    <3> QED BY <3>1, <1>2 DEF BreakerType, n
  <2> QED BY <2>1, <2>2
<1> QED BY <1>4, <1>5, <1>6

\* Asking a breaker, or telling it of a success, breaks no invariant; telling
\* it of a failure breaks none if the provider has just made one more, or has
\* already made enough.
Earned(b, n) ==
  /\ b.failures <= n
  /\ b.halfOpen \/ b.opened # "no" => n = Threshold

LEMMA AllowedEarned ==
  ASSUME NEW b \in BreakerType, NEW n \in 0..Threshold, Earned(b, n)
  PROVE  Earned(Allowed(b), n)
  BY DEF Earned, Allowed, BreakerType

LEMMA SuccessEarned ==
  ASSUME Configured, NEW n \in 0..Threshold
  PROVE  \A b : Earned(RecordSuccess(b), n)
  BY DEF Earned, RecordSuccess, Closed, Configured

LEMMA FailureEarned ==
  ASSUME Configured, NEW b \in BreakerType, NEW n \in 0..Threshold, Earned(b, n),
         NEW m \in 0..Threshold, m = Capped(n + 1) \/ (m = n /\ n = Threshold)
  PROVE  Earned(RecordFailure(b), m)
<1>1. b.failures \in 0..Threshold
  BY DEF BreakerType
<1>2. Capped(b.failures + 1) <= m
  BY <1>1, CappedNat, b.failures <= n DEF Earned, Capped, Configured
<1>3. n = Threshold => m = Threshold
  BY DEF Capped, Configured
<1> QED BY <1>1, <1>2, <1>3 DEF Earned, RecordFailure, BreakerType, Configured, Capped

-----------------------------------------------------------------------------
(* Steps.                                                                  *)

\* A state of the router that says no more than its neighbours.
LEMMA ServerTyped ==
  ASSUME Configured, NEW op \in Ops, NEW a \in Alias, NEW k \in Links(op, a)
  PROVE  /\ k \in DOMAIN Chain[a] /\ k \in Nat \ {0}
         /\ Chain[a][k] \in Provider \cup {NoProvider}
  BY DEF Configured, Links

\* Every breaker is within what its provider has earned.
Within(brk, count) ==
  /\ brk \in [Provider -> BreakerType]
  /\ \A p \in Provider : Earned(brk[p], count[p])

\* What a waiting stream knows of its head stays so.
LEMMA HeadStays ==
  ASSUME Configured, EarnedInv, NEW d \in Caller, Waiting(d),
         owned' \in [Provider -> 0..Threshold],
         \A p \in Provider : owned[p] <= owned'[p],
         call[d].op = "stream", call[d].link # 1,
         Chain[call[d].alias][1] # NoProvider
  PROVE  owned'[Chain[call[d].alias][1]] = Threshold
<1> DEFINE head == Chain[call[d].alias][1]
<1>1. head \in Provider
  BY DEF EarnedInv, ServedInv, Configured
<1>2. owned[head] = Threshold
  BY DEF EarnedInv, HeadInv
<1> QED BY <1>1, <1>2 DEF Configured

\* Only the caller c and the breakers change, and c waits for nobody.
LEMMA IdleKeeps ==
  ASSUME Configured, EarnedInv, NEW c \in Caller,
         call' = [call EXCEPT ![c] = Idle],
         owned' \in [Provider -> 0..Threshold],
         \A p \in Provider : owned[p] <= owned'[p],
         Within(breaker', owned'), well' \subseteq Provider, faults' \in 0..MaxFaults
  PROVE  EarnedInv'
<1>1. \A d \in Caller : Waiting(d)' => d # c /\ Waiting(d) /\ call'[d] = call[d]
  BY DEF EarnedInv, TypeOK, Waiting, Idle
<1>2. TypeOK'
  BY DEF EarnedInv, TypeOK, CallType, Within
<1>3. ServedInv' /\ CountInv'
  BY <1>1 DEF EarnedInv, ServedInv, CountInv, Within, Earned, Server
<1>4. HeadInv'
  BY <1>1, HeadStays DEF HeadInv
<1> QED BY <1>2, <1>3, <1>4 DEF EarnedInv

\* No caller moves.
LEMMA CallsKeep ==
  ASSUME Configured, EarnedInv, call' = call, owned' = owned,
         Within(breaker', owned), well' \subseteq Provider, faults' \in 0..MaxFaults
  PROVE  EarnedInv'
<1>1. TypeOK'
  BY DEF EarnedInv, TypeOK, Within
<1>2. ServedInv'
  BY DEF EarnedInv, ServedInv, Waiting, Server
<1>3. HeadInv'
  BY DEF EarnedInv, HeadInv, Waiting
<1>4. CountInv'
  BY DEF CountInv, Within, Earned
<1> QED BY <1>1, <1>2, <1>3, <1>4 DEF EarnedInv

\* Going on along a chain: the breaker of the link that is called is asked, and
\* a stream that does not get its first link found that circuit open.
LEMMA WalkKeeps ==
  ASSUME Configured, EarnedInv, NEW c \in Caller,
         NEW op \in Ops, NEW a \in Alias, NEW i \in Nat \ {0},
         op = "stream" => i = 1,
         NEW brk, Walk(c, brk, op, a, i),
         owned' \in [Provider -> 0..Threshold],
         \A p \in Provider : owned[p] <= owned'[p],
         Within(brk, owned'), well' = well, faults' = faults
  PROVE  EarnedInv'
<1>1. CASE Usable(brk, op, a, i) = {}
  BY <1>1, IdleKeeps DEF Walk, EarnedInv, TypeOK
<1>2. CASE Usable(brk, op, a, i) # {}
  <2>1. PICK k \in Usable(brk, op, a, i) :
          /\ \A j \in Usable(brk, op, a, i) : k <= j
          /\ breaker' = [brk EXCEPT ![Chain[a][k]] = Allowed(@)]
          /\ call' = [call EXCEPT ![c] = Calling(op, a, k, 1)]
    BY <1>2 DEF Walk
  <2> DEFINE server == Chain[a][k]
  <2>2. /\ k \in Links(op, a) /\ k >= i /\ k \in DOMAIN Chain[a] /\ k \in Nat
        /\ server \in Provider
    BY ServerTyped DEF Usable
  <2>3. Within(breaker', owned')
    <3>1. Allowed(brk[server]) \in BreakerType
      BY <2>2, BreakerTypes DEF Within
    <3>2. Earned(Allowed(brk[server]), owned'[server])
      BY <2>2, AllowedEarned DEF Within
    <3> QED BY <2>1, <2>2, <3>1, <3>2 DEF Within
  <2>4. /\ call'[c] = Calling(op, a, k, 1)
        /\ \A d \in Caller : d # c => call'[d] = call[d]
    BY <2>1 DEF EarnedInv, TypeOK
  <2>5. TypeOK'
    <3>1. k \in Link /\ 1 \in 1..Attempts
      BY <2>2 DEF Link, Configured
    <3>2. Calling(op, a, k, 1) \in CallType
      BY <3>1 DEF CallType, Calling
    <3> QED BY <2>1, <2>3, <3>2 DEF EarnedInv, TypeOK, Within
  <2>6. ServedInv'
    <3> SUFFICES ASSUME NEW d \in Caller, Waiting(d)'
                 PROVE  ( /\ call[d].op \in Ops /\ call[d].alias \in Alias
                          /\ call[d].link \in DOMAIN Chain[call[d].alias]
                          /\ Server(call[d]) \in Provider )'
      BY DEF ServedInv
    <3>1. CASE d = c
      BY <3>1, <2>2, <2>4 DEF Calling, Server
    <3>2. CASE d # c
      BY <3>2, <2>4 DEF EarnedInv, ServedInv, Waiting, Server
    <3> QED BY <3>1, <3>2
  <2>7. CountInv'
    BY <2>3 DEF CountInv, Within, Earned
  <2>8. HeadInv'
    <3> SUFFICES ASSUME NEW d \in Caller, Waiting(d)', call'[d].op = "stream",
                        call'[d].link # 1, Chain[call'[d].alias][1] # NoProvider
                 PROVE  owned'[Chain[call'[d].alias][1]] = Threshold
      BY DEF HeadInv
    <3>1. CASE d # c
      BY <3>1, <2>4, HeadStays DEF Waiting
    <3>2. CASE d = c
      <4>1. op = "stream" /\ k # 1 /\ i = 1 /\ call'[d].alias = a
        BY <3>2, <2>4 DEF Calling
      <4>2. 1 \in Links(op, a) /\ ~(k <= 1)
        BY <4>1, <2>2 DEF Links, Configured
      <4>3. 1 \notin Usable(brk, op, a, i)
        BY <4>2, <2>1
      <4>4. brk[Chain[a][1]].opened = "fresh"
        BY <4>1, <4>2, <4>3 DEF Usable, Allows
      <4>5. Chain[a][1] \in Provider
        BY <4>1, <4>2, ServerTyped
      <4> QED BY <4>1, <4>4, <4>5 DEF Within, Earned
    <3> QED BY <3>1, <3>2
  <2> QED BY <2>5, <2>6, <2>7, <2>8 DEF EarnedInv
<1> QED BY <1>1, <1>2

\* The provider whose outcome is reported is the head, or the one that served;
\* a head that did not serve has earned its open circuit.
LEMMA ReportedTyped ==
  ASSUME Configured, EarnedInv, NEW c \in Caller, Waiting(c)
  PROVE  LET k == call[c] IN
         /\ Reported(k) \in Provider \cup {NoProvider}
         /\ Server(k) \in Provider
         /\ Reported(k) # NoProvider /\ Reported(k) # Server(k)
              => owned[Reported(k)] = Threshold
<1> DEFINE k == call[c]
<1>1. /\ k.alias \in Alias /\ k.link \in DOMAIN Chain[k.alias]
      /\ Server(k) \in Provider
  BY DEF EarnedInv, ServedInv
<1>2. Chain[k.alias][1] \in Provider \cup {NoProvider}
  BY <1>1 DEF Configured
<1>3. CASE k.op = "stream"
  <2>1. k.link = 1 => Reported(k) = Server(k)
    BY <1>3 DEF Reported, Server
  <2>2. k.link # 1 /\ Chain[k.alias][1] # NoProvider
          => owned[Chain[k.alias][1]] = Threshold
    BY <1>3 DEF EarnedInv, HeadInv
  <2> QED BY <1>1, <1>2, <1>3, <2>1, <2>2 DEF Reported
<1>4. CASE k.op # "stream"
  BY <1>1, <1>4 DEF Reported
<1> QED BY <1>3, <1>4

\* A success that is reported leaves every breaker within what was earned.
LEMMA SuccessKeeps ==
  ASSUME Configured, EarnedInv, NEW c \in Caller, Waiting(c)
  PROVE  Within(Feedback(call[c], RecordSuccess), owned)
<1>1. \A p \in Provider : breaker[p] \in BreakerType /\ Earned(breaker[p], owned[p])
  BY DEF EarnedInv, TypeOK, CountInv, Earned
<1>2. \A p \in Provider : /\ RecordSuccess(breaker[p]) \in BreakerType
                          /\ Earned(RecordSuccess(breaker[p]), owned[p])
  BY <1>1, BreakerTypes, SuccessEarned DEF EarnedInv, TypeOK
<1> QED BY <1>1, <1>2 DEF Feedback, Within, EarnedInv, TypeOK

\* So does a failure, which counts for the provider that served.
LEMMA FailureKeeps ==
  ASSUME Configured, EarnedInv, NEW c \in Caller, Waiting(c),
         owned' = [owned EXCEPT ![Server(call[c])] = Capped(@ + 1)]
  PROVE  /\ owned' \in [Provider -> 0..Threshold]
         /\ \A p \in Provider : owned[p] <= owned'[p]
         /\ Within(Feedback(call[c], RecordFailure), owned')
<1> DEFINE s == Server(call[c])
           r == Reported(call[c])
<1>1. s \in Provider /\ r \in Provider \cup {NoProvider}
  BY ReportedTyped
<1>2. \A p \in Provider : /\ breaker[p] \in BreakerType /\ Earned(breaker[p], owned[p])
                          /\ owned[p] \in 0..Threshold
  BY DEF EarnedInv, TypeOK, CountInv, Earned
<1>3. Capped(owned[s] + 1) \in 0..Threshold /\ owned[s] <= Capped(owned[s] + 1)
  BY <1>1, <1>2 DEF Capped, Configured
<1>4. /\ owned' \in [Provider -> 0..Threshold]
      /\ owned'[s] = Capped(owned[s] + 1)
      /\ \A p \in Provider : p # s => owned'[p] = owned[p]
  BY <1>1, <1>3 DEF EarnedInv, TypeOK
<1>5. \A p \in Provider : owned[p] <= owned'[p]
  BY <1>2, <1>3, <1>4 DEF Configured
<1>6. \A p \in Provider : Earned(breaker[p], owned'[p])
  BY <1>2, <1>4, <1>5 DEF Earned, BreakerType, Configured
<1>7. CASE r = NoProvider
  BY <1>2, <1>4, <1>5, <1>6, <1>7 DEF Feedback, Within, EarnedInv, TypeOK
<1>8. CASE r # NoProvider
  <2>1. r \in Provider
    BY <1>1, <1>8
  <2>2. RecordFailure(breaker[r]) \in BreakerType
    BY <1>2, <2>1, BreakerTypes
  <2>3. owned'[r] = Capped(owned[r] + 1) \/ (owned'[r] = owned[r] /\ owned[r] = Threshold)
    BY <1>4, <1>8, <2>1, ReportedTyped
  <2>4. Earned(RecordFailure(breaker[r]), owned'[r])
    BY <1>2, <1>4, <2>1, <2>3, FailureEarned
  <2>5. Feedback(call[c], RecordFailure) = [breaker EXCEPT ![r] = RecordFailure(@)]
    BY <1>8 DEF Feedback
  <2>6. Within([breaker EXCEPT ![r] = RecordFailure(@)], owned')
    BY <1>2, <1>6, <2>1, <2>2, <2>4 DEF Within, EarnedInv, TypeOK
  <2> QED BY <1>4, <1>5, <2>5, <2>6
<1> QED BY <1>7, <1>8

\* Every step keeps what has been earned.
LEMMA EarnedStep ==
  ASSUME Configured, EarnedInv, [Next]_vars PROVE EarnedInv'
<1> USE DEF EarnedInv
<1>0. /\ owned \in [Provider -> 0..Threshold]
      /\ \A p \in Provider : owned[p] <= owned[p]
      /\ Within(breaker, owned)
  BY DEF TypeOK, Within, CountInv, Earned, Configured
<1>1. ASSUME NEW c \in Caller, NEW op \in Ops, NEW a \in Alias, Begin(c, op, a)
      PROVE  EarnedInv'
  <2>1. owned' = owned /\ well' = well /\ faults' = faults /\ Walk(c, breaker, op, a, 1)
    BY <1>1 DEF Begin
  <2>2. /\ owned' \in [Provider -> 0..Threshold] /\ Within(breaker, owned')
        /\ \A p \in Provider : owned[p] <= owned'[p]
    BY <1>0, <2>1
  <2> QED BY <2>1, <2>2, WalkKeeps
<1>2. ASSUME NEW c \in Caller, Succeed(c) PROVE EarnedInv'
  <2>1. /\ Waiting(c) /\ breaker' = Feedback(call[c], RecordSuccess)
        /\ call' = [call EXCEPT ![c] = Idle]
        /\ well' = well /\ owned' = owned /\ faults' = faults
    BY <1>2 DEF Succeed
  <2>2. Within(breaker', owned')
    BY <2>1, SuccessKeeps
  <2> QED BY <1>0, <2>1, <2>2, IdleKeeps DEF TypeOK
<1>3. ASSUME NEW c \in Caller, Retry(c) PROVE EarnedInv'
  <2>1. /\ Waiting(c) /\ call[c].attempt < Attempts
        /\ call' = [call EXCEPT ![c].attempt = @ + 1]
        /\ breaker' = breaker /\ well' = well /\ owned' = owned /\ faults' = faults
    BY <1>3 DEF Retry
  <2>2. /\ call[c] \in CallType /\ call[c] # Idle /\ call[c].attempt \in 1..Attempts
        /\ call'[c] = [call[c] EXCEPT !.attempt = @ + 1]
    BY <2>1 DEF TypeOK, CallType, Waiting, Idle
  <2>3. call[c].attempt + 1 \in 1..Attempts
    BY <2>1, <2>2 DEF Configured
  <2>4. \A d \in Caller : d # c => call'[d] = call[d]
    BY <2>1 DEF TypeOK
  <2>5. TypeOK'
    <3>1. call'[c] \in CallType
      BY <2>2, <2>3 DEF CallType
    <3> QED BY <2>1, <3>1 DEF TypeOK
  <2>6. \A d \in Caller : /\ Waiting(d)' = Waiting(d)
                          /\ Waiting(d) => /\ call'[d].op = call[d].op
                                           /\ call'[d].alias = call[d].alias
                                           /\ call'[d].link = call[d].link
    BY <2>1, <2>2, <2>4 DEF Waiting, CallType
  <2>7. ServedInv'
    BY <2>6 DEF ServedInv, Server
  <2>8. HeadInv'
    BY <2>1, <2>6 DEF HeadInv
  <2>9. CountInv'
    BY <2>1 DEF CountInv
  <2> QED BY <2>5, <2>7, <2>8, <2>9
<1>4. ASSUME NEW c \in Caller, Fail(c) PROVE EarnedInv'
  <2> DEFINE k == call[c]
             after == Feedback(k, RecordFailure)
  <2>1. /\ Waiting(c)
        /\ owned' = [owned EXCEPT ![Server(k)] = Capped(@ + 1)]
        /\ well' = well /\ faults' = faults
        /\ IF k.op = "complete"
             THEN Walk(c, after, k.op, k.alias, k.link + 1)
             ELSE breaker' = after /\ call' = [call EXCEPT ![c] = Idle]
    BY <1>4 DEF Fail
  <2>2. /\ owned' \in [Provider -> 0..Threshold]
        /\ \A p \in Provider : owned[p] <= owned'[p]
        /\ Within(after, owned')
    BY <2>1, FailureKeeps
  <2>3. k.op \in Ops /\ k.alias \in Alias /\ k.link + 1 \in Nat \ {0}
    BY <2>1 DEF ServedInv, Configured
  <2> HIDE DEF after, k
  <2>4. CASE k.op = "complete"
    BY <2>1, <2>2, <2>3, <2>4, WalkKeeps
  <2>5. CASE k.op # "complete"
    BY <2>1, <2>2, <2>5, IdleKeeps DEF TypeOK
  <2> QED BY <2>4, <2>5
<1>5. ASSUME NEW c \in Caller, Abandon(c) PROVE EarnedInv'
  <2>1. /\ call' = [call EXCEPT ![c] = Idle] /\ faults' \in 0..MaxFaults
        /\ breaker' = breaker /\ well' = well /\ owned' = owned
    BY <1>5 DEF Abandon, TypeOK, Configured
  <2>2. /\ owned' \in [Provider -> 0..Threshold] /\ Within(breaker', owned')
        /\ \A p \in Provider : owned[p] <= owned'[p]
    BY <1>0, <2>1
  <2> QED BY <2>1, <2>2, IdleKeeps DEF TypeOK
<1>6. ASSUME NEW p \in Provider, Elapse(p) PROVE EarnedInv'
  <2>1. /\ breaker[p].opened = "fresh"
        /\ breaker' = [breaker EXCEPT ![p] = [@ EXCEPT !.opened = "elapsed"]]
        /\ call' = call /\ well' = well /\ owned' = owned /\ faults' = faults
    BY <1>6 DEF Elapse
  <2>2. breaker[p] \in BreakerType /\ Earned(breaker[p], owned[p])
    BY <1>0 DEF Within
  <2>3. [breaker[p] EXCEPT !.opened = "elapsed"] \in BreakerType
    BY <2>2 DEF BreakerType
  <2>4. Earned([breaker[p] EXCEPT !.opened = "elapsed"], owned[p])
    BY <2>1, <2>2 DEF Earned, BreakerType
  <2>5. Within(breaker', owned)
    BY <1>0, <2>1, <2>3, <2>4 DEF Within
  <2> QED BY <2>1, <2>5, CallsKeep DEF TypeOK
<1>7. ASSUME NEW p \in Provider, Falter(p) \/ Heal(p) PROVE EarnedInv'
  <2>1. /\ breaker' = breaker /\ call' = call /\ owned' = owned
        /\ well' \subseteq Provider /\ faults' \in 0..MaxFaults
    BY <1>7 DEF Falter, Heal, TypeOK, Configured
  <2> QED BY <1>0, <2>1, CallsKeep
<1>8. CASE UNCHANGED vars
  BY <1>0, <1>8, CallsKeep DEF vars, TypeOK
<1> QED BY <1>1, <1>2, <1>3, <1>4, <1>5, <1>6, <1>7, <1>8 DEF Next, Answer

LEMMA EarnedInit == ASSUME Configured, Init PROVE EarnedInv
  BY DEF Configured, Init, EarnedInv, TypeOK, BreakerType, Closed, CallType, Idle,
     ServedInv, CountInv, HeadInv, Waiting

\* Types: breakers, calls and counts are what they should be, in every state
\* that the router of resilience.py and providers/router.py can be in.
THEOREM RoutingIsTyped == Configured => (Spec => []TypeOK)
<1> SUFFICES ASSUME Configured PROVE Spec => []TypeOK
  OBVIOUS
<1>1. Init => EarnedInv
  BY EarnedInit
<1>2. EarnedInv /\ [Next]_vars => EarnedInv'
  BY EarnedStep
<1>3. EarnedInv => TypeOK
  BY DEF EarnedInv
<1> QED BY <1>1, <1>2, <1>3, PTL DEF Spec

\* No circuit is opened on account of somebody else's failures, whatever the
\* chains are, although note_stream_outcome reports to the head of a chain.
THEOREM OpenCircuitsAreEarned == Configured => (Spec => []OpenIsEarned)
<1> SUFFICES ASSUME Configured PROVE Spec => []OpenIsEarned
  OBVIOUS
<1>1. Init => EarnedInv
  BY EarnedInit
<1>2. EarnedInv /\ [Next]_vars => EarnedInv'
  BY EarnedStep
<1>3. EarnedInv => OpenIsEarned
  BY DEF EarnedInv, TypeOK, CountInv, OpenIsEarned, Configured
<1> QED BY <1>1, <1>2, <1>3, PTL DEF Spec

-----------------------------------------------------------------------------
(* TurnAssembly.                                                           *)

\* The adapters there are; a turn is any sequence of calls.
Dialects ==
  /\ Dialect \subseteq {"anthropic", "openai", "gemini"}
  /\ Shapes \subseteq Seq(Nat) /\ MaxText \in Nat

\* What the response has sent, the adapter has.
WireInv ==
  /\ dialect \in Dialect /\ turn \in Seq(Nat) /\ size \in Nat
  /\ state \in {"streaming", "done", "failed"}
  /\ spoken \in Nat /\ text = spoken
  /\ opened \subseteq T!Calls /\ closed \subseteq opened
  /\ sent \in [T!Calls -> Nat] /\ slots = sent
  /\ wire = "normal" => T!Complete

\* Calls come one after the other; those of OpenAI are never closed.
OrderInv ==
  /\ \A k \in opened : \A j \in T!Calls : j < k =>
       j \in IF dialect = "openai" THEN opened ELSE closed
  /\ dialect = "openai" => closed = {}
  /\ \E n \in Nat : opened = 1..n

\* The calls are those that were closed, in their order, each with all of its
\* fragments or, if it was cut before the first, with none.
CallsInv ==
  state # "failed" =>
    /\ calls \in Seq([call : Nat, frags : Nat])
    /\ DOMAIN calls = IF dialect # "openai" THEN closed
                      ELSE IF state = "done" THEN opened ELSE {}
    /\ \A i \in DOMAIN calls :
         /\ calls[i].call = i
         /\ calls[i].frags = IF dialect = "gemini" THEN turn[i] ELSE slots[i]
         /\ calls[i].frags \in {0, turn[i]}

\* A turn fails only if something was cut.
FailInv == state = "failed" => wire \notin {"open", "normal"}

TurnInv == WireInv /\ OrderInv /\ CallsInv /\ FailInv

\* The call that is closed next is the next of the list.
LEMMA NextOfList ==
  ASSUME TurnInv, state = "streaming", dialect # "openai", NEW k \in T!Calls \ closed,
         \A j \in T!Calls : j < k => j \in closed
  PROVE  Len(calls) + 1 = k
<1>1. /\ DOMAIN calls = closed /\ Len(calls) \in Nat /\ DOMAIN calls = 1..Len(calls)
      /\ turn \in Seq(Nat) /\ closed \subseteq T!Calls
  BY DEF TurnInv, WireInv, CallsInv
<1>2. T!Calls = 1..Len(turn) /\ Len(turn) \in Nat
  BY <1>1 DEF T!Calls
<1>3. k \in Nat /\ k \notin 1..Len(calls) /\ Len(calls) + 1 >= k
  <2>1. CASE Len(calls) + 1 < k
    <3>1. Len(calls) + 1 \in T!Calls
      BY <1>1, <1>2, <2>1
    <3> QED BY <1>1, <2>1, <3>1
  <2> QED BY <1>1, <1>2, <2>1
<1> QED BY <1>1, <1>2, <1>3

\* So is the call that is opened next.
LEMMA NextIsOpened ==
  ASSUME TurnInv, NEW k \in T!Calls, \A j \in T!Calls : j < k => j \in opened
  PROVE  \E n \in Nat : opened \cup {k} = 1..n
<1>1. PICK n \in Nat : opened = 1..n
  BY DEF TurnInv, OrderInv
<1>2. T!Calls = 1..Len(turn) /\ Len(turn) \in Nat
  BY DEF T!Calls, TurnInv, WireInv
<1>3. k <= n + 1
  <2>1. CASE n + 1 < k
    <3>1. n + 1 \in T!Calls
      BY <1>2, <2>1
    <3> QED BY <1>1, <2>1, <3>1
  <2> QED BY <1>2, <2>1
<1>4. CASE k = n + 1
  <2>1. opened \cup {k} = 1..(n + 1)
    BY <1>1, <1>4
  <2> QED BY <2>1
<1>5. CASE k <= n
  <2>1. opened \cup {k} = 1..n
    BY <1>1, <1>2, <1>5
  <2> QED BY <2>1
<1> QED BY <1>2, <1>3, <1>4, <1>5

LEMMA ListGrows ==
  ASSUME NEW S, NEW s \in Seq(S), NEW x \in S
  PROVE  /\ Append(s, x) \in Seq(S) /\ Len(s) \in Nat
         /\ DOMAIN Append(s, x) = DOMAIN s \cup {Len(s) + 1}
         /\ \A i \in DOMAIN s : Append(s, x)[i] = s[i]
         /\ Append(s, x)[Len(s) + 1] = x
OBVIOUS

LEMMA TurnInvInit == ASSUME Dialects, T!Init PROVE TurnInv
<1>1. <<>> \in Seq([call : Nat, frags : Nat]) /\ DOMAIN <<>> = {}
  OBVIOUS
<1>2. turn \in Seq(Nat) /\ size \in Nat
  BY DEF T!Init, Dialects
<1>3. opened = 1..0
  BY DEF T!Init
<1> QED BY <1>1, <1>2, <1>3
        DEF T!Init, T!Calls, TurnInv, WireInv, OrderInv, CallsInv, FailInv

\* The steps that close no call.
LEMMA OpenKeeps ==
  ASSUME TurnInv, NEW k \in T!Calls, T!OpenCall(k) PROVE TurnInv'
<1> USE DEF T!model, T!server, T!adapter, T!Calls
<1>1. WireInv'
  BY DEF T!OpenCall, T!Ready, T!Streaming, TurnInv, WireInv
<1>2. OrderInv'
  <2>1. \E n \in Nat : opened' = 1..n
    BY NextIsOpened DEF T!OpenCall, T!Ready, TurnInv, WireInv, OrderInv
  <2> QED BY <2>1 DEF T!OpenCall, T!Ready, TurnInv, OrderInv
<1>3. CallsInv' /\ FailInv'
  BY DEF T!OpenCall, T!Ready, T!Streaming, TurnInv, CallsInv, FailInv
<1> QED BY <1>1, <1>2, <1>3 DEF TurnInv

LEMMA ArgumentsKeep ==
  ASSUME TurnInv, NEW k \in T!Calls, T!Arguments(k) PROVE TurnInv'
<1> USE DEF T!model, T!server, T!adapter
<1>1. /\ turn' = turn /\ calls' = calls /\ closed' = closed /\ opened' = opened
      /\ dialect' = dialect /\ state' = state /\ state = "streaming" /\ wire = "open"
      /\ k \notin closed /\ wire' = wire /\ size' = size /\ text' = text /\ spoken' = spoken
  BY DEF T!Arguments, T!Streaming
<1>2. slots' = [slots EXCEPT ![k] = @ + 1] /\ sent' = slots' /\ slots \in [T!Calls -> Nat]
  BY DEF T!Arguments, TurnInv, WireInv
<1>3. slots' \in [T!Calls -> Nat] /\ \A j \in T!Calls : j # k => slots'[j] = slots[j]
  BY <1>2
<1>4. T!Calls' = T!Calls
  BY <1>1 DEF T!Calls
<1>5. WireInv'
  BY <1>1, <1>2, <1>3, <1>4 DEF TurnInv, WireInv
<1>6. OrderInv' /\ FailInv'
  BY <1>1, <1>4 DEF TurnInv, OrderInv, FailInv
<1>7. CallsInv'
  BY <1>1, <1>3 DEF TurnInv, WireInv, CallsInv
<1> QED BY <1>5, <1>6, <1>7 DEF TurnInv

LEMMA CloseKeeps ==
  ASSUME TurnInv, NEW k \in T!Calls, T!CloseCall(k) \/ T!WholeCall(k) PROVE TurnInv'
<1> USE DEF T!model, T!server, T!adapter
<1> DEFINE c == [call |-> k, frags |-> IF dialect = "gemini" THEN turn[k] ELSE slots[k]]
<1>1. /\ turn' = turn /\ dialect' = dialect /\ sent' = sent /\ slots' = slots
      /\ size' = size /\ text' = text /\ spoken' = spoken /\ T!Calls' = T!Calls
      /\ state = "streaming" /\ wire = "open" /\ dialect # "openai"
      /\ k \notin closed /\ closed' = closed \cup {k}
      /\ opened' = opened \cup {k} /\ wire' # "normal"
  BY DEF T!CloseCall, T!WholeCall, T!Ready, T!Streaming, T!Calls, TurnInv, WireInv
<1>2. \A j \in T!Calls : j < k => j \in closed
  BY <1>1 DEF T!CloseCall, T!WholeCall, T!Ready, TurnInv, OrderInv
<1>3. WireInv' /\ OrderInv'
  <2>1. state' \in {"streaming", "done", "failed"}
    BY <1>1 DEF T!CloseCall, T!WholeCall
  <2>2. \E n \in Nat : opened' = 1..n
    BY <1>1, <1>2, NextIsOpened DEF TurnInv, WireInv
  <2> QED BY <1>1, <1>2, <2>1, <2>2 DEF TurnInv, WireInv, OrderInv
<1>4. CASE state' = "failed"
  <2>1. wire' # "open"
    BY <1>1, <1>4 DEF T!CloseCall, T!WholeCall, T!Parses, TurnInv, WireInv
  <2> QED BY <1>1, <1>3, <1>4, <2>1 DEF TurnInv, CallsInv, FailInv
<1>5. CASE state' # "failed"
  <2>1. /\ state' = "streaming" /\ calls' = Append(calls, c)
        /\ c.frags \in {0, turn[k]}
    BY <1>1, <1>5 DEF T!CloseCall, T!WholeCall, T!Parses, T!CallOf, T!Parsed
  <2>2. Len(calls) + 1 = k /\ calls \in Seq([call : Nat, frags : Nat])
    BY <1>1, <1>2, NextOfList DEF TurnInv, CallsInv
  <2>3. c \in [call : Nat, frags : Nat]
    BY <1>1, <2>2 DEF TurnInv, WireInv, T!Calls
  <2>4. c.call = k /\ c.frags = IF dialect = "gemini" THEN turn[k] ELSE slots[k]
    OBVIOUS
  <2> HIDE DEF c
  <2>5. /\ calls' \in Seq([call : Nat, frags : Nat])
        /\ DOMAIN calls' = DOMAIN calls \cup {k} /\ calls'[k] = c
        /\ \A i \in DOMAIN calls : calls'[i] = calls[i]
    BY <2>1, <2>2, <2>3, ListGrows
  <2>6. CallsInv'
    BY <1>1, <2>1, <2>4, <2>5 DEF TurnInv, CallsInv
  <2>7. FailInv'
    BY <2>1 DEF FailInv
  <2> QED BY <1>3, <2>6, <2>7 DEF TurnInv
<1> QED BY <1>4, <1>5

LEMMA StreamEnds ==
  ASSUME TurnInv, T!EndOfStream \/ T!TextPiece PROVE TurnInv'
<1> USE DEF T!model, T!server, T!adapter, T!Calls
<1>1. WireInv'
  BY DEF T!EndOfStream, T!TextPiece, T!Streaming, T!Complete, TurnInv, WireInv
<1>2. OrderInv' /\ FailInv'
  BY DEF T!EndOfStream, T!TextPiece, T!Streaming, TurnInv, OrderInv, FailInv
<1>3. CallsInv'
  BY DEF T!EndOfStream, T!TextPiece, T!Streaming, TurnInv, CallsInv
<1> QED BY <1>1, <1>2, <1>3 DEF TurnInv

\* The slots of an OpenAI turn, in the order of their index.
LEMMA SlotsAreList ==
  ASSUME TurnInv, dialect = "openai"
  PROVE  /\ T!Slotted \in Seq([call : Nat, frags : Nat]) /\ DOMAIN T!Slotted = opened
         /\ \A k \in opened : T!Slotted[k].call = k /\ T!Slotted[k].frags = slots[k]
<1>1. /\ turn \in Seq(Nat) /\ opened \subseteq T!Calls /\ slots \in [T!Calls -> Nat]
      /\ \A k \in opened : \A j \in T!Calls : j < k => j \in opened
  BY DEF TurnInv, WireInv, OrderInv
<1>2. T!Calls = 1..Len(turn) /\ Len(turn) \in Nat
  BY <1>1 DEF T!Calls
<1>3. PICK n \in Nat : opened = 1..n
  BY DEF TurnInv, OrderInv
<1>4. /\ DOMAIN T!Slotted = 1..n
      /\ \A k \in 1..n : /\ T!Slotted[k] \in [call : Nat, frags : Nat]
                         /\ T!Slotted[k].call = k /\ T!Slotted[k].frags = slots[k]
  BY <1>1, <1>3, <1>2 DEF T!Slotted, T!CallOf
<1>5. T!Slotted \in [1..n -> [call : Nat, frags : Nat]]
  BY <1>3, <1>4 DEF T!Slotted
<1>6. T!Slotted \in Seq([call : Nat, frags : Nat])
  <2> HIDE DEF T!Slotted
  <2> QED BY <1>3, <1>5, SeqDef
<1> QED BY <1>3, <1>4, <1>6

LEMMA CallsAreRecords ==
  ASSUME NEW s \in Seq([call : Nat, frags : Nat]), NEW i \in DOMAIN s
  PROVE  s[i] = [call |-> s[i].call, frags |-> s[i].frags]
<1>1. i \in 1..Len(s)
  OBVIOUS
<1>2. s[i] \in [call : Nat, frags : Nat]
  BY <1>1, ElementOfSeq
<1> QED BY <1>2

LEMMA AssembleKeeps == ASSUME TurnInv, T!Assemble PROVE TurnInv'
<1>1. /\ turn' = turn /\ dialect' = dialect /\ sent' = sent /\ slots' = slots
      /\ size' = size /\ text' = text /\ spoken' = spoken /\ T!Calls' = T!Calls
      /\ opened' = opened /\ closed' = closed /\ wire' = wire
      /\ state = "streaming" /\ wire # "open" /\ state' \in {"done", "failed"}
  BY DEF T!Assemble, T!model, T!server, T!Calls
<1>2. WireInv' /\ OrderInv'
  BY <1>1 DEF TurnInv, WireInv, OrderInv, T!Complete
<1>3. CASE state' = "done"
  <2>1. calls' = calls \o T!Slotted /\ \A i \in DOMAIN T!Slotted : T!Parses(T!Slotted[i].call)
    BY <1>3 DEF T!Assemble
  <2>2. CASE dialect = "openai"
    <3>1. calls = <<>>
      <4>1. calls \in Seq([call : Nat, frags : Nat]) /\ DOMAIN calls = {}
        BY <1>1, <2>2 DEF TurnInv, CallsInv
      <4> QED BY <4>1
    <3>2. T!Slotted \in Seq([call : Nat, frags : Nat])
      BY <2>2, SlotsAreList
    <3> DEFINE s == T!Slotted
    <3> HIDE DEF s
    <3>3. calls \o s = s
      BY <3>1, <3>2 DEF s
    <3>4. /\ calls' = s /\ s \in Seq([call : Nat, frags : Nat]) /\ DOMAIN s = opened
          /\ \A k \in opened : s[k].call = k /\ s[k].frags = slots[k] /\ T!Parses(k)
      BY <2>1, <2>2, <3>3, SlotsAreList DEF s
    <3>5. CallsInv'
      BY <1>1, <1>3, <2>2, <3>4 DEF CallsInv, T!Parses
    <3> QED BY <1>2, <1>3, <3>5 DEF TurnInv, FailInv
  <2>3. CASE dialect # "openai"
    <3>1. calls \o <<>> = calls /\ T!Slotted = <<>>
      BY <1>1, <2>3 DEF T!Slotted, TurnInv, CallsInv
    <3>2. CallsInv'
      BY <1>1, <1>3, <2>1, <2>3, <3>1 DEF TurnInv, CallsInv
    <3> QED BY <1>2, <1>3, <3>2 DEF TurnInv, FailInv
  <2> QED BY <2>2, <2>3
<1>4. CASE state' = "failed"
  <2>1. PICK i \in DOMAIN T!Slotted : ~T!Parses(T!Slotted[i].call)
    BY <1>4 DEF T!Assemble
  <2>2. dialect = "openai" /\ i \in opened /\ ~T!Parses(i)
    <3>1. DOMAIN <<>> = {}
      OBVIOUS
    <3>2. dialect = "openai"
      BY <2>1, <3>1 DEF T!Slotted
    <3> QED BY <2>1, <3>2, SlotsAreList
  <2>3. wire # "normal"
    BY <2>2 DEF T!Parses, TurnInv, WireInv, T!Complete
  <2> QED BY <1>1, <1>2, <1>4, <2>3 DEF TurnInv, CallsInv, FailInv
<1> QED BY <1>1, <1>3, <1>4

LEMMA TurnInvStep == ASSUME TurnInv, [T!Next]_(T!vars) PROVE TurnInv'
<1>1. CASE UNCHANGED T!vars
  BY <1>1 DEF T!vars, T!model, T!server, T!adapter, T!Calls, T!Complete,
              TurnInv, WireInv, OrderInv, CallsInv, FailInv
<1> QED BY <1>1, OpenKeeps, ArgumentsKeep, CloseKeeps, StreamEnds, AssembleKeeps DEF T!Next

\* However the response is cut into chunks and its fragments are ordered: what the
\* adapters make of a whole response is what complete() parses from its body.
THEOREM StreamsAreParsed == Dialects => (T!Spec => []StreamIsParsed)
<1> SUFFICES ASSUME Dialects PROVE T!Spec => []T!StreamIsParsed
  BY DEF StreamIsParsed
<1>1. T!Init => TurnInv
  BY TurnInvInit
<1>2. TurnInv /\ [T!Next]_(T!vars) => TurnInv'
  BY TurnInvStep
<1>3. TurnInv => T!StreamIsParsed
  <2> SUFFICES ASSUME TurnInv, wire = "normal"
               PROVE  state # "failed" /\ (state = "done" => text = size /\ calls = T!Parsed)
    BY DEF T!StreamIsParsed
  <2>1. state # "failed" /\ text = size
    BY DEF TurnInv, WireInv, FailInv, T!Complete
  <2>2. ASSUME state = "done" PROVE calls = T!Parsed
    <3>1. DOMAIN calls = T!Calls /\ calls \in Seq([call : Nat, frags : Nat])
      BY <2>2 DEF TurnInv, WireInv, CallsInv, T!Complete
    <3>2. \A i \in T!Calls : calls[i].call = i /\ calls[i].frags = turn[i]
      BY <2>2, <3>1 DEF TurnInv, WireInv, CallsInv, T!Complete
    <3>3. \A i \in DOMAIN calls : calls[i] = [call |-> calls[i].call, frags |-> calls[i].frags]
      BY <3>1, CallsAreRecords
    <3>4. \A i \in T!Calls : calls[i] = [call |-> i, frags |-> turn[i]]
      BY <3>1, <3>2, <3>3
    <3> QED BY <3>1, <3>4 DEF T!Parsed
  <2> QED BY <2>1, <2>2
<1> QED BY <1>1, <1>2, <1>3, PTL DEF T!Spec

\* Wherever the response is cut: no call runs with some of its arguments, none runs
\* twice, and none ahead of an earlier one.
THEOREM NoCallIsHalf == Dialects => (T!Spec => []NoHalfCall)
<1> SUFFICES ASSUME Dialects PROVE T!Spec => []T!NoHalfCall
  BY DEF NoHalfCall
<1>1. T!Init => TurnInv
  BY TurnInvInit
<1>2. TurnInv /\ [T!Next]_(T!vars) => TurnInv'
  BY TurnInvStep
<1>3. TurnInv => T!NoHalfCall
  BY DEF TurnInv, CallsInv, T!NoHalfCall
<1> QED BY <1>1, <1>2, <1>3, PTL DEF T!Spec

=============================================================================
