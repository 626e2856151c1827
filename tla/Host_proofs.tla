---------------------------- MODULE Host_proofs ----------------------------
(***************************************************************************)
(* Proofs about the host tools and their post-conditions, as MCHost         *)
(* composes them, for any number of calls and any operations: an answer     *)
(* that a tool gives of the host is true of it, the calls that arrive later *)
(* prevail, and a change that is kept had its conditions met.               *)
(***************************************************************************)
EXTENDS MCHost, Integers, Sequences, SequencesExt, SequenceTheorems, FiniteSets, TLAPS

\* What a call asks for, and what it holds before it asks.
Operation == Ops \cup {H!Service("none", "status")}

\* The operator's allowlist names no key that must not be written: the code asks
\* the allowlist before it asks the table of refused keys (classify_sysctl).
Sound ==
  /\ \A o \in Ops : o.kind \in {"sysctl", "signal", "service"}
  /\ Allowlist \cap H!RefusedKey = {}
  /\ NoCall \notin Call

TypeInv ==
  /\ policy \in H!Policies
  /\ op \in [Call -> Operation]
  /\ pc \in [Call -> {"idle", "asked", "approved", "waiting", "done"}]
  /\ told \in [Call -> {"nothing", "reading", "ok", "failed", "refused", "denied",
                        "unexpected"}]
  /\ daemon \in [up: BOOLEAN, backlog: Seq(Call), serving: Call \cup {NoCall}]
  /\ systemd \in Seq(Call) /\ effects \in Seq(Call)

-----------------------------------------------------------------------------
(* Sequences without repetition.                                           *)

Once(s) == \A i, j \in DOMAIN s : s[i] = s[j] => i = j

\* (Sequence theorems in the form the steps below use them.)
LEMMA AppendOnce ==
  ASSUME NEW S, NEW s \in Seq(S), NEW x \in S
  PROVE  /\ Append(s, x) \in Seq(S)
         /\ ToSet(Append(s, x)) = ToSet(s) \cup {x}
         /\ Once(s) /\ x \notin ToSet(s) => Once(Append(s, x))
<1> DEFINE t == Append(s, x)
<1>1. /\ t \in Seq(S) /\ Len(s) \in Nat
      /\ DOMAIN s = 1..Len(s) /\ DOMAIN t = 1..Len(s) + 1
      /\ \A i \in 1..Len(s) : t[i] = s[i]
      /\ t[Len(s) + 1] = x
  OBVIOUS
<1> HIDE DEF t
<1>2. ToSet(t) = ToSet(s) \cup {x}
  <2>1. ToSet(s) \cup {x} \subseteq ToSet(t)
    <3>1. x \in ToSet(t)
      <4>1. Len(s) + 1 \in DOMAIN t
        BY <1>1
      <4> QED BY <1>1, <4>1 DEF ToSet
    <3>2. ASSUME NEW i \in DOMAIN s PROVE s[i] \in ToSet(t)
      <4>1. i \in DOMAIN t /\ t[i] = s[i]
        BY <1>1
      <4> QED BY <4>1 DEF ToSet
    <3> QED BY <3>1, <3>2 DEF ToSet
  <2>2. ASSUME NEW i \in DOMAIN t PROVE t[i] \in ToSet(s) \cup {x}
    <3>1. CASE i = Len(s) + 1
      BY <1>1, <3>1
    <3>2. CASE i # Len(s) + 1
      <4>1. i \in DOMAIN s /\ t[i] = s[i]
        BY <1>1, <3>2
      <4> QED BY <4>1 DEF ToSet
    <3> QED BY <3>1, <3>2
  <2> QED BY <2>1, <2>2 DEF ToSet
<1>3. ASSUME Once(s), x \notin ToSet(s) PROVE Once(t)
  <2> SUFFICES ASSUME NEW i \in DOMAIN t, NEW j \in DOMAIN t, t[i] = t[j] PROVE i = j
    BY DEF Once
  <2>1. \A k \in DOMAIN t : (k = Len(s) + 1 /\ t[k] = x) \/ (k \in DOMAIN s /\ t[k] = s[k])
    BY <1>1
  <2>2. \A k \in DOMAIN s : s[k] # x
    BY <1>3 DEF ToSet
  <2> QED BY <2>1, <2>2, <1>3 DEF Once
<1> QED BY <1>1, <1>2, <1>3 DEF t

LEMMA RemoveElements ==
  ASSUME NEW S, NEW s \in Seq(S), NEW n \in DOMAIN s
  PROVE  /\ RemoveAt(s, n) \in Seq(S)
         /\ DOMAIN RemoveAt(s, n) = 1..Len(s) - 1
         /\ \A i \in 1..Len(s) - 1 : RemoveAt(s, n)[i] = IF i < n THEN s[i] ELSE s[i + 1]
<1> DEFINE t == RemoveAt(s, n)
<1>1. /\ Len(s) \in Nat \ {0} /\ n \in 1..Len(s) /\ DOMAIN s = 1..Len(s)
      /\ s[n] \in S
  OBVIOUS
<1>2. /\ t \in Seq(S) /\ DOMAIN t = 1..Len(s) - 1
      /\ \A i \in 1..Len(s) - 1 : t[i] = IF i < n THEN s[i] ELSE s[i + 1]
  <2> DEFINE u == SubSeq(s, 1, n - 1)  v == SubSeq(s, n + 1, Len(s))
  <2>1. u \in Seq(S) /\ Len(u) = n - 1 /\ \A i \in 1..n-1 : u[i] = s[i]
    BY <1>1
  <2>2. /\ v \in Seq(S) /\ Len(v) = Len(s) - n
        /\ \A i \in 1..Len(s)-n : v[i] = s[n + i]
    BY <1>1
  <2>3. t = u \o v
    BY DEF RemoveAt
  <2> HIDE DEF t, u, v
  <2>4. /\ t \in Seq(S) /\ Len(t) = Len(u) + Len(v)
        /\ \A i \in 1..Len(u) + Len(v) :
             t[i] = IF i <= Len(u) THEN u[i] ELSE v[i - Len(u)]
    BY <2>1, <2>2, <2>3, ConcatProperties
  <2>5. /\ DOMAIN t = 1..Len(s) - 1
        /\ \A i \in 1..Len(s) - 1 : t[i] = IF i <= n - 1 THEN u[i] ELSE v[i - (n - 1)]
    BY <1>1, <2>1, <2>2, <2>4
  <2>6. ASSUME NEW i \in 1..Len(s) - 1 PROVE t[i] = IF i < n THEN s[i] ELSE s[i + 1]
    <3>1. CASE i < n
      BY <1>1, <2>1, <2>5, <3>1
    <3>2. CASE ~(i < n)
      <4>1. i - (n - 1) \in 1..Len(s)-n /\ n + (i - (n - 1)) = i + 1
        BY <1>1, <3>2
      <4>2. t[i] = v[i - (n - 1)]
        BY <1>1, <2>5, <3>2
      <4>3. v[i - (n - 1)] = s[n + (i - (n - 1))]
        BY <2>2, <4>1
      <4> QED BY <3>2, <4>1, <4>2, <4>3
    <3> QED BY <3>1, <3>2
  <2> QED BY <2>4, <2>5, <2>6
<1> QED BY <1>2

LEMMA RemoveOnce ==
  ASSUME NEW S, NEW s \in Seq(S), NEW n \in DOMAIN s, Once(s)
  PROVE  /\ s[n] \in S /\ s[n] \in ToSet(s)
         /\ RemoveAt(s, n) \in Seq(S)
         /\ ToSet(RemoveAt(s, n)) = ToSet(s) \ {s[n]}
         /\ Once(RemoveAt(s, n))
<1> DEFINE t == RemoveAt(s, n)
<1>1. /\ Len(s) \in Nat \ {0} /\ n \in 1..Len(s) /\ DOMAIN s = 1..Len(s)
      /\ s[n] \in S
  OBVIOUS
<1>2. /\ t \in Seq(S) /\ DOMAIN t = 1..Len(s) - 1
      /\ \A i \in 1..Len(s) - 1 : t[i] = IF i < n THEN s[i] ELSE s[i + 1]
  BY RemoveElements
<1> HIDE DEF t
<1>3. ASSUME NEW i \in DOMAIN t
      PROVE  /\ i < n => i \in DOMAIN s /\ t[i] = s[i]
             /\ ~(i < n) => i + 1 \in DOMAIN s /\ t[i] = s[i + 1]
  BY <1>1, <1>2
<1>4. ASSUME NEW i \in DOMAIN t PROVE t[i] \in ToSet(s) \ {s[n]}
  <2>1. PICK k \in DOMAIN s : t[i] = s[k] /\ k # n
    BY <1>1, <1>3
  <2> QED BY <2>1 DEF ToSet, Once
<1>5. ASSUME NEW i \in DOMAIN s, i # n PROVE s[i] \in ToSet(t)
  <2>1. CASE i < n
    <3>1. i \in DOMAIN t /\ t[i] = s[i]
      BY <1>1, <1>2, <2>1
    <3> QED BY <3>1 DEF ToSet
  <2>2. CASE i > n
    <3>1. i - 1 \in DOMAIN t /\ t[i - 1] = s[i]
      BY <1>1, <1>2, <2>2
    <3> QED BY <3>1 DEF ToSet
  <2> QED BY <1>1, <1>5, <2>1, <2>2
<1>6. ToSet(t) = ToSet(s) \ {s[n]}
  BY <1>4, <1>5 DEF ToSet
<1>7. Once(t)
  <2> SUFFICES ASSUME NEW i \in DOMAIN t, NEW j \in DOMAIN t, t[i] = t[j] PROVE i = j
    BY DEF Once
  <2>1. \A a, b \in DOMAIN s : s[a] = s[b] => a = b
    BY DEF Once
  <2>2. /\ i < n => i \in DOMAIN s /\ t[i] = s[i]
        /\ ~(i < n) => i + 1 \in DOMAIN s /\ t[i] = s[i + 1]
        /\ j < n => j \in DOMAIN s /\ t[j] = s[j]
        /\ ~(j < n) => j + 1 \in DOMAIN s /\ t[j] = s[j + 1]
    BY <1>3
  <2>3. i \in Int /\ j \in Int /\ n \in Int
    BY <1>1, <1>2
  <2>4. CASE i < n /\ j < n
    BY <2>1, <2>2, <2>4
  <2>5. CASE i < n /\ ~(j < n)
    <3>1. i = j + 1
      BY <2>1, <2>2, <2>5
    <3> QED BY <2>3, <2>5, <3>1
  <2>6. CASE ~(i < n) /\ j < n
    <3>1. i + 1 = j
      BY <2>1, <2>2, <2>6
    <3> QED BY <2>3, <2>6, <3>1
  <2>7. CASE ~(i < n) /\ ~(j < n)
    <3>1. i + 1 = j + 1
      BY <2>1, <2>2, <2>7
    <3> QED BY <2>3, <3>1
  <2> QED BY <2>4, <2>5, <2>6, <2>7
<1>8. s[n] \in ToSet(s)
  BY DEF ToSet
<1> QED BY <1>1, <1>2, <1>6, <1>7, <1>8 DEF t

LEMMA TailRemoves ==
  ASSUME NEW S, NEW s \in Seq(S), s # <<>>
  PROVE  /\ 1 \in DOMAIN s /\ Head(s) = s[1]
         /\ Tail(s) = RemoveAt(s, 1)
<1>1. /\ 1 \in DOMAIN s /\ Head(s) = s[1] /\ Len(s) \in Nat \ {0}
  OBVIOUS
<1>2. SubSeq(s, 1, 1 - 1) = <<>>
  BY SubSeqEmpty
<1>3. Tail(s) = SubSeq(s, 1 + 1, Len(s)) /\ Tail(s) \in Seq(S)
  BY <1>1
<1>4. <<>> \o Tail(s) = Tail(s)
  BY <1>3, ConcatEmptySeq
<1> QED BY <1>1, <1>2, <1>3, <1>4 DEF RemoveAt

LEMMA TailOnce ==
  ASSUME NEW S, NEW s \in Seq(S), s # <<>>, Once(s)
  PROVE  /\ Head(s) \in ToSet(s) /\ Head(s) \in S /\ Tail(s) \in Seq(S)
         /\ ToSet(Tail(s)) = ToSet(s) \ {Head(s)}
         /\ Once(Tail(s))
<1>1. /\ 1 \in DOMAIN s /\ Head(s) = s[1] /\ Len(s) \in Nat \ {0}
  OBVIOUS
<1>2. Tail(s) = RemoveAt(s, 1)
  BY TailRemoves
<1>3. /\ s[1] \in S /\ s[1] \in ToSet(s)
      /\ RemoveAt(s, 1) \in Seq(S)
      /\ ToSet(RemoveAt(s, 1)) = ToSet(s) \ {s[1]}
      /\ Once(RemoveAt(s, 1))
  BY <1>1, RemoveOnce
<1>4. Tail(s) \in Seq(S)
  OBVIOUS
<1> QED BY <1>1, <1>2, <1>3, <1>4

LEMMA NoneOnce ==
  ASSUME NEW S
  PROVE  <<>> \in Seq(S) /\ ToSet(<<>>) = {} /\ Once(<<>>)
  BY DEF ToSet, Once

-----------------------------------------------------------------------------
(* The invariant: a call is in one place at a time.                        *)

Closed(c) == told[c] \in {"failed", "refused", "denied"}

Waiting == ToSet(daemon.backlog)
Working == ToSet(systemd)
Changed == ToSet(effects)

\* A call that somebody may still carry out is there once, and has not been yet.
Apart ==
  /\ Once(daemon.backlog) /\ Once(systemd)
  /\ Waiting \cap Working = {}
  /\ (Waiting \cup Working) \cap Changed = {}

\* What was sent to the host was permitted; what is closed for the model is
\* nowhere on the host.
Tracked(c) ==
  /\ c \in Waiting \cup Working \cup Changed =>
       pc[c] \in {"waiting", "done"} /\ H!Classify(op[c]) # "refused"
  /\ pc[c] # "done" => told[c] = "nothing"
  /\ Closed(c) => c \notin Waiting \cup Working \cup Changed
  /\ told[c] = "ok" /\ H!Classify(op[c]) = "mutate" => c \in Changed

HostInv == TypeInv /\ Apart /\ \A c \in Call : Tracked(c)

\* The classes refuse all that the host must survive.
LEMMA ProtectedIsRefused ==
  ASSUME Sound, NEW o \in Operation, H!Protected(o)
  PROVE  H!Classify(o) = "refused"
<1>1. CASE o.kind = "sysctl"
  BY <1>1 DEF Sound, H!Protected, H!Classify, H!ClassifySysctl, H!RefusedKey, H!MutableKey
<1>2. CASE o.kind = "signal"
  BY <1>2 DEF H!Protected, H!Classify, H!ClassifySignal
<1>3. CASE o.kind = "service"
  BY <1>3 DEF H!Protected, H!Classify, H!ClassifyService, H!Critical, H!Severing,
         H!ReadAction
<1>4. o.kind \in {"sysctl", "signal", "service"}
  BY DEF Sound, Operation, H!Service
<1> QED BY <1>1, <1>2, <1>3, <1>4

LEMMA HostInvInit == ASSUME Sound, H!Init PROVE HostInv
<1>1. /\ daemon = [up |-> TRUE, backlog |-> <<>>, serving |-> NoCall]
      /\ systemd = <<>> /\ effects = <<>>
  BY DEF H!Init
<1>2. <<>> \in Seq(Call) /\ ToSet(<<>>) = {} /\ Once(<<>>)
  BY NoneOnce
<1>3. TypeInv
  <2>1. H!Service("none", "status") \in Operation
    BY DEF Operation
  <2> QED BY <1>1, <1>2, <2>1 DEF H!Init, TypeInv
<1>4. Waiting = {} /\ Working = {} /\ Changed = {}
  BY <1>1, <1>2 DEF Waiting, Working, Changed
<1>5. Apart
  BY <1>1, <1>2, <1>4 DEF Apart
<1>6. \A c \in Call : Tracked(c)
  BY <1>4 DEF H!Init, Tracked, Closed
<1> QED BY <1>3, <1>5, <1>6 DEF HostInv

LEMMA TakesOne ==
  ASSUME TypeInv, NEW c \in Call, H!Takes(c)
  PROVE  /\ effects' \in Seq(Call)
         /\ Changed' = Changed \cup (IF H!Classify(op[c]) = "read" THEN {} ELSE {c})
<1>1. effects \in Seq(Call)
  BY DEF TypeInv
<1>2. /\ Append(effects, c) \in Seq(Call)
      /\ ToSet(Append(effects, c)) = ToSet(effects) \cup {c}
  BY <1>1, AppendOnce
<1> QED BY <1>1, <1>2 DEF H!Takes, Changed

\* The steps that touch nothing on the host and move one call on.
LEMMA CallStep ==
  ASSUME Sound, HostInv, NEW c \in Call,
         UNCHANGED <<daemon, systemd, effects>>,
         \/ \E o \in Ops : H!Request(c, o)
         \/ \E approved \in BOOLEAN : H!Decide(c, approved)
         \/ H!Inspect(c) \/ H!Refuse(c) \/ H!GiveUp(c)
  PROVE  HostInv'
<1>1. Waiting' = Waiting /\ Working' = Working /\ Changed' = Changed /\ Apart'
  BY DEF HostInv, Apart, Waiting, Working, Changed
<1>2. CASE \E o \in Ops : H!Request(c, o)
  <2>1. PICK o \in Ops : H!Request(c, o)
    BY <1>2
  <2>2. TypeInv'
    BY <2>1 DEF H!Request, H!Goto, HostInv, TypeInv, Operation
  <2>3. ASSUME NEW d \in Call PROVE Tracked(d)'
    BY <1>1, <2>1 DEF H!Request, H!Goto, HostInv, TypeInv, Tracked, Closed
  <2> QED BY <1>1, <2>2, <2>3 DEF HostInv
<1>3. CASE \E approved \in BOOLEAN : H!Decide(c, approved)
  <2>1. PICK approved \in BOOLEAN : H!Decide(c, approved)
    BY <1>3
  <2>2. TypeInv'
    BY <2>1 DEF H!Decide, H!Goto, H!Answer, HostInv, TypeInv
  <2>3. ASSUME NEW d \in Call PROVE Tracked(d)'
    BY <1>1, <2>1 DEF H!Decide, H!Goto, H!Answer, HostInv, TypeInv, Tracked, Closed
  <2> QED BY <1>1, <2>2, <2>3 DEF HostInv
<1>4. CASE H!Inspect(c) \/ H!Refuse(c) \/ H!GiveUp(c)
  <2>1. /\ pc[c] \in {"idle", "approved", "waiting"}
        /\ \E what \in {"reading", "refused", "unexpected"} :
             /\ H!Answer(c, what)
             /\ what = "refused" => pc[c] # "waiting"
        /\ UNCHANGED <<policy, op>>
    BY <1>4 DEF H!Inspect, H!Refuse, H!GiveUp
  <2>2. TypeInv'
    BY <2>1 DEF H!Answer, HostInv, TypeInv
  <2>3. ASSUME NEW d \in Call PROVE Tracked(d)'
    BY <1>1, <2>1 DEF H!Answer, HostInv, TypeInv, Tracked, Closed
  <2> QED BY <1>1, <2>2, <2>3 DEF HostInv
<1> QED BY <1>2, <1>3, <1>4

\* A permitted call reaches the host, or the answer is there at once.
LEMMA DispatchStep ==
  ASSUME Sound, HostInv, NEW c \in Call, H!Act(c) \/ H!Systemctl(c) \/ H!Connect(c)
  PROVE  HostInv'
<1>1. /\ pc[c] = "approved" /\ told[c] = "nothing" /\ H!Classify(op[c]) # "refused"
      /\ c \notin Waiting \cup Working \cup Changed
      /\ UNCHANGED <<policy, op>>
      /\ op[c] \in Operation
  BY DEF H!Act, H!Systemctl, H!Connect, H!Dispatch, H!Permits, HostInv, TypeInv, Tracked
<1>2. CASE H!Act(c)
  <2>1. /\ UNCHANGED <<daemon, systemd>>
        /\ Waiting' = Waiting /\ Working' = Working
    BY <1>2 DEF H!Act, Waiting, Working
  <2>2. CASE H!Answer(c, "ok") /\ H!Takes(c)
    <3>1. /\ effects' \in Seq(Call)
          /\ Changed' = Changed \cup (IF H!Classify(op[c]) = "read" THEN {} ELSE {c})
      BY <2>2, TakesOne DEF HostInv
    <3>2. TypeInv'
      BY <1>1, <2>1, <2>2, <3>1 DEF H!Answer, HostInv, TypeInv
    <3>3. Apart'
      BY <1>1, <2>1, <3>1 DEF HostInv, Apart
    <3>4. ASSUME NEW d \in Call PROVE Tracked(d)'
      BY <1>1, <2>1, <2>2, <3>1 DEF H!Answer, HostInv, TypeInv, Tracked, Closed
    <3> QED BY <3>2, <3>3, <3>4 DEF HostInv
  <2>3. CASE H!Answer(c, "failed") /\ UNCHANGED effects
    <3>1. Changed' = Changed
      BY <2>3 DEF Changed
    <3>2. TypeInv'
      BY <1>1, <2>1, <2>3 DEF H!Answer, HostInv, TypeInv
    <3>3. Apart'
      BY <2>1, <3>1 DEF HostInv, Apart
    <3>4. ASSUME NEW d \in Call PROVE Tracked(d)'
      BY <1>1, <2>1, <2>3, <3>1 DEF H!Answer, HostInv, TypeInv, Tracked, Closed
    <3> QED BY <3>2, <3>3, <3>4 DEF HostInv
  <2> QED BY <1>2, <2>2, <2>3 DEF H!Act, H!Dispatch
<1>3. CASE H!Systemctl(c)
  <2>1. /\ UNCHANGED <<daemon, effects>>
        /\ Waiting' = Waiting /\ Changed' = Changed
    BY <1>3 DEF H!Systemctl, Waiting, Changed
  <2>2. CASE H!Goto(c, "waiting") /\ systemd' = Append(systemd, c)
    <3>1. /\ systemd' \in Seq(Call) /\ Working' = Working \cup {c}
          /\ Once(systemd) /\ c \notin Working => Once(systemd')
      BY <2>2, AppendOnce DEF HostInv, TypeInv, Working
    <3>2. TypeInv'
      BY <1>1, <2>1, <2>2, <3>1 DEF H!Goto, HostInv, TypeInv
    <3>3. Apart'
      BY <1>1, <2>1, <3>1 DEF HostInv, Apart
    <3>4. ASSUME NEW d \in Call PROVE Tracked(d)'
      BY <1>1, <2>1, <2>2, <3>1 DEF H!Goto, HostInv, TypeInv, Tracked, Closed
    <3> QED BY <3>2, <3>3, <3>4 DEF HostInv
  <2>3. CASE H!Answer(c, "unexpected") /\ UNCHANGED systemd
    <3>1. Working' = Working
      BY <2>3 DEF Working
    <3>2. TypeInv'
      BY <1>1, <2>1, <2>3 DEF H!Answer, HostInv, TypeInv
    <3>3. Apart'
      BY <2>1, <2>3, <3>1 DEF HostInv, Apart
    <3>4. ASSUME NEW d \in Call PROVE Tracked(d)'
      BY <1>1, <2>1, <2>3, <3>1 DEF H!Answer, HostInv, TypeInv, Tracked, Closed
    <3> QED BY <3>2, <3>3, <3>4 DEF HostInv
  <2> QED BY <1>3, <2>2, <2>3 DEF H!Systemctl, H!Dispatch
<1>4. CASE H!Connect(c)
  <2>1. /\ UNCHANGED <<systemd, effects>>
        /\ Working' = Working /\ Changed' = Changed
    BY <1>4 DEF H!Connect, Working, Changed
  <2>2. CASE /\ daemon' = [daemon EXCEPT !.backlog = Append(@, c)]
             /\ H!Goto(c, "waiting")
    <3>1. /\ daemon'.backlog = Append(daemon.backlog, c)
          /\ daemon'.up = daemon.up /\ daemon'.serving = daemon.serving
          /\ daemon.backlog \in Seq(Call)
          /\ daemon' \in [up: BOOLEAN, backlog: Seq(Call), serving: Call \cup {NoCall}]
      <4>1. /\ daemon.backlog \in Seq(Call)
            /\ daemon \in [up: BOOLEAN, backlog: Seq(Call), serving: Call \cup {NoCall}]
        BY DEF HostInv, TypeInv
      <4>2. Append(daemon.backlog, c) \in Seq(Call)
        BY <4>1, AppendOnce
      <4> QED BY <2>2, <4>1, <4>2
    <3>2. /\ Waiting' = Waiting \cup {c}
          /\ Once(daemon.backlog) /\ c \notin Waiting => Once(daemon'.backlog)
      BY <3>1, AppendOnce DEF Waiting
    <3>3. TypeInv'
      BY <1>1, <2>1, <2>2, <3>1 DEF H!Goto, HostInv, TypeInv
    <3>4. Apart'
      BY <1>1, <2>1, <3>2 DEF HostInv, Apart
    <3>5. ASSUME NEW d \in Call PROVE Tracked(d)'
      BY <1>1, <2>1, <2>2, <3>2 DEF H!Goto, HostInv, TypeInv, Tracked, Closed
    <3> QED BY <3>3, <3>4, <3>5 DEF HostInv
  <2>3. CASE H!Answer(c, "unexpected") /\ UNCHANGED daemon
    <3>1. Waiting' = Waiting
      BY <2>3 DEF Waiting
    <3>2. TypeInv'
      BY <1>1, <2>1, <2>3 DEF H!Answer, HostInv, TypeInv
    <3>3. Apart'
      BY <2>1, <2>3, <3>1 DEF HostInv, Apart
    <3>4. ASSUME NEW d \in Call PROVE Tracked(d)'
      BY <1>1, <2>1, <2>3, <3>1 DEF H!Answer, HostInv, TypeInv, Tracked, Closed
    <3> QED BY <3>2, <3>3, <3>4 DEF HostInv
  <2> QED BY <1>4, <2>2, <2>3 DEF H!Connect, H!Dispatch
<1> QED BY <1>2, <1>3, <1>4

\* An answer for whoever waits is never a lie: ok if the host has changed or was
\* only read, failed if the call is nowhere any more.
LEMMA DeliverStep ==
  ASSUME Sound, HostInv, NEW c \in Call, NEW ok \in BOOLEAN, H!Deliver(c, ok),
         UNCHANGED <<policy, op>>,
         c \in Waiting \cup Working,
         c \notin Waiting' \cup Working',
         Waiting' \cup Working' \cup Changed' \subseteq
           Waiting \cup Working \cup Changed,
         IF ok THEN Changed' = Changed \cup
                      (IF H!Classify(op[c]) = "read" THEN {} ELSE {c})
               ELSE Changed' = Changed
  PROVE  /\ pc' \in [Call -> {"idle", "asked", "approved", "waiting", "done"}]
         /\ told' \in [Call -> {"nothing", "reading", "ok", "failed", "refused", "denied",
                               "unexpected"}]
         /\ \A d \in Call : Tracked(d)'
<1>1. c \notin Changed /\ ~ok => c \notin Changed'
  BY DEF HostInv, Apart
<1>2. /\ pc \in [Call -> {"idle", "asked", "approved", "waiting", "done"}]
      /\ told \in [Call -> {"nothing", "reading", "ok", "failed", "refused", "denied",
                            "unexpected"}]
      /\ H!Classify(op[c]) # "refused" /\ pc[c] \in {"waiting", "done"} /\ ~Closed(c)
  BY DEF HostInv, TypeInv, Tracked
<1>3. CASE pc[c] = "waiting"
  <2>1. H!Answer(c, IF ok THEN "ok" ELSE "failed")
    BY <1>3 DEF H!Deliver
  <2>2. ASSUME NEW d \in Call PROVE Tracked(d)'
    <3>1. CASE d = c
      BY <1>1, <1>2, <2>1, <3>1 DEF H!Answer, Tracked, Closed, HostInv, Apart
    <3>2. CASE d # c
      BY <1>2, <2>1, <3>2 DEF H!Answer, Tracked, Closed, HostInv
    <3> QED BY <3>1, <3>2
  <2> QED BY <1>2, <2>1, <2>2 DEF H!Answer
<1>4. CASE pc[c] # "waiting"
  <2>1. pc' = pc /\ told' = told
    BY <1>4 DEF H!Deliver
  <2>2. ASSUME NEW d \in Call PROVE Tracked(d)'
    BY <1>2, <2>1 DEF Tracked, Closed, HostInv
  <2> QED BY <1>2, <2>1, <2>2
<1> QED BY <1>3, <1>4

LEMMA ServeStep == ASSUME Sound, HostInv, H!Serve PROVE HostInv'
<1> DEFINE c == Head(daemon.backlog)
           left == Tail(daemon.backlog)
<1>1. /\ daemon.backlog \in Seq(Call) /\ systemd \in Seq(Call) /\ effects \in Seq(Call)
      /\ daemon \in [up: BOOLEAN, backlog: Seq(Call), serving: Call \cup {NoCall}]
      /\ daemon.backlog # <<>> /\ Once(daemon.backlog)
  BY DEF H!Serve, HostInv, TypeInv, Apart
<1>2. /\ c \in Waiting /\ c \in Call /\ left \in Seq(Call)
      /\ ToSet(left) = Waiting \ {c} /\ Once(left)
  BY <1>1, TailOnce DEF Waiting
<1>3. H!Handle(c, left)
  BY DEF H!Serve
<1> HIDE DEF c, left
<1>4. policy' = policy /\ op' = op
  BY <1>3 DEF H!Handle
<1>5. CASE /\ daemon' = [daemon EXCEPT !.backlog = left] /\ systemd' = systemd
           /\ \/ H!Deliver(c, FALSE) /\ UNCHANGED effects
              \/ H!Deliver(c, TRUE) /\ H!Takes(c)
  <2>1. /\ Waiting' = Waiting \ {c} /\ Working' = Working
        /\ daemon' \in [up: BOOLEAN, backlog: Seq(Call), serving: Call \cup {NoCall}]
        /\ daemon'.backlog = left /\ c \notin Working /\ c \notin Changed
    BY <1>1, <1>2, <1>5 DEF Waiting, Working, HostInv, Apart
  <2>2. CASE H!Deliver(c, FALSE) /\ UNCHANGED effects
    <3>1. Changed' = Changed
      BY <2>2 DEF Changed
    <3>2. Apart'
      BY <1>2, <1>5, <2>1, <3>1 DEF HostInv, Apart
    <3>3. /\ pc' \in [Call -> {"idle", "asked", "approved", "waiting", "done"}]
          /\ told' \in [Call -> {"nothing", "reading", "ok", "failed", "refused", "denied",
                                "unexpected"}]
          /\ \A d \in Call : Tracked(d)'
      BY <1>2, <1>4, <2>1, <2>2, <3>1, DeliverStep DEF HostInv
    <3>4. TypeInv'
      BY <1>1, <1>4, <1>5, <2>1, <2>2, <3>3 DEF HostInv, TypeInv
    <3> QED BY <3>2, <3>3, <3>4 DEF HostInv
  <2>3. CASE H!Deliver(c, TRUE) /\ H!Takes(c)
    <3>1. /\ effects' \in Seq(Call)
          /\ Changed' = Changed \cup (IF H!Classify(op[c]) = "read" THEN {} ELSE {c})
      BY <1>2, <2>3, TakesOne DEF HostInv
    <3>2. Apart'
      BY <1>2, <1>5, <2>1, <3>1 DEF HostInv, Apart
    <3>3. /\ pc' \in [Call -> {"idle", "asked", "approved", "waiting", "done"}]
          /\ told' \in [Call -> {"nothing", "reading", "ok", "failed", "refused", "denied",
                                "unexpected"}]
          /\ \A d \in Call : Tracked(d)'
      BY <1>2, <1>4, <2>1, <2>3, <3>1, DeliverStep DEF HostInv
    <3>4. TypeInv'
      BY <1>1, <1>4, <1>5, <2>1, <3>1, <3>3 DEF HostInv, TypeInv
    <3> QED BY <3>2, <3>3, <3>4 DEF HostInv
  <2> QED BY <1>5, <2>2, <2>3
<1>6. CASE /\ daemon' = [daemon EXCEPT !.backlog = left, !.serving = c]
           /\ systemd' = Append(systemd, c)
           /\ UNCHANGED <<pc, told, effects>>
  <2>1. /\ systemd' \in Seq(Call) /\ Working' = Working \cup {c}
        /\ Once(systemd) /\ c \notin Working => Once(systemd')
    BY <1>1, <1>2, <1>6, AppendOnce DEF Working
  <2>2. /\ Waiting' = Waiting \ {c} /\ Changed' = Changed
        /\ daemon' \in [up: BOOLEAN, backlog: Seq(Call), serving: Call \cup {NoCall}]
        /\ daemon'.backlog = left
    BY <1>1, <1>2, <1>6 DEF Waiting, Changed
  <2>3. Apart'
    BY <1>2, <2>1, <2>2 DEF HostInv, Apart
  <2>4. ASSUME NEW d \in Call PROVE Tracked(d)'
    BY <1>2, <1>4, <1>6, <2>1, <2>2 DEF HostInv, Tracked, Closed
  <2>5. TypeInv'
    BY <1>4, <1>6, <2>1, <2>2 DEF HostInv, TypeInv
  <2> QED BY <2>3, <2>4, <2>5 DEF HostInv
<1> QED BY <1>3, <1>5, <1>6 DEF H!Handle

LEMMA DaemonStep ==
  ASSUME Sound, HostInv, H!DaemonDies \/ H!DaemonStarts
  PROVE  HostInv'
<1>1. Working' = Working /\ Changed' = Changed /\ systemd' = systemd /\ effects' = effects
  BY DEF H!DaemonDies, H!DaemonStarts, Working, Changed
<1>2. CASE H!DaemonDies
  <2>1. daemon' = [up |-> FALSE, backlog |-> <<>>, serving |-> NoCall]
    BY <1>2 DEF H!DaemonDies
  <2>2. <<>> \in Seq(Call) /\ Waiting' = {} /\ Once(daemon'.backlog)
    BY <2>1, NoneOnce DEF Waiting
  <2>3. /\ policy' = policy /\ op' = op
        /\ \A d \in Call :
             \/ pc'[d] = pc[d] /\ told'[d] = told[d]
             \/ pc[d] = "waiting" /\ pc'[d] = "done" /\ told'[d] = "unexpected"
    BY <1>2 DEF H!DaemonDies
  <2>4. TypeInv'
    <3>1. /\ pc' \in [Call -> {"idle", "asked", "approved", "waiting", "done"}]
          /\ told' \in [Call -> {"nothing", "reading", "ok", "failed", "refused", "denied",
                                "unexpected"}]
      BY <1>2 DEF H!DaemonDies, HostInv, TypeInv
    <3> QED BY <1>1, <2>1, <2>2, <2>3, <3>1 DEF HostInv, TypeInv
  <2>5. Apart'
    BY <1>1, <2>2 DEF HostInv, Apart
  <2>6. ASSUME NEW d \in Call PROVE Tracked(d)'
    BY <1>1, <2>2, <2>3 DEF HostInv, Tracked, Closed
  <2> QED BY <2>4, <2>5, <2>6 DEF HostInv
<1>3. CASE H!DaemonStarts
  <2>1. /\ daemon' = [daemon EXCEPT !.up = TRUE]
        /\ UNCHANGED <<policy, op, pc, told>>
    BY <1>3 DEF H!DaemonStarts
  <2>2. /\ daemon'.backlog = daemon.backlog
        /\ daemon' \in [up: BOOLEAN, backlog: Seq(Call), serving: Call \cup {NoCall}]
    BY <2>1 DEF HostInv, TypeInv
  <2>3. Waiting' = Waiting
    BY <2>2 DEF Waiting
  <2>4. TypeInv'
    BY <1>1, <2>1, <2>2 DEF HostInv, TypeInv
  <2>5. Apart'
    BY <1>1, <2>2, <2>3 DEF HostInv, Apart
  <2>6. ASSUME NEW d \in Call PROVE Tracked(d)'
    BY <1>1, <2>1, <2>3 DEF HostInv, Tracked, Closed
  <2> QED BY <2>4, <2>5, <2>6 DEF HostInv
<1> QED BY <1>2, <1>3

LEMMA JobStep ==
  ASSUME Sound, HostInv, NEW i, NEW ok \in BOOLEAN, H!JobEnds(i, ok)
  PROVE  HostInv'
<1> DEFINE c == systemd[i]
<1>1. /\ i \in DOMAIN systemd /\ systemd \in Seq(Call) /\ Once(systemd)
      /\ effects \in Seq(Call)
      /\ daemon \in [up: BOOLEAN, backlog: Seq(Call), serving: Call \cup {NoCall}]
  BY DEF H!JobEnds, HostInv, TypeInv, Apart
<1>2. /\ c \in Call /\ c \in Working
      /\ RemoveAt(systemd, i) \in Seq(Call)
      /\ ToSet(RemoveAt(systemd, i)) = Working \ {c}
      /\ Once(RemoveAt(systemd, i))
  BY <1>1, RemoveOnce DEF Working
<1>3. /\ IF ok THEN H!Takes(c) ELSE UNCHANGED effects
      /\ H!Deliver(c, ok)
      /\ systemd' = RemoveAt(systemd, i)
      /\ daemon' = [daemon EXCEPT !.serving = IF @ = c THEN NoCall ELSE @]
      /\ policy' = policy /\ op' = op
  BY DEF H!JobEnds, H!RemoveAt, RemoveAt
<1> HIDE DEF c
<1>4. /\ daemon'.backlog = daemon.backlog /\ Waiting' = Waiting
      /\ Working' = Working \ {c} /\ c \notin Waiting /\ c \notin Changed
      /\ daemon' \in [up: BOOLEAN, backlog: Seq(Call), serving: Call \cup {NoCall}]
  BY <1>1, <1>2, <1>3 DEF Waiting, Working, HostInv, Apart
<1>5. /\ effects' \in Seq(Call)
      /\ IF ok THEN Changed' = Changed \cup
                      (IF H!Classify(op[c]) = "read" THEN {} ELSE {c})
               ELSE Changed' = Changed
  <2>1. CASE ok
    BY <1>2, <1>3, <2>1, TakesOne DEF HostInv
  <2>2. CASE ~ok
    BY <1>1, <1>3, <2>2 DEF Changed
  <2> QED BY <2>1, <2>2
<1>6. Apart'
  BY <1>2, <1>3, <1>4, <1>5 DEF HostInv, Apart
<1>7. /\ pc' \in [Call -> {"idle", "asked", "approved", "waiting", "done"}]
      /\ told' \in [Call -> {"nothing", "reading", "ok", "failed", "refused", "denied",
                            "unexpected"}]
      /\ \A d \in Call : Tracked(d)'
  BY <1>2, <1>3, <1>4, <1>5, DeliverStep DEF HostInv
<1>8. TypeInv'
  BY <1>2, <1>3, <1>4, <1>5, <1>7 DEF HostInv, TypeInv
<1> QED BY <1>6, <1>7, <1>8 DEF HostInv

LEMMA HostInvStep == ASSUME Sound, HostInv, [H!Next]_(H!vars) PROVE HostInv'
<1>1. ASSUME NEW c \in Call,
             \/ \E o \in Ops : H!Request(c, o)
             \/ \E approved \in BOOLEAN : H!Decide(c, approved)
             \/ H!Inspect(c) \/ H!Refuse(c) \/ H!GiveUp(c)
      PROVE  HostInv'
  <2>1. UNCHANGED <<daemon, systemd, effects>>
    BY <1>1 DEF H!Request, H!Decide, H!Inspect, H!Refuse, H!GiveUp
  <2> QED BY <1>1, <2>1, CallStep
<1>2. ASSUME NEW c \in Call, H!Act(c) \/ H!Systemctl(c) \/ H!Connect(c) PROVE HostInv'
  BY <1>2, DispatchStep
<1>3. CASE H!Serve
  BY <1>3, ServeStep
<1>4. CASE H!DaemonDies \/ H!DaemonStarts
  BY <1>4, DaemonStep
<1>5. ASSUME NEW i \in 1..H!Cardinality(Call), NEW ok \in BOOLEAN, H!JobEnds(i, ok)
      PROVE  HostInv'
  BY <1>5, JobStep
<1>6. CASE UNCHANGED H!vars
  BY <1>6 DEF H!vars, HostInv, TypeInv, Apart, Tracked, Closed, Waiting, Working, Changed
<1> QED BY <1>1, <1>2, <1>3, <1>4, <1>5, <1>6 DEF H!Next

\* However late a daemon or systemd gets to a call, and whoever has stopped
\* waiting for it: an "ok" is in effect, what was refused, denied or failed
\* never is, and nothing protected is touched.
THEOREM AnswersAreTrue == Sound => (H!Spec => []AnswerIsTrue)
<1> SUFFICES ASSUME Sound PROVE H!Spec => []H!AnswerIsTrue
  BY DEF AnswerIsTrue
<1>1. H!Init => HostInv
  BY HostInvInit
<1>2. HostInv /\ [H!Next]_(H!vars) => HostInv'
  BY HostInvStep
<1>3. HostInv => H!AnswerIsTrue
  <2> SUFFICES ASSUME HostInv, NEW c \in Call
               PROVE  /\ told[c] = "ok" /\ H!Classify(op[c]) = "mutate" => c \in Changed
                      /\ told[c] \in {"failed", "refused", "denied"} => c \notin Changed
                      /\ c \in Changed => ~H!Protected(op[c])
    BY DEF H!AnswerIsTrue, Changed, ToSet, H!ToSet
  <2>1. op[c] \in Operation /\ Tracked(c)
    BY DEF HostInv, TypeInv
  <2> QED BY <2>1, ProtectedIsRefused DEF Tracked, Closed
<1> QED BY <1>1, <1>2, <1>3, PTL DEF H!Spec


-----------------------------------------------------------------------------
(* The order of calls for the same thing.                                  *)

Before(s, e, l) == \A i, j \in DOMAIN s : s[i] = e /\ s[j] = l => i < j

\* From the backlog to systemd and to the host: nowhere behind the later one.
Ordered(e, l) ==
  /\ e \in Waiting => l \notin Working \cup Changed
  /\ e \in Working => l \notin Changed
  /\ Before(daemon.backlog, e, l) /\ Before(systemd, e, l) /\ Before(effects, e, l)

\* Only services wait in systemd, and in one backlog or the other.
Queued ==
  /\ \A c \in Working : op[c].kind = "service"
  /\ policy.backend = "direct" => daemon.backlog = <<>>

Elder ==
  /\ prior \in [Call -> SUBSET Call]
  /\ \A l \in Call : \A e \in prior[l] :
       /\ e # l /\ pc[e] = "done" /\ pc[l] \in {"waiting", "done"}
       /\ H!SameThing(e, l) => Ordered(e, l)

OrderInv == HostInv /\ Queued /\ Elder

LEMMA BeforeAppend ==
  ASSUME NEW S, NEW s \in Seq(S), NEW x \in S, NEW e, NEW l, e # l,
         Before(s, e, l), x = e => l \notin ToSet(s)
  PROVE  Before(Append(s, x), e, l)
<1> DEFINE t == Append(s, x)
<1>1. /\ Len(s) \in Nat
      /\ DOMAIN s = 1..Len(s) /\ DOMAIN t = 1..Len(s) + 1
      /\ \A i \in 1..Len(s) : t[i] = s[i]
      /\ t[Len(s) + 1] = x
  OBVIOUS
<1> HIDE DEF t
<1> SUFFICES ASSUME NEW i \in DOMAIN t, NEW j \in DOMAIN t, t[i] = e, t[j] = l
             PROVE  i < j
  BY DEF Before, t
<1>2. CASE i = Len(s) + 1
  <2>1. j \in DOMAIN s /\ s[j] = l
    BY <1>1, <1>2
  <2> QED BY <1>1, <1>2, <2>1 DEF ToSet
<1>3. CASE i \in DOMAIN s /\ j \in DOMAIN s
  BY <1>1, <1>3 DEF Before
<1>4. CASE i \in DOMAIN s /\ j = Len(s) + 1
  BY <1>1, <1>4
<1> QED BY <1>1, <1>2, <1>3, <1>4

LEMMA BeforeRemove ==
  ASSUME NEW S, NEW s \in Seq(S), NEW n \in DOMAIN s, NEW e, NEW l, Before(s, e, l)
  PROVE  Before(RemoveAt(s, n), e, l)
<1> DEFINE t == RemoveAt(s, n)
<1>1. /\ Len(s) \in Nat \ {0} /\ n \in 1..Len(s) /\ DOMAIN s = 1..Len(s)
  OBVIOUS
<1>2. /\ DOMAIN t = 1..Len(s) - 1
      /\ \A i \in 1..Len(s) - 1 : t[i] = IF i < n THEN s[i] ELSE s[i + 1]
  BY RemoveElements
<1> HIDE DEF t
<1> SUFFICES ASSUME NEW i \in DOMAIN t, NEW j \in DOMAIN t, t[i] = e, t[j] = l
             PROVE  i < j
  BY DEF Before, t
<1> DEFINE a == IF i < n THEN i ELSE i + 1
           b == IF j < n THEN j ELSE j + 1
<1>3. a \in DOMAIN s /\ b \in DOMAIN s /\ s[a] = e /\ s[b] = l
  BY <1>1, <1>2
<1>4. a < b
  BY <1>3 DEF Before
<1> QED BY <1>1, <1>2, <1>4

LEMMA BeforeNothing == ASSUME NEW e, NEW l PROVE Before(<<>>, e, l)
  BY DEF Before

LEMMA TakesBefore ==
  ASSUME HostInv, NEW c \in Call, H!Takes(c),
         NEW e, NEW l, e # l, Before(effects, e, l), c = e => l \notin Changed
  PROVE  Before(effects', e, l)
<1>1. effects \in Seq(Call)
  BY DEF HostInv, TypeInv
<1>2. Before(Append(effects, c), e, l)
  BY <1>1, BeforeAppend DEF Changed
<1> QED BY <1>2 DEF H!Takes

\* The steps that dispatch nothing.
LEMMA SamePrior ==
  ASSUME OrderInv, UNCHANGED prior,
         \A c \in Call : pc[c] \in {"waiting", "done"} =>
           /\ pc'[c] \in {"waiting", "done"}
           /\ pc[c] = "done" => pc'[c] = "done"
           /\ op'[c] = op[c],
         \A e, l \in Call : e # l /\ H!SameThing(e, l) /\ Ordered(e, l) => Ordered(e, l)'
  PROVE  Elder'
<1>1. prior \in [Call -> SUBSET Call]
  BY DEF OrderInv, Elder
<1>2. ASSUME NEW l \in Call, NEW e \in prior[l]
      PROVE  /\ e # l /\ pc'[e] = "done" /\ pc'[l] \in {"waiting", "done"}
             /\ H!SameThing(e, l)' => Ordered(e, l)'
  <2>1. /\ e \in Call /\ e # l /\ pc[e] = "done" /\ pc[l] \in {"waiting", "done"}
        /\ H!SameThing(e, l) => Ordered(e, l)
    BY <1>1, <1>2 DEF OrderInv, Elder
  <2>2. op'[e] = op[e] /\ op'[l] = op[l]
    BY <2>1
  <2> QED BY <2>1, <2>2 DEF H!SameThing
<1> QED BY <1>1, <1>2 DEF Elder

LEMMA OrderInit == ASSUME Sound, H!Init PROVE OrderInv
<1>1. HostInv
  BY HostInvInit
<1>2. Working = {} /\ daemon.backlog = <<>>
  BY NoneOnce DEF H!Init, Working
<1>3. prior \in [Call -> SUBSET Call] /\ \A l \in Call : prior[l] = {}
  BY DEF H!Init
<1> QED BY <1>1, <1>2, <1>3 DEF OrderInv, Queued, Elder

LEMMA CallOrder ==
  ASSUME Sound, OrderInv, NEW c \in Call,
         UNCHANGED <<policy, daemon, systemd, effects, prior>>,
         \/ \E o \in Ops : H!Request(c, o)
         \/ \E approved \in BOOLEAN : H!Decide(c, approved)
         \/ H!Inspect(c) \/ H!Refuse(c) \/ H!GiveUp(c)
  PROVE  Queued' /\ Elder'
<1>1. /\ pc \in [Call -> {"idle", "asked", "approved", "waiting", "done"}]
      /\ op \in [Call -> Operation]
      /\ \A d \in Working : d \in Call /\ pc[d] \in {"waiting", "done"}
  <2>1. systemd \in Seq(Call)
    BY DEF OrderInv, HostInv, TypeInv
  <2>2. \A d \in Working : d \in Call
    BY <2>1 DEF Working, ToSet
  <2> QED BY <2>2 DEF OrderInv, HostInv, TypeInv, Tracked
<1>2. \A d \in Call : pc[d] \in {"waiting", "done"} =>
        /\ pc'[d] \in {"waiting", "done"}
        /\ pc[d] = "done" => pc'[d] = "done"
        /\ op'[d] = op[d]
  BY <1>1 DEF H!Request, H!Decide, H!Inspect, H!Refuse, H!GiveUp, H!Goto, H!Answer
<1>3. Waiting' = Waiting /\ Working' = Working /\ Changed' = Changed
  BY DEF Waiting, Working, Changed
<1>4. \A e, l \in Call : Ordered(e, l) => Ordered(e, l)'
  BY <1>3 DEF Ordered
<1>5. Elder'
  BY <1>2, <1>4, SamePrior
<1> QED BY <1>1, <1>2, <1>3, <1>5 DEF OrderInv, Queued

\* What is dispatched gets behind whatever is over and may still take effect.
LEMMA DispatchOrder ==
  ASSUME Sound, OrderInv, NEW c \in Call, H!Act(c) \/ H!Systemctl(c) \/ H!Connect(c)
  PROVE  Queued' /\ Elder'
<1>1. /\ pc[c] = "approved" /\ c \notin Waiting \cup Working \cup Changed
      /\ UNCHANGED <<policy, op>>
      /\ prior' = [prior EXCEPT ![c] = H!Over]
      /\ \A d \in Call \ {c} : pc'[d] = pc[d]
      /\ pc'[c] \in {"waiting", "done"}
  BY DEF H!Act, H!Systemctl, H!Connect, H!Dispatch, H!Answer, H!Goto, OrderInv, HostInv,
         TypeInv, Tracked
<1>2. daemon.backlog \in Seq(Call) /\ systemd \in Seq(Call) /\ effects \in Seq(Call)
  BY DEF OrderInv, HostInv, TypeInv
<1>3. /\ Working' = Working \/ (Working' = Working \cup {c} /\ op[c].kind = "service")
      /\ policy.backend = "direct" => daemon'.backlog = daemon.backlog
  <2>1. CASE H!Act(c) \/ H!Connect(c)
    BY <2>1 DEF H!Act, H!Connect, H!Dispatch, Working
  <2>2. CASE H!Systemctl(c)
    <3>1. /\ UNCHANGED daemon /\ op[c].kind = "service"
          /\ systemd' \in {systemd, Append(systemd, c)}
      BY <2>2 DEF H!Systemctl, H!Dispatch
    <3>2. ToSet(Append(systemd, c)) = ToSet(systemd) \cup {c}
      BY <1>2, AppendOnce
    <3> QED BY <3>1, <3>2 DEF Working
  <2> QED BY <2>1, <2>2
<1>4. Queued'
  BY <1>1, <1>3 DEF OrderInv, Queued
<1>5. ASSUME NEW e \in Call, e # c PROVE Ordered(e, c)
  BY <1>1 DEF Ordered, Before, Waiting, Working, Changed, ToSet
<1>6. ASSUME NEW e \in Call, NEW l \in Call, e # l, e # c, H!SameThing(e, l), Ordered(e, l)
      PROVE  Ordered(e, l)'
  <2>1. CASE H!Act(c)
    <3>1. /\ UNCHANGED <<daemon, systemd>> /\ Waiting' = Waiting /\ Working' = Working
          /\ Waiting = {} /\ op[c].kind # "service"
      BY <2>1, NoneOnce DEF H!Act, H!Dispatch, Waiting, Working, OrderInv, Queued
    <3>2. CASE UNCHANGED effects
      BY <1>6, <3>1, <3>2 DEF Ordered, Changed
    <3>3. CASE H!Takes(c)
      <4>1. Before(effects', e, l)
        BY <1>6, <3>3, TakesBefore DEF OrderInv, Ordered
      <4>2. Changed' \subseteq Changed \cup {c}
        BY <3>3, TakesOne DEF OrderInv, HostInv
      <4>3. l = c => e \notin Working
        BY <1>6, <3>1 DEF H!SameThing, OrderInv, Queued
      <4> QED BY <1>6, <3>1, <4>1, <4>2, <4>3 DEF Ordered
    <3> QED BY <2>1, <3>2, <3>3 DEF H!Act, H!Dispatch
  <2>2. CASE H!Systemctl(c)
    <3>1. /\ UNCHANGED <<daemon, effects>> /\ Waiting' = Waiting /\ Changed' = Changed
          /\ Waiting = {}
      BY <2>2, NoneOnce DEF H!Systemctl, H!Dispatch, Waiting, Changed, OrderInv, Queued
    <3>2. CASE UNCHANGED systemd
      BY <1>6, <3>1, <3>2 DEF Ordered, Working
    <3>3. CASE systemd' = Append(systemd, c)
      <4>1. Before(systemd', e, l)
        BY <1>2, <1>6, <3>3, BeforeAppend DEF Ordered
      <4>2. Working' = Working \cup {c}
        BY <1>2, <3>3, AppendOnce DEF Working
      <4> QED BY <1>6, <3>1, <4>1, <4>2 DEF Ordered
    <3> QED BY <2>2, <3>2, <3>3 DEF H!Systemctl, H!Dispatch
  <2>3. CASE H!Connect(c)
    <3>1. UNCHANGED <<systemd, effects>> /\ Working' = Working /\ Changed' = Changed
      BY <2>3 DEF H!Connect, Working, Changed
    <3>2. CASE UNCHANGED daemon
      BY <1>6, <3>1, <3>2 DEF Ordered, Waiting
    <3>3. CASE daemon' = [daemon EXCEPT !.backlog = Append(@, c)]
      <4>1. daemon'.backlog = Append(daemon.backlog, c)
        BY <3>3 DEF OrderInv, HostInv, TypeInv
      <4>2. Before(daemon'.backlog, e, l)
        BY <1>2, <1>6, <4>1, BeforeAppend DEF Ordered
      <4>3. Waiting' = Waiting \cup {c}
        BY <1>2, <4>1, AppendOnce DEF Waiting
      <4> QED BY <1>6, <3>1, <4>2, <4>3 DEF Ordered
    <3> QED BY <2>3, <3>2, <3>3 DEF H!Connect, H!Dispatch
  <2> QED BY <2>1, <2>2, <2>3
<1>7. prior' \in [Call -> SUBSET Call]
  BY <1>1 DEF OrderInv, Elder, H!Over
<1>8. ASSUME NEW l \in Call, NEW e \in prior'[l]
      PROVE  /\ e # l /\ pc'[e] = "done" /\ pc'[l] \in {"waiting", "done"}
             /\ H!SameThing(e, l)' => Ordered(e, l)'
  <2>1. H!SameThing(e, l)' <=> H!SameThing(e, l)
    BY <1>1 DEF H!SameThing
  <2>2. CASE l = c
    <3>1. e \in Call /\ e # c /\ pc[e] = "done"
      BY <1>1, <1>8, <2>2 DEF H!Over, OrderInv, Elder
    <3>2. H!SameThing(e, c) => Ordered(e, c)'
      BY <1>5, <1>6, <3>1
    <3> QED BY <1>1, <2>1, <2>2, <3>1, <3>2
  <2>3. CASE l # c
    <3>1. e \in prior[l] /\ e \in Call
      BY <1>1, <1>8, <2>3 DEF OrderInv, Elder
    <3>2. /\ e # l /\ pc[e] = "done" /\ pc[l] \in {"waiting", "done"}
          /\ H!SameThing(e, l) => Ordered(e, l)
      BY <3>1 DEF OrderInv, Elder
    <3>3. e # c
      BY <1>1, <3>2
    <3> QED BY <1>1, <1>6, <2>1, <2>3, <3>1, <3>2, <3>3
  <2> QED BY <2>2, <2>3
<1> QED BY <1>4, <1>7, <1>8 DEF Elder

LEMMA DeliverMoves ==
  ASSUME HostInv, NEW c \in Call, NEW ok, H!Deliver(c, ok)
  PROVE  \A d \in Call : pc[d] \in {"waiting", "done"} =>
           /\ pc'[d] \in {"waiting", "done"}
           /\ pc[d] = "done" => pc'[d] = "done"
  BY DEF H!Deliver, H!Answer, HostInv, TypeInv

\* The daemon takes the connection that came first: nothing is before it.
LEMMA ServeOrder == ASSUME Sound, OrderInv, H!Serve PROVE Queued' /\ Elder'
<1> DEFINE c == Head(daemon.backlog)
           left == Tail(daemon.backlog)
<1>1. /\ daemon.backlog \in Seq(Call) /\ systemd \in Seq(Call) /\ effects \in Seq(Call)
      /\ daemon \in [up: BOOLEAN, backlog: Seq(Call), serving: Call \cup {NoCall}]
      /\ daemon.backlog # <<>> /\ Once(daemon.backlog)
      /\ policy.backend # "direct"
  BY DEF H!Serve, OrderInv, Queued, HostInv, TypeInv, Apart
<1>2. /\ c \in Waiting /\ c \in Call /\ ToSet(left) = Waiting \ {c}
      /\ left = RemoveAt(daemon.backlog, 1) /\ 1 \in DOMAIN daemon.backlog
      /\ c = daemon.backlog[1]
  BY <1>1, TailOnce, TailRemoves DEF Waiting
<1>3. H!Handle(c, left)
  BY DEF H!Serve
<1>4. ASSUME NEW e \in Call, NEW l \in Call, Ordered(e, l) PROVE Before(left, e, l)
  <2>1. Before(daemon.backlog, e, l)
    BY <1>4 DEF Ordered
  <2>2. Before(RemoveAt(daemon.backlog, 1), e, l)
    BY <1>1, <1>2, <2>1, BeforeRemove
  <2> QED BY <1>2, <2>2
<1>5. \A e, l \in Call : e # l /\ l = c /\ Ordered(e, l) => e \notin Waiting
  BY <1>1, <1>2 DEF Ordered, Before, Waiting, ToSet
<1> HIDE DEF c, left
<1>6. policy' = policy /\ op' = op /\ prior' = prior
  BY <1>3 DEF H!Handle
<1>7. CASE /\ daemon' = [daemon EXCEPT !.backlog = left] /\ systemd' = systemd
           /\ op[c].kind # "service" \/ UNCHANGED effects
           /\ \/ H!Deliver(c, FALSE) /\ UNCHANGED effects
              \/ H!Deliver(c, TRUE) /\ H!Takes(c)
  <2>1. /\ daemon'.backlog = left /\ Waiting' = Waiting \ {c} /\ Working' = Working
        /\ c \notin Working
    BY <1>1, <1>2, <1>7 DEF Waiting, Working, OrderInv, HostInv, Apart
  <2>2. Queued'
    BY <1>1, <1>6, <2>1 DEF OrderInv, Queued
  <2>3. ASSUME NEW e \in Call, NEW l \in Call, e # l, H!SameThing(e, l), Ordered(e, l)
        PROVE  Ordered(e, l)'
    <3>1. CASE UNCHANGED effects
      BY <1>4, <1>7, <2>1, <2>3, <3>1 DEF Ordered, Changed
    <3>2. CASE op[c].kind # "service" /\ H!Takes(c)
      <4>1. Changed' \subseteq Changed \cup {c}
        BY <1>2, <3>2, TakesOne DEF OrderInv, HostInv
      <4>2. c = e => l \notin Changed
        BY <1>2, <2>3 DEF Ordered
      <4>3. Before(effects', e, l)
        BY <1>2, <2>3, <3>2, <4>2, TakesBefore DEF OrderInv, Ordered
      <4>4. l = c => e \notin Waiting /\ e \notin Working
        BY <1>5, <2>3, <3>2 DEF H!SameThing, OrderInv, Queued
      <4> QED BY <1>4, <1>7, <2>1, <2>3, <4>1, <4>3, <4>4 DEF Ordered
    <3> QED BY <1>7, <3>1, <3>2
  <2>4. \A d \in Call : pc[d] \in {"waiting", "done"} =>
          /\ pc'[d] \in {"waiting", "done"}
          /\ pc[d] = "done" => pc'[d] = "done"
    BY <1>2, <1>7, DeliverMoves DEF OrderInv
  <2>5. Elder'
    BY <1>6, <2>3, <2>4, SamePrior
  <2> QED BY <2>2, <2>5
<1>8. CASE /\ daemon' = [daemon EXCEPT !.backlog = left, !.serving = c]
           /\ systemd' = Append(systemd, c) /\ op[c].kind = "service"
           /\ UNCHANGED <<pc, told, effects>>
  <2>1. /\ daemon'.backlog = left /\ Waiting' = Waiting \ {c} /\ Changed' = Changed
        /\ Working' = Working \cup {c}
    BY <1>1, <1>2, <1>8, AppendOnce DEF Waiting, Working, Changed
  <2>2. Queued'
    BY <1>1, <1>6, <1>8, <2>1 DEF OrderInv, Queued
  <2>3. ASSUME NEW e \in Call, NEW l \in Call, e # l, H!SameThing(e, l), Ordered(e, l)
        PROVE  Ordered(e, l)'
    <3>1. c = e => l \notin Working \cup Changed
      BY <1>2, <2>3 DEF Ordered
    <3>2. Before(systemd', e, l)
      BY <1>1, <1>2, <1>8, <2>3, <3>1, BeforeAppend DEF Ordered, Working
    <3> QED BY <1>4, <1>5, <1>8, <2>1, <2>3, <3>1, <3>2 DEF Ordered
  <2>4. Elder'
    BY <1>6, <1>8, <2>3, SamePrior
  <2> QED BY <2>2, <2>4
<1> QED BY <1>3, <1>7, <1>8 DEF H!Handle

LEMMA DaemonOrder ==
  ASSUME Sound, OrderInv, H!DaemonDies \/ H!DaemonStarts
  PROVE  Queued' /\ Elder'
<1>1. /\ UNCHANGED <<policy, op, prior, systemd, effects>>
      /\ Working' = Working /\ Changed' = Changed
      /\ daemon'.backlog \in {<<>>, daemon.backlog}
      /\ \A d \in Call : pc'[d] = pc[d] \/ (pc[d] = "waiting" /\ pc'[d] = "done")
  BY DEF H!DaemonDies, H!DaemonStarts, Working, Changed, OrderInv, HostInv, TypeInv
<1>2. Waiting' \subseteq Waiting
  BY <1>1, NoneOnce DEF Waiting
<1>3. \A e, l \in Call : Ordered(e, l) => Ordered(e, l)'
  BY <1>1, <1>2, BeforeNothing DEF Ordered
<1>4. Elder'
  BY <1>1, <1>3, SamePrior
<1> QED BY <1>1, <1>4 DEF OrderInv, Queued

\* systemd ends the job of a unit that was asked for first.
LEMMA JobOrder ==
  ASSUME Sound, OrderInv, NEW i, NEW ok \in BOOLEAN, H!JobEnds(i, ok)
  PROVE  Queued' /\ Elder'
<1> DEFINE c == systemd[i]
<1>1. /\ i \in DOMAIN systemd /\ systemd \in Seq(Call) /\ Once(systemd)
      /\ daemon \in [up: BOOLEAN, backlog: Seq(Call), serving: Call \cup {NoCall}]
      /\ \A j \in 1..i-1 : op[systemd[j]].target # op[c].target
  BY DEF H!JobEnds, OrderInv, HostInv, TypeInv, Apart
<1>2. /\ c \in Call /\ c \in Working
      /\ ToSet(RemoveAt(systemd, i)) = Working \ {c}
  BY <1>1, RemoveOnce DEF Working
<1>3. /\ IF ok THEN H!Takes(c) ELSE UNCHANGED effects
      /\ H!Deliver(c, ok)
      /\ systemd' = RemoveAt(systemd, i)
      /\ daemon' = [daemon EXCEPT !.serving = IF @ = c THEN NoCall ELSE @]
      /\ UNCHANGED <<policy, op, prior>>
  BY DEF H!JobEnds, H!RemoveAt, RemoveAt
<1>4. /\ daemon'.backlog = daemon.backlog /\ Waiting' = Waiting
      /\ Working' = Working \ {c} /\ c \notin Waiting
  BY <1>1, <1>2, <1>3 DEF Waiting, Working, OrderInv, HostInv, Apart
<1>5. Changed' \subseteq Changed \cup {c}
  <2>1. CASE ok
    BY <1>2, <1>3, <2>1, TakesOne DEF OrderInv, HostInv
  <2>2. CASE ~ok
    BY <1>3, <2>2 DEF Changed
  <2> QED BY <2>1, <2>2
<1>6. \A e, l \in Call : Ordered(e, l) => Before(systemd', e, l)
  BY <1>1, <1>3, BeforeRemove DEF Ordered
<1>7. ASSUME NEW e \in Call, NEW l \in Call, e # l, H!SameThing(e, l), Ordered(e, l), l = c
      PROVE  e \notin Waiting /\ e \notin Working
  <2>1. e \notin Waiting
    BY <1>2, <1>7 DEF Ordered
  <2>2. ASSUME e \in Working PROVE FALSE
    <3>1. PICK j \in DOMAIN systemd : systemd[j] = e
      BY <2>2 DEF Working, ToSet
    <3>2. j < i
      BY <1>1, <1>7, <3>1 DEF Ordered, Before
    <3>3. j \in 1..i-1
      BY <1>1, <3>1, <3>2
    <3> QED BY <1>1, <1>7, <3>1, <3>3 DEF H!SameThing
  <2> QED BY <2>1, <2>2
<1> HIDE DEF c
<1>8. ASSUME NEW e \in Call, NEW l \in Call, e # l, H!SameThing(e, l), Ordered(e, l)
      PROVE  Ordered(e, l)'
  <2>1. c = e => l \notin Changed
    BY <1>2, <1>8 DEF Ordered
  <2>2. Before(effects', e, l)
    <3>1. CASE ok
      BY <1>2, <1>3, <1>8, <2>1, <3>1, TakesBefore DEF OrderInv, Ordered
    <3>2. CASE ~ok
      BY <1>3, <1>8, <3>2 DEF Ordered
    <3> QED BY <3>1, <3>2
  <2> QED BY <1>4, <1>5, <1>6, <1>7, <1>8, <2>2 DEF Ordered
<1>9. \A d \in Call : pc[d] \in {"waiting", "done"} =>
        /\ pc'[d] \in {"waiting", "done"}
        /\ pc[d] = "done" => pc'[d] = "done"
  BY <1>2, <1>3, DeliverMoves DEF OrderInv
<1>10. Elder'
  BY <1>3, <1>8, <1>9, SamePrior
<1>11. Queued'
  BY <1>3, <1>4 DEF OrderInv, Queued
<1> QED BY <1>10, <1>11

LEMMA OrderStep == ASSUME Sound, OrderInv, [H!Next]_(H!vars) PROVE OrderInv'
<1>1. HostInv'
  BY HostInvStep DEF OrderInv
<1>2. ASSUME NEW c \in Call,
             \/ \E o \in Ops : H!Request(c, o)
             \/ \E approved \in BOOLEAN : H!Decide(c, approved)
             \/ H!Inspect(c) \/ H!Refuse(c) \/ H!GiveUp(c)
      PROVE  OrderInv'
  <2>1. UNCHANGED <<policy, daemon, systemd, effects, prior>>
    BY <1>2 DEF H!Request, H!Decide, H!Inspect, H!Refuse, H!GiveUp
  <2> QED BY <1>1, <1>2, <2>1, CallOrder DEF OrderInv
<1>3. ASSUME NEW c \in Call, H!Act(c) \/ H!Systemctl(c) \/ H!Connect(c) PROVE OrderInv'
  BY <1>1, <1>3, DispatchOrder DEF OrderInv
<1>4. CASE H!Serve
  BY <1>1, <1>4, ServeOrder DEF OrderInv
<1>5. CASE H!DaemonDies \/ H!DaemonStarts
  BY <1>1, <1>5, DaemonOrder DEF OrderInv
<1>6. ASSUME NEW i \in 1..H!Cardinality(Call), NEW ok \in BOOLEAN, H!JobEnds(i, ok)
      PROVE  OrderInv'
  BY <1>1, <1>6, JobOrder DEF OrderInv
<1>7. CASE UNCHANGED H!vars
  <2>1. UNCHANGED <<policy, op, pc, prior, daemon, systemd, effects>>
    BY <1>7 DEF H!vars
  <2>2. \A e, l \in Call : Ordered(e, l) => Ordered(e, l)'
    BY <2>1 DEF Ordered, Waiting, Working, Changed
  <2>3. Elder'
    BY <2>1, <2>2, SamePrior
  <2> QED BY <1>1, <2>1, <2>3 DEF OrderInv, Queued, Working
<1> QED BY <1>2, <1>3, <1>4, <1>5, <1>6, <1>7 DEF H!Next

\* However often the daemon dies, whoever gives up and whichever backend carries
\* calls out: a call that was over for the model when a later one for the same
\* thing got to the host takes effect before it or never.
THEOREM LaterCallsPrevail == Sound => (H!Spec => []LaterCallPrevails)
<1> SUFFICES ASSUME Sound PROVE H!Spec => []H!LaterCallPrevails
  BY DEF LaterCallPrevails
<1>1. H!Init => OrderInv
  BY OrderInit
<1>2. OrderInv /\ [H!Next]_(H!vars) => OrderInv'
  BY OrderStep
<1>3. OrderInv => H!LaterCallPrevails
  <2> SUFFICES ASSUME OrderInv, NEW i \in DOMAIN effects, NEW j \in DOMAIN effects,
                      effects[i] \in prior[effects[j]],
                      H!SameThing(effects[i], effects[j])
               PROVE  i < j
    BY DEF H!LaterCallPrevails
  <2>1. effects[j] \in Call
    BY DEF OrderInv, HostInv, TypeInv
  <2> QED BY <2>1 DEF OrderInv, Elder, Ordered, Before
<1> QED BY <1>1, <1>2, <1>3, PTL DEF H!Spec

Number == [type: {"number"}, is: Int]
Text == [type: {"text"}, is: STRING]
Truth == [type: {"truth"}, is: BOOLEAN]
Reading == Number \cup Text \cup Truth \cup {C!Unobservable}

\* What probes answer, and what conditions may say (ProbeKind, Operator and the
\* types of Condition.value).
Sensible ==
  /\ \A h \in Hosts :
       /\ h.sysctl \in Text /\ h.unit \in Truth \cup {C!Unobservable}
       /\ h.memory \in Number \cup {C!Unobservable}
       /\ h.disk \in Number \cup {C!Unobservable}
       /\ h.port \in BOOLEAN
  /\ \A c \in Conditions :
       /\ c.probe \in {"sysctl", "memory", "disk", "port", "process", "service"}
       /\ c.operator \in {"eq", "ne", "lt", "lte", "gt", "gte"}
       /\ c.value \in Number \cup Text \cup Truth
  /\ \A s \in DOMAIN NumberOf : NumberOf[s] \in Int

\* Every verdict that a condition is met was right when it was given.
VerdictsAreTrue ==
  \A i \in DOMAIN results :
    results[i].met => truth[i] \/ C!Blind(asked[i], results[i].seen)

ProgressInv ==
  /\ facts \in Hosts
  /\ asked \in Seq(Conditions)
  /\ results \in Seq([met: BOOLEAN, seen: Reading])
  /\ truth \in Seq(BOOLEAN)
  /\ Len(truth) = Len(results) /\ Len(results) <= Len(asked)
  /\ outcome \in {"open", "verified", "failed"}
  /\ outcome = "verified" =>
       Len(results) = Len(asked) /\ \A i \in DOMAIN results : results[i].met

VerdictInv == ProgressInv /\ VerdictsAreTrue

\* The comparison of conditions.py agrees with what the two values mean, but for
\* a yes or no beside a number.
LEMMA LooselyIsSame ==
  ASSUME Sensible, NEW a \in Number \cup Text \cup Truth,
         NEW b \in Number \cup Text \cup Truth,
         {a.type, b.type} # {"truth", "number"}
  PROVE  C!LooselyEqual(a, b) <=> C!Same(a, b)
<1>1. CASE a \in Truth /\ b \in Truth
  BY <1>1 DEF Truth, C!LooselyEqual, C!Same, C!AsBool, C!Means, C!IsNumber
<1>2. CASE a \in Truth /\ b \in Text
  BY <1>2 DEF Truth, Text, C!LooselyEqual, C!Same, C!AsBool
<1>3. CASE a \in Text /\ b \in Truth
  BY <1>3 DEF Truth, Text, C!LooselyEqual, C!Same, C!AsBool
<1>4. CASE a \notin Truth /\ b \notin Truth
  BY <1>4 DEF Number, Text, C!LooselyEqual, C!Same, C!Means, C!IsNumber, C!AsNumber
<1> QED BY <1>1, <1>2, <1>3, <1>4 DEF Number, Truth

\* What a probe reads.
LEMMA ObservedIsValue ==
  ASSUME Sensible, NEW h \in Hosts, NEW c \in Conditions
  PROVE  C!Observe(h, c) \in Reading
<1>1. (c.target \in C!Listed(h)) \in BOOLEAN
  OBVIOUS
<1>2. C!Unobservable \in Reading
  BY DEF Reading
<1>3. /\ C!ReadSysctl(h) \in Reading /\ C!ServiceIsActive(h) \in Reading
      /\ C!MemoryUsed(h) \in Reading /\ C!DiskUsed(h) \in Reading
      /\ C!Listening(h) \in Reading
  BY DEF Sensible, Reading, C!ReadSysctl, C!ServiceIsActive, C!MemoryUsed, C!DiskUsed,
         C!Listening,
     C!Bool, Truth
<1>4. C!Bool(c.target \in C!Listed(h)) \in Reading
  BY <1>1 DEF Reading, Truth, C!Bool
<1> QED BY <1>2, <1>3, <1>4 DEF C!Observe, Sensible

\* A reading is what is so on the host, but for a process that was not found.
LEMMA ObservedIsReal ==
  ASSUME NEW h, NEW c, C!Observe(h, c).type # "none",
         ~(c.probe = "process" /\ ~C!Observe(h, c).is)
  PROVE  C!Real(h, c) = C!Observe(h, c)
<1>1. CASE c.probe = "process"
  <2> DEFINE found == c.target \in C!Listed(h)
             there == \E i \in DOMAIN h.processes : h.processes[i] = c.target
  <2>1. found \in BOOLEAN /\ there \in BOOLEAN /\ (found => there)
    BY DEF C!Listed
  <2>2. c.target # "" /\ C!Observe(h, c) = C!Bool(found)
    BY <1>1 DEF C!Observe, C!Needs, C!Unobservable
  <2>3. C!Real(h, c) = C!Bool(there)
    BY <1>1, <2>2 DEF C!Real
  <2> HIDE DEF found, there
  <2>4. found
    <3> SUFFICES ASSUME ~found PROVE FALSE
      OBVIOUS
    <3>1. found = FALSE
      BY <2>1
    <3>2. C!Bool(FALSE).is = FALSE
      BY DEF C!Bool
    <3> QED BY <1>1, <2>2, <3>1, <3>2
  <2> QED BY <2>1, <2>2, <2>3, <2>4
<1>2. CASE c.probe # "process"
  BY <1>2 DEF C!Real
<1> QED BY <1>1, <1>2

\* A condition that compares as met was true.
LEMMA MetIsTrue ==
  ASSUME Sensible, NEW h \in Hosts, NEW c \in Conditions,
         C!Observe(h, c).type # "none",
         C!Compare(C!Observe(h, c), c.operator, c.value)
  PROVE  C!True(h, c) \/ C!Blind(c, C!Observe(h, c))
<1> DEFINE v == C!Observe(h, c)
<1> SUFFICES ASSUME ~C!Blind(c, v) PROVE C!True(h, c)
  OBVIOUS
<1>1. v \in Number \cup Text \cup Truth
  BY ObservedIsValue DEF Reading, C!Unobservable
<1>2. c.value \in Number \cup Text \cup Truth
  BY DEF Sensible
<1>3. C!Real(h, c) = v
  <2>1. c.probe = "process" => v.type = "truth"
    BY DEF C!Observe, C!Bool, C!Unobservable
  <2> QED BY <2>1, ObservedIsReal DEF C!Blind
<1>4. C!LooselyEqual(v, c.value) <=> C!Same(v, c.value)
  BY <1>1, <1>2, LooselyIsSame DEF C!Blind
<1> HIDE DEF v
<1> QED BY <1>3, <1>4 DEF C!True, C!Compare, v

\* A verdict is a yes or a no.
LEMMA VerdictsAreBoolean ==
  ASSUME NEW operator \in {"eq", "ne", "lt", "lte", "gt", "gte"}
  PROVE  /\ \A a, b : C!Compare(a, operator, b) \in BOOLEAN
         /\ \A h, c : c.operator = operator => C!True(h, c) \in BOOLEAN
<1>1. \A a, b : C!LooselyEqual(a, b) \in BOOLEAN /\ C!Same(a, b) \in BOOLEAN
  BY DEF C!LooselyEqual, C!Same
<1>2. CASE operator = "eq"
  BY <1>1, <1>2 DEF C!Compare, C!True
<1>3. CASE operator = "ne"
  BY <1>1, <1>3 DEF C!Compare, C!True
<1>4. CASE operator \notin {"eq", "ne"}
  BY <1>4 DEF C!Compare, C!True
<1> QED BY <1>2, <1>3, <1>4

LEMMA VerdictInit == ASSUME Sensible, C!Init PROVE VerdictInv
<1>1. asked \in Seq(Conditions)
  <2>1. CASE asked = <<>>
    BY <2>1
  <2>2. CASE \E a \in Conditions : asked = <<a>>
    BY <2>2
  <2>3. CASE \E a, b \in Conditions : asked = <<a, b>>
    BY <2>3
  <2> QED BY <2>1, <2>2, <2>3 DEF C!Init
<1>2. /\ facts \in Hosts /\ results = <<>> /\ truth = <<>> /\ outcome = "open"
  BY DEF C!Init
<1>3. Len(results) = 0 /\ Len(truth) = 0 /\ DOMAIN results = {}
  BY <1>2
<1> QED BY <1>1, <1>2, <1>3 DEF VerdictInv, ProgressInv, VerdictsAreTrue

\* One more verdict, whatever the host does in between.
LEMMA EvaluateKeeps == ASSUME Sensible, VerdictInv, C!EvaluateNext PROVE VerdictInv'
<1> DEFINE n == Len(results) + 1
           c == asked[n]
           seen == C!Observe(facts, c)
<1>1. /\ n \in 1..Len(asked) /\ c \in Conditions
      /\ asked \in Seq(Conditions) /\ facts \in Hosts
      /\ results \in Seq([met: BOOLEAN, seen: Reading]) /\ truth \in Seq(BOOLEAN)
      /\ Len(truth) = Len(results)
  BY DEF C!EvaluateNext, VerdictInv, ProgressInv
<1>2. PICK r : /\ results' = Append(results, r)
               /\ \/ r = [met |-> FALSE, seen |-> C!Unobservable]
                  \/ /\ seen.type # "none"
                     /\ r = [met |-> C!Compare(seen, c.operator, c.value), seen |-> seen]
  BY DEF C!EvaluateNext
<1>3. /\ truth' = Append(truth, C!True(facts, c))
      /\ UNCHANGED <<facts, asked, outcome>>
  BY DEF C!EvaluateNext
<1>4. seen \in Reading
  BY <1>1, ObservedIsValue
<1>5. /\ C!Compare(seen, c.operator, c.value) \in BOOLEAN
      /\ C!True(facts, c) \in BOOLEAN
  <2>1. c.operator \in {"eq", "ne", "lt", "lte", "gt", "gte"}
    BY <1>1 DEF Sensible
  <2> QED BY <2>1, VerdictsAreBoolean
<1>6. r \in [met: BOOLEAN, seen: Reading]
  <2>1. CASE r = [met |-> FALSE, seen |-> C!Unobservable]
    BY <2>1 DEF Reading
  <2>2. CASE r = [met |-> C!Compare(seen, c.operator, c.value), seen |-> seen]
    <3> HIDE DEF seen, c
    <3> QED BY <1>4, <1>5, <2>2
  <2> QED BY <1>2, <2>1, <2>2
<1>7. r.met => C!True(facts, c) \/ C!Blind(c, r.seen)
  BY <1>1, <1>2, MetIsTrue
<1> DEFINE t == C!True(facts, c)
<1> HIDE DEF c, seen, t
<1>8. /\ results' \in Seq([met: BOOLEAN, seen: Reading]) /\ truth' \in Seq(BOOLEAN)
      /\ Len(results') = n /\ Len(truth') = n
      /\ results'[n] = r /\ truth'[n] = t
      /\ \A i \in DOMAIN results : results'[i] = results[i] /\ truth'[i] = truth[i]
      /\ DOMAIN results' = DOMAIN results \cup {n}
  BY <1>1, <1>2, <1>3, <1>5, <1>6 DEF t
<1>9. ProgressInv'
  BY <1>1, <1>3, <1>8 DEF VerdictInv, ProgressInv
<1>10. VerdictsAreTrue'
  BY <1>3, <1>7, <1>8 DEF VerdictInv, VerdictsAreTrue, t, c
<1> QED BY <1>9, <1>10 DEF VerdictInv

LEMMA VerdictStep == ASSUME Sensible, VerdictInv, [C!Next]_(C!vars) PROVE VerdictInv'
<1>1. CASE C!HostChanges
  BY <1>1 DEF C!HostChanges, VerdictInv, ProgressInv, VerdictsAreTrue
<1>2. CASE C!EvaluateNext
  BY <1>2, EvaluateKeeps
<1>3. CASE C!AllMet
  BY <1>3 DEF C!AllMet, VerdictInv, ProgressInv, VerdictsAreTrue
<1>4. CASE UNCHANGED C!vars
  BY <1>4 DEF C!vars, VerdictInv, ProgressInv, VerdictsAreTrue
<1> QED BY <1>1, <1>2, <1>3, <1>4 DEF C!Next

\* Whatever hosts and conditions there are, and however a host changes while it
\* is looked at, a change is kept only if each of its conditions was true when
\* it was evaluated, but for the two blind spots.
THEOREM KeptConditionsAreTrue == Sensible => (C!Spec => []KeptIsTrue)
<1> SUFFICES ASSUME Sensible PROVE C!Spec => []C!KeptIsTrue
  BY DEF KeptIsTrue
<1>1. C!Init => VerdictInv
  BY VerdictInit
<1>2. VerdictInv /\ [C!Next]_(C!vars) => VerdictInv'
  BY VerdictStep
<1>3. VerdictInv => C!KeptIsTrue
  BY DEF VerdictInv, ProgressInv, VerdictsAreTrue, C!KeptIsTrue
<1> QED BY <1>1, <1>2, <1>3, PTL DEF C!Spec

=============================================================================
