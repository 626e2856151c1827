-------------------------- MODULE Outbound_proofs --------------------------
(***************************************************************************)
(* Theorems about what goes back out: what a person hears of a run is       *)
(* claimed before it is said (ChannelDelivery), and the command line misses *)
(* no early event of the run it has submitted (EventStream).                *)
(***************************************************************************)
EXTENDS MCOutbound, FiniteSetTheorems, SequenceTheorems, TLAPS

\* Those that have claimed a notice, or an answer, and have not yet said it.
Noticing(r) == {d \in Dispatcher : /\ disp[d].pc = "send" /\ disp[d].run = r
                                   /\ disp[d].says = "notice"}
Answering(r) == {d \in Dispatcher : /\ disp[d].pc = "send" /\ disp[d].run = r
                                    /\ disp[d].says \in {"answer", "excuse"}}

\* A dispatcher that is past its reading has a reply in hand, and something to say.
Replies == reply \in [Run -> ReplyType]
Counts == heard \in [Run -> [notice: Nat, answer: Nat, excuse: Nat]]
Hands ==
  /\ disp \in [Dispatcher -> DispType]
  /\ \A d \in Dispatcher :
       /\ disp[d].pc \in {"idle", "load"} \/ disp[d].run \in Run
       /\ disp[d].pc \in {"claim", "send"} => disp[d].says \in {"notice", "answer", "excuse"}

\* One notice has been claimed at most, and it is not both on its way and said; of
\* the answers, each attempt on record is one that may have been.
NoticeInv ==
  \A r \in Run :
    /\ ~reply[r].interim => heard[r].notice = 0 /\ Noticing(r) = {}
    /\ heard[r].notice <= 1
    /\ \A d \in Noticing(r) : heard[r].notice = 0 /\ Noticing(r) = {d}
AnswerInv ==
  \A r \in Run :
    /\ IsFiniteSet(Answering(r))
    /\ heard[r].answer + heard[r].excuse + Cardinality(Answering(r)) <= reply[r].attempts

ClaimInv == Replies /\ Counts /\ Hands /\ NoticeInv /\ AnswerInv

\* A dispatcher that moves without claiming or saying anything.
LEMMA QuietDispatcher ==
  ASSUME ClaimInv, NEW d \in Dispatcher, NEW k \in DispType,
         disp' = [disp EXCEPT ![d] = k], heard' = heard, Replies',
         k.pc # "send",
         k.pc \in {"idle", "load"} \/ k.run \in Run,
         k.pc \in {"claim", "send"} => k.says \in {"notice", "answer", "excuse"},
         \A r \in Run : reply'[r].attempts = reply[r].attempts /\ reply'[r].interim = reply[r].interim
  PROVE  ClaimInv'
<1>1. \A e \in Dispatcher : disp'[e] = IF e = d THEN k ELSE disp[e]
  BY DEF ClaimInv, Hands
<1>2. Hands'
  BY <1>1 DEF ClaimInv, Hands
<1>3. \A r : Noticing(r)' = Noticing(r) \ {d} /\ Answering(r)' = Answering(r) \ {d}
  BY <1>1 DEF Noticing, Answering
<1>4. NoticeInv'
  BY <1>3 DEF ClaimInv, NoticeInv
<1>5. AnswerInv'
  <2> SUFFICES ASSUME NEW r \in Run
               PROVE  /\ IsFiniteSet(Answering(r) \ {d})
                      /\ heard[r].answer + heard[r].excuse + Cardinality(Answering(r) \ {d})
                           <= reply[r].attempts
    BY <1>3 DEF AnswerInv
  <2>1. /\ IsFiniteSet(Answering(r)) /\ Answering(r) \ {d} \subseteq Answering(r)
        /\ heard[r].answer + heard[r].excuse + Cardinality(Answering(r)) <= reply[r].attempts
    BY DEF ClaimInv, AnswerInv
  <2>2. /\ IsFiniteSet(Answering(r) \ {d})
        /\ Cardinality(Answering(r) \ {d}) <= Cardinality(Answering(r))
    BY <2>1, FS_Subset
  <2>3. /\ Cardinality(Answering(r)) \in Nat /\ Cardinality(Answering(r) \ {d}) \in Nat
        /\ heard[r].answer \in Nat /\ heard[r].excuse \in Nat /\ reply[r].attempts \in Nat
    BY <2>1, <2>2, FS_CardinalityType DEF ClaimInv, Counts, Replies, ReplyType
  <2> QED BY <2>1, <2>2, <2>3
<1> QED BY <1>2, <1>4, <1>5 DEF ClaimInv, Counts

\* Rows that are written elsewhere than in the claim keep the claims there were.
LEMMA RowsElsewhere ==
  ASSUME ClaimInv, disp' = disp, heard' = heard, Replies',
         \A r \in Run : reply'[r].attempts = reply[r].attempts /\ reply'[r].interim = reply[r].interim
  PROVE  ClaimInv'
<1>1. \A r : Noticing(r)' = Noticing(r) /\ Answering(r)' = Answering(r)
  BY DEF Noticing, Answering
<1> QED BY <1>1 DEF ClaimInv, Counts, Hands, NoticeInv, AnswerInv

LEMMA NextReplyKeeps ==
  ASSUME ClaimInv, NEW d \in Dispatcher, NextReply(d), heard' = heard, Replies',
         \A r \in Run : reply'[r].attempts = reply[r].attempts /\ reply'[r].interim = reply[r].interim
  PROVE  ClaimInv'
<1> DEFINE k == [IdleDisp EXCEPT !.pc = IF disp[d].todo = {} THEN "idle" ELSE "load",
                                 !.todo = disp[d].todo]
<1>1. k.pc \in {"idle", "load"} /\ disp' = [disp EXCEPT ![d] = k] /\ k \in DispType
  BY DEF NextReply, IdleDisp, DispType, ClaimInv, Hands
<1>2. k.pc # "send" /\ k.pc \notin {"claim", "send"}
  BY <1>1
<1> HIDE DEF k
<1> QED BY <1>1, <1>2, QuietDispatcher

LEMMA DispatcherRests ==
  ASSUME ClaimInv, NEW d \in Dispatcher, UNCHANGED <<reply, heard>>,
         \/ BeginSweep(d) \/ DispatcherDies(d) \/ \E r \in Run : LoadReply(d, r)
  PROVE  ClaimInv'
<1>1. /\ Replies' /\ heard' = heard
      /\ \A r \in Run : reply'[r].attempts = reply[r].attempts /\ reply'[r].interim = reply[r].interim
  BY DEF ClaimInv, Replies
<1>2. ASSUME NEW k \in DispType, disp' = [disp EXCEPT ![d] = k], k.pc \in {"idle", "load"}
      PROVE ClaimInv'
  <2>1. k.pc # "send" /\ k.pc \notin {"claim", "send"}
    BY <1>2
  <2> QED BY <1>1, <1>2, <2>1, QuietDispatcher
<1>3. CASE BeginSweep(d)
  <2> DEFINE k == [IdleDisp EXCEPT !.pc = "load", !.todo = Due]
  <2>1. disp' = [disp EXCEPT ![d] = k] /\ k.pc = "load" /\ k \in DispType
    BY <1>3 DEF BeginSweep, IdleDisp, DispType, Due
  <2> HIDE DEF k
  <2> QED BY <1>2, <2>1
<1>4. CASE DispatcherDies(d)
  <2> DEFINE k == IdleDisp
  <2>1. disp' = [disp EXCEPT ![d] = k] /\ k.pc = "idle" /\ k \in DispType
    BY <1>4 DEF DispatcherDies, IdleDisp, DispType
  <2> HIDE DEF k
  <2> QED BY <1>2, <2>1
<1>5. ASSUME NEW r \in Run, LoadReply(d, r) PROVE ClaimInv'
  <2> DEFINE rest == disp[d].todo \ {r}
             k == [IdleDisp EXCEPT !.pc = IF rest = {} THEN "idle" ELSE "load", !.todo = rest]
             l == [IdleDisp EXCEPT !.pc = "claim", !.todo = rest, !.run = r,
                                   !.attempts = reply[r].attempts, !.says = TextFor(r)]
  <2>1. disp' = [disp EXCEPT ![d] = k] \/ disp' = [disp EXCEPT ![d] = l]
    BY <1>5 DEF LoadReply
  <2>4. TextFor(r) \in {"notice", "answer", "excuse"} /\ reply[r].attempts \in Nat /\ rest \in SUBSET Run
    BY DEF TextFor, ClaimInv, Replies, ReplyType, Hands, DispType
  <2>2. k.pc \in {"idle", "load"} /\ k \in DispType
    BY <2>4 DEF IdleDisp, DispType
  <2>3. l.pc = "claim" /\ l.run = r /\ l.says = TextFor(r) /\ l \in DispType
    BY <2>4 DEF IdleDisp, DispType
  <2> HIDE DEF k, l
  <2>5. CASE disp' = [disp EXCEPT ![d] = l]
    BY <1>1, <2>3, <2>4, <2>5, QuietDispatcher
  <2> QED BY <1>2, <2>1, <2>2, <2>5
<1> QED BY <1>3, <1>4, <1>5

LEMMA AbandonKeeps ==
  ASSUME ClaimInv, NEW d \in Dispatcher, AbandonUnconfigured(d) PROVE ClaimInv'
<1> DEFINE r == disp[d].run
<1>1. NextReply(d) /\ heard' = heard /\ Replies
  BY DEF AbandonUnconfigured, ClaimInv
<1>2. reply' = reply \/ reply' = [reply EXCEPT ![r].status = "abandoned"]
  BY DEF AbandonUnconfigured
<1> HIDE DEF r
<1>3. /\ Replies'
      /\ \A s \in Run : reply'[s].attempts = reply[s].attempts /\ reply'[s].interim = reply[s].interim
  BY <1>1, <1>2 DEF Replies, ReplyType
<1> QED BY <1>1, <1>3, NextReplyKeeps

LEMMA RecordKeeps ==
  ASSUME ClaimInv, NEW d \in Dispatcher, RecordOutcome(d) PROVE ClaimInv'
<1> DEFINE r == disp[d].run
<1>1. NextReply(d) /\ heard' = heard /\ Replies
  BY DEF RecordOutcome, ClaimInv
<1>2. \/ reply' = reply \/ reply' = [reply EXCEPT ![r].status = "sent"]
      \/ reply' = [reply EXCEPT ![r].status = "abandoned"]
  BY DEF RecordOutcome
<1> HIDE DEF r
<1>3. /\ Replies'
      /\ \A s \in Run : reply'[s].attempts = reply[s].attempts /\ reply'[s].interim = reply[s].interim
  BY <1>1, <1>2 DEF Replies, ReplyType
<1> QED BY <1>1, <1>3, NextReplyKeeps

\* The claim: of those that read the same row, the first one wins.
LEMMA ClaimKeeps ==
  ASSUME ClaimInv, NEW d \in Dispatcher, ClaimReply(d) PROVE ClaimInv'
<1> DEFINE r == disp[d].run
           k == [disp[d] EXCEPT !.pc = "send"]
<1>1. disp[d].pc = "claim" /\ heard' = heard /\ r \in Run
      /\ disp[d].says \in {"notice", "answer", "excuse"}
  BY DEF ClaimReply, ClaimInv, Hands
<1>2. CASE NextReply(d) /\ reply' = reply
  BY <1>1, <1>2, NextReplyKeeps DEF ClaimInv, Replies
<1>3. ASSUME disp' = [disp EXCEPT ![d].pc = "send"], reply[r].status = "pending",
             IF disp[d].says = "notice"
               THEN ~reply[r].interim /\ reply' = [reply EXCEPT ![r].interim = TRUE]
               ELSE reply' = [reply EXCEPT ![r].attempts = @ + 1]
      PROVE  ClaimInv'
  <2>1. disp[d] \in DispType /\ Hands /\ disp' = [disp EXCEPT ![d] = k]
    BY <1>3 DEF ClaimInv, Hands
  <2>2. k \in DispType /\ k.pc = "send" /\ k.run = r /\ k.says = disp[d].says
    BY <2>1 DEF DispType
  <2>3. Replies /\ Counts
    BY DEF ClaimInv
  <2> HIDE DEF k, r
  <2>4. /\ disp' \in [Dispatcher -> DispType]
        /\ \A e \in Dispatcher : disp'[e] = IF e = d THEN k ELSE disp[e]
    BY <2>1, <2>2 DEF Hands
  <2>5. Hands'
    BY <1>1, <2>1, <2>2, <2>4 DEF Hands
  <2>6. /\ Replies'
        /\ \A s \in Run : s # r => reply'[s] = reply[s]
        /\ IF disp[d].says = "notice"
             THEN reply'[r].interim = TRUE /\ reply'[r].attempts = reply[r].attempts
             ELSE reply'[r].interim = reply[r].interim /\ reply'[r].attempts = reply[r].attempts + 1
    <3> DEFINE t == reply[r]
               a == [t EXCEPT !.interim = TRUE]
               b == [t EXCEPT !.attempts = t.attempts + 1]
    <3>1. t \in ReplyType /\ t.attempts + 1 \in Nat
      BY <1>1, <2>3 DEF Replies, ReplyType
    <3>2. a \in ReplyType /\ a.interim = TRUE /\ a.attempts = t.attempts
      BY <3>1 DEF ReplyType
    <3>3. b \in ReplyType /\ b.interim = t.interim /\ b.attempts = t.attempts + 1
      BY <3>1 DEF ReplyType
    <3>4. reply' = [reply EXCEPT ![r] = IF disp[d].says = "notice" THEN a ELSE b]
      BY <1>3
    <3> HIDE DEF a, b
    <3>5. CASE disp[d].says = "notice"
      BY <1>1, <2>3, <3>2, <3>4, <3>5 DEF Replies
    <3>6. CASE disp[d].says # "notice"
      BY <1>1, <2>3, <3>3, <3>4, <3>6 DEF Replies
    <3> QED BY <3>5, <3>6
  <2>7. \A s \in Run :
          /\ Noticing(s)' = IF s = r /\ disp[d].says = "notice" THEN Noticing(s) \cup {d} ELSE Noticing(s)
          /\ Answering(s)' = IF s = r /\ disp[d].says # "notice" THEN Answering(s) \cup {d} ELSE Answering(s)
          /\ d \notin Answering(s)
    BY <1>1, <2>2, <2>4 DEF Noticing, Answering
  <2>8. NoticeInv'
    <3> SUFFICES ASSUME NEW s \in Run
                 PROVE  /\ ~reply'[s].interim => heard[s].notice = 0 /\ Noticing(s)' = {}
                        /\ heard[s].notice <= 1
                        /\ \A e \in Noticing(s)' : heard[s].notice = 0 /\ Noticing(s)' = {e}
      BY <1>1 DEF NoticeInv
    <3>1. /\ ~reply[s].interim => heard[s].notice = 0 /\ Noticing(s) = {}
          /\ heard[s].notice <= 1
          /\ \A e \in Noticing(s) : heard[s].notice = 0 /\ Noticing(s) = {e}
      BY DEF ClaimInv, NoticeInv
    <3>2. CASE s = r /\ disp[d].says = "notice"
      BY <1>3, <2>6, <2>7, <3>1, <3>2
    <3>3. CASE ~(s = r /\ disp[d].says = "notice")
      BY <2>6, <2>7, <3>1, <3>3
    <3> QED BY <3>2, <3>3
  <2>9. AnswerInv'
    <3> SUFFICES ASSUME NEW s \in Run
                 PROVE  /\ IsFiniteSet(Answering(s)')
                        /\ heard[s].answer + heard[s].excuse + Cardinality(Answering(s)') <= reply'[s].attempts
      BY <1>1 DEF AnswerInv
    <3>1. /\ IsFiniteSet(Answering(s))
          /\ heard[s].answer + heard[s].excuse + Cardinality(Answering(s)) <= reply[s].attempts
      BY DEF ClaimInv, AnswerInv
    <3>2. /\ Cardinality(Answering(s)) \in Nat /\ reply[s].attempts \in Nat
          /\ heard[s].answer \in Nat /\ heard[s].excuse \in Nat
      BY <2>3, <3>1, FS_CardinalityType DEF Counts, Replies, ReplyType
    <3>3. CASE s = r /\ disp[d].says # "notice"
      <4>1. /\ IsFiniteSet(Answering(s) \cup {d})
            /\ Cardinality(Answering(s) \cup {d}) = Cardinality(Answering(s)) + 1
        BY <2>7, <3>1, FS_AddElement
      <4>2. Answering(s)' = Answering(s) \cup {d} /\ reply'[s].attempts = reply[s].attempts + 1
        BY <2>6, <2>7, <3>3
      <4> QED BY <3>1, <3>2, <4>1, <4>2
    <3>4. CASE ~(s = r /\ disp[d].says # "notice")
      BY <2>6, <2>7, <3>1, <3>4
    <3> QED BY <3>3, <3>4
  <2> QED BY <1>1, <2>3, <2>5, <2>6, <2>8, <2>9 DEF ClaimInv, Counts
<1>4. \/ NextReply(d) /\ reply' = reply
      \/ /\ disp' = [disp EXCEPT ![d].pc = "send"] /\ reply[r].status = "pending"
         /\ IF disp[d].says = "notice"
              THEN ~reply[r].interim /\ reply' = [reply EXCEPT ![r].interim = TRUE]
              ELSE reply' = [reply EXCEPT ![r].attempts = @ + 1]
  BY DEF ClaimReply
<1> QED BY <1>2, <1>3, <1>4

\* What is said was claimed: it leaves the claim and is heard, or lost.
LEMMA SendKeeps ==
  ASSUME ClaimInv, NEW d \in Dispatcher, Send(d) PROVE ClaimInv'
<1> DEFINE r == disp[d].run
           w == disp[d].says
<1>1. /\ disp[d].pc = "send" /\ r \in Run /\ w \in {"notice", "answer", "excuse"}
      /\ reply' = reply /\ Replies /\ Counts /\ disp[d] \in DispType /\ Hands
  BY DEF Send, ClaimInv, Hands
<1>2. PICK k \in DispType : /\ disp' = [disp EXCEPT ![d] = k]
                           /\ k.pc = "record" /\ k.run = r
  <2> DEFINE a == [disp[d] EXCEPT !.pc = "record", !.ok = TRUE]
             b == [disp[d] EXCEPT !.pc = "record"]
  <2>1. disp' = [disp EXCEPT ![d] = a] \/ disp' = [disp EXCEPT ![d] = b]
    BY <1>1 DEF Send, Hands
  <2>2. a \in DispType /\ a.pc = "record" /\ a.run = r
    BY <1>1 DEF DispType
  <2>3. b \in DispType /\ b.pc = "record" /\ b.run = r
    BY <1>1 DEF DispType
  <2> HIDE DEF a, b
  <2> QED BY <2>1, <2>2, <2>3
<1>3. heard' = heard \/ heard' = [heard EXCEPT ![r][w] = @ + 1]
  BY DEF Send, Hear
<1> HIDE DEF r, w
<1>4. /\ disp' \in [Dispatcher -> DispType]
      /\ \A e \in Dispatcher : disp'[e] = IF e = d THEN k ELSE disp[e]
  BY <1>1, <1>2 DEF Hands
<1>5. Hands'
  BY <1>1, <1>2, <1>4 DEF Hands
<1>6. \A s \in Run : Noticing(s)' = Noticing(s) \ {d} /\ Answering(s)' = Answering(s) \ {d}
  BY <1>2, <1>4 DEF Noticing, Answering
<1>7. d \in IF w = "notice" THEN Noticing(r) ELSE Answering(r)
  BY <1>1 DEF Noticing, Answering, r, w
<1>8. /\ Counts'
      /\ \A s \in Run : s # r => heard'[s] = heard[s]
      /\ heard'[r].notice = heard[r].notice
         \/ (w = "notice" /\ heard'[r].notice = heard[r].notice + 1)
      /\ heard'[r].answer + heard'[r].excuse = heard[r].answer + heard[r].excuse
         \/ (w # "notice" /\ heard'[r].answer + heard'[r].excuse
                             = heard[r].answer + heard[r].excuse + 1)
  <2>1. CASE heard' = heard
    BY <1>1, <2>1 DEF Counts
  <2>2. CASE heard' = [heard EXCEPT ![r][w] = @ + 1]
    <3> DEFINE n == heard[r]
               v == [n EXCEPT ![w] = @ + 1]
    <3>1. heard' = [heard EXCEPT ![r] = v] /\ n \in [notice: Nat, answer: Nat, excuse: Nat]
      BY <1>1, <2>2 DEF Counts
    <3>2. /\ v \in [notice: Nat, answer: Nat, excuse: Nat]
          /\ v.notice = IF w = "notice" THEN n.notice + 1 ELSE n.notice
          /\ v.answer = IF w = "answer" THEN n.answer + 1 ELSE n.answer
          /\ v.excuse = IF w = "excuse" THEN n.excuse + 1 ELSE n.excuse
      BY <1>1, <3>1
    <3>3. n.answer \in Nat /\ n.excuse \in Nat /\ n.notice \in Nat /\ n = heard[r]
      BY <3>1
    <3> HIDE DEF n, v
    <3>4. Counts' /\ heard'[r] = v /\ \A s \in Run : s # r => heard'[s] = heard[s]
      BY <1>1, <3>1, <3>2 DEF Counts
    <3> QED BY <1>1, <3>2, <3>3, <3>4
  <2> QED BY <1>3, <2>1, <2>2
<1>9. NoticeInv'
  <2> SUFFICES ASSUME NEW s \in Run
               PROVE  /\ ~reply[s].interim => heard'[s].notice = 0 /\ Noticing(s)' = {}
                      /\ heard'[s].notice <= 1
                      /\ \A e \in Noticing(s)' : heard'[s].notice = 0 /\ Noticing(s)' = {e}
    BY <1>1 DEF NoticeInv
  <2>1. /\ ~reply[s].interim => heard[s].notice = 0 /\ Noticing(s) = {}
        /\ heard[s].notice <= 1
        /\ \A e \in Noticing(s) : heard[s].notice = 0 /\ Noticing(s) = {e}
    BY DEF ClaimInv, NoticeInv
  <2>2. CASE s = r /\ w = "notice"
    BY <1>6, <1>7, <1>8, <2>1, <2>2
  <2>3. CASE s # r \/ w # "notice"
    <3>1. heard'[s].notice = heard[s].notice
      BY <1>8, <2>3
    <3>2. d \in Noticing(s) => Noticing(s) \ {d} = {}
      BY <2>1
    <3> QED BY <1>6, <2>1, <3>1, <3>2
  <2> QED BY <2>2, <2>3
<1>10. AnswerInv'
  <2> SUFFICES ASSUME NEW s \in Run
               PROVE  /\ IsFiniteSet(Answering(s) \ {d})
                      /\ heard'[s].answer + heard'[s].excuse + Cardinality(Answering(s) \ {d}) <= reply[s].attempts
    BY <1>1, <1>6 DEF AnswerInv
  <2>1. /\ IsFiniteSet(Answering(s))
        /\ heard[s].answer + heard[s].excuse + Cardinality(Answering(s)) <= reply[s].attempts
    BY DEF ClaimInv, AnswerInv
  <2>2. /\ Cardinality(Answering(s)) \in Nat /\ reply[s].attempts \in Nat
        /\ heard[s].answer \in Nat /\ heard[s].excuse \in Nat
        /\ heard'[s].answer \in Nat /\ heard'[s].excuse \in Nat
    BY <1>1, <1>8, <2>1, FS_CardinalityType DEF Counts, Replies, ReplyType
  <2>3. /\ IsFiniteSet(Answering(s) \ {d})
        /\ Cardinality(Answering(s) \ {d}) = IF d \in Answering(s) THEN Cardinality(Answering(s)) - 1
                                             ELSE Cardinality(Answering(s))
    BY <2>1, FS_RemoveElement
  <2>4. CASE s = r /\ w # "notice"
    BY <1>7, <1>8, <2>1, <2>2, <2>3, <2>4
  <2>5. CASE s # r \/ w = "notice"
    <3>1. heard'[s].answer + heard'[s].excuse = heard[s].answer + heard[s].excuse
      BY <1>8, <2>5
    <3> QED BY <2>1, <2>2, <2>3, <3>1
  <2> QED BY <2>4, <2>5
<1> QED BY <1>1, <1>5, <1>8, <1>9, <1>10 DEF ClaimInv, Replies

LEMMA ClaimStart == ASSUME Init PROVE ClaimInv
<1>1. IdleDisp \in DispType /\ IdleDisp.pc = "idle"
  BY DEF IdleDisp, DispType
<1>2. Hands /\ \A d \in Dispatcher : disp[d].pc = "idle"
  BY <1>1 DEF Init, Hands
<1>3. Replies /\ Counts
  BY DEF Init, Replies, Counts, ReplyType
<1>4. \A r : Noticing(r) = {} /\ Answering(r) = {}
  BY <1>2 DEF Noticing, Answering
<1>5. \A r \in Run : /\ reply[r].attempts = 0 /\ heard[r].notice = 0
                     /\ heard[r].answer = 0 /\ heard[r].excuse = 0
  BY DEF Init
<1>6. IsFiniteSet({}) /\ Cardinality({}) = 0
  BY FS_EmptySet
<1>7. NoticeInv /\ AnswerInv
  BY <1>4, <1>5, <1>6 DEF NoticeInv, AnswerInv
<1> QED BY <1>2, <1>3, <1>7 DEF ClaimInv

LEMMA ClaimStep == ASSUME ClaimInv, [Next]_vars PROVE ClaimInv'
<1>1. ASSUME UNCHANGED <<disp, heard, reply>> PROVE ClaimInv'
  BY <1>1, RowsElsewhere DEF ClaimInv, Replies
<1>2. CASE UNCHANGED vars
  BY <1>1, <1>2 DEF vars
<1>3. ASSUME NEW h \in Hook, HookStep(h) PROVE ClaimInv'
  <2>1. CASE InsertReply(h)
    <3> DEFINE r == hook[h].run
    <3>1. disp' = disp /\ heard' = heard /\ Replies
      BY <2>1 DEF InsertReply, ClaimInv
    <3>2. reply' = reply \/ reply' = [reply EXCEPT ![r].status = "pending"]
      BY <2>1 DEF InsertReply
    <3> HIDE DEF r
    <3>3. /\ Replies'
          /\ \A s \in Run : reply'[s].attempts = reply[s].attempts /\ reply'[s].interim = reply[s].interim
      BY <3>1, <3>2 DEF Replies, ReplyType
    <3> QED BY <3>1, <3>3, RowsElsewhere
  <2>2. CASE ~InsertReply(h)
    <3>1. UNCHANGED <<disp, heard, reply>>
      BY <1>3, <2>2 DEF HookStep, FindSession, CreateSession, CheckIdempotencyKey,
             SubmitRun, FindReply,
         Acknowledge
    <3> QED BY <1>1, <3>1
  <2> QED BY <2>1, <2>2
<1>4. ASSUME NEW h \in Hook, HookDies(h) PROVE ClaimInv'
  BY <1>1, <1>4 DEF HookDies
<1>5. ASSUME NEW h \in Hook, NEW m \in Msg, Deliver(h, m) PROVE ClaimInv'
  BY <1>1, <1>5 DEF Deliver
<1>6. ASSUME NEW r \in Run, RunParks(r) \/ RunResumes(r) \/ RunEnds(r) PROVE ClaimInv'
  BY <1>1, <1>6 DEF RunParks, RunResumes, RunEnds, RunChanges
<1>7. CASE RemoveCredentials
  BY <1>1, <1>7 DEF RemoveCredentials
<1>8. ASSUME NEW d \in Dispatcher, DispatcherStep(d) \/ DispatcherDies(d) PROVE ClaimInv'
  <2>1. CASE BeginSweep(d) \/ DispatcherDies(d) \/ \E r \in Run : LoadReply(d, r)
    <3>1. UNCHANGED <<reply, heard>>
      BY <2>1 DEF BeginSweep, DispatcherDies, LoadReply
    <3> QED BY <2>1, <3>1, DispatcherRests
  <2> QED BY <1>8, <2>1, AbandonKeeps, ClaimKeeps, SendKeeps, RecordKeeps DEF DispatcherStep
<1> QED BY <1>2, <1>3, <1>4, <1>5, <1>6, <1>7, <1>8 DEF Next

\* Of the dispatchers that look at the same reply one claims it, so that a person is
\* told once that a run waits, and hears no more answers than were attempted.
THEOREM ClaimsAreSingle == Spec => []OneMessagePerClaim
<1>1. Init => ClaimInv
  BY ClaimStart
<1>2. ClaimInv /\ [Next]_vars => ClaimInv'
  BY ClaimStep
<1>3. ClaimInv => OneMessagePerClaim
  <2> SUFFICES ASSUME ClaimInv, NEW r \in Run
               PROVE  heard[r].notice <= 1 /\ heard[r].answer + heard[r].excuse <= reply[r].attempts
    BY DEF OneMessagePerClaim
  <2>1. heard[r].notice <= 1
    BY DEF ClaimInv, NoticeInv
  <2>2. /\ IsFiniteSet(Answering(r))
        /\ heard[r].answer + heard[r].excuse + Cardinality(Answering(r)) <= reply[r].attempts
    BY DEF ClaimInv, AnswerInv
  <2>3. /\ Cardinality(Answering(r)) \in Nat /\ reply[r].attempts \in Nat
        /\ heard[r].answer \in Nat /\ heard[r].excuse \in Nat
    BY <2>2, FS_CardinalityType DEF ClaimInv, Counts, Replies, ReplyType
  <2> QED BY <2>1, <2>2, <2>3
<1> QED BY <1>1, <1>2, <1>3, PTL DEF Spec

-----------------------------------------------------------------------------
(* EventStream: what is published is with the one who submitted the run.     *)

\* The run that is followed has one submitter; a queue has room for an event.
Followed == Limit \in Nat \ {0} /\ \A c, d \in Submitter : c = d

Place == {"out", "replay", "follow", "live", "ended", "closed"}
Queues ==
  /\ published \in Seq(E!Kind) /\ at \in [E!Client -> Place]
  /\ queue \in [E!Client -> Seq(Nat)] /\ inbox \in [E!Client -> Seq(Nat)]
  /\ got \in [E!Client -> Seq(Nat)] /\ over \in [E!Client -> BOOLEAN]

\* Until the run is there nothing is said of it, and who submits it has subscribed.
Before ==
  /\ announce => status = "over"
  /\ status = "absent" => \A n \in DOMAIN published : published[n] = "noise"
  /\ \A c \in Submitter : /\ at[c] \in {"out", "live", "ended", "closed"}
                          /\ at[c] = "out" => status = "absent"

Kept(c) == E!Elements(got[c]) \cup E!Elements(inbox[c]) \cup E!Elements(queue[c])
Early ==
  \A c \in Submitter : at[c] = "live" /\ ~over[c] =>
    \A n \in DOMAIN published : published[n] # "noise" => n \in Kept(c)

StreamInv == Queues /\ Before /\ Early

LEMMA ElementsOf ==
  ASSUME NEW s \in Seq(Nat), NEW t \in Seq(Nat), NEW n \in Nat
  PROVE  /\ E!Elements(s \o t) = E!Elements(s) \cup E!Elements(t)
         /\ E!Elements(Append(s, n)) = E!Elements(s) \cup {n}
         /\ s # <<>> => /\ E!Elements(s) = {Head(s)} \cup E!Elements(Tail(s))
                       /\ Head(s) \in Nat /\ Tail(s) \in Seq(Nat)
<1>1. E!Elements(s \o t) = E!Elements(s) \cup E!Elements(t)
  <2>1. /\ DOMAIN (s \o t) = 1..Len(s) + Len(t) /\ DOMAIN s = 1..Len(s) /\ DOMAIN t = 1..Len(t)
        /\ Len(s) \in Nat /\ Len(t) \in Nat
        /\ \A i \in 1..Len(s) + Len(t) : (s \o t)[i] = IF i <= Len(s) THEN s[i] ELSE t[i - Len(s)]
    OBVIOUS
  <2>2. \A j \in 1..Len(t) : (s \o t)[j + Len(s)] = t[j] /\ j + Len(s) \in 1..Len(s) + Len(t)
    BY <2>1
  <2>3. \A i \in 1..Len(s) + Len(t) : i \in 1..Len(s) \/ i - Len(s) \in 1..Len(t)
    BY <2>1
  <2>4. \A i \in 1..Len(s) : (s \o t)[i] = s[i] /\ i \in 1..Len(s) + Len(t)
    BY <2>1
  <2>5. \A i \in 1..Len(s) + Len(t) : i \notin 1..Len(s) => (s \o t)[i] = t[i - Len(s)]
    BY <2>1
  <2>6. ASSUME NEW x
        PROVE x \in E!Elements(s \o t) <=> x \in E!Elements(s) \/ x \in E!Elements(t)
    <3>1. x \in E!Elements(s \o t) <=> \E i \in 1..Len(s) + Len(t) : x = (s \o t)[i]
      BY <2>1 DEF E!Elements
    <3>2. x \in E!Elements(s) <=> \E i \in 1..Len(s) : x = s[i]
      BY <2>1 DEF E!Elements
    <3>3. x \in E!Elements(t) <=> \E i \in 1..Len(t) : x = t[i]
      BY <2>1 DEF E!Elements
    <3>4. ASSUME NEW i \in 1..Len(s) + Len(t), x = (s \o t)[i]
          PROVE  x \in E!Elements(s) \/ x \in E!Elements(t)
      <4>1. CASE i \in 1..Len(s)
        BY <2>4, <3>2, <3>4, <4>1
      <4>2. CASE i \notin 1..Len(s)
        BY <2>3, <2>5, <3>3, <3>4, <4>2
      <4> QED BY <4>1, <4>2
    <3>5. x \in E!Elements(s) => x \in E!Elements(s \o t)
      BY <2>4, <3>1, <3>2
    <3>6. x \in E!Elements(t) => x \in E!Elements(s \o t)
      BY <2>2, <3>1, <3>3
    <3> QED BY <3>1, <3>4, <3>5, <3>6
  <2> QED BY <2>6
<1>2. E!Elements(Append(s, n)) = E!Elements(s) \cup {n}
  <2>1. /\ DOMAIN Append(s, n) = 1..Len(s) + 1 /\ DOMAIN s = 1..Len(s) /\ Len(s) \in Nat
        /\ \A i \in 1..Len(s) : Append(s, n)[i] = s[i]
        /\ Append(s, n)[Len(s) + 1] = n
    OBVIOUS
  <2>2. \A i \in 1..Len(s) + 1 : i \in 1..Len(s) \/ i = Len(s) + 1
    BY <2>1
  <2> QED BY <2>1, <2>2 DEF E!Elements
<1>3. ASSUME s # <<>>
      PROVE  /\ E!Elements(s) = {Head(s)} \cup E!Elements(Tail(s))
             /\ Head(s) \in Nat /\ Tail(s) \in Seq(Nat)
  <2>1. /\ DOMAIN s = 1..Len(s) /\ Len(s) \in Nat \ {0} /\ Head(s) = s[1] /\ Head(s) \in Nat
        /\ Tail(s) \in Seq(Nat) /\ DOMAIN Tail(s) = 1..Len(s) - 1
        /\ \A i \in 1..Len(s) - 1 : Tail(s)[i] = s[i + 1]
    BY <1>3
  <2>2. \A i \in 1..Len(s) : i = 1 \/ (i - 1 \in 1..Len(s) - 1 /\ Tail(s)[i - 1] = s[i])
    BY <2>1
  <2>3. \A i \in 1..Len(s) - 1 : i + 1 \in 1..Len(s)
    BY <2>1
  <2>4. 1 \in 1..Len(s)
    BY <2>1
  <2>5. ASSUME NEW x PROVE x \in E!Elements(s) <=> x = Head(s) \/ x \in E!Elements(Tail(s))
    <3>1. x \in E!Elements(s) <=> \E i \in 1..Len(s) : x = s[i]
      BY <2>1 DEF E!Elements
    <3>2. x \in E!Elements(Tail(s)) <=> \E i \in 1..Len(s) - 1 : x = Tail(s)[i]
      BY <2>1 DEF E!Elements
    <3>3. ASSUME NEW i \in 1..Len(s), x = s[i]
          PROVE x = Head(s) \/ x \in E!Elements(Tail(s))
      BY <2>1, <2>2, <3>2, <3>3
    <3>4. x \in E!Elements(Tail(s)) => x \in E!Elements(s)
      BY <2>1, <2>3, <3>1, <3>2
    <3>5. x = Head(s) => x \in E!Elements(s)
      BY <2>1, <2>4, <3>1
    <3> QED BY <3>1, <3>3, <3>4, <3>5
  <2> QED BY <2>1, <2>5
<1> QED BY <1>1, <1>2, <1>3

\* Events go to those who are subscribed.
LEMMA PublishKeeps ==
  ASSUME Followed, StreamInv, NEW kind \in E!Kind, E!Publish(kind), status' = status,
         status = "absent" => kind = "noise",
         announce' => announce
  PROVE  StreamInv'
<1> DEFINE n == Len(published) + 1
<1>1. /\ published \in Seq(E!Kind) /\ Len(published) \in Nat
      /\ published' = Append(published, kind)
      /\ queue' = [c \in E!Client |-> E!Push(c, n)]
      /\ over' = [c \in E!Client |-> over[c] \/ (at[c] \in {"live"} /\ Len(queue[c]) = Limit)]
      /\ at' = at /\ inbox' = inbox /\ got' = got
  BY DEF E!Publish, StreamInv, Queues, E!Subscribed
<1>2. /\ DOMAIN published' = DOMAIN published \cup {n} /\ published'[n] = kind /\ n \in Nat
      /\ \A i \in DOMAIN published : published'[i] = published[i]
      /\ published' \in Seq(E!Kind)
  BY <1>1
<1> HIDE DEF n
<1>3. ASSUME NEW c \in E!Client
      PROVE  /\ E!Push(c, n) \in Seq(Nat)
             /\ at[c] = "live" /\ Len(queue[c]) # Limit =>
                  E!Elements(E!Push(c, n)) = E!Elements(queue[c]) \cup {n}
  <2>1. queue[c] \in Seq(Nat)
    BY DEF StreamInv, Queues
  <2>2. Len(queue[c]) = Limit => queue[c] # <<>>
    BY <2>1 DEF Followed
  <2>3. Len(queue[c]) = Limit => Append(Tail(queue[c]), n) \in Seq(Nat)
    BY <1>2, <2>1, <2>2
  <2>4. Append(queue[c], n) \in Seq(Nat)
    BY <1>2, <2>1
  <2>5. E!Elements(Append(queue[c], n)) = E!Elements(queue[c]) \cup {n}
    BY <1>2, <2>1, ElementsOf
  <2> QED BY <2>1, <2>3, <2>4, <2>5 DEF E!Push, E!Subscribed
<1>4. Queues'
  BY <1>1, <1>2, <1>3 DEF StreamInv, Queues
<1>5. Before'
  BY <1>1, <1>2 DEF StreamInv, Before
<1>6. Early'
  <2> SUFFICES ASSUME NEW c \in Submitter, at[c] = "live", ~over'[c],
                      NEW i \in DOMAIN published', published'[i] # "noise"
               PROVE  i \in Kept(c)'
    BY <1>1 DEF Early
  <2>1. c \in E!Client
    BY DEF E!Client
  <2>2. ~over[c] /\ Len(queue[c]) # Limit
    BY <1>1, <2>1
  <2>3. Kept(c)' = Kept(c) \cup {n}
    BY <1>1, <1>3, <2>1, <2>2 DEF Kept
  <2>4. i \in DOMAIN published => i \in Kept(c)
    BY <1>2, <2>2 DEF StreamInv, Early
  <2> QED BY <1>2, <2>3, <2>4
<1> QED BY <1>4, <1>5, <1>6 DEF StreamInv

\* A client moves an event on, and loses none; or it is no longer there.
LEMMA ClientMoves ==
  ASSUME StreamInv, NEW c \in E!Client, UNCHANGED <<status, announce, published, over>>,
         NEW a \in Place, NEW q \in Seq(Nat), NEW i \in Seq(Nat), NEW g \in Seq(Nat),
         at' = [at EXCEPT ![c] = a], queue' = [queue EXCEPT ![c] = q],
         inbox' = [inbox EXCEPT ![c] = i], got' = [got EXCEPT ![c] = g],
         c \in Submitter => a \in {"live", "ended", "closed"},
         at[c] = "live" /\ a = "live" =>
           Kept(c) \subseteq E!Elements(g) \cup E!Elements(i) \cup E!Elements(q),
         c \in Submitter /\ a = "live" => at[c] = "live" \/ status = "absent"
  PROVE  StreamInv'
<1>1. Queues'
  BY DEF StreamInv, Queues
<1>2. \A d \in E!Client :
        /\ at'[d] = IF d = c THEN a ELSE at[d]
        /\ queue'[d] = IF d = c THEN q ELSE queue[d]
        /\ inbox'[d] = IF d = c THEN i ELSE inbox[d]
        /\ got'[d] = IF d = c THEN g ELSE got[d]
  <2>1. /\ at \in [E!Client -> Place] /\ queue \in [E!Client -> Seq(Nat)]
        /\ inbox \in [E!Client -> Seq(Nat)] /\ got \in [E!Client -> Seq(Nat)]
    BY DEF StreamInv, Queues
  <2>2. \A d \in E!Client : at'[d] = IF d = c THEN a ELSE at[d]
    BY <2>1
  <2>3. \A d \in E!Client : queue'[d] = IF d = c THEN q ELSE queue[d]
    BY <2>1
  <2>4. \A d \in E!Client : inbox'[d] = IF d = c THEN i ELSE inbox[d]
    BY <2>1
  <2>5. \A d \in E!Client : got'[d] = IF d = c THEN g ELSE got[d]
    BY <2>1
  <2> QED BY <2>2, <2>3, <2>4, <2>5
<1>3. Submitter \subseteq E!Client
  BY DEF E!Client
<1>4. Before'
  BY <1>2, <1>3 DEF StreamInv, Before
<1>5. Early'
  <2> SUFFICES ASSUME NEW d \in Submitter, at'[d] = "live", ~over[d],
                      NEW n \in DOMAIN published, published[n] # "noise"
               PROVE  n \in Kept(d)'
    BY DEF Early
  <2>1. at[d] = "live"
    BY <1>2, <1>3 DEF StreamInv, Before
  <2>2. n \in Kept(d)
    BY <2>1 DEF StreamInv, Early
  <2>3. Kept(d) \subseteq Kept(d)'
    <3>1. d \in E!Client /\ Kept(d)' = E!Elements(got'[d]) \cup E!Elements(inbox'[d]) \cup E!Elements(queue'[d])
      BY <1>3 DEF Kept, E!Elements
    <3>2. CASE d = c
      BY <1>2, <2>1, <3>1, <3>2
    <3>3. CASE d # c
      BY <1>2, <3>1, <3>3 DEF Kept
    <3> QED BY <3>2, <3>3
  <2> QED BY <2>2, <2>3
<1> QED BY <1>1, <1>4, <1>5 DEF StreamInv

LEMMA QueuesAre ==
  ASSUME StreamInv, NEW c \in E!Client
  PROVE  /\ queue[c] \in Seq(Nat) /\ inbox[c] \in Seq(Nat) /\ got[c] \in Seq(Nat)
         /\ at = [at EXCEPT ![c] = at[c]] /\ queue = [queue EXCEPT ![c] = queue[c]]
         /\ inbox = [inbox EXCEPT ![c] = inbox[c]] /\ got = [got EXCEPT ![c] = got[c]]
         /\ at[c] \in Place
BY DEF StreamInv, Queues

\* Those who subscribe, read the row, or go away.
LEMMA MovesInPlace ==
  ASSUME StreamInv, NEW c \in E!Client, NEW a \in Place, NEW q \in {queue[c], <<>>},
         UNCHANGED <<status, announce, published, inbox, got, over>>,
         at' = [at EXCEPT ![c] = a], queue' = [queue EXCEPT ![c] = q],
         c \in Submitter => a \in {"live", "ended", "closed"},
         a = "live" => q = queue[c] /\ at[c] # "live",
         c \in Submitter /\ a = "live" => status = "absent"
  PROVE  StreamInv'
<1>1. <<>> \in Seq(Nat)
  OBVIOUS
<1>2. /\ q \in Seq(Nat) /\ inbox[c] \in Seq(Nat) /\ got[c] \in Seq(Nat)
      /\ inbox' = [inbox EXCEPT ![c] = inbox[c]] /\ got' = [got EXCEPT ![c] = got[c]]
  BY <1>1, QueuesAre
<1> QED BY <1>2, ClientMoves

LEMMA ListenKeeps ==
  ASSUME StreamInv, NEW c \in Submitter \cup Watcher, E!Listen(c) PROVE StreamInv'
<1>1. c \in E!Client /\ at[c] = "out" /\ at' = [at EXCEPT ![c] = "live"] /\ "live" \in Place
      /\ queue' = [queue EXCEPT ![c] = queue[c]]
  BY QueuesAre DEF E!Listen, E!Subscribe, E!Client, Place
<1>2. UNCHANGED <<status, announce, published, inbox, got, over>>
  BY DEF E!Listen, E!Subscribe
<1>3. c \in Submitter => status = "absent"
  BY <1>1 DEF StreamInv, Before
<1> QED BY <1>1, <1>2, <1>3, MovesInPlace

LEMMA OpenKeeps ==
  ASSUME StreamInv, NEW c \in Viewer, E!Open(c) PROVE StreamInv'
<1>1. /\ c \in E!Client /\ at[c] = "out" /\ status # "absent"
      /\ queue' = [queue EXCEPT ![c] = queue[c]]
  BY QueuesAre DEF E!Open, E!Client
<1>2. PICK a \in {"replay", "follow"} : at' = [at EXCEPT ![c] = a]
  BY DEF E!Open
<1>3. UNCHANGED <<status, announce, published, inbox, got, over>>
  BY DEF E!Open
<1>4. c \notin Submitter
  BY <1>1 DEF StreamInv, Before
<1> QED BY <1>1, <1>2, <1>3, <1>4, MovesInPlace DEF Place

LEMMA FollowKeeps ==
  ASSUME StreamInv, NEW c \in E!Client, E!Follow(c) PROVE StreamInv'
<1>1. at[c] = "follow" /\ at' = [at EXCEPT ![c] = "live"] /\ "live" \in Place
      /\ queue' = [queue EXCEPT ![c] = queue[c]]
  BY QueuesAre DEF E!Follow, E!Subscribe, Place
<1>2. UNCHANGED <<status, announce, published, inbox, got, over>>
  BY DEF E!Follow, E!Subscribe
<1>3. c \notin Submitter
  BY <1>1 DEF StreamInv, Before
<1> QED BY <1>1, <1>2, <1>3, MovesInPlace

LEMMA LeaveKeeps ==
  ASSUME StreamInv, NEW c \in E!Client, E!Replay(c) \/ E!Disconnect(c) PROVE StreamInv'
<1>1. PICK a \in {"ended", "closed"} : at' = [at EXCEPT ![c] = a] /\ queue' = [queue EXCEPT ![c] = <<>>]
  BY DEF E!Replay, E!Disconnect, E!Leave
<1>2. UNCHANGED <<status, announce, published, inbox, got, over>>
  BY DEF E!Replay, E!Disconnect, E!Leave
<1> QED BY <1>1, <1>2, MovesInPlace DEF Place

\* The pump takes the oldest event from the bus.
LEMMA PumpKeeps ==
  ASSUME StreamInv, NEW c \in E!Client, E!Pump(c) PROVE StreamInv'
<1> DEFINE q == Tail(queue[c])
           i == Append(inbox[c], Head(queue[c]))
<1>1. /\ at[c] = "live" /\ queue[c] # <<>>
      /\ inbox' = [inbox EXCEPT ![c] = i] /\ queue' = [queue EXCEPT ![c] = q]
      /\ UNCHANGED <<status, announce, published, over>>
      /\ at' = at /\ got' = got
  BY DEF E!Pump
<1>2. /\ queue[c] \in Seq(Nat) /\ inbox[c] \in Seq(Nat) /\ got[c] \in Seq(Nat)
      /\ at' = [at EXCEPT ![c] = at[c]] /\ got' = [got EXCEPT ![c] = got[c]] /\ at[c] \in Place
  BY <1>1, QueuesAre
<1>3. /\ q \in Seq(Nat) /\ Head(queue[c]) \in Nat
      /\ E!Elements(queue[c]) = {Head(queue[c])} \cup E!Elements(q)
  BY <1>1, <1>2, ElementsOf
<1>4. i \in Seq(Nat) /\ E!Elements(i) = E!Elements(inbox[c]) \cup {Head(queue[c])}
  BY <1>2, <1>3, ElementsOf
<1>5. Kept(c) \subseteq E!Elements(got[c]) \cup E!Elements(i) \cup E!Elements(q)
  BY <1>3, <1>4 DEF Kept
<1> HIDE DEF q, i
<1>6. c \in Submitter => at[c] \in {"live", "ended", "closed"}
  BY <1>1
<1> QED BY <1>1, <1>2, <1>3, <1>4, <1>5, <1>6, ClientMoves

\* An event is handled, from the queue or from the inbox.
LEMMA ReceiveKeeps ==
  ASSUME StreamInv, NEW c \in E!Client, E!Receive(c) PROVE StreamInv'
<1>1. /\ at[c] = "live" /\ at[c] \in Place
      /\ queue[c] \in Seq(Nat) /\ inbox[c] \in Seq(Nat) /\ got[c] \in Seq(Nat)
      /\ at = [at EXCEPT ![c] = at[c]] /\ queue = [queue EXCEPT ![c] = queue[c]]
      /\ inbox = [inbox EXCEPT ![c] = inbox[c]]
  BY QueuesAre DEF E!Receive
<1>2. <<>> \in Seq(Nat) /\ "ended" \in Place
  BY DEF Place
<1>3. UNCHANGED <<status, announce, published, over>>
  BY DEF E!Receive, E!Handle, E!Leave
<1>4. ASSUME NEW n \in Nat, got' = [got EXCEPT ![c] = Append(@, n)],
             at' = [at EXCEPT ![c] = "ended"], queue' = [queue EXCEPT ![c] = <<>>],
             inbox' = [inbox EXCEPT ![c] = <<>>]
      PROVE  StreamInv'
  <2>1. Append(got[c], n) \in Seq(Nat) /\ got' = [got EXCEPT ![c] = Append(got[c], n)]
    BY <1>1, <1>4
  <2> QED BY <1>2, <1>3, <1>4, <2>1, ClientMoves
<1>5. ASSUME NEW q \in Seq(Nat), NEW i \in Seq(Nat), NEW n \in Nat,
             got' = [got EXCEPT ![c] = Append(@, n)], at' = at,
             queue' = [queue EXCEPT ![c] = q], inbox' = [inbox EXCEPT ![c] = i],
             E!Elements(queue[c]) \cup E!Elements(inbox[c]) \subseteq {n} \cup E!Elements(q) \cup E!Elements(i)
      PROVE  StreamInv'
  <2> DEFINE g == Append(got[c], n)
  <2>1. /\ g \in Seq(Nat) /\ E!Elements(g) = E!Elements(got[c]) \cup {n}
        /\ got' = [got EXCEPT ![c] = g]
    BY <1>1, <1>5, ElementsOf
  <2>2. Kept(c) \subseteq E!Elements(g) \cup E!Elements(i) \cup E!Elements(q)
    BY <1>5, <2>1 DEF Kept
  <2>3. at' = [at EXCEPT ![c] = at[c]] /\ (c \in Submitter => at[c] \in {"live", "ended", "closed"})
    BY <1>1, <1>5
  <2> HIDE DEF g
  <2> QED BY <1>1, <1>3, <1>5, <2>1, <2>2, <2>3, ClientMoves
<1>6. CASE queue[c] # <<>> /\ E!Handle(c, Head(queue[c]),
             /\ queue' = [queue EXCEPT ![c] = Tail(@)]
             /\ UNCHANGED <<at, inbox, over>>)
  <2>1. /\ Tail(queue[c]) \in Seq(Nat) /\ Head(queue[c]) \in Nat
        /\ E!Elements(queue[c]) = {Head(queue[c])} \cup E!Elements(Tail(queue[c]))
    BY <1>1, <1>6, ElementsOf
  <2>2. \/ at' = [at EXCEPT ![c] = "ended"] /\ queue' = [queue EXCEPT ![c] = <<>>]
           /\ inbox' = [inbox EXCEPT ![c] = <<>>]
        \/ queue' = [queue EXCEPT ![c] = Tail(queue[c])] /\ at' = at
           /\ inbox' = [inbox EXCEPT ![c] = inbox[c]]
    BY <1>1, <1>6 DEF E!Handle, E!Leave
  <2>3. got' = [got EXCEPT ![c] = Append(@, Head(queue[c]))]
    BY <1>6 DEF E!Handle
  <2> QED BY <1>1, <1>4, <1>5, <2>1, <2>2, <2>3
<1>7. CASE inbox[c] # <<>> /\ E!Handle(c, Head(inbox[c]),
             /\ inbox' = [inbox EXCEPT ![c] = Tail(@)]
             /\ UNCHANGED <<at, queue, over>>)
  <2>1. /\ Tail(inbox[c]) \in Seq(Nat) /\ Head(inbox[c]) \in Nat
        /\ E!Elements(inbox[c]) = {Head(inbox[c])} \cup E!Elements(Tail(inbox[c]))
    BY <1>1, <1>7, ElementsOf
  <2>2. \/ at' = [at EXCEPT ![c] = "ended"] /\ queue' = [queue EXCEPT ![c] = <<>>]
           /\ inbox' = [inbox EXCEPT ![c] = <<>>]
        \/ inbox' = [inbox EXCEPT ![c] = Tail(inbox[c])] /\ at' = at
           /\ queue' = [queue EXCEPT ![c] = queue[c]]
    BY <1>1, <1>7 DEF E!Handle, E!Leave
  <2>3. got' = [got EXCEPT ![c] = Append(@, Head(inbox[c]))]
    BY <1>7 DEF E!Handle
  <2> QED BY <1>1, <1>4, <1>5, <2>1, <2>2, <2>3
<1> QED BY <1>6, <1>7 DEF E!Receive

LEMMA StreamStart == ASSUME Followed, E!Init PROVE StreamInv
<1>1. <<>> \in Seq(Nat) /\ <<>> \in Seq(E!Kind)
  OBVIOUS
<1>2. published = <<>> /\ \A c \in E!Client : at[c] = "out"
  BY DEF E!Init
<1>3. DOMAIN published = {}
  BY <1>2
<1>4. Queues
  BY <1>1 DEF E!Init, Queues, Place
<1>5. Before /\ Early
  BY <1>2, <1>3 DEF E!Init, Before, Early, E!Client
<1> QED BY <1>4, <1>5 DEF StreamInv

LEMMA StreamStep == ASSUME Followed, StreamInv, [E!Next]_(E!vars) PROVE StreamInv'
<1>1. ASSUME UNCHANGED <<published, at, queue, inbox, got, over>>, Before' PROVE StreamInv'
  <2>1. Queues' /\ Early'
    BY <1>1 DEF StreamInv, Queues, Early, Kept, E!Elements
  <2> QED BY <1>1, <2>1 DEF StreamInv
<1>2. CASE UNCHANGED E!vars
  BY <1>1, <1>2 DEF E!vars, E!clientVars, StreamInv, Before
<1>3. CASE E!Commit \/ E!LoseAnnouncement
  <2>1. Before'
    BY <1>3 DEF E!Commit, E!LoseAnnouncement, E!clientVars, StreamInv, Before
  <2> QED BY <1>1, <1>3, <2>1 DEF E!Commit, E!LoseAnnouncement, E!clientVars
<1>4. ASSUME NEW c \in Submitter, E!Submit(c) PROVE StreamInv'
  <2>1. Before'
    BY <1>4 DEF E!Submit, E!clientVars, StreamInv, Before, Followed
  <2> QED BY <1>1, <1>4, <2>1 DEF E!Submit, E!clientVars
<1>5. CASE E!Noise
  <2>1. E!Publish("noise") /\ "noise" \in E!Kind
    BY <1>5 DEF E!Noise, E!Kind
  <2>2. status' = status /\ announce' = announce
    BY <1>5 DEF E!Noise
  <2> QED BY <2>1, <2>2, PublishKeeps
<1>6. CASE E!Progress
  <2>1. PICK kind \in {"delta", "paused"} : E!Publish(kind)
    BY <1>6 DEF E!Progress
  <2>2. kind \in E!Kind /\ status # "absent" /\ status' = status /\ announce' = announce
    BY <1>6 DEF E!Progress, E!Kind
  <2> QED BY <2>1, <2>2, PublishKeeps
<1>7. CASE E!Announce
  <2>1. E!Publish("finished") /\ "finished" \in E!Kind
    BY <1>7 DEF E!Announce, E!Kind
  <2>2. status # "absent" /\ status' = status /\ ~announce'
    BY <1>7 DEF E!Announce, StreamInv, Before
  <2> QED BY <2>1, <2>2, PublishKeeps
<1> QED BY <1>2, <1>3, <1>4, <1>5, <1>6, <1>7, ListenKeeps, OpenKeeps, FollowKeeps,
           LeaveKeeps,
           PumpKeeps, ReceiveKeeps DEF E!Next, E!ClientStep

\* The command line has, or is about to have, every event of the run it submitted:
\* it subscribes before it submits, whatever the bus and its pump do in between.
THEOREM NoEventIsMissed == Followed => (E!Spec => []NoEarlyEventMissed)
<1> SUFFICES ASSUME Followed PROVE E!Spec => []NoEarlyEventMissed
  OBVIOUS
<1>1. E!Init => StreamInv
  BY StreamStart
<1>2. StreamInv /\ [E!Next]_(E!vars) => StreamInv'
  BY StreamStep
<1>3. StreamInv => NoEarlyEventMissed
  <2> SUFFICES ASSUME StreamInv, NEW c \in Submitter, at[c] = "live", ~over[c],
                      NEW n \in DOMAIN published, published[n] # "noise"
               PROVE  n \in E!Elements(E!Heard(c))
    BY DEF NoEarlyEventMissed, E!NoEarlyEventMissed
  <2>1. c \in E!Client
    BY DEF E!Client
  <2>2. /\ got[c] \in Seq(Nat) /\ inbox[c] \in Seq(Nat) /\ queue[c] \in Seq(Nat)
        /\ got[c] \o inbox[c] \in Seq(Nat)
    BY <2>1, QueuesAre
  <2>3. /\ E!Elements(got[c] \o inbox[c]) = E!Elements(got[c]) \cup E!Elements(inbox[c])
        /\ E!Elements((got[c] \o inbox[c]) \o queue[c])
             = E!Elements(got[c] \o inbox[c]) \cup E!Elements(queue[c])
    BY <2>2, ElementsOf
  <2> QED BY <2>3 DEF StreamInv, Early, Kept, E!Heard
<1> QED BY <1>1, <1>2, <1>3, PTL DEF E!Spec

=============================================================================
