-------------------------- MODULE ChannelDelivery --------------------------
(***************************************************************************)
(* Messages from chat services and the replies they are owed: the webhook   *)
(* requests that route a message to a run (channels/router.py), the table   *)
(* channel_replies, and the dispatchers of the API process and the worker   *)
(* that settle it (channels/dispatch.py).                                   *)
(*                                                                         *)
(* A run is reduced to what a dispatcher sees of it: still working, parked  *)
(* on an approval, or over.  RunLifecycle models the run itself.            *)
(***************************************************************************)
EXTENDS Naturals, FiniteSets

CONSTANTS
  Msg,            \* inbound messages, told apart by their dedupe_key
  Conversation,   \* routing keys
  ConvOf,         \* the conversation each message belongs to
  Hook,           \* concurrent webhook requests
  Run,            \* ids of runs; their number bounds the submissions
  Dispatcher,     \* the API's dispatch loop and the worker's cron job
  NoMsg,          \* a request that handles nothing, a run not yet submitted
  NoRun,          \* a request or dispatcher that has no run in hand
  MaxAttempts,    \* settings.channel_reply_max_attempts
  MaxDeliveries,  \* bound: deliveries of one message by the service
  MaxCrashes,     \* bound: requests and dispatchers that die in the middle
  MaxFails        \* bound: refused submissions and failed sends

ASSUME ChannelAssumption ==
  /\ ConvOf \in [Msg -> Conversation]
  /\ NoMsg \notin Msg /\ NoRun \notin Run
  /\ MaxAttempts \in Nat \ {0}
  /\ MaxDeliveries \in Nat /\ MaxCrashes \in Nat /\ MaxFails \in Nat

VARIABLES
  service,     \* what the chat service knows of each message
  hook,        \* local state of each webhook request
  bound,       \* the conversations with a channel_bindings row
  run,         \* runs and the message each was submitted for
  reply,       \* the channel_replies table, by run
  disp,        \* local state of each dispatcher
  configured,  \* the channel's credentials are set
  heard,       \* (history) what the person on the other end has received
  faults       \* how many faults of each kind have happened

vars == <<service, hook, bound, run, reply, disp, configured, heard, faults>>

IdleHook == [pc |-> "idle", msg |-> NoMsg, run |-> NoRun]
IdleDisp == [pc |-> "idle", todo |-> {}, run |-> NoRun, attempts |-> 0,
             says |-> "nothing", ok |-> FALSE]

Init ==
  /\ service = [m \in Msg |-> [acked |-> FALSE, deliveries |-> 0]]
  /\ hook = [h \in Hook |-> IdleHook]
  /\ bound = {}
  /\ run = [r \in Run |-> [msg |-> NoMsg, status |-> "none"]]
  /\ reply = [r \in Run |-> [status |-> "none", attempts |-> 0,
                             interim |-> FALSE]]
  /\ disp = [d \in Dispatcher |-> IdleDisp]
  /\ configured = TRUE
  /\ heard = [r \in Run |-> [notice |-> 0, answer |-> 0, excuse |-> 0]]
  /\ faults = [crash |-> 0, fail |-> 0]

RunsFor(m) == {r \in Run : run[r].msg = m}

Proceed(h, pc) == hook' = [hook EXCEPT ![h].pc = pc]

\* The request ends without a 200: the service will deliver again.
Refuse(h) == hook' = [hook EXCEPT ![h] = IdleHook]

-----------------------------------------------------------------------------
(* receive_webhook and ChannelRouter.handle_inbound.                       *)

\* The service delivers a message it has had no 200 for, perhaps while an
\* earlier delivery is still being handled.
Deliver(h, m) ==
  /\ configured
  /\ hook[h].pc = "idle"
  /\ ~service[m].acked
  /\ service[m].deliveries < MaxDeliveries
  /\ service' = [service EXCEPT ![m].deliveries = @ + 1]
  /\ hook' = [hook EXCEPT ![h] = [IdleHook EXCEPT !.pc = "find", !.msg = m]]
  /\ UNCHANGED <<bound, run, reply, disp, configured, heard, faults>>

\* _session_for looks the binding up ...
FindSession(h) ==
  /\ hook[h].pc = "find"
  /\ Proceed(h, IF ConvOf[hook[h].msg] \in bound THEN "check" ELSE "bind")
  /\ UNCHANGED <<service, bound, run, reply, disp, configured, heard, faults>>

\* ... or creates it: unique, so the loser of a race fails at the database.
CreateSession(h) ==
  /\ hook[h].pc = "bind"
  /\ \/ /\ ConvOf[hook[h].msg] \notin bound
        /\ bound' = bound \cup {ConvOf[hook[h].msg]}
        /\ Proceed(h, "check")
     \/ /\ ConvOf[hook[h].msg] \in bound
        /\ Refuse(h)
        /\ UNCHANGED bound
  /\ UNCHANGED <<service, run, reply, disp, configured, heard, faults>>

\* (Mutation: the idempotency key is not looked up.)
CheckNothing(h) ==
  /\ hook[h].pc = "check"
  /\ Proceed(h, "submit")
  /\ UNCHANGED <<service, bound, run, reply, disp, configured, heard, faults>>

\* (Mutation: a redelivery is acknowledged as soon as its run is found.)
CheckThenAck(h) ==
  /\ hook[h].pc = "check"
  /\ Proceed(h, IF RunsFor(hook[h].msg) = {} THEN "submit" ELSE "ack")
  /\ UNCHANGED <<service, bound, run, reply, disp, configured, heard, faults>>

\* submit_message, first transaction: the run of an earlier delivery, or the
\* quota check.
CheckIdempotencyKey(h) ==
  /\ hook[h].pc = "check"
  /\ \/ /\ \E r \in RunsFor(hook[h].msg) :
             hook' = [hook EXCEPT ![h] = [@ EXCEPT !.pc = "owe", !.run = r]]
        /\ UNCHANGED faults
     \/ /\ RunsFor(hook[h].msg) = {}
        /\ Proceed(h, "submit")
        /\ UNCHANGED faults
     \/ /\ RunsFor(hook[h].msg) = {}
        /\ faults.fail < MaxFails
        /\ faults' = [faults EXCEPT !.fail = @ + 1]
        /\ Refuse(h)
  /\ UNCHANGED <<service, bound, run, reply, disp, configured, heard>>

\* submit_message, second transaction.  No constraint makes the key unique.
SubmitRun(h, r) ==
  /\ hook[h].pc = "submit"
  /\ run[r].status = "none"
  /\ run' = [run EXCEPT ![r] = [msg |-> hook[h].msg, status |-> "live"]]
  /\ hook' = [hook EXCEPT ![h] = [@ EXCEPT !.pc = "owe", !.run = r]]
  /\ UNCHANGED <<service, bound, reply, disp, configured, heard, faults>>

\* (Mutation: a run that exists is taken to have its reply.)
FindReplyByRun(h) ==
  /\ hook[h].pc = "owe"
  /\ Proceed(h, "ack")
  /\ UNCHANGED <<service, bound, run, reply, disp, configured, heard, faults>>

\* _owe_reply looks for the row ...
FindReply(h) ==
  /\ hook[h].pc = "owe"
  /\ Proceed(h, IF reply[hook[h].run].status # "none" THEN "ack" ELSE "insert")
  /\ UNCHANGED <<service, bound, run, reply, disp, configured, heard, faults>>

\* ... and inserts it: unique on run_id.
InsertReply(h) ==
  /\ hook[h].pc = "insert"
  /\ LET r == hook[h].run IN
       \/ /\ reply[r].status = "none"
          /\ reply' = [reply EXCEPT ![r].status = "pending"]
          /\ Proceed(h, "ack")
       \/ /\ reply[r].status # "none"
          /\ Refuse(h)
          /\ UNCHANGED reply
  /\ UNCHANGED <<service, bound, run, disp, configured, heard, faults>>

\* The 200 reaches the service.
Acknowledge(h) ==
  /\ hook[h].pc = "ack"
  /\ service' = [service EXCEPT ![hook[h].msg].acked = TRUE]
  /\ hook' = [hook EXCEPT ![h] = IdleHook]
  /\ UNCHANGED <<bound, run, reply, disp, configured, heard, faults>>

\* The API process dies, or the response is lost.
HookDies(h) ==
  /\ faults.crash < MaxCrashes
  /\ hook[h].pc # "idle"
  /\ faults' = [faults EXCEPT !.crash = @ + 1]
  /\ Refuse(h)
  /\ UNCHANGED <<service, bound, run, reply, disp, configured, heard>>

-----------------------------------------------------------------------------
(* What happens to the run meanwhile, and to the configuration.            *)

RunChanges(r, from, to) ==
  /\ run[r].status \in from
  /\ run' = [run EXCEPT ![r].status = to]
  /\ UNCHANGED <<service, hook, bound, reply, disp, configured, heard, faults>>

RunParks(r)   == RunChanges(r, {"live"}, "parked")
RunResumes(r) == RunChanges(r, {"parked"}, "live")
RunEnds(r)    == RunChanges(r, {"live", "parked"}, "over")

\* The processes restart without the channel's credentials (another channel
\* keeps the dispatchers running).  A shutdown lets the sweep in flight end
\* (run_forever shields it); a kill is HookDies or DispatcherDies before it.
RemoveCredentials ==
  /\ configured
  /\ \A h \in Hook : hook[h].pc = "idle"
  /\ \A d \in Dispatcher : disp[d].pc = "idle"
  /\ configured' = FALSE
  /\ UNCHANGED <<service, hook, bound, run, reply, disp, heard, faults>>

-----------------------------------------------------------------------------
(* ChannelDispatcher.                                                      *)

\* The next reply of the sweep, or its end.
NextReply(d) ==
  disp' = [disp EXCEPT ![d] =
             [IdleDisp EXCEPT !.pc = IF disp[d].todo = {} THEN "idle" ELSE "load",
                              !.todo = disp[d].todo]]

\* _due_replies.
Due == {r \in Run : /\ reply[r].status = "pending"
                    /\ reply[r].attempts < MaxAttempts
                    /\ run[r].status \in {"over", "parked"}}

BeginSweep(d) ==
  /\ disp[d].pc = "idle"
  /\ Due # {}
  /\ disp' = [disp EXCEPT ![d] = [IdleDisp EXCEPT !.pc = "load", !.todo = Due]]
  /\ UNCHANGED <<service, hook, bound, run, reply, configured, heard, faults>>

\* _answer_text: a run that has not succeeded or been cancelled has failed.
TextFor(r) ==
  CASE run[r].status = "parked" -> "notice"
    [] run[r].status = "over"   -> "answer"
    [] OTHER                    -> "excuse"

\* (Mutation: after the notice a reply is never looked at again.)
LoadReplyOnce(d, r) ==
  /\ disp[d].pc = "load" /\ r \in disp[d].todo
  /\ LET rest == disp[d].todo \ {r}
         skip == reply[r].status # "pending" \/ reply[r].interim
     IN disp' = [disp EXCEPT ![d] =
          IF skip
            THEN [IdleDisp EXCEPT !.pc = IF rest = {} THEN "idle" ELSE "load",
                                  !.todo = rest]
            ELSE [IdleDisp EXCEPT !.pc = "claim", !.todo = rest, !.run = r,
                    !.attempts = reply[r].attempts, !.says = TextFor(r)]]
  /\ UNCHANGED <<service, hook, bound, run, reply, configured, heard, faults>>

\* _settle loads reply and run, in a transaction of its own.
LoadReply(d, r) ==
  /\ disp[d].pc = "load" /\ r \in disp[d].todo
  /\ LET rest == disp[d].todo \ {r}
         skip == \/ reply[r].status # "pending"
                 \/ run[r].status = "parked" /\ reply[r].interim
     IN disp' = [disp EXCEPT ![d] =
          IF skip
            THEN [IdleDisp EXCEPT !.pc = IF rest = {} THEN "idle" ELSE "load",
                                  !.todo = rest]
            ELSE [IdleDisp EXCEPT !.pc = "claim", !.todo = rest, !.run = r,
                    !.attempts = reply[r].attempts, !.says = TextFor(r)]]
  /\ UNCHANGED <<service, hook, bound, run, reply, configured, heard, faults>>

\* The channel is gone from the registry.
AbandonUnconfigured(d) ==
  /\ disp[d].pc = "claim" /\ ~configured
  /\ LET r == disp[d].run IN
       reply' = IF reply[r].status = "pending"
                  THEN [reply EXCEPT ![r].status = "abandoned"] ELSE reply
  /\ NextReply(d)
  /\ UNCHANGED <<service, hook, bound, run, configured, heard, faults>>

\* (Mutation: a read-then-write that filters on the status alone.)
ClaimWithoutCompare(d) ==
  /\ disp[d].pc = "claim" /\ configured
  /\ LET r == disp[d].run IN
       /\ reply' = IF disp[d].says = "notice"
                     THEN [reply EXCEPT ![r].interim = TRUE]
                     ELSE [reply EXCEPT ![r].attempts = disp[d].attempts + 1]
       /\ disp' = [disp EXCEPT ![d].pc = "send"]
  /\ UNCHANGED <<service, hook, bound, run, configured, heard, faults>>

\* _claim: a compare-and-swap on the attempts, or on the interim flag.
ClaimReply(d) ==
  /\ disp[d].pc = "claim" /\ configured
  /\ LET r == disp[d].run
         notice == disp[d].says = "notice"
         wins == /\ reply[r].status = "pending"
                 /\ IF notice THEN ~reply[r].interim
                              ELSE reply[r].attempts = disp[d].attempts
     IN IF wins
          THEN /\ reply' = IF notice
                             THEN [reply EXCEPT ![r].interim = TRUE]
                             ELSE [reply EXCEPT ![r].attempts = @ + 1]
               /\ disp' = [disp EXCEPT ![d].pc = "send"]
          ELSE NextReply(d) /\ UNCHANGED reply
  /\ UNCHANGED <<service, hook, bound, run, configured, heard, faults>>

\* channel.send: delivered, or refused or timed out, delivered or not.
Hear(r, says) == heard' = [heard EXCEPT ![r][says] = @ + 1]

Send(d) ==
  /\ disp[d].pc = "send"
  /\ \/ /\ Hear(disp[d].run, disp[d].says)
        /\ disp' = [disp EXCEPT ![d] = [@ EXCEPT !.pc = "record", !.ok = TRUE]]
        /\ UNCHANGED faults
     \/ /\ faults.fail < MaxFails
        /\ faults' = [faults EXCEPT !.fail = @ + 1]
        /\ \/ UNCHANGED heard
           \/ Hear(disp[d].run, disp[d].says)
        /\ disp' = [disp EXCEPT ![d].pc = "record"]
  /\ UNCHANGED <<service, hook, bound, run, reply, configured>>

\* The outcome, by id alone.  A notice leaves the answer owed.
RecordOutcome(d) ==
  /\ disp[d].pc = "record"
  /\ LET r == disp[d].run IN
       reply' =
         IF disp[d].says = "notice" THEN reply
         ELSE IF disp[d].ok THEN [reply EXCEPT ![r].status = "sent"]
         ELSE IF reply[r].attempts >= MaxAttempts
           THEN [reply EXCEPT ![r].status = "abandoned"]
         ELSE reply
  /\ NextReply(d)
  /\ UNCHANGED <<service, hook, bound, run, configured, heard, faults>>

\* The process dies, or an exception ends the sweep.
DispatcherDies(d) ==
  /\ faults.crash < MaxCrashes
  /\ disp[d].pc # "idle"
  /\ faults' = [faults EXCEPT !.crash = @ + 1]
  /\ disp' = [disp EXCEPT ![d] = IdleDisp]
  /\ UNCHANGED <<service, hook, bound, run, reply, configured, heard>>

-----------------------------------------------------------------------------
HookStep(h) ==
  \/ FindSession(h)
  \/ CreateSession(h)
  \/ CheckIdempotencyKey(h)
  \/ \E r \in Run : SubmitRun(h, r)
  \/ FindReply(h)
  \/ InsertReply(h)
  \/ Acknowledge(h)

DispatcherStep(d) ==
  \/ BeginSweep(d)
  \/ \E r \in Run : LoadReply(d, r)
  \/ AbandonUnconfigured(d)
  \/ ClaimReply(d)
  \/ Send(d)
  \/ RecordOutcome(d)

Next ==
  \/ \E h \in Hook, m \in Msg : Deliver(h, m)
  \/ \E h \in Hook : HookStep(h) \/ HookDies(h)
  \/ \E r \in Run : RunParks(r) \/ RunResumes(r) \/ RunEnds(r)
  \/ RemoveCredentials
  \/ \E d \in Dispatcher : DispatcherStep(d) \/ DispatcherDies(d)

Spec == Init /\ [][Next]_vars

\* The service delivers until it gets its 200, requests and sweeps run, and a
\* run that is working comes to an end or parks.
Fairness ==
  /\ \A m \in Msg : WF_vars(\E h \in Hook : Deliver(h, m))
  /\ \A h \in Hook : WF_vars(HookStep(h))
  /\ \A r \in Run : WF_vars(run[r].status = "live" /\ RunEnds(r))
  /\ \A d \in Dispatcher : WF_vars(DispatcherStep(d))

FairSpec == Spec /\ Fairness

-----------------------------------------------------------------------------
(* Properties.                                                             *)

ServiceType == [acked: BOOLEAN, deliveries: 0..MaxDeliveries]
HookType  == [pc: {"idle", "find", "bind", "check", "submit", "owe", "insert",
                   "ack"}, msg: Msg \cup {NoMsg}, run: Run \cup {NoRun}]
RunType   == [msg: Msg \cup {NoMsg}, status: {"none", "live", "parked", "over"}]
ReplyType == [status: {"none", "pending", "sent", "abandoned"}, attempts: Nat,
              interim: BOOLEAN]
DispType  == [pc: {"idle", "load", "claim", "send", "record"},
              todo: SUBSET Run, run: Run \cup {NoRun}, attempts: Nat,
              says: {"nothing", "notice", "answer", "excuse"}, ok: BOOLEAN]

\* Types of the tables and of the local states.
TypeOK ==
  /\ service \in [Msg -> ServiceType]
  /\ hook \in [Hook -> HookType]
  /\ bound \subseteq Conversation
  /\ run \in [Run -> RunType]
  /\ reply \in [Run -> ReplyType]
  /\ disp \in [Dispatcher -> DispType]
  /\ configured \in BOOLEAN
  /\ heard \in [Run -> [notice: Nat, answer: Nat, excuse: Nat]]
  /\ faults \in [crash: 0..MaxCrashes, fail: 0..MaxFails]

\* Accepting a message creates an obligation to answer it: the service gets its
\* 200 only once a run of that message has its row (models.py, ChannelReply).
AckedIsOwed ==
  \A m \in Msg : service[m].acked =>
    \E r \in RunsFor(m) : reply[r].status # "none"

\* Redeliveries resolve to the run of the first delivery, but for the ones that
\* were being handled at the same time (no constraint backs the key).
DuplicatesAreConcurrent ==
  \A m \in Msg : Cardinality(RunsFor(m)) <= Cardinality(Hook)

\* Everything a person hears was claimed, one claim per message: "single-winner
\* without a lock" (dispatch.py, _claim).
OneMessagePerClaim ==
  \A r \in Run :
    /\ heard[r].notice <= 1
    /\ heard[r].answer + heard[r].excuse <= reply[r].attempts

Settled(r) == reply[r].status \in {"sent", "abandoned"}

\* A message the service hands over is answered, given up on or waiting for a
\* human, whatever dies in between (dispatch.py: "Silence is the one outcome
\* that is never acceptable").
MessageIsAnswered ==
  \A m \in Msg :
    service[m].deliveries > 0
      ~> \/ \E r \in RunsFor(m) : Settled(r) \/ run[r].status = "parked"
         \/ ~configured

\* A reply that is owed for a run that is over gets settled.
ReplySettles ==
  \A r \in Run : reply[r].status = "pending" /\ run[r].status = "over"
                   ~> Settled(r)

\* Nobody is told that a run failed while it is still working
\* (docs/channels.md: "When the approval lands, the real answer follows").
NothingPremature == \A r \in Run : heard[r].excuse = 0

=============================================================================
