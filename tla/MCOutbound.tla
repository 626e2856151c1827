----------------------------- MODULE MCOutbound -----------------------------
(* Model-checking instance of what goes back out: the replies of the chat    *)
(* channels (ChannelDelivery) and the events of a run (EventStream), each    *)
(* under its own fairness.  They share no variable, so one run checks both:  *)
(* `part` says which of them moves in a behaviour.                           *)
EXTENDS ChannelDelivery, TLC

CONSTANTS
  m1, chat,
  Viewer, Submitter, Watcher, Limit, MaxEvents, MaxLost

VARIABLES
  part,
  status, announce, published, at, queue, inbox, got, over, lost

E == INSTANCE EventStream

OneChat == m1 :> chat

eventVars == <<status, announce, published, at, queue, inbox, got, over,
               lost>>
allVars == <<part, vars, eventVars>>

InitAll == part \in {"replies", "events"} /\ Init /\ E!Init

NextAll ==
  \/ part = "replies" /\ Next /\ UNCHANGED <<part, eventVars>>
  \/ part = "events" /\ E!Next /\ UNCHANGED <<part, vars>>

FairSpecAll ==
  /\ InitAll /\ [][NextAll]_allVars
  /\ \/ part = "replies" /\ Fairness
     \/ part = "events" /\ E!Fairness

\* The properties of the modules, stated there.
NoEarlyEventMissed == E!NoEarlyEventMissed
StreamEnds == E!StreamEnds

=============================================================================
