---------------------------- MODULE EventStream ----------------------------
(***************************************************************************)
(* The event bus of one workspace and those who listen to it: the SSE      *)
(* stream of a run, the command line's stream_run, and watchers that take  *)
(* everything (WebSocket gateway, desktop GUI).  One run is followed; the   *)
(* other runs of the workspace only add noise to the queues.               *)
(***************************************************************************)
EXTENDS Naturals, Sequences

CONSTANTS
  Viewer,    \* SSE streams of the run, opened at any time
  Submitter, \* stream_run of the command line: it submits the run
  Watcher,   \* WebSocket clients and the GUI
  Limit,     \* EventBus._QUEUE_LIMIT
  MaxEvents, \* bound: events published, the terminal one not counted
  MaxLost    \* bound: processes that die between commit and publish

Client == Viewer \cup Submitter \cup Watcher

VARIABLES
  status,    \* the run's row: "absent", "live" or "over"
  announce,  \* the outcome is committed and not yet published
  published, \* kinds of all events of the workspace, oldest first
  at,        \* where each client is
  queue,     \* bus queue of each subscriber: positions in published
  inbox,     \* what a client's pump took from it: positions, unbounded
  got,       \* positions a client has handled
  over,      \* history: its queue has overflowed
  lost       \* terminal events that were never published

clientVars == <<at, queue, inbox, got, over>>
vars == <<status, announce, published, clientVars, lost>>

Kind == {"delta", "paused", "noise", "finished"}
Subscribed == {"live"}
Gone == {"ended", "closed"}
Elements(s) == {s[i] : i \in DOMAIN s}

-----------------------------------------------------------------------------
\* publish: put_nowait, after dropping the oldest event of a full queue.
Push(c, n) ==
  IF at[c] \notin Subscribed THEN queue[c]
  ELSE Append(IF Len(queue[c]) = Limit THEN Tail(queue[c]) ELSE queue[c], n)

Publish(kind) ==
  /\ published' = Append(published, kind)
  /\ queue' = [c \in Client |-> Push(c, Len(published) + 1)]
  /\ over' = [c \in Client |->
       over[c] \/ (at[c] \in Subscribed /\ Len(queue[c]) = Limit)]
  /\ UNCHANGED <<at, inbox, got>>

\* Another run of the workspace.
Noise ==
  /\ Len(published) < MaxEvents
  /\ Publish("noise")
  /\ UNCHANGED <<status, announce, lost>>

\* Deltas, steps and pauses of the run.
Progress ==
  /\ status = "live" /\ Len(published) < MaxEvents
  /\ \E kind \in {"delta", "paused"} : Publish(kind)
  /\ UNCHANGED <<status, announce, lost>>

\* _finish and request_cancel commit the outcome, then publish it.
Commit ==
  /\ status = "live"
  /\ status' = "over" /\ announce' = TRUE
  /\ UNCHANGED <<published, clientVars, lost>>

Announce ==
  /\ announce /\ announce' = FALSE
  /\ Publish("finished")
  /\ UNCHANGED <<status, lost>>

LoseAnnouncement ==
  /\ announce /\ lost < MaxLost
  /\ announce' = FALSE /\ lost' = lost + 1
  /\ UNCHANGED <<status, published, clientVars>>

-----------------------------------------------------------------------------
Subscribe(c) ==
  /\ at' = [at EXCEPT ![c] = "live"]
  /\ UNCHANGED <<queue, inbox, got, over>>

\* The generator's finally: the queue is discarded.
Leave(c, where) ==
  /\ at' = [at EXCEPT ![c] = where]
  /\ queue' = [queue EXCEPT ![c] = <<>>]
  /\ UNCHANGED over

\* stream_run starts its pump, and the subscription registers ...
Listen(c) ==
  /\ at[c] = "out" /\ c \in Submitter \cup Watcher
  /\ Subscribe(c)
  /\ UNCHANGED <<status, announce, published, lost>>

\* (Mutation: the goal is submitted without waiting for the subscription.)
SubmitAtOnce(c) ==
  /\ at[c] \in {"out", "live"} /\ status = "absent"
  /\ status' = "live"
  /\ UNCHANGED <<announce, published, clientVars, lost>>

\* ... before the goal is submitted.
Submit(c) ==
  /\ at[c] = "live" /\ status = "absent"
  /\ status' = "live"
  /\ UNCHANGED <<announce, published, clientVars, lost>>

\* stream_run (SSE): the row is read while the request is handled; the body
\* subscribes, or replays the outcome, when the response is sent.
Open(c) ==
  /\ at[c] = "out" /\ status # "absent"
  /\ at' = [at EXCEPT ![c] = IF status = "over" THEN "replay" ELSE "follow"]
  /\ UNCHANGED <<status, announce, published, queue, inbox, got, over,
                 lost>>

Replay(c) ==
  /\ at[c] = "replay"
  /\ Leave(c, "ended")
  /\ UNCHANGED <<status, announce, published, inbox, got, lost>>

Follow(c) ==
  /\ at[c] = "follow"
  /\ Subscribe(c)
  /\ UNCHANGED <<status, announce, published, lost>>

\* The pump of stream_run and of the GUI.
Pump(c) ==
  /\ at[c] = "live" /\ c \notin Viewer /\ queue[c] # <<>>
  /\ inbox' = [inbox EXCEPT ![c] = Append(@, Head(queue[c]))]
  /\ queue' = [queue EXCEPT ![c] = Tail(@)]
  /\ UNCHANGED <<status, announce, published, at, got, over, lost>>

\* (Mutation: only a pause ends a stream.)
EndsOnlyPaused(c, kind) == c \in Submitter /\ kind = "paused"

EndsStream(c, kind) ==
  \/ c \in Viewer \cup Submitter /\ kind = "finished"
  \/ c \in Submitter /\ kind = "paused"

\* A client handles its next event; the one that ends its stream is the last.
Handle(c, n, rest) ==
  /\ got' = [got EXCEPT ![c] = Append(@, n)]
  /\ IF EndsStream(c, published[n])
       THEN /\ Leave(c, "ended")
            /\ inbox' = [inbox EXCEPT ![c] = <<>>]
       ELSE rest
  /\ UNCHANGED <<status, announce, published, lost>>

Receive(c) ==
  /\ at[c] = "live"
  /\ \/ /\ c \in Viewer /\ queue[c] # <<>>
        /\ Handle(c, Head(queue[c]),
             /\ queue' = [queue EXCEPT ![c] = Tail(@)]
             /\ UNCHANGED <<at, inbox, over>>)
     \/ /\ c \notin Viewer /\ inbox[c] # <<>>
        /\ Handle(c, Head(inbox[c]),
             /\ inbox' = [inbox EXCEPT ![c] = Tail(@)]
             /\ UNCHANGED <<at, queue, over>>)

\* The client goes away; stream_run also after 900 s without any event.
Disconnect(c) ==
  /\ at[c] \in {"follow", "replay", "live"}
  /\ c \in Submitter => queue[c] = <<>> /\ inbox[c] = <<>>
  /\ Leave(c, "closed")
  /\ UNCHANGED <<status, announce, published, inbox, got, lost>>

-----------------------------------------------------------------------------
Init ==
  /\ status = "absent" /\ announce = FALSE /\ published = <<>>
  /\ at = [c \in Client |-> "out"]
  /\ queue = [c \in Client |-> <<>>] /\ inbox = queue /\ got = queue
  /\ over = [c \in Client |-> FALSE]
  /\ lost = 0

ClientStep(c) ==
  Replay(c) \/ Follow(c) \/ Pump(c) \/ Receive(c)

Next ==
  \/ Noise \/ Progress \/ Commit \/ Announce \/ LoseAnnouncement
  \/ \E c \in Submitter \cup Watcher : Listen(c)
  \/ \E c \in Submitter : Submit(c)
  \/ \E c \in Viewer : Open(c)
  \/ \E c \in Client : ClientStep(c) \/ Disconnect(c)

Spec == Init /\ [][Next]_vars

\* The publisher goes on after its commit; every client's task is scheduled.
Fairness ==
  /\ WF_vars(Announce)
  /\ \A c \in Client : WF_vars(ClientStep(c))

FairSpec == Spec /\ Fairness

-----------------------------------------------------------------------------
(* Properties.                                                             *)

TypeOK ==
  /\ status \in {"absent", "live", "over"} /\ announce \in BOOLEAN
  /\ published \in Seq(Kind)
  /\ at \in [Client -> {"out", "replay", "follow", "live"} \cup Gone]
  /\ queue \in [Client -> Seq(Nat)] /\ inbox \in [Client -> Seq(Nat)]
  /\ got \in [Client -> Seq(Nat)]
  /\ over \in [Client -> BOOLEAN]
  /\ lost \in Nat

\* What a client has handled, and what still waits for it.
Heard(c) == got[c] \o inbox[c] \o queue[c]

\* The command line misses no event of its run: it subscribes before it submits
\* (cli/engine.py, stream_run: "so no early delta is missed").
NoEarlyEventMissed ==
  \A c \in Submitter : at[c] = "live" /\ ~over[c] =>
    \A n \in DOMAIN published :
      published[n] # "noise" => n \in Elements(Heard(c))

\* A stream that was subscribed when its run's outcome was committed ends, as
\* does one opened after it (api/routers/runs.py, stream_run: "Ends when the run
\* finishes"), unless its queue overflowed or the publisher died.  Nothing is
\* promised to a stream that read the row before and subscribes after the
\* event.
StreamEnds ==
  \A c \in Viewer \cup Submitter :
    /\ at[c] = "live" /\ announce ~> at[c] \in Gone \/ over[c] \/ lost > 0
    /\ at[c] = "replay" ~> at[c] \in Gone

=============================================================================
