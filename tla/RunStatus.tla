----------------------------- MODULE RunStatus -----------------------------
(***************************************************************************)
(* What the run table promises a client: the status of a run and whether a *)
(* worker owns the run.  A waiting run is claimed by one owner; only the    *)
(* owner parks or settles it; a run goes back to the queue only when its    *)
(* owner is gone; a cancellation may land at any time.  RunLifecycle        *)
(* implements it with a compare-and-swap, a heartbeat and a sweep.          *)
(***************************************************************************)
CONSTANT Run

VARIABLES
  status,  \* what GET /runs/{id} answers
  owned    \* the runs that some worker drives

vars == <<status, owned>>

Waiting == {"queued", "awaiting_approval"}
Settled == {"succeeded", "failed", "cancelled"}

Init ==
  /\ status = [r \in Run |-> "absent"]
  /\ owned = {}

Submit(r) ==
  /\ status[r] = "absent"
  /\ status' = [status EXCEPT ![r] = "queued"]
  /\ UNCHANGED owned

Claim(r) ==
  /\ status[r] \in Waiting /\ r \notin owned
  /\ status' = [status EXCEPT ![r] = "running"]
  /\ owned' = owned \cup {r}

\* Its session or agent is gone: settled without being started.
Refuse(r) ==
  /\ status[r] \in Waiting /\ r \notin owned
  /\ status' = [status EXCEPT ![r] = "failed"]
  /\ UNCHANGED owned

\* The owner gives the run up, with an outcome or to wait for a human.
Yield(r) ==
  /\ r \in owned
  /\ \E s \in Settled \cup {"awaiting_approval"} :
       status' = [status EXCEPT ![r] = s]
  /\ owned' = owned \ {r}

\* The owner dies.
Abandon(r) ==
  /\ r \in owned
  /\ owned' = owned \ {r}
  /\ UNCHANGED status

Recover(S) ==
  /\ \A r \in S : status[r] = "running" /\ r \notin owned
  /\ status' = [r \in Run |-> IF r \in S THEN "queued" ELSE status[r]]
  /\ UNCHANGED owned

Cancel(r) ==
  /\ status[r] # "absent"
  /\ status' = [status EXCEPT ![r] = "cancelled"]
  /\ UNCHANGED owned

Next ==
  \/ \E r \in Run : Submit(r) \/ Claim(r) \/ Refuse(r) \/ Yield(r)
                    \/ Abandon(r) \/ Cancel(r)
  \/ \E S \in SUBSET Run : Recover(S)

Spec == Init /\ [][Next]_vars
=============================================================================
