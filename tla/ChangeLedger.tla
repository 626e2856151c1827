---------------------------- MODULE ChangeLedger ----------------------------
(***************************************************************************)
(* What the table change_records promises whoever reads it: a change is     *)
(* written down before it is made, and made or unmade only while its row is *)
(* open; a row is closed once, and 'reverted' only when the change is off   *)
(* the host; a window stays armed until its row is closed.  GuardedChange   *)
(* implements it with a guard, a sweep and a transaction of each, which     *)
(* touch the host at one time and the row at another.                       *)
(***************************************************************************)
CONSTANT Change

VARIABLES
  status, \* what the ledger says of each change
  armed,  \* the changes whose window can fire
  live    \* the changes that the host shows

vars == <<status, armed, live>>

Open == {"applied", "unrevertible"}

Init ==
  /\ status = [c \in Change |-> "none"]
  /\ armed = {}
  /\ live = {}

\* What has no inverse is never armed.
Record(c) ==
  /\ status[c] = "none" /\ c \notin live
  /\ \E s \in Open : status' = [status EXCEPT ![c] = s]
  /\ \/ UNCHANGED armed
     \/ status'[c] = "applied" /\ armed' = armed \cup {c}
  /\ UNCHANGED live

Make(c) ==
  /\ status[c] \in Open
  /\ live' = live \cup {c}
  /\ UNCHANGED <<status, armed>>

\* The inverse is on the host before the row says so.
Unmake(c) ==
  /\ status[c] = "applied"
  /\ live' = live \ {c}
  /\ UNCHANGED <<status, armed>>

Keep(c) ==
  /\ status[c] \in Open
  /\ status' = [status EXCEPT ![c] = "verified"]
  /\ armed' = armed \ {c}
  /\ UNCHANGED live

\* One transaction closes the rows it has undone and those it could not.
Close(R, F) ==
  /\ \A c \in R : status[c] \in Open /\ c \notin live
  /\ \A c \in F : status[c] = "applied"
  /\ status' = [c \in Change |-> IF c \in R THEN "reverted"
                                 ELSE IF c \in F THEN "revert_failed"
                                 ELSE status[c]]
  /\ armed' = armed \ (R \cup F)
  /\ UNCHANGED live

Next ==
  \/ \E c \in Change : Record(c) \/ Make(c) \/ Unmake(c) \/ Keep(c)
  \/ \E R, F \in SUBSET Change : Close(R, F)

Spec == Init /\ [][Next]_vars
=============================================================================
