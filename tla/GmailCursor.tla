----------------------------- MODULE GmailCursor -----------------------------
(***************************************************************************)
(* Gmail ingress (channels/gmail.py and _resolve_gmail in                  *)
(* api/routers/channels.py).  A notification carries a history position,   *)
(* not a message; the request reads the stored cursor, lists the history    *)
(* after it, fetches the messages, commits the cursor and only then routes  *)
(* the messages.  Positions are counted in messages of the mailbox.        *)
(***************************************************************************)
EXTENDS Naturals

CONSTANTS
  Hook,       \* concurrent webhook requests
  NoCursor,   \* no row in channel_cursors
  MaxMail,    \* bound: messages that arrive
  MaxHiccups, \* bound: failures the code recovers from
  MaxDrops    \* bound: failures that cost messages

VARIABLES
  mail,       \* the newest history position
  own,        \* positions of SENT, DRAFT or TRASH messages
  notes,      \* notifications Pub/Sub holds until it gets a 200
  cursor,     \* channel_cursors.position
  base,       \* history: where the first notification put the cursor
  hook,       \* local state of each request
  routed,     \* messages that have a run (their dedupe key is taken)
  lost,       \* history: positions a failure has taken from a request
  hiccups     \* failures so far

vars == <<mail, own, notes, cursor, base, hook, routed, lost, hiccups>>

Position == 0..MaxMail
Idle == [pc |-> "idle"]

\* The request is answered with an error, or dies: Pub/Sub delivers again.
Unacknowledged(h) == hook' = [hook EXCEPT ![h] = Idle]

Acknowledge(h) ==
  /\ hook' = [hook EXCEPT ![h] = Idle]
  /\ notes' = notes \ {hook[h].note}

-----------------------------------------------------------------------------
\* Mail arrives, from outside or by our own reply; either way Gmail notifies.
Arrive(isOwn) ==
  /\ mail < MaxMail
  /\ mail' = mail + 1
  /\ own' = IF isOwn THEN own \cup {mail'} ELSE own
  /\ notes' = notes \cup {mail'}
  /\ UNCHANGED <<cursor, base, hook, routed, lost, hiccups>>

\* receive_webhook: also while the same notification is being handled.
Receive(h, n) ==
  /\ hook[h].pc = "idle" /\ n \in notes
  /\ hook' = [hook EXCEPT ![h] = [pc |-> "cursor", note |-> n]]
  /\ UNCHANGED <<mail, own, notes, cursor, base, routed, lost, hiccups>>

\* The first transaction of _resolve_gmail reads the cursor ...
ReadCursor(h) ==
  /\ hook[h].pc = "cursor"
  /\ hook' = [hook EXCEPT ![h] =
       IF cursor = NoCursor
         THEN [pc |-> "baseline", note |-> hook[h].note]
         ELSE [pc |-> "list", note |-> hook[h].note, start |-> cursor]]
  /\ UNCHANGED <<mail, own, notes, cursor, base, routed, lost, hiccups>>

\* ... and establishes a baseline if there is none; (workspace, channel) is
\* unique, so the second of two requests fails.
Baseline(h) ==
  /\ hook[h].pc = "baseline"
  /\ \/ /\ cursor = NoCursor
        /\ cursor' = hook[h].note /\ base' = hook[h].note
        /\ Acknowledge(h)
     \/ /\ cursor # NoCursor
        /\ Unacknowledged(h)
        /\ UNCHANGED <<cursor, base, notes>>
  /\ UNCHANGED <<mail, own, routed, lost, hiccups>>

\* list_history: the messages after start that are not our own.
History(start) == {m \in start + 1 .. mail : m \notin own}

Listed(h, ids, next) ==
  hook' = [hook EXCEPT ![h] = [pc |-> "commit", note |-> hook[h].note,
                               ids |-> ids, next |-> next]]

\* (Mutation: an unreachable history moves the cursor to the notification.)
ListHistorySkips(h) ==
  /\ hook[h].pc = "list"
  /\ \/ /\ Listed(h, History(hook[h].start), mail)
        /\ UNCHANGED hiccups
     \/ /\ hiccups < MaxHiccups /\ hiccups' = hiccups + 1
        /\ Listed(h, {}, hook[h].note)
  /\ UNCHANGED <<mail, own, notes, cursor, base, routed, lost>>

\* list_history and the fetches.  An unreachable or failing history keeps the
\* position; a fetch that raises ends the request before the cursor moves.
ListHistory(h) ==
  /\ hook[h].pc = "list"
  /\ \/ /\ Listed(h, History(hook[h].start), mail)
        /\ UNCHANGED hiccups
     \/ /\ hiccups < MaxHiccups /\ hiccups' = hiccups + 1
        /\ \/ Listed(h, {}, hook[h].start)
           \/ Unacknowledged(h)
  /\ UNCHANGED <<mail, own, notes, cursor, base, routed, lost>>

Drop(ids) ==
  /\ hiccups < MaxHiccups + MaxDrops
  /\ hiccups' = hiccups + 1
  /\ lost' = lost \cup ids

\* A fetch answered with an error status drops its message; an expired start
\* re-baselines at the notification (HTTP 404).
ListWithLoss(h) ==
  /\ hook[h].pc = "list" /\ MaxDrops > 0
  /\ \/ \E m \in History(hook[h].start) :
          /\ Listed(h, History(hook[h].start) \ {m}, mail)
          /\ Drop({m})
     \/ /\ Listed(h, {}, hook[h].note)
        /\ Drop({m \in History(hook[h].start) : m <= hook[h].note})
  /\ UNCHANGED <<mail, own, notes, cursor, base, routed>>

\* The second transaction: by the row as it is now, whatever its position.
CommitCursor(h) ==
  /\ hook[h].pc = "commit"
  /\ cursor' = hook[h].next
  /\ hook' = [hook EXCEPT ![h] =
                [pc |-> "route", note |-> hook[h].note, ids |-> hook[h].ids]]
  /\ UNCHANGED <<mail, own, notes, base, routed, lost, hiccups>>

\* (Mutation: a message that was routed before ends the batch.)
RouteStopsAtDuplicate(h) ==
  /\ hook[h].pc = "route" /\ hook[h].ids # {}
  /\ \E m \in hook[h].ids :
       /\ \A k \in hook[h].ids : m <= k
       /\ routed' = routed \cup {m}
       /\ hook' = [hook EXCEPT ![h].ids =
                     IF m \in routed THEN {} ELSE @ \ {m}]
  /\ UNCHANGED <<mail, own, notes, cursor, base, lost, hiccups>>

\* handle_inbound, one message after the other, oldest first; a repeat meets
\* its idempotency key.
Route(h) ==
  /\ hook[h].pc = "route" /\ hook[h].ids # {}
  /\ \E m \in hook[h].ids :
       /\ \A k \in hook[h].ids : m <= k
       /\ routed' = routed \cup {m}
       /\ hook' = [hook EXCEPT ![h].ids = @ \ {m}]
  /\ UNCHANGED <<mail, own, notes, cursor, base, lost, hiccups>>

\* Routing is refused (503) or the process dies after the cursor has moved.
RouteFails(h) ==
  /\ hook[h].pc = "route" /\ hook[h].ids # {}
  /\ MaxDrops > 0 /\ Drop(hook[h].ids)
  /\ Unacknowledged(h)
  /\ UNCHANGED <<mail, own, notes, cursor, base, routed>>

\* The process dies before the cursor moves.
DieEarly(h) ==
  /\ hook[h].pc \in {"cursor", "baseline", "list", "commit"}
  /\ hiccups < MaxHiccups /\ hiccups' = hiccups + 1
  /\ Unacknowledged(h)
  /\ UNCHANGED <<mail, own, notes, cursor, base, routed, lost>>

Done(h) ==
  /\ hook[h].pc = "route" /\ hook[h].ids = {}
  /\ Acknowledge(h)
  /\ UNCHANGED <<mail, own, cursor, base, routed, lost, hiccups>>

-----------------------------------------------------------------------------
Init ==
  /\ mail = 0 /\ own = {} /\ notes = {}
  /\ cursor = NoCursor /\ base = NoCursor
  /\ hook = [h \in Hook |-> Idle]
  /\ routed = {} /\ lost = {} /\ hiccups = 0

HookStep(h) ==
  \/ \E n \in notes : Receive(h, n)
  \/ ReadCursor(h) \/ Baseline(h)
  \/ ListHistory(h) \/ ListWithLoss(h)
  \/ CommitCursor(h) \/ Route(h) \/ Done(h)
  \/ RouteFails(h) \/ DieEarly(h)

Next ==
  \/ \E isOwn \in BOOLEAN : Arrive(isOwn)
  \/ \E h \in Hook : HookStep(h)

Spec == Init /\ [][Next]_vars

-----------------------------------------------------------------------------
(* Properties.                                                             *)

HookType ==
  {Idle} \cup [pc: {"cursor", "baseline"}, note: Position]
         \cup [pc: {"list"}, note: Position, start: Position]
         \cup [pc: {"commit"}, note: Position, ids: SUBSET Position,
               next: Position]
         \cup [pc: {"route"}, note: Position, ids: SUBSET Position]

TypeOK ==
  /\ mail \in Position /\ own \subseteq Position /\ notes \subseteq Position
  /\ cursor \in Position \cup {NoCursor} /\ base \in Position \cup {NoCursor}
  /\ hook \in [Hook -> HookType]
  /\ routed \subseteq Position /\ lost \subseteq Position
  /\ hiccups \in Nat

\* No mail is skipped: a message that came after the baseline has its run, is
\* still ahead of the cursor, or is in the hands of a request, unless a failure
\* after the listing took it.  It holds although concurrent requests commit
\* their positions in any order and the cursor may move backwards (gmail.py,
\* list_history: "a transient error re-reads the same window next time rather
\* than skipping past unread mail").
Held(m) == \E h \in Hook : hook[h].pc = "route" /\ m \in hook[h].ids

NoMailSkipped ==
  cursor # NoCursor =>
    \A m \in base + 1 .. mail :
       m \in own \cup routed \cup lost \/ m > cursor \/ Held(m)

=============================================================================
