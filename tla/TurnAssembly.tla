---------------------------- MODULE TurnAssembly ----------------------------
(***************************************************************************)
(* A streamed model turn: what the provider adapters (anthropic.py,         *)
(* openai_compat.py, gemini.py) make of the events of one response, and     *)
(* what the agent loop takes from it.  A call is its position in the turn;  *)
(* its arguments are counted in fragments, of which a proper non-empty      *)
(* prefix is not JSON.                                                     *)
(***************************************************************************)
EXTENDS Naturals, Sequences

CONSTANTS
  Dialect,   \* which of "anthropic", "openai", "gemini"
  MaxText,   \* bound: pieces of text in a turn
  Shapes     \* turns: sequences with the number of fragments of each call

VARIABLES
  dialect, turn, size, \* the turn the model means: calls and pieces of text
  wire,      \* "open", then how it ended: "normal", "length", "cut", "error"
  spoken,    \* pieces of text sent
  opened,    \* calls whose beginning was sent
  sent,      \* fragments sent of each call's arguments
  closed,    \* calls whose end was sent (content_block_stop, a whole part)
  text,      \* adapter: text_parts
  slots,     \* adapter: fragments in each partial call, or the pending tool
  calls,     \* adapter: tool_calls
  state      \* of the turn: "streaming", "done" or "failed"

model == <<dialect, turn, size>>
server == <<wire, spoken, opened, sent, closed>>
adapter == <<text, slots, calls>>
vars == <<model, server, adapter, state>>

Calls == DOMAIN turn

\* A call as it is handed to the agent: no fragment at all reads as {}.
CallOf(k) == [call |-> k, frags |-> slots[k]]
Parses(k) == slots[k] \in {0, turn[k]}

\* complete(): the same turn, parsed from one response body.
Parsed == [k \in Calls |-> [call |-> k, frags |-> turn[k]]]

-----------------------------------------------------------------------------
(* The server sends an event and the adapter handles it.                   *)

Streaming == wire = "open" /\ state = "streaming"

\* One block after the other; only OpenAI interleaves the calls of a turn.
Ready(k) ==
  /\ Streaming /\ spoken = size
  /\ \A j \in Calls : j < k =>
       IF dialect = "openai" THEN j \in opened ELSE j \in closed

TextPiece ==
  /\ Streaming /\ spoken < size
  /\ spoken' = spoken + 1 /\ text' = text + 1
  /\ UNCHANGED <<model, wire, opened, sent, closed, slots, calls, state>>

\* content_block_start; the chunk with a call's id and name.
OpenCall(k) ==
  /\ dialect # "gemini" /\ Ready(k) /\ k \notin opened
  /\ opened' = opened \cup {k}
  /\ UNCHANGED <<model, wire, spoken, sent, closed, adapter, state>>

\* (Mutation: fragments go to the call opened last, whatever their index.)
ArgumentsToLast(k) ==
  /\ Streaming /\ k \in opened \ closed /\ sent[k] < turn[k]
  /\ sent' = [sent EXCEPT ![k] = @ + 1]
  /\ \E j \in opened : /\ \A i \in opened : i <= j
                       /\ slots' = [slots EXCEPT ![j] = @ + 1]
  /\ UNCHANGED <<model, wire, spoken, opened, closed, text, calls, state>>

\* input_json_delta; function.arguments of a chunk, by its index.
Arguments(k) ==
  /\ Streaming /\ k \in opened \ closed /\ sent[k] < turn[k]
  /\ sent' = [sent EXCEPT ![k] = @ + 1]
  /\ slots' = [slots EXCEPT ![k] = @ + 1]
  /\ UNCHANGED <<model, wire, spoken, opened, closed, text, calls, state>>

\* content_block_stop: Anthropic's adapter parses what it has.  It is also
\* sent for a call that the token limit cuts short.
CloseCall(k) ==
  /\ dialect = "anthropic" /\ Streaming /\ k \in opened \ closed
  /\ closed' = closed \cup {k}
  /\ wire' = IF sent[k] = turn[k] THEN wire ELSE "length"
  /\ IF Parses(k)
       THEN /\ calls' = Append(calls, CallOf(k))
            /\ UNCHANGED state
       ELSE /\ state' = "failed"
            /\ UNCHANGED calls
  /\ UNCHANGED <<model, spoken, opened, sent, text, slots>>

\* A functionCall part, always whole.
WholeCall(k) ==
  /\ dialect = "gemini" /\ Ready(k) /\ k \notin closed
  /\ opened' = opened \cup {k} /\ closed' = closed \cup {k}
  /\ calls' = Append(calls, Parsed[k])
  /\ UNCHANGED <<model, wire, spoken, sent, text, slots, state>>

Complete ==
  /\ spoken = size /\ opened = Calls
  /\ dialect # "openai" => closed = Calls
  /\ dialect # "gemini" => sent = turn

\* The response ends: as the model meant it, at the token limit, because the
\* connection closes, or (Anthropic) after an event of type "error".
EndOfStream ==
  /\ Streaming
  /\ \/ Complete /\ wire' = "normal"
     \/ ~Complete /\ wire' \in {"length", "cut"}
     \/ ~Complete /\ dialect = "anthropic" /\ wire' = "error"
  /\ UNCHANGED <<model, spoken, opened, sent, closed, adapter, state>>

-----------------------------------------------------------------------------
(* After the loop over the lines.                                          *)

\* OpenAI's adapter parses its slots in the order of their index; the others
\* have their calls, and forget a call that was never closed.
\* (They were opened in that order: opened is 1..n.)
Slotted == IF dialect = "openai" THEN [k \in opened |-> CallOf(k)] ELSE <<>>

\* (Mutation: arguments that do not parse are left out, not refused.)
AssembleLeniently ==
  /\ wire # "open" /\ state = "streaming"
  /\ state' = "done"
  /\ calls' = calls \o Slotted
  /\ UNCHANGED <<model, server, text, slots>>

Assemble ==
  /\ wire # "open" /\ state = "streaming"
  /\ \/ /\ \A i \in DOMAIN Slotted : Parses(Slotted[i].call)
        /\ state' = "done"
        /\ calls' = calls \o Slotted
     \/ /\ \E i \in DOMAIN Slotted : ~Parses(Slotted[i].call)
        /\ state' = "failed"
        /\ UNCHANGED calls
  /\ UNCHANGED <<model, server, text, slots>>

-----------------------------------------------------------------------------
Init ==
  /\ dialect \in Dialect /\ turn \in Shapes /\ size \in 0..MaxText
  /\ wire = "open" /\ spoken = 0
  /\ opened = {} /\ sent = [k \in DOMAIN turn |-> 0] /\ closed = {}
  /\ text = 0 /\ slots = [k \in DOMAIN turn |-> 0]
  /\ calls = <<>> /\ state = "streaming"

Next ==
  \/ TextPiece \/ EndOfStream \/ Assemble
  \/ \E k \in Calls : OpenCall(k) \/ Arguments(k) \/ CloseCall(k)
                      \/ WholeCall(k)

Spec == Init /\ [][Next]_vars

-----------------------------------------------------------------------------
(* Properties.                                                             *)

TypeOK ==
  /\ dialect \in Dialect /\ turn \in Shapes /\ size \in 0..MaxText
  /\ wire \in {"open", "normal", "length", "cut", "error"}
  /\ state \in {"streaming", "done", "failed"}
  /\ spoken \in 0..size /\ text \in 0..size
  /\ opened \subseteq Calls /\ closed \subseteq opened
  /\ \A k \in Calls : sent[k] \in 0..turn[k]

\* A streamed turn is the turn: a response that ends as the model meant it is
\* assembled, and into the text and the calls that complete() parses from the
\* body of the same response, whatever the order of its fragments.
StreamIsParsed ==
  wire = "normal" =>
    /\ state # "failed"
    /\ state = "done" => text = size /\ calls = Parsed

\* A truncated response never runs a call with half of its arguments, twice or
\* ahead of an earlier one: the partial call is refused (OpenAI) or forgotten
\* (Anthropic).  A call cut before its first fragment does run, with none.
NoHalfCall ==
  state = "done" =>
    /\ \A i \in DOMAIN calls : calls[i].frags \in {0, turn[calls[i].call]}
    /\ \A i, j \in DOMAIN calls : i < j => calls[i].call < calls[j].call

=============================================================================
