----------------------------- MODULE Knowledge -----------------------------
(***************************************************************************)
(* Documents and their chunks: upload (api/routers/knowledge.py, cli), the  *)
(* ingestion job (api/ingest.py, jobs.py) and the engine that splits a text *)
(* and replaces its chunks (knowledge.py, vectorstore.py).  A text is a     *)
(* sequence of characters; a chunk is the interval of the text it holds.    *)
(***************************************************************************)
EXTENDS Naturals, Sequences, FiniteSets, FiniteSetsExt

CONSTANTS
  Doc,       \* documents
  Texts,     \* the texts people upload, stripped of blanks at their ends
  ChunkSize, \* settings.chunk_size_chars
  Overlap,   \* settings.chunk_overlap_chars, below ChunkSize
  Batch,     \* _EMBED_BATCH
  MaxTries   \* arq: how often a job whose worker died is started

VARIABLES
  text,   \* what was uploaded
  row,    \* the documents table
  chunks, \* the document_chunks of each document, in the order of `index`
  job     \* the ingestion: [pc, via, done (chunks embedded), tries]

vars == <<text, row, chunks, job>>

-----------------------------------------------------------------------------
(* split_text.                                                             *)

Blank == {" ", "\n"}
Boundaries == << <<"\n", "\n">>, <<".", " ">>, <<"\n">> >>

\* window.rfind(b), where the window is t[s+1 .. e]; 0-based in the window, and
\* only positions past the midpoint count.
Found(t, s, e, b) ==
  {p \in (ChunkSize \div 2 + 1)..ChunkSize :
     s + p + Len(b) <= e /\ SubSeq(t, s + p + 1, s + p + Len(b)) = b}

\* Where the window that starts at s is cut; the last one is taken whole.
CutAt(t, s) ==
  LET e == Min({s + ChunkSize, Len(t)})
      hits == {k \in DOMAIN Boundaries : Found(t, s, e, Boundaries[k]) # {}}
      k == Min(hits) IN
  IF e = Len(t) \/ hits = {} THEN e
  ELSE s + Max(Found(t, s, e, Boundaries[k])) + Len(Boundaries[k])

\* The piece between two positions without the blanks around it, if any is left.
Stripped(t, s, e) ==
  LET solid == {i \in s+1..e : t[i] \notin Blank} IN
  IF solid = {} THEN <<>> ELSE <<[from |-> Min(solid), to |-> Max(solid)]>>

\* (Mutation: the next window starts at the cut plus the overlap.)
NextStartAhead(s, cut) == cut + Overlap

NextStart(s, cut) == IF cut - Overlap > s THEN cut - Overlap ELSE cut

Split(t) ==
  LET from[s \in 0..Len(t) + Overlap] ==
        IF s >= Len(t) THEN <<>>
        ELSE Stripped(t, s, CutAt(t, s)) \o from[NextStart(s, CutAt(t, s))]
  IN from[0]

-----------------------------------------------------------------------------
(* Uploading.                                                              *)

Idle == [pc |-> "idle", via |-> "none", done |-> 0, tries |-> 0]

\* The row is committed as 'pending' before anything is handed to a worker;
\* `hoursx knowledge add` goes on to ingest in its own process.
Upload(d, t, via) ==
  /\ row[d].status = "none"
  /\ text' = [text EXCEPT ![d] = t]
  /\ row' = [row EXCEPT ![d] = [status |-> "pending", count |-> 0]]
  /\ job' = [job EXCEPT ![d] =
       [pc |-> IF via = "arq" THEN "outbox" ELSE "embed", via |-> via,
        done |-> 0, tries |-> 1]]
  /\ UNCHANGED chunks

\* enqueue_job raises: the upload answers 500, the row stays.
Enqueue(d) ==
  /\ job[d].pc = "outbox"
  /\ \/ job' = [job EXCEPT ![d].pc = "embed"]
     \/ job' = [job EXCEPT ![d] = Idle]
  /\ UNCHANGED <<text, row, chunks>>

-----------------------------------------------------------------------------
(* Ingesting: ingest_and_announce around KnowledgeEngine.ingest.           *)

Pieces(d) == Split(text[d])

\* One request per batch.
EmbedBatch(d) ==
  /\ job[d].pc = "embed" /\ job[d].done < Len(Pieces(d))
  /\ job' = [job EXCEPT ![d].done = Min({@ + Batch, Len(Pieces(d))})]
  /\ UNCHANGED <<text, row, chunks>>

\* (Mutation: the old chunks are not deleted first.)
StoreAppending(d) ==
  /\ job[d].pc = "embed" /\ job[d].done = Len(Pieces(d))
  /\ chunks' = [chunks EXCEPT ![d] = @ \o Pieces(d)]
  /\ row' = [row EXCEPT ![d] = [status |-> "ready", count |-> Len(Pieces(d))]]
  /\ job' = [job EXCEPT ![d].pc = "committed"]
  /\ UNCHANGED text

\* replace_document_chunks, chunk_count and 'ready' in one transaction.
Store(d) ==
  /\ job[d].pc = "embed" /\ job[d].done = Len(Pieces(d))
  /\ chunks' = [chunks EXCEPT ![d] = Pieces(d)]
  /\ row' = [row EXCEPT ![d] = [status |-> "ready", count |-> Len(Pieces(d))]]
  /\ job' = [job EXCEPT ![d].pc = "committed"]
  /\ UNCHANGED text

\* The provider or the database raises: the session rolls back, and the
\* failure is recorded in a session of its own; the CLI only prints it.
IngestFails(d) ==
  /\ job[d].pc = "embed"
  /\ job' = [job EXCEPT ![d] = IF @.via = "cli" THEN Idle ELSE [@ EXCEPT !.pc = "failed"]]
  /\ UNCHANGED <<text, row, chunks>>

RecordFailure(d) ==
  /\ job[d].pc = "failed"
  /\ row' = [row EXCEPT ![d].status = "failed"]
  /\ job' = [job EXCEPT ![d].pc = "committed"]
  /\ UNCHANGED <<text, chunks>>

\* document.ingested is published, whether or not that works; the job is over.
Announce(d) ==
  /\ job[d].pc = "committed"
  /\ job' = [job EXCEPT ![d] = Idle]
  /\ UNCHANGED <<text, row, chunks>>

\* The process dies.  arq starts the job again on another worker, from the
\* beginning and whatever it had committed; nobody does for the other two.
Crash(d) ==
  /\ job[d].pc \in {"outbox", "embed", "failed", "committed"}
  /\ job' = [job EXCEPT ![d] =
       IF @.via = "arq" /\ @.pc # "outbox" /\ @.tries < MaxTries
         THEN [@ EXCEPT !.pc = "embed", !.done = 0, !.tries = job[d].tries + 1]
         ELSE Idle]
  /\ UNCHANGED <<text, row, chunks>>

\* job_timeout cancels the coroutine: `except Exception` does not see it.
TimesOut(d) ==
  /\ job[d].via = "arq" /\ job[d].pc \in {"embed", "failed"}
  /\ job' = [job EXCEPT ![d] = Idle]
  /\ UNCHANGED <<text, row, chunks>>

-----------------------------------------------------------------------------
Init ==
  /\ text = [d \in Doc |-> <<>>]
  /\ row = [d \in Doc |-> [status |-> "none", count |-> 0]]
  /\ chunks = [d \in Doc |-> <<>>]
  /\ job = [d \in Doc |-> Idle]

Next ==
  \E d \in Doc :
    \/ \E t \in Texts, via \in {"arq", "inline", "cli"} : Upload(d, t, via)
    \/ Enqueue(d) \/ EmbedBatch(d) \/ Store(d)
    \/ IngestFails(d) \/ RecordFailure(d) \/ Announce(d)
    \/ Crash(d) \/ TimesOut(d)

Spec == Init /\ [][Next]_vars

-----------------------------------------------------------------------------
(* Properties.                                                             *)

\* What a search of d can return is the whole text, in order, in chunks the
\* embedding model takes, and no part of it is missing between two of them.
Whole(d) ==
  LET c == chunks[d]
      t == text[d] IN
  /\ \A i \in DOMAIN c : c[i].from <= c[i].to /\ c[i].to < c[i].from + ChunkSize
  /\ \A i \in DOMAIN c \ {1} : c[i - 1].from <= c[i].from /\ c[i - 1].to <= c[i].to
  /\ \A p \in DOMAIN t : t[p] \in Blank \/ \E i \in DOMAIN c :
                                              p \in c[i].from..c[i].to

\* A document that is ready can be found by every word of it, once, however
\* often its ingestion was started again (knowledge.py: "Idempotent"), and a
\* document with any chunks has all of them: none is half ingested.
ReadyIsWhole ==
  \A d \in Doc :
    /\ chunks[d] # <<>> => Whole(d)
    /\ row[d].status = "ready" => Whole(d) /\ row[d].count = Len(chunks[d])

=============================================================================
