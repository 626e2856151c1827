------------------------------ MODULE MCIntake ------------------------------
(* Model-checking instance of what brings work in: the delivery of a chat    *)
(* message (ChannelDelivery), the fetching of mail (GmailCursor), the        *)
(* admission of runs (Admission), the uploading of documents (Knowledge) and *)
(* the members who may do so (Members).  They share no variable here, so one *)
(* run checks them all: `part` says which of them moves in a behaviour, and  *)
(* the others stay in their initial states.                                  *)
EXTENDS Admission, TLC

CONSTANTS
  m1, chat,
  Msg, Conversation, ConvOf, Hook, Run, Dispatcher, NoMsg, NoRun,
  MaxAttempts, MaxDeliveries, MaxCrashes, MaxFails,
  NoCursor, MaxMail, MaxHiccups, MaxDrops,
  User, Handler, NoRow, NoUser, Asked, MaxWrites,
  Doc, Texts, ChunkSize, Overlap, Batch, MaxTries

VARIABLES
  part,
  service, hook, bound, run, reply, disp, configured, heard, faults,
  mail, own, notes, cursor, base, fetcher, routed, lost, hiccups,
  open, accounts, founder, member, req, trail, raced, phantom,
  text, row, chunks, job

D == INSTANCE ChannelDelivery
G == INSTANCE GmailCursor WITH hook <- fetcher
M == INSTANCE Members

\* An empty text, a word, a break where the window ends, one before its
\* midpoint, a run of blanks as long as a window, several breaks.
SomeTexts ==
  LET x == "a"  b == " "  n == "\n"  d == "." IN
  { <<>>, <<x>>,
    <<x, x, x, x, n, x, x, x, x, x, x, x>>,
    <<x, x, x, d, b, x, x, n, n, x, x, x, x>>,
    <<x, x, x, x, x, n, n, n, n, n, n, n, n, n, x>>,
    <<x, x, x, x, d, b, x, d, b, x, x, x, x, x, x>> }

K == INSTANCE Knowledge

OneChat == m1 :> chat
DueNow  == 0 :> {"s1", "s2"} @@ 1 :> {"s2"}

Symmetry == Permutations(Worker) \cup Permutations(Hook)

channelVars == <<service, hook, bound, run, reply, disp, configured, heard, faults>>
gmailVars == <<mail, own, notes, cursor, base, fetcher, routed, lost, hiccups>>

memberVars == <<open, accounts, founder, member, req, trail, raced, phantom>>
knowledgeVars == <<text, row, chunks, job>>

allVars ==
  <<part, vars, channelVars, gmailVars, memberVars, knowledgeVars>>

InitAll ==
  /\ part \in {"channel", "admission", "gmail", "members", "knowledge"}
  /\ Init /\ D!Init /\ G!Init /\ M!Init /\ K!Init
  /\ open \/ part = "members"

NextAll ==
  \/ /\ part = "channel" /\ D!Next
     /\ UNCHANGED <<part, vars, gmailVars, memberVars, knowledgeVars>>
  \/ /\ part = "admission" /\ Next
     /\ UNCHANGED <<part, channelVars, gmailVars, memberVars, knowledgeVars>>
  \/ /\ part = "gmail" /\ G!Next
     /\ UNCHANGED <<part, vars, channelVars, memberVars, knowledgeVars>>
  \/ /\ part = "members" /\ M!Next
     /\ UNCHANGED <<part, vars, channelVars, gmailVars, knowledgeVars>>
  \/ /\ part = "knowledge" /\ K!Next
     /\ UNCHANGED <<part, vars, channelVars, gmailVars, memberVars>>

SpecAll == InitAll /\ [][NextAll]_allVars

\* The properties of the modules, stated there.
AckedIsOwed == D!AckedIsOwed
DuplicatesAreConcurrent == D!DuplicatesAreConcurrent
NoMailSkipped == G!NoMailSkipped
OwnerRemains == M!OwnerRemains
TrailExplains == M!TrailExplains
ReadyIsWhole == K!ReadyIsWhole

=============================================================================
