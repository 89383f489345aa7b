----------------------- MODULE ConversationRefinement -----------------------
(* Conversation implements Transcript, and its transcripts can be read back. *)
EXTENDS Conversation, ConversationHistory

\* The messages in the order of their sequence numbers, without their texts.
Log ==
  [i \in 1..(thread.nextSequence - 1) |->
     LET m == CHOOSE n \in messages : n.sequence = i
     IN  [turn |-> m.turn, role |-> m.role]]

\* The running turn.
Open == IF Running = {} THEN None ELSE CHOOSE t \in Running : TRUE

Reader == INSTANCE Transcript WITH
  Turn <- TurnId, NoTurn <- None,
  log <- Log, open <- Open, closed <- thread.deleted

\* Whatever handlers, retries, crashes and late answers do, a reader of the
\* thread sees a behaviour of Transcript: one question at a time, each answered
\* at most once, right after it and never once given up, and a closed thread at
\* rest.
ImplementsTranscript == Reader!Spec

\* The transcripts of so many turns, each with a question and an answer at most: each is looked
\* at once and not in every state.
ReadableLogs ==
  UNION {IF Readable(log) THEN {log} ELSE {} : log \in SeqOf(Roles, 2 * Cardinality(TurnId))}

Threads == SUBSET ((1..2) \X (1..3))

ThreadsAreListed == \A T, U \in Threads, n \in 1..3 : ListedOnce(T, U, n)

\* Whatever turns were asked, answered and given up: following the cursors shows every message
\* once, and the history a run is given is the newest that both its limits allow.  A thread
\* that does not change while the list of threads is paged through is listed once, whichever
\* others are written, created or deleted meanwhile.
HistoryIsExact ==
  /\ [i \in DOMAIN Log |-> Log[i].role] \in ReadableLogs
  /\ ThreadsAreListed
=============================================================================
