------------------------- MODULE ConversationHistory -------------------------
(***************************************************************************)
(* What is read back of conversations: the pages of a thread's messages a  *)
(* client asks for, newest first; the earlier messages start_turn hands    *)
(* the agent along with a question; and the pages of the list of threads.  *)
(* The first two depend on the order and the lengths of the messages only, *)
(* and a transcript is here the roles of its messages, of which the one    *)
(* with sequence number i is the i-th.                                     *)
(***************************************************************************)
EXTENDS Integers, Sequences, SequencesExt, FiniteSetsExt

Roles == {"USER", "ASSISTANT"}

\* No message is older than the page.
NoCursor == 0

\* Mutant: the message the cursor names is on the next page again.
UpTo(b) == 1..b

Before(b) == 1..b - 1

\* list_messages: the newest n messages before b, and where to go on from.
Page(b, n) == {i \in Before(b) : Cardinality({j \in Before(b) : j > i}) < n}

NextCursor(b, n) == IF Cardinality(Before(b)) > n THEN Min(Page(b, n)) ELSE NoCursor

\* The pages a client gets that starts before b and follows each cursor.
Pages(b, n) ==
  LET from[c \in 1..b] ==
        IF NextCursor(c, n) = NoCursor THEN <<Page(c, n)>>
        ELSE <<Page(c, n)>> \o from[NextCursor(c, n)]
  IN  from[b]

\* The length of a message once serialized: what tells two lengths apart is the limit,
\* which takes every value below.
Size(role) == IF role = "USER" THEN 1 ELSE 2

Length(log, S) == SumFunction([i \in S |-> Size(log[i])])

\* Message i, looked at after those of h.
Candidate(log, room, i, h) ==
  IF h.full \/ Length(log, h.selected \cup {i}) > room
  THEN [h EXCEPT !.full = TRUE]
  ELSE [h EXCEPT !.selected = @ \cup {i}]

\* _bounded_history: of at most n messages before b, newest first, those that fit in
\* room characters; the first that does not ends it.  The last one looked at is the oldest.
BoundedHistory(log, b, n, room) ==
  MapThenFoldSet(LAMBDA i, h : Candidate(log, room, i, h), [full |-> FALSE, selected |-> {}],
                 LAMBDA i : i, Min, Page(b, n)).selected

-----------------------------------------------------------------------------
(* The list of an account's threads, which changes while its pages are     *)
(* asked for.  A thread is here the time of its last change and its id.    *)

Later(s, t) == s[1] > t[1] \/ (s[1] = t[1] /\ s[2] > t[2])

\* Those of T that come after the cursor, the last one of the page before; all without one.
After(T, cursor) == {t \in T : cursor = <<>> \/ Later(cursor, t)}

\* list_threads: the n latest of them, and where to go on from.
ThreadPage(T, cursor, n) ==
  {t \in After(T, cursor) : Cardinality({s \in After(T, cursor) : Later(s, t)}) < n}

NextThread(T, cursor, n) ==
  IF Cardinality(After(T, cursor)) > n
  THEN CHOOSE t \in ThreadPage(T, cursor, n) : \A s \in ThreadPage(T, cursor, n) \ {t} : Later(s, t)
  ELSE <<>>

-----------------------------------------------------------------------------
(* What all of these should be.                                            *)

\* Every message once, in pages of the asked size.
Partitioned(b, n) ==
  LET P == Pages(b, n) IN
  /\ UNION Range(P) = 1..b - 1
  /\ \A i, j \in DOMAIN P : i < j => \A m \in P[i], k \in P[j] : m > k
  /\ \A i \in DOMAIN P : Cardinality(P[i]) <= n /\ (i < Len(P) => Cardinality(P[i]) = n)

\* The newest messages without a hole, over neither limit, and one more would be.
Newest(log, b, n, room) ==
  LET H == BoundedHistory(log, b, n, room)
      h == Cardinality(H)
  IN  /\ H = b - h..b - 1
      /\ h <= n /\ Length(log, H) <= room
      /\ h < n /\ h < b - 1 => Length(log, b - h - 1..b - 1) > room

\* T are the threads when a page is asked for, U when the next one is: what did not change in
\* between is on the page or still to come, and not both.
ListedOnce(T, U, n) ==
  LET page == ThreadPage(T, <<>>, n)
      next == NextThread(T, <<>>, n)
      rest == IF next = <<>> THEN {} ELSE After(U, next)
  IN  \A t \in T \cap U : (t \in page) # (t \in rest)

\* Of a transcript all of that is true, whatever the cursor, the page size and the limits.
Readable(log) ==
  \A b \in 1..Len(log) + 1, n \in 1..3 :
    Partitioned(b, n) /\ \A room \in 0..2 * Len(log) : Newest(log, b, n, room)

=============================================================================
