----------------------------- MODULE Transcript -----------------------------
(***************************************************************************)
(* What a conversation thread promises its reader: a log that only grows,  *)
(* in which a question is open until it is answered or given up, at most   *)
(* one question is open at a time, an answer directly follows the question *)
(* it answers, no question is answered twice or after it was given up, and *)
(* nothing happens once the thread is closed.                              *)
(*                                                                         *)
(* No locks, clocks, leases, revisions, retries or crashes: module         *)
(* ConversationRefinement shows that Conversation, which has all of them,  *)
(* implements this.                                                        *)
(***************************************************************************)
EXTENDS Sequences

CONSTANTS Turn, NoTurn

VARIABLES log, open, closed

Init ==
  /\ log = <<>>
  /\ open = NoTurn
  /\ closed = FALSE

\* start_turn as a reader sees it.
Post(t) ==
  /\ ~closed
  /\ open = NoTurn
  /\ \A i \in DOMAIN log : log[i].turn # t
  /\ log' = Append(log, [turn |-> t, role |-> "USER"])
  /\ open' = t
  /\ UNCHANGED closed

\* complete_turn.
Answer ==
  /\ open # NoTurn
  /\ log' = Append(log, [turn |-> open, role |-> "ASSISTANT"])
  /\ open' = NoTurn
  /\ UNCHANGED closed

\* fail_turn, or an abandonment found by any operation.
GiveUp ==
  /\ open # NoTurn
  /\ open' = NoTurn
  /\ UNCHANGED <<log, closed>>

\* delete_thread, giving up an open question whose lease is over.
Close ==
  /\ ~closed
  /\ closed' = TRUE
  /\ open' = NoTurn
  /\ UNCHANGED log

Next ==
  \/ \E t \in Turn : Post(t)
  \/ Answer
  \/ GiveUp
  \/ Close

Spec == Init /\ [][Next]_<<log, open, closed>>

=============================================================================
