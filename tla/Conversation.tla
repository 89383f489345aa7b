---------------------------- MODULE Conversation ----------------------------
(***************************************************************************)
(* One conversation thread of ConversationService: its turns, its messages *)
(* and the `ask' calls that drive them.                                    *)
(*                                                                         *)
(* Every service operation runs in one transaction that starts by locking  *)
(* the thread's row (SELECT ... FOR UPDATE), so an operation is one step.  *)
(* Two things happen outside that lock and are what makes it hard: each    *)
(* operation reads the clock before it waits for the lock, and `ask' calls *)
(* the agent between the transaction that starts a turn and the one that   *)
(* ends it.  A call made at time `called' therefore uses a clock reading   *)
(* `now' of any value in called..clock.                                    *)
(*                                                                         *)
(* Operations on different threads touch disjoint rows here; drafts, which *)
(* cross threads, are the subject of module Strategy.  Timestamps that no  *)
(* decision reads (updated_at, completed_at), titles, warnings and sources *)
(* are left out.                                                           *)
(***************************************************************************)
EXTENDS Integers, FiniteSets

CONSTANTS
  Ask,        \* request handlers, each running at most one `ask' at a time
  Request,    \* values of client_request_id
  Question,   \* normalised question texts
  TurnId,     \* values uuid4() may give a turn
  None,       \* no turn, no request
  RunTimeout, \* the lease of a turn, in clock units (65 seconds)
  MaxClock    \* bound of the model: the clock stops here

ASSUME TimeAssumption ==
  /\ RunTimeout \in Nat \ {0}
  /\ MaxClock \in Nat
  /\ RunTimeout <= MaxClock

ASSUME NoneAssumption == None \notin TurnId \cup Request \cup Question

VARIABLES
  clock,    \* the time datetime.now(UTC) returns
  thread,   \* the conversation_threads row
  turns,    \* the conversation_turns rows, by id
  messages, \* the conversation_messages rows
  asks,     \* what each handler is doing
  replies   \* history: every final outcome told to a client

db == <<thread, turns, messages>>
vars == <<clock, thread, turns, messages, asks, replies>>

-----------------------------------------------------------------------------
(* The stored rows.                                                        *)

Terminal == {"COMPLETED", "FAILED"}
TurnStatus == {"RUNNING"} \cup Terminal

\* The failure codes the code tells apart: the lease ran out; the agent call
\* failed or returned nothing; the answer was refused when it was saved.
Abandoned == "AGENT_RUN_ABANDONED"
FailureCode == {Abandoned, "AGENT_FAILED", "ANSWER_REFUSED"}

Turn == [status : TurnStatus \cup {"NONE"}, request : Request \cup {None},
         failure : FailureCode \cup {"NONE"}, deadline : Nat]
NoTurn == [status |-> "NONE", request |-> None, failure |-> "NONE", deadline |-> 0]

Role == {"USER", "ASSISTANT"}
Message == [turn : TurnId, role : Role, sequence : Nat \ {0}, content : Question]

Stored == {t \in TurnId : turns[t].status # "NONE"}
Running == {t \in TurnId : turns[t].status = "RUNNING"}

\* Mutant: a retry only looks for a turn that is still running.
ExistingRunning(r) == {t \in Running : turns[t].request = r}

\* get_turn_by_client_request_id.
Existing(r) == {t \in Stored : turns[t].request = r}

\* get_user_message_for_turn and get_assistant_message_for_turn.
Said(t, role) == {m \in messages : m.turn = t /\ m.role = role}

\* Mutant: the grace of the last unit is lost.
ExpiredEarly(t, now) == turns[t].deadline <= now + 1

\* _is_expired: the deadline itself is already too late.
Expired(t, now) == turns[t].deadline <= now

\* Mutant: the thread row is found whether or not it was deleted.
AnyThread == TRUE

\* _get_active_thread.
Active == ~thread.deleted

-----------------------------------------------------------------------------
(* What each handler is doing.  pc names the next transaction of `ask'.    *)

Pc == {"idle", "start", "replay", "agent", "complete", "fail"}

IdleAsk == [pc |-> "idle", request |-> None, question |-> None, expected |-> 0,
            called |-> 0, turn |-> None, outcome |-> "NONE"]

AskState == [pc : Pc, request : Request \cup {None}, question : Question \cup {None},
             expected : Nat, called : Nat, turn : TurnId \cup {None},
             outcome : Terminal \cup FailureCode \cup {"NONE"}]

Reply == [request : Request, turn : TurnId, status : Terminal, answered : BOOLEAN]

TypeOK ==
  /\ clock \in 0..MaxClock
  /\ thread \in [revision : Nat, nextSequence : Nat \ {0}, deleted : BOOLEAN]
  /\ turns \in [TurnId -> Turn]
  /\ messages \subseteq Message
  /\ asks \in [Ask -> AskState]
  /\ replies \subseteq Reply

\* Mutant: sequences counted from 0.
InitFromZero ==
  /\ clock = 0
  /\ thread = [revision |-> 0, nextSequence |-> 0, deleted |-> FALSE]
  /\ turns = [t \in TurnId |-> NoTurn]
  /\ messages = {}
  /\ asks = [a \in Ask |-> IdleAsk]
  /\ replies = {}

\* The state start_thread commits.
Init ==
  /\ clock = 0
  /\ thread = [revision |-> 0, nextSequence |-> 1, deleted |-> FALSE]
  /\ turns = [t \in TurnId |-> NoTurn]
  /\ messages = {}
  /\ asks = [a \in Ask |-> IdleAsk]
  /\ replies = {}

-----------------------------------------------------------------------------
(* Lazy abandonment: there is no background task; an operation that finds  *)
(* the running turn expired fails it first, in its own transaction.        *)

Overdue(now) == {t \in Running : Expired(t, now)}

\* Mutant: the running turn is looked at but not updated.
UnsettledTurns(now) == turns

\* _abandon_turn, the turn.
SettledTurns(now) ==
  [t \in TurnId |-> IF t \in Overdue(now)
                    THEN [turns[t] EXCEPT !.status = "FAILED", !.failure = Abandoned]
                    ELSE turns[t]]

\* Mutant: an abandonment is not counted as a change of the thread.
UnbumpedThread(now) == thread

\* _abandon_turn, the thread.
SettledThread(now) ==
  IF Overdue(now) = {} THEN thread ELSE [thread EXCEPT !.revision = @ + 1]

Settle(now) ==
  /\ turns' = SettledTurns(now)
  /\ thread' = SettledThread(now)

\* Mutant: nobody asks whether a turn is running.
FreeUnchecked(now) == TRUE

\* No turn is running once the overdue one is abandoned.
Free(now) == Running \subseteq Overdue(now)

\* The thread row after a message was appended.
WithMessage(row) == [row EXCEPT !.revision = @ + 1, !.nextSequence = @ + 1]

-----------------------------------------------------------------------------
(* Ends of a handler's run.                                                *)

\* A transaction's clock reading: taken after the call, before the lock.
ReadClock(a) == asks[a].called..clock

\* The handler calls the next operation of `ask' at the present time.
Call(a, pc, turn, outcome) ==
  asks' = [asks EXCEPT ![a] = [@ EXCEPT !.pc = pc, !.turn = turn, !.outcome = outcome,
                                        !.called = clock]]

\* An error that says nothing final about the request (404, 409).
Refuse(a) ==
  /\ asks' = [asks EXCEPT ![a] = IdleAsk]
  /\ UNCHANGED replies

\* The handler tells the client the turn's outcome.
Tell(a, turn, status, answered) ==
  /\ asks' = [asks EXCEPT ![a] = IdleAsk]
  /\ replies' = replies \cup {[request |-> asks[a].request, turn |-> turn,
                               status |-> status, answered |-> answered]}

-----------------------------------------------------------------------------
(* start_turn.                                                             *)

\* A client posts a question with the revision it learned from some earlier
\* response.  New questions stop early enough for their leases to run out
\* within the model's clock.
Submit(a, r, q, e) ==
  /\ asks[a].pc = "idle"
  /\ clock + RunTimeout <= MaxClock
  /\ asks' = [asks EXCEPT ![a] = [IdleAsk EXCEPT !.pc = "start", !.request = r, !.question = q,
                                                 !.expected = e, !.called = clock]]
  /\ UNCHANGED <<clock, db, replies>>

\* The request id was used for a question the thread stored.
SameQuestion(a, t) == \E m \in Said(t, "USER") : m.content = asks[a].question

\* Refused without a write: the thread is deleted, the request id belongs to
\* another question, or a turn is running whose lease is not over.
StartRefused(a) ==
  /\ asks[a].pc = "start"
  /\ \E now \in ReadClock(a) :
       \/ ~Active
       \/ \E t \in Existing(asks[a].request) :
            ~SameQuestion(a, t) \/ (t \in Running /\ ~Expired(t, now))
       \/ /\ Existing(asks[a].request) = {}
          /\ \E t \in Running : ~Expired(t, now)
  /\ Refuse(a)
  /\ UNCHANGED <<clock, db>>

\* The request id has a turn already; if that turn is overdue it is abandoned
\* first.  No second agent run: the handler goes on to read what was stored.
StartReplayed(a) ==
  /\ asks[a].pc = "start"
  /\ Active
  /\ \E t \in Existing(asks[a].request) :
       /\ SameQuestion(a, t)
       /\ \/ /\ t \notin Running
             /\ UNCHANGED <<thread, turns>>
             /\ Call(a, "replay", t, turns[t].status)
          \/ \E now \in ReadClock(a) :
               /\ t \in Overdue(now)
               /\ Settle(now)
               /\ Call(a, "replay", t, "FAILED")
  /\ UNCHANGED <<clock, messages, replies>>

\* The client's view is the thread this call is about to change.
Current(a, now) == SettledThread(now).revision = asks[a].expected

\* A new request id, but the client's view of the thread is not the current
\* one.  An abandonment this call made is kept, and itself causes the conflict.
StartConflict(a) ==
  /\ asks[a].pc = "start"
  /\ Active
  /\ Existing(asks[a].request) = {}
  /\ \E now \in ReadClock(a) :
       /\ Free(now)
       /\ ~Current(a, now)
       /\ Settle(now)
  /\ Refuse(a)
  /\ UNCHANGED <<clock, messages>>

\* A new turn with its USER message.  Its lease is counted from the clock
\* reading, not from the commit.
StartTurn(a) ==
  /\ asks[a].pc = "start"
  /\ Active
  /\ Existing(asks[a].request) = {}
  /\ \E now \in ReadClock(a), t \in TurnId \ Stored :
       /\ now + RunTimeout <= MaxClock
       /\ Free(now)
       /\ Current(a, now)
       /\ turns' = [SettledTurns(now) EXCEPT
                      ![t] = [status |-> "RUNNING", request |-> asks[a].request,
                              failure |-> "NONE", deadline |-> now + RunTimeout]]
       /\ thread' = WithMessage(SettledThread(now))
       /\ messages' = messages \cup {[turn |-> t, role |-> "USER",
                                      sequence |-> thread.nextSequence,
                                      content |-> asks[a].question]}
       /\ Call(a, "agent", t, "NONE")
  /\ UNCHANGED <<clock, replies>>

\* _replay_completion: a second transaction, without the thread lock.
ReplayCompletion(a) ==
  /\ asks[a].pc = "replay"
  /\ Tell(a, asks[a].turn, asks[a].outcome, Said(asks[a].turn, "ASSISTANT") # {})
  /\ UNCHANGED <<clock, db>>

-----------------------------------------------------------------------------
(* The agent, outside any transaction: it may take any time.               *)

AgentAnswers(a) ==
  /\ asks[a].pc = "agent"
  /\ Call(a, "complete", asks[a].turn, "NONE")
  /\ UNCHANGED <<clock, db, replies>>

\* It raised, or returned a failure code or no answer.
AgentFails(a) ==
  /\ asks[a].pc = "agent"
  /\ Call(a, "fail", asks[a].turn, "AGENT_FAILED")
  /\ UNCHANGED <<clock, db, replies>>

-----------------------------------------------------------------------------
(* complete_turn.                                                          *)

\* The answer fails validation before the transaction, or its draft is refused
\* inside it and everything is rolled back: `ask' turns to fail_turn.
AnswerRefused(a) ==
  /\ asks[a].pc = "complete"
  /\ Call(a, "fail", asks[a].turn, "ANSWER_REFUSED")
  /\ UNCHANGED <<clock, db, replies>>

\* Mutant: only a turn already answered is turned down.
CompletableOnce(t, now) == turns[t].status # "COMPLETED"

Completable(t, now) == t \in Running /\ ~Expired(t, now)

\* The answer is saved: the clock reading is within the lease.  What an answer
\* says is abstracted to the question the agent was asked.
CompleteTurn(a) ==
  /\ asks[a].pc = "complete"
  /\ Active
  /\ LET t == asks[a].turn IN
       /\ \E now \in ReadClock(a) : Completable(t, now)
       /\ Said(t, "USER") # {}
       /\ turns' = [turns EXCEPT ![t].status = "COMPLETED"]
       /\ thread' = WithMessage(thread)
       /\ messages' = messages \cup {[turn |-> t, role |-> "ASSISTANT",
                                      sequence |-> thread.nextSequence,
                                      content |-> asks[a].question]}
       /\ Tell(a, t, "COMPLETED", TRUE)
  /\ UNCHANGED clock

\* The answer is too late: the turn is abandoned now, or was by someone else.
CompleteTooLate(a) ==
  /\ asks[a].pc = "complete"
  /\ Active
  /\ LET t == asks[a].turn IN
       /\ \/ \E now \in ReadClock(a) : t \in Overdue(now) /\ Settle(now)
          \/ t \notin Running /\ UNCHANGED <<thread, turns>>
       /\ Tell(a, t, turns'[t].status, Said(t, "ASSISTANT") # {})
  /\ UNCHANGED <<clock, messages>>

-----------------------------------------------------------------------------
(* fail_turn.                                                              *)

\* Mutant: a turn that has failed is failed again.
FailableAgain(t) == turns[t].status # "COMPLETED"

Failable(t) == t \in Running

FailTurn(a) ==
  /\ asks[a].pc = "fail"
  /\ Active
  /\ LET t == asks[a].turn IN
       /\ \/ \E now \in ReadClock(a) :
               /\ Failable(t)
               /\ turns' = [turns EXCEPT
                              ![t].status = "FAILED",
                              ![t].failure = IF Expired(t, now) THEN Abandoned
                                             ELSE asks[a].outcome]
               /\ thread' = [thread EXCEPT !.revision = @ + 1]
          \/ ~Failable(t) /\ UNCHANGED <<thread, turns>>
       /\ Tell(a, t, turns'[t].status, Said(t, "ASSISTANT") # {})
  /\ UNCHANGED <<clock, messages>>

\* complete_turn and fail_turn on a thread deleted meanwhile: 404.
FinishOnDeleted(a) ==
  /\ asks[a].pc \in {"complete", "fail"}
  /\ ~Active
  /\ Refuse(a)
  /\ UNCHANGED <<clock, db>>

-----------------------------------------------------------------------------
(* The other operations.  Their calls may have been made at any time.      *)

\* get_thread and history: they settle, then read.
ReadThread(now) ==
  /\ Active
  /\ Settle(now)
  /\ UNCHANGED <<clock, messages, asks, replies>>

\* delete_thread: refused while a turn is running and its lease is not over.
DeleteThread(now) ==
  /\ Active
  /\ Free(now)
  /\ turns' = SettledTurns(now)
  /\ thread' = [SettledThread(now) EXCEPT !.revision = @ + 1, !.deleted = TRUE]
  /\ UNCHANGED <<clock, messages, asks, replies>>

-----------------------------------------------------------------------------
(* The environment.                                                        *)

\* The handler's process dies; what was committed stays.
Crash(a) ==
  /\ asks[a].pc # "idle"
  /\ asks' = [asks EXCEPT ![a] = IdleAsk]
  /\ UNCHANGED <<clock, db, replies>>

Tick ==
  /\ clock < MaxClock
  /\ clock' = clock + 1
  /\ UNCHANGED <<db, asks, replies>>

AskStep(a) ==
  \/ StartRefused(a)
  \/ StartReplayed(a)
  \/ StartConflict(a)
  \/ StartTurn(a)
  \/ ReplayCompletion(a)
  \/ AgentAnswers(a)
  \/ AgentFails(a)
  \/ AnswerRefused(a)
  \/ CompleteTurn(a)
  \/ CompleteTooLate(a)
  \/ FailTurn(a)
  \/ FinishOnDeleted(a)

Next ==
  \/ \E a \in Ask, r \in Request, q \in Question, e \in 0..thread.revision : Submit(a, r, q, e)
  \/ \E a \in Ask : AskStep(a)
  \/ \E a \in Ask : Crash(a)
  \/ \E now \in 0..clock : ReadThread(now)
  \/ \E now \in 0..clock : DeleteThread(now)
  \/ Tick

Spec == Init /\ [][Next]_vars

\* Time passes, and someone keeps looking at the thread: a read made at the
\* present time is eventually served.  Nothing is assumed of the handlers,
\* which may die at any step, nor of who asks or deletes.
FairSpec ==
  /\ Spec
  /\ WF_vars(Tick)
  /\ WF_vars(ReadThread(clock))

-----------------------------------------------------------------------------
(* Safety.                                                                 *)

\* A thread has at most one running turn: the partial unique index
\* uq_conversation_turns_running_thread is never what stops a second one.
OneRunning == \A t, u \in Running : t = u

\* A client_request_id has at most one turn, hence at most one agent run: the
\* unique constraint of the turns table is never what stops a duplicate.
OneTurnPerRequest ==
  \A t, u \in Stored : turns[t].request = turns[u].request => t = u

\* The transcript is numbered 1, 2, 3, ... without a gap or a repetition, up to
\* the thread's next_sequence.
TranscriptContiguous ==
  /\ {m.sequence : m \in messages} = 1..(thread.nextSequence - 1)
  /\ \A m, n \in messages : m.sequence = n.sequence => m = n

\* Every turn has its one question; a completed turn, and no other, has one
\* answer, to that question and right after it: no turn's messages come
\* between another's, and a failed turn never shows an answer.
AnswerFollowsQuestion ==
  \A t \in TurnId :
    /\ turns[t].status = "NONE" <=> Said(t, "USER") = {}
    /\ turns[t].status = "COMPLETED" <=> Said(t, "ASSISTANT") # {}
    /\ \A m, n \in Said(t, "USER") : m = n
    /\ \A m \in Said(t, "ASSISTANT"), n \in Said(t, "USER") :
         m.sequence = n.sequence + 1 /\ m.content = n.content

\* The transcript is numbered without gaps and each answer stands right after its question.
TranscriptInOrder == TranscriptContiguous /\ AnswerFollowsQuestion

\* delete_thread never leaves a run behind on a deleted thread.
DeletedIsQuiet == thread.deleted => Running = {}

\* The revision counts every change of state a client could have missed: each
\* turn's start, each turn's end, the deletion.  A client whose expected
\* revision matches has therefore missed none.
RevisionCountsChanges ==
  thread.revision = Cardinality(Stored) + Cardinality(Stored \ Running)
                    + (IF thread.deleted THEN 1 ELSE 0)

\* A turn is only abandoned once its lease is really over, however old the clock
\* readings of the operations that meet it.
NoEarlyAbandonment ==
  \A t \in TurnId : turns[t].failure = Abandoned => turns[t].deadline <= clock

\* Whatever was told a client about a request stays true: the stored turn still
\* has that outcome, an answer came with it exactly if it had completed, and two
\* replies to one request id, retries included, never differ.
RepliesStayTrue ==
  /\ \A x \in replies :
       /\ turns[x.turn].status = x.status /\ turns[x.turn].request = x.request
       /\ x.answered <=> x.status = "COMPLETED"
  /\ \A x, y \in replies : x.request = y.request => x = y

-----------------------------------------------------------------------------
(* Steps.                                                                  *)

\* A turn that has ended never changes, and messages are append-only.
TerminalIsFinal ==
  [][/\ \A t \in TurnId : turns[t].status \in Terminal => turns'[t] = turns[t]
     /\ messages \subseteq messages']_vars

\* Nothing is written to a deleted thread, not even by a run that outlived it.
DeletedIsFrozen == [][thread.deleted => UNCHANGED db]_vars

-----------------------------------------------------------------------------
(* Liveness.                                                               *)

\* No run holds the thread for ever, even if its process died: the lease and the
\* next read end it.
RunsEnd == \A t \in TurnId : turns[t].status = "RUNNING" ~> turns[t].status # "RUNNING"

=============================================================================
