------------------------- MODULE ConversationProofs -------------------------
(* Theorems about Conversation, for every set of handlers, requests,       *)
(* questions and turn ids, every lease and every clock bound, one that     *)
(* Conversation implements Transcript; and about what is read back, for    *)
(* transcripts, pages and limits of any length.                            *)
EXTENDS ConversationRefinement, SumTheorems, SequenceTheorems

(***************************************************************************)
(* What the helper operators return.                                       *)
(***************************************************************************)

LEMMA SettledType ==
  ASSUME TypeOK, NEW now \in Nat
  PROVE  /\ SettledTurns(now) \in [TurnId -> Turn]
         /\ SettledThread(now) \in [revision : Nat, nextSequence : Nat \ {0}, deleted : BOOLEAN]
<1>1. ASSUME NEW t \in TurnId
      PROVE  [turns[t] EXCEPT !.status = "FAILED", !.failure = Abandoned] \in Turn
  <2>1. turns[t] \in Turn  BY DEF TypeOK
  <2> QED  BY <2>1 DEF Turn, TurnStatus, Terminal, FailureCode
<1>2. SettledTurns(now) \in [TurnId -> Turn]
  BY <1>1 DEF TypeOK, SettledTurns
<1>3. SettledThread(now) \in [revision : Nat, nextSequence : Nat \ {0}, deleted : BOOLEAN]
  <2>1. thread.revision + 1 \in Nat  BY DEF TypeOK
  <2> QED  BY <2>1 DEF TypeOK, SettledThread
<1> QED  BY <1>2, <1>3

LEMMA WithMessageType ==
  ASSUME NEW row \in [revision : Nat, nextSequence : Nat \ {0}, deleted : BOOLEAN]
  PROVE  WithMessage(row) \in [revision : Nat, nextSequence : Nat \ {0}, deleted : BOOLEAN]
<1>1. row.revision + 1 \in Nat /\ row.nextSequence + 1 \in Nat \ {0}
  OBVIOUS
<1> QED  BY <1>1 DEF WithMessage

LEMMA ReadClockType ==
  ASSUME TypeOK, NEW a \in Ask, NEW now \in ReadClock(a)
  PROVE  now \in Nat /\ now \in 0..clock
BY DEF TypeOK, ReadClock, AskState

LEMMA IdleAskType == IdleAsk \in AskState
BY DEF IdleAsk, AskState, Pc

LEMMA CallType ==
  ASSUME TypeOK, NEW a \in Ask, NEW pc \in Pc, NEW t \in TurnId \cup {None},
         NEW o \in Terminal \cup FailureCode \cup {"NONE"}, Call(a, pc, t, o)
  PROVE  asks' \in [Ask -> AskState]
<1>1. clock \in Nat  BY TimeAssumption DEF TypeOK
<1>2. [asks[a] EXCEPT !.pc = pc, !.turn = t, !.outcome = o, !.called = clock] \in AskState
  <2>1. asks[a] \in AskState  BY DEF TypeOK
  <2> QED  BY <1>1, <2>1 DEF AskState
<1> QED  BY <1>2 DEF TypeOK, Call

LEMMA TellType ==
  ASSUME TypeOK, NEW a \in Ask, asks[a].request \in Request, NEW t \in TurnId,
         NEW status \in Terminal, NEW answered \in BOOLEAN, Tell(a, t, status, answered)
  PROVE  asks' \in [Ask -> AskState] /\ replies' \subseteq Reply
<1>1. [request |-> asks[a].request, turn |-> t, status |-> status, answered |-> answered] \in Reply
  BY DEF Reply
<1> QED  BY <1>1, IdleAskType DEF TypeOK, Tell

LEMMA RefuseType ==
  ASSUME TypeOK, NEW a \in Ask, Refuse(a)
  PROVE  asks' \in [Ask -> AskState] /\ replies' \subseteq Reply
BY IdleAskType DEF TypeOK, Refuse

(***************************************************************************)
(* What a handler knows while it runs.                                     *)
(***************************************************************************)

\* The turn's question is stored.
Asked(t, q) == \E m \in Said(t, "USER") : m.content = q

\* A handler past start_turn works on a stored turn that carries its request
\* id, and its question unless it is a replay; what it will replay is that
\* turn's stored end, and what it will record as a failure is a failure code.
AskInv ==
  \A a \in Ask :
    /\ asks[a].pc # "idle" => asks[a].request \in Request /\ asks[a].question \in Question
    /\ asks[a].pc \notin {"idle", "start"} =>
         asks[a].turn \in Stored /\ turns[asks[a].turn].request = asks[a].request
    /\ asks[a].pc = "replay" =>
         asks[a].outcome \in Terminal /\ turns[asks[a].turn].status = asks[a].outcome
    /\ asks[a].pc = "fail" => asks[a].outcome \in FailureCode \ {Abandoned}
    /\ asks[a].pc \in {"agent", "complete", "fail"} => Asked(asks[a].turn, asks[a].question)

(***************************************************************************)
(* How a step may change the turns: a turn is created running, ends once,  *)
(* and keeps its request and its lease.                                    *)
(***************************************************************************)

Ends(t) ==
  /\ t \in Running
  /\ turns'[t].status \in Terminal
  /\ turns'[t].request = turns[t].request
  /\ turns'[t].deadline = turns[t].deadline
  /\ turns'[t].failure = Abandoned =>
       turns[t].failure = Abandoned \/ turns[t].deadline <= clock

Starts(t) ==
  /\ t \notin Stored
  /\ turns'[t].status = "RUNNING"
  /\ turns'[t].failure = "NONE"

Evolves == \A t \in TurnId : turns'[t] = turns[t] \/ Ends(t) \/ Starts(t)

LEMMA SettleEnds ==
  ASSUME TypeOK, NEW now \in 0..clock, NEW t \in TurnId
  PROVE  \/ SettledTurns(now)[t] = turns[t] /\ t \notin Overdue(now)
         \/ /\ t \in Overdue(now)
            /\ t \in Running
            /\ turns[t].deadline <= clock
            /\ SettledTurns(now)[t] = [turns[t] EXCEPT !.status = "FAILED", !.failure = Abandoned]
            /\ SettledTurns(now)[t].status = "FAILED"
            /\ SettledTurns(now)[t].failure = Abandoned
            /\ SettledTurns(now)[t].request = turns[t].request
            /\ SettledTurns(now)[t].deadline = turns[t].deadline
<1>1. turns[t] \in Turn /\ turns[t].deadline \in Nat /\ clock \in Nat /\ now \in Nat
  BY TimeAssumption DEF TypeOK, Turn
<1>2. CASE t \in Overdue(now)
  <2>1. t \in Running /\ turns[t].deadline <= now
    BY <1>2 DEF Overdue, Expired
  <2>2. turns[t].deadline <= clock
    BY <1>1, <2>1
  <2> QED  BY <1>1, <1>2, <2>1, <2>2 DEF SettledTurns, Turn
<1>3. CASE t \notin Overdue(now)
  BY <1>3 DEF SettledTurns
<1> QED  BY <1>2, <1>3

LEMMA SettleEvolves ==
  ASSUME TypeOK, NEW now \in 0..clock, turns' = SettledTurns(now)
  PROVE  Evolves
BY SettleEnds DEF Evolves, Ends, Terminal

LEMMA StepEvolves ==
  ASSUME TypeOK, AskInv, [Next]_vars
  PROVE  Evolves
<1> USE DEF Terminal
<1>1. ASSUME UNCHANGED turns  PROVE Evolves
  BY <1>1 DEF Evolves
<1>2. ASSUME NEW a \in Ask, NEW r \in Request, NEW q \in Question, NEW e \in 0..thread.revision,
             Submit(a, r, q, e)
      PROVE Evolves
  BY <1>1, <1>2 DEF Submit, db
<1>3. ASSUME NEW a \in Ask, StartReplayed(a)  PROVE Evolves
  BY <1>1, <1>3, SettleEvolves, ReadClockType DEF StartReplayed, Settle
<1>4. ASSUME NEW a \in Ask, StartConflict(a)  PROVE Evolves
  BY <1>4, SettleEvolves, ReadClockType DEF StartConflict, Settle
<1>5. ASSUME NEW a \in Ask, StartTurn(a)  PROVE Evolves
  <2>1. PICK now \in ReadClock(a), t \in TurnId \ Stored :
          turns' = [SettledTurns(now) EXCEPT
                      ![t] = [status |-> "RUNNING", request |-> asks[a].request,
                              failure |-> "NONE", deadline |-> now + RunTimeout]]
    BY <1>5 DEF StartTurn
  <2>2. now \in 0..clock  BY ReadClockType
  <2>3. Starts(t)
    BY <2>1, <2>2, SettledType, ReadClockType DEF Starts
  <2>4. ASSUME NEW u \in TurnId, u # t  PROVE turns'[u] = SettledTurns(now)[u]
    BY <2>1, <2>2, <2>4, SettledType, ReadClockType
  <2>5. ASSUME NEW u \in TurnId, u # t  PROVE turns'[u] = turns[u] \/ Ends(u)
    <3>1. turns'[u] = SettledTurns(now)[u]  BY <2>4, <2>5
    <3>2. CASE SettledTurns(now)[u] = turns[u]
      BY <3>1, <3>2
    <3>3. CASE SettledTurns(now)[u] # turns[u]
      <4>1. /\ u \in Running /\ turns[u].deadline <= clock
            /\ SettledTurns(now)[u].status = "FAILED"
            /\ SettledTurns(now)[u].request = turns[u].request
            /\ SettledTurns(now)[u].deadline = turns[u].deadline
        BY <2>2, <3>3, SettleEnds
      <4> QED  BY <3>1, <4>1 DEF Ends
    <3> QED  BY <3>2, <3>3
  <2> QED  BY <2>3, <2>5 DEF Evolves
<1>6. ASSUME NEW a \in Ask, CompleteTurn(a)  PROVE Evolves
  <2>1. turns' = [turns EXCEPT ![asks[a].turn].status = "COMPLETED"] /\ asks[a].turn \in Running
    BY <1>6 DEF CompleteTurn, Completable
  <2>2. asks[a].turn \in TurnId /\ turns[asks[a].turn] \in Turn
    BY <2>1 DEF Running, TypeOK
  <2>3. Ends(asks[a].turn)
    BY <2>1, <2>2 DEF Ends, Turn, TypeOK
  <2> QED  BY <2>1, <2>2, <2>3 DEF Evolves, TypeOK
<1>7. ASSUME NEW a \in Ask, CompleteTooLate(a)  PROVE Evolves
  BY <1>1, <1>7, SettleEvolves, ReadClockType DEF CompleteTooLate, Settle
<1>8. ASSUME NEW a \in Ask, FailTurn(a)  PROVE Evolves
  <2> DEFINE t == asks[a].turn
  <2>1. CASE ~Failable(t)
    BY <1>1, <1>8, <2>1 DEF FailTurn
  <2>2. CASE Failable(t)
    <3>1. PICK now \in ReadClock(a) :
            turns' = [turns EXCEPT ![t].status = "FAILED",
                                   ![t].failure = IF Expired(t, now) THEN Abandoned
                                                  ELSE asks[a].outcome]
      BY <1>8, <2>2 DEF FailTurn
    <3>2. t \in Running /\ turns[t] \in Turn
      BY <2>2 DEF Failable, Running, TypeOK
    <3>3. asks[a].outcome # Abandoned
      BY <1>8 DEF FailTurn, AskInv
    <3>4. turns'[t] = [turns[t] EXCEPT !.status = "FAILED",
                                       !.failure = IF Expired(t, now) THEN Abandoned
                                                   ELSE asks[a].outcome]
      BY <3>1, <3>2 DEF TypeOK, Running
    <3>5. turns[t].deadline \in Nat /\ now \in Nat /\ clock \in Nat /\ now <= clock
      BY <3>2, ReadClockType, TimeAssumption DEF TypeOK, Turn
    <3>6. Ends(t)
      BY <3>2, <3>3, <3>4, <3>5 DEF Ends, Turn, Expired
    <3> QED  BY <3>1, <3>2, <3>6 DEF Evolves, TypeOK
  <2> QED  BY <2>1, <2>2
<1>9. ASSUME NEW now \in 0..clock, ReadThread(now)  PROVE Evolves
  BY <1>9, SettleEvolves DEF ReadThread, Settle
<1>10. ASSUME NEW now \in 0..clock, DeleteThread(now)  PROVE Evolves
  BY <1>10, SettleEvolves DEF DeleteThread
<1>11. CASE Tick \/ (\E a \in Ask : Crash(a) \/ StartRefused(a) \/ ReplayCompletion(a)
                       \/ AgentAnswers(a) \/ AgentFails(a) \/ AnswerRefused(a)
                       \/ FinishOnDeleted(a))
            \/ UNCHANGED vars
  BY <1>1, <1>11 DEF Tick, Crash, StartRefused, ReplayCompletion, AgentAnswers, AgentFails,
                     AnswerRefused, FinishOnDeleted, db, vars
<1> QED
  BY <1>2, <1>3, <1>4, <1>5, <1>6, <1>7, <1>8, <1>9, <1>10, <1>11 DEF Next, AskStep

(***************************************************************************)
(* Type correctness.                                                       *)
(***************************************************************************)

LEMMA StepType ==
  ASSUME TypeOK, AskInv, [Next]_vars
  PROVE  TypeOK'
<1> DEFINE Row == [revision : Nat, nextSequence : Nat \ {0}, deleted : BOOLEAN]
<1> USE TimeAssumption
<1>1. ASSUME NEW a \in Ask, NEW r \in Request, NEW q \in Question, NEW e \in 0..thread.revision,
             Submit(a, r, q, e)
      PROVE TypeOK'
  <2>1. e \in Nat /\ clock \in Nat
    BY DEF TypeOK
  <2>2. [IdleAsk EXCEPT !.pc = "start", !.request = r, !.question = q,
                        !.expected = e, !.called = clock] \in AskState
    BY <2>1, IdleAskType DEF AskState, Pc
  <2> QED  BY <1>1, <2>2 DEF Submit, TypeOK, db
<1>2. ASSUME NEW a \in Ask,
             StartRefused(a) \/ FinishOnDeleted(a)
      PROVE TypeOK'
  BY <1>2, RefuseType DEF StartRefused, FinishOnDeleted, TypeOK, db
<1>3. ASSUME NEW a \in Ask, StartReplayed(a)  PROVE TypeOK'
  <2>1. PICK t \in Existing(asks[a].request) :
          \/ t \notin Running /\ UNCHANGED <<thread, turns>> /\ Call(a, "replay", t, turns[t].status)
          \/ /\ \E now \in ReadClock(a) : Settle(now)
             /\ Call(a, "replay", t, "FAILED")
    BY <1>3 DEF StartReplayed
  <2>2. t \in TurnId /\ t \in Stored
    BY DEF Existing, Stored
  <2>3. t \notin Running => turns[t].status \in Terminal
    BY <2>2 DEF Running, Stored, TypeOK, Turn, TurnStatus
  <2>4. asks' \in [Ask -> AskState]
    BY <2>1, <2>2, <2>3, CallType DEF Pc, Terminal
  <2>5. thread' \in Row /\ turns' \in [TurnId -> Turn]
    BY <2>1, SettledType, ReadClockType DEF Settle, TypeOK
  <2> QED  BY <1>3, <2>4, <2>5 DEF StartReplayed, TypeOK
<1>4. ASSUME NEW a \in Ask, StartConflict(a)  PROVE TypeOK'
  <2>1. thread' \in Row /\ turns' \in [TurnId -> Turn]
    BY <1>4, SettledType, ReadClockType DEF StartConflict, Settle
  <2> QED  BY <1>4, <2>1, RefuseType DEF StartConflict, TypeOK
<1>5. ASSUME NEW a \in Ask, StartTurn(a)  PROVE TypeOK'
  <2>1. PICK now \in ReadClock(a), t \in TurnId \ Stored :
          /\ turns' = [SettledTurns(now) EXCEPT
                         ![t] = [status |-> "RUNNING", request |-> asks[a].request,
                                 failure |-> "NONE", deadline |-> now + RunTimeout]]
          /\ thread' = WithMessage(SettledThread(now))
          /\ messages' = messages \cup {[turn |-> t, role |-> "USER",
                                         sequence |-> thread.nextSequence,
                                         content |-> asks[a].question]}
          /\ Call(a, "agent", t, "NONE")
    BY <1>5 DEF StartTurn
  <2>2. now \in Nat /\ now + RunTimeout \in Nat
    BY ReadClockType
  <2>3. asks[a].request \in Request /\ asks[a].question \in Question
    BY <1>5 DEF StartTurn, AskInv
  <2>4. [status |-> "RUNNING", request |-> asks[a].request, failure |-> "NONE",
         deadline |-> now + RunTimeout] \in Turn
    BY <2>2, <2>3 DEF Turn, TurnStatus
  <2>5. turns' \in [TurnId -> Turn]
    BY <2>1, <2>2, <2>4, SettledType
  <2>6. thread' \in Row
    BY <2>1, <2>2, SettledType, WithMessageType
  <2>7. messages' \subseteq Message
    BY <2>1, <2>3 DEF Message, Role, TypeOK
  <2>8. asks' \in [Ask -> AskState]
    BY <2>1, CallType DEF Pc
  <2> QED  BY <1>5, <2>5, <2>6, <2>7, <2>8 DEF StartTurn, TypeOK
<1>6. ASSUME NEW a \in Ask, ReplayCompletion(a)  PROVE TypeOK'
  BY <1>6, TellType DEF ReplayCompletion, AskInv, Stored, TypeOK, db
<1>7. ASSUME NEW a \in Ask,
             AgentAnswers(a) \/ AgentFails(a) \/ AnswerRefused(a)
      PROVE TypeOK'
  <2>1. asks[a].turn \in TurnId
    BY <1>7 DEF AgentAnswers, AgentFails, AnswerRefused, AskInv, Stored
  <2>2. asks' \in [Ask -> AskState]
    BY <1>7, <2>1, CallType DEF AgentAnswers, AgentFails, AnswerRefused, Pc, FailureCode
  <2> QED  BY <1>7, <2>2 DEF AgentAnswers, AgentFails, AnswerRefused, TypeOK, db
<1>8. ASSUME NEW a \in Ask, CompleteTurn(a)  PROVE TypeOK'
  <2> DEFINE t == asks[a].turn
  <2>1. /\ turns' = [turns EXCEPT ![t].status = "COMPLETED"]
        /\ thread' = WithMessage(thread)
        /\ messages' = messages \cup {[turn |-> t, role |-> "ASSISTANT",
                                       sequence |-> thread.nextSequence,
                                       content |-> asks[a].question]}
        /\ Tell(a, t, "COMPLETED", TRUE)
    BY <1>8 DEF CompleteTurn
  <2>2. t \in TurnId /\ asks[a].request \in Request /\ asks[a].question \in Question
    BY <1>8 DEF CompleteTurn, AskInv, Stored
  <2>3. [turns[t] EXCEPT !.status = "COMPLETED"] \in Turn
    <3>1. turns[t] \in Turn  BY <2>2 DEF TypeOK
    <3> QED  BY <3>1 DEF Turn, TurnStatus, Terminal
  <2>4. turns' \in [TurnId -> Turn]
    BY <2>1, <2>2, <2>3 DEF TypeOK
  <2>5. thread' \in Row
    BY <2>1, WithMessageType DEF TypeOK
  <2>6. messages' \subseteq Message
    BY <2>1, <2>2 DEF Message, Role, TypeOK
  <2>7. asks' \in [Ask -> AskState] /\ replies' \subseteq Reply
    BY <2>1, <2>2, TellType DEF Terminal
  <2> QED  BY <1>8, <2>4, <2>5, <2>6, <2>7 DEF CompleteTurn, TypeOK
<1>9. ASSUME NEW a \in Ask, CompleteTooLate(a)  PROVE TypeOK'
  <2> DEFINE t == asks[a].turn
  <2>1. /\ \/ \E now \in ReadClock(a) : t \in Overdue(now) /\ Settle(now)
           \/ t \notin Running /\ UNCHANGED <<thread, turns>>
        /\ Tell(a, t, turns'[t].status, Said(t, "ASSISTANT") # {})
    BY <1>9 DEF CompleteTooLate
  <2>2. t \in Stored /\ t \in TurnId /\ asks[a].request \in Request
    BY <1>9 DEF CompleteTooLate, AskInv, Stored
  <2>3. thread' \in Row /\ turns' \in [TurnId -> Turn]
    BY <2>1, SettledType, ReadClockType DEF Settle, TypeOK
  <2>4. turns'[t].status \in Terminal
    <3>1. CASE t \notin Running /\ UNCHANGED turns
      BY <2>2, <3>1 DEF Running, Stored, TypeOK, Turn, TurnStatus
    <3>2. CASE \E now \in ReadClock(a) : t \in Overdue(now) /\ Settle(now)
      <4>1. PICK now \in ReadClock(a) : t \in Overdue(now) /\ turns' = SettledTurns(now)
        BY <3>2 DEF Settle
      <4>2. now \in 0..clock  BY ReadClockType
      <4>3. SettledTurns(now)[t].status = "FAILED"
        BY <2>2, <4>1, <4>2, SettleEnds
      <4> QED  BY <4>1, <4>3 DEF Terminal
    <3> QED  BY <2>1, <3>1, <3>2
  <2>5. asks' \in [Ask -> AskState] /\ replies' \subseteq Reply
    BY <2>1, <2>2, <2>4, TellType
  <2> QED  BY <1>9, <2>3, <2>5 DEF CompleteTooLate, TypeOK
<1>10. ASSUME NEW a \in Ask, FailTurn(a)  PROVE TypeOK'
  <2> DEFINE t == asks[a].turn
  <2>1. /\ \/ \E now \in ReadClock(a) :
                /\ turns' = [turns EXCEPT
                               ![t].status = "FAILED",
                               ![t].failure = IF Expired(t, now) THEN Abandoned
                                              ELSE asks[a].outcome]
                /\ thread' = [thread EXCEPT !.revision = @ + 1]
           \/ t \notin Running /\ UNCHANGED <<thread, turns>>
        /\ Tell(a, t, turns'[t].status, Said(t, "ASSISTANT") # {})
    BY <1>10 DEF FailTurn, Failable
  <2>2. t \in Stored /\ t \in TurnId /\ turns[t] \in Turn /\ asks[a].request \in Request
    BY <1>10 DEF FailTurn, AskInv, Stored, TypeOK
  <2>3. ASSUME NEW code \in FailureCode
        PROVE  [turns[t] EXCEPT !.status = "FAILED", !.failure = code] \in Turn
    BY <2>2 DEF Turn, TurnStatus, Terminal
  <2>4. asks[a].outcome \in FailureCode /\ Abandoned \in FailureCode
    BY <1>10 DEF FailTurn, AskInv, FailureCode
  <2>5. CASE t \notin Running /\ UNCHANGED <<thread, turns>>
    <3>1. turns'[t].status \in Terminal
      BY <2>2, <2>5 DEF Running, Stored, Turn, TurnStatus
    <3> QED  BY <1>10, <2>1, <2>2, <2>5, <3>1, TellType DEF FailTurn, TypeOK
  <2>6. CASE \E now \in ReadClock(a) :
               /\ turns' = [turns EXCEPT
                              ![t].status = "FAILED",
                              ![t].failure = IF Expired(t, now) THEN Abandoned
                                             ELSE asks[a].outcome]
               /\ thread' = [thread EXCEPT !.revision = @ + 1]
    <3>1. PICK code \in FailureCode :
            turns' = [turns EXCEPT ![t].status = "FAILED", ![t].failure = code]
      BY <2>4, <2>6
    <3>2. turns' \in [TurnId -> Turn]
      BY <2>2, <2>3, <3>1 DEF TypeOK
    <3>3. turns'[t].status = "FAILED"
      BY <2>2, <3>1 DEF TypeOK, Turn
    <3>4. thread' \in Row
      <4>1. thread.revision + 1 \in Nat  BY DEF TypeOK
      <4> QED  BY <2>6, <4>1 DEF TypeOK
    <3>5. asks' \in [Ask -> AskState] /\ replies' \subseteq Reply
      <4>1. turns'[t].status \in Terminal  BY <3>3 DEF Terminal
      <4> QED  BY <2>1, <2>2, <4>1, TellType
    <3> QED  BY <1>10, <3>2, <3>4, <3>5 DEF FailTurn, TypeOK
  <2> QED  BY <2>1, <2>5, <2>6
<1>11. ASSUME NEW now \in 0..clock, ReadThread(now) \/ DeleteThread(now)  PROVE TypeOK'
  <2>1. now \in Nat /\ SettledTurns(now) \in [TurnId -> Turn] /\ SettledThread(now) \in Row
    BY SettledType
  <2>2. SettledThread(now).revision + 1 \in Nat
    BY <2>1
  <2>3. thread' \in Row /\ turns' \in [TurnId -> Turn]
    BY <1>11, <2>1, <2>2 DEF ReadThread, DeleteThread, Settle
  <2> QED  BY <1>11, <2>3 DEF ReadThread, DeleteThread, TypeOK
<1>12. CASE Tick
  BY <1>12 DEF Tick, TypeOK, db
<1>13. ASSUME NEW a \in Ask, Crash(a)  PROVE TypeOK'
  BY <1>13, IdleAskType DEF Crash, TypeOK, db
<1>14. CASE UNCHANGED vars
  BY <1>14 DEF vars, TypeOK
<1> QED
  BY <1>1, <1>2, <1>3, <1>4, <1>5, <1>6, <1>7, <1>8, <1>9, <1>10, <1>11, <1>12, <1>13, <1>14
  DEF Next, AskStep

LEMMA MessagesGrow ==
  ASSUME [Next]_vars
  PROVE  messages \subseteq messages'
BY DEF Next, AskStep, vars, db, Submit, StartRefused, StartReplayed, StartConflict, StartTurn,
       ReplayCompletion, AgentAnswers, AgentFails, AnswerRefused, CompleteTurn,
       CompleteTooLate, FailTurn, FinishOnDeleted, Crash, ReadThread, DeleteThread, Tick

LEMMA StepAsk ==
  ASSUME TypeOK, AskInv, [Next]_vars
  PROVE  AskInv'
<1> DEFINE Good(a) ==
      /\ asks[a].pc # "idle" => asks[a].request \in Request /\ asks[a].question \in Question
      /\ asks[a].pc \notin {"idle", "start"} =>
           asks[a].turn \in Stored /\ turns[asks[a].turn].request = asks[a].request
      /\ asks[a].pc = "replay" =>
           asks[a].outcome \in Terminal /\ turns[asks[a].turn].status = asks[a].outcome
      /\ asks[a].pc = "fail" => asks[a].outcome \in FailureCode \ {Abandoned}
      /\ asks[a].pc \in {"agent", "complete", "fail"} => Asked(asks[a].turn, asks[a].question)
<1>0. ASSUME NEW t, NEW q, Asked(t, q)  PROVE Asked(t, q)'
  BY <1>0, MessagesGrow DEF Asked, Said
\* A handler that does not move keeps what it knows.
<1>1. ASSUME NEW t \in Stored
      PROVE  /\ t \in Stored' /\ turns'[t].request = turns[t].request
             /\ turns[t].status \in Terminal => turns'[t] = turns[t]
  BY <1>1, StepEvolves DEF Evolves, Ends, Starts, Stored, Running, Terminal
<1>2. ASSUME NEW a \in Ask, asks'[a] = asks[a]  PROVE Good(a)'
  <2>1. PICK t, q : t = asks[a].turn /\ q = asks[a].question
    OBVIOUS
  <2>2. asks[a].pc \in {"agent", "complete", "fail"} => Asked(t, q)'
    BY <1>0, <2>1 DEF AskInv
  <2>3. asks'[a].pc \in {"agent", "complete", "fail"} => Asked(asks[a].turn, asks[a].question)'
    BY <1>2, <2>1, <2>2
  <2> QED  BY <1>1, <1>2, <2>3 DEF AskInv
<1>3. ASSUME NEW a \in Ask, asks'[a] = IdleAsk  PROVE Good(a)'
  BY <1>3 DEF IdleAsk
<1>4. ASSUME NEW a \in Ask, NEW t \in Stored', NEW pc \in {"replay", "agent", "complete", "fail"},
             NEW o \in Terminal \cup FailureCode \cup {"NONE"},
             asks[a].pc # "idle", Call(a, pc, t, o), turns'[t].request = asks[a].request,
             pc = "replay" => o \in Terminal /\ turns'[t].status = o,
             pc = "fail" => o \in FailureCode \ {Abandoned},
             NEW q, q = asks[a].question, pc # "replay" => Asked(t, q)'
      PROVE  AskInv'
  <2>1. asks'[a] = [asks[a] EXCEPT !.pc = pc, !.turn = t, !.outcome = o, !.called = clock]
    BY <1>4 DEF Call, TypeOK
  <2>2. asks[a] \in AskState
    BY DEF TypeOK
  <2>3. /\ asks'[a].pc = pc /\ asks'[a].turn = t /\ asks'[a].outcome = o
        /\ asks'[a].request = asks[a].request /\ asks'[a].question = asks[a].question
    BY <2>1, <2>2 DEF AskState
  <2>4. asks[a].request \in Request /\ asks[a].question \in Question
    BY <1>4 DEF AskInv
  <2>5. Good(a)'
    BY <1>4, <2>3, <2>4
  <2>6. ASSUME NEW b \in Ask, b # a  PROVE asks'[b] = asks[b]
    BY <1>4, <2>6 DEF Call, TypeOK
  <2> QED  BY <1>2, <2>5, <2>6 DEF AskInv
<1>5. ASSUME NEW a \in Ask, asks' = [asks EXCEPT ![a] = IdleAsk]  PROVE AskInv'
  <2>1. \A b \in Ask : asks'[b] = IdleAsk \/ asks'[b] = asks[b]
    BY <1>5 DEF TypeOK
  <2> QED  BY <1>2, <1>3, <2>1 DEF AskInv
<1>6. ASSUME UNCHANGED asks  PROVE AskInv'
  BY <1>2, <1>6 DEF AskInv
<1>7. ASSUME NEW a \in Ask, NEW r \in Request, NEW q \in Question, NEW e \in 0..thread.revision,
             Submit(a, r, q, e)
      PROVE AskInv'
  <2>1. asks' = [asks EXCEPT ![a] = [IdleAsk EXCEPT !.pc = "start", !.request = r,
                   !.question = q, !.expected = e, !.called = clock]]
    BY <1>7 DEF Submit
  <2>2. asks'[a].pc = "start" /\ asks'[a].request = r /\ asks'[a].question = q
    BY <2>1 DEF IdleAsk, TypeOK
  <2>3. ASSUME NEW b \in Ask, b # a  PROVE asks'[b] = asks[b]
    BY <2>1, <2>3 DEF TypeOK
  <2>4. Good(a)'
    BY <2>2
  <2> QED  BY <1>2, <2>3, <2>4 DEF AskInv
<1>8. ASSUME NEW a \in Ask, StartReplayed(a)  PROVE AskInv'
  <2>1. PICK t \in Existing(asks[a].request) :
          \/ t \notin Running /\ UNCHANGED turns /\ Call(a, "replay", t, turns[t].status)
          \/ \E now \in ReadClock(a) : /\ t \in Overdue(now) /\ turns' = SettledTurns(now)
                                       /\ Call(a, "replay", t, "FAILED")
    BY <1>8 DEF StartReplayed, Settle
  <2>2. t \in Stored /\ t \in TurnId /\ turns[t].request = asks[a].request
    BY DEF Existing, Stored
  <2>3. t \in Stored' /\ turns'[t].request = asks[a].request
    BY <1>1, <2>2
  <2>4. PICK o \in Terminal : Call(a, "replay", t, o) /\ turns'[t].status = o
    <3>1. CASE t \notin Running /\ UNCHANGED turns /\ Call(a, "replay", t, turns[t].status)
      <4>1. turns[t].status \in Terminal
        BY <2>2, <3>1 DEF Running, Stored, TypeOK, Turn, TurnStatus
      <4> QED  BY <3>1, <4>1
    <3>2. ASSUME NEW now \in ReadClock(a), t \in Overdue(now), turns' = SettledTurns(now),
                 Call(a, "replay", t, "FAILED")
          PROVE  Call(a, "replay", t, "FAILED") /\ turns'[t].status = "FAILED"
      <4>1. now \in 0..clock  BY ReadClockType
      <4>2. SettledTurns(now)[t].status = "FAILED"  BY <2>2, <3>2, <4>1, SettleEnds
      <4> QED  BY <3>2, <4>2
    <3> QED  BY <2>1, <3>1, <3>2 DEF Terminal
  <2>5. asks[a].pc # "idle"
    BY <1>8 DEF StartReplayed
  <2> QED  BY <1>4, <2>3, <2>4, <2>5
<1>9. ASSUME NEW a \in Ask, StartTurn(a)  PROVE AskInv'
  <2>1. PICK now \in ReadClock(a), t \in TurnId \ Stored :
          /\ turns' = [SettledTurns(now) EXCEPT
                         ![t] = [status |-> "RUNNING", request |-> asks[a].request,
                                 failure |-> "NONE", deadline |-> now + RunTimeout]]
          /\ messages' = messages \cup {[turn |-> t, role |-> "USER",
                                         sequence |-> thread.nextSequence,
                                         content |-> asks[a].question]}
          /\ Call(a, "agent", t, "NONE")
    BY <1>9 DEF StartTurn
  <2>2. turns'[t] = [status |-> "RUNNING", request |-> asks[a].request,
                     failure |-> "NONE", deadline |-> now + RunTimeout]
    BY <2>1, SettledType, ReadClockType
  <2>3. t \in Stored' /\ turns'[t].request = asks[a].request
    BY <2>2 DEF Stored
  <2>4. asks[a].pc # "idle"
    BY <1>9 DEF StartTurn
  <2>5. PICK q : q = asks[a].question
    OBVIOUS
  <2>6. Asked(t, q)'
    <3>1. PICK m : m = [turn |-> t, role |-> "USER", sequence |-> thread.nextSequence,
                        content |-> asks[a].question]
      OBVIOUS
    <3>2. m \in messages' /\ m.turn = t /\ m.role = "USER" /\ m.content = q
      BY <2>1, <2>5, <3>1
    <3> QED  BY <3>2 DEF Asked, Said
  <2> QED  BY <1>4, <2>1, <2>3, <2>4, <2>5, <2>6
<1>10. ASSUME NEW a \in Ask, AgentAnswers(a) \/ AgentFails(a) \/ AnswerRefused(a)  PROVE AskInv'
  <2>0. PICK t, q : t = asks[a].turn /\ q = asks[a].question
    OBVIOUS
  <2>1. asks[a].pc \in {"agent", "complete"} /\ UNCHANGED turns
    BY <1>10 DEF AgentAnswers, AgentFails, AnswerRefused, db
  <2>2. t \in Stored' /\ turns'[t].request = asks[a].request /\ Asked(t, q)'
    BY <1>0, <1>1, <2>0, <2>1 DEF AskInv
  <2>3. PICK pc \in {"complete", "fail"}, o \in {"NONE", "AGENT_FAILED", "ANSWER_REFUSED"} :
          Call(a, pc, t, o) /\ (pc = "fail" => o # "NONE")
    BY <1>10, <2>0 DEF AgentAnswers, AgentFails, AnswerRefused
  <2>4. o \in Terminal \cup FailureCode \cup {"NONE"} /\ (pc = "fail" => o \in FailureCode \ {Abandoned})
    BY <2>3 DEF FailureCode, Abandoned
  <2> QED  BY <1>4, <2>0, <2>1, <2>2, <2>3, <2>4
<1>11. ASSUME NEW a \in Ask,
              \/ StartRefused(a) \/ StartConflict(a) \/ ReplayCompletion(a) \/ CompleteTurn(a)
              \/ CompleteTooLate(a) \/ FailTurn(a) \/ FinishOnDeleted(a) \/ Crash(a)
       PROVE AskInv'
  BY <1>5, <1>11 DEF StartRefused, StartConflict, ReplayCompletion, CompleteTurn,
       CompleteTooLate, FailTurn, FinishOnDeleted, Crash, Refuse, Tell
<1>12. CASE Tick \/ UNCHANGED vars \/ (\E now \in 0..clock : ReadThread(now) \/ DeleteThread(now))
  BY <1>6, <1>12 DEF Tick, vars, ReadThread, DeleteThread
<1> QED
  BY <1>7, <1>8, <1>9, <1>10, <1>11, <1>12 DEF Next, AskStep

TypeInv == TypeOK /\ AskInv

LEMMA InitType == Init => TypeInv
BY TimeAssumption, NoneAssumption, IdleAskType
   DEF Init, TypeInv, TypeOK, AskInv, Turn, NoTurn, IdleAsk

LEMMA TypeInvariant == Spec => []TypeInv
<1>1. TypeInv /\ [Next]_vars => TypeInv'
  BY StepType, StepAsk DEF TypeInv
<1> QED  BY InitType, <1>1, PTL DEF Spec

\* Every variable keeps its type, whatever the handlers do.
THEOREM TypeCorrectness == Spec => []TypeOK
<1>1. TypeInv => TypeOK  BY DEF TypeInv
<1> QED  BY <1>1, TypeInvariant, PTL

(***************************************************************************)
(* What a step may do to the stored rows: nothing, abandon the overdue     *)
(* turn, start a turn, complete one, fail one, or delete the thread.       *)
(***************************************************************************)

Completed == {t \in TurnId : turns[t].status = "COMPLETED"}

\* The rows' changes, without the leases and failure codes.
SettleDb(now) ==
  /\ Stored' = Stored /\ Completed' = Completed /\ Running' = Running \ Overdue(now)
  /\ \A t \in TurnId : turns'[t].request = turns[t].request
  /\ thread'.nextSequence = thread.nextSequence
  /\ messages' = messages

StartDb(t, r, q) ==
  /\ t \notin Stored /\ Existing(r) = {} /\ ~thread.deleted
  /\ Stored' = Stored \cup {t} /\ Completed' = Completed /\ Running' = {t}
  /\ turns'[t].request = r
  /\ \A u \in Stored : turns'[u].request = turns[u].request
  /\ thread'.nextSequence = thread.nextSequence + 1 /\ thread'.deleted = thread.deleted
  /\ messages' = messages \cup {[turn |-> t, role |-> "USER",
                                 sequence |-> thread.nextSequence, content |-> q]}

CompleteDb(t, q) ==
  /\ t \in Running /\ ~thread.deleted
  /\ Stored' = Stored /\ Completed' = Completed \cup {t} /\ Running' = Running \ {t}
  /\ \A u \in TurnId : turns'[u].request = turns[u].request
  /\ thread'.nextSequence = thread.nextSequence + 1 /\ thread'.deleted = thread.deleted
  /\ \E m \in Said(t, "USER") : m.content = q
  /\ messages' = messages \cup {[turn |-> t, role |-> "ASSISTANT",
                                 sequence |-> thread.nextSequence, content |-> q]}

FailDb(t) ==
  /\ t \in Running
  /\ Stored' = Stored /\ Completed' = Completed /\ Running' = Running \ {t}
  /\ \A u \in TurnId : turns'[u].request = turns[u].request
  /\ thread'.nextSequence = thread.nextSequence /\ thread'.deleted = thread.deleted
  /\ messages' = messages

DbStep ==
  \/ UNCHANGED db
  \/ \E now \in 0..clock : SettleDb(now) /\ (thread'.deleted = thread.deleted \/ Running' = {})
  \/ \E t \in TurnId, r \in Request, q \in Question : StartDb(t, r, q)
  \/ \E t \in TurnId, q \in Question : CompleteDb(t, q)
  \/ \E t \in TurnId : FailDb(t)

LEMMA SettleIsDb ==
  ASSUME TypeOK, NEW now \in 0..clock, turns' = SettledTurns(now), UNCHANGED messages,
         thread'.nextSequence = SettledThread(now).nextSequence
  PROVE  SettleDb(now)
<1>1. SettledThread(now).nextSequence = thread.nextSequence
  BY DEF SettledThread, TypeOK
<1>2. ASSUME NEW t \in TurnId
      PROVE  /\ turns'[t].request = turns[t].request
             /\ turns'[t].status = IF t \in Overdue(now) THEN "FAILED" ELSE turns[t].status
             /\ t \in Overdue(now) => turns[t].status = "RUNNING"
  BY SettleEnds DEF Running
<1>3. Stored' = Stored /\ Completed' = Completed /\ Running' = Running \ Overdue(now)
  BY <1>2 DEF Stored, Completed, Running
<1> QED  BY <1>1, <1>2, <1>3 DEF SettleDb

LEMMA StartIsDb ==
  ASSUME TypeOK, AskInv, NEW a \in Ask, StartTurn(a)
  PROVE  \E t \in TurnId, r \in Request, q \in Question : StartDb(t, r, q)
<1> DEFINE r == asks[a].request  q == asks[a].question
<1>1. PICK now \in ReadClock(a), t \in TurnId \ Stored :
        /\ Free(now)
        /\ turns' = [SettledTurns(now) EXCEPT
                       ![t] = [status |-> "RUNNING", request |-> r,
                               failure |-> "NONE", deadline |-> now + RunTimeout]]
        /\ thread' = WithMessage(SettledThread(now))
        /\ messages' = messages \cup {[turn |-> t, role |-> "USER",
                                       sequence |-> thread.nextSequence, content |-> q]}
  BY DEF StartTurn
<1>2. now \in 0..clock /\ now \in Nat
  BY ReadClockType
<1>3. r \in Request /\ q \in Question /\ Existing(r) = {} /\ ~thread.deleted
  BY DEF StartTurn, AskInv, Active
<1>4. turns'[t].status = "RUNNING" /\ turns'[t].request = r
  BY <1>1, <1>2, SettledType
<1>5. ASSUME NEW u \in TurnId, u # t
      PROVE  /\ turns'[u].request = turns[u].request
             /\ turns'[u].status = IF u \in Running THEN "FAILED" ELSE turns[u].status
  <2>1. turns'[u] = SettledTurns(now)[u]
    BY <1>1, <1>2, <1>5, SettledType
  <2>2. u \in Running => u \in Overdue(now)
    BY <1>1 DEF Free
  <2>3. u \in Overdue(now) => u \in Running
    BY DEF Overdue
  <2>4. SettledTurns(now)[u].request = turns[u].request
    BY <1>2, SettleEnds
  <2>5. SettledTurns(now)[u].status = IF u \in Running THEN "FAILED" ELSE turns[u].status
    BY <1>2, <2>2, <2>3, SettleEnds
  <2> QED  BY <2>1, <2>4, <2>5
<1>6. Stored' = Stored \cup {t} /\ Completed' = Completed /\ Running' = {t}
  BY <1>4, <1>5 DEF Stored, Completed, Running
<1>7. SettledThread(now) \in [revision : Nat, nextSequence : Nat \ {0}, deleted : BOOLEAN]
  BY <1>2, SettledType
<1>8. /\ SettledThread(now).nextSequence = thread.nextSequence
      /\ SettledThread(now).deleted = thread.deleted
  BY DEF SettledThread, TypeOK
<1>9. thread'.nextSequence = thread.nextSequence + 1 /\ thread'.deleted = thread.deleted
  BY <1>1, <1>7, <1>8 DEF WithMessage
<1>10. \A u \in Stored : turns'[u].request = turns[u].request
  BY <1>5 DEF Stored
<1>11. StartDb(t, r, q)
  BY <1>1, <1>3, <1>4, <1>6, <1>9, <1>10 DEF StartDb
<1> QED  BY <1>3, <1>11

LEMMA CompleteIsDb ==
  ASSUME TypeOK, AskInv, NEW a \in Ask, CompleteTurn(a)
  PROVE  \E t \in TurnId, q \in Question : CompleteDb(t, q)
<1> DEFINE t == asks[a].turn
<1>1. /\ t \in Running
      /\ turns' = [turns EXCEPT ![t].status = "COMPLETED"]
      /\ thread' = WithMessage(thread)
      /\ messages' = messages \cup {[turn |-> t, role |-> "ASSISTANT",
                                     sequence |-> thread.nextSequence,
                                     content |-> asks[a].question]}
  BY DEF CompleteTurn, Completable
<1>2. /\ t \in TurnId /\ turns[t] \in Turn /\ ~thread.deleted
      /\ asks[a].question \in Question /\ Asked(t, asks[a].question)
  BY <1>1 DEF Running, TypeOK, AskInv, CompleteTurn, Active
<1>3. /\ \A u \in TurnId : turns'[u].request = turns[u].request
      /\ \A u \in TurnId : turns'[u].status = IF u = t THEN "COMPLETED" ELSE turns[u].status
  BY <1>1, <1>2 DEF TypeOK, Turn
<1>4. Stored' = Stored /\ Completed' = Completed \cup {t} /\ Running' = Running \ {t}
  BY <1>1, <1>2, <1>3 DEF Stored, Completed, Running
<1>5. thread'.nextSequence = thread.nextSequence + 1 /\ thread'.deleted = thread.deleted
  BY <1>1 DEF WithMessage, TypeOK
<1>6. CompleteDb(t, asks[a].question)
  BY <1>1, <1>2, <1>3, <1>4, <1>5 DEF CompleteDb, Asked
<1> QED  BY <1>2, <1>6

LEMMA FailIsDb ==
  ASSUME TypeOK, NEW a \in Ask, FailTurn(a), Failable(asks[a].turn)
  PROVE  \E t \in TurnId : FailDb(t)
<1> DEFINE t == asks[a].turn
<1>1. PICK now \in ReadClock(a) :
        /\ turns' = [turns EXCEPT ![t].status = "FAILED",
                                  ![t].failure = IF Expired(t, now) THEN Abandoned
                                                 ELSE asks[a].outcome]
        /\ thread' = [thread EXCEPT !.revision = @ + 1]
  BY DEF FailTurn
<1>2. t \in Running /\ t \in TurnId /\ turns[t] \in Turn /\ messages' = messages
  BY DEF Failable, Running, TypeOK, FailTurn
<1>3. /\ \A u \in TurnId : turns'[u].request = turns[u].request
      /\ \A u \in TurnId : turns'[u].status = IF u = t THEN "FAILED" ELSE turns[u].status
  BY <1>1, <1>2 DEF TypeOK, Turn
<1>4. Stored' = Stored /\ Completed' = Completed /\ Running' = Running \ {t}
  BY <1>2, <1>3 DEF Stored, Completed, Running
<1>5. thread'.nextSequence = thread.nextSequence /\ thread'.deleted = thread.deleted
  BY <1>1 DEF TypeOK
<1> QED  BY <1>2, <1>3, <1>4, <1>5 DEF FailDb

LEMMA StepIsDb ==
  ASSUME TypeOK, AskInv, [Next]_vars
  PROVE  DbStep
<1>1. ASSUME UNCHANGED db  PROVE DbStep
  BY <1>1 DEF DbStep
<1>2. ASSUME NEW now \in 0..clock, Settle(now), UNCHANGED messages  PROVE DbStep
  <2>1. thread'.deleted = thread.deleted
    BY <1>2 DEF Settle, SettledThread, TypeOK
  <2>2. SettleDb(now)
    BY <1>2, SettleIsDb DEF Settle
  <2> QED  BY <2>1, <2>2 DEF DbStep
<1>3. ASSUME NEW now \in 0..clock, DeleteThread(now)  PROVE DbStep
  <2>1. SettledThread(now) \in [revision : Nat, nextSequence : Nat \ {0}, deleted : BOOLEAN]
    BY TimeAssumption, SettledType DEF TypeOK
  <2>2. thread'.nextSequence = SettledThread(now).nextSequence
    BY <1>3, <2>1 DEF DeleteThread
  <2>3. SettleDb(now)
    BY <1>3, <2>2, SettleIsDb DEF DeleteThread
  <2>4. Running' = {}
    BY <1>3, <2>3 DEF DeleteThread, Free, SettleDb
  <2> QED  BY <2>3, <2>4 DEF DbStep
<1>4. ASSUME NEW a \in Ask, StartReplayed(a) \/ StartConflict(a) \/ CompleteTooLate(a)  PROVE DbStep
  <2>1. messages' = messages /\ (UNCHANGED <<thread, turns>> \/ \E now \in ReadClock(a) : Settle(now))
    BY <1>4 DEF StartReplayed, StartConflict, CompleteTooLate
  <2> QED  BY <1>1, <1>2, <2>1, ReadClockType DEF db
<1>5. ASSUME NEW a \in Ask, StartTurn(a)  PROVE DbStep
  BY <1>5, StartIsDb DEF DbStep
<1>6. ASSUME NEW a \in Ask, CompleteTurn(a)  PROVE DbStep
  BY <1>6, CompleteIsDb DEF DbStep
<1>7. ASSUME NEW a \in Ask, FailTurn(a)  PROVE DbStep
  <2>1. CASE Failable(asks[a].turn)
    BY <1>7, <2>1, FailIsDb DEF DbStep
  <2>2. CASE ~Failable(asks[a].turn)
    BY <1>1, <1>7, <2>2 DEF FailTurn, db
  <2> QED  BY <2>1, <2>2
<1>8. ASSUME NEW a \in Ask,
             \/ StartRefused(a) \/ ReplayCompletion(a) \/ AgentAnswers(a) \/ AgentFails(a)
             \/ AnswerRefused(a) \/ FinishOnDeleted(a) \/ Crash(a)
      PROVE DbStep
  BY <1>1, <1>8 DEF StartRefused, ReplayCompletion, AgentAnswers, AgentFails, AnswerRefused,
                    FinishOnDeleted, Crash
<1>9. ASSUME NEW a \in Ask, NEW r \in Request, NEW q \in Question, NEW e \in 0..thread.revision,
             Submit(a, r, q, e)
      PROVE DbStep
  BY <1>1, <1>9 DEF Submit
<1>10. CASE Tick \/ UNCHANGED vars
  BY <1>1, <1>10 DEF Tick, vars, db
<1>11. ASSUME NEW now \in 0..clock, ReadThread(now)  PROVE DbStep
  BY <1>2, <1>11 DEF ReadThread
<1> QED
  BY <1>3, <1>4, <1>5, <1>6, <1>7, <1>8, <1>9, <1>10, <1>11 DEF Next, AskStep

(***************************************************************************)
(* The thread's rows.  OpenQuestionLast is the strengthening that makes    *)
(* AnswerFollowsQuestion inductive: nothing was said after the question of *)
(* a turn that is still running.                                           *)
(***************************************************************************)

OpenQuestionLast ==
  \A t \in Running : \A m \in Said(t, "USER") : m.sequence = thread.nextSequence - 1

DbInv ==
  /\ OneRunning
  /\ OneTurnPerRequest
  /\ DeletedIsQuiet
  /\ TranscriptContiguous
  /\ AnswerFollowsQuestion
  /\ OpenQuestionLast

\* A new message takes the next number.
LEMMA AppendContiguous ==
  ASSUME TypeOK, TranscriptContiguous, NEW m,
         m.sequence = thread.nextSequence, messages' = messages \cup {m},
         thread'.nextSequence = thread.nextSequence + 1
  PROVE  TranscriptContiguous'
<1> DEFINE n == thread.nextSequence
<1>1. n \in Nat \ {0}  BY DEF TypeOK
<1>2. {k.sequence : k \in messages} = 1..(n - 1)  BY DEF TranscriptContiguous
<1>3. {k.sequence : k \in messages'} = {k.sequence : k \in messages} \cup {n}
  OBVIOUS
<1>4. 1..(n - 1) \cup {n} = 1..n /\ n \notin 1..(n - 1) /\ (n + 1) - 1 = n
  BY <1>1
<1>5. {k.sequence : k \in messages}' = 1..(thread'.nextSequence - 1)
  BY <1>2, <1>3, <1>4
<1>6. ASSUME NEW k \in messages, k.sequence = n  PROVE FALSE
  BY <1>2, <1>4, <1>6
<1>7. \A j, k \in messages' : j.sequence = k.sequence => j = k
  BY <1>6 DEF TranscriptContiguous
<1> QED  BY <1>5, <1>7 DEF TranscriptContiguous

LEMMA SettleKeepsDb ==
  ASSUME TypeOK, TypeOK', DbInv, NEW now \in 0..clock, SettleDb(now),
         thread'.deleted = thread.deleted \/ Running' = {}
  PROVE  DbInv'
<1>1. OneRunning'
  BY DEF DbInv, OneRunning, SettleDb
<1>2. OneTurnPerRequest'
  BY DEF DbInv, OneTurnPerRequest, SettleDb, Stored
<1>3. DeletedIsQuiet'
  BY DEF DbInv, DeletedIsQuiet, SettleDb
<1>4. TranscriptContiguous'
  BY DEF DbInv, TranscriptContiguous, SettleDb
<1>5. \A t \in TurnId : /\ Said(t, "USER")' = Said(t, "USER")
                        /\ Said(t, "ASSISTANT")' = Said(t, "ASSISTANT")
  BY DEF Said, SettleDb
<1>6. \A t \in TurnId : /\ turns'[t].status = "NONE" <=> turns[t].status = "NONE"
                        /\ turns'[t].status = "COMPLETED" <=> turns[t].status = "COMPLETED"
  BY DEF SettleDb, Stored, Completed
<1>7. AnswerFollowsQuestion'
  BY <1>5, <1>6 DEF DbInv, AnswerFollowsQuestion
<1>8. OpenQuestionLast'
  BY <1>5 DEF DbInv, OpenQuestionLast, SettleDb, Running
<1> QED  BY <1>1, <1>2, <1>3, <1>4, <1>7, <1>8 DEF DbInv

LEMMA StartKeepsDb ==
  ASSUME TypeOK, TypeOK', DbInv, NEW t \in TurnId, NEW r \in Request, NEW q \in Question,
         StartDb(t, r, q)
  PROVE  DbInv'
<1> DEFINE new == [turn |-> t, role |-> "USER", sequence |-> thread.nextSequence, content |-> q]
<1>1. OneRunning'
  BY DEF OneRunning, StartDb
<1>2. OneTurnPerRequest'
  BY DEF DbInv, OneTurnPerRequest, StartDb, Stored, Existing
<1>3. DeletedIsQuiet'
  BY DEF DeletedIsQuiet, StartDb
<1>4. TranscriptContiguous'
  BY AppendContiguous DEF DbInv, StartDb
<1>5. Said(t, "USER") = {} /\ Said(t, "ASSISTANT") = {} /\ turns[t].status = "NONE"
  BY DEF DbInv, AnswerFollowsQuestion, StartDb, Stored
<1>6. Said(t, "USER")' = {new} /\ Said(t, "ASSISTANT")' = {}
  BY <1>5 DEF Said, StartDb
<1>7. \A u \in TurnId : u # t => /\ Said(u, "USER")' = Said(u, "USER")
                                 /\ Said(u, "ASSISTANT")' = Said(u, "ASSISTANT")
  BY DEF Said, StartDb
<1>8. \A u \in TurnId : u # t => /\ turns'[u].status = "NONE" <=> turns[u].status = "NONE"
                                 /\ turns'[u].status = "COMPLETED" <=> turns[u].status = "COMPLETED"
  BY DEF StartDb, Stored, Completed
<1>9. turns'[t].status # "NONE" /\ turns'[t].status # "COMPLETED"
  BY <1>5 DEF StartDb, Stored, Completed
<1>10. AnswerFollowsQuestion'
  <2> SUFFICES ASSUME NEW u \in TurnId
               PROVE  /\ turns'[u].status = "NONE" <=> Said(u, "USER")' = {}
                      /\ turns'[u].status = "COMPLETED" <=> Said(u, "ASSISTANT")' # {}
                      /\ \A m, n \in Said(u, "USER")' : m = n
                      /\ \A m \in Said(u, "ASSISTANT")', n \in Said(u, "USER")' :
                           m.sequence = n.sequence + 1 /\ m.content = n.content
    BY DEF AnswerFollowsQuestion
  <2>1. CASE u = t
    <3> HIDE DEF new
    <3> QED  BY <1>6, <1>9, <2>1
  <2>2. CASE u # t
    BY <1>7, <1>8, <2>2 DEF DbInv, AnswerFollowsQuestion
  <2> QED  BY <2>1, <2>2
<1>11. OpenQuestionLast'
  <2>1. new.sequence = thread'.nextSequence - 1
    BY DEF StartDb, TypeOK
  <2> QED  BY <1>6, <2>1 DEF OpenQuestionLast, StartDb
<1> QED  BY <1>1, <1>2, <1>3, <1>4, <1>10, <1>11 DEF DbInv

LEMMA CompleteKeepsDb ==
  ASSUME TypeOK, TypeOK', DbInv, NEW t \in TurnId, NEW q \in Question, CompleteDb(t, q)
  PROVE  DbInv'
<1> DEFINE new == [turn |-> t, role |-> "ASSISTANT", sequence |-> thread.nextSequence, content |-> q]
<1>1. Running' = {} /\ \A u \in Running : u = t
  BY DEF DbInv, OneRunning, CompleteDb
<1>2. OneRunning' /\ DeletedIsQuiet' /\ OpenQuestionLast'
  BY <1>1 DEF OneRunning, DeletedIsQuiet, OpenQuestionLast
<1>3. OneTurnPerRequest'
  BY DEF DbInv, OneTurnPerRequest, CompleteDb, Stored
<1>4. TranscriptContiguous'
  BY AppendContiguous DEF DbInv, CompleteDb
<1>5. /\ turns[t].status = "RUNNING" /\ Said(t, "ASSISTANT") = {} /\ Said(t, "USER") # {}
      /\ \A m, n \in Said(t, "USER") : m = n
      /\ \A m \in Said(t, "USER") : m.sequence = thread.nextSequence - 1 /\ m.content = q
  BY DEF DbInv, AnswerFollowsQuestion, OpenQuestionLast, CompleteDb, Running
<1>6. Said(t, "ASSISTANT")' = {new} /\ Said(t, "USER")' = Said(t, "USER")
  BY <1>5 DEF Said, CompleteDb
<1>7. \A u \in TurnId : u # t => /\ Said(u, "USER")' = Said(u, "USER")
                                 /\ Said(u, "ASSISTANT")' = Said(u, "ASSISTANT")
  BY DEF Said, CompleteDb
<1>8. \A u \in TurnId : u # t => /\ turns'[u].status = "NONE" <=> turns[u].status = "NONE"
                                 /\ turns'[u].status = "COMPLETED" <=> turns[u].status = "COMPLETED"
  BY DEF CompleteDb, Stored, Completed
<1>9. turns'[t].status = "COMPLETED"
  BY DEF CompleteDb, Completed
<1>10. \A m \in Said(t, "USER") : new.sequence = m.sequence + 1 /\ new.content = m.content
  BY <1>5 DEF TypeOK
<1>11. AnswerFollowsQuestion'
  <2> SUFFICES ASSUME NEW u \in TurnId
               PROVE  /\ turns'[u].status = "NONE" <=> Said(u, "USER")' = {}
                      /\ turns'[u].status = "COMPLETED" <=> Said(u, "ASSISTANT")' # {}
                      /\ \A m, n \in Said(u, "USER")' : m = n
                      /\ \A m \in Said(u, "ASSISTANT")', n \in Said(u, "USER")' :
                           m.sequence = n.sequence + 1 /\ m.content = n.content
    BY DEF AnswerFollowsQuestion
  <2>1. CASE u = t
    <3> HIDE DEF new
    <3> QED  BY <1>5, <1>6, <1>9, <1>10, <2>1
  <2>2. CASE u # t
    BY <1>7, <1>8, <2>2 DEF DbInv, AnswerFollowsQuestion
  <2> QED  BY <2>1, <2>2
<1> QED  BY <1>2, <1>3, <1>4, <1>11 DEF DbInv

LEMMA FailKeepsDb ==
  ASSUME TypeOK, TypeOK', DbInv, NEW t \in TurnId, FailDb(t)
  PROVE  DbInv'
<1>1. OneRunning' /\ DeletedIsQuiet' /\ OneTurnPerRequest' /\ TranscriptContiguous'
  BY DEF DbInv, OneRunning, DeletedIsQuiet, OneTurnPerRequest, TranscriptContiguous, FailDb, Stored
<1>2. \A u \in TurnId : /\ Said(u, "USER")' = Said(u, "USER")
                        /\ Said(u, "ASSISTANT")' = Said(u, "ASSISTANT")
  BY DEF Said, FailDb
<1>3. \A u \in TurnId : /\ turns'[u].status = "NONE" <=> turns[u].status = "NONE"
                        /\ turns'[u].status = "COMPLETED" <=> turns[u].status = "COMPLETED"
  BY DEF FailDb, Stored, Completed
<1>4. AnswerFollowsQuestion' /\ OpenQuestionLast'
  BY <1>2, <1>3 DEF DbInv, AnswerFollowsQuestion, OpenQuestionLast, FailDb, Running
<1> QED  BY <1>1, <1>4 DEF DbInv

LEMMA StepDb ==
  ASSUME TypeInv, DbInv, [Next]_vars
  PROVE  DbInv'
<1>1. TypeOK /\ TypeOK' /\ DbStep
  BY StepType, StepIsDb DEF TypeInv
<1>2. CASE UNCHANGED db
  BY <1>2 DEF DbInv, OneRunning, OneTurnPerRequest, DeletedIsQuiet, TranscriptContiguous,
              AnswerFollowsQuestion, OpenQuestionLast, Said, Running, Stored, db
<1> QED
  BY <1>1, <1>2, SettleKeepsDb, StartKeepsDb, CompleteKeepsDb, FailKeepsDb DEF DbStep

LEMMA InitDb == Init => DbInv
BY DEF Init, DbInv, OneRunning, OneTurnPerRequest, DeletedIsQuiet, TranscriptContiguous,
       AnswerFollowsQuestion, OpenQuestionLast, Said, Running, Stored, NoTurn

LEMMA DbInvariant == Spec => []DbInv
<1>1. TypeInv /\ DbInv /\ [Next]_vars => DbInv'
  BY StepDb
<1> QED  BY InitDb, <1>1, TypeInvariant, PTL DEF Spec

\* A thread never has two running turns.
THEOREM RunningIsUnique == Spec => []OneRunning
<1>1. DbInv => OneRunning  BY DEF DbInv
<1> QED  BY <1>1, DbInvariant, PTL

\* A client_request_id never gets a second turn.
THEOREM RequestIsIdempotent == Spec => []OneTurnPerRequest
<1>1. DbInv => OneTurnPerRequest  BY DEF DbInv
<1> QED  BY <1>1, DbInvariant, PTL

\* The transcript is numbered without gaps, each answer stands right after the
\* question it answers, and only completed turns have one.
THEOREM TranscriptIsOrdered == Spec => []TranscriptInOrder
<1>1. DbInv => TranscriptInOrder  BY DEF DbInv, TranscriptInOrder
<1> QED  BY <1>1, DbInvariant, PTL

\* A deleted thread has no running turn.
THEOREM DeletionLeavesNoRun == Spec => []DeletedIsQuiet
<1>1. DbInv => DeletedIsQuiet  BY DEF DbInv
<1> QED  BY <1>1, DbInvariant, PTL

(***************************************************************************)
(* Time, ends and replies.                                                 *)
(***************************************************************************)

LEMMA ClockAdvances ==
  ASSUME TypeOK, [Next]_vars
  PROVE  clock <= clock'
<1>1. clock \in Nat  BY TimeAssumption DEF TypeOK
<1>2. clock' = clock \/ clock' = clock + 1
  BY DEF Next, AskStep, vars, Submit, StartRefused, StartReplayed, StartConflict, StartTurn,
         ReplayCompletion, AgentAnswers, AgentFails, AnswerRefused, CompleteTurn,
         CompleteTooLate, FailTurn, FinishOnDeleted, Crash, ReadThread, DeleteThread, Tick
<1> QED  BY <1>1, <1>2

LEMMA StepLease ==
  ASSUME TypeInv, NoEarlyAbandonment, [Next]_vars
  PROVE  NoEarlyAbandonment'
<1>1. TypeOK /\ TypeOK' /\ Evolves /\ clock <= clock'
  BY StepType, StepEvolves, ClockAdvances DEF TypeInv
<1>2. clock \in Nat /\ clock' \in Nat
  BY <1>1, TimeAssumption DEF TypeOK
<1> SUFFICES ASSUME NEW t \in TurnId, turns'[t].failure = Abandoned
             PROVE  turns'[t].deadline <= clock'
  BY DEF NoEarlyAbandonment
<1>3. turns[t].deadline \in Nat
  BY <1>1 DEF TypeOK, Turn
<1>4. CASE turns'[t] = turns[t]
  BY <1>1, <1>2, <1>3, <1>4 DEF NoEarlyAbandonment
<1>5. CASE Ends(t)
  BY <1>1, <1>2, <1>3, <1>5 DEF Ends, NoEarlyAbandonment
<1>6. CASE Starts(t)
  BY <1>6 DEF Starts, Abandoned
<1> QED  BY <1>1, <1>4, <1>5, <1>6 DEF Evolves

\* A turn is only abandoned once its lease is over, whatever clock readings the
\* operations that meet it hold.
THEOREM LeaseIsHonoured == Spec => []NoEarlyAbandonment
<1>1. Init => NoEarlyAbandonment
  BY DEF Init, NoEarlyAbandonment, NoTurn, Abandoned
<1>2. TypeInv /\ NoEarlyAbandonment /\ [Next]_vars => NoEarlyAbandonment'
  BY StepLease
<1> QED  BY <1>1, <1>2, TypeInvariant, PTL DEF Spec

LEMMA StepFinal ==
  ASSUME TypeInv, [Next]_vars
  PROVE  /\ \A t \in TurnId : turns[t].status \in Terminal => turns'[t] = turns[t]
         /\ messages \subseteq messages'
<1>1. TypeOK /\ Evolves /\ DbStep
  BY StepEvolves, StepIsDb DEF TypeInv
<1>2. \A t \in TurnId : turns[t].status \in Terminal => turns'[t] = turns[t]
  BY <1>1 DEF Evolves, Ends, Starts, Running, Stored, Terminal
<1>3. messages \subseteq messages'
  BY <1>1 DEF DbStep, SettleDb, StartDb, CompleteDb, FailDb, db
<1> QED  BY <1>2, <1>3

\* A turn that has ended never changes again and no message is ever lost.
THEOREM EndsAreFinal == Spec => TerminalIsFinal
<1>1. TypeInv /\ [Next]_vars
        => [/\ \A t \in TurnId : turns[t].status \in Terminal => turns'[t] = turns[t]
            /\ messages \subseteq messages']_vars
  BY StepFinal
<1> QED  BY <1>1, TypeInvariant, PTL DEF Spec, TerminalIsFinal

\* Nothing is written to a deleted thread.
THEOREM DeletionIsFinal == Spec => DeletedIsFrozen
<1>1. [Next]_vars => [thread.deleted => UNCHANGED db]_vars
  BY DEF Next, AskStep, vars, db, Active, Submit, StartRefused, StartReplayed, StartConflict,
         StartTurn, ReplayCompletion, AgentAnswers, AgentFails, AnswerRefused, CompleteTurn,
         CompleteTooLate, FailTurn, FinishOnDeleted, Crash, ReadThread, DeleteThread, Tick
<1> QED  BY <1>1, PTL DEF Spec, DeletedIsFrozen

\* What a reply says of its turn.
Told(x) ==
  /\ x.turn \in Stored
  /\ turns[x.turn].status = x.status /\ turns[x.turn].request = x.request
  /\ x.answered <=> x.status = "COMPLETED"

ReplyInv == \A x \in replies : Told(x)

LEMMA StepReply ==
  ASSUME TypeInv, DbInv, ReplyInv, [Next]_vars
  PROVE  ReplyInv'
<1>1. TypeOK /\ TypeOK' /\ AskInv /\ AnswerFollowsQuestion
  BY StepType DEF TypeInv, DbInv
<1>2. \A t \in TurnId : turns[t].status \in Terminal => turns'[t] = turns[t]
  BY StepFinal
<1>3. ASSUME NEW x \in replies  PROVE Told(x)'
  <2>1. Told(x) /\ x.turn \in TurnId /\ x.status \in Terminal
    BY <1>1 DEF ReplyInv, TypeOK, Reply
  <2> QED  BY <1>2, <2>1 DEF Told, Stored
<1>4. ASSUME NEW a \in Ask, NEW t \in Stored, NEW r, NEW status \in Terminal,
             NEW answered \in BOOLEAN, asks[a].turn = t, asks[a].request = r,
             turns[t].request = r, turns'[t].request = r, turns'[t].status = status,
             answered <=> status = "COMPLETED", Tell(a, t, status, answered)
      PROVE  ReplyInv'
  <2> DEFINE x == [request |-> r, turn |-> t, status |-> status, answered |-> answered]
  <2>1. replies' = replies \cup {x}
    BY <1>4 DEF Tell
  <2>2. t \in Stored'
    BY <1>4 DEF Stored, Terminal
  <2>3. Told(x)'
    BY <1>4, <2>2 DEF Told
  <2> HIDE DEF x
  <2> QED  BY <1>3, <2>1, <2>3 DEF ReplyInv
<1>5. ASSUME replies' = replies  PROVE ReplyInv'
  BY <1>3, <1>5 DEF ReplyInv
<1>6. ASSUME NEW a \in Ask, ReplayCompletion(a)  PROVE ReplyInv'
  <2>1. PICK t, r, status : t = asks[a].turn /\ r = asks[a].request /\ status = asks[a].outcome
    OBVIOUS
  <2>2. t \in Stored /\ turns[t].request = r /\ status \in Terminal /\ turns[t].status = status
    BY <1>1, <1>6, <2>1 DEF AskInv, ReplayCompletion
  <2>3. PICK answered \in BOOLEAN : answered = (Said(t, "ASSISTANT") # {})
    OBVIOUS
  <2>4. answered <=> status = "COMPLETED"
    BY <1>1, <2>2, <2>3 DEF AnswerFollowsQuestion, Stored
  <2>5. Tell(a, t, status, answered) /\ turns' = turns
    BY <1>6, <2>1, <2>3 DEF ReplayCompletion, db
  <2> QED  BY <1>4, <2>1, <2>2, <2>4, <2>5
<1>7. ASSUME NEW a \in Ask, CompleteTurn(a)  PROVE ReplyInv'
  <2>1. PICK t, r : t = asks[a].turn /\ r = asks[a].request
    OBVIOUS
  <2>2. t \in Stored /\ turns[t].request = r
    BY <1>1, <1>7, <2>1 DEF AskInv, CompleteTurn
  <2>3. turns'[t].status = "COMPLETED" /\ turns'[t].request = r
    BY <1>1, <1>7, <2>1, <2>2 DEF CompleteTurn, TypeOK, Turn, Stored
  <2>4. Tell(a, t, "COMPLETED", TRUE)
    BY <1>7, <2>1 DEF CompleteTurn
  <2> QED  BY <1>4, <2>1, <2>2, <2>3, <2>4 DEF Terminal
<1>8. ASSUME NEW a \in Ask, CompleteTooLate(a)  PROVE ReplyInv'
  <2>1. PICK t, r, status : t = asks[a].turn /\ r = asks[a].request /\ status = turns'[t].status
    OBVIOUS
  <2>2. t \in Stored /\ turns[t].request = r
    BY <1>1, <1>8, <2>1 DEF AskInv, CompleteTooLate
  <2>3. PICK answered \in BOOLEAN : answered = (Said(t, "ASSISTANT") # {})
    OBVIOUS
  <2>4. Tell(a, t, status, answered)
    BY <1>8, <2>1, <2>3 DEF CompleteTooLate
  <2>5. /\ turns'[t].request = r /\ status \in Terminal
        /\ status = "COMPLETED" <=> turns[t].status = "COMPLETED"
    <3>1. CASE t \notin Running /\ UNCHANGED turns
      BY <1>1, <2>1, <2>2, <3>1 DEF Running, Stored, TypeOK, Turn, TurnStatus
    <3>2. ASSUME NEW now \in ReadClock(a), t \in Overdue(now), Settle(now)
          PROVE  /\ turns'[t].request = r /\ status \in Terminal
                 /\ status = "COMPLETED" <=> turns[t].status = "COMPLETED"
      <4>1. /\ turns'[t].request = turns[t].request /\ turns'[t].status = "FAILED"
            /\ t \in Running
        <5>1. now \in 0..clock /\ t \in TurnId /\ turns' = SettledTurns(now)
          BY <1>1, <2>2, <3>2, ReadClockType DEF Settle, Stored
        <5> QED  BY <1>1, <3>2, <5>1, SettleEnds
      <4> QED  BY <2>1, <2>2, <4>1 DEF Running, Terminal
    <3> QED  BY <1>8, <2>1, <3>1, <3>2 DEF CompleteTooLate
  <2>6. answered <=> status = "COMPLETED"
    BY <1>1, <2>2, <2>3, <2>5 DEF AnswerFollowsQuestion, Stored
  <2> QED  BY <1>4, <2>1, <2>2, <2>4, <2>5, <2>6
<1>9. ASSUME NEW a \in Ask, FailTurn(a)  PROVE ReplyInv'
  <2>1. PICK t, r, status : t = asks[a].turn /\ r = asks[a].request /\ status = turns'[t].status
    OBVIOUS
  <2>2. t \in Stored /\ turns[t].request = r
    BY <1>1, <1>9, <2>1 DEF AskInv, FailTurn
  <2>3. PICK answered \in BOOLEAN : answered = (Said(t, "ASSISTANT") # {})
    OBVIOUS
  <2>4. Tell(a, t, status, answered)
    BY <1>9, <2>1, <2>3 DEF FailTurn
  <2>5. /\ turns'[t].request = r /\ status \in Terminal
        /\ status = "COMPLETED" <=> turns[t].status = "COMPLETED"
    <3>1. CASE t \notin Running /\ UNCHANGED turns
      BY <1>1, <2>1, <2>2, <3>1 DEF Running, Stored, TypeOK, Turn, TurnStatus
    <3>2. CASE t \in Running /\ turns'[t].request = turns[t].request /\ turns'[t].status = "FAILED"
      BY <2>1, <2>2, <3>2 DEF Running, Terminal
    <3>3. \/ t \notin Running /\ UNCHANGED turns
          \/ t \in Running /\ turns'[t].request = turns[t].request /\ turns'[t].status = "FAILED"
      <4>1. turns \in [TurnId -> Turn] /\ t \in TurnId /\ turns[t] \in Turn
        BY <1>1, <2>2 DEF TypeOK, Stored
      <4>2. ASSUME NEW f, turns' = [turns EXCEPT ![t].status = "FAILED", ![t].failure = f]
            PROVE  turns'[t].request = turns[t].request /\ turns'[t].status = "FAILED"
        BY <4>1, <4>2 DEF Turn
      <4>3. \/ /\ Failable(t)
               /\ \E f : turns' = [turns EXCEPT ![t].status = "FAILED", ![t].failure = f]
            \/ ~Failable(t) /\ UNCHANGED turns
        BY <1>9, <2>1 DEF FailTurn
      <4> QED  BY <4>2, <4>3 DEF Failable
    <3> QED  BY <3>1, <3>2, <3>3
  <2>6. answered <=> status = "COMPLETED"
    BY <1>1, <2>2, <2>3, <2>5 DEF AnswerFollowsQuestion, Stored
  <2> QED  BY <1>4, <2>1, <2>2, <2>4, <2>5, <2>6
<1> QED
  BY <1>5, <1>6, <1>7, <1>8, <1>9
     DEF Next, AskStep, vars, Submit, StartRefused, StartReplayed, StartConflict, StartTurn,
         AgentAnswers, AgentFails, AnswerRefused, FinishOnDeleted, Refuse, Crash, ReadThread,
         DeleteThread, Tick
LEMMA ReplyInvariant == Spec => []ReplyInv
<1>1. Init => ReplyInv  BY DEF Init, ReplyInv
<1>2. TypeInv /\ DbInv /\ ReplyInv /\ [Next]_vars => ReplyInv'  BY StepReply
<1> QED  BY <1>1, <1>2, TypeInvariant, DbInvariant, PTL DEF Spec

\* What a client was told about its request stays true for ever, and a retry is
\* never told anything else.
THEOREM RepliesAreStable == Spec => []RepliesStayTrue
<1>1. ASSUME TypeInv, DbInv, ReplyInv  PROVE RepliesStayTrue
  <2>1. \A x \in replies : Told(x) /\ x \in Reply
    BY <1>1 DEF ReplyInv, TypeInv, TypeOK
  <2>2. ASSUME NEW x \in replies, NEW y \in replies, x.request = y.request
        PROVE  x = y
    <3>1. x.turn = y.turn
      BY <1>1, <2>1, <2>2 DEF Told, DbInv, OneTurnPerRequest
    <3>2. x.status = y.status
      BY <2>1, <3>1 DEF Told
    <3>3. x.answered = y.answered
      BY <2>1, <3>2 DEF Told, Reply
    <3> QED  BY <2>1, <2>2, <3>1, <3>2, <3>3 DEF Reply
  <2> QED  BY <2>1, <2>2 DEF Told, RepliesStayTrue
<1> QED  BY <1>1, TypeInvariant, DbInvariant, ReplyInvariant, PTL

(***************************************************************************)
(* The revision.  It is counted with the sizes of the sets of turns, so    *)
(* each step is looked at again for what it adds to both.                  *)
(***************************************************************************)

One(P) == IF P THEN 1 ELSE 0

\* Nothing is counted, a run ends, a turn starts or the thread is deleted; the last two may
\* end an overdue run first.
Counts ==
  \/ /\ Stored' = Stored /\ Running' = Running
     /\ thread'.revision = thread.revision /\ thread'.deleted = thread.deleted
  \/ /\ Running # {} /\ Stored' = Stored /\ Running' = {}
     /\ thread'.revision = thread.revision + 1 /\ thread'.deleted = thread.deleted
  \/ /\ \E t \in TurnId \ Stored : Stored' = Stored \cup {t} /\ Running' = {t}
     /\ thread'.revision = thread.revision + One(Running # {}) + 1
     /\ thread'.deleted = thread.deleted
  \/ /\ Stored' = Stored /\ Running' = {} /\ ~thread.deleted /\ thread'.deleted
     /\ thread'.revision = thread.revision + One(Running # {}) + 1

LEMMA SettledCounts ==
  ASSUME TypeOK, OneRunning, NEW now \in 0..clock
  PROVE  /\ SettledThread(now).revision = thread.revision + One(Overdue(now) # {})
         /\ SettledThread(now).deleted = thread.deleted
         /\ Overdue(now) = {} \/ Overdue(now) = Running
         /\ SettledThread(now) \in [revision : Nat, nextSequence : Nat \ {0}, deleted : BOOLEAN]
<1>1. /\ SettledThread(now).revision = thread.revision + One(Overdue(now) # {})
      /\ SettledThread(now).deleted = thread.deleted
  BY DEF SettledThread, TypeOK, One
<1>2. Overdue(now) = {} \/ Overdue(now) = Running  BY DEF OneRunning, Overdue
<1>3. now \in Nat  BY TimeAssumption DEF TypeOK
<1> QED  BY <1>1, <1>2, <1>3, SettledType

LEMMA SettleCounts ==
  ASSUME TypeOK, OneRunning, NEW now \in 0..clock, Settle(now), UNCHANGED messages
  PROVE  Counts
<1>1. Stored' = Stored /\ Running' = Running \ Overdue(now)
  BY SettleIsDb DEF Settle, SettleDb
<1>2. /\ thread'.revision = thread.revision + One(Overdue(now) # {})
      /\ thread'.deleted = thread.deleted
      /\ Overdue(now) = {} \/ Overdue(now) = Running
  BY SettledCounts DEF Settle
<1>3. thread.revision \in Nat  BY DEF TypeOK
<1>4. CASE Overdue(now) = {}  BY <1>1, <1>2, <1>3, <1>4 DEF Counts, One
<1>5. CASE Overdue(now) # {}  BY <1>1, <1>2, <1>3, <1>5 DEF Counts, One
<1> QED  BY <1>4, <1>5

LEMMA DeleteCounts ==
  ASSUME TypeOK, OneRunning, NEW now \in 0..clock, DeleteThread(now)
  PROVE  Counts
<1>1. /\ ~thread.deleted /\ Running \subseteq Overdue(now) /\ turns' = SettledTurns(now)
      /\ thread' = [SettledThread(now) EXCEPT !.revision = @ + 1, !.deleted = TRUE]
      /\ UNCHANGED messages
  BY DEF DeleteThread, Active, Free
<1>2. /\ SettledThread(now).revision = thread.revision + One(Overdue(now) # {})
      /\ SettledThread(now) \in [revision : Nat, nextSequence : Nat \ {0}, deleted : BOOLEAN]
      /\ Overdue(now) \subseteq Running
  BY SettledCounts DEF Overdue
<1>3. /\ thread'.revision = thread.revision + One(Running # {}) + 1 /\ thread'.deleted
      /\ thread'.nextSequence = SettledThread(now).nextSequence
  BY <1>1, <1>2 DEF One
<1>4. Stored' = Stored /\ Running' = Running \ Overdue(now)
  BY <1>1, <1>3, SettleIsDb DEF SettleDb
<1> QED  BY <1>1, <1>3, <1>4 DEF Counts

LEMMA StartCounts ==
  ASSUME TypeInv, OneRunning, NEW a \in Ask, StartTurn(a)
  PROVE  Counts
<1>1. PICK t \in TurnId \ Stored : Stored' = Stored \cup {t} /\ Running' = {t}
           /\ thread'.deleted = thread.deleted
  BY StartIsDb DEF StartDb, TypeInv
<1>2. PICK now \in ReadClock(a) : /\ Running \subseteq Overdue(now)
                                  /\ thread' = WithMessage(SettledThread(now))
  BY DEF StartTurn, Free
<1>3. now \in 0..clock  BY ReadClockType DEF TypeInv
<1>4. /\ SettledThread(now).revision = thread.revision + One(Overdue(now) # {})
      /\ SettledThread(now) \in [revision : Nat, nextSequence : Nat \ {0}, deleted : BOOLEAN]
      /\ Overdue(now) \subseteq Running
  BY <1>3, SettledCounts DEF Overdue, TypeInv
<1>5. thread'.revision = thread.revision + One(Running # {}) + 1
  BY <1>2, <1>4 DEF WithMessage, One
<1> QED  BY <1>1, <1>5 DEF Counts

LEMMA EndCounts ==
  ASSUME TypeInv, OneRunning, NEW a \in Ask,
         CompleteTurn(a) \/ (FailTurn(a) /\ Failable(asks[a].turn))
  PROVE  Counts
<1>1. PICK t \in Running : /\ Stored' = Stored /\ Running' = Running \ {t}
                           /\ thread'.deleted = thread.deleted
  BY CompleteIsDb, FailIsDb DEF CompleteDb, FailDb, TypeInv
<1>2. thread'.revision = thread.revision + 1
  BY DEF CompleteTurn, FailTurn, WithMessage, TypeInv, TypeOK
<1>3. Running' = {}  BY <1>1 DEF OneRunning
<1> QED  BY <1>1, <1>2, <1>3 DEF Counts

LEMMA StepCounts ==
  ASSUME TypeInv, OneRunning, [Next]_vars
  PROVE  Counts
<1> USE DEF TypeInv
<1>1. ASSUME UNCHANGED <<thread, turns>>  PROVE Counts
  BY <1>1 DEF Counts, Stored, Running
<1>2. ASSUME NEW a \in Ask, StartReplayed(a) \/ StartConflict(a) \/ CompleteTooLate(a)
      PROVE  Counts
  <2>1. messages' = messages /\ (UNCHANGED <<thread, turns>> \/ \E now \in ReadClock(a) : Settle(now))
    BY <1>2 DEF StartReplayed, StartConflict, CompleteTooLate
  <2> QED  BY <1>1, <2>1, SettleCounts, ReadClockType
<1>3. ASSUME NEW a \in Ask, FailTurn(a)  PROVE Counts
  <2>1. CASE ~Failable(asks[a].turn)  BY <1>1, <1>3, <2>1 DEF FailTurn
  <2> QED  BY <1>3, <2>1, EndCounts
<1>4. ASSUME NEW a \in Ask,
             \/ StartRefused(a) \/ ReplayCompletion(a) \/ AgentAnswers(a) \/ AgentFails(a)
             \/ AnswerRefused(a) \/ FinishOnDeleted(a) \/ Crash(a)
      PROVE Counts
  BY <1>1, <1>4 DEF StartRefused, ReplayCompletion, AgentAnswers, AgentFails, AnswerRefused,
                    FinishOnDeleted, Crash, db
<1>5. CASE \E a \in Ask, r \in Request, q \in Question, e \in 0..thread.revision :
             Submit(a, r, q, e)
  BY <1>1, <1>5 DEF Submit, db
<1>6. CASE Tick \/ UNCHANGED vars  BY <1>1, <1>6 DEF Tick, vars, db
<1>7. ASSUME NEW now \in 0..clock, ReadThread(now)  PROVE Counts
  BY <1>7, SettleCounts DEF ReadThread
<1> QED
  BY <1>2, <1>3, <1>4, <1>5, <1>6, <1>7, StartCounts, EndCounts, DeleteCounts DEF Next, AskStep

RevisionInv == IsFiniteSet(Stored) /\ RevisionCountsChanges

LEMMA StepRevision ==
  ASSUME TypeInv, OneRunning, RevisionInv, [Next]_vars
  PROVE  RevisionInv'
<1> DEFINE Ended == Stored \ Running
<1>1. Counts  BY StepCounts
<1>2. /\ IsFiniteSet(Stored) /\ Running \subseteq Stored /\ thread.deleted \in BOOLEAN
      /\ thread.revision = Cardinality(Stored) + Cardinality(Ended) + One(thread.deleted)
  BY DEF RevisionInv, RevisionCountsChanges, One, Running, Stored, TypeInv, TypeOK
<1>3. /\ IsFiniteSet(Ended) /\ Cardinality(Ended) \in Nat /\ Cardinality(Stored) \in Nat
  BY <1>2, FS_Subset, FS_CardinalityType
<1>4. Cardinality(Stored) = Cardinality(Ended) + One(Running # {})
  <2>1. CASE Running = {}  BY <1>3, <2>1 DEF One
  <2>2. ASSUME NEW t \in Running  PROVE Cardinality(Stored) = Cardinality(Ended) + 1
    <3>1. Ended = Stored \ {t} /\ t \in Stored  BY <1>2, <2>2 DEF OneRunning
    <3>2. Cardinality(Stored \ {t}) = Cardinality(Stored) - 1  BY <1>2, <3>1, FS_RemoveElement
    <3> QED  BY <1>3, <3>1, <3>2
  <2> QED  BY <2>1, <2>2 DEF One
<1>5. ASSUME IsFiniteSet(Stored'),
             thread'.revision = Cardinality(Stored') + Cardinality(Stored' \ Running')
                                + One(thread'.deleted)
      PROVE  RevisionInv'
  BY <1>5 DEF RevisionInv, RevisionCountsChanges, One
<1> HIDE DEF RevisionInv
<1>6. CASE /\ Stored' = Stored /\ Running' = Running
           /\ thread'.revision = thread.revision /\ thread'.deleted = thread.deleted
  BY <1>2, <1>5, <1>6
<1>7. CASE /\ Running # {} /\ Stored' = Stored /\ Running' = {}
           /\ thread'.revision = thread.revision + 1 /\ thread'.deleted = thread.deleted
  <2>1. Stored' \ Running' = Stored  BY <1>7
  <2> QED  BY <1>2, <1>3, <1>4, <1>5, <1>7, <2>1 DEF One
<1>8. CASE /\ \E t \in TurnId \ Stored : Stored' = Stored \cup {t} /\ Running' = {t}
           /\ thread'.revision = thread.revision + One(Running # {}) + 1
           /\ thread'.deleted = thread.deleted
  <2>1. PICK t \in TurnId \ Stored : Stored' = Stored \cup {t} /\ Running' = {t}  BY <1>8
  <2>2. Stored' \ Running' = Stored  BY <2>1
  <2>3. IsFiniteSet(Stored') /\ Cardinality(Stored') = Cardinality(Stored) + 1
    BY <1>2, <2>1, FS_AddElement
  <2> QED  BY <1>2, <1>3, <1>4, <1>5, <1>8, <2>2, <2>3 DEF One
<1>9. CASE /\ Stored' = Stored /\ Running' = {} /\ ~thread.deleted /\ thread'.deleted
           /\ thread'.revision = thread.revision + One(Running # {}) + 1
  <2>1. Stored' \ Running' = Stored  BY <1>9
  <2> QED  BY <1>2, <1>3, <1>4, <1>5, <1>9, <2>1 DEF One
<1> QED  BY <1>1, <1>6, <1>7, <1>8, <1>9 DEF Counts

\* The revision counts each turn's start, each turn's end and the deletion: _abandon_turn,
\* which any operation may run first, is counted once and never again, so a client whose
\* expected_revision matches has missed no change.
THEOREM RevisionIsExact == Spec => []RevisionCountsChanges
<1>1. Init => RevisionInv
  <2> SUFFICES ASSUME Init  PROVE RevisionInv  OBVIOUS
  <2>1. Stored = {} /\ Stored \ Running = {} /\ thread.revision = 0 /\ ~thread.deleted
    BY DEF Init, Stored, NoTurn
  <2> QED  BY <2>1, FS_EmptySet DEF RevisionInv, RevisionCountsChanges
<1>2. TypeInv /\ DbInv /\ RevisionInv /\ [Next]_vars => RevisionInv'
  BY StepRevision DEF DbInv
<1>3. RevisionInv => RevisionCountsChanges  BY DEF RevisionInv
<1> QED  BY <1>1, <1>2, <1>3, TypeInvariant, DbInvariant, PTL DEF Spec

(***************************************************************************)
(* A question is only ever started on a thread at rest.  The turn that     *)
(* start_turn abandons first counts in the revision, and no client can     *)
(* have expected that revision before it was there.                        *)
(***************************************************************************)

ExpectedInv == \A a \in Ask : asks[a].expected <= thread.revision

LEMMA StepExpected ==
  ASSUME TypeInv, OneRunning, ExpectedInv, [Next]_vars
  PROVE  ExpectedInv'
<1>1. TypeOK /\ TypeOK' /\ Counts  BY StepType, StepCounts DEF TypeInv
<1>2. /\ thread.revision \in Nat /\ thread'.revision \in Nat
      /\ thread.revision <= thread'.revision
  BY <1>1 DEF Counts, One, TypeOK
<1>3. ASSUME NEW a \in Ask
      PROVE  asks'[a].expected \in {0, asks[a].expected} \cup 0..thread.revision
  <2>1. asks \in [Ask -> AskState] /\ asks[a] \in AskState  BY <1>1 DEF TypeOK
  <2>2. ASSUME NEW b \in Ask, asks' = [asks EXCEPT ![b] = IdleAsk]
        PROVE  asks'[a].expected \in {0, asks[a].expected}
    BY <2>1, <2>2 DEF IdleAsk
  <2>3. ASSUME NEW b \in Ask, NEW pc, NEW t, NEW o, Call(b, pc, t, o)
        PROVE  asks'[a].expected = asks[a].expected
    <3>1. asks'[a] = asks[a] \/ asks'[a] = [asks[a] EXCEPT !.pc = pc, !.turn = t, !.outcome = o,
                                                           !.called = clock]
      BY <2>1, <2>3 DEF Call
    <3> QED  BY <2>1, <3>1 DEF AskState
  <2>4. ASSUME NEW b \in Ask, NEW r \in Request, NEW q \in Question,
               NEW e \in 0..thread.revision, Submit(b, r, q, e)
        PROVE  asks'[a].expected \in {asks[a].expected} \cup 0..thread.revision
    BY <2>1, <2>4 DEF Submit, IdleAsk
  <2>5. ASSUME NEW b \in Ask, \/ StartRefused(b) \/ StartConflict(b) \/ ReplayCompletion(b)
                              \/ CompleteTurn(b) \/ CompleteTooLate(b) \/ FailTurn(b)
                              \/ FinishOnDeleted(b) \/ Crash(b)
        PROVE  asks'[a].expected \in {0, asks[a].expected}
    BY <2>2, <2>5 DEF StartRefused, StartConflict, ReplayCompletion, CompleteTurn,
       CompleteTooLate, FailTurn, FinishOnDeleted, Crash, Refuse, Tell
  <2>6. ASSUME NEW b \in Ask, \/ StartReplayed(b) \/ StartTurn(b) \/ AgentAnswers(b)
                              \/ AgentFails(b) \/ AnswerRefused(b)
        PROVE  asks'[a].expected = asks[a].expected
    <3>1. \E pc, t, o : Call(b, pc, t, o)
      BY <2>6 DEF StartReplayed, StartTurn, AgentAnswers, AgentFails, AnswerRefused
    <3> QED  BY <2>3, <3>1
  <2>7. CASE UNCHANGED asks  BY <2>7
  <2>8. CASE Tick \/ UNCHANGED vars \/ (\E now \in 0..clock : ReadThread(now) \/ DeleteThread(now))
    BY <2>7, <2>8 DEF Tick, vars, ReadThread, DeleteThread
  <2> QED  BY <2>4, <2>5, <2>6, <2>8 DEF Next, AskStep
<1>4. \A a \in Ask : asks[a].expected \in Nat  BY <1>1 DEF TypeOK, AskState
<1> QED  BY <1>2, <1>3, <1>4 DEF ExpectedInv

LEMMA ExpectedInvariant == Spec => []ExpectedInv
<1>1. Init => ExpectedInv  BY DEF Init, ExpectedInv, IdleAsk
<1>2. TypeInv /\ DbInv /\ ExpectedInv /\ [Next]_vars => ExpectedInv'
  BY StepExpected DEF DbInv
<1> QED  BY <1>1, <1>2, TypeInvariant, DbInvariant, PTL DEF Spec

LEMMA StartsAtRest ==
  ASSUME TypeInv, OneRunning, ExpectedInv, NEW a \in Ask, StartTurn(a)
  PROVE  Running = {}
<1>1. PICK now \in ReadClock(a) : /\ Running \subseteq Overdue(now)
                                  /\ SettledThread(now).revision = asks[a].expected
  BY DEF StartTurn, Free, Current
<1>2. now \in 0..clock  BY ReadClockType DEF TypeInv
<1>3. SettledThread(now).revision = thread.revision + One(Overdue(now) # {})
  BY <1>2, SettledCounts DEF TypeInv
<1>4. asks[a].expected <= thread.revision /\ thread.revision \in Nat
  BY DEF ExpectedInv, TypeInv, TypeOK
<1>5. Overdue(now) = {}  BY <1>1, <1>3, <1>4 DEF One
<1> QED  BY <1>1, <1>5

(***************************************************************************)
(* What the reader is shown of a state.                                    *)
(***************************************************************************)

LEMMA OpenIs ==
  ASSUME OneRunning
  PROVE  /\ Running = {} => Open = None
         /\ \A t \in Running : Open = t /\ t # None
BY NoneAssumption DEF OneRunning, Open, Running

\* The entry of the message numbered i among the messages M.
Numbered(M, i) == CHOOSE m \in M : m.sequence = i

Entry(M, i) == [turn |-> Numbered(M, i).turn, role |-> Numbered(M, i).role]

LEMMA NumberedIs ==
  ASSUME NEW M, \A m, n \in M : m.sequence = n.sequence => m = n, NEW m \in M
  PROVE  Numbered(M, m.sequence) = m
BY DEF Numbered

LEMMA LogIs ==
  /\ Log = [i \in 1..(thread.nextSequence - 1) |-> Entry(messages, i)]
  /\ Log' = [i \in 1..(thread'.nextSequence - 1) |-> Entry(messages', i)]
BY DEF Log, Entry, Numbered

LEMMA LogType ==
  ASSUME TypeOK, TranscriptContiguous
  PROVE  /\ thread.nextSequence - 1 \in Nat
         /\ Log \in Seq([turn : TurnId, role : Role])
         /\ Len(Log) = thread.nextSequence - 1 /\ DOMAIN Log = 1..(thread.nextSequence - 1)
         /\ \A i \in DOMAIN Log : \E m \in messages :
              m.sequence = i /\ Log[i] = [turn |-> m.turn, role |-> m.role]
<1> DEFINE k == thread.nextSequence - 1
<1>1. k \in Nat  BY DEF TypeOK
<1>2. ASSUME NEW i \in 1..k
      PROVE  \E m \in messages : m.sequence = i /\ Entry(messages, i) = [turn |-> m.turn, role |-> m.role]
  <2>1. PICK m \in messages : m.sequence = i  BY DEF TranscriptContiguous
  <2>2. Numbered(messages, i) = m  BY <2>1, NumberedIs DEF TranscriptContiguous
  <2> QED  BY <2>1, <2>2 DEF Entry
<1>3. \A m \in messages : m.turn \in TurnId /\ m.role \in Role  BY DEF TypeOK, Message
<1>4. \A i \in 1..k : Entry(messages, i) \in [turn : TurnId, role : Role]  BY <1>2, <1>3
<1> HIDE DEF k
<1>5. Log = [i \in 1..k |-> Entry(messages, i)]  BY LogIs DEF k
<1>6. Log \in [1..k -> [turn : TurnId, role : Role]]  BY <1>4, <1>5
<1>7. Log \in Seq([turn : TurnId, role : Role])  BY <1>1, <1>6, SeqDef
<1>8. DOMAIN Log = 1..k  BY <1>5
<1>9. Len(Log) = k  BY <1>1, <1>7, <1>8, LenProperties
<1> QED  BY <1>1, <1>2, <1>5, <1>7, <1>8, <1>9 DEF k

\* A message with the next number is appended to what the reader sees.
LEMMA LogGrows ==
  ASSUME TypeOK, TypeOK', TranscriptContiguous, TranscriptContiguous', NEW t \in TurnId,
         NEW role \in Role, NEW q,
         messages' = messages \cup {[turn |-> t, role |-> role, sequence |-> thread.nextSequence,
                                     content |-> q]},
         thread'.nextSequence = thread.nextSequence + 1
  PROVE  Log' = Append(Log, [turn |-> t, role |-> role])
<1> DEFINE k == thread.nextSequence - 1
           e == [turn |-> t, role |-> role]
<1>1. /\ k \in Nat /\ Log \in Seq([turn : TurnId, role : Role]) /\ Len(Log) = k
      /\ DOMAIN Log = 1..k
      /\ \A i \in 1..k : \E m \in messages :
           m.sequence = i /\ Log[i] = [turn |-> m.turn, role |-> m.role]
  BY LogType
<1>2. PICK new : new = [turn |-> t, role |-> role, sequence |-> thread.nextSequence, content |-> q]
  OBVIOUS
<1>3. /\ messages' = messages \cup {new} /\ new.sequence = k + 1
      /\ [turn |-> new.turn, role |-> new.role] = e
  BY <1>2 DEF TypeOK
<1>4. thread'.nextSequence - 1 = k + 1  BY DEF TypeOK
<1>5. \A m, n \in messages' : m.sequence = n.sequence => m = n  BY DEF TranscriptContiguous
<1>6. e \in [turn : TurnId, role : Role]  OBVIOUS
<1> HIDE DEF k, e
<1>7. Log' = [i \in 1..(k + 1) |-> Entry(messages', i)]  BY <1>4, LogIs
<1>8. /\ Append(Log, e) \in Seq([turn : TurnId, role : Role]) /\ Len(Append(Log, e)) = k + 1
      /\ \A i \in 1..k : Append(Log, e)[i] = Log[i]
      /\ Append(Log, e)[k + 1] = e
  BY <1>1, <1>6, AppendProperties
<1>9. Append(Log, e) \in [1..(k + 1) -> [turn : TurnId, role : Role]]  BY <1>8, LenProperties
<1>10. ASSUME NEW i \in 1..(k + 1)  PROVE Entry(messages', i) = Append(Log, e)[i]
  <2>1. CASE i \in 1..k
    <3>1. PICK m \in messages : m.sequence = i /\ Log[i] = [turn |-> m.turn, role |-> m.role]
      BY <1>1, <2>1
    <3>2. Numbered(messages', i) = m  BY <1>3, <1>5, <3>1, NumberedIs
    <3> QED  BY <1>8, <2>1, <3>1, <3>2 DEF Entry
  <2>2. CASE i = k + 1
    <3>1. Numbered(messages', i) = new
      <4>1. new \in messages' /\ new.sequence = i  BY <1>3, <2>2
      <4>2. Numbered(messages', new.sequence) = new  BY <1>5, <4>1, NumberedIs
      <4> QED  BY <4>1, <4>2
    <3> QED  BY <1>3, <1>8, <2>2, <3>1 DEF Entry
  <2> QED  BY <1>1, <2>1, <2>2
<1> QED  BY <1>7, <1>9, <1>10 DEF e

\* A turn that is not stored has said nothing.
LEMMA LogTurns ==
  ASSUME TypeOK, DbInv, NEW i \in DOMAIN Log
  PROVE  Log[i].turn \in Stored
<1>1. PICK m \in messages : Log[i] = [turn |-> m.turn, role |-> m.role]
  BY LogType DEF DbInv
<1>2. m.turn \in TurnId /\ m.role \in {"USER", "ASSISTANT"}  BY DEF TypeOK, Message, Role
<1>3. m \in Said(m.turn, m.role)  BY DEF Said
<1>4. turns[m.turn].status # "NONE"
  BY <1>2, <1>3 DEF DbInv, AnswerFollowsQuestion
<1> QED  BY <1>1, <1>2, <1>4 DEF Stored

(***************************************************************************)
(* Each step is one of the reader's, or none.                              *)
(***************************************************************************)

ReadView == <<Log, Open, thread.deleted>>

LEMMA StartPosts ==
  ASSUME TypeInv, TypeOK', DbInv, DbInv', ExpectedInv, NEW a \in Ask, StartTurn(a)
  PROVE  \E t \in TurnId : Reader!Post(t)
<1>1. PICK t \in TurnId, r \in Request, q \in Question : StartDb(t, r, q)
  BY StartIsDb DEF TypeInv
<1>2. Running = {} /\ Open = None  BY StartsAtRest, OpenIs DEF DbInv
<1>3. Open' = t
  <2>1. Running' = {t}  BY <1>1 DEF StartDb
  <2>2. (CHOOSE u \in {t} : TRUE) = t  OBVIOUS
  <2> QED  BY <2>1, <2>2 DEF Open
<1>4. Log' = Append(Log, [turn |-> t, role |-> "USER"])
  BY <1>1, LogGrows DEF StartDb, TypeInv, DbInv, Role
<1>5. \A i \in DOMAIN Log : Log[i].turn # t  BY <1>1, LogTurns DEF StartDb, TypeInv
<1> QED  BY <1>1, <1>2, <1>3, <1>4, <1>5 DEF StartDb, Reader!Post

LEMMA CompleteAnswers ==
  ASSUME TypeInv, TypeOK', DbInv, DbInv', NEW a \in Ask, CompleteTurn(a)
  PROVE  Reader!Answer
<1>1. PICK t \in TurnId, q \in Question : CompleteDb(t, q)  BY CompleteIsDb DEF TypeInv
<1>2. Open = t /\ t # None  BY <1>1, OpenIs DEF CompleteDb, DbInv
<1>3. Running' = {}  BY <1>1 DEF CompleteDb, DbInv, OneRunning
<1>4. Open' = None  BY <1>3 DEF Open
<1>5. Log' = Append(Log, [turn |-> t, role |-> "ASSISTANT"])
  BY <1>1, LogGrows DEF CompleteDb, TypeInv, DbInv, Role
<1> QED  BY <1>1, <1>2, <1>4, <1>5 DEF CompleteDb, Reader!Answer

LEMMA LogKept ==
  ASSUME messages' = messages, thread'.nextSequence = thread.nextSequence
  PROVE  Log' = Log
BY LogIs

LEMMA EndGivesUp ==
  ASSUME OneRunning, messages' = messages, thread'.nextSequence = thread.nextSequence,
         thread'.deleted = thread.deleted, Running' = Running \/ Running' = {}
  PROVE  [Reader!Next]_ReadView
<1>1. Log' = Log  BY LogKept
<1>2. CASE Running' = Running
  <2>1. Open' = Open  BY <1>2 DEF Open
  <2> QED  BY <1>1, <2>1 DEF ReadView
<1>3. CASE Running # {} /\ Running' = {}
  <2>1. Open # None  BY <1>3, OpenIs
  <2>2. Open' = None  BY <1>3 DEF Open
  <2> QED  BY <1>1, <2>1, <2>2 DEF Reader!GiveUp, Reader!Next
<1> QED  BY <1>2, <1>3

LEMMA SettleGivesUp ==
  ASSUME TypeOK, OneRunning, NEW now \in 0..clock, Settle(now), UNCHANGED messages
  PROVE  [Reader!Next]_ReadView
<1>1. /\ Running' = Running \ Overdue(now) /\ thread'.nextSequence = thread.nextSequence
  BY SettleIsDb DEF Settle, SettleDb
<1>2. Overdue(now) = {} \/ Overdue(now) = Running  BY SettledCounts
<1>3. thread'.deleted = thread.deleted  BY SettledCounts DEF Settle
<1> QED  BY <1>1, <1>2, <1>3, EndGivesUp

LEMMA FailGivesUp ==
  ASSUME TypeOK, OneRunning, NEW a \in Ask, FailTurn(a), Failable(asks[a].turn)
  PROVE  [Reader!Next]_ReadView
<1>1. PICK t \in TurnId : FailDb(t)  BY FailIsDb
<1>2. Running' = {}  BY <1>1 DEF FailDb, OneRunning
<1> QED  BY <1>1, <1>2, EndGivesUp DEF FailDb

LEMMA DeleteCloses ==
  ASSUME TypeOK, OneRunning, NEW now \in 0..clock, DeleteThread(now)
  PROVE  Reader!Close
<1>1. /\ ~thread.deleted /\ Running \subseteq Overdue(now) /\ turns' = SettledTurns(now)
      /\ thread' = [SettledThread(now) EXCEPT !.revision = @ + 1, !.deleted = TRUE]
      /\ UNCHANGED messages
  BY DEF DeleteThread, Active, Free
<1>2. SettledThread(now) \in [revision : Nat, nextSequence : Nat \ {0}, deleted : BOOLEAN]
  BY SettledCounts
<1>3. thread'.deleted = TRUE /\ thread'.nextSequence = SettledThread(now).nextSequence
  BY <1>1, <1>2
<1>4. Running' = Running \ Overdue(now) /\ thread'.nextSequence = thread.nextSequence
  BY <1>1, <1>3, SettleIsDb DEF SettleDb
<1>5. Log' = Log  BY <1>1, <1>4, LogKept
<1>6. Open' = None  BY <1>1, <1>4 DEF Open
<1>7. thread.deleted = FALSE  BY <1>1 DEF TypeOK
<1> QED  BY <1>3, <1>5, <1>6, <1>7 DEF Reader!Close

LEMMA StepIsRead ==
  ASSUME TypeInv, DbInv, ExpectedInv, [Next]_vars
  PROVE  [Reader!Next]_ReadView
<1>1. TypeOK /\ TypeOK' /\ OneRunning /\ DbInv'  BY StepType, StepDb DEF TypeInv, DbInv
<1>2. ASSUME UNCHANGED db  PROVE [Reader!Next]_ReadView
  BY <1>1, <1>2, EndGivesUp DEF db, Running
<1>3. ASSUME NEW a \in Ask, StartReplayed(a) \/ StartConflict(a) \/ CompleteTooLate(a)
      PROVE  [Reader!Next]_ReadView
  <2>1. messages' = messages /\ (UNCHANGED <<thread, turns>> \/ \E now \in ReadClock(a) : Settle(now))
    BY <1>3 DEF StartReplayed, StartConflict, CompleteTooLate
  <2> QED  BY <1>1, <1>2, <2>1, SettleGivesUp, ReadClockType DEF db
<1>4. ASSUME NEW a \in Ask, FailTurn(a)  PROVE [Reader!Next]_ReadView
  <2>1. CASE ~Failable(asks[a].turn)  BY <1>2, <1>4, <2>1 DEF FailTurn, db
  <2> QED  BY <1>1, <1>4, <2>1, FailGivesUp
<1>5. ASSUME NEW a \in Ask,
             \/ StartRefused(a) \/ ReplayCompletion(a) \/ AgentAnswers(a) \/ AgentFails(a)
             \/ AnswerRefused(a) \/ FinishOnDeleted(a) \/ Crash(a)
      PROVE [Reader!Next]_ReadView
  BY <1>2, <1>5 DEF StartRefused, ReplayCompletion, AgentAnswers, AgentFails, AnswerRefused,
                    FinishOnDeleted, Crash
<1>6. CASE \E a \in Ask, r \in Request, q \in Question, e \in 0..thread.revision :
             Submit(a, r, q, e)
  BY <1>2, <1>6 DEF Submit
<1>7. CASE Tick \/ UNCHANGED vars  BY <1>2, <1>7 DEF Tick, vars, db
<1>8. ASSUME NEW now \in 0..clock, ReadThread(now)  PROVE [Reader!Next]_ReadView
  BY <1>1, <1>8, SettleGivesUp DEF ReadThread
<1>9. ASSUME NEW now \in 0..clock, DeleteThread(now)  PROVE Reader!Next
  BY <1>1, <1>9, DeleteCloses DEF Reader!Next
<1>10. ASSUME NEW a \in Ask, StartTurn(a)  PROVE Reader!Next
  BY <1>1, <1>10, StartPosts DEF Reader!Next
<1>11. ASSUME NEW a \in Ask, CompleteTurn(a)  PROVE Reader!Next
  BY <1>1, <1>11, CompleteAnswers DEF Reader!Next
<1> QED
  BY <1>3, <1>4, <1>5, <1>6, <1>7, <1>8, <1>9, <1>10, <1>11 DEF Next, AskStep

LEMMA InitIsRead == Init => Reader!Init
<1> SUFFICES ASSUME Init  PROVE Reader!Init  OBVIOUS
<1>1. /\ thread = [revision |-> 0, nextSequence |-> 1, deleted |-> FALSE]
      /\ Running = {}
  BY DEF Init, Running, NoTurn
<1>2. Open = None  BY <1>1 DEF Open
<1>3. TypeOK /\ TranscriptContiguous  BY InitType, InitDb DEF TypeInv, DbInv
<1>4. Len(Log) = 0 /\ Log \in Seq([turn : TurnId, role : Role])  BY <1>1, <1>3, LogType
<1>5. Log = <<>>  BY <1>4, EmptySeq
<1> QED  BY <1>1, <1>2, <1>5 DEF Reader!Init

\* Whatever handlers, retries, crashes, late answers and clock readings do, a reader of the
\* thread sees a behaviour of Transcript: start_turn posts one question at a time,
\* complete_turn answers it right after it, fail_turn and _abandon_turn give it up, and
\* nothing follows delete_thread.
THEOREM ThreadIsATranscript == Spec => ImplementsTranscript
<1>1. TypeInv /\ DbInv /\ ExpectedInv /\ [Next]_vars
        => [Reader!Next]_<<Log, Open, thread.deleted>>
  BY StepIsRead DEF ReadView
<1> QED
  BY <1>1, InitIsRead, TypeInvariant, DbInvariant, ExpectedInvariant, PTL
     DEF Spec, ImplementsTranscript, Reader!Spec

(***************************************************************************)
(* What is read back of conversations, for pages of any size.              *)
(***************************************************************************)

Stamp == Nat \X Nat

LEMMA LaterOrders ==
  ASSUME NEW s \in Stamp, NEW t \in Stamp, NEW u \in Stamp
  PROVE  /\ ~Later(s, s)
         /\ Later(s, t) /\ Later(t, u) => Later(s, u)
         /\ s = t \/ Later(s, t) \/ Later(t, s)
         /\ ~(Later(s, t) /\ Later(t, s))
<1>1. PICK a, b, c, d, e, f \in Nat : s = <<a, b>> /\ t = <<c, d>> /\ u = <<e, f>>
  BY DEF Stamp
<1> QED BY <1>1 DEF Later

\* A finite set of threads has a latest one and an earliest one.
LEMMA EndsOfList ==
  ASSUME NEW S \in SUBSET Stamp, IsFiniteSet(S), S # {}
  PROVE  /\ \E t \in S : \A s \in S \ {t} : Later(t, s)
         /\ \E t \in S : \A s \in S \ {t} : Later(s, t)
<1> DEFINE A == {T \in SUBSET S : T # {} => /\ \E t \in T : \A s \in T \ {t} : Later(t, s)
                                            /\ \E t \in T : \A s \in T \ {t} : Later(s, t)}
<1>1. {} \in A
  OBVIOUS
<1>2. ASSUME NEW T \in SUBSET S, T \in A, NEW x \in S \ T PROVE T \cup {x} \in A
  <2>1. CASE T = {}
    BY <2>1
  <2>2. CASE T # {}
    <3>1. PICK t \in T : \A s \in T \ {t} : Later(t, s)
      BY <1>2, <2>2
    <3>2. PICK u \in T : \A s \in T \ {u} : Later(s, u)
      BY <1>2, <2>2
    <3>3. \E v \in T \cup {x} : \A s \in (T \cup {x}) \ {v} : Later(v, s)
      <4>1. CASE Later(t, x)
        BY <3>1, <4>1
      <4>2. CASE ~Later(t, x)
        <5>1. \A s \in T : Later(x, s)
          BY <3>1, <4>2, LaterOrders
        <5> QED BY <5>1
      <4> QED BY <4>1, <4>2
    <3>4. \E v \in T \cup {x} : \A s \in (T \cup {x}) \ {v} : Later(s, v)
      <4>1. CASE Later(x, u)
        BY <3>2, <4>1
      <4>2. CASE ~Later(x, u)
        <5>1. \A s \in T : Later(s, x)
          BY <3>2, <4>2, LaterOrders
        <5> QED BY <5>1
      <4> QED BY <4>1, <4>2
    <3> QED BY <3>3, <3>4
  <2> QED BY <2>1, <2>2
<1>3. S \in A
  <2>1. \A T \in SUBSET S : \A x \in S \ T : T \in A => T \cup {x} \in A
    BY <1>2
  <2> HIDE DEF A
  <2> QED BY <1>1, <2>1, SetInduction
<1> QED BY <1>3

\* Who of T is later than t.
Ahead(T, t) == {s \in T : Later(s, t)}

LEMMA AheadIs ==
  ASSUME NEW T \in SUBSET Stamp, IsFiniteSet(T), NEW s \in T, NEW t \in T
  PROVE  /\ IsFiniteSet(Ahead(T, t)) /\ Cardinality(Ahead(T, t)) \in Nat
         /\ Cardinality(Ahead(T, t)) < Cardinality(T)
         /\ Later(s, t) => Cardinality(Ahead(T, s)) < Cardinality(Ahead(T, t))
<1>1. /\ Ahead(T, t) \subseteq T \ {t} /\ Ahead(T, s) \subseteq T
      /\ Later(s, t) => Ahead(T, s) \subseteq Ahead(T, t) \ {s} /\ s \in Ahead(T, t)
  BY LaterOrders DEF Ahead
<1>2. IsFiniteSet(T \ {t}) /\ IsFiniteSet(Ahead(T, t)) /\ IsFiniteSet(Ahead(T, t) \ {s})
  BY <1>1, FS_Subset
<1>3. Cardinality(T \ {t}) = Cardinality(T) - 1 /\ Cardinality(T) \in Nat
  BY FS_RemoveElement, FS_CardinalityType
<1>4. Cardinality(Ahead(T, t)) \in Nat /\ Cardinality(Ahead(T, t)) <= Cardinality(T \ {t})
  BY <1>1, <1>2, FS_Subset, FS_CardinalityType
<1>5. ASSUME Later(s, t) PROVE Cardinality(Ahead(T, s)) < Cardinality(Ahead(T, t))
  <2>1. Ahead(T, s) \subseteq Ahead(T, t) \ {s} /\ s \in Ahead(T, t)
    BY <1>1, <1>5
  <2>2. Cardinality(Ahead(T, t) \ {s}) = Cardinality(Ahead(T, t)) - 1
    BY <1>2, <2>1, FS_RemoveElement
  <2>3. Cardinality(Ahead(T, s)) <= Cardinality(Ahead(T, t) \ {s}) /\ Cardinality(Ahead(T, s)) \in Nat
    BY <1>2, <2>1, FS_Subset, FS_CardinalityType
  <2> QED BY <1>4, <2>2, <2>3
<1> QED BY <1>2, <1>3, <1>4, <1>5

\* list_threads with its cursor: a thread that did not change while the list was read page by
\* page is on the page or still to come and not both, whichever others were written, created
\* or deleted meanwhile.
THEOREM ThreadsAreListedOnce ==
  ASSUME NEW T \in SUBSET Stamp, IsFiniteSet(T), NEW U \in SUBSET Stamp, NEW n \in Nat \ {0}
  PROVE  ListedOnce(T, U, n)
<1> DEFINE page == ThreadPage(T, <<>>, n)
           next == NextThread(T, <<>>, n)
           rest == IF next = <<>> THEN {} ELSE After(U, next)
<1>1. After(T, <<>>) = T
  BY DEF After
<1>2. page = {t \in T : Cardinality(Ahead(T, t)) < n}
  BY <1>1 DEF ThreadPage, Ahead
<1>3. CASE Cardinality(T) <= n
  <2>1. next = <<>>
    <3>1. ~(Cardinality(T) > n)
      BY <1>3, FS_CardinalityType
    <3> QED BY <1>1, <3>1 DEF NextThread
  <2>2. \A t \in T : t \in page
    <3> TAKE t \in T
    <3>1. Cardinality(Ahead(T, t)) \in Nat /\ Cardinality(Ahead(T, t)) < Cardinality(T) /\ Cardinality(T) \in Nat
      BY AheadIs, FS_CardinalityType
    <3> QED BY <1>2, <1>3, <3>1
  <2> QED BY <2>1, <2>2 DEF ListedOnce
<1>4. CASE Cardinality(T) > n
  <2>1. page # {}
    <3>1. T # {}
      <4>1. Cardinality(T) # 0
        BY <1>4
      <4> QED BY <4>1, FS_EmptySet
    <3>2. PICK t \in T : \A s \in T \ {t} : Later(t, s)
      BY <3>1, EndsOfList
    <3>3. Ahead(T, t) = {}
      BY <3>2, LaterOrders DEF Ahead
    <3>4. Cardinality(Ahead(T, t)) = 0
      BY <3>3, FS_EmptySet
    <3> QED BY <1>2, <3>4
  <2>2. page \in SUBSET Stamp /\ IsFiniteSet(page)
    BY <1>2, FS_Subset
  <2>3. next \in page /\ \A s \in page \ {next} : Later(s, next)
    <3>1. next = CHOOSE t \in page : \A s \in page \ {t} : Later(s, t)
      BY <1>1, <1>4 DEF NextThread
    <3>2. \E t \in page : \A s \in page \ {t} : Later(s, t)
      <4> HIDE DEF page
      <4> QED BY <2>1, <2>2, EndsOfList
    <3> HIDE DEF page, next
    <3> QED BY <3>1, <3>2
  <2>4. next # <<>>
    <3>1. PICK a, b \in Nat : next = <<a, b>>
      BY <2>2, <2>3 DEF Stamp
    <3> HIDE DEF next
    <3> QED BY <3>1
  <2>5. ASSUME NEW t \in T \cap U PROVE (t \in page) # (t \in rest)
    <3>1. t \in rest <=> Later(next, t)
      <4> HIDE DEF next
      <4> QED BY <2>4 DEF After
    <3>2. next \in Stamp /\ next \in T /\ t \in Stamp
      BY <1>2, <2>2, <2>3
    <3>3. CASE t \in page
      <4>1. t = next \/ Later(t, next)
        BY <2>3, <3>3
      <4>2. ~Later(next, t)
        <5> HIDE DEF next
        <5> QED BY <3>2, <4>1, LaterOrders
      <4> QED BY <3>1, <3>3, <4>2
    <3>4. CASE t \notin page
      <4>1. t # next /\ ~Later(t, next)
        <5>1. ASSUME Later(t, next) PROVE FALSE
          <6>1. Cardinality(Ahead(T, t)) < Cardinality(Ahead(T, next))
            <7> HIDE DEF next, page
            <7> QED BY <3>2, <5>1, AheadIs
          <6>2. Cardinality(Ahead(T, next)) < n /\ Cardinality(Ahead(T, next)) \in Nat /\ Cardinality(Ahead(T, t)) \in Nat
            <7>1. Cardinality(Ahead(T, next)) < n
              BY <1>2, <2>3
            <7> HIDE DEF next, page
            <7> QED BY <3>2, <7>1, AheadIs
          <6>3. Cardinality(Ahead(T, t)) < n
            BY <6>1, <6>2
          <6> QED BY <1>2, <3>4, <6>3
        <5> QED BY <2>3, <3>4, <5>1
      <4>2. Later(next, t)
        <5> HIDE DEF next
        <5> QED BY <3>2, <4>1, LaterOrders
      <4> QED BY <3>1, <3>4, <4>2
    <3> QED BY <3>3, <3>4
  <2> QED BY <2>5 DEF ListedOnce
<1>5. Cardinality(T) \in Nat
  BY FS_CardinalityType
<1> QED BY <1>3, <1>4, <1>5

(***************************************************************************)
(* Pages of messages.                                                      *)
(***************************************************************************)

\* The newest n of the messages before b.
LEMMA PageIs ==
  ASSUME NEW b \in Nat \ {0}, NEW n \in Nat \ {0}
  PROVE  IF b - 1 > n
         THEN /\ Page(b, n) = b - n..b - 1 /\ Cardinality(Page(b, n)) = n
              /\ NextCursor(b, n) = b - n /\ b - n \in 1..b - 1 /\ NextCursor(b, n) # NoCursor
         ELSE /\ Page(b, n) = 1..b - 1 /\ Cardinality(Page(b, n)) = b - 1
              /\ NextCursor(b, n) = NoCursor
<1>1. \A i \in 1..b - 1 : Cardinality({j \in 1..b - 1 : j > i}) = b - 1 - i
  <2> TAKE i \in 1..b - 1
  <2>1. {j \in 1..b - 1 : j > i} = i + 1..b - 1
    OBVIOUS
  <2>2. Cardinality(i + 1..b - 1) = IF i + 1 > b - 1 THEN 0 ELSE b - 1 - (i + 1) + 1
    <3>1. i + 1 \in Int /\ b - 1 \in Int
      OBVIOUS
    <3> QED BY <3>1, FS_Interval
  <2>3. (IF i + 1 > b - 1 THEN 0 ELSE b - 1 - (i + 1) + 1) = b - 1 - i
    OBVIOUS
  <2> QED BY <2>1, <2>2, <2>3
<1>2. Page(b, n) = {i \in 1..b - 1 : b - 1 - i < n}
  BY <1>1 DEF Page, Before
<1>3. Cardinality(Before(b)) = b - 1
  <2>1. Cardinality(1..b - 1) = IF 1 > b - 1 THEN 0 ELSE b - 1 - 1 + 1
    <3>1. 1 \in Int /\ b - 1 \in Int
      OBVIOUS
    <3> QED BY <3>1, FS_Interval
  <2> QED BY <2>1 DEF Before
<1>4. CASE b - 1 > n
  <2>1. Page(b, n) = b - n..b - 1 /\ b - n \in 1..b - 1
    BY <1>2, <1>4
  <2>2. Cardinality(b - n..b - 1) = IF b - n > b - 1 THEN 0 ELSE b - 1 - (b - n) + 1
    <3>1. b - n \in Int /\ b - 1 \in Int
      OBVIOUS
    <3> QED BY <3>1, FS_Interval
  <2>3. Cardinality(Page(b, n)) = n
    BY <2>1, <2>2
  <2>4. Min(Page(b, n)) = b - n
    <3>1. \A x \in Page(b, n) : (\A y \in Page(b, n) : x =< y) <=> x = b - n
      BY <2>1
    <3>2. b - n \in Page(b, n)
      BY <2>1
    <3> QED BY <3>1, <3>2 DEF Min
  <2>5. NextCursor(b, n) = b - n /\ b - n # NoCursor
    BY <1>3, <1>4, <2>1, <2>4 DEF NextCursor, NoCursor
  <2> QED BY <1>4, <2>1, <2>3, <2>5
<1>5. CASE ~(b - 1 > n)
  <2>1. Page(b, n) = 1..b - 1
    BY <1>2, <1>5
  <2>2. NextCursor(b, n) = NoCursor
    BY <1>3, <1>5 DEF NextCursor
  <2> QED BY <1>3, <1>5, <2>1, <2>2 DEF Before
<1> QED BY <1>4, <1>5

\* P shows every message before b once, the newest first, in pages of size n.
Shows(P, b, n) ==
  /\ P \in Seq(SUBSET Nat) /\ Len(P) > 0
  /\ UNION Range(P) = 1..b - 1
  /\ \A i, j \in DOMAIN P : i < j => \A m \in P[i], k \in P[j] : m > k
  /\ \A i \in DOMAIN P : Cardinality(P[i]) <= n /\ (i < Len(P) => Cardinality(P[i]) = n)

LEMMA OnePageShows ==
  ASSUME NEW b \in Nat \ {0}, NEW n \in Nat \ {0}, NextCursor(b, n) = NoCursor
  PROVE  Shows(<<Page(b, n)>>, b, n)
<1>1. Page(b, n) = 1..b - 1 /\ Cardinality(Page(b, n)) <= n
  BY PageIs
<1> DEFINE P == <<Page(b, n)>>
<1>2. P \in Seq(SUBSET Nat) /\ Len(P) = 1 /\ DOMAIN P = {1} /\ P[1] = Page(b, n)
  <2>1. Page(b, n) \in SUBSET Nat
    BY <1>1
  <2> HIDE DEF Page
  <2> QED BY <2>1
<1> HIDE DEF P
<1>3. UNION Range(P) = 1..b - 1
  BY <1>1, <1>2 DEF Range
<1>4. Shows(P, b, n)
  BY <1>1, <1>2, <1>3 DEF Shows
<1> QED BY <1>4 DEF P

LEMMA NextPageShows ==
  ASSUME NEW b \in Nat \ {0}, NEW n \in Nat \ {0}, NextCursor(b, n) # NoCursor,
         NEW Q, Shows(Q, NextCursor(b, n), n)
  PROVE  Shows(<<Page(b, n)>> \o Q, b, n)
<1>1. /\ Page(b, n) = b - n..b - 1 /\ Cardinality(Page(b, n)) = n
      /\ NextCursor(b, n) = b - n /\ b - n \in 1..b - 1
  BY PageIs
<1>2. PICK p : p = Page(b, n)
  OBVIOUS
<1>3. p \in SUBSET Nat /\ p = b - n..b - 1 /\ Cardinality(p) = n
  BY <1>1, <1>2
<1>4. /\ Q \in Seq(SUBSET Nat) /\ Len(Q) > 0 /\ UNION Range(Q) = 1..b - n - 1
      /\ \A i, j \in DOMAIN Q : i < j => \A m \in Q[i], k \in Q[j] : m > k
      /\ \A i \in DOMAIN Q : Cardinality(Q[i]) <= n /\ (i < Len(Q) => Cardinality(Q[i]) = n)
  BY <1>1 DEF Shows
<1> DEFINE P == <<p>> \o Q
<1>5. /\ P \in Seq(SUBSET Nat) /\ Len(P) = Len(Q) + 1 /\ DOMAIN P = 1..Len(Q) + 1 /\ DOMAIN Q = 1..Len(Q)
      /\ P[1] = p /\ \A i \in 1..Len(Q) : P[i + 1] = Q[i]
      /\ Len(Q) \in Nat
  BY <1>3, <1>4
<1> HIDE DEF P
<1>6. \A i \in DOMAIN P : i = 1 \/ (i - 1 \in DOMAIN Q /\ P[i] = Q[i - 1])
  <2> TAKE i \in DOMAIN P
  <2>1. i # 1 => i - 1 \in 1..Len(Q) /\ (i - 1) + 1 = i
    BY <1>5
  <2> QED BY <1>5, <2>1
<1>7. \A i \in DOMAIN Q : \A k \in Q[i] : k \in 1..b - n - 1
  BY <1>4 DEF Range
<1>8. UNION Range(P) = 1..b - 1
  <2>1. \A m \in UNION Range(P) : m \in 1..b - 1
    BY <1>1, <1>3, <1>5, <1>6, <1>7 DEF Range
  <2>2. ASSUME NEW m \in 1..b - 1 PROVE \E i \in DOMAIN P : m \in P[i]
    <3>1. CASE m \in p
      BY <1>5, <3>1
    <3>2. CASE m \notin p
      <4>1. m \in UNION Range(Q)
        <5>1. m \in 1..b - n - 1
          BY <1>3, <3>2
        <5> QED BY <1>4, <5>1
      <4>2. PICK i \in 1..Len(Q) : m \in Q[i]
        BY <1>5, <4>1 DEF Range
      <4>3. i + 1 \in DOMAIN P /\ m \in P[i + 1]
        BY <1>5, <4>2
      <4> QED BY <4>3
    <3> QED BY <3>1, <3>2
  <2> QED BY <2>1, <2>2 DEF Range
<1>9. \A i, j \in DOMAIN P : i < j => \A m \in P[i], k \in P[j] : m > k
  <2> SUFFICES ASSUME NEW i \in DOMAIN P, NEW j \in DOMAIN P, i < j, NEW m \in P[i], NEW k \in P[j]
               PROVE  m > k
    OBVIOUS
  <2>1. j # 1 /\ j - 1 \in DOMAIN Q /\ k \in Q[j - 1]
    <3>1. j # 1
      BY <1>5
    <3> QED BY <1>6, <3>1
  <2>2. CASE i = 1
    <3>1. m \in b - n..b - 1 /\ k \in 1..b - n - 1
      BY <1>3, <1>5, <1>7, <2>1, <2>2
    <3> QED BY <3>1
  <2>3. CASE i # 1
    <3>1. i - 1 \in DOMAIN Q /\ m \in Q[i - 1]
      BY <1>6, <2>3
    <3>2. i - 1 < j - 1
      BY <1>5
    <3> QED BY <1>4, <2>1, <3>1, <3>2
  <2> QED BY <2>2, <2>3
<1>10. \A i \in DOMAIN P : Cardinality(P[i]) <= n /\ (i < Len(P) => Cardinality(P[i]) = n)
  <2> TAKE i \in DOMAIN P
  <2>1. CASE i = 1
    BY <1>3, <1>5, <2>1
  <2>2. CASE i # 1
    <3>1. i - 1 \in DOMAIN Q /\ P[i] = Q[i - 1] /\ (i < Len(P) => i - 1 < Len(Q))
      BY <1>5, <1>6, <2>2
    <3> QED BY <1>4, <3>1
  <2> QED BY <2>1, <2>2
<1>11. Shows(P, b, n)
  BY <1>5, <1>8, <1>9, <1>10 DEF Shows
<1> QED BY <1>2, <1>11 DEF P

\* f gives each cursor of D the pages from there on.
Turns(f, D, n) ==
  f = [c \in D |-> IF NextCursor(c, n) = NoCursor THEN <<Page(c, n)>>
                   ELSE <<Page(c, n)>> \o f[NextCursor(c, n)]]

LEMMA TurnsExist ==
  ASSUME NEW b \in Nat, NEW n \in Nat \ {0}
  PROVE  \E f : Turns(f, 1..b, n)
<1> DEFINE A == {m \in Nat : \E f : Turns(f, 1..m, n)}
<1>1. 0 \in A
  <2> DEFINE f == [c \in 1..0 |-> 0]
  <2>1. Turns(f, 1..0, n)
    <3>1. 1..0 = {}
      OBVIOUS
    <3> QED BY <3>1 DEF Turns
  <2> QED BY <2>1
<1>2. ASSUME NEW m \in Nat, m \in A PROVE m + 1 \in A
  <2>1. PICK f : Turns(f, 1..m, n)
    BY <1>2
  <2> DEFINE g == [c \in 1..m + 1 |-> IF NextCursor(c, n) = NoCursor THEN <<Page(c, n)>>
                                      ELSE <<Page(c, n)>> \o f[NextCursor(c, n)]]
  <2>2. \A c \in 1..m + 1 : NextCursor(c, n) # NoCursor => NextCursor(c, n) \in 1..m
    <3> TAKE c \in 1..m + 1
    <3>1. NextCursor(c, n) # NoCursor => NextCursor(c, n) \in 1..c - 1
      BY PageIs
    <3> QED BY <3>1
  <2>3. \A c \in 1..m : c \in 1..m + 1 /\ f[c] = g[c]
    <3>1. \A c \in 1..m : c \in 1..m + 1
      OBVIOUS
    <3>2. \A c \in 1..m : f[c] = IF NextCursor(c, n) = NoCursor THEN <<Page(c, n)>>
                                 ELSE <<Page(c, n)>> \o f[NextCursor(c, n)]
      BY <2>1 DEF Turns
    <3> QED BY <3>1, <3>2
  <2>4. Turns(g, 1..m + 1, n)
    <3>1. \A c \in 1..m + 1 : NextCursor(c, n) # NoCursor => f[NextCursor(c, n)] = g[NextCursor(c, n)]
      BY <2>2, <2>3
    <3> QED BY <3>1 DEF Turns
  <2> QED BY <2>4
<1>3. b \in A
  <2> HIDE DEF A
  <2> QED BY <1>1, <1>2, NumberInduction
<1> QED BY <1>3

\* history and list_messages: whatever the cursor and the size of a page, a client that follows the
\* cursors to the end is shown every message once, newest first, in pages of that size.
THEOREM PagesShowEachMessageOnce ==
  ASSUME NEW b \in Nat \ {0}, NEW n \in Nat \ {0}
  PROVE  Partitioned(b, n)
<1> DEFINE f == CHOOSE f : f = [c \in 1..b |-> IF NextCursor(c, n) = NoCursor THEN <<Page(c, n)>>
                                               ELSE <<Page(c, n)>> \o f[NextCursor(c, n)]]
<1>1. Pages(b, n) = f[b]
  BY DEF Pages
<1>2. Turns(f, 1..b, n)
  <2>1. PICK g : g = [c \in 1..b |-> IF NextCursor(c, n) = NoCursor THEN <<Page(c, n)>>
                                     ELSE <<Page(c, n)>> \o g[NextCursor(c, n)]]
    <3>1. \E g : Turns(g, 1..b, n)
      BY TurnsExist
    <3> QED BY <3>1 DEF Turns
  <2>2. f = [c \in 1..b |-> IF NextCursor(c, n) = NoCursor THEN <<Page(c, n)>>
                            ELSE <<Page(c, n)>> \o f[NextCursor(c, n)]]
    BY <2>1
  <2> HIDE DEF f
  <2> QED BY <2>2 DEF Turns
<1> HIDE DEF f
<1>3. \A c \in 1..b : f[c] = IF NextCursor(c, n) = NoCursor THEN <<Page(c, n)>>
                             ELSE <<Page(c, n)>> \o f[NextCursor(c, n)]
  BY <1>2 DEF Turns
<1>4. \A c \in 1..b : NextCursor(c, n) # NoCursor => NextCursor(c, n) \in 1..c - 1
  <2> TAKE c \in 1..b
  <2>1. c \in Nat \ {0}
    OBVIOUS
  <2> QED BY <2>1, PageIs
<1> DEFINE Upto(m) == \A c \in 1..b : c <= m => Shows(f[c], c, n)
           A == {m \in Nat : Upto(m)}
<1>5. Upto(0)
  OBVIOUS
<1>6. ASSUME NEW m \in Nat, Upto(m) PROVE Upto(m + 1)
  <2>1. ASSUME NEW c \in 1..b, c = m + 1 PROVE Shows(f[c], c, n)
    <3>1. CASE NextCursor(c, n) = NoCursor
      <4>1. Shows(<<Page(c, n)>>, c, n)
        <5>1. c \in Nat \ {0}
          OBVIOUS
        <5> QED BY <3>1, <5>1, OnePageShows
      <4>2. f[c] = <<Page(c, n)>>
        BY <1>3, <3>1
      <4> QED BY <4>1, <4>2
    <3>2. CASE NextCursor(c, n) # NoCursor
      <4>1. PICK d \in 1..c - 1 : d = NextCursor(c, n)
        BY <1>4, <3>2
      <4>2. d \in 1..b /\ d <= m
        BY <2>1
      <4>3. Shows(f[d], d, n)
        BY <1>6, <4>2
      <4>4. Shows(<<Page(c, n)>> \o f[d], c, n)
        <5>1. c \in Nat \ {0}
          OBVIOUS
        <5> QED BY <3>2, <4>1, <4>3, <5>1, NextPageShows
      <4>5. f[c] = <<Page(c, n)>> \o f[d]
        BY <1>3, <3>2, <4>1
      <4> QED BY <4>4, <4>5
    <3> QED BY <3>1, <3>2
  <2>2. \A c \in 1..b : c <= m + 1 => c <= m \/ c = m + 1
    OBVIOUS
  <2> QED BY <1>6, <2>1, <2>2
<1>7. Upto(b)
  <2> HIDE DEF Upto
  <2>1. 0 \in A /\ \A m \in Nat : m \in A => m + 1 \in A
    BY <1>5, <1>6
  <2> HIDE DEF A
  <2>2. b \in A
    BY <2>1, NumberInduction
  <2> QED BY <2>2 DEF A
<1>8. Shows(Pages(b, n), b, n)
  BY <1>1, <1>7
<1> QED BY <1>8 DEF Shows, Partitioned

(***************************************************************************)
(* The bounded history.                                                    *)
(***************************************************************************)

LEMMA LeastOf ==
  ASSUME NEW S \in SUBSET Nat, S # {}
  PROVE  Min(S) \in S /\ \A x \in S : Min(S) <= x
<1>1. PICK x \in S : \A y \in S : ~(<<y, x>> \in OpToRel(<, Nat))
  BY NatLessThanWellFounded, WFMin
<1>2. \A y \in S : x <= y
  <2> TAKE y \in S
  <2>1. ~(y < x)
    BY <1>1 DEF OpToRel
  <2> QED BY <2>1
<1> QED BY <1>2 DEF Min

LEMMA LengthType ==
  ASSUME NEW log \in Seq(Roles), NEW S \in SUBSET (1..Len(log)), IsFiniteSet(S)
  PROVE  Length(log, S) \in Int
<1>1. [i \in S |-> Size(log[i])] \in [S -> Int]
  BY DEF Size
<1>2. PICK g : g = [i \in S |-> Size(log[i])]
  OBVIOUS
<1>3. SumFunction(g) \in Int
  BY <1>1, <1>2, SumType
<1> QED BY <1>2, <1>3 DEF Length

LEMMA LengthOfNone ==
  ASSUME NEW log
  PROVE  Length(log, {}) = 0
<1>1. PICK g \in [{} -> Int] : g = [i \in {} |-> Size(log[i])]
  OBVIOUS
<1>2. SumFunction(g) = 0
  BY SumEmpty
<1> QED BY <1>1, <1>2 DEF Length

Nothing == [full |-> FALSE, selected |-> {}]

\* f gives each set of messages what is left of them once the newest is looked at first.
Bounds(log, room, f, D) ==
  f = [s \in D |-> IF s = {} THEN Nothing ELSE Candidate(log, room, Min(s), f[s \ {Min(s)}])]

OfAtMost(E, n) == {s \in SUBSET E : Cardinality(s) <= n}

LEMMA BoundsOfSmall ==
  ASSUME NEW log, NEW room, NEW E \in SUBSET Nat, IsFiniteSet(E), NEW n \in Nat
  PROVE  \E f : Bounds(log, room, f, OfAtMost(E, n))
<1> DEFINE A == {m \in Nat : \E f : Bounds(log, room, f, OfAtMost(E, m))}
<1>1. \A s \in SUBSET E : /\ Cardinality(s) \in Nat
                          /\ Cardinality(s) = 0 <=> s = {}
                          /\ s # {} => Cardinality(s \ {Min(s)}) = Cardinality(s) - 1
  <2> TAKE s \in SUBSET E
  <2>1. IsFiniteSet(s)
    BY FS_Subset
  <2>2. Cardinality(s) \in Nat /\ (Cardinality(s) = 0 <=> s = {})
    BY <2>1, FS_CardinalityType, FS_EmptySet
  <2>3. s # {} => Cardinality(s \ {Min(s)}) = Cardinality(s) - 1
    <3>1. s \in SUBSET Nat
      OBVIOUS
    <3> QED BY <2>1, <3>1, LeastOf, FS_RemoveElement
  <2> QED BY <2>2, <2>3
<1>2. 0 \in A
  <2> DEFINE f == [s \in OfAtMost(E, 0) |-> Nothing]
  <2>1. \A s \in OfAtMost(E, 0) : s = {}
    <3>1. ASSUME NEW s \in SUBSET E, Cardinality(s) <= 0 PROVE s = {}
      <4>1. PICK c \in Nat : c = Cardinality(s) /\ (c = 0 <=> s = {})
        BY <1>1
      <4> QED BY <3>1, <4>1
    <3> QED BY <3>1 DEF OfAtMost
  <2>2. Bounds(log, room, f, OfAtMost(E, 0))
    BY <2>1 DEF Bounds
  <2> QED BY <2>2
<1>3. ASSUME NEW m \in Nat, m \in A PROVE m + 1 \in A
  <2>1. PICK f : Bounds(log, room, f, OfAtMost(E, m))
    BY <1>3
  <2> DEFINE g == [s \in OfAtMost(E, m + 1) |->
                     IF s = {} THEN Nothing ELSE Candidate(log, room, Min(s), f[s \ {Min(s)}])]
  <2>2. \A s \in OfAtMost(E, m + 1) : s # {} => s \ {Min(s)} \in OfAtMost(E, m)
    <3>1. ASSUME NEW s \in SUBSET E, Cardinality(s) <= m + 1, s # {} PROVE Cardinality(s \ {Min(s)}) <= m
      <4>1. PICK c \in Nat : c = Cardinality(s) /\ Cardinality(s \ {Min(s)}) = c - 1
        BY <1>1, <3>1
      <4> QED BY <3>1, <4>1
    <3> QED BY <3>1 DEF OfAtMost
  <2>3. \A s \in OfAtMost(E, m) : s \in OfAtMost(E, m + 1)
    <3>1. ASSUME NEW s \in SUBSET E, Cardinality(s) <= m PROVE Cardinality(s) <= m + 1
      <4>1. PICK c \in Nat : c = Cardinality(s)
        BY <1>1
      <4> QED BY <3>1, <4>1
    <3> QED BY <3>1 DEF OfAtMost
  <2>4. \A s \in OfAtMost(E, m) : f[s] = g[s]
    BY <2>1, <2>3 DEF Bounds
  <2>5. \A s \in OfAtMost(E, m + 1) : s # {} => f[s \ {Min(s)}] = g[s \ {Min(s)}]
    BY <2>2, <2>4
  <2>6. Bounds(log, room, g, OfAtMost(E, m + 1))
    BY <2>5 DEF Bounds
  <2>7. m + 1 \in Nat
    OBVIOUS
  <2> QED BY <2>6, <2>7
<1>4. n \in A
  <2> HIDE DEF A
  <2> QED BY <1>2, <1>3, NumberInduction
<1> QED BY <1>4

Fits(log, b, room, k) == Length(log, b - k..b - 1) <= room

\* Of the newest m messages before b: all fit, or the newest k do and one more does not.
Kept(log, b, room, m, h) ==
  \/ h = [full |-> FALSE, selected |-> b - m..b - 1] /\ Fits(log, b, room, m)
  \/ \E k \in 0..m - 1 : /\ h = [full |-> TRUE, selected |-> b - k..b - 1]
                         /\ Fits(log, b, room, k) /\ ~Fits(log, b, room, k + 1)

LEMMA CandidateKept ==
  ASSUME NEW log \in Seq(Roles), NEW b \in 1..Len(log) + 1, NEW room \in Nat, NEW m \in Nat, m + 1 < b,
         NEW h, Kept(log, b, room, m, h)
  PROVE  Kept(log, b, room, m + 1, Candidate(log, room, b - (m + 1), h))
<1>1. PICK i \in 1..Len(log) : i = b - (m + 1)
  OBVIOUS
<1>2. CASE \E k \in 0..m - 1 : /\ h = [full |-> TRUE, selected |-> b - k..b - 1]
                               /\ Fits(log, b, room, k) /\ ~Fits(log, b, room, k + 1)
  <2>1. PICK k \in 0..m - 1 : /\ h = [full |-> TRUE, selected |-> b - k..b - 1]
                              /\ Fits(log, b, room, k) /\ ~Fits(log, b, room, k + 1)
    BY <1>2
  <2>2. PICK g : g = [h EXCEPT !.full = TRUE]
    OBVIOUS
  <2>3. g = [full |-> TRUE, selected |-> b - k..b - 1]
    BY <2>1, <2>2
  <2>4. h.full
    BY <2>1
  <2>5. Candidate(log, room, i, h) = g
    BY <2>2, <2>4 DEF Candidate
  <2>6. k \in 0..(m + 1) - 1
    OBVIOUS
  <2> QED BY <1>1, <2>1, <2>3, <2>5, <2>6 DEF Kept
<1>3. CASE h = [full |-> FALSE, selected |-> b - m..b - 1] /\ Fits(log, b, room, m)
  <2>1. ~h.full /\ h.selected = b - m..b - 1
    BY <1>3
  <2>2. (b - m..b - 1) \cup {i} = b - (m + 1)..b - 1
    BY <1>1
  <2>3. PICK t \in Int : t = Length(log, b - (m + 1)..b - 1)
    <3>1. b - (m + 1)..b - 1 \in SUBSET (1..Len(log))
      OBVIOUS
    <3>2. IsFiniteSet(b - (m + 1)..b - 1)
      <4>1. b - (m + 1) \in Int /\ b - 1 \in Int
        OBVIOUS
      <4> QED BY <4>1, FS_Interval
    <3> QED BY <3>1, <3>2, LengthType
  <2>4. CASE t > room
    <3>1. PICK g : g = [h EXCEPT !.full = TRUE]
      OBVIOUS
    <3>2. g = [full |-> TRUE, selected |-> b - m..b - 1]
      BY <1>3, <3>1
    <3>3. Candidate(log, room, i, h) = g
      BY <2>1, <2>2, <2>3, <2>4, <3>1 DEF Candidate
    <3>4. m \in 0..(m + 1) - 1 /\ ~Fits(log, b, room, m + 1)
      BY <2>3, <2>4 DEF Fits
    <3> QED BY <1>1, <1>3, <3>2, <3>3, <3>4 DEF Kept
  <2>5. CASE ~(t > room)
    <3>1. PICK g : g = [h EXCEPT !.selected = @ \cup {i}]
      OBVIOUS
    <3>2. g = [full |-> FALSE, selected |-> b - (m + 1)..b - 1]
      BY <1>3, <2>2, <3>1
    <3>3. Candidate(log, room, i, h) = g
      BY <2>1, <2>2, <2>3, <2>5, <3>1 DEF Candidate
    <3>4. Fits(log, b, room, m + 1)
      BY <2>3, <2>5 DEF Fits
    <3> QED BY <1>1, <3>2, <3>3, <3>4 DEF Kept
  <2> QED BY <2>4, <2>5
<1> QED BY <1>2, <1>3 DEF Kept

\* What a fold of the newest messages has kept.
LEMMA HistoryKept ==
  ASSUME NEW log \in Seq(Roles), NEW b \in 1..Len(log) + 1, NEW room \in Nat,
         NEW p \in Nat, p < b, NEW f, Bounds(log, room, f, SUBSET (b - p..b - 1))
  PROVE  Kept(log, b, room, p, f[b - p..b - 1])
<1> DEFINE Upto(m) == m <= p => Kept(log, b, room, m, f[b - m..b - 1])
           A == {m \in Nat : Upto(m)}
<1>1. \A s \in SUBSET (b - p..b - 1) :
        f[s] = IF s = {} THEN Nothing ELSE Candidate(log, room, Min(s), f[s \ {Min(s)}])
  BY DEF Bounds
<1>2. Upto(0)
  <2>1. b - 0..b - 1 = {} /\ b - 0..b - 1 \in SUBSET (b - p..b - 1)
    OBVIOUS
  <2>2. f[b - 0..b - 1] = Nothing
    BY <1>1, <2>1
  <2>3. Fits(log, b, room, 0)
    <3>1. 0 <= room
      OBVIOUS
    <3> QED BY <2>1, <3>1, LengthOfNone DEF Fits
  <2>4. Nothing = [full |-> FALSE, selected |-> b - 0..b - 1]
    BY <2>1 DEF Nothing
  <2> QED BY <2>2, <2>3, <2>4 DEF Kept
<1>3. ASSUME NEW m \in Nat, Upto(m) PROVE Upto(m + 1)
  <2> SUFFICES ASSUME m + 1 <= p PROVE Kept(log, b, room, m + 1, f[b - (m + 1)..b - 1])
    OBVIOUS
  <2>1. PICK s : s = b - (m + 1)..b - 1
    OBVIOUS
  <2>2. /\ s \in SUBSET (b - p..b - 1) /\ s # {} /\ s \ {b - (m + 1)} = b - m..b - 1
        /\ b - (m + 1) \in s /\ (\A x \in s : b - (m + 1) <= x) /\ s \subseteq Nat
        /\ m <= p /\ m + 1 < b
    <3>1. PICK c \in Nat : c = b - (m + 1) /\ c >= b - p /\ c <= b - 1 /\ c + 1 = b - m
      OBVIOUS
    <3>2. s = c..b - 1
      BY <2>1, <3>1
    <3>3. s \subseteq b - p..b - 1 /\ s \subseteq Nat
      BY <3>1, <3>2
    <3>4. c \in s /\ \A x \in s : c <= x
      <4>1. b - 1 \in Int /\ c \in Int /\ c <= b - 1
        BY <3>1
      <4>2. c \in c..b - 1
        BY <4>1
      <4>3. \A x \in c..b - 1 : c <= x
        OBVIOUS
      <4> QED BY <3>2, <4>2, <4>3
    <3>5. s \ {c} = c + 1..b - 1
      BY <3>1, <3>2
    <3>6. m <= p /\ m + 1 < b
      OBVIOUS
    <3> QED BY <3>1, <3>3, <3>4, <3>5, <3>6
  <2>3. Min(s) = b - (m + 1)
    <3>1. Min(s) \in s /\ \A x \in s : Min(s) <= x
      BY <2>2, LeastOf
    <3>2. b - (m + 1) <= Min(s) /\ Min(s) <= b - (m + 1) /\ Min(s) \in Nat
      BY <2>2, <3>1
    <3> QED BY <3>2
  <2>4. f[s] = Candidate(log, room, b - (m + 1), f[b - m..b - 1])
    BY <1>1, <2>2, <2>3
  <2>5. Kept(log, b, room, m, f[b - m..b - 1])
    BY <1>3, <2>2
  <2>6. PICK h : h = f[b - m..b - 1]
    OBVIOUS
  <2>7. Kept(log, b, room, m + 1, Candidate(log, room, b - (m + 1), h))
    BY <2>2, <2>5, <2>6, CandidateKept
  <2> QED BY <2>1, <2>4, <2>6, <2>7
<1>4. Upto(p)
  <2> HIDE DEF Upto
  <2>1. 0 \in A /\ \A m \in Nat : m \in A => m + 1 \in A
    BY <1>2, <1>3
  <2> HIDE DEF A
  <2>2. p \in A
    BY <2>1, NumberInduction
  <2> QED BY <2>2 DEF A
<1> QED BY <1>4

LEMMA BoundedHistoryIs ==
  ASSUME NEW log \in Seq(Roles), NEW b \in 1..Len(log) + 1, NEW n \in Nat \ {0}, NEW room \in Nat,
         NEW p \in Nat, p < b, Page(b, n) = b - p..b - 1
  PROVE  \E h : Kept(log, b, room, p, h) /\ BoundedHistory(log, b, n, room) = h.selected
<1> DEFINE E == b - p..b - 1
           f == CHOOSE f : f = [s \in SUBSET E |->
                  IF s = {} THEN Nothing ELSE Candidate(log, room, Min(s), f[s \ {Min(s)}])]
<1>1. E \in SUBSET Nat /\ IsFiniteSet(E)
  <2>1. b - p \in Int /\ b - 1 \in Int
    OBVIOUS
  <2> QED BY <2>1, FS_Interval
<1>2. BoundedHistory(log, b, n, room) = f[E].selected
  BY DEF BoundedHistory, MapThenFoldSet, Nothing
<1>3. Bounds(log, room, f, SUBSET E)
  <2> HIDE DEF E, f
  <2>1. PICK m \in Nat : m = Cardinality(E)
    BY <1>1, FS_CardinalityType
  <2>2. OfAtMost(E, m) = SUBSET E
    BY <1>1, <2>1, FS_Subset DEF OfAtMost
  <2>3. \E g : Bounds(log, room, g, SUBSET E)
    <3>1. \E g : Bounds(log, room, g, OfAtMost(E, m))
      BY <1>1, BoundsOfSmall
    <3> QED BY <2>2, <3>1
  <2>4. PICK g : g = [s \in SUBSET E |->
                  IF s = {} THEN Nothing ELSE Candidate(log, room, Min(s), g[s \ {Min(s)}])]
    BY <2>3 DEF Bounds
  <2>5. f = [s \in SUBSET E |->
                  IF s = {} THEN Nothing ELSE Candidate(log, room, Min(s), f[s \ {Min(s)}])]
    BY <2>4 DEF f
  <2> QED BY <2>5 DEF Bounds
<1> HIDE DEF f
<1>4. Kept(log, b, room, p, f[E])
  BY <1>3, HistoryKept
<1> QED BY <1>2, <1>4

\* start_turn's _bounded_history: whatever the transcript and both limits, the messages a run is given are
\* the newest, without a hole, over neither limit, and one more would be over one of them.
THEOREM HistoryIsTheNewest ==
  ASSUME NEW log \in Seq(Roles), NEW b \in 1..Len(log) + 1, NEW n \in Nat \ {0}, NEW room \in Nat
  PROVE  Newest(log, b, n, room)
<1>1. PICK p \in Nat : p < b /\ Page(b, n) = b - p..b - 1 /\ p <= n /\ (p < n => p = b - 1)
  <2>1. b \in Nat \ {0}
    OBVIOUS
  <2>2. CASE b - 1 > n
    <3>1. n \in Nat /\ n < b /\ Page(b, n) = b - n..b - 1 /\ n <= n
      BY <2>1, <2>2, PageIs
    <3> QED BY <3>1
  <2>3. CASE ~(b - 1 > n)
    <3>1. b - 1 \in Nat /\ b - 1 < b /\ Page(b, n) = b - (b - 1)..b - 1 /\ b - 1 <= n
      BY <2>1, <2>3, PageIs
    <3> QED BY <3>1
  <2> QED BY <2>2, <2>3
<1>2. PICK h : Kept(log, b, room, p, h) /\ BoundedHistory(log, b, n, room) = h.selected
  BY <1>1, BoundedHistoryIs
<1>3. PICK k \in 0..p : /\ h.selected = b - k..b - 1 /\ Fits(log, b, room, k)
                        /\ k < p => ~Fits(log, b, room, k + 1)
  <2>1. CASE h = [full |-> FALSE, selected |-> b - p..b - 1] /\ Fits(log, b, room, p)
    <3>1. p \in 0..p /\ ~(p < p) /\ h.selected = b - p..b - 1
      BY <2>1
    <3> QED BY <2>1, <3>1
  <2>2. CASE \E k \in 0..p - 1 : /\ h = [full |-> TRUE, selected |-> b - k..b - 1]
                                 /\ Fits(log, b, room, k) /\ ~Fits(log, b, room, k + 1)
    BY <2>2
  <2> QED BY <1>2, <2>1, <2>2 DEF Kept
<1>4. PICK H : H = BoundedHistory(log, b, n, room)
  OBVIOUS
<1>5. H = b - k..b - 1
  BY <1>2, <1>3, <1>4
<1>6. Cardinality(H) = k
  <2>1. Cardinality(b - k..b - 1) = IF b - k > b - 1 THEN 0 ELSE b - 1 - (b - k) + 1
    <3>1. b - k \in Int /\ b - 1 \in Int
      OBVIOUS
    <3> QED BY <3>1, FS_Interval
  <2> QED BY <1>5, <2>1
<1>7. k <= n /\ Length(log, H) <= room
  BY <1>1, <1>3, <1>5 DEF Fits
<1>8. k < n /\ k < b - 1 => Length(log, b - k - 1..b - 1) > room
  <2> SUFFICES ASSUME k < n, k < b - 1 PROVE Length(log, b - k - 1..b - 1) > room
    OBVIOUS
  <2>1. k < p /\ b - k - 1 = b - (k + 1)
    BY <1>1
  <2>2. PICK t \in Int : t = Length(log, b - (k + 1)..b - 1)
    <3>1. b - (k + 1)..b - 1 \in SUBSET (1..Len(log))
      OBVIOUS
    <3>2. IsFiniteSet(b - (k + 1)..b - 1)
      <4>1. b - (k + 1) \in Int /\ b - 1 \in Int
        OBVIOUS
      <4> QED BY <4>1, FS_Interval
    <3> QED BY <3>1, <3>2, LengthType
  <2>3. ~(t <= room)
    BY <1>3, <2>1, <2>2 DEF Fits
  <2> QED BY <2>1, <2>2, <2>3
<1> QED BY <1>4, <1>5, <1>6, <1>7, <1>8 DEF Newest

(***************************************************************************)
(* The thread's own transcript is among those read back.                   *)
(***************************************************************************)

LEMMA EveryTranscriptIsReadable ==
  ASSUME NEW log \in Seq(Roles)
  PROVE  Readable(log)
<1> SUFFICES ASSUME NEW b \in 1..Len(log) + 1, NEW n \in 1..3, NEW room \in 0..2 * Len(log)
             PROVE  Partitioned(b, n) /\ Newest(log, b, n, room)
  <2>1. \A b \in 1..Len(log) + 1, n \in 1..3 : Partitioned(b, n)
    BY PagesShowEachMessageOnce
  <2> QED  BY <2>1 DEF Readable
<1>1. Len(log) \in Nat /\ b \in Nat \ {0} /\ n \in Nat \ {0} /\ room \in Nat
  OBVIOUS
<1>2. Partitioned(b, n)
  BY <1>1, PagesShowEachMessageOnce
<1>3. Newest(log, b, n, room)
  BY <1>1, HistoryIsTheNewest
<1> QED  BY <1>2, <1>3

LEMMA EveryThreadIsListed == ThreadsAreListed
<1> SUFFICES ASSUME NEW T \in Threads, NEW U \in Threads, NEW n \in 1..3
             PROVE  ListedOnce(T, U, n)
  BY DEF ThreadsAreListed
<1> DEFINE G == (1..2) \X (1..3)
<1>1. IsFiniteSet(1..2) /\ IsFiniteSet(1..3)
  <2>1. 1 \in Int /\ 2 \in Int /\ 3 \in Int
    OBVIOUS
  <2>2. IsFiniteSet(1..2)
    BY <2>1, FS_Interval
  <2>3. IsFiniteSet(1..3)
    BY <2>1, FS_Interval
  <2> QED  BY <2>2, <2>3
<1>2. IsFiniteSet(G)
  BY <1>1, FS_Product
<1>3. T \subseteq G /\ U \subseteq G
  BY DEF Threads
<1>4. G \subseteq Stamp
  BY DEF Stamp
<1>5. T \in SUBSET Stamp /\ U \in SUBSET Stamp
  BY <1>3, <1>4
<1>6. IsFiniteSet(T) /\ IsFiniteSet(U)
  BY <1>2, <1>3, FS_Subset
<1>7. n \in Nat \ {0}
  OBVIOUS
<1> QED  BY <1>5, <1>6, <1>7, ThreadsAreListedOnce

\* A turn says at most one thing in each role.
LEMMA SaidOnce ==
  ASSUME TypeOK, DbInv, NEW m \in messages, NEW k \in messages, m.turn = k.turn, m.role = k.role
  PROVE  m = k
<1>1. m.turn \in TurnId /\ m.role \in {"USER", "ASSISTANT"} /\ m.sequence \in Nat /\ k.sequence \in Nat
  BY DEF TypeOK, Message, Role
<1>2. m \in Said(m.turn, m.role) /\ k \in Said(m.turn, m.role)
  BY DEF Said
<1>3. CASE m.role = "USER"
  BY <1>1, <1>2, <1>3 DEF DbInv, AnswerFollowsQuestion
<1>4. CASE m.role = "ASSISTANT"
  <2>1. turns[m.turn].status = "COMPLETED"
    BY <1>1, <1>2, <1>4 DEF DbInv, AnswerFollowsQuestion
  <2>2. Said(m.turn, "USER") # {}
    BY <1>1, <2>1 DEF DbInv, AnswerFollowsQuestion
  <2>3. PICK q \in Said(m.turn, "USER") : TRUE
    BY <2>2
  <2>4. m.sequence = q.sequence + 1 /\ k.sequence = q.sequence + 1
    BY <1>1, <1>2, <1>4, <2>3 DEF DbInv, AnswerFollowsQuestion
  <2> QED  BY <2>4 DEF DbInv, TranscriptContiguous
<1> QED  BY <1>1, <1>3, <1>4

\* At most two messages of each turn.
LEMMA LogIsShort ==
  ASSUME TypeOK, DbInv, IsFiniteSet(TurnId)
  PROVE  Len(Log) <= 2 * Cardinality(TurnId)
<1>1. /\ Len(Log) \in Nat /\ DOMAIN Log = 1..Len(Log)
      /\ Log \in Seq([turn : TurnId, role : Role])
      /\ \A i \in DOMAIN Log : \E m \in messages :
           m.sequence = i /\ Log[i] = [turn |-> m.turn, role |-> m.role]
  BY LogType DEF DbInv
<1>2. PICK D : D = 1..Len(Log)
  OBVIOUS
<1>3. IsFiniteSet(D) /\ Cardinality(D) = Len(Log)
  <2>1. /\ IsFiniteSet(1..Len(Log))
        /\ Cardinality(1..Len(Log)) = IF 1 > Len(Log) THEN 0 ELSE Len(Log) - 1 + 1
    BY <1>1, FS_Interval
  <2> QED  BY <1>1, <1>2, <2>1
<1>4. PICK E : E = TurnId \X Role
  OBVIOUS
<1>5. IsFiniteSet(Role) /\ Cardinality(Role) = 2
  <2>1. Role = {"USER"} \cup {"ASSISTANT"}
    BY DEF Role
  <2>2. IsFiniteSet({"USER"}) /\ Cardinality({"USER"}) = 1
    BY FS_Singleton
  <2>3. IsFiniteSet({"USER"} \cup {"ASSISTANT"}) /\ Cardinality({"USER"} \cup {"ASSISTANT"}) = 2
    BY <2>2, FS_AddElement
  <2> QED  BY <2>1, <2>3
<1>6. IsFiniteSet(E) /\ Cardinality(E) = Cardinality(TurnId) * 2
  BY <1>4, <1>5, FS_Product
<1>7. PICK f : f = [i \in D |-> <<Log[i].turn, Log[i].role>>]
  OBVIOUS
<1>8. f \in Injection(D, E)
  <2>1. \A i \in D : Log[i].turn \in TurnId /\ Log[i].role \in Role
    BY <1>1, <1>2
  <2>2. f \in [D -> E]
    BY <1>4, <1>7, <2>1
  <2>3. ASSUME NEW i \in D, NEW j \in D, f[i] = f[j]
        PROVE  i = j
    <3>1. PICK m \in messages : m.sequence = i /\ Log[i] = [turn |-> m.turn, role |-> m.role]
      BY <1>1, <1>2
    <3>2. PICK k \in messages : k.sequence = j /\ Log[j] = [turn |-> k.turn, role |-> k.role]
      BY <1>1, <1>2
    <3>3. f[i] = <<m.turn, m.role>> /\ f[j] = <<k.turn, k.role>>
      BY <1>7, <3>1, <3>2
    <3>4. m.turn = k.turn /\ m.role = k.role
      <4>1. <<m.turn, m.role>> = <<k.turn, k.role>>
        BY <2>3, <3>3
      <4> QED  BY <4>1
    <3> QED  BY <3>1, <3>2, <3>4, SaidOnce
  <2> QED  BY <2>2, <2>3 DEF Injection, IsInjective
<1>9. Cardinality(D) <= Cardinality(E)
  BY <1>3, <1>6, <1>8, FS_Injection
<1>10. Cardinality(TurnId) \in Nat
  BY FS_CardinalityType
<1> QED  BY <1>3, <1>6, <1>9, <1>10

LEMMA StateIsReadable ==
  ASSUME TypeOK, DbInv, IsFiniteSet(TurnId)
  PROVE  HistoryIsExact
<1>1. PICK log : log = [i \in DOMAIN Log |-> Log[i].role]
  OBVIOUS
<1>2. PICK n \in Nat : n = Len(Log) /\ n <= 2 * Cardinality(TurnId) /\ DOMAIN Log = 1..n
  BY LogType, LogIsShort DEF DbInv
<1>3. log \in [1..n -> Roles]
  <2>1. Log \in Seq([turn : TurnId, role : Role])
    BY LogType DEF DbInv
  <2>2. \A i \in DOMAIN Log : Log[i] \in [turn : TurnId, role : Role]
    BY <1>2, <2>1, ElementOfSeq
  <2>3. ASSUME NEW i \in 1..n
        PROVE  Log[i].role \in Roles
    <3>1. Log[i] \in [turn : TurnId, role : Role]
      BY <1>2, <2>2
    <3>2. Log[i].role \in Role
      BY <3>1
    <3> QED  BY <3>2 DEF Role, Roles
  <2> QED  BY <1>1, <1>2, <2>3
<1>4. Readable(log)
  <2>1. log \in Seq(Roles)
    BY <1>3, SeqDef
  <2> QED  BY <2>1, EveryTranscriptIsReadable
<1>5. log \in SeqOf(Roles, 2 * Cardinality(TurnId))
  <2>1. 2 * Cardinality(TurnId) \in Nat
    BY FS_CardinalityType
  <2>2. n \in 0..2 * Cardinality(TurnId)
    BY <1>2, <2>1
  <2> QED  BY <1>3, <2>2 DEF SeqOf
<1>6. log \in ReadableLogs
  BY <1>4, <1>5 DEF ReadableLogs
<1> QED  BY <1>1, <1>6, EveryThreadIsListed DEF HistoryIsExact

\* HistoryIsExact for every finite set of turns (the thread's turns are named by uuid4): in every state of
\* the thread its transcript is one of those that list_messages and _bounded_history read back as they should.
THEOREM HistoryStaysExact ==
  ASSUME IsFiniteSet(TurnId)
  PROVE  Spec => []HistoryIsExact
<1>1. TypeInv /\ DbInv => HistoryIsExact
  BY StateIsReadable DEF TypeInv
<1> QED  BY <1>1, TypeInvariant, DbInvariant, PTL

=============================================================================
