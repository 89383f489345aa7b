--------------------------- MODULE ToolLoopProofs ---------------------------
(* Theorems about ToolLoop, for every set of tickers, every quota, every   *)
(* size of a response and whatever the model asks and declares.            *)
EXTENDS ToolLoop, SequenceTheorems, TLAPS

(***************************************************************************)
(* Type correctness.                                                       *)
(***************************************************************************)

LEMMA ConstantTypes ==
  /\ KeyOf(Market) \in Key /\ Market \in Call
  /\ NoResult \in Result
  /\ \A status \in Status : Refusal(status) \in Result
BY DEF KeyOf, Market, Key, Call, NoResult, Result, Refusal, Status

LEMMA BudgetType == TypeOK => ToolCalls \in Nat /\ ModelRequests = ToolCalls + 1
<1> SUFFICES ASSUME TypeOK PROVE ToolCalls \in Nat /\ ModelRequests = ToolCalls + 1
  OBVIOUS
<1>1. \A t \in Tool : LimitOf(t) \in Nat  BY LimitAssumption DEF LimitOf
<1>2. "quote" \in Tool /\ "market" \in Tool  BY DEF Tool
<1> QED  BY <1>1, <1>2 DEF ToolCalls, ModelRequests

LEMMA BatchType ==
  ASSUME TypeOK, NEW i \in DOMAIN batch
  PROVE  i \in 1..MaxBatch /\ i \in 1..Len(batch) /\ batch[i] \in Thread
<1>1. i \in 1..Len(batch)  BY DEF TypeOK
<1>2. Len(batch) \in Nat /\ Len(batch) <= MaxBatch  BY DEF TypeOK
<1> QED  BY <1>1, <1>2, LimitAssumption DEF TypeOK

\* A thread of the batch moves on; the batch stays a batch and the others stay.
LEMMA ThreadMoves ==
  ASSUME TypeOK, NEW i \in DOMAIN batch, NEW th \in Thread,
         batch' = [batch EXCEPT ![i] = th]
  PROVE  /\ batch' \in Seq(Thread) /\ Len(batch') = Len(batch) /\ DOMAIN batch' = DOMAIN batch
         /\ \A j \in DOMAIN batch : batch'[j] = IF j = i THEN th ELSE batch[j]
<1>1. batch \in Seq(Thread) /\ i \in 1..Len(batch)  BY BatchType DEF TypeOK
<1> QED  BY <1>1, ExceptSeq

LEMMA PhaseType ==
  ASSUME TypeOK, NEW i \in DOMAIN batch, NEW phase \in {"waiting", "recorded"},
         batch' = [batch EXCEPT ![i].phase = phase]
  PROVE  /\ batch' \in Seq(Thread) /\ Len(batch') = Len(batch) /\ DOMAIN batch' = DOMAIN batch
         /\ \A j \in DOMAIN batch : j # i => batch'[j] = batch[j]
         /\ batch'[i].phase = phase /\ batch'[i].call = batch[i].call
         /\ batch'[i].result = batch[i].result
<1> DEFINE th == [batch[i] EXCEPT !.phase = phase]
<1>1. /\ th \in Thread /\ th.phase = phase /\ th.call = batch[i].call
      /\ th.result = batch[i].result
  BY BatchType DEF Thread
<1>2. batch' = [batch EXCEPT ![i] = th]  OBVIOUS
<1> HIDE DEF th
<1> QED  BY <1>1, <1>2, ThreadMoves

LEMMA ExecutedType ==
  ASSUME TypeOK, NEW i \in DOMAIN batch, NEW result \in Result, batch' = Executed(i, result)
  PROVE  /\ batch' \in Seq(Thread) /\ Len(batch') = Len(batch) /\ DOMAIN batch' = DOMAIN batch
         /\ \A j \in DOMAIN batch : j # i => batch'[j] = batch[j]
         /\ batch'[i].phase = "executed" /\ batch'[i].call = batch[i].call
         /\ batch'[i].result = result
<1> DEFINE th == [batch[i] EXCEPT !.phase = "executed", !.result = result]
<1>1. /\ th \in Thread /\ th.phase = "executed" /\ th.call = batch[i].call
      /\ th.result = result
  BY BatchType DEF Thread
<1>2. batch' = [batch EXCEPT ![i] = th]  BY DEF Executed
<1> HIDE DEF th
<1> QED  BY <1>1, <1>2, ThreadMoves

LEMMA RunningType ==
  ASSUME TypeOK, NEW i \in DOMAIN batch, NEW auto \in BOOLEAN, batch' = Running(i, auto)
  PROVE  /\ batch' \in Seq(Thread) /\ Len(batch') = Len(batch) /\ DOMAIN batch' = DOMAIN batch
         /\ \A j \in DOMAIN batch : j # i => batch'[j] = batch[j]
         /\ batch'[i].phase = "running" /\ batch'[i].call = batch[i].call
         /\ batch'[i].auto = auto /\ batch'[i].result = batch[i].result
<1> DEFINE th == [batch[i] EXCEPT !.phase = "running", !.auto = auto]
<1>1. /\ th \in Thread /\ th.phase = "running" /\ th.call = batch[i].call
      /\ th.auto = auto /\ th.result = batch[i].result
  BY BatchType DEF Thread
<1>2. batch' = [batch EXCEPT ![i] = th]  BY DEF Running
<1> HIDE DEF th
<1> QED  BY <1>1, <1>2, ThreadMoves

LEMMA StatusType ==
  ASSUME NEW o \in {"OK", "NO_DATA", "RAISES", "INVALID"}
  PROVE  StatusOf(o) \in Status
BY DEF StatusOf, Status

LEMMA OutcomeType ==
  ASSUME TypeOK, NEW k \in Key
  PROVE  Outcomes(k) \subseteq {"OK", "NO_DATA", "RAISES", "INVALID"}
BY DEF TypeOK, Outcomes

LEMMA FetchType ==
  ASSUME TypeOK, NEW outcome, Fetch(outcome),
         \A k \in DOMAIN outcome : outcome[k] \in {"OK", "NO_DATA", "RAISES", "INVALID"}
  PROVE  cache' \in [Key -> {"NONE", "OK", "NO_DATA", "RAISES"}] /\ fetched' \in [Tool -> Nat]
BY DEF TypeOK, Fetch, Keeps

LEMMA RememberType ==
  ASSUME TypeOK, NEW results, Remember(results), \A c \in DOMAIN results : results[c] \in Result
  PROVE  observed' \in [Call -> Result]
BY DEF TypeOK, Remember

LEMMA KeyType ==
  ASSUME NEW c \in Call, WellFormed(c)
  PROVE  KeyOf(c) \in Key /\ ObservationKey(c) = c
<1>1. KeyOf(c) \in Key  BY NoTickerAssumption DEF KeyOf, Call, WellFormed, Key
<1>2. ObservationKey(c) = c  BY DEF Call, ObservationKey
<1> QED  BY <1>1, <1>2

(***************************************************************************)
(* The threads of a response and the lock.                                 *)
(***************************************************************************)

\* A thread that is past its start was offered its tool; one that runs is well
\* formed and holds the lock.
ThreadInv ==
  \A i \in DOMAIN batch :
    /\ batch[i].phase # "ready" => batch[i].call.tool \in Offered
    /\ batch[i].phase = "running" => WellFormed(batch[i].call) /\ lock = i

\* A lock that is held is held by a running thread.
LockInv == lock # 0 => lock \in DOMAIN batch /\ batch[lock].phase = "running"

\* Outside the tools the batch is empty, unless the run failed in them.
EmptyInv == pc \in {"request", "model", "check", "repair", "OK", "DEGRADED"} => batch = <<>>

TypeInv == TypeOK /\ ThreadInv /\ LockInv /\ EmptyInv

LEMMA InitType == Init => TypeInv
<1> SUFFICES ASSUME Init PROVE TypeInv
  OBVIOUS
<1>1. TypeOK
  <2>1. batch \in Seq(Thread) /\ Len(batch) <= MaxBatch
    BY LimitAssumption DEF Init
  <2>2. candidate \in Candidate  BY DEF Init, Candidate
  <2>3. lock \in 0..MaxBatch  BY LimitAssumption DEF Init
  <2>4. observed \in [Call -> Result]  BY ConstantTypes DEF Init
  <2> QED  BY <2>1, <2>2, <2>3, <2>4 DEF Init, TypeOK
<1>2. ThreadInv /\ LockInv /\ EmptyInv  BY DEF Init, ThreadInv, LockInv, EmptyInv
<1> QED  BY <1>1, <1>2 DEF TypeInv

\* A step that moves the run, and the clock or the candidate with it, only.
LEMMA RunMovesType ==
  ASSUME TypeInv, pc' \in {"model", "tools", "closing", "check", "repair"} \cup Ended,
         pc' \in {"model", "check", "repair", "OK", "DEGRADED"} => batch = <<>>,
         late' \in BOOLEAN, candidate' \in Candidate,
         UNCHANGED <<exposed, requests, invocation, finalOnly, batch, lock,
                     session, executor, record>>
  PROVE  TypeInv'
<1>1. TypeOK'  BY DEF TypeInv, TypeOK, session, executor, record
<1>2. ThreadInv'  BY DEF TypeInv, ThreadInv, Offered
<1>3. LockInv' /\ EmptyInv'  BY DEF TypeInv, LockInv, EmptyInv, Ended
<1> QED  BY <1>1, <1>2, <1>3 DEF TypeInv

LEMMA AskModelType == TypeInv /\ AskModel => TypeInv'
<1> SUFFICES ASSUME TypeInv, AskModel PROVE TypeInv'
  OBVIOUS
<1>1. batch = <<>>  BY DEF TypeInv, EmptyInv, AskModel
<1>2. TypeOK'
  <2>1. finalOnly' \in BOOLEAN  BY DEF TypeInv, TypeOK, AskModel, Hides
  <2>2. requests' \in Nat /\ pc' \in {"closing", "model"}  BY DEF TypeInv, TypeOK, AskModel
  <2>3. UNCHANGED <<exposed, invocation, late, candidate, batch, lock, session, executor, record>>
    BY DEF AskModel
  <2> QED  BY <2>1, <2>2, <2>3 DEF TypeInv, TypeOK, session, executor, record
<1>3. ThreadInv' /\ LockInv' /\ EmptyInv'
  BY <1>1 DEF TypeInv, AskModel, ThreadInv, LockInv, EmptyInv
<1> QED  BY <1>2, <1>3 DEF TypeInv

LEMMA RespondType == TypeInv /\ Respond => TypeInv'
<1> SUFFICES ASSUME TypeInv, Respond PROVE TypeInv'
  OBVIOUS
<1>1. PICK n \in 0..MaxBatch, final \in Candidate :
        /\ n > 0 \/ final # <<>>
        /\ candidate' = final
        /\ \E calls \in [1..n -> Asked] :
             batch' = [i \in 1..n |->
                         [call |-> calls[i], admitted |-> Admitted(i), auto |-> FALSE,
                          phase |-> "ready", result |-> NoResult]]
        /\ invocation' = Admissions(n)
  BY DEF Respond
<1>2. PICK calls \in [1..n -> Asked] :
        batch' = [i \in 1..n |->
                    [call |-> calls[i], admitted |-> Admitted(i), auto |-> FALSE,
                     phase |-> "ready", result |-> NoResult]]
  BY <1>1
<1>3. n \in Nat /\ n <= MaxBatch  BY LimitAssumption
<1>4. \A i \in 1..n : [call |-> calls[i], admitted |-> Admitted(i), auto |-> FALSE,
                        phase |-> "ready", result |-> NoResult] \in Thread
  <2> TAKE i \in 1..n
  <2>1. calls[i] \in Call  BY InputAssumption
  <2>2. Admitted(i) \in BOOLEAN  BY DEF Admitted
  <2> QED  BY <2>1, <2>2, ConstantTypes DEF Thread
<1>5. batch' \in [1..n -> Thread]  BY <1>2, <1>4
<1>6. batch' \in Seq(Thread) /\ Len(batch') = n /\ DOMAIN batch' = 1..n
  BY <1>3, <1>5
<1>7. lock = 0 /\ lock' = 0
  BY DEF TypeInv, EmptyInv, LockInv, Respond
<1>8. invocation' \in Nat
  <2>1. ToolCalls \in Nat  BY BudgetType DEF TypeInv
  <2> QED  BY <1>1, <1>3, <2>1 DEF TypeInv, TypeOK, Admissions
<1>9. TypeOK'
  BY <1>1, <1>3, <1>6, <1>8 DEF TypeInv, TypeOK, Respond, session, executor, record
<1>10. ThreadInv'  BY <1>2, <1>6 DEF ThreadInv
<1>11. LockInv' /\ EmptyInv'  BY <1>7 DEF LockInv, EmptyInv, Respond
<1> QED  BY <1>9, <1>10, <1>11 DEF TypeInv

LEMMA ToolsDoneType == TypeInv /\ ToolsDone => TypeInv'
<1> SUFFICES ASSUME TypeInv, ToolsDone PROVE TypeInv'
  OBVIOUS
<1>1. lock = 0 /\ lock' = 0  BY DEF TypeInv, LockInv, ToolsDone
<1>2. batch' \in Seq(Thread) /\ Len(batch') = 0 /\ batch' = <<>>  BY DEF ToolsDone
<1>3. TypeOK'
  BY <1>2, LimitAssumption DEF TypeInv, TypeOK, ToolsDone, session, executor, record
<1>4. ThreadInv' /\ LockInv' /\ EmptyInv'
  BY <1>1, <1>2 DEF ThreadInv, LockInv, EmptyInv, ToolsDone
<1> QED  BY <1>3, <1>4 DEF TypeInv

LEMMA StartType ==
  ASSUME TypeInv, NEW i \in DOMAIN batch, Start(i)
  PROVE  TypeInv'
<1>1. CASE late
  BY <1>1, RunMovesType DEF TypeInv, TypeOK, Start
<1>2. CASE ~late
  <2>1. /\ batch' \in Seq(Thread) /\ Len(batch') = Len(batch) /\ DOMAIN batch' = DOMAIN batch
        /\ \A j \in DOMAIN batch : j # i => batch'[j] = batch[j]
        /\ batch'[i].phase \in {"waiting", "executed"} /\ batch'[i].call = batch[i].call
    <3>1. CASE batch[i].admitted
      BY <1>2, <3>1, PhaseType DEF TypeInv, Start
    <3>2. CASE ~batch[i].admitted
      <4>1. Refusal("TOOL_ATTEMPT_BUDGET_EXHAUSTED") \in Result  BY ConstantTypes DEF Status
      <4> QED  BY <1>2, <3>2, <4>1, ExecutedType DEF TypeInv, Start
    <3> QED  BY <3>1, <3>2
  <2>2. TypeOK'
    BY <1>2, <2>1 DEF TypeInv, TypeOK, Start, session, executor, record
  <2>3. ThreadInv'  BY <2>1 DEF TypeInv, ThreadInv, Start, Offered
  <2>4. LockInv' /\ EmptyInv'
    BY <1>2, <2>1 DEF TypeInv, LockInv, EmptyInv, Start
  <2> QED  BY <2>2, <2>3, <2>4 DEF TypeInv
<1> QED  BY <1>1, <1>2

LEMMA EarlyType ==
  ASSUME TypeInv, NEW c \in Call
  PROVE  /\ Early(c) \in Result
         /\ Early(c) = NoResult => /\ WellFormed(c) /\ Required(c) \subseteq exposed
                                  /\ \A t \in Required(c) : used[t] < Limit[t]
<1> DEFINE quota == \E t \in Required(c) : used[t] >= Limit[t]
<1>1. ObservationKey(c) \in Call  BY DEF ObservationKey, Call
<1>2. observed[ObservationKey(c)] \in Result  BY <1>1 DEF TypeInv, TypeOK
<1>3. /\ Refusal("INVALID_ARGUMENTS") \in Result
      /\ Refusal("REQUIRED_CONTEXT_UNAUTHORIZED") \in Result
      /\ Refusal("TOOL_QUOTA_EXHAUSTED") \in Result
      /\ NoResult \in Result
  BY ConstantTypes DEF Status
<1>4. /\ Refusal("INVALID_ARGUMENTS") # NoResult
      /\ Refusal("REQUIRED_CONTEXT_UNAUTHORIZED") # NoResult
      /\ Refusal("TOOL_QUOTA_EXHAUSTED") # NoResult
  BY DEF Refusal, NoResult
<1>5. Early(c) \in Result  BY <1>2, <1>3 DEF Early
<1>6. ASSUME Early(c) = NoResult
      PROVE  WellFormed(c) /\ Required(c) \subseteq exposed /\ ~quota
  BY <1>4, <1>6 DEF Early
<1>7. ASSUME ~quota, Required(c) \subseteq exposed
      PROVE  \A t \in Required(c) : used[t] < Limit[t]
  <2> TAKE t \in Required(c)
  <2>1. t \in Tool  BY <1>7 DEF TypeInv, TypeOK
  <2>2. used[t] \in Nat /\ Limit[t] \in Nat  BY <2>1, LimitAssumption DEF TypeInv, TypeOK
  <2> QED  BY <1>7, <2>2
<1> QED  BY <1>5, <1>6, <1>7

LEMMA EnterType ==
  ASSUME TypeInv, NEW i \in DOMAIN batch, Enter(i)
  PROVE  TypeInv'
<1> DEFINE c == batch[i].call
<1>1. batch[i] \in Thread /\ i \in 1..MaxBatch /\ i # 0  BY BatchType DEF TypeInv
<1>2. c \in Call  BY <1>1 DEF Thread
<1>3. Early(c) \in Result /\ (Early(c) = NoResult => WellFormed(c))  BY <1>2, EarlyType
<1>4. BringsMarket(c) \in BOOLEAN  BY DEF BringsMarket
<1>5. UNCHANGED <<run, marketObserved, observed, executor, record>> /\ lock = 0
  BY DEF Enter
<1>6. \A j \in DOMAIN batch : batch[j].phase # "running"
  BY <1>5, BatchType DEF TypeInv, ThreadInv
<1>7. Offered' = Offered  BY <1>5 DEF run, Offered
<1>8. c.tool \in Offered  BY DEF TypeInv, ThreadInv, Enter
<1>9. CASE Early(c) # NoResult
  <2>1. batch' = Executed(i, Early(c)) /\ UNCHANGED <<lock, used>>  BY <1>9 DEF Enter
  <2>2. /\ batch' \in Seq(Thread) /\ Len(batch') = Len(batch) /\ DOMAIN batch' = DOMAIN batch
        /\ \A j \in DOMAIN batch : j # i => batch'[j] = batch[j]
        /\ batch'[i].phase = "executed" /\ batch'[i].call = c
    BY <1>3, <2>1, ExecutedType DEF TypeInv
  <2>3. TypeOK'
    BY <1>5, <2>1, <2>2 DEF TypeInv, TypeOK, run, executor, record
  <2>4. ThreadInv'  BY <1>7, <1>8, <2>1, <2>2 DEF TypeInv, ThreadInv
  <2>5. LockInv' /\ EmptyInv'  BY <1>5, <2>1, <2>2 DEF TypeInv, LockInv, EmptyInv, run
  <2> QED  BY <2>3, <2>4, <2>5 DEF TypeInv
<1>10. CASE Early(c) = NoResult
  <2>1. /\ batch' = Running(i, BringsMarket(c)) /\ lock' = i
        /\ used' = [t \in Tool |-> used[t] + IF t \in Required(c) THEN 1 ELSE 0]
    BY <1>10 DEF Enter
  <2>2. /\ batch' \in Seq(Thread) /\ Len(batch') = Len(batch) /\ DOMAIN batch' = DOMAIN batch
        /\ \A j \in DOMAIN batch : j # i => batch'[j] = batch[j]
        /\ batch'[i].phase = "running" /\ batch'[i].call = c
    BY <1>4, <2>1, RunningType DEF TypeInv
  <2>3. TypeOK'
    <3>1. used' \in [Tool -> Nat]
      <4>1. \A t \in Tool : used[t] + (IF t \in Required(c) THEN 1 ELSE 0) \in Nat
        BY DEF TypeInv, TypeOK
      <4> QED  BY <2>1, <4>1
    <3> QED  BY <1>1, <1>5, <2>1, <2>2, <3>1 DEF TypeInv, TypeOK, run, executor, record
  <2>4. ThreadInv'
    BY <1>3, <1>6, <1>7, <1>8, <1>10, <2>1, <2>2 DEF TypeInv, ThreadInv
  <2>5. LockInv' /\ EmptyInv'  BY <1>5, <2>1, <2>2 DEF TypeInv, LockInv, EmptyInv, run
  <2> QED  BY <2>3, <2>4, <2>5 DEF TypeInv
<1> QED  BY <1>9, <1>10

\* What the provider's part of Finish has in common.
LEMMA AnsweredType ==
  ASSUME TypeInv, NEW i \in DOMAIN batch, batch[i].phase = "running",
         NEW outcome, Fetch(outcome),
         \A k \in DOMAIN outcome : outcome[k] \in {"OK", "NO_DATA", "RAISES", "INVALID"},
         NEW result \in Result, batch' = Executed(i, result),
         observed' \in [Call -> Result], marketObserved' \in BOOLEAN,
         lock' = 0, UNCHANGED <<run, used, record>>
  PROVE  TypeInv'
<1>1. /\ batch' \in Seq(Thread) /\ Len(batch') = Len(batch) /\ DOMAIN batch' = DOMAIN batch
      /\ \A j \in DOMAIN batch : j # i => batch'[j] = batch[j]
      /\ batch'[i].phase = "executed" /\ batch'[i].call = batch[i].call
  BY ExecutedType DEF TypeInv
<1>2. cache' \in [Key -> {"NONE", "OK", "NO_DATA", "RAISES"}] /\ fetched' \in [Tool -> Nat]
  BY FetchType DEF TypeInv
<1>3. TypeOK'
  <2>1. lock' \in 0..MaxBatch  BY LimitAssumption
  <2> QED  BY <1>1, <1>2, <2>1 DEF TypeInv, TypeOK, run, record
<1>4. ThreadInv'
  <2>1. \A j \in DOMAIN batch : j # i => batch[j].phase # "running"
    BY DEF TypeInv, ThreadInv
  <2>2. Offered' = Offered  BY DEF run, Offered
  <2>3. batch[i].call.tool \in Offered  BY DEF TypeInv, ThreadInv
  <2> QED  BY <1>1, <2>1, <2>2, <2>3 DEF TypeInv, ThreadInv
<1>5. LockInv'  BY DEF LockInv
<1>6. EmptyInv'  BY <1>1 DEF TypeInv, EmptyInv, run
<1> QED  BY <1>3, <1>4, <1>5, <1>6 DEF TypeInv

LEMMA SourceType ==
  ASSUME NEW k \in Key, NEW o
  PROVE  SourceOf(k, o) \in Source
BY DEF SourceOf, Source

LEMMA FinishAloneType ==
  ASSUME TypeInv, NEW i \in DOMAIN batch, batch[i].phase = "running", FinishAlone(i),
         lock' = 0, UNCHANGED <<run, used, record>>
  PROVE  TypeInv'
<1> DEFINE c == batch[i].call
           k == KeyOf(c)
           result(o) == [status |-> StatusOf(o),
                         sources |-> IF Keeps(k, o) THEN {SourceOf(k, o)} ELSE {}]
<1>1. c \in Call /\ WellFormed(c)
  BY BatchType DEF TypeInv, ThreadInv, Thread
<1>2. k \in Key /\ ObservationKey(c) = c  BY <1>1, KeyType
<1>3. PICK o \in Outcomes(k) :
        /\ batch' = Executed(i, result(o))
        /\ Fetch(Only(k, o))
        /\ IF Keeps(k, o) THEN Remember(Only(ObservationKey(c), result(o))) ELSE UNCHANGED observed
  BY DEF FinishAlone
<1>4. o \in {"OK", "NO_DATA", "RAISES", "INVALID"}  BY <1>2, OutcomeType DEF TypeInv
<1>5. result(o) \in Result
  <2>1. StatusOf(o) \in Status  BY <1>4, StatusType
  <2>2. SourceOf(k, o) \in Source  BY <1>2, SourceType
  <2> QED  BY <2>1, <2>2 DEF Result
<1>6. observed' \in [Call -> Result]
  <2>1. CASE Keeps(k, o)
    <3> DEFINE results == Only(ObservationKey(c), result(o))
    <3>1. \A d \in DOMAIN results : results[d] \in Result  BY <1>5 DEF Only
    <3>2. Remember(results)  BY <1>3, <2>1
    <3> HIDE DEF results
    <3> QED  BY <3>1, <3>2, RememberType DEF TypeInv
  <2>2. CASE ~Keeps(k, o)  BY <1>3, <2>2 DEF TypeInv, TypeOK
  <2> QED  BY <2>1, <2>2
<1>7. marketObserved' \in BOOLEAN  BY DEF FinishAlone
<1>8. \A d \in DOMAIN Only(k, o) : Only(k, o)[d] \in {"OK", "NO_DATA", "RAISES", "INVALID"}
  BY <1>4 DEF Only
<1> HIDE DEF k, result
<1> QED  BY <1>3, <1>5, <1>6, <1>7, <1>8, AnsweredType

LEMMA FinishWithMarketType ==
  ASSUME TypeInv, NEW i \in DOMAIN batch, batch[i].phase = "running", FinishWithMarket(i),
         lock' = 0, UNCHANGED <<run, used, record>>
  PROVE  TypeInv'
<1> DEFINE c == batch[i].call
           k == KeyOf(c)
           market(m) == [status |-> StatusOf(m), sources |-> {SourceOf(MarketKey, m)}]
           result(o, m) == [status |-> IF m = "OK" THEN o ELSE "DEGRADED",
                            sources |-> {SourceOf(k, o)}
                                          \cup IF batch[i].auto THEN market(m).sources ELSE {}]
<1>1. c \in Call /\ WellFormed(c)
  BY BatchType DEF TypeInv, ThreadInv, Thread
<1>2. k \in Key /\ MarketKey \in Key  BY <1>1, KeyType, ConstantTypes DEF MarketKey
<1>3. PICK o \in Outcomes(k) \cap {"OK", "NO_DATA"}, m \in Outcomes(MarketKey) :
        /\ batch' = Executed(i, result(o, m))
        /\ Fetch(Both(k, o, MarketKey, m))
        /\ Remember(Both(ObservationKey(c), result(o, m), Market, market(m)))
        /\ marketObserved' = (marketObserved \/ batch[i].auto)
  BY DEF FinishWithMarket
<1>4. m \in {"OK", "NO_DATA", "RAISES", "INVALID"}  BY <1>2, OutcomeType DEF TypeInv
<1>5. market(m) \in Result
  <2>1. StatusOf(m) \in Status  BY <1>4, StatusType
  <2>2. SourceOf(MarketKey, m) \in Source  BY <1>2, SourceType
  <2> QED  BY <2>1, <2>2 DEF Result
<1>6. result(o, m) \in Result
  <2>1. (IF m = "OK" THEN o ELSE "DEGRADED") \in Status  BY <1>3 DEF Status
  <2>2. SourceOf(k, o) \in Source  BY <1>2, SourceType
  <2>3. SourceOf(MarketKey, m) \in Source  BY <1>2, SourceType
  <2> QED  BY <2>1, <2>2, <2>3 DEF Result
<1>7. observed' \in [Call -> Result]
  <2> DEFINE results == Both(ObservationKey(c), result(o, m), Market, market(m))
  <2>1. \A d \in DOMAIN results : results[d] \in Result
    <3> HIDE DEF result, market
    <3> QED  BY <1>5, <1>6 DEF Both
  <2>2. Remember(results)  BY <1>3
  <2> HIDE DEF results
  <2> QED  BY <2>1, <2>2, RememberType DEF TypeInv
<1>8. marketObserved' \in BOOLEAN  BY <1>3
<1> DEFINE outcome == Both(k, o, MarketKey, m)
<1>9. \A d \in DOMAIN outcome : outcome[d] \in {"OK", "NO_DATA", "RAISES", "INVALID"}
  BY <1>3, <1>4 DEF Both
<1>10. Fetch(outcome)  BY <1>3
<1> HIDE DEF outcome, result
<1> QED  BY <1>3, <1>6, <1>7, <1>8, <1>9, <1>10, AnsweredType

LEMMA RecordType ==
  ASSUME TypeInv, NEW i \in DOMAIN batch, Record(i)
  PROVE  TypeInv'
<1>1. /\ batch' \in Seq(Thread) /\ Len(batch') = Len(batch) /\ DOMAIN batch' = DOMAIN batch
      /\ \A j \in DOMAIN batch : j # i => batch'[j] = batch[j]
      /\ batch'[i].phase = "recorded" /\ batch'[i].call = batch[i].call
  BY PhaseType DEF TypeInv, Record
<1>2. trace' \subseteq [call : Call, status : Status] /\ sources' \subseteq Source
  <2>1. batch[i].call \in Call /\ batch[i].result \in Result  BY BatchType DEF TypeInv, Thread
  <2>2. /\ [call |-> batch[i].call, status |-> batch[i].result.status]
              \in [call : Call, status : Status]
        /\ batch[i].result.sources \subseteq Source
    BY <2>1 DEF Result
  <2> QED  BY <2>2 DEF TypeInv, TypeOK, Record
<1>3. UNCHANGED <<exposed, requests, invocation, finalOnly, late, candidate, lock, session, executor>>
  BY DEF Record
<1>4. TypeOK'
  <2>1. pc' \in {"request", "model", "tools", "closing", "check", "repair"} \cup Ended
    BY DEF TypeInv, TypeOK, Record
  <2> QED  BY <1>1, <1>2, <1>3, <2>1 DEF TypeInv, TypeOK, session, executor
<1>5. ThreadInv'
  <2>1. Offered' = Offered  BY <1>3 DEF Offered
  <2>2. batch[i].call.tool \in Offered  BY DEF TypeInv, ThreadInv, Record
  <2> QED  BY <1>1, <1>3, <2>1, <2>2 DEF TypeInv, ThreadInv
<1>6. LockInv'  BY <1>1, <1>3 DEF TypeInv, LockInv, Record
<1>7. EmptyInv'
  <2>1. batch # <<>>  OBVIOUS
  <2>2. pc' # "closing" => pc' = pc  BY DEF Record
  <2> QED  BY <2>1, <2>2 DEF TypeInv, EmptyInv
<1> QED  BY <1>4, <1>5, <1>6, <1>7 DEF TypeInv

LEMMA WorkType ==
  ASSUME TypeInv, NEW i \in 1..MaxBatch, Work(i)
  PROVE  TypeInv'
<1>1. i \in DOMAIN batch  BY DEF Work
<1>2. CASE Start(i)  BY <1>1, <1>2, StartType
<1>3. CASE Enter(i)  BY <1>1, <1>3, EnterType
<1>4. CASE Finish(i)
  <2>1. batch[i].phase = "running" /\ lock' = 0 /\ UNCHANGED <<run, used, record>>
    BY <1>4 DEF Finish
  <2>2. CASE FinishAlone(i)  BY <1>1, <2>1, <2>2, FinishAloneType
  <2>3. CASE FinishWithMarket(i)  BY <1>1, <2>1, <2>3, FinishWithMarketType
  <2> QED  BY <1>4, <2>2, <2>3 DEF Finish
<1>5. CASE Record(i)  BY <1>1, <1>5, RecordType
<1> QED  BY <1>2, <1>3, <1>4, <1>5 DEF Work

LEMMA StepType == TypeInv /\ [Next]_vars => TypeInv'
<1> SUFFICES ASSUME TypeInv, [Next]_vars PROVE TypeInv'
  OBVIOUS
<1>1. CASE AskModel  BY <1>1, AskModelType
<1>2. CASE Respond  BY <1>2, RespondType
<1>3. CASE ToolsDone  BY <1>3, ToolsDoneType
<1>4. CASE ModelFails \/ RejectCall \/ Timeout
  BY <1>4, RunMovesType DEF TypeInv, TypeOK, ModelFails, RejectCall, Timeout
<1>5. CASE Close
  BY <1>5, RunMovesType DEF TypeInv, TypeOK, Close, Ended
<1>6. CASE Tick
  <2>1. UNCHANGED <<exposed, pc, requests, invocation, finalOnly, candidate, batch, lock,
                    session, executor, record>> /\ late' \in BOOLEAN
    BY <1>6 DEF Tick
  <2>2. TypeOK'  BY <2>1 DEF TypeInv, TypeOK, session, executor, record
  <2>3. ThreadInv' /\ LockInv' /\ EmptyInv'
    BY <2>1 DEF TypeInv, ThreadInv, LockInv, EmptyInv, Offered
  <2> QED  BY <2>2, <2>3 DEF TypeInv
<1>7. CASE CheckCandidate
  <2>1. batch = <<>>  BY <1>7 DEF TypeInv, EmptyInv, CheckCandidate
  <2>2. pc' \in {"repair"} \cup Ended  BY <1>7 DEF CheckCandidate, Validate, Deliver, Ended
  <2> QED  BY <1>7, <2>1, <2>2, RunMovesType DEF TypeInv, TypeOK, CheckCandidate
<1>8. CASE Repair
  <2>1. pc' \in Ended  BY <1>8 DEF Repair, Deliver, Ended
  <2>2. candidate' \in Candidate  BY <1>8 DEF Repair, Candidate
  <2>3. batch = <<>>  BY <1>8 DEF TypeInv, EmptyInv, Repair
  <2> QED  BY <1>8, <2>1, <2>2, <2>3, RunMovesType DEF TypeInv, TypeOK, Repair
<1>9. CASE \E i \in 1..MaxBatch : Work(i)  BY <1>9, WorkType
<1>10. CASE Rest \/ UNCHANGED vars
  <2>1. UNCHANGED vars  BY <1>10 DEF Rest
  <2>2. TypeOK'  BY <2>1 DEF TypeInv, TypeOK, vars, run, session, executor, record
  <2>3. ThreadInv' /\ LockInv' /\ EmptyInv'
    BY <2>1 DEF TypeInv, ThreadInv, LockInv, EmptyInv, Offered, vars, run
  <2> QED  BY <2>2, <2>3 DEF TypeInv
<1> QED  BY <1>1, <1>2, <1>3, <1>4, <1>5, <1>6, <1>7, <1>8, <1>9, <1>10 DEF Next

LEMMA TypeInvariant == Spec => []TypeInv
<1> QED  BY InitType, StepType, PTL DEF Spec

\* Every variable keeps its type (the dataclasses of _ToolBridge,
\* _AuthorizedToolSession and FinancialToolExecutor).
THEOREM ToolLoopTypeCorrect == Spec => []TypeOK
<1>1. TypeInv => TypeOK  BY DEF TypeInv
<1> QED  BY <1>1, TypeInvariant, PTL

(***************************************************************************)
(* The request that is kept for the final answer.                          *)
(***************************************************************************)

\* Every request that comes back for another one has had a call admitted, so the
\* requests made never outnumber the admissions while tools are offered.
HeadroomInv ==
  /\ invocation <= ToolCalls
  /\ pc = "request" => requests <= invocation
  /\ pc = "model" => requests <= invocation + 1 /\ (invocation >= ToolCalls => Offered = {})
  /\ pc = "tools" /\ candidate = <<>> =>
       batch # <<>> /\ (Offered # {} => requests <= invocation)

LEMMA InitHeadroom == Init => HeadroomInv
<1> SUFFICES ASSUME Init PROVE HeadroomInv
  OBVIOUS
<1>1. ToolCalls \in Nat
  <2>1. TypeOK  BY InitType DEF TypeInv
  <2> QED  BY <2>1, BudgetType
<1> QED  BY <1>1 DEF Init, HeadroomInv

\* A step inside the tools that leaves the counts, or one out of them to a state
\* that asks for no more.
LEMMA QuietHeadroom ==
  ASSUME HeadroomInv, UNCHANGED <<exposed, requests, invocation, finalOnly>>,
         \/ pc' \in {"closing", "check", "repair"} \cup Ended
         \/ pc' = pc /\ candidate' = candidate /\ (pc = "tools" => batch' # <<>> \/ batch' = batch)
  PROVE  HeadroomInv'
<1>1. ToolCalls' = ToolCalls /\ Offered' = Offered  BY DEF ToolCalls, LimitOf, Offered
<1> QED  BY <1>1 DEF HeadroomInv, Ended

LEMMA StepHeadroom == TypeInv /\ HeadroomInv /\ [Next]_vars => HeadroomInv'
<1> SUFFICES ASSUME TypeInv, HeadroomInv, [Next]_vars PROVE HeadroomInv'
  OBVIOUS
<1>1. ToolCalls \in Nat /\ ModelRequests = ToolCalls + 1  BY BudgetType DEF TypeInv
<1>2. requests \in Nat /\ invocation \in Nat  BY DEF TypeInv, TypeOK
<1>3. UNCHANGED exposed => ToolCalls' = ToolCalls  BY DEF ToolCalls, LimitOf
<1>4. CASE AskModel
  <2>1. requests <= invocation /\ invocation <= ToolCalls  BY <1>4 DEF HeadroomInv, AskModel
  <2>2. pc' = "model" /\ requests' = requests + 1 /\ finalOnly' = (finalOnly \/ Hides)
    BY <1>1, <1>2, <1>4, <2>1 DEF AskModel
  <2>3. UNCHANGED <<exposed, invocation>>  BY <1>4 DEF AskModel
  <2>4. invocation >= ToolCalls => Offered' = {}
    BY <2>2, <2>3 DEF Offered, Hides
  <2> QED  BY <1>2, <1>3, <2>1, <2>2, <2>3, <2>4 DEF HeadroomInv
<1>5. CASE Respond
  <2>1. PICK n \in 0..MaxBatch, final \in Candidate :
          /\ n > 0 \/ final # <<>>
          /\ candidate' = final
          /\ \E calls \in [1..n -> Asked] :
               batch' = [i \in 1..n |->
                           [call |-> calls[i], admitted |-> Admitted(i), auto |-> FALSE,
                            phase |-> "ready", result |-> NoResult]]
          /\ invocation' = Admissions(n)
    BY <1>5 DEF Respond
  <2>2. pc = "model" /\ pc' = "tools" /\ UNCHANGED <<exposed, requests, finalOnly>>
    BY <1>5 DEF Respond
  <2>3. n \in Nat /\ finalOnly \in BOOLEAN  BY LimitAssumption DEF TypeInv, TypeOK
  <2>4. invocation' <= ToolCalls
    BY <1>1, <1>2, <2>1, <2>3 DEF HeadroomInv, Admissions, Admitted
  <2>5. candidate' = <<>> => batch' # <<>>
    <3> SUFFICES ASSUME candidate' = <<>> PROVE batch' # <<>>
      OBVIOUS
    <3>1. n > 0  BY <2>1
    <3>2. 1 \in DOMAIN batch'  BY <2>1, <2>3, <3>1
    <3> QED  BY <3>2
  <2>6. candidate' = <<>> /\ Offered # {} => requests <= invocation'
    <3> SUFFICES ASSUME candidate' = <<>>, Offered # {} PROVE requests <= invocation'
      OBVIOUS
    <3>1. n > 0 /\ ~finalOnly  BY <2>1 DEF Offered
    <3>2. invocation < ToolCalls /\ requests <= invocation + 1
      BY <1>1, <1>2, <2>2 DEF HeadroomInv
    <3> QED  BY <1>1, <1>2, <2>1, <2>3, <3>1, <3>2 DEF Admissions, Admitted
  <2>7. Offered' = Offered  BY <2>2 DEF Offered
  <2> QED  BY <1>3, <2>2, <2>4, <2>5, <2>6, <2>7 DEF HeadroomInv
<1>6. CASE ToolsDone
  <2>1. UNCHANGED <<exposed, requests, invocation, finalOnly, candidate>>  BY <1>6 DEF ToolsDone
  <2>2. CASE candidate = <<>>
    <3>1. pc = "tools" /\ pc' = "request" /\ batch # <<>>
      BY <1>6, <2>2 DEF ToolsDone, HeadroomInv
    <3>2. PICK i \in DOMAIN batch : TRUE
      <4>1. batch \in Seq(Thread)  BY DEF TypeInv, TypeOK
      <4>2. Len(batch) # 0  BY <3>1, <4>1, EmptySeq
      <4>3. 1 \in DOMAIN batch  BY <4>1, <4>2
      <4> QED  BY <4>3
    <3>3. batch[i].call.tool \in Offered  BY <1>6, <3>2 DEF ToolsDone, TypeInv, ThreadInv
    <3> QED  BY <1>3, <2>1, <2>2, <3>1, <3>3 DEF HeadroomInv
  <2>3. CASE candidate # <<>>
    BY <1>6, <2>1, <2>3, QuietHeadroom DEF ToolsDone
  <2> QED  BY <2>2, <2>3
<1>7. CASE ModelFails \/ RejectCall \/ Timeout \/ Close \/ Tick
  BY <1>7, QuietHeadroom DEF ModelFails, RejectCall, Timeout, Close, Tick, Ended
<1>8. CASE CheckCandidate \/ Repair
  BY <1>8, QuietHeadroom DEF CheckCandidate, Validate, Repair, Deliver, Ended
<1>9. CASE \E i \in 1..MaxBatch : Work(i)
  <2>1. PICK i \in 1..MaxBatch : Work(i)  BY <1>9
  <2>2. i \in DOMAIN batch  BY <2>1 DEF Work
  <2>3. /\ UNCHANGED <<exposed, requests, invocation, finalOnly, candidate>>
        /\ pc' = pc \/ pc' = "closing"
    BY <2>1 DEF Work, Start, Enter, Finish, Record, run
  <2>4. batch' = batch \/ i \in DOMAIN batch'
    <3>1. \A result : DOMAIN Executed(i, result) = DOMAIN batch  BY DEF Executed
    <3>2. \A auto : DOMAIN Running(i, auto) = DOMAIN batch  BY DEF Running
    <3>3. CASE Start(i)  BY <2>2, <3>1, <3>3 DEF Start
    <3>4. CASE Enter(i)  BY <2>2, <3>1, <3>2, <3>4 DEF Enter
    <3>5. CASE Finish(i)  BY <2>2, <3>1, <3>5 DEF Finish, FinishAlone, FinishWithMarket
    <3>6. CASE Record(i)  BY <2>2, <3>6 DEF Record
    <3> QED  BY <2>1, <3>3, <3>4, <3>5, <3>6 DEF Work
  <2> QED  BY <2>3, <2>4, QuietHeadroom
<1>10. CASE Rest \/ UNCHANGED vars
  BY <1>10, QuietHeadroom DEF Rest, vars, run
<1> QED  BY <1>4, <1>5, <1>6, <1>7, <1>8, <1>9, <1>10 DEF Next

\* The request limit never ends a run, and the last request offers no tools:
\* model_requests = tool_call_budget + 1 is enough for any quotas.
THEOREM HeadroomIsKept == Spec => []FinalHeadroom
<1>1. TypeInv /\ HeadroomInv => FinalHeadroom
  <2> SUFFICES ASSUME TypeInv, HeadroomInv PROVE FinalHeadroom
    OBVIOUS
  <2>1. ToolCalls \in Nat /\ ModelRequests = ToolCalls + 1  BY BudgetType DEF TypeInv
  <2>2. requests \in Nat /\ invocation \in Nat  BY DEF TypeInv, TypeOK
  <2> QED  BY <2>1, <2>2 DEF HeadroomInv, FinalHeadroom
<1>2. Init => HeadroomInv  BY InitHeadroom
<1>3. TypeInv /\ HeadroomInv /\ [Next]_vars => HeadroomInv'  BY StepHeadroom
<1> QED  BY <1>1, <1>2, <1>3, TypeInvariant, PTL DEF Spec

(***************************************************************************)
(* Quotas and what reaches the providers.                                  *)
(***************************************************************************)

\* The quote requests of a call that holds the lock are reserved and not made yet;
\* the market is asked once, because every answer it gives is kept.
QuotaInv ==
  /\ \A t \in Tool : used[t] <= Limit[t]
  /\ fetched["quote"] <= used["quote"]
  /\ lock # 0 /\ batch[lock].call.tool = "quote" => fetched["quote"] < used["quote"]
  /\ fetched["market"] <= 1
  /\ cache[MarketKey] = "NONE" => fetched["market"] = 0

LEMMA InitQuota == Init => QuotaInv
<1> SUFFICES ASSUME Init PROVE QuotaInv
  OBVIOUS
<1>1. \A t \in Tool : Limit[t] \in Nat  BY LimitAssumption
<1>2. "quote" \in Tool /\ "market" \in Tool  BY DEF Tool
<1> QED  BY <1>1, <1>2 DEF Init, QuotaInv

\* What an answer changes, when it asks about one quote and at most the market.
LEMMA FetchCounts ==
  ASSUME TypeOK, QuotaInv, NEW outcome, Fetch(outcome),
         \A k \in DOMAIN outcome : k \in Key /\ outcome[k] \in Outcomes(k)
  PROVE  /\ fetched'["quote"] <= fetched["quote"] + 1
         /\ (\A k \in DOMAIN outcome : k[1] # "quote") => fetched'["quote"] = fetched["quote"]
         /\ fetched'["market"] <= 1
         /\ cache'[MarketKey] = "NONE" => fetched'["market"] = 0
<1>1. /\ "quote" \in Tool /\ "market" \in Tool
      /\ fetched["quote"] \in Nat /\ fetched["market"] \in Nat
  BY DEF Tool, TypeOK
<1>2. \A t \in Tool :
        fetched'[t] = fetched[t] + IF \E k \in DOMAIN outcome : k[1] = t /\ cache[k] = "NONE"
                                   THEN 1 ELSE 0
  BY DEF Fetch
<1>3. fetched'["quote"] <= fetched["quote"] + 1  BY <1>1, <1>2
<1>4. (\A k \in DOMAIN outcome : k[1] # "quote") => fetched'["quote"] = fetched["quote"]
  BY <1>1, <1>2
<1>5. \A k \in Key : k[1] = "market" <=> k = MarketKey
  <2>1. MarketKey = <<"market", NoTicker>>  BY DEF MarketKey, KeyOf, Market
  <2>2. ASSUME NEW k \in Key, k # MarketKey PROVE k[1] = "quote"
    <3>1. PICK t \in Ticker : k = <<"quote", t>>  BY <2>1, <2>2 DEF Key
    <3> QED  BY <3>1
  <2>3. MarketKey[1] = "market"  BY <2>1
  <2> QED  BY <2>2, <2>3
<1>6. MarketKey \in Key  BY ConstantTypes DEF MarketKey
<1>7. cache'[MarketKey] = IF MarketKey \in DOMAIN outcome /\ Keeps(MarketKey, outcome[MarketKey])
                          THEN outcome[MarketKey] ELSE cache[MarketKey]
  BY <1>6 DEF Fetch
<1>8. CASE cache[MarketKey] # "NONE"
  <2>1. fetched'["market"] = fetched["market"]  BY <1>1, <1>2, <1>5, <1>8
  <2>2. cache'[MarketKey] # "NONE"
    BY <1>7, <1>8 DEF Keeps
  <2> QED  BY <1>3, <1>4, <2>1, <2>2 DEF QuotaInv
<1>9. CASE cache[MarketKey] = "NONE" /\ MarketKey \in DOMAIN outcome
  <2>1. fetched'["market"] <= 1  BY <1>1, <1>2, <1>9 DEF QuotaInv
  <2>2. outcome[MarketKey] \in {"OK", "NO_DATA", "RAISES"}
    <3>1. MarketKey[1] = "market"  BY <1>5, <1>6
    <3> QED  BY <1>9, <3>1 DEF Outcomes
  <2>3. Keeps(MarketKey, outcome[MarketKey])  BY <1>5, <1>6, <2>2 DEF Keeps
  <2>4. cache'[MarketKey] # "NONE"  BY <1>7, <1>9, <2>2, <2>3
  <2> QED  BY <1>3, <1>4, <2>1, <2>4
<1>10. CASE cache[MarketKey] = "NONE" /\ MarketKey \notin DOMAIN outcome
  <2>1. fetched'["market"] = fetched["market"]  BY <1>1, <1>2, <1>5, <1>10
  <2> QED  BY <1>3, <1>4, <1>10, <2>1 DEF QuotaInv
<1> QED  BY <1>8, <1>9, <1>10

LEMMA EnterQuota ==
  ASSUME TypeInv, QuotaInv, NEW i \in DOMAIN batch, Enter(i)
  PROVE  QuotaInv'
<1> DEFINE c == batch[i].call
<1>1. batch[i] \in Thread /\ i \in 1..MaxBatch /\ i # 0  BY BatchType DEF TypeInv
<1>2. c \in Call  BY <1>1 DEF Thread
<1>3. UNCHANGED <<fetched, cache>> /\ lock = 0  BY DEF Enter, executor
<1>4. CASE Early(c) # NoResult
  <2>1. UNCHANGED <<lock, used>>  BY <1>4 DEF Enter
  <2> QED  BY <1>3, <2>1 DEF QuotaInv
<1>5. CASE Early(c) = NoResult
  <2>1. /\ batch' = Running(i, BringsMarket(c)) /\ lock' = i
        /\ used' = [t \in Tool |-> used[t] + IF t \in Required(c) THEN 1 ELSE 0]
    BY <1>5 DEF Enter
  <2>2. batch'[i].call = c
    <3>1. BringsMarket(c) \in BOOLEAN  BY DEF BringsMarket
    <3> QED  BY <2>1, <3>1, RunningType DEF TypeInv
  <2>3. \A t \in Required(c) : used[t] < Limit[t]  BY <1>2, <1>5, EarlyType
  <2>4. \A t \in Tool : used[t] \in Nat /\ Limit[t] \in Nat
    BY LimitAssumption DEF TypeInv, TypeOK
  <2>5. \A t \in Tool : used'[t] <= Limit[t]
    BY <2>1, <2>3, <2>4 DEF QuotaInv
  <2>6. "quote" \in Tool /\ fetched["quote"] \in Nat  BY DEF Tool, TypeInv, TypeOK
  <2>7. fetched["quote"] <= used'["quote"]
    BY <2>1, <2>4, <2>6 DEF QuotaInv
  <2>8. c.tool = "quote" => fetched["quote"] < used'["quote"]
    <3>1. c.tool \in Required(c)  BY DEF Required
    <3> QED  BY <2>1, <2>4, <2>6, <3>1 DEF QuotaInv
  <2> QED  BY <1>3, <2>1, <2>2, <2>5, <2>7, <2>8 DEF QuotaInv
<1> QED  BY <1>4, <1>5

LEMMA FinishQuota ==
  ASSUME TypeInv, QuotaInv, NEW i \in DOMAIN batch, Finish(i)
  PROVE  QuotaInv'
<1> DEFINE c == batch[i].call
           k == KeyOf(c)
<1>1. /\ batch[i].phase = "running" /\ lock' = 0 /\ used' = used
      /\ FinishAlone(i) \/ FinishWithMarket(i)
  BY DEF Finish
<1>2. /\ c \in Call /\ WellFormed(c) /\ lock = i /\ i # 0
  BY <1>1, BatchType DEF TypeInv, ThreadInv, Thread
<1>3. k \in Key /\ k[1] = c.tool  BY <1>2, KeyType DEF KeyOf
<1>4. MarketKey \in Key /\ MarketKey[1] = "market"
  BY ConstantTypes DEF MarketKey, KeyOf, Market
<1>5. PICK outcome : /\ Fetch(outcome)
                     /\ \A j \in DOMAIN outcome : j \in Key /\ outcome[j] \in Outcomes(j)
                     /\ c.tool = "market" => \A j \in DOMAIN outcome : j[1] # "quote"
  <2>1. CASE FinishAlone(i)
    <3>1. PICK o \in Outcomes(k) : Fetch(Only(k, o))  BY <2>1 DEF FinishAlone
    <3>2. \A j \in DOMAIN Only(k, o) : j = k /\ Only(k, o)[j] = o  BY DEF Only
    <3> QED  BY <1>3, <3>1, <3>2
  <2>2. CASE FinishWithMarket(i)
    <3>1. PICK o \in Outcomes(k), m \in Outcomes(MarketKey) : Fetch(Both(k, o, MarketKey, m))
      BY <2>2 DEF FinishWithMarket
    <3>2. c.tool = "quote"
      BY <1>2, <2>2 DEF FinishWithMarket, Call
    <3>3. \A j \in DOMAIN Both(k, o, MarketKey, m) :
            \/ j = k /\ Both(k, o, MarketKey, m)[j] = o
            \/ j = MarketKey /\ Both(k, o, MarketKey, m)[j] = m
      BY DEF Both
    <3> QED  BY <1>3, <1>4, <3>1, <3>2, <3>3
  <2> QED  BY <1>1, <2>1, <2>2
<1>6. /\ fetched'["quote"] <= fetched["quote"] + 1
      /\ c.tool = "market" => fetched'["quote"] = fetched["quote"]
      /\ fetched'["market"] <= 1
      /\ cache'[MarketKey] = "NONE" => fetched'["market"] = 0
  BY <1>5, FetchCounts DEF TypeInv
<1>7. fetched'["quote"] <= used["quote"]
  <2>1. /\ fetched["quote"] \in Nat /\ used["quote"] \in Nat /\ fetched'["quote"] \in Nat
    <3>1. TypeInv'
      BY <1>1, FinishAloneType, FinishWithMarketType DEF Finish
    <3> QED  BY <3>1 DEF TypeInv, TypeOK, Tool
  <2>2. c.tool \in {"quote", "market"}  BY <1>2 DEF Call
  <2> QED  BY <1>2, <1>6, <2>1, <2>2 DEF QuotaInv
<1> QED  BY <1>1, <1>6, <1>7 DEF QuotaInv

\* The threads of another phase have nothing to do with quotas.
LEMMA QuietQuota ==
  ASSUME TypeInv, QuotaInv, UNCHANGED <<lock, used, fetched, cache>>,
         lock # 0 => batch'[lock].call = batch[lock].call
  PROVE  QuotaInv'
BY DEF QuotaInv

LEMMA StepQuota == TypeInv /\ QuotaInv /\ [Next]_vars => QuotaInv'
<1> SUFFICES ASSUME TypeInv, QuotaInv, [Next]_vars PROVE QuotaInv'
  OBVIOUS
<1>1. CASE AskModel \/ ModelFails \/ RejectCall \/ Timeout \/ Close \/ Tick
             \/ CheckCandidate \/ Repair \/ Rest \/ UNCHANGED vars
  BY <1>1, QuietQuota DEF AskModel, ModelFails, RejectCall, Timeout, Close, Tick,
     CheckCandidate, Repair, Rest, vars, session, executor
<1>2. CASE Respond
  <2>1. lock = 0  BY <1>2 DEF TypeInv, LockInv, EmptyInv, Respond
  <2> QED  BY <1>2, <2>1, QuietQuota DEF Respond, session, executor
<1>3. CASE ToolsDone
  <2>1. lock = 0  BY <1>3 DEF TypeInv, LockInv, ToolsDone
  <2> QED  BY <1>3, <2>1, QuietQuota DEF ToolsDone, session, executor
<1>4. CASE \E i \in 1..MaxBatch : Work(i)
  <2>1. PICK i \in 1..MaxBatch : Work(i)  BY <1>4
  <2>2. i \in DOMAIN batch  BY <2>1 DEF Work
  <2>3. CASE Start(i)
    <3>1. \A j \in DOMAIN batch : batch'[j].call = batch[j].call
      <4>1. CASE late  BY <2>3, <4>1 DEF Start
      <4>2. CASE ~late /\ batch[i].admitted
        BY <2>2, <2>3, <4>2, PhaseType DEF Start, TypeInv
      <4>3. CASE ~late /\ ~batch[i].admitted
        <5>1. Refusal("TOOL_ATTEMPT_BUDGET_EXHAUSTED") \in Result  BY ConstantTypes DEF Status
        <5> QED  BY <2>2, <2>3, <4>3, <5>1, ExecutedType DEF Start, TypeInv
      <4> QED  BY <4>1, <4>2, <4>3
    <3>2. lock # 0 => lock \in DOMAIN batch  BY DEF TypeInv, LockInv
    <3> QED  BY <2>3, <3>1, <3>2, QuietQuota DEF Start, session, executor
  <2>4. CASE Enter(i)  BY <2>2, <2>4, EnterQuota
  <2>5. CASE Finish(i)  BY <2>2, <2>5, FinishQuota
  <2>6. CASE Record(i)
    <3>1. \A j \in DOMAIN batch : batch'[j].call = batch[j].call
      BY <2>2, <2>6, PhaseType DEF Record, TypeInv
    <3>2. lock # 0 => lock \in DOMAIN batch  BY DEF TypeInv, LockInv
    <3> QED  BY <2>6, <3>1, <3>2, QuietQuota DEF Record, session, executor
  <2> QED  BY <2>1, <2>3, <2>4, <2>5, <2>6 DEF Work
<1> QED  BY <1>1, <1>2, <1>3, <1>4 DEF Next

\* No tool asks its providers more often than its quota allows, for any quotas and
\* any number of calls at once.
THEOREM QuotaIsKept == Spec => []QuotaHolds
<1>1. TypeInv /\ QuotaInv => QuotaHolds
  <2> SUFFICES ASSUME TypeInv, QuotaInv PROVE QuotaHolds
    OBVIOUS
  <2>1. \A t \in Tool : fetched[t] \in Nat /\ used[t] \in Nat /\ Limit[t] \in Nat \ {0}
    BY LimitAssumption DEF TypeInv, TypeOK
  <2> QED  BY <2>1 DEF QuotaInv, QuotaHolds, Tool
<1>2. Init => QuotaInv  BY InitQuota
<1>3. TypeInv /\ QuotaInv /\ [Next]_vars => QuotaInv'  BY StepQuota
<1> QED  BY <1>1, <1>2, <1>3, TypeInvariant, PTL DEF Spec

(***************************************************************************)
(* What an answer rests on.                                                *)
(***************************************************************************)

\* Sources that claim success have an answer that was a success.
Backed(set, answers) == \A s \in set : s.ok => answers[s.key] = "OK"

SourceInv ==
  /\ Backed(sources, cache)
  /\ \A c \in Call : Backed(observed[c].sources, cache)
  /\ \A i \in DOMAIN batch : Backed(batch[i].result.sources, cache)
  /\ pc \in {"OK", "DEGRADED"} => \A k \in candidate[1] : cache[k] = "OK"

LEMMA InitSource == Init => SourceInv
BY DEF Init, SourceInv, Backed, NoResult

\* A success that is cached stays, and one that is new is cached.
LEMMA CacheStays ==
  ASSUME TypeOK, NEW outcome, Fetch(outcome),
         \A j \in DOMAIN outcome : j \in Key /\ outcome[j] \in Outcomes(j)
  PROVE  /\ \A k \in Key : cache[k] = "OK" => cache'[k] = "OK"
         /\ \A k \in DOMAIN outcome : outcome[k] = "OK" => cache'[k] = "OK"
<1>1. ASSUME NEW k \in Key, cache[k] = "OK" PROVE cache'[k] = "OK"
  <2>1. k \in DOMAIN outcome => outcome[k] = "OK"  BY <1>1 DEF Outcomes
  <2> QED  BY <1>1, <2>1 DEF Fetch
<1>2. ASSUME NEW k \in DOMAIN outcome, outcome[k] = "OK" PROVE cache'[k] = "OK"
  <2>1. Keeps(k, outcome[k])  BY <1>2 DEF Keeps
  <2>2. k \in Key  OBVIOUS
  <2> QED  BY <1>2, <2>1, <2>2 DEF Fetch
<1> QED  BY <1>1, <1>2

LEMMA BackedSource ==
  ASSUME NEW k, NEW o, NEW answers, o = "OK" => answers[k] = "OK"
  PROVE  Backed({SourceOf(k, o)}, answers)
<1> SUFFICES ASSUME NEW s \in {SourceOf(k, o)}, s.ok PROVE answers[s.key] = "OK"
  BY DEF Backed
<1>1. s = SourceOf(k, o)  OBVIOUS
<1>2. s.key = k /\ (s.ok => o = "OK")  BY <1>1 DEF SourceOf
<1> QED  BY <1>2

LEMMA BackedSets ==
  ASSUME NEW answers
  PROVE  /\ Backed({}, answers)
         /\ \A set, more : Backed(set, answers) /\ Backed(more, answers)
                           => Backed(set \cup more, answers)
BY DEF Backed

LEMMA BackedStays ==
  ASSUME NEW set \in SUBSET Source, Backed(set, cache),
         \A k \in Key : cache[k] = "OK" => cache'[k] = "OK"
  PROVE  Backed(set, cache')
BY DEF Backed, Source

\* A step that answers a call, from the provider or from what was observed.
LEMMA AnsweredSource ==
  ASSUME TypeInv, SourceInv, NEW i \in DOMAIN batch, NEW result \in Result,
         batch' = Executed(i, result), UNCHANGED <<run, record>>,
         \A k \in Key : cache[k] = "OK" => cache'[k] = "OK",
         Backed(result.sources, cache'),
         \A c \in Call : \/ Backed(observed'[c].sources, cache')
                        \/ observed'[c] = observed[c]
  PROVE  SourceInv'
<1>1. /\ DOMAIN batch' = DOMAIN batch /\ batch'[i].result = result
      /\ \A j \in DOMAIN batch : j # i => batch'[j] = batch[j]
  BY ExecutedType DEF TypeInv
<1>2. Backed(sources', cache')
  BY BackedStays DEF SourceInv, TypeInv, TypeOK, record
<1>3. \A c \in Call : Backed(observed'[c].sources, cache')
  <2> TAKE c \in Call
  <2>1. observed[c].sources \in SUBSET Source  BY DEF TypeInv, TypeOK, Result
  <2> QED  BY <2>1, BackedStays DEF SourceInv
<1>4. \A j \in DOMAIN batch' : Backed(batch'[j].result.sources, cache')
  <2> TAKE j \in DOMAIN batch'
  <2>1. j \in DOMAIN batch  BY <1>1
  <2>2. batch[j].result.sources \in SUBSET Source
    BY <2>1, BatchType DEF TypeInv, Thread, Result
  <2>3. Backed(batch[j].result.sources, cache')  BY <2>1, <2>2, BackedStays DEF SourceInv
  <2> QED  BY <1>1, <2>1, <2>3
<1>5. pc' \notin {"OK", "DEGRADED"}
  <2>1. batch # <<>>  OBVIOUS
  <2> QED  BY <2>1 DEF TypeInv, EmptyInv, run
<1> QED  BY <1>2, <1>3, <1>4, <1>5 DEF SourceInv

LEMMA FinishAloneSource ==
  ASSUME TypeInv, SourceInv, NEW i \in DOMAIN batch, batch[i].phase = "running",
         FinishAlone(i), UNCHANGED <<run, record>>
  PROVE  SourceInv'
<1> DEFINE c == batch[i].call
           k == KeyOf(c)
           result(o) == [status |-> StatusOf(o),
                         sources |-> IF Keeps(k, o) THEN {SourceOf(k, o)} ELSE {}]
<1>1. c \in Call /\ WellFormed(c)
  BY BatchType DEF TypeInv, ThreadInv, Thread
<1>2. k \in Key  BY <1>1, KeyType
<1>3. PICK o \in Outcomes(k) :
        /\ batch' = Executed(i, result(o))
        /\ Fetch(Only(k, o))
        /\ IF Keeps(k, o) THEN Remember(Only(ObservationKey(c), result(o)))
           ELSE UNCHANGED observed
  BY DEF FinishAlone
<1>4. /\ DOMAIN Only(k, o) = {k} /\ Only(k, o)[k] = o
      /\ \A j \in DOMAIN Only(k, o) : j \in Key /\ Only(k, o)[j] \in Outcomes(j)
  BY <1>2, <1>3 DEF Only
<1>5. /\ \A j \in Key : cache[j] = "OK" => cache'[j] = "OK"
      /\ o = "OK" => cache'[k] = "OK"
  <2> HIDE DEF k
  <2> QED  BY <1>3, <1>4, CacheStays DEF TypeInv
<1>6. Backed(result(o).sources, cache')
  <2>1. Backed({SourceOf(k, o)}, cache')  BY <1>5, BackedSource
  <2> QED  BY <2>1, BackedSets
<1>7. result(o) \in Result
  <2>1. StatusOf(o) \in Status  BY <1>2, <1>3, OutcomeType, StatusType DEF TypeInv
  <2>2. SourceOf(k, o) \in Source  BY <1>2, SourceType
  <2> QED  BY <2>1, <2>2 DEF Result
<1>8. \A d \in Call : observed'[d] = result(o) \/ observed'[d] = observed[d]
  <2> HIDE DEF result, k
  <2>1. CASE Keeps(k, o)  BY <1>3, <2>1 DEF Remember, Only
  <2>2. CASE ~Keeps(k, o)  BY <1>3, <2>2
  <2> QED  BY <2>1, <2>2
<1> HIDE DEF result, k
<1> QED  BY <1>3, <1>5, <1>6, <1>7, <1>8, AnsweredSource

LEMMA FinishWithMarketSource ==
  ASSUME TypeInv, SourceInv, NEW i \in DOMAIN batch, batch[i].phase = "running",
         FinishWithMarket(i), UNCHANGED <<run, record>>
  PROVE  SourceInv'
<1> DEFINE c == batch[i].call
           k == KeyOf(c)
           market(m) == [status |-> StatusOf(m), sources |-> {SourceOf(MarketKey, m)}]
           result(o, m) == [status |-> IF m = "OK" THEN o ELSE "DEGRADED",
                            sources |-> {SourceOf(k, o)}
                                          \cup IF batch[i].auto THEN market(m).sources ELSE {}]
<1>1. c \in Call /\ WellFormed(c) /\ c.tool = "quote"
  BY BatchType DEF TypeInv, ThreadInv, Thread, FinishWithMarket, Call
<1>2. k \in Key /\ MarketKey \in Key /\ k # MarketKey
  BY <1>1, KeyType, ConstantTypes DEF MarketKey, KeyOf, Market
<1>3. PICK o \in Outcomes(k) \cap {"OK", "NO_DATA"}, m \in Outcomes(MarketKey) :
        /\ batch' = Executed(i, result(o, m))
        /\ Fetch(Both(k, o, MarketKey, m))
        /\ Remember(Both(ObservationKey(c), result(o, m), Market, market(m)))
  BY DEF FinishWithMarket
<1> DEFINE outcome == Both(k, o, MarketKey, m)
<1>4. /\ DOMAIN outcome = {k, MarketKey} /\ outcome[k] = o /\ outcome[MarketKey] = m
  BY <1>2 DEF Both
<1>5. \A j \in DOMAIN outcome : j \in Key /\ outcome[j] \in Outcomes(j)
  <2> HIDE DEF outcome, k
  <2> QED  BY <1>2, <1>3, <1>4
<1>6. /\ \A j \in Key : cache[j] = "OK" => cache'[j] = "OK"
      /\ o = "OK" => cache'[k] = "OK"
      /\ m = "OK" => cache'[MarketKey] = "OK"
  <2>1. Fetch(outcome)  BY <1>3
  <2> HIDE DEF outcome, k
  <2> QED  BY <1>4, <1>5, <2>1, CacheStays DEF TypeInv
<1>7. Backed(market(m).sources, cache')
  <2>1. Backed({SourceOf(MarketKey, m)}, cache')  BY <1>6, BackedSource
  <2> QED  BY <2>1
<1>8. Backed(result(o, m).sources, cache')
  <2>1. Backed({SourceOf(k, o)}, cache')  BY <1>6, BackedSource
  <2> HIDE DEF market
  <2>2. result(o, m).sources \in {{SourceOf(k, o)}, {SourceOf(k, o)} \cup market(m).sources}
    OBVIOUS
  <2> QED  BY <1>7, <2>1, <2>2, BackedSets
<1>9. result(o, m) \in Result
  <2>1. (IF m = "OK" THEN o ELSE "DEGRADED") \in Status  BY <1>3 DEF Status
  <2>2. SourceOf(k, o) \in Source  BY <1>2, SourceType
  <2>3. SourceOf(MarketKey, m) \in Source  BY <1>2, SourceType
  <2> QED  BY <2>1, <2>2, <2>3 DEF Result
<1>10. \A d \in Call : \/ observed'[d] = result(o, m) \/ observed'[d] = market(m)
                      \/ observed'[d] = observed[d]
  <2> HIDE DEF result, market, k
  <2> QED  BY <1>3 DEF Remember, Both
<1>11. \A d \in Call : Backed(observed'[d].sources, cache') \/ observed'[d] = observed[d]
  <2> HIDE DEF result, market
  <2> QED  BY <1>7, <1>8, <1>10
<1> HIDE DEF result, k
<1> QED  BY <1>3, <1>6, <1>8, <1>9, <1>11, AnsweredSource

\* A step that leaves the threads' results, the caches and the records alone, and
\* delivers no answer.
LEMMA QuietSource ==
  ASSUME SourceInv, UNCHANGED <<observed, cache, sources>>,
         \A i \in DOMAIN batch' : \/ i \in DOMAIN batch /\ batch'[i].result = batch[i].result
                                 \/ batch'[i].result.sources = {},
         pc' \in {"OK", "DEGRADED"} => candidate' = candidate /\ pc \in {"OK", "DEGRADED"}
  PROVE  SourceInv'
<1>1. \A i \in DOMAIN batch' : Backed(batch'[i].result.sources, cache')
  <2> TAKE i \in DOMAIN batch'
  <2>1. CASE i \in DOMAIN batch /\ batch'[i].result = batch[i].result
    BY <2>1 DEF SourceInv
  <2>2. CASE batch'[i].result.sources = {}  BY <2>2 DEF Backed
  <2> QED  BY <2>1, <2>2
<1> QED  BY <1>1 DEF SourceInv

\* The answer of an equal call is as good as the one it repeats.
LEMMA EarlySource ==
  ASSUME TypeInv, SourceInv, NEW c \in Call
  PROVE  Backed(Early(c).sources, cache)
<1>1. ObservationKey(c) \in Call  BY DEF ObservationKey, Call
<1>2. Backed(observed[ObservationKey(c)].sources, cache)  BY <1>1 DEF SourceInv
<1>3. \A status : Backed(Refusal(status).sources, cache)  BY DEF Refusal, Backed
<1>4. Backed(NoResult.sources, cache)  BY DEF NoResult, Backed
<1> QED  BY <1>2, <1>3, <1>4 DEF Early

LEMMA EnterSource ==
  ASSUME TypeInv, SourceInv, NEW i \in DOMAIN batch, Enter(i)
  PROVE  SourceInv'
<1> DEFINE c == batch[i].call
           early == Early(c)
<1>1. c \in Call  BY BatchType DEF TypeInv, Thread
<1>2. early \in Result  BY <1>1, EarlyType
<1>3. CASE early # NoResult
  <2>1. batch' = Executed(i, early)  BY <1>3 DEF Enter
  <2>2. Backed(early.sources, cache)  BY <1>1, EarlySource
  <2>3. UNCHANGED <<run, record, observed, cache>>  BY DEF Enter, executor
  <2> HIDE DEF early
  <2> QED  BY <1>2, <2>1, <2>2, <2>3, AnsweredSource
<1>4. CASE early = NoResult
  <2>1. batch' = Running(i, BringsMarket(c))  BY <1>4 DEF Enter
  <2>2. BringsMarket(c) \in BOOLEAN  BY DEF BringsMarket
  <2> HIDE DEF c
  <2>3. DOMAIN batch' = DOMAIN batch /\ \A j \in DOMAIN batch : batch'[j].result = batch[j].result
    BY <2>1, <2>2, RunningType DEF TypeInv
  <2>4. UNCHANGED <<observed, cache, sources, pc, candidate>>
    BY DEF Enter, executor, record, run
  <2> QED  BY <2>3, <2>4, QuietSource
<1> QED  BY <1>3, <1>4

LEMMA StartSource ==
  ASSUME TypeInv, SourceInv, NEW i \in DOMAIN batch, Start(i)
  PROVE  SourceInv'
<1>1. UNCHANGED <<observed, cache, sources>> /\ pc' \notin {"OK", "DEGRADED"}
  BY DEF Start, session, executor, record
<1>2. CASE late  BY <1>1, <1>2, QuietSource DEF Start
<1>3. CASE ~late /\ batch[i].admitted
  <2>1. DOMAIN batch' = DOMAIN batch /\ \A j \in DOMAIN batch : batch'[j].result = batch[j].result
    BY <1>3, PhaseType DEF Start, TypeInv
  <2> QED  BY <1>1, <2>1, QuietSource
<1>4. CASE ~late /\ ~batch[i].admitted
  <2> DEFINE refusal == Refusal("TOOL_ATTEMPT_BUDGET_EXHAUSTED")
  <2>1. refusal \in Result  BY ConstantTypes DEF Status
  <2>2. batch' = Executed(i, refusal)  BY <1>4 DEF Start
  <2>3. refusal.sources = {}  BY DEF Refusal
  <2> HIDE DEF refusal
  <2>4. /\ DOMAIN batch' = DOMAIN batch /\ batch'[i].result.sources = {}
        /\ \A j \in DOMAIN batch : j # i => batch'[j].result = batch[j].result
    BY <2>1, <2>2, <2>3, ExecutedType DEF TypeInv
  <2> QED  BY <1>1, <2>4, QuietSource
<1> QED  BY <1>2, <1>3, <1>4

LEMMA RecordSource ==
  ASSUME TypeInv, SourceInv, NEW i \in DOMAIN batch, Record(i)
  PROVE  SourceInv'
<1>1. DOMAIN batch' = DOMAIN batch /\ \A j \in DOMAIN batch : batch'[j].result = batch[j].result
  BY PhaseType DEF Record, TypeInv
<1>2. Backed(sources', cache')
  BY DEF Record, SourceInv, Backed, executor
<1>3. pc' \notin {"OK", "DEGRADED"}
  <2>1. batch # <<>>  OBVIOUS
  <2> QED  BY <2>1 DEF TypeInv, EmptyInv, Record
<1> QED  BY <1>1, <1>2, <1>3 DEF SourceInv, Record, session, executor

\* Only sources fetched with success pass, at the first check and after the repair.
LEMMA AvailableSource ==
  ASSUME SourceInv
  PROVE  \A k \in Available : cache[k] = "OK"
BY DEF SourceInv, Backed, Available

LEMMA DeliverySource ==
  ASSUME SourceInv, UNCHANGED <<observed, cache, sources, batch>>,
         pc' \in {"OK", "DEGRADED"} => \A k \in candidate'[1] : k \in Available
  PROVE  SourceInv'
<1>1. pc' \in {"OK", "DEGRADED"} => \A k \in candidate'[1] : cache'[k] = "OK"
  BY AvailableSource
<1> QED  BY <1>1 DEF SourceInv

LEMMA StepSource == TypeInv /\ SourceInv /\ [Next]_vars => SourceInv'
<1> SUFFICES ASSUME TypeInv, SourceInv, [Next]_vars PROVE SourceInv'
  OBVIOUS
<1>1. CASE AskModel \/ ModelFails \/ RejectCall \/ Timeout \/ Close \/ Tick
             \/ Rest \/ UNCHANGED vars
  BY <1>1, QuietSource DEF AskModel, ModelFails, RejectCall, Timeout, Close, Tick, Rest,
     vars, run, session, executor, record
<1>2. CASE Respond
  <2>1. \A i \in DOMAIN batch' : batch'[i].result.sources = {}
    <3>1. PICK n \in 0..MaxBatch :
            \E calls \in [1..n -> Asked] :
               batch' = [i \in 1..n |->
                           [call |-> calls[i], admitted |-> Admitted(i), auto |-> FALSE,
                            phase |-> "ready", result |-> NoResult]]
      BY <1>2 DEF Respond
    <3> QED  BY <3>1 DEF NoResult
  <2> QED  BY <1>2, <2>1, QuietSource DEF Respond, session, executor, record
<1>3. CASE ToolsDone
  BY <1>3, QuietSource DEF ToolsDone, session, executor, record
<1>4. CASE CheckCandidate
  <2>1. pc' \in {"OK", "DEGRADED"} => candidate'[1] \subseteq Available
    BY <1>4 DEF CheckCandidate, Validate
  <2> QED  BY <1>4, <2>1, DeliverySource DEF CheckCandidate, session, executor, record
<1>5. CASE Repair
  <2>1. pc' \in {"OK", "DEGRADED"} => candidate'[1] \subseteq Available
    BY <1>5 DEF Repair
  <2> QED  BY <1>5, <2>1, DeliverySource DEF Repair, session, executor, record
<1>6. CASE \E i \in 1..MaxBatch : Work(i)
  <2>1. PICK i \in DOMAIN batch : Start(i) \/ Enter(i) \/ Finish(i) \/ Record(i)
    BY <1>6 DEF Work
  <2>2. CASE Start(i)  BY <2>2, StartSource
  <2>3. CASE Enter(i)  BY <2>3, EnterSource
  <2>4. CASE Finish(i)
    <3>1. batch[i].phase = "running" /\ UNCHANGED <<run, record>>
      BY <2>4 DEF Finish
    <3>2. FinishAlone(i) \/ FinishWithMarket(i)  BY <2>4 DEF Finish
    <3> QED  BY <3>1, <3>2, FinishAloneSource, FinishWithMarketSource
  <2>5. CASE Record(i)  BY <2>5, RecordSource
  <2> QED  BY <2>1, <2>2, <2>3, <2>4, <2>5
<1> QED  BY <1>1, <1>2, <1>3, <1>4, <1>5, <1>6 DEF Next

\* Whatever sources the model declares, at first or when it repairs, a delivered
\* answer rests on sources this run fetched with success.
THEOREM AnswerRestsOnSuccess == Spec => []AnswerIsObserved
<1>1. SourceInv => AnswerIsObserved  BY DEF SourceInv, AnswerIsObserved
<1>2. Init => SourceInv  BY InitSource
<1>3. TypeInv /\ SourceInv /\ [Next]_vars => SourceInv'  BY StepSource
<1> QED  BY <1>1, <1>2, <1>3, TypeInvariant, PTL DEF Spec

(***************************************************************************)
(* What a quote for a risk action brings with it.                          *)
(***************************************************************************)

NamesMarket(set) == \E s \in set : s.key = MarketKey

HasData(status) == status \in {"OK", "NO_DATA", "DEGRADED"}

\* A market source is on its way: recorded, or in the result of a thread.
MarketComes == \/ NamesMarket(sources)
               \/ \E i \in DOMAIN batch : NamesMarket(batch[i].result.sources)

\* A thread has a result when it was answered and not before, and its sources are
\* recorded with its trace; a risk quote at the provider brings the market context
\* itself or found it there.
ThreadContext ==
  \A i \in DOMAIN batch :
    /\ batch[i].phase \in {"ready", "waiting", "running"} => batch[i].result = NoResult
    /\ batch[i].phase = "recorded" => batch[i].result.sources \subseteq sources
    /\ batch[i].phase = "running" /\ batch[i].call.risk => batch[i].auto \/ marketObserved
    /\ batch[i].call.risk /\ HasData(batch[i].result.status) => marketObserved

ContextInv ==
  /\ ThreadContext
  /\ marketObserved => MarketComes
  /\ \A r \in trace : r.call.risk /\ HasData(r.status) => marketObserved
  /\ \A c \in Call : c.risk /\ HasData(observed[c].status) => marketObserved

LEMMA NoData == ~HasData("NONE") /\ ~HasData("TOOL_FAILURE") /\ ~HasData("INVALID_ARGUMENTS")
                /\ ~HasData("TOOL_QUOTA_EXHAUSTED") /\ ~HasData("REQUIRED_CONTEXT_UNAUTHORIZED")
                /\ ~HasData("TOOL_ATTEMPT_BUDGET_EXHAUSTED")
BY DEF HasData

LEMMA InitContext == Init => ContextInv
BY NoData DEF Init, ContextInv, ThreadContext, NoResult

\* A step that answers a call.
LEMMA AnsweredContext ==
  ASSUME TypeInv, ContextInv, NEW i \in DOMAIN batch, batch[i].result = NoResult,
         NEW result \in Result, batch' = Executed(i, result), UNCHANGED record,
         marketObserved => marketObserved',
         marketObserved' => marketObserved \/ NamesMarket(result.sources),
         batch[i].call.risk /\ HasData(result.status) => marketObserved',
         \A c \in Call : \/ c.risk /\ HasData(observed'[c].status) => marketObserved'
                        \/ observed'[c] = observed[c]
  PROVE  ContextInv'
<1>1. /\ DOMAIN batch' = DOMAIN batch
      /\ batch'[i].phase = "executed" /\ batch'[i].result = result
      /\ batch'[i].call = batch[i].call
      /\ \A j \in DOMAIN batch : j # i => batch'[j] = batch[j]
  BY ExecutedType DEF TypeInv
<1>2. UNCHANGED <<sources, trace>>  BY DEF record
<1>3. ThreadContext'
  <2> SUFFICES ASSUME NEW j \in DOMAIN batch
               PROVE  /\ batch'[j].phase \in {"ready", "waiting", "running"}
                           => batch'[j].result = NoResult
                      /\ batch'[j].phase = "recorded"
                           => batch'[j].result.sources \subseteq sources
                      /\ batch'[j].phase = "running" /\ batch'[j].call.risk
                           => batch'[j].auto \/ marketObserved'
                      /\ batch'[j].call.risk /\ HasData(batch'[j].result.status)
                           => marketObserved'
    BY <1>1, <1>2 DEF ThreadContext
  <2>1. CASE j = i  BY <1>1, <2>1
  <2>2. CASE j # i  BY <1>1, <2>2 DEF ContextInv, ThreadContext
  <2> QED  BY <2>1, <2>2
<1>4. marketObserved' => MarketComes'
  <2>1. CASE NamesMarket(result.sources)  BY <1>1, <2>1 DEF MarketComes
  <2>2. CASE marketObserved
    <3>1. ~NamesMarket(batch[i].result.sources)  BY DEF NamesMarket, NoResult
    <3> QED  BY <1>1, <1>2, <2>2, <3>1 DEF ContextInv, MarketComes
  <2> QED  BY <2>1, <2>2
<1>5. \A c \in Call : c.risk /\ HasData(observed'[c].status) => marketObserved'
  BY DEF ContextInv
<1> QED  BY <1>2, <1>3, <1>4, <1>5 DEF ContextInv

\* A step that leaves the results of the threads, the observations and the records
\* alone.
LEMMA QuietContext ==
  ASSUME ContextInv, UNCHANGED <<marketObserved, observed, record>>,
         DOMAIN batch' = DOMAIN batch,
         \A i \in DOMAIN batch :
           /\ batch'[i].call = batch[i].call /\ batch'[i].result = batch[i].result
           /\ batch'[i].phase = batch[i].phase
                \/ /\ batch[i].result = NoResult /\ batch'[i].phase # "recorded"
                   /\ batch'[i].phase = "running" /\ batch[i].call.risk
                        => batch'[i].auto \/ marketObserved
           /\ batch'[i].phase = batch[i].phase => batch'[i].auto = batch[i].auto
  PROVE  ContextInv'
<1>1. UNCHANGED <<sources, trace>>  BY DEF record
<1>2. ThreadContext'
  <2> SUFFICES ASSUME NEW i \in DOMAIN batch
               PROVE  /\ batch'[i].phase \in {"ready", "waiting", "running"}
                           => batch'[i].result = NoResult
                      /\ batch'[i].phase = "recorded"
                           => batch'[i].result.sources \subseteq sources
                      /\ batch'[i].phase = "running" /\ batch'[i].call.risk
                           => batch'[i].auto \/ marketObserved
                      /\ batch'[i].call.risk /\ HasData(batch'[i].result.status)
                           => marketObserved
    BY <1>1 DEF ThreadContext
  <2> QED  BY DEF ContextInv, ThreadContext
<1>3. MarketComes => MarketComes'  BY <1>1 DEF MarketComes
<1> QED  BY <1>1, <1>2, <1>3 DEF ContextInv

LEMMA EnterContext ==
  ASSUME TypeInv, ContextInv, NEW i \in DOMAIN batch, Enter(i)
  PROVE  ContextInv'
<1> DEFINE c == batch[i].call
           early == Early(c)
<1>1. c \in Call /\ batch[i].phase = "waiting" /\ batch[i].result = NoResult
  BY BatchType DEF TypeInv, Thread, Enter, ContextInv, ThreadContext
<1>2. UNCHANGED <<record, observed, marketObserved>>  BY DEF Enter
<1>3. CASE early # NoResult
  <2>1. batch' = Executed(i, early) /\ early \in Result
    BY <1>1, <1>3, EarlyType DEF Enter
  <2>2. c.risk /\ HasData(early.status) => marketObserved
    <3>1. ObservationKey(c) = c  BY <1>1 DEF ObservationKey, Call
    <3>2. early \in {Refusal("INVALID_ARGUMENTS"), Refusal("REQUIRED_CONTEXT_UNAUTHORIZED"),
                     Refusal("TOOL_QUOTA_EXHAUSTED"), NoResult, observed[c]}
      BY <3>1 DEF Early
    <3>3. \A status : Refusal(status).status = status  BY DEF Refusal
    <3>4. CASE early = observed[c]  BY <1>1, <3>4 DEF ContextInv
    <3>5. CASE early # observed[c]
      BY <1>3, <3>2, <3>3, <3>5, NoData
    <3> QED  BY <3>4, <3>5
  <2> HIDE DEF early
  <2> QED  BY <1>1, <1>2, <2>1, <2>2, AnsweredContext
<1>4. CASE early = NoResult
  <2>1. batch' = Running(i, BringsMarket(c))  BY <1>4 DEF Enter
  <2>2. BringsMarket(c) \in BOOLEAN /\ (c.risk => BringsMarket(c) \/ marketObserved)
    BY DEF BringsMarket
  <2>3. /\ DOMAIN batch' = DOMAIN batch
        /\ \A j \in DOMAIN batch : j # i => batch'[j] = batch[j]
        /\ batch'[i].phase = "running" /\ batch'[i].call = batch[i].call
        /\ batch'[i].auto = BringsMarket(c) /\ batch'[i].result = batch[i].result
    BY <2>1, <2>2, RunningType DEF TypeInv
  <2> QED  BY <1>1, <1>2, <2>2, <2>3, QuietContext
<1> QED  BY <1>3, <1>4

LEMMA StartContext ==
  ASSUME TypeInv, ContextInv, NEW i \in DOMAIN batch, Start(i)
  PROVE  ContextInv'
<1>1. /\ UNCHANGED <<observed, marketObserved, record>>
      /\ batch[i].phase = "ready" /\ batch[i].result = NoResult
  BY DEF Start, session, ContextInv, ThreadContext
<1>2. CASE late  BY <1>1, <1>2, QuietContext DEF Start
<1>3. CASE ~late /\ batch[i].admitted
  <2>1. /\ DOMAIN batch' = DOMAIN batch
        /\ \A j \in DOMAIN batch : j # i => batch'[j] = batch[j]
        /\ batch'[i].phase = "waiting" /\ batch'[i].call = batch[i].call
        /\ batch'[i].result = batch[i].result
    BY <1>3, PhaseType DEF Start, TypeInv
  <2> QED  BY <1>1, <2>1, QuietContext
<1>4. CASE ~late /\ ~batch[i].admitted
  <2> DEFINE refusal == Refusal("TOOL_ATTEMPT_BUDGET_EXHAUSTED")
  <2>1. refusal \in Result  BY ConstantTypes DEF Status
  <2>2. batch' = Executed(i, refusal)  BY <1>4 DEF Start
  <2>3. ~HasData(refusal.status)  BY NoData DEF Refusal
  <2> HIDE DEF refusal
  <2> QED  BY <1>1, <2>1, <2>2, <2>3, AnsweredContext
<1> QED  BY <1>2, <1>3, <1>4

\* The market context that is looked up is kept whatever it says, and named.
LEMMA MarketOutcome ==
  ASSUME TypeOK, NEW m \in Outcomes(MarketKey)
  PROVE  Keeps(MarketKey, m) /\ NamesMarket({SourceOf(MarketKey, m)})
<1>1. MarketKey \in Key /\ MarketKey[1] = "market"
  BY ConstantTypes DEF MarketKey, KeyOf, Market
<1>2. m \in {"OK", "NO_DATA", "RAISES"}  BY <1>1 DEF Outcomes, TypeOK
<1>3. SourceOf(MarketKey, m).key = MarketKey  BY DEF SourceOf
<1> QED  BY <1>1, <1>2, <1>3 DEF Keeps, NamesMarket

LEMMA FinishAloneContext ==
  ASSUME TypeInv, ContextInv, NEW i \in DOMAIN batch, batch[i].phase = "running",
         FinishAlone(i), UNCHANGED record
  PROVE  ContextInv'
<1> DEFINE c == batch[i].call
           k == KeyOf(c)
           result(o) == [status |-> StatusOf(o),
                         sources |-> IF Keeps(k, o) THEN {SourceOf(k, o)} ELSE {}]
<1>1. c \in Call /\ WellFormed(c) /\ batch[i].result = NoResult
  BY BatchType DEF TypeInv, ThreadInv, Thread, ContextInv, ThreadContext
<1>2. k \in Key /\ ObservationKey(c) = c  BY <1>1, KeyType
<1>3. PICK o \in Outcomes(k) :
        /\ ~c.risk \/ o \in {"RAISES", "INVALID"}
        /\ batch' = Executed(i, result(o))
        /\ IF Keeps(k, o) THEN Remember(Only(ObservationKey(c), result(o)))
           ELSE UNCHANGED observed
  BY DEF FinishAlone
<1>4. marketObserved' = (marketObserved \/ c.tool = "market")  BY DEF FinishAlone
<1>5. result(o) \in Result
  <2>1. StatusOf(o) \in Status  BY <1>2, <1>3, OutcomeType, StatusType DEF TypeInv
  <2>2. SourceOf(k, o) \in Source  BY <1>2, SourceType
  <2> QED  BY <2>1, <2>2 DEF Result
<1>6. c.risk => ~HasData(result(o).status)
  <2>1. o \in {"RAISES", "INVALID"} => ~HasData(StatusOf(o))  BY NoData DEF StatusOf
  <2> QED  BY <1>3, <2>1
<1>7. c.tool = "market" => NamesMarket(result(o).sources)
  <2> SUFFICES ASSUME c.tool = "market" PROVE NamesMarket(result(o).sources)
    OBVIOUS
  <2>1. k = MarketKey  BY <1>1 DEF Call, KeyOf, MarketKey, Market
  <2> HIDE DEF k
  <2>2. Keeps(k, o) /\ NamesMarket({SourceOf(k, o)})
    BY <1>3, <2>1, MarketOutcome DEF TypeInv
  <2> QED  BY <2>2
<1>8. \A d \in Call : \/ d = c /\ observed'[d] = result(o)
                     \/ observed'[d] = observed[d]
  <2> HIDE DEF result, k, c
  <2>1. CASE Keeps(k, o)  BY <1>2, <1>3, <2>1 DEF Remember, Only
  <2>2. CASE ~Keeps(k, o)  BY <1>3, <2>2
  <2> QED  BY <2>1, <2>2
<1> HIDE DEF result, k
<1>9. \A d \in Call : \/ d.risk /\ HasData(observed'[d].status) => marketObserved'
                     \/ observed'[d] = observed[d]
  BY <1>6, <1>8
<1>10. marketObserved' => marketObserved \/ NamesMarket(result(o).sources)
  BY <1>4, <1>7
<1>11. (marketObserved => marketObserved') /\ batch' = Executed(i, result(o))
  BY <1>3, <1>4
<1> QED  BY <1>1, <1>5, <1>6, <1>9, <1>10, <1>11, AnsweredContext

LEMMA FinishWithMarketContext ==
  ASSUME TypeInv, ContextInv, NEW i \in DOMAIN batch, batch[i].phase = "running",
         FinishWithMarket(i), UNCHANGED record
  PROVE  ContextInv'
<1> DEFINE c == batch[i].call
           k == KeyOf(c)
           market(m) == [status |-> StatusOf(m), sources |-> {SourceOf(MarketKey, m)}]
           result(o, m) == [status |-> IF m = "OK" THEN o ELSE "DEGRADED",
                            sources |-> {SourceOf(k, o)}
                                          \cup IF batch[i].auto THEN market(m).sources ELSE {}]
<1>1. /\ c \in Call /\ WellFormed(c) /\ c.risk /\ batch[i].auto \in BOOLEAN
      /\ batch[i].result = NoResult /\ (batch[i].auto \/ marketObserved)
  BY BatchType DEF TypeInv, ThreadInv, Thread, FinishWithMarket, ContextInv, ThreadContext
<1>2. k \in Key /\ MarketKey \in Key /\ ObservationKey(c) = c
  BY <1>1, KeyType, ConstantTypes DEF MarketKey
<1>3. PICK o \in Outcomes(k) \cap {"OK", "NO_DATA"}, m \in Outcomes(MarketKey) :
        /\ batch' = Executed(i, result(o, m))
        /\ Remember(Both(ObservationKey(c), result(o, m), Market, market(m)))
        /\ marketObserved' = (marketObserved \/ batch[i].auto)
  BY DEF FinishWithMarket
<1>4. marketObserved'  BY <1>1, <1>3
<1>5. result(o, m) \in Result
  <2>1. (IF m = "OK" THEN o ELSE "DEGRADED") \in Status  BY <1>3 DEF Status
  <2>2. SourceOf(k, o) \in Source  BY <1>2, SourceType
  <2>3. SourceOf(MarketKey, m) \in Source  BY <1>2, SourceType
  <2> QED  BY <2>1, <2>2, <2>3 DEF Result
<1>6. batch[i].auto => NamesMarket(result(o, m).sources)
  <2>1. NamesMarket({SourceOf(MarketKey, m)})  BY <1>3, MarketOutcome DEF TypeInv
  <2>2. batch[i].auto => SourceOf(MarketKey, m) \in result(o, m).sources  OBVIOUS
  <2> HIDE DEF result
  <2> QED  BY <2>1, <2>2 DEF NamesMarket
<1> HIDE DEF result, k
<1> QED  BY <1>1, <1>3, <1>4, <1>5, <1>6, AnsweredContext

LEMMA RecordContext ==
  ASSUME TypeInv, ContextInv, NEW i \in DOMAIN batch, Record(i)
  PROVE  ContextInv'
<1>1. /\ DOMAIN batch' = DOMAIN batch
      /\ \A j \in DOMAIN batch : j # i => batch'[j] = batch[j]
      /\ batch'[i].phase = "recorded" /\ batch'[i].call = batch[i].call
      /\ batch'[i].result = batch[i].result
  BY PhaseType DEF Record, TypeInv
<1>2. /\ UNCHANGED <<observed, marketObserved>>
      /\ sources' = sources \cup batch[i].result.sources
      /\ trace' = trace \cup {[call |-> batch[i].call, status |-> batch[i].result.status]}
  BY DEF Record, session
<1>3. ThreadContext'
  <2> SUFFICES ASSUME NEW j \in DOMAIN batch
               PROVE  /\ batch'[j].phase \in {"ready", "waiting", "running"}
                           => batch'[j].result = NoResult
                      /\ batch'[j].phase = "recorded"
                           => batch'[j].result.sources \subseteq sources'
                      /\ batch'[j].phase = "running" /\ batch'[j].call.risk
                           => batch'[j].auto \/ marketObserved
                      /\ batch'[j].call.risk /\ HasData(batch'[j].result.status)
                           => marketObserved
    BY <1>1, <1>2 DEF ThreadContext
  <2> QED  BY <1>1, <1>2 DEF ContextInv, ThreadContext
<1>4. MarketComes => MarketComes'
  BY <1>1, <1>2 DEF MarketComes, NamesMarket
<1>5. \A r \in trace' : r.call.risk /\ HasData(r.status) => marketObserved
  BY <1>2 DEF ContextInv, ThreadContext
<1> QED  BY <1>2, <1>3, <1>4, <1>5 DEF ContextInv

LEMMA StepContext == TypeInv /\ ContextInv /\ [Next]_vars => ContextInv'
<1> SUFFICES ASSUME TypeInv, ContextInv, [Next]_vars PROVE ContextInv'
  OBVIOUS
<1>1. CASE AskModel \/ ModelFails \/ RejectCall \/ Timeout \/ Close \/ Tick
             \/ CheckCandidate \/ Repair \/ Rest \/ UNCHANGED vars
  BY <1>1, QuietContext DEF AskModel, ModelFails, RejectCall, Timeout, Close, Tick,
     CheckCandidate, Repair, Rest, vars, session
<1>2. CASE Respond
  <2>1. \A i \in DOMAIN batch' : batch'[i].phase = "ready" /\ batch'[i].result = NoResult
    <3>1. PICK n \in 0..MaxBatch :
            \E calls \in [1..n -> Asked] :
               batch' = [i \in 1..n |->
                           [call |-> calls[i], admitted |-> Admitted(i), auto |-> FALSE,
                            phase |-> "ready", result |-> NoResult]]
      BY <1>2 DEF Respond
    <3> QED  BY <3>1
  <2>2. UNCHANGED <<marketObserved, observed, sources, trace>>
    BY <1>2 DEF Respond, session, record
  <2>3. batch = <<>>  BY <1>2 DEF TypeInv, EmptyInv, Respond
  <2>4. ThreadContext'  BY <2>1, NoData DEF ThreadContext, NoResult
  <2>5. MarketComes => MarketComes'  BY <2>2, <2>3 DEF MarketComes
  <2> QED  BY <2>2, <2>4, <2>5 DEF ContextInv
<1>3. CASE ToolsDone
  <2>1. UNCHANGED <<marketObserved, observed, sources, trace>> /\ batch' = <<>>
    BY <1>3 DEF ToolsDone, session, record
  <2>2. ThreadContext'  BY <2>1 DEF ThreadContext
  <2>3. \A i \in DOMAIN batch : batch[i].result.sources \subseteq sources
    BY <1>3 DEF ToolsDone, ContextInv, ThreadContext
  <2>4. MarketComes => MarketComes'
    BY <2>1, <2>3 DEF MarketComes, NamesMarket
  <2> QED  BY <2>1, <2>2, <2>4 DEF ContextInv
<1>4. CASE \E i \in 1..MaxBatch : Work(i)
  <2>1. PICK i \in DOMAIN batch : Start(i) \/ Enter(i) \/ Finish(i) \/ Record(i)
    BY <1>4 DEF Work
  <2>2. CASE Start(i)  BY <2>2, StartContext
  <2>3. CASE Enter(i)  BY <2>3, EnterContext
  <2>4. CASE Finish(i)
    <3>1. batch[i].phase = "running" /\ UNCHANGED record  BY <2>4 DEF Finish
    <3>2. FinishAlone(i) \/ FinishWithMarket(i)  BY <2>4 DEF Finish
    <3> QED  BY <3>1, <3>2, FinishAloneContext, FinishWithMarketContext
  <2>5. CASE Record(i)  BY <2>5, RecordContext
  <2> QED  BY <2>1, <2>2, <2>3, <2>4, <2>5
<1> QED  BY <1>1, <1>2, <1>3, <1>4 DEF Next

\* A quote for a risk action that came back with data is never thrown away by the
\* context floor, however calls were cached, replayed or run next to each other.
THEOREM QuotesBringContext == Spec => []ObservedQuotesBringContext
<1>1. TypeInv /\ ContextInv => ObservedQuotesBringContext
  <2> SUFFICES ASSUME TypeInv, ContextInv, pc = "check", NEW r \in trace,
                      r.call.risk, r.status \in {"OK", "NO_DATA", "DEGRADED"}
               PROVE  ~FloorMissing
    BY DEF ObservedQuotesBringContext
  <2>1. MarketComes  BY DEF ContextInv, HasData
  <2>2. NamesMarket(sources)  BY <2>1 DEF TypeInv, EmptyInv, MarketComes
  <2> QED  BY <2>2 DEF NamesMarket, FloorMissing
<1>2. Init => ContextInv  BY InitContext
<1>3. TypeInv /\ ContextInv /\ [Next]_vars => ContextInv'  BY StepContext
<1> QED  BY <1>1, <1>2, <1>3, TypeInvariant, PTL DEF Spec
(***************************************************************************)
(* What is left of a run that was reported.                                *)
(***************************************************************************)

\* Nobody is between the admission of a call and its trace once the run is reported.
RestInv == pc \in Ended => \A i \in DOMAIN batch : batch[i].phase \in {"ready", "recorded"}

LEMMA InitRest == Init => RestInv
BY DEF Init, RestInv, Ended

\* A call's step is not of a reported run, and reports none.
LEMMA WorkRests ==
  ASSUME TypeInv, RestInv, NEW i \in 1..MaxBatch, Work(i)
  PROVE  pc \notin Ended /\ pc' \notin Ended
<1>1. i \in DOMAIN batch  BY DEF Work
<1>2. CASE Start(i)  BY <1>2 DEF Start, Ended
<1>3. CASE Enter(i) \/ Finish(i) \/ Record(i)
  <2>1. batch[i].phase \in {"waiting", "running", "executed"}
    BY <1>3 DEF Enter, Finish, Record
  <2>2. pc \notin Ended  BY <1>1, <2>1 DEF RestInv
  <2>3. pc' = pc \/ pc' = "closing"  BY <1>3 DEF Enter, Finish, Record, run
  <2> QED  BY <2>2, <2>3 DEF Ended
<1> QED  BY <1>2, <1>3 DEF Work

LEMMA StepRest == TypeInv /\ RestInv /\ [Next]_vars => RestInv'
<1> SUFFICES ASSUME TypeInv, RestInv, [Next]_vars PROVE RestInv'
  OBVIOUS
<1>1. CASE AskModel \/ Respond \/ ModelFails \/ RejectCall \/ ToolsDone \/ Timeout
  BY <1>1 DEF AskModel, Respond, ModelFails, RejectCall, ToolsDone, Timeout, RestInv, Ended
<1>2. CASE Tick  BY <1>2 DEF Tick, RestInv
<1>3. CASE Close  BY <1>3 DEF Close, RestInv
<1>4. CASE CheckCandidate \/ Repair
  <2>1. batch' = <<>>
    BY <1>4 DEF TypeInv, EmptyInv, CheckCandidate, Repair
  <2> QED  BY <2>1 DEF RestInv
<1>5. CASE \E i \in 1..MaxBatch : Work(i)  BY <1>5, WorkRests DEF RestInv
<1>6. CASE Rest \/ UNCHANGED vars  BY <1>6 DEF Rest, RestInv, vars, run
<1> QED  BY <1>1, <1>2, <1>3, <1>4, <1>5, <1>6 DEF Next

\* Once the run is reported, no call that a timeout or a rejected call left behind takes
\* quota, asks a provider or records anything.
THEOREM ReportStaysFinal == Spec => ReportIsFinal
<1> DEFINE calls == <<batch, lock, session, executor, record>>
<1>1. TypeInv /\ RestInv /\ [Next]_vars => [pc \notin Ended]_calls
  <2> SUFFICES ASSUME TypeInv, RestInv, [Next]_vars, pc \in Ended PROVE UNCHANGED calls
    OBVIOUS
  <2>1. ~(\E i \in 1..MaxBatch : Work(i))  BY WorkRests
  <2>2. UNCHANGED vars
    BY <2>1 DEF Next, AskModel, Respond, ModelFails, RejectCall, ToolsDone, Tick, Timeout, Close,
       CheckCandidate, Repair, Rest, Ended
  <2> QED  BY <2>2 DEF vars, session, executor, record
<1>2. Init => RestInv  BY InitRest
<1>3. TypeInv /\ RestInv /\ [Next]_vars => RestInv'  BY StepRest
<1> QED  BY <1>1, <1>2, <1>3, TypeInvariant, PTL DEF Spec, ReportIsFinal
=============================================================================
