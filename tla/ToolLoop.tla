------------------------------ MODULE ToolLoop ------------------------------
(***************************************************************************)
(* One run of the investment agent: the language model is asked, answers   *)
(* with tool calls or a final candidate, and the candidate is checked      *)
(* against what the tools observed.                                        *)
(*                                                                         *)
(* The calls of one response run in parallel threads.  Inside a call the   *)
(* session's execution_lock covers authorisation, replay, reservation, the *)
(* provider and the caches; the admission before it and the trace after it *)
(* are outside.  A wall clock may end the run at any moment, and the run   *)
(* then waits for the threads that are already at work.                    *)
(*                                                                         *)
(* Price history and news are handled as a quote without a risk purpose is *)
(* and are not tools of their own here.                                    *)
(***************************************************************************)
EXTENDS Integers, Sequences

CONSTANTS
  Ticker,        \* normalised tickers
  NoTicker,      \* the argument of a call that names no ticker
  Limit,         \* max_calls_per_run of each tool
  MaxBatch,      \* bound of the model: calls in one response
  Asked,         \* bound of the model: calls the model may make
  CandidateRefs  \* bound of the model: sets of sources a candidate may declare

Tool == {"quote", "market"}

\* A source, and what the executor caches its answer under.
Key == {<<"quote", k>> : k \in Ticker} \cup {<<"market", NoTicker>>}

ASSUME NoTickerAssumption == NoTicker \notin Ticker

ASSUME LimitAssumption == Limit \in [Tool -> Nat \ {0}] /\ MaxBatch \in Nat \ {0}

VARIABLES
  exposed,        \* tools this run may call
  pc,             \* where the run is
  requests,       \* model requests made
  invocation,     \* tool calls admitted
  finalOnly,      \* the tools are hidden from now on
  late,           \* the wall clock has run out
  candidate,      \* sources the final candidate declares, or none yet
  batch,          \* calls of the current response, in its order
  lock,           \* the call that holds execution_lock, 0 if none does
  used,           \* quota taken, by tool
  marketObserved, \* market context observed, explicitly or with a quote
  observed,       \* results a later equal call is given
  cache,          \* the executor's answers of this run
  fetched,        \* history: provider requests, by tool
  trace,          \* calls recorded, with their status
  sources         \* sources recorded, with their success

run == <<exposed, pc, requests, invocation, finalOnly, late, candidate>>
session == <<used, marketObserved, observed>>
executor == <<cache, fetched>>
record == <<trace, sources>>
vars == <<run, batch, lock, session, executor, record>>

-----------------------------------------------------------------------------
(* Calls, results and budgets.                                             *)

\* risk: a quote asked for a DISCRETIONARY_CURRENT_RISK_ACTION.  A quote without a
\* ticker stands for every call that breaks its tool's contract.
Call == [tool : {"quote"}, ticker : Ticker \cup {NoTicker}, risk : BOOLEAN]
          \cup [tool : {"market"}, ticker : {NoTicker}, risk : {FALSE}]

Market == [tool |-> "market", ticker |-> NoTicker, risk |-> FALSE]

ASSUME InputAssumption == Asked \subseteq Call /\ CandidateRefs \subseteq SUBSET Key

WellFormed(c) == c.tool = "market" \/ c.ticker # NoTicker

KeyOf(c) == <<c.tool, c.ticker>>

\* NO_DATA stands for every answer of a provider that is neither OK nor an
\* exception nor a verdict that the symbol is invalid; NONE for no result yet.
Status == {"OK", "NO_DATA", "DEGRADED", "TOOL_FAILURE", "INVALID_ARGUMENTS",
           "TOOL_QUOTA_EXHAUSTED", "REQUIRED_CONTEXT_UNAUTHORIZED",
           "TOOL_ATTEMPT_BUDGET_EXHAUSTED", "NONE"}

Source == [key : Key, ok : BOOLEAN]

Result == [status : Status, sources : SUBSET Source]

NoResult == [status |-> "NONE", sources |-> {}]

\* A result that names no source.
Refusal(status) == [status |-> status, sources |-> {}]

\* Mutant: the purpose of a quote is not part of the key.
ObservationKeyByTicker(c) == [c EXCEPT !.risk = FALSE]

\* The whole of the arguments, so that quotes for different purposes differ.
ObservationKey(c) == [tool |-> c.tool, ticker |-> c.ticker, risk |-> c.risk]

LimitOf(t) == IF t \in exposed THEN Limit[t] ELSE 0

\* tool_call_budget: the quotas of the exposed tools.
ToolCalls == LimitOf("quote") + LimitOf("market")

ModelRequests == ToolCalls + 1

\* No final candidate yet, or one with the sources it declares.
Candidate == {<<>>} \cup {<<refs>> : refs \in CandidateRefs}

Ended == {"OK", "DEGRADED", "FAILED"}

Thread == [call : Call, admitted : BOOLEAN, auto : BOOLEAN,
           phase : {"ready", "waiting", "running", "executed", "recorded"},
           result : Result]

TypeOK ==
  /\ exposed \subseteq Tool
  /\ pc \in {"request", "model", "tools", "closing", "check", "repair"} \cup Ended
  /\ requests \in Nat /\ invocation \in Nat
  /\ finalOnly \in BOOLEAN /\ late \in BOOLEAN
  /\ candidate \in Candidate
  /\ batch \in Seq(Thread) /\ Len(batch) <= MaxBatch
  /\ lock \in 0..MaxBatch
  /\ used \in [Tool -> Nat]
  /\ marketObserved \in BOOLEAN
  /\ observed \in [Call -> Result]
  /\ cache \in [Key -> {"NONE", "OK", "NO_DATA", "RAISES"}]
  /\ fetched \in [Tool -> Nat]
  /\ trace \subseteq [call : Call, status : Status]
  /\ sources \subseteq Source

Init ==
  /\ exposed \in SUBSET Tool
  /\ pc = "request" /\ requests = 0 /\ invocation = 0
  /\ finalOnly = FALSE /\ late = FALSE /\ candidate = <<>>
  /\ batch = <<>> /\ lock = 0
  /\ used = [t \in Tool |-> 0] /\ marketObserved = FALSE
  /\ observed = [c \in Call |-> NoResult]
  /\ cache = [k \in Key |-> "NONE"] /\ fetched = [t \in Tool |-> 0]
  /\ trace = {} /\ sources = {}

-----------------------------------------------------------------------------
(* The loop of model requests.                                             *)

\* Mutant: the tools are hidden one call and one request too late.
HidesLate == exposed # {} /\ (invocation > ToolCalls \/ requests >= ModelRequests)

\* prepare_tools: the tools are hidden once no call or only the last request is
\* left (a run without tools has none to hide).
Hides == exposed # {} /\ (invocation >= ToolCalls \/ requests >= ModelRequests - 1)

\* The framework's request limit, then the next request.
AskModel ==
  /\ pc = "request"
  /\ IF requests >= ModelRequests
     THEN pc' = "closing" /\ UNCHANGED <<requests, finalOnly>>
     ELSE /\ pc' = "model"
          /\ requests' = requests + 1
          /\ finalOnly' = (finalOnly \/ Hides)
  /\ UNCHANGED <<exposed, invocation, late, candidate, batch, lock, session, executor, record>>

\* observe_attempts: calls are admitted in the order of the response.
Admitted(i) == ~finalOnly /\ invocation + i <= ToolCalls

\* invocation_count after n calls.
Admissions(n) == IF finalOnly THEN invocation
                 ELSE IF Admitted(n) THEN invocation + n
                 ELSE ToolCalls

\* The model answers with calls, a final candidate or both; with both, the calls
\* still run (end_strategy "exhaustive").
Respond ==
  /\ pc = "model"
  /\ \E n \in 0..MaxBatch, final \in Candidate :
       /\ n > 0 \/ final # <<>>
       /\ candidate' = final
       /\ \E calls \in [1..n -> Asked] :
            batch' = [i \in 1..n |->
                        [call |-> calls[i], admitted |-> Admitted(i), auto |-> FALSE,
                         phase |-> "ready", result |-> NoResult]]
       /\ invocation' = Admissions(n)
  /\ pc' = "tools"
  /\ UNCHANGED <<exposed, requests, finalOnly, late, lock, session, executor, record>>

\* The provider fails, or the response is neither.
ModelFails ==
  /\ pc \in {"model", "repair"}
  /\ pc' = "closing"
  /\ UNCHANGED <<exposed, requests, invocation, finalOnly, late, candidate, batch, lock,
                 session, executor, record>>

Offered == IF finalOnly THEN {} ELSE exposed

\* A call to a tool that was not offered ends the run (retries=0), whatever the
\* other calls of the response have done by then.
RejectCall ==
  /\ pc = "tools"
  /\ \E i \in DOMAIN batch : batch[i].call.tool \notin Offered
  /\ pc' = "closing"
  /\ UNCHANGED <<exposed, requests, invocation, finalOnly, late, candidate, batch, lock,
                 session, executor, record>>

ToolsDone ==
  /\ pc = "tools"
  /\ \A i \in DOMAIN batch : batch[i].phase = "recorded"
  /\ pc' = IF candidate = <<>> THEN "request" ELSE "check"
  /\ batch' = <<>>
  /\ UNCHANGED <<exposed, requests, invocation, finalOnly, late, candidate, lock,
                 session, executor, record>>

-----------------------------------------------------------------------------
(* The clock.                                                              *)

Tick ==
  /\ pc \notin Ended /\ ~late
  /\ late' = TRUE
  /\ UNCHANGED <<exposed, pc, requests, invocation, finalOnly, candidate, batch, lock,
                 session, executor, record>>

\* Mutant: only the wait for the model is interrupted.
TimeoutOfModel ==
  /\ late /\ pc = "model"
  /\ pc' = "closing"
  /\ UNCHANGED <<exposed, requests, invocation, finalOnly, late, candidate, batch, lock,
                 session, executor, record>>

\* asyncio.wait_for around the whole loop, and the repair's own.
Timeout ==
  /\ late /\ pc \in {"request", "model", "tools", "repair"}
  /\ pc' = "closing"
  /\ UNCHANGED <<exposed, requests, invocation, finalOnly, late, candidate, batch, lock,
                 session, executor, record>>

\* Mutant: only the thread that is at its provider is waited for.
CloseEarly ==
  /\ pc = "closing" /\ lock = 0
  /\ pc' = "FAILED"
  /\ UNCHANGED <<exposed, requests, invocation, finalOnly, late, candidate, batch, lock,
                 session, executor, record>>

\* The run fails when the threads at work have ended; those that have not
\* started never do.
Close ==
  /\ pc = "closing"
  /\ \A i \in DOMAIN batch : batch[i].phase \in {"ready", "recorded"}
  /\ pc' = "FAILED"
  /\ UNCHANGED <<exposed, requests, invocation, finalOnly, late, candidate, batch, lock,
                 session, executor, record>>

-----------------------------------------------------------------------------
(* One tool call, in a thread of its own.                                  *)

\* The batch when thread i has its result.
Executed(i, result) == [batch EXCEPT ![i] = [@ EXCEPT !.phase = "executed", !.result = result]]

\* The batch when thread i goes to the provider.
Running(i, auto) == [batch EXCEPT ![i] = [@ EXCEPT !.phase = "running", !.auto = auto]]

\* _ToolBridge.execute up to the executor: the clock, then the admission.
Start(i) ==
  /\ pc = "tools"
  /\ batch[i].phase = "ready" /\ batch[i].call.tool \in Offered
  /\ IF late
     THEN pc' = "closing" /\ UNCHANGED batch
     ELSE /\ batch' = IF batch[i].admitted
                      THEN [batch EXCEPT ![i].phase = "waiting"]
                      ELSE Executed(i, Refusal("TOOL_ATTEMPT_BUDGET_EXHAUSTED"))
          /\ UNCHANGED pc
  /\ UNCHANGED <<exposed, requests, invocation, finalOnly, late, candidate, lock,
                 session, executor, record>>

\* A quote for a risk action brings the market context, unless it is here already.
BringsMarket(c) == c.risk /\ ~marketObserved

Required(c) == {c.tool} \cup IF BringsMarket(c) THEN {"market"} ELSE {}

\* What ends the call before anything is reserved, if something does.
Early(c) ==
  IF ~WellFormed(c) THEN Refusal("INVALID_ARGUMENTS")
  ELSE IF ~(Required(c) \subseteq exposed) THEN Refusal("REQUIRED_CONTEXT_UNAUTHORIZED")
  ELSE IF observed[ObservationKey(c)] # NoResult THEN observed[ObservationKey(c)]
  ELSE IF \E t \in Required(c) : used[t] >= Limit[t] THEN Refusal("TOOL_QUOTA_EXHAUSTED")
  ELSE NoResult

\* The call takes execution_lock; it keeps it only if it goes to the provider.
Enter(i) ==
  /\ lock = 0
  /\ batch[i].phase = "waiting"
  /\ LET c == batch[i].call
         early == Early(c)
     IN  IF early # NoResult
         THEN /\ batch' = Executed(i, early)
              /\ UNCHANGED <<lock, used>>
         ELSE /\ batch' = Running(i, BringsMarket(c))
              /\ lock' = i
              /\ used' = [t \in Tool |-> used[t] + IF t \in Required(c) THEN 1 ELSE 0]
  /\ UNCHANGED <<run, marketObserved, observed, executor, record>>

\* FinancialToolExecutor.execute: a cached answer, or whatever the provider says.
Outcomes(k) ==
  IF cache[k] # "NONE" THEN {cache[k]}
  ELSE {"OK", "NO_DATA", "RAISES"} \cup IF k[1] = "market" THEN {} ELSE {"INVALID"}

\* Mutant: an exception is never cached.
KeepsAnswers(k, outcome) == outcome \in {"OK", "NO_DATA"}

\* Which answers the executor keeps: of the exceptions, only the market's.
Keeps(k, outcome) == outcome \in {"OK", "NO_DATA"} \/ (outcome = "RAISES" /\ k[1] = "market")

\* A function on one argument.
Only(k, x) == [j \in {k} |-> x]

\* A function on two.
Both(k, x, l, y) == [j \in {k, l} |-> IF j = k THEN x ELSE y]

\* The executor answers the keys of a function from keys to outcomes.
Fetch(outcome) ==
  /\ cache' = [k \in Key |->
                 IF k \in DOMAIN outcome /\ Keeps(k, outcome[k]) THEN outcome[k] ELSE cache[k]]
  /\ fetched' = [t \in Tool |->
                   fetched[t] + IF \E k \in DOMAIN outcome : k[1] = t /\ cache[k] = "NONE"
                                THEN 1 ELSE 0]

StatusOf(outcome) == CASE outcome = "RAISES" -> "TOOL_FAILURE"
                       [] outcome = "INVALID" -> "INVALID_ARGUMENTS"
                       [] OTHER -> outcome

SourceOf(k, outcome) == [key |-> k, ok |-> outcome = "OK"]

\* remember: setdefault on the keys of a set of results.
Remember(results) ==
  observed' = [c \in Call |-> IF c \in DOMAIN results /\ observed[c] = NoResult
                              THEN results[c] ELSE observed[c]]

\* A call that needs no other tool, or whose own provider fails.
FinishAlone(i) ==
  LET c == batch[i].call
      k == KeyOf(c)
  IN  \E o \in Outcomes(k) :
        /\ ~c.risk \/ o \in {"RAISES", "INVALID"}
        /\ LET result == [status |-> StatusOf(o),
                          sources |-> IF Keeps(k, o) THEN {SourceOf(k, o)} ELSE {}]
           IN  /\ batch' = Executed(i, result)
               /\ Fetch(Only(k, o))
               /\ IF Keeps(k, o) THEN Remember(Only(ObservationKey(c), result))
                  ELSE UNCHANGED observed
        /\ marketObserved' = (marketObserved \/ c.tool = "market")

MarketKey == KeyOf(Market)

\* A quote for a risk action: the market context is executed after the quote,
\* and reported with it if this call reserved it.
FinishWithMarket(i) ==
  LET c == batch[i].call
      k == KeyOf(c)
  IN  /\ c.risk
      /\ \E o \in Outcomes(k) \cap {"OK", "NO_DATA"}, m \in Outcomes(MarketKey) :
           LET market == [status |-> StatusOf(m), sources |-> {SourceOf(MarketKey, m)}]
               result == [status |-> IF m = "OK" THEN o ELSE "DEGRADED",
                          sources |-> {SourceOf(k, o)}
                                        \cup IF batch[i].auto THEN market.sources ELSE {}]
           IN  /\ batch' = Executed(i, result)
               /\ Fetch(Both(k, o, MarketKey, m))
               /\ Remember(Both(ObservationKey(c), result, Market, market))
               /\ marketObserved' = (marketObserved \/ batch[i].auto)

Finish(i) ==
  /\ batch[i].phase = "running"
  /\ FinishAlone(i) \/ FinishWithMarket(i)
  /\ lock' = 0
  /\ UNCHANGED <<run, used, record>>

\* The trace, after the lock; then the clock once more.
Record(i) ==
  /\ batch[i].phase = "executed"
  /\ batch' = [batch EXCEPT ![i].phase = "recorded"]
  /\ trace' = trace \cup {[call |-> batch[i].call, status |-> batch[i].result.status]}
  /\ sources' = sources \cup batch[i].result.sources
  /\ pc' = IF late /\ pc = "tools" THEN "closing" ELSE pc
  /\ UNCHANGED <<exposed, requests, invocation, finalOnly, late, candidate, lock,
                 session, executor>>

-----------------------------------------------------------------------------
(* The final candidate.                                                    *)

\* Mutant: a failed attempt counts as a source.
Observed == {s.key : s \in sources}

\* The sources an answer may declare, besides the portfolio snapshot.
Available == {s.key : s \in {x \in sources : x.ok}}

\* A risk action was asked about and no market context was looked up.
FloorMissing ==
  /\ \E r \in trace : r.call.risk
  /\ \A s \in sources : s.key # MarketKey

Deliver == pc' = IF \E r \in trace : r.status # "OK" THEN "DEGRADED" ELSE "OK"

\* A candidate that declares other sources, cannot be parsed or cites what it does not
\* declare gets its one repair; of its text the model knows the declared sources only.
Validate == (candidate[1] \subseteq Available /\ Deliver) \/ pc' = "repair"

\* The clock after the loop, the context floor, then the candidate.
CheckCandidate ==
  /\ pc = "check"
  /\ IF late \/ FloorMissing THEN pc' = "FAILED" ELSE Validate
  /\ UNCHANGED <<exposed, requests, invocation, finalOnly, late, candidate, batch, lock,
                 session, executor, record>>

\* The repair is one request without tools, over the sources already observed; what is
\* wrong with its answer then fails the run.
Repair ==
  /\ pc = "repair"
  /\ \E refs \in CandidateRefs :
       /\ candidate' = <<refs>>
       /\ (~late /\ refs \subseteq Available /\ Deliver) \/ pc' = "FAILED"
  /\ UNCHANGED <<exposed, requests, invocation, finalOnly, late, batch, lock,
                 session, executor, record>>

-----------------------------------------------------------------------------
Work(i) == i \in DOMAIN batch /\ (Start(i) \/ Enter(i) \/ Finish(i) \/ Record(i))

\* A run that ended stays as it is.
Rest == pc \in Ended /\ UNCHANGED vars

Next ==
  \/ AskModel \/ Respond \/ ModelFails \/ RejectCall \/ ToolsDone
  \/ Tick \/ Timeout \/ Close
  \/ \E i \in 1..MaxBatch : Work(i)
  \/ CheckCandidate \/ Repair
  \/ Rest

Spec == Init /\ [][Next]_vars

\* Time passes, the timeout and the checks are code of the run, and a thread at
\* work ends because every provider client has a timeout.  The model may never
\* answer.
FairSpec ==
  /\ Spec
  /\ WF_vars(Tick) /\ WF_vars(Timeout) /\ WF_vars(Close) /\ WF_vars(CheckCandidate)
  /\ \A i \in 1..MaxBatch : WF_vars(Work(i))

-----------------------------------------------------------------------------
(* Properties.                                                             *)

\* No tool sends its providers more requests than its quota, whatever the calls of
\* a response do in parallel and however a quote brings the market context with it
\* (reserve, and the caches behind it).
QuotaHolds == \A t \in Tool : fetched[t] <= Limit[t]

\* The framework's request limit never ends a run: when the loop comes back for
\* another request there is one left, and the last one offers no tools
\* (model_requests = tool_call_budget + 1, prepare_tools).
FinalHeadroom ==
  /\ pc = "request" => requests < ModelRequests
  /\ pc = "model" /\ requests = ModelRequests => Offered = {}

\* A quote for a risk action that came back with data is never thrown away by the
\* context floor: whether it was fetched, replayed or found the market context
\* already there, the finished run names a market source (_validate_context_floor
\* against the paths of execute that answer such a quote).
ObservedQuotesBringContext ==
  pc = "check" /\ (\E r \in trace : r.call.risk /\ r.status \in {"OK", "NO_DATA", "DEGRADED"})
    => ~FloorMissing

\* An answer that is delivered, repaired or not, declares only sources this run
\* fetched with success (SourceValidator, _validate_or_repair).
AnswerIsObserved ==
  pc \in {"OK", "DEGRADED"} => \A k \in candidate[1] : cache[k] = "OK"

\* What the run reports is final: the calls that a timeout or a rejected call left behind,
\* waiting for the lock, at a provider, not yet recorded or not begun, take no quota, ask no
\* provider and record nothing any more (asyncio.wait_for, which cancels no thread; execute).
ReportIsFinal == [][pc \notin Ended]_<<batch, lock, session, executor, record>>

\* A run ends, whatever the model and the threads do, once its clock runs out.
RunEnds == <>(pc \in Ended)
=============================================================================
