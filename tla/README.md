# PositionPilot: TLA+ verification

PositionPilot is a portfolio assistant: a FastAPI process over PostgreSQL that keeps a
per-user ledger of trades, lots and cash, runs an investment agent over read-only tools, and
lets a user talk to that agent in conversation threads whose answers may contain drafts of
lasting intents the user confirms.  This directory holds TLA+ models of its state-changing
core, the TLC runs that check them on small instances, and TLAPS proofs.

## The system

All paths are under `src/backend/position_pilot/` unless they start with `src/`.  Persistent
state is PostgreSQL at READ COMMITTED; every service operation is one SQLAlchemy unit of work
(one transaction) unless said otherwise.  Several server processes and threads may serve
requests at once.

| Component | State | Operations | How it meets the others |
|---|---|---|---|
| Conversation (`application/conversation_service.py`, `infrastructure/conversation_*.py`, `api/routers/conversation.py`) | threads (revision, next_sequence, deleted_at), turns (status, request id, lease), messages, sources | `start_thread`, `start_turn`, `complete_turn`, `fail_turn`, `ask`, `delete_thread`, `get_thread`, `history`, `list_threads` | `ask` calls the agent between two transactions; `complete_turn` proposes a draft and `delete_thread` cancels drafts in their own transaction |
| Strategy (`application/strategy_service.py`, `infrastructure/strategy_*.py`, `domain/strategy.py`) | identity rows (owner, scope, kind), candidates, confirmed versions | `propose_in_repository`, `confirm`, `cancel`, `get`, `active`, `pending`, `cancel_thread` | locks the conversation thread first, then the identity |
| Portfolio ledger (`application/portfolio_service.py`, `domain/portfolio.py`, `infrastructure/unit_of_work.py`) | user, transactions, cash events, opening positions, reconciliations, lot allocations, classification changes, corrections | `record_transaction`, `record_cash_event`, `record_position_reconciliations`, `initialize_opening_positions`, `change_lot_classification`, `correct_buy_transaction`, `get_replay` | every write locks the user's row, replays the whole ledger, and renumbers |
| Accounts and sessions (`application/auth_service.py`) | accounts, session digests | `register`, `login`, `authenticate`, `logout`, `setup_portfolio` | creates the ledger's user |
| HTTP API (`main.py`, `api/routers/`) | none | one handler per route: authenticate, find whose data it is, call one service, turn what it raises into a status | between the page and every service |
| Agent runtime and tool loop (`integrations/pydantic_ai_runtime.py`, `application/native_investment_agent.py`, `application/tool_catalog.py`) | per-call quotas, observations, wall clock | `run`, `execute`, `reserve`, `remember` | called by `ask`; reads the ledger and market data |
| Portfolio views (`application/portfolio_{valuation,summary,chart}_service.py`, `position_funding.py`, `domain/portfolio_{accounting,valuation,summary}.py`) | none | pure functions of one replay and of quotes | called by routes and tools |
| Memory, citations, context builder | none | pure functions of earlier messages, sources and the replay | called by `ask` and the agent |
| Adapters: Alpaca, Finnhub, Aliyun vision, recognition | a directory cache in the Finnhub adapter | HTTP calls | called by tools and import |
| Frontend (`src/frontend/app.js`) | page state | asks, deletes, confirms | a client of the API; makes a new client_request_id per ask |

### What is hard, and what correct means

**Conversation.**  A turn is started in one transaction, the agent runs for up to a minute
outside any transaction, and the turn is ended in another.  In between the process may die, the
user may retry, open a second page or delete the thread.  A dead turn is found by its lease
only, by whichever operation looks next.  Every operation reads the clock *before* it waits for
the thread's row lock, so decisions are taken on readings that may be older than what is stored.
Correct means: one running turn; one turn per request id whatever the client repeats; a
transcript without gaps in which an answer follows its own question; nothing abandoned before
its lease is over and nothing saved after; a revision that counts every change; nothing written
to a deleted thread; what a client was told stays true; every run ends.

**Strategy.**  Two locks (thread, then scope) that overlap only in part: a proposal in one thread
may end a draft of another thread, whose deletion cancels the same draft under a different lock.
Rows are read into the session and written back, so a decision may rest on an old copy.  Drafts
expire by a clock read before the locks; a confirmation may be retried, or its request id used
for another draft at the same time.  Correct means: at most one draft and one intent in force
per scope; versions numbered 1, 2, 3 with only the last in force; a draft resolved once; a
confirmation made in time, on the base its user saw, and repeatable; no cycle of locks.

**Portfolio ledger.**  Facts may be entered with any past date.  Every write replays the whole
ledger with the new fact in its economic place, renumbers what comes after, and may invalidate
what was recorded before; sales name the lots they sold, and lots may be reclassified, replaced by
reconciliations, or corrected afterwards.  Reads take no lock and use seven statements.  Correct
means: what is stored always replays; cash and shares are what the facts add up to, in any order
of entry; a sale's lots and their types are history; a read shows one ledger.

**Accounts, sessions and the API.**  Racing registrations of one email, login that rotates sessions while
`authenticate` removes the expired one, two `setup_portfolio` calls.  A request authenticates in
one transaction and works in later ones with the account row it read; between any two the session may be
revoked, the portfolio set up, the reply lost.  Correct means one account per email, one portfolio per account, no
use of a session that was revoked, no data but the caller's whatever a path names, and a refusal that
changed nothing.

**Portfolio views.**  Money is rounded at every product and quotient; a sale is split over the lots it sold and the rest of
a lot is costed anew from its rounded average; sales keep the type their lot had while the lots change
theirs; quotes of some tickers may be missing.  Correct means: what was earned and what is held explain the
equity to the cent, averages explain costs, and every level of the summary adds up to the one above.

**Tool loop.**  The tools of one model response run in threads, under a quota for each tool and one for
all; a quote asked for a risk action brings the market context with it unless the run has it; equal
calls are answered from what was observed; the run has a wall clock, but a cancelled run does not
stop the threads it started.  Correct means quotas hold under interleaving, the last model
request is made without tools, a risk quote that came back with data has its context, and an
answer rests only on what was looked up with success.

**Conversation page.**  One state object, changed by clicks and by the answers of requests, which arrive in any order,
also after the user opened another thread, signed out, or another account signed in.  Most handlers are guarded by generation
counters and abort controllers, some are not.  Correct means: what is shown belongs to the account that is signed in,
and no mark that disables the page outlives the request it waits for.

The hazards of these components, each at its line, with the properties that cover it or the
reason none does, are listed in `PROJECT.json`.

## Modules

| Module | What it is |
|---|---|
| `Conversation` | one thread: `start_turn`, `complete_turn`, `fail_turn`, `ask`, `delete_thread`, `get_thread`/`history` |
| `Transcript` | abstract: a log with at most one open question |
| `ConversationRefinement` | the mapping under which `Conversation` implements `Transcript` |
| `ConversationProofs` | inductive invariants of `Conversation` and fifteen theorems, one that it implements `Transcript`, four about what is read back |
| `Strategy` | one account's drafts and versions: proposals, `confirm`, `cancel`, thread deletion, their locks |
| `IntentRegister` | abstract: per scope one proposal and a log only confirmations extend |
| `StrategyRefinement` | the mapping under which `Strategy` implements `IntentRegister` |
| `StrategyProofs` | the inductive invariant of `Strategy` and nine theorems, one that it implements `IntentRegister` |
| `PortfolioLedger` | the ledger tables, the replay, and every write |
| `PortfolioLedgerProofs` | what a replay amounts to, the inductive invariant of the ledger and five theorems |
| `LedgerReads` | `PortfolioLedger` with `get_replay_snapshot`, table by table |
| `LotAccounting` | the replay with its money: cost, rounding, fees, realized results, a step per fact |
| `PortfolioViews` | valuation, summary, chart and plan funding as functions of `LotAccounting`'s state and of quotes |
| `SumTheorems` | sums over finite sets: that the order does not matter, that they split over parts, fibers and images |
| `PortfolioViewsProofs` | the inductive invariant of `LotAccounting` and five theorems about it and its views |
| `AuthSessions` | accounts, sessions and the portfolio's binding, each transaction of a request a step |
| `PortfolioApi` | every route on top of `AuthSessions`: whose data, which status |
| `PortfolioApiProofs` | the inductive invariant of the routes and five theorems |
| `ConversationHistory` | paging of messages and of threads, the bounded history: pure operators and what they should be |
| `ConversationPage` | the page's state, its clicks and the answers it awaits |
| `ConversationPageProofs` | the inductive invariant of the page and three theorems |
| `ToolLoop` | one run of the agent: model requests, tool calls in threads, session, executor, clock, final checks |
| `ToolLoopProofs` | inductive invariants and six theorems about `ToolLoop` |
| `MCConversation`, `MCStrategy`, `MCToolLoop`, `MCPortfolioApi`, `MCPortfolioViews`, `MCConversationPage` | symmetry sets and instances for TLC |

`PortfolioViews` EXTENDS `LotAccounting` and `PortfolioApi` EXTENDS `AuthSessions`: the views and the routes
compose with what they read.  `ConversationRefinement` instantiates `Transcript` under its mapping and
EXTENDS `ConversationHistory` for the transcripts `Conversation` reaches; `StrategyRefinement` EXTENDS `Strategy` and instantiates
`IntentRegister` once for each scope.  Each `...Proofs` module EXTENDS what it proves about.

Definitions marked `Mutant:` in the modules are faulty forms of the definition that follows
them.  Nothing in the specifications uses them; putting one in the place of its original makes
the property named with it in `PROJECT.json` fail, which shows that the property can.

### Conversation

State: the thread's row (`thread`), its turns by id (`turns`), its messages (`messages`), what
each request handler is doing (`asks`: the next transaction of `ask`, its arguments and the time
of the call), and the history variable `replies` with every final outcome told to a client.

A service operation locks the thread row first and commits last, so it is one action.  What
happens outside the lock is modelled as steps: a handler's call (which records the time it was made), the agent
run, and the second, unlocked transaction by which a retry reads the stored answer.  An action
uses a clock reading `now` anywhere between the call and the present: the delay between
`datetime.now(UTC)` and the lock.  `Crash` may stop a handler anywhere between transactions.
The lazy abandonment (`_abandon_turn`) is part of every operation that performs it (`Settle`),
never an action of its own.

| Code | Actions |
|---|---|
| client's POST | `Submit` |
| `start_turn` | `StartTurn`, `StartReplayed`, `StartConflict`, `StartRefused` |
| `_replay_completion` | `ReplayCompletion` |
| agent call in `ask` | `AgentAnswers`, `AgentFails` |
| `complete_turn` | `CompleteTurn`, `CompleteTooLate`, `AnswerRefused`, `FinishOnDeleted` |
| `fail_turn` | `FailTurn`, `FinishOnDeleted` |
| `get_thread`, `history` | `ReadThread` |
| `delete_thread` | `DeleteThread` |

`ConversationHistory` says what is read back: `Page`, `NextCursor` and `Pages` follow `list_messages` and `history`,
`BoundedHistory` follows `_bounded_history` (at most so many messages and characters, ended by the first message
that does not fit), and `ThreadPage` follows `list_threads` with its cursor of time and id.

Left out: titles, sources, warnings, and timestamps no decision reads.  An answer's text
is represented by the question the agent was asked.

### Strategy

State: deleted threads, candidate rows, version rows, what each open transaction is doing, and
the history variable `told` of versions returned by confirmations.  A transaction begins with its
call (the clock reading, the row whose lock targets it read), takes its locks one at a time, reads
and decides, then writes and commits.  Between reading and writing other transactions may run, and a
write puts back the copy that was read (`seen`), as the session does.  Writing and
committing are one step, since uncommitted rows are visible to no one and keep other writers
of the same row out.  A transaction can be ended by `Crash` at any point (the process dies, the database
refuses, or the rest of `complete_turn` does).

| Code | Actions |
|---|---|
| `lock_thread`, `lock_identity` | `TakeLock`, `ThreadGone` |
| `propose_in_repository` in `complete_turn` | `CallPropose`, `ProposeReads`, `ProposeRefused`, `ProposeWrites` |
| `confirm` | `CallConfirm`, `ConfirmReplayed`, `ConfirmRefused`, `ConfirmReads`, `ConfirmWrites`, `ConfirmClashes` |
| `cancel` | `CallCancel`, `Cancel`, `CancelUnchanged` |
| `delete_thread` with `cancel_thread` | `CallDelete`, `DeleteReads`, `DeleteWrites` |

Left out: payload and evidence of a draft and the operations that only read.

### PortfolioLedger and LedgerReads

State: the seven tables as one record of sets, and a clock that counts writes, so that a record
written at a time carries it and a user may give any time up to it.  `Replay` folds the facts in
economic order, with the code's order of tables at equal times, over cash, lots and sold
lots, and turns invalid where the code raises.  A write is accepted when the ledger as stored and
the ledger with the fact both replay; each operation is one action, as each holds the user's row
from its first statement to its commit.  `LedgerReads` adds one reader that reads table by table
while writes commit, and remembers the ledgers that were stored during the read.

Left out: cost basis, average cost, profit and the splitting of a fee over lots, which no write
looks at and which `LotAccounting` has, decimals, and the legacy commission schedule.

### LotAccounting and PortfolioViews

State: cash, the lots held, the results of the sales, the trades, and the history variable `stated`, the cost that entered by a
user's statement (opening positions, reconciliations) and was never paid.  An action is one fact of the replay loop: `Deposit`,
`Withdraw`, `Reconcile`, `Reclassify`, `Buy`, `Sell`, and `NextDay` between market days; the order of the steps is the
economic order, so a back-dated entry is a behaviour of its own.  Decimals are integers of quanta with `Scale` quanta to a unit,
and `Rounded` is `ROUND_HALF_EVEN`; a small `Scale` makes rounding matter at small amounts.  The views are operators:
`PositionOf`, `Funding`, `Realized`, `Valued`, `Metrics`, `TypeSummary`, `TickerSummary`, `Totals`, `Chart`; the quotes they take are
quantified over in the properties, so every state is looked at under every answer of the provider, missing and stale ones included.

Left out: percentages, display order, messages; times are market days.

### AuthSessions and PortfolioApi

State: the rows of accounts, users and sessions, the row locks on accounts, what each request knows, and the history variables
`issued` (every session there ever was) and `facts` (what was written, by which request and to whose data).

| Code | Actions |
|---|---|
| `register` | `RegisterChecks`, `RegisterInserts` |
| `login` with its rotation | `Login`, `LoginRefused` |
| `logout` | `Logout` |
| `authenticate`: two transactions | `FindSession`, `FindAccount` |
| `setup_portfolio` | `SetupReads`, `SetupRefused`, `SetupBinds`, `ServeSetup` |
| `_require_portfolio_user`, `_require_portfolio_owner`, lookups by account | `SetupRequired`, `NotFound` |
| the other routes | `ServeSession` ... `ServeIntent`, one for each service and set of statuses |
| a lost reply, a dead process | `Lose` |

Each request is used once, so retries are further requests.  A route's service is here a read of, or one write to, somebody's
data, or one of the statuses its exceptions become; what the services do is in their own modules.  Left out: request schemas
(422 stands for them), response formats, hashing and the format of tokens.

### ConversationPage

State: the page's state object, the session cookie, and the requests that handlers await (`flight`).  A handler
is split where it awaits: the click sends, an answer goes on.  A handler whose generation was moved on does nothing any more and is
taken out of `flight` at that moment; those no generation guards (`Unguarded`) stay, whatever the user does.  The server is not
modelled: a request is answered for the account whose cookie it carried, with anything it may answer, or with 401.

| Code | Actions |
|---|---|
| `handleLogin`, `logout`, `enterHome` | `Login`, `LoggedIn`, `LoginFailed`, `Logout`, `LoggedOut`, `LogoutFailed`, `Expired` |
| `refreshPortfolio`, `runMutation` | `Reload`, `Refreshed`, `RefreshFailed`, `Mutate`, `Mutated`, `MutationFailed` |
| `loadConversationWorkspace`, `loadConversationThread` | `OpenThread`, `ThreadsListed`, `ThreadLoaded`, `ThreadGone`, `ReadFailed` |
| `createConversationThread`, `handleNewQuestion`, `handleQuestion` | `NewQuestion`, `Created`, `CreateFailed`, `Ask`, `Answered`, `Disputed`, `QuestionFailed` |
| `deleteConversationThread` | `Delete`, `Deleted`, `DeleteRefused`, `DeleteFailed` |

Left out: setup and registration, imports, charts, valuations, the paging of a long thread inside one load, rendering.

### ToolLoop

State, by the object of the code that keeps it: the run (`pc`, `requests`, `invocation`, `finalOnly` of
`_ToolBridge`, the clock, the candidate), the calls of the current response (`batch`, one thread
each), the `_AuthorizedToolSession` (`lock`, `used`, `marketObserved`, `observed`), the
`FinancialToolExecutor` (`cache`, and the history variable `fetched`), and the bridge's `trace` and
`sources`.

| Code | Actions |
|---|---|
| framework loop with `UsageLimits`, `prepare_tools` | `AskModel` |
| `observe_attempts` | `Respond` |
| the provider fails or answers nothing usable | `ModelFails` |
| a call to a tool that was not offered | `RejectCall` |
| `_ToolBridge.execute`, up to the executor | `Start` |
| `synchronized_execute`: authorisation, replay, `reserve` | `Enter` |
| `FinancialToolExecutor.execute` and what follows it, to the release of the lock | `Finish` |
| trace, sources and the second look at the clock | `Record` |
| `asyncio.wait_for`, the executor's threads joined | `Timeout`, `Close` |
| `_answer` after the run, `_validate_or_repair` | `CheckCandidate` with `Validate`, `Repair` |

A thread holds `execution_lock` from `Enter` to `Finish` when it goes to a provider; what is decided
without one is a single step.  Admission comes before the lock and the trace after it, so calls of one response
are admitted in order and recorded in any order.

Taken from how the framework is used, and not from its source: synchronous tools of one response run in
parallel threads; a call to an unknown tool with `retries=0` fails the run; with `end_strategy`
"exhaustive" the calls beside a final candidate still run; a cancelled run ends after the threads it
had at work.  Price history and news go the way of a quote without a risk purpose (own cache and
quota, no market context) and are left out as tools; a malformed quote stands for every call that
breaks its contract, `NO_DATA` for every answer of a provider that is neither data nor an error.
Of a candidate the model knows the sources it declares; whether it parses and cites what it declares is left open
(`Validate`), with the same one repair.

## Runs

`tlc -workers 2 -config X.cfg M`; seconds are on two workers.

| Run | Bounds | Shows |
|---|---|---|
| `conversation_safety` | 2 handlers, 2 request ids, 2 questions, 2 turns, lease 1, clock to 3 | the safety and action properties of a thread (2.6 million states, 2 to 3 min) |
| `conversation_live` | 2 handlers, 2 request ids, 1 question, 2 turns, lease 1, clock to 2 | `RunsEnd`, that `Conversation` implements `Transcript`, and that what is read back is exact (1.2 million states, 100 s) |
| `strategy` | 2 transactions, 2 threads, 2 scopes, 2 drafts, 2 request ids, lifetime 1, clock to 1 | version order, one proposal in force, resolutions, expiry, deletion, repeated confirmations, no cycle of locks, and that each scope is an `IntentRegister` |
| `ledger_writes` | 1 ticker, 2 position types, amounts 1 and 2, fee 1, initial cash 1, 4 writes | the ledger's invariants for every sequence of four writes with any dates (90 s) |
| `portfolio_views` | 2 tickers, 2 position types, 2 quanta to a unit, 4 facts over 2 days | no rounding, split, reconciliation or reclassification loses money, and all levels of the views agree |
| `sessions` | 2 emails, 2 requests, session lifetime 1, clock to 1, every earlier state of the accounts | accounts, sessions, ownership and refusals over every route (1.1 million states, 20 s) |
| `page` | 2 accounts, 2 threads each, 4 awaited requests | what is shown is the signed-in account's, and nothing stays disabled (390 thousand states, 20 s) |
| `tool_loop` | 2 tickers, 2 calls in a response, quotas 2 and 1, every set of exposed tools | quotas, the last request, the context of risk quotes, what an answer rests on, that nothing is at work once the run is reported, and that it ends (4.7 million states, 210 s) |
| `ledger_correction_cash`, `ledger_late_sale`, `ledger_torn_read`, `page_stale_answer` | 2 or 3 writes; 2 accounts, 2 awaited requests | expected violations, see Findings |

Why these bounds are enough to meet the interesting cases:

- Two handlers suffice for every race of a thread: each operation is atomic, so a race is one
  operation between two transactions of another `ask`; reads and deletions are not bound to a handler
  and come at any time with any older clock reading.  Two turns give one overdue
  run and its successor; two request ids give a retry next to a new question.  A clock
  to 3 with a lease of 1 lets a late answer meet a turn that was abandoned and replaced.  The
  liveness run has no symmetry and one question text, and a clock to 2: the second turn's lease
  still runs out.
- In Strategy two transactions make every pairwise race, and the deadlock property is about
  cycles of waiting; longer cycles need a longer chain of locks than the two-level order
  thread, scope allows, and the order is the same for every transaction.  One scope with two threads is where the locks overlap in part;
  two scopes are where request ids and versions may be confused.  Two drafts fill one scope with a version that is
  superseded, or two scopes with one each; a third draft makes the run too long for little: what a draft may meet is
  another draft, an active version, or both in turn.
- In the ledger a wrong order needs a fact, one that depends on it, and one entered before
  both; a correction or reclassification of a sold lot makes four.  Amounts of one and two
  tell "too little" from "enough", and initial cash of one lets a purchase fail.
- A torn read needs one write that touches two tables between two statements, and something to sell before.
- In the views two quanta to a unit round every second product; shares of one and three and a price of three make parts
  of a sale that do not divide; two lots sold at once and again make the remainder go to the last.
- Two requests make every race of two transactions.  The accounts, portfolios and sessions there are at the start stand for
  earlier requests, so that a third is not needed to have something to race for.
- On the page four awaited requests are one left over from an earlier sign-in, a sign-out or sign-in, and two of the new one.
- In the tool loop the quotas are the catalogue's.  Two calls at once give every race for the lock, the
  quota and the market context, in up to three responses with calls.  Of two tickers one is asked for with both purposes
  and the other plainly, which is what tells a call's arguments, the executor's key and the quota apart;
  the ticker that is asked with a risk purpose may also be asked for twice.  Candidates
  declare one source: what matters of several is the one that fails.

Every module with variables has a `TypeOK`.  `conversation_safety` checks its own; those of `Strategy`,
`PortfolioLedger`, `LotAccounting`, `PortfolioApi`, `ConversationPage` and `ToolLoop` are theorems, hold at the bounds above too (add `TypeOK` to the cfg), and are left out of
the runs for the properties that say more.

`CHECK_DEADLOCK FALSE` is set where the model stops by itself: the conversation's clock and the
ledger's number of writes are bounded.  The facts of `LotAccounting` and
the requests of `AuthSessions` are bounded too.  The Strategy, ToolLoop and page runs check deadlock as well (a run
that has ended may `Rest`).

`MaxClock`, `MaxWrites`, `MaxRecords`, `MaxDay`, `MaxFlight` and `MaxBatch` are the only bounds of the models that are not sizes of constant
sets; they appear in guards (`Tick`, `Submit`, `StartTurn`, `MayWrite`, `Replayed`, `NextDay`, `MayClick`, `Login`, `Respond`).  `Asked` and
`CandidateRefs` are the calls and candidates the model may choose from.  A question is only asked while
its lease can still end within the clock: a bounded clock would otherwise leave runs no one can end.

### Fairness

`FairSpec` of `Conversation` assumes that time passes (`WF_vars(Tick)`) and that somebody keeps
reading the thread (`WF_vars(ReadThread(clock))`): the page loads the thread whenever it
is shown.  Nothing is assumed of handlers, agents, or clients: a process may die at any step
and no background task ends its turn.  That is what the code relies on: leases are examined
only by requests.

`FairSpec` of `ToolLoop` assumes that time passes, that the timeout, the end of a cancelled run and
the final check are executed (they are code of the run itself), and that a thread at work gets on
(`WF_vars(Work(i))`): every provider client is created with a timeout, and the lock is held by a thread
that works.  Nothing is assumed of the model: it may never answer, and then the clock ends the run.

### Findings

- `ledger_correction_cash`: a sale's fee may exceed its proceeds and replay adds the negative
  difference to cash without a test, so a correction that leaves negative cash is accepted;
  `src/docs/plans/m9-current-holdings-and-batch-editing.md:63` says it is refused.
- `ledger_late_sale`: a sale of a held lot, dated before the lot was bought, makes the replay raise `InvalidLedger`, which the
  route that records a transaction does not catch: the client gets 500 where `src/backend/position_pilot/main.py:1428` promises 409 or 422.
- `ledger_torn_read`: `get_replay_snapshot` runs seven statements at READ COMMITTED, so a read
  that overlaps a sale may see its allocations without it; its docstring promises one batch.
- `page_stale_answer`: `deleteConversationThread` notes no generation, and signing out does not wait for it; its answer
  then changes the page of whoever has signed in since (a 401 signs that account out).
  `src/docs/adr/0009-local-authentication-and-session-owned-portfolio.md:21` says that a change of account clears the state of asynchronous
  writes.  `ShownIsOwn` shows the limit of the damage: no data of the earlier account is ever shown.

Three more things the models reach have no run of their own.  A turn's lease counts from a clock reading made
before the wait for the thread's lock, so that a long wait stores a turn with little left of its lease, or none.  A failed sign-out leaves `conversationPending` set when a thread was
being loaded, and only another sign-out is enabled.  A risk quote that fails keeps the market context's slot of
the quota, so that the context is refused afterwards (`QuotaHolds` shows the other direction: no provider is asked
beyond its quota).

## Proofs

### Conversation

`tlapm ConversationProofs.tla`.  For every set of handlers, requests, questions and turn ids,
and every lease and clock bound, assuming only `TimeAssumption` and `NoneAssumption`:

| Theorem | Says |
|---|---|
| `TypeCorrectness` | `Spec => []TypeOK` |
| `RunningIsUnique` | at most one running turn |
| `RequestIsIdempotent` | at most one turn per request id |
| `TranscriptIsOrdered` | numbering without gaps, and each answer after its question |
| `DeletionLeavesNoRun` | no run on a deleted thread |
| `LeaseIsHonoured` | no turn abandoned before its lease is over, however stale the readings |
| `EndsAreFinal` | ended turns and messages never change |
| `DeletionIsFinal` | nothing is written to a deleted thread |
| `RepliesAreStable` | what was told stays true; replies to one request agree |
| `RevisionIsExact` | the revision is the number of questions, ends and deletions there were |
| `ThreadIsATranscript` | `Spec => ImplementsTranscript`: each step is one of `Transcript` or none |
| `PagesShowEachMessageOnce` | for any length, cursor and page size: the pages partition the messages, newest first, all but the last full |
| `HistoryIsTheNewest` | for any transcript and limits: the bounded history is the newest messages without a hole, within both limits, and no shorter than they force it to be |
| `ThreadsAreListedOnce` | for any two finite lists of threads and page size: what did not change between two pages is on the first or to come, not both |
| `HistoryStaysExact` | `Spec => []HistoryIsExact`, if the turn ids are finitely many |

The argument.  `TypeInv` is `TypeOK` with `AskInv`, which says what a handler's record holds at each
program counter: a handler past `start` has a turn that is stored, carries its request id and,
unless it replays, its question; what it will replay is that turn's stored end.  `DbInv` is the
inductive invariant of the rows: the safety properties, strengthened by
`OpenQuestionLast`, that a running turn's question is the last message of the transcript.
Without it `AnswerFollowsQuestion` is not inductive, as nothing would say that an answer's number
is the question's plus one.  Every action is shown once to be one of a few changes of the rows
(`DbStep`: nothing, settle, a start, a completion, a failure), and the invariant is preserved by
each of those; likewise `Evolves` says how a step may change one turn (not at all, from running to
an end, or into being), from which the lease and the action properties follow.  `ReplyInv` adds
what the replies say, and rests on `EndsAreFinal`.

`RevisionIsExact` needs no more than that the stored turns are finitely many: each change of the rows (`DbStep`) adds to
the revision exactly what it adds to the counted set, a settled turn and the question that replaces it included.

`ThreadIsATranscript` maps the messages to a log by their numbers, which `DbInv` keeps without gaps, so that a message
written is an entry appended; the open question is the running turn's, the last one.  The one obstacle is `start_turn`, which may abandon
an overdue turn and add a question in one transaction: two steps of `Transcript`.  `ExpectedInv` shows that it
does not: no client expects a revision above the thread's, the abandonment advances the revision past what was expected, and so
such a start ends in the conflict; a question is only ever added to a thread at rest (`StartsAtRest`).

What is read back.  `PageIs` computes a page: an interval of the n numbers below the cursor, or of all when there are
no more.  The recursive function of `Pages` is given a value by induction on the length of the transcript
(`TurnsExist`), where a page is put before what follows its cursor (`NextPageShows`).  `_bounded_history` is a fold
over a page, and `Kept` is what its accumulator holds after the newest messages up to one: either all of them, which
fit, or the longest run of them that does, and then the fold has ended.  For the list of threads, `Ahead(T, t)` counts
what is listed before t; the cursor is the page's last thread, and a thread that did not change is on one side of it
in both lists.  `HistoryStaysExact` then only needs that the transcript of a state is among those looked at: `DbInv`
allows two messages to a turn (`LogIsShort`).

### Strategy

`tlapm StrategyProofs.tla`.  For every set of threads, scopes, drafts, request ids and concurrent transactions and every lifetime, from the module's named assumptions on its constants:

| Theorem | Says |
|---|---|
| `TypeCorrect` | `Spec => []TypeOK` |
| `VersionsStayInOrder` | versions are numbered without gaps, only the latest is in force, a confirmed draft has its version |
| `DraftsStayCurrent` | a pending draft is based on the latest version |
| `DeletionEndsDrafts` | a deleted thread has no pending draft |
| `ConfirmationsStayStable` | one version to a request id, and it is the one every retry was told |
| `LocksNeverCycle` | no set of transactions waits for one another |
| `ResolutionIsFinal` | ended drafts do not come back; confirmed ones never change |
| `ConfirmationInTime` | only an unexpired pending draft of a thread not deleted becomes a version |
| `StrategyIsARegister` | every step is one of each scope's `IntentRegister` or none |

The argument.  None of the five invariants is inductive, because a transaction decides on copies of rows (`seen`) that others may
overwrite until it holds its locks, and writes the copies back.  `LockInv` says that a transaction takes its thread before its scope, that a lock has one
holder, that a transaction that reads or writes has all of its locks, and that nobody holds a deleted thread.  `Addressed` says that
what a call was told of a draft before it had any lock (thread, scope, base) is still so, since these fields never
change.  `ReadPending` and its neighbours say what a transaction about to write may still rely on: every draft it copied was pending and has not been
confirmed since, and, where it holds the scope, no other draft of the scope is pending and no version was added.  A deletion holds only its thread, and this
is the case that needs the care: its copies may since have expired or been cancelled, never confirmed, as a confirmation needs the same thread.  With
that every commit is one of four (a proposal, a confirmation, a cancellation, a deletion), and each keeps the other transactions' knowledge
(`CommitKeepsCalls`) and the stored invariant (`StoreInv`).  `LocksNeverCycle` follows from the order alone: in a set of waiting transactions
one that holds a scope waits for nothing, one that waits for a scope waits for such a one, and one that waits for a
thread waits for one of the first two.  For the refinement, `Shows` says what the mapping shows of a stored state (the one pending draft of the scope, the
versions in order); every commit then proposes, withdraws, confirms or is invisible.

### Portfolio ledger

`tlapm PortfolioLedgerProofs.tla`.  For every set of tickers and position types, every numbers of shares, prices, fees and initial cash a user may
enter, forms of any (finite) number of rows, and any number of writes, assuming only `InputAssumption`:

| Theorem | Says |
|---|---|
| `FactsAreTyped` | `Spec => []TypeOK` |
| `LedgerAlwaysReplays` | what is stored can be replayed, however the writes were back-dated |
| `CashAlwaysAccounted` | the cash of the replay is the sum over the tables, as last corrected |
| `SharesAlwaysAccounted` | a lot has what was acquired less what its sales took; none gave more than it had |
| `SalesStayHistory` | a sale keeps its lots and the types they had, whatever is written later |

The argument.  The replay folds over the facts in economic order, and a write puts its fact anywhere in that order, so that one replay says nothing of
the next.  The proof therefore never compares two replays.  `Told(l, S, p)` says what the portfolio p is after the facts S, which are the
earliest of ledger l, in terms of the tables alone: its cash is the initial cash and the sum of what the facts of S bring (`Delta`); its lots are some of those S
brought into being, each with what was acquired less what the sales of S took, and with the type the changes of S leave it;
its sales are those of S, with the types the changes *before* each of them leave.  `ReplayTells` proves it of every replay that ends without an error: `Start` tells it
of no facts, `Apply` of one more fact (one lemma for each kind of fact), and the induction over the initial segments is by a smallest counterexample.
`ReplayIs` shows first that the fold exists, which needs that every set of facts has a last one (`LastIsLatest`).

What the tables must be for that is `Sound`: finitely many rows, an id names one row of one table, and no two changes of type happen at one time.  `IInv` is `TypeOK`,
`Sound(ledger)` and `Replayable(ledger)`.  `Replayable` is kept because `Accepts` asks for it; `Sound` because every row
is named by the time it was written (`Fresh`) and renumbering changes no row but in its number (`TransactionsWith`).  `CashIsAccounted` and
`SharesAreAccounted` are then `Told` for all facts, with the sum taken table by table (`DeltasAre`).  For `SalesAreHistory`, `Grows` says how a write changes the tables: sales and allocations
stay, at their time, and a new change of type is of the present and so after every sale there is; the type a sale's lot had is thus decided by
the same changes before and after.  This is where it matters that `change_lot_classification` takes its time from the clock and that only purchases are corrected.

### Portfolio views

`tlapm SumTheorems.tla` and `tlapm PortfolioViewsProofs.tla`.  For every precision of decimals (`Scale`), every set of tickers,
position types, amounts, prices, fees and lots, ledgers of any length, every quote and every window of a chart, assuming
`AmountAssumption` (the positive amounts the code validates; `UNSPECIFIED`, the type a sale is stored with, is a position type) and
`ViewAssumption`:

| Theorem | Says |
|---|---|
| `LedgerTyped` | `Spec => []TypeOK` |
| `AveragesExplain` | what is held has shares and a cost, its average times its shares is its cost up to one rounding, and a plan has budget left while that cost is below it |
| `ProfitIsEquity` | realized and unrealized profit are the cash and market value there is, less what was put in |
| `SummaryAddsUpAlways` | the totals are the sums over the tickers and over the types listed, and are shown exactly when every held ticker has a usable quote |
| `ChartTells` | every listed ticker can be charted, each trade of the window is on one marker, and a sale's parts add up to it |

The argument.  `EquityInv` says that what was earned less what the lots cost is the cash there is less what was put in: no quote occurs in it, so
that a step only has to account for its own lots.  A purchase moves what it costs from cash to lots, a reconciliation moves the
difference to `stated`, and a sale's results earn its proceeds, less its fee, less the cost that left the lots, whatever the rounding, because the last
lot takes what the others' rounding leaves (`PartsAddUp`) and what a lot releases is the difference of its stored costs.  `LotInv` adds that ids are unique, which makes the last lot
one, and that each lot's cost and average explain each other; a sale costs what remains anew from the average, so that the error
is one rounding's (`CostExplained`, `AverageExplained`) and not one for each sale.  `SaleInv` ties the results to the trades they are
parts of.  The theorems about the views are then about one state: cost by position, and earnings by ticker and by the type the lot
had, are sums over the fibers of a map (`CostsByPosition`, `EarnedByListed`), and the value of the held positions is their cost and
their unrealized profit (`TotalsAre`).

`SumTheorems` is about the community modules' `SumFunction`, a fold by a recursive function whose choice of the next element is
not known.  The library's induction theorems take an operator as a parameter, which the installed provers cannot instantiate; induction is instead
by a smallest counterexample (`SmallestSubset`, from the well-foundedness of the subsets of a finite set), with the property given as the
set of the subsets that have it.  `FoldExists` shows that the function the fold defines exists, and `SumStep` that any element may be taken first.

### Portfolio API

`tlapm PortfolioApiProofs.tla`.  For every set of addresses and requests and every session lifetime, assuming that the
ids there are and `Nothing` are no accounts (`NameAssumption`), and the named assumptions of `AuthSessions`:

| Theorem | Says |
|---|---|
| `RowsAreTyped` | `Spec => []TypeOK` |
| `EmailsAndPortfoliosAreUnique` | one account to an address, one account to a portfolio |
| `AdmissionIsOnLiveSessions` | who is served had a session not ended when the browser sent it, and not expired |
| `RequestsSeeTheirOwnData` | what is read or written is the session's account's |
| `RefusedMeansUnwritten` | a refusal has left nothing behind |

The argument.  `AccountInv` and `SessionInv` are about the rows: unique addresses and portfolios, every session one that was issued, tokens
used once.  `Holds(r)` is what request r may rely on at each of its steps, and is the strengthening: the account row it works
with may be old (`authenticate` read it in an earlier transaction), but an account's portfolio is set once and never
changes, so that the old row is the stored one or the stored one before its setup; a setup between its read and its commit holds
the account's row lock, so that no other can bind a portfolio; what request r has written so far is named by r, and what names it is nowhere while it may still be refused.  One request
moves in a step; `OthersKeep` shows once that the rows' changes leave what the others hold.

### Conversation page

`tlapm ConversationPageProofs.tla`.  For every set of accounts and threads and every number of awaited requests, assuming the
named assumption on `None`:

| Theorem | Says |
|---|---|
| `TypeCorrect` | `Spec => []TypeOK` |
| `NothingOfAnotherIsShown` | what is shown is the signed-in account's, however late an earlier one's answers |
| `MarksAreHeld` | each mark that disables a part of the page is held by a request that is awaited |

The argument.  `IInv` is about the page's state, the cookie and the awaited requests together.  `Own` is `ShownIsOwn` with the cookie and the types.  `Flies`
is what makes it inductive: every awaited request that a generation counter guards was sent for the account that is signed in, a login is awaited only
when nobody is, and what goes on after an answer is one of the continuations its kind has.  `Awaited` is `BusyIsAwaited` for a
flight of any kind, because an answer is handled by helpers (`Rest`, `Read`, `Then`) that are given states and flights which are never the variables'
values: each helper has its own lemma about `Fits`, and an action is a composition of them.

### ToolLoop

`tlapm ToolLoopProofs.tla`.  For every set of tickers, every quota, every number of calls in a response and
whatever the model asks and declares, assuming only `NoTickerAssumption`, `LimitAssumption`
and `InputAssumption`:

| Theorem | Says |
|---|---|
| `ToolLoopTypeCorrect` | `Spec => []TypeOK` |
| `HeadroomIsKept` | the request limit never ends a run; the last request offers no tools |
| `QuotaIsKept` | no tool's providers are asked beyond its quota |
| `AnswerRestsOnSuccess` | a delivered answer declares only sources fetched with success |
| `QuotesBringContext` | a risk quote with data is never failed by the context floor |
| `ReportStaysFinal` | once the run is reported, no call takes quota, asks a provider or records anything |

The argument.  `TypeInv` is `TypeOK` with `ThreadInv` and `LockInv` (a thread that runs is the one that
holds the lock, and its call is well formed and was offered) and `EmptyInv` (no threads outside the
tools).  `QuotaHolds` is not inductive: the quota is taken in `Enter` and the provider is asked
in `Finish`, and the market context may be fetched by a call that did not reserve it.  `QuotaInv`
says that quotes fetched never exceed the quota taken and stay below it while a quote is at the
provider, and that the market context is fetched at most once, as whatever it said is cached.  `HeadroomInv` relates requests to the calls admitted.
`SourceInv` says that wherever a source claims success (recorded, observed, in a thread's result) the
executor holds that success, which never changes once cached; the check of a candidate and of its repair
are the only steps that look at it.  `ContextInv` says that once the market context counts as observed
its source is recorded or in the result of a thread that will record it, and that whatever answers a risk
quote with data (a fetch, a replay of an equal call) came at or after that moment.
`RestInv` says that no thread is between its start and its trace when the run has ended: a thread gets there only while the
run is at its tools, and `Close` waits for it.

In each component the inductive invariant was first checked by TLC, as an invariant of the component's run at its bounds.

### What is only model-checked

- `RunsEnd` and `RunEnds`: liveness under fairness is out of the prover's reach.
- What the runs that expect a violation check: it does not hold.

## Not modelled

- The search in earlier threads for the agent, the numbering of sources, citations: text ranked and rewritten.
- Market data, news, metadata, recognition: one provider call and a parse; nothing is kept,
  except the Finnhub adapter's directory.  What a failed or stale quote does to a valuation is in `PortfolioViews`.
- Prompts, answer policy, payload formats: text.
- Schemas, configuration, migrations, demo data, evaluation harnesses.
- The page's setup, imports, charts and rendering.

## Plan

Proofs: that a `LedgerReads` read which meets no write shows the stored ledger.

Models: `Conversation` and `Strategy` composed, where a draft is proposed by `complete_turn` and cancelled by `delete_thread`, both or neither;
price history and news as tools of their own in `ToolLoop`; the retrieval of earlier messages.
