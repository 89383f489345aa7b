----------------------------- MODULE PortfolioApi -----------------------------
(***************************************************************************)
(* The HTTP routes.  A route authenticates the cookie's session, takes the *)
(* portfolio, thread or draft from the account it found (or compares the   *)
(* one it is given with it), calls one service and turns what the service  *)
(* raises into a status.  What services do to their data is in the other   *)
(* modules; here a service reads, or writes once, or raises.               *)
(***************************************************************************)
EXTENDS AuthSessions

VARIABLE facts \* what was written: by which request, to whose data

vars == <<clock, accounts, users, sessions, issued, lock, requests, facts>>

Unchanged == UNCHANGED <<clock, accounts, users, sessions, issued, lock>>

-----------------------------------------------------------------------------
(* What may be asked, and with what.                                       *)

\* Routes that also exist with a portfolio in their path.
PathOps == {"read", "open", "trade", "cash"}
OfPortfolio == PathOps \cup {"view", "reconcile", "lot", "question"}

\* Routes to a thread or a draft of the account.
OfAccount == {"thread", "ask", "intent"}

Operation == Anonymous \cup {"session", "setup", "import"} \cup OfPortfolio \cup OfAccount

\* The cookies browsers hold: sessions a reply has told them of.
Cookie == {Nothing} \cup {i.token : i \in {j \in issued :
                            j.token \in Request => requests[j.token].status = 200}}

\* Tokens that a logout or a later login has told the browser are gone.
Retired == {requests[r].token : r \in {q \in Request :
              requests[q].op \in {"login", "logout"} /\ requests[q].status = 200}}

\* What a request may name: the portfolio in its path, or whose thread or draft it wants.
Nameable(op) ==
  CASE op \in OfAccount -> {a.id : a \in accounts}
    [] op \in PathOps -> {Nothing} \cup users
    [] op \notin OfAccount \cup PathOps -> {Nothing}

Start(r) ==
  /\ In(r, "idle")
  /\ \E op \in Operation :
       \E token \in IF op = "register" THEN {Nothing} ELSE Cookie,
          email \in IF op \in {"register", "login"} THEN Email ELSE {Nothing},
          of \in Nameable(op) :
         Set(r, [Fresh EXCEPT !.op = op, !.pc = "started", !.token = token, !.email = email,
                              !.of = of, !.at = clock,
                              !.retired = token # Nothing /\ token \in Retired])
  /\ Unchanged /\ UNCHANGED facts

-----------------------------------------------------------------------------
(* Who may.                                                                *)

Serving(r, op) == In(r, "serve") /\ requests[r].op = op

Bound(r) == requests[r].account.user # Nothing

\* _require_portfolio_user.
SetupRequired(r) ==
  /\ In(r, "serve") /\ ~Bound(r)
  /\ \/ requests[r].op \in OfPortfolio /\ requests[r].of = Nothing
     \/ requests[r].op = "ask"
  /\ Refuse(r, 409) /\ UNCHANGED facts

\* Mutant: any portfolio that exists may be named.
NamesOne(r) == requests[r].of \in {Nothing} \cup users

\* _require_portfolio_owner, which the routes without a path pass by construction.
Owns(r) == requests[r].of \in {Nothing, requests[r].account.user}

\* Threads and drafts are looked up among those of the account.
Has(r) == requests[r].of = requests[r].account.id

NotFound(r) ==
  /\ In(r, "serve")
  /\ \/ requests[r].op \in PathOps /\ ~Owns(r)
     \/ requests[r].op \in {"thread", "intent"} /\ ~Has(r)
     \/ requests[r].op = "ask" /\ Bound(r) /\ ~Has(r)
  /\ Refuse(r, 404) /\ UNCHANGED facts

\* The portfolio a request is served from.
Portfolio(r) == IF requests[r].of = Nothing THEN requests[r].account.user ELSE requests[r].of

-----------------------------------------------------------------------------
(* What is answered.                                                       *)

\* A service that returns, or one that raises what its route makes a status in refusals.
Returns(r, data) == Answer(r, 200, data) /\ Unchanged /\ UNCHANGED facts
Raises(r, refusals) == \E status \in refusals : Refuse(r, status) /\ UNCHANGED facts

\* A write is committed before it is answered.
Writes(r, data) ==
  /\ facts' = facts \cup {[by |-> r, of |-> data]}
  /\ Answer(r, 200, data) /\ Unchanged

OnPortfolio(r, op) == Serving(r, op) /\ Bound(r) /\ Owns(r)

\* Also the asset searches and the screenshot, which need a session and nothing else.
ServeSession(r) == Serving(r, "session") /\ Returns(r, requests[r].account.id)

\* recognize_import_text: of a portfolio, only if its opening state is still open.
ServeImport(r) ==
  /\ Serving(r, "import")
  /\ Returns(r, Nothing) \/ (Bound(r) /\ Raises(r, {409}))

\* Mutant: what the read raises is told as if the setup had been refused.
SetupCaughtAll == {422}

\* setup_account_portfolio reads the portfolio again after the commit; a failure to do so
\* is told apart from a refusal of the setup.
SetupReadFails == {500}

ServeSetup(r) ==
  /\ In(r, "bound")
  /\ Returns(r, r) \/ Raises(r, SetupReadFails)

\* Snapshots; 500 when the tables read do not replay.
ServeRead(r) ==
  /\ OnPortfolio(r, "read")
  /\ Returns(r, Portfolio(r)) \/ Raises(r, {500})

\* The list of one table, which is not replayed.
ServeList(r) == OnPortfolio(r, "read") /\ Returns(r, Portfolio(r))

\* Valuation, accounting, summary and chart.
ServeView(r) ==
  /\ OnPortfolio(r, "view")
  /\ Returns(r, Portfolio(r)) \/ Raises(r, {404, 422, 500})

ServeOpening(r) ==
  /\ OnPortfolio(r, "open")
  /\ Writes(r, Portfolio(r)) \/ Raises(r, {409, 422})

\* InvalidLedger has no handler here.
ServeTrade(r) ==
  /\ OnPortfolio(r, "trade")
  /\ Writes(r, Portfolio(r)) \/ Raises(r, {409, 422, 500})

ServeCash(r) ==
  /\ OnPortfolio(r, "cash")
  /\ Writes(r, Portfolio(r)) \/ Raises(r, {409, 422})

ServeReconcile(r) ==
  /\ OnPortfolio(r, "reconcile")
  /\ Writes(r, Portfolio(r)) \/ Raises(r, {422})

\* Reclassify or correct a lot, which is looked for among those of the portfolio.
ServeLot(r) ==
  /\ OnPortfolio(r, "lot")
  /\ Writes(r, Portfolio(r)) \/ Raises(r, {409, 422})

ServeQuestion(r) ==
  /\ OnPortfolio(r, "question")
  /\ Returns(r, Portfolio(r)) \/ Raises(r, {422, 502, 503})

\* List, open and read threads; a read may end a turn that is overdue.
ServeThread(r) ==
  /\ Serving(r, "thread") /\ Has(r)
  /\ \/ Returns(r, requests[r].of)
     \/ Writes(r, requests[r].of)
     \/ Raises(r, {404, 422})

\* Also while a turn is running: then it is refused.
ServeDelete(r) ==
  /\ Serving(r, "thread") /\ Has(r)
  /\ Writes(r, requests[r].of) \/ Raises(r, {404, 409})

\* _raise_failure_completion: the provider's fault or another.
AgentFailed == {502, 503}

\* A question may be stored and its answer fail, also because its thread was deleted meanwhile.
ServeAsk(r) ==
  /\ Serving(r, "ask") /\ Bound(r) /\ Has(r)
  /\ \/ Writes(r, requests[r].of)
     \/ Raises(r, {404, 409, 422, 502})
     \/ /\ facts' = facts \cup {[by |-> r, of |-> requests[r].of]}
        /\ \E status \in {404, 409, 422} \cup AgentFailed : Answer(r, status, Nothing)
        /\ Unchanged

\* List, read, confirm and cancel drafts.
ServeIntent(r) ==
  /\ Serving(r, "intent") /\ Has(r)
  /\ \/ Returns(r, requests[r].of)
     \/ Writes(r, requests[r].of)
     \/ Raises(r, {404, 409, 422})

-----------------------------------------------------------------------------
(* The system.                                                             *)

\* The reply is lost, with the process or with the connection; what was committed stays
\* and what was not is rolled back.
Lose(r) ==
  /\ requests[r].pc \notin {"idle", "done"}
  /\ Answer(r, Lost, Nothing)
  /\ lock' = [id \in DOMAIN lock |-> IF lock[id] = r THEN Nothing ELSE lock[id]]
  /\ UNCHANGED <<clock, accounts, users, sessions, issued, facts>>

Tick ==
  /\ clock < MaxClock
  /\ clock' = clock + 1
  /\ UNCHANGED <<accounts, users, sessions, issued, lock, requests, facts>>

\* Accounts of earlier days, with or without a portfolio and a session that still runs.
Init ==
  /\ clock = 0
  /\ \E old \in SUBSET Email : \E set, in \in SUBSET old :
       /\ accounts = {[id |-> e, email |-> e, user |-> IF e \in set THEN e ELSE Nothing] : e \in old}
       /\ users = set
       /\ sessions \in {{[token |-> e, account |-> e, expires |-> t] : e \in in} : t \in 1..Lifetime}
  /\ issued = sessions
  /\ lock = [id \in Id |-> Nothing]
  /\ requests = [r \in Request |-> Fresh]
  /\ facts = {}

Next ==
  \/ \E r \in Request :
       \/ Start(r) \/ Lose(r)
       \/ /\ \/ RegisterChecks(r) \/ RegisterInserts(r) \/ Login(r) \/ LoginRefused(r) \/ Logout(r)
             \/ FindSession(r) \/ FindAccount(r)
             \/ SetupReads(r) \/ SetupRefused(r) \/ SetupBinds(r)
          /\ UNCHANGED facts
       \/ SetupRequired(r) \/ NotFound(r)
       \/ ServeSession(r) \/ ServeImport(r) \/ ServeSetup(r) \/ ServeRead(r) \/ ServeList(r) \/ ServeView(r)
       \/ ServeOpening(r) \/ ServeTrade(r) \/ ServeCash(r) \/ ServeReconcile(r) \/ ServeLot(r)
       \/ ServeQuestion(r) \/ ServeThread(r) \/ ServeDelete(r) \/ ServeAsk(r) \/ ServeIntent(r)
  \/ Tick

Spec == Init /\ [][Next]_vars

-----------------------------------------------------------------------------
(* Properties.                                                             *)

TypeOK ==
  /\ clock \in 0..MaxClock
  /\ accounts \subseteq Account /\ users \subseteq Id
  /\ sessions \subseteq issued /\ issued \subseteq Session
  /\ lock \in [Id -> Request \cup {Nothing}]
  /\ facts \subseteq [by : Request, of : Id]
  /\ \A r \in Request : requests[r].status \in Status

\* An email registers once, whatever registrations race; an account gets at most one
\* portfolio, whatever setups race, and no portfolio is left without its account.
OneAccountOnePortfolio ==
  /\ \A a, b \in accounts : a.email = b.email => a = b
  /\ \A u \in users : Cardinality({a \in accounts : a.user = u}) = 1
  /\ \A a \in accounts : a.user \in users \cup {Nothing}

Served(r) == requests[r].pc = "done" /\ requests[r].account \in Account

\* A request is let in only on a session that had not been logged out of or replaced when
\* its browser sent it, as that browser was told, and that had not expired: neither what
\* another request deletes meanwhile nor an expiry half way makes a dead session good.
OnlyLiveSessionsAreAdmitted ==
  \A r \in Request : In(r, "account") \/ In(r, "serve") \/ Served(r) =>
    /\ ~requests[r].retired
    /\ \E s \in issued : s.token = requests[r].token /\ (In(r, "account") => requests[r].at < s.expires)

\* Whose the data of an account are: its own, and those of the portfolio it set up.
Mine(account) == {account.id, account.user} \cup {a.user : a \in {b \in accounts : b.id = account.id}}

\* Whatever portfolio, thread or draft a request names, and however old the account row
\* it works with: it is answered with, and changes, only data of its session's account.
DataIsTheCallers ==
  \A r \in Request : Served(r) =>
    /\ \E s \in issued : s.token = requests[r].token /\ s.account = requests[r].account.id
    /\ requests[r].data \in Mine(requests[r].account) \cup {Nothing}
    /\ \A f \in facts : f.by = r => f.of \in Mine(requests[r].account) \ {Nothing}

Left(r) ==
  \/ \E a \in accounts : r \in {a.id, a.user}
  \/ \E s \in issued : s.token = r
  \/ r \in users
  \/ \E f \in facts : f.by = r

\* A request about accounts or the portfolio that is told it was refused has changed nothing,
\* so that it may be corrected and sent again; only a reply that says the server failed, or
\* none, leaves that open.
RefusalsWriteNothing ==
  \A r \in Request :
    requests[r].status \in {401, 404, 409, 422} /\ requests[r].op # "ask" => ~Left(r)

=============================================================================
