---------------------------- MODULE PortfolioViews ----------------------------
(***************************************************************************)
(* What the user is shown of one replay: realized profit by sale, type and *)
(* ticker, the valuation at the quotes of the moment, the summary that     *)
(* joins the two, the chart of a ticker with its trades, and what a        *)
(* position plan leaves to spend.  All are functions of the state of       *)
(* LotAccounting and of what the market data provider answers.             *)
(***************************************************************************)
EXTENDS LotAccounting

CONSTANTS
  QuotePrice,     \* prices the provider may quote
  Age, MaxAge,    \* ages of a quote, negative if the provider's clock is ahead
  Window,         \* the chart's ranges, in days
  MaxStaleness,   \* days a last bar may lie back
  Budget          \* budgets of a position plan

ASSUME ViewAssumption ==
  /\ QuotePrice \subseteq Nat \ {0} /\ Age \subseteq Int /\ MaxAge \in Nat
  /\ Window \subseteq Nat /\ MaxStaleness \in Nat /\ Budget \subseteq Nat \ {0}

-----------------------------------------------------------------------------
(* Positions: the lots of one ticker and type.                             *)

Position == Ticker \X PositionType

Of(p) == {x \in lots : x.ticker = p[1] /\ x.type = p[2]}
Held == {p \in Position : Of(p) # {}}
HeldTickers == {x.ticker : x \in lots}
TypesOf(k) == {p \in Held : p[1] = k}

SharesOf(L) == SumFunction([x \in L |-> x.left])

\* A position that is one reconciled lot keeps the average it was stated with.
PositionOf(p) ==
  [shares |-> SharesOf(Of(p)), cost |-> Cost(Of(p)),
   average |-> IF \E x \in Of(p) : Of(p) = {x} /\ x.source = "RECONCILIATION"
               THEN (CHOOSE x \in Of(p) : TRUE).average
               ELSE Average(Cost(Of(p)), SharesOf(Of(p)))]

\* PositionFundingSnapshot: a plan's budget is spent by what the position still costs.
Funding(p, budget) ==
  LET open == IF p \in Held THEN PositionOf(p).cost ELSE 0
  IN  [open |-> open, remaining |-> Max({budget - open, 0})]

-----------------------------------------------------------------------------
(* Realized profit.                                                        *)

Realized(R) ==
  [gross |-> SumFunction([r \in R |-> r.gross]), fee |-> SumFunction([r \in R |-> r.fee]),
   net |-> SumFunction([r \in R |-> r.net]), released |-> SumFunction([r \in R |-> r.released]),
   pnl |-> SumFunction([r \in R |-> r.pnl])]

PartsOf(n) == {r \in results : r.sale = n}
SoldBy(k) == {r \in results : r.ticker = k}

\* Mutant: a sale is counted under the type its lot has today.
SoldAsToday(p) ==
  {r \in SoldBy(p[1]) : \E x \in lots : x.id = r.lot /\ x.type = p[2]}

\* Sales are counted under the type their lot had then.
SoldAs(p) == {r \in SoldBy(p[1]) : r.type = p[2]}

-----------------------------------------------------------------------------
(* Valuation.                                                              *)

\* What get_current_quote may answer: any failure is as good as another.
Quote == [status : {"OK"}, price : QuotePrice, age : Age] \cup {[status |-> "NO_DATA"]}

NoPrice == 0

\* A quote that is too old, or from the future, is as none.
CurrentPrice(q) == IF q.status = "OK" /\ q.age \in 0..MaxAge THEN q.price ELSE NoPrice

\* calculate_valuation_metrics.
Valued(L, price) ==
  LET market == Rounded(SharesOf(L) * price, Scale)
  IN  IF price = NoPrice THEN [priced |-> FALSE, market |-> 0, unrealized |-> 0]
      ELSE [priced |-> TRUE, market |-> market, unrealized |-> market - Cost(L)]

-----------------------------------------------------------------------------
(* The summary.  quotes: what the one request for each held ticker gets.   *)

Metrics(realized, P, quotes) ==
  LET value == [p \in P |-> Valued(Of(p), CurrentPrice(quotes[p[1]]))]
      complete == \A p \in P : value[p].priced
  IN  [realized |-> realized, complete |-> complete,
       unrealized |-> IF complete THEN SumFunction([p \in P |-> value[p].unrealized]) ELSE 0,
       market |-> IF complete THEN SumFunction([p \in P |-> value[p].market]) ELSE 0]

Profit(m) == m.realized + m.unrealized

TypeSummary(p, quotes) == Metrics(Realized(SoldAs(p)).pnl, {p} \cap Held, quotes)

TickerSummary(k, quotes) == Metrics(Realized(SoldBy(k)).pnl, TypesOf(k), quotes)

Totals(quotes) == Metrics(Realized(results).pnl, Held, quotes)

\* A ticker that was sold out is still listed.
Listed == HeldTickers \cup {r.ticker : r \in results}
ListedTypes(k) == {p \in Position : p[1] = k /\ (p \in Held \/ SoldAs(p) # {})}

-----------------------------------------------------------------------------
(* The chart.                                                              *)

Chartable == HeldTickers \cup {trades[n].ticker : n \in DOMAIN trades}

ChartCost(k) ==
  [shares |-> SumFunction([p \in TypesOf(k) |-> PositionOf(p).shares]),
   cost |-> SumFunction([p \in TypesOf(k) |-> PositionOf(p).cost])]

\* The last day whose session is over, for a window that ends with day anchor; closed tells
\* whether today's is.
LastCompleted(anchor, closed) == IF anchor = day /\ ~closed THEN anchor - 1 ELSE anchor

Bars(days, start, anchor, closed) ==
  {d \in days : d \in start..anchor /\ d <= LastCompleted(anchor, closed)}

ChartStatus(bars, anchor, closed) ==
  IF bars = {} THEN "NO_DATA"
  ELSE IF LastCompleted(anchor, closed) - Max(bars) > MaxStaleness THEN "STALE" ELSE "OK"

\* Mutant: the first day of the window is left out.
InsideWindow(d, start, anchor) == start < d /\ d <= anchor

InWindow(d, start, anchor) == start <= d /\ d <= anchor

\* The trades of one market day, whether or not there is a bar to put them on.
Markers(k, start, anchor, bars) ==
  LET shown == {n \in DOMAIN trades : trades[n].ticker = k /\ InWindow(trades[n].day, start, anchor)}
  IN  {[day |-> d, onBar |-> d \in bars, trades |-> {n \in shown : trades[n].day = d}] :
         d \in {trades[n].day : n \in shown}}

\* days: those the provider returns bars of, none if it fails.
Chart(k, window, anchor, days, closed) ==
  LET start == anchor - window
      bars == Bars(days, start, anchor, closed)
  IN  [status |-> ChartStatus(bars, anchor, closed), bars |-> bars, cost |-> ChartCost(k),
       markers |-> Markers(k, start, anchor, bars)]

-----------------------------------------------------------------------------
(* Properties.                                                             *)

Distance(a, b) == IF a < b THEN b - a ELSE a - b

Explains(average, cost, shares) ==
  2 * Distance(cost * Scale, average * shares) <= Max({shares, Scale})

\* What is held has shares and a cost, so that no view of it divides by zero, and the cost of a
\* lot and of a position is its average times its shares up to the rounding of one operation,
\* however often and in whatever parts it was sold: the error does not accumulate over sales.
\* A plan has budget left exactly while that cost has not reached it.
AverageExplainsCost ==
  /\ \A x \in lots : x.left > 0 /\ x.cost > 0 /\ Explains(x.average, x.cost, x.left)
  /\ \A p \in Held :
       LET q == PositionOf(p) IN
       /\ Explains(q.average, q.cost, q.shares)
       /\ \A b \in Budget : Funding(p, b).remaining > 0 <=> q.cost < b

Quotes == [HeldTickers -> Quote]

\* Money is neither made nor lost by rounding, splitting a sale over lots, selling a lot in
\* parts, reconciling or reclassifying: when every held ticker has a usable quote, the total
\* profit the summary shows is the cash and market value there is, less what was put in.
ProfitIsEquityGained ==
  \A quotes \in Quotes :
    LET t == Totals(quotes) IN
    t.complete => Profit(t) = cash.available + t.market - stated
                                - (InitialCash + cash.deposits - cash.withdrawals)

\* The summary's levels tell one story: totals are shown exactly when each held ticker has a
\* usable quote, tickers sold out need none, and then profit and value are the sums over the
\* tickers and over the types they list, sales counted under the type their lot had then.
SummaryAddsUp ==
  \A quotes \in Quotes :
    LET t == Totals(quotes)
        tickers == [k \in Listed |-> TickerSummary(k, quotes)]
        types == [p \in UNION {ListedTypes(k) : k \in Listed} |-> TypeSummary(p, quotes)]
    IN  /\ t.complete <=> \A k \in Listed : tickers[k].complete
        /\ t.complete <=> \A k \in HeldTickers :
             quotes[k].status = "OK" /\ 0 <= quotes[k].age /\ quotes[k].age <= MaxAge
        /\ t.realized = SumFunction([k \in Listed |-> tickers[k].realized])
        /\ t.realized = SumFunction([p \in DOMAIN types |-> types[p].realized])
        /\ t.complete => Profit(t) = SumFunction([p \in DOMAIN types |-> Profit(types[p])])

\* Every ticker that is listed can be charted; while today's session is open its chart shows
\* each trade of the window once, on a bar unless it is of today, and a sale has parts that add
\* up to its shares, its amount and its fee.
ChartTellsEveryTrade ==
  /\ Listed \subseteq Chartable
  /\ \A k \in Chartable, w \in Window, anchor \in 0..day :
       LET marks == Chart(k, w, anchor, 0..day, FALSE).markers IN
       \A n \in DOMAIN trades :
         LET t == trades[n]
             on == {m \in marks : n \in m.trades}
         IN  /\ on # {} <=> t.ticker = k /\ t.day >= anchor - w /\ t.day <= anchor
             /\ \A m, o \in on : m = o /\ m.day = t.day /\ (m.onBar <=> t.day < day)
  /\ \A n \in DOMAIN trades :
       trades[n].action = "SELL" =>
         /\ SumFunction([r \in PartsOf(n) |-> r.shares]) = trades[n].shares
         /\ Realized(PartsOf(n)).gross = trades[n].amount
         /\ Realized(PartsOf(n)).fee = trades[n].fee

=============================================================================
