--------------------------- MODULE PortfolioLedger ---------------------------
(***************************************************************************)
(* The ledger of one user: seven append-only tables of facts, from which   *)
(* cash and lots are derived by replaying all of them in economic order.   *)
(*                                                                         *)
(* Every write holds the user's row from its first read to its commit, so  *)
(* that a write is one step.  It replays the ledger as stored and again    *)
(* with the new fact, at the time the user says it happened, possibly long *)
(* before facts that are already there; the write is refused if the replay *)
(* fails anywhere.  Only accepted writes are steps here.                   *)
(*                                                                         *)
(* Money and shares are natural numbers; cost basis and realized profit,   *)
(* which no write looks at, are left out.                                  *)
(***************************************************************************)
EXTENDS Integers, FiniteSets, FiniteSetsExt, Folds

CONSTANTS
  Ticker,
  PositionType, \* strategy types, UNSPECIFIED among them
  Shares,       \* numbers of shares a user may enter
  Price,        \* prices and amounts of money a user may enter
  Fee,          \* sale fees a user may enter
  InitialCash,
  MaxWrites     \* bound of the model: the number of writes

ASSUME InputAssumption ==
  /\ "UNSPECIFIED" \in PositionType
  /\ Shares \subseteq Nat \ {0} /\ Price \subseteq Nat \ {0}
  /\ Fee \subseteq Nat /\ InitialCash \in Nat /\ MaxWrites \in Nat

VARIABLES
  clock, \* datetime.now(UTC): every write happens later than the one before
  ledger \* the stored facts, one field per table

vars == <<clock, ledger>>

-----------------------------------------------------------------------------
(* Facts.                                                                  *)

\* A fact is named by when it was written and the position it is about; the id
\* of a BUY, an opening position or a reconciliation is also that of its lot.
Key == Ticker \X PositionType
Time == 1..clock - 1
Id == Time \X Key

Transaction == [id : Id, sequence : Nat \ {0}, action : {"BUY", "SELL"}, price : Price,
                shares : Nat \ {0}, fee : Fee \cup {0}, at : Time]
CashEvent == [sequence : Nat \ {0}, event : {"DEPOSIT", "WITHDRAWAL"}, amount : Price, at : Time]
Holding == [id : Id, shares : Shares]
Allocation == [sell : Id, lot : Id, shares : Nat \ {0}]
Change == [lot : Id, type : PositionType, at : Time]
Correction == [buy : Id, price : Price, shares : Shares, at : Time, corrected : Time]

Ledger == [transactions : SUBSET Transaction, cashEvents : SUBSET CashEvent,
           opening : SUBSET Holding, reconciliations : SUBSET Holding,
           allocations : SUBSET Allocation, changes : SUBSET Change,
           corrections : SUBSET Correction]

NoFacts == [transactions |-> {}, cashEvents |-> {}, opening |-> {}, reconciliations |-> {},
            allocations |-> {}, changes |-> {}, corrections |-> {}]

TickerOf(id) == id[2][1]
TypeOf(id) == id[2][2]
WrittenAt(id) == id[1]

TotalShares(S) == SumFunction([a \in S |-> a.shares])

-----------------------------------------------------------------------------
(* Economic order.                                                         *)

Earlier(f, g) == f.at < g.at \/ (f.at = g.at /\ f.sequence < g.sequence)

\* resequence_transactions and resequence_cash_events: numbered by the time they
\* happened, and those of one time in the order they had.
Resequenced(F) ==
  {[f EXCEPT !.sequence = 1 + Cardinality({g \in F : Earlier(g, f)})] : f \in F}

Numbered(F) == {f.sequence : f \in F} = 1..Cardinality(F)

LatestCorrection(l, t) ==
  CHOOSE c \in l.corrections : /\ c.buy = t.id
                               /\ \A d \in l.corrections : d.buy = t.id => d.corrected <= c.corrected

\* apply_buy_transaction_corrections: every BUY as last corrected.
Effective(l) ==
  {IF \E c \in l.corrections : c.buy = t.id
   THEN LET c == LatestCorrection(l, t) IN
        [t EXCEPT !.price = c.price, !.shares = c.shares, !.at = c.at]
   ELSE t : t \in l.transactions}

Buys(T) == {t \in T : t.action = "BUY"}
Sells(T) == T \ Buys(T)

AllocationsOf(l, t) == {a \in l.allocations : a.sell = t.id}

\* What replay_portfolio asks of the tables before it replays them.
WellFormed(l) ==
  /\ Numbered(l.transactions) /\ Numbered(l.cashEvents)
  /\ \A c \in l.corrections : \E t \in Buys(l.transactions) : t.id = c.buy
  /\ \A a \in l.allocations : \E t \in Sells(l.transactions) : t.id = a.sell
  /\ \A a, b \in l.allocations : a.sell = b.sell /\ a.lot = b.lot => a = b

\* All facts on one time line.  Those of one time are replayed table by table:
\* cash events, reconciliations, transactions, changes.
Entries(l) ==
       {[at |-> e.at, table |-> 0, place |-> e.sequence, fact |-> e] : e \in l.cashEvents}
  \cup {[at |-> WrittenAt(r.id), table |-> 1, place |-> 0, fact |-> r] : r \in l.reconciliations}
  \cup {[at |-> t.at, table |-> 2, place |-> t.sequence, fact |-> t] : t \in Effective(l)}
  \cup {[at |-> c.at, table |-> 3, place |-> 0, fact |-> c] : c \in l.changes}

Precedes(e, f) ==
  \/ e.at < f.at
  \/ e.at = f.at /\ e.table < f.table
  \/ e.at = f.at /\ e.table = f.table /\ e.place < f.place

\* Facts that no comparison tells apart are reconciliations of different
\* positions, whose order does not matter.
Last(E) == CHOOSE e \in E : \A f \in E : ~Precedes(e, f)

-----------------------------------------------------------------------------
(* replay_portfolio: p is what the facts replayed so far amount to.        *)

LotOf(id, source, shares) ==
  [id |-> id, type |-> TypeOf(id), source |-> source, left |-> shares]

\* The exception that ends a replay, "none" while there is none.
Failed(error) == [error |-> error, cash |-> 0, lots |-> {}, sold |-> {}]

Start(l) ==
  [error |-> IF WellFormed(l) THEN "none" ELSE "InvalidLedger", cash |-> InitialCash, sold |-> {},
   lots |-> {LotOf(h.id, "OPENING", h.shares) : h \in l.opening}]

Spend(p, amount) == IF amount > p.cash THEN Failed("InsufficientCash") ELSE [p EXCEPT !.cash = @ - amount]

ApplyCashEvent(p, e) ==
  IF e.event = "DEPOSIT" THEN [p EXCEPT !.cash = @ + e.amount] ELSE Spend(p, e.amount)

\* The stated total takes the place of every lot of its position.
ApplyReconciliation(p, r) ==
  [p EXCEPT !.lots = {x \in @ : <<TickerOf(x.id), x.type>> # r.id[2]}
                       \cup {LotOf(r.id, "RECONCILIATION", r.shares)}]

ApplyBuy(p, t) ==
  LET q == Spend(p, t.price * t.shares)
  IN  IF q.error = "none" THEN [q EXCEPT !.lots = @ \cup {LotOf(t.id, "BUY", t.shares)}] ELSE q

Names(p, t, a) == \E x \in p.lots : x.id = a.lot /\ TickerOf(x.id) = TickerOf(t.id)

Covers(p, a) == \E x \in p.lots : x.id = a.lot /\ a.shares <= x.left

\* The allocations are looked at one after the other, in the order of random ids: of two
\* errors either may be the one that is raised, and here the first of these is.
SaleError(p, t, A) ==
  CASE TotalShares(A) # t.shares \/ \E a \in A : ~Names(p, t, a) -> "InvalidLedger"
    [] \E a \in A : ~Covers(p, a) -> "InsufficientShares"
    [] OTHER -> "none"

\* Mutant: the fee is not charged.
NetOfNothing(t) == t.price * t.shares

\* May be negative: nothing compares the fee with the amount, or with the cash.
NetProceeds(t) == t.price * t.shares - t.fee

\* Mutant: a lot that is sold in part keeps its size.
LeftAtFirst(x, A) == IF \E a \in A : a.lot = x.id /\ a.shares = x.left THEN 0 ELSE x.left

Left(x, A) == x.left - TotalShares({a \in A : a.lot = x.id})

ApplySell(l, p, t) ==
  LET A == AllocationsOf(l, t) IN
  IF SaleError(p, t, A) # "none" THEN Failed(SaleError(p, t, A))
  ELSE [p EXCEPT
          !.cash = @ + NetProceeds(t),
          !.lots = {[x EXCEPT !.left = Left(x, A)] : x \in {y \in @ : Left(y, A) > 0}},
          !.sold = @ \cup {[sell |-> t.id, lot |-> x.id, type |-> x.type] :
                             x \in {y \in p.lots : \E a \in A : a.lot = y.id}}]

ApplyChange(p, c) ==
  IF \E x \in p.lots : x.id = c.lot
  THEN [p EXCEPT !.lots = {IF x.id = c.lot THEN [x EXCEPT !.type = c.type] ELSE x : x \in @}]
  ELSE Failed("InvalidLedger")

Apply(l, e, p) ==
  CASE p.error # "none" -> p
    [] p.error = "none" /\ e.table = 0 -> ApplyCashEvent(p, e.fact)
    [] p.error = "none" /\ e.table = 1 -> ApplyReconciliation(p, e.fact)
    [] p.error = "none" /\ e.table = 2 /\ e.fact.action = "BUY" -> ApplyBuy(p, e.fact)
    [] p.error = "none" /\ e.table = 2 /\ e.fact.action = "SELL" -> ApplySell(l, p, e.fact)
    [] p.error = "none" /\ e.table = 3 -> ApplyChange(p, e.fact)

Replay(l) ==
  MapThenFoldSet(LAMBDA e, p : Apply(l, e, p), Start(l), LAMBDA e : e, Last, Entries(l))

Replayable(l) == Replay(l).error = "none"

-----------------------------------------------------------------------------
(* Writes.                                                                 *)

\* Mutant: a write is checked before it is made, not after.
AcceptsBlindly(l) == Replayable(ledger)

Accepts(l) == Replayable(ledger) /\ Replayable(l)

\* The bound of the model.
MayWrite == clock <= MaxWrites

Write(l) ==
  /\ Accepts(l)
  /\ ledger' = l
  /\ clock' = clock + 1

Lots == Replay(ledger).lots

-----------------------------------------------------------------------------
(* The facts an operation adds, as their constructors make them.           *)

NewOpening(key, shares) == [id |-> <<clock, key>>, shares |-> shares]

NewReconciliation(key, shares) == [id |-> <<clock, key>>, shares |-> shares]

\* A purchase has its fee in its price.
NewTransaction(key, action, price, shares, fee, at) ==
  [id |-> <<clock, key>>, sequence |-> Cardinality(ledger.transactions) + 1,
   action |-> action, price |-> price, shares |-> shares,
   fee |-> IF action = "SELL" THEN fee ELSE 0, at |-> at]

NewAllocation(sell, lot, shares) == [sell |-> sell, lot |-> lot, shares |-> shares]

NewCashEvent(event, amount, at) ==
  [sequence |-> Cardinality(ledger.cashEvents) + 1, event |-> event, amount |-> amount, at |-> at]

NewChange(lot, type, at) == [lot |-> lot, type |-> type, at |-> at]

NewCorrection(buy, price, shares, at) ==
  [buy |-> buy, price |-> price, shares |-> shares, at |-> at, corrected |-> clock]

\* The stored facts of the table are renumbered with the new one.
WithTransaction(t) == Resequenced(ledger.transactions \cup {t})

WithCashEvent(e) == Resequenced(ledger.cashEvents \cup {e})

-----------------------------------------------------------------------------
(* Operations.                                                             *)

\* initialize_opening_positions, or setup_portfolio for a user just created.
InitializeOpening(rows) ==
  /\ MayWrite
  /\ ledger = NoFacts
  /\ Write([ledger EXCEPT
              !.opening = {NewOpening(k, rows[k]) : k \in DOMAIN rows}])

\* record_transaction.
RecordBuy(key, price, shares, at) ==
  /\ MayWrite
  /\ Write([ledger EXCEPT
           !.transactions = WithTransaction(NewTransaction(key, "BUY", price, shares, 0, at))])

WithSale(ticker, price, fee, at, from) ==
  LET key == <<ticker, "UNSPECIFIED">>
      A == {NewAllocation(<<clock, key>>, i, from[i]) : i \in DOMAIN from}
  IN  [ledger EXCEPT
         !.transactions = WithTransaction(NewTransaction(key, "SELL", price, TotalShares(A), fee, at)),
         !.allocations = @ \cup A]

\* The lots to sell from are those held now, whenever the sale happened.
MaySell(ticker, from) == \A i \in DOMAIN from : TickerOf(i) = ticker /\ \E x \in Lots : x.id = i

RecordSell(ticker, price, fee, at, from) ==
  /\ MayWrite
  /\ MaySell(ticker, from)
  /\ Write(WithSale(ticker, price, fee, at, from))

RecordCashEvent(event, amount, at) ==
  /\ MayWrite
  /\ Write([ledger EXCEPT !.cashEvents =
           WithCashEvent(NewCashEvent(event, amount, at))])

\* record_position_reconciliations: not where shares that were bought are held.
ReconcilePositions(rows) ==
  /\ MayWrite
  /\ \A k \in DOMAIN rows :
       LET held == {x \in Lots : <<TickerOf(x.id), x.type>> = k}
       IN  Cardinality(held) <= 1 /\ \A x \in held : x.source # "BUY"
  /\ Write([ledger EXCEPT !.reconciliations =
              @ \cup {NewReconciliation(k, rows[k]) : k \in DOMAIN rows}])

\* Mutant: a lot is of its new type from when it was acquired.
SinceAcquired(lot) == WrittenAt(lot)

EffectiveAt(lot) == clock

\* change_lot_classification.
ChangeClassification(lot, type) ==
  /\ MayWrite
  /\ \E x \in Lots : x.id = lot /\ x.type # type
  /\ Write([ledger EXCEPT
              !.changes = @ \cup {NewChange(lot, type, EffectiveAt(lot))}])

\* correct_buy_transaction.
CorrectBuy(id, price, shares, at) ==
  /\ MayWrite
  /\ \E t \in Buys(ledger.transactions) : t.id = id
  /\ \E x \in Lots : x.id = id
  /\ Write([ledger EXCEPT
              !.corrections = @ \cup {NewCorrection(id, price, shares, at)}])

Init == clock = 1 /\ ledger = NoFacts

\* Times the user may give: none in the future.
Past == 1..clock

\* A form has finitely many rows.
Rows == UNION {[S -> Shares] : S \in {K \in SUBSET Key : K # {} /\ IsFiniteSet(K)}}

Next ==
  \/ \E rows \in Rows : InitializeOpening(rows)
  \/ \E k \in Key, c \in Price, n \in Shares, at \in Past : RecordBuy(k, c, n, at)
  \/ \E k \in Ticker, c \in Price, fee \in Fee, at \in Past,
        S \in (SUBSET {x.id : x \in Lots}) \ {{}} :
       \E from \in [S -> Shares] : RecordSell(k, c, fee, at, from)
  \/ \E e \in {"DEPOSIT", "WITHDRAWAL"}, c \in Price, at \in Past : RecordCashEvent(e, c, at)
  \/ \E rows \in Rows : ReconcilePositions(rows)
  \/ \E x \in Lots, y \in PositionType : ChangeClassification(x.id, y)
  \/ \E x \in Lots, c \in Price, n \in Shares, at \in Past : CorrectBuy(x.id, c, n, at)

Spec == Init /\ [][Next]_vars

-----------------------------------------------------------------------------
(* Properties.                                                             *)

\* Every table holds facts of its kind, none of them later than now.
TypeOK ==
  /\ clock \in 1..MaxWrites + 1
  /\ ledger \in Ledger

\* The stored ledger can always be replayed: no sequence of accepted writes, however
\* back-dated, leaves one that every later read and write would refuse.
LedgerReplays == Replayable(ledger)

Sum(S, amount(_)) == SumFunction([x \in S |-> amount(x)])

\* Cash is what the documentation's formula makes of the facts, whatever the order:
\* initial cash and deposits and net sales, less withdrawals and purchases as last
\* corrected; reconciliations and changes of type cost nothing.
CashIsAccounted ==
  LET events(e) == {c \in ledger.cashEvents : c.event = e}
      all == Effective(ledger)
  IN  Replay(ledger).cash =
        InitialCash + Sum(events("DEPOSIT"), LAMBDA c : c.amount)
                    - Sum(events("WITHDRAWAL"), LAMBDA c : c.amount)
                    - Sum(Buys(all), LAMBDA t : t.price * t.shares)
                    + Sum(Sells(all), LAMBDA t : t.price * t.shares - t.fee)

Acquired(lot) ==
  IF \E t \in Effective(ledger) : t.id = lot
  THEN (CHOOSE t \in Effective(ledger) : t.id = lot).shares
  ELSE (CHOOSE h \in ledger.opening \cup ledger.reconciliations : h.id = lot).shares

SoldFrom(lot) == TotalShares({a \in ledger.allocations : a.lot = lot})

\* No share is sold twice or lost: a lot that is held has what was acquired, as last
\* corrected, less what its sales took, and no lot ever gave more than it had.
SharesAreAccounted ==
  /\ \A x \in Lots : x.left = Acquired(x.id) - SoldFrom(x.id)
  /\ \A a \in ledger.allocations : SoldFrom(a.lot) <= Acquired(a.lot)

\* A sale keeps the lots it sold and the type they had, whatever is recorded,
\* back-dated, reconciled, reclassified or corrected afterwards.
SalesAreHistory == [][Replay(ledger).sold \subseteq Replay(ledger').sold]_vars

-----------------------------------------------------------------------------
(* What the documents say and the code does not do.                        *)

\* docs/plans/m9: a correction that would lead to negative cash is refused.
CorrectionsKeepCash ==
  [][ledger'.corrections # ledger.corrections /\ Replay(ledger).cash >= 0
       => Replay(ledger').cash >= 0]_vars

\* The route that records a transaction answers 409 for too little cash or too few shares and
\* 422 for a transaction that breaks a rule: whenever a sale of held lots is said to have
\* happened, it is accepted or its replay fails with an error the route answers.
SalesAreAnswered ==
  \A k \in Ticker, c \in Price, fee \in Fee, at \in Past, S \in (SUBSET {x.id : x \in Lots}) \ {{}} :
    \A from \in [S -> Shares] :
      MayWrite /\ MaySell(k, from) =>
        Replay(WithSale(k, c, fee, at, from)).error \in {"none", "InsufficientCash", "InsufficientShares"}

=============================================================================
