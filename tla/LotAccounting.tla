---------------------------- MODULE LotAccounting ----------------------------
(***************************************************************************)
(* What a portfolio's lots cost and what its sales earned: the loop of     *)
(* replay_portfolio over the facts of one ledger in economic order, with   *)
(* the money PortfolioLedger leaves out.  A step is one fact; a fact that  *)
(* the loop would refuse is never stored and is no step.                   *)
(*                                                                         *)
(* A decimal is the integer of its quanta, and Scale is the number of      *)
(* quanta in 1 (10^8 in the code).  Products and quotients are rounded     *)
(* half to even to a whole quantum, which is where the money could go      *)
(* missing.                                                                *)
(***************************************************************************)
EXTENDS Integers, FiniteSets, FiniteSetsExt, Sequences

CONSTANTS
  Ticker,
  PositionType,
  Scale,
  Shares, Price, Fee, \* quantities, prices and charges a user may enter
  InitialCash,
  LotId,              \* random identifiers; only their order matters
  MaxRecords, MaxDay  \* bounds of the model: facts, and days they are spread over

ASSUME AmountAssumption ==
  /\ Scale \in Nat \ {0}
  /\ Shares \subseteq Nat \ {0} /\ Price \subseteq Nat \ {0} /\ Fee \subseteq Nat
  /\ LotId \subseteq Nat /\ {InitialCash, MaxRecords, MaxDay} \subseteq Nat
  /\ "UNSPECIFIED" \in PositionType

VARIABLES
  cash,     \* available_cash, total_deposits and total_withdrawals
  lots,     \* the lots held
  results,  \* what each part of each sale earned
  trades,   \* the effective transactions, in economic order
  stated,   \* history: cost that entered by a user's statement, not by a purchase
  records,  \* the number of facts replayed
  day       \* the market day of the next fact

vars == <<cash, lots, results, trades, stated, records, day>>

-----------------------------------------------------------------------------
(* Decimals.                                                               *)

\* quantize(ROUND_HALF_EVEN) of n/d.
Rounded(n, d) ==
  LET whole == n \div d
      twice == 2 * (n % d)
  IN  IF twice > d \/ (twice = d /\ whole % 2 = 1) THEN whole + 1 ELSE whole

\* calculate_amount, which refuses an amount that is not positive.
Amount(price, shares) == Rounded(price * shares, Scale)

Average(cost, shares) == Rounded(cost * Scale, shares)

-----------------------------------------------------------------------------
(* The loop.                                                               *)

\* _LotAccumulator.
Lot == [id : LotId, ticker : Ticker, type : PositionType,
        source : {"OPENING", "RECONCILIATION", "BUY"},
        left : Nat, cost : Nat, average : Nat]

Trade == [action : {"BUY", "SELL"}, ticker : Ticker, type : PositionType,
          shares : Nat, amount : Nat, fee : Fee, day : 0..MaxDay]

Result == [sale : 1..MaxRecords, lot : LotId, ticker : Ticker, type : PositionType,
           source : {"OPENING", "RECONCILIATION", "BUY"}, shares : Nat,
           gross : Int, fee : Int, net : Int, released : Int, pnl : Int]

\* A row of a screenshot or of the opening state: shares at an average cost.
Stated(id, k, y, source, shares, average) ==
  [id |-> id, ticker |-> k, type |-> y, source |-> source, left |-> shares,
   cost |-> Amount(average, shares), average |-> average]

Unused(id) == (\A x \in lots : x.id # id) /\ (\A r \in results : r.lot # id)

Cost(L) == SumFunction([x \in L |-> x.cost])

\* Opening rows are unique by position; the loop starts from their lots.
Init ==
  /\ \/ lots = {}
     \/ \E id \in LotId, k \in Ticker, y \in PositionType, n \in Shares, c \in Price :
          lots = {Stated(id, k, y, "OPENING", n, c)}
  /\ \A x \in lots : x.cost > 0
  /\ cash = [available |-> InitialCash, deposits |-> 0, withdrawals |-> 0]
  /\ stated = Cost(lots)
  /\ results = {} /\ trades = << >> /\ records = 0 /\ day = 0

Replayed == records < MaxRecords /\ records' = records + 1 /\ UNCHANGED day

Deposit(amount) ==
  /\ Replayed
  /\ cash' = [cash EXCEPT !.available = @ + amount, !.deposits = @ + amount]
  /\ UNCHANGED <<lots, results, trades, stated>>

Withdraw(amount) ==
  /\ Replayed
  /\ amount <= cash.available
  /\ cash' = [cash EXCEPT !.available = @ - amount, !.withdrawals = @ + amount]
  /\ UNCHANGED <<lots, results, trades, stated>>

\* The stated total takes the place of every lot of its position.
Reconcile(id, k, y, shares, average) ==
  LET new == Stated(id, k, y, "RECONCILIATION", shares, average)
      replaced == {x \in lots : x.ticker = k /\ x.type = y}
  IN  /\ Replayed
      /\ Unused(id) /\ new.cost > 0
      /\ lots' = (lots \ replaced) \cup {new}
      /\ stated' = stated + new.cost - Cost(replaced)
      /\ UNCHANGED <<cash, results, trades>>

\* A lot is of another type; what was sold from it keeps the type it had.
Reclassify(x, y) ==
  /\ Replayed
  /\ lots' = (lots \ {x}) \cup {[x EXCEPT !.type = y]}
  /\ UNCHANGED <<cash, results, trades, stated>>

\* What a BUY takes from cash is what its lot costs.  A commission is charged by the legacy
\* schedule only; a BUY entered today has none.
Buy(id, k, y, price, shares, fee) ==
  LET amount == Amount(price, shares)
      cost == amount + fee
  IN  /\ Replayed
      /\ Unused(id) /\ amount > 0
      /\ cost <= cash.available
      /\ cash' = [cash EXCEPT !.available = @ - cost]
      /\ lots' = lots \cup {[id |-> id, ticker |-> k, type |-> y, source |-> "BUY",
                             left |-> shares, cost |-> cost, average |-> Average(cost, shares)]}
      /\ trades' = Append(trades, [action |-> "BUY", ticker |-> k, type |-> y, shares |-> shares,
                                   amount |-> amount, fee |-> fee, day |-> day])
      /\ UNCHANGED <<results, stated>>

\* Mutant: every lot's part is rounded, the last one's too.
PartRounded(total, from, x) == Rounded(total * from[x], SumFunction(from))

\* What of a sale's proceeds or fee falls to lot x: its share by number of shares, the last lot in
\* the order of the ids taking what the others leave.  It may be negative.
Part(total, from, x) ==
  LET sold == SumFunction(from)
      last == CHOOSE z \in DOMAIN from : \A u \in DOMAIN from : u.id <= z.id
      part(z) == Rounded(total * from[z], sold)
  IN  IF x = last THEN total - SumFunction([z \in DOMAIN from \ {last} |-> part(z)]) ELSE part(x)

\* Mutant: a lot sold in part keeps its cost.
CostLeftAll(x, n) == IF n = x.left THEN 0 ELSE x.cost

\* What remains of a lot costs its average again, rounded anew.
CostLeft(x, n) == IF n = x.left THEN 0 ELSE Amount(x.average, x.left - n)

ResultOf(amount, fee, from, x) ==
  LET gross == Part(amount, from, x)
      charged == Part(fee, from, x)
      released == x.cost - CostLeft(x, from[x])
  IN  [sale |-> Len(trades) + 1, lot |-> x.id, ticker |-> x.ticker, type |-> x.type,
       source |-> x.source, shares |-> from[x], gross |-> gross, fee |-> charged,
       net |-> gross - charged, released |-> released, pnl |-> gross - charged - released]

\* from: how many shares are sold from each lot.  What remains of a lot must cost something.
Sell(k, price, fee, from) ==
  LET sold == SumFunction(from)
      amount == Amount(price, sold)
  IN  /\ Replayed
      /\ amount > 0
      /\ \A x \in DOMAIN from : from[x] <= x.left
      /\ \A x \in DOMAIN from : from[x] < x.left => Amount(x.average, x.left - from[x]) > 0
      /\ cash' = [cash EXCEPT !.available = @ + amount - fee]
      /\ lots' = (lots \ DOMAIN from) \cup
                   {[x EXCEPT !.left = @ - from[x], !.cost = CostLeft(x, from[x])] :
                      x \in {z \in DOMAIN from : from[z] < z.left}}
      /\ results' = results \cup {ResultOf(amount, fee, from, x) : x \in DOMAIN from}
      /\ trades' = Append(trades, [action |-> "SELL", ticker |-> k, type |-> "UNSPECIFIED",
                                   shares |-> sold, amount |-> amount, fee |-> fee, day |-> day])
      /\ UNCHANGED stated

\* The next fact happened a day later.
NextDay ==
  /\ day < MaxDay
  /\ day' = day + 1
  /\ UNCHANGED <<cash, lots, results, trades, stated, records>>

LotsOf(k) == {x \in lots : x.ticker = k}

Next ==
  \/ \E c \in Price : Deposit(c) \/ Withdraw(c)
  \/ \E id \in LotId, k \in Ticker, y \in PositionType, n \in Shares, c \in Price :
       Reconcile(id, k, y, n, c)
  \/ \E x \in lots, y \in PositionType : y # x.type /\ Reclassify(x, y)
  \/ \E id \in LotId, k \in Ticker, y \in PositionType, c \in Price, n \in Shares, fee \in Fee :
       Buy(id, k, y, c, n, fee)
  \/ \E k \in Ticker, c \in Price, fee \in Fee :
       \E S \in (SUBSET LotsOf(k)) \ {{}} : \E from \in [S -> Shares] : Sell(k, c, fee, from)
  \/ NextDay

Spec == Init /\ [][Next]_vars

-----------------------------------------------------------------------------
(* Properties.                                                             *)

\* replay_portfolio keeps records of these kinds.
TypeOK ==
  /\ cash \in [available : Int, deposits : Nat, withdrawals : Nat]
  /\ lots \subseteq Lot /\ results \subseteq Result
  /\ stated \in Int /\ records \in 0..MaxRecords /\ day \in 0..MaxDay
  /\ \A n \in DOMAIN trades : trades[n] \in Trade

=============================================================================
