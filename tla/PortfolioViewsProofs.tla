-------------------------- MODULE PortfolioViewsProofs --------------------------
(* Theorems about PortfolioViews and the ledger loop it shows, for every      *)
(* precision of decimals, every amount a user may enter and every quote.      *)
EXTENDS PortfolioViews, SumTheorems

(***************************************************************************)
(* Rounding.                                                               *)
(***************************************************************************)

\* Rounding is off by half a quantum at most.
LEMMA RoundedIs ==
  ASSUME NEW n \in Int, NEW d \in Nat \ {0}
  PROVE  /\ Rounded(n, d) \in Int
         /\ n \in Nat => Rounded(n, d) \in Nat
         /\ 2 * (Rounded(n, d) * d - n) <= d
         /\ 2 * (n - Rounded(n, d) * d) <= d
<1> DEFINE q == n \div d
           r == n % d
<1>1. q \in Int /\ r \in 0..d - 1 /\ n = q * d + r
  OBVIOUS
<1>2. n \in Nat => q \in Nat
  OBVIOUS
<1> HIDE DEF q, r
<1>3. Rounded(n, d) = IF 2 * r > d \/ (2 * r = d /\ q % 2 = 1) THEN q + 1 ELSE q
  BY DEF Rounded, q, r
<1>4. (q + 1) * d = q * d + d
  BY <1>1
<1>5. CASE Rounded(n, d) = q /\ 2 * r <= d
  <2> DEFINE m == q * d
  <2>1. m \in Int /\ n = m + r /\ Rounded(n, d) * d = m
    BY <1>1, <1>5
  <2> HIDE DEF m
  <2> QED BY <1>1, <1>2, <1>5, <2>1
<1>6. CASE Rounded(n, d) = q + 1 /\ 2 * r >= d
  <2> DEFINE m == q * d
  <2>1. m \in Int /\ n = m + r /\ Rounded(n, d) * d = m + d
    BY <1>1, <1>4, <1>6
  <2> HIDE DEF m
  <2> QED BY <1>1, <1>2, <1>6, <2>1
<1> QED BY <1>1, <1>3, <1>5, <1>6

LEMMA MaxIs ==
  ASSUME NEW a \in Int, NEW b \in Int
  PROVE  Max({a, b}) \in {a, b} /\ Max({a, b}) >= a /\ Max({a, b}) >= b
<1>1. \E x \in {a, b} : \A y \in {a, b} : x >= y
  BY DEF Max
<1> QED BY <1>1 DEF Max

\* The bound of one rounding is that of Explains, whichever of the two was rounded.
LEMMA CostExplained ==
  ASSUME NEW average \in Nat, NEW shares \in Nat
  PROVE  Explains(average, Amount(average, shares), shares)
<1> DEFINE n == average * shares
           m == Amount(average, shares) * Scale
           d == Max({shares, Scale})
<1>1. n \in Int /\ m \in Int /\ d >= Scale /\ d \in Int /\ Scale \in Nat
      /\ 2 * (m - n) <= Scale /\ 2 * (n - m) <= Scale
  <2>1. Scale \in Nat \ {0} /\ Scale \in Int /\ shares \in Int /\ n \in Int
    BY AmountAssumption
  <2>2. d >= Scale /\ d \in Int
    BY <2>1, MaxIs
  <2> HIDE DEF n
  <2>3. Rounded(n, Scale) \in Int /\ 2 * (Rounded(n, Scale) * Scale - n) <= Scale
        /\ 2 * (n - Rounded(n, Scale) * Scale) <= Scale
    BY <2>1, RoundedIs
  <2>4. m = Rounded(n, Scale) * Scale
    BY DEF Amount, n
  <2>5. m \in Int
    BY <2>1, <2>3, <2>4
  <2> HIDE DEF m, d
  <2> QED BY <2>1, <2>2, <2>3, <2>4, <2>5
<1> HIDE DEF n, m, d
<1>2. 2 * Distance(m, n) <= d
  BY <1>1 DEF Distance
<1> QED BY <1>2 DEF Explains, n, m, d

LEMMA AverageExplained ==
  ASSUME NEW cost \in Nat, NEW shares \in Nat \ {0}
  PROVE  Explains(Average(cost, shares), cost, shares)
<1> DEFINE n == cost * Scale
           m == Average(cost, shares) * shares
           d == Max({shares, Scale})
<1>1. n \in Int /\ m \in Int /\ d >= shares /\ d \in Int
      /\ 2 * (m - n) <= shares /\ 2 * (n - m) <= shares
  <2>1. Scale \in Nat \ {0} /\ Scale \in Int /\ shares \in Int /\ n \in Int
    BY AmountAssumption
  <2>2. d >= shares /\ d \in Int
    BY <2>1, MaxIs
  <2> HIDE DEF n
  <2>3. Rounded(n, shares) \in Int /\ 2 * (Rounded(n, shares) * shares - n) <= shares
        /\ 2 * (n - Rounded(n, shares) * shares) <= shares
    BY <2>1, RoundedIs
  <2>4. m = Rounded(n, shares) * shares
    BY DEF Average, n
  <2>5. m \in Int
    BY <2>1, <2>3, <2>4
  <2> HIDE DEF m, d
  <2> QED BY <2>1, <2>2, <2>3, <2>4, <2>5
<1> HIDE DEF n, m, d
<1>2. 2 * Distance(n, m) <= d
  BY <1>1 DEF Distance
<1> QED BY <1>2 DEF Explains, n, m, d

(***************************************************************************)
(* The inductive invariant.                                                *)
(***************************************************************************)

Typed ==
  /\ TypeOK
  /\ IsFiniteSet(lots) /\ IsFiniteSet(results)
  /\ trades \in Seq(Trade) /\ Len(trades) <= records

\* Ids are unique; what is held has shares and a cost that its average explains.
LotInv ==
  /\ \A x, y \in lots : x.id = y.id => x = y
  /\ \A x \in lots : x.left > 0 /\ x.cost > 0 /\ Explains(x.average, x.cost, x.left)

\* R are the parts of the sale t.
TellsSale(t, R) ==
  /\ SumFunction([r \in R |-> r.shares]) = t.shares
  /\ SumFunction([r \in R |-> r.gross]) = t.amount
  /\ SumFunction([r \in R |-> r.fee]) = t.fee

SaleInv ==
  /\ \A r \in results : r.sale \in DOMAIN trades /\ r.ticker = trades[r.sale].ticker
  /\ \A n \in DOMAIN trades :
       trades[n].day <= day /\ (trades[n].action = "SELL" => TellsSale(trades[n], PartsOf(n)))

Earned(R) == SumFunction([r \in R |-> r.pnl])

\* What was earned, less what the lots cost, is the cash there is, less what was put in.
EquityInv ==
  Earned(results) - Cost(lots) =
    cash.available - stated - (InitialCash + cash.deposits - cash.withdrawals)

IInv == Typed /\ LotInv /\ SaleInv /\ EquityInv

(***************************************************************************)
(* Sums of lots and of results.                                            *)
(***************************************************************************)

LEMMA CostType ==
  ASSUME NEW L, IsFiniteSet(L), L \subseteq Lot
  PROVE  Cost(L) \in Nat /\ \A x \in L : x.cost <= Cost(L)
<1> DEFINE g == [x \in L |-> x.cost]
<1>1. g \in [L -> Nat] /\ \A x \in L : g[x] = x.cost
  BY DEF Lot
<1> HIDE DEF g
<1>2. SumFunction(g) \in Nat /\ \A x \in L : g[x] <= SumFunction(g)
  BY <1>1, SumNat
<1> QED BY <1>1, <1>2 DEF Cost, g

LEMMA CostUnion ==
  ASSUME NEW L, IsFiniteSet(L), L \subseteq Lot, NEW M, IsFiniteSet(M), M \subseteq Lot, L \cap M = {}
  PROVE  Cost(L \cup M) = Cost(L) + Cost(M)
<1> DEFINE g == [x \in L \cup M |-> x.cost]
<1>1. g \in [L \cup M -> Int]
  BY DEF Lot
<1>2. On(g, L) = [x \in L |-> x.cost] /\ On(g, M) = [x \in M |-> x.cost]
  BY DEF On
<1> HIDE DEF g
<1>3. SumFunction(g) = SumFunction(On(g, L)) + SumFunction(On(g, M))
  BY <1>1, SumParts
<1> QED BY <1>2, <1>3 DEF Cost, g

LEMMA CostOne ==
  ASSUME NEW x \in Lot
  PROVE  Cost({x}) = x.cost
<1> DEFINE g == [y \in {x} |-> y.cost]
<1>1. g \in [{x} -> Int] /\ g[x] = x.cost
  BY DEF Lot
<1> HIDE DEF g
<1>2. SumFunction(g) = g[x]
  BY <1>1, SumOne
<1> QED BY <1>1, <1>2 DEF Cost, g

LEMMA EarnedUnion ==
  ASSUME NEW L, IsFiniteSet(L), L \subseteq Result, NEW M, IsFiniteSet(M), M \subseteq Result, L \cap M = {}
  PROVE  Earned(L \cup M) = Earned(L) + Earned(M) /\ Earned(L) \in Int /\ Earned(M) \in Int
<1> DEFINE g == [x \in L \cup M |-> x.pnl]
<1>1. g \in [L \cup M -> Int]
  BY DEF Result
<1>2. /\ On(g, L) = [x \in L |-> x.pnl] /\ On(g, M) = [x \in M |-> x.pnl]
      /\ On(g, L) \in [L -> Int] /\ On(g, M) \in [M -> Int]
  BY DEF On, Result
<1> HIDE DEF g
<1>3. SumFunction(g) = SumFunction(On(g, L)) + SumFunction(On(g, M))
      /\ SumFunction(On(g, L)) \in Int /\ SumFunction(On(g, M)) \in Int
  <2>1. SumFunction(On(g, L)) \in Int
    BY <1>2, SumType
  <2>2. SumFunction(On(g, M)) \in Int
    BY <1>2, SumType
  <2> QED BY <1>1, <2>1, <2>2, SumParts
<1> QED BY <1>2, <1>3 DEF Earned, g

LEMMA NothingSums ==
  Cost({}) = 0 /\ Earned({}) = 0
<1>1. [x \in {} |-> x.cost] \in [{} -> Int] /\ [x \in {} |-> x.pnl] \in [{} -> Int]
  OBVIOUS
<1> QED BY <1>1, SumEmpty DEF Cost, Earned

(***************************************************************************)
(* The parts of a sale.                                                    *)
(***************************************************************************)

\* The lots a sale may take from.
SaleLots(D) ==
  /\ IsFiniteSet(D) /\ D # {} /\ D \subseteq Lot
  /\ \A x, y \in D : x.id = y.id => x = y

LEMMA LastLot ==
  ASSUME NEW D, SaleLots(D)
  PROVE  \E z \in D : \A u \in D : u.id <= z.id
<1> DEFINE A == {W \in SUBSET D : W = {} \/ \E z \in W : \A u \in W : u.id <= z.id}
<1>1. \A x \in D : x.id \in Nat
  BY AmountAssumption DEF SaleLots, Lot
<1>2. {} \in A
  OBVIOUS
<1>3. ASSUME NEW W \in SUBSET D, NEW x \in D \ W, W \in A PROVE W \cup {x} \in A
  <2>1. CASE W = {}
    <3>1. \A u \in W \cup {x} : u.id <= x.id
      BY <1>1, <2>1
    <3> QED BY <3>1
  <2>2. CASE W # {}
    <3>1. PICK z \in W : \A u \in W : u.id <= z.id
      BY <1>3, <2>2
    <3>2. z.id \in Nat /\ x.id \in Nat /\ \A u \in W : u.id \in Nat
      BY <1>1
    <3>3. CASE z.id <= x.id
      <4>1. \A u \in W \cup {x} : u.id <= x.id
        BY <3>1, <3>2, <3>3
      <4> QED BY <4>1
    <3>4. CASE x.id <= z.id
      <4>1. \A u \in W \cup {x} : u.id <= z.id
        BY <3>1, <3>2, <3>4
      <4> QED BY <4>1
    <3> QED BY <3>2, <3>3, <3>4
  <2> QED BY <2>1, <2>2
<1>4. D \in A
  <2> HIDE DEF A
  <2> QED BY <1>2, <1>3, SetInduction DEF SaleLots
<1> QED BY <1>4 DEF SaleLots

\* Whatever the rounding, the parts of an amount add up to it.
LEMMA PartsAddUp ==
  ASSUME NEW D, SaleLots(D), NEW from \in [D -> Nat \ {0}], NEW total \in Nat
  PROVE  /\ [x \in D |-> Part(total, from, x)] \in [D -> Int]
         /\ SumFunction([x \in D |-> Part(total, from, x)]) = total
<1> DEFINE sold == SumFunction(from)
           last == CHOOSE z \in D : \A u \in D : u.id <= z.id
           part(z) == Rounded(total * from[z], sold)
           rest == [z \in D \ {last} |-> part(z)]
           g == [x \in D |-> Part(total, from, x)]
<1>1. last \in D /\ IsFiniteSet(D)
  BY LastLot DEF SaleLots
<1>2. sold \in Nat \ {0}
  <2>1. from \in [D -> Nat]
    OBVIOUS
  <2>2. sold \in Nat /\ from[last] <= sold /\ from[last] \in Nat \ {0}
    BY <1>1, <2>1, SumNat
  <2> HIDE DEF sold
  <2> QED BY <2>2
<1> HIDE DEF sold, last
<1>3. \A z \in D : part(z) \in Int
  BY <1>2, RoundedIs
<1>4. IsFiniteSet(D \ {last}) /\ rest \in [D \ {last} -> Int] /\ SumFunction(rest) \in Int
  <2>1. IsFiniteSet(D \ {last}) /\ rest \in [D \ {last} -> Int]
    BY <1>1, <1>3, FS_RemoveElement
  <2> HIDE DEF rest
  <2> QED BY <2>1, SumType
<1>5. \A x \in D : Part(total, from, x) = IF x = last THEN total - SumFunction(rest) ELSE part(x)
  BY DEF Part, sold, last
<1>6. g \in [D -> Int] /\ g[last] = total - SumFunction(rest) /\ On(g, D \ {last}) = rest
  <2>1. \A x \in D : Part(total, from, x) \in Int
    <3> HIDE DEF rest, part
    <3> QED BY <1>3, <1>4, <1>5
  <2>2. \A x \in D \ {last} : Part(total, from, x) = part(x)
    BY <1>5
  <2> QED BY <1>1, <1>5, <2>1, <2>2 DEF On
<1> HIDE DEF g, rest
<1>7. SumFunction(g) = g[last] + SumFunction(On(g, D \ {last}))
  BY <1>1, <1>6, SumStep
<1> QED BY <1>4, <1>6, <1>7 DEF g

(***************************************************************************)
(* What a fact adds.                                                       *)
(***************************************************************************)

LEMMA AmountType ==
  ASSUME NEW price \in Nat, NEW shares \in Nat
  PROVE  Amount(price, shares) \in Nat
<1>1. price * shares \in Nat /\ Scale \in Nat \ {0}
  BY AmountAssumption
<1> QED BY <1>1, RoundedIs DEF Amount

LEMMA AverageType ==
  ASSUME NEW cost \in Nat, NEW shares \in Nat \ {0}
  PROVE  Average(cost, shares) \in Nat
<1>1. cost * Scale \in Nat
  BY AmountAssumption
<1> QED BY <1>1, RoundedIs DEF Average

\* A lot that may be held.
Sound(x) == x \in Lot /\ x.left > 0 /\ x.cost > 0 /\ Explains(x.average, x.cost, x.left)

LEMMA StatedIs ==
  ASSUME NEW id \in LotId, NEW k \in Ticker, NEW y \in PositionType,
         NEW source \in {"OPENING", "RECONCILIATION"}, NEW n \in Shares, NEW c \in Price,
         Stated(id, k, y, source, n, c).cost > 0
  PROVE  Sound(Stated(id, k, y, source, n, c)) /\ Stated(id, k, y, source, n, c).id = id
<1>1. n \in Nat \ {0} /\ c \in Nat
  BY AmountAssumption
<1>2. Amount(c, n) \in Nat /\ Explains(c, Amount(c, n), n)
  BY <1>1, AmountType, CostExplained
<1> QED BY <1>1, <1>2 DEF Stated, Sound, Lot

\* The lots of one ledger, one of which is exchanged.
LEMMA LotsWith ==
  ASSUME Typed, LotInv, NEW L, L \subseteq lots, NEW x, Sound(x), \A z \in L : z.id # x.id,
         lots' = L \cup {x}
  PROVE  /\ lots' \subseteq Lot /\ IsFiniteSet(lots') /\ LotInv'
         /\ Cost(lots') = Cost(L) + x.cost /\ Cost(L) \in Nat /\ x.cost \in Nat
<1>1. IsFiniteSet(L) /\ L \subseteq Lot /\ IsFiniteSet({x}) /\ L \cap {x} = {} /\ {x} \subseteq Lot
  BY FS_Subset, FS_Singleton DEF Typed, TypeOK, Sound
<1>2. Cost(L \cup {x}) = Cost(L) + Cost({x}) /\ Cost({x}) = x.cost
  BY <1>1, CostUnion, CostOne DEF Sound
<1>3. LotInv'
  BY DEF LotInv, Sound
<1>4. Cost(L) \in Nat /\ x.cost \in Nat
  BY <1>1, CostType DEF Lot
<1>5. IsFiniteSet(L \cup {x})
  BY <1>1, FS_Union
<1> QED BY <1>1, <1>2, <1>3, <1>4, <1>5

LEMMA LotsWithout ==
  ASSUME Typed, NEW L, L \subseteq lots
  PROVE  /\ Cost(lots \ L) = Cost(lots) - Cost(L)
         /\ Cost(lots) \in Nat /\ Cost(L) \in Nat /\ Cost(lots \ L) \in Nat
<1> DEFINE M == lots \ L
<1>1. /\ IsFiniteSet(L) /\ L \subseteq Lot /\ IsFiniteSet(M) /\ M \subseteq Lot /\ M \cap L = {}
      /\ M \cup L = lots /\ lots \subseteq Lot /\ IsFiniteSet(lots)
  BY FS_Subset DEF Typed, TypeOK
<1> HIDE DEF M
<1>2. Cost(M \cup L) = Cost(M) + Cost(L) /\ Cost(M) \in Nat /\ Cost(L) \in Nat /\ Cost(lots) \in Nat
  BY <1>1, CostUnion, CostType
<1>3. Cost(lots) = Cost(M) + Cost(L)
  BY <1>1, <1>2
<1> QED BY <1>2, <1>3 DEF M

\* One more transaction, and its parts if it is a sale.
LEMMA SalesWith ==
  ASSUME Typed, SaleInv, NEW t \in Trade, t.day = day, trades' = Append(trades, t), day' = day,
         NEW R, results' = results \cup R,
         \A r \in R : r.sale = Len(trades) + 1 /\ r.ticker = t.ticker,
         t.action = "SELL" => TellsSale(t, R)
  PROVE  SaleInv'
<1>0. PICK m \in Nat : m = Len(trades) + 1
  BY DEF Typed
<1>1. /\ DOMAIN trades' = DOMAIN trades \cup {m}
      /\ \A n \in DOMAIN trades : trades'[n] = trades[n]
      /\ trades'[m] = t /\ m \notin DOMAIN trades /\ \A r \in R : r.sale = m
  BY <1>0 DEF Typed
<1>2. ASSUME NEW n \in DOMAIN trades PROVE PartsOf(n)' = PartsOf(n)
  <2>1. \A r \in R : r.sale # n
    BY <1>1
  <2> QED BY <2>1 DEF PartsOf
<1>3. PartsOf(m)' = R
  <2>1. \A r \in results : r.sale # m
    BY <1>1 DEF SaleInv
  <2> QED BY <1>1, <2>1 DEF PartsOf
<1>4. \A r \in results' : r.sale \in DOMAIN trades' /\ r.ticker = trades'[r.sale].ticker
  BY <1>1 DEF SaleInv
<1>5. day \in Nat
  BY AmountAssumption DEF Typed, TypeOK
<1>6. ASSUME NEW n \in DOMAIN trades'
      PROVE  trades'[n].day <= day' /\ (trades'[n].action = "SELL" => TellsSale(trades'[n], PartsOf(n)'))
  <2>1. CASE n = m
    <3>1. trades'[n] = t /\ PartsOf(n)' = R
      BY <1>1, <1>3, <2>1
    <3> QED BY <1>5, <3>1
  <2>2. CASE n # m
    <3>1. n \in DOMAIN trades
      BY <1>1, <2>2
    <3>2. trades'[n] = trades[n] /\ PartsOf(n)' = PartsOf(n)
      BY <1>1, <1>2, <3>1
    <3> QED BY <3>1, <3>2 DEF SaleInv
  <2> QED BY <2>1, <2>2
<1> QED BY <1>4, <1>6 DEF SaleInv, TellsSale

LEMMA SalesKept ==
  ASSUME SaleInv, Typed, UNCHANGED <<results, trades>>, day' \in Nat, day <= day'
  PROVE  SaleInv'
<1>1. \A n : PartsOf(n)' = PartsOf(n)
  BY DEF PartsOf
<1>2. \A n \in DOMAIN trades : trades[n].day \in Nat /\ day \in Nat
  BY AmountAssumption DEF Typed, TypeOK, Trade
<1> QED BY <1>1, <1>2 DEF SaleInv, TellsSale

(***************************************************************************)
(* Each fact keeps the invariant.                                          *)
(***************************************************************************)

LEMMA RecordsType ==
  ASSUME Typed, Replayed
  PROVE  /\ records' \in 0..MaxRecords /\ records' = records + 1 /\ records \in Nat
         /\ day' = day /\ day \in Nat /\ day' \in 0..MaxDay
BY AmountAssumption DEF Typed, TypeOK, Replayed

LEMMA CashType ==
  ASSUME Typed
  PROVE  /\ cash.available \in Int /\ cash.deposits \in Nat /\ cash.withdrawals \in Nat
         /\ stated \in Int /\ InitialCash \in Nat
         /\ Cost(lots) \in Nat /\ Earned(results) \in Int
<1>1. results \cup {} = results /\ IsFiniteSet({}) /\ {} \subseteq Result /\ results \cap {} = {}
  BY FS_EmptySet
<1>2. Earned(results) \in Int
  BY <1>1, EarnedUnion DEF Typed, TypeOK
<1>3. Cost(lots) \in Nat
  BY CostType DEF Typed, TypeOK
<1> QED BY <1>2, <1>3, AmountAssumption DEF Typed, TypeOK

\* A step that touches neither lots nor sales.
LEMMA CashKeeps ==
  ASSUME IInv, Replayed, UNCHANGED <<lots, results, trades, stated>>,
         cash' \in [available : Int, deposits : Nat, withdrawals : Nat],
         cash'.available - cash'.deposits + cash'.withdrawals =
           cash.available - cash.deposits + cash.withdrawals
  PROVE  IInv'
<1>1. Typed'
  BY RecordsType DEF IInv, Typed, TypeOK, Replayed
<1>2. LotInv'
  BY DEF IInv, LotInv
<1>3. SaleInv'
  BY RecordsType, SalesKept DEF IInv
<1>4. EquityInv'
  <2>1. Cost(lots)' = Cost(lots) /\ Earned(results)' = Earned(results)
    BY DEF Cost, Earned
  <2>2. cash'.available \in Int /\ cash'.deposits \in Nat /\ cash'.withdrawals \in Nat
    OBVIOUS
  <2> QED BY <2>1, <2>2, CashType DEF EquityInv, IInv
<1> QED BY <1>1, <1>2, <1>3, <1>4 DEF IInv

LEMMA DepositKeeps ==
  ASSUME IInv, NEW c \in Price, Deposit(c)
  PROVE  IInv'
<1>1. /\ c \in Nat /\ cash \in [available : Int, deposits : Nat, withdrawals : Nat]
      /\ cash' = [cash EXCEPT !.available = @ + c, !.deposits = @ + c]
  BY AmountAssumption DEF Deposit, IInv, Typed, TypeOK
<1>2. /\ cash' = [available |-> cash.available + c, deposits |-> cash.deposits + c,
                  withdrawals |-> cash.withdrawals]
  BY <1>1
<1>3. cash.available + c \in Int /\ cash.deposits + c \in Nat /\ cash.withdrawals \in Nat
  BY <1>1
<1>4. cash' \in [available : Int, deposits : Nat, withdrawals : Nat]
  BY <1>2, <1>3
<1>5. cash'.available - cash'.deposits + cash'.withdrawals =
        cash.available - cash.deposits + cash.withdrawals
  BY <1>1, <1>2
<1> QED BY <1>4, <1>5, CashKeeps DEF Deposit

LEMMA WithdrawKeeps ==
  ASSUME IInv, NEW c \in Price, Withdraw(c)
  PROVE  IInv'
<1>1. /\ c \in Nat /\ cash \in [available : Int, deposits : Nat, withdrawals : Nat]
      /\ cash' = [cash EXCEPT !.available = @ - c, !.withdrawals = @ + c]
  BY AmountAssumption DEF Withdraw, IInv, Typed, TypeOK
<1>2. /\ cash' = [available |-> cash.available - c, deposits |-> cash.deposits,
                  withdrawals |-> cash.withdrawals + c]
  BY <1>1
<1>3. cash.available - c \in Int /\ cash.deposits \in Nat /\ cash.withdrawals + c \in Nat
  BY <1>1
<1>4. cash' \in [available : Int, deposits : Nat, withdrawals : Nat]
  BY <1>2, <1>3
<1>5. cash'.available - cash'.deposits + cash'.withdrawals =
        cash.available - cash.deposits + cash.withdrawals
  BY <1>1, <1>2
<1> QED BY <1>4, <1>5, CashKeeps DEF Withdraw

LEMMA NextDayKeeps ==
  ASSUME IInv, NextDay
  PROVE  IInv'
<1>1. day' \in 0..MaxDay /\ day <= day' /\ day' \in Nat
  BY AmountAssumption DEF NextDay, IInv, Typed, TypeOK
<1>2. Typed'
  BY <1>1 DEF IInv, Typed, TypeOK, NextDay
<1>3. SaleInv'
  BY <1>1, SalesKept DEF IInv, NextDay
<1>4. LotInv' /\ EquityInv'
  BY DEF IInv, NextDay, LotInv, EquityInv, Cost, Earned
<1> QED BY <1>2, <1>3, <1>4 DEF IInv

LEMMA ReconcileKeeps ==
  ASSUME IInv, NEW id \in LotId, NEW k \in Ticker, NEW y \in PositionType,
         NEW n \in Shares, NEW c \in Price, Reconcile(id, k, y, n, c)
  PROVE  IInv'
<1> DEFINE new == Stated(id, k, y, "RECONCILIATION", n, c)
           replaced == {x \in lots : x.ticker = k /\ x.type = y}
<1>1. /\ Typed /\ LotInv /\ SaleInv /\ EquityInv
      /\ Replayed /\ Unused(id) /\ new.cost > 0
      /\ lots' = (lots \ replaced) \cup {new}
      /\ stated' = stated + new.cost - Cost(replaced)
      /\ UNCHANGED <<cash, results, trades>>
  BY DEF IInv, Reconcile
<1>2. replaced \subseteq lots
  OBVIOUS
<1>3. Sound(new) /\ new.id = id
  BY <1>1, StatedIs
<1> HIDE DEF new, replaced
<1>4. \A z \in lots \ replaced : z.id # new.id
  BY <1>1, <1>3 DEF Unused
<1>5. /\ lots' \subseteq Lot /\ IsFiniteSet(lots') /\ LotInv'
      /\ Cost(lots') = Cost(lots \ replaced) + new.cost /\ new.cost \in Nat
  BY <1>1, <1>3, <1>4, LotsWith
<1>6. /\ Cost(lots \ replaced) = Cost(lots) - Cost(replaced)
      /\ Cost(lots) \in Nat /\ Cost(replaced) \in Nat
  BY <1>1, <1>2, LotsWithout
<1>7. stated' \in Int
  BY <1>1, <1>5, <1>6, CashType
<1>8. Typed'
  BY <1>1, <1>5, <1>7, RecordsType DEF Typed, TypeOK
<1>9. SaleInv'
  BY <1>1, RecordsType, SalesKept
<1>10. EquityInv'
  <2>1. Earned(results)' = Earned(results) /\ Cost(lots)' = Cost(lots) - Cost(replaced) + new.cost
    BY <1>1, <1>5, <1>6 DEF Earned
  <2> QED BY <1>1, <1>5, <1>6, <2>1, CashType DEF EquityInv
<1> QED BY <1>5, <1>8, <1>9, <1>10 DEF IInv

LEMMA ReclassifyKeeps ==
  ASSUME IInv, NEW x \in lots, NEW y \in PositionType, Reclassify(x, y)
  PROVE  IInv'
<1>1. PICK new : new = [x EXCEPT !.type = y]
  OBVIOUS
<1>2. /\ Typed /\ LotInv /\ SaleInv /\ EquityInv
      /\ Replayed /\ lots' = (lots \ {x}) \cup {new}
      /\ UNCHANGED <<cash, results, trades, stated>>
  BY <1>1 DEF IInv, Reclassify
<1>3. x \in Lot
  BY <1>2 DEF Typed, TypeOK
<1>4. /\ new \in Lot /\ new.id = x.id /\ new.left = x.left /\ new.cost = x.cost
      /\ new.average = x.average
  BY <1>1, <1>3 DEF Lot
<1>5. Sound(new)
  BY <1>2, <1>4 DEF Sound, LotInv
<1>6. \A z \in lots \ {x} : z.id # new.id
  BY <1>2, <1>4 DEF LotInv
<1>7. lots \ {x} \subseteq lots /\ {x} \subseteq lots
  OBVIOUS
<1>8. /\ lots' \subseteq Lot /\ IsFiniteSet(lots') /\ LotInv'
      /\ Cost(lots') = Cost(lots \ {x}) + new.cost
  BY <1>2, <1>5, <1>6, <1>7, LotsWith
<1>9. /\ Cost(lots \ {x}) = Cost(lots) - Cost({x}) /\ Cost({x}) = x.cost
      /\ Cost(lots) \in Nat /\ x.cost \in Nat
  BY <1>2, <1>3, <1>7, LotsWithout, CostOne DEF Lot
<1>10. Cost(lots') = Cost(lots)
  BY <1>4, <1>8, <1>9
<1>11. Typed'
  BY <1>2, <1>8, RecordsType DEF Typed, TypeOK
<1>12. SaleInv'
  BY <1>2, RecordsType, SalesKept
<1>13. EquityInv'
  BY <1>2, <1>10 DEF EquityInv, Earned
<1> QED BY <1>8, <1>11, <1>12, <1>13 DEF IInv

LEMMA BuyKeeps ==
  ASSUME IInv, NEW id \in LotId, NEW k \in Ticker, NEW y \in PositionType,
         NEW c \in Price, NEW n \in Shares, NEW fee \in Fee, Buy(id, k, y, c, n, fee)
  PROVE  IInv'
<1> DEFINE amount == Amount(c, n)
           cost == amount + fee
<1>1. PICK new : new = [id |-> id, ticker |-> k, type |-> y, source |-> "BUY",
                        left |-> n, cost |-> cost, average |-> Average(cost, n)]
  OBVIOUS
<1>2. PICK t : t = [action |-> "BUY", ticker |-> k, type |-> y, shares |-> n,
                    amount |-> amount, fee |-> fee, day |-> day]
  OBVIOUS
<1>3. /\ Typed /\ LotInv /\ SaleInv /\ EquityInv
      /\ Replayed /\ Unused(id) /\ amount > 0
      /\ cash' = [cash EXCEPT !.available = @ - cost]
      /\ lots' = lots \cup {new}
      /\ trades' = Append(trades, t)
      /\ UNCHANGED <<results, stated>>
  BY <1>1, <1>2 DEF IInv, Buy
<1>4. c \in Nat /\ n \in Nat \ {0} /\ fee \in Nat
  BY AmountAssumption
<1>5. amount \in Nat /\ cost \in Nat /\ cost > 0
  BY <1>3, <1>4, AmountType
<1> HIDE DEF amount, cost
<1>6. Sound(new) /\ new.id = id /\ new.cost = cost
  <2>1. Average(cost, n) \in Nat /\ Explains(Average(cost, n), cost, n)
    BY <1>4, <1>5, AverageType, AverageExplained
  <2> QED BY <1>1, <1>4, <1>5, <2>1 DEF Sound, Lot
<1>7. \A z \in lots : z.id # new.id
  BY <1>3, <1>6 DEF Unused
<1>8. /\ lots' \subseteq Lot /\ IsFiniteSet(lots') /\ LotInv'
      /\ Cost(lots') = Cost(lots) + cost
  BY <1>3, <1>6, <1>7, LotsWith
<1>9. t \in Trade /\ t.day = day /\ t.action = "BUY"
  <2>1. day \in 0..MaxDay
    BY <1>3 DEF Typed, TypeOK
  <2> QED BY <1>2, <1>4, <1>5, <2>1 DEF Trade
<1>10. /\ cash \in [available : Int, deposits : Nat, withdrawals : Nat]
       /\ cash' = [available |-> cash.available - cost, deposits |-> cash.deposits,
                   withdrawals |-> cash.withdrawals]
  BY <1>3 DEF Typed, TypeOK
<1>11. Typed'
  <2>1. trades' \in Seq(Trade) /\ Len(trades') = Len(trades) + 1 /\ Len(trades') <= records'
    BY <1>3, <1>9, RecordsType DEF Typed
  <2>2. cash' \in [available : Int, deposits : Nat, withdrawals : Nat]
    BY <1>5, <1>10
  <2>3. \A i \in DOMAIN trades' : trades'[i] \in Trade
    BY <2>1
  <2> QED BY <1>3, <1>8, <2>1, <2>2, <2>3, RecordsType DEF Typed, TypeOK
<1>12. SaleInv'
  <2>1. PICK R : R = {}
    OBVIOUS
  <2>2. results' = results \cup R /\ day' = day
    BY <1>3, <2>1, RecordsType
  <2>3. \A r \in R : r.sale = Len(trades) + 1 /\ r.ticker = t.ticker
    BY <2>1
  <2>4. Typed /\ SaleInv /\ trades' = Append(trades, t) /\ (t.action = "SELL" => TellsSale(t, R))
    BY <1>3, <1>9
  <2> QED BY <1>9, <2>2, <2>3, <2>4, SalesWith
<1>13. EquityInv'
  <2>1. Earned(results)' = Earned(results) /\ Cost(lots)' = Cost(lots) + cost
    BY <1>3, <1>8 DEF Earned
  <2>2. cash'.available = cash.available - cost /\ cash'.deposits = cash.deposits
        /\ cash'.withdrawals = cash.withdrawals
    BY <1>10
  <2>3. /\ cash.available \in Int /\ cash.deposits \in Nat /\ cash.withdrawals \in Nat
        /\ stated \in Int /\ InitialCash \in Nat
        /\ Cost(lots) \in Nat /\ Earned(results) \in Int
    BY <1>3, CashType
  <2>4. EquityInv /\ stated' = stated
    BY <1>3
  <2> QED BY <1>5, <2>1, <2>2, <2>3, <2>4 DEF EquityInv
<1> QED BY <1>8, <1>11, <1>12, <1>13 DEF IInv

(***************************************************************************)
(* A sale.                                                                 *)
(***************************************************************************)

\* How many shares a sale takes from each of the lots D.
Takes(D, from) ==
  /\ from \in [D -> Nat \ {0}]
  /\ \A x \in D : from[x] <= x.left
  /\ \A x \in D : from[x] < x.left => Amount(x.average, x.left - from[x]) > 0

CostsLeft(D, from) == [x \in D |-> CostLeft(x, from[x])]

Remaining(D, from) ==
  {[x EXCEPT !.left = @ - from[x], !.cost = CostLeft(x, from[x])] : x \in {z \in D : from[z] < z.left}}

LEMMA CostLeftType ==
  ASSUME NEW x \in Lot, NEW n \in Nat, n <= x.left
  PROVE  CostLeft(x, n) \in Nat
<1>1. x.left - n \in Nat /\ x.average \in Nat
  BY DEF Lot
<1> QED BY <1>1, AmountType DEF CostLeft

\* What remains of a lot that is sold in part.
LEMMA RemainderIs ==
  ASSUME NEW x, Sound(x), NEW n \in Nat \ {0}, n < x.left, Amount(x.average, x.left - n) > 0,
         NEW y, y = [x EXCEPT !.left = @ - n, !.cost = CostLeft(x, n)]
  PROVE  Sound(y) /\ y.id = x.id /\ y.cost = CostLeft(x, n)
<1>1. x \in Lot
  BY DEF Sound
<1>2. PICK c : c = CostLeft(x, n)
  OBVIOUS
<1>3. PICK m : m = x.left - n
  OBVIOUS
<1> DEFINE z == [id |-> x.id, ticker |-> x.ticker, type |-> x.type, source |-> x.source,
                 left |-> m, cost |-> c, average |-> x.average]
<1>4. y = z
  BY <1>1, <1>2, <1>3 DEF Lot
<1>5. m \in Nat /\ m > 0 /\ x.average \in Nat
  BY <1>1, <1>3 DEF Lot
<1>6. c = Amount(x.average, m) /\ c > 0
  BY <1>1, <1>2, <1>3 DEF CostLeft, Lot
<1>7. c \in Nat /\ Explains(x.average, c, m)
  BY <1>5, <1>6, AmountType, CostExplained
<1>8. z.id = x.id /\ z.left = m /\ z.cost = c /\ z.average = x.average
  OBVIOUS
<1>9. z \in Lot
  BY <1>1, <1>5, <1>7 DEF Lot
<1> HIDE DEF z
<1> QED BY <1>2, <1>4, <1>5, <1>6, <1>7, <1>8, <1>9 DEF Sound

\* The lots after a sale, and what they cost.
LEMMA LotsAfterSale ==
  ASSUME Typed, LotInv, NEW D, D \subseteq lots, NEW from, Takes(D, from),
         lots' = (lots \ D) \cup Remaining(D, from)
  PROVE  /\ lots' \subseteq Lot /\ IsFiniteSet(lots') /\ LotInv'
         /\ Cost(lots') = Cost(lots) - Cost(D) + SumFunction(CostsLeft(D, from))
         /\ SumFunction(CostsLeft(D, from)) \in Int /\ Cost(D) \in Nat
<1> DEFINE P == {z \in D : from[z] < z.left}
           rest(x) == [x EXCEPT !.left = @ - from[x], !.cost = CostLeft(x, from[x])]
           K == Remaining(D, from)
           e == [x \in P |-> rest(x)]
           f == [z \in K |-> z.cost]
           g == CostsLeft(D, from)
<1>1. K = {rest(x) : x \in P}
  BY DEF Remaining
<1>2. \A x \in lots : Sound(x)
  BY DEF Typed, TypeOK, LotInv, Sound
<1>3. ASSUME NEW x \in P
      PROVE  Sound(rest(x)) /\ rest(x).id = x.id /\ rest(x).cost = CostLeft(x, from[x])
  <2>1. PICK y : y = rest(x)
    OBVIOUS
  <2>2. PICK n : n = from[x]
    OBVIOUS
  <2>3. Sound(x) /\ n \in Nat \ {0} /\ n < x.left /\ Amount(x.average, x.left - n) > 0
        /\ y = [x EXCEPT !.left = @ - n, !.cost = CostLeft(x, n)]
    BY <1>2, <2>1, <2>2 DEF Takes
  <2>4. Sound(y) /\ y.id = x.id /\ y.cost = CostLeft(x, n)
    BY <2>3, RemainderIs
  <2> QED BY <2>1, <2>2, <2>4
<1> HIDE DEF rest, K
<1>4. IsFiniteSet(D) /\ IsFiniteSet(P) /\ P \subseteq D /\ D \subseteq Lot
  BY FS_Subset DEF Typed, TypeOK
<1>5. IsFiniteSet(K) /\ K \subseteq Lot
  <2>1. e \in [P -> K] /\ \A z \in K : \E x \in P : e[x] = z
    BY <1>1
  <2>2. PICK h : h = e
    OBVIOUS
  <2>3. h \in Surjection(P, K)
    BY <2>1, <2>2 DEF Surjection
  <2> HIDE DEF P
  <2>4. IsFiniteSet(K)
    BY <1>4, <2>3, FS_Surjection
  <2> QED BY <1>1, <1>3, <2>4 DEF Sound
<1>6. g \in [D -> Int] /\ \A x \in D : g[x] = CostLeft(x, from[x])
  <2>1. \A x \in D : CostLeft(x, from[x]) \in Int
    <3> TAKE x \in D
    <3>1. x \in Lot /\ from[x] \in Nat /\ from[x] <= x.left
      BY <1>4 DEF Takes
    <3>2. CostLeft(x, from[x]) \in Nat
      BY <3>1, CostLeftType
    <3> QED BY <3>2
  <2> QED BY <2>1 DEF CostsLeft
<1>7. \A x \in D \ P : g[x] = 0
  <2> TAKE x \in D \ P
  <2>1. from[x] \in Nat /\ x.left \in Nat /\ from[x] <= x.left /\ ~(from[x] < x.left)
    BY <1>4 DEF Takes, Lot
  <2>2. from[x] = x.left
    BY <2>1
  <2> QED BY <1>6, <2>2 DEF CostLeft
<1> HIDE DEF g
<1>8. SumFunction(g) = SumFunction(On(g, P)) /\ SumFunction(g) \in Int
  <2> HIDE DEF P
  <2> QED BY <1>4, <1>6, <1>7, SumZeros, SumType
<1>9. SumFunction(On(g, P)) = Cost(K)
  <2>1. e \in [P -> K] /\ \A x \in P : e[x] = rest(x)
    BY <1>1
  <2>2. \A x, y \in P : e[x] = e[y] => x = y
    BY <1>3, <1>4, <2>1 DEF LotInv
  <2>3. \A z \in K : \E x \in P : e[x] = z
    BY <1>1, <2>1
  <2>4. f \in [K -> Int] /\ \A z \in K : f[z] = z.cost
    BY <1>5 DEF Lot
  <2>5. On(g, P) \in [P -> Int] /\ \A x \in P : On(g, P)[x] = g[x]
    BY <1>4, <1>6 DEF On
  <2>6. \A x \in P : On(g, P)[x] = f[e[x]]
    BY <1>1, <1>3, <1>4, <1>6, <2>1, <2>4, <2>5
  <2> HIDE DEF e, f, P
  <2>7. PICK o : o = On(g, P)
    OBVIOUS
  <2>8. o \in [P -> Int] /\ \A x \in P : o[x] = f[e[x]]
    BY <2>5, <2>6, <2>7
  <2>9. e \in [P -> K]
    BY <2>1
  <2>10. f \in [K -> Int]
    BY <2>4
  <2>11. SumFunction(o) = SumFunction(f)
    BY <1>4, <1>5, <2>2, <2>3, <2>8, <2>9, <2>10, SumImage
  <2> QED BY <2>7, <2>11 DEF Cost, f
<1>10. /\ Cost(lots \ D) = Cost(lots) - Cost(D)
       /\ Cost(lots) \in Nat /\ Cost(D) \in Nat /\ Cost(lots \ D) \in Nat
  BY LotsWithout
<1>11. \A z \in K : \E x \in D : z.id = x.id /\ Sound(z)
  BY <1>1, <1>3, <1>4
<1>12. (lots \ D) \cap K = {}
  BY <1>11 DEF LotInv
<1>13. IsFiniteSet(lots \ D) /\ lots \ D \subseteq Lot
  BY FS_Subset DEF Typed, TypeOK
<1>14. Cost((lots \ D) \cup K) = Cost(lots \ D) + Cost(K)
  BY <1>5, <1>12, <1>13, CostUnion
<1>15. lots' = (lots \ D) \cup K
  BY DEF K
<1>16. Cost(lots') = Cost(lots) - Cost(D) + SumFunction(g)
  BY <1>8, <1>9, <1>10, <1>14, <1>15
<1>17. lots' \subseteq Lot /\ IsFiniteSet(lots')
  BY <1>5, <1>13, <1>15, FS_Union
<1>18. LotInv'
  <2>1. \A x \in lots' : x.left > 0 /\ x.cost > 0 /\ Explains(x.average, x.cost, x.left)
    BY <1>2, <1>11, <1>15 DEF Sound
  <2>2. ASSUME NEW x \in lots', NEW y \in lots', x.id = y.id PROVE x = y
    <3>1. CASE x \in K /\ y \in K
      <4>1. PICK u \in P : x = rest(u)
        BY <1>1, <3>1
      <4>2. PICK v \in P : y = rest(v)
        BY <1>1, <3>1
      <4>3. u.id = v.id
        BY <1>3, <2>2, <4>1, <4>2
      <4> QED BY <1>4, <4>1, <4>2, <4>3 DEF LotInv
    <3>2. CASE x \notin K /\ y \notin K
      BY <1>15, <2>2, <3>2 DEF LotInv
    <3>3. CASE x \in K /\ y \notin K
      BY <1>11, <1>15, <2>2, <3>3 DEF LotInv
    <3>4. CASE x \notin K /\ y \in K
      BY <1>11, <1>15, <2>2, <3>4 DEF LotInv
    <3> QED BY <3>1, <3>2, <3>3, <3>4
  <2> QED BY <2>1, <2>2 DEF LotInv
<1> QED BY <1>8, <1>10, <1>16, <1>17, <1>18 DEF g

SaleResults(D, from, amount, fee) == {ResultOf(amount, fee, from, x) : x \in D}

\* The results of a sale of n shares for amount tell it, and earn what they should.
LEMMA ResultsOfSale ==
  ASSUME Typed, Len(trades) < MaxRecords, NEW D, SaleLots(D), NEW from, Takes(D, from),
         NEW amount \in Nat, NEW fee \in Nat
  PROVE  LET R == SaleResults(D, from, amount, fee) IN
         /\ R \subseteq Result /\ IsFiniteSet(R)
         /\ \A r \in R : r.sale = Len(trades) + 1 /\ \E x \in D : r.ticker = x.ticker
         /\ SumFunction([r \in R |-> r.shares]) = SumFunction(from)
         /\ SumFunction([r \in R |-> r.gross]) = amount
         /\ SumFunction([r \in R |-> r.fee]) = fee
         /\ Earned(R) = amount - fee - Cost(D) + SumFunction(CostsLeft(D, from))
<1> DEFINE R == SaleResults(D, from, amount, fee)
           e == [x \in D |-> ResultOf(amount, fee, from, x)]
           gross == [x \in D |-> Part(amount, from, x)]
           charge == [x \in D |-> Part(fee, from, x)]
           costs == [x \in D |-> x.cost]
           kept == CostsLeft(D, from)
           released == [x \in D |-> x.cost - CostLeft(x, from[x])]
           net == [x \in D |-> Part(amount, from, x) - Part(fee, from, x)]
           pnl == [x \in D |-> Part(amount, from, x) - Part(fee, from, x) - (x.cost - CostLeft(x, from[x]))]
<1>1. IsFiniteSet(D) /\ D \subseteq Lot /\ from \in [D -> Nat \ {0}] /\ from \in [D -> Int]
  BY DEF SaleLots, Takes
<1>2. gross \in [D -> Int] /\ SumFunction(gross) = amount
  BY <1>1, PartsAddUp
<1>3. charge \in [D -> Int] /\ SumFunction(charge) = fee
  BY <1>1, PartsAddUp
<1>4. \A x \in D : Part(amount, from, x) \in Int /\ Part(fee, from, x) \in Int
  BY <1>2, <1>3
<1>5. \A x \in D : x.cost \in Int /\ CostLeft(x, from[x]) \in Int
  <2> TAKE x \in D
  <2>1. x \in Lot /\ from[x] \in Nat /\ from[x] <= x.left
    BY <1>1 DEF Takes
  <2>2. CostLeft(x, from[x]) \in Nat
    BY <2>1, CostLeftType
  <2> QED BY <2>1, <2>2 DEF Lot
<1>6. /\ costs \in [D -> Int] /\ kept \in [D -> Int] /\ released \in [D -> Int]
      /\ net \in [D -> Int] /\ pnl \in [D -> Int]
  BY <1>4, <1>5 DEF CostsLeft
<1>7. /\ \A x \in D : costs[x] = kept[x] + released[x]
      /\ \A x \in D : gross[x] = charge[x] + net[x]
      /\ \A x \in D : net[x] = released[x] + pnl[x]
  BY <1>4, <1>5 DEF CostsLeft
<1>8. \A x \in D : e[x] = ResultOf(amount, fee, from, x)
  OBVIOUS
<1>9. \A x \in D : /\ e[x].lot = x.id /\ e[x].sale = Len(trades) + 1 /\ e[x].ticker = x.ticker
                   /\ e[x].shares = from[x] /\ e[x].gross = gross[x] /\ e[x].fee = charge[x]
                   /\ e[x].pnl = pnl[x]
  BY <1>8 DEF ResultOf
<1>10. \A x \in D : e[x] \in Result
  <2> TAKE x \in D
  <2>1. Len(trades) + 1 \in 1..MaxRecords
    BY AmountAssumption DEF Typed
  <2>2. x \in Lot /\ from[x] \in Nat
    BY <1>1
  <2>3. /\ Part(amount, from, x) \in Int /\ Part(fee, from, x) \in Int
        /\ x.cost - CostLeft(x, from[x]) \in Int
        /\ Part(amount, from, x) - Part(fee, from, x) \in Int
        /\ Part(amount, from, x) - Part(fee, from, x) - (x.cost - CostLeft(x, from[x])) \in Int
    BY <1>4, <1>5
  <2> QED BY <1>8, <2>1, <2>2, <2>3 DEF ResultOf, Result, Lot
<1>11. R = {e[x] : x \in D}
  BY <1>8 DEF SaleResults
<1> HIDE DEF gross, charge, costs, kept, released, net, pnl, e, R
<1>12. /\ SumFunction(costs) = SumFunction(kept) + SumFunction(released)
       /\ SumFunction(gross) = SumFunction(charge) + SumFunction(net)
       /\ SumFunction(net) = SumFunction(released) + SumFunction(pnl)
  <2>1. SumFunction(costs) = SumFunction(kept) + SumFunction(released)
    <3>1. costs \in [D -> Int] /\ kept \in [D -> Int] /\ released \in [D -> Int]
      BY <1>2, <1>3, <1>6
    <3>2. \A x \in D : costs[x] = kept[x] + released[x]
      BY <1>7
    <3>3. IsFiniteSet(D)
      BY <1>1
    <3> QED BY <3>1, <3>2, <3>3, SumPlus, ZenonT(60)
  <2>2. SumFunction(gross) = SumFunction(charge) + SumFunction(net)
    <3>1. gross \in [D -> Int] /\ charge \in [D -> Int] /\ net \in [D -> Int]
      BY <1>2, <1>3, <1>6
    <3>2. \A x \in D : gross[x] = charge[x] + net[x]
      BY <1>7
    <3>3. IsFiniteSet(D)
      BY <1>1
    <3> QED BY <3>1, <3>2, <3>3, SumPlus, ZenonT(60)
  <2>3. SumFunction(net) = SumFunction(released) + SumFunction(pnl)
    <3>1. net \in [D -> Int] /\ released \in [D -> Int] /\ pnl \in [D -> Int]
      BY <1>2, <1>3, <1>6
    <3>2. \A x \in D : net[x] = released[x] + pnl[x]
      BY <1>7
    <3>3. IsFiniteSet(D)
      BY <1>1
    <3> QED BY <3>1, <3>2, <3>3, SumPlus, ZenonT(60)
  <2> QED BY <2>1, <2>2, <2>3
<1>13. /\ SumFunction(costs) \in Int /\ SumFunction(kept) \in Int /\ SumFunction(released) \in Int
       /\ SumFunction(net) \in Int /\ SumFunction(pnl) \in Int
  BY <1>1, <1>6, SumType
<1>14. SumFunction(pnl) = amount - fee - SumFunction(costs) + SumFunction(kept)
  <2> DEFINE p == SumFunction(pnl)
             n == SumFunction(net)
             r == SumFunction(released)
             s == SumFunction(kept)
             t == SumFunction(costs)
  <2>1. /\ p \in Int /\ n \in Int /\ r \in Int /\ s \in Int /\ t \in Int
        /\ t = s + r /\ amount = fee + n /\ n = r + p
    BY <1>2, <1>3, <1>12, <1>13
  <2>2. ASSUME p \in Int, n \in Int, r \in Int, s \in Int, t \in Int, t = s + r,
               amount = fee + n, n = r + p
        PROVE  p = amount - fee - t + s
    <3> HIDE DEF p, n, r, s, t
    <3> QED BY <2>2
  <2> QED BY <2>1, <2>2
<1>15. e \in [D -> R] /\ \A z \in R : \E x \in D : e[x] = z
  BY <1>11 DEF e
<1>16. \A x, y \in D : e[x] = e[y] => x = y
  BY <1>9 DEF SaleLots
<1>17. IsFiniteSet(R)
  <2>1. e \in Surjection(D, R)
    BY <1>15 DEF Surjection
  <2> QED BY <1>1, <2>1, FS_Surjection
<1>18. R \subseteq Result
  BY <1>10, <1>15
<1>19. ASSUME NEW f \in [R -> Int], NEW g \in [D -> Int], \A x \in D : f[e[x]] = g[x]
       PROVE  SumFunction(f) = SumFunction(g)
  <2>1. \A x \in D : g[x] = f[e[x]]
    BY <1>19
  <2>2. e \in [D -> R]
    BY <1>15
  <2>3. \A z \in R : \E x \in D : e[x] = z
    BY <1>15
  <2>4. IsFiniteSet(D)
    BY <1>1
  <2> QED BY <1>16, <1>17, <2>1, <2>2, <2>3, <2>4, SumImage
<1>20. SumFunction([r \in R |-> r.shares]) = SumFunction(from)
  <2> DEFINE f == [r \in R |-> r.shares]
  <2>1. f \in [R -> Int] /\ \A x \in D : f[e[x]] = from[x]
    BY <1>9, <1>15, <1>18 DEF Result
  <2> HIDE DEF f
  <2>2. SumFunction(f) = SumFunction(from)
    BY <1>1, <1>19, <2>1
  <2> QED BY <2>2 DEF f
<1>21. SumFunction([r \in R |-> r.gross]) = SumFunction(gross)
  <2> DEFINE f == [r \in R |-> r.gross]
  <2>1. f \in [R -> Int] /\ \A x \in D : f[e[x]] = gross[x]
    BY <1>9, <1>15, <1>18 DEF Result
  <2> HIDE DEF f
  <2>2. SumFunction(f) = SumFunction(gross)
    BY <1>2, <1>19, <2>1
  <2> QED BY <2>2 DEF f
<1>22. SumFunction([r \in R |-> r.fee]) = SumFunction(charge)
  <2> DEFINE f == [r \in R |-> r.fee]
  <2>1. f \in [R -> Int] /\ \A x \in D : f[e[x]] = charge[x]
    BY <1>9, <1>15, <1>18 DEF Result
  <2> HIDE DEF f
  <2>2. SumFunction(f) = SumFunction(charge)
    BY <1>3, <1>19, <2>1
  <2> QED BY <2>2 DEF f
<1>23. Earned(R) = SumFunction(pnl)
  <2> DEFINE f == [r \in R |-> r.pnl]
  <2>1. f \in [R -> Int] /\ \A x \in D : f[e[x]] = pnl[x]
    BY <1>9, <1>15, <1>18 DEF Result
  <2> HIDE DEF f
  <2>2. SumFunction(f) = SumFunction(pnl)
    BY <1>6, <1>19, <2>1
  <2> QED BY <2>2 DEF f, Earned
<1>24. SumFunction(costs) = Cost(D)
  BY DEF costs, Cost
<1>25. Earned(R) = amount - fee - Cost(D) + SumFunction(kept)
  BY <1>14, <1>23, <1>24
<1>26. \A r \in R : r.sale = Len(trades) + 1 /\ \E x \in D : r.ticker = x.ticker
  BY <1>9, <1>15
<1>27. /\ SumFunction([r \in R |-> r.gross]) = amount
       /\ SumFunction([r \in R |-> r.fee]) = fee
  BY <1>2, <1>3, <1>21, <1>22
<1> QED BY <1>17, <1>18, <1>20, <1>25, <1>26, <1>27 DEF R, kept

LEMMA SellKeeps ==
  ASSUME IInv, NEW k \in Ticker, NEW c \in Price, NEW fee \in Fee,
         NEW S \in (SUBSET LotsOf(k)) \ {{}}, NEW from \in [S -> Shares], Sell(k, c, fee, from)
  PROVE  IInv'
<1>1. PICK sold : sold = SumFunction(from)
  OBVIOUS
<1>2. PICK amount : amount = Amount(c, sold)
  OBVIOUS
<1>3. PICK t : t = [action |-> "SELL", ticker |-> k, type |-> "UNSPECIFIED", shares |-> sold,
                    amount |-> amount, fee |-> fee, day |-> day]
  OBVIOUS
<1>4. DOMAIN from = S /\ S # {} /\ S \subseteq lots /\ \A x \in S : x.ticker = k
  <2>1. DOMAIN from = S
    OBVIOUS
  <2>2. S \subseteq LotsOf(k) /\ S # {}
    OBVIOUS
  <2> QED BY <2>1, <2>2 DEF LotsOf
<1>5. /\ Typed /\ LotInv /\ SaleInv /\ EquityInv
      /\ Replayed /\ amount > 0
      /\ \A x \in S : from[x] <= x.left
      /\ \A x \in S : from[x] < x.left => Amount(x.average, x.left - from[x]) > 0
      /\ cash' = [cash EXCEPT !.available = @ + amount - fee]
      /\ trades' = Append(trades, t)
      /\ UNCHANGED stated
  BY <1>1, <1>2, <1>3, <1>4 DEF IInv, Sell
<1>6. lots' = (lots \ S) \cup Remaining(S, from)
  BY <1>4 DEF Sell, Remaining
<1>7. results' = results \cup SaleResults(S, from, amount, fee)
  BY <1>1, <1>2, <1>4 DEF Sell, SaleResults
<1>8. Takes(S, from)
  BY <1>4, <1>5, AmountAssumption DEF Takes
<1>9. SaleLots(S)
  BY <1>4, <1>5, FS_Subset DEF SaleLots, Typed, TypeOK, LotInv
<1>10. sold \in Nat /\ amount \in Nat /\ fee \in Nat
  <2>1. from \in [S -> Nat] /\ IsFiniteSet(S)
    BY <1>8, <1>9 DEF Takes, SaleLots
  <2>2. sold \in Nat
    BY <1>1, <2>1, SumNat
  <2>3. c \in Nat /\ fee \in Nat
    BY AmountAssumption
  <2> QED BY <1>2, <2>2, <2>3, AmountType
<1> DEFINE R == SaleResults(S, from, amount, fee)
           left == SumFunction(CostsLeft(S, from))
<1>11. /\ lots' \subseteq Lot /\ IsFiniteSet(lots') /\ LotInv'
       /\ Cost(lots') = Cost(lots) - Cost(S) + left /\ left \in Int /\ Cost(S) \in Nat
  <2>1. Typed /\ LotInv /\ S \subseteq lots
    BY <1>4, <1>5
  <2> QED BY <1>6, <1>8, <2>1, LotsAfterSale
<1>12. Len(trades) < MaxRecords
  BY <1>5, AmountAssumption DEF Typed, TypeOK, Replayed
<1>13. /\ R \subseteq Result /\ IsFiniteSet(R)
       /\ \A r \in R : r.sale = Len(trades) + 1 /\ \E x \in S : r.ticker = x.ticker
       /\ SumFunction([r \in R |-> r.shares]) = sold
       /\ SumFunction([r \in R |-> r.gross]) = amount
       /\ SumFunction([r \in R |-> r.fee]) = fee
       /\ Earned(R) = amount - fee - Cost(S) + left
  <2>1. Typed /\ amount \in Nat /\ fee \in Nat
    BY <1>5, <1>10
  <2>2. /\ R \subseteq Result /\ IsFiniteSet(R)
        /\ \A r \in R : r.sale = Len(trades) + 1 /\ \E x \in S : r.ticker = x.ticker
        /\ SumFunction([r \in R |-> r.shares]) = SumFunction(from)
        /\ SumFunction([r \in R |-> r.gross]) = amount
        /\ SumFunction([r \in R |-> r.fee]) = fee
        /\ Earned(R) = amount - fee - Cost(S) + left
    BY <1>8, <1>9, <1>12, <2>1, ResultsOfSale
  <2> HIDE DEF R, left
  <2> QED BY <1>1, <2>2
<1> HIDE DEF R, left
<1>14. t \in Trade /\ t.day = day /\ t.ticker = k /\ t.shares = sold /\ t.amount = amount /\ t.fee = fee
  <2>1. day \in 0..MaxDay
    BY <1>5 DEF Typed, TypeOK
  <2> QED BY <1>3, <1>10, <2>1, AmountAssumption DEF Trade
<1>15. results' = results \cup R /\ results \cap R = {}
  <2>1. \A r \in results : r.sale # Len(trades) + 1
    BY <1>5 DEF SaleInv, Typed
  <2> QED BY <1>7, <1>13, <2>1 DEF R
<1>16. results' \subseteq Result /\ IsFiniteSet(results')
  BY <1>5, <1>13, <1>15, FS_Union DEF Typed, TypeOK
<1>17. Earned(results') = Earned(results) + Earned(R) /\ Earned(results) \in Int /\ Earned(R) \in Int
  BY <1>5, <1>13, <1>15, EarnedUnion DEF Typed, TypeOK
<1>18. /\ cash \in [available : Int, deposits : Nat, withdrawals : Nat]
       /\ cash' = [available |-> cash.available + amount - fee, deposits |-> cash.deposits,
                   withdrawals |-> cash.withdrawals]
  BY <1>5 DEF Typed, TypeOK
<1>19. Typed'
  <2>1. trades' \in Seq(Trade) /\ Len(trades') = Len(trades) + 1 /\ Len(trades') <= records'
    BY <1>5, <1>14, RecordsType DEF Typed
  <2>2. cash' \in [available : Int, deposits : Nat, withdrawals : Nat]
    BY <1>10, <1>18
  <2>3. \A i \in DOMAIN trades' : trades'[i] \in Trade
    BY <2>1
  <2> QED BY <1>5, <1>11, <1>16, <2>1, <2>2, <2>3, RecordsType DEF Typed, TypeOK
<1>20. SaleInv'
  <2>1. \A r \in R : r.sale = Len(trades) + 1 /\ r.ticker = t.ticker
    BY <1>4, <1>13, <1>14
  <2>2. TellsSale(t, R)
    BY <1>13, <1>14 DEF TellsSale
  <2>3. Typed /\ SaleInv /\ trades' = Append(trades, t) /\ day' = day
    BY <1>5, RecordsType
  <2>4. results' = results \cup R
    BY <1>15
  <2> QED BY <1>14, <2>1, <2>2, <2>3, <2>4, SalesWith
<1>21. EquityInv'
  <2>1. /\ Earned(results)' = Earned(results) + (amount - fee - Cost(S) + left)
        /\ Cost(lots)' = Cost(lots) - Cost(S) + left
    BY <1>11, <1>13, <1>17
  <2>2. cash'.available = cash.available + amount - fee /\ cash'.deposits = cash.deposits
        /\ cash'.withdrawals = cash.withdrawals
    BY <1>18
  <2>3. /\ cash.available \in Int /\ cash.deposits \in Nat /\ cash.withdrawals \in Nat
        /\ stated \in Int /\ InitialCash \in Nat
        /\ Cost(lots) \in Nat /\ Earned(results) \in Int
    BY <1>5, CashType
  <2>4. EquityInv /\ stated' = stated
    BY <1>5
  <2>5. left \in Int /\ Cost(S) \in Nat
    BY <1>11
  <2> DEFINE a == cash.available
             d == cash.deposits
             w == cash.withdrawals
             e == Earned(results)
             l == Cost(lots)
             s == Cost(S)
  <2>6. /\ a \in Int /\ d \in Int /\ w \in Int /\ e \in Int /\ l \in Int /\ s \in Int
        /\ e - l = a - stated - (InitialCash + d - w)
    BY <2>3, <2>4, <2>5 DEF EquityInv
  <2>7. /\ Earned(results)' = e + (amount - fee - s + left) /\ Cost(lots)' = l - s + left
        /\ cash'.available = a + amount - fee /\ cash'.deposits = d /\ cash'.withdrawals = w
        /\ stated' = stated
    BY <2>1, <2>2, <2>4
  <2> HIDE DEF a, d, w, e, l, s
  <2>8. (e + (amount - fee - s + left)) - (l - s + left) =
          (a + amount - fee) - stated - (InitialCash + d - w)
    BY <1>10, <2>3, <2>5, <2>6
  <2> QED BY <2>7, <2>8 DEF EquityInv
<1> QED BY <1>11, <1>19, <1>20, <1>21 DEF IInv

LEMMA InitInv ==
  ASSUME Init
  PROVE  IInv
<1>1. /\ cash = [available |-> InitialCash, deposits |-> 0, withdrawals |-> 0]
      /\ stated = Cost(lots) /\ results = {} /\ trades = << >> /\ records = 0 /\ day = 0
      /\ \A x \in lots : x.cost > 0
  BY DEF Init
<1>2. lots = {} \/ \E x : lots = {x} /\ Sound(x)
  <2>1. CASE lots = {}
    BY <2>1
  <2>2. ASSUME NEW id \in LotId, NEW k \in Ticker, NEW y \in PositionType, NEW n \in Shares, NEW c \in Price,
               lots = {Stated(id, k, y, "OPENING", n, c)}
        PROVE  \E x : lots = {x} /\ Sound(x)
    <3>1. Stated(id, k, y, "OPENING", n, c).cost > 0
      BY <1>1, <2>2
    <3>2. Sound(Stated(id, k, y, "OPENING", n, c))
      BY <3>1, StatedIs
    <3> QED BY <2>2, <3>2
  <2> QED BY <2>1, <2>2 DEF Init
<1>3. lots \subseteq Lot /\ IsFiniteSet(lots) /\ LotInv
  <2>1. CASE lots = {}
    BY <2>1, FS_EmptySet DEF LotInv
  <2>2. CASE \E x : lots = {x} /\ Sound(x)
    BY <2>2, FS_Singleton DEF LotInv, Sound
  <2> QED BY <1>2, <2>1, <2>2
<1>4. Cost(lots) \in Nat
  BY <1>3, CostType
<1>5. InitialCash \in Nat /\ MaxRecords \in Nat /\ MaxDay \in Nat
  BY AmountAssumption
<1>6. Typed
  <2>1. trades \in Seq(Trade) /\ Len(trades) = 0 /\ DOMAIN trades = {}
    BY <1>1
  <2>2. results \subseteq Result /\ IsFiniteSet(results)
    BY <1>1, FS_EmptySet
  <2>3. cash \in [available : Int, deposits : Nat, withdrawals : Nat]
    BY <1>1, <1>5
  <2>4. stated \in Int /\ records \in 0..MaxRecords /\ day \in 0..MaxDay /\ Len(trades) <= records
    BY <1>1, <1>4, <1>5, <2>1
  <2>5. \A n \in DOMAIN trades : trades[n] \in Trade
    BY <2>1
  <2> QED BY <1>3, <2>1, <2>2, <2>3, <2>4, <2>5 DEF Typed, TypeOK
<1>7. SaleInv
  BY <1>1 DEF SaleInv
<1>8. EquityInv
  <2>1. Earned(results) = 0
    BY <1>1, NothingSums
  <2> QED BY <1>1, <1>4, <1>5, <2>1 DEF EquityInv
<1> QED BY <1>3, <1>6, <1>7, <1>8 DEF IInv

LEMMA NextInv ==
  ASSUME IInv, [Next]_vars
  PROVE  IInv'
<1>1. CASE UNCHANGED vars
  <2>1. \A n : PartsOf(n)' = PartsOf(n)
    BY <1>1 DEF vars, PartsOf
  <2> QED BY <1>1, <2>1 DEF vars, IInv, Typed, TypeOK, LotInv, SaleInv, TellsSale, EquityInv, Earned, Cost
<1>2. ASSUME NEW c \in Price, Deposit(c) \/ Withdraw(c) PROVE IInv'
  BY <1>2, DepositKeeps, WithdrawKeeps
<1>3. ASSUME NEW id \in LotId, NEW k \in Ticker, NEW y \in PositionType, NEW n \in Shares, NEW c \in Price,
             Reconcile(id, k, y, n, c)
      PROVE  IInv'
  BY <1>3, ReconcileKeeps
<1>4. ASSUME NEW x \in lots, NEW y \in PositionType, Reclassify(x, y) PROVE IInv'
  BY <1>4, ReclassifyKeeps
<1>5. ASSUME NEW id \in LotId, NEW k \in Ticker, NEW y \in PositionType, NEW c \in Price, NEW n \in Shares,
             NEW fee \in Fee, Buy(id, k, y, c, n, fee)
      PROVE  IInv'
  BY <1>5, BuyKeeps
<1>6. ASSUME NEW k \in Ticker, NEW c \in Price, NEW fee \in Fee,
             NEW S \in (SUBSET LotsOf(k)) \ {{}}, NEW from \in [S -> Shares], Sell(k, c, fee, from)
      PROVE  IInv'
  BY <1>6, SellKeeps
<1>7. CASE NextDay
  BY <1>7, NextDayKeeps
<1> QED BY <1>1, <1>2, <1>3, <1>4, <1>5, <1>6, <1>7 DEF Next

LEMMA Invariance == Spec => []IInv
BY InitInv, NextInv, PTL DEF Spec

\* The state of a replay is of its types: TypeOK of LotAccounting.
THEOREM LedgerTyped == Spec => []TypeOK
<1>1. IInv => TypeOK
  BY DEF IInv, Typed
<1> QED BY <1>1, Invariance, PTL

(***************************************************************************)
(* Positions.                                                              *)
(***************************************************************************)

LEMMA PositionIs ==
  ASSUME IInv, NEW p \in Held
  PROVE  /\ Of(p) \subseteq lots /\ Of(p) # {} /\ Of(p) \subseteq Lot /\ IsFiniteSet(Of(p))
         /\ Cost(Of(p)) \in Nat /\ SharesOf(Of(p)) \in Nat \ {0}
<1> DEFINE L == Of(p)
           g == [x \in L |-> x.left]
<1>1. L \subseteq lots /\ L # {} /\ L \subseteq Lot /\ IsFiniteSet(L)
  BY FS_Subset DEF Held, Of, IInv, Typed, TypeOK
<1>2. \A x \in L : x.left \in Nat /\ x.left > 0
  BY <1>1 DEF IInv, LotInv, Lot
<1> HIDE DEF L
<1>3. g \in [L -> Nat] /\ \A x \in L : g[x] > 0
  BY <1>2
<1>4. PICK x \in L : TRUE
  BY <1>1
<1>5. SharesOf(L) = SumFunction(g)
  BY DEF SharesOf
<1> HIDE DEF g
<1>6. SumFunction(g) \in Nat /\ g[x] <= SumFunction(g)
  BY <1>1, <1>3, SumNat
<1>7. g[x] \in Nat /\ g[x] > 0
  BY <1>3
<1>8. SumFunction(g) # 0
  BY <1>6, <1>7
<1>9. Cost(L) \in Nat
  BY <1>1, CostType
<1> QED BY <1>1, <1>5, <1>6, <1>8, <1>9 DEF L

LEMMA PositionExplained ==
  ASSUME IInv, NEW p \in Held
  PROVE  LET q == PositionOf(p) IN
         /\ Explains(q.average, q.cost, q.shares)
         /\ \A b \in Budget : Funding(p, b).remaining > 0 <=> q.cost < b
<1> DEFINE q == PositionOf(p)
           L == Of(p)
<1>1. /\ L \subseteq lots /\ L # {} /\ L \subseteq Lot /\ IsFiniteSet(L)
      /\ Cost(L) \in Nat /\ SharesOf(L) \in Nat \ {0}
  BY PositionIs
<1>2. q.cost = Cost(L) /\ q.shares = SharesOf(L)
  BY DEF PositionOf
<1>3. Explains(q.average, q.cost, q.shares)
  <2>1. CASE \E x \in L : L = {x} /\ x.source = "RECONCILIATION"
    <3>1. PICK x \in L : L = {x}
      BY <2>1
    <3>2. q.average = (CHOOSE z \in L : TRUE).average
      BY <2>1 DEF PositionOf
    <3>3. (CHOOSE z \in L : TRUE) = x
      BY <3>1
    <3>4. x \in Lot /\ Cost(L) = x.cost
      BY <1>1, <3>1, CostOne
    <3>5. SharesOf(L) = x.left
      <4> DEFINE g == [z \in {x} |-> z.left]
      <4>1. g \in [{x} -> Int] /\ g[x] = x.left
        BY <3>4 DEF Lot
      <4> HIDE DEF g
      <4>2. SumFunction(g) = x.left
        BY <4>1, SumOne
      <4> QED BY <3>1, <4>2 DEF SharesOf, g
    <3>6. Explains(x.average, x.cost, x.left)
      BY <1>1 DEF IInv, LotInv
    <3> HIDE DEF q, L
    <3> QED BY <1>2, <3>2, <3>3, <3>4, <3>5, <3>6
  <2>2. CASE ~ \E x \in L : L = {x} /\ x.source = "RECONCILIATION"
    <3>1. q.average = Average(Cost(L), SharesOf(L))
      BY <2>2 DEF PositionOf
    <3> HIDE DEF q, L
    <3>2. Explains(Average(Cost(L), SharesOf(L)), Cost(L), SharesOf(L))
      BY <1>1, AverageExplained
    <3> QED BY <1>2, <3>1, <3>2
  <2> QED BY <2>1, <2>2
<1>4. ASSUME NEW b \in Budget PROVE Funding(p, b).remaining > 0 <=> q.cost < b
  <2> HIDE DEF q, L
  <2>1. Funding(p, b).remaining = Max({b - q.cost, 0})
    BY DEF Funding, q
  <2>2. b \in Nat /\ q.cost \in Nat
    BY <1>1, <1>2, ViewAssumption
  <2>3. PICK d : d = b - q.cost
    OBVIOUS
  <2>4. d \in Int
    BY <2>2, <2>3
  <2>5. Max({d, 0}) \in {d, 0} /\ Max({d, 0}) >= d /\ Max({d, 0}) >= 0
    BY <2>4, MaxIs
  <2> QED BY <2>1, <2>2, <2>3, <2>4, <2>5
<1> QED BY <1>3, <1>4

\* AverageExplainsCost: what is held has shares and a cost, and its average explains that cost up to
\* one rounding, however the lots were bought, sold in parts, reconciled and reclassified.
THEOREM AveragesExplain == Spec => []AverageExplainsCost
<1>1. IInv => AverageExplainsCost
  BY PositionExplained DEF AverageExplainsCost, IInv, LotInv
<1> QED BY <1>1, Invariance, PTL

(***************************************************************************)
(* The summary.                                                            *)
(***************************************************************************)

\* The positions are finitely many, and their lots are the lots.
LEMMA HeldIs ==
  ASSUME IInv
  PROVE  /\ IsFiniteSet(Held)
         /\ [x \in lots |-> <<x.ticker, x.type>>] \in [lots -> Held]
         /\ \A p \in Held : p[1] \in HeldTickers
         /\ \A k \in HeldTickers : \E p \in Held : p[1] = k
<1> DEFINE m == [x \in lots |-> <<x.ticker, x.type>>]
<1>1. lots \subseteq Lot /\ IsFiniteSet(lots)
  BY DEF IInv, Typed, TypeOK
<1>2. \A x \in lots : <<x.ticker, x.type>> \in Held
  <2> TAKE x \in lots
  <2>1. x.ticker \in Ticker /\ x.type \in PositionType
    BY <1>1 DEF Lot
  <2>2. x \in Of(<<x.ticker, x.type>>)
    BY DEF Of
  <2> QED BY <2>1, <2>2 DEF Held, Position
<1>3. m \in [lots -> Held] /\ \A x \in lots : m[x] = <<x.ticker, x.type>>
  BY <1>2
<1>4. \A p \in Held : \E x \in lots : p = <<x.ticker, x.type>>
  BY DEF Held, Of, Position
<1>5. m \in Surjection(lots, Held)
  BY <1>3, <1>4 DEF Surjection
<1> HIDE DEF m
<1>6. IsFiniteSet(Held)
  BY <1>1, <1>5, FS_Surjection
<1>7. \A p \in Held : p[1] \in HeldTickers
  BY <1>4 DEF HeldTickers
<1>8. \A k \in HeldTickers : \E p \in Held : p[1] = k
  <2> TAKE k \in HeldTickers
  <2>1. PICK x \in lots : k = x.ticker
    BY DEF HeldTickers
  <2>2. <<x.ticker, x.type>>[1] = k
    BY <2>1
  <2> QED BY <1>2, <2>2
<1> QED BY <1>3, <1>6, <1>7, <1>8 DEF m

Usable(q) == q.status = "OK" /\ 0 <= q.age /\ q.age <= MaxAge

LEMMA ValuedIs ==
  ASSUME IInv, NEW quotes \in Quotes, NEW p \in Held
  PROVE  LET v == Valued(Of(p), CurrentPrice(quotes[p[1]])) IN
         /\ v.market \in Int /\ v.unrealized \in Int /\ v.priced \in BOOLEAN
         /\ v.priced <=> Usable(quotes[p[1]])
         /\ v.priced => v.market = v.unrealized + Cost(Of(p))
<1>1. PICK q \in Quote : q = quotes[p[1]]
  BY HeldIs DEF Quotes
<1>2. PICK c : c = CurrentPrice(q)
  OBVIOUS
<1>3. c \in Nat /\ (c # NoPrice <=> Usable(q))
  <2>1. CASE q.status = "OK"
    <3>1. q.price \in QuotePrice /\ q.age \in Int
      <4>1. q # [status |-> "NO_DATA"]
        BY <2>1
      <4>2. q \in [status : {"OK"}, price : QuotePrice, age : Age]
        BY <4>1 DEF Quote
      <4> QED BY <4>2, ViewAssumption
    <3>2. q.price \in Nat \ {0} /\ MaxAge \in Nat
      BY <3>1, ViewAssumption
    <3> QED BY <1>2, <2>1, <3>1, <3>2 DEF CurrentPrice, NoPrice, Usable
  <2>2. CASE q.status # "OK"
    BY <1>2, <2>2 DEF CurrentPrice, NoPrice, Usable
  <2> QED BY <2>1, <2>2
<1>4. PICK m : m = Rounded(SharesOf(Of(p)) * c, Scale)
  OBVIOUS
<1>5. m \in Int
  <2>1. SharesOf(Of(p)) * c \in Int
    BY <1>3, PositionIs
  <2> QED BY <1>4, <2>1, RoundedIs, AmountAssumption
<1>6. PICK l \in Nat : l = Cost(Of(p))
  BY PositionIs
<1>7. Valued(Of(p), c) = IF c = NoPrice THEN [priced |-> FALSE, market |-> 0, unrealized |-> 0]
                         ELSE [priced |-> TRUE, market |-> m, unrealized |-> m - l]
  BY <1>4, <1>6 DEF Valued
<1>8. m - l \in Int /\ m = (m - l) + l
  BY <1>5, <1>6
<1>9. PICK v : v = Valued(Of(p), c)
  OBVIOUS
<1>10. /\ v.market \in Int /\ v.unrealized \in Int /\ v.priced \in BOOLEAN
       /\ v.priced <=> c # NoPrice
       /\ v.priced => v.market = v.unrealized + l
  <2>1. CASE c = NoPrice
    <3>1. v = [priced |-> FALSE, market |-> 0, unrealized |-> 0]
      BY <1>7, <1>9, <2>1
    <3> QED BY <2>1, <3>1
  <2>2. CASE c # NoPrice
    <3>1. v = [priced |-> TRUE, market |-> m, unrealized |-> m - l]
      BY <1>7, <1>9, <2>2
    <3> QED BY <1>5, <1>8, <2>2, <3>1
  <2> QED BY <2>1, <2>2
<1> QED BY <1>1, <1>2, <1>3, <1>6, <1>9, <1>10

Value(p, quotes) == Valued(Of(p), CurrentPrice(quotes[p[1]]))

Unrealized(P, quotes) == [p \in P |-> Value(p, quotes).unrealized]
Market(P, quotes) == [p \in P |-> Value(p, quotes).market]

LEMMA MetricsAre ==
  ASSUME NEW realized, NEW P, NEW quotes
  PROVE  LET m == Metrics(realized, P, quotes) IN
         /\ m.realized = realized
         /\ m.complete <=> \A p \in P : Value(p, quotes).priced
         /\ m.complete => /\ m.unrealized = SumFunction(Unrealized(P, quotes))
                          /\ m.market = SumFunction(Market(P, quotes))
<1> DEFINE value == [p \in P |-> Valued(Of(p), CurrentPrice(quotes[p[1]]))]
           complete == \A p \in P : value[p].priced
<1>1. \A p \in P : value[p] = Value(p, quotes)
  BY DEF Value
<1>2. Metrics(realized, P, quotes) =
        [realized |-> realized, complete |-> complete,
         unrealized |-> IF complete THEN SumFunction([p \in P |-> value[p].unrealized]) ELSE 0,
         market |-> IF complete THEN SumFunction([p \in P |-> value[p].market]) ELSE 0]
  BY DEF Metrics
<1> HIDE DEF value
<1>3. /\ [p \in P |-> value[p].unrealized] = Unrealized(P, quotes)
      /\ [p \in P |-> value[p].market] = Market(P, quotes)
  BY <1>1 DEF Unrealized, Market
<1>4. complete <=> \A p \in P : Value(p, quotes).priced
  BY <1>1
<1> HIDE DEF complete
<1> QED BY <1>2, <1>3, <1>4

\* The cost of the lots is the sum of the costs of the positions.
LEMMA CostsByPosition ==
  ASSUME IInv
  PROVE  Cost(lots) = SumFunction([p \in Held |-> Cost(Of(p))])
<1> DEFINE m == [x \in lots |-> <<x.ticker, x.type>>]
           f == [x \in lots |-> x.cost]
           F == [p \in Held |-> Cost(Of(p))]
<1>1. lots \subseteq Lot /\ IsFiniteSet(lots) /\ IsFiniteSet(Held)
  BY HeldIs DEF IInv, Typed, TypeOK
<1>2. m \in [lots -> Held]
  BY HeldIs
<1>3. f \in [lots -> Int]
  BY <1>1 DEF Lot
<1>4. F \in [Held -> Int]
  BY PositionIs
<1>5. ASSUME NEW p \in Held PROVE F[p] = SumFunction(On(f, Fiber(m, p)))
  <2>1. p = <<p[1], p[2]>>
    BY DEF Held, Position
  <2>2. Fiber(m, p) = Of(p)
    BY <2>1 DEF Fiber, Of
  <2>3. On(f, Of(p)) = [x \in Of(p) |-> x.cost]
    BY DEF On, Of
  <2> QED BY <2>2, <2>3 DEF Cost
<1> HIDE DEF m, f, F
<1>6. SumFunction(f) = SumFunction(F)
  BY <1>1, <1>2, <1>3, <1>4, <1>5, SumFibers
<1> QED BY <1>6 DEF f, F, Cost

LEMMA TotalsAre ==
  ASSUME IInv, NEW quotes \in Quotes
  PROVE  LET t == Totals(quotes) IN
         /\ t.realized = Earned(results)
         /\ t.complete <=> \A p \in Held : Usable(quotes[p[1]])
         /\ t.complete => /\ t.market \in Int /\ t.unrealized \in Int
                          /\ t.market = t.unrealized + Cost(lots)
                          /\ t.unrealized = SumFunction(Unrealized(Held, quotes))
<1> DEFINE t == Totals(quotes)
           f == Unrealized(Held, quotes)
           g == [p \in Held |-> Cost(Of(p))]
           h == Market(Held, quotes)
<1>1. t = Metrics(Realized(results).pnl, Held, quotes)
  BY DEF Totals
<1>2. Realized(results).pnl = Earned(results)
  BY DEF Realized, Earned
<1> HIDE DEF t
<1>3. /\ t.realized = Earned(results)
      /\ t.complete <=> \A p \in Held : Value(p, quotes).priced
      /\ t.complete => t.unrealized = SumFunction(f) /\ t.market = SumFunction(h)
  BY <1>1, <1>2, MetricsAre
<1>4. \A p \in Held : LET v == Value(p, quotes) IN
         /\ v.market \in Int /\ v.unrealized \in Int
         /\ v.priced <=> Usable(quotes[p[1]])
         /\ v.priced => v.market = v.unrealized + Cost(Of(p))
  BY ValuedIs DEF Value
<1>5. f \in [Held -> Int] /\ h \in [Held -> Int]
  BY <1>4 DEF Unrealized, Market
<1>6. g \in [Held -> Int]
  BY PositionIs
<1>7. IsFiniteSet(Held)
  BY HeldIs
<1>8. ASSUME t.complete PROVE SumFunction(h) = SumFunction(f) + Cost(lots)
  <2>1. \A p \in Held : h[p] = f[p] + g[p]
    BY <1>3, <1>4, <1>8 DEF Unrealized, Market
  <2>2. Cost(lots) = SumFunction(g)
    BY CostsByPosition
  <2> HIDE DEF f, g, h
  <2>3. SumFunction(h) = SumFunction(f) + SumFunction(g)
    BY <1>5, <1>6, <1>7, <2>1, SumPlus
  <2> QED BY <2>2, <2>3
<1>9. SumFunction(f) \in Int /\ SumFunction(h) \in Int
  <2> HIDE DEF f, h
  <2> QED BY <1>5, <1>7, SumType
<1>10. t.complete <=> \A p \in Held : Usable(quotes[p[1]])
  BY <1>3, <1>4
<1> HIDE DEF h
<1> QED BY <1>3, <1>8, <1>9, <1>10 DEF t

\* ProfitIsEquityGained: the total profit the summary shows is the cash and market value there is,
\* less what was put in, whatever the facts, the order they came in and the rounding.
THEOREM ProfitIsEquity == Spec => []ProfitIsEquityGained
<1>1. ASSUME IInv, NEW quotes \in Quotes, Totals(quotes).complete
      PROVE  Profit(Totals(quotes)) =
               cash.available + Totals(quotes).market - stated
                 - (InitialCash + cash.deposits - cash.withdrawals)
  <2> DEFINE t == Totals(quotes)
             m == t.market
             u == t.unrealized
             e == Earned(results)
             l == Cost(lots)
             a == cash.available
             d == cash.deposits
             w == cash.withdrawals
  <2>1. t.realized = e /\ m \in Int /\ u \in Int /\ m = u + l
    BY <1>1, TotalsAre
  <2>2. /\ a \in Int /\ d \in Int /\ w \in Int /\ stated \in Int /\ InitialCash \in Int
        /\ e \in Int /\ l \in Int /\ e - l = a - stated - (InitialCash + d - w)
    BY <1>1, CashType DEF IInv, EquityInv
  <2>3. Profit(t) = e + u
    BY <2>1 DEF Profit
  <2> HIDE DEF t, m, u, e, l, a, d, w
  <2>4. e + u = a + m - stated - (InitialCash + d - w)
    BY <2>1, <2>2
  <2> QED BY <2>3, <2>4 DEF t, m, a, d, w
<1>2. IInv => ProfitIsEquityGained
  BY <1>1 DEF ProfitIsEquityGained
<1> QED BY <1>2, Invariance, PTL

ListedPositions == UNION {ListedTypes(k) : k \in Listed}

\* What is listed is finitely much: what is held and what was sold.
LEMMA ListedIs ==
  ASSUME IInv
  PROVE  /\ IsFiniteSet(Listed) /\ HeldTickers \subseteq Listed
         /\ [r \in results |-> r.ticker] \in [results -> Listed]
         /\ IsFiniteSet(ListedPositions) /\ Held \subseteq ListedPositions
         /\ [r \in results |-> <<r.ticker, r.type>>] \in [results -> ListedPositions]
         /\ \A p \in ListedPositions : p = <<p[1], p[2]>>
<1> DEFINE A == {r.ticker : r \in results}
           B == {<<r.ticker, r.type>> : r \in results}
           f == [x \in lots |-> x.ticker]
           g == [r \in results |-> r.ticker]
           h == [r \in results |-> <<r.ticker, r.type>>]
<1>1. IsFiniteSet(lots) /\ IsFiniteSet(results) /\ results \subseteq Result
  BY DEF IInv, Typed, TypeOK
<1>2. f \in Surjection(lots, HeldTickers)
  BY DEF HeldTickers, Surjection
<1>3. g \in Surjection(results, A)
  BY DEF Surjection
<1>4. h \in Surjection(results, B)
  BY DEF Surjection
<1>5. Listed = HeldTickers \cup A
  BY DEF Listed
<1>6. ListedPositions \subseteq Held \cup B
  BY DEF ListedPositions, ListedTypes, SoldAs, SoldBy, Position
<1>7. \A r \in results : r.ticker \in Listed
  BY <1>5
<1>8. Held \subseteq ListedPositions
  <2>1. \A p \in Held : p \in Position /\ p[1] \in Listed
    BY <1>5, HeldIs DEF Held
  <2> QED BY <2>1 DEF ListedPositions, ListedTypes
<1>9. \A r \in results : <<r.ticker, r.type>> \in ListedPositions
  <2> TAKE r \in results
  <2>1. PICK p : p = <<r.ticker, r.type>>
    OBVIOUS
  <2>2. p \in Position /\ p[1] = r.ticker /\ p[2] = r.type
    BY <1>1, <2>1 DEF Position, Result
  <2>3. r \in SoldAs(p)
    BY <2>2 DEF SoldAs, SoldBy
  <2>4. p \in ListedTypes(r.ticker)
    BY <2>2, <2>3 DEF ListedTypes
  <2> QED BY <1>7, <2>1, <2>4 DEF ListedPositions
<1>10. \A p \in ListedPositions : p = <<p[1], p[2]>>
  BY DEF ListedPositions, ListedTypes, Position
<1>11. h \in [results -> ListedPositions] /\ g \in [results -> Listed]
  BY <1>7, <1>9
<1> HIDE DEF A, B, f, g, h
<1>12. IsFiniteSet(HeldTickers) /\ IsFiniteSet(A) /\ IsFiniteSet(B)
  <2>1. IsFiniteSet(HeldTickers)
    BY <1>1, <1>2, FS_Surjection
  <2>2. IsFiniteSet(A)
    BY <1>1, <1>3, FS_Surjection
  <2>3. IsFiniteSet(B)
    BY <1>1, <1>4, FS_Surjection
  <2> QED BY <2>1, <2>2, <2>3
<1>13. IsFiniteSet(Listed)
  BY <1>5, <1>12, FS_Union
<1>14. IsFiniteSet(ListedPositions)
  <2>1. IsFiniteSet(Held \cup B)
    BY <1>12, HeldIs, FS_Union
  <2> QED BY <1>6, <2>1, FS_Subset
<1> QED BY <1>5, <1>8, <1>10, <1>11, <1>13, <1>14 DEF g, h

LEMMA EarnedType ==
  ASSUME IInv, NEW R, R \subseteq results
  PROVE  Earned(R) \in Int
<1>1. R \cup {} = R /\ R \cap {} = {} /\ IsFiniteSet(R) /\ R \subseteq Result /\ IsFiniteSet({}) /\ {} \subseteq Result
  BY FS_Subset, FS_EmptySet DEF IInv, Typed, TypeOK
<1> QED BY <1>1, EarnedUnion

\* What was earned is the sum over the tickers and over the types listed.
LEMMA EarnedByListed ==
  ASSUME IInv
  PROVE  /\ Earned(results) = SumFunction([k \in Listed |-> Earned(SoldBy(k))])
         /\ Earned(results) = SumFunction([p \in ListedPositions |-> Earned(SoldAs(p))])
<1> DEFINE f == [r \in results |-> r.pnl]
           g == [r \in results |-> r.ticker]
           h == [r \in results |-> <<r.ticker, r.type>>]
           G == [k \in Listed |-> Earned(SoldBy(k))]
           H == [p \in ListedPositions |-> Earned(SoldAs(p))]
<1>1. IsFiniteSet(results) /\ results \subseteq Result
  BY DEF IInv, Typed, TypeOK
<1>2. f \in [results -> Int]
  BY <1>1 DEF Result
<1>3. G \in [Listed -> Int]
  BY EarnedType DEF SoldBy
<1>4. H \in [ListedPositions -> Int]
  BY EarnedType DEF SoldAs, SoldBy
<1>5. ASSUME NEW k \in Listed PROVE G[k] = SumFunction(On(f, Fiber(g, k)))
  <2>1. Fiber(g, k) = SoldBy(k)
    BY DEF Fiber, SoldBy
  <2>2. On(f, SoldBy(k)) = [r \in SoldBy(k) |-> r.pnl]
    BY DEF On, SoldBy
  <2> QED BY <2>1, <2>2 DEF Earned
<1>6. ASSUME NEW p \in ListedPositions PROVE H[p] = SumFunction(On(f, Fiber(h, p)))
  <2>1. p = <<p[1], p[2]>>
    BY ListedIs
  <2>2. Fiber(h, p) = SoldAs(p)
    BY <2>1 DEF Fiber, SoldAs, SoldBy
  <2>3. On(f, SoldAs(p)) = [r \in SoldAs(p) |-> r.pnl]
    BY DEF On, SoldAs, SoldBy
  <2> QED BY <2>2, <2>3 DEF Earned
<1>7. IsFiniteSet(Listed) /\ g \in [results -> Listed]
  BY ListedIs
<1>8. IsFiniteSet(ListedPositions) /\ h \in [results -> ListedPositions]
  BY ListedIs
<1> HIDE DEF f, g, h, G, H
<1>9. SumFunction(f) = SumFunction(G)
  BY <1>1, <1>2, <1>3, <1>5, <1>7, SumFibers
<1>10. SumFunction(f) = SumFunction(H)
  BY <1>1, <1>2, <1>4, <1>6, <1>8, SumFibers
<1> QED BY <1>9, <1>10 DEF f, G, H, Earned

\* What one type adds to the summary.
LEMMA TypeAdds ==
  ASSUME IInv, NEW quotes \in Quotes, \A p \in Held : Usable(quotes[p[1]]), NEW p
  PROVE  LET s == TypeSummary(p, quotes) IN
         /\ s.realized = Earned(SoldAs(p))
         /\ s.unrealized = IF p \in Held THEN Value(p, quotes).unrealized ELSE 0
<1> DEFINE P == {p} \cap Held
           f == Unrealized(P, quotes)
           s == TypeSummary(p, quotes)
<1>1. s = Metrics(Earned(SoldAs(p)), P, quotes)
  <2>1. s = Metrics(Realized(SoldAs(p)).pnl, P, quotes)
    BY DEF TypeSummary
  <2>2. Realized(SoldAs(p)).pnl = Earned(SoldAs(p))
    BY DEF Realized, Earned
  <2> HIDE DEF P, s
  <2> QED BY <2>1, <2>2
<1>2. \A q \in P : Value(q, quotes).priced /\ Value(q, quotes).unrealized \in Int
  BY ValuedIs DEF Value
<1>3. f \in [P -> Int]
  BY <1>2 DEF Unrealized
<1> HIDE DEF s
<1>4. s.realized = Earned(SoldAs(p)) /\ s.unrealized = SumFunction(f)
  <2>1. PICK Q : Q = P
    OBVIOUS
  <2>2. PICK e : e = Earned(SoldAs(p))
    OBVIOUS
  <2> HIDE DEF P, f
  <2>3. s = Metrics(e, Q, quotes) /\ \A q \in Q : Value(q, quotes).priced
    BY <1>1, <1>2, <2>1, <2>2
  <2>4. s.realized = e /\ s.unrealized = SumFunction(Unrealized(Q, quotes))
    BY <2>3, MetricsAre
  <2> QED BY <2>1, <2>2, <2>4 DEF f
<1>5. CASE p \in Held
  <2>1. P = {p} /\ f[p] = Value(p, quotes).unrealized
    BY <1>5 DEF Unrealized
  <2> HIDE DEF f, P
  <2>2. SumFunction(f) = f[p]
    BY <1>3, <2>1, SumOne
  <2> QED BY <1>4, <1>5, <2>1, <2>2 DEF s
<1>6. CASE p \notin Held
  <2>1. P = {}
    BY <1>6
  <2> HIDE DEF f, P
  <2>2. SumFunction(f) = 0
    BY <1>3, <2>1, SumEmpty
  <2> QED BY <1>4, <1>6, <2>2 DEF s
<1> QED BY <1>5, <1>6

\* What one ticker adds to the summary.
LEMMA TickerAdds ==
  ASSUME IInv, NEW quotes \in Quotes, NEW k
  PROVE  LET s == TickerSummary(k, quotes) IN
         /\ s.realized = Earned(SoldBy(k))
         /\ s.complete <=> \A p \in TypesOf(k) : Usable(quotes[p[1]])
<1>1. PICK s : s = TickerSummary(k, quotes)
  OBVIOUS
<1>2. PICK e : e = Earned(SoldBy(k))
  OBVIOUS
<1>3. s = Metrics(e, TypesOf(k), quotes)
  <2>1. Realized(SoldBy(k)).pnl = e
    BY <1>2 DEF Realized, Earned
  <2> QED BY <1>1, <2>1 DEF TickerSummary
<1>4. s.realized = e /\ (s.complete <=> \A p \in TypesOf(k) : Value(p, quotes).priced)
  BY <1>3, MetricsAre
<1>5. \A p \in TypesOf(k) : Value(p, quotes).priced <=> Usable(quotes[p[1]])
  <2> TAKE p \in TypesOf(k)
  <2>1. p \in Held
    BY DEF TypesOf
  <2> QED BY <2>1, ValuedIs DEF Value
<1> QED BY <1>1, <1>2, <1>4, <1>5

LEMMA TypeRealized ==
  ASSUME NEW quotes, NEW p
  PROVE  TypeSummary(p, quotes).realized = Earned(SoldAs(p))
<1>1. PICK s : s = TypeSummary(p, quotes)
  OBVIOUS
<1>2. PICK e : e = Earned(SoldAs(p))
  OBVIOUS
<1>3. PICK Q : Q = {p} \cap Held
  OBVIOUS
<1>4. s = Metrics(e, Q, quotes)
  <2>1. Realized(SoldAs(p)).pnl = e
    BY <1>2 DEF Realized, Earned
  <2> QED BY <1>1, <1>3, <2>1 DEF TypeSummary
<1>5. s.realized = e
  BY <1>4, MetricsAre
<1> QED BY <1>1, <1>2, <1>5

LEMMA SummaryAdds ==
  ASSUME IInv, NEW quotes \in Quotes
  PROVE  LET t == Totals(quotes)
             tickers == [k \in Listed |-> TickerSummary(k, quotes)]
             types == [p \in ListedPositions |-> TypeSummary(p, quotes)]
         IN  /\ t.complete <=> \A k \in Listed : tickers[k].complete
             /\ t.complete <=> \A k \in HeldTickers : Usable(quotes[k])
             /\ t.realized = SumFunction([k \in Listed |-> tickers[k].realized])
             /\ t.realized = SumFunction([p \in DOMAIN types |-> types[p].realized])
             /\ t.complete => Profit(t) = SumFunction([p \in DOMAIN types |-> Profit(types[p])])
<1> DEFINE t == Totals(quotes)
           tickers == [k \in Listed |-> TickerSummary(k, quotes)]
           types == [p \in ListedPositions |-> TypeSummary(p, quotes)]
           f == [p \in ListedPositions |-> Earned(SoldAs(p))]
           g == [p \in ListedPositions |-> IF p \in Held THEN Value(p, quotes).unrealized ELSE 0]
           h == [p \in DOMAIN types |-> Profit(types[p])]
           u == Unrealized(Held, quotes)
<1>1. /\ t.realized = Earned(results)
      /\ t.complete <=> \A p \in Held : Usable(quotes[p[1]])
      /\ t.complete => t.unrealized = SumFunction(u)
  BY TotalsAre
<1> HIDE DEF t
<1>2. /\ HeldTickers \subseteq Listed /\ \A p \in Held : p[1] \in HeldTickers
      /\ \A k \in HeldTickers : \E p \in Held : p[1] = k
  BY ListedIs, HeldIs
<1>3. t.complete <=> \A k \in HeldTickers : Usable(quotes[k])
  BY <1>1, <1>2
<1>4. t.complete <=> \A k \in Listed : tickers[k].complete
  <2>1. \A k \in Listed : tickers[k].complete <=> \A p \in TypesOf(k) : Usable(quotes[p[1]])
    BY TickerAdds
  <2> HIDE DEF tickers
  <2>2. \A p \in Held : p[1] \in Listed /\ p \in TypesOf(p[1])
    BY <1>2 DEF TypesOf
  <2>3. \A k \in Listed : TypesOf(k) \subseteq Held
    BY DEF TypesOf
  <2> QED BY <1>1, <2>1, <2>2, <2>3
<1>5. t.realized = SumFunction([k \in Listed |-> tickers[k].realized])
  <2>1. \A k \in Listed : tickers[k].realized = Earned(SoldBy(k))
    BY TickerAdds
  <2> HIDE DEF tickers
  <2>2. [k \in Listed |-> tickers[k].realized] = [k \in Listed |-> Earned(SoldBy(k))]
    BY <2>1
  <2> QED BY <1>1, <2>2, EarnedByListed
<1>6. DOMAIN types = ListedPositions /\ \A p \in ListedPositions : types[p] = TypeSummary(p, quotes)
  OBVIOUS
<1> HIDE DEF types
<1>7. t.realized = SumFunction(f)
  BY <1>1, EarnedByListed
<1>8. [p \in DOMAIN types |-> types[p].realized] = f
  BY <1>6, TypeRealized
<1>9. ASSUME t.complete PROVE Profit(t) = SumFunction(h)
  <2>1. \A p \in Held : Usable(quotes[p[1]])
    BY <1>1, <1>9
  <2>2. \A p \in Held : Value(p, quotes).unrealized \in Int
    BY ValuedIs DEF Value
  <2>3. u \in [Held -> Int]
    BY <2>2 DEF Unrealized
  <2>4. f \in [ListedPositions -> Int]
    BY EarnedType DEF SoldAs, SoldBy
  <2>5. g \in [ListedPositions -> Int]
    BY <2>2
  <2>6. \A p \in ListedPositions : h[p] = f[p] + g[p]
    <3> TAKE p \in ListedPositions
    <3>1. PICK s : s = TypeSummary(p, quotes)
      OBVIOUS
    <3>2. s.realized = f[p] /\ s.unrealized = g[p]
      BY <2>1, <3>1, TypeAdds
    <3>3. h[p] = Profit(s)
      BY <1>6, <3>1
    <3> HIDE DEF f, g, h
    <3> QED BY <3>2, <3>3 DEF Profit
  <2>7. DOMAIN h = ListedPositions /\ h = [p \in ListedPositions |-> h[p]]
    BY <1>6
  <2>8. On(g, Held) = u
    BY ListedIs DEF On, Unrealized
  <2>9. \A p \in ListedPositions \ Held : g[p] = 0
    OBVIOUS
  <2>10. IsFiniteSet(ListedPositions) /\ Held \subseteq ListedPositions
    BY ListedIs
  <2> HIDE DEF f, g, h, u
  <2>11. h \in [ListedPositions -> Int]
    BY <2>4, <2>5, <2>6, <2>7
  <2>12. SumFunction(h) = SumFunction(f) + SumFunction(g)
    BY <2>4, <2>5, <2>6, <2>10, <2>11, SumPlus
  <2>13. SumFunction(g) = SumFunction(u)
    BY <2>5, <2>8, <2>9, <2>10, SumZeros
  <2> QED BY <1>1, <1>7, <1>9, <2>12, <2>13 DEF Profit
<1> HIDE DEF f, g, h, tickers
<1>10. t.realized = SumFunction([p \in DOMAIN types |-> types[p].realized])
  BY <1>7, <1>8
<1> QED BY <1>3, <1>4, <1>5, <1>9, <1>10 DEF t, tickers, types, h

\* SummaryAddsUp: the totals of the summary are the sums over the tickers and over the types it
\* lists, and they are shown exactly when each held ticker has a usable quote.
THEOREM SummaryAddsUpAlways == Spec => []SummaryAddsUp
<1>1. IInv => SummaryAddsUp
  <2>1. SUFFICES ASSUME IInv, NEW quotes \in Quotes
                 PROVE  LET t == Totals(quotes)
                            tickers == [k \in Listed |-> TickerSummary(k, quotes)]
                            types == [p \in ListedPositions |-> TypeSummary(p, quotes)]
                        IN  /\ t.complete <=> \A k \in Listed : tickers[k].complete
                            /\ t.complete <=> \A k \in HeldTickers : Usable(quotes[k])
                            /\ t.realized = SumFunction([k \in Listed |-> tickers[k].realized])
                            /\ t.realized = SumFunction([p \in DOMAIN types |-> types[p].realized])
                            /\ t.complete => Profit(t) = SumFunction([p \in DOMAIN types |-> Profit(types[p])])
    BY DEF SummaryAddsUp, ListedPositions, Usable
  <2> QED BY <2>1, SummaryAdds
<1> QED BY <1>1, Invariance, PTL

(***************************************************************************)
(* The chart.                                                              *)
(***************************************************************************)

\* A trade is on one marker if it is in the window, and that is on a bar unless the trade is of
\* today.
LEMMA MarksTell ==
  ASSUME IInv, NEW k, NEW w \in Window, NEW anchor \in 0..day, NEW n \in DOMAIN trades
  PROVE  LET marks == Chart(k, w, anchor, 0..day, FALSE).markers
             t == trades[n]
             on == {m \in marks : n \in m.trades}
         IN  /\ on # {} <=> t.ticker = k /\ t.day >= anchor - w /\ t.day <= anchor
             /\ \A m, o \in on : m = o /\ m.day = t.day /\ (m.onBar <=> t.day < day)
<1> DEFINE start == anchor - w
           bars == Bars(0..day, start, anchor, FALSE)
           shown == {i \in DOMAIN trades : trades[i].ticker = k /\ InWindow(trades[i].day, start, anchor)}
           Mark(d) == [day |-> d, onBar |-> d \in bars, trades |-> {i \in shown : trades[i].day = d}]
           marks == Chart(k, w, anchor, 0..day, FALSE).markers
           t == trades[n]
           on == {m \in marks : n \in m.trades}
<1>1. marks = {Mark(d) : d \in {trades[i].day : i \in shown}}
  BY DEF Chart, Markers
<1>2. /\ anchor \in Int /\ w \in Int /\ start \in Int /\ day \in Nat /\ anchor <= day /\ 0 <= anchor
      /\ t.day \in Nat /\ t.day <= day
  BY ViewAssumption, AmountAssumption DEF IInv, Typed, TypeOK, SaleInv, Trade
<1> HIDE DEF marks, start
<1>3. n \in shown <=> t.ticker = k /\ t.day >= start /\ t.day <= anchor
  BY <1>2 DEF InWindow
<1>4. ASSUME NEW e
      PROVE  /\ Mark(e).day = e /\ (Mark(e).onBar <=> e \in bars)
             /\ \A i : i \in Mark(e).trades <=> i \in shown /\ trades[i].day = e
  <2> HIDE DEF bars, shown
  <2> QED OBVIOUS
<1>5. PICK d \in Nat : d = t.day
  BY <1>2
<1> HIDE DEF Mark
<1>6. ASSUME n \in shown PROVE Mark(d) \in on
  <2> HIDE DEF shown
  <2>1. d \in {trades[i].day : i \in shown}
    BY <1>5, <1>6
  <2>2. Mark(d) \in marks
    BY <1>1, <2>1
  <2>3. n \in Mark(d).trades
    BY <1>4, <1>5, <1>6
  <2> QED BY <1>6, <2>2, <2>3
<1>7. ASSUME NEW m \in on PROVE n \in shown /\ m = Mark(d)
  <2> HIDE DEF shown
  <2>1. PICK e \in {trades[i].day : i \in shown} : m = Mark(e)
    BY <1>1
  <2>2. n \in shown /\ trades[n].day = e
    BY <1>4, <2>1
  <2> QED BY <1>5, <2>1, <2>2
<1>8. n \in shown => (d \in bars <=> d < day)
  <2>1. PICK l : l = LastCompleted(anchor, FALSE)
    OBVIOUS
  <2>2. l = IF anchor = day THEN anchor - 1 ELSE anchor
    BY <2>1 DEF LastCompleted
  <2>3. d \in bars <=> d \in 0..day /\ d \in start..anchor /\ d <= l
    BY <2>1 DEF Bars
  <2>4. n \in shown => d >= start /\ d <= anchor
    BY <1>3, <1>5
  <2> HIDE DEF t, bars, shown
  <2> QED BY <1>2, <2>2, <2>3, <2>4
<1> HIDE DEF bars, shown, on, t
<1>9. on # {} <=> n \in shown
  BY <1>6, <1>7
<1>10. \A m, o \in on : m = o /\ m.day = t.day /\ (m.onBar <=> t.day < day)
  BY <1>4, <1>5, <1>7, <1>8
<1> QED BY <1>3, <1>9, <1>10 DEF on, t, marks, start

\* ChartTellsEveryTrade: every listed ticker can be charted, its chart shows each trade of the
\* window once, and the parts of a sale add up to its shares, its amount and its fee.
THEOREM ChartTells == Spec => []ChartTellsEveryTrade
<1>1. ASSUME IInv PROVE Listed \subseteq Chartable
  BY <1>1 DEF IInv, SaleInv, Listed, Chartable
<1>2. ASSUME IInv, NEW n \in DOMAIN trades, trades[n].action = "SELL"
      PROVE  /\ SumFunction([r \in PartsOf(n) |-> r.shares]) = trades[n].shares
             /\ Realized(PartsOf(n)).gross = trades[n].amount
             /\ Realized(PartsOf(n)).fee = trades[n].fee
  BY <1>2 DEF IInv, SaleInv, TellsSale, Realized
<1>3. IInv => ChartTellsEveryTrade
  BY <1>1, <1>2, MarksTell DEF ChartTellsEveryTrade
<1> QED BY <1>3, Invariance, PTL

================================================================================
