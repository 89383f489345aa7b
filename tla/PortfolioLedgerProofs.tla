------------------------- MODULE PortfolioLedgerProofs -------------------------
(* What the ledger of PortfolioLedger promises, for every number of writes     *)
(* and every form a user may fill in.                                          *)
(*                                                                             *)
(* A replay is a fold over the facts in economic order.  Told says what the    *)
(* portfolio is after the facts of an initial segment of that order, in terms  *)
(* of the tables alone: ReplayTells proves it of every replay that succeeds,   *)
(* by a smallest counterexample among the initial segments.  The theorems      *)
(* about cash, shares and sales then compare tables.                           *)
EXTENDS PortfolioLedger, SumTheorems

(***************************************************************************)
(* The tables.                                                             *)
(***************************************************************************)

AnyId == Nat \X Key
Some == Nat \ {0}

AnyTransaction == [id : AnyId, sequence : Nat, action : {"BUY", "SELL"}, price : Nat,
                   shares : Some, fee : Nat, at : Nat]
AnyCashEvent == [sequence : Nat, event : {"DEPOSIT", "WITHDRAWAL"}, amount : Nat, at : Nat]
AnyHolding == [id : AnyId, shares : Some]
AnyAllocation == [sell : AnyId, lot : AnyId, shares : Some]
AnyChange == [lot : AnyId, type : PositionType, at : Nat]
AnyCorrection == [buy : AnyId, price : Nat, shares : Some, at : Nat, corrected : Nat]

AnyLedger == [transactions : SUBSET AnyTransaction, cashEvents : SUBSET AnyCashEvent,
              opening : SUBSET AnyHolding, reconciliations : SUBSET AnyHolding,
              allocations : SUBSET AnyAllocation, changes : SUBSET AnyChange,
              corrections : SUBSET AnyCorrection]

FinitelyMany(l) ==
  /\ IsFiniteSet(l.transactions) /\ IsFiniteSet(l.cashEvents)
  /\ IsFiniteSet(l.opening) /\ IsFiniteSet(l.reconciliations)
  /\ IsFiniteSet(l.allocations) /\ IsFiniteSet(l.changes) /\ IsFiniteSet(l.corrections)

OneRow(T) == \A t, u \in T : t.id = u.id => t = u

Apart(T, U) == \A t \in T, u \in U : t.id # u.id

\* An id names one row of one table, and no two changes of type are of one time.
OneName(l) ==
  /\ OneRow(l.transactions) /\ OneRow(l.opening) /\ OneRow(l.reconciliations)
  /\ Apart(l.transactions, l.opening) /\ Apart(l.transactions, l.reconciliations)
  /\ Apart(l.opening, l.reconciliations)
  /\ \A c, d \in l.changes : c.at = d.at => c = d

Sound(l) == l \in AnyLedger /\ FinitelyMany(l) /\ OneName(l)

(***************************************************************************)
(* Economic order.                                                         *)
(***************************************************************************)

Placed(e) == e.at \in Int /\ e.table \in Int /\ e.place \in Int

LEMMA PrecedesOrders ==
  ASSUME NEW e, NEW f, NEW g, Placed(e), Placed(f), Placed(g)
  PROVE  ~Precedes(e, e) /\ (Precedes(e, f) /\ Precedes(f, g) => Precedes(e, g))
BY DEF Placed, Precedes

Latest(E, e) == e \in E /\ \A f \in E : ~Precedes(e, f)

\* Facts have a last one, and Last is one.
LEMMA LastIsLatest ==
  ASSUME NEW E, IsFiniteSet(E), \A e \in E : Placed(e), NEW S \in SUBSET E, S # {}
  PROVE  Latest(S, Last(S))
<1> DEFINE A == {T \in SUBSET E : T # {} => \E e \in T : Latest(T, e)}
<1>1. {} \in A
  OBVIOUS
<1>2. ASSUME NEW T \in SUBSET E, NEW x \in E \ T, T \in A PROVE T \cup {x} \in A
  <2>1. CASE T = {}
    <3>1. Latest(T \cup {x}, x)
      BY <2>1, PrecedesOrders DEF Latest
    <3> QED BY <3>1
  <2>2. CASE T # {}
    <3>1. PICK m \in T : Latest(T, m)
      BY <1>2, <2>2
    <3>2. \A f \in T \cup {x} : Placed(f)
      OBVIOUS
    <3>3. CASE Precedes(m, x)
      <4>1. Latest(T \cup {x}, x)
        BY <3>1, <3>2, <3>3, PrecedesOrders DEF Latest
      <4> QED BY <4>1
    <3>4. CASE ~Precedes(m, x)
      <4>1. Latest(T \cup {x}, m)
        BY <3>1, <3>4 DEF Latest
      <4> QED BY <3>1, <4>1
    <3> QED BY <3>3, <3>4
  <2> QED BY <2>1, <2>2
<1>3. S \in A
  <2>1. IsFiniteSet(S)
    BY FS_Subset
  <2>2. \A T \in SUBSET S : \A x \in S \ T : T \in A => T \cup {x} \in A
    BY <1>2
  <2> HIDE DEF A
  <2> QED BY <1>1, <2>1, <2>2, SetInduction
<1> QED BY <1>3 DEF Latest, Last

(***************************************************************************)
(* The fold.                                                               *)
(***************************************************************************)

\* h gives each set of facts what replaying them amounts to.
Replays(l, h, D) ==
  h = [s \in D |-> IF s = {} THEN Start(l) ELSE Apply(l, Last(s), h[s \ {Last(s)}])]

Small(E, n) == {s \in SUBSET E : Cardinality(s) <= n}

LEMMA ReplayOfSmall ==
  ASSUME NEW l, NEW E, IsFiniteSet(E), \A s \in SUBSET E : s # {} => Last(s) \in s, NEW n \in Nat
  PROVE  \E h : Replays(l, h, Small(E, n))
<1> DEFINE A == {m \in Nat : \E h : Replays(l, h, Small(E, m))}
<1>1. \A s \in SUBSET E : /\ Cardinality(s) \in Nat
                          /\ Cardinality(s) = 0 <=> s = {}
                          /\ s # {} => Cardinality(s \ {Last(s)}) = Cardinality(s) - 1
  <2> TAKE s \in SUBSET E
  <2>1. IsFiniteSet(s)
    BY FS_Subset
  <2>2. Cardinality(s) \in Nat /\ (Cardinality(s) = 0 <=> s = {})
    BY <2>1, FS_CardinalityType, FS_EmptySet
  <2>3. s # {} => Cardinality(s \ {Last(s)}) = Cardinality(s) - 1
    BY <2>1, FS_RemoveElement
  <2> QED BY <2>2, <2>3
<1>2. 0 \in A
  <2> DEFINE h == [s \in Small(E, 0) |-> Start(l)]
  <2>1. \A s \in Small(E, 0) : s = {}
    <3>1. ASSUME NEW s \in SUBSET E, Cardinality(s) <= 0 PROVE s = {}
      <4>1. PICK c \in Nat : c = Cardinality(s) /\ (c = 0 <=> s = {})
        BY <1>1
      <4> QED BY <3>1, <4>1
    <3> QED BY <3>1 DEF Small
  <2>2. Replays(l, h, Small(E, 0))
    BY <2>1 DEF Replays
  <2> QED BY <2>2
<1>3. ASSUME NEW m \in Nat, m \in A PROVE m + 1 \in A
  <2>1. PICK h : Replays(l, h, Small(E, m))
    BY <1>3
  <2> DEFINE k == [s \in Small(E, m + 1) |->
                     IF s = {} THEN Start(l) ELSE Apply(l, Last(s), h[s \ {Last(s)}])]
  <2>2. \A s \in Small(E, m + 1) : s # {} => s \ {Last(s)} \in Small(E, m)
    BY <1>1 DEF Small
  <2>3. \A s \in Small(E, m) : s \in Small(E, m + 1)
    <3>1. ASSUME NEW s \in SUBSET E, Cardinality(s) <= m PROVE Cardinality(s) <= m + 1
      <4>1. PICK c \in Nat : c = Cardinality(s)
        BY <1>1
      <4> QED BY <3>1, <4>1
    <3> QED BY <3>1 DEF Small
  <2>4. \A s \in Small(E, m) : h[s] = k[s]
    BY <2>1, <2>3 DEF Replays
  <2>5. \A s \in Small(E, m + 1) : s # {} => h[s \ {Last(s)}] = k[s \ {Last(s)}]
    BY <2>2, <2>4
  <2>6. Replays(l, k, Small(E, m + 1))
    BY <2>5 DEF Replays
  <2>7. m + 1 \in Nat
    OBVIOUS
  <2> QED BY <2>6, <2>7
<1>4. n \in A
  <2> HIDE DEF A
  <2> QED BY <1>2, <1>3, NumberInduction
<1> QED BY <1>4

\* Replaying is well defined: a fold over the facts exists, and its value on all of them is
\* what Replay is.
LEMMA ReplayIs ==
  ASSUME NEW l, IsFiniteSet(Entries(l)), \A s \in SUBSET Entries(l) : s # {} => Last(s) \in s
  PROVE  \E h : Replays(l, h, SUBSET Entries(l)) /\ Replay(l) = h[Entries(l)]
<1>1. PICK n \in Nat : n = Cardinality(Entries(l))
  BY FS_CardinalityType
<1>2. Small(Entries(l), n) = SUBSET Entries(l)
  BY <1>1, FS_Subset DEF Small
<1>3. \E h : Replays(l, h, SUBSET Entries(l))
  <2>1. \E h : Replays(l, h, Small(Entries(l), n))
    BY ReplayOfSmall
  <2> QED BY <1>2, <2>1
<1> DEFINE k == CHOOSE k : k = [s \in SUBSET Entries(l) |->
                  IF s = {} THEN Start(l) ELSE Apply(l, Last(s), k[s \ {Last(s)}])]
<1>4. Replay(l) = k[Entries(l)]
  BY DEF Replay, MapThenFoldSet
<1>5. Replays(l, k, SUBSET Entries(l))
  <2>1. PICK h : h = [s \in SUBSET Entries(l) |->
                  IF s = {} THEN Start(l) ELSE Apply(l, Last(s), h[s \ {Last(s)}])]
    BY <1>3 DEF Replays
  <2>2. k = [s \in SUBSET Entries(l) |->
                  IF s = {} THEN Start(l) ELSE Apply(l, Last(s), k[s \ {Last(s)}])]
    BY <2>1
  <2> QED BY <2>2 DEF Replays
<1> HIDE DEF k
<1> QED BY <1>4, <1>5

(***************************************************************************)
(* The facts as the replay sees them.                                      *)
(***************************************************************************)

LEMMA ImageFinite ==
  ASSUME NEW S, IsFiniteSet(S), NEW T, NEW f \in [S -> T], \A y \in T : \E x \in S : f[x] = y
  PROVE  IsFiniteSet(T)
<1>1. f \in Surjection(S, T)
  BY DEF Surjection
<1> QED BY <1>1, FS_Surjection

LEMMA GreatestOf ==
  ASSUME NEW S, IsFiniteSet(S), S # {}, NEW f \in [S -> Nat]
  PROVE  \E c \in S : \A d \in S : f[d] <= f[c]
<1> DEFINE A == {T \in SUBSET S : T # {} => \E c \in T : \A d \in T : f[d] <= f[c]}
<1>1. {} \in A
  OBVIOUS
<1>2. ASSUME NEW T \in SUBSET S, NEW x \in S \ T, T \in A PROVE T \cup {x} \in A
  <2>1. \A c, d, e \in S : /\ f[c] <= f[c]
                           /\ f[c] <= f[d] \/ f[d] <= f[c]
                           /\ f[c] <= f[d] /\ f[d] <= f[e] => f[c] <= f[e]
    <3>1. \A a, b, c \in Nat : a <= a /\ (a <= b \/ b <= a) /\ (a <= b /\ b <= c => a <= c)
      OBVIOUS
    <3> QED BY <3>1
  <2>2. CASE T = {}
    BY <2>1, <2>2
  <2>3. CASE T # {}
    <3>1. PICK m \in T : \A d \in T : f[d] <= f[m]
      BY <1>2, <2>3
    <3>2. CASE f[m] <= f[x]
      <4>1. \A d \in T \cup {x} : f[d] <= f[x]
        BY <2>1, <3>1, <3>2
      <4> QED BY <4>1
    <3>3. CASE f[x] <= f[m]
      <4>1. \A d \in T \cup {x} : f[d] <= f[m]
        BY <3>1, <3>3
      <4> QED BY <4>1
    <3> QED BY <2>1, <3>2, <3>3
  <2> QED BY <2>2, <2>3
<1>3. S \in A
  <2>1. \A T \in SUBSET S : \A x \in S \ T : T \in A => T \cup {x} \in A
    BY <1>2
  <2> HIDE DEF A
  <2> QED BY <1>1, <2>1, SetInduction
<1> QED BY <1>3

Corrected(l, t) ==
  IF \E c \in l.corrections : c.buy = t.id
  THEN LET c == LatestCorrection(l, t) IN
       [t EXCEPT !.price = c.price, !.shares = c.shares, !.at = c.at]
  ELSE t

LEMMA EffectiveIs ==
  ASSUME NEW l
  PROVE  Effective(l) = {Corrected(l, t) : t \in l.transactions}
BY DEF Effective, Corrected

LEMMA LatestCorrectionIs ==
  ASSUME NEW l, Sound(l), NEW t, \E c \in l.corrections : c.buy = t.id
  PROVE  LatestCorrection(l, t) \in l.corrections /\ LatestCorrection(l, t) \in AnyCorrection
<1> DEFINE C == {c \in l.corrections : c.buy = t.id}
           f == [c \in C |-> c.corrected]
<1>1. IsFiniteSet(C) /\ C # {} /\ l.corrections \subseteq AnyCorrection
  <2>1. IsFiniteSet(l.corrections) /\ l.corrections \subseteq AnyCorrection
    BY DEF Sound, AnyLedger, FinitelyMany
  <2> QED BY <2>1, FS_Subset
<1>2. f \in [C -> Nat]
  BY <1>1 DEF AnyCorrection
<1>3. \E c \in C : \A d \in C : f[d] <= f[c]
  <2> HIDE DEF C, f
  <2> QED BY <1>1, <1>2, GreatestOf
<1>4. \E c \in l.corrections : c.buy = t.id
        /\ \A d \in l.corrections : d.buy = t.id => d.corrected <= c.corrected
  BY <1>3
<1>5. LatestCorrection(l, t) \in l.corrections
  BY <1>4 DEF LatestCorrection
<1> QED BY <1>1, <1>5

\* A correction changes what a purchase cost, how many shares it bought and when.
LEMMA CorrectedIs ==
  ASSUME NEW l, Sound(l), NEW t \in l.transactions
  PROVE  /\ t \in AnyTransaction
         /\ Corrected(l, t) \in AnyTransaction
         /\ Corrected(l, t).id = t.id
         /\ Corrected(l, t).action = t.action
         /\ Corrected(l, t).sequence = t.sequence
         /\ (\A c \in l.corrections : c.buy # t.id) => Corrected(l, t) = t
<1>1. t \in AnyTransaction
  BY DEF Sound, AnyLedger
<1>2. CASE \E c \in l.corrections : c.buy = t.id
  <2>1. PICK c \in AnyCorrection : c = LatestCorrection(l, t)
    BY <1>2, LatestCorrectionIs
  <2> DEFINE z == [id |-> t.id, sequence |-> t.sequence, action |-> t.action, price |-> c.price,
                   shares |-> c.shares, fee |-> t.fee, at |-> c.at]
  <2>2. PICK y : y = [t EXCEPT !.price = c.price, !.shares = c.shares, !.at = c.at]
    OBVIOUS
  <2>3. z \in AnyTransaction
    BY <1>1, <2>1 DEF AnyTransaction, AnyCorrection
  <2>4. y = z
    BY <1>1, <2>2 DEF AnyTransaction
  <2>5. Corrected(l, t) = z
    BY <1>2, <2>1, <2>2, <2>4 DEF Corrected
  <2>6. z.id = t.id /\ z.action = t.action /\ z.sequence = t.sequence
    OBVIOUS
  <2> HIDE DEF z
  <2> QED BY <1>1, <1>2, <2>3, <2>5, <2>6
<1>3. CASE ~\E c \in l.corrections : c.buy = t.id
  BY <1>1, <1>3 DEF Corrected
<1> QED BY <1>2, <1>3

\* No two facts of the time line have one id; only purchases are corrected.
LEMMA EffectiveRows ==
  ASSUME NEW l, Sound(l)
  PROVE  /\ Effective(l) \subseteq AnyTransaction
         /\ IsFiniteSet(Effective(l))
         /\ OneRow(Effective(l))
         /\ \A i : (\E t \in Effective(l) : t.id = i) <=> (\E t \in l.transactions : t.id = i)
<1>1. \A t \in l.transactions : Corrected(l, t) \in AnyTransaction /\ Corrected(l, t).id = t.id
  BY CorrectedIs
<1>2. IsFiniteSet(l.transactions) /\ OneRow(l.transactions)
  BY DEF Sound, FinitelyMany, OneName
<1>3. Effective(l) = {Corrected(l, t) : t \in l.transactions}
  BY EffectiveIs
<1>4. IsFiniteSet(Effective(l))
  <2> DEFINE f == [t \in l.transactions |-> Corrected(l, t)]
  <2>1. f \in [l.transactions -> Effective(l)] /\ \A y \in Effective(l) : \E x \in l.transactions : f[x] = y
    BY <1>3
  <2> HIDE DEF f
  <2> QED BY <1>2, <2>1, ImageFinite
<1>5. OneRow(Effective(l))
  BY <1>1, <1>2, <1>3 DEF OneRow
<1> QED BY <1>1, <1>3, <1>4, <1>5

LEMMA SalesAreRows ==
  ASSUME NEW l, Sound(l), WellFormed(l)
  PROVE  Sells(Effective(l)) = Sells(l.transactions)
<1>1. \A t \in Sells(l.transactions) : \A c \in l.corrections : c.buy # t.id
  BY DEF Sound, OneName, OneRow, WellFormed, Sells, Buys
<1>2. \A t \in Sells(l.transactions) : Corrected(l, t) = t
  BY <1>1, CorrectedIs DEF Sells
<1>3. \A t \in l.transactions : Corrected(l, t).action = t.action
  BY CorrectedIs
<1>4. Effective(l) = {Corrected(l, t) : t \in l.transactions}
  BY EffectiveIs
<1> QED BY <1>2, <1>3, <1>4 DEF Sells, Buys

CashEntry(e) == [at |-> e.at, table |-> 0, place |-> e.sequence, fact |-> e]
ReconciliationEntry(r) == [at |-> WrittenAt(r.id), table |-> 1, place |-> 0, fact |-> r]
TransactionEntry(t) == [at |-> t.at, table |-> 2, place |-> t.sequence, fact |-> t]
ChangeEntry(c) == [at |-> c.at, table |-> 3, place |-> 0, fact |-> c]

LEMMA EntryIs ==
  ASSUME NEW l, Sound(l), NEW e \in Entries(l)
  PROVE  /\ Placed(e)
         /\ \/ e.table = 0 /\ e.fact \in l.cashEvents /\ e = CashEntry(e.fact)
            \/ e.table = 1 /\ e.fact \in l.reconciliations /\ e = ReconciliationEntry(e.fact)
            \/ e.table = 2 /\ e.fact \in Effective(l) /\ e = TransactionEntry(e.fact)
            \/ e.table = 3 /\ e.fact \in l.changes /\ e = ChangeEntry(e.fact)
<1>1. /\ l.cashEvents \subseteq AnyCashEvent /\ l.reconciliations \subseteq AnyHolding
      /\ Effective(l) \subseteq AnyTransaction /\ l.changes \subseteq AnyChange
  BY EffectiveRows DEF Sound, AnyLedger
<1>2. CASE \E c \in l.cashEvents : e = CashEntry(c)
  BY <1>1, <1>2 DEF CashEntry, AnyCashEvent, Placed
<1>3. CASE \E r \in l.reconciliations : e = ReconciliationEntry(r)
  <2>1. PICK r \in l.reconciliations : e = ReconciliationEntry(r)
    BY <1>3
  <2>2. WrittenAt(r.id) \in Nat
    BY <1>1 DEF AnyHolding, AnyId, WrittenAt
  <2> QED BY <2>1, <2>2 DEF ReconciliationEntry, Placed
<1>4. CASE \E t \in Effective(l) : e = TransactionEntry(t)
  BY <1>1, <1>4 DEF TransactionEntry, AnyTransaction, Placed
<1>5. CASE \E c \in l.changes : e = ChangeEntry(c)
  BY <1>1, <1>5 DEF ChangeEntry, AnyChange, Placed
<1> QED BY <1>2, <1>3, <1>4, <1>5 DEF Entries, CashEntry, ReconciliationEntry, TransactionEntry, ChangeEntry

LEMMA EntriesAre ==
  ASSUME NEW l, Sound(l)
  PROVE  /\ IsFiniteSet(Entries(l))
         /\ \A e \in Entries(l) : Placed(e)
         /\ \A S \in SUBSET Entries(l) : S # {} => Latest(S, Last(S))
<1>1. \A e \in Entries(l) : Placed(e)
  BY EntryIs
<1>2. IsFiniteSet(Entries(l))
  <2> DEFINE A == {CashEntry(e) : e \in l.cashEvents}
             B == {ReconciliationEntry(r) : r \in l.reconciliations}
             C == {TransactionEntry(t) : t \in Effective(l)}
             D == {ChangeEntry(c) : c \in l.changes}
  <2>1. IsFiniteSet(A)
    <3> DEFINE f == [e \in l.cashEvents |-> CashEntry(e)]
    <3>1. f \in [l.cashEvents -> A] /\ \A y \in A : \E x \in l.cashEvents : f[x] = y
      OBVIOUS
    <3>2. IsFiniteSet(l.cashEvents)
      BY DEF Sound, FinitelyMany
    <3> HIDE DEF f, A
    <3> QED BY <3>1, <3>2, ImageFinite
  <2>2. IsFiniteSet(B)
    <3> DEFINE f == [e \in l.reconciliations |-> ReconciliationEntry(e)]
    <3>1. f \in [l.reconciliations -> B] /\ \A y \in B : \E x \in l.reconciliations : f[x] = y
      OBVIOUS
    <3>2. IsFiniteSet(l.reconciliations)
      BY DEF Sound, FinitelyMany
    <3> HIDE DEF f, B
    <3> QED BY <3>1, <3>2, ImageFinite
  <2>3. IsFiniteSet(C)
    <3> DEFINE f == [e \in Effective(l) |-> TransactionEntry(e)]
    <3>1. f \in [Effective(l) -> C] /\ \A y \in C : \E x \in Effective(l) : f[x] = y
      OBVIOUS
    <3>2. IsFiniteSet(Effective(l))
      BY EffectiveRows
    <3> HIDE DEF f, C
    <3> QED BY <3>1, <3>2, ImageFinite
  <2>4. IsFiniteSet(D)
    <3> DEFINE f == [e \in l.changes |-> ChangeEntry(e)]
    <3>1. f \in [l.changes -> D] /\ \A y \in D : \E x \in l.changes : f[x] = y
      OBVIOUS
    <3>2. IsFiniteSet(l.changes)
      BY DEF Sound, FinitelyMany
    <3> HIDE DEF f, D
    <3> QED BY <3>1, <3>2, ImageFinite
  <2>5. IsFiniteSet(((A \cup B) \cup C) \cup D)
    <3> HIDE DEF A, B, C, D
    <3>1. IsFiniteSet(A \cup B)
      BY <2>1, <2>2, FS_Union
    <3>2. IsFiniteSet((A \cup B) \cup C)
      BY <2>3, <3>1, FS_Union
    <3> QED BY <2>4, <3>2, FS_Union
  <2>6. Entries(l) = ((A \cup B) \cup C) \cup D
    BY DEF Entries, CashEntry, ReconciliationEntry, TransactionEntry, ChangeEntry
  <2> QED BY <2>5, <2>6
<1> QED BY <1>1, <1>2, LastIsLatest

(***************************************************************************)
(* What a replay tells.                                                    *)
(***************************************************************************)

\* The facts before those that are left.
Closed(l, S) == S \subseteq Entries(l) /\ \A e \in Entries(l) \ S, f \in S : ~Precedes(e, f)

\* The lots that facts of S, or the opening, have brought into being.
Born(l, S, i) ==
  \/ \E h \in l.opening : h.id = i
  \/ \E e \in S : e.table = 1 /\ e.fact.id = i
  \/ \E e \in S : e.table = 2 /\ e.fact.action = "BUY" /\ e.fact.id = i

AcquiredIn(l, i) ==
  IF \E t \in Effective(l) : t.id = i
  THEN (CHOOSE t \in Effective(l) : t.id = i).shares
  ELSE (CHOOSE h \in l.opening \cup l.reconciliations : h.id = i).shares

SaleOf(e, a) == e.table = 2 /\ e.fact.id = a.sell

\* What sales of S have taken.
TakenRows(l, S, i) == {a \in l.allocations : a.lot = i /\ \E e \in S : SaleOf(e, a)}

Taken(l, S, i) == TotalShares(TakenRows(l, S, i))

\* y is the type the changes C leave lot i with.
TypeIs(C, i, y) ==
  IF \A c \in C : c.lot # i
  THEN y = TypeOf(i)
  ELSE \E c \in C : c.lot = i /\ c.type = y /\ \A d \in C : d.lot = i => d.at <= c.at

ChangesOf(l, S) == {c \in l.changes : ChangeEntry(c) \in S}

ChangesBefore(l, at) == {c \in l.changes : c.at < at}

Delta(e) ==
  CASE e.table = 0 -> IF e.fact.event = "DEPOSIT" THEN e.fact.amount ELSE - e.fact.amount
    [] e.table = 2 -> IF e.fact.action = "BUY" THEN - (e.fact.price * e.fact.shares)
                      ELSE NetProceeds(e.fact)
    [] OTHER -> 0

Deltas(l) == [e \in Entries(l) |-> Delta(e)]

AnyLot == [id : AnyId, type : PositionType, source : {"OPENING", "RECONCILIATION", "BUY"}, left : Some]
AnySale == [sell : AnyId, lot : AnyId, type : PositionType]
AnyPortfolio == [error : {"none"}, cash : Int, sold : SUBSET AnySale, lots : SUBSET AnyLot]

LotTold(l, S, x) ==
  /\ Born(l, S, x.id)
  /\ x.left = AcquiredIn(l, x.id) - Taken(l, S, x.id)
  /\ TypeIs(ChangesOf(l, S), x.id, x.type)

LotsTold(l, S, lots) == IsFiniteSet(lots) /\ OneRow(lots) /\ \A x \in lots : LotTold(l, S, x)

\* No lot gave more than it had, and none before it was there.
GivenTold(l, S) ==
  \A a \in l.allocations : (\E e \in S : SaleOf(e, a)) =>
    Born(l, S, a.lot) /\ Taken(l, S, a.lot) <= AcquiredIn(l, a.lot)

ChangesTold(l, S) == \A c \in ChangesOf(l, S) : Born(l, S, c.lot)

SaleTold(l, S, y) ==
  \E a \in l.allocations : \E e \in S :
    /\ SaleOf(e, a) /\ y.sell = a.sell /\ y.lot = a.lot
    /\ TypeIs(ChangesBefore(l, e.fact.at), a.lot, y.type)

SalesTold(l, S, sold) == \A y \in AnySale : y \in sold <=> SaleTold(l, S, y)

CashTold(l, S, cash) == cash = InitialCash + SumFunction(On(Deltas(l), S))

Told(l, S, p) ==
  /\ WellFormed(l) /\ p \in AnyPortfolio
  /\ LotsTold(l, S, p.lots) /\ GivenTold(l, S) /\ ChangesTold(l, S)
  /\ SalesTold(l, S, p.sold) /\ CashTold(l, S, p.cash)

LEMMA AcquiredIs ==
  ASSUME NEW l, Sound(l)
  PROVE  /\ \A t \in Effective(l) : AcquiredIn(l, t.id) = t.shares
         /\ \A h \in l.opening \cup l.reconciliations : AcquiredIn(l, h.id) = h.shares
<1>1. ASSUME NEW t \in Effective(l) PROVE AcquiredIn(l, t.id) = t.shares
  <2>1. \A u \in Effective(l) : u.id = t.id => u = t
    BY EffectiveRows DEF OneRow
  <2> QED BY <2>1 DEF AcquiredIn
<1>2. ASSUME NEW h \in l.opening \cup l.reconciliations PROVE AcquiredIn(l, h.id) = h.shares
  <2>1. ~\E t \in Effective(l) : t.id = h.id
    BY EffectiveRows DEF Sound, OneName, Apart
  <2>2. \A g \in l.opening \cup l.reconciliations : g.id = h.id => g = h
    BY DEF Sound, OneName, OneRow, Apart
  <2> QED BY <2>1, <2>2 DEF AcquiredIn
<1> QED BY <1>1, <1>2

LEMMA AcquiredType ==
  ASSUME NEW l, Sound(l), NEW S \in SUBSET Entries(l), NEW i, Born(l, S, i)
  PROVE  AcquiredIn(l, i) \in Int
<1>1. \A t \in Effective(l) : t.shares \in Int
  BY EffectiveRows DEF AnyTransaction, Some
<1>2. \A h \in l.opening \cup l.reconciliations : h.shares \in Int
  BY DEF Sound, AnyLedger, AnyHolding, Some
<1>3. (\E t \in Effective(l) : t.id = i) \/ (\E h \in l.opening \cup l.reconciliations : h.id = i)
  BY EntryIs DEF Born
<1> QED BY <1>1, <1>2, <1>3 DEF AcquiredIn

LEMMA DeltaType ==
  ASSUME NEW l, Sound(l)
  PROVE  Deltas(l) \in [Entries(l) -> Int] /\ IsFiniteSet(Entries(l))
<1>1. ASSUME NEW e \in Entries(l) PROVE Delta(e) \in Int
  <2>1. CASE e.table = 0
    <3>1. e.fact \in AnyCashEvent
      BY <2>1, EntryIs DEF Sound, AnyLedger
    <3> QED BY <2>1, <3>1 DEF Delta, AnyCashEvent
  <2>2. CASE e.table = 2
    <3>1. e.fact \in AnyTransaction
      BY <2>2, EntryIs, EffectiveRows
    <3>2. PICK c \in Nat, n \in Nat, fee \in Nat :
            c = e.fact.price /\ n = e.fact.shares /\ fee = e.fact.fee
      BY <3>1 DEF AnyTransaction, Some
    <3>3. c * n \in Int /\ - (c * n) \in Int /\ c * n - fee \in Int
      OBVIOUS
    <3> QED BY <2>2, <3>2, <3>3 DEF Delta, NetProceeds
  <2>3. CASE e.table # 0 /\ e.table # 2
    BY <2>3 DEF Delta
  <2> QED BY <2>1, <2>2, <2>3
<1> QED BY <1>1, EntriesAre DEF Deltas

\* Cash after one fact more.
LEMMA CashSteps ==
  ASSUME NEW l, Sound(l), NEW S \in SUBSET Entries(l), NEW e \in Entries(l) \ S,
         NEW cash, CashTold(l, S, cash)
  PROVE  CashTold(l, S \cup {e}, cash + Delta(e)) /\ cash \in Int /\ Delta(e) \in Int
<1>1. Deltas(l) \in [Entries(l) -> Int] /\ IsFiniteSet(Entries(l))
  BY DeltaType
<1>2. SumFunction(On(Deltas(l), S \cup {e})) = Deltas(l)[e] + SumFunction(On(Deltas(l), S))
  BY <1>1, SumNext
<1>3. Deltas(l)[e] = Delta(e) /\ Delta(e) \in Int
  <2>1. Deltas(l)[e] = Delta(e)
    BY DEF Deltas
  <2> QED BY <1>1, <2>1
<1>4. SumFunction(On(Deltas(l), S)) \in Int /\ InitialCash \in Int
  BY <1>1, OnType, InputAssumption
<1> DEFINE a == SumFunction(On(Deltas(l), S))
           b == SumFunction(On(Deltas(l), S \cup {e}))
           d == Delta(e)
<1>5. b = d + a /\ a \in Int /\ d \in Int /\ cash = InitialCash + a
  BY <1>2, <1>3, <1>4 DEF CashTold
<1> HIDE DEF a, b, d
<1>6. cash + d = InitialCash + b /\ cash \in Int
  BY <1>4, <1>5
<1> QED BY <1>5, <1>6 DEF CashTold, a, b, d

\* No allocation is of a fact that is not a sale.
LEMMA OnlySales ==
  ASSUME NEW l, Sound(l), WellFormed(l), NEW e \in Entries(l), e.table = 2 => e.fact.action = "BUY"
  PROVE  \A a \in l.allocations : ~SaleOf(e, a)
<1> SUFFICES ASSUME NEW a \in l.allocations, SaleOf(e, a) PROVE FALSE
  OBVIOUS
<1>1. e.table = 2 /\ e.fact \in Effective(l) /\ e.fact.id = a.sell /\ e.fact.action = "BUY"
  BY EntryIs DEF SaleOf
<1>2. PICK t \in Sells(l.transactions) : t.id = a.sell
  BY DEF WellFormed
<1>3. t \in Effective(l) /\ t.action # "BUY"
  BY <1>2, SalesAreRows DEF Sells, Buys
<1>4. t = e.fact
  BY <1>1, <1>2, <1>3, EffectiveRows DEF OneRow
<1> QED BY <1>1, <1>3, <1>4

LEMMA BornGrows ==
  ASSUME NEW l, NEW S, NEW e, NEW i, Born(l, S, i)
  PROVE  Born(l, S \cup {e}, i)
BY DEF Born

\* A fact that is no sale changes nothing of what is told of the others.
LEMMA QuietStep ==
  ASSUME NEW l, Sound(l), WellFormed(l), NEW S \in SUBSET Entries(l), NEW e \in Entries(l) \ S,
         e.table = 2 => e.fact.action = "BUY", NEW sold,
         GivenTold(l, S), ChangesTold(l, S), SalesTold(l, S, sold)
  PROVE  /\ \A i : Taken(l, S \cup {e}, i) = Taken(l, S, i)
         /\ GivenTold(l, S \cup {e})
         /\ SalesTold(l, S \cup {e}, sold)
         /\ e.table # 3 => ChangesOf(l, S \cup {e}) = ChangesOf(l, S) /\ ChangesTold(l, S \cup {e})
<1>1. \A a \in l.allocations : ~SaleOf(e, a)
  BY OnlySales
<1>2. ASSUME NEW i PROVE Taken(l, S \cup {e}, i) = Taken(l, S, i)
  <2>1. TakenRows(l, S \cup {e}, i) = TakenRows(l, S, i)
    BY <1>1 DEF TakenRows
  <2> QED BY <2>1 DEF Taken
<1>3. GivenTold(l, S \cup {e})
  BY <1>1, <1>2, BornGrows DEF GivenTold
<1>4. SalesTold(l, S \cup {e}, sold)
  BY <1>1 DEF SalesTold, SaleTold
<1>5. ASSUME e.table # 3 PROVE ChangesOf(l, S \cup {e}) = ChangesOf(l, S) /\ ChangesTold(l, S \cup {e})
  <2>1. \A c : ChangeEntry(c) # e
    BY <1>5 DEF ChangeEntry
  <2>2. ChangesOf(l, S \cup {e}) = ChangesOf(l, S)
    BY <2>1 DEF ChangesOf
  <2> QED BY <2>2, BornGrows DEF ChangesTold
<1> QED BY <1>2, <1>3, <1>4, <1>5

LEMMA LotsKept ==
  ASSUME NEW l, NEW S, NEW e, NEW lots, LotsTold(l, S, lots),
         \A i : Taken(l, S \cup {e}, i) = Taken(l, S, i),
         ChangesOf(l, S \cup {e}) = ChangesOf(l, S)
  PROVE  LotsTold(l, S \cup {e}, lots)
<1>1. \A x \in lots : LotTold(l, S \cup {e}, x)
  BY BornGrows DEF LotsTold, LotTold
<1> QED BY <1>1 DEF LotsTold

\* A deposit or withdrawal.
LEMMA CashEventTells ==
  ASSUME NEW l, Sound(l), NEW S \in SUBSET Entries(l), NEW e \in Entries(l) \ S, e.table = 0,
         NEW p, Told(l, S, p), NEW q, q = ApplyCashEvent(p, e.fact), q.error = "none"
  PROVE  Told(l, S \cup {e}, q)
<1>1. /\ WellFormed(l) /\ p \in AnyPortfolio
      /\ LotsTold(l, S, p.lots) /\ GivenTold(l, S) /\ ChangesTold(l, S)
      /\ SalesTold(l, S, p.sold) /\ CashTold(l, S, p.cash)
  BY DEF Told
<1>2. /\ \A i : Taken(l, S \cup {e}, i) = Taken(l, S, i)
      /\ GivenTold(l, S \cup {e})
      /\ SalesTold(l, S \cup {e}, p.sold)
      /\ ChangesOf(l, S \cup {e}) = ChangesOf(l, S) /\ ChangesTold(l, S \cup {e})
  BY <1>1, QuietStep
<1>3. LotsTold(l, S \cup {e}, p.lots)
  BY <1>1, <1>2, LotsKept
<1>4. CashTold(l, S \cup {e}, p.cash + Delta(e)) /\ p.cash \in Int /\ Delta(e) \in Int
  BY <1>1, CashSteps
<1>5. e.fact \in AnyCashEvent
  BY EntryIs DEF Sound, AnyLedger
<1>6. q \in AnyPortfolio /\ q.cash = p.cash + Delta(e) /\ q.lots = p.lots /\ q.sold = p.sold
  <2>1. CASE e.fact.event = "DEPOSIT"
    <3>1. PICK n \in Int : n = p.cash + e.fact.amount /\ n = p.cash + Delta(e)
      BY <1>4, <2>1 DEF Delta
    <3>2. q = [p EXCEPT !.cash = n]
      BY <1>1, <2>1, <3>1 DEF ApplyCashEvent
    <3> QED BY <1>1, <3>1, <3>2 DEF AnyPortfolio
  <2>2. CASE e.fact.event # "DEPOSIT"
    <3>1. PICK a \in Nat : a = e.fact.amount
      BY <1>5 DEF AnyCashEvent
    <3>2. PICK n \in Int : n = p.cash - a
      BY <1>4
    <3>3. n = p.cash + Delta(e)
      BY <1>4, <2>2, <3>1, <3>2 DEF Delta
    <3>4. q = [p EXCEPT !.cash = n]
      BY <1>1, <2>2, <3>1, <3>2 DEF ApplyCashEvent, Spend, Failed
    <3> QED BY <1>1, <3>3, <3>4 DEF AnyPortfolio
  <2> QED BY <2>1, <2>2
<1> QED BY <1>1, <1>2, <1>3, <1>4, <1>6 DEF Told

\* The lot a fact brings into being is new to what came before.
LEMMA NewLotTold ==
  ASSUME NEW l, Sound(l), NEW S \in SUBSET Entries(l), NEW e \in Entries(l) \ S,
         e.table = 1 \/ (e.table = 2 /\ e.fact.action = "BUY"),
         GivenTold(l, S), ChangesTold(l, S),
         \A i : Taken(l, S \cup {e}, i) = Taken(l, S, i),
         ChangesOf(l, S \cup {e}) = ChangesOf(l, S),
         NEW source \in {"OPENING", "RECONCILIATION", "BUY"}
  PROVE  /\ LotTold(l, S \cup {e}, LotOf(e.fact.id, source, e.fact.shares))
         /\ LotOf(e.fact.id, source, e.fact.shares) \in AnyLot
         /\ ~Born(l, S, e.fact.id)
<1> DEFINE i == e.fact.id
           n == e.fact.shares
<1>1. ~Born(l, S, i)
  <2>1. \A f \in S : f \in Entries(l)
    OBVIOUS
  <2>2. CASE e.table = 1
    <3>1. e.fact \in l.reconciliations /\ e = ReconciliationEntry(e.fact)
      BY <2>2, EntryIs
    <3>2. ASSUME NEW f \in S, f.table = 1, f.fact.id = i PROVE FALSE
      <4>1. f.fact \in l.reconciliations /\ f = ReconciliationEntry(f.fact)
        BY <2>1, <3>2, EntryIs
      <4>2. f.fact = e.fact
        BY <3>1, <3>2, <4>1 DEF Sound, OneName, OneRow
      <4> QED BY <3>1, <3>2, <4>1, <4>2
    <3>3. ASSUME NEW f \in S, f.table = 2, f.fact.id = i PROVE FALSE
      <4>1. f.fact \in Effective(l)
        BY <2>1, <3>3, EntryIs
      <4>2. \E t \in l.transactions : t.id = i
        BY <3>3, <4>1, EffectiveRows
      <4> QED BY <3>1, <4>2 DEF Sound, OneName, Apart
    <3>4. \A h \in l.opening : h.id # i
      BY <3>1 DEF Sound, OneName, Apart
    <3> QED BY <3>2, <3>3, <3>4 DEF Born
  <2>3. CASE e.table = 2
    <3>1. e.fact \in Effective(l) /\ e = TransactionEntry(e.fact)
      BY <2>3, EntryIs
    <3>2. PICK t \in l.transactions : t.id = i
      BY <3>1, EffectiveRows
    <3>3. ASSUME NEW f \in S, f.table = 2, f.fact.id = i PROVE FALSE
      <4>1. f.fact \in Effective(l) /\ f = TransactionEntry(f.fact)
        BY <2>1, <3>3, EntryIs
      <4>2. f.fact = e.fact
        BY <3>1, <3>3, <4>1, EffectiveRows DEF OneRow
      <4> QED BY <3>1, <3>3, <4>1, <4>2
    <3>4. ASSUME NEW f \in S, f.table = 1, f.fact.id = i PROVE FALSE
      <4>1. f.fact \in l.reconciliations
        BY <2>1, <3>4, EntryIs
      <4> QED BY <3>2, <3>4, <4>1 DEF Sound, OneName, Apart
    <3>5. \A h \in l.opening : h.id # i
      BY <3>2 DEF Sound, OneName, Apart
    <3> QED BY <3>3, <3>4, <3>5 DEF Born
  <2> QED BY <2>2, <2>3
<1>2. i \in AnyId /\ n \in Some /\ TypeOf(i) \in PositionType /\ AcquiredIn(l, i) = n
  <2>1. CASE e.table = 1
    <3>1. e.fact \in l.reconciliations /\ l.reconciliations \subseteq AnyHolding
      BY <2>1, EntryIs DEF Sound, AnyLedger
    <3> QED BY <3>1, AcquiredIs DEF AnyHolding, AnyId, Key, TypeOf
  <2>2. CASE e.table = 2
    <3>1. e.fact \in Effective(l) /\ Effective(l) \subseteq AnyTransaction
      BY <2>2, EntryIs, EffectiveRows
    <3> QED BY <3>1, AcquiredIs DEF AnyTransaction, AnyId, Key, TypeOf
  <2> QED BY <2>1, <2>2
<1>3. Born(l, S \cup {e}, i)
  BY DEF Born
<1>4. Taken(l, S \cup {e}, i) = 0
  <2>1. TakenRows(l, S, i) = {}
    BY <1>1 DEF TakenRows, GivenTold
  <2>2. [a \in {} |-> a.shares] \in [{} -> Int]
    OBVIOUS
  <2>3. TotalShares({}) = 0
    BY <2>2, SumEmpty DEF TotalShares
  <2> QED BY <2>1, <2>3 DEF Taken
<1>5. TypeIs(ChangesOf(l, S \cup {e}), i, TypeOf(i))
  <2>1. \A c \in ChangesOf(l, S) : c.lot # i
    BY <1>1 DEF ChangesTold
  <2> QED BY <2>1 DEF TypeIs
<1> DEFINE z == LotOf(i, source, n)
<1>6. z.id = i /\ z.type = TypeOf(i) /\ z.left = n /\ z.source = source
  BY DEF LotOf
<1>7. z \in AnyLot
  BY <1>2 DEF LotOf, AnyLot
<1>8. n = n - 0
  BY <1>2 DEF Some
<1> HIDE DEF z
<1>9. LotTold(l, S \cup {e}, z)
  BY <1>2, <1>3, <1>4, <1>5, <1>6, <1>8 DEF LotTold
<1> QED BY <1>1, <1>7, <1>9 DEF z

LEMMA LotsWithNew ==
  ASSUME NEW l, NEW S, NEW T, NEW lots, LotsTold(l, T, lots), NEW x, LotTold(l, T, x),
         \A y \in lots : Born(l, S, y.id), ~Born(l, S, x.id)
  PROVE  LotsTold(l, T, lots \cup {x})
<1>1. IsFiniteSet(lots) /\ OneRow(lots) /\ \A y \in lots : LotTold(l, T, y) /\ y.id # x.id
  BY DEF LotsTold
<1>2. IsFiniteSet(lots \cup {x})
  BY <1>1, FS_AddElement
<1>3. OneRow(lots \cup {x})
  BY <1>1 DEF OneRow
<1> QED BY <1>1, <1>2, <1>3 DEF LotsTold

\* A reconciliation: its lot in the place of all lots of its position.
LEMMA ReconciliationTells ==
  ASSUME NEW l, Sound(l), NEW S \in SUBSET Entries(l), NEW e \in Entries(l) \ S, e.table = 1,
         NEW p, Told(l, S, p), NEW q, q = ApplyReconciliation(p, e.fact)
  PROVE  Told(l, S \cup {e}, q)
<1>1. /\ WellFormed(l) /\ p \in AnyPortfolio
      /\ LotsTold(l, S, p.lots) /\ GivenTold(l, S) /\ ChangesTold(l, S)
      /\ SalesTold(l, S, p.sold) /\ CashTold(l, S, p.cash)
      /\ e.table # 2 /\ e.table # 3
  BY DEF Told
<1>2. /\ \A i : Taken(l, S \cup {e}, i) = Taken(l, S, i)
      /\ GivenTold(l, S \cup {e})
      /\ SalesTold(l, S \cup {e}, p.sold)
      /\ ChangesOf(l, S \cup {e}) = ChangesOf(l, S) /\ ChangesTold(l, S \cup {e})
  BY <1>1, QuietStep
<1>3. PICK z : z = LotOf(e.fact.id, "RECONCILIATION", e.fact.shares)
  OBVIOUS
<1>4. LotTold(l, S \cup {e}, z) /\ z \in AnyLot /\ ~Born(l, S, z.id)
  <2>1. z.id = e.fact.id
    BY <1>3 DEF LotOf
  <2>2. /\ "RECONCILIATION" \in {"OPENING", "RECONCILIATION", "BUY"}
        /\ e.table = 1 \/ (e.table = 2 /\ e.fact.action = "BUY")
    OBVIOUS
  <2>3. /\ LotTold(l, S \cup {e}, LotOf(e.fact.id, "RECONCILIATION", e.fact.shares))
        /\ LotOf(e.fact.id, "RECONCILIATION", e.fact.shares) \in AnyLot
        /\ ~Born(l, S, e.fact.id)
    BY <1>1, <1>2, <2>2, NewLotTold
  <2> QED BY <1>3, <2>1, <2>3
<1>5. PICK kept : kept = {x \in p.lots : <<TickerOf(x.id), x.type>> # e.fact.id[2]}
  OBVIOUS
<1>6. kept \subseteq p.lots
  BY <1>5
<1>7. LotsTold(l, S, kept)
  <2>1. IsFiniteSet(kept)
    BY <1>1, <1>6, FS_Subset DEF LotsTold
  <2> QED BY <1>1, <1>6, <2>1 DEF LotsTold, OneRow
<1>8. LotsTold(l, S \cup {e}, kept \cup {z})
  <2>1. LotsTold(l, S \cup {e}, kept)
    BY <1>2, <1>7, LotsKept
  <2>2. \A y \in kept : Born(l, S, y.id)
    BY <1>7 DEF LotsTold, LotTold
  <2> QED BY <1>4, <2>1, <2>2, LotsWithNew
<1>9. CashTold(l, S \cup {e}, p.cash)
  <2>1. CashTold(l, S \cup {e}, p.cash + Delta(e)) /\ p.cash \in Int
    BY <1>1, CashSteps
  <2>2. Delta(e) = 0
    BY DEF Delta
  <2>3. p.cash + 0 = p.cash
    BY <2>1
  <2> QED BY <2>1, <2>2, <2>3
<1>10. q = [p EXCEPT !.lots = kept \cup {z}]
  BY <1>1, <1>3, <1>5 DEF ApplyReconciliation, AnyPortfolio
<1>11. kept \cup {z} \in SUBSET AnyLot
  BY <1>1, <1>4, <1>6 DEF AnyPortfolio
<1>12. q \in AnyPortfolio /\ q.cash = p.cash /\ q.lots = kept \cup {z} /\ q.sold = p.sold
  BY <1>1, <1>10, <1>11 DEF AnyPortfolio
<1> QED BY <1>1, <1>2, <1>8, <1>9, <1>12 DEF Told

\* A purchase.
LEMMA BuyTells ==
  ASSUME NEW l, Sound(l), NEW S \in SUBSET Entries(l), NEW e \in Entries(l) \ S,
         e.table = 2, e.fact.action = "BUY",
         NEW p, Told(l, S, p), NEW q, q = ApplyBuy(p, e.fact), q.error = "none"
  PROVE  Told(l, S \cup {e}, q)
<1>1. /\ WellFormed(l) /\ p \in AnyPortfolio
      /\ LotsTold(l, S, p.lots) /\ GivenTold(l, S) /\ ChangesTold(l, S)
      /\ SalesTold(l, S, p.sold) /\ CashTold(l, S, p.cash)
  BY DEF Told
<1>2. /\ \A i : Taken(l, S \cup {e}, i) = Taken(l, S, i)
      /\ GivenTold(l, S \cup {e})
      /\ SalesTold(l, S \cup {e}, p.sold)
      /\ ChangesOf(l, S \cup {e}) = ChangesOf(l, S) /\ ChangesTold(l, S \cup {e})
  BY <1>1, QuietStep
<1>3. PICK z : z = LotOf(e.fact.id, "BUY", e.fact.shares)
  OBVIOUS
<1>4. LotTold(l, S \cup {e}, z) /\ z \in AnyLot /\ ~Born(l, S, z.id)
  <2>1. z.id = e.fact.id
    BY <1>3 DEF LotOf
  <2>2. "BUY" \in {"OPENING", "RECONCILIATION", "BUY"}
    OBVIOUS
  <2>3. /\ LotTold(l, S \cup {e}, LotOf(e.fact.id, "BUY", e.fact.shares))
        /\ LotOf(e.fact.id, "BUY", e.fact.shares) \in AnyLot
        /\ ~Born(l, S, e.fact.id)
    BY <1>1, <1>2, <2>2, NewLotTold
  <2> QED BY <1>3, <2>1, <2>3
<1>5. LotsTold(l, S \cup {e}, p.lots \cup {z})
  <2>1. LotsTold(l, S \cup {e}, p.lots)
    BY <1>1, <1>2, LotsKept
  <2>2. \A y \in p.lots : Born(l, S, y.id)
    BY <1>1 DEF LotsTold, LotTold
  <2> QED BY <1>4, <2>1, <2>2, LotsWithNew
<1>6. CashTold(l, S \cup {e}, p.cash + Delta(e)) /\ p.cash \in Int /\ Delta(e) \in Int
  BY <1>1, CashSteps
<1>7. PICK cost \in Nat : cost = e.fact.price * e.fact.shares
  <2>1. e.fact \in AnyTransaction
    BY EntryIs, EffectiveRows
  <2>2. PICK a \in Nat, b \in Nat : a = e.fact.price /\ b = e.fact.shares
    BY <2>1 DEF AnyTransaction, Some
  <2>3. a * b \in Nat
    OBVIOUS
  <2> QED BY <2>2, <2>3
<1>8. PICK n \in Int : n = p.cash - cost /\ n = p.cash + Delta(e)
  <2>1. Delta(e) = - cost
    BY <1>7 DEF Delta
  <2> QED BY <1>6, <2>1
<1>9. Spend(p, cost).error = "none" /\ q = [Spend(p, cost) EXCEPT !.lots = @ \cup {z}]
  BY <1>3, <1>7 DEF ApplyBuy
<1>10. PICK r : r = [p EXCEPT !.cash = n]
  OBVIOUS
<1>11. Spend(p, cost) = r
  BY <1>8, <1>9, <1>10, <1>1 DEF Spend, Failed, AnyPortfolio
<1>12. r \in AnyPortfolio /\ r.cash = n /\ r.lots = p.lots /\ r.sold = p.sold
  BY <1>1, <1>10 DEF AnyPortfolio
<1>13. q = [r EXCEPT !.lots = p.lots \cup {z}]
  BY <1>9, <1>11, <1>12
<1>14. p.lots \cup {z} \in SUBSET AnyLot
  BY <1>1, <1>4 DEF AnyPortfolio
<1>15. q \in AnyPortfolio /\ q.cash = n /\ q.lots = p.lots \cup {z} /\ q.sold = p.sold
  BY <1>12, <1>13, <1>14 DEF AnyPortfolio
<1> QED BY <1>1, <1>2, <1>5, <1>6, <1>8, <1>15 DEF Told

Retyped(x, c) == IF x.id = c.lot THEN [x EXCEPT !.type = c.type] ELSE x

\* A change of type.
LEMMA ChangeTells ==
  ASSUME NEW l, Sound(l), NEW S \in SUBSET Entries(l), NEW e \in Entries(l) \ S, e.table = 3,
         Closed(l, S), \A f \in S : ~Precedes(e, f),
         NEW p, Told(l, S, p), NEW q, q = ApplyChange(p, e.fact), q.error = "none"
  PROVE  Told(l, S \cup {e}, q)
<1>1. /\ WellFormed(l) /\ p \in AnyPortfolio
      /\ LotsTold(l, S, p.lots) /\ GivenTold(l, S) /\ ChangesTold(l, S)
      /\ SalesTold(l, S, p.sold) /\ CashTold(l, S, p.cash)
      /\ e.table # 2
  BY DEF Told
<1>2. /\ \A i : Taken(l, S \cup {e}, i) = Taken(l, S, i)
      /\ GivenTold(l, S \cup {e})
      /\ SalesTold(l, S \cup {e}, p.sold)
  BY <1>1, QuietStep
<1>3. PICK c \in l.changes : c = e.fact /\ e = ChangeEntry(c) /\ c \in AnyChange
  BY EntryIs DEF Sound, AnyLedger
<1>4. PICK held \in p.lots : held.id = c.lot
  BY <1>3 DEF ApplyChange, Failed
<1>5. ChangesOf(l, S \cup {e}) = ChangesOf(l, S) \cup {c}
  <2>1. \A d : ChangeEntry(d) = e => d = c
    BY <1>3 DEF ChangeEntry
  <2> QED BY <1>3, <2>1 DEF ChangesOf
<1>6. \A d \in ChangesOf(l, S) : d.at <= c.at
  <2> TAKE d \in ChangesOf(l, S)
  <2>1. ChangeEntry(d) \in S /\ d \in AnyChange
    BY DEF ChangesOf, Sound, AnyLedger
  <2>2. ~(e.at < ChangeEntry(d).at)
    BY <2>1 DEF Precedes
  <2>3. e.at = c.at /\ ChangeEntry(d).at = d.at /\ c.at \in Nat /\ d.at \in Nat
    BY <1>3, <2>1 DEF ChangeEntry, AnyChange
  <2> QED BY <2>2, <2>3
<1>7. ASSUME NEW x \in p.lots
      PROVE  LotTold(l, S \cup {e}, Retyped(x, c)) /\ Retyped(x, c) \in AnyLot /\ Retyped(x, c).id = x.id
  <2>1. LotTold(l, S, x) /\ x \in AnyLot
    BY <1>1 DEF LotsTold, AnyPortfolio
  <2>2. CASE x.id = c.lot
    <3>1. PICK z : z = [x EXCEPT !.type = c.type]
      OBVIOUS
    <3>2. z \in AnyLot /\ z.id = x.id /\ z.left = x.left /\ z.type = c.type
      BY <1>3, <2>1, <3>1 DEF AnyLot, AnyChange
    <3>3. Retyped(x, c) = z
      BY <2>2, <3>1 DEF Retyped
    <3>4. TypeIs(ChangesOf(l, S \cup {e}), z.id, z.type)
      <4>1. c.at <= c.at
        BY <1>3 DEF AnyChange
      <4> QED BY <1>5, <1>6, <2>2, <3>2, <4>1 DEF TypeIs
    <3>5. LotTold(l, S \cup {e}, z)
      BY <1>2, <2>1, <3>2, <3>4, BornGrows DEF LotTold
    <3> QED BY <3>2, <3>3, <3>5
  <2>3. CASE x.id # c.lot
    <3>1. Retyped(x, c) = x
      BY <2>3 DEF Retyped
    <3>2. TypeIs(ChangesOf(l, S \cup {e}), x.id, x.type)
      <4>1. TypeIs(ChangesOf(l, S), x.id, x.type)
        BY <2>1 DEF LotTold
      <4> QED BY <1>5, <2>3, <4>1 DEF TypeIs
    <3>3. LotTold(l, S \cup {e}, x)
      BY <1>2, <2>1, <3>2, BornGrows DEF LotTold
    <3> QED BY <2>1, <3>1, <3>3
  <2> QED BY <2>2, <2>3
<1>8. PICK lots : lots = {Retyped(x, c) : x \in p.lots}
  OBVIOUS
<1>9. LotsTold(l, S \cup {e}, lots) /\ lots \in SUBSET AnyLot
  <2>1. IsFiniteSet(p.lots) /\ OneRow(p.lots)
    BY <1>1 DEF LotsTold
  <2>2. IsFiniteSet(lots)
    <3> DEFINE f == [x \in p.lots |-> Retyped(x, c)]
    <3>1. f \in [p.lots -> lots] /\ \A y \in lots : \E x \in p.lots : f[x] = y
      BY <1>8
    <3> HIDE DEF f
    <3> QED BY <2>1, <3>1, ImageFinite
  <2>3. OneRow(lots)
    BY <1>7, <1>8, <2>1 DEF OneRow
  <2> QED BY <1>7, <1>8, <2>2, <2>3 DEF LotsTold
<1>10. ChangesTold(l, S \cup {e})
  <2>1. Born(l, S, c.lot)
    BY <1>1, <1>4 DEF LotsTold, LotTold
  <2> QED BY <1>1, <1>5, <2>1, BornGrows DEF ChangesTold
<1>11. CashTold(l, S \cup {e}, p.cash)
  <2>1. CashTold(l, S \cup {e}, p.cash + Delta(e)) /\ p.cash \in Int
    BY <1>1, CashSteps
  <2>2. Delta(e) = 0
    BY DEF Delta
  <2>3. p.cash + 0 = p.cash
    BY <2>1
  <2> QED BY <2>1, <2>2, <2>3
<1>12. q = [p EXCEPT !.lots = lots]
  BY <1>1, <1>3, <1>4, <1>8 DEF ApplyChange, Retyped, AnyPortfolio
<1>13. q \in AnyPortfolio /\ q.cash = p.cash /\ q.lots = lots /\ q.sold = p.sold
  BY <1>1, <1>9, <1>12 DEF AnyPortfolio
<1> QED BY <1>1, <1>2, <1>9, <1>10, <1>11, <1>13 DEF Told

\* Shares add up over allocations.
LEMMA TotalSharesOf ==
  ASSUME NEW A, IsFiniteSet(A), A \subseteq AnyAllocation
  PROVE  /\ TotalShares(A) \in Nat
         /\ \A a \in A : a.shares <= TotalShares(A)
         /\ A = {} => TotalShares(A) = 0
         /\ \A b : A = {b} => TotalShares(A) = b.shares
<1> DEFINE g == [a \in A |-> a.shares]
<1>1. g \in [A -> Nat] /\ g \in [A -> Int] /\ \A a \in A : g[a] = a.shares
  BY DEF AnyAllocation, Some
<1>2. TotalShares(A) = SumFunction(g)
  BY DEF TotalShares
<1> HIDE DEF g
<1>3. SumFunction(g) \in Nat /\ \A a \in A : g[a] <= SumFunction(g)
  BY <1>1, SumNat
<1>4. ASSUME A = {} PROVE SumFunction(g) = 0
  <2>1. g \in [{} -> Int]
    BY <1>1, <1>4
  <2> QED BY <2>1, SumEmpty
<1>5. ASSUME NEW b, A = {b} PROVE SumFunction(g) = b.shares
  <2>1. g \in [{b} -> Int] /\ g[b] = b.shares
    BY <1>1, <1>5
  <2> QED BY <2>1, SumOne
<1> QED BY <1>1, <1>2, <1>3, <1>4, <1>5

LEMMA TotalSharesAdd ==
  ASSUME NEW A, IsFiniteSet(A), A \subseteq AnyAllocation, NEW B, IsFiniteSet(B), B \subseteq AnyAllocation,
         A \cap B = {}
  PROVE  TotalShares(A \cup B) = TotalShares(A) + TotalShares(B)
<1> DEFINE g == [a \in A \cup B |-> a.shares]
<1>1. g \in [A \cup B -> Int]
  BY DEF AnyAllocation, Some
<1>2. On(g, A) = [a \in A |-> a.shares] /\ On(g, B) = [a \in B |-> a.shares]
  BY DEF On
<1>3. TotalShares(A \cup B) = SumFunction(g)
  BY DEF TotalShares
<1> HIDE DEF g
<1>4. SumFunction(g) = SumFunction(On(g, A)) + SumFunction(On(g, B))
  BY <1>1, SumParts
<1> QED BY <1>2, <1>3, <1>4 DEF TotalShares

\* The changes of different times leave a lot with one type.
LEMMA TypeIsOne ==
  ASSUME NEW C \in SUBSET AnyChange, \A c, d \in C : c.at = d.at => c = d,
         NEW i, NEW y, NEW z, TypeIs(C, i, y), TypeIs(C, i, z)
  PROVE  y = z
<1>1. CASE \A c \in C : c.lot # i
  BY <1>1 DEF TypeIs
<1>2. CASE ~\A c \in C : c.lot # i
  <2>1. PICK c \in C : c.lot = i /\ c.type = y /\ \A d \in C : d.lot = i => d.at <= c.at
    BY <1>2 DEF TypeIs
  <2>2. PICK d \in C : d.lot = i /\ d.type = z /\ \A b \in C : b.lot = i => b.at <= d.at
    BY <1>2 DEF TypeIs
  <2>3. c.at \in Nat /\ d.at \in Nat /\ c.at <= d.at /\ d.at <= c.at
    BY <2>1, <2>2 DEF AnyChange
  <2>4. c.at = d.at
    BY <2>3
  <2> QED BY <2>1, <2>2, <2>4
<1> QED BY <1>1, <1>2

\* What the sale A takes from lot i.
CutRows(A, i) == {a \in A : a.lot = i}

SoldNow(p, t, A) ==
  {[sell |-> t.id, lot |-> x.id, type |-> x.type] : x \in {y \in p.lots : \E a \in A : a.lot = y.id}}

LotsLeft(p, A) == {[x EXCEPT !.left = Left(x, A)] : x \in {y \in p.lots : Left(y, A) > 0}}

AfterSale(p, t, A) ==
  [p EXCEPT !.cash = @ + NetProceeds(t), !.lots = LotsLeft(p, A), !.sold = @ \cup SoldNow(p, t, A)]

\* A sale that the replay accepts names lots of its ticker that have what it takes.
LEMMA SaleAccepted ==
  ASSUME NEW l, NEW t, NEW p, NEW A, A = AllocationsOf(l, t), ApplySell(l, p, t).error = "none"
  PROVE  /\ \A a \in A : Names(p, t, a) /\ Covers(p, a)
         /\ ApplySell(l, p, t) = AfterSale(p, t, A)
<1>1. SaleError(p, t, A) = "none"
  BY DEF ApplySell, Failed
<1>2. \A a \in A : Names(p, t, a) /\ Covers(p, a)
  BY <1>1 DEF SaleError
<1> QED BY <1>1, <1>2 DEF ApplySell, AfterSale, LotsLeft, SoldNow

\* The allocations of a sale: at most one of each lot, none of them of an earlier fact.
LEMMA SaleRows ==
  ASSUME NEW l, Sound(l), WellFormed(l), NEW S \in SUBSET Entries(l), NEW e \in Entries(l) \ S,
         e.table = 2, NEW A, A = AllocationsOf(l, e.fact)
  PROVE  /\ IsFiniteSet(A) /\ A \subseteq AnyAllocation
         /\ \A a \in l.allocations : SaleOf(e, a) <=> a \in A
         /\ \A a \in A, f \in S : ~SaleOf(f, a)
         /\ \A b \in A : CutRows(A, b.lot) = {b}
<1>1. IsFiniteSet(l.allocations) /\ l.allocations \subseteq AnyAllocation /\ A \subseteq l.allocations
  BY DEF Sound, FinitelyMany, AnyLedger, AllocationsOf
<1>2. IsFiniteSet(A)
  BY <1>1, FS_Subset
<1>3. \A a \in l.allocations : SaleOf(e, a) <=> a \in A
  BY DEF SaleOf, AllocationsOf
<1>4. ASSUME NEW a \in A, NEW f \in S, SaleOf(f, a) PROVE FALSE
  <2>1. e.fact \in Effective(l) /\ e = TransactionEntry(e.fact)
    BY EntryIs
  <2>2. f.fact \in Effective(l) /\ f = TransactionEntry(f.fact) /\ f.fact.id = a.sell
    BY <1>4, EntryIs DEF SaleOf
  <2>3. e.fact.id = a.sell
    BY DEF AllocationsOf
  <2>4. e.fact = f.fact
    BY <2>1, <2>2, <2>3, EffectiveRows DEF OneRow
  <2> QED BY <2>1, <2>2, <2>4
<1>5. ASSUME NEW b \in A PROVE CutRows(A, b.lot) = {b}
  <2>1. \A a \in A : a.lot = b.lot => a = b
    BY <1>1 DEF AllocationsOf, WellFormed
  <2> QED BY <2>1 DEF CutRows
<1> QED BY <1>1, <1>2, <1>3, <1>4, <1>5

LEMMA SaleTakes ==
  ASSUME NEW l, Sound(l), WellFormed(l), NEW S \in SUBSET Entries(l), NEW e \in Entries(l) \ S,
         e.table = 2, NEW A, A = AllocationsOf(l, e.fact), NEW i
  PROVE  /\ Taken(l, S \cup {e}, i) = Taken(l, S, i) + TotalShares(CutRows(A, i))
         /\ Taken(l, S, i) \in Nat
         /\ TotalShares(CutRows(A, i)) \in Nat
         /\ (\A b \in A : b.lot # i) => TotalShares(CutRows(A, i)) = 0
         /\ \A b \in A : b.lot = i => TotalShares(CutRows(A, i)) = b.shares
<1>1. /\ IsFiniteSet(A) /\ A \subseteq AnyAllocation
      /\ \A a \in l.allocations : SaleOf(e, a) <=> a \in A
      /\ \A a \in A, f \in S : ~SaleOf(f, a)
      /\ \A b \in A : CutRows(A, b.lot) = {b}
  BY SaleRows
<1>2. IsFiniteSet(l.allocations) /\ l.allocations \subseteq AnyAllocation /\ A \subseteq l.allocations
  BY DEF Sound, FinitelyMany, AnyLedger, AllocationsOf
<1>3. IsFiniteSet(CutRows(A, i)) /\ CutRows(A, i) \subseteq AnyAllocation
  <2>1. CutRows(A, i) \in SUBSET A
    BY DEF CutRows
  <2> QED BY <1>1, <2>1, FS_Subset
<1>4. IsFiniteSet(TakenRows(l, S, i)) /\ TakenRows(l, S, i) \subseteq AnyAllocation
  <2>1. TakenRows(l, S, i) \in SUBSET l.allocations
    BY DEF TakenRows
  <2> QED BY <1>2, <2>1, FS_Subset
<1>5. TakenRows(l, S \cup {e}, i) = TakenRows(l, S, i) \cup CutRows(A, i)
  BY <1>1, <1>2 DEF TakenRows, CutRows
<1>6. TakenRows(l, S, i) \cap CutRows(A, i) = {}
  BY <1>1 DEF TakenRows, CutRows
<1>7. TotalShares(TakenRows(l, S, i) \cup CutRows(A, i))
        = TotalShares(TakenRows(l, S, i)) + TotalShares(CutRows(A, i))
  BY <1>3, <1>4, <1>6, TotalSharesAdd
<1>8. TotalShares(CutRows(A, i)) \in Nat /\ TotalShares(TakenRows(l, S, i)) \in Nat
  BY <1>3, <1>4, TotalSharesOf
<1>9. ASSUME \A b \in A : b.lot # i PROVE TotalShares(CutRows(A, i)) = 0
  <2>1. CutRows(A, i) = {}
    BY <1>9 DEF CutRows
  <2> QED BY <1>3, <2>1, TotalSharesOf
<1>10. ASSUME NEW b \in A, b.lot = i PROVE TotalShares(CutRows(A, i)) = b.shares
  <2>1. CutRows(A, i) = {b}
    BY <1>1, <1>10
  <2> QED BY <1>3, <2>1, TotalSharesOf
<1> QED BY <1>5, <1>7, <1>8, <1>9, <1>10 DEF Taken

\* Nothing gives more than it had.
LEMMA SaleGiven ==
  ASSUME NEW l, Sound(l), WellFormed(l), NEW S \in SUBSET Entries(l), NEW e \in Entries(l) \ S,
         e.table = 2, NEW A, A = AllocationsOf(l, e.fact),
         NEW p, p \in AnyPortfolio, LotsTold(l, S, p.lots), GivenTold(l, S),
         \A a \in A : Names(p, e.fact, a) /\ Covers(p, a)
  PROVE  GivenTold(l, S \cup {e})
<1>1. ASSUME NEW b \in A
      PROVE  Born(l, S, b.lot) /\ Taken(l, S \cup {e}, b.lot) <= AcquiredIn(l, b.lot)
  <2>1. PICK x \in p.lots : x.id = b.lot /\ b.shares <= x.left
    BY DEF Covers
  <2>2. x \in AnyLot /\ LotTold(l, S, x) /\ b \in AnyAllocation
    BY SaleRows DEF AnyPortfolio, LotsTold
  <2>3. Born(l, S, b.lot) /\ x.left = AcquiredIn(l, b.lot) - Taken(l, S, b.lot)
    BY <2>1, <2>2 DEF LotTold
  <2>4. AcquiredIn(l, b.lot) \in Int
    BY <2>3, AcquiredType
  <2>5. /\ Taken(l, S \cup {e}, b.lot) = Taken(l, S, b.lot) + TotalShares(CutRows(A, b.lot))
        /\ Taken(l, S, b.lot) \in Nat
        /\ TotalShares(CutRows(A, b.lot)) = b.shares
    BY SaleTakes
  <2> DEFINE n == AcquiredIn(l, b.lot)
             m == Taken(l, S, b.lot)
             k == b.shares
  <2>6. n \in Int /\ m \in Int /\ k \in Int /\ k <= n - m /\ Taken(l, S \cup {e}, b.lot) = m + k
    BY <2>1, <2>2, <2>3, <2>4, <2>5 DEF AnyAllocation, Some
  <2> HIDE DEF n, m, k
  <2>7. Taken(l, S \cup {e}, b.lot) <= n
    BY <2>6
  <2> QED BY <2>3, <2>7 DEF n
<1>2. ASSUME NEW a \in l.allocations, NEW f \in S, SaleOf(f, a)
      PROVE  Born(l, S, a.lot) /\ Taken(l, S \cup {e}, a.lot) <= AcquiredIn(l, a.lot)
  <2>1. Born(l, S, a.lot) /\ Taken(l, S, a.lot) <= AcquiredIn(l, a.lot)
    BY <1>2 DEF GivenTold
  <2>2. CASE \E b \in A : b.lot = a.lot
    BY <1>1, <2>2
  <2>3. CASE \A b \in A : b.lot # a.lot
    <3>1. /\ Taken(l, S \cup {e}, a.lot) = Taken(l, S, a.lot) + TotalShares(CutRows(A, a.lot))
          /\ Taken(l, S, a.lot) \in Nat /\ TotalShares(CutRows(A, a.lot)) = 0
      BY <2>3, SaleTakes
    <3>2. Taken(l, S \cup {e}, a.lot) = Taken(l, S, a.lot)
      BY <3>1
    <3> QED BY <2>1, <3>2
  <2> QED BY <2>2, <2>3
<1>3. \A a \in l.allocations : SaleOf(e, a) => a \in A
  BY SaleRows
<1> QED BY <1>1, <1>2, <1>3, BornGrows DEF GivenTold

\* What is left of a lot after a sale.
LEMMA SaleLeaves ==
  ASSUME NEW l, Sound(l), WellFormed(l), NEW S \in SUBSET Entries(l), NEW e \in Entries(l) \ S,
         e.table = 2, NEW A, A = AllocationsOf(l, e.fact),
         ChangesOf(l, S \cup {e}) = ChangesOf(l, S),
         NEW x \in AnyLot, LotTold(l, S, x), Left(x, A) > 0, AcquiredIn(l, x.id) \in Int,
         NEW z, z = [x EXCEPT !.left = Left(x, A)]
  PROVE  z \in AnyLot /\ z.id = x.id /\ LotTold(l, S \cup {e}, z)
<1>1. /\ Taken(l, S \cup {e}, x.id) = Taken(l, S, x.id) + TotalShares(CutRows(A, x.id))
      /\ Taken(l, S, x.id) \in Nat /\ TotalShares(CutRows(A, x.id)) \in Nat
  BY SaleTakes
<1>2. Left(x, A) = x.left - TotalShares(CutRows(A, x.id))
  BY DEF Left, CutRows
<1>3. x.left = AcquiredIn(l, x.id) - Taken(l, S, x.id) /\ x.left \in Nat
  BY DEF LotTold, AnyLot, Some
<1>4. PICK m : m = Left(x, A)
  OBVIOUS
<1> DEFINE a == AcquiredIn(l, x.id)
           b == Taken(l, S, x.id)
           c == TotalShares(CutRows(A, x.id))
           d == Taken(l, S \cup {e}, x.id)
<1>5. m = x.left - c /\ x.left = a - b /\ d = b + c /\ a \in Int /\ b \in Int /\ c \in Int
      /\ x.left \in Int /\ m > 0
  BY <1>1, <1>2, <1>3, <1>4
<1> HIDE DEF a, b, c, d
<1>6. m \in Some /\ m = a - d
  BY <1>5 DEF Some
<1>7. z \in AnyLot /\ z.id = x.id /\ z.type = x.type /\ z.left = m
  BY <1>4, <1>6 DEF AnyLot
<1> QED BY <1>6, <1>7, BornGrows DEF LotTold, a, d

\* The changes replayed before a sale are those of earlier times.
LEMMA ChangesInTime ==
  ASSUME NEW l, Sound(l), NEW S \in SUBSET Entries(l), NEW e \in Entries(l) \ S, e.table = 2,
         Closed(l, S), Closed(l, S \cup {e}), \A f \in S : ~Precedes(e, f)
  PROVE  ChangesBefore(l, e.fact.at) = ChangesOf(l, S)
<1>1. /\ \A c \in l.changes : c \in AnyChange /\ ChangeEntry(c) \in Entries(l)
      /\ e = TransactionEntry(e.fact) /\ e.fact \in AnyTransaction
  <2>1. \A c \in l.changes : c \in AnyChange /\ ChangeEntry(c) \in Entries(l)
    BY DEF Sound, AnyLedger, Entries, ChangeEntry
  <2>2. e = TransactionEntry(e.fact) /\ e.fact \in AnyTransaction
    BY EntryIs, EffectiveRows
  <2> QED BY <2>1, <2>2
<1>2. ASSUME NEW c \in l.changes PROVE c.at < e.fact.at <=> ChangeEntry(c) \in S
  <2>1. /\ ChangeEntry(c).at = c.at /\ ChangeEntry(c).table = 3 /\ e.at = e.fact.at
        /\ c.at \in Nat /\ e.at \in Nat
    <3>1. PICK t \in AnyTransaction : t = e.fact /\ e = TransactionEntry(t)
      BY <1>1
    <3>2. e.at = t.at /\ t.at \in Nat
      BY <3>1 DEF TransactionEntry, AnyTransaction
    <3>3. ChangeEntry(c).at = c.at /\ ChangeEntry(c).table = 3 /\ c.at \in Nat
      BY <1>1 DEF ChangeEntry, AnyChange
    <3> QED BY <3>1, <3>2, <3>3
  <2>2. Precedes(ChangeEntry(c), e) <=> c.at < e.at
    BY <2>1 DEF Precedes
  <2>3. Precedes(e, ChangeEntry(c)) <=> e.at <= c.at
    BY <2>1 DEF Precedes
  <2>4. ChangeEntry(c) # e
    BY <2>1
  <2>5. ChangeEntry(c) \in S => ~Precedes(e, ChangeEntry(c))
    OBVIOUS
  <2>6. ChangeEntry(c) \notin S => ~Precedes(ChangeEntry(c), e)
    BY <1>1, <2>4 DEF Closed
  <2> QED BY <2>1, <2>2, <2>3, <2>5, <2>6
<1> QED BY <1>2 DEF ChangesBefore, ChangesOf

\* The sales after one more.
LEMMA SaleSold ==
  ASSUME NEW l, Sound(l), WellFormed(l), NEW S \in SUBSET Entries(l), NEW e \in Entries(l) \ S,
         e.table = 2, NEW A, A = AllocationsOf(l, e.fact),
         ChangesBefore(l, e.fact.at) = ChangesOf(l, S),
         NEW p, p \in AnyPortfolio, LotsTold(l, S, p.lots), SalesTold(l, S, p.sold),
         \A a \in A : Names(p, e.fact, a)
  PROVE  /\ SalesTold(l, S \cup {e}, p.sold \cup SoldNow(p, e.fact, A))
         /\ SoldNow(p, e.fact, A) \subseteq AnySale
<1>1. e.fact.id \in AnyId
  BY EntryIs, EffectiveRows DEF AnyTransaction
<1>2. /\ A \subseteq l.allocations
      /\ \A a \in A : a.sell = e.fact.id
      /\ \A a \in l.allocations : SaleOf(e, a) <=> a \in A
  BY SaleRows DEF AllocationsOf
<1>3. SoldNow(p, e.fact, A) \subseteq AnySale
  BY <1>1 DEF SoldNow, AnySale, AnyPortfolio, AnyLot
<1>4. ASSUME NEW y \in AnySale
      PROVE  y \in SoldNow(p, e.fact, A)
               <=> \E a \in A : y.sell = a.sell /\ y.lot = a.lot
                                /\ TypeIs(ChangesBefore(l, e.fact.at), a.lot, y.type)
  <2>1. ASSUME y \in SoldNow(p, e.fact, A)
        PROVE  \E a \in A : y.sell = a.sell /\ y.lot = a.lot
                                /\ TypeIs(ChangesBefore(l, e.fact.at), a.lot, y.type)
    <3>1. PICK x \in p.lots, a \in A : a.lot = x.id /\ y = [sell |-> e.fact.id, lot |-> x.id, type |-> x.type]
      BY <2>1 DEF SoldNow
    <3>2. y.sell = e.fact.id /\ y.lot = x.id /\ y.type = x.type
      BY <3>1
    <3>3. TypeIs(ChangesOf(l, S), x.id, x.type)
      BY DEF LotsTold, LotTold
    <3> QED BY <1>2, <3>1, <3>2, <3>3
  <2>2. ASSUME NEW a \in A, y.sell = a.sell, y.lot = a.lot,
               TypeIs(ChangesBefore(l, e.fact.at), a.lot, y.type)
        PROVE  y \in SoldNow(p, e.fact, A)
    <3>1. PICK x \in p.lots : x.id = a.lot
      BY DEF Names
    <3>2. TypeIs(ChangesOf(l, S), a.lot, x.type)
      BY <3>1 DEF LotsTold, LotTold
    <3>3. ChangesOf(l, S) \in SUBSET AnyChange /\ \A c, d \in ChangesOf(l, S) : c.at = d.at => c = d
      BY DEF Sound, AnyLedger, OneName, ChangesOf
    <3>4. TypeIs(ChangesOf(l, S), a.lot, y.type)
      BY <2>2
    <3>5. y.type = x.type
      BY <3>2, <3>3, <3>4, TypeIsOne
    <3>6. y = [sell |-> e.fact.id, lot |-> x.id, type |-> x.type]
      BY <1>2, <2>2, <3>1, <3>5 DEF AnySale
    <3> QED BY <3>1, <3>6 DEF SoldNow
  <2> QED BY <2>1, <2>2
<1>5. ASSUME NEW y \in AnySale
      PROVE  SaleTold(l, S \cup {e}, y) <=> SaleTold(l, S, y) \/ y \in SoldNow(p, e.fact, A)
  <2>1. SaleTold(l, S \cup {e}, y)
          <=> \/ SaleTold(l, S, y)
              \/ \E a \in A : y.sell = a.sell /\ y.lot = a.lot
                              /\ TypeIs(ChangesBefore(l, e.fact.at), a.lot, y.type)
    BY <1>2 DEF SaleTold
  <2> QED BY <1>4, <2>1
<1> QED BY <1>3, <1>5 DEF SalesTold

\* A sale.
LEMMA SellTells ==
  ASSUME NEW l, Sound(l), NEW S \in SUBSET Entries(l), NEW e \in Entries(l) \ S,
         e.table = 2, e.fact.action = "SELL",
         Closed(l, S), Closed(l, S \cup {e}), \A f \in S : ~Precedes(e, f),
         NEW p, Told(l, S, p), NEW q, q = ApplySell(l, p, e.fact), q.error = "none"
  PROVE  Told(l, S \cup {e}, q)
<1>1. /\ WellFormed(l) /\ p \in AnyPortfolio
      /\ LotsTold(l, S, p.lots) /\ GivenTold(l, S) /\ ChangesTold(l, S)
      /\ SalesTold(l, S, p.sold) /\ CashTold(l, S, p.cash)
  BY DEF Told
<1>2. PICK A : A = AllocationsOf(l, e.fact)
  OBVIOUS
<1>3. /\ \A a \in A : Names(p, e.fact, a) /\ Covers(p, a)
      /\ q = AfterSale(p, e.fact, A)
  BY <1>2, SaleAccepted
<1>4. GivenTold(l, S \cup {e})
  BY <1>1, <1>2, <1>3, SaleGiven
<1>5. ChangesOf(l, S \cup {e}) = ChangesOf(l, S) /\ ChangesTold(l, S \cup {e})
  <2>1. \A c : ChangeEntry(c) # e
    BY DEF ChangeEntry
  <2>2. ChangesOf(l, S \cup {e}) = ChangesOf(l, S)
    BY <2>1 DEF ChangesOf
  <2> QED BY <1>1, <2>2, BornGrows DEF ChangesTold
<1>6. PICK sold : sold = SoldNow(p, e.fact, A)
  OBVIOUS
<1>7. SalesTold(l, S \cup {e}, p.sold \cup sold) /\ sold \subseteq AnySale
  <2>1. ChangesBefore(l, e.fact.at) = ChangesOf(l, S)
    BY ChangesInTime
  <2> QED BY <1>1, <1>2, <1>3, <1>6, <2>1, SaleSold
<1>8. PICK lots : lots = LotsLeft(p, A)
  OBVIOUS
<1>9. LotsTold(l, S \cup {e}, lots) /\ lots \in SUBSET AnyLot
  <2> DEFINE D == {y \in p.lots : Left(y, A) > 0}
             f == [x \in D |-> [x EXCEPT !.left = Left(x, A)]]
  <2>1. IsFiniteSet(p.lots) /\ OneRow(p.lots) /\ \A x \in p.lots : LotTold(l, S, x) /\ x \in AnyLot
    BY <1>1 DEF LotsTold, AnyPortfolio
  <2>2. ASSUME NEW x \in D PROVE f[x] \in AnyLot /\ f[x].id = x.id /\ LotTold(l, S \cup {e}, f[x])
    <3>1. AcquiredIn(l, x.id) \in Int
      BY <2>1, AcquiredType DEF LotTold
    <3>2. PICK z : z = [x EXCEPT !.left = Left(x, A)]
      OBVIOUS
    <3>3. z \in AnyLot /\ z.id = x.id /\ LotTold(l, S \cup {e}, z)
      <4>1. x \in AnyLot /\ LotTold(l, S, x) /\ Left(x, A) > 0
        BY <2>1
      <4> QED BY <1>1, <1>2, <1>5, <3>1, <3>2, <4>1, SaleLeaves
    <3>4. f[x] = z
      BY <3>2
    <3> QED BY <3>3, <3>4
  <2>3. lots = {f[x] : x \in D}
    BY <1>8 DEF LotsLeft
  <2>4. IsFiniteSet(D) /\ D \subseteq p.lots
    BY <2>1, FS_Subset
  <2>5. f \in [D -> lots] /\ \A y \in lots : \E x \in D : f[x] = y
    BY <2>3
  <2> HIDE DEF f, D
  <2>6. IsFiniteSet(lots)
    BY <2>4, <2>5, ImageFinite
  <2>7. OneRow(lots)
    BY <2>1, <2>2, <2>4, <2>5 DEF OneRow
  <2> QED BY <2>2, <2>5, <2>6, <2>7 DEF LotsTold
<1>10. CashTold(l, S \cup {e}, p.cash + Delta(e)) /\ p.cash \in Int /\ Delta(e) \in Int
  BY <1>1, CashSteps
<1>11. PICK n \in Int : n = p.cash + NetProceeds(e.fact) /\ n = p.cash + Delta(e)
  <2>1. Delta(e) = NetProceeds(e.fact)
    BY DEF Delta
  <2> QED BY <1>10, <2>1
<1> DEFINE r == [error |-> "none", cash |-> n, sold |-> p.sold \cup sold, lots |-> lots]
<1>12. q = r
  BY <1>1, <1>3, <1>6, <1>8, <1>11 DEF AfterSale, AnyPortfolio
<1>13. r \in AnyPortfolio
  <2>1. p.sold \cup sold \in SUBSET AnySale
    BY <1>1, <1>7 DEF AnyPortfolio
  <2> QED BY <1>9, <1>11, <2>1 DEF AnyPortfolio
<1>14. r.cash = n /\ r.sold = p.sold \cup sold /\ r.lots = lots
  OBVIOUS
<1> HIDE DEF r
<1> QED BY <1>1, <1>4, <1>5, <1>7, <1>9, <1>10, <1>11, <1>12, <1>13, <1>14 DEF Told

\* Before the first fact there is what was held at the beginning.
LEMMA StartTells ==
  ASSUME NEW l, Sound(l), Start(l).error = "none"
  PROVE  Told(l, {}, Start(l))
<1>1. WellFormed(l)
  BY DEF Start
<1>2. PICK lots : lots = {LotOf(h.id, "OPENING", h.shares) : h \in l.opening}
  OBVIOUS
<1>3. \A i : Taken(l, {}, i) = 0
  <2> TAKE i
  <2>1. TakenRows(l, {}, i) = {}
    BY DEF TakenRows
  <2>2. IsFiniteSet({}) /\ {} \subseteq AnyAllocation
    BY FS_EmptySet
  <2>3. TotalShares({}) = 0
    BY <2>2, TotalSharesOf
  <2> QED BY <2>1, <2>3 DEF Taken
<1>4. ASSUME NEW h \in l.opening, NEW x, x = LotOf(h.id, "OPENING", h.shares)
      PROVE  LotTold(l, {}, x) /\ x \in AnyLot /\ x.id = h.id
  <2>1. h \in AnyHolding /\ AcquiredIn(l, h.id) = h.shares
    BY AcquiredIs DEF Sound, AnyLedger
  <2>2. x.id = h.id /\ x.type = TypeOf(h.id) /\ x.left = h.shares /\ x \in AnyLot
    BY <1>4, <2>1 DEF LotOf, AnyLot, AnyHolding, AnyId, Key, TypeOf
  <2>3. Born(l, {}, h.id)
    BY DEF Born
  <2>4. TypeIs(ChangesOf(l, {}), h.id, TypeOf(h.id))
    BY DEF TypeIs, ChangesOf
  <2>5. h.shares = h.shares - 0
    BY <2>1 DEF AnyHolding, Some
  <2> QED BY <1>3, <2>1, <2>2, <2>3, <2>4, <2>5 DEF LotTold
<1>5. LotsTold(l, {}, lots) /\ lots \in SUBSET AnyLot
  <2>1. \A x \in lots : LotTold(l, {}, x) /\ x \in AnyLot
    BY <1>2, <1>4
  <2>2. OneRow(lots)
    BY <1>2, <1>4 DEF OneRow, Sound, OneName
  <2>3. IsFiniteSet(lots)
    <3> DEFINE f == [h \in l.opening |-> LotOf(h.id, "OPENING", h.shares)]
    <3>1. f \in [l.opening -> lots] /\ \A y \in lots : \E x \in l.opening : f[x] = y
      BY <1>2
    <3>2. IsFiniteSet(l.opening)
      BY DEF Sound, FinitelyMany
    <3> HIDE DEF f
    <3> QED BY <3>1, <3>2, ImageFinite
  <2> QED BY <2>1, <2>2, <2>3 DEF LotsTold
<1>6. GivenTold(l, {}) /\ ChangesTold(l, {}) /\ SalesTold(l, {}, {})
  BY DEF GivenTold, ChangesTold, ChangesOf, SalesTold, SaleTold
<1>7. CashTold(l, {}, InitialCash)
  <2>1. SumFunction(On(Deltas(l), {})) = 0
    BY OnNone
  <2>2. InitialCash = InitialCash + 0
    BY InputAssumption
  <2> QED BY <2>1, <2>2 DEF CashTold
<1> DEFINE r == [error |-> "none", cash |-> InitialCash, sold |-> {}, lots |-> lots]
<1>8. Start(l) = r
  BY <1>1, <1>2 DEF Start
<1>9. r \in AnyPortfolio
  BY <1>5, InputAssumption DEF AnyPortfolio
<1>10. r.cash = InitialCash /\ r.sold = {} /\ r.lots = lots
  OBVIOUS
<1> HIDE DEF r
<1> QED BY <1>1, <1>5, <1>6, <1>7, <1>8, <1>9, <1>10 DEF Told

\* The next fact keeps what is told, unless the replay fails.
LEMMA ApplyTells ==
  ASSUME NEW l, Sound(l), NEW S \in SUBSET Entries(l), NEW e \in Entries(l) \ S,
         Closed(l, S), Closed(l, S \cup {e}), \A f \in S : ~Precedes(e, f),
         NEW p, p.error = "none" => Told(l, S, p),
         NEW q, q = Apply(l, e, p), q.error = "none"
  PROVE  Told(l, S \cup {e}, q)
<1>1. p.error = "none" /\ Told(l, S, p)
  BY DEF Apply
<1>2. CASE e.table = 0
  <2>1. q = ApplyCashEvent(p, e.fact)
    BY <1>1, <1>2 DEF Apply
  <2> QED BY <1>1, <1>2, <2>1, CashEventTells
<1>3. CASE e.table = 1
  <2>1. q = ApplyReconciliation(p, e.fact)
    BY <1>1, <1>3 DEF Apply
  <2> QED BY <1>1, <1>3, <2>1, ReconciliationTells
<1>4. CASE e.table = 2 /\ e.fact.action = "BUY"
  <2>1. q = ApplyBuy(p, e.fact)
    BY <1>1, <1>4 DEF Apply
  <2> QED BY <1>1, <1>4, <2>1, BuyTells
<1>5. CASE e.table = 2 /\ e.fact.action = "SELL"
  <2>1. q = ApplySell(l, p, e.fact)
    BY <1>1, <1>5 DEF Apply
  <2> QED BY <1>1, <1>5, <2>1, SellTells
<1>6. CASE e.table = 3
  <2>1. q = ApplyChange(p, e.fact)
    BY <1>1, <1>6 DEF Apply
  <2> QED BY <1>1, <1>6, <2>1, ChangeTells
<1>7. e.table = 2 => e.fact.action \in {"BUY", "SELL"}
  BY EntryIs, EffectiveRows DEF AnyTransaction
<1> QED BY <1>2, <1>3, <1>4, <1>5, <1>6, <1>7, EntryIs

\* A replay that succeeds tells all facts of its ledger.
LEMMA ReplayTells ==
  ASSUME NEW l, Sound(l), Replayable(l)
  PROVE  Told(l, Entries(l), Replay(l))
<1>1. /\ IsFiniteSet(Entries(l))
      /\ \A S \in SUBSET Entries(l) : S # {} => Latest(S, Last(S))
  BY EntriesAre
<1>2. PICK h : Replays(l, h, SUBSET Entries(l)) /\ Replay(l) = h[Entries(l)]
  <2>1. \A S \in SUBSET Entries(l) : S # {} => Last(S) \in S
    BY <1>1 DEF Latest
  <2> QED BY <1>1, <2>1, ReplayIs
<1>3. \A S \in SUBSET Entries(l) : h[S] = IF S = {} THEN Start(l) ELSE Apply(l, Last(S), h[S \ {Last(S)}])
  BY <1>2 DEF Replays
<1> DEFINE B == {S \in SUBSET Entries(l) : Closed(l, S) /\ h[S].error = "none" /\ ~Told(l, S, h[S])}
<1>4. B = {}
  <2> SUFFICES ASSUME B # {} PROVE FALSE
    OBVIOUS
  <2>1. PICK T \in B : \A U \in B : U \subseteq T => U = T
    <3>1. B \subseteq SUBSET Entries(l)
      OBVIOUS
    <3> HIDE DEF B
    <3> QED BY <1>1, <3>1, SmallestSubset
  <2>2. T \in SUBSET Entries(l) /\ Closed(l, T) /\ h[T].error = "none" /\ ~Told(l, T, h[T])
    OBVIOUS
  <2>3. T # {}
    BY <1>3, <2>2, StartTells
  <2>4. PICK e \in T : e = Last(T) /\ \A f \in T : ~Precedes(e, f)
    BY <1>1, <2>2, <2>3 DEF Latest
  <2>5. PICK S \in SUBSET Entries(l) : S = T \ {e} /\ T = S \cup {e} /\ e \in Entries(l) \ S
    <3> HIDE DEF B
    <3>1. T = (T \ {e}) \cup {e}
      OBVIOUS
    <3>2. T \ {e} \in SUBSET Entries(l) /\ e \in Entries(l) \ (T \ {e})
      BY <2>2
    <3> QED BY <3>1, <3>2
  <2>6. Closed(l, S) /\ \A f \in S : ~Precedes(e, f)
    BY <2>2, <2>4, <2>5 DEF Closed
  <2>7. h[S].error = "none" => Told(l, S, h[S])
    <3>1. S \notin B
      BY <2>1, <2>5
    <3> QED BY <2>6, <3>1
  <2>8. h[T] = Apply(l, e, h[S])
    BY <1>3, <2>2, <2>3, <2>4, <2>5
  <2>9. Told(l, S \cup {e}, h[T])
    <3>1. Closed(l, S \cup {e}) /\ h[T].error = "none"
      BY <2>2, <2>5
    <3> HIDE DEF B
    <3> QED BY <2>5, <2>6, <2>7, <2>8, <3>1, ApplyTells
  <2> QED BY <2>2, <2>5, <2>9
<1>5. Closed(l, Entries(l)) /\ h[Entries(l)].error = "none"
  BY <1>2 DEF Closed, Replayable
<1> QED BY <1>2, <1>4, <1>5

(***************************************************************************)
(* Writes.                                                                 *)
(***************************************************************************)

\* The inductive invariant.
IInv == TypeOK /\ Sound(ledger) /\ Replayable(ledger)

\* Nothing a sale depends on is lost between l and m, or comes up before time n.
Grows(l, m, n) ==
  /\ \A t \in Sells(l.transactions) : t.at < n /\ \E u \in Sells(m.transactions) : u.id = t.id /\ u.at = t.at
  /\ l.allocations \subseteq m.allocations
  /\ l.changes \subseteq m.changes
  /\ \A c \in m.changes \ l.changes : c.at = n

\* The tables at time n.
Then(n) == 1..n - 1
IdThen(n) == Then(n) \X Key
TransactionThen(n) == [id : IdThen(n), sequence : Nat \ {0}, action : {"BUY", "SELL"}, price : Price,
                       shares : Nat \ {0}, fee : Fee \cup {0}, at : Then(n)]
CashEventThen(n) == [sequence : Nat \ {0}, event : {"DEPOSIT", "WITHDRAWAL"}, amount : Price, at : Then(n)]
HoldingThen(n) == [id : IdThen(n), shares : Shares]
AllocationThen(n) == [sell : IdThen(n), lot : IdThen(n), shares : Nat \ {0}]
ChangeThen(n) == [lot : IdThen(n), type : PositionType, at : Then(n)]
CorrectionThen(n) == [buy : IdThen(n), price : Price, shares : Shares, at : Then(n), corrected : Then(n)]
LedgerThen(n) == [transactions : SUBSET TransactionThen(n), cashEvents : SUBSET CashEventThen(n),
                  opening : SUBSET HoldingThen(n), reconciliations : SUBSET HoldingThen(n),
                  allocations : SUBSET AllocationThen(n), changes : SUBSET ChangeThen(n),
                  corrections : SUBSET CorrectionThen(n)]

LEMMA TablesAre ==
  /\ Ledger = LedgerThen(clock) /\ Ledger' = LedgerThen(clock')
  /\ Transaction = TransactionThen(clock) /\ Transaction' = TransactionThen(clock')
  /\ CashEvent = CashEventThen(clock) /\ CashEvent' = CashEventThen(clock')
BY DEF Ledger, Transaction, CashEvent, Holding, Allocation, Change, Correction, Id, Time, LedgerThen,
       TransactionThen, CashEventThen, HoldingThen, AllocationThen, ChangeThen, CorrectionThen, IdThen, Then

LEMMA LedgerIsAny ==
  ASSUME NEW n \in Nat
  PROVE  LedgerThen(n) \subseteq AnyLedger
<1>1. Then(n) \subseteq Nat /\ IdThen(n) \subseteq AnyId
  BY DEF Then, IdThen, AnyId
<1>2. /\ Shares \subseteq Some /\ Nat \ {0} = Some /\ Some \subseteq Nat /\ Price \subseteq Nat
      /\ Fee \cup {0} \subseteq Nat
  BY InputAssumption DEF Some
<1>3. TransactionThen(n) \subseteq AnyTransaction
  BY <1>1, <1>2 DEF TransactionThen, AnyTransaction
<1>4. CashEventThen(n) \subseteq AnyCashEvent
  BY <1>1, <1>2 DEF CashEventThen, AnyCashEvent
<1>5. HoldingThen(n) \subseteq AnyHolding
  BY <1>1, <1>2 DEF HoldingThen, AnyHolding
<1>6. AllocationThen(n) \subseteq AnyAllocation
  BY <1>1, <1>2 DEF AllocationThen, AnyAllocation
<1>7. ChangeThen(n) \subseteq AnyChange
  BY <1>1, <1>2 DEF ChangeThen, AnyChange
<1>8. CorrectionThen(n) \subseteq AnyCorrection
  BY <1>1, <1>2 DEF CorrectionThen, AnyCorrection
<1> QED BY <1>3, <1>4, <1>5, <1>6, <1>7, <1>8 DEF LedgerThen, AnyLedger

\* As time passes, the facts that may be stored grow.
LEMMA TablesGrow ==
  ASSUME clock \in Nat, clock' = clock + 1, clock >= 1
  PROVE  /\ Time \subseteq Time' /\ Id \subseteq Id' /\ Past = Time' /\ clock \in Time' /\ clock \notin Time
         /\ Transaction \subseteq Transaction' /\ CashEvent \subseteq CashEvent'
         /\ Holding \subseteq Holding' /\ Allocation \subseteq Allocation'
         /\ Change \subseteq Change' /\ Correction \subseteq Correction'
<1>1. Time \subseteq Time' /\ Past = Time' /\ clock \in Time' /\ clock \notin Time
  BY DEF Time, Past
<1>2. Id \subseteq Id'
  BY <1>1 DEF Id
<1>3. Transaction \subseteq Transaction'
  BY <1>1, <1>2 DEF Transaction
<1>4. CashEvent \subseteq CashEvent'
  BY <1>1, <1>2 DEF CashEvent
<1>5. Holding \subseteq Holding'
  BY <1>1, <1>2 DEF Holding
<1>6. Allocation \subseteq Allocation'
  BY <1>1, <1>2 DEF Allocation
<1>7. Change \subseteq Change'
  BY <1>1, <1>2 DEF Change
<1>8. Correction \subseteq Correction'
  BY <1>1, <1>2 DEF Correction
<1> QED BY <1>1, <1>2, <1>3, <1>4, <1>5, <1>6, <1>7, <1>8

\* The lots that are held have ids of the tables.
LEMMA LotsAre ==
  ASSUME IInv
  PROVE  IsFiniteSet(Lots) /\ \A x \in Lots : x.id \in Id
<1>1. PICK l : l = ledger
  OBVIOUS
<1>2. Sound(l) /\ Replayable(l) /\ Lots = Replay(l).lots
  BY <1>1 DEF IInv, Lots
<1>3. Told(l, Entries(l), Replay(l))
  BY <1>2, ReplayTells
<1>4. IsFiniteSet(Lots) /\ \A x \in Lots : Born(l, Entries(l), x.id)
  BY <1>2, <1>3 DEF Told, LotsTold, LotTold
<1>5. /\ \A h \in l.opening \cup l.reconciliations : h.id \in Id
      /\ \A t \in l.transactions : t.id \in Id
  BY <1>1 DEF IInv, TypeOK, Ledger, Holding, Transaction
<1>6. ASSUME NEW i, Born(l, Entries(l), i) PROVE i \in Id
  <2>1. ASSUME NEW e \in Entries(l), e.table = 1, e.fact.id = i PROVE i \in Id
    <3>1. e.fact \in l.reconciliations
      BY <1>2, <2>1, EntryIs
    <3> QED BY <1>5, <2>1, <3>1
  <2>2. ASSUME NEW e \in Entries(l), e.table = 2, e.fact.id = i PROVE i \in Id
    <3>1. e.fact \in Effective(l)
      BY <1>2, <2>2, EntryIs
    <3>2. \E t \in l.transactions : t.id = i
      BY <1>2, <2>2, <3>1, EffectiveRows
    <3> QED BY <1>5, <3>2
  <2> QED BY <1>5, <1>6, <2>1, <2>2 DEF Born
<1> QED BY <1>4, <1>6

\* Renumbering keeps everything else of a row.
Renumbered(F, f) == [f EXCEPT !.sequence = 1 + Cardinality({g \in F : Earlier(g, f)})]

LEMMA NumberType ==
  ASSUME NEW F, IsFiniteSet(F), NEW f
  PROVE  1 + Cardinality({g \in F : Earlier(g, f)}) \in Some
<1>1. IsFiniteSet({g \in F : Earlier(g, f)})
  BY FS_Subset
<1>2. PICK c \in Nat : c = Cardinality({g \in F : Earlier(g, f)})
  BY <1>1, FS_CardinalityType
<1> QED BY <1>2 DEF Some

LEMMA ResequencedFinite ==
  ASSUME NEW F, IsFiniteSet(F)
  PROVE  IsFiniteSet(Resequenced(F)) /\ Resequenced(F) = {Renumbered(F, f) : f \in F}
<1>1. Resequenced(F) = {Renumbered(F, f) : f \in F}
  BY DEF Resequenced, Renumbered
<1> DEFINE h == [f \in F |-> Renumbered(F, f)]
<1>2. h \in [F -> Resequenced(F)] /\ \A y \in Resequenced(F) : \E x \in F : h[x] = y
  BY <1>1
<1> HIDE DEF h
<1> QED BY <1>1, <1>2, ImageFinite

LEMMA TransactionRenumbered ==
  ASSUME NEW n, NEW F, IsFiniteSet(F), F \subseteq TransactionThen(n), NEW f \in F
  PROVE  /\ Renumbered(F, f) \in TransactionThen(n) /\ Renumbered(F, f).id = f.id
         /\ Renumbered(F, f).action = f.action /\ Renumbered(F, f).at = f.at
<1>1. PICK c : c = 1 + Cardinality({g \in F : Earlier(g, f)})
  OBVIOUS
<1>2. c \in Nat \ {0}
  BY <1>1, NumberType DEF Some
<1>3. PICK y : y = [f EXCEPT !.sequence = c]
  OBVIOUS
<1>4. y \in TransactionThen(n) /\ y.id = f.id /\ y.action = f.action /\ y.at = f.at
  BY <1>2, <1>3 DEF TransactionThen
<1>5. Renumbered(F, f) = y
  BY <1>1, <1>3 DEF Renumbered
<1> QED BY <1>4, <1>5

LEMMA CashEventRenumbered ==
  ASSUME NEW n, NEW F, IsFiniteSet(F), F \subseteq CashEventThen(n), NEW f \in F
  PROVE  Renumbered(F, f) \in CashEventThen(n)
<1>1. PICK c : c = 1 + Cardinality({g \in F : Earlier(g, f)})
  OBVIOUS
<1>2. c \in Nat \ {0}
  BY <1>1, NumberType DEF Some
<1>3. PICK y : y = [f EXCEPT !.sequence = c]
  OBVIOUS
<1>4. y \in CashEventThen(n)
  BY <1>2, <1>3 DEF CashEventThen
<1>5. Renumbered(F, f) = y
  BY <1>1, <1>3 DEF Renumbered
<1> QED BY <1>4, <1>5

\* What the invariant says of the stored tables.
LEMMA Stored ==
  ASSUME IInv
  PROVE  /\ clock \in Nat /\ clock >= 1
         /\ ledger \in Ledger /\ FinitelyMany(ledger) /\ OneName(ledger)
         /\ \A t \in ledger.transactions : t \in Transaction /\ t.id \in Id /\ t.at \in Time
         /\ \A h \in ledger.opening \cup ledger.reconciliations : h.id \in Id
         /\ \A c \in ledger.changes : c.at \in Time
<1>1. clock \in 1..MaxWrites + 1 /\ MaxWrites \in Nat
  BY InputAssumption DEF IInv, TypeOK
<1>2. ledger \in Ledger /\ FinitelyMany(ledger) /\ OneName(ledger)
  BY DEF IInv, TypeOK, Sound
<1>3. \A t \in ledger.transactions : t \in Transaction /\ t.id \in Id /\ t.at \in Time
  BY <1>2 DEF Ledger, Transaction
<1>4. \A h \in ledger.opening \cup ledger.reconciliations : h.id \in Id
  BY <1>2 DEF Ledger, Holding
<1>5. \A c \in ledger.changes : c.at \in Time
  BY <1>2 DEF Ledger, Change
<1> QED BY <1>1, <1>2, <1>3, <1>4, <1>5

LEMMA Fresh ==
  ASSUME clock \in Nat, NEW k
  PROVE  <<clock, k>> \notin Id
BY DEF Id, Time

LEMMA GrowsIf ==
  ASSUME IInv, NEW m,
         \A t \in ledger.transactions : \E u \in m.transactions : u.id = t.id /\ u.action = t.action /\ u.at = t.at,
         ledger.allocations \subseteq m.allocations, ledger.changes \subseteq m.changes,
         \A c \in m.changes \ ledger.changes : c.at = clock
  PROVE  Grows(ledger, m, clock)
<1>1. \A t \in ledger.transactions : t.at \in 1..clock - 1 /\ clock \in Nat
  BY Stored DEF Time
<1>2. \A t \in ledger.transactions : t.at < clock
  BY <1>1
<1> QED BY <1>2 DEF Grows, Sells, Buys

\* A write that keeps the tables in order keeps the invariant.
Kept == clock' = clock + 1 /\ ledger' \in Ledger' /\ FinitelyMany(ledger') /\ OneName(ledger')

LEMMA KeptIs ==
  ASSUME IInv, MayWrite, Kept, Replayable(ledger')
  PROVE  IInv'
<1>1. clock' \in 1..MaxWrites + 1 /\ clock' \in Nat
  BY Stored, InputAssumption DEF MayWrite, Kept
<1>2. Ledger' \subseteq AnyLedger
  BY <1>1, TablesAre, LedgerIsAny
<1>3. ledger' \in AnyLedger
  BY <1>1, <1>2 DEF Kept
<1>4. TypeOK'
  BY <1>1 DEF TypeOK, Kept
<1> QED BY <1>3, <1>4 DEF IInv, Sound, Kept

\* The transactions with one more.
LEMMA TransactionsWith ==
  ASSUME IInv, clock' = clock + 1, NEW t \in Transaction', t.id \notin Id
  PROVE  /\ WithTransaction(t) \subseteq Transaction'
         /\ IsFiniteSet(WithTransaction(t)) /\ OneRow(WithTransaction(t))
         /\ \A x \in WithTransaction(t) : x.id \in Id => \E u \in ledger.transactions : u.id = x.id
         /\ \A u \in ledger.transactions : \E x \in WithTransaction(t) :
              x.id = u.id /\ x.action = u.action /\ x.at = u.at
<1>1. PICK F : F = ledger.transactions \cup {t}
  OBVIOUS
<1>2. F \subseteq Transaction'
  BY <1>1, Stored, TablesGrow
<1>3. IsFiniteSet(F)
  BY <1>1, Stored, FS_AddElement DEF FinitelyMany
<1>4. PICK n : n = clock'
  OBVIOUS
<1>5. PICK R : R = TransactionThen(n)
  OBVIOUS
<1>6. R = Transaction'
  BY <1>4, <1>5, TablesAre
<1>7. F \subseteq R
  BY <1>2, <1>6
<1>8. \A f \in F : /\ Renumbered(F, f) \in R /\ Renumbered(F, f).id = f.id
                   /\ Renumbered(F, f).action = f.action /\ Renumbered(F, f).at = f.at
  BY <1>3, <1>5, <1>7, TransactionRenumbered
<1>9. PICK W : W = WithTransaction(t)
  OBVIOUS
<1>10. IsFiniteSet(W) /\ W = {Renumbered(F, f) : f \in F}
  BY <1>1, <1>3, <1>9, ResequencedFinite DEF WithTransaction
<1>11. W \subseteq R
  BY <1>8, <1>10
<1>12. OneRow(F)
  <2>1. \A u \in ledger.transactions : u.id # t.id
    BY Stored
  <2>2. OneRow(ledger.transactions)
    BY Stored DEF OneName
  <2> QED BY <1>1, <2>1, <2>2 DEF OneRow
<1>13. OneRow(W)
  BY <1>8, <1>10, <1>12 DEF OneRow
<1>14. \A x \in W : \E f \in F : x.id = f.id
  BY <1>8, <1>10
<1>15. \A f \in F : \E x \in W : x.id = f.id /\ x.action = f.action /\ x.at = f.at
  BY <1>8, <1>10
<1> QED BY <1>1, <1>6, <1>9, <1>10, <1>11, <1>13, <1>14, <1>15

Traded(l, W, B) ==
  [transactions |-> W, cashEvents |-> l.cashEvents, opening |-> l.opening,
   reconciliations |-> l.reconciliations, allocations |-> B, changes |-> l.changes,
   corrections |-> l.corrections]

\* A transaction with its allocations.
LEMMA TransactionKept ==
  ASSUME IInv, clock' = clock + 1, NEW t \in Transaction', t.id \notin Id,
         NEW A, IsFiniteSet(A), A \subseteq Allocation',
         ledger' = Traded(ledger, WithTransaction(t), ledger.allocations \cup A)
  PROVE  Kept /\ Grows(ledger, ledger', clock)
<1>1. PICK W : W = WithTransaction(t)
  OBVIOUS
<1>2. /\ W \subseteq Transaction' /\ IsFiniteSet(W) /\ OneRow(W)
      /\ \A x \in W : x.id \in Id => \E u \in ledger.transactions : u.id = x.id
      /\ \A u \in ledger.transactions : \E x \in W : x.id = u.id /\ x.action = u.action /\ x.at = u.at
  BY <1>1, TransactionsWith
<1>3. PICK B : B = ledger.allocations \cup A
  OBVIOUS
<1>4. PICK l \in Ledger : l = ledger /\ FinitelyMany(l) /\ OneName(l)
  BY Stored
<1> DEFINE r == Traded(l, W, B)
<1>5. ledger' = r
  BY <1>1, <1>3, <1>4
<1>6. B \subseteq Allocation' /\ IsFiniteSet(B)
  <2>1. l.allocations \subseteq Allocation /\ IsFiniteSet(l.allocations)
    BY <1>4 DEF Ledger, FinitelyMany
  <2> QED BY <1>3, <1>4, <2>1, Stored, TablesGrow, FS_Union
<1>7. r \in Ledger'
  <2>1. /\ l.cashEvents \subseteq CashEvent' /\ l.opening \subseteq Holding' /\ l.reconciliations \subseteq Holding'
        /\ l.changes \subseteq Change' /\ l.corrections \subseteq Correction'
    BY Stored, TablesGrow DEF Ledger
  <2> QED BY <1>2, <1>6, <2>1 DEF Ledger, Traded
<1>8. FinitelyMany(r)
  BY <1>2, <1>4, <1>6 DEF FinitelyMany, Traded
<1>9. OneName(r)
  <2>1. Apart(W, l.opening) /\ Apart(W, l.reconciliations)
    BY <1>2, <1>4, Stored DEF OneName, Apart
  <2> QED BY <1>2, <1>4, <2>1 DEF OneName, Traded
<1>10. Grows(ledger, r, clock)
  <2>1. r.transactions = W /\ ledger.allocations \subseteq r.allocations /\ r.changes = ledger.changes
    BY <1>3, <1>4 DEF Traded
  <2> HIDE DEF r
  <2> QED BY <1>2, <2>1, GrowsIf
<1> QED BY <1>5, <1>7, <1>8, <1>9, <1>10 DEF Kept

\* A written ledger can be replayed.
LEMMA WriteIs ==
  ASSUME NEW l, Write(l)
  PROVE  ledger' = l /\ clock' = clock + 1 /\ Replayable(ledger')
BY DEF Write, Accepts

LEMMA BuyWrites ==
  ASSUME IInv, NEW k \in Key, NEW c \in Price, NEW n \in Shares, NEW at \in Past, RecordBuy(k, c, n, at)
  PROVE  IInv' /\ Grows(ledger, ledger', clock)
<1>1. PICK t : t = NewTransaction(k, "BUY", c, n, 0, at)
  OBVIOUS
<1>2. /\ MayWrite /\ clock' = clock + 1 /\ Replayable(ledger')
      /\ ledger' = [ledger EXCEPT !.transactions = WithTransaction(t)]
  BY <1>1, WriteIs DEF RecordBuy
<1>3. t \in Transaction' /\ t.id \notin Id
  <2>1. PICK m \in Nat \ {0} : m = Cardinality(ledger.transactions) + 1
    <3>1. PICK d \in Nat : d = Cardinality(ledger.transactions)
      BY Stored, FS_CardinalityType DEF FinitelyMany
    <3> QED BY <3>1
  <2>2. t = [id |-> <<clock, k>>, sequence |-> m, action |-> "BUY", price |-> c, shares |-> n,
             fee |-> 0, at |-> at]
    BY <1>1, <2>1 DEF NewTransaction
  <2>3. <<clock, k>> \in Id' /\ at \in Time' /\ n \in Nat \ {0}
    BY <1>2, Stored, TablesGrow, InputAssumption DEF Id
  <2> QED BY <2>1, <2>2, <2>3, Stored, Fresh DEF Transaction
<1>4. ledger' = Traded(ledger, WithTransaction(t), ledger.allocations \cup {})
  BY <1>2, Stored DEF Traded, Ledger
<1>5. Kept /\ Grows(ledger, ledger', clock)
  <2>1. IsFiniteSet({}) /\ {} \subseteq Allocation'
    BY FS_EmptySet
  <2> QED BY <1>2, <1>3, <1>4, <2>1, TransactionKept
<1> QED BY <1>2, <1>5, KeptIs

SaleKey(k) == <<k, "UNSPECIFIED">>

SaleAllocations(k, from) == {NewAllocation(<<clock, SaleKey(k)>>, i, from[i]) : i \in DOMAIN from}

LEMMA SellWrites ==
  ASSUME IInv, NEW k \in Ticker, NEW c \in Price, NEW fee \in Fee, NEW at \in Past,
         NEW S \in (SUBSET {x.id : x \in Lots}) \ {{}}, NEW from \in [S -> Shares],
         RecordSell(k, c, fee, at, from)
  PROVE  IInv' /\ Grows(ledger, ledger', clock)
<1>1. PICK A : A = SaleAllocations(k, from)
  OBVIOUS
<1>2. PICK t : t = NewTransaction(SaleKey(k), "SELL", c, TotalShares(A), fee, at)
  OBVIOUS
<1>3. PICK l : l = WithSale(k, c, fee, at, from)
  OBVIOUS
<1>4. l = [ledger EXCEPT !.transactions = WithTransaction(t), !.allocations = @ \cup A]
  BY <1>1, <1>2, <1>3 DEF WithSale, SaleAllocations, SaleKey
<1>5. MayWrite /\ clock' = clock + 1 /\ Replayable(ledger') /\ ledger' = l
  BY <1>3, WriteIs DEF RecordSell
<1>6. <<clock, SaleKey(k)>> \in Id' /\ at \in Time'
  <2>1. SaleKey(k) \in Key
    BY InputAssumption DEF SaleKey, Key
  <2> QED BY <1>5, <2>1, Stored, TablesGrow DEF Id
<1>7. S # {} /\ DOMAIN from = S /\ IsFiniteSet(S) /\ S \subseteq Id
  <2>1. IsFiniteSet({x.id : x \in Lots})
    <3> DEFINE f == [x \in Lots |-> x.id]
               T == {x.id : x \in Lots}
    <3>1. f \in [Lots -> T] /\ \A y \in T : \E x \in Lots : f[x] = y
      OBVIOUS
    <3>2. IsFiniteSet(Lots)
      BY LotsAre
    <3> HIDE DEF f, T
    <3>3. IsFiniteSet(T)
      BY <3>1, <3>2, ImageFinite
    <3> QED BY <3>3 DEF T
  <2>2. {x.id : x \in Lots} \subseteq Id
    BY LotsAre
  <2>3. S \subseteq {x.id : x \in Lots}
    OBVIOUS
  <2> QED BY <2>1, <2>2, <2>3, FS_Subset
<1>8. IsFiniteSet(A) /\ A \subseteq Allocation' /\ A # {}
  <2>1. \A i \in S : NewAllocation(<<clock, SaleKey(k)>>, i, from[i]) \in Allocation'
    <3> TAKE i \in S
    <3>1. i \in Id' /\ from[i] \in Nat \ {0}
      BY <1>5, <1>7, Stored, TablesGrow, InputAssumption
    <3> QED BY <1>6, <3>1 DEF NewAllocation, Allocation
  <2>2. A = {NewAllocation(<<clock, SaleKey(k)>>, i, from[i]) : i \in S}
    BY <1>1, <1>7 DEF SaleAllocations
  <2>3. IsFiniteSet(A)
    <3> DEFINE f == [i \in S |-> NewAllocation(<<clock, SaleKey(k)>>, i, from[i])]
    <3>1. f \in [S -> A] /\ \A y \in A : \E x \in S : f[x] = y
      BY <2>2
    <3> HIDE DEF f
    <3> QED BY <1>7, <3>1, ImageFinite
  <2> QED BY <1>7, <2>1, <2>2, <2>3
<1>9. TotalShares(A) \in Nat \ {0}
  <2>1. A \subseteq AnyAllocation
    <3>1. clock' \in Nat /\ Allocation' = AllocationThen(clock')
      BY <1>5, Stored DEF Allocation, AllocationThen, Id, IdThen, Time, Then
    <3> QED BY <1>8, <3>1 DEF AllocationThen, AnyAllocation, IdThen, Then, AnyId, Some
  <2>2. TotalShares(A) \in Nat /\ \A a \in A : a.shares <= TotalShares(A)
    BY <1>8, <2>1, TotalSharesOf
  <2>3. PICK a \in A : a.shares \in Nat \ {0}
    BY <1>8, <2>1 DEF AnyAllocation, Some
  <2> QED BY <2>2, <2>3
<1>10. t \in Transaction' /\ t.id \notin Id
  <2>1. PICK m \in Nat \ {0} : m = Cardinality(ledger.transactions) + 1
    <3>1. PICK d \in Nat : d = Cardinality(ledger.transactions)
      BY Stored, FS_CardinalityType DEF FinitelyMany
    <3> QED BY <3>1
  <2>2. PICK n \in Nat \ {0} : n = TotalShares(A)
    BY <1>9
  <2>3. t = [id |-> <<clock, SaleKey(k)>>, sequence |-> m, action |-> "SELL", price |-> c, shares |-> n,
             fee |-> fee, at |-> at]
    BY <1>2, <2>1, <2>2 DEF NewTransaction
  <2> QED BY <1>6, <2>1, <2>2, <2>3, Stored, Fresh DEF Transaction
<1>11. ledger' = Traded(ledger, WithTransaction(t), ledger.allocations \cup A)
  BY <1>4, <1>5, Stored DEF Traded, Ledger
<1>12. Kept /\ Grows(ledger, ledger', clock)
  BY <1>5, <1>8, <1>10, <1>11, TransactionKept
<1> QED BY <1>5, <1>12, KeptIs

NewHolding(k, shares) == [id |-> <<clock, k>>, shares |-> shares]

NewHoldings(rows) == {NewHolding(k, rows[k]) : k \in DOMAIN rows}

\* The rows of a form are holdings with new ids, one for each position.
LEMMA NewHoldingsAre ==
  ASSUME IInv, clock' = clock + 1, NEW rows \in Rows
  PROVE  /\ NewHoldings(rows) \subseteq Holding' /\ IsFiniteSet(NewHoldings(rows))
         /\ OneRow(NewHoldings(rows)) /\ \A h \in NewHoldings(rows) : h.id \notin Id
<1>1. PICK S \in SUBSET Key : IsFiniteSet(S) /\ rows \in [S -> Shares]
  BY DEF Rows
<1>2. PICK H : H = NewHoldings(rows)
  OBVIOUS
<1>3. H = {NewHolding(k, rows[k]) : k \in S}
  BY <1>1, <1>2 DEF NewHoldings
<1>4. H \subseteq Holding'
  <2>1. \A k \in S : NewHolding(k, rows[k]) \in Holding'
    BY <1>1, Stored, TablesGrow DEF NewHolding, Holding, Id
  <2> QED BY <1>3, <2>1
<1>5. IsFiniteSet(H)
  <2> DEFINE f == [k \in S |-> NewHolding(k, rows[k])]
  <2>1. f \in [S -> H] /\ \A y \in H : \E x \in S : f[x] = y
    BY <1>3
  <2> HIDE DEF f
  <2> QED BY <1>1, <2>1, ImageFinite
<1>6. OneRow(H) /\ \A h \in H : h.id \notin Id
  <2>1. \A k : NewHolding(k, rows[k]).id = <<clock, k>>
    BY DEF NewHolding
  <2>2. \A k \in S : NewHolding(k, rows[k]).id \notin Id
    BY <2>1, Stored, Fresh
  <2>3. \A j, k \in S : NewHolding(j, rows[j]).id = NewHolding(k, rows[k]).id => j = k
    BY <2>1
  <2>4. OneRow(H)
    BY <1>3, <2>3 DEF OneRow
  <2> QED BY <1>3, <2>2, <2>4
<1> QED BY <1>2, <1>4, <1>5, <1>6

\* What a write leaves alone stays in order.
LEMMA RestKept ==
  ASSUME IInv, clock' = clock + 1
  PROVE  /\ ledger.transactions \subseteq Transaction' /\ ledger.cashEvents \subseteq CashEvent'
         /\ ledger.opening \subseteq Holding' /\ ledger.reconciliations \subseteq Holding'
         /\ ledger.allocations \subseteq Allocation' /\ ledger.changes \subseteq Change'
         /\ ledger.corrections \subseteq Correction'
BY Stored, TablesGrow DEF Ledger

LEMMA OpeningWrites ==
  ASSUME IInv, NEW rows \in Rows, InitializeOpening(rows)
  PROVE  IInv' /\ Grows(ledger, ledger', clock)
<1>1. PICK H : H = NewHoldings(rows)
  OBVIOUS
<1>2. /\ MayWrite /\ clock' = clock + 1 /\ Replayable(ledger') /\ ledger = NoFacts
      /\ ledger' = [ledger EXCEPT !.opening = H]
  BY <1>1, WriteIs DEF InitializeOpening, NewHoldings, NewHolding, NewOpening
<1>3. H \subseteq Holding' /\ IsFiniteSet(H) /\ OneRow(H)
  BY <1>1, <1>2, NewHoldingsAre
<1> DEFINE r == [transactions |-> {}, cashEvents |-> {}, opening |-> H, reconciliations |-> {},
                 allocations |-> {}, changes |-> {}, corrections |-> {}]
<1>4. ledger' = r
  BY <1>2 DEF NoFacts
<1>5. r \in Ledger'
  BY <1>3 DEF Ledger
<1>6. FinitelyMany(r)
  BY <1>3, FS_EmptySet DEF FinitelyMany
<1>7. OneName(r)
  BY <1>3 DEF OneName, OneRow, Apart
<1>8. Grows(ledger, r, clock)
  <2>1. ledger.transactions = {} /\ ledger.allocations = {} /\ ledger.changes = {} /\ r.changes = {}
    BY <1>2 DEF NoFacts
  <2> HIDE DEF r
  <2> QED BY <2>1, GrowsIf
<1> QED BY <1>2, <1>4, <1>5, <1>6, <1>7, <1>8, KeptIs DEF Kept

LEMMA ReconcileWrites ==
  ASSUME IInv, NEW rows \in Rows, ReconcilePositions(rows)
  PROVE  IInv' /\ Grows(ledger, ledger', clock)
<1>1. PICK H : H = NewHoldings(rows)
  OBVIOUS
<1>2. /\ MayWrite /\ clock' = clock + 1 /\ Replayable(ledger')
      /\ ledger' = [ledger EXCEPT !.reconciliations = @ \cup H]
  BY <1>1, WriteIs DEF ReconcilePositions, NewHoldings, NewHolding, NewReconciliation
<1>3. H \subseteq Holding' /\ IsFiniteSet(H) /\ OneRow(H) /\ \A h \in H : h.id \notin Id
  BY <1>1, <1>2, NewHoldingsAre
<1>4. PICK R : R = ledger.reconciliations \cup H
  OBVIOUS
<1>5. PICK l \in Ledger : l = ledger /\ FinitelyMany(l) /\ OneName(l)
  BY Stored
<1> DEFINE r == [transactions |-> l.transactions, cashEvents |-> l.cashEvents, opening |-> l.opening,
                 reconciliations |-> R, allocations |-> l.allocations, changes |-> l.changes,
                 corrections |-> l.corrections]
<1>6. ledger' = r
  BY <1>2, <1>4, <1>5 DEF Ledger
<1>7. r \in Ledger'
  BY <1>2, <1>3, <1>4, <1>5, RestKept DEF Ledger
<1>8. FinitelyMany(r)
  <2>1. IsFiniteSet(R)
    BY <1>3, <1>4, <1>5, FS_Union DEF FinitelyMany
  <2> QED BY <1>5, <2>1 DEF FinitelyMany
<1>9. OneName(r)
  <2>1. OneRow(R) /\ Apart(l.transactions, R) /\ Apart(l.opening, R)
    BY <1>3, <1>4, <1>5, Stored DEF OneName, OneRow, Apart
  <2> QED BY <1>5, <2>1 DEF OneName
<1>10. Grows(ledger, r, clock)
  <2>1. r.transactions = ledger.transactions /\ r.allocations = ledger.allocations /\ r.changes = ledger.changes
    BY <1>5
  <2> HIDE DEF r
  <2> QED BY <2>1, GrowsIf
<1> QED BY <1>2, <1>6, <1>7, <1>8, <1>9, <1>10, KeptIs DEF Kept

LEMMA CashEventWrites ==
  ASSUME IInv, NEW event \in {"DEPOSIT", "WITHDRAWAL"}, NEW c \in Price, NEW at \in Past,
         RecordCashEvent(event, c, at)
  PROVE  IInv' /\ Grows(ledger, ledger', clock)
<1>1. PICK e : e = NewCashEvent(event, c, at)
  OBVIOUS
<1>2. PICK W : W = WithCashEvent(e)
  OBVIOUS
<1>3. /\ MayWrite /\ clock' = clock + 1 /\ Replayable(ledger')
      /\ ledger' = [ledger EXCEPT !.cashEvents = W]
  BY <1>1, <1>2, WriteIs DEF RecordCashEvent
<1>4. e \in CashEvent'
  <2>1. PICK m \in Nat \ {0} : m = Cardinality(ledger.cashEvents) + 1
    <3>1. PICK d \in Nat : d = Cardinality(ledger.cashEvents)
      BY Stored, FS_CardinalityType DEF FinitelyMany
    <3> QED BY <3>1
  <2>2. e = [sequence |-> m, event |-> event, amount |-> c, at |-> at]
    BY <1>1, <2>1 DEF NewCashEvent
  <2>3. at \in Time'
    BY <1>3, Stored, TablesGrow
  <2> QED BY <2>1, <2>2, <2>3 DEF CashEvent
<1>5. W \subseteq CashEvent' /\ IsFiniteSet(W)
  <2>1. PICK F : F = ledger.cashEvents \cup {e}
    OBVIOUS
  <2>2. PICK n : n = clock'
    OBVIOUS
  <2>3. IsFiniteSet(F) /\ F \subseteq CashEventThen(n)
    BY <1>3, <1>4, <2>1, <2>2, Stored, RestKept, TablesAre, FS_AddElement DEF FinitelyMany
  <2>4. \A f \in F : Renumbered(F, f) \in CashEventThen(n)
    BY <2>3, CashEventRenumbered
  <2>5. IsFiniteSet(W) /\ W = {Renumbered(F, f) : f \in F}
    BY <1>2, <2>1, <2>3, ResequencedFinite DEF WithCashEvent
  <2> QED BY <2>2, <2>4, <2>5, TablesAre
<1>6. PICK l \in Ledger : l = ledger /\ FinitelyMany(l) /\ OneName(l)
  BY Stored
<1> DEFINE r == [transactions |-> l.transactions, cashEvents |-> W, opening |-> l.opening,
                 reconciliations |-> l.reconciliations, allocations |-> l.allocations,
                 changes |-> l.changes, corrections |-> l.corrections]
<1>7. ledger' = r
  BY <1>3, <1>6 DEF Ledger
<1>8. r \in Ledger'
  BY <1>3, <1>5, <1>6, RestKept DEF Ledger
<1>9. FinitelyMany(r) /\ OneName(r)
  BY <1>5, <1>6 DEF FinitelyMany, OneName
<1>10. Grows(ledger, r, clock)
  <2>1. r.transactions = ledger.transactions /\ r.allocations = ledger.allocations /\ r.changes = ledger.changes
    BY <1>6
  <2> HIDE DEF r
  <2> QED BY <2>1, GrowsIf
<1> QED BY <1>3, <1>7, <1>8, <1>9, <1>10, KeptIs DEF Kept

LEMMA ChangeWrites ==
  ASSUME IInv, NEW x \in Lots, NEW y \in PositionType, ChangeClassification(x.id, y)
  PROVE  IInv' /\ Grows(ledger, ledger', clock)
<1>1. PICK c : c = [lot |-> x.id, type |-> y, at |-> clock]
  OBVIOUS
<1>2. /\ MayWrite /\ clock' = clock + 1 /\ Replayable(ledger')
      /\ ledger' = [ledger EXCEPT !.changes = @ \cup {c}]
  BY <1>1, WriteIs DEF ChangeClassification, NewChange, EffectiveAt
<1>3. c \in Change' /\ c.at = clock
  <2>1. x.id \in Id' /\ clock \in Time'
    BY <1>2, LotsAre, Stored, TablesGrow
  <2> QED BY <1>1, <2>1 DEF Change
<1>4. PICK C : C = ledger.changes \cup {c}
  OBVIOUS
<1>5. PICK l \in Ledger : l = ledger /\ FinitelyMany(l) /\ OneName(l)
  BY Stored
<1> DEFINE r == [transactions |-> l.transactions, cashEvents |-> l.cashEvents, opening |-> l.opening,
                 reconciliations |-> l.reconciliations, allocations |-> l.allocations,
                 changes |-> C, corrections |-> l.corrections]
<1>6. ledger' = r
  BY <1>2, <1>4, <1>5 DEF Ledger
<1>7. r \in Ledger'
  BY <1>2, <1>3, <1>4, <1>5, RestKept DEF Ledger
<1>8. FinitelyMany(r)
  <2>1. IsFiniteSet(C)
    BY <1>4, <1>5, FS_AddElement DEF FinitelyMany
  <2> QED BY <1>5, <2>1 DEF FinitelyMany
<1>9. OneName(r)
  <2>1. \A d \in l.changes : d.at # c.at
    BY <1>2, <1>3, <1>5, Stored, TablesGrow
  <2>2. \A d, e \in C : d.at = e.at => d = e
    BY <1>4, <1>5, <2>1 DEF OneName
  <2> QED BY <1>5, <2>2 DEF OneName
<1>10. Grows(ledger, r, clock)
  <2>1. /\ r.transactions = ledger.transactions /\ r.allocations = ledger.allocations
        /\ r.changes = ledger.changes \cup {c}
    BY <1>4, <1>5
  <2> HIDE DEF r
  <2> QED BY <1>3, <2>1, GrowsIf
<1> QED BY <1>2, <1>6, <1>7, <1>8, <1>9, <1>10, KeptIs DEF Kept

LEMMA CorrectionWrites ==
  ASSUME IInv, NEW x \in Lots, NEW c \in Price, NEW n \in Shares, NEW at \in Past,
         CorrectBuy(x.id, c, n, at)
  PROVE  IInv' /\ Grows(ledger, ledger', clock)
<1>1. PICK d : d = [buy |-> x.id, price |-> c, shares |-> n, at |-> at, corrected |-> clock]
  OBVIOUS
<1>2. /\ MayWrite /\ clock' = clock + 1 /\ Replayable(ledger')
      /\ ledger' = [ledger EXCEPT !.corrections = @ \cup {d}]
  BY <1>1, WriteIs DEF CorrectBuy, NewCorrection
<1>3. d \in Correction'
  <2>1. x.id \in Id' /\ clock \in Time' /\ at \in Time'
    BY <1>2, LotsAre, Stored, TablesGrow
  <2> QED BY <1>1, <2>1 DEF Correction
<1>4. PICK C : C = ledger.corrections \cup {d}
  OBVIOUS
<1>5. PICK l \in Ledger : l = ledger /\ FinitelyMany(l) /\ OneName(l)
  BY Stored
<1> DEFINE r == [transactions |-> l.transactions, cashEvents |-> l.cashEvents, opening |-> l.opening,
                 reconciliations |-> l.reconciliations, allocations |-> l.allocations,
                 changes |-> l.changes, corrections |-> C]
<1>6. ledger' = r
  BY <1>2, <1>4, <1>5 DEF Ledger
<1>7. r \in Ledger'
  BY <1>2, <1>3, <1>4, <1>5, RestKept DEF Ledger
<1>8. FinitelyMany(r)
  <2>1. IsFiniteSet(C)
    BY <1>4, <1>5, FS_AddElement DEF FinitelyMany
  <2> QED BY <1>5, <2>1 DEF FinitelyMany
<1>9. OneName(r)
  BY <1>5 DEF OneName
<1>10. Grows(ledger, r, clock)
  <2>1. r.transactions = ledger.transactions /\ r.allocations = ledger.allocations /\ r.changes = ledger.changes
    BY <1>5
  <2> HIDE DEF r
  <2> QED BY <2>1, GrowsIf
<1> QED BY <1>2, <1>6, <1>7, <1>8, <1>9, <1>10, KeptIs DEF Kept

(***************************************************************************)
(* The invariant.                                                          *)
(***************************************************************************)

LEMMA NothingReplays ==
  Replayable(NoFacts) /\ Sound(NoFacts)
<1>1. PICK l : l = NoFacts
  OBVIOUS
<1>2. /\ l.transactions = {} /\ l.cashEvents = {} /\ l.opening = {} /\ l.reconciliations = {}
      /\ l.allocations = {} /\ l.changes = {} /\ l.corrections = {} /\ l \in AnyLedger
  BY <1>1 DEF NoFacts, AnyLedger
<1>3. Sound(l)
  BY <1>2, FS_EmptySet DEF Sound, FinitelyMany, OneName, OneRow, Apart
<1>4. Entries(l) = {}
  BY <1>2 DEF Entries, Effective
<1>5. WellFormed(l)
  <2>1. {} = 1..0 /\ Cardinality({}) = 0
    BY FS_EmptySet
  <2>2. Numbered({})
    BY <2>1 DEF Numbered
  <2> QED BY <1>2, <2>2 DEF WellFormed
<1>6. PICK h : Replays(l, h, SUBSET Entries(l)) /\ Replay(l) = h[Entries(l)]
  BY <1>3, <1>4, EntriesAre, ReplayIs
<1>7. Replay(l) = Start(l)
  BY <1>4, <1>6 DEF Replays
<1>8. Start(l).error = "none"
  BY <1>5 DEF Start
<1> QED BY <1>1, <1>3, <1>7, <1>8 DEF Replayable

LEMMA InitInv == Init => IInv
<1> SUFFICES ASSUME Init PROVE IInv
  OBVIOUS
<1>1. clock = 1 /\ ledger = NoFacts
  BY DEF Init
<1>2. clock \in 1..MaxWrites + 1
  BY <1>1, InputAssumption
<1>3. NoFacts \in Ledger
  BY DEF NoFacts, Ledger
<1> QED BY <1>1, <1>2, <1>3, NothingReplays DEF IInv, TypeOK

LEMMA NextInv ==
  ASSUME IInv, Next
  PROVE  IInv' /\ Grows(ledger, ledger', clock)
<1>1. CASE \E rows \in Rows : InitializeOpening(rows)
  BY <1>1, OpeningWrites
<1>2. CASE \E k \in Key, c \in Price, n \in Shares, at \in Past : RecordBuy(k, c, n, at)
  BY <1>2, BuyWrites
<1>3. CASE \E k \in Ticker, c \in Price, fee \in Fee, at \in Past, S \in (SUBSET {x.id : x \in Lots}) \ {{}} :
             \E from \in [S -> Shares] : RecordSell(k, c, fee, at, from)
  BY <1>3, SellWrites
<1>4. CASE \E e \in {"DEPOSIT", "WITHDRAWAL"}, c \in Price, at \in Past : RecordCashEvent(e, c, at)
  BY <1>4, CashEventWrites
<1>5. CASE \E rows \in Rows : ReconcilePositions(rows)
  BY <1>5, ReconcileWrites
<1>6. CASE \E x \in Lots, y \in PositionType : ChangeClassification(x.id, y)
  BY <1>6, ChangeWrites
<1>7. CASE \E x \in Lots, c \in Price, n \in Shares, at \in Past : CorrectBuy(x.id, c, n, at)
  BY <1>7, CorrectionWrites
<1> QED BY <1>1, <1>2, <1>3, <1>4, <1>5, <1>6, <1>7 DEF Next

LEMMA Invariance == Spec => []IInv
<1>1. IInv /\ UNCHANGED vars => IInv'
  BY DEF IInv, TypeOK, vars, Ledger, Transaction, CashEvent, Holding, Allocation, Change, Correction, Id, Time
<1>2. IInv /\ [Next]_vars => IInv'
  BY <1>1, NextInv
<1> QED BY <1>2, InitInv, PTL DEF Spec

\* TypeOK: every table holds facts of its kind, none of them later than now.
THEOREM FactsAreTyped == Spec => []TypeOK
<1>1. IInv => TypeOK
  BY DEF IInv
<1> QED BY <1>1, Invariance, PTL

\* LedgerReplays: the ledger that replay_portfolio is given can always be replayed.
THEOREM LedgerAlwaysReplays == Spec => []LedgerReplays
<1>1. IInv => LedgerReplays
  BY DEF IInv, LedgerReplays
<1> QED BY <1>1, Invariance, PTL

(***************************************************************************)
(* Shares.                                                                 *)
(***************************************************************************)

LEMMA LedgerTold ==
  ASSUME IInv, NEW l, l = ledger
  PROVE  Sound(l) /\ Told(l, Entries(l), Replay(l))
BY ReplayTells DEF IInv

\* A row of allocations is of a sale that is on the time line.
LEMMA SalesAreEntries ==
  ASSUME NEW l, Sound(l), WellFormed(l), NEW a \in l.allocations
  PROVE  \E e \in Entries(l) : SaleOf(e, a)
<1>1. PICK t \in Sells(l.transactions) : t.id = a.sell
  BY DEF WellFormed
<1>2. t \in Effective(l)
  BY SalesAreRows DEF Sells
<1>3. TransactionEntry(t) \in Entries(l)
  BY <1>2 DEF Entries, TransactionEntry
<1>4. SaleOf(TransactionEntry(t), a)
  BY <1>1 DEF SaleOf, TransactionEntry
<1> QED BY <1>3, <1>4

LEMMA SoldIs ==
  ASSUME NEW l, Sound(l), WellFormed(l), NEW i
  PROVE  Taken(l, Entries(l), i) = TotalShares({a \in l.allocations : a.lot = i})
<1>1. TakenRows(l, Entries(l), i) = {a \in l.allocations : a.lot = i}
  BY SalesAreEntries DEF TakenRows
<1> QED BY <1>1 DEF Taken

\* SharesAreAccounted: ApplySell, ApplyReconciliation and ApplyChange of any replay neither lose a
\* share nor sell one twice.
THEOREM SharesAlwaysAccounted == Spec => []SharesAreAccounted
<1>1. ASSUME IInv PROVE SharesAreAccounted
  <2>1. PICK l : l = ledger
    OBVIOUS
  <2>2. Sound(l) /\ Told(l, Entries(l), Replay(l))
    BY <1>1, <2>1, LedgerTold
  <2>3. WellFormed(l) /\ LotsTold(l, Entries(l), Replay(l).lots) /\ GivenTold(l, Entries(l))
    BY <2>2 DEF Told
  <2>4. \A i : Acquired(i) = AcquiredIn(l, i)
    BY <2>1 DEF Acquired, AcquiredIn
  <2>5. \A i : SoldFrom(i) = Taken(l, Entries(l), i)
    <3> TAKE i
    <3>1. Taken(l, Entries(l), i) = TotalShares({a \in l.allocations : a.lot = i})
      BY <2>2, <2>3, SoldIs
    <3> QED BY <2>1, <3>1 DEF SoldFrom
  <2>6. \A x \in Lots : x.left = Acquired(x.id) - SoldFrom(x.id)
    BY <2>1, <2>3, <2>4, <2>5 DEF LotsTold, LotTold, Lots
  <2>7. \A a \in ledger.allocations : SoldFrom(a.lot) <= Acquired(a.lot)
    BY <2>1, <2>2, <2>3, <2>4, <2>5, SalesAreEntries DEF GivenTold
  <2> QED BY <2>6, <2>7 DEF SharesAreAccounted
<1>2. IInv => SharesAreAccounted
  BY <1>1
<1> QED BY <1>2, Invariance, PTL

(***************************************************************************)
(* Sales.                                                                  *)
(***************************************************************************)

LEMMA SalesStay ==
  ASSUME NEW l, Sound(l), Replayable(l), NEW m, Sound(m), Replayable(m), NEW n \in Nat,
         Grows(l, m, n)
  PROVE  Replay(l).sold \subseteq Replay(m).sold
<1>1. /\ WellFormed(l) /\ Replay(l) \in AnyPortfolio /\ SalesTold(l, Entries(l), Replay(l).sold)
      /\ WellFormed(m) /\ SalesTold(m, Entries(m), Replay(m).sold)
  BY ReplayTells DEF Told
<1>2. SUFFICES ASSUME NEW y \in Replay(l).sold PROVE y \in Replay(m).sold
  OBVIOUS
<1>3. y \in AnySale /\ SaleTold(l, Entries(l), y)
  BY <1>1 DEF SalesTold, AnyPortfolio
<1>4. PICK a \in l.allocations, e \in Entries(l) :
        /\ SaleOf(e, a) /\ y.sell = a.sell /\ y.lot = a.lot
        /\ TypeIs(ChangesBefore(l, e.fact.at), a.lot, y.type)
  BY <1>3 DEF SaleTold
<1>5. PICK t \in Sells(l.transactions) : t.id = a.sell /\ t = e.fact
  <2>1. PICK t \in Sells(l.transactions) : t.id = a.sell
    BY <1>1 DEF WellFormed
  <2>2. t \in Effective(l)
    BY <1>1, SalesAreRows DEF Sells
  <2>3. e.fact \in Effective(l) /\ e.fact.id = a.sell
    BY <1>4, EntryIs DEF SaleOf
  <2>4. t = e.fact
    BY <2>1, <2>2, <2>3, EffectiveRows DEF OneRow
  <2> QED BY <2>1, <2>4
<1>6. PICK u \in Sells(m.transactions) : u.id = t.id /\ u.at = t.at /\ t.at < n
  BY DEF Grows
<1>7. u \in Effective(m) /\ u.at \in Nat
  <2>1. u \in Effective(m)
    BY <1>1, SalesAreRows DEF Sells
  <2> QED BY <2>1, EffectiveRows DEF AnyTransaction
<1>8. TransactionEntry(u) \in Entries(m) /\ TransactionEntry(u).fact = u /\ SaleOf(TransactionEntry(u), a)
  BY <1>5, <1>6, <1>7 DEF Entries, TransactionEntry, SaleOf
<1>9. ChangesBefore(m, u.at) = ChangesBefore(l, t.at)
  <2>1. \A c \in m.changes : c.at < t.at => c \in l.changes
    <3>1. \A c \in m.changes \ l.changes : ~(c.at < t.at)
      BY <1>6, <1>7 DEF Grows
    <3> QED BY <3>1
  <2>2. l.changes \subseteq m.changes
    BY DEF Grows
  <2> QED BY <1>6, <2>1, <2>2 DEF ChangesBefore
<1>10. a \in m.allocations
  BY DEF Grows
<1>11. SaleTold(m, Entries(m), y)
  BY <1>4, <1>5, <1>8, <1>9, <1>10 DEF SaleTold
<1> QED BY <1>1, <1>3, <1>11 DEF SalesTold

\* SalesAreHistory: no write takes back a sale of record_transaction, or the type its lots had.
THEOREM SalesStayHistory == Spec => SalesAreHistory
<1>1. ASSUME IInv, IInv', Next PROVE Replay(ledger).sold \subseteq Replay(ledger').sold
  <2>1. PICK l, m, n : l = ledger /\ m = ledger' /\ n = clock
    OBVIOUS
  <2>2. /\ Sound(l) /\ Replayable(l) /\ Sound(m) /\ Replayable(m) /\ n \in Nat
        /\ Grows(l, m, n)
    BY <1>1, <2>1, NextInv, Stored DEF IInv
  <2>3. Replay(l).sold \subseteq Replay(m).sold
    BY <2>2, SalesStay
  <2> QED BY <2>1, <2>3
<1>2. ASSUME UNCHANGED vars PROVE Replay(ledger).sold \subseteq Replay(ledger').sold
  BY <1>2 DEF vars
<1>3. IInv /\ IInv' /\ [Next]_vars => [Replay(ledger).sold \subseteq Replay(ledger').sold]_vars
  BY <1>1, <1>2
<1> QED BY <1>3, Invariance, PTL DEF Spec, SalesAreHistory

(***************************************************************************)
(* Cash.                                                                   *)
(***************************************************************************)

EventsOf(l, k) == {c \in l.cashEvents : c.event = k}
Amounts(l, k) == [c \in EventsOf(l, k) |-> c.amount]
Costs(l) == [t \in Buys(Effective(l)) |-> t.price * t.shares]
Nets(l) == [t \in Sells(Effective(l)) |-> t.price * t.shares - t.fee]

\* The same, as facts of the time line.
EventEntries(l, k) == {e \in Entries(l) : e.table = 0 /\ e.fact.event = k}
TradeEntries(l, k) == {e \in Entries(l) : e.table = 2 /\ e.fact.action = k}

DeltaOf(l, S) == SumFunction(On(Deltas(l), S))

LEMMA Negated ==
  ASSUME NEW S, IsFiniteSet(S), NEW g \in [S -> Int], NEW h \in [S -> Int], \A x \in S : h[x] = - g[x]
  PROVE  SumFunction(h) = - SumFunction(g)
<1>1. PICK z \in [S -> Int] : \A x \in S : z[x] = 0
  <2>1. [x \in S |-> 0] \in [S -> Int] /\ \A x \in S : [y \in S |-> 0][x] = 0
    OBVIOUS
  <2> QED BY <2>1
<1>2. SumFunction(z) = 0
  <2>1. SumFunction(z) = SumFunction(On(z, {}))
    BY <1>1, SumZeros
  <2> QED BY <2>1, OnNone
<1>3. \A x \in S : z[x] = g[x] + h[x]
  <2>1. \A a \in Int : 0 = a + (- a)
    OBVIOUS
  <2> QED BY <1>1, <2>1
<1>4. SumFunction(z) = SumFunction(g) + SumFunction(h)
  <2>1. /\ IsFiniteSet(S) /\ g \in [S -> Int] /\ h \in [S -> Int] /\ z \in [S -> Int]
        /\ \A x \in S : z[x] = g[x] + h[x]
    BY <1>3
  <2> QED BY <2>1, SumPlus, ZenonT(60)
<1>5. SumFunction(g) \in Int /\ SumFunction(h) \in Int
  BY SumType
<1> QED BY <1>2, <1>4, <1>5

\* A sum over rows is the sum over their facts on the time line.
LEMMA PartSum ==
  ASSUME NEW l, Sound(l), NEW D, IsFiniteSet(D), NEW P \in SUBSET Entries(l), NEW w \in [D -> P],
         \A x, y \in D : w[x] = w[y] => x = y, \A e \in P : \E x \in D : w[x] = e,
         NEW g \in [D -> Int], \A x \in D : g[x] = Delta(w[x])
  PROVE  DeltaOf(l, P) = SumFunction(g)
<1>1. Deltas(l) \in [Entries(l) -> Int] /\ IsFiniteSet(Entries(l))
  BY DeltaType
<1>2. On(Deltas(l), P) \in [P -> Int] /\ IsFiniteSet(P)
  BY <1>1, OnType
<1>3. \A x \in D : g[x] = On(Deltas(l), P)[w[x]]
  BY DEF On, Deltas
<1>4. SumFunction(g) = SumFunction(On(Deltas(l), P))
  BY <1>2, <1>3, SumImage
<1> QED BY <1>4 DEF DeltaOf

LEMMA EventSum ==
  ASSUME NEW l, Sound(l), NEW k \in {"DEPOSIT", "WITHDRAWAL"}
  PROVE  /\ SumFunction(Amounts(l, k)) \in Int
         /\ DeltaOf(l, EventEntries(l, k)) = IF k = "DEPOSIT" THEN SumFunction(Amounts(l, k))
                                             ELSE - SumFunction(Amounts(l, k))
<1> DEFINE D == EventsOf(l, k)
           P == EventEntries(l, k)
           w == [c \in D |-> CashEntry(c)]
           g == [c \in D |-> IF k = "DEPOSIT" THEN c.amount ELSE - c.amount]
           a == Amounts(l, k)
<1>1. IsFiniteSet(D) /\ \A c \in D : c \in l.cashEvents /\ c.amount \in Int /\ c.event = k
  <2>1. IsFiniteSet(l.cashEvents) /\ l.cashEvents \subseteq AnyCashEvent
    BY DEF Sound, AnyLedger, FinitelyMany
  <2>2. \A c \in D : c \in l.cashEvents /\ c.amount \in Int /\ c.event = k
    BY <2>1 DEF EventsOf, AnyCashEvent
  <2>3. D \subseteq l.cashEvents
    BY DEF EventsOf
  <2> QED BY <2>1, <2>2, <2>3, FS_Subset
<1>2. P \in SUBSET Entries(l) /\ w \in [D -> P]
  <2>1. \A c \in l.cashEvents : CashEntry(c) \in Entries(l)
    BY DEF Entries, CashEntry
  <2>2. \A c \in D : CashEntry(c) \in P
    BY <1>1, <2>1 DEF CashEntry, EventEntries
  <2> QED BY <2>2 DEF EventEntries
<1>3. \A x, y \in D : w[x] = w[y] => x = y
  BY DEF CashEntry
<1>4. \A e \in P : \E x \in D : w[x] = e
  BY EntryIs DEF EventEntries, EventsOf
<1>5. g \in [D -> Int] /\ a \in [D -> Int]
  BY <1>1 DEF Amounts
<1>6. \A x \in D : g[x] = Delta(w[x])
  BY <1>1 DEF Delta, CashEntry
<1>7. k = "DEPOSIT" => g = a
  BY DEF Amounts
<1>8. k # "DEPOSIT" => \A x \in D : g[x] = - a[x]
  BY DEF Amounts
<1> HIDE DEF D, P, w, g, a
<1>9. DeltaOf(l, P) = SumFunction(g)
  BY <1>1, <1>2, <1>3, <1>4, <1>5, <1>6, PartSum
<1>10. k # "DEPOSIT" => SumFunction(g) = - SumFunction(a)
  BY <1>1, <1>5, <1>8, Negated
<1>11. SumFunction(a) \in Int
  BY <1>1, <1>5, SumType
<1> QED BY <1>7, <1>9, <1>10, <1>11 DEF P, a

LEMMA TradeIs ==
  ASSUME NEW l, Sound(l), NEW k \in {"BUY", "SELL"}, NEW D \in SUBSET Effective(l),
         \A t \in Effective(l) : t \in D <=> t.action = k,
         NEW g \in [D -> Int], \A t \in D : g[t] = Delta(TransactionEntry(t))
  PROVE  DeltaOf(l, TradeEntries(l, k)) = SumFunction(g)
<1> DEFINE P == TradeEntries(l, k)
           w == [t \in D |-> TransactionEntry(t)]
<1>1. IsFiniteSet(D)
  BY EffectiveRows, FS_Subset
<1>2. P \in SUBSET Entries(l) /\ w \in [D -> P]
  <2>1. \A t \in Effective(l) : TransactionEntry(t) \in Entries(l)
    BY DEF Entries, TransactionEntry
  <2>2. \A t \in D : TransactionEntry(t) \in P
    BY <2>1 DEF TransactionEntry, TradeEntries
  <2> QED BY <2>2 DEF TradeEntries
<1>3. \A x, y \in D : w[x] = w[y] => x = y
  BY DEF TransactionEntry
<1>4. \A e \in P : \E x \in D : w[x] = e
  BY EntryIs DEF TradeEntries
<1>5. \A x \in D : g[x] = Delta(w[x])
  OBVIOUS
<1> HIDE DEF P, w
<1>6. DeltaOf(l, P) = SumFunction(g)
  BY <1>1, <1>2, <1>3, <1>4, <1>5, PartSum
<1> QED BY <1>6 DEF P

LEMMA TradesAre ==
  ASSUME NEW l, Sound(l)
  PROVE  /\ \A t \in Effective(l) : /\ t \in Buys(Effective(l)) <=> t.action = "BUY"
                                    /\ t \in Sells(Effective(l)) <=> t.action = "SELL"
                                    /\ t.price * t.shares \in Int
                                    /\ NetProceeds(t) \in Int
         /\ Buys(Effective(l)) \in SUBSET Effective(l)
         /\ Sells(Effective(l)) \in SUBSET Effective(l)
<1>1. Effective(l) \subseteq AnyTransaction
  BY EffectiveRows
<1>2. \A t \in AnyTransaction : t.action \in {"BUY", "SELL"} /\ t.price \in Int /\ t.shares \in Int /\ t.fee \in Int
  BY DEF AnyTransaction, Some
<1>3. \A a, b, c \in Int : a * b \in Int /\ a * b - c \in Int
  OBVIOUS
<1> QED BY <1>1, <1>2, <1>3 DEF Buys, Sells, NetProceeds

LEMMA TradeSums ==
  ASSUME NEW l, Sound(l)
  PROVE  /\ SumFunction(Costs(l)) \in Int
         /\ SumFunction(Nets(l)) \in Int
         /\ DeltaOf(l, TradeEntries(l, "BUY")) = - SumFunction(Costs(l))
         /\ DeltaOf(l, TradeEntries(l, "SELL")) = SumFunction(Nets(l))
<1> DEFINE B == Buys(Effective(l))
           S == Sells(Effective(l))
           c == Costs(l)
           n == Nets(l)
           g == [t \in B |-> - (t.price * t.shares)]
<1>1. /\ \A t \in Effective(l) : /\ t \in B <=> t.action = "BUY"
                                 /\ t \in S <=> t.action = "SELL"
                                 /\ t.price * t.shares \in Int
                                 /\ NetProceeds(t) \in Int
      /\ B \in SUBSET Effective(l)
      /\ S \in SUBSET Effective(l)
  BY TradesAre
<1>2. IsFiniteSet(B) /\ IsFiniteSet(S)
  BY <1>1, EffectiveRows, FS_Subset
<1>3. \A t \in B : - (t.price * t.shares) \in Int
  <2>1. \A a \in Int : - a \in Int
    OBVIOUS
  <2> HIDE DEF B
  <2> QED BY <1>1, <2>1
<1>4. g \in [B -> Int] /\ \A t \in B : g[t] = Delta(TransactionEntry(t))
  <2>1. \A t \in B : Delta(TransactionEntry(t)) = - (t.price * t.shares)
    BY <1>1 DEF Delta, TransactionEntry
  <2> HIDE DEF B
  <2> QED BY <1>3, <2>1
<1>5. n \in [S -> Int] /\ \A t \in S : n[t] = Delta(TransactionEntry(t))
  <2>1. \A t \in S : Delta(TransactionEntry(t)) = NetProceeds(t)
    BY <1>1 DEF Delta, TransactionEntry
  <2>2. n = [t \in S |-> NetProceeds(t)]
    BY DEF Nets, NetProceeds
  <2> HIDE DEF S, n
  <2> QED BY <1>1, <2>1, <2>2
<1>6. c \in [B -> Int] /\ \A t \in B : g[t] = - c[t]
  <2>1. c = [t \in B |-> t.price * t.shares]
    BY DEF Costs
  <2> HIDE DEF B, c
  <2> QED BY <1>1, <2>1
<1> HIDE DEF B, S, c, n, g
<1>7. DeltaOf(l, TradeEntries(l, "BUY")) = SumFunction(g)
  BY <1>1, <1>4, TradeIs
<1>8. DeltaOf(l, TradeEntries(l, "SELL")) = SumFunction(n)
  BY <1>1, <1>5, TradeIs
<1>9. SumFunction(g) = - SumFunction(c)
  BY <1>2, <1>4, <1>6, Negated
<1>10. SumFunction(c) \in Int /\ SumFunction(n) \in Int
  BY <1>2, <1>5, <1>6, SumType
<1> QED BY <1>7, <1>8, <1>9, <1>10 DEF c, n

\* Reconciliations and changes of type cost nothing; every other fact is of one of four kinds.
LEMMA DeltasAre ==
  ASSUME NEW l, Sound(l)
  PROVE  DeltaOf(l, Entries(l)) = DeltaOf(l, EventEntries(l, "DEPOSIT")) + DeltaOf(l, EventEntries(l, "WITHDRAWAL"))
                                  + DeltaOf(l, TradeEntries(l, "BUY")) + DeltaOf(l, TradeEntries(l, "SELL"))
<1> DEFINE E == Entries(l)
           f == Deltas(l)
           A == EventEntries(l, "DEPOSIT")
           B == EventEntries(l, "WITHDRAWAL")
           C == TradeEntries(l, "BUY")
           D == TradeEntries(l, "SELL")
<1>1. f \in [E -> Int] /\ IsFiniteSet(E)
  BY DeltaType
<1>2. /\ A \in SUBSET E /\ B \in SUBSET E /\ C \in SUBSET E /\ D \in SUBSET E
      /\ A \cap B = {} /\ (A \cup B) \cap C = {} /\ ((A \cup B) \cup C) \cap D = {}
      /\ A \cup B \in SUBSET E /\ (A \cup B) \cup C \in SUBSET E /\ ((A \cup B) \cup C) \cup D \in SUBSET E
  BY DEF EventEntries, TradeEntries
<1>3. \A e \in E \ (((A \cup B) \cup C) \cup D) : f[e] = 0
  <2> SUFFICES ASSUME NEW e \in E \ (((A \cup B) \cup C) \cup D) PROVE f[e] = 0
    OBVIOUS
  <2>1. \A c \in l.cashEvents : c.event \in {"DEPOSIT", "WITHDRAWAL"}
    BY DEF Sound, AnyLedger, AnyCashEvent
  <2>2. \A t \in Effective(l) : t.action \in {"BUY", "SELL"}
    BY EffectiveRows DEF AnyTransaction
  <2>3. e.table # 0 /\ e.table # 2
    BY <2>1, <2>2, EntryIs DEF EventEntries, TradeEntries
  <2>4. Delta(e) = 0
    BY <2>3 DEF Delta
  <2> QED BY <2>4 DEF Deltas
<1> HIDE DEF E, f, A, B, C, D
<1> DEFINE G(S) == SumFunction(On(f, S))
<1>4. G(E) = G(((A \cup B) \cup C) \cup D)
  <2>1. SumFunction(f) = SumFunction(On(f, ((A \cup B) \cup C) \cup D))
    BY <1>1, <1>2, <1>3, SumZeros
  <2> QED BY <1>1, <2>1, OnAll
<1>5. G(A \cup B) = G(A) + G(B)
  BY <1>1, <1>2, SumUnion
<1>6. G((A \cup B) \cup C) = G(A \cup B) + G(C)
  BY <1>1, <1>2, SumUnion
<1>7. G(((A \cup B) \cup C) \cup D) = G((A \cup B) \cup C) + G(D)
  BY <1>1, <1>2, SumUnion
<1> HIDE DEF G
<1>8. G(E) = G(A) + G(B) + G(C) + G(D)
  BY <1>4, <1>5, <1>6, <1>7
<1> QED BY <1>8 DEF G, E, f, A, B, C, D, DeltaOf

LEMMA CashIs ==
  ASSUME NEW l, Sound(l), Told(l, Entries(l), Replay(l))
  PROVE  Replay(l).cash = InitialCash + SumFunction(Amounts(l, "DEPOSIT")) - SumFunction(Amounts(l, "WITHDRAWAL"))
                          - SumFunction(Costs(l)) + SumFunction(Nets(l))
<1> DEFINE d == SumFunction(Amounts(l, "DEPOSIT"))
           w == SumFunction(Amounts(l, "WITHDRAWAL"))
           c == SumFunction(Costs(l))
           n == SumFunction(Nets(l))
<1>1. Replay(l).cash = InitialCash + DeltaOf(l, Entries(l))
  BY DEF Told, CashTold, DeltaOf
<1>2. DeltaOf(l, EventEntries(l, "DEPOSIT")) = d /\ d \in Int
  BY EventSum
<1>3. DeltaOf(l, EventEntries(l, "WITHDRAWAL")) = - w /\ w \in Int
  BY EventSum
<1>4. /\ DeltaOf(l, TradeEntries(l, "BUY")) = - c /\ c \in Int
      /\ DeltaOf(l, TradeEntries(l, "SELL")) = n /\ n \in Int
  BY TradeSums
<1>5. InitialCash \in Int
  BY InputAssumption
<1> HIDE DEF d, w, c, n
<1>6. DeltaOf(l, Entries(l)) = d + (- w) + (- c) + n
  BY <1>2, <1>3, <1>4, DeltasAre
<1>7. Replay(l).cash = InitialCash + d - w - c + n
  BY <1>1, <1>2, <1>3, <1>4, <1>5, <1>6
<1> QED BY <1>7 DEF d, w, c, n

\* CashIsAccounted: the cash that replay_portfolio derives is the documentation's sum over the
\* tables, in whatever order the facts were written and are replayed.
THEOREM CashAlwaysAccounted == Spec => []CashIsAccounted
<1>1. ASSUME IInv PROVE CashIsAccounted
  <2>1. PICK l : l = ledger
    OBVIOUS
  <2>2. Sound(l) /\ Told(l, Entries(l), Replay(l))
    BY <1>1, <2>1, LedgerTold
  <2>3. Replay(l).cash = InitialCash + SumFunction(Amounts(l, "DEPOSIT")) - SumFunction(Amounts(l, "WITHDRAWAL"))
                         - SumFunction(Costs(l)) + SumFunction(Nets(l))
    BY <2>2, CashIs
  <2> QED BY <2>1, <2>3 DEF CashIsAccounted, Sum, Amounts, EventsOf, Costs, Nets
<1>2. IInv => CashIsAccounted
  BY <1>1
<1> QED BY <1>2, Invariance, PTL

================================================================================
