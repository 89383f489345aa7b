--------------------------- MODULE PortfolioApiProofs ---------------------------
(* Theorems about PortfolioApi, for every set of emails and requests and      *)
(* every lifetime of a session.                                               *)
EXTENDS PortfolioApi, FiniteSetTheorems, TLAPS

(***************************************************************************)
(* The inductive invariant.                                                *)
(***************************************************************************)

\* Where a request can be before it has written anything.
Early == {"idle", "started", "insert", "account", "serve", "bind"}

RequestState ==
  [op : Operation \cup {"none"}, pc : Early \cup {"bound", "done"}, token : Id \cup {Nothing},
   email : Email \cup {Nothing}, of : Id \cup {Nothing}, at : Nat,
   account : Id \cup {Nothing} \cup Account, status : Status, data : Id \cup {Nothing},
   retired : BOOLEAN]

Typed == TypeOK /\ requests \in [Request -> RequestState]

\* No two accounts share a name, an email or a portfolio, and each portfolio has one.
AccountInv ==
  /\ \A a, b \in accounts :
       a.id = b.id \/ a.email = b.email \/ (a.user = b.user /\ a.user # Nothing) => a = b
  /\ \A u \in users : \E a \in accounts : a.user = u
  /\ \A a \in accounts : a.user \in users \cup {Nothing}

\* A token is given once, and to an account there is.
SessionInv ==
  /\ \A s, t \in issued : s.token = t.token => s = t
  /\ \A s \in issued : \E a \in accounts : a.id = s.account

\* Past authenticate: the account row is in hand.
Admitted(r) == In(r, "serve") \/ In(r, "bind") \/ In(r, "bound")

\* What a request knows at each of its steps is still so.
Progress(r) ==
  LET q == requests[r] IN
  /\ In(r, "idle") => q = Fresh
  /\ ~In(r, "done") => q.status = Unanswered
  /\ In(r, "started") \/ In(r, "insert") => q.account = Nothing
  /\ In(r, "insert") => q.op = "register"
  /\ q.op \in {"register", "login"} => q.email \in Email
  /\ In(r, "account") \/ Admitted(r) => q.op \notin Anonymous
  /\ In(r, "account") =>
       \E s \in issued : s.token = q.token /\ s.account = q.account /\ q.at < s.expires
  /\ Admitted(r) => q.account \in Account
  /\ Admitted(r) \/ Served(r) =>
       \E s \in issued : s.token = q.token /\ s.account = q.account.id
  /\ In(r, "bind") =>
       /\ lock[q.account.id] = r
       /\ \A a \in accounts : a.id = q.account.id => a.user = Nothing
  /\ In(r, "bound") => \E a \in accounts : a.id = q.account.id /\ a.user = r

\* The session a request names was issued; once its end was answered, or if it had been
\* before the request was sent, there is no such session, and the request is not let in.
Presents(r) ==
  LET q == requests[r] IN
  /\ q.token # Nothing => \E s \in issued : s.token = q.token
  /\ q.retired \/ (q.op \in {"login", "logout"} /\ q.status = 200) => WithToken(q.token) = {}
  /\ In(r, "account") \/ Admitted(r) \/ Served(r) => ~q.retired

\* What a request left, and what it was told.
Leaves(r) ==
  LET q == requests[r] IN
  /\ q.pc \in Early => ~Left(r)
  /\ q.pc # "done" => \A f \in facts : f.by # r
  /\ q.status \in {401, 404, 409, 422} /\ q.op # "ask" => ~Left(r)
  /\ Served(r) =>
       /\ q.data \in Mine(q.account) \cup {Nothing}
       /\ \A f \in facts : f.by = r => f.of \in Mine(q.account) \ {Nothing}

Holds(r) == Progress(r) /\ Presents(r) /\ Leaves(r)

IInv == Typed /\ AccountInv /\ SessionInv /\ \A r \in Request : Holds(r)

(***************************************************************************)
(* One request moves, and the others' knowledge stays true.                *)
(***************************************************************************)

\* Row b is what has become of row a in a step of r: r may have set up its portfolio.
Becomes(a, b, r) ==
  /\ b.id = a.id /\ b.email = a.email
  /\ b.user = a.user \/ (a.user = Nothing /\ b.user = r /\ lock[a.id] = r)

\* What a step of r may change: what it creates is named r, and an account that another
\* request has locked keeps its portfolio.
By(r) ==
  /\ \A q \in Request \ {r} : requests'[q] = requests[q]
  /\ \A a \in accounts : \E b \in accounts' : Becomes(a, b, r)
  /\ \A b \in accounts' : (b.id = r /\ b.user = Nothing) \/ \E a \in accounts : Becomes(a, b, r)
  /\ users' \subseteq users \cup {r}
  /\ issued \subseteq issued' /\ \A s \in issued' : s \in issued \/ s.token = r
  /\ \A s \in sessions' : s \in sessions \/ (s.token = r /\ \A t \in issued : t.token # r)
  /\ facts \subseteq facts' /\ \A f \in facts' : f \in facts \/ f.by = r
  /\ \A id \in Id : lock'[id] = lock[id] \/ lock[id] \in {Nothing, r}

LEMMA Names ==
  /\ Nothing \notin Id /\ Email \subseteq Id /\ Request \subseteq Id
  /\ Email \cap Request = {}
  /\ \A n \in Id \cup {Nothing} : n \notin Account
BY SessionAssumption, NameAssumption DEF Id

LEMMA StateType ==
  ASSUME Typed, NEW r \in Request
  PROVE  requests[r] \in RequestState
BY DEF Typed

\* Nobody but r sets up a portfolio for an account in a step of r.
LEMMA MineGrows ==
  ASSUME NEW r \in Request, By(r), NEW account
  PROVE  \A n \in Mine(account) \ {Nothing} : n \in Mine(account)'
<1> SUFFICES ASSUME NEW a \in accounts, a.id = account.id, a.user # Nothing
             PROVE  a.user \in {b.user : b \in {c \in accounts' : c.id = account.id}}
  BY DEF Mine
<1>1. PICK b \in accounts' : Becomes(a, b, r)  BY DEF By
<1> QED  BY <1>1 DEF Becomes

\* A step of r leaves nothing of q's that was not there.
LEMMA LeftStays ==
  ASSUME NEW r \in Request, By(r), NEW q \in Request \ {r}, ~Left(q)
  PROVE  ~Left(q)'
<1>1. q # Nothing  BY Names
<1>2. ASSUME NEW b \in accounts'  PROVE q # b.id /\ q # b.user
  <2>1. CASE b.id = r /\ b.user = Nothing  BY <1>1, <2>1
  <2>2. CASE \E a \in accounts : Becomes(a, b, r)
    BY <2>2 DEF Becomes, Left
  <2> QED  BY <2>1, <2>2 DEF By
<1>3. \A s \in issued' : s.token # q  BY DEF By, Left
<1>4. q \notin users'  BY DEF By, Left
<1>5. \A f \in facts' : f.by # q  BY DEF By, Left
<1> QED  BY <1>2, <1>3, <1>4, <1>5 DEF Left

LEMMA OthersKeep ==
  ASSUME IInv, NEW r \in Request, By(r), NEW q \in Request \ {r}
  PROVE  Holds(q)'
<1> USE DEF IInv
<1>1. requests'[q] = requests[q]  BY DEF By
<1>2. Progress(q) /\ Presents(q) /\ Leaves(q)  BY DEF Holds
<1>3. \A pc : In(q, pc)' <=> In(q, pc)  BY <1>1 DEF In
<1>4. (Admitted(q)' <=> Admitted(q)) /\ (Served(q)' <=> Served(q))
  BY <1>1, <1>3 DEF Admitted, Served
<1>5. q # Nothing /\ q # r  BY Names
<1>6. \A s \in issued : s \in issued'  BY DEF By
<1>7. Progress(q)'
  <2>1. ASSUME In(q, "bind")
        PROVE  /\ lock'[requests[q].account.id] = q
               /\ \A b \in accounts' : b.id = requests[q].account.id => b.user = Nothing
    <3> DEFINE id == requests[q].account.id
    <3>1. lock[id] = q /\ \A a \in accounts : a.id = id => a.user = Nothing
      BY <1>2, <2>1 DEF Progress
    <3>2. requests[q].account \in Account  BY <1>2, <2>1 DEF Progress, Admitted
    <3>3. id \in Id  BY <3>2 DEF Account
    <3>4. lock'[id] = q  BY <1>5, <3>1, <3>3 DEF By
    <3>5. ASSUME NEW b \in accounts', b.id = id  PROVE b.user = Nothing
      <4>1. CASE b.id = r /\ b.user = Nothing  BY <4>1
      <4>2. CASE \E a \in accounts : Becomes(a, b, r)
        BY <1>5, <3>1, <3>5, <4>2 DEF Becomes
      <4> QED  BY <4>1, <4>2 DEF By
    <3> QED  BY <3>4, <3>5
  <2>2. ASSUME In(q, "bound")
        PROVE  \E b \in accounts' : b.id = requests[q].account.id /\ b.user = q
    <3>1. PICK a \in accounts : a.id = requests[q].account.id /\ a.user = q
      BY <1>2, <2>2 DEF Progress
    <3>2. PICK b \in accounts' : Becomes(a, b, r)  BY DEF By
    <3> QED  BY <1>5, <3>1, <3>2 DEF Becomes
  <2> QED  BY <1>1, <1>2, <1>3, <1>4, <1>6, <2>1, <2>2 DEF Progress
<1>8. Presents(q)'
  <2>1. ASSUME WithToken(requests[q].token) = {}  PROVE WithToken(requests[q].token)' = {}
    <3>1. requests[q].token # Nothing => \E s \in issued : s.token = requests[q].token
      BY <1>2 DEF Presents
    <3>2. r # Nothing  BY Names
    <3> QED  BY <1>1, <2>1, <3>1, <3>2 DEF By, WithToken
  <2> QED  BY <1>1, <1>2, <1>3, <1>4, <1>6, <2>1 DEF Presents
<1>9. Leaves(q)'
  <2>1. \A f \in facts' : f \in facts \/ f.by = r  BY DEF By
  <2>2. PICK k : k = requests[q].account /\ k = requests'[q].account  BY <1>1
  <2>3. \A n \in Mine(k) \ {Nothing} : n \in Mine(k)'  BY MineGrows
  <2>4. ASSUME Served(q)
        PROVE  /\ requests[q].data \in Mine(k)' \cup {Nothing}
               /\ \A f \in facts' : f.by = q => f.of \in Mine(k)' \ {Nothing}
    BY <1>2, <1>5, <2>1, <2>2, <2>3, <2>4 DEF Leaves
  <2> QED  BY <1>1, <1>2, <1>4, <1>5, <2>1, <2>2, <2>4, LeftStays DEF Leaves
<1> QED  BY <1>7, <1>8, <1>9 DEF Holds

\* What is left to show of a step of r.
LEMMA OneRequestMoves ==
  ASSUME IInv, NEW r \in Request, By(r), Typed', AccountInv', SessionInv', Holds(r)'
  PROVE  IInv'
BY OthersKeep DEF IInv

\* Nothing else of a request changes when it is answered.
LEMMA AnswerIs ==
  ASSUME Typed, NEW r \in Request, NEW status \in Status, NEW data \in Id \cup {Nothing},
         Answer(r, status, data)
  PROVE  /\ requests' \in [Request -> RequestState]
         /\ \A q \in Request \ {r} : requests'[q] = requests[q]
         /\ requests'[r].pc = "done" /\ requests'[r].status = status
         /\ requests'[r].data = data
         /\ requests'[r].op = requests[r].op /\ requests'[r].token = requests[r].token
         /\ requests'[r].email = requests[r].email
         /\ requests'[r].account = requests[r].account
         /\ requests'[r].retired = requests[r].retired
<1> DEFINE q == requests[r]
           p == Answered(r, status, data)
<1>1. q \in RequestState /\ requests \in [Request -> RequestState]  BY StateType DEF Typed
<1>2. p = [q EXCEPT !.pc = "done", !.status = status, !.data = data, !.at = 0]
  BY DEF Answered
<1>3. p = [op |-> q.op, pc |-> "done", token |-> q.token, email |-> q.email, of |-> q.of,
           at |-> 0, account |-> q.account, status |-> status, data |-> data,
           retired |-> q.retired]
  BY <1>1, <1>2 DEF RequestState
<1> HIDE DEF p
<1>5. /\ p.pc = "done" /\ p.status = status /\ p.data = data
      /\ p.op = q.op /\ p.token = q.token /\ p.email = q.email /\ p.account = q.account
      /\ p.retired = q.retired
  BY <1>3
<1>6. p \in RequestState  BY <1>1, <1>3 DEF RequestState
<1>4. requests' = [requests EXCEPT ![r] = p]  BY DEF Answer, Set, p
<1> QED  BY <1>1, <1>4, <1>5, <1>6

\* A request is in one place.
LEMMA Places ==
  ASSUME Typed, NEW r \in Request, ~In(r, "idle"), ~In(r, "done")
  PROVE  /\ In(r, "started") \/ In(r, "insert") \/ In(r, "account") \/ Admitted(r)
         /\ ~In(r, "bound") => requests[r].pc \in Early
BY StateType DEF RequestState, Early, In, Admitted

\* A request is answered, maybe after one write, and sessions may have been deleted.
Replies(r, status, data) ==
  /\ ~In(r, "idle") /\ ~In(r, "done")
  /\ Answer(r, status, data)
  /\ UNCHANGED <<clock, accounts, users, issued>>
  /\ sessions' \subseteq sessions
  /\ lock' \in [Id -> Request \cup {Nothing}]
  /\ \A id \in Id : lock'[id] = lock[id] \/ lock[id] \in {Nothing, r}
  /\ \/ facts' = facts
     \/ /\ Admitted(r) /\ ~In(r, "bound")
        /\ status \notin {401, 404, 409, 422} \/ requests[r].op = "ask"
        /\ \E of \in Id \cap Mine(requests[r].account) :
             facts' = facts \cup {[by |-> r, of |-> of]}
  /\ data = Nothing \/ (Admitted(r) /\ data \in Mine(requests[r].account))
  /\ status = 200 /\ requests[r].op \in {"login", "logout"} => WithToken(requests[r].token)' = {}
  /\ status \in {401, 404, 409, 422} => ~In(r, "bound")

LEMMA ReplyKeeps ==
  ASSUME IInv, NEW r \in Request, NEW status \in Status, NEW data \in Id \cup {Nothing},
         Replies(r, status, data)
  PROVE  IInv'
<1> USE DEF IInv
<1> DEFINE q == requests[r]
<1>1. Progress(r) /\ Presents(r) /\ Leaves(r)  BY DEF Holds
<1>2. /\ ~In(r, "idle") /\ ~In(r, "done") /\ sessions' \subseteq sessions
      /\ UNCHANGED <<clock, accounts, users, issued>>
      /\ requests' \in [Request -> RequestState]
      /\ requests'[r].pc = "done" /\ requests'[r].status = status
      /\ requests'[r].data = data
      /\ requests'[r].op = q.op /\ requests'[r].token = q.token
      /\ requests'[r].email = q.email
      /\ requests'[r].retired = q.retired
      /\ \A p \in Request \ {r} : requests'[p] = requests[p]
  BY AnswerIs DEF Replies
<1>3. PICK k : k = q.account /\ k = requests'[r].account  BY AnswerIs DEF Replies
<1>4. facts \subseteq facts' /\ \A f \in facts' : f \in facts \/ (f.by = r /\ f.of \in Id)
  BY DEF Replies
<1>5. By(r)
  <2>1. \A a \in accounts : Becomes(a, a, r)  BY DEF Becomes
  <2> QED  BY <1>2, <1>4, <2>1 DEF By, Replies
<1>6. Typed'
  <2>1. facts' \subseteq [by : Request, of : Id]  BY DEF Replies, Typed, TypeOK
  <2>2. \A p \in Request : requests'[p].status \in Status  BY <1>2 DEF RequestState
  <2>3. lock' \in [Id -> Request \cup {Nothing}]  BY DEF Replies
  <2> QED  BY <1>2, <2>1, <2>2, <2>3 DEF Typed, TypeOK
<1>7. AccountInv' /\ SessionInv'  BY <1>2 DEF AccountInv, SessionInv
<1>8. ASSUME Served(r)'  PROVE Admitted(r) /\ k \in Account
  <2>1. k \in Account  BY <1>3, <1>8 DEF Served
  <2>2. k # Nothing  BY <2>1, Names
  <2>3. ~In(r, "started") /\ ~In(r, "insert")  BY <1>1, <1>3, <2>2 DEF Progress
  <2>4. ~In(r, "account")
    <3> SUFFICES ASSUME In(r, "account") PROVE FALSE
      OBVIOUS
    <3>1. PICK s \in issued : s.account = k  BY <1>1, <1>3 DEF Progress
    <3>2. k \in Id  BY <3>1 DEF Typed, TypeOK, Session
    <3> QED  BY <2>1, <3>2, Names
  <2> QED  BY <1>2, <2>1, <2>3, <2>4, Places
<1>9. /\ \A pc \in Early \cup {"bound"} : ~In(r, pc)'
      /\ ~Admitted(r)' /\ In(r, "done")'
  BY <1>2 DEF In, Admitted, Early
<1>10. Progress(r)'
  <2>1. Served(r)' => \E s \in issued' : s.token = requests'[r].token /\ s.account = k.id
    BY <1>1, <1>2, <1>3, <1>8 DEF Progress
  <2> QED  BY <1>1, <1>2, <1>3, <1>9, <2>1 DEF Progress, Early
<1>11. Presents(r)'
  <2>1. requests'[r].token # Nothing => \E s \in issued' : s.token = requests'[r].token
    BY <1>1, <1>2 DEF Presents
  <2>2. q.retired => WithToken(q.token) = {}  BY <1>1 DEF Presents
  <2>3. q.retired => WithToken(requests[r].token)' = {}  BY <1>2, <2>2 DEF WithToken
  <2>4. status = 200 /\ q.op \in {"login", "logout"} => WithToken(requests[r].token)' = {}
    BY DEF Replies
  <2>5. Served(r)' => ~q.retired  BY <1>1, <1>8 DEF Presents
  <2> QED  BY <1>2, <1>9, <2>1, <2>3, <2>4, <2>5 DEF Presents, Early
<1>12. ASSUME status \in {401, 404, 409, 422}, q.op # "ask"  PROVE ~Left(r)'
  <2>1. facts' = facts /\ ~In(r, "bound")  BY <1>12 DEF Replies
  <2>2. ~Left(r)  BY <1>1, <1>2, <2>1, Places DEF Leaves
  <2> QED  BY <1>2, <2>1, <2>2 DEF Left
<1>13. ASSUME Served(r)'
       PROVE  /\ data \in Mine(k)' \cup {Nothing}
              /\ \A f \in facts' : f.by = r => f.of \in Mine(k)' \ {Nothing}
  <2>1. Mine(k)' = Mine(k)  BY <1>2 DEF Mine
  <2>2. data \in Mine(k) \cup {Nothing}  BY <1>3 DEF Replies
  <2>3. \A f \in facts : f.by # r  BY <1>1, <1>2 DEF Leaves, In
  <2>4. \A f \in facts' : f.by = r => f.of \in Id \cap Mine(k)
    BY <1>3, <2>3 DEF Replies
  <2> QED  BY <2>1, <2>2, <2>4, Names
<1>14. Leaves(r)'
  <2>1. requests'[r].pc \notin Early  BY <1>2 DEF Early
  <2> QED  BY <1>2, <1>3, <1>12, <1>13, <2>1 DEF Leaves
<1>15. Holds(r)'  BY <1>10, <1>11, <1>14 DEF Holds
<1> QED  BY <1>5, <1>6, <1>7, <1>15, OneRequestMoves

(***************************************************************************)
(* The answers.                                                            *)
(***************************************************************************)

LEMMA RefuseKeeps ==
  ASSUME IInv, NEW r \in Request, NEW status \in Status \ {200}, ~In(r, "idle"), ~In(r, "done"),
         status \in {401, 404, 409, 422} => ~In(r, "bound"),
         Refuse(r, status), UNCHANGED facts
  PROVE  IInv'
<1>1. Replies(r, status, Nothing)
  BY DEF Refuse, Replies, IInv, Typed, TypeOK
<1> QED  BY <1>1, ReplyKeeps

\* A request that was let in knows its account.
LEMMA AdmittedIs ==
  ASSUME IInv, NEW r \in Request, Admitted(r)
  PROVE  /\ requests[r].account \in Account /\ requests[r].account.id \in Id
         /\ requests[r].account.user \in Id \cup {Nothing}
         /\ requests[r].op \notin Anonymous
         /\ ~In(r, "idle") /\ ~In(r, "done")
<1>1. Progress(r)  BY DEF IInv, Holds
<1> QED  BY <1>1 DEF Progress, Account, Admitted, In

LEMMA RaiseKeeps ==
  ASSUME IInv, NEW r \in Request, Admitted(r),
         \/ ~In(r, "bound") /\ Raises(r, {404, 409, 422, 500, 502, 503})
         \/ Raises(r, {500})
  PROVE  IInv'
<1>1. PICK status \in {404, 409, 422, 500, 502, 503} :
        /\ Refuse(r, status) /\ UNCHANGED facts
        /\ status \in {401, 404, 409, 422} => ~In(r, "bound")
  BY DEF Raises
<1>2. status \in Status \ {200}  BY DEF Status
<1> QED  BY <1>1, <1>2, AdmittedIs, RefuseKeeps

LEMMA ReturnKeeps ==
  ASSUME IInv, NEW r \in Request, Admitted(r), NEW data \in Id \cup {Nothing},
         data = Nothing \/ data \in Mine(requests[r].account), Returns(r, data)
  PROVE  IInv'
<1>1. 200 \in Status  BY DEF Status
<1>2. Replies(r, 200, data)
  BY AdmittedIs DEF Returns, Unchanged, Replies, IInv, Typed, TypeOK, Anonymous
<1> QED  BY <1>1, <1>2, ReplyKeeps

LEMMA WriteKeeps ==
  ASSUME IInv, NEW r \in Request, Admitted(r), ~In(r, "bound"),
         NEW data \in Id \cap Mine(requests[r].account), Writes(r, data)
  PROVE  IInv'
<1>1. 200 \in Status  BY DEF Status
<1>2. Replies(r, 200, data)
  BY AdmittedIs DEF Writes, Unchanged, Replies, IInv, Typed, TypeOK, Anonymous
<1> QED  BY <1>1, <1>2, ReplyKeeps

\* The portfolio a request is served from, and the thread or draft it may name, are its account's.
LEMMA OwnData ==
  ASSUME IInv, NEW r \in Request, Admitted(r)
  PROVE  /\ Bound(r) /\ Owns(r) => Portfolio(r) \in Id \cap Mine(requests[r].account)
         /\ Has(r) => requests[r].of \in Id \cap Mine(requests[r].account)
         /\ requests[r].account.id \in Id \cap Mine(requests[r].account)
BY AdmittedIs DEF Bound, Owns, Portfolio, Has, Mine

LEMMA ServingIs ==
  ASSUME NEW r \in Request, In(r, "serve")
  PROVE  Admitted(r) /\ ~In(r, "bound")
BY DEF Admitted, In

LEMMA ServeKeeps ==
  ASSUME IInv, NEW r \in Request,
         \/ SetupRequired(r) \/ NotFound(r)
         \/ ServeSession(r) \/ ServeImport(r) \/ ServeSetup(r) \/ ServeRead(r) \/ ServeList(r) \/ ServeView(r)
         \/ ServeOpening(r) \/ ServeTrade(r) \/ ServeCash(r) \/ ServeReconcile(r) \/ ServeLot(r)
         \/ ServeQuestion(r) \/ ServeThread(r) \/ ServeDelete(r) \/ ServeAsk(r) \/ ServeIntent(r)
  PROVE  IInv'
<1> DEFINE p == Portfolio(r)
           of == requests[r].of
           id == requests[r].account.id
           all == {404, 409, 422, 500, 502, 503}
<1>1. ASSUME In(r, "serve"),
             \/ Raises(r, all) \/ Returns(r, Nothing) \/ Returns(r, id)
             \/ Bound(r) /\ Owns(r) /\ (Returns(r, p) \/ Writes(r, p))
             \/ Has(r) /\ (Returns(r, of) \/ Writes(r, of))
      PROVE  IInv'
  BY <1>1, ServingIs, OwnData, RaiseKeeps, ReturnKeeps, WriteKeeps
<1>2. CASE SetupRequired(r) \/ NotFound(r)
  <2>1. In(r, "serve") /\ Raises(r, all)
    BY <1>2 DEF SetupRequired, NotFound, Raises
  <2> QED  BY <1>1, <2>1
<1>3. CASE ServeSession(r) \/ ServeImport(r)
  BY <1>1, <1>3 DEF ServeSession, ServeImport, Serving, Raises
<1>4. CASE ServeRead(r) \/ ServeList(r) \/ ServeView(r) \/ ServeQuestion(r)
  BY <1>1, <1>4 DEF ServeRead, ServeList, ServeView, ServeQuestion, OnPortfolio, Serving, Raises
<1>5. CASE ServeOpening(r) \/ ServeTrade(r) \/ ServeCash(r) \/ ServeReconcile(r) \/ ServeLot(r)
  BY <1>1, <1>5 DEF ServeOpening, ServeTrade, ServeCash, ServeReconcile, ServeLot, OnPortfolio,
     Serving, Raises
<1>6. CASE ServeThread(r) \/ ServeDelete(r) \/ ServeIntent(r)
  BY <1>1, <1>6 DEF ServeThread, ServeDelete, ServeIntent, Serving, Raises
<1>7. CASE ServeAsk(r)
  <2>1. In(r, "serve") /\ requests[r].op = "ask" /\ Has(r)
    BY <1>7 DEF ServeAsk, Serving
  <2>2. CASE \E status \in {404, 409, 422} \cup AgentFailed :
               /\ Answer(r, status, Nothing) /\ Unchanged
               /\ facts' = facts \cup {[by |-> r, of |-> of]}
    <3>1. PICK status \in {404, 409, 422, 502, 503} :
               /\ Answer(r, status, Nothing) /\ Unchanged
               /\ facts' = facts \cup {[by |-> r, of |-> of]}
      BY <2>2 DEF AgentFailed
    <3>2. status \in Status  BY DEF Status
    <3>3. Replies(r, status, Nothing)
      BY <2>1, <3>1, ServingIs, OwnData, AdmittedIs DEF Unchanged, Replies, IInv, Typed, TypeOK
    <3> QED  BY <3>2, <3>3, ReplyKeeps
  <2>3. CASE Writes(r, of) \/ Raises(r, all)  BY <1>1, <2>1, <2>3
  <2>4. Raises(r, {404, 409, 422, 502}) => Raises(r, all)  BY DEF Raises
  <2> QED  BY <1>7, <2>2, <2>3, <2>4 DEF ServeAsk
<1>8. CASE ServeSetup(r)
  <2>1. In(r, "bound") /\ Admitted(r)  BY <1>8 DEF ServeSetup, Admitted
  <2>2. r \in Mine(requests[r].account) /\ r \in Id
    <3>1. PICK a \in accounts : a.id = requests[r].account.id /\ a.user = r
      BY <2>1 DEF IInv, Holds, Progress
    <3> QED  BY <3>1, Names DEF Mine
  <2> QED
    BY <1>8, <2>1, <2>2, ReturnKeeps, RaiseKeeps DEF ServeSetup, SetupReadFails
<1> QED  BY <1>2, <1>3, <1>4, <1>5, <1>6, <1>7, <1>8

(***************************************************************************)
(* The steps on the way.                                                   *)
(***************************************************************************)

\* A request goes on without an answer, and no row changes.
LEMMA MoveKeeps ==
  ASSUME IInv, NEW r \in Request, NEW p \in RequestState, Set(r, p), requests[r].pc \in Early,
         p.pc \in Early \ {"idle"}, p.status = Unanswered,
         UNCHANGED <<clock, accounts, users, sessions, issued, facts>>,
         lock' \in [Id -> Request \cup {Nothing}],
         \A id \in Id : lock'[id] = lock[id] \/ lock[id] \in {Nothing, r},
         Progress(r)', Presents(r)'
  PROVE  IInv'
<1> USE DEF IInv
<1>1. /\ requests' \in [Request -> RequestState] /\ requests'[r] = p
      /\ \A q \in Request \ {r} : requests'[q] = requests[q]
  BY DEF Set, Typed
<1>2. By(r)
  <2>1. \A a \in accounts : Becomes(a, a, r)  BY DEF Becomes
  <2> QED  BY <1>1, <2>1 DEF By
<1>3. Typed'
  <2>1. \A q \in Request : requests'[q].status \in Status  BY <1>1 DEF RequestState
  <2> QED  BY <1>1, <2>1 DEF Typed, TypeOK
<1>4. AccountInv' /\ SessionInv'  BY DEF AccountInv, SessionInv
<1>5. Leaves(r)'
  <2>1. ~Left(r) /\ \A f \in facts : f.by # r  BY DEF Holds, Leaves, Early
  <2>2. ~Left(r)'  BY <2>1 DEF Left
  <2>3. ~Served(r)'  BY <1>1 DEF Served, Early
  <2> QED  BY <2>1, <2>2, <2>3 DEF Leaves
<1>6. Holds(r)'  BY <1>5 DEF Holds
<1> QED  BY <1>2, <1>3, <1>4, <1>6, OneRequestMoves

\* What Moved(r, pc) leaves alone.
LEMMA MovedIs ==
  ASSUME Typed, NEW r \in Request, NEW pc \in Early
  PROVE  /\ Moved(r, pc) \in RequestState /\ Moved(r, pc).pc = pc
         /\ Moved(r, pc).op = requests[r].op /\ Moved(r, pc).token = requests[r].token
         /\ Moved(r, pc).email = requests[r].email /\ Moved(r, pc).of = requests[r].of
         /\ Moved(r, pc).at = requests[r].at /\ Moved(r, pc).account = requests[r].account
         /\ Moved(r, pc).status = requests[r].status /\ Moved(r, pc).data = requests[r].data
         /\ Moved(r, pc).retired = requests[r].retired
<1> DEFINE q == requests[r]
           p == Moved(r, pc)
<1>1. q \in RequestState  BY StateType
<1>2. p = [op |-> q.op, pc |-> pc, token |-> q.token, email |-> q.email, of |-> q.of,
           at |-> q.at, account |-> q.account, status |-> q.status, data |-> q.data,
           retired |-> q.retired]
  BY <1>1 DEF Moved, RequestState
<1>3. p \in RequestState
  <2> HIDE DEF p
  <2> QED  BY <1>1, <1>2 DEF RequestState
<1> HIDE DEF p
<1> QED  BY <1>2, <1>3 DEF p

LEMMA RegisterChecksKeeps ==
  ASSUME IInv, NEW r \in Request, RegisterChecks(r), UNCHANGED facts
  PROVE  IInv'
<1> DEFINE p == Moved(r, "insert")
<1>1. In(r, "started") /\ requests[r].op = "register"  BY DEF RegisterChecks
<1>2. ~In(r, "idle") /\ ~In(r, "done") /\ ~In(r, "bound") /\ requests[r].pc \in Early
  BY <1>1 DEF In, Early
<1>3. CASE Refuse(r, 409)  BY <1>2, <1>3, RefuseKeeps DEF Status
<1>4. CASE Set(r, p) /\ UNCHANGED <<clock, accounts, users, sessions, issued, lock>>
  <2>1. Progress(r) /\ Presents(r)  BY DEF IInv, Holds
  <2>2. /\ p \in RequestState /\ p.pc = "insert" /\ p.op = requests[r].op
        /\ p.token = requests[r].token /\ p.email = requests[r].email
        /\ p.account = requests[r].account /\ p.status = requests[r].status
        /\ p.retired = requests[r].retired
    BY MovedIs DEF IInv, Early
  <2> HIDE DEF p
  <2>3. requests'[r] = p  BY <1>4 DEF Set, IInv, Typed
  <2>4. p.status = Unanswered /\ p.account = Nothing  BY <1>1, <1>2, <2>1, <2>2 DEF Progress
  <2>5. /\ \A pc \in Early \cup {"bound", "done"} : pc # "insert" => ~In(r, pc)'
        /\ ~Admitted(r)' /\ ~Served(r)'
    BY <2>2, <2>3 DEF In, Admitted, Served
  <2>6. Progress(r)'
    BY <1>1, <2>1, <2>2, <2>3, <2>4, <2>5 DEF Progress, Early
  <2>7. Presents(r)'
    BY <1>4, <2>1, <2>2, <2>3, <2>5 DEF Presents, WithToken, Early
  <2>8. lock' \in [Id -> Request \cup {Nothing}] /\ \A id \in Id : lock'[id] = lock[id]
    BY <1>4 DEF IInv, Typed, TypeOK
  <2> QED
    BY <1>2, <1>4, <2>2, <2>4, <2>6, <2>7, <2>8, MoveKeeps DEF Early
<1> QED  BY <1>3, <1>4 DEF RegisterChecks

LEMMA FindAccountKeeps ==
  ASSUME IInv, NEW r \in Request, FindAccount(r), UNCHANGED facts
  PROVE  IInv'
<1> USE DEF IInv
<1> DEFINE row == Owner(requests[r].account)
           p == [Moved(r, "serve") EXCEPT !.account = row, !.at = 0]
<1>1. /\ In(r, "account") /\ Set(r, p)
      /\ UNCHANGED <<clock, accounts, users, sessions, issued, lock>>
  BY DEF FindAccount
<1>2. Progress(r) /\ Presents(r)  BY DEF Holds
<1>3. PICK s \in issued : s.token = requests[r].token /\ s.account = requests[r].account
  BY <1>1, <1>2 DEF Progress
<1>4. row \in accounts /\ row.id = s.account /\ row \in Account
  BY <1>3 DEF SessionInv, Owner, Typed, TypeOK
<1> HIDE DEF row
<1>5. /\ p \in RequestState /\ p.pc = "serve" /\ p.op = requests[r].op
      /\ p.token = requests[r].token /\ p.email = requests[r].email
      /\ p.account = row /\ p.status = requests[r].status
      /\ p.retired = requests[r].retired
  <2> DEFINE m == Moved(r, "serve")
  <2>1. /\ m \in RequestState /\ m.pc = "serve" /\ m.op = requests[r].op
        /\ m.token = requests[r].token /\ m.email = requests[r].email
        /\ m.status = requests[r].status /\ m.retired = requests[r].retired
    BY MovedIs DEF Early
  <2>2. p = [m EXCEPT !.account = row, !.at = 0]  OBVIOUS
  <2> HIDE DEF m, p
  <2>3. p = [op |-> m.op, pc |-> m.pc, token |-> m.token, email |-> m.email, of |-> m.of,
             at |-> 0, account |-> row, status |-> m.status, data |-> m.data,
             retired |-> m.retired]
    BY <2>1, <2>2 DEF RequestState
  <2>4. p \in RequestState  BY <1>4, <2>1, <2>3 DEF RequestState
  <2> QED  BY <2>1, <2>3, <2>4
<1> HIDE DEF p
<1>6. requests'[r] = p  BY <1>1 DEF Set, Typed
<1>7. /\ \A pc \in Early \cup {"bound", "done"} : pc # "serve" => ~In(r, pc)'
      /\ Admitted(r)' /\ ~Served(r)'
  BY <1>5, <1>6 DEF In, Admitted, Served
<1>8. p.status = Unanswered /\ p.op \notin Anonymous /\ requests[r].pc \in Early
  BY <1>1, <1>2, <1>5 DEF Progress, In, Early
<1>9. Progress(r)'
  BY <1>1, <1>2, <1>3, <1>4, <1>5, <1>6, <1>7, <1>8 DEF Progress, Early, Anonymous
<1>10. Presents(r)'
  BY <1>1, <1>2, <1>5, <1>6, <1>7, <1>8 DEF Presents, WithToken, Anonymous
<1>11. lock' \in [Id -> Request \cup {Nothing}] /\ \A id \in Id : lock'[id] = lock[id]
  BY <1>1 DEF Typed, TypeOK
<1> QED
  BY <1>1, <1>5, <1>8, <1>9, <1>10, <1>11, MoveKeeps DEF Early

LEMMA FindSessionKeeps ==
  ASSUME IInv, NEW r \in Request, FindSession(r), UNCHANGED facts
  PROVE  IInv'
<1> DEFINE q == requests[r]
           found == WithToken(q.token)
           dead == {s \in found : Expired(s, q.at)}
           account == (CHOOSE s \in found : TRUE).account
           p == [Moved(r, "account") EXCEPT !.account = account]
<1>1. /\ In(r, "started") /\ q.op \notin Anonymous
      /\ UNCHANGED <<clock, accounts, users, issued, lock, facts>>
      /\ IF found \ dead = {}
         THEN sessions' \subseteq sessions /\ Answer(r, 401, Nothing)
         ELSE Set(r, p) /\ UNCHANGED sessions
  BY DEF FindSession, Without
<1>2. ~In(r, "idle") /\ ~In(r, "done") /\ ~In(r, "bound") /\ q.pc \in Early
  BY <1>1 DEF In, Early
<1>3. Progress(r) /\ Presents(r)  BY DEF IInv, Holds
<1>4. CASE found \ dead = {}
  <2>1. 401 \in Status  BY DEF Status
  <2>2. Replies(r, 401, Nothing)
    BY <1>1, <1>2, <1>4 DEF Replies, IInv, Typed, TypeOK
  <2> QED  BY <2>1, <2>2, ReplyKeeps
<1>5. CASE found \ dead # {}
  <2>1. PICK s \in found : s \notin dead  BY <1>5
  <2>2. s \in sessions /\ s \in issued /\ s.token = q.token
    BY <2>1 DEF WithToken, IInv, Typed, TypeOK
  <2>3. found = {s}  BY <2>1, <2>2 DEF WithToken, IInv, Typed, TypeOK, SessionInv
  <2>4. account = s.account  BY <2>3
  <2>5. s.account \in Id /\ s.expires \in Nat  BY <2>2 DEF IInv, Typed, TypeOK, Session
  <2>6. q.at \in Nat  BY StateType DEF IInv, RequestState
  <2>7. q.at < s.expires  BY <2>1, <2>5, <2>6 DEF Expired
  <2>8. ~q.retired  BY <1>3, <2>3 DEF Presents
  <2> DEFINE m == Moved(r, "account")
  <2>9. /\ m \in RequestState /\ m.pc = "account" /\ m.op = q.op /\ m.token = q.token
        /\ m.email = q.email /\ m.at = q.at /\ m.status = q.status /\ m.retired = q.retired
    BY MovedIs DEF IInv, Early
  <2>10. p = [m EXCEPT !.account = s.account]  BY <2>4
  <2> HIDE DEF account, m, p
  <2>11. /\ p \in RequestState /\ p.pc = "account" /\ p.op = q.op /\ p.token = q.token
         /\ p.email = q.email /\ p.at = q.at /\ p.status = q.status /\ p.retired = q.retired
         /\ p.account = s.account
    BY <2>5, <2>9, <2>10 DEF RequestState
  <2>12. Set(r, p) /\ UNCHANGED sessions  BY <1>1, <1>5
  <2>13. requests'[r] = p  BY <2>12 DEF Set, IInv, Typed
  <2>14. /\ \A pc \in Early \cup {"bound", "done"} : pc # "account" => ~In(r, pc)'
         /\ ~Admitted(r)' /\ ~Served(r)'
    BY <2>11, <2>13 DEF In, Admitted, Served
  <2>15. p.status = Unanswered  BY <1>2, <1>3, <2>11 DEF Progress
  <2>16. Progress(r)'
    BY <1>1, <1>3, <2>2, <2>7, <2>11, <2>13, <2>14, <2>15 DEF Progress, Early, Anonymous
  <2>17. Presents(r)'
    BY <1>1, <1>3, <2>8, <2>11, <2>12, <2>13, <2>14, <2>15 DEF Presents, WithToken, Anonymous
  <2>18. lock' \in [Id -> Request \cup {Nothing}] /\ \A id \in Id : lock'[id] = lock[id]
    BY <1>1 DEF IInv, Typed, TypeOK
  <2> QED
    BY <1>1, <1>2, <2>11, <2>12, <2>15, <2>16, <2>17, <2>18, MoveKeeps DEF Early
<1> QED  BY <1>4, <1>5

LEMMA SetupReadsKeeps ==
  ASSUME IInv, NEW r \in Request, SetupReads(r), UNCHANGED facts
  PROVE  IInv'
<1> DEFINE id == requests[r].account.id
           p == Moved(r, "bind")
<1>1. In(r, "serve") /\ Unlocked(id)  BY DEF SetupReads
<1>2. /\ requests[r].pc \in Early /\ Admitted(r) /\ ~In(r, "bound")
      /\ requests[r].account \in Account /\ id \in Id
      /\ ~In(r, "idle") /\ ~In(r, "done")
  BY <1>1, ServingIs, AdmittedIs DEF In, Early
<1>3. CASE Refuse(r, 409)  BY <1>2, <1>3, RefuseKeeps DEF Status
<1>4. ASSUME Owner(id).user = Nothing, lock' = [lock EXCEPT ![id] = r], Set(r, p),
             UNCHANGED <<clock, accounts, users, sessions, issued>>
      PROVE  IInv'
  <2>1. Progress(r) /\ Presents(r)  BY DEF IInv, Holds
  <2>2. /\ p \in RequestState /\ p.pc = "bind" /\ p.op = requests[r].op
        /\ p.token = requests[r].token /\ p.email = requests[r].email
        /\ p.account = requests[r].account /\ p.status = requests[r].status
        /\ p.retired = requests[r].retired
    BY MovedIs DEF IInv, Early
  <2> HIDE DEF p
  <2>3. requests'[r] = p  BY <1>4 DEF Set, IInv, Typed
  <2>4. p.status = Unanswered  BY <1>2, <2>1, <2>2 DEF Progress
  <2>5. /\ \A pc \in Early \cup {"bound", "done"} : pc # "bind" => ~In(r, pc)'
        /\ Admitted(r)' /\ ~Served(r)'
    BY <2>2, <2>3 DEF In, Admitted, Served
  <2>6. \A a \in accounts : a.id = id => a.user = Nothing
    BY <1>4 DEF Owner, IInv, AccountInv
  <2>7. lock'[id] = r  BY <1>2, <1>4 DEF IInv, Typed, TypeOK
  <2>8. Progress(r)'
    BY <1>2, <1>4, <2>1, <2>2, <2>3, <2>4, <2>5, <2>6, <2>7 DEF Progress, Early, Anonymous
  <2>9. Presents(r)'
    BY <1>2, <1>4, <2>1, <2>2, <2>3, <2>4, <2>5, AdmittedIs DEF Presents, WithToken, Anonymous
  <2>10. /\ lock' \in [Id -> Request \cup {Nothing}]
         /\ \A i \in Id : lock'[i] = lock[i] \/ lock[i] \in {Nothing, r}
    BY <1>1, <1>2, <1>4 DEF Unlocked, IInv, Typed, TypeOK
  <2> QED
    BY <1>2, <1>4, <2>2, <2>4, <2>8, <2>9, <2>10, MoveKeeps DEF Early
<1> QED  BY <1>3, <1>4 DEF SetupReads

\* A setup that is refused, and a reply that is lost, give the account free.
LEMMA SetupRefusedKeeps ==
  ASSUME IInv, NEW r \in Request, SetupRefused(r), UNCHANGED facts
  PROVE  IInv'
<1> DEFINE id == requests[r].account.id
<1>1. In(r, "bind") /\ Admitted(r) /\ ~In(r, "bound")  BY DEF SetupRefused, Admitted, In
<1>2. id \in Id /\ lock[id] = r  BY <1>1, AdmittedIs DEF IInv, Holds, Progress
<1>3. /\ lock' \in [Id -> Request \cup {Nothing}]
      /\ \A i \in Id : lock'[i] = lock[i] \/ lock[i] \in {Nothing, r}
  BY <1>2 DEF SetupRefused, IInv, Typed, TypeOK
<1>4. 422 \in Status  BY DEF Status
<1>5. Replies(r, 422, Nothing)
  BY <1>1, <1>3, AdmittedIs DEF SetupRefused, Replies
<1> QED  BY <1>4, <1>5, ReplyKeeps

LEMMA LoseKeeps ==
  ASSUME IInv, NEW r \in Request, Lose(r)
  PROVE  IInv'
<1>1. ~In(r, "idle") /\ ~In(r, "done")  BY DEF Lose, In
<1>2. DOMAIN lock = Id  BY DEF IInv, Typed, TypeOK
<1>3. /\ lock' \in [Id -> Request \cup {Nothing}]
      /\ \A i \in Id : lock'[i] = lock[i] \/ lock[i] \in {Nothing, r}
  BY <1>2 DEF Lose, IInv, Typed, TypeOK
<1>4. Lost \in Status /\ Lost # 200 /\ Lost \notin {401, 404, 409, 422}  BY DEF Status, Lost
<1>5. Replies(r, Lost, Nothing)
  BY <1>1, <1>3, <1>4 DEF Lose, Replies
<1> QED  BY <1>4, <1>5, ReplyKeeps

LEMMA LogoutKeeps ==
  ASSUME IInv, NEW r \in Request, Logout(r), UNCHANGED facts
  PROVE  IInv'
<1>1. ~In(r, "idle") /\ ~In(r, "done") /\ ~In(r, "bound")  BY DEF Logout, In
<1>2. sessions' \subseteq sessions /\ sessions' = sessions \ WithToken(requests[r].token)
  BY DEF Logout, Without
<1>3. requests'[r].token = requests[r].token  BY AnswerIs DEF Logout, IInv, Status
<1>4. WithToken(requests[r].token)' = {}  BY <1>2, <1>3 DEF WithToken
<1>5. 200 \in Status  BY DEF Status
<1>6. Replies(r, 200, Nothing)
  BY <1>1, <1>2, <1>4 DEF Logout, Replies, IInv, Typed, TypeOK
<1> QED  BY <1>5, <1>6, ReplyKeeps

LEMMA StartKeeps ==
  ASSUME IInv, NEW r \in Request, Start(r)
  PROVE  IInv'
<1> USE DEF IInv
<1>1. PICK op \in Operation :
        \E token \in IF op = "register" THEN {Nothing} ELSE Cookie,
           email \in IF op \in {"register", "login"} THEN Email ELSE {Nothing},
           of \in Nameable(op) :
          Set(r, [Fresh EXCEPT !.op = op, !.pc = "started", !.token = token, !.email = email,
                               !.of = of, !.at = clock,
                               !.retired = token # Nothing /\ token \in Retired])
  BY DEF Start
<1>2. PICK token \in Cookie, email \in Email \cup {Nothing}, of \in Nameable(op) :
        /\ op \in {"register", "login"} => email \in Email
        /\ Set(r, [Fresh EXCEPT !.op = op, !.pc = "started", !.token = token, !.email = email,
                                !.of = of, !.at = clock,
                                !.retired = token # Nothing /\ token \in Retired])
  BY <1>1 DEF Cookie
<1>3. In(r, "idle") /\ UNCHANGED <<clock, accounts, users, sessions, issued, lock, facts>>
  BY DEF Start, Unchanged
<1>4. token # Nothing => \E s \in issued : s.token = token  BY DEF Cookie
<1>5. token \in Id \cup {Nothing}  BY <1>4 DEF Typed, TypeOK, Session
<1>6. of \in Id \cup {Nothing}
  <2>1. (\A a \in accounts : a.id \in Id) /\ users \subseteq Id  BY DEF Typed, TypeOK, Account
  <2>2. CASE op \in OfAccount  BY <2>1, <2>2 DEF Nameable, OfAccount, PathOps
  <2>3. CASE op \in PathOps  BY <2>1, <2>3 DEF Nameable, OfAccount, PathOps
  <2>4. CASE op \notin OfAccount \cup PathOps  BY <2>1, <2>4 DEF Nameable
  <2> QED  BY <2>2, <2>3, <2>4
<1>7. clock \in Nat  BY SessionAssumption DEF Typed, TypeOK
<1> DEFINE gone == token # Nothing /\ token \in Retired
           p == [op |-> op, pc |-> "started", token |-> token, email |-> email, of |-> of,
                 at |-> clock, account |-> Nothing, status |-> Unanswered, data |-> Nothing,
                 retired |-> gone]
<1>8. Set(r, p)
  <2>1. Set(r, [Fresh EXCEPT !.op = op, !.pc = "started", !.token = token, !.email = email,
                             !.of = of, !.at = clock, !.retired = gone])
    BY <1>2
  <2> HIDE DEF gone
  <2>2. [Fresh EXCEPT !.op = op, !.pc = "started", !.token = token, !.email = email,
                      !.of = of, !.at = clock, !.retired = gone] = p
    <3>1. /\ Fresh \in RequestState /\ Fresh.account = Nothing /\ Fresh.status = Unanswered
          /\ Fresh.data = Nothing
      BY DEF Fresh, RequestState, Early, Status
    <3>2. PICK f : f \in RequestState /\ f = Fresh  BY <3>1
    <3> HIDE DEF p
    <3>3. PICK n : n = [f EXCEPT !.op = op, !.pc = "started", !.token = token, !.email = email,
                                 !.of = of, !.at = clock, !.retired = gone]
      OBVIOUS
    <3>4. n = [op |-> op, pc |-> "started", token |-> token, email |-> email, of |-> of,
               at |-> clock, account |-> f.account, status |-> f.status, data |-> f.data,
               retired |-> gone]
      BY <3>2, <3>3 DEF RequestState
    <3> QED  BY <3>1, <3>2, <3>3, <3>4 DEF p
  <2> HIDE DEF p
  <2> QED  BY <2>1, <2>2
<1>9. p \in RequestState  BY <1>5, <1>6, <1>7 DEF RequestState, Early, Status
<1>10. /\ p.pc = "started" /\ p.op = op /\ p.token = token /\ p.email = email
       /\ p.account = Nothing /\ p.status = Unanswered
       /\ p.retired = (token # Nothing /\ token \in Retired)
  OBVIOUS
<1> HIDE DEF p
<1>11. requests'[r] = p  BY <1>8 DEF Set, Typed
<1>12. /\ \A pc \in Early \cup {"bound", "done"} : pc # "started" => ~In(r, pc)'
       /\ ~Admitted(r)' /\ ~Served(r)'
  BY <1>10, <1>11 DEF In, Admitted, Served
<1>13. Progress(r)'
  BY <1>2, <1>10, <1>11, <1>12 DEF Progress, Early
<1>14. token \in Retired => WithToken(token) = {}  BY DEF Retired, Holds, Presents
<1>15. WithToken(token)' = WithToken(token)  BY <1>3 DEF WithToken
<1>16. Presents(r)'
  <2>1. requests'[r].token = token  BY <1>10, <1>11
  <2>2. p.retired => WithToken(requests[r].token)' = {}
    BY <1>3, <1>10, <1>14, <2>1 DEF WithToken
  <2>3. requests'[r].status # 200  BY <1>10, <1>11 DEF Unanswered
  <2> QED  BY <1>3, <1>4, <1>11, <1>12, <2>1, <2>2, <2>3 DEF Presents, Early
<1>17. lock' \in [Id -> Request \cup {Nothing}] /\ \A id \in Id : lock'[id] = lock[id]
  BY <1>3 DEF Typed, TypeOK
<1>18. requests[r].pc \in Early /\ p.pc \in Early \ {"idle"}
  BY <1>3, <1>10 DEF In, Early
<1> QED
  BY <1>3, <1>8, <1>9, <1>10, <1>13, <1>16, <1>17, <1>18, MoveKeeps

(***************************************************************************)
(* The steps that open sessions and bind a portfolio.                      *)
(***************************************************************************)

\* The session r opens has a token nobody has been given, and no request names it.
LEMMA OpenedIs ==
  ASSUME IInv, NEW r \in Request, requests[r].pc \in Early, NEW account \in Id
  PROVE  /\ Opened(r, account) \in Session
         /\ Opened(r, account).token = r /\ Opened(r, account).account = account
         /\ \A s \in issued : s.token # r
         /\ requests[r].token # r
<1>1. requests[r].at + Lifetime \in Nat
  <2>1. requests[r].at \in Nat  BY StateType DEF IInv, RequestState
  <2> QED  BY <2>1, SessionAssumption
<1>2. Leaves(r) /\ Presents(r)  BY DEF IInv, Holds
<1>3. \A s \in issued : s.token # r  BY <1>2 DEF Leaves, Left
<1>4. requests[r].token # r  BY <1>2, <1>3, Names DEF Presents
<1> QED  BY <1>1, <1>3, <1>4, Names DEF Opened, Session

\* A request that registered an account or opened a session for one is answered 200.
LEMMA OpeningKeeps ==
  ASSUME IInv, NEW r \in Request, In(r, "started") \/ In(r, "insert"),
         NEW account \in Id, Answer(r, 200, account),
         issued' = issued \cup {Opened(r, account)},
         \/ requests[r].op = "register" /\ sessions' = sessions \cup {Opened(r, account)}
         \/ sessions' = Without(requests[r].token) \cup {Opened(r, account)},
         \A a \in accounts : a \in accounts',
         \A b \in accounts' : b \in accounts \/ (b.id = r /\ b.user = Nothing),
         accounts' \subseteq Account, AccountInv', \E a \in accounts' : a.id = account,
         UNCHANGED <<clock, users, lock, facts>>
  PROVE  IInv'
<1> USE DEF IInv
<1> DEFINE q == requests[r]
           new == Opened(r, account)
<1>1. Progress(r) /\ Presents(r) /\ Leaves(r)  BY DEF Holds
<1>2. q.pc \in Early /\ ~In(r, "done") /\ ~In(r, "idle") /\ q.account = Nothing
  BY <1>1 DEF In, Early, Progress
<1>3. /\ new \in Session /\ new.token = r /\ new.account = account
      /\ \A s \in issued : s.token # r
      /\ q.token # r
  BY <1>2, OpenedIs
<1> HIDE DEF new
<1>4. 200 \in Status  BY DEF Status
<1>5. /\ requests' \in [Request -> RequestState]
      /\ requests'[r].pc = "done" /\ requests'[r].status = 200
      /\ requests'[r].op = q.op /\ requests'[r].token = q.token
      /\ requests'[r].email = q.email /\ requests'[r].account = Nothing
      /\ requests'[r].retired = q.retired
      /\ \A p \in Request \ {r} : requests'[p] = requests[p]
  BY <1>2, <1>4, AnswerIs
<1>6. By(r)
  <2>1. \A a \in accounts : Becomes(a, a, r)  BY DEF Becomes
  <2>2. sessions \subseteq issued  BY DEF Typed, TypeOK
  <2>3. \A s \in sessions' : s \in sessions \/ s = new  BY DEF Without, new
  <2> QED  BY <1>3, <1>5, <2>1, <2>3 DEF By, new
<1>7. Typed'
  <2>1. sessions' \subseteq issued'  BY DEF Typed, TypeOK, Without
  <2>2. issued' \subseteq Session  BY <1>3 DEF Typed, TypeOK, new
  <2>3. \A p \in Request : requests'[p].status \in Status  BY <1>5 DEF RequestState
  <2> QED  BY <1>5, <2>1, <2>2, <2>3 DEF Typed, TypeOK
<1>8. SessionInv'
  <2>1. \A s \in issued' : s \in issued \/ s = new  BY DEF new
  <2>2. \A s, t \in issued' : s.token = t.token => s = t
    BY <1>3, <2>1 DEF SessionInv
  <2>3. \A s \in issued' : \E a \in accounts' : a.id = s.account
    BY <1>3, <2>1 DEF SessionInv
  <2> QED  BY <2>2, <2>3 DEF SessionInv
<1>9. /\ \A pc \in Early \cup {"bound"} : ~In(r, pc)'
      /\ ~Admitted(r)' /\ In(r, "done")' /\ ~Served(r)'
  BY <1>5, Names DEF In, Admitted, Early, Served
<1>10. Progress(r)'  BY <1>1, <1>5, <1>9 DEF Progress, Early
<1>11. Presents(r)'
  <2>1. requests'[r].token # Nothing => \E s \in issued' : s.token = requests'[r].token
    BY <1>1, <1>5 DEF Presents
  <2>2. q.retired => WithToken(q.token) = {}  BY <1>1 DEF Presents
  <2>3. q.retired \/ q.op \in {"login", "logout"} => WithToken(requests[r].token)' = {}
    BY <1>3, <1>5, <2>2 DEF WithToken, Without, new
  <2> QED  BY <1>5, <1>9, <2>1, <2>3 DEF Presents, Early
<1>12. Leaves(r)'
  <2>1. requests'[r].pc \notin Early  BY <1>5 DEF Early
  <2> QED  BY <1>5, <1>9, <2>1 DEF Leaves
<1>13. Holds(r)'  BY <1>10, <1>11, <1>12 DEF Holds
<1> QED  BY <1>6, <1>7, <1>8, <1>13, OneRequestMoves

LEMMA LoginKeeps ==
  ASSUME IInv, NEW r \in Request, Login(r), UNCHANGED facts
  PROVE  IInv'
<1>1. PICK a \in accounts :
        /\ sessions' = Without(requests[r].token) \cup {Opened(r, a.id)}
        /\ issued' = issued \cup {Opened(r, a.id)}
        /\ Answer(r, 200, a.id)
  BY DEF Login, Named
<1>2. In(r, "started") /\ UNCHANGED <<clock, accounts, users, lock, facts>>  BY DEF Login
<1>3. a.id \in Id /\ accounts \subseteq Account  BY DEF IInv, Typed, TypeOK, Account
<1>4. AccountInv'  BY <1>2 DEF IInv, AccountInv
<1>5. \E b \in accounts' : b.id = a.id  BY <1>2
<1> QED  BY <1>1, <1>2, <1>3, <1>4, <1>5, OpeningKeeps

LEMMA RegisterInsertsKeeps ==
  ASSUME IInv, NEW r \in Request, RegisterInserts(r), UNCHANGED facts
  PROVE  IInv'
<1> DEFINE q == requests[r]
<1>1. In(r, "insert")  BY DEF RegisterInserts
<1>2. /\ Progress(r) /\ Leaves(r) /\ r \in Id /\ r # Nothing
  BY Names DEF IInv, Holds
<1>3. q.op = "register" /\ q.email \in Email /\ ~Left(r) /\ q.pc \in Early
  BY <1>1, <1>2 DEF Progress, Leaves, In, Early
<1>4. ~In(r, "idle") /\ ~In(r, "done") /\ ~In(r, "bound")  BY <1>1 DEF In
<1>5. CASE Refuse(r, 409)  BY <1>4, <1>5, RefuseKeeps DEF Status
<1> DEFINE new == [id |-> r, email |-> q.email, user |-> Nothing]
<1>6. ASSUME ~Taken(q.email), accounts' = accounts \cup {new},
             sessions' = sessions \cup {Opened(r, r)}, issued' = issued \cup {Opened(r, r)},
             Answer(r, 200, r), UNCHANGED <<clock, users, lock>>
      PROVE  IInv'
  <2>1. new \in Account /\ new.id = r /\ new.email = q.email /\ new.user = Nothing
    BY <1>2, <1>3 DEF Account
  <2> HIDE DEF new
  <2>2. \A a \in accounts : a.id # r /\ a.email # q.email
    BY <1>3, <1>6 DEF Left, Taken, Named
  <2>3. accounts' \subseteq Account  BY <1>6, <2>1 DEF IInv, Typed, TypeOK
  <2>4. AccountInv'
    <3>1. \A a \in accounts' : a \in accounts \/ a = new  BY <1>6
    <3>2. \A a, b \in accounts' :
            a.id = b.id \/ a.email = b.email \/ (a.user = b.user /\ a.user # Nothing) => a = b
      BY <2>1, <2>2, <3>1 DEF IInv, AccountInv
    <3>3. \A u \in users' : \E a \in accounts' : a.user = u
      BY <1>6 DEF IInv, AccountInv
    <3>4. \A a \in accounts' : a.user \in users' \cup {Nothing}
      BY <1>6, <2>1, <3>1 DEF IInv, AccountInv
    <3> QED  BY <3>2, <3>3, <3>4 DEF AccountInv
  <2>5. new \in accounts'  BY <1>6
  <2>6. \A b \in accounts' : b \in accounts \/ (b.id = r /\ b.user = Nothing)
    BY <1>6, <2>1
  <2>7. \A a \in accounts : a \in accounts'  BY <1>6
  <2>8. \E a \in accounts' : a.id = r  BY <2>1, <2>5
  <2> QED  BY <1>1, <1>2, <1>3, <1>6, <2>3, <2>4, <2>6, <2>7, <2>8, OpeningKeeps
<1> QED  BY <1>5, <1>6 DEF RegisterInserts

LEMMA SetupBindsKeeps ==
  ASSUME IInv, NEW r \in Request, SetupBinds(r), UNCHANGED facts
  PROVE  IInv'
<1> USE DEF IInv
<1> DEFINE q == requests[r]
           id == q.account.id
           set(a) == IF a.id = id /\ a.user = Nothing THEN [a EXCEPT !.user = r] ELSE a
           p == Moved(r, "bound")
<1>1. /\ In(r, "bind") /\ Set(r, p)
      /\ users' = users \cup {r} /\ accounts' = {set(a) : a \in accounts}
      /\ lock' = [lock EXCEPT ![id] = Nothing]
      /\ UNCHANGED <<clock, sessions, issued, facts>>
  BY DEF SetupBinds
<1>2. Progress(r) /\ Presents(r) /\ Leaves(r)  BY DEF Holds
<1>3. Admitted(r) /\ q.pc \in Early /\ ~In(r, "done") /\ ~Left(r)
  BY <1>1, <1>2 DEF Admitted, In, Early, Leaves
<1>4. /\ q.account \in Account /\ id \in Id /\ lock[id] = r
      /\ \A a \in accounts : a.id = id => a.user = Nothing
      /\ q.op \notin Anonymous
  BY <1>1, <1>2, <1>3, AdmittedIs DEF Progress
<1>5. PICK s \in issued : s.token = q.token /\ s.account = id  BY <1>2, <1>3 DEF Progress
<1>6. \A a \in accounts :
        /\ a \in Account /\ set(a) \in Account
        /\ set(a).id = a.id /\ set(a).email = a.email
        /\ a.id = id => set(a).user = r
        /\ a.id # id => set(a) = a
  BY <1>4, Names DEF Typed, TypeOK, Account
<1> HIDE DEF set
<1>7. \A a \in accounts : Becomes(a, set(a), r)
  BY <1>4, <1>6 DEF Becomes
<1>8. p \in RequestState /\ p.pc = "bound" /\ p.op = q.op /\ p.token = q.token
      /\ p.email = q.email /\ p.account = q.account /\ p.status = q.status
      /\ p.retired = q.retired
  <2>1. q \in RequestState  BY StateType
  <2>2. p = [q EXCEPT !.pc = "bound"]  BY DEF Moved
  <2> HIDE DEF p
  <2> QED  BY <2>1, <2>2 DEF RequestState
<1> HIDE DEF p
<1>9. /\ requests' \in [Request -> RequestState] /\ requests'[r] = p
      /\ \A x \in Request \ {r} : requests'[x] = requests[x]
  BY <1>1, <1>8 DEF Set, Typed
<1>10. By(r)
  <2>1. \A a \in accounts : set(a) \in accounts'  BY <1>1
  <2>2. \A b \in accounts' : \E a \in accounts : b = set(a)  BY <1>1
  <2>3. \A i \in Id : lock'[i] = lock[i] \/ lock[i] \in {Nothing, r}
    BY <1>1, <1>4 DEF Typed, TypeOK
  <2> QED  BY <1>1, <1>7, <1>9, <2>1, <2>2, <2>3 DEF By
<1>11. Typed'
  <2>1. accounts' \subseteq Account  BY <1>1, <1>6
  <2>2. users' \subseteq Id  BY <1>1, Names DEF Typed, TypeOK
  <2>3. \A x \in Request : requests'[x].status \in Status  BY <1>9 DEF RequestState
  <2>4. lock' \in [Id -> Request \cup {Nothing}]  BY <1>1 DEF Typed, TypeOK
  <2> QED  BY <1>1, <1>9, <2>1, <2>2, <2>3, <2>4 DEF Typed, TypeOK
<1>12. PICK a0 \in accounts : a0.id = id  BY <1>5 DEF SessionInv
<1>13. AccountInv'
  <2>1. \A a \in accounts : a.user # r  BY <1>3 DEF Left
  <2>2. ASSUME NEW a \in accounts, NEW b \in accounts,
               set(a).id = set(b).id \/ set(a).email = set(b).email
                 \/ (set(a).user = set(b).user /\ set(a).user # Nothing)
        PROVE  a = b
    <3>1. a.id = b.id \/ a.email = b.email => a = b  BY DEF AccountInv
    <3>2. CASE a.id = id /\ b.id = id  BY <3>1, <3>2
    <3>3. CASE a.id # id /\ b.id # id  BY <1>6, <2>2, <3>3 DEF AccountInv
    <3>4. CASE a.id = id /\ b.id # id  BY <1>6, <2>1, <2>2, <3>1, <3>4
    <3>5. CASE a.id # id /\ b.id = id  BY <1>6, <2>1, <2>2, <3>1, <3>5
    <3> QED  BY <3>2, <3>3, <3>4, <3>5
  <2>3. ASSUME NEW u \in users'  PROVE \E b \in accounts' : b.user = u
    <3>1. CASE u = r  BY <1>1, <1>6, <1>12, <3>1
    <3>2. CASE u \in users
      <4>1. PICK a \in accounts : a.user = u  BY <3>2 DEF AccountInv
      <4>2. u # Nothing  BY <3>2, Names DEF Typed, TypeOK
      <4>3. set(a) = a  BY <1>4, <1>6, <4>1, <4>2
      <4> QED  BY <1>1, <4>1, <4>3
    <3> QED  BY <1>1, <3>1, <3>2
  <2>4. \A a \in accounts : set(a).user \in users \cup {r, Nothing}
    BY <1>6 DEF AccountInv
  <2> QED  BY <1>1, <2>2, <2>3, <2>4 DEF AccountInv
<1>14. SessionInv'
  <2>1. ASSUME NEW t \in issued  PROVE \E b \in accounts' : b.id = t.account
    <3>1. PICK a \in accounts : a.id = t.account  BY DEF SessionInv
    <3> QED  BY <1>1, <1>6, <3>1
  <2> QED  BY <1>1, <2>1 DEF SessionInv
<1>15. /\ \A pc \in Early \cup {"done"} : ~In(r, pc)'
       /\ Admitted(r)' /\ In(r, "bound")' /\ ~Served(r)'
  BY <1>8, <1>9 DEF In, Admitted, Early, Served
<1>16. Progress(r)'
  <2>1. \E b \in accounts' : b.id = id /\ b.user = r  BY <1>1, <1>6, <1>12
  <2>2. p.status = Unanswered  BY <1>2, <1>3, <1>8 DEF Progress
  <2> QED  BY <1>1, <1>2, <1>4, <1>5, <1>8, <1>9, <1>15, <2>1, <2>2 DEF Progress, Early, Anonymous
<1>17. Presents(r)'
  BY <1>1, <1>2, <1>3, <1>4, <1>8, <1>9, <1>15 DEF Presents, WithToken, Anonymous
<1>18. Leaves(r)'
  <2>1. p.pc \notin Early /\ p.status = Unanswered
    BY <1>2, <1>3, <1>8 DEF Progress, Early
  <2>2. \A f \in facts : f.by # r  BY <1>3 DEF Left
  <2> QED  BY <1>1, <1>9, <1>15, <2>1, <2>2 DEF Leaves, Unanswered
<1>19. Holds(r)'  BY <1>16, <1>17, <1>18 DEF Holds
<1> QED  BY <1>10, <1>11, <1>13, <1>14, <1>19, OneRequestMoves

(***************************************************************************)
(* The whole.                                                              *)
(***************************************************************************)

LEMMA InitInv == Init => IInv
<1> SUFFICES ASSUME Init PROVE IInv
  OBVIOUS
<1> DEFINE row(e, set) == [id |-> e, email |-> e, user |-> IF e \in set THEN e ELSE Nothing]
<1>0. PICK old \in SUBSET Email : \E set, in \in SUBSET old :
        /\ accounts = {row(e, set) : e \in old}
        /\ users = set
        /\ sessions \in {{[token |-> e, account |-> e, expires |-> t] : e \in in} : t \in 1..Lifetime}
  BY DEF Init
<1> HIDE DEF row
<1>1. PICK set \in SUBSET old, in \in SUBSET old, t \in 1..Lifetime :
        /\ accounts = {row(e, set) : e \in old}
        /\ users = set
        /\ sessions = {[token |-> e, account |-> e, expires |-> t] : e \in in}
  BY <1>0
<1>2. /\ clock = 0 /\ issued = sessions /\ lock = [id \in Id |-> Nothing]
      /\ requests = [r \in Request |-> Fresh] /\ facts = {}
  BY DEF Init
<1>3. \A a \in accounts :
        a.id \in old /\ a.email = a.id /\ a.user \in set \cup {Nothing} /\ a \in Account
        /\ (a.user # Nothing => a.user = a.id) /\ a = row(a.id, set)
  <2>1. \A e \in old :
          /\ row(e, set).id = e /\ row(e, set).email = e
          /\ row(e, set).user \in set \cup {Nothing}
          /\ row(e, set).user # Nothing => row(e, set).user = e
          /\ row(e, set) \in Account
    BY Names DEF Account, row
  <2> QED  BY <1>1, <2>1
<1>4. \A e \in old : \E a \in accounts : a.id = e /\ (e \in set => a.user = e)
  <2>1. \A e \in old : row(e, set).id = e /\ (e \in set => row(e, set).user = e)
    BY DEF row
  <2> QED  BY <1>1, <2>1
<1>5. \A s \in sessions : s.token \in in /\ s.account = s.token /\ s.expires = t /\ s \in Session
  <2>1. t \in Nat  BY SessionAssumption
  <2> QED  BY <1>1, <2>1, Names DEF Session
<1>6. /\ Fresh \in RequestState /\ Fresh.pc = "idle" /\ Fresh.op = "none"
      /\ Fresh.token = Nothing /\ Fresh.account = Nothing /\ Fresh.status = Unanswered
      /\ Fresh.retired = FALSE /\ Fresh.data = Nothing
  BY DEF Fresh, RequestState, Early, Status
<1>7. Typed
  <2>1. requests \in [Request -> RequestState]  BY <1>2, <1>6
  <2>2. \A r \in Request : requests[r].status \in Status  BY <1>2, <1>6 DEF Status
  <2>3. lock \in [Id -> Request \cup {Nothing}] /\ facts \subseteq [by : Request, of : Id]
    BY <1>2
  <2>4. clock \in 0..MaxClock  BY <1>2, SessionAssumption
  <2>5. accounts \subseteq Account /\ users \subseteq Id /\ issued \subseteq Session
    BY <1>1, <1>2, <1>3, <1>5, Names
  <2> QED  BY <1>2, <2>1, <2>2, <2>3, <2>4, <2>5 DEF Typed, TypeOK
<1>8. AccountInv
  <2>1. \A a, b \in accounts :
          a.id = b.id \/ a.email = b.email \/ (a.user = b.user /\ a.user # Nothing) => a = b
    BY <1>3
  <2>2. \A u \in users : \E a \in accounts : a.user = u  BY <1>1, <1>4
  <2> QED  BY <1>1, <1>3, <2>1, <2>2 DEF AccountInv
<1>9. SessionInv
  <2>1. \A s, u \in sessions : s.token = u.token => s = u  BY <1>1
  <2>2. \A s \in sessions : \E a \in accounts : a.id = s.account  BY <1>1, <1>4, <1>5
  <2> QED  BY <1>2, <2>1, <2>2 DEF SessionInv
<1>10. ASSUME NEW r \in Request  PROVE Holds(r)
  <2>1. requests[r] = Fresh  BY <1>2
  <2>2. /\ \A pc \in Early \cup {"bound", "done"} : pc # "idle" => ~In(r, pc)
        /\ ~Admitted(r) /\ ~Served(r)
    BY <1>6, <2>1 DEF In, Admitted, Served
  <2>3. ~Left(r)
    <3>1. r \notin Email /\ r # Nothing  BY Names
    <3>2. \A a \in accounts : a.id # r /\ a.user # r  BY <1>3, <3>1
    <3>3. \A s \in issued : s.token # r  BY <1>2, <1>5, <3>1
    <3> QED  BY <1>1, <1>2, <3>1, <3>2, <3>3 DEF Left
  <2>4. Progress(r)  BY <1>6, <2>1, <2>2 DEF Progress, Early
  <2>5. Presents(r)  BY <1>6, <2>1, <2>2 DEF Presents, Early
  <2>6. Leaves(r)  BY <1>2, <2>1, <2>2, <2>3 DEF Leaves
  <2> QED  BY <2>4, <2>5, <2>6 DEF Holds
<1> QED  BY <1>7, <1>8, <1>9, <1>10 DEF IInv

\* A step that touches nothing but the clock.
LEMMA TickKeeps ==
  ASSUME IInv, clock' \in 0..MaxClock,
         UNCHANGED <<accounts, users, sessions, issued, lock, requests, facts>>
  PROVE  IInv'
<1> USE DEF IInv
<1>1. Typed' /\ AccountInv' /\ SessionInv'
  BY DEF Typed, TypeOK, AccountInv, SessionInv
<1>2. ASSUME NEW r \in Request  PROVE Holds(r)'
  <2>1. Progress(r) /\ Presents(r) /\ Leaves(r)  BY DEF Holds
  <2>2. (\A pc : In(r, pc)' <=> In(r, pc)) /\ (Served(r)' <=> Served(r))
    BY DEF In, Served
  <2>3. Admitted(r)' <=> Admitted(r)  BY <2>2 DEF Admitted
  <2>4. Progress(r)'  BY <2>1, <2>2, <2>3 DEF Progress
  <2>5. Presents(r)'  BY <2>1, <2>2, <2>3 DEF Presents, WithToken
  <2>6. Leaves(r)'  BY <2>1, <2>2, <2>3 DEF Leaves, Left, Mine
  <2> QED  BY <2>4, <2>5, <2>6 DEF Holds
<1> QED  BY <1>1, <1>2

LEMMA NextInv == IInv /\ [Next]_vars => IInv'
<1> SUFFICES ASSUME IInv, [Next]_vars PROVE IInv'
  OBVIOUS
<1>1. ASSUME NEW r \in Request, LoginRefused(r), UNCHANGED facts  PROVE IInv'
  <2>1. ~In(r, "idle") /\ ~In(r, "done") /\ ~In(r, "bound") /\ Refuse(r, 401)
    BY <1>1 DEF LoginRefused, In
  <2> QED  BY <1>1, <2>1, RefuseKeeps DEF Status
<1>2. ASSUME NEW r \in Request, UNCHANGED facts,
             \/ RegisterChecks(r) \/ RegisterInserts(r) \/ Login(r) \/ LoginRefused(r) \/ Logout(r)
             \/ FindSession(r) \/ FindAccount(r)
             \/ SetupReads(r) \/ SetupRefused(r) \/ SetupBinds(r)
      PROVE  IInv'
  BY <1>1, <1>2, RegisterChecksKeeps, RegisterInsertsKeeps, LoginKeeps, LogoutKeeps,
     FindSessionKeeps, FindAccountKeeps, SetupReadsKeeps, SetupRefusedKeeps, SetupBindsKeeps
<1>3. CASE Tick
  <2>1. clock' \in 0..MaxClock
    BY <1>3, SessionAssumption DEF Tick, IInv, Typed, TypeOK
  <2> QED  BY <1>3, <2>1, TickKeeps DEF Tick
<1>4. CASE UNCHANGED vars
  BY <1>4, TickKeeps DEF vars, IInv, Typed, TypeOK
<1> QED  BY <1>2, <1>3, <1>4, StartKeeps, LoseKeeps, ServeKeeps DEF Next

LEMMA Invariance == Spec => []IInv
BY InitInv, NextInv, PTL DEF Spec

(***************************************************************************)
(* The theorems.                                                           *)
(***************************************************************************)

\* Rows, locks and answers have the types the code gives them, and no stored session is one
\* that was never issued.
THEOREM RowsAreTyped == Spec => []TypeOK
<1>1. IInv => TypeOK  BY DEF IInv, Typed
<1> QED  BY <1>1, Invariance, PTL

\* However many registrations and setups race, an email has one account, an account one
\* portfolio at most, and every portfolio its one account: the unique key register relies
\* on, and the row lock under which setup_portfolio looks and binds.
THEOREM EmailsAndPortfoliosAreUnique == Spec => []OneAccountOnePortfolio
<1>1. IInv => OneAccountOnePortfolio
  <2> SUFFICES ASSUME IInv PROVE OneAccountOnePortfolio
    OBVIOUS
  <2>1. AccountInv  BY DEF IInv
  <2>2. ASSUME NEW u \in users  PROVE Cardinality({a \in accounts : a.user = u}) = 1
    <3>1. PICK a \in accounts : a.user = u  BY <2>1 DEF AccountInv
    <3>2. u # Nothing  BY Names DEF IInv, Typed, TypeOK
    <3>3. {b \in accounts : b.user = u} = {a}  BY <2>1, <3>1, <3>2 DEF AccountInv
    <3> QED  BY <3>3, FS_Singleton
  <2> QED  BY <2>1, <2>2 DEF AccountInv, OneAccountOnePortfolio
<1> QED  BY <1>1, Invariance, PTL

\* authenticate lets no request in on a session that was over, by logout, by a later login or
\* by its age, when the request was sent, although its two reads are two transactions.
THEOREM AdmissionIsOnLiveSessions == Spec => []OnlyLiveSessionsAreAdmitted
<1>1. IInv => OnlyLiveSessionsAreAdmitted
  <2> SUFFICES ASSUME IInv, NEW r \in Request, In(r, "account") \/ In(r, "serve") \/ Served(r)
               PROVE  /\ ~requests[r].retired
                      /\ \E s \in issued : s.token = requests[r].token
                                           /\ (In(r, "account") => requests[r].at < s.expires)
    BY DEF OnlyLiveSessionsAreAdmitted
  <2>1. Progress(r) /\ Presents(r)  BY DEF IInv, Holds
  <2>2. ~requests[r].retired  BY <2>1 DEF Presents, Admitted
  <2>3. CASE In(r, "account")  BY <2>1, <2>2, <2>3 DEF Progress
  <2>4. CASE ~In(r, "account")  BY <2>1, <2>2, <2>4 DEF Progress, Admitted
  <2> QED  BY <2>3, <2>4
<1> QED  BY <1>1, Invariance, PTL

\* Whatever a request names, and although its account row may be old, it reads and changes
\* data of its own session's account and of nobody else.
THEOREM RequestsSeeTheirOwnData == Spec => []DataIsTheCallers
<1>1. IInv => DataIsTheCallers  BY DEF IInv, Holds, Progress, Leaves, DataIsTheCallers
<1> QED  BY <1>1, Invariance, PTL

\* Of what a request may have written, nothing is there when its client is told 401, 404,
\* 409 or 422 (an answer that fails after its question is stored is the exception).
THEOREM RefusedMeansUnwritten == Spec => []RefusalsWriteNothing
<1>1. IInv => RefusalsWriteNothing  BY DEF IInv, Holds, Leaves, RefusalsWriteNothing
<1> QED  BY <1>1, Invariance, PTL
=============================================================================
