----------------------------- MODULE AuthSessions -----------------------------
(***************************************************************************)
(* Accounts, browser sessions and the binding of an account to its one     *)
(* portfolio: the transactions of AuthService, at READ COMMITTED.          *)
(*                                                                         *)
(* An HTTP request runs as a sequence of short transactions, each of which *)
(* may find what another request has committed since the last one.  Every  *)
(* request is used once, and names what it creates: the account it         *)
(* registers, the token of the session it opens, the portfolio it sets up. *)
(***************************************************************************)
EXTENDS Integers, FiniteSets

CONSTANTS
  Email,
  Request,   \* requests that are yet to come
  Nothing,   \* None
  Lifetime,  \* session_ttl
  MaxClock   \* bound of the model: the last clock reading

ASSUME SessionAssumption ==
  /\ Nothing \notin Email \cup Request /\ Email \cap Request = {}
  /\ Lifetime \in Nat \ {0} /\ MaxClock \in Nat

VARIABLES
  clock,    \* datetime.now(UTC)
  accounts, \* rows of accounts
  users,    \* rows of users, each the head of a portfolio
  sessions, \* rows of auth_sessions
  issued,   \* every session there ever was
  lock,     \* row locks on accounts: the request that holds one, or Nothing
  requests  \* what each request knows

-----------------------------------------------------------------------------
(* Rows.  What was there at the start is named by its email.               *)

Id == Email \cup Request

Account == [id : Id, email : Email, user : Id \cup {Nothing}]
Session == [token : Id, account : Id, expires : Nat]

\* A name is not a row.
ASSUME NameAssumption == (Id \cup {Nothing}) \cap Account = {}

\* What replies are told apart by; 0 before there is one, 1 when it never comes.
Unanswered == 0
Lost == 1
Status == {Unanswered, Lost, 200, 401, 404, 409, 422, 500, 502, 503}

Fresh == [op |-> "none", pc |-> "idle", token |-> Nothing, email |-> Nothing, of |-> Nothing,
          at |-> 0, account |-> Nothing, status |-> Unanswered, data |-> Nothing, retired |-> FALSE]

In(r, pc) == requests[r].pc = pc
Set(r, changes) == requests' = [requests EXCEPT ![r] = changes]
Moved(r, pc) == [requests[r] EXCEPT !.pc = pc]

\* The answer of a request: its status and whose data it carries.
Answered(r, status, data) ==
  [requests[r] EXCEPT !.pc = "done", !.status = status, !.data = data, !.at = 0]

Answer(r, status, data) == Set(r, Answered(r, status, data))

Refuse(r, status) ==
  /\ Answer(r, status, Nothing)
  /\ UNCHANGED <<clock, accounts, users, sessions, issued, lock>>

Owner(id) == CHOOSE a \in accounts : a.id = id
Named(email) == {a \in accounts : a.email = email}
WithToken(token) == {s \in sessions : s.token = token}

-----------------------------------------------------------------------------
(* Registering and logging in.                                             *)

Opened(r, account) ==
  [token |-> r, account |-> account, expires |-> requests[r].at + Lifetime]

\* register looks for the email ...
RegisterChecks(r) ==
  /\ In(r, "started") /\ requests[r].op = "register"
  /\ IF Named(requests[r].email) # {} THEN Refuse(r, 409)
     ELSE /\ Set(r, Moved(r, "insert"))
          /\ UNCHANGED <<clock, accounts, users, sessions, issued, lock>>

\* Mutant: the unique key on the email is missing.
NoKey(email) == FALSE

\* uq_accounts_email, which commit turns into EmailAlreadyRegistered.
Taken(email) == Named(email) # {}

\* ... and inserts the account and its first session.
RegisterInserts(r) ==
  LET q == requests[r] IN
  /\ In(r, "insert")
  /\ IF Taken(q.email) THEN Refuse(r, 409)
     ELSE /\ accounts' = accounts \cup {[id |-> r, email |-> q.email, user |-> Nothing]}
          /\ sessions' = sessions \cup {Opened(r, r)}
          /\ issued' = issued \cup {Opened(r, r)}
          /\ Answer(r, 200, r)
          /\ UNCHANGED <<clock, users, lock>>

\* Mutant: the session that was replaced is left alone.
KeepsAll(token) == sessions

\* delete_auth_session.
Without(token) == sessions \ WithToken(token)

\* login: the session the browser presents is replaced, whosever it is.
Login(r) ==
  /\ In(r, "started") /\ requests[r].op = "login"
  /\ \E a \in Named(requests[r].email) :
       /\ sessions' = Without(requests[r].token) \cup {Opened(r, a.id)}
       /\ issued' = issued \cup {Opened(r, a.id)}
       /\ Answer(r, 200, a.id)
  /\ UNCHANGED <<clock, accounts, users, lock>>

\* The email or the password is wrong.
LoginRefused(r) ==
  /\ In(r, "started") /\ requests[r].op = "login"
  /\ Refuse(r, 401)

\* logout succeeds whether or not there is such a session.
Logout(r) ==
  /\ In(r, "started") /\ requests[r].op = "logout"
  /\ sessions' = Without(requests[r].token)
  /\ Answer(r, 200, Nothing)
  /\ UNCHANGED <<clock, accounts, users, issued, lock>>

-----------------------------------------------------------------------------
(* authenticate, the first step of every other request.                    *)

Anonymous == {"register", "login", "logout"}

\* Mutant: a session is good in the instant it expires, and later.
NeverExpired(s, at) == FALSE

Expired(s, at) == s.expires <= at

\* An expired session is deleted and the deletion committed.
FindSession(r) ==
  LET found == WithToken(requests[r].token)
      dead == {s \in found : Expired(s, requests[r].at)}
  IN  /\ In(r, "started") /\ requests[r].op \notin Anonymous
      /\ IF found \ dead = {}
         THEN /\ sessions' = IF dead = {} THEN sessions ELSE Without(requests[r].token)
              /\ Answer(r, 401, Nothing)
         ELSE /\ Set(r, [Moved(r, "account") EXCEPT
                           !.account = (CHOOSE s \in found : TRUE).account])
              /\ UNCHANGED sessions
      /\ UNCHANGED <<clock, accounts, users, issued, lock>>

\* The row read here is what the rest of the request takes for the account.
FindAccount(r) ==
  /\ In(r, "account")
  /\ Set(r, [Moved(r, "serve") EXCEPT !.account = Owner(requests[r].account), !.at = 0])
  /\ UNCHANGED <<clock, accounts, users, sessions, issued, lock>>

-----------------------------------------------------------------------------
(* setup_portfolio.                                                        *)

\* Mutant: the account's row is read without FOR UPDATE.
NeverLocked(id) == TRUE

Unlocked(id) == lock[id] = Nothing

SetupReads(r) ==
  LET id == requests[r].account.id IN
  /\ In(r, "serve") /\ requests[r].op = "setup"
  /\ Unlocked(id)
  /\ IF Owner(id).user # Nothing THEN Refuse(r, 409)
     ELSE /\ lock' = [lock EXCEPT ![id] = r]
          /\ Set(r, Moved(r, "bind"))
          /\ UNCHANGED <<clock, accounts, users, sessions, issued>>

\* The input is invalid, or the opening positions cannot be replayed.
SetupRefused(r) ==
  /\ In(r, "bind")
  /\ Answer(r, 422, Nothing)
  /\ lock' = [lock EXCEPT ![requests[r].account.id] = Nothing]
  /\ UNCHANGED <<clock, accounts, users, sessions, issued>>

\* add_user, the opening positions, and an UPDATE of an account that has none.
SetupBinds(r) ==
  LET id == requests[r].account.id IN
  /\ In(r, "bind")
  /\ users' = users \cup {r}
  /\ accounts' = {IF a.id = id /\ a.user = Nothing THEN [a EXCEPT !.user = r] ELSE a : a \in accounts}
  /\ lock' = [lock EXCEPT ![id] = Nothing]
  /\ Set(r, Moved(r, "bound"))
  /\ UNCHANGED <<clock, sessions, issued>>

=============================================================================
