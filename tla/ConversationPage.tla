--------------------------- MODULE ConversationPage ---------------------------
(***************************************************************************)
(* The page: one `state' object, changed by the user's clicks and by the   *)
(* answers to requests, each of which a handler awaits.  Answers arrive in *)
(* any order, late, or not at all.  Most handlers note a generation when   *)
(* they send and do nothing if it was moved on since; such a handler is    *)
(* gone from `flight' once it is.  Login, logout, deletion and mutation    *)
(* requests are always answered.                                           *)
(*                                                                         *)
(* Setup, registration, imports, charts and valuations are left out; every *)
(* account here has a portfolio.                                           *)
(***************************************************************************)
EXTENDS Integers, FiniteSets

CONSTANTS
  Account,
  Number,   \* numbers of the threads of an account
  None,
  MaxFlight \* bound of the model: requests awaited at once

ASSUME NoneAssumption == None \notin Account \cup (Account \X Number)

VARIABLES
  state,  \* the page's state object
  cookie, \* the account of the session cookie
  flight  \* the requests handlers are waiting for

vars == <<state, cookie, flight>>

Thread == Account \X Number

Owner(t) == t[1]

\* The account whose session a request carries, the thread it is about, the portfolio
\* that was loaded when it was sent and what goes on when it is done.
Request ==
  [kind : {"login", "logout", "refresh", "mutation", "list", "load", "create", "ask", "delete"},
   as : Account \cup {None}, thread : Thread \cup {None}, user : Account \cup {None},
   then : {"nothing", "workspace", "mutation", "ask", "delete"}]

TypeOK ==
  /\ state \in [account : Account \cup {None}, auth : {"idle", "logging_in", "logging_out"},
                loaded : Account \cup {None}, write : {"idle", "submitting", "refresh_required"},
                reading : BOOLEAN, threads : SUBSET Thread, threadId : Thread \cup {None},
                thread : Thread \cup {None}, conversationPending : BOOLEAN, questionPending : BOOLEAN]
  /\ cookie \in Account \cup {None}
  /\ flight \subseteq Request

SignedOut ==
  [account |-> None, auth |-> "idle", loaded |-> None, write |-> "idle", reading |-> FALSE,
   threads |-> {}, threadId |-> None, thread |-> None,
   conversationPending |-> FALSE, questionPending |-> FALSE]

Send(kind, s, thread, then) ==
  [kind |-> kind, as |-> cookie, thread |-> thread, user |-> s.loaded, then |-> then]

Of(F, kinds) == {h \in F : h.kind \in kinds}

-----------------------------------------------------------------------------
(* What is disabled.                                                       *)

Busy == \/ state.write = "submitting" \/ state.reading \/ state.auth # "idle"
        \/ state.questionPending \/ state.conversationPending

ContextReady == state.loaded # None /\ state.write # "refresh_required"

\* The user is signed in, not everything is disabled and one more request may be sent.
MayClick == state.account # None /\ ~Busy /\ Cardinality(flight) < MaxFlight

-----------------------------------------------------------------------------
(* Functions the handlers share: s is the state and F the flight so far.   *)

\* Mutant: requests that were sent before are not given up.
KeepsAll(F) == F

\* No generation guards these.
Unguarded(F) == Of(F, {"login", "logout", "delete", "mutation"})

\* resetSensitiveState: every generation moves on.
EnterHome(F) == state' = SignedOut /\ flight' = Unguarded(F)

\* cancelQuestionRequest.
WithoutQuestion(F) ==
  {IF h.then = "ask" /\ h.kind # "create" THEN [h EXCEPT !.then = "nothing"] ELSE h :
     h \in F \ Of(F, {"ask"})}

\* A thread or the list that is being loaded is no longer wanted; if a deletion waited for
\* it, the deletion then ends.
Reading(F) == Of(F, {"list", "load"})

Ends(F) == \E h \in Reading(F) : h.then = "delete"

\* loadConversationThread, loadConversationWorkspace.
Read(kind, s, F, t, then) ==
  IF s.account = None
  THEN state' = [s EXCEPT !.conversationPending = FALSE] /\ flight' = F
  ELSE LET G == IF then = "ask" THEN F ELSE WithoutQuestion(F)
       IN  /\ state' = [s EXCEPT !.conversationPending = ~Ends(F),
                                 !.questionPending = @ /\ then = "ask"]
           /\ flight' = (G \ Reading(G)) \cup {Send(kind, s, t, then)}

\* Mutant: the question that awaited it stays pending.
KeepsQuestion(s, h) == [s EXCEPT !.conversationPending = FALSE]

\* What awaited a read goes on to its end.
ReadDone(s, h) ==
  [s EXCEPT !.conversationPending = FALSE, !.questionPending = @ /\ h.then # "ask"]

\* refreshPortfolio: whether it goes ahead, and its requests.
MayRefresh(s) == s.auth = "idle" /\ ~s.questionPending /\ ~s.reading

Refresh(s, F, then) ==
  /\ state' = [s EXCEPT !.reading = TRUE]
  /\ flight' = (F \ Of(F, {"refresh"})) \cup {Send("refresh", s, None, then)}

PostQuestion(s, F) ==
  /\ state' = [s EXCEPT !.questionPending = TRUE]
  /\ flight' = WithoutQuestion(F) \cup {Send("ask", s, s.threadId, "nothing")}

Listed(s, t) == [s EXCEPT !.threads = @ \cup {t}]

Opened(s, t) == [Listed(s, t) EXCEPT !.threadId = t, !.thread = t]

Removed(s, t) ==
  [s EXCEPT !.threads = @ \ {t},
            !.threadId = IF @ = t THEN None ELSE @,
            !.thread = IF s.threadId = t THEN None ELSE @]

\* The server knows the session; it answers a session that has ended with 401.
Served(h) == h.as # None

Rest(h) == flight \ {h}

Awaits(h, kind) == h \in flight /\ h.kind = kind

-----------------------------------------------------------------------------
(* Signing in and out.                                                     *)

\* The form is disabled while an earlier login is awaited.
Login(a) ==
  /\ state.account = None /\ state.auth = "idle" /\ Of(flight, {"login"}) = {}
  /\ Cardinality(flight) < MaxFlight
  /\ state' = [state EXCEPT !.auth = "logging_in"]
  /\ flight' = flight \cup {[Send("login", state, None, "nothing") EXCEPT !.user = a]}
  /\ UNCHANGED cookie

\* The portfolio is loaded first, with the new session.
LoggedIn(h) ==
  /\ Awaits(h, "login")
  /\ cookie' = h.user
  /\ LET s == [state EXCEPT !.auth = "idle", !.account = h.user] IN
     IF MayRefresh(s)
     THEN /\ state' = [s EXCEPT !.reading = TRUE]
          /\ flight' = Rest(h) \cup {[Send("refresh", s, None, "workspace") EXCEPT !.as = h.user]}
     ELSE state' = s /\ flight' = Rest(h)

LoginFailed(h) ==
  /\ Awaits(h, "login")
  /\ state' = [state EXCEPT !.auth = "idle"]
  /\ flight' = Rest(h)
  /\ UNCHANGED cookie

\* Not while a write is submitted.  Whatever a generation guards is given up at once, before
\* the server has answered.
Logout ==
  /\ state.account # None /\ state.auth = "idle" /\ state.write # "submitting"
  /\ state' = [state EXCEPT !.auth = "logging_out", !.reading = FALSE, !.questionPending = FALSE,
                            !.conversationPending = @ /\ ~Ends(flight)]
  /\ flight' = Unguarded(flight) \cup {Send("logout", state, None, "nothing")}
  /\ UNCHANGED cookie

LoggedOut(h) == Awaits(h, "logout") /\ EnterHome(Rest(h)) /\ cookie' = None

LogoutFailed(h) ==
  /\ Awaits(h, "logout")
  /\ state' = [state EXCEPT !.auth = "idle"]
  /\ flight' = Rest(h)
  /\ UNCHANGED cookie

\* A 401 for any other request leads home, whoever is signed in by now.
Expired(h) ==
  /\ h \in flight /\ h.kind # "login"
  /\ EnterHome(Rest(h))
  /\ UNCHANGED cookie

-----------------------------------------------------------------------------
(* The portfolio: refreshPortfolio and runMutation.                        *)

Reload == MayClick /\ MayRefresh(state) /\ Refresh(state, flight, "nothing") /\ UNCHANGED cookie

Refreshed(h) ==
  /\ Awaits(h, "refresh") /\ Served(h)
  /\ LET s == [state EXCEPT !.reading = FALSE, !.loaded = h.as, !.write = "idle"] IN
     IF h.then = "workspace" THEN Read("list", s, Rest(h), None, "nothing")
     ELSE state' = s /\ flight' = Rest(h)
  /\ UNCHANGED cookie

RefreshFailed(h) ==
  /\ Awaits(h, "refresh")
  /\ state' = [state EXCEPT !.reading = FALSE, !.write = "refresh_required"]
  /\ flight' = Rest(h)
  /\ UNCHANGED cookie

Mutate ==
  /\ MayClick /\ ContextReady /\ state.write = "idle"
  /\ state' = [state EXCEPT !.write = "submitting"]
  /\ flight' = flight \cup {Send("mutation", state, None, "nothing")}
  /\ UNCHANGED cookie

Released(s) == [s EXCEPT !.write = IF @ = "submitting" THEN "idle" ELSE @]

\* What was written is read again, if the portfolio is still the one it was written to.
Mutated(h) ==
  /\ Awaits(h, "mutation") /\ Served(h)
  /\ CASE state.loaded # h.user -> state' = Released(state) /\ flight' = Rest(h)
       [] state.loaded = h.user /\ MayRefresh(state) -> Refresh(state, Rest(h), "mutation")
       [] state.loaded = h.user /\ ~MayRefresh(state) ->
            state' = [state EXCEPT !.write = "refresh_required"] /\ flight' = Rest(h)
  /\ UNCHANGED cookie

\* Turned down, or nobody knows.
MutationFailed(h) ==
  /\ Awaits(h, "mutation")
  /\ \E w \in {"idle", "refresh_required"} : state' = [state EXCEPT !.write = w]
  /\ flight' = Rest(h)
  /\ UNCHANGED cookie

-----------------------------------------------------------------------------
(* Threads.                                                                *)

\* The account's threads, T of them, and one to show: the one asked for, that already shown or
\* the first.
ThreadsListed(h, T) ==
  /\ Awaits(h, "list") /\ Served(h)
  /\ LET s == [state EXCEPT !.threads = {<<h.as, n>> : n \in T}]
         asked == IF h.thread # None THEN {h.thread} ELSE s.threads \cap {s.threadId}
         selected == IF asked = {} THEN s.threads ELSE asked
     IN  \/ \E t \in selected : Read("load", s, Rest(h), t, h.then)
         \/ /\ selected = {}
            /\ state' = [s EXCEPT !.threadId = None, !.thread = None, !.conversationPending = FALSE]
            /\ flight' = Rest(h)
  /\ UNCHANGED cookie

ThreadLoaded(h) ==
  /\ Awaits(h, "load") /\ Served(h) /\ h.as = Owner(h.thread)
  /\ state' = ReadDone(Opened(state, h.thread), h)
  /\ flight' = Rest(h)
  /\ UNCHANGED cookie

\* 404.
ThreadGone(h) ==
  /\ Awaits(h, "load") /\ Served(h)
  /\ state' = ReadDone(Removed(state, h.thread), h)
  /\ flight' = Rest(h)
  /\ UNCHANGED cookie

ReadFailed(h) ==
  /\ h \in Reading(flight)
  /\ state' = ReadDone(state, h)
  /\ flight' = Rest(h)
  /\ UNCHANGED cookie

OpenThread(t) ==
  /\ MayClick /\ t \in state.threads
  /\ Read("load", state, flight, t, "nothing")
  /\ UNCHANGED cookie

\* handleNewQuestion.
NewQuestion ==
  /\ MayClick /\ state.write = "idle"
  /\ state' = [state EXCEPT !.questionPending = FALSE, !.conversationPending = TRUE]
  /\ flight' = WithoutQuestion(flight) \cup {Send("create", state, None, "nothing")}
  /\ UNCHANGED cookie

\* createConversationThread; a question that needed the thread is then posted to it.
Created(h, t) ==
  /\ Awaits(h, "create") /\ Served(h) /\ h.as = Owner(t)
  /\ LET s == [Opened(state, t) EXCEPT !.conversationPending = FALSE] IN
     IF h.then = "ask" THEN PostQuestion(s, Rest(h)) ELSE state' = s /\ flight' = Rest(h)
  /\ UNCHANGED cookie

CreateFailed(h) ==
  /\ Awaits(h, "create")
  /\ state' = [state EXCEPT !.conversationPending = FALSE]
  /\ flight' = Rest(h)
  /\ UNCHANGED cookie

\* handleQuestion.
Ask ==
  /\ MayClick /\ ContextReady /\ state.write = "idle"
  /\ IF state.threadId = None
     THEN /\ state' = [state EXCEPT !.conversationPending = TRUE]
          /\ flight' = flight \cup {Send("create", state, None, "ask")}
     ELSE PostQuestion(state, flight)
  /\ UNCHANGED cookie

\* The thread's new revision is kept; its messages are appended to what is shown.
Answered(h) ==
  /\ Awaits(h, "ask") /\ Served(h) /\ h.as = Owner(h.thread)
  /\ state' = IF h.user = state.loaded
              THEN [Listed(state, h.thread) EXCEPT !.thread = h.thread, !.questionPending = FALSE]
              ELSE [state EXCEPT !.questionPending = FALSE]
  /\ flight' = Rest(h)
  /\ UNCHANGED cookie

\* A conflict, or nobody knows: the thread is read again.
Disputed(h) ==
  /\ Awaits(h, "ask")
  /\ IF h.user = state.loaded THEN Read("load", state, Rest(h), h.thread, "ask")
     ELSE state' = [state EXCEPT !.questionPending = FALSE] /\ flight' = Rest(h)
  /\ UNCHANGED cookie

QuestionFailed(h) ==
  /\ Awaits(h, "ask")
  /\ state' = [state EXCEPT !.questionPending = FALSE]
  /\ flight' = Rest(h)
  /\ UNCHANGED cookie

\* deleteConversationThread.
Delete(t) ==
  /\ MayClick /\ t \in state.threads
  /\ state' = [state EXCEPT !.questionPending = FALSE, !.conversationPending = TRUE]
  /\ flight' = WithoutQuestion(flight) \cup {Send("delete", state, t, "nothing")}
  /\ UNCHANGED cookie

\* Another thread is then shown, if there is one.
Deleted(h) ==
  /\ Awaits(h, "delete") /\ Served(h)
  /\ LET s == Removed(state, h.thread) IN
     \/ \E t \in s.threads : Read("load", s, Rest(h), t, "delete")
     \/ /\ s.threads = {}
        /\ state' = [s EXCEPT !.conversationPending = FALSE]
        /\ flight' = Rest(h)
  /\ UNCHANGED cookie

\* 409: a run is going on in the thread.
DeleteRefused(h) ==
  /\ Awaits(h, "delete") /\ Served(h)
  /\ Read("list", state, Rest(h), state.threadId, "delete")
  /\ UNCHANGED cookie

DeleteFailed(h) ==
  /\ Awaits(h, "delete")
  /\ state' = [state EXCEPT !.conversationPending = FALSE]
  /\ flight' = Rest(h)
  /\ UNCHANGED cookie

-----------------------------------------------------------------------------

Init == state = SignedOut /\ cookie = None /\ flight = {}

Click ==
  \/ \E a \in Account : Login(a)
  \/ Logout \/ Reload \/ Mutate \/ NewQuestion \/ Ask
  \/ \E t \in Thread : OpenThread(t) \/ Delete(t)

Answer(h) ==
  \/ LoggedIn(h) \/ LoginFailed(h) \/ LoggedOut(h) \/ LogoutFailed(h) \/ Expired(h)
  \/ Refreshed(h) \/ RefreshFailed(h) \/ Mutated(h) \/ MutationFailed(h)
  \/ \E T \in SUBSET Number : ThreadsListed(h, T)
  \/ ThreadLoaded(h) \/ ThreadGone(h) \/ ReadFailed(h)
  \/ \E t \in Thread : Created(h, t)
  \/ CreateFailed(h)
  \/ Answered(h) \/ Disputed(h) \/ QuestionFailed(h)
  \/ Deleted(h) \/ DeleteRefused(h) \/ DeleteFailed(h)

Next == Click \/ \E h \in flight : Answer(h)

Spec == Init /\ [][Next]_vars

-----------------------------------------------------------------------------

\* Whatever is shown is that of the account that is signed in, although answers to requests
\* of the account before may still arrive.
ShownIsOwn ==
  /\ state.loaded \in {None, state.account}
  /\ \A t \in state.threads \cup ({state.threadId, state.thread} \ {None}) : Owner(t) = state.account

\* The page is never left disabled with nothing to enable it again: each of these marks is
\* held by a request that is awaited, however sign-ins, failures and late answers fall.
\* (conversationPending is not among them: a logout gives up the handler that would release
\* it, and if the logout fails the mark stays.)
BusyIsAwaited ==
  /\ state.auth = "logging_in" => Of(flight, {"login"}) # {}
  /\ state.auth = "logging_out" => Of(flight, {"logout"}) # {}
  /\ state.reading => Of(flight, {"refresh"}) # {}
  /\ state.write = "submitting" => \E h \in flight : "mutation" \in {h.kind, h.then}
  /\ state.questionPending => \E h \in flight \ Of(flight, {"create"}) : "ask" \in {h.kind, h.then}

\* docs/adr/0009: signing out and a change of account clear the state of asynchronous writes. So
\* an answer to what an earlier account sent changes nothing for a later one.
EarlierAccountIsGone ==
  [][\A h \in flight \ flight' :
       h.kind \in {"delete", "mutation"} /\ state.account \notin {None, h.as} => state' = state]_vars

=============================================================================
