------------------------- MODULE ConversationPageProofs -------------------------
(* Theorems about ConversationPage, for every set of accounts and of threads  *)
(* and every number of requests awaited at once.                              *)
EXTENDS ConversationPage, TLAPS

(***************************************************************************)
(* The inductive invariant, of a state s of the page, a cookie and a       *)
(* flight F: the functions the handlers share are given states and flights *)
(* that are none of the variables' values.                                 *)
(***************************************************************************)

PageState ==
  [account : Account \cup {None}, auth : {"idle", "logging_in", "logging_out"},
   loaded : Account \cup {None}, write : {"idle", "submitting", "refresh_required"},
   reading : BOOLEAN, threads : SUBSET Thread, threadId : Thread \cup {None},
   thread : Thread \cup {None}, conversationPending : BOOLEAN, questionPending : BOOLEAN]

\* Whatever is shown, and the cookie, are those of the account that is signed in.
Own(s, c) ==
  /\ s \in PageState /\ c \in Account \cup {None}
  /\ s.account # None => c = s.account
  /\ s.loaded \in {None, s.account}
  /\ \A t \in s.threads : Owner(t) = s.account
  /\ s.threadId # None => Owner(s.threadId) = s.account
  /\ s.thread # None => Owner(s.thread) = s.account

\* What goes on after each kind of request.
Thens(kind) ==
  CASE kind = "refresh" -> {"nothing", "workspace", "mutation"}
    [] kind = "list" -> {"nothing", "delete"}
    [] kind = "load" -> {"nothing", "ask", "delete"}
    [] kind = "create" -> {"nothing", "ask"}
    [] kind \notin {"refresh", "list", "load", "create"} -> {"nothing"}

\* A request a generation guards was sent for the account that is signed in; a login is
\* awaited only when nobody is.
Sent(h, account) ==
  /\ h \in Request /\ h.then \in Thens(h.kind)
  /\ h.kind \in {"refresh", "list", "load", "create", "ask"} => h.as = account /\ account # None
  /\ h.kind = "login" => h.user # None /\ account = None
  /\ h.kind = "mutation" => h.user # None
  /\ h.kind \in {"load", "ask"} => h.thread # None

Flies(F, account) ==
  /\ \A h \in F : Sent(h, account)
  /\ \A g, h \in F : g.kind = "login" /\ h.kind = "login" => g = h

\* Whoever releases the question mark.
Asks(h) == h.kind # "create" /\ (h.kind = "ask" \/ h.then = "ask")

\* Each mark but that of the question is held by a request that is awaited ...
Marks(s, F) ==
  /\ s.auth = "logging_in" => \E h \in F : h.kind = "login"
  /\ s.auth = "logging_out" => \E h \in F : h.kind = "logout"
  /\ s.reading => \E h \in F : h.kind = "refresh"
  /\ s.write = "submitting" => \E h \in F : h.kind = "mutation" \/ h.then = "mutation"

\* ... and that of the question too.
Awaited(s, F) == Marks(s, F) /\ (s.questionPending => \E h \in F : Asks(h))

Fits(s, c, F) == Own(s, c) /\ Flies(F, s.account) /\ Awaited(s, F)

IInv == Fits(state, cookie, flight)

(***************************************************************************)
(* What the helpers return.                                                *)
(***************************************************************************)

LEMMA ThreadIs ==
  ASSUME NEW t \in Thread
  PROVE  Owner(t) \in Account /\ Owner(t) # None /\ t # None
BY NoneAssumption DEF Thread, Owner

LEMMA ThenIs ==
  ASSUME NEW h, NEW account, Sent(h, account)
  PROVE  /\ h.then = "ask" => h.kind \in {"load", "create"}
         /\ h.then = "mutation" => h.kind = "refresh"
         /\ h.kind \in {"login", "logout", "mutation", "delete", "ask"} => h.then = "nothing"
         /\ h.kind = "refresh" => h.then \in {"nothing", "workspace", "mutation"}
         /\ h.kind = "list" => h.then \in {"nothing", "delete"}
         /\ h.kind = "load" => h.then \in {"nothing", "ask", "delete"}
         /\ h.kind = "create" => h.then \in {"nothing", "ask"}
BY DEF Sent, Thens, Request

LEMMA ThensIs ==
  /\ Thens("refresh") = {"nothing", "workspace", "mutation"}
  /\ Thens("list") = {"nothing", "delete"} /\ Thens("load") = {"nothing", "ask", "delete"}
  /\ Thens("create") = {"nothing", "ask"}
  /\ \A kind \in {"login", "logout", "mutation", "delete", "ask"} : Thens(kind) = {"nothing"}
BY DEF Thens

\* A request for the account that is signed in.
LEMMA SendIs ==
  ASSUME NEW s, Own(s, cookie), NEW t \in Thread \cup {None},
         NEW kind \in {"logout", "refresh", "mutation", "list", "load", "create", "ask", "delete"},
         NEW then \in Thens(kind), s.account # None,
         kind = "mutation" => s.loaded # None, kind \in {"load", "ask"} => t # None
  PROVE  /\ Sent(Send(kind, s, t, then), s.account)
         /\ Send(kind, s, t, then).kind = kind /\ Send(kind, s, t, then).then = then
<1> DEFINE h == Send(kind, s, t, then)
<1>1. /\ h.kind = kind /\ h.as = cookie /\ h.thread = t /\ h.user = s.loaded /\ h.then = then
      /\ h = [kind |-> kind, as |-> cookie, thread |-> t, user |-> s.loaded, then |-> then]
  BY DEF Send
<1>2. /\ cookie = s.account /\ cookie \in Account \cup {None}
      /\ s.loaded \in Account \cup {None}
  BY DEF Own, PageState
<1>3. then \in {"nothing", "workspace", "mutation", "ask", "delete"}
  BY ThensIs
<1> HIDE DEF h
<1>4. h \in Request  BY <1>1, <1>2, <1>3 DEF Request
<1>5. Sent(h, s.account)  BY <1>1, <1>2, <1>4 DEF Sent
<1> QED  BY <1>1, <1>5 DEF h

\* One more request, and fewer.
LEMMA OneMoreFlies ==
  ASSUME NEW F, NEW account, Flies(F, account), NEW h, Sent(h, account), h.kind # "login"
  PROVE  Flies(F \cup {h}, account)
BY DEF Flies

LEMMA FewerFly ==
  ASSUME NEW F, NEW account, Flies(F, account), NEW G \in SUBSET F
  PROVE  Flies(G, account)
BY DEF Flies

LEMMA NothingAfter ==
  ASSUME NEW h, NEW account, Sent(h, account), h.kind \in {"load", "list", "ask", "refresh", "delete", "login", "logout", "mutation"}
  PROVE  /\ Sent([h EXCEPT !.then = "nothing"], account)
         /\ [h EXCEPT !.then = "nothing"].kind = h.kind
         /\ [h EXCEPT !.then = "nothing"].then = "nothing"
<1> DEFINE g == [h EXCEPT !.then = "nothing"]
<1>1. /\ g \in Request /\ g.kind = h.kind /\ g.as = h.as /\ g.thread = h.thread
      /\ g.user = h.user /\ g.then = "nothing"
  BY DEF Sent, Request
<1>2. "nothing" \in Thens(g.kind)  BY <1>1, ThensIs
<1> HIDE DEF g
<1>3. Sent(g, account)  BY <1>1, <1>2 DEF Sent
<1> QED  BY <1>1, <1>3 DEF g

\* Giving up a question gives up nothing that holds another mark.
LEMMA WithoutQuestionIs ==
  ASSUME NEW F, NEW account, Flies(F, account)
  PROVE  /\ Flies(WithoutQuestion(F), account)
         /\ \A s : Marks(s, F) => Marks(s, WithoutQuestion(F))
         /\ \A h \in F : h.kind \in {"login", "logout", "refresh", "mutation", "delete"} =>
                           h \in WithoutQuestion(F)
<1> DEFINE kept == F \ Of(F, {"ask"})
           new(h) == IF h.then = "ask" /\ h.kind # "create" THEN [h EXCEPT !.then = "nothing"] ELSE h
<1>1. WithoutQuestion(F) = {new(h) : h \in kept}  BY DEF WithoutQuestion
<1>2. ASSUME NEW h \in kept
      PROVE  /\ Sent(new(h), account) /\ new(h).kind = h.kind
             /\ h.kind \in {"login", "logout", "refresh", "mutation", "delete"} => new(h) = h
  <2>1. h \in F /\ Sent(h, account)  BY DEF Flies
  <2>2. CASE h.then = "ask" /\ h.kind # "create"
    <3>1. h.kind = "load"  BY <2>1, <2>2, ThenIs
    <3> QED  BY <2>1, <2>2, <3>1, NothingAfter
  <2>3. CASE ~(h.then = "ask" /\ h.kind # "create")  BY <2>1, <2>3
  <2> QED  BY <2>2, <2>3
<1> HIDE DEF new
<1>3. \A h \in F : h.kind \in {"login", "logout", "refresh", "mutation", "delete"} =>
                     h \in WithoutQuestion(F)
  BY <1>1, <1>2 DEF Of
<1>4. Flies(WithoutQuestion(F), account)
  <2>1. \A g \in WithoutQuestion(F) : Sent(g, account)  BY <1>1, <1>2
  <2>2. \A g \in WithoutQuestion(F) : g.kind = "login" => g \in F  BY <1>1, <1>2
  <2> QED  BY <2>1, <2>2 DEF Flies
<1>5. ASSUME NEW s, Marks(s, F)  PROVE Marks(s, WithoutQuestion(F))
  <2>1. \A h \in F : h.kind = "mutation" \/ h.then = "mutation" =>
          h.kind \in {"mutation", "refresh"}
    BY ThenIs DEF Flies
  <2> QED  BY <1>3, <1>5, <2>1 DEF Marks
<1> QED  BY <1>3, <1>4, <1>5

\* Giving up a read gives up nothing that holds another mark than the question's.
LEMMA WithoutReadsIs ==
  ASSUME NEW F, NEW account, Flies(F, account)
  PROVE  /\ Flies(F \ Reading(F), account)
         /\ \A s : Marks(s, F) => Marks(s, F \ Reading(F))
<1>1. Flies(F \ Reading(F), account)  BY FewerFly
<1>2. \A h \in F : h.kind \in {"login", "logout", "refresh", "mutation"} => h \in F \ Reading(F)
  BY DEF Reading, Of
<1>3. \A h \in F : h.then = "mutation" => h.kind = "refresh"  BY ThenIs DEF Flies
<1> QED  BY <1>1, <1>2, <1>3 DEF Marks

LEMMA MoreMarks ==
  ASSUME NEW F, NEW G, F \subseteq G, NEW s, Marks(s, F)
  PROVE  Marks(s, G)
BY DEF Marks

(***************************************************************************)
(* The functions handlers share.                                           *)
(***************************************************************************)

\* Nobody is signed in and nothing is shown.
LEMMA HomeKeeps ==
  ASSUME NEW F, NEW account, Flies(F, account), EnterHome(F), cookie' \in Account \cup {None}
  PROVE  IInv'
<1>1. state' = SignedOut /\ flight' = Unguarded(F)  BY DEF EnterHome
<1>2. /\ state' \in PageState /\ state'.account = None /\ state'.loaded = None
      /\ state'.threads = {} /\ state'.threadId = None /\ state'.thread = None
      /\ state'.auth = "idle" /\ state'.write = "idle" /\ state'.reading = FALSE
      /\ state'.questionPending = FALSE
  BY <1>1 DEF SignedOut, PageState
<1>3. Own(state', cookie')  BY <1>2 DEF Own
<1>4. Awaited(state', flight')  BY <1>2 DEF Awaited, Marks
<1>5. Flies(flight', None)
  <2>1. flight' \subseteq F /\ \A h \in flight' : h.kind \in {"login", "logout", "delete", "mutation"}
    BY <1>1 DEF Unguarded, Of
  <2>2. \A h \in F : Sent(h, account)  BY DEF Flies
  <2>3. \A h \in flight' : Sent(h, None)  BY <2>1, <2>2 DEF Sent
  <2> QED  BY <2>1, <2>3 DEF Flies
<1> QED  BY <1>2, <1>3, <1>4, <1>5 DEF IInv, Fits

LEMMA ReadKeeps ==
  ASSUME NEW s, NEW F, NEW t \in Thread \cup {None}, NEW kind \in {"list", "load"},
         NEW then \in Thens(kind), kind = "load" => t # None,
         Own(s, cookie), Flies(F, s.account), Marks(s, F), s.account # None,
         Read(kind, s, F, t, then), UNCHANGED cookie
  PROVE  IInv'
<1> DEFINE h == Send(kind, s, t, then)
           G == IF then = "ask" THEN F ELSE WithoutQuestion(F)
<1>1. PICK b \in BOOLEAN, c \in BOOLEAN :
        /\ state' = [s EXCEPT !.conversationPending = c, !.questionPending = b]
        /\ b = (s.questionPending /\ then = "ask")
  BY DEF Read, Own, PageState
<1>2. flight' = (G \ Reading(G)) \cup {h}  BY DEF Read
<1>3. Sent(h, s.account) /\ h.kind = kind /\ h.then = then  BY SendIs
<1>4. /\ state' \in PageState /\ state'.account = s.account /\ state'.loaded = s.loaded
      /\ state'.threads = s.threads /\ state'.threadId = s.threadId /\ state'.thread = s.thread
      /\ state'.auth = s.auth /\ state'.write = s.write /\ state'.reading = s.reading
      /\ state'.questionPending = b
  BY <1>1 DEF Own, PageState
<1>5. Flies(G, s.account) /\ Marks(s, G)  BY WithoutQuestionIs
<1> HIDE DEF G, h
<1>6. Flies(G \ Reading(G), s.account) /\ Marks(s, G \ Reading(G))  BY <1>5, WithoutReadsIs
<1>7. Flies(flight', s.account)  BY <1>2, <1>3, <1>6, OneMoreFlies
<1>8. Marks(s, flight')  BY <1>2, <1>6, MoreMarks
<1>9. Marks(state', flight')  BY <1>4, <1>8 DEF Marks
<1>10. b => Asks(h)  BY <1>1, <1>3 DEF Asks
<1>11. Awaited(state', flight')  BY <1>2, <1>4, <1>9, <1>10 DEF Awaited
<1>12. Own(state', cookie')  BY <1>4 DEF Own
<1> QED  BY <1>4, <1>7, <1>11, <1>12 DEF IInv, Fits

LEMMA RefreshKeeps ==
  ASSUME NEW s, NEW F, NEW then \in Thens("refresh"),
         Own(s, cookie), Flies(F, s.account), s.account # None,
         MayRefresh(s), s.write = "submitting" => then = "mutation",
         Refresh(s, F, then), UNCHANGED cookie
  PROVE  IInv'
<1> DEFINE h == Send("refresh", s, None, then)
<1>1. /\ state' = [s EXCEPT !.reading = TRUE]
      /\ flight' = (F \ Of(F, {"refresh"})) \cup {h}
  BY DEF Refresh
<1>2. Sent(h, s.account) /\ h.kind = "refresh" /\ h.then = then  BY SendIs
<1> HIDE DEF h
<1>3. /\ state' \in PageState /\ state'.account = s.account /\ state'.loaded = s.loaded
      /\ state'.threads = s.threads /\ state'.threadId = s.threadId /\ state'.thread = s.thread
      /\ state'.auth = s.auth /\ state'.write = s.write
      /\ state'.questionPending = s.questionPending
  BY <1>1 DEF Own, PageState
<1>4. Flies(F \ Of(F, {"refresh"}), s.account)  BY FewerFly DEF Of
<1>5. Flies(flight', s.account)  BY <1>1, <1>2, <1>4, OneMoreFlies
<1>6. Awaited(state', flight')  BY <1>1, <1>2, <1>3 DEF Awaited, Marks, MayRefresh
<1>7. Own(state', cookie')  BY <1>3 DEF Own
<1> QED  BY <1>3, <1>5, <1>6, <1>7 DEF IInv, Fits

LEMMA PostKeeps ==
  ASSUME NEW s, NEW F, Own(s, cookie), Flies(F, s.account), Marks(s, F), s.account # None,
         s.threadId # None, PostQuestion(s, F), UNCHANGED cookie
  PROVE  IInv'
<1> DEFINE h == Send("ask", s, s.threadId, "nothing")
<1>1. /\ state' = [s EXCEPT !.questionPending = TRUE]
      /\ flight' = WithoutQuestion(F) \cup {h}
  BY DEF PostQuestion
<1>2. s.threadId \in Thread \cup {None}  BY DEF Own, PageState
<1>3. Sent(h, s.account) /\ h.kind = "ask" /\ h.then = "nothing"  BY <1>2, SendIs, ThensIs
<1> HIDE DEF h
<1>4. /\ state' \in PageState /\ state'.account = s.account /\ state'.loaded = s.loaded
      /\ state'.threads = s.threads /\ state'.threadId = s.threadId /\ state'.thread = s.thread
      /\ state'.auth = s.auth /\ state'.write = s.write /\ state'.reading = s.reading
  BY <1>1 DEF Own, PageState
<1>5. Flies(flight', s.account)  BY <1>1, <1>3, WithoutQuestionIs, OneMoreFlies
<1>6. Marks(s, flight')  BY <1>1, WithoutQuestionIs, MoreMarks
<1>7. Awaited(state', flight')  BY <1>1, <1>3, <1>4, <1>6 DEF Awaited, Marks, Asks
<1>8. Own(state', cookie')  BY <1>4 DEF Own
<1> QED  BY <1>4, <1>5, <1>7, <1>8 DEF IInv, Fits

\* What is left in flight when h is answered, and the marks that h does not hold.
LEMMA RestIs ==
  ASSUME IInv, NEW h \in flight
  PROVE  /\ Sent(h, state.account) /\ Own(state, cookie) /\ Flies(Rest(h), state.account)
         /\ h.kind \notin {"login", "logout", "refresh", "mutation"} => Marks(state, Rest(h))
         /\ ~Asks(h) => (state.questionPending => \E g \in Rest(h) : Asks(g))
<1>1. Sent(h, state.account) /\ Own(state, cookie)  BY DEF IInv, Fits, Flies
<1>2. Flies(Rest(h), state.account)  BY FewerFly DEF IInv, Fits, Rest
<1>3. ASSUME h.kind \notin {"login", "logout", "refresh", "mutation"}
      PROVE  Marks(state, Rest(h))
  <2>1. h.then # "mutation"  BY <1>1, <1>3, ThenIs
  <2>2. \A g \in flight : g # h => g \in Rest(h)  BY DEF Rest
  <2>3. Marks(state, flight)  BY DEF IInv, Fits, Awaited
  <2> QED  BY <1>3, <2>1, <2>2, <2>3 DEF Marks
<1>4. ASSUME ~Asks(h)  PROVE state.questionPending => \E g \in Rest(h) : Asks(g)
  BY <1>4 DEF IInv, Fits, Awaited, Rest
<1> QED  BY <1>1, <1>2, <1>3, <1>4

(***************************************************************************)
(* Answers about threads and questions.                                    *)
(***************************************************************************)

\* What marks other than that of the question depend on, and who is signed in.
Alike(s, old) ==
  /\ s.account = old.account /\ s.loaded = old.loaded
  /\ s.auth = old.auth /\ s.write = old.write /\ s.reading = old.reading

LEMMA ListedIs ==
  ASSUME NEW s, NEW c, Own(s, c), NEW t \in Thread, Owner(t) = s.account
  PROVE  /\ Own(Listed(s, t), c) /\ Alike(Listed(s, t), s)
         /\ Listed(s, t).questionPending = s.questionPending
<1> DEFINE n == Listed(s, t)
<1>1. n = [s EXCEPT !.threads = s.threads \cup {t}]  BY DEF Listed
<1> HIDE DEF n
<1>2. /\ n \in PageState /\ n.threads = s.threads \cup {t} /\ Alike(n, s)
      /\ n.threadId = s.threadId /\ n.thread = s.thread
      /\ n.questionPending = s.questionPending
  BY <1>1 DEF Own, PageState, Alike
<1>3. Own(n, c)  BY <1>2 DEF Own, Alike
<1> QED  BY <1>2, <1>3 DEF n

LEMMA OpenedIs ==
  ASSUME NEW s, NEW c, Own(s, c), NEW t \in Thread, Owner(t) = s.account
  PROVE  /\ Own(Opened(s, t), c) /\ Alike(Opened(s, t), s) /\ Opened(s, t).threadId = t
         /\ Opened(s, t).questionPending = s.questionPending
<1> DEFINE m == Listed(s, t)
           n == Opened(s, t)
<1>1. /\ Own(m, c) /\ Alike(m, s) /\ m.questionPending = s.questionPending
  BY ListedIs
<1> HIDE DEF m
<1>2. n = [m EXCEPT !.threadId = t, !.thread = t]  BY DEF Opened, m
<1> HIDE DEF n
<1>3. /\ n \in PageState /\ n.threads = m.threads /\ Alike(n, m)
      /\ n.threadId = t /\ n.thread = t
      /\ n.questionPending = m.questionPending
  BY <1>1, <1>2 DEF Own, PageState, Alike
<1>4. Own(n, c)  BY <1>1, <1>3 DEF Own, Alike
<1> QED  BY <1>1, <1>3, <1>4 DEF n, Alike

LEMMA RemovedIs ==
  ASSUME NEW s, NEW c, Own(s, c), NEW t
  PROVE  /\ Own(Removed(s, t), c) /\ Alike(Removed(s, t), s)
         /\ Removed(s, t).questionPending = s.questionPending
<1> DEFINE n == Removed(s, t)
           i == IF s.threadId = t THEN None ELSE s.threadId
           shown == IF s.threadId = t THEN None ELSE s.thread
<1>1. n = [s EXCEPT !.threads = s.threads \ {t}, !.threadId = i, !.thread = shown]
  BY DEF Removed
<1>2. i \in {None, s.threadId} /\ shown \in {None, s.thread}  OBVIOUS
<1> HIDE DEF n, i, shown
<1>3. /\ n \in PageState /\ n.threads = s.threads \ {t} /\ Alike(n, s)
      /\ n.threadId = i /\ n.thread = shown
      /\ n.questionPending = s.questionPending
  BY <1>1, <1>2 DEF Own, PageState, Alike
<1>4. Own(n, c)  BY <1>2, <1>3 DEF Own, Alike
<1> QED  BY <1>3, <1>4 DEF n

LEMMA ReadDoneIs ==
  ASSUME NEW s, NEW c, Own(s, c), NEW h
  PROVE  /\ Own(ReadDone(s, h), c) /\ Alike(ReadDone(s, h), s)
         /\ ReadDone(s, h).questionPending => s.questionPending /\ h.then # "ask"
<1> DEFINE n == ReadDone(s, h)
<1>1. PICK b \in BOOLEAN : b = (s.questionPending /\ h.then # "ask")
  BY DEF Own, PageState
<1>2. n = [s EXCEPT !.conversationPending = FALSE, !.questionPending = b]
  BY <1>1 DEF ReadDone
<1> HIDE DEF n
<1>3. /\ n \in PageState /\ n.threads = s.threads /\ Alike(n, s)
      /\ n.threadId = s.threadId /\ n.thread = s.thread /\ n.questionPending = b
  BY <1>1, <1>2 DEF Own, PageState, Alike
<1>4. Own(n, c)  BY <1>3 DEF Own, Alike
<1> QED  BY <1>1, <1>3, <1>4 DEF n

\* Neither mark of the conversation belongs to what is shown.
LEMMA PendingIs ==
  ASSUME NEW s, NEW c, Own(s, c), NEW p \in BOOLEAN, NEW q \in BOOLEAN
  PROVE  /\ Own([s EXCEPT !.conversationPending = p], c)
         /\ Alike([s EXCEPT !.conversationPending = p], s)
         /\ [s EXCEPT !.conversationPending = p].questionPending = s.questionPending
         /\ [s EXCEPT !.conversationPending = p].threadId = s.threadId
         /\ Own([s EXCEPT !.questionPending = q], c)
         /\ Alike([s EXCEPT !.questionPending = q], s)
         /\ [s EXCEPT !.questionPending = q].questionPending = q
<1>1. PICK n : n = [s EXCEPT !.conversationPending = p]  OBVIOUS
<1>2. PICK m : m = [s EXCEPT !.questionPending = q]  OBVIOUS
<1>3. /\ n \in PageState /\ n.threads = s.threads /\ Alike(n, s)
      /\ n.threadId = s.threadId /\ n.thread = s.thread
      /\ n.questionPending = s.questionPending
  BY <1>1 DEF Own, PageState, Alike
<1>4. /\ m \in PageState /\ m.threads = s.threads /\ Alike(m, s)
      /\ m.threadId = s.threadId /\ m.thread = s.thread /\ m.questionPending = q
  BY <1>2 DEF Own, PageState, Alike
<1>5. Own(n, c) /\ Own(m, c)  BY <1>3, <1>4 DEF Own, Alike
<1> QED  BY <1>1, <1>2, <1>3, <1>4, <1>5

LEMMA MarksAlike ==
  ASSUME NEW s, NEW old, Alike(s, old), NEW F, Marks(old, F)
  PROVE  Marks(s, F)
BY DEF Marks, Alike

\* A handler ends, and releases the question if it held it.
LEMMA EndKeeps ==
  ASSUME IInv, NEW h \in flight, h.kind \notin {"login", "logout", "refresh", "mutation"},
         NEW s, Own(s, cookie), Alike(s, state),
         s.questionPending => state.questionPending /\ ~Asks(h),
         state' = s, flight' = Rest(h), UNCHANGED cookie
  PROVE  IInv'
<1>1. Flies(Rest(h), s.account) /\ Marks(s, Rest(h))  BY RestIs, MarksAlike DEF Alike
<1>2. Awaited(s, Rest(h))  BY <1>1, RestIs DEF Awaited
<1> QED  BY <1>1, <1>2 DEF IInv, Fits

LEMMA ThreadsListedKeeps ==
  ASSUME IInv, NEW h \in flight, NEW T \in SUBSET Number, ThreadsListed(h, T)
  PROVE  IInv'
<1> DEFINE own == {<<h.as, n>> : n \in T}
           s == [state EXCEPT !.threads = own]
           asked == IF h.thread # None THEN {h.thread} ELSE s.threads \cap {s.threadId}
           selected == IF asked = {} THEN s.threads ELSE asked
<1>1. /\ h.kind = "list" /\ UNCHANGED cookie
      /\ \/ \E t \in selected : Read("load", s, Rest(h), t, h.then)
         \/ /\ selected = {}
            /\ state' = [s EXCEPT !.threadId = None, !.thread = None, !.conversationPending = FALSE]
            /\ flight' = Rest(h)
  BY DEF ThreadsListed, Awaits
<1>2. /\ Sent(h, state.account) /\ Own(state, cookie) /\ Flies(Rest(h), state.account)
      /\ Marks(state, Rest(h))
  BY <1>1, RestIs
<1>3. h.as = state.account /\ state.account # None /\ h.then \in {"nothing", "delete"}
      /\ h.thread \in Thread \cup {None}
  BY <1>1, <1>2, ThenIs DEF Sent, Request
<1>4. own \in SUBSET Thread /\ \A t \in own : Owner(t) = state.account
  BY <1>2, <1>3 DEF Own, PageState, Thread, Owner
<1> HIDE DEF own
<1>5. /\ s \in PageState /\ s.threads = own /\ Alike(s, state)
      /\ s.threadId = state.threadId /\ s.thread = state.thread
      /\ s.questionPending = state.questionPending
  BY <1>2, <1>4 DEF Own, PageState, Alike
<1> HIDE DEF s
<1>6. Own(s, cookie) /\ Marks(s, Rest(h)) /\ Flies(Rest(h), s.account) /\ s.account # None
  BY <1>2, <1>3, <1>4, <1>5, MarksAlike DEF Own, Alike
<1>7. CASE \E t \in selected : Read("load", s, Rest(h), t, h.then)
  <2>1. PICK t \in selected : Read("load", s, Rest(h), t, h.then)  BY <1>7
  <2>2. t \in Thread /\ t # None  BY <1>3, <1>4, <1>5, ThreadIs
  <2>3. h.then \in Thens("load")  BY <1>3, ThensIs
  <2> QED  BY <1>1, <1>6, <2>1, <2>2, <2>3, ReadKeeps
<1>8. CASE state' = [s EXCEPT !.threadId = None, !.thread = None, !.conversationPending = FALSE]
           /\ flight' = Rest(h)
  <2>1. /\ state' \in PageState /\ state'.threads = s.threads /\ Alike(state', s)
        /\ state'.threadId = None /\ state'.thread = None
        /\ state'.questionPending = s.questionPending
    BY <1>5, <1>8 DEF PageState, Alike
  <2>2. Own(state', cookie)  BY <1>6, <2>1 DEF Own, Alike
  <2>3. ~Asks(h)  BY <1>1, <1>3 DEF Asks
  <2>4. PICK n : n = state'  OBVIOUS
  <2> QED  BY <1>1, <1>5, <1>8, <2>1, <2>2, <2>3, <2>4, EndKeeps DEF Alike
<1> QED  BY <1>1, <1>7, <1>8

LEMMA ThreadReadKeeps ==
  ASSUME IInv, NEW h \in flight, ThreadLoaded(h) \/ ThreadGone(h) \/ ReadFailed(h)
  PROVE  IInv'
<1>1. h.kind \in {"list", "load"} /\ flight' = Rest(h) /\ UNCHANGED cookie
  BY DEF ThreadLoaded, ThreadGone, ReadFailed, Awaits, Reading, Of
<1>2. Sent(h, state.account) /\ Own(state, cookie)  BY RestIs
<1>3. ASSUME NEW s, Own(s, cookie), Alike(s, state), s.questionPending = state.questionPending,
             state' = ReadDone(s, h)
      PROVE  IInv'
  <2>1. PICK n : n = ReadDone(s, h)  OBVIOUS
  <2>2. /\ Own(n, cookie) /\ Alike(n, state)
        /\ n.questionPending => state.questionPending /\ h.then # "ask"
    BY <1>3, <2>1, ReadDoneIs DEF Alike
  <2> QED  BY <1>1, <1>3, <2>1, <2>2, EndKeeps DEF Asks
<1>4. CASE ThreadLoaded(h)
  <2>1. h.thread \in Thread /\ Owner(h.thread) = state.account
    BY <1>2, <1>4 DEF ThreadLoaded, Awaits, Sent, Request
  <2>2. PICK s : s = Opened(state, h.thread)  OBVIOUS
  <2>3. Own(s, cookie) /\ Alike(s, state) /\ s.questionPending = state.questionPending
    BY <1>2, <2>1, <2>2, OpenedIs
  <2> QED  BY <1>3, <1>4, <2>2, <2>3 DEF ThreadLoaded
<1>5. CASE ThreadGone(h)
  <2>1. PICK s : s = Removed(state, h.thread)  OBVIOUS
  <2>2. Own(s, cookie) /\ Alike(s, state) /\ s.questionPending = state.questionPending
    BY <1>2, <2>1, RemovedIs
  <2> QED  BY <1>3, <1>5, <2>1, <2>2 DEF ThreadGone
<1>6. CASE ReadFailed(h)
  <2>1. PICK s : s = state  OBVIOUS
  <2> QED  BY <1>2, <1>3, <1>6, <2>1 DEF ReadFailed, Alike
<1> QED  BY <1>4, <1>5, <1>6

LEMMA CreatedKeeps ==
  ASSUME IInv, NEW h \in flight, NEW t \in Thread, Created(h, t)
  PROVE  IInv'
<1> DEFINE s == [Opened(state, t) EXCEPT !.conversationPending = FALSE]
<1>1. /\ h.kind = "create" /\ h.as = Owner(t) /\ UNCHANGED cookie
      /\ IF h.then = "ask" THEN PostQuestion(s, Rest(h)) ELSE state' = s /\ flight' = Rest(h)
  BY DEF Created, Awaits
<1>2. /\ Sent(h, state.account) /\ Own(state, cookie) /\ Flies(Rest(h), state.account)
      /\ Marks(state, Rest(h)) /\ ~Asks(h)
  BY <1>1, RestIs DEF Asks
<1>3. Owner(t) = state.account /\ state.account # None  BY <1>1, <1>2 DEF Sent
<1>4. PICK m : m = Opened(state, t)  OBVIOUS
<1>5. /\ Own(m, cookie) /\ Alike(m, state) /\ m.threadId = t
      /\ m.questionPending = state.questionPending
  BY <1>2, <1>3, <1>4, OpenedIs
<1>6. PICK n : n = [m EXCEPT !.conversationPending = FALSE] /\ n = s  BY <1>4
<1> HIDE DEF s
<1>7. /\ Own(n, cookie) /\ Alike(n, m) /\ n.threadId = t
      /\ n.questionPending = m.questionPending
  <2>1. Own(m, cookie) /\ n = [m EXCEPT !.conversationPending = FALSE]  BY <1>5, <1>6
  <2>2. /\ Own(n, cookie) /\ Alike(n, m) /\ n.threadId = m.threadId
        /\ n.questionPending = m.questionPending
    BY <2>1, PendingIs
  <2> QED  BY <1>5, <2>2
<1>8. Alike(n, state) /\ n.questionPending = state.questionPending
  BY <1>5, <1>7 DEF Alike
<1>9. CASE h.then = "ask"
  <2>1. PostQuestion(n, Rest(h))  BY <1>1, <1>6, <1>9
  <2>2. Marks(n, Rest(h)) /\ Flies(Rest(h), n.account) /\ n.account # None
    BY <1>2, <1>3, <1>8, MarksAlike DEF Alike
  <2>3. n.threadId # None  BY <1>7, ThreadIs
  <2> QED  BY <1>1, <1>7, <2>1, <2>2, <2>3, PostKeeps
<1>10. CASE h.then # "ask"
  BY <1>1, <1>2, <1>6, <1>7, <1>8, <1>10, EndKeeps
<1> QED  BY <1>9, <1>10

\* A handler that only releases its mark.
LEMMA ReleaseKeeps ==
  ASSUME IInv, NEW h \in flight, CreateFailed(h) \/ QuestionFailed(h) \/ DeleteFailed(h)
  PROVE  IInv'
<1>1. /\ h.kind \in {"create", "ask", "delete"} /\ flight' = Rest(h) /\ UNCHANGED cookie
      /\ \/ state' = [state EXCEPT !.questionPending = FALSE]
         \/ h.kind # "ask" /\ state' = [state EXCEPT !.conversationPending = FALSE]
  BY DEF CreateFailed, QuestionFailed, DeleteFailed, Awaits
<1>2. Sent(h, state.account) /\ Own(state, cookie)  BY RestIs
<1>3. h.kind # "ask" => ~Asks(h)  BY <1>1, <1>2, ThenIs DEF Asks
<1>4. PICK n : n = state'  OBVIOUS
<1>5. CASE state' = [state EXCEPT !.questionPending = FALSE]
  <2>1. Own(n, cookie) /\ Alike(n, state) /\ n.questionPending = FALSE
    BY <1>2, <1>4, <1>5, PendingIs
  <2> QED  BY <1>1, <1>4, <2>1, EndKeeps
<1>6. CASE h.kind # "ask" /\ state' = [state EXCEPT !.conversationPending = FALSE]
  <2>1. /\ Own(n, cookie) /\ Alike(n, state)
        /\ n.questionPending = state.questionPending
    BY <1>2, <1>4, <1>6, PendingIs
  <2> QED  BY <1>1, <1>3, <1>4, <1>6, <2>1, EndKeeps
<1> QED  BY <1>1, <1>5, <1>6

LEMMA AnsweredKeeps ==
  ASSUME IInv, NEW h \in flight, Answered(h)
  PROVE  IInv'
<1>1. /\ h.kind = "ask" /\ h.as = Owner(h.thread) /\ flight' = Rest(h) /\ UNCHANGED cookie
  BY DEF Answered, Awaits
<1>2. Sent(h, state.account) /\ Own(state, cookie)  BY RestIs
<1>3. h.thread \in Thread /\ Owner(h.thread) = state.account
  BY <1>1, <1>2 DEF Sent, Request
<1>4. PICK n : n = state'  OBVIOUS
<1>5. CASE h.user = state.loaded
  <2>1. PICK s : s = Listed(state, h.thread)  OBVIOUS
  <2>2. Own(s, cookie) /\ Alike(s, state)  BY <1>2, <1>3, <2>1, ListedIs
  <2>3. n = [s EXCEPT !.thread = h.thread, !.questionPending = FALSE]
    BY <1>4, <1>5, <2>1 DEF Answered
  <2>4. /\ n \in PageState /\ n.threads = s.threads /\ Alike(n, s)
        /\ n.threadId = s.threadId /\ n.thread = h.thread /\ n.questionPending = FALSE
    BY <1>3, <2>2, <2>3 DEF Own, PageState, Alike
  <2>5. Own(n, cookie) /\ Alike(n, state)
    BY <1>3, <2>2, <2>4 DEF Own, Alike
  <2> QED  BY <1>1, <1>4, <2>4, <2>5, EndKeeps
<1>6. CASE h.user # state.loaded
  <2>1. n = [state EXCEPT !.questionPending = FALSE]  BY <1>4, <1>6 DEF Answered
  <2>2. Own(n, cookie) /\ Alike(n, state) /\ n.questionPending = FALSE
    BY <1>2, <2>1, PendingIs
  <2> QED  BY <1>1, <1>4, <2>2, EndKeeps
<1> QED  BY <1>5, <1>6

LEMMA DisputedKeeps ==
  ASSUME IInv, NEW h \in flight, Disputed(h)
  PROVE  IInv'
<1>1. h.kind = "ask" /\ UNCHANGED cookie  BY DEF Disputed, Awaits
<1>2. /\ Sent(h, state.account) /\ Own(state, cookie) /\ Flies(Rest(h), state.account)
      /\ Marks(state, Rest(h))
  BY <1>1, RestIs
<1>3. state.account # None /\ h.thread \in Thread \cup {None} /\ h.thread # None
  BY <1>1, <1>2 DEF Sent, Request
<1>4. CASE h.user = state.loaded
  <2>1. Read("load", state, Rest(h), h.thread, "ask")  BY <1>4 DEF Disputed
  <2> QED  BY <1>1, <1>2, <1>3, <2>1, ReadKeeps, ThensIs
<1>5. CASE h.user # state.loaded
  <2>1. PICK n : n = state'  OBVIOUS
  <2>2. n = [state EXCEPT !.questionPending = FALSE] /\ flight' = Rest(h)
    BY <1>5, <2>1 DEF Disputed
  <2>3. Own(n, cookie) /\ Alike(n, state) /\ n.questionPending = FALSE
    BY <1>2, <2>2, PendingIs
  <2> QED  BY <1>1, <2>1, <2>2, <2>3, EndKeeps
<1> QED  BY <1>4, <1>5

\* A read that is not made, because nobody is signed in any more.
LEMMA NoReadKeeps ==
  ASSUME IInv, NEW h \in flight, h.kind = "delete", NEW s, Own(s, cookie), Alike(s, state),
         s.questionPending = state.questionPending, s.account = None,
         NEW kind, NEW t, NEW then, Read(kind, s, Rest(h), t, then), UNCHANGED cookie
  PROVE  IInv'
<1>1. state' = [s EXCEPT !.conversationPending = FALSE] /\ flight' = Rest(h)
  BY DEF Read
<1>2. ~Asks(h)
  <2>1. Sent(h, state.account)  BY RestIs
  <2> QED  BY <2>1, ThenIs DEF Asks
<1>3. PICK n : n = state'  OBVIOUS
<1>4. Own(n, cookie) /\ Alike(n, s) /\ n.questionPending = s.questionPending
  BY <1>1, <1>3, PendingIs
<1> QED  BY <1>1, <1>2, <1>3, <1>4, EndKeeps DEF Alike

LEMMA DeletionKeeps ==
  ASSUME IInv, NEW h \in flight, Deleted(h) \/ DeleteRefused(h)
  PROVE  IInv'
<1>1. h.kind = "delete" /\ UNCHANGED cookie  BY DEF Deleted, DeleteRefused, Awaits
<1>2. /\ Sent(h, state.account) /\ Own(state, cookie) /\ Flies(Rest(h), state.account)
      /\ Marks(state, Rest(h))
  BY <1>1, RestIs
<1>3. ~Asks(h)  BY <1>1, <1>2, ThenIs DEF Asks
<1>4. ASSUME NEW s, Own(s, cookie), Alike(s, state), s.questionPending = state.questionPending,
             NEW kind \in {"list", "load"}, NEW t \in Thread \cup {None},
             kind = "load" => t # None, Read(kind, s, Rest(h), t, "delete")
      PROVE  IInv'
  <2>1. CASE s.account = None  BY <1>1, <1>4, <2>1, NoReadKeeps
  <2>2. CASE s.account # None
    <3>1. Marks(s, Rest(h)) /\ Flies(Rest(h), s.account)  BY <1>2, <1>4, MarksAlike DEF Alike
    <3>2. "delete" \in Thens(kind)  BY ThensIs
    <3> QED  BY <1>1, <1>4, <2>2, <3>1, <3>2, ReadKeeps
  <2> QED  BY <2>1, <2>2
<1>5. CASE Deleted(h)
  <2>1. PICK s : s = Removed(state, h.thread)  OBVIOUS
  <2>2. Own(s, cookie) /\ Alike(s, state) /\ s.questionPending = state.questionPending
    BY <1>2, <2>1, RemovedIs
  <2>3. CASE \E t \in s.threads : Read("load", s, Rest(h), t, "delete")
    <3>1. PICK t \in s.threads : Read("load", s, Rest(h), t, "delete")  BY <2>3
    <3>2. t \in Thread /\ t # None  BY <2>2, ThreadIs DEF Own, PageState
    <3> QED  BY <1>4, <2>2, <3>1, <3>2
  <2>4. CASE state' = [s EXCEPT !.conversationPending = FALSE] /\ flight' = Rest(h)
    <3>1. PICK n : n = state'  OBVIOUS
    <3>2. Own(n, cookie) /\ Alike(n, s) /\ n.questionPending = s.questionPending
      BY <2>2, <2>4, <3>1, PendingIs
    <3> QED  BY <1>1, <1>3, <2>2, <2>4, <3>1, <3>2, EndKeeps DEF Alike
  <2> QED  BY <1>5, <2>1, <2>3, <2>4 DEF Deleted
<1>6. CASE DeleteRefused(h)
  <2>1. Read("list", state, Rest(h), state.threadId, "delete")  BY <1>6 DEF DeleteRefused
  <2>2. state.threadId \in Thread \cup {None}  BY <1>2 DEF Own, PageState
  <2>3. PICK s : s = state  OBVIOUS
  <2> QED  BY <1>2, <1>4, <2>1, <2>2, <2>3 DEF Alike
<1> QED  BY <1>5, <1>6

(***************************************************************************)
(* Signing in and out, the portfolio and mutations.                        *)
(***************************************************************************)

\* A handler ends that held any of the marks.
LEMMA DoneKeeps ==
  ASSUME IInv, NEW h \in flight, ~Asks(h), NEW n, Own(n, cookie), n.account = state.account,
         n.questionPending = state.questionPending, Marks(n, Rest(h)),
         state' = n, flight' = Rest(h), UNCHANGED cookie
  PROVE  IInv'
<1>1. Flies(Rest(h), n.account) /\ Awaited(n, Rest(h))  BY RestIs DEF Awaited
<1> QED  BY <1>1 DEF IInv, Fits

\* One more request, when what is left of the flight suffices for the marks or it does.
LEMMA MoreKeeps ==
  ASSUME NEW F, NEW h, NEW n, Own(n, cookie), Flies(F, n.account), Sent(h, n.account),
         h.kind # "login", Awaited(n, F \cup {h}),
         state' = n, flight' = F \cup {h}, UNCHANGED cookie
  PROVE  IInv'
<1>1. Flies(F \cup {h}, n.account)  BY OneMoreFlies
<1> QED  BY <1>1 DEF IInv, Fits

LEMMA LoginKeeps ==
  ASSUME IInv, NEW a \in Account, Login(a)
  PROVE  IInv'
<1> DEFINE h == [Send("login", state, None, "nothing") EXCEPT !.user = a]
<1>1. /\ state.account = None /\ state.auth = "idle" /\ Of(flight, {"login"}) = {}
      /\ state' = [state EXCEPT !.auth = "logging_in"] /\ flight' = flight \cup {h}
      /\ UNCHANGED cookie
  BY DEF Login
<1>2. h = [kind |-> "login", as |-> cookie, thread |-> None, user |-> a, then |-> "nothing"]
  BY DEF Send
<1> HIDE DEF h
<1>3. Own(state, cookie) /\ Flies(flight, state.account) /\ Awaited(state, flight)
  BY DEF IInv, Fits
<1>4. cookie \in Account \cup {None} /\ a # None  BY <1>3, NoneAssumption DEF Own
<1>5. h \in Request  BY <1>2, <1>4 DEF Request
<1>6. Sent(h, None) /\ h.kind = "login"  BY <1>2, <1>4, <1>5, ThensIs DEF Sent
<1>7. /\ state' \in PageState /\ state'.threads = state.threads /\ state'.account = None
      /\ state'.loaded = state.loaded /\ state'.write = state.write
      /\ state'.reading = state.reading /\ state'.auth = "logging_in"
      /\ state'.threadId = state.threadId /\ state'.thread = state.thread
      /\ state'.questionPending = state.questionPending
  BY <1>1, <1>3 DEF Own, PageState
<1>8. Own(state', cookie')  BY <1>1, <1>3, <1>7 DEF Own
<1>9. \A g \in flight : g.kind # "login"  BY <1>1 DEF Of
<1>10. Flies(flight', None)  BY <1>1, <1>3, <1>6, <1>9 DEF Flies
<1>11. Awaited(state', flight')  BY <1>1, <1>3, <1>6, <1>7 DEF Awaited, Marks
<1> QED  BY <1>7, <1>8, <1>10, <1>11 DEF IInv, Fits

\* While a login is awaited nobody is signed in: nothing is shown, nothing a generation
\* guards is in flight, and neither a refresh nor a question is pending.
LEMMA LoginIs ==
  ASSUME IInv, NEW h \in flight, h.kind = "login"
  PROVE  /\ h.user \in Account /\ h.user # None /\ state.account = None /\ state.loaded = None
         /\ state.threads = {} /\ state.threadId = None /\ state.thread = None
         /\ ~state.reading /\ ~state.questionPending
         /\ \A g \in Rest(h) : g.kind \in {"logout", "mutation", "delete"}
         /\ \A a : Flies(Rest(h), a)
<1>1. /\ Sent(h, state.account) /\ Own(state, cookie) /\ Flies(flight, state.account)
      /\ Awaited(state, flight)
  BY DEF IInv, Fits, Flies
<1>2. h.user \in Account /\ h.user # None /\ state.account = None
  BY <1>1 DEF Sent, Request
<1>3. /\ state.loaded = None /\ state.threads = {} /\ state.threadId = None
      /\ state.thread = None
  <2>1. \A t \in Thread : Owner(t) # None  BY ThreadIs
  <2> QED  BY <1>1, <1>2, <2>1 DEF Own, PageState
<1>4. \A g \in flight : /\ g.kind \in {"login", "logout", "mutation", "delete"}
                        /\ g.then = "nothing"
  <2> SUFFICES ASSUME NEW g \in flight
               PROVE  g.kind \in {"login", "logout", "mutation", "delete"} /\ g.then = "nothing"
    OBVIOUS
  <2>1. Sent(g, None)  BY <1>1, <1>2 DEF Flies
  <2>2. g.kind \in {"login", "logout", "mutation", "delete"}  BY <2>1 DEF Sent, Request
  <2> QED  BY <2>1, <2>2, ThenIs
<1>5. ~state.reading /\ ~state.questionPending  BY <1>1, <1>4 DEF Awaited, Marks, Asks
<1>6. \A g \in Rest(h) : g.kind \in {"logout", "mutation", "delete"}
  BY <1>1, <1>4 DEF Flies, Rest
<1>7. ASSUME NEW a  PROVE Flies(Rest(h), a)
  <2>1. \A g \in Rest(h) : Sent(g, None)  BY <1>1, <1>2 DEF Flies, Rest
  <2> QED  BY <1>6, <2>1 DEF Flies, Sent
<1> QED  BY <1>2, <1>3, <1>5, <1>6, <1>7

LEMMA LoggedInKeeps ==
  ASSUME IInv, NEW h \in flight, LoggedIn(h)
  PROVE  IInv'
<1> DEFINE s == [state EXCEPT !.auth = "idle", !.account = h.user]
           r == [Send("refresh", s, None, "workspace") EXCEPT !.as = h.user]
<1>1. /\ h.kind = "login" /\ cookie' = h.user
      /\ \/ MayRefresh(s) /\ state' = [s EXCEPT !.reading = TRUE] /\ flight' = Rest(h) \cup {r}
         \/ state' = s /\ flight' = Rest(h)
  BY DEF LoggedIn, Awaits
<1>2. /\ Own(state, cookie) /\ Awaited(state, flight)  BY DEF IInv, Fits
<1>3. /\ s \in PageState /\ s.account = h.user /\ s.auth = "idle" /\ s.loaded = None
      /\ s.threads = {} /\ s.threadId = None /\ s.thread = None /\ s.write = state.write
      /\ s.reading = FALSE /\ s.questionPending = FALSE
  BY <1>1, <1>2, LoginIs DEF Own, PageState
<1>4. /\ r = [kind |-> "refresh", as |-> h.user, thread |-> None, user |-> None,
             then |-> "workspace"]
  BY <1>3 DEF Send
<1> HIDE DEF s, r
<1>5. h.user \in Account /\ h.user # None /\ Flies(Rest(h), h.user)  BY <1>1, LoginIs
<1>6. Own(s, cookie')  BY <1>1, <1>3, <1>5 DEF Own
<1>7. Awaited(s, Rest(h))
  <2>1. state.write = "submitting" => \E g \in Rest(h) : g.kind = "mutation"
    <3>1. h.then # "mutation"
      <4>1. Sent(h, state.account)  BY RestIs
      <4> QED  BY <1>1, <4>1, ThenIs
    <3>2. \A g \in Rest(h) : g.then # "mutation"
      <4>1. \A g \in Rest(h) : Sent(g, h.user) /\ g.kind # "refresh"
        BY <1>1, <1>5, LoginIs DEF Flies
      <4> QED  BY <4>1, ThenIs
    <3> QED  BY <1>1, <1>2, <3>1, <3>2 DEF Awaited, Marks, Rest
  <2> QED  BY <1>3, <2>1 DEF Awaited, Marks
<1>8. CASE state' = s /\ flight' = Rest(h)
  BY <1>3, <1>5, <1>6, <1>7, <1>8 DEF IInv, Fits
<1>9. CASE MayRefresh(s) /\ state' = [s EXCEPT !.reading = TRUE] /\ flight' = Rest(h) \cup {r}
  <2>1. r \in Request  BY <1>4, <1>5 DEF Request
  <2>2. Sent(r, h.user) /\ r.kind = "refresh"
    BY <1>4, <1>5, <2>1, ThensIs DEF Sent
  <2>3. /\ state' \in PageState /\ state'.threads = s.threads
        /\ state'.account = s.account /\ state'.loaded = s.loaded /\ state'.write = s.write
        /\ state'.auth = s.auth /\ state'.threadId = s.threadId /\ state'.thread = s.thread
        /\ state'.questionPending = s.questionPending
    BY <1>3, <1>9 DEF PageState
  <2>4. Own(state', cookie')  BY <1>3, <1>6, <2>3 DEF Own
  <2>5. Flies(flight', h.user)  BY <1>5, <1>9, <2>2, OneMoreFlies
  <2>6. Awaited(state', flight')  BY <1>3, <1>7, <1>9, <2>2, <2>3 DEF Awaited, Marks
  <2> QED  BY <1>3, <2>3, <2>4, <2>5, <2>6 DEF IInv, Fits
<1> QED  BY <1>1, <1>8, <1>9

\* Only auth changes.
LEMMA LoginOutFailedKeeps ==
  ASSUME IInv, NEW h \in flight, LoginFailed(h) \/ LogoutFailed(h)
  PROVE  IInv'
<1>1. /\ h.kind \in {"login", "logout"} /\ state' = [state EXCEPT !.auth = "idle"]
      /\ flight' = Rest(h) /\ UNCHANGED cookie
  BY DEF LoginFailed, LogoutFailed, Awaits
<1>2. Sent(h, state.account) /\ Own(state, cookie) /\ Awaited(state, flight)
  BY RestIs DEF IInv, Fits
<1>3. PICK n : n = state'  OBVIOUS
<1>4. /\ n \in PageState /\ n.threads = state.threads /\ n.account = state.account
      /\ n.loaded = state.loaded /\ n.write = state.write /\ n.reading = state.reading
      /\ n.auth = "idle" /\ n.threadId = state.threadId /\ n.thread = state.thread
      /\ n.questionPending = state.questionPending
  BY <1>1, <1>2, <1>3 DEF Own, PageState
<1>5. Own(n, cookie)  BY <1>2, <1>4 DEF Own
<1>6. h.then = "nothing"  BY <1>1, <1>2, ThenIs
<1>7. Marks(n, Rest(h))  BY <1>1, <1>2, <1>4, <1>6 DEF Awaited, Marks, Rest
<1>8. ~Asks(h)  BY <1>1, <1>6 DEF Asks
<1> QED  BY <1>1, <1>3, <1>4, <1>5, <1>7, <1>8, DoneKeeps

LEMMA LogoutKeeps ==
  ASSUME IInv, Logout
  PROVE  IInv'
<1>1. PICK c \in BOOLEAN :
        state' = [state EXCEPT !.auth = "logging_out", !.reading = FALSE,
                               !.questionPending = FALSE, !.conversationPending = c]
  BY DEF Logout, IInv, Fits, Own, PageState
<1>2. /\ state.account # None /\ state.write # "submitting" /\ UNCHANGED cookie
      /\ flight' = Unguarded(flight) \cup {Send("logout", state, None, "nothing")}
  BY DEF Logout
<1>3. Own(state, cookie) /\ Flies(flight, state.account)  BY DEF IInv, Fits
<1>4. PICK h : h = Send("logout", state, None, "nothing")  OBVIOUS
<1>5. Sent(h, state.account) /\ h.kind = "logout"
  BY <1>2, <1>3, <1>4, SendIs, ThensIs
<1>6. PICK n : n = state'  OBVIOUS
<1>7. /\ n \in PageState /\ n.threads = state.threads /\ n.account = state.account
      /\ n.loaded = state.loaded /\ n.write = state.write /\ n.reading = FALSE
      /\ n.auth = "logging_out" /\ n.threadId = state.threadId /\ n.thread = state.thread
      /\ n.questionPending = FALSE
  BY <1>1, <1>3, <1>6 DEF Own, PageState
<1>8. Own(n, cookie)  BY <1>3, <1>7 DEF Own
<1>9. Flies(Unguarded(flight), state.account)  BY <1>3, FewerFly DEF Unguarded, Of
<1>10. Awaited(n, Unguarded(flight) \cup {h})  BY <1>2, <1>5, <1>7 DEF Awaited, Marks
<1> QED  BY <1>2, <1>4, <1>5, <1>6, <1>7, <1>8, <1>9, <1>10, MoreKeeps

LEMMA LeavingKeeps ==
  ASSUME IInv, NEW h \in flight, LoggedOut(h) \/ Expired(h)
  PROVE  IInv'
<1>1. Flies(Rest(h), state.account) /\ Own(state, cookie)  BY RestIs
<1>2. EnterHome(Rest(h)) /\ cookie' \in Account \cup {None}
  BY <1>1 DEF LoggedOut, Expired, Own
<1> QED  BY <1>1, <1>2, HomeKeeps

LEMMA ReloadKeeps ==
  ASSUME IInv, Reload
  PROVE  IInv'
<1>1. /\ state.account # None /\ state.write # "submitting" /\ MayRefresh(state)
      /\ Refresh(state, flight, "nothing") /\ UNCHANGED cookie
  BY DEF Reload, MayClick, Busy
<1>2. Own(state, cookie) /\ Flies(flight, state.account)  BY DEF IInv, Fits
<1> QED  BY <1>1, <1>2, RefreshKeeps, ThensIs

LEMMA RefreshedKeeps ==
  ASSUME IInv, NEW h \in flight, Refreshed(h) \/ RefreshFailed(h)
  PROVE  IInv'
<1>1. h.kind = "refresh" /\ UNCHANGED cookie  BY DEF Refreshed, RefreshFailed, Awaits
<1>2. /\ Sent(h, state.account) /\ Own(state, cookie) /\ Flies(Rest(h), state.account)
      /\ Awaited(state, flight)
  BY RestIs DEF IInv, Fits
<1>3. h.as = state.account /\ state.account # None /\ ~Asks(h)
  BY <1>1, <1>2, ThenIs DEF Sent, Asks
<1>4. ASSUME NEW n \in PageState, n.threads = state.threads, n.account = state.account,
             n.loaded \in {state.loaded, state.account}, n.write # "submitting",
             n.reading = FALSE, n.auth = state.auth, n.threadId = state.threadId,
             n.thread = state.thread, n.questionPending = state.questionPending
      PROVE  Own(n, cookie) /\ Marks(n, Rest(h))
  BY <1>1, <1>2, <1>4 DEF Own, Awaited, Marks, Rest
<1>5. CASE Refreshed(h)
  <2>1. PICK s : s = [state EXCEPT !.reading = FALSE, !.loaded = h.as, !.write = "idle"]
    OBVIOUS
  <2>2. \/ Read("list", s, Rest(h), None, "nothing")
        \/ state' = s /\ flight' = Rest(h)
    BY <1>5, <2>1 DEF Refreshed
  <2>3. /\ s \in PageState /\ s.threads = state.threads /\ s.account = state.account
        /\ s.loaded = state.account /\ s.write = "idle" /\ s.reading = FALSE
        /\ s.auth = state.auth /\ s.threadId = state.threadId /\ s.thread = state.thread
        /\ s.questionPending = state.questionPending
    BY <1>2, <1>3, <2>1 DEF Own, PageState
  <2>4. Own(s, cookie) /\ Marks(s, Rest(h))  BY <1>4, <2>3
  <2>5. CASE Read("list", s, Rest(h), None, "nothing")
    BY <1>1, <1>2, <1>3, <2>3, <2>4, <2>5, ReadKeeps, ThensIs
  <2>6. CASE state' = s /\ flight' = Rest(h)
    BY <1>1, <1>3, <2>3, <2>4, <2>6, DoneKeeps
  <2> QED  BY <2>2, <2>5, <2>6
<1>6. CASE RefreshFailed(h)
  <2>1. PICK n : n = state'  OBVIOUS
  <2>2. n = [state EXCEPT !.reading = FALSE, !.write = "refresh_required"]
        /\ flight' = Rest(h)
    BY <1>6, <2>1 DEF RefreshFailed
  <2>3. /\ n \in PageState /\ n.threads = state.threads /\ n.account = state.account
        /\ n.loaded = state.loaded /\ n.write # "submitting" /\ n.reading = FALSE
        /\ n.auth = state.auth /\ n.threadId = state.threadId /\ n.thread = state.thread
        /\ n.questionPending = state.questionPending
    BY <1>2, <2>2 DEF Own, PageState
  <2>4. Own(n, cookie) /\ Marks(n, Rest(h))  BY <1>4, <2>3
  <2> QED  BY <1>1, <1>3, <2>1, <2>2, <2>3, <2>4, DoneKeeps
<1> QED  BY <1>5, <1>6

LEMMA MutateKeeps ==
  ASSUME IInv, Mutate
  PROVE  IInv'
<1>1. /\ state.account # None /\ state.loaded # None
      /\ state' = [state EXCEPT !.write = "submitting"]
      /\ flight' = flight \cup {Send("mutation", state, None, "nothing")}
      /\ UNCHANGED cookie
  BY DEF Mutate, MayClick, ContextReady
<1>2. Own(state, cookie) /\ Flies(flight, state.account) /\ Awaited(state, flight)
  BY DEF IInv, Fits
<1>3. PICK h : h = Send("mutation", state, None, "nothing")  OBVIOUS
<1>4. Sent(h, state.account) /\ h.kind = "mutation"  BY <1>1, <1>2, <1>3, SendIs, ThensIs
<1>5. PICK n : n = state'  OBVIOUS
<1>6. /\ n \in PageState /\ n.threads = state.threads /\ n.account = state.account
      /\ n.loaded = state.loaded /\ n.write = "submitting" /\ n.reading = state.reading
      /\ n.auth = state.auth /\ n.threadId = state.threadId /\ n.thread = state.thread
      /\ n.questionPending = state.questionPending
  BY <1>1, <1>2, <1>5 DEF Own, PageState
<1>7. Own(n, cookie)  BY <1>2, <1>6 DEF Own
<1>8. Awaited(n, flight \cup {h})  BY <1>2, <1>4, <1>6 DEF Awaited, Marks
<1> QED  BY <1>1, <1>2, <1>3, <1>4, <1>5, <1>6, <1>7, <1>8, MoreKeeps

LEMMA MutatedKeeps ==
  ASSUME IInv, NEW h \in flight, Mutated(h) \/ MutationFailed(h)
  PROVE  IInv'
<1>1. h.kind = "mutation" /\ UNCHANGED cookie  BY DEF Mutated, MutationFailed, Awaits
<1>2. /\ Sent(h, state.account) /\ Own(state, cookie) /\ Flies(Rest(h), state.account)
      /\ Awaited(state, flight)
  BY RestIs DEF IInv, Fits
<1>3. h.user # None /\ h.then = "nothing" /\ ~Asks(h)
  BY <1>1, <1>2, ThenIs DEF Sent, Asks
<1>4. PICK w : w = IF state.write = "submitting" THEN "idle" ELSE state.write  OBVIOUS
<1>5. w \in {"idle", "refresh_required"}  BY <1>2, <1>4 DEF Own, PageState
<1>6. ASSUME NEW v \in {"idle", "refresh_required"}, state' = [state EXCEPT !.write = v],
             flight' = Rest(h)
      PROVE  IInv'
  <2>1. PICK n : n = state'  OBVIOUS
  <2>2. /\ n \in PageState /\ n.threads = state.threads /\ n.account = state.account
        /\ n.loaded = state.loaded /\ n.write = v /\ n.reading = state.reading
        /\ n.auth = state.auth /\ n.threadId = state.threadId /\ n.thread = state.thread
        /\ n.questionPending = state.questionPending
    BY <1>2, <1>6, <2>1 DEF Own, PageState
  <2>3. Own(n, cookie)  BY <1>2, <2>2 DEF Own
  <2>4. Marks(n, Rest(h))  BY <1>1, <1>2, <1>6, <2>2 DEF Awaited, Marks, Rest
  <2> QED  BY <1>1, <1>3, <1>6, <2>1, <2>2, <2>3, <2>4, DoneKeeps
<1>7. CASE MutationFailed(h)  BY <1>6, <1>7 DEF MutationFailed
<1>8. CASE Mutated(h)
  <2>1. CASE state.loaded # h.user
    <3>1. state' = [state EXCEPT !.write = w] /\ flight' = Rest(h)
      BY <1>4, <1>8, <2>1 DEF Mutated, Released
    <3> QED  BY <1>5, <1>6, <3>1
  <2>2. CASE state.loaded = h.user /\ MayRefresh(state)
    <3>1. Refresh(state, Rest(h), "mutation")  BY <1>8, <2>2 DEF Mutated
    <3>2. state.account # None  BY <1>2, <1>3, <2>2 DEF Own
    <3> QED  BY <1>1, <1>2, <2>2, <3>1, <3>2, RefreshKeeps, ThensIs
  <2>3. CASE state.loaded = h.user /\ ~MayRefresh(state)
    <3>1. state' = [state EXCEPT !.write = "refresh_required"] /\ flight' = Rest(h)
      BY <1>8, <2>3 DEF Mutated
    <3> QED  BY <1>6, <3>1
  <2> QED  BY <2>1, <2>2, <2>3
<1> QED  BY <1>7, <1>8

(***************************************************************************)
(* Clicks about threads.                                                   *)
(***************************************************************************)

LEMMA OpenThreadKeeps ==
  ASSUME IInv, NEW t \in Thread, OpenThread(t)
  PROVE  IInv'
<1>1. state.account # None /\ Read("load", state, flight, t, "nothing") /\ UNCHANGED cookie
  BY DEF OpenThread, MayClick
<1>2. Own(state, cookie) /\ Flies(flight, state.account) /\ Marks(state, flight)
  BY DEF IInv, Fits, Awaited
<1>3. t # None  BY ThreadIs
<1> QED  BY <1>1, <1>2, <1>3, ReadKeeps, ThensIs

LEMMA GiveUpKeeps ==
  ASSUME IInv, NEW t \in Thread \cup {None}, NEW kind \in {"create", "delete"}, state.account # None,
         state' = [state EXCEPT !.questionPending = FALSE, !.conversationPending = TRUE],
         flight' = WithoutQuestion(flight) \cup {Send(kind, state, t, "nothing")},
         UNCHANGED cookie
  PROVE  IInv'
<1>1. Own(state, cookie) /\ Flies(flight, state.account) /\ Marks(state, flight)
  BY DEF IInv, Fits, Awaited
<1>2. PICK h : h = Send(kind, state, t, "nothing")  OBVIOUS
<1>3. Sent(h, state.account) /\ h.kind = kind  BY <1>1, <1>2, SendIs, ThensIs
<1>4. PICK n : n = state'  OBVIOUS
<1>5. /\ n \in PageState /\ n.threads = state.threads /\ Alike(n, state)
      /\ n.threadId = state.threadId /\ n.thread = state.thread /\ n.questionPending = FALSE
  BY <1>1, <1>4 DEF Own, PageState, Alike
<1>6. Own(n, cookie)  BY <1>1, <1>5 DEF Own, Alike
<1>7. Flies(WithoutQuestion(flight), n.account) /\ Marks(n, WithoutQuestion(flight))
  BY <1>1, <1>5, WithoutQuestionIs, MarksAlike DEF Alike
<1>8. Awaited(n, WithoutQuestion(flight) \cup {h})  BY <1>5, <1>7, MoreMarks DEF Awaited
<1> QED  BY <1>2, <1>3, <1>4, <1>5, <1>6, <1>7, <1>8, MoreKeeps DEF Alike

LEMMA AskKeeps ==
  ASSUME IInv, Ask
  PROVE  IInv'
<1>1. state.account # None /\ UNCHANGED cookie  BY DEF Ask, MayClick
<1>2. Own(state, cookie) /\ Flies(flight, state.account) /\ Awaited(state, flight)
  BY DEF IInv, Fits
<1>3. CASE state.threadId # None
  <2>1. PostQuestion(state, flight)  BY <1>3 DEF Ask
  <2> QED  BY <1>1, <1>2, <1>3, <2>1, PostKeeps DEF Awaited
<1>4. CASE state.threadId = None
  <2>1. PICK h : h = Send("create", state, None, "ask")  OBVIOUS
  <2>2. Sent(h, state.account) /\ h.kind = "create"  BY <1>1, <1>2, <2>1, SendIs, ThensIs
  <2>3. PICK n : n = state'  OBVIOUS
  <2>4. n = [state EXCEPT !.conversationPending = TRUE] /\ flight' = flight \cup {h}
    BY <1>4, <2>1, <2>3 DEF Ask
  <2>5. /\ n \in PageState /\ n.threads = state.threads /\ Alike(n, state)
        /\ n.threadId = state.threadId /\ n.thread = state.thread
        /\ n.questionPending = state.questionPending
    BY <1>2, <2>4 DEF Own, PageState, Alike
  <2>6. Own(n, cookie)  BY <1>2, <2>5 DEF Own, Alike
  <2>7. Awaited(n, flight \cup {h})  BY <1>2, <2>5 DEF Awaited, Marks, Alike
  <2> QED  BY <1>1, <1>2, <2>2, <2>3, <2>4, <2>5, <2>6, <2>7, MoreKeeps DEF Alike
<1> QED  BY <1>3, <1>4

(***************************************************************************)
(* The invariant and what follows from it.                                 *)
(***************************************************************************)

LEMMA InitInv ==
  ASSUME Init
  PROVE  IInv
<1>1. state = SignedOut /\ cookie = None /\ flight = {}  BY DEF Init
<1>2. /\ state \in PageState /\ state.account = None /\ state.loaded = None
      /\ state.threads = {} /\ state.threadId = None /\ state.thread = None
      /\ state.auth = "idle" /\ state.write = "idle" /\ state.reading = FALSE
      /\ state.questionPending = FALSE
  BY <1>1 DEF SignedOut, PageState
<1> QED  BY <1>1, <1>2 DEF IInv, Fits, Own, Flies, Awaited, Marks

LEMMA ClickKeeps ==
  ASSUME IInv, Click
  PROVE  IInv'
<1>1. CASE \E a \in Account : Login(a)  BY <1>1, LoginKeeps
<1>2. CASE Logout  BY <1>2, LogoutKeeps
<1>3. CASE Reload  BY <1>3, ReloadKeeps
<1>4. CASE Mutate  BY <1>4, MutateKeeps
<1>5. CASE NewQuestion
  <2>1. /\ state.account # None /\ UNCHANGED cookie
        /\ state' = [state EXCEPT !.questionPending = FALSE, !.conversationPending = TRUE]
        /\ flight' = WithoutQuestion(flight) \cup {Send("create", state, None, "nothing")}
    BY <1>5 DEF NewQuestion, MayClick
  <2> QED  BY <2>1, GiveUpKeeps
<1>6. CASE Ask  BY <1>6, AskKeeps
<1>7. CASE \E t \in Thread : OpenThread(t)  BY <1>7, OpenThreadKeeps
<1>8. CASE \E t \in Thread : Delete(t)
  <2>1. PICK t \in Thread : Delete(t)  BY <1>8
  <2>2. /\ state.account # None /\ UNCHANGED cookie
        /\ state' = [state EXCEPT !.questionPending = FALSE, !.conversationPending = TRUE]
        /\ flight' = WithoutQuestion(flight) \cup {Send("delete", state, t, "nothing")}
    BY <2>1 DEF Delete, MayClick
  <2> QED  BY <2>2, GiveUpKeeps
<1> QED  BY <1>1, <1>2, <1>3, <1>4, <1>5, <1>6, <1>7, <1>8 DEF Click

LEMMA AnswerKeeps ==
  ASSUME IInv, NEW h \in flight, Answer(h)
  PROVE  IInv'
<1>1. CASE LoggedIn(h)  BY <1>1, LoggedInKeeps
<1>2. CASE LoginFailed(h) \/ LogoutFailed(h)  BY <1>2, LoginOutFailedKeeps
<1>3. CASE LoggedOut(h) \/ Expired(h)  BY <1>3, LeavingKeeps
<1>4. CASE Refreshed(h) \/ RefreshFailed(h)  BY <1>4, RefreshedKeeps
<1>5. CASE Mutated(h) \/ MutationFailed(h)  BY <1>5, MutatedKeeps
<1>6. CASE \E T \in SUBSET Number : ThreadsListed(h, T)  BY <1>6, ThreadsListedKeeps
<1>7. CASE ThreadLoaded(h) \/ ThreadGone(h) \/ ReadFailed(h)  BY <1>7, ThreadReadKeeps
<1>8. CASE \E t \in Thread : Created(h, t)  BY <1>8, CreatedKeeps
<1>9. CASE CreateFailed(h) \/ QuestionFailed(h) \/ DeleteFailed(h)  BY <1>9, ReleaseKeeps
<1>10. CASE Answered(h)  BY <1>10, AnsweredKeeps
<1>11. CASE Disputed(h)  BY <1>11, DisputedKeeps
<1>12. CASE Deleted(h) \/ DeleteRefused(h)  BY <1>12, DeletionKeeps
<1> QED  BY <1>1, <1>2, <1>3, <1>4, <1>5, <1>6, <1>7, <1>8, <1>9, <1>10, <1>11, <1>12
         DEF Answer

LEMMA NextInv ==
  ASSUME IInv, [Next]_vars
  PROVE  IInv'
<1>1. CASE Click  BY <1>1, ClickKeeps
<1>2. CASE \E h \in flight : Answer(h)  BY <1>2, AnswerKeeps
<1>3. CASE UNCHANGED vars  BY <1>3 DEF vars, IInv, Fits
<1> QED  BY <1>1, <1>2, <1>3 DEF Next

LEMMA Invariance == Spec => []IInv
BY InitInv, NextInv, PTL DEF Spec

\* The page's state, its cookie and what it awaits have their types, whatever the order in
\* which handlers begin, end and are given up.
THEOREM TypeCorrect == Spec => []TypeOK
<1>1. IInv => TypeOK
  <2> SUFFICES ASSUME IInv  PROVE TypeOK  OBVIOUS
  <2>1. state \in PageState /\ cookie \in Account \cup {None}  BY DEF IInv, Fits, Own
  <2>2. flight \subseteq Request  BY DEF IInv, Fits, Flies, Sent
  <2> QED  BY <2>1, <2>2 DEF TypeOK, PageState
<1> QED  BY <1>1, Invariance, PTL

\* The portfolio, the threads and the thread the page shows are those of the account that is
\* signed in, however late the answers to an earlier account's requests arrive: resetSensitiveState
\* and the generations of app.js suffice for it.
THEOREM NothingOfAnotherIsShown == Spec => []ShownIsOwn
<1>1. IInv => ShownIsOwn
  <2> SUFFICES ASSUME IInv  PROVE ShownIsOwn  OBVIOUS
  <2>1. Own(state, cookie)  BY DEF IInv, Fits
  <2> QED  BY <2>1 DEF Own, ShownIsOwn
<1> QED  BY <1>1, Invariance, PTL

\* Each mark that disables the page, but conversationPending, is held by a request that is
\* awaited, whose handler takes it off: no order of clicks, answers and failures leaves one of
\* them set with nobody left to clear it.
THEOREM MarksAreHeld == Spec => []BusyIsAwaited
<1>1. IInv => BusyIsAwaited
  <2> SUFFICES ASSUME IInv  PROVE BusyIsAwaited  OBVIOUS
  <2>1. Awaited(state, flight)  BY DEF IInv, Fits
  <2> QED  BY <2>1 DEF Awaited, Marks, Asks, BusyIsAwaited, Of
<1> QED  BY <1>1, Invariance, PTL
=============================================================================
