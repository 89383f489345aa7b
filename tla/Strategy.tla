------------------------------ MODULE Strategy ------------------------------
(***************************************************************************)
(* Lasting intents of one account: drafts (candidates) that an answer      *)
(* proposes, and the versions a user confirms.                             *)
(*                                                                         *)
(* Four operations change them: complete_turn's proposal, confirm, cancel  *)
(* and delete_thread.  Each is a transaction that locks the conversation   *)
(* thread of the draft and then, except delete_thread, the identity row of *)
(* its (scope, kind); it reads, and later writes and commits.  The locks   *)
(* overlap only in part: a proposal made in one thread may end a draft of  *)
(* another thread, whose deletion holds a different lock.  Writing and     *)
(* committing are one step: until a transaction commits its rows keep      *)
(* other writers out and show readers the old values.                      *)
(***************************************************************************)
EXTENDS Integers, FiniteSets

CONSTANTS
  Thread,    \* conversation threads of the account
  Identity,  \* identity rows: (ticker and position type, kind)
  Candidate, \* values uuid4() may give a draft
  Request,   \* values of a confirmation's client_request_id
  Call,      \* transactions that may be open at once
  None,      \* no thread, identity, candidate or request
  Lifetime,  \* of a draft, in clock units (24 hours)
  MaxClock   \* bound of the model: the clock stops here

ASSUME LifetimeAssumption == Lifetime \in Nat \ {0} /\ MaxClock \in Nat

ASSUME LockAssumption ==
  /\ Thread \cap Identity = {}
  /\ None \notin Thread \cup Identity \cup Candidate \cup Request

VARIABLES
  clock,      \* the time datetime.now(UTC) returns
  deleted,    \* the threads that are deleted
  candidates, \* the strategy_candidates rows, by id
  versions,   \* the confirmed_strategy_versions rows
  calls,      \* what each transaction is doing
  told        \* history: every version a confirmation returned

db == <<deleted, candidates, versions>>
vars == <<clock, db, calls, told>>

-----------------------------------------------------------------------------
(* The stored rows.                                                        *)

Operation == {"UPSERT", "INVALIDATE"}

\* CandidateStatus; no code ever writes STALE.
Resolved == {"CONFIRMED", "CANCELLED", "EXPIRED"}

Row == [status : {"NONE", "PENDING"} \cup Resolved, thread : Thread \cup {None},
        identity : Identity \cup {None}, operation : Operation, base : Nat,
        revision : Nat, expires : Nat]

NoRow == [status |-> "NONE", thread |-> None, identity |-> None, operation |-> "UPSERT",
          base |-> 0, revision |-> 0, expires |-> 0]

Version == [identity : Identity, number : Nat \ {0},
            status : {"ACTIVE", "SUPERSEDED", "INVALIDATED"},
            candidate : Candidate, request : Request]

Exists(c) == candidates[c].status # "NONE"

\* Mutant: pending drafts are looked up by the thread that proposes.
PendingHere(i, t) ==
  {c \in Candidate : /\ candidates[c].status = "PENDING"
                     /\ candidates[c].identity = i /\ candidates[c].thread = t}

\* SqlAlchemyStrategyRepository.pending: the drafts of an identity, whichever
\* thread proposed them (the caller's thread t is not asked for).
Pending(i, t) ==
  {c \in Candidate : candidates[c].status = "PENDING" /\ candidates[c].identity = i}

\* cancel_thread's query.
PendingOf(t) == {c \in Candidate : candidates[c].status = "PENDING" /\ candidates[c].thread = t}

Of(i) == {v \in versions : v.identity = i}

\* The number of the latest version, 0 if there is none.
Latest(i) == IF Of(i) = {} THEN 0
             ELSE (CHOOSE v \in Of(i) : \A w \in Of(i) : w.number <= v.number).number

IsActive(i, n) == \E v \in Of(i) : v.number = n /\ v.status = "ACTIVE"

\* A row on its way out of PENDING.
Resolve(row, status) == [row EXCEPT !.status = status, !.revision = @ + 1]

-----------------------------------------------------------------------------
(* What a transaction is doing.                                            *)

Kind == {"propose", "confirm", "cancel", "delete"}

Idle == [kind |-> "idle", phase |-> "idle", held |-> {}, thread |-> None, identity |-> None,
         candidate |-> None, operation |-> "UPSERT", replaces |-> None, request |-> None,
         revision |-> 0, base |-> 0, now |-> 0, seen |-> [c \in Candidate |-> NoRow]]

CallState == [kind : Kind \cup {"idle"}, phase : {"idle", "lock", "read", "write"},
              held : SUBSET (Thread \cup Identity), thread : Thread \cup {None},
              identity : Identity \cup {None}, candidate : Candidate \cup {None},
              operation : Operation, replaces : Candidate \cup {None},
              request : Request \cup {None}, revision : Nat, base : Nat, now : Nat,
              seen : [Candidate -> Row]]

Told == [request : Request, candidate : Candidate, number : Nat]

TypeOK ==
  /\ clock \in 0..MaxClock
  /\ deleted \subseteq Thread
  /\ candidates \in [Candidate -> Row]
  /\ versions \subseteq Version
  /\ calls \in [Call -> CallState]
  /\ told \subseteq Told

Init ==
  /\ clock = 0
  /\ deleted = {}
  /\ candidates = [c \in Candidate |-> NoRow]
  /\ versions = {}
  /\ calls = [x \in Call |-> Idle]
  /\ told = {}

\* Commit without an answer that matters, rollback, or refusal.
End(x) == calls' = [calls EXCEPT ![x] = Idle]

Begin(x, call) ==
  /\ calls[x].phase = "idle"
  /\ calls' = [calls EXCEPT ![x] = call]
  /\ UNCHANGED <<clock, db, told>>

-----------------------------------------------------------------------------
(* Locks.                                                                  *)

AllLocks(call) == IF call.kind = "delete" THEN {call.thread} ELSE {call.thread, call.identity}

\* Mutant: a confirmation locks the scope before it locks the thread.
IdentityFirst(call) ==
  IF call.kind = "confirm" /\ call.identity \notin call.held THEN call.identity ELSE call.thread

\* The order in which a transaction takes its locks.
NextLock(call) == IF call.thread \notin call.held THEN call.thread ELSE call.identity

\* Mutant: the thread's row is read without FOR UPDATE.
Unlocked(x, l) == l \in Thread \/ \A y \in Call : l \notin calls[y].held

Free(x, l) == \A y \in Call : l \notin calls[y].held

Waits(x, y) ==
  calls[x].phase = "lock" /\ NextLock(calls[x]) \in calls[y].held

\* lock_thread and lock_identity (FOR UPDATE); a transaction that creates the
\* identity row keeps the others waiting on its unique key just the same.
TakeLock(x) ==
  /\ calls[x].phase = "lock"
  /\ LET l == NextLock(calls[x])
         h == calls[x].held \cup {l}
     IN  /\ Free(x, l)
         /\ l \notin deleted
         /\ calls' = [calls EXCEPT ![x].held = h,
                                   ![x].phase = IF h = AllLocks(calls[x]) THEN "read" ELSE "lock"]
  /\ UNCHANGED <<clock, db, told>>

\* The thread's row is there no more.
ThreadGone(x) ==
  /\ calls[x].phase = "lock"
  /\ NextLock(calls[x]) \in deleted
  /\ Free(x, NextLock(calls[x]))
  /\ End(x)
  /\ UNCHANGED <<clock, db, told>>

-----------------------------------------------------------------------------
(* propose_in_repository, inside complete_turn.                            *)

\* complete_turn begins: it reads the clock and will lock the thread.  The agent
\* drafted from what it saw: a draft to replace is one that exists.
CallPropose(x, t, i, op, replaces, new) ==
  /\ ~Exists(new) /\ \A y \in Call : calls[y].candidate # new
  /\ replaces # None => Exists(replaces)
  /\ Begin(x, [Idle EXCEPT !.kind = "propose", !.phase = "lock", !.thread = t,
                           !.identity = i, !.candidate = new, !.operation = op,
                           !.replaces = replaces,
                           !.revision = IF replaces = None THEN 0
                                        ELSE candidates[replaces].revision,
                           !.now = clock])

\* Mutant: the expiry moment still counts as live.
LiveAtExpiry(c, now) == candidates[c].expires >= now

Live(c, now) == candidates[c].expires > now

\* The draft names the live pending draft if there is one, and none otherwise;
\* only something active can be invalidated.
Proposable(call) ==
  LET live == {c \in Pending(call.identity, call.thread) : Live(c, call.now)} IN
  /\ call.operation = "INVALIDATE" => IsActive(call.identity, Latest(call.identity))
  /\ IF live = {} THEN call.replaces = None
     ELSE \E c \in live : call.replaces = c /\ call.revision = candidates[c].revision

Rows(S) == [c \in Candidate |-> IF c \in S THEN candidates[c] ELSE NoRow]

ProposeReads(x) ==
  /\ calls[x].kind = "propose" /\ calls[x].phase = "read"
  /\ Proposable(calls[x])
  /\ calls' = [calls EXCEPT ![x].phase = "write",
                            ![x].base = Latest(calls[x].identity),
                            ![x].seen = Rows(Pending(calls[x].identity, calls[x].thread))]
  /\ UNCHANGED <<clock, db, told>>

ProposeRefused(x) ==
  /\ calls[x].kind = "propose" /\ calls[x].phase = "read"
  /\ ~Proposable(calls[x])
  /\ End(x)
  /\ UNCHANGED <<clock, db, told>>

\* The row a transaction writes back is the one it read, not the stored one.
WriteBack(x, c, status) ==
  IF calls[x].seen[c].status = "NONE" THEN candidates[c] ELSE Resolve(calls[x].seen[c], status)

ProposeWrites(x) ==
  LET call == calls[x] IN
  /\ call.kind = "propose" /\ call.phase = "write"
  /\ candidates' =
       [c \in Candidate |->
          IF c = call.candidate
          THEN [status |-> "PENDING", thread |-> call.thread, identity |-> call.identity,
                operation |-> call.operation, base |-> call.base, revision |-> 1,
                expires |-> call.now + Lifetime]
          ELSE WriteBack(x, c, IF call.seen[c].expires <= call.now THEN "EXPIRED"
                               ELSE "CANCELLED")]
  /\ End(x)
  /\ UNCHANGED <<clock, deleted, versions, told>>

-----------------------------------------------------------------------------
(* confirm.                                                                *)

\* It reads the clock, then the draft, whose thread and identity never change.
\* The client sends a revision it saw and the base version, which never changes.
CallConfirm(x, c, r, revision) ==
  /\ Exists(c)
  /\ Begin(x, [Idle EXCEPT !.kind = "confirm", !.phase = "lock",
                           !.thread = candidates[c].thread, !.identity = candidates[c].identity,
                           !.candidate = c, !.request = r, !.revision = revision,
                           !.base = candidates[c].base, !.now = clock])

\* Mutant: a request id is never recognized.
NeverConfirmed(r) == {}

\* confirmed_request: account-wide.
Confirmed(r) == {v \in versions : v.request = r}

\* Mutant: a confirmation is not asked whether its draft has expired.
ResolvableLate(c, revision, now) ==
  candidates[c].status = "PENDING" /\ revision = candidates[c].revision

\* _pending.
Resolvable(c, revision, now) ==
  /\ candidates[c].status = "PENDING"
  /\ candidates[c].expires > now
  /\ revision = candidates[c].revision

\* This very confirmation was made before.
Replays(call, v) ==
  /\ v.candidate = call.candidate
  /\ call.revision = candidates[call.candidate].revision - 1
  /\ call.base = candidates[call.candidate].base

ConfirmReplayed(x) ==
  /\ calls[x].kind = "confirm" /\ calls[x].phase = "read"
  /\ \E v \in Confirmed(calls[x].request) :
       /\ Replays(calls[x], v)
       /\ told' = told \cup {[request |-> v.request, candidate |-> v.candidate,
                              number |-> v.number]}
  /\ End(x)
  /\ UNCHANGED <<clock, db>>

Confirmable(call) ==
  /\ Resolvable(call.candidate, call.revision, call.now)
  /\ call.base = candidates[call.candidate].base
  /\ Latest(call.identity) = call.base

ConfirmRefused(x) ==
  /\ calls[x].kind = "confirm" /\ calls[x].phase = "read"
  /\ \/ \E v \in Confirmed(calls[x].request) : ~Replays(calls[x], v)
     \/ Confirmed(calls[x].request) = {} /\ ~Confirmable(calls[x])
  /\ End(x)
  /\ UNCHANGED <<clock, db, told>>

ConfirmReads(x) ==
  /\ calls[x].kind = "confirm" /\ calls[x].phase = "read"
  /\ Confirmed(calls[x].request) = {}
  /\ Confirmable(calls[x])
  /\ calls' = [calls EXCEPT ![x].phase = "write",
                            ![x].seen = Rows({calls[x].candidate})]
  /\ UNCHANGED <<clock, db, told>>

\* Mutant: the version in force is left active.
LeftActive(i, n) == Of(i)

\* The versions of an identity once its latest one, if active, is superseded.
Superseded(i, n) ==
  {IF v.number = n /\ v.status = "ACTIVE" THEN [v EXCEPT !.status = "SUPERSEDED"] ELSE v :
     v \in Of(i)}

ConfirmWrites(x) ==
  LET call == calls[x]
      n == call.base + 1
      invalidation == call.seen[call.candidate].operation = "INVALIDATE"
  IN
  /\ call.kind = "confirm" /\ call.phase = "write"
  /\ Confirmed(call.request) = {}
  /\ versions' = (versions \ Of(call.identity))
                   \cup Superseded(call.identity, call.base)
                   \cup {[identity |-> call.identity, number |-> n,
                          status |-> IF invalidation THEN "INVALIDATED" ELSE "ACTIVE",
                          candidate |-> call.candidate, request |-> call.request]}
  /\ candidates' = [candidates EXCEPT
                      ![call.candidate] = WriteBack(x, call.candidate, "CONFIRMED")]
  /\ told' = told \cup {[request |-> call.request, candidate |-> call.candidate, number |-> n]}
  /\ End(x)
  /\ UNCHANGED <<clock, deleted>>

\* The request id was used for another identity since it was looked up: the
\* unique key refuses the row and the transaction is rolled back.
ConfirmClashes(x) ==
  /\ calls[x].kind = "confirm" /\ calls[x].phase = "write"
  /\ Confirmed(calls[x].request) # {}
  /\ End(x)
  /\ UNCHANGED <<clock, db, told>>

-----------------------------------------------------------------------------
(* cancel.  It reads the clock under its locks, and nothing it reads can    *)
(* change before it writes, so that reading and writing are one step.       *)

CallCancel(x, c, revision) ==
  /\ Exists(c)
  /\ Begin(x, [Idle EXCEPT !.kind = "cancel", !.phase = "lock",
                           !.thread = candidates[c].thread, !.identity = candidates[c].identity,
                           !.candidate = c, !.revision = revision])

Cancel(x) ==
  /\ calls[x].kind = "cancel" /\ calls[x].phase = "read"
  /\ Resolvable(calls[x].candidate, calls[x].revision, clock)
  /\ candidates' = [candidates EXCEPT ![calls[x].candidate] = Resolve(@, "CANCELLED")]
  /\ End(x)
  /\ UNCHANGED <<clock, deleted, versions, told>>

\* Refused, or cancelled before and returned as it is.
CancelUnchanged(x) ==
  /\ calls[x].kind = "cancel" /\ calls[x].phase = "read"
  /\ ~Resolvable(calls[x].candidate, calls[x].revision, clock)
  /\ End(x)
  /\ UNCHANGED <<clock, db, told>>

-----------------------------------------------------------------------------
(* cancel_thread, inside delete_thread: no identity lock.                   *)

CallDelete(x, t) ==
  Begin(x, [Idle EXCEPT !.kind = "delete", !.phase = "lock", !.thread = t])

DeleteReads(x) ==
  /\ calls[x].kind = "delete" /\ calls[x].phase = "read"
  /\ calls' = [calls EXCEPT ![x].phase = "write",
                            ![x].seen = Rows(PendingOf(calls[x].thread))]
  /\ UNCHANGED <<clock, db, told>>

DeleteWrites(x) ==
  /\ calls[x].kind = "delete" /\ calls[x].phase = "write"
  /\ candidates' = [c \in Candidate |-> WriteBack(x, c, "CANCELLED")]
  /\ deleted' = deleted \cup {calls[x].thread}
  /\ End(x)
  /\ UNCHANGED <<clock, versions, told>>

-----------------------------------------------------------------------------
(* The environment, and the whole.                                         *)

\* The process dies or the database refuses: rolled back, locks released.
Crash(x) ==
  /\ calls[x].phase # "idle"
  /\ End(x)
  /\ UNCHANGED <<clock, db, told>>

Tick ==
  /\ clock < MaxClock
  /\ clock' = clock + 1
  /\ UNCHANGED <<db, calls, told>>

Step(x) ==
  \/ TakeLock(x)
  \/ ThreadGone(x)
  \/ ProposeReads(x)
  \/ ProposeRefused(x)
  \/ ProposeWrites(x)
  \/ ConfirmReplayed(x)
  \/ ConfirmRefused(x)
  \/ ConfirmReads(x)
  \/ ConfirmWrites(x)
  \/ ConfirmClashes(x)
  \/ Cancel(x)
  \/ CancelUnchanged(x)
  \/ DeleteReads(x)
  \/ DeleteWrites(x)

\* The revisions a client may send: the first, and the present one.
Known(c) == {1, candidates[c].revision}

NewCall(x) ==
  \/ \E t \in Thread, i \in Identity, op \in Operation, old \in Candidate \cup {None},
        new \in Candidate : CallPropose(x, t, i, op, old, new)
  \/ \E c \in Candidate, r \in Request : \E n \in Known(c) : CallConfirm(x, c, r, n)
  \/ \E c \in Candidate : \E n \in Known(c) : CallCancel(x, c, n)
  \/ \E t \in Thread : CallDelete(x, t)

Next ==
  \/ \E x \in Call : NewCall(x)
  \/ \E x \in Call : Step(x)
  \/ \E x \in Call : Crash(x)
  \/ Tick

Spec == Init /\ [][Next]_vars

-----------------------------------------------------------------------------
(* Safety.                                                                 *)

\* The versions of a scope are numbered 1, 2, 3, ... in the order of their
\* confirmation, only the last is in force, and an invalidation always follows something that
\* was.  A draft is confirmed if and only if it became a version, and only one; no proposal,
\* cancellation or deletion that read it earlier takes that back.
VersionsInOrder ==
  \A i \in Identity :
    /\ {v.number : v \in Of(i)} = 1..Latest(i)
    /\ \A v, w \in Of(i) : v.number = w.number => v = w
    /\ \A v \in Of(i) : v.status = "INVALIDATED" =>
         \E w \in Of(i) : w.number = v.number - 1 /\ w.status = "SUPERSEDED"
    /\ \A v \in Of(i) : v.status = "ACTIVE" => v.number = Latest(i)
    /\ \A c \in Candidate : candidates[c].identity = i =>
         (candidates[c].status = "CONFIRMED" <=> \E v \in Of(i) : v.candidate = c)

\* A pending draft is always based on the latest version: a draft a user sees
\* can be confirmed, its base never becomes out of date while it is pending.
PendingIsCurrent ==
  \A c \in Candidate :
    candidates[c].status = "PENDING" => candidates[c].base = Latest(candidates[c].identity)

\* A request id confirms at most one thing, and every answer given to it, retries
\* included, is that version.
ConfirmationsAreStable ==
  /\ \A v, w \in versions : v.request = w.request => v = w
  /\ \A x \in told : \E v \in versions :
       v.request = x.request /\ v.candidate = x.candidate /\ v.number = x.number

\* A deleted thread leaves no pending draft behind.
DeletedLeavesNoDraft ==
  \A c \in Candidate : candidates[c].status = "PENDING" => candidates[c].thread \notin deleted

\* No set of transactions waits for one another's locks.
NoDeadlock ==
  ~ \E S \in SUBSET Call : S # {} /\ \A x \in S : \E y \in S : Waits(x, y)

-----------------------------------------------------------------------------
(* Steps.                                                                  *)

\* A draft that was resolved is never pending or confirmed afterwards, and a
\* confirmed one stays confirmed.  (An expired draft may still be overwritten as
\* cancelled, by a deletion that read it while it was pending.)
ResolvedIsFinal ==
  [][\A c \in Candidate :
       /\ candidates[c].status \in {"CANCELLED", "EXPIRED"} =>
            candidates'[c].status \in {"CANCELLED", "EXPIRED"}
       /\ candidates[c].status = "CONFIRMED" => candidates'[c] = candidates[c]]_vars

\* Only a draft that was pending, of a thread not deleted, and not expired when
\* its confirmation was called, becomes a version.
ConfirmedInTime ==
  [][\A c \in Candidate :
       candidates[c].status # "CONFIRMED" /\ candidates'[c].status = "CONFIRMED" =>
         /\ candidates[c].status = "PENDING" /\ candidates[c].thread \notin deleted
         /\ \E x \in Call : calls[x].kind = "confirm" /\ calls[x].candidate = c
                            /\ calls[x].now < candidates[c].expires]_vars

=============================================================================
