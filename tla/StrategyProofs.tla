--------------------------- MODULE StrategyProofs ---------------------------
(* Theorems about Strategy, for every set of threads, scopes, drafts,      *)
(* request ids and concurrent transactions, and every lifetime of a draft; *)
(* the last says that it implements IntentRegister.                        *)
EXTENDS StrategyRefinement, SequenceTheorems, TLAPS

(***************************************************************************)
(* The inductive invariant.                                                *)
(***************************************************************************)

\* A transaction takes its thread first, then its identity; no two hold the same
\* lock, and nobody holds a thread that is deleted.
HoldsInOrder(x) ==
  /\ calls[x].phase = "idle" => calls[x] = Idle
  /\ calls[x].phase = "lock" =>
       calls[x].held = {} \/ (calls[x].held = {calls[x].thread} /\ calls[x].kind # "delete")
  /\ calls[x].phase \in {"read", "write"} => calls[x].held = AllLocks(calls[x])
  /\ calls[x].held \cap deleted = {}

LockInv ==
  /\ \A x, y \in Call : x # y => calls[x].held \cap calls[y].held = {}
  /\ \A x \in Call : HoldsInOrder(x)

\* What a transaction was called for: a proposal's draft is new and nobody else's,
\* a draft to resolve is stored, and its thread, identity and base are still those
\* the call was given.
Addressed(x) ==
  /\ calls[x].kind = "idle" <=> calls[x].phase = "idle"
  /\ calls[x].kind # "idle" => calls[x].thread \in Thread
  /\ calls[x].kind \in {"propose", "confirm", "cancel"} =>
       calls[x].identity \in Identity /\ calls[x].candidate \in Candidate
  /\ calls[x].kind = "propose" =>
       /\ ~Exists(calls[x].candidate)
       /\ \A y \in Call \ {x} : calls[y].candidate # calls[x].candidate
  /\ calls[x].kind \in {"confirm", "cancel"} =>
       /\ Exists(calls[x].candidate)
       /\ candidates[calls[x].candidate].thread = calls[x].thread
       /\ candidates[calls[x].candidate].identity = calls[x].identity
  /\ calls[x].kind = "confirm" =>
       /\ calls[x].request \in Request
       /\ candidates[calls[x].candidate].base = calls[x].base
  /\ calls[x].kind = "cancel" => calls[x].phase # "write"

CallInv == \A x \in Call : Addressed(x)

\* The drafts a transaction has read, to write them back resolved.
Read(x) == {c \in Candidate : calls[x].seen[c].status # "NONE"}

SameDraft(row, old) ==
  /\ row.thread = old.thread /\ row.identity = old.identity /\ row.operation = old.operation
  /\ row.base = old.base /\ row.expires = old.expires

\* What a transaction that is about to write may still rely on.
\* A draft it read was pending and has not been confirmed since.
ReadPending(x) ==
  \A c \in Read(x) :
    /\ calls[x].seen[c].status = "PENDING"
    /\ candidates[c].status \in {"PENDING", "CANCELLED", "EXPIRED"}
    /\ SameDraft(candidates[c], calls[x].seen[c])

\* A proposal has read every pending draft of its identity, and no version was added.
ReadIdentity(x) ==
  calls[x].kind = "propose" =>
    /\ calls[x].base = Latest(calls[x].identity)
    /\ calls[x].operation = "INVALIDATE" => IsActive(calls[x].identity, calls[x].base)
    /\ \A c \in Candidate :
         candidates[c].status = "PENDING" /\ candidates[c].identity = calls[x].identity =>
           c \in Read(x)
    /\ \A c \in Read(x) : candidates[c].identity = calls[x].identity

\* The row a confirmation read is the stored one.
ReadDraft(x) ==
  calls[x].kind = "confirm" =>
    /\ calls[x].seen[calls[x].candidate] = candidates[calls[x].candidate]
    /\ candidates[calls[x].candidate].status = "PENDING"
    /\ candidates[calls[x].candidate].expires > calls[x].now
    /\ Read(x) = {calls[x].candidate}

\* A deletion has read every pending draft of its thread.
ReadThread(x) ==
  calls[x].kind = "delete" =>
    /\ \A c \in Candidate :
         candidates[c].status = "PENDING" /\ candidates[c].thread = calls[x].thread => c \in Read(x)
    /\ \A c \in Read(x) : candidates[c].thread = calls[x].thread

SeenInv ==
  \A x \in Call : calls[x].phase = "write" =>
    ReadPending(x) /\ ReadIdentity(x) /\ ReadDraft(x) /\ ReadThread(x)

\* A stored draft has a thread and an identity, only something active can be
\* drafted to be invalidated, and an identity has at most one pending draft.
DraftInv ==
  /\ \A c \in Candidate : Exists(c) =>
       candidates[c].thread \in Thread /\ candidates[c].identity \in Identity
  /\ \A c \in Candidate :
       candidates[c].status = "PENDING" /\ candidates[c].operation = "INVALIDATE" =>
         IsActive(candidates[c].identity, candidates[c].base)
  /\ \A c, d \in Candidate :
       candidates[c].status = "PENDING" /\ candidates[d].status = "PENDING"
         /\ candidates[c].identity = candidates[d].identity => c = d

\* A version was made of a confirmed draft of its identity, and invalidates if the draft did.
VersionInv ==
  /\ \A i \in Identity : Latest(i) \in Nat
  /\ \A v \in versions :
       /\ candidates[v.candidate].status = "CONFIRMED"
       /\ candidates[v.candidate].identity = v.identity
       /\ v.status = "INVALIDATED" <=> candidates[v.candidate].operation = "INVALIDATE"

\* What the transactions hold, know and have read.
CallsInv == LockInv /\ CallInv /\ SeenInv

\* What is stored, and what was told.
StoreInv ==
  /\ DraftInv /\ VersionInv /\ VersionsInOrder /\ PendingIsCurrent
  /\ DeletedLeavesNoDraft /\ ConfirmationsAreStable

IInv == TypeOK /\ CallsInv /\ StoreInv

(***************************************************************************)
(* The types of what the operators return.                                 *)
(***************************************************************************)

LEMMA NoRowType == NoRow \in Row
BY DEF NoRow, Row, Operation

LEMMA IdleType == Idle \in CallState
BY NoRowType DEF Idle, CallState, Operation

LEMMA RowsType ==
  ASSUME TypeOK, NEW S
  PROVE  Rows(S) \in [Candidate -> Row]
BY NoRowType DEF TypeOK, Rows

LEMMA ResolveType ==
  ASSUME NEW row \in Row, NEW status \in Resolved
  PROVE  /\ Resolve(row, status) \in Row
         /\ Resolve(row, status).status = status
         /\ SameDraft(Resolve(row, status), row)
<1>1. row.revision + 1 \in Nat  BY DEF Row
<1> QED  BY <1>1 DEF Resolve, Row, SameDraft

LEMMA SeenType ==
  ASSUME TypeOK, NEW x \in Call
  PROVE  /\ calls[x] \in CallState /\ calls[x].seen \in [Candidate -> Row]
         /\ \A c \in Candidate : calls[x].seen[c] \in Row
BY DEF TypeOK, CallState

LEMMA WriteBackType ==
  ASSUME TypeOK, NEW x \in Call, NEW c \in Candidate, NEW status \in Resolved
  PROVE  WriteBack(x, c, status) \in Row
<1>1. calls[x].seen[c] \in Row /\ candidates[c] \in Row  BY SeenType DEF TypeOK
<1> QED  BY <1>1, ResolveType DEF WriteBack

\* Versions that are numbered 1..n have n as their latest.
LEMMA LatestIs ==
  ASSUME NEW S, NEW n \in Nat, {v.number : v \in S} = 1..n
  PROVE  (IF S = {} THEN 0
          ELSE (CHOOSE v \in S : \A w \in S : w.number <= v.number).number) = n
<1>1. CASE n = 0
  <2>1. ASSUME NEW v \in S PROVE FALSE
    <3>1. v.number \in {w.number : w \in S}  OBVIOUS
    <3>2. v.number \in 1..0  BY <1>1, <3>1
    <3> QED  BY <3>2
  <2>2. S = {}  BY <2>1
  <2> QED  BY <1>1, <2>2
<1>2. CASE n # 0
  <2>1. n \in {v.number : v \in S}  BY <1>2
  <2>2. \A w \in S : w.number \in 1..n  OBVIOUS
  <2>3. PICK u \in S : u.number = n  BY <2>1
  <2>4. \A w \in S : w.number <= u.number  BY <2>2, <2>3
  <2> DEFINE m == CHOOSE v \in S : \A w \in S : w.number <= v.number
  <2>5. m \in S /\ \A w \in S : w.number <= m.number  BY <2>3, <2>4
  <2>6. n <= m.number /\ m.number \in 1..n  BY <2>2, <2>3, <2>5
  <2> QED  BY <2>3, <2>6
<1> QED  BY <1>1, <1>2

LEMMA EndType ==
  ASSUME TypeOK, NEW x \in Call, End(x)
  PROVE  /\ calls' \in [Call -> CallState]
         /\ calls'[x] = Idle
         /\ \A y \in Call \ {x} : calls'[y] = calls[y]
BY IdleType DEF TypeOK, End

(***************************************************************************)
(* Steps that change what one transaction holds or knows, and no row.      *)
(***************************************************************************)

\* The drafts and the versions are as they were.
LEMMA SameStore ==
  ASSUME UNCHANGED db
  PROVE  /\ \A c \in Candidate : Exists(c)' <=> Exists(c)
         /\ \A i : Of(i)' = Of(i) /\ Latest(i)' = Latest(i)
         /\ \A i, n : IsActive(i, n)' <=> IsActive(i, n)
BY DEF db, Exists, Of, Latest, IsActive

\* A transaction that a step leaves alone knows what it knew.
LEMMA OtherKeeps ==
  ASSUME CallsInv, UNCHANGED db, NEW y \in Call, calls'[y] = calls[y]
  PROVE  /\ HoldsInOrder(y)'
         /\ calls[y].phase = "write" =>
              (ReadPending(y) /\ ReadIdentity(y) /\ ReadDraft(y) /\ ReadThread(y))'
<1>1. HoldsInOrder(y)'
  BY DEF CallsInv, LockInv, HoldsInOrder, db
<1>2. Read(y)' = Read(y)  BY DEF Read
<1>3. ASSUME calls[y].phase = "write"
      PROVE  (ReadPending(y) /\ ReadIdentity(y) /\ ReadDraft(y) /\ ReadThread(y))'
  <2>1. ReadPending(y) /\ ReadIdentity(y) /\ ReadDraft(y) /\ ReadThread(y)
    BY <1>3 DEF CallsInv, SeenInv
  <2>2. candidates' = candidates  BY DEF db
  <2>3. ReadPending(y)'  BY <1>2, <2>1, <2>2 DEF ReadPending
  <2>4. ReadIdentity(y)'  BY <1>2, <2>1, <2>2, SameStore DEF ReadIdentity
  <2>5. ReadDraft(y)'  BY <1>2, <2>1, <2>2 DEF ReadDraft
  <2>6. ReadThread(y)'  BY <1>2, <2>1, <2>2 DEF ReadThread
  <2> QED  BY <2>3, <2>4, <2>5, <2>6
<1> QED  BY <1>1, <1>3

\* A step of x that changes no row keeps CallsInv if x's own part is kept.
LEMMA OneCallMoves ==
  ASSUME CallsInv, UNCHANGED db, NEW x \in Call,
         \A y \in Call \ {x} : calls'[y] = calls[y],
         \A y \in Call \ {x} : calls'[x].held \cap calls[y].held = {},
         HoldsInOrder(x)', Addressed(x)',
         \A y \in Call \ {x} : Addressed(y)',
         calls'[x].phase = "write" =>
           (ReadPending(x) /\ ReadIdentity(x) /\ ReadDraft(x) /\ ReadThread(x))'
  PROVE  CallsInv'
<1>1. LockInv'
  <2>1. ASSUME NEW y \in Call, NEW z \in Call, y # z
        PROVE  calls'[y].held \cap calls'[z].held = {}
    BY <2>1 DEF CallsInv, LockInv
  <2>2. \A y \in Call : HoldsInOrder(y)'  BY OtherKeeps
  <2> QED  BY <2>1, <2>2 DEF LockInv
<1>2. CallInv'  BY DEF CallInv
<1>3. SeenInv'
  <2>1. ASSUME NEW y \in Call, calls'[y].phase = "write"
        PROVE  (ReadPending(y) /\ ReadIdentity(y) /\ ReadDraft(y) /\ ReadThread(y))'
    <3>1. CASE y = x  BY <2>1, <3>1
    <3>2. CASE y # x  BY <2>1, <3>2, OtherKeeps
    <3> QED  BY <3>1, <3>2
  <2> QED  BY <2>1 DEF SeenInv
<1> QED  BY <1>1, <1>2, <1>3 DEF CallsInv

\* A transaction that goes on with the same call keeps everyone's addresses.
LEMMA AddressesKept ==
  ASSUME CallsInv, UNCHANGED db, NEW x \in Call,
         \A y \in Call \ {x} : calls'[y] = calls[y],
         calls'[x].candidate \in {calls[x].candidate, None},
         calls[x].kind # "idle"
  PROVE  \A y \in Call \ {x} : Addressed(y)'
<1> TAKE y \in Call \ {x}
<1>1. Addressed(y)  BY DEF CallsInv, CallInv
<1>2. calls'[y] = calls[y]  OBVIOUS
<1>3. \A c \in Candidate : Exists(c)' <=> Exists(c)  BY SameStore
<1>4. calls'[y].kind = "propose" =>
        \A z \in Call \ {y} : calls'[z].candidate # calls'[y].candidate
  <2> SUFFICES ASSUME calls[y].kind = "propose", NEW z \in Call \ {y}
               PROVE  calls'[z].candidate # calls[y].candidate
    BY <1>2
  <2>1. calls[z].candidate # calls[y].candidate /\ calls[y].candidate \in Candidate
    BY <1>1 DEF Addressed
  <2>2. calls[x].candidate # calls[y].candidate
    BY <1>1 DEF Addressed
  <2> QED  BY <2>1, <2>2, LockAssumption
<1>5. candidates' = candidates  BY DEF db
<1> QED  BY <1>1, <1>2, <1>3, <1>4, <1>5 DEF Addressed

LEMMA EndKeeps ==
  ASSUME TypeOK, CallsInv, UNCHANGED db, NEW x \in Call, calls[x].kind # "idle", End(x)
  PROVE  CallsInv'
<1>1. calls'[x] = Idle /\ \A y \in Call \ {x} : calls'[y] = calls[y]  BY EndType
<1>2. /\ Idle.held = {} /\ Idle.phase = "idle" /\ Idle.kind = "idle" /\ Idle.candidate = None
  BY DEF Idle
<1>3. HoldsInOrder(x)'  BY <1>1, <1>2 DEF HoldsInOrder
<1>4. Addressed(x)'  BY <1>1, <1>2 DEF Addressed
<1>5. \A y \in Call \ {x} : Addressed(y)'  BY <1>1, <1>2, AddressesKept
<1> QED  BY <1>1, <1>2, <1>3, <1>4, <1>5, OneCallMoves

\* A call begins: it holds nothing and has read nothing.
LEMMA BeginKeeps ==
  ASSUME TypeOK, CallsInv, NEW x \in Call, NEW call, Begin(x, call),
         call.phase = "lock", call.held = {}, Addressed(x)',
         \A y \in Call \ {x} : calls[y].kind = "propose" => call.candidate # calls[y].candidate
  PROVE  CallsInv'
<1>1. calls'[x] = call /\ \A y \in Call \ {x} : calls'[y] = calls[y]
  BY DEF Begin, TypeOK
<1>2. UNCHANGED db  BY DEF Begin
<1>3. HoldsInOrder(x)'  BY <1>1 DEF HoldsInOrder
<1>4. ASSUME NEW y \in Call \ {x}  PROVE Addressed(y)'
  <2>1. Addressed(y) /\ calls'[y] = calls[y]  BY <1>1 DEF CallsInv, CallInv
  <2>2. calls'[y].kind = "propose" =>
          \A z \in Call \ {y} : calls'[z].candidate # calls'[y].candidate
    BY <1>1, <2>1 DEF Addressed
  <2>3. candidates' = candidates  BY <1>2 DEF db
  <2> QED  BY <1>2, <2>1, <2>2, <2>3, SameStore DEF Addressed
<1> QED  BY <1>1, <1>2, <1>3, <1>4, OneCallMoves

\* What is known of a stored draft.
LEMMA ExistingDraft ==
  ASSUME TypeOK, StoreInv, NEW c \in Candidate, Exists(c)
  PROVE  /\ candidates[c] \in Row /\ candidates[c].base \in Nat /\ candidates[c].revision \in Nat
         /\ candidates[c].thread \in Thread /\ candidates[c].identity \in Identity
BY DEF TypeOK, StoreInv, DraftInv, Row

\* A draft that is stored is not the new draft of a proposal.
LEMMA ExistingIsNotNew ==
  ASSUME CallsInv, NEW c \in Candidate, Exists(c), NEW y \in Call, calls[y].kind = "propose"
  PROVE  c # calls[y].candidate
BY DEF CallsInv, CallInv, Addressed

LEMMA NewCallKeeps ==
  ASSUME IInv, NEW x \in Call, NewCall(x)
  PROVE  CallsInv' /\ calls' \in [Call -> CallState]
<1> USE DEF IInv
<1>0. clock \in Nat  BY LifetimeAssumption DEF TypeOK
<1>1. ASSUME NEW t \in Thread, NEW i \in Identity, NEW op \in Operation,
             NEW old \in Candidate \cup {None}, NEW new \in Candidate,
             CallPropose(x, t, i, op, old, new)
      PROVE  CallsInv' /\ calls' \in [Call -> CallState]
  <2> DEFINE rev == IF old = None THEN 0 ELSE candidates[old].revision
             call == [Idle EXCEPT !.kind = "propose", !.phase = "lock", !.thread = t,
                           !.identity = i, !.candidate = new, !.operation = op,
                           !.replaces = old, !.revision = rev, !.now = clock]
  <2>1. rev \in Nat
    <3>1. CASE old = None  BY <3>1
    <3>2. CASE old # None
      <4>1. candidates[old] \in Row  BY <3>2 DEF TypeOK
      <4> QED  BY <3>2, <4>1 DEF Row
    <3> QED  BY <3>1, <3>2
  <2>2. /\ ~Exists(new) /\ \A y \in Call : calls[y].candidate # new
        /\ Begin(x, call)
    BY <1>1 DEF CallPropose
  <2> HIDE DEF rev
  <2>3. call \in CallState
    BY <1>0, <2>1, IdleType DEF CallState, Kind
  <2>4. /\ call.kind = "propose" /\ call.phase = "lock" /\ call.held = {}
        /\ call.thread = t /\ call.identity = i /\ call.candidate = new
    BY DEF Idle
  <2> HIDE DEF call
  <2>5. calls'[x] = call /\ \A y \in Call \ {x} : calls'[y] = calls[y]
    BY <2>2 DEF Begin, TypeOK
  <2>6. Addressed(x)'
    <3>1. ~Exists(new)'  BY <2>2 DEF Begin, db, Exists
    <3> QED  BY <2>2, <2>4, <2>5, <3>1 DEF Addressed
  <2>7. CallsInv'  BY <2>2, <2>4, <2>6, BeginKeeps
  <2> QED  BY <2>2, <2>3, <2>7 DEF Begin, TypeOK
<1>2. ASSUME NEW c \in Candidate, NEW r \in Request, NEW n \in Known(c), CallConfirm(x, c, r, n)
      PROVE  CallsInv' /\ calls' \in [Call -> CallState]
  <2> DEFINE call == [Idle EXCEPT !.kind = "confirm", !.phase = "lock",
                           !.thread = candidates[c].thread, !.identity = candidates[c].identity,
                           !.candidate = c, !.request = r, !.revision = n,
                           !.base = candidates[c].base, !.now = clock]
  <2>1. Exists(c) /\ Begin(x, call)  BY <1>2 DEF CallConfirm
  <2>2. n \in Nat  BY <2>1, ExistingDraft DEF Known
  <2>3. call \in CallState
    BY <1>0, <2>1, <2>2, IdleType, ExistingDraft DEF CallState, Kind
  <2>4. /\ call.kind = "confirm" /\ call.phase = "lock" /\ call.held = {}
        /\ call.thread = candidates[c].thread /\ call.identity = candidates[c].identity
        /\ call.candidate = c /\ call.request = r /\ call.base = candidates[c].base
    BY DEF Idle
  <2> HIDE DEF call
  <2>5. calls'[x] = call /\ \A y \in Call \ {x} : calls'[y] = calls[y]
    BY <2>1 DEF Begin, TypeOK
  <2>6. Addressed(x)'
    <3>1. Exists(c)' /\ candidates' = candidates  BY <2>1 DEF Begin, db, Exists
    <3> QED  BY <2>1, <2>4, <2>5, <3>1, ExistingDraft DEF Addressed
  <2>7. CallsInv'  BY <2>1, <2>4, <2>6, BeginKeeps, ExistingIsNotNew
  <2> QED  BY <2>1, <2>3, <2>7 DEF Begin, TypeOK
<1>3. ASSUME NEW c \in Candidate, NEW n \in Known(c), CallCancel(x, c, n)
      PROVE  CallsInv' /\ calls' \in [Call -> CallState]
  <2> DEFINE call == [Idle EXCEPT !.kind = "cancel", !.phase = "lock",
                           !.thread = candidates[c].thread, !.identity = candidates[c].identity,
                           !.candidate = c, !.revision = n]
  <2>1. Exists(c) /\ Begin(x, call)  BY <1>3 DEF CallCancel
  <2>2. n \in Nat  BY <2>1, ExistingDraft DEF Known
  <2>3. call \in CallState
    BY <2>1, <2>2, IdleType, ExistingDraft DEF CallState, Kind
  <2>4. /\ call.kind = "cancel" /\ call.phase = "lock" /\ call.held = {}
        /\ call.thread = candidates[c].thread /\ call.identity = candidates[c].identity
        /\ call.candidate = c
    BY DEF Idle
  <2> HIDE DEF call
  <2>5. calls'[x] = call /\ \A y \in Call \ {x} : calls'[y] = calls[y]
    BY <2>1 DEF Begin, TypeOK
  <2>6. Addressed(x)'
    <3>1. Exists(c)' /\ candidates' = candidates  BY <2>1 DEF Begin, db, Exists
    <3> QED  BY <2>1, <2>4, <2>5, <3>1, ExistingDraft DEF Addressed
  <2>7. CallsInv'  BY <2>1, <2>4, <2>6, BeginKeeps, ExistingIsNotNew
  <2> QED  BY <2>1, <2>3, <2>7 DEF Begin, TypeOK
<1>4. ASSUME NEW t \in Thread, CallDelete(x, t)
      PROVE  CallsInv' /\ calls' \in [Call -> CallState]
  <2> DEFINE call == [Idle EXCEPT !.kind = "delete", !.phase = "lock", !.thread = t]
  <2>1. Begin(x, call)  BY <1>4 DEF CallDelete
  <2>2. call \in CallState  BY IdleType DEF CallState, Kind
  <2>3. /\ call.kind = "delete" /\ call.phase = "lock" /\ call.held = {}
        /\ call.thread = t /\ call.candidate = None
    BY DEF Idle
  <2> HIDE DEF call
  <2>4. calls'[x] = call /\ \A y \in Call \ {x} : calls'[y] = calls[y]
    BY <2>1 DEF Begin, TypeOK
  <2>5. Addressed(x)'  BY <2>3, <2>4 DEF Addressed
  <2>6. \A y \in Call : calls[y].kind = "propose" => call.candidate # calls[y].candidate
    BY <2>3, LockAssumption DEF CallsInv, CallInv, Addressed
  <2>7. CallsInv'  BY <2>1, <2>3, <2>5, <2>6, BeginKeeps
  <2> QED  BY <2>1, <2>2, <2>7 DEF Begin, TypeOK
<1> QED  BY <1>1, <1>2, <1>3, <1>4 DEF NewCall

\* The next lock is one of those the transaction needs and lacks; the thread comes first.
LEMMA NextLockIs ==
  ASSUME TypeOK, CallsInv, NEW x \in Call, calls[x].phase = "lock"
  PROVE  LET call == calls[x]
             l == NextLock(call)
             h == call.held \cup {l}
         IN  /\ l \in AllLocks(call) /\ l \notin call.held
             /\ \/ l = call.thread /\ call.held = {}
                \/ l = call.identity /\ call.held = {call.thread} /\ call.kind # "delete"
             /\ IF h = AllLocks(call) THEN TRUE ELSE h = {call.thread} /\ call.kind # "delete"
<1>1. HoldsInOrder(x) /\ Addressed(x)  BY DEF CallsInv, LockInv, CallInv
<1>2. calls[x].kind \in Kind /\ calls[x].thread \in Thread
  BY <1>1, SeenType DEF Addressed, CallState
<1>3. calls[x].kind # "delete" => calls[x].identity \in Identity
  BY <1>1, <1>2 DEF Addressed, Kind
<1>4. calls[x].kind # "delete" => calls[x].thread # calls[x].identity
  BY <1>2, <1>3, LockAssumption
<1> QED  BY <1>1, <1>2, <1>4 DEF HoldsInOrder, NextLock, AllLocks

LEMMA TakeLockKeeps ==
  ASSUME TypeOK, CallsInv, NEW x \in Call, TakeLock(x)
  PROVE  CallsInv' /\ calls' \in [Call -> CallState]
<1> DEFINE l == NextLock(calls[x])
           h == calls[x].held \cup {l}
           phase == IF h = AllLocks(calls[x]) THEN "read" ELSE "lock"
<1>1. /\ calls[x].phase = "lock" /\ Free(x, l) /\ l \notin deleted
      /\ calls' = [calls EXCEPT ![x].held = h, ![x].phase = phase]
      /\ UNCHANGED db
  BY DEF TakeLock
<1>2. HoldsInOrder(x) /\ Addressed(x)  BY DEF CallsInv, LockInv, CallInv
<1>3. /\ l \in AllLocks(calls[x])
      /\ phase = "lock" => h = {calls[x].thread} /\ calls[x].kind # "delete"
      /\ phase = "read" => h = AllLocks(calls[x])
      /\ phase \in {"lock", "read"}
  BY <1>1, NextLockIs
<1>4. l \in Thread \cup Identity
  <2>1. calls[x].kind \in Kind  BY <1>1, <1>2, SeenType DEF Addressed, CallState
  <2> QED  BY <1>1, <1>2, <1>3, <2>1 DEF Addressed, AllLocks, Kind
<1>5. h \in SUBSET (Thread \cup Identity)  BY <1>4, SeenType DEF CallState
<1> HIDE DEF l, phase
<1>6. /\ calls'[x] = [calls[x] EXCEPT !.held = h, !.phase = phase]
      /\ \A y \in Call \ {x} : calls'[y] = calls[y]
  BY <1>1 DEF TypeOK
<1>7. /\ calls'[x].held = h /\ calls'[x].phase = phase /\ calls'[x].kind = calls[x].kind
      /\ calls'[x].thread = calls[x].thread /\ calls'[x].identity = calls[x].identity
      /\ calls'[x].candidate = calls[x].candidate /\ calls'[x].request = calls[x].request
      /\ calls'[x].base = calls[x].base
  BY <1>6, SeenType DEF CallState
<1> HIDE DEF h
<1>8. AllLocks(calls'[x]) = AllLocks(calls[x])  BY <1>7 DEF AllLocks
<1>9. HoldsInOrder(x)'
  <2>1. h \cap deleted = {}
    BY <1>1, <1>2 DEF h, HoldsInOrder
  <2> QED  BY <1>1, <1>3, <1>7, <1>8, <2>1 DEF HoldsInOrder, db
<1>10. Addressed(x)'
  <2>1. candidates' = candidates  BY <1>1 DEF db
  <2>2. calls[x].kind = "propose" =>
          \A y \in Call \ {x} : calls'[y].candidate # calls[x].candidate
    BY <1>2, <1>6 DEF Addressed
  <2> QED  BY <1>1, <1>2, <1>3, <1>6, <1>7, <2>1, <2>2, SameStore DEF Addressed
<1>11. \A y \in Call \ {x} : Addressed(y)'
  BY <1>1, <1>2, <1>6, <1>7, AddressesKept DEF Addressed
<1>12. \A y \in Call \ {x} : calls'[x].held \cap calls[y].held = {}
  <2> TAKE y \in Call \ {x}
  <2>1. calls[x].held \cap calls[y].held = {}  BY DEF CallsInv, LockInv
  <2>2. l \notin calls[y].held  BY <1>1 DEF Free
  <2> QED  BY <1>7, <2>1, <2>2 DEF h
<1>13. CallsInv'  BY <1>1, <1>3, <1>6, <1>7, <1>9, <1>10, <1>11, <1>12, OneCallMoves
<1>14. calls'[x] \in CallState
  <2>1. phase \in {"idle", "lock", "read", "write"}  BY <1>3
  <2> QED  BY <1>5, <1>6, <2>1, SeenType DEF CallState
<1> QED  BY <1>1, <1>13, <1>14 DEF TypeOK

\* A transaction that holds its locks has read what it needs.
LEMMA ReadKeeps ==
  ASSUME TypeOK, CallsInv, UNCHANGED db, NEW x \in Call, calls[x].phase = "read",
         NEW call \in CallState, calls' = [calls EXCEPT ![x] = call],
         call.phase = "write", call.held = calls[x].held,
         call.kind = calls[x].kind, call.kind # "cancel",
         call.thread = calls[x].thread, call.identity = calls[x].identity,
         call.candidate = calls[x].candidate, call.request = calls[x].request,
         call.kind = "confirm" => call.base = calls[x].base,
         (ReadPending(x) /\ ReadIdentity(x) /\ ReadDraft(x) /\ ReadThread(x))'
  PROVE  CallsInv' /\ calls' \in [Call -> CallState]
<1>1. calls'[x] = call /\ \A y \in Call \ {x} : calls'[y] = calls[y]  BY DEF TypeOK
<1>2. HoldsInOrder(x) /\ Addressed(x)  BY DEF CallsInv, LockInv, CallInv
<1>3. HoldsInOrder(x)'
  BY <1>1, <1>2 DEF HoldsInOrder, AllLocks, db
<1>4. Addressed(x)'
  <2>1. candidates' = candidates  BY DEF db
  <2>2. calls[x].kind = "propose" =>
          \A y \in Call \ {x} : calls'[y].candidate # calls[x].candidate
    BY <1>1, <1>2 DEF Addressed
  <2> QED  BY <1>1, <1>2, <2>1, <2>2, SameStore DEF Addressed
<1>5. \A y \in Call \ {x} : Addressed(y)'
  BY <1>1, <1>2, AddressesKept DEF Addressed
<1>6. \A y \in Call \ {x} : calls'[x].held \cap calls[y].held = {}
  BY <1>1 DEF CallsInv, LockInv
<1> QED  BY <1>1, <1>3, <1>4, <1>5, <1>6, OneCallMoves DEF TypeOK

LEMMA RowsRead ==
  ASSUME TypeOK, NEW S \in SUBSET Candidate, NEW x \in Call, calls'[x].seen = Rows(S),
         \A c \in S : candidates[c].status = "PENDING", UNCHANGED db
  PROVE  /\ Read(x)' = S
         /\ ReadPending(x)'
<1>1. Read(x)' = S
  BY DEF Read, Rows, NoRow
<1>2. \A c \in S : calls'[x].seen[c] = candidates[c]  BY DEF Rows
<1>3. candidates' = candidates  BY DEF db
<1> QED  BY <1>1, <1>2, <1>3 DEF ReadPending, SameDraft

LEMMA ProposeReadsKeeps ==
  ASSUME IInv, NEW x \in Call, ProposeReads(x)
  PROVE  CallsInv' /\ calls' \in [Call -> CallState]
<1> USE DEF IInv
<1> DEFINE i == calls[x].identity
           S == Pending(i, calls[x].thread)
           call == [calls[x] EXCEPT !.phase = "write", !.base = Latest(i), !.seen = Rows(S)]
<1>1. /\ calls[x].kind = "propose" /\ calls[x].phase = "read" /\ Proposable(calls[x])
      /\ calls' = [calls EXCEPT ![x] = call]
      /\ UNCHANGED db
  BY DEF ProposeReads, TypeOK
<1>2. i \in Identity  BY <1>1 DEF CallsInv, CallInv, Addressed
<1>3. Latest(i) \in Nat  BY <1>2 DEF StoreInv, VersionInv
<1>4. /\ call \in CallState /\ call.phase = "write" /\ call.held = calls[x].held
      /\ call.kind = calls[x].kind /\ call.thread = calls[x].thread
      /\ call.identity = i /\ call.candidate = calls[x].candidate
      /\ call.request = calls[x].request /\ call.operation = calls[x].operation
      /\ call.base = Latest(i) /\ call.seen = Rows(S)
  BY <1>3, RowsType, SeenType DEF CallState
<1> HIDE DEF call
<1>5. calls'[x] = call  BY <1>1 DEF TypeOK
<1>6. Read(x)' = S /\ ReadPending(x)'
  BY <1>1, <1>4, <1>5, RowsRead DEF Pending
<1>7. ReadIdentity(x)'
  <2>1. call.operation = "INVALIDATE" => IsActive(i, Latest(i))
    BY <1>1, <1>4 DEF Proposable
  <2>2. candidates' = candidates  BY <1>1 DEF db
  <2>3. \A c \in Candidate :
          candidates[c].status = "PENDING" /\ candidates[c].identity = i <=> c \in S
    BY DEF Pending
  <2>5. \A c \in S : c \in Candidate  BY DEF Pending
  <2> HIDE DEF S
  <2>7. /\ calls'[x].operation = call.operation /\ calls'[x].base = Latest(i)
        /\ calls'[x].identity = i
    BY <1>4, <1>5
  <2>8. Latest(calls[x].identity)' = Latest(i)  BY <1>1, <2>7, SameStore
  <2>9. IsActive(calls[x].identity, calls[x].base)' <=> IsActive(i, Latest(i))
    BY <1>1, <2>7, SameStore
  <2> HIDE DEF i
  <2> QED  BY <1>6, <2>1, <2>2, <2>3, <2>5, <2>7, <2>8, <2>9 DEF ReadIdentity
<1>8. ReadDraft(x)' /\ ReadThread(x)'
  BY <1>1, <1>4, <1>5 DEF ReadDraft, ReadThread
<1> QED  BY <1>1, <1>4, <1>6, <1>7, <1>8, ReadKeeps

LEMMA ConfirmReadsKeeps ==
  ASSUME IInv, NEW x \in Call, ConfirmReads(x)
  PROVE  CallsInv' /\ calls' \in [Call -> CallState]
<1> USE DEF IInv
<1> DEFINE c == calls[x].candidate
           call == [calls[x] EXCEPT !.phase = "write", !.seen = Rows({c})]
<1>1. /\ calls[x].kind = "confirm" /\ calls[x].phase = "read" /\ Confirmable(calls[x])
      /\ calls' = [calls EXCEPT ![x] = call]
      /\ UNCHANGED db
  BY DEF ConfirmReads, TypeOK
<1>2. c \in Candidate  BY <1>1 DEF CallsInv, CallInv, Addressed
<1>3. candidates[c].status = "PENDING" /\ candidates[c].expires > calls[x].now
  BY <1>1 DEF Confirmable, Resolvable
<1>4. /\ call \in CallState /\ call.phase = "write" /\ call.held = calls[x].held
      /\ call.kind = calls[x].kind /\ call.thread = calls[x].thread
      /\ call.identity = calls[x].identity /\ call.candidate = c
      /\ call.request = calls[x].request /\ call.base = calls[x].base
      /\ call.now = calls[x].now /\ call.seen = Rows({c})
  BY RowsType, SeenType DEF CallState
<1> HIDE DEF call
<1>5. calls'[x] = call  BY <1>1 DEF TypeOK
<1>6. Read(x)' = {c} /\ ReadPending(x)'
  BY <1>1, <1>2, <1>3, <1>4, <1>5, RowsRead
<1>7. ReadDraft(x)'
  <2>1. Rows({c})[c] = candidates[c] /\ candidates' = candidates  BY <1>1, <1>2 DEF Rows, db
  <2> QED  BY <1>3, <1>4, <1>5, <1>6, <2>1 DEF ReadDraft
<1>8. ReadIdentity(x)' /\ ReadThread(x)'
  BY <1>1, <1>4, <1>5 DEF ReadIdentity, ReadThread
<1> QED  BY <1>1, <1>4, <1>6, <1>7, <1>8, ReadKeeps

LEMMA DeleteReadsKeeps ==
  ASSUME IInv, NEW x \in Call, DeleteReads(x)
  PROVE  CallsInv' /\ calls' \in [Call -> CallState]
<1> USE DEF IInv
<1> DEFINE t == calls[x].thread
           S == PendingOf(t)
           call == [calls[x] EXCEPT !.phase = "write", !.seen = Rows(S)]
<1>1. /\ calls[x].kind = "delete" /\ calls[x].phase = "read"
      /\ calls' = [calls EXCEPT ![x] = call]
      /\ UNCHANGED db
  BY DEF DeleteReads, TypeOK
<1>2. /\ call \in CallState /\ call.phase = "write" /\ call.held = calls[x].held
      /\ call.kind = calls[x].kind /\ call.thread = t
      /\ call.identity = calls[x].identity /\ call.candidate = calls[x].candidate
      /\ call.request = calls[x].request /\ call.seen = Rows(S)
  BY RowsType, SeenType DEF CallState
<1> HIDE DEF call
<1>3. calls'[x] = call  BY <1>1 DEF TypeOK
<1>4. Read(x)' = S /\ ReadPending(x)'
  BY <1>1, <1>2, <1>3, RowsRead DEF PendingOf
<1>5. ReadThread(x)'
  <2>1. candidates' = candidates  BY <1>1 DEF db
  <2> QED  BY <1>2, <1>3, <1>4, <2>1 DEF ReadThread, PendingOf
<1>6. ReadIdentity(x)' /\ ReadDraft(x)'
  BY <1>1, <1>2, <1>3 DEF ReadIdentity, ReadDraft
<1> QED  BY <1>1, <1>2, <1>4, <1>5, <1>6, ReadKeeps

(***************************************************************************)
(* Steps that commit: what each may do to the rows, given the locks it has.*)
(***************************************************************************)

\* A commit of x ends no draft but under a lock of its own on the draft's thread or
\* identity, confirms one only under both, adds none but the draft x proposes, and
\* changes nothing but the status and the revision of a row.
Commits(x) ==
  /\ calls[x].phase \in {"read", "write"} /\ End(x)
  /\ \A c \in Candidate : Exists(c) => Exists(c)' /\ SameDraft(candidates'[c], candidates[c])
  /\ \A c \in Candidate : Exists(c)' /\ ~Exists(c) =>
       /\ calls[x].kind = "propose" /\ c = calls[x].candidate /\ candidates'[c].status = "PENDING"
       /\ candidates'[c].thread = calls[x].thread /\ candidates'[c].identity = calls[x].identity
  /\ \A c \in Candidate : Exists(c) /\ candidates'[c] # candidates[c] =>
       \/ /\ candidates[c].status \in {"PENDING", "CANCELLED", "EXPIRED"}
          /\ candidates'[c].status \in {"CANCELLED", "EXPIRED"}
          /\ candidates[c].thread \in calls[x].held \/ candidates[c].identity \in calls[x].held
       \/ /\ candidates[c].status = "PENDING" /\ candidates'[c].status = "CONFIRMED"
          /\ candidates[c].thread \in calls[x].held /\ candidates[c].identity \in calls[x].held
  /\ \A i \in Identity : i \notin calls[x].held => Of(i)' = Of(i)
  /\ deleted' \subseteq deleted \cup calls[x].held

\* The drafts a transaction read are still under a lock it holds.
LEMMA ReadIsLocked ==
  ASSUME TypeOK, CallsInv, NEW y \in Call, calls[y].phase = "write", NEW c \in Read(y)
  PROVE  /\ c \in Candidate /\ Exists(c)
         /\ candidates[c].thread \in calls[y].held \/ candidates[c].identity \in calls[y].held
<1>1. /\ HoldsInOrder(y) /\ Addressed(y)
      /\ ReadPending(y) /\ ReadIdentity(y) /\ ReadDraft(y) /\ ReadThread(y)
  BY DEF CallsInv, LockInv, CallInv, SeenInv
<1>2. calls[y].held = AllLocks(calls[y])  BY <1>1 DEF HoldsInOrder
<1>3. calls[y].kind \in {"propose", "confirm", "delete"}
  BY <1>1, SeenType DEF Addressed, CallState, Kind
<1>4. c \in Candidate /\ Exists(c)  BY <1>1 DEF Read, ReadPending, Exists
<1>5. CASE calls[y].kind = "propose"
  BY <1>1, <1>2, <1>4, <1>5 DEF ReadIdentity, AllLocks
<1>6. CASE calls[y].kind = "confirm"
  BY <1>1, <1>2, <1>4, <1>6 DEF ReadDraft, Addressed, AllLocks
<1>7. CASE calls[y].kind = "delete"
  BY <1>1, <1>2, <1>4, <1>7 DEF ReadThread, AllLocks
<1> QED  BY <1>3, <1>4, <1>5, <1>6, <1>7

\* A draft that is pending after a commit was there before it, or is the one proposed.
LEMMA StillPending ==
  ASSUME NEW x, Commits(x), NEW c \in Candidate, candidates'[c].status = "PENDING"
  PROVE  \/ candidates'[c] = candidates[c]
         \/ /\ ~Exists(c) /\ calls[x].kind = "propose" /\ c = calls[x].candidate
            /\ candidates'[c].thread = calls[x].thread
            /\ candidates'[c].identity = calls[x].identity
<1>1. Exists(c)'  BY DEF Exists
<1> QED  BY <1>1 DEF Commits

LEMMA CommitKeepsLocks ==
  ASSUME TypeOK, CallsInv, NEW x \in Call, Commits(x)
  PROVE  LockInv'
<1>1. End(x) /\ deleted' \subseteq deleted \cup calls[x].held  BY DEF Commits
<1>2. calls'[x] = Idle /\ \A y \in Call \ {x} : calls'[y] = calls[y]  BY <1>1, EndType
<1>3. Idle.held = {} /\ Idle.phase = "idle"  BY DEF Idle
<1>4. ASSUME NEW y \in Call, NEW z \in Call, y # z
      PROVE  calls'[y].held \cap calls'[z].held = {}
  BY <1>2, <1>3, <1>4 DEF CallsInv, LockInv
<1>5. ASSUME NEW y \in Call  PROVE HoldsInOrder(y)'
  <2>1. CASE y = x  BY <1>2, <1>3, <2>1 DEF HoldsInOrder
  <2>2. CASE y # x
    <3>1. HoldsInOrder(y) /\ calls[y].held \cap calls[x].held = {}
      BY <2>2 DEF CallsInv, LockInv
    <3> QED  BY <1>1, <1>2, <2>2, <3>1 DEF HoldsInOrder
  <2> QED  BY <2>1, <2>2
<1> QED  BY <1>4, <1>5 DEF LockInv

LEMMA CommitKeepsAddresses ==
  ASSUME TypeOK, CallsInv, NEW x \in Call, Commits(x)
  PROVE  CallInv'
<1>1. calls'[x] = Idle /\ \A y \in Call \ {x} : calls'[y] = calls[y]  BY EndType DEF Commits
<1>2. Idle.kind = "idle" /\ Idle.phase = "idle" /\ Idle.candidate = None  BY DEF Idle
<1>3. ASSUME NEW y \in Call  PROVE Addressed(y)'
  <2>1. CASE y = x  BY <1>1, <1>2, <2>1 DEF Addressed
  <2>2. CASE y # x
    <3>1. Addressed(y) /\ calls'[y] = calls[y]  BY <1>1, <2>2 DEF CallsInv, CallInv
    <3>2. calls[y].kind = "propose" =>
            /\ ~Exists(calls[y].candidate)'
            /\ \A z \in Call \ {y} : calls'[z].candidate # calls[y].candidate
      <4> SUFFICES ASSUME calls[y].kind = "propose"
                   PROVE  /\ ~Exists(calls[y].candidate)'
                          /\ \A z \in Call \ {y} : calls'[z].candidate # calls[y].candidate
        OBVIOUS
      <4>1. /\ calls[y].candidate \in Candidate /\ ~Exists(calls[y].candidate)
            /\ \A z \in Call \ {y} : calls[z].candidate # calls[y].candidate
        BY <3>1 DEF Addressed
      <4>2. \A z \in Call \ {y} : calls'[z].candidate # calls[y].candidate
        BY <1>1, <1>2, <4>1, LockAssumption
      <4>3. ~Exists(calls[y].candidate)'
        BY <2>2, <3>1, <4>1 DEF Commits, Exists
      <4> QED  BY <4>2, <4>3
    <3>3. calls[y].kind \in {"confirm", "cancel"} =>
            /\ Exists(calls[y].candidate)'
            /\ SameDraft(candidates'[calls[y].candidate], candidates[calls[y].candidate])
      BY <3>1 DEF Addressed, Commits, Exists
    <3> QED  BY <3>1, <3>2, <3>3 DEF Addressed, SameDraft, Exists
  <2> QED  BY <2>1, <2>2
<1> QED  BY <1>3 DEF CallInv

LEMMA CommitKeepsSeen ==
  ASSUME TypeOK, CallsInv, NEW x \in Call, Commits(x)
  PROVE  SeenInv'
<1>1. calls'[x] = Idle /\ \A y \in Call \ {x} : calls'[y] = calls[y]  BY EndType DEF Commits
<1> SUFFICES ASSUME NEW y \in Call, calls'[y].phase = "write"
             PROVE  (ReadPending(y) /\ ReadIdentity(y) /\ ReadDraft(y) /\ ReadThread(y))'
  BY DEF SeenInv
<1>2. y # x /\ calls'[y] = calls[y] /\ calls[y].phase = "write"
  BY <1>1 DEF Idle
<1>3. /\ HoldsInOrder(y) /\ Addressed(y) /\ HoldsInOrder(x)
      /\ ReadPending(y) /\ ReadIdentity(y) /\ ReadDraft(y) /\ ReadThread(y)
      /\ calls[x].held \cap calls[y].held = {}
  BY <1>2 DEF CallsInv, LockInv, CallInv, SeenInv
<1>4. calls[y].held = AllLocks(calls[y])  BY <1>2, <1>3 DEF HoldsInOrder
<1>5. Read(y)' = Read(y)  BY <1>2 DEF Read
<1>6. calls[x].kind = "propose" =>
        calls[x].thread \in calls[x].held /\ calls[x].identity \in calls[x].held
  BY <1>3 DEF HoldsInOrder, AllLocks, Commits
<1>7. ReadPending(y)'
  <2> SUFFICES ASSUME NEW c \in Read(y)
               PROVE  /\ calls[y].seen[c].status = "PENDING"
                      /\ candidates'[c].status \in {"PENDING", "CANCELLED", "EXPIRED"}
                      /\ SameDraft(candidates'[c], calls[y].seen[c])
    BY <1>2, <1>5 DEF ReadPending
  <2>1. /\ c \in Candidate /\ Exists(c)
        /\ candidates[c].thread \notin calls[x].held \/ candidates[c].identity \notin calls[x].held
    BY <1>2, <1>3, ReadIsLocked
  <2>2. SameDraft(candidates'[c], calls[y].seen[c])
    BY <1>3, <2>1 DEF Commits, SameDraft, ReadPending
  <2>3. candidates'[c].status \in {"PENDING", "CANCELLED", "EXPIRED"}
    BY <1>3, <2>1 DEF Commits, ReadPending
  <2> QED  BY <1>3, <2>2, <2>3 DEF ReadPending
<1>8. ReadIdentity(y)'
  <2> SUFFICES ASSUME calls[y].kind = "propose"  PROVE ReadIdentity(y)'
    BY <1>2 DEF ReadIdentity
  <2> DEFINE i == calls[y].identity
  <2>1. i \in Identity /\ i \notin calls[x].held
    BY <1>3, <1>4 DEF Addressed, AllLocks
  <2>2. Of(i)' = Of(i)
    <3>1. \A j \in Identity : j \notin calls[x].held => Of(j)' = Of(j)  BY DEF Commits
    <3>2. calls'[y].identity = i  BY <1>2
    <3> QED  BY <2>1, <3>1, <3>2
  <2>3. Latest(i)' = Latest(i)  BY <2>2 DEF Latest
  <2>4. \A n : IsActive(i, n)' <=> IsActive(i, n)  BY <2>2 DEF IsActive
  <2>5. ASSUME NEW c \in Candidate, candidates'[c].status = "PENDING", candidates'[c].identity = i
        PROVE  c \in Read(y)
    BY <1>3, <1>6, <2>1, <2>5, StillPending DEF ReadIdentity
  <2>6. ASSUME NEW c \in Read(y)  PROVE candidates'[c].identity = i
    BY <1>2, <1>3, <2>6, ReadIsLocked DEF Commits, SameDraft, ReadIdentity
  <2> QED  BY <1>2, <1>3, <1>5, <2>3, <2>4, <2>5, <2>6 DEF ReadIdentity
<1>9. ReadDraft(y)'
  <2> SUFFICES ASSUME calls[y].kind = "confirm"  PROVE ReadDraft(y)'
    BY <1>2 DEF ReadDraft
  <2> DEFINE c == calls[y].candidate
  <2>1. /\ c \in Candidate /\ Exists(c)
        /\ candidates[c].thread \in calls[y].held /\ candidates[c].identity \in calls[y].held
    BY <1>3, <1>4 DEF Addressed, AllLocks
  <2>2. candidates'[c] = candidates[c]  BY <1>3, <2>1 DEF Commits
  <2> QED  BY <1>2, <1>3, <1>5, <2>2 DEF ReadDraft
<1>10. ReadThread(y)'
  <2> SUFFICES ASSUME calls[y].kind = "delete"  PROVE ReadThread(y)'
    BY <1>2 DEF ReadThread
  <2>1. calls[y].thread \notin calls[x].held  BY <1>3, <1>4 DEF AllLocks
  <2>2. ASSUME NEW c \in Candidate, candidates'[c].status = "PENDING",
               candidates'[c].thread = calls[y].thread
        PROVE  c \in Read(y)
    BY <1>3, <1>6, <2>1, <2>2, StillPending DEF ReadThread
  <2>3. ASSUME NEW c \in Read(y)  PROVE candidates'[c].thread = calls[y].thread
    BY <1>2, <1>3, <2>3, ReadIsLocked DEF Commits, SameDraft, ReadThread
  <2> QED  BY <1>2, <1>5, <2>2, <2>3 DEF ReadThread
<1> QED  BY <1>7, <1>8, <1>9, <1>10

LEMMA CommitKeepsCalls ==
  ASSUME TypeOK, CallsInv, NEW x \in Call, Commits(x)
  PROVE  CallsInv'
BY CommitKeepsLocks, CommitKeepsAddresses, CommitKeepsSeen DEF CallsInv

\* A transaction that has not begun to end holds all its locks.
LEMMA WriterHolds ==
  ASSUME TypeOK, CallsInv, NEW x \in Call, calls[x].phase \in {"read", "write"}
  PROVE  /\ calls[x].held = AllLocks(calls[x])
         /\ calls[x].thread \in Thread /\ calls[x].thread \in calls[x].held
         /\ calls[x].thread \notin deleted
         /\ calls[x].kind # "delete" => calls[x].identity \in calls[x].held
         /\ calls[x].kind \in {"propose", "confirm", "cancel"} =>
              calls[x].identity \in Identity /\ calls[x].candidate \in Candidate
         /\ calls[x].kind \in {"confirm", "cancel"} =>
              /\ Exists(calls[x].candidate)
              /\ candidates[calls[x].candidate].thread = calls[x].thread
              /\ candidates[calls[x].candidate].identity = calls[x].identity
<1>1. HoldsInOrder(x) /\ Addressed(x)  BY DEF CallsInv, LockInv, CallInv
<1>2. calls[x].thread \in AllLocks(calls[x])  BY DEF AllLocks
<1>3. calls[x].kind # "delete" => calls[x].identity \in AllLocks(calls[x])  BY DEF AllLocks
<1> QED  BY <1>1, <1>2, <1>3 DEF HoldsInOrder, Addressed

\* What writing back does to a draft: resolved if it was read, left alone otherwise.
LEMMA WriteBackIs ==
  ASSUME TypeOK, CallsInv, NEW x \in Call, calls[x].phase = "write",
         NEW c \in Candidate, NEW status \in Resolved
  PROVE  /\ WriteBack(x, c, status) \in Row
         /\ c \notin Read(x) => WriteBack(x, c, status) = candidates[c]
         /\ c \in Read(x) =>
              /\ WriteBack(x, c, status).status = status
              /\ SameDraft(WriteBack(x, c, status), candidates[c])
              /\ candidates[c].status \in {"PENDING", "CANCELLED", "EXPIRED"}
              /\ candidates[c].thread \in calls[x].held \/ candidates[c].identity \in calls[x].held
<1>1. WriteBack(x, c, status) \in Row  BY WriteBackType
<1>2. c \notin Read(x) => WriteBack(x, c, status) = candidates[c]  BY DEF Read, WriteBack
<1>3. ASSUME c \in Read(x)
      PROVE  /\ WriteBack(x, c, status).status = status
             /\ SameDraft(WriteBack(x, c, status), candidates[c])
             /\ candidates[c].status \in {"PENDING", "CANCELLED", "EXPIRED"}
             /\ candidates[c].thread \in calls[x].held \/ candidates[c].identity \in calls[x].held
  <2>1. ReadPending(x)  BY DEF CallsInv, SeenInv
  <2>2. WriteBack(x, c, status) = Resolve(calls[x].seen[c], status)
    BY <1>3 DEF Read, WriteBack
  <2>3. calls[x].seen[c] \in Row  BY SeenType
  <2> QED  BY <1>3, <2>1, <2>2, <2>3, ResolveType, ReadIsLocked DEF ReadPending, SameDraft
<1> QED  BY <1>1, <1>2, <1>3

LEMMA ProposeCommits ==
  ASSUME TypeOK, CallsInv, NEW x \in Call, ProposeWrites(x)
  PROVE  /\ Commits(x) /\ TypeOK'
         /\ calls[x].candidate \in Candidate /\ ~Exists(calls[x].candidate)
         /\ candidates'[calls[x].candidate].status = "PENDING"
         /\ candidates'[calls[x].candidate].thread = calls[x].thread
         /\ candidates'[calls[x].candidate].identity = calls[x].identity
         /\ candidates'[calls[x].candidate].operation = calls[x].operation
         /\ candidates'[calls[x].candidate].base = calls[x].base
         /\ \A c \in Candidate \ {calls[x].candidate} :
              /\ c \notin Read(x) => candidates'[c] = candidates[c]
              /\ c \in Read(x) => candidates'[c].status \in {"CANCELLED", "EXPIRED"}
<1> DEFINE new == calls[x].candidate
           Draft == [status |-> "PENDING", thread |-> calls[x].thread,
                     identity |-> calls[x].identity, operation |-> calls[x].operation,
                     base |-> calls[x].base, revision |-> 1, expires |-> calls[x].now + Lifetime]
           how(c) == IF calls[x].seen[c].expires <= calls[x].now THEN "EXPIRED" ELSE "CANCELLED"
<1>1. /\ calls[x].kind = "propose" /\ calls[x].phase = "write" /\ End(x)
      /\ candidates' = [c \in Candidate |-> IF c = new THEN Draft ELSE WriteBack(x, c, how(c))]
      /\ UNCHANGED <<clock, deleted, versions, told>>
  BY DEF ProposeWrites
<1>2. /\ new \in Candidate /\ ~Exists(new)
      /\ calls[x].thread \in Thread /\ calls[x].identity \in Identity
  BY <1>1 DEF CallsInv, CallInv, Addressed
<1>3. Draft \in Row
  BY <1>2, SeenType, LifetimeAssumption DEF CallState, Row
<1>4. candidates'[new] = Draft  BY <1>1, <1>2
<1>5. /\ Draft.status = "PENDING" /\ Draft.thread = calls[x].thread
      /\ Draft.identity = calls[x].identity /\ Draft.operation = calls[x].operation
      /\ Draft.base = calls[x].base
  OBVIOUS
<1>6. \A c \in Candidate : how(c) \in {"CANCELLED", "EXPIRED"} /\ how(c) \in Resolved
  BY DEF Resolved
<1> HIDE DEF Draft, how
<1>7. ASSUME NEW c \in Candidate \ {new}
      PROVE  /\ candidates'[c] \in Row
             /\ c \notin Read(x) => candidates'[c] = candidates[c]
             /\ c \in Read(x) =>
                  /\ candidates'[c].status \in {"CANCELLED", "EXPIRED"}
                  /\ SameDraft(candidates'[c], candidates[c])
                  /\ candidates[c].status \in {"PENDING", "CANCELLED", "EXPIRED"}
                  /\ candidates[c].thread \in calls[x].held
                     \/ candidates[c].identity \in calls[x].held
  <2>1. candidates'[c] = WriteBack(x, c, how(c))  BY <1>1
  <2> QED  BY <1>1, <1>6, <2>1, WriteBackIs
<1>8. Commits(x)
  <2>1. \A c \in Candidate : Exists(c) => Exists(c)' /\ SameDraft(candidates'[c], candidates[c])
    BY <1>2, <1>7 DEF Exists, SameDraft
  <2>2. \A c \in Candidate : Exists(c)' /\ ~Exists(c) => c = new
    BY <1>7 DEF Exists
  <2>3. \A i \in Identity : Of(i)' = Of(i)  BY <1>1 DEF Of
  <2> QED  BY <1>1, <1>2, <1>4, <1>5, <1>7, <2>1, <2>2, <2>3 DEF Commits
<1>9. TypeOK'
  <2>1. candidates' \in [Candidate -> Row]
    <3>1. \A c \in Candidate : candidates'[c] \in Row  BY <1>3, <1>4, <1>7
    <3>2. candidates' = [c \in Candidate |-> candidates'[c]]  BY <1>1
    <3> QED  BY <3>1, <3>2
  <2> QED  BY <1>1, <2>1, EndType DEF TypeOK
<1> QED  BY <1>2, <1>4, <1>5, <1>7, <1>8, <1>9

LEMMA DeleteCommits ==
  ASSUME TypeOK, CallsInv, NEW x \in Call, DeleteWrites(x)
  PROVE  /\ Commits(x) /\ TypeOK' /\ UNCHANGED <<versions, told>>
         /\ deleted' = deleted \cup {calls[x].thread}
         /\ \A c \in Candidate :
              /\ c \notin Read(x) => candidates'[c] = candidates[c]
              /\ c \in Read(x) => candidates'[c].status = "CANCELLED"
<1>1. /\ calls[x].kind = "delete" /\ calls[x].phase = "write" /\ End(x)
      /\ candidates' = [c \in Candidate |-> WriteBack(x, c, "CANCELLED")]
      /\ deleted' = deleted \cup {calls[x].thread}
      /\ UNCHANGED <<clock, versions, told>>
  BY DEF DeleteWrites
<1>2. calls[x].thread \in Thread /\ calls[x].thread \in calls[x].held
  BY <1>1, WriterHolds
<1>3. ASSUME NEW c \in Candidate
      PROVE  /\ candidates'[c] \in Row
             /\ c \notin Read(x) => candidates'[c] = candidates[c]
             /\ c \in Read(x) =>
                  /\ candidates'[c].status = "CANCELLED"
                  /\ SameDraft(candidates'[c], candidates[c])
                  /\ candidates[c].status \in {"PENDING", "CANCELLED", "EXPIRED"}
                  /\ candidates[c].thread \in calls[x].held
                     \/ candidates[c].identity \in calls[x].held
  <2>1. "CANCELLED" \in Resolved  BY DEF Resolved
  <2> QED  BY <1>1, <2>1, WriteBackIs
<1>4. Commits(x)
  <2>1. \A c \in Candidate : Exists(c) => Exists(c)' /\ SameDraft(candidates'[c], candidates[c])
    BY <1>3 DEF Exists, SameDraft
  <2>2. \A c \in Candidate : Exists(c)' => Exists(c)  BY <1>3 DEF Exists
  <2>3. \A i \in Identity : Of(i)' = Of(i)  BY <1>1 DEF Of
  <2> QED  BY <1>1, <1>2, <1>3, <2>1, <2>2, <2>3 DEF Commits
<1>5. TypeOK'
  BY <1>1, <1>2, <1>3, EndType DEF TypeOK
<1> QED  BY <1>1, <1>3, <1>4, <1>5

LEMMA CancelCommits ==
  ASSUME TypeOK, CallsInv, NEW x \in Call, Cancel(x)
  PROVE  /\ Commits(x) /\ TypeOK' /\ UNCHANGED <<deleted, versions, told>>
         /\ \A c \in Candidate :
              candidates'[c] = candidates[c] \/ candidates'[c].status = "CANCELLED"
<1> DEFINE d == calls[x].candidate
<1>1. /\ calls[x].kind = "cancel" /\ calls[x].phase = "read" /\ End(x)
      /\ candidates[d].status = "PENDING"
      /\ candidates' = [candidates EXCEPT ![d] = Resolve(candidates[d], "CANCELLED")]
      /\ UNCHANGED <<clock, deleted, versions, told>>
  BY DEF Cancel, Resolvable
<1>2. /\ d \in Candidate /\ candidates[d].thread \in calls[x].held
  BY <1>1, WriterHolds
<1>3. /\ candidates'[d] \in Row /\ candidates'[d].status = "CANCELLED"
      /\ SameDraft(candidates'[d], candidates[d])
  <2>1. candidates[d] \in Row /\ "CANCELLED" \in Resolved  BY <1>2 DEF TypeOK, Resolved
  <2>2. candidates'[d] = Resolve(candidates[d], "CANCELLED")  BY <1>1, <1>2 DEF TypeOK
  <2> QED  BY <2>1, <2>2, ResolveType
<1>4. \A c \in Candidate \ {d} : candidates'[c] = candidates[c]  BY <1>1 DEF TypeOK
<1>5. Commits(x)
  <2>1. \A c \in Candidate : Exists(c) => Exists(c)' /\ SameDraft(candidates'[c], candidates[c])
    BY <1>3, <1>4 DEF Exists, SameDraft
  <2>2. \A c \in Candidate : Exists(c)' => Exists(c)  BY <1>1, <1>4 DEF Exists
  <2>3. \A i \in Identity : Of(i)' = Of(i)  BY <1>1 DEF Of
  <2> QED  BY <1>1, <1>2, <1>3, <1>4, <2>1, <2>2, <2>3 DEF Commits
<1>6. TypeOK'
  <2>1. candidates' \in [Candidate -> Row]  BY <1>1, <1>3, <1>4 DEF TypeOK
  <2> QED  BY <1>1, <2>1, EndType DEF TypeOK
<1> QED  BY <1>1, <1>3, <1>4, <1>5, <1>6

\* The latest version of an identity once superseded; every other version as it is.
Aged(v, n) == IF v.number = n /\ v.status = "ACTIVE" THEN [v EXCEPT !.status = "SUPERSEDED"] ELSE v

LEMMA AgedIs ==
  ASSUME NEW v \in Version, NEW n
  PROVE  /\ Aged(v, n) \in Version /\ Aged(v, n).identity = v.identity
         /\ Aged(v, n).number = v.number
         /\ Aged(v, n).candidate = v.candidate /\ Aged(v, n).request = v.request
         /\ v.status # "ACTIVE" => Aged(v, n) = v
         /\ v.status = "ACTIVE" /\ v.number = n => Aged(v, n).status = "SUPERSEDED"
         /\ ~(v.status = "ACTIVE" /\ v.number = n) => Aged(v, n) = v
BY DEF Aged, Version

\* The version a confirmation adds.
Added(x) == [identity |-> calls[x].identity, number |-> calls[x].base + 1,
             status |-> IF candidates[calls[x].candidate].operation = "INVALIDATE"
                        THEN "INVALIDATED" ELSE "ACTIVE",
             candidate |-> calls[x].candidate, request |-> calls[x].request]

\* A confirmation adds one version to its identity, in the place of the latest one.
LEMMA ConfirmIs ==
  ASSUME IInv, NEW x \in Call, ConfirmWrites(x)
  PROVE  LET i == calls[x].identity
             c == calls[x].candidate
         IN  /\ Confirmed(calls[x].request) = {}
             /\ i \in Identity /\ c \in Candidate /\ calls[x].request \in Request
             /\ candidates[c].status = "PENDING" /\ candidates[c].identity = i
             /\ candidates[c].thread \notin deleted
             /\ candidates[c].base = calls[x].base /\ candidates[c].expires > calls[x].now
             /\ calls[x].base = Latest(i) /\ calls[x].base \in Nat
             /\ Added(x) \in Version
             /\ \A j \in Identity :
                  Of(j)' = IF j = i THEN {Aged(v, calls[x].base) : v \in Of(j)} \cup {Added(x)}
                           ELSE Of(j)
             /\ \A w \in versions' : w.identity \in Identity
             /\ candidates'[c].status = "CONFIRMED"
             /\ \A d \in Candidate \ {c} : candidates'[d] = candidates[d]
             /\ told' = told \cup {[request |-> calls[x].request, candidate |-> c,
                                    number |-> calls[x].base + 1]}
             /\ versions' \subseteq Version
             /\ Commits(x) /\ TypeOK' /\ UNCHANGED deleted
<1> USE DEF IInv
<1> DEFINE i == calls[x].identity
           c == calls[x].candidate
           b == calls[x].base
           old == {Aged(v, b) : v \in Of(i)}
<1>1. /\ calls[x].kind = "confirm" /\ calls[x].phase = "write" /\ End(x)
      /\ Confirmed(calls[x].request) = {}
      /\ candidates' = [candidates EXCEPT ![c] = WriteBack(x, c, "CONFIRMED")]
      /\ told' = told \cup {[request |-> calls[x].request, candidate |-> c, number |-> b + 1]}
      /\ UNCHANGED <<clock, deleted>>
  BY DEF ConfirmWrites
<1>2. /\ i \in Identity /\ c \in Candidate /\ Exists(c)
      /\ candidates[c].thread = calls[x].thread /\ candidates[c].identity = i
      /\ calls[x].thread \in calls[x].held /\ i \in calls[x].held /\ calls[x].thread \notin deleted
  BY <1>1, WriterHolds
<1>3. ReadPending(x) /\ ReadDraft(x)  BY <1>1 DEF CallsInv, SeenInv
<1>4. /\ calls[x].seen[c] = candidates[c] /\ candidates[c].status = "PENDING"
      /\ candidates[c].expires > calls[x].now /\ Read(x) = {c}
  BY <1>1, <1>3 DEF ReadDraft
<1>5. calls[x].request \in Request /\ candidates[c].base = b
  BY <1>1 DEF CallsInv, CallInv, Addressed
<1>6. b = Latest(i) /\ b \in Nat
  BY <1>2, <1>4, <1>5 DEF StoreInv, PendingIsCurrent, VersionInv
<1>7. Added(x) \in Version
  BY <1>2, <1>5, <1>6 DEF Added, Version
<1>8. versions' = (versions \ Of(i)) \cup old \cup {Added(x)}
  <2>1. Superseded(i, b) = old  BY DEF Superseded, Aged
  <2> QED  BY <1>1, <1>4, <2>1 DEF ConfirmWrites, Added
<1>9. \A v \in Of(i) : v \in Version /\ v.identity = i  BY DEF TypeOK, Of
<1>10. \A w \in old : w \in Version /\ w.identity = i  BY <1>9, AgedIs
<1>11. versions' \subseteq Version  BY <1>7, <1>8, <1>10 DEF TypeOK
<1>12. Added(x).identity = i  BY DEF Added
<1> HIDE DEF old
<1>13. ASSUME NEW j \in Identity, j = i  PROVE Of(j)' = old \cup {Added(x)}
  <2>1. \A w : w \in versions' /\ w.identity = j <=> w \in old \cup {Added(x)}
    BY <1>8, <1>10, <1>12, <1>13 DEF Of
  <2>2. {v \in versions' : v.identity = j} = old \cup {Added(x)}  BY <2>1
  <2> QED  BY <2>2 DEF Of
<1>14. ASSUME NEW j \in Identity, j # i  PROVE Of(j)' = Of(j)
  BY <1>8, <1>10, <1>12, <1>14 DEF Of
<1>15. /\ candidates'[c] \in Row /\ candidates'[c].status = "CONFIRMED"
       /\ SameDraft(candidates'[c], candidates[c])
  <2>1. "CONFIRMED" \in Resolved  BY DEF Resolved
  <2>2. candidates'[c] = WriteBack(x, c, "CONFIRMED")  BY <1>1, <1>2 DEF TypeOK
  <2> QED  BY <1>1, <1>2, <1>4, <2>1, <2>2, WriteBackIs
<1>16. \A d \in Candidate \ {c} : candidates'[d] = candidates[d]  BY <1>1 DEF TypeOK
<1>17. Commits(x)
  <2>1. \A d \in Candidate : Exists(d) => Exists(d)' /\ SameDraft(candidates'[d], candidates[d])
    BY <1>15, <1>16 DEF Exists, SameDraft
  <2>2. \A d \in Candidate : Exists(d)' => Exists(d)  BY <1>2, <1>16 DEF Exists
  <2>3. \A j \in Identity : j \notin calls[x].held => Of(j)' = Of(j)  BY <1>2, <1>14
  <2>4. \A d \in Candidate : Exists(d) /\ candidates'[d] # candidates[d] => d = c
    BY <1>16
  <2> QED  BY <1>1, <1>2, <1>4, <1>15, <2>1, <2>2, <2>3, <2>4 DEF Commits
<1>18. TypeOK'
  <2>1. candidates' \in [Candidate -> Row]  BY <1>1, <1>15, <1>16 DEF TypeOK
  <2>2. [request |-> calls[x].request, candidate |-> c, number |-> b + 1] \in Told
    BY <1>2, <1>5, <1>6 DEF Told
  <2> QED  BY <1>1, <1>11, <2>1, <2>2, EndType DEF TypeOK
<1>19. \A w \in versions' : w.identity \in Identity  BY <1>11 DEF Version
<1> QED
  BY <1>1, <1>2, <1>4, <1>5, <1>6, <1>7, <1>11, <1>13, <1>14, <1>15, <1>16, <1>17, <1>18, <1>19
  DEF old

(***************************************************************************)
(* What is stored stays in order.                                          *)
(***************************************************************************)

\* Commits that add no version keep what concerns versions.
LEMMA NoNewVersion ==
  ASSUME TypeOK, StoreInv, NEW x, Commits(x), UNCHANGED <<versions, told>>,
         \A c \in Candidate :
           candidates'[c] = candidates[c] \/ candidates'[c].status \in {"PENDING", "CANCELLED", "EXPIRED"}
  PROVE  VersionInv' /\ VersionsInOrder' /\ ConfirmationsAreStable'
<1>1. \A i : Of(i)' = Of(i) /\ Latest(i)' = Latest(i)  BY DEF Of, Latest
<1>2. \A v \in versions : v \in Version /\ v.candidate \in Candidate  BY DEF TypeOK, Version
<1>3. ASSUME NEW c \in Candidate, candidates[c].status = "CONFIRMED"
      PROVE  candidates'[c] = candidates[c]
  BY <1>3 DEF Commits, Exists
<1>4. VersionInv'
  BY <1>1, <1>2, <1>3 DEF StoreInv, VersionInv
<1>5. VersionsInOrder'
  <2>1. ASSUME NEW c \in Candidate, NEW i \in Identity, candidates'[c].identity = i
        PROVE  candidates'[c].status = "CONFIRMED" <=> \E v \in Of(i) : v.candidate = c
    <3>1. CASE candidates'[c] = candidates[c]
      BY <2>1, <3>1 DEF StoreInv, VersionsInOrder
    <3>2. CASE candidates'[c] # candidates[c]
      <4>1. candidates'[c].status # "CONFIRMED" /\ candidates[c].status # "CONFIRMED"
        BY <1>3, <3>2
      <4>2. \A v \in Of(i) : v.candidate # c
        BY <4>1 DEF StoreInv, VersionInv, Of
      <4> QED  BY <4>1, <4>2
    <3> QED  BY <3>1, <3>2
  <2> QED  BY <1>1, <2>1 DEF StoreInv, VersionsInOrder
<1>6. ConfirmationsAreStable'  BY DEF StoreInv, ConfirmationsAreStable
<1> QED  BY <1>4, <1>5, <1>6

\* Commits that only resolve drafts keep the rest too.
LEMMA NoNewDraft ==
  ASSUME TypeOK, StoreInv, NEW x, Commits(x), UNCHANGED <<versions, told>>,
         \A c \in Candidate :
           candidates'[c] = candidates[c] \/ candidates'[c].status \in {"CANCELLED", "EXPIRED"},
         \A c \in Candidate : candidates'[c].status = "PENDING" => candidates'[c].thread \notin deleted'
  PROVE  StoreInv'
<1>1. \A i : Latest(i)' = Latest(i) /\ \A n : IsActive(i, n)' <=> IsActive(i, n)
  BY DEF Of, Latest, IsActive
<1>2. \A c \in Candidate : candidates'[c].status = "PENDING" => candidates'[c] = candidates[c]
  OBVIOUS
<1>3. \A c \in Candidate : Exists(c)' => Exists(c) /\ SameDraft(candidates'[c], candidates[c])
  <2> SUFFICES ASSUME NEW c \in Candidate, Exists(c)'  PROVE Exists(c)
    BY DEF Commits
  <2>1. candidates'[c].status # "NONE"  BY DEF Exists
  <2> QED  BY <2>1 DEF Commits, Exists
<1>4. DraftInv'
  <2>1. \A c \in Candidate : Exists(c)' =>
          candidates'[c].thread \in Thread /\ candidates'[c].identity \in Identity
    BY <1>3 DEF StoreInv, DraftInv, SameDraft
  <2>2. \A c \in Candidate :
          candidates'[c].status = "PENDING" /\ candidates'[c].operation = "INVALIDATE" =>
            IsActive(candidates[c].identity, candidates[c].base)'
    BY <1>1, <1>2 DEF StoreInv, DraftInv
  <2>3. \A c, d \in Candidate :
          candidates'[c].status = "PENDING" /\ candidates'[d].status = "PENDING"
            /\ candidates'[c].identity = candidates'[d].identity => c = d
    BY <1>2 DEF StoreInv, DraftInv
  <2> QED  BY <2>1, <2>2, <2>3 DEF DraftInv
<1>5. PendingIsCurrent'
  BY <1>1, <1>2 DEF StoreInv, PendingIsCurrent
<1>6. DeletedLeavesNoDraft'  BY DEF DeletedLeavesNoDraft
<1>7. VersionInv' /\ VersionsInOrder' /\ ConfirmationsAreStable'  BY NoNewVersion
<1> QED  BY <1>4, <1>5, <1>6, <1>7 DEF StoreInv

LEMMA CancelKeeps ==
  ASSUME IInv, NEW x \in Call, Cancel(x)
  PROVE  StoreInv'
<1>1. /\ Commits(x) /\ UNCHANGED <<deleted, versions, told>>
      /\ \A c \in Candidate :
           candidates'[c] = candidates[c] \/ candidates'[c].status = "CANCELLED"
  BY CancelCommits DEF IInv
<1>2. \A c \in Candidate : candidates'[c].status = "PENDING" => candidates'[c].thread \notin deleted'
  BY <1>1 DEF IInv, StoreInv, DeletedLeavesNoDraft
<1> QED  BY <1>1, <1>2, NoNewDraft DEF IInv

LEMMA DeleteKeeps ==
  ASSUME IInv, NEW x \in Call, DeleteWrites(x)
  PROVE  StoreInv'
<1>1. /\ Commits(x) /\ UNCHANGED <<versions, told>>
      /\ deleted' = deleted \cup {calls[x].thread}
      /\ \A c \in Candidate :
           /\ c \notin Read(x) => candidates'[c] = candidates[c]
           /\ c \in Read(x) => candidates'[c].status = "CANCELLED"
  BY DeleteCommits DEF IInv
<1>2. ReadThread(x) /\ calls[x].kind = "delete"
  BY DEF IInv, CallsInv, SeenInv, DeleteWrites
<1>3. ASSUME NEW c \in Candidate, candidates'[c].status = "PENDING"
      PROVE  candidates'[c].thread \notin deleted'
  <2>1. c \notin Read(x) /\ candidates'[c] = candidates[c]  BY <1>1, <1>3
  <2>2. candidates[c].thread # calls[x].thread  BY <1>2, <1>3, <2>1 DEF ReadThread
  <2> QED  BY <1>1, <1>3, <2>1, <2>2 DEF IInv, StoreInv, DeletedLeavesNoDraft
<1>4. \A c \in Candidate :
        candidates'[c] = candidates[c] \/ candidates'[c].status \in {"CANCELLED", "EXPIRED"}
  BY <1>1
<1> QED  BY <1>1, <1>3, <1>4, NoNewDraft DEF IInv

LEMMA ProposeKeeps ==
  ASSUME IInv, NEW x \in Call, ProposeWrites(x)
  PROVE  StoreInv'
<1> DEFINE new == calls[x].candidate
<1>1. /\ Commits(x)
      /\ new \in Candidate /\ ~Exists(new)
      /\ candidates'[new].status = "PENDING" /\ candidates'[new].thread = calls[x].thread
      /\ candidates'[new].identity = calls[x].identity /\ candidates'[new].base = calls[x].base
      /\ candidates'[new].operation = calls[x].operation
      /\ \A c \in Candidate \ {new} :
           /\ c \notin Read(x) => candidates'[c] = candidates[c]
           /\ c \in Read(x) => candidates'[c].status \in {"CANCELLED", "EXPIRED"}
  BY ProposeCommits DEF IInv
<1>2. UNCHANGED <<deleted, versions, told>> /\ calls[x].kind = "propose" /\ calls[x].phase = "write"
  BY DEF ProposeWrites
<1>3. ReadIdentity(x)  BY <1>2 DEF IInv, CallsInv, SeenInv
<1>4. /\ calls[x].thread \in Thread /\ calls[x].thread \notin deleted
      /\ calls[x].identity \in Identity
  BY <1>2, WriterHolds DEF IInv
<1>5. \A i : Latest(i)' = Latest(i) /\ \A n : IsActive(i, n)' <=> IsActive(i, n)
  BY <1>2 DEF Of, Latest, IsActive
<1>6. ASSUME NEW c \in Candidate \ {new}, candidates'[c].status = "PENDING"
      PROVE  candidates'[c] = candidates[c] /\ candidates[c].identity # calls[x].identity
  <2>1. c \notin Read(x) /\ candidates'[c] = candidates[c]  BY <1>1, <1>6
  <2> QED  BY <1>2, <1>3, <1>6, <2>1 DEF ReadIdentity
<1>7. DraftInv'
  <2>1. \A c \in Candidate : Exists(c)' =>
          candidates'[c].thread \in Thread /\ candidates'[c].identity \in Identity
    <3> SUFFICES ASSUME NEW c \in Candidate, Exists(c)'
                 PROVE  candidates'[c].thread \in Thread /\ candidates'[c].identity \in Identity
      OBVIOUS
    <3>1. CASE Exists(c)  BY <1>1, <3>1 DEF Commits, SameDraft, IInv, StoreInv, DraftInv
    <3>2. CASE ~Exists(c)  BY <1>1, <1>4, <3>2 DEF Commits
    <3> QED  BY <3>1, <3>2
  <2>2. ASSUME NEW c \in Candidate,
               candidates'[c].status = "PENDING", candidates'[c].operation = "INVALIDATE"
        PROVE  IsActive(candidates[c].identity, candidates[c].base)'
    <3>1. CASE c = new  BY <1>1, <1>2, <1>3, <1>5, <2>2, <3>1 DEF ReadIdentity
    <3>2. CASE c # new
      BY <1>5, <1>6, <2>2, <3>2 DEF IInv, StoreInv, DraftInv
    <3> QED  BY <3>1, <3>2
  <2>3. ASSUME NEW c \in Candidate, NEW d \in Candidate,
               candidates'[c].status = "PENDING", candidates'[d].status = "PENDING",
               candidates'[c].identity = candidates'[d].identity
        PROVE  c = d
    <3>1. CASE c = new \/ d = new  BY <1>1, <1>6, <2>3, <3>1
    <3>2. CASE c # new /\ d # new
      BY <1>6, <2>3, <3>2 DEF IInv, StoreInv, DraftInv
    <3> QED  BY <3>1, <3>2
  <2> QED  BY <2>1, <2>2, <2>3 DEF DraftInv
<1>8. PendingIsCurrent'
  <2> SUFFICES ASSUME NEW c \in Candidate, candidates'[c].status = "PENDING"
               PROVE  candidates'[c].base = Latest(candidates[c].identity)'
    BY DEF PendingIsCurrent
  <2>1. CASE c = new  BY <1>1, <1>2, <1>3, <1>5, <2>1 DEF ReadIdentity
  <2>2. CASE c # new  BY <1>5, <1>6, <2>2 DEF IInv, StoreInv, PendingIsCurrent
  <2> QED  BY <2>1, <2>2
<1>9. DeletedLeavesNoDraft'
  <2> SUFFICES ASSUME NEW c \in Candidate, candidates'[c].status = "PENDING"
               PROVE  candidates'[c].thread \notin deleted'
    BY DEF DeletedLeavesNoDraft
  <2>1. CASE c = new  BY <1>1, <1>2, <1>4, <2>1
  <2>2. CASE c # new  BY <1>2, <1>6, <2>2 DEF IInv, StoreInv, DeletedLeavesNoDraft
  <2> QED  BY <2>1, <2>2
<1>10. VersionInv' /\ VersionsInOrder' /\ ConfirmationsAreStable'
  <2>1. \A c \in Candidate :
          candidates'[c] = candidates[c] \/ candidates'[c].status \in {"PENDING", "CANCELLED", "EXPIRED"}
    BY <1>1
  <2> QED  BY <1>1, <1>2, <2>1, NoNewVersion DEF IInv
<1> QED  BY <1>7, <1>8, <1>9, <1>10 DEF StoreInv

\* The identity's versions after a confirmation, in order.
LEMMA ConfirmOrder ==
  ASSUME IInv, NEW x \in Call, ConfirmWrites(x), NEW i \in Identity, i = calls[x].identity
  PROVE  /\ {v.number : v \in Of(i)'} = 1..(calls[x].base + 1)
         /\ Latest(i)' = calls[x].base + 1
         /\ \A v, w \in Of(i)' : v.number = w.number => v = w
         /\ \A v \in Of(i)' : v.status = "INVALIDATED" =>
              \E w \in Of(i)' : w.number = v.number - 1 /\ w.status = "SUPERSEDED"
         /\ \A v \in Of(i)' : v.status = "ACTIVE" => v.number = calls[x].base + 1
<1> USE DEF IInv
<1> DEFINE b == calls[x].base
           new == Added(x)
<1>1. /\ b = Latest(i) /\ b \in Nat /\ new \in Version
      /\ Of(i)' = {Aged(v, b) : v \in Of(i)} \cup {new}
      /\ candidates[calls[x].candidate].base = b
      /\ candidates[calls[x].candidate].status = "PENDING"
      /\ candidates[calls[x].candidate].identity = i
      /\ calls[x].candidate \in Candidate
  BY ConfirmIs
<1>2. new.number = b + 1
  BY DEF Added
<1>3. new.status = "INVALIDATED" => IsActive(i, b)
  BY <1>1 DEF Added, StoreInv, DraftInv
<1>4. new.status \in {"ACTIVE", "INVALIDATED"}  BY DEF Added
<1>5. \A v \in Of(i) : v \in Version /\ v.identity = i  BY DEF TypeOK, Of
<1>6. /\ {v.number : v \in Of(i)} = 1..b
      /\ \A v, w \in Of(i) : v.number = w.number => v = w
      /\ \A v \in Of(i) : v.status = "INVALIDATED" =>
           \E w \in Of(i) : w.number = v.number - 1 /\ w.status = "SUPERSEDED"
      /\ \A v \in Of(i) : v.status = "ACTIVE" => v.number = b
  BY <1>1 DEF StoreInv, VersionsInOrder
<1>7. \A v \in Of(i) : v.number \in 1..b  BY <1>6
<1>8. \A v \in Of(i) : Aged(v, b).number = v.number  BY <1>5, AgedIs
<1>9. \A v \in Of(i) :
        /\ v.status # "ACTIVE" => Aged(v, b) = v
        /\ v.status = "ACTIVE" => Aged(v, b).status = "SUPERSEDED"
  BY <1>5, <1>6, AgedIs
<1> HIDE DEF new
<1>10. ASSUME NEW w \in Of(i)'  PROVE w = new \/ \E v \in Of(i) : w = Aged(v, b)
  BY <1>1, <1>10
<1>11. \A v \in Of(i) : Aged(v, b) \in Of(i)'  BY <1>1
<1>12. new \in Of(i)'  BY <1>1
<1>13. {v.number : v \in Of(i)'} = 1..(b + 1)
  <2>1. ASSUME NEW w \in Of(i)'  PROVE w.number \in 1..(b + 1)
    BY <1>1, <1>2, <1>7, <1>8, <1>10
  <2>2. ASSUME NEW n \in 1..(b + 1)  PROVE \E w \in Of(i)' : w.number = n
    <3>1. CASE n = b + 1  BY <1>2, <1>12, <3>1
    <3>2. CASE n # b + 1
      <4>1. n \in 1..b  BY <1>1, <3>2
      <4>2. PICK v \in Of(i) : v.number = n  BY <1>6, <4>1
      <4> QED  BY <1>8, <1>11, <4>2
    <3> QED  BY <3>1, <3>2
  <2> QED  BY <2>1, <2>2
<1>14. Latest(i)' = b + 1
  <2>1. b + 1 \in Nat  BY <1>1
  <2> QED  BY <1>13, <2>1, LatestIs DEF Latest
<1>15. ASSUME NEW v \in Of(i)', NEW w \in Of(i)', v.number = w.number  PROVE v = w
  <2>1. CASE v = new
    <3>1. w = new  BY <1>1, <1>2, <1>7, <1>8, <1>10, <1>15, <2>1
    <3> QED  BY <2>1, <3>1
  <2>2. CASE w = new
    <3>1. v = new  BY <1>1, <1>2, <1>7, <1>8, <1>10, <1>15, <2>2
    <3> QED  BY <2>2, <3>1
  <2>3. CASE v # new /\ w # new
    <3>1. PICK v0 \in Of(i) : v = Aged(v0, b)  BY <1>10, <2>3
    <3>2. PICK w0 \in Of(i) : w = Aged(w0, b)  BY <1>10, <2>3
    <3> QED  BY <1>6, <1>8, <1>15, <3>1, <3>2
  <2> QED  BY <2>1, <2>2, <2>3
<1>16. ASSUME NEW v \in Of(i)', v.status = "INVALIDATED"
       PROVE  \E w \in Of(i)' : w.number = v.number - 1 /\ w.status = "SUPERSEDED"
  <2>1. CASE v = new
    <3>1. PICK w0 \in Of(i) : w0.number = b /\ w0.status = "ACTIVE"
      BY <1>3, <1>16, <2>1 DEF IsActive
    <3>2. Aged(w0, b).number = b /\ Aged(w0, b).status = "SUPERSEDED"  BY <1>8, <1>9, <3>1
    <3>3. v.number - 1 = b  BY <1>1, <1>2, <2>1
    <3> QED  BY <1>11, <3>2, <3>3
  <2>2. CASE v # new
    <3>1. PICK v0 \in Of(i) : v = Aged(v0, b)  BY <1>10, <2>2
    <3>2. v0 = v  BY <1>9, <1>16, <3>1
    <3>3. PICK w0 \in Of(i) : w0.number = v.number - 1 /\ w0.status = "SUPERSEDED"
      BY <1>6, <1>16, <3>2
    <3>4. Aged(w0, b) = w0  BY <1>9, <3>3
    <3> QED  BY <1>11, <3>3, <3>4
  <2> QED  BY <2>1, <2>2
<1>17. ASSUME NEW v \in Of(i)', v.status = "ACTIVE"  PROVE v.number = b + 1
  <2>1. CASE v = new  BY <1>2, <2>1
  <2>2. CASE v # new
    <3>1. PICK v0 \in Of(i) : v = Aged(v0, b)  BY <1>10, <2>2
    <3> QED  BY <1>9, <1>17, <3>1
  <2> QED  BY <2>1, <2>2
<1> QED  BY <1>13, <1>14, <1>15, <1>16, <1>17

\* Two versions that differ at most in that one of them is superseded.
SameVersion(v, w) ==
  /\ v.identity = w.identity /\ v.number = w.number
  /\ v.candidate = w.candidate /\ v.request = w.request
  /\ v.status = "INVALIDATED" <=> w.status = "INVALIDATED"

\* A confirmation adds one version and drops none.
LEMMA ConfirmVersions ==
  ASSUME IInv, NEW x \in Call, ConfirmWrites(x)
  PROVE  /\ Added(x) \in versions'
         /\ \A w \in versions' \ {Added(x)} : \E v \in versions : SameVersion(v, w)
         /\ \A v \in versions : \E w \in versions' : SameVersion(v, w)
<1> USE DEF IInv
<1> DEFINE i == calls[x].identity
           b == calls[x].base
<1>1. /\ i \in Identity
      /\ \A j \in Identity :
           Of(j)' = IF j = i THEN {Aged(v, b) : v \in Of(j)} \cup {Added(x)} ELSE Of(j)
      /\ \A w \in versions' : w.identity \in Identity
  BY ConfirmIs
<1>2. \A v \in versions : v \in Version /\ v.identity \in Identity  BY DEF TypeOK, Version
<1>3. \A v \in versions : SameVersion(v, Aged(v, b)) /\ SameVersion(v, v)
  BY <1>2, AgedIs DEF SameVersion
<1>4. \A j : Of(j) \subseteq versions /\ Of(j)' \subseteq versions'  BY DEF Of
<1>5. PICK k \in Identity : k = i  BY <1>1
<1>6. Added(x) \in versions'  BY <1>1, <1>4, <1>5
<1>7. ASSUME NEW w \in versions' \ {Added(x)}
      PROVE  \E v \in versions : SameVersion(v, w)
  <2>1. PICK j \in Identity : j = w.identity  BY <1>1, <1>7
  <2>2. w \in Of(j)'  BY <1>7, <2>1 DEF Of
  <2>3. CASE j = i
    <3>1. PICK v \in Of(j) : w = Aged(v, b)  BY <1>1, <1>7, <2>2, <2>3
    <3> QED  BY <1>3, <1>4, <3>1
  <2>4. CASE j # i
    <3>1. w \in Of(j)  BY <1>1, <2>2, <2>4
    <3> QED  BY <1>3, <1>4, <3>1
  <2> QED  BY <2>3, <2>4
<1>8. ASSUME NEW v \in versions  PROVE \E w \in versions' : SameVersion(v, w)
  <2>1. PICK j \in Identity : j = v.identity  BY <1>2
  <2>2. v \in Of(j)  BY <2>1 DEF Of
  <2>3. CASE j = i  BY <1>1, <1>3, <1>4, <2>2, <2>3
  <2>4. CASE j # i  BY <1>1, <1>3, <1>4, <2>2, <2>4
  <2> QED  BY <2>3, <2>4
<1> QED  BY <1>6, <1>7, <1>8

LEMMA ConfirmKeepsOrder ==
  ASSUME IInv, NEW x \in Call, ConfirmWrites(x)
  PROVE  VersionInv' /\ VersionsInOrder'
<1> USE DEF IInv
<1> DEFINE c == calls[x].candidate
           new == Added(x)
<1>1. /\ calls[x].identity \in Identity /\ c \in Candidate
      /\ candidates[c].status = "PENDING" /\ candidates[c].identity = calls[x].identity
      /\ calls[x].base \in Nat
      /\ \A j \in Identity \ {calls[x].identity} : Of(j)' = Of(j)
      /\ candidates'[c].status = "CONFIRMED"
      /\ \A d \in Candidate \ {c} : candidates'[d] = candidates[d]
      /\ Commits(x)
  BY ConfirmIs
<1>2. /\ candidates'[c].identity = candidates[c].identity
      /\ candidates'[c].operation = candidates[c].operation
  BY <1>1 DEF Commits, SameDraft, Exists
<1>3. /\ new \in versions'
      /\ \A w \in versions' \ {new} : \E v \in versions : SameVersion(v, w)
      /\ \A v \in versions : \E w \in versions' : SameVersion(v, w)
  BY ConfirmVersions
<1>4. /\ new.candidate = c /\ new.identity = calls[x].identity
      /\ new.status = "INVALIDATED" <=> candidates[c].operation = "INVALIDATE"
  BY DEF Added
<1>5. \A v \in versions : v \in Version /\ v.candidate \in Candidate /\ v.candidate # c
  BY <1>1 DEF TypeOK, Version, StoreInv, VersionInv
<1>6. ASSUME NEW j \in Identity \ {calls[x].identity}  PROVE Latest(j)' = Latest(j)
  <2>1. Of(j)' = Of(j)  BY <1>1
  <2> QED  BY <2>1 DEF Latest
<1>7. VersionInv'
  <2>1. ASSUME NEW j \in Identity  PROVE Latest(j)' \in Nat
    <3>1. CASE j = calls[x].identity  BY <1>1, <3>1, ConfirmOrder
    <3>2. CASE j # calls[x].identity  BY <1>6, <3>2 DEF StoreInv, VersionInv
    <3> QED  BY <3>1, <3>2
  <2>2. ASSUME NEW w \in versions'
        PROVE  /\ candidates'[w.candidate].status = "CONFIRMED"
               /\ candidates'[w.candidate].identity = w.identity
               /\ w.status = "INVALIDATED" <=> candidates'[w.candidate].operation = "INVALIDATE"
    <3>1. CASE w = new  BY <1>1, <1>2, <1>4, <3>1
    <3>2. CASE w # new
      <4>1. PICK v \in versions : SameVersion(v, w)  BY <1>3, <3>2
      <4>2. candidates'[v.candidate] = candidates[v.candidate]  BY <1>1, <1>5
      <4> QED  BY <4>1, <4>2 DEF SameVersion, StoreInv, VersionInv
    <3> QED  BY <3>1, <3>2
  <2> QED  BY <2>1, <2>2 DEF VersionInv
<1>8. ASSUME NEW j \in Identity, NEW d \in Candidate, candidates'[d].identity = j
      PROVE  candidates'[d].status = "CONFIRMED" <=> \E w \in Of(j)' : w.candidate = d
  <2>1. CASE d = c
    <3>1. new \in Of(j)'  BY <1>1, <1>2, <1>3, <1>4, <1>8, <2>1 DEF Of
    <3> QED  BY <1>1, <1>4, <2>1, <3>1
  <2>2. CASE d # c
    <3>1. /\ candidates'[d] = candidates[d]
          /\ candidates[d].status = "CONFIRMED" <=> \E v \in Of(j) : v.candidate = d
      BY <1>1, <1>8, <2>2 DEF StoreInv, VersionsInOrder
    <3>2. ASSUME NEW v \in Of(j), v.candidate = d  PROVE \E w \in Of(j)' : w.candidate = d
      <4>1. PICK w \in versions' : SameVersion(v, w)  BY <1>3, <3>2 DEF Of
      <4> QED  BY <3>2, <4>1 DEF Of, SameVersion
    <3>3. ASSUME NEW w \in Of(j)', w.candidate = d  PROVE \E v \in Of(j) : v.candidate = d
      <4>1. w \in versions' /\ w # new  BY <1>4, <2>2, <3>3 DEF Of
      <4>2. PICK v \in versions : SameVersion(v, w)  BY <1>3, <4>1
      <4> QED  BY <3>3, <4>2 DEF Of, SameVersion
    <3> QED  BY <3>1, <3>2, <3>3
  <2> QED  BY <2>1, <2>2
<1>9. ASSUME NEW j \in Identity
      PROVE  /\ {v.number : v \in Of(j)'} = 1..Latest(j)'
             /\ \A v, w \in Of(j)' : v.number = w.number => v = w
             /\ \A v \in Of(j)' : v.status = "INVALIDATED" =>
                  \E w \in Of(j)' : w.number = v.number - 1 /\ w.status = "SUPERSEDED"
             /\ \A v \in Of(j)' : v.status = "ACTIVE" => v.number = Latest(j)'
  <2>1. CASE j = calls[x].identity
    <3>1. Latest(j)' = calls[x].base + 1  BY <2>1, ConfirmOrder
    <3> HIDE DEF IInv
    <3> QED  BY <2>1, <3>1, ConfirmOrder
  <2>2. CASE j # calls[x].identity
    <3>1. Of(j)' = Of(j) /\ Latest(j)' = Latest(j)  BY <1>1, <1>6, <2>2
    <3> QED  BY <3>1 DEF StoreInv, VersionsInOrder
  <2> QED  BY <2>1, <2>2
<1>10. VersionsInOrder'  BY <1>8, <1>9 DEF VersionsInOrder
<1> QED  BY <1>7, <1>10

LEMMA ConfirmKeepsAnswers ==
  ASSUME IInv, VersionsInOrder', NEW x \in Call, ConfirmWrites(x)
  PROVE  ConfirmationsAreStable'
<1> USE DEF IInv
<1> DEFINE new == Added(x)
<1>1. /\ Confirmed(calls[x].request) = {}
      /\ told' = told \cup {[request |-> calls[x].request, candidate |-> calls[x].candidate,
                             number |-> calls[x].base + 1]}
      /\ \A w \in versions' : w.identity \in Identity
  BY ConfirmIs
<1>2. /\ new \in versions'
      /\ \A w \in versions' \ {new} : \E v \in versions : SameVersion(v, w)
      /\ \A v \in versions : \E w \in versions' : SameVersion(v, w)
  BY ConfirmVersions
<1>3. /\ new.candidate = calls[x].candidate /\ new.request = calls[x].request
      /\ new.number = calls[x].base + 1
  BY DEF Added
<1>4. \A v \in versions : v.request # new.request  BY <1>1, <1>3 DEF Confirmed
<1> HIDE DEF new
<1>5. ASSUME NEW v \in versions', NEW w \in versions', v.request = w.request  PROVE v = w
  <2>1. CASE v = new
    <3>1. w = new  BY <1>2, <1>4, <1>5, <2>1 DEF SameVersion
    <3> QED  BY <2>1, <3>1
  <2>2. CASE w = new
    <3>1. v = new  BY <1>2, <1>4, <1>5, <2>2 DEF SameVersion
    <3> QED  BY <2>2, <3>1
  <2>3. CASE v # new /\ w # new
    <3>1. PICK v0 \in versions : SameVersion(v0, v)  BY <1>2, <2>3
    <3>2. PICK w0 \in versions : SameVersion(w0, w)  BY <1>2, <2>3
    <3>3. v0 = w0
      BY <1>5, <3>1, <3>2 DEF SameVersion, StoreInv, ConfirmationsAreStable
    <3>4. v.identity = w.identity /\ v.number = w.number  BY <3>1, <3>2, <3>3 DEF SameVersion
    <3>5. PICK j \in Identity : j = v.identity  BY <1>1
    <3>6. v \in Of(j)' /\ w \in Of(j)'  BY <3>4, <3>5 DEF Of
    <3> QED  BY <3>4, <3>6 DEF VersionsInOrder
  <2> QED  BY <2>1, <2>2, <2>3
<1>6. ASSUME NEW a \in told'
      PROVE  \E v \in versions' :
               v.request = a.request /\ v.candidate = a.candidate /\ v.number = a.number
  <2>1. CASE a \in told
    <3>1. PICK v0 \in versions :
            v0.request = a.request /\ v0.candidate = a.candidate /\ v0.number = a.number
      BY <2>1 DEF StoreInv, ConfirmationsAreStable
    <3>2. PICK v \in versions' : SameVersion(v0, v)  BY <1>2
    <3> QED  BY <3>1, <3>2 DEF SameVersion
  <2>2. CASE a \notin told
    <3>1. a = [request |-> calls[x].request, candidate |-> calls[x].candidate,
               number |-> calls[x].base + 1]
      BY <1>1, <2>2
    <3> QED  BY <1>2, <1>3, <3>1
  <2> QED  BY <2>1, <2>2
<1> QED  BY <1>5, <1>6 DEF ConfirmationsAreStable

LEMMA ConfirmKeeps ==
  ASSUME IInv, NEW x \in Call, ConfirmWrites(x)
  PROVE  StoreInv'
<1> USE DEF IInv
<1> DEFINE c == calls[x].candidate
<1>1. /\ c \in Candidate
      /\ candidates[c].status = "PENDING" /\ candidates[c].identity = calls[x].identity
      /\ \A j \in Identity \ {calls[x].identity} : Of(j)' = Of(j)
      /\ candidates'[c].status = "CONFIRMED"
      /\ \A d \in Candidate \ {c} : candidates'[d] = candidates[d]
      /\ Commits(x) /\ UNCHANGED deleted
  BY ConfirmIs
<1>2. ASSUME NEW j \in Identity \ {calls[x].identity}
      PROVE  Latest(j)' = Latest(j) /\ \A n : IsActive(j, n)' <=> IsActive(j, n)
  <2>1. Of(j)' = Of(j)  BY <1>1
  <2> QED  BY <2>1 DEF Latest, IsActive
<1>3. ASSUME NEW d \in Candidate, candidates'[d].status = "PENDING"
      PROVE  /\ candidates'[d] = candidates[d] /\ candidates[d].status = "PENDING"
             /\ candidates[d].identity \in Identity \ {calls[x].identity}
  <2>1. d # c /\ candidates'[d] = candidates[d]  BY <1>1, <1>3
  <2>2. candidates[d].status = "PENDING" /\ Exists(d)  BY <1>3, <2>1 DEF Exists
  <2> QED  BY <1>1, <2>1, <2>2 DEF StoreInv, DraftInv
<1>4. DraftInv'
  <2>1. ASSUME NEW d \in Candidate, Exists(d)'
        PROVE  candidates'[d].thread \in Thread /\ candidates'[d].identity \in Identity
    <3>1. Exists(d)  BY <1>1, <2>1 DEF Exists
    <3> QED  BY <1>1, <3>1 DEF Commits, SameDraft, StoreInv, DraftInv
  <2>2. \A d \in Candidate :
          candidates'[d].status = "PENDING" /\ candidates'[d].operation = "INVALIDATE" =>
            IsActive(candidates[d].identity, candidates[d].base)'
    BY <1>2, <1>3 DEF StoreInv, DraftInv
  <2>3. \A d, e \in Candidate :
          candidates'[d].status = "PENDING" /\ candidates'[e].status = "PENDING"
            /\ candidates'[d].identity = candidates'[e].identity => d = e
    BY <1>3 DEF StoreInv, DraftInv
  <2> QED  BY <2>1, <2>2, <2>3 DEF DraftInv
<1>5. PendingIsCurrent'  BY <1>2, <1>3 DEF StoreInv, PendingIsCurrent
<1>6. DeletedLeavesNoDraft'  BY <1>1, <1>3 DEF StoreInv, DeletedLeavesNoDraft
<1> QED  BY <1>4, <1>5, <1>6, ConfirmKeepsOrder, ConfirmKeepsAnswers DEF StoreInv

(***************************************************************************)
(* The invariant holds.                                                    *)
(***************************************************************************)

LEMMA InitInv == Init => IInv
<1> SUFFICES ASSUME Init PROVE IInv
  OBVIOUS
<1> USE DEF Init
<1>1. TypeOK
  BY NoRowType, IdleType, LifetimeAssumption DEF TypeOK
<1>2. /\ Idle.kind = "idle" /\ Idle.phase = "idle" /\ Idle.held = {}  BY DEF Idle
<1>3. \A x \in Call : calls[x] = Idle  OBVIOUS
<1>4. \A c \in Candidate : candidates[c].status = "NONE" /\ ~Exists(c)  BY DEF NoRow, Exists
<1>5. \A i : Of(i) = {} /\ Latest(i) = 0  BY DEF Of, Latest
<1>6. LockInv  BY <1>2, <1>3 DEF LockInv, HoldsInOrder
<1>7. CallInv  BY <1>2, <1>3 DEF CallInv, Addressed
<1>8. SeenInv  BY <1>2, <1>3 DEF SeenInv
<1>9. DraftInv /\ PendingIsCurrent /\ DeletedLeavesNoDraft
  BY <1>4 DEF DraftInv, PendingIsCurrent, DeletedLeavesNoDraft
<1>10. VersionInv /\ ConfirmationsAreStable
  BY <1>5 DEF VersionInv, ConfirmationsAreStable
<1>11. VersionsInOrder
  BY <1>4, <1>5 DEF VersionsInOrder
<1> QED
  BY <1>1, <1>6, <1>7, <1>8, <1>9, <1>10, <1>11 DEF IInv, CallsInv, StoreInv

\* Steps that change no row.
LEMMA StoreUnchanged ==
  ASSUME StoreInv, UNCHANGED db, ConfirmationsAreStable'
  PROVE  StoreInv'
<1>1. UNCHANGED <<deleted, candidates, versions>>  BY DEF db
<1>2. \A i : Of(i)' = Of(i) /\ Latest(i)' = Latest(i)  BY SameStore
<1>3. \A i, n : IsActive(i, n)' <=> IsActive(i, n)  BY SameStore
<1>4. DraftInv'
  <2>1. \A c \in Candidate :
          candidates'[c].status = "PENDING" /\ candidates'[c].operation = "INVALIDATE" =>
            IsActive(candidates[c].identity, candidates[c].base)'
    BY <1>1, <1>3 DEF StoreInv, DraftInv
  <2> QED  BY <1>1, <2>1 DEF StoreInv, DraftInv, Exists
<1>5. VersionInv' /\ PendingIsCurrent' /\ DeletedLeavesNoDraft'
  BY <1>1, <1>2 DEF StoreInv, VersionInv, PendingIsCurrent, DeletedLeavesNoDraft
<1>6. VersionsInOrder'  BY <1>1, <1>2 DEF StoreInv, VersionsInOrder
<1> QED  BY <1>4, <1>5, <1>6 DEF StoreInv

LEMMA AnswersUnchanged ==
  ASSUME StoreInv, UNCHANGED <<db, told>>
  PROVE  StoreInv'
<1>1. ConfirmationsAreStable'  BY DEF StoreInv, ConfirmationsAreStable, db
<1> QED  BY <1>1, StoreUnchanged

\* A transaction that ends and leaves the rows as they are.
LEMMA QuietEnd ==
  ASSUME IInv, NEW x \in Call, calls[x].phase # "idle", End(x), UNCHANGED <<clock, db, told>>
  PROVE  IInv'
<1>1. calls[x].kind # "idle"  BY DEF IInv, CallsInv, CallInv, Addressed
<1>2. CallsInv'  BY <1>1, EndKeeps DEF IInv
<1>3. TypeOK'  BY EndType DEF IInv, TypeOK, db
<1>4. StoreInv'  BY AnswersUnchanged DEF IInv
<1> QED  BY <1>2, <1>3, <1>4 DEF IInv

LEMMA ReplayKeeps ==
  ASSUME IInv, NEW x \in Call, ConfirmReplayed(x)
  PROVE  IInv'
<1>1. PICK v \in Confirmed(calls[x].request) :
        told' = told \cup {[request |-> v.request, candidate |-> v.candidate, number |-> v.number]}
  BY DEF ConfirmReplayed
<1>2. /\ calls[x].kind = "confirm" /\ calls[x].phase = "read" /\ End(x)
      /\ UNCHANGED <<clock, db>>
  BY DEF ConfirmReplayed
<1> DEFINE a == [request |-> v.request, candidate |-> v.candidate, number |-> v.number]
<1>3. v \in versions /\ v \in Version  BY DEF Confirmed, IInv, TypeOK
<1>4. a \in Told  BY <1>3 DEF Version, Told
<1>5. CallsInv'  BY <1>2, EndKeeps DEF IInv
<1>6. TypeOK'  BY <1>1, <1>2, <1>4, EndType DEF IInv, TypeOK, db
<1>7. ConfirmationsAreStable'
  <2>1. versions' = versions  BY <1>2 DEF db
  <2>2. a.request = v.request /\ a.candidate = v.candidate /\ a.number = v.number  OBVIOUS
  <2> HIDE DEF a
  <2> QED  BY <1>1, <1>3, <2>1, <2>2 DEF a, IInv, StoreInv, ConfirmationsAreStable
<1>8. StoreInv'  BY <1>2, <1>7, StoreUnchanged DEF IInv
<1> QED  BY <1>5, <1>6, <1>8 DEF IInv

LEMMA StepKeeps ==
  ASSUME IInv, NEW x \in Call, Step(x)
  PROVE  IInv'
<1>1. ASSUME TakeLock(x) PROVE IInv'
  <2>1. CallsInv' /\ calls' \in [Call -> CallState]  BY <1>1, TakeLockKeeps DEF IInv
  <2>2. UNCHANGED <<clock, db, told>>  BY <1>1 DEF TakeLock
  <2> QED  BY <2>1, <2>2, AnswersUnchanged DEF IInv, TypeOK, db
<1>2. CASE ThreadGone(x)  BY <1>2, QuietEnd DEF ThreadGone
<1>3. ASSUME ProposeReads(x) PROVE IInv'
  <2>1. CallsInv' /\ calls' \in [Call -> CallState]  BY <1>3, ProposeReadsKeeps
  <2>2. UNCHANGED <<clock, db, told>>  BY <1>3 DEF ProposeReads
  <2> QED  BY <2>1, <2>2, AnswersUnchanged DEF IInv, TypeOK, db
<1>4. CASE ProposeRefused(x)  BY <1>4, QuietEnd DEF ProposeRefused
<1>5. CASE ProposeWrites(x)
  BY <1>5, ProposeCommits, CommitKeepsCalls, ProposeKeeps DEF IInv
<1>6. CASE ConfirmReplayed(x)  BY <1>6, ReplayKeeps
<1>7. CASE ConfirmRefused(x)  BY <1>7, QuietEnd DEF ConfirmRefused
<1>8. ASSUME ConfirmReads(x) PROVE IInv'
  <2>1. CallsInv' /\ calls' \in [Call -> CallState]  BY <1>8, ConfirmReadsKeeps
  <2>2. UNCHANGED <<clock, db, told>>  BY <1>8 DEF ConfirmReads
  <2> QED  BY <2>1, <2>2, AnswersUnchanged DEF IInv, TypeOK, db
<1>9. ASSUME ConfirmWrites(x) PROVE IInv'
  <2>1. Commits(x) /\ TypeOK'  BY <1>9, ConfirmIs
  <2> QED  BY <1>9, <2>1, CommitKeepsCalls, ConfirmKeeps DEF IInv
<1>10. CASE ConfirmClashes(x)  BY <1>10, QuietEnd DEF ConfirmClashes
<1>11. CASE Cancel(x)
  BY <1>11, CancelCommits, CommitKeepsCalls, CancelKeeps DEF IInv
<1>12. CASE CancelUnchanged(x)  BY <1>12, QuietEnd DEF CancelUnchanged
<1>13. ASSUME DeleteReads(x) PROVE IInv'
  <2>1. CallsInv' /\ calls' \in [Call -> CallState]  BY <1>13, DeleteReadsKeeps
  <2>2. UNCHANGED <<clock, db, told>>  BY <1>13 DEF DeleteReads
  <2> QED  BY <2>1, <2>2, AnswersUnchanged DEF IInv, TypeOK, db
<1>14. CASE DeleteWrites(x)
  BY <1>14, DeleteCommits, CommitKeepsCalls, DeleteKeeps DEF IInv
<1> QED
  BY <1>1, <1>2, <1>3, <1>4, <1>5, <1>6, <1>7, <1>8, <1>9, <1>10, <1>11, <1>12, <1>13, <1>14
  DEF Step

LEMMA NextInv == IInv /\ [Next]_vars => IInv'
<1> SUFFICES ASSUME IInv, [Next]_vars PROVE IInv'
  OBVIOUS
<1>1. ASSUME NEW x \in Call, NewCall(x) PROVE IInv'
  <2>1. CallsInv' /\ calls' \in [Call -> CallState]  BY <1>1, NewCallKeeps
  <2>2. UNCHANGED <<clock, db, told>>
    BY <1>1 DEF NewCall, CallPropose, CallConfirm, CallCancel, CallDelete, Begin
  <2> QED  BY <2>1, <2>2, AnswersUnchanged DEF IInv, TypeOK, db
<1>2. ASSUME NEW x \in Call, Step(x) PROVE IInv'
  BY <1>2, StepKeeps
<1>3. ASSUME NEW x \in Call, Crash(x) PROVE IInv'
  BY <1>3, QuietEnd DEF Crash
<1>4. ASSUME UNCHANGED <<db, calls, told>>, clock' \in 0..MaxClock PROVE IInv'
  <2>1. StoreInv'  BY <1>4, AnswersUnchanged DEF IInv
  <2>2. TypeOK'  BY <1>4 DEF IInv, TypeOK, db
  <2>3. LockInv' /\ CallInv'
    BY <1>4 DEF IInv, CallsInv, LockInv, CallInv, HoldsInOrder, Addressed, Exists, db
  <2>4. SeenInv'
    <3>1. \A y \in Call : calls'[y] = calls[y]  BY <1>4
    <3> QED  BY <1>4, <3>1, OtherKeeps DEF IInv, SeenInv
  <2> QED  BY <2>1, <2>2, <2>3, <2>4 DEF IInv, CallsInv
<1>5. CASE Tick
  <2>1. clock' \in 0..MaxClock
    BY <1>5, LifetimeAssumption DEF Tick, IInv, TypeOK
  <2> QED  BY <1>4, <1>5, <2>1 DEF Tick
<1>6. CASE UNCHANGED vars
  BY <1>4, <1>6 DEF vars, IInv, TypeOK
<1> QED  BY <1>1, <1>2, <1>3, <1>5, <1>6 DEF Next

LEMMA Invariance == Spec => []IInv
BY InitInv, NextInv, PTL DEF Spec

(***************************************************************************)
(* The theorems.                                                           *)
(***************************************************************************)

\* Every row, version, answer and transaction record has the type the code gives it.
THEOREM TypeCorrect == Spec => []TypeOK
<1>1. IInv => TypeOK  BY DEF IInv
<1> QED  BY <1>1, Invariance, PTL

\* The versions of a scope are numbered without gap in the order of their
\* confirmation, only the last can be in force, and a draft is confirmed exactly when it
\* became a version: confirm, with propose_in_repository, cancel and cancel_thread
\* interleaved as the locks of _lock_for_resolution allow.
THEOREM VersionsStayInOrder == Spec => []VersionsInOrder
<1>1. IInv => VersionsInOrder  BY DEF IInv, StoreInv
<1> QED  BY <1>1, Invariance, PTL

\* No pending draft is ever based on a version that is not the latest: confirm
\* never finds the base of a pending draft out of date.
THEOREM DraftsStayCurrent == Spec => []PendingIsCurrent
<1>1. IInv => PendingIsCurrent  BY DEF IInv, StoreInv
<1> QED  BY <1>1, Invariance, PTL

\* delete_thread leaves no pending draft of the thread, whatever was being proposed
\* or resolved while it ran.
THEOREM DeletionEndsDrafts == Spec => []DeletedLeavesNoDraft
<1>1. IInv => DeletedLeavesNoDraft  BY DEF IInv, StoreInv
<1> QED  BY <1>1, Invariance, PTL

\* A client_request_id confirms one version at most, and every answer it was ever given
\* names that version.
THEOREM ConfirmationsStayStable == Spec => []ConfirmationsAreStable
<1>1. IInv => ConfirmationsAreStable  BY DEF IInv, StoreInv
<1> QED  BY <1>1, Invariance, PTL

\* A transaction that waits holds nothing but its thread, and then waits for an identity.
LEMMA WaitsFor ==
  ASSUME TypeOK, CallsInv, NEW x \in Call, calls[x].phase = "lock"
  PROVE  /\ calls[x].held \subseteq Thread
         /\ calls[x].held # {} => NextLock(calls[x]) \in Identity
<1>1. HoldsInOrder(x) /\ Addressed(x)  BY DEF CallsInv, LockInv, CallInv
<1>2. calls[x].kind \in Kind /\ calls[x].thread \in Thread
  BY <1>1, SeenType DEF Addressed, CallState
<1>3. calls[x].held # {} => calls[x].identity \in Identity
  BY <1>1, <1>2 DEF HoldsInOrder, Addressed, Kind
<1> QED  BY <1>1, <1>2, <1>3, NextLockIs DEF HoldsInOrder

\* However many transactions there are, no set of them waits for one another: the
\* thread before the identity, in every operation that takes both.
THEOREM LocksNeverCycle == Spec => []NoDeadlock
<1>1. IInv => NoDeadlock
  <2> SUFFICES ASSUME IInv, NEW S \in SUBSET Call, S # {},
                      \A x \in S : \E y \in S : Waits(x, y)
               PROVE  FALSE
    BY DEF NoDeadlock
  <2>1. PICK x \in S, y \in S : Waits(x, y)  OBVIOUS
  <2>2. PICK z \in S : Waits(y, z)  OBVIOUS
  <2>3. PICK u \in S : Waits(z, u)  OBVIOUS
  <2>4. NextLock(calls[y]) \in Identity
    BY <2>1, <2>2, WaitsFor DEF Waits, IInv
  <2>5. NextLock(calls[y]) \in calls[z].held /\ calls[z].held \subseteq Thread
    BY <2>2, <2>3, WaitsFor DEF Waits, IInv
  <2> QED  BY <2>4, <2>5, LockAssumption
<1> QED  BY <1>1, Invariance, PTL

\* Every step leaves the rows alone or is a commit.
LEMMA RowsChangeByCommit ==
  ASSUME IInv, [Next]_vars
  PROVE  \/ candidates' = candidates
         \/ \E x \in Call : Commits(x) /\ (ProposeWrites(x) \/ Cancel(x) \/ DeleteWrites(x))
         \/ \E x \in Call : Commits(x) /\ ConfirmWrites(x)
<1>1. ASSUME NEW x \in Call, NewCall(x) PROVE candidates' = candidates
  BY <1>1 DEF NewCall, CallPropose, CallConfirm, CallCancel, CallDelete, Begin, db
<1>2. ASSUME NEW x \in Call, Step(x)
      PROVE  \/ candidates' = candidates
             \/ Commits(x) /\ (ProposeWrites(x) \/ Cancel(x) \/ DeleteWrites(x))
             \/ Commits(x) /\ ConfirmWrites(x)
  <2>1. CASE ProposeWrites(x)  BY <2>1, ProposeCommits DEF IInv
  <2>2. CASE Cancel(x)  BY <2>2, CancelCommits DEF IInv
  <2>3. CASE DeleteWrites(x)  BY <2>3, DeleteCommits DEF IInv
  <2>4. CASE ConfirmWrites(x)  BY <2>4, ConfirmIs
  <2>5. CASE \/ TakeLock(x) \/ ThreadGone(x) \/ ProposeReads(x) \/ ProposeRefused(x)
             \/ ConfirmReplayed(x) \/ ConfirmRefused(x) \/ ConfirmReads(x) \/ ConfirmClashes(x)
             \/ CancelUnchanged(x) \/ DeleteReads(x)
    BY <2>5 DEF TakeLock, ThreadGone, ProposeReads, ProposeRefused, ConfirmReplayed,
       ConfirmRefused, ConfirmReads, ConfirmClashes, CancelUnchanged, DeleteReads, db
  <2> QED  BY <1>2, <2>1, <2>2, <2>3, <2>4, <2>5 DEF Step
<1>3. ASSUME NEW x \in Call, Crash(x) PROVE candidates' = candidates
  BY <1>3 DEF Crash, db
<1>4. CASE Tick \/ UNCHANGED vars  BY <1>4 DEF Tick, vars, db
<1> QED  BY <1>1, <1>2, <1>3, <1>4 DEF Next

\* Nothing revives a draft that was cancelled or has expired, and nothing undoes a
\* confirmation, although proposals and deletions write back rows they read earlier.
THEOREM ResolutionIsFinal == Spec => ResolvedIsFinal
<1> DEFINE Final == \A c \in Candidate :
       /\ candidates[c].status \in {"CANCELLED", "EXPIRED"} =>
            candidates'[c].status \in {"CANCELLED", "EXPIRED"}
       /\ candidates[c].status = "CONFIRMED" => candidates'[c] = candidates[c]
<1>1. IInv /\ [Next]_vars => Final
  <2> SUFFICES ASSUME IInv, [Next]_vars, NEW c \in Candidate
               PROVE  /\ candidates[c].status \in {"CANCELLED", "EXPIRED"} =>
                           candidates'[c].status \in {"CANCELLED", "EXPIRED"}
                      /\ candidates[c].status = "CONFIRMED" => candidates'[c] = candidates[c]
    OBVIOUS
  <2>1. CASE candidates' = candidates  BY <2>1
  <2>2. ASSUME NEW x \in Call, Commits(x)
        PROVE  /\ candidates[c].status \in {"CANCELLED", "EXPIRED"} =>
                    candidates'[c].status \in {"CANCELLED", "EXPIRED"}
               /\ candidates[c].status = "CONFIRMED" => candidates'[c] = candidates[c]
    BY <2>2 DEF Commits, Exists
  <2> QED  BY <2>1, <2>2, RowsChangeByCommit
<1> QED  BY <1>1, Invariance, PTL DEF Spec, ResolvedIsFinal

\* A draft becomes a version only from pending, with its thread not deleted and its
\* expiry still ahead when its confirmation read the clock.
THEOREM ConfirmationInTime == Spec => ConfirmedInTime
<1> DEFINE InTime == \A c \in Candidate :
       candidates[c].status # "CONFIRMED" /\ candidates'[c].status = "CONFIRMED" =>
         /\ candidates[c].status = "PENDING" /\ candidates[c].thread \notin deleted
         /\ \E x \in Call : calls[x].kind = "confirm" /\ calls[x].candidate = c
                            /\ calls[x].now < candidates[c].expires
<1>1. IInv /\ [Next]_vars => InTime
  <2> SUFFICES ASSUME IInv, [Next]_vars, NEW c \in Candidate,
                      candidates[c].status # "CONFIRMED", candidates'[c].status = "CONFIRMED"
               PROVE  /\ candidates[c].status = "PENDING" /\ candidates[c].thread \notin deleted
                      /\ \E x \in Call : calls[x].kind = "confirm" /\ calls[x].candidate = c
                                         /\ calls[x].now < candidates[c].expires
    OBVIOUS
  <2>1. ASSUME NEW x \in Call, Commits(x), ProposeWrites(x)  PROVE FALSE
    <3>1. /\ candidates'[calls[x].candidate].status = "PENDING"
          /\ \A d \in Candidate \ {calls[x].candidate} :
               /\ d \notin Read(x) => candidates'[d] = candidates[d]
               /\ d \in Read(x) => candidates'[d].status \in {"CANCELLED", "EXPIRED"}
      BY <2>1, ProposeCommits DEF IInv
    <3> QED  BY <3>1
  <2>2. ASSUME NEW x \in Call, Cancel(x)  PROVE FALSE
    BY <2>2, CancelCommits DEF IInv
  <2>3. ASSUME NEW x \in Call, DeleteWrites(x)  PROVE FALSE
    BY <2>3, DeleteCommits DEF IInv
  <2>4. PICK x \in Call : ConfirmWrites(x)
    BY <2>1, <2>2, <2>3, RowsChangeByCommit
  <2>5. c = calls[x].candidate  BY <2>4, ConfirmIs
  <2>6. calls[x].kind = "confirm"  BY <2>4 DEF ConfirmWrites
  <2>7. calls[x].now \in Nat /\ candidates[c].expires \in Nat
    <3>1. calls[x] \in CallState /\ candidates[c] \in Row  BY SeenType DEF IInv, TypeOK
    <3> QED  BY <3>1 DEF CallState, Row
  <2> QED  BY <2>4, <2>5, <2>6, <2>7, ConfirmIs
<1> QED  BY <1>1, Invariance, PTL DEF Spec, ConfirmedInTime

(***************************************************************************)
(* What the register shows of a state.                                     *)
(***************************************************************************)

PendingAt(i) == {c \in Candidate : candidates[c].status = "PENDING" /\ candidates[c].identity = i}

\* The register's proposal is the pending draft.
ShowsProposal ==
  /\ \A i \in Identity : PendingAt(i) = {} => Proposal[i] = Register!NoEntry
  /\ \A i \in Identity : \A c \in PendingAt(i) : Proposal[i] = EntryOf(c)

\* The register's log is the drafts of the versions, in the order of their numbers.
ShowsLog ==
  \A i \in Identity :
    /\ Latest(i) \in Nat /\ Log[i] \in Seq(Register!Entry) /\ Len(Log[i]) = Latest(i)
    /\ \A v \in Of(i) : v.number \in 1..Latest(i) /\ Log[i][v.number] = EntryOf(v.candidate)
    /\ \A n \in 1..Latest(i) : \E v \in Of(i) : v.number = n

Shows == ShowsProposal /\ ShowsLog

LEMMA EntryType ==
  ASSUME TypeOK, NEW c \in Candidate
  PROVE  /\ EntryOf(c) \in Register!Entry /\ EntryOf(c).draft = c
         /\ EntryOf(c).operation = candidates[c].operation
         /\ EntryOf(c) # Register!NoEntry
<1>1. candidates[c].operation \in Operation  BY DEF TypeOK, Row
<1>2. None \notin Candidate  BY LockAssumption
<1>3. EntryOf(c).draft = c /\ Register!NoEntry.draft = None
  BY DEF EntryOf, Register!NoEntry
<1>4. EntryOf(c) # Register!NoEntry  BY <1>2, <1>3
<1> QED  BY <1>1, <1>4 DEF EntryOf, Register!Entry, Register!Operation, Operation

LEMMA ProposalShown == IInv => ShowsProposal
<1> SUFFICES ASSUME IInv PROVE ShowsProposal
  OBVIOUS
<1>1. ASSUME NEW i \in Identity, PendingAt(i) = {}  PROVE Proposal[i] = Register!NoEntry
  BY <1>1 DEF PendingAt, Proposal, Register!NoEntry
<1>2. ASSUME NEW i \in Identity, NEW c \in PendingAt(i)  PROVE Proposal[i] = EntryOf(c)
  <2> DEFINE P(d) == candidates[d].status = "PENDING" /\ candidates[d].identity = i
             d == CHOOSE e \in Candidate : P(e)
  <2>1. c \in Candidate /\ P(c)  BY DEF PendingAt
  <2>2. d \in Candidate /\ P(d)  BY <2>1
  <2>3. d = c  BY <2>1, <2>2 DEF IInv, StoreInv, DraftInv
  <2>4. Proposal[i] = EntryOf(d)  BY <2>1 DEF Proposal
  <2> QED  BY <2>3, <2>4
<1> QED  BY <1>1, <1>2 DEF ShowsProposal

LEMMA LogShown == IInv => ShowsLog
<1> SUFFICES ASSUME IInv, NEW i \in Identity
             PROVE  /\ Latest(i) \in Nat /\ Log[i] \in Seq(Register!Entry) /\ Len(Log[i]) = Latest(i)
                    /\ \A v \in Of(i) : v.number \in 1..Latest(i) /\ Log[i][v.number] = EntryOf(v.candidate)
                    /\ \A n \in 1..Latest(i) : \E v \in Of(i) : v.number = n
  BY DEF ShowsLog
<1> DEFINE k == Latest(i)
           at(n) == CHOOSE v \in Of(i) : v.number = n
           e(n) == EntryOf(at(n).candidate)
<1>1. /\ k \in Nat /\ {v.number : v \in Of(i)} = 1..k
      /\ \A v, w \in Of(i) : v.number = w.number => v = w
  BY DEF IInv, StoreInv, VersionInv, VersionsInOrder
<1>2. \A v \in Of(i) : v.candidate \in Candidate  BY DEF IInv, TypeOK, Of, Version
<1>3. \A n \in 1..k : \E v \in Of(i) : v.number = n  BY <1>1
<1>4. \A n \in 1..k : at(n) \in Of(i) /\ at(n).number = n  BY <1>3
<1>5. \A v \in Of(i) : v.number \in 1..k  BY <1>1
<1>6. \A v \in Of(i) : at(v.number) = v  BY <1>1, <1>4, <1>5
<1>7. Log[i] = [n \in 1..k |-> e(n)]  BY DEF Log
<1> HIDE DEF k, at
<1>8. \A n \in 1..k : e(n) \in Register!Entry
  BY <1>2, <1>4, EntryType DEF IInv
<1> HIDE DEF e
<1>9. Log[i] \in [1..k -> Register!Entry]  BY <1>7, <1>8
<1>10. Log[i] \in Seq(Register!Entry)  BY <1>1, <1>9, SeqDef
<1>11. Len(Log[i]) = k
  <2>1. DOMAIN Log[i] = 1..k  BY <1>9
  <2>2. Len(Log[i]) \in Nat /\ DOMAIN Log[i] = 1..Len(Log[i])  BY <1>10, LenProperties
  <2> QED  BY <1>1, <2>1, <2>2
<1>12. \A v \in Of(i) : Log[i][v.number] = EntryOf(v.candidate)
  BY <1>5, <1>6, <1>7 DEF e
<1> QED  BY <1>1, <1>3, <1>5, <1>10, <1>11, <1>12 DEF k

LEMMA Shown == IInv => Shows
BY ProposalShown, LogShown DEF Shows

LEMMA ShownNext == IInv' => Shows'
BY Shown, PTL

LEMMA Domains ==
  /\ Proposal = [i \in Identity |-> Proposal[i]] /\ Log = [i \in Identity |-> Log[i]]
  /\ Proposal' = [i \in Identity |-> Proposal'[i]] /\ Log' = [i \in Identity |-> Log'[i]]
BY DEF Proposal, Log

\* The proposal of an identity whose pending drafts are as they were.
LEMMA ProposalKept ==
  ASSUME Shows, Shows', NEW i \in Identity, PendingAt(i)' = PendingAt(i),
         \A c \in PendingAt(i) : candidates'[c] = candidates[c]
  PROVE  Proposal'[i] = Proposal[i]
<1>1. CASE PendingAt(i) = {}
  BY <1>1 DEF Shows, ShowsProposal, Register!NoEntry
<1>2. CASE PendingAt(i) # {}
  <2>1. PICK c \in PendingAt(i) : TRUE  BY <1>2
  <2>2. Proposal[i] = EntryOf(c) /\ Proposal'[i] = EntryOf(c)'
    BY <2>1 DEF Shows, ShowsProposal
  <2> QED  BY <2>1, <2>2 DEF EntryOf
<1> QED  BY <1>1, <1>2

\* The log of an identity to which no version was added.
LEMMA LogKept ==
  ASSUME IInv, Shows, Shows', NEW i \in Identity, Of(i)' = Of(i),
         \A c \in Candidate : Exists(c) => SameDraft(candidates'[c], candidates[c])
  PROVE  Log'[i] = Log[i]
<1>1. Latest(i)' = Latest(i)  BY DEF Latest
<1>2. \A v \in Of(i) : v.candidate \in Candidate /\ Exists(v.candidate)
  BY DEF Of, IInv, TypeOK, Version, StoreInv, VersionInv, Exists
<1>3. \A v \in Of(i) : EntryOf(v.candidate)' = EntryOf(v.candidate)
  BY <1>2 DEF EntryOf, SameDraft
<1> DEFINE k == Len(Log[i])
<1>4. /\ Log[i] \in Seq(Register!Entry) /\ Log'[i] \in Seq(Register!Entry)
      /\ k = Latest(i) /\ Len(Log'[i]) = Latest(i) /\ Latest(i) \in Nat
  BY <1>1 DEF Shows, ShowsLog, Register!Entry, Register!Operation
<1>5. ASSUME NEW n \in 1..k  PROVE Log'[i][n] = Log[i][n]
  <2>1. PICK v \in Of(i) : v.number = n  BY <1>4 DEF Shows, ShowsLog
  <2>2. Log[i][n] = EntryOf(v.candidate) /\ Log'[i][n] = EntryOf(v.candidate)'
    BY <2>1 DEF Shows, ShowsLog
  <2> QED  BY <1>3, <2>1, <2>2
<1> QED  BY <1>4, <1>5, SeqEqual

\* Steps that change no draft and no version are invisible.
LEMMA Invisible ==
  ASSUME IInv, IInv', candidates' = candidates, versions' = versions
  PROVE  UNCHANGED <<Proposal, Log, Spent>>
<1>1. Shows /\ Shows'  BY Shown, ShownNext
<1>2. \A i \in Identity : PendingAt(i)' = PendingAt(i) /\ Of(i)' = Of(i)  BY DEF PendingAt, Of
<1>3. \A c \in Candidate : SameDraft(candidates'[c], candidates[c])  BY DEF SameDraft
<1>4. \A i \in Identity : \A c \in PendingAt(i) : candidates'[c] = candidates[c]  OBVIOUS
<1>5. \A i \in Identity : Proposal'[i] = Proposal[i] /\ Log'[i] = Log[i]
  BY <1>1, <1>2, <1>3, <1>4, ProposalKept, LogKept
<1>6. Proposal' = Proposal /\ Log' = Log  BY <1>5, Domains
<1>7. Spent' = Spent  BY DEF Spent
<1> QED  BY <1>6, <1>7

(***************************************************************************)
(* Each commit is a step of the register.                                  *)
(***************************************************************************)

\* The draft the register has on the table is the pending one.
LEMMA DraftsAre ==
  ASSUME IInv, NEW i \in Identity
  PROVE  /\ Register!Drafts(i) = PendingAt(i)
         /\ \A c, d \in PendingAt(i) : c = d
<1>1. \A c, d \in PendingAt(i) : c = d  BY DEF PendingAt, IInv, StoreInv, DraftInv
<1>2. ShowsProposal  BY Shown DEF Shows
<1>3. CASE PendingAt(i) = {}
  BY <1>2, <1>3 DEF ShowsProposal, Register!Drafts, Register!NoEntry
<1>4. CASE PendingAt(i) # {}
  <2>1. PICK c \in PendingAt(i) : PendingAt(i) = {c}  BY <1>1, <1>4
  <2>2. c \in Candidate  BY <2>1 DEF PendingAt
  <2>3. Proposal[i].draft = c  BY <1>2, <2>1, <2>2, EntryType DEF ShowsProposal, IInv
  <2>4. c # None  BY <2>2, LockAssumption
  <2> QED  BY <1>1, <2>1, <2>3, <2>4 DEF Register!Drafts
<1> QED  BY <1>1, <1>3, <1>4

\* A cancellation or a deletion withdraws the proposals it ends.
LEMMA CommitWithdraws ==
  ASSUME IInv, IInv', NEW x \in Call, Commits(x), versions' = versions,
         \A c \in Candidate :
           candidates'[c] = candidates[c] \/ candidates'[c].status \in {"CANCELLED", "EXPIRED"}
  PROVE  \E S \in SUBSET Identity : Register!Withdraw(S)
<1> DEFINE S == {i \in Identity : PendingAt(i)' # PendingAt(i)}
<1>1. Shows /\ Shows'  BY Shown, ShownNext
<1>2. \A c \in Candidate : Exists(c) => SameDraft(candidates'[c], candidates[c])  BY DEF Commits
<1>3. \A i \in Identity : PendingAt(i)' \subseteq PendingAt(i)
                          /\ \A c \in PendingAt(i)' : candidates'[c] = candidates[c]
  BY DEF PendingAt
<1>4. ASSUME NEW i \in Identity  PROVE Proposal'[i] = IF i \in S THEN Register!NoEntry ELSE Proposal[i]
  <2>1. CASE i \in S
    <3>1. PendingAt(i)' = {}
      <4>1. \A c, d \in PendingAt(i) : c = d  BY DraftsAre
      <4> QED  BY <1>3, <2>1, <4>1
    <3> QED  BY <1>1, <2>1, <3>1 DEF Shows, ShowsProposal, Register!NoEntry
  <2>2. CASE i \notin S
    <3>1. PendingAt(i)' = PendingAt(i)  BY <2>2
    <3> QED  BY <1>1, <1>3, <2>2, <3>1, ProposalKept
  <2> QED  BY <2>1, <2>2
<1>5. Log' = Log
  <2>1. \A i \in Identity : Of(i)' = Of(i)  BY DEF Of
  <2> QED  BY <1>1, <1>2, <2>1, LogKept, Domains
<1>6. Spent' = Spent \cup UNION {Register!Drafts(i) : i \in S}
  <2>1. \A i \in S : Register!Drafts(i) = PendingAt(i)  BY DraftsAre
  <2>2. ASSUME NEW c \in Candidate
        PROVE  c \in Spent' <=> c \in Spent \/ \E i \in S : c \in PendingAt(i)
    <3>1. /\ c \in Spent' <=> candidates'[c].status \in Resolved
          /\ c \in Spent <=> candidates[c].status \in Resolved
      BY DEF Spent
    <3>2. ASSUME candidates'[c] = candidates[c]  PROVE ~ \E i \in S : c \in PendingAt(i)
      <4> SUFFICES ASSUME NEW i \in S, c \in PendingAt(i) PROVE FALSE
        OBVIOUS
      <4>1. c \in PendingAt(i)' /\ \A d, e \in PendingAt(i) : d = e
        BY <3>2, DraftsAre DEF PendingAt
      <4> QED  BY <1>3, <4>1
    <3>3. ASSUME candidates'[c] # candidates[c]
          PROVE  c \in Spent' /\ (c \in Spent \/ \E i \in S : c \in PendingAt(i))
      <4>1. candidates'[c].status \in {"CANCELLED", "EXPIRED"}  BY <3>3
      <4>2. Exists(c)
        <5>1. Exists(c)' /\ candidates'[c].status # "PENDING"  BY <4>1 DEF Exists
        <5> QED  BY <5>1 DEF Commits
      <4>3. candidates[c].status \in {"PENDING", "CANCELLED", "EXPIRED"}
        BY <3>3, <4>2 DEF Commits
      <4>4. ASSUME candidates[c].status = "PENDING"  PROVE \E i \in S : c \in PendingAt(i)
        <5>1. PICK i \in Identity : i = candidates[c].identity
          BY <4>2 DEF IInv, StoreInv, DraftInv
        <5>2. c \in PendingAt(i) /\ c \notin PendingAt(i)'  BY <4>1, <4>4, <5>1 DEF PendingAt
        <5> QED  BY <5>2
      <4> QED  BY <3>1, <4>1, <4>3, <4>4 DEF Resolved
    <3> QED  BY <3>1, <3>2, <3>3
  <2>3. Spent \subseteq Candidate /\ Spent' \subseteq Candidate  BY DEF Spent
  <2>4. \A i \in S : PendingAt(i) \subseteq Candidate  BY DEF PendingAt
  <2> HIDE DEF S
  <2> QED  BY <2>1, <2>2, <2>3, <2>4
<1>7. Proposal' = [i \in Identity |-> IF i \in S THEN Register!NoEntry ELSE Proposal[i]]
  BY <1>4, Domains
<1>8. S \in SUBSET Identity  OBVIOUS
<1> HIDE DEF S
<1> QED  BY <1>5, <1>6, <1>7, <1>8 DEF Register!Withdraw

\* Only what is in force can be drafted to be invalidated.
LEMMA ActiveIsInForce ==
  ASSUME IInv, NEW i \in Identity, IsActive(i, Latest(i))
  PROVE  Register!InForce(i)
<1>1. PICK v \in Of(i) : v.number = Latest(i) /\ v.status = "ACTIVE"  BY DEF IsActive
<1>2. v \in versions /\ v.candidate \in Candidate  BY DEF Of, IInv, TypeOK, Version
<1>3. EntryOf(v.candidate).operation = "UPSERT"
  <2>1. candidates[v.candidate].operation # "INVALIDATE"
    BY <1>1, <1>2 DEF IInv, StoreInv, VersionInv
  <2>2. candidates[v.candidate].operation \in Operation  BY <1>2 DEF IInv, TypeOK, Row
  <2> QED  BY <1>2, <2>1, <2>2, EntryType DEF IInv, Operation
<1>4. /\ Len(Log[i]) = Latest(i) /\ v.number \in 1..Latest(i) /\ Latest(i) \in Nat
      /\ Log[i][v.number] = EntryOf(v.candidate) /\ Log[i] \in Seq(Register!Entry)
  BY Shown DEF Shows, ShowsLog
<1>5. Log[i] # <<>>  BY <1>4
<1> QED  BY <1>1, <1>3, <1>4, <1>5 DEF Register!InForce

LEMMA CommitProposes ==
  ASSUME IInv, IInv', NEW x \in Call, ProposeWrites(x)
  PROVE  \E i \in Identity, e \in Register!Entry : Register!Propose(i, e)
<1>1. /\ Commits(x) /\ versions' = versions
      /\ calls[x].kind = "propose" /\ calls[x].phase = "write"
  BY ProposeCommits DEF IInv, ProposeWrites
<1>2. PICK new \in Candidate : new = calls[x].candidate  BY ProposeCommits DEF IInv
<1>3. PICK i \in Identity : i = calls[x].identity
  BY <1>1 DEF IInv, CallsInv, CallInv, Addressed
<1>4. PICK op \in Operation : op = calls[x].operation  BY SeenType DEF IInv, CallState
<1>5. /\ ~Exists(new) /\ candidates'[new].status = "PENDING"
      /\ candidates'[new].identity = i /\ candidates'[new].operation = op
      /\ \A c \in Candidate \ {new} :
           /\ c \notin Read(x) => candidates'[c] = candidates[c]
           /\ c \in Read(x) => candidates'[c].status \in {"CANCELLED", "EXPIRED"}
  BY <1>2, <1>3, <1>4, ProposeCommits DEF IInv
<1>6. ReadPending(x) /\ ReadIdentity(x)  BY <1>1 DEF IInv, CallsInv, SeenInv
<1>7. /\ \A c \in Read(x) : candidates[c].identity = i
                            /\ candidates[c].status \in {"PENDING", "CANCELLED", "EXPIRED"}
      /\ PendingAt(i) \subseteq Read(x)
      /\ op = "INVALIDATE" => IsActive(i, Latest(i))
  BY <1>1, <1>3, <1>4, <1>6 DEF ReadPending, ReadIdentity, PendingAt
<1>8. Read(x) \subseteq Candidate /\ new \notin Read(x)
  BY <1>5, <1>7 DEF Read, Exists
<1>9. Shows /\ Shows'  BY Shown, ShownNext
<1> DEFINE e == [draft |-> new, operation |-> op]
<1>10. e \in Register!Entry  BY DEF Register!Entry, Register!Operation, Operation
<1>11. PendingAt(i)' = {new}  BY <1>5, <1>7 DEF PendingAt
<1>12. Proposal'[i] = e
  <2>1. Proposal'[i] = EntryOf(new)'  BY <1>9, <1>11 DEF Shows, ShowsProposal
  <2> QED  BY <1>5, <2>1 DEF EntryOf
<1>13. ASSUME NEW j \in Identity, j # i  PROVE Proposal'[j] = Proposal[j]
  <2>1. PendingAt(j)' = PendingAt(j)
    BY <1>5, <1>7, <1>13 DEF PendingAt, Exists
  <2>2. \A c \in PendingAt(j) : candidates'[c] = candidates[c]
    BY <1>5, <1>7, <1>13 DEF PendingAt, Exists
  <2> QED  BY <1>9, <2>1, <2>2, ProposalKept
<1>14. Proposal' = [Proposal EXCEPT ![i] = e]
  <2> HIDE DEF e
  <2> QED  BY <1>12, <1>13, Domains
<1>15. Log' = Log
  <2>1. \A j \in Identity : Of(j)' = Of(j)  BY <1>1 DEF Of
  <2>2. \A c \in Candidate : Exists(c) => SameDraft(candidates'[c], candidates[c])
    BY <1>1 DEF Commits
  <2> QED  BY <1>9, <2>1, <2>2, LogKept, Domains
<1>16. Spent' = Spent \cup Register!Drafts(i)
  <2>1. Register!Drafts(i) = PendingAt(i)  BY DraftsAre
  <2>2. ASSUME NEW c \in Candidate
        PROVE  c \in Spent' <=> c \in Spent \/ c \in PendingAt(i)
    <3>1. /\ c \in Spent' <=> candidates'[c].status \in Resolved
          /\ c \in Spent <=> candidates[c].status \in Resolved
      BY DEF Spent
    <3>2. CASE c = new  BY <1>5, <1>7, <1>8, <3>1, <3>2 DEF Resolved, Exists
    <3>3. CASE c \in Read(x)  BY <1>5, <1>7, <1>8, <3>1, <3>3 DEF Resolved, PendingAt
    <3>4. CASE c # new /\ c \notin Read(x)  BY <1>5, <1>7, <3>1, <3>4
    <3> QED  BY <3>2, <3>3, <3>4
  <2>3. Spent \subseteq Candidate /\ Spent' \subseteq Candidate /\ PendingAt(i) \subseteq Candidate
    BY DEF Spent, PendingAt
  <2> QED  BY <2>1, <2>2, <2>3
<1>17. new \notin Spent /\ \A z \in Identity : new # Proposal[z].draft
  <2>1. new \notin Spent  BY <1>5 DEF Spent, Resolved, Exists
  <2>2. ASSUME NEW z \in Identity, new = Proposal[z].draft  PROVE FALSE
    <3>1. new \in Register!Drafts(z)  BY <2>2, LockAssumption DEF Register!Drafts
    <3>2. new \in PendingAt(z)  BY <3>1, DraftsAre
    <3> QED  BY <1>5, <3>2 DEF PendingAt, Exists
  <2> QED  BY <2>1, <2>2
<1>18. e.operation = "INVALIDATE" => Register!InForce(i)  BY <1>7, ActiveIsInForce
<1>19. e.draft = new  OBVIOUS
<1> HIDE DEF e
<1> QED  BY <1>10, <1>14, <1>15, <1>16, <1>17, <1>18, <1>19 DEF Register!Propose

LEMMA CommitConfirms ==
  ASSUME IInv, IInv', NEW x \in Call, ConfirmWrites(x)
  PROVE  \E i \in Identity : Register!Confirm(i)
<1>1. PICK c \in Candidate : c = calls[x].candidate  BY ConfirmIs
<1>2. PICK i \in Identity : i = calls[x].identity  BY ConfirmIs
<1>3. PICK n \in Nat : n = Latest(i) /\ n = calls[x].base  BY <1>2, ConfirmIs
<1>4. /\ candidates[c].status = "PENDING" /\ candidates[c].identity = i
      /\ candidates'[c].status = "CONFIRMED"
      /\ \A d \in Candidate \ {c} : candidates'[d] = candidates[d]
      /\ \A j \in Identity \ {i} : Of(j)' = Of(j)
      /\ Of(i)' = {Aged(v, n) : v \in Of(i)} \cup {Added(x)}
      /\ Commits(x)
  BY <1>1, <1>2, <1>3, ConfirmIs
<1>5. Latest(i)' = n + 1  BY <1>2, <1>3, ConfirmOrder
<1>6. \A d \in Candidate : Exists(d) => SameDraft(candidates'[d], candidates[d])
  BY <1>4 DEF Commits
<1>7. Exists(c) /\ EntryOf(c)' = EntryOf(c)
  BY <1>4, <1>6 DEF EntryOf, SameDraft, Exists
<1>8. Shows /\ Shows'  BY Shown, ShownNext
<1>9. PendingAt(i) = {c} /\ PendingAt(i)' = {}
  BY <1>4, DraftsAre DEF PendingAt, SameDraft
<1>10. Proposal[i] = EntryOf(c) /\ Proposal'[i] = Register!NoEntry
  <2>1. Proposal'[i] = Register!NoEntry'  BY <1>8, <1>9 DEF Shows, ShowsProposal
  <2> QED  BY <1>8, <1>9, <2>1 DEF Shows, ShowsProposal, Register!NoEntry
<1>11. ASSUME NEW j \in Identity, j # i  PROVE Proposal'[j] = Proposal[j] /\ Log'[j] = Log[j]
  <2>1. Of(j)' = Of(j)  BY <1>4, <1>11
  <2>2. /\ PendingAt(j)' = PendingAt(j)
        /\ \A d \in PendingAt(j) : candidates'[d] = candidates[d]
    BY <1>4, <1>6, <1>7, <1>11 DEF PendingAt, SameDraft
  <2> QED  BY <1>6, <1>8, <2>1, <2>2, ProposalKept, LogKept
<1>12. Log'[i] = Append(Log[i], EntryOf(c))
  <2>1. /\ Log[i] \in Seq(Register!Entry) /\ Len(Log[i]) = n
        /\ Log'[i] \in Seq(Register!Entry) /\ Len(Log'[i]) = n + 1
    BY <1>3, <1>5, <1>8 DEF Shows, ShowsLog, Register!Entry, Register!Operation
  <2>2. EntryOf(c) \in Register!Entry  BY EntryType DEF IInv
  <2>3. /\ Append(Log[i], EntryOf(c)) \in Seq(Register!Entry)
        /\ Len(Append(Log[i], EntryOf(c))) = n + 1
        /\ \A k \in 1..n : Append(Log[i], EntryOf(c))[k] = Log[i][k]
        /\ Append(Log[i], EntryOf(c))[n + 1] = EntryOf(c)
    BY <2>1, <2>2, AppendProperties
  <2>4. ASSUME NEW k \in 1..n  PROVE Log'[i][k] = Log[i][k]
    <3>1. PICK v \in Of(i) : v.number = k  BY <1>3, <1>8, <2>4 DEF Shows, ShowsLog
    <3>2. v \in Version /\ v \in versions  BY DEF Of, IInv, TypeOK
    <3>3. Aged(v, n).number = k /\ Aged(v, n).candidate = v.candidate
      BY <3>1, <3>2, AgedIs
    <3>4. PICK w \in Of(i)' : w.number = k /\ w.candidate = v.candidate  BY <1>4, <3>3
    <3>5. Log'[i][k] = EntryOf(w.candidate)'
      <4>1. \A u \in Of(i)' : Log'[i][u.number] = EntryOf(u.candidate)'
        BY <1>8 DEF Shows, ShowsLog
      <4> QED  BY <3>4, <4>1
    <3>6. Exists(v.candidate) /\ v.candidate \in Candidate
      BY <3>2 DEF IInv, StoreInv, VersionInv, Exists, Version
    <3>7. EntryOf(v.candidate)' = EntryOf(v.candidate)
      BY <1>6, <3>6 DEF EntryOf, SameDraft
    <3>8. Log[i][k] = EntryOf(v.candidate)  BY <1>8, <3>1 DEF Shows, ShowsLog
    <3> QED  BY <3>4, <3>5, <3>7, <3>8
  <2>5. Log'[i][n + 1] = EntryOf(c)
    <3>1. Added(x).number = n + 1 /\ Added(x).candidate = c  BY <1>1, <1>3 DEF Added
    <3>2. PICK w \in Of(i)' : w.number = n + 1 /\ w.candidate = c  BY <1>4, <3>1
    <3>3. \A u \in Of(i)' : Log'[i][u.number] = EntryOf(u.candidate)'
      BY <1>8 DEF Shows, ShowsLog
    <3> QED  BY <1>7, <3>2, <3>3
  <2>6. ASSUME NEW k \in 1..(n + 1)  PROVE Log'[i][k] = Append(Log[i], EntryOf(c))[k]
    <3>1. k \in 1..n \/ k = n + 1  OBVIOUS
    <3> QED  BY <2>3, <2>4, <2>5, <3>1
  <2> QED  BY <2>1, <2>3, <2>6, SeqEqual
<1>13. Spent' = Spent \cup Register!Drafts(i)
  <2>1. Register!Drafts(i) = {c}  BY <1>9, DraftsAre
  <2> QED  BY <1>4, <2>1 DEF Spent, Resolved
<1>14. Proposal[i] # Register!NoEntry  BY <1>10, EntryType DEF IInv
<1>15. Proposal' = [Proposal EXCEPT ![i] = Register!NoEntry]
  BY <1>10, <1>11, Domains
<1>16. Log' = [Log EXCEPT ![i] = Append(Log[i], Proposal[i])]
  BY <1>10, <1>11, <1>12, Domains
<1> QED  BY <1>13, <1>14, <1>15, <1>16 DEF Register!Confirm

LEMMA InitIsInit == Init => Register!Init
<1> SUFFICES ASSUME Init PROVE Register!Init
  OBVIOUS
<1>1. \A c \in Candidate : candidates[c].status = "NONE"  BY DEF Init, NoRow
<1>2. \A i : Of(i) = {} /\ Latest(i) = 0  BY DEF Init, Of, Latest
<1>3. Proposal = [i \in Identity |-> Register!NoEntry]
  BY <1>1 DEF Proposal, Register!NoEntry
<1>4. Log = [i \in Identity |-> <<>>]
  <2>1. \A i \in Identity : Len(Log[i]) = 0 /\ Log[i] \in Seq(Register!Entry)
    BY <1>2, InitInv, Shown DEF Shows, ShowsLog
  <2>2. \A i \in Identity : Log[i] = <<>>  BY <2>1, EmptySeq
  <2> QED  BY <2>2, Domains
<1>5. Spent = {}  BY <1>1 DEF Spent, Resolved
<1> QED  BY <1>3, <1>4, <1>5 DEF Register!Init

LEMMA NextIsStep ==
  ASSUME IInv, IInv', [Next]_vars
  PROVE  [Register!Next]_<<Proposal, Log, Spent>>
<1>1. ASSUME NEW x \in Call, ProposeWrites(x)  PROVE Register!Next
  BY <1>1, CommitProposes DEF Register!Next
<1>2. ASSUME NEW x \in Call, ConfirmWrites(x)  PROVE Register!Next
  BY <1>2, CommitConfirms DEF Register!Next
<1>3. ASSUME NEW x \in Call, Cancel(x)  PROVE Register!Next
  <2>1. \E S \in SUBSET Identity : Register!Withdraw(S)
    BY <1>3, CancelCommits, CommitWithdraws DEF IInv
  <2> QED  BY <2>1 DEF Register!Next
<1>4. ASSUME NEW x \in Call, DeleteWrites(x)  PROVE Register!Next
  <2>1. \E S \in SUBSET Identity : Register!Withdraw(S)
    BY <1>4, DeleteCommits, CommitWithdraws DEF IInv
  <2> QED  BY <2>1 DEF Register!Next
<1>5. ASSUME UNCHANGED <<candidates, versions>>
      PROVE  UNCHANGED <<Proposal, Log, Spent>>
  BY <1>5, Invisible
<1>6. ASSUME NEW x \in Call, NewCall(x)  PROVE UNCHANGED <<candidates, versions>>
  BY <1>6 DEF NewCall, CallPropose, CallConfirm, CallCancel, CallDelete, Begin, db
<1>7. ASSUME NEW x \in Call, Step(x)
      PROVE  [Register!Next]_<<Proposal, Log, Spent>>
  <2>1. CASE \/ TakeLock(x) \/ ThreadGone(x) \/ ProposeReads(x) \/ ProposeRefused(x)
             \/ ConfirmReplayed(x) \/ ConfirmRefused(x) \/ ConfirmReads(x) \/ ConfirmClashes(x)
             \/ CancelUnchanged(x) \/ DeleteReads(x)
    <3>1. UNCHANGED <<candidates, versions>>
      BY <2>1 DEF TakeLock, ThreadGone, ProposeReads, ProposeRefused, ConfirmReplayed,
         ConfirmRefused, ConfirmReads, ConfirmClashes, CancelUnchanged, DeleteReads, db
    <3> QED  BY <1>5, <3>1
  <2> QED  BY <1>1, <1>2, <1>3, <1>4, <1>7, <2>1 DEF Step
<1>8. ASSUME NEW x \in Call, Crash(x)  PROVE UNCHANGED <<candidates, versions>>
  BY <1>8 DEF Crash, db
<1>9. CASE Tick \/ UNCHANGED vars
  <2>1. UNCHANGED <<candidates, versions>>  BY <1>9 DEF Tick, vars, db
  <2> QED  BY <1>5, <2>1
<1> QED  BY <1>5, <1>6, <1>7, <1>8, <1>9 DEF Next

\* Whatever the transactions of several conversations do to one another, every
\* behaviour of the code's rows is one of the register: a proposal takes the place of the
\* one before it, only its own confirmation appends it to the log, each draft is proposed
\* once, and no lock, clock or revision shows.
THEOREM StrategyIsARegister == Spec => ImplementsRegister
<1>1. Init => Register!Init  BY InitIsInit
<1>2. IInv /\ IInv' /\ [Next]_vars => [Register!Next]_<<Proposal, Log, Spent>>
  BY NextIsStep
<1> QED  BY <1>1, <1>2, Invariance, PTL DEF Spec, ImplementsRegister, Register!Spec

=============================================================================
