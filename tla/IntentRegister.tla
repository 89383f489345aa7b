--------------------------- MODULE IntentRegister ---------------------------
(***************************************************************************)
(* What the strategy component promises its user.  For every scope there   *)
(* is a register: the log of the intents the user confirmed, the last of   *)
(* which is in force, and at most one proposal.  The assistant may put a   *)
(* draft there in place of the one before, anyone may withdraw it, but     *)
(* only a confirmation of that very draft extends the log, and a draft is  *)
(* proposed once in its life.  There are no locks, clocks or revisions.    *)
(***************************************************************************)
EXTENDS Sequences

CONSTANTS
  Scope,  \* what an intent can be about
  Draft,  \* drafts the assistant may write
  Nothing \* no draft

VARIABLES
  proposal, \* the draft that awaits the user, per scope
  log,      \* the drafts the user confirmed, per scope
  spent     \* the drafts that were confirmed, withdrawn or replaced

Operation == {"UPSERT", "INVALIDATE"}
Entry == [draft : Draft, operation : Operation]
NoEntry == [draft |-> Nothing, operation |-> "UPSERT"]

InForce(s) == log[s] # <<>> /\ log[s][Len(log[s])].operation = "UPSERT"

Drafts(s) == {proposal[s].draft} \ {Nothing}

Init ==
  /\ proposal = [s \in Scope |-> NoEntry]
  /\ log = [s \in Scope |-> <<>>]
  /\ spent = {}

\* A draft no one has seen before takes the place of the present one.
Propose(s, e) ==
  /\ e.draft \notin spent /\ \A z \in Scope : e.draft # proposal[z].draft
  /\ e.operation = "INVALIDATE" => InForce(s)
  /\ proposal' = [proposal EXCEPT ![s] = e]
  /\ spent' = spent \cup Drafts(s)
  /\ UNCHANGED log

\* Cancelled by the user, or gone with the conversation it came from.
Withdraw(S) ==
  /\ proposal' = [s \in Scope |-> IF s \in S THEN NoEntry ELSE proposal[s]]
  /\ spent' = spent \cup UNION {Drafts(s) : s \in S}
  /\ UNCHANGED log

Confirm(s) ==
  /\ proposal[s] # NoEntry
  /\ log' = [log EXCEPT ![s] = Append(@, proposal[s])]
  /\ proposal' = [proposal EXCEPT ![s] = NoEntry]
  /\ spent' = spent \cup Drafts(s)

Next ==
  \/ \E s \in Scope, e \in Entry : Propose(s, e)
  \/ \E S \in SUBSET Scope : Withdraw(S)
  \/ \E s \in Scope : Confirm(s)

Spec == Init /\ [][Next]_<<proposal, log, spent>>
=============================================================================
