------------------------- MODULE StrategyRefinement -------------------------
(* Strategy implements IntentRegister: whatever the transactions of several  *)
(* conversations do to one another, a user sees one register per scope.      *)
EXTENDS Strategy

EntryOf(c) == [draft |-> c, operation |-> candidates[c].operation]

Proposal ==
  [i \in Identity |->
     IF \E c \in Candidate : candidates[c].status = "PENDING" /\ candidates[c].identity = i
     THEN EntryOf(CHOOSE c \in Candidate :
                    candidates[c].status = "PENDING" /\ candidates[c].identity = i)
     ELSE [draft |-> None, operation |-> "UPSERT"]]

Log ==
  [i \in Identity |->
     [n \in 1..Latest(i) |-> EntryOf((CHOOSE v \in Of(i) : v.number = n).candidate)]]

Spent == {c \in Candidate : candidates[c].status \in Resolved}

Register == INSTANCE IntentRegister
  WITH Scope <- Identity, Draft <- Candidate, Nothing <- None,
       proposal <- Proposal, log <- Log, spent <- Spent

\* Every behaviour of Strategy is one of IntentRegister: each commit is one of
\* its steps, or changes nothing it shows.
ImplementsRegister == Register!Spec
=============================================================================
