----------------------------- MODULE LedgerReads -----------------------------
(***************************************************************************)
(* A read of the ledger next to the writes of PortfolioLedger.  Reading    *)
(* takes no lock: get_replay_snapshot selects the seven tables one after   *)
(* the other, and at READ COMMITTED each statement sees what is committed  *)
(* when it runs.                                                           *)
(***************************************************************************)
EXTENDS PortfolioLedger, Sequences

VARIABLES
  next,     \* the next table to read; 0 before the first read
  seen,     \* the tables as read so far
  witnessed \* history: the ledgers stored since the read began

reader == <<next, seen, witnessed>>

\* In the order of the statements.
Tables ==
  <<"transactions", "cashEvents", "opening", "reconciliations", "allocations", "changes",
    "corrections">>

Done == next = Len(Tables) + 1

BeginRead ==
  /\ next = 0 \/ Done
  /\ next' = 1
  /\ seen' = NoFacts
  /\ witnessed' = {ledger}
  /\ UNCHANGED vars

ReadTable ==
  /\ next \in DOMAIN Tables
  /\ seen' = [seen EXCEPT ![Tables[next]] = ledger[Tables[next]]]
  /\ next' = next + 1
  /\ UNCHANGED <<vars, witnessed>>

\* A write of PortfolioLedger commits.
WriteMeanwhile ==
  /\ Next
  /\ witnessed' = IF next \in DOMAIN Tables THEN witnessed \cup {ledger'} ELSE witnessed
  /\ UNCHANGED <<next, seen>>

ReadInit == Init /\ next = 0 /\ seen = NoFacts /\ witnessed = {}

ReadNext == BeginRead \/ ReadTable \/ WriteMeanwhile

ReadSpec == ReadInit /\ [][ReadNext]_<<vars, reader>>

-----------------------------------------------------------------------------

\* get_replay's docstring: what is read is one batch of facts, the ledger as it was at
\* some time during the read.
ReadsAreSnapshots == Done => Replay(seen) \in {Replay(l) : l \in witnessed}

=============================================================================
