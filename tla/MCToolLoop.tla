----------------------------- MODULE MCToolLoop -----------------------------
(* Instances of ToolLoop for TLC.                                          *)
EXTENDS ToolLoop

\* The quotas of the catalogue.
MCLimit == [quote |-> 2, market |-> 1]

\* The ticker that is asked for with both purposes; any other is asked for plainly.
First == CHOOSE t \in Ticker : TRUE

\* Every valid call but for that, and a malformed quote with the risk purpose.
MCAsked == {c \in Call : IF WellFormed(c) THEN c.risk => c.ticker = First ELSE c.risk}

\* A candidate that declares one source.
MCCandidateRefs == {{MarketKey}}
=============================================================================
