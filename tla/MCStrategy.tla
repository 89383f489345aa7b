----------------------------- MODULE MCStrategy -----------------------------
(* Instances of Strategy for TLC.                                          *)
EXTENDS StrategyRefinement, TLC

\* Threads, scopes, drafts, request ids and transactions are interchangeable.
Symmetry ==
  Permutations(Thread) \cup Permutations(Identity) \cup Permutations(Candidate)
    \cup Permutations(Request) \cup Permutations(Call)
=============================================================================
