---------------------------- MODULE MCPortfolioApi ----------------------------
(* PortfolioApi with two emails and two requests, either of which may stand *)
(* for the other.                                                           *)
EXTENDS PortfolioApi, TLC

Symmetry == Permutations(Email) \cup Permutations(Request)

=============================================================================
