--------------------------- MODULE MCPortfolioViews ---------------------------
(* Instances of PortfolioViews for TLC. *)
EXTENDS PortfolioViews, TLC

Symmetry == Permutations(Ticker)

=============================================================================
