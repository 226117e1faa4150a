-------------------------- MODULE MCPortfolioRebalance --------------------------
(*******************************************************************************)
(* An instance of PortfolioRebalance: two symbols.                             *)
(*******************************************************************************)
EXTENDS PortfolioRebalance
=================================================================================
