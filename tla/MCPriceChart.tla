------------------------------ MODULE MCPriceChart ------------------------------
(***************************************************************************)
(* Instances of PriceChart.                                                *)
(***************************************************************************)
EXTENDS PriceChart

\* Every position is of the first account's symbol.
OneSymbol == [p \in Positions |-> "XAUUSD"]
=============================================================================
