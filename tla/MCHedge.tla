------------------------------- MODULE MCHedge --------------------------------
(* Small and boundary inputs for Hedge: both clamps, both sides of one half,
   a price of zero and a negative one, a hedge price that makes no target.     *)
EXTENDS Hedge

MCGPUCounts == {1, 2, 8}
MCUtilizations == {-5, 0, 14, 49, 50, 99, 100, 130}
MCPrices == {-100, 0, 250, 300}
===============================================================================
