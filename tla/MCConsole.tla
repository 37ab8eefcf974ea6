---------------------------- MODULE MCConsole ----------------------------
(* A small console: two positions of unlike names, two SKUs of which one is  *)
(* never priced by a position.                                             *)
EXTENDS Console

CONSTANTS a, b, x, y, H100, B200

MCPOS == {a, b}
MCNAME == {x, y}
MCNameOf == (a :> x) @@ (b :> y)
MCSKU == {H100, B200}
MCREPORT == {[sku |-> H100, spot |-> 1], [sku |-> B200, spot |-> 0]}
MCPRICE == {0}

(* What bounds the instance: only one of the positions changes its SKU.    *)
OneKeepsSku == positions[b] # None => positions[b].sku = H100
=============================================================================
