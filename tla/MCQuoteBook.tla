---------------------------- MODULE MCQuoteBook ----------------------------
(* Operator quotes "o" (eth) and "b" (btc), a market maker's "m" and, to   *)
(* replace it, "n" (eth).                                                   *)
EXTENDS QuoteBook

MCMakerOf == [q \in Quotes |-> IF q \in {"m", "n"} THEN "maker" ELSE "operator"]
MCOptionOf == [q \in Quotes |-> IF q = "b" THEN <<"btc", "put">> ELSE <<"eth", "put">>]
=============================================================================
