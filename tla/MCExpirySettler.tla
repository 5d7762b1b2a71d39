--------------------------- MODULE MCExpirySettler ---------------------------
(* Instances of the expiry settler: two oTokens, the second for vault 3.    *)
EXTENDS ExpirySettler

MCSeriesOf == [p \in Positions |-> IF p < 3 THEN "weekly" ELSE "monthly"]
=============================================================================
