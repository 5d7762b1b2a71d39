---------------------------- MODULE MCSettlement -----------------------------
(* Two vaults of one user on the same oToken.                               *)
EXTENDS Settlement

MCSeriesOf == [p \in Positions |-> "weekly"]
=============================================================================
