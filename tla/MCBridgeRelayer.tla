--------------------------- MODULE MCBridgeRelayer ---------------------------
(* Instances of the relayer.  Each behaviour has a small number of clients:  *)
(* asked are the jobs that they ever ask or burn for, one of the Demands.    *)
EXTENDS BridgeRelayer

CONSTANT Demands

VARIABLE asked

MCUserOf == [j \in Jobs |-> "user"]

BridgeInit == Init /\ asked \in Demands

BridgeNext ==
    /\ Next
    /\ \A j \in Jobs \ asked : UNCHANGED <<job[j], intent[j], burn[j]>>
    /\ UNCHANGED asked

BridgeSpec == BridgeInit /\ [][BridgeNext]_<<vars, asked>> /\ Fairness
=============================================================================
