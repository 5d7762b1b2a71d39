------------------------------- MODULE Process -------------------------------
(***************************************************************************)
(* What the bots of the process have in common: calls to the database, the *)
(* chains and other services fail, and the process dies and is restarted.  *)
(***************************************************************************)
EXTENDS Naturals, Sequences, FiniteSets, FiniteSetsExt

CONSTANTS
    None,
    MaxFaults,      \* bound: failing calls
    MaxRestarts     \* bound: crashes or redeploys

ASSUME ProcessAssumption == MaxFaults \in Nat /\ MaxRestarts \in Nat

VARIABLES faults, restarts

ProcessTypeOK == faults \in 0..MaxFaults /\ restarts \in 0..MaxRestarts

ProcessInit == faults = 0 /\ restarts = 0

Fault == faults < MaxFaults /\ faults' = faults + 1

NoFault == UNCHANGED faults

Restart == restarts < MaxRestarts /\ restarts' = restarts + 1
=============================================================================
