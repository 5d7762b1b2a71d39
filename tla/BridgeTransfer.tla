--------------------------- MODULE BridgeTransfer ---------------------------
(***************************************************************************)
(* What the bridge relayer promises for one CCTP transfer, without its     *)
(* queue, workers, attestation polling, retries, crashes or database.      *)
(*                                                                         *)
(* The chain decides when a burned amount is minted and when the follow-up *)
(* (the pre-signed trade, or the Arc vault's finalisation) is executed.    *)
(* The relayer only owns the verdict it publishes.  It may give up at any  *)
(* time, but it may announce success only for what the chain really did,   *)
(* and a success it announced is never taken back.                         *)
(***************************************************************************)

CONSTANTS
    Transfers,      \* the transfers the promise is made for
    NeedsFollowUp   \* those whose success includes a follow-up transaction

VARIABLES
    verdict,        \* verdict[t] \in {"none", "open", "succeeded", "failed"}
    minted,         \* minted[t]: USDC arrived on the destination chain
    executed        \* executed[t]: the follow-up transaction took effect

tvars == <<verdict, minted, executed>>

Verdicts == {"none", "open", "succeeded", "failed"}

TypeOK ==
    /\ verdict \in [Transfers -> Verdicts]
    /\ minted \in [Transfers -> BOOLEAN]
    /\ executed \in [Transfers -> BOOLEAN]

Init ==
    /\ verdict = [t \in Transfers |-> "none"]
    /\ minted = [t \in Transfers |-> FALSE]
    /\ executed = [t \in Transfers |-> FALSE]

Open(t) ==
    /\ verdict[t] = "none"
    /\ verdict' = [verdict EXCEPT ![t] = "open"]
    /\ UNCHANGED <<minted, executed>>

\* The relayer may have given up already: a transaction it sent can land late.
Mint(t) ==
    /\ verdict[t] # "none"
    /\ minted' = [minted EXCEPT ![t] = TRUE]
    /\ UNCHANGED <<verdict, executed>>

\* The follow-up is released only against minted funds.
Execute(t) ==
    /\ t \in NeedsFollowUp
    /\ minted[t]
    /\ executed' = [executed EXCEPT ![t] = TRUE]
    /\ UNCHANGED <<verdict, minted>>

Succeed(t) ==
    /\ verdict[t] = "open"
    /\ minted[t]
    /\ t \in NeedsFollowUp => executed[t]
    /\ verdict' = [verdict EXCEPT ![t] = "succeeded"]
    /\ UNCHANGED <<minted, executed>>

GiveUp(t) ==
    /\ verdict[t] = "open"
    /\ verdict' = [verdict EXCEPT ![t] = "failed"]
    /\ UNCHANGED <<minted, executed>>

Next ==
    \E t \in Transfers : Open(t) \/ Mint(t) \/ Execute(t) \/ Succeed(t) \/ GiveUp(t)

Spec == Init /\ [][Next]_tvars
=============================================================================
