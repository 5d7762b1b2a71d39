------------------------------ MODULE TxSender -------------------------------
(***************************************************************************)
(* The Base transaction sender (contracts/web3_client.py).  Bots and       *)
(* handlers call build_and_send_tx from threads with one operator account; *)
(* each call picks a nonce and hands a transaction to the node under       *)
(* _nonce_lock, and waits for the receipt outside it.                      *)
(*                                                                         *)
(* A node's count of pending transactions may lag behind the pool: that is *)
(* what _local_nonce is for.                                               *)
(***************************************************************************)
EXTENDS Process

CONSTANTS
    Calls,          \* calls of build_and_send_tx
    MaxNonce,       \* bound: nonces of the account
    MaxAttempts     \* max_retries

ASSUME SenderAssumption ==
    MaxNonce \in Nat /\ MaxAttempts \in Nat \ {0} /\ None \notin Calls

VARIABLES
    call,           \* the local state of each call
    localNonce,     \* _local_nonce[account], lost with the process
    pool,           \* nonce -> the call whose transaction holds it, mined or not
    mined,          \* the chain: the account's next nonce
    receipt,        \* of the latest transaction of a call
    ran,            \* history: how often a call took effect on the chain
    dropped         \* history: did the pool ever drop a transaction?

senderVars == <<call, localNonce, pool, mined, receipt, ran, dropped>>
txVars == <<senderVars, faults, restarts>>

Nonces == 0..MaxNonce

CallState ==
    [at : {"idle", "send", "wait", "ok", "raised"}, nonce : Nonces,
     forced : BOOLEAN, attempt : 1..MaxAttempts, gas : {"estimate", "fallback"}]

TxTypeOK ==
    /\ call \in [Calls -> CallState]
    /\ localNonce \in 0..(MaxNonce + 1)
    /\ pool \in [Nonces -> Calls \union {None}]
    /\ mined \in 0..(MaxNonce + 1)
    /\ receipt \in [Calls -> {"none", "ok", "reverted"}]
    /\ ran \in [Calls -> Nat]
    /\ dropped \in BOOLEAN
    /\ ProcessTypeOK

NewCall(gas) == [at |-> "send", nonce |-> 0, forced |-> FALSE, attempt |-> 1, gas |-> gas]

TxInit ==
    /\ call = [c \in Calls |-> [NewCall("estimate") EXCEPT !.at = "idle"]]
    /\ localNonce = 0 /\ mined = 0
    /\ pool = [n \in Nonces |-> None]
    /\ receipt = [c \in Calls |-> "none"]
    /\ ran = [c \in Calls |-> 0]
    /\ dropped = FALSE
    /\ ProcessInit

Raise(c) == call' = [call EXCEPT ![c].at = "raised"]
-----------------------------------------------------------------------------
\* build_and_send_tx up to the first attempt: the estimate of the gas.
Estimate(c) ==
    /\ call[c].at = "idle"
    /\ \/ call' = [call EXCEPT ![c] = NewCall("estimate")] /\ NoFault
       \/ Raise(c) /\ Fault
    /\ UNCHANGED <<localNonce, pool, mined, receipt, ran, dropped, restarts>>

\* Nonces a node may report as the account's transaction count "pending".
PendingCounts ==
    {n \in mined..(MaxNonce + 1) : \A m \in mined..(n - 1) : pool[m] # None}

\* Faulty variant: the tracker is not consulted.
UntrackedNonce(c, count) == IF call[c].forced THEN call[c].nonce ELSE count

\* The nonce of the next attempt.
ChosenNonce(c, count) ==
    IF call[c].forced THEN call[c].nonce
    ELSE IF count > localNonce THEN count ELSE localNonce

\* The node takes the transaction, in place of one that pays less.
Accepted(c, n) ==
    /\ n >= mined
    /\ pool' = [pool EXCEPT ![n] = c]
    /\ receipt' = [receipt EXCEPT ![c] = "none"]
    /\ localNonce' = n + 1
    /\ call' = [call EXCEPT ![c].at = "wait", ![c].nonce = n]
    /\ NoFault

\* Faulty variant: no limit to the attempts.
UnderpricedAgain(c, n) ==
    /\ n >= mined /\ pool[n] # None
    /\ call' = [call EXCEPT ![c].nonce = n, ![c].forced = TRUE, ![c].attempt = @ + 1]
    /\ UNCHANGED <<localNonce, pool, receipt>> /\ NoFault

\* "replacement transaction underpriced": the lock is released, and the next
\* attempt pays more for the same nonce.
Underpriced(c, n) ==
    /\ n >= mined /\ pool[n] # None
    /\ IF call[c].attempt < MaxAttempts
       THEN call' = [call EXCEPT ![c].nonce = n, ![c].forced = TRUE, ![c].attempt = @ + 1]
       ELSE Raise(c)
    /\ UNCHANGED <<localNonce, pool, receipt>> /\ NoFault

\* Any other error raises: the nonce is used up, the transaction did not
\* arrive, or it did and the answer is lost.
SendFails(c, n) ==
    /\ Raise(c)
    /\ \/ n < mined /\ UNCHANGED <<pool, receipt>> /\ NoFault
       \/ UNCHANGED <<pool, receipt>> /\ Fault
       \/ /\ n >= mined /\ Fault
          /\ pool' = [pool EXCEPT ![n] = c]
          /\ receipt' = [receipt EXCEPT ![c] = "none"]
    /\ UNCHANGED localNonce

\* One attempt of _sign_send_and_confirm under the lock.
SendRaw(c) ==
    /\ call[c].at = "send"
    /\ \E count \in PendingCounts :
         LET n == ChosenNonce(c, count) IN
         /\ n <= MaxNonce
         /\ Accepted(c, n) \/ Underpriced(c, n) \/ SendFails(c, n)
    /\ UNCHANGED <<mined, ran, dropped, restarts>>

\* The receipt: success returns the hash; a revert is tried once more, from
\* the start, with the fallback gas limit.
Confirm(c) ==
    /\ call[c].at = "wait"
    /\ \/ /\ receipt[c] = "ok"
          /\ call' = [call EXCEPT ![c].at = "ok"] /\ NoFault
       \/ /\ receipt[c] = "reverted" /\ call[c].gas = "estimate"
          /\ \/ call' = [call EXCEPT ![c] = NewCall("fallback")] /\ NoFault
             \/ Raise(c) /\ Fault
       \/ /\ receipt[c] = "reverted" /\ call[c].gas = "fallback"
          /\ Raise(c) /\ NoFault
    /\ UNCHANGED <<localNonce, pool, mined, receipt, ran, dropped, restarts>>

\* Faulty variant: a receipt that does not come is treated like a revert.
TimeOutRetries(c) ==
    /\ call[c].at = "wait" /\ receipt[c] = "none"
    /\ call' = [call EXCEPT ![c] = NewCall("fallback")]
    /\ UNCHANGED <<localNonce, pool, mined, receipt, ran, dropped, faults, restarts>>

\* No receipt within tx_timeout: the call raises, its transaction stays.
TimeOut(c) ==
    /\ call[c].at = "wait" /\ receipt[c] = "none"
    /\ Raise(c)
    /\ UNCHANGED <<localNonce, pool, mined, receipt, ran, dropped, faults, restarts>>

\* The process dies: calls under way and the tracker are gone.
SenderCrash ==
    /\ Restart
    /\ call' = [c \in Calls |-> IF call[c].at \in {"send", "wait"}
                                THEN [call[c] EXCEPT !.at = "raised"] ELSE call[c]]
    /\ localNonce' = 0
    /\ UNCHANGED <<pool, mined, receipt, ran, dropped, faults>>
-----------------------------------------------------------------------------
\* External: the transaction with the account's next nonce is mined and takes
\* effect, or reverts.
MineNext(success) ==
    /\ mined <= MaxNonce /\ pool[mined] # None
    /\ LET c == pool[mined] IN
       /\ receipt' = [receipt EXCEPT ![c] = IF success THEN "ok" ELSE "reverted"]
       /\ ran' = [ran EXCEPT ![c] = IF success THEN @ + 1 ELSE @]
    /\ mined' = mined + 1
    /\ UNCHANGED <<call, localNonce, pool, dropped, faults, restarts>>

\* External: the pool drops a transaction.
DropPending(n) ==
    /\ n >= mined /\ pool[n] # None /\ Fault
    /\ pool' = [pool EXCEPT ![n] = None]
    /\ dropped' = TRUE
    /\ UNCHANGED <<call, localNonce, mined, receipt, ran, restarts>>

TxStep(c) == Estimate(c) \/ SendRaw(c) \/ Confirm(c) \/ TimeOut(c)

TxNext ==
    \/ \E c \in Calls : TxStep(c)
    \/ SenderCrash
    \/ \E success \in BOOLEAN : MineNext(success)
    \/ \E n \in Nonces : DropPending(n)

TxSpec == TxInit /\ [][TxNext]_txVars
-----------------------------------------------------------------------------
(* Properties. *)

\* A call takes effect at most once, and exactly once when it returns a hash:
\* whatever is retried, replaced, timed out or lost, nothing is paid twice.
TakesEffectOnce ==
    \A c \in Calls : ran[c] <= 1 /\ (call[c].at = "ok" => ran[c] = 1)

\* Nonces are used in order.  Concurrent callers do not take each other's,
\* however far the node's count lags ("uses a lock + local nonce tracker to
\* prevent nonce collisions"), until a send fails or the tracker is lost with
\* the process; and as long as the pool drops nothing, no failed send,
\* replacement, timeout or restart leaves a gap that would hold back every later
\* transaction.
NoncesInOrder ==
    /\ (faults = 0 /\ restarts = 0) =>
          \A c, d \in Calls :
              (call[c].at = "wait" /\ call[d].at = "wait" /\ c # d)
                  => call[c].nonce # call[d].nonce
    /\ ~dropped => \A n \in Nonces : n >= mined /\ pool[n] # None
                      => \A m \in mined..n : pool[m] # None
=============================================================================
