---------------------------- MODULE SolanaSettler ----------------------------
(***************************************************************************)
(* The Solana expiry settler (bots/solana_expiry_settler.py).  A cycle     *)
(* reads the due rows of order_events, has the expiry prices set           *)
(* (phase 0), settles vaults one by one (phase 1), and delivers what is in *)
(* the money with a swap (phase 2).  It runs in threads of one task, so    *)
(* every call is a step.                                                   *)
(*                                                                         *)
(* A transaction is confirmed, refused, or its confirmation times out: it  *)
(* may then land at any later time.                                        *)
(***************************************************************************)
EXTENDS Process

CONSTANTS
    SolanaPositions,
    OTokens,        \* oToken mints
    OTokenOf,       \* position -> its oToken
    Puts            \* oTokens that are puts

ASSUME SolanaAssumption ==
    /\ IsFiniteSet(SolanaPositions)
    /\ OTokenOf \in [SolanaPositions -> OTokens]
    /\ Puts \subseteq OTokens
    /\ None \notin BOOLEAN /\ None \notin {"below", "above", "unread"}

VARIABLES
    orders,         \* order_events: the row of each position, None before it is indexed
    chain,          \* accounts of the oracle, controller and settler programs
    inflight,       \* transactions sent and not confirmed, which may still land
    stage,          \* of settle_once
    todo,           \* positions (phases 1 and 2), or oTokens (phase 0), still to go
    positions, recovery,    \* results of the two queries
    settled,        \* positions phase 1 settled, and those to recover
    itm, prices,    \* results of _identify_itm_positions
    current,        \* the oToken or position at hand
    doubts          \* history: outcomes of a position that were not recorded

settlerVars == <<stage, todo, positions, recovery, settled, itm, prices, current>>
solanaVars == <<orders, chain, inflight, settlerVars, doubts, faults, restarts>>

Prices == {"below", "above"}      \* the expiry price relative to the strike
Transactions ==
    ({"oracle"} \X OTokens \X Prices) \union ({"controller"} \X OTokens)
        \union ({"settle", "redeem"} \X SolanaPositions)

OrderRow ==
    [complete : BOOLEAN, settled : BOOLEAN, itm : BOOLEAN \union {None},
     type : {None, "cash", "physical", "physical_failed"}, delivered : BOOLEAN]

ASSUME NoRowAssumption == None \notin OrderRow

NewRow == [complete |-> TRUE, settled |-> FALSE, itm |-> None, type |-> None,
           delivered |-> FALSE]

SolanaTypeOK ==
    /\ orders \in [SolanaPositions -> OrderRow \union {None}]
    /\ chain \in [oracle : [OTokens -> Prices \union {None}], controller : SUBSET OTokens,
                  settled : SUBSET SolanaPositions, deliveries : [SolanaPositions -> Nat]]
    /\ inflight \subseteq Transactions
    /\ stage \in {"idle", "oracle", "controller", "retry", "settle", "mark",
                  "identify", "redeem", "record"}
    /\ todo \subseteq (SolanaPositions \union OTokens)
    /\ positions \subseteq SolanaPositions /\ recovery \subseteq SolanaPositions
    /\ settled \subseteq SolanaPositions /\ itm \subseteq SolanaPositions
    /\ prices \in [OTokens -> Prices \union {None, "unread"}]
    /\ current \in SolanaPositions \union OTokens \union {None}
    /\ doubts \in [SolanaPositions -> Nat]
    /\ ProcessTypeOK

Unread == [t \in OTokens |-> "unread"]

\* Every oToken has expired; its rows may be indexed before or after that.
SolanaInit ==
    /\ orders = [p \in SolanaPositions |-> None]
    /\ chain = [oracle |-> [t \in OTokens |-> None], controller |-> {}, settled |-> {},
                deliveries |-> [p \in SolanaPositions |-> 0]]
    /\ inflight = {} /\ stage = "idle" /\ todo = {} /\ positions = {} /\ recovery = {}
    /\ settled = {} /\ itm = {} /\ prices = Unread /\ current = None
    /\ doubts = [p \in SolanaPositions |-> 0]

\* The price at which p is in the money.
InTheMoney(p, price) == price = IF OTokenOf[p] \in Puts THEN "below" ELSE "above"
-----------------------------------------------------------------------------
(* The chain, and sending to it. *)

\* External: do the programs accept tx?
Applies(tx) ==
    CASE tx[1] = "oracle"     -> chain.oracle[tx[2]] = None
      [] tx[1] = "controller" -> chain.oracle[tx[2]] # None /\ tx[2] \notin chain.controller
      [] tx[1] = "settle"     -> OTokenOf[tx[2]] \in chain.controller
                                     /\ tx[2] \notin chain.settled
      [] tx[1] = "redeem"     -> tx[2] \in chain.settled
                                     /\ InTheMoney(tx[2], chain.oracle[OTokenOf[tx[2]]])

\* External: the accounts after tx.
Effect(tx) ==
    CASE tx[1] = "oracle"     -> [chain EXCEPT !.oracle[tx[2]] = tx[3]]
      [] tx[1] = "controller" -> [chain EXCEPT !.controller = @ \union {tx[2]}]
      [] tx[1] = "settle"     -> [chain EXCEPT !.settled = @ \union {tx[2]}]
      [] tx[1] = "redeem"     -> [chain EXCEPT !.deliveries[tx[2]] = @ + 1]

\* External: a transaction whose confirmation timed out lands after all.
Land(tx) ==
    /\ tx \in inflight /\ Applies(tx)
    /\ chain' = Effect(tx)
    /\ inflight' = inflight \ {tx}
    /\ UNCHANGED <<orders, settlerVars, doubts, faults, restarts>>

Confirmed(tx) == Applies(tx) /\ chain' = Effect(tx) /\ UNCHANGED inflight /\ NoFault

\* Refused by a program, lost before it was sent, or not confirmed in time.
Refused(tx) ==
    /\ UNCHANGED <<chain, inflight>>
    /\ \/ ~Applies(tx) /\ NoFault
       \/ Fault

TimedOut(tx) == inflight' = inflight \union {tx} /\ UNCHANGED chain /\ Fault

Goto(next, rest) == stage' = next /\ todo' = rest

\* A cycle is over; its locals are forgotten (and are, once they are not needed).
CycleEnds ==
    /\ Goto("idle", {})
    /\ positions' = {} /\ recovery' = {} /\ settled' = {} /\ itm' = {}
    /\ prices' = Unread /\ current' = None

\* Columns of the row of p are set; an update of no row changes nothing.
Mark(p, fields) == orders' = [orders EXCEPT ![p] = fields]
-----------------------------------------------------------------------------
(* settle_once *)

Complete(p) == orders[p] # None /\ orders[p].complete

\* get_expired_unsettled_solana
Unsettled == {p \in SolanaPositions : Complete(p) /\ ~orders[p].settled}

\* Faulty variant: delivery_tx_hash is not looked at.
SettledItm ==
    {p \in SolanaPositions : Complete(p) /\ orders[p].settled /\ orders[p].itm # FALSE}

\* Faulty variant: only deliveries that failed are taken up again.
FailedItm ==
    {p \in SolanaPositions : Complete(p) /\ orders[p].settled /\ ~orders[p].delivered
                                /\ orders[p].type = "physical_failed"}

\* get_pending_phase2_solana
PendingPhase2 ==
    {p \in SolanaPositions : Complete(p) /\ orders[p].settled
                                /\ ~orders[p].delivered /\ orders[p].itm # FALSE}

StartSolanaCycle ==
    /\ stage = "idle" /\ Unsettled \union PendingPhase2 # {}
    /\ positions' = Unsettled /\ recovery' = PendingPhase2
    /\ IF Unsettled # {} THEN Goto("oracle", {OTokenOf[p] : p \in Unsettled})
       ELSE Goto("settle", {})
    /\ UNCHANGED <<orders, chain, inflight, settled, itm, prices, current, doubts, faults,
                   restarts>>

\* A read, an account creation or a mark outside every try raises: the cycle
\* ends and the next one starts over.
RaiseSolana ==
    /\ stage \notin {"idle", "mark", "record"} /\ Fault
    /\ CycleEnds
    /\ UNCHANGED <<orders, chain, inflight, doubts, restarts>>
-----------------------------------------------------------------------------
(* Phase 0: _ensure_expiry_prices_set *)

\* _ensure_fresh_pyth_price_update: no price, no update that is fresh, and none
\* that could be posted.
NoPriceUpdate == UNCHANGED <<chain, inflight>> /\ Fault

\* The oracle's price of one oToken.  A controller price that is there, or no
\* oracle price after the attempt, ends the treatment of this oToken.
EnsureOraclePrice(t) ==
    /\ stage = "oracle" /\ t \in todo
    /\ \/ /\ t \in chain.controller
          /\ Goto("oracle", todo \ {t})
          /\ UNCHANGED <<chain, inflight, current, faults>>
       \/ /\ t \notin chain.controller /\ chain.oracle[t] # None
          /\ Goto("controller", todo \ {t}) /\ current' = t
          /\ UNCHANGED <<chain, inflight, faults>>
       \/ /\ t \notin chain.controller /\ chain.oracle[t] = None
          /\ \E price \in Prices :
               LET tx == <<"oracle", t, price>> IN
               \/ Confirmed(tx) /\ Goto("controller", todo \ {t}) /\ current' = t
               \/ /\ NoPriceUpdate \/ Refused(tx) \/ TimedOut(tx)
                  /\ Goto("oracle", todo \ {t}) /\ UNCHANGED current
    /\ UNCHANGED <<orders, positions, recovery, settled, itm, prices, doubts, restarts>>

\* set_expiry_price: the controller copies the oracle's price; errors are logged.
CopyPrice(t) ==
    LET tx == <<"controller", t>> IN Confirmed(tx) \/ Refused(tx) \/ TimedOut(tx)

SetControllerPrice ==
    /\ stage = "controller"
    /\ CopyPrice(current)
    /\ Goto("oracle", todo) /\ current' = None
    /\ UNCHANGED <<orders, positions, recovery, settled, itm, prices, doubts, restarts>>

BeginRetryPrices ==
    /\ stage = "oracle" /\ todo = {}
    /\ Goto("retry", {OTokenOf[p] : p \in positions})
    /\ UNCHANGED <<orders, chain, inflight, positions, recovery, settled, itm, prices,
                   current, doubts, faults, restarts>>

\* _retry_missing_controller_expiry_prices
RetryPrice(t) ==
    /\ stage = "retry" /\ t \in todo
    /\ IF t \notin chain.controller /\ chain.oracle[t] # None THEN CopyPrice(t)
       ELSE UNCHANGED <<chain, inflight, faults>>
    /\ Goto("retry", todo \ {t})
    /\ UNCHANGED <<orders, positions, recovery, settled, itm, prices, current, doubts,
                   restarts>>

BeginSettle ==
    /\ stage = "retry" /\ todo = {}
    /\ Goto("settle", positions) /\ positions' = {}
    /\ UNCHANGED <<orders, chain, inflight, recovery, settled, itm, prices, current, doubts,
                   faults, restarts>>
-----------------------------------------------------------------------------
(* Phase 1: _settle_vaults *)

MarkSettled(p) == Mark(p, [orders[p] EXCEPT !.settled = TRUE, !.type = "cash"])

\* Already settled on chain: reconciled (a failing mark raises, see RaiseSolana).
ReconcileVault(p) ==
    /\ p \in chain.settled
    /\ MarkSettled(p) /\ settled' = settled \union {p} /\ Goto("settle", todo \ {p})
    /\ UNCHANGED <<chain, inflight, current, faults>>

\* Settled now, and to be marked; or skipped: no vault account, no price yet,
\* or the transaction failed.
SettleVault(p) ==
    LET tx == <<"settle", p>> IN
    /\ p \notin chain.settled
    /\ \/ /\ Confirmed(tx)
          /\ settled' = settled \union {p} /\ Goto("mark", todo \ {p}) /\ current' = p
       \/ /\ Refused(tx) \/ TimedOut(tx)
          /\ Goto("settle", todo \ {p}) /\ UNCHANGED <<settled, current>>
    /\ UNCHANGED orders

Phase1(p) ==
    /\ stage = "settle" /\ p \in todo
    /\ ReconcileVault(p) \/ SettleVault(p)
    /\ UNCHANGED <<positions, recovery, itm, prices, doubts, restarts>>

\* Marked, unless the mark fails, which is only logged.
MarkVault ==
    /\ stage = "mark"
    /\ \/ MarkSettled(current) /\ UNCHANGED doubts /\ NoFault
       \/ /\ doubts' = [doubts EXCEPT ![current] = @ + 1]
          /\ UNCHANGED orders /\ Fault
    /\ Goto("settle", todo) /\ current' = None
    /\ UNCHANGED <<chain, inflight, positions, recovery, settled, itm, prices, restarts>>

\* Recovered positions join the settled ones; ten seconds later phase 2 begins.
EndPhase1Solana ==
    /\ stage = "settle" /\ todo = {}
    /\ LET toClassify == settled \union recovery IN
       Goto(IF toClassify = {} THEN "idle" ELSE "identify", toClassify)
    /\ settled' = {} /\ recovery' = {}
    /\ UNCHANGED <<orders, chain, inflight, positions, itm, prices, current, doubts, faults,
                   restarts>>
-----------------------------------------------------------------------------
(* Phase 2: _identify_itm_positions, _redeem_itm_positions *)

\* The controller's price, which is a copy of the oracle's, or the oracle's;
\* read once per cycle and oToken - or not there, on a node that lags behind.
PriceRead(t, price) ==
    /\ prices' = [prices EXCEPT ![t] = price]
    /\ \/ price = prices[t] /\ NoFault
       \/ prices[t] = "unread" /\ price = chain.oracle[t] /\ NoFault
       \/ prices[t] = "unread" /\ price = None /\ Fault

\* In the money: to be redeemed.  Out of the money: marked.  No price: skipped.
Classify(p, price) ==
    \/ price = None /\ UNCHANGED <<orders, itm>>
    \/ price # None /\ InTheMoney(p, price) /\ itm' = itm \union {p} /\ UNCHANGED orders
    \/ /\ price # None /\ ~InTheMoney(p, price)
       /\ Mark(p, [orders[p] EXCEPT !.itm = FALSE]) /\ UNCHANGED itm

IdentifyItm(p) ==
    /\ stage = "identify" /\ p \in todo
    /\ \E price \in Prices \union {None} :
         PriceRead(OTokenOf[p], price) /\ Classify(p, price)
    /\ Goto("identify", todo \ {p})
    /\ UNCHANGED <<chain, inflight, positions, recovery, settled, current, doubts, restarts>>

BeginRedeem ==
    /\ stage = "identify" /\ todo = {}
    /\ Goto(IF itm = {} THEN "idle" ELSE "redeem", itm)
    /\ itm' = {} /\ prices' = Unread
    /\ UNCHANGED <<orders, chain, inflight, positions, recovery, settled, current, doubts,
                   faults, restarts>>

MarkItmFailed(p) == Mark(p, [orders[p] EXCEPT !.type = "physical_failed", !.itm = TRUE])

\* Nothing to send: no quote, one below what is owed, or an account missing.
NothingToSend == UNCHANGED <<chain, inflight>> /\ Fault

Doubt(p) == doubts' = [doubts EXCEPT ![p] = @ + 1]

\* The mark of p: made, or it raises out of the cycle.
MarkFailedOrRaise(p) ==
    \/ MarkItmFailed(p) /\ Goto("redeem", todo \ {p})
       /\ UNCHANGED <<positions, recovery, settled, itm, prices, current>>
    \/ UNCHANGED orders /\ CycleEnds

\* The swap is quoted, built and sent: confirmed, or the position is marked as
\* failed (a mark that raises where nothing was sent is a RaiseSolana).
RedeemItm(p) ==
    LET tx == <<"redeem", p>> IN
    /\ stage = "redeem" /\ p \in todo
    /\ \/ /\ Confirmed(tx) /\ Goto("record", todo \ {p}) /\ current' = p
          /\ UNCHANGED <<orders, doubts, positions, recovery, settled, itm, prices>>
       \/ /\ NothingToSend \/ Refused(tx)
          /\ MarkItmFailed(p) /\ Goto("redeem", todo \ {p})
          /\ UNCHANGED <<doubts, positions, recovery, settled, itm, prices, current>>
       \/ TimedOut(tx) /\ MarkFailedOrRaise(p) /\ Doubt(p)
    /\ UNCHANGED restarts

MarkItmRedeemed(p) ==
    Mark(p, [orders[p] EXCEPT !.type = "physical", !.itm = TRUE, !.delivered = TRUE])

\* In the try of the delivery: both marks work, or one of them raises and the
\* position is marked as failed - with its delivery hash, if only the second
\* did -, or not even that, and the cycle ends.
RecordDelivery ==
    LET p == current IN
    /\ stage = "record"
    /\ \/ /\ \/ MarkItmRedeemed(p) /\ UNCHANGED doubts /\ NoFault
             \/ Mark(p, [orders[p] EXCEPT !.type = "physical_failed", !.itm = TRUE,
                                          !.delivered = TRUE]) /\ UNCHANGED doubts /\ Fault
             \/ MarkItmFailed(p) /\ Doubt(p) /\ Fault
          /\ Goto("redeem", todo) /\ current' = None
          /\ UNCHANGED <<positions, recovery, settled, itm, prices>>
       \/ UNCHANGED orders /\ Doubt(p) /\ Fault /\ CycleEnds
    /\ UNCHANGED <<chain, inflight, restarts>>

EndSolanaCycle ==
    /\ stage = "redeem" /\ todo = {}
    /\ CycleEnds
    /\ UNCHANGED <<orders, chain, inflight, doubts, faults, restarts>>
-----------------------------------------------------------------------------
SolanaSettle ==
    \/ StartSolanaCycle \/ RaiseSolana
    \/ \E t \in OTokens : EnsureOraclePrice(t) \/ RetryPrice(t)
    \/ SetControllerPrice \/ BeginRetryPrices \/ BeginSettle \/ MarkVault
    \/ \E p \in SolanaPositions : Phase1(p) \/ IdentifyItm(p) \/ RedeemItm(p)
    \/ EndPhase1Solana \/ BeginRedeem \/ RecordDelivery \/ EndSolanaCycle

\* Positions whose delivery is on its way when the process dies.
Unrecorded == IF stage = "record" THEN {current} ELSE {}

\* The process dies, at worst with a delivery just sent.
SettlerDies(lost) ==
    /\ lost \subseteq (IF stage = "redeem" THEN todo ELSE {}) /\ Cardinality(lost) <= 1
    /\ inflight' = inflight \union {<<"redeem", p>> : p \in lost}
    /\ doubts' = [p \in SolanaPositions |->
                    IF p \in lost \union Unrecorded THEN doubts[p] + 1 ELSE doubts[p]]
    /\ CycleEnds
    /\ UNCHANGED <<orders, chain>>

LandAny == \E tx \in inflight : Land(tx)
-----------------------------------------------------------------------------
(* Properties. *)

\* The outcome of a position as the oracle's price decides it.
OracleOutcome ==
    [p \in SolanaPositions |->
        IF chain.oracle[OTokenOf[p]] = None THEN None
        ELSE InTheMoney(p, chain.oracle[OTokenOf[p]])]

\* What the rows say of their positions; a missing row says nothing.
RowsSay ==
    [p \in SolanaPositions |->
        IF orders[p] = None THEN [settled |-> FALSE, itm |-> None, delivered |-> FALSE]
        ELSE [settled |-> orders[p].settled, itm |-> orders[p].itm,
              delivered |-> orders[p].delivered]]

\* The promise of a settler, with the chain's outcome as the oracle's price
\* decides it: rows are never ahead of the chain, never contradict it, and
\* deliveries come after settlements in the money.
Promise == INSTANCE PositionSettlement WITH
    Position <- SolanaPositions, Waits <- TRUE,
    outcome <- OracleOutcome,
    settled <- chain.settled,
    delivered <- {p \in SolanaPositions : chain.deliveries[p] > 0},
    row <- RowsSay

SolanaKeepsPromise == Promise!Spec

\* A position is delivered a second time only after an outcome of it that the
\* settler could not record: a mark that failed, a delivery that timed out and
\* landed, a crash in between.
RedeliveryNeedsDoubt ==
    \A p \in SolanaPositions : chain.deliveries[p] <= 1 + doubts[p]

Resolved(p) ==
    /\ orders[p].settled
    /\ \/ orders[p].itm = FALSE
       \/ orders[p].itm = TRUE /\ orders[p].delivered
=============================================================================
