---------------------------- MODULE ExpirySettler ----------------------------
(***************************************************************************)
(* The Base expiry settler (bots/expiry_settler.py): cycles that reconcile *)
(* rows with the chain, set the oracle's expiry prices, settle vaults in   *)
(* batches (phase 1), deliver the in-the-money positions one by one        *)
(* (phase 2) and classify the others.                                      *)
(*                                                                         *)
(* A step is one call to a chain or to the database.  order_events rows    *)
(* and the chain survive a crash, the cycle's local sets do not.  Steps at *)
(* a pc of Awaiting run in a thread or after a sleep, so other tasks of    *)
(* the event loop run in between; the others hold the loop.                *)
(***************************************************************************)
EXTENDS Naturals, FiniteSets, FiniteSetsExt

CONSTANTS
    Positions,      \* vault ids of one user, with an order_events row each
    Series,         \* oTokens
    SeriesOf,       \* SeriesOf[p]: the oToken of position p
    None,           \* no transaction, no position
    BatchSize,      \* MAX_BATCH_SIZE
    MaxTries,       \* settings.settlement_max_retries
    MaxFaults,      \* bound: failed calls to the chain or the database
    MaxRestarts     \* bound: process crashes

ASSUME PositionsAssumption ==
    /\ IsFiniteSet(Positions)
    /\ Positions \subseteq Nat
    /\ SeriesOf \in [Positions -> Series]
    /\ None \notin Positions \union (Positions \X Nat)

ASSUME SettlerBoundsAssumption ==
    /\ BatchSize \in Nat \ {0}
    /\ MaxTries \in Nat \ {0}
    /\ MaxFaults \in Nat
    /\ MaxRestarts \in Nat

VARIABLES
    due,            \* positions whose row is stored and whose expiry has passed
    row,            \* order_events: is_settled, is_itm, settlement_type, delivery_tx_hash
    pc,
    check,          \* positions _reconcile_settled_on_chain has still to look at
    unsettled,      \* positions it found, or assumed, unsettled
    todo,           \* phase 1: positions no batch was sent for yet
    batch,          \* the batch under way
    ready,          \* settled_positions
    itm, otm,       \* the classified part of ready not yet delivered or marked
    cur, attempt,   \* the position being delivered and its attempt
    tx,             \* the delivery just confirmed
    price,          \* oracle: is the series' finalized expiry price in the money?
    vaultSettled,   \* controller
    delivered,      \* confirmed physicalRedeem transactions
    sentPrices, sentBatches, sentRedeems,   \* timed out, may still land
    faults, restarts

local == <<check, unsettled, todo, batch, ready, itm, otm, cur, attempt, tx>>
sent == <<sentPrices, sentBatches, sentRedeems>>
chain == <<price, vaultSettled, delivered, sent>>
settlerVars == <<due, row, pc, local, chain, faults, restarts>>
-----------------------------------------------------------------------------
Tx == Positions \X Nat

Row == [settled : BOOLEAN, itm : {"null", "yes", "no"},
        type : {"null", "cash", "physical", "physical_failed"},
        delivery : Tx \union {None}]

Awaiting == {"idle", "reconcile", "price", "identify", "deliver"}
Steps == Awaiting \union {"settle", "recheck", "mark", "record", "fail", "otm"}

TypeOK ==
    /\ due \subseteq Positions
    /\ row \in [Positions -> Row]
    /\ pc \in Steps
    /\ \A s \in {check, unsettled, todo, batch, ready, itm, otm, vaultSettled} :
          s \subseteq Positions
    /\ cur \in Positions \union {None}
    /\ attempt \in 1..MaxTries
    /\ tx \in Tx \union {None}
    /\ price \in [Series -> {"unset", "in", "out"}]
    /\ delivered \subseteq Tx /\ sentRedeems \subseteq Tx
    /\ sentPrices \subseteq Series
    /\ sentBatches \subseteq SUBSET Positions
    /\ faults \in 0..MaxFaults
    /\ restarts \in 0..MaxRestarts

SettlerInit ==
    /\ due = {}
    /\ row = [p \in Positions |-> [settled |-> FALSE, itm |-> "null",
                                   type |-> "null", delivery |-> None]]
    /\ pc = "idle"
    /\ check = {} /\ unsettled = {} /\ todo = {} /\ batch = {}
    /\ ready = {} /\ itm = {} /\ otm = {}
    /\ cur = None /\ attempt = 1 /\ tx = None
    /\ price = [s \in Series |-> "unset"]
    /\ vaultSettled = {} /\ delivered = {}
    /\ sentPrices = {} /\ sentBatches = {} /\ sentRedeems = {}
    /\ faults = 0 /\ restarts = 0
-----------------------------------------------------------------------------
Fault == faults < MaxFaults /\ faults' = faults + 1

\* _db_update; a call that raises may still have taken effect.
Update(p, r) ==
    \/ row' = [row EXCEPT ![p] = r] /\ UNCHANGED faults
    \/ Fault /\ (row' = [row EXCEPT ![p] = r] \/ UNCHANGED row)

\* get_expired_unsettled and get_pending_phase2
ExpiredUnsettled == {p \in due : ~row[p].settled}

\* Faulty variant: a recovery query that trusts Phase 1 to classify.
PendingPhase2IfItm ==
    {p \in due : /\ row[p].settled /\ row[p].delivery = None
                 /\ row[p].itm = "yes" /\ row[p].type \in {"null", "cash"}}

PendingPhase2 ==
    {p \in due : /\ row[p].settled /\ row[p].delivery = None
                 /\ row[p].itm # "no" /\ row[p].type \in {"null", "cash"}}

StartCycle ==
    /\ pc = "idle"
    /\ ExpiredUnsettled \union PendingPhase2 # {}
    /\ check' = ExpiredUnsettled
    /\ ready' = PendingPhase2
    /\ pc' = "reconcile"
    /\ UNCHANGED <<due, row, unsettled, todo, batch, itm, otm, cur, attempt, tx,
                   chain, faults, restarts>>

\* Faulty variant: a vault that cannot be read counts as settled.
UnreadMeansSettled(p) ==
    \/ /\ Fault /\ ready' = ready \union {p}
       /\ row' = [row EXCEPT ![p].settled = TRUE] /\ UNCHANGED unsettled
    \/ /\ p \notin vaultSettled
       /\ unsettled' = unsettled \union {p} /\ UNCHANGED <<row, ready, faults>>
    \/ /\ p \in vaultSettled
       /\ Update(p, [row[p] EXCEPT !.settled = TRUE])
       /\ ready' = ready \union {p} /\ UNCHANGED unsettled

\* One position of _reconcile_settled_on_chain: only is_settled is written.
ReconcileOne(p) ==
    \/ /\ (p \notin vaultSettled /\ UNCHANGED faults) \/ Fault
       /\ unsettled' = unsettled \union {p} /\ UNCHANGED <<row, ready>>
    \/ /\ p \in vaultSettled
       /\ Update(p, [row[p] EXCEPT !.settled = TRUE])
       /\ ready' = ready \union {p} /\ UNCHANGED unsettled

Reconcile(p) ==
    /\ pc \in {"reconcile", "recheck"} /\ p \in check
    /\ check' = check \ {p}
    /\ ReconcileOne(p)
    /\ UNCHANGED <<due, pc, todo, batch, itm, otm, cur, attempt, tx, chain, restarts>>

\* The reconcile pass decides what phase 1 has to settle.
EndReconcile ==
    /\ pc = "reconcile" /\ check = {}
    /\ todo' = unsettled /\ unsettled' = {}
    /\ pc' = "price"
    /\ UNCHANGED <<due, row, check, batch, ready, itm, otm, cur, attempt, tx,
                   chain, faults, restarts>>

\* _ensure_expiry_prices_set: some series are set, the calls for the others
\* fail, some of those with a transaction that may still land.
SetPrices ==
    /\ pc = "price"
    /\ LET wanted == {s \in {SeriesOf[p] : p \in todo \union ready} : price[s] = "unset"}
       IN  \E set \in SUBSET wanted :
           \E late \in SUBSET (wanted \ set), in \in SUBSET set :
             /\ price' = [s \in Series |-> IF s \notin set THEN price[s]
                                           ELSE IF s \in in THEN "in" ELSE "out"]
             /\ sentPrices' = (sentPrices \ set) \union late
             /\ IF set = wanted THEN UNCHANGED faults ELSE Fault
    /\ pc' = "settle"
    /\ UNCHANGED <<due, row, local, vaultSettled, delivered,
                   sentBatches, sentRedeems, restarts>>
-----------------------------------------------------------------------------
(* Phase 1 *)

\* batchSettleVaults reverts when one of its vaults is already settled.
Settleable(ps) == ps \intersect vaultSettled = {}

\* Faulty variant: after a failed batch its vaults go on to phase 2.
SettleBatchRegardless(ps) ==
    \/ /\ Settleable(ps) /\ vaultSettled' = vaultSettled \union ps
       /\ batch' = ps /\ pc' = "mark" /\ UNCHANGED <<check, ready, sentBatches, faults>>
    \/ /\ Fault /\ UNCHANGED <<vaultSettled, batch, check, sentBatches>>
       /\ ready' = ready \union ps /\ pc' = "settle"

\* The transaction is confirmed; refused; or it times out in flight.
SendBatch(ps) ==
    \/ /\ Settleable(ps) /\ vaultSettled' = vaultSettled \union ps
       /\ batch' = ps /\ pc' = "mark" /\ UNCHANGED <<check, ready, sentBatches, faults>>
    \/ /\ \/ ~Settleable(ps) /\ UNCHANGED <<sentBatches, faults>>
          \/ Fault /\ UNCHANGED sentBatches
          \/ Fault /\ Settleable(ps) /\ sentBatches' = sentBatches \union {ps}
       /\ check' = ps /\ pc' = "recheck" /\ UNCHANGED <<vaultSettled, batch, ready>>

SettleBatch ==
    /\ pc = "settle"
    /\ \E ps \in SUBSET todo :
          /\ Cardinality(ps) = Min({BatchSize, Cardinality(todo)}) /\ ps # {}
          /\ todo' = todo \ ps
          /\ SendBatch(ps)
    /\ UNCHANGED <<due, row, unsettled, itm, otm, cur, attempt, tx, price, delivered,
                   sentPrices, sentRedeems, restarts>>

\* A batch with a vault that is still unsettled ends the loop over batches.
EndRecheck ==
    /\ pc = "recheck" /\ check = {}
    /\ todo' = IF unsettled # {} THEN {} ELSE todo
    /\ unsettled' = {}
    /\ pc' = "settle"
    /\ UNCHANGED <<due, row, check, batch, ready, itm, otm, cur, attempt, tx,
                   chain, faults, restarts>>

\* One row of _mark_batch_settled; its failure does not stop phase 2.
MarkSettled(p) ==
    /\ pc = "mark" /\ p \in batch
    /\ Update(p, [row[p] EXCEPT !.settled = TRUE, !.type = "cash"])
    /\ batch' = batch \ {p}
    /\ ready' = ready \union {p}
    /\ pc' = IF batch' = {} THEN "settle" ELSE "mark"
    /\ UNCHANGED <<due, check, unsettled, todo, itm, otm, cur, attempt, tx, chain, restarts>>

EndPhase1 ==
    /\ pc = "settle" /\ todo = {}
    /\ pc' = IF ready = {} THEN "idle" ELSE "identify"
    /\ UNCHANGED <<due, row, local, chain, faults, restarts>>
-----------------------------------------------------------------------------
(* Phase 2 *)

InSeries(set, outcome) == {p \in set : price[SeriesOf[p]] = outcome}

\* Faulty variant: positions whose price could not be read count as OTM.
ClassifyUnreadAsOtm(unread) ==
    /\ itm' = InSeries(ready, "in") \ unread
    /\ otm' = (ready \ InSeries(ready, "in")) \union unread

\* identify_itm_positions; skipped positions are in neither set.
Classify(unread) ==
    /\ itm' = InSeries(ready, "in") \ unread
    /\ otm' = InSeries(ready, "out") \ unread

Identify ==
    /\ pc = "identify"
    /\ \E failed \in SUBSET {SeriesOf[p] : p \in ready} :
          /\ Classify({p \in ready : SeriesOf[p] \in failed})
          /\ IF failed = {} THEN UNCHANGED faults ELSE Fault
    /\ pc' = IF itm' = {} THEN "otm" ELSE "deliver"
    /\ UNCHANGED <<due, row, check, unsettled, todo, batch, ready, cur, attempt, tx,
                   chain, restarts>>

\* External: the market maker's oTokens cover one delivery per position.
Covered(s) ==
    Cardinality({t \in delivered : SeriesOf[t[1]] = s})
        < Cardinality({p \in Positions : SeriesOf[p] = s})

Fresh(p) == <<p, 1 + Cardinality({t \in delivered \union sentRedeems : t[1] = p})>>

\* Faulty variant: one attempt too many.
MayRetryOnceMore == attempt <= MaxTries

MayRetry == attempt < MaxTries

\* One attempt of _physical_redeem_with_retry.
Deliver(p) ==
    /\ pc = "deliver" /\ p \in itm
    /\ cur \in {p, None}
    /\ cur' = p
    /\ \/ /\ Covered(SeriesOf[p])
          /\ delivered' = delivered \union {Fresh(p)}
          /\ tx' = Fresh(p) /\ attempt' = 1 /\ pc' = "record"
          /\ UNCHANGED <<sentRedeems, faults>>
       \/ /\ \/ ~Covered(SeriesOf[p]) /\ UNCHANGED <<sentRedeems, faults>>
             \/ Fault /\ UNCHANGED sentRedeems
             \/ Fault /\ sentRedeems' = sentRedeems \union {Fresh(p)}
          /\ IF MayRetry
             THEN attempt' = attempt + 1 /\ pc' = "deliver"
             ELSE attempt' = 1 /\ pc' = "fail"
          /\ UNCHANGED <<delivered, tx>>
    /\ UNCHANGED <<due, row, check, unsettled, todo, batch, ready, itm, otm,
                   price, vaultSettled, sentPrices, sentBatches, restarts>>

\* The row is updated once the delivery is confirmed, or given up.
RecordOutcome ==
    /\ pc \in {"record", "fail"}
    /\ Update(cur, IF pc = "record"
                   THEN [row[cur] EXCEPT !.type = "physical", !.itm = "yes", !.delivery = tx]
                   ELSE [row[cur] EXCEPT !.type = "physical_failed", !.itm = "yes"])
    /\ itm' = itm \ {cur}
    /\ cur' = None /\ tx' = None
    /\ pc' = IF itm' = {} THEN "otm" ELSE "deliver"
    /\ UNCHANGED <<due, check, unsettled, todo, batch, ready, otm, attempt,
                   chain, restarts>>

MarkOtm(p) ==
    /\ pc = "otm" /\ p \in otm
    /\ Update(p, [row[p] EXCEPT !.itm = "no"])
    /\ otm' = otm \ {p}
    /\ UNCHANGED <<due, pc, check, unsettled, todo, batch, ready, itm, cur, attempt, tx,
                   chain, restarts>>

EndCycle ==
    /\ pc = "otm" /\ otm = {}
    /\ ready' = {} /\ pc' = "idle"
    /\ UNCHANGED <<due, row, check, unsettled, todo, batch, itm, otm, cur, attempt, tx,
                   chain, faults, restarts>>
-----------------------------------------------------------------------------
Settle ==
    \/ StartCycle \/ EndReconcile \/ SetPrices
    \/ SettleBatch \/ EndRecheck \/ EndPhase1
    \/ Identify \/ RecordOutcome \/ EndCycle
    \/ \E p \in Positions : Reconcile(p) \/ MarkSettled(p) \/ Deliver(p) \/ MarkOtm(p)

\* The process stops and is started again: run() begins with a cycle.
SettlerCrash ==
    /\ restarts < MaxRestarts
    /\ restarts' = restarts + 1
    /\ pc' = "idle"
    /\ check' = {} /\ unsettled' = {} /\ todo' = {} /\ batch' = {}
    /\ ready' = {} /\ itm' = {} /\ otm' = {}
    /\ cur' = None /\ attempt' = 1 /\ tx' = None
    /\ UNCHANGED <<due, row, chain, faults>>

\* A position expires, or its row is indexed after the expiry.
BecomeDue(p) ==
    /\ p \notin due
    /\ due' = due \union {p}
    /\ UNCHANGED <<row, pc, local, chain, faults, restarts>>

LandPrice(s) ==
    /\ s \in sentPrices
    /\ sentPrices' = sentPrices \ {s}
    /\ \E outcome \in {"in", "out"} :
          price' = [price EXCEPT ![s] = IF @ = "unset" THEN outcome ELSE @]
    /\ UNCHANGED <<due, row, pc, local, vaultSettled, delivered,
                   sentBatches, sentRedeems, faults, restarts>>

LandBatch(ps) ==
    /\ ps \in sentBatches
    /\ sentBatches' = sentBatches \ {ps}
    /\ vaultSettled' = IF Settleable(ps) THEN vaultSettled \union ps ELSE vaultSettled
    /\ UNCHANGED <<due, row, pc, local, price, delivered,
                   sentPrices, sentRedeems, faults, restarts>>

LandRedeem(t) ==
    /\ t \in sentRedeems /\ Covered(SeriesOf[t[1]])
    /\ sentRedeems' = sentRedeems \ {t}
    /\ delivered' = delivered \union {t}
    /\ UNCHANGED <<due, row, pc, local, price, vaultSettled,
                   sentPrices, sentBatches, faults, restarts>>

World ==
    \/ \E p \in Positions : BecomeDue(p)
    \/ \E s \in Series : LandPrice(s)
    \/ \E ps \in sentBatches : LandBatch(ps)
    \/ \E t \in sentRedeems : LandRedeem(t)
    \/ SettlerCrash

SettlerNext == Settle \/ World

\* run() starts a cycle every day and after every restart and finishes it.
SettlerSpec == SettlerInit /\ [][SettlerNext]_settlerVars
FairSettlerSpec == SettlerSpec /\ WF_settlerVars(Settle)
-----------------------------------------------------------------------------
(* Properties. *)

\* A row's verdict is the oracle's: a position is marked out of the money (and
\* its collateral released for good) or in the money only under a finalized
\* price that says so, although prices are set late, read with errors and
\* finalized between the reads of two cycles.
ClassifiedTruthfully ==
    \A p \in Positions :
        /\ row[p].itm = "yes" => price[SeriesOf[p]] = "in"
        /\ row[p].itm = "no" => price[SeriesOf[p]] = "out"

\* The database is never ahead of the chain, the part of the promise below that
\* the API, the intents and the next cycle act on: is_settled is only set for a
\* vault the controller has settled, through batches that time out, revert or
\* land late.
SettledOnChain == \A p \in Positions : row[p].settled => p \in vaultSettled

Outcome ==
    [p \in Positions |-> IF price[SeriesOf[p]] = "unset" THEN None ELSE price[SeriesOf[p]] = "in"]

RowsSay ==
    [p \in Positions |->
        [settled |-> row[p].settled,
         itm |-> IF row[p].itm = "null" THEN None ELSE row[p].itm = "yes",
         delivered |-> row[p].delivery # None]]

\* The controller, whose code is elsewhere, may take a batch before its price.
Promise == INSTANCE PositionSettlement WITH
    Position <- Positions, Waits <- FALSE,
    outcome <- Outcome,
    settled <- vaultSettled,
    delivered <- {t[1] : t \in delivered},
    row <- RowsSay

\* The settler implements PositionSettlement, through failed writes, batches and
\* deliveries that time out, and crashes: rows are never ahead of the chain,
\* never contradict it and take nothing back, and a position is delivered only
\* after its vault was settled and if it ended in the money.
SettlerKeepsPromise == Promise!Spec

\* Phase 2 waits for phase 1 and for the oracle ("settles all expired vaults
\* on-chain", then "physicalRedeem() per ITM position"): no delivery is sent
\* for a vault that is not settled or not in the money.
DeliversAfterSettlement ==
    [][\A p \in Positions : Deliver(p) =>
        p \in vaultSettled /\ price[SeriesOf[p]] = "in"]_settlerVars

\* Every position that is due ends settled on the chain and in its row, and
\* classified: out of the money, delivered, or failed for an operator to see,
\* however reads, writes, transactions and the process failed before.
Resolved(p) ==
    /\ p \in vaultSettled /\ row[p].settled
    /\ \/ row[p].itm = "no"
       \/ row[p].itm = "yes" /\ (row[p].delivery # None \/ row[p].type = "physical_failed")

PositionsResolve == \A p \in Positions : (p \in due) ~> []Resolved(p)

\* "%d positions had Phase 1 settled on-chain but no delivery - will run Phase
\* 2 only": a delivery is never sent for a row that records its delivery.
NeverRedelivered ==
    [][\A p \in Positions : Deliver(p) => row[p].delivery = None]_settlerVars
=============================================================================
