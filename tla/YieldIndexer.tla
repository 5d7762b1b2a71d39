---------------------------- MODULE YieldIndexer -----------------------------
(***************************************************************************)
(* The yield indexer (bots/yield_indexer.py): deposits and settlements of  *)
(* vaults go to yield_positions, harvests to yield_distributions.  It      *)
(* catches up once, then takes what a subscription pushes, or polls.       *)
(*                                                                         *)
(* The chain is its sequence of events, one per block; a block's number is *)
(* its time.                                                               *)
(***************************************************************************)
EXTENDS Process, Functions

CONSTANTS
    Vaults,
    YieldAssets,
    AssetOf,            \* vault -> asset
    Past,               \* the chain when the indexer is started for the first time
    MaxEvents,          \* bound: blocks
    YieldRange,         \* BLOCK_RANGE
    YieldRescan,        \* RESCAN_BLOCKS
    YieldConfirmations  \* CONFIRMATION_BLOCKS

ASSUME YieldAssumption ==
    /\ IsFiniteSet(Vaults)
    /\ AssetOf \in [Vaults -> YieldAssets]
    /\ YieldRange \in Nat \ {0}
    /\ MaxEvents \in Nat /\ YieldRescan \in Nat /\ YieldConfirmations \in Nat
    /\ None \notin Nat

VARIABLES
    blocks,         \* the chain
    vaultRows,      \* yield_positions: vault -> row
    distributions,  \* yield_distributions: block of the harvest -> row
    indexed,        \* last_indexed_block
    watch,          \* what the indexer does
    next, upto,     \* catch-up: the blocks still to fetch; polling: the last one fetched
    pushed,         \* messages of the subscription
    lost            \* history: blocks the indexer passed over and has not met again

yieldVars == <<blocks, vaultRows, distributions, indexed, watch, next, upto, pushed, lost>>

Times == 0..MaxEvents
Height == Len(blocks)
ConfirmedHead == IF Height > YieldConfirmations THEN Height - YieldConfirmations ELSE 0

Events == ({"deposited", "closed"} \X Vaults) \union ({"harvested"} \X YieldAssets)

\* A vault is opened once, and closed at most once, after that.
Lifecycle(chain) ==
    /\ \A b, c \in DOMAIN chain : chain[b] = chain[c] /\ chain[b][1] # "harvested" => b = c
    /\ \A c \in DOMAIN chain : \A v \in Vaults : chain[c] = <<"closed", v>> =>
           \E b \in 1..(c - 1) : chain[b] = <<"deposited", v>>

ASSUME PastAssumption ==
    Past \in Seq(Events) /\ Len(Past) <= MaxEvents /\ Lifecycle(Past)

VaultRow == [deposited : Times, closed : Times \union {None}]
Distribution == [asset : YieldAssets, start : Times, end : Times]

ASSUME YieldRowAssumption == None \notin VaultRow \union Distribution

YieldTypeOK ==
    /\ blocks \in Seq(Events) /\ Height \in Times
    /\ vaultRows \in [Vaults -> VaultRow \union {None}]
    /\ distributions \in [1..MaxEvents -> Distribution \union {None}]
    /\ indexed \in 0..Height /\ upto \in 0..Height /\ next \in 0..(Height + 1)
    /\ watch \in {"off", "catchup", "live", "broken", "polling", "dead"}
    /\ pushed \in Seq(1..Height) /\ lost \subseteq 1..Height

YieldInit ==
    /\ blocks = Past
    /\ vaultRows = [v \in Vaults |-> None]
    /\ distributions = [b \in 1..MaxEvents |-> None]
    /\ indexed = 0 /\ watch = "off" /\ next = 0 /\ upto = 0
    /\ pushed = <<>> /\ lost = {}

Happened(event) == \E b \in 1..Height : blocks[b] = event

\* External: a block with an event of the two contracts.
Mine(event) ==
    /\ Height < MaxEvents
    /\ blocks' = Append(blocks, event)
    /\ pushed' = IF watch = "live" THEN Append(pushed, Height + 1) ELSE pushed
    /\ lost' = IF watch = "broken" THEN lost \union {Height + 1} ELSE lost
    /\ UNCHANGED <<vaultRows, distributions, indexed, watch, next, upto>>

MineVault(v) ==
    /\ IF Happened(<<"deposited", v>>)
       THEN ~Happened(<<"closed", v>>) /\ Mine(<<"closed", v>>)
       ELSE Mine(<<"deposited", v>>)
    /\ UNCHANGED <<faults, restarts>>
-----------------------------------------------------------------------------
(* _process_log *)

\* _process_collateral_deposited upserts and keeps settled_at;
\* _process_vault_settled sets it on a row that has none.
RowAfter(v, logs) ==
    LET seen(kind) == {b \in logs : blocks[b] = <<kind, v>>}
        row == IF seen("deposited") = {} \/ vaultRows[v] # None THEN vaultRows[v]
               ELSE [deposited |-> Max(seen("deposited")), closed |-> None]
    IN  IF row # None /\ seen("closed") # {} THEN [row EXCEPT !.closed = Max(seen("closed"))]
        ELSE row

\* _process_yield_harvested: the row of a distribution is overwritten.
Harvested(b) == [asset |-> blocks[b][2], start |-> b, end |-> b]

\* The logs of these blocks, in their order.
RecordLogs(logs) ==
    /\ vaultRows' = [v \in Vaults |-> RowAfter(v, logs)]
    /\ distributions' =
         [b \in 1..MaxEvents |->
            IF b \in logs /\ blocks[b][1] = "harvested" THEN Harvested(b) ELSE distributions[b]]

\* A log whose processing fails is only logged.
ProcessAll(logs) ==
    \E failed \in SUBSET logs :
        /\ RecordLogs(logs \ failed)
        /\ lost' = (lost \ logs) \union failed
        /\ IF failed = {} THEN NoFault ELSE Fault
-----------------------------------------------------------------------------
(* run *)

\* From the cursor, less the rescan window, to the confirmed head; a first
\* start looks no further back than the window.
YieldStart ==
    /\ watch = "off"
    /\ LET from == (IF indexed > 0 THEN indexed ELSE ConfirmedHead) - YieldRescan IN
       /\ next' = IF from > 1 THEN from ELSE 1
       /\ lost' = IF indexed > 0 THEN lost ELSE 1..(from - 1)
    /\ upto' = ConfirmedHead /\ watch' = "catchup"
    /\ UNCHANGED <<blocks, vaultRows, distributions, indexed, pushed, faults, restarts>>

\* One range.
CatchUp ==
    LET end == IF next + YieldRange - 1 < upto THEN next + YieldRange - 1 ELSE upto IN
    /\ watch = "catchup" /\ next <= upto
    /\ ProcessAll(next..end)
    /\ indexed' = end /\ next' = end + 1
    /\ UNCHANGED <<blocks, watch, upto, pushed, restarts>>

\* A call outside the loop over the logs fails: run raises, and nobody starts
\* it again before the process is.
YieldRunRaises ==
    /\ watch \in {"off", "catchup"} /\ Fault
    /\ watch' = "dead" /\ next' = 0 /\ upto' = 0
    /\ UNCHANGED <<blocks, vaultRows, distributions, indexed, pushed, lost, restarts>>

\* Caught up: with an address for it, a subscription begins, which brings only
\* what is mined from now on; without one, polling.
Subscribe ==
    /\ watch = "catchup" /\ next > upto
    /\ \/ watch' = "live" /\ upto' = 0 /\ lost' = lost \union ((upto + 1)..Height)
       \/ watch' = "polling" /\ UNCHANGED <<upto, lost>>
    /\ next' = 0
    /\ UNCHANGED <<blocks, vaultRows, distributions, indexed, pushed, faults, restarts>>

\* One message of the subscription; the cursor moves to its block.
TakePushed ==
    /\ watch = "live" /\ pushed # <<>>
    /\ ProcessAll({Head(pushed)})
    /\ indexed' = IF Head(pushed) \in lost' THEN indexed ELSE Head(pushed)
    /\ pushed' = Tail(pushed)
    /\ UNCHANGED <<blocks, watch, next, upto, restarts>>

\* The connection breaks, and is made again after a delay.
Disconnect ==
    /\ watch = "live" /\ Fault
    /\ watch' = "broken" /\ pushed' = <<>>
    /\ lost' = lost \union Range(pushed)
    /\ UNCHANGED <<blocks, vaultRows, distributions, indexed, next, upto, restarts>>

Reconnect ==
    /\ watch = "broken" /\ watch' = "live"
    /\ UNCHANGED <<blocks, vaultRows, distributions, indexed, next, upto, pushed, lost,
                   faults, restarts>>

\* Faulty variant: a poll that fails moves on all the same.
PollYieldRegardless ==
    /\ watch = "polling" /\ ConfirmedHead > upto
    /\ RecordLogs({})
    /\ indexed' = ConfirmedHead /\ upto' = ConfirmedHead /\ Fault
    /\ UNCHANGED <<blocks, watch, next, pushed, lost, restarts>>

\* A poll; if the blocks cannot be fetched the next one tries again.
PollYield ==
    /\ watch = "polling" /\ ConfirmedHead > upto
    /\ ProcessAll((upto + 1)..ConfirmedHead)
    /\ indexed' = ConfirmedHead /\ upto' = ConfirmedHead
    /\ UNCHANGED <<blocks, watch, next, pushed, restarts>>

YieldIndexerCrash ==
    /\ watch # "off" /\ Restart
    /\ watch' = "off" /\ next' = 0 /\ upto' = 0 /\ pushed' = <<>>
    /\ lost' = lost \union {b \in Range(pushed) : b <= indexed}
    /\ UNCHANGED <<blocks, vaultRows, distributions, indexed, faults>>

YieldIndex ==
    \/ YieldStart \/ CatchUp \/ YieldRunRaises \/ Subscribe \/ TakePushed \/ Disconnect
    \/ Reconnect \/ PollYield \/ YieldIndexerCrash
-----------------------------------------------------------------------------
(* Properties. *)

Recorded(b) ==
    LET row == vaultRows[blocks[b][2]] IN
    CASE blocks[b][1] = "deposited" -> row # None /\ row.deposited = b
      [] blocks[b][1] = "closed"    -> row # None => row.closed = b
      [] blocks[b][1] = "harvested" -> distributions[b] # None

\* Behind the cursor everything is recorded, and nothing is reopened or undone
\* by what is processed again - except logs that failed, what was mined between
\* the catch-up and the subscription or while the connection was broken, and
\* what was older than the rescan window at the first start; of these, a later
\* start recovers what is in its window.
YieldBehindCursor == \A b \in (1..indexed) \ lost : Recorded(b)
=============================================================================
