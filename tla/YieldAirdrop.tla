---------------------------- MODULE YieldAirdrop -----------------------------
(***************************************************************************)
(* The yield airdrop (bots/yield_airdrop.py and yield_tracking/            *)
(* calculator.py), which runs beside the yield indexer: it harvests each   *)
(* asset, records the distribution, splits it by amount and time among the *)
(* positions the indexer recorded, and pays them.                          *)
(*                                                                         *)
(* Left out: the transfer of the fee, whose failure is only logged, and    *)
(* the rounding of floating-point shares of sums above 2^53.               *)
(***************************************************************************)
EXTENDS YieldIndexer

CONSTANTS
    Collateral,     \* vault -> collateral_amount
    Yields,         \* what a harvest can bring
    FeeBps,         \* settings.protocol_fee_bps
    MaxAirdrops     \* bound: weekly runs

ASSUME AirdropAssumption ==
    /\ Collateral \in [Vaults -> Nat \ {0}]
    /\ Yields \subseteq Nat \ {0} /\ FeeBps \in 0..10000 /\ MaxAirdrops \in Nat

VARIABLES
    drop,           \* the run under way
    airdrops,       \* runs begun
    allocations,    \* yield_allocations: block of the harvest -> vault -> amount
    delivered,      \* of these, the ones with status "delivered"
    transfers,      \* the chain: block of the harvest -> vault -> transfers made for it
    shares          \* history: block of the harvest -> what became of it

airdropVars == <<drop, airdrops, allocations, delivered, transfers, shares>>
yieldPartVars == <<yieldVars, airdropVars>>

Harvests == 1..MaxEvents
Distributable(total) == total - (total * FeeBps) \div 10000

DropState ==
    [at : {"idle", "harvest", "insert", "allocate", "pay", "mark"},
     assets : SUBSET YieldAssets,       \* still to process
     from : Times, to : Times,          \* the period
     block : Times,                     \* of the harvest at hand
     amount : Nat,                      \* of it, what is to be distributed
     pending : SUBSET Vaults,           \* whose transfers are still to be made
     payee : Vaults \union {None}]

\* What became of a harvest, and the period its allocations are for.
Share == [outcome : {"open", "raced", "nobody", "shared"}, amount : Nat,
          asset : YieldAssets, from : Times, to : Times]

ASSUME NoShareAssumption == None \notin Share

AirdropTypeOK ==
    /\ drop \in DropState /\ airdrops \in 0..MaxAirdrops
    /\ allocations \in [Harvests -> [Vaults -> Nat]]
    /\ delivered \subseteq Harvests \X Vaults
    /\ transfers \in [Harvests -> [Vaults -> Nat]]
    /\ shares \in [Harvests -> Share \union {None}]
    /\ YieldTypeOK /\ ProcessTypeOK

Idle == [at |-> "idle", assets |-> {}, from |-> 0, to |-> 0, block |-> 0, amount |-> 0,
         pending |-> {}, payee |-> None]

AirdropInit ==
    /\ drop = Idle /\ airdrops = 0
    /\ allocations = [b \in Harvests |-> [v \in Vaults |-> 0]]
    /\ delivered = {}
    /\ transfers = [b \in Harvests |-> [v \in Vaults |-> 0]]
    /\ shares = [b \in Harvests |-> None]

\* On to the next asset.
NextAsset == [drop EXCEPT !.at = "harvest", !.block = 0, !.amount = 0, !.pending = {},
                          !.payee = None]

\* A call inside _process_asset raises: the other assets go on.
AssetFails == drop' = NextAsset /\ Fault
-----------------------------------------------------------------------------
\* Faulty variant: the first period again.
FirstPeriodStart == 0

\* run: from the end of the latest recorded period, of whatever asset.
PeriodStart == Max({0} \union {distributions[b].end : b \in {c \in Harvests : distributions[c] # None}})

StartAirdrop ==
    /\ drop.at = "idle" /\ airdrops < MaxAirdrops
    /\ airdrops' = airdrops + 1
    /\ drop' = [Idle EXCEPT !.at = "harvest", !.assets = YieldAssets,
                            !.from = PeriodStart, !.to = Height]
    /\ UNCHANGED <<yieldVars, allocations, delivered, transfers, shares, faults, restarts>>

\* _harvest: nothing accrued; mined, and what it brought; or failed, or mined
\* although the call raised.
Harvest(a) ==
    /\ drop.at = "harvest" /\ a \in drop.assets
    /\ \/ /\ drop' = [drop EXCEPT !.assets = @ \ {a}]
          /\ UNCHANGED <<yieldVars, shares, faults>>
       \/ /\ Mine(<<"harvested", a>>)
          /\ \E total \in Yields :
               /\ drop' = [drop EXCEPT !.at = "insert", !.assets = @ \ {a},
                              !.block = Height + 1, !.amount = Distributable(total)]
               /\ shares' = [shares EXCEPT ![Height + 1] =
                              [outcome |-> "open", amount |-> Distributable(total),
                               asset |-> a, from |-> drop.from, to |-> drop.to]]
          /\ NoFault
       \/ /\ Mine(<<"harvested", a>>) \/ UNCHANGED yieldVars
          /\ drop' = [drop EXCEPT !.assets = @ \ {a}]
          /\ UNCHANGED shares /\ Fault
    /\ UNCHANGED <<airdrops, allocations, delivered, transfers, restarts>>

\* The insert: refused if the indexer has a row for this harvest already.
InsertDistribution ==
    LET b == drop.block IN
    /\ drop.at = "insert"
    /\ \/ /\ distributions[b] = None
          /\ distributions' = [distributions EXCEPT ![b] =
                [asset |-> blocks[b][2], start |-> drop.from, end |-> drop.to]]
          /\ drop' = [drop EXCEPT !.at = "allocate"]
          /\ UNCHANGED shares /\ NoFault
       \/ /\ distributions[b] # None
          /\ shares' = [shares EXCEPT ![b].outcome = "raced"]
          /\ drop' = NextAsset /\ UNCHANGED distributions /\ NoFault
       \/ AssetFails /\ UNCHANGED <<distributions, shares>>
    /\ UNCHANGED <<blocks, vaultRows, indexed, watch, next, upto, pushed, lost,
                   airdrops, allocations, delivered, transfers, restarts>>
-----------------------------------------------------------------------------
(* calculate_allocations *)

\* Rows of the asset, deposited before the end and not closed by the start.
Active(a) ==
    {v \in Vaults : /\ AssetOf[v] = a /\ vaultRows[v] # None
                    /\ vaultRows[v].deposited < drop.to
                    /\ vaultRows[v].closed # None => vaultRows[v].closed > drop.from}

Weight(v) ==
    LET row == vaultRows[v]
        start == Max({row.deposited, drop.from})
        end == IF row.closed = None THEN drop.to ELSE Min({row.closed, drop.to})
    IN  Collateral[v] * Max({end - start, 0})

TotalWeight(a) == SumFunction([v \in Active(a) |-> Weight(v)])

\* The rounded share of v; what remains goes to the first allocation.
Portion(v, a) ==
    IF v \in Active(a) /\ TotalWeight(a) > 0
    THEN (drop.amount * Weight(v)) \div TotalWeight(a) ELSE 0

Allocation(a, first) ==
    LET dust == drop.amount - SumFunction([v \in Vaults |-> Portion(v, a)]) IN
    [v \in Vaults |-> IF v = first THEN Portion(v, a) + dust ELSE Portion(v, a)]

\* Faulty variant: a share that is rounded down to nothing ends the asset.
AllocateAllOrNone ==
    LET b == drop.block
        a == blocks[b][2]
        parts == {v \in Vaults : Portion(v, a) > 0}
    IN
    /\ drop.at = "allocate"
    /\ \/ /\ parts = Active(a)
          /\ \E first \in parts :
               allocations' = [allocations EXCEPT ![b] = Allocation(a, first)]
          /\ drop' = [drop EXCEPT !.at = "pay", !.pending = parts]
          /\ shares' = [shares EXCEPT ![b].outcome = "shared"] /\ NoFault
       \/ /\ parts # Active(a)
          /\ drop' = NextAsset /\ UNCHANGED <<allocations, shares>> /\ NoFault
    /\ UNCHANGED <<yieldVars, airdrops, delivered, transfers, restarts>>

\* Calculated and saved; the rows come in no particular order.
Allocate ==
    LET b == drop.block
        a == blocks[b][2]
        parts == {v \in Vaults : Portion(v, a) > 0}
    IN
    /\ drop.at = "allocate"
    /\ \/ /\ parts # {}
          /\ \E first \in parts :
               allocations' = [allocations EXCEPT ![b] = Allocation(a, first)]
          /\ drop' = [drop EXCEPT !.at = "pay", !.pending = parts]
          /\ shares' = [shares EXCEPT ![b].outcome = "shared"] /\ NoFault
       \/ /\ parts = {}
          /\ shares' = [shares EXCEPT ![b].outcome = "nobody"]
          /\ drop' = NextAsset /\ UNCHANGED allocations /\ NoFault
       \/ AssetFails /\ UNCHANGED <<allocations, shares>>
    /\ UNCHANGED <<yieldVars, airdrops, delivered, transfers, restarts>>
-----------------------------------------------------------------------------
(* _distribute_allocations *)

Sent(b, v) == transfers' = [transfers EXCEPT ![b][v] = @ + 1]

\* Faulty variant: a transfer that failed is made again in the same run.
PayAgain(v) ==
    /\ drop.at = "pay" /\ v \in drop.pending
    /\ Sent(drop.block, v)
    /\ \/ drop' = [drop EXCEPT !.at = "mark", !.pending = @ \ {v}, !.payee = v] /\ NoFault
       \/ UNCHANGED drop /\ Fault
    /\ UNCHANGED <<yieldVars, airdrops, allocations, delivered, shares, restarts>>

\* A transfer: made, or failed and left pending - on the chain it may have
\* gone through all the same.
Pay(v) ==
    /\ drop.at = "pay" /\ v \in drop.pending
    /\ \/ Sent(drop.block, v) /\ NoFault
          /\ drop' = [drop EXCEPT !.at = "mark", !.pending = @ \ {v}, !.payee = v]
       \/ /\ Sent(drop.block, v) \/ UNCHANGED transfers
          /\ drop' = [drop EXCEPT !.pending = @ \ {v}] /\ Fault
    /\ UNCHANGED <<yieldVars, airdrops, allocations, delivered, shares, restarts>>

\* Marked, or the update raises and the rest of the asset is given up.
MarkDelivered ==
    /\ drop.at = "mark"
    /\ \/ /\ delivered' = delivered \union {<<drop.block, drop.payee>>}
          /\ drop' = [drop EXCEPT !.at = "pay", !.payee = None] /\ NoFault
       \/ AssetFails /\ UNCHANGED delivered
    /\ UNCHANGED <<yieldVars, airdrops, allocations, transfers, shares, restarts>>

EndAsset ==
    /\ drop.at = "pay" /\ drop.pending = {}
    /\ drop' = NextAsset
    /\ UNCHANGED <<yieldVars, airdrops, allocations, delivered, transfers, shares,
                   faults, restarts>>

EndAirdrop ==
    /\ drop.at = "harvest" /\ drop.assets = {}
    /\ drop' = Idle
    /\ UNCHANGED <<yieldVars, airdrops, allocations, delivered, transfers, shares,
                   faults, restarts>>

\* Its process dies, at worst with a transfer just sent.
AirdropCrash ==
    /\ drop.at # "idle" /\ Restart
    /\ drop' = Idle
    /\ \/ drop.at = "pay" /\ \E v \in drop.pending : Sent(drop.block, v)
       \/ UNCHANGED transfers
    /\ UNCHANGED <<yieldVars, airdrops, allocations, delivered, shares, faults>>

Airdrop ==
    \/ StartAirdrop \/ (\E a \in YieldAssets : Harvest(a)) \/ InsertDistribution \/ Allocate
    \/ (\E v \in Vaults : Pay(v)) \/ MarkDelivered \/ EndAsset \/ EndAirdrop \/ AirdropCrash

YieldNext ==
    \/ Airdrop
    \/ (YieldIndex \/ \E v \in Vaults : MineVault(v)) /\ UNCHANGED airdropVars

YieldSpec ==
    /\ YieldInit /\ AirdropInit /\ ProcessInit
    /\ [][YieldNext]_<<yieldPartVars, faults, restarts>>
-----------------------------------------------------------------------------
(* Properties. *)

\* No transfer is made twice, although transfers that failed may have gone
\* through, and marks may fail; what is marked was paid.
PaidOnce ==
    \A b \in Harvests : \A v \in Vaults :
        /\ transfers[b][v] <= 1
        /\ <<b, v>> \in delivered => transfers[b][v] = 1

\* No stretch of time counts twice: the periods of an asset do not overlap,
\* although the indexer overwrites the periods that were recorded.
PeriodsDoNotOverlap ==
    \A b, c \in Harvests :
        (/\ shares[b] # None /\ shares[c] # None /\ b < c
         /\ shares[b].asset = shares[c].asset
         /\ shares[b].outcome = "shared" /\ shares[c].outcome = "shared")
            => shares[b].to <= shares[c].from

\* What is shared of a harvest adds up to what it leaves after the fee, whoever
\* is rounded down to nothing.  Without failures, a harvest of a run that is over
\* was shared or had nobody to go to, or the indexer recorded it before the
\* airdrop did: then the insert is refused and its yield is never allocated.
HarvestsShared ==
    \A b \in Harvests : shares[b] # None =>
        /\ shares[b].outcome = "shared" => SumFunction(allocations[b]) = shares[b].amount
        /\ (shares[b].outcome = "open" /\ faults = 0 /\ restarts = 0) => drop.block = b
=============================================================================
