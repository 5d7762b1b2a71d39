------------------------------- MODULE MCBots --------------------------------
(* Small instances of the parts: two positions on one Solana oToken, two    *)
(* vaults of which the first has twice the collateral.                      *)
EXTENDS Bots

MCOTokenOf == [p \in SolanaPositions |-> CHOOSE t \in OTokens : TRUE]

FirstVault == CHOOSE v \in Vaults : TRUE
MCAssetOf == [v \in Vaults |-> CHOOSE a \in YieldAssets : TRUE]
MCCollateral == [v \in Vaults |-> IF v = FirstVault THEN 2 ELSE 1]

\* Both vaults have been opened when the yield indexer starts for the first time.
MCPast == <<<<"deposited", FirstVault>>,
            <<"deposited", CHOOSE v \in Vaults : v # FirstVault>>>>

\* Weeks with a loss and weeks with a gain.
MCPnls == {-2, 3}

MCTypeOf == [i \in Intents |-> "deploy"]
=============================================================================
