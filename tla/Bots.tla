-------------------------------- MODULE Bots ---------------------------------
(***************************************************************************)
(* The components of the process that share nothing with each other but    *)
(* the process (main.py starts them as tasks of one event loop).  Since    *)
(* none reads what another writes, their interleavings show nothing that   *)
(* each alone does not: a behaviour is one of a single part, beside the    *)
(* others standing still.                                                  *)
(***************************************************************************)
EXTENDS TxSender, WeeklyAggregator, FillStream, SolanaIndexer, YieldAirdrop, PriceSheet,
        OTokenManager, CapitalIntents

VARIABLE part       \* the part whose behaviour this is; constant

Parts == {"sender", "weekly", "stream", "solana", "yield", "sheet", "manager", "intents"}

botsVars == <<part, senderVars, weekVars, streamVars, solanaPartVars, yieldPartVars, sheetVars,
              managerVars, intentVars, faults, restarts>>

BotsTypeOK ==
    /\ part \in Parts
    /\ TxTypeOK /\ WeeklyTypeOK /\ StreamTypeOK /\ SolanaTypeOK /\ SolanaIndexerTypeOK
    /\ AirdropTypeOK /\ ManagerTypeOK /\ IntentsTypeOK

BotsInit ==
    /\ part \in Parts
    /\ ProcessInit
    /\ TxInit /\ WeeklyInit /\ StreamInit /\ SolanaInit /\ YieldInit /\ AirdropInit
    /\ IntentsInit
    /\ SolanaIndexerInit /\ (part # "solana" => known = {})
    /\ SheetInit /\ (part # "sheet" => spot = Min(Spots) /\ strikeStep = Min(Steps))
    /\ ManagerInit /\ (part # "manager" => platform = "base" /\ targets = {})

OthersStandStill ==
    /\ UNCHANGED part
    /\ part # "sender"  => UNCHANGED senderVars
    /\ part # "weekly"  => UNCHANGED weekVars
    /\ part # "stream"  => UNCHANGED streamVars
    /\ part # "solana"  => UNCHANGED solanaPartVars
    /\ part # "yield"   => UNCHANGED yieldPartVars
    /\ part # "sheet"   => UNCHANGED sheetVars
    /\ part # "manager" => UNCHANGED managerVars
    /\ part # "intents" => UNCHANGED intentVars

Of(p, A) == part = p /\ A /\ OthersStandStill

BotsNext ==
    \/ Of("sender", TxNext)
    \/ Of("weekly", WeeklyNext)
    \/ Of("stream", StreamNext)
    \/ Of("solana", SolanaNext)
    \/ Of("yield", YieldNext)
    \/ Of("sheet", Tick)
    \/ Of("manager", ManagerNext)
    \/ Of("intents", IntentsNext)

\* The loops of the bots go on: a cycle that is due is begun, and its calls
\* return or raise.
BotsSpec ==
    /\ BotsInit /\ [][BotsNext]_botsVars
    /\ WF_botsVars(Of("solana", SolanaIndex))
    /\ WF_botsVars(Of("solana", SolanaSettling))
    /\ WF_botsVars(Of("manager", Manage))
=============================================================================
