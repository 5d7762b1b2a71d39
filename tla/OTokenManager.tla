---------------------------- MODULE OTokenManager ----------------------------
(***************************************************************************)
(* The oToken managers of Base and Solana (bots/otoken_manager.py,         *)
(* bots/solana_otoken_manager.py).  Each cycle makes every target option   *)
(* exist on its chain, step by step, and lists it for the market makers.   *)
(* The first of every few cycles checks them all on the chain; the others  *)
(* trust the rows of available_otokens (DB-fast cycles).                   *)
(*                                                                         *)
(* One asset; several assets are treated one after another in the same way.*)
(***************************************************************************)
EXTENDS Process

CONSTANTS
    Options,
    MaxChanges      \* bound: external changes of targets and whitelists

ASSUME ManagerAssumption == MaxChanges \in Nat /\ None \notin Options

VARIABLES
    platform,       \* "base" or "solana"; constant
    onchain,        \* option -> the steps that are done on the chain
    corrupt,        \* Solana: options whose otoken_info has a wrong expiry
    listed,         \* available_otokens
    targets,        \* the options generate_otoken_specs would give now
    near,           \* options within their cutoff
    cycles,         \* _publish_cycle_count, modulo ReconcileEvery
    mgr,            \* the cycle under way
    changes,        \* external changes so far
    disturbed,      \* history: options undone from outside or by a repair
    stale           \* history: DB-fast cycles begun since an option was delisted

managerVars == <<platform, onchain, corrupt, listed, targets, near, cycles, mgr,
                 changes, disturbed, stale>>

Phases == {"create", "whitelist", "info", "account"}

\* What an option needs on this chain.
Needed == IF platform = "base" THEN {"create", "whitelist"} ELSE Phases

ManagerState ==
    [at : {"idle", "ensure", "upsert"}, left : SUBSET Options, paired : SUBSET Options,
     option : Options \union {None}, phase : Phases]

\* FULL_RECONCILE_EVERY_CYCLES
ReconcileEvery == IF platform = "base" THEN 3 ELSE 12

NoCycle == [at |-> "idle", left |-> {}, paired |-> {}, option |-> None, phase |-> "create"]

ManagerTypeOK ==
    /\ platform \in {"base", "solana"}
    /\ onchain \in [Options -> SUBSET Phases]
    /\ corrupt \subseteq Options /\ listed \subseteq Options
    /\ near \subseteq Options /\ targets \subseteq Options \ near
    /\ cycles \in 0..(ReconcileEvery - 1) /\ mgr \in ManagerState /\ changes \in 0..MaxChanges
    /\ disturbed \subseteq Options
    /\ stale \in [Options -> Nat]

\* On Solana some options may be left by an older script, with a bad account.
ManagerInit ==
    /\ platform \in {"base", "solana"}
    /\ corrupt \in (IF platform = "base" THEN {{}} ELSE SUBSET Options)
    /\ onchain = [o \in Options |-> IF o \in corrupt THEN Phases ELSE {}]
    /\ listed = corrupt /\ disturbed = corrupt
    /\ targets \in SUBSET Options /\ near = {}
    /\ cycles = 0 /\ mgr = NoCycle /\ changes = 0
    /\ stale = [o \in Options |-> 0]
-----------------------------------------------------------------------------
(* Outside the bot. *)

Change == changes < MaxChanges /\ changes' = changes + 1

\* The spot price moves, or time goes by.
MoveTargets ==
    /\ Change
    /\ targets' \in SUBSET (Options \ near)
    /\ stale' = [o \in Options |-> IF o \in targets' THEN stale[o] ELSE 0]
    /\ UNCHANGED <<platform, onchain, corrupt, listed, near, cycles, mgr, disturbed,
                   faults, restarts>>

EnterCutoff(o) ==
    /\ Change /\ o \notin near
    /\ near' = near \union {o} /\ targets' = targets \ {o}
    /\ stale' = [stale EXCEPT ![o] = 0]
    /\ UNCHANGED <<platform, onchain, corrupt, listed, cycles, mgr, disturbed,
                   faults, restarts>>

\* Someone removes an option from the whitelist.
Delist(o) ==
    /\ Change /\ "whitelist" \in onchain[o]
    /\ onchain' = [onchain EXCEPT ![o] = @ \ {"whitelist"}]
    /\ disturbed' = disturbed \union {o} /\ stale' = [stale EXCEPT ![o] = 0]
    /\ UNCHANGED <<platform, corrupt, listed, targets, near, cycles, mgr, faults, restarts>>
-----------------------------------------------------------------------------
(* publish_once *)

\* Is the cycle that begins a full one?
FullReconcile == (cycles + 1) % ReconcileEvery = 1

\* _prune_near_expiry_otokens is for Base only.
AfterPruning == IF platform = "base" THEN listed \ near ELSE listed

\* Targets whose rows are there already, unless everything is to be checked.
Existing == IF FullReconcile THEN {} ELSE AfterPruning \intersect targets

\* The number of the cycle, pruning, prices, and the rows that are there.
BeginCycle ==
    /\ mgr.at = "idle"
    /\ cycles' = (cycles + 1) % ReconcileEvery
    /\ \/ /\ listed' = AfterPruning
          /\ mgr' = [NoCycle EXCEPT !.at = "ensure", !.left = targets \ Existing,
                                    !.paired = Existing]
          /\ stale' = [o \in Options |->
                         IF o \in Existing /\ "whitelist" \notin onchain[o]
                         THEN stale[o] + 1 ELSE stale[o]]
          /\ NoFault
       \/ /\ listed' \in {listed, AfterPruning}
          /\ UNCHANGED <<mgr, stale>> /\ Fault
    /\ UNCHANGED <<platform, onchain, corrupt, targets, near, changes, disturbed, restarts>>

\* ensure_otokens_exist: the next option.
NextOption(o) ==
    /\ mgr.at = "ensure" /\ mgr.option = None /\ o \in mgr.left
    /\ mgr' = [mgr EXCEPT !.option = o, !.left = @ \ {o}, !.phase = "create"]
    /\ UNCHANGED <<platform, onchain, corrupt, listed, targets, near, cycles, changes,
                   disturbed, stale, faults, restarts>>

\* The step after this one; after the last, the option is paired.
PhaseDone ==
    LET after == CASE mgr.phase = "create"    -> "whitelist"
                   [] mgr.phase = "whitelist" -> "info"
                   [] mgr.phase = "info"      -> "account"
                   [] mgr.phase = "account"   -> "none"
    IN  mgr' = IF after \in Needed THEN [mgr EXCEPT !.phase = after]
               ELSE [mgr EXCEPT !.option = None, !.phase = "create",
                                !.paired = @ \union {mgr.option}]

\* This option is left out of the cycle.
Exclude == mgr' = [mgr EXCEPT !.option = None, !.phase = "create"]

Bad(o) == mgr.phase = "info" /\ o \in corrupt

\* Faulty variant: what is there already cannot be made.
FindPhaseFails ==
    LET o == mgr.option IN
    /\ mgr.phase \in onchain[o] /\ ~Bad(o)
    /\ Exclude
    /\ UNCHANGED <<onchain, corrupt, disturbed, stale, faults>>

\* Already there.
FindPhase ==
    LET o == mgr.option IN
    /\ mgr.phase \in onchain[o] /\ ~Bad(o)
    /\ PhaseDone
    /\ UNCHANGED <<onchain, corrupt, disturbed, stale, faults>>

\* What is done on the chain is no longer undone.
Settle(o, done) ==
    /\ onchain' = [onchain EXCEPT ![o] = done]
    /\ disturbed' = IF Needed \subseteq done /\ o \notin corrupt THEN disturbed \ {o}
                    ELSE disturbed
    /\ stale' = IF "whitelist" \in done THEN [stale EXCEPT ![o] = 0] ELSE stale

\* A factory may whitelist what it creates.
Outcomes(o) ==
    {onchain[o] \union {mgr.phase}} \union
        (IF platform = "base" /\ mgr.phase = "create"
         THEN {onchain[o] \union {"create", "whitelist"}} ELSE {})

\* Faulty variant: a failed step does not exclude the option.
MakePhaseRegardless ==
    LET o == mgr.option IN
    /\ mgr.phase \notin onchain[o]
    /\ \/ \E done \in Outcomes(o) : Settle(o, done) /\ PhaseDone /\ NoFault
       \/ PhaseDone /\ UNCHANGED <<onchain, disturbed, stale>> /\ Fault
    /\ UNCHANGED corrupt

\* A transaction, which succeeds, fails, or takes effect although it raised: on
\* Base a look-up may find that, too early a one and Solana leave the option out.
MakePhase ==
    LET o == mgr.option IN
    /\ mgr.phase \notin onchain[o]
    /\ \/ \E done \in Outcomes(o) : Settle(o, done) /\ PhaseDone /\ NoFault
       \/ /\ \E done \in Outcomes(o) : Settle(o, done)
          /\ Exclude \/ (platform = "base" /\ PhaseDone)
          /\ Fault
       \/ Exclude /\ UNCHANGED <<onchain, disturbed, stale>> /\ Fault
    /\ UNCHANGED corrupt

\* _verify_otoken_info_expiry: a bad account is closed, to be created again.
CloseInfo ==
    LET o == mgr.option IN
    /\ "info" \in onchain[o] /\ Bad(o)
    /\ \/ /\ onchain' = [onchain EXCEPT ![o] = @ \ {"info"}]
          /\ corrupt' = corrupt \ {o} /\ disturbed' = disturbed \union {o}
          /\ UNCHANGED mgr
          /\ NoFault \/ Fault
       \/ Exclude /\ UNCHANGED <<onchain, corrupt, disturbed>> /\ Fault
    /\ UNCHANGED stale

EnsurePhase ==
    /\ mgr.at = "ensure" /\ mgr.option # None
    /\ FindPhase \/ MakePhase \/ CloseInfo
    /\ UNCHANGED <<platform, listed, targets, near, cycles, changes, restarts>>

\* Rows of options left out stay as they are.
WithRows(paired) == listed \union paired

\* The upsert of what is paired.
EndCycle ==
    /\ mgr.at = "ensure" /\ mgr.option = None /\ mgr.left = {}
    /\ mgr' = NoCycle
    /\ \/ listed' = WithRows(mgr.paired) /\ NoFault
       \/ mgr.paired # {} /\ UNCHANGED listed /\ Fault
    /\ UNCHANGED <<platform, onchain, corrupt, targets, near, cycles, changes, disturbed,
                   stale, restarts>>

\* The process dies; the next one begins with a full cycle.
ManagerCrash ==
    /\ mgr.at # "idle" /\ Restart
    /\ mgr' = NoCycle /\ cycles' = 0
    /\ UNCHANGED <<platform, onchain, corrupt, listed, targets, near, changes, disturbed,
                   stale, faults>>

Manage == BeginCycle \/ (\E o \in Options : NextOption(o)) \/ EnsurePhase \/ EndCycle

ManagerNext ==
    \/ Manage \/ ManagerCrash \/ MoveTargets
    \/ \E o \in Options : EnterCutoff(o) \/ Delist(o)

ManagerSpec ==
    ManagerInit /\ ProcessInit /\ [][ManagerNext]_<<managerVars, faults, restarts>>
-----------------------------------------------------------------------------
(* Properties. *)

\* A listed option is complete on its chain: whatever steps failed, took
\* effect late or were resumed by another cycle, it is listed only after the
\* last one - unless someone delisted it, or its bad account is being replaced.
\* If no call fails, a target that was delisted waits for its whitelisting no
\* longer than the full cycles are apart: on Base, as promised, "within 2 DB-fast
\* cycles at most"; on Solana within 11, which no comment there counts.
ListedIsUsable ==
    /\ \A o \in listed : Needed \subseteq onchain[o] \/ o \in disturbed
    /\ faults = 0 => \A o \in Options : stale[o] <= ReconcileEvery - 1

\* Again and again every target is listed, whatever steps failed, took effect
\* late or were cut off by a crash - once calls stop failing and targets rest.
TargetsGetListed == []<>(targets \subseteq listed)
=============================================================================
