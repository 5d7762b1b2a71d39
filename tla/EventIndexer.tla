---------------------------- MODULE EventIndexer -----------------------------
(***************************************************************************)
(* The Base event indexer (bots/event_indexer.py): which blocks' events    *)
(* reach order_events, and where the persistent cursor stands.             *)
(*                                                                         *)
(* index_once and the subscription handlers have no await, so each is one  *)
(* step; blocks are mined, the connection breaks and the process crashes   *)
(* between them.  A block carries at most one event of the settler.        *)
(***************************************************************************)
EXTENDS Naturals, Sequences, FiniteSets, FiniteSetsExt

CONSTANTS
    Settings,       \* configurations: is wss_rpc_url set, BLOCK_RANGE, RESCAN_BLOCKS
    ConfirmationBlocks,
    None,
    MaxBlock,       \* bound: blocks mined
    MaxFaults,      \* bound: failed calls to the chain or the database
    MaxRestarts     \* bound: process crashes

ASSUME IndexerAssumption ==
    /\ Settings \subseteq [subscribed : BOOLEAN, range : Nat \ {0}, rescan : Nat]
    /\ ConfirmationBlocks \in Nat
    /\ None \notin Nat
    /\ MaxBlock \in Nat /\ MaxFaults \in Nat /\ MaxRestarts \in Nat

VARIABLES
    settings,       \* of this process, chosen once
    head, events,   \* the chain: latest block, blocks with an event
    stored,         \* blocks whose event is in order_events
    cursor,         \* indexer_state.last_indexed_block
    pending,        \* _pending_failure_block
    mode,           \* of _subscription_loop; polling stays in "catchup"
    wire,           \* logs pushed by the subscription, oldest first
    failed,         \* history: blocks whose enrichment this process saw fail
    faults, restarts

vars == <<settings, head, events, stored, cursor, pending, mode, wire, failed,
          faults, restarts>>

Blocks == 1..MaxBlock

TypeOK ==
    /\ settings \in Settings
    /\ head \in 0..MaxBlock
    /\ events \subseteq 1..head
    /\ stored \subseteq events
    /\ cursor \in 0..head
    /\ pending \in events \union {None}
    /\ mode \in {"catchup", "connect", "live"}
    /\ wire \in Seq(events)
    /\ failed \subseteq events
    /\ faults \in 0..MaxFaults
    /\ restarts \in 0..MaxRestarts

Init ==
    /\ settings \in Settings
    /\ head = 0 /\ events = {} /\ stored = {} /\ cursor = 0
    /\ pending = None /\ mode = "catchup" /\ wire = <<>> /\ failed = {}
    /\ faults = 0 /\ restarts = 0

Fault == faults < MaxFaults /\ faults' = faults + 1
-----------------------------------------------------------------------------
Safe == IF head < ConfirmationBlocks THEN 0 ELSE head - ConfirmationBlocks

\* What _fetch_and_store_order_events stores of a range when the events of
\* bad cannot be enriched: those before the first of them.
StoredOf(range, bad) ==
    {b \in events \intersect range : \A f \in bad : b < f}

LowestPending(bad) == Min(bad \union ({pending} \ {None}))

\* Faulty variant: the cursor advances over the whole range whatever failed.
ForwardToTheEnd(bad) ==
    LET to == Min({cursor + settings.range, Safe}) IN
    /\ cursor' = to
    /\ pending' = IF bad # {} THEN LowestPending(bad) ELSE None

\* Faulty variant: the forward pass is not cut at the safe block.
AdvanceByRange(bad) ==
    IF bad # {}
    THEN cursor' = Min(bad) - 1 /\ pending' = LowestPending(bad)
    ELSE cursor' = cursor + settings.range /\ pending' = None

\* The end of the forward pass: where the cursor goes.
AdvanceCursor(bad) ==
    LET to == Min({cursor + settings.range, Safe}) IN
    IF bad # {}
    THEN /\ cursor' = Min(bad) - 1
         /\ pending' = LowestPending(bad)
    ELSE /\ cursor' = to
         /\ pending' = IF pending # None /\ pending <= to THEN None ELSE pending

\* Faulty variant: the rescan starts where the forward pass did.
RescanFromCursor ==
    LET from == cursor
    IN  IF from < Safe THEN from..Min({Safe, from + settings.range - 1}) ELSE {}

\* The blocks of the second pass.
RescanRange ==
    LET from == IF cursor < settings.rescan THEN 0 ELSE cursor - settings.rescan
        to == Min({Safe, from + settings.range - 1})
    IN  IF from < to THEN from..to ELSE {}

NextMode == IF settings.subscribed THEN "connect" ELSE "catchup"

\* index_once: a forward pass, unless it is up to date, and a rescan.
IndexOnce ==
    /\ mode = "catchup"
    /\ LET range == (cursor + 1)..Min({cursor + settings.range, Safe}) IN
       \E bad \in SUBSET (events \intersect range),
          lost \in SUBSET (events \intersect RescanRange) :
         /\ IF bad \union lost = {} THEN UNCHANGED faults ELSE Fault
         /\ stored' = stored \union StoredOf(range, bad) \union StoredOf(RescanRange, lost)
         /\ failed' = failed \union bad
         /\ IF range # {} THEN AdvanceCursor(bad) ELSE UNCHANGED <<cursor, pending>>
    /\ mode' = NextMode
    /\ UNCHANGED <<settings, head, events, wire, restarts>>

\* A call raises: nothing is stored, or the events but not the cursor, or the
\* write of the cursor took effect although it raised.
IndexOnceRaises ==
    /\ mode = "catchup" /\ Fault
    /\ LET to == Min({cursor + settings.range, Safe})
           range == (cursor + 1)..to IN
       \/ UNCHANGED <<stored, cursor>>
       \/ /\ stored' = stored \union (events \intersect range)
          /\ cursor' = cursor \/ (range # {} /\ cursor' = to)
    /\ mode' = NextMode
    /\ UNCHANGED <<settings, head, events, pending, wire, failed, restarts>>
-----------------------------------------------------------------------------
(* _subscription_loop *)

Subscribe ==
    /\ mode = "connect"
    /\ mode' = "live"
    /\ UNCHANGED <<settings, head, events, stored, cursor, pending, wire, failed, faults, restarts>>

\* The connection breaks, or cannot be made: back to the catch-up.
Disconnect ==
    /\ mode \in {"connect", "live"}
    /\ mode' = "catchup"
    /\ wire' = <<>>
    /\ UNCHANGED <<settings, head, events, stored, cursor, pending, failed, faults, restarts>>

SafeAdvanceTarget(b) ==
    IF pending # None /\ b >= pending THEN pending - 1 ELSE b

\* _process_subscription_log: enriched, stored and the cursor moved; not
\* enriched; not stored; or stored without the cursor.
ProcessLog ==
    /\ mode = "live" /\ wire # <<>>
    /\ wire' = Tail(wire)
    /\ LET b == Head(wire) IN
       \/ /\ stored' = stored \union {b}
          /\ \/ cursor' = SafeAdvanceTarget(b) /\ UNCHANGED faults
             \/ UNCHANGED cursor /\ Fault
          /\ UNCHANGED <<pending, failed>>
       \/ /\ Fault
          /\ pending' = LowestPending({b})
          /\ failed' = failed \union {b}
          /\ UNCHANGED <<stored, cursor>>
       \/ Fault /\ UNCHANGED <<stored, cursor, pending, failed>>
    /\ UNCHANGED <<settings, head, events, mode, restarts>>

Crash ==
    /\ restarts < MaxRestarts
    /\ restarts' = restarts + 1
    /\ pending' = None /\ mode' = "catchup" /\ wire' = <<>> /\ failed' = {}
    /\ UNCHANGED <<settings, head, events, stored, cursor, faults>>

\* External: the next block, whose event is pushed to a live subscription.
Mine(event) ==
    /\ head < MaxBlock
    /\ head' = head + 1
    /\ events' = IF event THEN events \union {head'} ELSE events
    /\ wire' = IF event /\ mode = "live" THEN Append(wire, head') ELSE wire
    /\ UNCHANGED <<settings, stored, cursor, pending, mode, failed, faults, restarts>>

Index == IndexOnce \/ IndexOnceRaises
Subscription == Subscribe \/ Disconnect \/ ProcessLog
Next == Index \/ Subscription \/ Crash \/ \E event \in BOOLEAN : Mine(event)

\* The loop runs index_once again and again, handles what is pushed and
\* reconnects; nothing makes a connection break.
Spec == Init /\ [][Next]_vars
FairSpec == Spec /\ WF_vars(Index) /\ WF_vars(Subscribe) /\ WF_vars(ProcessLog)
-----------------------------------------------------------------------------
(* Properties. *)

\* Polling never skips an event: whatever failed before, each event at or
\* below the persistent cursor is in order_events ("prevents the block pointer
\* from advancing past lost events").
NothingBehindCursor ==
    ~settings.subscribed => \A b \in events : b <= cursor => b \in stored

\* Is b deep enough to be indexed?
Deep(b) == b \in events /\ head >= b + ConfirmationBlocks

\* Every deep event is stored in the end, through failing enrichments, failing
\* writes and crashes.  With subscriptions the cursor jumps over events that were
\* never pushed, or failed; if the connection breaks again and again, the rescan
\* window makes up for it, as long as the jump fits into the window.
EventsAreIndexed ==
    (settings.subscribed => []<>(mode = "catchup"))
        => \A b \in Blocks : Deep(b) ~> (b \in stored)

\* "The cursor must not advance past `_pending_failure_block - 1` in either the
\* subscription or forward-pass path - otherwise a settlement-critical event
\* could be lost permanently": no event this process failed to enrich, and has
\* not stored since, falls behind the cursor.
FailuresHoldCursor == \A b \in failed \ stored : cursor < b
=============================================================================
