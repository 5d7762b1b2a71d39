---------------------------- MODULE SolanaIndexer ----------------------------
(***************************************************************************)
(* The Solana event indexer (bots/solana_event_indexer.py), which writes   *)
(* the rows that the Solana settler works on, and the two together.        *)
(*                                                                         *)
(* Position p is opened by the p-th fill on the chain.  A cycle collects   *)
(* the fills behind the cursor - without a cursor, those of the day -,     *)
(* decodes and stores them all or none, announces them to the makers and   *)
(* moves the cursor; it does not give way before the announcements.        *)
(***************************************************************************)
EXTENDS SolanaSettler

ASSUME SolanaFillsAssumption == SolanaPositions = 1..Cardinality(SolanaPositions)

VARIABLES
    head,           \* fills finalized on the chain
    known,          \* oTokens whose metadata can be found (row or account)
    cursor,         \* last_signature of solana_indexer_state, 0 when absent
    dayStart,       \* fills of earlier days, up to the day of the first cursor
    cache,          \* lru_cache of _load_otoken_metadata
    step,           \* of index_once
    batch,          \* its fills
    announced       \* history: fills announced to their makers

indexerVars == <<head, known, cursor, dayStart, cache, step, batch, announced>>
solanaPartVars == <<orders, chain, inflight, settlerVars, doubts, indexerVars>>

Upto(n) == {p \in SolanaPositions : p <= n}

SolanaIndexerTypeOK ==
    /\ head \in Nat /\ cursor \in 0..head /\ dayStart \in 0..head
    /\ known \subseteq OTokens
    /\ cache \in [OTokens -> {"unread", "found", "missing"}]
    /\ step \in {"idle", "announce"}
    /\ batch \subseteq Upto(head) /\ announced \subseteq Upto(head)
    /\ step # "idle" => batch # {}

SolanaIndexerInit ==
    /\ head = 0 /\ cursor = 0 /\ dayStart = 0
    /\ known \in SUBSET OTokens
    /\ cache = [t \in OTokens |-> "unread"]
    /\ step = "idle" /\ batch = {} /\ announced = {}

\* External: an order is executed and finalized.
ExecuteOrder ==
    /\ head < Cardinality(SolanaPositions)
    /\ head' = head + 1
    /\ UNCHANGED <<solanaVars, known, cursor, dayStart, cache, step, batch, announced>>

\* External: the metadata of an oToken appears.
LearnMetadata(t) ==
    /\ t \notin known
    /\ known' = known \union {t}
    /\ UNCHANGED <<solanaVars, head, cursor, dayStart, cache, step, batch, announced>>

\* External: a new day begins; it matters until there is a cursor.
Midnight ==
    /\ cursor = 0 /\ dayStart < head
    /\ dayStart' = head
    /\ UNCHANGED <<solanaVars, head, known, cursor, cache, step, batch, announced>>

\* _collect_candidate_signatures
Candidates ==
    {p \in Upto(head) : p > cursor /\ (cursor = 0 => p > dayStart)}

\* _load_otoken_metadata: what is found, or is not, is remembered.
Lookup(t) ==
    IF cache[t] # "unread" THEN cache[t] ELSE IF t \in known THEN "found" ELSE "missing"

Looked(ts) == [t \in OTokens |-> IF t \in ts THEN Lookup(t) ELSE cache[t]]

\* Faulty variant: the stored row replaces the whole row.
RowReplaced(p) == [NewRow EXCEPT !.complete = Lookup(OTokenOf[p]) = "found"]

\* _build_order_row, upserted: settlement columns keep their values.
RowStored(p) ==
    [(IF orders[p] = None THEN NewRow ELSE orders[p])
        EXCEPT !.complete = Lookup(OTokenOf[p]) = "found"]

\* A transaction cannot be read or decoded: what was looked up before it stays.
DecodeFails ==
    /\ \E n \in Candidates :
         cache' = Looked({OTokenOf[p] : p \in Candidates \intersect Upto(n - 1)})
    /\ UNCHANGED <<orders, batch, step>> /\ Fault

\* All are stored, or none.
PollSolana ==
    /\ step = "idle" /\ Candidates # {}
    /\ \/ /\ cache' = Looked({OTokenOf[p] : p \in Candidates})
          /\ \/ /\ orders' = [p \in SolanaPositions |->
                                IF p \in Candidates THEN RowStored(p) ELSE orders[p]]
                /\ batch' = Candidates /\ step' = "announce" /\ NoFault
             \/ UNCHANGED <<orders, batch, step>> /\ Fault
       \/ DecodeFails
    /\ UNCHANGED <<chain, inflight, settlerVars, doubts, restarts,
                   head, known, cursor, dayStart, announced>>

\* Faulty variant: the cursor moves to the chain's head of the moment.
AdvanceToHead ==
    /\ step = "announce"
    /\ announced' = announced \union batch
    /\ cursor' = head /\ NoFault
    /\ step' = "idle" /\ batch' = {}
    /\ UNCHANGED <<orders, chain, inflight, settlerVars, doubts, restarts,
                   head, known, dayStart, cache>>

\* _notify_mm for each fill, where errors are logged and others get their turn;
\* then _set_state, to the newest fill of the batch.
Advance ==
    /\ step = "announce"
    /\ announced' = announced \union batch
    /\ \/ cursor' = Max(batch) /\ NoFault
       \/ UNCHANGED cursor /\ Fault
    /\ step' = "idle" /\ batch' = {}
    /\ UNCHANGED <<orders, chain, inflight, settlerVars, doubts, restarts,
                   head, known, dayStart, cache>>

\* The process dies: the cache and the cycles of both bots are gone.
SolanaCrash ==
    /\ Restart
    /\ \E lost \in SUBSET SolanaPositions : SettlerDies(lost)
    /\ cache' = [t \in OTokens |-> "unread"]
    /\ step' = "idle" /\ batch' = {}
    /\ \E told \in SUBSET (IF step = "announce" THEN batch ELSE {}) :
         announced' = announced \union told
    /\ UNCHANGED <<faults, head, known, cursor, dayStart>>

SolanaIndex == PollSolana \/ Advance

SolanaSettling == SolanaSettle /\ UNCHANGED <<restarts, indexerVars>>

SolanaLands == LandAny /\ UNCHANGED indexerVars

SolanaNext ==
    \/ SolanaIndex \/ SolanaSettling \/ SolanaLands \/ SolanaCrash
    \/ ExecuteOrder \/ Midnight
    \/ \E t \in OTokens : LearnMetadata(t)

SolanaSpec ==
    /\ SolanaInit /\ SolanaIndexerInit /\ ProcessInit
    /\ [][SolanaNext]_<<solanaPartVars, faults, restarts>>
-----------------------------------------------------------------------------
(* Properties. *)

\* Behind the cursor every fill is stored and was announced, whatever failed
\* in between; only fills of days before the first cursor may be missing.
NoSolanaFillSkipped ==
    \A p \in Upto(cursor) : p > dayStart => orders[p] # None /\ p \in announced

\* Again and again no fill is left over: each is settled and delivered, or
\* settled and found out of the money - once calls stop failing and orders
\* stop coming, unless its row has no metadata or it fell before the first day.
FillsAreResolved ==
    []<>(\A p \in Upto(head) :
            \/ p <= dayStart
            \/ orders[p] # None /\ (~orders[p].complete \/ Resolved(p)))
=============================================================================
