-------------------------- MODULE WeeklyAggregator ---------------------------
(***************************************************************************)
(* The weekly aggregator (bots/weekly_aggregator.py): one row per user and *)
(* week with a running total, and one report per week.  A failed           *)
(* aggregation is tried again; a process that died waits for the next week.*)
(***************************************************************************)
EXTENDS Process, Functions

CONSTANTS
    Users,
    MaxWeeks,       \* bound: weeks
    Pnls,           \* results a user can have in a week, losses too
    MaxTries        \* _MAX_RETRIES

ASSUME WeeklyAssumption ==
    MaxWeeks \in Nat /\ MaxTries \in Nat \ {0} /\ Pnls \subseteq Int

VARIABLES
    week,           \* the week at hand; 0 before the first
    pnl,            \* its users with positions, and their results
    try,            \* attempts begun in this week; 0 while waiting
    results,        \* user_weekly_results: user -> week -> row
    reports,        \* weekly_reports: weeks
    writes          \* history: user -> week -> times the row was written

weekVars == <<week, pnl, try, results, reports, writes>>

Weeks == 1..MaxWeeks
Results == [pnl : Int, total : Int]

ASSUME WeeklyRowAssumption == None \notin Results

WeeklyTypeOK ==
    /\ week \in 0..MaxWeeks
    /\ DOMAIN pnl \subseteq Users
    /\ \A u \in DOMAIN pnl : pnl[u] \in Pnls
    /\ try \in 0..MaxTries
    /\ results \in [Users -> [Weeks -> Results \union {None}]]
    /\ reports \subseteq Weeks
    /\ writes \in [Users -> [Weeks -> 0..MaxTries]]
    /\ ProcessTypeOK

WeeklyInit ==
    /\ week = 0 /\ try = 0 /\ reports = {}
    /\ pnl = [u \in {} |-> 0]
    /\ results = [u \in Users |-> [w \in Weeks |-> None]]
    /\ writes = [u \in Users |-> [w \in Weeks |-> 0]]

RowsOf(u) == {w \in Weeks : results[u][w] # None}

\* Faulty variant: the oldest row instead of the most recent one.
FirstCumulative(u) == IF RowsOf(u) = {} THEN 0 ELSE results[u][Min(RowsOf(u))].total

\* _get_prev_cumulative: the most recent total, of whatever week.
PrevCumulative(u) == IF RowsOf(u) = {} THEN 0 ELSE results[u][Max(RowsOf(u))].total

\* _wait_until_target: the next week's positions are grouped by user; without
\* any there is nothing to do.
StartWeek ==
    /\ try = 0 /\ week < MaxWeeks
    /\ week' = week + 1
    /\ \E active \in SUBSET Users :
         /\ pnl' \in [active -> Pnls]
         /\ try' = IF active = {} THEN 0 ELSE 1
    /\ UNCHANGED <<results, reports, writes, faults, restarts>>

\* The rows after the upserts for some of the users went through.  The total
\* read for a row may be that row's own, if an earlier attempt has written it.
Upserted(written) ==
    /\ results' = [u \in Users |->
          IF u \in written
          THEN [results[u] EXCEPT ![week] =
                  [pnl |-> pnl[u], total |-> PrevCumulative(u) + pnl[u]]]
          ELSE results[u]]
    /\ writes' = [u \in Users |->
          IF u \in written THEN [writes[u] EXCEPT ![week] = @ + 1] ELSE writes[u]]

TryAgain == try' = IF try < MaxTries THEN try + 1 ELSE 0

\* aggregate_once: every row and the report are written, or it raises: the
\* prices or the positions cannot be read, some upserts fail (the others are
\* made), or the report fails after all of them.
Aggregate ==
    /\ try > 0
    /\ \/ /\ Upserted(DOMAIN pnl)
          /\ \/ reports' = reports \union {week} /\ try' = 0 /\ NoFault
             \/ UNCHANGED reports /\ TryAgain /\ Fault
       \/ /\ \E written \in SUBSET DOMAIN pnl : written # DOMAIN pnl /\ Upserted(written)
          /\ UNCHANGED reports /\ TryAgain /\ Fault
    /\ UNCHANGED <<week, pnl, restarts>>

\* The process dies between two upserts, and waits for the next week.
WeeklyCrash ==
    /\ try > 0 /\ Restart
    /\ \E written \in SUBSET DOMAIN pnl : Upserted(written)
    /\ try' = 0
    /\ UNCHANGED <<week, pnl, reports, faults>>

WeeklyNext == StartWeek \/ Aggregate \/ WeeklyCrash

WeeklySpec ==
    WeeklyInit /\ ProcessInit /\ [][WeeklyNext]_<<weekVars, faults, restarts>>
-----------------------------------------------------------------------------
(* Properties. *)

\* What the user's rows up to week w say of each, as often as it was written.
Counted(u, w) ==
    [v \in {x \in RowsOf(u) : x <= w} |-> writes[u][v] * results[u][v].pnl]

\* The running total of a user is the sum of the user's weeks, over skipped
\* weeks, failed attempts and crashes: exactly, each week counted once for every
\* time its row was written, since an attempt reads the total that a failed one
\* has written for the same week (the sum proper is what calls that never fail
\* give: a week counts again only for a failed call).  A week with a report has
\* the row of every user of that week.
TotalsAreSums ==
    /\ \A u \in Users : \A w \in RowsOf(u) :
          /\ results[u][w].total = SumFunction(Counted(u, w))
          /\ writes[u][w] \in 1..(1 + faults)
    /\ week \in reports => \A u \in DOMAIN pnl : results[u][week] # None
=============================================================================
