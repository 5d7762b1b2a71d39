----------------------------- MODULE Settlement ------------------------------
(***************************************************************************)
(* The expiry settler together with the two tasks that share order_events  *)
(* with it: the event indexer, which attributes PhysicalDelivery events to *)
(* rows (bots/event_indexer.py), and POST /reconcile-settled, which turns  *)
(* settled positions back into deployable capital intents                  *)
(* (capital_intents/reconcile.py).  Both run on the event loop, so they    *)
(* take their steps while the settler is at an await.                      *)
(***************************************************************************)
EXTENDS ExpirySettler

VARIABLES
    seen,       \* deliveries whose event the indexer can read
    intent,     \* the capital intent that opened each position
    rotation    \* positions with a "rotation:<intent>:<tx>" intent

settlementVars == <<settlerVars, seen, intent, rotation>>

IntentStates == {"deployed", "completed", "assigned_rotating", "retryable"}

SettlementTypeOK ==
    /\ TypeOK
    /\ seen \subseteq Tx
    /\ intent \in [Positions -> IntentStates]
    /\ rotation \subseteq Positions

Init ==
    /\ SettlerInit
    /\ seen = {}
    /\ intent = [p \in Positions |-> "deployed"]
    /\ rotation = {}

LoopIsFree == pc \in Awaiting
-----------------------------------------------------------------------------
(* The event indexer. *)

\* The event's block is confirmed; it stays readable, for rescans and for the
\* subscription.
Confirm(t) ==
    /\ t \in delivered \ seen
    /\ seen' = seen \union {t}
    /\ UNCHANGED <<settlerVars, intent, rotation>>

RowsOf(s) == {p \in due : SeriesOf[p] = s}

\* Faulty variant: an event is attributed again on every rescan.
NeverAttributed(t) == FALSE

\* A row already records this exact transaction.
Attributed(t) == \E p \in RowsOf(SeriesOf[t[1]]) : row[p].delivery = t

\* _update_delivery_events: the event has no vault id, so it goes to the
\* unmarked row with the lowest one.
AttributeDelivery(t) ==
    /\ LoopIsFree
    /\ t \in seen /\ ~Attributed(t)
    /\ LET unmarked == {p \in RowsOf(SeriesOf[t[1]]) : row[p].delivery = None}
           p == Min(unmarked)
       IN  /\ unmarked # {}
           /\ Update(p, [row[p] EXCEPT !.type = "physical", !.itm = "yes", !.delivery = t])
    /\ UNCHANGED <<due, pc, local, chain, restarts, seen, intent, rotation>>
-----------------------------------------------------------------------------
(* reconcile_settled_positions, for the intents it finds deployed. *)

\* Faulty variant: the type written by phase 1 counts as an assignment.
IsAssignedByType(p) == row[p].itm = "yes" \/ row[p].type \in {"cash", "physical"}

IsAssigned(p) == row[p].itm = "yes" \/ row[p].type = "physical"

SetIntent(p, status) ==
    \/ intent' = [intent EXCEPT ![p] = status] /\ UNCHANGED faults
    \/ Fault /\ (intent' = [intent EXCEPT ![p] = status] \/ UNCHANGED intent)

ReconcileVerdict(p) ==
    /\ row[p].type = "physical_failed" \/ IsAssigned(p)
    /\ SetIntent(p, IF row[p].type = "physical_failed"
                    THEN "retryable" ELSE "assigned_rotating")
    /\ UNCHANGED rotation

\* Faulty variant: the original is completed although the insert failed.
RotateCompletingFirst(p) ==
    /\ ~(row[p].type = "physical_failed" \/ IsAssigned(p))
    /\ SetIntent(p, "completed")
    /\ rotation' = rotation \union {p} \/ (Fault /\ UNCHANGED rotation)

\* The rotation is inserted, unless it is there, then the original completed;
\* a call that raises, or a crash after it, ends the pass.
Rotate(p) ==
    /\ ~(row[p].type = "physical_failed" \/ IsAssigned(p))
    /\ \/ rotation' = rotation \union {p} /\ SetIntent(p, "completed")
       \/ rotation' = rotation \union {p} /\ UNCHANGED <<intent, faults>>
       \/ p \notin rotation /\ Fault /\ UNCHANGED <<intent, rotation>>

\* Faulty variant: an unsettled position is not skipped.
ReconcileUnsettledIntent(p) ==
    /\ LoopIsFree
    /\ intent[p] = "deployed" /\ p \in due
    /\ ReconcileVerdict(p) \/ Rotate(p)
    /\ UNCHANGED <<due, row, pc, local, chain, restarts, seen>>

ReconcileIntent(p) ==
    /\ LoopIsFree
    /\ intent[p] = "deployed" /\ row[p].settled
    /\ ReconcileVerdict(p) \/ Rotate(p)
    /\ UNCHANGED <<due, row, pc, local, chain, restarts, seen>>

\* The agent deploys the rotated capital into a new position; the operator's
\* PATCH of a retryable intent is outside this module.
Others ==
    \/ \E t \in delivered : Confirm(t) \/ AttributeDelivery(t)
    \/ \E p \in Positions : ReconcileIntent(p)

Next == (SettlerNext /\ UNCHANGED <<seen, intent, rotation>>) \/ Others

Spec == Init /\ [][Next]_settlementVars
-----------------------------------------------------------------------------
(* Properties. *)

\* "claim one row per event": however often an event is read and whatever the
\* settler records itself, two rows never show the same delivery, and every
\* delivery a row shows was made, for its oToken, after the vault was settled.
DeliveriesAttributedOnce ==
    /\ \A p, q \in Positions :
          row[p].delivery # None /\ row[p].delivery = row[q].delivery => p = q
    /\ \A p \in Positions : row[p].delivery # None =>
          /\ row[p].delivery \in delivered
          /\ SeriesOf[row[p].delivery[1]] = SeriesOf[p]
          /\ row[p].delivery[1] \in vaultSettled

\* Capital is neither lost nor redeployed early: an intent is completed only
\* when the intent that redeploys its capital exists, and that one exists only
\* once the vault has released the collateral on the chain.
CapitalIsConserved ==
    \A p \in Positions :
        /\ intent[p] = "completed" => p \in rotation
        /\ p \in rotation => p \in vaultSettled

\* The position's verdict survives the other writers of the row: the indexer
\* and the settler never contradict the oracle between them.
VerdictsAgree ==
    \A p \in Positions :
        /\ row[p].itm # "null" => price[SeriesOf[p]] = (IF row[p].itm = "yes" THEN "in" ELSE "out")
        /\ intent[p] \in {"assigned_rotating", "retryable"} => price[SeriesOf[p]] = "in"

\* "ITM / assigned: mark the original intent assigned_rotating; CSP redeploy
\* must wait for asset-rotation logic": an in-the-money position's collateral
\* is never rotated into a fresh deployment.
AssignedNeverRotated ==
    \A p \in rotation : price[SeriesOf[p]] # "in"
=============================================================================
