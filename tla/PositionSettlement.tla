------------------------- MODULE PositionSettlement --------------------------
(***************************************************************************)
(* What an expiry settler promises of positions: the chain settles vaults, *)
(* where it Waits once their outcome is known, and delivers only what is   *)
(* settled and in the money; a row follows the chain, never ahead of it    *)
(* and never back.                                                         *)
(***************************************************************************)
CONSTANTS
    Position, None,
    Waits           \* are only vaults settled whose outcome is known?

VARIABLES
    outcome,        \* position -> None, or whether it ended in the money
    settled,        \* positions whose vault is settled
    delivered,      \* positions that were delivered
    row             \* position -> what its row says

vars == <<outcome, settled, delivered, row>>

Row == [settled : BOOLEAN, itm : BOOLEAN \union {None}, delivered : BOOLEAN]

TypeOK ==
    /\ outcome \in [Position -> BOOLEAN \union {None}]
    /\ settled \subseteq Position /\ delivered \subseteq Position
    /\ row \in [Position -> Row]

Init ==
    /\ outcome = [p \in Position |-> None]
    /\ settled = {} /\ delivered = {}
    /\ row = [p \in Position |-> [settled |-> FALSE, itm |-> None, delivered |-> FALSE]]

\* A price becomes final for some positions.
Decide ==
    /\ outcome' \in [Position -> BOOLEAN \union {None}]
    /\ \A p \in Position : outcome[p] # None => outcome'[p] = outcome[p]
    /\ UNCHANGED <<settled, delivered, row>>

Settle(ps) ==
    /\ Waits => \A p \in ps : outcome[p] # None
    /\ settled' = settled \union ps
    /\ UNCHANGED <<outcome, delivered, row>>

Deliver(p) ==
    /\ p \in settled /\ outcome[p] = TRUE
    /\ delivered' = delivered \union {p}
    /\ UNCHANGED <<outcome, settled, row>>

\* May the row of p say r?
Truthful(p, r) ==
    /\ r.settled => p \in settled
    /\ r.itm # None => r.itm = outcome[p]
    /\ r.delivered => p \in delivered

\* Does r take back nothing that the row of p says?
Keeps(p, r) ==
    /\ row[p].settled => r.settled
    /\ row[p].itm # None => r.itm = row[p].itm
    /\ row[p].delivered => r.delivered

Record(p) ==
    /\ \E r \in Row : Truthful(p, r) /\ Keeps(p, r) /\ row' = [row EXCEPT ![p] = r]
    /\ UNCHANGED <<outcome, settled, delivered>>

Next ==
    \/ Decide
    \/ \E ps \in SUBSET Position : Settle(ps)
    \/ \E p \in Position : Deliver(p) \/ Record(p)

Spec == Init /\ [][Next]_vars
=============================================================================
