---------------------------- MODULE SolanaProofs -----------------------------
(***************************************************************************)
(* Theorems about the Solana settler and indexer for every set of          *)
(* positions and oTokens, every order of fills, and every number of        *)
(* failures and crashes.                                                   *)
(***************************************************************************)
EXTENDS SolanaIndexer, FiniteSetTheorems, WellFoundedInduction, TLAPS

-----------------------------------------------------------------------------
(* Type correctness. *)

\* Positions the cycle works on, or is about to.
PositionsAtWork ==
    positions \union recovery \union settled \union itm
        \union (IF stage \in {"settle", "mark", "identify", "redeem", "record"}
                THEN todo ELSE {})
        \union (IF stage \in {"mark", "record"} THEN {current} ELSE {})

\* They have rows; phase 0 works on oTokens.
WorkInv ==
    /\ \A p \in PositionsAtWork : p \in SolanaPositions /\ orders[p] # None
    /\ stage \in {"oracle", "controller", "retry"} => todo \subseteq OTokens
    /\ stage = "controller" => current \in OTokens

SolanaTypeInv == SolanaTypeOK /\ SolanaIndexerTypeOK /\ WorkInv

Accounts ==
    [oracle : [OTokens -> Prices \union {None}], controller : SUBSET OTokens,
     settled : SUBSET SolanaPositions, deliveries : [SolanaPositions -> Nat]]

LEMMA TransactionKinds ==
    ASSUME NEW tx \in Transactions
    PROVE  \/ \E t \in OTokens, price \in Prices : tx = <<"oracle", t, price>>
           \/ \E t \in OTokens : tx = <<"controller", t>>
           \/ \E p \in SolanaPositions : tx = <<"settle", p>>
           \/ \E p \in SolanaPositions : tx = <<"redeem", p>>
BY DEF Transactions

LEMMA EffectTypes ==
    ASSUME chain \in Accounts, NEW tx \in Transactions
    PROVE  Effect(tx) \in Accounts
<1>1. ASSUME NEW t \in OTokens, NEW price \in Prices, tx = <<"oracle", t, price>>
      PROVE  Effect(tx) \in Accounts
  <2>1. Effect(tx) = [chain EXCEPT !.oracle[t] = price]
    BY <1>1 DEF Effect
  <2> QED BY <2>1 DEF Accounts
<1>2. ASSUME NEW t \in OTokens, tx = <<"controller", t>> PROVE Effect(tx) \in Accounts
  <2>1. Effect(tx) = [chain EXCEPT !.controller = @ \union {t}]
    BY <1>2 DEF Effect
  <2> QED BY <2>1 DEF Accounts
<1>3. ASSUME NEW p \in SolanaPositions, tx = <<"settle", p>> PROVE Effect(tx) \in Accounts
  <2>1. Effect(tx) = [chain EXCEPT !.settled = @ \union {p}]
    BY <1>3 DEF Effect
  <2> QED BY <2>1 DEF Accounts
<1>4. ASSUME NEW p \in SolanaPositions, tx = <<"redeem", p>> PROVE Effect(tx) \in Accounts
  <2>1. Effect(tx) = [chain EXCEPT !.deliveries[p] = @ + 1]
    BY <1>4 DEF Effect
  <2> QED BY <2>1 DEF Accounts
<1> QED BY <1>1, <1>2, <1>3, <1>4, TransactionKinds

\* What a step does to the chain and to the rows: one transaction takes effect,
\* one row changes, rows are stored, or neither.
ChainMoves ==
    /\ \E tx \in Transactions : Applies(tx) /\ chain' = Effect(tx)
    /\ UNCHANGED orders

RowMoves ==
    /\ UNCHANGED chain
    /\ \E p \in SolanaPositions : \E r \in OrderRow :
          orders[p] # None /\ orders' = [orders EXCEPT ![p] = r]

RowsAppear ==
    /\ UNCHANGED chain
    /\ \E ps \in SUBSET SolanaPositions :
          orders' = [p \in SolanaPositions |-> IF p \in ps THEN RowStored(p) ELSE orders[p]]

LEMMA NewRowType == NewRow \in OrderRow
BY DEF OrderRow, NewRow

\* What every mark makes of a row is a row.
LEMMA MarkedTypes ==
    ASSUME NEW r \in OrderRow, NEW fl \in BOOLEAN
    PROVE  /\ [r EXCEPT !.settled = TRUE, !.type = "cash"] \in OrderRow
           /\ [r EXCEPT !.itm = FALSE] \in OrderRow
           /\ [r EXCEPT !.type = "physical_failed", !.itm = TRUE] \in OrderRow
           /\ [r EXCEPT !.type = "physical_failed", !.itm = TRUE, !.delivered = TRUE] \in OrderRow
           /\ [r EXCEPT !.type = "physical", !.itm = TRUE, !.delivered = TRUE] \in OrderRow
           /\ [r EXCEPT !.complete = fl] \in OrderRow
BY DEF OrderRow

LEMMA StoredTypes ==
    ASSUME SolanaTypeOK, NEW p \in SolanaPositions
    PROVE  RowStored(p) \in OrderRow
<1> DEFINE r == IF orders[p] = None THEN NewRow ELSE orders[p]
           found == Lookup(OTokenOf[p]) = "found"
<1>1. r \in OrderRow
  BY NewRowType DEF SolanaTypeOK
<1>2. found \in BOOLEAN
  OBVIOUS
<1>3. [r EXCEPT !.complete = found] \in OrderRow
  <2> HIDE DEF r, found
  <2> QED BY <1>1, <1>2, MarkedTypes
<1> QED BY <1>3 DEF RowStored

LEMMA ConfirmedMoves ==
    ASSUME NEW tx \in Transactions, Confirmed(tx), UNCHANGED orders
    PROVE  ChainMoves
BY DEF Confirmed, ChainMoves

\* Every step is of one of these kinds.
LEMMA StepKinds ==
    ASSUME SolanaTypeInv, SolanaNext
    PROVE  ChainMoves \/ RowMoves \/ RowsAppear \/ UNCHANGED <<chain, orders>>
<1> USE DEF SolanaTypeInv
<1>a. \A t \in OTokens : /\ \A price \in Prices : <<"oracle", t, price>> \in Transactions
                         /\ <<"controller", t>> \in Transactions
  BY DEF Transactions
<1>b. \A p \in SolanaPositions : <<"settle", p>> \in Transactions
                                /\ <<"redeem", p>> \in Transactions
  BY DEF Transactions
<1>c. \A p \in SolanaPositions : orders[p] # None => orders[p] \in OrderRow
  BY DEF SolanaTypeOK
<1>d. ASSUME NEW t \in OTokens, CopyPrice(t), UNCHANGED orders
      PROVE  ChainMoves \/ UNCHANGED <<chain, orders>>
  BY <1>a, <1>d, ConfirmedMoves DEF CopyPrice, Refused, TimedOut
<1>e. ASSUME NEW p \in SolanaPositions, orders[p] # None, UNCHANGED chain,
             NEW r \in OrderRow, Mark(p, r)
      PROVE  RowMoves
  BY <1>e DEF Mark, RowMoves
<1>f. ASSUME NEW p \in SolanaPositions, orders[p] # None, UNCHANGED chain,
             MarkSettled(p) \/ MarkItmFailed(p) \/ MarkItmRedeemed(p)
      PROVE  RowMoves
  BY <1>c, <1>e, <1>f, MarkedTypes DEF MarkSettled, MarkItmFailed, MarkItmRedeemed
<1>1. CASE SolanaIndex
  <2>1. CASE PollSolana
    <3>1. CASE UNCHANGED orders
      BY <2>1, <3>1 DEF PollSolana
    <3>2. CASE orders' = [p \in SolanaPositions |-> IF p \in Candidates THEN RowStored(p) ELSE orders[p]]
      BY <2>1, <3>2 DEF PollSolana, RowsAppear, Candidates, Upto
    <3> QED BY <2>1, <3>1, <3>2 DEF PollSolana, DecodeFails
  <2>2. CASE Advance
    BY <2>2 DEF Advance
  <2> QED BY <1>1, <2>1, <2>2 DEF SolanaIndex
<1>2. CASE SolanaSettling
  <2>1. CASE StartSolanaCycle \/ RaiseSolana \/ BeginRetryPrices \/ BeginSettle
             \/ EndPhase1Solana \/ BeginRedeem \/ EndSolanaCycle
    BY <2>1 DEF StartSolanaCycle, RaiseSolana, BeginRetryPrices, BeginSettle, EndPhase1Solana,
                BeginRedeem, EndSolanaCycle
  <2>2. ASSUME NEW t \in OTokens, EnsureOraclePrice(t)
        PROVE  ChainMoves \/ UNCHANGED <<chain, orders>>
    BY <1>a, <2>2, ConfirmedMoves DEF EnsureOraclePrice, NoPriceUpdate, Refused, TimedOut
  <2>3. ASSUME NEW t \in OTokens, RetryPrice(t)
        PROVE  ChainMoves \/ UNCHANGED <<chain, orders>>
    BY <1>d, <2>3 DEF RetryPrice
  <2>4. CASE SetControllerPrice
    BY <1>d, <2>4 DEF SetControllerPrice, WorkInv
  <2>5. CASE MarkVault
    <3>1. current \in SolanaPositions /\ orders[current] # None
      BY <2>5 DEF MarkVault, WorkInv, PositionsAtWork
    <3> QED BY <1>f, <2>5, <3>1 DEF MarkVault
  <2>6. ASSUME NEW p \in SolanaPositions, Phase1(p)
        PROVE  ChainMoves \/ RowMoves \/ UNCHANGED <<chain, orders>>
    <3>1. orders[p] # None
      BY <2>6 DEF Phase1, WorkInv, PositionsAtWork
    <3>2. CASE ReconcileVault(p)
      BY <1>f, <3>1, <3>2 DEF ReconcileVault
    <3>3. CASE SettleVault(p)
      BY <1>b, <3>3, ConfirmedMoves DEF SettleVault, Refused, TimedOut
    <3> QED BY <2>6, <3>2, <3>3 DEF Phase1
  <2>7. ASSUME NEW p \in SolanaPositions, IdentifyItm(p)
        PROVE  RowMoves \/ UNCHANGED <<chain, orders>>
    <3>1. orders[p] # None
      BY <2>7 DEF IdentifyItm, WorkInv, PositionsAtWork
    <3>2. PICK price \in Prices \union {None} : Classify(p, price)
      BY <2>7 DEF IdentifyItm
    <3>3. UNCHANGED orders \/ Mark(p, [orders[p] EXCEPT !.itm = FALSE])
      BY <3>2 DEF Classify
    <3> QED BY <1>c, <1>e, <2>7, <3>1, <3>3, MarkedTypes DEF IdentifyItm
  <2>8. ASSUME NEW p \in SolanaPositions, RedeemItm(p)
        PROVE  ChainMoves \/ RowMoves \/ UNCHANGED <<chain, orders>>
    <3>1. orders[p] # None
      BY <2>8 DEF RedeemItm, WorkInv, PositionsAtWork
    <3>2. CASE Confirmed(<<"redeem", p>>) /\ UNCHANGED orders
      BY <1>b, <3>2, ConfirmedMoves
    <3>3. CASE UNCHANGED chain /\ (MarkItmFailed(p) \/ UNCHANGED orders)
      BY <1>f, <3>1, <3>3
    <3> QED BY <2>8, <3>2, <3>3 DEF RedeemItm, NothingToSend, Refused, TimedOut, MarkFailedOrRaise
  <2>9. CASE RecordDelivery
    <3>1. current \in SolanaPositions /\ orders[current] # None
      BY <2>9 DEF RecordDelivery, WorkInv, PositionsAtWork
    <3>2. CASE Mark(current, [orders[current] EXCEPT !.type = "physical_failed", !.itm = TRUE,
                                                    !.delivered = TRUE])
      BY <1>c, <1>e, <2>9, <3>1, <3>2, MarkedTypes DEF RecordDelivery
    <3>3. CASE MarkItmRedeemed(current) \/ MarkItmFailed(current)
      BY <1>f, <2>9, <3>1, <3>3 DEF RecordDelivery
    <3> QED BY <2>9, <3>2, <3>3 DEF RecordDelivery
  <2> QED BY <1>2, <2>1, <2>2, <2>3, <2>4, <2>5, <2>6, <2>7, <2>8, <2>9
      DEF SolanaSettling, SolanaSettle
<1>3. CASE SolanaLands
  BY <1>3 DEF SolanaLands, LandAny, Land, ChainMoves, SolanaTypeOK
<1>4. CASE SolanaCrash
  BY <1>4 DEF SolanaCrash, SettlerDies
<1>5. CASE ExecuteOrder \/ Midnight \/ \E t \in OTokens : LearnMetadata(t)
  BY <1>5 DEF ExecuteOrder, Midnight, LearnMetadata, solanaVars
<1> QED BY <1>1, <1>2, <1>3, <1>4, <1>5 DEF SolanaNext

LEMMA StoreTypes ==
    ASSUME SolanaTypeInv, SolanaNext
    PROVE  /\ chain' \in Accounts
           /\ orders' \in [SolanaPositions -> OrderRow \union {None}]
           /\ \A p \in SolanaPositions : orders[p] # None => orders'[p] # None
<1>1. chain \in Accounts /\ orders \in [SolanaPositions -> OrderRow \union {None}]
  BY DEF SolanaTypeInv, SolanaTypeOK, Accounts
<1>2. CASE ChainMoves
  BY <1>1, <1>2, EffectTypes DEF ChainMoves
<1>3. CASE RowMoves
  BY <1>1, <1>3, NoRowAssumption DEF RowMoves
<1>4. CASE RowsAppear
  BY <1>1, <1>4, StoredTypes, NoRowAssumption DEF RowsAppear, SolanaTypeInv
<1>5. CASE UNCHANGED <<chain, orders>>
  BY <1>1, <1>5
<1> QED BY <1>2, <1>3, <1>4, <1>5, StepKinds

\* The cycle's part of SolanaTypeOK.
CycleTypeOK ==
    /\ inflight \subseteq Transactions
    /\ stage \in {"idle", "oracle", "controller", "retry", "settle", "mark",
                  "identify", "redeem", "record"}
    /\ todo \subseteq (SolanaPositions \union OTokens)
    /\ positions \subseteq SolanaPositions /\ recovery \subseteq SolanaPositions
    /\ settled \subseteq SolanaPositions /\ itm \subseteq SolanaPositions
    /\ prices \in [OTokens -> Prices \union {None, "unread"}]
    /\ current \in SolanaPositions \union OTokens \union {None}
    /\ doubts \in [SolanaPositions -> Nat]
    /\ ProcessTypeOK

LEMMA SolanaFaultTypes == ProcessTypeOK /\ (Fault \/ NoFault) /\ UNCHANGED restarts => ProcessTypeOK'
BY ProcessAssumption DEF ProcessTypeOK, Fault, NoFault

LEMMA SolanaSendTypes ==
    ASSUME inflight \subseteq Transactions, NEW tx \in Transactions,
           Confirmed(tx) \/ Refused(tx) \/ TimedOut(tx)
    PROVE  inflight' \subseteq Transactions
BY DEF Confirmed, Refused, TimedOut

LEMMA SettlingTypes ==
    ASSUME SolanaTypeInv, SolanaSettling,
           \A p \in SolanaPositions : orders[p] # None => orders'[p] # None
    PROVE  CycleTypeOK' /\ WorkInv'
<1> USE DEF SolanaTypeInv
<1>a. ProcessTypeOK'
  BY SolanaFaultTypes
     DEF SolanaSettling, SolanaSettle, SolanaTypeOK, StartSolanaCycle, RaiseSolana,
         EnsureOraclePrice, RetryPrice, SetControllerPrice, BeginRetryPrices, BeginSettle,
         MarkVault, Phase1, IdentifyItm, RedeemItm, EndPhase1Solana, BeginRedeem,
         RecordDelivery, EndSolanaCycle, NoPriceUpdate, Confirmed, Refused, TimedOut,
         CopyPrice, ReconcileVault, SettleVault, PriceRead, NothingToSend, NoFault
<1>b. CycleTypeOK
  BY DEF SolanaTypeOK, CycleTypeOK
<1>c. \A t \in OTokens : /\ \A price \in Prices : <<"oracle", t, price>> \in Transactions
                         /\ <<"controller", t>> \in Transactions
  BY DEF Transactions
<1>d. \A p \in SolanaPositions : <<"settle", p>> \in Transactions
                                /\ <<"redeem", p>> \in Transactions
  BY DEF Transactions
<1>e. \A p \in SolanaPositions : OTokenOf[p] \in OTokens
  BY SolanaAssumption
<1>f. ASSUME CycleEnds, inflight' \subseteq Transactions, doubts' \in [SolanaPositions -> Nat]
      PROVE  CycleTypeOK' /\ WorkInv'
  BY <1>a, <1>f DEF CycleEnds, Goto, CycleTypeOK, WorkInv, PositionsAtWork, Unread
<1>1. CASE StartSolanaCycle
  <2>1. \A p \in Unsettled \union PendingPhase2 : p \in SolanaPositions /\ orders[p] # None
    BY DEF Unsettled, PendingPhase2, Complete
  <2>2. \/ stage' = "oracle" /\ todo' \subseteq OTokens
        \/ stage' = "settle" /\ todo' = {}
    BY <1>e, <1>1, <2>1 DEF StartSolanaCycle, Goto
  <2>3. /\ positions' = Unsettled /\ recovery' = PendingPhase2
        /\ UNCHANGED <<settled, itm, prices, current, doubts, inflight>>
        /\ settled \union itm \subseteq PositionsAtWork
    BY <1>1 DEF StartSolanaCycle, PositionsAtWork
  <2>4. CycleTypeOK'
    BY <1>a, <1>b, <2>1, <2>2, <2>3 DEF CycleTypeOK
  <2>5. \A p \in PositionsAtWork' : p \in Unsettled \union PendingPhase2 \union settled \union itm
    BY <2>2, <2>3 DEF PositionsAtWork
  <2>6. WorkInv'
    BY <2>1, <2>2, <2>3, <2>5 DEF WorkInv
  <2> QED BY <2>4, <2>6
<1>2. CASE RaiseSolana \/ EndSolanaCycle
  BY <1>b, <1>f, <1>2 DEF RaiseSolana, EndSolanaCycle, CycleTypeOK
<1>3. ASSUME NEW t \in OTokens, EnsureOraclePrice(t) PROVE CycleTypeOK' /\ WorkInv'
  <2>1. inflight' \subseteq Transactions
    <3>1. UNCHANGED inflight \/ \E price \in Prices :
             LET tx == <<"oracle", t, price>> IN Confirmed(tx) \/ Refused(tx) \/ TimedOut(tx)
      BY <1>3 DEF EnsureOraclePrice, NoPriceUpdate
    <3> QED BY <1>b, <1>c, <3>1, SolanaSendTypes DEF CycleTypeOK
  <2>2. /\ \/ stage' = "oracle" /\ current' = current
           \/ stage' = "controller" /\ current' = t
        /\ todo' = todo \ {t} /\ stage = "oracle"
        /\ UNCHANGED <<positions, recovery, settled, itm, prices, doubts>>
    BY <1>3 DEF EnsureOraclePrice, Goto
  <2> QED BY <1>a, <1>b, <2>1, <2>2 DEF CycleTypeOK, WorkInv, PositionsAtWork
<1>4. ASSUME NEW t \in OTokens, RetryPrice(t) PROVE CycleTypeOK' /\ WorkInv'
  <2>1. inflight' \subseteq Transactions
    BY <1>b, <1>c, <1>4, SolanaSendTypes DEF RetryPrice, CopyPrice, CycleTypeOK
  <2> QED BY <1>a, <1>b, <1>4, <2>1 DEF RetryPrice, Goto, CycleTypeOK, WorkInv, PositionsAtWork
<1>5. CASE SetControllerPrice
  <2>1. inflight' \subseteq Transactions
    BY <1>b, <1>c, <1>5, SolanaSendTypes DEF SetControllerPrice, CopyPrice, CycleTypeOK, WorkInv
  <2> QED BY <1>a, <1>b, <1>5, <2>1 DEF SetControllerPrice, Goto, CycleTypeOK, WorkInv, PositionsAtWork
<1>6. CASE BeginRetryPrices \/ BeginSettle
  BY <1>a, <1>b, <1>e, <1>6 DEF BeginRetryPrices, BeginSettle, Goto, CycleTypeOK, WorkInv, PositionsAtWork
<1>7. CASE MarkVault
  <2>1. doubts' \in [SolanaPositions -> Nat]
    BY <1>b, <1>7 DEF MarkVault, CycleTypeOK, WorkInv, PositionsAtWork
  <2> QED BY <1>a, <1>b, <1>7, <2>1 DEF MarkVault, Goto, CycleTypeOK, WorkInv, PositionsAtWork
<1>8. ASSUME NEW p \in SolanaPositions, Phase1(p) PROVE CycleTypeOK' /\ WorkInv'
  <2>1. inflight' \subseteq Transactions
    BY <1>b, <1>d, <1>8, SolanaSendTypes DEF Phase1, ReconcileVault, SettleVault, CycleTypeOK
  <2>2. /\ stage = "settle" /\ p \in todo /\ todo' = todo \ {p}
        /\ \/ stage' = "settle" /\ current' = current
           \/ stage' = "mark" /\ current' = p
        /\ settled' \subseteq settled \union {p}
        /\ UNCHANGED <<positions, recovery, itm, prices, doubts>>
    BY <1>8 DEF Phase1, ReconcileVault, SettleVault, Goto
  <2>3. p \in PositionsAtWork
    BY <2>2 DEF PositionsAtWork
  <2> QED BY <1>a, <1>b, <2>1, <2>2, <2>3 DEF CycleTypeOK, WorkInv, PositionsAtWork
<1>9. ASSUME NEW p \in SolanaPositions, IdentifyItm(p) PROVE CycleTypeOK' /\ WorkInv'
  <2>1. PICK price \in Prices \union {None} : PriceRead(OTokenOf[p], price) /\ Classify(p, price)
    BY <1>9 DEF IdentifyItm
  <2>2. prices' \in [OTokens -> Prices \union {None, "unread"}]
    BY <1>b, <1>e, <2>1 DEF PriceRead, CycleTypeOK
  <2>3. itm' \subseteq itm \union {p}
    BY <2>1 DEF Classify
  <2>4. p \in PositionsAtWork
    BY <1>9 DEF IdentifyItm, PositionsAtWork
  <2> QED BY <1>a, <1>b, <1>9, <2>2, <2>3, <2>4 DEF IdentifyItm, Goto, CycleTypeOK, WorkInv, PositionsAtWork
<1>10. CASE EndPhase1Solana
  BY <1>a, <1>b, <1>10 DEF EndPhase1Solana, Goto, CycleTypeOK, WorkInv, PositionsAtWork
<1>11. CASE BeginRedeem
  BY <1>a, <1>b, <1>11 DEF BeginRedeem, Goto, CycleTypeOK, WorkInv, PositionsAtWork, Unread
<1>12. ASSUME NEW p \in SolanaPositions, RedeemItm(p) PROVE CycleTypeOK' /\ WorkInv'
  <2>1. inflight' \subseteq Transactions
    BY <1>b, <1>d, <1>12, SolanaSendTypes DEF RedeemItm, NothingToSend, CycleTypeOK
  <2>2. doubts' \in [SolanaPositions -> Nat]
    BY <1>b, <1>12 DEF RedeemItm, Doubt, CycleTypeOK
  <2>3. stage = "redeem" /\ p \in todo
    BY <1>12 DEF RedeemItm
  <2>4. \/ CycleEnds
        \/ /\ todo' = todo \ {p}
           /\ \/ stage' = "redeem" /\ current' = current
              \/ stage' = "record" /\ current' = p
           /\ UNCHANGED <<positions, recovery, settled, itm, prices>>
    BY <1>12 DEF RedeemItm, MarkFailedOrRaise, Goto
  <2>5. p \in PositionsAtWork
    BY <2>3 DEF PositionsAtWork
  <2> QED BY <1>a, <1>b, <1>f, <2>1, <2>2, <2>3, <2>4, <2>5 DEF CycleTypeOK, WorkInv, PositionsAtWork
<1>13. CASE RecordDelivery
  <2>1. doubts' \in [SolanaPositions -> Nat]
    BY <1>b, <1>13 DEF RecordDelivery, Doubt, CycleTypeOK, WorkInv, PositionsAtWork
  <2>2. inflight' \subseteq Transactions
    BY <1>b, <1>13 DEF RecordDelivery, CycleTypeOK
  <2>3. \/ CycleEnds
        \/ /\ stage' = "redeem" /\ todo' = todo /\ current' = None
           /\ UNCHANGED <<positions, recovery, settled, itm, prices>>
    BY <1>13 DEF RecordDelivery, Goto
  <2> QED BY <1>a, <1>b, <1>f, <1>13, <2>1, <2>2, <2>3 DEF RecordDelivery, CycleTypeOK, WorkInv, PositionsAtWork
<1> QED BY <1>1, <1>2, <1>3, <1>4, <1>5, <1>6, <1>7, <1>8, <1>9, <1>10, <1>11, <1>12, <1>13
    DEF SolanaSettling, SolanaSettle

LEMMA SolanaCrashTypes ==
    ASSUME SolanaTypeInv, SolanaCrash
    PROVE  CycleTypeOK' /\ WorkInv'
<1> USE DEF SolanaTypeInv
<1>1. PICK lost \in SUBSET SolanaPositions : SettlerDies(lost)
  BY DEF SolanaCrash
<1>2. \A p \in lost : <<"redeem", p>> \in Transactions
  BY DEF Transactions
<1>3. inflight' \subseteq Transactions
  BY <1>1, <1>2 DEF SettlerDies, SolanaTypeOK
<1>4. doubts' \in [SolanaPositions -> Nat]
  BY <1>1 DEF SettlerDies, SolanaTypeOK
<1>5. ProcessTypeOK'
  BY ProcessAssumption DEF SolanaCrash, Restart, SolanaTypeOK, ProcessTypeOK
<1> QED BY <1>1, <1>3, <1>4, <1>5
    DEF SettlerDies, CycleEnds, Goto, CycleTypeOK, WorkInv, PositionsAtWork, Unread

\* The newest fill of a batch.
LEMMA MaxOfBatch ==
    ASSUME NEW n \in Nat, NEW S \in SUBSET (0..n), S # {}
    PROVE  Max(S) \in S /\ \A y \in S : Max(S) >= y
<1> DEFINE Below == {ss \in Nat \X Nat : ss[1] < ss[2]}
           D == {k \in Nat : n - k \in S}
<1>1. IsWellFoundedOn(Below, Nat)
  BY NatLessThanWellFounded, Zenon DEF OpToRel
<1>2. D # {} /\ D \subseteq Nat
  <2>1. PICK y \in S : TRUE
    OBVIOUS
  <2>2. n - y \in Nat /\ n - (n - y) = y
    OBVIOUS
  <2> QED BY <2>2
<1>3. PICK x \in D : \A y \in D : ~(<<y, x>> \in Below)
  <2> HIDE DEF D
  <2> QED BY <1>1, <1>2, WFMin, Zenon
<1>4. \A y \in S : n - x >= y
  <2>1. ASSUME NEW y \in S PROVE n - x >= y
    <3>1. n - y \in D
      BY DEF D
    <3>2. ~(n - y < x)
      BY <1>3, <3>1
    <3> QED BY <3>2
  <2> QED BY <2>1
<1> QED BY <1>4 DEF Max

LEMMA PositionsAreNumbers == \A p \in SolanaPositions : p \in Nat /\ p > 0
<1>1. Cardinality(SolanaPositions) \in Nat
  BY SolanaAssumption, FS_CardinalityType
<1> QED BY <1>1, SolanaFillsAssumption

LEMMA IndexerTypes ==
    ASSUME SolanaTypeInv, SolanaNext,
           \A p \in SolanaPositions : orders[p] # None => orders'[p] # None
    PROVE  SolanaIndexerTypeOK'
<1> USE DEF SolanaTypeInv
<1>1. SolanaIndexerTypeOK /\ head \in Nat /\ cursor \in Nat
  BY DEF SolanaIndexerTypeOK
<1>2. \A ts \in SUBSET OTokens : Looked(ts) \in [OTokens -> {"unread", "found", "missing"}]
  BY DEF Looked, Lookup, SolanaIndexerTypeOK
<1>3. CASE PollSolana
  <2>1. Candidates \subseteq Upto(head) /\ Candidates # {}
    BY <1>3 DEF Candidates, PollSolana
  <2>2. \A ps \in SUBSET SolanaPositions : {OTokenOf[p] : p \in ps} \subseteq OTokens
    BY SolanaAssumption
  <2>3. cache' \in [OTokens -> {"unread", "found", "missing"}]
    <3>1. \E ps \in SUBSET SolanaPositions : cache' = Looked({OTokenOf[p] : p \in ps})
      BY <1>3 DEF PollSolana, DecodeFails, Candidates, Upto
    <3> QED BY <1>2, <2>2, <3>1
  <2>4. (batch' = Candidates /\ step' = "announce") \/ UNCHANGED <<batch, step>>
    BY <1>3 DEF PollSolana, DecodeFails
  <2> QED BY <1>1, <1>3, <2>1, <2>3, <2>4 DEF PollSolana, SolanaIndexerTypeOK, Upto
<1>4. CASE Advance
  <2>1. batch \subseteq 0..head /\ batch # {} /\ batch \subseteq Upto(head)
    BY <1>1, <1>4, PositionsAreNumbers DEF Advance, SolanaIndexerTypeOK, Upto
  <2>2. Max(batch) \in 0..head
    BY <1>1, <2>1, MaxOfBatch
  <2> QED BY <1>1, <1>4, <2>1, <2>2 DEF Advance, SolanaIndexerTypeOK, Upto
<1>5. CASE SolanaCrash
  <2>1. batch \subseteq Upto(head)
    BY <1>1 DEF SolanaIndexerTypeOK
  <2> QED BY <1>1, <1>5, <2>1 DEF SolanaCrash, SolanaIndexerTypeOK, Upto
<1>6. CASE SolanaSettling \/ SolanaLands
  BY <1>1, <1>6 DEF SolanaSettling, SolanaLands, indexerVars, SolanaIndexerTypeOK, Upto
<1>7. CASE ExecuteOrder
  <2>1. head' = head + 1 /\ UNCHANGED <<known, cursor, dayStart, cache, step, batch, announced>>
    BY <1>7 DEF ExecuteOrder
  <2>2. head' \in Nat /\ cursor' \in 0..head' /\ dayStart' \in 0..head'
    BY <1>1, <2>1 DEF SolanaIndexerTypeOK
  <2>3. Upto(head) \subseteq Upto(head')
    BY <1>1, <2>1, PositionsAreNumbers DEF Upto
  <2>4. Upto(head') = Upto(head)'
    BY DEF Upto
  <2> QED BY <1>1, <2>1, <2>2, <2>3, <2>4 DEF SolanaIndexerTypeOK
<1>8. CASE Midnight
  BY <1>1, <1>8 DEF Midnight, SolanaIndexerTypeOK, Upto
<1>9. ASSUME NEW t \in OTokens, LearnMetadata(t) PROVE SolanaIndexerTypeOK'
  BY <1>1, <1>9 DEF LearnMetadata, SolanaIndexerTypeOK, Upto
<1> QED BY <1>3, <1>4, <1>5, <1>6, <1>7, <1>8, <1>9 DEF SolanaNext, SolanaIndex

LEMMA SolanaNextTypes == SolanaTypeInv /\ [SolanaNext]_<<solanaPartVars, faults, restarts>> => SolanaTypeInv'
<1> SUFFICES ASSUME SolanaTypeInv, [SolanaNext]_<<solanaPartVars, faults, restarts>> PROVE SolanaTypeInv'
  OBVIOUS
<1>1. CASE UNCHANGED <<solanaPartVars, faults, restarts>>
  BY <1>1 DEF solanaPartVars, settlerVars, indexerVars, SolanaTypeInv, SolanaTypeOK,
     SolanaIndexerTypeOK, WorkInv, PositionsAtWork, ProcessTypeOK, Upto
<1>2. CASE SolanaNext
  <2>1. /\ chain' \in Accounts
        /\ orders' \in [SolanaPositions -> OrderRow \union {None}]
        /\ \A p \in SolanaPositions : orders[p] # None => orders'[p] # None
    BY <1>2, StoreTypes
  <2>2. CycleTypeOK' /\ WorkInv'
    <3>a. CycleTypeOK /\ WorkInv /\ ProcessTypeOK
      BY DEF SolanaTypeInv, SolanaTypeOK, CycleTypeOK
    <3>1. CASE SolanaSettling
      BY <2>1, <3>1, SettlingTypes
    <3>2. CASE SolanaCrash
      BY <3>2, SolanaCrashTypes
    <3>3. CASE SolanaIndex \/ ExecuteOrder \/ Midnight \/ \E t \in OTokens : LearnMetadata(t)
      <4>1. UNCHANGED <<inflight, settlerVars, doubts, restarts>> /\ (Fault \/ NoFault)
        BY <3>3 DEF SolanaIndex, PollSolana, Advance, DecodeFails, ExecuteOrder, Midnight,
           LearnMetadata, solanaVars, NoFault
      <4>2. ProcessTypeOK'
        BY <3>a, <4>1, SolanaFaultTypes
      <4> QED BY <2>1, <3>a, <4>1, <4>2 DEF settlerVars, CycleTypeOK, WorkInv, PositionsAtWork
    <3>4. CASE SolanaLands
      <4>1. UNCHANGED <<orders, settlerVars, doubts, faults, restarts>> /\ inflight' \subseteq inflight
        BY <3>4 DEF SolanaLands, LandAny, Land
      <4>2. ProcessTypeOK'
        BY <3>a, <4>1 DEF ProcessTypeOK
      <4> QED BY <2>1, <3>a, <4>1, <4>2 DEF settlerVars, CycleTypeOK, WorkInv, PositionsAtWork
    <3> QED BY <1>2, <3>1, <3>2, <3>3, <3>4 DEF SolanaNext
  <2>3. SolanaIndexerTypeOK'
    BY <1>2, <2>1, IndexerTypes
  <2> QED BY <2>1, <2>2, <2>3 DEF SolanaTypeInv, SolanaTypeOK, CycleTypeOK, Accounts
<1> QED BY <1>1, <1>2

Initial == SolanaInit /\ SolanaIndexerInit /\ ProcessInit

LEMMA SolanaInitTypes == Initial => SolanaTypeInv
<1> SUFFICES ASSUME Initial PROVE SolanaTypeInv
  OBVIOUS
<1>1. SolanaTypeOK
  <2>1. chain \in Accounts
    BY DEF Initial, SolanaInit, Accounts
  <2>2. ProcessTypeOK
    BY ProcessAssumption DEF Initial, ProcessInit, ProcessTypeOK
  <2> QED BY <2>1, <2>2 DEF Initial, SolanaInit, SolanaTypeOK, Accounts, Unread
<1>2. SolanaIndexerTypeOK
  BY DEF Initial, SolanaIndexerInit, SolanaIndexerTypeOK
<1>3. WorkInv
  BY DEF Initial, SolanaInit, WorkInv, PositionsAtWork
<1> QED BY <1>1, <1>2, <1>3 DEF SolanaTypeInv

\* The state of the settler, of the chain it acts on and of the indexer is well
\* typed; the cursor never passes the head (SolanaTypeOK, SolanaIndexerTypeOK).
THEOREM SolanaTypeCorrect == SolanaSpec => [](SolanaTypeOK /\ SolanaIndexerTypeOK)
<1>1. SolanaTypeInv => SolanaTypeOK /\ SolanaIndexerTypeOK
  BY DEF SolanaTypeInv
<1> QED BY <1>1, SolanaInitTypes, SolanaNextTypes, PTL DEF SolanaSpec, Initial

-----------------------------------------------------------------------------
(* Nothing is skipped behind the cursor. *)

\* The batch that is announced has every fill up to its newest, and their rows.
BatchInv ==
    /\ NoSolanaFillSkipped
    /\ step = "announce" =>
        /\ \A p \in batch : orders[p] # None
        /\ \A p \in SolanaPositions :
              p > cursor /\ p > dayStart /\ p <= Max(batch) => p \in batch

LEMMA InitBatch == Initial => BatchInv
BY PositionsAreNumbers
   DEF Initial, SolanaIndexerInit, BatchInv, NoSolanaFillSkipped, Upto

LEMMA NextBatch ==
    ASSUME SolanaTypeInv, BatchInv, [SolanaNext]_<<solanaPartVars, faults, restarts>>
    PROVE  BatchInv'
<1>1. CASE UNCHANGED <<solanaPartVars, faults, restarts>>
  BY <1>1 DEF solanaPartVars, indexerVars, BatchInv, NoSolanaFillSkipped, Upto
<1>2. CASE SolanaNext
  <2>1. \A p \in SolanaPositions : orders[p] # None => orders'[p] # None
    BY <1>2, StoreTypes
  <2>2. head \in Nat /\ cursor \in Nat /\ dayStart \in Nat /\ batch \subseteq SolanaPositions
    BY DEF SolanaTypeInv, SolanaIndexerTypeOK, Upto
  <2>3. ASSUME cursor' = cursor, dayStart' = dayStart, announced \subseteq announced'
        PROVE  NoSolanaFillSkipped'
    BY <2>1, <2>3 DEF BatchInv, NoSolanaFillSkipped, Upto
  <2>4. CASE PollSolana
    <3>1. UNCHANGED <<cursor, dayStart, announced, head>>
      BY <2>4 DEF PollSolana
    <3>2. CASE step' = "announce"
      <4>1. /\ batch' = Candidates /\ Candidates # {}
            /\ orders' = [p \in SolanaPositions |->
                            IF p \in Candidates THEN RowStored(p) ELSE orders[p]]
        BY <2>4, <3>2 DEF PollSolana, DecodeFails
      <4>2. \A p \in Candidates : orders'[p] # None
        BY <4>1, StoredTypes, NoRowAssumption DEF Candidates, Upto, SolanaTypeInv
      <4>3. Candidates \subseteq 0..head
        BY <2>2, PositionsAreNumbers DEF Candidates, Upto
      <4>4. Max(Candidates) \in 0..head
        BY <2>2, <4>1, <4>3, MaxOfBatch
      <4>5. \A p \in SolanaPositions :
              p > cursor /\ p > dayStart /\ p <= Max(Candidates) => p \in Candidates
        BY <2>2, <4>4, PositionsAreNumbers DEF Candidates, Upto
      <4> QED BY <2>3, <3>1, <4>1, <4>2, <4>5 DEF BatchInv
    <3> QED BY <2>3, <3>1, <3>2 DEF BatchInv
  <2>5. CASE Advance
    <3>1. step = "announce" /\ step' = "idle" /\ announced' = announced \union batch
          /\ UNCHANGED <<orders, dayStart, head>>
      BY <2>5 DEF Advance
    <3>2. CASE cursor' = Max(batch)
      <4>1. batch # {} /\ batch \subseteq 0..head
        BY <2>2, <3>1, PositionsAreNumbers DEF SolanaTypeInv, SolanaIndexerTypeOK, Upto
      <4>2. Max(batch) \in 0..head
        BY <2>2, <4>1, MaxOfBatch
      <4>3. ASSUME NEW p \in SolanaPositions, p <= Max(batch), p > dayStart
            PROVE  orders[p] # None /\ p \in announced'
        <5>1. p \in Nat
          BY PositionsAreNumbers
        <5>2. CASE p > cursor
          BY <3>1, <4>3, <5>2 DEF BatchInv
        <5>3. CASE p <= cursor
          BY <3>1, <4>3, <5>3 DEF BatchInv, NoSolanaFillSkipped, Upto
        <5> QED BY <2>2, <4>2, <5>1, <5>2, <5>3
      <4> QED BY <3>1, <3>2, <4>3 DEF BatchInv, NoSolanaFillSkipped, Upto
    <3>3. CASE cursor' = cursor
      BY <2>3, <3>1, <3>3 DEF BatchInv
    <3> QED BY <2>5, <3>2, <3>3 DEF Advance
  <2>6. CASE SolanaCrash
    <3>1. step' = "idle" /\ UNCHANGED <<cursor, dayStart>> /\ announced \subseteq announced'
      BY <2>6 DEF SolanaCrash
    <3> QED BY <2>3, <3>1 DEF BatchInv
  <2>7. CASE SolanaSettling \/ SolanaLands \/ ExecuteOrder \/ \E t \in OTokens : LearnMetadata(t)
    <3>1. UNCHANGED <<cursor, dayStart, announced, step, batch>>
      BY <2>7 DEF SolanaSettling, SolanaLands, ExecuteOrder, LearnMetadata, indexerVars
    <3> QED BY <2>1, <2>2, <2>3, <3>1 DEF BatchInv
  <2>8. CASE Midnight
    <3>1. UNCHANGED <<orders, cursor, announced, step, batch>> /\ dayStart' = head /\ dayStart < head
      BY <2>8 DEF Midnight, solanaVars
    <3>2. \A p \in SolanaPositions : p > dayStart' => p > dayStart
      BY <2>2, <3>1, PositionsAreNumbers
    <3> QED BY <3>1, <3>2 DEF BatchInv, NoSolanaFillSkipped, Upto
  <2> QED BY <1>2, <2>4, <2>5, <2>6, <2>7, <2>8 DEF SolanaNext, SolanaIndex
<1> QED BY <1>1, <1>2

\* However batches fail, are read again or are cut off by a crash, every fill
\* behind the cursor has its row and was announced to its maker.
THEOREM NoFillIsSkipped == SolanaSpec => []NoSolanaFillSkipped
<1>1. SolanaTypeInv /\ BatchInv => NoSolanaFillSkipped
  BY DEF BatchInv
<1> QED BY <1>1, SolanaInitTypes, SolanaNextTypes, InitBatch, NextBatch, PTL DEF SolanaSpec, Initial

-----------------------------------------------------------------------------
(* Rows follow the chain: the settler keeps the promise of PositionSettlement. *)

\* Positions found in the money in this cycle.
FoundItm ==
    itm \union (IF stage \in {"redeem", "record"} THEN todo ELSE {})
        \union (IF stage = "record" THEN {current} ELSE {})

\* May the row of p say r, as the chain is?
Honest(p, r) ==
    /\ r.settled => p \in chain.settled
    /\ r.itm # None => r.itm = OracleOutcome[p]
    /\ r.delivered => chain.deliveries[p] > 0

\* Prices come before settlements, what a cycle has read of prices and found in
\* the money is so, what it is about to mark has happened, and rows are honest.
TruthInv ==
    /\ \A t \in chain.controller : chain.oracle[t] # None
    /\ \A p \in chain.settled : chain.oracle[OTokenOf[p]] # None
    /\ \A t \in OTokens : prices[t] \in Prices => chain.oracle[t] = prices[t]
    /\ \A p \in FoundItm : InTheMoney(p, chain.oracle[OTokenOf[p]])
    /\ stage = "mark" => current \in chain.settled
    /\ stage = "record" => chain.deliveries[current] > 0
    /\ \A p \in SolanaPositions : orders[p] # None => Honest(p, orders[p])

\* A mark: one row says more than before, and all of it is so.
HonestMove ==
    /\ UNCHANGED chain
    /\ \E p \in SolanaPositions : \E r \in OrderRow :
          /\ orders[p] # None /\ orders' = [orders EXCEPT ![p] = r]
          /\ Honest(p, r)
          /\ orders[p].settled => r.settled
          /\ orders[p].itm # None => r.itm # None
          /\ orders[p].delivered => r.delivered

LEMMA OutcomeTypes ==
    ASSUME SolanaTypeInv, NEW p \in SolanaPositions
    PROVE  /\ OracleOutcome[p] \in BOOLEAN \union {None}
           /\ chain.oracle[OTokenOf[p]] # None => OracleOutcome[p] # None
           /\ InTheMoney(p, chain.oracle[OTokenOf[p]]) => OracleOutcome[p] = TRUE
BY SolanaAssumption DEF OracleOutcome, InTheMoney

\* The chain takes nothing back, and prices come first.
LEMMA ChainGrows ==
    ASSUME SolanaTypeInv, TruthInv, SolanaNext
    PROVE  /\ \A t \in OTokens : chain.oracle[t] # None => chain'.oracle[t] = chain.oracle[t]
           /\ chain.settled \subseteq chain'.settled
           /\ \A p \in SolanaPositions : chain.deliveries[p] > 0 => chain'.deliveries[p] > 0
           /\ \A t \in chain'.controller : chain'.oracle[t] # None
           /\ \A p \in chain'.settled : chain'.oracle[OTokenOf[p]] # None
<1>1. CASE UNCHANGED chain
  BY <1>1 DEF TruthInv
<1>2. CASE ChainMoves
  <2>1. PICK tx \in Transactions : Applies(tx) /\ chain' = Effect(tx)
    BY <1>2 DEF ChainMoves
  <2>2. chain \in Accounts /\ chain.controller \subseteq OTokens /\ chain.settled \subseteq SolanaPositions
    BY DEF SolanaTypeInv, SolanaTypeOK, Accounts
  <2>3. ASSUME NEW t \in OTokens, NEW price \in Prices, tx = <<"oracle", t, price>>
        PROVE  /\ chain.oracle[t] = None
               /\ chain' = [chain EXCEPT !.oracle[t] = price]
    BY <2>1, <2>3 DEF Applies, Effect
  <2>4. ASSUME NEW t \in OTokens, tx = <<"controller", t>>
        PROVE  chain.oracle[t] # None /\ chain' = [chain EXCEPT !.controller = @ \union {t}]
    BY <2>1, <2>4 DEF Applies, Effect
  <2>5. ASSUME NEW p \in SolanaPositions, tx = <<"settle", p>>
        PROVE  OTokenOf[p] \in chain.controller /\ chain' = [chain EXCEPT !.settled = @ \union {p}]
    BY <2>1, <2>5 DEF Applies, Effect
  <2>6. ASSUME NEW p \in SolanaPositions, tx = <<"redeem", p>>
        PROVE  chain' = [chain EXCEPT !.deliveries[p] = @ + 1]
    BY <2>1, <2>6 DEF Effect
  <2>7. CASE \E t \in OTokens, price \in Prices : tx = <<"oracle", t, price>>
    <3>1. PICK t \in OTokens, price \in Prices : tx = <<"oracle", t, price>>
      BY <2>7
    <3>2. price # None
      BY SolanaAssumption DEF Prices
    <3>3. /\ chain'.oracle = [chain.oracle EXCEPT ![t] = price]
          /\ chain'.settled = chain.settled /\ chain'.controller = chain.controller
          /\ chain'.deliveries = chain.deliveries
      BY <2>2, <2>3, <3>1 DEF Accounts
    <3>4. chain.oracle \in [OTokens -> Prices \union {None}]
      BY <2>2 DEF Accounts
    <3>5. \A p \in SolanaPositions : OTokenOf[p] \in OTokens
      BY SolanaAssumption
    <3> QED BY <2>2, <2>3, <3>1, <3>2, <3>3, <3>4, <3>5 DEF TruthInv
  <2>8. CASE \E t \in OTokens : tx = <<"controller", t>>
    BY <2>2, <2>4, <2>8 DEF TruthInv, Accounts
  <2>9. CASE \E p \in SolanaPositions : tx = <<"settle", p>>
    BY <2>2, <2>5, <2>9 DEF TruthInv, Accounts
  <2>10. CASE \E p \in SolanaPositions : tx = <<"redeem", p>>
    BY <2>2, <2>6, <2>10 DEF TruthInv, Accounts
  <2> QED BY <2>7, <2>8, <2>9, <2>10, TransactionKinds
<1> QED BY <1>1, <1>2, StepKinds DEF RowMoves, RowsAppear

LEMMA MarksAreHonest ==
    ASSUME SolanaTypeInv, TruthInv, SolanaNext
    PROVE  HonestMove \/ RowsAppear \/ UNCHANGED orders
<1> USE DEF SolanaTypeInv
<1>a. \A p \in SolanaPositions : orders[p] # None => orders[p] \in OrderRow /\ Honest(p, orders[p])
  BY DEF SolanaTypeOK, TruthInv
<1>b. ASSUME NEW p \in SolanaPositions, orders[p] # None, p \in chain.settled,
             UNCHANGED chain, MarkSettled(p)
      PROVE  HonestMove
  <2> DEFINE r == [orders[p] EXCEPT !.settled = TRUE, !.type = "cash"]
  <2>1. r \in OrderRow
    BY <1>a, <1>b, MarkedTypes
  <2>2. r.settled /\ r.itm = orders[p].itm /\ r.delivered = orders[p].delivered
    BY <1>a, <1>b DEF OrderRow
  <2>3. orders' = [orders EXCEPT ![p] = r]
    BY <1>b DEF MarkSettled, Mark
  <2> HIDE DEF r
  <2> QED BY <1>a, <1>b, <2>1, <2>2, <2>3 DEF HonestMove, Honest
<1>c. ASSUME NEW p \in SolanaPositions, orders[p] # None, UNCHANGED chain,
             InTheMoney(p, chain.oracle[OTokenOf[p]]),
             NEW r \in OrderRow, orders' = [orders EXCEPT ![p] = r],
             r.itm = TRUE, r.settled = orders[p].settled,
             \/ r.delivered = orders[p].delivered
             \/ r.delivered = TRUE /\ chain.deliveries[p] > 0
      PROVE  HonestMove
  BY <1>a, <1>c, OutcomeTypes DEF HonestMove, Honest
<1>d. ASSUME NEW p \in SolanaPositions, orders[p] # None, UNCHANGED chain,
             InTheMoney(p, chain.oracle[OTokenOf[p]]), MarkItmFailed(p)
      PROVE  HonestMove
  <2> DEFINE r == [orders[p] EXCEPT !.type = "physical_failed", !.itm = TRUE]
  <2>1. r \in OrderRow /\ r.itm = TRUE /\ r.settled = orders[p].settled /\ r.delivered = orders[p].delivered
    BY <1>a, <1>d DEF OrderRow
  <2>2. orders' = [orders EXCEPT ![p] = r]
    BY <1>d DEF MarkItmFailed, Mark
  <2> HIDE DEF r
  <2> QED BY <1>c, <1>d, <2>1, <2>2
<1>1. CASE MarkVault
  <2>1. stage = "mark" /\ current \in SolanaPositions /\ orders[current] # None
    BY <1>1 DEF MarkVault, WorkInv, PositionsAtWork
  <2>2. current \in chain.settled /\ UNCHANGED chain
    BY <1>1, <2>1 DEF MarkVault, TruthInv
  <2> QED BY <1>b, <1>1, <2>1, <2>2 DEF MarkVault
<1>2. ASSUME NEW p \in SolanaPositions, Phase1(p) PROVE HonestMove \/ UNCHANGED orders
  <2>1. orders[p] # None
    BY <1>2 DEF Phase1, WorkInv, PositionsAtWork
  <2> QED BY <1>b, <1>2, <2>1 DEF Phase1, ReconcileVault, SettleVault
<1>3. ASSUME NEW p \in SolanaPositions, IdentifyItm(p) PROVE HonestMove \/ UNCHANGED orders
  <2>1. orders[p] # None /\ UNCHANGED chain
    BY <1>3 DEF IdentifyItm, WorkInv, PositionsAtWork
  <2>2. PICK price \in Prices \union {None} : PriceRead(OTokenOf[p], price) /\ Classify(p, price)
    BY <1>3 DEF IdentifyItm
  <2>3. CASE price # None /\ ~InTheMoney(p, price) /\ Mark(p, [orders[p] EXCEPT !.itm = FALSE])
    <3> DEFINE r == [orders[p] EXCEPT !.itm = FALSE]
    <3>1. price \in Prices /\ OTokenOf[p] \in OTokens
      BY <2>2, <2>3, SolanaAssumption
    <3>2. chain.oracle[OTokenOf[p]] = price
      BY <2>2, <2>3, <3>1 DEF PriceRead, TruthInv
    <3>3. OracleOutcome[p] = FALSE
      BY <2>3, <3>2 DEF OracleOutcome
    <3>4. /\ r \in OrderRow /\ r.itm = FALSE /\ r.settled = orders[p].settled
          /\ r.delivered = orders[p].delivered
      BY <1>a, <2>1 DEF OrderRow
    <3>5. orders' = [orders EXCEPT ![p] = r]
      BY <2>3 DEF Mark
    <3> HIDE DEF r
    <3> QED BY <1>a, <2>1, <3>3, <3>4, <3>5 DEF HonestMove, Honest
  <2> QED BY <2>2, <2>3 DEF Classify
<1>4. ASSUME NEW p \in SolanaPositions, RedeemItm(p) PROVE HonestMove \/ UNCHANGED orders
  <2>1. orders[p] # None
    BY <1>4 DEF RedeemItm, WorkInv, PositionsAtWork
  <2>2. InTheMoney(p, chain.oracle[OTokenOf[p]])
    BY <1>4 DEF RedeemItm, TruthInv, FoundItm
  <2>3. UNCHANGED orders \/ (UNCHANGED chain /\ MarkItmFailed(p))
    BY <1>4 DEF RedeemItm, NothingToSend, Refused, TimedOut, MarkFailedOrRaise
  <2> QED BY <1>d, <2>1, <2>2, <2>3
<1>5. CASE RecordDelivery
  <2>1. stage = "record" /\ current \in SolanaPositions /\ orders[current] # None /\ UNCHANGED chain
    BY <1>5 DEF RecordDelivery, WorkInv, PositionsAtWork
  <2>2. InTheMoney(current, chain.oracle[OTokenOf[current]]) /\ chain.deliveries[current] > 0
    BY <2>1 DEF TruthInv, FoundItm
  <2>3. ASSUME NEW type \in {"physical", "physical_failed"},
               Mark(current, [orders[current] EXCEPT !.type = type, !.itm = TRUE, !.delivered = TRUE])
        PROVE  HonestMove
    <3> DEFINE r == [orders[current] EXCEPT !.type = type, !.itm = TRUE, !.delivered = TRUE]
    <3>1. r \in OrderRow /\ r.itm = TRUE /\ r.settled = orders[current].settled /\ r.delivered = TRUE
      BY <1>a, <2>1 DEF OrderRow
    <3>2. orders' = [orders EXCEPT ![current] = r]
      BY <2>3 DEF Mark
    <3> HIDE DEF r
    <3> QED BY <1>c, <2>1, <2>2, <3>1, <3>2
  <2>4. CASE MarkItmRedeemed(current)
    BY <2>3, <2>4 DEF MarkItmRedeemed
  <2>5. CASE MarkItmFailed(current)
    BY <1>d, <2>1, <2>2, <2>5
  <2> QED BY <1>5, <2>3, <2>4, <2>5 DEF RecordDelivery
<1>6. CASE PollSolana
  <2>1. UNCHANGED orders \/ RowsAppear
    BY <1>6 DEF PollSolana, DecodeFails, RowsAppear, Candidates, Upto
  <2> QED BY <2>1
<1>7. CASE Advance \/ SolanaCrash \/ SolanaLands \/ ExecuteOrder \/ Midnight
             \/ \E t \in OTokens : LearnMetadata(t)
  BY <1>7 DEF Advance, SolanaCrash, SettlerDies, SolanaLands, LandAny, Land, ExecuteOrder,
     Midnight, LearnMetadata, solanaVars
<1>8. CASE \/ StartSolanaCycle \/ RaiseSolana \/ BeginRetryPrices \/ BeginSettle
           \/ EndPhase1Solana \/ BeginRedeem \/ EndSolanaCycle \/ SetControllerPrice
           \/ \E t \in OTokens : EnsureOraclePrice(t) \/ RetryPrice(t)
  BY <1>8 DEF StartSolanaCycle, RaiseSolana, BeginRetryPrices, BeginSettle, EndPhase1Solana,
     BeginRedeem, EndSolanaCycle, SetControllerPrice, EnsureOraclePrice, RetryPrice
<1> QED BY <1>1, <1>2, <1>3, <1>4, <1>5, <1>6, <1>7, <1>8
    DEF SolanaNext, SolanaIndex, SolanaSettling, SolanaSettle

LEMMA StageTruth ==
    ASSUME SolanaTypeInv, TruthInv, SolanaNext
    PROVE  /\ \A t \in OTokens : prices'[t] \in Prices =>
                 prices'[t] = prices[t] \/ prices'[t] = chain.oracle[t]
           /\ \A p \in FoundItm' : p \in FoundItm \/ InTheMoney(p, chain.oracle[OTokenOf[p]])
           /\ stage' = "mark" => \/ stage = "mark" /\ current' = current
                                \/ current' \in chain'.settled
           /\ stage' = "record" => \/ stage = "record" /\ current' = current
                                  \/ chain'.deliveries[current'] > 0
<1> USE DEF SolanaTypeInv
<1> DEFINE Goal == /\ \A t \in OTokens : prices'[t] \in Prices =>
                        prices'[t] = prices[t] \/ prices'[t] = chain.oracle[t]
                   /\ \A p \in FoundItm' : p \in FoundItm \/ InTheMoney(p, chain.oracle[OTokenOf[p]])
                   /\ stage' = "mark" => \/ stage = "mark" /\ current' = current
                                        \/ current' \in chain'.settled
                   /\ stage' = "record" => \/ stage = "record" /\ current' = current
                                          \/ chain'.deliveries[current'] > 0
<1>a. CASE CycleEnds
  BY <1>a DEF CycleEnds, Goto, FoundItm, Unread, Prices
<1>1. CASE SolanaIndex \/ SolanaLands \/ ExecuteOrder \/ Midnight \/ \E t \in OTokens : LearnMetadata(t)
  BY <1>1 DEF SolanaIndex, PollSolana, Advance, SolanaLands, LandAny, Land, ExecuteOrder,
     Midnight, LearnMetadata, solanaVars, settlerVars, FoundItm
<1>2. CASE SolanaCrash \/ RaiseSolana \/ EndSolanaCycle
  BY <1>a, <1>2 DEF SolanaCrash, SettlerDies, RaiseSolana, EndSolanaCycle
<1>3. CASE StartSolanaCycle \/ BeginRetryPrices \/ BeginSettle \/ EndPhase1Solana
           \/ SetControllerPrice \/ MarkVault
           \/ \E t \in OTokens : EnsureOraclePrice(t) \/ RetryPrice(t)
  BY <1>3 DEF StartSolanaCycle, BeginRetryPrices, BeginSettle, EndPhase1Solana,
     SetControllerPrice, MarkVault, EnsureOraclePrice, RetryPrice, Goto, FoundItm
<1>4. CASE BeginRedeem
  BY <1>4 DEF BeginRedeem, Goto, FoundItm, Unread, Prices
<1>5. ASSUME NEW p \in SolanaPositions, Phase1(p) PROVE Goal
  <2>1. stage = "settle" /\ UNCHANGED <<itm, prices>>
    BY <1>5 DEF Phase1
  <2>2. \/ stage' = "settle"
        \/ stage' = "mark" /\ current' = p /\ Confirmed(<<"settle", p>>)
    BY <1>5 DEF Phase1, ReconcileVault, SettleVault, Goto
  <2>3. Confirmed(<<"settle", p>>) => p \in chain'.settled
    BY DEF Confirmed, Effect, SolanaTypeOK
  <2> QED BY <2>1, <2>2, <2>3 DEF FoundItm
<1>6. ASSUME NEW p \in SolanaPositions, IdentifyItm(p) PROVE Goal
  <2>1. PICK price \in Prices \union {None} : PriceRead(OTokenOf[p], price) /\ Classify(p, price)
    BY <1>6 DEF IdentifyItm
  <2>2. stage' = "identify" /\ stage = "identify"
    BY <1>6 DEF IdentifyItm, Goto
  <2>3. OTokenOf[p] \in OTokens /\ None \notin Prices
    BY SolanaAssumption DEF Prices
  <2>4. \A t \in OTokens : prices'[t] \in Prices =>
             prices'[t] = prices[t] \/ prices'[t] = chain.oracle[t]
    BY <2>1, <2>3 DEF PriceRead, SolanaTypeOK
  <2>5. price # None => price = chain.oracle[OTokenOf[p]]
    BY <2>1, <2>3 DEF PriceRead, TruthInv
  <2>6. itm' = itm \/ (itm' = itm \union {p} /\ InTheMoney(p, chain.oracle[OTokenOf[p]]))
    BY <2>1, <2>5 DEF Classify
  <2> QED BY <2>2, <2>4, <2>6 DEF FoundItm
<1>7. ASSUME NEW p \in SolanaPositions, RedeemItm(p) PROVE Goal
  <2>1. stage = "redeem" /\ p \in todo
    BY <1>7 DEF RedeemItm
  <2>2. \/ CycleEnds
        \/ /\ todo' = todo \ {p} /\ UNCHANGED <<itm, prices>>
           /\ \/ stage' = "redeem"
              \/ stage' = "record" /\ current' = p /\ Confirmed(<<"redeem", p>>)
    BY <1>7 DEF RedeemItm, MarkFailedOrRaise, Goto
  <2>3. Confirmed(<<"redeem", p>>) => chain'.deliveries[p] > 0
    <3>1. chain \in Accounts
      BY DEF SolanaTypeOK, Accounts
    <3> QED BY <3>1 DEF Confirmed, Effect, Accounts
  <2>4. CASE todo' = todo \ {p} /\ UNCHANGED <<itm, prices>>
             /\ \/ stage' = "redeem"
                \/ stage' = "record" /\ current' = p /\ Confirmed(<<"redeem", p>>)
    <3>1. \A q \in FoundItm' : q \in FoundItm
      BY <2>1, <2>4 DEF FoundItm
    <3> QED BY <2>1, <2>3, <2>4, <3>1
  <2> QED BY <1>a, <2>2, <2>4
<1>8. CASE RecordDelivery
  <2>1. \/ CycleEnds
        \/ stage' = "redeem" /\ todo' = todo /\ UNCHANGED <<itm, prices>>
    BY <1>8 DEF RecordDelivery, Goto
  <2>2. stage = "record"
    BY <1>8 DEF RecordDelivery
  <2>3. CASE stage' = "redeem" /\ todo' = todo /\ UNCHANGED <<itm, prices>>
    BY <2>2, <2>3 DEF FoundItm
  <2> QED BY <1>a, <2>1, <2>3
<1> QED BY <1>1, <1>2, <1>3, <1>4, <1>5, <1>6, <1>7, <1>8
    DEF SolanaNext, SolanaSettling, SolanaSettle

LEMMA NextTruth ==
    ASSUME SolanaTypeInv, TruthInv, [SolanaNext]_<<solanaPartVars, faults, restarts>>
    PROVE  TruthInv'
<1>1. CASE UNCHANGED <<solanaPartVars, faults, restarts>>
  BY <1>1 DEF solanaPartVars, settlerVars, TruthInv, FoundItm, Honest, OracleOutcome
<1>2. CASE SolanaNext
  <2>1. /\ \A t \in OTokens : chain.oracle[t] # None => chain'.oracle[t] = chain.oracle[t]
        /\ chain.settled \subseteq chain'.settled
        /\ \A p \in SolanaPositions : chain.deliveries[p] > 0 => chain'.deliveries[p] > 0
        /\ \A t \in chain'.controller : chain'.oracle[t] # None
        /\ \A p \in chain'.settled : chain'.oracle[OTokenOf[p]] # None
    BY <1>2, ChainGrows
  <2>2. \A p \in SolanaPositions : OTokenOf[p] \in OTokens
    BY SolanaAssumption
  <2>3. None \notin Prices
    BY SolanaAssumption DEF Prices
  <2>4. \A t \in OTokens : prices'[t] \in Prices => chain'.oracle[t] = prices'[t]
    BY <1>2, <2>1, <2>3, StageTruth DEF TruthInv
  <2>5. \A p \in FoundItm' : InTheMoney(p, chain'.oracle[OTokenOf[p]])
    <3> SUFFICES ASSUME NEW p \in FoundItm' PROVE InTheMoney(p, chain'.oracle[OTokenOf[p]])
      OBVIOUS
    <3>1. InTheMoney(p, chain.oracle[OTokenOf[p]])
      BY <1>2, StageTruth DEF TruthInv
    <3>2. p \in SolanaPositions
      BY <1>2, SolanaNextTypes DEF SolanaTypeInv, WorkInv, PositionsAtWork, FoundItm
    <3>3. chain.oracle[OTokenOf[p]] # None
      BY <3>1, SolanaAssumption DEF InTheMoney
    <3> QED BY <2>1, <2>2, <3>1, <3>2, <3>3
  <2>6. stage' = "mark" => current' \in chain'.settled
    BY <1>2, <2>1, StageTruth DEF TruthInv
  <2>7. stage' = "record" => chain'.deliveries[current'] > 0
    <3>1. stage = "record" => current \in SolanaPositions
      BY DEF SolanaTypeInv, WorkInv, PositionsAtWork
    <3> QED BY <1>2, <2>1, <3>1, StageTruth DEF TruthInv
  <2>8. ASSUME NEW p \in SolanaPositions, NEW r \in OrderRow, Honest(p, r)
        PROVE  /\ r.settled => p \in chain'.settled
               /\ r.itm # None => r.itm = OracleOutcome'[p]
               /\ r.delivered => chain'.deliveries[p] > 0
    <3>1. OracleOutcome[p] # None => OracleOutcome'[p] = OracleOutcome[p]
      BY <2>1, <2>2 DEF OracleOutcome
    <3> QED BY <2>1, <2>8, <3>1 DEF Honest
  <2>9. \A p \in SolanaPositions : orders[p] # None => orders[p] \in OrderRow /\ Honest(p, orders[p])
    BY DEF TruthInv, SolanaTypeInv, SolanaTypeOK
  <2>10. \A p \in SolanaPositions : orders'[p] # None => Honest(p, orders[p])'
    <3>1. CASE UNCHANGED orders
      BY <2>8, <2>9, <3>1 DEF Honest
    <3>2. CASE HonestMove
      <4>1. orders \in [SolanaPositions -> OrderRow \union {None}]
        BY DEF SolanaTypeInv, SolanaTypeOK
      <4>2. \A p \in SolanaPositions : orders'[p] # None => orders'[p] \in OrderRow /\ Honest(p, orders'[p])
        BY <2>9, <3>2, <4>1 DEF HonestMove
      <4> QED BY <2>8, <4>2 DEF Honest
    <3>3. CASE RowsAppear
      <4>1. ASSUME NEW p \in SolanaPositions, orders'[p] # None
            PROVE  orders'[p] \in OrderRow /\ Honest(p, orders'[p])
        <5>1. RowStored(p) \in OrderRow
          BY StoredTypes DEF SolanaTypeInv
        <5>2. CASE orders'[p] = orders[p]
          BY <2>9, <4>1, <5>2
        <5>3. CASE orders'[p] = RowStored(p)
          <6> DEFINE r == IF orders[p] = None THEN NewRow ELSE orders[p]
          <6>1. r \in OrderRow /\ Honest(p, r)
            BY <2>9, NewRowType DEF NewRow, Honest
          <6>2. RowStored(p) = [r EXCEPT !.complete = Lookup(OTokenOf[p]) = "found"]
            BY DEF RowStored
          <6> HIDE DEF r
          <6>3. /\ RowStored(p).settled = r.settled /\ RowStored(p).itm = r.itm
                /\ RowStored(p).delivered = r.delivered
            BY <6>1, <6>2 DEF OrderRow
          <6> QED BY <5>1, <5>3, <6>1, <6>3 DEF Honest
        <5> QED BY <3>3, <5>2, <5>3 DEF RowsAppear
      <4> QED BY <2>8, <4>1 DEF Honest
    <3> QED BY <1>2, <3>1, <3>2, <3>3, MarksAreHonest
  <2> QED BY <2>1, <2>4, <2>5, <2>6, <2>7, <2>10 DEF TruthInv
<1> QED BY <1>1, <1>2

LEMMA InitTruth == Initial => TruthInv
BY DEF Initial, SolanaInit, TruthInv, FoundItm, Unread, Prices

LEMMA InitPromise == Initial => Promise!Init
<1> SUFFICES ASSUME Initial PROVE Promise!Init
  OBVIOUS
<1>1. OracleOutcome = [p \in SolanaPositions |-> None]
  BY SolanaAssumption DEF Initial, SolanaInit, OracleOutcome
<1>2. RowsSay = [p \in SolanaPositions |-> [settled |-> FALSE, itm |-> None, delivered |-> FALSE]]
  BY DEF Initial, SolanaInit, RowsSay
<1>3. chain.settled = {} /\ {p \in SolanaPositions : chain.deliveries[p] > 0} = {}
  BY DEF Initial, SolanaInit
<1> QED BY <1>1, <1>2, <1>3 DEF Promise!Init

\* What the rows say changes only with a mark.
LEMMA RowsSayNothingNew ==
    ASSUME SolanaTypeInv, RowsAppear \/ UNCHANGED orders
    PROVE  UNCHANGED RowsSay
<1>1. CASE UNCHANGED orders
  BY <1>1 DEF RowsSay
<1>2. CASE RowsAppear
  <2>1. ASSUME NEW p \in SolanaPositions PROVE RowsSay'[p] = RowsSay[p]
    <3>1. CASE orders'[p] = orders[p]
      BY <3>1 DEF RowsSay
    <3>2. CASE orders'[p] = RowStored(p)
      <4> DEFINE r == IF orders[p] = None THEN NewRow ELSE orders[p]
      <4>1. r \in OrderRow
        BY NewRowType DEF SolanaTypeInv, SolanaTypeOK
      <4>2. RowStored(p) = [r EXCEPT !.complete = Lookup(OTokenOf[p]) = "found"]
        BY DEF RowStored
      <4>3. RowsSay[p] = [settled |-> r.settled, itm |-> r.itm, delivered |-> r.delivered]
        BY DEF RowsSay, NewRow
      <4> HIDE DEF r
      <4>4. /\ RowStored(p).settled = r.settled /\ RowStored(p).itm = r.itm
            /\ RowStored(p).delivered = r.delivered
        BY <4>1, <4>2 DEF OrderRow
      <4>5. RowStored(p) # None
        BY StoredTypes, NoRowAssumption DEF SolanaTypeInv
      <4>6. RowsSay'[p] = [settled |-> RowStored(p).settled, itm |-> RowStored(p).itm,
                           delivered |-> RowStored(p).delivered]
        BY <3>2, <4>5 DEF RowsSay
      <4> QED BY <4>3, <4>4, <4>6
    <3> QED BY <1>2, <3>1, <3>2 DEF RowsAppear
  <2> QED BY <2>1 DEF RowsSay
<1> QED BY <1>1, <1>2

\* A transaction settles or delivers one position, or makes prices final.
LEMMA ChainKeepsPromise ==
    ASSUME SolanaTypeInv, TruthInv, ChainMoves
    PROVE  [Promise!Next]_Promise!vars
<1> DEFINE Delivered == {p \in SolanaPositions : chain.deliveries[p] > 0}
<1>1. PICK tx \in Transactions : Applies(tx) /\ chain' = Effect(tx)
  BY DEF ChainMoves
<1>2. chain \in Accounts /\ RowsSay' = RowsSay
  BY RowsSayNothingNew DEF SolanaTypeInv, SolanaTypeOK, Accounts, ChainMoves
<1>3. \A p \in SolanaPositions : OTokenOf[p] \in OTokens
  BY SolanaAssumption
<1>4. ASSUME NEW t \in OTokens, NEW price \in Prices, tx = <<"oracle", t, price>>
      PROVE  Promise!Decide
  <2>1. chain.oracle[t] = None /\ chain' = [chain EXCEPT !.oracle[t] = price]
    BY <1>1, <1>4 DEF Applies, Effect
  <2>2. /\ chain'.oracle = [chain.oracle EXCEPT ![t] = price]
        /\ chain'.settled = chain.settled /\ chain'.deliveries = chain.deliveries
    BY <1>2, <2>1 DEF Accounts
  <2>3. OracleOutcome' \in [SolanaPositions -> BOOLEAN \union {None}]
    BY DEF OracleOutcome, InTheMoney
  <2>4. \A u \in OTokens : chain.oracle[u] # None => chain'.oracle[u] = chain.oracle[u]
    BY <1>2, <2>1, <2>2 DEF Accounts
  <2>5. \A p \in SolanaPositions : OracleOutcome[p] # None => OracleOutcome'[p] = OracleOutcome[p]
    BY <1>3, <2>4 DEF OracleOutcome
  <2> QED BY <1>2, <2>2, <2>3, <2>5 DEF Promise!Decide
<1>5. ASSUME NEW t \in OTokens, tx = <<"controller", t>>
      PROVE  UNCHANGED Promise!vars
  <2>1. chain' = [chain EXCEPT !.controller = @ \union {t}]
    BY <1>1, <1>5 DEF Effect
  <2>2. /\ chain'.oracle = chain.oracle /\ chain'.settled = chain.settled
        /\ chain'.deliveries = chain.deliveries
    BY <1>2, <2>1 DEF Accounts
  <2> QED BY <1>2, <2>2 DEF Promise!vars, OracleOutcome
<1>6. ASSUME NEW p \in SolanaPositions, tx = <<"settle", p>>
      PROVE  Promise!Settle({p})
  <2>1. OTokenOf[p] \in chain.controller /\ chain' = [chain EXCEPT !.settled = @ \union {p}]
    BY <1>1, <1>6 DEF Applies, Effect
  <2>2. /\ chain'.oracle = chain.oracle /\ chain'.settled = chain.settled \union {p}
        /\ chain'.deliveries = chain.deliveries
    BY <1>2, <2>1 DEF Accounts
  <2>3. OracleOutcome[p] # None
    BY <2>1, OutcomeTypes DEF TruthInv
  <2> QED BY <1>2, <2>2, <2>3 DEF Promise!Settle, OracleOutcome
<1>7. ASSUME NEW p \in SolanaPositions, tx = <<"redeem", p>>
      PROVE  Promise!Deliver(p)
  <2>1. /\ p \in chain.settled /\ InTheMoney(p, chain.oracle[OTokenOf[p]])
        /\ chain' = [chain EXCEPT !.deliveries[p] = @ + 1]
    BY <1>1, <1>7 DEF Applies, Effect
  <2>2. /\ chain'.oracle = chain.oracle /\ chain'.settled = chain.settled
        /\ chain'.deliveries = [chain.deliveries EXCEPT ![p] = @ + 1]
    BY <1>2, <2>1 DEF Accounts
  <2>3. chain.deliveries \in [SolanaPositions -> Nat]
    BY <1>2 DEF Accounts
  <2>4. Delivered' = Delivered \union {p}
    BY <2>2, <2>3
  <2>5. OracleOutcome[p] = TRUE
    BY <2>1, OutcomeTypes
  <2> QED BY <1>2, <2>1, <2>2, <2>4, <2>5 DEF Promise!Deliver, OracleOutcome
<1> QED BY <1>4, <1>5, <1>6, <1>7, TransactionKinds DEF Promise!Next

LEMMA MarkKeepsPromise ==
    ASSUME SolanaTypeInv, TruthInv, HonestMove
    PROVE  Promise!Next
<1>1. PICK p \in SolanaPositions, r \in OrderRow :
         /\ orders[p] # None /\ orders' = [orders EXCEPT ![p] = r]
         /\ Honest(p, r)
         /\ orders[p].settled => r.settled
         /\ orders[p].itm # None => r.itm # None
         /\ orders[p].delivered => r.delivered
  BY DEF HonestMove
<1> DEFINE s == [settled |-> r.settled, itm |-> r.itm, delivered |-> r.delivered]
<1>2. orders \in [SolanaPositions -> OrderRow \union {None}] /\ Honest(p, orders[p])
  BY <1>1 DEF SolanaTypeInv, SolanaTypeOK, TruthInv
<1>3. s \in Promise!Row
  BY DEF Promise!Row, OrderRow
<1>4. /\ RowsSay[p].settled = orders[p].settled /\ RowsSay[p].itm = orders[p].itm
      /\ RowsSay[p].delivered = orders[p].delivered
  BY <1>1 DEF RowsSay
<1>5. RowsSay' = [RowsSay EXCEPT ![p] = s]
  <2>1. orders'[p] = r /\ r # None
    BY <1>1, <1>2, NoRowAssumption
  <2>2. RowsSay'[p] = s
    BY <2>1 DEF RowsSay
  <2>3. \A q \in SolanaPositions : q # p => orders'[q] = orders[q]
    BY <1>1, <1>2
  <2>4. \A q \in SolanaPositions : q # p => RowsSay'[q] = RowsSay[q]
    BY <2>3 DEF RowsSay
  <2> QED BY <2>2, <2>4 DEF RowsSay
<1>6. Promise!Truthful(p, s)
  BY <1>1 DEF Honest, Promise!Truthful
<1>7. Promise!Keeps(p, s)
  <2>1. orders[p].itm # None => r.itm = orders[p].itm
    BY <1>1, <1>2 DEF Honest
  <2> QED BY <1>1, <1>4, <2>1 DEF Promise!Keeps
<1>8. UNCHANGED chain
  BY DEF HonestMove
<1> HIDE DEF s
<1> QED BY <1>3, <1>5, <1>6, <1>7, <1>8 DEF Promise!Record, Promise!Next, OracleOutcome

LEMMA NextPromise ==
    ASSUME SolanaTypeInv, TruthInv, [SolanaNext]_<<solanaPartVars, faults, restarts>>
    PROVE  [Promise!Next]_Promise!vars
<1>1. CASE UNCHANGED <<solanaPartVars, faults, restarts>>
  BY <1>1 DEF solanaPartVars, Promise!vars, OracleOutcome, RowsSay
<1>2. CASE SolanaNext
  <2>1. CASE ChainMoves
    BY <2>1, ChainKeepsPromise
  <2>2. CASE UNCHANGED chain
    <3>1. CASE HonestMove
      BY <3>1, MarkKeepsPromise
    <3>2. CASE RowsAppear \/ UNCHANGED orders
      BY <2>2, <3>2, RowsSayNothingNew DEF Promise!vars, OracleOutcome
    <3> QED BY <1>2, <3>1, <3>2, MarksAreHonest
  <2> QED BY <1>2, <2>1, <2>2, StepKinds DEF RowMoves, RowsAppear
<1> QED BY <1>1, <1>2

\* The Solana settler implements PositionSettlement, with late transactions,
\* failing calls, crashes and an indexer that writes the same rows: rows follow
\* the chain, never ahead of it and never back.
THEOREM ImplementsSettlement == SolanaSpec => SolanaKeepsPromise
<1>1. SolanaTypeInv /\ TruthInv /\ [SolanaNext]_<<solanaPartVars, faults, restarts>>
        => [Promise!Next]_Promise!vars
  BY NextPromise
<1>2. SolanaTypeInv /\ TruthInv /\ [SolanaNext]_<<solanaPartVars, faults, restarts>> => TruthInv'
  BY NextTruth
<1> QED BY <1>1, <1>2, SolanaInitTypes, SolanaNextTypes, InitTruth, InitPromise, PTL
    DEF SolanaSpec, Initial, SolanaKeepsPromise, Promise!Spec

-----------------------------------------------------------------------------
(* A second delivery needs a doubt. *)

Open(p) == orders[p] = None \/ ~orders[p].settled
RowDelivered(p) == orders[p] # None /\ orders[p].delivered

\* Does the settler know of a delivery of p, or has just made it?
Told(p) == RowDelivered(p) \/ (stage = "record" /\ current = p)

\* Is p on its way to a delivery in this cycle?
InLine(p) ==
    /\ \/ p \in settled \union itm
       \/ stage \in {"identify", "redeem", "record"} /\ p \in todo
    /\ ~(stage = "mark" /\ current = p)

Marking(p) == stage = "mark" /\ current = p

\* Deliveries of p, made or still to land.
SentRedemption(p) == chain.deliveries[p] + (IF <<"redeem", p>> \in inflight THEN 1 ELSE 0)

\* Every delivery of p is one the settler knows of or one it was in doubt about;
\* before another one, and while the row does not say that p is settled, the
\* doubts alone account for all; before one with such a row, there is a doubt to
\* spare: that of the mark that failed.
DoubtAt(p) ==
    /\ SentRedemption(p) <= doubts[p] + 1
    /\ ~Told(p) => SentRedemption(p) <= doubts[p]
    /\ InLine(p) \/ Marking(p) \/ Open(p) => SentRedemption(p) <= doubts[p]
    /\ InLine(p) /\ Open(p) => SentRedemption(p) + 1 <= doubts[p]

DoubtInv == \A p \in SolanaPositions : DoubtAt(p)

\* The order of a cycle: what its collections hold when.
OrderInv ==
    /\ stage \in {"identify", "redeem", "record"} => settled = {} /\ recovery = {}
    /\ stage \in {"redeem", "record"} => itm = {}
    /\ stage \in {"settle", "mark", "identify", "redeem", "record"} => positions = {}
    /\ stage \in {"mark", "record"} => current \notin todo
    /\ \A p \in positions : Open(p)
    /\ stage \in {"settle", "mark"} => \A p \in todo : Open(p)
    /\ \A p \in recovery : ~Open(p) /\ ~RowDelivered(p)

\* What a step does to the two columns of the row of p.
SameColumns(p) == (Open(p)' <=> Open(p)) /\ (RowDelivered(p)' <=> RowDelivered(p))

LEMMA SentTypes ==
    ASSUME SolanaTypeInv, NEW p \in SolanaPositions
    PROVE  /\ SentRedemption(p) \in Nat /\ doubts[p] \in Nat /\ chain.deliveries[p] \in Nat
           /\ chain.deliveries[p] <= SentRedemption(p)
BY DEF SolanaTypeInv, SolanaTypeOK, SentRedemption

\* Steps that send nothing of p and put it nowhere new.
LEMMA DoubtStays ==
    ASSUME SolanaTypeInv, SolanaTypeInv', NEW p \in SolanaPositions, DoubtAt(p),
           SentRedemption(p)' + doubts[p] <= SentRedemption(p) + doubts'[p],
           Told(p) => Told(p)', InLine(p)' => InLine(p), Marking(p)' => Marking(p),
           Open(p)' => Open(p)
    PROVE  DoubtAt(p)'
<1>1. SentRedemption(p) \in Nat /\ doubts[p] \in Nat /\ SentRedemption(p)' \in Nat /\ doubts'[p] \in Nat
  BY SentTypes, SolanaNextTypes DEF SolanaTypeInv, SolanaTypeOK, SentRedemption
<1> QED BY <1>1 DEF DoubtAt

\* Storing rows changes no settlement column.
LEMMA StoredColumns ==
    ASSUME SolanaTypeInv, RowsAppear \/ UNCHANGED orders
    PROVE  \A p \in SolanaPositions : SameColumns(p)
<1>1. RowsSay' = RowsSay
  BY RowsSayNothingNew
<1>2. ASSUME NEW p \in SolanaPositions
      PROVE  /\ Open(p) <=> ~RowsSay[p].settled
             /\ RowDelivered(p) <=> RowsSay[p].delivered
             /\ Open(p)' <=> ~RowsSay'[p].settled
             /\ RowDelivered(p)' <=> RowsSay'[p].delivered
  BY DEF RowsSay, Open, RowDelivered
<1> QED BY <1>1, <1>2 DEF SameColumns

LEMMA MarkColumns ==
    ASSUME SolanaTypeInv, NEW p \in SolanaPositions, orders[p] # None
    PROVE  /\ MarkSettled(p) =>
                /\ ~Open(p)' /\ (RowDelivered(p)' <=> RowDelivered(p))
                /\ \A q \in SolanaPositions : q # p => SameColumns(q)
           /\ MarkItmFailed(p) => \A q \in SolanaPositions : SameColumns(q)
           /\ Mark(p, [orders[p] EXCEPT !.itm = FALSE]) => \A q \in SolanaPositions : SameColumns(q)
           /\ \/ MarkItmRedeemed(p)
              \/ Mark(p, [orders[p] EXCEPT !.type = "physical_failed", !.itm = TRUE, !.delivered = TRUE])
              => /\ (Open(p)' <=> Open(p)) /\ RowDelivered(p)'
                 /\ \A q \in SolanaPositions : q # p => SameColumns(q)
<1>1. orders \in [SolanaPositions -> OrderRow \union {None}] /\ orders[p] \in OrderRow
  BY DEF SolanaTypeInv, SolanaTypeOK
<1>2. ASSUME NEW r \in OrderRow, Mark(p, r)
      PROVE  /\ orders'[p] = r /\ r # None
             /\ \A q \in SolanaPositions : q # p => SameColumns(q)
             /\ (Open(p)' <=> ~r.settled) /\ (RowDelivered(p)' <=> r.delivered)
  BY <1>1, <1>2, NoRowAssumption DEF Mark, SameColumns, Open, RowDelivered
<1>3. (Open(p) <=> ~orders[p].settled) /\ (RowDelivered(p) <=> orders[p].delivered)
  BY DEF Open, RowDelivered
<1>4. ASSUME MarkSettled(p)
      PROVE  /\ ~Open(p)' /\ (RowDelivered(p)' <=> RowDelivered(p))
             /\ \A q \in SolanaPositions : q # p => SameColumns(q)
  <2> DEFINE r == [orders[p] EXCEPT !.settled = TRUE, !.type = "cash"]
  <2>1. r \in OrderRow /\ r.settled /\ r.delivered = orders[p].delivered
    BY <1>1 DEF OrderRow
  <2>2. Mark(p, r)
    BY <1>4 DEF MarkSettled
  <2> HIDE DEF r
  <2> QED BY <1>2, <1>3, <2>1, <2>2
<1>5. ASSUME NEW r \in OrderRow, Mark(p, r), r.settled = orders[p].settled,
             r.delivered = orders[p].delivered
      PROVE  \A q \in SolanaPositions : SameColumns(q)
  BY <1>2, <1>3, <1>5 DEF SameColumns
<1>6. ASSUME MarkItmFailed(p) PROVE \A q \in SolanaPositions : SameColumns(q)
  <2> DEFINE r == [orders[p] EXCEPT !.type = "physical_failed", !.itm = TRUE]
  <2>1. r \in OrderRow /\ r.settled = orders[p].settled /\ r.delivered = orders[p].delivered
    BY <1>1 DEF OrderRow
  <2>2. Mark(p, r)
    BY <1>6 DEF MarkItmFailed
  <2> HIDE DEF r
  <2> QED BY <1>5, <2>1, <2>2
<1>7. ASSUME Mark(p, [orders[p] EXCEPT !.itm = FALSE])
      PROVE  \A q \in SolanaPositions : SameColumns(q)
  <2> DEFINE r == [orders[p] EXCEPT !.itm = FALSE]
  <2>1. r \in OrderRow /\ r.settled = orders[p].settled /\ r.delivered = orders[p].delivered
    BY <1>1 DEF OrderRow
  <2>2. Mark(p, r)
    BY <1>7
  <2> HIDE DEF r
  <2> QED BY <1>5, <2>1, <2>2
<1>8. ASSUME NEW type \in {"physical", "physical_failed"},
             Mark(p, [orders[p] EXCEPT !.type = type, !.itm = TRUE, !.delivered = TRUE])
      PROVE  /\ (Open(p)' <=> Open(p)) /\ RowDelivered(p)'
             /\ \A q \in SolanaPositions : q # p => SameColumns(q)
  <2> DEFINE r == [orders[p] EXCEPT !.type = type, !.itm = TRUE, !.delivered = TRUE]
  <2>1. r \in OrderRow /\ r.settled = orders[p].settled /\ r.delivered
    BY <1>1 DEF OrderRow
  <2>2. Mark(p, r)
    BY <1>8
  <2> HIDE DEF r
  <2> QED BY <1>2, <1>3, <2>1, <2>2
<1> QED BY <1>4, <1>6, <1>7, <1>8 DEF MarkItmRedeemed

\* Rows of positions that are not at hand keep their columns.
LEMMA ColumnsStay ==
    ASSUME SolanaTypeInv, SolanaNext, NEW p \in SolanaPositions,
           stage = "mark" => p # current,
           stage = "settle" => ~Phase1(p),
           stage = "record" => p # current
    PROVE  SameColumns(p)
<1> USE DEF SolanaTypeInv
<1>1. CASE UNCHANGED orders \/ RowsAppear
  BY <1>1, StoredColumns
<1>2. CASE MarkVault
  <2>1. stage = "mark" /\ current \in SolanaPositions /\ orders[current] # None
    BY <1>2 DEF MarkVault, WorkInv, PositionsAtWork
  <2>2. UNCHANGED orders \/ MarkSettled(current)
    BY <1>2 DEF MarkVault
  <2> QED BY <1>1, <2>1, <2>2, MarkColumns
<1>3. ASSUME NEW q \in SolanaPositions, Phase1(q) PROVE SameColumns(p)
  <2>1. stage = "settle" /\ orders[q] # None
    BY <1>3 DEF Phase1, WorkInv, PositionsAtWork
  <2>2. UNCHANGED orders \/ MarkSettled(q)
    BY <1>3 DEF Phase1, ReconcileVault, SettleVault
  <2>3. p # q
    BY <1>3, <2>1
  <2> QED BY <1>1, <2>1, <2>2, <2>3, MarkColumns
<1>4. ASSUME NEW q \in SolanaPositions, IdentifyItm(q) PROVE SameColumns(p)
  <2>1. orders[q] # None
    BY <1>4 DEF IdentifyItm, WorkInv, PositionsAtWork
  <2>2. UNCHANGED orders \/ Mark(q, [orders[q] EXCEPT !.itm = FALSE])
    BY <1>4 DEF IdentifyItm, Classify
  <2> QED BY <1>1, <2>1, <2>2, MarkColumns
<1>5. ASSUME NEW q \in SolanaPositions, RedeemItm(q) PROVE SameColumns(p)
  <2>1. orders[q] # None
    BY <1>5 DEF RedeemItm, WorkInv, PositionsAtWork
  <2>2. UNCHANGED orders \/ MarkItmFailed(q)
    BY <1>5 DEF RedeemItm, MarkFailedOrRaise
  <2> QED BY <1>1, <2>1, <2>2, MarkColumns
<1>6. CASE RecordDelivery
  <2>1. stage = "record" /\ current \in SolanaPositions /\ orders[current] # None /\ p # current
    BY <1>6 DEF RecordDelivery, WorkInv, PositionsAtWork
  <2>2. \/ UNCHANGED orders
        \/ MarkItmFailed(current)
        \/ MarkItmRedeemed(current)
        \/ Mark(current, [orders[current] EXCEPT !.type = "physical_failed", !.itm = TRUE,
                                                 !.delivered = TRUE])
    BY <1>6 DEF RecordDelivery
  <2> QED BY <1>1, <2>1, <2>2, MarkColumns
<1>7. CASE PollSolana
  <2>1. UNCHANGED orders \/ RowsAppear
    BY <1>7 DEF PollSolana, DecodeFails, RowsAppear, Candidates, Upto
  <2> QED BY <1>1, <2>1
<1>8. CASE Advance \/ SolanaCrash \/ SolanaLands \/ ExecuteOrder \/ Midnight
             \/ \E t \in OTokens : LearnMetadata(t)
  <2>1. UNCHANGED orders
    BY <1>8 DEF Advance, SolanaCrash, SettlerDies, SolanaLands, LandAny, Land, ExecuteOrder,
       Midnight, LearnMetadata, solanaVars
  <2> QED BY <1>1, <2>1
<1>9. CASE \/ StartSolanaCycle \/ RaiseSolana \/ BeginRetryPrices \/ BeginSettle
           \/ EndPhase1Solana \/ BeginRedeem \/ EndSolanaCycle \/ SetControllerPrice
           \/ \E t \in OTokens : EnsureOraclePrice(t) \/ RetryPrice(t)
  <2>1. UNCHANGED orders
    BY <1>9 DEF StartSolanaCycle, RaiseSolana, BeginRetryPrices, BeginSettle, EndPhase1Solana,
       BeginRedeem, EndSolanaCycle, SetControllerPrice, EnsureOraclePrice, RetryPrice
  <2> QED BY <1>1, <2>1
<1> QED BY <1>2, <1>3, <1>4, <1>5, <1>6, <1>7, <1>8, <1>9
    DEF SolanaNext, SolanaIndex, SolanaSettling, SolanaSettle

LEMMA InitOrder == Initial => OrderInv
BY DEF Initial, SolanaInit, OrderInv

LEMMA NextOrder ==
    ASSUME SolanaTypeInv, OrderInv, [SolanaNext]_<<solanaPartVars, faults, restarts>>
    PROVE  OrderInv'
<1> USE DEF SolanaTypeInv
<1>a. CASE CycleEnds
  BY <1>a DEF CycleEnds, Goto, OrderInv
<1>b. positions \subseteq SolanaPositions /\ recovery \subseteq SolanaPositions
  BY DEF SolanaTypeOK
<1>c. stage \in {"settle", "mark"} => todo \subseteq SolanaPositions
  BY DEF WorkInv, PositionsAtWork
<1>1. CASE UNCHANGED <<solanaPartVars, faults, restarts>>
  BY <1>1 DEF solanaPartVars, settlerVars, OrderInv, Open, RowDelivered
<1>2. ASSUME NEW p \in SolanaPositions, Phase1(p) PROVE OrderInv'
  <2>1. stage = "settle" /\ p \in todo /\ todo' = todo \ {p} /\ UNCHANGED <<positions, recovery>>
    BY <1>2 DEF Phase1, ReconcileVault, SettleVault, Goto
  <2>2. stage' = "settle" \/ (stage' = "mark" /\ current' = p)
    BY <1>2 DEF Phase1, ReconcileVault, SettleVault, Goto
  <2>3. orders[p] # None
    BY <2>1 DEF WorkInv, PositionsAtWork
  <2>4. UNCHANGED orders \/ MarkSettled(p)
    BY <1>2 DEF Phase1, ReconcileVault, SettleVault
  <2>5. ASSUME NEW q \in SolanaPositions, q # p PROVE SameColumns(q)
    BY <2>3, <2>4, <2>5, MarkColumns, StoredColumns
  <2>6. \A q \in recovery : q # p
    BY <2>1 DEF OrderInv
  <2> QED BY <1>b, <1>c, <2>1, <2>2, <2>5, <2>6 DEF OrderInv, SameColumns
<1>3. CASE MarkVault
  <2>1. /\ stage = "mark" /\ stage' = "settle" /\ todo' = todo /\ UNCHANGED <<positions, recovery>>
        /\ current \in SolanaPositions
    BY <1>3 DEF MarkVault, Goto, WorkInv, PositionsAtWork
  <2>2. UNCHANGED orders \/ MarkSettled(current)
    BY <1>3 DEF MarkVault
  <2>3. orders[current] # None
    BY <2>1 DEF WorkInv, PositionsAtWork
  <2>4. ASSUME NEW q \in SolanaPositions, q # current PROVE SameColumns(q)
    BY <2>1, <2>2, <2>3, <2>4, MarkColumns, StoredColumns
  <2>5. ASSUME NEW q \in recovery PROVE ~Open(q)' /\ ~RowDelivered(q)'
    <3>1. CASE q # current
      BY <1>b, <2>4, <3>1 DEF OrderInv, SameColumns
    <3>2. CASE q = current
      BY <2>1, <2>2, <2>3, <3>2, MarkColumns, StoredColumns DEF OrderInv, SameColumns
    <3> QED BY <3>1, <3>2
  <2> QED BY <1>b, <1>c, <2>1, <2>4, <2>5 DEF OrderInv, SameColumns
<1>4. ASSUME SolanaNext, \A p \in SolanaPositions : ~Phase1(p), ~MarkVault, stage # "mark"
      PROVE  OrderInv'
  <2>1. stage # "record" => \A p \in SolanaPositions : SameColumns(p)
    BY <1>4, ColumnsStay
  <2>2. CASE SolanaSettling
    <3>1. CASE StartSolanaCycle
      <4>1. UNCHANGED orders /\ positions' = Unsettled /\ recovery' = PendingPhase2
            /\ (stage' = "oracle" \/ (stage' = "settle" /\ todo' = {} /\ Unsettled = {}))
        BY <3>1 DEF StartSolanaCycle, Goto
      <4>2. \A p \in Unsettled : Open(p)
        BY DEF Unsettled, Open
      <4>3. \A p \in PendingPhase2 : ~Open(p) /\ ~RowDelivered(p)
        BY DEF PendingPhase2, Complete, Open, RowDelivered
      <4> QED BY <4>1, <4>2, <4>3 DEF OrderInv, Open, RowDelivered
    <3>2. CASE RaiseSolana \/ EndSolanaCycle
      BY <1>a, <3>2 DEF RaiseSolana, EndSolanaCycle
    <3>3. CASE \/ BeginRetryPrices \/ BeginSettle \/ EndPhase1Solana \/ BeginRedeem
               \/ SetControllerPrice
               \/ \E t \in OTokens : EnsureOraclePrice(t) \/ RetryPrice(t)
      BY <3>3 DEF BeginRetryPrices, BeginSettle, EndPhase1Solana, BeginRedeem, SetControllerPrice,
         EnsureOraclePrice, RetryPrice, Goto, OrderInv, Open, RowDelivered
    <3>4. ASSUME NEW p \in SolanaPositions, IdentifyItm(p) PROVE OrderInv'
      BY <1>b, <2>1, <3>4 DEF IdentifyItm, Goto, OrderInv, SameColumns
    <3>5. ASSUME NEW p \in SolanaPositions, RedeemItm(p) PROVE OrderInv'
      <4>1. stage = "redeem"
        BY <3>5 DEF RedeemItm
      <4>2. \/ CycleEnds
            \/ /\ todo' = todo \ {p} /\ UNCHANGED <<positions, recovery, settled, itm>>
               /\ stage' = "redeem" \/ (stage' = "record" /\ current' = p)
        BY <3>5 DEF RedeemItm, MarkFailedOrRaise, Goto
      <4> QED BY <1>a, <1>b, <2>1, <4>1, <4>2 DEF OrderInv, SameColumns
    <3>6. CASE RecordDelivery
      <4>1. \/ CycleEnds
            \/ stage' = "redeem" /\ todo' = todo /\ UNCHANGED <<positions, recovery, settled, itm>>
        BY <3>6 DEF RecordDelivery, Goto
      <4>2. stage = "record"
        BY <3>6 DEF RecordDelivery
      <4> QED BY <1>a, <4>1, <4>2 DEF OrderInv
    <3> QED BY <1>4, <2>2, <3>1, <3>2, <3>3, <3>4, <3>5, <3>6 DEF SolanaSettling, SolanaSettle
  <2>3. CASE SolanaCrash
    BY <1>a, <2>3 DEF SolanaCrash, SettlerDies
  <2>4. CASE SolanaIndex \/ SolanaLands \/ ExecuteOrder \/ Midnight \/ \E t \in OTokens : LearnMetadata(t)
    <3>1. UNCHANGED settlerVars
      BY <2>4 DEF SolanaIndex, PollSolana, Advance, SolanaLands, LandAny, Land, ExecuteOrder,
         Midnight, LearnMetadata, solanaVars
    <3>2. stage = "record" => positions = {} /\ recovery = {}
      BY DEF OrderInv
    <3> QED BY <1>b, <1>c, <2>1, <3>1, <3>2 DEF settlerVars, OrderInv, SameColumns
  <2> QED BY <1>4, <2>2, <2>3, <2>4 DEF SolanaNext
<1>5. ASSUME SolanaNext, stage = "mark", ~MarkVault PROVE OrderInv'
  <2>1. CASE SolanaSettling
    BY <1>5, <2>1 DEF SolanaSettling, SolanaSettle, StartSolanaCycle, RaiseSolana, EnsureOraclePrice,
       RetryPrice, SetControllerPrice, BeginRetryPrices, BeginSettle, Phase1, IdentifyItm, RedeemItm,
       EndPhase1Solana, BeginRedeem, RecordDelivery, EndSolanaCycle
  <2>2. CASE SolanaCrash
    BY <1>a, <2>2 DEF SolanaCrash, SettlerDies
  <2>3. CASE SolanaIndex \/ SolanaLands \/ ExecuteOrder \/ Midnight \/ \E t \in OTokens : LearnMetadata(t)
    <3>1. UNCHANGED settlerVars
      BY <2>3 DEF SolanaIndex, PollSolana, Advance, SolanaLands, LandAny, Land, ExecuteOrder,
         Midnight, LearnMetadata, solanaVars
    <3>2. UNCHANGED orders \/ RowsAppear
      BY <2>3 DEF SolanaIndex, PollSolana, DecodeFails, Advance, SolanaLands, LandAny, Land,
         ExecuteOrder, Midnight, LearnMetadata, solanaVars, RowsAppear, Candidates, Upto
    <3>3. \A p \in SolanaPositions : SameColumns(p)
      BY <3>2, StoredColumns
    <3> QED BY <1>5, <1>b, <1>c, <3>1, <3>3 DEF settlerVars, OrderInv, SameColumns
  <2> QED BY <1>5, <2>1, <2>2, <2>3 DEF SolanaNext
<1> QED BY <1>1, <1>2, <1>3, <1>4, <1>5

LEMMA Sends ==
    ASSUME SolanaTypeInv, NEW tx \in Transactions, NEW q \in SolanaPositions
    PROVE  /\ tx # <<"redeem", q>> =>
                /\ (Confirmed(tx) \/ Refused(tx) \/ TimedOut(tx)) => SentRedemption(q)' = SentRedemption(q)
                /\ Land(tx) => SentRedemption(q)' = SentRedemption(q)
           /\ tx = <<"redeem", q>> =>
                /\ Confirmed(tx) => SentRedemption(q)' = SentRedemption(q) + 1
                /\ Refused(tx) => SentRedemption(q)' = SentRedemption(q)
                /\ TimedOut(tx) => SentRedemption(q)' <= SentRedemption(q) + 1
                /\ Land(tx) => SentRedemption(q)' = SentRedemption(q)
<1>1. chain \in Accounts /\ chain.deliveries[q] \in Nat
  BY DEF SolanaTypeInv, SolanaTypeOK, Accounts
<1>2. ASSUME tx # <<"redeem", q>>, chain' = Effect(tx)
      PROVE  chain'.deliveries[q] = chain.deliveries[q]
  <2>1. ASSUME NEW t \in OTokens, NEW price \in Prices, tx = <<"oracle", t, price>>
        PROVE  chain'.deliveries[q] = chain.deliveries[q]
    BY <1>1, <1>2, <2>1 DEF Effect, Accounts
  <2>2. ASSUME NEW t \in OTokens, tx = <<"controller", t>>
        PROVE  chain'.deliveries[q] = chain.deliveries[q]
    BY <1>1, <1>2, <2>2 DEF Effect, Accounts
  <2>3. ASSUME NEW p \in SolanaPositions, tx = <<"settle", p>>
        PROVE  chain'.deliveries[q] = chain.deliveries[q]
    BY <1>1, <1>2, <2>3 DEF Effect, Accounts
  <2>4. ASSUME NEW p \in SolanaPositions, tx = <<"redeem", p>>
        PROVE  chain'.deliveries[q] = chain.deliveries[q]
    BY <1>1, <1>2, <2>4 DEF Effect, Accounts
  <2> QED BY <2>1, <2>2, <2>3, <2>4, TransactionKinds
<1>3. ASSUME tx = <<"redeem", q>>, chain' = Effect(tx)
      PROVE  chain'.deliveries[q] = chain.deliveries[q] + 1
  BY <1>1, <1>3 DEF Effect, Accounts
<1>4. CASE tx # <<"redeem", q>>
  BY <1>1, <1>2, <1>4 DEF Confirmed, Refused, TimedOut, Land, SentRedemption
<1>5. CASE tx = <<"redeem", q>>
  BY <1>1, <1>3, <1>5 DEF Confirmed, Refused, TimedOut, Land, SentRedemption
<1> QED BY <1>4, <1>5

LEMMA InitDoubt == Initial => DoubtInv
BY DEF Initial, SolanaInit, DoubtInv, DoubtAt, SentRedemption, Told, RowDelivered, InLine, Marking

\* Phase 0, the beginnings and ends of phases, and everything outside the cycle.
LEMMA QuietDoubt ==
    ASSUME SolanaTypeInv, SolanaTypeInv', OrderInv, DoubtInv, NEW p \in SolanaPositions,
           \/ StartSolanaCycle \/ RaiseSolana \/ BeginRetryPrices \/ BeginSettle
           \/ EndPhase1Solana \/ BeginRedeem \/ EndSolanaCycle \/ SetControllerPrice
           \/ \E t \in OTokens : EnsureOraclePrice(t) \/ RetryPrice(t)
    PROVE  DoubtAt(p)'
<1> USE DEF SolanaTypeInv
<1>1. UNCHANGED <<orders, doubts>>
  BY DEF StartSolanaCycle, RaiseSolana, BeginRetryPrices, BeginSettle, EndPhase1Solana,
     BeginRedeem, EndSolanaCycle, SetControllerPrice, EnsureOraclePrice, RetryPrice
<1>2. SentRedemption(p)' = SentRedemption(p)
  <2>1. \A t \in OTokens : /\ <<"controller", t>> \in Transactions
                            /\ <<"controller", t>> # <<"redeem", p>>
                            /\ \A price \in Prices : /\ <<"oracle", t, price>> \in Transactions
                                                      /\ <<"oracle", t, price>> # <<"redeem", p>>
    BY DEF Transactions
  <2>2. UNCHANGED <<chain, inflight>> => SentRedemption(p)' = SentRedemption(p)
    BY DEF SentRedemption
  <2>3. ASSUME NEW t \in OTokens, CopyPrice(t) PROVE SentRedemption(p)' = SentRedemption(p)
    BY <2>1, <2>3, Sends DEF CopyPrice
  <2>4. ASSUME NEW t \in OTokens, EnsureOraclePrice(t) PROVE SentRedemption(p)' = SentRedemption(p)
    <3>1. \/ UNCHANGED <<chain, inflight>>
          \/ \E price \in Prices : LET tx == <<"oracle", t, price>> IN
               Confirmed(tx) \/ Refused(tx) \/ TimedOut(tx)
      BY <2>4 DEF EnsureOraclePrice, NoPriceUpdate
    <3> QED BY <2>1, <2>2, <3>1, Sends
  <2>5. ASSUME NEW t \in OTokens, RetryPrice(t) PROVE SentRedemption(p)' = SentRedemption(p)
    BY <2>2, <2>3, <2>5 DEF RetryPrice
  <2>6. CASE SetControllerPrice
    BY <2>3, <2>6 DEF SetControllerPrice, WorkInv
  <2>7. CASE \/ StartSolanaCycle \/ RaiseSolana \/ BeginRetryPrices \/ BeginSettle
             \/ EndPhase1Solana \/ BeginRedeem \/ EndSolanaCycle
    BY <2>2, <2>7 DEF StartSolanaCycle, RaiseSolana, BeginRetryPrices, BeginSettle,
       EndPhase1Solana, BeginRedeem, EndSolanaCycle
  <2> QED BY <2>4, <2>5, <2>6, <2>7
<1>3. SentRedemption(p)' + doubts[p] <= SentRedemption(p) + doubts'[p]
  BY <1>1, <1>2, SentTypes
<1>4. (Open(p)' <=> Open(p)) /\ (RowDelivered(p)' <=> RowDelivered(p))
  BY <1>1 DEF Open, RowDelivered
<1>5. /\ stage \notin {"mark", "record"} \/ CycleEnds
      /\ stage' # "mark"
  BY DEF StartSolanaCycle, RaiseSolana, BeginRetryPrices, BeginSettle, EndPhase1Solana,
     BeginRedeem, EndSolanaCycle, SetControllerPrice, EnsureOraclePrice, RetryPrice, CycleEnds, Goto
<1>6. stage \notin {"mark", "record"}
  BY DEF StartSolanaCycle, RaiseSolana, BeginRetryPrices, BeginSettle, EndPhase1Solana,
     BeginRedeem, EndSolanaCycle, SetControllerPrice, EnsureOraclePrice, RetryPrice
<1>7. Told(p) => Told(p)'
  BY <1>4, <1>6 DEF Told
<1>8. ~Marking(p)'
  BY <1>5 DEF Marking
<1>9. InLine(p)' => InLine(p) \/ (EndPhase1Solana /\ p \in recovery)
  <2>1. CASE CycleEnds
    BY <2>1 DEF CycleEnds, Goto, InLine
  <2>2. CASE StartSolanaCycle \/ BeginRetryPrices \/ BeginSettle \/ SetControllerPrice
             \/ \E t \in OTokens : EnsureOraclePrice(t) \/ RetryPrice(t)
    BY <1>6, <2>2 DEF StartSolanaCycle, BeginRetryPrices, BeginSettle, SetControllerPrice,
       EnsureOraclePrice, RetryPrice, Goto, InLine
  <2>3. CASE EndPhase1Solana
    BY <2>3 DEF EndPhase1Solana, Goto, InLine
  <2>4. CASE BeginRedeem
    BY <2>4 DEF BeginRedeem, Goto, InLine
  <2> QED BY <2>1, <2>2, <2>3, <2>4 DEF RaiseSolana, EndSolanaCycle
<1>10. CASE InLine(p)' => InLine(p)
  BY <1>3, <1>4, <1>7, <1>8, <1>10, DoubtStays DEF DoubtInv
<1>11. CASE EndPhase1Solana /\ p \in recovery
  <2>1. ~Open(p) /\ ~RowDelivered(p)
    BY <1>11 DEF OrderInv
  <2>2. SentRedemption(p) <= doubts[p]
    BY <1>6, <2>1 DEF DoubtInv, DoubtAt, Told
  <2> QED BY <1>1, <1>2, <1>4, <1>8, <2>1, <2>2, SentTypes DEF DoubtAt
<1> QED BY <1>9, <1>10, <1>11

\* A cycle that ends takes every position out of line.
LEMMA EndDoubt ==
    ASSUME SolanaTypeInv, SolanaTypeInv', NEW p \in SolanaPositions, DoubtAt(p), CycleEnds,
           SameColumns(p),
           \/ /\ SentRedemption(p)' + doubts[p] <= SentRedemption(p) + doubts'[p]
              /\ ~(stage = "record" /\ current = p)
           \/ SentRedemption(p)' = SentRedemption(p) /\ doubts'[p] = doubts[p] + 1
    PROVE  DoubtAt(p)'
<1>1. /\ ~InLine(p)' /\ ~Marking(p)' /\ (Told(p)' <=> RowDelivered(p)')
  BY DEF CycleEnds, Goto, InLine, Marking, Told
<1>2. SentRedemption(p) \in Nat /\ doubts[p] \in Nat /\ SentRedemption(p)' \in Nat /\ doubts'[p] \in Nat
  BY SentTypes DEF SolanaTypeInv, SolanaTypeOK, SentRedemption
<1> QED BY <1>1, <1>2 DEF DoubtAt, SameColumns, Told

LEMMA Phase1Doubt ==
    ASSUME SolanaTypeInv, SolanaTypeInv', TruthInv, OrderInv, DoubtInv, NEW p \in SolanaPositions,
           MarkVault \/ \E q \in SolanaPositions : Phase1(q)
    PROVE  DoubtAt(p)'
<1> USE DEF SolanaTypeInv
<1>1. DoubtAt(p) /\ SentRedemption(p) \in Nat /\ doubts[p] \in Nat
  BY SentTypes DEF DoubtInv
<1>2. CASE MarkVault
  <2>1. /\ stage = "mark" /\ current \in SolanaPositions /\ orders[current] # None
        /\ stage' = "settle" /\ UNCHANGED <<chain, inflight, settled, itm>>
    BY <1>2 DEF MarkVault, Goto, WorkInv, PositionsAtWork
  <2>2. SentRedemption(p)' = SentRedemption(p) /\ ~Marking(p)' /\ (Told(p)' <=> RowDelivered(p)')
    BY <2>1 DEF SentRedemption, Marking, Told
  <2>3. CASE p # current
    <3>1. UNCHANGED orders \/ MarkSettled(current)
      BY <1>2 DEF MarkVault
    <3>2. SameColumns(p)
      BY <2>1, <2>3, <3>1, MarkColumns, StoredColumns
    <3>3. doubts'[p] = doubts[p]
      BY <1>2, <2>1, <2>3 DEF MarkVault, SolanaTypeOK
    <3>4. (InLine(p)' <=> InLine(p)) /\ (Told(p) <=> RowDelivered(p))
      BY <2>1, <2>3 DEF InLine, Told
    <3> QED BY <1>1, <2>2, <3>2, <3>3, <3>4 DEF DoubtAt, SameColumns
  <2>4. CASE p = current
    <3>1. SentRedemption(p) <= doubts[p] /\ (Told(p) <=> RowDelivered(p))
      BY <1>1, <2>1, <2>4 DEF DoubtAt, Marking, Told
    <3>2. CASE MarkSettled(current) /\ UNCHANGED doubts
      <4>1. ~Open(p)' /\ (RowDelivered(p)' <=> RowDelivered(p))
        BY <2>1, <2>4, <3>2, MarkColumns
      <4> QED BY <1>1, <2>2, <3>1, <3>2, <4>1 DEF DoubtAt
    <3>3. CASE doubts' = [doubts EXCEPT ![current] = @ + 1] /\ UNCHANGED orders
      <4>1. doubts'[p] = doubts[p] + 1
        BY <2>4, <3>3 DEF SolanaTypeOK
      <4> QED BY <1>1, <2>2, <3>1, <3>3, <4>1 DEF DoubtAt
    <3> QED BY <1>2, <3>2, <3>3 DEF MarkVault
  <2> QED BY <2>3, <2>4
<1>3. ASSUME NEW q \in SolanaPositions, Phase1(q) PROVE DoubtAt(p)'
  <2>1. /\ stage = "settle" /\ q \in todo /\ todo' = todo \ {q} /\ orders[q] # None
        /\ UNCHANGED <<itm, doubts>>
    BY <1>3 DEF Phase1, ReconcileVault, SettleVault, Goto, WorkInv, PositionsAtWork
  <2>2. <<"settle", q>> \in Transactions /\ <<"settle", q>> # <<"redeem", p>>
    BY DEF Transactions
  <2>3. SentRedemption(p)' = SentRedemption(p)
    <3>1. UNCHANGED <<chain, inflight>> => SentRedemption(p)' = SentRedemption(p)
      BY DEF SentRedemption
    <3> QED BY <1>3, <2>2, <3>1, Sends DEF Phase1, ReconcileVault, SettleVault
  <2>4. /\ (Told(p) <=> RowDelivered(p)) /\ (Told(p)' <=> RowDelivered(p)')
    BY <1>3, <2>1 DEF Told, Phase1, ReconcileVault, SettleVault, Goto
  <2>5. Open(q)
    BY <2>1 DEF OrderInv
  <2>6. CASE p # q
    <3>1. UNCHANGED orders \/ MarkSettled(q)
      BY <1>3 DEF Phase1, ReconcileVault, SettleVault
    <3>2. SameColumns(p)
      BY <2>1, <2>6, <3>1, MarkColumns, StoredColumns
    <3>3. ~Marking(p)' /\ (InLine(p)' => InLine(p))
      BY <1>3, <2>1, <2>6 DEF Phase1, ReconcileVault, SettleVault, Goto, Marking, InLine
    <3> QED BY <1>1, <2>1, <2>3, <2>4, <3>2, <3>3 DEF DoubtAt, SameColumns
  <2>7. CASE p = q
    <3>1. SentRedemption(p) <= doubts[p]
      BY <1>1, <2>5, <2>7 DEF DoubtAt
    <3>2. CASE ReconcileVault(q)
      <4>1. ~Open(p)' /\ (RowDelivered(p)' <=> RowDelivered(p))
        BY <2>1, <2>7, <3>2, MarkColumns DEF ReconcileVault
      <4> QED BY <1>1, <2>1, <2>3, <2>4, <3>1, <4>1 DEF DoubtAt
    <3>3. CASE SettleVault(q)
      <4>1. SameColumns(p)
        BY <3>3, StoredColumns DEF SettleVault
      <4>2. InLine(p)' => InLine(p)
        BY <2>1, <2>7, <3>3 DEF SettleVault, Goto, InLine
      <4> QED BY <1>1, <2>1, <2>3, <2>4, <3>1, <4>1, <4>2 DEF DoubtAt, SameColumns
    <3> QED BY <1>3, <3>2, <3>3 DEF Phase1
  <2> QED BY <2>6, <2>7
<1> QED BY <1>2, <1>3

LEMMA Phase2Doubt ==
    ASSUME SolanaTypeInv, SolanaTypeInv', OrderInv, DoubtInv, NEW p \in SolanaPositions,
           RecordDelivery \/ \E q \in SolanaPositions : IdentifyItm(q) \/ RedeemItm(q)
    PROVE  DoubtAt(p)'
<1> USE DEF SolanaTypeInv
<1>1. DoubtAt(p) /\ SentRedemption(p) \in Nat /\ doubts[p] \in Nat /\ doubts \in [SolanaPositions -> Nat]
  BY SentTypes DEF DoubtInv, SolanaTypeOK
<1>2. ASSUME NEW q \in SolanaPositions, IdentifyItm(q) PROVE DoubtAt(p)'
  <2>1. /\ stage = "identify" /\ stage' = "identify" /\ q \in todo /\ todo' = todo \ {q}
        /\ UNCHANGED <<chain, inflight, settled, doubts>> /\ orders[q] # None
    BY <1>2 DEF IdentifyItm, Goto, WorkInv, PositionsAtWork
  <2>2. itm' \subseteq itm \union {q}
    BY <1>2 DEF IdentifyItm, Classify
  <2>3. UNCHANGED orders \/ Mark(q, [orders[q] EXCEPT !.itm = FALSE])
    BY <1>2 DEF IdentifyItm, Classify
  <2>4. SameColumns(p)
    BY <2>1, <2>3, MarkColumns, StoredColumns
  <2>5. /\ SentRedemption(p)' = SentRedemption(p) /\ (InLine(p)' => InLine(p)) /\ ~Marking(p)'
        /\ (Told(p) <=> RowDelivered(p)) /\ (Told(p)' <=> RowDelivered(p)')
    BY <2>1, <2>2 DEF SentRedemption, InLine, Marking, Told
  <2> QED BY <1>1, <2>1, <2>4, <2>5 DEF DoubtAt, SameColumns
<1>3. ASSUME NEW q \in SolanaPositions, RedeemItm(q) PROVE DoubtAt(p)'
  <2> DEFINE tx == <<"redeem", q>>
  <2>1. stage = "redeem" /\ q \in todo /\ orders[q] # None /\ tx \in Transactions
    BY <1>3 DEF RedeemItm, WorkInv, PositionsAtWork, Transactions
  <2>2. settled = {} /\ itm = {}
    BY <2>1 DEF OrderInv
  <2>3. SameColumns(p)
    <3>1. UNCHANGED orders \/ MarkItmFailed(q)
      BY <1>3 DEF RedeemItm, MarkFailedOrRaise
    <3> QED BY <2>1, <3>1, MarkColumns, StoredColumns
  <2>4. (Told(p) <=> RowDelivered(p)) /\ (InLine(p) <=> p \in todo)
    BY <2>1, <2>2 DEF Told, InLine
  <2>5. CASE /\ Confirmed(tx) /\ stage' = "record" /\ todo' = todo \ {q} /\ current' = q
             /\ UNCHANGED <<doubts, settled, itm>>
    <3>1. ~Marking(p)' /\ (InLine(p)' <=> p \in todo \ {q})
      BY <2>2, <2>5 DEF Marking, InLine
    <3>2. Told(p)' <=> (RowDelivered(p)' \/ p = q)
      BY <2>5 DEF Told
    <3>3. CASE p = q
      <4>1. SentRedemption(p)' = SentRedemption(p) + 1
        BY <2>1, <2>5, <3>3, Sends
      <4>2. SentRedemption(p) <= doubts[p] /\ (Open(p) => SentRedemption(p) + 1 <= doubts[p])
        BY <1>1, <2>1, <2>4, <3>3 DEF DoubtAt
      <4> QED BY <1>1, <2>3, <2>5, <3>1, <3>2, <3>3, <4>1, <4>2 DEF DoubtAt, SameColumns
    <3>4. CASE p # q
      <4>1. tx # <<"redeem", p>>
        BY <3>4
      <4>2. SentRedemption(p)' = SentRedemption(p)
        BY <2>1, <2>5, <4>1, Sends
      <4> QED BY <1>1, <2>3, <2>4, <2>5, <3>1, <3>2, <3>4, <4>2 DEF DoubtAt, SameColumns
    <3> QED BY <3>3, <3>4
  <2>6. CASE /\ UNCHANGED <<chain, inflight>> \/ Refused(tx)
             /\ stage' = "redeem" /\ todo' = todo \ {q} /\ UNCHANGED <<doubts, settled, itm>>
    <3>1. ~Marking(p)' /\ (InLine(p)' => InLine(p)) /\ (Told(p)' <=> RowDelivered(p)')
      BY <2>1, <2>6 DEF Marking, InLine, Told
    <3>2. SentRedemption(p)' = SentRedemption(p)
      BY <2>6 DEF Refused, SentRedemption
    <3> QED BY <1>1, <2>3, <2>4, <2>6, <3>1, <3>2 DEF DoubtAt, SameColumns
  <2>7. CASE TimedOut(tx) /\ MarkFailedOrRaise(q) /\ Doubt(q)
    <3>1. /\ p = q => doubts'[p] = doubts[p] + 1 /\ SentRedemption(p)' <= SentRedemption(p) + 1
          /\ p # q => doubts'[p] = doubts[p] /\ SentRedemption(p)' = SentRedemption(p)
      <4>1. CASE p = q
        BY <1>1, <2>1, <2>7, <4>1, Sends DEF Doubt
      <4>2. CASE p # q
        <5>1. tx # <<"redeem", p>>
          BY <4>2
        <5> QED BY <1>1, <2>1, <2>7, <4>2, <5>1, Sends DEF Doubt
      <4> QED BY <4>1, <4>2
    <3>2. SentRedemption(p)' \in Nat
      BY <1>1 DEF SolanaTypeOK, SentRedemption
    <3>3. SentRedemption(p)' + doubts[p] <= SentRedemption(p) + doubts'[p]
      BY <1>1, <3>1, <3>2
    <3>4. CASE CycleEnds
      BY <1>1, <2>1, <2>3, <3>3, <3>4, EndDoubt
    <3>5. CASE stage' = "redeem" /\ todo' = todo \ {q} /\ UNCHANGED <<settled, itm>>
      <4>1. ~Marking(p)' /\ (InLine(p)' => InLine(p)) /\ (Told(p)' <=> RowDelivered(p)')
        BY <2>1, <3>5 DEF Marking, InLine, Told
      <4> QED BY <1>1, <2>3, <2>4, <3>3, <4>1, DoubtStays DEF SameColumns
    <3> QED BY <2>7, <3>4, <3>5 DEF MarkFailedOrRaise, Goto
  <2> QED BY <1>3, <2>5, <2>6, <2>7 DEF RedeemItm, NothingToSend, Goto
<1>4. CASE RecordDelivery
  <2>1. /\ stage = "record" /\ current \in SolanaPositions /\ orders[current] # None
        /\ UNCHANGED <<chain, inflight>>
    BY <1>4 DEF RecordDelivery, WorkInv, PositionsAtWork
  <2>2. settled = {} /\ itm = {} /\ current \notin todo
    BY <2>1 DEF OrderInv
  <2>3. SentRedemption(p)' = SentRedemption(p)
    BY <2>1 DEF SentRedemption
  <2>4. CASE UNCHANGED orders /\ Doubt(current) /\ CycleEnds
    <3>1. SameColumns(p)
      BY <2>4, StoredColumns
    <3>2. doubts'[p] = IF p = current THEN doubts[p] + 1 ELSE doubts[p]
      BY <1>1, <2>4 DEF Doubt
    <3> QED BY <1>1, <2>3, <2>4, <3>1, <3>2, EndDoubt
  <2>5. CASE stage' = "redeem" /\ todo' = todo /\ UNCHANGED <<settled, itm>>
    <3>1. ~Marking(p)' /\ (InLine(p)' <=> InLine(p)) /\ (Told(p)' <=> RowDelivered(p)')
      BY <2>1, <2>5 DEF Marking, InLine, Told
    <3>2. p = current => ~InLine(p)
      BY <2>1, <2>2 DEF InLine
    <3>3. p # current => (Told(p) <=> RowDelivered(p))
      BY DEF Told
    <3>4. CASE MarkItmFailed(current) /\ Doubt(current)
      <4>1. SameColumns(p)
        BY <2>1, <3>4, MarkColumns
      <4>2. doubts'[p] = IF p = current THEN doubts[p] + 1 ELSE doubts[p]
        BY <1>1, <3>4 DEF Doubt
      <4> QED BY <1>1, <2>3, <3>1, <3>2, <3>3, <4>1, <4>2 DEF DoubtAt, SameColumns
    <3>5. CASE /\ UNCHANGED doubts
               /\ \/ MarkItmRedeemed(current)
                  \/ Mark(current, [orders[current] EXCEPT !.type = "physical_failed", !.itm = TRUE,
                                                           !.delivered = TRUE])
      <4>1. /\ p = current => (Open(p)' <=> Open(p)) /\ RowDelivered(p)'
            /\ p # current => SameColumns(p)
        BY <2>1, <3>5, MarkColumns
      <4> QED BY <1>1, <2>3, <3>1, <3>2, <3>3, <3>5, <4>1 DEF DoubtAt, SameColumns
    <3> QED BY <1>4, <2>4, <3>4, <3>5 DEF RecordDelivery
  <2> QED BY <1>4, <2>4, <2>5 DEF RecordDelivery, Goto
<1> QED BY <1>2, <1>3, <1>4

\* The other tasks, the chain, and a crash.
LEMMA OutsideDoubt ==
    ASSUME SolanaTypeInv, SolanaTypeInv', DoubtInv, NEW p \in SolanaPositions,
           \/ SolanaIndex \/ SolanaLands \/ SolanaCrash \/ ExecuteOrder \/ Midnight
           \/ \E t \in OTokens : LearnMetadata(t)
    PROVE  DoubtAt(p)'
<1> USE DEF SolanaTypeInv
<1>1. DoubtAt(p) /\ SentRedemption(p) \in Nat /\ doubts[p] \in Nat
  BY SentTypes DEF DoubtInv
<1>2. UNCHANGED orders \/ RowsAppear
  BY DEF SolanaIndex, PollSolana, DecodeFails, Advance, SolanaLands, LandAny, Land, SolanaCrash,
     SettlerDies, ExecuteOrder, Midnight, LearnMetadata, solanaVars, RowsAppear, Candidates, Upto
<1>3. SameColumns(p)
  BY <1>2, StoredColumns
<1>4. CASE SolanaCrash
  <2>1. PICK lost \in SUBSET SolanaPositions : SettlerDies(lost)
    BY <1>4 DEF SolanaCrash
  <2>2. /\ CycleEnds /\ UNCHANGED chain
        /\ inflight' = inflight \union {<<"redeem", q>> : q \in lost}
        /\ doubts'[p] = IF p \in lost \union Unrecorded THEN doubts[p] + 1 ELSE doubts[p]
    BY <2>1 DEF SettlerDies
  <2>3. lost \subseteq (IF stage = "redeem" THEN todo ELSE {})
    BY <2>1 DEF SettlerDies
  <2>4. CASE p \notin lost
    <3>1. SentRedemption(p)' = SentRedemption(p)
      BY <2>2, <2>4 DEF SentRedemption
    <3> QED BY <1>1, <1>3, <2>2, <2>4, <3>1, EndDoubt DEF Unrecorded
  <2>5. CASE p \in lost
    <3>1. SentRedemption(p)' <= SentRedemption(p) + 1
      <4>1. chain'.deliveries[p] = chain.deliveries[p] /\ chain.deliveries[p] \in Nat
        BY <2>2 DEF SolanaTypeOK
      <4> QED BY <4>1 DEF SentRedemption
    <3>2. doubts'[p] = doubts[p] + 1 /\ stage # "record"
      BY <2>2, <2>3, <2>5
    <3>3. SentRedemption(p)' \in Nat
      BY DEF SolanaTypeOK, SentRedemption
    <3>4. SentRedemption(p)' + doubts[p] <= SentRedemption(p) + doubts'[p]
      BY <1>1, <3>1, <3>2, <3>3
    <3> QED BY <1>1, <1>3, <2>2, <3>2, <3>4, EndDoubt
  <2> QED BY <2>4, <2>5
<1>5. CASE SolanaLands
  <2>1. PICK tx \in inflight : Land(tx)
    BY <1>5 DEF SolanaLands, LandAny
  <2>2. tx \in Transactions
    BY DEF SolanaTypeOK
  <2>3. SentRedemption(p)' = SentRedemption(p)
    BY <2>1, <2>2, Sends
  <2>4. UNCHANGED <<settlerVars, doubts>>
    BY <2>1 DEF Land
  <2> QED BY <1>1, <1>3, <2>3, <2>4, DoubtStays
      DEF settlerVars, SameColumns, Told, InLine, Marking
<1>6. CASE SolanaIndex \/ ExecuteOrder \/ Midnight \/ \E t \in OTokens : LearnMetadata(t)
  <2>1. UNCHANGED <<chain, inflight, settlerVars, doubts>>
    BY <1>6 DEF SolanaIndex, PollSolana, Advance, ExecuteOrder, Midnight, LearnMetadata, solanaVars
  <2>2. SentRedemption(p)' = SentRedemption(p)
    BY <2>1 DEF SentRedemption
  <2> QED BY <1>1, <1>3, <2>1, <2>2, DoubtStays
      DEF settlerVars, SameColumns, Told, InLine, Marking
<1> QED BY <1>4, <1>5, <1>6

LEMMA NextDoubt ==
    ASSUME SolanaTypeInv, TruthInv, OrderInv, DoubtInv,
           [SolanaNext]_<<solanaPartVars, faults, restarts>>
    PROVE  DoubtInv'
<1>1. CASE UNCHANGED <<solanaPartVars, faults, restarts>>
  BY <1>1 DEF solanaPartVars, settlerVars, DoubtInv, DoubtAt, SentRedemption, Told, RowDelivered, InLine,
     Marking, Open
<1>2. CASE SolanaNext
  <2>1. SolanaTypeInv'
    BY <1>2, SolanaNextTypes
  <2>2. SUFFICES ASSUME NEW p \in SolanaPositions PROVE DoubtAt(p)'
    BY DEF DoubtInv
  <2>3. CASE SolanaSettling
    BY <2>1, <2>3, QuietDoubt, Phase1Doubt, Phase2Doubt DEF SolanaSettling, SolanaSettle
  <2>4. CASE ~SolanaSettling
    BY <1>2, <2>1, <2>4, OutsideDoubt DEF SolanaNext
  <2> QED BY <2>3, <2>4
<1> QED BY <1>1, <1>2

\* A position is delivered at most once more than its outcomes were left
\* unrecorded, whatever times out, lands late, is marked in part or cut off.
THEOREM DoubtsBoundDeliveries == SolanaSpec => []RedeliveryNeedsDoubt
<1>1. SolanaTypeInv /\ DoubtInv => RedeliveryNeedsDoubt
  <2> SUFFICES ASSUME SolanaTypeInv, DoubtInv, NEW p \in SolanaPositions
               PROVE  chain.deliveries[p] <= 1 + doubts[p]
    BY DEF RedeliveryNeedsDoubt
  <2>1. SentRedemption(p) <= doubts[p] + 1
    BY DEF DoubtInv, DoubtAt
  <2> QED BY <2>1, SentTypes
<1>2. SolanaTypeInv /\ TruthInv /\ [SolanaNext]_<<solanaPartVars, faults, restarts>> => TruthInv'
  BY NextTruth
<1>3. SolanaTypeInv /\ OrderInv /\ [SolanaNext]_<<solanaPartVars, faults, restarts>> => OrderInv'
  BY NextOrder
<1>4. SolanaTypeInv /\ TruthInv /\ OrderInv /\ DoubtInv
        /\ [SolanaNext]_<<solanaPartVars, faults, restarts>> => DoubtInv'
  BY NextDoubt
<1> QED BY <1>1, <1>2, <1>3, <1>4, SolanaInitTypes, SolanaNextTypes, InitTruth, InitOrder, InitDoubt, PTL
    DEF SolanaSpec, Initial
=============================================================================
