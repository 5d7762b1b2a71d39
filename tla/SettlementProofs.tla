-------------------------- MODULE SettlementProofs ---------------------------
(***************************************************************************)
(* Theorems about the expiry settler, for every set of positions and every *)
(* bound; then about the settler, the indexer's attribution of deliveries  *)
(* and the rotation endpoint together, where the settler's own invariants  *)
(* are carried over the steps of the other two.                            *)
(***************************************************************************)
EXTENDS Settlement, FiniteSetTheorems, WellFoundedInduction, TLAPS

-----------------------------------------------------------------------------
(* Type correctness.  The number of a fresh transaction is a number because *)
(* finitely many were sent; a position is at hand when its row is recorded. *)

Finite == IsFiniteSet(delivered) /\ IsFiniteSet(sentRedeems)

Recording == pc \in {"record", "fail"} => cur \in Positions

TypeInv == TypeOK /\ Finite /\ Recording

\* The parts of TypeOK that speak of sets of positions, one by one.
SetTypes ==
    /\ check \subseteq Positions /\ unsettled \subseteq Positions
    /\ todo \subseteq Positions /\ batch \subseteq Positions
    /\ ready \subseteq Positions /\ itm \subseteq Positions
    /\ otm \subseteq Positions /\ vaultSettled \subseteq Positions

LEMMA SetTypesDef ==
    SetTypes <=> \A s \in {check, unsettled, todo, batch, ready, itm, otm, vaultSettled} :
                    s \subseteq Positions
BY DEF SetTypes

LEMMA SetTypesDefPrimed ==
    SetTypes' <=> (\A s \in {check, unsettled, todo, batch, ready, itm, otm, vaultSettled} :
                    s \subseteq Positions)'
BY DEF SetTypes

LEMMA InitTypes == SettlerInit => TypeInv
<1> SUFFICES ASSUME SettlerInit PROVE TypeInv
  OBVIOUS
<1> USE DEF SettlerInit
<1>1. row \in [Positions -> Row]
  BY DEF Row
<1>2. SetTypes
  BY DEF SetTypes
<1>3. /\ pc \in Steps /\ cur \in Positions \union {None} /\ tx \in Tx \union {None}
      /\ attempt \in 1..MaxTries /\ price \in [Series -> {"unset", "in", "out"}]
      /\ faults \in 0..MaxFaults /\ restarts \in 0..MaxRestarts
  BY SettlerBoundsAssumption DEF Steps, Awaiting
<1>4. Finite
  BY FS_EmptySet DEF Finite
<1> QED BY <1>1, <1>2, <1>3, <1>4, SetTypesDef DEF TypeInv, TypeOK, Recording

\* One write of a row, and the counter of failing calls.
LEMMA UpdateTypes ==
    ASSUME TypeOK, NEW p \in Positions, NEW r \in Row, Update(p, r)
    PROVE  row' \in [Positions -> Row] /\ faults' \in 0..MaxFaults
BY SettlerBoundsAssumption DEF TypeOK, Update, Fault

LEMMA FaultTypes == TypeOK /\ (Fault \/ UNCHANGED faults) => faults' \in 0..MaxFaults
BY SettlerBoundsAssumption DEF TypeOK, Fault

\* The values the settler writes into a row.
LEMMA RowTypes ==
    ASSUME TypeOK, NEW p \in Positions
    PROVE  /\ [row[p] EXCEPT !.settled = TRUE] \in Row
           /\ [row[p] EXCEPT !.settled = TRUE, !.type = "cash"] \in Row
           /\ [row[p] EXCEPT !.type = "physical", !.itm = "yes", !.delivery = tx] \in Row
           /\ [row[p] EXCEPT !.type = "physical_failed", !.itm = "yes"] \in Row
           /\ [row[p] EXCEPT !.itm = "no"] \in Row
<1>1. row[p] \in Row /\ tx \in Tx \union {None}
  BY DEF TypeOK
<1>2. /\ [row[p] EXCEPT !.settled = TRUE] \in Row
      /\ [row[p] EXCEPT !.settled = TRUE, !.type = "cash"] \in Row
  BY <1>1 DEF Row
<1>3. /\ [row[p] EXCEPT !.type = "physical", !.itm = "yes", !.delivery = tx] \in Row
      /\ [row[p] EXCEPT !.type = "physical_failed", !.itm = "yes"] \in Row
  BY <1>1 DEF Row
<1>4. [row[p] EXCEPT !.itm = "no"] \in Row
  BY <1>1 DEF Row
<1> QED BY <1>2, <1>3, <1>4

\* A transaction not sent before can always be numbered.
LEMMA FreshType ==
    ASSUME TypeInv, NEW p \in Positions
    PROVE  Fresh(p) \in Tx
<1>1. IsFiniteSet(delivered \union sentRedeems)
  BY FS_Union DEF TypeInv, Finite
<1>2. IsFiniteSet({t \in delivered \union sentRedeems : t[1] = p})
  BY <1>1, FS_Subset
<1>3. Cardinality({t \in delivered \union sentRedeems : t[1] = p}) \in Nat
  BY <1>2, FS_CardinalityType
<1> QED BY <1>3 DEF Fresh, Tx

\* Every variable but the sets of positions, typed.
RestTypes ==
    /\ due \subseteq Positions /\ row \in [Positions -> Row] /\ pc \in Steps
    /\ cur \in Positions \union {None} /\ attempt \in 1..MaxTries
    /\ tx \in Tx \union {None} /\ price \in [Series -> {"unset", "in", "out"}]
    /\ delivered \subseteq Tx /\ sentRedeems \subseteq Tx
    /\ sentPrices \subseteq Series /\ sentBatches \subseteq SUBSET Positions
    /\ faults \in 0..MaxFaults /\ restarts \in 0..MaxRestarts

LEMMA TypeInvParts == TypeInv <=> SetTypes /\ RestTypes /\ Finite /\ Recording
BY DEF TypeInv, TypeOK, SetTypes, RestTypes

LEMMA TypeInvPartsPrimed == TypeInv' <=> SetTypes' /\ RestTypes' /\ Finite' /\ Recording'
BY DEF TypeInv, TypeOK, SetTypes, RestTypes

\* The steps that open and close a stage of the cycle write no row.
Staging == StartCycle \/ EndReconcile \/ EndRecheck \/ EndPhase1 \/ EndCycle

LEMMA StagingTypes ==
    ASSUME TypeInv, Staging
    PROVE  TypeInv'
<1>1. UNCHANGED <<due, row, cur, attempt, tx, chain, faults, restarts>>
  BY DEF Staging, StartCycle, EndReconcile, EndRecheck, EndPhase1, EndCycle, local
<1>2. pc' \in Steps /\ pc' \notin {"record", "fail"}
  BY DEF Staging, StartCycle, EndReconcile, EndRecheck, EndPhase1, EndCycle, Steps, Awaiting
<1>3. SetTypes'
  BY TypeInvParts DEF Staging, StartCycle, EndReconcile, EndRecheck, EndPhase1, EndCycle,
     SetTypes, RestTypes, ExpiredUnsettled, PendingPhase2, local, chain
<1>4. RestTypes' /\ Finite' /\ Recording'
  BY <1>1, <1>2, TypeInvParts DEF RestTypes, Finite, Recording, chain, sent
<1> QED BY <1>3, <1>4, TypeInvPartsPrimed

\* The steps that write one row.
RowStep(p) == Reconcile(p) \/ MarkSettled(p) \/ MarkOtm(p)

LEMMA RowStepTypes ==
    ASSUME TypeInv, NEW p \in Positions, RowStep(p)
    PROVE  TypeInv'
<1>1. UNCHANGED <<due, cur, attempt, tx, chain, restarts>>
  BY DEF RowStep, Reconcile, MarkSettled, MarkOtm
<1>2. row' \in [Positions -> Row] /\ faults' \in 0..MaxFaults
  <2>1. \/ \E r \in Row : Update(p, r)
        \/ UNCHANGED row /\ (Fault \/ UNCHANGED faults)
    BY RowTypes DEF RowStep, Reconcile, ReconcileOne, MarkSettled, MarkOtm, TypeInv
  <2> QED BY <2>1, UpdateTypes, FaultTypes DEF TypeInv, TypeOK
<1>3. pc' \in Steps /\ pc' \notin {"record", "fail"}
  BY DEF RowStep, Reconcile, MarkSettled, MarkOtm, Steps, Awaiting
<1>4. SetTypes'
  BY TypeInvParts DEF RowStep, Reconcile, ReconcileOne, MarkSettled, MarkOtm, SetTypes, chain
<1>5. RestTypes' /\ Finite' /\ Recording'
  BY <1>1, <1>2, <1>3, TypeInvParts DEF RestTypes, Finite, Recording, chain, sent
<1> QED BY <1>4, <1>5, TypeInvPartsPrimed

LEMMA RecordOutcomeTypes ==
    ASSUME TypeInv, RecordOutcome
    PROVE  TypeInv'
<1>1. cur \in Positions
  BY DEF TypeInv, Recording, RecordOutcome
<1>2. row' \in [Positions -> Row] /\ faults' \in 0..MaxFaults
  <2>1. \E r \in Row : Update(cur, r)
    BY <1>1, RowTypes DEF RecordOutcome, TypeInv
  <2> QED BY <1>1, <2>1, UpdateTypes DEF TypeInv
<1>3. SetTypes'
  BY TypeInvParts DEF RecordOutcome, SetTypes, chain
<1>4. pc' \in Steps /\ pc' \notin {"record", "fail"} /\ cur' = None /\ tx' = None
  BY DEF RecordOutcome, Steps, Awaiting
<1>5. RestTypes' /\ Finite' /\ Recording'
  BY <1>2, <1>4, TypeInvParts DEF RecordOutcome, RestTypes, Finite, Recording, chain, sent
<1> QED BY <1>3, <1>5, TypeInvPartsPrimed

LEMMA IdentifyTypes ==
    ASSUME TypeInv, Identify
    PROVE  TypeInv'
<1>1. PICK failed \in SUBSET {SeriesOf[p] : p \in ready} :
          /\ Classify({p \in ready : SeriesOf[p] \in failed})
          /\ IF failed = {} THEN UNCHANGED faults ELSE Fault
  BY DEF Identify
<1>2. SetTypes'
  BY <1>1, TypeInvParts DEF Identify, Classify, InSeries, SetTypes, chain
<1>3. faults' \in 0..MaxFaults
  BY <1>1, FaultTypes DEF TypeInv
<1>4. pc' \in Steps /\ pc' \notin {"record", "fail"}
  BY DEF Identify, Steps, Awaiting
<1>5. RestTypes' /\ Finite' /\ Recording'
  BY <1>3, <1>4, TypeInvParts DEF Identify, RestTypes, Finite, Recording, chain, sent
<1> QED BY <1>2, <1>5, TypeInvPartsPrimed

LEMMA SetPricesTypes ==
    ASSUME TypeInv, SetPrices
    PROVE  TypeInv'
<1>1. /\ price' \in [Series -> {"unset", "in", "out"}]
      /\ sentPrices' \subseteq Series
      /\ Fault \/ UNCHANGED faults
  <2> DEFINE wanted == {s \in {SeriesOf[p] : p \in todo \union ready} : price[s] = "unset"}
  <2>1. wanted \subseteq Series
    BY PositionsAssumption, TypeInvParts DEF SetTypes
  <2>2. PICK set \in SUBSET wanted, late \in SUBSET wanted, in \in SUBSET wanted :
            /\ price' = [s \in Series |-> IF s \notin set THEN price[s]
                                          ELSE IF s \in in THEN "in" ELSE "out"]
            /\ sentPrices' = (sentPrices \ set) \union late
            /\ Fault \/ UNCHANGED faults
    BY DEF SetPrices
  <2> QED BY <2>1, <2>2, TypeInvParts DEF RestTypes
<1>2. faults' \in 0..MaxFaults
  BY <1>1, FaultTypes DEF TypeInv
<1>3. pc' = "settle" /\ UNCHANGED <<due, row, local, vaultSettled, delivered,
                                   sentBatches, sentRedeems, restarts>>
  BY DEF SetPrices
<1>4. SetTypes'
  BY <1>3, TypeInvParts DEF SetTypes, local
<1>5. RestTypes' /\ Finite' /\ Recording'
  BY <1>1, <1>2, <1>3, TypeInvParts DEF RestTypes, Finite, Recording, local, Steps
<1> QED BY <1>4, <1>5, TypeInvPartsPrimed

LEMMA SettleBatchTypes ==
    ASSUME TypeInv, SettleBatch
    PROVE  TypeInv'
<1>1. PICK ps \in SUBSET todo : todo' = todo \ ps /\ SendBatch(ps)
  BY DEF SettleBatch
<1>2. ps \subseteq Positions
  BY TypeInvParts DEF SetTypes
<1>3. UNCHANGED <<due, row, unsettled, itm, otm, cur, attempt, tx, price, delivered,
                  sentPrices, sentRedeems, restarts>>
  BY DEF SettleBatch
<1>4. SetTypes'
  BY <1>1, <1>2, <1>3, TypeInvParts DEF SendBatch, SetTypes
<1>5. /\ pc' \in Steps /\ pc' \notin {"record", "fail"}
      /\ sentBatches' \subseteq SUBSET Positions
      /\ Fault \/ UNCHANGED faults
  BY <1>1, <1>2, TypeInvParts DEF SendBatch, RestTypes, Steps
<1>6. faults' \in 0..MaxFaults
  BY <1>5, FaultTypes DEF TypeInv
<1>7. RestTypes' /\ Finite' /\ Recording'
  BY <1>3, <1>5, <1>6, TypeInvParts DEF RestTypes, Finite, Recording
<1> QED BY <1>4, <1>7, TypeInvPartsPrimed

LEMMA DeliverTypes ==
    ASSUME TypeInv, NEW p \in Positions, Deliver(p)
    PROVE  TypeInv'
<1>1. UNCHANGED <<due, row, check, unsettled, todo, batch, ready, itm, otm,
                  price, vaultSettled, sentPrices, sentBatches, restarts>>
  BY DEF Deliver
<1>2. cur' = p /\ pc' \in {"record", "deliver", "fail"}
  BY DEF Deliver
<1>3. attempt' \in 1..MaxTries
  BY SettlerBoundsAssumption, TypeInvParts DEF Deliver, MayRetry, RestTypes
<1>4. /\ delivered' = delivered \union {Fresh(p)} \/ UNCHANGED delivered
      /\ sentRedeems' = sentRedeems \union {Fresh(p)} \/ UNCHANGED sentRedeems
      /\ tx' = Fresh(p) \/ UNCHANGED tx
      /\ Fault \/ UNCHANGED faults
  BY DEF Deliver
<1>5. faults' \in 0..MaxFaults
  BY <1>4, FaultTypes DEF TypeInv
<1>6. Finite'
  BY <1>4, FS_AddElement, TypeInvParts DEF Finite
<1>7. SetTypes'
  BY <1>1, TypeInvParts DEF SetTypes
<1>8. RestTypes' /\ Recording'
  BY <1>1, <1>2, <1>3, <1>4, <1>5, FreshType, TypeInvParts
     DEF RestTypes, Recording, Steps, Awaiting
<1> QED BY <1>6, <1>7, <1>8, TypeInvPartsPrimed

LEMMA CrashTypes ==
    ASSUME TypeInv, SettlerCrash
    PROVE  TypeInv'
<1>1. SetTypes'
  BY TypeInvParts DEF SettlerCrash, SetTypes, chain
<1>2. RestTypes' /\ Finite' /\ Recording'
  BY SettlerBoundsAssumption, TypeInvParts
     DEF SettlerCrash, RestTypes, Finite, Recording, chain, sent, Steps, Awaiting
<1> QED BY <1>1, <1>2, TypeInvPartsPrimed

\* A position becomes due, or a transaction that timed out lands after all.
Landing == \/ \E p \in Positions : BecomeDue(p)
           \/ \E s \in Series : LandPrice(s)
           \/ \E ps \in sentBatches : LandBatch(ps)
           \/ \E t \in sentRedeems : LandRedeem(t)

LEMMA LandingTypes ==
    ASSUME TypeInv, Landing
    PROVE  TypeInv'
<1>1. UNCHANGED <<row, pc, local, faults, restarts>>
  BY DEF Landing, BecomeDue, LandPrice, LandBatch, LandRedeem
<1>2. SetTypes'
  BY <1>1, TypeInvParts DEF Landing, BecomeDue, LandPrice, LandBatch, LandRedeem,
     SetTypes, RestTypes, local, chain
<1>3. Finite'
  BY <1>1, TypeInvParts, FS_AddElement, FS_RemoveElement
     DEF Landing, BecomeDue, LandPrice, LandBatch, LandRedeem, Finite, chain, sent
<1>4. RestTypes'
  BY <1>1, TypeInvParts DEF Landing, BecomeDue, LandPrice, LandBatch, LandRedeem,
     RestTypes, local, chain, sent
<1>5. Recording'
  BY <1>1, TypeInvParts DEF Recording, local
<1> QED BY <1>2, <1>3, <1>4, <1>5, TypeInvPartsPrimed

LEMMA StepKinds ==
    ASSUME SettlerNext
    PROVE  \/ Staging \/ RecordOutcome \/ Identify \/ SetPrices \/ SettleBatch
           \/ SettlerCrash \/ Landing
           \/ \E p \in Positions : RowStep(p) \/ Deliver(p)
BY DEF SettlerNext, Settle, World, Staging, Landing, RowStep

LEMMA NextTypes == TypeInv /\ [SettlerNext]_settlerVars => TypeInv'
<1>1. ASSUME TypeInv, SettlerNext PROVE TypeInv'
  BY <1>1, StepKinds, StagingTypes, RecordOutcomeTypes, IdentifyTypes, SetPricesTypes,
     SettleBatchTypes, CrashTypes, LandingTypes, RowStepTypes, DeliverTypes
<1>2. ASSUME TypeInv, UNCHANGED settlerVars PROVE TypeInv'
  BY <1>2, TypeInvParts, TypeInvPartsPrimed
     DEF settlerVars, local, chain, sent, SetTypes, RestTypes, Finite, Recording
<1> QED BY <1>1, <1>2

\* The settler's state is well typed for every set of positions and oTokens:
\* settle_once never records an outcome without a position at hand.
THEOREM TypeCorrect == SettlerSpec => []TypeOK
<1>1. TypeInv => TypeOK
  BY DEF TypeInv
<1> QED BY <1>1, InitTypes, NextTypes, PTL DEF SettlerSpec

LEMMA TypeInvariant == SettlerSpec => []TypeInv
BY InitTypes, NextTypes, PTL DEF SettlerSpec
-----------------------------------------------------------------------------
(* Rows follow the chain.  A vault gets into the sets a later step trusts   *)
(* (a confirmed batch, settled_positions, the positions to deliver) only    *)
(* after the controller has settled it, and settled vaults stay settled.    *)

Trusted == batch \union ready \union itm

ChainInv == SettledOnChain /\ Trusted \subseteq vaultSettled

\* A step that settles nothing anew, trusts nothing anew and marks no row but
\* one of a settled vault.
LEMMA ChainKept ==
    ASSUME ChainInv, vaultSettled \subseteq vaultSettled',
           Trusted' \subseteq Trusted \union vaultSettled',
           \A p \in Positions : row'[p].settled => row[p].settled \/ p \in vaultSettled'
    PROVE  ChainInv'
BY DEF ChainInv, SettledOnChain

\* What an update leaves of the settlement flags.
LEMMA UpdateSettled ==
    ASSUME TypeInv, NEW p \in Positions, NEW r \in Row, Update(p, r), NEW q \in Positions,
           row'[q].settled
    PROVE  row[q].settled \/ (q = p /\ r.settled)
BY DEF Update, TypeInv, TypeOK

LEMMA InitChain == SettlerInit => ChainInv
BY DEF SettlerInit, ChainInv, SettledOnChain, Trusted

LEMMA StagingChain ==
    ASSUME TypeInv, ChainInv, Staging
    PROVE  ChainInv'
<1>1. UNCHANGED <<row, vaultSettled>>
  BY DEF Staging, StartCycle, EndReconcile, EndRecheck, EndPhase1, EndCycle, chain
<1>2. PendingPhase2 \subseteq vaultSettled
  BY TypeInvParts DEF PendingPhase2, ChainInv, SettledOnChain, RestTypes
<1>3. Trusted' \subseteq Trusted \union vaultSettled
  BY <1>2 DEF Staging, StartCycle, EndReconcile, EndRecheck, EndPhase1, EndCycle,
     Trusted, local
<1> QED BY <1>1, <1>3, ChainKept

LEMMA RowStepChain ==
    ASSUME TypeInv, ChainInv, NEW p \in Positions, RowStep(p)
    PROVE  ChainInv'
<1>1. UNCHANGED vaultSettled
  BY DEF RowStep, Reconcile, MarkSettled, MarkOtm, chain
<1>2. Trusted' \subseteq Trusted \union vaultSettled
  BY DEF RowStep, Reconcile, ReconcileOne, MarkSettled, MarkOtm, Trusted, ChainInv
<1>3. \/ UNCHANGED row
      \/ \E r \in Row : Update(p, r) /\ (r.settled => row[p].settled \/ p \in vaultSettled)
  <2>1. /\ [row[p] EXCEPT !.settled = TRUE] \in Row
        /\ [row[p] EXCEPT !.settled = TRUE, !.type = "cash"] \in Row
        /\ [row[p] EXCEPT !.itm = "no"] \in Row
        /\ [row[p] EXCEPT !.itm = "no"].settled = row[p].settled
    BY RowTypes DEF TypeInv, TypeOK, Row
  <2>2. CASE Reconcile(p)
    BY <2>1, <2>2 DEF Reconcile, ReconcileOne
  <2>3. CASE MarkSettled(p)
    BY <2>1, <2>3 DEF MarkSettled, ChainInv, Trusted
  <2>4. CASE MarkOtm(p)
    BY <2>1, <2>4 DEF MarkOtm
  <2> QED BY <2>2, <2>3, <2>4 DEF RowStep
<1>4. \A q \in Positions : row'[q].settled => row[q].settled \/ q \in vaultSettled
  BY <1>3, UpdateSettled
<1> QED BY <1>1, <1>2, <1>4, ChainKept

LEMMA RecordOutcomeChain ==
    ASSUME TypeInv, ChainInv, RecordOutcome
    PROVE  ChainInv'
<1>1. UNCHANGED vaultSettled /\ Trusted' \subseteq Trusted
  BY DEF RecordOutcome, chain, Trusted
<1>2. cur \in Positions
  BY DEF TypeInv, Recording, RecordOutcome
<1>3. \E r \in Row : Update(cur, r) /\ r.settled = row[cur].settled
  <2>1. /\ [row[cur] EXCEPT !.type = "physical", !.itm = "yes", !.delivery = tx] \in Row
        /\ [row[cur] EXCEPT !.type = "physical_failed", !.itm = "yes"] \in Row
    BY <1>2, RowTypes DEF TypeInv
  <2>2. /\ [row[cur] EXCEPT !.type = "physical", !.itm = "yes", !.delivery = tx].settled
             = row[cur].settled
        /\ [row[cur] EXCEPT !.type = "physical_failed", !.itm = "yes"].settled
             = row[cur].settled
    BY <1>2, TypeInvParts DEF RestTypes, Row
  <2> QED BY <2>1, <2>2 DEF RecordOutcome
<1>4. \A q \in Positions : row'[q].settled => row[q].settled
  BY <1>2, <1>3, UpdateSettled
<1> QED BY <1>1, <1>4, ChainKept

LEMMA ClassifyingChain ==
    ASSUME TypeInv, ChainInv, Identify \/ SetPrices \/ SettlerCrash
    PROVE  ChainInv'
<1>1. UNCHANGED <<row, vaultSettled>>
  BY DEF Identify, SetPrices, SettlerCrash, chain
<1>2. Trusted' \subseteq Trusted
  BY DEF Identify, Classify, InSeries, SetPrices, SettlerCrash, Trusted, local
<1> QED BY <1>1, <1>2, ChainKept

LEMMA SettleBatchChain ==
    ASSUME TypeInv, ChainInv, SettleBatch
    PROVE  ChainInv'
<1>1. PICK ps \in SUBSET todo : SendBatch(ps)
  BY DEF SettleBatch
<1>2. UNCHANGED <<row, itm>>
  BY DEF SettleBatch
<1>3. vaultSettled \subseteq vaultSettled' /\ Trusted' \subseteq Trusted \union vaultSettled'
  BY <1>1, <1>2 DEF SendBatch, Trusted
<1> QED BY <1>2, <1>3, ChainKept

LEMMA WorldChain ==
    ASSUME TypeInv, ChainInv, Landing \/ \E p \in Positions : Deliver(p)
    PROVE  ChainInv'
<1>1. UNCHANGED <<row, batch, ready, itm>>
  BY DEF Landing, BecomeDue, LandPrice, LandBatch, LandRedeem, Deliver, local
<1>2. vaultSettled \subseteq vaultSettled'
  BY DEF Landing, BecomeDue, LandPrice, LandBatch, LandRedeem, Deliver, chain
<1> QED BY <1>1, <1>2, ChainKept DEF Trusted

LEMMA NextChain == TypeInv /\ ChainInv /\ [SettlerNext]_settlerVars => ChainInv'
<1>1. ASSUME TypeInv, ChainInv, SettlerNext PROVE ChainInv'
  BY <1>1, StepKinds, StagingChain, RowStepChain, RecordOutcomeChain, ClassifyingChain,
     SettleBatchChain, WorldChain
<1>2. ASSUME ChainInv, UNCHANGED settlerVars PROVE ChainInv'
  BY <1>2 DEF settlerVars, local, chain, ChainInv, SettledOnChain, Trusted
<1> QED BY <1>1, <1>2

\* is_settled is never ahead of the controller: whatever batches time out,
\* revert or land late, and whenever the process dies between two marks.
THEOREM RowsFollowTheChain == SettlerSpec => []SettledOnChain
<1>1. ChainInv => SettledOnChain
  BY DEF ChainInv
<1> QED BY <1>1, TypeInvariant, InitChain, NextChain, PTL DEF SettlerSpec

LEMMA ChainInvariant == SettlerSpec => []ChainInv
BY TypeInvariant, InitChain, NextChain, PTL DEF SettlerSpec
-----------------------------------------------------------------------------
(* Rows follow the oracle.  The classes of the cycle rest on finalized      *)
(* prices, the outcome about to be recorded is one of a position in them,   *)
(* and a finalized price never changes.                                     *)

ClassesPriced ==
    /\ \A p \in itm : price[SeriesOf[p]] = "in"
    /\ \A p \in otm : price[SeriesOf[p]] = "out"

OutcomeOfItm == pc \in {"record", "fail"} => cur \in itm

OracleInv == ClassifiedTruthfully /\ ClassesPriced /\ OutcomeOfItm

Finalized == \A s \in Series : price[s] # "unset" => price'[s] = price[s]

LEMMA EveryStepFinalized ==
    ASSUME TypeInv, SettlerNext
    PROVE  Finalized
<1>1. CASE SetPrices
  BY <1>1 DEF SetPrices, Finalized
<1>2. CASE Landing
  BY <1>2, TypeInvParts DEF Landing, BecomeDue, LandPrice, LandBatch, LandRedeem,
     Finalized, RestTypes, chain
<1>3. CASE Staging
  BY <1>3 DEF Staging, StartCycle, EndReconcile, EndRecheck, EndPhase1, EndCycle,
     chain, Finalized
<1>4. CASE RecordOutcome \/ Identify \/ SettleBatch \/ SettlerCrash
  BY <1>4 DEF RecordOutcome, Identify, SettleBatch, SettlerCrash, chain, Finalized
<1>5. CASE \E p \in Positions : RowStep(p) \/ Deliver(p)
  BY <1>5 DEF RowStep, Reconcile, MarkSettled, MarkOtm, Deliver, chain, Finalized
<1> QED BY <1>1, <1>2, <1>3, <1>4, <1>5, StepKinds

\* A step whose classes and recorded verdicts are those of before, or new and
\* priced.
LEMMA OracleKept ==
    ASSUME TypeInv, OracleInv, Finalized,
           \A p \in itm' : p \in itm \/ (p \in Positions /\ price'[SeriesOf[p]] = "in"),
           \A p \in otm' : p \in otm \/ (p \in Positions /\ price'[SeriesOf[p]] = "out"),
           \A p \in Positions : \/ row'[p].itm = row[p].itm
                                \/ row'[p].itm = "yes" /\ p \in itm
                                \/ row'[p].itm = "no" /\ p \in otm,
           OutcomeOfItm'
    PROVE  OracleInv'
<1>1. /\ itm \subseteq Positions /\ otm \subseteq Positions
      /\ \A p \in Positions : SeriesOf[p] \in Series
  BY TypeInvParts, PositionsAssumption DEF SetTypes
<1>2. \A p \in Positions :
          /\ price[SeriesOf[p]] = "in" => price'[SeriesOf[p]] = "in"
          /\ price[SeriesOf[p]] = "out" => price'[SeriesOf[p]] = "out"
  BY <1>1 DEF Finalized
<1>3. ASSUME NEW p \in Positions
      PROVE  /\ row'[p].itm = "yes" => price'[SeriesOf[p]] = "in"
             /\ row'[p].itm = "no" => price'[SeriesOf[p]] = "out"
  <2>1. CASE row'[p].itm = row[p].itm
    BY <1>2, <2>1 DEF OracleInv, ClassifiedTruthfully
  <2>2. CASE row'[p].itm = "yes" /\ p \in itm
    BY <1>2, <2>2 DEF OracleInv, ClassesPriced
  <2>3. CASE row'[p].itm = "no" /\ p \in otm
    BY <1>2, <2>3 DEF OracleInv, ClassesPriced
  <2> QED BY <2>1, <2>2, <2>3
<1>4. \A p \in itm' : price'[SeriesOf[p]] = "in"
  BY <1>1, <1>2 DEF OracleInv, ClassesPriced
<1>5. \A p \in otm' : price'[SeriesOf[p]] = "out"
  BY <1>1, <1>2 DEF OracleInv, ClassesPriced
<1> QED BY <1>3, <1>4, <1>5 DEF OracleInv, ClassifiedTruthfully, ClassesPriced

\* What an update leaves of the classification.
LEMMA UpdateItm ==
    ASSUME TypeInv, NEW p \in Positions, NEW r \in Row, Update(p, r), NEW q \in Positions
    PROVE  row'[q].itm = row[q].itm \/ (q = p /\ row'[q].itm = r.itm)
BY DEF Update, TypeInv, TypeOK

LEMMA InitOracle == SettlerInit => OracleInv
BY DEF SettlerInit, OracleInv, ClassifiedTruthfully, ClassesPriced, OutcomeOfItm

\* Steps that write no row and add nothing to the classes.
LEMMA QuietOracle ==
    ASSUME TypeInv, OracleInv, SettlerNext,
           \/ Staging \/ SetPrices \/ SettleBatch \/ SettlerCrash \/ Landing
           \/ \E p \in Positions : Deliver(p)
    PROVE  OracleInv'
<1>1. UNCHANGED row /\ itm' \subseteq itm /\ otm' \subseteq otm
  BY DEF Staging, StartCycle, EndReconcile, EndRecheck, EndPhase1, EndCycle, SetPrices,
     SettleBatch, SettlerCrash, Landing, BecomeDue, LandPrice, LandBatch, LandRedeem,
     Deliver, local
<1>2. OutcomeOfItm'
  <2>1. CASE Landing
    BY <2>1 DEF Landing, BecomeDue, LandPrice, LandBatch, LandRedeem, local,
       OracleInv, OutcomeOfItm
  <2>2. CASE \E p \in Positions : Deliver(p)
    BY <2>2 DEF Deliver, OutcomeOfItm
  <2>3. CASE Staging \/ SetPrices \/ SettlerCrash
    BY <2>3 DEF Staging, StartCycle, EndReconcile, EndRecheck, EndPhase1, EndCycle,
       SetPrices, SettlerCrash, OutcomeOfItm
  <2>4. CASE SettleBatch
    BY <2>4 DEF SettleBatch, SendBatch, OutcomeOfItm
  <2> QED BY <2>1, <2>2, <2>3, <2>4
<1> QED BY <1>1, <1>2, EveryStepFinalized, OracleKept

LEMMA IdentifyOracle ==
    ASSUME TypeInv, OracleInv, Identify
    PROVE  OracleInv'
<1>1. ready \subseteq Positions
  BY TypeInvParts DEF SetTypes
<1>2. /\ \A p \in itm' : p \in Positions /\ price'[SeriesOf[p]] = "in"
      /\ \A p \in otm' : p \in Positions /\ price'[SeriesOf[p]] = "out"
      /\ UNCHANGED row
  BY <1>1 DEF Identify, Classify, InSeries, chain
<1>3. OutcomeOfItm'
  BY DEF Identify, OutcomeOfItm
<1> QED BY <1>2, <1>3, EveryStepFinalized, OracleKept DEF SettlerNext, Settle

LEMMA RowStepOracle ==
    ASSUME TypeInv, OracleInv, SettlerNext, NEW p \in Positions, RowStep(p)
    PROVE  OracleInv'
<1>1. itm' = itm /\ otm' \subseteq otm /\ OutcomeOfItm'
  BY DEF RowStep, Reconcile, MarkSettled, MarkOtm, OutcomeOfItm
<1>2. \A q \in Positions : row'[q].itm = row[q].itm \/ (row'[q].itm = "no" /\ q \in otm)
  <2>1. /\ [row[p] EXCEPT !.settled = TRUE] \in Row
        /\ [row[p] EXCEPT !.settled = TRUE, !.type = "cash"] \in Row
        /\ [row[p] EXCEPT !.itm = "no"] \in Row
    BY RowTypes DEF TypeInv
  <2>2. /\ [row[p] EXCEPT !.settled = TRUE].itm = row[p].itm
        /\ [row[p] EXCEPT !.settled = TRUE, !.type = "cash"].itm = row[p].itm
        /\ [row[p] EXCEPT !.itm = "no"].itm = "no"
    BY TypeInvParts DEF RestTypes, Row
  <2>3. \/ UNCHANGED row
        \/ \E r \in Row : Update(p, r) /\ (r.itm = row[p].itm \/ (r.itm = "no" /\ p \in otm))
    <3>1. CASE Reconcile(p)
      BY <2>1, <2>2, <3>1 DEF Reconcile, ReconcileOne
    <3>2. CASE MarkSettled(p)
      BY <2>1, <2>2, <3>2 DEF MarkSettled
    <3>3. CASE MarkOtm(p)
      BY <2>1, <2>2, <3>3 DEF MarkOtm
    <3> QED BY <3>1, <3>2, <3>3 DEF RowStep
  <2> QED BY <2>3, UpdateItm
<1> QED BY <1>1, <1>2, EveryStepFinalized, OracleKept

LEMMA RecordOutcomeOracle ==
    ASSUME TypeInv, OracleInv, RecordOutcome
    PROVE  OracleInv'
<1>1. itm' \subseteq itm /\ otm' = otm /\ OutcomeOfItm'
  BY DEF RecordOutcome, OutcomeOfItm
<1>2. cur \in Positions /\ cur \in itm
  BY DEF TypeInv, Recording, RecordOutcome, OracleInv, OutcomeOfItm
<1>3. \E r \in Row : Update(cur, r) /\ r.itm = "yes"
  <2>1. /\ [row[cur] EXCEPT !.type = "physical", !.itm = "yes", !.delivery = tx] \in Row
        /\ [row[cur] EXCEPT !.type = "physical_failed", !.itm = "yes"] \in Row
    BY <1>2, RowTypes DEF TypeInv
  <2>2. /\ [row[cur] EXCEPT !.type = "physical", !.itm = "yes", !.delivery = tx].itm = "yes"
        /\ [row[cur] EXCEPT !.type = "physical_failed", !.itm = "yes"].itm = "yes"
    BY <1>2, TypeInvParts DEF RestTypes, Row
  <2> QED BY <2>1, <2>2 DEF RecordOutcome
<1>4. \A q \in Positions : row'[q].itm = row[q].itm \/ (row'[q].itm = "yes" /\ q \in itm)
  BY <1>2, <1>3, UpdateItm
<1> QED BY <1>1, <1>4, EveryStepFinalized, OracleKept DEF SettlerNext, Settle

LEMMA NextOracle == TypeInv /\ OracleInv /\ [SettlerNext]_settlerVars => OracleInv'
<1>1. ASSUME TypeInv, OracleInv, SettlerNext PROVE OracleInv'
  BY <1>1, StepKinds, QuietOracle, IdentifyOracle, RowStepOracle, RecordOutcomeOracle
<1>2. ASSUME OracleInv, UNCHANGED settlerVars PROVE OracleInv'
  BY <1>2 DEF settlerVars, local, chain, OracleInv, ClassifiedTruthfully, ClassesPriced,
     OutcomeOfItm
<1> QED BY <1>1, <1>2

\* A row is marked in or out of the money only under a finalized oracle price
\* that says so, whatever price calls fail or land between two cycles.
THEOREM RowsFollowTheOracle == SettlerSpec => []ClassifiedTruthfully
<1>1. OracleInv => ClassifiedTruthfully
  BY DEF OracleInv
<1> QED BY <1>1, TypeInvariant, InitOracle, NextOracle, PTL DEF SettlerSpec

LEMMA OracleInvariant == SettlerSpec => []OracleInv
BY TypeInvariant, InitOracle, NextOracle, PTL DEF SettlerSpec

\* Phase 2 waits for phase 1 and for the oracle: no physicalRedeem is sent for
\* a vault that is not settled or whose series is not in the money.
THEOREM DeliveriesComeLast == SettlerSpec => DeliversAfterSettlement
<1>1. ASSUME ChainInv, OracleInv, NEW p \in Positions, Deliver(p)
      PROVE  p \in vaultSettled /\ price[SeriesOf[p]] = "in"
  BY <1>1 DEF ChainInv, Trusted, OracleInv, ClassesPriced, Deliver
<1>2. ChainInv /\ OracleInv =>
          [\A p \in Positions : Deliver(p) =>
              p \in vaultSettled /\ price[SeriesOf[p]] = "in"]_settlerVars
  BY <1>1
<1> QED BY <1>2, ChainInvariant, OracleInvariant, PTL DEF DeliversAfterSettlement, SettlerSpec
-----------------------------------------------------------------------------
(* The settler, the indexer and the rotation endpoint together.            *)

LEMMA MinOfNats ==
    ASSUME NEW S \in SUBSET Nat, S # {}
    PROVE  Min(S) \in S
<1> DEFINE Below == {pair \in Nat \X Nat : pair[1] < pair[2]}
<1>1. IsWellFoundedOn(Below, Nat)
  BY NatLessThanWellFounded, Zenon DEF OpToRel
<1>2. PICK x \in S : \A y \in S : ~(<<y, x>> \in Below)
  BY <1>1, WFMin, Zenon
<1>3. \A y \in S : ~(y < x)
  BY <1>2
<1>4. \A y \in S : x <= y
  BY <1>3
<1> QED BY <1>4 DEF Min

Task == SettlerNext /\ UNCHANGED <<seen, intent, rotation>>

-----------------------------------------------------------------------------
(* Type correctness. *)

OthersTypeOK ==
    seen \subseteq Tx /\ intent \in [Positions -> IntentStates] /\ rotation \subseteq Positions

LEMMA InitJointTypes == Init => TypeInv /\ OthersTypeOK
BY InitTypes DEF Init, OthersTypeOK, IntentStates

\* The row an event goes to is one of its oToken that shows no delivery.
LEMMA AttributeFacts ==
    ASSUME TypeInv, OthersTypeOK, NEW t \in delivered, AttributeDelivery(t)
    PROVE  \E p \in due :
              /\ p \in Positions /\ SeriesOf[p] = SeriesOf[t[1]] /\ row[p].delivery = None
              /\ [row[p] EXCEPT !.type = "physical", !.itm = "yes", !.delivery = t] \in Row
              /\ Update(p, [row[p] EXCEPT !.type = "physical", !.itm = "yes", !.delivery = t])
<1> DEFINE unmarked == {p \in RowsOf(SeriesOf[t[1]]) : row[p].delivery = None}
           p == Min(unmarked)
<1>1. unmarked # {} /\ Update(p, [row[p] EXCEPT !.type = "physical", !.itm = "yes", !.delivery = t])
  BY DEF AttributeDelivery
<1>2. unmarked \subseteq due /\ due \subseteq Positions /\ unmarked \subseteq Nat
  BY PositionsAssumption, TypeInvParts DEF RowsOf, RestTypes
<1>3. p \in unmarked
  BY <1>1, <1>2, MinOfNats
<1>4. t \in Tx /\ row[p] \in Row
  BY <1>2, <1>3, TypeInvParts DEF RestTypes
<1>5. [row[p] EXCEPT !.type = "physical", !.itm = "yes", !.delivery = t] \in Row
  BY <1>4 DEF Row
<1> QED BY <1>1, <1>2, <1>3, <1>5 DEF RowsOf

LEMMA AttributeTypes ==
    ASSUME TypeInv, OthersTypeOK, NEW t \in delivered, AttributeDelivery(t)
    PROVE  TypeInv' /\ OthersTypeOK'
<1>1. UNCHANGED <<due, pc, local, chain, restarts, seen, intent, rotation>>
  BY DEF AttributeDelivery
<1>2. row' \in [Positions -> Row] /\ faults' \in 0..MaxFaults
  BY AttributeFacts, UpdateTypes DEF TypeInv
<1>3. SetTypes' /\ RestTypes' /\ Finite' /\ Recording'
  BY <1>1, <1>2, TypeInvParts DEF SetTypes, RestTypes, Finite, Recording, local, chain, sent
<1> QED BY <1>1, <1>3, TypeInvPartsPrimed DEF OthersTypeOK

LEMMA ConfirmTypes ==
    ASSUME TypeInv, OthersTypeOK, NEW t \in delivered, Confirm(t)
    PROVE  TypeInv' /\ OthersTypeOK' /\ UNCHANGED settlerVars
<1>1. UNCHANGED settlerVars /\ OthersTypeOK'
  BY TypeInvParts DEF Confirm, OthersTypeOK, RestTypes
<1> QED BY <1>1, NextTypes

\* The rotation endpoint writes intents, and leaves the settler alone but for
\* the counter of failures.
LEMMA ReconcileIntentTypes ==
    ASSUME TypeInv, OthersTypeOK, NEW p \in Positions, ReconcileIntent(p)
    PROVE  /\ TypeInv' /\ OthersTypeOK'
           /\ UNCHANGED <<due, row, pc, local, chain, restarts, seen>>
<1>1. UNCHANGED <<due, row, pc, local, chain, restarts, seen>>
  BY DEF ReconcileIntent
<1>2. (Fault \/ UNCHANGED faults) /\ OthersTypeOK'
  BY DEF ReconcileIntent, ReconcileVerdict, Rotate, SetIntent, OthersTypeOK, IntentStates
<1>3. faults' \in 0..MaxFaults
  BY <1>2, FaultTypes DEF TypeInv
<1>4. SetTypes' /\ RestTypes' /\ Finite' /\ Recording'
  BY <1>1, <1>3, TypeInvParts DEF SetTypes, RestTypes, Finite, Recording, local, chain, sent
<1> QED BY <1>1, <1>2, <1>4, TypeInvPartsPrimed

LEMMA NextJointTypes ==
    TypeInv /\ OthersTypeOK /\ [Next]_settlementVars => TypeInv' /\ OthersTypeOK'
<1>1. ASSUME TypeInv, OthersTypeOK, Task \/ UNCHANGED settlementVars
      PROVE  TypeInv' /\ OthersTypeOK'
  BY <1>1, NextTypes DEF Task, settlementVars, OthersTypeOK
<1> QED BY <1>1, AttributeTypes, ConfirmTypes, ReconcileIntentTypes DEF Next, Others, Task

\* Rows, chains, intents and rotations are well typed whoever takes the steps.
THEOREM JointTypeCorrect == Spec => []SettlementTypeOK
<1>1. TypeInv /\ OthersTypeOK => SettlementTypeOK
  BY DEF TypeInv, OthersTypeOK, SettlementTypeOK
<1> QED BY <1>1, InitJointTypes, NextJointTypes, PTL DEF Spec

LEMMA JointTypeInvariant == Spec => [](TypeInv /\ OthersTypeOK)
BY InitJointTypes, NextJointTypes, PTL DEF Spec

-----------------------------------------------------------------------------
(* The settler's invariants hold beside the other tasks.  Deliveries are   *)
(* sent for settled vaults in the money only, so an event marks no row     *)
(* that is out of the money.                                               *)

Sent == delivered \union sentRedeems

SentFor(p) == {t \in Sent : t[1] = p}

\* The transactions of a position are numbered, so that a fresh one is new.
SentInv ==
    \A t \in Sent :
        /\ t[1] \in vaultSettled /\ price[SeriesOf[t[1]]] = "in"
        /\ t[2] <= Cardinality(SentFor(t[1]))

SettlerInv == TypeInv /\ ChainInv /\ OracleInv /\ SentInv

JointInv == SettlerInv /\ OthersTypeOK

LEMMA VaultsStaySettled ==
    ASSUME TypeInv, SettlerNext
    PROVE  vaultSettled \subseteq vaultSettled'
<1>1. CASE Staging \/ RecordOutcome \/ Identify \/ SetPrices \/ SettlerCrash
  BY <1>1 DEF Staging, StartCycle, EndReconcile, EndRecheck, EndPhase1, EndCycle,
     RecordOutcome, Identify, SetPrices, SettlerCrash, chain
<1>2. CASE SettleBatch
  BY <1>2 DEF SettleBatch, SendBatch
<1>3. CASE Landing
  BY <1>3 DEF Landing, BecomeDue, LandPrice, LandBatch, LandRedeem, chain
<1>4. CASE \E p \in Positions : RowStep(p) \/ Deliver(p)
  BY <1>4 DEF RowStep, Reconcile, MarkSettled, MarkOtm, Deliver, chain
<1> QED BY <1>1, <1>2, <1>3, <1>4, StepKinds

\* Only Deliver sends; a landing redeem is one that was sent.
LEMMA SentByDeliver ==
    ASSUME TypeInv, SettlerNext, \A p \in Positions : ~Deliver(p)
    PROVE  Sent' = Sent /\ delivered \subseteq delivered'
<1>1. CASE Staging \/ RecordOutcome \/ Identify \/ SetPrices \/ SettleBatch \/ SettlerCrash
  BY <1>1 DEF Staging, StartCycle, EndReconcile, EndRecheck, EndPhase1, EndCycle,
     RecordOutcome, Identify, SetPrices, SettleBatch, SendBatch, SettlerCrash, chain, sent, Sent
<1>2. CASE Landing
  BY <1>2 DEF Landing, BecomeDue, LandPrice, LandBatch, LandRedeem, chain, sent, Sent
<1>3. CASE \E p \in Positions : RowStep(p)
  BY <1>3 DEF RowStep, Reconcile, MarkSettled, MarkOtm, chain, sent, Sent
<1> QED BY <1>1, <1>2, <1>3, StepKinds

LEMMA SentTypes ==
    ASSUME TypeInv
    PROVE  /\ Sent \subseteq Tx /\ IsFiniteSet(Sent)
           /\ \A p \in Positions : Cardinality(SentFor(p)) \in Nat
           /\ \A t \in Sent : /\ t[1] \in Positions /\ SeriesOf[t[1]] \in Series
                              /\ t[2] \in Nat
<1>1. Sent \subseteq Tx /\ IsFiniteSet(Sent)
  BY FS_Union, TypeInvParts DEF Sent, RestTypes, Finite
<1>2. ASSUME NEW p \in Positions PROVE Cardinality(SentFor(p)) \in Nat
  <2>1. IsFiniteSet(SentFor(p))
    BY <1>1, FS_Subset DEF SentFor
  <2> QED BY <2>1, FS_CardinalityType
<1> QED BY <1>1, <1>2, PositionsAssumption DEF Tx

\* The number of a fresh transaction is beyond those of the others.
LEMMA FreshIsNew ==
    ASSUME TypeInv, SentInv, NEW p \in Positions
    PROVE  Fresh(p) \in Tx /\ Fresh(p) \notin Sent /\ Fresh(p)[1] = p
<1>1. Fresh(p) = <<p, 1 + Cardinality(SentFor(p))>>
  BY DEF Fresh, SentFor, Sent
<1>2. Cardinality(SentFor(p)) \in Nat
  BY SentTypes
<1>3. ~(1 + Cardinality(SentFor(p)) <= Cardinality(SentFor(p)))
  BY <1>2
<1> QED BY <1>1, <1>3, FreshType DEF SentInv

LEMMA DeliverSends ==
    ASSUME SettlerInv, NEW p \in Positions, Deliver(p)
    PROVE  SentInv'
<1>0. PICK t : t = Fresh(p)
  OBVIOUS
<1>1. p \in vaultSettled /\ price[SeriesOf[p]] = "in" /\ UNCHANGED <<price, vaultSettled>>
  BY DEF SettlerInv, ChainInv, Trusted, OracleInv, ClassesPriced, Deliver
<1>2. Sent' = Sent \/ Sent' = Sent \union {t}
  BY <1>0 DEF Deliver, Sent
<1>3. CASE Sent' = Sent
  BY <1>1, <1>3 DEF SettlerInv, SentInv, SentFor
<1>4. CASE Sent' = Sent \union {t}
  <2>1. t \in Tx /\ t \notin Sent /\ t[1] = p /\ t[2] = 1 + Cardinality(SentFor(p))
    <3>1. t = <<p, 1 + Cardinality(SentFor(p))>>
      BY <1>0 DEF Fresh, SentFor, Sent
    <3>2. t \in Tx /\ t \notin Sent /\ t[1] = p
      BY <1>0, FreshIsNew DEF SettlerInv
    <3> QED BY <3>1, <3>2
  <2>2. SentFor(p)' = SentFor(p) \union {t} /\ t \notin SentFor(p) /\ IsFiniteSet(SentFor(p))
    <3>1. IsFiniteSet(SentFor(p))
      BY SentTypes, FS_Subset DEF SentFor, SettlerInv
    <3> QED BY <1>4, <2>1, <3>1 DEF SentFor
  <2>3. Cardinality(SentFor(p)') = Cardinality(SentFor(p)) + 1
    BY <2>2, FS_AddElement
  <2>4. \A q \in Positions : q # p => SentFor(q)' = SentFor(q)
    BY <1>4, <2>1 DEF SentFor
  <2>5. ASSUME NEW u \in Sent PROVE u[2] <= Cardinality(SentFor(u[1])')
    <3>1. u[1] \in Positions /\ u[2] \in Nat /\ u[2] <= Cardinality(SentFor(u[1]))
      BY SentTypes DEF SettlerInv, SentInv
    <3>2. CASE u[1] = p
      <4>1. Cardinality(SentFor(p)) \in Nat
        BY SentTypes DEF SettlerInv
      <4> QED BY <2>3, <3>1, <3>2, <4>1
    <3> QED BY <2>4, <3>1, <3>2
  <2>6. t[2] <= Cardinality(SentFor(t[1])')
    <3>1. Cardinality(SentFor(p)) \in Nat
      BY SentTypes DEF SettlerInv
    <3> QED BY <2>1, <2>3, <3>1
  <2> QED BY <1>1, <1>4, <2>1, <2>5, <2>6 DEF SettlerInv, SentInv
<1> QED BY <1>2, <1>3, <1>4

LEMMA TaskSent == ASSUME SettlerInv, SettlerNext PROVE SentInv'
<1>1. CASE \A p \in Positions : ~Deliver(p)
  <2>1. Sent' = Sent /\ vaultSettled \subseteq vaultSettled' /\ Finalized
    BY <1>1, SentByDeliver, VaultsStaySettled, EveryStepFinalized DEF SettlerInv
  <2>2. \A t \in Sent : price'[SeriesOf[t[1]]] = "in"
    BY <2>1, SentTypes DEF SettlerInv, SentInv, Finalized
  <2> QED BY <2>1, <2>2 DEF SettlerInv, SentInv, SentFor
<1> QED BY <1>1, DeliverSends

\* The other tasks change neither chain; an event marks a row in the money.
LEMMA AttributeJoint ==
    ASSUME JointInv, NEW t \in delivered, AttributeDelivery(t)
    PROVE  JointInv'
<1>1. UNCHANGED <<due, pc, local, chain, restarts, seen, intent, rotation>>
  BY DEF AttributeDelivery
<1>2. PICK p \in due :
          /\ p \in Positions /\ SeriesOf[p] = SeriesOf[t[1]] /\ row[p].delivery = None
          /\ [row[p] EXCEPT !.type = "physical", !.itm = "yes", !.delivery = t] \in Row
          /\ Update(p, [row[p] EXCEPT !.type = "physical", !.itm = "yes", !.delivery = t])
  BY AttributeFacts DEF JointInv, SettlerInv
<1> DEFINE new == [row[p] EXCEPT !.type = "physical", !.itm = "yes", !.delivery = t]
<1>3. new.settled = row[p].settled /\ new.itm = "yes"
  BY <1>2, TypeInvParts DEF JointInv, SettlerInv, RestTypes, Row
<1>4. price[SeriesOf[p]] = "in"
  BY <1>2 DEF JointInv, SettlerInv, SentInv, Sent
<1>5. ChainInv'
  <2>1. \A q \in Positions : row'[q].settled => row[q].settled
    BY <1>2, <1>3, UpdateSettled DEF JointInv, SettlerInv
  <2> QED BY <1>1, <2>1, ChainKept DEF JointInv, SettlerInv, local, chain, Trusted
<1>6. OracleInv'
  <2>1. \A q \in Positions : row'[q].itm = row[q].itm \/ (q = p /\ row'[q].itm = "yes")
    BY <1>2, <1>3, UpdateItm DEF JointInv, SettlerInv
  <2>2. ClassifiedTruthfully'
    BY <1>1, <1>4, <2>1 DEF JointInv, SettlerInv, OracleInv, ClassifiedTruthfully, chain
  <2> QED BY <1>1, <2>2 DEF JointInv, SettlerInv, OracleInv, ClassesPriced, OutcomeOfItm, local,
        chain
<1>7. SentInv'
  BY <1>1 DEF JointInv, SettlerInv, SentInv, SentFor, Sent, chain, sent
<1> QED BY <1>5, <1>6, <1>7, AttributeTypes DEF JointInv, SettlerInv

LEMMA ReconcileIntentJoint ==
    ASSUME JointInv, NEW p \in Positions, ReconcileIntent(p)
    PROVE  JointInv'
<1>1. TypeInv' /\ OthersTypeOK' /\ UNCHANGED <<due, row, pc, local, chain, restarts, seen>>
  BY ReconcileIntentTypes DEF JointInv, SettlerInv
<1> QED BY <1>1 DEF JointInv, SettlerInv, ChainInv, SettledOnChain, Trusted, OracleInv,
        ClassifiedTruthfully, ClassesPriced, OutcomeOfItm, SentInv, SentFor, Sent, local, chain, sent

LEMMA StutterJoint ==
    ASSUME JointInv, UNCHANGED settlerVars, OthersTypeOK'
    PROVE  JointInv'
<1>1. TypeInv' /\ ChainInv' /\ OracleInv'
  BY NextTypes, NextChain, NextOracle DEF JointInv, SettlerInv
<1>2. SentInv'
  BY DEF JointInv, SettlerInv, SentInv, SentFor, Sent, settlerVars, chain, sent
<1> QED BY <1>1, <1>2 DEF JointInv, SettlerInv

LEMMA InitJoint == Init => JointInv
<1>1. Init => SentInv
  BY DEF Init, SettlerInit, SentInv, Sent
<1> QED BY <1>1, InitJointTypes, InitChain, InitOracle DEF Init, JointInv, SettlerInv

LEMMA NextJoint == JointInv /\ [Next]_settlementVars => JointInv'
<1>1. ASSUME JointInv, Task PROVE JointInv'
  BY <1>1, NextTypes, NextChain, NextOracle, TaskSent DEF Task, JointInv, SettlerInv, OthersTypeOK
<1>2. ASSUME JointInv, UNCHANGED settlementVars PROVE JointInv'
  BY <1>2, StutterJoint DEF settlementVars, JointInv, SettlerInv, OthersTypeOK
<1>3. ASSUME JointInv, NEW t \in delivered, Confirm(t) PROVE JointInv'
  BY <1>3, StutterJoint, ConfirmTypes DEF JointInv, SettlerInv
<1> QED BY <1>1, <1>2, <1>3, AttributeJoint, ReconcileIntentJoint DEF Next, Others, Task

-----------------------------------------------------------------------------
(* Deliveries, verdicts and intents.  The cycle works on due positions; a  *)
(* delivery about to be recorded is in no row, and the indexer waits.      *)

DueInv == check \union unsettled \union todo \union batch \union ready \union itm \subseteq due

DeliveryInv ==
    /\ DeliveriesAttributedOnce
    /\ \A p \in Positions : row[p].delivery # None => p \in due
    /\ pc = "record" => /\ tx \in delivered /\ SeriesOf[tx[1]] = SeriesOf[cur]
                        /\ \A q \in Positions : row[q].delivery # tx

\* The verdicts an intent is given are those of positions in the money.
VerdictInv ==
    /\ VerdictsAgree
    /\ \A p \in Positions :
          row[p].type \in {"physical", "physical_failed"} => price[SeriesOf[p]] = "in"

RowsInv == DueInv /\ DeliveryInv /\ VerdictInv /\ CapitalIsConserved

LEMMA InitRows == Init => RowsInv
BY DEF Init, SettlerInit, RowsInv, DueInv, DeliveryInv, DeliveriesAttributedOnce, VerdictInv,
       VerdictsAgree, CapitalIsConserved

LEMMA TaskDue == ASSUME TypeInv, DueInv, SettlerNext PROVE DueInv' /\ due \subseteq due'
<1>1. CASE Staging
  BY <1>1 DEF Staging, StartCycle, EndReconcile, EndRecheck, EndPhase1, EndCycle,
     ExpiredUnsettled, PendingPhase2, local, DueInv
<1>2. CASE RecordOutcome \/ SettlerCrash
  BY <1>2 DEF RecordOutcome, SettlerCrash, DueInv
<1>3. CASE Identify
  BY <1>3 DEF Identify, Classify, InSeries, DueInv
<1>4. CASE SetPrices \/ SettleBatch
  BY <1>4 DEF SetPrices, SettleBatch, SendBatch, local, DueInv
<1>5. CASE Landing
  BY <1>5 DEF Landing, BecomeDue, LandPrice, LandBatch, LandRedeem, local, DueInv
<1>6. CASE \E p \in Positions : RowStep(p) \/ Deliver(p)
  BY <1>6 DEF RowStep, Reconcile, ReconcileOne, MarkSettled, MarkOtm, Deliver, DueInv
<1> QED BY <1>1, <1>2, <1>3, <1>4, <1>5, <1>6, StepKinds

LEMMA UpdateRow ==
    ASSUME TypeInv, NEW p \in Positions, NEW r \in Row, Update(p, r), NEW q \in Positions
    PROVE  row'[q] = row[q] \/ (q = p /\ row'[q] = r)
BY DEF Update, TypeInv, TypeOK

\* What a step of the settler makes of a row: it keeps the delivery and, but for
\* a position in the money, the type or makes it "cash"; or it records tx.
KeepsDelivery(q) ==
    /\ row'[q].delivery = row[q].delivery
    /\ row'[q].type \in {row[q].type, "cash"} \/ q \in itm

Records(q) == pc = "record" /\ pc' # "record" /\ q = cur /\ q \in itm /\ row'[q].delivery = tx

LEMMA TaskRows ==
    ASSUME SettlerInv, SettlerNext, NEW q \in Positions
    PROVE  KeepsDelivery(q) \/ Records(q)
<1>1. CASE \/ Staging \/ Identify \/ SetPrices \/ SettleBatch \/ SettlerCrash \/ Landing
           \/ \E p \in Positions : Deliver(p)
  BY <1>1 DEF Staging, StartCycle, EndReconcile, EndRecheck, EndPhase1, EndCycle, Identify,
     SetPrices, SettleBatch, SettlerCrash, Landing, BecomeDue, LandPrice, LandBatch,
     LandRedeem, Deliver, local, KeepsDelivery
<1>2. ASSUME NEW p \in Positions, RowStep(p) PROVE KeepsDelivery(q)
  <2> DEFINE a == [row[p] EXCEPT !.settled = TRUE]
             b == [row[p] EXCEPT !.settled = TRUE, !.type = "cash"]
             c == [row[p] EXCEPT !.itm = "no"]
  <2>1. a \in Row /\ b \in Row /\ c \in Row
    BY RowTypes DEF SettlerInv, TypeInv
  <2>2. /\ a.delivery = row[p].delivery /\ a.type = row[p].type
        /\ b.delivery = row[p].delivery /\ b.type = "cash"
        /\ c.delivery = row[p].delivery /\ c.type = row[p].type
    BY TypeInvParts DEF SettlerInv, RestTypes, Row
  <2>3. UNCHANGED row \/ Update(p, a) \/ Update(p, b) \/ Update(p, c)
    BY <1>2 DEF RowStep, Reconcile, ReconcileOne, MarkSettled, MarkOtm
  <2> QED BY <2>1, <2>2, <2>3, UpdateRow DEF KeepsDelivery, SettlerInv
<1>3. CASE RecordOutcome
  <2> DEFINE a == [row[cur] EXCEPT !.type = "physical", !.itm = "yes", !.delivery = tx]
             b == [row[cur] EXCEPT !.type = "physical_failed", !.itm = "yes"]
  <2>1. cur \in Positions /\ cur \in itm
    BY <1>3 DEF SettlerInv, TypeInv, Recording, RecordOutcome, OracleInv, OutcomeOfItm
  <2>2. a \in Row /\ b \in Row
    BY <2>1, RowTypes DEF SettlerInv, TypeInv
  <2>3. a.delivery = tx /\ b.delivery = row[cur].delivery
    BY <2>1, TypeInvParts DEF SettlerInv, RestTypes, Row
  <2>4. (pc = "record" /\ Update(cur, a)) \/ Update(cur, b)
    BY <1>3 DEF RecordOutcome
  <2>5. pc' # "record"
    BY <1>3 DEF RecordOutcome
  <2>6. row'[q] = row[q] \/ (q = cur /\ pc = "record" /\ row'[q] = a) \/ (q = cur /\ row'[q] = b)
    BY <2>1, <2>2, <2>4, UpdateRow DEF SettlerInv
  <2> QED BY <2>1, <2>3, <2>5, <2>6 DEF KeepsDelivery, Records
<1> QED BY <1>1, <1>2, <1>3, StepKinds DEF SettlerInv

\* A delivery to record is the one just confirmed, which no row shows.
LEMMA TaskRecord ==
    ASSUME JointInv, DeliveryInv, SettlerNext, pc' = "record"
    PROVE  /\ tx' \in delivered' /\ SeriesOf[tx'[1]] = SeriesOf[cur']
           /\ \A q \in Positions : row'[q].delivery # tx'
<1>1. CASE \E p \in Positions : Deliver(p)
  <2>1. PICK p \in Positions : Deliver(p)
    BY <1>1
  <2>2. cur' = p /\ tx' = Fresh(p) /\ Fresh(p) \in delivered' /\ UNCHANGED row
    BY <2>1 DEF Deliver
  <2>3. Fresh(p) \in Tx /\ Fresh(p) \notin delivered /\ Fresh(p)[1] = p
    BY FreshIsNew DEF JointInv, SettlerInv, Sent
  <2>4. Fresh(p) # None
    BY <2>3, PositionsAssumption DEF Tx
  <2>5. \A q \in Positions : row[q].delivery # Fresh(p)
    BY <2>3, <2>4 DEF DeliveryInv, DeliveriesAttributedOnce
  <2> QED BY <2>2, <2>3, <2>5
<1>2. CASE Landing
  <2>1. UNCHANGED <<row, pc, cur, tx>> /\ delivered \subseteq delivered'
    BY <1>2 DEF Landing, BecomeDue, LandPrice, LandBatch, LandRedeem, local, chain
  <2> QED BY <2>1 DEF DeliveryInv
<1>3. CASE Staging \/ Identify \/ SetPrices \/ SettlerCrash \/ RecordOutcome \/ SettleBatch
  BY <1>3 DEF Staging, StartCycle, EndReconcile, EndRecheck, EndPhase1, EndCycle, Identify,
     SetPrices, SettleBatch, SendBatch, SettlerCrash, RecordOutcome
<1>4. CASE \E p \in Positions : RowStep(p)
  BY <1>4 DEF RowStep, Reconcile, MarkSettled, MarkOtm
<1> QED BY <1>1, <1>2, <1>3, <1>4, StepKinds DEF JointInv, SettlerInv

LEMMA DeliveredGrows == ASSUME SettlerInv, SettlerNext PROVE delivered \subseteq delivered'
<1>1. CASE \A p \in Positions : ~Deliver(p)
  BY <1>1, SentByDeliver DEF SettlerInv
<1>2. CASE \E p \in Positions : Deliver(p)
  BY <1>2 DEF Deliver
<1> QED BY <1>1, <1>2

LEMMA TaskDelivery ==
    ASSUME JointInv, DueInv, DeliveryInv, SettlerNext
    PROVE  DeliveryInv'
<1>1. \A q \in Positions : KeepsDelivery(q) \/ Records(q)
  BY TaskRows DEF JointInv
<1>2. due \subseteq due' /\ delivered \subseteq delivered' /\ vaultSettled \subseteq vaultSettled'
  BY TaskDue, DeliveredGrows, VaultsStaySettled DEF JointInv, SettlerInv
<1>3. pc = "record" => tx[1] \in vaultSettled
  BY DEF DeliveryInv, JointInv, SettlerInv, SentInv, Sent
<1>4. \A p \in Positions : row'[p].delivery # None =>
          /\ row'[p].delivery \in delivered' /\ p \in due'
          /\ SeriesOf[row'[p].delivery[1]] = SeriesOf[p]
          /\ row'[p].delivery[1] \in vaultSettled'
  BY <1>1, <1>2, <1>3 DEF KeepsDelivery, Records, DueInv, DeliveryInv, DeliveriesAttributedOnce
<1>5. \A p, q \in Positions :
          row'[p].delivery # None /\ row'[p].delivery = row'[q].delivery => p = q
  BY <1>1 DEF KeepsDelivery, Records, DeliveryInv, DeliveriesAttributedOnce
<1> QED BY <1>4, <1>5, TaskRecord DEF DeliveryInv, DeliveriesAttributedOnce

LEMMA TaskVerdict ==
    ASSUME JointInv, DeliveryInv, VerdictInv, JointInv', Task
    PROVE  VerdictInv'
<1>1. \A p \in Positions : SeriesOf[p] \in Series
  BY PositionsAssumption
<1>2. \A p \in Positions : price[SeriesOf[p]] = "in" => price'[SeriesOf[p]] = "in"
  BY <1>1, EveryStepFinalized DEF Task, JointInv, SettlerInv, Finalized
<1>3. \A p \in itm : price[SeriesOf[p]] = "in"
  BY DEF JointInv, SettlerInv, OracleInv, ClassesPriced
<1>4. \A p \in Positions :
          row'[p].type \in {"physical", "physical_failed"} => price'[SeriesOf[p]] = "in"
  BY <1>2, <1>3, TaskRows DEF JointInv, Task, KeepsDelivery, Records, VerdictInv
<1>5. VerdictsAgree'
  <2>1. \A p \in Positions : row'[p].itm # "null" => row'[p].itm \in {"yes", "no"}
    BY TypeInvPartsPrimed DEF JointInv, SettlerInv, RestTypes, Row
  <2>2. \A p \in Positions : row'[p].itm # "null" =>
            price'[SeriesOf[p]] = (IF row'[p].itm = "yes" THEN "in" ELSE "out")
    BY <2>1 DEF JointInv, SettlerInv, OracleInv, ClassifiedTruthfully
  <2> QED BY <1>2, <2>2 DEF Task, VerdictInv, VerdictsAgree
<1> QED BY <1>4, <1>5 DEF VerdictInv

LEMMA TaskCapital ==
    ASSUME JointInv, CapitalIsConserved, Task PROVE CapitalIsConserved'
BY VaultsStaySettled DEF JointInv, SettlerInv, Task, CapitalIsConserved

LEMMA AttributeRows ==
    ASSUME JointInv, JointInv', RowsInv, NEW t \in delivered, AttributeDelivery(t)
    PROVE  RowsInv'
<1>1. /\ UNCHANGED <<due, pc, local, chain, restarts, seen, intent, rotation>>
      /\ pc # "record" /\ ~Attributed(t)
  BY DEF AttributeDelivery, LoopIsFree, Awaiting
<1>2. PICK p \in due :
          /\ p \in Positions /\ SeriesOf[p] = SeriesOf[t[1]] /\ row[p].delivery = None
          /\ [row[p] EXCEPT !.type = "physical", !.itm = "yes", !.delivery = t] \in Row
          /\ Update(p, [row[p] EXCEPT !.type = "physical", !.itm = "yes", !.delivery = t])
  BY AttributeFacts DEF JointInv, SettlerInv
<1> DEFINE new == [row[p] EXCEPT !.type = "physical", !.itm = "yes", !.delivery = t]
<1>3. new.delivery = t
  BY <1>2, TypeInvParts DEF JointInv, SettlerInv, RestTypes, Row
<1>4. \A q \in Positions : row'[q] = row[q] \/ (q = p /\ row'[q] = new)
  BY <1>2, UpdateRow DEF JointInv, SettlerInv
<1>5. t[1] \in vaultSettled /\ price[SeriesOf[p]] = "in"
  BY <1>2 DEF JointInv, SettlerInv, SentInv, Sent
<1>6. \A q \in Positions : row[q].delivery # t
  <2> SUFFICES ASSUME NEW q \in Positions, row[q].delivery = t PROVE FALSE
    OBVIOUS
  <2>1. t # None
    BY TypeInvParts, PositionsAssumption DEF JointInv, SettlerInv, RestTypes, Tx
  <2>2. q \in due /\ SeriesOf[t[1]] = SeriesOf[q]
    BY <2>1 DEF RowsInv, DeliveryInv, DeliveriesAttributedOnce
  <2> QED BY <1>1, <2>2 DEF Attributed, RowsOf
<1>7. DueInv'
  BY <1>1 DEF RowsInv, DueInv, local
<1>8. DeliveryInv'
  <2>1. \A q \in Positions : row'[q].delivery = row[q].delivery \/ (q = p /\ row'[q].delivery = t)
    BY <1>3, <1>4
  <2>2. \A q \in Positions : row'[q].delivery # None =>
            /\ row'[q].delivery \in delivered /\ q \in due
            /\ SeriesOf[row'[q].delivery[1]] = SeriesOf[q]
            /\ row'[q].delivery[1] \in vaultSettled
    BY <1>2, <1>5, <2>1 DEF RowsInv, DeliveryInv, DeliveriesAttributedOnce
  <2>3. \A q, r \in Positions :
            row'[q].delivery # None /\ row'[q].delivery = row'[r].delivery => q = r
    BY <1>6, <2>1 DEF RowsInv, DeliveryInv, DeliveriesAttributedOnce
  <2> QED BY <1>1, <2>2, <2>3 DEF DeliveryInv, DeliveriesAttributedOnce, chain
<1>9. VerdictInv'
  <2>1. UNCHANGED <<price, intent>>
    BY <1>1 DEF chain
  <2>2. \A q \in Positions :
            row'[q].type \in {"physical", "physical_failed"} => price[SeriesOf[q]] = "in"
    BY <1>4, <1>5 DEF RowsInv, VerdictInv
  <2>3. \A q \in Positions : row'[q].itm \in {"null", "yes", "no"}
    BY TypeInvPartsPrimed DEF JointInv, SettlerInv, RestTypes, Row
  <2>4. VerdictsAgree'
    BY <2>1, <2>3 DEF JointInv, SettlerInv, OracleInv, ClassifiedTruthfully, RowsInv,
       VerdictInv, VerdictsAgree
  <2> QED BY <2>1, <2>2, <2>4 DEF VerdictInv
<1>10. CapitalIsConserved'
  BY <1>1 DEF RowsInv, CapitalIsConserved, chain
<1> QED BY <1>7, <1>8, <1>9, <1>10 DEF RowsInv

LEMMA ReconcileIntentRows ==
    ASSUME JointInv, RowsInv, NEW p \in Positions, ReconcileIntent(p)
    PROVE  RowsInv'
<1>1. UNCHANGED <<due, row, pc, local, chain, restarts, seen>> /\ row[p].settled
  BY DEF ReconcileIntent
<1>2. p \in vaultSettled
  BY <1>1 DEF JointInv, SettlerInv, ChainInv, SettledOnChain
<1>3. DueInv' /\ DeliveryInv'
  BY <1>1 DEF RowsInv, DueInv, DeliveryInv, DeliveriesAttributedOnce, local, chain
<1>4. intent \in [Positions -> IntentStates]
  BY DEF JointInv, SettlerInv, OthersTypeOK
<1>5. CASE ReconcileVerdict(p)
  <2>1. /\ \A q \in Positions : intent'[q] = intent[q] \/ (q = p /\ intent'[q] # "completed")
        /\ UNCHANGED rotation /\ price[SeriesOf[p]] = "in"
    <3>1. price[SeriesOf[p]] = "in"
      BY <1>5 DEF ReconcileVerdict, IsAssigned, RowsInv, VerdictInv, VerdictsAgree
    <3> QED BY <1>4, <1>5, <3>1 DEF ReconcileVerdict, SetIntent
  <2>2. VerdictInv' /\ CapitalIsConserved'
    BY <1>1, <2>1 DEF RowsInv, VerdictInv, VerdictsAgree, CapitalIsConserved, chain
  <2> QED BY <1>3, <2>2 DEF RowsInv
<1>6. CASE Rotate(p)
  <2>1. /\ \A q \in Positions :
              intent'[q] = intent[q] \/ (q = p /\ intent'[q] = "completed" /\ p \in rotation')
        /\ rotation \subseteq rotation' /\ rotation' \subseteq rotation \union {p}
    BY <1>4, <1>6 DEF Rotate, SetIntent
  <2>2. VerdictInv' /\ CapitalIsConserved'
    BY <1>1, <1>2, <2>1 DEF RowsInv, VerdictInv, VerdictsAgree, CapitalIsConserved, chain
  <2> QED BY <1>3, <2>2 DEF RowsInv
<1> QED BY <1>5, <1>6 DEF ReconcileIntent

LEMMA NextRows == JointInv /\ JointInv' /\ RowsInv /\ [Next]_settlementVars => RowsInv'
<1>1. ASSUME JointInv, JointInv', RowsInv, Task PROVE RowsInv'
  BY <1>1, TaskDue, TaskDelivery, TaskVerdict, TaskCapital DEF Task, RowsInv, JointInv, SettlerInv
<1>2. ASSUME RowsInv, UNCHANGED <<settlerVars, intent, rotation>> PROVE RowsInv'
  BY <1>2 DEF settlerVars, local, chain, RowsInv, DueInv, DeliveryInv, DeliveriesAttributedOnce,
              VerdictInv, VerdictsAgree, CapitalIsConserved
<1>3. ASSUME JointInv, RowsInv, NEW t \in delivered, Confirm(t) PROVE RowsInv'
  BY <1>2, <1>3 DEF Confirm
<1> QED BY <1>1, <1>2, <1>3, AttributeRows, ReconcileIntentRows
        DEF Next, Others, Task, settlementVars

LEMMA RowsInvariant == Spec => []RowsInv
BY InitJoint, NextJoint, InitRows, NextRows, PTL DEF Spec

\* Two rows never show the same delivery, although the events carry no vault id
\* and the settler records deliveries itself; each was made for the row's oToken
\* and a settled vault.
THEOREM DeliveriesAreAttributedOnce == Spec => []DeliveriesAttributedOnce
<1>1. RowsInv => DeliveriesAttributedOnce
  BY DEF RowsInv, DeliveryInv
<1> QED BY <1>1, RowsInvariant, PTL

\* Capital is rotated before its intent is completed, and only when the vault
\* has released it.
THEOREM CapitalStays == Spec => []CapitalIsConserved
<1>1. RowsInv => CapitalIsConserved
  BY DEF RowsInv
<1> QED BY <1>1, RowsInvariant, PTL

\* Settler, indexer and rotation endpoint never contradict the oracle between
\* them: neither in a row nor in an intent.
THEOREM VerdictsAreTheOracles == Spec => []VerdictsAgree
<1>1. RowsInv => VerdictsAgree
  BY DEF RowsInv, VerdictInv
<1> QED BY <1>1, RowsInvariant, PTL
-----------------------------------------------------------------------------
(* The settler by itself keeps the promise of a settler.  Every step that   *)
(* writes a row leaves the chain alone, and writes one row only: its        *)
(* promise is then the invariant after the step, and that the row takes     *)
(* nothing back.                                                            *)

\* A row shows a delivery of its own position.
OwnInv ==
    /\ pc = "record" => tx \in delivered /\ tx[1] = cur
    /\ \A p \in Positions :
          row[p].delivery # None => row[p].delivery \in delivered /\ row[p].delivery[1] = p

LEMMA InitSettler == SettlerInit => SettlerInv /\ OwnInv
BY InitTypes, InitChain, InitOracle DEF SettlerInit, SettlerInv, SentInv, Sent, OwnInv

LEMMA NextSettler == SettlerInv /\ [SettlerNext]_settlerVars => SettlerInv'
<1>1. ASSUME SettlerInv, UNCHANGED settlerVars PROVE SentInv'
  BY <1>1 DEF SettlerInv, SentInv, SentFor, Sent, settlerVars, chain, sent
<1> QED BY <1>1, NextTypes, NextChain, NextOracle, TaskSent DEF SettlerInv

\* A delivery to record is the one just confirmed for the position at hand.
LEMMA TaskOwnRecord ==
    ASSUME SettlerInv, OwnInv, SettlerNext, pc' = "record"
    PROVE  tx' \in delivered' /\ tx'[1] = cur'
<1>1. CASE \E p \in Positions : Deliver(p)
  <2>1. PICK p \in Positions : Deliver(p)
    BY <1>1
  <2>2. cur' = p /\ tx' = Fresh(p) /\ Fresh(p) \in delivered'
    BY <2>1 DEF Deliver
  <2> QED BY <2>2, FreshIsNew DEF SettlerInv
<1>2. CASE Landing
  <2>1. UNCHANGED <<pc, cur, tx>> /\ delivered \subseteq delivered'
    BY <1>2 DEF Landing, BecomeDue, LandPrice, LandBatch, LandRedeem, local, chain
  <2> QED BY <2>1 DEF OwnInv
<1>3. CASE Staging \/ Identify \/ SetPrices \/ SettlerCrash \/ RecordOutcome \/ SettleBatch
  BY <1>3 DEF Staging, StartCycle, EndReconcile, EndRecheck, EndPhase1, EndCycle, Identify,
     SetPrices, SettleBatch, SendBatch, SettlerCrash, RecordOutcome
<1>4. CASE \E p \in Positions : RowStep(p)
  BY <1>4 DEF RowStep, Reconcile, MarkSettled, MarkOtm
<1> QED BY <1>1, <1>2, <1>3, <1>4, StepKinds

LEMMA NextOwn == SettlerInv /\ OwnInv /\ [SettlerNext]_settlerVars => OwnInv'
<1>1. ASSUME SettlerInv, OwnInv, SettlerNext PROVE OwnInv'
  <2>1. \A q \in Positions : KeepsDelivery(q) \/ Records(q)
    BY <1>1, TaskRows
  <2>2. \A q \in Positions : row'[q].delivery # None =>
            row'[q].delivery \in delivered' /\ row'[q].delivery[1] = q
    BY <1>1, <2>1, DeliveredGrows DEF KeepsDelivery, Records, OwnInv
  <2> QED BY <1>1, <2>2, TaskOwnRecord DEF OwnInv
<1>2. ASSUME OwnInv, UNCHANGED settlerVars PROVE OwnInv'
  BY <1>2 DEF OwnInv, settlerVars, local, chain
<1> QED BY <1>1, <1>2

LEMMA InitPromise == SettlerInit => Promise!Init
<1> SUFFICES ASSUME SettlerInit PROVE Promise!Init
  OBVIOUS
<1>1. Outcome = [p \in Positions |-> None]
  BY PositionsAssumption DEF SettlerInit, Outcome
<1>2. RowsSay = [p \in Positions |-> [settled |-> FALSE, itm |-> None, delivered |-> FALSE]]
  BY DEF SettlerInit, RowsSay
<1>3. vaultSettled = {} /\ {t[1] : t \in delivered} = {}
  BY DEF SettlerInit
<1> QED BY <1>1, <1>2, <1>3 DEF Promise!Init

\* What is decided stays decided, whatever else happens.
LEMMA DecidesOnly ==
    ASSUME SettlerInv, SettlerNext, UNCHANGED <<row, vaultSettled, delivered>>
    PROVE  Promise!Decide
<1>1. \A p \in Positions : SeriesOf[p] \in Series
  BY PositionsAssumption
<1>2. \A p \in Positions : Outcome[p] # None => Outcome'[p] = Outcome[p]
  BY <1>1, EveryStepFinalized DEF Outcome, Finalized, SettlerInv
<1>3. Outcome' \in [Positions -> BOOLEAN \union {None}]
  BY DEF Outcome
<1> QED BY <1>2, <1>3 DEF Promise!Decide, RowsSay

LEMMA SettlesOnly ==
    ASSUME NEW ps \in SUBSET Positions, vaultSettled' = vaultSettled \union ps,
           UNCHANGED <<row, price, delivered>>
    PROVE  Promise!Next
<1>1. Promise!Settle(ps)
  BY DEF Promise!Settle, Outcome, RowsSay
<1> QED BY <1>1 DEF Promise!Next

\* A delivery of a transaction that was sent, or is sent now.
LEMMA DeliversOnly ==
    ASSUME NEW t \in Tx, delivered' = delivered \union {t},
           t[1] \in vaultSettled, price[SeriesOf[t[1]]] = "in",
           UNCHANGED <<row, price, vaultSettled>>
    PROVE  Promise!Next
<1>1. t[1] \in Positions
  BY DEF Tx
<1>2. Outcome[t[1]] = TRUE
  BY <1>1 DEF Outcome
<1>3. {u[1] : u \in delivered'} = {u[1] : u \in delivered} \union {t[1]}
  OBVIOUS
<1>4. Promise!Deliver(t[1])
  BY <1>2, <1>3 DEF Promise!Deliver, Outcome, RowsSay
<1> QED BY <1>1, <1>4 DEF Promise!Next

\* The steps that may settle or deliver.
LEMMA ChainKeepsPromise ==
    ASSUME SettlerInv, SettlerNext, UNCHANGED row
    PROVE  Promise!Next
<1>1. CASE UNCHANGED <<vaultSettled, delivered>>
  BY <1>1, DecidesOnly DEF Promise!Next
<1>2. CASE SettleBatch
  <2>1. PICK ps \in SUBSET todo : SendBatch(ps)
    BY <1>2 DEF SettleBatch
  <2>2. ps \in SUBSET Positions /\ UNCHANGED <<price, delivered>>
    BY <1>2, TypeInvParts DEF SettleBatch, SettlerInv, SetTypes
  <2>3. vaultSettled' = vaultSettled \union ps \/ UNCHANGED vaultSettled
    BY <2>1 DEF SendBatch
  <2> QED BY <1>1, <2>2, <2>3, SettlesOnly
<1>3. CASE \E ps \in sentBatches : LandBatch(ps)
  <2>1. PICK ps \in sentBatches : LandBatch(ps)
    BY <1>3
  <2>2. ps \in SUBSET Positions /\ UNCHANGED <<price, delivered>>
    BY <2>1, TypeInvParts DEF LandBatch, SettlerInv, RestTypes
  <2>3. vaultSettled' = vaultSettled \union ps \/ UNCHANGED vaultSettled
    BY <2>1 DEF LandBatch
  <2> QED BY <1>1, <2>2, <2>3, SettlesOnly
<1>4. CASE \E p \in Positions : Deliver(p)
  <2>1. PICK p \in Positions : Deliver(p)
    BY <1>4
  <2>2. p \in vaultSettled /\ price[SeriesOf[p]] = "in"
    BY <2>1 DEF SettlerInv, ChainInv, Trusted, OracleInv, ClassesPriced, Deliver
  <2>3. UNCHANGED <<price, vaultSettled>>
    BY <2>1 DEF Deliver
  <2>4. delivered' = delivered \union {Fresh(p)} \/ UNCHANGED delivered
    BY <2>1 DEF Deliver
  <2>5. Fresh(p) \in Tx /\ Fresh(p)[1] = p
    BY FreshIsNew DEF SettlerInv
  <2> QED BY <1>1, <2>2, <2>3, <2>4, <2>5, DeliversOnly
<1>5. CASE \E t \in sentRedeems : LandRedeem(t)
  <2>1. PICK t \in sentRedeems : LandRedeem(t)
    BY <1>5
  <2>2. t \in Tx /\ t[1] \in vaultSettled /\ price[SeriesOf[t[1]]] = "in"
    BY TypeInvParts DEF SettlerInv, SentInv, Sent, RestTypes
  <2>3. delivered' = delivered \union {t} /\ UNCHANGED <<price, vaultSettled>>
    BY <2>1 DEF LandRedeem
  <2> QED BY <2>2, <2>3, DeliversOnly
<1>6. CASE \/ Staging \/ RecordOutcome \/ Identify \/ SetPrices \/ SettlerCrash
           \/ \E p \in Positions : RowStep(p)
           \/ \E p \in Positions : BecomeDue(p)
           \/ \E s \in Series : LandPrice(s)
  <2>1. UNCHANGED <<vaultSettled, delivered>>
    BY <1>6 DEF Staging, StartCycle, EndReconcile, EndRecheck, EndPhase1, EndCycle,
       RecordOutcome, Identify, SetPrices, SettlerCrash, RowStep, Reconcile, MarkSettled,
       MarkOtm, BecomeDue, LandPrice, chain
  <2> QED BY <1>1, <2>1
<1> QED BY <1>2, <1>3, <1>4, <1>5, <1>6, StepKinds DEF Landing

\* A row takes nothing back.
RowGrows(q) ==
    /\ row[q].settled => row'[q].settled
    /\ row[q].itm # "null" => row'[q].itm # "null"
    /\ row[q].delivery # None => row'[q].delivery # None

LEMMA UpdateGrows ==
    ASSUME TypeInv, NEW p \in Positions, NEW r \in Row, Update(p, r),
           row[p].settled => r.settled, row[p].itm # "null" => r.itm # "null",
           row[p].delivery # None => r.delivery # None
    PROVE  RowGrows(p) /\ \E s \in Row : row' = [row EXCEPT ![p] = s]
BY DEF Update, RowGrows, TypeInv, TypeOK

LEMMA RowStepGrows ==
    ASSUME SettlerInv, NEW p \in Positions, RowStep(p)
    PROVE  RowGrows(p) /\ \E s \in Row : row' = [row EXCEPT ![p] = s]
<1> DEFINE a == [row[p] EXCEPT !.settled = TRUE]
           b == [row[p] EXCEPT !.settled = TRUE, !.type = "cash"]
           c == [row[p] EXCEPT !.itm = "no"]
<1>1. a \in Row /\ b \in Row /\ c \in Row
  BY RowTypes DEF SettlerInv, TypeInv
<1>2. /\ a.settled /\ a.itm = row[p].itm /\ a.delivery = row[p].delivery
      /\ b.settled /\ b.itm = row[p].itm /\ b.delivery = row[p].delivery
      /\ c.settled = row[p].settled /\ c.itm = "no" /\ c.delivery = row[p].delivery
  BY TypeInvParts DEF SettlerInv, RestTypes, Row
<1>3. UNCHANGED row \/ Update(p, a) \/ Update(p, b) \/ Update(p, c)
  BY DEF RowStep, Reconcile, ReconcileOne, MarkSettled, MarkOtm
<1>4. CASE UNCHANGED row
  BY <1>4, TypeInvParts DEF RowGrows, SettlerInv, RestTypes
<1> HIDE DEF a, b, c
<1> QED BY <1>1, <1>2, <1>3, <1>4, UpdateGrows DEF SettlerInv

LEMMA RecordOutcomeGrows ==
    ASSUME SettlerInv, OwnInv, RecordOutcome
    PROVE  /\ cur \in Positions /\ RowGrows(cur)
           /\ \E s \in Row : row' = [row EXCEPT ![cur] = s]
<1> DEFINE a == [row[cur] EXCEPT !.type = "physical", !.itm = "yes", !.delivery = tx]
           b == [row[cur] EXCEPT !.type = "physical_failed", !.itm = "yes"]
<1>1. cur \in Positions
  BY DEF SettlerInv, TypeInv, Recording, RecordOutcome
<1>2. a \in Row /\ b \in Row
  BY <1>1, RowTypes DEF SettlerInv, TypeInv
<1>3. /\ a.settled = row[cur].settled /\ a.itm = "yes" /\ a.delivery = tx
      /\ b.settled = row[cur].settled /\ b.itm = "yes" /\ b.delivery = row[cur].delivery
  BY <1>1, TypeInvParts DEF SettlerInv, RestTypes, Row
<1>4. (pc = "record" /\ Update(cur, a)) \/ Update(cur, b)
  BY DEF RecordOutcome
<1>5. pc = "record" => tx # None
  BY TypeInvParts, PositionsAssumption DEF OwnInv, SettlerInv, RestTypes, Tx
<1> HIDE DEF a, b
<1> QED BY <1>1, <1>2, <1>3, <1>4, <1>5, UpdateGrows DEF SettlerInv

\* A row is written, its chain and the other rows left alone.
LEMMA RecordsOnly ==
    ASSUME SettlerInv, OwnInv, SettlerInv', OwnInv', NEW p \in Positions, RowGrows(p),
           NEW s \in Row, row' = [row EXCEPT ![p] = s],
           UNCHANGED <<price, vaultSettled, delivered>>
    PROVE  Promise!Next
<1> DEFINE say == [settled |-> s.settled,
                   itm |-> IF s.itm = "null" THEN None ELSE s.itm = "yes",
                   delivered |-> s.delivery # None]
<1>1. row \in [Positions -> Row] /\ row'[p] = s
  BY TypeInvParts DEF SettlerInv, RestTypes
<1>2. say \in Promise!Row
  BY DEF Promise!Row, Row
<1>3. RowsSay' = [RowsSay EXCEPT ![p] = say]
  BY <1>1 DEF RowsSay
<1>4. /\ s.itm \in {"null", "yes", "no"} /\ row[p].itm \in {"null", "yes", "no"}
      /\ s.itm = "yes" => price[SeriesOf[p]] = "in"
      /\ s.itm = "no" => price[SeriesOf[p]] = "out"
      /\ row[p].itm = "yes" => price[SeriesOf[p]] = "in"
      /\ row[p].itm = "no" => price[SeriesOf[p]] = "out"
  BY <1>1 DEF Row, SettlerInv, OracleInv, ClassifiedTruthfully
<1>5. Promise!Truthful(p, say)
  <2>1. say.settled => p \in vaultSettled
    BY <1>1 DEF SettlerInv, ChainInv, SettledOnChain
  <2>2. say.itm # None => say.itm = Outcome[p]
    BY <1>4 DEF Outcome
  <2>3. say.delivered => p \in {t[1] : t \in delivered}
    BY <1>1 DEF OwnInv
  <2> QED BY <2>1, <2>2, <2>3 DEF Promise!Truthful
<1>6. Promise!Keeps(p, say)
  <2>1. /\ RowsSay[p].settled = row[p].settled
        /\ RowsSay[p].itm = (IF row[p].itm = "null" THEN None ELSE row[p].itm = "yes")
        /\ RowsSay[p].delivered = (row[p].delivery # None)
    BY DEF RowsSay
  <2>2. RowsSay[p].itm # None => say.itm = RowsSay[p].itm
    BY <1>1, <1>4, <2>1 DEF RowGrows
  <2> QED BY <1>1, <2>1, <2>2 DEF RowGrows, Promise!Keeps
<1>7. UNCHANGED <<Outcome, vaultSettled, {t[1] : t \in delivered}>>
  BY DEF Outcome
<1> HIDE DEF say
<1>8. Promise!Record(p)
  BY <1>2, <1>3, <1>5, <1>6, <1>7 DEF Promise!Record
<1> QED BY <1>8 DEF Promise!Next

LEMMA NextPromise ==
    ASSUME SettlerInv, OwnInv, SettlerInv', OwnInv', [SettlerNext]_settlerVars
    PROVE  [Promise!Next]_Promise!vars
<1>1. CASE UNCHANGED settlerVars
  BY <1>1 DEF settlerVars, chain, Promise!vars, Outcome, RowsSay
<1>2. CASE SettlerNext /\ UNCHANGED row
  BY <1>2, ChainKeepsPromise
<1>3. ASSUME NEW p \in Positions, RowStep(p) PROVE Promise!Next
  <2>1. UNCHANGED <<price, vaultSettled, delivered>>
    BY <1>3 DEF RowStep, Reconcile, MarkSettled, MarkOtm, chain
  <2> QED BY <1>3, <2>1, RowStepGrows, RecordsOnly
<1>4. CASE RecordOutcome
  <2>1. UNCHANGED <<price, vaultSettled, delivered>>
    BY <1>4 DEF RecordOutcome, chain
  <2> QED BY <1>4, <2>1, RecordOutcomeGrows, RecordsOnly
<1>5. CASE SettlerNext /\ row' # row
  <2>1. RecordOutcome \/ \E p \in Positions : RowStep(p)
    BY <1>5, StepKinds DEF Staging, StartCycle, EndReconcile, EndRecheck, EndPhase1, EndCycle,
       Identify, SetPrices, SettleBatch, SettlerCrash, Landing, BecomeDue, LandPrice,
       LandBatch, LandRedeem, Deliver, local
  <2> QED BY <2>1, <1>3, <1>4
<1> QED BY <1>1, <1>2, <1>5

\* Each step of the settler, with its batches that revert or land late, its
\* retries and its crashes, is one the promise allows: rows are never ahead of
\* the chain, never contradict it and take nothing back, and a position is
\* delivered only once it is settled and in the money.
THEOREM KeepsSettlementPromise == SettlerSpec => SettlerKeepsPromise
<1>1. SettlerInv /\ OwnInv /\ SettlerInv' /\ OwnInv' /\ [SettlerNext]_settlerVars
        => [Promise!Next]_Promise!vars
  BY NextPromise
<1>2. SettlerInit => Promise!Init
  BY InitPromise
<1> QED BY <1>1, <1>2, InitSettler, NextSettler, NextOwn, PTL
    DEF SettlerSpec, SettlerKeepsPromise, Promise!Spec
=============================================================================
