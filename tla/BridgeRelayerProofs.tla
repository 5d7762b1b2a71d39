------------------------ MODULE BridgeRelayerProofs ------------------------
(***************************************************************************)
(* Theorems about the bridge relayer for every set of jobs and workers and *)
(* every bound.                                                            *)
(***************************************************************************)
EXTENDS BridgeRelayer, FiniteSetTheorems, SequenceTheorems, TLAPS

-----------------------------------------------------------------------------
(* Lemmas about the operators the actions are built from. *)

LEMMA NoJobIsNone == NoJob \notin Jobs
BY JobsAssumption

\* Recovery enqueues every incomplete job exactly once.
LEMMA RecoveredQueue ==
    ASSUME NEW S \in SUBSET Jobs, NEW q \in SetToSeqs(S)
    PROVE  /\ q \in Seq(Jobs)
           /\ \A n \in DOMAIN q : q[n] \in S
           /\ \A m, n \in DOMAIN q : q[m] = q[n] => m = n
<1> DEFINE D == 1..Cardinality(S)
<1>1. Cardinality(S) \in Nat
  BY FS_Subset, FS_CardinalityType, JobsAssumption
<1>2. q \in [D -> S] /\ \A i, j \in D : i # j => q[i] # q[j]
  BY DEF SetToSeqs
<1>3. QED
  BY <1>1, <1>2

-----------------------------------------------------------------------------
(* Type correctness.  Two facts make TypeOK inductive: a worker holds a job *)
(* exactly while it is not idle, and a handler under way has a job.         *)

Busy == \A w \in Workers : pc[w] = "idle" <=> held[w] = NoJob

HandlerHasJob == http.step # "idle" => http.job \in Jobs

TypeInv == TypeOK /\ Busy /\ HandlerHasJob

LEMMA InitTypes == Init => TypeInv
<1> SUFFICES ASSUME Init PROVE TypeInv
  OBVIOUS
<1>1. job \in [Jobs -> JobRow]
  BY DEF Init, NewRow, JobRow, JobStates
<1>2. intent \in [Jobs -> IntentRow]
  BY DEF Init, IntentRow
<1>3. queue \in Seq(Jobs)
  BY DEF Init
<1>4. /\ pc \in [Workers -> Steps]
      /\ held \in [Workers -> Jobs \union {NoJob}]
      /\ sawMint \in [Workers -> BOOLEAN]
      /\ tries \in [Workers -> 1..MaxTries]
  BY BoundsAssumption DEF Init, Steps
<1>5. http \in [step : HttpSteps, job : Jobs \union {NoJob}] /\ HandlerHasJob
  BY DEF Init, HttpIdle, HttpSteps, HandlerHasJob
<1>6. /\ burn \in [Jobs -> Landing]
      /\ mint \in [Jobs -> Landing]
      /\ exec \in [Jobs -> Landing]
  BY DEF Init, Landing
<1>7. up \in BOOLEAN /\ faults \in 0..MaxFaults /\ restarts \in 0..MaxRestarts
  BY BoundsAssumption DEF Init
<1>8. Busy
  BY DEF Init, Busy
<1> QED BY <1>1, <1>2, <1>3, <1>4, <1>5, <1>6, <1>7, <1>8 DEF TypeInv, TypeOK

LEMMA FaultTypes == TypeOK /\ (Fault \/ UNCHANGED faults) => faults' \in 0..MaxFaults
BY BoundsAssumption DEF TypeOK, Fault

\* Moving a worker on keeps the types, and it lets go of its job when idle.
LEMMA GotoTypes ==
    ASSUME TypeInv, NEW w \in Workers, NEW step \in Steps,
           held[w] \in Jobs, Goto(w, step)
    PROVE  /\ pc' \in [Workers -> Steps]
           /\ held' \in [Workers -> Jobs \union {NoJob}]
           /\ Busy'
BY JobsAssumption DEF Goto, TypeInv, TypeOK, Busy

LEMMA SyncIntentType ==
    ASSUME TypeOK, NEW j \in Jobs, NEW status
    PROVE  SyncIntent(j, status) \in [Jobs -> IntentRow]
<1>1. BridgeStatusToIntentStatus(status, j) \in IntentStates
  BY DEF BridgeStatusToIntentStatus, IntentStates
<1>2. QED
  BY <1>1 DEF SyncIntent, TypeOK, IntentRow

\* The steps that are one database update of the row a worker holds.
LEMMA UpdateTypes ==
    ASSUME TypeInv, NEW w \in Workers, held[w] \in Jobs,
           NEW row \in JobRow, NEW next \in Steps, NEW onError \in Steps,
           UpdateJob(w, row, next, onError)
    PROVE  /\ job' \in [Jobs -> JobRow]
           /\ intent' \in [Jobs -> IntentRow]
           /\ faults' \in 0..MaxFaults
           /\ pc' \in [Workers -> Steps]
           /\ held' \in [Workers -> Jobs \union {NoJob}]
           /\ Busy'
<1> USE DEF TypeInv
<1>1. /\ job' = [job EXCEPT ![held[w]] = row] \/ UNCHANGED job
      /\ intent' = SyncIntent(held[w], row.status) \/ UNCHANGED intent
      /\ UNCHANGED faults \/ Fault
      /\ Goto(w, next) \/ Goto(w, onError)
  BY DEF UpdateJob, FaultyUpdate, Fault
<1>2. job' \in [Jobs -> JobRow]
  BY <1>1 DEF TypeOK
<1>3. SyncIntent(held[w], row.status) \in [Jobs -> IntentRow]
  BY SyncIntentType
<1>4. intent' \in [Jobs -> IntentRow]
  BY <1>1, <1>3 DEF TypeOK
<1>5. faults' \in 0..MaxFaults
  BY <1>1, FaultTypes
<1>6. pc' \in [Workers -> Steps] /\ held' \in [Workers -> Jobs \union {NoJob}] /\ Busy'
  BY <1>1, GotoTypes
<1> QED BY <1>2, <1>4, <1>5, <1>6

\* A row stays a row whatever the relayer writes into it, and stays a job's.
LiveRow == {row \in JobRow : row.status # "none"}

LEMMA RowTypes ==
    ASSUME TypeOK, NEW j \in Jobs, NEW status \in JobStates
    PROVE  /\ [job[j] EXCEPT !.status = status] \in LiveRow
           /\ [job[j] EXCEPT !.status = status, !.att = TRUE] \in LiveRow
           /\ [job[j] EXCEPT !.status = status, !.mintTx = TRUE] \in LiveRow
           /\ [job[j] EXCEPT !.status = status, !.doneTx = TRUE] \in LiveRow
           /\ [job[j] EXCEPT !.reserved = FALSE, !.status = status] \in LiveRow
           /\ [job[j] EXCEPT !.reserved = FALSE] \in JobRow
           /\ NewRow(FALSE) \in LiveRow
           /\ NewRow(TRUE) \in LiveRow
<1>1. job[j] \in JobRow
  BY DEF TypeOK
<1>2. "pending" \in JobStates /\ status # "none"
  BY DEF JobStates, Active, Completed, GivenUp
<1>3. NewRow(FALSE) \in LiveRow /\ NewRow(TRUE) \in LiveRow
  BY <1>2 DEF JobRow, NewRow, LiveRow
<1> QED BY <1>1, <1>2, <1>3 DEF JobRow, LiveRow

\* The worker steps that consist of one call of _update_job.
Updating(w) ==
    \/ Attest(w) \/ StoreAttestation(w) \/ RecordMint(w) \/ CloseMintOnly(w)
    \/ RecordTrade(w) \/ RecordFinalize(w) \/ PreserveFinalize(w) \/ MarkFailed(w)

\* Each of them is an update whose row, next step and error step are typed.
LEMMA UpdatingUpdates ==
    ASSUME TypeInv, NEW w \in Workers, Updating(w)
    PROVE  /\ held[w] \in Jobs
           /\ \E row \in LiveRow, next \in Steps, onError \in Steps :
                  UpdateJob(w, row, next, onError)
           /\ UNCHANGED <<queue, sawMint, tries, http, chainVars, up, restarts>>
<1> DEFINE j == held[w]
           Updated == \E row \in LiveRow, next \in Steps, onError \in Steps :
                          UpdateJob(w, row, next, onError)
<1>1. j \in Jobs
  BY DEF TypeInv, TypeOK, Busy, Updating, Attest, StoreAttestation, RecordMint,
         CloseMintOnly, RecordTrade, RecordFinalize, PreserveFinalize, MarkFailed
<1>2. {"attesting", "minting", "trading", "mint_completed", "completed", "failed",
       "mint_completed_trade_failed"} \subseteq JobStates
  BY DEF JobStates, Active, Completed, GivenUp
<1>3. {"poll", "mint", "intent", "error", "idle", "trade", "close"} \subseteq Steps
  BY DEF Steps
<1>4. AfterMint(j) \in Steps
  BY <1>3 DEF AfterMint
<1>5. CASE Attest(w)
  <2>1. [job[j] EXCEPT !.status = "attesting"] \in LiveRow
    BY <1>1, <1>2, RowTypes DEF TypeInv
  <2> QED BY <1>1, <1>3, <1>5, <2>1 DEF Attest
<1>6. CASE StoreAttestation(w)
  <2>1. [job[j] EXCEPT !.status = "minting", !.att = TRUE] \in LiveRow
    BY <1>1, <1>2, RowTypes DEF TypeInv
  <2> QED BY <1>1, <1>3, <1>6, <2>1 DEF StoreAttestation
<1>7. CASE RecordMint(w)
  <2>1. [job[j] EXCEPT !.status = "trading", !.mintTx = TRUE] \in LiveRow
    BY <1>1, <1>2, RowTypes DEF TypeInv
  <2> QED BY <1>1, <1>3, <1>4, <1>7, <2>1 DEF RecordMint
<1>8. CASE CloseMintOnly(w)
  <2>1. [job[j] EXCEPT !.status = "mint_completed"] \in LiveRow
    BY <1>1, <1>2, RowTypes DEF TypeInv
  <2> QED BY <1>1, <1>3, <1>8, <2>1 DEF CloseMintOnly
<1>9. CASE RecordTrade(w)
  <2>1. [job[j] EXCEPT !.status = "completed", !.doneTx = TRUE] \in LiveRow
    BY <1>1, <1>2, RowTypes DEF TypeInv
  <2> QED BY <1>1, <1>3, <1>9, <2>1 DEF RecordTrade
<1>10. CASE RecordFinalize(w) \/ PreserveFinalize(w)
  <2>1. [job[j] EXCEPT !.status = "mint_completed", !.doneTx = TRUE] \in LiveRow
    BY <1>1, <1>2, RowTypes DEF TypeInv
  <2> QED BY <1>1, <1>3, <1>10, <2>1 DEF RecordFinalize, PreserveFinalize
<1>11. CASE MarkFailed(w)
  <2> DEFINE status == IF pc[w] = "fail" THEN "failed" ELSE "mint_completed_trade_failed"
  <2>1. [job[j] EXCEPT !.status = status] \in LiveRow
    BY <1>1, <1>2, RowTypes DEF TypeInv
  <2> QED BY <1>1, <1>3, <1>11, <2>1 DEF MarkFailed
<1> QED BY <1>5, <1>6, <1>7, <1>8, <1>9, <1>10, <1>11 DEF Updating

LEMMA UpdatingTypes ==
    ASSUME TypeInv, NEW w \in Workers, Updating(w)
    PROVE  TypeInv'
<1>1. /\ held[w] \in Jobs
      /\ \E row \in LiveRow, next \in Steps, onError \in Steps :
             UpdateJob(w, row, next, onError)
      /\ UNCHANGED <<queue, sawMint, tries, http, chainVars, up, restarts>>
  BY UpdatingUpdates
<1>2. /\ job' \in [Jobs -> JobRow]
      /\ intent' \in [Jobs -> IntentRow]
      /\ faults' \in 0..MaxFaults
      /\ pc' \in [Workers -> Steps]
      /\ held' \in [Workers -> Jobs \union {NoJob}]
      /\ Busy'
  BY <1>1, UpdateTypes DEF LiveRow
<1> QED BY <1>1, <1>2 DEF TypeInv, TypeOK, HandlerHasJob, chainVars

LEMMA FirstStepType == \A j \in Jobs : FirstStep(j) \in Steps
BY DEF FirstStep, AfterMint, Steps

LEMMA DequeueTypes ==
    ASSUME TypeInv, NEW w \in Workers, Dequeue(w)
    PROVE  TypeInv'
<1> DEFINE j == Head(queue)
<1> USE DEF TypeInv
<1>1. j \in Jobs /\ queue' \in Seq(Jobs)
  BY DEF Dequeue, TypeOK
<1>2. FirstStep(j) \in Steps
  BY <1>1, FirstStepType
<1>3. faults' \in 0..MaxFaults
  BY FaultTypes DEF Dequeue
<1>4. CASE UNCHANGED <<pc, held, sawMint>>
  BY <1>1, <1>3, <1>4 DEF Dequeue, TypeOK, Busy, HandlerHasJob, chainVars
<1>5. CASE /\ pc' = [pc EXCEPT ![w] = FirstStep(j)]
           /\ held' = [held EXCEPT ![w] = IF FirstStep(j) = "idle" THEN NoJob ELSE j]
           /\ sawMint' = [sawMint EXCEPT ![w] = job[j].mintTx]
  <2>1. job[j].mintTx \in BOOLEAN
    BY <1>1 DEF TypeOK, JobRow
  <2>2. /\ pc' \in [Workers -> Steps]
        /\ held' \in [Workers -> Jobs \union {NoJob}]
        /\ sawMint' \in [Workers -> BOOLEAN]
    BY <1>1, <1>2, <1>5, <2>1 DEF TypeOK
  <2>3. Busy'
    BY <1>1, <1>2, <1>5, JobsAssumption DEF TypeOK, Busy
  <2> QED BY <1>1, <1>3, <2>2, <2>3 DEF Dequeue, TypeOK, HandlerHasJob, chainVars
<1> QED BY <1>4, <1>5 DEF Dequeue

\* The worker steps that write no row: chain calls, reads and decisions.
Deciding(w) ==
    \/ PollAttestation(w) \/ ReceiveMessage(w) \/ SubmitTrade(w)
    \/ FetchIntent(w) \/ Finalize(w) \/ HandleError(w)

\* Each moves the worker on; what else it may change keeps its type.
LEMMA DecidingTypes ==
    ASSUME TypeInv, NEW w \in Workers, Deciding(w)
    PROVE  TypeInv'
<1> USE DEF TypeInv
<1>1. held[w] \in Jobs
  BY DEF TypeOK, Busy, Deciding, PollAttestation, ReceiveMessage, SubmitTrade,
         FetchIntent, Finalize, HandleError
<1>2. ErrorStep(held[w]) \in Steps
  BY DEF ErrorStep, Steps
<1>3. \E step \in Steps : Goto(w, step)
  BY <1>2 DEF Deciding, PollAttestation, ReceiveMessage, SubmitTrade,
     FetchIntent, Finalize, HandleError, Steps
<1>4. /\ pc' \in [Workers -> Steps]
      /\ held' \in [Workers -> Jobs \union {NoJob}]
      /\ Busy'
  BY <1>1, <1>3, GotoTypes
<1>5. faults' \in 0..MaxFaults
  BY FaultTypes DEF Deciding, PollAttestation, ReceiveMessage, SubmitTrade,
     FetchIntent, Finalize, HandleError, bounds
<1>6. mint' \in [Jobs -> Landing] /\ exec' \in [Jobs -> Landing]
  BY DEF Deciding, PollAttestation, ReceiveMessage, SubmitTrade, FetchIntent,
     Finalize, HandleError, chainVars, Confirmed, ConfirmedThoughFailed, TimedOut, TypeOK, Landing
<1>7. tries' \in [Workers -> 1..MaxTries]
  <2>1. /\ tries \in [Workers -> 1..MaxTries]
        /\ \/ tries' = tries
           \/ tries' = [tries EXCEPT ![w] = 1]
           \/ tries[w] < MaxTries /\ tries' = [tries EXCEPT ![w] = tries[w] + 1]
    BY DEF Deciding, PollAttestation, ReceiveMessage, SubmitTrade, FetchIntent, Finalize,
       HandleError, MayRetry, TypeOK
  <2>2. tries[w] \in 1..MaxTries /\ 1 \in 1..MaxTries
    BY <2>1, BoundsAssumption
  <2>3. tries[w] < MaxTries => tries[w] + 1 \in 1..MaxTries
    BY <2>2, BoundsAssumption
  <2> QED BY <2>1, <2>2, <2>3
<1>8. UNCHANGED <<job, intent, queue, sawMint, http, burn, up, restarts>>
  BY DEF Deciding, PollAttestation, ReceiveMessage, SubmitTrade, FetchIntent,
     Finalize, HandleError, rows, chainVars, bounds
<1> QED BY <1>4, <1>5, <1>6, <1>7, <1>8 DEF TypeOK, HandlerHasJob

\* One database call of a handler on the row of a job.
LEMMA HttpWriteTypes ==
    ASSUME TypeInv, NEW j \in Jobs, NEW row \in JobRow,
           NEW next \in HttpSteps, NEW onError \in HttpSteps,
           HttpWrite(j, row, next, onError)
    PROVE  /\ job' \in [Jobs -> JobRow]
           /\ faults' \in 0..MaxFaults
           /\ http' \in [step : HttpSteps, job : Jobs \union {NoJob}]
           /\ HandlerHasJob'
<1>1. job' \in [Jobs -> JobRow]
  BY DEF HttpWrite, FaultyUpdate, TypeInv, TypeOK
<1>2. faults' \in 0..MaxFaults
  BY FaultTypes DEF HttpWrite, FaultyUpdate, TypeInv
<1>3. HttpGoto(next, j) \/ HttpGoto(onError, j)
  BY DEF HttpWrite
<1>4. http' \in [step : HttpSteps, job : Jobs \union {NoJob}] /\ HandlerHasJob'
  BY <1>3 DEF HttpGoto, HttpIdle, HttpSteps, HandlerHasJob
<1> QED BY <1>1, <1>2, <1>4

\* The handler steps that write the row of one job.
Recording(j) ==
    \/ CreateBridgeJob(j) \/ ReserveBridgeJob(j) \/ FinalizeReservation(j)
    \/ ReserveBurn(j)
    \/ http.job = j /\ (FinishBurn \/ FailBurn \/ InsertIntentJob)

LEMMA RecordingTypes ==
    ASSUME TypeInv, NEW j \in Jobs, Recording(j)
    PROVE  TypeInv'
<1> USE DEF TypeInv
<1>1. /\ NewRow(FALSE) \in JobRow
      /\ NewRow(TRUE) \in JobRow
      /\ [job[j] EXCEPT !.reserved = FALSE] \in JobRow
      /\ [job[j] EXCEPT !.reserved = FALSE, !.status = "pending"] \in JobRow
      /\ [job[j] EXCEPT !.status = "failed"] \in JobRow
  BY RowTypes DEF JobStates, Active, GivenUp, LiveRow
<1>2. {"enqueue", "idle", "broadcast"} \subseteq HttpSteps
  BY DEF HttpSteps
<1>3. \E row \in JobRow, next \in HttpSteps, onError \in HttpSteps :
          HttpWrite(j, row, next, onError)
  BY <1>1, <1>2 DEF Recording, CreateBridgeJob, ReserveBridgeJob,
     FinalizeReservation, ReserveBurn, FinishBurn, FailBurn, InsertIntentJob
<1>4. /\ job' \in [Jobs -> JobRow]
      /\ faults' \in 0..MaxFaults
      /\ http' \in [step : HttpSteps, job : Jobs \union {NoJob}]
      /\ HandlerHasJob'
  BY <1>3, HttpWriteTypes
<1>5. UNCHANGED <<intent, queue, workerVars, chainVars, up, restarts>>
  BY DEF Recording, CreateBridgeJob, ReserveBridgeJob, FinalizeReservation,
     ReserveBurn, FinishBurn, FailBurn, InsertIntentJob
<1> QED BY <1>4, <1>5 DEF TypeOK, Busy, workerVars, chainVars

\* The other steps of the handlers.
LEMMA HandlerTypes ==
    ASSUME TypeInv, (\E j \in Jobs : InsertIntent(j)) \/ BroadcastBurn \/ EnqueueJob \/ LinkIntent
    PROVE  TypeInv'
<1> USE DEF TypeInv
<1>1. CASE \E j \in Jobs : InsertIntent(j)
  <2> PICK j \in Jobs : InsertIntent(j)
    BY <1>1
  <2>1. intent' \in [Jobs -> IntentRow]
    <3>1. intent[j] \in IntentRow
      BY DEF TypeOK
    <3>2. [intent[j] EXCEPT !.status = "pending"] \in IntentRow
      BY <3>1 DEF IntentRow, IntentStates
    <3> QED BY <3>2 DEF InsertIntent, TypeOK
  <2>2. faults' \in 0..MaxFaults
    BY FaultTypes DEF InsertIntent
  <2>3. http' \in [step : HttpSteps, job : Jobs \union {NoJob}] /\ HandlerHasJob'
    BY DEF InsertIntent, HttpGoto, HttpIdle, HttpSteps, HandlerHasJob
  <2> QED BY <2>1, <2>2, <2>3 DEF InsertIntent, TypeOK, Busy, workerVars, chainVars
<1>2. CASE BroadcastBurn
  <2>1. burn' \in [Jobs -> Landing]
    BY <1>2 DEF BroadcastBurn, Confirmed, TimedOut, TypeOK, Landing
  <2>2. http' \in [step : HttpSteps, job : Jobs \union {NoJob}] /\ HandlerHasJob'
    BY <1>2 DEF BroadcastBurn, HttpAt, HttpGoto, HttpIdle, HttpSteps, HandlerHasJob, TypeOK
  <2> QED BY <1>2, <2>1, <2>2 DEF BroadcastBurn, TypeOK, Busy, rows, workerVars, bounds
<1>3. CASE EnqueueJob
  <2>1. http.job \in Jobs
    BY <1>3 DEF EnqueueJob, HttpAt, HandlerHasJob
  <2>2. queue' \in Seq(Jobs)
    BY <1>3, <2>1 DEF EnqueueJob, TypeOK
  <2>3. http' \in [step : HttpSteps, job : Jobs \union {NoJob}] /\ HandlerHasJob'
    BY <1>3, <2>1 DEF EnqueueJob, HttpGoto, HttpIdle, HttpSteps, HandlerHasJob
  <2> QED BY <1>3, <2>2, <2>3 DEF EnqueueJob, TypeOK, Busy, rows, workerVars, chainVars, bounds
<1>4. CASE LinkIntent
  <2>1. http.job \in Jobs
    BY <1>4 DEF LinkIntent, HttpAt, HandlerHasJob
  <2>2. intent' \in [Jobs -> IntentRow]
    <3>1. [status |-> "bridging", linked |-> TRUE] \in IntentRow
      BY DEF IntentRow, IntentStates
    <3> QED BY <1>4, <2>1, <3>1 DEF LinkIntent, TypeOK
  <2>3. faults' \in 0..MaxFaults
    BY <1>4, FaultTypes DEF LinkIntent
  <2>4. http' \in [step : HttpSteps, job : Jobs \union {NoJob}] /\ HandlerHasJob'
    BY <1>4 DEF LinkIntent, HttpGoto, HttpIdle, HttpSteps, HandlerHasJob
  <2> QED BY <1>4, <2>2, <2>3, <2>4 DEF LinkIntent, TypeOK, Busy, workerVars, chainVars
<1> QED BY <1>1, <1>2, <1>3, <1>4

\* Crashes, restarts and the chains.
LEMMA ProcessTypes ==
    ASSUME TypeInv, Crash \/ Restart \/ (\E j \in Jobs : Chain(j))
    PROVE  TypeInv'
<1> USE DEF TypeInv
<1>1. CASE Crash
  <2>1. queue' \in Seq(Jobs) /\ up' \in BOOLEAN
    <3>1. queue' = <<>>
      BY <1>1 DEF Crash
    <3>2. up' \in BOOLEAN
      BY <1>1, Zenon DEF Crash
    <3> QED BY <3>1, <3>2
  <2>4. /\ pc' \in [Workers -> Steps]
        /\ held' \in [Workers -> Jobs \union {NoJob}]
        /\ sawMint' \in [Workers -> BOOLEAN]
        /\ tries' \in [Workers -> 1..MaxTries]
    BY <1>1, BoundsAssumption DEF Crash, Steps
  <2>2. http' \in [step : HttpSteps, job : Jobs \union {NoJob}] /\ HandlerHasJob' /\ Busy'
    BY <1>1 DEF Crash, HttpIdle, HttpSteps, HandlerHasJob, Busy
  <2>3. restarts' \in 0..MaxRestarts
    BY <1>1, BoundsAssumption DEF Crash, TypeOK
  <2> QED BY <1>1, <2>1, <2>2, <2>3, <2>4 DEF Crash, TypeOK, rows, chainVars
<1>2. CASE Restart
  <2>1. faults' \in 0..MaxFaults
    BY <1>2, FaultTypes DEF Restart
  <2>2. Incomplete \in SUBSET Jobs
    BY DEF Incomplete
  <2>3. queue' \in Seq(Jobs)
    BY <1>2, <2>2, RecoveredQueue DEF Restart, TypeOK
  <2> QED BY <1>2, <2>1, <2>3 DEF Restart, TypeOK, Busy, HandlerHasJob, rows, workerVars, chainVars
<1>3. CASE \E j \in Jobs : Chain(j)
  <2>1. burn' \in [Jobs -> Landing] /\ mint' \in [Jobs -> Landing] /\ exec' \in [Jobs -> Landing]
    BY <1>3 DEF Chain, UserBurn, LandBurn, LandMint, LandExec, TypeOK, Landing
  <2> QED BY <1>3, <2>1 DEF Chain, UserBurn, LandBurn, LandMint, LandExec, TypeOK,
          Busy, HandlerHasJob, rows, workerVars, bounds
<1> QED BY <1>1, <1>2, <1>3

\* Next, grouped as the lemmas are: what a step does to the rows.
LEMMA StepKinds ==
    ASSUME TypeInv, Next
    PROVE  \/ \E w \in Workers : Updating(w) \/ Deciding(w) \/ Dequeue(w)
           \/ \E j \in Jobs : Recording(j)
           \/ (\E j \in Jobs : InsertIntent(j)) \/ BroadcastBurn \/ EnqueueJob \/ LinkIntent
           \/ Crash \/ Restart \/ (\E j \in Jobs : Chain(j))
<1>1. ASSUME Handle
      PROVE  BroadcastBurn \/ EnqueueJob \/ LinkIntent \/ \E j \in Jobs : Recording(j)
  <2>1. FinishBurn \/ FailBurn \/ InsertIntentJob => http.job \in Jobs
    BY DEF FinishBurn, FailBurn, InsertIntentJob, HttpAt, TypeInv, HandlerHasJob
  <2> QED BY <1>1, <2>1 DEF Handle, Recording
<1>2. \A w \in Workers : Work(w) => Updating(w) \/ Deciding(w) \/ Dequeue(w)
  BY DEF Work, Updating, Deciding
<1>3. \A j \in Jobs : Accept(j) => InsertIntent(j) \/ Recording(j)
  BY DEF Accept, Recording
<1> QED BY <1>1, <1>2, <1>3 DEF Next

LEMMA NextTypes == TypeInv /\ [Next]_vars => TypeInv'
<1>1. ASSUME TypeInv, Next PROVE TypeInv'
  BY <1>1, StepKinds, UpdatingTypes, DecidingTypes, DequeueTypes, RecordingTypes,
     HandlerTypes, ProcessTypes
<1>2. ASSUME TypeInv, UNCHANGED vars PROVE TypeInv'
  BY <1>2 DEF vars, TypeInv, TypeOK, Busy, HandlerHasJob
<1> QED BY <1>1, <1>2

\* The state of the relayer, the handlers and the chains is always well typed.
THEOREM TypeCorrect == Spec => []TypeOK
<1>1. TypeInv => TypeOK
  BY DEF TypeInv
<1> QED BY <1>1, InitTypes, NextTypes, PTL DEF Spec

LEMMA TypeInvariant == Spec => []TypeInv
BY InitTypes, NextTypes, PTL DEF Spec
-----------------------------------------------------------------------------
(* A job that was never a reservation is processed by one worker at a time. *)
(* ProcessedOnce is not inductive: a job must not be enqueued while it is   *)
(* in hand, so the rows and the handler under way are tied to the queue.    *)

Plain == Jobs \ ReserveJobs
Queued(j) == \E n \in DOMAIN queue : queue[n] = j
Held(j) == \E w \in Workers : held[w] = j

DownIsIdle == ~up => queue = <<>> /\ http = HttpIdle /\ \A w \in Workers : held[w] = NoJob

HandRows ==
    \A j \in Plain : /\ Queued(j) => job[j].status \in Active
                     /\ Held(j) => job[j].status # "none"

\* A job the handler is about to insert or to enqueue is not in hand.
HandlerRow ==
    /\ http.step = "create_job" => /\ http.job \in IntentJobs
                                   /\ job[http.job].status = "none"
                                   /\ intent[http.job].status # "none"
    /\ /\ http.step \in {"enqueue", "broadcast", "finish_burn", "fail_burn"}
       /\ http.job \in Plain
       => job[http.job].status = "pending" /\ ~InHand(http.job)

IntentFirst == \A j \in IntentJobs : intent[j].status = "none" => job[j].status = "none"

HandInv == DownIsIdle /\ ProcessedOnce /\ HandRows /\ HandlerRow /\ IntentFirst

\* Workers that only let go of jobs, and write only the rows they hold.
LEMMA HandKept ==
    ASSUME TypeInv, HandInv,
           \A v \in Workers : held'[v] = held[v] \/ held'[v] = NoJob,
           \A k \in Jobs : job'[k] = job[k] \/ (Held(k) /\ job'[k].status # "none"),
           \A k \in Jobs : intent'[k].status = "none" => intent[k].status = "none",
           UNCHANGED <<queue, http, up>>
    PROVE  HandInv'
<1> USE DEF HandInv
<1>1. Plain \subseteq Jobs /\ IntentJobs \subseteq Plain
  BY JobsAssumption DEF Plain
<1>2. \A k \in Jobs : /\ Queued(k)' <=> Queued(k)
                      /\ Held(k)' => Held(k)
                      /\ InHand(k)' => InHand(k)
  BY JobsAssumption DEF Queued, Held, InHand
<1>3. \A k \in Plain : Queued(k) \/ ~InHand(k) => job'[k] = job[k]
  BY <1>1 DEF ProcessedOnce, Queued, Held, InHand, Plain
<1>4. DownIsIdle'
  BY DEF DownIsIdle
<1>5. ProcessedOnce'
  BY JobsAssumption DEF ProcessedOnce
<1>6. HandRows'
  BY <1>1, <1>2, <1>3 DEF HandRows
<1>7. IntentFirst'
  BY <1>1, <1>2 DEF IntentFirst, HandRows
<1>8. HandlerRow'
  <2>1. ASSUME http.step = "create_job"
        PROVE  job'[http.job].status = "none" /\ intent'[http.job].status # "none"
    BY <1>1, <2>1 DEF HandlerRow, HandRows, TypeInv, HandlerHasJob
  <2>2. ASSUME http.step \in {"enqueue", "broadcast", "finish_burn", "fail_burn"},
               http.job \in Plain
        PROVE  job'[http.job].status = "pending" /\ ~InHand(http.job)'
    BY <1>1, <1>2, <1>3, <2>2 DEF HandlerRow
  <2> QED BY <2>1, <2>2 DEF HandlerRow
<1> QED BY <1>4, <1>5, <1>6, <1>7, <1>8

LEMMA SyncIntentNotNone ==
    ASSUME TypeOK, NEW j \in Jobs, NEW status, NEW k \in Jobs,
           SyncIntent(j, status)[k].status = "none"
    PROVE  intent[k].status = "none"
<1>1. BridgeStatusToIntentStatus(status, j) # "none"
  BY DEF BridgeStatusToIntentStatus
<1> QED BY <1>1 DEF SyncIntent, TypeOK, IntentRow

LEMMA UpdatingHand ==
    ASSUME TypeInv, HandInv, NEW w \in Workers, Updating(w)
    PROVE  HandInv'
<1>1. /\ held[w] \in Jobs
      /\ UNCHANGED <<queue, http, up>>
  BY UpdatingUpdates
<1>2. PICK row \in LiveRow, next \in Steps, onError \in Steps :
          UpdateJob(w, row, next, onError)
  BY UpdatingUpdates
<1>3. /\ job' = [job EXCEPT ![held[w]] = row] \/ UNCHANGED job
      /\ intent' = SyncIntent(held[w], row.status) \/ UNCHANGED intent
      /\ Goto(w, next) \/ Goto(w, onError)
  BY <1>2 DEF UpdateJob, FaultyUpdate, Fault
<1>4. \A v \in Workers : held'[v] = held[v] \/ held'[v] = NoJob
  BY <1>3 DEF Goto, TypeInv, TypeOK
<1>5. \A k \in Jobs : job'[k] = job[k] \/ (Held(k) /\ job'[k].status # "none")
  BY <1>1, <1>2, <1>3 DEF Held, TypeInv, TypeOK, LiveRow
<1>6. \A k \in Jobs : intent'[k].status = "none" => intent[k].status = "none"
  BY <1>1, <1>3, SyncIntentNotNone DEF TypeInv
<1> QED BY <1>1, <1>4, <1>5, <1>6, HandKept

LEMMA DecidingHand ==
    ASSUME TypeInv, HandInv, NEW w \in Workers, Deciding(w)
    PROVE  HandInv'
<1>1. UNCHANGED <<job, intent, queue, http, up>>
  BY DEF Deciding, PollAttestation, ReceiveMessage, SubmitTrade, FetchIntent,
     Finalize, HandleError, rows
<1>2. PICK step : Goto(w, step)
  BY DEF Deciding, PollAttestation, ReceiveMessage, SubmitTrade, FetchIntent,
     Finalize, HandleError
<1>3. \A v \in Workers : held'[v] = held[v] \/ held'[v] = NoJob
  BY <1>2 DEF Goto, TypeInv, TypeOK
<1> QED BY <1>1, <1>3, HandKept

\* The job at the head of the queue is queued once and held by no worker.
LEMMA DequeueHand ==
    ASSUME TypeInv, HandInv, NEW w \in Workers, Dequeue(w)
    PROVE  HandInv'
<1> DEFINE h == Head(queue)
<1> USE DEF HandInv
<1>1. /\ Plain \subseteq Jobs /\ queue \in Seq(Jobs) /\ queue # <<>>
      /\ held \in [Workers -> Jobs \union {NoJob}]
  BY DEF Plain, Dequeue, TypeInv, TypeOK
<1>2. /\ h \in Jobs /\ h = queue[1] /\ 1 \in DOMAIN queue
      /\ \A n \in DOMAIN queue' : n + 1 \in DOMAIN queue /\ queue'[n] = queue[n + 1] /\ n \in Nat
  BY <1>1 DEF Dequeue
<1>3. \A v \in Workers : held'[v] = held[v] \/ held'[v] = NoJob \/ (v = w /\ held'[v] = h)
  BY <1>1 DEF Dequeue
<1>4. \A k \in Jobs : /\ Queued(k)' => Queued(k)
                      /\ InHand(k)' => InHand(k)
                      /\ Held(k)' => Held(k) \/ k = h
  BY <1>2, <1>3, JobsAssumption DEF Queued, Held, InHand
<1>5. ProcessedOnce'
  BY <1>1, <1>2, <1>3, NoJobIsNone DEF ProcessedOnce
<1>6. UNCHANGED <<job, intent, http, up>> /\ up
  BY DEF Dequeue
<1>7. HandRows'
  <2>1. Queued(h)
    BY <1>2 DEF Queued
  <2> QED BY <1>1, <1>4, <1>6, <2>1 DEF HandRows, Active
<1>8. HandlerRow'
  BY <1>1, <1>4, <1>6 DEF HandlerRow
<1>9. DownIsIdle' /\ IntentFirst'
  BY <1>6 DEF DownIsIdle, IntentFirst
<1> QED BY <1>5, <1>7, <1>8, <1>9

\* A job without a row is neither queued nor held.
LEMMA UnseenNotInHand ==
    ASSUME HandInv, NEW j \in Plain, job[j].status = "none"
    PROVE  ~InHand(j)
BY DEF HandInv, HandRows, InHand, Queued, Held, Active

\* A handler that writes the row of a job that is not in hand.
LEMMA RowKept ==
    ASSUME TypeInv, HandInv, NEW j \in Jobs, NEW row \in LiveRow, up,
           j \in Plain => ~InHand(j),
           j \in IntentJobs => intent[j].status # "none",
           job' = [job EXCEPT ![j] = row] \/ UNCHANGED job,
           \/ http' = HttpIdle
           \/ /\ http'.job = j /\ http'.step \notin {"create_job", "idle"}
              /\ job'[j].status = "pending",
           UNCHANGED <<intent, queue, held, up>>
    PROVE  HandInv'
<1> USE DEF HandInv
<1>1. Plain \subseteq Jobs /\ IntentJobs \subseteq Plain
  BY JobsAssumption DEF Plain
<1>2. \A k \in Jobs : /\ Queued(k)' <=> Queued(k)
                      /\ Held(k)' <=> Held(k)
                      /\ InHand(k)' <=> InHand(k)
  BY DEF Queued, Held, InHand
<1>3. \A k \in Jobs : k # j => job'[k] = job[k]
  BY DEF TypeInv, TypeOK
<1>4. j \in Plain => ~Queued(j) /\ ~Held(j)
  BY DEF Queued, Held, InHand
<1>5. DownIsIdle' /\ ProcessedOnce'
  BY DEF DownIsIdle, ProcessedOnce
<1>6. HandRows'
  BY <1>1, <1>2, <1>3, <1>4 DEF HandRows
<1>7. IntentFirst'
  BY <1>1, <1>3 DEF IntentFirst
<1>8. HandlerRow'
  BY <1>1, <1>2 DEF HandlerRow, HttpIdle
<1> QED BY <1>5, <1>6, <1>7, <1>8

LEMMA RecordingHand ==
    ASSUME TypeInv, HandInv, NEW j \in Jobs, Recording(j)
    PROVE  HandInv'
<1> USE DEF HandInv
<1>1. /\ NewRow(FALSE) \in LiveRow /\ NewRow(FALSE).status = "pending"
      /\ NewRow(TRUE) \in LiveRow /\ NewRow(TRUE).status = "pending"
      /\ [job[j] EXCEPT !.reserved = FALSE, !.status = "pending"] \in LiveRow
      /\ [job[j] EXCEPT !.status = "failed"] \in LiveRow
  BY RowTypes DEF JobStates, Active, GivenUp, NewRow, TypeInv
<1>2. UNCHANGED <<intent, queue, held, up>>
  BY DEF Recording, CreateBridgeJob, ReserveBridgeJob, FinalizeReservation,
     ReserveBurn, FinishBurn, FailBurn, InsertIntentJob, workerVars
<1>3. up
  <2>1. CASE http = HttpIdle
    BY <2>1, Zenon DEF Recording, CreateBridgeJob, ReserveBridgeJob,
       FinalizeReservation, ReserveBurn, FinishBurn, FailBurn, InsertIntentJob,
       HttpAt, HttpIdle
  <2>2. CASE http # HttpIdle
    BY <2>2, Zenon DEF DownIsIdle
  <2> QED BY <2>1, <2>2
<1>4. CASE CreateBridgeJob(j) \/ ReserveBridgeJob(j) \/ ReserveBurn(j)
  <2>1. job[j].status = "none" /\ j \notin IntentJobs
    BY <1>4, JobsAssumption DEF CreateBridgeJob, ReserveBridgeJob, ReserveBurn, Unseen
  <2>2. j \in Plain => ~InHand(j)
    BY <2>1, UnseenNotInHand
  <2>3. PICK row \in {NewRow(FALSE), NewRow(TRUE)} :
            /\ job' = [job EXCEPT ![j] = row] \/ UNCHANGED job
            /\ \/ http' = HttpIdle
               \/ /\ http'.job = j /\ http'.step \notin {"create_job", "idle"}
                  /\ job' = [job EXCEPT ![j] = row]
    BY <1>4 DEF CreateBridgeJob, ReserveBridgeJob, ReserveBurn, HttpWrite,
       FaultyUpdate, HttpGoto, NewRow
  <2>4. job' = [job EXCEPT ![j] = row] => job'[j].status = "pending"
    BY <1>1 DEF TypeInv, TypeOK
  <2> QED BY <1>1, <1>2, <1>3, <2>1, <2>2, <2>3, <2>4, RowKept
<1>5. CASE FinalizeReservation(j)
  <2>1. j \notin Plain /\ j \notin IntentJobs
    BY <1>5, JobsAssumption DEF FinalizeReservation, Plain
  <2> DEFINE row == [job[j] EXCEPT !.reserved = FALSE]
  <2>2. row \in LiveRow /\ row.status = "pending"
    <3>1. job[j] \in JobRow
      BY DEF TypeInv, TypeOK
    <3> QED BY <1>5, <3>1 DEF FinalizeReservation, JobRow, LiveRow
  <2>3. /\ job' = [job EXCEPT ![j] = row] \/ UNCHANGED job
        /\ \/ http' = HttpIdle
           \/ /\ http'.job = j /\ http'.step \notin {"create_job", "idle"}
              /\ job' = [job EXCEPT ![j] = row]
    BY <1>5 DEF FinalizeReservation, HttpWrite, FaultyUpdate, HttpGoto
  <2>4. job' = [job EXCEPT ![j] = row] => job'[j].status = "pending"
    BY <2>2 DEF TypeInv, TypeOK
  <2> QED BY <1>2, <1>3, <2>1, <2>2, <2>3, <2>4, RowKept
<1>6. CASE http.job = j /\ FinishBurn
  <2> DEFINE row == [job[j] EXCEPT !.reserved = FALSE, !.status = "pending"]
  <2>1. (j \in Plain => ~InHand(j) /\ job[j].status = "pending")
    BY <1>6 DEF FinishBurn, HttpAt, HandlerRow
  <2>2. j \in IntentJobs => intent[j].status # "none"
    BY <2>1, JobsAssumption DEF IntentFirst, Plain
  <2>3. /\ job' = [job EXCEPT ![j] = row] \/ UNCHANGED job
        /\ \/ http' = HttpIdle
           \/ /\ http'.job = j /\ http'.step \notin {"create_job", "idle"}
              /\ job' = [job EXCEPT ![j] = row]
    BY <1>6 DEF FinishBurn, HttpWrite, FaultyUpdate, HttpGoto
  <2>4. job' = [job EXCEPT ![j] = row] => job'[j].status = "pending"
    BY DEF TypeInv, TypeOK, JobRow
  <2> QED BY <1>1, <1>2, <1>3, <2>1, <2>2, <2>3, <2>4, RowKept
<1>7. CASE http.job = j /\ FailBurn
  <2> DEFINE row == [job[j] EXCEPT !.status = "failed"]
  <2>1. (j \in Plain => ~InHand(j) /\ job[j].status = "pending")
    BY <1>7 DEF FailBurn, HttpAt, HandlerRow
  <2>2. j \in IntentJobs => intent[j].status # "none"
    BY <2>1, JobsAssumption DEF IntentFirst, Plain
  <2>3. (job' = [job EXCEPT ![j] = row] \/ UNCHANGED job) /\ http' = HttpIdle
    BY <1>7 DEF FailBurn, HttpWrite, FaultyUpdate, HttpGoto
  <2> QED BY <1>1, <1>2, <1>3, <2>1, <2>2, <2>3, RowKept
<1>8. CASE http.job = j /\ InsertIntentJob
  <2>1. job[j].status = "none" /\ intent[j].status # "none" /\ j \in Plain
    BY <1>8, JobsAssumption DEF InsertIntentJob, HttpAt, HandlerRow, Plain
  <2>2. ~InHand(j)
    BY <2>1, UnseenNotInHand
  <2>3. /\ job' = [job EXCEPT ![j] = NewRow(FALSE)] \/ UNCHANGED job
        /\ \/ http' = HttpIdle
           \/ /\ http'.job = j /\ http'.step \notin {"create_job", "idle"}
              /\ job' = [job EXCEPT ![j] = NewRow(FALSE)]
    BY <1>8 DEF InsertIntentJob, HttpWrite, FaultyUpdate, HttpGoto, NewRow
  <2>4. job' = [job EXCEPT ![j] = NewRow(FALSE)] => job'[j].status = "pending"
    BY <1>1 DEF TypeInv, TypeOK
  <2> QED BY <1>1, <1>2, <1>3, <2>1, <2>2, <2>3, <2>4, RowKept
<1> QED BY <1>4, <1>5, <1>6, <1>7, <1>8 DEF Recording

LEMMA HandlerHand ==
    ASSUME TypeInv, HandInv, (\E j \in Jobs : InsertIntent(j)) \/ BroadcastBurn \/ LinkIntent
    PROVE  HandInv'
<1> USE DEF HandInv
<1>1. UNCHANGED <<job, queue, held, up>>
  BY DEF InsertIntent, BroadcastBurn, LinkIntent, rows, workerVars
<1>2. ProcessedOnce' /\ HandRows' /\ \A k \in Jobs : InHand(k)' <=> InHand(k)
  BY <1>1 DEF ProcessedOnce, HandRows, Queued, Held, InHand
<1>3. up
  <2>1. CASE http = HttpIdle
    BY <2>1, Zenon DEF InsertIntent, BroadcastBurn, LinkIntent, HttpAt, HttpIdle
  <2>2. CASE http # HttpIdle
    BY <2>2, Zenon DEF DownIsIdle
  <2> QED BY <2>1, <2>2
<1>4. DownIsIdle'
  BY <1>1, <1>3 DEF DownIsIdle
<1>5. \A k \in Jobs : intent'[k].status = "none" => intent[k].status = "none"
  <2>1. CASE \E j \in Jobs : InsertIntent(j)
    BY <2>1 DEF InsertIntent, TypeInv, TypeOK, IntentRow
  <2>2. CASE BroadcastBurn
    BY <2>2 DEF BroadcastBurn, rows
  <2>3. CASE LinkIntent
    <3>1. \/ intent' = intent
          \/ intent' = [intent EXCEPT ![http.job] = [status |-> "bridging", linked |-> TRUE]]
      BY <2>3 DEF LinkIntent
    <3>2. \A k \in Jobs : intent'[k] = intent[k] \/ intent'[k].status = "bridging"
      BY <3>1 DEF TypeInv, TypeOK
    <3> QED BY <3>2
  <2> QED BY <2>1, <2>2, <2>3
<1>6. IntentFirst'
  BY <1>1, <1>5, JobsAssumption DEF IntentFirst
<1>7. HandlerRow'
  <2>1. CASE \E j \in Jobs : InsertIntent(j)
    <3> PICK j \in Jobs : InsertIntent(j)
      BY <2>1
    <3>1. j \in IntentJobs /\ job[j].status = "none"
      BY DEF InsertIntent, IntentFirst
    <3>2. CASE http' = HttpIdle
      BY <3>2 DEF HandlerRow, HttpIdle
    <3>3. CASE /\ intent' = [intent EXCEPT ![j].status = "pending"]
               /\ http' = [step |-> "create_job", job |-> j]
      <4>1. intent'[j].status # "none"
        BY <3>3 DEF TypeInv, TypeOK, IntentRow
      <4> QED BY <1>1, <3>1, <3>3, <4>1 DEF HandlerRow
    <3> QED BY <3>2, <3>3 DEF InsertIntent, HttpGoto
  <2>2. CASE BroadcastBurn
    <3>1. http' = [step |-> "finish_burn", job |-> http.job]
              \/ http' = [step |-> "fail_burn", job |-> http.job]
      BY <2>2 DEF BroadcastBurn, HttpGoto
    <3>2. http.step = "broadcast" /\ http.job \in Jobs
      BY <2>2 DEF BroadcastBurn, HttpAt, TypeInv, HandlerHasJob
    <3> QED BY <1>1, <1>2, <3>1, <3>2 DEF HandlerRow
  <2>3. CASE LinkIntent
    <3>1. http' = HttpIdle
      BY <2>3 DEF LinkIntent, HttpGoto
    <3> QED BY <3>1 DEF HandlerRow, HttpIdle
  <2> QED BY <2>1, <2>2, <2>3
<1> QED BY <1>2, <1>4, <1>6, <1>7

\* The only step that adds to the queue: the job it adds is not in hand.
LEMMA EnqueueHand ==
    ASSUME TypeInv, HandInv, EnqueueJob
    PROVE  HandInv'
<1> DEFINE j == http.job
<1> USE DEF HandInv
<1>1. /\ Plain \subseteq Jobs /\ queue \in Seq(Jobs) /\ j \in Jobs
      /\ queue' = Append(queue, j)
      /\ UNCHANGED <<job, intent, held, up>>
  BY DEF Plain, EnqueueJob, TypeInv, TypeOK, HttpAt, HandlerHasJob, rows, workerVars
<1>2. j \in Plain => ~InHand(j) /\ job[j].status = "pending"
  BY DEF EnqueueJob, HttpAt, HandlerRow
<1>3. \A n \in DOMAIN queue' : (n \in DOMAIN queue /\ queue'[n] = queue[n])
                                \/ (n = Len(queue) + 1 /\ queue'[n] = j)
  BY <1>1
<1>4. ProcessedOnce'
  <2> SUFFICES ASSUME NEW k \in Plain
               PROVE  /\ \A m, n \in DOMAIN queue' : queue'[m] = k /\ queue'[n] = k => m = n
                      /\ \A v, w \in Workers : held[v] = k /\ held[w] = k => v = w
                      /\ \A n \in DOMAIN queue', w \in Workers : ~(queue'[n] = k /\ held[w] = k)
    BY <1>1 DEF ProcessedOnce, Plain
  <2>1. CASE k = j
    BY <1>2, <1>3, <2>1 DEF ProcessedOnce, Plain, InHand
  <2>2. CASE k # j
    BY <1>3, <2>2 DEF ProcessedOnce, Plain
  <2> QED BY <2>1, <2>2
<1>5. HandRows'
  BY <1>1, <1>2, <1>3 DEF HandRows, Queued, Held, InHand, Active
<1>6. DownIsIdle'
  BY <1>1 DEF DownIsIdle, EnqueueJob, HttpAt, HttpIdle
<1>7. HandlerRow' /\ IntentFirst'
  BY <1>1 DEF EnqueueJob, HttpGoto, HttpIdle, HandlerRow, IntentFirst
<1> QED BY <1>4, <1>5, <1>6, <1>7

LEMMA ProcessHand ==
    ASSUME TypeInv, HandInv, Crash \/ Restart \/ (\E j \in Jobs : Chain(j))
    PROVE  HandInv'
<1> USE DEF HandInv
<1>1. CASE Crash
  <2>1. /\ queue' = <<>> /\ http' = HttpIdle /\ \A w \in Workers : held'[w] = NoJob
        /\ UNCHANGED <<job, intent>>
    BY <1>1 DEF Crash, rows
  <2> QED BY <2>1, JobsAssumption DEF DownIsIdle, ProcessedOnce, HandRows, Queued, Held,
             HandlerRow, HttpIdle, IntentFirst, Plain
<1>2. CASE Restart
  <2>1. /\ queue = <<>> /\ http = HttpIdle /\ \A w \in Workers : held[w] = NoJob
        /\ UNCHANGED <<job, intent, http, held>>
    BY <1>2 DEF Restart, DownIsIdle, rows, workerVars
  <2>2. /\ \A n \in DOMAIN queue' : queue'[n] \in Incomplete
        /\ \A m, n \in DOMAIN queue' : queue'[m] = queue'[n] => m = n
    <3>1. Incomplete \in SUBSET Jobs
      BY DEF Incomplete
    <3>2. CASE queue' \in SetToSeqs(Incomplete)
      BY <3>1, <3>2, RecoveredQueue
    <3>3. CASE UNCHANGED queue
      BY <2>1, <3>3
    <3> QED BY <1>2, <3>2, <3>3 DEF Restart
  <2>3. ProcessedOnce' /\ HandRows'
    BY <2>1, <2>2, JobsAssumption DEF ProcessedOnce, HandRows, Queued, Held, Incomplete, Plain
  <2>4. DownIsIdle'
    BY <1>2 DEF Restart, DownIsIdle
  <2> QED BY <2>1, <2>3, <2>4 DEF HandlerRow, HttpIdle, IntentFirst
<1>3. CASE \E j \in Jobs : Chain(j)
  <2>1. UNCHANGED <<job, intent, queue, http, held, up>>
    BY <1>3 DEF Chain, UserBurn, LandBurn, LandMint, LandExec, rows, workerVars
  <2> QED BY <2>1 DEF DownIsIdle, ProcessedOnce, HandRows, Queued, Held, HandlerRow,
             InHand, IntentFirst
<1> QED BY <1>1, <1>2, <1>3

LEMMA InitHand == Init => HandInv
<1> SUFFICES ASSUME Init PROVE HandInv
  OBVIOUS
<1>1. /\ queue = <<>> /\ http = HttpIdle /\ \A w \in Workers : held[w] = NoJob
      /\ \A j \in Jobs : job[j].status = "none"
  BY DEF Init, NewRow
<1> QED BY <1>1, JobsAssumption DEF HandInv, DownIsIdle, ProcessedOnce, HandRows,
           Queued, Held, HandlerRow, HttpIdle, IntentFirst, Plain

LEMMA NextHand == TypeInv /\ HandInv /\ [Next]_vars => HandInv'
<1>1. ASSUME TypeInv, HandInv, Next PROVE HandInv'
  BY <1>1, StepKinds, UpdatingHand, DecidingHand, DequeueHand, RecordingHand,
     HandlerHand, EnqueueHand, ProcessHand
<1>2. ASSUME HandInv, UNCHANGED vars PROVE HandInv'
  BY <1>2 DEF vars, HandInv, DownIsIdle, ProcessedOnce, HandRows, Queued, Held,
     HandlerRow, InHand, IntentFirst
<1> QED BY <1>1, <1>2

\* No interleaving of workers, handlers, crashes and recoveries processes a
\* job that was never a reservation twice at a time.
THEOREM NeverProcessedTwiceAtOnce == Spec => []ProcessedOnce
<1>1. HandInv => ProcessedOnce
  BY DEF HandInv
<1> QED BY <1>1, TypeInvariant, InitHand, NextHand, PTL DEF Spec

LEMMA HandInvariant == Spec => []HandInv
BY TypeInvariant, InitHand, NextHand, PTL DEF Spec
-----------------------------------------------------------------------------
(* A success in the rows has happened on the chains.  What a worker is      *)
(* about to write rests on what it, or an earlier owner of the job, has     *)
(* seen confirmed; a confirmed transaction stays confirmed.                 *)

RowHolds(j, row) ==
    /\ row.mintTx => mint[j] = "yes"
    /\ row.doneTx => mint[j] = "yes" /\ exec[j] = "yes"
    /\ row.status \in Completed \union {"trading"} => mint[j] = "yes"
    /\ row.status \in Completed /\ j \in ArcJobs \union TradeJobs => exec[j] = "yes"

StepHolds(j, step, row) ==
    /\ step \in {"record_mint", "close", "trade", "record_trade",
                 "intent", "finalize", "record_finalize"} => mint[j] = "yes"
    /\ step \in {"record_trade", "record_finalize"} => exec[j] = "yes"
    /\ step = "close" => j \notin ArcJobs \union TradeJobs
    /\ step \in {"preserve", "preserve_error"} => row.doneTx

LEMMA CheckedArePlain ==
    Checked \subseteq Plain /\ Plain \subseteq Jobs /\ NoJob \notin Plain
BY JobsAssumption DEF Checked, Plain

RowsTrue == \A j \in Checked : RowHolds(j, job[j])
StepsTrue ==
    \A w \in Workers : held[w] \in Checked => StepHolds(held[w], pc[w], job[held[w]])
SeenTrue ==
    \A w \in Workers : held[w] \in Checked /\ sawMint[w] => mint[held[w]] = "yes"

ChainInv == RowsTrue /\ StepsTrue /\ SeenTrue

\* Nothing confirmed is undone, by any step.
Landed == \A k \in Jobs : /\ mint[k] = "yes" => mint'[k] = "yes"
                          /\ exec[k] = "yes" => exec'[k] = "yes"

\* Steps of handlers, chains and the process: workers keep their job or lose
\* it, and a row changes only while nobody holds it, never to a success.
LEMMA ChainKept ==
    ASSUME TypeInv, ChainInv, Landed,
           \A v \in Workers : \/ held'[v] = NoJob
                              \/ /\ held'[v] = held[v] /\ pc'[v] = pc[v]
                                 /\ sawMint'[v] = sawMint[v],
           \A k \in Checked : \/ job'[k] = job[k]
                              \/ /\ ~Held(k)
                                 /\ job'[k].mintTx => job[k].mintTx
                                 /\ job'[k].doneTx => job[k].doneTx
                                 /\ job'[k].status \in {"pending", "failed"}
    PROVE  ChainInv'
<1> USE DEF ChainInv
<1>1. Checked \subseteq Plain /\ Checked \subseteq Jobs /\ NoJob \notin Checked
  BY CheckedArePlain
<1>2. RowsTrue'
  BY <1>1 DEF RowsTrue, RowHolds, Landed, Completed
<1>3. StepsTrue'
  BY <1>1 DEF StepsTrue, StepHolds, Landed, Held
<1>4. SeenTrue'
  BY <1>1 DEF SeenTrue, Landed
<1> QED BY <1>2, <1>3, <1>4

\* A step of one worker on the job it holds.
LEMMA WorkerKept ==
    ASSUME TypeInv, HandInv, ChainInv, Landed, NEW w \in Workers, NEW j \in Jobs,
           NEW step, held[w] = j, Goto(w, step), UNCHANGED sawMint,
           \A k \in Jobs : k # j => job'[k] = job[k],
           j \in Checked => RowHolds(j, job[j])' /\ StepHolds(j, step, job[j])'
    PROVE  ChainInv'
<1> USE DEF ChainInv
<1>1. Checked \subseteq Plain /\ Checked \subseteq Jobs /\ NoJob \notin Checked
  BY CheckedArePlain
<1>2. \A v \in Workers : v # w => pc'[v] = pc[v] /\ held'[v] = held[v]
  BY DEF Goto, TypeInv, TypeOK
<1>3. held'[w] = NoJob \/ (held'[w] = j /\ pc'[w] = step)
  BY DEF Goto, TypeInv, TypeOK
<1>4. \A v \in Workers : v # w /\ held[v] \in Checked => held[v] # j
  BY <1>1 DEF HandInv, ProcessedOnce, Plain
<1>5. RowsTrue'
  <2> SUFFICES ASSUME NEW k \in Checked PROVE RowHolds(k, job[k])'
    BY DEF RowsTrue
  <2>1. CASE k = j
    BY <2>1 DEF RowHolds
  <2>2. CASE k # j
    BY <1>1, <2>2 DEF RowsTrue, RowHolds, Landed
  <2> QED BY <2>1, <2>2
<1>6. StepsTrue'
  <2> SUFFICES ASSUME NEW v \in Workers, held'[v] \in Checked
               PROVE  StepHolds(held[v], pc[v], job[held[v]])'
    BY DEF StepsTrue
  <2>1. CASE v = w
    BY <1>1, <1>3, <2>1 DEF StepHolds
  <2>2. CASE v # w
    BY <1>1, <1>2, <1>4, <2>2 DEF StepsTrue, StepHolds, Landed
  <2> QED BY <2>1, <2>2
<1>7. SeenTrue'
  BY <1>1, <1>2, <1>3 DEF SeenTrue, Landed
<1> QED BY <1>5, <1>6, <1>7

\* One _update_job that writes a true row and goes on to a justified step.
LEMMA UpdateKept ==
    ASSUME TypeInv, HandInv, ChainInv, NEW w \in Workers, NEW j \in Jobs, held[w] = j,
           NEW row, NEW next, NEW onError \in {"idle", "error"},
           UpdateJob(w, row, next, onError), UNCHANGED <<sawMint, mint, exec>>,
           j \in Checked => RowHolds(j, row) /\ StepHolds(j, next, row)
    PROVE  ChainInv'
<1>1. Landed
  BY DEF Landed
<1>2. \/ Goto(w, next) /\ job' = [job EXCEPT ![j] = row]
      \/ Goto(w, onError) /\ (job' = job \/ job' = [job EXCEPT ![j] = row])
  BY DEF UpdateJob, FaultyUpdate
<1>3. /\ \A k \in Jobs : k # j => job'[k] = job[k]
      /\ job'[j] = row \/ job'[j] = job[j]
      /\ job' = [job EXCEPT ![j] = row] => job'[j] = row
  BY <1>2 DEF TypeInv, TypeOK
<1>4. j \in Checked => RowHolds(j, job[j])'
  BY <1>3 DEF ChainInv, RowsTrue, RowHolds
<1>5. CASE Goto(w, next) /\ job' = [job EXCEPT ![j] = row]
  <2>1. j \in Checked => StepHolds(j, next, job[j])'
    BY <1>3, <1>5 DEF StepHolds
  <2> QED BY <1>1, <1>3, <1>4, <1>5, <2>1, WorkerKept
<1>6. CASE Goto(w, onError)
  <2>1. StepHolds(j, onError, job[j])'
    BY DEF StepHolds
  <2> QED BY <1>1, <1>3, <1>4, <1>6, <2>1, WorkerKept
<1> QED BY <1>2, <1>5, <1>6

\* Where a worker goes after the mint is justified by the mint.
LEMMA AfterMintHolds ==
    ASSUME NEW j, mint[j] = "yes", NEW row
    PROVE  StepHolds(j, AfterMint(j), row)
BY DEF StepHolds, AfterMint

LEMMA UpdatingChain ==
    ASSUME TypeInv, HandInv, ChainInv, NEW w \in Workers, Updating(w)
    PROVE  ChainInv'
<1> DEFINE j == held[w]
<1>1. /\ j \in Jobs
      /\ UNCHANGED <<sawMint, mint, exec>>
  BY UpdatingUpdates DEF chainVars
<1>2. /\ job[j] \in JobRow
      /\ j \in Checked => /\ RowHolds(j, job[j])
                          /\ StepHolds(j, pc[w], job[j])
                          /\ sawMint[w] => mint[j] = "yes"
  BY <1>1 DEF ChainInv, RowsTrue, StepsTrue, SeenTrue, TypeInv, TypeOK
<1> HIDE DEF j
<1>3. CASE Attest(w)
  <2> DEFINE row == [job[j] EXCEPT !.status = "attesting"]
  <2>1. j \in Checked => RowHolds(j, row) /\ StepHolds(j, "poll", row)
    BY <1>2 DEF RowHolds, StepHolds, Completed, JobRow
  <2>2. UpdateJob(w, row, "poll", "error")
    BY <1>3 DEF Attest, j
  <2> HIDE DEF row
  <2> QED BY <1>1, <2>1, <2>2, UpdateKept DEF j
<1>4. CASE StoreAttestation(w)
  <2> DEFINE row == [job[j] EXCEPT !.status = "minting", !.att = TRUE]
             next == IF j \in ArcJobs /\ sawMint[w] THEN "intent" ELSE "mint"
  <2>1. j \in Checked => RowHolds(j, row) /\ StepHolds(j, next, row)
    BY <1>2 DEF RowHolds, StepHolds, Completed, JobRow
  <2>2. UpdateJob(w, row, next, "error")
    BY <1>4 DEF StoreAttestation, j
  <2> HIDE DEF row, next
  <2> QED BY <1>1, <2>1, <2>2, UpdateKept DEF j
<1>5. CASE RecordMint(w)
  <2> DEFINE row == [job[j] EXCEPT !.status = "trading", !.mintTx = TRUE]
             next == AfterMint(j)
  <2>1. j \in Checked => RowHolds(j, row) /\ mint[j] = "yes"
    BY <1>2, <1>5 DEF RowHolds, StepHolds, Completed, JobRow, RecordMint
  <2>2. UpdateJob(w, row, next, "error")
    BY <1>5 DEF RecordMint, j
  <2> HIDE DEF row
  <2>3. j \in Checked => RowHolds(j, row) /\ StepHolds(j, next, row)
    BY <2>1, AfterMintHolds
  <2> HIDE DEF next
  <2> QED BY <1>1, <2>2, <2>3, UpdateKept DEF j
<1>6. CASE CloseMintOnly(w)
  <2> DEFINE row == [job[j] EXCEPT !.status = "mint_completed"]
  <2>1. j \in Checked => RowHolds(j, row) /\ StepHolds(j, "idle", row)
    BY <1>2, <1>6 DEF RowHolds, StepHolds, Completed, JobRow, CloseMintOnly
  <2>2. UpdateJob(w, row, "idle", "error")
    BY <1>6 DEF CloseMintOnly, j
  <2> HIDE DEF row
  <2> QED BY <1>1, <2>1, <2>2, UpdateKept DEF j
<1>7. CASE RecordTrade(w)
  <2> DEFINE row == [job[j] EXCEPT !.status = "completed", !.doneTx = TRUE]
  <2>1. j \in Checked => RowHolds(j, row) /\ StepHolds(j, "idle", row)
    BY <1>2, <1>7 DEF RowHolds, StepHolds, Completed, JobRow, RecordTrade
  <2>2. UpdateJob(w, row, "idle", "error")
    BY <1>7 DEF RecordTrade, j
  <2> HIDE DEF row
  <2> QED BY <1>1, <2>1, <2>2, UpdateKept DEF j
<1>8. CASE RecordFinalize(w) \/ PreserveFinalize(w)
  <2> DEFINE row == [job[j] EXCEPT !.status = "mint_completed", !.doneTx = TRUE]
  <2>1. j \in Checked => RowHolds(j, row) /\ StepHolds(j, "idle", row)
    BY <1>2, <1>8 DEF RowHolds, StepHolds, Completed, JobRow, RecordFinalize, PreserveFinalize
  <2>2. UpdateJob(w, row, "idle", "error") \/ UpdateJob(w, row, "idle", "idle")
    BY <1>8 DEF RecordFinalize, PreserveFinalize, j
  <2> HIDE DEF row
  <2> QED BY <1>1, <2>1, <2>2, UpdateKept DEF j
<1>9. CASE MarkFailed(w)
  <2> DEFINE row == [job[j] EXCEPT !.status =
                        IF pc[w] = "fail" THEN "failed" ELSE "mint_completed_trade_failed"]
  <2>1. j \in Checked => RowHolds(j, row) /\ StepHolds(j, "idle", row)
    BY <1>2 DEF RowHolds, StepHolds, Completed, JobRow
  <2>2. UpdateJob(w, row, "idle", "idle")
    BY <1>9 DEF MarkFailed, j
  <2> HIDE DEF row
  <2> QED BY <1>1, <2>1, <2>2, UpdateKept DEF j
<1> QED BY <1>3, <1>4, <1>5, <1>6, <1>7, <1>8, <1>9 DEF Updating

LEMMA DecidingChain ==
    ASSUME TypeInv, HandInv, ChainInv, NEW w \in Workers, Deciding(w)
    PROVE  ChainInv'
<1> PICK j \in Jobs : held[w] = j
  BY DEF TypeInv, TypeOK, Busy, Deciding, PollAttestation, ReceiveMessage,
     SubmitTrade, FetchIntent, Finalize, HandleError
<1>1. UNCHANGED <<job, sawMint>>
  BY DEF Deciding, PollAttestation, ReceiveMessage, SubmitTrade, FetchIntent,
     Finalize, HandleError, rows
<1>2. Landed
  BY DEF Landed, TypeInv, TypeOK, Deciding, PollAttestation, ReceiveMessage, SubmitTrade,
     FetchIntent, Finalize, HandleError, Confirmed, TimedOut, ConfirmedThoughFailed, chainVars
<1>3. j \in Checked => RowHolds(j, job[j])'
  BY <1>1, <1>2 DEF ChainInv, RowsTrue, RowHolds, Landed
<1>4. j \in Checked => StepHolds(j, pc[w], job[j])
  BY DEF ChainInv, StepsTrue
<1>5. ASSUME NEW step, Goto(w, step),
             j \in Checked => StepHolds(j, step, job[j])'
      PROVE  ChainInv'
  BY <1>1, <1>2, <1>3, <1>5, WorkerKept
<1>6. ASSUME NEW step \in {"store", "error", "idle", "fail", "fail_trade"}, Goto(w, step)
      PROVE  ChainInv'
  BY <1>5, <1>6 DEF StepHolds
<1>7. ASSUME NEW step \in {"record_mint", "trade", "finalize"}, Goto(w, step),
             j \in Checked => mint'[j] = "yes"
      PROVE  ChainInv'
  BY <1>5, <1>7 DEF StepHolds
<1>8. ASSUME NEW step \in {"record_trade", "record_finalize"}, Goto(w, step),
             j \in Checked => mint'[j] = "yes" /\ exec'[j] = "yes"
      PROVE  ChainInv'
  BY <1>5, <1>8 DEF StepHolds
<1>9. CASE PollAttestation(w)
  BY <1>6, <1>9 DEF PollAttestation
<1>10. CASE ReceiveMessage(w)
  <2>1. \/ Goto(w, "error")
        \/ Goto(w, "record_mint") /\ (j \in Checked => mint'[j] = "yes")
    BY <1>10 DEF ReceiveMessage, Confirmed, ConfirmedThoughFailed, Checked, TypeInv, TypeOK
  <2> QED BY <1>6, <1>7, <2>1
<1>11. CASE SubmitTrade(w)
  <2>1. j \in Checked => mint'[j] = "yes"
    BY <1>4, <1>11 DEF SubmitTrade, StepHolds
  <2>2. \/ Goto(w, "error") \/ Goto(w, "trade")
        \/ Goto(w, "record_trade") /\ (j \in Checked => exec'[j] = "yes")
    BY <1>11 DEF SubmitTrade, Confirmed, ConfirmedThoughFailed, Checked, TypeInv, TypeOK
  <2> QED BY <1>6, <1>7, <1>8, <2>1, <2>2
<1>12. CASE FetchIntent(w)
  <2>1. j \in Checked => mint'[j] = "yes"
    BY <1>4, <1>12 DEF FetchIntent, StepHolds, chainVars
  <2>2. Goto(w, "error") \/ Goto(w, "finalize")
    BY <1>12 DEF FetchIntent
  <2> QED BY <1>6, <1>7, <2>1, <2>2
<1>13. CASE Finalize(w)
  <2>1. j \in Checked => mint'[j] = "yes"
    BY <1>4, <1>13 DEF Finalize, StepHolds
  <2>2. Goto(w, "error") \/ (Goto(w, "record_finalize") /\ exec'[j] = "yes")
    BY <1>13 DEF Finalize, Confirmed, TypeInv, TypeOK
  <2> QED BY <1>6, <1>8, <2>1, <2>2
<1>14. CASE HandleError(w)
  <2>1. CASE Goto(w, "preserve_error") /\ job[j].doneTx
    BY <1>1, <1>5, <2>1 DEF StepHolds
  <2>2. CASE \E step \in {"error", "idle", "fail", "fail_trade"} : Goto(w, step)
    BY <1>6, <2>2
  <2> QED BY <1>14, <2>1, <2>2 DEF HandleError, ErrorStep
<1> QED BY <1>9, <1>10, <1>11, <1>12, <1>13, <1>14 DEF Deciding

\* A worker resumes a job where its row, an active one, says it may.
LEMMA FirstStepHolds ==
    ASSUME NEW j, RowHolds(j, job[j]), job[j].status \in Active
    PROVE  StepHolds(j, FirstStep(j), job[j])
BY AfterMintHolds DEF FirstStep, RowHolds, StepHolds, Active

LEMMA DequeueChain ==
    ASSUME TypeInv, HandInv, ChainInv, NEW w \in Workers, Dequeue(w)
    PROVE  ChainInv'
<1> DEFINE h == Head(queue)
<1> USE DEF ChainInv
<1>1. /\ h \in Jobs /\ Queued(h) /\ UNCHANGED <<job, mint, exec>>
      /\ Checked \subseteq Plain /\ Checked \subseteq Jobs /\ NoJob \notin Checked
  BY CheckedArePlain DEF Dequeue, TypeInv, TypeOK, Queued, chainVars
<1>2. CASE UNCHANGED <<pc, held, sawMint>>
  BY <1>1, <1>2 DEF RowsTrue, RowHolds, StepsTrue, StepHolds, SeenTrue
<1>3. CASE /\ pc' = [pc EXCEPT ![w] = FirstStep(h)]
           /\ held' = [held EXCEPT ![w] = IF FirstStep(h) = "idle" THEN NoJob ELSE h]
           /\ sawMint' = [sawMint EXCEPT ![w] = job[h].mintTx]
  <2>1. /\ \A v \in Workers : v # w => /\ pc'[v] = pc[v] /\ held'[v] = held[v]
                                       /\ sawMint'[v] = sawMint[v]
        /\ pc'[w] = FirstStep(h) /\ sawMint'[w] = job[h].mintTx
        /\ held'[w] \in {h, NoJob}
    BY <1>3 DEF TypeInv, TypeOK
  <2>2. h \in Checked => RowHolds(h, job[h]) /\ StepHolds(h, FirstStep(h), job[h])
    BY <1>1, FirstStepHolds DEF HandInv, HandRows, RowsTrue
  <2>3. RowsTrue'
    BY <1>1 DEF RowsTrue, RowHolds
  <2>4. StepsTrue'
    <3> SUFFICES ASSUME NEW v \in Workers, held'[v] \in Checked
                 PROVE  StepHolds(held[v], pc[v], job[held[v]])'
      BY DEF StepsTrue
    <3>1. CASE v = w
      BY <1>1, <2>1, <2>2, <3>1 DEF StepHolds
    <3>2. CASE v # w
      BY <1>1, <2>1, <3>2 DEF StepsTrue, StepHolds
    <3> QED BY <3>1, <3>2
  <2>5. SeenTrue'
    BY <1>1, <2>1, <2>2 DEF SeenTrue, RowHolds
  <2> QED BY <2>3, <2>4, <2>5
<1> QED BY <1>2, <1>3 DEF Dequeue

\* A handler writes no row that a worker holds.
LEMMA RecordedNotHeld ==
    ASSUME HandInv, NEW j \in Plain, Recording(j)
    PROVE  ~Held(j)
<1>1. CASE CreateBridgeJob(j) \/ ReserveBurn(j)
  BY <1>1 DEF CreateBridgeJob, ReserveBurn, Unseen, HandInv, HandRows
<1>2. CASE ReserveBridgeJob(j) \/ FinalizeReservation(j)
  BY <1>2 DEF ReserveBridgeJob, FinalizeReservation, Plain
<1>3. CASE http.job = j /\ (FinishBurn \/ FailBurn)
  BY <1>3 DEF FinishBurn, FailBurn, HttpAt, HandInv, HandlerRow, InHand, Held
<1>4. CASE http.job = j /\ InsertIntentJob
  BY <1>4 DEF InsertIntentJob, HttpAt, HandInv, HandlerRow, HandRows
<1> QED BY <1>1, <1>2, <1>3, <1>4 DEF Recording

LEMMA RecordingChain ==
    ASSUME TypeInv, HandInv, ChainInv, NEW j \in Jobs, Recording(j)
    PROVE  ChainInv'
<1>1. UNCHANGED <<pc, held, sawMint, mint, exec>>
  BY DEF Recording, CreateBridgeJob, ReserveBridgeJob, FinalizeReservation,
     ReserveBurn, FinishBurn, FailBurn, InsertIntentJob, workerVars, chainVars
<1>2. \A k \in Jobs : k # j => job'[k] = job[k]
  BY DEF Recording, CreateBridgeJob, ReserveBridgeJob, FinalizeReservation, ReserveBurn,
     FinishBurn, FailBurn, InsertIntentJob, HttpWrite, FaultyUpdate, TypeInv, TypeOK
<1>3. j \in Checked => ~Held(j)
  BY RecordedNotHeld, CheckedArePlain
<1>4. \/ job'[j] = job[j]
      \/ /\ job'[j].mintTx => job[j].mintTx
         /\ job'[j].doneTx => job[j].doneTx
         /\ job'[j].status \in {"pending", "failed"}
  <2>1. job[j] \in JobRow /\ \A row : [job EXCEPT ![j] = row][j] = row
    BY DEF TypeInv, TypeOK
  <2>2. ASSUME NEW row, job' = job \/ job' = [job EXCEPT ![j] = row],
               /\ row.mintTx => job[j].mintTx
               /\ row.doneTx => job[j].doneTx
               /\ row.status \in {"pending", "failed"}
        PROVE  \/ job'[j] = job[j]
               \/ /\ job'[j].mintTx => job[j].mintTx
                  /\ job'[j].doneTx => job[j].doneTx
                  /\ job'[j].status \in {"pending", "failed"}
    BY <2>1, <2>2
  <2>3. CASE CreateBridgeJob(j) \/ (http.job = j /\ InsertIntentJob)
    <3>1. job' = job \/ job' = [job EXCEPT ![j] = NewRow(FALSE)]
      BY <2>3 DEF CreateBridgeJob, InsertIntentJob, HttpWrite, FaultyUpdate, NewRow
    <3>2. job'[j] = job[j] \/ job'[j] = NewRow(FALSE)
      BY <2>1, <3>1 DEF NewRow
    <3> QED BY <3>2 DEF NewRow
  <2>4. CASE ReserveBridgeJob(j) \/ ReserveBurn(j)
    <3>1. job' = job \/ job' = [job EXCEPT ![j] = NewRow(TRUE)]
      BY <2>4 DEF ReserveBridgeJob, ReserveBurn, HttpWrite, FaultyUpdate, NewRow
    <3>2. job'[j] = job[j] \/ job'[j] = NewRow(TRUE)
      BY <2>1, <3>1 DEF NewRow
    <3> QED BY <3>2 DEF NewRow
  <2>5. CASE FinalizeReservation(j)
    <3> DEFINE row == [job[j] EXCEPT !.reserved = FALSE]
    <3>1. job' = job \/ job' = [job EXCEPT ![j] = row]
      BY <2>5 DEF FinalizeReservation, HttpWrite, FaultyUpdate
    <3>2. /\ row.mintTx => job[j].mintTx
          /\ row.doneTx => job[j].doneTx
          /\ row.status \in {"pending", "failed"}
      BY <2>1, <2>5 DEF FinalizeReservation, JobRow
    <3> QED BY <2>2, <3>1, <3>2
  <2>6. CASE http.job = j /\ FinishBurn
    <3> DEFINE row == [job[j] EXCEPT !.reserved = FALSE, !.status = "pending"]
    <3>1. job' = job \/ job' = [job EXCEPT ![j] = row]
      BY <2>6 DEF FinishBurn, HttpWrite, FaultyUpdate
    <3>2. /\ row.mintTx => job[j].mintTx
          /\ row.doneTx => job[j].doneTx
          /\ row.status \in {"pending", "failed"}
      BY <2>1 DEF JobRow
    <3> QED BY <2>2, <3>1, <3>2
  <2>7. CASE http.job = j /\ FailBurn
    <3> DEFINE row == [job[j] EXCEPT !.status = "failed"]
    <3>1. job' = job \/ job' = [job EXCEPT ![j] = row]
      BY <2>7 DEF FailBurn, HttpWrite, FaultyUpdate
    <3>2. /\ row.mintTx => job[j].mintTx
          /\ row.doneTx => job[j].doneTx
          /\ row.status \in {"pending", "failed"}
      BY <2>1 DEF JobRow
    <3> QED BY <2>2, <3>1, <3>2
  <2> QED BY <2>3, <2>4, <2>5, <2>6, <2>7 DEF Recording
<1> QED BY <1>1, <1>2, <1>3, <1>4, ChainKept, CheckedArePlain DEF Landed

LEMMA OtherChain ==
    ASSUME TypeInv, HandInv, ChainInv,
           \/ (\E j \in Jobs : InsertIntent(j)) \/ BroadcastBurn \/ EnqueueJob \/ LinkIntent
           \/ Crash \/ Restart \/ (\E j \in Jobs : Chain(j))
    PROVE  ChainInv'
<1>1. UNCHANGED job
  BY DEF InsertIntent, BroadcastBurn, EnqueueJob, LinkIntent, Crash, Restart, Chain,
     UserBurn, LandBurn, LandMint, LandExec, rows
<1>2. Landed
  BY DEF Landed, TypeInv, TypeOK, InsertIntent, BroadcastBurn, EnqueueJob, LinkIntent, Crash,
     Restart, Chain, UserBurn, LandBurn, LandMint, LandExec, chainVars
<1>3. \A v \in Workers : \/ held'[v] = NoJob
                         \/ /\ held'[v] = held[v] /\ pc'[v] = pc[v]
                            /\ sawMint'[v] = sawMint[v]
  BY DEF InsertIntent, BroadcastBurn, EnqueueJob, LinkIntent, Crash, Restart, Chain,
     UserBurn, LandBurn, LandMint, LandExec, workerVars
<1> QED BY <1>1, <1>2, <1>3, ChainKept

LEMMA InitChain == Init => ChainInv
BY JobsAssumption DEF Init, ChainInv, RowsTrue, RowHolds, StepsTrue, SeenTrue, NewRow,
   Completed, Checked

LEMMA NextChain == TypeInv /\ HandInv /\ ChainInv /\ [Next]_vars => ChainInv'
<1>1. ASSUME TypeInv, HandInv, ChainInv, Next PROVE ChainInv'
  BY <1>1, StepKinds, UpdatingChain, DecidingChain, DequeueChain, RecordingChain, OtherChain
<1>2. ASSUME ChainInv, UNCHANGED vars PROVE ChainInv'
  BY <1>2 DEF vars, ChainInv, RowsTrue, RowHolds, StepsTrue, StepHolds, SeenTrue
<1> QED BY <1>1, <1>2

\* A row in trading of a job that ends on Base or Arc has its USDC minted, and a
\* completed one has, on top, its trade or its Arc finalisation executed, whatever
\* failed or crashed before.
THEOREM SuccessIsDelivered == Spec => []SuccessMeansDelivered
<1>1. ChainInv => SuccessMeansDelivered
  BY DEF ChainInv, RowsTrue, RowHolds, SuccessMeansDelivered, Checked
<1> QED BY <1>1, TypeInvariant, HandInvariant, InitChain, NextChain, PTL DEF Spec
-----------------------------------------------------------------------------
(* A quote's burn is broadcast once: what is not yet a row has not been     *)
(* broadcast, and a row never disappears.                                   *)

BurnInv ==
    /\ \A j \in SubmitJobs : job[j].status = "none" => burn[j] = "no"
    /\ http.step = "broadcast" => http.job \in SubmitJobs /\ burn[http.job] = "no"

LEMMA InitBurn == Init => BurnInv
BY JobsAssumption DEF Init, BurnInv, HttpIdle

LEMMA BurnKept ==
    ASSUME TypeInv, BurnInv, UNCHANGED burn, http' = http \/ http'.step # "broadcast",
           \A k \in Jobs : job'[k] = job[k] \/ job'[k].status # "none"
    PROVE  BurnInv'
BY JobsAssumption DEF BurnInv

LEMMA RecordingBurn ==
    ASSUME TypeInv, HandInv, BurnInv, NEW j \in Jobs, Recording(j)
    PROVE  BurnInv'
<1>1. UNCHANGED burn
  BY DEF Recording, CreateBridgeJob, ReserveBridgeJob, FinalizeReservation,
     ReserveBurn, FinishBurn, FailBurn, InsertIntentJob, chainVars
<1>2. job[j] \in JobRow /\ \A row : [job EXCEPT ![j] = row][j] = row
  BY DEF TypeInv, TypeOK
<1>3. \A k \in Jobs : job'[k] = job[k] \/ job'[k].status # "none"
  <2>1. \A k \in Jobs : k # j => job'[k] = job[k]
    BY DEF Recording, CreateBridgeJob, ReserveBridgeJob, FinalizeReservation, ReserveBurn,
       FinishBurn, FailBurn, InsertIntentJob, HttpWrite, FaultyUpdate, TypeInv, TypeOK
  <2>2. CASE CreateBridgeJob(j) \/ (http.job = j /\ InsertIntentJob)
    BY <1>2, <2>1, <2>2 DEF CreateBridgeJob, InsertIntentJob, HttpWrite, FaultyUpdate, NewRow
  <2>3. CASE ReserveBridgeJob(j) \/ ReserveBurn(j)
    BY <1>2, <2>1, <2>3 DEF ReserveBridgeJob, ReserveBurn, HttpWrite, FaultyUpdate, NewRow
  <2>4. CASE FinalizeReservation(j)
    <3> DEFINE row == [job[j] EXCEPT !.reserved = FALSE]
    <3>1. row.status = "pending"
      BY <1>2, <2>4 DEF FinalizeReservation, JobRow
    <3>2. job' = job \/ job' = [job EXCEPT ![j] = row]
      BY <2>4 DEF FinalizeReservation, HttpWrite, FaultyUpdate
    <3> QED BY <1>2, <2>1, <3>1, <3>2
  <2>5. CASE http.job = j /\ FinishBurn
    <3> DEFINE row == [job[j] EXCEPT !.reserved = FALSE, !.status = "pending"]
    <3>1. row.status # "none"
      BY <1>2 DEF JobRow
    <3>2. job' = job \/ job' = [job EXCEPT ![j] = row]
      BY <2>5 DEF FinishBurn, HttpWrite, FaultyUpdate
    <3> QED BY <1>2, <2>1, <3>1, <3>2
  <2>6. CASE http.job = j /\ FailBurn
    <3> DEFINE row == [job[j] EXCEPT !.status = "failed"]
    <3>1. row.status # "none"
      BY <1>2 DEF JobRow
    <3>2. job' = job \/ job' = [job EXCEPT ![j] = row]
      BY <2>6 DEF FailBurn, HttpWrite, FaultyUpdate
    <3> QED BY <1>2, <2>1, <3>1, <3>2
  <2> QED BY <2>2, <2>3, <2>4, <2>5, <2>6 DEF Recording
<1>4. CASE http'.step # "broadcast"
  BY <1>1, <1>3, <1>4, BurnKept
<1>5. CASE http'.step = "broadcast"
  <2>1. j \in SubmitJobs /\ job[j].status = "none" /\ http'.job = j
    <3>2. CreateBridgeJob(j) \/ ReserveBridgeJob(j) \/ FinalizeReservation(j)
              => http'.step # "broadcast"
      BY DEF CreateBridgeJob, ReserveBridgeJob, FinalizeReservation, HttpWrite, HttpGoto,
         HttpIdle, FaultyUpdate, NewRow
    <3>3. FinishBurn \/ FailBurn \/ InsertIntentJob => http'.step # "broadcast"
      BY DEF FinishBurn, FailBurn, InsertIntentJob, HttpWrite, HttpGoto,
         HttpIdle, FaultyUpdate, NewRow
    <3>4. ReserveBurn(j) => http'.job = j \/ http'.step = "idle"
      BY DEF ReserveBurn, HttpWrite, HttpGoto,
         HttpIdle, FaultyUpdate, NewRow
    <3> QED BY <1>5, <3>2, <3>3, <3>4 DEF Recording, ReserveBurn, Unseen
  <2> QED BY <1>1, <1>3, <2>1, JobsAssumption DEF BurnInv
<1> QED BY <1>4, <1>5

LEMMA NextBurn == TypeInv /\ HandInv /\ BurnInv /\ [Next]_vars => BurnInv'
<1> SUFFICES ASSUME TypeInv, HandInv, BurnInv, [Next]_vars PROVE BurnInv'
  OBVIOUS
<1>1. ASSUME NEW w \in Workers, Updating(w) PROVE BurnInv'
  <2>1. held[w] \in Jobs /\ UNCHANGED <<http, burn>>
    BY <1>1, UpdatingUpdates DEF chainVars
  <2>2. PICK row \in LiveRow, next \in Steps, onError \in Steps :
            UpdateJob(w, row, next, onError)
    BY <1>1, UpdatingUpdates
  <2>3. \A k \in Jobs : job'[k] = job[k] \/ job'[k].status # "none"
    BY <2>1, <2>2 DEF UpdateJob, FaultyUpdate, LiveRow, TypeInv, TypeOK
  <2> QED BY <2>1, <2>3, BurnKept
<1>2. ASSUME NEW w \in Workers, Deciding(w) \/ Dequeue(w) PROVE BurnInv'
  <2>1. UNCHANGED <<job, http, burn>>
    BY <1>2 DEF Dequeue, Deciding, PollAttestation, ReceiveMessage, SubmitTrade,
       FetchIntent, Finalize, HandleError, rows, chainVars
  <2> QED BY <2>1, BurnKept
<1>3. ASSUME BroadcastBurn PROVE BurnInv'
  <2> DEFINE j == http.job
  <2>1. j \in SubmitJobs /\ job[j].status = "pending" /\ job' = job
    BY <1>3, JobsAssumption DEF BroadcastBurn, HttpAt, BurnInv, HandInv, HandlerRow, Plain, rows
  <2>2. \A k \in Jobs : k # j => burn'[k] = burn[k]
    BY <1>3 DEF BroadcastBurn, Confirmed, TimedOut, TypeInv, TypeOK
  <2>3. http'.step # "broadcast"
    BY <1>3 DEF BroadcastBurn, HttpGoto
  <2> QED BY <2>1, <2>2, <2>3, JobsAssumption DEF BurnInv
<1>4. ASSUME NEW k \in Jobs, Chain(k) PROVE BurnInv'
  <2>1. UNCHANGED <<job, http>>
    BY <1>4 DEF Chain, UserBurn, LandBurn, LandMint, LandExec, rows
  <2>2. \A j \in SubmitJobs : burn[j] = "no" => burn'[j] = "no"
    BY <1>4, JobsAssumption DEF Chain, UserBurn, LandBurn, LandMint, LandExec, TypeInv, TypeOK
  <2> QED BY <2>1, <2>2 DEF BurnInv
<1>5. ASSUME (\E j \in Jobs : InsertIntent(j)) \/ EnqueueJob \/ LinkIntent
      PROVE  BurnInv'
  <2>1. UNCHANGED <<job, burn>> /\ http'.step # "broadcast"
    BY <1>5 DEF InsertIntent, EnqueueJob, LinkIntent, HttpGoto, HttpIdle, rows, chainVars
  <2> QED BY <2>1, BurnKept
<1>6. ASSUME Crash \/ Restart PROVE BurnInv'
  <2>1. UNCHANGED <<job, burn>> /\ (http' = http \/ http'.step # "broadcast")
    BY <1>6 DEF Crash, Restart, HttpIdle, rows, chainVars
  <2> QED BY <2>1, BurnKept
<1>7. CASE Next
  BY <1>1, <1>2, <1>3, <1>4, <1>5, <1>6, <1>7, StepKinds, RecordingBurn
<1>8. CASE UNCHANGED vars
  BY <1>8 DEF vars, BurnInv
<1> QED BY <1>7, <1>8

\* No second signed burn of a quote is ever broadcast, for any number of
\* requests, lost responses and crashes.
THEOREM BurnIsBroadcastOnce == Spec => BurnBroadcastOnce
<1>1. BurnInv => (BroadcastBurn => burn[http.job] = "no")
  BY DEF BurnInv, BroadcastBurn, HttpAt
<1> QED BY <1>1, TypeInvariant, HandInvariant, InitBurn, NextBurn, PTL
        DEF Spec, BurnBroadcastOnce
-----------------------------------------------------------------------------
(* The relayer implements BridgeTransfer.  A transfer in a worker's hands    *)
(* is open, except for one case: an Arc success whose write was in doubt.    *)

FollowUps == ArcJobs \union TradeJobs

\* Nothing is sent for a job without a row, or ahead of its mint.
SentFor(j) ==
    /\ mint[j] # "no" => job[j].status # "none"
    /\ exec[j] # "no" => mint[j] = "yes" /\ j \in FollowUps

\* An Arc success of which the relayer is in doubt, and looks up again.
Doubted(j, row) == j \in ArcJobs /\ row.doneTx /\ row.status \in Completed

WorkOn(j, step, row) ==
    /\ row.status \in Active \/ (step \in {"error", "preserve_error"} /\ Doubted(j, row))
    /\ step \in {"trade", "record_trade"} => j \in TradeJobs
    /\ step \in {"intent", "finalize", "record_finalize", "preserve", "preserve_error"}
           => j \in ArcJobs

PromiseInv ==
    /\ \A j \in Transfers : SentFor(j)
    /\ \A w \in Workers : held[w] \in Transfers => WorkOn(held[w], pc[w], job[held[w]])

\* What the abstract specification lets happen to the row of a transfer.
RowMoves(j) ==
    LET from == job[j].status
        to == job'[j].status
    IN  \/ from = to
        \/ from = "none" /\ to \in Active
        \/ from \in Active /\ to \in Active \union GivenUp
        \/ from \in Active /\ to \in Completed /\ mint[j] = "yes"
                           /\ (j \in FollowUps => exec[j] = "yes")
        \/ from \in Completed /\ to \in Completed

LEMMA TransfersArePlain == /\ Transfers \subseteq Plain /\ Transfers \subseteq Checked
                           /\ Plain \subseteq Jobs /\ NoJob \notin Transfers
BY CheckedArePlain DEF Transfers


LEMMA VerdictOfRow ==
    ASSUME NEW status
    PROVE  /\ Verdict(status) = "none" <=> status = "none"
           /\ Verdict(status) = "open" <=> status \in Active
           /\ status \in Completed => Verdict(status) = "succeeded"
           /\ status \in GivenUp => Verdict(status) = "failed"
BY DEF Verdict, Active, Completed, GivenUp

\* A step that at most moves the row of one job on is a step of the promise.
LEMMA RowStep ==
    ASSUME NEW j \in Jobs, UNCHANGED <<mint, exec>>,
           \A k \in Transfers : k # j => job'[k] = job[k],
           j \in Transfers => RowMoves(j)
    PROVE  [Transfer!Next]_Transfer!tvars
<1> DEFINE from == job[j].status
           to == job'[j].status
           verdicts == [k \in Transfers |-> Verdict(job[k].status)]
<1>1. UNCHANGED <<[k \in Transfers |-> mint[k] = "yes"], [k \in Transfers |-> exec[k] = "yes"]>>
  OBVIOUS
<1>2. j \notin Transfers => verdicts' = verdicts
  OBVIOUS
<1>3. CASE verdicts' = verdicts
  BY <1>1, <1>3 DEF Transfer!tvars
<1>4. CASE j \in Transfers /\ verdicts' # verdicts
  <2>1. verdicts' = [verdicts EXCEPT ![j] = Verdict(to)]
    BY <1>4
  <2>2. verdicts[j] = Verdict(from) /\ Verdict(from) # Verdict(to)
    BY <1>4, <2>1
  <2>3. CASE from = "none" /\ to \in Active
    <3>1. verdicts[j] = "none" /\ Verdict(to) = "open"
      BY <2>2, <2>3, VerdictOfRow
    <3>2. Transfer!Open(j)
      BY <1>1, <2>1, <3>1 DEF Transfer!Open
    <3> QED BY <1>4, <3>2 DEF Transfer!Next
  <2>4. CASE from \in Active /\ to \in GivenUp
    <3>1. verdicts[j] = "open" /\ Verdict(to) = "failed"
      BY <2>2, <2>4, VerdictOfRow
    <3>2. Transfer!GiveUp(j)
      BY <1>1, <2>1, <3>1 DEF Transfer!GiveUp
    <3> QED BY <1>4, <3>2 DEF Transfer!Next
  <2>5. CASE /\ from \in Active /\ to \in Completed /\ mint[j] = "yes"
             /\ j \in FollowUps => exec[j] = "yes"
    <3>1. verdicts[j] = "open" /\ Verdict(to) = "succeeded"
      BY <2>2, <2>5, VerdictOfRow
    <3>2. Transfer!Succeed(j)
      BY <1>1, <1>4, <2>1, <2>5, <3>1 DEF Transfer!Succeed, FollowUps
    <3> QED BY <1>4, <3>2 DEF Transfer!Next
  <2>6. from = to \/ (from \in Active /\ to \in Active)
          \/ (from \in Completed /\ to \in Completed) => FALSE
    BY <2>2, VerdictOfRow
  <2> QED BY <1>4, <2>3, <2>4, <2>5, <2>6 DEF RowMoves
<1> QED BY <1>2, <1>3, <1>4

\* A mint that lands, for a transfer with a row, is a step of the promise.
LEMMA MintStep ==
    ASSUME TypeInv, NEW j \in Jobs, UNCHANGED <<job, exec>>,
           UNCHANGED mint \/ Confirmed(mint, j) \/ TimedOut(mint, j),
           j \in Transfers => job[j].status # "none"
    PROVE  [Transfer!Next]_Transfer!tvars
<1> DEFINE minted == [k \in Transfers |-> mint[k] = "yes"]
<1>1. UNCHANGED <<[k \in Transfers |-> Verdict(job[k].status)],
                  [k \in Transfers |-> exec[k] = "yes"]>>
  OBVIOUS
<1>2. mint \in [Jobs -> Landing] /\ Transfers \subseteq Jobs
  BY TransfersArePlain DEF TypeInv, TypeOK
<1>3. minted' = minted \/ (j \in Transfers /\ minted' = [minted EXCEPT ![j] = TRUE])
  BY <1>2 DEF Confirmed, TimedOut
<1>4. CASE minted' = minted
  BY <1>1, <1>4 DEF Transfer!tvars
<1>5. CASE j \in Transfers /\ minted' = [minted EXCEPT ![j] = TRUE]
  <2>1. [k \in Transfers |-> Verdict(job[k].status)][j] # "none"
    BY <1>5, VerdictOfRow
  <2>2. Transfer!Mint(j)
    BY <1>1, <1>5, <2>1 DEF Transfer!Mint
  <2> QED BY <1>5, <2>2 DEF Transfer!Next
<1> QED BY <1>3, <1>4, <1>5

\* So is a follow-up that lands against minted funds.
LEMMA ExecStep ==
    ASSUME TypeInv, NEW j \in Jobs, UNCHANGED <<job, mint>>,
           UNCHANGED exec \/ Confirmed(exec, j) \/ TimedOut(exec, j),
           j \in Transfers => mint[j] = "yes" /\ j \in FollowUps
    PROVE  [Transfer!Next]_Transfer!tvars
<1> DEFINE executed == [k \in Transfers |-> exec[k] = "yes"]
<1>1. UNCHANGED <<[k \in Transfers |-> Verdict(job[k].status)],
                  [k \in Transfers |-> mint[k] = "yes"]>>
  OBVIOUS
<1>2. exec \in [Jobs -> Landing] /\ Transfers \subseteq Jobs
  BY TransfersArePlain DEF TypeInv, TypeOK
<1>3. executed' = executed \/ (j \in Transfers /\ executed' = [executed EXCEPT ![j] = TRUE])
  BY <1>2 DEF Confirmed, TimedOut
<1>4. CASE executed' = executed
  BY <1>1, <1>4 DEF Transfer!tvars
<1>5. CASE j \in Transfers /\ executed' = [executed EXCEPT ![j] = TRUE]
  <2>1. Transfer!Execute(j)
    BY <1>1, <1>5 DEF Transfer!Execute, FollowUps
  <2> QED BY <1>5, <2>1 DEF Transfer!Next
<1> QED BY <1>3, <1>4, <1>5

\* Steps of handlers, chains and the process: workers keep their job or lose
\* it, and the row of a held transfer stays as it is.
LEMMA PromiseKept ==
    ASSUME TypeInv, PromiseInv,
           \A v \in Workers : held'[v] = NoJob \/ (held'[v] = held[v] /\ pc'[v] = pc[v]),
           \A k \in Transfers : \/ job'[k] = job[k]
                                \/ ~Held(k) /\ job'[k].status # "none",
           \A k \in Transfers : mint'[k] = mint[k] \/ (mint[k] = "sent" /\ mint'[k] = "yes"),
           \A k \in Transfers : exec'[k] = exec[k] \/ exec[k] = "sent"
    PROVE  PromiseInv'
<1>1. \A k \in Transfers : SentFor(k)'
  BY DEF PromiseInv, SentFor
<1>2. \A v \in Workers : held'[v] \in Transfers => WorkOn(held[v], pc[v], job[held[v]])'
  BY TransfersArePlain DEF PromiseInv, WorkOn, Doubted, Held
<1> QED BY <1>1, <1>2 DEF PromiseInv

\* A step of one worker on the job it holds.
LEMMA PromiseWorker ==
    ASSUME TypeInv, HandInv, PromiseInv, NEW w \in Workers, NEW j \in Jobs, held[w] = j,
           NEW step, Goto(w, step),
           \A k \in Transfers : k # j => UNCHANGED <<job[k], mint[k], exec[k]>>,
           j \in Transfers => SentFor(j)' /\ (step # "idle" => WorkOn(j, step, job[j])')
    PROVE  PromiseInv'
<1>1. \A k \in Transfers : SentFor(k)'
  BY DEF PromiseInv, SentFor
<1>2. ASSUME NEW v \in Workers, held'[v] \in Transfers
      PROVE  WorkOn(held[v], pc[v], job[held[v]])'
  <2>1. CASE v = w
    <3>1. held'[w] = NoJob \/ (held'[w] = j /\ pc'[w] = step /\ step # "idle")
      BY DEF Goto, TypeInv, TypeOK
    <3>2. held'[w] = j /\ pc'[w] = step /\ step # "idle" /\ j \in Transfers
      BY <1>2, <2>1, <3>1, TransfersArePlain
    <3> QED BY <2>1, <3>2 DEF WorkOn, Doubted
  <2>2. CASE v # w
    <3>1. pc'[v] = pc[v] /\ held'[v] = held[v]
      BY <2>2 DEF Goto, TypeInv, TypeOK
    <3>2. held[v] # j
      BY <1>2, <2>2, <3>1, TransfersArePlain DEF HandInv, ProcessedOnce, Plain
    <3> QED BY <1>2, <3>1, <3>2 DEF PromiseInv, WorkOn, Doubted
  <2> QED BY <2>1, <2>2
<1> QED BY <1>1, <1>2 DEF PromiseInv

\* What a worker may write, and where it goes on: the row moves as promised,
\* and a write of which the worker is in doubt leaves the transfer open, or an
\* Arc success recorded.
Promising(j, row, next, onError) ==
    /\ row.status \in JobStates
    /\ next # "idle" => WorkOn(j, next, row)
    /\ onError = "error" => row.status \in Active \/ (j \in ArcJobs => Doubted(j, row))
    /\ onError = "error" => job[j].status \in Active
    /\ onError \in {"idle", "error"}
    /\ \/ job[j].status \in Active /\ row.status \in Active \union GivenUp
       \/ job[j].status \in Active /\ row.status \in Completed /\ mint[j] = "yes"
                                   /\ (j \in FollowUps => exec[j] = "yes")
       \/ job[j].status \in Completed /\ row.status \in Completed

LEMMA PromisingUpdate ==
    ASSUME TypeInv, HandInv, PromiseInv, NEW w \in Workers, NEW j \in Jobs, held[w] = j,
           NEW row, NEW next, NEW onError,
           UpdateJob(w, row, next, onError), UNCHANGED <<mint, exec>>,
           j \in Transfers => Promising(j, row, next, onError)
    PROVE  PromiseInv' /\ [Transfer!Next]_Transfer!tvars
<1>1. \/ Goto(w, next) /\ job' = [job EXCEPT ![j] = row]
      \/ /\ Goto(w, onError)
         /\ job' = job \/ (j \in LossyJobs /\ job' = [job EXCEPT ![j] = row])
  BY DEF UpdateJob, FaultyUpdate
<1>2. /\ \A k \in Transfers : k # j => job'[k] = job[k]
      /\ job'[j] = row \/ job'[j] = job[j]
      /\ job' = [job EXCEPT ![j] = row] => job'[j] = row
  BY <1>1, TransfersArePlain DEF TypeInv, TypeOK
<1>3. "none" \notin JobStates
  BY DEF JobStates, Active, Completed, GivenUp
<1>4. j \in Transfers => SentFor(j)'
  BY <1>2, <1>3 DEF PromiseInv, SentFor, Promising
<1>5. j \in Transfers => RowMoves(j)
  BY <1>2 DEF RowMoves, Promising
<1>6. [Transfer!Next]_Transfer!tvars
  BY <1>2, <1>5, RowStep
<1>7. CASE Goto(w, next) /\ job' = [job EXCEPT ![j] = row]
  <2>1. j \in Transfers /\ next # "idle" => WorkOn(j, next, job[j])'
    BY <1>2, <1>7 DEF Promising, WorkOn, Doubted
  <2> QED BY <1>2, <1>4, <1>6, <1>7, <2>1, PromiseWorker
<1>8. CASE /\ Goto(w, onError)
           /\ job' = job \/ (j \in LossyJobs /\ job' = [job EXCEPT ![j] = row])
  <2>1. j \in Transfers /\ onError # "idle" => WorkOn(j, onError, job[j])'
    BY <1>2, <1>8 DEF Promising, WorkOn, Doubted, Transfers
  <2> QED BY <1>2, <1>4, <1>6, <1>8, <2>1, PromiseWorker
<1> QED BY <1>1, <1>7, <1>8

LEMMA UpdatingPromise ==
    ASSUME TypeInv, HandInv, ChainInv, PromiseInv, NEW w \in Workers, Updating(w)
    PROVE  PromiseInv' /\ [Transfer!Next]_Transfer!tvars
<1> DEFINE j == held[w]
<1>1. j \in Jobs /\ UNCHANGED <<mint, exec>>
  BY UpdatingUpdates DEF chainVars
<1>2. /\ job[j] \in JobRow
      /\ j \in Transfers => /\ RowHolds(j, job[j])
                            /\ StepHolds(j, pc[w], job[j])
                            /\ WorkOn(j, pc[w], job[j])
  BY <1>1, TransfersArePlain DEF ChainInv, RowsTrue, StepsTrue, PromiseInv, TypeInv, TypeOK
<1> HIDE DEF j
<1>3. {"attesting", "minting", "trading"} \subseteq Active
          /\ {"completed", "mint_completed"} \subseteq Completed
          /\ {"failed", "mint_completed_trade_failed"} \subseteq GivenUp
          /\ JobStates = Active \union Completed \union GivenUp
  BY DEF Active, Completed, GivenUp, JobStates
<1>4. ASSUME NEW row, NEW next, NEW onError, UpdateJob(w, row, next, onError),
             j \in Transfers => Promising(j, row, next, onError)
      PROVE  PromiseInv' /\ [Transfer!Next]_Transfer!tvars
  BY <1>1, <1>4, PromisingUpdate DEF j
<1>5. CASE Attest(w)
  <2> DEFINE row == [job[j] EXCEPT !.status = "attesting"]
  <2>1. j \in Transfers => Promising(j, row, "poll", "error")
    BY <1>2, <1>3, <1>5 DEF Promising, WorkOn, Attest, JobRow
  <2>2. UpdateJob(w, row, "poll", "error")
    BY <1>5 DEF Attest, j
  <2> HIDE DEF row
  <2> QED BY <1>4, <2>1, <2>2
<1>6. CASE StoreAttestation(w)
  <2> DEFINE row == [job[j] EXCEPT !.status = "minting", !.att = TRUE]
             next == IF j \in ArcJobs /\ sawMint[w] THEN "intent" ELSE "mint"
  <2>1. j \in Transfers => Promising(j, row, next, "error")
    BY <1>2, <1>3, <1>6 DEF Promising, WorkOn, StoreAttestation, JobRow
  <2>2. UpdateJob(w, row, next, "error")
    BY <1>6 DEF StoreAttestation, j
  <2> HIDE DEF row, next
  <2> QED BY <1>4, <2>1, <2>2
<1>7. CASE RecordMint(w)
  <2> DEFINE row == [job[j] EXCEPT !.status = "trading", !.mintTx = TRUE]
  <2>1. j \in Transfers => Promising(j, row, AfterMint(j), "error")
    BY <1>2, <1>3, <1>7 DEF Promising, WorkOn, RecordMint, JobRow, AfterMint
  <2>2. UpdateJob(w, row, AfterMint(j), "error")
    BY <1>7 DEF RecordMint, j
  <2> HIDE DEF row
  <2> QED BY <1>4, <2>1, <2>2
<1>8. CASE CloseMintOnly(w)
  <2> DEFINE row == [job[j] EXCEPT !.status = "mint_completed"]
  <2>1. j \in Transfers => Promising(j, row, "idle", "error")
    BY <1>2, <1>3, <1>8 DEF Promising, WorkOn, StepHolds, FollowUps, CloseMintOnly, JobRow
  <2>2. UpdateJob(w, row, "idle", "error")
    BY <1>8 DEF CloseMintOnly, j
  <2> HIDE DEF row
  <2> QED BY <1>4, <2>1, <2>2
<1>9. CASE RecordTrade(w)
  <2> DEFINE row == [job[j] EXCEPT !.status = "completed", !.doneTx = TRUE]
  <2>1. j \in Transfers => Promising(j, row, "idle", "error")
    BY <1>2, <1>3, <1>9, JobsAssumption
    DEF Promising, WorkOn, StepHolds, RecordTrade, JobRow
  <2>2. UpdateJob(w, row, "idle", "error")
    BY <1>9 DEF RecordTrade, j
  <2> HIDE DEF row
  <2> QED BY <1>4, <2>1, <2>2
<1>10. CASE RecordFinalize(w)
  <2> DEFINE row == [job[j] EXCEPT !.status = "mint_completed", !.doneTx = TRUE]
  <2>1. j \in Transfers => Promising(j, row, "idle", "error")
    BY <1>2, <1>3, <1>10 DEF Promising, WorkOn, Doubted, StepHolds, RecordFinalize, JobRow
  <2>2. UpdateJob(w, row, "idle", "error")
    BY <1>10 DEF RecordFinalize, j
  <2> HIDE DEF row
  <2> QED BY <1>4, <2>1, <2>2
<1>11. CASE PreserveFinalize(w)
  <2> DEFINE row == [job[j] EXCEPT !.status = "mint_completed", !.doneTx = TRUE]
  <2>1. j \in Transfers => Promising(j, row, "idle", "idle")
    BY <1>2, <1>3, <1>11
    DEF Promising, WorkOn, Doubted, RowHolds, StepHolds, PreserveFinalize, JobRow
  <2>2. UpdateJob(w, row, "idle", "idle")
    BY <1>11 DEF PreserveFinalize, j
  <2> HIDE DEF row
  <2> QED BY <1>4, <2>1, <2>2
<1>12. CASE MarkFailed(w)
  <2> DEFINE row == [job[j] EXCEPT !.status =
                        IF pc[w] = "fail" THEN "failed" ELSE "mint_completed_trade_failed"]
  <2>1. j \in Transfers => Promising(j, row, "idle", "idle")
    BY <1>2, <1>3, <1>12 DEF Promising, WorkOn, MarkFailed, JobRow
  <2>2. UpdateJob(w, row, "idle", "idle")
    BY <1>12 DEF MarkFailed, j
  <2> HIDE DEF row
  <2> QED BY <1>4, <2>1, <2>2
<1> QED BY <1>5, <1>6, <1>7, <1>8, <1>9, <1>10, <1>11, <1>12 DEF Updating

LEMMA DecidingPromise ==
    ASSUME TypeInv, HandInv, ChainInv, PromiseInv, NEW w \in Workers, Deciding(w)
    PROVE  PromiseInv' /\ [Transfer!Next]_Transfer!tvars
<1> PICK j \in Jobs : held[w] = j
  BY DEF TypeInv, TypeOK, Busy, Deciding, PollAttestation, ReceiveMessage,
     SubmitTrade, FetchIntent, Finalize, HandleError
<1>1. UNCHANGED job
  BY DEF Deciding, PollAttestation, ReceiveMessage, SubmitTrade, FetchIntent,
     Finalize, HandleError, rows
<1>2. j \in Transfers => /\ WorkOn(j, pc[w], job[j])
                         /\ SentFor(j)
                         /\ StepHolds(j, pc[w], job[j])
                         /\ job[j].status # "none"
  BY TransfersArePlain DEF PromiseInv, ChainInv, StepsTrue, HandInv, HandRows, Held
<1>3. /\ mint \in [Jobs -> Landing] /\ exec \in [Jobs -> Landing] /\ Transfers \subseteq Jobs
  BY TransfersArePlain DEF TypeInv, TypeOK
<1>4. ASSUME NEW step, Goto(w, step), UNCHANGED <<mint, exec>>,
             j \in Transfers /\ step # "idle" => WorkOn(j, step, job[j])
      PROVE  PromiseInv' /\ [Transfer!Next]_Transfer!tvars
  <2>1. [Transfer!Next]_Transfer!tvars
    BY <1>1, <1>4, RowStep DEF RowMoves
  <2>2. j \in Transfers => SentFor(j)' /\ (step # "idle" => WorkOn(j, step, job[j])')
    BY <1>1, <1>2, <1>4 DEF SentFor, WorkOn, Doubted
  <2> QED BY <1>1, <1>4, <2>1, <2>2, PromiseWorker
<1>5. CASE PollAttestation(w)
  <2>1. UNCHANGED <<mint, exec>> /\ (Goto(w, "store") \/ Goto(w, "error"))
    BY <1>5 DEF PollAttestation, chainVars
  <2>2. j \in Transfers => WorkOn(j, "store", job[j]) /\ WorkOn(j, "error", job[j])
    BY <1>2, <1>5 DEF WorkOn, PollAttestation
  <2> QED BY <1>4, <2>1, <2>2
<1>6. CASE ReceiveMessage(w)
  <2>1. /\ UNCHANGED exec
        /\ UNCHANGED mint \/ Confirmed(mint, j) \/ TimedOut(mint, j)
        /\ Goto(w, "record_mint") \/ Goto(w, "error")
    BY <1>6 DEF ReceiveMessage, ConfirmedThoughFailed
  <2>2. j \in Transfers => WorkOn(j, "record_mint", job[j])' /\ WorkOn(j, "error", job[j])'
    BY <1>1, <1>2, <1>6 DEF WorkOn, ReceiveMessage
  <2>3. j \in Transfers => SentFor(j)'
    BY <1>1, <1>2, <1>3, <2>1 DEF SentFor, Confirmed, TimedOut
  <2>4. \A k \in Transfers : k # j => UNCHANGED <<job[k], mint[k], exec[k]>>
    BY <1>1, <1>3, <2>1 DEF Confirmed, TimedOut
  <2>5. PromiseInv'
    BY <2>1, <2>2, <2>3, <2>4, PromiseWorker
  <2> QED BY <1>1, <1>2, <2>1, <2>5, MintStep
<1>7. CASE SubmitTrade(w) \/ Finalize(w)
  <2>1. /\ UNCHANGED mint
        /\ UNCHANGED exec \/ Confirmed(exec, j) \/ TimedOut(exec, j)
    BY <1>7 DEF SubmitTrade, Finalize, ConfirmedThoughFailed
  <2>2. PICK step : /\ Goto(w, step)
                    /\ step = "error"
                       \/ (pc[w] = "trade" /\ step \in {"trade", "record_trade"})
                       \/ (pc[w] = "finalize" /\ step = "record_finalize")
    BY <1>7 DEF SubmitTrade, Finalize
  <2>3. pc[w] \in {"trade", "finalize"}
    BY <1>7 DEF SubmitTrade, Finalize
  <2>4. j \in Transfers => WorkOn(j, step, job[j])'
    BY <1>1, <1>2, <2>2, <2>3 DEF WorkOn
  <2>5. j \in Transfers => mint[j] = "yes" /\ j \in FollowUps
    BY <1>2, <2>3 DEF WorkOn, StepHolds, FollowUps
  <2>6. j \in Transfers => SentFor(j)'
    BY <1>1, <1>2, <2>1, <2>5 DEF SentFor
  <2>7. \A k \in Transfers : k # j => UNCHANGED <<job[k], mint[k], exec[k]>>
    BY <1>1, <1>3, <2>1 DEF Confirmed, TimedOut
  <2>8. PromiseInv'
    BY <2>2, <2>4, <2>6, <2>7, PromiseWorker
  <2> QED BY <1>1, <2>1, <2>5, <2>8, ExecStep
<1>8. CASE FetchIntent(w)
  <2>1. UNCHANGED <<mint, exec>> /\ (Goto(w, "finalize") \/ Goto(w, "error"))
    BY <1>8 DEF FetchIntent, chainVars
  <2>2. j \in Transfers => WorkOn(j, "finalize", job[j]) /\ WorkOn(j, "error", job[j])
    BY <1>2, <1>8 DEF WorkOn, FetchIntent
  <2> QED BY <1>4, <2>1, <2>2
<1>9. CASE HandleError(w)
  <2>1. UNCHANGED <<mint, exec>> /\ (Goto(w, ErrorStep(j)) \/ Goto(w, "idle"))
    BY <1>9 DEF HandleError, chainVars
  <2>2. j \in Transfers => WorkOn(j, ErrorStep(j), job[j])
    BY <1>2, <1>9 DEF WorkOn, Doubted, HandleError, ErrorStep
  <2> QED BY <1>4, <2>1, <2>2
<1> QED BY <1>5, <1>6, <1>7, <1>8, <1>9 DEF Deciding

LEMMA DequeuePromise ==
    ASSUME TypeInv, HandInv, PromiseInv, NEW w \in Workers, Dequeue(w)
    PROVE  PromiseInv' /\ [Transfer!Next]_Transfer!tvars
<1> DEFINE h == Head(queue)
<1>1. h \in Jobs /\ Queued(h) /\ UNCHANGED <<job, mint, exec>>
  BY DEF Dequeue, TypeInv, TypeOK, Queued, chainVars
<1>2. [Transfer!Next]_Transfer!tvars
  BY <1>1, RowStep DEF RowMoves
<1>3. h \in Transfers => job[h].status \in Active
  BY <1>1, TransfersArePlain DEF HandInv, HandRows
<1>4. h \in Transfers => FirstStep(h) = "idle" \/ WorkOn(h, FirstStep(h), job[h])
  BY <1>3 DEF FirstStep, AfterMint, WorkOn, Active
<1>5. \A v \in Workers : \/ held'[v] = NoJob
                         \/ held'[v] = held[v] /\ pc'[v] = pc[v]
                         \/ held'[v] = h /\ pc'[v] = FirstStep(h) /\ FirstStep(h) # "idle"
  BY DEF Dequeue, TypeInv, TypeOK
<1>6. \A v \in Workers : held'[v] \in Transfers => WorkOn(held[v], pc[v], job[held[v]])'
  BY <1>1, <1>4, <1>5, TransfersArePlain DEF PromiseInv, WorkOn, Doubted
<1> QED BY <1>1, <1>2, <1>6 DEF PromiseInv, SentFor

\* A handler opens a transfer that has no row, keeps a pending one pending or
\* gives it up.
LEMMA RecordingMoves ==
    ASSUME TypeInv, HandInv, NEW j \in Transfers, Recording(j)
    PROVE  RowMoves(j) /\ (job'[j] = job[j] \/ job'[j].status # "none")
<1>1. j \in Jobs /\ j \in Plain /\ job[j] \in JobRow /\ \A row : [job EXCEPT ![j] = row][j] = row
  BY TransfersArePlain DEF TypeInv, TypeOK
<1>2. ASSUME NEW row, job' = job \/ job' = [job EXCEPT ![j] = row],
             \/ job[j].status \in {"none", "pending"} /\ row.status = "pending"
             \/ job[j].status = "pending" /\ row.status = "failed"
      PROVE  RowMoves(j) /\ (job'[j] = job[j] \/ job'[j].status # "none")
  BY <1>1, <1>2 DEF RowMoves, Active, GivenUp
<1>3. CASE CreateBridgeJob(j)
  <2> DEFINE row == NewRow(FALSE)
  <2>1. job[j].status = "none" /\ row.status = "pending"
    BY <1>3 DEF CreateBridgeJob, Unseen, NewRow
  <2>2. job' = job \/ job' = [job EXCEPT ![j] = row]
    BY <1>3 DEF CreateBridgeJob, HttpWrite, FaultyUpdate
  <2> HIDE DEF row
  <2> QED BY <1>2, <2>1, <2>2
<1>4. CASE ReserveBridgeJob(j) \/ FinalizeReservation(j)
  BY <1>1, <1>4 DEF ReserveBridgeJob, FinalizeReservation, Plain
<1>5. CASE ReserveBurn(j)
  <2> DEFINE row == NewRow(TRUE)
  <2>1. job[j].status = "none" /\ row.status = "pending"
    BY <1>5 DEF ReserveBurn, Unseen, NewRow
  <2>2. job' = job \/ job' = [job EXCEPT ![j] = row]
    BY <1>5 DEF ReserveBurn, HttpWrite, FaultyUpdate
  <2> HIDE DEF row
  <2> QED BY <1>2, <2>1, <2>2
<1>6. CASE http.job = j /\ FinishBurn
  <2> DEFINE row == [job[j] EXCEPT !.reserved = FALSE, !.status = "pending"]
  <2>1. job[j].status = "pending" /\ row.status = "pending"
    BY <1>1, <1>6 DEF FinishBurn, HttpAt, HandInv, HandlerRow, JobRow
  <2>2. job' = job \/ job' = [job EXCEPT ![j] = row]
    BY <1>6 DEF FinishBurn, HttpWrite, FaultyUpdate
  <2> QED BY <1>2, <2>1, <2>2
<1>7. CASE http.job = j /\ FailBurn
  <2> DEFINE row == [job[j] EXCEPT !.status = "failed"]
  <2>1. job[j].status = "pending" /\ row.status = "failed"
    BY <1>1, <1>7 DEF FailBurn, HttpAt, HandInv, HandlerRow, JobRow
  <2>2. job' = job \/ job' = [job EXCEPT ![j] = row]
    BY <1>7 DEF FailBurn, HttpWrite, FaultyUpdate
  <2> QED BY <1>2, <2>1, <2>2
<1>8. CASE http.job = j /\ InsertIntentJob
  <2> DEFINE row == NewRow(FALSE)
  <2>1. job[j].status = "none" /\ row.status = "pending"
    BY <1>8 DEF InsertIntentJob, HttpAt, HandInv, HandlerRow, NewRow
  <2>2. job' = job \/ job' = [job EXCEPT ![j] = row]
    BY <1>8 DEF InsertIntentJob, HttpWrite, FaultyUpdate
  <2> HIDE DEF row
  <2> QED BY <1>2, <2>1, <2>2
<1> QED BY <1>3, <1>4, <1>5, <1>6, <1>7, <1>8 DEF Recording

LEMMA RecordingPromise ==
    ASSUME TypeInv, HandInv, PromiseInv, NEW j \in Jobs, Recording(j)
    PROVE  PromiseInv' /\ [Transfer!Next]_Transfer!tvars
<1>1. UNCHANGED <<pc, held, mint, exec>>
  BY DEF Recording, CreateBridgeJob, ReserveBridgeJob, FinalizeReservation,
     ReserveBurn, FinishBurn, FailBurn, InsertIntentJob, workerVars, chainVars
<1>2. \A k \in Jobs : k # j => job'[k] = job[k]
  BY DEF Recording, CreateBridgeJob, ReserveBridgeJob, FinalizeReservation, ReserveBurn,
     FinishBurn, FailBurn, InsertIntentJob, HttpWrite, FaultyUpdate, TypeInv, TypeOK
<1>3. j \in Transfers => ~Held(j)
  BY RecordedNotHeld, TransfersArePlain
<1>4. j \in Transfers => RowMoves(j) /\ (job'[j] = job[j] \/ job'[j].status # "none")
  BY RecordingMoves
<1>5. PromiseInv'
  BY <1>1, <1>2, <1>3, <1>4, PromiseKept, TransfersArePlain
<1> QED BY <1>1, <1>2, <1>4, <1>5, RowStep, TransfersArePlain

LEMMA ChainPromise ==
    ASSUME TypeInv, PromiseInv, NEW j \in Jobs, Chain(j)
    PROVE  PromiseInv' /\ [Transfer!Next]_Transfer!tvars
<1>1. UNCHANGED <<job, pc, held>>
  BY DEF Chain, UserBurn, LandBurn, LandMint, LandExec, rows, workerVars
<1>2. mint \in [Jobs -> Landing] /\ exec \in [Jobs -> Landing] /\ Transfers \subseteq Jobs
  BY TransfersArePlain DEF TypeInv, TypeOK
<1>3. CASE UserBurn(j) \/ LandBurn(j)
  <2>1. UNCHANGED <<mint, exec>>
    BY <1>3 DEF UserBurn, LandBurn
  <2> QED BY <1>1, <2>1, PromiseKept, RowStep DEF RowMoves
<1>4. CASE LandMint(j)
  <2>1. UNCHANGED exec /\ Confirmed(mint, j) /\ mint[j] = "sent"
    BY <1>4 DEF LandMint, Confirmed
  <2>2. PromiseInv'
    BY <1>1, <1>2, <2>1, PromiseKept DEF Confirmed
  <2>3. j \in Transfers => job[j].status # "none"
    BY <2>1 DEF PromiseInv, SentFor
  <2> QED BY <1>1, <2>1, <2>2, <2>3, MintStep
<1>5. CASE LandExec(j)
  <2>1. UNCHANGED mint /\ Confirmed(exec, j) /\ exec[j] = "sent"
    BY <1>5 DEF LandExec, Confirmed
  <2>2. PromiseInv'
    BY <1>1, <1>2, <2>1, PromiseKept DEF Confirmed
  <2>3. j \in Transfers => mint[j] = "yes" /\ j \in FollowUps
    BY <2>1 DEF PromiseInv, SentFor
  <2> QED BY <1>1, <2>1, <2>2, <2>3, ExecStep
<1> QED BY <1>3, <1>4, <1>5 DEF Chain

\* The steps that touch neither a row nor a chain.
LEMMA QuietPromise ==
    ASSUME TypeInv, PromiseInv,
           \/ (\E j \in Jobs : InsertIntent(j)) \/ BroadcastBurn \/ EnqueueJob \/ LinkIntent
           \/ Crash \/ Restart \/ UNCHANGED vars
    PROVE  PromiseInv' /\ [Transfer!Next]_Transfer!tvars
<1>1. UNCHANGED <<job, mint, exec>>
  BY DEF InsertIntent, BroadcastBurn, EnqueueJob, LinkIntent, Crash, Restart, vars,
     rows, chainVars
<1>2. \A v \in Workers : held'[v] = NoJob \/ (held'[v] = held[v] /\ pc'[v] = pc[v])
  BY DEF InsertIntent, BroadcastBurn, EnqueueJob, LinkIntent, Crash, Restart, vars, workerVars
<1>3. PromiseInv'
  BY <1>1, <1>2, PromiseKept
<1> QED BY <1>1, <1>3 DEF Transfer!tvars

LEMMA NextPromise ==
    ASSUME TypeInv, HandInv, ChainInv, PromiseInv, [Next]_vars
    PROVE  PromiseInv' /\ [Transfer!Next]_Transfer!tvars
<1>1. CASE Next
  BY <1>1, StepKinds, UpdatingPromise, DecidingPromise, DequeuePromise,
     RecordingPromise, ChainPromise, QuietPromise
<1>2. CASE UNCHANGED vars
  BY <1>2, QuietPromise
<1> QED BY <1>1, <1>2

LEMMA InitPromise == Init => PromiseInv /\ Transfer!Init
<1> SUFFICES ASSUME Init PROVE PromiseInv /\ Transfer!Init
  OBVIOUS
<1>1. \A j \in Transfers : job[j].status = "none" /\ mint[j] = "no" /\ exec[j] = "no"
  BY TransfersArePlain DEF Init, NewRow
<1>2. PromiseInv
  BY <1>1, TransfersArePlain DEF Init, PromiseInv, SentFor
<1>3. \A j \in Transfers : Verdict(job[j].status) = "none"
  BY <1>1, VerdictOfRow
<1> QED BY <1>1, <1>2, <1>3 DEF Transfer!Init

\* The relayer implements BridgeTransfer for every job that ends on Arc, and every
\* job that ends on Base whose calls do not lose their responses: each of its steps
\* is one step of the promise or none, with any number of workers, failed writes,
\* late transactions, crashes and recoveries.
THEOREM KeepsTransferPromise == Spec => ImplementsTransfer
<1>1. TypeInv /\ HandInv /\ ChainInv /\ PromiseInv /\ [Next]_vars
          => PromiseInv' /\ [Transfer!Next]_Transfer!tvars
  BY NextPromise
<1> QED BY <1>1, TypeInvariant, HandInvariant, InitChain, NextChain, InitPromise, PTL
        DEF Spec, ImplementsTransfer, Transfer!Spec
=============================================================================
