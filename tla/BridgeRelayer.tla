---------------------------- MODULE BridgeRelayer ----------------------------
(***************************************************************************)
(* The CCTP bridge relayer (bridge/relayer.py), the HTTP handlers that     *)
(* create its jobs (bridge/routes.py, capital_intents/routes.py) and the   *)
(* capital-intent rows it keeps in step (capital_intents/sync.py).         *)
(*                                                                         *)
(* A step is the stretch of code between two awaits, or one database call  *)
(* of a handler: a crash may fall between any two steps, other workers and *)
(* handlers run in between.  Rows survive a crash; the queue, the workers  *)
(* and a handler under way do not.  The chains are external: a transaction *)
(* whose confirmation timed out stays "sent" and may still land later.     *)
(***************************************************************************)
EXTENDS Naturals, Sequences, FiniteSets, SequencesExt

CONSTANTS
    Jobs,           \* bridge_jobs ids; one per quote and per burn (unique indexes)
    NoJob,
    Workers,        \* the _NUM_WORKERS tasks
    ArcJobs,        \* dest_chain = arc: mint, then finalizeBridgeDeposit
    SolanaJobs,     \* dest_chain = solana; the others end on Arc or Base
    TradeJobs,      \* rows with a signed_trade_tx
    IntentJobs,     \* created by POST /api/capital-intents with create_bridge_job
    ReserveJobs,    \* base -> solana jobs reserved before the frontend burns
    SubmitJobs,     \* solana -> base jobs whose burn this backend broadcasts
    UserOf,         \* UserOf[j]: the user_id of a job
    MaxTries,       \* settings.cctp_trade_max_retries
    MaxFaults,      \* bound: failed database calls
    MaxRestarts,    \* bound: process crashes
    LossyJobs       \* bound: jobs a call on whose row may take effect and still raise

ASSUME JobsAssumption ==
    /\ IsFiniteSet(Jobs)
    /\ NoJob \notin Jobs
    /\ ArcJobs \subseteq IntentJobs
    /\ IntentJobs \subseteq Jobs
    /\ TradeJobs \subseteq Jobs \ ArcJobs
    /\ SubmitJobs \subseteq Jobs \ IntentJobs
    /\ SolanaJobs \subseteq Jobs \ (ArcJobs \union SubmitJobs)
    /\ ReserveJobs \subseteq SolanaJobs \ IntentJobs

ASSUME BoundsAssumption ==
    /\ MaxTries \in Nat \ {0}
    /\ MaxFaults \in Nat
    /\ MaxRestarts \in Nat
    /\ LossyJobs \subseteq Jobs

VARIABLES
    job,        \* bridge_jobs rows
    intent,     \* the capital_movement_intents row of each job
    queue,      \* _job_queue
    pc,         \* pc[w]: the await worker w is at
    held,       \* held[w]: the job_id it is processing
    sawMint,    \* sawMint[w]: mint_tx of the row it read at the start
    tries,      \* tries[w]: attempt in _submit_trade
    http,       \* the handler running on the event loop, and its next call
    burn, mint, exec,   \* the chains: source burn, receiveMessage, follow-up
    up,         \* is the process alive?
    faults, restarts

rows == <<job, intent>>
workerVars == <<pc, held, sawMint, tries>>
chainVars == <<burn, mint, exec>>
bounds == <<faults, restarts>>
vars == <<job, intent, queue, pc, held, sawMint, tries, http,
          burn, mint, exec, up, faults, restarts>>
-----------------------------------------------------------------------------
Completed == {"completed", "mint_completed"}
GivenUp == {"failed", "mint_completed_trade_failed"}
Active == {"pending", "attesting", "minting", "trading"}
JobStates == Active \union Completed \union GivenUp

\* "pending:<quote>" in burn_tx_hash is the flag reserved; the recorded mint,
\* trade and Arc finalisation hashes are the flags mintTx and doneTx.
JobRow == [status : JobStates \union {"none"}, reserved : BOOLEAN,
           att : BOOLEAN, mintTx : BOOLEAN, doneTx : BOOLEAN]

NewRow(reserved) == [status |-> "pending", reserved |-> reserved,
                     att |-> FALSE, mintTx |-> FALSE, doneTx |-> FALSE]

IntentStates == {"pending", "bridging", "deployment_in_flight", "deployed",
                 "waiting_to_be_deployed", "retryable", "failed"}
IntentRow == [status : IntentStates \union {"none"}, linked : BOOLEAN]

Landing == {"no", "sent", "yes"}

Steps == {"idle", "attest", "poll", "store", "mint", "record_mint", "close",
          "trade", "record_trade", "intent", "finalize", "record_finalize",
          "preserve", "error", "fail", "fail_trade", "preserve_error"}

HttpSteps == {"idle", "create_job", "enqueue", "link",
              "broadcast", "finish_burn", "fail_burn"}

TypeOK ==
    /\ job \in [Jobs -> JobRow]
    /\ intent \in [Jobs -> IntentRow]
    /\ queue \in Seq(Jobs)
    /\ pc \in [Workers -> Steps]
    /\ held \in [Workers -> Jobs \union {NoJob}]
    /\ sawMint \in [Workers -> BOOLEAN]
    /\ tries \in [Workers -> 1..MaxTries]
    /\ http \in [step : HttpSteps, job : Jobs \union {NoJob}]
    /\ burn \in [Jobs -> Landing]
    /\ mint \in [Jobs -> Landing]
    /\ exec \in [Jobs -> Landing]
    /\ up \in BOOLEAN
    /\ faults \in 0..MaxFaults
    /\ restarts \in 0..MaxRestarts

HttpIdle == [step |-> "idle", job |-> NoJob]

Init ==
    /\ job = [j \in Jobs |-> [NewRow(FALSE) EXCEPT !.status = "none"]]
    /\ intent = [j \in Jobs |-> [status |-> "none", linked |-> FALSE]]
    /\ queue = <<>>
    /\ pc = [w \in Workers |-> "idle"]
    /\ held = [w \in Workers |-> NoJob]
    /\ sawMint = [w \in Workers |-> FALSE]
    /\ tries = [w \in Workers |-> 1]
    /\ http = HttpIdle
    /\ burn = [j \in Jobs |-> "no"]
    /\ mint = [j \in Jobs |-> "no"]
    /\ exec = [j \in Jobs |-> "no"]
    /\ up = TRUE
    /\ faults = 0
    /\ restarts = 0
-----------------------------------------------------------------------------
(* Database calls. *)

Fault == faults < MaxFaults /\ faults' = faults + 1

\* A call that raises has had no effect, or had it and lost its response.
FaultyUpdate(j, row) ==
    /\ Fault
    /\ \/ UNCHANGED job
       \/ j \in LossyJobs /\ job' = [job EXCEPT ![j] = row]

BridgeStatusToIntentStatus(status, j) ==
    CASE status \in {"pending", "attesting", "minting"} -> "bridging"
      [] status = "trading" -> "deployment_in_flight"
      [] status \in Completed ->
            IF j \in ArcJobs THEN "waiting_to_be_deployed" ELSE "deployed"
      [] status = "mint_completed_trade_failed" -> "retryable"
      [] status = "failed" -> "failed"
      [] OTHER -> "pending"

SyncIntent(j, status) ==
    IF intent[j].linked
    THEN [intent EXCEPT ![j].status = BridgeStatusToIntentStatus(status, j)]
    ELSE intent

Goto(w, step) ==
    /\ pc' = [pc EXCEPT ![w] = step]
    /\ held' = IF step = "idle" THEN [held EXCEPT ![w] = NoJob] ELSE held

\* _update_job: the row, then a best-effort sync of the linked intent.
UpdateJob(w, row, next, onError) ==
    \/ /\ job' = [job EXCEPT ![held[w]] = row]
       /\ \/ intent' = SyncIntent(held[w], row.status) /\ UNCHANGED faults
          \/ Fault /\ UNCHANGED intent
       /\ Goto(w, next)
    \/ /\ FaultyUpdate(held[w], row)
       /\ UNCHANGED intent
       /\ Goto(w, onError)
-----------------------------------------------------------------------------
(* process_bridge_job *)

AfterMint(j) ==
    IF j \in ArcJobs THEN "intent" ELSE IF j \in TradeJobs THEN "trade" ELSE "close"

\* The early returns, the resume rules and their order, for the row just read.
FirstStep(j) ==
    LET row == job[j]
        arc == j \in ArcJobs
    IN  IF row.status \in Completed THEN "idle"
        ELSE IF arc /\ row.doneTx THEN "preserve"
        ELSE IF row.reserved THEN "idle"
        ELSE IF row.status \in {"pending", "attesting"} THEN "attest"
        ELSE IF ~row.att THEN "error"
        ELSE IF row.status = "minting" /\ ~(arc /\ row.mintTx) THEN "mint"
        ELSE IF arc /\ ~row.mintTx THEN "error"
        ELSE AfterMint(j)

\* _worker takes the next id and _get_job reads its row.  A read that raises
\* is outside the try: the worker logs it and the job leaves the queue.
Dequeue(w) ==
    /\ up /\ http = HttpIdle      \* a handler under way holds the event loop
    /\ pc[w] = "idle" /\ queue # <<>>
    /\ queue' = Tail(queue)
    /\ LET j == Head(queue) IN
       \/ /\ pc' = [pc EXCEPT ![w] = FirstStep(j)]
          /\ held' = [held EXCEPT ![w] = IF FirstStep(j) = "idle" THEN NoJob ELSE j]
          /\ sawMint' = [sawMint EXCEPT ![w] = job[j].mintTx]
          /\ UNCHANGED faults
       \/ Fault /\ UNCHANGED <<pc, held, sawMint>>
    /\ UNCHANGED <<job, intent, tries, http, chainVars, up, restarts>>

Attest(w) ==
    /\ pc[w] = "attest"
    /\ UpdateJob(w, [job[held[w]] EXCEPT !.status = "attesting"], "poll", "error")
    /\ UNCHANGED <<queue, sawMint, tries, http, chainVars, up, restarts>>

\* poll_attestation returns only for a burn that is final, or times out.
PollAttestation(w) ==
    /\ pc[w] = "poll"
    /\ \/ burn[held[w]] = "yes" /\ Goto(w, "store")
       \/ Goto(w, "error")
    /\ UNCHANGED <<rows, queue, sawMint, tries, http, chainVars, up, bounds>>

StoreAttestation(w) ==
    /\ pc[w] = "store"
    /\ UpdateJob(w, [job[held[w]] EXCEPT !.status = "minting", !.att = TRUE],
                 IF held[w] \in ArcJobs /\ sawMint[w] THEN "intent" ELSE "mint",
                 "error")
    /\ UNCHANGED <<queue, sawMint, tries, http, chainVars, up, restarts>>

\* Sending a transaction and waiting for its receipt.  One whose effect is
\* already on the chain is refused; a timeout leaves it in flight.
Confirmed(effect, j) == effect[j] # "yes" /\ effect' = [effect EXCEPT ![j] = "yes"]
TimedOut(effect, j) == effect[j] # "yes" /\ effect' = [effect EXCEPT ![j] = "sent"]

\* confirm_transaction tells whether a Solana transaction was included, not
\* whether it failed there, and nobody looks at its err.  On Base and Arc a
\* receipt whose status is not 1 raises.
ConfirmedThoughFailed(effect, j) == j \in SolanaJobs /\ UNCHANGED effect

\* Faulty variant: a receipt timeout counts as a confirmation.
ReceiveMessageUnconfirmed(w) ==
    /\ pc[w] = "mint"
    /\ \/ /\ \/ Confirmed(mint, held[w]) \/ TimedOut(mint, held[w])
             \/ ConfirmedThoughFailed(mint, held[w])
          /\ Goto(w, "record_mint")
       \/ UNCHANGED mint /\ Goto(w, "error")
    /\ UNCHANGED <<rows, queue, sawMint, tries, http, burn, exec, up, bounds>>

\* receive_message_base / _solana / _arc
ReceiveMessage(w) ==
    /\ pc[w] = "mint"
    /\ \/ /\ Confirmed(mint, held[w]) \/ ConfirmedThoughFailed(mint, held[w])
          /\ Goto(w, "record_mint")
       \/ TimedOut(mint, held[w]) /\ Goto(w, "error")
       \/ UNCHANGED mint /\ Goto(w, "error")
    /\ UNCHANGED <<rows, queue, sawMint, tries, http, burn, exec, up, bounds>>

RecordMint(w) ==
    /\ pc[w] = "record_mint"
    /\ UpdateJob(w, [job[held[w]] EXCEPT !.status = "trading", !.mintTx = TRUE],
                 AfterMint(held[w]), "error")
    /\ UNCHANGED <<queue, sawMint, tries, http, chainVars, up, restarts>>

\* No signed trade: the relayer is done after the mint.
CloseMintOnly(w) ==
    /\ pc[w] = "close"
    /\ UpdateJob(w, [job[held[w]] EXCEPT !.status = "mint_completed"], "idle", "error")
    /\ UNCHANGED <<queue, sawMint, tries, http, chainVars, up, restarts>>

\* Faulty variant: one attempt too many.
MayRetryOnceMore(w) == tries[w] <= MaxTries

MayRetry(w) == tries[w] < MaxTries

\* One attempt of _submit_trade; the same signed transaction every time.
SubmitTrade(w) ==
    /\ pc[w] = "trade"
    /\ \/ /\ Confirmed(exec, held[w]) \/ ConfirmedThoughFailed(exec, held[w])
          /\ Goto(w, "record_trade")
          /\ tries' = [tries EXCEPT ![w] = 1]
       \/ /\ TimedOut(exec, held[w]) \/ UNCHANGED exec
          /\ IF MayRetry(w)
             THEN tries' = [tries EXCEPT ![w] = tries[w] + 1] /\ Goto(w, "trade")
             ELSE tries' = [tries EXCEPT ![w] = 1] /\ Goto(w, "error")
    /\ UNCHANGED <<rows, queue, sawMint, http, burn, mint, up, bounds>>

RecordTrade(w) ==
    /\ pc[w] = "record_trade"
    /\ UpdateJob(w, [job[held[w]] EXCEPT !.status = "completed", !.doneTx = TRUE],
                 "idle", "error")
    /\ UNCHANGED <<queue, sawMint, tries, http, chainVars, up, restarts>>

\* _get_linked_capital_intent and the checks on it; a linked row may still
\* lack a receiver or a bytes32 onchain_intent_id.
FetchIntent(w) ==
    /\ pc[w] = "intent"
    /\ \/ intent[held[w]].linked /\ Goto(w, "finalize") /\ UNCHANGED faults
       \/ Goto(w, "error") /\ UNCHANGED faults
       \/ Goto(w, "error") /\ Fault
    /\ UNCHANGED <<rows, queue, sawMint, tries, http, chainVars, up, restarts>>

\* finalize_arc_metavault_deposit
Finalize(w) ==
    /\ pc[w] = "finalize"
    /\ \/ Confirmed(exec, held[w]) /\ Goto(w, "record_finalize")
       \/ TimedOut(exec, held[w]) /\ Goto(w, "error")
       \/ UNCHANGED exec /\ Goto(w, "error")
    /\ UNCHANGED <<rows, queue, sawMint, tries, http, burn, mint, up, bounds>>

RecordFinalize(w) ==
    /\ pc[w] = "record_finalize"
    /\ UpdateJob(w, [job[held[w]] EXCEPT !.status = "mint_completed", !.doneTx = TRUE],
                 "idle", "error")
    /\ UNCHANGED <<queue, sawMint, tries, http, chainVars, up, restarts>>

\* The Arc finalisation is already recorded: only the status is repaired.
PreserveFinalize(w) ==
    /\ pc[w] \in {"preserve", "preserve_error"}
    /\ UpdateJob(w, [job[held[w]] EXCEPT !.status = "mint_completed", !.doneTx = TRUE],
                 "idle", "idle")
    /\ UNCHANGED <<queue, sawMint, tries, http, chainVars, up, restarts>>

\* Faulty variant: the recorded Arc finalisation is not looked up.
ErrorStepByStatus(j) ==
    IF job[j].status = "trading" THEN "fail_trade" ELSE "fail"

\* The except clause reads the row again before it decides what failed.
ErrorStep(j) ==
    IF j \in ArcJobs /\ job[j].doneTx THEN "preserve_error"
    ELSE IF job[j].status = "trading" THEN "fail_trade" ELSE "fail"

HandleError(w) ==
    /\ pc[w] = "error"
    /\ \/ Goto(w, ErrorStep(held[w])) /\ UNCHANGED faults
       \/ Goto(w, "idle") /\ Fault
    /\ UNCHANGED <<rows, queue, sawMint, tries, http, chainVars, up, restarts>>

MarkFailed(w) ==
    /\ pc[w] \in {"fail", "fail_trade"}
    /\ LET status == IF pc[w] = "fail" THEN "failed" ELSE "mint_completed_trade_failed"
       IN  UpdateJob(w, [job[held[w]] EXCEPT !.status = status], "idle", "idle")
    /\ UNCHANGED <<queue, sawMint, tries, http, chainVars, up, restarts>>

Work(w) ==
    \/ Dequeue(w) \/ Attest(w) \/ PollAttestation(w) \/ StoreAttestation(w)
    \/ ReceiveMessage(w) \/ RecordMint(w) \/ CloseMintOnly(w)
    \/ SubmitTrade(w) \/ RecordTrade(w)
    \/ FetchIntent(w) \/ Finalize(w) \/ RecordFinalize(w) \/ PreserveFinalize(w)
    \/ HandleError(w) \/ MarkFailed(w)
-----------------------------------------------------------------------------
(* HTTP handlers.  They are async functions without an await: one runs at  *)
(* a time, and only a crash ends it early.                                 *)

\* Faulty variant: a reservation or job in "pending" does not count.
UnseenOrPending(j) == job[j].status \in {"none", "pending"}

\* Faulty variant: a request is a duplicate only of a job still under way.
UnseenOrGivenUp(j) == job[j].status \in GivenUp \union {"none"}

\* The duplicate checks on burn_tx_hash and quote_id, and their unique indexes.
Unseen(j) == job[j].status = "none"

HttpAt(step) == http.step = step

HttpGoto(step, j) ==
    http' = IF step = "idle" THEN HttpIdle ELSE [step |-> step, job |-> j]

\* One database call on the row of job j, made by a handler.
HttpWrite(j, row, next, onError) ==
    \/ job' = [job EXCEPT ![j] = row] /\ UNCHANGED faults /\ HttpGoto(next, j)
    \/ FaultyUpdate(j, row) /\ HttpGoto(onError, j)

\* POST /api/bridge-and-trade for a burn and a quote not seen before.
CreateBridgeJob(j) ==
    /\ up /\ http = HttpIdle
    /\ j \in Jobs \ (IntentJobs \union ReserveJobs \union SubmitJobs)
    /\ Unseen(j)
    /\ HttpWrite(j, NewRow(FALSE), "enqueue", "idle")
    /\ UNCHANGED <<intent, queue, workerVars, chainVars, up, restarts>>

\* POST /api/bridge-and-trade/reserve
ReserveBridgeJob(j) ==
    /\ up /\ http = HttpIdle
    /\ j \in ReserveJobs
    /\ Unseen(j)
    /\ HttpWrite(j, NewRow(TRUE), "idle", "idle")
    /\ UNCHANGED <<intent, queue, workerVars, chainVars, up, restarts>>

\* POST /api/bridge-and-trade for a reserved quote.
FinalizeReservation(j) ==
    /\ up /\ http = HttpIdle
    /\ j \in ReserveJobs
    /\ job[j].status = "pending" /\ job[j].reserved
    /\ HttpWrite(j, [job[j] EXCEPT !.reserved = FALSE], "enqueue", "idle")
    /\ UNCHANGED <<intent, queue, workerVars, chainVars, up, restarts>>

\* POST /api/bridge/solana-cctp-burn/submit: refused while the user has an
\* active Solana job, otherwise reserve, broadcast, then finalise or fail.
ReserveBurn(j) ==
    /\ up /\ http = HttpIdle
    /\ j \in SubmitJobs
    /\ \A k \in SubmitJobs : UserOf[k] = UserOf[j] => job[k].status \notin Active
    /\ Unseen(j)
    /\ HttpWrite(j, NewRow(TRUE), "broadcast", "idle")
    /\ UNCHANGED <<intent, queue, workerVars, chainVars, up, restarts>>

\* submit_solana_cctp_burn_transaction does not look at err either.
BroadcastBurn ==
    /\ HttpAt("broadcast")
    /\ \/ /\ Confirmed(burn, http.job) \/ UNCHANGED burn
          /\ HttpGoto("finish_burn", http.job)
       \/ TimedOut(burn, http.job) /\ HttpGoto("fail_burn", http.job)
       \/ UNCHANGED burn /\ HttpGoto("fail_burn", http.job)
    /\ UNCHANGED <<rows, queue, workerVars, mint, exec, up, bounds>>

FinishBurn ==
    /\ HttpAt("finish_burn")
    /\ HttpWrite(http.job,
                 [job[http.job] EXCEPT !.reserved = FALSE, !.status = "pending"],
                 "enqueue", "idle")
    /\ UNCHANGED <<intent, queue, workerVars, chainVars, up, restarts>>

\* _mark_bridge_job_failed swallows a failed write and syncs no intent.
FailBurn ==
    /\ HttpAt("fail_burn")
    /\ HttpWrite(http.job, [job[http.job] EXCEPT !.status = "failed"], "idle", "idle")
    /\ UNCHANGED <<intent, queue, workerVars, chainVars, up, restarts>>

\* POST /api/capital-intents: insert the intent, insert and enqueue the job,
\* link the two.  A retry with the idempotency key of an existing intent
\* returns that intent and does nothing else.
InsertIntent(j) ==
    /\ up /\ http = HttpIdle
    /\ j \in IntentJobs
    /\ intent[j].status = "none"
    /\ \/ /\ intent' = [intent EXCEPT ![j].status = "pending"]
          /\ HttpGoto("create_job", j)
          /\ UNCHANGED faults
       \/ /\ Fault
          /\ \/ UNCHANGED intent
             \/ j \in LossyJobs /\ intent' = [intent EXCEPT ![j].status = "pending"]
          /\ HttpGoto("idle", j)
    /\ UNCHANGED <<job, queue, workerVars, chainVars, up, restarts>>

InsertIntentJob ==
    /\ HttpAt("create_job")
    /\ HttpWrite(http.job, NewRow(FALSE), "enqueue", "idle")
    /\ UNCHANGED <<intent, queue, workerVars, chainVars, up, restarts>>

EnqueueJob ==
    /\ HttpAt("enqueue")
    /\ queue' = Append(queue, http.job)
    /\ HttpGoto(IF http.job \in IntentJobs THEN "link" ELSE "idle", http.job)
    /\ UNCHANGED <<rows, workerVars, chainVars, up, bounds>>

LinkIntent ==
    /\ HttpAt("link")
    /\ LET linked == [intent EXCEPT ![http.job] = [status |-> "bridging", linked |-> TRUE]]
       IN  \/ intent' = linked /\ UNCHANGED faults
           \/ Fault /\ (UNCHANGED intent \/ (http.job \in LossyJobs /\ intent' = linked))
    /\ HttpGoto("idle", http.job)
    /\ UNCHANGED <<job, queue, workerVars, chainVars, up, restarts>>

Accept(j) ==
    \/ CreateBridgeJob(j) \/ ReserveBridgeJob(j) \/ FinalizeReservation(j)
    \/ ReserveBurn(j) \/ InsertIntent(j)

Handle ==
    \/ BroadcastBurn \/ FinishBurn \/ FailBurn
    \/ InsertIntentJob \/ EnqueueJob \/ LinkIntent
-----------------------------------------------------------------------------
(* The process and the chains. *)

Crash ==
    /\ up /\ restarts < MaxRestarts
    /\ up' = FALSE
    /\ restarts' = restarts + 1
    /\ queue' = <<>>
    /\ pc' = [w \in Workers |-> "idle"]
    /\ held' = [w \in Workers |-> NoJob]
    /\ sawMint' = [w \in Workers |-> FALSE]
    /\ tries' = [w \in Workers |-> 1]
    /\ http' = HttpIdle
    /\ UNCHANGED <<rows, chainVars, faults>>

\* Faulty variants: failed jobs are recovered; jobs in "trading" are not.
IncompleteOrFailed == {j \in Jobs : job[j].status \in Active \union GivenUp}
IncompleteBeforeTrading == {j \in Jobs : job[j].status \in Active \ {"trading"}}

Incomplete == {j \in Jobs : job[j].status \in Active}

\* run(): recover_incomplete_jobs enqueues before the first request is served.
\* If its read raises, the workers run on without the recovered jobs.
Restart ==
    /\ ~up
    /\ up' = TRUE
    /\ \/ queue' \in SetToSeqs(Incomplete) /\ UNCHANGED faults
       \/ Fault /\ UNCHANGED queue
    /\ UNCHANGED <<rows, workerVars, http, chainVars, restarts>>

\* The frontend burns for every route but the one this backend broadcasts.
UserBurn(j) ==
    /\ j \notin SubmitJobs
    /\ burn[j] = "no"
    /\ burn' = [burn EXCEPT ![j] = "yes"]
    /\ UNCHANGED <<rows, queue, workerVars, http, mint, exec, up, bounds>>

LandBurn(j) ==
    /\ burn[j] = "sent"
    /\ burn' = [burn EXCEPT ![j] = "yes"]
    /\ UNCHANGED <<rows, queue, workerVars, http, mint, exec, up, bounds>>

LandMint(j) ==
    /\ mint[j] = "sent"
    /\ mint' = [mint EXCEPT ![j] = "yes"]
    /\ UNCHANGED <<rows, queue, workerVars, http, burn, exec, up, bounds>>

LandExec(j) ==
    /\ exec[j] = "sent"
    /\ exec' = [exec EXCEPT ![j] = "yes"]
    /\ UNCHANGED <<rows, queue, workerVars, http, burn, mint, up, bounds>>

Chain(j) == UserBurn(j) \/ LandBurn(j) \/ LandMint(j) \/ LandExec(j)
-----------------------------------------------------------------------------
Next ==
    \/ \E w \in Workers : Work(w)
    \/ \E j \in Jobs : Accept(j) \/ Chain(j)
    \/ Handle
    \/ Crash \/ Restart

\* Workers, the handler under way and the platform's restart keep running.
\* Nobody has to call the API, and a transaction in flight need not land.
Fairness ==
    /\ \A w \in Workers : WF_vars(Work(w))
    /\ WF_vars(Handle)
    /\ WF_vars(Restart)

Spec == Init /\ [][Next]_vars
FairSpec == Spec /\ Fairness
-----------------------------------------------------------------------------
(* Properties. *)

\* Jobs whose destination transactions are checked to have succeeded.  The
\* reserved ones, which can be queued twice (recovery queues the reservation,
\* finalising it queues it again), are among the Solana jobs left out here.
Checked == Jobs \ SolanaJobs

\* Of these, the jobs whose verdict is final: a lost response makes the relayer
\* doubt a success it has already recorded, except on Arc, where the recorded
\* finalisation is looked up again.
Transfers == {j \in Checked : j \in LossyJobs => j \in ArcJobs}

\* A job that was never a reservation is in one place at a time: once in the
\* queue, or with one worker, or with neither (enqueue_job, _worker and
\* recover_incomplete_jobs together never process a job twice at once).
ProcessedOnce ==
    \A j \in Jobs \ ReserveJobs :
        /\ \A m, n \in DOMAIN queue : queue[m] = j /\ queue[n] = j => m = n
        /\ \A v, w \in Workers : held[v] = j /\ held[w] = j => v = w
        /\ \A n \in DOMAIN queue, w \in Workers : ~(queue[n] = j /\ held[w] = j)

\* What the row of a job that ends on Base or Arc claims happened on the chains
\* has happened there: the statuses the frontend and the intents act on, for
\* every interleaving of workers, failed writes, unconfirmed transactions and
\* crashes.  On Solana the code records what may have failed (run bridge_solana).
SuccessMeansDelivered ==
    \A j \in Checked :
        /\ job[j].status \in Completed \union {"trading"} => mint[j] = "yes"
        /\ /\ job[j].status \in Completed
           /\ j \in ArcJobs \union TradeJobs
           => exec[j] = "yes"

\* The chain never sees a second signed burn for a quote that was already
\* broadcast, whatever failed after the first one (the docstring of
\* _create_solana_burn_reservation_or_raise).
BurnBroadcastOnce ==
    [][BroadcastBurn => burn[http.job] = "no"]_vars

\* What a status tells the user of the transfer.
Verdict(status) ==
    CASE status = "none" -> "none"
      [] status \in Active -> "open"
      [] status \in Completed -> "succeeded"
      [] OTHER -> "failed"

Transfer == INSTANCE BridgeTransfer WITH
    NeedsFollowUp <- Transfers \intersect (ArcJobs \union TradeJobs),
    verdict <- [j \in Transfers |-> Verdict(job[j].status)],
    minted <- [j \in Transfers |-> mint[j] = "yes"],
    executed <- [j \in Transfers |-> exec[j] = "yes"]

\* The relayer implements the transfer it promises: verdicts match the chain,
\* follow-ups wait for the mint, and a success is never taken back.
ImplementsTransfer == Transfer!Spec

\* Once the database answers again, a job that is queued or being processed
\* reaches a verdict and keeps one: timeouts, refused transactions, crashes
\* and restarts included.
InHand(j) == (\E n \in DOMAIN queue : queue[n] = j) \/ (\E w \in Workers : held[w] = j)

JobsSettle ==
    \A j \in Jobs :
        (InHand(j) /\ ~job[j].reserved /\ faults = MaxFaults)
            ~> [](job[j].status \in Completed \union GivenUp)

\* mint_completed is only announced once the USDC is minted ("Relayer's job is
\* done after mint. Frontend polls for mint_completed, then executes the trade
\* itself"), on whatever chain.
MintCompletedMeansMinted ==
    \A j \in Jobs : job[j].status = "mint_completed" => mint[j] = "yes"

\* "Relayer's job is done after mint": at the least the relayer has been through
\* the mint of a job that it announces as mint_completed, and recorded its hash.
MintCompletedAfterMint ==
    \A j \in Jobs : job[j].status = "mint_completed" => job[j].mintTx
=============================================================================
