--------------------------- MODULE CapitalIntents ----------------------------
(***************************************************************************)
(* The capital intents API (capital_intents/routes.py) beside the bridge   *)
(* relayer, which keeps the intents of its jobs in step                    *)
(* (capital_intents/sync.py).                                              *)
(*                                                                         *)
(* Handlers do not give way to each other or to the relayer's next step,   *)
(* but one update of a job that the relayer has begun goes on in a thread  *)
(* while a handler runs.  Each intent has an idempotency key.              *)
(***************************************************************************)
EXTENDS Process

CONSTANTS
    Intents,
    TypeOf,         \* intent_type: "deposit", "deploy" or "return"
    MaxPatches      \* bound: PATCH requests

VARIABLES
    intents,        \* capital_movement_intents
    jobs,           \* bridge_jobs: status of the job with the key of each intent
    handler,        \* the request being handled
    sync,           \* the relayer's update of a job that is under way
    patches,        \* PATCH requests so far
    patched         \* history: intents an agent has patched

intentVars == <<intents, jobs, handler, sync, patches, patched>>

JobStates == {"pending", "attesting", "minting", "trading", "completed",
              "mint_completed", "mint_completed_trade_failed", "failed"}

IntentStates == {"pending", "bridging", "deployment_in_flight", "waiting_to_be_deployed",
                 "returned_to_usdc", "deployed", "retryable", "failed",
                 "premium_earned", "assigned_rotating", "claimable"}

IntentRow == [status : IntentStates, linked : BOOLEAN]

ASSUME IntentsAssumption ==
    /\ TypeOf \in [Intents -> {"deposit", "deploy", "return"}]
    /\ MaxPatches \in Nat
    /\ None \notin Intents \union IntentStates \union JobStates \union IntentRow

HandlerState ==
    [at : {"idle", "insert", "job", "link", "row", "write"},
     intent : Intents \union {None}, status : IntentStates \union {None}]

SyncState ==
    [at : {"idle", "job", "read", "write"}, intent : Intents \union {None},
     status : JobStates \union {None}]

IntentsTypeOK ==
    /\ intents \in [Intents -> IntentRow \union {None}]
    /\ jobs \in [Intents -> JobStates \union {None}]
    /\ handler \in HandlerState /\ sync \in SyncState
    /\ patches \in 0..MaxPatches /\ patched \subseteq Intents
    /\ ProcessTypeOK

Waiting == [at |-> "idle", intent |-> None, status |-> None]

IntentsInit ==
    /\ intents = [i \in Intents |-> None] /\ jobs = [i \in Intents |-> None]
    /\ handler = Waiting /\ sync = Waiting
    /\ patches = 0 /\ patched = {}

\* bridge_status_to_intent_status
IntentStatus(status, type) ==
    CASE status \in {"pending", "attesting", "minting"} -> "bridging"
      [] status = "trading" -> "deployment_in_flight"
      [] status \in {"completed", "mint_completed"} ->
            [deposit |-> "waiting_to_be_deployed", return |-> "returned_to_usdc",
             deploy |-> "deployed"][type]
      [] status = "mint_completed_trade_failed" -> "retryable"
      [] status = "failed" -> "failed"
      [] OTHER -> "pending"

Respond == handler' = Waiting
HandlerFails == Respond /\ Fault
-----------------------------------------------------------------------------
(* POST: the intent, then its job, then the link *)

\* The request, or a retry of it: an intent that is there is returned as it is.
Create(i) ==
    /\ handler.at = "idle"
    /\ \/ intents[i] # None /\ UNCHANGED handler /\ NoFault
       \/ /\ intents[i] = None
          /\ handler' = [at |-> "insert", intent |-> i, status |-> None] /\ NoFault
    /\ UNCHANGED <<intents, jobs, sync, patches, patched, restarts>>

NewIntent == [status |-> "pending", linked |-> FALSE]

InsertIntent ==
    LET i == handler.intent IN
    /\ handler.at = "insert"
    /\ \/ /\ intents' = [intents EXCEPT ![i] = NewIntent]
          /\ \/ handler' = [handler EXCEPT !.at = "job"] /\ NoFault
             \/ HandlerFails
       \/ UNCHANGED intents /\ HandlerFails
    /\ UNCHANGED <<jobs, sync, patches, patched, restarts>>

\* _create_bridge_job: also enqueued, if it is known to be there.
InsertJob ==
    LET i == handler.intent IN
    /\ handler.at = "job"
    /\ \/ /\ jobs[i] = None
          /\ jobs' = [jobs EXCEPT ![i] = "pending"]
          /\ \/ handler' = [handler EXCEPT !.at = "link"] /\ NoFault
             \/ HandlerFails
       \/ UNCHANGED jobs /\ HandlerFails
    /\ UNCHANGED <<intents, sync, patches, patched, restarts>>

LinkJob ==
    LET i == handler.intent IN
    /\ handler.at = "link"
    /\ \/ /\ intents' = [intents EXCEPT ![i] = [status |-> "bridging", linked |-> TRUE]]
          /\ Respond /\ NoFault
       \/ UNCHANGED intents /\ HandlerFails
    /\ UNCHANGED <<jobs, sync, patches, patched, restarts>>
-----------------------------------------------------------------------------
(* GET and PATCH *)

Get(i) ==
    /\ handler.at = "idle" /\ intents[i] # None
    /\ \/ handler' = [at |-> "row", intent |-> i, status |-> intents[i].status] /\ NoFault
       \/ UNCHANGED handler /\ Fault
    /\ UNCHANGED <<intents, jobs, sync, patches, patched, restarts>>

\* _sync_row_from_bridge compares the row it has read with the job it reads now.
ReadJob ==
    LET i == handler.intent
        status == IntentStatus(jobs[i], TypeOf[i]) IN
    /\ handler.at = "row"
    /\ \/ /\ ~intents[i].linked \/ handler.status = status
          /\ Respond /\ NoFault
       \/ /\ intents[i].linked /\ handler.status # status
          /\ handler' = [handler EXCEPT !.at = "write", !.status = status] /\ NoFault
       \/ HandlerFails
    /\ UNCHANGED <<intents, jobs, sync, patches, patched, restarts>>

WriteRow ==
    LET i == handler.intent IN
    /\ handler.at = "write"
    /\ \/ intents' = [intents EXCEPT ![i].status = handler.status] /\ Respond /\ NoFault
       \/ UNCHANGED intents /\ HandlerFails
    /\ UNCHANGED <<jobs, sync, patches, patched, restarts>>

\* An agent sets any status.
Patch(i, status) ==
    /\ handler.at = "idle" /\ intents[i] # None
    /\ patches < MaxPatches /\ patches' = patches + 1
    /\ intents' = [intents EXCEPT ![i].status = status]
    /\ patched' = patched \union {i}
    /\ UNCHANGED <<jobs, handler, sync, faults, restarts>>
-----------------------------------------------------------------------------
(* The relayer: _update_job and sync_capital_intents_for_bridge_job *)

\* Statuses a job takes after this one (see BridgeRelayer); a failed job that is
\* queued once more goes on behind its mint.
NextStates(status) ==
    CASE status = "pending"   -> {"attesting", "failed"}
      [] status = "attesting" -> {"minting", "failed"}
      [] status = "minting"   -> {"trading", "failed"}
      [] status = "trading"   -> {"completed", "mint_completed", "mint_completed_trade_failed"}
      [] status \in {"mint_completed_trade_failed", "failed"} ->
            {"completed", "mint_completed", "failed"} \ {status}
      [] OTHER -> {}

\* The next update starts while no handler runs.
BeginUpdate(i) ==
    /\ handler.at = "idle" /\ sync.at = "idle" /\ jobs[i] # None
    /\ \E status \in NextStates(jobs[i]) :
         sync' = [at |-> "job", intent |-> i, status |-> status]
    /\ UNCHANGED <<intents, jobs, handler, patches, patched, faults, restarts>>

UpdateBridgeJob ==
    /\ sync.at = "job"
    /\ \/ jobs' = [jobs EXCEPT ![sync.intent] = sync.status]
          /\ sync' = [sync EXCEPT !.at = "read"] /\ NoFault
       \/ UNCHANGED jobs /\ sync' = Waiting /\ Fault
    /\ UNCHANGED <<intents, handler, patches, patched, restarts>>

\* Faulty variant: only a final status is passed on to the intent.
ReadFinalOnly ==
    /\ sync.at = "read"
    /\ sync' = IF NextStates(sync.status) = {} THEN [sync EXCEPT !.at = "write"] ELSE Waiting
    /\ UNCHANGED <<intents, jobs, handler, patches, patched, faults, restarts>>

\* Intents linked to the job, if their status differs; a failure is logged.
ReadLinked ==
    LET i == sync.intent
        linked == intents[i] # None /\ intents[i].linked
        status == IntentStatus(sync.status, TypeOf[i]) IN
    /\ sync.at = "read"
    /\ \/ /\ linked /\ intents[i].status # status
          /\ sync' = [sync EXCEPT !.at = "write"] /\ NoFault
       \/ /\ ~linked \/ intents[i].status = status
          /\ sync' = Waiting /\ NoFault
       \/ sync' = Waiting /\ Fault
    /\ UNCHANGED <<intents, jobs, handler, patches, patched, restarts>>

WriteLinked ==
    LET i == sync.intent IN
    /\ sync.at = "write"
    /\ \/ intents' = [intents EXCEPT ![i].status = IntentStatus(sync.status, TypeOf[i])]
          /\ NoFault
       \/ UNCHANGED intents /\ Fault
    /\ sync' = Waiting
    /\ UNCHANGED <<jobs, handler, patches, patched, restarts>>

\* The process dies, in a handler or an update.
IntentsCrash ==
    /\ handler.at # "idle" \/ sync.at # "idle"
    /\ Restart
    /\ handler' = Waiting /\ sync' = Waiting
    /\ UNCHANGED <<intents, jobs, patches, patched, faults>>

IntentsNext ==
    \/ \E i \in Intents : Create(i) \/ Get(i) \/ BeginUpdate(i)
    \/ \E i \in Intents : \E status \in IntentStates : Patch(i, status)
    \/ InsertIntent \/ InsertJob \/ LinkJob \/ ReadJob \/ WriteRow
    \/ UpdateBridgeJob \/ ReadLinked \/ WriteLinked \/ IntentsCrash

IntentsSpec ==
    IntentsInit /\ ProcessInit /\ [][IntentsNext]_<<intentVars, faults, restarts>>
-----------------------------------------------------------------------------
(* Properties. *)

\* No job moves money without its intent, whatever step of the request fails
\* or is tried again; it stays without a link only if a call failed or the
\* process died - then for ever, since a retry returns the intent as it is.
\* And two writers, one of them holding what it has read for a while, keep the
\* intent in step with the job: between updates and requests it says what the
\* job says, until a call fails, the process dies or an agent patches it.
IntentsFollowJobs ==
    \A i \in Intents : jobs[i] # None =>
        /\ intents[i] # None
        /\ faults + restarts = 0 => intents[i].linked \/ handler.intent = i
        /\ (/\ intents[i].linked /\ i \notin patched /\ faults + restarts = 0
            /\ sync.at = "idle" /\ handler.at = "idle")
               => intents[i].status = IntentStatus(jobs[i], TypeOf[i])
=============================================================================
