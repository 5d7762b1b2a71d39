------------------------ MODULE CapitalIntentsProofs -------------------------
(***************************************************************************)
(* Theorems about capital intents and their bridge jobs for every set of   *)
(* intents and every number of requests and failures.                      *)
(***************************************************************************)
EXTENDS CapitalIntents, TLAPS

vars == <<intentVars, faults, restarts>>

-----------------------------------------------------------------------------
(* Type correctness.  Whoever is at work has an intent, and the status it  *)
(* is about to write.                                                      *)

Linked(i) == intents[i] # None /\ intents[i].linked

HandlerBusy ==
    handler.at # "idle" =>
        /\ handler.intent \in Intents
        /\ handler.at = "insert" <=> intents[handler.intent] = None
        /\ handler.at \in {"row", "write"} => handler.status \in IntentStates
        /\ handler.at = "write" => Linked(handler.intent)

SyncBusy ==
    sync.at # "idle" =>
        /\ sync.intent \in Intents /\ sync.status \in JobStates
        /\ jobs[sync.intent] # None
        /\ sync.at = "write" => Linked(sync.intent)

IntentTypeInv == IntentsTypeOK /\ HandlerBusy /\ SyncBusy

LEMMA StatusTypes ==
    ASSUME NEW i \in Intents, NEW status
    PROVE  IntentStatus(status, TypeOf[i]) \in IntentStates
<1>1. TypeOf[i] \in {"deposit", "deploy", "return"}
  BY IntentsAssumption
<1>2. CASE TypeOf[i] = "deposit"
  BY <1>2 DEF IntentStatus, IntentStates
<1>3. CASE TypeOf[i] = "deploy"
  BY <1>3 DEF IntentStatus, IntentStates
<1>4. CASE TypeOf[i] = "return"
  BY <1>4 DEF IntentStatus, IntentStates
<1> QED BY <1>1, <1>2, <1>3, <1>4

LEMMA WaitingTypes == Waiting \in HandlerState /\ Waiting \in SyncState /\ Waiting.at = "idle"
BY DEF Waiting, HandlerState, SyncState

LEMMA IntentFaultTypes == ProcessTypeOK /\ (Fault \/ NoFault) /\ UNCHANGED restarts => ProcessTypeOK'
BY ProcessAssumption DEF ProcessTypeOK, Fault, NoFault

LEMMA IntentInitTypes == IntentsInit /\ ProcessInit => IntentTypeInv
<1> SUFFICES ASSUME IntentsInit, ProcessInit PROVE IntentTypeInv
  OBVIOUS
<1>1. HandlerBusy /\ SyncBusy
  BY WaitingTypes DEF IntentsInit, HandlerBusy, SyncBusy
<1>2. IntentsTypeOK
  BY WaitingTypes, ProcessAssumption, IntentsAssumption
  DEF IntentsInit, IntentsTypeOK, ProcessInit, ProcessTypeOK
<1> QED BY <1>1, <1>2 DEF IntentTypeInv

\* Rows of intents that are there, as records.
LEMMA RowTypes ==
    ASSUME IntentTypeInv, NEW i \in Intents, intents[i] # None
    PROVE  intents[i] \in IntentRow
BY DEF IntentTypeInv, IntentsTypeOK

LEMMA RowStatusTypes ==
    ASSUME NEW row \in IntentRow, NEW status \in IntentStates
    PROVE  /\ [row EXCEPT !.status = status] \in IntentRow
           /\ [row EXCEPT !.status = status].linked = row.linked
           /\ [row EXCEPT !.status = status].status = status
           /\ [row EXCEPT !.status = status] # None
BY IntentsAssumption DEF IntentRow

\* A status is written to the row of i, which is there.
LEMMA StatusWritten ==
    ASSUME IntentTypeInv, NEW i \in Intents, intents[i] # None, NEW status \in IntentStates,
           intents' = [intents EXCEPT ![i].status = status]
    PROVE  /\ intents' \in [Intents -> IntentRow \union {None}]
           /\ \A j \in Intents : j # i => intents'[j] = intents[j]
           /\ intents'[i] # None /\ intents'[i].linked = intents[i].linked
           /\ intents'[i].status = status
<1>1. intents[i] \in IntentRow
  BY RowTypes
<1>2. intents' = [intents EXCEPT ![i] = [intents[i] EXCEPT !.status = status]]
  BY DEF IntentTypeInv, IntentsTypeOK
<1> QED BY <1>1, <1>2, RowStatusTypes DEF IntentTypeInv, IntentsTypeOK

\* The handler and the update after a step, as records.
LEMMA HandlerTypes ==
    ASSUME IntentTypeInv, NEW at \in {"idle", "insert", "job", "link", "row", "write"},
           NEW i \in Intents, NEW status \in IntentStates
    PROVE  /\ [at |-> at, intent |-> i, status |-> status] \in HandlerState
           /\ [handler EXCEPT !.at = at] \in HandlerState
           /\ [handler EXCEPT !.at = at, !.status = status] \in HandlerState
BY DEF IntentTypeInv, IntentsTypeOK, HandlerState, Waiting

LEMMA SyncTypes ==
    ASSUME IntentTypeInv, NEW at \in {"idle", "job", "read", "write"},
           NEW i \in Intents, NEW status \in JobStates
    PROVE  /\ [at |-> at, intent |-> i, status |-> status] \in SyncState
           /\ [sync EXCEPT !.at = at] \in SyncState
BY DEF IntentTypeInv, IntentsTypeOK, SyncState

\* No intent or job disappears, no intent loses its link.
Grow == \A i \in Intents : /\ intents[i] # None => intents'[i] # None
                           /\ Linked(i) => Linked(i)'
                           /\ jobs[i] # None => jobs'[i] # None

LEMMA SyncStays ==
    ASSUME IntentTypeInv, Grow, sync' = sync \/ sync' = Waiting
    PROVE  SyncBusy' /\ sync' \in SyncState
BY WaitingTypes DEF IntentTypeInv, IntentsTypeOK, Grow, SyncBusy, Linked

LEMMA HandlerStays ==
    ASSUME IntentTypeInv, Grow,
           \/ handler' = Waiting
           \/ handler' = handler /\ (handler.at = "insert" =>
                                      intents'[handler.intent] = intents[handler.intent])
    PROVE  HandlerBusy' /\ handler' \in HandlerState
BY WaitingTypes DEF IntentTypeInv, IntentsTypeOK, Grow, HandlerBusy, Linked

LEMMA NothingWritten == UNCHANGED <<intents, jobs>> => Grow
BY DEF Grow, Linked

-----------------------------------------------------------------------------
LEMMA CreateTypes == ASSUME IntentTypeInv, NEW i \in Intents, Create(i) PROVE IntentTypeInv'
<1> DEFINE new == [at |-> "insert", intent |-> i, status |-> None]
<1>1. new \in HandlerState
  BY DEF HandlerState
<1>2. ProcessTypeOK' /\ SyncBusy' /\ sync' \in SyncState
  <2>1. NoFault /\ UNCHANGED restarts
    BY DEF Create
  <2>2. ProcessTypeOK'
    BY <2>1, IntentFaultTypes DEF IntentTypeInv, IntentsTypeOK
  <2>3. SyncBusy' /\ sync' \in SyncState
    BY SyncStays, NothingWritten DEF Create
  <2> QED BY <2>2, <2>3
<1>3. CASE UNCHANGED handler
  BY <1>2, <1>3, HandlerStays, NothingWritten DEF Create, IntentTypeInv, IntentsTypeOK
<1>4. CASE handler' = new /\ intents[i] = None
  <2>1. HandlerBusy'
    BY <1>4 DEF Create, HandlerBusy
  <2> QED BY <2>1, <1>1, <1>2, <1>4 DEF Create, IntentTypeInv, IntentsTypeOK
<1> QED BY <1>1, <1>3, <1>4 DEF Create

LEMMA InsertIntentTypes == ASSUME IntentTypeInv, InsertIntent PROVE IntentTypeInv' /\ Grow
<1> DEFINE i == handler.intent
<1>1. i \in Intents /\ handler.at = "insert" /\ intents[i] = None
  BY DEF InsertIntent, IntentTypeInv, HandlerBusy
<1>2. handler' \in HandlerState /\ ProcessTypeOK'
  BY <1>1, WaitingTypes, IntentFaultTypes DEF InsertIntent, HandlerFails, Respond, IntentTypeInv, IntentsTypeOK, HandlerState
<1>3. NewIntent \in IntentRow /\ NewIntent # None
  <2>1. NewIntent \in IntentRow
    BY DEF NewIntent, IntentRow, IntentStates
  <2> QED BY <2>1, IntentsAssumption
<1>4. /\ intents' \in [Intents -> IntentRow \union {None}]
      /\ \A j \in Intents : j # i => intents'[j] = intents[j]
      /\ intents'[i] = NewIntent \/ UNCHANGED intents
  BY <1>1, <1>3 DEF InsertIntent, IntentTypeInv, IntentsTypeOK
<1>5. Grow
  BY <1>1, <1>4 DEF InsertIntent, Grow, Linked
<1>6. HandlerBusy'
  <2>1. CASE handler' = Waiting
    BY <2>1, <1>5, HandlerStays
  <2>2. CASE handler' = [handler EXCEPT !.at = "job"] /\ intents' = [intents EXCEPT ![i] = NewIntent]
    <3>1. handler'.intent = i /\ handler'.at = "job"
      BY <2>2 DEF IntentTypeInv, IntentsTypeOK, HandlerState
    <3>2. intents'[i] = NewIntent
      BY <2>2, <1>1 DEF IntentTypeInv, IntentsTypeOK
    <3> QED BY <3>1, <3>2, <1>1, <1>3 DEF HandlerBusy
  <2> QED BY <2>1, <2>2 DEF InsertIntent, HandlerFails, Respond
<1>7. SyncBusy' /\ sync' \in SyncState
  BY <1>5, SyncStays DEF InsertIntent
<1> QED BY <1>2, <1>4, <1>5, <1>6, <1>7 DEF InsertIntent, IntentTypeInv, IntentsTypeOK

LEMMA InsertJobTypes == ASSUME IntentTypeInv, InsertJob PROVE IntentTypeInv' /\ Grow
<1> DEFINE i == handler.intent
<1>1. i \in Intents /\ handler.at = "job" /\ intents[i] # None
  BY DEF InsertJob, IntentTypeInv, HandlerBusy
<1>2. handler' \in HandlerState /\ ProcessTypeOK'
  BY <1>1, WaitingTypes, IntentFaultTypes DEF InsertJob, HandlerFails, Respond, IntentTypeInv, IntentsTypeOK, HandlerState
<1>3. /\ jobs' \in [Intents -> JobStates \union {None}]
      /\ \A j \in Intents : j # i => jobs'[j] = jobs[j]
      /\ jobs'[i] = "pending" \/ UNCHANGED jobs
  BY <1>1 DEF InsertJob, IntentTypeInv, IntentsTypeOK, JobStates
<1>4. Grow
  BY <1>1, <1>3, IntentsAssumption DEF InsertJob, Grow, Linked, JobStates
<1>5. HandlerBusy'
  <2>1. CASE handler' = Waiting
    BY <2>1, <1>4, HandlerStays
  <2>2. CASE handler' = [handler EXCEPT !.at = "link"]
    <3>1. handler'.intent = i /\ handler'.at = "link"
      BY <2>2 DEF IntentTypeInv, IntentsTypeOK, HandlerState
    <3> QED BY <3>1, <1>1, <1>4 DEF HandlerBusy, Grow
  <2> QED BY <2>1, <2>2 DEF InsertJob, HandlerFails, Respond
<1>6. SyncBusy' /\ sync' \in SyncState
  BY <1>4, SyncStays DEF InsertJob
<1> QED BY <1>2, <1>3, <1>4, <1>5, <1>6 DEF InsertJob, IntentTypeInv, IntentsTypeOK

LEMMA LinkJobTypes == ASSUME IntentTypeInv, LinkJob PROVE IntentTypeInv' /\ Grow
<1> DEFINE i == handler.intent
           row == [status |-> "bridging", linked |-> TRUE]
<1>1. i \in Intents /\ handler.at = "link" /\ intents[i] # None
  BY DEF LinkJob, IntentTypeInv, HandlerBusy
<1>2. ProcessTypeOK' /\ handler' = Waiting
  BY IntentFaultTypes DEF LinkJob, HandlerFails, Respond, IntentTypeInv, IntentsTypeOK
<1>3. row \in IntentRow /\ row # None /\ row.linked
  <2>1. row \in IntentRow
    BY DEF IntentRow, IntentStates
  <2> QED BY <2>1, IntentsAssumption
<1>4. /\ intents' \in [Intents -> IntentRow \union {None}]
      /\ \A j \in Intents : j # i => intents'[j] = intents[j]
      /\ intents'[i] = row \/ UNCHANGED intents
  BY <1>1, <1>3 DEF LinkJob, IntentTypeInv, IntentsTypeOK
<1>5. Grow
  BY <1>1, <1>3, <1>4 DEF LinkJob, Grow, Linked
<1>6. HandlerBusy' /\ handler' \in HandlerState
  BY <1>2, <1>5, HandlerStays
<1>7. SyncBusy' /\ sync' \in SyncState
  BY <1>5, SyncStays DEF LinkJob
<1> QED BY <1>2, <1>4, <1>5, <1>6, <1>7 DEF LinkJob, IntentTypeInv, IntentsTypeOK

LEMMA GetTypes == ASSUME IntentTypeInv, NEW i \in Intents, Get(i) PROVE IntentTypeInv'
<1>1. intents[i] \in IntentRow /\ intents[i].status \in IntentStates
  BY RowTypes DEF Get, IntentRow
<1>2. handler' \in HandlerState /\ ProcessTypeOK'
  BY <1>1, HandlerTypes, IntentFaultTypes DEF Get, IntentTypeInv, IntentsTypeOK
<1>3. HandlerBusy'
  BY <1>1 DEF Get, IntentTypeInv, HandlerBusy
<1>4. SyncBusy' /\ sync' \in SyncState
  BY SyncStays, NothingWritten DEF Get
<1> QED BY <1>2, <1>3, <1>4 DEF Get, IntentTypeInv, IntentsTypeOK

LEMMA ReadJobTypes == ASSUME IntentTypeInv, ReadJob PROVE IntentTypeInv'
<1> DEFINE i == handler.intent
           status == IntentStatus(jobs[i], TypeOf[i])
<1>1. i \in Intents /\ handler.at = "row" /\ intents[i] # None
  BY DEF ReadJob, IntentTypeInv, HandlerBusy
<1>2. status \in IntentStates
  BY <1>1, StatusTypes
<1>3. ProcessTypeOK'
  BY IntentFaultTypes DEF ReadJob, HandlerFails, IntentTypeInv, IntentsTypeOK
<1>4. SyncBusy' /\ sync' \in SyncState
  BY SyncStays, NothingWritten DEF ReadJob
<1>5. CASE handler' = Waiting
  BY <1>3, <1>4, <1>5, HandlerStays, NothingWritten DEF ReadJob, IntentTypeInv, IntentsTypeOK
<1>6. CASE intents[i].linked /\ handler' = [handler EXCEPT !.at = "write", !.status = status]
  <2>1. handler' \in HandlerState
    BY <1>1, <1>2, <1>6, HandlerTypes
  <2>2. handler'.at = "write" /\ handler'.intent = i /\ handler'.status = status
    BY <1>6 DEF IntentTypeInv, IntentsTypeOK, HandlerState
  <2>3. HandlerBusy'
    BY <2>2, <1>1, <1>2, <1>6 DEF ReadJob, HandlerBusy, Linked
  <2> QED BY <2>1, <2>3, <1>3, <1>4 DEF ReadJob, IntentTypeInv, IntentsTypeOK
<1> QED BY <1>5, <1>6 DEF ReadJob, HandlerFails, Respond

LEMMA WriteRowTypes == ASSUME IntentTypeInv, WriteRow PROVE IntentTypeInv' /\ Grow
<1> DEFINE i == handler.intent
<1>1. i \in Intents /\ intents[i] # None /\ handler.status \in IntentStates
  BY DEF WriteRow, IntentTypeInv, HandlerBusy
<1>2. ProcessTypeOK' /\ handler' = Waiting
  BY IntentFaultTypes DEF WriteRow, HandlerFails, Respond, IntentTypeInv, IntentsTypeOK
<1>3. intents' \in [Intents -> IntentRow \union {None}] /\ Grow
  <2>1. CASE intents' = [intents EXCEPT ![i].status = handler.status]
    BY <2>1, <1>1, StatusWritten DEF WriteRow, Grow, Linked
  <2>2. CASE UNCHANGED intents
    BY <2>2, NothingWritten DEF WriteRow, IntentTypeInv, IntentsTypeOK
  <2> QED BY <2>1, <2>2 DEF WriteRow
<1>4. HandlerBusy' /\ handler' \in HandlerState
  BY <1>2, <1>3, HandlerStays
<1>5. SyncBusy' /\ sync' \in SyncState
  BY <1>3, SyncStays DEF WriteRow
<1> QED BY <1>2, <1>3, <1>4, <1>5 DEF WriteRow, IntentTypeInv, IntentsTypeOK

LEMMA PatchTypes ==
    ASSUME IntentTypeInv, NEW i \in Intents, NEW status \in IntentStates, Patch(i, status)
    PROVE  IntentTypeInv' /\ Grow
<1>1. intents' \in [Intents -> IntentRow \union {None}] /\ Grow
  BY StatusWritten DEF Patch, Grow, Linked
<1>2. patches' \in 0..MaxPatches /\ patched' \subseteq Intents /\ ProcessTypeOK'
  BY IntentsAssumption DEF Patch, IntentTypeInv, IntentsTypeOK, ProcessTypeOK
<1>3. HandlerBusy' /\ handler' \in HandlerState
  BY <1>1, HandlerStays DEF Patch
<1>4. SyncBusy' /\ sync' \in SyncState
  BY <1>1, SyncStays DEF Patch
<1> QED BY <1>1, <1>2, <1>3, <1>4 DEF Patch, IntentTypeInv, IntentsTypeOK

LEMMA BeginUpdateTypes == ASSUME IntentTypeInv, NEW i \in Intents, BeginUpdate(i) PROVE IntentTypeInv'
<1>1. PICK status \in NextStates(jobs[i]) :
        sync' = [at |-> "job", intent |-> i, status |-> status]
  BY DEF BeginUpdate
<1>2. status \in JobStates
  BY <1>1 DEF NextStates, JobStates
<1>3. sync' \in SyncState /\ SyncBusy'
  BY <1>1, <1>2, SyncTypes DEF BeginUpdate, SyncBusy
<1>4. HandlerBusy' /\ handler' \in HandlerState
  BY HandlerStays, NothingWritten DEF BeginUpdate
<1> QED BY <1>3, <1>4 DEF BeginUpdate, IntentTypeInv, IntentsTypeOK, ProcessTypeOK

LEMMA UpdateBridgeJobTypes == ASSUME IntentTypeInv, UpdateBridgeJob PROVE IntentTypeInv' /\ Grow
<1> DEFINE i == sync.intent
<1>1. i \in Intents /\ sync.at = "job" /\ sync.status \in JobStates /\ jobs[i] # None
  BY DEF UpdateBridgeJob, IntentTypeInv, SyncBusy
<1>2. ProcessTypeOK'
  BY IntentFaultTypes DEF UpdateBridgeJob, IntentTypeInv, IntentsTypeOK
<1>3. /\ jobs' \in [Intents -> JobStates \union {None}]
      /\ \A j \in Intents : j # i => jobs'[j] = jobs[j]
      /\ jobs'[i] = sync.status \/ UNCHANGED jobs
  BY <1>1 DEF UpdateBridgeJob, IntentTypeInv, IntentsTypeOK
<1>4. Grow
  BY <1>1, <1>3, IntentsAssumption DEF UpdateBridgeJob, Grow, Linked
<1>5. SyncBusy' /\ sync' \in SyncState
  <2>1. CASE sync' = Waiting
    BY <2>1, <1>4, SyncStays
  <2>2. CASE sync' = [sync EXCEPT !.at = "read"]
    <3>1. sync' \in SyncState
      BY <2>2, <1>1, SyncTypes
    <3>2. sync'.at = "read" /\ sync'.intent = i /\ sync'.status = sync.status
      BY <2>2 DEF IntentTypeInv, IntentsTypeOK, SyncState
    <3> QED BY <3>1, <3>2, <1>1, <1>4 DEF SyncBusy, Grow
  <2> QED BY <2>1, <2>2 DEF UpdateBridgeJob
<1>6. HandlerBusy' /\ handler' \in HandlerState
  BY <1>4, HandlerStays DEF UpdateBridgeJob
<1> QED BY <1>2, <1>3, <1>4, <1>5, <1>6 DEF UpdateBridgeJob, IntentTypeInv, IntentsTypeOK

LEMMA ReadLinkedTypes == ASSUME IntentTypeInv, ReadLinked PROVE IntentTypeInv'
<1> DEFINE i == sync.intent
<1>1. i \in Intents /\ sync.at = "read" /\ sync.status \in JobStates /\ jobs[i] # None
  BY DEF ReadLinked, IntentTypeInv, SyncBusy
<1>2. ProcessTypeOK' /\ HandlerBusy' /\ handler' \in HandlerState
  BY IntentFaultTypes, HandlerStays, NothingWritten DEF ReadLinked, IntentTypeInv, IntentsTypeOK
<1>3. SyncBusy' /\ sync' \in SyncState
  <2>1. CASE sync' = Waiting
    BY <2>1, SyncStays, NothingWritten DEF ReadLinked
  <2>2. CASE sync' = [sync EXCEPT !.at = "write"] /\ Linked(i)
    <3>1. sync' \in SyncState
      BY <2>2, <1>1, SyncTypes
    <3>2. sync'.at = "write" /\ sync'.intent = i /\ sync'.status = sync.status
      BY <2>2 DEF IntentTypeInv, IntentsTypeOK, SyncState
    <3> QED BY <3>1, <3>2, <2>2, <1>1 DEF ReadLinked, SyncBusy, Linked
  <2> QED BY <2>1, <2>2 DEF ReadLinked, Linked
<1> QED BY <1>2, <1>3 DEF ReadLinked, IntentTypeInv, IntentsTypeOK

LEMMA WriteLinkedTypes == ASSUME IntentTypeInv, WriteLinked PROVE IntentTypeInv' /\ Grow
<1> DEFINE i == sync.intent
           status == IntentStatus(sync.status, TypeOf[i])
<1>1. i \in Intents /\ intents[i] # None /\ sync.at = "write"
  BY DEF WriteLinked, IntentTypeInv, SyncBusy, Linked
<1>2. status \in IntentStates
  BY <1>1, StatusTypes
<1>3. intents' \in [Intents -> IntentRow \union {None}] /\ Grow
  <2>1. CASE intents' = [intents EXCEPT ![i].status = status]
    BY <2>1, <1>1, <1>2, StatusWritten DEF WriteLinked, Grow, Linked
  <2>2. CASE UNCHANGED intents
    BY <2>2, NothingWritten DEF WriteLinked, IntentTypeInv, IntentsTypeOK
  <2> QED BY <2>1, <2>2 DEF WriteLinked
<1>4. ProcessTypeOK' /\ SyncBusy' /\ sync' \in SyncState
  BY <1>3, IntentFaultTypes, SyncStays DEF WriteLinked, IntentTypeInv, IntentsTypeOK
<1>5. handler.at = "insert" => intents'[handler.intent] = intents[handler.intent]
  BY <1>1, <1>2, StatusWritten DEF WriteLinked, IntentTypeInv, HandlerBusy
<1>6. HandlerBusy' /\ handler' \in HandlerState
  BY <1>3, <1>5, HandlerStays DEF WriteLinked
<1> QED BY <1>3, <1>4, <1>6 DEF WriteLinked, IntentTypeInv, IntentsTypeOK

LEMMA IntentCrashTypes == ASSUME IntentTypeInv, IntentsCrash PROVE IntentTypeInv'
<1>1. ProcessTypeOK'
  BY ProcessAssumption DEF IntentsCrash, Restart, IntentTypeInv, IntentsTypeOK, ProcessTypeOK
<1>2. HandlerBusy' /\ handler' \in HandlerState /\ SyncBusy' /\ sync' \in SyncState
  BY HandlerStays, SyncStays, NothingWritten DEF IntentsCrash
<1> QED BY <1>1, <1>2 DEF IntentsCrash, IntentTypeInv, IntentsTypeOK

LEMMA TypeStep == IntentTypeInv /\ [IntentsNext]_vars => IntentTypeInv'
<1> SUFFICES ASSUME IntentTypeInv, [IntentsNext]_vars PROVE IntentTypeInv'
  OBVIOUS
<1>1. CASE UNCHANGED vars
  BY <1>1 DEF vars, intentVars, IntentTypeInv, IntentsTypeOK, HandlerBusy, SyncBusy, Linked, ProcessTypeOK
<1>2. CASE IntentsNext
  BY <1>2, CreateTypes, GetTypes, BeginUpdateTypes, PatchTypes, InsertIntentTypes,
     InsertJobTypes, LinkJobTypes, ReadJobTypes, WriteRowTypes, UpdateBridgeJobTypes,
     ReadLinkedTypes, WriteLinkedTypes, IntentCrashTypes DEF IntentsNext
<1> QED BY <1>1, <1>2

\* Intents, jobs, requests and updates are well typed, for every set of intents
\* and every number of requests and failures (IntentsTypeOK).
THEOREM IntentTypeCorrect == IntentsSpec => []IntentsTypeOK
<1>1. IntentTypeInv => IntentsTypeOK
  BY DEF IntentTypeInv
<1> QED BY IntentInitTypes, TypeStep, <1>1, PTL DEF IntentsSpec, vars
-----------------------------------------------------------------------------
(* The intents follow their jobs.                                          *)

NoFailure == faults = 0 /\ restarts = 0

JobStatus(i) == IntentStatus(jobs[i], TypeOf[i])

\* The update of the job of i has written the job and not yet the intent.
Passing(i) == sync.at \in {"read", "write"} /\ sync.intent = i

\* No job without an intent, no link without a job.
JobInv ==
    \A i \in Intents :
        /\ jobs[i] # None => intents[i] # None
        /\ Linked(i) => jobs[i] # None

\* A request about to link a job is alone with it; one that reads an intent
\* while an update has begun holds the row as it is.
HandlerInv ==
    /\ handler.at = "link" => /\ jobs[handler.intent] = "pending"
                              /\ sync.at # "idle" => sync.intent # handler.intent
    /\ handler.at = "row" /\ sync.at = "job" =>
            handler.status = intents[handler.intent].status

SyncInv == sync.at \in {"read", "write"} => sync.status = jobs[sync.intent]

LinkInv ==
    NoFailure => \A i \in Intents : jobs[i] # None =>
        Linked(i) \/ (handler.at = "link" /\ handler.intent = i)

\* What an intent says, and what a request is about to write to it.
StatusInv ==
    NoFailure => \A i \in Intents \ patched :
        /\ Linked(i) => Passing(i) \/ intents[i].status = JobStatus(i)
        /\ handler.at = "write" /\ handler.intent = i =>
              /\ handler.status = JobStatus(i)
              /\ ~(sync.at = "job" /\ sync.intent = i)

FollowInv == JobInv /\ HandlerInv /\ SyncInv /\ LinkInv /\ StatusInv

LEMMA InitFollows == IntentsInit => FollowInv
BY WaitingTypes DEF IntentsInit, FollowInv, JobInv, HandlerInv, SyncInv, LinkInv, StatusInv, Linked

\* The first failure ends NoFailure for good.
LEMMA FailuresRemain ==
    ASSUME IntentTypeInv, NoFailure'
    PROVE  /\ ~Fault /\ ~Restart
           /\ NoFault /\ UNCHANGED restarts => NoFailure
<1>1. faults \in Nat /\ restarts \in Nat
  BY ProcessAssumption DEF IntentTypeInv, IntentsTypeOK, ProcessTypeOK
<1> QED BY <1>1 DEF NoFailure, Fault, Restart, NoFault

LEMMA CreateFollows ==
    ASSUME IntentTypeInv, FollowInv, NEW i \in Intents, Create(i) PROVE FollowInv'
<1>1. handler.at = "idle" /\ handler'.at \in {"idle", "insert"}
  BY WaitingTypes DEF Create, Waiting
<1>2. NoFailure' => NoFailure
  BY FailuresRemain DEF Create
<1>3. JobInv' /\ HandlerInv' /\ SyncInv'
  BY <1>1 DEF Create, FollowInv, JobInv, HandlerInv, SyncInv, Linked
<1>4. LinkInv' /\ StatusInv'
  BY <1>1, <1>2 DEF Create, FollowInv, LinkInv, StatusInv, Linked, Passing, JobStatus
<1> QED BY <1>3, <1>4 DEF FollowInv

LEMMA InsertIntentFollows == ASSUME IntentTypeInv, FollowInv, InsertIntent PROVE FollowInv'
<1> DEFINE i == handler.intent
<1>1. i \in Intents /\ intents[i] = None /\ jobs[i] = None /\ handler.at = "insert"
  BY DEF InsertIntent, IntentTypeInv, HandlerBusy, FollowInv, JobInv
<1>2. handler'.at \in {"idle", "job"}
  BY WaitingTypes DEF InsertIntent, HandlerFails, Respond, IntentTypeInv, IntentsTypeOK, HandlerState
<1>3. /\ \A j \in Intents : j # i => intents'[j] = intents[j]
      /\ ~NewIntent.linked
      /\ intents'[i] = NewIntent \/ UNCHANGED intents
  BY <1>1 DEF InsertIntent, IntentTypeInv, IntentsTypeOK, NewIntent
<1>4. \A j \in Intents : Linked(j)' => j # i /\ Linked(j) /\ intents'[j] = intents[j]
  BY <1>1, <1>3 DEF Linked
<1>5. NoFailure' => NoFailure
  BY FailuresRemain DEF InsertIntent, HandlerFails
<1>6. JobInv' /\ HandlerInv' /\ SyncInv'
  BY <1>1, <1>2, <1>3, <1>4 DEF InsertIntent, FollowInv, JobInv, HandlerInv, SyncInv
<1>7. LinkInv'
  BY <1>1, <1>3, <1>5 DEF InsertIntent, FollowInv, LinkInv, Linked
<1>8. StatusInv'
  BY <1>2, <1>4, <1>5 DEF InsertIntent, FollowInv, StatusInv, Passing, JobStatus
<1> QED BY <1>6, <1>7, <1>8 DEF FollowInv

LEMMA InsertJobFollows == ASSUME IntentTypeInv, FollowInv, InsertJob PROVE FollowInv'
<1> DEFINE i == handler.intent
<1>1. i \in Intents /\ intents[i] # None /\ handler.at = "job"
  BY DEF InsertJob, IntentTypeInv, HandlerBusy
<1>2. CASE UNCHANGED jobs /\ HandlerFails
  <2>1. handler'.at = "idle" /\ ~NoFailure'
    BY <1>2, WaitingTypes, FailuresRemain DEF HandlerFails, Respond
  <2> QED BY <2>1, <1>2 DEF InsertJob, FollowInv, JobInv, HandlerInv, SyncInv, LinkInv, StatusInv, Linked
<1>3. CASE jobs[i] = None /\ jobs' = [jobs EXCEPT ![i] = "pending"]
  <2>1. jobs'[i] = "pending" /\ \A j \in Intents : j # i => jobs'[j] = jobs[j]
    BY <1>1, <1>3 DEF IntentTypeInv, IntentsTypeOK
  <2>2. ~Linked(i) /\ (sync.at # "idle" => sync.intent \in Intents /\ sync.intent # i)
    BY <1>1, <1>3 DEF IntentTypeInv, SyncBusy, FollowInv, JobInv
  <2>3. \/ handler'.at = "link" /\ handler'.intent = i
        \/ handler'.at = "idle" /\ ~NoFailure'
    BY WaitingTypes, FailuresRemain DEF InsertJob, HandlerFails, Respond, IntentTypeInv, IntentsTypeOK, HandlerState
  <2>4. NoFailure' => NoFailure
    BY FailuresRemain DEF InsertJob, HandlerFails
  <2>5. JobInv' /\ HandlerInv' /\ SyncInv'
    BY <1>1, <2>1, <2>2, <2>3 DEF InsertJob, FollowInv, JobInv, HandlerInv, SyncInv, Linked
  <2>6. LinkInv'
    BY <1>1, <2>1, <2>3, <2>4 DEF InsertJob, FollowInv, LinkInv, Linked
  <2>7. StatusInv'
    BY <2>1, <2>2, <2>3, <2>4 DEF InsertJob, FollowInv, StatusInv, Passing, JobStatus, Linked
  <2> QED BY <2>5, <2>6, <2>7 DEF FollowInv
<1> QED BY <1>2, <1>3 DEF InsertJob

LEMMA LinkJobFollows == ASSUME IntentTypeInv, FollowInv, LinkJob PROVE FollowInv'
<1> DEFINE i == handler.intent
           row == [status |-> "bridging", linked |-> TRUE]
<1>1. /\ i \in Intents /\ intents[i] # None /\ jobs[i] = "pending"
      /\ handler.at = "link" /\ handler'.at = "idle"
  BY WaitingTypes DEF LinkJob, IntentTypeInv, HandlerBusy, FollowInv, HandlerInv, HandlerFails, Respond
<1>2. CASE UNCHANGED intents /\ HandlerFails
  <2>1. ~NoFailure'
    BY <1>2, FailuresRemain DEF HandlerFails
  <2> QED BY <1>1, <1>2, <2>1 DEF LinkJob, FollowInv, JobInv, HandlerInv, SyncInv, LinkInv, StatusInv, Linked
<1>3. CASE intents' = [intents EXCEPT ![i] = row] /\ NoFault
  <2>1. row # None
    <3>1. row \in IntentRow
      BY DEF IntentRow, IntentStates
    <3> QED BY <3>1, IntentsAssumption
  <2>2. intents'[i] = row /\ \A j \in Intents : j # i => intents'[j] = intents[j]
    BY <1>1, <1>3 DEF IntentTypeInv, IntentsTypeOK
  <2>3. row.status = "bridging" /\ JobStatus(i) = "bridging" /\ intents'[i] # None /\ intents'[i].linked
    BY <1>1, <2>1, <2>2 DEF JobStatus, IntentStatus
  <2>4. NoFailure' => NoFailure
    BY <1>3, FailuresRemain DEF LinkJob
  <2>5. JobInv' /\ HandlerInv' /\ SyncInv'
    <3>1. JobInv'
      BY <1>1, <2>1, <2>2, IntentsAssumption DEF LinkJob, FollowInv, JobInv, Linked, JobStates
    <3> QED BY <1>1, <3>1 DEF LinkJob, FollowInv, HandlerInv, SyncInv
  <2>6. LinkInv'
    BY <2>2, <2>3, <2>4 DEF LinkJob, FollowInv, LinkInv, Linked
  <2>7. StatusInv'
    BY <1>1, <2>2, <2>3, <2>4 DEF LinkJob, FollowInv, StatusInv, Passing, JobStatus, Linked
  <2> QED BY <2>5, <2>6, <2>7 DEF FollowInv
<1> QED BY <1>2, <1>3 DEF LinkJob

LEMMA GetFollows == ASSUME IntentTypeInv, FollowInv, NEW i \in Intents, Get(i) PROVE FollowInv'
<1>1. /\ handler.at = "idle" /\ handler'.at \in {"idle", "row"}
      /\ handler'.at = "row" => handler'.status = intents[handler'.intent].status
  BY DEF Get
<1>2. NoFailure' => NoFailure
  BY FailuresRemain DEF Get
<1>3. JobInv' /\ HandlerInv' /\ SyncInv'
  BY <1>1 DEF Get, FollowInv, JobInv, HandlerInv, SyncInv, Linked
<1>4. LinkInv' /\ StatusInv'
  BY <1>1, <1>2 DEF Get, FollowInv, LinkInv, StatusInv, Linked, Passing, JobStatus
<1> QED BY <1>3, <1>4 DEF FollowInv

LEMMA ReadJobFollows == ASSUME IntentTypeInv, FollowInv, ReadJob PROVE FollowInv'
<1> DEFINE i == handler.intent
<1>1. i \in Intents /\ intents[i] # None /\ handler.at = "row"
  BY DEF ReadJob, IntentTypeInv, HandlerBusy
<1>2. \/ handler'.at = "idle"
      \/ /\ handler'.at = "write" /\ handler'.intent = i /\ handler'.status = JobStatus(i)
         /\ Linked(i) /\ handler.status # JobStatus(i)
  BY <1>1, WaitingTypes
  DEF ReadJob, HandlerFails, Respond, IntentTypeInv, IntentsTypeOK, HandlerState, JobStatus, Linked
<1>3. NoFailure' => NoFailure
  BY FailuresRemain DEF ReadJob, HandlerFails
<1>4. JobInv' /\ HandlerInv' /\ SyncInv'
  BY <1>2 DEF ReadJob, FollowInv, JobInv, HandlerInv, SyncInv, Linked
<1>5. LinkInv'
  BY <1>1, <1>3 DEF ReadJob, FollowInv, LinkInv, Linked
<1>6. ASSUME NoFailure', handler'.at = "write", i \notin patched
      PROVE  ~(sync.at = "job" /\ sync.intent = i)
  BY <1>1, <1>2, <1>3, <1>6 DEF FollowInv, HandlerInv, StatusInv, Passing
<1>7. StatusInv'
  BY <1>2, <1>3, <1>6 DEF ReadJob, FollowInv, StatusInv, Passing, JobStatus, Linked
<1> QED BY <1>4, <1>5, <1>7 DEF FollowInv

LEMMA WriteRowFollows == ASSUME IntentTypeInv, FollowInv, WriteRow PROVE FollowInv'
<1> DEFINE i == handler.intent
<1>1. /\ i \in Intents /\ intents[i] # None /\ handler.status \in IntentStates
      /\ Linked(i) /\ handler.at = "write" /\ handler'.at = "idle"
  BY WaitingTypes DEF WriteRow, IntentTypeInv, HandlerBusy, HandlerFails, Respond
<1>2. CASE UNCHANGED intents /\ HandlerFails
  <2>1. ~NoFailure'
    BY <1>2, FailuresRemain DEF HandlerFails
  <2> QED BY <1>1, <1>2, <2>1 DEF WriteRow, FollowInv, JobInv, HandlerInv, SyncInv, LinkInv, StatusInv, Linked
<1>3. CASE intents' = [intents EXCEPT ![i].status = handler.status] /\ NoFault
  <2>1. /\ intents'[i].status = handler.status /\ intents'[i] # None /\ intents'[i].linked
        /\ \A j \in Intents : j # i => intents'[j] = intents[j]
    BY <1>1, <1>3, StatusWritten DEF Linked
  <2>2. \A j \in Intents : Linked(j)' <=> Linked(j)
    BY <1>1, <2>1 DEF Linked
  <2>3. NoFailure' => NoFailure
    BY <1>3, FailuresRemain DEF WriteRow
  <2>4. JobInv' /\ HandlerInv' /\ SyncInv'
    <3>1. JobInv'
      BY <1>1, <2>1, <2>2 DEF WriteRow, FollowInv, JobInv, Linked
    <3> QED BY <1>1, <3>1 DEF WriteRow, FollowInv, HandlerInv, SyncInv
  <2>5. LinkInv'
    BY <1>1, <2>2, <2>3 DEF WriteRow, FollowInv, LinkInv
  <2>6. StatusInv'
    BY <1>1, <2>1, <2>2, <2>3 DEF WriteRow, FollowInv, StatusInv, Passing, JobStatus
  <2> QED BY <2>4, <2>5, <2>6 DEF FollowInv
<1> QED BY <1>2, <1>3 DEF WriteRow

LEMMA PatchFollows ==
    ASSUME IntentTypeInv, FollowInv, NEW i \in Intents, NEW status \in IntentStates, Patch(i, status)
    PROVE  FollowInv'
<1>1. /\ intents[i] # None /\ intents'[i] # None /\ handler.at = "idle"
      /\ \A j \in Intents : j # i => intents'[j] = intents[j]
      /\ \A j \in Intents : Linked(j)' <=> Linked(j)
  BY StatusWritten DEF Patch, Linked
<1>2. NoFailure' => NoFailure
  BY DEF Patch, NoFailure
<1>3. JobInv' /\ HandlerInv' /\ SyncInv'
  BY <1>1 DEF Patch, FollowInv, JobInv, HandlerInv, SyncInv
<1>4. LinkInv' /\ StatusInv'
  BY <1>1, <1>2 DEF Patch, FollowInv, LinkInv, StatusInv, Passing, JobStatus
<1> QED BY <1>3, <1>4 DEF FollowInv

LEMMA BeginUpdateFollows ==
    ASSUME IntentTypeInv, FollowInv, NEW i \in Intents, BeginUpdate(i) PROVE FollowInv'
<1>1. handler.at = "idle" /\ sync.at = "idle" /\ sync'.at = "job"
  BY DEF BeginUpdate
<1>2. NoFailure' => NoFailure
  BY DEF BeginUpdate, NoFailure
<1>3. JobInv' /\ HandlerInv' /\ SyncInv'
  BY <1>1 DEF BeginUpdate, FollowInv, JobInv, HandlerInv, SyncInv, Linked
<1>4. LinkInv' /\ StatusInv'
  BY <1>1, <1>2 DEF BeginUpdate, FollowInv, LinkInv, StatusInv, Linked, Passing, JobStatus
<1> QED BY <1>3, <1>4 DEF FollowInv

LEMMA UpdateBridgeJobFollows == ASSUME IntentTypeInv, FollowInv, UpdateBridgeJob PROVE FollowInv'
<1> DEFINE i == sync.intent
<1>1. i \in Intents /\ sync.at = "job" /\ jobs[i] # None
  BY DEF UpdateBridgeJob, IntentTypeInv, SyncBusy
<1>2. CASE UNCHANGED jobs /\ sync' = Waiting /\ Fault
  <2>1. sync'.at = "idle" /\ ~NoFailure'
    BY <1>2, WaitingTypes, FailuresRemain
  <2> QED BY <2>1, <1>2 DEF UpdateBridgeJob, FollowInv, JobInv, HandlerInv, SyncInv, LinkInv, StatusInv, Linked
<1>3. CASE jobs' = [jobs EXCEPT ![i] = sync.status] /\ sync' = [sync EXCEPT !.at = "read"] /\ NoFault
  <2>1. jobs'[i] = sync.status /\ \A j \in Intents : j # i => jobs'[j] = jobs[j]
    BY <1>1, <1>3 DEF IntentTypeInv, IntentsTypeOK
  <2>2. sync'.at = "read" /\ sync'.intent = i /\ sync'.status = sync.status
    BY <1>3 DEF IntentTypeInv, IntentsTypeOK, SyncState
  <2>3. handler.at = "link" => handler.intent \in Intents /\ handler.intent # i
    BY <1>1 DEF IntentTypeInv, HandlerBusy, FollowInv, HandlerInv
  <2>4. NoFailure' => NoFailure
    BY <1>3, FailuresRemain DEF UpdateBridgeJob
  <2>5. JobInv'
    <3>1. jobs'[i] # None
      BY <1>1, UpdateBridgeJobTypes DEF Grow
    <3> QED BY <1>1, <2>1, <3>1 DEF UpdateBridgeJob, FollowInv, JobInv, Linked
  <2>6. HandlerInv' /\ SyncInv'
    BY <2>1, <2>2, <2>3 DEF UpdateBridgeJob, FollowInv, HandlerInv, SyncInv
  <2>7. LinkInv'
    BY <1>1, <2>1, <2>4 DEF UpdateBridgeJob, FollowInv, LinkInv, Linked
  <2>8. StatusInv'
    BY <1>1, <2>1, <2>2, <2>4 DEF UpdateBridgeJob, FollowInv, StatusInv, Passing, JobStatus, Linked
  <2> QED BY <2>5, <2>6, <2>7, <2>8 DEF FollowInv
<1> QED BY <1>2, <1>3 DEF UpdateBridgeJob

LEMMA ReadLinkedFollows == ASSUME IntentTypeInv, FollowInv, ReadLinked PROVE FollowInv'
<1> DEFINE i == sync.intent
<1>1. i \in Intents /\ sync.at = "read" /\ sync.status = jobs[i]
  BY DEF ReadLinked, IntentTypeInv, SyncBusy, FollowInv, SyncInv
<1>2. \/ sync'.at = "write" /\ sync'.intent = i /\ sync'.status = sync.status
      \/ sync'.at = "idle" /\ (~Linked(i) \/ intents[i].status = JobStatus(i))
      \/ sync'.at = "idle" /\ ~NoFailure'
  BY <1>1, WaitingTypes, FailuresRemain
  DEF ReadLinked, IntentTypeInv, IntentsTypeOK, SyncState, JobStatus, Linked
<1>3. NoFailure' => NoFailure
  BY FailuresRemain DEF ReadLinked
<1>4. JobInv' /\ HandlerInv' /\ SyncInv'
  BY <1>1, <1>2 DEF ReadLinked, FollowInv, JobInv, HandlerInv, SyncInv, Linked
<1>5. LinkInv'
  BY <1>3 DEF ReadLinked, FollowInv, LinkInv, Linked
<1>6. StatusInv'
  BY <1>1, <1>2, <1>3 DEF ReadLinked, FollowInv, StatusInv, Passing, JobStatus, Linked
<1> QED BY <1>4, <1>5, <1>6 DEF FollowInv

LEMMA WriteLinkedFollows == ASSUME IntentTypeInv, FollowInv, WriteLinked PROVE FollowInv'
<1> DEFINE i == sync.intent
<1>1. /\ i \in Intents /\ sync.at = "write" /\ sync.status = jobs[i]
      /\ Linked(i) /\ intents[i] # None /\ sync'.at = "idle"
      /\ JobStatus(i) \in IntentStates
  BY WaitingTypes, StatusTypes
  DEF WriteLinked, IntentTypeInv, SyncBusy, FollowInv, SyncInv, Linked, JobStatus
<1>2. CASE UNCHANGED intents /\ Fault
  <2>1. ~NoFailure'
    BY <1>2, FailuresRemain
  <2> QED BY <1>1, <1>2, <2>1 DEF WriteLinked, FollowInv, JobInv, HandlerInv, SyncInv, LinkInv, StatusInv, Linked
<1>3. CASE intents' = [intents EXCEPT ![i].status = JobStatus(i)] /\ NoFault
  <2>1. /\ intents'[i].status = JobStatus(i) /\ intents'[i] # None /\ intents'[i].linked
        /\ \A j \in Intents : j # i => intents'[j] = intents[j]
    BY <1>1, <1>3, StatusWritten DEF Linked
  <2>2. \A j \in Intents : Linked(j)' <=> Linked(j)
    BY <1>1, <2>1 DEF Linked
  <2>3. NoFailure' => NoFailure
    BY <1>3, FailuresRemain DEF WriteLinked
  <2>4. JobInv' /\ HandlerInv' /\ SyncInv'
    <3>1. JobInv'
      BY <1>1, <2>1, <2>2 DEF WriteLinked, FollowInv, JobInv, Linked
    <3> QED BY <1>1, <3>1 DEF WriteLinked, FollowInv, HandlerInv, SyncInv
  <2>5. LinkInv'
    BY <1>1, <2>2, <2>3 DEF WriteLinked, FollowInv, LinkInv
  <2>6. StatusInv'
    BY <1>1, <2>1, <2>2, <2>3 DEF WriteLinked, FollowInv, StatusInv, Passing, JobStatus
  <2> QED BY <2>4, <2>5, <2>6 DEF FollowInv
<1> QED BY <1>1, <1>2, <1>3 DEF WriteLinked, JobStatus

LEMMA CrashFollows == ASSUME IntentTypeInv, FollowInv, IntentsCrash PROVE FollowInv'
<1>1. handler'.at = "idle" /\ sync'.at = "idle" /\ ~NoFailure'
  BY WaitingTypes, FailuresRemain DEF IntentsCrash
<1> QED BY <1>1 DEF IntentsCrash, FollowInv, JobInv, HandlerInv, SyncInv, LinkInv, StatusInv, Linked

LEMMA FollowStep == IntentTypeInv /\ FollowInv /\ [IntentsNext]_vars => FollowInv'
<1> SUFFICES ASSUME IntentTypeInv, FollowInv, [IntentsNext]_vars PROVE FollowInv'
  OBVIOUS
<1>1. CASE UNCHANGED vars
  BY <1>1 DEF vars, intentVars, FollowInv, JobInv, HandlerInv, SyncInv, LinkInv, StatusInv,
              Linked, Passing, JobStatus, NoFailure
<1>2. CASE IntentsNext
  BY <1>2, CreateFollows, GetFollows, BeginUpdateFollows, PatchFollows, InsertIntentFollows,
     InsertJobFollows, LinkJobFollows, ReadJobFollows, WriteRowFollows, UpdateBridgeJobFollows,
     ReadLinkedFollows, WriteLinkedFollows, CrashFollows DEF IntentsNext
<1> QED BY <1>1, <1>2

\* No job is without its intent; without failures it is linked once the request
\* is over, and between updates and requests an intent no agent has patched says
\* what its job says (IntentsFollowJobs).
THEOREM IntentsStayInStep == IntentsSpec => []IntentsFollowJobs
<1>1. IntentTypeInv /\ FollowInv => IntentsFollowJobs
  <2> SUFFICES ASSUME IntentTypeInv, FollowInv, NEW i \in Intents, jobs[i] # None
               PROVE  /\ intents[i] # None
                      /\ faults + restarts = 0 => intents[i].linked \/ handler.intent = i
                      /\ (/\ intents[i].linked /\ i \notin patched /\ faults + restarts = 0
                          /\ sync.at = "idle" /\ handler.at = "idle")
                             => intents[i].status = IntentStatus(jobs[i], TypeOf[i])
    BY DEF IntentsFollowJobs
  <2>1. intents[i] # None
    BY DEF FollowInv, JobInv
  <2>2. faults + restarts = 0 => NoFailure
    <3>1. faults \in Nat /\ restarts \in Nat
      BY ProcessAssumption DEF IntentTypeInv, IntentsTypeOK, ProcessTypeOK
    <3> QED BY <3>1 DEF NoFailure
  <2>3. faults + restarts = 0 => intents[i].linked \/ handler.intent = i
    BY <2>1, <2>2 DEF FollowInv, LinkInv, Linked
  <2>4. ASSUME intents[i].linked, i \notin patched, NoFailure, sync.at = "idle"
        PROVE  intents[i].status = IntentStatus(jobs[i], TypeOf[i])
    BY <2>1, <2>4 DEF FollowInv, StatusInv, Linked, Passing, JobStatus
  <2> QED BY <2>1, <2>2, <2>3, <2>4
<1> QED BY IntentInitTypes, InitFollows, TypeStep, FollowStep, <1>1, PTL DEF IntentsSpec, vars
=============================================================================
