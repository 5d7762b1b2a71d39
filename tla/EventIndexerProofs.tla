------------------------ MODULE EventIndexerProofs -------------------------
(***************************************************************************)
(* Theorems about the event indexer for every block range, rescan window   *)
(* and confirmation depth, and every bound.                                *)
(***************************************************************************)
EXTENDS EventIndexer, WellFoundedInduction, SequenceTheorems, TLAPS

-----------------------------------------------------------------------------
(* The least of a set of blocks. *)

LEMMA MinOfNats ==
    ASSUME NEW S \in SUBSET Nat, S # {}
    PROVE  Min(S) \in S /\ \A y \in S : Min(S) <= y
<1> DEFINE R == {ss \in Nat \X Nat : ss[1] < ss[2]}
<1>1. IsWellFoundedOn(R, Nat)
  BY NatLessThanWellFounded, Zenon DEF OpToRel
<1>2. PICK x \in S : \A y \in S : ~(<<y, x>> \in R)
  BY <1>1, WFMin, Zenon
<1>3. \A y \in S : ~(y < x)
  BY <1>2
<1>4. \A y \in S : x <= y
  BY <1>3
<1> QED BY <1>4 DEF Min

\* The last block of the forward pass.
ForwardTo == Min({cursor + settings.range, Safe})
Forward == (cursor + 1)..ForwardTo

LEMMA ForwardType ==
    ASSUME TypeOK
    PROVE  /\ Safe \in Nat /\ Safe <= head
           /\ ForwardTo \in Nat /\ ForwardTo <= head
<1>1. Safe \in Nat /\ Safe <= head /\ settings.range \in Nat /\ cursor + settings.range \in Nat
  BY IndexerAssumption DEF TypeOK, Safe
<1>2. ForwardTo \in {cursor + settings.range, Safe} /\ ForwardTo <= Safe
  BY <1>1, MinOfNats DEF ForwardTo
<1> QED BY <1>1, <1>2 DEF TypeOK

\* What the end of a forward pass makes of the cursor and the failure marker.
LEMMA AdvanceFacts ==
    ASSUME TypeOK, NEW bad \in SUBSET (events \intersect Forward), Forward # {},
           AdvanceCursor(bad)
    PROVE  /\ cursor' \in cursor..ForwardTo
           /\ \A f \in bad : cursor' < f
           /\ bad # {} => cursor' + 1 \in bad
           /\ bad = {} => cursor' = ForwardTo
           /\ pending' \in events \union {None}
<1>1. cursor \in Nat /\ ForwardTo \in Nat /\ cursor < ForwardTo /\ bad \subseteq Nat
  BY ForwardType DEF TypeOK, Forward
<1>2. CASE bad = {}
  BY <1>1, <1>2 DEF AdvanceCursor, ForwardTo, TypeOK
<1>3. CASE bad # {}
  <2>1. Min(bad) \in bad /\ \A f \in bad : Min(bad) <= f
    BY <1>1, <1>3, MinOfNats
  <2>2. cursor' = Min(bad) - 1 /\ pending' = Min(bad \union ({pending} \ {None}))
    BY <1>3 DEF AdvanceCursor, LowestPending
  <2>3. bad \union ({pending} \ {None}) \subseteq events
    BY DEF TypeOK
  <2>4. pending' \in events
    BY <1>3, <2>2, <2>3, MinOfNats DEF TypeOK
  <2>5. Min(bad) \in Forward
    BY <2>1
  <2> QED BY <1>1, <1>3, <2>1, <2>2, <2>4, <2>5 DEF Forward
<1> QED BY <1>2, <1>3
-----------------------------------------------------------------------------
(* Type correctness, with and without a subscription. *)

LEMMA FaultTypes == TypeOK /\ (Fault \/ UNCHANGED faults) => faults' \in 0..MaxFaults
BY IndexerAssumption DEF TypeOK, Fault

LEMMA InitTypes == Init => TypeOK
BY IndexerAssumption DEF Init, TypeOK

LEMMA IndexOnceTypes ==
    ASSUME TypeOK, IndexOnce
    PROVE  TypeOK'
<1>1. PICK bad \in SUBSET (events \intersect Forward),
           lost \in SUBSET (events \intersect RescanRange) :
         /\ IF bad \union lost = {} THEN UNCHANGED faults ELSE Fault
         /\ stored' = stored \union StoredOf(Forward, bad) \union StoredOf(RescanRange, lost)
         /\ failed' = failed \union bad
         /\ IF Forward # {} THEN AdvanceCursor(bad) ELSE UNCHANGED <<cursor, pending>>
  BY DEF IndexOnce, Forward, ForwardTo
<1>2. cursor' \in 0..head /\ pending' \in events \union {None}
  BY <1>1, AdvanceFacts, ForwardType DEF TypeOK
<1>3. stored' \subseteq events /\ failed' \subseteq events
  BY <1>1 DEF TypeOK, StoredOf
<1>4. faults' \in 0..MaxFaults
  BY <1>1, FaultTypes
<1>5. mode' \in {"catchup", "connect", "live"}
  BY DEF IndexOnce, NextMode
<1> QED BY <1>2, <1>3, <1>4, <1>5 DEF IndexOnce, TypeOK

\* A pass that raises has stored all it passes.
LEMMA RaiseFacts ==
    ASSUME TypeOK, IndexOnceRaises
    PROVE  \/ UNCHANGED <<stored, cursor>>
           \/ /\ stored' = stored \union (events \intersect Forward)
              /\ cursor' \in cursor..ForwardTo \union {cursor}
<1>1. Forward # {} => ForwardTo \in cursor..ForwardTo
  BY ForwardType DEF Forward, TypeOK
<1> QED BY <1>1 DEF IndexOnceRaises, Forward, ForwardTo

LEMMA IndexOnceRaisesTypes ==
    ASSUME TypeOK, IndexOnceRaises
    PROVE  TypeOK'
<1>1. stored' \subseteq events
  BY RaiseFacts DEF TypeOK
<1>a. cursor' \in 0..head
  BY RaiseFacts, ForwardType DEF TypeOK
<1>2. faults' \in 0..MaxFaults
  BY FaultTypes DEF IndexOnceRaises
<1>3. mode' \in {"catchup", "connect", "live"}
  BY DEF IndexOnceRaises, NextMode
<1> QED BY <1>1, <1>a, <1>2, <1>3 DEF IndexOnceRaises, TypeOK

LEMMA ProcessLogTypes ==
    ASSUME TypeOK, ProcessLog
    PROVE  TypeOK'
<1> DEFINE b == Head(wire)
<1>1. b \in events /\ b \in 1..head /\ Tail(wire) \in Seq(events)
  <2>1. wire \in Seq(events) /\ wire # <<>> /\ events \subseteq 1..head
    BY DEF ProcessLog, TypeOK
  <2>2. b \in events /\ Tail(wire) \in Seq(events)
    BY <2>1, HeadTailProperties
  <2> QED BY <2>1, <2>2
<1>2. SafeAdvanceTarget(b) \in 0..head
  BY <1>1 DEF SafeAdvanceTarget, TypeOK
<1>3. LowestPending({b}) \in events
  <2>1. {b} \union ({pending} \ {None}) \subseteq events /\ events \subseteq Nat
    BY <1>1 DEF TypeOK
  <2> QED BY <2>1, MinOfNats DEF LowestPending
<1>4. /\ stored' \subseteq events /\ failed' \subseteq events
      /\ cursor' \in 0..head /\ pending' \in events \union {None}
      /\ Fault \/ UNCHANGED faults
  BY <1>1, <1>2, <1>3 DEF ProcessLog, TypeOK
<1>5. faults' \in 0..MaxFaults
  BY <1>4, FaultTypes
<1> QED BY <1>1, <1>4, <1>5 DEF ProcessLog, TypeOK

LEMMA MineTypes ==
    ASSUME TypeOK, NEW event \in BOOLEAN, Mine(event)
    PROVE  TypeOK'
<1>1. head' \in 0..MaxBlock /\ head' = head + 1
  BY IndexerAssumption DEF Mine, TypeOK
<1>2. events \subseteq events' /\ events' \subseteq 1..head' /\ (event => head' \in events')
  BY <1>1 DEF Mine, TypeOK
<1>3. wire \in Seq(events')
  <2>1. wire \in [1..Len(wire) -> events'] /\ Len(wire) \in Nat
    BY <1>2, LenProperties DEF TypeOK
  <2> QED BY <2>1, SeqDef
<1>4. wire' \in Seq(events')
  <2>1. CASE event /\ mode = "live"
    BY <1>2, <1>3, <2>1, AppendProperties DEF Mine
  <2>2. CASE ~(event /\ mode = "live")
    BY <1>3, <2>2 DEF Mine
  <2> QED BY <2>1, <2>2
<1>5. cursor' \in 0..head'
  BY <1>1 DEF Mine, TypeOK
<1>6. /\ stored' \subseteq events' /\ failed' \subseteq events'
      /\ pending' \in events' \union {None}
  BY <1>2 DEF Mine, TypeOK
<1>7. /\ settings' \in Settings /\ mode' \in {"catchup", "connect", "live"}
      /\ faults' \in 0..MaxFaults /\ restarts' \in 0..MaxRestarts
  BY DEF Mine, TypeOK
<1> QED BY <1>1, <1>2, <1>4, <1>5, <1>6, <1>7 DEF TypeOK

LEMMA NextTypes == TypeOK /\ [Next]_vars => TypeOK'
<1>1. ASSUME TypeOK, Subscribe \/ Disconnect \/ Crash PROVE TypeOK'
  <2>1. <<>> \in Seq(events)
    BY EmptySeq
  <2>2. CASE Subscribe
    BY <1>1, <2>2 DEF Subscribe, TypeOK
  <2>3. CASE Disconnect
    BY <1>1, <2>1, <2>3 DEF Disconnect, TypeOK
  <2>4. CASE Crash
    BY <1>1, <2>1, <2>4, IndexerAssumption DEF Crash, TypeOK
  <2> QED BY <1>1, <2>2, <2>3, <2>4
<1>2. ASSUME TypeOK, UNCHANGED vars PROVE TypeOK'
  BY <1>2 DEF vars, TypeOK
<1> QED BY <1>1, <1>2, IndexOnceTypes, IndexOnceRaisesTypes, ProcessLogTypes, MineTypes
        DEF Next, Index, Subscription

\* The indexer's state is well typed; in particular the cursor never passes
\* the head of the chain and the failure marker always names an event's block.
THEOREM TypeCorrect == Spec => []TypeOK
BY InitTypes, NextTypes, PTL DEF Spec
-----------------------------------------------------------------------------
(* Polling loses nothing.  Without a subscription only index_once moves the *)
(* cursor, and it never moves it to or past a block it could not store.     *)

PollInv == (~settings.subscribed => mode = "catchup") /\ NothingBehindCursor

LEMMA InitPoll == Init => PollInv
BY DEF Init, PollInv, NothingBehindCursor

LEMMA IndexOncePoll ==
    ASSUME TypeOK, PollInv, IndexOnce
    PROVE  PollInv'
<1>1. UNCHANGED <<settings, events>> /\ (~settings.subscribed => mode' = "catchup")
  BY DEF IndexOnce, NextMode
<1>2. ASSUME ~settings.subscribed, NEW b \in events, b <= cursor' PROVE b \in stored'
  <2>1. PICK bad \in SUBSET (events \intersect Forward),
             lost \in SUBSET (events \intersect RescanRange) :
           /\ stored' = stored \union StoredOf(Forward, bad) \union StoredOf(RescanRange, lost)
           /\ IF Forward # {} THEN AdvanceCursor(bad) ELSE UNCHANGED <<cursor, pending>>
    BY DEF IndexOnce, Forward, ForwardTo
  <2>2. CASE b <= cursor
    BY <1>2, <2>1, <2>2 DEF PollInv, NothingBehindCursor
  <2>3. CASE ~(b <= cursor)
    <3>1. b \in Nat /\ cursor \in Nat /\ cursor < b
      BY <2>3 DEF TypeOK
    <3>2. Forward # {}
      BY <2>1, <1>2, <2>3
    <3>3. cursor' \in cursor..ForwardTo /\ \A f \in bad : cursor' < f
      BY <2>1, <3>2, AdvanceFacts
    <3>4. b \in Forward
      BY <1>2, <3>1, <3>3, ForwardType DEF Forward
    <3>5. \A f \in bad : b < f
      BY <1>2, <3>1, <3>3, ForwardType DEF Forward
    <3> QED BY <2>1, <3>4, <3>5 DEF StoredOf
  <2> QED BY <2>2, <2>3
<1> QED BY <1>1, <1>2 DEF PollInv, NothingBehindCursor

LEMMA IndexOnceRaisesPoll ==
    ASSUME TypeOK, PollInv, IndexOnceRaises
    PROVE  PollInv'
<1>1. UNCHANGED <<settings, events>> /\ (~settings.subscribed => mode' = "catchup")
  BY DEF IndexOnceRaises, NextMode
<1>2. ASSUME ~settings.subscribed, NEW b \in events, b <= cursor' PROVE b \in stored'
  <2>1. b \in Nat /\ cursor \in Nat /\ (b <= cursor => b \in stored)
    BY <1>2 DEF TypeOK, PollInv, NothingBehindCursor
  <2>2. CASE UNCHANGED <<stored, cursor>>
    BY <1>2, <2>1, <2>2
  <2>3. CASE /\ stored' = stored \union (events \intersect Forward)
             /\ cursor' \in cursor..ForwardTo \union {cursor}
    <3>1. b <= cursor \/ b \in Forward
      BY <1>2, <2>1, <2>3, ForwardType DEF Forward
    <3> QED BY <1>2, <2>1, <2>3, <3>1
  <2> QED BY <2>2, <2>3, RaiseFacts
<1> QED BY <1>1, <1>2 DEF PollInv, NothingBehindCursor

LEMMA MinePoll ==
    ASSUME TypeOK, PollInv, NEW event \in BOOLEAN, Mine(event)
    PROVE  PollInv'
<1>1. cursor <= head /\ cursor \in Nat /\ head \in Nat
  BY DEF TypeOK
<1> QED BY <1>1 DEF Mine, PollInv, NothingBehindCursor

\* What a subscription does is no concern of a polling process.
LEMMA SubscriptionPoll == PollInv /\ Subscription => PollInv'
<1> SUFFICES ASSUME PollInv, Subscription PROVE PollInv'
  OBVIOUS
<1>1. mode # "catchup" /\ UNCHANGED settings
  BY DEF Subscription, Subscribe, Disconnect, ProcessLog
<1> QED BY <1>1 DEF PollInv, NothingBehindCursor

LEMMA NextPoll == TypeOK /\ PollInv /\ [Next]_vars => PollInv'
<1>1. ASSUME PollInv, Crash PROVE PollInv'
  BY <1>1 DEF Crash, NextMode, PollInv, NothingBehindCursor
<1>2. ASSUME PollInv, UNCHANGED vars PROVE PollInv'
  BY <1>2 DEF vars, PollInv, NothingBehindCursor
<1> QED BY <1>1, <1>2, SubscriptionPoll, IndexOncePoll, IndexOnceRaisesPoll, MinePoll DEF Next, Index

\* "Prevents the block pointer from advancing past lost events": when the
\* indexer polls, every event at or below the persistent cursor is stored,
\* whatever enrichments and writes failed and wherever the process died.
THEOREM PollingLosesNothing == Spec => []NothingBehindCursor
<1>1. PollInv => NothingBehindCursor
  BY DEF PollInv
<1> QED BY <1>1, NextPoll, InitPoll, TypeCorrect, PTL DEF Spec
=============================================================================
