----------------------------- MODULE FillStream ------------------------------
(***************************************************************************)
(* The fill stream of one market maker (api/mm_ws.py).  _connections holds *)
(* a set of sockets; a broadcast iterates over the set it found there and  *)
(* awaits a send per socket, while handlers register and remove sockets.   *)
(*                                                                         *)
(* A Python set that changes its size makes its iterators raise at their   *)
(* next step, the last one included.  A set that keeps its size keeps the  *)
(* place of its members (true below five sockets of one maker); one that   *)
(* joined in exchange may be met or not.                                   *)
(***************************************************************************)
EXTENDS Process

CONSTANTS
    Sockets,
    Fills           \* broadcasts of fills

ASSUME StreamAssumption == IsFiniteSet(Sockets)

VARIABLES
    registry,       \* the set object _connections[key], 0 when absent
    members,        \* set object -> its sockets
    socket,         \* the handler of each socket
    broken,         \* sockets whose peer is gone
    cast,           \* the local state of each notify_mm_fill
    got             \* history: fill -> sockets it was sent to

streamVars == <<registry, members, socket, broken, cast, got>>

SetIds == 1..Cardinality(Sockets)

CastState ==
    [at : {"idle", "sending", "done", "aborted"}, set : SetIds \union {0},
     sent : SUBSET Sockets, dead : SUBSET Sockets, found : SUBSET Sockets]

StreamTypeOK ==
    /\ registry \in SetIds \union {0}
    /\ members \in [SetIds -> SUBSET Sockets]
    /\ socket \in [Sockets -> {"new", "greeting", "open", "left"}]
    /\ broken \subseteq Sockets
    /\ cast \in [Fills -> CastState]
    /\ got \in [Fills -> SUBSET Sockets]

StreamInit ==
    /\ registry = 0
    /\ members = [i \in SetIds |-> {}]
    /\ socket = [s \in Sockets |-> "new"]
    /\ broken = {}
    /\ cast = [f \in Fills |->
                [at |-> "idle", set |-> 0, sent |-> {}, dead |-> {}, found |-> {}]]
    /\ got = [f \in Fills |-> {}]
-----------------------------------------------------------------------------
(* mm_stream *)

\* Set objects that were never in _connections.
FreshSets == {i \in SetIds : i > registry /\ \A j \in SetIds : j >= i => members[j] = {}
                                /\ \A f \in Fills : cast[f].set # j}

\* Authenticated: the socket is registered, in a new set if there is none.
Register(s) ==
    /\ socket[s] = "new"
    /\ socket' = [socket EXCEPT ![s] = "greeting"]
    /\ LET i == IF registry = 0 THEN Min(FreshSets) ELSE registry IN
       /\ registry' = i
       /\ members' = [members EXCEPT ![i] = @ \union {s}]
    /\ UNCHANGED <<broken, cast, got, faults, restarts>>

\* The greeting is sent outside the try: a failure leaves the socket registered.
Greet(s) ==
    /\ socket[s] = "greeting"
    /\ socket' = [socket EXCEPT ![s] = IF s \in broken THEN "left" ELSE "open"]
    /\ UNCHANGED <<registry, members, broken, cast, got, faults, restarts>>

\* The peer hangs up, or its connection breaks.
HangUp(s) ==
    /\ socket[s] \in {"greeting", "open"}
    /\ broken' = broken \union {s}
    /\ UNCHANGED <<registry, members, socket, cast, got, faults, restarts>>

\* receive_text raises, and the socket is removed from the maker's set.
Leave(s) ==
    /\ socket[s] = "open" /\ s \in broken
    /\ socket' = [socket EXCEPT ![s] = "left"]
    /\ IF registry = 0 THEN UNCHANGED <<registry, members>>
       ELSE /\ members' = [members EXCEPT ![registry] = @ \ {s}]
            /\ registry' = IF members[registry] \ {s} = {} THEN 0 ELSE registry
    /\ UNCHANGED <<broken, cast, got, faults, restarts>>
-----------------------------------------------------------------------------
(* notify_mm_fill *)

BeginFill(f) ==
    /\ cast[f].at = "idle" /\ registry # 0
    /\ cast' = [cast EXCEPT ![f] =
                  [at |-> "sending", set |-> registry, sent |-> {}, dead |-> {},
                   found |-> members[registry]]]
    /\ UNCHANGED <<registry, members, socket, broken, got, faults, restarts>>

\* Faulty variant: the loop runs over a copy and never notices a change.
ResizedUnnoticed(f) == FALSE

Resized(f) == Cardinality(members[cast[f].set]) # Cardinality(cast[f].found)

\* The next socket of the iteration: sent, or noted as dead.
SendNext(f) ==
    /\ cast[f].at = "sending" /\ ~Resized(f)
    /\ \E s \in members[cast[f].set] \ cast[f].sent :
         /\ cast' = [cast EXCEPT ![f].sent = @ \union {s},
                                 ![f].dead = IF s \in broken THEN @ \union {s} ELSE @]
         /\ got' = IF s \in broken THEN got ELSE [got EXCEPT ![f] = @ \union {s}]
    /\ UNCHANGED <<registry, members, socket, broken, faults, restarts>>

\* Every socket was met: the dead ones are removed, an empty set is dropped.
EndFill(f) ==
    /\ cast[f].at = "sending" /\ ~Resized(f)
    /\ members[cast[f].set] \intersect cast[f].found \subseteq cast[f].sent
    /\ LET left == members[cast[f].set] \ cast[f].dead IN
       /\ members' = [members EXCEPT ![cast[f].set] = left]
       /\ registry' = IF left = {} THEN 0 ELSE registry
    /\ cast' = [cast EXCEPT ![f].at = "done"]
    /\ UNCHANGED <<socket, broken, got, faults, restarts>>

\* "Set changed size during iteration": the rest of the sockets miss the fill.
AbortFill(f) ==
    /\ cast[f].at = "sending" /\ Resized(f)
    /\ cast' = [cast EXCEPT ![f].at = "aborted"]
    /\ UNCHANGED <<registry, members, socket, broken, got, faults, restarts>>

StreamNext ==
    \/ \E s \in Sockets : Register(s) \/ Greet(s) \/ HangUp(s) \/ Leave(s)
    \/ \E f \in Fills : BeginFill(f) \/ SendNext(f) \/ EndFill(f) \/ AbortFill(f)

StreamSpec ==
    StreamInit /\ ProcessInit /\ [][StreamNext]_<<streamVars, faults, restarts>>
-----------------------------------------------------------------------------
(* Properties. *)

\* "Push a fill event to all connected WebSocket clients for this MM": a socket
\* whose peer is there stays registered for the next fill, whatever broadcasts
\* over older sets of the maker still do when they end; and a broadcast that ran
\* to its end reached every socket that was there when it began and still is.
FillsReachAll ==
    \A s \in Sockets : socket[s] = "open" /\ s \notin broken =>
        /\ registry # 0 /\ s \in members[registry]
        /\ \A f \in Fills : cast[f].at = "done" /\ s \in cast[f].found => s \in got[f]
=============================================================================
