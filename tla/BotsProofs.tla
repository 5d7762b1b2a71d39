------------------------------ MODULE BotsProofs ------------------------------
(***************************************************************************)
(* What is proved of the parts of Bots that have no module of proofs of    *)
(* their own - the transaction sender, the oToken managers, the fill       *)
(* stream, the weekly aggregator and the price sheet - and of all parts    *)
(* together.  Each part is taken alone, as Bots takes it.                  *)
(***************************************************************************)
EXTENDS Bots, CapitalIntentsProofs, SolanaProofs, YieldProofs
-----------------------------------------------------------------------------
(* Type correctness. *)

LEMMA SenderInitTypes == TxInit => TxTypeOK
<1> SUFFICES ASSUME TxInit PROVE TxTypeOK
  OBVIOUS
<1>1. call \in [Calls -> CallState]
  <2>1. [NewCall("estimate") EXCEPT !.at = "idle"] \in CallState
    <3>1. NewCall("estimate") \in CallState
      BY SenderAssumption DEF NewCall, CallState, Nonces
    <3> QED BY <3>1 DEF CallState
  <2> QED BY <2>1 DEF TxInit
<1>2. ProcessTypeOK
  BY ProcessAssumption DEF TxInit, ProcessInit, ProcessTypeOK
<1>3. pool \in [Nonces -> Calls \union {None}] /\ ran \in [Calls -> Nat]
  BY DEF TxInit
<1>4. localNonce \in 0..(MaxNonce + 1) /\ mined \in 0..(MaxNonce + 1)
  BY SenderAssumption DEF TxInit
<1>5. receipt \in [Calls -> {"none", "ok", "reverted"}] /\ dropped \in BOOLEAN
  BY DEF TxInit
<1> QED BY <1>1, <1>2, <1>3, <1>4, <1>5 DEF TxTypeOK

LEMMA SenderFaultTypes == ProcessTypeOK /\ (Fault \/ NoFault) /\ UNCHANGED restarts => ProcessTypeOK'
BY ProcessAssumption DEF ProcessTypeOK, Fault, NoFault

\* A call that raises, or starts anew, is a call again.
LEMMA CallTypes ==
    ASSUME TxTypeOK, NEW c \in Calls, NEW gas \in {"estimate", "fallback"},
           Raise(c) \/ call' = [call EXCEPT ![c] = NewCall(gas)]
                \/ call' = [call EXCEPT ![c].at = "ok"]
    PROVE  call' \in [Calls -> CallState]
<1>1. call[c] \in CallState
  BY DEF TxTypeOK
<1>2. NewCall(gas) \in CallState
  BY SenderAssumption DEF NewCall, CallState, Nonces
<1>3. \A at \in {"raised", "ok"} : [call[c] EXCEPT !.at = at] \in CallState
  BY <1>1 DEF CallState
<1> QED BY <1>2, <1>3 DEF TxTypeOK, Raise

\* The nonce of an attempt that is within the bound is a nonce.
LEMMA ChosenTypes ==
    ASSUME TxTypeOK, NEW c \in Calls, NEW count \in PendingCounts
    PROVE  ChosenNonce(c, count) \in Nat
BY SenderAssumption DEF TxTypeOK, ChosenNonce, PendingCounts, CallState, Nonces

LEMMA SenderSendTypes ==
    ASSUME TxTypeOK, NEW c \in Calls, NEW n \in Nonces,
           Accepted(c, n) \/ Underpriced(c, n) \/ SendFails(c, n),
           UNCHANGED <<mined, ran, dropped, restarts>>
    PROVE  TxTypeOK'
<1>1. ProcessTypeOK'
  BY SenderFaultTypes DEF TxTypeOK, Accepted, Underpriced, SendFails
<1>2. pool' \in [Nonces -> Calls \union {None}] /\ receipt' \in [Calls -> {"none", "ok", "reverted"}]
  BY DEF TxTypeOK, Accepted, Underpriced, SendFails
<1>3. localNonce' \in 0..(MaxNonce + 1)
  BY SenderAssumption DEF TxTypeOK, Accepted, Underpriced, SendFails, Nonces
<1>4. call' \in [Calls -> CallState]
  <2>a. call[c] \in CallState
    BY DEF TxTypeOK
  <2>1. CASE Accepted(c, n)
    <3>1. [call[c] EXCEPT !.at = "wait", !.nonce = n] \in CallState
      BY <2>a DEF CallState
    <3>2. call' = [call EXCEPT ![c] = [call[c] EXCEPT !.at = "wait", !.nonce = n]]
      BY <2>1 DEF Accepted, TxTypeOK
    <3> QED BY <3>1, <3>2 DEF TxTypeOK
  <2>2. CASE Underpriced(c, n) /\ call[c].attempt < MaxAttempts
    <3> DEFINE again == [call[c] EXCEPT !.nonce = n, !.forced = TRUE, !.attempt = @ + 1]
    <3>1. call[c].attempt + 1 \in 1..MaxAttempts
      BY <2>2, <2>a, SenderAssumption DEF CallState
    <3>2. again \in CallState
      BY <2>a, <3>1 DEF CallState
    <3>3. call' = [call EXCEPT ![c] = again]
      BY <2>2 DEF Underpriced, TxTypeOK
    <3> QED BY <3>2, <3>3 DEF TxTypeOK
  <2>3. CASE Underpriced(c, n) /\ ~(call[c].attempt < MaxAttempts)
    BY <2>3, CallTypes DEF Underpriced
  <2>4. CASE SendFails(c, n)
    BY <2>4, CallTypes DEF SendFails
  <2> QED BY <2>1, <2>2, <2>3, <2>4
<1> QED BY <1>1, <1>2, <1>3, <1>4 DEF TxTypeOK

LEMMA SenderNextTypes == TxTypeOK /\ [TxNext]_txVars => TxTypeOK'
<1> SUFFICES ASSUME TxTypeOK, [TxNext]_txVars PROVE TxTypeOK'
  OBVIOUS
<1>1. ASSUME NEW c \in Calls, Estimate(c) PROVE TxTypeOK'
  BY <1>1, CallTypes, SenderFaultTypes DEF Estimate, TxTypeOK
<1>2. ASSUME NEW c \in Calls, SendRaw(c) PROVE TxTypeOK'
  BY <1>2, SenderSendTypes, ChosenTypes, SenderAssumption DEF SendRaw, Nonces
<1>3. ASSUME NEW c \in Calls, Confirm(c) PROVE TxTypeOK'
  BY <1>3, CallTypes, SenderFaultTypes DEF Confirm, TxTypeOK
<1>4. ASSUME NEW c \in Calls, TimeOut(c) PROVE TxTypeOK'
  BY <1>4, CallTypes DEF TimeOut, TxTypeOK, ProcessTypeOK
<1>5. CASE SenderCrash
  <2>1. \A c \in Calls : [call[c] EXCEPT !.at = "raised"] \in CallState /\ call[c] \in CallState
    BY DEF TxTypeOK, CallState
  <2>2. call' \in [Calls -> CallState]
    BY <1>5, <2>1 DEF SenderCrash
  <2>3. ProcessTypeOK' /\ localNonce' \in 0..(MaxNonce + 1)
    BY <1>5, SenderAssumption, ProcessAssumption
    DEF SenderCrash, Restart, TxTypeOK, ProcessTypeOK
  <2> QED BY <1>5, <2>2, <2>3 DEF SenderCrash, TxTypeOK
<1>6. ASSUME NEW success \in BOOLEAN, MineNext(success) PROVE TxTypeOK'
  BY <1>6, SenderAssumption DEF MineNext, TxTypeOK, ProcessTypeOK, Nonces
<1>7. ASSUME NEW n \in Nonces, DropPending(n) PROVE TxTypeOK'
  BY <1>7, SenderFaultTypes DEF DropPending, TxTypeOK
<1>8. CASE UNCHANGED txVars
  BY <1>8 DEF txVars, senderVars, TxTypeOK, ProcessTypeOK
<1> QED BY <1>1, <1>2, <1>3, <1>4, <1>5, <1>6, <1>7, <1>8 DEF TxNext, TxStep

\* The sender's state is well typed: nonces stay within the bound, attempts
\* within max_retries.
THEOREM SenderTypeCorrect == TxSpec => []TxTypeOK
BY SenderInitTypes, SenderNextTypes, PTL DEF TxSpec

-----------------------------------------------------------------------------
(* Effects.  A call has at most one transaction that can still be mined, and *)
(* as long as it has one, none of its transactions took effect.              *)

Holds(c, n) == n \in Nonces /\ n >= mined /\ pool[n] = c

OneInPool == \A c \in Calls : \A n, m : Holds(c, n) /\ Holds(c, m) => n = m

PoolIsOpen ==
    \A c \in Calls : \A n : Holds(c, n) =>
        ran[c] = 0 /\ receipt[c] = "none" /\ call[c].at \in {"wait", "raised"}

EffectsKnown ==
    \A c \in Calls :
        /\ ran[c] \in {0, 1}
        /\ call[c].at \in {"idle", "send"} => ran[c] = 0
        /\ call[c].at = "wait" => (ran[c] = 1 <=> receipt[c] = "ok")
        /\ call[c].at = "ok" => ran[c] = 1

EffectInv == OneInPool /\ PoolIsOpen /\ EffectsKnown

LEMMA InitEffects == TxInit => EffectInv
BY SenderAssumption
DEF TxInit, NewCall, EffectInv, OneInPool, PoolIsOpen, EffectsKnown, Holds

\* A call without a transaction in the pool goes on, to a step that says what
\* became of it.
LEMMA CallEffects ==
    ASSUME TxTypeOK, EffectInv, UNCHANGED <<pool, mined, receipt, ran>>,
           NEW c \in Calls, NEW new \in CallState, call' = [call EXCEPT ![c] = new],
           \/ new.at = "raised"
           \/ new.at \in {"idle", "send"} /\ ran[c] = 0 /\ \A n : ~Holds(c, n)
           \/ new.at = "ok" /\ ran[c] = 1
    PROVE  EffectInv'
<1>1. \A d \in Calls : call'[d] = IF d = c THEN new ELSE call[d]
  BY DEF TxTypeOK
<1>2. \A d : \A n : Holds(d, n)' <=> Holds(d, n)
  BY DEF Holds, Nonces
<1>3. OneInPool'
  BY <1>2 DEF EffectInv, OneInPool
<1>4. PoolIsOpen'
  BY <1>1, <1>2 DEF EffectInv, PoolIsOpen, EffectsKnown
<1>5. EffectsKnown'
  BY <1>1 DEF EffectInv, EffectsKnown
<1> QED BY <1>3, <1>4, <1>5 DEF EffectInv

\* A transaction of a call that has none in the pool is put there.
LEMMA PoolEffects ==
    ASSUME TxTypeOK, EffectInv, UNCHANGED <<mined, ran>>,
           NEW c \in Calls, NEW n \in Nonces, NEW new \in CallState,
           call[c].at = "send", new.at \in {"wait", "raised"},
           call' = [call EXCEPT ![c] = new],
           pool' = [pool EXCEPT ![n] = c],
           receipt' = [receipt EXCEPT ![c] = "none"]
    PROVE  EffectInv'
<1>1. \A d \in Calls : call'[d] = IF d = c THEN new ELSE call[d]
  BY DEF TxTypeOK
<1>2. \A d \in Calls : receipt'[d] = IF d = c THEN "none" ELSE receipt[d]
  BY DEF TxTypeOK
<1>3. \A m \in Nonces : pool'[m] = IF m = n THEN c ELSE pool[m]
  BY DEF TxTypeOK
<1>4. \A m : ~Holds(c, m)
  BY DEF EffectInv, PoolIsOpen
<1>5. \A m : Holds(c, m)' => m = n
  BY <1>3, <1>4 DEF Holds, Nonces
<1>6. \A d \in Calls : \A m : d # c /\ Holds(d, m)' => Holds(d, m)
  BY <1>3 DEF Holds, Nonces
<1>7. OneInPool'
  BY <1>5, <1>6 DEF EffectInv, OneInPool
<1>8. ran[c] = 0
  BY DEF EffectInv, EffectsKnown
<1>9. PoolIsOpen'
  BY <1>1, <1>2, <1>5, <1>6, <1>8 DEF EffectInv, PoolIsOpen
<1>10. EffectsKnown'
  BY <1>1, <1>2, <1>8 DEF EffectInv, EffectsKnown
<1> QED BY <1>7, <1>9, <1>10 DEF EffectInv

LEMMA SendEffects ==
    ASSUME TxTypeOK, EffectInv, NEW c \in Calls, NEW n \in Nonces, call[c].at = "send",
           Accepted(c, n) \/ Underpriced(c, n) \/ SendFails(c, n), UNCHANGED <<mined, ran>>
    PROVE  EffectInv'
<1>1. call[c] \in CallState /\ ran[c] = 0 /\ \A m : ~Holds(c, m)
  BY DEF TxTypeOK, EffectInv, EffectsKnown, PoolIsOpen
<1> DEFINE raised == [call[c] EXCEPT !.at = "raised"]
           again == [call[c] EXCEPT !.nonce = n, !.forced = TRUE, !.attempt = @ + 1]
           sent == [call[c] EXCEPT !.at = "wait", !.nonce = n]
<1>2. raised \in CallState /\ raised.at = "raised" /\ sent \in CallState /\ sent.at = "wait"
  BY <1>1 DEF CallState
<1>3. CASE Accepted(c, n)
  <2>1. call' = [call EXCEPT ![c] = sent]
    BY <1>3 DEF Accepted, TxTypeOK
  <2> QED BY <1>2, <1>3, <2>1, PoolEffects DEF Accepted
<1>4. CASE Underpriced(c, n) /\ call[c].attempt < MaxAttempts
  <2>1. call[c].attempt + 1 \in 1..MaxAttempts
    BY <1>4, <1>1, SenderAssumption DEF CallState
  <2>2. again \in CallState /\ again.at = "send"
    BY <1>1, <2>1 DEF CallState
  <2>3. call' = [call EXCEPT ![c] = again]
    BY <1>4 DEF Underpriced, TxTypeOK
  <2>4. UNCHANGED <<pool, receipt>>
    BY <1>4 DEF Underpriced
  <2> HIDE DEF again
  <2> QED BY <1>1, <2>2, <2>3, <2>4, CallEffects
<1>5. CASE Underpriced(c, n) /\ ~(call[c].attempt < MaxAttempts)
  <2>1. call' = [call EXCEPT ![c] = raised] /\ UNCHANGED <<pool, receipt>>
    BY <1>5 DEF Underpriced, Raise, TxTypeOK
  <2> HIDE DEF raised
  <2> QED BY <1>2, <2>1, CallEffects
<1>6. CASE SendFails(c, n)
  <2>1. call' = [call EXCEPT ![c] = raised]
    BY <1>6 DEF SendFails, Raise, TxTypeOK
  <2> HIDE DEF raised
  <2>2. CASE UNCHANGED <<pool, receipt>>
    BY <1>2, <2>1, <2>2, CallEffects
  <2>3. CASE pool' = [pool EXCEPT ![n] = c] /\ receipt' = [receipt EXCEPT ![c] = "none"]
    BY <1>2, <2>1, <2>3, PoolEffects
  <2> QED BY <1>6, <2>2, <2>3 DEF SendFails
<1> QED BY <1>3, <1>4, <1>5, <1>6

LEMMA EstimateEffects ==
    ASSUME TxTypeOK, EffectInv, NEW c \in Calls, Estimate(c)
    PROVE  EffectInv'
<1>1. call[c] \in CallState /\ ran[c] = 0 /\ \A m : ~Holds(c, m)
  BY DEF TxTypeOK, EffectInv, EffectsKnown, PoolIsOpen, Estimate
<1> DEFINE raised == [call[c] EXCEPT !.at = "raised"]
<1>2. raised \in CallState /\ raised.at = "raised"
  BY <1>1 DEF CallState
<1>3. NewCall("estimate") \in CallState /\ NewCall("estimate").at = "send"
  BY SenderAssumption DEF NewCall, CallState, Nonces
<1>4. \/ call' = [call EXCEPT ![c] = raised]
      \/ call' = [call EXCEPT ![c] = NewCall("estimate")]
  BY DEF Estimate, Raise, TxTypeOK
<1>5. UNCHANGED <<pool, mined, receipt, ran>>
  BY DEF Estimate
<1> HIDE DEF raised
<1> QED BY <1>1, <1>2, <1>3, <1>4, <1>5, CallEffects

\* A receipt is that of the only transaction the call has had since.
LEMMA ConfirmEffects ==
    ASSUME TxTypeOK, EffectInv, NEW c \in Calls, Confirm(c)
    PROVE  EffectInv'
<1>1. call[c] \in CallState /\ call[c].at = "wait" /\ UNCHANGED <<pool, mined, receipt, ran>>
  BY DEF TxTypeOK, Confirm
<1> DEFINE raised == [call[c] EXCEPT !.at = "raised"]
           done == [call[c] EXCEPT !.at = "ok"]
<1>2. raised \in CallState /\ raised.at = "raised" /\ done \in CallState /\ done.at = "ok"
  BY <1>1 DEF CallState
<1>3. NewCall("fallback") \in CallState /\ NewCall("fallback").at = "send"
  BY SenderAssumption DEF NewCall, CallState, Nonces
<1>4. \/ call' = [call EXCEPT ![c] = raised]
      \/ call' = [call EXCEPT ![c] = done] /\ receipt[c] = "ok"
      \/ call' = [call EXCEPT ![c] = NewCall("fallback")] /\ receipt[c] = "reverted"
  BY DEF Confirm, Raise, TxTypeOK
<1>5. receipt[c] = "ok" => ran[c] = 1
  BY <1>1 DEF EffectInv, EffectsKnown
<1>6. receipt[c] = "reverted" => ran[c] = 0 /\ \A m : ~Holds(c, m)
  BY <1>1 DEF EffectInv, EffectsKnown, PoolIsOpen
<1> HIDE DEF raised, done
<1> QED BY <1>1, <1>2, <1>3, <1>4, <1>5, <1>6, CallEffects

LEMMA TimeOutEffects ==
    ASSUME TxTypeOK, EffectInv, NEW c \in Calls, TimeOut(c)
    PROVE  EffectInv'
<1> DEFINE raised == [call[c] EXCEPT !.at = "raised"]
<1>1. call[c] \in CallState
  BY DEF TxTypeOK
<1>2. raised \in CallState /\ raised.at = "raised"
  BY <1>1 DEF CallState
<1>3. call' = [call EXCEPT ![c] = raised] /\ UNCHANGED <<pool, mined, receipt, ran>>
  BY DEF TimeOut, Raise, TxTypeOK
<1> HIDE DEF raised
<1> QED BY <1>2, <1>3, CallEffects

LEMMA CrashEffects == TxTypeOK /\ EffectInv /\ SenderCrash => EffectInv'
<1> SUFFICES ASSUME TxTypeOK, EffectInv, SenderCrash PROVE EffectInv'
  OBVIOUS
<1>1. UNCHANGED <<pool, mined, receipt, ran>>
  BY DEF SenderCrash
<1>2. \A c \in Calls : call[c] \in CallState
  BY DEF TxTypeOK
<1>3. \A c \in Calls : call'[c].at = IF call[c].at \in {"send", "wait"} THEN "raised" ELSE call[c].at
  BY <1>2 DEF SenderCrash, CallState
<1>4. \A c : \A n : Holds(c, n)' <=> Holds(c, n)
  BY <1>1 DEF Holds, Nonces
<1>5. OneInPool' /\ PoolIsOpen'
  BY <1>1, <1>3, <1>4 DEF EffectInv, OneInPool, PoolIsOpen
<1>6. EffectsKnown'
  BY <1>1, <1>3 DEF EffectInv, EffectsKnown
<1> QED BY <1>5, <1>6 DEF EffectInv

\* The call whose transaction is mined has no other one.
LEMMA MineEffects ==
    ASSUME TxTypeOK, EffectInv, NEW success \in BOOLEAN, MineNext(success)
    PROVE  EffectInv'
<1>0. mined \in Nonces /\ pool[mined] \in Calls
  BY SenderAssumption DEF MineNext, TxTypeOK, Nonces
<1> PICK c \in Calls : c = pool[mined]
  BY <1>0
<1>1. mined \in Nonces /\ Holds(c, mined)
  BY <1>0, SenderAssumption DEF TxTypeOK, Nonces, Holds
<1>2. /\ receipt' = [receipt EXCEPT ![c] = IF success THEN "ok" ELSE "reverted"]
      /\ ran' = [ran EXCEPT ![c] = IF success THEN @ + 1 ELSE @]
      /\ mined' = mined + 1 /\ UNCHANGED <<call, pool>>
  BY DEF MineNext
<1>3. ran[c] = 0 /\ call[c].at \in {"wait", "raised"}
  BY <1>1 DEF EffectInv, PoolIsOpen
<1>4. \A d \in Calls : /\ ran'[d] = IF d = c /\ success THEN 1 ELSE ran[d]
                       /\ receipt'[d] = IF d = c THEN (IF success THEN "ok" ELSE "reverted")
                                        ELSE receipt[d]
  BY <1>1, <1>2, <1>3 DEF TxTypeOK
<1>5. \A d \in Calls : \A n : Holds(d, n)' => Holds(d, n) /\ n # mined
  BY <1>1, <1>2 DEF Holds, Nonces, TxTypeOK
<1>6. \A n : ~Holds(c, n)'
  BY <1>1, <1>5 DEF EffectInv, OneInPool
<1>7. OneInPool'
  BY <1>5 DEF EffectInv, OneInPool
<1>8. PoolIsOpen'
  BY <1>2, <1>4, <1>5, <1>6 DEF EffectInv, PoolIsOpen
<1>9. EffectsKnown'
  BY <1>1, <1>2, <1>3, <1>4 DEF EffectInv, EffectsKnown
<1> QED BY <1>7, <1>8, <1>9 DEF EffectInv

LEMMA DropEffects ==
    ASSUME TxTypeOK, EffectInv, NEW n \in Nonces, DropPending(n)
    PROVE  EffectInv'
<1>1. UNCHANGED <<call, mined, receipt, ran>>
  BY DEF DropPending
<1>2. \A d \in Calls : \A m : Holds(d, m)' => Holds(d, m)
  BY <1>1, SenderAssumption DEF DropPending, Holds, Nonces, TxTypeOK
<1> QED BY <1>1, <1>2 DEF EffectInv, OneInPool, PoolIsOpen, EffectsKnown

LEMMA NextEffects == TxTypeOK /\ EffectInv /\ [TxNext]_txVars => EffectInv'
<1> SUFFICES ASSUME TxTypeOK, EffectInv, [TxNext]_txVars PROVE EffectInv'
  OBVIOUS
<1>1. ASSUME NEW c \in Calls, SendRaw(c) PROVE EffectInv'
  <2>1. PICK count \in PendingCounts :
          LET n == ChosenNonce(c, count) IN
          n <= MaxNonce /\ (Accepted(c, n) \/ Underpriced(c, n) \/ SendFails(c, n))
    BY <1>1 DEF SendRaw
  <2>2. ChosenNonce(c, count) \in Nonces
    BY <2>1, ChosenTypes, SenderAssumption DEF Nonces
  <2> QED BY <1>1, <2>1, <2>2, SendEffects DEF SendRaw
<1>2. CASE UNCHANGED txVars
  BY <1>2 DEF txVars, senderVars, EffectInv, OneInPool, PoolIsOpen, EffectsKnown, Holds, Nonces
<1> QED BY <1>1, <1>2, EstimateEffects, ConfirmEffects, TimeOutEffects, CrashEffects,
           MineEffects, DropEffects DEF TxNext, TxStep

\* Nothing a caller asks for takes effect twice on the chain: not when it is
\* replaced, retried with more gas, timed out, or sent with its answer lost.
THEOREM EffectsHappenOnce == TxSpec => []TakesEffectOnce
<1>1. TxSpec => []EffectInv
  BY SenderInitTypes, SenderNextTypes, InitEffects, NextEffects, PTL DEF TxSpec
<1>2. EffectInv => TakesEffectOnce
  BY DEF EffectInv, EffectsKnown, TakesEffectOnce
<1> QED BY <1>1, <1>2, PTL

-----------------------------------------------------------------------------
(* Gaps.  Everything below a nonce that is taken, tracked, or about to be    *)
(* used again is taken, as long as the pool drops nothing.                   *)

Filled(k) == \A m \in Nonces : m >= mined /\ m < k => pool[m] # None

GapInv ==
    ~dropped =>
        /\ \A n \in Nonces : n >= mined /\ pool[n] # None => Filled(n)
        /\ Filled(localNonce)
        /\ \A c \in Calls : call[c].at = "send" /\ call[c].forced => Filled(call[c].nonce)

LEMMA InitGaps == TxInit => GapInv
BY SenderAssumption DEF TxInit, NewCall, GapInv, Filled, Nonces

\* Steps that neither send nor drop.
LEMMA OtherGaps ==
    ASSUME TxTypeOK, GapInv, UNCHANGED <<pool, dropped>>, mined' \in {mined, mined + 1},
           localNonce' \in {0, localNonce},
           \A c \in Calls : call'[c].at = "send" => call'[c] = call[c] \/ ~call'[c].forced
    PROVE  GapInv'
<1>1. \A k : Filled(k) => Filled(k)'
  BY SenderAssumption DEF Filled, TxTypeOK, Nonces
<1>3. \A n \in Nonces : n >= mined' => n >= mined
  BY SenderAssumption DEF TxTypeOK, Nonces
<1>4. ASSUME ~dropped' PROVE /\ \A n \in Nonces : n >= mined' /\ pool'[n] # None => Filled(n)'
                             /\ Filled(localNonce)'
  <2>1. \A n \in Nonces : n >= mined' /\ pool'[n] # None => Filled(n)'
    BY <1>1, <1>3, <1>4 DEF GapInv
  <2>2. CASE localNonce' = localNonce
    <3>1. Filled(localNonce)
      BY <1>4 DEF GapInv
    <3>2. Filled(localNonce)'
      BY <2>2, <3>1, SenderAssumption DEF Filled, TxTypeOK, Nonces
    <3> QED BY <2>1, <3>2
  <2>3. CASE localNonce' = 0
    <3>1. Filled(localNonce)'
      BY <2>3, SenderAssumption DEF Filled, TxTypeOK, Nonces
    <3> QED BY <2>1, <3>1
  <2> QED BY <2>1, <2>2, <2>3
<1>5. ASSUME ~dropped', NEW c \in Calls, call'[c].at = "send" /\ call'[c].forced
      PROVE  Filled(call[c].nonce)'
  <2>1. call'[c] = call[c]
    BY <1>5
  <2>2. Filled(call[c].nonce)
    BY <1>5, <2>1 DEF GapInv
  <2> QED BY <2>1, <2>2, SenderAssumption DEF Filled, TxTypeOK, Nonces
<1> QED BY <1>4, <1>5 DEF GapInv, Nonces

LEMMA ChosenFilled ==
    ASSUME TxTypeOK, GapInv, ~dropped, NEW c \in Calls, call[c].at = "send",
           NEW count \in PendingCounts
    PROVE  Filled(ChosenNonce(c, count))
<1>1. Filled(count)
  BY SenderAssumption DEF PendingCounts, Filled, TxTypeOK, Nonces
<1> QED BY <1>1 DEF GapInv, ChosenNonce

LEMMA SendGaps ==
    ASSUME TxTypeOK, GapInv, NEW c \in Calls, NEW n \in Nonces, ~dropped => Filled(n),
           Accepted(c, n) \/ Underpriced(c, n) \/ SendFails(c, n), UNCHANGED <<mined, dropped>>
    PROVE  GapInv'
<1>1. call[c] \in CallState /\ \A d \in Calls \ {c} : call'[d] = call[d]
  BY DEF TxTypeOK, Accepted, Underpriced, SendFails, Raise
<1>2. \/ call'[c].at # "send"
      \/ call'[c].nonce = n
  BY <1>1 DEF TxTypeOK, CallState, Accepted, Underpriced, SendFails, Raise
<1>3. pool' = pool \/ pool' = [pool EXCEPT ![n] = c]
  BY DEF Accepted, Underpriced, SendFails
<1>4. \A k : Filled(k) => Filled(k)'
  BY <1>3, SenderAssumption DEF Filled, TxTypeOK
<1> SUFFICES ASSUME ~dropped' PROVE /\ \A m \in Nonces : m >= mined' /\ pool'[m] # None => Filled(m)'
                                    /\ Filled(localNonce)'
                                    /\ \A d \in Calls : call'[d].at = "send" /\ call'[d].forced
                                          => Filled(call[d].nonce)'
  BY DEF GapInv, Nonces
<1>5. Filled(n) /\ Filled(n)'
  BY <1>4
<1>6. \A m \in Nonces : m >= mined' /\ pool'[m] # None => Filled(m)'
  BY <1>3, <1>4, <1>5 DEF GapInv, TxTypeOK
<1>7. Filled(localNonce)'
  <2>1. CASE localNonce' = localNonce
    BY <1>4, <2>1 DEF GapInv, Filled
  <2>2. CASE Accepted(c, n)
    <3>1. localNonce' = n + 1 /\ pool'[n] # None
      BY <2>2, SenderAssumption DEF Accepted, TxTypeOK
    <3> QED BY <1>5, <3>1, SenderAssumption DEF Filled, Nonces
  <2> QED BY <2>1, <2>2 DEF Underpriced, SendFails
<1>8. \A d \in Calls : call'[d].at = "send" /\ call'[d].forced => Filled(call[d].nonce)'
  <2> SUFFICES ASSUME NEW d \in Calls, call'[d].at = "send", call'[d].forced
               PROVE  Filled(call[d].nonce)'
    BY DEF Nonces
  <2>1. CASE d = c
    BY <1>2, <1>5, <2>1 DEF Filled
  <2>2. CASE d # c
    <3>1. call'[d] = call[d] /\ Filled(call[d].nonce)
      BY <1>1, <2>2 DEF GapInv
    <3> QED BY <1>3, <3>1, SenderAssumption DEF Filled, TxTypeOK
  <2> QED BY <2>1, <2>2
<1> QED BY <1>6, <1>7, <1>8

LEMMA NextGaps == TxTypeOK /\ GapInv /\ [TxNext]_txVars => GapInv'
<1> SUFFICES ASSUME TxTypeOK, GapInv, [TxNext]_txVars PROVE GapInv'
  OBVIOUS
<1>t. \A c \in Calls : call[c] \in CallState
  BY DEF TxTypeOK
<1>1. ASSUME NEW c \in Calls, SendRaw(c) PROVE GapInv'
  <2>1. PICK count \in PendingCounts :
          LET n == ChosenNonce(c, count) IN
          n <= MaxNonce /\ (Accepted(c, n) \/ Underpriced(c, n) \/ SendFails(c, n))
    BY <1>1 DEF SendRaw
  <2>2. ChosenNonce(c, count) \in Nonces
    BY <2>1, ChosenTypes, SenderAssumption DEF Nonces
  <2>3. ~dropped => Filled(ChosenNonce(c, count))
    BY <1>1, ChosenFilled DEF SendRaw
  <2> QED BY <1>1, <2>1, <2>2, <2>3, SendGaps DEF SendRaw
<1>2. ASSUME NEW c \in Calls, Estimate(c) \/ Confirm(c) \/ TimeOut(c) PROVE GapInv'
  <2>1. \A d \in Calls : d # c => call'[d] = call[d]
    BY <1>2 DEF Estimate, Confirm, TimeOut, Raise, TxTypeOK
  <2>2. call'[c].at = "send" => ~call'[c].forced
    BY <1>2, <1>t DEF Estimate, Confirm, TimeOut, Raise, NewCall, TxTypeOK, CallState
  <2> QED BY <1>2, <2>1, <2>2, OtherGaps DEF Estimate, Confirm, TimeOut
<1>3. CASE SenderCrash
  <2>1. \A c \in Calls : call'[c].at # "send"
    BY <1>3, <1>t DEF SenderCrash, CallState
  <2> QED BY <1>3, <2>1, OtherGaps DEF SenderCrash
<1>4. ASSUME NEW success \in BOOLEAN, MineNext(success) PROVE GapInv'
  BY <1>4, OtherGaps DEF MineNext
<1>5. ASSUME NEW n \in Nonces, DropPending(n) PROVE GapInv'
  BY <1>5 DEF DropPending, GapInv
<1>6. CASE UNCHANGED txVars
  BY <1>6, OtherGaps DEF txVars, senderVars
<1> QED BY <1>1, <1>2, <1>3, <1>4, <1>5, <1>6 DEF TxNext, TxStep

-----------------------------------------------------------------------------
(* Collisions.  Without failures the tracker is ahead of every transaction,  *)
(* so that no nonce is ever used again.                                      *)

TrackerInv ==
    (faults = 0 /\ restarts = 0) =>
        /\ \A n \in Nonces : pool[n] # None => n < localNonce
        /\ \A c \in Calls : call[c].at = "send" => ~call[c].forced
        /\ \A c \in Calls : call[c].at = "wait" => call[c].nonce < localNonce
        /\ \A c, d \in Calls : (call[c].at = "wait" /\ call[d].at = "wait" /\ c # d)
                                   => call[c].nonce # call[d].nonce

LEMMA InitTracker == TxInit => TrackerInv
BY SenderAssumption DEF TxInit, NewCall, TrackerInv, Nonces

\* Steps after which the calls that wait are the same, or fewer.
LEMMA OtherTracker ==
    ASSUME TxTypeOK, TrackerInv, UNCHANGED <<pool, localNonce, restarts>>, Fault \/ NoFault,
           \A c \in Calls : \/ call'[c] = call[c]
                            \/ call'[c].at # "wait" /\ (call'[c].at = "send" => ~call'[c].forced)
    PROVE  TrackerInv'
<1> SUFFICES ASSUME faults' = 0, restarts' = 0 PROVE TrackerInv'
  BY DEF TrackerInv
<1>1. faults = 0 /\ restarts = 0
  BY ProcessAssumption DEF Fault, NoFault, TxTypeOK, ProcessTypeOK
<1> QED BY <1>1 DEF TrackerInv

LEMMA SendTracker ==
    ASSUME TxTypeOK, TrackerInv, NEW c \in Calls, SendRaw(c)
    PROVE  TrackerInv'
<1> SUFFICES ASSUME faults' = 0, restarts' = 0 PROVE TrackerInv'
  BY DEF TrackerInv
<1>1. PICK count \in PendingCounts :
        LET n == ChosenNonce(c, count) IN
        n <= MaxNonce /\ (Accepted(c, n) \/ Underpriced(c, n) \/ SendFails(c, n))
  BY DEF SendRaw
<1>2. PICK n \in Nonces : n = ChosenNonce(c, count)
  BY <1>1, ChosenTypes, SenderAssumption DEF Nonces
<1>3. faults = 0 /\ restarts = 0 /\ ~Fault
  BY <1>1, ProcessAssumption
  DEF SendRaw, Accepted, Underpriced, SendFails, Fault, NoFault, TxTypeOK, ProcessTypeOK
<1>4. ~call[c].forced
  BY <1>3 DEF SendRaw, TrackerInv
<1>5. n >= localNonce /\ n >= mined
  BY <1>2, <1>4, SenderAssumption DEF ChosenNonce, PendingCounts, TxTypeOK, Nonces
<1>6. pool[n] = None
  BY <1>3, <1>5, SenderAssumption DEF TrackerInv, TxTypeOK, Nonces
<1>7. Accepted(c, n)
  BY <1>1, <1>2, <1>3, <1>5, <1>6, SenderAssumption DEF Underpriced, SendFails, TxTypeOK, Nonces
<1>8. \A d \in Calls \ {c} : call'[d] = call[d]
  BY <1>7 DEF Accepted, TxTypeOK
<1>9. call'[c].at = "wait" /\ call'[c].nonce = n /\ localNonce' = n + 1
  BY <1>7 DEF Accepted, TxTypeOK, CallState
<1>10. \A m \in Nonces : pool'[m] # None => m < localNonce'
  <2>1. \A m \in Nonces : m # n => pool'[m] = pool[m]
    BY <1>7 DEF Accepted, TxTypeOK
  <2>2. \A m \in Nonces : pool[m] # None => m < localNonce
    BY <1>3 DEF TrackerInv
  <2>3. n \in Nat /\ localNonce \in Nat /\ \A m \in Nonces : m \in Nat
    BY SenderAssumption DEF TxTypeOK, Nonces
  <2>4. \A m \in Nonces : m = n => m < localNonce'
    BY <1>9, <2>3
  <2>5. \A m \in Nonces : m # n /\ pool'[m] # None => m < localNonce'
    <3>1. localNonce' \in Nat /\ localNonce < localNonce'
      BY <1>5, <1>9, <2>3
    <3>2. \A m \in Nonces : m # n /\ pool'[m] # None => m < localNonce
      BY <2>1, <2>2
    <3> QED BY <2>3, <3>1, <3>2
  <2> QED BY <2>4, <2>5
<1>11. \A d \in Calls \ {c} : call[d].at = "wait" => call[d].nonce < n
  BY <1>3, <1>5, SenderAssumption DEF TrackerInv, TxTypeOK, CallState, Nonces
<1>12. \A d \in Calls : call'[d].at = "wait" => call'[d].nonce < localNonce'
  <2>1. \A d \in Calls : call[d].nonce \in Nat
    BY SenderAssumption DEF TxTypeOK, CallState, Nonces
  <2>2. n \in Nat
    BY SenderAssumption DEF Nonces
  <2> QED BY <1>8, <1>9, <1>11, <2>1, <2>2
<1>13. \A d, e \in Calls : (call'[d].at = "wait" /\ call'[e].at = "wait" /\ d # e)
                              => call'[d].nonce # call'[e].nonce
  BY <1>3, <1>8, <1>9, <1>11, SenderAssumption DEF TrackerInv, Nonces
<1>14. \A d \in Calls : call'[d].at = "send" => ~call'[d].forced
  BY <1>3, <1>8, <1>9 DEF TrackerInv
<1> QED BY <1>10, <1>12, <1>13, <1>14 DEF TrackerInv, Nonces

LEMMA NextTracker == TxTypeOK /\ TrackerInv /\ [TxNext]_txVars => TrackerInv'
<1> SUFFICES ASSUME TxTypeOK, TrackerInv, [TxNext]_txVars PROVE TrackerInv'
  OBVIOUS
<1>t. \A c \in Calls : call[c] \in CallState
  BY DEF TxTypeOK
<1>1. ASSUME NEW c \in Calls, Estimate(c) \/ Confirm(c) \/ TimeOut(c) PROVE TrackerInv'
  <2>1. \A d \in Calls : d # c => call'[d] = call[d]
    BY <1>1 DEF Estimate, Confirm, TimeOut, Raise, TxTypeOK
  <2>2. call'[c].at # "wait" /\ (call'[c].at = "send" => ~call'[c].forced)
    BY <1>1, <1>t DEF Estimate, Confirm, TimeOut, Raise, NewCall, TxTypeOK, CallState
  <2>3. Fault \/ NoFault
    BY <1>1 DEF Estimate, Confirm, TimeOut, NoFault
  <2> QED BY <1>1, <2>1, <2>2, <2>3, OtherTracker DEF Estimate, Confirm, TimeOut
<1>2. ASSUME SenderCrash PROVE TrackerInv'
  BY <1>2, ProcessAssumption DEF SenderCrash, Restart, TrackerInv, TxTypeOK, ProcessTypeOK
<1>3. ASSUME NEW success \in BOOLEAN, MineNext(success) PROVE TrackerInv'
  BY <1>3, OtherTracker DEF MineNext, NoFault
<1>4. ASSUME NEW n \in Nonces, DropPending(n) PROVE TrackerInv'
  BY <1>4, ProcessAssumption DEF DropPending, Fault, TrackerInv, TxTypeOK, ProcessTypeOK
<1>5. CASE UNCHANGED txVars
  BY <1>5, OtherTracker DEF txVars, senderVars, NoFault
<1> QED BY <1>1, <1>2, <1>3, <1>4, <1>5, SendTracker DEF TxNext, TxStep

\* Nonces neither collide nor leave gaps, for any number of concurrent callers
\* and however far the node's count lags.
THEOREM NoncesAreInOrder == TxSpec => []NoncesInOrder
<1>1. TxSpec => [](TxTypeOK /\ GapInv /\ TrackerInv)
  BY SenderInitTypes, SenderNextTypes, InitGaps, NextGaps, InitTracker, NextTracker, PTL DEF TxSpec
<1>2. TxTypeOK /\ GapInv /\ TrackerInv => NoncesInOrder
  <2> SUFFICES ASSUME TxTypeOK, GapInv, TrackerInv PROVE NoncesInOrder
    OBVIOUS
  <2>1. ASSUME ~dropped, NEW n \in Nonces, n >= mined, pool[n] # None, NEW m \in mined..n
        PROVE  pool[m] # None
    BY <2>1, SenderAssumption DEF GapInv, Filled, TxTypeOK, Nonces
  <2> QED BY <2>1 DEF TrackerInv, NoncesInOrder
<1> QED BY <1>1, <1>2, PTL
-----------------------------------------------------------------------------
(* The oToken manager: types.  *)

ManagerAll == ManagerTypeOK /\ ProcessTypeOK

ManagerVars == <<managerVars, faults, restarts>>

LEMMA ManagerFaults ==
    ProcessTypeOK /\ (Fault \/ NoFault) /\ UNCHANGED restarts => ProcessTypeOK'
BY ProcessAssumption DEF ProcessTypeOK, Fault, NoFault

\* On every third or every twelfth cycle.
LEMMA Period == ManagerTypeOK => ReconcileEvery \in {3, 12}
BY DEF ReconcileEvery

\* The count of the cycles, which starts anew after a period.
LEMMA NextCycle ==
    ASSUME ManagerTypeOK
    PROVE  (cycles + 1) % ReconcileEvery = IF cycles + 1 = ReconcileEvery THEN 0 ELSE cycles + 1
<1>1. CASE ReconcileEvery = 3
  <2>1. cycles \in 0..2
    BY <1>1 DEF ManagerTypeOK
  <2> QED BY <1>1, <2>1
<1>2. CASE ReconcileEvery = 12
  <2>1. cycles \in 0..11
    BY <1>2 DEF ManagerTypeOK
  <2> QED BY <1>2, <2>1
<1> QED BY <1>1, <1>2, Period

LEMMA InitManager == ManagerInit /\ ProcessInit => ManagerAll
<1> SUFFICES ASSUME ManagerInit, ProcessInit PROVE ManagerAll
  OBVIOUS
<1>1. ProcessTypeOK
  BY ProcessAssumption DEF ProcessInit, ProcessTypeOK
<1>2. onchain \in [Options -> SUBSET Phases]
  <2>1. \A o \in Options : (IF o \in corrupt THEN Phases ELSE {}) \in SUBSET Phases
    OBVIOUS
  <2> QED BY <2>1 DEF ManagerInit
<1>3. mgr \in ManagerState
  BY DEF ManagerInit, NoCycle, ManagerState, Phases
<1>4. stale \in [Options -> Nat]
  BY DEF ManagerInit
<1>5. corrupt \subseteq Options
  BY DEF ManagerInit
<1>6. cycles \in 0..(ReconcileEvery - 1)
  BY DEF ManagerInit, ReconcileEvery
<1> QED BY <1>1, <1>2, <1>3, <1>4, <1>5, <1>6, ManagerAssumption DEF ManagerInit, ManagerAll, ManagerTypeOK

\* What the work on an option does to the option at hand.
LEMMA PhaseTypes ==
    ASSUME mgr \in ManagerState, mgr.option # None, PhaseDone \/ Exclude
    PROVE  mgr' \in ManagerState
<1> DEFINE o == mgr.option
<1>1. o \in Options /\ mgr.phase \in Phases /\ mgr.paired \subseteq Options
  BY DEF ManagerState
<1>2. [mgr EXCEPT !.option = None, !.phase = "create"] \in ManagerState
  BY DEF ManagerState, Phases
<1>3. [mgr EXCEPT !.option = None, !.phase = "create", !.paired = @ \union {mgr.option}]
         \in ManagerState
  BY <1>1 DEF ManagerState, Phases
<1>4. \A p \in Phases : [mgr EXCEPT !.phase = p] \in ManagerState
  BY DEF ManagerState
<1>5. Needed \subseteq Phases
  BY DEF Needed, Phases
<1>6. CASE Exclude
  BY <1>2, <1>6 DEF Exclude
<1>7. CASE PhaseDone
  BY <1>3, <1>4, <1>5, <1>7 DEF PhaseDone
<1> QED BY <1>6, <1>7

LEMMA SettleTypes ==
    ASSUME ManagerTypeOK, mgr.option # None, mgr.at = "ensure",
           NEW done \in Outcomes(mgr.option), Settle(mgr.option, done)
    PROVE  /\ onchain' \in [Options -> SUBSET Phases] /\ disturbed' \subseteq Options
           /\ stale' \in [Options -> Nat]
<1> DEFINE o == mgr.option
<1>1. o \in Options /\ mgr.phase \in Phases /\ onchain[o] \subseteq Phases
  BY DEF ManagerTypeOK, ManagerState
<1>2. done \subseteq Phases
  BY <1>1 DEF Outcomes, Phases
<1>3. onchain' \in [Options -> SUBSET Phases]
  BY <1>1, <1>2 DEF Settle, ManagerTypeOK
<1>4. disturbed' \subseteq Options
  BY DEF Settle, ManagerTypeOK
<1>5. stale' \in [Options -> Nat]
  BY <1>1 DEF Settle, ManagerTypeOK
<1> QED BY <1>3, <1>4, <1>5

LEMMA EnsureTypes == ManagerAll /\ EnsurePhase => ManagerAll'
<1> SUFFICES ASSUME ManagerAll, EnsurePhase PROVE ManagerAll'
  OBVIOUS
<1> DEFINE o == mgr.option
<1> USE DEF ManagerAll
<1>1. mgr.at = "ensure" /\ o # None /\ o \in Options /\ mgr \in ManagerState
  BY DEF EnsurePhase, ManagerTypeOK, ManagerState
<1>2. UNCHANGED <<platform, listed, targets, near, cycles, changes, restarts>>
      /\ ReconcileEvery' = ReconcileEvery
  BY DEF EnsurePhase, ReconcileEvery
<1>3. ProcessTypeOK'
  BY <1>2, ManagerFaults DEF EnsurePhase, FindPhase, MakePhase, CloseInfo, NoFault
<1>4. mgr' \in ManagerState
  BY <1>1, PhaseTypes DEF EnsurePhase, FindPhase, MakePhase, CloseInfo
<1>5. /\ onchain' \in [Options -> SUBSET Phases] /\ disturbed' \subseteq Options
      /\ stale' \in [Options -> Nat] /\ corrupt' \subseteq Options
  <2>1. CASE FindPhase
    BY <2>1 DEF FindPhase, ManagerTypeOK
  <2>2. CASE MakePhase
    <3>1. (\E done \in Outcomes(o) : Settle(o, done)) \/ UNCHANGED <<onchain, disturbed, stale>>
      BY <2>2 DEF MakePhase
    <3>2. corrupt' = corrupt
      BY <2>2 DEF MakePhase
    <3> QED BY <1>1, <3>1, <3>2, SettleTypes DEF ManagerTypeOK
  <2>3. CASE CloseInfo
    <3>1. onchain[o] \ {"info"} \subseteq Phases
      BY <1>1 DEF ManagerTypeOK
    <3>2. stale' = stale
      BY <2>3 DEF CloseInfo
    <3>3. /\ onchain' \in {onchain, [onchain EXCEPT ![o] = @ \ {"info"}]}
          /\ corrupt' \in {corrupt, corrupt \ {o}} /\ disturbed' \in {disturbed, disturbed \union {o}}
      BY <2>3 DEF CloseInfo
    <3> QED BY <1>1, <3>1, <3>2, <3>3 DEF ManagerTypeOK
  <2> QED BY <2>1, <2>2, <2>3 DEF EnsurePhase
<1> QED BY <1>2, <1>3, <1>4, <1>5 DEF ManagerTypeOK

LEMMA NextManager == ManagerAll /\ [ManagerNext]_ManagerVars => ManagerAll'
<1> SUFFICES ASSUME ManagerAll, [ManagerNext]_ManagerVars PROVE ManagerAll'
  OBVIOUS
<1> USE DEF ManagerAll
<1>0. mgr \in ManagerState /\ NoCycle \in ManagerState /\ mgr.paired \subseteq Options
  BY DEF ManagerTypeOK, ManagerState, NoCycle, Phases
<1>a. UNCHANGED platform => ReconcileEvery' = ReconcileEvery
  BY DEF ReconcileEvery
<1>b. 0 \in 0..(ReconcileEvery - 1)
  BY Period
<1>1. CASE BeginCycle
  <2>1. AfterPruning \subseteq Options /\ Existing \subseteq Options
    BY DEF AfterPruning, Existing, ManagerTypeOK
  <2>2. [NoCycle EXCEPT !.at = "ensure", !.left = targets \ Existing, !.paired = Existing]
          \in ManagerState
    BY <2>1 DEF ManagerTypeOK, ManagerState, NoCycle, Phases
  <2>3. mgr' \in ManagerState
    BY <1>0, <1>1, <2>2 DEF BeginCycle
  <2>4. [o \in Options |-> IF o \in Existing /\ "whitelist" \notin onchain[o]
                           THEN stale[o] + 1 ELSE stale[o]] \in [Options -> Nat]
    BY DEF ManagerTypeOK
  <2>5. stale' \in [Options -> Nat]
    BY <1>1, <2>4 DEF BeginCycle, ManagerTypeOK
  <2>6. listed' \subseteq Options
    BY <1>1, <2>1 DEF BeginCycle, ManagerTypeOK
  <2>7. cycles' \in 0..(ReconcileEvery - 1)
    <3>1. cycles' = IF cycles + 1 = ReconcileEvery THEN 0 ELSE cycles + 1
      BY <1>1, NextCycle DEF BeginCycle
    <3> QED BY <3>1, Period DEF ManagerTypeOK
  <2>8. ProcessTypeOK'
    BY <1>1, ManagerFaults DEF BeginCycle
  <2> QED BY <1>1, <1>a, <2>3, <2>5, <2>6, <2>7, <2>8 DEF BeginCycle, ManagerTypeOK
<1>2. ASSUME NEW o \in Options, NextOption(o) PROVE ManagerAll'
  <2>1. [mgr EXCEPT !.option = o, !.left = @ \ {o}, !.phase = "create"] \in ManagerState
    BY <1>0 DEF ManagerState, Phases
  <2> QED BY <1>2, <1>a, <2>1 DEF NextOption, ManagerTypeOK, ProcessTypeOK
<1>3. CASE EnsurePhase
  BY <1>3, EnsureTypes
<1>4. CASE EndCycle
  <2>1. listed' \subseteq Options
    BY <1>0, <1>4 DEF EndCycle, WithRows, ManagerTypeOK
  <2>2. ProcessTypeOK'
    BY <1>4, ManagerFaults DEF EndCycle
  <2> QED BY <1>0, <1>4, <1>a, <2>1, <2>2 DEF EndCycle, ManagerTypeOK
<1>5. CASE ManagerCrash
  BY <1>0, <1>5, <1>a, <1>b, ProcessAssumption DEF ManagerCrash, Restart, ManagerTypeOK, ProcessTypeOK
<1>6. CASE MoveTargets
  <2>1. stale' \in [Options -> Nat]
    BY <1>6 DEF MoveTargets, ManagerTypeOK
  <2>2. changes' \in 0..MaxChanges
    BY <1>6, ManagerAssumption DEF MoveTargets, Change, ManagerTypeOK
  <2> QED BY <1>6, <1>a, <2>1, <2>2 DEF MoveTargets, ManagerTypeOK, ProcessTypeOK
<1>7. ASSUME NEW o \in Options, EnterCutoff(o) PROVE ManagerAll'
  <2>1. changes' \in 0..MaxChanges
    BY <1>7, ManagerAssumption DEF EnterCutoff, Change, ManagerTypeOK
  <2>2. stale' \in [Options -> Nat] /\ near' \subseteq Options /\ targets' \subseteq Options \ near'
    BY <1>7 DEF EnterCutoff, ManagerTypeOK
  <2> QED BY <1>7, <1>a, <2>1, <2>2 DEF EnterCutoff, ManagerTypeOK, ProcessTypeOK
<1>8. ASSUME NEW o \in Options, Delist(o) PROVE ManagerAll'
  <2>1. changes' \in 0..MaxChanges
    BY <1>8, ManagerAssumption DEF Delist, Change, ManagerTypeOK
  <2>2. stale' \in [Options -> Nat] /\ disturbed' \subseteq Options
    BY <1>8 DEF Delist, ManagerTypeOK
  <2>3. onchain' \in [Options -> SUBSET Phases]
    BY <1>8 DEF Delist, ManagerTypeOK
  <2> QED BY <1>8, <1>a, <2>1, <2>2, <2>3 DEF Delist, ManagerTypeOK, ProcessTypeOK
<1>9. CASE UNCHANGED ManagerVars
  BY <1>9, <1>a DEF ManagerVars, managerVars, ManagerTypeOK, ProcessTypeOK
<1> QED BY <1>1, <1>2, <1>3, <1>4, <1>5, <1>6, <1>7, <1>8, <1>9 DEF ManagerNext, Manage
-----------------------------------------------------------------------------
(* A listed option is complete on its chain, or was undone from outside.    *)

Usable(o) == Needed \subseteq onchain[o] \/ o \in disturbed

\* The steps that are over when p is at hand.
StepsBefore(p) == IF p = "create" THEN {}
                  ELSE IF p = "whitelist" THEN {"create"}
                  ELSE IF p = "info" THEN {"create", "whitelist"}
                  ELSE {"create", "whitelist", "info"}

UsableInv ==
    /\ corrupt \subseteq disturbed
    /\ \A o \in listed \union mgr.paired : Usable(o)
    /\ mgr.option # None =>
         /\ mgr.phase \in Needed
         /\ StepsBefore(mgr.phase) \subseteq onchain[mgr.option] \/ mgr.option \in disturbed

\* Cycles since o was delisted, as the count stands at most: a full cycle works
\* on every target that misses its whitelisting, and those between two do not.
Late(o) ==
    IF cycles # 1 THEN IF cycles = 0 THEN ReconcileEvery - 1 ELSE cycles - 1
    ELSE IF mgr.at = "ensure"
            /\ (o \in mgr.left \/ (mgr.option = o /\ mgr.phase \in {"create", "whitelist"}))
    THEN ReconcileEvery - 1 ELSE 0

StaleInv ==
    /\ \A o \in Options : stale[o] > 0 => o \in targets /\ "whitelist" \notin onchain[o]
    /\ faults = 0 => \A o \in Options : stale[o] <= Late(o)

ListingInv == ManagerAll /\ UsableInv /\ StaleInv

\* How much it may be.
LEMMA LateBounds ==
    ASSUME ManagerTypeOK, NEW o \in Options
    PROVE  /\ Late(o) \in 0..(ReconcileEvery - 1)
           /\ ReconcileEvery - 1 \in Nat \ {0, 1}
<1>1. ReconcileEvery \in {3, 12} /\ cycles \in 0..(ReconcileEvery - 1)
  BY Period DEF ManagerTypeOK
<1> QED BY <1>1 DEF Late

LEMMA InitListing == ManagerInit /\ ProcessInit => ListingInv
<1> SUFFICES ASSUME ManagerInit, ProcessInit PROVE ListingInv
  OBVIOUS
<1>1. ManagerAll
  BY InitManager
<1>2. UsableInv
  BY DEF ManagerInit, UsableInv, Usable, NoCycle
<1>3. StaleInv
  <2>1. \A o \in Options : stale[o] = 0 /\ Late(o) >= 0
    BY <1>1, LateBounds DEF ManagerAll, ManagerInit
  <2> QED BY <2>1 DEF StaleInv
<1> QED BY <1>1, <1>2, <1>3 DEF ListingInv

\* After a step that is done, the option goes on to the next or is paired.
LEMMA PhaseDoneUsable ==
    ASSUME mgr \in ManagerState, mgr.option # None, mgr.phase \in Needed, PhaseDone, NEW done,
           StepsBefore(mgr.phase) \union {mgr.phase} \subseteq done
    PROVE  \/ /\ mgr'.option = mgr.option /\ mgr'.paired = mgr.paired
              /\ mgr'.phase \in Needed /\ StepsBefore(mgr'.phase) \subseteq done
           \/ /\ mgr'.option = None /\ mgr'.paired = mgr.paired \union {mgr.option}
              /\ Needed \subseteq done
<1>1. mgr.phase \in Phases
  BY DEF ManagerState
<1>2. CASE platform = "base"
  BY <1>1, <1>2 DEF Needed, Phases, PhaseDone, StepsBefore, ManagerState
<1>3. CASE platform # "base"
  BY <1>1, <1>3 DEF Needed, Phases, PhaseDone, StepsBefore, ManagerState
<1> QED BY <1>2, <1>3

LEMMA EnsureUsable ==
    ASSUME ManagerAll, UsableInv, EnsurePhase
    PROVE  UsableInv'
<1> DEFINE o == mgr.option
<1>1. o \in Options /\ o # None /\ mgr \in ManagerState /\ mgr.phase \in Needed
  BY DEF EnsurePhase, ManagerAll, ManagerTypeOK, ManagerState, UsableInv
<1>2. listed' = listed /\ platform' = platform /\ Needed' = Needed
  BY DEF EnsurePhase, Needed
\* The option at hand goes on, is paired, or is left out.
<1> DEFINE Onward == \/ /\ mgr'.option = o /\ mgr'.paired = mgr.paired /\ mgr'.phase \in Needed
                        /\ StepsBefore(mgr'.phase) \subseteq onchain'[o] \/ o \in disturbed'
                     \/ /\ mgr'.option = None /\ mgr'.paired = mgr.paired \union {o}
                        /\ Needed \subseteq onchain'[o] \/ o \in disturbed'
                     \/ /\ mgr'.option = None /\ mgr'.paired = mgr.paired
           Kept == /\ corrupt' \subseteq disturbed'
                   /\ \A x \in Options : Usable(x) => Usable(x)'
<1>4. Onward /\ Kept => UsableInv'
  <2> SUFFICES ASSUME Onward, Kept PROVE UsableInv'
    OBVIOUS
  <2>1. \A x \in listed \union mgr.paired : Usable(x)' /\ x \in Options
    BY <1>1 DEF UsableInv, ManagerAll, ManagerTypeOK, ManagerState
  <2>2. \A x \in (listed \union mgr.paired)' : Usable(x)'
    BY <1>2, <2>1 DEF Usable
  <2>3. (mgr.option # None)' => /\ (mgr.phase \in Needed)'
                                /\ (StepsBefore(mgr.phase) \subseteq onchain[mgr.option]
                                      \/ mgr.option \in disturbed)'
    BY <1>1, <1>2
  <2> QED BY <2>2, <2>3 DEF UsableInv
<1>5. Exclude => mgr'.option = None /\ mgr'.paired = mgr.paired
  BY <1>1 DEF Exclude, ManagerState
<1>6. CASE FindPhase
  <2>1. UNCHANGED <<onchain, corrupt, disturbed>> /\ PhaseDone /\ mgr.phase \in onchain[o]
    BY <1>6 DEF FindPhase
  <2>2. Kept
    BY <1>2, <2>1 DEF Usable, UsableInv
  <2>3. Onward
    <3>1. CASE o \in disturbed
      <4>1. StepsBefore(mgr.phase) \union {mgr.phase} \subseteq Phases
        BY <1>1 DEF StepsBefore, Phases, ManagerState
      <4> QED BY <1>1, <2>1, <3>1, <4>1, PhaseDoneUsable
    <3>2. CASE StepsBefore(mgr.phase) \subseteq onchain[o]
      <4>1. StepsBefore(mgr.phase) \union {mgr.phase} \subseteq onchain[o]
        BY <2>1, <3>2
      <4> QED BY <1>1, <2>1, <4>1, PhaseDoneUsable
    <3> QED BY <1>1, <3>1, <3>2 DEF UsableInv
  <2> QED BY <1>4, <2>2, <2>3
<1>7. ASSUME NEW done \in Outcomes(o), Settle(o, done), corrupt' = corrupt
      PROVE  /\ Kept /\ onchain'[o] = done /\ onchain[o] \union {mgr.phase} \subseteq done
             /\ o \in disturbed => o \in disturbed' \/ Needed \subseteq done
  <2>1. onchain[o] \union {mgr.phase} \subseteq done
    BY <1>7 DEF Outcomes
  <2>2. onchain' = [onchain EXCEPT ![o] = done]
    BY <1>7 DEF Settle
  <2>3. onchain'[o] = done /\ \A x \in Options \ {o} : onchain'[x] = onchain[x]
    BY <1>1, <2>2 DEF ManagerAll, ManagerTypeOK
  <2>4. \/ disturbed' = disturbed
        \/ disturbed' = disturbed \ {o} /\ Needed \subseteq done /\ o \notin corrupt
    BY <1>7 DEF Settle
  <2>5. corrupt' \subseteq disturbed'
    BY <1>7, <2>4 DEF UsableInv
  <2>6. \A x \in Options : Usable(x) => Usable(x)'
    <3> TAKE x \in Options
    <3> HAVE Usable(x)
    <3>1. CASE x = o
      BY <1>2, <2>1, <2>3, <2>4, <3>1 DEF Usable
    <3>2. CASE x # o
      BY <1>2, <2>3, <2>4, <3>2 DEF Usable
    <3> QED BY <3>1, <3>2
  <2> QED BY <2>1, <2>3, <2>4, <2>5, <2>6
<1>8. CASE MakePhase
  <2>1. corrupt' = corrupt
    BY <1>8 DEF MakePhase
  <2>2. CASE \E done \in Outcomes(o) : Settle(o, done) /\ (PhaseDone \/ Exclude)
    <3>1. PICK done \in Outcomes(o) : Settle(o, done) /\ (PhaseDone \/ Exclude)
      BY <2>2
    <3>2. /\ Kept /\ onchain'[o] = done /\ onchain[o] \union {mgr.phase} \subseteq done
          /\ o \in disturbed => o \in disturbed' \/ Needed \subseteq done
      BY <1>7, <2>1, <3>1
    <3>3. CASE Exclude
      BY <1>4, <1>5, <3>2, <3>3
    <3>4. CASE PhaseDone
      <4>1. CASE StepsBefore(mgr.phase) \subseteq onchain[o] \/ Needed \subseteq done
        <5>1. StepsBefore(mgr.phase) \subseteq Needed
          BY <1>1 DEF StepsBefore, Needed, Phases
        <5>2. StepsBefore(mgr.phase) \union {mgr.phase} \subseteq done
          BY <3>2, <4>1, <5>1
        <5>3. Onward
          BY <1>1, <3>2, <3>4, <5>2, PhaseDoneUsable
        <5> QED BY <1>4, <3>2, <5>3
      <4>2. CASE o \in disturbed'
        <5>1. StepsBefore(mgr.phase) \union {mgr.phase} \subseteq Phases
          BY <1>1 DEF StepsBefore, Phases, ManagerState
        <5>2. Onward
          BY <1>1, <3>4, <4>2, <5>1, PhaseDoneUsable
        <5> QED BY <1>4, <3>2, <5>2
      <4> QED BY <1>1, <3>2, <4>1, <4>2 DEF UsableInv
    <3> QED BY <3>1, <3>3, <3>4
  <2>3. CASE Exclude /\ UNCHANGED <<onchain, disturbed, stale>>
    <3>1. Kept
      BY <1>2, <2>1, <2>3 DEF Usable, UsableInv
    <3> QED BY <1>4, <1>5, <2>3, <3>1
  <2>4. \/ \E done \in Outcomes(o) : Settle(o, done) /\ (PhaseDone \/ Exclude)
        \/ Exclude /\ UNCHANGED <<onchain, disturbed, stale>>
    BY <1>8, Zenon DEF MakePhase
  <2> QED BY <2>2, <2>3, <2>4
<1>9. CASE CloseInfo
  <2>1. CASE Exclude /\ UNCHANGED <<onchain, corrupt, disturbed>>
    <3>1. Kept
      BY <1>2, <2>1 DEF Usable, UsableInv
    <3> QED BY <1>4, <1>5, <2>1, <3>1
  <2>2. CASE /\ onchain' = [onchain EXCEPT ![o] = @ \ {"info"}] /\ UNCHANGED mgr
             /\ corrupt' = corrupt \ {o} /\ disturbed' = disturbed \union {o}
    <3>1. \A x \in Options \ {o} : onchain'[x] = onchain[x]
      BY <1>1, <2>2 DEF ManagerAll, ManagerTypeOK
    <3>2. Kept
      BY <1>2, <2>2, <3>1 DEF Usable, UsableInv
    <3>3. Onward
      BY <1>1, <2>2
    <3> QED BY <1>4, <3>2, <3>3
  <2> QED BY <1>9, <2>1, <2>2 DEF CloseInfo
<1> QED BY <1>6, <1>8, <1>9 DEF EnsurePhase

LEMMA NextUsable == ListingInv /\ [ManagerNext]_ManagerVars => UsableInv'
<1> SUFFICES ASSUME ManagerAll, UsableInv, [ManagerNext]_ManagerVars PROVE UsableInv'
  BY DEF ListingInv
<1>0. mgr \in ManagerState /\ listed \union mgr.paired \subseteq Options
  BY DEF ManagerAll, ManagerTypeOK, ManagerState
\* What is usable stays so as long as the chain is left alone.
<1>a. ASSUME UNCHANGED <<platform, onchain, disturbed>> PROVE \A o \in Options : Usable(o) => Usable(o)'
  BY <1>a DEF Usable, Needed
<1>1. CASE BeginCycle
  <2>1. UNCHANGED <<platform, onchain, corrupt, disturbed>>
    BY <1>1 DEF BeginCycle
  <2>2. AfterPruning \subseteq listed /\ Existing \subseteq listed
    BY DEF AfterPruning, Existing
  <2>3. listed' \subseteq listed
    BY <1>1, <2>2 DEF BeginCycle
  <2>4. \/ mgr' = mgr
        \/ mgr' = [NoCycle EXCEPT !.at = "ensure", !.left = targets \ Existing, !.paired = Existing]
    BY <1>1 DEF BeginCycle
  <2>5. mgr' = mgr \/ (mgr'.option = None /\ mgr'.paired = Existing)
    BY <2>4 DEF NoCycle
  <2>6. Needed' = Needed
    BY <2>1 DEF Needed
  <2>7. \A o \in (listed \union mgr.paired)' : Usable(o)'
    BY <1>0, <1>a, <2>1, <2>2, <2>3, <2>5 DEF UsableInv
  <2> QED BY <2>1, <2>5, <2>6, <2>7 DEF UsableInv
<1>2. ASSUME NEW o \in Options, NextOption(o) PROVE UsableInv'
  <2>1. /\ UNCHANGED <<platform, onchain, corrupt, listed, disturbed>>
        /\ mgr'.option = o /\ mgr'.paired = mgr.paired /\ mgr'.phase = "create"
    BY <1>0, <1>2 DEF NextOption, ManagerState
  <2>2. mgr'.phase \in Needed' /\ StepsBefore(mgr'.phase) = {}
    BY <2>1 DEF Needed, Phases, StepsBefore
  <2>3. \A x \in (listed \union mgr.paired)' : Usable(x)'
    BY <1>0, <1>a, <2>1 DEF UsableInv
  <2> QED BY <2>1, <2>2, <2>3 DEF UsableInv
<1>3. CASE EnsurePhase
  BY <1>3, EnsureUsable
<1>4. CASE EndCycle
  <2>1. UNCHANGED <<platform, onchain, corrupt, disturbed>> /\ mgr'.option = None /\ mgr'.paired = {}
    BY <1>4 DEF EndCycle, NoCycle
  <2>2. listed' \subseteq listed \union mgr.paired
    BY <1>4 DEF EndCycle, WithRows
  <2>3. \A o \in (listed \union mgr.paired)' : Usable(o)'
    BY <1>0, <1>a, <2>1, <2>2 DEF UsableInv
  <2> QED BY <2>1, <2>3 DEF UsableInv
<1>5. CASE ManagerCrash
  <2>1. /\ UNCHANGED <<platform, onchain, corrupt, listed, disturbed>>
        /\ mgr'.option = None /\ mgr'.paired = {}
    BY <1>5 DEF ManagerCrash, NoCycle
  <2>2. \A o \in (listed \union mgr.paired)' : Usable(o)'
    BY <1>0, <1>a, <2>1 DEF UsableInv
  <2> QED BY <2>1, <2>2 DEF UsableInv
<1>6. CASE UNCHANGED <<platform, onchain, corrupt, listed, mgr, disturbed>>
  <2>1. \A o \in (listed \union mgr.paired)' : Usable(o)'
    BY <1>0, <1>a, <1>6 DEF UsableInv
  <2>2. Needed' = Needed
    BY <1>6 DEF Needed
  <2> QED BY <1>6, <2>1, <2>2 DEF UsableInv
<1>7. ASSUME NEW o \in Options, Delist(o) PROVE UsableInv'
  <2>1. /\ UNCHANGED <<platform, corrupt, listed, mgr>> /\ disturbed' = disturbed \union {o}
        /\ onchain' = [onchain EXCEPT ![o] = @ \ {"whitelist"}]
    BY <1>7 DEF Delist
  <2>2. \A x \in Options \ {o} : onchain'[x] = onchain[x]
    BY <2>1 DEF ManagerAll, ManagerTypeOK
  <2>3. Needed' = Needed
    BY <2>1 DEF Needed
  <2>4. \A x \in Options : Usable(x) => Usable(x)'
    BY <2>1, <2>2, <2>3 DEF Usable
  <2>5. \A x \in (listed \union mgr.paired)' : Usable(x)'
    BY <1>0, <2>1, <2>4 DEF UsableInv
  <2>6. (mgr.option # None)' => /\ (mgr.phase \in Needed)'
                                /\ (StepsBefore(mgr.phase) \subseteq onchain[mgr.option]
                                      \/ mgr.option \in disturbed)'
    <3>1. mgr.option # None => mgr.option \in Options
      BY <1>0 DEF ManagerState
    <3> QED BY <2>1, <2>2, <2>3, <3>1 DEF UsableInv
  <2> QED BY <2>1, <2>5, <2>6 DEF UsableInv
<1>8. MoveTargets \/ (\E o \in Options : EnterCutoff(o)) \/ UNCHANGED ManagerVars
        => UNCHANGED <<platform, onchain, corrupt, listed, mgr, disturbed>>
  BY DEF MoveTargets, EnterCutoff, ManagerVars, managerVars
<1> QED BY <1>1, <1>2, <1>3, <1>4, <1>5, <1>6, <1>7, <1>8 DEF ManagerNext, Manage
-----------------------------------------------------------------------------
(* A delisted target is whitelisted again by the next full cycle.          *)

\* Without a call that fails, an option is left out only when it is done.
LEMMA EnsureStale ==
    ASSUME ManagerAll, StaleInv, EnsurePhase
    PROVE  StaleInv'
<1> DEFINE o == mgr.option
<1> USE DEF ManagerAll
<1>1. /\ o \in Options /\ o # None /\ mgr \in ManagerState /\ mgr.at = "ensure"
      /\ UNCHANGED <<targets, cycles>> /\ faults \in Nat /\ stale \in [Options -> Nat]
      /\ ReconcileEvery' = ReconcileEvery
  BY DEF EnsurePhase, ManagerTypeOK, ManagerState, ProcessTypeOK, ReconcileEvery
<1>a. /\ \A x \in Options : Late(x) \in 0..(ReconcileEvery - 1)
      /\ ReconcileEvery - 1 \in Nat
  BY LateBounds, Period
<1>b. \A x \in Options : Late(x)' \in 0..(ReconcileEvery - 1)
  <2>1. cycles \in 0..(ReconcileEvery - 1) /\ ReconcileEvery \in {3, 12}
    BY Period DEF ManagerTypeOK
  <2> QED BY <1>1, <2>1 DEF Late
\* What a step leaves behind: the other options as they were, this one perhaps
\* with its whitelisting.
<1> DEFINE Others == \A x \in Options \ {o} : stale'[x] = stale[x] /\ onchain'[x] = onchain[x]
           This == \/ stale'[o] = 0
                   \/ /\ stale'[o] = stale[o]
                      /\ "whitelist" \in onchain'[o] => "whitelist" \in onchain[o]
           Still == /\ mgr'.at = "ensure" /\ mgr'.left = mgr.left
                    /\ \/ stale'[o] = 0 \/ o \in mgr.left
                       \/ mgr'.option = o /\ mgr'.phase \in {"create", "whitelist"}
<1>2. ASSUME Others, This, faults' = 0 => faults = 0 /\ (cycles = 1 => Still) PROVE StaleInv'
  <2>1. ASSUME NEW x \in Options, stale'[x] > 0
        PROVE  x \in targets' /\ "whitelist" \notin onchain'[x]
    <3>1. CASE x = o
      BY <1>1, <1>2, <2>1, <3>1 DEF StaleInv
    <3>2. CASE x # o
      BY <1>1, <1>2, <2>1, <3>2 DEF StaleInv
    <3> QED BY <3>1, <3>2
  <2>2. ASSUME faults' = 0, NEW x \in Options PROVE stale'[x] <= Late(x)'
    <3>1. faults = 0 /\ stale[x] <= Late(x) /\ stale[x] \in Nat /\ stale'[x] \in {0, stale[x]}
      BY <1>1, <1>2, <2>2 DEF StaleInv
    <3>2. CASE cycles # 1
      <4>1. Late(x)' = Late(x)
        BY <1>1, <3>2 DEF Late
      <4> QED BY <1>a, <3>1, <4>1
    <3>3. CASE cycles = 1
      <4>1. CASE stale'[x] = 0
        BY <1>b, <4>1
      <4>2. CASE stale'[x] > 0
        <5>1. x \in mgr.left \/ (o = x /\ mgr.phase \in {"create", "whitelist"})
          BY <3>1, <3>3, <4>2 DEF Late
        <5>2. Late(x)' = ReconcileEvery - 1
          <6>1. CASE x = o
            BY <1>1, <1>2, <2>2, <3>3, <4>2, <6>1 DEF Late
          <6>2. CASE x # o
            BY <1>1, <1>2, <2>2, <3>3, <5>1, <6>2 DEF Late
          <6> QED BY <6>1, <6>2
        <5> QED BY <1>a, <3>1, <5>2
      <4> QED BY <3>1, <4>1, <4>2
    <3> QED BY <3>2, <3>3
  <2> QED BY <2>1, <2>2 DEF StaleInv
<1>3. Fault => faults' # 0
  BY <1>1 DEF Fault
\* The last step the whitelisting may still be ahead of.
<1>4. PhaseDone => /\ mgr'.at = "ensure" /\ mgr'.left = mgr.left
                   /\ mgr.phase = "create" => mgr'.option = o /\ mgr'.phase = "whitelist"
  BY <1>1 DEF PhaseDone, Needed, Phases, ManagerState
<1>5. CASE FindPhase
  <2>1. UNCHANGED <<onchain, stale, faults>> /\ PhaseDone /\ mgr.phase \in onchain[o]
    BY <1>5 DEF FindPhase
  <2>2. CASE stale[o] = 0
    BY <1>2, <1>4, <2>1, <2>2
  <2>3. CASE stale[o] > 0
    <3>1. mgr.phase # "whitelist"
      BY <1>1, <2>1, <2>3 DEF StaleInv
    <3>2. ASSUME faults = 0, cycles = 1 PROVE mgr.phase = "create" \/ o \in mgr.left
      <4>1. stale[o] <= Late(o)
        BY <1>1, <3>2 DEF StaleInv
      <4> QED BY <1>1, <2>3, <3>1, <3>2, <4>1 DEF Late
    <3>3. Others /\ This
      BY <2>1
    <3>4. faults = 0 /\ cycles = 1 => Still
      BY <1>4, <2>1, <3>2
    <3> QED BY <1>2, <2>1, <3>3, <3>4
  <2> QED BY <1>1, <2>2, <2>3
<1>6. ASSUME NEW done \in Outcomes(o), Settle(o, done)
      PROVE  Others /\ This /\ ("whitelist" \in done => stale'[o] = 0)
             /\ onchain[o] \union {mgr.phase} \subseteq done
  <2>1. onchain[o] \union {mgr.phase} \subseteq done
    BY <1>6 DEF Outcomes
  <2>2. /\ onchain' = [onchain EXCEPT ![o] = done]
        /\ stale' = IF "whitelist" \in done THEN [stale EXCEPT ![o] = 0] ELSE stale
    BY <1>6 DEF Settle
  <2>3. onchain'[o] = done /\ \A x \in Options \ {o} : onchain'[x] = onchain[x]
    BY <1>1, <2>2 DEF ManagerTypeOK
  <2>4. \A x \in Options \ {o} : stale'[x] = stale[x]
    BY <1>1, <2>2
  <2>5. CASE "whitelist" \in done
    BY <1>1, <2>1, <2>2, <2>3, <2>4, <2>5
  <2>6. CASE "whitelist" \notin done
    BY <1>1, <2>1, <2>2, <2>3, <2>4, <2>6
  <2> QED BY <2>5, <2>6
<1>7. CASE MakePhase
  <2>1. CASE \E done \in Outcomes(o) : Settle(o, done) /\ PhaseDone
    <3>1. PICK done \in Outcomes(o) : Settle(o, done) /\ PhaseDone
      BY <2>1
    <3>2. Others /\ This /\ ("whitelist" \in done => stale'[o] = 0)
          /\ onchain[o] \union {mgr.phase} \subseteq done
      BY <1>6, <3>1
    <3>3. faults' = 0 => faults = 0
      BY <1>1, <1>7 DEF MakePhase, NoFault, Fault
    <3>4. ASSUME faults = 0, cycles = 1 PROVE Still
      <4>1. CASE stale'[o] = 0
        BY <1>4, <3>1, <4>1
      <4>2. CASE stale'[o] # 0
        <5>1. stale[o] > 0 /\ mgr.phase # "whitelist"
          BY <1>1, <3>2, <4>2
        <5>2. stale[o] <= Late(o)
          BY <1>1, <3>4 DEF StaleInv
        <5>3. mgr.phase = "create" \/ o \in mgr.left
          BY <1>1, <3>4, <5>1, <5>2 DEF Late
        <5> QED BY <1>4, <3>1, <5>3
      <4> QED BY <4>1, <4>2
    <3> QED BY <1>2, <3>2, <3>3, <3>4
  <2>2. CASE Fault /\ \/ \E done \in Outcomes(o) : Settle(o, done)
                      \/ UNCHANGED <<onchain, disturbed, stale>>
    <3>1. Others /\ This
      BY <1>6, <2>2
    <3> QED BY <1>2, <1>3, <2>2, <3>1
  <2>3. \/ \E done \in Outcomes(o) : Settle(o, done) /\ PhaseDone
        \/ Fault /\ \/ \E done \in Outcomes(o) : Settle(o, done)
                    \/ UNCHANGED <<onchain, disturbed, stale>>
    BY <1>7, Zenon DEF MakePhase
  <2> QED BY <2>1, <2>2, <2>3
<1>8. CASE CloseInfo
  <2>1. stale' = stale
    BY <1>8 DEF CloseInfo
  <2>2. CASE Exclude /\ UNCHANGED <<onchain, corrupt, disturbed>> /\ Fault
    BY <1>2, <1>3, <2>1, <2>2
  <2>3. CASE /\ onchain' = [onchain EXCEPT ![o] = @ \ {"info"}] /\ UNCHANGED mgr
             /\ Bad(o) /\ (NoFault \/ Fault)
    <3>1. \A x \in Options : onchain'[x] \subseteq onchain[x]
      BY <1>1, <2>3 DEF ManagerTypeOK
    <3>2. Others /\ This
      BY <1>1, <2>1, <2>3, <3>1 DEF ManagerTypeOK
    <3>3. ASSUME faults = 0, cycles = 1 PROVE Still
      <4>1. stale[o] <= Late(o)
        BY <1>1, <3>3 DEF StaleInv
      <4>2. stale[o] = 0 \/ o \in mgr.left
        BY <1>1, <2>3, <3>3, <4>1 DEF Late, Bad
      <4> QED BY <1>1, <2>1, <2>3, <4>2
    <3>4. faults' = 0 => faults = 0
      BY <1>1, <2>3 DEF NoFault, Fault
    <3> QED BY <1>2, <3>2, <3>3, <3>4
  <2> QED BY <1>8, <2>2, <2>3 DEF CloseInfo
<1> QED BY <1>5, <1>7, <1>8 DEF EnsurePhase

LEMMA NextStale == ListingInv /\ [ManagerNext]_ManagerVars => StaleInv'
<1> SUFFICES ASSUME ManagerAll, StaleInv, [ManagerNext]_ManagerVars PROVE StaleInv'
  BY DEF ListingInv
<1> USE DEF ManagerAll
<1>0. /\ mgr \in ManagerState /\ cycles \in 0..(ReconcileEvery - 1) /\ faults \in Nat
      /\ stale \in [Options -> Nat] /\ targets \subseteq Options
      /\ ReconcileEvery \in {3, 12}
  BY Period DEF ManagerTypeOK, ProcessTypeOK
<1>a. Fault => faults' # 0
  BY <1>0 DEF Fault
<1>b. \A o \in Options : Late(o) \in 0..(ReconcileEvery - 1)
  BY LateBounds
<1>c. UNCHANGED platform /\ UNCHANGED <<cycles, mgr>> => \A o \in Options : Late(o)' = Late(o)
  BY DEF Late, ReconcileEvery
<1>1. CASE BeginCycle
  <2>1. /\ UNCHANGED <<onchain, targets>> /\ mgr.at = "idle"
        /\ cycles' = IF cycles + 1 = ReconcileEvery THEN 0 ELSE cycles + 1
        /\ ReconcileEvery' = ReconcileEvery
    BY <1>1, NextCycle DEF BeginCycle, ReconcileEvery
  <2>2. CASE UNCHANGED stale /\ Fault
    BY <1>a, <2>1, <2>2 DEF StaleInv
  <2>3. CASE /\ mgr' = [NoCycle EXCEPT !.at = "ensure", !.left = targets \ Existing,
                                       !.paired = Existing]
             /\ stale' = [o \in Options |->
                            IF o \in Existing /\ "whitelist" \notin onchain[o]
                            THEN stale[o] + 1 ELSE stale[o]]
             /\ NoFault
    <3>1. mgr'.at = "ensure" /\ mgr'.left = targets \ Existing
      BY <2>3 DEF NoCycle
    <3>2. Existing \subseteq targets
      BY DEF Existing
    <3>3. \A o \in Options : stale'[o] > 0 => o \in targets /\ "whitelist" \notin onchain[o]
      BY <1>0, <2>3, <3>2 DEF StaleInv
    <3>4. ASSUME faults = 0, NEW o \in Options PROVE stale'[o] <= Late(o)'
      <4>1. stale[o] <= Late(o) /\ stale[o] \in Nat
        BY <1>0, <3>4 DEF StaleInv
      <4>2. CASE cycles = 0
        <5>1. Existing = {} /\ cycles' = 1
          <6>1. (cycles + 1) % ReconcileEvery = 1
            BY <1>0, <4>2, NextCycle
          <6> QED BY <1>0, <2>1, <4>2, <6>1 DEF Existing, FullReconcile
        <5>2. stale'[o] = stale[o]
          BY <2>3, <5>1
        <5>3. Late(o) = ReconcileEvery - 1
          BY <4>2 DEF Late
        <5>4. CASE stale[o] = 0
          <6>1. Late(o)' \in {0, ReconcileEvery - 1}
            BY <2>1, <5>1 DEF Late
          <6> QED BY <1>0, <5>2, <5>4, <6>1
        <5>5. CASE stale[o] > 0
          <6>1. o \in mgr'.left
            BY <3>1, <5>1, <5>5 DEF StaleInv
          <6>2. Late(o)' = ReconcileEvery - 1
            BY <2>1, <3>1, <5>1, <6>1 DEF Late
          <6> QED BY <4>1, <5>2, <5>3, <6>2
        <5> QED BY <4>1, <5>4, <5>5
      <4>3. CASE cycles = 1
        <5>1. cycles' = 2 /\ stale[o] = 0
          BY <1>0, <2>1, <4>1, <4>3 DEF Late
        <5>2. Late(o)' = 1
          BY <5>1 DEF Late
        <5> QED BY <2>3, <5>1, <5>2
      <4>4. CASE cycles > 1
        <5>1. Late(o) = cycles - 1
          BY <1>0, <4>4 DEF Late
        <5>2. Late(o)' = cycles
          BY <1>0, <2>1, <4>4 DEF Late
        <5>3. stale'[o] \in {stale[o], stale[o] + 1}
          BY <2>3
        <5> QED BY <1>0, <4>1, <5>1, <5>2, <5>3
      <4> QED BY <1>0, <4>2, <4>3, <4>4
    <3> QED BY <2>1, <2>3, <3>3, <3>4 DEF StaleInv, NoFault
  <2> QED BY <1>1, <2>2, <2>3 DEF BeginCycle
<1>2. ASSUME NEW o \in Options, NextOption(o) PROVE StaleInv'
  <2>1. /\ UNCHANGED <<onchain, targets, stale, cycles, faults>>
        /\ ReconcileEvery' = ReconcileEvery
        /\ mgr.at = "ensure" /\ mgr.option = None
        /\ mgr'.at = "ensure" /\ mgr'.option = o /\ mgr'.left = mgr.left \ {o}
        /\ mgr'.phase = "create"
    BY <1>0, <1>2 DEF NextOption, ManagerState, ReconcileEvery
  <2>2. \A x \in Options : Late(x) <= Late(x)'
    <3> TAKE x \in Options
    <3>1. CASE cycles # 1
      BY <1>0, <1>b, <2>1, <3>1 DEF Late
    <3>2. CASE cycles = 1
      BY <1>0, <2>1, <3>2, ManagerAssumption DEF Late
    <3> QED BY <3>1, <3>2
  <2>3. \A x \in Options : Late(x)' \in Int
    BY <1>0, <2>1 DEF Late
  <2>4. \A x \in Options : faults = 0 => stale[x] <= Late(x)'
    BY <1>0, <1>b, <2>2, <2>3 DEF StaleInv
  <2> QED BY <2>1, <2>4 DEF StaleInv
<1>3. CASE EnsurePhase
  BY <1>3, EnsureStale
<1>4. CASE EndCycle
  <2>1. /\ UNCHANGED <<onchain, targets, stale, cycles>> /\ mgr'.at = "idle"
        /\ ReconcileEvery' = ReconcileEvery
        /\ mgr.option = None /\ mgr.left = {} /\ (NoFault \/ Fault)
    BY <1>4 DEF EndCycle, NoCycle, ReconcileEvery
  <2>2. \A x \in Options : Late(x)' = Late(x)
    BY <2>1, ManagerAssumption DEF Late
  <2>3. faults' = 0 => faults = 0
    BY <1>0, <2>1 DEF NoFault, Fault
  <2> QED BY <2>1, <2>2, <2>3 DEF StaleInv
<1>5. CASE ManagerCrash
  <2>1. /\ UNCHANGED <<onchain, targets, stale, faults>> /\ cycles' = 0
        /\ ReconcileEvery' = ReconcileEvery
    BY <1>5 DEF ManagerCrash, ReconcileEvery
  <2>2. \A x \in Options : Late(x)' = ReconcileEvery - 1
    BY <2>1 DEF Late
  <2>3. \A x \in Options : faults = 0 => stale[x] <= ReconcileEvery - 1
    BY <1>0, <1>b DEF StaleInv
  <2> QED BY <2>1, <2>2, <2>3 DEF StaleInv
\* Targets and whitelistings change: who is no longer a missing target starts anew.
<1>6. ASSUME UNCHANGED <<platform, cycles, mgr, faults>>,
             \A o \in Options : \/ stale'[o] = 0
                                \/ /\ stale'[o] = stale[o] /\ onchain'[o] = onchain[o]
                                   /\ o \in targets => o \in targets'
      PROVE StaleInv'
  <2>1. \A o \in Options : Late(o)' = Late(o)
    BY <1>6, <1>c
  <2>2. \A o \in Options : stale'[o] > 0 => o \in targets' /\ "whitelist" \notin onchain'[o]
    BY <1>6 DEF StaleInv
  <2>3. \A o \in Options : faults = 0 => stale'[o] <= Late(o)
    BY <1>0, <1>6, <1>b DEF StaleInv
  <2> QED BY <1>6, <2>1, <2>2, <2>3 DEF StaleInv
<1>7. CASE MoveTargets
  <2>1. UNCHANGED <<platform, onchain, cycles, mgr, faults>>
        /\ stale' = [o \in Options |-> IF o \in targets' THEN stale[o] ELSE 0]
    BY <1>7 DEF MoveTargets
  <2> QED BY <1>6, <2>1
<1>8. ASSUME NEW o \in Options, EnterCutoff(o) PROVE StaleInv'
  <2>1. UNCHANGED <<platform, onchain, cycles, mgr, faults>>
        /\ stale' = [stale EXCEPT ![o] = 0] /\ targets' = targets \ {o}
    BY <1>8 DEF EnterCutoff
  <2> QED BY <1>0, <1>6, <2>1
<1>9. ASSUME NEW o \in Options, Delist(o) PROVE StaleInv'
  <2>1. UNCHANGED <<platform, targets, cycles, mgr, faults>> /\ stale' = [stale EXCEPT ![o] = 0]
        /\ onchain' = [onchain EXCEPT ![o] = @ \ {"whitelist"}]
    BY <1>9 DEF Delist
  <2>2. \A x \in Options \ {o} : onchain'[x] = onchain[x]
    BY <2>1 DEF ManagerTypeOK
  <2> QED BY <1>0, <1>6, <2>1, <2>2
<1>10. CASE UNCHANGED ManagerVars
  BY <1>6, <1>10 DEF ManagerVars, managerVars
<1> QED BY <1>1, <1>2, <1>3, <1>4, <1>5, <1>7, <1>8, <1>9, <1>10 DEF ManagerNext, Manage

LEMMA ListingIsUsable == ListingInv => ListedIsUsable
<1> SUFFICES ASSUME ListingInv PROVE ListedIsUsable
  OBVIOUS
<1>1. \A o \in listed : Needed \subseteq onchain[o] \/ o \in disturbed
  BY DEF ListingInv, UsableInv, Usable
<1>2. ASSUME faults = 0, NEW o \in Options PROVE stale[o] <= ReconcileEvery - 1
  <2>1. ManagerTypeOK /\ stale[o] <= Late(o) /\ stale[o] \in Nat
    BY <1>2 DEF ListingInv, StaleInv, ManagerAll, ManagerTypeOK
  <2>2. Late(o) \in 0..(ReconcileEvery - 1) /\ ReconcileEvery - 1 \in Nat
    BY <2>1, LateBounds
  <2> QED BY <2>1, <2>2
<1> QED BY <1>1, <1>2 DEF ListedIsUsable

\* The managers' state is well typed for every set of options, on both chains:
\* the option at hand, its step and what is paired are those of one cycle.
THEOREM ManagerTypeCorrect == ManagerSpec => []ManagerTypeOK
<1>1. ManagerInit /\ ProcessInit => ManagerAll
  BY InitManager
<1>2. ManagerAll /\ [ManagerNext]_ManagerVars => ManagerAll'
  BY NextManager
<1>3. ManagerAll => ManagerTypeOK
  BY DEF ManagerAll
<1> QED BY <1>1, <1>2, <1>3, PTL DEF ManagerSpec, ManagerVars

\* Whatever steps of publish_once and ensure_otokens_exist fail, take effect
\* late or are cut off, an option is listed only when it is complete on its
\* chain, unless it was undone from outside; and with no failed call a delisted
\* target waits for no more DB-fast cycles than lie between two full ones, 2 on
\* Base and 11 on Solana - for every number of options and changes.
THEOREM ListingsAreUsable == ManagerSpec => []ListedIsUsable
<1>1. ManagerInit /\ ProcessInit => ListingInv
  BY InitListing
<1>2. ListingInv /\ [ManagerNext]_ManagerVars => ListingInv'
  BY NextManager, NextUsable, NextStale DEF ListingInv
<1>3. ListingInv => ListedIsUsable
  BY ListingIsUsable
<1> QED BY <1>1, <1>2, <1>3, PTL DEF ManagerSpec, ManagerVars
-----------------------------------------------------------------------------
(* The fill stream: types.  *)

\* Sockets that were registered.
Arrived == {s \in Sockets : socket[s] # "new"}

\* A set that has members, is registered or was iterated over was made for one of
\* the sockets that arrived: there are always sets left for the others.
InUse(i) == registry = i \/ members[i] # {} \/ \E f \in Fills : cast[f].set = i

StreamTypes ==
    /\ StreamTypeOK /\ ProcessTypeOK
    /\ \A i \in SetIds : InUse(i) => i <= Cardinality(Arrived)
    /\ \A f \in Fills : cast[f].at = "sending" => cast[f].set \in SetIds

StreamVars == <<streamVars, faults, restarts>>

LEMMA ArrivedCount ==
    ASSUME StreamTypeOK
    PROVE  /\ IsFiniteSet(Arrived) /\ Cardinality(Arrived) \in Nat /\ Cardinality(Sockets) \in Nat
           /\ \A s \in Sockets \ Arrived :
                Cardinality(Arrived \union {s}) = Cardinality(Arrived) + 1
           /\ \A s \in Sockets \ Arrived : Cardinality(Arrived) < Cardinality(Sockets)
<1>1. Arrived \subseteq Sockets
  BY DEF Arrived
<1>2. /\ IsFiniteSet(Arrived) /\ Cardinality(Arrived) \in Nat /\ Cardinality(Sockets) \in Nat
  BY <1>1, StreamAssumption, FS_Subset, FS_CardinalityType
<1>3. ASSUME NEW s \in Sockets \ Arrived
      PROVE  Cardinality(Arrived \union {s}) = Cardinality(Arrived) + 1
  BY <1>2, FS_AddElement
<1>4. ASSUME NEW s \in Sockets \ Arrived
      PROVE  Cardinality(Arrived) < Cardinality(Sockets)
  <2>1. Cardinality(Arrived \union {s}) <= Cardinality(Sockets)
    <3>1. Arrived \union {s} \subseteq Sockets
      BY <1>1
    <3> QED BY <3>1, StreamAssumption, FS_Subset
  <2> QED BY <1>2, <1>3, <2>1
<1> QED BY <1>2, <1>3, <1>4

\* The set made for the first socket.
LEMMA FreshSet ==
    ASSUME StreamTypes, registry = 0, NEW s \in Sockets, socket[s] = "new"
    PROVE  /\ Min(FreshSets) \in FreshSets
           /\ Min(FreshSets) <= Cardinality(Arrived) + 1
<1> DEFINE n == Cardinality(Arrived) + 1
<1>1. n \in SetIds
  <2>1. s \in Sockets \ Arrived
    BY DEF Arrived
  <2> QED BY <2>1, ArrivedCount DEF StreamTypes, SetIds
<1>2. n \in FreshSets
  <2>1. \A j \in SetIds : j >= n => ~InUse(j)
    <3> TAKE j \in SetIds
    <3>1. Cardinality(Arrived) \in Nat /\ j \in Nat
      BY ArrivedCount DEF StreamTypes, SetIds
    <3> QED BY <3>1 DEF StreamTypes
  <2>2. n > registry
    BY ArrivedCount DEF StreamTypes
  <2> QED BY <1>1, <2>1, <2>2 DEF FreshSets, InUse
<1>3. FreshSets \subseteq Nat
  BY DEF FreshSets, SetIds
<1>4. \E i \in FreshSets : \A j \in FreshSets : i <= j
  BY <1>2, <1>3, LeastNat
<1>5. Min(FreshSets) \in FreshSets /\ \A j \in FreshSets : Min(FreshSets) <= j
  BY <1>4 DEF Min
<1> QED BY <1>2, <1>5

LEMMA InitStreamTypes == StreamInit /\ ProcessInit => StreamTypes
<1> SUFFICES ASSUME StreamInit, ProcessInit PROVE StreamTypes
  OBVIOUS
<1>1. ProcessTypeOK
  BY ProcessAssumption DEF ProcessInit, ProcessTypeOK
<1>2. StreamTypeOK
  BY DEF StreamInit, StreamTypeOK, CastState
<1>3. \A i \in SetIds : ~InUse(i)
  BY DEF StreamInit, InUse, SetIds
<1>4. \A f \in Fills : cast[f].at # "sending"
  BY DEF StreamInit
<1> QED BY <1>1, <1>2, <1>3, <1>4 DEF StreamTypes

LEMMA NextStreamTypes == StreamTypes /\ [StreamNext]_StreamVars => StreamTypes'
<1> SUFFICES ASSUME StreamTypes, [StreamNext]_StreamVars PROVE StreamTypes'
  OBVIOUS
<1>0. StreamTypeOK /\ ProcessTypeOK /\ SetIds' = SetIds
  BY DEF StreamTypes, SetIds
<1>a. UNCHANGED <<faults, restarts>>
  BY DEF StreamNext, Register, Greet, HangUp, Leave, BeginFill, SendNext, EndFill, AbortFill, StreamVars
<1>b. ProcessTypeOK'
  BY <1>0, <1>a DEF ProcessTypeOK
<1>c. /\ Cardinality(Arrived) \in Nat /\ Cardinality(Arrived)' \in Nat
      /\ SetIds \subseteq Nat \ {0}
  BY <1>0, StreamAssumption, FS_Subset, FS_CardinalityType DEF Arrived, SetIds
\* Nobody arrives, and no set comes into use.
<1>d. ASSUME Arrived' = Arrived, \A i \in SetIds : InUse(i)' => InUse(i), StreamTypeOK',
             \A f \in Fills : cast'[f].at = "sending" => cast'[f].set \in SetIds
      PROVE StreamTypes'
  BY <1>0, <1>b, <1>d DEF StreamTypes
<1>1. ASSUME NEW s \in Sockets, Register(s) PROVE StreamTypes'
  <2> DEFINE i == IF registry = 0 THEN Min(FreshSets) ELSE registry
  <2>1. /\ socket[s] = "new" /\ socket' = [socket EXCEPT ![s] = "greeting"]
        /\ registry' = i /\ members' = [members EXCEPT ![i] = @ \union {s}]
        /\ UNCHANGED <<broken, cast, got>>
    BY <1>1 DEF Register
  <2>2. i \in SetIds /\ i <= Cardinality(Arrived) + 1
    <3>1. CASE registry = 0
      BY <2>1, <3>1, FreshSet DEF FreshSets
    <3>2. CASE registry # 0
      <4>1. registry \in SetIds /\ InUse(registry)
        BY <1>0, <3>2 DEF StreamTypeOK, InUse
      <4>2. registry <= Cardinality(Arrived)
        BY <4>1 DEF StreamTypes
      <4> QED BY <1>c, <3>2, <4>1, <4>2
    <3> QED BY <3>1, <3>2
  <2> HIDE DEF i
  <2>3. StreamTypeOK'
    BY <1>0, <2>1, <2>2 DEF StreamTypeOK
  <2>4. Cardinality(Arrived)' = Cardinality(Arrived) + 1
    <3>1. Arrived' = Arrived \union {s} /\ s \in Sockets \ Arrived
      BY <1>0, <2>1 DEF StreamTypeOK, Arrived
    <3> QED BY <1>0, <3>1, ArrivedCount
  <2>5. ASSUME NEW j \in SetIds, InUse(j)' PROVE j <= Cardinality(Arrived)'
    <3>1. CASE j = i
      BY <2>2, <2>4, <3>1
    <3>2. CASE j # i
      <4>1. InUse(j)
        BY <1>0, <2>1, <2>5, <3>2 DEF InUse, StreamTypeOK
      <4> QED BY <1>c, <2>4, <4>1 DEF StreamTypes
    <3> QED BY <3>1, <3>2
  <2> QED BY <1>0, <1>b, <2>1, <2>3, <2>5 DEF StreamTypes
<1>2. ASSUME NEW s \in Sockets, Greet(s) PROVE StreamTypes'
  <2>1. StreamTypeOK' /\ Arrived' = Arrived
    BY <1>0, <1>2 DEF StreamTypeOK, Greet, Arrived
  <2> QED BY <1>2, <1>d, <2>1 DEF Greet, InUse, StreamTypes
<1>3. ASSUME NEW s \in Sockets, HangUp(s) PROVE StreamTypes'
  <2>1. StreamTypeOK' /\ Arrived' = Arrived
    BY <1>0, <1>3 DEF StreamTypeOK, HangUp, Arrived
  <2> QED BY <1>3, <1>d, <2>1 DEF HangUp, InUse, StreamTypes
<1>4. ASSUME NEW s \in Sockets, Leave(s) PROVE StreamTypes'
  <2>1. Arrived' = Arrived /\ socket' \in [Sockets -> {"new", "greeting", "open", "left"}]
    BY <1>0, <1>4 DEF StreamTypeOK, Leave, Arrived
  <2>2. /\ members' \in [SetIds -> SUBSET Sockets] /\ registry' \in {registry, 0}
        /\ \A i \in SetIds : members'[i] \subseteq members[i]
    BY <1>0, <1>4 DEF StreamTypeOK, Leave
  <2>3. StreamTypeOK'
    BY <1>0, <1>4, <2>1, <2>2 DEF StreamTypeOK, Leave
  <2>4. \A i \in SetIds : InUse(i)' => InUse(i)
    BY <1>4, <1>c, <2>2 DEF Leave, InUse
  <2> QED BY <1>4, <1>d, <2>1, <2>3, <2>4 DEF Leave, StreamTypes
<1>5. ASSUME NEW f \in Fills, BeginFill(f) PROVE StreamTypes'
  <2> DEFINE new == [at |-> "sending", set |-> registry, sent |-> {}, dead |-> {},
                     found |-> members[registry]]
  <2>1. registry \in SetIds /\ cast' = [cast EXCEPT ![f] = new]
        /\ UNCHANGED <<registry, members, socket, broken, got>>
    BY <1>0, <1>5 DEF BeginFill, StreamTypeOK
  <2>2. new \in CastState
    BY <1>0, <2>1 DEF StreamTypeOK, CastState
  <2>3. StreamTypeOK' /\ Arrived' = Arrived
    BY <1>0, <2>1, <2>2 DEF StreamTypeOK, Arrived
  <2>4. \A g \in Fills : cast'[g] \in {cast[g], new}
    BY <1>0, <2>1 DEF StreamTypeOK
  <2>5. \A i \in SetIds : InUse(i)' => InUse(i)
    BY <2>1, <2>4 DEF InUse
  <2>6. \A g \in Fills : cast'[g].at = "sending" => cast'[g].set \in SetIds
    BY <2>1, <2>4 DEF StreamTypes
  <2> QED BY <1>d, <2>3, <2>5, <2>6
\* A cast goes on over the same set, and no set gains members.
<1>6. ASSUME NEW f \in Fills, NEW c \in CastState, c.set = cast[f].set,
             cast' = [cast EXCEPT ![f] = c], c.at = "sending" => cast[f].at = "sending",
             UNCHANGED <<socket, broken>>, registry' \in {registry, 0},
             members' \in [SetIds -> SUBSET Sockets],
             \A i \in SetIds : members'[i] \subseteq members[i],
             got' \in [Fills -> SUBSET Sockets]
      PROVE StreamTypes'
  <2>1. StreamTypeOK' /\ Arrived' = Arrived
    BY <1>0, <1>6 DEF StreamTypeOK, Arrived
  <2>2. \A g \in Fills : /\ cast'[g].set = cast[g].set
                         /\ cast'[g].at = "sending" => cast[g].at = "sending"
    BY <1>0, <1>6 DEF StreamTypeOK
  <2>3. \A i \in SetIds : InUse(i)' => InUse(i)
    BY <1>6, <1>c, <2>2 DEF InUse
  <2>4. \A g \in Fills : cast'[g].at = "sending" => cast'[g].set \in SetIds
    BY <2>2 DEF StreamTypes
  <2> QED BY <1>d, <2>1, <2>3, <2>4
<1>7. ASSUME NEW f \in Fills, SendNext(f) PROVE StreamTypes'
  <2>1. PICK s \in members[cast[f].set] \ cast[f].sent :
           /\ cast' = [cast EXCEPT ![f].sent = @ \union {s},
                                   ![f].dead = IF s \in broken THEN @ \union {s} ELSE @]
           /\ got' = IF s \in broken THEN got ELSE [got EXCEPT ![f] = @ \union {s}]
    BY <1>7 DEF SendNext
  <2> DEFINE c == [cast[f] EXCEPT !.sent = @ \union {s},
                                  !.dead = IF s \in broken THEN @ \union {s} ELSE @]
  <2>2. cast' = [cast EXCEPT ![f] = c]
    BY <1>0, <2>1 DEF StreamTypeOK
  <2>3. s \in Sockets
    BY <1>0, <1>7, <2>1 DEF StreamTypes, StreamTypeOK, SendNext
  <2>4. c \in CastState /\ c.set = cast[f].set /\ c.at = cast[f].at
    BY <1>0, <2>3 DEF StreamTypeOK, CastState
  <2>5. got' \in [Fills -> SUBSET Sockets]
    BY <1>0, <2>1, <2>3 DEF StreamTypeOK
  <2>6. UNCHANGED <<registry, members, socket, broken>>
    BY <1>7 DEF SendNext
  <2> HIDE DEF c
  <2> QED BY <1>0, <1>6, <2>2, <2>4, <2>5, <2>6 DEF StreamTypeOK
<1>8. ASSUME NEW f \in Fills, EndFill(f) PROVE StreamTypes'
  <2> DEFINE c == [cast[f] EXCEPT !.at = "done"]
             left == members[cast[f].set] \ cast[f].dead
  <2>1. /\ members' = [members EXCEPT ![cast[f].set] = left]
        /\ registry' \in {registry, 0} /\ cast' = [cast EXCEPT ![f] = c]
        /\ UNCHANGED <<socket, broken, got>> /\ cast[f].set \in SetIds
    BY <1>0, <1>8 DEF EndFill, StreamTypes, StreamTypeOK
  <2>2. c \in CastState /\ c.set = cast[f].set /\ c.at # "sending"
    BY <1>0 DEF StreamTypeOK, CastState
  <2>3. members' \in [SetIds -> SUBSET Sockets] /\ \A i \in SetIds : members'[i] \subseteq members[i]
    BY <1>0, <2>1 DEF StreamTypeOK
  <2> HIDE DEF c, left
  <2> QED BY <1>0, <1>6, <2>1, <2>2, <2>3 DEF StreamTypeOK
<1>9. ASSUME NEW f \in Fills, AbortFill(f) PROVE StreamTypes'
  <2> DEFINE c == [cast[f] EXCEPT !.at = "aborted"]
  <2>1. UNCHANGED <<registry, members, socket, broken, got>> /\ cast' = [cast EXCEPT ![f] = c]
    BY <1>0, <1>9 DEF AbortFill, StreamTypeOK
  <2>2. c \in CastState /\ c.set = cast[f].set /\ c.at # "sending"
    BY <1>0 DEF StreamTypeOK, CastState
  <2> HIDE DEF c
  <2> QED BY <1>0, <1>6, <2>1, <2>2 DEF StreamTypeOK
<1>10. CASE UNCHANGED StreamVars
  BY <1>0, <1>d, <1>10 DEF StreamVars, streamVars, StreamTypes, StreamTypeOK, Arrived, InUse
<1> QED BY <1>1, <1>2, <1>3, <1>4, <1>5, <1>7, <1>8, <1>9, <1>10 DEF StreamNext
-----------------------------------------------------------------------------
(* Whoever is connected is registered, and is met by a cast to its end.     *)

Connected(s) == socket[s] \in {"greeting", "open"} /\ s \notin broken

\* A set is left for good when it is empty, so that a cast that ends, with as many
\* members as it found, ends over the set that is registered.
SetsInv ==
    /\ \A i \in SetIds : i # registry => members[i] = {}
    /\ registry # 0 => members[registry] # {}
    /\ \A i \in SetIds : members[i] \subseteq Arrived
    /\ \A s \in Sockets : Connected(s) => registry # 0 /\ s \in members[registry]

CastsInv ==
    \A f \in Fills :
        LET c == cast[f] IN
        /\ c.found \subseteq Arrived
        /\ c.at = "sending" => /\ c.found # {}
                               /\ c.dead \subseteq broken /\ c.sent \ c.dead \subseteq got[f]
        /\ c.at = "done" => \A s \in c.found : Connected(s) => s \in got[f]

ReachInv == StreamTypes /\ SetsInv /\ CastsInv

LEMMA InitReach == StreamInit /\ ProcessInit => ReachInv
<1> SUFFICES ASSUME StreamInit, ProcessInit PROVE ReachInv
  OBVIOUS
<1>1. SetsInv
  BY DEF StreamInit, SetsInv, Connected
<1>2. CastsInv
  BY DEF StreamInit, CastsInv
<1> QED BY <1>1, <1>2, InitStreamTypes DEF ReachInv

\* A cast that notices no change of size runs over the registered set.
LEMMA SameSizeRegistered ==
    ASSUME ReachInv, NEW f \in Fills, cast[f].at = "sending", ~Resized(f)
    PROVE  cast[f].set = registry /\ registry \in SetIds
<1> DEFINE set == members[cast[f].set]
<1>1. /\ cast[f].set \in SetIds /\ set \subseteq Sockets
      /\ cast[f].found \subseteq Sockets /\ cast[f].found # {}
  BY DEF ReachInv, StreamTypes, StreamTypeOK, CastState, CastsInv
<1>2. IsFiniteSet(set) /\ IsFiniteSet(cast[f].found)
  BY <1>1, StreamAssumption, FS_Subset
<1>3. Cardinality(cast[f].found) # 0
  BY <1>1, <1>2, FS_EmptySet
<1>4. set # {}
  BY <1>2, <1>3, FS_EmptySet DEF Resized
<1> QED BY <1>1, <1>4 DEF ReachInv, SetsInv

LEMMA NextSets == ReachInv /\ [StreamNext]_StreamVars => SetsInv'
<1> SUFFICES ASSUME ReachInv, [StreamNext]_StreamVars PROVE SetsInv'
  OBVIOUS
<1>0. StreamTypes /\ StreamTypeOK /\ SetsInv /\ CastsInv /\ SetIds' = SetIds
  BY DEF ReachInv, StreamTypes, SetIds
<1>c. SetIds \subseteq Nat \ {0}
  BY <1>0, StreamAssumption, FS_CardinalityType DEF SetIds
<1>1. ASSUME NEW s \in Sockets, Register(s) PROVE SetsInv'
  <2> DEFINE i == IF registry = 0 THEN Min(FreshSets) ELSE registry
  <2>1. /\ socket[s] = "new" /\ socket' = [socket EXCEPT ![s] = "greeting"]
        /\ registry' = i /\ members' = [members EXCEPT ![i] = @ \union {s}]
        /\ UNCHANGED <<broken, cast, got>>
    BY <1>1 DEF Register
  <2>2. i \in SetIds /\ (registry # 0 => i = registry)
    <3>1. CASE registry = 0
      BY <1>0, <2>1, <3>1, FreshSet DEF FreshSets
    <3>2. CASE registry # 0
      BY <1>0, <3>2 DEF StreamTypeOK
    <3> QED BY <3>1, <3>2
  <2> HIDE DEF i
  <2>3. /\ members'[i] = members[i] \union {s}
        /\ \A j \in SetIds \ {i} : members'[j] = members[j]
    BY <1>0, <2>1, <2>2 DEF StreamTypeOK
  <2>4. Arrived' = Arrived \union {s}
    BY <1>0, <2>1 DEF StreamTypeOK, Arrived
  <2>5. ASSUME NEW x \in Sockets, Connected(x)' PROVE registry' # 0 /\ x \in members'[registry']
    <3>1. CASE x = s
      BY <1>c, <2>1, <2>2, <2>3, <3>1
    <3>2. CASE x # s
      <4>1. Connected(x)
        BY <1>0, <2>1, <2>5, <3>2 DEF Connected, StreamTypeOK
      <4> QED BY <1>0, <1>c, <2>1, <2>2, <2>3, <4>1 DEF SetsInv
    <3> QED BY <3>1, <3>2
  <2>6. \A j \in SetIds : j # registry' => members'[j] = {}
    BY <1>0, <1>c, <2>1, <2>2, <2>3 DEF SetsInv
  <2>7. \A j \in SetIds : members'[j] \subseteq Arrived'
    BY <1>0, <2>2, <2>3, <2>4 DEF SetsInv
  <2>8. registry' # 0 /\ members'[registry'] # {}
    BY <1>c, <2>1, <2>2, <2>3
  <2> QED BY <1>0, <2>5, <2>6, <2>7, <2>8 DEF SetsInv
\* Sockets come and go, and the sets stay as they are.
<1>2. ASSUME UNCHANGED <<registry, members>>, Arrived' = Arrived,
             \A s \in Sockets : Connected(s)' => Connected(s)
      PROVE SetsInv'
  BY <1>0, <1>2 DEF SetsInv
<1>3. ASSUME NEW s \in Sockets, Greet(s) PROVE SetsInv'
  <2>1. socket' = [socket EXCEPT ![s] = IF s \in broken THEN "left" ELSE "open"]
        /\ socket[s] = "greeting" /\ UNCHANGED <<registry, members, broken>>
    BY <1>3 DEF Greet
  <2>2. Arrived' = Arrived /\ \A x \in Sockets : Connected(x)' => Connected(x)
    BY <1>0, <2>1 DEF StreamTypeOK, Arrived, Connected
  <2> QED BY <1>2, <2>1, <2>2
<1>4. ASSUME NEW s \in Sockets, HangUp(s) PROVE SetsInv'
  BY <1>2, <1>4 DEF HangUp, Arrived, Connected
<1>5. ASSUME NEW s \in Sockets, Leave(s) PROVE SetsInv'
  <2>1. /\ socket' = [socket EXCEPT ![s] = "left"] /\ socket[s] = "open" /\ s \in broken
        /\ UNCHANGED broken
    BY <1>5 DEF Leave
  <2>2. Arrived' = Arrived /\ \A x \in Sockets : Connected(x)' => Connected(x) /\ x # s
    BY <1>0, <2>1 DEF StreamTypeOK, Arrived, Connected
  <2>3. CASE registry = 0
    BY <1>2, <1>5, <2>2, <2>3 DEF Leave
  <2>4. CASE registry # 0
    <3>1. /\ members' = [members EXCEPT ![registry] = @ \ {s}] /\ registry \in SetIds
          /\ registry' = IF members[registry] \ {s} = {} THEN 0 ELSE registry
      BY <1>0, <1>5, <2>4 DEF Leave, StreamTypeOK
    <3>2. /\ members'[registry] = members[registry] \ {s}
          /\ \A j \in SetIds \ {registry} : members'[j] = members[j]
      BY <1>0, <3>1 DEF StreamTypeOK
    <3>3. \A j \in SetIds : j # registry' => members'[j] = {}
      BY <1>0, <3>1, <3>2 DEF SetsInv
    <3>4. \A j \in SetIds : members'[j] \subseteq Arrived'
      BY <1>0, <2>2, <3>2 DEF SetsInv
    <3>5. registry' # 0 => members'[registry'] # {}
      BY <3>1, <3>2
    <3>6. \A x \in Sockets : Connected(x)' => registry' # 0 /\ x \in members'[registry']
      <4> SUFFICES ASSUME NEW x \in Sockets, Connected(x)'
                   PROVE  registry' # 0 /\ x \in members'[registry']
        OBVIOUS
      <4>1. x \in members[registry] \ {s}
        BY <1>0, <2>2 DEF SetsInv
      <4> QED BY <2>4, <3>1, <3>2, <4>1
    <3> QED BY <1>0, <3>3, <3>4, <3>5, <3>6 DEF SetsInv
  <2> QED BY <2>3, <2>4
<1>6. ASSUME NEW f \in Fills, BeginFill(f) \/ SendNext(f) \/ AbortFill(f) PROVE SetsInv'
  BY <1>2, <1>6 DEF BeginFill, SendNext, AbortFill, Arrived, Connected
<1>7. ASSUME NEW f \in Fills, EndFill(f) PROVE SetsInv'
  <2> DEFINE left == members[registry] \ cast[f].dead
  <2>1. cast[f].set = registry /\ registry \in SetIds
    BY <1>7, SameSizeRegistered DEF EndFill
  <2>2. /\ members' = [members EXCEPT ![registry] = left]
        /\ registry' = IF left = {} THEN 0 ELSE registry
        /\ UNCHANGED <<socket, broken>> /\ cast[f].at = "sending"
    BY <1>7, <2>1 DEF EndFill
  <2>3. /\ members'[registry] = left
        /\ \A j \in SetIds \ {registry} : members'[j] = members[j]
    BY <1>0, <2>1, <2>2 DEF StreamTypeOK
  <2>4. cast[f].dead \subseteq broken /\ Arrived' = Arrived
    BY <1>0, <2>2 DEF CastsInv, Arrived
  <2>5. \A j \in SetIds : j # registry' => members'[j] = {}
    BY <1>0, <2>2, <2>3 DEF SetsInv
  <2>6. \A j \in SetIds : members'[j] \subseteq Arrived'
    BY <1>0, <2>1, <2>3, <2>4 DEF SetsInv
  <2>7. registry' # 0 => members'[registry'] # {}
    BY <2>2, <2>3
  <2>8. \A x \in Sockets : Connected(x)' => registry' # 0 /\ x \in members'[registry']
    <3> SUFFICES ASSUME NEW x \in Sockets, Connected(x)'
                 PROVE  registry' # 0 /\ x \in members'[registry']
      OBVIOUS
    <3>1. Connected(x) /\ x \notin cast[f].dead
      BY <2>2, <2>4 DEF Connected
    <3>2. x \in left /\ registry # 0
      BY <1>0, <3>1 DEF SetsInv
    <3> QED BY <2>2, <2>3, <3>2
  <2> QED BY <1>0, <2>5, <2>6, <2>7, <2>8 DEF SetsInv
<1>8. CASE UNCHANGED StreamVars
  BY <1>2, <1>8 DEF StreamVars, streamVars, Arrived, Connected
<1> QED BY <1>1, <1>3, <1>4, <1>5, <1>6, <1>7, <1>8 DEF StreamNext

\* What CastsInv says of one cast.
CastFollows(c, f) ==
    /\ c.found \subseteq Arrived
    /\ c.at = "sending" => /\ c.found # {}
                           /\ c.dead \subseteq broken /\ c.sent \ c.dead \subseteq got[f]
    /\ c.at = "done" => \A s \in c.found : Connected(s) => s \in got[f]

LEMMA NextCasts == ReachInv /\ [StreamNext]_StreamVars => CastsInv'
<1> SUFFICES ASSUME ReachInv, [StreamNext]_StreamVars PROVE CastsInv'
  OBVIOUS
<1>0. StreamTypes /\ StreamTypeOK /\ SetsInv /\ CastsInv
  BY DEF ReachInv, StreamTypes
<1>f. ASSUME NEW f \in Fills
      PROVE  cast[f] \in CastState /\ CastFollows(cast[f], f) /\ got[f] \subseteq Sockets
  BY <1>0 DEF CastsInv, CastFollows, StreamTypeOK
\* Sockets come and go: whoever was found had arrived, and nobody comes back.
<1>1. ASSUME UNCHANGED <<cast, got>>, Arrived \subseteq Arrived', broken \subseteq broken',
             \A s \in Arrived : Connected(s)' => Connected(s)
      PROVE CastsInv'
  <2>1. \A f \in Fills : CastFollows(cast[f], f)'
    <3> TAKE f \in Fills
    <3>1. CastFollows(cast[f], f)
      BY <1>f
    <3> QED BY <1>1, <3>1 DEF CastFollows
  <2> QED BY <2>1 DEF CastsInv, CastFollows
<1>2. ASSUME NEW s \in Sockets, Register(s) PROVE CastsInv'
  BY <1>0, <1>1, <1>2 DEF Register, StreamTypeOK, Arrived, Connected
<1>3. ASSUME NEW s \in Sockets, Greet(s) \/ HangUp(s) \/ Leave(s) PROVE CastsInv'
  <2>1. UNCHANGED <<cast, got>> /\ broken \subseteq broken'
    BY <1>3 DEF Greet, HangUp, Leave
  <2>2. Arrived \subseteq Arrived' /\ \A x \in Arrived : Connected(x)' => Connected(x)
    BY <1>0, <1>3 DEF Greet, HangUp, Leave, StreamTypeOK, Arrived, Connected
  <2> QED BY <1>1, <2>1, <2>2
\* One cast goes on.
<1>4. ASSUME NEW f \in Fills, UNCHANGED <<socket, broken>>,
             \A g \in Fills \ {f} : cast'[g] = cast[g] /\ got'[g] = got[g],
             CastFollows(cast[f], f)'
      PROVE CastsInv'
  <2>1. Arrived' = Arrived
    BY <1>4 DEF Arrived
  <2>2. \A g \in Fills : CastFollows(cast[g], g)'
    <3> TAKE g \in Fills
    <3>1. CASE g = f
      BY <1>4, <3>1
    <3>2. CASE g # f
      <4>1. CastFollows(cast[g], g)
        BY <1>f
      <4> QED BY <1>4, <2>1, <3>2, <4>1 DEF CastFollows, Connected
    <3> QED BY <3>1, <3>2
  <2> QED BY <2>2 DEF CastsInv, CastFollows
<1>5. ASSUME NEW f \in Fills, BeginFill(f) PROVE CastsInv'
  <2>1. /\ registry \in SetIds /\ UNCHANGED <<socket, broken, got>>
        /\ cast' = [cast EXCEPT ![f] =
                      [at |-> "sending", set |-> registry, sent |-> {}, dead |-> {},
                       found |-> members[registry]]]
    BY <1>0, <1>5 DEF BeginFill, StreamTypeOK
  <2>2. /\ cast'[f].at = "sending" /\ cast'[f].sent = {} /\ cast'[f].dead = {}
        /\ cast'[f].found = members[registry]
        /\ \A g \in Fills \ {f} : cast'[g] = cast[g]
    BY <1>0, <2>1 DEF StreamTypeOK
  <2>3. members[registry] # {} /\ members[registry] \subseteq Arrived /\ Arrived' = Arrived
    BY <1>0, <1>5, <2>1 DEF SetsInv, BeginFill, Arrived
  <2>4. CastFollows(cast[f], f)'
    BY <2>1, <2>2, <2>3 DEF CastFollows
  <2> QED BY <1>4, <2>1, <2>2, <2>4
<1>6. ASSUME NEW f \in Fills, SendNext(f) PROVE CastsInv'
  <2>1. PICK s \in members[cast[f].set] \ cast[f].sent :
           /\ cast' = [cast EXCEPT ![f].sent = @ \union {s},
                                   ![f].dead = IF s \in broken THEN @ \union {s} ELSE @]
           /\ got' = IF s \in broken THEN got ELSE [got EXCEPT ![f] = @ \union {s}]
    BY <1>6 DEF SendNext
  <2>2. /\ cast'[f].at = "sending" /\ cast'[f].found = cast[f].found
        /\ cast'[f].sent = cast[f].sent \union {s}
        /\ cast'[f].dead = (IF s \in broken THEN cast[f].dead \union {s} ELSE cast[f].dead)
        /\ \A g \in Fills \ {f} : cast'[g] = cast[g]
    BY <1>0, <1>6, <1>f, <2>1 DEF StreamTypeOK, SendNext, CastState
  <2>3. /\ got'[f] = IF s \in broken THEN got[f] ELSE got[f] \union {s}
        /\ \A g \in Fills \ {f} : got'[g] = got[g]
    BY <1>0, <2>1 DEF StreamTypeOK
  <2>4. UNCHANGED <<socket, broken>> /\ Arrived' = Arrived /\ cast[f].at = "sending"
    BY <1>6 DEF SendNext, Arrived
  <2>5. CastFollows(cast[f], f)'
    <3>1. CastFollows(cast[f], f)
      BY <1>f
    <3> QED BY <2>2, <2>3, <2>4, <3>1 DEF CastFollows
  <2> QED BY <1>4, <2>2, <2>3, <2>4, <2>5
\* A cast that ends met every member of the registered set.
<1>7. ASSUME NEW f \in Fills, EndFill(f) PROVE CastsInv'
  <2>1. cast[f].set = registry /\ registry \in SetIds
    BY <1>7, SameSizeRegistered DEF EndFill
  <2>2. /\ UNCHANGED <<socket, broken, got>> /\ cast' = [cast EXCEPT ![f].at = "done"]
        /\ members[registry] \intersect cast[f].found \subseteq cast[f].sent
        /\ cast[f].at = "sending" /\ Arrived' = Arrived
    BY <1>7, <2>1 DEF EndFill, Arrived
  <2>3. /\ cast'[f].at = "done" /\ cast'[f].found = cast[f].found
        /\ \A g \in Fills \ {f} : cast'[g] = cast[g]
    BY <1>0, <1>f, <2>2 DEF StreamTypeOK, CastState
  <2>4. CastFollows(cast[f], f)
    BY <1>f
  <2>5. ASSUME NEW s \in cast[f].found, Connected(s) PROVE s \in got[f]
    <3>1. s \in Sockets
      BY <1>f DEF CastState
    <3>2. s \in members[registry] /\ s \notin broken
      BY <1>0, <2>5, <3>1 DEF SetsInv, Connected
    <3>3. s \in cast[f].sent \ cast[f].dead
      BY <2>2, <2>4, <3>2 DEF CastFollows
    <3> QED BY <2>2, <2>4, <3>3 DEF CastFollows
  <2>6. CastFollows(cast[f], f)'
    BY <2>2, <2>3, <2>4, <2>5 DEF CastFollows, Connected
  <2> QED BY <1>4, <2>2, <2>3, <2>6
<1>8. ASSUME NEW f \in Fills, AbortFill(f) PROVE CastsInv'
  <2>1. UNCHANGED <<socket, broken, got>> /\ cast' = [cast EXCEPT ![f].at = "aborted"]
    BY <1>8 DEF AbortFill
  <2>2. /\ cast'[f].at = "aborted" /\ cast'[f].found = cast[f].found
        /\ \A g \in Fills \ {f} : cast'[g] = cast[g]
    BY <1>0, <1>f, <2>1 DEF StreamTypeOK, CastState
  <2>3. CastFollows(cast[f], f)
    BY <1>f
  <2>4. CastFollows(cast[f], f)'
    BY <2>1, <2>2, <2>3 DEF CastFollows, Arrived
  <2> QED BY <1>4, <2>1, <2>2, <2>4
<1>9. CASE UNCHANGED StreamVars
  BY <1>1, <1>9 DEF StreamVars, streamVars, Arrived, Connected
<1> QED BY <1>2, <1>3, <1>5, <1>6, <1>7, <1>8, <1>9 DEF StreamNext

\* The stream is well typed for every finite number of sockets, and there is
\* always a set for the next socket that arrives.
THEOREM StreamTypeCorrect == StreamSpec => []StreamTypeOK
<1>1. StreamInit /\ ProcessInit => StreamTypes
  BY InitStreamTypes
<1>2. StreamTypes /\ [StreamNext]_StreamVars => StreamTypes'
  BY NextStreamTypes
<1>3. StreamTypes => StreamTypeOK
  BY DEF StreamTypes
<1> QED BY <1>1, <1>2, <1>3, PTL DEF StreamSpec, StreamVars

\* However notify_mm_fill interleaves with sockets that come and go, a socket
\* whose peer is there stays registered, and a broadcast that ran to its end sent
\* it the fill if it was there when the broadcast began.
THEOREM FillsReachTheConnected == StreamSpec => []FillsReachAll
<1>1. StreamInit /\ ProcessInit => ReachInv
  BY InitReach
<1>2. ReachInv /\ [StreamNext]_StreamVars => ReachInv'
  BY NextStreamTypes, NextSets, NextCasts DEF ReachInv
<1>3. ReachInv => FillsReachAll
  BY DEF ReachInv, SetsInv, CastsInv, Connected, FillsReachAll
<1> QED BY <1>1, <1>2, <1>3, PTL DEF StreamSpec, StreamVars
-----------------------------------------------------------------------------
(* The weekly aggregator: the rows of one user.  *)

\* The last of some weeks.
LEMMA LastWeek ==
    ASSUME NEW S \in SUBSET Weeks, S # {}
    PROVE  Max(S) \in S /\ \A w \in S : w <= Max(S)
<1>1. MaxWeeks \in Nat /\ S \in SUBSET (0..MaxWeeks)
  BY WeeklyAssumption DEF Weeks
<1> QED BY <1>1, MaxOfTimes

Rows(r) == {w \in Weeks : r[w] # None}
Total(r) == IF Rows(r) = {} THEN 0 ELSE r[Max(Rows(r))].total

\* Each row up to week w as often as it was written; c counts the writes.
Values(r, c, w) == [v \in {x \in Rows(r) : x <= w} |-> c[v] * r[v].pnl]

\* Every total is the sum of the rows up to it.
SumsUp(r, c) == \A w \in Rows(r) : r[w].total = SumFunction(Values(r, c, w))

UserRows == [Weeks -> Results \union {None}]
Counts == [Weeks -> Nat]

LEMMA WeeksAreFinite == \A S \in SUBSET Weeks : IsFiniteSet(S)
<1>1. 1 \in Int /\ MaxWeeks \in Int
  BY WeeklyAssumption
<1>2. IsFiniteSet(Weeks)
  BY <1>1, FS_Interval DEF Weeks
<1> QED BY <1>2, FS_Subset

LEMMA ValuesAdd ==
    ASSUME NEW r \in UserRows, NEW c \in Counts
    PROVE  /\ \A w \in Rows(r) : r[w].pnl \in Int /\ r[w].total \in Int
           /\ \A w : Summable(Values(r, c, w), {x \in Rows(r) : x <= w})
           /\ Total(r) \in Int
<1>1. \A w \in Rows(r) : r[w].pnl \in Int /\ r[w].total \in Int
  BY DEF UserRows, Rows, Results
<1>2. \A w : Summable(Values(r, c, w), {x \in Rows(r) : x <= w})
  <2> TAKE w
  <2> DEFINE S == {x \in Rows(r) : x <= w}
  <2>1. \A x \in S : c[x] * r[x].pnl \in Int
    BY <1>1 DEF Counts, Rows
  <2>2. IsFiniteSet(S)
    BY WeeksAreFinite DEF Rows
  <2> QED BY <2>1, <2>2 DEF Summable, Values
<1>3. Total(r) \in Int
  BY <1>1, LastWeek DEF Total, Rows
<1> QED BY <1>1, <1>2, <1>3

\* The last row's total is the sum of all rows.
LEMMA TotalIsSum ==
    ASSUME NEW r \in UserRows, NEW c \in Counts, SumsUp(r, c), NEW k, \A w \in Rows(r) : w <= k
    PROVE  Total(r) = SumFunction(Values(r, c, k))
<1>1. CASE Rows(r) = {}
  <2>1. DOMAIN Values(r, c, k) = {}
    BY <1>1 DEF Values
  <2> QED BY <1>1, <2>1, SumOfNothing DEF Total, SumFunction
<1>2. CASE Rows(r) # {}
  <2> DEFINE m == Max(Rows(r))
  <2>1. m \in Rows(r) /\ \A w \in Rows(r) : w <= m
    BY <1>2, LastWeek DEF Rows
  <2> HIDE DEF m
  <2>2. Values(r, c, m) = Values(r, c, k)
    BY <2>1 DEF Values
  <2> QED BY <1>2, <2>1, <2>2 DEF Total, SumsUp, m
<1> QED BY <1>1, <1>2

\* A row of week k with result p may be written: no row is of a later week, and
\* one of k itself is a former attempt's.
MayWrite(r, c, k, p) ==
    /\ r \in UserRows /\ c \in Counts /\ SumsUp(r, c) /\ k \in Weeks /\ p \in Int
    /\ \A w \in Rows(r) : w <= k
    /\ IF k \in Rows(r) THEN r[k].pnl = p ELSE c[k] = 0

\* All of the rows are those of other weeks and c[k] times that of week k.
LEMMA TotalSplits ==
    ASSUME NEW r, NEW c, NEW k, NEW p, MayWrite(r, c, k, p)
    PROVE  Total(r) = c[k] * p + SumFunctionOnSet(Values(r, c, k), Rows(r) \ {k})
<1> DEFINE f == Values(r, c, k)
<1>0. r \in UserRows /\ c \in Counts /\ SumsUp(r, c) /\ k \in Weeks /\ p \in Int
  BY DEF MayWrite
<1>1. Rows(r) = {x \in Rows(r) : x <= k} /\ DOMAIN f = Rows(r)
  BY DEF MayWrite, Values
<1>2. Summable(f, Rows(r)) /\ Total(r) = SumFunctionOnSet(f, Rows(r)) /\ Total(r) \in Int
  BY <1>0, <1>1, ValuesAdd, TotalIsSum DEF SumFunction, MayWrite
<1>3. CASE k \in Rows(r)
  <2>1. f[k] = c[k] * p
    BY <1>1, <1>3 DEF MayWrite, Values
  <2>2. SumFunctionOnSet(f, Rows(r)) = f[k] + SumFunctionOnSet(f, Rows(r) \ {k})
    <3> HIDE DEF f
    <3> QED BY <1>2, <1>3, SumWithout
  <2> QED BY <1>2, <2>1, <2>2
<1>4. CASE k \notin Rows(r)
  <2>1. Rows(r) \ {k} = Rows(r) /\ c[k] * p = 0
    BY <1>4 DEF MayWrite
  <2> QED BY <1>2, <2>1
<1> QED BY <1>3, <1>4

\* The row of the week at hand, new or written again.
LEMMA RowWritten ==
    ASSUME NEW r, NEW c, NEW k, NEW p, MayWrite(r, c, k, p)
    PROVE  LET new   == [r EXCEPT ![k] = [pnl |-> p, total |-> Total(r) + p]]
               count == [c EXCEPT ![k] = @ + 1]
           IN  /\ new \in UserRows /\ count \in Counts /\ SumsUp(new, count)
               /\ Rows(new) = Rows(r) \union {k} /\ new[k].pnl = p
<1> DEFINE row == [pnl |-> p, total |-> Total(r) + p]
           new == [r EXCEPT ![k] = row]
           count == [c EXCEPT ![k] = @ + 1]
<1>0. r \in UserRows /\ c \in Counts /\ SumsUp(r, c) /\ k \in Weeks /\ p \in Int
  BY DEF MayWrite
<1>1. row \in Results
  BY <1>0, ValuesAdd DEF Results
<1>2. /\ new \in UserRows /\ new[k] = row /\ \A w \in Weeks \ {k} : new[w] = r[w]
      /\ count \in Counts /\ count[k] = c[k] + 1 /\ c[k] \in Nat
      /\ \A w \in Weeks \ {k} : count[w] = c[w]
  BY <1>0, <1>1 DEF UserRows, Counts
<1>3. Rows(new) = Rows(r) \union {k}
  BY <1>0, <1>1, <1>2, WeeklyRowAssumption DEF Rows
<1>4. row.pnl = p /\ row.total = Total(r) + p
  OBVIOUS
<1> HIDE DEF new, row, count
<1>5. ASSUME NEW w \in Rows(r), w # k PROVE new[w].total = SumFunction(Values(new, count, w))
  <2>1. w < k /\ w \in Weeks /\ w \in Nat /\ k \in Nat
    BY <1>0, <1>5 DEF Rows, Weeks, MayWrite
  <2>2. {x \in Rows(new) : x <= w} = {x \in Rows(r) : x <= w}
    BY <1>3, <2>1
  <2>3. Values(new, count, w) = Values(r, c, w)
    <3>1. \A x \in {y \in Rows(r) : y <= w} : new[x] = r[x] /\ count[x] = c[x]
      BY <1>2, <2>1 DEF Rows, Weeks
    <3> QED BY <2>2, <3>1 DEF Values
  <2> QED BY <1>0, <1>2, <2>1, <2>3 DEF SumsUp
<1>6. new[k].total = SumFunction(Values(new, count, k))
  <2> DEFINE S == {x \in Rows(new) : x <= k}
             f == Values(r, c, k)
             g == Values(new, count, k)
             other == Rows(r) \ {k}
  <2>1. k \in S /\ S \ {k} = other /\ Rows(r) = {x \in Rows(r) : x <= k}
    BY <1>0, <1>3 DEF Rows, Weeks, MayWrite
  <2>2. Summable(g, S) /\ Summable(f, Rows(r))
    BY <1>0, <1>2, <2>1, ValuesAdd
  <2>3. DOMAIN g = S /\ g[k] = (c[k] + 1) * p
    BY <1>2, <1>4, <2>1 DEF Values
  <2>4. SameOn(f, g, other) /\ Summable(f, other)
    <3>1. \A x \in other : new[x] = r[x] /\ count[x] = c[x] /\ x \in S /\ x \in Rows(r)
      BY <1>2, <2>1 DEF Rows
    <3>2. \A x \in other : f[x] = g[x]
      BY <2>1, <3>1 DEF Values
    <3> QED BY <2>2, <3>2, FS_Subset DEF SameOn, Summable
  <2>5. Total(r) = c[k] * p + SumFunctionOnSet(f, other)
    BY TotalSplits
  <2> HIDE DEF S, f, g, other
  <2>6. SumFunctionOnSet(g, S) = (c[k] + 1) * p + SumFunctionOnSet(g, other)
    BY <2>1, <2>2, <2>3, SumWithout
  <2>7. SumFunctionOnSet(g, other) = SumFunctionOnSet(f, other) /\ SumFunctionOnSet(f, other) \in Int
    BY <2>4, SumOfSame, SumIsInt
  <2>8. (c[k] + 1) * p = c[k] * p + p /\ c[k] * p \in Int
    <3>1. \A a, b \in Int : (a + 1) * b = a * b + b
      OBVIOUS
    <3> QED BY <1>0, <1>2, <3>1
  <2>9. new[k].total = SumFunctionOnSet(g, S)
    <3> DEFINE a == c[k] * p
               b == (c[k] + 1) * p
               F == SumFunctionOnSet(f, other)
    <3>1. new[k].total = Total(r) + p
      BY <1>2, <1>4
    <3>2. Total(r) = a + F /\ SumFunctionOnSet(g, S) = b + F /\ b = a + p
      BY <2>5, <2>6, <2>7, <2>8
    <3>3. a \in Int /\ F \in Int /\ p \in Int
      BY <1>0, <2>7, <2>8
    <3> HIDE DEF a, b, F
    <3> QED BY <3>1, <3>2, <3>3
  <2> QED BY <2>3, <2>9 DEF SumFunction, g
<1>7. \A w \in Rows(new) : w = k \/ (w \in Rows(r) /\ w # k)
  BY <1>3
<1>8. SumsUp(new, count)
  BY <1>5, <1>6, <1>7 DEF SumsUp
<1> QED BY <1>2, <1>3, <1>4, <1>8 DEF new, row, count
-----------------------------------------------------------------------------
(* The weekly aggregator: no row is of a week to come, and a week's row is  *)
(* written at most once in an attempt.                                     *)

WeeklyVars == <<weekVars, faults, restarts>>

\* The row of the week at hand is that of its result.
OfThisWeek(u) ==
    /\ u \in DOMAIN pnl /\ week \in Rows(results[u]) => results[u][week].pnl = pnl[u]
    /\ try > 0 => writes[u][week] <= try - 1

UserInv(u) ==
    /\ \A w \in Rows(results[u]) : w <= week
    /\ \A w \in Weeks : /\ writes[u][w] > 0 <=> w \in Rows(results[u])
                        /\ writes[u][w] <= 1 + faults
    /\ SumsUp(results[u], writes[u])
    /\ OfThisWeek(u)

WeekInv ==
    /\ try > 0 => week \in Weeks /\ try <= 1 + faults
    /\ \A w \in reports : w <= week
    /\ \A u \in Users : UserInv(u)
    /\ week \in reports => \A u \in DOMAIN pnl : week \in Rows(results[u])

TotalsInv == WeeklyTypeOK /\ WeekInv

LEMMA RowsOfUser ==
    ASSUME NEW u
    PROVE  /\ RowsOf(u) = Rows(results[u]) /\ PrevCumulative(u) = Total(results[u])
           /\ \A w : Counted(u, w) = Values(results[u], writes[u], w)
BY DEF RowsOf, Rows, PrevCumulative, Total, Counted, Values

LEMMA TotalsInvIsSums == TotalsInv => TotalsAreSums
<1> SUFFICES ASSUME TotalsInv PROVE TotalsAreSums
  OBVIOUS
<1>1. ASSUME NEW u \in Users, NEW w \in RowsOf(u)
      PROVE  /\ results[u][w].total = SumFunction(Counted(u, w))
             /\ writes[u][w] \in 1..(1 + faults)
  <2>1. UserInv(u) /\ w \in Rows(results[u]) /\ w \in Weeks
    BY <1>1, RowsOfUser DEF TotalsInv, WeekInv, Rows
  <2>2. writes[u][w] \in Nat /\ faults \in Nat
    BY <2>1 DEF TotalsInv, WeeklyTypeOK, ProcessTypeOK
  <2> QED BY <2>1, <2>2, RowsOfUser DEF UserInv, SumsUp
<1>2. week \in reports => \A u \in DOMAIN pnl : results[u][week] # None
  BY DEF TotalsInv, WeekInv, Rows
<1> QED BY <1>1, <1>2 DEF TotalsAreSums

LEMMA InitTotals == WeeklyInit /\ ProcessInit => TotalsInv
<1> SUFFICES ASSUME WeeklyInit, ProcessInit PROVE TotalsInv
  OBVIOUS
<1>1. ProcessTypeOK /\ faults \in Nat
  BY ProcessAssumption DEF ProcessInit, ProcessTypeOK
<1>2. results \in [Users -> UserRows] /\ \A u \in Users : Rows(results[u]) = {}
  BY DEF WeeklyInit, UserRows, Rows
<1>3. writes \in [Users -> [Weeks -> 0..MaxTries]] /\ \A u \in Users : \A w \in Weeks : writes[u][w] = 0
  BY WeeklyAssumption DEF WeeklyInit
<1>4. WeeklyTypeOK
  <2>1. DOMAIN pnl = {}
    BY DEF WeeklyInit
  <2>2. week \in 0..MaxWeeks /\ try \in 0..MaxTries
    BY WeeklyAssumption DEF WeeklyInit
  <2> QED BY <1>1, <1>2, <1>3, <2>1, <2>2 DEF WeeklyInit, WeeklyTypeOK, UserRows
<1>5. try = 0 /\ reports = {}
  BY DEF WeeklyInit
<1>6. \A u \in Users : UserInv(u)
  BY <1>1, <1>2, <1>3, <1>5 DEF UserInv, SumsUp, OfThisWeek
<1> QED BY <1>4, <1>5, <1>6 DEF TotalsInv, WeekInv

\* What an attempt does to a user's rows.
LEMMA UpsertedRows ==
    ASSUME TotalsInv, try > 0, NEW written \in SUBSET DOMAIN pnl, Upserted(written), NEW u \in Users
    PROVE  /\ results'[u] \in UserRows /\ writes'[u] \in [Weeks -> 0..MaxTries]
           /\ SumsUp(results'[u], writes'[u])
           /\ Rows(results'[u]) = Rows(results[u]) \union (IF u \in written THEN {week} ELSE {})
           /\ \A w \in Weeks : \/ writes'[u][w] = writes[u][w]
                               \/ w = week /\ u \in written /\ writes'[u][w] = writes[u][w] + 1
           /\ u \in written => writes'[u][week] = writes[u][week] + 1
           /\ week \in Rows(results'[u]) /\ u \in DOMAIN pnl => results'[u][week].pnl = pnl[u]
<1>0. /\ week \in Weeks /\ results[u] \in UserRows /\ writes[u] \in [Weeks -> 0..MaxTries]
      /\ writes[u] \in Counts /\ UserInv(u) /\ MaxTries \in Nat /\ try \in 0..MaxTries
      /\ u \in DOMAIN pnl => pnl[u] \in Int
  <2>1. week \in Weeks /\ UserInv(u) /\ MaxTries \in Nat
    BY WeeklyAssumption DEF TotalsInv, WeekInv
  <2>2. results[u] \in UserRows /\ writes[u] \in [Weeks -> 0..MaxTries] /\ try \in 0..MaxTries
    BY DEF TotalsInv, WeeklyTypeOK, UserRows
  <2>3. u \in DOMAIN pnl => pnl[u] \in Int
    BY WeeklyAssumption DEF TotalsInv, WeeklyTypeOK
  <2> QED BY <2>1, <2>2, <2>3 DEF Counts
<1>1. CASE u \in written
  <2> DEFINE r == results[u]
             c == writes[u]
             p == pnl[u]
             new   == [r EXCEPT ![week] = [pnl |-> p, total |-> Total(r) + p]]
             count == [c EXCEPT ![week] = @ + 1]
  <2>1. results'[u] = new /\ writes'[u] = count
    BY <1>1, RowsOfUser DEF Upserted
  <2>2. p \in Int /\ u \in DOMAIN pnl /\ c[week] \in Nat
    BY <1>0, <1>1
  <2>3. SumsUp(r, c)
    BY <1>0 DEF UserInv
  <2>4. MayWrite(r, c, week, p)
    BY <1>0, <2>2, <2>3 DEF MayWrite, UserInv, OfThisWeek
  <2>5. /\ new \in UserRows /\ count \in Counts /\ SumsUp(new, count)
        /\ Rows(new) = Rows(r) \union {week} /\ new[week].pnl = p
    <3> HIDE DEF r, c, p
    <3> QED BY <2>4, RowWritten
  <2>6. c[week] + 1 \in 0..MaxTries
    BY <1>0, <2>2 DEF UserInv, OfThisWeek
  <2>7. /\ count \in [Weeks -> 0..MaxTries] /\ count[week] = c[week] + 1
        /\ \A w \in Weeks : w # week => count[w] = c[w]
    BY <1>0, <2>6
  <2> HIDE DEF new, count
  <2> QED BY <1>0, <1>1, <2>1, <2>5, <2>7
<1>2. CASE u \notin written
  <2>1. results'[u] = results[u] /\ writes'[u] = writes[u]
    BY <1>2 DEF Upserted
  <2>2. SumsUp(results[u], writes[u])
    BY <1>0 DEF UserInv
  <2>3. u \in DOMAIN pnl /\ week \in Rows(results[u]) => results[u][week].pnl = pnl[u]
    BY <1>0 DEF UserInv, OfThisWeek
  <2> QED BY <1>0, <1>2, <2>1, <2>2, <2>3
<1> QED BY <1>1, <1>2

\* What an attempt leaves behind: another follows only if a call failed.
AfterTry ==
    /\ UNCHANGED <<week, pnl>> /\ ProcessTypeOK' /\ faults' \in {faults, faults + 1}
    /\ try' = 0 \/ (try' = try + 1 /\ try < MaxTries /\ faults' = faults + 1)

LEMMA AttemptInv ==
    ASSUME TotalsInv, try > 0, NEW written \in SUBSET DOMAIN pnl, Upserted(written), AfterTry,
           \/ reports' = reports
           \/ reports' = reports \union {week} /\ written = DOMAIN pnl
    PROVE  TotalsInv'
<1>0. /\ WeeklyTypeOK /\ WeekInv /\ week \in Weeks /\ DOMAIN pnl \subseteq Users
      /\ try \in 1..MaxTries /\ try <= 1 + faults /\ faults \in Nat /\ faults' \in Nat
      /\ week' = week /\ pnl' = pnl
  BY WeeklyAssumption DEF TotalsInv, WeekInv, WeeklyTypeOK, ProcessTypeOK, AfterTry
<1>1. ASSUME NEW u \in Users PROVE UserInv(u)'
  <2>0. UserInv(u) /\ writes[u] \in Counts /\ writes'[u] \in Counts
    <3>1. writes[u] \in [Weeks -> 0..MaxTries] /\ writes'[u] \in [Weeks -> 0..MaxTries]
      BY <1>0, UpsertedRows DEF WeeklyTypeOK
    <3> QED BY <1>0, <3>1, WeeklyAssumption DEF WeekInv, Counts
  <2>1. /\ SumsUp(results'[u], writes'[u])
        /\ Rows(results'[u]) = Rows(results[u]) \union (IF u \in written THEN {week} ELSE {})
        /\ \A w \in Weeks : \/ writes'[u][w] = writes[u][w]
                            \/ w = week /\ u \in written /\ writes'[u][w] = writes[u][w] + 1
        /\ u \in written => writes'[u][week] = writes[u][week] + 1
        /\ week \in Rows(results'[u]) /\ u \in DOMAIN pnl => results'[u][week].pnl = pnl[u]
    BY UpsertedRows
  <2>2. \A w \in Rows(results'[u]) : w <= week
    BY <1>0, <2>0, <2>1 DEF UserInv, Weeks
  <2>3. writes[u][week] <= try - 1 /\ writes[u][week] \in Nat
    BY <1>0, <2>0 DEF UserInv, OfThisWeek, Counts
  <2>4. ASSUME NEW w \in Weeks
        PROVE  /\ writes'[u][w] > 0 <=> w \in Rows(results'[u])
               /\ writes'[u][w] <= 1 + faults'
    <3>1. /\ writes[u][w] \in Nat /\ writes[u][w] <= 1 + faults
          /\ writes[u][w] > 0 <=> w \in Rows(results[u])
      BY <2>0 DEF UserInv, Counts
    <3>2. faults <= faults'
      BY <1>0 DEF AfterTry
    <3>3. CASE w = week /\ u \in written
      BY <1>0, <2>1, <2>3, <3>1, <3>2, <3>3
    <3>4. CASE ~(w = week /\ u \in written)
      BY <1>0, <2>1, <3>1, <3>2, <3>4
    <3> QED BY <3>3, <3>4
  <2>5. try' > 0 => writes'[u][week] <= try' - 1
    <3>1. writes'[u][week] <= writes[u][week] + 1
      BY <1>0, <2>1, <2>3
    <3> QED BY <1>0, <2>0, <2>3, <3>1 DEF AfterTry, Counts
  <2> QED BY <1>0, <2>1, <2>2, <2>4, <2>5 DEF UserInv, OfThisWeek
<1>2. WeeklyTypeOK'
  <2>1. \A u \in Users : results'[u] \in UserRows /\ writes'[u] \in [Weeks -> 0..MaxTries]
    BY UpsertedRows
  <2>2. /\ results' = [u \in Users |-> results'[u]] /\ writes' = [u \in Users |-> writes'[u]]
    BY DEF Upserted
  <2>3. results' \in [Users -> UserRows] /\ writes' \in [Users -> [Weeks -> 0..MaxTries]]
    BY <2>1, <2>2
  <2>4. try' \in 0..MaxTries
    BY <1>0, WeeklyAssumption DEF AfterTry
  <2> QED BY <1>0, <2>3, <2>4 DEF WeeklyTypeOK, UserRows, AfterTry
<1>3. \A w \in reports' : w <= week
  BY <1>0 DEF WeekInv, Weeks
<1>4. week \in reports' => \A u \in DOMAIN pnl : week \in Rows(results'[u])
  <2>1. \A u \in DOMAIN pnl : /\ week \in Rows(results[u]) => week \in Rows(results'[u])
                              /\ u \in written => week \in Rows(results'[u])
    <3> SUFFICES ASSUME NEW u \in DOMAIN pnl
                 PROVE  /\ week \in Rows(results[u]) => week \in Rows(results'[u])
                        /\ u \in written => week \in Rows(results'[u])
      OBVIOUS
    <3>1. Rows(results'[u]) = Rows(results[u]) \union (IF u \in written THEN {week} ELSE {})
      BY <1>0, UpsertedRows
    <3> QED BY <3>1
  <2> QED BY <1>0, <2>1 DEF WeekInv
<1>5. try' > 0 => try' <= 1 + faults'
  BY <1>0 DEF AfterTry
<1> QED BY <1>0, <1>1, <1>2, <1>3, <1>4, <1>5 DEF TotalsInv, WeekInv

LEMMA NextTotals == TotalsInv /\ [WeeklyNext]_WeeklyVars => TotalsInv'
<1> SUFFICES ASSUME TotalsInv, [WeeklyNext]_WeeklyVars PROVE TotalsInv'
  OBVIOUS
<1>0. WeeklyTypeOK /\ WeekInv /\ ProcessTypeOK /\ faults \in Nat /\ try \in Nat
  BY WeeklyAssumption DEF TotalsInv, WeeklyTypeOK, ProcessTypeOK
<1>1. CASE StartWeek
  <2>1. /\ week' = week + 1 /\ week < MaxWeeks /\ week \in Nat /\ week' \in Weeks
        /\ UNCHANGED <<results, reports, writes, faults, restarts>>
    BY <1>0, <1>1, WeeklyAssumption DEF StartWeek, WeeklyTypeOK, Weeks
  <2>2. PICK active \in SUBSET Users :
          pnl' \in [active -> Pnls] /\ try' = IF active = {} THEN 0 ELSE 1
    BY <1>1 DEF StartWeek
  <2>3. WeeklyTypeOK'
    <3>1. try' \in 0..MaxTries /\ week' \in 0..MaxWeeks
      BY <2>1, <2>2, WeeklyAssumption DEF Weeks
    <3>2. DOMAIN pnl' \subseteq Users /\ \A u \in DOMAIN pnl' : pnl'[u] \in Pnls
      BY <2>2
    <3> QED BY <1>0, <2>1, <3>1, <3>2 DEF WeeklyTypeOK, ProcessTypeOK
  <2>4. ASSUME NEW u \in Users PROVE UserInv(u)'
    <3>1. UserInv(u) /\ writes[u] \in [Weeks -> 0..MaxTries]
      BY <1>0 DEF WeekInv, WeeklyTypeOK
    <3>2. /\ \A w \in Rows(results[u]) : w <= week'
          /\ week' \notin Rows(results[u])
      BY <2>1, <3>1 DEF UserInv, Rows, Weeks
    <3>3. writes[u][week'] = 0
      BY <2>1, <3>1, <3>2, WeeklyAssumption DEF UserInv
    <3> QED BY <2>1, <2>2, <3>1, <3>2, <3>3 DEF UserInv, OfThisWeek
  <2>5. \A w \in reports : w <= week' /\ w # week'
    BY <1>0, <2>1 DEF WeekInv, WeeklyTypeOK, Weeks
  <2>6. try' > 0 => try' <= 1 + faults
    BY <1>0, <2>2
  <2>7. WeekInv'
    BY <1>0, <2>1, <2>4, <2>5, <2>6 DEF WeekInv
  <2> QED BY <2>3, <2>7 DEF TotalsInv
<1>2. CASE Aggregate
  <2>1. try > 0 /\ UNCHANGED <<week, pnl, restarts>> /\ (Fault \/ NoFault)
    BY <1>2 DEF Aggregate
  <2>2. try' = 0 \/ (TryAgain /\ Fault)
    BY <1>2 DEF Aggregate
  <2>3. AfterTry
    BY <1>0, <2>1, <2>2, ProcessAssumption
    DEF AfterTry, TryAgain, ProcessTypeOK, Fault, NoFault
  <2>4. CASE Upserted(DOMAIN pnl) /\ reports' \in {reports, reports \union {week}}
    BY <2>1, <2>3, <2>4, AttemptInv
  <2>5. CASE \E written \in SUBSET DOMAIN pnl : Upserted(written) /\ UNCHANGED reports
    <3>1. PICK written \in SUBSET DOMAIN pnl : Upserted(written) /\ UNCHANGED reports
      BY <2>5
    <3>2. reports' = reports
      BY <3>1
    <3> QED BY <2>1, <2>3, <3>1, <3>2, AttemptInv
  <2>6. \/ Upserted(DOMAIN pnl) /\ reports' \in {reports, reports \union {week}}
        \/ \E written \in SUBSET DOMAIN pnl : Upserted(written) /\ UNCHANGED reports
    BY <1>2 DEF Aggregate
  <2> QED BY <2>4, <2>5, <2>6
<1>3. CASE WeeklyCrash
  <2>1. PICK written \in SUBSET DOMAIN pnl : Upserted(written)
    BY <1>3 DEF WeeklyCrash
  <2>2. AfterTry
    BY <1>0, <1>3, ProcessAssumption DEF AfterTry, WeeklyCrash, Restart, ProcessTypeOK
  <2>3. try > 0 /\ reports' = reports
    BY <1>3 DEF WeeklyCrash
  <2> QED BY <2>1, <2>2, <2>3, AttemptInv
<1>4. CASE UNCHANGED WeeklyVars
  <2>1. UNCHANGED <<week, pnl, try, results, reports, writes, faults, restarts>>
    BY <1>4 DEF WeeklyVars, weekVars
  <2>2. \A u \in Users : UserInv(u)'
    BY <1>0, <2>1 DEF WeekInv, UserInv, OfThisWeek
  <2> QED BY <1>0, <2>1, <2>2 DEF TotalsInv, WeeklyTypeOK, WeekInv, ProcessTypeOK
<1> QED BY <1>1, <1>2, <1>3, <1>4 DEF WeeklyNext

\* The aggregator's state is well typed for every set of users, every number of
\* weeks and tries: every row it writes has a result and a running total, and is
\* written no more often than a week is tried.
THEOREM WeeklyTypeCorrect == WeeklySpec => []WeeklyTypeOK
<1>1. TotalsInv => WeeklyTypeOK
  BY DEF TotalsInv
<1> QED BY <1>1, InitTotals, NextTotals, PTL DEF WeeklySpec, WeeklyVars

\* For every user, over skipped weeks, failed attempts of aggregate_once and
\* crashes, the running total of each row is the sum of the user's weeks, counted
\* once for every time the row was written: once if no call failed, and at most
\* once more for each that did. A week with a report has all its rows.
THEOREM RunningTotals == WeeklySpec => []TotalsAreSums
BY InitTotals, NextTotals, TotalsInvIsSums, PTL DEF WeeklySpec, WeeklyVars
-----------------------------------------------------------------------------
(* The price sheet: the calendar.  *)

LEMMA DayOf ==
    ASSUME NEW t \in Nat
    PROVE  /\ t \div Day \in Nat /\ t - Day < (t \div Day) * Day /\ (t \div Day) * Day <= t
           /\ Weekday(t) \in 0..6
BY DEF Day, Weekday

LEMMA EightOfDay ==
    ASSUME NEW n \in Nat
    PROVE  (n * Day + Eight) % Day = Eight
BY DEF Day, Eight

LEMMA Next0800Is ==
    ASSUME NEW t \in Nat
    PROVE  /\ Next0800(t) \in Nat /\ t < Next0800(t) /\ Next0800(t) <= t + Day
           /\ Next0800(t) % Day = Eight
<1> DEFINE d == t \div Day
           n == IF d * Day + Eight <= t THEN d + 1 ELSE d
<1>1. d \in Nat /\ t - Day < d * Day /\ d * Day <= t
  BY DayOf
<1> HIDE DEF d
<1>2. n \in Nat /\ t < n * Day + Eight /\ n * Day + Eight <= t + Day
  BY <1>1 DEF Day, Eight
<1>3. Next0800(t) = n * Day + Eight
  BY <1>1 DEF d, Next0800, Day, Eight
<1> HIDE DEF n
<1> QED BY <1>2, <1>3, EightOfDay DEF Day, Eight

LEMMA NextFridayIs ==
    ASSUME NEW t \in Nat
    PROVE  /\ NextFriday(t) \in Nat /\ t < NextFriday(t) /\ NextFriday(t) <= t + 7 * Day
           /\ NextFriday(t) % Day = Eight
<1> DEFINE d == t \div Day
           w == Weekday(t)
           ahead == (Friday + 7 - w) % 7
           n == IF ahead = 0 /\ d * Day + Eight <= t THEN d + 7 ELSE d + ahead
<1>1. d \in Nat /\ t - Day < d * Day /\ d * Day <= t /\ w \in 0..6
  BY DayOf
<1> HIDE DEF d, w
<1>2. ahead \in 0..6
  BY <1>1 DEF Friday
<1> HIDE DEF ahead
<1>3. n \in Nat /\ t < n * Day + Eight /\ n * Day + Eight <= t + 7 * Day
  BY <1>1, <1>2 DEF Day, Eight
<1>4. NextFriday(t) = n * Day + Eight
  BY <1>1, <1>2 DEF d, w, ahead, NextFriday, Day, Eight
<1> HIDE DEF n
<1> QED BY <1>3, <1>4, EightOfDay DEF Day, Eight
-----------------------------------------------------------------------------
(* The price sheet: a ladder of strikes is the multiples of its step.       *)

Multiples(a, b, width) == {i * width : i \in a..b}

LEMMA TimesGrows ==
    ASSUME NEW a \in Int, NEW b \in Int, NEW width \in Nat \ {0}
    PROVE  /\ a * width \in Int /\ (a < b => a * width < b * width)
           /\ (a + b) * width = a * width + b * width /\ (a - b) * width = a * width - b * width
<1>1. /\ a * width \in Int /\ (a + b) * width = a * width + b * width
      /\ (a - b) * width = a * width - b * width
  OBVIOUS
<1>2. ASSUME a < b PROVE a * width < b * width
  <2> DEFINE c == b - a
  <2>1. c \in Nat \ {0} /\ b = a + c
    BY <1>2
  <2> HIDE DEF c
  <2>2. c * width \in Nat \ {0}
    BY <2>1
  <2>3. b * width = a * width + c * width
    BY <2>1
  <2> QED BY <1>1, <2>2, <2>3
<1> QED BY <1>1, <1>2

\* Rounding is off by half a step at most.
LEMMA RoundIs ==
    ASSUME NEW price \in Nat, NEW width \in Nat \ {0}
    PROVE  /\ Round(price, width) \in Nat
           /\ (Round(price, width) - 1) * width < price
           /\ price < (Round(price, width) + 1) * width
<1> DEFINE down == price \div width
           rest == price % width
<1>1. down \in Nat /\ rest \in 0..(width - 1) /\ price = width * down + rest
  OBVIOUS
<1> HIDE DEF down, rest
<1>2. Round(price, width) = IF 2 * rest > width \/ (2 * rest = width /\ down % 2 = 1) THEN down + 1 ELSE down
  BY DEF Round, down, rest
<1>3. (down - 1) * width = width * down - width /\ (down + 1) * width = width * down + width
      /\ (down + 1 - 1) * width = width * down /\ (down + 1 + 1) * width = width * down + 2 * width
  BY <1>1
<1>4. width * down \in Nat
  BY <1>1
<1>5. CASE Round(price, width) = down
  BY <1>1, <1>3, <1>4, <1>5
<1>6. CASE Round(price, width) = down + 1 /\ 2 * rest >= width
  BY <1>1, <1>3, <1>4, <1>6
<1> QED BY <1>1, <1>2, <1>5, <1>6

LEMMA MultiplesEnds ==
    ASSUME NEW a \in Int, NEW b \in Int, a <= b, NEW width \in Nat \ {0}
    PROVE  /\ Min(Multiples(a, b, width)) = a * width
           /\ Max(Multiples(a, b, width)) = b * width
<1>1. \A i \in a..b : i * width \in Int /\ a * width <= i * width /\ i * width <= b * width
  <2> TAKE i \in a..b
  <2>1. i \in Int
    OBVIOUS
  <2>2. (a < i => a * width < i * width) /\ (i < b => i * width < b * width)
        /\ i * width \in Int /\ a * width \in Int /\ b * width \in Int
    BY <2>1, TimesGrows
  <2>3. (a = i \/ a < i) /\ (i = b \/ i < b)
    OBVIOUS
  <2> HIDE DEF Multiples
  <2> QED BY <2>2, <2>3
<1>2. a * width \in Int /\ b * width \in Int
  BY TimesGrows
<1> DEFINE S == Multiples(a, b, width)
<1>3. a * width \in S /\ b * width \in S /\ \A x \in S : x \in Int /\ a * width <= x /\ x <= b * width
  <2>1. a \in a..b /\ b \in a..b
    OBVIOUS
  <2>2. \A x \in S : \E i \in a..b : x = i * width
    BY DEF Multiples
  <2>3. a * width \in S /\ b * width \in S
    BY <2>1 DEF Multiples
  <2> HIDE DEF S
  <2> QED BY <1>1, <2>2, <2>3
<1> HIDE DEF S
<1>4. Min(S) \in S /\ \A y \in S : Min(S) <= y
  <2>1. \E x \in S : \A y \in S : x <= y
    BY <1>3
  <2> QED BY <2>1 DEF Min
<1>5. Max(S) \in S /\ \A y \in S : Max(S) >= y
  <2>1. \E x \in S : \A y \in S : x >= y
    BY <1>2, <1>3
  <2> QED BY <2>1 DEF Max
<1>6. Min(S) = a * width /\ Max(S) = b * width
  BY <1>2, <1>3, <1>4, <1>5
<1> QED BY <1>6 DEF S

LEMMA MultiplesCount ==
    ASSUME NEW a \in Int, NEW b \in Int, a <= b + 1, NEW width \in Nat \ {0}
    PROVE  /\ IsFiniteSet(Multiples(a, b, width))
           /\ Cardinality(Multiples(a, b, width)) = b - a + 1
<1> DEFINE f == [i \in a..b |-> i * width]
<1>1. \A i, j \in a..b : f[i] = f[j] => i = j
  <2> TAKE i, j \in a..b
  <2>1. i \in Int /\ j \in Int
    OBVIOUS
  <2>2. (i < j => i * width < j * width) /\ (j < i => j * width < i * width)
        /\ i * width \in Int /\ j * width \in Int
    BY <2>1, TimesGrows
  <2> QED BY <2>1, <2>2
<1>2. f \in Bijection(a..b, Multiples(a, b, width))
  BY <1>1 DEF Bijection, Injection, Surjection, IsInjective, Multiples
<1>3. IsFiniteSet(a..b) /\ Cardinality(a..b) = b - a + 1
  BY FS_Interval
<1> HIDE DEF f
<1>4. ExistsBijection(a..b, Multiples(a, b, width))
  BY <1>2 DEF ExistsBijection
<1> QED BY <1>3, <1>4, FS_Bijection

\* The ladder of a price: the least and the greatest multiple before anything is added.
Lowest(price, width) == Round(price, width) - NumStrikes \div 2
Highest(price, width) == Lowest(price, width) + NumStrikes - 1

LEMMA CenterIs ==
    ASSUME NEW price \in Nat, NEW width \in Nat \ {0}
    PROVE  /\ Lowest(price, width) \in Int /\ Highest(price, width) \in Int
           /\ Lowest(price, width) <= Round(price, width)
           /\ Round(price, width) <= Highest(price, width)
           /\ Centered(price, width) = Multiples(Lowest(price, width), Highest(price, width), width)
<1> DEFINE half == NumStrikes \div 2
           r == Round(price, width)
           lo == Lowest(price, width)
           hi == Highest(price, width)
<1>1. half \in Nat /\ half <= NumStrikes - 1 /\ NumStrikes \in Nat \ {0}
  BY SheetAssumption
<1>2. r \in Nat
  BY RoundIs
<1>3. lo = r - half /\ hi = lo + NumStrikes - 1
  BY DEF Lowest, Highest
<1>4. Centered(price, width) = {(r + i - half) * width : i \in 0..(NumStrikes - 1)}
  BY DEF Centered
<1> HIDE DEF half, r, lo, hi
<1>5. lo \in Int /\ hi \in Int /\ lo <= r /\ r <= hi
  BY <1>1, <1>2, <1>3
<1>6. \A i \in 0..(NumStrikes - 1) : r + i - half \in lo..hi
  BY <1>1, <1>2, <1>3
<1>7. \A k \in lo..hi : k - lo \in 0..(NumStrikes - 1) /\ r + (k - lo) - half = k
  BY <1>1, <1>2, <1>3
<1>8. Centered(price, width) = Multiples(lo, hi, width)
  BY <1>4, <1>6, <1>7 DEF Multiples
<1> QED BY <1>5, <1>8 DEF lo, hi, r

\* How many strikes are added to some that there are.
LEMMA MissingIs ==
    ASSUME NEW S, IsFiniteSet(S)
    PROVE  /\ Missing(S) \in Nat
           /\ Missing(S) = 0 => MinOtm <= Cardinality(S)
           /\ Missing(S) > 0 => Cardinality(S) + Missing(S) = MinOtm
BY FS_CardinalityType, SheetAssumption DEF Missing

Below(price, width) == Missing({s \in Centered(price, width) : s < price})
Above(price, width) == Missing({s \in Centered(price, width) : s > price})

LEMMA LadderIs ==
    ASSUME NEW price \in Nat, NEW width \in Nat \ {0}
    PROVE  /\ Below(price, width) \in Nat /\ Above(price, width) \in Nat
           /\ IsFiniteSet(Centered(price, width))
           /\ Strikes(price, width) =
                Multiples(Lowest(price, width) - Below(price, width),
                          Highest(price, width) + Above(price, width), width)
<1> DEFINE base == Centered(price, width)
           lo == Lowest(price, width)
           hi == Highest(price, width)
           m == Below(price, width)
           n == Above(price, width)
<1>1. lo \in Int /\ hi \in Int /\ lo <= hi /\ base = Multiples(lo, hi, width)
  BY CenterIs, RoundIs
<1>2. IsFiniteSet(base) /\ Min(base) = lo * width /\ Max(base) = hi * width
  <2> HIDE DEF base, lo, hi
  <2>1. lo <= hi + 1
    BY <1>1
  <2>2. IsFiniteSet(Multiples(lo, hi, width))
    BY <1>1, <2>1, MultiplesCount
  <2>3. Min(Multiples(lo, hi, width)) = lo * width /\ Max(Multiples(lo, hi, width)) = hi * width
    BY <1>1, MultiplesEnds
  <2> QED BY <1>1, <2>2, <2>3
<1>3. m \in Nat /\ n \in Nat
  <2>1. IsFiniteSet({s \in base : s < price}) /\ IsFiniteSet({s \in base : s > price})
    BY <1>2, FS_Subset
  <2> QED BY <2>1, MissingIs DEF Below, Above
<1>4. Strikes(price, width) = base \union {Min(base) - k * width : k \in 1..m}
                                  \union {Max(base) + k * width : k \in 1..n}
  BY DEF Strikes, Below, Above
<1> HIDE DEF base, lo, hi, m, n
<1>5. {Min(base) - k * width : k \in 1..m} = Multiples(lo - m, lo - 1, width)
  <2>1. \A k \in 1..m : lo - k \in (lo - m)..(lo - 1) /\ lo * width - k * width = (lo - k) * width
    BY <1>1, <1>3, TimesGrows
  <2>2. \A i \in (lo - m)..(lo - 1) : lo - i \in 1..m /\ lo - (lo - i) = i
    BY <1>1, <1>3
  <2> QED BY <1>2, <2>1, <2>2 DEF Multiples
<1>6. {Max(base) + k * width : k \in 1..n} = Multiples(hi + 1, hi + n, width)
  <2>1. \A k \in 1..n : hi + k \in (hi + 1)..(hi + n) /\ hi * width + k * width = (hi + k) * width
    BY <1>1, <1>3, TimesGrows
  <2>2. \A i \in (hi + 1)..(hi + n) : i - hi \in 1..n /\ hi + (i - hi) = i
    BY <1>1, <1>3
  <2> QED BY <1>2, <2>1, <2>2 DEF Multiples
<1>7. (lo - m)..(hi + n) = ((lo - m)..(lo - 1)) \union (lo..hi) \union ((hi + 1)..(hi + n))
  BY <1>1, <1>3
<1>8. Strikes(price, width) = Multiples(lo - m, hi + n, width)
  BY <1>1, <1>4, <1>5, <1>6, <1>7 DEF Multiples
<1> QED BY <1>2, <1>3, <1>8 DEF base, lo, hi, m, n

\* A set with so many strikes and as many again beside them has enough.
LEMMA EnoughOf ==
    ASSUME NEW S, IsFiniteSet(S), NEW T \in SUBSET S, NEW U \in SUBSET S, T \intersect U = {},
           NEW n \in Nat, n <= Cardinality(T) + Cardinality(U)
    PROVE  n <= Cardinality(S)
<1>1. IsFiniteSet(T) /\ IsFiniteSet(U) /\ T \union U \in SUBSET S
  BY FS_Subset
<1>2. Cardinality(T \union U) = Cardinality(T) + Cardinality(U)
  <2>1. Cardinality(T \union U) = Cardinality(T) + Cardinality(U) - Cardinality(T \intersect U)
    BY <1>1, FS_Union
  <2>2. Cardinality(T \intersect U) = 0
    BY FS_EmptySet
  <2>3. Cardinality(T) \in Nat /\ Cardinality(U) \in Nat
    BY <1>1, FS_CardinalityType
  <2> QED BY <2>1, <2>2, <2>3
<1>3. Cardinality(T \union U) <= Cardinality(S)
  BY <1>1, FS_Subset
<1>4. Cardinality(T) \in Nat /\ Cardinality(U) \in Nat /\ Cardinality(S) \in Nat
  BY <1>1, FS_CardinalityType
<1> QED BY <1>2, <1>3, <1>4

\* On both sides of the price there are enough strikes, and no gap between them.
LEMMA LadderHoldsPrice ==
    ASSUME NEW price \in Nat, NEW width \in Nat \ {0}
    PROVE  LET strikes == Strikes(price, width) IN
           /\ Cardinality({s \in strikes : s < price}) >= MinOtm
           /\ Cardinality({s \in strikes : s > price}) >= MinOtm
           /\ \A s \in strikes : s # Max(strikes) => s + width \in strikes
<1> DEFINE base == Centered(price, width)
           lo == Lowest(price, width)
           hi == Highest(price, width)
           m == Below(price, width)
           n == Above(price, width)
           strikes == Strikes(price, width)
           r == Round(price, width)
<1>1. /\ lo \in Int /\ hi \in Int /\ lo <= r /\ r <= hi /\ base = Multiples(lo, hi, width)
      /\ r \in Nat /\ (r - 1) * width < price /\ price < (r + 1) * width
  BY CenterIs, RoundIs
<1>2. /\ m \in Nat /\ n \in Nat /\ IsFiniteSet(base)
      /\ strikes = Multiples(lo - m, hi + n, width)
  BY LadderIs
<1>3. /\ m = Missing({s \in base : s < price}) /\ n = Missing({s \in base : s > price})
      /\ MinOtm \in Nat
  BY SheetAssumption DEF Below, Above
<1> HIDE DEF base, lo, hi, m, n, strikes, r
<1>4. IsFiniteSet(strikes)
  <2>1. lo - m <= hi + n + 1 /\ lo - m \in Int /\ hi + n \in Int
    BY <1>1, <1>2
  <2> QED BY <1>2, <2>1, MultiplesCount
<1>5. Multiples(lo - m, lo - 1, width) \subseteq strikes /\ base \subseteq strikes
      /\ Multiples(hi + 1, hi + n, width) \subseteq strikes
  <2>1. /\ (lo - m)..(lo - 1) \subseteq (lo - m)..(hi + n) /\ lo..hi \subseteq (lo - m)..(hi + n)
        /\ (hi + 1)..(hi + n) \subseteq (lo - m)..(hi + n)
    BY <1>1, <1>2
  <2>2. \A I \in SUBSET ((lo - m)..(hi + n)) : {i * width : i \in I} \subseteq strikes
    BY <1>2 DEF Multiples
  <2> QED BY <1>1, <2>1, <2>2 DEF Multiples
<1>6. \A s \in Multiples(lo - m, lo - 1, width) : s \in Int /\ s < price /\ s < lo * width
  <2> SUFFICES ASSUME NEW i \in (lo - m)..(lo - 1)
               PROVE  i * width \in Int /\ i * width < price /\ i * width < lo * width
    BY DEF Multiples
  <2>1. i \in Int /\ i < lo /\ (i < r - 1 \/ i = r - 1)
    BY <1>1, <1>2
  <2>2. (i < r - 1 => i * width < (r - 1) * width) /\ i * width \in Int /\ (r - 1) * width \in Int
    BY <1>1, <2>1, TimesGrows
  <2>3. i * width < lo * width
    BY <1>1, <2>1, TimesGrows
  <2> QED BY <1>1, <2>1, <2>2, <2>3
<1>7. \A s \in Multiples(hi + 1, hi + n, width) : s \in Int /\ s > price /\ s > hi * width
  <2> SUFFICES ASSUME NEW i \in (hi + 1)..(hi + n)
               PROVE  i * width \in Int /\ i * width > price /\ i * width > hi * width
    BY DEF Multiples
  <2>1. i \in Int /\ hi < i /\ (r + 1 < i \/ i = r + 1)
    BY <1>1, <1>2
  <2>2. (r + 1 < i => (r + 1) * width < i * width) /\ i * width \in Int /\ (r + 1) * width \in Int
    BY <1>1, <2>1, TimesGrows
  <2>3. hi * width < i * width /\ hi * width \in Int
    BY <1>1, <2>1, TimesGrows
  <2> QED BY <1>1, <2>1, <2>2, <2>3
<1>8. \A s \in base : s \in Int /\ lo * width <= s /\ s <= hi * width
  <2> SUFFICES ASSUME NEW i \in lo..hi
               PROVE  i * width \in Int /\ lo * width <= i * width /\ i * width <= hi * width
    BY <1>1 DEF Multiples
  <2>1. i \in Int /\ (lo < i \/ i = lo) /\ (i < hi \/ i = hi)
    BY <1>1
  <2>2. (lo < i => lo * width < i * width) /\ (i < hi => i * width < hi * width) /\ i * width \in Int
        /\ lo * width \in Int /\ hi * width \in Int
    BY <1>1, <2>1, TimesGrows
  <2> QED BY <2>1, <2>2
<1>9. lo * width \in Int /\ hi * width \in Int
  BY <1>1, TimesGrows
<1>10. Cardinality({s \in strikes : s < price}) >= MinOtm
  <2> DEFINE S == {s \in strikes : s < price}
             T == {s \in base : s < price}
             U == Multiples(lo - m, lo - 1, width)
  <2>1. IsFiniteSet(S) /\ IsFiniteSet(T)
    BY <1>2, <1>4, FS_Subset
  <2>2. T \in SUBSET S /\ U \in SUBSET S
    BY <1>5, <1>6
  <2>3. T \intersect U = {}
    BY <1>6, <1>8, <1>9
  <2>4. Cardinality(U) = m
    <3>1. lo - m \in Int /\ lo - 1 \in Int /\ lo - m <= lo - 1 + 1
      BY <1>1, <1>2
    <3>2. Cardinality(U) = (lo - 1) - (lo - m) + 1
      BY <3>1, MultiplesCount
    <3> QED BY <1>1, <1>2, <3>2
  <2>5. MinOtm <= Cardinality(T) + m
    <3>1. Cardinality(T) \in Nat /\ m = Missing(T)
      BY <1>3, <2>1, FS_CardinalityType
    <3> HIDE DEF T
    <3> QED BY <1>2, <1>3, <2>1, <3>1, MissingIs
  <2> HIDE DEF S, T, U
  <2>6. MinOtm <= Cardinality(S)
    BY <1>3, <2>1, <2>2, <2>3, <2>4, <2>5, EnoughOf
  <2>7. Cardinality(S) \in Nat
    BY <2>1, FS_CardinalityType
  <2>8. Cardinality(S) >= MinOtm
    BY <1>3, <2>6, <2>7
  <2> QED BY <2>8 DEF S
<1>11. Cardinality({s \in strikes : s > price}) >= MinOtm
  <2> DEFINE S == {s \in strikes : s > price}
             T == {s \in base : s > price}
             U == Multiples(hi + 1, hi + n, width)
  <2>1. IsFiniteSet(S) /\ IsFiniteSet(T)
    BY <1>2, <1>4, FS_Subset
  <2>2. T \in SUBSET S /\ U \in SUBSET S
    BY <1>5, <1>7
  <2>3. T \intersect U = {}
    BY <1>7, <1>8, <1>9
  <2>4. Cardinality(U) = n
    <3>1. hi + 1 \in Int /\ hi + n \in Int /\ hi + 1 <= hi + n + 1
      BY <1>1, <1>2
    <3>2. Cardinality(U) = (hi + n) - (hi + 1) + 1
      BY <3>1, MultiplesCount
    <3> QED BY <1>1, <1>2, <3>2
  <2>5. MinOtm <= Cardinality(T) + n
    <3>1. Cardinality(T) \in Nat /\ n = Missing(T)
      BY <1>3, <2>1, FS_CardinalityType
    <3> HIDE DEF T
    <3> QED BY <1>2, <1>3, <2>1, <3>1, MissingIs
  <2> HIDE DEF S, T, U
  <2>6. MinOtm <= Cardinality(S)
    BY <1>3, <2>1, <2>2, <2>3, <2>4, <2>5, EnoughOf
  <2>7. Cardinality(S) \in Nat
    BY <2>1, FS_CardinalityType
  <2>8. Cardinality(S) >= MinOtm
    BY <1>3, <2>6, <2>7
  <2> QED BY <2>8 DEF S
<1>12. \A s \in strikes : s # Max(strikes) => s + width \in strikes
  <2> SUFFICES ASSUME NEW i \in (lo - m)..(hi + n), i * width # Max(strikes)
               PROVE  i * width + width \in strikes
    BY <1>2 DEF Multiples
  <2>1. Max(strikes) = (hi + n) * width
    <3>1. lo - m \in Int /\ hi + n \in Int /\ lo - m <= hi + n
      BY <1>1, <1>2
    <3> QED BY <1>2, <3>1, MultiplesEnds
  <2>2. i \in Int /\ i + 1 \in (lo - m)..(hi + n)
    BY <1>1, <1>2, <2>1
  <2>3. (i + 1) * width = i * width + width
    BY <2>2
  <2> QED BY <1>2, <2>2, <2>3 DEF Multiples
<1> QED BY <1>10, <1>11, <1>12 DEF strikes

\* What is listed at a moment is not pruned at that moment, and fills the calendar.
LEMMA CalendarHolds ==
    ASSUME NEW now \in Nat
    PROVE  /\ \A e \in Expiries(now) : ~Pruned(e, now) /\ e % Day = Eight
           /\ \E e \in Expiries(now) : e <= now + ShortCutoff + Day
           /\ \E e \in Expiries(now) : e > now + StandardCutoff
                                        /\ e <= now + StandardCutoff + 7 * Day
<1> DEFINE daily == Next0800(now + ShortCutoff)
           friday == NextFriday(now + ShortCutoff)
           weekly == NextFriday(now + StandardCutoff)
<1>0. /\ ShortCutoff \in Nat /\ StandardCutoff \in Nat
      /\ ShortCutoff <= StandardCutoff /\ StandardCutoff <= ShortTerm
  BY SheetAssumption
<1>1. /\ daily \in Nat /\ now + ShortCutoff < daily /\ daily <= now + ShortCutoff + Day
      /\ daily % Day = Eight
  BY <1>0, Next0800Is
<1>2. friday \in Nat /\ now + ShortCutoff < friday /\ friday % Day = Eight
  BY <1>0, NextFridayIs
<1>3. /\ weekly \in Nat /\ now + StandardCutoff < weekly
      /\ weekly <= now + StandardCutoff + 7 * Day /\ weekly % Day = Eight
  BY <1>0, NextFridayIs
<1>4. Expiries(now) = {daily, friday, weekly, weekly + 7 * Day}
  BY DEF Expiries
<1> HIDE DEF daily, friday, weekly
<1>5. \A e \in Nat : e > now + ShortCutoff => ~Pruned(e, now)
  BY <1>0 DEF Pruned, Cutoff, ShortTerm, Day
<1>6. \A e \in Expiries(now) : e \in Nat /\ e > now + ShortCutoff /\ e % Day = Eight
  BY <1>0, <1>1, <1>2, <1>3, <1>4 DEF Day, Eight
<1> QED BY <1>1, <1>3, <1>4, <1>5, <1>6

SheetVars == <<sheetVars, faults, restarts>>

SheetInv == moment \in Nat /\ spot \in Spots /\ strikeStep \in Steps

LEMMA SheetInvTrades == SheetInv => SheetIsTradable
<1> SUFFICES ASSUME SheetInv PROVE SheetIsTradable
  OBVIOUS
<1>1. moment \in Nat /\ spot \in Nat /\ strikeStep \in Nat \ {0}
  BY SheetAssumption DEF SheetInv
<1> QED BY <1>1, CalendarHolds, LadderHoldsPrice DEF SheetIsTradable

\* At every moment, for every spot price and strike step, the expiries of
\* get_expiries survive the pruning of the same moment and the strikes of
\* generate_strikes hold the spot between enough others without a gap - provided
\* the short cutoff is not longer than the standard one, nor that than 48 hours.
THEOREM SheetsAreTradable == SheetSpec => []SheetIsTradable
<1>1. SheetInit => SheetInv
  BY DEF SheetInit, SheetInv
<1>2. SheetInv /\ [Tick]_SheetVars => SheetInv'
  BY DEF SheetInv, Tick, SheetVars, sheetVars
<1> QED BY <1>1, <1>2, SheetInvTrades, PTL DEF SheetSpec, SheetVars
-----------------------------------------------------------------------------
(* All parts beside each other: what is proved of a part alone is what      *)
(* BotsSpec, the specification of the run, does of it.                       *)

LEMMA PartIsConstant == [BotsNext]_botsVars => UNCHANGED part
BY DEF BotsNext, Of, OthersStandStill, botsVars

SolanaVars == <<solanaPartVars, faults, restarts>>
YieldVars == <<yieldPartVars, faults, restarts>>

\* A step is one of the part whose behaviour it is, or leaves everything alone.
LEMMA OwnSteps ==
    ASSUME [BotsNext]_botsVars
    PROVE  /\ part = "sender"  => [TxNext]_txVars
           /\ part = "weekly"  => [WeeklyNext]_WeeklyVars
           /\ part = "stream"  => [StreamNext]_StreamVars
           /\ part = "solana"  => [SolanaNext]_SolanaVars
           /\ part = "yield"   => [YieldNext]_YieldVars
           /\ part = "sheet"   => [Tick]_SheetVars
           /\ part = "manager" => [ManagerNext]_ManagerVars
           /\ part = "intents" => [IntentsNext]_vars
<1>1. CASE UNCHANGED botsVars
  BY <1>1 DEF botsVars, txVars, WeeklyVars, StreamVars, SolanaVars, YieldVars, SheetVars,
     ManagerVars, vars
<1>2. CASE BotsNext
  BY <1>2 DEF BotsNext, Of
<1> QED BY <1>1, <1>2

\* What the other parts keep does not move.
LEMMA OthersSteps ==
    ASSUME [BotsNext]_botsVars
    PROVE  /\ part # "sender"  => UNCHANGED senderVars
           /\ part # "weekly"  => UNCHANGED weekVars
           /\ part # "stream"  => UNCHANGED streamVars
           /\ part # "solana"  => UNCHANGED solanaPartVars
           /\ part # "yield"   => UNCHANGED yieldPartVars
           /\ part # "sheet"   => UNCHANGED sheetVars
           /\ part # "manager" => UNCHANGED managerVars
           /\ part # "intents" => UNCHANGED intentVars
<1>1. CASE UNCHANGED botsVars
  BY <1>1 DEF botsVars
<1>2. CASE BotsNext
  BY <1>2 DEF BotsNext, Of, OthersStandStill
<1> QED BY <1>1, <1>2

LEMMA InitParts ==
    BotsInit =>
        /\ part \in Parts /\ TxInit /\ (WeeklyInit /\ ProcessInit) /\ (StreamInit /\ ProcessInit)
        /\ Initial /\ (YieldInit /\ AirdropInit /\ ProcessInit) /\ (SheetInit /\ ProcessInit)
        /\ (ManagerInit /\ ProcessInit) /\ (IntentsInit /\ ProcessInit)
BY DEF BotsInit, Initial

\* Whichever part runs, a behaviour of the bots is one of that part's own
\* specification: what is proved of the part alone holds of it in the process.
THEOREM PartsRunAlone ==
    BotsSpec =>
        /\ part = "sender"  => TxSpec
        /\ part = "weekly"  => WeeklySpec
        /\ part = "stream"  => StreamSpec
        /\ part = "solana"  => SolanaSpec
        /\ part = "yield"   => YieldSpec
        /\ part = "sheet"   => SheetSpec
        /\ part = "manager" => ManagerSpec
        /\ part = "intents" => IntentsSpec
<1>1. part = "sender" /\ BotsSpec => TxSpec
  <2>1. part = "sender" /\ [BotsNext]_botsVars => (part = "sender")' /\ [TxNext]_txVars
    BY PartIsConstant, OwnSteps
  <2> QED BY <2>1, InitParts, PTL DEF BotsSpec, TxSpec
<1>2. part = "weekly" /\ BotsSpec => WeeklySpec
  <2>1. part = "weekly" /\ [BotsNext]_botsVars => (part = "weekly")' /\ [WeeklyNext]_WeeklyVars
    BY PartIsConstant, OwnSteps
  <2> QED BY <2>1, InitParts, PTL DEF BotsSpec, WeeklySpec, WeeklyVars
<1>3. part = "stream" /\ BotsSpec => StreamSpec
  <2>1. part = "stream" /\ [BotsNext]_botsVars => (part = "stream")' /\ [StreamNext]_StreamVars
    BY PartIsConstant, OwnSteps
  <2> QED BY <2>1, InitParts, PTL DEF BotsSpec, StreamSpec, StreamVars
<1>4. part = "solana" /\ BotsSpec => SolanaSpec
  <2>1. part = "solana" /\ [BotsNext]_botsVars => (part = "solana")' /\ [SolanaNext]_SolanaVars
    BY PartIsConstant, OwnSteps
  <2> QED BY <2>1, InitParts, PTL DEF BotsSpec, SolanaSpec, SolanaVars, Initial
<1>5. part = "yield" /\ BotsSpec => YieldSpec
  <2>1. part = "yield" /\ [BotsNext]_botsVars => (part = "yield")' /\ [YieldNext]_YieldVars
    BY PartIsConstant, OwnSteps
  <2> QED BY <2>1, InitParts, PTL DEF BotsSpec, YieldSpec, YieldVars
<1>6. part = "sheet" /\ BotsSpec => SheetSpec
  <2>1. part = "sheet" /\ [BotsNext]_botsVars => (part = "sheet")' /\ [Tick]_SheetVars
    BY PartIsConstant, OwnSteps
  <2> QED BY <2>1, InitParts, PTL DEF BotsSpec, SheetSpec, SheetVars
<1>7. part = "manager" /\ BotsSpec => ManagerSpec
  <2>1. part = "manager" /\ [BotsNext]_botsVars => (part = "manager")' /\ [ManagerNext]_ManagerVars
    BY PartIsConstant, OwnSteps
  <2> QED BY <2>1, InitParts, PTL DEF BotsSpec, ManagerSpec, ManagerVars
<1>8. part = "intents" /\ BotsSpec => IntentsSpec
  <2>1. part = "intents" /\ [BotsNext]_botsVars => (part = "intents")' /\ [IntentsNext]_vars
    BY PartIsConstant, OwnSteps
  <2> QED BY <2>1, InitParts, PTL DEF BotsSpec, IntentsSpec, vars
<1> QED BY <1>1, <1>2, <1>3, <1>4, <1>5, <1>6, <1>7, <1>8, PTL

LEMMA SenderStandsStill == UNCHANGED senderVars /\ ProcessTypeOK' /\ TxTypeOK => TxTypeOK'
BY DEF senderVars, TxTypeOK

LEMMA TotalsStandStill == UNCHANGED weekVars /\ ProcessTypeOK' /\ WeeklyTypeOK => WeeklyTypeOK'
BY DEF weekVars, WeeklyTypeOK

LEMMA StreamStandsStill == UNCHANGED streamVars /\ ProcessTypeOK' /\ StreamTypes => StreamTypes'
BY DEF streamVars, StreamTypes, StreamTypeOK, Arrived, InUse

LEMMA SolanaStandsStill ==
    UNCHANGED solanaPartVars /\ ProcessTypeOK' /\ SolanaTypeInv => SolanaTypeInv'
BY DEF solanaPartVars, settlerVars, indexerVars, SolanaTypeInv, SolanaTypeOK,
   SolanaIndexerTypeOK, WorkInv, PositionsAtWork, Upto

LEMMA YieldStandsStill ==
    UNCHANGED yieldPartVars /\ ProcessTypeOK' /\ YieldTypeInv => YieldTypeInv'
<1> SUFFICES ASSUME UNCHANGED yieldPartVars, ProcessTypeOK', YieldTypeInv PROVE YieldTypeInv'
  OBVIOUS
<1>1. UNCHANGED <<yieldVars, drop, airdrops, allocations, delivered, transfers, shares>>
  BY DEF yieldPartVars, airdropVars
<1>2. IndexTypes' /\ Height' = Height /\ blocks' = blocks
  BY <1>1, Untouched DEF yieldVars
<1>3. RunTypes' /\ DropTypes'
  BY <1>1, <1>2 DEF YieldTypeInv, RunTypes, DropTypes
<1> QED BY <1>2, <1>3 DEF YieldTypeInv

LEMMA ManagerStandsStill == UNCHANGED managerVars /\ ProcessTypeOK' /\ ManagerAll => ManagerAll'
<1>1. UNCHANGED managerVars => ReconcileEvery' = ReconcileEvery
  BY DEF managerVars, ReconcileEvery
<1> QED BY <1>1 DEF managerVars, ManagerAll, ManagerTypeOK

LEMMA IntentsStandStill == UNCHANGED intentVars /\ ProcessTypeOK' /\ IntentTypeInv => IntentTypeInv'
BY DEF intentVars, IntentTypeInv, IntentsTypeOK, HandlerBusy, SyncBusy, Linked

\* Every part keeps its own inductive type invariant.
PartsInv ==
    /\ part \in Parts /\ ProcessTypeOK
    /\ TxTypeOK /\ WeeklyTypeOK /\ StreamTypes /\ SolanaTypeInv /\ YieldTypeInv /\ ManagerAll
    /\ IntentTypeInv
    /\ part = "weekly" => TotalsInv

\* The state of every part is as declared in every state of the bots, and the
\* bounds on faults and restarts that they share are kept by all.
THEOREM BotsTypeCorrect == BotsSpec => []BotsTypeOK
<1>1. BotsInit => PartsInv
  <2>1. BotsInit => ProcessTypeOK
    BY ProcessAssumption DEF BotsInit, ProcessInit, ProcessTypeOK
  <2> QED BY <2>1, InitParts, SenderInitTypes, InitTotals, InitStreamTypes, SolanaInitTypes,
          InitYieldTypes, InitManager, IntentInitTypes DEF PartsInv, TotalsInv
<1>2. PartsInv /\ [BotsNext]_botsVars => PartsInv'
  <2> SUFFICES ASSUME PartsInv, [BotsNext]_botsVars PROVE PartsInv'
    OBVIOUS
  <2>1. part' = part /\ part \in Parts
    BY PartIsConstant DEF PartsInv
  <2>2. part = "sender" => TxTypeOK' /\ ProcessTypeOK'
    BY OwnSteps, SenderNextTypes DEF PartsInv, TxTypeOK
  <2>3. part = "weekly" => TotalsInv' /\ ProcessTypeOK'
    BY OwnSteps, NextTotals DEF PartsInv, TotalsInv, WeeklyTypeOK
  <2>4. part = "stream" => StreamTypes' /\ ProcessTypeOK'
    BY OwnSteps, NextStreamTypes DEF PartsInv, StreamTypes
  <2>5. part = "solana" => SolanaTypeInv' /\ ProcessTypeOK'
    BY OwnSteps, SolanaNextTypes DEF PartsInv, SolanaTypeInv, SolanaTypeOK, SolanaVars
  <2>6. part = "yield" => YieldTypeInv' /\ ProcessTypeOK'
    BY OwnSteps, NextYieldTypes DEF PartsInv, YieldTypeInv, RunTypes, YieldVars
  <2>7. part = "sheet" => ProcessTypeOK'
    <3>1. part = "sheet" => UNCHANGED <<faults, restarts>>
      BY OwnSteps DEF Tick, SheetVars
    <3> QED BY <3>1 DEF PartsInv, ProcessTypeOK
  <2>8. part = "manager" => ManagerAll' /\ ProcessTypeOK'
    BY OwnSteps, NextManager DEF PartsInv, ManagerAll
  <2>9. part = "intents" => IntentTypeInv' /\ ProcessTypeOK'
    BY OwnSteps, TypeStep DEF PartsInv, IntentTypeInv, IntentsTypeOK
  <2>10. ProcessTypeOK'
    BY <2>1, <2>2, <2>3, <2>4, <2>5, <2>6, <2>7, <2>8, <2>9 DEF Parts
  <2>11. TxTypeOK' /\ WeeklyTypeOK' /\ StreamTypes' /\ SolanaTypeInv'
    BY <2>2, <2>3, <2>4, <2>5, <2>10, OthersSteps, SenderStandsStill, TotalsStandStill,
       StreamStandsStill, SolanaStandsStill DEF PartsInv, TotalsInv
  <2>12. YieldTypeInv' /\ ManagerAll' /\ IntentTypeInv'
    BY <2>6, <2>8, <2>9, <2>10, OthersSteps, YieldStandsStill, ManagerStandsStill,
       IntentsStandStill DEF PartsInv
  <2> QED BY <2>1, <2>3, <2>10, <2>11, <2>12 DEF PartsInv
<1>3. PartsInv => BotsTypeOK
  BY DEF PartsInv, BotsTypeOK, StreamTypes, SolanaTypeInv, YieldTypeInv, RunTypes,
     IndexTypes, AirdropTypeOK, ManagerAll, IntentTypeInv
<1> QED BY <1>1, <1>2, <1>3, PTL DEF BotsSpec

\* What a part is like before it runs, as far as its properties see.
SenderRests ==
    /\ \A c \in Calls : call[c].at = "idle" /\ ran[c] = 0
    /\ \A n \in Nonces : pool[n] = None

WeeklyRests == reports = {} /\ \A u \in Users : \A w \in Weeks : results[u][w] = None

StreamRests == \A s \in Sockets : socket[s] = "new"

SolanaRests ==
    /\ cursor = 0 /\ dayStart = 0
    /\ \A p \in SolanaPositions : chain.deliveries[p] = 0 /\ doubts[p] = 0

YieldRests ==
    /\ indexed = 0 /\ delivered = {}
    /\ \A b \in Harvests : shares[b] = None /\ \A v \in Vaults : transfers[b][v] = 0

ManagerRests == listed \subseteq disturbed /\ \A o \in Options : stale[o] = 0

IntentsRest == \A i \in Intents : jobs[i] = None

PartsRest ==
    /\ part # "sender"  => SenderRests
    /\ part # "weekly"  => WeeklyRests
    /\ part # "stream"  => StreamRests
    /\ part # "solana"  => SolanaRests
    /\ part # "yield"   => YieldRests
    /\ part # "manager" => ManagerRests
    /\ part # "intents" => IntentsRest

LEMMA PartsBeginAtRest == BotsInit => PartsRest
<1> SUFFICES ASSUME BotsInit PROVE PartsRest
  OBVIOUS
<1>1. SenderRests
  BY InitParts DEF TxInit, NewCall, SenderRests
<1>2. WeeklyRests
  BY InitParts DEF WeeklyInit, WeeklyRests
<1>3. StreamRests
  BY InitParts DEF StreamInit, StreamRests
<1>4. SolanaRests
  BY InitParts DEF Initial, SolanaInit, SolanaIndexerInit, SolanaRests
<1>5. YieldRests
  BY InitParts DEF YieldInit, AirdropInit, YieldRests
<1>6. ManagerRests
  BY InitParts DEF ManagerInit, ManagerRests
<1>7. IntentsRest
  BY InitParts DEF IntentsInit, IntentsRest
<1> QED BY <1>1, <1>2, <1>3, <1>4, <1>5, <1>6, <1>7 DEF PartsRest

LEMMA PartsStayAtRest == PartsRest /\ [BotsNext]_botsVars => PartsRest'
<1> SUFFICES ASSUME PartsRest, [BotsNext]_botsVars PROVE PartsRest'
  OBVIOUS
<1>0. part' = part
  BY PartIsConstant
<1>1. part # "sender" => SenderRests'
  BY OthersSteps DEF PartsRest, SenderRests, senderVars
<1>2. part # "weekly" => WeeklyRests'
  BY OthersSteps DEF PartsRest, WeeklyRests, weekVars
<1>3. part # "stream" => StreamRests'
  BY OthersSteps DEF PartsRest, StreamRests, streamVars
<1>4. part # "solana" => SolanaRests'
  BY OthersSteps DEF PartsRest, SolanaRests, solanaPartVars, indexerVars
<1>5. part # "yield" => YieldRests'
  BY OthersSteps DEF PartsRest, YieldRests, yieldPartVars, yieldVars, airdropVars
<1>6. part # "manager" => ManagerRests'
  BY OthersSteps DEF PartsRest, ManagerRests, managerVars
<1>7. part # "intents" => IntentsRest'
  BY OthersSteps DEF PartsRest, IntentsRest, intentVars
<1> QED BY <1>0, <1>1, <1>2, <1>3, <1>4, <1>5, <1>6, <1>7 DEF PartsRest

LEMMA SheetStays == SheetInv /\ [BotsNext]_botsVars => SheetInv'
<1> SUFFICES ASSUME SheetInv, [BotsNext]_botsVars PROVE SheetInv'
  OBVIOUS
<1>1. part = "sheet" => [Tick]_SheetVars
  BY OwnSteps
<1>2. part # "sheet" => UNCHANGED sheetVars
  BY OthersSteps
<1> QED BY <1>1, <1>2 DEF SheetInv, Tick, SheetVars, sheetVars

\* At rest, a part has all its properties, whatever the others do to the shared
\* counters of faults and restarts.
LEMMA RestIsSafe ==
    /\ SenderRests => TakesEffectOnce /\ NoncesInOrder
    /\ WeeklyRests => TotalsAreSums
    /\ StreamRests => FillsReachAll
    /\ SolanaRests => RedeliveryNeedsDoubt /\ NoSolanaFillSkipped
    /\ YieldRests => YieldBehindCursor /\ PaidOnce /\ PeriodsDoNotOverlap /\ HarvestsShared
    /\ ManagerRests => ListedIsUsable
    /\ IntentsRest => IntentsFollowJobs
<1>1. SenderRests => TakesEffectOnce /\ NoncesInOrder
  BY DEF SenderRests, TakesEffectOnce, NoncesInOrder
<1>2. WeeklyRests => TotalsAreSums
  BY DEF WeeklyRests, TotalsAreSums, RowsOf
<1>3. StreamRests => FillsReachAll
  BY DEF StreamRests, FillsReachAll
<1>4. SolanaRests => RedeliveryNeedsDoubt /\ NoSolanaFillSkipped
  <2>1. SolanaRests => RedeliveryNeedsDoubt
    BY DEF SolanaRests, RedeliveryNeedsDoubt
  <2>2. ASSUME SolanaRests, NEW p \in Upto(cursor), p > dayStart PROVE FALSE
    <3>1. p \in Nat /\ p <= 0 /\ p > 0
      BY <2>2, SolanaFillsAssumption, FS_CardinalityType, SolanaAssumption DEF Upto, SolanaRests
    <3> QED BY <3>1
  <2> QED BY <2>1, <2>2 DEF NoSolanaFillSkipped
<1>5. YieldRests => YieldBehindCursor /\ PaidOnce /\ PeriodsDoNotOverlap /\ HarvestsShared
  BY DEF YieldRests, YieldBehindCursor, PaidOnce, PeriodsDoNotOverlap, HarvestsShared
<1>6. ManagerRests => ListedIsUsable
  BY DEF ManagerRests, ListedIsUsable, ReconcileEvery
<1>7. IntentsRest => IntentsFollowJobs
  BY DEF IntentsRest, IntentsFollowJobs
<1> QED BY <1>1, <1>2, <1>3, <1>4, <1>5, <1>6, <1>7

\* Every invariant of the run holds in every state of the bots, for every size of
\* every part: the part that runs keeps its own, and nobody disturbs the rest.
THEOREM BotsKeepTheirInvariants ==
    BotsSpec => [](/\ TakesEffectOnce /\ NoncesInOrder
                   /\ TotalsAreSums /\ FillsReachAll
                   /\ RedeliveryNeedsDoubt /\ NoSolanaFillSkipped
                   /\ YieldBehindCursor /\ PaidOnce /\ PeriodsDoNotOverlap /\ HarvestsShared
                   /\ SheetIsTradable /\ ListedIsUsable /\ IntentsFollowJobs)
<1>1. BotsSpec => []PartsRest
  BY PartsBeginAtRest, PartsStayAtRest, PTL DEF BotsSpec
<1>2. BotsSpec => [](TakesEffectOnce /\ NoncesInOrder)
  <2>1. [BotsNext]_botsVars => (part = "sender" <=> (part = "sender")')
    BY PartIsConstant
  <2>2. PartsRest /\ ~(part = "sender") => TakesEffectOnce /\ NoncesInOrder
    BY RestIsSafe DEF PartsRest
  <2>3. BotsSpec /\ part = "sender" => []TakesEffectOnce /\ []NoncesInOrder
    BY PartsRunAlone, EffectsHappenOnce, NoncesAreInOrder
  <2> QED BY <1>1, <2>1, <2>2, <2>3, PTL DEF BotsSpec
<1>3. BotsSpec => []TotalsAreSums
  <2>1. [BotsNext]_botsVars => (part = "weekly" <=> (part = "weekly")')
    BY PartIsConstant
  <2>2. PartsRest /\ ~(part = "weekly") => TotalsAreSums
    BY RestIsSafe DEF PartsRest
  <2> QED BY <1>1, <2>1, <2>2, PartsRunAlone, RunningTotals, PTL DEF BotsSpec
<1>4. BotsSpec => []FillsReachAll
  <2>1. [BotsNext]_botsVars => (part = "stream" <=> (part = "stream")')
    BY PartIsConstant
  <2>2. PartsRest /\ ~(part = "stream") => FillsReachAll
    BY RestIsSafe DEF PartsRest
  <2> QED BY <1>1, <2>1, <2>2, PartsRunAlone, FillsReachTheConnected, PTL DEF BotsSpec
<1>5. BotsSpec => [](RedeliveryNeedsDoubt /\ NoSolanaFillSkipped)
  <2>1. [BotsNext]_botsVars => (part = "solana" <=> (part = "solana")')
    BY PartIsConstant
  <2>2. PartsRest /\ ~(part = "solana") => RedeliveryNeedsDoubt /\ NoSolanaFillSkipped
    BY RestIsSafe DEF PartsRest
  <2> QED BY <1>1, <2>1, <2>2, PartsRunAlone, DoubtsBoundDeliveries, NoFillIsSkipped, PTL
          DEF BotsSpec
<1>6. BotsSpec => [](YieldBehindCursor /\ PaidOnce /\ PeriodsDoNotOverlap /\ HarvestsShared)
  <2>1. [BotsNext]_botsVars => (part = "yield" <=> (part = "yield")')
    BY PartIsConstant
  <2>2. PartsRest /\ ~(part = "yield")
          => YieldBehindCursor /\ PaidOnce /\ PeriodsDoNotOverlap /\ HarvestsShared
    BY RestIsSafe DEF PartsRest
  <2> QED BY <1>1, <2>1, <2>2, PartsRunAlone, NothingSkipped, SharesPaidOnce, PeriodsApart,
          HarvestsAddUp, PTL DEF BotsSpec
<1>7. BotsSpec => []SheetIsTradable
  <2>1. BotsInit => SheetInv
    BY InitParts DEF SheetInit, SheetInv
  <2> QED BY <2>1, SheetStays, SheetInvTrades, PTL DEF BotsSpec
<1>8. BotsSpec => []ListedIsUsable
  <2>1. [BotsNext]_botsVars => (part = "manager" <=> (part = "manager")')
    BY PartIsConstant
  <2>2. PartsRest /\ ~(part = "manager") => ListedIsUsable
    BY RestIsSafe DEF PartsRest
  <2> QED BY <1>1, <2>1, <2>2, PartsRunAlone, ListingsAreUsable, PTL DEF BotsSpec
<1>9. BotsSpec => []IntentsFollowJobs
  <2>1. [BotsNext]_botsVars => (part = "intents" <=> (part = "intents")')
    BY PartIsConstant
  <2>2. PartsRest /\ ~(part = "intents") => IntentsFollowJobs
    BY RestIsSafe DEF PartsRest
  <2> QED BY <1>1, <2>1, <2>2, PartsRunAlone, IntentsStayInStep, PTL DEF BotsSpec
<1> QED BY <1>2, <1>3, <1>4, <1>5, <1>6, <1>7, <1>8, <1>9, PTL

\* The bots as the run has them keep the promise of PositionSettlement for Solana
\* positions: the settler's steps are steps of it, all others stutter.
THEOREM BotsKeepPromise == BotsSpec => SolanaKeepsPromise
<1>1. [BotsNext]_botsVars => (part = "solana" <=> (part = "solana")')
  BY PartIsConstant
<1>2. ~(part = "solana") /\ [BotsNext]_botsVars => [Promise!Next]_Promise!vars
  BY OthersSteps DEF solanaPartVars, OracleOutcome, RowsSay, Promise!vars
<1>3. BotsInit => Promise!Init
  BY InitParts, InitPromise
<1> QED BY <1>1, <1>2, <1>3, PartsRunAlone, ImplementsSettlement, PTL
        DEF BotsSpec, SolanaKeepsPromise, Promise!Spec
=============================================================================
