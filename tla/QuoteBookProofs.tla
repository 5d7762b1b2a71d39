-------------------------- MODULE QuoteBookProofs --------------------------
(***************************************************************************)
(* Theorems about quotes, menu and circuit breaker for every set of assets, *)
(* quotes and makers, every price scale and every bound.                   *)
(***************************************************************************)
EXTENDS QuoteBook, TLAPS

-----------------------------------------------------------------------------
(* Type correctness.  A trip of the bot has an asset and the price it saw,  *)
(* and every transaction that may still land is one that failed.            *)

Tripping == bot.step \in {"send", "withdraw"} => bot.asset \in Assets /\ bot.seen \in Levels

SentFailed == sent <= faults

TypeInv == TypeOK /\ Tripping /\ SentFailed

LEMMA InitTypes == Init => TypeInv
<1> SUFFICES ASSUME Init PROVE TypeInv
  OBVIOUS
<1>1. TypeOK
  BY QuotesAssumption, QuotesBoundsAssumption DEF Init, TypeOK, BotAt, HttpIdle
<1>2. Tripping /\ SentFailed
  BY DEF Init, Tripping, SentFailed, BotAt
<1> QED BY <1>1, <1>2 DEF TypeInv

LEMMA FaultTypes ==
    TypeOK /\ (Fault \/ UNCHANGED faults) => faults' \in 0..MaxFaults /\ faults <= faults'
BY QuotesBoundsAssumption DEF TypeOK, Fault

\* The breaker's own operations keep a reference level and a flag per asset.
LEMMA BreakerTypes ==
    ASSUME TypeOK, NEW a \in Assets, NEW level \in Levels,
           UpdateReference(a, level) \/ Trip(a) \/ UNCHANGED breaker
    PROVE  ref' \in [Assets -> Levels \union {None}] /\ paused' \in [Assets -> BOOLEAN]
<1>1. ref \in [Assets -> Levels \union {None}] /\ paused \in [Assets -> BOOLEAN]
  BY DEF TypeOK
<1>2. ref' = [ref EXCEPT ![a] = level] \/ ref' = ref
  BY DEF UpdateReference, Trip, breaker
<1>3. \/ paused' = [paused EXCEPT ![a] = TRUE]
      \/ paused' = [paused EXCEPT ![a] = FALSE]
      \/ paused' = paused
  BY DEF UpdateReference, Trip, breaker
<1>4. ref' \in [Assets -> Levels \union {None}]
  BY <1>1, <1>2
<1>5. paused' \in [Assets -> BOOLEAN]
  BY <1>1, <1>3
<1> QED BY <1>4, <1>5

\* A call on mm_quotes leaves some rows active, whether it raises or not.
LEMMA ActiveTypes ==
    ASSUME TypeOK, NEW rest \in SUBSET Quotes, SetActive(rest) \/ FaultyActive(rest)
    PROVE  active' \in {active, rest} /\ active' \subseteq Quotes /\ (Fault \/ UNCHANGED faults)
BY DEF TypeOK, SetActive, FaultyActive

LEMMA BotTypes ==
    ASSUME TypeInv, StartCheck \/ EndCheck
    PROVE  TypeInv'
BY DEF TypeInv, TypeOK, Tripping, SentFailed, StartCheck, EndCheck, BotAt, bounds, breaker,
       rows, chain, menu

LEMMA CheckAssetTypes ==
    ASSUME TypeInv, NEW a \in Assets, CheckAsset(a)
    PROVE  TypeInv'
<1>1. price[a] \in Levels
  BY DEF TypeInv, TypeOK
<1>2. /\ UpdateReference(a, price[a]) \/ Trip(a) \/ UNCHANGED breaker
      /\ Fault \/ UNCHANGED faults
      /\ toCheck' \subseteq toCheck
      /\ bot' = bot \/ bot' = [step |-> "send", asset |-> a, seen |-> price[a]]
  BY DEF CheckAsset, MustSend
<1>3. UNCHANGED <<platform, price, moves, active, signed, nonce, sent, http, cache, age, gone,
                restarts>>
  BY DEF CheckAsset, rows, chain, menu
<1>4. ref' \in [Assets -> Levels \union {None}] /\ paused' \in [Assets -> BOOLEAN]
  BY <1>1, <1>2, BreakerTypes DEF TypeInv
<1>5. faults' \in 0..MaxFaults /\ faults <= faults'
  BY <1>2, FaultTypes DEF TypeInv
<1>6. bot' \in [step : {"idle", "check", "send", "withdraw"},
                asset : Assets \union {None}, seen : Levels \union {None}] /\ Tripping'
  BY <1>1, <1>2 DEF TypeInv, TypeOK, Tripping
<1>7. TypeOK'
  BY <1>2, <1>3, <1>4, <1>5, <1>6 DEF TypeInv, TypeOK
<1>8. SentFailed'
  BY <1>3, <1>5, QuotesBoundsAssumption DEF TypeInv, TypeOK, SentFailed
<1> QED BY <1>6, <1>7, <1>8 DEF TypeInv

\* The chain's makerNonce only grows, so what carries an old one stays typed.
LEMMA NonceTypes ==
    ASSUME TypeOK, nonce' \in {nonce, nonce + 1}, UNCHANGED <<signed, http>>
    PROVE  /\ nonce' \in Nat
           /\ signed' \in [Quotes -> 0..nonce']
           /\ http' \in [step : {"idle", "replace", "upsert"}, batch : SUBSET Quotes,
                         nonce : 0..nonce']
<1>1. nonce \in Nat /\ nonce' \in Nat /\ 0..nonce \subseteq 0..nonce'
  BY DEF TypeOK
<1>2. signed' \in [Quotes -> 0..nonce']
  BY <1>1 DEF TypeOK
<1>3. http' \in [step : {"idle", "replace", "upsert"}, batch : SUBSET Quotes,
                 nonce : 0..nonce']
  BY <1>1 DEF TypeOK
<1> QED BY <1>1, <1>2, <1>3

LEMMA SendIncrementTypes ==
    ASSUME TypeInv, SendIncrement
    PROVE  TypeInv'
<1>1. UNCHANGED <<platform, price, moves, ref, paused, active, signed, http, cache, age, gone,
                restarts>>
  BY DEF SendIncrement, breaker, rows, menu
<1>2. nonce' \in {nonce, nonce + 1} /\ toCheck' \subseteq toCheck
  BY DEF SendIncrement
<1>3. sent' \in 0..MaxFaults /\ faults' \in 0..MaxFaults /\ sent' <= faults'
  BY QuotesBoundsAssumption DEF SendIncrement, TypeInv, TypeOK, SentFailed, Fault
<1>4. \/ bot' = BotAt("idle")
      \/ bot' = [bot EXCEPT !.step = "withdraw"] /\ bot.step = "send"
  BY DEF SendIncrement
<1>5. bot' \in [step : {"idle", "check", "send", "withdraw"},
                asset : Assets \union {None}, seen : Levels \union {None}] /\ Tripping'
  BY <1>4 DEF TypeInv, TypeOK, Tripping, BotAt
<1>6. TypeOK'
  BY <1>1, <1>2, <1>3, <1>5, NonceTypes DEF TypeInv, TypeOK
<1> QED BY <1>3, <1>5, <1>6 DEF TypeInv, SentFailed

LEMMA WithdrawTypes ==
    ASSUME TypeInv, Withdraw
    PROVE  TypeInv'
<1>1. bot.asset \in Assets /\ bot.seen \in Levels
  BY DEF TypeInv, Tripping, Withdraw
<1>2. active' \subseteq Quotes /\ (Fault \/ UNCHANGED faults)
  BY ActiveTypes DEF Withdraw, LeftActive, TypeInv
<1>3. ref' \in [Assets -> Levels \union {None}] /\ paused' \in [Assets -> BOOLEAN]
  BY <1>1, BreakerTypes DEF Withdraw, TypeInv
<1>4. faults' \in 0..MaxFaults /\ faults <= faults'
  BY <1>2, FaultTypes DEF TypeInv
<1>5. TypeOK'
  BY <1>2, <1>3, <1>4 DEF Withdraw, TypeInv, TypeOK, BotAt, chain, menu
<1>6. Tripping' /\ SentFailed'
  BY <1>4, QuotesBoundsAssumption DEF Withdraw, TypeInv, TypeOK, Tripping, SentFailed, BotAt, chain
<1> QED BY <1>5, <1>6 DEF TypeInv

LEMMA WithdrawRaisesTypes ==
    ASSUME TypeInv, WithdrawRaises
    PROVE  TypeInv'
<1>1. active' \subseteq Quotes /\ (Fault \/ UNCHANGED faults)
  BY ActiveTypes DEF WithdrawRaises, LeftActive, TypeInv
<1>2. faults' \in 0..MaxFaults /\ faults <= faults'
  BY <1>1, FaultTypes DEF TypeInv
<1>3. TypeOK'
  BY <1>1, <1>2 DEF WithdrawRaises, TypeInv, TypeOK, BotAt, breaker, chain, menu
<1>4. Tripping' /\ SentFailed'
  BY <1>2, QuotesBoundsAssumption
     DEF WithdrawRaises, TypeInv, TypeOK, Tripping, SentFailed, BotAt, chain
<1> QED BY <1>3, <1>4 DEF TypeInv

\* The handlers of POST and DELETE /mm/quotes.
Quoting(m) ==
    \/ ReplaceQuotes \/ UpsertQuotes \/ CancelQuotes(m)
    \/ \E batch \in SUBSET Quotes : SubmitQuotes(m, batch)

LEMMA QuotingTypes ==
    ASSUME TypeInv, NEW m \in Makers, Quoting(m)
    PROVE  TypeInv'
<1>1. UNCHANGED <<platform, price, moves, ref, paused, nonce, sent, bot, toCheck, cache, age,
                restarts>>
  BY DEF Quoting, ReplaceQuotes, UpsertQuotes, CancelQuotes, SubmitQuotes, breaker, chain,
     botVars, menu, bounds
<1>2. nonce \in Nat /\ http \in [step : {"idle", "replace", "upsert"}, batch : SUBSET Quotes,
                                 nonce : 0..nonce]
  BY DEF TypeInv, TypeOK
<1>3. http' \in [step : {"idle", "replace", "upsert"}, batch : SUBSET Quotes, nonce : 0..nonce]
  <2>1. HttpIdle \in [step : {"idle", "replace", "upsert"}, batch : SUBSET Quotes,
                      nonce : 0..nonce]
    BY <1>2 DEF HttpIdle
  <2>2. CASE \E batch \in SUBSET Quotes : SubmitQuotes(m, batch)
    BY <1>2, <2>2 DEF SubmitQuotes, AcceptedNonce
  <2>3. CASE ReplaceQuotes
    BY <1>2, <2>1, <2>3 DEF ReplaceQuotes
  <2>4. CASE UpsertQuotes \/ CancelQuotes(m)
    BY <1>2, <2>1, <2>4 DEF UpsertQuotes, CancelQuotes
  <2> QED BY <2>2, <2>3, <2>4 DEF Quoting
<1>4. active' \subseteq Quotes /\ (Fault \/ UNCHANGED faults)
  <2>1. CASE ReplaceQuotes
    BY <2>1, ActiveTypes DEF ReplaceQuotes, TypeInv, TypeOK
  <2>2. CASE UpsertQuotes
    BY <1>2, <2>2 DEF UpsertQuotes, rows, TypeInv, TypeOK
  <2>3. CASE CancelQuotes(m)
    BY <2>3, ActiveTypes DEF CancelQuotes, TypeInv, TypeOK
  <2>4. CASE \E batch \in SUBSET Quotes : SubmitQuotes(m, batch)
    BY <2>4 DEF SubmitQuotes, rows, bounds, TypeInv, TypeOK
  <2> QED BY <2>1, <2>2, <2>3, <2>4 DEF Quoting
<1>5. signed' \in [Quotes -> 0..nonce] /\ gone' \in [Quotes -> 0..PricesTTL]
  <2>1. CASE UpsertQuotes
    BY <1>2, <2>1, QuotesBoundsAssumption DEF UpsertQuotes, rows, TypeInv, TypeOK
  <2>2. CASE ~UpsertQuotes
    BY <2>2 DEF Quoting, ReplaceQuotes, CancelQuotes, SubmitQuotes, rows, TypeInv, TypeOK
  <2> QED BY <2>1, <2>2
<1>6. faults' \in 0..MaxFaults /\ faults <= faults'
  BY <1>4, FaultTypes DEF TypeInv
<1>7. TypeOK'
  BY <1>1, <1>3, <1>4, <1>5, <1>6 DEF TypeInv, TypeOK
<1>8. Tripping' /\ SentFailed'
  BY <1>1, <1>6, QuotesBoundsAssumption DEF TypeInv, TypeOK, Tripping, SentFailed
<1> QED BY <1>7, <1>8 DEF TypeInv

LEMMA GetPricesTypes ==
    ASSUME TypeInv, NEW a \in Assets, GetPrices(a)
    PROVE  TypeInv'
<1>1. UNCHANGED <<platform, price, moves, active, signed, nonce, sent, bot, toCheck, http, gone,
                restarts>>
  BY DEF GetPrices, rows, chain, botVars
<1>2. /\ UpdateReference(a, price[a]) \/ Trip(a) \/ UNCHANGED breaker
      /\ ServeFresh(a) \/ UNCHANGED menu
      /\ Fault \/ UNCHANGED faults
  BY DEF GetPrices, ServeCached
<1>3. price[a] \in Levels
  BY DEF TypeInv, TypeOK
<1>4. ref' \in [Assets -> Levels \union {None}] /\ paused' \in [Assets -> BOOLEAN]
  BY <1>2, <1>3, BreakerTypes DEF TypeInv
<1>5. cache' \in [Assets -> SUBSET Quotes] /\ age' \in [Assets -> 0..PricesTTL]
  <2>1. CASE ServeFresh(a)
    <3>1. \A s \in Menus(a) : s \in SUBSET Quotes
      BY DEF Menus, TypeInv, TypeOK
    <3> QED BY <2>1, <3>1, QuotesBoundsAssumption DEF ServeFresh, TypeInv, TypeOK
  <2>2. CASE UNCHANGED menu
    BY <2>2 DEF menu, TypeInv, TypeOK
  <2> QED BY <1>2, <2>1, <2>2
<1>6. faults' \in 0..MaxFaults /\ faults <= faults'
  BY <1>2, FaultTypes DEF TypeInv
<1>7. TypeOK'
  BY <1>1, <1>4, <1>5, <1>6 DEF TypeInv, TypeOK
<1>8. Tripping' /\ SentFailed'
  BY <1>1, <1>6, QuotesBoundsAssumption DEF TypeInv, TypeOK, Tripping, SentFailed
<1> QED BY <1>7, <1>8 DEF TypeInv

LEMMA CrashTypes ==
    ASSUME TypeInv, Crash
    PROVE  TypeInv'
<1>1. UNCHANGED <<platform, price, moves, active, signed, nonce, sent, gone, faults>>
  BY DEF Crash, rows, chain
<1>2. /\ ref' \in [Assets -> Levels \union {None}] /\ paused' \in [Assets -> BOOLEAN]
      /\ cache' \in [Assets -> SUBSET Quotes] /\ age' \in [Assets -> 0..PricesTTL]
      /\ bot' = BotAt("idle") /\ toCheck' = {} /\ http' = HttpIdle
      /\ restarts' \in 0..MaxRestarts
  BY QuotesBoundsAssumption DEF Crash, TypeInv, TypeOK
<1>3. TypeOK'
  BY <1>1, <1>2 DEF TypeInv, TypeOK, BotAt, HttpIdle
<1>4. Tripping' /\ SentFailed'
  BY <1>1, <1>2 DEF TypeInv, Tripping, SentFailed, BotAt
<1> QED BY <1>3, <1>4 DEF TypeInv

LEMMA WorldTypes ==
    ASSUME TypeInv, World
    PROVE  TypeInv'
<1>1. CASE LandIncrement
  <2>1. UNCHANGED <<platform, price, moves, ref, paused, active, signed, bot, toCheck, http,
                    cache, age,
                    gone, faults, restarts>>
    BY <1>1 DEF LandIncrement, breaker, rows, botVars, menu, bounds
  <2>2. nonce' = nonce + 1 /\ sent' \in 0..MaxFaults /\ sent' <= faults
    BY <1>1, QuotesBoundsAssumption DEF LandIncrement, TypeInv, TypeOK, SentFailed
  <2> QED BY <2>1, <2>2, NonceTypes DEF TypeInv, TypeOK, Tripping, SentFailed
<1>2. CASE \E a \in Assets : Move(a)
  <2>1. price' \in [Assets -> Levels] /\ moves' \in 0..MaxMoves
    BY <1>2, QuotesBoundsAssumption DEF Move, TypeInv, TypeOK
  <2>2. UNCHANGED <<platform, breaker, rows, chain, botVars, http, menu, gone, bounds>>
    BY <1>2 DEF Move
  <2> QED BY <2>1, <2>2 DEF TypeInv, TypeOK, Tripping, SentFailed, breaker, rows, chain,
             botVars, menu, bounds
<1>3. CASE Tick
  <2>1. \A n \in 0..PricesTTL : Older(n) \in 0..PricesTTL
    BY QuotesBoundsAssumption DEF Older
  <2>2. age' \in [Assets -> 0..PricesTTL]
    BY <1>3, <2>1 DEF Tick, TypeInv, TypeOK
  <2>3. cache' \in [Assets -> SUBSET Quotes]
    BY <1>3 DEF Tick, TypeInv, TypeOK
  <2>4. gone' \in [Quotes -> 0..PricesTTL]
    BY <1>3, <2>1, QuotesBoundsAssumption DEF Tick, TypeInv, TypeOK
  <2>5. UNCHANGED <<platform, price, moves, breaker, rows, chain, botVars, http, bounds>>
    BY <1>3 DEF Tick
  <2> QED BY <2>2, <2>3, <2>4, <2>5 DEF TypeInv, TypeOK, Tripping, SentFailed, breaker, rows,
             chain, botVars, bounds
<1> QED BY <1>1, <1>2, <1>3 DEF World

LEMMA StepKinds ==
    ASSUME Next
    PROVE  \/ StartCheck \/ EndCheck \/ SendIncrement \/ Withdraw \/ WithdrawRaises
           \/ Crash \/ World
           \/ ReplaceQuotes \/ UpsertQuotes
           \/ \E m \in Makers : Quoting(m)
           \/ \E a \in Assets : CheckAsset(a) \/ GetPrices(a)
BY DEF Next, Check, Handle, Quoting

LEMMA NextTypes == TypeInv /\ [Next]_vars => TypeInv'
<1>1. ASSUME TypeInv, Next PROVE TypeInv'
  <2>1. ReplaceQuotes \/ UpsertQuotes => Quoting(Operator)
    BY DEF Quoting
  <2> QED BY <1>1, <2>1, StepKinds, BotTypes, SendIncrementTypes, WithdrawTypes, WithdrawRaisesTypes,
             CrashTypes,
             WorldTypes, QuotingTypes, CheckAssetTypes, GetPricesTypes, QuotesAssumption
<1>2. ASSUME TypeInv, UNCHANGED vars PROVE TypeInv'
  BY <1>2 DEF vars, breaker, rows, chain, botVars, menu, bounds, TypeInv, TypeOK, Tripping,
     SentFailed
<1> QED BY <1>1, <1>2

\* Quotes, menu, breaker and chain are well typed for every set of assets and
\* quotes: no row is ever signed for a makerNonce the chain has not reached.
THEOREM TypeCorrect == Spec => []TypeOK
<1>1. TypeInv => TypeOK
  BY DEF TypeInv
<1> QED BY <1>1, InitTypes, NextTypes, PTL DEF Spec

LEMMA TypeInvariant == Spec => []TypeInv
BY InitTypes, NextTypes, PTL DEF Spec
-----------------------------------------------------------------------------
(* Outdated quotes are withdrawn.  Until a call fails or the process dies,  *)
(* the batch a handler is about to write carries the chain's makerNonce,    *)
(* unless the bot has just moved it and is about to withdraw every row; and *)
(* no increment is in flight that could move it behind the bot's back.      *)

Undisturbed == faults = 0 /\ restarts = 0

BatchCurrent ==
    http.step # "idle" => \A q \in http.batch : MakerOf[q] = Operator => http.nonce = nonce

NonceInv == Undisturbed /\ bot.step # "withdraw" => StaleQuotesWithdrawn /\ BatchCurrent

LEMMA InitNonce == Init => NonceInv
BY DEF Init, NonceInv, StaleQuotesWithdrawn, BatchCurrent, HttpIdle, BotAt

\* Without a disturbance nothing disturbed the state before it either.
LEMMA Quiet ==
    ASSUME TypeInv, Next, Undisturbed'
    PROVE  Undisturbed /\ ~LandIncrement /\ ~Fault
<1>1. faults \in Nat /\ restarts \in Nat /\ sent \in Nat /\ sent <= faults
  BY QuotesBoundsAssumption DEF TypeInv, TypeOK, SentFailed
<1>2. ~Fault
  BY <1>1 DEF Undisturbed, Fault
<1>3. ~Crash
  BY <1>1 DEF Undisturbed, Crash
<1>4. UNCHANGED <<faults, restarts>>
  BY <1>2, <1>3, StepKinds DEF StartCheck, EndCheck, SendIncrement, Withdraw, WithdrawRaises,
     SetActive,
     FaultyActive, World, LandIncrement, Move, Tick, ReplaceQuotes, UpsertQuotes, Quoting,
     CancelQuotes, SubmitQuotes, CheckAsset, MustSend, GetPrices, bounds
<1>5. Undisturbed
  BY <1>4 DEF Undisturbed
<1>6. ~LandIncrement
  BY <1>1, <1>5 DEF Undisturbed, LandIncrement
<1> QED BY <1>2, <1>5, <1>6

\* Steps that touch neither rows, nonce, handler nor the stage "withdraw".
LEMMA NonceKept ==
    ASSUME NonceInv, UNCHANGED <<signed, nonce, http>>, active' \subseteq active,
           Undisturbed' => Undisturbed,
           bot'.step # "withdraw" => bot.step # "withdraw"
    PROVE  NonceInv'
BY DEF NonceInv, StaleQuotesWithdrawn, BatchCurrent, Undisturbed

LEMMA BotNonce ==
    ASSUME TypeInv, NonceInv, Next,
           StartCheck \/ EndCheck \/ \E a \in Assets : CheckAsset(a) \/ GetPrices(a)
    PROVE  NonceInv'
<1>1. UNCHANGED <<active, signed, nonce, http>>
  BY DEF StartCheck, EndCheck, CheckAsset, GetPrices, rows, chain
<1>2. bot.step # "withdraw" \/ UNCHANGED bot
  BY DEF StartCheck, EndCheck, CheckAsset, GetPrices, botVars
<1> QED BY <1>1, <1>2, Quiet, NonceKept

LEMMA TripNonce ==
    ASSUME TypeInv, NonceInv, Next, SendIncrement \/ Withdraw \/ WithdrawRaises
    PROVE  NonceInv'
<1>1. SUFFICES ASSUME Undisturbed', bot'.step # "withdraw"
               PROVE  (StaleQuotesWithdrawn /\ BatchCurrent)'
  BY DEF NonceInv
<1>2. ~Fault
  BY <1>1, Quiet
<1>3. ~SendIncrement
  <2>1. SendIncrement /\ ~Fault => bot'.step = "withdraw"
    BY DEF SendIncrement, TypeInv, TypeOK
  <2> QED BY <1>1, <1>2, <2>1
<1>4. active' = {} /\ http' = HttpIdle
  BY <1>2, <1>3 DEF Withdraw, WithdrawRaises,
     SetActive, FaultyActive, LeftActive, LoopIsFree
<1> QED BY <1>4 DEF StaleQuotesWithdrawn, BatchCurrent, HttpIdle

LEMMA QuotingNonce ==
    ASSUME TypeInv, NonceInv, Next, NEW m \in Makers, Quoting(m)
    PROVE  NonceInv'
<1>1. UNCHANGED <<nonce, bot>>
  BY DEF Quoting, ReplaceQuotes, UpsertQuotes, CancelQuotes, SubmitQuotes, chain, botVars
<1>2. SUFFICES ASSUME Undisturbed', bot.step # "withdraw"
               PROVE  (StaleQuotesWithdrawn /\ BatchCurrent)'
  BY <1>1 DEF NonceInv
<1>3. StaleQuotesWithdrawn /\ BatchCurrent /\ Undisturbed /\ ~Fault
  BY <1>2, Quiet DEF NonceInv
<1>4. \A q \in active : MakerOf[q] = Operator => signed[q] = nonce
  BY <1>2, <1>3 DEF StaleQuotesWithdrawn, Undisturbed
<1>5. CASE ReplaceQuotes
  <2>1. active' \subseteq active /\ UNCHANGED signed
    BY <1>3, <1>5 DEF ReplaceQuotes, SetActive, FaultyActive
  <2>2. http' = [http EXCEPT !.step = "upsert"] /\ http.step # "idle"
    BY <1>3, <1>5 DEF ReplaceQuotes, SetActive, FaultyActive
  <2>3. http'.batch = http.batch /\ http'.nonce = http.nonce
    BY <2>2 DEF TypeInv, TypeOK
  <2> QED BY <1>1, <1>3, <1>4, <2>1, <2>2, <2>3 DEF StaleQuotesWithdrawn, BatchCurrent
<1>6. CASE UpsertQuotes
  <2>1. /\ active' = active \union http.batch
        /\ signed' = [q \in Quotes |-> IF q \in http.batch THEN http.nonce ELSE signed[q]]
        /\ http' = HttpIdle /\ http.step # "idle"
    BY <1>3, <1>6 DEF UpsertQuotes
  <2>2. active \subseteq Quotes /\ http.batch \subseteq Quotes
    BY DEF TypeInv, TypeOK
  <2>3. \A q \in active' : MakerOf[q] = Operator => signed'[q] = nonce
    BY <1>3, <1>4, <2>1, <2>2 DEF BatchCurrent
  <2> QED BY <1>1, <2>1, <2>3 DEF StaleQuotesWithdrawn, BatchCurrent, HttpIdle
<1>7. CASE CancelQuotes(m)
  <2>1. active' \subseteq active /\ UNCHANGED <<signed, http>>
    BY <1>7 DEF CancelQuotes, SetActive, FaultyActive
  <2> QED BY <1>1, <1>3, <1>4, <2>1 DEF StaleQuotesWithdrawn, BatchCurrent
<1>8. CASE \E batch \in SUBSET Quotes : SubmitQuotes(m, batch)
  <2>1. UNCHANGED <<active, signed>>
    BY <1>8 DEF SubmitQuotes, rows
  <2>2. \A q \in http'.batch : MakerOf[q] = Operator => http'.nonce = nonce
    BY <1>8 DEF SubmitQuotes, AcceptedNonce
  <2> QED BY <1>1, <1>4, <2>1, <2>2 DEF StaleQuotesWithdrawn, BatchCurrent
<1> QED BY <1>5, <1>6, <1>7, <1>8 DEF Quoting

LEMMA WorldNonce ==
    ASSUME TypeInv, NonceInv, Next, World \/ Crash
    PROVE  NonceInv'
<1>1. CASE Undisturbed'
  <2>1. ~Crash /\ ~LandIncrement
    BY <1>1, Quiet, QuotesBoundsAssumption DEF Crash, Undisturbed, TypeInv, TypeOK
  <2>2. UNCHANGED <<active, signed, nonce, http, bot>>
    BY <2>1 DEF World, Move, Tick, rows, chain, botVars
  <2> QED BY <1>1, <2>2, Quiet, NonceKept
<1>2. CASE ~Undisturbed'
  BY <1>2 DEF NonceInv
<1> QED BY <1>1, <1>2

LEMMA NextNonce == TypeInv /\ NonceInv /\ [Next]_vars => NonceInv'
<1>1. ASSUME TypeInv, NonceInv, Next PROVE NonceInv'
  <2>1. ReplaceQuotes \/ UpsertQuotes => Quoting(Operator)
    BY DEF Quoting
  <2> QED BY <1>1, <2>1, StepKinds, BotNonce, TripNonce, QuotingNonce, WorldNonce,
             QuotesAssumption
<1>2. ASSUME NonceInv, UNCHANGED vars PROVE NonceInv'
  BY <1>2 DEF vars, rows, chain, botVars, bounds, NonceInv, Undisturbed,
     StaleQuotesWithdrawn, BatchCurrent
<1> QED BY <1>1, <1>2

\* Until a call fails, no row of the operator outlives the makerNonce it was
\* signed for: a trip withdraws the batches written while it was under way.
THEOREM OutdatedQuotesAreWithdrawn == Spec => []StaleQuotesWithdrawn
<1>1. NonceInv => StaleQuotesWithdrawn
  BY DEF NonceInv, Undisturbed, StaleQuotesWithdrawn
<1> QED BY <1>1, TypeInvariant, InitNonce, NextNonce, PTL DEF Spec
-----------------------------------------------------------------------------
(* Menus are recent.  A quote has been gone no longer than the menu that    *)
(* holds it is old; a menu that reaches its TTL is dropped with its quotes. *)

RecentInv ==
    /\ \A q \in active : gone[q] = 0
    /\ \A a \in Assets : age[a] = PricesTTL => cache[a] = {}
    /\ \A a \in Assets : \A q \in cache[a] : gone[q] <= age[a]

LEMMA InitRecent == Init => RecentInv
BY DEF Init, RecentInv

\* Steps that build no menu, let no time pass and put no row back.
LEMMA NoMenuStep ==
    ASSUME TypeInv, RecentInv, active' \subseteq active, UNCHANGED <<cache, age, gone>>
    PROVE  RecentInv'
BY DEF RecentInv

\* A row that is written is no longer gone.
LEMMA QuotingRecent ==
    ASSUME TypeInv, RecentInv, NEW m \in Makers, Quoting(m)
    PROVE  RecentInv'
<1>1. UNCHANGED <<cache, age>>
  BY DEF Quoting, ReplaceQuotes, UpsertQuotes, CancelQuotes, SubmitQuotes, menu
<1>2. CASE active' \subseteq active /\ UNCHANGED gone
  BY <1>1, <1>2, NoMenuStep
<1>3. CASE UpsertQuotes /\ active' = active \union http.batch /\
           gone' = [q \in Quotes |-> IF q \in http.batch THEN 0 ELSE gone[q]]
  <2>1. /\ \A q \in active : q \in Quotes
        /\ \A q \in http.batch : q \in Quotes
        /\ \A a \in Assets : cache[a] \subseteq Quotes /\ age[a] \in Nat
    BY QuotesBoundsAssumption DEF TypeInv, TypeOK
  <2>2. \A q \in Quotes : gone'[q] = 0 \/ gone'[q] = gone[q]
    BY <1>3
  <2>3. \A q \in active' : gone'[q] = 0
    BY <1>3, <2>1 DEF RecentInv
  <2>4. \A a \in Assets : \A q \in cache[a] : gone'[q] <= age[a]
    BY <2>1, <2>2 DEF RecentInv
  <2> QED BY <1>1, <2>3, <2>4 DEF RecentInv
<1> QED BY <1>2, <1>3
     DEF Quoting, ReplaceQuotes, UpsertQuotes, CancelQuotes, SubmitQuotes, SetActive,
         FaultyActive, rows

\* A fresh menu holds active rows only.
LEMMA GetPricesRecent ==
    ASSUME TypeInv, RecentInv, NEW a \in Assets, GetPrices(a)
    PROVE  RecentInv'
<1>1. UNCHANGED <<active, gone>>
  BY DEF GetPrices, rows
<1>2. CASE UNCHANGED menu
  BY <1>1, <1>2, NoMenuStep DEF menu
<1>3. CASE ServeFresh(a)
  <2>1. PICK s \in Menus(a) : cache' = [cache EXCEPT ![a] = s]
    BY <1>3 DEF ServeFresh
  <2>2. s \subseteq active
    BY DEF Menus
  <2>3. /\ cache'[a] = s /\ age'[a] = 0
        /\ \A b \in Assets : b # a => cache'[b] = cache[b] /\ age'[b] = age[b]
    BY <1>3, <2>1 DEF ServeFresh, TypeInv, TypeOK
  <2>4. \A q \in s : gone[q] <= 0
    BY <2>2 DEF RecentInv
  <2>5. 0 # PricesTTL
    BY QuotesBoundsAssumption
  <2> QED BY <1>1, <2>3, <2>4, <2>5 DEF RecentInv
<1> QED BY <1>2, <1>3 DEF GetPrices, ServeCached

LEMMA TickRecent ==
    ASSUME TypeInv, RecentInv, Tick
    PROVE  RecentInv'
<1>1. /\ PricesTTL \in Nat
      /\ \A a \in Assets : age[a] \in 0..PricesTTL /\ cache[a] \subseteq Quotes
      /\ \A q \in Quotes : gone[q] \in 0..PricesTTL
      /\ active \subseteq Quotes /\ UNCHANGED active
  BY QuotesBoundsAssumption DEF TypeInv, TypeOK, Tick, rows
<1>2. \A q \in Quotes : gone'[q] = 0 \/ (gone'[q] = Older(gone[q]) /\ q \notin active)
  BY DEF Tick
<1>3. \A a \in Assets : /\ age'[a] = Older(age[a])
                        /\ age'[a] = PricesTTL => cache'[a] = {}
                        /\ cache'[a] \subseteq cache[a]
  BY DEF Tick
<1>4. ASSUME NEW a \in Assets, NEW q \in cache'[a] PROVE gone'[q] <= age'[a]
  <2>1. q \in Quotes /\ gone[q] <= age[a] /\ age'[a] = Older(age[a])
    BY <1>1, <1>3, <1>4 DEF RecentInv
  <2>2. age[a] \in 0..PricesTTL /\ gone[q] \in 0..PricesTTL
    BY <1>1, <2>1
  <2>3. 0 <= Older(age[a]) /\ Older(gone[q]) <= Older(age[a])
    BY <1>1, <2>1, <2>2 DEF Older
  <2> QED BY <1>2, <2>1, <2>3
<1>5. \A q \in active : gone'[q] = 0
  BY <1>1, <1>2
<1> QED BY <1>1, <1>3, <1>4, <1>5 DEF RecentInv

LEMMA NextRecent == TypeInv /\ RecentInv /\ [Next]_vars => RecentInv'
<1>1. ASSUME TypeInv, RecentInv, Next PROVE RecentInv'
  <2>1. CASE StartCheck \/ EndCheck \/ SendIncrement \/ \E a \in Assets : CheckAsset(a)
    BY <1>1, <2>1, NoMenuStep
       DEF StartCheck, EndCheck, SendIncrement, CheckAsset, rows, menu
  <2>2. CASE Withdraw \/ WithdrawRaises
    BY <1>1, <2>2, NoMenuStep
       DEF Withdraw, WithdrawRaises, SetActive, FaultyActive, LeftActive, menu
  <2>3. CASE Crash
    BY <1>1, <2>3, QuotesBoundsAssumption DEF Crash, RecentInv, rows
  <2>4. CASE LandIncrement \/ \E a \in Assets : Move(a)
    BY <1>1, <2>4, NoMenuStep DEF LandIncrement, Move, rows, menu
  <2>5. ReplaceQuotes \/ UpsertQuotes => Quoting(Operator)
    BY DEF Quoting
  <2> QED BY <1>1, <2>1, <2>2, <2>3, <2>4, <2>5, StepKinds, TickRecent, QuotingRecent,
             GetPricesRecent, QuotesAssumption DEF World
<1>2. ASSUME TypeInv, RecentInv, UNCHANGED vars PROVE RecentInv'
  BY <1>2, NoMenuStep DEF vars, rows, menu
<1> QED BY <1>1, <1>2

\* A menu that is served holds only quotes that were active less than
\* _PRICES_TTL ago, whoever withdrew, replaced or cancelled them meanwhile.
THEOREM MenusStayRecent == Spec => []MenusAreRecent
<1>1. TypeInv /\ RecentInv => MenusAreRecent
  <2> SUFFICES ASSUME TypeInv, RecentInv, NEW a \in Assets, age[a] < PricesTTL, NEW q \in cache[a]
               PROVE  gone[q] < PricesTTL
    BY DEF MenusAreRecent
  <2>1. age[a] \in 0..PricesTTL /\ q \in Quotes /\ PricesTTL \in Nat
    BY QuotesBoundsAssumption DEF TypeInv, TypeOK
  <2>2. gone[q] \in 0..PricesTTL
    BY <2>1 DEF TypeInv, TypeOK
  <2> QED BY <2>1, <2>2 DEF RecentInv
<1> QED BY <1>1, TypeInvariant, InitRecent, NextRecent, PTL DEF Spec
=============================================================================
