------------------------------ MODULE QuoteBook ------------------------------
(***************************************************************************)
(* The market makers' signed quotes: POST and DELETE /mm/quotes            *)
(* (api/mm_routes.py), the menu of GET /prices (api/routes.py), and the    *)
(* circuit breaker (pricing/circuit_breaker.py, bots/circuit_breaker_bot,  *)
(* bots/solana_circuit_breaker_bot).                                       *)
(*                                                                         *)
(* Base and Solana have different assets, rows, makers and bots, and share *)
(* nothing: a behaviour is one of a single platform.                       *)
(*                                                                         *)
(* All of it shares one event loop.  The handlers have no await, so a step *)
(* of a handler is one database call and only the chain moves in between;  *)
(* the bot leaves the loop while incrementMakerNonce runs in a thread.     *)
(* Rows and the chain survive a crash, the breaker and the cache do not.   *)
(***************************************************************************)
EXTENDS Integers, FiniteSets

CONSTANTS
    Assets,         \* get_base_assets(), or get_solana_assets()
    Quotes,         \* mm_quotes rows, by quote id
    Makers, MakerOf,
    Operator,       \* the maker whose makerNonce the backend can increment
    OptionOf,       \* OptionOf[q]: the option it bids for, an <<asset, name>>
    None,
    Levels,         \* spot prices
    Threshold,      \* circuit_breaker_threshold: a move this far trips
    PricesTTL,      \* _PRICES_TTL, in ticks
    MaxMoves,       \* bound: price moves
    MaxFaults,      \* bound: failed calls to the chain or the database
    MaxRestarts     \* bound: process crashes

ASSUME QuotesAssumption ==
    /\ Operator \in Makers
    /\ MakerOf \in [Quotes -> Makers]
    /\ \A q \in Quotes : OptionOf[q][1] \in Assets
    /\ Levels \subseteq Nat /\ Levels # {}
    /\ None \notin Levels /\ None \notin Assets

ASSUME QuotesBoundsAssumption ==
    /\ Threshold \in Nat \ {0} /\ PricesTTL \in Nat \ {0}
    /\ MaxMoves \in Nat /\ MaxFaults \in Nat /\ MaxRestarts \in Nat

VARIABLES
    platform,       \* "base" or "solana"; constant
    price, moves,   \* external: the spot price of each asset
    ref, paused,    \* the breaker's reference_price and is_paused
    active,         \* rows with is_active
    signed,         \* signed[q]: the makerNonce in the operator's row
    nonce,          \* chain: the operator's makerNonce
    sent,           \* incrementMakerNonce transactions that timed out
    bot,            \* where the breaker bot is, with the asset and its price
    toCheck,        \* assets check_once has still to look at
    http,           \* the POST /mm/quotes under way: step, rows, nonce read
    cache, age,     \* _prices_cache and the ticks since _prices_cached_at
    gone,           \* history: ticks since a quote of a cached menu was withdrawn
    faults, restarts

breaker == <<ref, paused>>
rows == <<active, signed>>
chain == <<nonce, sent>>
botVars == <<bot, toCheck>>
menu == <<cache, age>>
bounds == <<faults, restarts>>
vars == <<platform, price, moves, breaker, rows, chain, botVars, http, menu, gone, bounds>>

AssetOf(q) == OptionOf[q][1]

TypeOK ==
    /\ platform \in {"base", "solana"}
    /\ price \in [Assets -> Levels] /\ moves \in 0..MaxMoves
    /\ ref \in [Assets -> Levels \union {None}]
    /\ paused \in [Assets -> BOOLEAN]
    /\ active \subseteq Quotes
    /\ nonce \in Nat /\ sent \in 0..MaxFaults
    /\ signed \in [Quotes -> 0..nonce]
    /\ bot \in [step : {"idle", "check", "send", "withdraw"},
                asset : Assets \union {None}, seen : Levels \union {None}]
    /\ toCheck \subseteq Assets
    /\ http \in [step : {"idle", "replace", "upsert"}, batch : SUBSET Quotes, nonce : 0..nonce]
    /\ cache \in [Assets -> SUBSET Quotes]
    /\ age \in [Assets -> 0..PricesTTL]
    /\ gone \in [Quotes -> 0..PricesTTL]
    /\ faults \in 0..MaxFaults /\ restarts \in 0..MaxRestarts

HttpIdle == [step |-> "idle", batch |-> {}, nonce |-> 0]
BotAt(step) == [step |-> step, asset |-> None, seen |-> None]

Init ==
    /\ platform \in {"base", "solana"}
    /\ price \in [Assets -> Levels] /\ moves = 0
    /\ ref = [a \in Assets |-> None] /\ paused = [a \in Assets |-> FALSE]
    /\ active = {} /\ signed = [q \in Quotes |-> 0]
    /\ nonce = 0 /\ sent = 0
    /\ bot = BotAt("idle") /\ toCheck = {}
    /\ http = HttpIdle
    /\ cache = [a \in Assets |-> {}] /\ age = [a \in Assets |-> PricesTTL]
    /\ gone = [q \in Quotes |-> 0]
    /\ faults = 0 /\ restarts = 0

Fault == faults < MaxFaults /\ faults' = faults + 1

\* A call on mm_quotes that leaves these rows active; one that raises may
\* still have taken effect.
SetActive(rest) == active' = rest /\ UNCHANGED faults
FaultyActive(rest) == Fault /\ active' \in {active, rest}

LoopIsFree == http = HttpIdle /\ bot.step # "check"
-----------------------------------------------------------------------------
(* CircuitBreaker *)

Moved(a, from) ==
    from # None /\ (price[a] - from >= Threshold \/ from - price[a] >= Threshold)

UpdateReference(a, level) ==
    /\ ref' = [ref EXCEPT ![a] = level]
    /\ paused' = [paused EXCEPT ![a] = FALSE]

Trip(a) ==
    /\ paused' = [paused EXCEPT ![a] = TRUE]
    /\ UNCHANGED ref
-----------------------------------------------------------------------------
(* circuit_breaker_bot *)

StartCheck ==
    /\ bot.step = "idle" /\ LoopIsFree
    /\ bot' = BotAt("check") /\ toCheck' = Assets
    /\ UNCHANGED <<platform, price, moves, breaker, rows, chain, http, menu, gone, bounds>>

\* Base looks for quotes first, those of Solana's rows too (external), and sends
\* unless it is sure that there are none.
MustSend == UNCHANGED faults \/ (platform = "base" /\ Fault)

\* One asset of check_once, up to the await of the transaction.
CheckAsset(a) ==
    /\ bot.step = "check" /\ a \in toCheck
    /\ \/ /\ ~Moved(a, ref[a])
          /\ IF ref[a] = None THEN UpdateReference(a, price[a]) ELSE UNCHANGED breaker
          /\ toCheck' = toCheck \ {a} /\ UNCHANGED <<bot, faults>>
       \/ /\ Moved(a, ref[a]) /\ platform = "base" /\ active = {}
          /\ UpdateReference(a, price[a])
          /\ toCheck' = toCheck \ {a} /\ UNCHANGED <<bot, faults>>
       \/ /\ Moved(a, ref[a]) /\ MustSend
          /\ Trip(a)
          /\ bot' = [step |-> "send", asset |-> a, seen |-> price[a]]
          /\ UNCHANGED toCheck
       \/ Fault /\ toCheck' = toCheck \ {a} /\ UNCHANGED <<bot, breaker>>
    /\ UNCHANGED <<platform, price, moves, rows, chain, http, menu, gone, restarts>>

EndCheck ==
    /\ bot.step = "check" /\ toCheck = {}
    /\ bot' = BotAt("idle")
    /\ UNCHANGED <<platform, price, moves, breaker, rows, chain, toCheck, http, menu, gone, bounds>>

\* In the thread: a transaction that is not confirmed raises, which ends
\* check_once for the remaining assets as well.
SendIncrement ==
    /\ bot.step = "send"
    /\ \/ /\ nonce' = nonce + 1
          /\ bot' = [bot EXCEPT !.step = "withdraw"]
          /\ UNCHANGED <<sent, toCheck, faults>>
       \/ /\ Fault
          /\ sent' \in {sent, sent + 1}
          /\ bot' = BotAt("idle") /\ toCheck' = {}
          /\ UNCHANGED nonce
    /\ UNCHANGED <<platform, price, moves, breaker, rows, http, menu, gone, restarts>>

\* Faulty variants: only the tripped asset's, or only the operator's, rows.
OthersOfAsset == {q \in active : AssetOf(q) # bot.asset}
OthersOfMaker == {q \in active : MakerOf[q] # Operator}

\* What _deactivate_active_quotes leaves active.
LeftActive == {}

\* The reference is the price that tripped; a failure is logged on Base.
Withdraw ==
    /\ bot.step = "withdraw" /\ LoopIsFree
    /\ SetActive(LeftActive) \/ (platform = "base" /\ FaultyActive(LeftActive))
    /\ UpdateReference(bot.asset, bot.seen)
    /\ toCheck' = toCheck \ {bot.asset}
    /\ bot' = BotAt("check")
    /\ UNCHANGED <<platform, price, moves, signed, chain, http, menu, gone, restarts>>

\* On Solana a failure ends check_once: the asset stays paused, and trips again.
WithdrawRaises ==
    /\ bot.step = "withdraw" /\ LoopIsFree
    /\ platform = "solana" /\ FaultyActive(LeftActive)
    /\ bot' = BotAt("idle") /\ toCheck' = {}
    /\ UNCHANGED <<platform, price, moves, breaker, signed, chain, http, menu, gone, restarts>>
-----------------------------------------------------------------------------
(* Market makers *)

\* Faulty variant: a quote signed for the next makerNonce is accepted as well.
CurrentOrNext(m) == IF m = Operator THEN nonce + 1 ELSE 0

\* The accepted rows of a batch carry the makerNonce just read; the nonces
\* of the other makers move without this program and are left out.
AcceptedNonce(m) == IF m = Operator THEN nonce ELSE 0

SubmitQuotes(m, batch) ==
    /\ LoopIsFree
    /\ batch # {} /\ \A q \in batch : MakerOf[q] = m
    /\ http' = [step |-> "replace", batch |-> batch, nonce |-> AcceptedNonce(m)]
    /\ UNCHANGED <<platform, price, moves, breaker, rows, chain, botVars, menu, gone, bounds>>

Replaced ==
    {q \in active : \E n \in http.batch :
        MakerOf[q] = MakerOf[n] /\ OptionOf[q] = OptionOf[n]}

ReplaceQuotes ==
    /\ http.step = "replace"
    /\ \/ SetActive(active \ Replaced) /\ http' = [http EXCEPT !.step = "upsert"]
       \/ FaultyActive(active \ Replaced) /\ http' = HttpIdle
    /\ UNCHANGED <<platform, price, moves, breaker, signed, chain, botVars, menu, gone, restarts>>

\* The prune that follows deletes rows that are not active anyway.
UpsertQuotes ==
    /\ http.step = "upsert"
    /\ \/ /\ UNCHANGED faults \/ Fault
          /\ active' = active \union http.batch
          /\ signed' = [q \in Quotes |-> IF q \in http.batch THEN http.nonce ELSE signed[q]]
          /\ gone' = [q \in Quotes |-> IF q \in http.batch THEN 0 ELSE gone[q]]
       \/ Fault /\ UNCHANGED <<rows, gone>>
    /\ http' = HttpIdle
    /\ UNCHANGED <<platform, price, moves, breaker, chain, botVars, menu, restarts>>

CancelQuotes(m) ==
    /\ LoopIsFree
    /\ LET rest == {q \in active : MakerOf[q] # m} IN
       /\ rest # active
       /\ SetActive(rest) \/ FaultyActive(rest)
    /\ UNCHANGED <<platform, price, moves, breaker, signed, chain, botVars, http, menu, gone,
                   restarts>>
-----------------------------------------------------------------------------
(* GET /prices, when the spot price can be read.  Otherwise it answers from *)
(* the cache or with an error and changes nothing.                          *)

\* Faulty variant: serving a cached menu renews it.
RenewCached(a) == age[a] < PricesTTL /\ age' = [age EXCEPT ![a] = 0] /\ UNCHANGED cache

ServeCached(a) == age[a] < PricesTTL /\ UNCHANGED menu

\* One quote, the best bid, per option that available_otokens lists: which it
\* lists is external.
Menus(a) ==
    {s \in SUBSET {q \in active : AssetOf(q) = a} :
        \A p, q \in s : OptionOf[p] = OptionOf[q] => p = q}

ServeFresh(a) ==
    /\ age[a] = PricesTTL
    /\ \E s \in Menus(a) : s # {} /\ cache' = [cache EXCEPT ![a] = s]
    /\ age' = [age EXCEPT ![a] = 0]

\* A paused breaker resumes at the spot price before anything else; nothing more
\* is done if there is no quote of a listed option or a read fails.  The check
\* comes only with a fresh menu, and its failure pauses the asset again.
GetPrices(a) ==
    LET from == IF paused[a] THEN price[a] ELSE ref[a] IN
    /\ LoopIsFree
    /\ \/ /\ \/ ServeCached(a) /\ UNCHANGED faults
             \/ age[a] = PricesTTL /\ UNCHANGED menu /\ (UNCHANGED faults \/ Fault)
          /\ IF paused[a] THEN UpdateReference(a, price[a]) ELSE UNCHANGED breaker
       \/ ~Moved(a, from) /\ ServeFresh(a) /\ UpdateReference(a, price[a]) /\ UNCHANGED faults
       \/ /\ Moved(a, from) /\ age[a] = PricesTTL /\ Menus(a) # {{}}
          /\ Trip(a) /\ UNCHANGED <<menu, faults>>
    /\ UNCHANGED <<platform, price, moves, rows, chain, botVars, http, gone, restarts>>
-----------------------------------------------------------------------------
(* The process and the world. *)

Crash ==
    /\ restarts < MaxRestarts /\ restarts' = restarts + 1
    /\ ref' = [a \in Assets |-> None] /\ paused' = [a \in Assets |-> FALSE]
    /\ cache' = [a \in Assets |-> {}] /\ age' = [a \in Assets |-> PricesTTL]
    /\ bot' = BotAt("idle") /\ toCheck' = {} /\ http' = HttpIdle
    /\ UNCHANGED <<platform, price, moves, rows, chain, gone, faults>>

LandIncrement ==
    /\ sent > 0
    /\ sent' = sent - 1 /\ nonce' = nonce + 1
    /\ UNCHANGED <<platform, price, moves, breaker, rows, botVars, http, menu, gone, bounds>>

Move(a) ==
    /\ moves < MaxMoves /\ moves' = moves + 1
    /\ \E level \in Levels \ {price[a]} : price' = [price EXCEPT ![a] = level]
    /\ UNCHANGED <<platform, breaker, rows, chain, botVars, http, menu, gone, bounds>>

Older(n) == IF n < PricesTTL THEN n + 1 ELSE n

\* Time passes; a menu that reaches its TTL is never served again.
Tick ==
    /\ age' = [a \in Assets |-> Older(age[a])]
    /\ cache' = [a \in Assets |-> IF age'[a] = PricesTTL THEN {} ELSE cache[a]]
    /\ gone' = [q \in Quotes |-> IF q \in cache'[AssetOf(q)] \ active THEN Older(gone[q]) ELSE 0]
    /\ UNCHANGED <<platform, price, moves, breaker, rows, chain, botVars, http, bounds>>

Check ==
    \/ StartCheck \/ EndCheck \/ SendIncrement \/ Withdraw \/ WithdrawRaises
    \/ \E a \in Assets : CheckAsset(a)
Handle == ReplaceQuotes \/ UpsertQuotes
World == LandIncrement \/ Tick \/ \E a \in Assets : Move(a)

Next ==
    \/ Check \/ Handle \/ Crash \/ World
    \/ \E m \in Makers : CancelQuotes(m) \/ \E batch \in SUBSET Quotes : SubmitQuotes(m, batch)
    \/ \E a \in Assets : GetPrices(a)

\* The bot polls for ever and a handler runs to its end; the event loop's ready
\* queue is first-in first-out, so requests never keep the bot from resuming.
Spec == Init /\ [][Next]_vars
FairSpec == Spec /\ SF_vars(Check) /\ WF_vars(Handle)
-----------------------------------------------------------------------------
(* Properties. *)

\* Until a call fails, no row of the operator stays active with a makerNonce
\* the breaker has invalidated, except while the bot is about to withdraw it:
\* a batch read before the increment and written after it is caught too.
StaleQuotesWithdrawn ==
    faults = 0 /\ restarts = 0 =>
        \A q \in active : MakerOf[q] = Operator /\ bot.step # "withdraw" => signed[q] = nonce

\* A menu that is still served holds only quotes that were active less than
\* _PRICES_TTL ago, whoever withdrew, replaced or cancelled them since.
MenusAreRecent ==
    \A a \in Assets : age[a] < PricesTTL => \A q \in cache[a] : gone[q] < PricesTTL

\* Once nothing fails any more, the bot's own trip withdraws every quote that
\* was active, of all makers and assets, whatever GET /prices resumes meanwhile.
TripsWithdraw ==
    \A q \in Quotes :
        (/\ bot.step = "send" /\ q \in active
         /\ faults = MaxFaults /\ restarts = MaxRestarts) ~> (q \notin active)

\* "When the circuit breaker trips (>2% move) for ANY asset, calls
\* BatchSettler.incrementMakerNonce() [...] and deactivates ALL DB quotes":
\* what is active when the breaker pauses an asset does not stay active.
TripInvalidates ==
    \A a \in Assets, q \in Quotes : (paused[a] /\ q \in active) ~> (q \notin active)
=============================================================================
