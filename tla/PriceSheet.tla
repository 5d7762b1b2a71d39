----------------------------- MODULE PriceSheet ------------------------------
(***************************************************************************)
(* What the oToken managers list: expiries (pricing/utils.py) and strikes  *)
(* (pricing/price_sheet.py), for every moment and spot price.              *)
(*                                                                         *)
(* Time is counted in half hours from a Monday, 00:00 UTC.                 *)
(***************************************************************************)
EXTENDS Process

CONSTANTS
    ShortCutoff,        \* short_expiry_cutoff_hours
    StandardCutoff,     \* expiry_cutoff_hours
    MaxHours,           \* bound: moments
    Spots, Steps,       \* prices, and the strike steps of the assets
    NumStrikes, MinOtm  \* num_strikes, min_otm_per_side

Day == 48
ShortTerm == 2 * Day        \* _48H_SECONDS

ASSUME SheetAssumption ==
    /\ ShortCutoff \in Nat /\ StandardCutoff \in Nat /\ MaxHours \in Nat
    /\ ShortCutoff <= StandardCutoff /\ StandardCutoff <= ShortTerm
    /\ Spots \subseteq Nat /\ Steps \subseteq Nat \ {0}
    /\ NumStrikes \in Nat \ {0} /\ MinOtm \in Nat

VARIABLES moment, spot, strikeStep

sheetVars == <<moment, spot, strikeStep>>

SheetInit == moment = 0 /\ spot \in Spots /\ strikeStep \in Steps

\* A different time of publication.
Tick ==
    /\ moment < MaxHours
    /\ moment' = moment + 1
    /\ UNCHANGED <<spot, strikeStep, faults, restarts>>

SheetSpec == SheetInit /\ ProcessInit /\ [][Tick]_<<sheetVars, faults, restarts>>
-----------------------------------------------------------------------------
(* Expiries *)

Eight == 16                 \* 08:00
Friday == 4
Weekday(t) == (t \div Day) % 7

Cutoff(expiry, now) == IF expiry - now <= ShortTerm THEN ShortCutoff ELSE StandardCutoff

\* The first 08:00 after t.
Next0800(t) ==
    LET candidate == (t \div Day) * Day + Eight IN
    IF candidate <= t THEN candidate + Day ELSE candidate

\* The first Friday 08:00 after t.
NextFriday(t) ==
    LET today == (t \div Day) * Day + Eight
        ahead == (Friday + 7 - Weekday(t)) % 7
    IN  today + Day * (IF ahead = 0 /\ today <= t THEN 7 ELSE ahead)

\* Faulty variant: the weekly expiry is the near Friday's successor.
WeeklyAfterNear(now) ==
    {Next0800(now + ShortCutoff), NextFriday(now + ShortCutoff),
     NextFriday(now + ShortCutoff) + 7 * Day, NextFriday(now)}

\* get_expiries: the next day, the next Friday, and two Fridays further off.
Expiries(now) ==
    {Next0800(now + ShortCutoff), NextFriday(now + ShortCutoff),
     NextFriday(now + StandardCutoff), NextFriday(now + StandardCutoff) + 7 * Day}

\* _prune_near_expiry_otokens
Pruned(expiry, now) == expiry <= now + Cutoff(expiry, now)
-----------------------------------------------------------------------------
(* Strikes *)

\* round(price / step), to even when halfway.
Round(price, step) ==
    LET down == price \div step
        rest == 2 * (price % step)
    IN  IF rest > step \/ (rest = step /\ down % 2 = 1) THEN down + 1 ELSE down

Centered(price, step) ==
    {(Round(price, step) + i - NumStrikes \div 2) * step : i \in 0..(NumStrikes - 1)}

\* Strikes added on one side until enough are out of the money.
Missing(strikes) == LET n == Cardinality(strikes) IN IF n < MinOtm THEN MinOtm - n ELSE 0

\* generate_strikes
Strikes(price, step) ==
    LET base == Centered(price, step) IN
    base \union {Min(base) - k * step : k \in 1..Missing({s \in base : s < price})}
         \union {Max(base) + k * step : k \in 1..Missing({s \in base : s > price})}
-----------------------------------------------------------------------------
(* Properties. *)

\* What is listed can be traded.  Expiries: the pruning of the same moment would
\* remove none, though the cutoff jumps with the time to expiry; there is one
\* within a day and the cutoff, and one between the standard cutoff and a week
\* later.  Strikes: on both sides of the spot enough are out of the money, and
\* the ladder has no gaps, wherever the spot lies between two strikes.
SheetIsTradable ==
    LET strikes == Strikes(spot, strikeStep) IN
    /\ \A e \in Expiries(moment) : ~Pruned(e, moment) /\ e % Day = Eight
    /\ \E e \in Expiries(moment) : e <= moment + ShortCutoff + Day
    /\ \E e \in Expiries(moment) : e > moment + StandardCutoff
                                    /\ e <= moment + StandardCutoff + 7 * Day
    /\ Cardinality({s \in strikes : s < spot}) >= MinOtm
    /\ Cardinality({s \in strikes : s > spot}) >= MinOtm
    /\ \A s \in strikes : s # Max(strikes) => s + strikeStep \in strikes
=============================================================================
