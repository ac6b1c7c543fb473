------------------------------ MODULE Calendar ------------------------------
(***************************************************************************)
(* The program derives the pair of expiries an index interpolates between  *)
(* in two ways that have to agree: the live path (ingest, index) computes  *)
(* Fridays with mfivDates, the replay path (websocket replay, backfill)    *)
(* looks them up with buildExpiries among the instruments an exchange      *)
(* lists.  This module follows both along the clock.                       *)
(*                                                                         *)
(* now is the moment of the latest request, dates the answer of mfivDates  *)
(* and expiries the answers of buildExpiries for it (a set, empty when it  *)
(* throws).  Moments are minutes, as in MfivDates.                         *)
(***************************************************************************)
EXTENDS WeeklyTerms

CONSTANTS TimePeriod,        \* days
          Symbol, ListingOf, ExpiryOf,
          MaxStep,           \* bound: minutes between two requests
          Horizon            \* bound: last moment of a request

ASSUME CalendarAssumption ==
    /\ TimePeriod \in Nat \ {0}
    /\ MaxStep \in Nat \ {0}
    /\ Horizon \in Nat
    /\ ListingOf \in [Symbol -> Nat]
    /\ ExpiryOf \in [Symbol -> Nat]

Listed == INSTANCE BuildExpiries
              WITH TimePeriodLength <- TimePeriod * MinutesPerDay

VARIABLES now, dates, expiries

calendarVars == <<now, dates, expiries>>

Answers(t) ==
    /\ now' = t
    /\ dates' = mfivDates(t, TimePeriod)
    /\ expiries' = Listed!buildExpiries(t)

Init ==
    /\ now \in 0 .. MaxStep
    /\ dates = mfivDates(now, TimePeriod)
    /\ expiries = Listed!buildExpiries(now)

Request == \E t \in (now + 1) .. (now + MaxStep) : t <= Horizon /\ Answers(t)

Next == Request

Spec == Init /\ [][Next]_calendarVars

-----------------------------------------------------------------------------
(***************************************************************************)
(* The two expiries of mfivDates are Friday 08:00 UTC expiries and bracket *)
(* the moment one time period ahead: near <= now + timePeriod < next.  It  *)
(* is what the index interpolates between (src/lib/expiries.ts:31).        *)
(***************************************************************************)
Bracketing ==
    /\ IsFridayExpiry(dates.nearExpiration)
    /\ IsFridayExpiry(dates.nextExpiration)
    /\ dates.nearExpiration <= now + TimePeriod * MinutesPerDay
    /\ now + TimePeriod * MinutesPerDay < dates.nextExpiration

(***************************************************************************)
(* The pair of mfivDates is stable up to the rollover it announces and     *)
(* replaced, by a pair that starts where it ended or later, in the first   *)
(* request made at the rollover or after it: neither too early nor late.   *)
(***************************************************************************)
RollsOverWhenAnnounced ==
    [][ /\ now' < dates.rollover => dates' = dates
        /\ now' >= dates.rollover =>
              /\ dates'.nearExpiration >= dates.nextExpiration
              /\ dates'.rollover > now' ]_calendarVars

(***************************************************************************)
(* When the exchange lists the two Fridays of mfivDates, and everything    *)
(* that expires from the near one up to the next one is one of them, the   *)
(* replay path computes with the same terms as the live path.              *)
(***************************************************************************)
OnlyFridaysAround(near, next) ==
    { e \in Listed!ActiveExpiries(now) : near <= e /\ e <= next } = {near, next}

BothPathsAgree ==
    OnlyFridaysAround(dates.nearExpiration, dates.nextExpiration) =>
        { <<x.near, x.next>> : x \in expiries } =
            { <<dates.nearExpiration, dates.nextExpiration>> }

(***************************************************************************)
(* The weekly calendar of the superseded calculator is that of mfivDates   *)
(* for two weeks, to the minute.  Of its semi-weekly calendar the comment  *)
(* says "Rollover twice per week. Targets a rolling average of 14 days     *)
(* out." (vix_calculator.ts:472): the terms bracket the moment two weeks   *)
(* ahead from the minute they are chosen to the one before their rollover, *)
(* which lies ahead, and no further than the longer part of the week       *)
(* (Sunday 03:00 to Thursday 14:00) unless they are chosen in the first    *)
(* three hours of a Sunday.                                                *)
(***************************************************************************)
TwoWeeks == 14 * MinutesPerDay

LongerPart == 4 * MinutesPerDay + 11 * 60

SupersededTermsBracket ==
    LET semi == rolloverSemiWeekly(now)
    IN  /\ rolloverWeekly(now) = mfivDates(now, 14)
        /\ now < semi.rollover
        /\ semi.nearExpiration <= now + TwoWeeks
        /\ semi.rollover - 1 + TwoWeeks < semi.nextExpiration
        /\ ~(UTCDay(now) = 0 /\ UTCHour(now) < 3) => semi.rollover <= now + LongerPart

(***************************************************************************)
(* "Rollover twice per week": whoever asks the semi-weekly calendar for a  *)
(* rollover, and at that rollover for the next one, as summaryStream would *)
(* (vix_calculator.ts:196-198; the call is commented out at 431-435),      *)
(* rolls over twice within a week.                                         *)
(***************************************************************************)
RollsOverTwicePerWeek ==
    rolloverSemiWeekly(rolloverSemiWeekly(now).rollover).rollover
        <= now + 7 * MinutesPerDay
=============================================================================
