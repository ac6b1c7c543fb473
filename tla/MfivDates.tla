----------------------------- MODULE MfivDates -----------------------------
(***************************************************************************)
(* The weekly Friday calendar of src/lib/expiries.ts: given a moment       *)
(* and a time period in days, mfivDates answers the two Friday expiries    *)
(* that should bracket the moment one time period ahead, and the moment    *)
(* ("rollover") at which that pair has to be replaced by the next one.     *)
(*                                                                         *)
(* Time is counted in minutes from a Sunday midnight (UTC), so a day has   *)
(* 1440 of them and day 0 is a Sunday, as Date.getUTCDay has it.           *)
(***************************************************************************)
EXTENDS Integers

MinutesPerDay == 1440

Day(t) == t \div MinutesPerDay

UTCDay(t) == Day(t) % 7

UTCHour(t) == (t % MinutesPerDay) \div 60

\* expiryTypeToOrdinals("FridayT08:00:00Z"), the only MethodologyExpiryEnum.
ExpiryDay == 5
ExpiryHour == 8

\* The expiry hour forgotten: on a Friday the pair is replaced at midnight.
DaysAheadByDay(now, timePeriod) ==
    LET target == now + timePeriod * MinutesPerDay
    IN  IF UTCDay(target) = ExpiryDay
        THEN 21
        ELSE IF UTCDay(target) = ExpiryDay + 1 THEN 20 ELSE 19 - UTCDay(now)

\* The Saturday branch forgotten.
DaysAheadWithoutSaturday(now, timePeriod) ==
    LET target == now + timePeriod * MinutesPerDay
    IN  IF UTCDay(target) = ExpiryDay /\ UTCHour(target) >= ExpiryHour
        THEN 21
        ELSE 19 - UTCDay(now)

(***************************************************************************)
(* How many days after the day of now the next expiration falls.  The      *)
(* offsets 21, 20 and 19 are literals of the source: they do not depend on *)
(* timePeriod, although the day and hour they are chosen by do.            *)
(***************************************************************************)
DaysAhead(now, timePeriod) ==
    LET target == now + timePeriod * MinutesPerDay
    IN  IF UTCDay(target) = ExpiryDay /\ UTCHour(target) >= ExpiryHour
        THEN 21
        ELSE IF UTCDay(target) = ExpiryDay + 1
             THEN 20
             ELSE 19 - UTCDay(now)

NextExpiration(now, timePeriod) ==
    (Day(now) + DaysAhead(now, timePeriod)) * MinutesPerDay + ExpiryHour * 60

mfivDatesLateRollover(now, timePeriod) ==    \* rollover at the near expiration
    LET next == NextExpiration(now, timePeriod)
    IN  [ nearExpiration |-> next - 7 * MinutesPerDay,
          nextExpiration |-> next,
          rollover       |-> next - 7 * MinutesPerDay ]

mfivDates(now, timePeriod) ==
    LET next == NextExpiration(now, timePeriod)
    IN  [ nearExpiration |-> next - 7 * MinutesPerDay,
          nextExpiration |-> next,
          rollover       |-> next - 14 * MinutesPerDay ]

IsFridayExpiry(t) ==
    /\ UTCDay(t) = ExpiryDay
    /\ t % MinutesPerDay = ExpiryHour * 60
=============================================================================
