---------------------------- MODULE WeeklyTerms ----------------------------
(***************************************************************************)
(* The calendars of the superseded calculator                              *)
(* (src/lib/vix_calculator.ts): rolloverWeekly, which its                  *)
(* setupRollover uses, and rolloverSemiWeekly, which is commented out      *)
(* there.  Both add days to 08:00 of the day of refDate.                   *)
(***************************************************************************)
EXTENDS MfivDates

\* dayjs.utc(t).add(days, "days").hour(h).startOf("hour")
DaysLater(t, days, h) == (Day(t) + days) * MinutesPerDay + h * 60

rolloverWeekly(refDate) ==
    LET days == IF UTCDay(refDate) = 5 /\ UTCHour(refDate) >= 8
                THEN 21
                ELSE IF UTCDay(refDate) = 6 THEN 20 ELSE 19 - UTCDay(refDate)
    IN  [ nearExpiration |-> DaysLater(refDate, days - 7, 8),
          nextExpiration |-> DaysLater(refDate, days, 8),
          rollover       |-> DaysLater(refDate, days - 14, 8) ]

\* The weekend: from Thursday 14:00 to Sunday 02:59.
IsWeekend(refDate) ==
    \/ UTCDay(refDate) = 4 /\ UTCHour(refDate) >= 14
    \/ UTCDay(refDate) \in {5, 6}
    \/ UTCDay(refDate) = 0 /\ UTCHour(refDate) <= 2

\* The next term of the other branch: right only up to Friday morning.
rolloverSemiWeeklyOneNext(refDate) ==
    LET day == UTCDay(refDate)
    IN  [ nearExpiration |-> DaysLater(refDate, 12 - day, 8),
          nextExpiration |-> DaysLater(refDate, 19 - day, 8),
          rollover       |-> IF IsWeekend(refDate)
                             THEN DaysLater(refDate, 7 - day, 2)
                             ELSE DaysLater(refDate, 4 - day, 14) ]

rolloverSemiWeekly(refDate) ==
    LET day == UTCDay(refDate)
    IN  IF IsWeekend(refDate)
        THEN [ nearExpiration |-> DaysLater(refDate, 12 - day, 8),
               nextExpiration |-> DaysLater(refDate, 26 - day, 8),
               rollover       |-> DaysLater(refDate, 7 - day, 2) ]
        ELSE [ nearExpiration |-> DaysLater(refDate, 12 - day, 8),
               nextExpiration |-> DaysLater(refDate, 19 - day, 8),
               rollover       |-> DaysLater(refDate, 4 - day, 14) ]
=============================================================================
