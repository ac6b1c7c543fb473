----------------------------- MODULE MCCalendar -----------------------------
(***************************************************************************)
(* Two weeks of requests, every minute, against the instruments a Deribit  *)
(* week has: Friday expiries listed four weeks ahead (the one of day 19    *)
(* too late, so that the near term is missing for a while) and daily ones  *)
(* listed two days ahead.                                                  *)
(***************************************************************************)
EXTENDS Calendar

At8(day) == day * MinutesPerDay + 480

Fridays == {5, 12, 19, 26, 33}
Dailies == {2, 6, 13}
ExpiryDays == Fridays \cup Dailies

MCSymbol == ExpiryDays
MCExpiryOf == [ d \in ExpiryDays |-> At8(d) ]
MCListingOf ==
    [ d \in ExpiryDays |->
        CASE d \in Dailies -> IF d = 2 THEN 0 ELSE At8(d - 2)
          [] d \in {5, 12, 26} -> 0
          [] d = 19 -> At8(1) + 30
          [] d = 33 -> At8(5) ]
=============================================================================
