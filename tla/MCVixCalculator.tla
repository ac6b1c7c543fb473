-------------------------- MODULE MCVixCalculator --------------------------
(***************************************************************************)
(* Two calendars for TLC; a day has eight slots and the instrument An (or  *)
(* Bn) expires in slot n.                                                  *)
(*                                                                         *)
(* Daily: an expiry on each day boundary and a time period of one day, so  *)
(* that the near term is always the first to expire.  The last two terms   *)
(* are listed while the query runs.                                        *)
(*                                                                         *)
(* Sparse: expiries thin out and the time period is two days, so that one  *)
(* rollover leaves the near term in place and the next one replaces it.    *)
(***************************************************************************)
EXTENDS VixCalculator

CONSTANTS A8, A16, B16, A24, A28, A32, A40, A48

DailySymbol == {A8, A16, A24, A32, A40}

DailyExpiryOf ==
    [ s \in DailySymbol |->
        CASE s = A8 -> 8
          [] s = A16 -> 16
          [] s = A24 -> 24
          [] s = A32 -> 32
          [] s = A40 -> 40 ]

DailyListingOf ==
    [ s \in DailySymbol |-> CASE s = A32 -> 7 [] s = A40 -> 9 [] OTHER -> 0 ]

SparseSymbol == {A8, A16, B16, A28, A32, A48}

SparseExpiryOf ==
    [ s \in SparseSymbol |->
        CASE s = A8 -> 8
          [] s \in {A16, B16} -> 16
          [] s = A28 -> 28
          [] s = A32 -> 32
          [] s = A48 -> 48 ]

SparseListingOf == [ s \in SparseSymbol |-> IF s = A28 THEN 27 ELSE 0 ]
=============================================================================
