--------------------------- MODULE MfivDatesProofs ---------------------------
(***************************************************************************)
(* The Friday arithmetic of mfivDates, for every moment: what the proofs   *)
(* about the live path and about the calendars rest on.                    *)
(***************************************************************************)
EXTENDS MfivDates, TLAPS

\* The minute m of the weekday d of the week w.
Moment(w, d, m) == (7 * w + d) * 1440 + m

(***************************************************************************)
(* Every moment is some minute of some weekday of some week.               *)
(***************************************************************************)
LEMMA MomentInWeek ==
    ASSUME NEW t \in Nat
    PROVE  \E w \in Nat, d \in Nat, m \in Nat :
              d < 7 /\ m < 1440 /\ t = Moment(w, d, m)
<1>1. /\ t \div 1440 \in Nat /\ t % 1440 \in Nat /\ t % 1440 < 1440
      /\ t = (t \div 1440) * 1440 + (t % 1440)
  OBVIOUS
<1> DEFINE q == t \div 1440
<1>2. /\ q \div 7 \in Nat /\ q % 7 \in Nat /\ q % 7 < 7
      /\ q = 7 * (q \div 7) + (q % 7)
  BY <1>1
<1>3. t = (7 * (q \div 7) + (q % 7)) * 1440 + (t % 1440)
  BY <1>1, <1>2
<1> QED
  BY <1>1, <1>2, <1>3 DEF Moment

(***************************************************************************)
(* The minute of the day, day, weekday and hour of such a moment.          *)
(***************************************************************************)
LEMMA MomentMinute ==
    ASSUME NEW w \in Nat, NEW d \in Nat, NEW m \in Nat, m < 1440
    PROVE  Moment(w, d, m) % MinutesPerDay = m
BY DEF MinutesPerDay, Moment

LEMMA MomentParts ==
    ASSUME NEW w \in Nat, NEW d \in Nat, NEW m \in Nat, d < 7, m < 1440
    PROVE  /\ Moment(w, d, m) \in Nat
           /\ Day(Moment(w, d, m)) = 7 * w + d
           /\ UTCDay(Moment(w, d, m)) = d
           /\ UTCHour(Moment(w, d, m)) = m \div 60
<1> DEFINE t == Moment(w, d, m)
<1>1. t \in Nat /\ Day(t) = 7 * w + d
  BY DEF Day, MinutesPerDay, Moment
<1>2. t % MinutesPerDay = m
  BY MomentMinute
<1>3. (7 * w + d) % 7 = d
  OBVIOUS
<1> QED
  BY <1>1, <1>2, <1>3 DEF UTCDay, UTCHour

LEMMA FridayMoment ==
    ASSUME NEW w \in Nat
    PROVE  IsFridayExpiry(Moment(w, 5, 480))
<1> DEFINE t == Moment(w, 5, 480)
<1>1. UTCDay(t) = 5 /\ t % MinutesPerDay = 480
  BY MomentParts, MomentMinute
<1> QED
  BY <1>1 DEF IsFridayExpiry, ExpiryDay, ExpiryHour

-----------------------------------------------------------------------------
(***************************************************************************)
(* For the 14 days every deployment uses, mfivDates brackets.              *)
(***************************************************************************)
LEMMA FourteenDaysBracket ==
    ASSUME NEW t \in Nat
    PROVE  LET x == mfivDates(t, 14)
           IN  /\ x.nearExpiration \in Nat /\ x.nextExpiration \in Nat
               /\ IsFridayExpiry(x.nearExpiration)
               /\ IsFridayExpiry(x.nextExpiration)
               /\ x.nearExpiration <= t + 14 * MinutesPerDay
               /\ t + 14 * MinutesPerDay < x.nextExpiration
<1>1. PICK w \in Nat, d \in Nat, m \in Nat :
         d < 7 /\ m < 1440 /\ t = Moment(w, d, m)
  BY MomentInWeek, ZenonT(30)
<1> DEFINE target == t + 14 * MinutesPerDay
           next   == NextExpiration(t, 14)
<1>2. target = Moment(w + 2, d, m) /\ w + 2 \in Nat
  BY <1>1 DEF MinutesPerDay, Moment
<1>3. UTCDay(target) = d /\ UTCHour(target) = m \div 60
  <2>1. /\ UTCDay(Moment(w + 2, d, m)) = d
        /\ UTCHour(Moment(w + 2, d, m)) = m \div 60
    BY <1>1, <1>2, MomentParts
  <2> QED  BY <1>2, <2>1
<1>4. Day(t) = 7 * w + d /\ UTCDay(t) = d
  BY <1>1, MomentParts
<1>5. DaysAhead(t, 14) = IF d = 5 /\ m \div 60 >= 8 THEN 21
                         ELSE IF d = 6 THEN 20 ELSE 19 - d
  BY <1>3, <1>4 DEF DaysAhead, ExpiryDay, ExpiryHour
<1>6. PICK k \in {2, 3} :
         /\ next = Moment(w + k, 5, 480)
         /\ k = 3 <=> d = 6 \/ (d = 5 /\ m >= 480)
  <2>1. m \div 60 >= 8 <=> m >= 480
    OBVIOUS
  <2>2. next = (7 * w + d + DaysAhead(t, 14)) * 1440 + 480
    BY <1>4 DEF NextExpiration, MinutesPerDay, ExpiryHour
  <2> QED  BY <1>5, <2>1, <2>2 DEF Moment
<1>7. IsFridayExpiry(next)
  <2>1. w + k \in Nat
    BY <1>6
  <2> QED  BY <1>6, <2>1, FridayMoment
<1>8. IsFridayExpiry(next - 7 * MinutesPerDay)
  <2>1. next - 7 * MinutesPerDay = Moment(w + k - 1, 5, 480)
    BY <1>6 DEF MinutesPerDay, Moment
  <2>2. w + k - 1 \in Nat
    BY <1>6
  <2> QED  BY <2>1, <2>2, FridayMoment
<1>9. /\ next - 7 * MinutesPerDay <= target
      /\ target < next
  BY <1>1, <1>2, <1>6 DEF MinutesPerDay, Moment
<1>10. next \in Nat /\ next - 7 * MinutesPerDay \in Nat
  BY <1>6 DEF Moment, MinutesPerDay
<1> QED
  BY <1>7, <1>8, <1>9, <1>10 DEF mfivDates

-----------------------------------------------------------------------------
(***************************************************************************)
(* Two Friday expiries less than a week apart are the same one.            *)
(***************************************************************************)
LEMMA FridaysAreWeeksApart ==
    ASSUME NEW a \in Nat, NEW b \in Nat, IsFridayExpiry(a), IsFridayExpiry(b)
    PROVE  /\ a < b => b >= a + 7 * MinutesPerDay
           /\ b < a => a >= b + 7 * MinutesPerDay
<1>1. \A t \in Nat : IsFridayExpiry(t) => \E w \in Nat : t = Moment(w, 5, 480)
  <2> SUFFICES ASSUME NEW t \in Nat, IsFridayExpiry(t)
               PROVE  \E w \in Nat : t = Moment(w, 5, 480)
    OBVIOUS
  <2>1. PICK w \in Nat, d \in Nat, m \in Nat :
           d < 7 /\ m < 1440 /\ t = Moment(w, d, m)
    BY MomentInWeek, ZenonT(30)
  <2>2. UTCDay(t) = d /\ (t % MinutesPerDay) = m
    BY <2>1, MomentParts, MomentMinute
  <2>3. d = 5 /\ m = 480
    BY <2>2 DEF IsFridayExpiry, ExpiryDay, ExpiryHour
  <2> QED  BY <2>1, <2>3
<1>2. PICK v \in Nat, w \in Nat : a = Moment(v, 5, 480) /\ b = Moment(w, 5, 480)
  BY <1>1
<1> QED
  BY <1>2 DEF Moment, MinutesPerDay

(***************************************************************************)
(* From a request at t to a later one at u: the same pair up to the        *)
(* rollover announced at t, a later pair from there on.                    *)
(***************************************************************************)
LEMMA PairAfterPair ==
    ASSUME NEW t \in Nat, NEW u \in Nat, t < u
    PROVE  LET x == mfivDates(t, 14)
               y == mfivDates(u, 14)
           IN  /\ u < x.rollover => y = x
               /\ u >= x.rollover => /\ y.nearExpiration >= x.nextExpiration
                                     /\ y.rollover > u
<1> DEFINE n == NextExpiration(t, 14)
           p == NextExpiration(u, 14)
<1>1. /\ n \in Nat /\ IsFridayExpiry(n)
      /\ n - 7 * MinutesPerDay <= t + 14 * MinutesPerDay
      /\ t + 14 * MinutesPerDay < n
  BY FourteenDaysBracket DEF mfivDates
<1>2. /\ p \in Nat /\ IsFridayExpiry(p)
      /\ p - 7 * MinutesPerDay <= u + 14 * MinutesPerDay
      /\ u + 14 * MinutesPerDay < p
  BY FourteenDaysBracket DEF mfivDates
<1> HIDE DEF n, p
<1>3. /\ n < p => p >= n + 7 * MinutesPerDay
      /\ p < n => n >= p + 7 * MinutesPerDay
  BY <1>1, <1>2, FridaysAreWeeksApart
<1>4. u < n - 14 * MinutesPerDay => n = p
  BY <1>1, <1>2, <1>3 DEF MinutesPerDay
<1>5. u >= n - 14 * MinutesPerDay =>
         p - 7 * MinutesPerDay >= n /\ p - 14 * MinutesPerDay > u
  BY <1>1, <1>2, <1>3 DEF MinutesPerDay
<1> QED
  BY <1>4, <1>5 DEF mfivDates, n, p
=============================================================================
