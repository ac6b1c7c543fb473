--------------------------- MODULE CalendarProofs ---------------------------
(***************************************************************************)
(* What Calendar's run shows for two weeks, proved for every moment: the   *)
(* Friday arithmetic of mfivDates brackets now + 14 days, and agrees with  *)
(* buildExpiries on every calendar of listed instruments.                  *)
(***************************************************************************)
EXTENDS Calendar, MfivDatesProofs, WellFoundedInduction, TLAPS

(***************************************************************************)
(* A nonempty set of moments has a least one.                              *)
(***************************************************************************)
LEMMA LeastExists ==
    ASSUME NEW S \in SUBSET Nat, S # {}
    PROVE  Listed!Least(S) # {}
<1>1. IsWellFoundedOn(OpToRel(<, Nat), Nat)
  BY NatLessThanWellFounded
<1>2. PICK e \in S : \A x \in S : ~(<<x, e>> \in OpToRel(<, Nat))
  BY <1>1, WFMin
<1>3. \A x \in S : <<x, e>> \in OpToRel(<, Nat) <=> x < e
  BY DEF OpToRel
<1>4. \A x \in S : ~(x < e)
  BY <1>2, <1>3, Zenon
<1>5. \A x \in S : e <= x
  BY <1>4
<1> QED
  BY <1>5 DEF Listed!Least

(***************************************************************************)
(* When the active expiries around now + timePeriod are exactly near and   *)
(* next, with near <= now + timePeriod < next, buildExpiries answers them. *)
(***************************************************************************)
LEMMA AnswersTheBracket ==
    ASSUME NEW t \in Nat,
           NEW near \in Nat, NEW next \in Nat,
           { e \in Listed!ActiveExpiries(t) : near <= e /\ e <= next }
               = {near, next},
           near <= t + TimePeriod * MinutesPerDay,
           t + TimePeriod * MinutesPerDay < next
    PROVE  { <<x.near, x.next>> : x \in Listed!buildExpiries(t) }
               = { <<near, next>> }
<1> DEFINE target == t + TimePeriod * MinutesPerDay
           active == Listed!ActiveExpiries(t)
<1>1. active \in SUBSET Nat
  BY CalendarAssumption DEF CalendarAssumption, Listed!ActiveExpiries, Listed!Available
<1>2. near \in active /\ next \in active
  OBVIOUS
<1>3. target \in Nat
  BY CalendarAssumption DEF CalendarAssumption, MinutesPerDay
<1>4. \A e \in active : (e <= target <=> e <= near) /\ (e > target <=> e >= next)
  BY <1>1, <1>3
<1> HIDE DEF active, target
<1>5. Listed!Greatest({e \in active : e <= target}) = {near}
  <2>1. \A e \in active : e <= target <=> e <= near
    BY <1>4
  <2>2. {e \in active : e <= target} = {e \in active : e <= near}
    BY <2>1
  <2>3. \A x \in {e \in active : e <= near} : x <= near
    OBVIOUS
  <2>4. \A y \in active : (\A x \in {e \in active : e <= near} : x <= y)
                           /\ y <= near => y = near
    BY <1>1, <1>2
  <2> QED  BY <1>2, <2>2, <2>3, <2>4 DEF Listed!Greatest
<1>6. Listed!Least({e \in active : e > target}) = {next}
  <2>1. \A e \in active : e > target <=> e >= next
    BY <1>4
  <2>2. {e \in active : e > target} = {e \in active : e >= next}
    BY <2>1
  <2>3. \A x \in {e \in active : e >= next} : next <= x
    BY <1>1
  <2>4. \A y \in active : (\A x \in {e \in active : e >= next} : y <= x)
                           /\ y >= next => y = next
    BY <1>1, <1>2
  <2> QED  BY <1>2, <2>2, <2>3, <2>4 DEF Listed!Least
<1>7. Listed!Greatest(Listed!NearCandidates(t)) = {near}
  BY <1>5 DEF Listed!NearCandidates, active, target
<1>8. Listed!Least(Listed!NextCandidates(t)) = {next}
  BY <1>6 DEF Listed!NextCandidates, active, target
<1>9. PICK r : r \in Listed!Least(Listed!ActiveExpiries(t))
  BY <1>1, <1>2, LeastExists DEF active
<1>10. Listed!buildExpiries(t) =
         { Listed!Answer(t, near, next, rolloverAt) :
               rolloverAt \in Listed!Least(Listed!ActiveExpiries(t)) }
  BY <1>7, <1>8 DEF Listed!buildExpiries
<1>11. \A rolloverAt : /\ Listed!Answer(t, near, next, rolloverAt).near = near
                       /\ Listed!Answer(t, near, next, rolloverAt).next = next
  BY DEF Listed!Answer
<1> QED
  BY <1>9, <1>10, <1>11

-----------------------------------------------------------------------------
(***************************************************************************)
(* Although it reads the weekday and the hour of now instead of those of   *)
(* the moment two weeks ahead, rolloverWeekly chooses as mfivDates does.   *)
(***************************************************************************)
LEMMA WeeklyIsMfivDates ==
    ASSUME NEW t \in Nat
    PROVE  rolloverWeekly(t) = mfivDates(t, 14)
<1>1. PICK w \in Nat, d \in Nat, m \in Nat :
         d < 7 /\ m < 1440 /\ t = Moment(w, d, m)
  BY MomentInWeek, ZenonT(30)
<1>2. Day(t) = 7 * w + d /\ UTCDay(t) = d /\ UTCHour(t) = m \div 60
  BY <1>1, MomentParts
<1>3. /\ UTCDay(t + 14 * MinutesPerDay) = d
      /\ UTCHour(t + 14 * MinutesPerDay) = m \div 60
  <2>1. t + 14 * MinutesPerDay = Moment(w + 2, d, m) /\ w + 2 \in Nat
    BY <1>1 DEF MinutesPerDay, Moment
  <2>2. /\ UTCDay(Moment(w + 2, d, m)) = d
        /\ UTCHour(Moment(w + 2, d, m)) = m \div 60
    BY <1>1, <2>1, MomentParts
  <2> QED
    BY <2>1, <2>2
<1> DEFINE days == IF d = 5 /\ m \div 60 >= 8 THEN 21 ELSE IF d = 6 THEN 20 ELSE 19 - d
           n == (7 * w + d + days) * 1440 + 480
<1>4. days \in Int
  OBVIOUS
<1>5. NextExpiration(t, 14) = n
  BY <1>2, <1>3 DEF NextExpiration, DaysAhead, MinutesPerDay, ExpiryDay, ExpiryHour
<1>6. mfivDates(t, 14) = [ nearExpiration |-> n - 7 * 1440, nextExpiration |-> n,
                           rollover |-> n - 14 * 1440 ]
  BY <1>5 DEF mfivDates, MinutesPerDay
<1>7. rolloverWeekly(t) = [ nearExpiration |-> (7 * w + d + (days - 7)) * 1440 + 480,
                            nextExpiration |-> n,
                            rollover |-> (7 * w + d + (days - 14)) * 1440 + 480 ]
  BY <1>2 DEF rolloverWeekly, DaysLater, MinutesPerDay
<1> HIDE DEF days
<1>8. /\ (7 * w + d + (days - 7)) * 1440 + 480 = n - 7 * 1440
      /\ (7 * w + d + (days - 14)) * 1440 + 480 = n - 14 * 1440
  BY <1>4
<1> QED
  BY <1>6, <1>7, <1>8

(***************************************************************************)
(* The terms of rolloverSemiWeekly bracket the moment two weeks ahead up   *)
(* to the last minute before the rollover, which follows within a part of  *)
(* the week but for the first three hours of a Sunday.                     *)
(***************************************************************************)
LEMMA SemiWeeklyBrackets ==
    ASSUME NEW t \in Nat
    PROVE  LET semi == rolloverSemiWeekly(t)
           IN  /\ t < semi.rollover
               /\ semi.nearExpiration <= t + TwoWeeks
               /\ semi.rollover - 1 + TwoWeeks < semi.nextExpiration
               /\ ~(UTCDay(t) = 0 /\ UTCHour(t) < 3) => semi.rollover <= t + LongerPart
<1>1. PICK w \in Nat, d \in Nat, m \in Nat :
         d < 7 /\ m < 1440 /\ t = Moment(w, d, m)
  BY MomentInWeek, ZenonT(30)
<1>2. Day(t) = 7 * w + d /\ UTCDay(t) = d /\ UTCHour(t) = m \div 60
  BY <1>1, MomentParts
<1>3. t = (7 * w + d) * 1440 + m
  BY <1>1 DEF Moment
<1>4. CASE IsWeekend(t)
  <2>1. rolloverSemiWeekly(t) =
           [ nearExpiration |-> (7 * w + 12) * 1440 + 480,
             nextExpiration |-> (7 * w + 26) * 1440 + 480,
             rollover       |-> (7 * w + 7) * 1440 + 120 ]
    <3>1. /\ DaysLater(t, 12 - d, 8) = (7 * w + 12) * 1440 + 480
          /\ DaysLater(t, 26 - d, 8) = (7 * w + 26) * 1440 + 480
          /\ DaysLater(t, 7 - d, 2) = (7 * w + 7) * 1440 + 120
      BY <1>2 DEF DaysLater, MinutesPerDay
    <3> QED
      BY <1>2, <1>4, <3>1 DEF rolloverSemiWeekly
  <2>2. ~(d = 0 /\ m \div 60 < 3) => (d = 4 /\ m >= 840) \/ d = 5 \/ d = 6
    <3>1. (d = 4 /\ m \div 60 >= 14) \/ d \in {5, 6} \/ (d = 0 /\ m \div 60 <= 2)
      BY <1>2, <1>4 DEF IsWeekend
    <3>2. (m \div 60 >= 14 <=> m >= 840) /\ (m \div 60 <= 2 <=> m \div 60 < 3)
      OBVIOUS
    <3> QED
      BY <3>1, <3>2
  <2>3. ~(d = 0 /\ m \div 60 < 3) => (7 * w + 7) * 1440 + 120 <= t + LongerPart
    BY <1>1, <1>3, <2>2 DEF LongerPart, MinutesPerDay
  <2>4. /\ t < (7 * w + 7) * 1440 + 120
        /\ (7 * w + 12) * 1440 + 480 <= t + TwoWeeks
        /\ (7 * w + 7) * 1440 + 120 - 1 + TwoWeeks < (7 * w + 26) * 1440 + 480
    BY <1>1, <1>3 DEF TwoWeeks, MinutesPerDay
  <2> QED
    BY <1>2, <2>1, <2>3, <2>4
<1>5. CASE ~IsWeekend(t)
  <2>1. rolloverSemiWeekly(t) =
           [ nearExpiration |-> (7 * w + 12) * 1440 + 480,
             nextExpiration |-> (7 * w + 19) * 1440 + 480,
             rollover       |-> (7 * w + 4) * 1440 + 840 ]
    <3>1. /\ DaysLater(t, 12 - d, 8) = (7 * w + 12) * 1440 + 480
          /\ DaysLater(t, 19 - d, 8) = (7 * w + 19) * 1440 + 480
          /\ DaysLater(t, 4 - d, 14) = (7 * w + 4) * 1440 + 840
      BY <1>2 DEF DaysLater, MinutesPerDay
    <3> QED
      BY <1>2, <1>5, <3>1 DEF rolloverSemiWeekly
  <2>2. d < 4 \/ (d = 4 /\ m < 840)
    <3>1. d # 5 /\ d # 6 /\ ~(d = 4 /\ m \div 60 >= 14)
      BY <1>2, <1>5 DEF IsWeekend
    <3>2. m \div 60 >= 14 <=> m >= 840
      OBVIOUS
    <3> QED
      BY <1>1, <3>1, <3>2
  <2>3. ~(d = 0 /\ m \div 60 < 3) => d # 0 \/ m >= 180
    OBVIOUS
  <2>4. ~(d = 0 /\ m \div 60 < 3) => (7 * w + 4) * 1440 + 840 <= t + LongerPart
    BY <1>1, <1>3, <2>2, <2>3 DEF LongerPart, MinutesPerDay
  <2>5. /\ t < (7 * w + 4) * 1440 + 840
        /\ (7 * w + 12) * 1440 + 480 <= t + TwoWeeks
        /\ (7 * w + 4) * 1440 + 840 - 1 + TwoWeeks < (7 * w + 19) * 1440 + 480
    BY <1>1, <1>3, <2>2 DEF TwoWeeks, MinutesPerDay
  <2> QED
    BY <1>2, <2>1, <2>4, <2>5
<1> QED
  BY <1>4, <1>5

(***************************************************************************)
(* now is a moment, and dates and expiries are the answers for it.         *)
(***************************************************************************)
AnswersNow ==
    /\ now \in Nat
    /\ dates = mfivDates(now, TimePeriod)
    /\ expiries = Listed!buildExpiries(now)

(***************************************************************************)
(* Whatever the time period, the answers kept are those of the clock.      *)
(***************************************************************************)
LEMMA AnswersAreCurrent == Spec => []AnswersNow
<1>1. Init => AnswersNow
  BY CalendarAssumption DEF CalendarAssumption, Init, AnswersNow
<1>2. AnswersNow /\ [Next]_calendarVars => AnswersNow'
  <2> SUFFICES ASSUME AnswersNow, [Next]_calendarVars PROVE AnswersNow'
    OBVIOUS
  <2>1. CASE Request
    <3>1. PICK t \in (now + 1) .. (now + MaxStep) : Answers(t)
      BY <2>1 DEF Request
    <3>2. t \in Nat
      BY <3>1, CalendarAssumption DEF CalendarAssumption, AnswersNow
    <3> QED  BY <3>1, <3>2 DEF Answers, AnswersNow
  <2>2. CASE UNCHANGED calendarVars
    BY <2>2 DEF calendarVars, AnswersNow
  <2> QED  BY <2>1, <2>2 DEF Next
<1> QED
  BY <1>1, <1>2, PTL DEF Spec

(***************************************************************************)
(* The live path always interpolates between two Friday expiries that      *)
(* bracket now + 14 days, at any moment from week 0 on.                    *)
(***************************************************************************)
THEOREM BracketingAlways ==
    ASSUME TimePeriod = 14
    PROVE  Spec => []Bracketing
<1>1. AnswersNow => Bracketing
  BY FourteenDaysBracket DEF AnswersNow, Bracketing
<1> QED
  BY <1>1, AnswersAreCurrent, PTL

(***************************************************************************)
(* Live and replay path use the same terms on every calendar of listed     *)
(* instruments that has just the two Fridays between those Fridays.        *)
(***************************************************************************)
THEOREM BothPathsAgreeAlways ==
    ASSUME TimePeriod = 14
    PROVE  Spec => []BothPathsAgree
<1>1. AnswersNow => BothPathsAgree
  <2> SUFFICES ASSUME AnswersNow,
                      OnlyFridaysAround(dates.nearExpiration, dates.nextExpiration)
               PROVE  { <<x.near, x.next>> : x \in expiries } =
                         { <<dates.nearExpiration, dates.nextExpiration>> }
    BY DEF BothPathsAgree
  <2>1. Bracketing
    BY FourteenDaysBracket DEF AnswersNow, Bracketing
  <2>2. dates.nearExpiration \in Nat /\ dates.nextExpiration \in Nat
    <3>1. /\ dates.nearExpiration \in Listed!ActiveExpiries(now)
          /\ dates.nextExpiration \in Listed!ActiveExpiries(now)
      BY DEF OnlyFridaysAround
    <3> QED
      BY <3>1, CalendarAssumption
      DEF CalendarAssumption, Listed!ActiveExpiries, Listed!Available
  <2> QED
    BY <2>1, <2>2, AnswersTheBracket
    DEF AnswersNow, Bracketing, OnlyFridaysAround
<1> QED
  BY <1>1, AnswersAreCurrent, PTL

(***************************************************************************)
(* The pair is replaced in the first request at or after the rollover it   *)
(* announces and never before.                                             *)
(***************************************************************************)
THEOREM RollsOverWhenAnnouncedAlways ==
    ASSUME TimePeriod = 14
    PROVE  Spec => RollsOverWhenAnnounced
<1>1. ASSUME AnswersNow, AnswersNow', now' > now
      PROVE  /\ now' < dates.rollover => dates' = dates
             /\ now' >= dates.rollover =>
                   /\ dates'.nearExpiration >= dates.nextExpiration
                   /\ dates'.rollover > now'
  <2>1. /\ dates = mfivDates(now, 14)
        /\ dates' = mfivDates(now', 14)
        /\ now \in Nat /\ now' \in Nat
    BY <1>1 DEF AnswersNow
  <2> QED
    BY <1>1, <2>1, PairAfterPair
<1>2. AnswersNow /\ AnswersNow' /\ [Next]_calendarVars =>
         [ /\ now' < dates.rollover => dates' = dates
           /\ now' >= dates.rollover =>
                 /\ dates'.nearExpiration >= dates.nextExpiration
                 /\ dates'.rollover > now' ]_calendarVars
  <2>1. AnswersNow /\ Next => now' > now
    BY CalendarAssumption
    DEF CalendarAssumption, AnswersNow, Next, Request, Answers
  <2> QED  BY <1>1, <2>1
<1> QED
  BY <1>2, AnswersAreCurrent, PTL DEF Spec, RollsOverWhenAnnounced

(***************************************************************************)
(* SupersededTermsBracket: at every moment the calendars of the superseded *)
(* calculator (src/lib/vix_calculator.ts) choose terms around the moment   *)
(* two weeks ahead and roll over in time.                                  *)
(***************************************************************************)
THEOREM SupersededTermsBracketAlways == Spec => []SupersededTermsBracket
<1>1. AnswersNow => SupersededTermsBracket
  BY WeeklyIsMfivDates, SemiWeeklyBrackets DEF AnswersNow, SupersededTermsBracket
<1> QED
  BY <1>1, AnswersAreCurrent, PTL
=============================================================================
