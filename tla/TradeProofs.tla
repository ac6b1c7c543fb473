---------------------------- MODULE TradeProofs ------------------------------
(***************************************************************************)
(* The order of the buckets, proved for every interval and every sequence  *)
(* of messages and restarts; and, at the end, that the processes of the    *)
(* trade services keep it.                                                 *)
(***************************************************************************)
EXTENDS TradeServices, TLAPS

(***************************************************************************)
(* Time buckets: a timestamp is in its bucket, buckets are ordered.        *)
(***************************************************************************)
LEMMA Division ==
    ASSUME NEW t \in Nat
    PROVE  /\ TimeBucket(t) \in Nat
           /\ TimeBucket(t) * Interval <= t
           /\ t < EndOf(TimeBucket(t))
BY CaptureAssumption, SMTT(30) DEF CaptureAssumption, TimeBucket, EndOf

LEMMA EndsIncrease ==
    ASSUME NEW b \in Nat, NEW c \in Nat, b < c
    PROVE  /\ EndOf(b) \in Nat /\ EndOf(c) \in Nat
           /\ EndOf(b) < EndOf(c) /\ EndOf(b) <= c * Interval
BY CaptureAssumption, SMTT(30) DEF CaptureAssumption, EndOf

LEMMA LaterBucket ==
    ASSUME NEW t \in Nat, NEW u \in Nat
    PROVE  /\ TimeBucket(t) < TimeBucket(u) => t < u
           /\ t <= u => TimeBucket(t) <= TimeBucket(u)
<1>1. /\ TimeBucket(t) \in Nat /\ TimeBucket(u) \in Nat
      /\ TimeBucket(t) * Interval <= t /\ t < EndOf(TimeBucket(t))
      /\ TimeBucket(u) * Interval <= u /\ u < EndOf(TimeBucket(u))
  BY Division
<1>2. \A b, c \in Nat : /\ b * Interval \in Nat /\ EndOf(b) \in Nat
                        /\ b < c => EndOf(b) <= c * Interval
  BY EndsIncrease, CaptureAssumption DEF CaptureAssumption, EndOf
<1>3. TimeBucket(t) < TimeBucket(u) => t < u
  BY <1>1, <1>2
<1>4. TimeBucket(u) < TimeBucket(t) => u < t
  BY <1>1, <1>2
<1> QED
  BY <1>1, <1>3, <1>4

-----------------------------------------------------------------------------
(***************************************************************************)
(* The order of two emitted buckets is kept because the open bucket is     *)
(* later than all of them, and because the first message after a restart,  *)
(* when messages come in order, is later than all of them.                 *)
(***************************************************************************)
Opened == inProgress.summaries = 1

InTheirBucket ==
    /\ ~Opened /\ ~restarted => emitted = <<>>
    /\ Opened \/ emitted # <<>> => latestTime \in Nat
    /\ Opened => /\ TimeBucket(inProgress.closeTimestamp)
                        <= TimeBucket(inProgress.openTimestamp)
                 /\ inOrder => inProgress.closeTimestamp = latestTime

OptionsBeforeOpen ==
    /\ (~restarted \/ inOrder) /\ Opened =>
          \A i \in 1 .. Len(emitted) :
              emitted[i].timestamp < EndOf(TimeBucket(inProgress.openTimestamp))
    /\ inOrder =>
          \A i \in 1 .. Len(emitted) :
              emitted[i].timestamp < EndOf(TimeBucket(latestTime))

TradesBeforeLatest ==
    inOrder => \A i \in 1 .. Len(emitted) : emitted[i].closeTimestamp < latestTime

RowsWereEmitted ==
    /\ \A key \in optionRows :
          \E i \in 1 .. Len(emitted) : key = emitted[i].timestamp
    /\ \A key \in tradeRows :
          \E i \in 1 .. Len(emitted) : key = emitted[i].closeTimestamp

IInv ==
    /\ CaptureTypeOK
    /\ InTheirBucket
    /\ OptionsBeforeOpen
    /\ TradesBeforeLatest
    /\ OptionKeysIncrease
    /\ TradeKeysIncrease
    /\ NoLookAhead
    /\ RowsWereEmitted
    /\ NothingLost

LEMMA InvInit == Init => IInv
<1> SUFFICES ASSUME Init PROVE IInv
  OBVIOUS
<1>1. emitted = <<>> /\ Len(emitted) = 0 /\ ~Opened
  BY DEF Init, Fresh, Opened
<1>2. inOrder \in BOOLEAN /\ restarted \in BOOLEAN
  BY Zenon DEF Init
<1>3. emitted \in Seq(BucketRecord)
  BY <1>1
<1>4. CaptureTypeOK
  BY <1>2, <1>3 DEF Init, CaptureTypeOK, Fresh
<1>5. RowsWereEmitted /\ NothingLost
  BY DEF Init, RowsWereEmitted, NothingLost
<1> QED
  BY <1>1, <1>4, <1>5 DEF IInv, InTheirBucket, OptionsBeforeOpen,
     TradesBeforeLatest, OptionKeysIncrease, TradeKeysIncrease, NoLookAhead

LEMMA TypeStep == CaptureTypeOK /\ [Next]_vars => CaptureTypeOK'
<1> SUFFICES ASSUME CaptureTypeOK, [Next]_vars PROVE CaptureTypeOK'
  OBVIOUS
<1> USE DEF CaptureTypeOK
<1>1. ASSUME NEW t \in Timestamp, Observe(t)
      PROVE  latestTime' \in Nat \cup {-1} /\ inOrder' \in BOOLEAN
  <2>1. latestTime' \in Nat \cup {-1}
    BY <1>1, CaptureAssumption DEF CaptureAssumption, Observe
  <2>2. inOrder' \in BOOLEAN
    BY <1>1, Zenon DEF Observe
  <2> QED  BY <2>1, <2>2
<1>2. Bucket \in BucketRecord
  <2>1. TimeBucket(inProgress.openTimestamp) \in Nat
    BY Division
  <2>2. EndOf(TimeBucket(inProgress.openTimestamp)) \in Nat
    BY <2>1, CaptureAssumption DEF CaptureAssumption, EndOf
  <2> QED  BY <2>2 DEF Bucket, BucketRecord
<1>3. ASSUME NEW t \in Timestamp, EmittingMessage(t)
      PROVE  CaptureTypeOK'
  <2>1. t \in Nat
    BY CaptureAssumption DEF CaptureAssumption
  <2>2. inProgress' \in
          [ summaries : {0, 1}, openTimestamp : Nat, closeTimestamp : Nat ]
    BY <1>3, <2>1 DEF EmittingMessage, Updated, Fresh
  <2>3. emitted' \in Seq(BucketRecord)
    BY <1>2, <1>3 DEF EmittingMessage
  <2>4. /\ optionRows' \in SUBSET Nat /\ tradeRows' \in SUBSET Nat
        /\ lost' \in [ option : SUBSET Nat, trade : SUBSET Nat ]
    <3>1. OptionKey(Bucket) \in Nat /\ TradeKey(Bucket) \in Nat
      BY <1>2 DEF OptionKey, TradeKey, BucketRecord
    <3>2. /\ lost.option \subseteq Nat /\ lost.trade \subseteq Nat
          /\ optionRows \subseteq Nat /\ tradeRows \subseteq Nat
      OBVIOUS
    <3>3. CASE UNCHANGED <<optionRows, tradeRows, lost>>
      BY <3>3
    <3>4. CASE /\ optionRows' = optionRows \cup {OptionKey(Bucket)}
               /\ tradeRows' = tradeRows \cup {TradeKey(Bucket)}
               /\ lost' = [ option |-> lost.option \cup ({OptionKey(Bucket)} \cap optionRows),
                            trade  |-> lost.trade \cup ({TradeKey(Bucket)} \cap tradeRows) ]
      <4>1. /\ lost.option \cup ({OptionKey(Bucket)} \cap optionRows) \in SUBSET Nat
            /\ lost.trade \cup ({TradeKey(Bucket)} \cap tradeRows) \in SUBSET Nat
        BY <3>2
      <4> QED  BY <3>1, <3>2, <3>4, <4>1
    <3> QED  BY <1>3, <3>3, <3>4 DEF EmittingMessage, Capture
  <2>5. restarted' \in BOOLEAN
    BY <1>3, Zenon DEF EmittingMessage
  <2> QED  BY <1>1, <1>3, <2>2, <2>3, <2>4, <2>5 DEF EmittingMessage
<1>4. ASSUME NEW t \in Timestamp, Message(t)
      PROVE  CaptureTypeOK'
  <2>1. t \in Nat
    BY CaptureAssumption DEF CaptureAssumption
  <2>2. inProgress' \in
          [ summaries : {0, 1}, openTimestamp : Nat, closeTimestamp : Nat ]
    BY <1>4, <2>1 DEF Message, Updated
  <2> QED  BY <1>1, <1>4, <2>2 DEF Message
<1>5. CASE StartAnew
  <2>1. restarted' \in BOOLEAN /\ inOrder' \in BOOLEAN
    BY <1>5, Zenon DEF StartAnew
  <2> QED  BY <1>5, <2>1 DEF StartAnew, Fresh
<1>6. CASE UNCHANGED vars
  BY <1>6 DEF vars
<1> QED
  BY <1>3, <1>4, <1>5, <1>6 DEF Next

(***************************************************************************)
(* A message that emits a bucket: the bucket ends before the message, and  *)
(* the last message in it is older than its end.                           *)
(***************************************************************************)
LEMMA EmissionFacts ==
    ASSUME IInv, NEW t \in Timestamp, EmittingMessage(t)
    PROVE  /\ Opened /\ t \in Nat
           /\ Bucket \in BucketRecord
           /\ Bucket.timestamp = EndOf(TimeBucket(inProgress.openTimestamp))
           /\ Bucket.closeTimestamp = inProgress.closeTimestamp
           /\ Bucket.closeTimestamp < Bucket.timestamp
           /\ Bucket.timestamp < EndOf(TimeBucket(t))
           /\ Bucket.closeTimestamp < t
<1> DEFINE o == inProgress.openTimestamp
           c == inProgress.closeTimestamp
<1>1. o \in Nat /\ c \in Nat /\ t \in Nat /\ Opened
  BY CaptureAssumption
  DEF CaptureAssumption, IInv, CaptureTypeOK, EmittingMessage, HasNewBucket, Opened
<1>2. TimeBucket(o) < TimeBucket(t) /\ TimeBucket(c) <= TimeBucket(o)
  BY <1>1, Division DEF EmittingMessage, HasNewBucket, IInv, InTheirBucket
<1> HIDE DEF o, c
<1>3. /\ TimeBucket(o) \in Nat /\ TimeBucket(c) \in Nat /\ TimeBucket(t) \in Nat
      /\ c < EndOf(TimeBucket(c))
  BY <1>1, Division
<1>4. EndOf(TimeBucket(o)) \in Nat /\ EndOf(TimeBucket(o)) < EndOf(TimeBucket(t))
  BY <1>2, <1>3, EndsIncrease
<1>5. /\ EndOf(TimeBucket(c)) \in Nat
      /\ EndOf(TimeBucket(c)) <= EndOf(TimeBucket(o))
  <2>1. CASE TimeBucket(c) = TimeBucket(o)
    BY <1>4, <2>1
  <2>2. CASE TimeBucket(c) < TimeBucket(o)
    BY <1>3, <2>2, EndsIncrease
  <2> QED  BY <1>2, <1>3, <2>1, <2>2
<1>6. c < EndOf(TimeBucket(o))
  BY <1>1, <1>3, <1>4, <1>5
<1>7. c < t
  BY <1>1, <1>2, <1>3, LaterBucket
<1> QED
  BY <1>1, <1>4, <1>6, <1>7 DEF Bucket, BucketRecord, o, c

LEMMA Appended ==
    ASSUME IInv, NEW t \in Timestamp, EmittingMessage(t)
    PROVE  /\ Len(emitted) \in Nat
           /\ Len(emitted') = Len(emitted) + 1
           /\ emitted'[Len(emitted) + 1] = Bucket
           /\ \A i \in 1 .. Len(emitted) :
                 emitted'[i] = emitted[i] /\ emitted[i] \in BucketRecord
           /\ \A i \in 1 .. Len(emitted') :
                 i \in 1 .. Len(emitted) \/ i = Len(emitted) + 1
<1>1. emitted \in Seq(BucketRecord) /\ Bucket \in BucketRecord
  BY EmissionFacts DEF IInv, CaptureTypeOK
<1>2. emitted' = Append(emitted, Bucket)
  BY DEF EmittingMessage
<1> QED
  BY <1>1, <1>2

LEMMA EmittingStep ==
    ASSUME IInv, CaptureTypeOK', NEW t \in Timestamp, EmittingMessage(t)
    PROVE  IInv'
<1>1. /\ Opened /\ t \in Nat
      /\ Bucket \in BucketRecord
      /\ Bucket.timestamp = EndOf(TimeBucket(inProgress.openTimestamp))
      /\ Bucket.closeTimestamp = inProgress.closeTimestamp
      /\ Bucket.closeTimestamp < Bucket.timestamp
      /\ Bucket.timestamp < EndOf(TimeBucket(t))
      /\ Bucket.closeTimestamp < t
  BY EmissionFacts
<1>2. /\ Len(emitted) \in Nat
      /\ Len(emitted') = Len(emitted) + 1
      /\ emitted'[Len(emitted) + 1] = Bucket
      /\ \A i \in 1 .. Len(emitted) :
            emitted'[i] = emitted[i] /\ emitted[i] \in BucketRecord
      /\ \A i \in 1 .. Len(emitted') :
            i \in 1 .. Len(emitted) \/ i = Len(emitted) + 1
  BY Appended
<1>3. /\ inProgress'.summaries = 1 /\ inProgress'.openTimestamp = t
      /\ inProgress'.closeTimestamp = t
      /\ restarted' = restarted
  BY DEF EmittingMessage, Updated, Fresh
<1>4. /\ latestTime' \in Nat
      /\ inOrder' => inOrder /\ latestTime <= t /\ latestTime' = t
      /\ latestTime \in Nat
  BY <1>1 DEF EmittingMessage, Observe, IInv, CaptureTypeOK, InTheirBucket
<1>5. /\ Bucket.timestamp \in Nat /\ Bucket.closeTimestamp \in Nat
      /\ TimeBucket(t) \in Nat /\ EndOf(TimeBucket(t)) \in Nat
  BY <1>1, Division, CaptureAssumption DEF BucketRecord, CaptureAssumption, EndOf
<1>6. InTheirBucket'
  BY <1>3, <1>4, <1>5 DEF InTheirBucket, Opened
<1>7. ~restarted' \/ inOrder' => ~restarted \/ inOrder
  BY <1>3, <1>4, Zenon
<1>8. ASSUME ~restarted \/ inOrder
      PROVE  \A i \in 1 .. Len(emitted) : emitted[i].timestamp < Bucket.timestamp
  BY <1>1, <1>8 DEF IInv, OptionsBeforeOpen
<1>9. ASSUME ~restarted \/ inOrder
      PROVE  \A i \in 1 .. Len(emitted') : emitted'[i].timestamp < EndOf(TimeBucket(t))
  <2> TAKE i \in 1 .. Len(emitted')
  <2>1. CASE i \in 1 .. Len(emitted)
    <3>1. emitted'[i].timestamp < Bucket.timestamp /\ emitted'[i].timestamp \in Nat
      BY <1>2, <1>8, <1>9, <2>1 DEF BucketRecord
    <3> QED  BY <1>1, <1>5, <3>1
  <2>2. CASE i = Len(emitted) + 1
    BY <1>1, <1>2, <2>2
  <2> QED  BY <1>2, <2>1, <2>2
<1>10. OptionsBeforeOpen'
  BY <1>3, <1>4, <1>7, <1>9 DEF OptionsBeforeOpen, Opened
<1>11. OptionKeysIncrease'
  <2> SUFFICES ASSUME ~restarted \/ inOrder,
                      NEW i \in 1 .. Len(emitted'), NEW j \in 1 .. Len(emitted'), i < j
               PROVE  emitted'[i].timestamp < emitted'[j].timestamp
    BY <1>7 DEF OptionKeysIncrease, OptionKey
  <2>1. i \in 1 .. Len(emitted)
    BY <1>2
  <2>2. CASE j \in 1 .. Len(emitted)
    BY <1>2, <2>1, <2>2 DEF IInv, OptionKeysIncrease, OptionKey
  <2>3. CASE j = Len(emitted) + 1
    BY <1>2, <1>8, <2>1, <2>3
  <2> QED  BY <1>2, <2>2, <2>3
<1>12. ASSUME inOrder, latestTime <= t
       PROVE  \A i \in 1 .. Len(emitted) :
                 /\ emitted[i].closeTimestamp < Bucket.closeTimestamp
                 /\ emitted[i].closeTimestamp < t
  <2>1. Bucket.closeTimestamp = latestTime
    BY <1>1, <1>12 DEF IInv, InTheirBucket
  <2> QED
    BY <1>1, <1>2, <1>4, <1>12, <2>1 DEF IInv, TradesBeforeLatest, BucketRecord
<1>13. TradesBeforeLatest'
  <2> SUFFICES ASSUME inOrder', NEW i \in 1 .. Len(emitted')
               PROVE  emitted'[i].closeTimestamp < latestTime'
    BY DEF TradesBeforeLatest
  <2>1. inOrder /\ latestTime <= t /\ latestTime' = t
    BY <1>4
  <2>2. CASE i \in 1 .. Len(emitted)
    BY <1>2, <1>12, <2>1, <2>2
  <2>3. CASE i = Len(emitted) + 1
    BY <1>1, <1>2, <2>1, <2>3
  <2> QED  BY <1>2, <2>2, <2>3
<1>14. TradeKeysIncrease'
  <2> SUFFICES ASSUME inOrder', NEW i \in 1 .. Len(emitted'),
                      NEW j \in 1 .. Len(emitted'), i < j
               PROVE  emitted'[i].closeTimestamp < emitted'[j].closeTimestamp
    BY DEF TradeKeysIncrease, TradeKey
  <2>1. inOrder /\ latestTime <= t
    BY <1>4
  <2>2. i \in 1 .. Len(emitted)
    BY <1>2
  <2>3. CASE j \in 1 .. Len(emitted)
    BY <1>2, <2>1, <2>2, <2>3 DEF IInv, TradeKeysIncrease, TradeKey
  <2>4. CASE j = Len(emitted) + 1
    BY <1>2, <1>12, <2>1, <2>2, <2>4
  <2> QED  BY <1>2, <2>3, <2>4
<1>15. NoLookAhead'
  <2> SUFFICES ASSUME NEW i \in 1 .. Len(emitted')
               PROVE  emitted'[i].closeTimestamp < emitted'[i].timestamp
    BY DEF NoLookAhead
  <2>1. CASE i \in 1 .. Len(emitted)
    BY <1>2, <2>1 DEF IInv, NoLookAhead
  <2>2. CASE i = Len(emitted) + 1
    BY <1>1, <1>2, <2>2
  <2> QED  BY <1>2, <2>1, <2>2
<1>16. Capture(Bucket)
  BY DEF EmittingMessage
<1>17. RowsWereEmitted'
  <2>1. \A i \in 1 .. Len(emitted) : i \in 1 .. Len(emitted')
    BY <1>2
  <2>2. Len(emitted) + 1 \in 1 .. Len(emitted')
    BY <1>2
  <2>3. /\ \A key \in optionRows' : key \in optionRows \/ key = Bucket.timestamp
        /\ \A key \in tradeRows' : key \in tradeRows \/ key = Bucket.closeTimestamp
    BY <1>16 DEF Capture, OptionKey, TradeKey
  <2>4. ASSUME NEW key \in optionRows'
        PROVE  \E i \in 1 .. Len(emitted') : key = emitted'[i].timestamp
    <3>1. CASE key \in optionRows
      <4>1. PICK i \in 1 .. Len(emitted) : key = emitted[i].timestamp
        BY <3>1 DEF IInv, RowsWereEmitted
      <4> QED  BY <1>2, <2>1, <4>1
    <3>2. CASE key = Bucket.timestamp
      BY <1>2, <2>2, <3>2
    <3> QED  BY <2>3, <3>1, <3>2
  <2>5. ASSUME NEW key \in tradeRows'
        PROVE  \E i \in 1 .. Len(emitted') : key = emitted'[i].closeTimestamp
    <3>1. CASE key \in tradeRows
      <4>1. PICK i \in 1 .. Len(emitted) : key = emitted[i].closeTimestamp
        BY <3>1 DEF IInv, RowsWereEmitted
      <4> QED  BY <1>2, <2>1, <4>1
    <3>2. CASE key = Bucket.closeTimestamp
      BY <1>2, <2>2, <3>2
    <3> QED  BY <2>3, <3>1, <3>2
  <2> QED  BY <2>4, <2>5 DEF RowsWereEmitted
<1>18. NothingLost'
  <2>1. ASSUME ~restarted \/ inOrder
        PROVE  Bucket.timestamp \notin optionRows
    <3> SUFFICES ASSUME Bucket.timestamp \in optionRows PROVE FALSE
      OBVIOUS
    <3>1. PICK i \in 1 .. Len(emitted) : Bucket.timestamp = emitted[i].timestamp
      BY DEF IInv, RowsWereEmitted
    <3> QED  BY <1>5, <1>8, <2>1, <3>1
  <2>2. ASSUME inOrder, latestTime <= t
        PROVE  Bucket.closeTimestamp \notin tradeRows
    <3> SUFFICES ASSUME Bucket.closeTimestamp \in tradeRows PROVE FALSE
      OBVIOUS
    <3>1. PICK i \in 1 .. Len(emitted) :
             Bucket.closeTimestamp = emitted[i].closeTimestamp
      BY DEF IInv, RowsWereEmitted
    <3> QED  BY <1>5, <1>12, <2>2, <3>1
  <2>3. /\ lost'.option \subseteq lost.option \cup ({Bucket.timestamp} \cap optionRows)
        /\ lost'.trade \subseteq lost.trade \cup ({Bucket.closeTimestamp} \cap tradeRows)
    BY <1>16 DEF Capture, OptionKey, TradeKey
  <2>4. (~restarted' \/ inOrder') => lost'.option = {}
    BY <1>7, <2>1, <2>3 DEF IInv, NothingLost
  <2>5. inOrder' => lost'.trade = {}
    BY <1>4, <2>2, <2>3 DEF IInv, NothingLost
  <2> QED  BY <2>4, <2>5 DEF NothingLost
<1> QED
  BY <1>6, <1>10, <1>11, <1>13, <1>14, <1>15, <1>17, <1>18 DEF IInv

LEMMA EndsMonotone ==
    ASSUME NEW t \in Nat, NEW u \in Nat, t <= u
    PROVE  /\ EndOf(TimeBucket(t)) \in Nat /\ EndOf(TimeBucket(u)) \in Nat
           /\ EndOf(TimeBucket(t)) <= EndOf(TimeBucket(u))
<1>1. TimeBucket(t) \in Nat /\ TimeBucket(u) \in Nat /\ TimeBucket(t) <= TimeBucket(u)
  BY Division, LaterBucket
<1>2. EndOf(TimeBucket(t)) \in Nat /\ EndOf(TimeBucket(u)) \in Nat
  BY <1>1, CaptureAssumption DEF CaptureAssumption, EndOf
<1>3. CASE TimeBucket(t) < TimeBucket(u)
  BY <1>1, <1>2, <1>3, EndsIncrease
<1>4. CASE TimeBucket(t) = TimeBucket(u)
  BY <1>2, <1>4
<1> QED
  BY <1>1, <1>2, <1>3, <1>4

LEMMA MessageStep ==
    ASSUME IInv, CaptureTypeOK', NEW t \in Timestamp, Message(t)
    PROVE  IInv'
<1>1. /\ t \in Nat /\ TimeBucket(t) \in Nat
      /\ inProgress.openTimestamp \in Nat /\ inProgress.summaries \in {0, 1}
      /\ TimeBucket(inProgress.openTimestamp) \in Nat
  BY CaptureAssumption, Division DEF CaptureAssumption, IInv, CaptureTypeOK
<1>2. UNCHANGED <<emitted, optionRows, tradeRows, lost, restarted>>
  BY DEF Message
<1>3. /\ inProgress'.summaries = 1 /\ inProgress'.closeTimestamp = t
      /\ ~Opened => inProgress'.openTimestamp = t
      /\ Opened => inProgress'.openTimestamp = inProgress.openTimestamp
  BY <1>1 DEF Message, Updated, Opened
<1>4. /\ latestTime' \in Nat
      /\ inOrder' => inOrder /\ latestTime <= t /\ latestTime' = t
  <2>1. /\ latestTime' = IF t > latestTime THEN t ELSE latestTime
        /\ latestTime \in Nat \cup {-1}
    BY DEF Message, Observe, IInv, CaptureTypeOK
  <2>2. inOrder' => inOrder /\ t >= latestTime
    BY Zenon DEF Message, Observe
  <2>3. latestTime' \in Nat
    BY <1>1, <2>1
  <2>4. t >= latestTime => latestTime <= t /\ latestTime' = t
    BY <1>1, <2>1
  <2> QED  BY <2>2, <2>3, <2>4, Zenon
<1>5. Opened => TimeBucket(t) <= TimeBucket(inProgress.openTimestamp)
  BY <1>1 DEF Message, HasNewBucket, Opened
<1>6. InTheirBucket'
  BY <1>1, <1>3, <1>4, <1>5 DEF InTheirBucket, Opened
<1>7. \A i \in 1 .. Len(emitted) :
         /\ emitted[i].timestamp \in Nat /\ emitted[i].closeTimestamp \in Nat
         /\ latestTime \in Nat
  <2>1. emitted \in Seq(BucketRecord)
    BY DEF IInv, CaptureTypeOK
  <2>2. \A i \in 1 .. Len(emitted) : emitted[i] \in BucketRecord /\ emitted # <<>>
    BY <2>1
  <2> QED  BY <2>2 DEF BucketRecord, IInv, InTheirBucket
<1>8. ASSUME inOrder', NEW i \in 1 .. Len(emitted)
      PROVE  emitted[i].timestamp < EndOf(TimeBucket(t))
  <2>1. emitted[i].timestamp < EndOf(TimeBucket(latestTime))
    BY <1>4, <1>8 DEF IInv, OptionsBeforeOpen
  <2>2. /\ EndOf(TimeBucket(latestTime)) \in Nat /\ EndOf(TimeBucket(t)) \in Nat
        /\ EndOf(TimeBucket(latestTime)) <= EndOf(TimeBucket(t))
    BY <1>1, <1>4, <1>7, <1>8, EndsMonotone
  <2> QED  BY <1>7, <2>1, <2>2
<1>9. OptionsBeforeOpen'
  <2>1. ASSUME ~restarted \/ inOrder', NEW i \in 1 .. Len(emitted)
        PROVE  emitted[i].timestamp < EndOf(TimeBucket(inProgress'.openTimestamp))
    <3>1. CASE Opened
      BY <1>3, <1>4, <2>1, <3>1 DEF IInv, OptionsBeforeOpen
    <3>2. CASE ~Opened /\ inOrder'
      BY <1>3, <1>8, <3>2
    <3>3. CASE ~Opened /\ ~restarted
      BY <2>1, <3>3 DEF IInv, InTheirBucket
    <3> QED  BY <2>1, <3>1, <3>2, <3>3, Zenon
  <2> QED  BY <1>2, <1>4, <1>8, <2>1 DEF OptionsBeforeOpen
<1>10. TradesBeforeLatest'
  <2> SUFFICES ASSUME inOrder', NEW i \in 1 .. Len(emitted)
               PROVE  emitted[i].closeTimestamp < latestTime'
    BY <1>2 DEF TradesBeforeLatest
  <2>1. emitted[i].closeTimestamp < latestTime
    BY <1>4 DEF IInv, TradesBeforeLatest
  <2> QED  BY <1>1, <1>4, <1>7, <2>1
<1>11. inOrder' => inOrder
  BY <1>4
<1> QED
  BY <1>2, <1>6, <1>9, <1>10, <1>11
  DEF IInv, OptionKeysIncrease, TradeKeysIncrease, OptionKey, TradeKey,
      NoLookAhead, RowsWereEmitted, NothingLost

LEMMA StartAnewStep ==
    ASSUME IInv, CaptureTypeOK', StartAnew
    PROVE  IInv'
<1>1. /\ ~Opened'
      /\ UNCHANGED <<emitted, optionRows, tradeRows, lost, latestTime, inOrder>>
  BY DEF StartAnew, Fresh, Opened
<1>2. restarted'
  BY Zenon DEF StartAnew
<1>3. InTheirBucket' /\ OptionsBeforeOpen'
  BY <1>1, <1>2 DEF IInv, InTheirBucket, OptionsBeforeOpen
<1> QED
  BY <1>1, <1>2, <1>3
  DEF IInv, TradesBeforeLatest, OptionKeysIncrease, TradeKeysIncrease,
      OptionKey, TradeKey, NoLookAhead, RowsWereEmitted, NothingLost

LEMMA InvStep == IInv /\ [Next]_vars => IInv'
<1> SUFFICES ASSUME IInv, [Next]_vars PROVE IInv'
  OBVIOUS
<1>1. CaptureTypeOK'
  BY TypeStep DEF IInv
<1>2. ASSUME NEW t \in Timestamp, EmittingMessage(t) PROVE IInv'
  BY <1>1, <1>2, EmittingStep
<1>3. ASSUME NEW t \in Timestamp, Message(t) PROVE IInv'
  BY <1>1, <1>3, MessageStep
<1>4. CASE StartAnew
  BY <1>1, <1>4, StartAnewStep
<1>5. CASE UNCHANGED vars
  <2>1. UNCHANGED <<inProgress, emitted, optionRows, tradeRows, lost, latestTime,
                    inOrder, restarted>>
    BY <1>5 DEF vars
  <2> QED
    BY <1>1, <2>1
    DEF IInv, InTheirBucket, OptionsBeforeOpen, TradesBeforeLatest, Opened,
        OptionKeysIncrease, TradeKeysIncrease, OptionKey, TradeKey, NoLookAhead,
        RowsWereEmitted, NothingLost
<1> QED
  BY <1>2, <1>3, <1>4, <1>5 DEF Next

LEMMA InvAlways == Spec => []IInv
BY InvInit, InvStep, PTL DEF Spec

(***************************************************************************)
(* Option buckets are stored in order of time: whatever the order of the   *)
(* messages until the first restart, and across restarts when messages     *)
(* come in order.                                                          *)
(***************************************************************************)
THEOREM OptionKeysIncreaseAlways == Spec => []OptionKeysIncrease
<1>1. IInv => OptionKeysIncrease
  BY DEF IInv
<1> QED
  BY <1>1, InvAlways, PTL

(***************************************************************************)
(* Trade buckets are stored in order of time as long as trades come in it. *)
(***************************************************************************)
THEOREM TradeKeysIncreaseAlways == Spec => []TradeKeysIncrease
<1>1. IInv => TradeKeysIncrease
  BY DEF IInv
<1> QED
  BY <1>1, InvAlways, PTL

(***************************************************************************)
(* No bucket contains a message from after its end.                        *)
(***************************************************************************)
THEOREM NoLookAheadAlways == Spec => []NoLookAhead
<1>1. IInv => NoLookAhead
  BY DEF IInv
<1> QED
  BY <1>1, InvAlways, PTL

(***************************************************************************)
(* Under the same conditions no bucket is refused as a duplicate.          *)
(***************************************************************************)
THEOREM NothingLostAlways == Spec => []NothingLost
<1>1. IInv => NothingLost
  BY DEF IInv
<1> QED
  BY <1>1, InvAlways, PTL

-----------------------------------------------------------------------------
(***************************************************************************)
(* The processes of the trade services implement TradeCapture, of which    *)
(* they are a refinement by inclusion: they add the start, the database    *)
(* and the end of a process to its variables.  Every theorem about the     *)
(* buckets holds across crashes and restarts for that reason.              *)
(***************************************************************************)
LEMMA StepsImplementCapture == [ServiceNext]_serviceVars => [Next]_vars
<1>1. ASSUME DatabaseConnects \/ DatabaseFails \/ WaitTick \/ ListInstruments
             \/ StreamEnds \/ BrokerStops \/ ProcessEnds
      PROVE  UNCHANGED vars
  BY <1>1 DEF DatabaseConnects, DatabaseFails, WaitTick, ListInstruments,
              StreamEnds, BrokerStops, ProcessEnds
<1>2. ASSUME NEW t \in Timestamp, StreamEmits(t) \/ StreamUpdates(t)
      PROVE  Next
  BY <1>2 DEF StreamEmits, StreamUpdates, Next
<1>3. ASSUME Restart
      PROVE  Next
  BY <1>3 DEF Restart, Next
<1>4. ASSUME UNCHANGED serviceVars
      PROVE  UNCHANGED vars
  BY <1>4 DEF serviceVars
<1> QED
  BY <1>1, <1>2, <1>3, <1>4 DEF ServiceNext

(***************************************************************************)
(* Refinement: whatever the database does and whenever processes die, a    *)
(* behaviour of the services is one of TradeCapture.                       *)
(***************************************************************************)
THEOREM ServicesImplementCapture == ServiceSpec => Spec
<1>1. ServiceInit => Init
  BY DEF ServiceInit
<1> QED
  BY <1>1, StepsImplementCapture, PTL DEF ServiceSpec, Spec

(***************************************************************************)
(* Across crashes, restarts and a database that goes away, no bucket is    *)
(* refused as a duplicate under the conditions of NothingLost.             *)
(***************************************************************************)
THEOREM ServicesLoseNothing == ServiceSpec => []NothingLost
BY ServicesImplementCapture, NothingLostAlways, PTL

(***************************************************************************)
(* Type correctness of the services, for every timeout of whole seconds:   *)
(* the countdown ends at zero and never runs past it.                      *)
(***************************************************************************)
LEMMA ServiceTypeInit == ServiceInit => ServiceTypeOK
<1> SUFFICES ASSUME ServiceInit PROVE ServiceTypeOK
  OBVIOUS
<1>1. CaptureTypeOK
  BY InvInit DEF ServiceInit, IInv
<1> QED
  BY <1>1, WaitAssumption
  DEF ServiceInit, ServiceTypeOK, Service, Capturing, WaitAssumption

LEMMA ServiceTypeStep ==
    ServiceTypeOK /\ [ServiceNext]_serviceVars => ServiceTypeOK'
<1> SUFFICES ASSUME ServiceTypeOK, [ServiceNext]_serviceVars
             PROVE  ServiceTypeOK'
  OBVIOUS
<1>1. CaptureTypeOK'
  BY StepsImplementCapture, TypeStep DEF ServiceTypeOK
<1>2. CASE WaitTick
  <2>1. counter' \in Nat /\ counter' <= Timeout /\ counter' % 1000 = 0
    <3>1. CASE counter' = counter
      BY <3>1 DEF ServiceTypeOK
    <3>2. CASE counter # 0 /\ counter' = counter - 1000
      BY <3>2, WaitAssumption DEF ServiceTypeOK, WaitAssumption
    <3> QED
      BY <1>2, <3>1, <3>2 DEF WaitTick, CountedDown
  <2> QED
    BY <1>1, <1>2, <2>1
    DEF WaitTick, ServiceTypeOK, AfterWait, AfterTimeout, Service, Capturing
<1>3. CASE DatabaseConnects \/ DatabaseFails \/ ListInstruments
           \/ StreamEnds \/ BrokerStops \/ ProcessEnds
  BY <1>1, <1>3
  DEF DatabaseConnects, DatabaseFails, ListInstruments, StreamEnds, BrokerStops,
      ProcessEnds, ServiceTypeOK
<1>4. ASSUME NEW t \in Timestamp, StreamEmits(t) PROVE ServiceTypeOK'
  <2>1. inProgress.openTimestamp \in Nat /\ inProgress.closeTimestamp \in Nat
    BY DEF ServiceTypeOK, CaptureTypeOK
  <2>2. TimeBucket(inProgress.openTimestamp) \in Nat
    BY <2>1, Division
  <2>3. EndOf(TimeBucket(inProgress.openTimestamp)) \in Nat
    BY <2>2, CaptureAssumption DEF CaptureAssumption, EndOf
  <2>4. Bucket \in BucketRecord
    BY <2>1, <2>3 DEF Bucket, BucketRecord
  <2> QED
    BY <1>1, <1>4, <2>4 DEF StreamEmits, startVars, ServiceTypeOK
<1>5. ASSUME NEW t \in Timestamp, StreamUpdates(t) PROVE ServiceTypeOK'
  BY <1>1, <1>5 DEF StreamUpdates, startVars, ServiceTypeOK
<1>6. CASE Restart
  BY <1>1, <1>6, WaitAssumption
  DEF Restart, ServiceTypeOK, WaitAssumption
<1>7. CASE UNCHANGED serviceVars
  BY <1>1, <1>7 DEF serviceVars, startVars, ServiceTypeOK
<1> QED
  BY <1>2, <1>3, <1>4, <1>5, <1>6, <1>7 DEF ServiceNext

\* Every reachable state of a trade service has the shape it is declared with;
\* in particular waitForDatasourceReady's countdown stays a whole number of
\* seconds between the timeout and zero.
THEOREM ServicesTypeCorrect == ServiceSpec => []ServiceTypeOK
BY ServiceTypeInit, ServiceTypeStep, PTL DEF ServiceSpec

-----------------------------------------------------------------------------
(***************************************************************************)
(* EveryStartSettles is a liveness property, which the run capture         *)
(* checks.  Its safety half is a number that each second of the timer and  *)
(* each answer to the look-up lowers, and that nothing raises while the    *)
(* process lives.                                                          *)
(***************************************************************************)
Left ==
    IF phase = "waiting" THEN counter + 2 ELSE IF phase = "listing" THEN 1 ELSE 0

ComesNearer ==
    /\ Left \in Nat
    /\ phase # "exited" => Left' <= Left
    /\ WaitTick \/ ListInstruments => Left' < Left

\* One case for each action of the start of a service.
LEMMA ComesNearerStep ==
    ServiceTypeOK /\ [ServiceNext]_serviceVars => [ComesNearer]_serviceVars
<1> SUFFICES ASSUME ServiceTypeOK, ServiceNext PROVE ComesNearer
  OBVIOUS
<1>1. counter \in Nat /\ (counter # 0 => counter >= 1000)
  BY DEF ServiceTypeOK
<1>2. Left \in Nat
  BY <1>1 DEF Left
<1>3. ASSUME WaitTick PROVE Left' < Left
  <2>1. phase = "waiting" /\ Left = counter + 2
    BY <1>3 DEF WaitTick, Left
  <2>2. CASE phase' = "waiting"
    <3>1. counter # 0 /\ counter' = counter - 1000
      BY <1>3, <2>1, <2>2
      DEF WaitTick, CountedDown, AfterWait, AfterTimeout, Service, Capturing, ServiceTypeOK
    <3> QED  BY <1>1, <2>1, <2>2, <3>1 DEF Left
  <2>3. CASE phase' # "waiting"
    <3>1. Left' = 0 \/ Left' = 1
      BY <2>3 DEF Left
    <3> QED  BY <1>1, <2>1, <3>1
  <2> QED  BY <2>2, <2>3
<1>4. ASSUME ListInstruments PROVE Left' < Left
  BY <1>4 DEF ListInstruments, Left
<1>5. ASSUME DatabaseConnects \/ DatabaseFails \/ StreamEnds \/ BrokerStops \/ ProcessEnds
      PROVE  Left' <= Left
  <2>1. UNCHANGED <<phase, counter>> \/ phase' \in {"exited", "idle"}
    BY <1>5 DEF DatabaseConnects, DatabaseFails, StreamEnds, BrokerStops, ProcessEnds
  <2>2. Left' = Left \/ Left' = 0
    BY <2>1 DEF Left
  <2> QED  BY <1>2, <2>2
<1>6. ASSUME NEW t \in Timestamp, StreamEmits(t) \/ StreamUpdates(t) PROVE Left' <= Left
  BY <1>2, <1>6 DEF StreamEmits, StreamUpdates, startVars, Left
<1>7. ASSUME Restart PROVE phase = "exited"
  BY <1>7 DEF Restart
<1>8. phase # "exited" => Left' <= Left
  <2>1. Left' < Left => Left' <= Left
    <3>1. Left' \in Nat
      BY ServiceTypeStep DEF Left, ServiceTypeOK
    <3> QED  BY <1>2, <3>1
  <2> QED  BY <1>3, <1>4, <1>5, <1>6, <1>7, <2>1 DEF ServiceNext
<1> QED
  BY <1>2, <1>3, <1>4, <1>8 DEF ComesNearer

(***************************************************************************)
(* A start comes nearer to its end with each second that the timer fires   *)
(* and each look-up that is answered, and never moves away from it: no     *)
(* step of the database or the streams begins it over, only a process      *)
(* that has exited is started again.                                       *)
(***************************************************************************)
THEOREM StartsComeToAnEnd == ServiceSpec => [][ComesNearer]_serviceVars
BY ComesNearerStep, ServicesTypeCorrect, PTL DEF ServiceSpec
=============================================================================
