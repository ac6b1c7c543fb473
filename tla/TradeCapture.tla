---------------------------- MODULE TradeCapture ----------------------------
(***************************************************************************)
(* One-second buckets of the messages of one symbol, as the tradeoption    *)
(* and tradepair services store them (src/computables/                     *)
(* option_bucket.ts and trade_bucket.ts, services/trade_option.service.ts  *)
(* and trade_pair.service.ts).                                             *)
(*                                                                         *)
(* Both computables are the same machine: a bucket is opened by a message, *)
(* is updated by every message up to the first one of a later bucket, and  *)
(* is emitted by that one.  They differ in the time their service stores a *)
(* bucket under: an option under the end of its bucket, a trade under the  *)
(* time of the last message in it.  The loop that consumes the stream      *)
(* waits for each insert, so that a message is one step.                   *)
(*                                                                         *)
(* Prices are left out.  Timestamps are milliseconds.                      *)
(***************************************************************************)
EXTENDS Integers, Sequences

CONSTANTS Interval,      \* milliseconds in a bucket
          Timestamp,     \* the timestamps messages may have
          MaxEmitted     \* bound: buckets emitted

ASSUME CaptureAssumption ==
    /\ Interval \in Nat \ {0}
    /\ Timestamp \subseteq Nat
    /\ MaxEmitted \in Nat

VARIABLES inProgress,  \* the open bucket
          emitted,     \* the buckets emitted so far
          optionRows,  \* keys in trade_options
          tradeRows,   \* keys in trade_pairs
          lost,        \* buckets whose insert the database refused as
                       \*   duplicates: the option and the trade keys
          latestTime,  \* history: the greatest timestamp so far, or -1
          inOrder,     \* history: no message came out of order
          restarted    \* history: the service has been started again

vars == <<inProgress, emitted, optionRows, tradeRows, lost, latestTime, inOrder,
          restarted>>

\* _getTimeBucket.
TimeBucket(timestamp) == timestamp \div Interval

StartOf(bucket) == bucket * Interval    \* the period's start for its end

EndOf(bucket) == (bucket + 1) * Interval

\* summaries (trades) counts the messages in the bucket: zero after _reset.
Fresh == [ summaries |-> 0, openTimestamp |-> 0, closeTimestamp |-> 0 ]

Init ==
    /\ inProgress = Fresh
    /\ emitted = <<>>
    /\ optionRows = {}
    /\ tradeRows = {}
    /\ lost = [ option |-> {}, trade |-> {} ]
    /\ latestTime = -1
    /\ inOrder = TRUE
    /\ restarted = FALSE

HasNewBucketAnyOther(timestamp) ==   \* an earlier bucket counts as a new one
    /\ inProgress.summaries # 0
    /\ TimeBucket(timestamp) # TimeBucket(inProgress.openTimestamp)

HasNewBucket(timestamp) ==
    /\ inProgress.summaries # 0
    /\ TimeBucket(timestamp) > TimeBucket(inProgress.openTimestamp)

\* What _computeBucket hands over: the end of the period and the last message.
Bucket ==
    [ timestamp      |-> EndOf(TimeBucket(inProgress.openTimestamp)),
      closeTimestamp |-> inProgress.closeTimestamp ]

UpdatedKeepingOpen(old, timestamp) ==   \* the last open time outlives _reset
    [ summaries |-> 1,
      openTimestamp |-> IF emitted = <<>> THEN timestamp ELSE old.openTimestamp,
      closeTimestamp |-> timestamp ]

\* _update; only whether there are messages matters, not how many.
Updated(old, timestamp) ==
    [ summaries |-> 1,
      openTimestamp |-> IF old.summaries = 0 THEN timestamp ELSE old.openTimestamp,
      closeTimestamp |-> timestamp ]

TradeKey(bucket) == bucket.closeTimestamp

OptionKey(bucket) == bucket.timestamp

\* captureMessage: an insert keyed by symbol and time; every error, a duplicate
\* key included, is only logged.
Capture(bucket) ==
    \/ /\ optionRows' = optionRows \cup {OptionKey(bucket)}
       /\ tradeRows' = tradeRows \cup {TradeKey(bucket)}
       /\ lost' = [ option |-> lost.option \cup ({OptionKey(bucket)} \cap optionRows),
                    trade  |-> lost.trade \cup ({TradeKey(bucket)} \cap tradeRows) ]
    \/ UNCHANGED <<optionRows, tradeRows, lost>>    \* the database fails

-----------------------------------------------------------------------------
Observe(timestamp) ==
    /\ latestTime' = IF timestamp > latestTime THEN timestamp ELSE latestTime
    /\ inOrder' = (inOrder /\ timestamp >= latestTime)

\* compute(): a message of a later bucket emits the open one and opens its own.
EmittingMessage(timestamp) ==
    /\ HasNewBucket(timestamp)
    /\ Len(emitted) < MaxEmitted
    /\ emitted' = Append(emitted, Bucket)
    /\ Capture(Bucket)
    /\ inProgress' = Updated(Fresh, timestamp)
    /\ Observe(timestamp)
    /\ UNCHANGED restarted

Message(timestamp) ==
    /\ ~HasNewBucket(timestamp)
    /\ inProgress' = Updated(inProgress, timestamp)
    /\ Observe(timestamp)
    /\ UNCHANGED <<emitted, optionRows, tradeRows, lost, restarted>>

\* The process dies and its service is started again, with computables of its
\* own: the open bucket is gone.  When only the connection to the exchange is
\* lost, nothing is: the streams are made without withDisconnectMessages, so
\* that the client library connects again without a word to the computables.
StartAnew ==
    /\ inProgress' = Fresh
    /\ restarted' = TRUE
    /\ UNCHANGED <<emitted, optionRows, tradeRows, lost, latestTime, inOrder>>

Next ==
    \/ \E timestamp \in Timestamp : EmittingMessage(timestamp) \/ Message(timestamp)
    \/ StartAnew

Spec == Init /\ [][Next]_vars

-----------------------------------------------------------------------------
BucketRecord == [ timestamp : Nat, closeTimestamp : Nat ]

(***************************************************************************)
(* Every variable has the shape of its declaration.                        *)
(***************************************************************************)
CaptureTypeOK ==
    /\ inProgress \in
          [ summaries : {0, 1}, openTimestamp : Nat, closeTimestamp : Nat ]
    /\ emitted \in Seq(BucketRecord)
    /\ optionRows \subseteq Nat
    /\ tradeRows \subseteq Nat
    /\ lost \in [ option : SUBSET Nat, trade : SUBSET Nat ]
    /\ latestTime \in Nat \cup {-1}
    /\ inOrder \in BOOLEAN
    /\ restarted \in BOOLEAN

(***************************************************************************)
(* Option buckets are stored under later and later times, however late     *)
(* the messages in them are: until the first restart always, and across    *)
(* restarts as long as messages come in order.                             *)
(***************************************************************************)
OptionKeysIncrease ==
    (~restarted \/ inOrder) =>
        \A i, j \in 1 .. Len(emitted) :
            i < j => OptionKey(emitted[i]) < OptionKey(emitted[j])

(***************************************************************************)
(* Trade buckets are, too, as long as trades come in order.                *)
(***************************************************************************)
TradeKeysIncrease ==
    inOrder =>
        \A i, j \in 1 .. Len(emitted) :
            i < j => TradeKey(emitted[i]) < TradeKey(emitted[j])

(***************************************************************************)
(* Nothing is stored under a time at which it was not known yet: the last  *)
(* message of a bucket is older than the end of the bucket.                *)
(***************************************************************************)
NoLookAhead ==
    \A i \in 1 .. Len(emitted) :
        emitted[i].closeTimestamp < emitted[i].timestamp

(***************************************************************************)
(* Under the conditions above, no bucket is lost to the primary key.       *)
(***************************************************************************)
NothingLost ==
    /\ (~restarted \/ inOrder) => lost.option = {}
    /\ inOrder => lost.trade = {}
=============================================================================
