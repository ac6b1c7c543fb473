-------------------------------- MODULE Rate --------------------------------
(***************************************************************************)
(* The riskless rate (services/rate.service.ts, src/datasources/aave.ts)   *)
(* and the index service that uses it.  A cron tick calls risklessRate,    *)
(* which reads the rate of a contract, saves it when it is not the last    *)
(* one saved, and returns it to the tick, which broadcasts it.             *)
(*                                                                         *)
(* The call goes through the broker, which gives up on it after            *)
(* requestTimeout and makes it again while the handler it gave up on goes  *)
(* on: executions overlap, and all of them read and write lastRate, on     *)
(* both sides of an await.  An execution is <<tick, attempt>>.             *)
(***************************************************************************)
EXTENDS Integers, Sequences

CONSTANTS Value,       \* what the contract may answer, and 0
          Retries,     \* retryPolicy.retries
          MaxTick,     \* bound: number of ticks
          MaxRow,      \* bound: number of rows
          MaxRestarts  \* bound: number of restarts of the rate service

Settled == -1
Undefined == "undefined"
Default == "default"

ASSUME RateAssumption ==
    /\ Undefined \notin Value
    /\ Retries \in Nat
    /\ MaxTick \in Nat
    /\ MaxRow \in Nat
    /\ MaxRestarts \in Nat

VARIABLES tick,      \* number of the latest tick
          attempt,   \* latest attempt of its call; Settled if it is over
          runs,      \* <<tick, attempt>> |-> execution in progress
          lastRate,  \* the value last saved, Undefined before the first
          rates,     \* the table rates, in the order of the inserts
          used,      \* risklessRate of the index service, and of which tick
          announced, \* history: the values broadcast
          restarts   \* history: number of restarts of the rate service

vars == <<tick, attempt, runs, lastRate, rates, used, announced, restarts>>

Nothing == [ x \in {} |-> 0 ]

\* f without x.
Drop(f, x) == [ z \in DOMAIN f \ {x} |-> f[z] ]

Init ==
    /\ tick = 0
    /\ attempt = Settled
    /\ runs = Nothing
    /\ lastRate = Undefined
    /\ rates = <<>>
    /\ used = [ value |-> Default, tick |-> 0 ]
    /\ announced = {}
    /\ restarts = 0

-----------------------------------------------------------------------------
\* The handler begins for x.  An execution has been alone if there was no other
\* one at any moment of it.
Begin(x) ==
    runs' = [ y \in DOMAIN runs \cup {x} |->
                IF y = x THEN [ phase |-> "reading", value |-> Undefined,
                                alone |-> runs = Nothing ]
                         ELSE [ runs[y] EXCEPT !.alone = FALSE ] ]

\* onTick of FetchAaveRateCron.  Four attempts of ten seconds and the delays
\* between them are over before the next tick, a minute later.
Tick ==
    /\ tick < MaxTick
    /\ attempt = Settled
    /\ tick' = tick + 1
    /\ attempt' = 0
    /\ Begin(<<tick', 0>>)
    /\ UNCHANGED <<lastRate, rates, used, announced, restarts>>

RequestTimeoutLate ==       \* one attempt too many
    /\ attempt # Settled
    /\ IF attempt <= Retries
       THEN attempt' = attempt + 1 /\ Begin(<<tick, attempt'>>)
       ELSE attempt' = Settled /\ UNCHANGED runs
    /\ UNCHANGED <<tick, lastRate, rates, used, announced, restarts>>

\* RequestTimeoutError: another attempt or, after the last one, none.
RequestTimeout ==
    /\ attempt # Settled
    /\ IF attempt < Retries
       THEN attempt' = attempt + 1 /\ Begin(<<tick, attempt'>>)
       ELSE attempt' = Settled /\ UNCHANGED runs
    /\ UNCHANGED <<tick, lastRate, rates, used, announced, restarts>>

IsAwaited(x) == x = <<tick, attempt>>

\* The handler returns v.  If the call still waits for it, onTick broadcasts v
\* and the index service takes it.
AnswerUnawaited(x, v) ==    \* an answer that was given up is broadcast as well
    /\ runs' = Drop(runs, x)
    /\ attempt' = IF IsAwaited(x) THEN Settled ELSE attempt
    /\ announced' = announced \cup {v}
    /\ used' = [ value |-> v, tick |-> x[1] ]

Answer(x, v) ==
    /\ runs' = Drop(runs, x)
    /\ IF IsAwaited(x)
       THEN /\ attempt' = Settled
            /\ announced' = announced \cup {v}
            /\ used' = [ value |-> v, tick |-> x[1] ]
       ELSE UNCHANGED <<attempt, announced, used>>

\* persist begins.
Save(x, v) ==
    /\ runs' = [ runs EXCEPT ![x].phase = "saving", ![x].value = v ]
    /\ UNCHANGED <<attempt, announced, used>>

CompareOptimistic(x, v) ==    \* lastRate assigned before the insert is awaited
    IF v = lastRate
    THEN Answer(x, v) /\ UNCHANGED lastRate
    ELSE Save(x, v) /\ lastRate' = v

\* provideRateResponse resolves with what the contract answers, or with 0 when
\* the access to it is not configured.  fetchRate compares the value with
\* lastRate as it is now, and returns it or awaits its insert.
Compare(x, v) ==
    IF v = lastRate
    THEN Answer(x, v) /\ UNCHANGED lastRate
    ELSE Save(x, v) /\ UNCHANGED lastRate

ReadRate(x) ==
    /\ runs[x].phase = "reading"
    /\ \E v \in Value : Compare(x, v)
    /\ UNCHANGED <<tick, rates, restarts>>

Row(x, acknowledged) ==
    [ value |-> runs[x].value, alone |-> runs[x].alone,
      acknowledged |-> acknowledged, restarts |-> restarts ]

SavedKeepingLast(x) ==    \* the result of persist is not assigned
    /\ rates' = Append(rates, Row(x, TRUE))
    /\ Answer(x, runs[x].value)
    /\ UNCHANGED lastRate

\* The insert is acknowledged.
Saved(x) ==
    /\ rates' = Append(rates, Row(x, TRUE))
    /\ lastRate' = runs[x].value
    /\ Answer(x, runs[x].value)

SaveRate(x) ==
    /\ runs[x].phase = "saving"
    /\ Len(rates) < MaxRow
    /\ Saved(x)
    /\ UNCHANGED <<tick, restarts>>

\* The handler rejects with an error that is not retried: the tick is over.
Fail(x) ==
    /\ runs' = Drop(runs, x)
    /\ attempt' = IF IsAwaited(x) THEN Settled ELSE attempt

\* The insert fails, or is done but its acknowledgement is lost.
SaveFails(x) ==
    /\ runs[x].phase = "saving"
    /\ Fail(x)
    /\ \/ UNCHANGED rates
       \/ Len(rates) < MaxRow /\ rates' = Append(rates, Row(x, FALSE))
    /\ UNCHANGED <<tick, lastRate, used, announced, restarts>>

\* The contract cannot be read.
ReadFails(x) ==
    /\ runs[x].phase = "reading"
    /\ Fail(x)
    /\ UNCHANGED <<tick, lastRate, rates, used, announced, restarts>>

\* A retryable error is retried at once if x is the attempt waited for.
ReadFailsRetryably(x) ==
    /\ runs[x].phase = "reading"
    /\ IsAwaited(x)
    /\ attempt < Retries
    /\ attempt' = attempt + 1
    /\ LET others == Drop(runs, x)
       IN  runs' = [ y \in DOMAIN others \cup {<<tick, attempt'>>} |->
                       IF y \in DOMAIN others THEN others[y]
                       ELSE [ runs[x] EXCEPT !.alone = others = Nothing ] ]
    /\ UNCHANGED <<tick, lastRate, rates, used, announced, restarts>>

\* The process of the rate service dies and is started again.
Restart ==
    /\ restarts < MaxRestarts
    /\ restarts' = restarts + 1
    /\ attempt' = Settled
    /\ runs' = Nothing
    /\ lastRate' = Undefined
    /\ UNCHANGED <<tick, rates, used, announced>>

\* The process of the index service dies and is started again.
IndexRestarts ==
    /\ used' = [ value |-> Default, tick |-> 0 ]
    /\ UNCHANGED <<tick, attempt, runs, lastRate, rates, announced, restarts>>

Next ==
    \/ Tick
    \/ RequestTimeout
    \/ \E x \in DOMAIN runs :
          \/ ReadRate(x)
          \/ SaveRate(x)
          \/ SaveFails(x)
          \/ ReadFails(x)
          \/ ReadFailsRetryably(x)
    \/ Restart
    \/ IndexRestarts

Spec == Init /\ [][Next]_vars

-----------------------------------------------------------------------------
RateRow == [ value : Value, alone : BOOLEAN, acknowledged : BOOLEAN,
             restarts : Nat ]

RunRecord == [ phase : {"reading", "saving"}, value : Value \cup {Undefined},
               alone : BOOLEAN ]

(***************************************************************************)
(* Every variable has the shape of its declaration.                        *)
(***************************************************************************)
RateTypeOK ==
    /\ tick \in 0 .. MaxTick
    /\ attempt \in 0 .. Retries \cup {Settled}
    /\ DOMAIN runs \subseteq (1 .. tick) \X (0 .. Retries)
    /\ \A x \in DOMAIN runs : runs[x] \in RunRecord
    /\ lastRate \in Value \cup {Undefined}
    /\ rates \in Seq(RateRow)
    /\ used \in [ value : Value \cup {Default}, tick : 0 .. tick ]
    /\ announced \subseteq Value
    /\ restarts \in 0 .. MaxRestarts

(***************************************************************************)
(* A rate that is broadcast, and thus used for an index, is in the table   *)
(* (README.md:60, "is persisted to the DB"), whatever executions overlap,  *)
(* inserts fail or restarts come between; also when it is not inserted     *)
(* because it equals the last one.                                         *)
(***************************************************************************)
AnnouncedRatesArePersisted ==
    \A v \in announced : \E i \in 1 .. Len(rates) : rates[i].value = v

(***************************************************************************)
(* A row repeats the value of the row before it only if its execution      *)
(* overlapped another one, or if a restart or an insert whose              *)
(* acknowledgement was lost comes between them.                            *)
(***************************************************************************)
RowsRecordChanges ==
    \A i \in 1 .. Len(rates) - 1 :
        rates[i].value = rates[i + 1].value =>
            \/ ~rates[i + 1].alone
            \/ rates[i + 1].restarts # rates[i].restarts
            \/ ~rates[i].acknowledged

(***************************************************************************)
(* The index service never goes back to the rate of an earlier tick,       *)
(* however late the executions that were given up end.                     *)
(***************************************************************************)
RateNeverGoesBack ==
    [][used'.value # Default => used'.tick >= used.tick]_vars
=============================================================================
