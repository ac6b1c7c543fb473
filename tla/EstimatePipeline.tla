-------------------------- MODULE EstimatePipeline --------------------------
(***************************************************************************)
(* How an index comes about (services/cron.service.ts, index.service.ts,   *)
(* rate.service.ts, on top of Ingest): a cron tick calls index.estimate,   *)
(* which asks ingest for the summaries of both terms, computes, announces  *)
(* and persists.  The broker gives up on a call after requestTimeout and   *)
(* makes it again, with the same parameters, while the handler it gave up  *)
(* on goes on; so executions of one tick overlap, and ticks overlap too.   *)
(*                                                                         *)
(* An execution is identified by its tick and its attempt.                 *)
(***************************************************************************)
EXTENDS Ingest

CONSTANTS TickAt,       \* the moments of the cron expression
          Retries,      \* retryPolicy.retries
          MaxRate,      \* bound: number of rate changes
          MaxRestarts   \* bound: number of restarts of the process

ASSUME PipelineAssumption ==
    /\ TickAt \subseteq Nat
    /\ Retries \in Nat
    /\ MaxRate \in Nat
    /\ MaxRestarts \in Nat

VARIABLES calls,      \* tick |-> the cron job's call of index.estimate
          runs,       \* <<tick, attempt>> |-> execution of the handler
                      \*   that is in progress
          rate,       \* risklessRate of the index service; 0 is the default
          announced,  \* history: evidence broadcast to the websocket service
          rows,       \* methodology_indices: timestamp |-> evidence
          restarts    \* history: number of restarts so far

vars == <<now, stream, dates, book, cached, received, calls, runs, rate,
          announced, rows, restarts>>

Attempt == 0 .. Retries

Unasked == -2

NewRun == [ phase |-> "asking", near |-> Unasked, next |-> Unasked, rate |-> 0 ]

Init ==
    /\ now = First
    /\ IngestInit
    /\ calls = Nothing
    /\ runs = Nothing
    /\ rate = 0
    /\ announced = {}
    /\ rows = Nothing
    /\ restarts = 0

\* f without x.
Drop(f, x) == [ z \in DOMAIN f \ {x} |-> f[z] ]

\* The context of x resolves or rejects; the call does if x is its latest
\* attempt.
Settle(x) ==
    calls' = IF calls[x[1]].attempt = x[2]
             THEN [ calls EXCEPT ![x[1]].settled = TRUE ]
             ELSE calls

-----------------------------------------------------------------------------
\* The minute passes and, once ingest and index have started and if the cron
\* expression matches, onTick calls index.estimate with at = new Date().
MinutePasses ==
    /\ now < Last
    /\ now' = now + 1
    /\ IF now' \in TickAt /\ stream \in {"streaming", "stopped"}
       THEN /\ calls' = Put(calls, now', [ attempt |-> 0, settled |-> FALSE ])
            /\ runs' = Put(runs, <<now', 0>>, NewRun)
       ELSE UNCHANGED <<calls, runs>>
    /\ UNCHANGED <<stream, dates, book, cached, received, rate, announced,
                   rows, restarts>>

\* Retried once too often.
RequestTimeoutLate ==
    /\ \E t \in DOMAIN calls :
          /\ ~calls[t].settled
          /\ IF calls[t].attempt <= Retries
             THEN /\ calls' = [ calls EXCEPT ![t].attempt = @ + 1 ]
                  /\ runs' = Put(runs, <<t, calls[t].attempt + 1>>, NewRun)
             ELSE /\ calls' = [ calls EXCEPT ![t].settled = TRUE ]
                  /\ UNCHANGED runs
    /\ UNCHANGED <<now, stream, dates, book, cached, received, rate, announced,
                   rows, restarts>>

RequestTimeoutDisabled == FALSE /\ UNCHANGED vars

\* RequestTimeoutError, and the retry middleware.
RequestTimeout ==
    /\ \E t \in DOMAIN calls :
          /\ ~calls[t].settled
          /\ IF calls[t].attempt < Retries
             THEN /\ calls' = [ calls EXCEPT ![t].attempt = @ + 1 ]
                  /\ runs' = Put(runs, <<t, calls[t].attempt + 1>>, NewRun)
             ELSE /\ calls' = [ calls EXCEPT ![t].settled = TRUE ]
                  /\ UNCHANGED runs
    /\ UNCHANGED <<now, stream, dates, book, cached, received, rate, announced,
                   rows, restarts>>

\* The moment mfivDates is applied to: params.at, not the current date.
DatesOfNow(x) == mfivDates(now, TimePeriod)

DatesOf(x) == mfivDates(x[1], TimePeriod)

(***************************************************************************)
(* optionSummariesLists: both terms are asked for at once and answered in  *)
(* any order; a request that fails or is rejected leaves its term out.     *)
(***************************************************************************)
AskNear(x) ==
    /\ runs[x].phase = "asking" /\ runs[x].near = Unasked
    /\ \/ \E answer \in {Missing} \cup (First .. Last) :
             /\ Summaries(DatesOf(x).nearExpiration, answer)
             /\ runs' = [ runs EXCEPT ![x].near = answer ]
       \/ runs' = [ runs EXCEPT ![x].near = Missing ] /\ UNCHANGED ingestVars
    /\ UNCHANGED <<now, calls, rate, announced, rows, restarts>>

AskNext(x) ==
    /\ runs[x].phase = "asking" /\ runs[x].next = Unasked
    /\ \/ \E answer \in {Missing} \cup (First .. Last) :
             /\ Summaries(DatesOf(x).nextExpiration, answer)
             /\ runs' = [ runs EXCEPT ![x].next = answer ]
       \/ runs' = [ runs EXCEPT ![x].next = Missing ] /\ UNCHANGED ingestVars
    /\ UNCHANGED <<now, calls, rate, announced, rows, restarts>>

Answered(x) ==
    /\ runs[x].phase = "asking"
    /\ runs[x].near # Unasked /\ runs[x].next # Unasked

Evidence(x, r) ==
    [ at |-> x[1], near |-> DatesOf(x).nearExpiration,
      next |-> DatesOf(x).nextExpiration, nearLatest |-> runs[x].near,
      nextLatest |-> runs[x].next, rate |-> r ]

\* indexOperation from the answers to the broadcast, without an await in
\* between.  compute needs options of both terms and the rate of the moment.
ComputeAndAnnounce(x) ==
    /\ Answered(x)
    /\ runs[x].near # Missing /\ runs[x].next # Missing
    /\ runs' = [ runs EXCEPT ![x].phase = "announced", ![x].rate = rate ]
    /\ announced' = announced \cup {Evidence(x, rate)}
    /\ UNCHANGED <<now, stream, dates, book, cached, received, calls, rate,
                   rows, restarts>>

\* options[0] of no options, or compute throws: rejected, or resolved with the
\* error; nothing is announced or persisted and nothing is retried.
ComputeFails(x) ==
    /\ Answered(x)
    /\ runs' = Drop(runs, x)
    /\ Settle(x)
    /\ UNCHANGED <<now, stream, dates, book, cached, received, rate, announced,
                   rows, restarts>>

PersistFirst(x) ==            \* the row saved before the announcement
    /\ Answered(x) \/ runs[x].phase = "announced"
    /\ runs' = Drop(runs, x)
    /\ rows' \in {rows, Put(rows, x[1], Evidence(x, runs[x].rate))}
    /\ Settle(x)
    /\ UNCHANGED <<now, stream, dates, book, cached, received, rate, announced,
                   restarts>>

\* save of a row keyed by the tick: an upsert, whose failure is only logged.
Persist(x) ==
    /\ runs[x].phase = "announced"
    /\ runs' = Drop(runs, x)
    /\ rows' \in {rows, Put(rows, x[1], Evidence(x, runs[x].rate))}
    /\ Settle(x)
    /\ UNCHANGED <<now, stream, dates, book, cached, received, rate, announced,
                   restarts>>

\* The rate service's cron job broadcasts "rate.updated".
RateUpdated ==
    /\ rate < MaxRate
    /\ rate' = rate + 1
    /\ UNCHANGED <<now, stream, dates, book, cached, received, calls, runs,
                   announced, rows, restarts>>

\* The process dies and is started again: what it kept in memory is gone.
Restart ==
    /\ restarts < MaxRestarts
    /\ restarts' = restarts + 1
    /\ stream' = "starting"
    /\ book' = Nothing
    /\ cached' = Nothing
    /\ calls' = Nothing
    /\ runs' = Nothing
    /\ rate' = 0
    /\ UNCHANGED <<now, dates, received, announced, rows>>

IngestStep ==
    /\ \/ StartStream
       \/ \E e \in Terms(dates) : Summary(e) \/ Query(e)
       \/ StreamStops
    /\ UNCHANGED <<now, calls, runs, rate, announced, rows, restarts>>

IndexStep ==
    \E x \in DOMAIN runs :
       \/ AskNear(x)
       \/ AskNext(x)
       \/ ComputeAndAnnounce(x)
       \/ ComputeFails(x)
       \/ Persist(x)

Next ==
    \/ RequestTimeout
    \/ IndexStep
    \/ RateUpdated
    \/ Restart
    \/ IngestStep
    \/ MinutePasses

(***************************************************************************)
(* The only promise the program has is its timer: a call that is not       *)
(* answered times out.                                                     *)
(***************************************************************************)
Spec == Init /\ [][Next]_vars /\ WF_vars(RequestTimeout)

-----------------------------------------------------------------------------
Summary0 == (First .. Last) \cup {Missing, Unasked}

EvidenceRecord ==
    [ at : TickAt, near : Nat, next : Nat, nearLatest : First .. Last,
      nextLatest : First .. Last, rate : 0 .. MaxRate ]

(***************************************************************************)
(* Every variable has the shape of its declaration; in particular no tick  *)
(* is attempted more often than retryPolicy allows.                        *)
(***************************************************************************)
PipelineTypeOK ==
    /\ now \in First .. Last
    /\ stream \in StreamStatus
    /\ dates \in [ nearExpiration : Nat, nextExpiration : Nat, rollover : Nat ]
    /\ \A e \in DOMAIN book : e \in Terms(dates) /\ book[e] \in First .. now
    /\ \A e \in DOMAIN cached :
          cached[e] \in [ latest : First .. Last, since : First .. now ]
    /\ \A r \in received : r[1] \in Nat /\ r[2] \in First .. now
    /\ DOMAIN calls \subseteq TickAt
    /\ \A t \in DOMAIN calls :
          calls[t] \in [ attempt : Attempt, settled : BOOLEAN ]
    /\ DOMAIN runs \subseteq TickAt \X Attempt
    /\ \A x \in DOMAIN runs :
          runs[x] \in [ phase : {"asking", "announced"},
                        near : Summary0, next : Summary0, rate : 0 .. MaxRate ]
    /\ rate \in 0 .. MaxRate
    /\ announced \subseteq EvidenceRecord
    /\ DOMAIN rows \subseteq TickAt
    /\ \A t \in DOMAIN rows : rows[t] \in EvidenceRecord
    /\ restarts \in 0 .. MaxRestarts

(***************************************************************************)
(* The terms of every announced index bracket the moment one time period   *)
(* after its tick, even when the execution that announces it is a retry    *)
(* that began after the rollover.                                          *)
(***************************************************************************)
AnnouncedTermsBracket ==
    \A ev \in announced :
        /\ ev.near <= ev.at + TimePeriod * MinutesPerDay
        /\ ev.at + TimePeriod * MinutesPerDay < ev.next

(***************************************************************************)
(* No announced index ignores a summary that reached ingest more than the  *)
(* cache's time to live before its tick, although the two terms are read   *)
(* at different moments, from answers that other executions have cached.   *)
(***************************************************************************)
CacheBoundsStaleness ==
    \A ev \in announced, r \in received :
        r[2] < ev.at - CacheTTL =>
            /\ r[1] = ev.near => r[2] <= ev.nearLatest
            /\ r[1] = ev.next => r[2] <= ev.nextLatest

(***************************************************************************)
(* Whatever the interleaving of retries and restarts, a row in the         *)
(* database is something the websocket clients have been told.             *)
(***************************************************************************)
RowsWereAnnounced == \A t \in DOMAIN rows : rows[t] \in announced /\ rows[t].at = t

(***************************************************************************)
(* Every call of the cron job is settled: answered, failed, or given up    *)
(* after the last retry; or the process is restarted.                      *)
(***************************************************************************)
CallsSettle ==
    \A t \in TickAt :
        (t \in DOMAIN calls /\ ~calls[t].settled)
            ~> (t \notin DOMAIN calls \/ calls[t].settled)
=============================================================================
