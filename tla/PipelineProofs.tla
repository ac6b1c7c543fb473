--------------------------- MODULE PipelineProofs ---------------------------
(***************************************************************************)
(* What the live path promises about the indexes it announces and the rows *)
(* it keeps, for any clock, cron expression, time to live of the cache,    *)
(* number of retries, rate changes and restarts.                           *)
(*                                                                         *)
(* The promises are about what was announced long ago; the invariant says  *)
(* of every place where a summary waits on its way there (the book, the    *)
(* broker's cache, an execution) how old it may be: the book ignores       *)
(* nothing, the cache nothing from before its entry, an execution nothing  *)
(* from before its tick less the time to live.                             *)
(***************************************************************************)
EXTENDS EstimatePipeline, MfivDatesProofs, FiniteSetTheorems

\* latest ignores no summary of the expiry e from more than CacheTTL before at.
IsFresh(e, at, latest) ==
    \A r \in received : (r[1] = e /\ r[2] < at - CacheTTL) => r[2] <= latest

\* The terms that are streamed are those of a moment in the past; what is known of
\* them begins with the stream.
StreamInv ==
    /\ \E t \in First .. now : dates = mfivDates(t, TimePeriod)
    /\ stream = "starting" => DOMAIN book = {}

BookInv == \A e \in DOMAIN book, r \in received : r[1] = e => r[2] <= book[e]

CachedInv ==
    \A e \in DOMAIN cached, r \in received :
        (r[1] = e /\ r[2] < cached[e].since) => r[2] <= cached[e].latest

RunInv(x) ==
    /\ x[1] <= now
    /\ runs[x].near \in First .. Last =>
          IsFresh(DatesOf(x).nearExpiration, x[1], runs[x].near)
    /\ runs[x].next \in First .. Last =>
          IsFresh(DatesOf(x).nextExpiration, x[1], runs[x].next)
    /\ runs[x].phase = "announced" => Evidence(x, runs[x].rate) \in announced

RunsInv ==
    /\ \A t \in DOMAIN calls : t <= now
    /\ \A x \in DOMAIN runs : RunInv(x)

AnnouncedInv ==
    \A ev \in announced :
        /\ ev.at <= now
        /\ ev.near = mfivDates(ev.at, TimePeriod).nearExpiration
        /\ ev.next = mfivDates(ev.at, TimePeriod).nextExpiration
        /\ IsFresh(ev.near, ev.at, ev.nearLatest)
        /\ IsFresh(ev.next, ev.at, ev.nextLatest)

IInv ==
    /\ PipelineTypeOK
    /\ StreamInv
    /\ BookInv
    /\ CachedInv
    /\ RunsInv
    /\ AnnouncedInv
    /\ RowsWereAnnounced

-----------------------------------------------------------------------------
\* No moment of the calendar is before week 0, whatever the time period.
LEMMA TermsAreMoments ==
    ASSUME NEW t \in Nat, NEW p \in Nat
    PROVE  mfivDates(t, p) \in [ nearExpiration : Nat, nextExpiration : Nat,
                                 rollover : Nat ]
<1>1. PICK w \in Nat, d \in Nat, m \in Nat :
         d < 7 /\ m < 1440 /\ t = Moment(w, d, m)
  BY MomentInWeek, ZenonT(30)
<1>2. Day(t) = 7 * w + d /\ UTCDay(t) = d
  BY <1>1, MomentParts
<1>3. DaysAhead(t, p) \in {20, 21, 19 - d}
  BY <1>2 DEF DaysAhead
<1> DEFINE n == NextExpiration(t, p)
<1>4. n = (7 * w + d + DaysAhead(t, p)) * 1440 + 480
  BY <1>2 DEF NextExpiration, MinutesPerDay, ExpiryHour
<1>5. n \in Nat /\ n - 7 * MinutesPerDay \in Nat /\ n - 14 * MinutesPerDay \in Nat
  BY <1>1, <1>3, <1>4 DEF MinutesPerDay
<1> QED
  BY <1>5 DEF mfivDates

LEMMA Moments ==
    ASSUME PipelineTypeOK
    PROVE  /\ now \in Nat /\ First \in Nat /\ Last \in Nat /\ CacheTTL \in Nat
           /\ TimePeriod \in Nat /\ TickAt \subseteq Nat
           /\ First <= now /\ now <= Last
           /\ First .. now \subseteq First .. Last
           /\ \A t \in First .. Last : t # Missing /\ t # Unasked
BY IngestAssumption, PipelineAssumption
   DEF IngestAssumption, PipelineAssumption, PipelineTypeOK, Missing, Unasked

\* A tick is a moment, and its terms are moments too.
LEMMA RunFields ==
    ASSUME PipelineTypeOK, NEW x \in DOMAIN runs
    PROVE  /\ x[1] \in TickAt /\ x[1] \in Nat /\ x[2] \in Attempt
           /\ runs[x].phase \in {"asking", "announced"}
           /\ runs[x].near \in Summary0 /\ runs[x].next \in Summary0
           /\ runs[x].rate \in 0 .. MaxRate
           /\ runs[x] = [ phase |-> runs[x].phase, near |-> runs[x].near,
                          next |-> runs[x].next, rate |-> runs[x].rate ]
           /\ DatesOf(x).nearExpiration \in Nat /\ DatesOf(x).nextExpiration \in Nat
<1>1. x \in TickAt \X Attempt
  BY DEF PipelineTypeOK
<1>2. x[1] \in TickAt /\ x[1] \in Nat /\ x[2] \in Attempt
  BY <1>1, Moments
<1>3. runs[x] \in [ phase : {"asking", "announced"}, near : Summary0, next : Summary0,
                    rate : 0 .. MaxRate ]
  BY DEF PipelineTypeOK
<1>4. DatesOf(x) \in [ nearExpiration : Nat, nextExpiration : Nat, rollover : Nat ]
  BY <1>2, Moments, TermsAreMoments DEF DatesOf
<1> QED
  BY <1>2, <1>3, <1>4

\* A summary that arrives now, or later than the tick, makes nothing stale.
LEMMA FreshStays ==
    ASSUME PipelineTypeOK,
           \A r \in received' : r \in received \/ r[2] = now
    PROVE  \A e, latest : \A at \in Nat :
              at <= now /\ IsFresh(e, at, latest) => IsFresh(e, at, latest)'
<1> SUFFICES ASSUME NEW e, NEW latest, NEW at \in Nat, at <= now, IsFresh(e, at, latest),
                    NEW r \in received', r[1] = e, r[2] < at - CacheTTL
             PROVE  r[2] <= latest
  BY DEF IsFresh
<1>1. r[2] # now
  BY Moments
<1> QED
  BY <1>1 DEF IsFresh

LEMMA AnnouncedKept ==
    ASSUME PipelineTypeOK, AnnouncedInv,
           now <= now', now' \in Nat,
           \A r \in received' : r \in received \/ r[2] = now,
           UNCHANGED announced
    PROVE  AnnouncedInv'
<1> SUFFICES ASSUME NEW ev \in announced
             PROVE  /\ ev.at <= now'
                    /\ ev.near = mfivDates(ev.at, TimePeriod).nearExpiration
                    /\ ev.next = mfivDates(ev.at, TimePeriod).nextExpiration
                    /\ IsFresh(ev.near, ev.at, ev.nearLatest)'
                    /\ IsFresh(ev.next, ev.at, ev.nextLatest)'
  BY DEF AnnouncedInv
<1>1. ev.at \in Nat
  BY Moments DEF PipelineTypeOK, EvidenceRecord
<1>2. ev.at <= now' /\ ev.at <= now
  BY <1>1, Moments DEF AnnouncedInv
<1> QED
  BY <1>1, <1>2, FreshStays DEF AnnouncedInv

\* An execution that goes on, and one that begins.
LEMMA RunsKept ==
    ASSUME PipelineTypeOK, RunsInv,
           now <= now', now' \in Nat,
           \A r \in received' : r \in received \/ r[2] = now,
           announced \subseteq announced',
           \A t \in DOMAIN calls' : t \in DOMAIN calls \/ t = now',
           \A x \in DOMAIN runs' :
               \/ x \in DOMAIN runs /\ runs'[x] = runs[x]
               \/ x[1] <= now' /\ runs'[x] = NewRun
    PROVE  RunsInv'
<1>1. \A t \in DOMAIN calls' : t <= now'
  BY Moments DEF RunsInv, PipelineTypeOK
<1>2. ASSUME NEW x \in DOMAIN runs', x \in DOMAIN runs, runs'[x] = runs[x]
      PROVE  RunInv(x)'
  <2>1. RunInv(x) /\ x[1] \in Nat
    BY <1>2, RunFields DEF RunsInv
  <2>2. x[1] <= now' /\ x[1] <= now
    BY <2>1, Moments DEF RunInv
  <2>3. Evidence(x, runs[x].rate)' = Evidence(x, runs[x].rate)
    BY <1>2 DEF Evidence, DatesOf
  <2>4. DatesOf(x)' = DatesOf(x)
    BY DEF DatesOf
  <2> QED
    BY <1>2, <2>1, <2>2, <2>3, <2>4, FreshStays DEF RunInv
<1>3. ASSUME NEW x \in DOMAIN runs', x[1] <= now', runs'[x] = NewRun
      PROVE  RunInv(x)'
  <2>1. /\ runs'[x].near \notin First .. Last
        /\ runs'[x].next \notin First .. Last
        /\ runs'[x].phase # "announced"
    BY <1>3, Moments DEF NewRun, Unasked
  <2> QED
    BY <1>3, <2>1 DEF RunInv
<1> QED
  BY <1>1, <1>2, <1>3 DEF RunsInv

LEMMA InvInit == Init => IInv
<1> SUFFICES ASSUME Init PROVE IInv
  OBVIOUS
<1>1. /\ now = First /\ First \in Nat /\ First .. First \subseteq Nat
      /\ dates = mfivDates(First, TimePeriod) /\ TimePeriod \in Nat
      /\ DOMAIN book = {} /\ DOMAIN cached = {} /\ received = {}
      /\ DOMAIN calls = {} /\ DOMAIN runs = {} /\ DOMAIN rows = {}
      /\ announced = {} /\ rate = 0 /\ restarts = 0 /\ stream = "starting"
  BY IngestAssumption DEF IngestAssumption, Init, IngestInit, Nothing
<1>2. dates \in [ nearExpiration : Nat, nextExpiration : Nat, rollover : Nat ]
  BY <1>1, TermsAreMoments
<1>3. PipelineTypeOK
  <2>1. now \in First .. Last /\ rate \in 0 .. MaxRate /\ restarts \in 0 .. MaxRestarts
    BY <1>1, IngestAssumption, PipelineAssumption
       DEF IngestAssumption, PipelineAssumption
  <2> QED
    BY <1>1, <1>2, <2>1 DEF PipelineTypeOK, StreamStatus
<1>4. StreamInv
  BY <1>1 DEF StreamInv
<1> QED
  BY <1>1, <1>3, <1>4 DEF IInv, BookInv, CachedInv, RunsInv, AnnouncedInv,
                          RowsWereAnnounced

-----------------------------------------------------------------------------
\* What the cron job's calls, the executions and the clock may do without anything
\* being asked for, announced or saved.
LEMMA CallsStep ==
    ASSUME IInv,
           now' \in First .. Last, now <= now',
           DOMAIN calls' \subseteq TickAt,
           \A t \in DOMAIN calls' :
               /\ t \in DOMAIN calls \/ t = now'
               /\ calls'[t] \in [ attempt : Attempt, settled : BOOLEAN ],
           DOMAIN runs' \subseteq TickAt \X Attempt,
           \A x \in DOMAIN runs' :
               \/ x \in DOMAIN runs /\ runs'[x] = runs[x]
               \/ x[1] <= now' /\ runs'[x] = NewRun,
           UNCHANGED <<ingestVars, rate, announced, rows, restarts>>
    PROVE  IInv'
<1>1. now' \in Nat /\ First .. now \subseteq First .. now'
  BY Moments DEF IInv
<1>2. NewRun \in [ phase : {"asking", "announced"}, near : Summary0, next : Summary0,
                   rate : 0 .. MaxRate ]
  BY PipelineAssumption DEF PipelineAssumption, NewRun, Summary0
<1>3. \A x \in DOMAIN runs' :
          runs'[x] \in [ phase : {"asking", "announced"}, near : Summary0, next : Summary0,
                         rate : 0 .. MaxRate ]
  BY <1>2 DEF IInv, PipelineTypeOK
<1>4. PipelineTypeOK'
  <2>1. /\ \A e \in DOMAIN book : e \in Terms(dates) /\ book[e] \in First .. now'
        /\ \A e \in DOMAIN cached :
              cached[e] \in [ latest : First .. Last, since : First .. now' ]
        /\ \A r \in received : r[1] \in Nat /\ r[2] \in First .. now'
    BY <1>1 DEF IInv, PipelineTypeOK
  <2> QED
    BY <1>3, <2>1 DEF IInv, PipelineTypeOK, ingestVars, Summary0, EvidenceRecord, Terms, Attempt
<1>5. StreamInv' /\ BookInv' /\ CachedInv'
  BY <1>1 DEF IInv, StreamInv, BookInv, CachedInv, ingestVars
<1>6. RunsInv'
  BY <1>1, RunsKept DEF IInv, ingestVars
<1>7. AnnouncedInv'
  BY <1>1, AnnouncedKept DEF IInv, ingestVars
<1>8. RowsWereAnnounced'
  BY DEF IInv, RowsWereAnnounced
<1> QED
  BY <1>4, <1>5, <1>6, <1>7, <1>8 DEF IInv

LEMMA MinutePassesStep ==
    ASSUME IInv, MinutePasses
    PROVE  IInv'
<1>1. /\ now < Last /\ now' = now + 1
      /\ UNCHANGED <<ingestVars, rate, announced, rows, restarts>>
  BY DEF MinutePasses, ingestVars
<1>2. now' \in First .. Last /\ now <= now'
  BY <1>1, Moments DEF IInv
<1>3. 0 \in Attempt
  BY PipelineAssumption DEF PipelineAssumption, Attempt
<1>4. CASE now' \in TickAt /\ stream \in {"streaming", "stopped"}
  <2> DEFINE call == [ attempt |-> 0, settled |-> FALSE ]
  <2>1. /\ calls' = Put(calls, now', call)
        /\ runs' = Put(runs, <<now', 0>>, NewRun)
    BY <1>4 DEF MinutePasses
  <2>2. call \in [ attempt : Attempt, settled : BOOLEAN ]
    BY <1>3
  <2> HIDE DEF call
  <2>3. /\ DOMAIN calls' = DOMAIN calls \cup {now'}
        /\ \A t \in DOMAIN calls' :
              calls'[t] = call \/ (t \in DOMAIN calls /\ calls'[t] = calls[t])
    BY <2>1 DEF Put
  <2>4. /\ DOMAIN runs' = DOMAIN runs \cup {<<now', 0>>}
        /\ \A x \in DOMAIN runs' :
              \/ x \in DOMAIN runs /\ runs'[x] = runs[x]
              \/ x = <<now', 0>> /\ runs'[x] = NewRun
    BY <2>1 DEF Put
  <2>5. <<now', 0>>[1] = now' /\ <<now', 0>> \in TickAt \X Attempt
    BY <1>3, <1>4
  <2>6. /\ DOMAIN calls' \subseteq TickAt
        /\ \A t \in DOMAIN calls' :
              /\ t \in DOMAIN calls \/ t = now'
              /\ calls'[t] \in [ attempt : Attempt, settled : BOOLEAN ]
    BY <1>4, <2>2, <2>3 DEF IInv, PipelineTypeOK
  <2>7. /\ DOMAIN runs' \subseteq TickAt \X Attempt
        /\ \A x \in DOMAIN runs' :
              \/ x \in DOMAIN runs /\ runs'[x] = runs[x]
              \/ x[1] <= now' /\ runs'[x] = NewRun
    BY <1>2, <2>4, <2>5, Moments DEF IInv, PipelineTypeOK
  <2> QED
    BY <1>1, <1>2, <2>6, <2>7, CallsStep
<1>5. CASE ~(now' \in TickAt /\ stream \in {"streaming", "stopped"})
  <2>1. UNCHANGED <<calls, runs>>
    BY <1>5 DEF MinutePasses
  <2> QED
    BY <1>1, <1>2, <2>1, CallsStep DEF IInv, PipelineTypeOK
<1> QED
  BY <1>4, <1>5

LEMMA RequestTimeoutStep ==
    ASSUME IInv, RequestTimeout
    PROVE  IInv'
<1>1. /\ UNCHANGED <<ingestVars, rate, announced, rows, restarts>>
      /\ UNCHANGED now
  BY DEF RequestTimeout, ingestVars
<1>2. now' \in First .. Last /\ now <= now'
  BY <1>1, Moments DEF IInv, PipelineTypeOK
<1>3. PICK t \in DOMAIN calls :
         IF calls[t].attempt < Retries
         THEN /\ calls' = [ calls EXCEPT ![t].attempt = @ + 1 ]
              /\ runs' = Put(runs, <<t, calls[t].attempt + 1>>, NewRun)
         ELSE /\ calls' = [ calls EXCEPT ![t].settled = TRUE ]
              /\ UNCHANGED runs
  BY DEF RequestTimeout
<1>4. /\ t \in TickAt /\ t <= now
      /\ calls[t] \in [ attempt : Attempt, settled : BOOLEAN ]
  BY DEF IInv, PipelineTypeOK, RunsInv
<1>5. CASE calls[t].attempt < Retries
  <2> DEFINE n == calls[t].attempt + 1
             call == [ calls[t] EXCEPT !.attempt = n ]
  <2>1. calls' = [ calls EXCEPT ![t] = call ] /\ runs' = Put(runs, <<t, n>>, NewRun)
    BY <1>3, <1>5
  <2>2. n \in Attempt
    BY <1>4, <1>5, PipelineAssumption DEF PipelineAssumption, Attempt
  <2> HIDE DEF n
  <2>3. call \in [ attempt : Attempt, settled : BOOLEAN ]
    BY <1>4, <2>2
  <2> HIDE DEF call
  <2>4. /\ DOMAIN runs' = DOMAIN runs \cup {<<t, n>>}
        /\ \A x \in DOMAIN runs' :
              \/ x \in DOMAIN runs /\ runs'[x] = runs[x]
              \/ x = <<t, n>> /\ runs'[x] = NewRun
    BY <2>1 DEF Put
  <2>5. <<t, n>>[1] = t /\ <<t, n>> \in TickAt \X Attempt
    BY <1>4, <2>2
  <2>6. /\ DOMAIN calls' \subseteq TickAt
        /\ \A u \in DOMAIN calls' :
              /\ u \in DOMAIN calls \/ u = now'
              /\ calls'[u] \in [ attempt : Attempt, settled : BOOLEAN ]
    BY <2>1, <2>3 DEF IInv, PipelineTypeOK
  <2>7. /\ DOMAIN runs' \subseteq TickAt \X Attempt
        /\ \A x \in DOMAIN runs' :
              \/ x \in DOMAIN runs /\ runs'[x] = runs[x]
              \/ x[1] <= now' /\ runs'[x] = NewRun
    BY <1>1, <1>4, <2>4, <2>5 DEF IInv, PipelineTypeOK
  <2> QED
    BY <1>1, <1>2, <2>6, <2>7, CallsStep
<1>6. CASE ~(calls[t].attempt < Retries)
  <2> DEFINE call == [ calls[t] EXCEPT !.settled = TRUE ]
  <2>1. calls' = [ calls EXCEPT ![t] = call ] /\ UNCHANGED runs
    BY <1>3, <1>6
  <2>2. call \in [ attempt : Attempt, settled : BOOLEAN ]
    BY <1>4
  <2> HIDE DEF call
  <2>3. /\ DOMAIN calls' \subseteq TickAt
        /\ \A u \in DOMAIN calls' :
              /\ u \in DOMAIN calls \/ u = now'
              /\ calls'[u] \in [ attempt : Attempt, settled : BOOLEAN ]
    BY <2>1, <2>2 DEF IInv, PipelineTypeOK
  <2> QED
    BY <1>1, <1>2, <2>1, <2>3, CallsStep DEF IInv, PipelineTypeOK
<1> QED
  BY <1>5, <1>6

\* The call whose execution is over may be settled with it.
LEMMA SettleFields ==
    ASSUME IInv, NEW x, Settle(x)
    PROVE  /\ DOMAIN calls' = DOMAIN calls
           /\ \A t \in DOMAIN calls : calls'[t] \in [ attempt : Attempt, settled : BOOLEAN ]
<1>1. CASE UNCHANGED calls
  BY <1>1 DEF IInv, PipelineTypeOK
<1>2. CASE calls' = [ calls EXCEPT ![x[1]].settled = TRUE ]
  <2> SUFFICES ASSUME NEW t \in DOMAIN calls
               PROVE  calls'[t] \in [ attempt : Attempt, settled : BOOLEAN ]
    BY <1>2
  <2>1. calls[t] \in [ attempt : Attempt, settled : BOOLEAN ]
    BY DEF IInv, PipelineTypeOK
  <2>2. calls'[t] = calls[t] \/ calls'[t] = [ calls[t] EXCEPT !.settled = TRUE ]
    BY <1>2
  <2> QED
    BY <2>1, <2>2
<1> QED
  BY <1>1, <1>2 DEF Settle

LEMMA ComputeFailsStep ==
    ASSUME IInv, NEW x \in DOMAIN runs, ComputeFails(x)
    PROVE  IInv'
<1>1. /\ UNCHANGED <<ingestVars, rate, announced, rows, restarts>>
      /\ UNCHANGED now
      /\ runs' = Drop(runs, x)
      /\ Settle(x)
  BY DEF ComputeFails, ingestVars
<1>2. now' \in First .. Last /\ now <= now'
  BY <1>1, Moments DEF IInv, PipelineTypeOK
<1>3. /\ DOMAIN calls' \subseteq TickAt
      /\ \A t \in DOMAIN calls' :
            /\ t \in DOMAIN calls \/ t = now'
            /\ calls'[t] \in [ attempt : Attempt, settled : BOOLEAN ]
  BY <1>1, SettleFields DEF IInv, PipelineTypeOK
<1>4. /\ DOMAIN runs' \subseteq TickAt \X Attempt
      /\ \A y \in DOMAIN runs' : y \in DOMAIN runs /\ runs'[y] = runs[y]
  BY <1>1 DEF IInv, PipelineTypeOK, Drop
<1> QED
  BY <1>1, <1>2, <1>3, <1>4, CallsStep

-----------------------------------------------------------------------------
\* An answer of ingest ignores no summary from more than CacheTTL before the moment
\* at which it is asked for, and neither does what the broker keeps of it.
LEMMA SummariesAreFresh ==
    ASSUME IInv, NEW e, NEW answer, Summaries(e, answer), UNCHANGED now
    PROVE  /\ answer \in {Missing} \cup First .. Last
           /\ \A at \in Nat : at <= now /\ answer # Missing => IsFresh(e, at, answer)
           /\ \A d \in DOMAIN cached' :
                 cached'[d] \in [ latest : First .. Last, since : First .. now ]
           /\ CachedInv'
           /\ UNCHANGED <<stream, dates, book, received>>
<1>1. UNCHANGED <<stream, dates, book, received>>
  BY DEF Summaries
<1>2. \A d \in DOMAIN cached :
         cached[d] \in [ latest : First .. Last, since : First .. now ]
  BY DEF IInv, PipelineTypeOK
<1>3. \A r \in received : r[2] \in Int /\ r[2] <= now
  BY Moments DEF IInv, PipelineTypeOK
<1>4. CASE IsCached(e) /\ answer = cached[e].latest /\ UNCHANGED cached
  <2>1. /\ e \in DOMAIN cached /\ now - cached[e].since <= CacheTTL
        /\ answer \in First .. Last /\ cached[e].since \in First .. now
    BY <1>2, <1>4 DEF IsCached
  <2>2. ASSUME NEW at \in Nat, at <= now,
               NEW r \in received, r[1] = e, r[2] < at - CacheTTL
        PROVE  r[2] <= answer
    <3>1. r[2] < cached[e].since
      BY <1>3, <2>1, <2>2, Moments DEF IInv
    <3> QED
      BY <1>4, <2>1, <2>2, <3>1 DEF IInv, CachedInv
  <2>3. CachedInv'
    BY <1>1, <1>4 DEF IInv, CachedInv
  <2> QED
    BY <1>1, <1>2, <1>4, <2>1, <2>2, <2>3 DEF IsFresh
<1>5. CASE /\ e \in DOMAIN book
           /\ answer = book[e]
           /\ cached' = Put(cached, e, [ latest |-> book[e], since |-> now ])
  <2> DEFINE entry == [ latest |-> book[e], since |-> now ]
  <2>1. /\ answer \in First .. now
        /\ \A r \in received : r[1] = e => r[2] <= answer
    BY <1>5 DEF IInv, PipelineTypeOK, BookInv
  <2>2. entry \in [ latest : First .. Last, since : First .. now ]
    BY <1>5, <2>1, Moments DEF IInv
  <2>3. entry.latest = answer
    BY <1>5
  <2> HIDE DEF entry
  <2>4. \A d \in DOMAIN cached' :
           (d = e /\ cached'[d] = entry) \/ (d \in DOMAIN cached /\ cached'[d] = cached[d])
    BY <1>5 DEF Put, entry
  <2>5. CachedInv'
    BY <1>1, <2>1, <2>3, <2>4 DEF IInv, CachedInv
  <2>6. answer \in First .. Last
    BY <2>1, Moments DEF IInv
  <2> QED
    BY <1>1, <1>2, <2>1, <2>2, <2>4, <2>5, <2>6 DEF IsFresh
<1>6. CASE answer = Missing /\ UNCHANGED cached
  <2>1. CachedInv'
    BY <1>1, <1>6 DEF IInv, CachedInv
  <2> QED
    BY <1>1, <1>2, <1>6, <2>1
<1> QED
  BY <1>4, <1>5, <1>6 DEF Summaries

\* The broker's cache changes, and nothing else of ingest.
LEMMA CacheStep ==
    ASSUME IInv, UNCHANGED <<now, stream, dates, book, received, calls, rate, announced, rows,
                             restarts>>,
           \A d \in DOMAIN cached' :
               cached'[d] \in [ latest : First .. Last, since : First .. now ],
           CachedInv',
           DOMAIN runs' \subseteq TickAt \X Attempt,
           \A x \in DOMAIN runs' :
               runs'[x] \in [ phase : {"asking", "announced"}, near : Summary0,
                              next : Summary0, rate : 0 .. MaxRate ],
           \A x \in DOMAIN runs' : RunInv(x)'
    PROVE  IInv'
<1>1. PipelineTypeOK'
  BY DEF IInv, PipelineTypeOK, Summary0, EvidenceRecord, Terms, Attempt
<1>2. StreamInv' /\ BookInv' /\ RowsWereAnnounced'
  BY DEF IInv, StreamInv, BookInv, RowsWereAnnounced
<1>3. RunsInv'
  BY DEF IInv, RunsInv
<1>4. AnnouncedInv'
  BY DEF IInv, AnnouncedInv, IsFresh
<1> QED
  BY <1>1, <1>2, <1>3, <1>4 DEF IInv

\* An execution gets an answer, or none, for one of its terms.
LEMMA AskStep ==
    ASSUME IInv, NEW x \in DOMAIN runs, AskNear(x) \/ AskNext(x)
    PROVE  IInv'
<1>1. UNCHANGED <<now, calls, rate, announced, rows, restarts>>
  BY DEF AskNear, AskNext
<1>2. PICK e, answer :
         /\ \/ Summaries(e, answer)
            \/ answer = Missing /\ UNCHANGED ingestVars
         /\ \/ /\ e = DatesOf(x).nearExpiration
               /\ runs' = [ runs EXCEPT ![x].near = answer ]
            \/ /\ e = DatesOf(x).nextExpiration
               /\ runs' = [ runs EXCEPT ![x].next = answer ]
  BY DEF AskNear, AskNext
<1>3. /\ answer \in {Missing} \cup First .. Last
      /\ \A at \in Nat : at <= now /\ answer # Missing => IsFresh(e, at, answer)
      /\ \A d \in DOMAIN cached' :
            cached'[d] \in [ latest : First .. Last, since : First .. now ]
      /\ CachedInv'
      /\ UNCHANGED <<stream, dates, book, received>>
  <2>1. CASE Summaries(e, answer)
    BY <1>1, <2>1, SummariesAreFresh
  <2>2. CASE answer = Missing /\ UNCHANGED ingestVars
    BY <2>2 DEF ingestVars, IInv, PipelineTypeOK, CachedInv
  <2> QED
    BY <1>2, <2>1, <2>2
<1>4. /\ x[1] \in Nat /\ x[1] <= now /\ RunInv(x)
      /\ runs[x].phase = "asking"
      /\ runs[x].near \in Summary0 /\ runs[x].next \in Summary0
      /\ runs[x].rate \in 0 .. MaxRate
      /\ runs[x] = [ phase |-> runs[x].phase, near |-> runs[x].near,
                     next |-> runs[x].next, rate |-> runs[x].rate ]
  BY RunFields DEF IInv, RunsInv, RunInv, AskNear, AskNext
<1>5. IsFresh(e, x[1], answer) \/ answer = Missing
  BY <1>3, <1>4
<1>6. /\ DOMAIN runs' = DOMAIN runs
      /\ \A y \in DOMAIN runs \ {x} : runs'[y] = runs[y]
      /\ \/ /\ e = DatesOf(x).nearExpiration
            /\ runs'[x] = [ phase |-> "asking", near |-> answer,
                            next |-> runs[x].next, rate |-> runs[x].rate ]
         \/ /\ e = DatesOf(x).nextExpiration
            /\ runs'[x] = [ phase |-> "asking", near |-> runs[x].near,
                            next |-> answer, rate |-> runs[x].rate ]
  BY <1>2, <1>4
<1>7. RunInv(x)'
  <2>1. Missing \notin First .. Last
    BY Moments DEF IInv
  <2>2. DatesOf(x)' = DatesOf(x)
    BY DEF DatesOf
  <2>3. \A d, a : IsFresh(d, x[1], a) => IsFresh(d, x[1], a)'
    BY <1>3 DEF IsFresh
  <2> QED
    BY <1>1, <1>4, <1>5, <1>6, <2>1, <2>2, <2>3 DEF RunInv
<1>8. ASSUME NEW y \in DOMAIN runs', y # x
      PROVE  RunInv(y)'
  <2>1. RunInv(y) /\ runs'[y] = runs[y]
    BY <1>6, <1>8 DEF IInv, RunsInv
  <2>2. DatesOf(y)' = DatesOf(y) /\ Evidence(y, runs[y].rate)' = Evidence(y, runs[y].rate)
    BY <2>1 DEF DatesOf, Evidence
  <2>3. \A d, a : IsFresh(d, y[1], a) => IsFresh(d, y[1], a)'
    BY <1>3 DEF IsFresh
  <2> QED
    BY <1>1, <2>1, <2>2, <2>3 DEF RunInv
<1>9. /\ DOMAIN runs' \subseteq TickAt \X Attempt
      /\ \A y \in DOMAIN runs' :
            runs'[y] \in [ phase : {"asking", "announced"}, near : Summary0,
                           next : Summary0, rate : 0 .. MaxRate ]
  <2>1. answer \in Summary0
    BY <1>3 DEF Summary0
  <2>2. runs'[x] \in [ phase : {"asking", "announced"}, near : Summary0,
                       next : Summary0, rate : 0 .. MaxRate ]
    BY <1>4, <1>6, <2>1
  <2> QED
    BY <1>6, <2>2 DEF IInv, PipelineTypeOK
<1> QED
  BY <1>1, <1>3, <1>7, <1>8, <1>9, CacheStep

\* Somebody else asks for a term.
LEMMA QueryStep ==
    ASSUME IInv, NEW e, Query(e), UNCHANGED <<now, calls, runs, rate, announced, rows, restarts>>
    PROVE  IInv'
<1>1. PICK answer : Summaries(e, answer)
  BY DEF Query
<1>2. /\ \A d \in DOMAIN cached' :
            cached'[d] \in [ latest : First .. Last, since : First .. now ]
      /\ CachedInv'
      /\ UNCHANGED <<stream, dates, book, received>>
  BY <1>1, SummariesAreFresh
<1>3. RunsInv'
  BY <1>2, Moments, RunsKept DEF IInv
<1> QED
  BY <1>2, <1>3, CacheStep DEF IInv, PipelineTypeOK, RunsInv

-----------------------------------------------------------------------------
\* What is announced is what the execution has been answered.
LEMMA ComputeAndAnnounceStep ==
    ASSUME IInv, NEW x \in DOMAIN runs, ComputeAndAnnounce(x)
    PROVE  IInv'
<1> DEFINE ev == Evidence(x, rate)
<1>1. /\ runs[x].near # Missing /\ runs[x].next # Missing
      /\ runs[x].near # Unasked /\ runs[x].next # Unasked
      /\ runs' = [ runs EXCEPT ![x].phase = "announced", ![x].rate = rate ]
      /\ announced' = announced \cup {ev}
      /\ UNCHANGED <<now, stream, dates, book, cached, received, calls, rate, rows, restarts>>
  BY DEF ComputeAndAnnounce, Answered
<1>2. /\ x[1] \in TickAt /\ x[1] \in Nat /\ x[1] <= now /\ RunInv(x)
      /\ runs[x].near \in First .. Last /\ runs[x].next \in First .. Last
      /\ runs[x].near \in Summary0 /\ runs[x].next \in Summary0
      /\ rate \in 0 .. MaxRate
      /\ runs[x] = [ phase |-> runs[x].phase, near |-> runs[x].near,
                     next |-> runs[x].next, rate |-> runs[x].rate ]
      /\ DatesOf(x).nearExpiration \in Nat /\ DatesOf(x).nextExpiration \in Nat
  BY <1>1, RunFields DEF IInv, RunsInv, RunInv, Summary0, PipelineTypeOK
<1>3. /\ DOMAIN runs' = DOMAIN runs
      /\ runs'[x] = [ phase |-> "announced", near |-> runs[x].near,
                      next |-> runs[x].next, rate |-> rate ]
      /\ \A y \in DOMAIN runs \ {x} : runs'[y] = runs[y]
  BY <1>1, <1>2
<1>4. ev = [ at |-> x[1], near |-> DatesOf(x).nearExpiration,
             next |-> DatesOf(x).nextExpiration, nearLatest |-> runs[x].near,
             nextLatest |-> runs[x].next, rate |-> rate ]
  BY DEF Evidence
<1>5. ev \in EvidenceRecord
  BY <1>2, <1>4 DEF EvidenceRecord
<1>6. Evidence(x, runs[x].rate)' = ev
  BY <1>3, <1>4 DEF Evidence, DatesOf
<1> HIDE DEF ev
<1>7. PipelineTypeOK'
  <2>1. announced' \subseteq EvidenceRecord
    BY <1>1, <1>5 DEF IInv, PipelineTypeOK
  <2>2. runs'[x] \in [ phase : {"asking", "announced"}, near : Summary0,
                       next : Summary0, rate : 0 .. MaxRate ]
    BY <1>2, <1>3
  <2>3. \A y \in DOMAIN runs' :
           runs'[y] \in [ phase : {"asking", "announced"}, near : Summary0,
                          next : Summary0, rate : 0 .. MaxRate ]
    BY <1>3, <2>2 DEF IInv, PipelineTypeOK
  <2> QED
    BY <1>1, <1>3, <2>1, <2>3
       DEF IInv, PipelineTypeOK, Summary0, EvidenceRecord, Terms, Attempt
<1>8. StreamInv' /\ BookInv' /\ CachedInv' /\ RowsWereAnnounced'
  BY <1>1 DEF IInv, StreamInv, BookInv, CachedInv, RowsWereAnnounced
<1>9. RunsInv'
  <2>1. RunInv(x)'
    <3>1. \A d, a : IsFresh(d, x[1], a) => IsFresh(d, x[1], a)'
      BY <1>1 DEF IsFresh
    <3>2. DatesOf(x)' = DatesOf(x)
      BY DEF DatesOf
    <3>3. Evidence(x, runs[x].rate)' \in announced'
      BY <1>1, <1>6
    <3> QED
      BY <1>1, <1>2, <1>3, <3>1, <3>2, <3>3 DEF RunInv
  <2>2. ASSUME NEW y \in DOMAIN runs', y # x
        PROVE  RunInv(y)'
    <3>1. RunInv(y) /\ runs'[y] = runs[y]
      BY <1>3, <2>2 DEF IInv, RunsInv
    <3>2. DatesOf(y)' = DatesOf(y) /\ Evidence(y, runs[y].rate)' = Evidence(y, runs[y].rate)
      BY <3>1 DEF DatesOf, Evidence
    <3>3. \A d, a : IsFresh(d, y[1], a) => IsFresh(d, y[1], a)'
      BY <1>1 DEF IsFresh
    <3>4. UNCHANGED now /\ announced \subseteq announced'
      BY <1>1
    <3> QED
      BY <3>1, <3>2, <3>3, <3>4 DEF RunInv
  <2> QED
    BY <1>1, <2>1, <2>2 DEF IInv, RunsInv
<1>10. AnnouncedInv'
  <2>1. /\ ev.at = x[1] /\ ev.at <= now
        /\ ev.near = mfivDates(ev.at, TimePeriod).nearExpiration
        /\ ev.next = mfivDates(ev.at, TimePeriod).nextExpiration
        /\ IsFresh(ev.near, ev.at, ev.nearLatest)
        /\ IsFresh(ev.next, ev.at, ev.nextLatest)
    BY <1>2, <1>4 DEF RunInv, DatesOf
  <2> QED
    BY <1>1, <2>1 DEF IInv, AnnouncedInv, IsFresh
<1> QED
  BY <1>7, <1>8, <1>9, <1>10 DEF IInv

LEMMA PersistStep ==
    ASSUME IInv, NEW x \in DOMAIN runs, Persist(x)
    PROVE  IInv'
<1> DEFINE ev == Evidence(x, runs[x].rate)
<1>1. /\ runs[x].phase = "announced"
      /\ runs' = Drop(runs, x)
      /\ rows' \in {rows, Put(rows, x[1], ev)}
      /\ Settle(x)
      /\ UNCHANGED <<now, ingestVars, rate, announced, restarts>>
  BY DEF Persist, ingestVars
<1>2. ev \in announced /\ ev.at = x[1] /\ x[1] \in TickAt
  BY <1>1, RunFields DEF IInv, RunsInv, RunInv, Evidence
<1> HIDE DEF ev
<1>3. /\ DOMAIN rows' \subseteq DOMAIN rows \cup {x[1]}
      /\ \A t \in DOMAIN rows' :
            (t = x[1] /\ rows'[t] = ev) \/ (t \in DOMAIN rows /\ rows'[t] = rows[t])
  BY <1>1 DEF Put
<1>4. RowsWereAnnounced'
  BY <1>1, <1>2, <1>3 DEF IInv, RowsWereAnnounced
<1>5. /\ DOMAIN calls' = DOMAIN calls
      /\ \A t \in DOMAIN calls : calls'[t] \in [ attempt : Attempt, settled : BOOLEAN ]
  BY <1>1, SettleFields
<1>6. /\ DOMAIN runs' \subseteq DOMAIN runs
      /\ \A y \in DOMAIN runs' : y \in DOMAIN runs /\ runs'[y] = runs[y]
  BY <1>1 DEF Drop
<1>7. PipelineTypeOK'
  <2>1. /\ DOMAIN rows' \subseteq TickAt
        /\ \A t \in DOMAIN rows' : rows'[t] \in EvidenceRecord
    BY <1>2, <1>3 DEF IInv, PipelineTypeOK
  <2> QED
    BY <1>1, <1>5, <1>6, <2>1
       DEF IInv, PipelineTypeOK, ingestVars, Summary0, EvidenceRecord, Terms, Attempt
<1>8. StreamInv' /\ BookInv' /\ CachedInv'
  BY <1>1 DEF IInv, StreamInv, BookInv, CachedInv, ingestVars
<1>9. RunsInv'
  BY <1>1, <1>5, <1>6, Moments, RunsKept DEF IInv, ingestVars
<1>10. AnnouncedInv'
  BY <1>1, Moments, AnnouncedKept DEF IInv, ingestVars
<1> QED
  BY <1>4, <1>7, <1>8, <1>9, <1>10 DEF IInv

LEMMA RateUpdatedStep ==
    ASSUME IInv, RateUpdated
    PROVE  IInv'
<1>1. /\ rate' \in 0 .. MaxRate
      /\ UNCHANGED <<now, stream, dates, book, cached, received, calls, runs, announced,
                     rows, restarts>>
  BY PipelineAssumption DEF PipelineAssumption, IInv, PipelineTypeOK, RateUpdated
<1>2. PipelineTypeOK'
  BY <1>1 DEF IInv, PipelineTypeOK, Summary0, EvidenceRecord, Terms, Attempt
<1>3. RunsInv' /\ AnnouncedInv'
  BY <1>1, Moments, RunsKept, AnnouncedKept DEF IInv
<1>4. StreamInv' /\ BookInv' /\ CachedInv' /\ RowsWereAnnounced'
  BY <1>1 DEF IInv, StreamInv, BookInv, CachedInv, RowsWereAnnounced
<1> QED
  BY <1>2, <1>3, <1>4 DEF IInv

\* What has arrived and what has been told survive; nothing else does.
LEMMA RestartStep ==
    ASSUME IInv, Restart
    PROVE  IInv'
<1>1. /\ restarts' \in 0 .. MaxRestarts /\ rate' \in 0 .. MaxRate
      /\ stream' = "starting"
      /\ DOMAIN book' = {} /\ DOMAIN cached' = {} /\ DOMAIN calls' = {} /\ DOMAIN runs' = {}
      /\ UNCHANGED <<now, dates, received, announced, rows>>
  BY PipelineAssumption DEF PipelineAssumption, IInv, PipelineTypeOK, Restart, Nothing
<1>2. PipelineTypeOK'
  BY <1>1 DEF IInv, PipelineTypeOK, EvidenceRecord, StreamStatus
<1>3. RunsInv' /\ AnnouncedInv'
  BY <1>1, Moments, RunsKept, AnnouncedKept DEF IInv
<1>4. StreamInv' /\ BookInv' /\ CachedInv' /\ RowsWereAnnounced'
  BY <1>1 DEF IInv, StreamInv, BookInv, CachedInv, RowsWereAnnounced
<1> QED
  BY <1>2, <1>3, <1>4 DEF IInv

\* The terms are looked up anew, before anything is known of them.
LEMMA StreamStep ==
    ASSUME IInv, StartStream \/ StreamStops,
           UNCHANGED <<now, calls, runs, rate, announced, rows, restarts>>
    PROVE  IInv'
<1>1. UNCHANGED <<book, cached, received>>
  BY DEF StartStream, StreamStops
<1>2. /\ stream' \in StreamStatus /\ stream' # "starting"
      /\ \/ stream = "starting" /\ dates' = mfivDates(now, TimePeriod)
         \/ UNCHANGED dates
  BY DEF StartStream, StreamStops, StreamStatus
<1>3. mfivDates(now, TimePeriod) \in
         [ nearExpiration : Nat, nextExpiration : Nat, rollover : Nat ]
  BY Moments, TermsAreMoments DEF IInv
<1>4. stream = "starting" => DOMAIN book = {}
  BY DEF IInv, StreamInv
<1>5. now \in First .. now
  BY Moments DEF IInv
<1>6. PipelineTypeOK'
  <2>1. /\ dates' \in [ nearExpiration : Nat, nextExpiration : Nat, rollover : Nat ]
        /\ \A e \in DOMAIN book : e \in Terms(dates)'
    BY <1>2, <1>3, <1>4 DEF IInv, PipelineTypeOK, Terms
  <2> QED
    BY <1>1, <1>2, <2>1 DEF IInv, PipelineTypeOK, Summary0, EvidenceRecord, Attempt
<1>7. RunsInv' /\ AnnouncedInv'
  BY <1>1, Moments, RunsKept, AnnouncedKept DEF IInv
<1>8. StreamInv'
  BY <1>2, <1>5 DEF IInv, StreamInv
<1>9. BookInv' /\ CachedInv' /\ RowsWereAnnounced'
  BY <1>1 DEF IInv, BookInv, CachedInv, RowsWereAnnounced
<1> QED
  BY <1>6, <1>7, <1>8, <1>9 DEF IInv

\* A summary is newer than all that came before it.
LEMMA SummaryStep ==
    ASSUME IInv, NEW e, Summary(e),
           UNCHANGED <<now, calls, runs, rate, announced, rows, restarts>>
    PROVE  IInv'
<1>1. /\ stream = "streaming" /\ e \in Terms(dates)
      /\ book' = Put(book, e, now)
      /\ received' = received \cup {<<e, now>>}
      /\ UNCHANGED <<stream, dates, cached>>
  BY DEF Summary
<1>2. /\ DOMAIN book' = DOMAIN book \cup {e}
      /\ \A d \in DOMAIN book' :
            (d = e /\ book'[d] = now) \/ (d # e /\ d \in DOMAIN book /\ book'[d] = book[d])
  BY <1>1 DEF Put
<1>3. \A r \in received' : r \in received \/ (r[1] = e /\ r[2] = now)
  BY <1>1
<1>4. e \in Nat /\ now \in First .. now
  BY <1>1, Moments DEF IInv, PipelineTypeOK, Terms
<1>5. PipelineTypeOK'
  <2>1. \A d \in DOMAIN book' : d \in Terms(dates)' /\ book'[d] \in First .. now
    BY <1>1, <1>2, <1>4 DEF IInv, PipelineTypeOK, Terms
  <2>2. \A r \in received' : r[1] \in Nat /\ r[2] \in First .. now
    BY <1>3, <1>4 DEF IInv, PipelineTypeOK
  <2> QED
    BY <1>1, <2>1, <2>2 DEF IInv, PipelineTypeOK, Summary0, EvidenceRecord, Attempt
<1>6. RunsInv' /\ AnnouncedInv'
  BY <1>3, Moments, RunsKept, AnnouncedKept DEF IInv
<1>7. BookInv'
  <2>1. \A r \in received' : r[2] <= now
    BY <1>3, Moments DEF IInv, PipelineTypeOK
  <2> QED
    BY <1>2, <1>3, <2>1 DEF IInv, BookInv
<1>8. CachedInv'
  <2>1. \A d \in DOMAIN cached : ~(now < cached[d].since)
    BY Moments DEF IInv, PipelineTypeOK
  <2> QED
    BY <1>1, <1>3, <2>1 DEF IInv, CachedInv
<1>9. StreamInv' /\ RowsWereAnnounced'
  BY <1>1 DEF IInv, StreamInv, RowsWereAnnounced
<1> QED
  BY <1>5, <1>6, <1>7, <1>8, <1>9 DEF IInv

LEMMA InvStep == IInv /\ [Next]_vars => IInv'
<1> SUFFICES ASSUME IInv, [Next]_vars PROVE IInv'
  OBVIOUS
<1>1. CASE RequestTimeout
  BY <1>1, RequestTimeoutStep
<1>2. CASE IndexStep
  BY <1>2, AskStep, ComputeAndAnnounceStep, ComputeFailsStep, PersistStep DEF IndexStep
<1>3. CASE RateUpdated
  BY <1>3, RateUpdatedStep
<1>4. CASE Restart
  BY <1>4, RestartStep
<1>5. CASE IngestStep
  BY <1>5, StreamStep, SummaryStep, QueryStep DEF IngestStep
<1>6. CASE MinutePasses
  BY <1>6, MinutePassesStep
<1>7. CASE UNCHANGED vars
  <2>1. UNCHANGED <<now, ingestVars, calls, runs, rate, announced, rows, restarts>>
    BY <1>7 DEF vars, ingestVars
  <2>2. RunsInv' /\ AnnouncedInv'
    BY <2>1, Moments, RunsKept, AnnouncedKept DEF IInv, ingestVars
  <2>3. PipelineTypeOK'
    BY <2>1 DEF IInv, PipelineTypeOK, ingestVars, Summary0, EvidenceRecord, Terms, Attempt
  <2> QED
    BY <2>1, <2>2, <2>3
       DEF IInv, ingestVars, StreamInv, BookInv, CachedInv, RowsWereAnnounced
<1> QED
  BY <1>1, <1>2, <1>3, <1>4, <1>5, <1>6, <1>7 DEF Next

LEMMA PipelineInvariant == Spec => []IInv
<1>1. Init => IInv
  BY InvInit
<1>2. IInv /\ [Next]_vars => IInv'
  BY InvStep
<1> QED
  BY <1>1, <1>2, PTL DEF Spec

-----------------------------------------------------------------------------
(***************************************************************************)
(* The clock, the stream, the cache, the calls and executions of           *)
(* index.estimate and what it has announced and saved keep the shape of    *)
(* their declarations: a tick is attempted at most Retries + 1 times.      *)
(***************************************************************************)
THEOREM PipelineTypeCorrect == Spec => []PipelineTypeOK
<1>1. IInv => PipelineTypeOK
  BY DEF IInv
<1> QED
  BY <1>1, PipelineInvariant, PTL

(***************************************************************************)
(* AnnouncedTermsBracket: with the 14 days of every deployment, an index   *)
(* is interpolated between terms around the moment 14 days after its tick, *)
(* however late the attempt that announces it.                             *)
(***************************************************************************)
THEOREM AnnouncedTermsBracketAlways ==
    ASSUME TimePeriod = 14
    PROVE  Spec => []AnnouncedTermsBracket
<1>1. IInv => AnnouncedTermsBracket
  <2> SUFFICES ASSUME IInv, NEW ev \in announced
               PROVE  /\ ev.near <= ev.at + TimePeriod * MinutesPerDay
                      /\ ev.at + TimePeriod * MinutesPerDay < ev.next
    BY DEF AnnouncedTermsBracket
  <2>1. ev.at \in Nat
    BY Moments DEF IInv, PipelineTypeOK, EvidenceRecord
  <2> QED
    BY <2>1, FourteenDaysBracket DEF IInv, AnnouncedInv
<1> QED
  BY <1>1, PipelineInvariant, PTL

(***************************************************************************)
(* CacheBoundsStaleness: the broker's cache, overlapping executions,       *)
(* retries and restarts together cost an index no more than the cache's    *)
(* time to live.                                                           *)
(***************************************************************************)
THEOREM CacheBoundsStalenessAlways == Spec => []CacheBoundsStaleness
<1>1. IInv => CacheBoundsStaleness
  BY DEF IInv, AnnouncedInv, IsFresh, CacheBoundsStaleness
<1> QED
  BY <1>1, PipelineInvariant, PTL

(***************************************************************************)
(* RowsWereAnnounced: index.estimate never saves what it has not told the  *)
(* websocket clients.                                                      *)
(***************************************************************************)
THEOREM RowsWereAnnouncedAlways == Spec => []RowsWereAnnounced
<1>1. IInv => RowsWereAnnounced
  BY DEF IInv
<1> QED
  BY <1>1, PipelineInvariant, PTL

(***************************************************************************)
(* StreamsQueriedTermsUntilRollover: with the 14 days of every deployment, *)
(* what ingest streams is what an index asks for, until the rollover.      *)
(***************************************************************************)
THEOREM StreamsQueriedTermsAlways ==
    ASSUME TimePeriod = 14
    PROVE  Spec => []StreamsQueriedTermsUntilRollover
<1>1. IInv => StreamsQueriedTermsUntilRollover
  <2> SUFFICES ASSUME IInv, now < dates.rollover
               PROVE  Terms(mfivDates(now, TimePeriod)) = Terms(dates)
    BY DEF StreamsQueriedTermsUntilRollover
  <2>1. PICK t \in First .. now : dates = mfivDates(t, 14)
    BY DEF IInv, StreamInv
  <2>2. t \in Nat /\ now \in Nat /\ t <= now
    BY Moments DEF IInv
  <2>3. mfivDates(now, 14) = dates
    BY <2>1, <2>2, PairAfterPair
  <2> QED
    BY <2>3
<1> QED
  BY <1>1, PipelineInvariant, PTL

-----------------------------------------------------------------------------
(***************************************************************************)
(* How often a tick is announced.  The broker makes a call again while the *)
(* handler it gave up on goes on, and either may announce.  The invariant  *)
(* gives each index of a tick an attempt of its own, one that has been     *)
(* made and asks for nothing any more.                                     *)
(***************************************************************************)
AnnouncedAt(t) == { ev \in announced : ev.at = t }

Asking(t, n) == <<t, n>> \in DOMAIN runs /\ runs[<<t, n>>].phase = "asking"

\* The attempt of each index announced for t.
Numbers(f, t) ==
    /\ f \in [ AnnouncedAt(t) -> Attempt ]
    /\ \A d, e \in AnnouncedAt(t) : f[d] = f[e] => d = e
    /\ \A e \in AnnouncedAt(t) :
          /\ ~Asking(t, f[e])
          /\ t \in DOMAIN calls => f[e] <= calls[t].attempt

\* An execution is that of an attempt the broker has made.
RunsAreCalled ==
    \A x \in DOMAIN runs : x[1] \in DOMAIN calls /\ x[2] <= calls[x[1]].attempt

OnceInv ==
    /\ RunsAreCalled
    /\ \A t \in TickAt : \E f : Numbers(f, t)

\* What a step may do to a tick for which nothing is announced in it.
LEMMA NumbersKept ==
    ASSUME NEW t, NEW f, Numbers(f, t),
           UNCHANGED announced,
           t \in DOMAIN calls' => /\ t \in DOMAIN calls
                                  /\ calls[t].attempt \in Nat /\ calls'[t].attempt \in Nat
                                  /\ calls[t].attempt <= calls'[t].attempt,
           \A n \in Attempt : Asking(t, n)' =>
               Asking(t, n) \/ (t \in DOMAIN calls /\ ~(n <= calls[t].attempt))
    PROVE  Numbers(f, t)'
<1>1. AnnouncedAt(t)' = AnnouncedAt(t)
  BY DEF AnnouncedAt
<1>2. /\ (f \in [ AnnouncedAt(t) -> Attempt ])'
      /\ (\A d, e \in AnnouncedAt(t) : f[d] = f[e] => d = e)'
  BY <1>1 DEF Numbers, Attempt
<1>3. ASSUME NEW e \in AnnouncedAt(t)
      PROVE  /\ ~Asking(t, f[e])'
             /\ t \in DOMAIN calls' => f[e] <= calls'[t].attempt
  <2>1. f[e] \in Attempt /\ ~Asking(t, f[e])
    BY DEF Numbers
  <2>2. t \in DOMAIN calls => f[e] <= calls[t].attempt
    BY DEF Numbers
  <2>3. ~Asking(t, f[e])'
    BY <2>1, <2>2
  <2>4. ASSUME t \in DOMAIN calls' PROVE f[e] <= calls'[t].attempt
    <3>1. f[e] \in Nat
      BY <2>1, PipelineAssumption DEF Attempt
    <3> QED  BY <2>2, <2>4, <3>1
  <2> QED  BY <2>3, <2>4
<1>4. (\A e \in AnnouncedAt(t) :
          /\ ~Asking(t, f[e])
          /\ t \in DOMAIN calls => f[e] <= calls[t].attempt)'
  BY <1>1, <1>3
<1> QED
  BY <1>2, <1>4 DEF Numbers

\* A process that starts has announced nothing.
LEMMA OnceInit == Init => OnceInv
<1> SUFFICES ASSUME Init PROVE OnceInv
  OBVIOUS
<1>1. DOMAIN runs = {} /\ DOMAIN calls = {} /\ announced = {}
  BY DEF Init, Nothing
<1>2. ASSUME NEW t PROVE \E f : Numbers(f, t)
  <2>1. AnnouncedAt(t) = {}
    BY <1>1 DEF AnnouncedAt
  <2>2. [ e \in {} |-> 0 ] \in [ {} -> Attempt ]
    OBVIOUS
  <2>3. Numbers([ e \in {} |-> 0 ], t)
    BY <2>1, <2>2 DEF Numbers
  <2> QED  BY <2>3
<1> QED
  BY <1>1, <1>2 DEF OnceInv, RunsAreCalled

\* calls[t] is a record of a number and a Boolean.
LEMMA CallFields ==
    ASSUME IInv, NEW t \in DOMAIN calls
    PROVE  /\ t \in TickAt /\ t <= now
           /\ calls[t].attempt \in Attempt /\ calls[t].attempt \in Nat
           /\ calls[t] = [ attempt |-> calls[t].attempt, settled |-> calls[t].settled ]
<1>1. calls[t] \in [ attempt : Attempt, settled : BOOLEAN ] /\ t \in TickAt /\ t <= now
  BY DEF IInv, PipelineTypeOK, RunsInv
<1>2. \A n \in Attempt : n \in Nat
  BY PipelineAssumption DEF Attempt
<1> QED
  BY <1>1, <1>2

(***************************************************************************)
(* A step that announces nothing, starts no call and no execution but      *)
(* those of a later attempt, and may end others.                           *)
(***************************************************************************)
LEMMA OnceKept ==
    ASSUME IInv, OnceInv,
           UNCHANGED announced,
           \A t \in DOMAIN calls' : /\ t \in DOMAIN calls
                                    /\ calls'[t].attempt \in Nat
                                    /\ calls[t].attempt <= calls'[t].attempt,
           \A x \in DOMAIN runs' :
               \/ x \in DOMAIN runs /\ runs'[x].phase = runs[x].phase /\ x[1] \in DOMAIN calls'
               \/ /\ x[1] \in DOMAIN calls' /\ x[2] = calls'[x[1]].attempt
                  /\ ~(x[2] <= calls[x[1]].attempt)
    PROVE  OnceInv'
<1>1. \A t \in DOMAIN calls' : calls[t].attempt \in Nat
  BY CallFields
<1>2. RunsAreCalled'
  <2>1. SUFFICES ASSUME NEW x \in DOMAIN runs'
                 PROVE  x[1] \in DOMAIN calls' /\ x[2] <= calls'[x[1]].attempt
    BY DEF RunsAreCalled
  <2>2. CASE x \in DOMAIN runs /\ x[1] \in DOMAIN calls'
    <3>1. x[2] <= calls[x[1]].attempt /\ x[2] \in Attempt
      BY <2>2, RunFields DEF OnceInv, RunsAreCalled, IInv
    <3>2. x[2] \in Nat
      BY <3>1, PipelineAssumption DEF Attempt
    <3> QED  BY <1>1, <2>2, <3>1, <3>2
  <2>3. CASE x[1] \in DOMAIN calls' /\ x[2] = calls'[x[1]].attempt
    BY <2>3
  <2> QED  BY <2>2, <2>3
<1>3. ASSUME NEW t \in TickAt PROVE (\E f : Numbers(f, t))'
  <2>1. PICK f : Numbers(f, t)
    BY DEF OnceInv
  <2>2. ASSUME NEW n \in Attempt, Asking(t, n)'
        PROVE  Asking(t, n) \/ (t \in DOMAIN calls /\ ~(n <= calls[t].attempt))
    <3>1. <<t, n>>[1] = t /\ <<t, n>>[2] = n
      OBVIOUS
    <3>2. <<t, n>> \in DOMAIN runs' /\ runs'[<<t, n>>].phase = "asking"
      BY <2>2 DEF Asking
    <3> QED  BY <3>1, <3>2 DEF Asking
  <2>3. Numbers(f, t)'
    BY <1>1, <2>1, <2>2, NumbersKept
  <2> QED  BY <2>3
<1> QED
  BY <1>2, <1>3 DEF OnceInv

\* A tick starts the attempt that its first ask belongs to.
LEMMA OnceMinutePasses ==
    ASSUME IInv, OnceInv, MinutePasses
    PROVE  OnceInv'
<1>1. CASE UNCHANGED <<calls, runs>>
  <2>1. UNCHANGED announced
    BY DEF MinutePasses
  <2> QED
    BY <1>1, <2>1, CallFields, OnceKept DEF OnceInv, RunsAreCalled
<1>2. CASE /\ calls' = Put(calls, now', [ attempt |-> 0, settled |-> FALSE ])
           /\ runs' = Put(runs, <<now', 0>>, NewRun)
  <2>1. now' = now + 1 /\ UNCHANGED announced /\ now \in Nat
    BY Moments DEF MinutePasses, IInv
  <2>2. now' \notin DOMAIN calls
    BY <2>1 DEF IInv, RunsInv
  <2>3. /\ DOMAIN calls' = DOMAIN calls \cup {now'}
        /\ calls'[now'].attempt = 0
        /\ \A t \in DOMAIN calls : calls'[t] = calls[t]
    BY <1>2, <2>2 DEF Put
  <2>4. /\ DOMAIN runs' = DOMAIN runs \cup {<<now', 0>>}
        /\ \A x \in DOMAIN runs : x # <<now', 0>> => runs'[x] = runs[x]
    BY <1>2 DEF Put
  <2>5. RunsAreCalled'
    <3>1. \A x \in DOMAIN runs : x[1] \in DOMAIN calls' /\ x[2] <= calls'[x[1]].attempt
      BY <2>3 DEF OnceInv, RunsAreCalled
    <3>2. <<now', 0>>[1] = now' /\ <<now', 0>>[2] = 0
      OBVIOUS
    <3> QED  BY <2>3, <2>4, <3>1, <3>2 DEF RunsAreCalled
  <2>6. ASSUME NEW t \in TickAt, t # now' PROVE (\E f : Numbers(f, t))'
    <3>1. PICK f : Numbers(f, t)
      BY DEF OnceInv
    <3>2. ASSUME t \in DOMAIN calls'
          PROVE  t \in DOMAIN calls /\ calls[t].attempt \in Nat /\ calls'[t] = calls[t]
      BY <2>3, <2>6, <3>2, CallFields
    <3>3. ASSUME NEW n \in Attempt, Asking(t, n)' PROVE Asking(t, n)
      <4>1. <<t, n>> # <<now', 0>>
        BY <2>6
      <4> QED  BY <2>4, <3>3, <4>1 DEF Asking
    <3>4. Numbers(f, t)'
      BY <2>1, <3>1, <3>2, <3>3, NumbersKept
    <3> QED  BY <3>4
  <2>7. ASSUME NEW t, t = now' PROVE (\E f : Numbers(f, t))'
    <3>1. AnnouncedAt(t)' = {}
      BY <2>1, <2>7 DEF AnnouncedAt, IInv, AnnouncedInv
    <3>2. [ e \in {} |-> 0 ] \in [ {} -> Attempt ]
      OBVIOUS
    <3>3. Numbers([ e \in {} |-> 0 ], t)'
      BY <3>1, <3>2 DEF Numbers, Attempt
    <3> QED  BY <3>3
  <2> QED
    BY <2>5, <2>6, <2>7 DEF OnceInv
<1> QED
  BY <1>1, <1>2 DEF MinutePasses

\* A retry is one more attempt; those before it keep their numbers.
LEMMA OnceRequestTimeout ==
    ASSUME IInv, OnceInv, RequestTimeout
    PROVE  OnceInv'
<1>1. UNCHANGED announced
  BY DEF RequestTimeout
<1>2. PICK t \in DOMAIN calls :
         IF calls[t].attempt < Retries
         THEN /\ calls' = [ calls EXCEPT ![t].attempt = @ + 1 ]
              /\ runs' = Put(runs, <<t, calls[t].attempt + 1>>, NewRun)
         ELSE /\ calls' = [ calls EXCEPT ![t].settled = TRUE ]
              /\ UNCHANGED runs
  BY DEF RequestTimeout
<1>3. /\ calls[t].attempt \in Nat
      /\ calls[t] = [ attempt |-> calls[t].attempt, settled |-> calls[t].settled ]
  BY CallFields
<1>4. CASE calls[t].attempt < Retries
  <2> DEFINE n == calls[t].attempt + 1
  <2>1. /\ DOMAIN calls' = DOMAIN calls
        /\ calls'[t].attempt = n
        /\ \A u \in DOMAIN calls \ {t} : calls'[u] = calls[u]
    BY <1>2, <1>3, <1>4
  <2>2. /\ DOMAIN runs' = DOMAIN runs \cup {<<t, n>>}
        /\ \A x \in DOMAIN runs \ {<<t, n>>} : runs'[x] = runs[x]
    BY <1>2, <1>4 DEF Put
  <2>3. n \in Nat /\ calls[t].attempt <= n /\ ~(n <= calls[t].attempt)
    BY <1>3
  <2> HIDE DEF n
  <2>4. \A u \in DOMAIN calls' : /\ u \in DOMAIN calls
                                 /\ calls'[u].attempt \in Nat
                                 /\ calls[u].attempt <= calls'[u].attempt
    BY <2>1, <2>3, CallFields
  <2>5. \A x \in DOMAIN runs : x[1] \in DOMAIN calls'
    BY <2>1 DEF OnceInv, RunsAreCalled
  <2>6. <<t, n>>[1] = t /\ <<t, n>>[2] = n
    OBVIOUS
  <2> QED
    BY <1>1, <2>1, <2>2, <2>3, <2>4, <2>5, <2>6, OnceKept
<1>5. CASE ~(calls[t].attempt < Retries)
  <2>1. /\ UNCHANGED runs /\ DOMAIN calls' = DOMAIN calls
        /\ \A u \in DOMAIN calls : calls'[u].attempt = calls[u].attempt
    BY <1>2, <1>3, <1>5
  <2> QED
    BY <1>1, <2>1, CallFields, OnceKept DEF OnceInv, RunsAreCalled
<1> QED
  BY <1>4, <1>5

\* An execution that is over, and the call it settles.
LEMMA OnceDropped ==
    ASSUME IInv, OnceInv, NEW x, runs' = Drop(runs, x), Settle(x), UNCHANGED announced
    PROVE  OnceInv'
<1>1. /\ DOMAIN runs' \subseteq DOMAIN runs
      /\ \A y \in DOMAIN runs' : runs'[y] = runs[y]
  BY DEF Drop
<1>2. \A t \in DOMAIN calls :
         calls[t] = [ attempt |-> calls[t].attempt, settled |-> calls[t].settled ]
  BY CallFields
<1>3. /\ DOMAIN calls' = DOMAIN calls
      /\ \A t \in DOMAIN calls : calls'[t].attempt = calls[t].attempt
  BY <1>2 DEF Settle
<1> QED
  BY <1>1, <1>3, CallFields, OnceKept DEF OnceInv, RunsAreCalled

\* Announcing uses up the attempt that computed, and no other.
LEMMA OnceAnnounced ==
    ASSUME IInv, OnceInv, NEW x \in DOMAIN runs, ComputeAndAnnounce(x)
    PROVE  OnceInv'
<1> DEFINE ev == Evidence(x, rate)
<1>1. /\ runs[x].phase = "asking"
      /\ runs' = [ runs EXCEPT ![x].phase = "announced", ![x].rate = rate ]
      /\ announced' = announced \cup {ev}
      /\ UNCHANGED calls
  BY DEF ComputeAndAnnounce, Answered
<1>2. /\ x[1] \in TickAt /\ x[2] \in Attempt
      /\ runs[x] = [ phase |-> runs[x].phase, near |-> runs[x].near,
                     next |-> runs[x].next, rate |-> runs[x].rate ]
  BY RunFields DEF IInv
<1>3. x = <<x[1], x[2]>>
  BY DEF IInv, PipelineTypeOK
<1>4. /\ DOMAIN runs' = DOMAIN runs
      /\ runs'[x].phase = "announced"
      /\ \A y \in DOMAIN runs \ {x} : runs'[y] = runs[y]
  BY <1>1, <1>2
<1>5. ev.at = x[1]
  BY DEF Evidence
<1> HIDE DEF ev
<1>6. RunsAreCalled'
  BY <1>1, <1>4 DEF OnceInv, RunsAreCalled
<1>7. \A t, n : Asking(t, n)' => Asking(t, n) /\ <<t, n>> # x
  BY <1>4 DEF Asking
<1>8. ASSUME NEW t \in TickAt PROVE (\E f : Numbers(f, t))'
  <2>1. PICK f : Numbers(f, t)
    BY DEF OnceInv
  <2>2. CASE ev \in announced \/ t # x[1]
    <3>1. AnnouncedAt(t)' = AnnouncedAt(t)
      BY <1>1, <1>5, <2>2 DEF AnnouncedAt
    <3>2. Numbers(f, t)'
      BY <1>1, <1>7, <2>1, <3>1 DEF Numbers, Attempt
    <3> QED  BY <3>2
  <2>3. CASE ev \notin announced /\ t = x[1]
    <3> DEFINE S == AnnouncedAt(t)
    <3> PICK g : g = [ e \in S \cup {ev} |-> IF e = ev THEN x[2] ELSE f[e] ]
      OBVIOUS
    <3>1. AnnouncedAt(t)' = S \cup {ev} /\ ev \notin S
      BY <1>1, <1>5, <2>3 DEF AnnouncedAt
    <3>2. Asking(t, x[2])
      BY <1>1, <1>3, <2>3 DEF Asking
    <3>3. /\ \A e \in S : g[e] = f[e] /\ f[e] \in Attempt /\ f[e] # x[2]
          /\ g[ev] = x[2]
      BY <2>1, <3>1, <3>2 DEF Numbers
    <3>4. g \in [ S \cup {ev} -> Attempt ]
      BY <1>2, <3>3
    <3> HIDE DEF S
    <3>5. \A d, e \in S : f[d] = f[e] => d = e
      BY <2>1 DEF Numbers, S
    <3>6. \A d, e \in S \cup {ev} : g[d] = g[e] => d = e
      BY <3>3, <3>5
    <3>7. ASSUME NEW e \in S \cup {ev}
          PROVE  /\ ~Asking(t, g[e])'
                 /\ t \in DOMAIN calls' => g[e] <= calls'[t].attempt
      <4>1. CASE e = ev
        <5>1. ~Asking(t, x[2])'
          BY <1>3, <1>7, <2>3
        <5>2. x[2] <= calls[x[1]].attempt
          BY DEF OnceInv, RunsAreCalled
        <5> QED  BY <1>1, <2>3, <3>3, <4>1, <5>1, <5>2
      <4>2. CASE e \in S
        <5>1. /\ ~Asking(t, f[e])
              /\ t \in DOMAIN calls => f[e] <= calls[t].attempt
          BY <2>1, <4>2 DEF Numbers, S
        <5> QED  BY <1>1, <1>7, <3>3, <4>2, <5>1
      <4> QED  BY <4>1, <4>2
    <3>8. Numbers(g, t)'
      BY <3>1, <3>4, <3>6, <3>7 DEF Numbers, Attempt
    <3> QED  BY <3>8
  <2> QED  BY <2>2, <2>3
<1> QED
  BY <1>6, <1>8 DEF OnceInv

\* Every other step leaves the announced indexes and the attempts alone.
LEMMA OnceStep == IInv /\ OnceInv /\ [Next]_vars => OnceInv'
<1> SUFFICES ASSUME IInv, OnceInv, [Next]_vars PROVE OnceInv'
  OBVIOUS
<1>1. ASSUME NEW x \in DOMAIN runs, AskNear(x) \/ AskNext(x)
      PROVE  OnceInv'
  <2>1. \A y \in DOMAIN runs :
           runs[y] = [ phase |-> runs[y].phase, near |-> runs[y].near,
                       next |-> runs[y].next, rate |-> runs[y].rate ]
    BY RunFields DEF IInv
  <2>2. UNCHANGED <<calls, announced>>
    BY <1>1 DEF AskNear, AskNext
  <2>3. \E answer : \/ runs' = [ runs EXCEPT ![x].near = answer ]
                    \/ runs' = [ runs EXCEPT ![x].next = answer ]
    BY <1>1 DEF AskNear, AskNext
  <2>4. DOMAIN runs' = DOMAIN runs /\ \A y \in DOMAIN runs : runs'[y].phase = runs[y].phase
    BY <2>1, <2>3
  <2> QED
    BY <2>2, <2>4, CallFields, OnceKept DEF OnceInv, RunsAreCalled
<1>2. CASE IndexStep
  <2>1. ASSUME NEW x \in DOMAIN runs, ComputeFails(x) \/ Persist(x) PROVE OnceInv'
    BY <2>1, OnceDropped DEF ComputeFails, Persist
  <2> QED
    BY <1>1, <1>2, <2>1, OnceAnnounced DEF IndexStep
<1>3. CASE Restart
  <2>1. DOMAIN calls' = {} /\ DOMAIN runs' = {} /\ UNCHANGED announced
    BY <1>3 DEF Restart, Nothing
  <2> QED
    BY <2>1, OnceKept
<1>4. CASE UNCHANGED <<calls, runs, announced>>
  BY <1>4, CallFields, OnceKept DEF OnceInv, RunsAreCalled
<1> QED
  BY <1>2, <1>3, <1>4, OnceMinutePasses, OnceRequestTimeout
     DEF Next, RateUpdated, IngestStep, vars

(***************************************************************************)
(* A tick is announced to the websocket clients at most once per attempt   *)
(* that the retry policy allows, whatever the abandoned handlers, retries  *)
(* and restarts do meanwhile.                                              *)
(***************************************************************************)
THEOREM TicksAreAnnouncedOncePerAttempt ==
    Spec => [] \A t \in TickAt : /\ IsFiniteSet(AnnouncedAt(t))
                                 /\ Cardinality(AnnouncedAt(t)) <= Retries + 1
<1> DEFINE Once == \A t \in TickAt : /\ IsFiniteSet(AnnouncedAt(t))
                                     /\ Cardinality(AnnouncedAt(t)) <= Retries + 1
<1>1. OnceInv => Once
  <2>1. SUFFICES ASSUME OnceInv, NEW t \in TickAt
                 PROVE  /\ IsFiniteSet(AnnouncedAt(t))
                        /\ Cardinality(AnnouncedAt(t)) <= Retries + 1
    OBVIOUS
  <2>2. PICK f : Numbers(f, t)
    BY <2>1 DEF OnceInv
  <2>3. f \in Injection(AnnouncedAt(t), 0 .. Retries)
    BY <2>2 DEF Numbers, Attempt, Injection, IsInjective
  <2>4. IsFiniteSet(0 .. Retries) /\ Cardinality(0 .. Retries) = Retries + 1
    BY FS_Interval, PipelineAssumption
  <2> QED  BY <2>3, <2>4, FS_Injection
<1>2. Init => OnceInv
  BY OnceInit
<1>3. IInv /\ OnceInv /\ [Next]_vars => OnceInv'
  BY OnceStep
<1> HIDE DEF Once
<1>4. Spec => []Once
  BY <1>1, <1>2, <1>3, PipelineInvariant, PTL DEF Spec
<1> QED
  BY <1>4 DEF Once

-----------------------------------------------------------------------------
(***************************************************************************)
(* CallsSettle is a liveness property, which the run pipeline checks.  Its *)
(* safety half is the number of timeouts a call can still take.            *)
(***************************************************************************)
TimeoutsLeft(t) == IF calls[t].settled THEN 0 ELSE Retries + 1 - calls[t].attempt

CallsComeNearer ==
    /\ \A t \in DOMAIN calls :
          /\ TimeoutsLeft(t) \in 0 .. Retries + 1
          /\ TimeoutsLeft(t) = 0 <=> calls[t].settled
          /\ t \in DOMAIN calls' => TimeoutsLeft(t)' <= TimeoutsLeft(t)
    /\ RequestTimeout => \E t \in DOMAIN calls :
          t \in DOMAIN calls' /\ TimeoutsLeft(t)' < TimeoutsLeft(t)

\* The broker gives an attempt up at most Retries + 1 times.
LEMMA TimeoutsAreBounded ==
    ASSUME IInv, NEW t \in DOMAIN calls
    PROVE  /\ TimeoutsLeft(t) \in 0 .. Retries + 1
           /\ TimeoutsLeft(t) = 0 <=> calls[t].settled
           /\ calls[t].attempt \in Nat /\ Retries \in Nat
           /\ calls[t] = [ attempt |-> calls[t].attempt, settled |-> calls[t].settled ]
<1>1. calls[t] \in [ attempt : Attempt, settled : BOOLEAN ]
  BY DEF IInv, PipelineTypeOK
<1>2. Retries \in Nat
  BY PipelineAssumption
<1>3. calls[t].attempt \in Attempt
  BY <1>1
<1>4. calls[t].attempt \in Nat /\ calls[t].attempt <= Retries
  BY <1>2, <1>3 DEF Attempt
<1>5. CASE calls[t].settled
  <2>1. TimeoutsLeft(t) = 0
    BY <1>5, Zenon DEF TimeoutsLeft
  <2> QED  BY <1>1, <1>2, <1>4, <1>5, <2>1
<1>6. CASE ~calls[t].settled
  <2>1. TimeoutsLeft(t) = Retries + 1 - calls[t].attempt
    BY <1>6, Zenon DEF TimeoutsLeft
  <2>2. TimeoutsLeft(t) \in 0 .. Retries + 1 /\ TimeoutsLeft(t) # 0
    BY <1>2, <1>4, <2>1
  <2> QED  BY <1>1, <1>2, <1>4, <1>6, <2>2
<1> QED
  BY <1>5, <1>6

\* Each step of a call comes nearer its end; nothing moves it away.
LEMMA CallsComeNearerStep == IInv /\ [Next]_vars => [CallsComeNearer]_vars
<1> SUFFICES ASSUME IInv, Next PROVE CallsComeNearer
  OBVIOUS
<1>1. ASSUME NEW t \in DOMAIN calls, t \in DOMAIN calls', calls'[t] = calls[t]
      PROVE  TimeoutsLeft(t)' <= TimeoutsLeft(t)
  <2>1. TimeoutsLeft(t)' = TimeoutsLeft(t)
    BY <1>1, Zenon DEF TimeoutsLeft
  <2> QED  BY <2>1, TimeoutsAreBounded
<1>2. ASSUME NEW t \in DOMAIN calls, calls'[t] = [ calls[t] EXCEPT !.settled = TRUE ]
      PROVE  /\ TimeoutsLeft(t)' <= TimeoutsLeft(t)
             /\ ~calls[t].settled => TimeoutsLeft(t)' < TimeoutsLeft(t)
  <2>1. calls'[t].settled
    BY <1>2, TimeoutsAreBounded
  <2>2. TimeoutsLeft(t)' = 0
    BY <2>1, Zenon DEF TimeoutsLeft
  <2>3. TimeoutsLeft(t) \in Nat /\ (~calls[t].settled => TimeoutsLeft(t) # 0)
    BY TimeoutsAreBounded
  <2> QED  BY <2>2, <2>3
<1>3. ASSUME NEW t \in DOMAIN calls, ~calls[t].settled,
             calls'[t] = [ calls[t] EXCEPT !.attempt = @ + 1 ]
      PROVE  TimeoutsLeft(t)' < TimeoutsLeft(t)
  <2>1. calls'[t].settled = calls[t].settled /\ calls'[t].attempt = calls[t].attempt + 1
    BY <1>3, TimeoutsAreBounded
  <2>2. /\ TimeoutsLeft(t) = Retries + 1 - calls[t].attempt
        /\ TimeoutsLeft(t)' = Retries + 1 - calls'[t].attempt
    BY <1>3, <2>1, Zenon DEF TimeoutsLeft
  <2> QED  BY <2>1, <2>2, TimeoutsAreBounded
<1> DEFINE NoneRises == \A t \in DOMAIN calls :
                           t \in DOMAIN calls' => TimeoutsLeft(t)' <= TimeoutsLeft(t)
<1>4. CASE RequestTimeout
  <2>1. PICK t \in DOMAIN calls :
           /\ ~calls[t].settled
           /\ \/ calls' = [ calls EXCEPT ![t].attempt = @ + 1 ]
              \/ calls' = [ calls EXCEPT ![t].settled = TRUE ]
    BY <1>4 DEF RequestTimeout
  <2>2. /\ DOMAIN calls' = DOMAIN calls
        /\ \A u \in DOMAIN calls \ {t} : calls'[u] = calls[u]
    BY <2>1
  <2>3. \/ calls'[t] = [ calls[t] EXCEPT !.attempt = @ + 1 ]
        \/ calls'[t] = [ calls[t] EXCEPT !.settled = TRUE ]
    BY <2>1
  <2>4. TimeoutsLeft(t)' < TimeoutsLeft(t)
    BY <1>2, <1>3, <2>1, <2>3
  <2>5. TimeoutsLeft(t)' <= TimeoutsLeft(t)
    <3>1. IInv'
      BY InvStep
    <3>2. \A u \in DOMAIN calls : TimeoutsLeft(u) \in Nat
      BY TimeoutsAreBounded
    <3>3. TimeoutsLeft(t)' \in Int
      <4>1. calls'[t].attempt \in Int
        <5>1. calls'[t] \in [ attempt : Attempt, settled : BOOLEAN ]
          BY <2>2, <3>1 DEF IInv, PipelineTypeOK, Attempt
        <5>2. calls'[t].attempt \in Attempt
          BY <5>1
        <5> QED  BY <5>2, PipelineAssumption DEF Attempt
      <4>2. TimeoutsLeft(t)' = 0 \/ TimeoutsLeft(t)' = Retries + 1 - calls'[t].attempt
        BY Zenon DEF TimeoutsLeft
      <4> QED  BY <4>1, <4>2, PipelineAssumption
    <3> QED  BY <2>4, <3>2, <3>3
  <2>6. NoneRises
    BY <1>1, <2>2, <2>5
  <2> QED  BY <2>2, <2>4, <2>6, TimeoutsAreBounded DEF CallsComeNearer
<1>5. ASSUME MinutePasses PROVE NoneRises
  <2>1. \A t \in DOMAIN calls : t # now'
    BY <1>5, Moments DEF MinutePasses, IInv, RunsInv
  <2>2. \A t \in DOMAIN calls : calls'[t] = calls[t]
    BY <1>5, <2>1 DEF MinutePasses, Put
  <2> QED  BY <1>1, <2>2
<1>6. ASSUME NEW x \in DOMAIN runs, Settle(x) PROVE NoneRises
  <2>1. CASE UNCHANGED calls
    BY <1>1, <2>1
  <2>2. CASE calls' = [ calls EXCEPT ![x[1]].settled = TRUE ]
    <3>1. ASSUME NEW t \in DOMAIN calls
          PROVE  \/ calls'[t] = calls[t]
                 \/ calls'[t] = [ calls[t] EXCEPT !.settled = TRUE ]
      BY <2>2
    <3> QED  BY <1>1, <1>2, <3>1
  <2> QED  BY <1>6, <2>1, <2>2 DEF Settle
<1>7. ASSUME Restart PROVE NoneRises
  BY <1>7 DEF Restart, Nothing
<1>8. ASSUME UNCHANGED calls PROVE NoneRises
  BY <1>1, <1>8
<1>9. NoneRises
  <2>1. CASE IndexStep
    <3>1. PICK x \in DOMAIN runs : UNCHANGED calls \/ Settle(x)
      BY <2>1 DEF IndexStep, AskNear, AskNext, ComputeAndAnnounce, ComputeFails, Persist
    <3> QED  BY <1>6, <1>8, <3>1
  <2> QED
    BY <1>4, <1>5, <1>7, <1>8, <2>1 DEF Next, RateUpdated, IngestStep, CallsComeNearer
<1> QED
  BY <1>4, <1>9, TimeoutsAreBounded DEF CallsComeNearer

(***************************************************************************)
(* A call of the cron job never moves away from being settled: each        *)
(* timeout uses one of its attempts up or is the last, no late answer of   *)
(* an abandoned handler gives one back, and a call that is settled stays   *)
(* so and is not made again.                                               *)
(***************************************************************************)
THEOREM CallsComeToAnEnd == Spec => [][CallsComeNearer]_vars
BY CallsComeNearerStep, PipelineInvariant, PTL DEF Spec
=============================================================================
