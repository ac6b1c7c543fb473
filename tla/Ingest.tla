------------------------------- MODULE Ingest -------------------------------
(***************************************************************************)
(* The ingest service of one asset (services/ingest.service.ts): it looks  *)
(* up the near and next expiry once, when it starts, streams the summaries *)
(* of their instruments from the exchange into the broker's cache and      *)
(* answers "summaries" requests, whose answers the broker caches as well.  *)
(*                                                                         *)
(* Moments are minutes, as in MfivDates.  The summaries of an expiry are   *)
(* abstracted to the moment of the latest one.                             *)
(***************************************************************************)
EXTENDS MfivDates

CONSTANTS TimePeriod,  \* days; settings.instrumentInfoDefaults.timePeriod
          First,       \* the moment the services are first started
          Last,        \* bound: the last moment considered
          CacheTTL,    \* minutes an answer of summaries is cached for
          SummaryAt    \* bound: the moments a summary may arrive at

ASSUME IngestAssumption ==
    /\ TimePeriod \in Nat \ {0}
    /\ First \in Nat
    /\ Last \in Nat /\ First <= Last
    /\ CacheTTL \in Nat
    /\ SummaryAt \subseteq Nat

VARIABLES now,        \* the clock
          stream,     \* the exchange's stream, see StreamStatus
          dates,      \* what mfivDates answered when the service started
          book,       \* expiryMap: the expiries seen |-> latest summary
          cached,     \* broker cache: expiry |-> answer and since when
          received    \* history: the <<expiry, moment>> of each summary

ingestVars == <<stream, dates, book, cached, received>>

\* "failed": the service did not start; "stopped": it streams no more.
StreamStatus == {"starting", "streaming", "failed", "stopped"}

Terms(d) == {d.nearExpiration, d.nextExpiration}

\* f with x mapped to y.
Put(f, x, y) == [ z \in DOMAIN f \cup {x} |-> IF z = x THEN y ELSE f[z] ]

Nothing == [ z \in {} |-> 0 ]

IngestInit ==
    /\ stream = "starting"
    /\ dates = mfivDates(First, TimePeriod)
    /\ book = Nothing
    /\ cached = Nothing
    /\ received = {}

-----------------------------------------------------------------------------
\* ingest(): the instruments are looked up, or that fails and the service
\* does not start.
StartStream ==
    /\ stream = "starting"
    /\ dates' = mfivDates(now, TimePeriod)
    /\ stream' \in {"streaming", "failed"}
    /\ UNCHANGED <<book, cached, received>>

\* process() and cacheMessage().
Summary(e) ==
    /\ stream = "streaming"
    /\ e \in Terms(dates)
    /\ now < e /\ now \in SummaryAt
    /\ book' = Put(book, e, now)
    /\ received' = received \cup {<<e, now>>}
    /\ UNCHANGED <<stream, dates, cached>>

\* The stream ends or throws: logged, and nothing starts it again.
StreamStops ==
    /\ stream = "streaming"
    /\ stream' = "stopped"
    /\ UNCHANGED <<dates, book, cached, received>>

(***************************************************************************)
(* The answers to summaries({ expiry }): from the cache, or read from the  *)
(* book and cached; rejected for an expiry that has never been seen.       *)
(***************************************************************************)
Missing == -1

IsCachedForever(e) == e \in DOMAIN cached

IsCached(e) == e \in DOMAIN cached /\ now - cached[e].since <= CacheTTL

Summaries(e, answer) ==
    /\ \/ IsCached(e) /\ answer = cached[e].latest /\ UNCHANGED cached
       \/ /\ ~IsCached(e) /\ e \in DOMAIN book
          /\ answer = book[e]
          /\ cached' = Put(cached, e, [ latest |-> book[e], since |-> now ])
       \/ ~IsCached(e) /\ e \notin DOMAIN book /\ answer = Missing /\ UNCHANGED cached
    /\ UNCHANGED <<stream, dates, book, received>>

\* The action is public: somebody else asks.
Query(e) ==
    /\ stream \in {"streaming", "stopped"}
    /\ \E answer \in {Missing} \cup (First .. Last) : Summaries(e, answer)

-----------------------------------------------------------------------------
(***************************************************************************)
(* Until the rollover moment that mfivDates announced when the service     *)
(* started, an index asks for the terms that are streamed.                 *)
(***************************************************************************)
StreamsQueriedTermsUntilRollover ==
    (stream = "streaming" /\ now < dates.rollover) =>
        Terms(mfivDates(now, TimePeriod)) = Terms(dates)
=============================================================================
