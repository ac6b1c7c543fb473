--------------------------- MODULE InstrumentInfo ---------------------------
(***************************************************************************)
(* The instrument_info service of one asset                                *)
(* (services/instrument_info.service.ts): it reads the list of options     *)
(* from the data provider when it starts, again when somebody calls        *)
(* refreshInstrumentInfos, and answers from that list which instruments of *)
(* some expiries are available at a timestamp; the broker caches answers.  *)
(* ingest asks it when it starts, the gateway when it replays.             *)
(*                                                                         *)
(* The provider lists an instrument from availableSince on; availableTo is *)
(* missing until the instrument has expired.  Moments are abstract.        *)
(***************************************************************************)
EXTENDS Integers

CONSTANTS Instrument,      \* ids of options
          Asset,           \* base currencies
          OwnAsset,        \* refreshDefaults.asset
          AssetOf, SinceOf, ExpiryOf,   \* of an instrument
          Refresher,       \* concurrent callers of the provider
          Timestamp,       \* timestamps instruments are asked for
          TermsOf,         \* timestamp |-> the expiries asked for with it
          TTL,             \* cache.ttl of the actions
          FirstMoment,     \* when the service starts
          LastMoment       \* bound: the last moment considered

ASSUME InstrumentInfoAssumption ==
    /\ OwnAsset \in Asset
    /\ AssetOf \in [ Instrument -> Asset ]
    /\ SinceOf \in [ Instrument -> Nat ] /\ ExpiryOf \in [ Instrument -> Nat ]
    /\ TTL \in Nat /\ FirstMoment \in Nat /\ LastMoment \in Nat
    /\ Refresher # {}

VARIABLES today,      \* the clock
          service,    \* "starting", "running" or "failed"
          infos,      \* instrumentInfos: [ asset, readAt ] of the provider
          requests,   \* caller |-> its request to the provider
          cache,      \* broker cache of answers, by timestamp
          primedAt,   \* history: when the first list was read
          foreign     \* history: a refresh for another asset was asked for

infoVars == <<today, service, infos, requests, cache, primedAt, foreign>>

NoRequest == [ phase |-> "none" ]

Asked(action, a) == [ phase |-> "asked", action |-> action, asset |-> a ]

InfoInit ==
    /\ today = FirstMoment
    /\ service = "starting"
    /\ infos = [ asset |-> OwnAsset, readAt |-> -1 ]
    /\ \E p \in Refresher :
          requests = [ c \in Refresher |->
                        IF c = p THEN Asked("started", OwnAsset) ELSE NoRequest ]
    /\ cache = [ ts \in {} |-> 0 ]
    /\ primedAt = -1
    /\ foreign = FALSE

-----------------------------------------------------------------------------
\* fetchInstruments and fetchAvailable: tardisOptionInstrumentDataSource asked.
Ask(c, action, a) ==
    /\ service = "running"
    /\ requests[c] = NoRequest
    /\ requests' = [ requests EXCEPT ![c] = Asked(action, a) ]
    /\ foreign' = (foreign \/ (action = "refresh" /\ a # OwnAsset))
    /\ UNCHANGED <<today, service, infos, cache, primedAt>>

ProviderReads(c) ==
    /\ requests[c].phase = "asked"
    /\ requests' = [ requests EXCEPT ![c] =
          [ phase |-> "read", action |-> requests[c].action,
            list |-> [ asset |-> requests[c].asset, readAt |-> today ] ] ]
    /\ UNCHANGED <<today, service, infos, cache, primedAt, foreign>>

(***************************************************************************)
(* The provider's answer arrives.  A refresh replaces the list by it,      *)
(* whatever was asked for or has arrived meanwhile; the action available   *)
(* hands it to its caller and leaves the list alone.                       *)
(***************************************************************************)
Arrives(c) ==
    /\ requests[c].phase = "read"
    /\ requests' = [ requests EXCEPT ![c] = NoRequest ]
    /\ IF requests[c].action = "available"
       THEN UNCHANGED <<service, infos, primedAt>>
       ELSE /\ infos' = requests[c].list
            /\ service' = "running"
            /\ primedAt' = IF service = "starting" THEN requests[c].list.readAt
                                                   ELSE primedAt
    /\ UNCHANGED <<today, cache, foreign>>

\* The provider fails: the action is rejected, or the service does not start.
ProviderFails(c) ==
    /\ requests[c] # NoRequest
    /\ requests' = [ requests EXCEPT ![c] = NoRequest ]
    /\ service' = IF requests[c].action = "started" THEN "failed" ELSE service
    /\ UNCHANGED <<today, infos, cache, primedAt, foreign>>

-----------------------------------------------------------------------------
\* The list as the provider had it: what had expired by then has an end.
Listed(list) == { s \in Instrument : AssetOf[s] = list.asset /\ SinceOf[s] <= list.readAt }

HasEnd(s, list) == ExpiryOf[s] <= list.readAt

\* Instruments with an end taken for unavailable at any time.
AvailableNow(s, ts, list) == SinceOf[s] <= ts /\ ~HasEnd(s, list)

(***************************************************************************)
(* The conditional binds weaker than the conjunction: only an instrument   *)
(* that was there by ts and has an end is looked at, every other one is    *)
(* available, among them those listed after ts.                            *)
(***************************************************************************)
Available(s, ts, list) ==
    SinceOf[s] <= ts /\ HasEnd(s, list) => ExpiryOf[s] > ts

\* The asset asked for is not looked at.
fetchAvailableInstruments(ts) ==
    { s \in Listed(infos) : Available(s, ts, infos) /\ ExpiryOf[s] \in TermsOf[ts] }

IsFresh(ts) == ts \in DOMAIN cache /\ today - cache[ts].since <= TTL

InstrumentInfoAnswer(ts) ==
    IF IsFresh(ts) THEN cache[ts].ids ELSE fetchAvailableInstruments(ts)

\* The action instrumentInfo, which answers ids for ts.
AskInstruments(ts, ids) ==
    /\ service = "running"
    /\ ids = InstrumentInfoAnswer(ts)
    /\ cache' = IF IsFresh(ts)
                THEN cache
                ELSE [ t \in DOMAIN cache \cup {ts} |->
                         IF t = ts THEN [ ids |-> ids, since |-> today ] ELSE cache[t] ]
    /\ UNCHANGED <<today, service, infos, requests, primedAt, foreign>>

TimePasses ==
    /\ today < LastMoment
    /\ today' = today + 1
    /\ UNCHANGED <<service, infos, requests, cache, primedAt, foreign>>

InfoNext ==
    \/ \E c \in Refresher :
          \/ \E a \in Asset, action \in {"refresh", "available"} : Ask(c, action, a)
          \/ ProviderReads(c)
          \/ Arrives(c)
          \/ ProviderFails(c)
    \/ \E ts \in Timestamp : AskInstruments(ts, InstrumentInfoAnswer(ts))
    \/ TimePasses

InfoSpec == InfoInit /\ [][InfoNext]_infoVars

-----------------------------------------------------------------------------
(***************************************************************************)
(* As long as nobody refreshes the service for another asset, no answer    *)
(* misses an instrument of the asset that was alive at the timestamp and   *)
(* listed by the time the service was primed: refreshes may overlap, fail  *)
(* and arrive out of order, instruments may expire between them, answers   *)
(* come from the cache or not.                                             *)
(***************************************************************************)
AliveAt(s, ts) == SinceOf[s] <= ts /\ ts < ExpiryOf[s]

NothingListedIsMissing ==
    (service = "running" /\ ~foreign) =>
        \A ts \in Timestamp, s \in Instrument :
            (/\ AssetOf[s] = OwnAsset /\ SinceOf[s] <= primedAt
             /\ AliveAt(s, ts) /\ ExpiryOf[s] \in TermsOf[ts])
            => s \in InstrumentInfoAnswer(ts)
=============================================================================
