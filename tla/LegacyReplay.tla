---------------------------- MODULE LegacyReplay ----------------------------
(***************************************************************************)
(* replay() and process() of the websocket gateway                         *)
(* (services/ws.service.ts), the way to replay before VixCalculatorV2;     *)
(* nothing calls them any more.  A replay asks instrument_info for the     *)
(* instruments of its two terms and streams their summaries and one-second *)
(* buckets.  A summary is put into the broker's cache under its symbol, a  *)
(* bucket makes an index of what the cache has of the two terms, and both  *)
(* the cache and the map of symbols by expiry are shared by all replays.   *)
(*                                                                         *)
(* Messages of a replay come in order of their slot, a second each.        *)
(***************************************************************************)
EXTENDS InstrumentInfo

CONSTANTS Replay,     \* replays of the clients
          NearOf,     \* timestamp |-> near expiry; the other is the next one
          LastSecond  \* bound: the last second of a replay

ASSUME LegacyReplayAssumption ==
    /\ LastSecond \in Nat
    /\ \A ts \in Timestamp : /\ NearOf[ts] \in TermsOf[ts]
                             /\ \E e \in TermsOf[ts] : e # NearOf[ts]

VARIABLES replays,    \* replay |-> what it is doing
          socket,     \* replay |-> "open" or "closed"
          expiryMap,  \* symbols a summary was received of, in any replay
          cacher,     \* broker cache: symbol |-> replay of its latest summary
          lastSent    \* replay |-> whose summaries its latest index was of

legacyVars == <<replays, socket, expiryMap, cacher, lastSent>>

NotBegun == [ phase |-> "none" ]

NotSent == {}

NoBucket == -1

LegacyInit ==
    /\ InfoInit
    /\ replays = [ r \in Replay |-> NotBegun ]
    /\ socket = [ r \in Replay |-> "open" ]
    /\ expiryMap = {}
    /\ cacher = [ s \in {} |-> 0 ]
    /\ lastSent = [ r \in Replay |-> NotSent ]

To(r, phase) == [ replays EXCEPT ![r].phase = phase ]

-----------------------------------------------------------------------------
\* replay(): mfivDates, then the instruments of its terms.
BeginReplay(r, ts) ==
    /\ replays[r] = NotBegun
    /\ replays' = [ replays EXCEPT ![r] = [ phase |-> "asking", from |-> ts ] ]
    /\ UNCHANGED <<socket, expiryMap, cacher, lastSent>>
    /\ UNCHANGED infoVars

GetsInstruments(r) ==
    /\ replays[r].phase = "asking"
    /\ \E ids \in SUBSET Instrument :
          /\ AskInstruments(replays[r].from, ids)
          /\ replays' = [ replays EXCEPT ![r] =
                [ phase |-> "streaming", from |-> replays[r].from, symbols |-> ids,
                  second |-> 0, open |-> [ s \in ids |-> NoBucket ], near |-> {} ] ]
    /\ UNCHANGED <<socket, expiryMap, cacher, lastSent>>

\* The instruments or the stream fail: logged, the client is not told.
ReplayFails(r) ==
    /\ replays[r].phase \in {"asking", "streaming"}
    /\ replays' = To(r, "failed")
    /\ UNCHANGED <<socket, expiryMap, cacher, lastSent>>
    /\ UNCHANGED infoVars

(***************************************************************************)
(* A summary of s arrives in second k, and cacheMessage stores it.  The    *)
(* first one of a later second also closes the bucket of the symbol, which *)
(* comes right behind it (computeOptionBucket passes messages on first).   *)
(***************************************************************************)
SummaryOf(r, s, k) ==
    LET me     == replays[r]
        closes == me.open[s] # NoBucket /\ me.open[s] < k
    IN  /\ me.phase = "streaming"
        /\ s \in me.symbols /\ AliveAt(s, me.from)
        /\ me.second <= k /\ k <= LastSecond
        /\ expiryMap' = expiryMap \cup {s}
        /\ cacher' = [ x \in DOMAIN cacher \cup {s} |->
                         IF x = s THEN r ELSE cacher[x] ]
        /\ replays' = [ replays EXCEPT
              ![r].phase = IF closes THEN "bucket" ELSE "streaming",
              ![r].second = k,
              ![r].open[s] = k ]
        /\ UNCHANGED <<socket, lastSent>>
        /\ UNCHANGED infoVars

-----------------------------------------------------------------------------
FetchEverything(e) == { cacher[s] : s \in expiryMap }   \* expiry not looked at

\* fetchOptionSummaries of expiry e: one entry of the cache per symbol seen.
fetchOptionSummaries(e) == { cacher[s] : s \in { s \in expiryMap : ExpiryOf[s] = e } }

HasExpiry(e) == \E s \in expiryMap : ExpiryOf[s] = e

FetchNear(r) ==
    /\ replays[r].phase = "bucket"
    /\ HasExpiry(NearOf[replays[r].from])
    /\ replays' = [ To(r, "near") EXCEPT
                      ![r].near = fetchOptionSummaries(NearOf[replays[r].from]) ]
    /\ UNCHANGED <<socket, expiryMap, cacher, lastSent>>
    /\ UNCHANGED infoVars

NextOf(ts) == CHOOSE e \in TermsOf[ts] : e # NearOf[ts]

(***************************************************************************)
(* An expiry no replay has seen a summary of: fetchOptionSummaries throws  *)
(* where its caller expects a Result, and with it process ends.            *)
(***************************************************************************)
FetchThrows(r) ==
    /\ \/ replays[r].phase = "bucket" /\ ~HasExpiry(NearOf[replays[r].from])
       \/ replays[r].phase = "near" /\ ~HasExpiry(NextOf(replays[r].from))
    /\ replays' = To(r, "failed")
    /\ UNCHANGED <<socket, expiryMap, cacher, lastSent>>
    /\ UNCHANGED infoVars

\* The next term is fetched, the index computed and sent in one go.
FetchNextAndSend(r) ==
    /\ replays[r].phase = "near"
    /\ HasExpiry(NextOf(replays[r].from))
    /\ socket[r] = "open"
    /\ lastSent' = [ lastSent EXCEPT ![r] =
                       replays[r].near \cup fetchOptionSummaries(NextOf(replays[r].from)) ]
    /\ replays' = To(r, "streaming")
    /\ UNCHANGED <<socket, expiryMap, cacher>>
    /\ UNCHANGED infoVars

\* compute throws: this index is skipped.
FetchNextAndSkip(r) ==
    /\ replays[r].phase = "near"
    /\ HasExpiry(NextOf(replays[r].from))
    /\ replays' = To(r, "streaming")
    /\ UNCHANGED <<socket, expiryMap, cacher, lastSent>>
    /\ UNCHANGED infoVars

\* send to a closed socket throws, outside of any try.
SendFails(r) ==
    /\ replays[r].phase = "near"
    /\ HasExpiry(NextOf(replays[r].from))
    /\ socket[r] = "closed"
    /\ replays' = To(r, "failed")
    /\ UNCHANGED <<socket, expiryMap, cacher, lastSent>>
    /\ UNCHANGED infoVars

\* The stream is exhausted; the list of expiries never is ("Complete
\* processing if no more expiries" tests an element that is always there).
FinishProcess(r) ==
    /\ replays[r].phase = "streaming"
    /\ replays' = To(r, "finished")
    /\ UNCHANGED <<socket, expiryMap, cacher, lastSent>>
    /\ UNCHANGED infoVars

LegacyHangUp(r) ==
    /\ socket[r] = "open"
    /\ replays[r].phase \in {"asking", "streaming", "bucket", "near"}
    /\ socket' = [ socket EXCEPT ![r] = "closed" ]
    /\ UNCHANGED <<replays, expiryMap, cacher, lastSent>>
    /\ UNCHANGED infoVars

LegacyNext ==
    \/ InfoNext /\ UNCHANGED legacyVars
    \/ \E r \in Replay :
          \/ \E ts \in Timestamp : BeginReplay(r, ts)
          \/ GetsInstruments(r)
          \/ ReplayFails(r)
          \/ \E s \in Instrument, k \in 0 .. LastSecond : SummaryOf(r, s, k)
          \/ FetchNear(r)
          \/ FetchThrows(r)
          \/ FetchNextAndSend(r)
          \/ FetchNextAndSkip(r)
          \/ SendFails(r)
          \/ FinishProcess(r)
          \/ LegacyHangUp(r)

LegacySpec == LegacyInit /\ [][LegacyNext]_<<infoVars, legacyVars>>

-----------------------------------------------------------------------------
(***************************************************************************)
(* Replays share a cache without a word about whose summaries are in it.   *)
(* What keeps their indexes apart is the expiry alone: a replay that has   *)
(* no term in common with any other one, earlier or at the same time,      *)
(* computes from summaries of its own, whatever happens between the two    *)
(* look-ups of a bucket.                                                   *)
(***************************************************************************)
SharesTerms(r, q) ==
    /\ replays[r] # NotBegun /\ replays[q] # NotBegun
    /\ TermsOf[replays[r].from] \cap TermsOf[replays[q].from] # {}

OwnEvidenceUnlessShared ==
    \A r \in Replay :
        (\A q \in Replay \ {r} : ~SharesTerms(r, q)) =>
            lastSent[r] \subseteq {r}
=============================================================================
