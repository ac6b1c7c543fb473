--------------------------- MODULE TradeServices ---------------------------
(***************************************************************************)
(* A process of the broker from its start to its end, around the stream of *)
(* TradeCapture: the database is initialized once the broker is created    *)
(* (moleculer.config.ts), every service that needs it polls until it is    *)
(* (waitForDatasourceReady), and tradeoption and tradepair then open the   *)
(* stream they consume until it ends (services/trade_option.service.ts,    *)
(* services/trade_pair.service.ts).  Processes die and are started again.  *)
(*                                                                         *)
(* A process runs one service, as it is deployed.  TradeCapture keeps the  *)
(* rows of both trade services side by side; a process writes its own.     *)
(***************************************************************************)
EXTENDS TradeCapture

CONSTANT Timeout        \* milliseconds that waitForDatasourceReady waits

\* The countdown compares with zero only: it gives up after a whole number of
\* seconds or never.
ASSUME WaitAssumption == Timeout \in Nat /\ Timeout % 1000 = 0

Service == {"tradeoption", "tradepair", "index", "rate"}

Capturing == {"tradeoption", "tradepair"}

NoBucket == [ timestamp |-> -1, closeTimestamp |-> -1 ]

VARIABLES service,    \* the service of the process
          phase,      \* how far its start, and then its stream, is
          database,   \* AppDataSource
          counter,    \* milliseconds left to the countdown
          latest      \* tradeoption: the bucket that latest answers

startVars == <<service, phase, database, counter>>

serviceVars == <<vars, startVars, latest>>

ServiceInit ==
    /\ Init
    /\ service \in Service
    /\ phase = "waiting"
    /\ database = "connecting"
    /\ counter = Timeout
    /\ latest = NoBucket

IsInitialized == database = "initialized"

-----------------------------------------------------------------------------
(***************************************************************************)
(* AppDataSource.initialize, which created does not wait for; when it      *)
(* fails, broker.fatal ends the process.                                   *)
(***************************************************************************)
DatabaseConnects ==
    /\ phase # "exited"
    /\ database = "connecting"
    /\ database' = "initialized"
    /\ UNCHANGED <<vars, service, phase, counter, latest>>

DatabaseFails ==
    /\ phase # "exited"
    /\ database = "connecting"
    /\ phase' = "exited"
    /\ UNCHANGED <<vars, service, database, counter, latest>>

\* tradeoption looks the instruments up; tradepair opens the streams of the
\* pairs of its asset, and is left without one when it knows none for it; the
\* other services are started.
AfterWait ==
    CASE service = "tradeoption" -> {"listing"}
      [] service = "tradepair"   -> {"streaming", "idle"}
      [] OTHER                   -> {"started"}

\* The trade services catch the rejection and are started without a stream;
\* the others reject their start, which ends the process.
AfterTimeout == IF service \in Capturing THEN "idle" ELSE "exited"

CountedDownNever == counter          \* the decrement is missing

CountedDown == counter - 1000

\* One second of the timer.
WaitTick ==
    /\ phase = "waiting"
    /\ \/ IsInitialized /\ phase' \in AfterWait /\ UNCHANGED counter
       \/ ~IsInitialized /\ counter = 0 /\ phase' = AfterTimeout /\ UNCHANGED counter
       \/ ~IsInitialized /\ counter # 0 /\ counter' = CountedDown /\ UNCHANGED phase
    /\ UNCHANGED <<vars, service, database, latest>>

\* buildOptionLists; its error is caught like that of the wait.
ListInstruments ==
    /\ phase = "listing"
    /\ phase' \in {"streaming", "idle"}
    /\ UNCHANGED <<vars, service, database, counter, latest>>

-----------------------------------------------------------------------------
(***************************************************************************)
(* A message of the symbol: a bucket that it completes becomes the latest  *)
(* one before the insert, which fails when the connection is gone.         *)
(***************************************************************************)
StreamEmits(timestamp) ==
    /\ phase = "streaming"
    /\ EmittingMessage(timestamp)
    /\ ~IsInitialized => <<optionRows, tradeRows, lost>>' = <<optionRows, tradeRows, lost>>
    /\ latest' = IF service = "tradeoption" THEN Bucket ELSE latest
    /\ UNCHANGED startVars

StreamUpdates(timestamp) ==
    /\ phase = "streaming"
    /\ Message(timestamp)
    /\ UNCHANGED <<startVars, latest>>

\* The stream ends, or that of one of the exchanges throws, which ends all of
\* them: either is logged, and the service stays up.
StreamEnds ==
    /\ phase = "streaming"
    /\ phase' = "idle"
    /\ UNCHANGED <<vars, service, database, counter, latest>>

\* The broker stops: the services leave their streams open, and the connection
\* is destroyed under them.
BrokerStops ==
    /\ phase # "exited"
    /\ database = "initialized"
    /\ database' = "destroyed"
    /\ UNCHANGED <<vars, service, phase, counter, latest>>

ProcessEnds ==
    /\ phase # "exited"
    /\ phase' = "exited"
    /\ UNCHANGED <<vars, service, database, counter, latest>>

\* The supervisor starts the process again; the open bucket is gone.
Restart ==
    /\ phase = "exited"
    /\ StartAnew
    /\ phase' = "waiting"
    /\ database' = "connecting"
    /\ counter' = Timeout
    /\ latest' = NoBucket
    /\ UNCHANGED service

ServiceNext ==
    \/ DatabaseConnects \/ DatabaseFails
    \/ WaitTick \/ ListInstruments
    \/ \E timestamp \in Timestamp :
          StreamEmits(timestamp) \/ StreamUpdates(timestamp)
    \/ StreamEnds \/ BrokerStops \/ ProcessEnds \/ Restart

(***************************************************************************)
(* The interval timer goes on firing, and the request for the instruments  *)
(* is answered or fails.  Nothing is assumed of the database.              *)
(***************************************************************************)
ServiceSpec ==
    /\ ServiceInit /\ [][ServiceNext]_serviceVars
    /\ WF_serviceVars(WaitTick)
    /\ WF_serviceVars(ListInstruments)

-----------------------------------------------------------------------------
(***************************************************************************)
(* Every variable, those of TradeCapture included, has the shape of its    *)
(* declaration.                                                            *)
(***************************************************************************)
ServiceTypeOK ==
    /\ CaptureTypeOK
    /\ service \in Service
    /\ phase \in {"waiting", "listing", "streaming", "idle", "started", "exited"}
    /\ phase \in {"listing", "streaming", "idle"} => service \in Capturing
    /\ database \in {"connecting", "initialized", "destroyed"}
    /\ counter \in Nat /\ counter <= Timeout /\ counter % 1000 = 0
    /\ latest \in BucketRecord \cup {NoBucket}

(***************************************************************************)
(* A start comes to an end, whatever the database does: one that never     *)
(* answers, or that is destroyed while a service waits, does not keep the  *)
(* broker in its start for ever.                                           *)
(***************************************************************************)
EveryStartSettles ==
    phase \in {"waiting", "listing"} ~> phase \in {"streaming", "idle", "started", "exited"}
=============================================================================
