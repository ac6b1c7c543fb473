--------------------------- MODULE VixCalculator ---------------------------
(***************************************************************************)
(* VixCalculatorV2 (src/lib/vix_calculator_v2.ts): replays the option      *)
(* summaries of a query period, keeps a book of the latest summary per     *)
(* instrument of the near and the next term, reports an index at most once *)
(* per report frequency and rolls over to the next pair of terms each time *)
(* an expiry passes.                                                       *)
(*                                                                         *)
(* Time is counted in slots of five seconds: a message whose timestamp is  *)
(* in slot k is rounded up to the end of the slot, k + 1, which is the ts  *)
(* of the source.  Only which instruments are in the book matters here,    *)
(* not their prices.                                                       *)
(***************************************************************************)
EXTENDS BuildExpiries, Sequences

CONSTANTS Minute,          \* slots in a minute
          ReportFrequency, \* minutes between two reports
          Start,           \* replayFrom, floored to the minute
          MaxDuration,     \* replayTo - replayFrom, in slots
          Consumer,        \* "socket" (ws.service) or "database" (backfill)
          LivePossible,    \* the query may reach the present, so that a
                           \*   stream can be live instead of recorded
          Busy,            \* environment: some near or next instrument has a
                           \*   message in every slot
          Horizon          \* bound: the last slot a message can be in

ASSUME CalculatorAssumption ==
    /\ Minute \in Nat \ {0}
    /\ ReportFrequency \in Nat \ {0}
    /\ Start \in Nat
    /\ MaxDuration \in Nat \ {0}
    /\ Consumer \in {"socket", "database"}
    /\ LivePossible \in BOOLEAN
    /\ Busy \in BOOLEAN
    /\ Horizon \in Nat

Frequency == ReportFrequency * Minute

QueryEnd == Start + MaxDuration

VARIABLES phase,      \* where fetchIndex is, see Phase
          refDate,    \* start of the current stream
          expiries,   \* answer of buildExpiries for refDate
          live,       \* the current stream is a live one
          clock,      \* slot of the latest message (a recorded stream
                      \*   starts with the slot before refDate)
          lastReport, \* ts of the latest report, or a minute before refDate
          midBook,    \* instruments with a summary in the book
          options,    \* future instruments with a summary set aside
          sink,       \* the consumer's socket: "open" or "closed"
          sent,       \* the indexes onCompute has handed to the consumer
          seen        \* history: instruments a summary was received of

vars == <<phase, refDate, expiries, live, clock, lastReport, midBook, options,
          sink, sent, seen>>

\* "building" and "rolling" wait for buildExpiries, "streaming" for a message.
Phase == {"building", "streaming", "rolling", "completed", "failed"}

Ended == phase \in {"completed", "failed"}

NoExpiries == [ near |-> 0, next |-> 0, rolloverAt |-> 0, future |-> {},
                symbols |-> {} ]

Index(at) == [ at |-> at, near |-> expiries.near, next |-> expiries.next ]

Init ==
    /\ phase = "building"
    /\ refDate = Start
    /\ expiries = NoExpiries
    /\ live = FALSE
    /\ clock = -1
    /\ lastReport = Start - Minute
    /\ midBook = {}
    /\ options = {}
    /\ sink = "open"
    /\ sent = <<>>
    /\ seen = {}

-----------------------------------------------------------------------------
(***************************************************************************)
(* createStream.  A recorded stream covers [refDate, replayTo); a live one *)
(* has no end.                                                             *)
(***************************************************************************)
ReplayToIgnoringRollover == refDate + MaxDuration

ReplayTo ==
    IF refDate + MaxDuration > expiries.rolloverAt
    THEN expiries.rolloverAt
    ELSE refDate + MaxDuration

BeginStreamReporting(x) ==  \* the first message of a stream is reported
    /\ phase' = "streaming"
    /\ expiries' = x
    /\ lastReport' = refDate - Frequency
    /\ live' \in {FALSE, LivePossible}
    /\ clock' = IF live' THEN clock ELSE refDate - 1

\* Head of summaryStream, run with the answer x of buildExpiries.
BeginStream(x) ==
    /\ phase' = "streaming"
    /\ expiries' = x
    /\ lastReport' = refDate - Minute
    /\ live' \in {FALSE, LivePossible}
    /\ clock' = IF live' THEN clock ELSE refDate - 1

FirstStream ==
    /\ phase = "building"
    /\ \E x \in buildExpiries(refDate) : BeginStream(x)
    /\ UNCHANGED <<refDate, midBook, options, sink, sent, seen>>

\* getInstrumentInfo fails, or there is no near or no next term.
BuildThrows ==
    /\ phase \in {"building", "rolling"}
    /\ phase' = "failed"
    /\ UNCHANGED <<refDate, expiries, live, clock, lastReport, midBook, options,
                   sink, sent, seen>>

-----------------------------------------------------------------------------
(***************************************************************************)
(* A summary of instrument s in slot k arrives.  The exchange sends        *)
(* summaries of listed, unexpired instruments in order of time.            *)
(***************************************************************************)
Arrives(s, k) ==
    /\ phase = "streaming"
    /\ s \in expiries.symbols
    /\ clock <= k /\ k <= Horizon
    /\ ListingOf[s] <= k /\ k < ExpiryOf[s]
    /\ ~live => refDate <= k /\ k < ReplayTo
    /\ clock' = k
    /\ seen' = seen \cup {s}

\* Instruments beyond the next term are set aside; nothing else is looked at.
FutureMessage(s, k) ==
    /\ Arrives(s, k)
    /\ ExpiryOf[s] \notin {expiries.near, expiries.next}
    /\ Busy => k = clock
    /\ options' = options \cup {s}
    /\ UNCHANGED <<phase, refDate, expiries, live, lastReport, midBook, sink, sent>>

\* onComplete: a socket is closed (closing a closed one may throw), a backfill
\* only logs.
Finish ==
    /\ phase' \in {"completed"} \cup (IF sink = "closed" THEN {"failed"} ELSE {})
    /\ sink' = IF Consumer = "socket" THEN "closed" ELSE sink
    /\ UNCHANGED refDate

ProceedFromRollover(k) == \* the duration counted again from each rollover
    IF k + 1 - refDate >= MaxDuration
    THEN Finish
    ELSE IF k + 1 >= expiries.rolloverAt
         THEN phase' = "rolling" /\ refDate' = expiries.rolloverAt /\ UNCHANGED sink
         ELSE UNCHANGED <<phase, refDate, sink>>

ProceedLate(k) ==        \* isAfter instead of isSameOrAfter
    IF k + 1 - Start >= MaxDuration
    THEN Finish
    ELSE IF k + 1 > expiries.rolloverAt
         THEN phase' = "rolling" /\ refDate' = expiries.rolloverAt /\ UNCHANGED sink
         ELSE UNCHANGED <<phase, refDate, sink>>

\* The checks after a near or next message in slot k: done, roll over, go on.
Proceed(k) ==
    IF k + 1 - Start >= MaxDuration
    THEN Finish
    ELSE IF k + 1 >= expiries.rolloverAt
         THEN phase' = "rolling" /\ refDate' = expiries.rolloverAt /\ UNCHANGED sink
         ELSE UNCHANGED <<phase, refDate, sink>>

Due(k) == k + 1 - lastReport >= Frequency

\* What every near or next message does, whether or not a report is due.
Book(s, k) ==
    /\ Arrives(s, k)
    /\ ExpiryOf[s] \in {expiries.near, expiries.next}
    /\ Busy => k <= clock + 1
    /\ midBook' = midBook \cup {s}
    /\ UNCHANGED <<expiries, live, options>>

BookOnly(s, k) ==
    /\ Book(s, k)
    /\ ~Due(k)
    /\ Proceed(k)
    /\ UNCHANGED <<lastReport, sent>>

\* compute throws ("burn in"): the report is skipped, its time is used up.
ComputeThrows(s, k) ==
    /\ Book(s, k)
    /\ Due(k)
    /\ lastReport' = k + 1
    /\ Proceed(k)
    /\ UNCHANGED sent

SendIndex(s, k) ==
    /\ Book(s, k)
    /\ Due(k)
    /\ lastReport' = k + 1
    /\ sink = "open"
    /\ sent' = Append(sent, Index(k))
    /\ Proceed(k)

\* onCompute with a socket the client has closed: send throws, outside of the
\* try, and fetchIndex rejects; or it drops the message.
SendToClosed(s, k) ==
    /\ Book(s, k)
    /\ Due(k)
    /\ lastReport' = k + 1
    /\ sink = "closed"
    /\ \/ phase' = "failed" /\ UNCHANGED <<refDate, sink>>
       \/ Proceed(k)
    /\ UNCHANGED sent

NearOrNextMessage(s, k) ==
    \/ BookOnly(s, k)
    \/ ComputeThrows(s, k)
    \/ SendIndex(s, k)
    \/ SendToClosed(s, k)

-----------------------------------------------------------------------------
(***************************************************************************)
(* buildExpiries answers at a rollover.  When the near term is a new one,  *)
(* the old one is removed from the book, what was set aside of the new     *)
(* next term is copied into it and the rest is forgotten; summaryStream    *)
(* starts over.                                                            *)
(***************************************************************************)
RolledByExpiry(x) ==     \* set aside by expiry instead of by instrument
    /\ midBook' = { s \in midBook : ExpiryOf[s] # expiries.near } \cup {x.next}
    /\ options' = {}

RolledClearingFirst(x) ==
    /\ midBook' = { s \in midBook : ExpiryOf[s] # expiries.near }
    /\ options' = {}

Rolled(x) ==
    /\ midBook' = { s \in midBook : ExpiryOf[s] # expiries.near }
                    \cup { s \in options : ExpiryOf[s] = x.next }
    /\ options' = {}

Rollover ==
    /\ phase = "rolling"
    /\ \E x \in buildExpiries(refDate) :
          /\ IF x.near # expiries.near
             THEN Rolled(x)
             ELSE UNCHANGED <<midBook, options>>
          /\ BeginStream(x)
    /\ UNCHANGED <<refDate, sink, sent, seen>>

StreamEndsSilently ==    \* the loop left with return: no onComplete
    /\ phase = "streaming"
    /\ ~live
    /\ UNCHANGED vars

(***************************************************************************)
(* The recorded stream is exhausted: the loop falls through to onComplete. *)
(***************************************************************************)
StreamEnds ==
    /\ phase = "streaming"
    /\ ~live
    /\ Busy => clock + 1 >= ReplayTo
    /\ Finish
    /\ UNCHANGED <<expiries, live, clock, lastReport, midBook, options, sent, seen>>

\* The exchange's or the data provider's connection fails.
StreamThrows ==
    /\ phase = "streaming"
    /\ phase' = "failed"
    /\ UNCHANGED <<refDate, expiries, live, clock, lastReport, midBook, options,
                   sink, sent, seen>>

\* close handler of ws.service: the client goes away, the replay goes on.
ClientHangsUp ==
    /\ Consumer = "socket"
    /\ sink = "open"
    /\ sink' = "closed"
    /\ UNCHANGED <<phase, refDate, expiries, live, clock, lastReport, midBook,
                   options, sent, seen>>

Terminated == Ended /\ UNCHANGED vars

Next ==
    \/ FirstStream
    \/ BuildThrows
    \/ \E s \in Symbol, k \in 0 .. Horizon :
          FutureMessage(s, k) \/ NearOrNextMessage(s, k)
    \/ Rollover
    \/ StreamEnds
    \/ StreamThrows
    \/ ClientHangsUp
    \/ Terminated

(***************************************************************************)
(* Fairness: a request to the data provider is answered or fails, and a    *)
(* recorded stream moves on and ends.  Nothing is assumed of the client.   *)
(***************************************************************************)
Fairness ==
    /\ WF_vars(FirstStream \/ Rollover \/ BuildThrows)
    /\ WF_vars(\E s \in Symbol, k \in (clock + 1) .. Horizon :
                  NearOrNextMessage(s, k))
    /\ WF_vars(StreamEnds)

Spec == Init /\ [][Next]_vars /\ Fairness

-----------------------------------------------------------------------------
(***************************************************************************)
(* Every variable has the shape of its declaration.                        *)
(***************************************************************************)
TypeOK ==
    /\ phase \in Phase
    /\ refDate \in Nat
    /\ expiries \in ExpiriesRecord
    /\ live \in BOOLEAN
    /\ clock \in Int
    /\ lastReport \in Int
    /\ midBook \in SUBSET Symbol
    /\ options \in SUBSET Symbol
    /\ sink \in {"open", "closed"}
    /\ sent \in Seq([ at : Nat, near : Nat, next : Nat ])
    /\ seen \in SUBSET Symbol

(***************************************************************************)
(* In recorded streams, no index is computed from a near term that has     *)
(* expired by the moment of the index, however late the rollover message   *)
(* comes: createStream ends the stream at the first expiry.                *)
(***************************************************************************)
NoExpiredTerm ==
    ~LivePossible => \A i \in 1 .. Len(sent) :
        sent[i].at < sent[i].near /\ sent[i].near < sent[i].next

(***************************************************************************)
(* When every next term is one time period after some listed expiry, the   *)
(* terms of an index bracket the moment it is computed for, not only the   *)
(* refDate they were looked up for.                                        *)
(***************************************************************************)
Aligned(now) ==
    \A e \in NextCandidates(now) :
        \E r \in ActiveExpiries(now) : r + TimePeriodLength <= e

ReportedTermsBracket ==
    (~LivePossible /\ \A t \in 0 .. Horizon : Aligned(t)) =>
        \A i \in 1 .. Len(sent) :
            /\ sent[i].near <= sent[i].at + TimePeriodLength
            /\ sent[i].at + TimePeriodLength < sent[i].next

(***************************************************************************)
(* A calendar in which each rollover leaves both terms and the future one  *)
(* in place, or moves each of them up by one: nothing is listed between    *)
(* terms that are listed already, and no term is passed over.              *)
(***************************************************************************)
TermsMoveUp ==
    \A t \in 0 .. Horizon :
        \A x \in buildExpiries(t) :
            \A y \in buildExpiries(x.rolloverAt) :
                \/ y.near = x.near /\ y.next = x.next /\ x.future \subseteq y.future
                \/ y.near = x.next /\ x.future \subseteq {y.next}

(***************************************************************************)
(* In such a calendar, while summaries stream, the book holds exactly the  *)
(* instruments of the two current terms a summary was received of: nothing *)
(* of an old term is left, and nothing that was set aside for the new next *)
(* term is lost at a rollover.  When a term is listed between two others,  *)
(* options of the old next term stay in the book; it is up to compute then *)
(* to leave them out.                                                      *)
(***************************************************************************)
BookIsCurrent ==
    (TermsMoveUp /\ phase = "streaming") =>
        midBook = { s \in seen : ExpiryOf[s] \in {expiries.near, expiries.next} }

(***************************************************************************)
(* When some near or next instrument has a message in every slot, a replay *)
(* that completes has seen the whole query period, through all rollovers.  *)
(***************************************************************************)
CompletedCoversQuery ==
    Busy => (phase = "completed" => clock + 1 >= QueryEnd)

(***************************************************************************)
(* Under the same condition no index is sent for a moment outside of the   *)
(* query period, although the stream after a rollover extends beyond it    *)
(* and a live one may run before its start.  (With a report frequency of   *)
(* one minute, a live stream reports in the slot just before the start.)   *)
(***************************************************************************)
ReportsWithinQuery ==
    Busy => \A i \in 1 .. Len(sent) :
                Start <= sent[i].at /\ sent[i].at < QueryEnd

(***************************************************************************)
(* A calculator is a replay job: its indexes come in order of time, at     *)
(* least a report frequency less one minute apart (summaryStream sets      *)
(* lastReport a minute before each rollover), and it ends once.            *)
(***************************************************************************)
Job == INSTANCE ReplayJob
           WITH Moment    <- 0 .. Horizon,
                MinGap    <- Frequency - Minute,
                status    <- IF Ended THEN phase ELSE "running",
                delivered <- [ i \in 1 .. Len(sent) |-> sent[i].at ]

IsReplayJob == Job!JobInit /\ [][Job!JobNext]_(Job!jobVars)

(***************************************************************************)
(* Every replay ends, completed or failed.                                 *)
(***************************************************************************)
ReplayEnds == Job!JobEnds
=============================================================================
