--------------------------- MODULE VixCalculatorV1 ---------------------------
(***************************************************************************)
(* VixCalculator (src/lib/vix_calculator.ts), the calculator that          *)
(* VixCalculatorV2 superseded and that nothing imports any more: its       *)
(* streams, rollovers and reports.  It takes its two terms from the        *)
(* calendar instead of the listed expiries, and reports on any message     *)
(* that is due, whatever it has: 0 before its first index, later on the    *)
(* latest one, which may be of earlier terms or not a number.  What is     *)
(* reported is left out here; StrikeBook has the book of one term.         *)
(*                                                                         *)
(* Time is counted in slots of five seconds, as in VixCalculator; Friday   *)
(* 08:00 UTC is every multiple of Week.  A term is its expiry.             *)
(***************************************************************************)
EXTENDS Integers

CONSTANTS Week,         \* slots in a week
          Minute,       \* slots in a minute
          Frequency,    \* reportFrequency, in slots
          Start,        \* replayFrom, floored to the minute
          MaxDuration,  \* replayTo - replayFrom, in slots
          LastSlot      \* bound: the last slot a message can be in

ASSUME CalculatorV1Assumption ==
    /\ Week \in Nat \ {0} /\ Minute \in Nat \ {0} /\ Frequency \in Nat \ {0}
    /\ Start \in Nat /\ MaxDuration \in Nat \ {0} /\ LastSlot \in Nat

VARIABLES phase,      \* where fetchIndex is, see CalculatorPhase
          refDate,    \* start of the current stream
          lists,      \* terms of nearOptionList and nextOptionList
          live,       \* the current stream is a live one
          clock,      \* slot of the latest message
          lastReport, \* ts of the latest report, or a minute before refDate
          overruns,   \* history: how many reports lie past the query
          present     \* environment: the query may reach the present, so that a
                      \*   stream can be live

calculatorVars == <<phase, refDate, lists, live, clock, lastReport, overruns, present>>

CalculatorPhase == {"building", "streaming", "rolling", "completed", "failed"}

QueryEnd == Start + MaxDuration

(***************************************************************************)
(* setupRollover: the first Friday after refDate is the rollover, the two  *)
(* that follow are the terms (rolloverWeekly of WeeklyTerms has the dates).*)
(***************************************************************************)
rolloverAt == ((refDate \div Week) + 1) * Week

nearExpiry == rolloverAt + Week

nextExpiry == rolloverAt + 2 * Week

CalculatorInit ==
    /\ phase = "building"
    /\ refDate = Start
    /\ lists = {}
    /\ live = FALSE
    /\ clock = -1
    /\ lastReport = Start - Minute
    /\ overruns = 0
    /\ present \in BOOLEAN

-----------------------------------------------------------------------------
\* createStream counts the duration from refDate again, and ends a recorded
\* stream at the rollover.
StreamEnd ==
    IF refDate + MaxDuration > rolloverAt THEN rolloverAt ELSE refDate + MaxDuration

(***************************************************************************)
(* buildOptionLists answers with what is listed of the two terms, and      *)
(* summaryStream begins.                                                   *)
(***************************************************************************)
Build ==
    /\ phase \in {"building", "rolling"}
    /\ lists' \in SUBSET {nearExpiry, nextExpiry}
    /\ phase' = "streaming"
    /\ lastReport' = refDate - Minute
    /\ live' \in {FALSE, present}
    /\ clock' = IF live' THEN clock ELSE refDate - 1
    /\ UNCHANGED <<refDate, overruns, present>>

\* getInstrumentInfo fails, or the stream does.
FetchIndexThrows ==
    /\ phase \in {"building", "rolling", "streaming"}
    /\ phase' = "failed"
    /\ UNCHANGED <<refDate, lists, live, clock, lastReport, overruns, present>>

-----------------------------------------------------------------------------
\* The value need not be a new one: a failure of calculateIndex is swallowed.
Report(k) ==
    IF k + 1 - lastReport >= Frequency
    THEN /\ lastReport' = k + 1
         /\ overruns' = IF k + 1 >= QueryEnd THEN overruns + 1 ELSE overruns
    ELSE UNCHANGED <<lastReport, overruns>>

ContinueFromRefDate(k) == \* the duration counted from refDate here as well
    IF k + 1 - refDate >= MaxDuration
    THEN phase' = "completed" /\ UNCHANGED refDate
    ELSE IF k + 1 >= rolloverAt
         THEN phase' = "rolling" /\ refDate' = rolloverAt
         ELSE UNCHANGED <<phase, refDate>>

\* The loop ends, or the terms are replaced and the stream is made again.
Continue(k) ==
    IF k + 1 - Start >= MaxDuration
    THEN phase' = "completed" /\ UNCHANGED refDate
    ELSE IF k + 1 >= rolloverAt
         THEN phase' = "rolling" /\ refDate' = rolloverAt
         ELSE UNCHANGED <<phase, refDate>>

(***************************************************************************)
(* summaryStream: every message of a listed, unexpired instrument may be   *)
(* reported and may end the stream; in this order, so that the message     *)
(* that ends the query is still reported.                                  *)
(***************************************************************************)
Message(e, k) ==
    /\ phase = "streaming"
    /\ e \in lists
    /\ clock <= k /\ k < e
    /\ ~live => refDate <= k /\ k < StreamEnd
    /\ clock' = k
    /\ Report(k)
    /\ Continue(k)
    /\ UNCHANGED <<lists, live, present>>

\* A recorded stream is exhausted: onComplete.
Exhausted ==
    /\ phase = "streaming"
    /\ ~live
    /\ phase' = "completed"
    /\ UNCHANGED <<refDate, lists, live, clock, lastReport, overruns, present>>

CalculatorEnded == phase \in {"completed", "failed"} /\ UNCHANGED calculatorVars

CalculatorNext ==
    \/ Build
    \/ FetchIndexThrows
    \/ \E e \in { w * Week : w \in 1 .. LastSlot }, k \in 0 .. LastSlot :
          Message(e, k)
    \/ Exhausted
    \/ CalculatorEnded

CalculatorSpec == CalculatorInit /\ [][CalculatorNext]_calculatorVars

-----------------------------------------------------------------------------
(***************************************************************************)
(* The message that ends the query is reported before its moment is looked *)
(* at (vix_calculator.ts:174 and 191), so one report may lie at the end of *)
(* the query or beyond it, and never two, over any number of rollovers,    *)
(* although each new stream is asked for beyond the end of the query.      *)
(***************************************************************************)
OneReportPastTheEnd == overruns <= 1
=============================================================================
