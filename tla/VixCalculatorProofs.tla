------------------------ MODULE VixCalculatorProofs ------------------------
(***************************************************************************)
(* What the runs of VixCalculator show on two small calendars, proved for  *)
(* every calendar, query, time period and report frequency.  What follows  *)
(* from the end of a recorded stream at its first expiry (the terms of an  *)
(* index, and the refinement of ReplayJob) supposes that every stream of   *)
(* the query is a recorded one; the rest (types, the query period, the     *)
(* book) holds of live streams as well.                                    *)
(***************************************************************************)
EXTENDS VixCalculator, TLAPS

(***************************************************************************)
(* What an answer of buildExpiries says of the moment it was asked for.    *)
(***************************************************************************)
LEMMA AnswerFacts ==
    ASSUME NEW t \in Nat, NEW x \in buildExpiries(t)
    PROVE  /\ x \in ExpiriesRecord
           /\ x.near \in ActiveExpiries(t) /\ x.near <= t + TimePeriodLength
           /\ x.next \in NextCandidates(t) /\ t + TimePeriodLength < x.next
           /\ x.rolloverAt \in ActiveExpiries(t)
           /\ t < x.rolloverAt
           /\ \A e \in ActiveExpiries(t) : x.rolloverAt <= e
<1>1. ActiveExpiries(t) \in SUBSET Nat /\ \A e \in ActiveExpiries(t) : t < e
  BY InstrumentAssumption DEF InstrumentAssumption, ActiveExpiries, Available
<1>2. PICK near \in Greatest(NearCandidates(t)),
           next \in Least(NextCandidates(t)),
           rolloverAt \in Least(ActiveExpiries(t)) :
              x = Answer(t, near, next, rolloverAt)
  BY DEF buildExpiries
<1>3. near \in NearCandidates(t) /\ next \in NextCandidates(t)
  BY <1>2 DEF Greatest, Least
<1>4. rolloverAt \in ActiveExpiries(t) /\ \A e \in ActiveExpiries(t) : rolloverAt <= e
  BY <1>2 DEF Least
<1>5. /\ near \in ActiveExpiries(t) /\ near <= t + TimePeriodLength
      /\ next \in ActiveExpiries(t) /\ t + TimePeriodLength < next
  BY <1>1, <1>3, InstrumentAssumption
  DEF NearCandidates, NextCandidates, InstrumentAssumption
<1>6. /\ x.near = near /\ x.next = next /\ x.rolloverAt = rolloverAt
      /\ x = [ near |-> near, next |-> next, rolloverAt |-> rolloverAt,
               future |-> x.future, symbols |-> x.symbols ]
      /\ x.future \in SUBSET Nat
      /\ x.symbols \in SUBSET Symbol
  BY <1>1, <1>2 DEF Answer, Least, SymbolsOf, Available
<1>7. x \in ExpiriesRecord
  BY <1>1, <1>4, <1>5, <1>6 DEF ExpiriesRecord
<1> QED
  BY <1>1, <1>3, <1>4, <1>5, <1>6, <1>7

-----------------------------------------------------------------------------
(***************************************************************************)
(* Type correctness, for every kind of stream.                             *)
(***************************************************************************)
LEMMA TypeInit == Init => TypeOK
<1>1. NoExpiries \in ExpiriesRecord
  BY DEF NoExpiries, ExpiriesRecord
<1>2. <<>> \in Seq([ at : Nat, near : Nat, next : Nat ])
  OBVIOUS
<1> SUFFICES ASSUME Init PROVE TypeOK
  OBVIOUS
<1>3. live \in BOOLEAN
  BY Zenon DEF Init
<1>4. expiries \in ExpiriesRecord /\ sent \in Seq([ at : Nat, near : Nat, next : Nat ])
  BY <1>1, <1>2, Zenon DEF Init
<1>5. /\ phase \in Phase /\ refDate \in Nat /\ clock \in Int /\ lastReport \in Int
      /\ midBook \in SUBSET Symbol /\ options \in SUBSET Symbol
      /\ sink \in {"open", "closed"} /\ seen \in SUBSET Symbol
  BY CalculatorAssumption DEF CalculatorAssumption, Init, Phase
<1> QED
  BY <1>3, <1>4, <1>5 DEF TypeOK

LEMMA ProceedType ==
    ASSUME TypeOK, NEW k \in Nat, Proceed(k)
    PROVE  phase' \in Phase /\ refDate' \in Nat /\ sink' \in {"open", "closed"}
BY DEF Proceed, Finish, TypeOK, Phase, ExpiriesRecord

LEMMA TypeStep == TypeOK /\ [Next]_vars => TypeOK'
<1> SUFFICES ASSUME TypeOK, [Next]_vars PROVE TypeOK'
  OBVIOUS
<1> USE CalculatorAssumption DEF CalculatorAssumption
<1>1. ASSUME NEW x \in buildExpiries(refDate), BeginStream(x)
      PROVE  /\ phase' \in Phase /\ expiries' \in ExpiriesRecord
             /\ live' \in BOOLEAN /\ clock' \in Int /\ lastReport' \in Int
  <2>1. x \in ExpiriesRecord
    BY AnswerFacts DEF TypeOK
  <2>2. live' \in BOOLEAN
    BY <1>1, Zenon DEF BeginStream
  <2>3. refDate \in Int /\ clock \in Int /\ Minute \in Int
    BY DEF TypeOK
  <2>4. clock' = clock \/ clock' = refDate - 1
    BY <1>1 DEF BeginStream
  <2> QED  BY <1>1, <2>1, <2>2, <2>3, <2>4 DEF BeginStream, Phase
<1>2. CASE FirstStream
  BY <1>1, <1>2 DEF FirstStream, TypeOK
<1>3. CASE BuildThrows
  BY <1>3 DEF BuildThrows, TypeOK, Phase
<1>4. ASSUME NEW s \in Symbol, NEW k \in 0 .. Horizon, FutureMessage(s, k)
      PROVE  TypeOK'
  BY <1>4 DEF FutureMessage, Arrives, TypeOK
<1>5. ASSUME NEW s \in Symbol, NEW k \in 0 .. Horizon, NearOrNextMessage(s, k)
      PROVE  TypeOK'
  <2>1. /\ expiries' \in ExpiriesRecord /\ live' \in BOOLEAN /\ clock' \in Int
        /\ midBook' \in SUBSET Symbol /\ options' \in SUBSET Symbol
        /\ seen' \in SUBSET Symbol
    BY <1>5 DEF NearOrNextMessage, BookOnly, ComputeThrows, SendIndex,
                SendToClosed, Book, Arrives, TypeOK
  <2>2. phase' \in Phase /\ refDate' \in Nat /\ sink' \in {"open", "closed"}
    BY <1>5, ProceedType DEF NearOrNextMessage, BookOnly, ComputeThrows,
                             SendIndex, SendToClosed, TypeOK, Phase
  <2>3. lastReport' \in Int
    BY <1>5 DEF NearOrNextMessage, BookOnly, ComputeThrows, SendIndex,
                SendToClosed, TypeOK
  <2>4. sent' \in Seq([ at : Nat, near : Nat, next : Nat ])
    <3> DEFINE R == [ at : Nat, near : Nat, next : Nat ]
    <3>1. Index(k) \in R
      BY DEF Index, TypeOK, ExpiriesRecord
    <3>2. sent' = sent \/ sent' = Append(sent, Index(k))
      BY <1>5 DEF NearOrNextMessage, BookOnly, ComputeThrows, SendIndex,
                  SendToClosed
    <3>3. sent \in Seq(R)
      BY DEF TypeOK
    <3> HIDE DEF R
    <3>4. sent' \in Seq(R)
      BY <3>1, <3>2, <3>3
    <3> QED  BY <3>4 DEF R
  <2> QED  BY <2>1, <2>2, <2>3, <2>4 DEF TypeOK
<1>6. CASE Rollover
  <2>1. midBook' \in SUBSET Symbol /\ options' \in SUBSET Symbol
    BY <1>6 DEF Rollover, Rolled, TypeOK
  <2>2. PICK x \in buildExpiries(refDate) : BeginStream(x)
    BY <1>6 DEF Rollover
  <2>3. UNCHANGED <<refDate, sink, sent, seen>>
    BY <1>6 DEF Rollover
  <2> QED  BY <1>1, <2>1, <2>2, <2>3 DEF TypeOK
<1>7. CASE StreamEnds
  BY <1>7 DEF StreamEnds, Finish, TypeOK, Phase
<1>8. CASE StreamThrows
  BY <1>8 DEF StreamThrows, TypeOK, Phase
<1>9. CASE ClientHangsUp
  BY <1>9 DEF ClientHangsUp, TypeOK
<1>10. CASE UNCHANGED vars
  BY <1>10 DEF vars, TypeOK
<1> QED
  BY <1>2, <1>3, <1>4, <1>5, <1>6, <1>7, <1>8, <1>9, <1>10
  DEF Next, Terminated

(***************************************************************************)
(* Every reachable state of a calculator is well typed.                    *)
(***************************************************************************)
THEOREM TypeCorrect == Spec => []TypeOK
BY TypeInit, TypeStep, PTL DEF Spec

-----------------------------------------------------------------------------
(***************************************************************************)
(* Recorded streams.  NoExpiredTerm and ReportedTermsBracket speak of      *)
(* every index ever sent; they are kept because the latest one comes from  *)
(* a stream that ends at its first expiry.  That takes what the state      *)
(* remembers between two messages: which answer the stream was made from,  *)
(* that a rollover is later than every message before it, and that         *)
(* lastReport is at most a minute behind the latest index.                 *)
(***************************************************************************)
LastSent == sent[Len(sent)]

StreamInv ==
    /\ ~live
    /\ phase = "building" => sent = <<>>
    /\ phase = "streaming" => expiries \in buildExpiries(refDate)
    /\ phase = "rolling" => clock < refDate

LatestInv ==
    sent # <<>> => /\ LastSent.at <= clock
                   /\ LastSent.at + 1 <= lastReport + Minute

LEMMA LastSentType ==
    ASSUME TypeOK, sent # <<>>
    PROVE  LastSent.at \in Nat
<1> DEFINE R == [ at : Nat, near : Nat, next : Nat ]
<1>1. sent \in Seq(R)
  BY DEF TypeOK
<1>2. \A r \in R : r.at \in Nat
  OBVIOUS
<1> HIDE DEF R
<1>3. sent[Len(sent)] \in R
  BY <1>1
<1> QED
  BY <1>2, <1>3 DEF LastSent

IInv == TypeOK /\ StreamInv /\ LatestInv /\ NoExpiredTerm /\ ReportedTermsBracket

(***************************************************************************)
(* A message of a recorded stream is older than the first expiry, which    *)
(* is at most the near term.                                               *)
(***************************************************************************)
LEMMA ArrivesInTerm ==
    ASSUME TypeOK, StreamInv, NEW s \in Symbol, NEW k \in 0 .. Horizon,
           Arrives(s, k)
    PROVE  /\ refDate <= k /\ clock <= k /\ clock' = k
           /\ k < expiries.rolloverAt
           /\ k < expiries.near /\ expiries.near < expiries.next
           /\ expiries.near <= k + TimePeriodLength
           /\ (\A t \in 0 .. Horizon : Aligned(t)) =>
                 k + TimePeriodLength < expiries.next
<1>1. /\ refDate \in Nat /\ expiries \in ExpiriesRecord
      /\ expiries \in buildExpiries(refDate) /\ ~live
  BY DEF Arrives, StreamInv, TypeOK
<1>2. /\ refDate <= k /\ k < ReplayTo /\ clock <= k /\ clock' = k
      /\ k \in Nat /\ k <= Horizon
  BY <1>1 DEF Arrives
<1>3. /\ expiries.rolloverAt \in Nat /\ expiries.near \in Nat
      /\ expiries.next \in Nat
  BY <1>1 DEF ExpiriesRecord
<1>4. /\ expiries.near \in ActiveExpiries(refDate)
      /\ expiries.near <= refDate + TimePeriodLength
      /\ expiries.next \in NextCandidates(refDate)
      /\ refDate + TimePeriodLength < expiries.next
      /\ \A e \in ActiveExpiries(refDate) : expiries.rolloverAt <= e
  BY <1>1, AnswerFacts
<1>5. k < expiries.rolloverAt
  BY <1>1, <1>2, <1>3, CalculatorAssumption DEF ReplayTo, CalculatorAssumption
<1>6. expiries.rolloverAt <= expiries.near
  BY <1>4
<1>7. /\ k < expiries.near /\ expiries.near < expiries.next
      /\ expiries.near <= k + TimePeriodLength
  BY <1>1, <1>2, <1>3, <1>4, <1>5, <1>6, InstrumentAssumption
  DEF InstrumentAssumption
<1>8. ASSUME \A t \in 0 .. Horizon : Aligned(t)
      PROVE  k + TimePeriodLength < expiries.next
  <2>1. refDate \in 0 .. Horizon
    BY <1>1, <1>2, CalculatorAssumption DEF CalculatorAssumption
  <2>2. PICK r \in ActiveExpiries(refDate) : r + TimePeriodLength <= expiries.next
    BY <1>4, <1>8, <2>1 DEF Aligned
  <2>3. r \in Nat
    BY InstrumentAssumption DEF InstrumentAssumption, ActiveExpiries, Available
  <2>4. expiries.rolloverAt <= r
    BY <1>4
  <2> QED
    BY <1>2, <1>3, <1>5, <2>2, <2>3, <2>4, InstrumentAssumption
    DEF InstrumentAssumption
<1> QED
  BY <1>2, <1>5, <1>7, <1>8

LEMMA InvInit == ~LivePossible /\ Init => IInv
<1> SUFFICES ASSUME Init PROVE IInv
  OBVIOUS
<1>1. TypeOK
  BY TypeInit
<1>2. StreamInv
  BY Zenon DEF Init, StreamInv
<1>3. sent = <<>> /\ Len(sent) = 0
  BY DEF Init
<1> QED
  BY <1>1, <1>2, <1>3 DEF IInv, LatestInv, NoExpiredTerm, ReportedTermsBracket

(***************************************************************************)
(* What is known when nothing is sent and no stream begins.                *)
(***************************************************************************)
LEMMA SentUnchanged ==
    ASSUME IInv, TypeOK', sent' = sent
    PROVE  NoExpiredTerm' /\ ReportedTermsBracket'
BY DEF IInv, NoExpiredTerm, ReportedTermsBracket, Aligned, NextCandidates,
       ActiveExpiries, Available

(***************************************************************************)
(* What the checks at the end of a message leave behind.                   *)
(***************************************************************************)
LEMMA ProceedLeaves ==
    ASSUME NEW k \in Nat, Proceed(k), phase = "streaming"
    PROVE  \/ phase' \in {"completed", "failed"}
           \/ phase' = "rolling" /\ refDate' = expiries.rolloverAt
           \/ phase' = "streaming" /\ refDate' = refDate
BY DEF Proceed, Finish

LEMMA MessageStep ==
    ASSUME ~LivePossible, IInv, TypeOK', NEW s \in Symbol,
           NEW k \in 0 .. Horizon, NearOrNextMessage(s, k)
    PROVE  IInv'
<1>1. Arrives(s, k) /\ phase = "streaming" /\ expiries' = expiries /\ live' = live
  BY DEF NearOrNextMessage, BookOnly, ComputeThrows, SendIndex, SendToClosed,
         Book, Arrives
<1>2. /\ refDate <= k /\ clock <= k /\ clock' = k
      /\ k < expiries.rolloverAt
      /\ k < expiries.near /\ expiries.near < expiries.next
      /\ expiries.near <= k + TimePeriodLength
      /\ (\A t \in 0 .. Horizon : Aligned(t)) =>
            k + TimePeriodLength < expiries.next
  BY <1>1, ArrivesInTerm DEF IInv
<1>3. \/ phase' \in {"completed", "failed"}
      \/ phase' = "rolling" /\ refDate' = expiries.rolloverAt
      \/ phase' = "streaming" /\ refDate' = refDate
  <2>1. Proceed(k) \/ phase' = "failed"
    BY DEF NearOrNextMessage, BookOnly, ComputeThrows, SendIndex, SendToClosed
  <2> QED  BY <1>1, <2>1, ProceedLeaves
<1>4. StreamInv'
  <2>1. ~live'
    BY <1>1, Zenon DEF IInv, StreamInv
  <2>2. phase' = "rolling" => clock' < refDate'
    BY <1>2, <1>3
  <2>3. phase' = "streaming" => expiries' \in buildExpiries(refDate')
    BY <1>1, <1>3 DEF IInv, StreamInv
  <2>4. phase' # "building"
    BY <1>3
  <2> QED  BY <2>1, <2>2, <2>3, <2>4, Zenon DEF StreamInv
<1>5. CASE sent' = sent
  <2>1. lastReport' = lastReport \/ lastReport' = k + 1
    BY DEF NearOrNextMessage, BookOnly, ComputeThrows, SendIndex, SendToClosed
  <2>2. LatestInv'
    <3> SUFFICES ASSUME sent # <<>>
                 PROVE  LastSent.at <= k /\ LastSent.at + 1 <= lastReport' + Minute
      BY <1>2, <1>5 DEF LatestInv, LastSent
    <3>1. LastSent.at <= clock /\ LastSent.at + 1 <= lastReport + Minute
      BY DEF IInv, LatestInv
    <3>2. LastSent.at \in Nat
      BY LastSentType DEF IInv
    <3>3. lastReport \in Int /\ clock \in Int /\ Minute \in Nat
      BY CalculatorAssumption DEF CalculatorAssumption, IInv, TypeOK
    <3> QED
      BY <1>2, <2>1, <3>1, <3>2, <3>3, SMTT(30)
  <2> QED  BY <1>4, <1>5, <2>2, SentUnchanged DEF IInv
<1>6. CASE sent' = Append(sent, Index(k)) /\ lastReport' = k + 1
  <2>1. /\ Len(sent') = Len(sent) + 1 /\ sent'[Len(sent) + 1] = Index(k)
        /\ \A i \in 1 .. Len(sent) : sent'[i] = sent[i]
        /\ Len(sent) \in Nat
    <3> DEFINE R == [ at : Nat, near : Nat, next : Nat ]
    <3>1. sent \in Seq(R)
      BY DEF IInv, TypeOK
    <3>2. Index(k) \in R
      BY DEF Index, IInv, TypeOK, ExpiriesRecord
    <3> HIDE DEF R
    <3> QED  BY <1>6, <3>1, <3>2
  <2>2. /\ Index(k).at = k /\ Index(k).near = expiries.near
        /\ Index(k).next = expiries.next
    BY DEF Index
  <2>3. LatestInv'
    <3>1. LastSent' = Index(k)
      BY <2>1 DEF LastSent
    <3> QED
      BY <1>2, <1>6, <2>2, <3>1, CalculatorAssumption
      DEF CalculatorAssumption, LatestInv
  <2>4. NoExpiredTerm'
    <3>1. \A i \in 1 .. Len(sent) : sent[i].at < sent[i].near /\ sent[i].near < sent[i].next
      BY DEF IInv, NoExpiredTerm
    <3>2. \A i \in 1 .. Len(sent') : i \in 1 .. Len(sent) \/ i = Len(sent) + 1
      BY <2>1
    <3> QED  BY <1>2, <2>1, <2>2, <3>1, <3>2 DEF NoExpiredTerm
  <2>5. ReportedTermsBracket'
    <3> SUFFICES ASSUME \A t \in 0 .. Horizon : Aligned(t),
                        NEW i \in 1 .. Len(sent')
                 PROVE  /\ sent'[i].near <= sent'[i].at + TimePeriodLength
                        /\ sent'[i].at + TimePeriodLength < sent'[i].next
      BY DEF ReportedTermsBracket, Aligned, NextCandidates, ActiveExpiries,
             Available
    <3>1. CASE i \in 1 .. Len(sent)
      BY <2>1, <3>1 DEF IInv, ReportedTermsBracket
    <3>2. CASE i = Len(sent) + 1
      BY <1>2, <2>1, <2>2, <3>2
    <3> QED  BY <2>1, <3>1, <3>2
  <2> QED  BY <1>4, <2>3, <2>4, <2>5 DEF IInv
<1> QED
  BY <1>5, <1>6 DEF NearOrNextMessage, BookOnly, ComputeThrows, SendIndex,
                    SendToClosed

(***************************************************************************)
(* A stream begins a minute short of a report, at a refDate later than     *)
(* every message before it.                                                *)
(***************************************************************************)
LEMMA BeginStep ==
    ASSUME ~LivePossible, IInv, TypeOK', NEW x \in buildExpiries(refDate),
           BeginStream(x), phase \in {"building", "rolling"},
           UNCHANGED <<refDate, sent>>
    PROVE  IInv'
<1>1. phase' = "streaming" /\ expiries' = x /\ lastReport' = refDate - Minute
  BY DEF BeginStream
<1>2. ~live'
  BY Zenon DEF BeginStream
<1>3. clock' = refDate - 1
  BY <1>2, Zenon DEF BeginStream
<1>4. StreamInv'
  BY <1>1, <1>2 DEF StreamInv
<1>5. LatestInv'
  <2> SUFFICES ASSUME sent # <<>>
               PROVE  LastSent.at <= clock' /\ LastSent.at + 1 <= lastReport' + Minute
    BY DEF LatestInv, LastSent
  <2>1. phase = "rolling" /\ clock < refDate
    BY DEF IInv, StreamInv
  <2>2. LastSent.at <= clock
    BY DEF IInv, LatestInv
  <2>3. LastSent.at \in Nat
    BY LastSentType DEF IInv
  <2> QED
    BY <1>1, <1>3, <2>1, <2>2, <2>3, CalculatorAssumption
    DEF CalculatorAssumption, IInv, TypeOK
<1> QED
  BY <1>4, <1>5, SentUnchanged DEF IInv

LEMMA InvStep == ~LivePossible /\ IInv /\ [Next]_vars => IInv'
<1> SUFFICES ASSUME ~LivePossible, IInv, [Next]_vars PROVE IInv'
  OBVIOUS
<1>0. TypeOK'
  BY TypeStep DEF IInv
<1>1. CASE FirstStream
  <2>1. PICK x \in buildExpiries(refDate) : BeginStream(x)
    BY <1>1 DEF FirstStream
  <2> QED  BY <1>0, <1>1, <2>1, BeginStep DEF FirstStream
<1>2. CASE Rollover
  <2>1. PICK x \in buildExpiries(refDate) : BeginStream(x)
    BY <1>2 DEF Rollover
  <2> QED  BY <1>0, <1>2, <2>1, BeginStep DEF Rollover
<1>3. ASSUME NEW s \in Symbol, NEW k \in 0 .. Horizon, NearOrNextMessage(s, k)
      PROVE  IInv'
  BY <1>0, <1>3, MessageStep
<1>4. ASSUME NEW s \in Symbol, NEW k \in 0 .. Horizon, FutureMessage(s, k)
      PROVE  IInv'
  <2>1. /\ Arrives(s, k) /\ phase = "streaming"
        /\ UNCHANGED <<phase, refDate, expiries, live, lastReport, sent>>
    BY <1>4 DEF FutureMessage, Arrives
  <2>2. clock' = k /\ clock <= k
    BY <2>1 DEF Arrives
  <2>3. StreamInv'
    BY <2>1 DEF IInv, StreamInv
  <2>4. LatestInv'
    <3> SUFFICES ASSUME sent # <<>>
                 PROVE  LastSent.at <= k /\ LastSent.at + 1 <= lastReport + Minute
      BY <2>1, <2>2 DEF LatestInv, LastSent
    <3>1. LastSent.at \in Nat
      BY LastSentType DEF IInv
    <3> QED  BY <2>2, <3>1 DEF IInv, LatestInv, TypeOK
  <2> QED  BY <1>0, <2>1, <2>3, <2>4, SentUnchanged DEF IInv
<1>5. CASE BuildThrows \/ StreamEnds \/ StreamThrows
  <2>1. /\ phase' \in {"completed", "failed"}
        /\ UNCHANGED <<refDate, expiries, live, clock, lastReport, sent>>
    BY <1>5 DEF BuildThrows, StreamEnds, StreamThrows, Finish
  <2>2. StreamInv' /\ LatestInv'
    BY <2>1 DEF IInv, StreamInv, LatestInv, LastSent
  <2> QED  BY <1>0, <2>1, <2>2, SentUnchanged DEF IInv
<1>6. CASE ClientHangsUp \/ UNCHANGED vars
  <2>1. UNCHANGED <<phase, refDate, expiries, live, clock, lastReport, sent>>
    BY <1>6 DEF ClientHangsUp, vars
  <2>2. StreamInv' /\ LatestInv'
    BY <2>1 DEF IInv, StreamInv, LatestInv, LastSent
  <2> QED  BY <1>0, <2>1, <2>2, SentUnchanged DEF IInv
<1> QED
  BY <1>1, <1>2, <1>3, <1>4, <1>5, <1>6 DEF Next, Terminated

(***************************************************************************)
(* No index is ever computed from an expired near term.                    *)
(***************************************************************************)
THEOREM NoExpiredTermAlways ==
    ASSUME ~LivePossible
    PROVE  Spec => []NoExpiredTerm
<1>1. Init => IInv
  BY InvInit
<1>2. IInv /\ [Next]_vars => IInv'
  BY InvStep
<1>3. IInv => NoExpiredTerm
  BY DEF IInv
<1> QED
  BY <1>1, <1>2, <1>3, PTL DEF Spec

(***************************************************************************)
(* The two terms of every index bracket the moment it was computed for.    *)
(***************************************************************************)
THEOREM ReportedTermsBracketAlways ==
    ASSUME ~LivePossible
    PROVE  Spec => []ReportedTermsBracket
<1>1. Init => IInv
  BY InvInit
<1>2. IInv /\ [Next]_vars => IInv'
  BY InvStep
<1>3. IInv => ReportedTermsBracket
  BY DEF IInv
<1> QED
  BY <1>1, <1>2, <1>3, PTL DEF Spec

-----------------------------------------------------------------------------
(***************************************************************************)
(* The query period, for recorded and live streams.  With a near or next   *)
(* message in every slot, a stream that goes on has not reached the end of *)
(* the query, nor, when it is recorded, its rollover; and a rollover       *)
(* begins the next stream with the slot after the latest message.          *)
(***************************************************************************)
StartInv ==
    /\ Start <= refDate
    /\ Start <= lastReport + Minute
    /\ live => LivePossible
    /\ phase = "streaming" => expiries \in buildExpiries(refDate)
    /\ phase = "building" => refDate = Start /\ clock = -1

PaceInv ==
    Busy =>
        /\ phase = "streaming" =>
              /\ clock + 1 < QueryEnd
              /\ live \/ clock + 1 < expiries.rolloverAt
        /\ phase = "rolling" => refDate <= clock + 1 /\ clock + 1 < QueryEnd

\* A live stream is not due before the start, see ReportsWithinQueryAlways.
LowerBound == LivePossible => ReportFrequency >= 2

WithinQuery == LowerBound => ReportsWithinQuery

QueryInv == TypeOK /\ StartInv /\ PaceInv /\ CompletedCoversQuery /\ WithinQuery

LEMMA QueryInit == Init => QueryInv
<1> SUFFICES ASSUME Init PROVE QueryInv
  OBVIOUS
<1> USE CalculatorAssumption DEF CalculatorAssumption
<1>1. TypeOK
  BY TypeInit
<1>2. ~live
  BY Zenon DEF Init
<1>3. /\ phase = "building" /\ refDate = Start /\ clock = -1
      /\ lastReport = Start - Minute /\ Len(sent) = 0
  BY DEF Init
<1>4. StartInv
  BY <1>2, <1>3 DEF StartInv
<1>5. PaceInv /\ CompletedCoversQuery /\ WithinQuery
  BY <1>3 DEF PaceInv, CompletedCoversQuery, WithinQuery, ReportsWithinQuery
<1> QED
  BY <1>1, <1>4, <1>5 DEF QueryInv

(***************************************************************************)
(* A stream begins a slot before its refDate, or where the last one was.   *)
(***************************************************************************)
LEMMA BeginInQuery ==
    ASSUME QueryInv, TypeOK', NEW x \in buildExpiries(refDate),
           BeginStream(x), phase \in {"building", "rolling"},
           UNCHANGED <<refDate, sent>>
    PROVE  QueryInv'
<1> USE CalculatorAssumption DEF CalculatorAssumption
<1>1. phase' = "streaming" /\ expiries' = x /\ lastReport' = refDate - Minute
  BY DEF BeginStream
<1>2. /\ live' => LivePossible
      /\ live' => clock' = clock
      /\ ~live' => clock' = refDate - 1
  <2>1. live' = FALSE \/ live' = LivePossible
    BY Zenon DEF BeginStream
  <2>2. live' => LivePossible
    BY <2>1, Zenon
  <2>3. live' => clock' = clock
    BY Zenon DEF BeginStream
  <2>4. ~live' => clock' = refDate - 1
    BY Zenon DEF BeginStream
  <2> QED  BY <2>2, <2>3, <2>4, Zenon
<1>3. Start <= refDate /\ refDate < x.rolloverAt /\ x.rolloverAt \in Nat
      /\ refDate \in Nat /\ clock \in Int
  BY AnswerFacts DEF QueryInv, StartInv, TypeOK, ExpiriesRecord
<1>4. StartInv'
  <2>1. Start <= lastReport' + Minute
    BY <1>1, <1>3
  <2>2. live' => LivePossible
    BY <1>2
  <2>3. expiries' \in buildExpiries(refDate')
    BY <1>1
  <2> QED  BY <1>1, <1>3, <2>1, <2>2, <2>3, Zenon DEF StartInv
<1>5. PaceInv'
  <2> SUFFICES ASSUME Busy
               PROVE  /\ clock' + 1 < QueryEnd
                      /\ live' \/ clock' + 1 < expiries.rolloverAt'
    BY <1>1 DEF PaceInv
  <2>1. refDate < QueryEnd /\ clock + 1 < QueryEnd
    <3>1. CASE phase = "building"
      BY <3>1 DEF QueryInv, StartInv, QueryEnd
    <3>2. CASE phase = "rolling"
      BY <1>3, <3>2 DEF QueryInv, PaceInv, QueryEnd
    <3> QED  BY <3>1, <3>2
  <2>2. CASE live'
    BY <1>2, <2>1, <2>2
  <2>3. CASE ~live'
    BY <1>1, <1>2, <1>3, <2>1, <2>3
  <2> QED  BY <2>2, <2>3
<1>6. CompletedCoversQuery' /\ WithinQuery'
  BY <1>1 DEF QueryInv, CompletedCoversQuery, WithinQuery, ReportsWithinQuery
<1> QED
  BY <1>4, <1>5, <1>6 DEF QueryInv

(***************************************************************************)
(* A report is for a moment of the query: a recorded stream starts with    *)
(* it, and a live one is not due before.                                   *)
(***************************************************************************)
LEMMA ReportInQuery ==
    ASSUME QueryInv, Busy, LowerBound, NEW s \in Symbol, NEW k \in 0 .. Horizon,
           Book(s, k), Due(k)
    PROVE  Start <= k /\ k < QueryEnd
<1> USE CalculatorAssumption DEF CalculatorAssumption
<1>1. /\ phase = "streaming" /\ clock <= k /\ k <= clock + 1
      /\ ~live => refDate <= k
      /\ Start <= refDate /\ refDate \in Nat /\ clock \in Int
      /\ lastReport \in Int /\ k \in Nat
  BY DEF Book, Arrives, QueryInv, StartInv, TypeOK
<1>2. k < QueryEnd
  <2>1. clock + 1 < QueryEnd
    BY <1>1 DEF QueryInv, PaceInv
  <2> QED  BY <1>1, <2>1 DEF QueryEnd
<1>3. CASE ~live
  BY <1>1, <1>2, <1>3
<1>4. CASE live
  <2>1. ReportFrequency >= 2
    BY <1>4 DEF QueryInv, StartInv, LowerBound
  <2>2. PICK r \in Nat : r = ReportFrequency - 2
    BY <2>1
  <2>3. Frequency = r * Minute + 2 * Minute /\ r * Minute >= 0 /\ r * Minute \in Int
    BY <2>2 DEF Frequency
  <2>4. k + 1 - lastReport >= Frequency
    BY DEF Due
  <2>5. Start <= lastReport + Minute
    BY DEF QueryInv, StartInv
  <2> QED  BY <1>1, <1>2, <2>3, <2>4, <2>5
<1> QED
  BY <1>3, <1>4

LEMMA MessageInQuery ==
    ASSUME QueryInv, TypeOK', NEW s \in Symbol, NEW k \in 0 .. Horizon,
           NearOrNextMessage(s, k)
    PROVE  QueryInv'
<1> USE CalculatorAssumption DEF CalculatorAssumption
<1>1. /\ Book(s, k) /\ phase = "streaming" /\ clock' = k /\ clock <= k
      /\ Busy => k <= clock + 1
      /\ expiries' = expiries /\ live' = live
      /\ refDate \in Nat /\ clock \in Int /\ lastReport \in Int /\ k \in Nat
      /\ expiries.rolloverAt \in Nat
      /\ Start <= refDate /\ Start <= lastReport + Minute
      /\ expiries \in buildExpiries(refDate)
      /\ refDate < expiries.rolloverAt
  <2>1. /\ Book(s, k) /\ phase = "streaming" /\ clock' = k /\ clock <= k
        /\ Busy => k <= clock + 1
        /\ expiries' = expiries /\ live' = live
    BY DEF NearOrNextMessage, BookOnly, ComputeThrows, SendIndex, SendToClosed,
           Book, Arrives
  <2>2. /\ refDate \in Nat /\ clock \in Int /\ lastReport \in Int /\ k \in Nat
        /\ expiries.rolloverAt \in Nat
        /\ Start <= refDate /\ Start <= lastReport + Minute
        /\ expiries \in buildExpiries(refDate)
    BY <2>1 DEF QueryInv, StartInv, TypeOK, ExpiriesRecord
  <2> QED  BY <2>1, <2>2, AnswerFacts
<1>2. \/ phase' = "failed" /\ refDate' = refDate
      \/ Proceed(k)
  BY DEF NearOrNextMessage, BookOnly, ComputeThrows, SendIndex, SendToClosed
<1>3. \/ phase' = "failed" /\ refDate' = refDate
      \/ phase' = "completed" /\ refDate' = refDate /\ k + 1 - Start >= MaxDuration
      \/ /\ phase' = "rolling" /\ refDate' = expiries.rolloverAt
         /\ k + 1 - Start < MaxDuration /\ k + 1 >= expiries.rolloverAt
      \/ /\ phase' = "streaming" /\ refDate' = refDate
         /\ k + 1 - Start < MaxDuration /\ k + 1 < expiries.rolloverAt
  BY <1>1, <1>2 DEF Proceed, Finish
<1>4. lastReport' = lastReport \/ (lastReport' = k + 1 /\ Due(k))
  BY DEF NearOrNextMessage, BookOnly, ComputeThrows, SendIndex, SendToClosed
<1>5. StartInv'
  <2>1. Start <= lastReport' + Minute
    <3>1. CASE lastReport' = lastReport
      BY <1>1, <3>1
    <3>2. CASE lastReport' = k + 1 /\ Due(k)
      <4>1. Frequency >= 0 /\ Frequency \in Nat
        BY DEF Frequency
      <4> QED  BY <1>1, <3>2, <4>1 DEF Due
    <3> QED  BY <1>4, <3>1, <3>2
  <2>2. Start <= refDate'
    BY <1>1, <1>3
  <2>3. phase' = "streaming" => expiries' \in buildExpiries(refDate')
    BY <1>1, <1>3
  <2>4. live' => LivePossible
    BY <1>1, Zenon DEF QueryInv, StartInv
  <2>5. phase' # "building"
    BY <1>3
  <2> QED  BY <2>1, <2>2, <2>3, <2>4, <2>5, Zenon DEF StartInv
<1>6. PaceInv' /\ CompletedCoversQuery'
  BY <1>1, <1>3 DEF PaceInv, CompletedCoversQuery, QueryEnd
<1>7. WithinQuery'
  <2> SUFFICES ASSUME LowerBound, Busy, NEW i \in 1 .. Len(sent')
               PROVE  Start <= sent'[i].at /\ sent'[i].at < QueryEnd
    BY DEF WithinQuery, ReportsWithinQuery, LowerBound
  <2>1. \A j \in 1 .. Len(sent) : Start <= sent[j].at /\ sent[j].at < QueryEnd
    BY DEF QueryInv, WithinQuery, ReportsWithinQuery
  <2>2. CASE sent' = sent
    BY <2>1, <2>2
  <2>3. CASE sent' = Append(sent, Index(k)) /\ Due(k)
    <3> DEFINE R == [ at : Nat, near : Nat, next : Nat ]
    <3>1. sent \in Seq(R) /\ Index(k) \in R /\ Index(k).at = k
      BY DEF QueryInv, TypeOK, Index, ExpiriesRecord
    <3> HIDE DEF R
    <3>2. (i \in 1 .. Len(sent) /\ sent'[i] = sent[i]) \/ sent'[i] = Index(k)
      BY <2>3, <3>1
    <3>3. Start <= k /\ k < QueryEnd
      BY <1>1, <2>3, ReportInQuery
    <3> QED  BY <2>1, <3>1, <3>2, <3>3
  <2> QED
    BY <2>2, <2>3 DEF NearOrNextMessage, BookOnly, ComputeThrows, SendIndex,
                      SendToClosed
<1> QED
  BY <1>5, <1>6, <1>7 DEF QueryInv

LEMMA QueryStep == QueryInv /\ [Next]_vars => QueryInv'
<1> SUFFICES ASSUME QueryInv, [Next]_vars PROVE QueryInv'
  OBVIOUS
<1> USE CalculatorAssumption DEF CalculatorAssumption
<1>0. TypeOK'
  BY TypeStep DEF QueryInv
<1>1. CASE FirstStream
  <2>1. PICK x \in buildExpiries(refDate) : BeginStream(x)
    BY <1>1 DEF FirstStream
  <2> QED  BY <1>0, <1>1, <2>1, BeginInQuery DEF FirstStream
<1>2. CASE Rollover
  <2>1. PICK x \in buildExpiries(refDate) : BeginStream(x)
    BY <1>2 DEF Rollover
  <2> QED  BY <1>0, <1>2, <2>1, BeginInQuery DEF Rollover
<1>3. ASSUME NEW s \in Symbol, NEW k \in 0 .. Horizon, NearOrNextMessage(s, k)
      PROVE  QueryInv'
  BY <1>0, <1>3, MessageInQuery
<1>4. ASSUME NEW s \in Symbol, NEW k \in 0 .. Horizon, FutureMessage(s, k)
      PROVE  QueryInv'
  <2>1. /\ phase = "streaming" /\ clock' = k /\ (Busy => k = clock)
        /\ UNCHANGED <<phase, refDate, expiries, live, lastReport, sent>>
    BY <1>4 DEF FutureMessage, Arrives
  <2>2. StartInv'
    BY <2>1 DEF QueryInv, StartInv
  <2>3. PaceInv' /\ CompletedCoversQuery' /\ WithinQuery'
    BY <2>1 DEF QueryInv, PaceInv, CompletedCoversQuery, WithinQuery,
                ReportsWithinQuery
  <2> QED  BY <1>0, <2>2, <2>3 DEF QueryInv
<1>5. CASE StreamEnds
  <2>1. /\ phase = "streaming" /\ ~live /\ (Busy => clock + 1 >= ReplayTo)
        /\ phase' \in {"completed", "failed"}
        /\ UNCHANGED <<refDate, expiries, live, clock, lastReport, sent>>
    BY <1>5 DEF StreamEnds, Finish
  <2>2. StartInv' /\ PaceInv' /\ WithinQuery'
    BY <2>1 DEF QueryInv, StartInv, PaceInv, WithinQuery, ReportsWithinQuery
  <2>3. CompletedCoversQuery'
    <3> SUFFICES ASSUME Busy PROVE clock + 1 >= QueryEnd
      BY <2>1 DEF CompletedCoversQuery
    <3>1. clock + 1 < expiries.rolloverAt /\ Start <= refDate
      BY <2>1 DEF QueryInv, PaceInv, StartInv
    <3>2. /\ clock \in Int /\ refDate \in Nat /\ expiries.rolloverAt \in Nat
      BY DEF QueryInv, TypeOK, ExpiriesRecord
    <3> QED  BY <2>1, <3>1, <3>2 DEF ReplayTo, QueryEnd
  <2> QED  BY <1>0, <2>2, <2>3 DEF QueryInv
<1>6. CASE BuildThrows \/ StreamThrows
  <2>1. /\ phase' = "failed"
        /\ UNCHANGED <<refDate, expiries, live, clock, lastReport, sent>>
    BY <1>6 DEF BuildThrows, StreamThrows
  <2> QED
    BY <1>0, <2>1 DEF QueryInv, StartInv, PaceInv, CompletedCoversQuery,
                      WithinQuery, ReportsWithinQuery
<1>7. CASE ClientHangsUp \/ UNCHANGED vars
  <2>1. UNCHANGED <<phase, refDate, expiries, live, clock, lastReport, sent>>
    BY <1>7 DEF ClientHangsUp, vars
  <2> QED
    BY <1>0, <2>1 DEF QueryInv, StartInv, PaceInv, CompletedCoversQuery,
                      WithinQuery, ReportsWithinQuery
<1> QED
  BY <1>1, <1>2, <1>3, <1>4, <1>5, <1>6, <1>7 DEF Next, Terminated

(***************************************************************************)
(* A replay of a busy market that completes has seen its whole query       *)
(* period: no rollover, and no recorded stream that runs dry, ends it      *)
(* early.                                                                  *)
(***************************************************************************)
THEOREM CompletedCoversQueryAlways == Spec => []CompletedCoversQuery
<1>1. QueryInv => CompletedCoversQuery
  BY DEF QueryInv
<1> QED
  BY <1>1, QueryInit, QueryStep, PTL DEF Spec

(***************************************************************************)
(* Nothing is reported of a busy market for a moment outside of the query  *)
(* period.  Live streams take a report frequency of two minutes or more:   *)
(* with one minute, the slot before the start is due already.              *)
(***************************************************************************)
THEOREM ReportsWithinQueryAlways ==
    ASSUME LivePossible => ReportFrequency >= 2
    PROVE  Spec => []ReportsWithinQuery
<1>1. QueryInv => ReportsWithinQuery
  BY DEF QueryInv, WithinQuery, LowerBound
<1> QED
  BY <1>1, QueryInit, QueryStep, PTL DEF Spec

-----------------------------------------------------------------------------
(***************************************************************************)
(* The book, for recorded and live streams.  What was seen and is not in   *)
(* it is of a term that has passed or of the one future term; all of the   *)
(* latter has been set aside.                                              *)
(***************************************************************************)
LEMMA AnswerSymbols ==
    ASSUME NEW t \in Nat, NEW x \in buildExpiries(t), NEW s \in x.symbols
    PROVE  ExpiryOf[s] \in {x.near, x.next} \cup x.future
<1>1. PICK near \in Greatest(NearCandidates(t)),
           next \in Least(NextCandidates(t)),
           rolloverAt \in Least(ActiveExpiries(t)) :
              x = Answer(t, near, next, rolloverAt)
  BY DEF buildExpiries
<1>2. x.near = near /\ x.next = next
      /\ x.symbols = SymbolsOf(t, {near, next} \cup x.future)
  BY <1>1 DEF Answer
<1> QED
  BY <1>2 DEF SymbolsOf

TermInv ==
    /\ phase = "building" => seen = {} /\ midBook = {} /\ options = {}
    /\ phase = "streaming" => expiries \in buildExpiries(refDate)
    /\ phase = "rolling" => /\ refDate = expiries.rolloverAt
                            /\ \E t \in 0 .. Horizon : expiries \in buildExpiries(t)

BookInv ==
    (TermsMoveUp /\ phase \in {"streaming", "rolling"}) =>
        /\ midBook = { s \in seen : ExpiryOf[s] \in {expiries.near, expiries.next} }
        /\ options \subseteq seen
        /\ \A s \in seen : ExpiryOf[s] > expiries.next =>
              s \in options /\ ExpiryOf[s] \in expiries.future

CurrentInv == TypeOK /\ TermInv /\ BookInv

LEMMA CurrentInit == Init => CurrentInv
<1> SUFFICES ASSUME Init PROVE CurrentInv
  OBVIOUS
<1>1. TypeOK
  BY TypeInit
<1>2. phase = "building" /\ seen = {} /\ midBook = {} /\ options = {}
  BY DEF Init
<1> QED
  BY <1>1, <1>2 DEF CurrentInv, TermInv, BookInv

(***************************************************************************)
(* A rollover in a calendar whose terms move up by one, or stay.           *)
(***************************************************************************)
LEMMA RolloverKeepsBook ==
    ASSUME CurrentInv, TypeOK', Rollover
    PROVE  CurrentInv'
<1>1. PICK y \in buildExpiries(refDate) :
          /\ IF y.near # expiries.near
             THEN Rolled(y)
             ELSE UNCHANGED <<midBook, options>>
          /\ BeginStream(y)
  BY DEF Rollover
<1>2. phase = "rolling" /\ phase' = "streaming" /\ expiries' = y
      /\ refDate' = refDate /\ seen' = seen
  BY <1>1 DEF Rollover, BeginStream
<1>3. TermInv'
  BY <1>2 DEF TermInv
<1>4. ASSUME TermsMoveUp
      PROVE  /\ midBook' = { s \in seen : ExpiryOf[s] \in {y.near, y.next} }
             /\ options' \subseteq seen
             /\ \A s \in seen : ExpiryOf[s] > y.next =>
                   s \in options' /\ ExpiryOf[s] \in y.future
  <2>1. PICK t \in 0 .. Horizon : expiries \in buildExpiries(t)
    BY <1>2 DEF CurrentInv, TermInv
  <2>2. refDate = expiries.rolloverAt
    BY <1>2 DEF CurrentInv, TermInv
  <2>3. \/ /\ y.near = expiries.near /\ y.next = expiries.next
           /\ expiries.future \subseteq y.future
        \/ y.near = expiries.next /\ expiries.future \subseteq {y.next}
    BY <1>1, <1>4, <2>1, <2>2 DEF TermsMoveUp
  <2>4. /\ midBook = { s \in seen : ExpiryOf[s] \in {expiries.near, expiries.next} }
        /\ options \subseteq seen
        /\ \A s \in seen : ExpiryOf[s] > expiries.next =>
              s \in options /\ ExpiryOf[s] \in expiries.future
    BY <1>2, <1>4 DEF CurrentInv, BookInv
  <2>5. /\ expiries.near \in Nat /\ expiries.next \in Nat
        /\ expiries.near < expiries.next
    <3>1. t \in Nat
      BY <2>1
    <3>2. expiries.near <= t + TimePeriodLength /\ t + TimePeriodLength < expiries.next
      BY <2>1, <3>1, AnswerFacts
    <3>3. expiries.near \in Nat /\ expiries.next \in Nat
      BY DEF CurrentInv, TypeOK, ExpiriesRecord
    <3> QED  BY <3>1, <3>2, <3>3, InstrumentAssumption DEF InstrumentAssumption
  <2>6. y.near \in Nat /\ y.next \in Nat /\ y.near < y.next
    <3>1. refDate \in Nat
      BY DEF CurrentInv, TypeOK
    <3>2. y \in ExpiriesRecord /\ y.near <= refDate + TimePeriodLength
          /\ refDate + TimePeriodLength < y.next
      BY <1>1, <3>1, AnswerFacts
    <3> QED
      BY <3>1, <3>2, InstrumentAssumption DEF InstrumentAssumption, ExpiriesRecord
  <2>7. \A s \in seen : ExpiryOf[s] \in Nat
    BY InstrumentAssumption DEF InstrumentAssumption, CurrentInv, TypeOK
  <2>8. CASE y.near = expiries.near
    <3>1. y.next = expiries.next /\ expiries.future \subseteq y.future
      BY <2>3, <2>5, <2>8
    <3>2. midBook' = midBook /\ options' = options
      BY <1>1, <2>8
    <3> QED  BY <2>4, <2>8, <3>1, <3>2
  <2>9. CASE y.near # expiries.near
    <3>1. y.near = expiries.next /\ expiries.future \subseteq {y.next}
      BY <2>3, <2>9
    <3>2. /\ midBook' = { s \in midBook : ExpiryOf[s] # expiries.near }
                          \cup { s \in options : ExpiryOf[s] = y.next }
          /\ options' = {}
      BY <1>1, <2>9 DEF Rolled
    <3>3. ASSUME NEW s \in seen, ExpiryOf[s] > y.next
          PROVE  FALSE
      <4>1. ExpiryOf[s] > expiries.next
        BY <2>5, <2>6, <2>7, <3>1, <3>3
      <4>2. ExpiryOf[s] = y.next
        BY <2>4, <3>1, <4>1
      <4> QED  BY <2>6, <3>3, <4>2
    <3>4. ASSUME NEW s \in seen, ExpiryOf[s] = y.next
          PROVE  s \in options
      <4>1. ExpiryOf[s] > expiries.next
        BY <2>5, <2>6, <3>1, <3>4
      <4> QED  BY <2>4, <4>1
    <3>5. midBook' = { s \in seen : ExpiryOf[s] \in {y.near, y.next} }
      <4>1. ASSUME NEW s \in midBook' PROVE s \in seen /\ ExpiryOf[s] \in {y.near, y.next}
        BY <2>4, <3>1, <3>2, <4>1
      <4>2. ASSUME NEW s \in seen, ExpiryOf[s] \in {y.near, y.next} PROVE s \in midBook'
        BY <2>4, <2>5, <3>1, <3>2, <3>4, <4>2
      <4> QED  BY <4>1, <4>2
    <3> QED  BY <3>2, <3>3, <3>5
  <2> QED  BY <2>8, <2>9
<1>5. BookInv'
  <2>1. TermsMoveUp' <=> TermsMoveUp
    BY DEF TermsMoveUp
  <2> QED  BY <1>2, <1>4, <2>1 DEF BookInv
<1> QED
  BY <1>3, <1>5 DEF CurrentInv

LEMMA CurrentStep == CurrentInv /\ [Next]_vars => CurrentInv'
<1> SUFFICES ASSUME CurrentInv, [Next]_vars PROVE CurrentInv'
  OBVIOUS
<1>0. TypeOK'
  BY TypeStep DEF CurrentInv
<1>1. CASE FirstStream
  <2>1. PICK x \in buildExpiries(refDate) : BeginStream(x)
    BY <1>1 DEF FirstStream
  <2>2. /\ phase = "building" /\ phase' = "streaming" /\ expiries' = x
        /\ UNCHANGED <<refDate, midBook, options, seen>>
    BY <1>1, <2>1 DEF FirstStream, BeginStream
  <2>3. seen' = {} /\ midBook' = {} /\ options' = {}
    BY <2>2 DEF CurrentInv, TermInv
  <2> QED  BY <1>0, <2>1, <2>2, <2>3 DEF CurrentInv, TermInv, BookInv
<1>2. CASE Rollover
  BY <1>0, <1>2, RolloverKeepsBook
<1>3. ASSUME NEW s \in Symbol, NEW k \in 0 .. Horizon, NearOrNextMessage(s, k)
      PROVE  CurrentInv'
  <2>1. /\ phase = "streaming" /\ seen' = seen \cup {s}
        /\ midBook' = midBook \cup {s}
        /\ ExpiryOf[s] \in {expiries.near, expiries.next}
        /\ expiries' = expiries /\ options' = options
    BY <1>3 DEF NearOrNextMessage, BookOnly, ComputeThrows, SendIndex,
                SendToClosed, Book, Arrives
  <2>2. \/ phase' \in {"failed", "completed"}
        \/ /\ phase' = "rolling" /\ refDate' = expiries.rolloverAt
           /\ k + 1 >= expiries.rolloverAt
        \/ phase' = "streaming" /\ refDate' = refDate
    BY <1>3, <2>1 DEF NearOrNextMessage, BookOnly, ComputeThrows, SendIndex,
                      SendToClosed, Proceed, Finish
  <2>3. /\ expiries \in buildExpiries(refDate) /\ refDate \in Nat
        /\ expiries \in ExpiriesRecord
    BY <2>1 DEF CurrentInv, TermInv, TypeOK
  <2>4. /\ refDate < expiries.rolloverAt /\ expiries.rolloverAt \in Nat
        /\ expiries.near \in Nat /\ expiries.next \in Nat
        /\ expiries.near <= refDate + TimePeriodLength
        /\ refDate + TimePeriodLength < expiries.next
    BY <2>3, AnswerFacts DEF ExpiriesRecord
  <2>5. TermInv'
    <3>1. k + 1 >= expiries.rolloverAt => refDate \in 0 .. Horizon
      BY <2>3, <2>4, CalculatorAssumption DEF CalculatorAssumption
    <3> QED  BY <2>1, <2>2, <2>3, <3>1 DEF TermInv
  <2>6. BookInv'
    <3>1. TermsMoveUp' <=> TermsMoveUp
      BY DEF TermsMoveUp
    <3>2. ~(ExpiryOf[s] > expiries.next)
      BY <2>1, <2>3, <2>4, InstrumentAssumption DEF InstrumentAssumption
    <3> QED  BY <2>1, <2>2, <3>1, <3>2 DEF CurrentInv, BookInv
  <2> QED  BY <1>0, <2>5, <2>6 DEF CurrentInv
<1>4. ASSUME NEW s \in Symbol, NEW k \in 0 .. Horizon, FutureMessage(s, k)
      PROVE  CurrentInv'
  <2>1. /\ phase = "streaming" /\ seen' = seen \cup {s}
        /\ options' = options \cup {s}
        /\ ExpiryOf[s] \notin {expiries.near, expiries.next}
        /\ s \in expiries.symbols
        /\ UNCHANGED <<phase, refDate, expiries, midBook>>
    BY <1>4 DEF FutureMessage, Arrives
  <2>2. ExpiryOf[s] \in expiries.future
    <3>1. expiries \in buildExpiries(refDate) /\ refDate \in Nat
      BY <2>1 DEF CurrentInv, TermInv, TypeOK
    <3> QED  BY <2>1, <3>1, AnswerSymbols
  <2>3. TermInv'
    BY <2>1 DEF CurrentInv, TermInv
  <2>4. BookInv'
    <3>1. TermsMoveUp' <=> TermsMoveUp
      BY DEF TermsMoveUp
    <3> QED  BY <2>1, <2>2, <3>1 DEF CurrentInv, BookInv
  <2> QED  BY <1>0, <2>3, <2>4 DEF CurrentInv
<1>5. CASE BuildThrows \/ StreamEnds \/ StreamThrows
  <2>1. phase' \in {"completed", "failed"}
    BY <1>5 DEF BuildThrows, StreamEnds, StreamThrows, Finish
  <2> QED  BY <1>0, <2>1 DEF CurrentInv, TermInv, BookInv
<1>6. CASE ClientHangsUp \/ UNCHANGED vars
  <2>1. UNCHANGED <<phase, refDate, expiries, midBook, options, seen>>
    BY <1>6 DEF ClientHangsUp, vars
  <2>2. TermsMoveUp' <=> TermsMoveUp
    BY DEF TermsMoveUp
  <2> QED  BY <1>0, <2>1, <2>2 DEF CurrentInv, TermInv, BookInv
<1> QED
  BY <1>1, <1>2, <1>3, <1>4, <1>5, <1>6 DEF Next, Terminated

(***************************************************************************)
(* The book holds what was seen of the two current terms, and nothing      *)
(* else, through every rollover of a calendar whose terms move up by one.  *)
(***************************************************************************)
THEOREM BookIsCurrentAlways == Spec => []BookIsCurrent
<1>1. CurrentInv => BookIsCurrent
  BY DEF CurrentInv, BookInv, BookIsCurrent
<1> QED
  BY <1>1, CurrentInit, CurrentStep, PTL DEF Spec

-----------------------------------------------------------------------------
(***************************************************************************)
(* One kind of such calendars: every next term is one time period after a  *)
(* listed expiry or later (as ReportedTermsBracket supposes too), and what *)
(* is listed later expires later than the terms in use.                    *)
(***************************************************************************)
LaterListingsExpireLater ==
    \A t \in 0 .. Horizon : \A x \in buildExpiries(t) : \A s \in Symbol :
        t < ListingOf[s] => /\ x.next < ExpiryOf[s]
                            /\ \A f \in x.future : f <= ExpiryOf[s]

LEMMA AnswerTerms ==
    ASSUME NEW t \in Nat, NEW x \in buildExpiries(t)
    PROVE  /\ x.near \in Greatest(NearCandidates(t))
           /\ x.next \in Least(NextCandidates(t))
           /\ x.future = Least({ e \in ActiveExpiries(t) : e > x.next })
<1>1. PICK near \in Greatest(NearCandidates(t)),
           next \in Least(NextCandidates(t)),
           rolloverAt \in Least(ActiveExpiries(t)) :
              x = Answer(t, near, next, rolloverAt)
  BY DEF buildExpiries
<1>2. /\ x.near = near /\ x.next = next
      /\ x.future = Least({ e \in ActiveExpiries(t) : e > next })
  BY <1>1 DEF Answer
<1> QED
  BY <1>1, <1>2

(***************************************************************************)
(* What is active at the rollover was active before, or is listed later.   *)
(***************************************************************************)
LEMMA ActiveAtRollover ==
    ASSUME LaterListingsExpireLater,
           NEW t \in 0 .. Horizon, NEW x \in buildExpiries(t),
           NEW r \in Nat, t < r
    PROVE  /\ \A e \in ActiveExpiries(t) : r < e => e \in ActiveExpiries(r)
           /\ \A e \in ActiveExpiries(r) :
                 /\ e \in Nat /\ r < e
                 /\ \/ e \in ActiveExpiries(t)
                    \/ x.next < e /\ \A f \in x.future : f <= e
<1> USE InstrumentAssumption DEF InstrumentAssumption
<1>1. ASSUME NEW e \in ActiveExpiries(t), r < e PROVE e \in ActiveExpiries(r)
  BY <1>1 DEF ActiveExpiries, Available
<1>2. ASSUME NEW e \in ActiveExpiries(r)
      PROVE  /\ e \in Nat /\ r < e
             /\ \/ e \in ActiveExpiries(t)
                \/ x.next < e /\ \A f \in x.future : f <= e
  <2>1. PICK s \in Symbol : e = ExpiryOf[s] /\ ListingOf[s] <= r /\ r < e
    BY <1>2 DEF ActiveExpiries, Available
  <2>2. CASE ListingOf[s] <= t
    BY <2>1, <2>2 DEF ActiveExpiries, Available
  <2>3. CASE t < ListingOf[s]
    BY <2>1, <2>3 DEF LaterListingsExpireLater
  <2> QED  BY <2>1, <2>2, <2>3
<1> QED
  BY <1>1, <1>2

LEMMA OrderedCalendarsMoveUp ==
    ASSUME \A t \in 0 .. Horizon : Aligned(t), LaterListingsExpireLater
    PROVE  TermsMoveUp
<1> SUFFICES ASSUME NEW t \in 0 .. Horizon, NEW x \in buildExpiries(t),
                    NEW y \in buildExpiries(x.rolloverAt)
             PROVE  \/ /\ y.near = x.near /\ y.next = x.next
                       /\ x.future \subseteq y.future
                    \/ y.near = x.next /\ x.future \subseteq {y.next}
  BY DEF TermsMoveUp
<1> DEFINE r == x.rolloverAt
           D == TimePeriodLength
<1>1. t \in Nat /\ D \in Nat /\ D > 0
  BY InstrumentAssumption DEF InstrumentAssumption
<1>2. /\ x \in ExpiriesRecord
      /\ r \in ActiveExpiries(t) /\ t < r
      /\ \A e \in ActiveExpiries(t) : r <= e
  BY <1>1, AnswerFacts
<1>3. r \in Nat /\ x.near \in Nat /\ x.next \in Nat
  BY <1>2 DEF ExpiriesRecord
<1>4. /\ x.near \in Greatest(NearCandidates(t))
      /\ x.next \in Least(NextCandidates(t))
      /\ x.future = Least({ e \in ActiveExpiries(t) : e > x.next })
  BY <1>1, AnswerTerms
<1>5. /\ y.near \in Greatest(NearCandidates(r))
      /\ y.next \in Least(NextCandidates(r))
      /\ y.future = Least({ e \in ActiveExpiries(r) : e > y.next })
  BY <1>3, AnswerTerms
<1>6. \A e \in ActiveExpiries(t) : e \in Nat /\ (r < e => e \in ActiveExpiries(r))
  <2>1. \A e \in ActiveExpiries(t) : e \in Nat
    BY InstrumentAssumption DEF InstrumentAssumption, ActiveExpiries, Available
  <2> QED  BY <1>2, <1>3, <2>1, ActiveAtRollover
<1>7. \A e \in ActiveExpiries(r) :
         /\ e \in Nat /\ r < e
         /\ \/ e \in ActiveExpiries(t)
            \/ x.next < e /\ \A f \in x.future : f <= e
  BY <1>2, <1>3, ActiveAtRollover
<1>8. r + D <= x.next
  <2>1. x.next \in NextCandidates(t)
    BY <1>4 DEF Least
  <2>2. PICK e \in ActiveExpiries(t) : e + D <= x.next
    BY <2>1 DEF Aligned
  <2> QED  BY <1>1, <1>2, <1>3, <1>6, <2>2
<1>9. /\ x.near \in ActiveExpiries(t) /\ x.near <= t + D
      /\ \A e \in ActiveExpiries(t) : e <= t + D => e <= x.near
      /\ x.next \in ActiveExpiries(t) /\ x.next > t + D
      /\ \A e \in ActiveExpiries(t) : e > t + D => x.next <= e
  BY <1>4 DEF Greatest, Least, NearCandidates, NextCandidates
<1>10. /\ y.near \in ActiveExpiries(r) /\ y.near <= r + D
       /\ \A e \in ActiveExpiries(r) : e <= r + D => e <= y.near
       /\ y.next \in ActiveExpiries(r) /\ y.next > r + D
       /\ \A e \in ActiveExpiries(r) : e > r + D => y.next <= e
  BY <1>5 DEF Greatest, Least, NearCandidates, NextCandidates
<1>11. \A f \in x.future : /\ f \in ActiveExpiries(t) /\ f > x.next
                            /\ \A e \in ActiveExpiries(t) : e > x.next => f <= e
  BY <1>4 DEF Least
<1> HIDE DEF r, D
<1>12. y.near \in Nat /\ y.next \in Nat
  BY <1>7, <1>10
<1>13. CASE x.next = r + D
  <2>1. y.near = x.next
    BY <1>1, <1>3, <1>6, <1>9, <1>10, <1>12, <1>13
  <2>2. ASSUME NEW f \in x.future PROVE f = y.next
    <3>1. f \in Nat /\ f \in ActiveExpiries(r) /\ f > r + D
      BY <1>1, <1>3, <1>6, <1>11, <1>13
    <3>2. y.next <= f
      BY <1>10, <3>1
    <3>3. f <= y.next
      BY <1>7, <1>10, <1>11, <1>13
    <3> QED  BY <1>12, <3>1, <3>2, <3>3
  <2> QED  BY <2>1, <2>2
<1>14. CASE x.next > r + D
  <2>1. y.next = x.next
    <3>1. y.next <= x.next
      BY <1>1, <1>3, <1>6, <1>9, <1>10, <1>14
    <3>2. y.next \in ActiveExpiries(t) /\ y.next > t + D
      BY <1>1, <1>2, <1>3, <1>7, <1>10, <1>12, <3>1
    <3> QED  BY <1>3, <1>9, <1>12, <3>1, <3>2
  <2>2. y.near = x.near
    <3>1. y.near \in ActiveExpiries(t) /\ y.near <= t + D
      <4>1. y.near \in ActiveExpiries(t)
        BY <1>1, <1>3, <1>7, <1>10, <1>12, <1>14
      <4> QED  BY <1>1, <1>3, <1>9, <1>10, <1>12, <1>14, <4>1
    <3>2. y.near <= x.near
      BY <1>9, <3>1
    <3>3. r < x.near
      BY <1>3, <1>7, <1>10, <1>12, <3>2
    <3>4. x.near \in ActiveExpiries(r) /\ x.near <= r + D
      BY <1>1, <1>2, <1>3, <1>6, <1>9, <3>3
    <3> QED  BY <1>3, <1>10, <1>12, <3>2, <3>4
  <2>3. ASSUME NEW f \in x.future PROVE f \in y.future
    <3>1. f \in Nat /\ f \in ActiveExpiries(r) /\ f > y.next
      BY <1>1, <1>3, <1>6, <1>11, <1>14, <2>1
    <3>2. \A e \in ActiveExpiries(r) : e > y.next => f <= e
      BY <1>7, <1>11, <2>1
    <3>3. f \in Least({ e \in ActiveExpiries(r) : e > y.next })
      BY <3>1, <3>2 DEF Least
    <3> QED  BY <1>5, <3>3 DEF r
  <2> QED  BY <2>1, <2>2, <2>3
<1> QED
  BY <1>1, <1>3, <1>8, <1>13, <1>14

(***************************************************************************)
(* So in a calendar of that kind the book of a replay, or of a live        *)
(* stream, is that of the current terms, with no option of an old or a     *)
(* future one.                                                             *)
(***************************************************************************)
THEOREM OrderedCalendarsKeepTheBook ==
    ASSUME \A t \in 0 .. Horizon : Aligned(t), LaterListingsExpireLater
    PROVE  Spec => [](phase = "streaming" =>
              midBook = { s \in seen : ExpiryOf[s] \in {expiries.near, expiries.next} })
<1>1. TermsMoveUp
  BY OrderedCalendarsMoveUp
<1>2. BookIsCurrent
         => (phase = "streaming" =>
              midBook = { s \in seen : ExpiryOf[s] \in {expiries.near, expiries.next} })
  BY <1>1 DEF BookIsCurrent
<1> QED
  BY <1>2, BookIsCurrentAlways, PTL

-----------------------------------------------------------------------------
(***************************************************************************)
(* The refinement.  A message that sends is a delivery, possibly the last  *)
(* one; what ends the calculator ends the job; everything else, rollovers  *)
(* included, is a stutter.                                                 *)
(***************************************************************************)
Moments(indexes) == [ i \in 1 .. Len(indexes) |-> indexes[i].at ]

LEMMA MomentsAppend ==
    ASSUME NEW R, NEW q \in Seq(R), NEW r \in R
    PROVE  Moments(Append(q, r)) = Append(Moments(q), r.at)
<1>1. Moments(q) \in Seq({ q[i].at : i \in 1 .. Len(q) })
      /\ Len(Moments(q)) = Len(q)
  BY DEF Moments
<1>2. /\ Len(Append(q, r)) = Len(q) + 1 /\ Append(q, r)[Len(q) + 1] = r
      /\ \A i \in 1 .. Len(q) : Append(q, r)[i] = q[i]
  OBVIOUS
<1> QED
  BY <1>1, <1>2 DEF Moments

LEMMA JobInitially == Init => Job!JobInit
<1> SUFFICES ASSUME Init PROVE Job!JobInit
  OBVIOUS
<1>1. phase = "building" /\ ~Ended
  BY DEF Init, Ended
<1>2. Len(sent) = 0
  BY DEF Init
<1>3. [ i \in 1 .. Len(sent) |-> sent[i].at ] = <<>>
  BY <1>2
<1> QED
  BY <1>1, <1>3 DEF Job!JobInit

LEMMA JobStep ==
    ASSUME ~LivePossible, IInv, IInv', [Next]_vars
    PROVE  [Job!JobNext]_(Job!jobVars)
<1> DEFINE status == IF Ended THEN phase ELSE "running"
<1>1. ASSUME NEW s \in Symbol, NEW k \in 0 .. Horizon, NearOrNextMessage(s, k)
      PROVE  [Job!JobNext]_(Job!jobVars)
  <2>1. Arrives(s, k) /\ phase = "streaming" /\ status = "running"
    BY <1>1 DEF NearOrNextMessage, BookOnly, ComputeThrows, SendIndex,
                SendToClosed, Book, Arrives, Ended
  <2>2. status' \in {"running", "completed", "failed"}
    BY DEF Ended
  <2>3. CASE sent' = sent
    BY <2>1, <2>2, <2>3 DEF Job!JobNext, Job!End, Job!jobVars
  <2>4. CASE sent' = Append(sent, Index(k)) /\ Due(k)
    <3> DEFINE R == [ at : Nat, near : Nat, next : Nat ]
    <3>1. sent \in Seq(R) /\ Index(k) \in R /\ Index(k).at = k
      BY DEF IInv, TypeOK, Index, ExpiriesRecord
    <3> HIDE DEF R
    <3>2. Moments(sent)' = Append(Moments(sent), k)
      BY <2>4, <3>1, MomentsAppend DEF Moments
    <3>3. Job!Later(k)
      <4>1. Len(Moments(sent)) = Len(sent) /\ Len(sent) \in Nat
        BY <3>1 DEF Moments
      <4> SUFFICES ASSUME Moments(sent) # <<>>
                   PROVE  k >= Moments(sent)[Len(sent)] + (Frequency - Minute)
        BY <4>1 DEF Job!Later, Moments
      <4>2. sent # <<>> /\ Len(sent) > 0
        BY <3>1, <4>1 DEF Moments
      <4>3. Moments(sent)[Len(sent)] = LastSent.at
        BY <4>1, <4>2 DEF Moments, LastSent
      <4>4. LastSent.at + 1 <= lastReport + Minute /\ LastSent.at \in Nat
        BY <4>2, LastSentType DEF IInv, LatestInv
      <4>5. k + 1 - lastReport >= Frequency /\ Frequency \in Int
            /\ lastReport \in Int /\ Minute \in Int
        BY <2>4, CalculatorAssumption
        DEF Due, Frequency, CalculatorAssumption, IInv, TypeOK
      <4> QED  BY <4>3, <4>4, <4>5
    <3> QED
      BY <2>1, <2>2, <3>2, <3>3 DEF Job!JobNext, Job!Deliver, Moments
  <2> QED
    BY <1>1, <2>3, <2>4 DEF NearOrNextMessage, BookOnly, ComputeThrows,
                            SendIndex, SendToClosed
<1>2. CASE BuildThrows \/ StreamEnds \/ StreamThrows
  <2>1. status = "running" /\ phase' \in {"completed", "failed"} /\ sent' = sent
    BY <1>2 DEF BuildThrows, StreamEnds, StreamThrows, Finish, Ended
  <2> QED  BY <2>1 DEF Job!JobNext, Job!End, Ended
<1>3. CASE FirstStream \/ Rollover
  <2>1. phase' = "streaming" /\ phase \in {"building", "rolling"} /\ sent' = sent
    BY <1>3 DEF FirstStream, Rollover, BeginStream
  <2> QED  BY <2>1 DEF Job!jobVars, Ended
<1>4. ASSUME NEW s \in Symbol, NEW k \in 0 .. Horizon, FutureMessage(s, k)
      PROVE  [Job!JobNext]_(Job!jobVars)
  BY <1>4 DEF FutureMessage, Job!jobVars, Ended
<1>5. CASE ClientHangsUp \/ UNCHANGED vars
  BY <1>5 DEF ClientHangsUp, vars, Job!jobVars, Ended
<1> QED
  BY <1>1, <1>2, <1>3, <1>4, <1>5 DEF Next, Terminated

(***************************************************************************)
(* A calculator over recorded streams implements a replay job: what it     *)
(* hands to its consumer comes in order of time, at least a report         *)
(* frequency less one minute apart across any number of rollovers, and     *)
(* nothing comes after the end.                                            *)
(***************************************************************************)
THEOREM CalculatorIsReplayJob ==
    ASSUME ~LivePossible
    PROVE  Spec => IsReplayJob
<1>1. Init => IInv /\ Job!JobInit
  BY InvInit, JobInitially
<1>2. IInv /\ [Next]_vars => IInv'
  BY InvStep
<1>3. IInv /\ IInv' /\ [Next]_vars => [Job!JobNext]_(Job!jobVars)
  BY JobStep
<1> QED
  BY <1>1, <1>2, <1>3, PTL DEF Spec, IsReplayJob

-----------------------------------------------------------------------------
(***************************************************************************)
(* ReplayEnds is a liveness property, which the run replay_gaps checks.    *)
(* Its safety half is that a replay comes nearer to its end with each step *)
(* that fairness grants it and never turns back: it ends, or it goes on to *)
(* a later refDate before the end of the query, or from waiting for the    *)
(* terms to their stream, or to a later slot of the stream, which ends     *)
(* after MaxDuration.  None of these can happen for ever.                  *)
(***************************************************************************)
Onward ==
    \/ Ended'
    \/ refDate < refDate' /\ refDate' < QueryEnd
    \/ /\ refDate' = refDate
       /\ phase \in {"building", "rolling"} /\ phase' = "streaming"
    \/ /\ refDate' = refDate
       /\ phase = "streaming" /\ phase' = "streaming"
       /\ clock < clock' /\ clock' < refDate + MaxDuration

\* What Fairness promises.
FairStep ==
    \/ FirstStream \/ Rollover \/ BuildThrows
    \/ \E s \in Symbol, k \in (clock + 1) .. Horizon : NearOrNextMessage(s, k)
    \/ StreamEnds

MovesOn ==
    /\ Ended => UNCHANGED phase
    /\ ~Ended => Onward \/ UNCHANGED <<phase, refDate, clock>>
    /\ FairStep => Onward

\* A message of a recorded stream.
LEMMA MessagesMoveOn ==
    ASSUME IInv, NEW s \in Symbol, NEW k \in 0 .. Horizon,
           FutureMessage(s, k) \/ NearOrNextMessage(s, k)
    PROVE  /\ Onward \/ UNCHANGED <<phase, refDate, clock>>
           /\ k \in (clock + 1) .. Horizon => Onward
           /\ ~Ended
<1>1. Arrives(s, k) /\ phase = "streaming" /\ clock' = k
  BY DEF FutureMessage, NearOrNextMessage, BookOnly, ComputeThrows, SendIndex,
         SendToClosed, Book, Arrives
<1>2. /\ refDate \in Nat /\ clock \in Int /\ expiries \in ExpiriesRecord
      /\ expiries.rolloverAt \in Nat /\ k \in Nat /\ MaxDuration \in Nat /\ Start \in Nat
  BY CalculatorAssumption DEF CalculatorAssumption, IInv, TypeOK, ExpiriesRecord
<1>3. /\ refDate <= k /\ clock <= k /\ k < expiries.rolloverAt
  BY <1>1, ArrivesInTerm DEF IInv
<1>4. k < refDate + MaxDuration
  BY <1>1, <1>2 DEF Arrives, ReplayTo, IInv, StreamInv
<1>5. CASE phase' = "streaming" /\ refDate' = refDate
  <2>1. clock' = clock \/ Onward
    BY <1>1, <1>2, <1>3, <1>4, <1>5 DEF Onward
  <2>2. k \in (clock + 1) .. Horizon => Onward
    BY <1>1, <1>2, <1>4, <1>5 DEF Onward
  <2> QED  BY <1>1, <1>5, <2>1, <2>2 DEF Ended
<1>6. CASE phase' \in {"completed", "failed"}
  BY <1>1, <1>6 DEF Onward, Ended
<1>7. CASE /\ phase' = "rolling" /\ refDate' = expiries.rolloverAt
           /\ ~(k + 1 - Start >= MaxDuration) /\ k + 1 >= expiries.rolloverAt
  BY <1>1, <1>2, <1>3, <1>7 DEF Onward, Ended, QueryEnd
<1>8. Proceed(k) \/ phase' = "failed" \/ (phase' = "streaming" /\ refDate' = refDate)
  BY <1>1 DEF FutureMessage, NearOrNextMessage, BookOnly, ComputeThrows, SendIndex,
              SendToClosed
<1>9. Proceed(k) =>
         \/ phase' \in {"completed", "failed"}
         \/ phase' = "streaming" /\ refDate' = refDate
         \/ /\ phase' = "rolling" /\ refDate' = expiries.rolloverAt
            /\ ~(k + 1 - Start >= MaxDuration) /\ k + 1 >= expiries.rolloverAt
  BY <1>1 DEF Proceed, Finish
<1> QED
  BY <1>5, <1>6, <1>7, <1>8, <1>9

\* A step of the stream uses up a message, a step between streams a phase.
LEMMA MovesOnStep == IInv /\ [Next]_vars => [MovesOn]_vars
<1> SUFFICES ASSUME IInv, Next PROVE MovesOn
  OBVIOUS
<1>1. ASSUME FirstStream \/ Rollover PROVE Onward /\ ~Ended
  BY <1>1 DEF FirstStream, Rollover, BeginStream, Onward, Ended
<1>2. ASSUME BuildThrows \/ StreamEnds \/ StreamThrows PROVE Onward /\ ~Ended
  BY <1>2 DEF BuildThrows, StreamEnds, StreamThrows, Finish, Onward, Ended
<1>3. ASSUME NEW s \in Symbol, NEW k \in (clock + 1) .. Horizon, NearOrNextMessage(s, k)
      PROVE  Onward
  <2>1. phase = "streaming" /\ k \in Int /\ k <= Horizon /\ refDate <= k /\ refDate \in Nat
    BY <1>3, CalculatorAssumption
    DEF CalculatorAssumption, NearOrNextMessage, BookOnly, ComputeThrows, SendIndex,
        SendToClosed, Book, Arrives, IInv, StreamInv, TypeOK
  <2>2. k \in 0 .. Horizon
    BY <2>1
  <2> QED  BY <1>3, <2>2, MessagesMoveOn
<1>4. FairStep => Onward
  BY <1>1, <1>2, <1>3 DEF FairStep
<1>5. ASSUME ClientHangsUp \/ Terminated PROVE UNCHANGED <<phase, refDate, clock>>
  BY <1>5 DEF ClientHangsUp, Terminated, vars
<1>6. Ended => UNCHANGED phase
  BY <1>1, <1>2, <1>5, MessagesMoveOn DEF Next
<1>7. ~Ended => Onward \/ UNCHANGED <<phase, refDate, clock>>
  BY <1>1, <1>2, <1>5, MessagesMoveOn DEF Next
<1> QED
  BY <1>4, <1>6, <1>7 DEF MovesOn

(***************************************************************************)
(* A recorded replay only moves on, with each step it is granted, through  *)
(* streams that begin before the end of the query and are no longer than   *)
(* the query; and what has ended stays ended.                              *)
(***************************************************************************)
THEOREM ReplaysMoveOn ==
    ASSUME ~LivePossible
    PROVE  Spec => [][MovesOn]_vars
<1>1. Init => IInv
  BY InvInit
<1>2. IInv /\ [Next]_vars => IInv'
  BY InvStep
<1> QED
  BY <1>1, <1>2, MovesOnStep, PTL DEF Spec
=============================================================================
