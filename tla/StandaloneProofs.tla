-------------------------- MODULE StandaloneProofs --------------------------
(***************************************************************************)
(* The components that stand alone, each with a specification of its own:  *)
(* the rate service, the superseded calculator and its book of strikes,    *)
(* the instrument_info service and the gateway's superseded replays, which *)
(* use it.  What they promise is proved for every number of ticks,         *)
(* retries, rows, restarts, callers, replays, instruments and strikes, and *)
(* every calendar of terms.                                                *)
(***************************************************************************)
EXTENDS Rate, VixCalculatorV1, LegacyReplay, StrikeBook, FiniteSetTheorems,
        WellFoundedInduction, TLAPS

-----------------------------------------------------------------------------
(***************************************************************************)
(* The rate service.  The properties speak of the table; the program looks *)
(* at lastRate.  The invariant ties one to the other: lastRate is in the   *)
(* table, it is the value of the last row unless a restart or a lost       *)
(* acknowledgement is between them, and it stays what it was while an      *)
(* execution is alone.                                                     *)
(***************************************************************************)
Persisted(v) == \E i \in 1 .. Len(rates) : rates[i].value = v

\* lastRate has been saved, and so has everything that is broadcast.
SavedInv ==
    /\ lastRate # Undefined => Persisted(lastRate)
    /\ \A v \in announced : Persisted(v)

\* What runs is an attempt of a tick that has come.
RunInv ==
    \A x \in DOMAIN runs :
        /\ x \in (1 .. tick) \X (0 .. Retries)
        /\ runs[x] \in RunRecord
        /\ runs[x].phase = "saving" => runs[x].value \in Value

\* Nobody changes lastRate under an execution that is alone.
AloneInv ==
    \A x \in DOMAIN runs : runs[x].alone =>
        /\ DOMAIN runs = {x}
        /\ runs[x].phase = "saving" => runs[x].value # lastRate

\* lastRate is the last row's value, as far as this process can know.
LastInv ==
    Len(rates) > 0 =>
        /\ rates[Len(rates)].restarts <= restarts
        /\ (/\ rates[Len(rates)].acknowledged
            /\ rates[Len(rates)].restarts = restarts)
               => lastRate = rates[Len(rates)].value

TypeInv ==
    /\ tick \in Nat
    /\ attempt \in (0 .. Retries) \cup {Settled}
    /\ attempt # Settled => tick > 0
    /\ lastRate \in Value \cup {Undefined}
    /\ rates \in Seq(RateRow)
    /\ used \in [ value : Value \cup {Default}, tick : 0 .. tick ]
    /\ announced \subseteq Value
    /\ restarts \in Nat

IInv == TypeInv /\ RunInv /\ AloneInv /\ LastInv /\ SavedInv /\ RowsRecordChanges

USE DEF Settled

-----------------------------------------------------------------------------
\* A row after the others.
LEMMA AppendRow ==
    ASSUME NEW S, NEW s \in Seq(S), NEW e \in S
    PROVE  /\ Append(s, e) \in Seq(S)
           /\ Len(s) \in Nat
           /\ Len(Append(s, e)) = Len(s) + 1
           /\ \A i \in 1 .. Len(s) : Append(s, e)[i] = s[i]
           /\ Append(s, e)[Len(s) + 1] = e
  OBVIOUS

\* What begins is alone if nothing runs, and then nothing else is.
LEMMA BeginStep ==
    ASSUME IInv, NEW x \in (1 .. tick') \X (0 .. Retries),
           tick' \in Nat, tick <= tick', Begin(x), UNCHANGED lastRate
    PROVE  RunInv' /\ AloneInv'
<1> DEFINE new == [ phase |-> "reading", value |-> Undefined,
                    alone |-> runs = Nothing ]
<1>1. /\ DOMAIN runs' = DOMAIN runs \cup {x}
      /\ runs'[x] = new
      /\ \A y \in DOMAIN runs \ {x} :
            runs'[y] = [ runs[y] EXCEPT !.alone = FALSE ]
  BY DEF Begin
<1>2. new \in RunRecord /\ new.phase = "reading"
  BY DEF RunRecord
<1>3. ASSUME NEW y \in DOMAIN runs \ {x}
      PROVE  /\ y \in (1 .. tick') \X (0 .. Retries)
             /\ runs'[y] \in RunRecord
             /\ runs'[y].phase = "saving" => runs'[y].value \in Value
             /\ runs'[y].alone = FALSE
  <2>1. /\ y \in (1 .. tick) \X (0 .. Retries)
        /\ runs[y] \in RunRecord
        /\ runs[y].phase = "saving" => runs[y].value \in Value
    BY DEF IInv, RunInv
  <2>2. 1 .. tick \subseteq 1 .. tick'
    BY DEF IInv, TypeInv
  <2>3. QED
    BY <1>1, <2>1, <2>2 DEF RunRecord
<1>4. RunInv'
  BY <1>1, <1>2, <1>3 DEF RunInv
<1>5. new.alone => DOMAIN runs = {}
  BY DEF Nothing
<1>6. AloneInv'
  BY <1>1, <1>2, <1>3, <1>5 DEF AloneInv
<1>7. QED
  BY <1>4, <1>6

\* What is left when one ends was not alone.
LEMMA DropStep ==
    ASSUME IInv, NEW x \in DOMAIN runs, runs' = Drop(runs, x), UNCHANGED tick
    PROVE  RunInv' /\ AloneInv'
<1>1. /\ DOMAIN runs' = DOMAIN runs \ {x}
      /\ \A y \in DOMAIN runs' : runs'[y] = runs[y]
  BY DEF Drop
<1>2. RunInv'
  BY <1>1 DEF IInv, RunInv
<1>3. AloneInv'
  BY <1>1 DEF IInv, AloneInv
<1>4. QED
  BY <1>2, <1>3

\* The table as it is keeps what is said of it.
LEMMA RatesKept ==
    ASSUME IInv, UNCHANGED rates
    PROVE  /\ RowsRecordChanges'
           /\ \A v : Persisted(v) => Persisted(v)'
  BY DEF IInv, RowsRecordChanges, Persisted

\* A row of an execution that is alone follows one with another value, if this
\* process has saved that one and knows it.
LEMMA RowAppended ==
    ASSUME IInv, NEW x \in DOMAIN runs, runs[x].phase = "saving",
           NEW row, row = Row(x, TRUE) \/ row = Row(x, FALSE),
           rates' = Append(rates, row)
    PROVE  /\ RowsRecordChanges'
           /\ rates' \in Seq(RateRow)
           /\ rates'[Len(rates')].value = runs[x].value
           /\ rates'[Len(rates')].restarts = restarts
           /\ restarts \in Nat
           /\ \A v : Persisted(v) => Persisted(v)'
           /\ \A v : v = runs[x].value => Persisted(v)'
<1> DEFINE n == Len(rates)
<1>1. runs[x] \in RunRecord /\ runs[x].value \in Value
  BY DEF IInv, RunInv
<1>2. /\ row \in RateRow
      /\ row.value = runs[x].value
      /\ row.alone = runs[x].alone
      /\ row.restarts = restarts
  <2> USE <1>1 DEF Row, RateRow, RunRecord, IInv, TypeInv
  <2>1. CASE row = Row(x, TRUE)
    BY <2>1
  <2>2. CASE row = Row(x, FALSE)
    BY <2>2
  <2>3. QED
    BY <2>1, <2>2
<1>3. /\ rates' \in Seq(RateRow)
      /\ n \in Nat
      /\ Len(rates') = n + 1
      /\ \A i \in 1 .. n : rates'[i] = rates[i]
      /\ rates'[n + 1] = row
  <2>1. rates \in Seq(RateRow) /\ rates' = Append(rates, row)
    BY DEF IInv, TypeInv
  <2>2. QED
    BY <1>2, <2>1, AppendRow
<1>4. RowsRecordChanges'
  <2> SUFFICES ASSUME NEW i \in 1 .. n, rates'[i].value = rates'[i + 1].value
               PROVE  \/ ~rates'[i + 1].alone
                      \/ rates'[i + 1].restarts # rates'[i].restarts
                      \/ ~rates'[i].acknowledged
    BY <1>3 DEF RowsRecordChanges
  <2>1. CASE i < n
    <3>1. /\ i \in 1 .. n - 1 /\ i + 1 \in 1 .. n
          /\ rates'[i] = rates[i] /\ rates'[i + 1] = rates[i + 1]
      BY <1>3, <2>1
    <3>2. QED
      BY <3>1 DEF IInv, RowsRecordChanges
  <2>2. CASE i = n
    <3>1. rates'[i] = rates[n] /\ rates'[i + 1] = row /\ n > 0
      BY <1>3, <2>2
    <3>2. runs[x].alone => runs[x].value # lastRate
      BY DEF IInv, AloneInv
    <3>3. (rates[n].acknowledged /\ rates[n].restarts = restarts)
              => lastRate = rates[n].value
      BY <3>1 DEF IInv, LastInv
    <3>4. QED
      BY <1>2, <3>1, <3>2, <3>3
  <2>3. QED
    BY <1>3, <2>1, <2>2
<1>5. \A v : Persisted(v) => Persisted(v)'
  BY <1>3 DEF Persisted
<1>6. \A v : v = runs[x].value => Persisted(v)'
  <2>1. n + 1 \in 1 .. Len(rates') /\ rates'[n + 1].value = runs[x].value
    BY <1>2, <1>3
  <2>2. QED
    BY <2>1 DEF Persisted
<1>7. QED
  BY <1>2, <1>3, <1>4, <1>5, <1>6 DEF IInv, TypeInv

-----------------------------------------------------------------------------
\* An answer, v, has been saved.
LEMMA AnswerStep ==
    ASSUME IInv, NEW x \in DOMAIN runs, NEW v \in Value, Answer(x, v),
           \A w : w = v => Persisted(w)',
           \A w : Persisted(w) => Persisted(w)',
           UNCHANGED tick
    PROVE  /\ RunInv' /\ AloneInv'
           /\ attempt' \in {attempt, Settled}
           /\ used' \in [ value : Value \cup {Default}, tick : 0 .. tick ]
           /\ announced' \subseteq Value
           /\ \A w \in announced' : Persisted(w)'
           /\ used' # used => used'.tick = tick
<1>1. RunInv' /\ AloneInv'
  BY DropStep DEF Answer
<1>2. CASE IsAwaited(x)
  <2>1. /\ attempt' = Settled
        /\ announced' = announced \cup {v}
        /\ used' = [ value |-> v, tick |-> x[1] ]
        /\ x[1] = tick
    BY <1>2 DEF Answer, IsAwaited
  <2>2. \A w \in announced : Persisted(w)
    BY DEF IInv, SavedInv
  <2>3. QED
    BY <1>1, <2>1, <2>2 DEF IInv, TypeInv
<1>3. CASE ~IsAwaited(x)
  BY <1>1, <1>3 DEF Answer, IInv, TypeInv, SavedInv
<1>4. QED
  BY <1>2, <1>3

LEMMA FailStep ==
    ASSUME IInv, NEW x \in DOMAIN runs, Fail(x),
           UNCHANGED <<tick, used, announced>>
    PROVE  /\ RunInv' /\ AloneInv'
           /\ attempt' \in {attempt, Settled}
  BY DropStep DEF Fail

LEMMA Initially == Init => IInv
  BY RateAssumption
     DEF Init, IInv, TypeInv, RunInv, AloneInv, LastInv, SavedInv,
         RowsRecordChanges, Persisted, Nothing

\* What a step may do to the index service's rate.
Forward == used'.value # Default => used'.tick >= used.tick

\* Every action keeps the invariant.
LEMMA Inductive == IInv /\ [Next]_vars => IInv' /\ (Forward \/ UNCHANGED vars)
<1> SUFFICES ASSUME IInv, [Next]_vars
             PROVE  IInv' /\ (Forward \/ UNCHANGED vars)
  OBVIOUS
<1> USE RateAssumption
<1>0. /\ used \in [ value : Value \cup {Default}, tick : 0 .. tick ]
      /\ tick \in Nat
  BY DEF IInv, TypeInv
<1>1. CASE Tick
  <2>1. tick' = tick + 1 /\ attempt' = 0 /\ Begin(<<tick', 0>>)
        /\ UNCHANGED <<lastRate, rates, used, announced, restarts>>
    BY <1>1 DEF Tick
  <2>2. RunInv' /\ AloneInv'
    <3>1. <<tick', 0>> \in (1 .. tick') \X (0 .. Retries)
      BY <1>0, <2>1
    <3>2. QED
      BY <1>0, <2>1, <3>1, BeginStep
  <2>3. TypeInv'
    BY <1>0, <2>1 DEF IInv, TypeInv
  <2>4. LastInv' /\ SavedInv' /\ RowsRecordChanges'
    BY <2>1, RatesKept DEF IInv, LastInv, SavedInv
  <2>5. QED
    BY <1>0, <2>1, <2>2, <2>3, <2>4 DEF IInv, Forward
<1>2. CASE RequestTimeout
  <2>1. /\ UNCHANGED <<tick, lastRate, rates, used, announced, restarts>>
        /\ attempt # Settled
        /\ \/ /\ attempt < Retries /\ attempt' = attempt + 1
              /\ Begin(<<tick, attempt'>>)
           \/ attempt' = Settled /\ UNCHANGED runs
    BY <1>2 DEF RequestTimeout
  <2>2. attempt \in 0 .. Retries /\ tick > 0
    BY <2>1 DEF IInv, TypeInv
  <2>3. RunInv' /\ AloneInv'
    <3>1. CASE UNCHANGED runs
      BY <2>1, <3>1 DEF IInv, RunInv, AloneInv
    <3>2. CASE attempt < Retries /\ attempt' = attempt + 1
               /\ Begin(<<tick, attempt'>>)
      <4>1. <<tick, attempt'>> \in (1 .. tick') \X (0 .. Retries)
        BY <1>0, <2>1, <2>2, <3>2
      <4>2. QED
        BY <1>0, <2>1, <3>2, <4>1, BeginStep
    <3>3. QED
      BY <2>1, <3>1, <3>2
  <2>4. TypeInv'
    BY <2>1, <2>2 DEF IInv, TypeInv
  <2>5. LastInv' /\ SavedInv' /\ RowsRecordChanges'
    BY <2>1, RatesKept DEF IInv, LastInv, SavedInv
  <2>6. QED
    BY <1>0, <2>1, <2>3, <2>4, <2>5 DEF IInv, Forward
<1>3. ASSUME NEW x \in DOMAIN runs, ReadRate(x)
      PROVE  IInv' /\ Forward
  <2>1. PICK v \in Value : Compare(x, v)
    BY <1>3 DEF ReadRate
  <2>2. UNCHANGED <<tick, lastRate, rates, restarts>>
    BY <1>3, <2>1 DEF ReadRate, Compare, Answer, Save
  <2>3. /\ RowsRecordChanges'
        /\ \A w : Persisted(w) => Persisted(w)'
        /\ LastInv'
    BY <2>2, RatesKept DEF IInv, LastInv
  <2>4. CASE v = lastRate
    <3>1. Answer(x, v)
      BY <2>1, <2>4 DEF Compare
    <3>2. \A w : w = v => Persisted(w)'
      BY <2>3, <2>4 DEF IInv, SavedInv
    <3>3. /\ RunInv' /\ AloneInv'
          /\ attempt' \in {attempt, Settled}
          /\ used' \in [ value : Value \cup {Default}, tick : 0 .. tick ]
          /\ announced' \subseteq Value
          /\ \A w \in announced' : Persisted(w)'
          /\ used' # used => used'.tick = tick
      BY <2>2, <2>3, <3>1, <3>2, AnswerStep
    <3>4. TypeInv'
      BY <2>2, <3>3 DEF IInv, TypeInv
    <3>5. SavedInv'
      BY <2>2, <2>3, <3>3 DEF IInv, SavedInv
    <3>6. Forward
      BY <1>0, <3>3 DEF Forward
    <3>7. QED
      BY <2>3, <3>3, <3>4, <3>5, <3>6 DEF IInv
  <2>5. CASE v # lastRate
    <3>1. /\ runs' = [ runs EXCEPT ![x].phase = "saving", ![x].value = v ]
          /\ UNCHANGED <<attempt, announced, used>>
      BY <2>1, <2>5 DEF Compare, Save
    <3>2. /\ DOMAIN runs' = DOMAIN runs
          /\ \A y \in DOMAIN runs \ {x} : runs'[y] = runs[y]
          /\ runs[x] \in RunRecord
          /\ runs'[x] \in RunRecord
          /\ runs'[x].value = v
          /\ runs'[x].alone = runs[x].alone
      BY <3>1 DEF IInv, RunInv, RunRecord
    <3>3. RunInv'
      BY <2>2, <3>2 DEF IInv, RunInv
    <3>4. AloneInv'
      BY <2>2, <2>5, <3>2 DEF IInv, AloneInv
    <3>5. TypeInv' /\ SavedInv' /\ Forward
      BY <1>0, <2>2, <2>3, <3>1 DEF IInv, TypeInv, SavedInv, Forward
    <3>6. QED
      BY <2>3, <3>3, <3>4, <3>5 DEF IInv
  <2>6. QED
    BY <2>4, <2>5
<1>4. ASSUME NEW x \in DOMAIN runs, SaveRate(x)
      PROVE  IInv' /\ Forward
  <2>1. /\ runs[x].phase = "saving"
        /\ rates' = Append(rates, Row(x, TRUE))
        /\ lastRate' = runs[x].value
        /\ Answer(x, runs[x].value)
        /\ UNCHANGED <<tick, restarts>>
    BY <1>4 DEF SaveRate, Saved
  <2>2. runs[x].value \in Value
    BY <2>1 DEF IInv, RunInv
  <2>3. /\ RowsRecordChanges'
        /\ rates' \in Seq(RateRow)
        /\ rates'[Len(rates')].value = runs[x].value
        /\ rates'[Len(rates')].restarts = restarts
        /\ restarts \in Nat
        /\ \A w : Persisted(w) => Persisted(w)'
        /\ \A w : w = runs[x].value => Persisted(w)'
    BY <2>1, RowAppended
  <2>4. /\ RunInv' /\ AloneInv'
        /\ attempt' \in {attempt, Settled}
        /\ used' \in [ value : Value \cup {Default}, tick : 0 .. tick ]
        /\ announced' \subseteq Value
        /\ \A w \in announced' : Persisted(w)'
        /\ used' # used => used'.tick = tick
    BY <2>1, <2>2, <2>3, AnswerStep
  <2>5. TypeInv'
    BY <2>1, <2>2, <2>3, <2>4 DEF IInv, TypeInv
  <2>6. LastInv'
    <3>1. /\ rates'[Len(rates')].restarts = restarts'
          /\ rates'[Len(rates')].value = lastRate'
          /\ restarts' <= restarts'
      <4>1. lastRate' = runs[x].value /\ restarts' = restarts
        BY <2>1
      <4>2. QED
        BY <2>3, <4>1
    <3>2. QED
      BY <3>1 DEF LastInv
  <2>7. SavedInv'
    BY <2>1, <2>3, <2>4 DEF SavedInv
  <2>8. Forward
    BY <1>0, <2>4 DEF Forward
  <2>9. QED
    BY <2>3, <2>4, <2>5, <2>6, <2>7, <2>8 DEF IInv
<1>5. ASSUME NEW x \in DOMAIN runs, SaveFails(x)
      PROVE  IInv' /\ Forward
  <2>1. /\ runs[x].phase = "saving" /\ Fail(x)
        /\ rates' = rates \/ rates' = Append(rates, Row(x, FALSE))
        /\ UNCHANGED <<tick, lastRate, used, announced, restarts>>
    BY <1>5 DEF SaveFails
  <2>2. RunInv' /\ AloneInv' /\ attempt' \in {attempt, Settled}
    BY <2>1, FailStep
  <2>3. /\ RowsRecordChanges'
        /\ rates' \in Seq(RateRow)
        /\ \A w : Persisted(w) => Persisted(w)'
        /\ LastInv'
    <3>1. CASE rates' = rates
      BY <2>1, <3>1, RatesKept DEF IInv, LastInv, TypeInv
    <3>2. CASE rates' = Append(rates, Row(x, FALSE))
      <4>1. /\ RowsRecordChanges'
            /\ rates' \in Seq(RateRow)
            /\ rates'[Len(rates')].restarts = restarts
            /\ restarts \in Nat
            /\ \A w : Persisted(w) => Persisted(w)'
        BY <2>1, <3>2, RowAppended
      <4>2. rates'[Len(rates')].acknowledged = FALSE
        <5>1. rates \in Seq(RateRow) /\ Row(x, FALSE) \in RateRow
          BY <2>1 DEF IInv, TypeInv, RunInv, RunRecord, Row, RateRow
        <5>2. /\ Append(rates, Row(x, FALSE))[Len(rates) + 1] = Row(x, FALSE)
              /\ Len(Append(rates, Row(x, FALSE))) = Len(rates) + 1
          BY <5>1, AppendRow
        <5>3. Row(x, FALSE).acknowledged = FALSE
          BY DEF Row
        <5>4. QED
          BY <3>2, <5>2, <5>3
      <4>3. QED
        BY <2>1, <4>1, <4>2 DEF LastInv
    <3>3. QED
      BY <2>1, <3>1, <3>2
  <2>4. TypeInv' /\ SavedInv' /\ Forward
    BY <1>0, <2>1, <2>2, <2>3 DEF IInv, TypeInv, SavedInv, Forward
  <2>5. QED
    BY <2>2, <2>3, <2>4 DEF IInv
<1>6. ASSUME NEW x \in DOMAIN runs, ReadFails(x)
      PROVE  IInv' /\ Forward
  <2>1. Fail(x) /\ UNCHANGED <<tick, lastRate, rates, used, announced, restarts>>
    BY <1>6 DEF ReadFails
  <2>2. RunInv' /\ AloneInv' /\ attempt' \in {attempt, Settled}
    BY <2>1, FailStep
  <2>3. LastInv' /\ SavedInv' /\ RowsRecordChanges'
    BY <2>1, RatesKept DEF IInv, LastInv, SavedInv
  <2>4. TypeInv' /\ Forward
    BY <1>0, <2>1, <2>2 DEF IInv, TypeInv, Forward
  <2>5. QED
    BY <2>2, <2>3, <2>4 DEF IInv
<1>7. ASSUME NEW x \in DOMAIN runs, ReadFailsRetryably(x)
      PROVE  IInv' /\ Forward
  <2> DEFINE others == Drop(runs, x)
             z == <<tick, attempt'>>
             again == [ runs[x] EXCEPT !.alone = others = Nothing ]
  <2>1. /\ runs[x].phase = "reading"
        /\ attempt # Settled /\ attempt < Retries /\ attempt' = attempt + 1
        /\ UNCHANGED <<tick, lastRate, rates, used, announced, restarts>>
    BY <1>7 DEF ReadFailsRetryably, IsAwaited, IInv, RunInv
  <2>2. /\ DOMAIN runs' = (DOMAIN runs \ {x}) \cup {z}
        /\ \A y \in DOMAIN runs \ {x} : runs'[y] = runs[y]
        /\ z \notin DOMAIN runs \ {x} => runs'[z] = again
    BY <1>7 DEF ReadFailsRetryably, Drop
  <2>3. runs[x] \in RunRecord
    BY DEF IInv, RunInv
  <2>4. /\ again \in RunRecord
        /\ again.phase = "reading"
        /\ again.alone => DOMAIN runs \ {x} = {}
    BY <2>1, <2>3 DEF RunRecord, Drop, Nothing
  <2> HIDE DEF again
  <2>5. z \in (1 .. tick') \X (0 .. Retries)
    BY <1>0, <2>1 DEF IInv, TypeInv
  <2> HIDE DEF z
  <2>6. RunInv'
    BY <2>1, <2>2, <2>4, <2>5 DEF IInv, RunInv
  <2>7. AloneInv'
    BY <2>1, <2>2, <2>4 DEF IInv, AloneInv
  <2>8. LastInv' /\ SavedInv' /\ RowsRecordChanges'
    BY <2>1, RatesKept DEF IInv, LastInv, SavedInv
  <2>9. TypeInv' /\ Forward
    BY <1>0, <2>1 DEF IInv, TypeInv, Forward
  <2>10. QED
    BY <2>6, <2>7, <2>8, <2>9 DEF IInv
<1>8. CASE Restart
  <2>1. /\ restarts' = restarts + 1 /\ attempt' = Settled /\ runs' = Nothing
        /\ lastRate' = Undefined
        /\ UNCHANGED <<tick, rates, used, announced>>
    BY <1>8 DEF Restart
  <2>2. RunInv' /\ AloneInv'
    BY <2>1 DEF RunInv, AloneInv, Nothing
  <2>3. RowsRecordChanges' /\ SavedInv'
    BY <2>1, RatesKept DEF IInv, SavedInv
  <2>4. TypeInv' /\ Forward
    BY <1>0, <2>1 DEF IInv, TypeInv, Forward
  <2>5. LastInv'
    <3>1. CASE Len(rates) = 0
      BY <2>1, <3>1 DEF LastInv
    <3>2. CASE Len(rates) > 0
      <4>1. /\ rates[Len(rates)].restarts <= restarts
            /\ rates[Len(rates)].restarts \in Nat
            /\ restarts \in Nat
        <5>1. rates \in Seq(RateRow) /\ restarts \in Nat
          BY DEF IInv, TypeInv
        <5>2. rates[Len(rates)] \in RateRow
          BY <3>2, <5>1
        <5>3. QED
          BY <3>2, <5>1, <5>2 DEF IInv, LastInv, RateRow
      <4>2. QED
        BY <2>1, <4>1 DEF LastInv
    <3>3. QED
      BY <3>1, <3>2 DEF IInv, TypeInv
  <2>6. QED
    BY <2>2, <2>3, <2>4, <2>5 DEF IInv
<1>9. CASE IndexRestarts
  <2>1. /\ used' = [ value |-> Default, tick |-> 0 ]
        /\ UNCHANGED <<tick, attempt, runs, lastRate, rates, announced, restarts>>
    BY <1>9 DEF IndexRestarts
  <2>2. RunInv' /\ AloneInv'
    BY <2>1 DEF IInv, RunInv, AloneInv
  <2>3. LastInv' /\ SavedInv' /\ RowsRecordChanges'
    BY <2>1, RatesKept DEF IInv, LastInv, SavedInv
  <2>4. TypeInv' /\ Forward
    BY <1>0, <2>1 DEF IInv, TypeInv, Forward
  <2>5. QED
    BY <2>2, <2>3, <2>4 DEF IInv
<1>10. CASE UNCHANGED vars
  BY <1>10, RatesKept
     DEF vars, IInv, TypeInv, RunInv, AloneInv, LastInv, SavedInv
<1>11. QED
  BY <1>1, <1>2, <1>3, <1>4, <1>5, <1>6, <1>7, <1>8, <1>9, <1>10 DEF Next

LEMMA InvariantHolds == Spec => []IInv
<1>1. IInv /\ [Next]_vars => IInv'
  BY Inductive
<1>2. QED
  BY Initially, <1>1, PTL DEF Spec

(***************************************************************************)
(* Every rate that is broadcast is in the table: fetchRate assigns         *)
(* lastRate only what persist has returned (rate.service.ts:96-106).       *)
(***************************************************************************)
THEOREM AnnouncedRatesArePersistedAlways == Spec => []AnnouncedRatesArePersisted
<1>1. IInv => AnnouncedRatesArePersisted
  BY DEF IInv, SavedInv, Persisted, AnnouncedRatesArePersisted
<1>2. QED
  BY InvariantHolds, <1>1, PTL

(***************************************************************************)
(* A row repeats the one before it only after an overlap, a restart or a   *)
(* lost acknowledgement.                                                   *)
(***************************************************************************)
THEOREM RowsRecordChangesAlways == Spec => []RowsRecordChanges
<1>1. IInv => RowsRecordChanges
  BY DEF IInv
<1>2. QED
  BY InvariantHolds, <1>1, PTL

(***************************************************************************)
(* The index service never goes back to the rate of an earlier tick        *)
(* (index.service.ts:92-99).                                               *)
(***************************************************************************)
THEOREM RateNeverGoesBackAlways == Spec => RateNeverGoesBack
<1>1. IInv /\ [Next]_vars => [used'.value # Default => used'.tick >= used.tick]_vars
  BY Inductive DEF Forward
<1>2. QED
  BY InvariantHolds, <1>1, PTL DEF Spec, RateNeverGoesBack

\* The ticks and the restarts that are considered.
Bounds == tick \in 0 .. MaxTick /\ restarts \in 0 .. MaxRestarts

LEMMA BoundsHold == Spec => []Bounds
<1>1. Init => Bounds
  BY RateAssumption DEF RateAssumption, Init, Bounds
<1>2. Bounds /\ [Next]_vars => Bounds'
  <2> SUFFICES ASSUME Bounds, [Next]_vars PROVE Bounds'
    OBVIOUS
  <2>1. CASE Tick
    BY <2>1, RateAssumption DEF RateAssumption, Tick, Bounds
  <2>2. CASE Restart
    BY <2>2, RateAssumption DEF RateAssumption, Restart, Bounds
  <2>3. CASE UNCHANGED <<tick, restarts>>
    BY <2>3 DEF Bounds
  <2> QED
    BY <2>1, <2>2, <2>3
       DEF Next, vars, RequestTimeout, ReadRate, SaveRate, SaveFails, ReadFails,
           ReadFailsRetryably, IndexRestarts
<1> QED
  BY <1>1, <1>2, PTL DEF Spec

(***************************************************************************)
(* The executions, the attempts of a tick, lastRate and the table of the   *)
(* rate service keep the shape of their declarations; what is broadcast is *)
(* always an answer of the contract.                                       *)
(***************************************************************************)
THEOREM RateTypeCorrect == Spec => []RateTypeOK
<1>1. IInv /\ Bounds => RateTypeOK
  <2> SUFFICES ASSUME IInv, Bounds PROVE RateTypeOK
    OBVIOUS
  <2>1. DOMAIN runs \subseteq (1 .. tick) \X (0 .. Retries)
    BY DEF IInv, RunInv
  <2>2. \A x \in DOMAIN runs : runs[x] \in RunRecord
    BY DEF IInv, RunInv
  <2> QED
    BY <2>1, <2>2 DEF IInv, TypeInv, Bounds, RateTypeOK
<1> QED
  BY <1>1, InvariantHolds, BoundsHold, PTL


-----------------------------------------------------------------------------
(***************************************************************************)
(* The superseded calculator.                                              *)
(***************************************************************************)
SupersededInv ==
    /\ refDate \in Nat /\ clock \in Int
    /\ overruns \in {0, 1}
    /\ phase \in {"building", "streaming", "rolling"} => overruns = 0

LEMMA SupersededInit == CalculatorInit => SupersededInv
BY CalculatorV1Assumption
DEF CalculatorV1Assumption, CalculatorInit, SupersededInv

LEMMA SupersededMessage ==
    ASSUME SupersededInv, NEW e \in Int, NEW k \in 0 .. LastSlot, Message(e, k)
    PROVE  SupersededInv'
<1> USE CalculatorV1Assumption DEF CalculatorV1Assumption
<1>1. /\ phase = "streaming" /\ overruns = 0
      /\ clock' = k /\ k \in Nat /\ refDate \in Nat
      /\ k + 1 \in Nat
  BY DEF Message, SupersededInv
<1>3. rolloverAt \in Nat
  BY <1>1 DEF rolloverAt
<1>4. \/ phase' = "completed" /\ refDate' = refDate
      \/ phase' = "rolling" /\ refDate' = rolloverAt /\ k + 1 - Start < MaxDuration
      \/ phase' = "streaming" /\ refDate' = refDate /\ k + 1 - Start < MaxDuration
  BY <1>1, <1>3 DEF Message, Continue
<1>5. \/ overruns' = overruns
      \/ overruns' = overruns + 1 /\ k + 1 >= QueryEnd
  BY DEF Message, Report
<1>6. /\ overruns' \in {0, 1}
      /\ phase' \in {"building", "streaming", "rolling"} => overruns' = 0
  BY <1>1, <1>4, <1>5 DEF QueryEnd
<1> QED
  BY <1>1, <1>3, <1>4, <1>6 DEF SupersededInv

LEMMA SupersededStep ==
    SupersededInv /\ [CalculatorNext]_calculatorVars => SupersededInv'
<1> SUFFICES ASSUME SupersededInv, [CalculatorNext]_calculatorVars
             PROVE  SupersededInv'
  OBVIOUS
<1>1. CASE Build
  <2>1. /\ phase \in {"building", "rolling"} /\ phase' = "streaming"
        /\ UNCHANGED <<refDate, overruns>>
    BY <1>1 DEF Build
  <2>2. clock' \in Int
    <3>1. clock' = clock \/ clock' = refDate - 1
      BY <1>1 DEF Build
    <3> QED  BY <3>1 DEF SupersededInv
  <2> QED  BY <2>1, <2>2 DEF SupersededInv
<1>2. CASE FetchIndexThrows \/ Exhausted
  BY <1>2 DEF FetchIndexThrows, Exhausted, SupersededInv
<1>3. ASSUME NEW e \in { w * Week : w \in 1 .. LastSlot }, NEW k \in 0 .. LastSlot,
             Message(e, k)
      PROVE  SupersededInv'
  <2>1. e \in Int
    BY CalculatorV1Assumption DEF CalculatorV1Assumption
  <2> QED  BY <1>3, <2>1, SupersededMessage
<1>4. CASE UNCHANGED calculatorVars
  BY <1>4 DEF calculatorVars, SupersededInv
<1> QED
  BY <1>1, <1>2, <1>3, <1>4 DEF CalculatorNext, CalculatorEnded

(***************************************************************************)
(* However often it rolls over, the superseded calculator reports at most  *)
(* once at or after the end of its query.                                  *)
(***************************************************************************)
THEOREM OneReportPastTheEndAlways == CalculatorSpec => []OneReportPastTheEnd
<1>1. SupersededInv => OneReportPastTheEnd
  BY DEF SupersededInv, OneReportPastTheEnd
<1> QED
  BY <1>1, SupersededInit, SupersededStep, PTL DEF CalculatorSpec

-----------------------------------------------------------------------------
(***************************************************************************)
(* The instrument_info service.  Only a list of the service's own asset,   *)
(* read no earlier than the first one, can arrive when nobody refreshes    *)
(* for another asset; and what is cached was answered from such a list.    *)
(***************************************************************************)
Action == {"started", "refresh", "available"}

InstrumentList == [ asset : Asset, readAt : Int ]

RequestRecord ==
    {NoRequest}
        \cup [ phase : {"asked"}, action : Action, asset : Asset ]
        \cup [ phase : {"read"}, action : Action, list : InstrumentList ]

Pending(c) == requests[c] # NoRequest

InfoTypeOK ==
    /\ today \in Nat
    /\ service \in {"starting", "running", "failed"}
    /\ infos \in InstrumentList
    /\ requests \in [ Refresher -> RequestRecord ]
    /\ primedAt \in Int
    /\ foreign \in BOOLEAN

\* The request of a start is the only one while the service is starting, and
\* none is left of it later.
StartingInv ==
    /\ service = "starting" =>
          /\ DOMAIN cache = {}
          /\ \A c, d \in Refresher : Pending(c) /\ Pending(d) => c = d
    /\ service = "failed" => \A c \in Refresher : ~Pending(c)
    /\ \A c \in Refresher : Pending(c) =>
          (requests[c].action = "started" <=> service = "starting")

\* What may become the list of the service.
Usable(list) == list.asset = OwnAsset /\ primedAt <= list.readAt

ListInv ==
    /\ primedAt <= today
    /\ (service = "running" /\ ~foreign) => Usable(infos)
    /\ \A c \in Refresher :
          (Pending(c) /\ requests[c].action # "available" /\ ~foreign) =>
              /\ requests[c].phase = "asked" => requests[c].asset = OwnAsset
              /\ requests[c].phase = "read" =>
                    /\ requests[c].list.asset = OwnAsset
                    /\ service = "running" => primedAt <= requests[c].list.readAt
    /\ \A c \in Refresher :
          (Pending(c) /\ requests[c].phase = "read") => requests[c].list.readAt <= today

\* What an answer for ts has to contain, and what it may.
Wanted(s, ts) ==
    /\ AssetOf[s] = OwnAsset /\ SinceOf[s] <= primedAt
    /\ AliveAt(s, ts) /\ ExpiryOf[s] \in TermsOf[ts]

CacheInv ==
    \A ts \in DOMAIN cache :
        /\ cache[ts].ids \subseteq { s \in Instrument : ExpiryOf[s] \in TermsOf[ts] }
        /\ (service = "running" /\ ~foreign) =>
              \A s \in Instrument : Wanted(s, ts) => s \in cache[ts].ids

InfoInv == InfoTypeOK /\ StartingInv /\ ListInv /\ CacheInv

(***************************************************************************)
(* An answer is of the terms asked for, and complete as long as nobody     *)
(* refreshed for another asset.                                            *)
(***************************************************************************)
LEMMA AnswerOfTerms ==
    ASSUME InfoInv, NEW ts
    PROVE  InstrumentInfoAnswer(ts) \subseteq
              { s \in Instrument : ExpiryOf[s] \in TermsOf[ts] }
BY DEF InfoInv, CacheInv, InstrumentInfoAnswer, IsFresh,
       fetchAvailableInstruments, Listed

LEMMA AnswerIsComplete ==
    ASSUME InfoInv, service = "running", ~foreign, NEW ts,
           NEW s \in Instrument, Wanted(s, ts)
    PROVE  s \in InstrumentInfoAnswer(ts)
<1>1. CASE IsFresh(ts)
  BY <1>1 DEF InfoInv, CacheInv, IsFresh, InstrumentInfoAnswer
<1>2. CASE ~IsFresh(ts)
  <2>1. infos.asset = OwnAsset /\ primedAt <= infos.readAt
    BY DEF InfoInv, ListInv, Usable
  <2>2. SinceOf[s] \in Nat /\ primedAt \in Int /\ infos.readAt \in Int
    BY InstrumentInfoAssumption
    DEF InstrumentInfoAssumption, InfoInv, InfoTypeOK, InstrumentList
  <2>3. s \in Listed(infos)
    BY <2>1, <2>2 DEF Listed, Wanted
  <2>4. Available(s, ts, infos)
    BY DEF Available, Wanted, AliveAt
  <2> QED
    BY <1>2, <2>3, <2>4 DEF InstrumentInfoAnswer, fetchAvailableInstruments, Wanted
<1> QED
  BY <1>1, <1>2

LEMMA InfoInitially == InfoInit => InfoInv
<1> SUFFICES ASSUME InfoInit PROVE InfoInv
  OBVIOUS
<1> USE InstrumentInfoAssumption DEF InstrumentInfoAssumption
<1>1. PICK p \in Refresher :
          requests = [ c \in Refresher |->
                        IF c = p THEN Asked("started", OwnAsset) ELSE NoRequest ]
  BY DEF InfoInit
<1>2. Asked("started", OwnAsset) \in RequestRecord /\ NoRequest \in RequestRecord
  BY DEF Asked, RequestRecord, Action
<1>3. /\ Asked("started", OwnAsset).action = "started"
      /\ Asked("started", OwnAsset).phase = "asked"
      /\ Asked("started", OwnAsset).asset = OwnAsset
  BY DEF Asked
<1>4. infos \in InstrumentList
  BY DEF InfoInit, InstrumentList
<1>5. InfoTypeOK
  <2>1. requests \in [ Refresher -> RequestRecord ]
    BY <1>1, <1>2
  <2>2. foreign \in BOOLEAN
    BY Zenon DEF InfoInit
  <2>3. /\ today \in Nat /\ primedAt \in Int
        /\ service \in {"starting", "running", "failed"}
    BY DEF InfoInit
  <2> QED  BY <1>4, <2>1, <2>2, <2>3 DEF InfoTypeOK
<1>6. \A c \in Refresher : Pending(c) =>
         c = p /\ requests[c] = Asked("started", OwnAsset)
  BY <1>1 DEF Pending
<1>7. service = "starting" /\ DOMAIN cache = {} /\ primedAt = -1 /\ today = FirstMoment
  BY DEF InfoInit
<1>8. StartingInv
  BY <1>3, <1>6, <1>7 DEF StartingInv
<1>9. ListInv
  BY <1>3, <1>6, <1>7 DEF ListInv
<1>10. CacheInv
  BY <1>7 DEF CacheInv
<1> QED
  BY <1>5, <1>8, <1>9, <1>10 DEF InfoInv

(***************************************************************************)
(* One step of one caller's request; the others are left alone.            *)
(***************************************************************************)
LEMMA RequestsSet ==
    ASSUME InfoTypeOK, NEW c \in Refresher, NEW q \in RequestRecord,
           requests' = [ requests EXCEPT ![c] = q ]
    PROVE  /\ requests' \in [ Refresher -> RequestRecord ]
           /\ requests'[c] = q
           /\ \A d \in Refresher : d # c => requests'[d] = requests[d]
BY DEF InfoTypeOK

LEMMA AskStep ==
    ASSUME InfoInv, NEW c \in Refresher, NEW a \in Asset,
           NEW action \in {"refresh", "available"}, Ask(c, action, a)
    PROVE  InfoInv'
<1>1. /\ service = "running" /\ requests[c] = NoRequest
      /\ UNCHANGED <<today, service, infos, cache, primedAt>>
  BY DEF Ask
<1>2. Asked(action, a) \in RequestRecord
  BY DEF Asked, RequestRecord, Action
<1>3. /\ requests' \in [ Refresher -> RequestRecord ]
      /\ requests'[c] = Asked(action, a)
      /\ \A d \in Refresher : d # c => requests'[d] = requests[d]
  BY <1>2, RequestsSet DEF Ask, InfoInv
<1>4. /\ Asked(action, a).phase = "asked" /\ Asked(action, a).action = action
      /\ Asked(action, a).asset = a
  BY DEF Asked
<1>5. /\ foreign' \in BOOLEAN
      /\ ~foreign' => ~foreign
      /\ ~foreign' => (action = "refresh" => a = OwnAsset)
  <2>1. foreign' = (foreign \/ (action = "refresh" /\ a # OwnAsset))
    BY DEF Ask
  <2> QED  BY <2>1, Zenon
<1>6. InfoTypeOK'
  BY <1>1, <1>3, <1>5, Zenon DEF InfoInv, InfoTypeOK
<1>7. StartingInv'
  BY <1>1, <1>3, <1>4 DEF InfoInv, StartingInv, Pending
<1>8. ListInv'
  <2> USE DEF InfoInv, ListInv
  <2>1. primedAt' <= today'
    BY <1>1
  <2>2. (service' = "running" /\ ~foreign') => Usable(infos)'
    BY <1>1, <1>5 DEF Usable
  <2>3. ASSUME NEW d \in Refresher, Pending(d)', requests'[d].action # "available",
               ~foreign'
        PROVE  /\ requests'[d].phase = "asked" => requests'[d].asset = OwnAsset
               /\ requests'[d].phase = "read" =>
                    /\ requests'[d].list.asset = OwnAsset
                    /\ service' = "running" => primedAt' <= requests'[d].list.readAt
    <3>1. CASE d = c
      BY <1>3, <1>4, <1>5, <2>3, <3>1
    <3>2. CASE d # c
      <4>1. requests'[d] = requests[d] /\ Pending(d) /\ ~foreign
        BY <1>3, <1>5, <2>3, <3>2 DEF Pending
      <4> QED  BY <1>1, <2>3, <4>1
    <3> QED  BY <3>1, <3>2
  <2>4. ASSUME NEW d \in Refresher, Pending(d)', requests'[d].phase = "read"
        PROVE  requests'[d].list.readAt <= today'
    <3>1. d # c
      BY <1>3, <1>4, <2>4
    <3>2. requests'[d] = requests[d] /\ Pending(d)
      BY <1>3, <2>4, <3>1 DEF Pending
    <3> QED  BY <1>1, <2>4, <3>2
  <2> QED  BY <2>1, <2>2, <2>3, <2>4
<1>9. CacheInv'
  BY <1>1, <1>5 DEF InfoInv, CacheInv, Wanted
<1> QED
  BY <1>6, <1>7, <1>8, <1>9 DEF InfoInv

LEMMA ReadStep ==
    ASSUME InfoInv, NEW c \in Refresher, ProviderReads(c)
    PROVE  InfoInv'
<1> DEFINE list == [ asset |-> requests[c].asset, readAt |-> today ]
           q == [ phase |-> "read", action |-> requests[c].action, list |-> list ]
<1>1. /\ requests[c].phase = "asked"
      /\ requests' = [ requests EXCEPT ![c] = q ]
      /\ UNCHANGED <<today, service, infos, cache, primedAt, foreign>>
  BY DEF ProviderReads
<1>2. requests[c] \in [ phase : {"asked"}, action : Action, asset : Asset ]
  BY <1>1 DEF InfoInv, InfoTypeOK, RequestRecord, NoRequest
<1>3. /\ requests[c].action \in Action /\ requests[c].asset \in Asset
      /\ Pending(c)
  BY <1>1, <1>2 DEF Pending, NoRequest
<1>4. q \in RequestRecord
  BY <1>3 DEF RequestRecord, InstrumentList, InfoInv, InfoTypeOK
<1>5. /\ q.phase = "read" /\ q.action = requests[c].action
      /\ q.list.asset = requests[c].asset /\ q.list.readAt = today
  OBVIOUS
<1> HIDE DEF q, list
<1>6. /\ requests' \in [ Refresher -> RequestRecord ]
      /\ requests'[c] = q
      /\ \A d \in Refresher : d # c => requests'[d] = requests[d]
  BY <1>1, <1>4, RequestsSet DEF InfoInv
<1>7. \A d \in Refresher : Pending(d)' => /\ Pending(d)
                                          /\ requests'[d].action = requests[d].action
  BY <1>3, <1>5, <1>6 DEF Pending
<1>8. InfoTypeOK'
  BY <1>1, <1>6, Zenon DEF InfoInv, InfoTypeOK
<1>9. StartingInv'
  BY <1>1, <1>7 DEF InfoInv, StartingInv
<1>10. ListInv'
  <2> USE DEF InfoInv, ListInv
  <2>1. primedAt' <= today' /\ ((service' = "running" /\ ~foreign') => Usable(infos)')
    BY <1>1 DEF Usable
  <2>2. ASSUME NEW d \in Refresher, Pending(d)', requests'[d].action # "available",
               ~foreign'
        PROVE  /\ requests'[d].phase = "asked" => requests'[d].asset = OwnAsset
               /\ requests'[d].phase = "read" =>
                    /\ requests'[d].list.asset = OwnAsset
                    /\ service' = "running" => primedAt' <= requests'[d].list.readAt
    <3>1. Pending(d) /\ requests[d].action # "available" /\ ~foreign
      BY <1>1, <1>7, <2>2
    <3>2. CASE d = c
      BY <1>1, <1>5, <1>6, <3>1, <3>2
    <3>3. CASE d # c
      BY <1>1, <1>6, <3>1, <3>3
    <3> QED  BY <3>2, <3>3
  <2>3. ASSUME NEW d \in Refresher, Pending(d)', requests'[d].phase = "read"
        PROVE  requests'[d].list.readAt <= today'
    <3>1. CASE d = c
      BY <1>1, <1>5, <1>6, <3>1 DEF InfoTypeOK
    <3>2. CASE d # c
      BY <1>1, <1>6, <1>7, <2>3, <3>2
    <3> QED  BY <3>1, <3>2
  <2> QED  BY <2>1, <2>2, <2>3
<1>11. CacheInv'
  BY <1>1 DEF InfoInv, CacheInv, Wanted
<1> QED
  BY <1>8, <1>9, <1>10, <1>11 DEF InfoInv

(***************************************************************************)
(* What holds of the requests that are left when one is done with.         *)
(***************************************************************************)
LEMMA RequestDone ==
    ASSUME InfoInv, NEW c \in Refresher, Pending(c),
           requests' = [ requests EXCEPT ![c] = NoRequest ]
    PROVE  /\ requests' \in [ Refresher -> RequestRecord ]
           /\ \A d \in Refresher : Pending(d)' =>
                 /\ d # c /\ Pending(d) /\ requests'[d] = requests[d]
                 /\ service # "starting"
                 /\ requests[d].action # "started"
<1>1. NoRequest \in RequestRecord
  BY DEF RequestRecord
<1>2. /\ requests' \in [ Refresher -> RequestRecord ]
      /\ requests'[c] = NoRequest
      /\ \A d \in Refresher : d # c => requests'[d] = requests[d]
  BY <1>1, RequestsSet DEF InfoInv
<1> QED
  BY <1>2 DEF Pending, InfoInv, StartingInv

LEMMA ArrivesStep ==
    ASSUME InfoInv, NEW c \in Refresher, Arrives(c)
    PROVE  InfoInv'
<1>1. /\ requests[c].phase = "read"
      /\ requests' = [ requests EXCEPT ![c] = NoRequest ]
      /\ UNCHANGED <<today, cache, foreign>>
  BY DEF Arrives
<1>2. requests[c] \in [ phase : {"read"}, action : Action, list : InstrumentList ]
  BY <1>1 DEF InfoInv, InfoTypeOK, RequestRecord, NoRequest
<1>3. /\ requests[c].action \in Action /\ requests[c].list \in InstrumentList
      /\ requests[c].list.readAt \in Int
      /\ Pending(c)
  BY <1>1, <1>2 DEF Pending, NoRequest, InstrumentList
<1>4. /\ requests' \in [ Refresher -> RequestRecord ]
      /\ \A d \in Refresher : Pending(d)' =>
            /\ d # c /\ Pending(d) /\ requests'[d] = requests[d]
            /\ service # "starting"
            /\ requests[d].action # "started"
  BY <1>1, <1>3, RequestDone
<1>5. service # "failed" /\ requests[c].list.readAt <= today
  BY <1>1, <1>3 DEF InfoInv, StartingInv, ListInv
<1>6. CASE requests[c].action = "available"
  <2>1. UNCHANGED <<service, infos, primedAt>> /\ service = "running"
    BY <1>3, <1>5, <1>6 DEF Arrives, InfoInv, StartingInv, InfoTypeOK
  <2>2. InfoTypeOK'
    BY <1>1, <1>4, <2>1, Zenon DEF InfoInv, InfoTypeOK
  <2>3. StartingInv'
    BY <1>1, <1>4, <2>1 DEF InfoInv, StartingInv
  <2>4. ListInv'
    BY <1>1, <1>4, <2>1 DEF InfoInv, ListInv, Usable
  <2>5. CacheInv'
    BY <1>1, <2>1 DEF InfoInv, CacheInv, Wanted
  <2> QED  BY <2>2, <2>3, <2>4, <2>5 DEF InfoInv
<1>7. CASE requests[c].action # "available"
  <2>1. /\ infos' = requests[c].list /\ service' = "running"
        /\ service = "starting" => primedAt' = requests[c].list.readAt
        /\ service # "starting" => primedAt' = primedAt
    BY <1>7 DEF Arrives
  <2>2. primedAt' \in Int /\ primedAt' <= today'
    BY <1>1, <1>3, <1>5, <2>1 DEF InfoInv, InfoTypeOK, ListInv
  <2>3. InfoTypeOK'
    BY <1>1, <1>3, <1>4, <2>1, <2>2, Zenon DEF InfoInv, InfoTypeOK
  <2>4. StartingInv'
    BY <1>1, <1>4, <2>1 DEF InfoInv, StartingInv
  <2>5. ListInv'
    <3>1. ASSUME ~foreign PROVE Usable(infos)'
      <4>1. requests[c].list.asset = OwnAsset
        BY <1>1, <1>3, <1>7, <3>1 DEF InfoInv, ListInv
      <4>2. CASE service = "starting"
        BY <1>3, <2>1, <4>1, <4>2 DEF Usable
      <4>3. CASE service # "starting"
        <5>1. service = "running"
          BY <1>5, <4>3 DEF InfoInv, InfoTypeOK
        <5>2. primedAt <= requests[c].list.readAt
          BY <1>1, <1>3, <1>7, <3>1, <5>1 DEF InfoInv, ListInv
        <5> QED  BY <2>1, <4>1, <4>3, <5>2 DEF Usable
      <4> QED  BY <4>2, <4>3
    <3>2. ASSUME NEW d \in Refresher, Pending(d)'
          PROVE  /\ service = "running" /\ primedAt' = primedAt
                 /\ Pending(d) /\ requests'[d] = requests[d]
      BY <1>4, <1>5, <2>1, <3>2 DEF InfoInv, InfoTypeOK
    <3> QED  BY <1>1, <2>1, <2>2, <3>1, <3>2 DEF InfoInv, ListInv
  <2>6. CacheInv'
    <3>1. CASE service = "starting"
      BY <1>1, <3>1 DEF InfoInv, StartingInv, CacheInv
    <3>2. CASE service # "starting"
      <4>1. service = "running" /\ primedAt' = primedAt
        BY <1>5, <2>1, <3>2 DEF InfoInv, InfoTypeOK
      <4> QED  BY <1>1, <4>1 DEF InfoInv, CacheInv, Wanted
    <3> QED  BY <3>1, <3>2
  <2> QED  BY <2>3, <2>4, <2>5, <2>6 DEF InfoInv
<1> QED
  BY <1>6, <1>7

LEMMA FailsStep ==
    ASSUME InfoInv, NEW c \in Refresher, ProviderFails(c)
    PROVE  InfoInv'
<1>1. /\ Pending(c)
      /\ requests' = [ requests EXCEPT ![c] = NoRequest ]
      /\ UNCHANGED <<today, infos, cache, primedAt, foreign>>
  BY DEF ProviderFails, Pending
<1>2. /\ requests' \in [ Refresher -> RequestRecord ]
      /\ \A d \in Refresher : Pending(d)' =>
            /\ d # c /\ Pending(d) /\ requests'[d] = requests[d]
            /\ service # "starting"
            /\ requests[d].action # "started"
  BY <1>1, RequestDone
<1>3. /\ service = "starting" => service' = "failed"
      /\ service # "starting" => service' = service
  BY <1>1 DEF ProviderFails, InfoInv, StartingInv
<1>4. InfoTypeOK'
  <2>1. service' \in {"starting", "running", "failed"}
    BY <1>3 DEF InfoInv, InfoTypeOK
  <2> QED  BY <1>1, <1>2, <2>1, Zenon DEF InfoInv, InfoTypeOK
<1>5. StartingInv'
  BY <1>1, <1>2, <1>3 DEF InfoInv, StartingInv
<1>6. ListInv'
  BY <1>1, <1>2, <1>3 DEF InfoInv, ListInv, Usable
<1>7. CacheInv'
  BY <1>1, <1>3 DEF InfoInv, CacheInv, Wanted
<1> QED
  BY <1>4, <1>5, <1>6, <1>7 DEF InfoInv

LEMMA InstrumentsAnswered ==
    ASSUME InfoInv, NEW ts, NEW ids, AskInstruments(ts, ids)
    PROVE  InfoInv'
<1>1. /\ service = "running" /\ ids = InstrumentInfoAnswer(ts)
      /\ UNCHANGED <<today, service, infos, requests, primedAt, foreign>>
  BY DEF AskInstruments
<1>2. InfoTypeOK' /\ StartingInv' /\ ListInv'
  <2>1. InfoTypeOK'
    BY <1>1 DEF InfoInv, InfoTypeOK
  <2>2. StartingInv'
    BY <1>1 DEF InfoInv, StartingInv, Pending
  <2>3. ListInv'
    BY <1>1 DEF InfoInv, ListInv, Usable, Pending
  <2> QED  BY <2>1, <2>2, <2>3
<1>3. CacheInv'
  <2> SUFFICES ASSUME NEW t \in DOMAIN cache'
               PROVE  /\ cache'[t].ids \subseteq
                           { s \in Instrument : ExpiryOf[s] \in TermsOf[t] }
                      /\ (service = "running" /\ ~foreign) =>
                           \A s \in Instrument : Wanted(s, t) => s \in cache'[t].ids
    BY <1>1 DEF CacheInv, Wanted
  <2>1. \/ t \in DOMAIN cache /\ cache'[t] = cache[t]
        \/ t = ts /\ cache'[t] = [ ids |-> ids, since |-> today ]
    BY DEF AskInstruments
  <2>2. CASE t \in DOMAIN cache /\ cache'[t] = cache[t]
    BY <2>2 DEF InfoInv, CacheInv
  <2>3. CASE t = ts /\ cache'[t] = [ ids |-> ids, since |-> today ]
    <3>1. cache'[t].ids = InstrumentInfoAnswer(ts)
      BY <1>1, <2>3
    <3> QED  BY <2>3, <3>1, AnswerOfTerms, AnswerIsComplete
  <2> QED  BY <2>1, <2>2, <2>3
<1> QED
  BY <1>2, <1>3 DEF InfoInv

LEMMA InfoStep == InfoInv /\ [InfoNext]_infoVars => InfoInv'
<1> SUFFICES ASSUME InfoInv, [InfoNext]_infoVars PROVE InfoInv'
  OBVIOUS
<1>1. CASE TimePasses
  <2>1. /\ today' = today + 1
        /\ UNCHANGED <<service, infos, requests, cache, primedAt, foreign>>
    BY <1>1 DEF TimePasses
  <2>2. InfoTypeOK'
    <3>1. today' \in Nat
      BY <2>1 DEF InfoInv, InfoTypeOK
    <3> QED  BY <2>1, <3>1, Zenon DEF InfoInv, InfoTypeOK
  <2>3. StartingInv' /\ CacheInv'
    BY <2>1 DEF InfoInv, StartingInv, Pending, CacheInv, Wanted
  <2>4. ListInv'
    <3>1. \A c \in Refresher : (Pending(c) /\ requests[c].phase = "read") =>
             requests[c].list.readAt \in Int
      BY DEF InfoInv, InfoTypeOK, RequestRecord, InstrumentList, Pending
    <3> QED
      BY <2>1, <3>1 DEF InfoInv, InfoTypeOK, ListInv, Usable, Pending
  <2> QED  BY <2>2, <2>3, <2>4 DEF InfoInv
<1>2. CASE UNCHANGED infoVars
  BY <1>2 DEF infoVars, InfoInv, InfoTypeOK, StartingInv, ListInv, Usable,
              Pending, CacheInv, Wanted
<1> QED
  BY <1>1, <1>2, AskStep, ReadStep, ArrivesStep, FailsStep, InstrumentsAnswered DEF InfoNext

(***************************************************************************)
(* No answer of the service misses an instrument that was alive at the     *)
(* timestamp and listed when the service was primed, unless somebody has   *)
(* refreshed it for another asset.                                         *)
(***************************************************************************)
THEOREM NothingListedIsMissingAlways == InfoSpec => []NothingListedIsMissing
<1>1. InfoInv => NothingListedIsMissing
  BY AnswerIsComplete DEF NothingListedIsMissing, Wanted
<1> QED
  BY <1>1, InfoInitially, InfoStep, PTL DEF InfoSpec
-----------------------------------------------------------------------------
(***************************************************************************)
(* replay() and process() of the gateway.  Everything a replay streams or  *)
(* looks up is of one of its own two terms, so that what the shared cache  *)
(* has of such a term is of a replay that has the term as well.            *)
(***************************************************************************)
Begun(r) == replays[r] # NotBegun

HasTerm(q, e) == q \in Replay /\ Begun(q) /\ e \in TermsOf[replays[q].from]

AskingRecord(x) == x = [ phase |-> x.phase, from |-> x.from ]

StreamingRecord(x) ==
    x = [ phase |-> x.phase, from |-> x.from, symbols |-> x.symbols,
          second |-> x.second, open |-> x.open, near |-> x.near ]

ReplaysInv ==
    /\ DOMAIN replays = Replay /\ DOMAIN lastSent = Replay
    /\ \A r \in Replay : Begun(r) =>
          /\ replays[r].phase \in {"asking", "streaming", "bucket", "near",
                                   "finished", "failed"}
          /\ replays[r].from \in Timestamp
          /\ AskingRecord(replays[r]) \/ StreamingRecord(replays[r])
          /\ replays[r].phase \in {"streaming", "bucket", "near"} =>
                /\ StreamingRecord(replays[r])
                /\ \A s \in replays[r].symbols :
                      s \in Instrument /\ ExpiryOf[s] \in TermsOf[replays[r].from]

SharedInv ==
    \A s \in expiryMap : s \in DOMAIN cacher /\ HasTerm(cacher[s], ExpiryOf[s])

LookUpInv ==
    \A r \in Replay : replays[r].phase = "near" =>
        \A q \in replays[r].near : HasTerm(q, NearOf[replays[r].from])

SentInv ==
    \A r \in Replay : \A q \in lastSent[r] :
        Begun(r) /\ \E e \in TermsOf[replays[r].from] : HasTerm(q, e)

LegacyInv == InfoInv /\ ReplaysInv /\ SharedInv /\ LookUpInv /\ SentInv

\* A replay that has begun keeps its timestamp.
Keeps(r) == Begun(r) => Begun(r)' /\ replays'[r].from = replays[r].from

LEMMA TermsKept ==
    ASSUME \A r \in Replay : Keeps(r), NEW q, NEW e, HasTerm(q, e)
    PROVE  HasTerm(q, e)'
BY DEF Keeps, HasTerm

(***************************************************************************)
(* A step that only takes a replay to another phase, x, from one in which  *)
(* it has begun.                                                           *)
(***************************************************************************)
LEMMA PhaseOf ==
    ASSUME ReplaysInv, NEW r \in Replay, Begun(r), NEW x, x # "none"
    PROVE  LET y == To(r, x)
           IN  /\ DOMAIN y = Replay
               /\ \A q \in Replay \ {r} : y[q] = replays[q]
               /\ y[r].phase = x /\ y[r].from = replays[r].from
               /\ y[r] # NotBegun
               /\ AskingRecord(replays[r]) => AskingRecord(y[r])
               /\ StreamingRecord(replays[r]) =>
                     /\ StreamingRecord(y[r])
                     /\ y[r].symbols = replays[r].symbols
                     /\ y[r].near = replays[r].near
<1> DEFINE old == replays[r]
<1> PICK new : new = [ old EXCEPT !.phase = x ]
  OBVIOUS
<1>1. To(r, x) = [ replays EXCEPT ![r] = new ]
  BY DEF To
<1>2. r \in DOMAIN replays /\ DOMAIN replays = Replay
  BY DEF ReplaysInv
<1>3. /\ DOMAIN To(r, x) = Replay
      /\ \A q \in Replay \ {r} : To(r, x)[q] = replays[q]
      /\ To(r, x)[r] = new
  BY <1>1, <1>2
<1>4. AskingRecord(old) \/ StreamingRecord(old)
  BY DEF ReplaysInv
<1>5. ASSUME AskingRecord(old)
      PROVE  new = [ phase |-> x, from |-> old.from ]
  BY <1>5 DEF AskingRecord
<1>6. ASSUME StreamingRecord(old)
      PROVE  new = [ phase |-> x, from |-> old.from, symbols |-> old.symbols,
                     second |-> old.second, open |-> old.open, near |-> old.near ]
  BY <1>6 DEF StreamingRecord
<1> HIDE DEF old
<1>7. new.phase = x /\ new.from = old.from
  BY <1>4, <1>5, <1>6
<1>8. new # NotBegun
  BY <1>7 DEF NotBegun
<1>9. AskingRecord(old) => AskingRecord(new)
  BY <1>5 DEF AskingRecord
<1>10. StreamingRecord(old) =>
          /\ StreamingRecord(new)
          /\ new.symbols = old.symbols /\ new.near = old.near
  BY <1>6 DEF StreamingRecord
<1> QED
  BY <1>3, <1>7, <1>8, <1>9, <1>10 DEF old
LEMMA PhaseStep ==
    ASSUME LegacyInv, NEW r \in Replay, Begun(r),
           NEW x \in {"streaming", "finished", "failed"},
           x = "streaming" => replays[r].phase \in {"streaming", "bucket", "near"},
           replays' = To(r, x), UNCHANGED <<expiryMap, cacher>>
    PROVE  /\ \A q \in Replay : Keeps(q)
           /\ DOMAIN lastSent' = Replay => ReplaysInv'
           /\ SharedInv' /\ LookUpInv'
           /\ lastSent' = lastSent => SentInv'
<1>1. /\ DOMAIN replays' = Replay
      /\ \A q \in Replay \ {r} : replays'[q] = replays[q]
      /\ replays'[r].phase = x /\ replays'[r].from = replays[r].from
      /\ replays'[r] # NotBegun
      /\ AskingRecord(replays[r]) => AskingRecord(replays'[r])
      /\ StreamingRecord(replays[r]) =>
            /\ StreamingRecord(replays'[r])
            /\ replays'[r].symbols = replays[r].symbols
  BY PhaseOf DEF LegacyInv
<1>2. \A q \in Replay : Keeps(q)
  BY <1>1 DEF Keeps, Begun
<1>3. ASSUME DOMAIN lastSent' = Replay PROVE ReplaysInv'
  <2> SUFFICES ASSUME NEW q \in Replay, Begun(q)'
               PROVE  /\ replays'[q].phase \in {"asking", "streaming", "bucket", "near",
                                                "finished", "failed"}
                      /\ replays'[q].from \in Timestamp
                      /\ AskingRecord(replays'[q]) \/ StreamingRecord(replays'[q])
                      /\ replays'[q].phase \in {"streaming", "bucket", "near"} =>
                            /\ StreamingRecord(replays'[q])
                            /\ \A s \in replays'[q].symbols :
                                  s \in Instrument
                                  /\ ExpiryOf[s] \in TermsOf[replays'[q].from]
    BY <1>1, <1>3 DEF ReplaysInv, AskingRecord, StreamingRecord
  <2>1. CASE q = r
    BY <1>1, <2>1 DEF LegacyInv, ReplaysInv
  <2>2. CASE q # r
    <3>1. replays'[q] = replays[q] /\ Begun(q)
      BY <1>1, <2>2 DEF Begun
    <3> QED  BY <3>1 DEF LegacyInv, ReplaysInv
  <2> QED  BY <2>1, <2>2
<1>4. SharedInv'
  BY <1>2, TermsKept DEF LegacyInv, SharedInv
<1>5. LookUpInv'
  <2> SUFFICES ASSUME NEW p \in Replay, replays'[p].phase = "near",
                      NEW q \in replays'[p].near
               PROVE  HasTerm(q, NearOf[replays[p].from])'
    BY DEF LookUpInv
  <2>1. replays'[p] = replays[p]
    BY <1>1
  <2> QED  BY <1>2, <2>1, TermsKept DEF LegacyInv, LookUpInv
<1>6. ASSUME lastSent' = lastSent PROVE SentInv'
  BY <1>2, <1>6, TermsKept DEF LegacyInv, SentInv, Keeps
<1> QED
  BY <1>2, <1>3, <1>4, <1>5, <1>6

(***************************************************************************)
(* A step of one replay that goes on streaming: its record becomes new,    *)
(* with the timestamp of the old one.                                      *)
(***************************************************************************)
LEMMA StreamStep ==
    ASSUME LegacyInv, NEW r \in Replay, NEW new,
           DOMAIN replays' = Replay,
           \A q \in Replay \ {r} : replays'[q] = replays[q],
           replays'[r] = new,
           new.phase \in {"streaming", "bucket", "near"}, StreamingRecord(new),
           new.from \in Timestamp,
           Begun(r) => new.from = replays[r].from,
           \A s \in new.symbols :
              s \in Instrument /\ ExpiryOf[s] \in TermsOf[new.from],
           new.phase = "near" => \A q \in new.near : HasTerm(q, NearOf[new.from]),
           lastSent' = lastSent
    PROVE  /\ \A q \in Replay : Keeps(q)
           /\ ReplaysInv' /\ LookUpInv' /\ SentInv'
<1>1. new # NotBegun
  BY DEF NotBegun
<1>2. \A q \in Replay : Keeps(q)
  BY <1>1 DEF Keeps, Begun
<1>3. ReplaysInv'
  <2> SUFFICES ASSUME NEW q \in Replay, Begun(q)'
               PROVE  /\ replays'[q].phase \in {"asking", "streaming", "bucket", "near",
                                                "finished", "failed"}
                      /\ replays'[q].from \in Timestamp
                      /\ AskingRecord(replays'[q]) \/ StreamingRecord(replays'[q])
                      /\ replays'[q].phase \in {"streaming", "bucket", "near"} =>
                            /\ StreamingRecord(replays'[q])
                            /\ \A s \in replays'[q].symbols :
                                  s \in Instrument
                                  /\ ExpiryOf[s] \in TermsOf[replays'[q].from]
    BY DEF LegacyInv, ReplaysInv, AskingRecord, StreamingRecord
  <2>1. CASE q = r
    BY <2>1
  <2>2. CASE q # r
    <3>1. replays'[q] = replays[q] /\ Begun(q)
      BY <2>2 DEF Begun
    <3> QED  BY <3>1 DEF LegacyInv, ReplaysInv
  <2> QED  BY <2>1, <2>2
<1>4. LookUpInv'
  <2> SUFFICES ASSUME NEW p \in Replay, replays'[p].phase = "near",
                      NEW q \in replays'[p].near
               PROVE  HasTerm(q, NearOf[replays[p].from])'
    BY DEF LookUpInv
  <2>1. CASE p = r
    <3>1. HasTerm(q, NearOf[new.from])
      BY <2>1
    <3> QED  BY <1>2, <2>1, <3>1, TermsKept
  <2>2. CASE p # r
    <3>1. replays'[p] = replays[p] /\ HasTerm(q, NearOf[replays[p].from])
      BY <2>2 DEF LegacyInv, LookUpInv
    <3> QED  BY <1>2, <3>1, TermsKept
  <2> QED  BY <2>1, <2>2
<1>5. SentInv'
  BY <1>2, TermsKept DEF LegacyInv, SentInv, Keeps
<1> QED
  BY <1>2, <1>3, <1>4, <1>5

LEMMA LegacyInitially == LegacyInit => LegacyInv
<1> SUFFICES ASSUME LegacyInit PROVE LegacyInv
  OBVIOUS
<1>1. InfoInv
  BY InfoInitially DEF LegacyInit
<1>2. /\ \A r \in Replay : replays[r] = NotBegun /\ lastSent[r] = {}
      /\ DOMAIN replays = Replay /\ DOMAIN lastSent = Replay /\ expiryMap = {}
  BY DEF LegacyInit, NotSent
<1> QED
  BY <1>1, <1>2 DEF LegacyInv, ReplaysInv, Begun, SharedInv, LookUpInv, SentInv,
                    NotBegun

LEMMA BeginReplayStep ==
    ASSUME LegacyInv, NEW r \in Replay, NEW ts \in Timestamp, BeginReplay(r, ts)
    PROVE  LegacyInv'
<1> DEFINE new == [ phase |-> "asking", from |-> ts ]
<1>1. /\ ~Begun(r) /\ new # NotBegun /\ new.from = ts /\ new.phase = "asking"
      /\ AskingRecord(new)
      /\ UNCHANGED <<expiryMap, cacher, lastSent>> /\ UNCHANGED infoVars
  BY DEF BeginReplay, Begun, NotBegun, AskingRecord
<1>2. /\ DOMAIN replays' = Replay /\ replays'[r] = new
      /\ \A q \in Replay \ {r} : replays'[q] = replays[q]
  BY DEF BeginReplay, LegacyInv, ReplaysInv
<1> HIDE DEF new
<1>3. \A q \in Replay : Keeps(q)
  BY <1>1, <1>2 DEF Keeps, Begun
<1>4. InfoInv'
  BY <1>1, InfoStep DEF LegacyInv
<1>5. ReplaysInv'
  <2> SUFFICES ASSUME NEW q \in Replay, Begun(q)'
               PROVE  /\ replays'[q].phase \in {"asking", "streaming", "bucket", "near",
                                                "finished", "failed"}
                      /\ replays'[q].from \in Timestamp
                      /\ AskingRecord(replays'[q]) \/ StreamingRecord(replays'[q])
                      /\ replays'[q].phase \in {"streaming", "bucket", "near"} =>
                            /\ StreamingRecord(replays'[q])
                            /\ \A s \in replays'[q].symbols :
                                  s \in Instrument
                                  /\ ExpiryOf[s] \in TermsOf[replays'[q].from]
    BY <1>1, <1>2 DEF LegacyInv, ReplaysInv, AskingRecord, StreamingRecord
  <2>1. CASE q = r
    BY <1>1, <1>2, <2>1
  <2>2. CASE q # r
    <3>1. replays'[q] = replays[q] /\ Begun(q)
      BY <1>2, <2>2 DEF Begun
    <3> QED  BY <3>1 DEF LegacyInv, ReplaysInv
  <2> QED  BY <2>1, <2>2
<1>6. SharedInv'
  BY <1>1, <1>3, TermsKept DEF LegacyInv, SharedInv
<1>7. LookUpInv'
  <2> SUFFICES ASSUME NEW p \in Replay, replays'[p].phase = "near",
                      NEW q \in replays'[p].near
               PROVE  HasTerm(q, NearOf[replays[p].from])'
    BY DEF LookUpInv
  <2>1. replays'[p] = replays[p]
    BY <1>1, <1>2
  <2> QED  BY <1>3, <2>1, TermsKept DEF LegacyInv, LookUpInv
<1>8. SentInv'
  BY <1>1, <1>3, TermsKept DEF LegacyInv, SentInv, Keeps
<1> QED
  BY <1>4, <1>5, <1>6, <1>7, <1>8 DEF LegacyInv

(***************************************************************************)
(* The answer of instrument_info is of the terms of the replay.            *)
(***************************************************************************)
LEMMA GetsInstrumentsStep ==
    ASSUME LegacyInv, NEW r \in Replay, GetsInstruments(r)
    PROVE  LegacyInv'
<1>1. PICK ids \in SUBSET Instrument :
          /\ AskInstruments(replays[r].from, ids)
          /\ replays' = [ replays EXCEPT ![r] =
                [ phase |-> "streaming", from |-> replays[r].from, symbols |-> ids,
                  second |-> 0, open |-> [ s \in ids |-> NoBucket ], near |-> {} ] ]
  BY DEF GetsInstruments
<1>2. PICK new : new = [ phase |-> "streaming", from |-> replays[r].from,
                         symbols |-> ids, second |-> 0,
                         open |-> [ s \in ids |-> NoBucket ], near |-> {} ]
  OBVIOUS
<1>3. /\ new.phase = "streaming" /\ new.from = replays[r].from
      /\ new.symbols = ids /\ StreamingRecord(new)
  BY <1>2 DEF StreamingRecord
<1>4. Begun(r) /\ replays[r].from \in Timestamp
  BY DEF GetsInstruments, Begun, NotBegun, LegacyInv, ReplaysInv
<1>5. /\ DOMAIN replays' = Replay /\ replays'[r] = new
      /\ \A q \in Replay \ {r} : replays'[q] = replays[q]
  BY <1>1, <1>2 DEF LegacyInv, ReplaysInv
<1>6. \A s \in ids : s \in Instrument /\ ExpiryOf[s] \in TermsOf[replays[r].from]
  <2>1. ids = InstrumentInfoAnswer(replays[r].from)
    BY <1>1 DEF AskInstruments
  <2> QED  BY <2>1, AnswerOfTerms DEF LegacyInv
<1>7. UNCHANGED <<expiryMap, cacher, lastSent>>
  BY DEF GetsInstruments
<1>8. /\ \A q \in Replay : Keeps(q)
      /\ ReplaysInv' /\ LookUpInv' /\ SentInv'
  BY <1>3, <1>4, <1>5, <1>6, <1>7, StreamStep
<1>9. InfoInv'
  BY <1>1, InstrumentsAnswered DEF LegacyInv
<1>10. SharedInv'
  BY <1>7, <1>8, TermsKept DEF LegacyInv, SharedInv
<1> QED
  BY <1>8, <1>9, <1>10 DEF LegacyInv

LEMMA SummaryStep ==
    ASSUME LegacyInv, NEW r \in Replay, NEW s \in Instrument, NEW k \in Int,
           SummaryOf(r, s, k)
    PROVE  LegacyInv'
<1> DEFINE old == replays[r]
           closes == old.open[s] # NoBucket /\ old.open[s] < k
           next == IF closes THEN "bucket" ELSE "streaming"
<1>1. /\ old.phase = "streaming" /\ s \in old.symbols
      /\ expiryMap' = expiryMap \cup {s}
      /\ cacher' = [ x \in DOMAIN cacher \cup {s} |->
                       IF x = s THEN r ELSE cacher[x] ]
      /\ replays' = [ replays EXCEPT
              ![r].phase = next, ![r].second = k, ![r].open[s] = k ]
      /\ lastSent' = lastSent /\ UNCHANGED infoVars
  BY DEF SummaryOf
<1>2. /\ StreamingRecord(old) /\ old.from \in Timestamp /\ Begun(r)
      /\ \A x \in old.symbols : x \in Instrument /\ ExpiryOf[x] \in TermsOf[old.from]
  BY <1>1 DEF LegacyInv, ReplaysInv, Begun, NotBegun
<1>3. next \in {"streaming", "bucket"}
  OBVIOUS
<1> HIDE DEF closes, next
<1>4. PICK open : open = [ old.open EXCEPT ![s] = k ]
  OBVIOUS
<1>5. PICK new : new = [ phase |-> next, from |-> old.from, symbols |-> old.symbols,
                         second |-> k, open |-> open, near |-> old.near ]
  OBVIOUS
<1>6. /\ new.phase = next /\ new.from = old.from /\ new.symbols = old.symbols
      /\ StreamingRecord(new)
  BY <1>5 DEF StreamingRecord
<1>7. /\ DOMAIN replays' = Replay /\ replays'[r] = new
      /\ \A q \in Replay \ {r} : replays'[q] = replays[q]
  BY <1>1, <1>2, <1>4, <1>5 DEF LegacyInv, ReplaysInv, StreamingRecord
<1>8. /\ \A q \in Replay : Keeps(q)
      /\ ReplaysInv' /\ LookUpInv' /\ SentInv'
  BY <1>1, <1>2, <1>3, <1>6, <1>7, StreamStep
<1>9. SharedInv'
  <2> SUFFICES ASSUME NEW x \in expiryMap'
               PROVE  x \in DOMAIN cacher' /\ HasTerm(cacher[x], ExpiryOf[x])'
    BY DEF SharedInv
  <2>1. CASE x = s
    <3>1. x \in DOMAIN cacher' /\ cacher'[x] = r
      BY <1>1, <2>1
    <3>2. HasTerm(r, ExpiryOf[x])
      BY <1>1, <1>2, <2>1 DEF HasTerm
    <3> QED  BY <1>8, <3>1, <3>2, TermsKept
  <2>2. CASE x # s
    <3>1. x \in DOMAIN cacher /\ HasTerm(cacher[x], ExpiryOf[x])
      BY <1>1, <2>2 DEF LegacyInv, SharedInv
    <3>2. x \in DOMAIN cacher' /\ cacher'[x] = cacher[x]
      BY <1>1, <2>2, <3>1
    <3> QED  BY <1>8, <3>1, <3>2, TermsKept
  <2> QED  BY <2>1, <2>2
<1>10. InfoInv'
  BY <1>1, InfoStep DEF LegacyInv
<1> QED
  BY <1>8, <1>9, <1>10 DEF LegacyInv

(***************************************************************************)
(* What a look-up of one of the replay's terms finds.                      *)
(***************************************************************************)
LEMMA FetchedHaveTheTerm ==
    ASSUME LegacyInv, NEW e
    PROVE  \A q \in fetchOptionSummaries(e) : HasTerm(q, e)
BY DEF LegacyInv, SharedInv, fetchOptionSummaries

LEMMA FetchNearStep ==
    ASSUME LegacyInv, NEW r \in Replay, FetchNear(r)
    PROVE  LegacyInv'
<1> DEFINE old == replays[r]
           near == fetchOptionSummaries(NearOf[old.from])
<1>1. /\ old.phase = "bucket"
      /\ replays' = [ To(r, "near") EXCEPT ![r].near = near ]
      /\ UNCHANGED <<expiryMap, cacher, lastSent>> /\ UNCHANGED infoVars
  BY DEF FetchNear
<1>2. /\ StreamingRecord(old) /\ old.from \in Timestamp /\ Begun(r)
      /\ \A x \in old.symbols : x \in Instrument /\ ExpiryOf[x] \in TermsOf[old.from]
  BY <1>1 DEF LegacyInv, ReplaysInv, Begun, NotBegun
<1>3. \A q \in near : HasTerm(q, NearOf[old.from])
  BY FetchedHaveTheTerm
<1> HIDE DEF near
<1>4. PICK mid : mid = To(r, "near")
  OBVIOUS
<1>5. /\ DOMAIN mid = Replay
      /\ \A q \in Replay \ {r} : mid[q] = replays[q]
      /\ mid[r].phase = "near" /\ mid[r].from = old.from
      /\ StreamingRecord(mid[r])
      /\ mid[r].symbols = old.symbols
  BY <1>2, <1>4, PhaseOf DEF LegacyInv
<1>6. PICK new : new = [ phase |-> "near", from |-> old.from, symbols |-> old.symbols,
                         second |-> mid[r].second, open |-> mid[r].open, near |-> near ]
  OBVIOUS
<1>7. /\ new.phase = "near" /\ new.from = old.from /\ new.symbols = old.symbols
      /\ new.near = near /\ StreamingRecord(new)
  BY <1>6 DEF StreamingRecord
<1>8. /\ DOMAIN replays' = Replay /\ replays'[r] = new
      /\ \A q \in Replay \ {r} : replays'[q] = replays[q]
  BY <1>1, <1>4, <1>5, <1>6 DEF StreamingRecord
<1>9. /\ \A q \in Replay : Keeps(q)
      /\ ReplaysInv' /\ LookUpInv' /\ SentInv'
  BY <1>1, <1>2, <1>3, <1>7, <1>8, StreamStep
<1>10. SharedInv' /\ InfoInv'
  BY <1>1, <1>9, TermsKept, InfoStep DEF LegacyInv, SharedInv
<1> QED
  BY <1>9, <1>10 DEF LegacyInv

(***************************************************************************)
(* An index that is sent is of the two terms of its replay.                *)
(***************************************************************************)
LEMMA SendStep ==
    ASSUME LegacyInv, NEW r \in Replay, FetchNextAndSend(r)
    PROVE  LegacyInv'
<1> DEFINE from == replays[r].from
<1>1. /\ replays[r].phase = "near" /\ replays' = To(r, "streaming")
      /\ lastSent' = [ lastSent EXCEPT ![r] =
                         replays[r].near \cup fetchOptionSummaries(NextOf(from)) ]
      /\ UNCHANGED <<expiryMap, cacher>> /\ UNCHANGED infoVars
  BY DEF FetchNextAndSend
<1>2. Begun(r) /\ from \in Timestamp /\ r \in DOMAIN lastSent
      /\ DOMAIN lastSent = Replay
  BY <1>1 DEF LegacyInv, ReplaysInv, Begun, NotBegun
<1>3. NearOf[from] \in TermsOf[from] /\ NextOf(from) \in TermsOf[from]
  BY <1>2, LegacyReplayAssumption DEF LegacyReplayAssumption, NextOf
<1>4. /\ \A q \in replays[r].near : HasTerm(q, NearOf[from])
      /\ \A q \in fetchOptionSummaries(NextOf(from)) : HasTerm(q, NextOf(from))
  BY <1>1, FetchedHaveTheTerm DEF LegacyInv, LookUpInv
<1> HIDE DEF from
<1>5. /\ \A q \in Replay : Keeps(q)
      /\ ReplaysInv' /\ SharedInv' /\ LookUpInv'
  BY <1>1, <1>2, PhaseStep
<1>6. SentInv'
  <2> SUFFICES ASSUME NEW p \in Replay, NEW q \in lastSent'[p]
               PROVE  /\ Begun(p)'
                      /\ \E e \in TermsOf[replays'[p].from] :
                            q \in Replay /\ Begun(q)' /\ e \in TermsOf[replays'[q].from]
    BY DEF SentInv, HasTerm
  <2>1. Begun(p) /\ \E e \in TermsOf[replays[p].from] : HasTerm(q, e)
    <3>1. CASE p = r
      BY <1>1, <1>2, <1>3, <1>4, <3>1 DEF from
    <3>2. CASE p # r
      BY <1>1, <3>2 DEF LegacyInv, SentInv
    <3> QED  BY <3>1, <3>2
  <2> QED  BY <1>5, <2>1 DEF Keeps, HasTerm
<1>7. InfoInv'
  BY <1>1, InfoStep DEF LegacyInv
<1> QED
  BY <1>5, <1>6, <1>7 DEF LegacyInv

LEMMA LegacyStep == LegacyInv /\ [LegacyNext]_<<infoVars, legacyVars>> => LegacyInv'
<1> SUFFICES ASSUME LegacyInv, [LegacyNext]_<<infoVars, legacyVars>>
             PROVE  LegacyInv'
  OBVIOUS
<1>1. ASSUME [InfoNext]_infoVars, UNCHANGED <<replays, expiryMap, cacher, lastSent>>
      PROVE  LegacyInv'
  <2>1. InfoInv'
    BY <1>1, InfoStep DEF LegacyInv
  <2> QED
    BY <1>1, <2>1 DEF LegacyInv, ReplaysInv, Begun, AskingRecord, StreamingRecord,
                      SharedInv, HasTerm, LookUpInv, SentInv
<1>2. ASSUME NEW r \in Replay, NEW x \in {"streaming", "finished", "failed"},
             replays[r].phase \in {"asking", "streaming", "bucket", "near"},
             x = "streaming" => replays[r].phase = "near",
             replays' = To(r, x),
             UNCHANGED <<expiryMap, cacher, lastSent>>, UNCHANGED infoVars
      PROVE  LegacyInv'
  <2>1. Begun(r)
    BY <1>2 DEF Begun, NotBegun
  <2>2. InfoInv'
    BY <1>2, InfoStep DEF LegacyInv
  <2>3. DOMAIN lastSent' = Replay /\ lastSent' = lastSent
    BY <1>2 DEF LegacyInv, ReplaysInv
  <2>4. ReplaysInv' /\ SharedInv' /\ LookUpInv' /\ SentInv'
    BY <1>2, <2>1, <2>3, PhaseStep
  <2> QED  BY <2>2, <2>4 DEF LegacyInv
<1>3. CASE InfoNext /\ UNCHANGED legacyVars
  BY <1>1, <1>3 DEF legacyVars
<1>4. ASSUME NEW r \in Replay, ReplayFails(r) \/ FetchThrows(r) \/ SendFails(r)
      PROVE  LegacyInv'
  BY <1>2, <1>4 DEF ReplayFails, FetchThrows, SendFails
<1>5. ASSUME NEW r \in Replay, FetchNextAndSkip(r) \/ FinishProcess(r)
      PROVE  LegacyInv'
  BY <1>2, <1>5 DEF FetchNextAndSkip, FinishProcess
<1>6. ASSUME NEW r \in Replay, LegacyHangUp(r)
      PROVE  LegacyInv'
  BY <1>1, <1>6 DEF LegacyHangUp
<1>7. ASSUME NEW r \in Replay, NEW s \in Instrument, NEW k \in 0 .. LastSecond,
             SummaryOf(r, s, k)
      PROVE  LegacyInv'
  BY <1>7, SummaryStep
<1>8. CASE UNCHANGED <<infoVars, legacyVars>>
  BY <1>1, <1>8 DEF legacyVars
<1> QED
  BY <1>3, <1>4, <1>5, <1>6, <1>7, <1>8, BeginReplayStep, GetsInstrumentsStep,
     FetchNearStep, SendStep
  DEF LegacyNext

(***************************************************************************)
(* A replay that has no term in common with any other one sends indexes of *)
(* its own summaries only, although all of them share one cache.           *)
(***************************************************************************)
THEOREM OwnEvidenceUnlessSharedAlways == LegacySpec => []OwnEvidenceUnlessShared
<1>1. LegacyInv => OwnEvidenceUnlessShared
  <2> SUFFICES ASSUME LegacyInv, NEW r \in Replay,
                      \A q \in Replay \ {r} : ~SharesTerms(r, q),
                      NEW q \in lastSent[r]
               PROVE  q = r
    BY DEF OwnEvidenceUnlessShared
  <2>1. Begun(r) /\ q \in Replay /\ Begun(q)
        /\ TermsOf[replays[r].from] \cap TermsOf[replays[q].from] # {}
    BY DEF LegacyInv, SentInv, HasTerm
  <2> QED  BY <2>1 DEF SharesTerms, Begun
<1> QED
  BY <1>1, LegacyInitially, LegacyStep, PTL DEF LegacySpec

-----------------------------------------------------------------------------
(***************************************************************************)
(* The final book of one term.  The order of the book is that of a CHOOSE, *)
(* so that there is one has to be proved: the rank of an entry numbers     *)
(* them.  The widths are added up by recursion, which has no induction     *)
(* here; the first place where the total would be wrong is looked at       *)
(* instead.                                                                *)
(***************************************************************************)
\* A set of numbers has a least one: what there is of induction, for "the first
\* place where it goes wrong".
LEMMA NaturalsHaveALeast ==
    ASSUME NEW S \in SUBSET Nat, S # {}
    PROVE  \E m \in S : \A x \in S : m <= x
<1>1. IsWellFoundedOn(OpToRel(<, Nat), Nat)
  BY NatLessThanWellFounded
<1>2. PICK m \in S : \A x \in S : ~(<<x, m>> \in OpToRel(<, Nat))
  BY <1>1, WFMin
<1>3. \A x \in S : <<x, m>> \in OpToRel(<, Nat) <=> x < m
  BY DEF OpToRel
<1>4. \A x \in S : ~(x < m)
  BY <1>2, <1>3, Zenon
<1> QED
  BY <1>4

\* f[i] is what has been added up after i of the n values of D.
Accumulation(f, D, n) == f = [ i \in 0 .. n |-> IF i = 0 THEN 0 ELSE f[i - 1] + D[i] ]

\* D is twice the widths of the strikes K, as DeltaK has them.
WidthsOf(K, D, n) ==
    /\ D[1] = 2 * (K[2] - K[1])
    /\ D[n] = 2 * (K[n] - K[n - 1])
    /\ \A i \in 2 .. n - 1 : D[i] = K[i + 1] - K[i - 1]

\* What twice the widths should add up to.
RangeOf(K, n) == 2 * (K[n] - K[1]) + (K[2] - K[1]) + (K[n] - K[n - 1])

(***************************************************************************)
(* What an accumulation in the order of a book adds up to, given what it   *)
(* should be after each entry.                                             *)
(***************************************************************************)
LEMMA SumUpTo ==
    ASSUME NEW n \in Nat,
           NEW D, \A i \in 1 .. n : D[i] \in Int,
           NEW total, \A i \in 0 .. n : total[i] \in Int,
           total[0] = 0,
           \A i \in 1 .. n : total[i] = total[i - 1] + D[i],
           NEW f, Accumulation(f, D, n)
    PROVE  f[n] = total[n]
<1> DEFINE Wrong == { i \in 0 .. n : f[i] # total[i] }
<1>1. \A i \in 0 .. n : f[i] = IF i = 0 THEN 0 ELSE f[i - 1] + D[i]
  BY DEF Accumulation
<1>2. SUFFICES ASSUME Wrong # {} PROVE FALSE
  OBVIOUS
<1>3. Wrong \in SUBSET Nat
  OBVIOUS
<1>4. PICK m \in Wrong : \A x \in Wrong : m <= x
  BY <1>2, <1>3, NaturalsHaveALeast
<1>5. m \in 0 .. n /\ f[m] # total[m]
  OBVIOUS
<1>6. m # 0
  BY <1>1, <1>5
<1>7. m - 1 \in 0 .. n /\ m \in 1 .. n /\ ~(m <= m - 1)
  BY <1>5, <1>6
<1>8. m - 1 \notin Wrong
  BY <1>4, <1>7
<1>9. f[m - 1] = total[m - 1]
  BY <1>7, <1>8
<1>10. f[m] = f[m - 1] + D[m]
  BY <1>1, <1>5, <1>6
<1> QED
  BY <1>5, <1>7, <1>9, <1>10

\* What contributionGet should have added up after each entry but the last is
\* the next two strikes and a constant; after the last it is the range.
LEMMA TelescopingTotals ==
    ASSUME NEW n \in Nat, n >= 2, NEW K \in [ 1 .. n -> Nat ], NEW D, WidthsOf(K, D, n)
    PROVE  \E total : /\ Accumulation(total, D, n)
                      /\ \A i \in 0 .. n : total[i] \in Int
                      /\ total[n] = RangeOf(K, n)
<1> USE DEF WidthsOf
<1>1. \A i \in 1 .. n : K[i] \in Int
  OBVIOUS
<1>2. K[1] \in Int /\ K[2] \in Int /\ K[n] \in Int /\ K[n - 1] \in Int
  BY <1>1
<1>3. PICK c \in Int : c = K[2] - 3 * K[1]
  BY <1>2
<1>4. PICK sum \in Int : sum = 2 * (K[n] - K[1]) + (K[2] - K[1]) + (K[n] - K[n - 1])
  BY <1>2
<1> DEFINE total == [ i \in 0 .. n |->
                        IF i = 0 THEN 0 ELSE IF i = n THEN sum ELSE c + (K[i] + K[i + 1]) ]
<1>5. total[0] = 0 /\ total[n] = sum
  OBVIOUS
<1>6. ASSUME NEW i \in 1 .. n - 1 PROVE total[i] = c + (K[i] + K[i + 1])
  OBVIOUS
<1>7. total = [ i \in 0 .. n |-> total[i] ]
  OBVIOUS
<1> HIDE DEF total
<1>8. \A i \in 0 .. n : i = 0 \/ i = n \/ i \in 1 .. n - 1
  OBVIOUS
<1>9. ASSUME NEW i \in 0 .. n PROVE total[i] \in Int
  <2>1. ASSUME i \in 1 .. n - 1 PROVE total[i] \in Int
    <3>1. PICK a \in Int : a = K[i]
      BY <1>1, <2>1
    <3>2. i + 1 \in 1 .. n
      BY <2>1
    <3>3. PICK b \in Int : b = K[i + 1]
      BY <1>1, <3>2
    <3>4. total[i] = c + (a + b)
      BY <1>6, <2>1, <3>1, <3>3
    <3> QED  BY <3>4
  <2> QED  BY <1>5, <1>8, <2>1
<1>10. ASSUME NEW i \in 1 .. n PROVE total[i] = total[i - 1] + D[i]
  <2>1. CASE i = 1
    <3>1. n - 1 >= 1 /\ 1 + 1 = 2 /\ i - 1 = 0
      BY <2>1
    <3>2. 1 \in 1 .. n - 1
      BY <3>1
    <3>3. total[1] = c + (K[1] + K[2])
      BY <1>6, <3>1, <3>2
    <3>4. c + (K[1] + K[2]) = 0 + 2 * (K[2] - K[1])
      BY <1>2, <1>3
    <3> QED  BY <1>5, <2>1, <3>1, <3>3, <3>4
  <2>2. CASE i # 1 /\ i = n
    <3>1. n - 1 \in 1 .. n - 1 /\ (n - 1) + 1 = n
      BY <2>2
    <3>2. total[n - 1] = c + (K[n - 1] + K[n])
      BY <1>6, <3>1
    <3>3. PICK p \in Int, q \in Int, r \in Int, t \in Int :
                 p = K[n - 1] /\ q = K[n] /\ r = K[1] /\ t = K[2]
      BY <1>2
    <3>4. c = t - 3 * r /\ sum = 2 * (q - r) + (t - r) + (q - p)
      BY <1>3, <1>4, <3>3
    <3>5. sum = (c + (p + q)) + 2 * (q - p)
      <4> HIDE <3>3
      <4>1. p \in Int /\ q \in Int /\ r \in Int /\ t \in Int
        BY <3>3
      <4>2. t - 3 * r = t - (r + r + r) /\ 2 * (q - r) = (q - r) + (q - r) /\ 2 * (q - p) = (q - p) + (q - p)
        BY <4>1
      <4> QED  BY <3>4, <4>1, <4>2
    <3>6. sum = total[n - 1] + 2 * (q - p) /\ D[n] = 2 * (q - p)
      BY <3>2, <3>3, <3>5
    <3> QED  BY <1>5, <2>2, <3>6
  <2>3. CASE i \in 2 .. n - 1
    <3>1. i - 1 \in 1 .. n - 1 /\ (i - 1) + 1 = i /\ i \in 1 .. n - 1 /\ i + 1 \in 1 .. n
      BY <2>3
    <3>2. total[i - 1] = c + (K[i - 1] + K[i])
      BY <1>6, <3>1
    <3>3. total[i] = c + (K[i] + K[i + 1])
      BY <1>6, <3>1
    <3>4. K[i - 1] \in Int /\ K[i] \in Int /\ K[i + 1] \in Int
      BY <1>1, <3>1
    <3>5. D[i] = K[i + 1] - K[i - 1]
      BY <2>3
    <3>6. PICK p \in Int, q \in Int, r \in Int : p = K[i - 1] /\ q = K[i] /\ r = K[i + 1]
      BY <3>4
    <3>7. total[i - 1] = c + (p + q) /\ total[i] = c + (q + r) /\ D[i] = r - p
      BY <3>2, <3>3, <3>5, <3>6, Zenon
    <3> QED  BY <3>7
  <2> QED  BY <2>1, <2>2, <2>3
<1>11. \A i \in 0 .. n : total[i] = IF i = 0 THEN 0 ELSE total[i - 1] + D[i]
  BY <1>5, <1>10
<1>12. total = [ i \in 0 .. n |-> IF i = 0 THEN 0 ELSE total[i - 1] + D[i] ]
  BY <1>7, <1>11
<1> QED
  BY <1>4, <1>5, <1>9, <1>12 DEF Accumulation, RangeOf

(***************************************************************************)
(* contributionGet: the widths of a book in order of strike telescope.     *)
(***************************************************************************)
LEMMA WidthsTelescope ==
    ASSUME NEW book, NEW n \in Nat, n = Len(book), n >= 2,
           \A i \in 1 .. n : book[i][1] \in Nat
    PROVE  Widths(book) = 2 * (book[n][1] - book[1][1])
                           + (book[2][1] - book[1][1])
                           + (book[n][1] - book[n - 1][1])
<1> DEFINE K == [ i \in 1 .. n |-> book[i][1] ]
           D == [ i \in 1 .. n |-> DeltaK(book, i) ]
           SumOf(g) == [ i \in 0 .. n |-> IF i = 0 THEN 0 ELSE g[i - 1] + DeltaK(book, i) ]
           upTo == CHOOSE g : g = SumOf(g)
<1>1. K \in [ 1 .. n -> Nat ]
  OBVIOUS
<1>2. \A i \in 1 .. n : D[i] = DeltaK(book, i) /\ K[i] = book[i][1]
  OBVIOUS
<1>3. /\ D[1] = 2 * (K[2] - K[1])
      /\ D[n] = 2 * (K[n] - K[n - 1])
      /\ \A i \in 2 .. n - 1 : D[i] = K[i + 1] - K[i - 1]
  <2> HIDE DEF K, D
  <2>1. 1 \in 1 .. n /\ 2 \in 1 .. n /\ n \in 1 .. n /\ n - 1 \in 1 .. n /\ n # 1
    OBVIOUS
  <2>2. D[1] = 2 * (K[2] - K[1])
    <3>1. D[1] = 2 * (book[2][1] - book[1][1])
      BY <1>2, <2>1 DEF DeltaK
    <3> QED  BY <1>2, <2>1, <3>1
  <2>3. D[n] = 2 * (K[n] - K[n - 1])
    <3>1. D[n] = 2 * (book[n][1] - book[n - 1][1])
      BY <1>2, <2>1 DEF DeltaK
    <3> QED  BY <1>2, <2>1, <3>1
  <2>4. ASSUME NEW i \in 2 .. n - 1 PROVE D[i] = K[i + 1] - K[i - 1]
    <3>1. i \in 1 .. n /\ i + 1 \in 1 .. n /\ i - 1 \in 1 .. n /\ i # 1 /\ i # n
      OBVIOUS
    <3>2. D[i] = book[i + 1][1] - book[i - 1][1]
      BY <1>2, <3>1 DEF DeltaK
    <3> QED  BY <1>2, <3>1, <3>2
  <2> QED  BY <2>2, <2>3, <2>4
<1>4. Widths(book) = upTo[n]
  BY DEF Widths
<1>5. \A g : SumOf(g) = [ i \in 0 .. n |-> IF i = 0 THEN 0 ELSE g[i - 1] + D[i] ]
  <2> TAKE g
  <2>1. \A i \in 0 .. n : i # 0 => DeltaK(book, i) = D[i]
    BY <1>2
  <2> HIDE DEF D
  <2> QED  BY <2>1
<1> HIDE DEF K, D
<1>6. PICK total : /\ Accumulation(total, D, n)
                   /\ \A i \in 0 .. n : total[i] \in Int
                   /\ total[n] = RangeOf(K, n)
  <2> HIDE DEF SumOf, upTo
  <2>1. WidthsOf(K, D, n)
    BY <1>3 DEF WidthsOf
  <2> QED  BY <1>1, <2>1, TelescopingTotals
<1> HIDE DEF SumOf
<1>7. upTo = SumOf(upTo)
  <2>1. total = SumOf(total)
    BY <1>5, <1>6 DEF Accumulation
  <2> QED  BY <2>1
<1> HIDE DEF upTo
<1>8. Accumulation(upTo, D, n)
  BY <1>5, <1>7 DEF Accumulation
<1>9. \A i \in 1 .. n : D[i] \in Int
  <2> TAKE i \in 1 .. n
  <2>1. i = 1 \/ i = n \/ i \in 2 .. n - 1
    OBVIOUS
  <2>2. \A j \in 1 .. n : K[j] \in Int
    BY <1>1
  <2>3. CASE i \in 2 .. n - 1
    <3>1. K[i + 1] \in Int /\ K[i - 1] \in Int
      BY <2>2, <2>3
    <3>2. D[i] = K[i + 1] - K[i - 1]
      BY <1>3, <2>3
    <3>3. PICK p \in Int, q \in Int : p = K[i + 1] /\ q = K[i - 1]
      BY <3>1
    <3>4. D[i] = p - q
      BY <3>2, <3>3, Zenon
    <3> QED  BY <3>4
  <2>4. K[1] \in Int /\ K[2] \in Int /\ K[n] \in Int /\ K[n - 1] \in Int
    BY <2>2
  <2> QED  BY <1>3, <2>1, <2>3, <2>4
<1>10. /\ total[0] = 0
       /\ \A i \in 1 .. n : total[i] = total[i - 1] + D[i]
  <2>1. total = [ i \in 0 .. n |-> IF i = 0 THEN 0 ELSE total[i - 1] + D[i] ]
    BY <1>6 DEF Accumulation
  <2>2. \A i \in 0 .. n : total[i] = IF i = 0 THEN 0 ELSE total[i - 1] + D[i]
    BY <2>1, Zenon
  <2> QED  BY <2>2
<1>11. \A i \in 0 .. n : total[i] \in Int
  BY <1>6
<1>12. upTo[n] = total[n]
  BY <1>8, <1>9, <1>10, <1>11, SumUpTo
<1> QED
  BY <1>2, <1>4, <1>6, <1>12 DEF RangeOf

(***************************************************************************)
(* A bounded set of numbers has a largest one.                             *)
(***************************************************************************)
LEMMA LargestNumber ==
    ASSUME NEW S \in SUBSET Nat, S # {}, NEW b \in Nat, \A x \in S : x <= b
    PROVE  Max(S) \in S /\ \A x \in S : x <= Max(S)
<1> DEFINE Above == { m \in Nat : \A x \in S : x <= m }
<1>1. Above \in SUBSET Nat /\ Above # {}
  OBVIOUS
<1>2. PICK m \in Above : \A x \in Above : m <= x
  BY <1>1, NaturalsHaveALeast
<1>3. m \in Nat /\ \A x \in S : x \in Nat /\ x <= m
  OBVIOUS
<1>4. m \in S
  <2>1. SUFFICES ASSUME m \notin S PROVE FALSE
    OBVIOUS
  <2>2. \A x \in S : x <= m - 1
    BY <1>3, <2>1
  <2>3. PICK x \in S : TRUE
    OBVIOUS
  <2>4. m - 1 \in Nat
    BY <1>3, <2>2, <2>3
  <2>5. m - 1 \in Above
    BY <2>2, <2>4
  <2> QED  BY <1>2, <1>3, <2>5
<1>5. \E y \in S : \A x \in S : y >= x
  BY <1>3, <1>4
<1>6. Max(S) \in S /\ \A x \in S : Max(S) >= x
  BY <1>5 DEF Max
<1> QED
  BY <1>6

(***************************************************************************)
(* A finite set of entries with distinct strikes has an order of strikes:  *)
(* the rank of an entry is the number of entries up to it.                 *)
(***************************************************************************)
LEMMA EntriesHaveAnOrder ==
    ASSUME NEW E, IsFiniteSet(E), \A e \in E : e[1] \in Nat,
           \A d, e \in E : d[1] = e[1] => d = e
    PROVE  \E book \in SetToSeqs(E) : InOrderOfStrike(book)
<1> DEFINE N == Cardinality(E)
           UpTo(e) == { d \in E : d[1] <= e[1] }
           rank == [ e \in E |-> Cardinality(UpTo(e)) ]
           book == [ i \in 1 .. N |-> CHOOSE e \in E : rank[e] = i ]
<1>1. N \in Nat
  BY FS_CardinalityType
<1> HIDE DEF N
<1>2. ASSUME NEW e \in E PROVE rank[e] \in 1 .. N
  <2>1. UpTo(e) \in SUBSET E /\ e \in UpTo(e)
    OBVIOUS
  <2> HIDE DEF UpTo
  <2>2. IsFiniteSet(UpTo(e)) /\ Cardinality(UpTo(e)) <= N
    BY <2>1, FS_Subset DEF N
  <2>3. Cardinality(UpTo(e)) \in Nat /\ Cardinality(UpTo(e)) # 0
    BY <2>1, <2>2, FS_CardinalityType, FS_EmptySet
  <2> QED  BY <1>1, <2>2, <2>3
<1>3. ASSUME NEW d \in E, NEW e \in E, d[1] < e[1] PROVE rank[d] < rank[e]
  <2>1. UpTo(d) \in SUBSET UpTo(e) /\ UpTo(e) \in SUBSET E
    BY <1>3
  <2>2. e \in UpTo(e) /\ e \notin UpTo(d)
    BY <1>3
  <2>3. rank[d] = Cardinality(UpTo(d)) /\ rank[e] = Cardinality(UpTo(e))
    OBVIOUS
  <2>4. rank[d] \in Nat /\ rank[e] \in Nat
    BY <1>1, <1>2
  <2> HIDE DEF UpTo, rank
  <2>5. IsFiniteSet(UpTo(e))
    BY <2>1, FS_Subset
  <2>6. rank[d] <= rank[e] /\ rank[d] # rank[e]
    BY <2>1, <2>2, <2>3, <2>5, FS_Subset
  <2> QED  BY <2>4, <2>6
<1>4. rank \in Injection(E, 1 .. N)
  <2>1. rank \in [ E -> 1 .. N ]
    BY <1>2
  <2>2. ASSUME NEW d \in E, NEW e \in E, rank[d] = rank[e] PROVE d = e
    <3> HIDE DEF rank
    <3>1. rank[d] \in Nat /\ rank[e] \in Nat
      BY <1>1, <1>2
    <3>2. ~(rank[d] < rank[e]) /\ ~(rank[e] < rank[d])
      BY <2>2, <3>1
    <3>3. ~(d[1] < e[1]) /\ ~(e[1] < d[1])
      BY <1>3, <3>2
    <3>4. d[1] \in Nat /\ e[1] \in Nat
      OBVIOUS
    <3>5. d[1] = e[1]
      BY <3>3, <3>4
    <3> QED  BY <3>5
  <2> HIDE DEF rank
  <2> QED  BY <2>1, <2>2 DEF Injection, IsInjective
<1>5. IsFiniteSet(1 .. N) /\ Cardinality(1 .. N) = N
  BY <1>1, FS_Interval
<1>6. rank \in Surjection(E, 1 .. N)
  BY <1>4, <1>5, FS_Injection DEF N
<1>7. \A i \in 1 .. N : \E e \in E : rank[e] = i
  BY <1>6 DEF Surjection
<1>8. ASSUME NEW i \in 1 .. N PROVE book[i] \in E /\ rank[book[i]] = i
  <2> HIDE DEF rank
  <2> QED  BY <1>7
<1>9. DOMAIN book = 1 .. N /\ book \in [ 1 .. N -> E ]
  BY <1>8
<1> HIDE DEF rank, book
<1>10. book \in SetToSeqs(E)
  BY <1>8, <1>9 DEF SetToSeqs, N
<1>11. Len(book) = N
  BY <1>1, <1>9
<1>12. InOrderOfStrike(book)
  <2>1. SUFFICES ASSUME NEW i \in 1 .. N - 1 PROVE book[i][1] <= book[i + 1][1]
    BY <1>11 DEF InOrderOfStrike
  <2>2. i \in 1 .. N /\ i + 1 \in 1 .. N
    BY <1>1
  <2>3. ~(book[i + 1][1] < book[i][1])
    BY <1>3, <1>8, <2>2
  <2>4. book[i][1] \in Nat /\ book[i + 1][1] \in Nat
    BY <1>8, <2>2
  <2> QED  BY <2>3, <2>4
<1> QED
  BY <1>10, <1>12

\* The prices of the book are numbers.
PriceInv == mids \in [ Option -> Nat ]

\* midBookChange stores the mark or the sum of bid and ask, numbers all of them.
LEMMA BookPricesAreNumbers == MidsSpec => []PriceInv
<1>1. MidsInit => PriceInv
  BY DEF MidsInit, PriceInv, NoMid
<1>2. PriceInv /\ [MidsNext]_mids => PriceInv'
  <2>1. SUFFICES ASSUME PriceInv, MidsNext PROVE PriceInv'
    BY DEF PriceInv
  <2>2. PICK o \in Option, bid \in Price, ask \in Price, mark \in Price :
               midBookChange(o, bid, ask, mark)
    BY <2>1 DEF MidsNext
  <2>3. bid \in Nat /\ ask \in Nat /\ mark \in Nat
    BY StrikeBookAssumption
  <2>4. MidOf(bid, ask, mark) \in Nat
    BY <2>3 DEF MidOf, NoMid
  <2> QED  BY <2>1, <2>2, <2>4 DEF PriceInv, midBookChange
<1> QED
  BY <1>1, <1>2, PTL DEF MidsSpec

\* forwardPriceGet answers with a number, possibly a negative one.
LEMMA ForwardIsANumber ==
    ASSUME PriceInv, NEW forward \in forwardPriceGet
    PROVE  forward \in Int
<1>1. PICK k \in Strike : forward = 2 * k + Spread(k)
  BY DEF forwardPriceGet
<1>2. <<k, "C">> \in Option /\ <<k, "P">> \in Option
  BY DEF Option
<1>3. mids[<<k, "C">>] \in Nat /\ mids[<<k, "P">>] \in Nat
  BY <1>2 DEF PriceInv
<1>4. k \in Nat
  BY StrikeBookAssumption
<1> QED
  BY <1>1, <1>3, <1>4 DEF Spread

\* adjacentStrikeGet answers with a strike exactly when one lies at the forward
\* price or below, and with 0 otherwise.
LEMMA TargetIsTheAdjacentStrike ==
    ASSUME NEW forward \in Int
    PROVE  /\ adjacentStrikeGet(forward) \in Nat
           /\ adjacentStrikeGet(forward) \in Strike <=> \E k \in Strike : 2 * k <= forward
<1> DEFINE S == {0} \cup { k \in Strike : 2 * k <= forward }
<1>1. \A k \in Strike : k \in Nat /\ k # 0
  BY StrikeBookAssumption
<1>2. S \in SUBSET Nat /\ S # {}
  BY <1>1
<1>3. PICK b \in Nat : b >= forward
  <2>1. CASE forward \in Nat
    BY <2>1
  <2>2. CASE forward \notin Nat
    <3>1. 0 \in Nat /\ 0 >= forward
      BY <2>2
    <3> QED  BY <3>1
  <2> QED  BY <2>1, <2>2
<1>4. \A x \in S : x <= b
  BY <1>1, <1>3
<1> DEFINE target == adjacentStrikeGet(forward)
<1>5. target = Max(S)
  BY DEF adjacentStrikeGet
<1>6. target \in S /\ \A x \in S : x <= target
  <2> HIDE DEF S, target
  <2> QED  BY <1>2, <1>4, <1>5, LargestNumber
<1> HIDE DEF target
<1>7. target \in Nat
  BY <1>2, <1>6
<1>8. target \in Strike <=> \E k \in Strike : 2 * k <= forward
  <2>1. ASSUME target \in Strike PROVE \E k \in Strike : 2 * k <= forward
    BY <1>1, <1>6, <2>1
  <2>2. ASSUME NEW k \in Strike, 2 * k <= forward PROVE target \in Strike
    <3>1. k <= target /\ k \in Nat /\ k # 0
      BY <1>1, <1>6, <2>2
    <3> QED  BY <1>6, <1>7, <3>1
  <2> QED  BY <2>1, <2>2
<1> QED
  BY <1>7, <1>8 DEF target

\* What finalBookGet(target) puts in order.
Entries(target) == OutOfTheMoney(target) \cup {<<target, "AV">>}

\* What finalBookGet orders: each strike once, on the side of the target it is
\* on.
LEMMA EntriesByStrike ==
    ASSUME NEW target \in Nat
    PROVE  /\ \A e \in Entries(target) :
                 /\ e[1] \in Nat
                 /\ e = <<e[1], e[2]>>
                 /\ e[2] = IF e[1] < target THEN "P"
                           ELSE IF e[1] > target THEN "C" ELSE "AV"
                 /\ e[1] = target \/ e[1] \in Strike
           /\ \A d, e \in Entries(target) : d[1] = e[1] => d = e
           /\ IsFiniteSet(Entries(target))
<1>1. ASSUME NEW e \in OutOfTheMoney(target)
      PROVE  /\ e[1] \in Nat /\ e[1] \in Strike
             /\ e = <<e[1], e[2]>>
             /\ e[2] = IF e[1] < target THEN "P"
                       ELSE IF e[1] > target THEN "C" ELSE "AV"
  <2>1. PICK k \in Strike, t \in {"C", "P"} : e = <<k, t>>
    BY DEF OutOfTheMoney, Option
  <2>2. e[1] = k /\ e[2] = t /\ k \in Nat
    BY <2>1, StrikeBookAssumption
  <2>3. IF t = "P" THEN k < target ELSE k > target
    BY <2>2 DEF OutOfTheMoney
  <2> QED  BY <2>1, <2>2, <2>3
<1>2. ASSUME NEW e \in Entries(target)
      PROVE  /\ e[1] \in Nat
             /\ e = <<e[1], e[2]>>
             /\ e[2] = IF e[1] < target THEN "P"
                       ELSE IF e[1] > target THEN "C" ELSE "AV"
             /\ e[1] = target \/ e[1] \in Strike
  <2>1. CASE e \in OutOfTheMoney(target)
    BY <1>1, <2>1
  <2>2. CASE e = <<target, "AV">>
    BY <2>2
  <2> QED  BY <2>1, <2>2 DEF Entries
<1>3. ASSUME NEW d \in Entries(target), NEW e \in Entries(target), d[1] = e[1]
      PROVE  d = e
  <2>1. d[2] = e[2]
    BY <1>2, <1>3
  <2>2. d = <<d[1], d[2]>> /\ e = <<e[1], e[2]>>
    BY <1>2
  <2> QED  BY <1>3, <2>1, <2>2, Zenon
<1>4. IsFiniteSet(Entries(target))
  <2> DEFINE T == Strike \cup {target}
             f == [ e \in Entries(target) |-> e[1] ]
  <2>1. IsFiniteSet(T)
    BY StrikeBookAssumption, FS_AddElement
  <2>2. f \in [ Entries(target) -> T ]
    BY <1>2
  <2>3. \A d, e \in Entries(target) : f[d] = f[e] => d = e
    BY <1>3
  <2>4. f \in Injection(Entries(target), T)
    <3> HIDE DEF f, T
    <3> QED  BY <2>2, <2>3 DEF Injection, IsInjective
  <2> HIDE DEF f, T
  <2> QED  BY <2>1, <2>4, FS_Injection
<1> QED
  BY <1>2, <1>3, <1>4

\* finalBookGet answers with all of its entries, once each, in strict order of
\* their strikes.
LEMMA TheFinalBook ==
    ASSUME NEW target \in Nat
    PROVE  LET book == finalBookGet(target)
               n    == Len(book)
           IN  /\ n \in Nat /\ n = Cardinality(Entries(target))
               /\ \A i \in 1 .. n : book[i] \in Entries(target)
               /\ \A i, j \in 1 .. n : i # j => book[i] # book[j]
               /\ \A i \in 1 .. n - 1 : book[i][1] < book[i + 1][1]
<1> DEFINE book == finalBookGet(target)
           n    == Cardinality(Entries(target))
<1>1. \E s \in SetToSeqs(Entries(target)) : InOrderOfStrike(s)
  BY EntriesByStrike, EntriesHaveAnOrder
<1>2. book \in SetToSeqs(Entries(target)) /\ InOrderOfStrike(book)
  BY <1>1 DEF finalBookGet, Entries
<1>3. n \in Nat
  BY EntriesByStrike, FS_CardinalityType
<1> HIDE DEF book, n
<1>4. /\ book \in [ 1 .. n -> Entries(target) ]
      /\ \A i, j \in 1 .. n : i # j => book[i] # book[j]
  BY <1>2 DEF SetToSeqs, n
<1>5. Len(book) = n
  BY <1>3, <1>4
<1>6. ASSUME NEW i \in 1 .. n - 1 PROVE book[i][1] < book[i + 1][1]
  <2>1. i \in 1 .. n /\ i + 1 \in 1 .. n /\ i # i + 1
    BY <1>3
  <2>2. book[i] \in Entries(target) /\ book[i + 1] \in Entries(target)
    BY <1>4, <2>1
  <2>3. book[i][1] \in Nat /\ book[i + 1][1] \in Nat
    BY <2>2, EntriesByStrike
  <2>4. book[i][1] # book[i + 1][1]
    <3>1. book[i] # book[i + 1]
      BY <1>4, <2>1
    <3> QED  BY <2>2, <3>1, EntriesByStrike
  <2>5. book[i][1] <= book[i + 1][1]
    BY <1>2, <1>5 DEF InOrderOfStrike
  <2> QED  BY <2>3, <2>4, <2>5
<1>7. \A i \in 1 .. n : book[i] \in Entries(target)
  BY <1>4
<1> QED
  BY <1>3, <1>4, <1>5, <1>6, <1>7 DEF book, n

\* The first half of FinalBookIsWhole: when nothing is thrown.
LEMMA WhatIsSummedIsWhole ==
    ASSUME NEW target \in Nat, ~Throws(target)
    PROVE  LET book == finalBookGet(target)
               n    == Len(book)
           IN  /\ \A i \in 1 .. n - 1 : book[i][1] < book[i + 1][1]
               /\ \A i \in 1 .. n :
                     book[i][2] = IF book[i][1] < target THEN "P"
                                  ELSE IF book[i][1] > target THEN "C" ELSE "AV"
               /\ Widths(book) = 2 * (book[n][1] - book[1][1])
                                   + (book[2][1] - book[1][1])
                                   + (book[n][1] - book[n - 1][1])
<1> DEFINE book == finalBookGet(target)
           n    == Len(book)
<1>1. /\ n \in Nat
      /\ \A i \in 1 .. n : book[i] \in Entries(target)
      /\ \A i \in 1 .. n - 1 : book[i][1] < book[i + 1][1]
  BY TheFinalBook
<1>2. ~(n < 2)
  BY DEF Throws
<1> HIDE DEF book
<1>3. \A i \in 1 .. n :
         /\ book[i][1] \in Nat
         /\ book[i][2] = IF book[i][1] < target THEN "P"
                         ELSE IF book[i][1] > target THEN "C" ELSE "AV"
  BY <1>1, EntriesByStrike
<1>4. Widths(book) = 2 * (book[n][1] - book[1][1])
                       + (book[2][1] - book[1][1])
                       + (book[n][1] - book[n - 1][1])
  BY <1>1, <1>2, <1>3, WidthsTelescope
<1> QED
  BY <1>1, <1>3, <1>4 DEF book

\* The second half: with all options quoted only a lone strike is not enough.
LEMMA TheBookOfAFilledTerm ==
    ASSUME NEW target \in Strike, \A o \in Option : Quoted(o)
    PROVE  Throws(target) <=> \A k, l \in Strike : k = l
<1>1. target \in Nat
  BY StrikeBookAssumption
<1>2. HasPair(target)
  BY DEF HasPair, Option
<1> DEFINE n == Cardinality(Entries(target))
<1>3. Throws(target) <=> n < 2
  BY <1>1, <1>2, TheFinalBook DEF Throws
<1>4. n \in Nat /\ IsFiniteSet(Entries(target))
  BY <1>1, EntriesByStrike, FS_CardinalityType
<1>5. <<target, "AV">> \in Entries(target)
  BY DEF Entries
<1>6. ASSUME n < 2, NEW k \in Strike PROVE k = target
  <2>1. SUFFICES ASSUME k # target PROVE FALSE
    OBVIOUS
  <2>2. n # 0
    BY <1>4, <1>5, FS_EmptySet
  <2>3. n = 1
    BY <1>4, <1>6, <2>2
  <2>4. PICK x : Entries(target) = {x}
    BY <1>4, <2>3, FS_Singleton
  <2>5. k \in Nat
    BY StrikeBookAssumption
  <2>6. k < target \/ k > target
    BY <1>1, <2>1, <2>5
  <2>7. ASSUME NEW t \in {"C", "P"}, IF t = "P" THEN k < target ELSE k > target
        PROVE  FALSE
    <3>1. <<k, t>> \in Option
      BY DEF Option
    <3>2. <<k, t>> \in OutOfTheMoney(target)
      BY <2>7, <3>1 DEF OutOfTheMoney
    <3>3. <<k, t>> = <<target, "AV">>
      BY <1>5, <2>4, <3>2 DEF Entries
    <3> QED  BY <2>1, <3>3
  <2> QED  BY <2>6, <2>7
<1>7. ASSUME \A k, l \in Strike : k = l PROVE n < 2
  <2>1. \A e \in Entries(target) : e = <<target, "AV">>
    <3> TAKE e \in Entries(target)
    <3>1. e[1] = target
      BY <1>1, <1>7, EntriesByStrike
    <3>2. <<target, "AV">>[1] = target
      OBVIOUS
    <3> QED  BY <1>1, <1>5, <3>1, <3>2, EntriesByStrike
  <2>2. Entries(target) = {<<target, "AV">>}
    BY <1>5, <2>1
  <2>3. n = 1
    BY <2>2, FS_Singleton
  <2> QED  BY <2>3
<1>8. (n < 2) <=> \A k, l \in Strike : k = l
  BY <1>6, <1>7
<1> QED
  BY <1>3, <1>8

(***************************************************************************)
(* For every list of strikes, all prices and every sequence of quotes: a   *)
(* book that calculateIndex sums has each strike once, on its out-of-the-  *)
(* money side, with widths that add up to the range of the strikes, and    *)
(* with all options quoted it is only refused for a forward price below    *)
(* all strikes or for a lone strike.                                       *)
(***************************************************************************)
THEOREM FinalBookIsWholeAlways == MidsSpec => []FinalBookIsWhole
<1>1. ASSUME PriceInv PROVE FinalBookIsWhole
  <2>1. SUFFICES ASSUME NEW forward \in forwardPriceGet
        PROVE LET target == adjacentStrikeGet(forward)
                  book   == finalBookGet(target)
                  n      == Len(book)
              IN  /\ ~Throws(target) =>
                       /\ \A i \in 1 .. n - 1 : book[i][1] < book[i + 1][1]
                       /\ \A i \in 1 .. n :
                             book[i][2] = IF book[i][1] < target THEN "P"
                                          ELSE IF book[i][1] > target THEN "C" ELSE "AV"
                       /\ Widths(book) = 2 * (book[n][1] - book[1][1])
                                           + (book[2][1] - book[1][1])
                                           + (book[n][1] - book[n - 1][1])
                  /\ (\A o \in Option : Quoted(o)) =>
                       (Throws(target) <=> \/ \A k \in Strike : forward < 2 * k
                                           \/ \A k, l \in Strike : k = l)
    BY DEF FinalBookIsWhole
  <2> DEFINE target == adjacentStrikeGet(forward)
  <2>2. forward \in Int
    BY <1>1, ForwardIsANumber
  <2>3. /\ target \in Nat
        /\ target \in Strike <=> \E k \in Strike : 2 * k <= forward
    BY <2>2, TargetIsTheAdjacentStrike
  <2> HIDE DEF target
  <2>4. ASSUME \A o \in Option : Quoted(o)
        PROVE  Throws(target) <=> \/ \A k \in Strike : forward < 2 * k
                                  \/ \A k, l \in Strike : k = l
    <3>1. (\A k \in Strike : forward < 2 * k) <=> target \notin Strike
      <4>1. \A k \in Strike : k \in Nat
        BY StrikeBookAssumption
      <4> QED  BY <2>2, <2>3, <4>1
    <3>2. CASE target \notin Strike
      BY <3>1, <3>2 DEF Throws
    <3>3. CASE target \in Strike
      <4>1. Throws(target) <=> \A k, l \in Strike : k = l
        BY <2>4, <3>3, TheBookOfAFilledTerm
      <4> QED  BY <3>1, <3>3, <4>1
    <3> QED  BY <3>2, <3>3
  <2>5. ASSUME ~Throws(target)
        PROVE  LET book == finalBookGet(target)
                   n    == Len(book)
               IN  /\ \A i \in 1 .. n - 1 : book[i][1] < book[i + 1][1]
                   /\ \A i \in 1 .. n :
                         book[i][2] = IF book[i][1] < target THEN "P"
                                      ELSE IF book[i][1] > target THEN "C" ELSE "AV"
                   /\ Widths(book) = 2 * (book[n][1] - book[1][1])
                                       + (book[2][1] - book[1][1])
                                       + (book[n][1] - book[n - 1][1])
    BY <2>3, <2>5, WhatIsSummedIsWhole, Zenon
  <2> QED
    BY <2>4, <2>5, Zenon DEF target
<1> QED
  BY <1>1, BookPricesAreNumbers, PTL
=============================================================================
