---------------------------- MODULE GatewayProofs ----------------------------
(***************************************************************************)
(* What the websocket gateway promises a client, for any number of sockets *)
(* and replays, any moments and any number of indexes.                     *)
(*                                                                         *)
(* Nothing in the state says which replay has closed a socket or why a     *)
(* client has been sent less than its replay computed.  The invariant      *)
(* names the culprit: whatever dropped the socket, or a completed replay   *)
(* of it that is whole.  A replay that has been robbed of a message cannot *)
(* be that replay, because it was still running when the socket closed.    *)
(***************************************************************************)
EXTENDS ReplayGateway, FiniteSetTheorems, SequenceTheorems, TLAPS

CompletedOn(x, s) == jobs[x].socket = s /\ jobs[x].status = "completed"

WholeOn(x, s) == CompletedOn(x, s) /\ jobs[x].sent = jobs[x].computed

SocketsInv ==
    \A s \in Socket : sockets[s] = "closed" =>
        s \in dropped \/ \E x \in Replay : WholeOn(x, s)

SentInv ==
    \A x \in Replay : jobs[x].sent # jobs[x].computed =>
        \/ jobs[x].socket \in dropped
        \/ \E y \in Replay \ {x} : CompletedOn(y, jobs[x].socket)

\* Only a closed socket robs a replay of a message, and it stays closed.
RobbedInv ==
    \A x \in Replay : jobs[x].sent # jobs[x].computed => IsClosed(jobs[x].socket)

IInv ==
    /\ GatewayTypeOK
    /\ SocketsInv
    /\ SentInv
    /\ RobbedInv
    /\ RecordedReplaysAreStored

-----------------------------------------------------------------------------
LEMMA JobFields ==
    ASSUME GatewayTypeOK, NEW x \in Replay
    PROVE  /\ jobs[x] \in JobRecord
           /\ jobs[x].status \in {"idle", "running", "completed", "failed"}
           /\ jobs[x].socket \in Socket \cup {NoSocket}
           /\ jobs[x].record \in BOOLEAN
           /\ jobs[x].computed \in Seq(Moment)
           /\ jobs[x].sent \in Seq(Moment)
           /\ jobs[x] = [ status |-> jobs[x].status, socket |-> jobs[x].socket,
                          record |-> jobs[x].record, computed |-> jobs[x].computed,
                          sent |-> jobs[x].sent ]
<1>1. jobs[x] \in JobRecord
  BY DEF GatewayTypeOK
<1> QED
  BY <1>1 DEF JobRecord

\* The sockets that are closed and the replays that have completed stay so, and
\* what is closed anew has somebody to answer for it.
LEMMA SocketsKept ==
    ASSUME SocketsInv, dropped \subseteq dropped',
           \A x \in Replay : jobs[x].status = "completed" => jobs'[x] = jobs[x],
           \A s \in Socket : sockets'[s] = "closed" =>
               \/ sockets[s] = "closed"
               \/ s \in dropped'
               \/ \E x \in Replay : WholeOn(x, s)'
    PROVE  SocketsInv'
BY DEF SocketsInv, WholeOn, CompletedOn

LEMMA SentKept ==
    ASSUME SentInv, dropped \subseteq dropped',
           \A x \in Replay : jobs[x].status = "completed" =>
               jobs'[x].status = "completed" /\ jobs'[x].socket = jobs[x].socket,
           \A x \in Replay : jobs'[x].sent # jobs'[x].computed =>
               \/ jobs[x].sent # jobs[x].computed /\ jobs'[x].socket = jobs[x].socket
               \/ jobs'[x].socket \in dropped'
               \/ \E y \in Replay \ {x} : /\ jobs'[y].socket = jobs'[x].socket
                                        /\ jobs'[y].status = "completed"
    PROVE  SentInv'
<1> SUFFICES ASSUME NEW x \in Replay, jobs'[x].sent # jobs'[x].computed
             PROVE  \/ jobs'[x].socket \in dropped'
                    \/ \E y \in Replay \ {x} : /\ jobs'[y].socket = jobs'[x].socket
                                             /\ jobs'[y].status = "completed"
  BY DEF SentInv, CompletedOn
<1>1. CASE jobs[x].sent # jobs[x].computed /\ jobs'[x].socket = jobs[x].socket
  BY <1>1 DEF SentInv, CompletedOn
<1> QED
  BY <1>1

\* The table only grows, and an insert that ends has done it or failed.
LEMMA StoredKept ==
    ASSUME RecordedReplaysAreStored,
           DOMAIN rows \subseteq DOMAIN rows',
           \A p \in pending \cup failed : p \in pending' \cup failed' \/ p[1] \in DOMAIN rows',
           \A x \in Replay : jobs'[x].record =>
               \A i \in 1 .. Len(jobs'[x].computed) :
                   \/ /\ jobs[x].record /\ i \in 1 .. Len(jobs[x].computed)
                      /\ jobs'[x].computed[i] = jobs[x].computed[i]
                   \/ <<jobs'[x].computed[i], x>> \in pending'
    PROVE  RecordedReplaysAreStored'
<1> SUFFICES ASSUME NEW x \in Replay, jobs'[x].record,
                    NEW i \in 1 .. Len(jobs'[x].computed)
             PROVE  \/ jobs'[x].computed[i] \in DOMAIN rows'
                    \/ <<jobs'[x].computed[i], x>> \in pending' \cup failed'
  BY DEF RecordedReplaysAreStored
<1> DEFINE t == jobs'[x].computed[i]
<1>1. CASE <<t, x>> \in pending'
  BY <1>1
<1>2. CASE /\ jobs[x].record /\ i \in 1 .. Len(jobs[x].computed)
           /\ t = jobs[x].computed[i]
  <2>1. t \in DOMAIN rows \/ <<t, x>> \in pending \cup failed
    BY <1>2 DEF RecordedReplaysAreStored
  <2>2. <<t, x>>[1] = t
    OBVIOUS
  <2> QED
    BY <2>1, <2>2
<1> QED
  BY <1>1, <1>2

LEMMA InvInit == Init => IInv
<1> SUFFICES ASSUME Init PROVE IInv
  OBVIOUS
<1>1. GatewayTypeOK
  <2>1. Idle \in JobRecord
    BY DEF Idle, JobRecord
  <2>2. DOMAIN rows \subseteq Nat /\ \A t \in DOMAIN rows : rows[t] = Earlier
    BY GatewayAssumption DEF Init, GatewayAssumption
  <2> HIDE DEF JobRecord, Idle
  <2> QED
    BY <2>1, <2>2, GatewayAssumption DEF Init, GatewayTypeOK, GatewayAssumption
<1>2. \A x \in Replay : jobs[x].sent = <<>> /\ jobs[x].computed = <<>>
  BY DEF Init, Idle
<1>3. SocketsInv
  BY DEF Init, SocketsInv
<1>4. SentInv /\ RobbedInv /\ RecordedReplaysAreStored
  BY <1>2 DEF SentInv, RobbedInv, RecordedReplaysAreStored
<1> QED
  BY <1>1, <1>3, <1>4 DEF IInv

-----------------------------------------------------------------------------
\* A connection opens, or is left by its client or dropped by the server.
LEMMA SocketStep ==
    ASSUME IInv, NEW s \in Socket, Open(s) \/ Drop(s)
    PROVE  IInv'
<1>1. /\ UNCHANGED <<jobs, pending, rows, failed>>
      /\ dropped \subseteq dropped' /\ dropped' \subseteq dropped \cup {s}
      /\ DOMAIN sockets' = Socket
      /\ \A r \in Socket \ {s} : sockets'[r] = sockets[r]
      /\ \/ sockets[s] = "new" /\ sockets'[s] = "open"
         \/ sockets'[s] = "closed" /\ s \in dropped'
  BY DEF IInv, GatewayTypeOK, Open, Drop
<1>2. GatewayTypeOK'
  BY <1>1 DEF IInv, GatewayTypeOK, Open, Drop
<1>3. SocketsInv'
  BY <1>1, SocketsKept DEF IInv
<1>4. SentInv'
  BY <1>1, SentKept DEF IInv, CompletedOn
<1>6. RobbedInv'
  BY <1>1 DEF IInv, RobbedInv, IsClosed
<1>5. RecordedReplaysAreStored'
  BY <1>1 DEF IInv, RecordedReplaysAreStored
<1> QED
  BY <1>2, <1>3, <1>4, <1>5, <1>6 DEF IInv

-----------------------------------------------------------------------------
\* What a step of the replay x has to show, when it makes j of its record: it has
\* not completed before, it is not robbed of a message but by who closed its socket,
\* and what it has computed anew is being inserted.
LEMMA ReplayStep ==
    ASSUME IInv, NEW x \in Replay, NEW j \in JobRecord,
           jobs' = [ jobs EXCEPT ![x] = j ],
           jobs[x].status # "completed",
           UNCHANGED <<rows, dropped, failed>>,
           sockets' \in [ Socket -> {"new", "open", "closed"} ],
           \A s \in Socket : \/ sockets'[s] = sockets[s]
                            \/ /\ sockets'[s] = "closed"
                               /\ j.socket = s /\ j.status = "completed",
           pending' \subseteq Moment \X Replay,
           pending \subseteq pending',
           j.sent # j.computed =>
               \/ jobs[x].sent # jobs[x].computed /\ j.socket = jobs[x].socket
               \/ j.socket \in Socket /\ sockets[j.socket] = "closed",
           j.record => \A i \in 1 .. Len(j.computed) :
               \/ /\ jobs[x].record /\ i \in 1 .. Len(jobs[x].computed)
                  /\ j.computed[i] = jobs[x].computed[i]
               \/ <<j.computed[i], x>> \in pending'
    PROVE  IInv'
<1>1. /\ jobs' \in [ Replay -> JobRecord ]
      /\ jobs'[x] = j
      /\ \A y \in Replay \ {x} : jobs'[y] = jobs[y]
  BY DEF IInv, GatewayTypeOK
<1>2. GatewayTypeOK'
  <2> HIDE DEF JobRecord
  <2> QED
    BY <1>1 DEF IInv, GatewayTypeOK, JobRecord
<1>3. \A y \in Replay : jobs[y].status = "completed" => jobs'[y] = jobs[y]
  BY <1>1
<1>7. j.sent # j.computed => j.socket \in Socket /\ sockets[j.socket] = "closed"
  BY DEF IInv, RobbedInv, IsClosed
<1>8. RobbedInv'
  BY <1>1, <1>7 DEF IInv, RobbedInv, IsClosed
<1>4. SocketsInv'
  <2>1. \A s \in Socket : sockets'[s] = "closed" =>
            sockets[s] = "closed" \/ \E y \in Replay : WholeOn(y, s)'
    <3> SUFFICES ASSUME NEW s \in Socket, sockets'[s] = "closed", sockets[s] # "closed"
                 PROVE  WholeOn(x, s)'
      OBVIOUS
    <3>1. j.socket = s /\ j.status = "completed" /\ j.sent = j.computed
      BY <1>7
    <3> QED
      BY <1>1, <3>1 DEF WholeOn, CompletedOn
  <2> QED
    BY <1>3, <2>1, SocketsKept DEF IInv
<1>5. SentInv'
  <2>1. j.socket \in Socket /\ sockets[j.socket] = "closed" =>
            \/ j.socket \in dropped
            \/ \E y \in Replay \ {x} : jobs'[y].socket = j.socket /\ jobs'[y].status = "completed"
    BY <1>1 DEF IInv, SocketsInv, WholeOn, CompletedOn
  <2>2. \A y \in Replay : jobs'[y].sent # jobs'[y].computed =>
            \/ jobs[y].sent # jobs[y].computed /\ jobs'[y].socket = jobs[y].socket
            \/ jobs'[y].socket \in dropped'
            \/ \E z \in Replay \ {y} : /\ jobs'[z].socket = jobs'[y].socket
                                     /\ jobs'[z].status = "completed"
    BY <1>1, <2>1
  <2> QED
    BY <1>3, <2>2, SentKept DEF IInv
<1>6. RecordedReplaysAreStored'
  <2>1. \A y \in Replay : jobs'[y].record => \A i \in 1 .. Len(jobs'[y].computed) :
            \/ /\ jobs[y].record /\ i \in 1 .. Len(jobs[y].computed)
               /\ jobs'[y].computed[i] = jobs[y].computed[i]
            \/ <<jobs'[y].computed[i], y>> \in pending'
    BY <1>1
  <2> QED
    BY <2>1, StoredKept DEF IInv
<1> QED
  BY <1>2, <1>4, <1>5, <1>6, <1>8 DEF IInv

LEMMA StartStep ==
    ASSUME IInv, NEW x \in Replay, NEW s \in Socket \cup {NoSocket},
           NEW record \in BOOLEAN, Start(x, s, record)
    PROVE  IInv'
<1>1. PICK j : j = [ Idle EXCEPT !.status = "running", !.socket = s, !.record = record ]
  OBVIOUS
<1>2. /\ jobs[x].status # "completed"
      /\ jobs' = [ jobs EXCEPT ![x] = j ]
      /\ UNCHANGED <<sockets, pending, rows, dropped, failed>>
  BY <1>1 DEF Start
<1>3. j = [ status |-> "running", socket |-> s, record |-> record,
            computed |-> <<>>, sent |-> <<>> ]
  BY <1>1 DEF Idle
<1>4. j \in JobRecord /\ j.sent = j.computed /\ j.status = "running"
  BY <1>3 DEF JobRecord
<1>5. /\ sockets' \in [ Socket -> {"new", "open", "closed"} ]
      /\ pending' \subseteq Moment \X Replay
  BY <1>2 DEF IInv, GatewayTypeOK
<1>6. \A i \in 1 .. Len(j.computed) : FALSE
  BY <1>3
<1> QED
  BY <1>2, <1>4, <1>5, <1>6, ReplayStep

\* The index is computed, and perhaps sent; its insert has begun if it is asked for.
LEMMA ComputedStep ==
    ASSUME IInv, NEW x \in Replay, NEW t \in Moment, NEW j,
           jobs[x].status = "running",
           \/ j = [ jobs[x] EXCEPT !.computed = Append(@, t), !.sent = Append(@, t) ]
           \/ /\ j = [ jobs[x] EXCEPT !.computed = Append(@, t) ]
              /\ jobs[x].socket \in Socket /\ sockets[jobs[x].socket] = "closed",
           jobs' = [ jobs EXCEPT ![x] = j ],
           Record(x, t),
           UNCHANGED <<sockets, rows, dropped, failed>>
    PROVE  IInv'
<1> DEFINE computed == jobs[x].computed
           sent == jobs[x].sent
<1>1. /\ jobs[x].status \in {"idle", "running", "completed", "failed"}
      /\ jobs[x].socket \in Socket \cup {NoSocket}
      /\ jobs[x].record \in BOOLEAN
      /\ computed \in Seq(Moment)
      /\ sent \in Seq(Moment)
      /\ jobs[x] = [ status |-> jobs[x].status, socket |-> jobs[x].socket,
                     record |-> jobs[x].record, computed |-> computed, sent |-> sent ]
  BY JobFields DEF IInv
<1>2. PICK s \in {sent, Append(sent, t)} :
         /\ j = [ status |-> jobs[x].status, socket |-> jobs[x].socket,
                  record |-> jobs[x].record, computed |-> Append(computed, t), sent |-> s ]
         /\ \/ s = Append(sent, t)
            \/ sockets[jobs[x].socket] = "closed" /\ jobs[x].socket \in Socket
  <2>1. CASE j = [ jobs[x] EXCEPT !.computed = Append(@, t), !.sent = Append(@, t) ]
    BY <1>1, <2>1
  <2>2. CASE /\ j = [ jobs[x] EXCEPT !.computed = Append(@, t) ]
             /\ jobs[x].socket \in Socket /\ sockets[jobs[x].socket] = "closed"
    BY <1>1, <2>2
  <2> QED
    BY <2>1, <2>2
<1> HIDE DEF computed, sent
<1>3. /\ Append(computed, t) \in Seq(Moment) /\ Append(sent, t) \in Seq(Moment)
      /\ Len(Append(computed, t)) = Len(computed) + 1 /\ Len(computed) \in Nat
      /\ \A i \in 1 .. Len(computed) : Append(computed, t)[i] = computed[i]
      /\ Append(computed, t)[Len(computed) + 1] = t
  BY <1>1, AppendProperties
<1>4. j \in JobRecord
  BY <1>1, <1>2, <1>3 DEF JobRecord
<1>5. /\ j.socket = jobs[x].socket
      /\ j.record = jobs[x].record
      /\ j.computed = Append(computed, t)
      /\ \/ j.sent = Append(sent, t)
         \/ sockets[jobs[x].socket] = "closed" /\ jobs[x].socket \in Socket
  BY <1>2
<1>6. /\ pending \subseteq pending'
      /\ pending' \subseteq Moment \X Replay
      /\ j.record => <<t, x>> \in pending'
  BY <1>5 DEF Record, IInv, GatewayTypeOK
<1>7. j.sent # j.computed =>
         \/ jobs[x].sent # jobs[x].computed /\ j.socket = jobs[x].socket
         \/ j.socket \in Socket /\ sockets[j.socket] = "closed"
  BY <1>5 DEF computed, sent
<1>8. j.record => \A i \in 1 .. Len(j.computed) :
         \/ /\ jobs[x].record /\ i \in 1 .. Len(jobs[x].computed)
            /\ j.computed[i] = jobs[x].computed[i]
         \/ <<j.computed[i], x>> \in pending'
  <2>1. \A i \in 1 .. Len(j.computed) :
           \/ i \in 1 .. Len(computed) /\ j.computed[i] = computed[i]
           \/ j.computed[i] = t
    BY <1>3, <1>5
  <2> QED
    BY <1>5, <1>6, <2>1 DEF computed
<1>9. sockets' \in [ Socket -> {"new", "open", "closed"} ]
  BY DEF IInv, GatewayTypeOK
<1> QED
  BY <1>4, <1>6, <1>7, <1>8, <1>9, ReplayStep

\* The replay ends, with its socket if it has completed.
LEMMA EndStep ==
    ASSUME IInv, NEW x \in Replay, NEW status \in {"completed", "failed"},
           jobs[x].status = "running",
           jobs' = [ jobs EXCEPT ![x].status = status ],
           \/ UNCHANGED sockets
           \/ status = "completed" /\ CloseSocketOf(x),
           UNCHANGED <<pending, rows, dropped, failed>>
    PROVE  IInv'
<1> DEFINE j == [ jobs[x] EXCEPT !.status = status ]
<1>1. /\ jobs[x] \in JobRecord
      /\ jobs' = [ jobs EXCEPT ![x] = j ]
  BY JobFields DEF IInv
<1>2. /\ j \in JobRecord
      /\ j.status = status
      /\ j.socket = jobs[x].socket
      /\ j.record = jobs[x].record
      /\ j.computed = jobs[x].computed
      /\ j.sent = jobs[x].sent
  BY <1>1 DEF JobRecord
<1> HIDE DEF j
<1>3. /\ sockets' \in [ Socket -> {"new", "open", "closed"} ]
      /\ \A s \in Socket : \/ sockets'[s] = sockets[s]
                           \/ /\ sockets'[s] = "closed"
                              /\ j.socket = s /\ j.status = "completed"
  BY <1>2 DEF IInv, GatewayTypeOK, CloseSocketOf
<1>4. pending' \subseteq Moment \X Replay
  BY DEF IInv, GatewayTypeOK
<1>5. /\ j.sent # j.computed =>
            jobs[x].sent # jobs[x].computed /\ j.socket = jobs[x].socket
      /\ j.record => \A i \in 1 .. Len(j.computed) :
            /\ jobs[x].record /\ i \in 1 .. Len(jobs[x].computed)
            /\ j.computed[i] = jobs[x].computed[i]
  BY <1>2
<1> QED
  BY <1>1, <1>2, <1>3, <1>4, <1>5, ReplayStep

LEMMA InsertStep ==
    ASSUME IInv, NEW p \in pending, Insert(p)
    PROVE  IInv'
<1>1. /\ UNCHANGED <<sockets, jobs, dropped>>
      /\ pending' = pending \ {p}
      /\ DOMAIN rows \subseteq DOMAIN rows'
      /\ failed \subseteq failed'
      /\ p[1] \in DOMAIN rows' \/ p \in failed'
  BY DEF Insert
<1>2. p \in Moment \X Replay
  BY DEF IInv, GatewayTypeOK
<1>3. GatewayTypeOK'
  <2>1. p[1] \in Nat /\ p[2] \in Replay
    BY <1>2, GatewayAssumption DEF GatewayAssumption
  <2>2. /\ DOMAIN rows' \subseteq Nat
        /\ \A t \in DOMAIN rows' : rows'[t] \in Replay \cup {Earlier}
    BY <2>1 DEF IInv, GatewayTypeOK, Insert
  <2>3. pending' \subseteq Moment \X Replay /\ failed' \subseteq Moment \X Replay
    BY <1>1, <1>2 DEF IInv, GatewayTypeOK, Insert
  <2> HIDE DEF JobRecord
  <2> QED
    BY <1>1, <2>2, <2>3 DEF IInv, GatewayTypeOK, JobRecord
<1>4. RecordedReplaysAreStored'
  <2>1. \A q \in pending \cup failed : q \in pending' \cup failed' \/ q[1] \in DOMAIN rows'
    BY <1>1
  <2>2. \A x \in Replay : jobs'[x].record =>
            \A i \in 1 .. Len(jobs'[x].computed) :
                /\ jobs[x].record /\ i \in 1 .. Len(jobs[x].computed)
                /\ jobs'[x].computed[i] = jobs[x].computed[i]
    BY <1>1
  <2> QED
    BY <1>1, <2>1, <2>2, StoredKept DEF IInv
<1>5. SocketsInv' /\ SentInv' /\ RobbedInv'
  BY <1>1 DEF IInv, SocketsInv, SentInv, RobbedInv, IsClosed, WholeOn, CompletedOn
<1> QED
  BY <1>3, <1>4, <1>5 DEF IInv

LEMMA InvStep == IInv /\ [Next]_vars => IInv'
<1> SUFFICES ASSUME IInv, [Next]_vars PROVE IInv'
  OBVIOUS
<1>1. ASSUME NEW s \in Socket, Open(s) PROVE IInv'
  BY <1>1, SocketStep
<1>2. ASSUME NEW s \in Socket, HangUp(s) \/ ReachesLimit(s) \/ UnknownMessage(s)
      PROVE  IInv'
  BY <1>2, SocketStep DEF HangUp, ReachesLimit, UnknownMessage
<1>3. ASSUME NEW x \in Replay, NEW s \in Socket, NEW record \in BOOLEAN,
             Subscribe(x, s, record)
      PROVE  IInv'
  BY <1>3, StartStep DEF Subscribe
<1>4. ASSUME NEW x \in Replay, Backfill(x) PROVE IInv'
  BY <1>4, StartStep DEF Backfill
<1>5. ASSUME NEW x \in Replay, NEW t \in Moment, OnCompute(x, t) PROVE IInv'
  <2>1. /\ jobs' = [ jobs EXCEPT ![x] = [ jobs[x] EXCEPT !.computed = Append(@, t),
                                                       !.sent = Append(@, t) ] ]
        /\ jobs[x].status = "running"
        /\ Record(x, t)
        /\ UNCHANGED <<sockets, rows, dropped, failed>>
    BY <1>5 DEF OnCompute, Computed, IInv, GatewayTypeOK
  <2> QED
    BY <2>1, ComputedStep
<1>6. ASSUME NEW x \in Replay, NEW t \in Moment, OnComputeClosed(x, t) PROVE IInv'
  <2>1. /\ jobs[x].status = "running"
        /\ jobs[x].socket \in Socket /\ sockets[jobs[x].socket] = "closed"
        /\ UNCHANGED <<sockets, rows, dropped, failed>>
    BY <1>6 DEF OnComputeClosed, Computed, IsClosed
  <2>2. CASE jobs' = [ jobs EXCEPT ![x].status = "failed" ] /\ UNCHANGED pending
    <3>1. UNCHANGED <<pending, rows, dropped, failed>> /\ UNCHANGED sockets
      BY <2>1, <2>2
    <3> QED
      BY <2>1, <2>2, <3>1, EndStep
  <2>3. CASE jobs' = [ jobs EXCEPT ![x].computed = Append(@, t) ] /\ Record(x, t)
    <3>1. jobs' = [ jobs EXCEPT ![x] = [ jobs[x] EXCEPT !.computed = Append(@, t) ] ]
      BY <2>3 DEF IInv, GatewayTypeOK
    <3> QED
      BY <2>1, <2>3, <3>1, ComputedStep
  <2> QED
    BY <1>6, <2>2, <2>3 DEF OnComputeClosed
<1>7. ASSUME NEW x \in Replay, OnComplete(x) PROVE IInv'
  <2>1. /\ jobs[x].status = "running"
        /\ CloseSocketOf(x)
        /\ UNCHANGED <<pending, rows, dropped, failed>>
    BY <1>7 DEF OnComplete
  <2>2. PICK status \in {"completed", "failed"} :
           /\ status = "failed" => IsClosed(jobs[x].socket)
           /\ jobs' = [ jobs EXCEPT ![x].status = status ]
    BY <1>7 DEF OnComplete
  <2>3. status = "failed" => UNCHANGED sockets
    BY <2>1, <2>2 DEF CloseSocketOf, IsClosed, IInv, GatewayTypeOK
  <2> QED
    BY <2>1, <2>2, <2>3, EndStep
<1>8. ASSUME NEW x \in Replay, FetchIndexFails(x) PROVE IInv'
  BY <1>8, EndStep DEF FetchIndexFails
<1>9. ASSUME NEW p \in pending, Insert(p) PROVE IInv'
  BY <1>9, InsertStep
<1>10. CASE UNCHANGED vars
  BY <1>10 DEF vars, IInv, GatewayTypeOK, JobRecord, SocketsInv, SentInv, RobbedInv,
              IsClosed, WholeOn, CompletedOn, RecordedReplaysAreStored
<1> QED
  BY <1>1, <1>2, <1>3, <1>4, <1>5, <1>6, <1>7, <1>8, <1>9, <1>10 DEF Next

LEMMA GatewayInvariant == Spec => []IInv
<1>1. Init => IInv
  BY InvInit
<1>2. IInv /\ [Next]_vars => IInv'
  BY InvStep
<1> QED
  BY <1>1, <1>2, PTL DEF Spec

-----------------------------------------------------------------------------
(***************************************************************************)
(* The sockets, the replays, the inserts under way and the table of the    *)
(* gateway keep the shape of their declarations.                           *)
(***************************************************************************)
THEOREM GatewayTypeCorrect == Spec => []GatewayTypeOK
<1>1. IInv => GatewayTypeOK
  BY DEF IInv
<1> QED
  BY <1>1, GatewayInvariant, PTL

(***************************************************************************)
(* WholeUnlessShared: a websocket client that runs one replay on its       *)
(* connection, which neither it nor the server gives up, has been sent     *)
(* every index of it when onComplete closes the connection.                *)
(***************************************************************************)
THEOREM WholeUnlessSharedAlways == Spec => []WholeUnlessShared
<1>1. IInv => WholeUnlessShared
  BY DEF IInv, SentInv, WholeUnlessShared, Alone, CompletedOn
<1> QED
  BY <1>1, GatewayInvariant, PTL

(***************************************************************************)
(* RecordedReplaysAreStored: although onCompute does not wait for its      *)
(* inserts and several replays write the same keys, no index of a recorded *)
(* replay is lost but by an error of the database.                         *)
(***************************************************************************)
THEOREM RecordedReplaysAreStoredAlways == Spec => []RecordedReplaysAreStored
<1>1. IInv => RecordedReplaysAreStored
  BY DEF IInv
<1> QED
  BY <1>1, GatewayInvariant, PTL

(***************************************************************************)
(* ClosedAfterAWholeReplay: a connection that has ended without the client *)
(* and without the server's limits or disconnect was closed by onComplete  *)
(* of a replay that has been sent whole; however many replays share it and *)
(* whichever of them fail, a client may take its end for the end of one.   *)
(***************************************************************************)
THEOREM ClosedAfterAWholeReplayAlways == Spec => []ClosedAfterAWholeReplay
<1>1. IInv => ClosedAfterAWholeReplay
  BY DEF IInv, SocketsInv, WholeOn, CompletedOn, ClosedAfterAWholeReplay
<1> QED
  BY <1>1, GatewayInvariant, PTL

-----------------------------------------------------------------------------
(***************************************************************************)
(* GET /mfiv.  In a table with an index every five minutes, the neighbour  *)
(* of a row has one row more before it, so that every third row is fifteen *)
(* minutes after the third one before it.                                  *)
(***************************************************************************)
Before(arr, t) == Cardinality({ u \in arr : u < t })

\* The rows before a row are finitely many, as moments are naturals.
LEMMA BeforeIsNat ==
    ASSUME NEW arr \in SUBSET Nat, NEW t \in Nat
    PROVE  IsFiniteSet({ u \in arr : u < t }) /\ Before(arr, t) \in Nat
<1> DEFINE B == { u \in arr : u < t }
<1>1. \A u \in B : u \in Nat /\ u <= t
  <2> TAKE u \in B
  <2>1. u \in arr /\ u < t
    OBVIOUS
  <2>2. u \in Nat
    BY <2>1
  <2> QED  BY <2>1, <2>2
<1>2. Before(arr, t) = Cardinality(B)
  BY DEF Before
<1> HIDE DEF B
<1>3. B \in SUBSET Nat
  BY <1>1
<1>4. IsFiniteSet(B)
  BY <1>1, <1>3, FS_BoundedSetOfNaturals
<1>5. Cardinality(B) \in Nat
  BY <1>4, FS_CardinalityType
<1> QED
  BY <1>2, <1>4, <1>5 DEF B

LEMMA BeforeNeighbour ==
    ASSUME NEW arr \in SUBSET Nat, NEW t \in arr, Apart(arr, 5),
           NEW u \in arr, t < u
    PROVE  /\ t + 5 \in arr /\ t + 5 <= u
           /\ Before(arr, t + 5) = Before(arr, t) + 1
           /\ \A v \in arr : t < v => t + 5 <= v
<1>0. \A v \in arr : v \in Nat
  OBVIOUS
<1>1. /\ t \in Nat /\ u \in Nat /\ t + 5 \in arr
      /\ \A v \in arr : ~(t < v /\ v < t + 5)
  BY <1>0 DEF Apart
<1>2. \A v \in arr : v \in Nat /\ (t < v => t + 5 <= v)
  BY <1>0, <1>1
<1> DEFINE B == { v \in arr : v < t }
<1>3. { v \in arr : v < t + 5 } = B \cup {t}
  <2>1. \A v \in arr : v < t + 5 <=> (v < t \/ v = t)
    BY <1>1, <1>2
  <2> QED  BY <2>1
<1>4. t \notin B
  BY <1>1
<1>5. IsFiniteSet(B) /\ Before(arr, t) = Cardinality(B)
  BY <1>1, BeforeIsNat DEF Before
<1> HIDE DEF B
<1>6. Cardinality(B \cup {t}) = Cardinality(B) + 1
  BY <1>4, <1>5, FS_AddElement
<1> QED
  BY <1>1, <1>2, <1>3, <1>5, <1>6 DEF Before

(***************************************************************************)
(* Every row, and every third row, of such a table.                        *)
(***************************************************************************)
LEMMA EveryThirdRow ==
    ASSUME NEW arr \in SUBSET Nat, Apart(arr, 5)
    PROVE  Apart({ t \in arr : Before(arr, t) % 3 = 0 }, 15)
<1> DEFINE S == { t \in arr : Before(arr, t) % 3 = 0 }
<1> SUFFICES ASSUME NEW t \in S, NEW u \in S, t < u
             PROVE  /\ t + 15 \in S
                    /\ ~\E v \in S : t < v /\ v < t + 15
  BY DEF Apart
<1>1. /\ t \in arr /\ u \in arr /\ t \in Nat /\ u \in Nat
      /\ Before(arr, t) % 3 = 0 /\ Before(arr, t) \in Nat
  BY BeforeIsNat
<1>2. /\ t + 5 \in arr /\ t + 5 <= u /\ Before(arr, t + 5) = Before(arr, t) + 1
      /\ \A v \in arr : t < v => t + 5 <= v
  BY <1>1, BeforeNeighbour
<1>3. Before(arr, t + 5) % 3 = 1
  BY <1>1, <1>2
<1>4. t + 5 < u
  <2>1. u # t + 5
    BY <1>3
  <2> QED  BY <1>1, <1>2, <2>1
<1>5. /\ (t + 5) + 5 \in arr /\ (t + 5) + 5 <= u
      /\ Before(arr, (t + 5) + 5) = Before(arr, t + 5) + 1
      /\ \A v \in arr : t + 5 < v => (t + 5) + 5 <= v
  BY <1>1, <1>2, <1>4, BeforeNeighbour
<1>6. Before(arr, (t + 5) + 5) % 3 = 2
  BY <1>1, <1>2, <1>5
<1>7. (t + 5) + 5 < u
  <2>1. u # (t + 5) + 5
    BY <1>6
  <2> QED  BY <1>1, <1>5, <2>1
<1>8. /\ ((t + 5) + 5) + 5 \in arr
      /\ Before(arr, ((t + 5) + 5) + 5) = Before(arr, (t + 5) + 5) + 1
      /\ \A v \in arr : (t + 5) + 5 < v => ((t + 5) + 5) + 5 <= v
  BY <1>1, <1>5, <1>7, BeforeNeighbour
<1>9. Before(arr, ((t + 5) + 5) + 5) % 3 = 0
  BY <1>1, <1>2, <1>5, <1>8
<1>10. ((t + 5) + 5) + 5 = t + 15
  BY <1>1
<1>11. ASSUME NEW v \in S, t < v, v < t + 15 PROVE FALSE
  <2>1. v \in Nat /\ v \in arr /\ v # t + 5 /\ v # (t + 5) + 5
    BY <1>3, <1>6
  <2>2. t + 5 < v
    BY <1>1, <1>2, <1>11, <2>1
  <2>3. (t + 5) + 5 < v
    BY <1>1, <1>5, <2>1, <2>2
  <2> QED  BY <1>1, <1>8, <1>11, <2>1, <2>3
<1> QED
  BY <1>8, <1>9, <1>10, <1>11

(***************************************************************************)
(* What IntervalsAreHonoured says of the intervals of five minutes and of  *)
(* a quarter of an hour does hold, for every table and every period asked  *)
(* for: it is the counts of 1H and 1D that are off by one.                 *)
(***************************************************************************)
THEOREM ShortIntervalsAreHonoured ==
    Spec => [](Apart(DOMAIN rows, 5) =>
        \A interval \in {"5M", "15M"}, from \in DOMAIN rows, to \in DOMAIN rows :
            Apart(MfivAnswer(interval, from, to + 1), Minutes[interval]))
<1>1. ASSUME IInv, Apart(DOMAIN rows, 5),
             NEW from \in DOMAIN rows, NEW to \in DOMAIN rows
      PROVE  /\ Apart(MfivAnswer("5M", from, to + 1), 5)
             /\ Apart(MfivAnswer("15M", from, to + 1), 15)
  <2> DEFINE arr == queryMfiv(from, to + 1)
  <2>1. DOMAIN rows \subseteq Nat
    BY <1>1 DEF IInv, GatewayTypeOK
  <2>2. arr \in SUBSET Nat
    BY <2>1 DEF queryMfiv
  <2>3. Apart(arr, 5)
    <3> SUFFICES ASSUME NEW t \in arr, NEW u \in arr, t < u
                 PROVE  t + 5 \in arr /\ ~\E v \in arr : t < v /\ v < t + 5
      BY DEF Apart
    <3>1. /\ t \in DOMAIN rows /\ u \in DOMAIN rows
          /\ from <= t /\ u < to + 1
          /\ t \in Nat /\ u \in Nat /\ from \in Nat /\ to \in Nat
      BY <2>1 DEF queryMfiv
    <3>2. t + 5 \in DOMAIN rows /\ ~\E v \in DOMAIN rows : t < v /\ v < t + 5
      BY <1>1, <3>1 DEF Apart
    <3>3. t + 5 <= u
      BY <3>1, <3>2
    <3> QED  BY <3>1, <3>2, <3>3 DEF queryMfiv
  <2>4. /\ filterMap["5M"] = 1 /\ filterMap["15M"] = 3
    BY DEF filterMap
  <2>5. /\ MfivAnswer("5M", from, to + 1) = { t \in arr : Before(arr, t) % 1 = 0 }
        /\ MfivAnswer("15M", from, to + 1) = { t \in arr : Before(arr, t) % 3 = 0 }
    BY <2>4 DEF MfivAnswer, Before
  <2> HIDE DEF arr
  <2>6. { t \in arr : Before(arr, t) % 1 = 0 } = arr
    <3>1. \A t \in arr : Before(arr, t) \in Nat
      BY <2>2, BeforeIsNat
    <3>2. \A n \in Nat : n % 1 = 0
      OBVIOUS
    <3> QED  BY <3>1, <3>2
  <2> QED
    BY <2>2, <2>3, <2>5, <2>6, EveryThirdRow
<1>2. Minutes["5M"] = 5 /\ Minutes["15M"] = 15
  BY DEF Minutes
<1>3. IInv => (Apart(DOMAIN rows, 5) =>
          \A interval \in {"5M", "15M"}, from \in DOMAIN rows, to \in DOMAIN rows :
              Apart(MfivAnswer(interval, from, to + 1), Minutes[interval]))
  BY <1>1, <1>2
<1> QED
  BY <1>3, GatewayInvariant, PTL
=============================================================================
