---------------------------- MODULE ReplayGateway ----------------------------
(***************************************************************************)
(* Who runs VixCalculatorV2 and what becomes of its indexes: a websocket   *)
(* SUBSCRIBE with a period (services/ws.service.ts) sends them to the      *)
(* client and, when it is asked to record them, inserts them into          *)
(* mfiv_indices; a backfill (services/backfill.service.ts) only inserts    *)
(* them; GET /mfiv reads that table and thins it out to an interval.       *)
(*                                                                         *)
(* A calculator is here what it computes and its end.  A query that turns  *)
(* live may compute indexes close to each other, so that nothing is        *)
(* supposed of their moments.  The handler of a SUBSCRIBE waits for its    *)
(* replay, but nobody waits for the handler: a socket may have several of  *)
(* them, and all of them share it.  Left out: subscriptions to a channel,  *)
(* whose members and deliveries are uWebSockets' own.  Moments are minutes.*)
(***************************************************************************)
EXTENDS Integers, Sequences, FiniteSets

CONSTANTS Socket,    \* websocket connections
          Replay,    \* bound: the replays and backfills that are run
          Moment,    \* bound: the moments an index can be computed for
          Stored,    \* bound: sets of moments already in the table at first
          MaxIndex,  \* bound: number of indexes a replay computes
          Interval   \* intervals GET /mfiv is asked for

ASSUME GatewayAssumption ==
    /\ Moment \subseteq Nat
    /\ \A S \in Stored : S \subseteq Nat
    /\ MaxIndex \in Nat
    /\ Interval \subseteq {"5M", "15M", "1H", "1D"}

VARIABLES sockets,  \* socket |-> "new", "open" or "closed"
          jobs,     \* replay |-> its calculator and what it was asked for
          pending,  \* <<moment, replay>>: inserts under way
          rows,     \* mfiv_indices: moment |-> the replay whose value it is
          dropped,  \* history: sockets closed for another reason than a replay
          failed    \* history: the inserts the database failed to do

vars == <<sockets, jobs, pending, rows, dropped, failed>>

Earlier == "earlier"      \* a replay of an earlier run of the program
NoSocket == "backfill"    \* the socket of a backfill

Idle == [ status |-> "idle", socket |-> NoSocket, record |-> FALSE,
          computed |-> <<>>, sent |-> <<>> ]

Init ==
    /\ sockets = [ s \in Socket |-> "new" ]
    /\ jobs = [ x \in Replay |-> Idle ]
    /\ pending = {}
    /\ rows \in UNION { [ S -> {Earlier} ] : S \in Stored }
    /\ dropped = {}
    /\ failed = {}

-----------------------------------------------------------------------------
\* An upgrade that tokens.check has authorized.
Open(s) ==
    /\ sockets[s] = "new"
    /\ sockets' = [ sockets EXCEPT ![s] = "open" ]
    /\ UNCHANGED <<jobs, pending, rows, dropped, failed>>

Drop(s) ==
    /\ sockets[s] = "open"
    /\ sockets' = [ sockets EXCEPT ![s] = "closed" ]
    /\ dropped' = dropped \cup {s}
    /\ UNCHANGED <<jobs, pending, rows, failed>>

\* The client closes the connection, or it is lost.
HangUp(s) == Drop(s)

\* The server closes a connection that is idle for too long, or whose client reads
\* too slowly.
ReachesLimit(s) == Drop(s)

\* A message of an unknown type: socket.disconnect().  Should the socket have no
\* such method, the call throws and nothing changes.
UnknownMessage(s) == Drop(s)

Start(x, s, record) ==
    /\ jobs[x].status = "idle"
    /\ jobs' = [ jobs EXCEPT ![x] =
                    [ Idle EXCEPT !.status = "running", !.socket = s,
                                  !.record = record ] ]
    /\ UNCHANGED <<sockets, pending, rows, dropped, failed>>

\* SUBSCRIBE with replayFrom or replayTo, and __record__ or not.
Subscribe(x, s, record) == sockets[s] = "open" /\ Start(x, s, record)

\* POST /mfiv of the backfill service.
Backfill(x) == Start(x, NoSocket, TRUE)

\* fetchIndex has an index for t.
Computed(x, t) == jobs[x].status = "running" /\ Len(jobs[x].computed) < MaxIndex

RecordRounded(x, t) ==    \* under the end of the slot instead of the moment
    pending' = IF jobs[x].record THEN pending \cup {<<t + 1, x>>} ELSE pending

\* onCompute: the index is sent, and its insert is begun but not waited for.  Two
\* inserts of a replay under the same key are one: the second finds the key taken.
Record(x, t) ==
    pending' = IF jobs[x].record THEN pending \cup {<<t, x>>} ELSE pending

OnCompute(x, t) ==
    /\ Computed(x, t)
    /\ jobs[x].socket \in Socket => sockets[jobs[x].socket] = "open"
    /\ jobs' = [ jobs EXCEPT ![x].computed = Append(@, t),
                             ![x].sent = Append(@, t) ]
    /\ Record(x, t)
    /\ UNCHANGED <<sockets, rows, dropped, failed>>

IsClosed(s) == s \in Socket /\ sockets[s] = "closed"

\* onCompute with a closed socket: send throws, which ends the replay, or drops
\* the message.
OnComputeClosed(x, t) ==
    /\ Computed(x, t)
    /\ IsClosed(jobs[x].socket)
    /\ \/ jobs' = [ jobs EXCEPT ![x].status = "failed" ] /\ UNCHANGED pending
       \/ jobs' = [ jobs EXCEPT ![x].computed = Append(@, t) ] /\ Record(x, t)
    /\ UNCHANGED <<sockets, rows, dropped, failed>>

CloseSocketOf(x) ==
    sockets' = [ s \in Socket |->
                    IF s = jobs[x].socket THEN "closed" ELSE sockets[s] ]

OnCompleteAtRollover(x) ==     \* at the end of every stream of the replay
    /\ jobs[x].status = "running"
    /\ jobs' \in {jobs, [ jobs EXCEPT ![x].status = "completed" ]}
    /\ CloseSocketOf(x)
    /\ UNCHANGED <<pending, rows, dropped, failed>>

OnCompleteCancelling(x) ==     \* the inserts under way are given up
    /\ jobs[x].status = "running"
    /\ jobs' = [ jobs EXCEPT ![x].status = "completed" ]
    /\ CloseSocketOf(x)
    /\ pending' = { p \in pending : p[2] # x }
    /\ UNCHANGED <<rows, dropped, failed>>

\* onComplete closes the socket, whatever else it is used for; to close a closed
\* one may throw.  A backfill only logs.
OnComplete(x) ==
    /\ jobs[x].status = "running"
    /\ \E status \in {"completed", "failed"} :
          /\ status = "failed" => IsClosed(jobs[x].socket)
          /\ jobs' = [ jobs EXCEPT ![x].status = status ]
    /\ CloseSocketOf(x)
    /\ UNCHANGED <<pending, rows, dropped, failed>>

\* fetchIndex rejects: logged, the socket stays as it is.
FetchIndexFails(x) ==
    /\ jobs[x].status = "running"
    /\ jobs' = [ jobs EXCEPT ![x].status = "failed" ]
    /\ UNCHANGED <<sockets, pending, rows, dropped, failed>>

\* executeMfivInsert ends: a new row, or an error that is logged, because there
\* is a row with this key already or for another reason.
Insert(p) ==
    /\ pending' = pending \ {p}
    /\ \/ /\ p[1] \notin DOMAIN rows
          /\ rows' = [ t \in DOMAIN rows \cup {p[1]} |->
                         IF t = p[1] THEN p[2] ELSE rows[t] ]
          /\ UNCHANGED failed
       \/ p[1] \in DOMAIN rows /\ UNCHANGED <<rows, failed>>
       \/ failed' = failed \cup {p} /\ UNCHANGED rows
    /\ UNCHANGED <<sockets, jobs, dropped>>

Next ==
    \/ \E s \in Socket :
          Open(s) \/ HangUp(s) \/ ReachesLimit(s) \/ UnknownMessage(s)
    \/ \E x \in Replay :
          \/ \E s \in Socket, record \in BOOLEAN : Subscribe(x, s, record)
          \/ Backfill(x)
          \/ \E t \in Moment : OnCompute(x, t) \/ OnComputeClosed(x, t)
          \/ OnComplete(x)
          \/ FetchIndexFails(x)
    \/ \E p \in pending : Insert(p)

Spec == Init /\ [][Next]_vars

-----------------------------------------------------------------------------
(***************************************************************************)
(* GET /mfiv: of the rows from dateFrom up to dateTo, in order of time,    *)
(* the first one and every filterMap[interval]-th after it (takeNth).      *)
(***************************************************************************)
filterMap == [ i \in {"5M", "15M", "1H", "1D"} |->
    CASE i = "5M" -> 1 [] i = "15M" -> 3 [] i = "1H" -> 11 [] i = "1D" -> 287 ]

queryMfiv(dateFrom, dateTo) == { t \in DOMAIN rows : dateFrom <= t /\ t < dateTo }

MfivAnswer(interval, dateFrom, dateTo) ==
    LET arr == queryMfiv(dateFrom, dateTo)
    IN  { t \in arr :
            Cardinality({ u \in arr : u < t }) % filterMap[interval] = 0 }

-----------------------------------------------------------------------------
JobRecord ==
    [ status : {"idle", "running", "completed", "failed"},
      socket : Socket \cup {NoSocket}, record : BOOLEAN,
      computed : Seq(Moment), sent : Seq(Moment) ]

(***************************************************************************)
(* Every variable has the shape of its declaration.                        *)
(***************************************************************************)
GatewayTypeOK ==
    /\ sockets \in [ Socket -> {"new", "open", "closed"} ]
    /\ jobs \in [ Replay -> JobRecord ]
    /\ pending \subseteq Moment \X Replay
    /\ DOMAIN rows \subseteq Nat
    /\ \A t \in DOMAIN rows : rows[t] \in Replay \cup {Earlier}
    /\ dropped \subseteq Socket
    /\ failed \subseteq Moment \X Replay

(***************************************************************************)
(* A client that runs one replay on a connection, which is neither lost    *)
(* nor dropped by the server, gets every index of a replay that completes. *)
(***************************************************************************)
Alone(x) == \A y \in Replay \ {x} : jobs[y].socket # jobs[x].socket

WholeUnlessShared ==
    \A x \in Replay :
        (jobs[x].status = "completed" /\ Alone(x) /\ jobs[x].socket \notin dropped)
            => jobs[x].sent = jobs[x].computed

(***************************************************************************)
(* Every index of a recorded replay that is over is in the table, written  *)
(* by it or by another replay, or its insert goes on, or the database has  *)
(* failed to do it.                                                        *)
(***************************************************************************)
RecordedReplaysAreStored ==
    \A x \in Replay : jobs[x].record =>
        \A i \in 1 .. Len(jobs[x].computed) :
            \/ jobs[x].computed[i] \in DOMAIN rows
            \/ <<jobs[x].computed[i], x>> \in pending \cup failed

(***************************************************************************)
(* The name of an interval is what its rows are apart (ws.service.ts:384,  *)
(* enum: ["5M", "15M", "1H", "1D"]), when the table has an index every     *)
(* five minutes, as the backfill means to fill it.                         *)
(***************************************************************************)
Minutes == [ i \in {"5M", "15M", "1H", "1D"} |->
    CASE i = "5M" -> 5 [] i = "15M" -> 15 [] i = "1H" -> 60 [] i = "1D" -> 1440 ]

Apart(S, d) ==    \* neighbours in S have the distance d
    \A t \in S : (\E u \in S : u > t) =>
        /\ t + d \in S
        /\ ~\E u \in S : t < u /\ u < t + d

IntervalsAreHonoured ==
    Apart(DOMAIN rows, 5) =>
        \A interval \in Interval, from \in DOMAIN rows, to \in DOMAIN rows :
            Apart(MfivAnswer(interval, from, to + 1), Minutes[interval])

(***************************************************************************)
(* The end of a connection is all that tells a client that its replay is   *)
(* over.  Unless the client has left or the server has dropped it, a       *)
(* connection that ends has sent a replay from its first index to its last *)
(* one: a replay that fails, or one of another connection, does not end    *)
(* it, nor does one that another replay has cut short.                     *)
(***************************************************************************)
ClosedAfterAWholeReplay ==
    \A s \in Socket : (sockets[s] = "closed" /\ s \notin dropped) =>
        \E x \in Replay :
            /\ jobs[x].socket = s /\ jobs[x].status = "completed"
            /\ jobs[x].sent = jobs[x].computed
=============================================================================
