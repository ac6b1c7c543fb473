------------------------------- MODULE Tokens -------------------------------
(***************************************************************************)
(* The tokens service (services/tokens.service.ts) and its table: tokens   *)
(* are generated, checked by the websocket gateway on every authorization, *)
(* removed when they are invalidated, and a daily job is meant to clear    *)
(* the expired ones.                                                       *)
(*                                                                         *)
(* Every action of the service awaits the database between its statements, *)
(* so calls interleave there.  TypeORM's save is two statements: it looks  *)
(* for the row of the entity's id, then updates the columns that differ,   *)
(* or inserts the whole entity when there is no such row.                  *)
(***************************************************************************)
EXTENDS Integers

CONSTANTS Token,    \* tokens that may be generated
          Owner,    \* owners of tokens
          Caller,   \* concurrent calls of check and remove
          Horizon   \* bound: the last day considered

ASSUME TokensAssumption == Horizon \in Nat

VARIABLES today,      \* the clock, in days
          rows,       \* auth_tokens: token |-> row
          calls,      \* caller |-> what it is doing
          granted,    \* history: the row generate first saved for a token
          removed,    \* history: tokens that remove has deleted
          overlapped  \* history: those deleted during a check of them

vars == <<today, rows, calls, granted, removed, overlapped>>

Never == -1   \* no expiry, or never used

Idle == [ phase |-> "idle" ]

Put(f, x, y) == [ z \in DOMAIN f \cup {x} |-> IF z = x THEN y ELSE f[z] ]

Drop(f, x) == [ z \in DOMAIN f \ {x} |-> f[z] ]

Init ==
    /\ today = 0
    /\ rows = [ t \in {} |-> 0 ]
    /\ calls = [ c \in Caller |-> Idle ]
    /\ granted = [ t \in {} |-> 0 ]
    /\ removed = {}
    /\ overlapped = {}

-----------------------------------------------------------------------------
\* generate.  expireInNumDays is optional; an expiry parameter is accepted and
\* overwritten with undefined.
Generate(t, owner) ==
    /\ t \notin DOMAIN granted
    /\ \E expiry \in {Never} \cup (today + 1 .. Horizon) :
          LET row == [ owner |-> owner, expiry |-> expiry, lastUsedAt |-> Never ]
          IN  rows' = Put(rows, t, row) /\ granted' = Put(granted, t, row)
    /\ UNCHANGED <<today, calls, removed, overlapped>>

Acceptable(t, owners) ==
    /\ t \in DOMAIN rows
    /\ rows[t].owner \in owners
    /\ rows[t].expiry # Never => rows[t].expiry >= today

\* lastUsedAt set, and the expiry moved with it.
CheckFindsProlonging(c, t, owners) ==
    /\ calls[c] = Idle
    /\ Acceptable(t, owners)
    /\ calls' = [ calls EXCEPT ![c] =
          [ phase |-> "found", token |-> t,
            entity |-> [ rows[t] EXCEPT !.lastUsedAt = today, !.expiry = today + 1 ] ] ]
    /\ UNCHANGED <<today, rows, granted, removed, overlapped>>

(***************************************************************************)
(* check.  A token that is not there, that belongs to somebody else (when  *)
(* an owner is asked for) or that has expired is answered with false at    *)
(* once and changes nothing.  Otherwise lastUsedAt is set and saved.       *)
(***************************************************************************)
CheckFinds(c, t, owners) ==
    /\ calls[c] = Idle
    /\ Acceptable(t, owners)
    /\ calls' = [ calls EXCEPT ![c] =
          [ phase |-> "found", token |-> t,
            entity |-> [ rows[t] EXCEPT !.lastUsedAt = today ] ] ]
    /\ UNCHANGED <<today, rows, granted, removed, overlapped>>

SaveSelects(c) ==
    /\ calls[c].phase = "found"
    /\ calls' = [ calls EXCEPT ![c].phase =
                    IF calls[c].token \in DOMAIN rows THEN "update" ELSE "insert" ]
    /\ UNCHANGED <<today, rows, granted, removed, overlapped>>

\* The columns that differ: all that check has changed is lastUsedAt, and the
\* entity is written over the row that was there when the save looked.
SaveUpdates(c) ==
    /\ calls[c].phase = "update"
    /\ LET t == calls[c].token
       IN  rows' = IF t \in DOMAIN rows
                   THEN [ rows EXCEPT ![t] = calls[c].entity ]
                   ELSE rows
    /\ calls' = [ calls EXCEPT ![c] = Idle ]
    /\ UNCHANGED <<today, granted, removed, overlapped>>

\* An insert violates the unique index when another one was faster.
SaveInserts(c) ==
    /\ calls[c].phase = "insert"
    /\ LET t == calls[c].token
       IN  rows' = IF t \in DOMAIN rows THEN rows ELSE Put(rows, t, calls[c].entity)
    /\ calls' = [ calls EXCEPT ![c] = Idle ]
    /\ UNCHANGED <<today, granted, removed, overlapped>>

\* remove: find the token, then delete its row.
RemoveFinds(c, t) ==
    /\ calls[c] = Idle
    /\ t \in DOMAIN rows
    /\ calls' = [ calls EXCEPT ![c] = [ phase |-> "remove", token |-> t ] ]
    /\ UNCHANGED <<today, rows, granted, removed, overlapped>>

BeingChecked(t) ==
    \E c \in Caller : calls[c].phase \in {"found", "update", "insert"}
                        /\ calls[c].token = t

RemoveRevokes(c) ==      \* revokedAt set instead, which check does not look at
    /\ calls[c].phase = "remove"
    /\ removed' = removed \cup {calls[c].token}
    /\ calls' = [ calls EXCEPT ![c] = Idle ]
    /\ UNCHANGED <<today, rows, granted, overlapped>>

RemoveDeletes(c) ==
    /\ calls[c].phase = "remove"
    /\ LET t == calls[c].token
       IN  /\ rows' = Drop(rows, t)
           /\ removed' = removed \cup {t}
           /\ overlapped' = IF BeingChecked(t) THEN overlapped \cup {t} ELSE overlapped
    /\ calls' = [ calls EXCEPT ![c] = Idle ]
    /\ UNCHANGED <<today, granted>>

\* The database fails, or the process dies: the call ends with an error.
CallFails(c) ==
    /\ calls[c] # Idle
    /\ calls' = [ calls EXCEPT ![c] = Idle ]
    /\ UNCHANGED <<today, rows, granted, removed, overlapped>>

\* clearExpired: the query compares a timestamp with an interval, which the
\* database rejects; nothing is removed.
ClearExpired ==
    /\ UNCHANGED vars

DayPasses ==
    /\ today < Horizon
    /\ today' = today + 1
    /\ UNCHANGED <<rows, calls, granted, removed, overlapped>>

Next ==
    \/ \E t \in Token, owner \in Owner : Generate(t, owner)
    \/ \E c \in Caller :
          \/ \E t \in Token, owners \in {Owner} \cup { {o} : o \in Owner } :
                CheckFinds(c, t, owners)
          \/ SaveSelects(c)
          \/ SaveUpdates(c)
          \/ SaveInserts(c)
          \/ \E t \in Token : RemoveFinds(c, t)
          \/ RemoveDeletes(c)
          \/ CallFails(c)
    \/ ClearExpired
    \/ DayPasses

Spec == Init /\ [][Next]_vars

-----------------------------------------------------------------------------
Day == 0 .. Horizon

Row == [ owner : Owner, expiry : Day \cup {Never}, lastUsedAt : Day \cup {Never} ]

(***************************************************************************)
(* Every variable has the shape of its declaration.                        *)
(***************************************************************************)
TokensTypeOK ==
    /\ today \in Day
    /\ DOMAIN rows \subseteq Token /\ \A t \in DOMAIN rows : rows[t] \in Row
    /\ DOMAIN granted \subseteq Token /\ \A t \in DOMAIN granted : granted[t] \in Row
    /\ \A c \in Caller :
          calls[c] \in {Idle}
              \cup [ phase : {"found", "update", "insert"}, token : Token,
                     entity : Row ]
              \cup [ phase : {"remove"}, token : Token ]
    /\ removed \subseteq Token
    /\ overlapped \subseteq removed

(***************************************************************************)
(* Using a token never changes whose it is or when it expires, although    *)
(* every check writes an entity back that it has read a while ago.         *)
(***************************************************************************)
GrantIsFixed ==
    \A t \in DOMAIN rows :
        /\ t \in DOMAIN granted
        /\ rows[t].owner = granted[t].owner
        /\ rows[t].expiry = granted[t].expiry

(***************************************************************************)
(* "Remove an invalidated token" (tokens.service.ts:153): once remove has  *)
(* deleted a token it is not in the table.                                 *)
(***************************************************************************)
RemovedStaysRemoved == \A t \in removed : t \notin DOMAIN rows
=============================================================================
