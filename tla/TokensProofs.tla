---------------------------- MODULE TokensProofs ----------------------------
(***************************************************************************)
(* What the tokens service and the gateway's authorization promise, for    *)
(* any number of tokens, owners, concurrent calls and days.                *)
(*                                                                         *)
(* The properties speak of the table, which every check writes to from an  *)
(* entity it has read a while ago.  The invariant is about these entities: *)
(* what a call holds is still what was granted, however old it is, and a   *)
(* token that was removed while nobody held it is nowhere any more.        *)
(***************************************************************************)
EXTENDS Authorization, TLAPS

Checking == {"found", "update", "insert"}

\* The owner and the expiry of r are those the token t was generated with.
AsGranted(t, r) ==
    /\ t \in DOMAIN granted
    /\ r.owner = granted[t].owner
    /\ r.expiry = granted[t].expiry

\* What is in the table, and what calls hold and may write to it.
TableInv == \A t \in DOMAIN rows : AsGranted(t, rows[t]) /\ t \notin RemovedInPeace

HeldInv ==
    \A c \in Caller : calls[c].phase \in Checking =>
        /\ AsGranted(calls[c].token, calls[c].entity)
        /\ calls[c].token \notin RemovedInPeace

\* Only what was generated can be removed.
RemovingInv ==
    /\ removed \subseteq DOMAIN granted
    /\ \A c \in Caller : calls[c].phase = "remove" => calls[c].token \in DOMAIN granted

IInv ==
    /\ TokensTypeOK
    /\ DOMAIN calls = Caller
    /\ TableInv
    /\ HeldInv
    /\ RemovingInv

\* The gateway waits for calls of check only, for which there was a grant.
AskingInv ==
    /\ AuthorizationTypeOK
    /\ AdmittedHeldAGrant
    /\ \A c \in DOMAIN asking : calls[c].phase \in Checking

-----------------------------------------------------------------------------
\* What the phase of a call says of its other fields.
LEMMA CallFields ==
    ASSUME TokensTypeOK, NEW c \in Caller
    PROVE  /\ calls[c].phase \in Checking =>
                 /\ calls[c].token \in Token
                 /\ calls[c].entity \in Row
                 /\ calls[c] = [ phase |-> calls[c].phase, token |-> calls[c].token,
                                 entity |-> calls[c].entity ]
           /\ calls[c].phase = "remove" => calls[c].token \in Token
           /\ calls[c] = Idle <=> calls[c].phase \notin Checking \cup {"remove"}
BY DEF TokensTypeOK, Checking, Idle

\* A call is over, or another one has begun to remove: nothing new is held.
LEMMA CallReleased ==
    ASSUME IInv, NEW c \in Caller, NEW k,
           \/ k = Idle
           \/ \E t \in DOMAIN rows : k = [ phase |-> "remove", token |-> t ],
           calls' = [ calls EXCEPT ![c] = k ],
           UNCHANGED <<today, rows, granted, removed, overlapped>>
    PROVE  IInv'
<1>1. k.phase \notin Checking
  BY DEF Idle, Checking
<1>2. /\ DOMAIN calls' = Caller
      /\ calls'[c] = k
      /\ \A d \in Caller \ {c} : calls'[d] = calls[d]
  BY DEF IInv
<1>3. TokensTypeOK'
  BY <1>2 DEF IInv, TokensTypeOK
<1>4. TableInv'
  BY DEF IInv, TableInv, AsGranted, RemovedInPeace
<1>5. HeldInv'
  BY <1>1, <1>2 DEF IInv, HeldInv, AsGranted, RemovedInPeace
<1>6. RemovingInv'
  BY <1>2 DEF IInv, TableInv, AsGranted, RemovingInv, Idle
<1> QED
  BY <1>2, <1>3, <1>4, <1>5, <1>6 DEF IInv

LEMMA InvInit == Init => IInv
<1> SUFFICES ASSUME Init PROVE IInv
  OBVIOUS
<1>1. DOMAIN rows = {} /\ DOMAIN granted = {} /\ removed = {} /\ DOMAIN calls = Caller
  BY DEF Init
<1>2. \A c \in Caller : calls[c] = Idle /\ Idle.phase \notin Checking
  BY DEF Init, Idle, Checking
<1>3. TokensTypeOK
  BY <1>1, <1>2, TokensAssumption DEF Init, TokensTypeOK, Day, TokensAssumption
<1> QED
  BY <1>1, <1>2, <1>3 DEF IInv, TableInv, HeldInv, RemovingInv, Idle

\* A row of its own for a token that nobody has seen before.
LEMMA GenerateStep ==
    ASSUME IInv, NEW t \in Token, NEW owner \in Owner, Generate(t, owner)
    PROVE  IInv'
<1>1. PICK expiry \in {Never} \cup (today + 1 .. Horizon) :
          LET row == [ owner |-> owner, expiry |-> expiry, lastUsedAt |-> Never ]
          IN  rows' = Put(rows, t, row) /\ granted' = Put(granted, t, row)
  BY DEF Generate
<1> DEFINE row == [ owner |-> owner, expiry |-> expiry, lastUsedAt |-> Never ]
<1>2. today \in Nat /\ today \in Day
  BY TokensAssumption DEF IInv, TokensTypeOK, Day, TokensAssumption
<1>3. row \in Row
  <2>1. expiry \in Day \cup {Never}
    BY <1>2, TokensAssumption DEF Day, TokensAssumption
  <2> QED
    BY <2>1 DEF Row
<1>4. t \notin DOMAIN granted /\ t \notin removed
  BY DEF IInv, RemovingInv, Generate
<1>5. /\ DOMAIN rows' = DOMAIN rows \cup {t}
      /\ DOMAIN granted' = DOMAIN granted \cup {t}
      /\ rows'[t] = row /\ granted'[t] = row
      /\ \A u \in DOMAIN rows \ {t} : rows'[u] = rows[u]
      /\ \A u \in DOMAIN granted \ {t} : granted'[u] = granted[u]
  BY <1>1 DEF Put
<1>6. /\ UNCHANGED <<today, calls, removed, overlapped>>
      /\ RemovedInPeace' = RemovedInPeace
  BY DEF Generate, RemovedInPeace
<1>7. \A u, r : AsGranted(u, r) => AsGranted(u, r)'
  BY <1>4, <1>5 DEF AsGranted
<1>8. TokensTypeOK'
  BY <1>3, <1>5, <1>6 DEF IInv, TokensTypeOK
<1>9. TableInv'
  <2>1. AsGranted(t, row)' /\ t \notin RemovedInPeace'
    BY <1>4, <1>5, <1>6 DEF AsGranted, RemovedInPeace
  <2> QED
    BY <1>5, <1>6, <1>7, <2>1 DEF IInv, TableInv
<1>10. HeldInv'
  BY <1>6, <1>7 DEF IInv, HeldInv
<1>11. RemovingInv'
  BY <1>5, <1>6 DEF IInv, RemovingInv
<1> QED
  BY <1>6, <1>8, <1>9, <1>10, <1>11 DEF IInv

\* What check reads is as granted, and only lastUsedAt of it is changed.
LEMMA CheckFindsStep ==
    ASSUME IInv, NEW c \in Caller, NEW t \in Token, NEW owners,
           CheckFinds(c, t, owners)
    PROVE  /\ IInv'
           /\ calls'[c].phase \in Checking
           /\ calls'[c].token = t
<1> DEFINE e == [ rows[t] EXCEPT !.lastUsedAt = today ]
<1>1. /\ t \in DOMAIN rows
      /\ calls' = [ calls EXCEPT ![c] = [ phase |-> "found", token |-> t, entity |-> e ] ]
      /\ UNCHANGED <<today, rows, granted, removed, overlapped>>
  BY DEF CheckFinds, Acceptable
<1>2. rows[t] \in Row /\ today \in Day
  BY <1>1 DEF IInv, TokensTypeOK
<1>3. e \in Row /\ e.owner = rows[t].owner /\ e.expiry = rows[t].expiry
  BY <1>2 DEF Row
<1> HIDE DEF e
<1>4. /\ DOMAIN calls' = Caller
      /\ calls'[c] = [ phase |-> "found", token |-> t, entity |-> e ]
      /\ \A d \in Caller \ {c} : calls'[d] = calls[d]
  BY <1>1 DEF IInv
<1>5. TokensTypeOK'
  BY <1>1, <1>3, <1>4 DEF IInv, TokensTypeOK
<1>6. AsGranted(t, rows[t]) /\ t \notin RemovedInPeace
  BY <1>1 DEF IInv, TableInv
<1>7. HeldInv'
  BY <1>1, <1>3, <1>4, <1>6 DEF IInv, HeldInv, AsGranted, RemovedInPeace
<1>8. TableInv'
  BY <1>1 DEF IInv, TableInv, AsGranted, RemovedInPeace
<1>9. RemovingInv'
  BY <1>1, <1>4 DEF IInv, RemovingInv
<1> QED
  BY <1>4, <1>5, <1>7, <1>8, <1>9 DEF IInv, Checking

LEMMA SaveSelectsStep ==
    ASSUME IInv, NEW c \in Caller, SaveSelects(c)
    PROVE  /\ IInv'
           /\ \A d \in Caller :
                 /\ calls'[d].token = calls[d].token
                 /\ calls[d].phase \in Checking => calls'[d].phase \in Checking
<1> DEFINE next == IF calls[c].token \in DOMAIN rows THEN "update" ELSE "insert"
<1>1. /\ calls[c].phase = "found"
      /\ calls' = [ calls EXCEPT ![c].phase = next ]
      /\ UNCHANGED <<today, rows, granted, removed, overlapped>>
  BY DEF SaveSelects
<1>2. /\ calls[c].token \in Token /\ calls[c].entity \in Row
      /\ calls[c] = [ phase |-> "found", token |-> calls[c].token,
                      entity |-> calls[c].entity ]
  BY <1>1, CallFields DEF IInv, Checking
<1>3. next \in {"update", "insert"}
  OBVIOUS
<1> HIDE DEF next
<1>4. /\ DOMAIN calls' = Caller
      /\ calls'[c] = [ phase |-> next, token |-> calls[c].token,
                       entity |-> calls[c].entity ]
      /\ \A d \in Caller \ {c} : calls'[d] = calls[d]
  BY <1>1, <1>2 DEF IInv
<1>5. TokensTypeOK'
  BY <1>1, <1>2, <1>3, <1>4 DEF IInv, TokensTypeOK
<1>6. AsGranted(calls[c].token, calls[c].entity) /\ calls[c].token \notin RemovedInPeace
  BY <1>1 DEF IInv, HeldInv, Checking
<1>7. HeldInv'
  BY <1>1, <1>4, <1>6 DEF IInv, HeldInv, AsGranted, RemovedInPeace
<1>8. TableInv'
  BY <1>1 DEF IInv, TableInv, AsGranted, RemovedInPeace
<1>9. RemovingInv'
  BY <1>1, <1>3, <1>4 DEF IInv, RemovingInv
<1> QED
  BY <1>1, <1>3, <1>4, <1>5, <1>7, <1>8, <1>9 DEF IInv, Checking

\* Whatever becomes of the row, what is written is as granted.
LEMMA SaveEndsStep ==
    ASSUME IInv, NEW c \in Caller, SaveEnds(c)
    PROVE  IInv'
<1> DEFINE t == calls[c].token
           e == calls[c].entity
<1>1. /\ calls[c].phase \in Checking
      /\ calls' = [ calls EXCEPT ![c] = Idle ]
      /\ UNCHANGED <<today, granted, removed, overlapped>>
  BY DEF SaveEnds, SaveUpdates, SaveInserts, Checking
<1>2. t \in Token /\ e \in Row
  BY <1>1, CallFields DEF IInv
<1>3. AsGranted(t, e) /\ t \notin RemovedInPeace
  BY <1>1 DEF IInv, HeldInv
<1>4. /\ DOMAIN rows' \subseteq DOMAIN rows \cup {t}
      /\ \A u \in DOMAIN rows' :
            (u = t /\ rows'[u] = e) \/ (u \in DOMAIN rows /\ rows'[u] = rows[u])
  BY DEF SaveEnds, SaveUpdates, SaveInserts, Put
<1>5. /\ DOMAIN calls' = Caller
      /\ calls'[c] = Idle
      /\ \A d \in Caller \ {c} : calls'[d] = calls[d]
  BY <1>1 DEF IInv
<1> HIDE DEF t, e
<1>6. TokensTypeOK'
  BY <1>1, <1>2, <1>4, <1>5 DEF IInv, TokensTypeOK
<1>7. TableInv'
  BY <1>1, <1>3, <1>4 DEF IInv, TableInv, AsGranted, RemovedInPeace
<1>8. HeldInv'
  BY <1>1, <1>5 DEF IInv, HeldInv, AsGranted, RemovedInPeace, Idle, Checking
<1>9. RemovingInv'
  BY <1>1, <1>5 DEF IInv, RemovingInv, Idle
<1> QED
  BY <1>5, <1>6, <1>7, <1>8, <1>9 DEF IInv

\* A token that is deleted while nobody holds it is out of everyone's reach; one
\* that somebody holds has not been removed in peace.
LEMMA RemoveDeletesStep ==
    ASSUME IInv, NEW c \in Caller, RemoveDeletes(c)
    PROVE  IInv'
<1> DEFINE t == calls[c].token
<1>1. /\ calls[c].phase = "remove"
      /\ rows' = Drop(rows, t)
      /\ removed' = removed \cup {t}
      /\ overlapped' = IF BeingChecked(t) THEN overlapped \cup {t} ELSE overlapped
      /\ calls' = [ calls EXCEPT ![c] = Idle ]
      /\ UNCHANGED <<today, granted>>
  BY DEF RemoveDeletes
<1>2. t \in Token /\ t \in DOMAIN granted
  BY <1>1, CallFields DEF IInv, RemovingInv
<1>3. DOMAIN rows' = DOMAIN rows \ {t} /\ \A u \in DOMAIN rows' : rows'[u] = rows[u]
  BY <1>1 DEF Drop
<1>4. /\ DOMAIN calls' = Caller
      /\ calls'[c] = Idle
      /\ \A d \in Caller \ {c} : calls'[d] = calls[d]
  BY <1>1 DEF IInv
<1>5. \A d \in Caller : calls[d].phase \in Checking /\ calls[d].token = t => t \in overlapped'
  BY <1>1 DEF BeingChecked, Checking
<1> HIDE DEF t
<1>6. \A u : u # t => (u \in RemovedInPeace' <=> u \in RemovedInPeace)
  BY <1>1 DEF RemovedInPeace
<1>7. TokensTypeOK'
  BY <1>1, <1>2, <1>3, <1>4 DEF IInv, TokensTypeOK
<1>8. TableInv'
  BY <1>1, <1>3, <1>6 DEF IInv, TableInv, AsGranted
<1>9. HeldInv'
  <2> SUFFICES ASSUME NEW d \in Caller, calls'[d].phase \in Checking
               PROVE  /\ AsGranted(calls[d].token, calls[d].entity)
                      /\ calls'[d] = calls[d]
                      /\ calls[d].token \notin RemovedInPeace'
    BY <1>1 DEF HeldInv, AsGranted
  <2>1. d # c /\ calls'[d] = calls[d]
    BY <1>4 DEF Idle, Checking
  <2>2. AsGranted(calls[d].token, calls[d].entity) /\ calls[d].token \notin RemovedInPeace
    BY <2>1 DEF IInv, HeldInv
  <2>3. CASE calls[d].token = t
    BY <1>5, <2>1, <2>2, <2>3 DEF RemovedInPeace
  <2>4. CASE calls[d].token # t
    BY <1>6, <2>1, <2>2, <2>4
  <2> QED
    BY <2>3, <2>4
<1>10. RemovingInv'
  BY <1>1, <1>2, <1>4 DEF IInv, RemovingInv, Idle
<1> QED
  BY <1>4, <1>7, <1>8, <1>9, <1>10 DEF IInv

\* A day ends: no row and no call changes.
LEMMA DayStep ==
    ASSUME IInv, DayPasses
    PROVE  IInv'
<1>1. today \in Nat /\ today < Horizon /\ today' = today + 1
      /\ UNCHANGED <<rows, calls, granted, removed, overlapped>>
  BY TokensAssumption DEF DayPasses, IInv, TokensTypeOK, Day, TokensAssumption
<1>2. today' \in Day
  BY <1>1, TokensAssumption DEF Day, TokensAssumption
<1>3. TokensTypeOK'
  BY <1>1, <1>2 DEF IInv, TokensTypeOK
<1>4. TableInv' /\ HeldInv' /\ RemovingInv'
  BY <1>1 DEF IInv, TableInv, HeldInv, RemovingInv, AsGranted, RemovedInPeace
<1> QED
  BY <1>1, <1>3, <1>4 DEF IInv

LEMMA InvStep == IInv /\ [Next]_vars => IInv'
<1> SUFFICES ASSUME IInv, [Next]_vars PROVE IInv'
  OBVIOUS
<1>1. CASE \E t \in Token, owner \in Owner : Generate(t, owner)
  BY <1>1, GenerateStep
<1>2. ASSUME NEW c \in Caller, NEW t \in Token,
             NEW owners \in {Owner} \cup { {o} : o \in Owner }, CheckFinds(c, t, owners)
      PROVE  IInv'
  BY <1>2, CheckFindsStep
<1>3. ASSUME NEW c \in Caller, SaveSelects(c) PROVE IInv'
  BY <1>3, SaveSelectsStep
<1>4. ASSUME NEW c \in Caller, SaveUpdates(c) \/ SaveInserts(c) PROVE IInv'
  BY <1>4, SaveEndsStep DEF SaveEnds
<1>5. ASSUME NEW c \in Caller, NEW t \in Token, RemoveFinds(c, t) PROVE IInv'
  BY <1>5, CallReleased DEF RemoveFinds
<1>6. ASSUME NEW c \in Caller, RemoveDeletes(c) PROVE IInv'
  BY <1>6, RemoveDeletesStep
<1>7. ASSUME NEW c \in Caller, CallFails(c) PROVE IInv'
  BY <1>7, CallReleased DEF CallFails
<1>8. CASE DayPasses
  BY <1>8, DayStep
<1>9. CASE UNCHANGED vars
  BY <1>9 DEF vars, IInv, TokensTypeOK, TableInv, HeldInv, RemovingInv, AsGranted,
              RemovedInPeace
<1> QED
  BY <1>1, <1>2, <1>3, <1>4, <1>5, <1>6, <1>7, <1>8, <1>9 DEF Next, ClearExpired

LEMMA TokensInvariant == Spec => []IInv
<1>1. Init => IInv
  BY InvInit
<1>2. IInv /\ [Next]_vars => IInv'
  BY InvStep
<1> QED
  BY <1>1, <1>2, PTL DEF Spec

-----------------------------------------------------------------------------
(***************************************************************************)
(* The gateway's authorizations are calls of the tokens service like any   *)
(* others: whatever the composition does, the tokens service has done.     *)
(***************************************************************************)
LEMMA AuthorizationStepIsTokensStep ==
    [AuthorizationNext]_authorizationVars => [Next]_vars
<1> SUFFICES ASSUME [AuthorizationNext]_authorizationVars PROVE [Next]_vars
  OBVIOUS
<1>1. ASSUME NEW request \in Request, NEW c \in Caller, AuthorizeChecks(c, request)
      PROVE  Next
  <2>1. KeyOf(request) \in Token
    BY <1>1 DEF AuthorizeChecks, KeyOf, Request
  <2> QED
    BY <1>1, <2>1 DEF AuthorizeChecks, Next
<1>2. ASSUME NEW request \in Request, AuthorizeRefuses(request)
      PROVE  UNCHANGED vars
  BY <1>2 DEF AuthorizeRefuses, authorizationVars
<1>3. ASSUME NEW c \in Caller, AuthorizeAdmits(c) \/ AuthorizeFails(c)
      PROVE  Next
  BY <1>3 DEF AuthorizeAdmits, AuthorizeFails, SaveEnds, Next
<1>4. CASE TokensGoOn
  BY <1>4 DEF TokensGoOn, SaveEnds, Next
<1>5. CASE UNCHANGED authorizationVars
  BY <1>5 DEF authorizationVars
<1> QED
  BY <1>1, <1>2, <1>3, <1>4, <1>5 DEF AuthorizationNext

(***************************************************************************)
(* The websocket gateway's authorization on top of the tokens service      *)
(* (services/ws.service.ts) implements the tokens service by itself.       *)
(***************************************************************************)
THEOREM AuthorizationImplementsTokens == AuthorizationSpec => Spec
<1>1. AuthorizationInit => Init
  BY DEF AuthorizationInit
<1>2. [AuthorizationNext]_authorizationVars => [Next]_vars
  BY AuthorizationStepIsTokensStep
<1> QED
  BY <1>1, <1>2, PTL DEF AuthorizationSpec, Spec

(***************************************************************************)
(* GrantIsFixed: no interleaving of checks, saves, removals and failures,  *)
(* of the gateway's calls or of anyone's, changes whose a token is or when *)
(* it expires, although check saves the whole entity it has read earlier.  *)
(***************************************************************************)
THEOREM GrantIsFixedAlways == AuthorizationSpec => []GrantIsFixed
<1>1. AuthorizationSpec => []IInv
  BY AuthorizationImplementsTokens, TokensInvariant
<1>2. IInv => GrantIsFixed
  BY DEF IInv, TableInv, AsGranted, GrantIsFixed
<1> QED
  BY <1>1, <1>2, PTL

(***************************************************************************)
(* What remains of "remove an invalidated token" (tokens.service.ts:153),  *)
(* which a save of check can undo: a token that is removed while no check  *)
(* of it is in progress never comes back, although saves go on.            *)
(***************************************************************************)
THEOREM RemovedInPeaceIsGone ==
    AuthorizationSpec => [](\A t \in RemovedInPeace : t \notin DOMAIN rows)
<1>1. AuthorizationSpec => []IInv
  BY AuthorizationImplementsTokens, TokensInvariant
<1>2. IInv => \A t \in RemovedInPeace : t \notin DOMAIN rows
  BY DEF IInv, TableInv
<1> QED
  BY <1>1, <1>2, PTL

-----------------------------------------------------------------------------
\* A grant is made once.
LEMMA GrantsStay ==
    ASSUME TokensTypeOK, [Next]_vars
    PROVE  /\ DOMAIN granted \subseteq DOMAIN granted'
           /\ \A t \in DOMAIN granted : granted'[t] = granted[t]
<1>1. ASSUME NEW t \in Token, NEW owner \in Owner, Generate(t, owner)
      PROVE  /\ DOMAIN granted \subseteq DOMAIN granted'
             /\ \A u \in DOMAIN granted : granted'[u] = granted[u]
  BY <1>1 DEF Generate, Put
<1>2. CASE UNCHANGED granted
  BY <1>2
<1> QED
  BY <1>1, <1>2 DEF Next, vars, CheckFinds, SaveSelects, SaveUpdates, SaveInserts,
     RemoveFinds, RemoveDeletes, CallFails, ClearExpired, DayPasses

\* A call that the gateway does not wait for may do as it likes.
LEMMA OthersKeepAsking ==
    ASSUME IInv, AskingInv, IInv', UNCHANGED asking,
           \A t \in DOMAIN granted : t \in DOMAIN granted' /\ granted'[t] = granted[t],
           \A c \in DOMAIN asking :
               calls'[c].token = calls[c].token /\ calls'[c].phase \in Checking
    PROVE  AskingInv'
<1>1. \A c \in DOMAIN asking : calls'[c] # Idle
  BY DEF Idle, Checking
<1>2. AuthorizationTypeOK'
  BY <1>1 DEF IInv, AskingInv, AuthorizationTypeOK, Authorized, Day
<1>3. AdmittedHeldAGrant'
  BY DEF AskingInv, AdmittedHeldAGrant
<1> QED
  BY <1>2, <1>3 DEF AskingInv

LEMMA AskingInit == AuthorizationInit => AskingInv
<1> SUFFICES ASSUME AuthorizationInit PROVE AskingInv
  OBVIOUS
<1>1. DOMAIN asking = {} /\ TokensTypeOK
  BY InvInit DEF AuthorizationInit, IInv
<1> QED
  BY <1>1 DEF AskingInv, AuthorizationTypeOK, AdmittedHeldAGrant

\* What check accepts is in the table as it was granted, has not expired today,
\* and has not been removed in peace.
LEMMA AuthorizeChecksStep ==
    ASSUME IInv, AskingInv, NEW c \in Caller, NEW request \in Request,
           AuthorizeChecks(c, request)
    PROVE  AskingInv'
<1> DEFINE t == KeyOf(request)
           a == [ token |-> t, day |-> today, late |-> FALSE ]
<1>1. t \in Token
  BY DEF AuthorizeChecks, KeyOf, Request
<1>2. /\ CheckFinds(c, t, Owner)
      /\ asking' = Put(asking, c, [ token |-> t, day |-> today, late |-> t \in RemovedInPeace ])
  BY DEF AuthorizeChecks
<1> HIDE DEF t
<1>3. IInv' /\ calls'[c].phase \in Checking /\ calls'[c].token = t
  BY <1>1, <1>2, CheckFindsStep
<1>4. /\ t \in DOMAIN rows
      /\ rows[t].expiry # Never => rows[t].expiry >= today
      /\ \A d \in Caller \ {c} : calls'[d] = calls[d]
      /\ UNCHANGED <<today, granted>>
  BY <1>2 DEF CheckFinds, Acceptable, IInv
<1>5. AsGranted(t, rows[t]) /\ t \notin RemovedInPeace
  BY <1>4 DEF IInv, TableInv
<1>6. asking' = Put(asking, c, a)
  <2>1. (t \in RemovedInPeace) = FALSE
    BY <1>5
  <2> QED
    BY <1>2, <2>1, Zenon
<1>7. /\ DOMAIN asking' = DOMAIN asking \cup {c}
      /\ asking'[c] = a
      /\ \A d \in DOMAIN asking \ {c} : asking'[d] = asking[d]
  BY <1>6 DEF Put
<1>8. a \in Authorized
  <2>1. today \in Day
    BY DEF IInv, TokensTypeOK
  <2> QED
    BY <1>1, <2>1 DEF Authorized
<1>9. \A d \in DOMAIN asking' : calls'[d].phase \in Checking
  BY <1>3, <1>4, <1>7 DEF AskingInv, AuthorizationTypeOK
<1>10. AuthorizationTypeOK'
  <2>1. \A d \in DOMAIN asking' : calls'[d] # Idle
    BY <1>9 DEF Idle, Checking
  <2>2. \A d \in DOMAIN asking \ {c} :
           asking'[d] \in Authorized /\ calls'[d].token = asking'[d].token
    BY <1>4, <1>7 DEF AskingInv, AuthorizationTypeOK
  <2>3. asking'[c] \in Authorized /\ calls'[c].token = asking'[c].token
    BY <1>3, <1>7, <1>8
  <2>4. DOMAIN asking' \subseteq Caller
    BY <1>7 DEF AskingInv, AuthorizationTypeOK
  <2>5. \A d \in DOMAIN asking' :
           asking'[d] \in Authorized /\ calls'[d].token = asking'[d].token
    BY <1>7, <2>2, <2>3
  <2> QED
    BY <1>3, <2>1, <2>4, <2>5 DEF AuthorizationTypeOK, IInv, Authorized, Day
<1>11. AdmittedHeldAGrant'
  <2>1. \A d \in DOMAIN asking \ {c} :
           /\ asking'[d].token \in DOMAIN granted'
           /\ granted'[asking'[d].token].expiry # Never
                 => asking'[d].day <= granted'[asking'[d].token].expiry
           /\ ~asking'[d].late
    BY <1>4, <1>7 DEF AskingInv, AdmittedHeldAGrant
  <2>2. /\ t \in DOMAIN granted'
        /\ granted'[t].expiry # Never => today <= granted'[t].expiry
    <3>1. rows[t] \in Row /\ today \in Day
      BY <1>4 DEF IInv, TokensTypeOK
    <3>2. today \in Int /\ (rows[t].expiry # Never => rows[t].expiry \in Int)
      BY <3>1, TokensAssumption DEF Row, Day, TokensAssumption
    <3> QED
      BY <1>4, <1>5, <3>2 DEF AsGranted
  <2>3. asking'[c].token = t /\ asking'[c].day = today /\ asking'[c].late = FALSE
    BY <1>7
  <2> QED
    BY <1>7, <2>1, <2>2, <2>3 DEF AdmittedHeldAGrant
<1> QED
  BY <1>9, <1>10, <1>11 DEF AskingInv

\* The answer has been given: the gateway waits for one call less.
LEMMA AuthorizeAnswersStep ==
    ASSUME IInv, IInv', AskingInv, NEW c \in Caller,
           AuthorizeAdmits(c) \/ AuthorizeFails(c)
    PROVE  AskingInv'
<1>1. /\ calls' = [ calls EXCEPT ![c] = Idle ]
      /\ UNCHANGED granted
      /\ asking' = Drop(asking, c)
  BY DEF AuthorizeAdmits, AuthorizeFails, SaveEnds, SaveUpdates, SaveInserts, CallFails
<1>2. /\ DOMAIN asking' = DOMAIN asking \ {c}
      /\ \A d \in DOMAIN asking' : asking'[d] = asking[d] /\ calls'[d] = calls[d]
  BY <1>1 DEF Drop, IInv, AskingInv, AuthorizationTypeOK
<1>3. AuthorizationTypeOK'
  BY <1>2 DEF IInv, AskingInv, AuthorizationTypeOK, Authorized, Day
<1>4. AdmittedHeldAGrant'
  BY <1>1, <1>2 DEF AskingInv, AdmittedHeldAGrant
<1> QED
  BY <1>2, <1>3, <1>4 DEF AskingInv

LEMMA TokensGoOnStep ==
    ASSUME IInv, IInv', AskingInv, TokensGoOn
    PROVE  AskingInv'
<1>1. UNCHANGED asking
  BY DEF TokensGoOn
<1>2. \A t \in DOMAIN granted : t \in DOMAIN granted' /\ granted'[t] = granted[t]
  <2>1. [AuthorizationNext]_authorizationVars
    BY DEF AuthorizationNext
  <2> QED
    BY <2>1, AuthorizationStepIsTokensStep, GrantsStay DEF IInv
<1>3. \A c \in DOMAIN asking : c \in Caller /\ calls[c].phase \in Checking
  BY DEF AskingInv, AuthorizationTypeOK
<1> SUFFICES \A d \in DOMAIN asking :
                calls'[d].token = calls[d].token /\ calls'[d].phase \in Checking
  BY <1>1, <1>2, OthersKeepAsking
<1>4. CASE UNCHANGED calls
  BY <1>3, <1>4
<1>5. ASSUME NEW c \in Caller, SaveSelects(c)
      PROVE  \A d \in DOMAIN asking :
                calls'[d].token = calls[d].token /\ calls'[d].phase \in Checking
  BY <1>3, <1>5, SaveSelectsStep
<1>6. ASSUME NEW c \in Caller, c \notin DOMAIN asking,
             \A d \in Caller \ {c} : calls'[d] = calls[d]
      PROVE  \A d \in DOMAIN asking :
                calls'[d].token = calls[d].token /\ calls'[d].phase \in Checking
  BY <1>3, <1>6
<1>7. ASSUME NEW c \in Caller,
             \/ \E t \in Token : RemoveFinds(c, t)
             \/ RemoveDeletes(c)
             \/ c \notin DOMAIN asking /\ (SaveEnds(c) \/ CallFails(c))
             \/ \E t \in Token, o \in Owner : CheckFinds(c, t, {o})
      PROVE  c \notin DOMAIN asking /\ \A d \in Caller \ {c} : calls'[d] = calls[d]
  <2>1. \A d \in Caller \ {c} : calls'[d] = calls[d]
    BY <1>7 DEF IInv, RemoveFinds, RemoveDeletes, SaveEnds, SaveUpdates, SaveInserts,
                CallFails, CheckFinds
  <2>2. calls[c] = Idle \/ calls[c].phase = "remove" \/ c \notin DOMAIN asking
    BY <1>7 DEF RemoveFinds, RemoveDeletes, CheckFinds
  <2>3. c \notin DOMAIN asking
    BY <1>3, <2>2 DEF Idle, Checking
  <2> QED
    BY <2>1, <2>3
<1> QED
  <2>1. CASE \/ \E t \in Token, owner \in Owner : Generate(t, owner)
             \/ ClearExpired
             \/ DayPasses
    BY <1>4, <2>1 DEF Generate, ClearExpired, DayPasses, vars
  <2> QED
    BY <1>5, <1>6, <1>7, <2>1 DEF TokensGoOn

LEMMA AskingStep ==
    IInv /\ IInv' /\ AskingInv /\ [AuthorizationNext]_authorizationVars => AskingInv'
<1> SUFFICES ASSUME IInv, IInv', AskingInv, [AuthorizationNext]_authorizationVars
             PROVE  AskingInv'
  OBVIOUS
<1>1. CASE UNCHANGED authorizationVars
  BY <1>1 DEF authorizationVars, vars, AskingInv, AuthorizationTypeOK, TokensTypeOK,
              AdmittedHeldAGrant
<1>2. CASE TokensGoOn
  BY <1>2, TokensGoOnStep
<1> QED
  BY <1>1, <1>2, AuthorizeChecksStep, AuthorizeAnswersStep
     DEF AuthorizationNext, AuthorizeRefuses

LEMMA AuthorizationInvariant == AuthorizationSpec => [](IInv /\ AskingInv)
<1>1. AuthorizationInit => IInv /\ AskingInv
  BY InvInit, AskingInit DEF AuthorizationInit
<1>2. IInv /\ AskingInv /\ [AuthorizationNext]_authorizationVars => IInv' /\ AskingInv'
  BY AuthorizationStepIsTokensStep, InvStep, AskingStep
<1> QED
  BY <1>1, <1>2, PTL DEF AuthorizationSpec

(***************************************************************************)
(* The tokens, the calls in progress and the answers the gateway waits for *)
(* keep the shape of their declarations.                                   *)
(***************************************************************************)
THEOREM AuthorizationTypeCorrect == AuthorizationSpec => []AuthorizationTypeOK
<1>1. AskingInv => AuthorizationTypeOK
  BY DEF AskingInv
<1> QED
  BY <1>1, AuthorizationInvariant, PTL

(***************************************************************************)
(* AdmittedHeldAGrant: whoever handleAuthorize lets in has presented a key *)
(* that tokens.generate made, that was good on the day of the request and  *)
(* that nobody had removed in peace, for any number of concurrent calls.   *)
(***************************************************************************)
THEOREM AdmittedHeldAGrantAlways == AuthorizationSpec => []AdmittedHeldAGrant
<1>1. AskingInv => AdmittedHeldAGrant
  BY DEF AskingInv
<1> QED
  BY <1>1, AuthorizationInvariant, PTL
=============================================================================
