--------------------------- MODULE Authorization ---------------------------
(***************************************************************************)
(* The websocket gateway asks the tokens service about every connection    *)
(* and every GET /mfiv (services/ws.service.ts: the action authorize and   *)
(* the methods handleAuthorize and handleAuthorize2).  Other calls of the  *)
(* service, check and remove among them, go on at the same time.           *)
(***************************************************************************)
EXTENDS Tokens

VARIABLE asking   \* caller |-> the authorization check has accepted; the
                  \*   other calls are not from the gateway

authorizationVars == <<vars, asking>>

NoKey == "none"

\* headers.authorization, and apiKey in the query; "other" is a scheme that is
\* not Bearer, of which the key is not looked at.
Request ==
    [ scheme : {"absent"}, header : {NoKey}, query : Token \cup {NoKey} ]
    \cup [ scheme : {"Bearer"}, header : Token \cup {NoKey}, query : Token \cup {NoKey} ]
    \cup [ scheme : {"other"}, header : {NoKey}, query : Token \cup {NoKey} ]

(***************************************************************************)
(* The header wins over the query, even when no key can be taken from it:  *)
(* the query is for browsers, which cannot set a header.                   *)
(***************************************************************************)
KeyOf(request) ==
    CASE request.scheme = "absent" -> request.query
      [] request.scheme = "Bearer" -> request.header
      [] request.scheme = "other"  -> NoKey

AuthorizationInit ==
    /\ Init
    /\ asking = [ c \in {} |-> 0 ]

RemovedInPeace == removed \ overlapped

-----------------------------------------------------------------------------
(***************************************************************************)
(* A request with a key: tokens.check is called, for any owner.  It finds  *)
(* an acceptable row and goes on to save it.                               *)
(***************************************************************************)
AuthorizeChecks(c, request) ==
    /\ KeyOf(request) # NoKey
    /\ CheckFinds(c, KeyOf(request), Owner)
    /\ asking' = Put(asking, c, [ token |-> KeyOf(request), day |-> today,
                                  late |-> KeyOf(request) \in RemovedInPeace ])

\* No key, or check answers false: 401.
AuthorizeRefuses(request) ==
    /\ KeyOf(request) = NoKey \/ ~Acceptable(KeyOf(request), Owner)
    /\ UNCHANGED authorizationVars

SaveEnds(c) == SaveUpdates(c) \/ SaveInserts(c)

\* check answers true: success.
AuthorizeAdmits(c) ==
    /\ c \in DOMAIN asking
    /\ SaveEnds(c)
    /\ asking' = Drop(asking, c)

\* An error of check is an error of the authorization.
AuthorizeFails(c) ==
    /\ c \in DOMAIN asking
    /\ CallFails(c)
    /\ asking' = Drop(asking, c)

\* The steps of the tokens service that do not end a call of the gateway.
TokensGoOn ==
    /\ \/ \E t \in Token, owner \in Owner : Generate(t, owner)
       \/ \E c \in Caller :
             \/ SaveSelects(c)
             \/ \E t \in Token : RemoveFinds(c, t)
             \/ RemoveDeletes(c)
             \/ c \notin DOMAIN asking /\ (SaveEnds(c) \/ CallFails(c))
       \/ \E c \in Caller, t \in Token, o \in Owner : CheckFinds(c, t, {o})
       \/ ClearExpired
       \/ DayPasses
    /\ UNCHANGED asking

AuthorizationNext ==
    \/ \E request \in Request :
          \/ \E c \in Caller : AuthorizeChecks(c, request)
          \/ AuthorizeRefuses(request)
    \/ \E c \in Caller : AuthorizeAdmits(c) \/ AuthorizeFails(c)
    \/ TokensGoOn

AuthorizationSpec == AuthorizationInit /\ [][AuthorizationNext]_authorizationVars

-----------------------------------------------------------------------------
Authorized == [ token : Token, day : Day, late : BOOLEAN ]

(***************************************************************************)
(* Every variable, those of the tokens service included, has the shape of  *)
(* its declaration.                                                        *)
(***************************************************************************)
AuthorizationTypeOK ==
    /\ TokensTypeOK
    /\ DOMAIN asking \subseteq Caller
    /\ \A c \in DOMAIN asking :
          /\ asking[c] \in Authorized
          /\ calls[c] # Idle /\ calls[c].token = asking[c].token

(***************************************************************************)
(* Whoever is about to be let in has presented a key that was generated,   *)
(* that had not expired on the day of the request by the expiry it was     *)
(* generated with, and that had not been removed in peace before it: the   *)
(* answer of check comes after two more statements, from an entity whose   *)
(* row other calls may have written meanwhile.                             *)
(***************************************************************************)
AdmittedHeldAGrant ==
    \A c \in DOMAIN asking :
        LET a == asking[c]
        IN  /\ a.token \in DOMAIN granted
            /\ granted[a.token].expiry # Never => a.day <= granted[a.token].expiry
            /\ ~a.late
=============================================================================
