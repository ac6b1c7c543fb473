--------------------------- MODULE BuildExpiries ---------------------------
(***************************************************************************)
(* The choice of the near and next term from the instruments an exchange   *)
(* lists (src/lib/utils/expiries.ts, buildExpiries).                       *)
(*                                                                         *)
(* An instrument is a symbol with a listing and an expiry moment; moments  *)
(* are integers in whatever unit the module that instantiates this one     *)
(* counts time in, and TimePeriodLength is the time period in that unit.   *)
(***************************************************************************)
EXTENDS Integers

CONSTANTS Symbol,            \* the instruments getInstrumentInfo returns
          ListingOf,         \* Symbol -> moment it is first traded
          ExpiryOf,          \* Symbol -> moment it expires
          TimePeriodLength   \* timePeriodToInteger(timePeriod) days

ASSUME InstrumentAssumption ==
    /\ ListingOf \in [Symbol -> Nat]
    /\ ExpiryOf \in [Symbol -> Nat]
    /\ TimePeriodLength \in Nat \ {0}

(***************************************************************************)
(* Instruments that are listed and not yet expired, and their expiries     *)
(* (the keys of expiryMap, which the code sorts into activeExpiries).      *)
(***************************************************************************)
Available(now) == { s \in Symbol : ListingOf[s] <= now /\ now < ExpiryOf[s] }

ActiveExpiries(now) == { ExpiryOf[s] : s \in Available(now) }

SymbolsOf(now, expiries) == { s \in Available(now) : ExpiryOf[s] \in expiries }

\* The least and the greatest moment of S, as sets: empty when S is.
Least(S) == { e \in S : \A x \in S : e <= x }

Greatest(S) == { e \in S : \A x \in S : x <= e }

(***************************************************************************)
(* delta = expiry - (now + timePeriod): zero or negative makes a candidate *)
(* for the near term, positive one for the next term.                      *)
(***************************************************************************)
NearCandidatesExclusive(now) ==      \* a boundary expiry pushed to next
    { e \in ActiveExpiries(now) : e < now + TimePeriodLength }

NearCandidates(now) ==
    { e \in ActiveExpiries(now) : e <= now + TimePeriodLength }

NextCandidates(now) ==
    { e \in ActiveExpiries(now) : e > now + TimePeriodLength }

(***************************************************************************)
(* An answer of buildExpiries.  future is expiryList[0], the first active  *)
(* expiry after the next term, as a set that is empty when there is none;  *)
(* symbols are the instruments a stream made from this answer asks for.    *)
(***************************************************************************)
Answer(now, near, next, rolloverAt) ==
    LET future == Least({ e \in ActiveExpiries(now) : e > next })
    IN  [ near |-> near, next |-> next, rolloverAt |-> rolloverAt,
          future |-> future,
          symbols |-> SymbolsOf(now, {near, next} \cup future) ]

(***************************************************************************)
(* The answers for a given now: one, or none when the code throws because  *)
(* the near or the next term has no symbols.  rolloverAt is the first      *)
(* active expiry, whatever term it belongs to.                             *)
(***************************************************************************)
buildExpiries(now) ==
    { Answer(now, near, next, rolloverAt) :
          near       \in Greatest(NearCandidates(now)),
          next       \in Least(NextCandidates(now)),
          rolloverAt \in Least(ActiveExpiries(now)) }

ExpiriesRecord ==
    [ near : Nat, next : Nat, rolloverAt : Nat, future : SUBSET Nat,
      symbols : SUBSET Symbol ]
=============================================================================
