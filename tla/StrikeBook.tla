----------------------------- MODULE StrikeBook -----------------------------
(***************************************************************************)
(* The book of one term as the superseded calculator uses it               *)
(* (src/lib/vix_calculator.ts): midBookChange keeps a price per            *)
(* option, and calculateIndex picks a forward price, the strike next to it *)
(* and the "final book" of out-of-the-money options around that strike,    *)
(* whose contributions it sums.  Each of these can fail, which the         *)
(* calculator takes for a book that is not filled yet.                     *)
(*                                                                         *)
(* Prices are counted in half units, so that the mean of a bid and an ask  *)
(* is their sum.  The growth factor of the forward price is taken as 1.    *)
(***************************************************************************)
EXTENDS Integers, SequencesExt

CONSTANTS Strike,   \* the strikes the exchange lists
          Price     \* bound: bids, asks and marks; 0 is "none"

ASSUME StrikeBookAssumption ==
    /\ Strike \subseteq Nat \ {0} /\ Strike # {} /\ IsFiniteSet(Strike)
    /\ Price \subseteq Nat

Option == Strike \X {"C", "P"}

VARIABLE mids   \* midBook: option |-> price in half units; see NoMid

NoMid == 0      \* the option has no entry

MidsInit == mids = [ o \in Option |-> NoMid ]

\* A price of 0 or undefined is not stored: the earlier one stays.
MidOf(bid, ask, mark) ==
    IF bid = 0 THEN NoMid
    ELSE IF ask + bid >= 3 * mark THEN 2 * mark ELSE ask + bid

midBookChange(o, bid, ask, mark) ==
    /\ MidOf(bid, ask, mark) # NoMid
    /\ mids' = [ mids EXCEPT ![o] = MidOf(bid, ask, mark) ]

MidsNext ==
    \E o \in Option, bid, ask, mark \in Price : midBookChange(o, bid, ask, mark)

MidsSpec == MidsInit /\ [][MidsNext]_mids

-----------------------------------------------------------------------------
Quoted(o) == mids[o] # NoMid

HasPair(k) == Quoted(<<k, "C">>) /\ Quoted(<<k, "P">>)

Spread(k) == mids[<<k, "C">>] - mids[<<k, "P">>]

Distance(k) == IF Spread(k) < 0 THEN -Spread(k) ELSE Spread(k)

\* forwardPriceGet, in half units: from the pair whose prices are closest (of
\* several the one listed first), or not a number when there is no pair.
forwardPriceGet ==
    { 2 * k + Spread(k) : k \in { k \in Strike :
          HasPair(k) /\ \A l \in Strike : HasPair(l) => Distance(k) <= Distance(l) } }

\* 0 when all strikes lie above the forward price.
adjacentStrikeGet(forward) == Max({0} \cup { k \in Strike : 2 * k <= forward })

OutOfTheMoneyOrAt(target) ==   \* <= and >=, the pair counted besides its mean
    { o \in Option : Quoted(o) /\ (IF o[2] = "P" THEN o[1] <= target ELSE o[1] >= target) }

OutOfTheMoney(target) ==
    { o \in Option : Quoted(o) /\ (IF o[2] = "P" THEN o[1] < target ELSE o[1] > target) }

InOrderOfStrike(book) == \A i \in 1 .. Len(book) - 1 : book[i][1] <= book[i + 1][1]

(***************************************************************************)
(* finalBookGet: puts below the target, calls above it and the mean of the *)
(* pair at it, in order of strike; it throws when the pair is incomplete,  *)
(* and contributionGet when there is no other entry.                       *)
(***************************************************************************)
finalBookGet(target) ==
    CHOOSE book \in SetToSeqs(OutOfTheMoney(target) \cup {<<target, "AV">>}) :
        InOrderOfStrike(book)

Throws(target) ==
    \/ target \notin Strike
    \/ ~HasPair(target)
    \/ Len(finalBookGet(target)) < 2

\* Twice deltaK: the distance of the two neighbours, or twice that of the only
\* one at either end.
DeltaK(book, i) ==
    IF i = 1 THEN 2 * (book[2][1] - book[1][1])
    ELSE IF i = Len(book) THEN 2 * (book[i][1] - book[i - 1][1])
    ELSE book[i + 1][1] - book[i - 1][1]

\* contributionGet adds the contributions up in the order of the book; here the
\* widths alone.
Widths(book) ==
    LET upTo[i \in 0 .. Len(book)] ==
            IF i = 0 THEN 0 ELSE upTo[i - 1] + DeltaK(book, i)
    IN  upTo[Len(book)]

-----------------------------------------------------------------------------
(***************************************************************************)
(* What is summed is a final book worth the name: each quoted strike is in *)
(* it at most once, on its out-of-the-money side, and the widths add up to *)
(* the range of the strikes and half a gap at either end.  With all        *)
(* options quoted a computation only fails for a forward price below the   *)
(* lowest strike or when there is only one strike.                         *)
(***************************************************************************)
FinalBookIsWhole ==
    \A forward \in forwardPriceGet :
        LET target == adjacentStrikeGet(forward)
            book   == finalBookGet(target)
            n      == Len(book)
        IN  /\ ~Throws(target) =>
                 /\ \A i \in 1 .. n - 1 : book[i][1] < book[i + 1][1]
                 /\ \A i \in 1 .. n :
                       book[i][2] = IF book[i][1] < target THEN "P"
                                    ELSE IF book[i][1] > target THEN "C" ELSE "AV"
                 /\ Widths(book) = 2 * (book[n][1] - book[1][1])
                                     + (book[2][1] - book[1][1])
                                     + (book[n][1] - book[n - 1][1])
            /\ (\A o \in Option : Quoted(o)) =>
                 (Throws(target) <=> \/ \A k \in Strike : forward < 2 * k
                                     \/ \A k, l \in Strike : k = l)
=============================================================================
