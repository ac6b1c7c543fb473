---------------------------- MODULE MCSuperseded ----------------------------
(***************************************************************************)
(* The parts of the code around replays that no service calls any more,    *)
(* and the instrument_info service they share with ingest, each explored   *)
(* on its own: the part is chosen at the beginning.                        *)
(*                                                                         *)
(* The instruments are named by asset and expiry; L20 is listed late.  The *)
(* two timestamps have no term in common, while two replays may use the    *)
(* same one.  A week has six slots.                                        *)
(***************************************************************************)
EXTENDS VixCalculatorV1, StrikeBook, LegacyReplay

CONSTANTS R1, R2, C1, C2

MCReplay == {R1, R2}
MCRefresher == {C1, C2}

Symmetry == Permutations(MCReplay) \cup Permutations(MCRefresher)

MCInstrument == {"E10", "E20", "L20", "E30", "E40", "B20"}

MCAssetOf == [ s \in MCInstrument |-> IF s = "B20" THEN "BTC" ELSE "ETH" ]

MCSinceOf == [ s \in MCInstrument |-> IF s = "L20" THEN 6 ELSE 0 ]

MCExpiryOf ==
    [ s \in MCInstrument |->
        CASE s = "E10" -> 10
          [] s \in {"E20", "L20", "B20"} -> 20
          [] s = "E30" -> 30
          [] s = "E40" -> 40 ]

MCTermsOf == [ ts \in {5, 25} |-> IF ts = 5 THEN {10, 20} ELSE {30, 40} ]

MCNearOf == [ ts \in {5, 25} |-> IF ts = 5 THEN 10 ELSE 30 ]

-----------------------------------------------------------------------------
VARIABLE part

Part == {"calculator", "book", "instruments", "gateway"}

vars == <<part, calculatorVars, mids, infoVars, legacyVars>>

Init ==
    /\ part \in Part
    /\ CalculatorInit
    /\ part # "calculator" => ~present
    /\ MidsInit
    /\ LegacyInit

Calculator == part = "calculator" /\ CalculatorNext

Book == part = "book" /\ MidsNext

Instruments == part = "instruments" /\ InfoNext

\* The clock stands still and nobody refreshes while the gateway replays.
Gateway ==
    /\ part = "gateway"
    /\ LegacyNext
    /\ today' = today
    /\ service = "running" => requests' = requests

Next ==
    \/ Calculator /\ UNCHANGED <<part, mids, infoVars, legacyVars>>
    \/ Book /\ UNCHANGED <<part, calculatorVars, infoVars, legacyVars>>
    \/ Instruments /\ UNCHANGED <<part, calculatorVars, mids, legacyVars>>
    \/ Gateway /\ UNCHANGED <<part, calculatorVars, mids>>

Spec == Init /\ [][Next]_vars

=============================================================================
