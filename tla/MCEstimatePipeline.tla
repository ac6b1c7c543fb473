------------------------- MODULE MCEstimatePipeline -------------------------
(***************************************************************************)
(* The minutes around a rollover: day 5 is a Friday, the pair of expiries  *)
(* changes at its 480th minute.                                            *)
(***************************************************************************)
EXTENDS EstimatePipeline

FridayAt8 == 5 * MinutesPerDay + 480

MCFirst == FridayAt8 - 3
MCLast == FridayAt8
MCSummaries == {FridayAt8 - 3, FridayAt8 - 2}
MCTicks == {FridayAt8 - 1}
=============================================================================
