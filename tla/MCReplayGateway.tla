--------------------------- MODULE MCReplayGateway ---------------------------
(***************************************************************************)
(* Two replays that share a connection, or are backfills, and a quarter of *)
(* an hour of indexes; or the last five minutes of an hour.                *)
(***************************************************************************)
EXTENDS ReplayGateway, TLC

CONSTANTS S1, R1, R2

MCSocket == {S1}
MCReplay == {R1, R2}

\* What a quarter of an hour lacks when its first indexes are in the table; one
\* of them is computed again.
RestOfQuarter == {0, 15}
Begun == {{0, 5, 10}}

\* An hour of indexes but for the last one.
LastOfHour == {55}
HourBegun == {{ 5 * n : n \in 0 .. 10 }}

Symmetry == Permutations(MCReplay)
=============================================================================
