----------------------------- MODULE ReplayJob -----------------------------
(***************************************************************************)
(* What a consumer of VixCalculatorV2 (a websocket replay, a backfill) is  *)
(* promised: a running job delivers index values at later and later        *)
(* moments, at least MinGap apart, and ends exactly once, completed or     *)
(* failed; nothing is delivered afterwards.                                *)
(***************************************************************************)
EXTENDS Integers, Sequences

CONSTANTS Moment,    \* the moments an index can be delivered for
          MinGap     \* least distance of two deliveries

VARIABLES status,    \* "running", "completed" or "failed"
          delivered  \* the moments delivered so far

jobVars == <<status, delivered>>

JobInit == status = "running" /\ delivered = <<>>

Later(t) ==
    delivered # <<>> => t >= delivered[Len(delivered)] + MinGap

\* A delivery may be the last one: onCompute and onComplete in one message.
Deliver ==
    /\ status = "running"
    /\ \E t \in Moment : Later(t) /\ delivered' = Append(delivered, t)
    /\ status' \in {"running", "completed", "failed"}

End ==
    /\ status = "running"
    /\ status' \in {"completed", "failed"}
    /\ UNCHANGED delivered

JobNext == Deliver \/ End

JobSpec == JobInit /\ [][JobNext]_jobVars

(***************************************************************************)
(* Every job ends.                                                         *)
(***************************************************************************)
JobEnds == <>(status # "running")
=============================================================================
