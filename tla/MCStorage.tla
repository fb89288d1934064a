------------------------------ MODULE MCStorage ------------------------------
(* Two appends to one issue and one to a transcript, for TLC.              *)
EXTENDS EventLog

MCStream == [w \in Writers |-> IF w = "c" THEN "talk" ELSE "issue"]
MCSize   == [w \in Writers |-> IF w = "a" THEN 2 ELSE 1]

LogSpec == LogInit /\ [][LogNext]_logVars /\ LogFair

(* A live tail delivers each event once and in order, and reaches the last *)
(* one however its wakes coalesce: live-feed.ts.                           *)
TailHolds == []TailIsExact /\ TailCatchesUp
==============================================================================
