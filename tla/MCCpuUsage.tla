----------------------------- MODULE MCCpuUsage -----------------------------
(***************************************************************************)
(* An instance of CpuUsage for TLC: two runs of the command and one        *)
(* application thread.  The two processes tie on their total and on their  *)
(* user usage, so that their pids decide the order.                        *)
(***************************************************************************)
EXTENDS CpuUsage, TLC

OneOrAll == {1, INVALID_PID}
Totals == 1 :> 0 @@ 2 :> 0
Users  == 1 :> 1 @@ 2 :> 1
Syss   == 1 :> 0 @@ 2 :> 0
=============================================================================
