-------------------------- MODULE MCWatchedService --------------------------
(***************************************************************************)
(* A small instance of WatchedService for TLC.                             *)
(***************************************************************************)
EXTENDS WatchedService

\* failure_threshold and max_retries: zeros, and thresholds below, at and above the retries.
SmallProbes == {[threshold |-> p[1], retries |-> p[2]] :
                  p \in {<<0, 0>>, <<0, 1>>, <<1, 2>>, <<2, 1>>, <<2, 2>>}}
=============================================================================
