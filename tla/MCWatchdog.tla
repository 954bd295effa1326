------------------------------ MODULE MCWatchdog ------------------------------
(* The instance of Watchdog that TLC checks: two nodes with their timeouts.    *)
EXTENDS Watchdog
CONSTANTS n1, n2
MCNodes == {n1, n2}
MCTimeouts == {1, 2}
=============================================================================
