---------------------------- MODULE MCStartupOrder ----------------------------
(* The instance of StartupOrder that TLC checks.                             *)
EXTENDS StartupOrder
CONSTANTS a, b, c
MCNames == {a, b, c}
MCSorted == <<a, b, c>>
=============================================================================
