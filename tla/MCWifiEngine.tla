---------------------------- MODULE MCWifiEngine ----------------------------
(* Up to three access points, a limit below and one above their number, and   *)
(* interfaces for four inits.                                                *)
EXTENDS WifiEngine
=============================================================================
