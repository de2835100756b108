---------------------------- MODULE MCSpeedTest ----------------------------
(* A small instance of SpeedTest: one test between two clients, either of  *)
(* which may cancel it, over UDP or the relay.                             *)
EXTENDS SpeedTest

Both     == {"A", "B"}
Any      == {"p2p", "relay"}
=============================================================================
