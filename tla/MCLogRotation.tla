---------------------------- MODULE MCLogRotation ----------------------------
(* The instance of LogRotation that TLC checks: see the cfg file.          *)
EXTENDS LogRotation
=============================================================================
