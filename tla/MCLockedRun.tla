---------------------------- MODULE MCLockedRun ----------------------------
(* TLC instances of LockedRun: with both faults (Locked.cfg), and with only  *)
(* a daemon that goes away and comes back (LockedRestart.cfg).               *)
EXTENDS LockedRun

=============================================================================
