--------------------------- MODULE MCRotatingLog ---------------------------
(* TLC instances of RotatingLog: TraceLog.cfg, AuditLog.cfg and the two     *)
(* configurations whose property the code does not meet.                    *)
EXTENDS RotatingLog, TLC

\* Processes are interchangeable.
Symmetry == Permutations(Proc)
=============================================================================
