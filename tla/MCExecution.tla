---------------------------- MODULE MCExecution ----------------------------
(* TLC instances of Execution: a child and one descendant, with pipes of     *)
(* two bytes (Exec.cfg) or of one (ExecEscape.cfg), so that a writer blocks. *)
EXTENDS Execution

=============================================================================
