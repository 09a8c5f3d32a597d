--------------------------- MODULE MCRetryCommand ---------------------------
(* Up to eight attempts, two more than the shell's largest integer, of a   *)
(* command that succeeds or fails in three ways.                           *)
EXTENDS RetryCommand

SomeStatuses == {0, 1, 2, 23}
=============================================================================
