--------------------------- MODULE MCCliDispatch ---------------------------
(* Model-checking instance of CliDispatch: exit codes 1 and 2 tell a       *)
(* preserved status from one rewritten to 1.                              *)
EXTENDS CliDispatch

MCExitCodes == {1, 2}
\* A success, a failure, and a script killed by SIGKILL.
MCToolCodes == {0, 2, -9}
=============================================================================
