------------------------------ MODULE MCProcess ------------------------------
(* An instance of ProcessExecutor for TLC: its constants are bounds.        *)
EXTENDS ProcessExecutor
=============================================================================
