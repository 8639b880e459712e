---------------------------- MODULE MCLogWriter ----------------------------
(* LogWriter with a bounded number of messages.                            *)
EXTENDS LogWriter
=============================================================================
