--------------------------- MODULE MCWebSessions ---------------------------
(* WebSessions with two addresses and a time-out of two clock units.       *)
EXTENDS WebSessions
=============================================================================
