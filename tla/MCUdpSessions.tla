--------------------------- MODULE MCUdpSessions ---------------------------
(* UdpSessions with two addresses, two ports and a limit of one minute.    *)
EXTENDS UdpSessions
=============================================================================
