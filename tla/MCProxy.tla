------------------------------ MODULE MCProxy ------------------------------
(* One session of either proxy.                                            *)
EXTENDS SshProxy, TelnetProxy

Init == /\ \E p \in Protocols : ConnectionMade(p)
        /\ SshStart /\ TelnetStart

proxyvars == <<session, traffic, sshvars, telnetvars>>

Next ==
  \/ SessionNext /\ UNCHANGED <<traffic, sshvars, telnetvars>>
  \/ protocol = "ssh" /\ SshNext /\ UNCHANGED telnetvars
  \/ protocol = "telnet" /\ TelnetNext /\ UNCHANGED sshvars

\* A timer that is set goes off, and a connection that is being closed closes.
Fairness ==
  /\ WF_proxyvars(TimeoutConnection /\ UNCHANGED <<traffic, sshvars, telnetvars>>)
  /\ WF_proxyvars(front = "closing" /\ FrontConnectionLost
                    /\ UNCHANGED <<traffic, sshvars, telnetvars>>)
  /\ WF_proxyvars(back = "closing" /\ BackendConnectionLost
                    /\ UNCHANGED <<traffic, sshvars, telnetvars>>)

Spec == Init /\ [][Next]_proxyvars /\ Fairness

-----------------------------------------------------------------------------
\* Somebody may be logged in on the guest: USERAUTH was sent to an SSH guest, or
\* the configured password to a Telnet one.  With spoofing off neither the proxy
\* nor this looks for logins on a Telnet guest.
LoggedIn == backendConnected \/ entered

\* What authDone misses: it is set after authenticateBackend's flush, and if that
\* raises, the packets it was to send are still held back.
Unnoticed == delayed["frontend"] # << >>

\* A guest goes back to the pool as unused only if nobody was logged in on it,
\* but for what authDone misses and for a guest whose connection was made after
\* the attacker had left.
CleanGuest == freed = "clean" /\ LoggedIn => late \/ Unnoticed

TypeOK == SessionTypeOK /\ SshTypeOK /\ TelnetTypeOK
=============================================================================
