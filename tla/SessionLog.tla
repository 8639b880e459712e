----------------------------- MODULE SessionLog -----------------------------
(***************************************************************************)
(* What every front end of the honeypot promises of the attack log: a      *)
(* session is announced by one connection record, every later record of    *)
(* the session carries the source address that opened it, and the session  *)
(* is closed by at most one disconnection record, which names an address   *)
(* and port the session was active from.                                   *)
(***************************************************************************)
EXTENDS Naturals, Sequences

CONSTANTS Ips,     \* source addresses
          Ports    \* source ports

VARIABLE log       \* the records put on the log, oldest first

Events == {"connection", "data", "disconnection"}

Record == [event : Events, session : Nat, src_ip : Ips, src_port : Ports]

Logged(s) == \E i \in 1 .. Len(log) : log[i].session = s

OpenedBy(s, ip) ==
  \E i \in 1 .. Len(log) : /\ log[i].session = s
                           /\ log[i].event = "connection"
                           /\ log[i].src_ip = ip

\* The session has been active from this address and port.
ActiveFrom(s, ip, port) ==
  \E i \in 1 .. Len(log) : /\ log[i].session = s
                           /\ log[i].src_ip = ip
                           /\ log[i].src_port = port

Closed(s) ==
  \E i \in 1 .. Len(log) : log[i].session = s /\ log[i].event = "disconnection"

-----------------------------------------------------------------------------
Init == log = << >>

Open(r) ==
  /\ r.event = "connection"
  /\ ~ Logged(r.session)
  /\ log' = Append(log, r)

Data(r) ==
  /\ r.event = "data"
  /\ OpenedBy(r.session, r.src_ip)
  /\ log' = Append(log, r)

Close(r) ==
  /\ r.event = "disconnection"
  /\ OpenedBy(r.session, r.src_ip)
  /\ ActiveFrom(r.session, r.src_ip, r.src_port)
  /\ ~ Closed(r.session)
  /\ log' = Append(log, r)

\* The record a step adds is the last one of the new log.
Next ==
  LET r == log'[Len(log')]
  IN /\ log' # << >>
     /\ r \in Record
     /\ Open(r) \/ Data(r) \/ Close(r)

Spec == Init /\ [][Next]_log

\* The same promise as a predicate of the log, for front ends that put several
\* records in one step.
Before(i, s) == {j \in 1 .. (i - 1) : log[j].session = s}

WellFormed ==
  \A i \in 1 .. Len(log) :
    LET r == log[i]
        earlier == Before(i, r.session)
    IN /\ r.event = "connection" <=> earlier = {}
       /\ r.event # "connection" =>
            \E j \in earlier : log[j].event = "connection" /\ log[j].src_ip = r.src_ip
       /\ r.event = "disconnection" =>
            /\ \E j \in earlier : /\ log[j].src_ip = r.src_ip
                                  /\ log[j].src_port = r.src_port
            /\ \A j \in earlier : log[j].event # "disconnection"
=============================================================================
