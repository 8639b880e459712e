----------------------------- MODULE SipServer -----------------------------
(***************************************************************************)
(* The reactor's side of src/sip_server.py: UDPServer and TCPServer, each  *)
(* giving what it receives to a VoipClient, filing the reports under the   *)
(* sender's session and sending the answer.  All VoipClients share one     *)
(* table of calls and one list of reports, since both are class            *)
(* attributes.  The reactor runs one handler at a time, so a handler is    *)
(* one step, with an outcome for each place at which check_conection, the  *)
(* thread that expires UDP sessions, may delete the sender's entry in the  *)
(* middle of it.  When the thread does so is in UdpSessions.               *)
(***************************************************************************)
EXTENDS Integers, Sequences, FiniteSets, SequencesExt, VoipClient

CONSTANTS UdpPeers, TcpPeers,  \* who sends
          HeaderSets,          \* the combinations of headers that messages have
          MaxLeftover          \* bound: reports left behind by raising methods

Peers == UdpPeers \cup TcpPeers

ASSUME PeersAssumption == UdpPeers \cap TcpPeers = {}
ASSUME HeadersAssumption == HeaderSets \subseteq SUBSET Headers
ASSUME LeftoverAssumption == MaxLeftover \in Nat

VARIABLES calls,      \* VoipClient.__sessions
          json_list,  \* VoipClient.json_list
          conn,       \* the TCP connections that are open
          stuck,      \* those whose write buffer can never be written out
          sessions,   \* the peers with an entry in UDPServer.sessions
          did         \* what the last handler did: whom it served, the reports
                      \* it filed, in order, and the answers it sent

vars == <<calls, json_list, conn, stuck, sessions, did>>

\* Authorization matters to INVITE alone, and the method in CSeq to CANCEL.
Message ==
  {m \in [method : Methods, from : Peers, call : CallIds, has : HeaderSets,
          auth : Auths, cseq : {"INVITE", "other"}] :
     /\ m.method # "INVITE" => m.auth = "absent"
     /\ m.method # "CANCEL" => m.cseq = "other"}

Connection(p)    == [eventid |-> "connection", output |-> NoAnswer, of |-> p]
Disconnection(p) == [eventid |-> "disconnection", output |-> NoAnswer, of |-> p]

Did(p, reports, sent) == [peer |-> p, reports |-> reports, sent |-> sent]

\* An answer that is None or '' is not sent.  The pair of answers to an authorized
\* INVITE is a tuple, which no transport writes: over UDP transport.write raises,
\* over TCP the connection's buffer, with it and all that follows, never goes out.
Writable(answer) == answer \notin {NoAnswer, "180+200"}

\* Faulty: `if send_data' is missing, so None is written too.
FaultyWritten(answer) == {answer} \ {"180+200"}

Written(answer) == IF Writable(answer) THEN {answer} ELSE {}

-----------------------------------------------------------------------------
\* What comes of filing a datagram's reports one by one, each with get_session: a
\* peer without an entry gets one, and a connection is filed first.  If the entry is
\* deleted before one of the reports, a new one is made for it; if it is deleted while
\* get_session reads it, the KeyError loses that report, those behind it and the answer.
Filing(filed, whole) == [filed |-> filed, whole |-> whole]

Filings(p, reports) ==
  IF reports = << >> THEN {Filing(<< >>, TRUE)}
  ELSE IF p \notin sessions THEN {Filing(InsertAt(reports, 1, Connection(p)), TRUE)}
  ELSE {Filing(reports, TRUE)}
       \cup {Filing(InsertAt(reports, i, Connection(p)), TRUE) : i \in DOMAIN reports}
       \cup {Filing(SubSeq(reports, 1, i - 1), FALSE) : i \in DOMAIN reports}

\* The server files the reports, then sends.
UdpFiles(p, reports, sent) ==
  \E f \in Filings(p, reports) :
    /\ did' = Did(p, f.filed, IF f.whole THEN sent ELSE {})
    /\ sessions' = IF reports = << >> THEN sessions
                   ELSE IF f.whole THEN sessions \cup {p} ELSE sessions \ {p}

\* Faulty: json_list is handed out and kept.
Faulty_udp_datagramReceived(m) ==
  LET w == worker(m, calls, json_list)
  IN /\ m.from \in UdpPeers
     /\ Len(json_list) <= MaxLeftover
     /\ calls' = w.calls
     /\ json_list' = IF w.raised THEN w.json_list ELSE w.reports
     /\ UdpFiles(m.from, w.reports, Written(w.answer))
     /\ UNCHANGED <<conn, stuck>>

\* UDP: an exception is logged by the reactor and goes no further.
udp_datagramReceived(m) ==
  LET w == worker(m, calls, json_list)
  IN /\ m.from \in UdpPeers
     /\ Len(json_list) <= MaxLeftover
     /\ calls' = w.calls
     /\ json_list' = w.json_list
     /\ UdpFiles(m.from, w.reports, Written(w.answer))
     /\ UNCHANGED <<conn, stuck>>

\* The checker's thread reports an idle peer and deletes its entry.
check_conection(p) ==
  /\ p \in sessions
  /\ sessions' = sessions \ {p}
  /\ did' = Did(p, <<Disconnection(p)>>, {})
  /\ UNCHANGED <<calls, json_list, conn, stuck>>

\* TCP: an exception in dataReceived ends the connection, and connectionLost
\* reports it.
tcp_dataReceived(m) ==
  LET w == worker(m, calls, json_list)
      p == m.from
  IN /\ p \in conn
     /\ Len(json_list) <= MaxLeftover
     /\ calls' = w.calls
     /\ json_list' = w.json_list
     /\ IF w.raised
        THEN /\ conn' = conn \ {p}
             /\ stuck' = stuck \ {p}
             /\ did' = Did(p, <<Disconnection(p)>>, {})
        ELSE /\ conn' = conn
             /\ stuck' = IF w.answer = "180+200" THEN stuck \cup {p} ELSE stuck
             /\ did' = Did(p, w.reports,
                           IF p \in stuck THEN {} ELSE Written(w.answer))
     /\ UNCHANGED sessions

\* A message that does not decode is reported by the server itself.
Undecodable(p) == [eventid |-> "command_accept", output |-> NoAnswer, of |-> p]

udp_undecodable(p) ==
  /\ p \in UdpPeers
  /\ UdpFiles(p, <<Undecodable(p)>>, {})
  /\ UNCHANGED <<calls, json_list, conn, stuck>>

tcp_undecodable(p) ==
  /\ p \in conn
  /\ did' = Did(p, <<Undecodable(p)>>, {})
  /\ UNCHANGED <<calls, json_list, conn, stuck, sessions>>

connectionMade(p) ==
  /\ p \in TcpPeers \ conn
  /\ conn' = conn \cup {p}
  /\ did' = Did(p, <<Connection(p)>>, {})
  /\ UNCHANGED <<calls, json_list, stuck, sessions>>

\* The peer closes, or the reactor fails to write the buffer and drops it.
connectionLost(p) ==
  /\ p \in conn
  /\ conn' = conn \ {p}
  /\ stuck' = stuck \ {p}
  /\ did' = Did(p, <<Disconnection(p)>>, {})
  /\ UNCHANGED <<calls, json_list, sessions>>

Init ==
  /\ calls = [c \in CallIds |-> "none"]
  /\ json_list = << >>
  /\ conn = {}
  /\ stuck = {}
  /\ sessions = {}
  /\ did \in [peer : Peers, reports : {<< >>}, sent : {{}}]

Next ==
  \/ \E m \in Message : udp_datagramReceived(m) \/ tcp_dataReceived(m)
  \/ \E p \in Peers : \/ udp_undecodable(p) \/ tcp_undecodable(p) \/ check_conection(p)
                     \/ connectionMade(p) \/ connectionLost(p)

Spec == Init /\ [][Next]_vars

-----------------------------------------------------------------------------
Report == [eventid : {"command_accept", "authorization", "connection", "disconnection"},
           output : Answers \cup {"granted", "refused"}, of : Peers]

TypeOK ==
  /\ calls \in [CallIds -> CallState]
  /\ json_list \in Seq(Report)
  /\ conn \subseteq TcpPeers
  /\ stuck \subseteq conn
  /\ sessions \subseteq UdpPeers
  /\ did.peer \in Peers
  /\ did.reports \in Seq(Report)
  /\ did.sent \subseteq Codes

\* Every answer on the wire is on the log, filed by the same handler.
AnswerReported ==
  \A a \in did.sent :
    \E r \in ToSet(did.reports) : /\ r.eventid = "command_accept"
                                  /\ r.output = a
                                  /\ r.of = did.peer

\* The list shared by all peers files one peer's reports under the session of
\* another only if they are refused authorizations that a raising method left.
MisfiledAreRefusals ==
  \A r \in ToSet(did.reports) \cup ToSet(json_list) :
    (r \in ToSet(json_list) \/ r.of # did.peer) =>
      r.eventid = "authorization" /\ r.output = "refused"

\* No grant is on the log without a call that the same handler set up, and none for a
\* Call-ID that is in the table, not even after the call's BYE.  A call that is set up
\* has its grant on the log, unless the checker's thread deleted the caller's session
\* while its reports were filed.
Grants(d) == Cardinality({i \in DOMAIN d.reports : d.reports[i].output = "granted"})
CallsSetUp == Cardinality({c \in CallIds : calls[c] = "none" /\ calls'[c] = "setup"})
AuthorizedOnce ==
  [][/\ Grants(did') <= CallsSetUp
     /\ did'.peer \notin sessions \ sessions' => Grants(did') = CallsSetUp
     /\ \A c \in CallIds : calls[c] # "none" => calls'[c] # "setup" \/ calls[c] = "setup"]_vars

\* README.md: the honeypot answers INVITE Authorization.  It never does: the
\* answers of a call that is set up are never written.
AuthorizedInviteAnswered ==
  (\E i \in DOMAIN did.reports : did.reports[i].output = "granted") => did.sent # {}
=============================================================================
