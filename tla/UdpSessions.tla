---------------------------- MODULE UdpSessions ----------------------------
(***************************************************************************)
(* UDPServer of src/sip_server.py: the table of UDP sessions, filled by    *)
(* the reactor thread that handles datagrams and emptied by the thread     *)
(* that runs check_conection.  The two threads share the table without a   *)
(* lock; an action is a stretch of code between two accesses to it that    *)
(* the other thread can tell apart.  What VoipClient makes of a datagram   *)
(* is abstracted to the number of reports it returns.                      *)
(***************************************************************************)
EXTENDS Integers, Sequences, FiniteSets

CONSTANTS Ips, Ports,    \* source addresses and ports
          Absent,        \* "this address is not a key of the table"
          MINUTES_LEFT,  \* idle minutes a session survives
          HOUR,          \* minutes after which relativedelta(..).minutes wraps
          MaxReports,    \* reports that one datagram gives rise to
          MaxRecords,    \* bound: no datagram arrives once the log is that long
          MaxNow         \* bound: the clock stops there

ASSUME MinutesAssumption == /\ MINUTES_LEFT \in Nat
                            /\ HOUR \in Nat
                            /\ MINUTES_LEFT + 1 < HOUR
ASSUME BoundsAssumption ==
  MaxReports \in Nat /\ MaxRecords \in Nat /\ MaxNow \in Nat

Addr  == [ip : Ips, port : Ports]
Entry == [session : Nat, datetime : Nat, port : Ports]

ASSUME SourcesAssumption ==
  IsFiniteSet(Ips) /\ Absent \notin Ips /\ Absent \notin Entry

VARIABLES
  sessions,     \* the dict: Absent, or the session, its last use and its port
  is_checking,  \* cleared by stopProtocol
  log,          \* the records put on log_q
  nextSession,  \* the next uuid
  now,          \* the clock, in minutes
  \* the reactor thread, in datagramReceived
  handler,      \* where it is
  addr,         \* self.addr
  left,         \* reports of this datagram still to be logged
  session,      \* what get_session returns
  \* the thread of check_conection
  checker,      \* where it is
  keys, todo,   \* the keys it iterates over, those still to come
  current,      \* ip_address
  doomed,       \* list_to_delete
  passed        \* it has completed a pass in this minute

table       == <<sessions, is_checking, nextSession>>
handlerVars == <<handler, addr, left, session>>
checkerVars == <<checker, keys, todo, current, doomed, passed>>
vars        == <<table, log, now, handlerVars, checkerVars>>

LogRecord == [event : {"connection", "data", "disconnection"}, session : Nat,
              src_ip : Ips, src_port : Ports]

Record(event, s, ip, port) ==
  [event |-> event, session |-> s, src_ip |-> ip, src_port |-> port]

Keys == {ip \in Ips : sessions[ip] # Absent}

\* The dict iterator compares sizes at every step, also at the last one.
SizeChanged == Cardinality(Keys) # Cardinality(keys)

\* abs(relativedelta(start, now).minutes): the minutes part, whole hours cut off
Minutes(start) == (now - start) % HOUR

-----------------------------------------------------------------------------
(* Faulty variants, each what a plausible bug makes of the action named.   *)

\* DatagramReceived: the report loop entered without a report.
FaultyDatagramReceived(a, n) ==
  /\ is_checking
  /\ handler = "idle"
  /\ Len(log) < MaxRecords
  /\ addr' = a
  /\ left' = n
  /\ handler' = "lookup"
  /\ UNCHANGED <<table, log, now, session, checkerVars>>

\* NewSession: the table is not looked at.
FaultyNewSession ==
  /\ handler = "lookup"
  /\ sessions' = [sessions EXCEPT ![addr.ip] =
       [session |-> nextSession, datetime |-> now, port |-> addr.port]]
  /\ nextSession' = nextSession + 1
  /\ session' = nextSession
  /\ handler' = "connect"
  /\ UNCHANGED <<is_checking, log, now, addr, left, checkerVars>>

\* Wake: `while True'.
FaultyWake ==
  /\ checker = "asleep"
  /\ checker' = "iterate"
  /\ keys' = Keys
  /\ todo' = Keys
  /\ UNCHANGED <<table, log, now, handlerVars, current, doomed, passed>>

\* IterationError: the exception is swallowed and the pass given up.
FaultyIterationError ==
  /\ checker = "iterate"
  /\ SizeChanged
  /\ checker' = "asleep"
  /\ doomed' = {}
  /\ passed' = TRUE
  /\ UNCHANGED <<table, log, now, handlerVars, keys, todo, current>>

\* Inspect: off by one.
FaultyInspect(ip) ==
  /\ checker = "iterate"
  /\ ~ SizeChanged
  /\ ip \in todo
  /\ todo' = todo \ {ip}
  /\ current' = ip
  /\ checker' = IF Minutes(sessions[ip].datetime) > MINUTES_LEFT + 1
                THEN "report" ELSE "iterate"
  /\ UNCHANGED <<table, log, now, handlerVars, keys, doomed, passed>>

\* ReportDisconnection: report overwrites the source with self.addr.
FaultyReportDisconnection ==
  /\ checker = "report"
  /\ log' = Append(log, Record("disconnection", sessions[current].session,
                               addr.ip, addr.port))
  /\ doomed' = doomed \cup {current}
  /\ checker' = "iterate"
  /\ UNCHANGED <<table, now, handlerVars, keys, todo, current, passed>>

\* DeleteFromDict: the whole table is cleared.
FaultyDeleteFromDict(ip) ==
  /\ checker = "delete"
  /\ ip \in doomed
  /\ sessions' = [i \in Ips |-> Absent]
  /\ doomed' = {}
  /\ UNCHANGED <<is_checking, nextSession, log, now, handlerVars,
                 checker, keys, todo, current, passed>>

-----------------------------------------------------------------------------
(* The reactor thread: datagramReceived, report and get_session.           *)

\* self.addr is set and the worker has run: n reports are to be logged.  With
\* n = 0 the message called for no report, or its handler raised.
DatagramReceived(a, n) ==
  /\ is_checking
  /\ handler = "idle"
  /\ Len(log) < MaxRecords
  /\ addr' = a
  /\ left' = n
  /\ handler' = IF n = 0 THEN "idle" ELSE "lookup"
  /\ UNCHANGED <<table, log, now, session, checkerVars>>

\* `ip_address not in self.sessions': the entry is made before it is reported.
NewSession ==
  /\ handler = "lookup"
  /\ sessions[addr.ip] = Absent
  /\ sessions' = [sessions EXCEPT ![addr.ip] =
       [session |-> nextSession, datetime |-> now, port |-> addr.port]]
  /\ nextSession' = nextSession + 1
  /\ session' = nextSession
  /\ handler' = "connect"
  /\ UNCHANGED <<is_checking, log, now, addr, left, checkerVars>>

KnownSession ==
  /\ handler = "lookup"
  /\ sessions[addr.ip] # Absent
  /\ handler' = "refresh"
  /\ UNCHANGED <<table, log, now, addr, left, session, checkerVars>>

ReportConnection ==
  /\ handler = "connect"
  /\ log' = Append(log, Record("connection", session, addr.ip, addr.port))
  /\ handler' = "put"
  /\ UNCHANGED <<table, now, addr, left, session, checkerVars>>

\* The entry is read and its datetime renewed, unless the checker has deleted it
\* since the test: then KeyError ends the handler and the other reports are lost.
RefreshSession ==
  /\ handler = "refresh"
  /\ sessions[addr.ip] # Absent
  /\ sessions' = [sessions EXCEPT ![addr.ip].datetime = now]
  /\ session' = sessions[addr.ip].session
  /\ handler' = "put"
  /\ UNCHANGED <<is_checking, nextSession, log, now, addr, left, checkerVars>>

RefreshKeyError ==
  /\ handler = "refresh"
  /\ sessions[addr.ip] = Absent
  /\ handler' = "idle"
  /\ left' = 0
  /\ UNCHANGED <<table, log, now, addr, session, checkerVars>>

PutReport ==
  /\ handler = "put"
  /\ log' = Append(log, Record("data", session, addr.ip, addr.port))
  /\ left' = left - 1
  /\ handler' = IF left = 1 THEN "idle" ELSE "lookup"
  /\ UNCHANGED <<table, now, addr, session, checkerVars>>

StopProtocol ==
  /\ handler = "idle"
  /\ is_checking
  /\ is_checking' = FALSE
  /\ UNCHANGED <<sessions, nextSession, log, now, handlerVars, checkerVars>>

-----------------------------------------------------------------------------
(* The thread of check_conection.                                          *)

Wake ==
  /\ checker = "asleep"
  /\ IF is_checking
     THEN checker' = "iterate" /\ keys' = Keys /\ todo' = Keys
     ELSE checker' = "stopped" /\ UNCHANGED <<keys, todo>>
  /\ UNCHANGED <<table, log, now, handlerVars, current, doomed, passed>>

\* RuntimeError: dictionary changed size during iteration.  Nothing catches it.
IterationError ==
  /\ checker = "iterate"
  /\ SizeChanged
  /\ checker' = "dead"
  /\ UNCHANGED <<table, log, now, handlerVars, keys, todo, current, doomed, passed>>

Inspect(ip) ==
  /\ checker = "iterate"
  /\ ~ SizeChanged
  /\ ip \in todo
  /\ todo' = todo \ {ip}
  /\ current' = ip
  /\ checker' = IF Minutes(sessions[ip].datetime) > MINUTES_LEFT
                THEN "report" ELSE "iterate"
  /\ UNCHANGED <<table, log, now, handlerVars, keys, doomed, passed>>

ReportDisconnection ==
  /\ checker = "report"
  /\ log' = Append(log, Record("disconnection", sessions[current].session,
                               current, sessions[current].port))
  /\ doomed' = doomed \cup {current}
  /\ checker' = "iterate"
  /\ UNCHANGED <<table, now, handlerVars, keys, todo, current, passed>>

EndIteration ==
  /\ checker = "iterate"
  /\ ~ SizeChanged
  /\ todo = {}
  /\ checker' = "delete"
  /\ UNCHANGED <<table, log, now, handlerVars, keys, todo, current, doomed, passed>>

DeleteFromDict(ip) ==
  /\ checker = "delete"
  /\ ip \in doomed
  /\ sessions' = [sessions EXCEPT ![ip] = Absent]
  /\ doomed' = doomed \ {ip}
  /\ UNCHANGED <<is_checking, nextSession, log, now, handlerVars,
                 checker, keys, todo, current, passed>>

Sleep ==
  /\ checker = "delete"
  /\ doomed = {}
  /\ checker' = "asleep"
  /\ keys' = {}
  /\ current' = Absent
  /\ passed' = TRUE
  /\ UNCHANGED <<table, log, now, handlerVars, todo, doomed>>

-----------------------------------------------------------------------------
\* The clock is read in minutes.  A handler takes far less, and a checker that
\* is alive makes a pass every TIME_SLEEP = 30 seconds, so at least one a minute.
Tick ==
  /\ now < MaxNow
  /\ handler = "idle"
  /\ checker \in {"dead", "stopped"} \/ (checker = "asleep" /\ passed)
  /\ now' = now + 1
  /\ passed' = FALSE
  /\ UNCHANGED <<table, log, handlerVars, checker, keys, todo, current, doomed>>

Init ==
  /\ sessions = [ip \in Ips |-> Absent]
  /\ is_checking = TRUE
  /\ log = << >>
  /\ nextSession = 1
  /\ now = 0
  /\ handler = "idle" /\ addr \in Addr /\ left = 0 /\ session = 0
  /\ checker = "asleep" /\ keys = {} /\ todo = {} /\ current = Absent
  /\ doomed = {} /\ passed = FALSE

Handler == \/ NewSession \/ KnownSession \/ ReportConnection
           \/ RefreshSession \/ RefreshKeyError \/ PutReport

Checker == \/ Wake \/ IterationError \/ ReportDisconnection \/ EndIteration \/ Sleep
           \/ \E ip \in Ips : Inspect(ip) \/ DeleteFromDict(ip)

Next == \/ \E a \in Addr, n \in 0 .. MaxReports : DatagramReceived(a, n)
        \/ Handler
        \/ StopProtocol
        \/ Checker
        \/ Tick

Spec == Init /\ [][Next]_vars

\* Both threads run; datagrams, the operator's stop and the clock may never come.
FairSpec == Spec /\ WF_vars(Handler) /\ WF_vars(Checker)

-----------------------------------------------------------------------------
TypeOK ==
  /\ sessions \in [Ips -> Entry \cup {Absent}]
  /\ is_checking \in BOOLEAN
  /\ log \in Seq(LogRecord)
  /\ nextSession \in Nat
  /\ now \in Nat
  /\ handler \in {"idle", "lookup", "connect", "refresh", "put"}
  /\ addr \in Addr
  /\ left \in Nat
  /\ session \in Nat
  /\ checker \in {"asleep", "iterate", "report", "delete", "dead", "stopped"}
  /\ keys \subseteq Ips
  /\ todo \subseteq Ips
  /\ current \in Ips \cup {Absent}
  /\ doomed \subseteq Ips
  /\ passed \in BOOLEAN

\* The records of a session, whichever thread put them, begin with its connection,
\* all name the address that opened it, and hold at most one disconnection.
SL == INSTANCE SessionLog WITH Ips <- Ips, Ports <- Ports, log <- log
ImplementsSessionLog == SL!Spec

Closed(s) == SL!Closed(s)

\* Whenever the checker sleeps, the table holds no session it has already
\* reported as disconnected: its reports and its deletions agree.
ReportedIsDeleted ==
  checker = "asleep" => \A ip \in Keys : ~ Closed(sessions[ip].session)

\* No session leaves the table without a disconnection record of its own.
DeletedOnlyIfReported ==
  [][\A ip \in Keys : sessions'[ip] = Absent => Closed(sessions[ip].session)]_vars

\* While the checker runs, a silent address is out of the table before a second
\* minute over the limit is complete.
ExpiryPrompt ==
  checker \notin {"dead", "stopped"} =>
    \A ip \in Keys : now - sessions[ip].datetime <= MINUTES_LEFT + 1

\* An address gets a new session only after its previous one was disconnected.
OneOpenSession ==
  \A i, j \in 1 .. Len(log) :
    (/\ i < j
     /\ log[i].event = "connection"
     /\ log[j].event = "connection"
     /\ log[i].src_ip = log[j].src_ip) =>
        \E k \in 1 .. j : /\ log[k].event = "disconnection"
                          /\ log[k].session = log[i].session

\* After stopProtocol the checker's thread ends.
CheckerEnds == ~ is_checking ~> checker \in {"stopped", "dead"}

\* check_conection's docstring: an address that sends nothing gets its
\* disconnection event.  It does not once the thread has died of the iterator's
\* RuntimeError.
SilentIsDisconnected ==
  checker # "stopped" =>
    \A ip \in Keys : now - sessions[ip].datetime <= MINUTES_LEFT + 1
=============================================================================
