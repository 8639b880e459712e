------------------------- MODULE UdpSessions_proof -------------------------
(***************************************************************************)
(* Proofs about UdpSessions, for any addresses, limits and bounds: its     *)
(* type invariant, the inductive invariant IInv that ties the table, the   *)
(* two threads and the log together, and what follows from it.             *)
(***************************************************************************)
EXTENDS UdpSessions, TLAPS

-----------------------------------------------------------------------------
(* The log grows by one record at its end.                                 *)

\* What the proofs use of Append: the old elements stay where they are.
LEMMA AppendFacts ==
  ASSUME NEW S, NEW q \in Seq(S), NEW e \in S
  PROVE  /\ Append(q, e) \in Seq(S)
         /\ Len(Append(q, e)) = Len(q) + 1
         /\ Len(q) \in Nat
         /\ \A i \in 1 .. Len(q) : q[i] \in S /\ Append(q, e)[i] = q[i]
         /\ Append(q, e)[Len(q) + 1] = e
  OBVIOUS

\* What one more record changes of the questions SessionLog asks of the log.
LEMMA GrowLog ==
  ASSUME log \in Seq(LogRecord), NEW r \in LogRecord, log' = Append(log, r)
  PROVE  /\ log' \in Seq(LogRecord)
         /\ \A s : SL!Logged(s)' <=> SL!Logged(s) \/ r.session = s
         /\ \A s : SL!Closed(s)' <=> \/ SL!Closed(s)
                                     \/ r.session = s /\ r.event = "disconnection"
         /\ \A s, ip : SL!OpenedBy(s, ip)' <=>
              \/ SL!OpenedBy(s, ip)
              \/ r.session = s /\ r.event = "connection" /\ r.src_ip = ip
         /\ \A s, ip, p : SL!ActiveFrom(s, ip, p)' <=>
              \/ SL!ActiveFrom(s, ip, p)
              \/ r.session = s /\ r.src_ip = ip /\ r.src_port = p
<1>1. /\ log' \in Seq(LogRecord)
      /\ Len(log') = Len(log) + 1
      /\ Len(log) \in Nat
      /\ \A i \in 1 .. Len(log) : log'[i] = log[i]
      /\ log'[Len(log) + 1] = r
  BY AppendFacts
<1>2. 1 .. Len(log') = (1 .. Len(log)) \cup {Len(log) + 1}
  BY <1>1
<1>3. \A s : SL!Logged(s)' <=> SL!Logged(s) \/ r.session = s
  BY <1>1, <1>2 DEF SL!Logged
<1>4. \A s : SL!Closed(s)' <=> \/ SL!Closed(s)
                               \/ r.session = s /\ r.event = "disconnection"
  BY <1>1, <1>2 DEF SL!Closed
<1>5. \A s, ip : SL!OpenedBy(s, ip)' <=>
        \/ SL!OpenedBy(s, ip)
        \/ r.session = s /\ r.event = "connection" /\ r.src_ip = ip
  BY <1>1, <1>2 DEF SL!OpenedBy
<1>6. \A s, ip, p : SL!ActiveFrom(s, ip, p)' <=>
        \/ SL!ActiveFrom(s, ip, p)
        \/ r.session = s /\ r.src_ip = ip /\ r.src_port = p
  BY <1>1, <1>2 DEF SL!ActiveFrom
<1>. QED BY <1>1, <1>3, <1>4, <1>5, <1>6

-----------------------------------------------------------------------------
(* The inductive invariant.                                                *)

\* A report is pending wherever the handler may put one.
LeftInv == handler \in {"lookup", "connect", "refresh", "put"} => left > 0

\* The entry of ip is the one the handler has made and not reported yet.
Unannounced(ip) == handler = "connect" /\ addr.ip = ip

\* Each entry has a session of its own, announced by a connection record with
\* the entry's address and port, unless that record is the handler's next step.
TableInv ==
  /\ \A ip \in Keys : sessions[ip].session < nextSession
  /\ \A ip, jp \in Keys :
       sessions[ip].session = sessions[jp].session => ip = jp
  /\ \A ip \in Keys : Unannounced(ip) \/
       /\ SL!OpenedBy(sessions[ip].session, ip)
       /\ SL!ActiveFrom(sessions[ip].session, ip, sessions[ip].port)

\* What the handler holds: a fresh entry that nobody has logged, which the clock
\* has not aged, or a session opened by the address it serves.
HandlerInv ==
  /\ handler = "connect" =>
       /\ addr.ip \in Keys
       /\ sessions[addr.ip].session = session
       /\ sessions[addr.ip].port = addr.port
       /\ sessions[addr.ip].datetime = now
       /\ ~ SL!Logged(session)
  /\ handler = "put" => SL!OpenedBy(session, addr.ip)

\* Only the checker deletes, so what it iterates over stays in the table, and an
\* entry is disconnected exactly when it is waiting to be deleted.
CheckerInv ==
  /\ doomed \subseteq Keys
  /\ \A ip \in Keys : Closed(sessions[ip].session) <=> ip \in doomed
  /\ checker \in {"iterate", "report"} => keys \subseteq Keys
  /\ todo \subseteq keys
  /\ doomed \cap todo = {}
  /\ checker = "report" => current \in Keys \ doomed /\ current \notin todo
                           /\ ~ Unannounced(current)
  /\ checker \in {"asleep", "stopped"} => doomed = {} /\ todo = {}
  /\ checker = "delete" => todo = {}

\* Sessions not yet given out appear in no record.
LogInv == \A s \in Nat : SL!Logged(s) => s < nextSession

IInv == TypeOK /\ LeftInv /\ TableInv /\ HandlerInv /\ CheckerInv /\ LogInv

\* The initial state is typed, and no report is pending.
LEMMA TypeInit == Init => TypeOK /\ LeftInv
<1>. SUFFICES ASSUME Init PROVE TypeOK /\ LeftInv
  OBVIOUS
<1>1. sessions \in [Ips -> Entry \cup {Absent}]
  BY DEF Init
<1>2. log \in Seq(LogRecord)
  BY DEF Init
<1>. QED BY <1>1, <1>2 DEF Init, TypeOK, LeftInv

\* Every step keeps the types.  Of the rest of the invariant only CheckerInv is
\* needed: the checker reads table entries, which must be there.
LEMMA TypeStep ==
  TypeOK /\ LeftInv /\ CheckerInv /\ [Next]_vars => TypeOK' /\ LeftInv'
<1>. SUFFICES ASSUME TypeOK, LeftInv, CheckerInv, [Next]_vars
              PROVE  TypeOK' /\ LeftInv'
  OBVIOUS
<1>. USE DEF TypeOK, LeftInv, table, handlerVars, checkerVars
<1>1. ASSUME NEW a \in Addr, NEW n \in 0 .. MaxReports, DatagramReceived(a, n)
      PROVE  TypeOK' /\ LeftInv'
  BY <1>1, BoundsAssumption DEF DatagramReceived
<1>2. CASE NewSession
  <2>1. sessions' \in [Ips -> Entry \cup {Absent}]
    BY <1>2 DEF NewSession, Entry, Addr
  <2>. QED BY <1>2, <2>1 DEF NewSession
<1>3. CASE KnownSession
  BY <1>3 DEF KnownSession
<1>4. CASE ReportConnection
  BY <1>4 DEF ReportConnection, Record, LogRecord, Addr
<1>5. CASE RefreshSession
  <2>1. sessions[addr.ip] \in Entry
    BY <1>5 DEF RefreshSession, Addr
  <2>2. sessions' \in [Ips -> Entry \cup {Absent}]
    BY <1>5, <2>1 DEF RefreshSession, Entry
  <2>. QED BY <1>5, <2>1, <2>2 DEF RefreshSession, Entry
<1>6. CASE RefreshKeyError
  BY <1>6 DEF RefreshKeyError
<1>7. CASE PutReport
  <2>1. Record("data", session, addr.ip, addr.port) \in LogRecord
    BY DEF Record, LogRecord, Addr
  <2>2. log' \in Seq(LogRecord)
    BY <1>7, <2>1 DEF PutReport
  <2>3. left \in Nat \ {0}
    BY <1>7 DEF PutReport
  <2>4. left' \in Nat /\ (left' = 0 => handler' = "idle")
    BY <1>7, <2>3 DEF PutReport
  <2>. QED BY <1>7, <2>2, <2>4 DEF PutReport
<1>8. CASE StopProtocol
  BY <1>8 DEF StopProtocol
<1>9. CASE Wake
  BY <1>9 DEF Wake, Keys
<1>10. CASE IterationError
  BY <1>10 DEF IterationError
<1>11. ASSUME NEW ip \in Ips, Inspect(ip) PROVE TypeOK' /\ LeftInv'
  BY <1>11 DEF Inspect
<1>12. CASE ReportDisconnection
  <2>1. current \in Ips /\ sessions[current] \in Entry
    BY <1>12 DEF ReportDisconnection, CheckerInv, Keys
  <2>2. Record("disconnection", sessions[current].session, current,
               sessions[current].port) \in LogRecord
    BY <2>1 DEF Record, LogRecord, Entry
  <2>. QED BY <1>12, <2>1, <2>2 DEF ReportDisconnection
<1>13. CASE EndIteration
  BY <1>13 DEF EndIteration
<1>14. ASSUME NEW ip \in Ips, DeleteFromDict(ip) PROVE TypeOK' /\ LeftInv'
  BY <1>14 DEF DeleteFromDict
<1>15. CASE Sleep
  BY <1>15 DEF Sleep
<1>16. CASE Tick
  <2>1. now' \in Nat
    BY <1>16 DEF Tick
  <2>. QED BY <1>16, <2>1 DEF Tick
<1>17. CASE UNCHANGED vars
  BY <1>17 DEF vars
<1>. QED BY <1>1, <1>2, <1>3, <1>4, <1>5, <1>6, <1>7, <1>8, <1>9, <1>10, <1>11,
            <1>12, <1>13, <1>14, <1>15, <1>16, <1>17 DEF Next, Handler, Checker

\* A step that leaves the log alone changes no answer to SessionLog's questions.
LEMMA SameLog ==
  ASSUME log' = log
  PROVE  /\ \A s : SL!Logged(s)' <=> SL!Logged(s)
         /\ \A s : SL!Closed(s)' <=> SL!Closed(s)
         /\ \A s, ip : SL!OpenedBy(s, ip)' <=> SL!OpenedBy(s, ip)
         /\ \A s, ip, p : SL!ActiveFrom(s, ip, p)' <=> SL!ActiveFrom(s, ip, p)
BY DEF SL!Logged, SL!Closed, SL!OpenedBy, SL!ActiveFrom

\* A record of any kind makes its session a logged one.
LEMMA LoggedFacts ==
  /\ \A s : SL!Closed(s) => SL!Logged(s)
  /\ \A s, ip : SL!OpenedBy(s, ip) => SL!Logged(s)
BY DEF SL!Logged, SL!Closed, SL!OpenedBy

\* The invariant holds of the empty table and the empty log.
LEMMA IInit == Init => IInv
<1>. SUFFICES ASSUME Init PROVE IInv
  OBVIOUS
<1>1. TypeOK /\ LeftInv
  BY TypeInit
<1>2. Keys = {}
  BY DEF Init, Keys
<1>3. \A s : ~ SL!Logged(s)
  BY DEF Init, SL!Logged
<1>. QED BY <1>1, <1>2, <1>3
         DEF Init, IInv, TableInv, HandlerInv, CheckerInv, LogInv

-----------------------------------------------------------------------------
(* Each step of the handler preserves the invariant.                       *)

\* A datagram only sets what the handler works on.
LEMMA DatagramReceivedInv ==
  ASSUME IInv, NEW a \in Addr, NEW n \in 0 .. MaxReports, DatagramReceived(a, n)
  PROVE  TableInv' /\ HandlerInv' /\ CheckerInv' /\ LogInv'
<1>1. Keys' = Keys
  BY DEF DatagramReceived, table, Keys
<1>. QED BY <1>1, SameLog
         DEF IInv, DatagramReceived, table, checkerVars, TableInv, HandlerInv,
             CheckerInv, LogInv, Unannounced, Closed

\* The new entry has a session nobody has, and is the handler's to announce.
LEMMA NewSessionInv ==
  ASSUME IInv, NewSession
  PROVE  TableInv' /\ HandlerInv' /\ CheckerInv' /\ LogInv'
<1>. USE DEF IInv, NewSession, checkerVars
<1>1. /\ addr.ip \in Ips /\ addr.ip \notin Keys
      /\ Keys' = Keys \cup {addr.ip}
      /\ \A ip \in Keys : sessions'[ip] = sessions[ip]
      /\ sessions'[addr.ip] = [session |-> nextSession, datetime |-> now,
                               port |-> addr.port]
  <2>1. addr.ip \in Ips
    BY DEF TypeOK, Addr
  <2>2. sessions' = [ip \in Ips |-> IF ip = addr.ip
                       THEN [session |-> nextSession, datetime |-> now,
                             port |-> addr.port]
                       ELSE sessions[ip]]
    BY <2>1 DEF TypeOK
  <2>3. [session |-> nextSession, datetime |-> now, port |-> addr.port] # Absent
    <3>1. [session |-> nextSession, datetime |-> now, port |-> addr.port] \in Entry
      BY DEF TypeOK, Addr, Entry
    <3>. QED BY <3>1, SourcesAssumption
  <2>. QED BY <2>1, <2>2, <2>3 DEF Keys
<1>2. ~ SL!Logged(nextSession)
  BY DEF LogInv, TypeOK
<1>3. ~ Closed(nextSession)
  BY <1>2, LoggedFacts DEF Closed
<1>4. TableInv'
  <2>1. sessions'[addr.ip].session = nextSession
    BY <1>1
  <2>2. \A ip \in Keys' : sessions'[ip].session < nextSession'
    BY <1>1, <2>1 DEF TableInv, TypeOK, Keys, Entry
  <2>3. \A ip, jp \in Keys' :
          sessions'[ip].session = sessions'[jp].session => ip = jp
    BY <1>1, <2>1 DEF TableInv, TypeOK
  <2>4. \A ip \in Keys' : Unannounced(ip)' \/
          /\ SL!OpenedBy(sessions[ip].session, ip)'
          /\ SL!ActiveFrom(sessions[ip].session, ip, sessions[ip].port)'
    BY <1>1, SameLog DEF TableInv, Unannounced
  <2>. QED BY <2>2, <2>3, <2>4 DEF TableInv
<1>5. HandlerInv'
  BY <1>1, <1>2, SameLog DEF HandlerInv
<1>6. CheckerInv'
  BY <1>1, <1>3, SameLog DEF CheckerInv, Unannounced, Closed
<1>7. LogInv'
  BY SameLog DEF LogInv, TypeOK
<1>. QED BY <1>4, <1>5, <1>6, <1>7

\* The test of a known address changes only where the handler is.
LEMMA KnownSessionInv ==
  ASSUME IInv, KnownSession
  PROVE  TableInv' /\ HandlerInv' /\ CheckerInv' /\ LogInv'
<1>1. Keys' = Keys
  BY DEF KnownSession, table, Keys
<1>. QED BY <1>1, SameLog
         DEF IInv, KnownSession, table, checkerVars, TableInv, HandlerInv,
             CheckerInv, LogInv, Unannounced, Closed

\* The connection record announces the entry made before it, still in the table.
LEMMA ReportConnectionInv ==
  ASSUME IInv, ReportConnection
  PROVE  TableInv' /\ HandlerInv' /\ CheckerInv' /\ LogInv'
<1>. USE DEF IInv, ReportConnection, table, checkerVars
<1>. DEFINE r == Record("connection", session, addr.ip, addr.port)
<1>1. Keys' = Keys
  BY DEF Keys
<1>2. /\ r \in LogRecord
      /\ r.event = "connection" /\ r.session = session
      /\ r.src_ip = addr.ip /\ r.src_port = addr.port
  BY DEF Record, LogRecord, TypeOK, Addr
<1>. HIDE DEF r
<1>3. log' = Append(log, r) /\ log \in Seq(LogRecord)
  BY DEF r, TypeOK
<1>4. /\ \A s : SL!Logged(s)' <=> SL!Logged(s) \/ session = s
      /\ \A s : SL!Closed(s)' <=> SL!Closed(s)
      /\ \A s, ip : SL!OpenedBy(s, ip)' <=>
           SL!OpenedBy(s, ip) \/ (session = s /\ addr.ip = ip)
      /\ \A s, ip, p : SL!ActiveFrom(s, ip, p)' <=>
           SL!ActiveFrom(s, ip, p) \/ (session = s /\ addr.ip = ip /\ addr.port = p)
  BY <1>2, <1>3, GrowLog
<1>5. /\ addr.ip \in Keys
      /\ sessions[addr.ip].session = session
      /\ sessions[addr.ip].port = addr.port
  BY DEF HandlerInv
<1>6. TableInv'
  <2>1. \A ip \in Keys : /\ SL!OpenedBy(sessions[ip].session, ip)'
                         /\ SL!ActiveFrom(sessions[ip].session, ip, sessions[ip].port)'
    BY <1>4, <1>5 DEF TableInv, Unannounced
  <2>. QED BY <1>1, <2>1 DEF TableInv
<1>7. HandlerInv'
  BY <1>4 DEF HandlerInv
<1>8. CheckerInv'
  BY <1>1, <1>4 DEF CheckerInv, Unannounced, Closed
<1>9. LogInv'
  BY <1>4, <1>5 DEF LogInv, TableInv
<1>. QED BY <1>6, <1>7, <1>8, <1>9

\* The session refreshed is one its address has opened, perhaps already doomed.
LEMMA RefreshSessionInv ==
  ASSUME IInv, RefreshSession
  PROVE  TableInv' /\ HandlerInv' /\ CheckerInv' /\ LogInv'
<1>. USE DEF IInv, RefreshSession, checkerVars
<1>1. addr.ip \in Keys /\ sessions[addr.ip] \in Entry
  BY DEF TypeOK, Addr, Keys
<1>2. /\ Keys' = Keys
      /\ \A ip \in Keys : /\ sessions'[ip].session = sessions[ip].session
                          /\ sessions'[ip].port = sessions[ip].port
  <2>1. [sessions[addr.ip] EXCEPT !.datetime = now] \in Entry
    BY <1>1 DEF Entry, TypeOK
  <2>2. \A ip \in Ips : sessions'[ip] = IF ip = addr.ip
                          THEN [sessions[addr.ip] EXCEPT !.datetime = now]
                          ELSE sessions[ip]
    BY DEF TypeOK
  <2>. QED BY <1>1, <2>1, <2>2, SourcesAssumption DEF Keys, Entry
<1>3. SL!OpenedBy(sessions[addr.ip].session, addr.ip)
  BY <1>1 DEF TableInv, Unannounced
<1>4. TableInv'
  BY <1>2, SameLog DEF TableInv, Unannounced
<1>5. HandlerInv'
  BY <1>3, SameLog DEF HandlerInv
<1>6. CheckerInv'
  BY <1>2, SameLog DEF CheckerInv, Unannounced, Closed
<1>7. LogInv'
  BY SameLog DEF LogInv
<1>. QED BY <1>4, <1>5, <1>6, <1>7

\* A KeyError ends the handler and touches neither table nor log.
LEMMA RefreshKeyErrorInv ==
  ASSUME IInv, RefreshKeyError
  PROVE  TableInv' /\ HandlerInv' /\ CheckerInv' /\ LogInv'
<1>1. Keys' = Keys
  BY DEF RefreshKeyError, table, Keys
<1>. QED BY <1>1, SameLog
         DEF IInv, RefreshKeyError, table, checkerVars, TableInv, HandlerInv,
             CheckerInv, LogInv, Unannounced, Closed

\* A report carries a session its address has opened, so the log stays in order.
LEMMA PutReportInv ==
  ASSUME IInv, PutReport
  PROVE  TableInv' /\ HandlerInv' /\ CheckerInv' /\ LogInv'
<1>. USE DEF IInv, PutReport, table, checkerVars
<1>. DEFINE r == Record("data", session, addr.ip, addr.port)
<1>1. Keys' = Keys
  BY DEF Keys
<1>2. /\ r \in LogRecord
      /\ r.event = "data" /\ r.session = session
  BY DEF Record, LogRecord, TypeOK, Addr
<1>. HIDE DEF r
<1>3. log' = Append(log, r) /\ log \in Seq(LogRecord)
  BY DEF r, TypeOK
<1>4. /\ \A s : SL!Logged(s)' <=> SL!Logged(s) \/ session = s
      /\ \A s : SL!Closed(s)' <=> SL!Closed(s)
      /\ \A s, ip : SL!OpenedBy(s, ip)' <=> SL!OpenedBy(s, ip)
      /\ \A s, ip, p : SL!ActiveFrom(s, ip, p) => SL!ActiveFrom(s, ip, p)'
  BY <1>2, <1>3, GrowLog
<1>5. SL!Logged(session)
  BY LoggedFacts DEF HandlerInv
<1>6. TableInv'
  BY <1>1, <1>4 DEF TableInv, Unannounced
<1>7. HandlerInv'
  BY DEF HandlerInv
<1>8. CheckerInv'
  BY <1>1, <1>4 DEF CheckerInv, Unannounced, Closed
<1>9. LogInv'
  BY <1>4, <1>5 DEF LogInv
<1>. QED BY <1>6, <1>7, <1>8, <1>9

\* stopProtocol only clears the flag.
LEMMA StopProtocolInv ==
  ASSUME IInv, StopProtocol
  PROVE  TableInv' /\ HandlerInv' /\ CheckerInv' /\ LogInv'
<1>1. Keys' = Keys
  BY DEF StopProtocol, Keys
<1>. QED BY <1>1, SameLog
         DEF IInv, StopProtocol, handlerVars, checkerVars, TableInv, HandlerInv,
             CheckerInv, LogInv, Unannounced, Closed

-----------------------------------------------------------------------------
(* Each step of the checker, and of the clock, preserves the invariant.    *)

\* A pass begins with the table's keys and nobody doomed.
LEMMA WakeInv ==
  ASSUME IInv, Wake
  PROVE  TableInv' /\ HandlerInv' /\ CheckerInv' /\ LogInv'
<1>. USE DEF IInv, Wake, table, handlerVars
<1>1. Keys' = Keys
  BY DEF Keys
<1>2. TableInv' /\ HandlerInv' /\ LogInv'
  BY <1>1, SameLog DEF TableInv, HandlerInv, LogInv, Unannounced
<1>3. CheckerInv'
  BY <1>1, SameLog DEF CheckerInv, Unannounced, Closed
<1>. QED BY <1>2, <1>3

\* The steps that only move the checker along.
LEMMA CheckerMovesInv ==
  ASSUME IInv, IterationError \/ EndIteration \/ Sleep
  PROVE  TableInv' /\ HandlerInv' /\ CheckerInv' /\ LogInv'
<1>. USE DEF IInv, IterationError, EndIteration, Sleep, table, handlerVars
<1>1. Keys' = Keys
  BY DEF Keys
<1>2. TableInv' /\ HandlerInv' /\ LogInv'
  BY <1>1, SameLog DEF TableInv, HandlerInv, LogInv, Unannounced
<1>3. CheckerInv'
  BY <1>1, SameLog DEF CheckerInv, Unannounced, Closed
<1>. QED BY <1>2, <1>3

\* The clock moves only while no fresh entry waits to be announced.
LEMMA TickInv ==
  ASSUME IInv, Tick
  PROVE  TableInv' /\ HandlerInv' /\ CheckerInv' /\ LogInv'
<1>1. Keys' = Keys
  BY DEF Tick, table, Keys
<1>. QED BY <1>1, SameLog
         DEF IInv, Tick, table, handlerVars, TableInv, HandlerInv,
             CheckerInv, LogInv, Unannounced, Closed

\* An entry the clock has not aged is not over the limit, so the handler's
\* unannounced entry is never the one found to be.
LEMMA InspectInv ==
  ASSUME IInv, NEW ip \in Ips, Inspect(ip)
  PROVE  TableInv' /\ HandlerInv' /\ CheckerInv' /\ LogInv'
<1>. USE DEF IInv, Inspect, table, handlerVars
<1>1. Keys' = Keys
  BY DEF Keys
<1>2. TableInv' /\ HandlerInv' /\ LogInv'
  BY <1>1, SameLog DEF TableInv, HandlerInv, LogInv, Unannounced
<1>3. ip \in Keys \ doomed
  BY DEF CheckerInv
<1>4. checker' = "report" => ~ Unannounced(ip)
  <2>. SUFFICES ASSUME Unannounced(ip) PROVE ~ Minutes(sessions[ip].datetime) > MINUTES_LEFT
    OBVIOUS
  <2>1. sessions[ip].datetime = now
    BY DEF Unannounced, HandlerInv
  <2>2. 0 % HOUR = 0
    BY MinutesAssumption
  <2>. QED BY <2>1, <2>2, MinutesAssumption DEF Minutes, TypeOK
<1>5. CheckerInv'
  BY <1>1, <1>3, <1>4, SameLog DEF CheckerInv, Unannounced, Closed
<1>. QED BY <1>2, <1>5

\* The entry reported is in the table, announced, and disconnected for the first
\* time; from here on it is doomed.
LEMMA ReportDisconnectionInv ==
  ASSUME IInv, ReportDisconnection
  PROVE  TableInv' /\ HandlerInv' /\ CheckerInv' /\ LogInv'
<1>. USE DEF IInv, ReportDisconnection, table, handlerVars
<1>. DEFINE s0 == sessions[current].session
            r == Record("disconnection", s0, current, sessions[current].port)
<1>1. Keys' = Keys
  BY DEF Keys
<1>2. /\ current \in Keys \ doomed /\ current \notin todo /\ ~ Unannounced(current)
      /\ sessions[current] \in Entry
  BY DEF CheckerInv, TypeOK, Keys
<1>3. SL!OpenedBy(s0, current) /\ SL!Logged(s0)
  BY <1>2, LoggedFacts DEF TableInv
<1>4. /\ r \in LogRecord
      /\ r.event = "disconnection" /\ r.session = s0
  BY <1>2 DEF Record, LogRecord, Entry, Keys
<1>. HIDE DEF r
<1>5. log' = Append(log, r) /\ log \in Seq(LogRecord)
  BY DEF r, TypeOK
<1>6. /\ \A s : SL!Logged(s)' <=> SL!Logged(s) \/ s0 = s
      /\ \A s : SL!Closed(s)' <=> SL!Closed(s) \/ s0 = s
      /\ \A s, ip : SL!OpenedBy(s, ip)' <=> SL!OpenedBy(s, ip)
      /\ \A s, ip, p : SL!ActiveFrom(s, ip, p) => SL!ActiveFrom(s, ip, p)'
  BY <1>4, <1>5, GrowLog
<1>7. TableInv'
  BY <1>1, <1>6 DEF TableInv, Unannounced
<1>8. HandlerInv'
  <2>1. handler = "connect" => s0 # session
    BY <1>3 DEF HandlerInv
  <2>2. handler = "connect" => ~ SL!Logged(session)'
    BY <1>6, <2>1 DEF HandlerInv
  <2>3. handler = "put" => SL!OpenedBy(session, addr.ip)'
    BY <1>6 DEF HandlerInv
  <2>. QED BY <1>1, <2>2, <2>3 DEF HandlerInv
<1>9. CheckerInv'
  <2>1. \A ip \in Keys' : Closed(sessions[ip].session)' <=> ip \in doomed'
    BY <1>1, <1>2, <1>6 DEF CheckerInv, TableInv, Closed
  <2>. QED BY <1>1, <1>2, <2>1 DEF CheckerInv, Unannounced
<1>10. LogInv'
  BY <1>3, <1>6 DEF LogInv
<1>. QED BY <1>7, <1>8, <1>9, <1>10

\* Only a doomed entry goes, and its session is given to nobody else.
LEMMA DeleteFromDictInv ==
  ASSUME IInv, NEW ip \in Ips, DeleteFromDict(ip)
  PROVE  TableInv' /\ HandlerInv' /\ CheckerInv' /\ LogInv'
<1>. USE DEF IInv, DeleteFromDict, handlerVars
<1>1. /\ Keys' = Keys \ {ip}
      /\ \A jp \in Keys' : sessions'[jp] = sessions[jp]
  <2>1. \A jp \in Ips : sessions'[jp] = IF jp = ip THEN Absent ELSE sessions[jp]
    BY DEF TypeOK
  <2>. QED BY <2>1 DEF Keys
<1>2. TableInv'
  BY <1>1, SameLog DEF TableInv, Unannounced
<1>3. handler = "connect" => addr.ip # ip
  BY LoggedFacts DEF HandlerInv, CheckerInv, Closed
<1>4. HandlerInv'
  BY <1>1, <1>3, SameLog DEF HandlerInv
<1>5. CheckerInv'
  BY <1>1, SameLog DEF CheckerInv, Unannounced, Closed
<1>6. LogInv'
  BY SameLog DEF LogInv
<1>. QED BY <1>2, <1>4, <1>5, <1>6

-----------------------------------------------------------------------------
(* The theorems.                                                           *)

\* The invariant is inductive.
LEMMA IStep == IInv /\ [Next]_vars => IInv'
<1>. SUFFICES ASSUME IInv, [Next]_vars PROVE IInv'
  OBVIOUS
<1>1. TypeOK' /\ LeftInv'
  BY TypeStep DEF IInv
<1>2. TableInv' /\ HandlerInv' /\ CheckerInv' /\ LogInv'
  <2>1. CASE UNCHANGED vars
    <3>1. Keys' = Keys /\ log' = log
      BY <2>1 DEF vars, table, Keys
    <3>. QED BY <2>1, <3>1, SameLog
             DEF IInv, vars, table, handlerVars, checkerVars, TableInv, HandlerInv,
                 CheckerInv, LogInv, Unannounced, Closed
  <2>2. CASE Handler
    BY <2>2, NewSessionInv, KnownSessionInv, ReportConnectionInv, RefreshSessionInv,
       RefreshKeyErrorInv, PutReportInv DEF Handler
  <2>3. CASE Checker
    BY <2>3, WakeInv, CheckerMovesInv, InspectInv, ReportDisconnectionInv,
       DeleteFromDictInv DEF Checker
  <2>. QED BY <2>1, <2>2, <2>3, DatagramReceivedInv, StopProtocolInv, TickInv DEF Next
<1>. QED BY <1>1, <1>2 DEF IInv

\* The types of check_conection's and get_session's shared state are kept.
THEOREM TypeCorrect == Spec => []TypeOK
<1>1. IInv => TypeOK
  BY DEF IInv
<1>. QED BY IInit, IStep, <1>1, PTL DEF Spec

\* Table, handler, checker and log agree in every reachable state.
THEOREM Invariance == Spec => []IInv
BY IInit, IStep, PTL DEF Spec

\* When the checker sleeps, every session reported as disconnected is deleted.
THEOREM ReportsMatchDeletions == Spec => []ReportedIsDeleted
<1>1. IInv => ReportedIsDeleted
  BY DEF IInv, CheckerInv, ReportedIsDeleted
<1>. QED BY Invariance, <1>1, PTL

\* No step of either thread removes a session that has no disconnection record.
THEOREM DeletionsReported == Spec => DeletedOnlyIfReported
<1>1. IInv /\ [Next]_vars =>
        [\A ip \in Keys : sessions'[ip] = Absent => Closed(sessions[ip].session)]_vars
  <2>. SUFFICES ASSUME IInv, Next, NEW ip \in Keys, sessions'[ip] = Absent
                PROVE  Closed(sessions[ip].session)
    BY DEF Keys
  <2>. USE DEF IInv, TypeOK, Keys
  <2>1. CASE sessions' = sessions
    BY <2>1
  <2>2. CASE NewSession
    BY <2>2 DEF NewSession
  <2>3. CASE RefreshSession
    <3>1. [sessions[addr.ip] EXCEPT !.datetime = now] \in Entry
      BY <2>3 DEF RefreshSession, Addr, Entry
    <3>. QED BY <2>3, <3>1, SourcesAssumption DEF RefreshSession
  <2>4. ASSUME NEW jp \in Ips, DeleteFromDict(jp)
        PROVE  Closed(sessions[ip].session)
    BY <2>4 DEF DeleteFromDict, CheckerInv
  <2>. QED BY <2>1, <2>2, <2>3, <2>4
           DEF Next, Handler, Checker, DatagramReceived, KnownSession, ReportConnection,
               RefreshKeyError, PutReport, StopProtocol, Wake, IterationError, Inspect,
               ReportDisconnection, EndIteration, Sleep, Tick, table
<1>. QED BY Invariance, <1>1, PTL DEF Spec, DeletedOnlyIfReported

-----------------------------------------------------------------------------
(* Refinement: every step puts the record SessionLog allows, or none.      *)

\* The record a step appends is the one SessionLog's next-state relation looks at.
LEMMA NewestRecord ==
  ASSUME log \in Seq(LogRecord), NEW r \in LogRecord, log' = Append(log, r)
  PROVE  /\ log' # << >>
         /\ log'[Len(log')] = r
         /\ r \in SL!Record
BY AppendFacts DEF LogRecord, SL!Record, SL!Events

\* The log of UDPServer, kept by two threads without a lock, is a session log:
\* one connection first, one source per session, at most one disconnection.
THEOREM Refinement == Spec => ImplementsSessionLog
<1>1. Init => SL!Init
  BY DEF Init, SL!Init
<1>2. IInv /\ [Next]_vars => [SL!Next]_log
  <2>. SUFFICES ASSUME IInv, [Next]_vars PROVE SL!Next \/ log' = log
    OBVIOUS
  <2>. USE DEF IInv
  <2>1. CASE ReportConnection
    <3>. DEFINE r == Record("connection", session, addr.ip, addr.port)
    <3>1. /\ r \in LogRecord /\ r.event = "connection" /\ r.session = session
      BY DEF Record, LogRecord, TypeOK, Addr
    <3>2. log' = Append(log, r) /\ ~ SL!Logged(session)
      BY <2>1 DEF ReportConnection, HandlerInv
    <3>. HIDE DEF r
    <3>3. SL!Open(r)
      BY <3>1, <3>2 DEF SL!Open
    <3>. QED BY <3>1, <3>2, <3>3, NewestRecord DEF SL!Next, TypeOK
  <2>2. CASE PutReport
    <3>. DEFINE r == Record("data", session, addr.ip, addr.port)
    <3>1. /\ r \in LogRecord /\ r.event = "data"
          /\ r.session = session /\ r.src_ip = addr.ip
      BY DEF Record, LogRecord, TypeOK, Addr
    <3>2. log' = Append(log, r) /\ SL!OpenedBy(session, addr.ip)
      BY <2>2 DEF PutReport, HandlerInv
    <3>. HIDE DEF r
    <3>3. SL!Data(r)
      BY <3>1, <3>2 DEF SL!Data
    <3>. QED BY <3>1, <3>2, <3>3, NewestRecord DEF SL!Next, TypeOK
  <2>3. CASE ReportDisconnection
    <3>. DEFINE r == Record("disconnection", sessions[current].session, current,
                            sessions[current].port)
    <3>1. /\ current \in Keys \ doomed /\ ~ Unannounced(current)
          /\ sessions[current] \in Entry
      BY <2>3 DEF ReportDisconnection, CheckerInv, TypeOK, Keys
    <3>2. /\ r \in LogRecord /\ r.event = "disconnection"
          /\ r.session = sessions[current].session
          /\ r.src_ip = current /\ r.src_port = sessions[current].port
      BY <3>1 DEF Record, LogRecord, Entry, Keys
    <3>3. /\ log' = Append(log, r)
          /\ SL!OpenedBy(sessions[current].session, current)
          /\ SL!ActiveFrom(sessions[current].session, current, sessions[current].port)
          /\ ~ SL!Closed(sessions[current].session)
      BY <2>3, <3>1 DEF ReportDisconnection, TableInv, CheckerInv, Closed
    <3>. HIDE DEF r
    <3>4. SL!Close(r)
      BY <3>2, <3>3 DEF SL!Close
    <3>. QED BY <3>2, <3>3, <3>4, NewestRecord DEF SL!Next, TypeOK
  <2>. QED BY <2>1, <2>2, <2>3
           DEF Next, Handler, Checker, DatagramReceived, NewSession, KnownSession,
               RefreshSession, RefreshKeyError, StopProtocol, Wake, IterationError,
               Inspect, EndIteration, DeleteFromDict, Sleep, Tick, vars
<1>. QED BY Invariance, <1>1, <1>2, PTL DEF Spec, ImplementsSessionLog, SL!Spec

-----------------------------------------------------------------------------
(* Sessions of one address follow each other.                              *)

\* The session of a connection record is still its address's entry, or closed.
ConnectionInv ==
  \A i \in 1 .. Len(log) : log[i].event = "connection" =>
     \/ /\ log[i].src_ip \in Keys
        /\ sessions[log[i].src_ip].session = log[i].session
     \/ Closed(log[i].session)

\* Every step keeps the connections of one address apart: each but the newest is
\* disconnected.  Only NewSession and ReportConnection open one.
LEMMA ConnectionStep ==
  IInv /\ ConnectionInv /\ OneOpenSession /\ [Next]_vars
    => ConnectionInv' /\ OneOpenSession'
<1>. SUFFICES ASSUME IInv, ConnectionInv, OneOpenSession, [Next]_vars
              PROVE  ConnectionInv' /\ OneOpenSession'
  OBVIOUS
<1>. USE DEF IInv
<1>1. CASE log' = log
  <2>1. OneOpenSession'
    BY <1>1 DEF OneOpenSession
  <2>2. ASSUME NEW ip \in Keys, ~ Closed(sessions[ip].session)
        PROVE  ip \in Keys' /\ sessions'[ip].session = sessions[ip].session
    <3>. USE DEF TypeOK, Keys
    <3>1. CASE sessions' = sessions
      BY <2>2, <3>1
    <3>2. CASE NewSession
      BY <2>2, <3>2 DEF NewSession
    <3>3. CASE RefreshSession
      <4>1. [sessions[addr.ip] EXCEPT !.datetime = now] \in Entry
        BY <3>3 DEF RefreshSession, Addr, Entry
      <4>. QED BY <2>2, <3>3, <4>1, SourcesAssumption DEF RefreshSession, Entry
    <3>4. ASSUME NEW jp \in Ips, DeleteFromDict(jp)
          PROVE  ip \in Keys' /\ sessions'[ip].session = sessions[ip].session
      BY <2>2, <3>4 DEF DeleteFromDict, CheckerInv
    <3>. QED BY <3>1, <3>2, <3>3, <3>4
             DEF Next, Handler, Checker, DatagramReceived, KnownSession,
                 ReportConnection, RefreshKeyError, PutReport, StopProtocol, Wake,
                 IterationError, Inspect, ReportDisconnection, EndIteration, Sleep,
                 Tick, table, vars
  <2>3. ConnectionInv'
    BY <1>1, <2>2, SameLog DEF ConnectionInv, Closed
  <2>. QED BY <2>1, <2>3
<1>2. ASSUME NEW r \in LogRecord, log' = Append(log, r), sessions' = sessions,
             r.event = "connection" =>
               /\ ~ SL!Logged(r.session)
               /\ r.src_ip \in Keys
               /\ sessions[r.src_ip].session = r.session
      PROVE  ConnectionInv' /\ OneOpenSession'
  <2>1. /\ Len(log') = Len(log) + 1
        /\ Len(log) \in Nat
        /\ \A i \in 1 .. Len(log) : log'[i] = log[i]
        /\ log'[Len(log) + 1] = r
    BY <1>2, AppendFacts DEF TypeOK
  <2>2. \A s : Closed(s) => Closed(s)'
    BY <1>2, GrowLog DEF TypeOK, Closed
  <2>3. Keys' = Keys
    BY <1>2 DEF Keys
  <2>4. ConnectionInv'
    BY <1>2, <2>1, <2>2, <2>3 DEF ConnectionInv
  <2>5. ASSUME NEW i \in 1 .. Len(log'), NEW j \in 1 .. Len(log'), i < j,
               log'[i].event = "connection", log'[j].event = "connection",
               log'[i].src_ip = log'[j].src_ip
        PROVE  \E k \in 1 .. j : /\ log'[k].event = "disconnection"
                                 /\ log'[k].session = log'[i].session
    <3>1. CASE j \in 1 .. Len(log)
      <4>1. PICK k \in 1 .. j : /\ log[k].event = "disconnection"
                                /\ log[k].session = log[i].session
        BY <2>1, <2>5, <3>1 DEF OneOpenSession
      <4>. QED BY <2>1, <2>5, <3>1, <4>1
    <3>2. CASE j = Len(log) + 1
      <4>1. i \in 1 .. Len(log) /\ log'[i] = log[i]
        BY <2>1, <2>5, <3>2
      <4>2. SL!Logged(log[i].session)
        BY <4>1 DEF SL!Logged
      <4>3. Closed(log[i].session)
        BY <1>2, <2>1, <2>5, <3>2, <4>1, <4>2 DEF ConnectionInv
      <4>4. PICK k \in 1 .. Len(log) : /\ log[k].session = log[i].session
                                       /\ log[k].event = "disconnection"
        BY <4>3 DEF Closed, SL!Closed
      <4>. QED BY <2>1, <3>2, <4>1, <4>4
    <3>. QED BY <2>1, <2>5, <3>1, <3>2
  <2>. QED BY <2>4, <2>5 DEF OneOpenSession
<1>3. CASE ReportConnection
  <2>. DEFINE r == Record("connection", session, addr.ip, addr.port)
  <2>1. /\ r \in LogRecord /\ r.event = "connection"
        /\ r.session = session /\ r.src_ip = addr.ip
    BY DEF Record, LogRecord, TypeOK, Addr
  <2>2. /\ log' = Append(log, r) /\ sessions' = sessions
        /\ ~ SL!Logged(session)
        /\ addr.ip \in Keys /\ sessions[addr.ip].session = session
    BY <1>3 DEF ReportConnection, table, HandlerInv
  <2>. HIDE DEF r
  <2>. QED BY <1>2, <2>1, <2>2
<1>4. CASE PutReport
  <2>. DEFINE r == Record("data", session, addr.ip, addr.port)
  <2>1. r \in LogRecord /\ r.event # "connection"
    BY DEF Record, LogRecord, TypeOK, Addr
  <2>2. log' = Append(log, r) /\ sessions' = sessions
    BY <1>4 DEF PutReport, table
  <2>. HIDE DEF r
  <2>. QED BY <1>2, <2>1, <2>2
<1>5. CASE ReportDisconnection
  <2>. DEFINE r == Record("disconnection", sessions[current].session, current,
                          sessions[current].port)
  <2>1. current \in Ips /\ sessions[current] \in Entry
    BY <1>5 DEF ReportDisconnection, CheckerInv, TypeOK, Keys
  <2>2. r \in LogRecord /\ r.event # "connection"
    BY <2>1 DEF Record, LogRecord, Entry
  <2>3. log' = Append(log, r) /\ sessions' = sessions
    BY <1>5 DEF ReportDisconnection, table
  <2>. HIDE DEF r
  <2>. QED BY <1>2, <2>2, <2>3
<1>. QED BY <1>1, <1>3, <1>4, <1>5
         DEF Next, Handler, Checker, DatagramReceived, NewSession, KnownSession,
             RefreshSession, RefreshKeyError, StopProtocol, Wake, IterationError,
             Inspect, EndIteration, DeleteFromDict, Sleep, Tick, vars

\* An address is given a new session only after its last one was disconnected.
THEOREM SessionsFollow == Spec => []OneOpenSession
<1>1. Init => ConnectionInv /\ OneOpenSession
  BY DEF Init, ConnectionInv, OneOpenSession
<1>. QED BY Invariance, ConnectionStep, <1>1, PTL DEF Spec

-----------------------------------------------------------------------------
(* Expiry.                                                                 *)

Age(ip) == now - sessions[ip].datetime

\* No entry is older than the limit allows: those the checker has passed in this
\* pass are within it, and a minute only begins once a pass is complete.
AgeInv ==
  checker \notin {"dead", "stopped"} =>
    /\ \A ip \in Keys : Age(ip) \in 0 .. (MINUTES_LEFT + 1)
    /\ checker = "asleep" /\ passed => \A ip \in Keys : Age(ip) <= MINUTES_LEFT
    /\ checker = "iterate" =>
         \A ip \in Keys \ (todo \cup doomed) : Age(ip) <= MINUTES_LEFT
    /\ checker = "report" =>
         \A ip \in Keys \ (todo \cup doomed \cup {current}) : Age(ip) <= MINUTES_LEFT
    /\ checker = "delete" => \A ip \in Keys \ doomed : Age(ip) <= MINUTES_LEFT

\* While the checker runs, no entry it has passed over this minute ages past the
\* limit, and no other by more than a minute.
LEMMA AgeStep == IInv /\ AgeInv /\ [Next]_vars => AgeInv'
<1>. SUFFICES ASSUME IInv, AgeInv, [Next]_vars,
                     checker' \notin {"dead", "stopped"}
              PROVE  AgeInv'
  BY DEF AgeInv
<1>. USE DEF IInv, Age
<1>1. checker \notin {"dead", "stopped"}
  BY DEF Next, Handler, Checker, DatagramReceived, NewSession, KnownSession,
         ReportConnection, RefreshSession, RefreshKeyError, PutReport, StopProtocol,
         Wake, IterationError, Inspect, ReportDisconnection, EndIteration,
         DeleteFromDict, Sleep, Tick, vars, checkerVars
<1>2. \A ip \in Keys : /\ sessions[ip] \in Entry
                       /\ sessions[ip].datetime \in Nat
                       /\ Age(ip) \in 0 .. (MINUTES_LEFT + 1)
  BY <1>1, SourcesAssumption DEF AgeInv, TypeOK, Keys, Entry
<1>3. CASE UNCHANGED <<sessions, now, checkerVars>>
  BY <1>1, <1>3 DEF AgeInv, Keys, checkerVars
<1>4. CASE NewSession \/ RefreshSession
  <2>1. /\ addr.ip \in Ips
        /\ Keys' = Keys \cup {addr.ip}
        /\ sessions'[addr.ip].datetime = now
        /\ \A ip \in Keys \ {addr.ip} : sessions'[ip] = sessions[ip]
    <3>1. CASE NewSession
      <4>1. [session |-> nextSession, datetime |-> now, port |-> addr.port] \in Entry
        BY DEF TypeOK, Addr, Entry
      <4>2. PICK old, new, k, entry :
              /\ old = sessions /\ new = sessions' /\ k = addr.ip
              /\ entry = [session |-> nextSession, datetime |-> now, port |-> addr.port]
        OBVIOUS
      <4>3. k \in Ips /\ old \in [Ips -> Entry \cup {Absent}] /\ new = [old EXCEPT ![k] = entry]
        BY <3>1, <4>2 DEF NewSession, TypeOK, Addr
      <4>4. entry \in Entry /\ entry.datetime = now
        BY ONLY <4>1, <4>2
      <4>5. entry # Absent
        BY <4>4, SourcesAssumption
      <4>6. /\ new[k] = entry /\ \A ip \in Ips \ {k} : new[ip] = old[ip]
            /\ {ip \in Ips : new[ip] # Absent} = {ip \in Ips : old[ip] # Absent} \cup {k}
        BY ONLY <4>3, <4>5
      <4>. QED BY <4>2, <4>3, <4>4, <4>6 DEF Keys
    <3>2. CASE RefreshSession
      <4>1. /\ addr.ip \in Keys /\ sessions[addr.ip] \in Entry
            /\ [sessions[addr.ip] EXCEPT !.datetime = now] \in Entry
        BY <3>2 DEF RefreshSession, TypeOK, Addr, Entry, Keys
      <4>2. PICK old, new, k, entry :
              /\ old = sessions /\ new = sessions' /\ k = addr.ip
              /\ entry = [sessions[addr.ip] EXCEPT !.datetime = now]
        OBVIOUS
      <4>3. /\ k \in Ips /\ old \in [Ips -> Entry \cup {Absent}] /\ old[k] # Absent
            /\ new = [old EXCEPT ![k] = entry]
        BY <3>2, <4>1, <4>2 DEF RefreshSession, TypeOK, Keys
      <4>4. entry \in Entry /\ entry.datetime = now
        BY ONLY <4>1, <4>2 DEF Entry
      <4>5. entry # Absent
        BY <4>4, SourcesAssumption
      <4>6. /\ new[k] = entry /\ \A ip \in Ips \ {k} : new[ip] = old[ip]
            /\ {ip \in Ips : new[ip] # Absent} = {ip \in Ips : old[ip] # Absent} \cup {k}
        BY ONLY <4>3, <4>5
      <4>. QED BY <4>2, <4>3, <4>4, <4>6 DEF Keys
    <3>. QED BY <1>4, <3>1, <3>2
  <2>2. now' = now /\ UNCHANGED checkerVars
    BY <1>4 DEF NewSession, RefreshSession
  <2>3. now - now = 0 /\ MINUTES_LEFT \in Nat
    BY MinutesAssumption DEF TypeOK
  <2>4. \A ip \in Keys' : \/ Age(ip)' = 0
                          \/ ip \in Keys /\ Age(ip)' = Age(ip)
    BY <2>1, <2>2, <2>3
  <2>. HIDE DEF Age
  <2>. QED BY <1>1, <2>2, <2>3, <2>4 DEF AgeInv, checkerVars
<1>5. CASE Wake
  <2>1. Keys' = Keys
    BY <1>5 DEF Wake, table, Keys
  <2>. QED BY <1>1, <1>2, <1>5, <2>1 DEF AgeInv, Wake, table
<1>6. ASSUME NEW ip \in Ips, Inspect(ip) PROVE AgeInv'
  <2>1. Keys' = Keys /\ ip \in Keys
    BY <1>6 DEF Inspect, table, Keys, CheckerInv
  <2>2. Minutes(sessions[ip].datetime) = Age(ip)
    <3>. DEFINE a == now - sessions[ip].datetime
    <3>1. a \in Nat /\ a < HOUR /\ HOUR \in Nat
      BY <1>2, <2>1, MinutesAssumption DEF TypeOK
    <3>. HIDE DEF a
    <3>2. a % HOUR = a
      BY <3>1
    <3>. QED BY <3>2 DEF a, Minutes
  <2>3. checker' = "iterate" => Age(ip) <= MINUTES_LEFT
    BY <1>2, <1>6, <2>1, <2>2, MinutesAssumption DEF Inspect, TypeOK
  <2>4. \A jp \in Keys : Age(jp)' = Age(jp)
    BY <1>6 DEF Inspect, table
  <2>. HIDE DEF Age
  <2>. QED BY <1>1, <1>2, <1>6, <2>1, <2>3, <2>4 DEF AgeInv, Inspect
<1>7. CASE ReportDisconnection
  <2>1. Keys' = Keys
    BY <1>7 DEF ReportDisconnection, table, Keys
  <2>. QED BY <1>1, <1>7, <2>1 DEF AgeInv, ReportDisconnection, table
<1>8. CASE EndIteration
  <2>1. Keys' = Keys
    BY <1>8 DEF EndIteration, table, Keys
  <2>. QED BY <1>1, <1>8, <2>1 DEF AgeInv, EndIteration, table
<1>9. ASSUME NEW ip \in Ips, DeleteFromDict(ip) PROVE AgeInv'
  <2>1. \A jp \in Ips : sessions'[jp] = IF jp = ip THEN Absent ELSE sessions[jp]
    BY <1>9 DEF DeleteFromDict, TypeOK
  <2>2. Keys' = Keys \ {ip} /\ \A jp \in Keys' : sessions'[jp] = sessions[jp]
    BY <2>1 DEF Keys
  <2>. QED BY <1>1, <1>9, <2>2 DEF AgeInv, DeleteFromDict
<1>10. CASE Sleep
  <2>1. Keys' = Keys
    BY <1>10 DEF Sleep, table, Keys
  <2>. QED BY <1>1, <1>10, <2>1 DEF AgeInv, Sleep, table
<1>11. CASE Tick
  <2>1. Keys' = Keys
    BY <1>11 DEF Tick, table, Keys
  <2>2. \A ip \in Keys : Age(ip) <= MINUTES_LEFT
    BY <1>1, <1>11 DEF AgeInv, Tick
  <2>3. \A ip \in Keys : Age(ip)' = Age(ip) + 1
    BY <1>2, <1>11 DEF Tick, table, TypeOK
  <2>4. \A ip \in Keys : Age(ip) \in Nat
    BY <1>2, MinutesAssumption DEF TypeOK
  <2>. HIDE DEF Age
  <2>5. \A ip \in Keys' : Age(ip)' \in 0 .. (MINUTES_LEFT + 1)
    BY <2>1, <2>2, <2>3, <2>4, MinutesAssumption
  <2>. QED BY <1>1, <1>11, <2>5 DEF AgeInv, Tick
<1>12. UNCHANGED <<sessions, now, checkerVars>>
         \/ NewSession \/ RefreshSession \/ Checker \/ Tick
  BY DEF Next, Handler, DatagramReceived, KnownSession, ReportConnection,
         RefreshKeyError, PutReport, StopProtocol, table, vars
<1>13. ~ IterationError
  BY DEF IterationError
<1>. QED BY <1>3, <1>4, <1>5, <1>6, <1>7, <1>8, <1>9, <1>10, <1>11, <1>12, <1>13
         DEF Checker

\* As long as its thread lives, the checker leaves no silent address in the table
\* for more than a minute over the limit.
THEOREM ExpiryIsPrompt == Spec => []ExpiryPrompt
<1>1. Init => AgeInv
  BY DEF Init, AgeInv, Keys
<1>2. AgeInv => ExpiryPrompt
  BY MinutesAssumption DEF AgeInv, ExpiryPrompt, Age
<1>. QED BY Invariance, AgeStep, <1>1, <1>2, PTL DEF Spec
=============================================================================
