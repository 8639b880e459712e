---------------------------- MODULE WebSessions ----------------------------
(***************************************************************************)
(* server.js: the web honeypot's table of attacks, its request handler and *)
(* the sweep that setInterval runs every ATTACK_TIMEOUT.  Node runs one    *)
(* callback at a time, so each is one step.  The log is taken in the order *)
(* of the calls of fs.appendFile.  What a request is answered is left out: *)
(* it touches none of this state.                                          *)
(***************************************************************************)
EXTENDS Integers, Sequences, FiniteSets, SequencesExt

CONSTANTS Ips, Ports,      \* remote addresses and ports
          Absent,          \* "this address has no row"
          ATTACK_TIMEOUT,  \* the limit and the sweep's interval, in clock units
          MaxRecords,      \* bound: no request comes once so much was logged
          MaxNow           \* bound: the clock stops there

Row == [session : Nat, port : Ports, datetime : Nat]

ASSUME IpsAssumption == IsFiniteSet(Ips)
ASSUME RowsAssumption == Absent \notin Ips /\ Absent \notin Row
ASSUME TimeoutAssumption == ATTACK_TIMEOUT \in Nat \ {0}
ASSUME BoundsAssumption == MaxRecords \in Nat /\ MaxNow \in Nat

LogRecord == [event : {"connection", "data", "disconnection"}, session : Nat,
              src_ip : Ips, src_port : Ports]

VARIABLES
  attacks,      \* the table, by address
  log,          \* the records given to fs.appendFile
  nextSession,  \* the next uuid4
  now,          \* the clock
  swept         \* when the sweep last ran

vars == <<attacks, log, nextSession, now, swept>>

Record(event, s, ip, port) ==
  [event |-> event, session |-> s, src_ip |-> ip, src_port |-> port]

Rows == {ip \in Ips : attacks[ip] # Absent}

\* `datetime <= bound' on texts.  With bound an ISO text it compares times.
IsoExpired(bound) == {ip \in Rows : attacks[ip].datetime <= bound}

\* With bound a Date, whose text begins with the name of the day, it compares the
\* digit every datetime begins with to a letter, and holds of every row.
DateExpired(bound) == Rows

SL == INSTANCE SessionLog WITH Ips <- Ips, Ports <- Ports, log <- log
Closed(s) == SL!Closed(s)

-----------------------------------------------------------------------------
(* Faulty variants.                                                        *)

\* Opened: a known address is announced again.
FaultyOpened(ip, port) ==
  <<Record("connection", IF ip \in Rows THEN attacks[ip].session ELSE nextSession,
           ip, port)>>

\* Deleted: only rows idle since before the last sweep go.
FaultyDeleted(bound) == {ip \in Rows : attacks[ip].datetime <= bound - ATTACK_TIMEOUT}

-----------------------------------------------------------------------------
\* getSession's connection record, for an address without a row.
Opened(ip, port) ==
  IF ip \in Rows THEN << >> ELSE <<Record("connection", nextSession, ip, port)>>

\* Mutant of handler: the uuid is made once.
FaultyHandler(ip, port) ==
  LET session == IF ip \in Rows THEN attacks[ip].session ELSE nextSession
  IN /\ Len(log) < MaxRecords
     /\ attacks' = [attacks EXCEPT ![ip] =
          [session |-> session, port |-> port, datetime |-> now]]
     /\ log' = Append(log \o Opened(ip, port), Record("data", session, ip, port))
     /\ UNCHANGED <<nextSession, now, swept>>

\* getSession finds the row or makes it, updateAttack renews its port and datetime,
\* and the request is logged.
handler(ip, port) ==
  LET session == IF ip \in Rows THEN attacks[ip].session ELSE nextSession
  IN /\ Len(log) < MaxRecords
     /\ attacks' = [attacks EXCEPT ![ip] =
          [session |-> session, port |-> port, datetime |-> now]]
     /\ nextSession' = IF ip \in Rows THEN nextSession ELSE nextSession + 1
     /\ log' = Append(log \o Opened(ip, port), Record("data", session, ip, port))
     /\ UNCHANGED <<now, swept>>

Reported(bound) == IsoExpired(bound)

\* deleteExpiredAttacks is given the Date itself.
Deleted(bound) == DateExpired(bound)

Sweep ==
  LET bound == now - ATTACK_TIMEOUT
  IN /\ now = swept + ATTACK_TIMEOUT
     /\ swept' = now
     /\ \E order \in SetToSeqs(Reported(bound)) :
          log' = log \o [i \in DOMAIN order |->
            Record("disconnection", attacks[order[i]].session, order[i],
                   attacks[order[i]].port)]
     /\ attacks' = [ip \in Ips |-> IF ip \in Deleted(bound) THEN Absent ELSE attacks[ip]]
     /\ UNCHANGED <<nextSession, now>>

\* The timer fires on time.
Tick ==
  /\ now < MaxNow
  /\ now < swept + ATTACK_TIMEOUT
  /\ now' = now + 1
  /\ UNCHANGED <<attacks, log, nextSession, swept>>

Init ==
  /\ attacks = [ip \in Ips |-> Absent]
  /\ log = << >>
  /\ nextSession = 1
  /\ now = 0
  /\ swept = 0

Next == (\E ip \in Ips, port \in Ports : handler(ip, port)) \/ Sweep \/ Tick

Spec == Init /\ [][Next]_vars

-----------------------------------------------------------------------------
\* The types; sessions of the table are ones that were given out, and the sweep is
\* never late.
TypeOK ==
  /\ attacks \in [Ips -> Row \cup {Absent}]
  /\ \A ip \in Rows : attacks[ip].session < nextSession /\ attacks[ip].datetime <= now
  /\ log \in Seq(LogRecord)
  /\ nextSession \in Nat
  /\ swept \in Nat
  /\ now \in swept .. (swept + ATTACK_TIMEOUT)

\* The web log is a session log: a connection first, one address per session, at
\* most one disconnection, from a port the session was last active from.
SessionLogged == SL!WellFormed

\* A session that was reported as disconnected has no row any more, so it cannot
\* be continued: what the sweep reports and what it deletes agree that far.
ReportedIsDeleted == \A ip \in Rows : ~ Closed(attacks[ip].session)

\* ATTACK_TIMEOUT: only an attack idle for 60 seconds is expired and deleted.  The
\* sweep deletes every row.
OnlyExpiredDeleted ==
  [][\A ip \in Rows : attacks'[ip] = Absent =>
        now - attacks[ip].datetime >= ATTACK_TIMEOUT]_vars
=============================================================================
