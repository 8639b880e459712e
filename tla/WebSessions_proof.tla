------------------------- MODULE WebSessions_proof -------------------------
(***************************************************************************)
(* That the log of the web honeypot is a session log, for any addresses,   *)
(* ports, time-out and bounds, and that its sweep deletes what it reports. *)
(***************************************************************************)
EXTENDS WebSessions, FiniteSetTheorems, TLAPS

-----------------------------------------------------------------------------
(* SessionLog's questions, asked of any sequence of records: a request of  *)
(* a new address puts two of them on the log.                              *)

LoggedIn(q, s) == \E i \in 1 .. Len(q) : q[i].session = s
OpenedIn(q, s, ip) ==
  \E i \in 1 .. Len(q) : q[i].session = s /\ q[i].event = "connection" /\ q[i].src_ip = ip
ActiveIn(q, s, ip, port) ==
  \E i \in 1 .. Len(q) : q[i].session = s /\ q[i].src_ip = ip /\ q[i].src_port = port
ClosedIn(q, s) == \E i \in 1 .. Len(q) : q[i].session = s /\ q[i].event = "disconnection"

\* A record may follow the records q of a session log.
MayFollow(q, r) ==
  /\ r.event = "connection" <=> ~ LoggedIn(q, r.session)
  /\ r.event # "connection" => OpenedIn(q, r.session, r.src_ip)
  /\ r.event = "disconnection" =>
       ActiveIn(q, r.session, r.src_ip, r.src_port) /\ ~ ClosedIn(q, r.session)

BeforeIn(q, i, s) == {j \in 1 .. (i - 1) : q[j].session = s}

\* The record at i may follow the ones before it.
FollowsAt(q, i) ==
  LET r == q[i]
      earlier == BeforeIn(q, i, r.session)
  IN /\ r.event = "connection" <=> earlier = {}
     /\ r.event # "connection" =>
          \E j \in earlier : q[j].event = "connection" /\ q[j].src_ip = r.src_ip
     /\ r.event = "disconnection" =>
          /\ \E j \in earlier : q[j].src_ip = r.src_ip /\ q[j].src_port = r.src_port
          /\ \A j \in earlier : q[j].event # "disconnection"

WellFormedSeq(q) == \A i \in 1 .. Len(q) : FollowsAt(q, i)

LEMMA LogIsSeq == SL!WellFormed <=> WellFormedSeq(log)
BY DEF SL!WellFormed, SL!Before, WellFormedSeq, FollowsAt, BeforeIn

\* What the proofs use of Append.
LEMMA AppendFacts ==
  ASSUME NEW q \in Seq(LogRecord), NEW r \in LogRecord
  PROVE  /\ Append(q, r) \in Seq(LogRecord)
         /\ Len(Append(q, r)) = Len(q) + 1 /\ Len(q) \in Nat
         /\ \A i \in 1 .. Len(q) : q[i] \in LogRecord /\ Append(q, r)[i] = q[i]
         /\ Append(q, r)[Len(q) + 1] = r
OBVIOUS

\* A record that agrees with the ones before it on a longer log agrees there, too.
LEMMA SameBefore ==
  ASSUME NEW q, NEW p, NEW n \in Nat, NEW i \in 1 .. n,
         \A j \in 1 .. n : p[j] = q[j], FollowsAt(q, i)
  PROVE  FollowsAt(p, i)
<1>1. BeforeIn(p, i, p[i].session) = BeforeIn(q, i, q[i].session)
  BY DEF BeforeIn
<1>2. \A j \in BeforeIn(q, i, q[i].session) : p[j] = q[j]
  BY DEF BeforeIn
<1> QED
  BY <1>1, <1>2 DEF FollowsAt

\* A record that may follow keeps the log a session log, and what it adds to it.
LEMMA Grow ==
  ASSUME NEW q \in Seq(LogRecord), NEW r \in LogRecord
  PROVE  LET p == Append(q, r)
         IN /\ p \in Seq(LogRecord)
            /\ WellFormedSeq(q) /\ MayFollow(q, r) => WellFormedSeq(p)
            /\ \A s : LoggedIn(p, s) <=> LoggedIn(q, s) \/ r.session = s
            /\ \A s, ip : OpenedIn(p, s, ip) <=>
                 \/ OpenedIn(q, s, ip)
                 \/ r.session = s /\ r.event = "connection" /\ r.src_ip = ip
            /\ \A s, ip, port : ActiveIn(p, s, ip, port) <=>
                 \/ ActiveIn(q, s, ip, port)
                 \/ r.session = s /\ r.src_ip = ip /\ r.src_port = port
            /\ \A s : ClosedIn(p, s) <=> \/ ClosedIn(q, s)
                                         \/ r.session = s /\ r.event = "disconnection"
<1> DEFINE p == Append(q, r)
<1>1. /\ p \in Seq(LogRecord) /\ Len(p) = Len(q) + 1 /\ Len(q) \in Nat
      /\ \A i \in 1 .. Len(q) : p[i] = q[i]
      /\ p[Len(q) + 1] = r
  BY AppendFacts
<1>2. 1 .. Len(p) = (1 .. Len(q)) \cup {Len(q) + 1}
  BY <1>1
<1> HIDE DEF p
<1>3. \A s : LoggedIn(p, s) <=> LoggedIn(q, s) \/ r.session = s
  BY <1>1, <1>2 DEF LoggedIn
<1>4. \A s, ip : OpenedIn(p, s, ip) <=>
        \/ OpenedIn(q, s, ip)
        \/ r.session = s /\ r.event = "connection" /\ r.src_ip = ip
  BY <1>1, <1>2 DEF OpenedIn
<1>5. \A s, ip, port : ActiveIn(p, s, ip, port) <=>
        \/ ActiveIn(q, s, ip, port)
        \/ r.session = s /\ r.src_ip = ip /\ r.src_port = port
  BY <1>1, <1>2 DEF ActiveIn
<1>6. \A s : ClosedIn(p, s) <=> \/ ClosedIn(q, s)
                                \/ r.session = s /\ r.event = "disconnection"
  BY <1>1, <1>2 DEF ClosedIn
<1>7. ASSUME WellFormedSeq(q), MayFollow(q, r) PROVE WellFormedSeq(p)
  <2>1. ASSUME NEW i \in 1 .. Len(q) PROVE FollowsAt(p, i)
    BY <1>1, <1>7, SameBefore DEF WellFormedSeq
  <2>2. FollowsAt(p, Len(q) + 1)
    <3>1. PICK earlier : earlier = BeforeIn(p, Len(q) + 1, r.session)
      OBVIOUS
    <3>2. earlier = {j \in 1 .. Len(q) : q[j].session = r.session} /\ \A j \in earlier : p[j] = q[j]
      BY <1>1, <3>1 DEF BeforeIn
    <3>3. earlier = {} <=> ~ LoggedIn(q, r.session)
      BY ONLY <3>2 DEF LoggedIn
    <3>4. OpenedIn(q, r.session, r.src_ip) =>
            \E j \in earlier : p[j].event = "connection" /\ p[j].src_ip = r.src_ip
      BY ONLY <3>2 DEF OpenedIn
    <3>5. ActiveIn(q, r.session, r.src_ip, r.src_port) =>
            \E j \in earlier : p[j].src_ip = r.src_ip /\ p[j].src_port = r.src_port
      BY ONLY <3>2 DEF ActiveIn
    <3>6. ~ ClosedIn(q, r.session) => \A j \in earlier : p[j].event # "disconnection"
      BY ONLY <3>2 DEF ClosedIn
    <3> QED
      BY ONLY <1>1, <1>7, <3>1, <3>3, <3>4, <3>5, <3>6 DEF FollowsAt, MayFollow
  <2> QED
    BY <1>2, <2>1, <2>2 DEF WellFormedSeq
<1> QED
  BY <1>1, <1>3, <1>4, <1>5, <1>6, <1>7 DEF p

-----------------------------------------------------------------------------
(* The inductive invariant.                                                *)

\* Each row has a session of its own, which the log shows opened by the row's address,
\* active from its port, and not closed.
TableInv ==
  /\ \A ip \in Rows : /\ OpenedIn(log, attacks[ip].session, ip)
                      /\ ActiveIn(log, attacks[ip].session, ip, attacks[ip].port)
                      /\ ~ ClosedIn(log, attacks[ip].session)
  /\ \A ip, jp \in Rows : attacks[ip].session = attacks[jp].session => ip = jp

\* Sessions that were not given out yet appear in no record.
LogInv == \A s \in Nat : LoggedIn(log, s) => s < nextSession

IInv == TypeOK /\ WellFormedSeq(log) /\ TableInv /\ LogInv

LEMMA IInit == Init => IInv
<1> SUFFICES ASSUME Init PROVE IInv
  OBVIOUS
<1>1. Rows = {} /\ log = << >> /\ log \in Seq(LogRecord)
  BY DEF Init, Rows
<1>2. attacks \in [Ips -> Row \cup {Absent}]
  BY DEF Init
<1>3. TypeOK
  BY <1>1, <1>2, TimeoutAssumption DEF Init, TypeOK
<1> QED
  BY <1>1, <1>3 DEF IInv, WellFormedSeq, TableInv, LogInv, LoggedIn

\* A request of a known address goes on with its session.
LEMMA KnownInv ==
  ASSUME IInv, NEW ip \in Ips, NEW port \in Ports, handler(ip, port), ip \in Rows
  PROVE  IInv'
<1>1. TypeOK /\ WellFormedSeq(log) /\ TableInv /\ LogInv
  BY DEF IInv
<1>2. PICK r : r = Record("data", attacks[ip].session, ip, port)
  OBVIOUS
<1>3. PICK row : row = [session |-> attacks[ip].session, port |-> port, datetime |-> now]
  OBVIOUS
<1>4. /\ attacks' = [attacks EXCEPT ![ip] = row] /\ log' = Append(log \o << >>, r)
      /\ UNCHANGED <<nextSession, now, swept>>
  BY <1>2, <1>3 DEF handler, Opened
<1>5. /\ attacks[ip] \in Row /\ attacks[ip].session \in Nat /\ log \in Seq(LogRecord)
      /\ now \in Nat /\ attacks[ip].session < nextSession
  BY <1>1, TimeoutAssumption DEF TypeOK, Rows, Row
<1>6. log' = Append(log, r)
  BY <1>4, <1>5
<1>7. /\ r \in LogRecord /\ r.event = "data" /\ r.session = attacks[ip].session
      /\ r.src_ip = ip /\ r.src_port = port
  BY <1>2, <1>5 DEF Record, LogRecord
<1>8. /\ row \in Row /\ row.session = attacks[ip].session /\ row.port = port
      /\ row.datetime = now /\ row # Absent
  BY <1>3, <1>5, RowsAssumption DEF Row
<1>9. /\ attacks' \in [Ips -> Row \cup {Absent}] /\ attacks'[ip] = row
      /\ \A jp \in Ips : jp # ip => attacks'[jp] = attacks[jp]
  BY <1>1, <1>4, <1>8 DEF TypeOK
<1>10. Rows' = Rows
  BY <1>8, <1>9 DEF Rows
<1>11. MayFollow(log, r)
  <2>1. OpenedIn(log, r.session, ip)
    BY <1>1, <1>7 DEF TableInv
  <2> QED
    BY <1>7, <2>1 DEF MayFollow, OpenedIn, LoggedIn
<1>12. /\ log' \in Seq(LogRecord) /\ WellFormedSeq(log')
       /\ \A s : LoggedIn(log', s) <=> LoggedIn(log, s) \/ r.session = s
       /\ \A s, jp : OpenedIn(log, s, jp) => OpenedIn(log', s, jp)
       /\ \A s, jp, pp : ActiveIn(log', s, jp, pp) <=>
            \/ ActiveIn(log, s, jp, pp)
            \/ r.session = s /\ r.src_ip = jp /\ r.src_port = pp
       /\ \A s : ClosedIn(log', s) <=> ClosedIn(log, s)
  BY <1>1, <1>5, <1>6, <1>7, <1>11, Grow
<1>13. TypeOK'
  BY <1>1, <1>4, <1>5, <1>8, <1>9, <1>10, <1>12 DEF TypeOK, Rows
<1>14. TableInv'
  BY <1>1, <1>7, <1>8, <1>9, <1>10, <1>12 DEF TableInv, Rows
<1>15. LogInv'
  BY <1>1, <1>4, <1>5, <1>7, <1>12 DEF LogInv
<1> QED
  BY <1>12, <1>13, <1>14, <1>15 DEF IInv

\* A request of a new address opens a session.
LEMMA NewInv ==
  ASSUME IInv, NEW ip \in Ips, NEW port \in Ports, handler(ip, port), ip \notin Rows
  PROVE  IInv'
<1>1. TypeOK /\ WellFormedSeq(log) /\ TableInv /\ LogInv
  BY DEF IInv
<1>2. PICK c : c = Record("connection", nextSession, ip, port)
  OBVIOUS
<1>3. PICK r : r = Record("data", nextSession, ip, port)
  OBVIOUS
<1>4. PICK row : row = [session |-> nextSession, port |-> port, datetime |-> now]
  OBVIOUS
<1>5. /\ attacks' = [attacks EXCEPT ![ip] = row] /\ log' = Append(log \o <<c>>, r)
      /\ nextSession' = nextSession + 1 /\ UNCHANGED <<now, swept>>
  BY <1>2, <1>3, <1>4 DEF handler, Opened
<1>6. nextSession \in Nat /\ log \in Seq(LogRecord) /\ now \in Nat
  BY <1>1, TimeoutAssumption DEF TypeOK
<1>7. /\ c \in LogRecord /\ c.event = "connection" /\ c.session = nextSession
      /\ c.src_ip = ip /\ c.src_port = port
      /\ r \in LogRecord /\ r.event = "data" /\ r.session = nextSession
      /\ r.src_ip = ip /\ r.src_port = port
  BY <1>2, <1>3, <1>6 DEF Record, LogRecord
<1>8. PICK mid : mid = Append(log, c)
  OBVIOUS
<1>9. log' = Append(mid, r)
  BY <1>5, <1>6, <1>7, <1>8
<1>10. /\ row \in Row /\ row.session = nextSession /\ row.port = port
       /\ row.datetime = now /\ row # Absent
  BY <1>4, <1>6, RowsAssumption DEF Row
<1>11. /\ attacks' \in [Ips -> Row \cup {Absent}] /\ attacks'[ip] = row
       /\ \A jp \in Ips : jp # ip => attacks'[jp] = attacks[jp]
  BY <1>1, <1>5, <1>10 DEF TypeOK
<1>12. Rows' = Rows \cup {ip}
  BY <1>10, <1>11 DEF Rows
<1>13. ~ LoggedIn(log, nextSession)
  BY <1>1, <1>6 DEF LogInv
<1>14. MayFollow(log, c)
  BY <1>7, <1>13 DEF MayFollow
<1>15. /\ mid \in Seq(LogRecord) /\ WellFormedSeq(mid)
       /\ \A s : LoggedIn(mid, s) <=> LoggedIn(log, s) \/ c.session = s
       /\ \A s, jp : OpenedIn(mid, s, jp) <=>
            \/ OpenedIn(log, s, jp)
            \/ c.session = s /\ c.event = "connection" /\ c.src_ip = jp
       /\ \A s, jp, pp : ActiveIn(log, s, jp, pp) => ActiveIn(mid, s, jp, pp)
       /\ \A s : ClosedIn(mid, s) <=> ClosedIn(log, s)
  BY <1>1, <1>6, <1>7, <1>8, <1>14, Grow
<1>16. MayFollow(mid, r)
  BY <1>7, <1>15 DEF MayFollow
<1>17. /\ log' \in Seq(LogRecord) /\ WellFormedSeq(log')
       /\ \A s : LoggedIn(log', s) <=> LoggedIn(mid, s) \/ r.session = s
       /\ \A s, jp : OpenedIn(mid, s, jp) => OpenedIn(log', s, jp)
       /\ \A s, jp, pp : ActiveIn(log', s, jp, pp) <=>
            \/ ActiveIn(mid, s, jp, pp)
            \/ r.session = s /\ r.src_ip = jp /\ r.src_port = pp
       /\ \A s : ClosedIn(log', s) <=> ClosedIn(mid, s)
  BY <1>7, <1>9, <1>15, <1>16, Grow
<1>18. TypeOK'
  <2>1. \A jp \in Rows' : attacks'[jp].session < nextSession' /\ attacks'[jp].datetime <= now'
    <3>1. \A jp \in Rows : attacks[jp].session \in Nat /\ attacks[jp].session < nextSession
                             /\ attacks[jp].datetime <= now
      BY <1>1 DEF TypeOK, Rows, Row
    <3> QED
      BY <1>5, <1>6, <1>10, <1>11, <1>12, <3>1 DEF Rows
  <2> QED
    BY <1>1, <1>5, <1>6, <1>11, <1>17, <2>1 DEF TypeOK
<1>19. TableInv'
  <2>1. ~ ClosedIn(log, nextSession)
    BY <1>13 DEF LoggedIn, ClosedIn
  <2>2. \A jp \in Rows : attacks[jp].session # nextSession
    BY <1>1, <1>6 DEF TypeOK, Rows, Row
  <2>3. /\ OpenedIn(log', nextSession, ip) /\ ActiveIn(log', nextSession, ip, port)
        /\ ~ ClosedIn(log', nextSession)
    BY <1>7, <1>15, <1>17, <2>1
  <2> QED
    BY <1>1, <1>10, <1>11, <1>12, <1>15, <1>17, <2>2, <2>3 DEF TableInv, Rows
<1>20. LogInv'
  <2>1. \A s \in Nat : LoggedIn(log, s) => s < nextSession
    BY <1>1 DEF LogInv
  <2>2. \A s : LoggedIn(log', s) <=> LoggedIn(log, s) \/ s = nextSession
    BY ONLY <1>7, <1>15, <1>17
  <2>3. nextSession \in Nat /\ nextSession' = nextSession + 1
    BY ONLY <1>5, <1>6
  <2> QED
    BY ONLY <2>1, <2>2, <2>3 DEF LogInv
<1> QED
  BY <1>17, <1>18, <1>19, <1>20 DEF IInv

\* What the concatenation of two logs holds, and where.
LEMMA ConcatFacts ==
  ASSUME NEW q \in Seq(LogRecord), NEW e \in Seq(LogRecord)
  PROVE  /\ q \o e \in Seq(LogRecord) /\ Len(q \o e) = Len(q) + Len(e)
         /\ Len(q) \in Nat
         /\ \A i \in 1 .. Len(q) : (q \o e)[i] = q[i]
         /\ \A i \in 1 .. Len(e) : (q \o e)[Len(q) + i] = e[i]
  BY SMTT(30)

\* The sweep closes sessions of different rows, which no record follows any more.
LEMMA SweepInv == ASSUME IInv, Sweep PROVE IInv'
<1>1. TypeOK /\ WellFormedSeq(log) /\ TableInv /\ LogInv
  BY DEF IInv
<1>2. PICK S : S = Reported(now - ATTACK_TIMEOUT)
  OBVIOUS
<1>3. PICK order \in SetToSeqs(S) :
        log' = log \o [i \in DOMAIN order |->
          Record("disconnection", attacks[order[i]].session, order[i], attacks[order[i]].port)]
  BY <1>2 DEF Sweep
<1>4. PICK n \in Nat : n = Cardinality(S)
  <2>1. S \subseteq Ips
    BY <1>2 DEF Reported, IsoExpired, Rows
  <2> QED
    BY <2>1, IpsAssumption, FS_Subset, FS_CardinalityType
<1>5. /\ order \in [1 .. n -> S] /\ S \subseteq Rows /\ Rows \subseteq Ips
      /\ \A i, j \in 1 .. n : i # j => order[i] # order[j]
  BY <1>2, <1>3, <1>4 DEF SetToSeqs, Reported, IsoExpired, Rows
<1>6. PICK new : new = [i \in 1 .. n |->
          Record("disconnection", attacks[order[i]].session, order[i], attacks[order[i]].port)]
  OBVIOUS
<1>7. \A i \in 1 .. n :
        /\ new[i] \in LogRecord /\ new[i].event = "disconnection"
        /\ new[i].session = attacks[order[i]].session
        /\ new[i].src_ip = order[i] /\ new[i].src_port = attacks[order[i]].port
        /\ order[i] \in Rows
  <2> SUFFICES ASSUME NEW i \in 1 .. n
               PROVE  /\ new[i] \in LogRecord /\ new[i].event = "disconnection"
                      /\ new[i].session = attacks[order[i]].session
                      /\ new[i].src_ip = order[i] /\ new[i].src_port = attacks[order[i]].port
                      /\ order[i] \in Rows
    OBVIOUS
  <2>1. order[i] \in Rows /\ order[i] \in Ips
    BY <1>5
  <2>2. attacks[order[i]] \in Row
    BY <1>1, <2>1 DEF TypeOK, Rows
  <2> QED
    BY <1>6, <2>1, <2>2 DEF Record, LogRecord, Row
<1>8. new \in Seq(LogRecord) /\ Len(new) = n /\ log' = log \o new /\ log \in Seq(LogRecord)
  <2>1. new \in [1 .. n -> LogRecord]
    BY <1>6, <1>7
  <2>2. new \in Seq(LogRecord) /\ Len(new) = n
    BY ONLY <1>5, <2>1
  <2>3. log \in Seq(LogRecord)
    BY <1>1 DEF TypeOK
  <2>4. DOMAIN order = 1 .. n
    BY ONLY <1>5
  <2>5. log' = log \o new
    BY ONLY <1>3, <1>6, <2>4
  <2> QED
    BY ONLY <2>2, <2>3, <2>5
<1>9. /\ log' \in Seq(LogRecord) /\ Len(log') = Len(log) + n /\ Len(log) \in Nat
      /\ \A i \in 1 .. Len(log) : log'[i] = log[i]
      /\ \A i \in 1 .. n : log'[Len(log) + i] = new[i]
  BY ONLY <1>8, ConcatFacts
<1>10. \A i \in 1 .. Len(log') : i \in 1 .. Len(log) \/ \E k \in 1 .. n : i = Len(log) + k
  <2> SUFFICES ASSUME NEW i \in 1 .. Len(log'), i \notin 1 .. Len(log)
               PROVE  \E k \in 1 .. n : i = Len(log) + k
    OBVIOUS
  <2>1. i - Len(log) \in 1 .. n /\ i = Len(log) + (i - Len(log))
    BY <1>9
  <2> QED
    BY <2>1
<1>11. WellFormedSeq(log')
  <2>1. ASSUME NEW i \in 1 .. Len(log) PROVE FollowsAt(log', i)
    BY <1>1, <1>9, SameBefore DEF WellFormedSeq
  <2>2. ASSUME NEW k \in 1 .. n PROVE FollowsAt(log', Len(log) + k)
    <3>1. PICK ip \in Rows : ip = order[k]
      BY <1>7
    <3>2. PICK r : r = log'[Len(log) + k]
      OBVIOUS
    <3>3. /\ r.event = "disconnection" /\ r.session = attacks[ip].session
          /\ r.src_ip = ip /\ r.src_port = attacks[ip].port
      BY <1>7, <1>9, <3>1, <3>2
    <3>4. PICK E : E = BeforeIn(log', Len(log) + k, r.session)
      OBVIOUS
    <3>5. \A j \in 1 .. Len(log) : log[j].session = r.session => j \in E /\ log'[j] = log[j]
      BY <1>9, <3>4 DEF BeforeIn
    <3>6. /\ \E j \in E : log'[j].event = "connection" /\ log'[j].src_ip = ip
          /\ \E j \in E : log'[j].src_ip = ip /\ log'[j].src_port = attacks[ip].port
      BY <1>1, <3>3, <3>5 DEF TableInv, OpenedIn, ActiveIn
    <3>7. ASSUME NEW j \in E PROVE log'[j].event # "disconnection"
      <4>1. /\ j \in 1 .. (Len(log) + k - 1) /\ log'[j].session = attacks[ip].session
            /\ j \in 1 .. Len(log')
        BY <1>9, <3>3, <3>4 DEF BeforeIn
      <4>2. CASE j \in 1 .. Len(log)
        BY <1>1, <1>9, <4>1, <4>2 DEF TableInv, ClosedIn
      <4>3. CASE j \notin 1 .. Len(log)
        <5>1. PICK l \in 1 .. n : j = Len(log) + l
          BY <1>10, <4>1, <4>3
        <5>2. l # k
          BY <1>9, <4>1, <5>1
        <5>3. attacks[order[l]].session = attacks[ip].session /\ order[l] \in Rows
          BY <1>7, <1>9, <4>1, <5>1
        <5> QED
          BY <1>1, <1>5, <3>1, <5>2, <5>3 DEF TableInv
      <4> QED
        BY <4>2, <4>3
    <3> QED
      BY <3>2, <3>3, <3>4, <3>6, <3>7 DEF FollowsAt
  <2> QED
    BY <1>10, <2>1, <2>2 DEF WellFormedSeq
<1>12. Rows' = {}
  BY RowsAssumption DEF Sweep, Deleted, DateExpired, Rows
<1>13. LogInv'
  <2> SUFFICES ASSUME NEW i \in 1 .. Len(log') PROVE log'[i].session < nextSession
    BY DEF LogInv, LoggedIn, Sweep
  <2>1. CASE i \in 1 .. Len(log)
    <3>1. log[i] \in LogRecord
      BY <1>8, <2>1
    <3> QED
      BY <1>1, <1>9, <2>1, <3>1 DEF LogInv, LoggedIn, LogRecord
  <2>2. ASSUME NEW k \in 1 .. n, i = Len(log) + k PROVE log'[i].session < nextSession
    <3>1. PICK ip \in Rows : ip = order[k]
      BY <1>7, <2>2
    <3>2. attacks[ip].session < nextSession
      BY <1>1 DEF TypeOK
    <3>3. log'[i] = new[k] /\ new[k].session = attacks[ip].session
      BY <1>7, <1>9, <2>2, <3>1
    <3> QED
      BY <3>2, <3>3
  <2> QED
    BY <1>10, <2>1, <2>2
<1>14. TypeOK'
  <2>1. attacks' \in [Ips -> Row \cup {Absent}]
    BY <1>1 DEF Sweep, TypeOK
  <2>2. swept' = now /\ now' = now /\ nextSession' = nextSession /\ now \in Nat
    BY <1>1, TimeoutAssumption DEF Sweep, TypeOK
  <2> QED
    BY <1>1, <1>9, <1>12, <2>1, <2>2, TimeoutAssumption DEF TypeOK
<1> QED
  BY <1>11, <1>12, <1>13, <1>14 DEF IInv, TableInv

LEMMA TickInv == ASSUME IInv, Tick PROVE IInv'
<1>1. TypeOK'
  <2>1. \A ip \in Rows : attacks[ip].datetime \in Nat
    BY DEF IInv, TypeOK, Rows, Row
  <2> QED
    BY <2>1, TimeoutAssumption DEF IInv, TypeOK, Tick, Rows
<1> QED
  BY <1>1 DEF IInv, Tick, TableInv, Rows, LogInv

LEMMA IStep == IInv /\ [Next]_vars => IInv'
<1> SUFFICES ASSUME IInv, [Next]_vars PROVE IInv'
  OBVIOUS
<1>1. CASE UNCHANGED vars
  BY <1>1 DEF IInv, TypeOK, TableInv, Rows, LogInv, vars
<1> QED
  BY <1>1, KnownInv, NewInv, SweepInv, TickInv DEF Next

-----------------------------------------------------------------------------
(* The theorems.                                                           *)

\* The inductive invariant holds in every reachable state.
THEOREM Invariance == Spec => []IInv
BY IInit, IStep, PTL DEF Spec

\* The table and the log have their types, sessions of the table were given out, and
\* setInterval's sweep is never late.
THEOREM TypeCorrect == Spec => []TypeOK
<1>1. IInv => TypeOK
  BY DEF IInv
<1> QED
  BY <1>1, Invariance, PTL

\* What server.js gives to fs.appendFile is a session log.
THEOREM LogIsSessionLog == Spec => []SessionLogged
<1>1. IInv => SessionLogged
  BY LogIsSeq DEF IInv, SessionLogged
<1> QED
  BY <1>1, Invariance, PTL

\* getSession never continues a session that the sweep has reported as disconnected.
THEOREM ReportsMatchDeletions == Spec => []ReportedIsDeleted
<1>1. IInv => ReportedIsDeleted
  BY DEF IInv, TableInv, ReportedIsDeleted, Closed, SL!Closed, ClosedIn
<1> QED
  BY <1>1, Invariance, PTL
=============================================================================
