------------------------------ MODULE SshProxy ------------------------------
(***************************************************************************)
(* The SSH proxy of cowrie: FrontendSSHTransport towards the attacker,     *)
(* BackendSSHTransport towards the guest, and between them the SSH object  *)
(* that reads each decrypted packet and hands most of them on.  The code's *)
(* '[SERVER]' is the end of the attacker here, '[CLIENT]' that of the      *)
(* guest.  An action is a callback of the reactor with all that it calls.  *)
(*                                                                         *)
(* Both peers are assumed to speak SSH as its standards have it (they open *)
(* a channel with a number not in use, send on channels that are open and  *)
(* confirm what was opened), except that the attacker may authenticate     *)
(* again at any time.                                                      *)
(***************************************************************************)
EXTENDS ProxySession

CONSTANTS ChannelIds,   \* the numbers each peer gives to channels
          None          \* "no number yet"

ASSUME NoneAssumption == None \notin ChannelIds

VARIABLES
  frontendAuthenticated,  \* the last USERAUTH request of the attacker succeeded
  canAuth,                \* the guest's connection is encrypted
  backendConnected,       \* USERAUTH was sent to the guest
  delayed,                \* delayedPackets of each transport
  channels,               \* the list of channels, oldest first
  kept                    \* history: packets not sent on, by end they came from

sshvars == <<frontendAuthenticated, canAuth, backendConnected, delayed, channels, kept>>

Other(e) == IF e = "frontend" THEN "backend" ELSE "frontend"

Channel == [serverID : ChannelIds \cup {None}, clientID : ChannelIds \cup {None},
            session : BOOLEAN, closed : SUBSET Ends]

\* What the proxy tells apart in a packet.  chan is the recipient's number of
\* the channel, or the sender's in "open"; peer is the sender's in "confirm".
\* "userauth" is what a guest answers to the proxy's own login.
Kinds == {"ignore", "open", "open tcpip", "confirm", "open failure",
          "session request", "sftp request", "other request", "data", "close",
          "tcpip-forward", "userauth"}

Packet == [kind : Kinds, chan : ChannelIds \cup {None},
           peer : ChannelIds \cup {None}, number : 1 .. MaxPackets]

SshTypeOK ==
  /\ frontendAuthenticated \in BOOLEAN /\ canAuth \in BOOLEAN
  /\ backendConnected \in BOOLEAN
  /\ delayed \in [Ends -> Seq(Packet)]
  /\ channels \in Seq(Channel)
  /\ kept \in [Ends -> SUBSET [kind : Kinds, number : 1 .. MaxPackets]]

\* The state of the SSH objects when a connection is made.
SshStart ==
  /\ frontendAuthenticated = FALSE /\ canAuth = FALSE /\ backendConnected = FALSE
  /\ delayed = [e \in Ends |-> << >>]
  /\ channels = << >>
  /\ kept = [e \in Ends |-> {}]

-----------------------------------------------------------------------------
(* parse_packet.  Its effect is on a record of the channels, the numbers   *)
(* passed on, the packets kept, whether it set the time-out and the        *)
(* exception it raised.                                                    *)

State == [channels |-> channels, passed |-> passed, kept |-> kept, timer |-> timer,
          raised |-> "no"]

\* An end names a channel by the number that the other end gave it.
NumberedBy(c, e) == IF e = "backend" THEN c.serverID ELSE c.clientID

\* get_channel walks the list up to the channel: a channel on the way that
\* has no number from that end yet raises KeyError.
Position(chs, chan, e) == SelectInSeq(chs, LAMBDA c : NumberedBy(c, e) = chan)
Unnumbered(chs, e) == SelectInSeq(chs, LAMBDA c : NumberedBy(c, e) = None)

get_channel(chs, chan, e) ==
  LET at == Position(chs, chan, e)
      gap == Unnumbered(chs, e)
  IN IF gap # 0 /\ (at = 0 \/ gap < at) THEN [at |-> 0, raised |-> "unnumbered channel"]
     ELSE [at |-> at, raised |-> IF at = 0 THEN "no such channel" ELSE "no"]

\* What clears sendOn: a guest's answer to the proxy's login, and what the
\* settings forbid.
Withheld(p) ==
  \/ p.kind = "userauth"
  \/ p.kind = "open tcpip" /\ "forwarding" \notin settings
  \/ p.kind = "sftp request" /\ "sftp_enabled" \notin settings

\* create_channel
NewChannel(e, chan, tcpip) ==
  [serverID |-> IF e = "frontend" THEN chan ELSE None,
   clientID |-> IF e = "backend" THEN chan ELSE None,
   session |-> tcpip, closed |-> {}]

\* A session channel sets the interactive time-out.  A forwarded one is found
\* again from the other side, to be given its PortForward.
OpenChannel(st, e, p) ==
  LET chs == Append(st.channels, NewChannel(e, p.chan, p.kind = "open tcpip"))
  IN [st EXCEPT !.channels = chs,
                !.timer = @ \/ p.kind = "open",
                !.raised = IF p.kind = "open" THEN "no"
                           ELSE get_channel(chs, p.chan, Other(e)).raised]

Confirm(c, e, p) == IF e = "frontend" THEN [c EXCEPT !.serverID = p.peer]
                                    ELSE [c EXCEPT !.clientID = p.peer]

\* Mutant: the channel leaves the list with the first CHANNEL_CLOSE.
FaultyCloseChannel(chs, at, e) == RemoveAt(chs, at)

\* CHANNEL_CLOSE: with the second one the channel leaves the list.
CloseChannel(chs, at, e) ==
  IF Other(e) \in chs[at].closed THEN RemoveAt(chs, at)
  ELSE [chs EXCEPT ![at].closed = @ \cup {e}]

\* The packets about a channel that must be in the list.
OnChannel(st, e, p) ==
  LET found == get_channel(st.channels, p.chan, e)
      at == found.at
  IN IF found.raised = "no such channel" /\ p.kind = "other request" THEN st
     ELSE IF found.raised # "no" THEN [st EXCEPT !.raised = found.raised]
     ELSE CASE p.kind = "confirm" -> [st EXCEPT !.channels[at] = Confirm(@, e, p)]
            [] p.kind = "open failure" -> [st EXCEPT !.channels = RemoveAt(@, at)]
            [] p.kind \in {"session request", "sftp request"} ->
                 IF Withheld(p) THEN st ELSE [st EXCEPT !.channels[at].session = TRUE]
            [] p.kind = "close" -> [st EXCEPT !.channels = CloseChannel(@, at, e)]
            [] p.kind = "data" ->
                 [st EXCEPT !.raised = IF st.channels[at].session THEN "no" ELSE "no such channel"]
            [] OTHER -> st

\* getboolean(['ssh', 'forwarding']) lacks an argument, and raises.
Parsed(st, e, p) ==
  CASE p.kind \in {"open", "open tcpip"} -> IF Withheld(p) THEN st ELSE OpenChannel(st, e, p)
    [] p.kind = "tcpip-forward" -> [st EXCEPT !.raised = "forwarding"]
    [] p.kind \in {"ignore", "userauth"} -> st
    [] OTHER -> OnChannel(st, e, p)

\* A packet is sent on to the other end, or its own end is told that it is not.
Receiver(e, p) == IF Withheld(p) THEN e ELSE Other(e)

\* sendPacket raises once the attacker's transport was set to None.
SentOn(read, e, p) ==
  IF read.raised # "no" THEN read
  ELSE IF front = "lost" /\ Receiver(e, p) = "frontend"
       THEN [read EXCEPT !.raised = "attacker gone"]
  ELSE IF Withheld(p)
       THEN [read EXCEPT !.kept[e] = @ \cup {[kind |-> p.kind, number |-> p.number]}]
  ELSE [read EXCEPT !.passed[e] = Append(@, p.number)]

parse_packet(st, e, p) ==
  IF st.raised # "no" THEN st ELSE SentOn(Parsed(st, e, p), e, p)

\* Mutant: what was held back is replaced by the newest packet.
FaultyParse_all(st, e, ps) == IF ps = << >> THEN st ELSE parse_packet(st, e, Last(ps))

parse_all(st, e, ps) ==
  LET after[n \in 0 .. Len(ps)] ==
        IF n = 0 THEN st ELSE parse_packet(after[n - 1], e, ps[n])
  IN after[Len(ps)]

-----------------------------------------------------------------------------
\* A packet's exception ends the connection it came by.
Keep(st) == channels' = st.channels /\ passed' = st.passed /\ kept' = st.kept
Note(st) == dropped' = IF dropped = "no" THEN st.raised ELSE dropped

BackendGone == /\ back' = "lost" /\ front' = LoseFront
               /\ UNCHANGED <<pool, freed>>

\* The version string and the key exchange, or a version that is refused.
VersionReceived ==
  /\ front = "plain"
  /\ front' \in {"ready", "closing"}
  /\ UNCHANGED <<protocol, settings, pool, back, authDone, timer, freed, late>>
  /\ UNCHANGED <<traffic, sshvars>>

\* authenticateBackend, once both ends are ready: USERAUTH for the guest, and
\* then the packets that waited, without waiting for the guest's answer.
authenticateBackend(authenticated, secured) ==
  IF authenticated /\ secured
  THEN LET st == parse_all(State, "frontend", delayed["frontend"])
       IN /\ backendConnected' = TRUE
          /\ Keep(st)
          /\ timer' = st.timer
          /\ IF st.raised = "no"
             THEN authDone' = TRUE /\ delayed' = [delayed EXCEPT !["frontend"] = << >>]
             ELSE UNCHANGED <<authDone, delayed>>
          /\ Note(st)
  ELSE UNCHANGED <<backendConnected, channels, passed, kept, timer, authDone, delayed,
                   dropped>>

\* A USERAUTH request, granted or not.  An exception in the flush would only
\* be taken for a failed login, by the Deferred it runs in, and the next login
\* would flush again: MaxPackets bounds that, too.
Userauth(granted) ==
  /\ front = "ready" /\ Len(passed["frontend"]) <= MaxPackets
  /\ frontendAuthenticated' = granted
  /\ authenticateBackend(granted, canAuth /\ back \in {"up", "closing"})
  /\ UNCHANGED <<protocol, settings, front, pool, back, freed, late, canAuth, packets>>

\* connectionSecure of the guest's connection.
ConnectionSecure ==
  /\ back = "up" /\ ~ canAuth
  /\ canAuth' = TRUE
  /\ authenticateBackend(frontendAuthenticated, TRUE)
  /\ IF dropped' = dropped THEN UNCHANGED <<front, back, pool, freed>> ELSE BackendGone
  /\ UNCHANGED <<protocol, settings, late, frontendAuthenticated, packets>>

-----------------------------------------------------------------------------
(* What the peers may send. *)

Awaited(e, kinds) ==
  {p.chan : p \in {q \in Range(delayed[e]) : q.kind \in kinds}}

Listed == Range(channels)

\* Numbers that end e may give to a channel.
FreeNumbers(e) ==
  ChannelIds \ (  {NumberedBy(c, Other(e)) : c \in Listed}
                \cup Awaited(e, {"open", "open tcpip"})
                \cup {p.peer : p \in Range(delayed[e])})

\* Channels that the other end opened and that end e has not answered for.
Unanswered(e) ==
  {c \in Listed : /\ NumberedBy(c, Other(e)) = None
                  /\ NumberedBy(c, e) \notin Awaited(e, {"confirm", "open failure"})}

\* Channels that end e may send on.
Usable(e) ==
  {c \in Listed : /\ None \notin {c.serverID, c.clientID}
                  /\ e \notin c.closed
                  /\ NumberedBy(c, e) \notin Awaited(e, {"close"})}

About(cs, e, kinds) == {[kind |-> k, chan |-> NumberedBy(c, e), peer |-> None] : k \in kinds, c \in cs}

\* The packets that open a channel, and that confirm one.
Openers(e) == IF e = "frontend" THEN {"open", "open tcpip"} ELSE {"open tcpip"}
Opens(e) ==
  {[kind |-> k, chan |-> i, peer |-> None] : k \in Openers(e), i \in FreeNumbers(e)}

Confirms(e) ==
  {[kind |-> "confirm", chan |-> NumberedBy(c, e), peer |-> i] :
     c \in Unanswered(e), i \in FreeNumbers(e)}

\* The guest answered the proxy's login, with consent or with a refusal.
Answered == \E p \in kept["backend"] \cup Range(delayed["backend"]) : p.kind = "userauth"

Bare(kind) == [kind |-> kind, chan |-> None, peer |-> None]

Legal(e, loggedIn) ==
  {Bare("ignore")} \cup
  IF ~ loggedIn THEN {}
  ELSE    Opens(e) \cup Confirms(e)
     \cup About(Unanswered(e), e, {"open failure"})
     \cup About(Usable(e), e, {"other request", "close"})
     \cup About({c \in Usable(e) : c.session}, e, {"data"})
     \cup IF e = "backend" THEN IF Answered THEN {} ELSE {Bare("userauth")}
          ELSE About(Usable(e), e, {"session request", "sftp request"}) \cup
               {Bare("tcpip-forward")}

\* Mutant: the number is taken before the packet is counted.
FaultyArrives(e, p) ==
  [kind |-> p.kind, chan |-> p.chan, peer |-> p.peer, number |-> packets[e]]

Arrives(e, p) ==
  [kind |-> p.kind, chan |-> p.chan, peer |-> p.peer, number |-> packets[e] + 1]

\* FrontendSSHTransport.packet_buffer
FrontendPacket(p) ==
  LET q == Arrives("frontend", p)
      st == parse_packet(State, "frontend", q)
  IN /\ front = "ready" /\ packets["frontend"] < MaxPackets
     /\ packets' = [packets EXCEPT !["frontend"] = @ + 1]
     /\ IF ~ backendConnected \/ delayed["frontend"] # << >>
        THEN /\ delayed' = [delayed EXCEPT !["frontend"] = Append(@, q)]
             /\ UNCHANGED <<channels, passed, kept, dropped, timer, front, back, pool, freed>>
        ELSE /\ Keep(st) /\ Note(st)
             /\ IF st.raised = "no"
                THEN timer' = st.timer /\ UNCHANGED <<front, back, pool, freed>>
                ELSE FrontGone
             /\ UNCHANGED delayed
     /\ UNCHANGED <<protocol, settings, authDone, late, frontendAuthenticated, canAuth, backendConnected>>

\* BackendSSHTransport.packet_buffer: what was held back goes with the next one.
BackendPacket(p) ==
  LET q == Arrives("backend", p)
      st == parse_all(State, "backend", Append(delayed["backend"], q))
  IN /\ back = "up" /\ canAuth /\ packets["backend"] < MaxPackets
     /\ packets' = [packets EXCEPT !["backend"] = @ + 1]
     /\ IF ~ frontendAuthenticated
        THEN /\ delayed' = [delayed EXCEPT !["backend"] = Append(@, q)]
             /\ UNCHANGED <<channels, passed, kept, dropped, timer, front, back, pool, freed>>
        ELSE /\ Keep(st) /\ Note(st) /\ timer' = st.timer
             /\ IF st.raised = "no"
                THEN /\ delayed' = [delayed EXCEPT !["backend"] = << >>]
                     /\ UNCHANGED <<front, back, pool, freed>>
                ELSE BackendGone /\ UNCHANGED delayed
     /\ UNCHANGED <<protocol, settings, authDone, late, frontendAuthenticated, canAuth, backendConnected>>

\* BackendSSHTransport.dispatchMessage: the guest's consent to the service and
\* to the login is dropped before anything else is done.
LoginAccepted ==
  /\ back = "up" /\ authDone /\ ~ Answered /\ packets["backend"] < MaxPackets
  /\ packets' = [packets EXCEPT !["backend"] = @ + 1]
  /\ kept' = [kept EXCEPT !["backend"] =
                 @ \cup {[kind |-> "userauth", number |-> packets["backend"] + 1]}]
  /\ UNCHANGED <<session, passed, dropped, frontendAuthenticated, canAuth,
                 backendConnected, delayed, channels>>

\* A guest's answers to a flush that broke off, before one that does not, are
\* left out.
SshNext ==
  \/ VersionReceived
  \/ \E granted \in BOOLEAN : Userauth(granted)
  \/ ConnectionSecure
  \/ \E p \in Legal("frontend", frontendAuthenticated) : FrontendPacket(p)
  \/ \E p \in Legal("backend", authDone) : BackendPacket(p)
  \/ LoginAccepted

-----------------------------------------------------------------------------
\* What the proxy may keep of an end's packets.
Private(e) ==
       (IF "forwarding" \in settings THEN {} ELSE {"open tcpip"})
  \cup (IF e = "backend" THEN {"userauth"}
        ELSE IF "sftp_enabled" \in settings THEN {} ELSE {"sftp request"})

\* Until an exception breaks the session no packet is lost: each was sent on or
\* is held back, but for the guest's answers to the proxy's login and what the
\* settings forbid, and nothing is held back from a guest with a login.
NoPacketLost ==
  protocol = "ssh" /\ dropped = "no" =>
    /\ \A e \in Ends :
         /\ Range(passed[e]) \cup {p.number : p \in Range(delayed[e]) \cup kept[e]}
              = 1 .. packets[e]
         /\ {p.kind : p \in kept[e]} \subseteq Private(e)
    /\ authDone => delayed["frontend"] = << >>

\* The list of channels agrees with what the two ends know of them: a packet
\* that keeps to the standard finds its channel, and its session, in the list.
ChannelsKnown == dropped # "no such channel"
=============================================================================
