---------------------------- MODULE ProxySession ----------------------------
(***************************************************************************)
(* What the SSH and the Telnet proxy have in common: one attacker's        *)
(* connection, the connection to the pool that is asked for a guest, the   *)
(* connection to that guest, the timer that ends the session, and the      *)
(* guest's return to the pool.  FrontendSSHTransport and                   *)
(* FrontendTelnetTransport hold the same handlers for it; the first one's  *)
(* lines are named in the map, and the second one's for what differs.      *)
(***************************************************************************)
EXTENDS Naturals, Sequences, SequencesExt

CONSTANTS MaxPackets,      \* bound: packets that either end sends
          Configurations   \* the sets of options that sessions are run with

ASSUME PacketsAssumption == MaxPackets \in Nat

VARIABLES
  protocol,    \* "ssh" or "telnet"
  settings,    \* the options of the configuration that are on
  front,       \* the attacker's connection; "plain" until SSH is encrypted
  pool,        \* the connection to the backend pool
  back,        \* the connection to the guest
  authDone,    \* the flag that tells the pool of a used guest
  timer,       \* a time-out of the session is running
  freed,       \* what the pool was told of the guest
  late,        \* history: the guest was reached after the attacker had left
  packets,     \* packets that came from each end
  passed,      \* history: numbers of the writes made, by end they came from
  dropped      \* history: the exception that ended the session, if any

session == <<protocol, settings, front, pool, back, authDone, timer, freed, late>>
traffic == <<packets, passed, dropped>>

Ends == {"frontend", "backend"}

Protocols == {"ssh", "telnet"}

\* Whether guests come from the pool, and what changes what a proxy hands on.
Options(p) == {"pool"} \cup IF p = "ssh" THEN {"forwarding", "sftp_enabled"}
                                        ELSE {"telnet_spoof_authentication"}

\* An SSH packet goes out in one write.  A piece of Telnet data may go out in
\* two, its first bytes ahead of what is made of it.
Writes(count) == IF protocol = "telnet" THEN 2 * count ELSE count

FrontStates == {"plain", "ready", "closing", "lost"}
PoolStates == {"none", "connecting", "asked", "given", "closed"}
BackStates == {"none", "connecting", "up", "closing", "lost"}

\* The exceptions.  In SSH: KeyError at a channel that has no number yet,
\* TypeError at a channel that is not in the list or has no session, TypeError
\* at the option of remote forwarding, AttributeError at an absent transport.
\* In Telnet: IndexError at a line cut after its CR.
Causes == {"no", "unnumbered channel", "no such channel", "forwarding",
           "attacker gone", "cut line"}

SessionTypeOK ==
  /\ protocol \in Protocols
  /\ settings \subseteq Options(protocol)
  /\ front \in FrontStates
  /\ pool \in PoolStates
  /\ back \in BackStates
  /\ authDone \in BOOLEAN /\ timer \in BOOLEAN /\ late \in BOOLEAN
  /\ freed \in {"no", "clean", "dirty"}
  /\ packets \in [Ends -> 0 .. MaxPackets]
  /\ passed \in [Ends -> Seq(1 .. Writes(MaxPackets))]
  /\ dropped \in Causes

Alive == front \in {"plain", "ready"}

\* transport.loseConnection(): reading stops now, connectionLost comes later.
LoseFront == IF Alive THEN "closing" ELSE front
LoseBack == IF back = "up" THEN "closing" ELSE back

-----------------------------------------------------------------------------
\* connectionMade: with a pool a guest is asked for, else the backend of the
\* configuration is connected to.  A Telnet front end can be read at once.
ConnectionMade(p) ==
  /\ protocol = p
  /\ settings \in {options \cap Options(p) : options \in Configurations}
  /\ front = IF p = "ssh" THEN "plain" ELSE "ready"
  /\ IF "pool" \in settings THEN pool = "connecting" /\ back = "none"
                           ELSE pool = "none" /\ back = "connecting"
  /\ authDone = FALSE /\ timer = FALSE /\ freed = "no" /\ late = FALSE
  /\ packets = [e \in Ends |-> 0]
  /\ passed = [e \in Ends |-> << >>]
  /\ dropped = "no"

\* The request for a guest goes out, whether or not the attacker is there.
PoolConnectionSuccess ==
  /\ pool = "connecting"
  /\ pool' = "asked"
  /\ UNCHANGED <<protocol, settings, front, back, authDone, timer, freed, late>>

PoolConnectionError ==
  /\ pool = "connecting"
  /\ pool' = "none"
  /\ front' = LoseFront
  /\ UNCHANGED <<protocol, settings, back, authDone, timer, freed, late>>

\* The pool has no guest: the client ends the parent's connection.
PoolRefused ==
  /\ pool = "asked"
  /\ pool' = "closed"
  /\ front' = LoseFront
  /\ UNCHANGED <<protocol, settings, back, authDone, timer, freed, late>>

ReceivedPoolData ==
  /\ pool = "asked"
  /\ pool' = "given"
  /\ back' = "connecting"
  /\ UNCHANGED <<protocol, settings, front, authDone, timer, freed, late>>

\* Mutant: no time-out is set for the guest's connection.
UntimedBackendConnectionSuccess ==
  /\ back = "connecting"
  /\ back' = "up"
  /\ late' = (front = "lost")
  /\ UNCHANGED <<protocol, settings, front, pool, authDone, timer, freed>>

\* The endpoint's Deferred is never cancelled: the connection may be made
\* for an attacker who has left.
BackendConnectionSuccess ==
  /\ back = "connecting"
  /\ back' = "up"
  /\ timer' = TRUE
  /\ late' = (front = "lost")
  /\ UNCHANGED <<protocol, settings, front, pool, authDone, freed>>

BackendConnectionError ==
  /\ back = "connecting"
  /\ back' = "lost"
  /\ front' = LoseFront
  /\ UNCHANGED <<protocol, settings, pool, authDone, timer, freed, late>>

\* Nothing but a new setTimeout() puts the time-out off.
TimeoutConnection ==
  /\ timer
  /\ timer' = FALSE
  /\ front' = LoseFront
  /\ back' = LoseBack
  /\ UNCHANGED <<protocol, settings, pool, authDone, freed, late>>

\* Mutant: a guest is taken for unused once its connection is closed.
FaultyFrontGone ==
  /\ front' = "lost"
  /\ timer' = FALSE
  /\ back' = LoseBack
  /\ pool' = IF pool \in {"asked", "given"} THEN "closed" ELSE pool
  /\ freed' = IF pool # "given" THEN freed
              ELSE IF authDone /\ back = "up" THEN "dirty" ELSE "clean"

\* connectionLost of the attacker's connection, closed by either side.  The
\* guest goes back to the pool, as used if authDone says so; one that was only
\* asked for has no vm_id yet and is not given back.
FrontGone ==
  /\ front' = "lost"
  /\ timer' = FALSE
  /\ back' = LoseBack
  /\ pool' = IF pool \in {"asked", "given"} THEN "closed" ELSE pool
  /\ freed' = IF pool # "given" THEN freed ELSE IF authDone THEN "dirty" ELSE "clean"

FrontConnectionLost ==
  /\ front # "lost"
  /\ FrontGone
  /\ UNCHANGED <<protocol, settings, authDone, late>>

\* connectionLost of the guest's connection.
BackendConnectionLost ==
  /\ back \in {"up", "closing"}
  /\ back' = "lost"
  /\ front' = LoseFront
  /\ UNCHANGED <<protocol, settings, pool, authDone, timer, freed, late>>

\* What the reactor runs alike for the two protocols.
SessionNext ==
  \/ PoolConnectionSuccess \/ PoolConnectionError \/ PoolRefused \/ ReceivedPoolData
  \/ BackendConnectionSuccess \/ BackendConnectionError
  \/ TimeoutConnection \/ FrontConnectionLost \/ BackendConnectionLost

-----------------------------------------------------------------------------
\* Until an exception breaks the session the proxy is a relay: what it writes
\* of either end's packets goes out once and in order, whichever end was ready
\* first, whatever was held back for it and whatever it kept for itself.
Relayed == INSTANCE Relay WITH sent <- [e \in Ends |-> Writes(packets[e])],
                               relayed <- passed, broken <- dropped # "no"
Relays == Relayed!Spec

\* timeoutConnection's "make sure all sessions time out eventually": a guest's
\* connection is closed in the end, even one made for an absent attacker, and
\* the attacker's with it.
TimesOut == back = "up" ~> back = "lost" /\ front = "lost"
=============================================================================
