---------------------------- MODULE BackendPool ----------------------------
(***************************************************************************)
(* Cowrie's pool of virtual machines: PoolService (pool_service.py) behind *)
(* the requests that PoolServer hands it, and the proxy's side of them, a  *)
(* PoolClient per session.  Handlers and the producer's loop run in the    *)
(* reactor, one at a time; only the first loop after a start runs in a     *)
(* thread, and it touches no guest the handlers can be given.  Time is     *)
(* left out: any used guest may be found timed out, any guest without      *)
(* connectivity.                                                           *)
(***************************************************************************)
EXTENDS Integers, FiniteSets

CONSTANTS Ips, Sessions,  \* attackers' addresses, and the proxy's sessions
          MaxVm, ShareGuests,  \* max_vm and share_guests that cowrie sends
          Recycle,        \* recycle_period is set
          IdModulus,      \* where guest_id wraps, 252 in the code
          MaxGuests,      \* bound: guests ever created
          MaxRequests     \* bound: requests ever made

ASSUME ConfigAssumption ==
  MaxVm \in Nat /\ ShareGuests \in BOOLEAN /\ Recycle \in BOOLEAN
ASSUME IpsAssumption == "None" \notin Ips
ASSUME SessionsAssumption == IsFiniteSet(Sessions)
ASSUME BoundsAssumption ==
  IdModulus \in Nat \ {0} /\ MaxGuests \in Nat /\ MaxRequests \in Nat

\* A guest is named by when it was created; the list keeps that order.
Guest == 1 .. MaxGuests

VARIABLES
  \* self.guests: "none" before a guest is created, "removed" once it left the list
  state, prev_state, connected, client_ips, guest_id,
  created,       \* how many guests were ever created
  next_id,       \* self.guest_id
  configured,    \* set_configs was called and cowrie told so
  any_vm_up,
  ready,         \* qemu.ready
  loop_next_call,  \* "None", "active", or "spent": called or cancelled
  producer,      \* where producer_loop is in its thread; "idle" afterwards
  to_create, created_guests,  \* its locals
  recycling,     \* restart_pool is scheduled
  session,       \* the proxy's sessions, each with its PoolClient: its phase, its
                 \* address and the guest it was given, whose id is the vm_id
  requests,      \* how many requests were made
  \* history, kept for the properties and read by no action
  leaked,        \* answers that no session was there to take, by guest
  dirty,         \* guests an attacker has logged in to
  unhealthy,     \* guests found without connectivity
  gaveBack,      \* addresses that gave a guest back for reuse
  stray          \* guests one of which was freed for the other, by the id they share

guestVars    == <<state, prev_state, connected, client_ips, guest_id, created, next_id>>
producerVars == <<any_vm_up, ready, loop_next_call, producer, to_create,
                  created_guests, recycling>>
sessionVars  == <<session, requests, leaked, dirty, stray>>
markVars     == <<unhealthy, gaveBack>>
vars         == <<guestVars, producerVars, configured, sessionVars, markVars>>

States == {"created", "available", "using", "used", "unavailable"}

\* Mutant: guests marked for destruction are no longer counted.
FaultyExisting_pool_size(st) == Cardinality({g \in Guest : st[g] \in States \ {"unavailable"}})

existing_pool_size(st) == Cardinality({g \in Guest : st[g] \in States})

Listed == {g \in Guest : state[g] \in States}

get_guest_states(states) == {g \in Guest : state[g] \in states}

\* Until cowrie configures the pool it has two guests and shares them.
max_vm       == IF configured THEN MaxVm ELSE 2
share_guests == configured => ShareGuests

First(S) == CHOOSE g \in S : \A h \in S : g <= h

\* S, or what of it comes first in the list.
FirstOf(S) == IF S = {} THEN {} ELSE {First(S)}

LeastConnected(S) == {g \in S : \A h \in S : connected[g] <= connected[h]}

\* Mutant: only a guest without clients is served again for its address.
FaultyCandidates(ip) ==
  LET before == {g \in get_guest_states({"used"}) : ip \in client_ips[g]}
      fresh  == get_guest_states({"available"})
      any    == LeastConnected(get_guest_states({"using", "used"}))
  IN IF before # {} THEN FirstOf(before)
     ELSE IF fresh # {} THEN FirstOf(fresh)
     ELSE IF share_guests THEN FirstOf(any) ELSE {}

\* The guest for an address: one it had before, else a fresh one, else any.
Candidates(ip) ==
  LET before == {g \in get_guest_states({"used", "using"}) : ip \in client_ips[g]}
      fresh  == get_guest_states({"available"})
      any    == LeastConnected(get_guest_states({"using", "used"}))
  IN IF before # {} THEN FirstOf(before)
     ELSE IF fresh # {} THEN FirstOf(fresh)
     ELSE IF share_guests THEN FirstOf(any) ELSE {}

ById(id) == FirstOf({g \in Listed : guest_id[g] = id})

\* cancel() of a call that was made or cancelled raises; None is skipped.
StopRaises == loop_next_call = "spent"
Cancelled  == IF loop_next_call = "active" THEN "spent" ELSE loop_next_call

-----------------------------------------------------------------------------
(* A session of the proxy and its connection to the pool.                  *)

Closed == [phase |-> "closed", ip |-> "None", vm |-> 0]

Phase(s, phase) == session' = [session EXCEPT ![s].phase = phase]
Close(s)        == session' = [session EXCEPT ![s] = Closed]

send_vm_request(s, ip) ==
  /\ configured
  /\ session[s].phase = "closed"
  /\ requests < MaxRequests
  /\ session' = [session EXCEPT ![s].phase = "requested", ![s].ip = ip]
  /\ requests' = requests + 1
  /\ UNCHANGED <<guestVars, producerVars, configured, leaked, dirty, markVars, stray>>

received_pool_data(s) ==
  /\ session[s].phase = "answered"
  /\ Phase(s, "holding")
  /\ UNCHANGED <<guestVars, producerVars, configured, requests, leaked, dirty,
                 markVars, stray>>

\* The attacker is gone.  Without an answer there is no vm_id to free; the request
\* stays on its way.  With one, the guest is freed, or given back if the attacker
\* never logged in.
connectionLost(s) ==
  /\ \/ /\ session[s].phase = "requested"
        /\ Phase(s, "abandoned")
        /\ UNCHANGED <<leaked, dirty>>
     \/ /\ session[s].phase = "hung"
        /\ Close(s)
        /\ UNCHANGED <<leaked, dirty>>
     \/ /\ session[s].phase = "answered"
        /\ Close(s)
        /\ leaked' = [leaked EXCEPT ![session[s].vm] = @ + 1]
        /\ UNCHANGED dirty
     \/ /\ session[s].phase = "holding"
        /\ Phase(s, "freeing")
        /\ dirty' = dirty \cup {session[s].vm}
        /\ UNCHANGED leaked
     \/ /\ session[s].phase = "holding"
        /\ Phase(s, "reusing")
        /\ UNCHANGED <<leaked, dirty>>
  /\ UNCHANGED <<guestVars, producerVars, configured, requests, markVars, stray>>

-----------------------------------------------------------------------------
(* PoolServer.dataReceived and the consumer's side of PoolService.         *)

set_configs ==
  /\ ~ configured
  /\ configured' = TRUE
  /\ UNCHANGED <<guestVars, producerVars, sessionVars, markVars>>

\* Mutant: prev_state is what the guest was before its first client.
FaultyServe(g, ip) ==
  /\ prev_state' = [prev_state EXCEPT ![g] = IF state[g] = "using" THEN @ ELSE state[g]]
  /\ state' = [state EXCEPT ![g] = "using"]
  /\ connected' = [connected EXCEPT ![g] = @ + 1]
  /\ client_ips' = [client_ips EXCEPT ![g] = @ \cup {ip}]

Serve(g, ip) ==
  /\ prev_state' = [prev_state EXCEPT ![g] = state[g]]
  /\ state' = [state EXCEPT ![g] = "using"]
  /\ connected' = [connected EXCEPT ![g] = @ + 1]
  /\ client_ips' = [client_ips EXCEPT ![g] = @ \cup {ip}]

request_vm(s) ==
  /\ session[s].phase \in {"requested", "abandoned"}
  /\ \E g \in Candidates(session[s].ip) :
       /\ Serve(g, session[s].ip)
       /\ IF session[s].phase = "requested"
          THEN /\ session' = [session EXCEPT ![s].phase = "answered", ![s].vm = g]
               /\ UNCHANGED leaked
          ELSE /\ Close(s)
               /\ leaked' = [leaked EXCEPT ![g] = @ + 1]
  /\ UNCHANGED <<guest_id, created, next_id, producerVars, configured,
                 requests, dirty, markVars, stray>>

\* No guest.  If one was ever up the pool is stopped, all its domains destroyed, and
\* not started again.  The error code ends the session; if stop_pool raises, no
\* answer is sent and the session waits.
NoAvailableVMs(s) ==
  /\ session[s].phase \in {"requested", "abandoned"}
  /\ Candidates(session[s].ip) = {}
  /\ IF any_vm_up /\ ~ StopRaises
     THEN ready' = FALSE /\ loop_next_call' = Cancelled
     ELSE UNCHANGED <<ready, loop_next_call>>
  /\ IF any_vm_up /\ StopRaises /\ session[s].phase = "requested"
     THEN Phase(s, "hung") ELSE Close(s)
  /\ UNCHANGED <<guestVars, any_vm_up, producer, to_create, created_guests, recycling,
                 configured, requests, leaked, dirty, markVars, stray>>

\* One session fewer on the guest with this id.  The code looks the id up: the guest it
\* finds is the session's own unless ids were given out again in the meantime.
Disconnect(s, freed) ==
  /\ Close(s)
  /\ connected' = [g \in Guest |-> connected[g] - (IF g \in freed THEN 1 ELSE 0)]
  /\ stray' = IF freed \subseteq {session[s].vm} THEN stray
              ELSE stray \cup freed \cup {session[s].vm}
  /\ gaveBack' = IF session[s].phase = "reusing" THEN gaveBack \cup {session[s].ip}
                 ELSE gaveBack
  /\ UNCHANGED <<client_ips, guest_id, created, next_id, producerVars, configured,
                 requests, leaked, dirty, unhealthy>>

\* Mutant: a freed guest is used, whoever else has it.
FaultyFree_vm(s) ==
  /\ session[s].phase = "freeing"
  /\ LET freed == ById(guest_id[session[s].vm])
     IN /\ Disconnect(s, freed)
        /\ state' = [g \in Guest |-> IF g \in freed THEN "used" ELSE state[g]]
        /\ UNCHANGED prev_state

\* Mutant: a guest that lost its connectivity meanwhile is skipped.
LazyFree_vm(s) ==
  /\ session[s].phase = "freeing"
  /\ LET freed == ById(guest_id[session[s].vm]) \cap get_guest_states({"using"})
         last  == {g \in freed : connected[g] = 1}
     IN /\ Disconnect(s, freed)
        /\ state' = [g \in Guest |-> IF g \in last THEN "used" ELSE state[g]]
        /\ UNCHANGED prev_state

free_vm(s) ==
  /\ session[s].phase = "freeing"
  /\ LET freed == ById(guest_id[session[s].vm])
         last  == {g \in freed : connected[g] = 1}
     IN /\ Disconnect(s, freed)
        /\ state' = [g \in Guest |-> IF g \in last THEN "used" ELSE state[g]]
        /\ UNCHANGED prev_state

\* The address stays among the guest's client_ips.
reuse_vm(s) ==
  /\ session[s].phase = "reusing"
  /\ LET freed == ById(guest_id[session[s].vm])
         last  == {g \in freed : connected[g] = 1}
     IN /\ Disconnect(s, freed)
        /\ state' = [g \in Guest |-> IF g \in last THEN prev_state[g] ELSE state[g]]
        /\ prev_state' = [g \in Guest |-> IF g \in last THEN "None" ELSE prev_state[g]]

-----------------------------------------------------------------------------
(* The first producer_loop after a start, in its thread: the list is empty *)
(* when it starts, so it only creates guests and marks them available.     *)

StartCreating ==
  /\ producer = "starting"
  /\ producer' = "creating"
  /\ to_create' = IF max_vm > existing_pool_size(state)
                  THEN max_vm - existing_pool_size(state) ELSE 0
  /\ UNCHANGED <<guestVars, any_vm_up, ready, loop_next_call, created_guests, recycling,
                 configured, sessionVars, markVars>>

\* n guests are appended to the list, with the next ids.
New(n) == (created + 1) .. (created + n)

\* Mutant: the id is not reset.
FaultyCreate_guests(n) ==
  /\ guest_id' = [g \in Guest |->
       IF g \in New(n) THEN next_id + g - created - 1 ELSE guest_id[g]]
  /\ created' = created + n
  /\ next_id' = next_id + n

create_guests(n) ==
  /\ guest_id' = [g \in Guest |->
       IF g \in New(n) THEN (next_id + g - created - 1) % IdModulus ELSE guest_id[g]]
  /\ created' = created + n
  /\ next_id' = (next_id + n) % IdModulus

CreateGuest ==
  /\ producer = "creating"
  /\ to_create > 0
  /\ ready
  /\ created < MaxGuests
  /\ create_guests(1)
  /\ state' = [state EXCEPT ![created + 1] = "created"]
  /\ to_create' = to_create - 1
  /\ UNCHANGED <<prev_state, connected, client_ips, any_vm_up, ready, loop_next_call,
                 producer, created_guests, recycling, configured, sessionVars, markVars>>

\* create_guest finds no free address and raises, or returns None, which does not
\* unpack: the loop is never scheduled again.
CreateFails ==
  /\ producer = "creating"
  /\ to_create > 0
  /\ producer' = "dead"
  /\ to_create' = 0
  /\ UNCHANGED <<guestVars, any_vm_up, ready, loop_next_call, created_guests, recycling,
                 configured, sessionVars, markVars>>

StartMarking ==
  /\ producer = "creating"
  /\ to_create = 0
  /\ producer' = "marking"
  /\ created_guests' = get_guest_states({"created"})
  /\ UNCHANGED <<guestVars, any_vm_up, ready, loop_next_call, to_create, recycling,
                 configured, sessionVars, markVars>>

NoConnectivity ==
  /\ producer = "marking"
  /\ \E g \in FirstOf(created_guests) : created_guests' = created_guests \ {g}
  /\ UNCHANGED <<guestVars, any_vm_up, ready, loop_next_call, producer, to_create,
                 recycling, configured, sessionVars, markVars>>

MarkUp ==
  /\ producer = "marking"
  /\ created_guests # {}
  /\ any_vm_up' = TRUE
  /\ producer' = "up"
  /\ UNCHANGED <<guestVars, ready, loop_next_call, to_create, created_guests, recycling,
                 configured, sessionVars, markVars>>

MarkAvailable ==
  /\ producer = "up"
  /\ \E g \in FirstOf(created_guests) :
       /\ state' = [state EXCEPT ![g] = "available"]
       /\ created_guests' = created_guests \ {g}
  /\ producer' = "marking"
  /\ UNCHANGED <<prev_state, connected, client_ips, guest_id, created, next_id, any_vm_up,
                 ready, loop_next_call, to_create, recycling, configured, sessionVars, markVars>>

ScheduleLoop ==
  /\ producer = "marking"
  /\ created_guests = {}
  /\ producer' = "idle"
  /\ loop_next_call' = "active"
  /\ UNCHANGED <<guestVars, any_vm_up, ready, to_create, created_guests, recycling,
                 configured, sessionVars, markVars>>

-----------------------------------------------------------------------------
(* The loops that follow, in the reactor.                                  *)

\* The states before guests are created: used guests may have timed out, and then all
\* the unavailable ones are destroyed, but only if there is more than one guest; then
\* those found without connectivity become unavailable, to wait for the next loop.
Cleaned(timed, failing) ==
  LET destroyed == IF existing_pool_size(state) > 1
                   THEN timed \cup get_guest_states({"unavailable"}) ELSE {}
  IN [g \in Guest |-> CASE g \in destroyed -> "removed"
                        [] g \in failing \ destroyed -> "unavailable"
                        [] OTHER -> state[g]]

\* n guests are created, and those of Up found ready.  If the next creation fails,
\* nothing is marked and the loop is not scheduled again.
producer_loop ==
  /\ producer = "idle"
  /\ loop_next_call = "active"
  /\ \E timed   \in SUBSET get_guest_states({"used"}),
        failing \in SUBSET get_guest_states({"available", "using", "used"}),
        n       \in 0 .. (IF ready THEN MaxGuests - created ELSE 0) :
       LET kept    == Cleaned(timed, failing)
           wanted  == max_vm - existing_pool_size(kept)
           grown   == [g \in Guest |-> IF g \in New(n) THEN "created" ELSE kept[g]]
       IN /\ create_guests(n)
          /\ unhealthy' = unhealthy \cup {g \in Guest : kept[g] = "unavailable"}
          /\ \/ /\ n >= wanted /\ (n = 0 \/ n = wanted)
                /\ \E Up \in SUBSET {g \in Guest : grown[g] = "created"} :
                     /\ state' = [g \in Guest |-> IF g \in Up THEN "available" ELSE grown[g]]
                     /\ any_vm_up' = (any_vm_up \/ Up # {})
                /\ UNCHANGED <<loop_next_call, producer>>
             \/ /\ n < wanted
                /\ state' = grown
                /\ loop_next_call' = "spent"
                /\ producer' = "dead"
                /\ UNCHANGED any_vm_up
  /\ UNCHANGED <<prev_state, connected, client_ips, ready, to_create, created_guests,
                 recycling, configured, sessionVars, gaveBack>>

\* The period is longer than the first loop.  If stop_pool raises, nothing more is
\* scheduled.  Otherwise the list is dropped and the ids start again.
restart_pool ==
  /\ recycling
  /\ producer \in {"idle", "dead"}
  /\ IF StopRaises
     THEN /\ recycling' = FALSE
          /\ UNCHANGED <<state, next_id, any_vm_up, ready, loop_next_call, producer>>
     ELSE /\ state' = [g \in Guest |-> IF g \in Listed THEN "removed" ELSE state[g]]
          /\ next_id' = 0
          /\ any_vm_up' = FALSE
          /\ ready' = TRUE
          /\ loop_next_call' = Cancelled
          /\ producer' = "starting"
          /\ UNCHANGED recycling
  /\ UNCHANGED <<prev_state, connected, client_ips, guest_id, created, to_create,
                 created_guests, configured, sessionVars, markVars>>

-----------------------------------------------------------------------------
Init ==
  /\ state = [g \in Guest |-> "none"]
  /\ prev_state = [g \in Guest |-> "None"]
  /\ connected = [g \in Guest |-> 0]
  /\ client_ips = [g \in Guest |-> {}]
  /\ guest_id = [g \in Guest |-> 0]
  /\ created = 0 /\ next_id = 0
  /\ configured = FALSE /\ any_vm_up = FALSE /\ ready = TRUE
  /\ loop_next_call = "None" /\ producer = "starting"
  /\ to_create = 0 /\ created_guests = {}
  /\ recycling = Recycle
  /\ session = [s \in Sessions |-> Closed]
  /\ requests = 0
  /\ leaked = [g \in Guest |-> 0]
  /\ dirty = {} /\ unhealthy = {} /\ stray = {} /\ gaveBack = {}

FirstLoop == \/ StartCreating \/ CreateGuest \/ CreateFails \/ StartMarking
             \/ NoConnectivity \/ MarkUp \/ MarkAvailable \/ ScheduleLoop

Session(s) == \/ \E ip \in Ips : send_vm_request(s, ip)
              \/ received_pool_data(s) \/ connectionLost(s)
              \/ request_vm(s) \/ NoAvailableVMs(s) \/ free_vm(s) \/ reuse_vm(s)

Next == \/ \E s \in Sessions : Session(s)
        \/ set_configs
        \/ FirstLoop
        \/ producer_loop
        \/ restart_pool

Spec == Init /\ [][Next]_vars

-----------------------------------------------------------------------------
SessionRecord ==
  [phase : {"closed", "requested", "abandoned", "answered", "hung", "holding",
            "freeing", "reusing"},
   ip : Ips \cup {"None"}, vm : Guest \cup {0}]

TypeOK ==
  /\ state \in [Guest -> States \cup {"none", "removed"}]
  /\ prev_state \in [Guest -> {"None", "available", "using", "used"}]
  /\ connected \in [Guest -> Int]
  /\ client_ips \in [Guest -> SUBSET Ips]
  /\ guest_id \in [Guest -> 0 .. (IdModulus - 1)]
  /\ created \in 0 .. MaxGuests
  /\ next_id \in 0 .. (IdModulus - 1)
  /\ \A g \in Guest : state[g] = "none" <=> g > created
  /\ configured \in BOOLEAN /\ any_vm_up \in BOOLEAN /\ ready \in BOOLEAN
  /\ loop_next_call \in {"None", "active", "spent"}
  /\ producer \in {"starting", "creating", "marking", "up", "idle", "dead"}
  /\ to_create \in Nat
  /\ created_guests \subseteq get_guest_states({"created"})
  /\ recycling \in BOOLEAN
  /\ session \in [Sessions -> SessionRecord]
  /\ requests \in 0 .. MaxRequests
  /\ leaked \in [Guest -> Nat]
  /\ dirty \subseteq Guest /\ unhealthy \subseteq Guest /\ stray \subseteq Guest
  /\ gaveBack \subseteq Ips

\* The sessions that a guest is given to, as the pool has not been told otherwise.
Holders(g) == {s \in Sessions : session[s].vm = g}

\* The pool's `connected' of a guest counts the sessions that have it, and the answers
\* that came too late for a session and are counted for ever.  It fails only
\* where a guest was freed for another by the id they share.
Accounting ==
  \A g \in Listed \ stray : connected[g] = Cardinality(Holders(g)) + leaked[g]

\* "used: client disconnected": no session has a guest that may be found timed out and
\* be destroyed, but for a stray one.
UsedHasNoClient ==
  \A g \in get_guest_states({"used"}) \ stray : Holders(g) = {}

\* A guest that is handed out as a fresh one was never logged in to: reuse_vm reverts to
\* "available" only what no session before the last one used.
Pristine == get_guest_states({"available"}) \cap dirty \subseteq stray

\* "Using, served for other clients from the same ip": two sessions of one address have
\* one guest, unless one of their guests was found without connectivity or is stray.
\* An address that ever gave a guest back may get two: it stays among the clients of
\* the guest it gave back, which others are given meanwhile.
SameGuest ==
  \A s, t \in Sessions : \A g, h \in Listed \ (unhealthy \cup stray) :
    /\ s \in Holders(g) /\ t \in Holders(h)
    /\ session[s].ip = session[t].ip /\ session[s].ip \notin gaveBack
    => g = h

\* The pool never outgrows the larger of its two configurations, whatever fails.
Bounded == Cardinality(Listed) <= IF MaxVm > 2 THEN MaxVm ELSE 2

\* "using: a client is connected": a guest does not stay in use, which no time-out ends,
\* when all of its sessions are gone.
UsingHasClient ==
  \A g \in get_guest_states({"using"}) \ stray : Holders(g) # {} \/ leaked[g] > 0

\* "If false we throw an exception": with share_guests off, two addresses do not have
\* one guest.
NotShared ==
  ~ ShareGuests =>
    \A g \in Listed \ stray : \A s, t \in Holders(g) : session[s].ip = session[t].ip
=============================================================================
