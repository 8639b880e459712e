------------------------- MODULE BackendPool_proof -------------------------
(***************************************************************************)
(* What the runs of BackendPool check on two guests and two sessions, for  *)
(* every size of the pool, every number of addresses, sessions, guests and *)
(* requests, and every IdModulus.                                          *)
(***************************************************************************)
EXTENDS BackendPool, FiniteSetTheorems, WellFoundedInduction, TLAPS

-----------------------------------------------------------------------------
(* The helpers on sets of guests.                                          *)

\* A nonempty set of numbers has a least one.
LEMMA LeastNumber ==
  ASSUME NEW S, S \subseteq Nat, S # {}
  PROVE  \E m \in S : \A k \in S : m <= k
<1> DEFINE R == OpToRel(<, Nat)
<1>1. \E x \in S : \A y \in S : ~ (<<y, x>> \in R)
  <2> HIDE DEF R
  <2> SUFFICES IsWellFoundedOn(R, Nat)
    BY WFMin
  <2> QED
    BY NatLessThanWellFounded DEF R
<1>2. PICK x \in S : \A y \in S : <<y, x>> \notin R
  BY <1>1
<1>3. ASSUME NEW y \in S PROVE x <= y
  <2>1. ~ (y < x)
    BY <1>2 DEF OpToRel
  <2> QED
    BY <2>1
<1> QED
  BY <1>3

\* FirstOf finds a guest wherever there is one, and only one.
LEMMA FirstOfOne ==
  ASSUME NEW S, S \subseteq Guest
  PROVE  /\ FirstOf(S) \subseteq S
         /\ S # {} => FirstOf(S) # {}
         /\ \A g, h \in FirstOf(S) : g = h
<1>1. CASE S = {}
  BY <1>1 DEF FirstOf
<1>2. CASE S # {}
  <2>0. S \subseteq Nat
    BY BoundsAssumption DEF Guest
  <2>1. \E m \in S : \A k \in S : m <= k
    BY <1>2, <2>0, LeastNumber
  <2>2. First(S) \in S
    BY <2>1 DEF First
  <2> QED
    BY <1>2, <2>2 DEF FirstOf
<1> QED
  BY <1>1, <1>2

\* Ids stay below IdModulus.
LEMMA ModRange ==
  ASSUME NEW a \in Nat
  PROVE  a % IdModulus \in 0 .. (IdModulus - 1)
BY BoundsAssumption

\* A guest that is handed out is available or has been.
LEMMA CandidatesServed ==
  ASSUME NEW ip, NEW g \in Candidates(ip)
  PROVE  g \in Guest /\ state[g] \in {"available", "using", "used"}
<1> DEFINE before == {h \in get_guest_states({"used", "using"}) : ip \in client_ips[h]}
           fresh  == get_guest_states({"available"})
           any    == LeastConnected(get_guest_states({"using", "used"}))
<1>1. g \in FirstOf(before) \cup FirstOf(fresh) \cup FirstOf(any)
  <2> HIDE DEF before, fresh, any
  <2> QED
    BY DEF Candidates, before, fresh, any
<1>2. before \subseteq Guest /\ fresh \subseteq Guest /\ any \subseteq Guest
  BY DEF get_guest_states, LeastConnected
<1>3. g \in before \cup fresh \cup any
  <2> HIDE DEF before, fresh, any
  <2> QED
    BY <1>1, <1>2, FirstOfOne
<1> QED
  BY <1>3 DEF get_guest_states, LeastConnected

\* The guest an id is found to be is in the list; a listed guest's id finds one.
LEMMA ByIdOne ==
  ASSUME NEW id
  PROVE  /\ ById(id) \subseteq Listed
         /\ \A g, h \in ById(id) : g = h
         /\ \A g \in Listed : guest_id[g] = id => ById(id) # {}
<1> DEFINE S == {g \in Listed : guest_id[g] = id}
<1>1. S \subseteq Guest
  BY DEF Listed
<1>2. ById(id) \subseteq S /\ (S # {} => ById(id) # {}) /\ \A g, h \in ById(id) : g = h
  <2> HIDE DEF S
  <2> QED
    BY <1>1, FirstOfOne DEF ById, S
<1> QED
  BY <1>2

-----------------------------------------------------------------------------
(* The inductive invariant.                                                *)

Serving == {"answered", "holding", "freeing", "reusing"}

\* A session has a guest while it is served, and its address is one of the guest's.
SessionInv ==
  \A s \in Sessions :
    /\ session[s].vm # 0 <=> session[s].phase \in Serving
    /\ session[s].phase # "closed" => session[s].ip \in Ips
    /\ session[s].vm # 0 => session[s].ip \in client_ips[session[s].vm]

\* A guest that was not made available yet has met nobody.
Untouched(g) ==
  /\ state[g] \in {"none", "created"} =>
       Holders(g) = {} /\ leaked[g] = 0 /\ client_ips[g] = {} /\ g \notin dirty
  /\ state[g] = "none" => connected[g] = 0 /\ g \notin stray
  /\ state[g] = "created" => connected[g] <= 0

\* The count is right, and its being positive means that the guest was served.
Counted(g) ==
  /\ connected[g] > 0 => prev_state[g] # "None"
  /\ state[g] # "removed" /\ g \notin stray =>
       connected[g] = Cardinality(Holders(g)) + leaked[g]

\* An available guest has no client and was not logged in to, and whoever had it
\* gave it back; a used one has no client.
Resting(g) ==
  g \notin stray =>
    /\ state[g] = "available" =>
         connected[g] = 0 /\ g \notin dirty /\ client_ips[g] \subseteq gaveBack
    /\ state[g] = "used" => Holders(g) = {}

\* A guest that was available before its last client came has no other client: if it
\* was logged in to, that client is freeing it, and all others gave it back.
FirstClient(g) ==
  g \in Listed \ stray /\ prev_state[g] = "available" =>
    /\ connected[g] <= 1
    /\ connected[g] = 1 /\ g \in dirty =>
         \E s \in Holders(g) : session[s].phase = "freeing"
    /\ connected[g] = 1 => \A ip \in client_ips[g] \ gaveBack :
         leaked[g] > 0 \/ \E s \in Holders(g) : session[s].ip = ip

GuestInv(g) ==
  /\ Untouched(g) /\ Counted(g) /\ Resting(g) /\ FirstClient(g)
  /\ state[g] = "unavailable" => g \in unhealthy

\* An address that gave no guest back is a client of one sound guest.
Sound == Listed \ (unhealthy \cup stray)
UniqueInv ==
  \A g, h \in Sound : \A ip \in (client_ips[g] \cap client_ips[h]) \ gaveBack : g = h

\* The producer's locals are empty where it does not use them.
ProducerInv ==
  /\ producer \notin {"marking", "up"} => created_guests = {}
  /\ producer # "creating" => to_create = 0

\* What is still to be created fits, too.
Limit   == IF MaxVm > 2 THEN MaxVm ELSE 2
SizeInv == Cardinality(Listed) + to_create <= Limit

IInv ==
  /\ TypeOK /\ SessionInv /\ (\A g \in Guest : GuestInv(g))
  /\ UniqueInv /\ ProducerInv /\ SizeInv

-----------------------------------------------------------------------------
(* Who has a guest, after a step.                                          *)

\* There are finitely many guests, and finitely many sessions have one.
LEMMA FiniteGuests == IsFiniteSet(Guest)
BY FS_Interval, BoundsAssumption DEF Guest

LEMMA FiniteHolders ==
  ASSUME NEW g
  PROVE  IsFiniteSet(Holders(g)) /\ Cardinality(Holders(g)) \in Nat
<1>1. Holders(g) \subseteq Sessions
  BY DEF Holders
<1> QED
  BY <1>1, SessionsAssumption, FS_Subset, FS_CardinalityType

\* A session without a guest is given one.
LEMMA HolderAdded ==
  ASSUME NEW s \in Sessions, NEW g \in Guest,
         session[s].vm = 0, session'[s].vm = g,
         \A t \in Sessions : t # s => session'[t] = session[t]
  PROVE  /\ Holders(g)' = Holders(g) \cup {s}
         /\ Cardinality(Holders(g)') = Cardinality(Holders(g)) + 1
         /\ \A h \in Guest : h # g => Holders(h)' = Holders(h)
<1>0. g # 0
  BY BoundsAssumption DEF Guest
<1>1. Holders(g)' = Holders(g) \cup {s} /\ s \notin Holders(g)
  BY <1>0 DEF Holders
<1>2. \A h \in Guest : h # g => Holders(h)' = Holders(h)
  BY BoundsAssumption DEF Holders, Guest
<1>3. PICK before, after : before = Holders(g) /\ after = Holders(g)'
  OBVIOUS
<1>4. IsFiniteSet(before)
  BY <1>3, FiniteHolders
<1>5. after = before \cup {s} /\ s \notin before
  BY ONLY <1>1, <1>3
<1>6. Cardinality(after) = Cardinality(before) + 1
  BY ONLY <1>4, <1>5, FS_AddElement
<1> QED
  BY ONLY <1>1, <1>2, <1>3, <1>6

\* A session leaves its guest.
LEMMA HolderGone ==
  ASSUME NEW s \in Sessions, NEW g \in Guest,
         session[s].vm = g, session'[s].vm = 0,
         \A t \in Sessions : t # s => session'[t] = session[t]
  PROVE  /\ Holders(g)' = Holders(g) \ {s}
         /\ s \in Holders(g)
         /\ Cardinality(Holders(g)) \in Nat \ {0}
         /\ Cardinality(Holders(g)') = Cardinality(Holders(g)) - 1
         /\ \A h \in Guest : h # g => Holders(h)' = Holders(h)
<1>0. g # 0
  BY BoundsAssumption DEF Guest
<1>1. Holders(g)' = Holders(g) \ {s} /\ s \in Holders(g)
  BY <1>0 DEF Holders
<1>2. \A h \in Guest : h # g => Holders(h)' = Holders(h)
  BY BoundsAssumption DEF Holders, Guest
<1>3. PICK before, after : before = Holders(g) /\ after = Holders(g)'
  OBVIOUS
<1>4. IsFiniteSet(before) /\ Cardinality(before) \in Nat
  BY <1>3, FiniteHolders
<1>5. after = before \ {s} /\ s \in before
  BY ONLY <1>1, <1>3
<1>6. Cardinality(before) # 0
  BY ONLY <1>4, <1>5, FS_EmptySet
<1>7. Cardinality(after) = Cardinality(before) - 1
  BY ONLY <1>4, <1>5, FS_RemoveElement
<1> QED
  BY ONLY <1>1, <1>2, <1>3, <1>4, <1>6, <1>7

\* A guest with one session has that session and no other.
LEMMA OneHolder ==
  ASSUME NEW g, NEW s \in Holders(g), Cardinality(Holders(g)) = 1
  PROVE  Holders(g) = {s}
<1>1. Cardinality(Holders(g) \ {s}) = 0 /\ IsFiniteSet(Holders(g) \ {s})
  BY FiniteHolders, FS_RemoveElement
<1>2. Holders(g) \ {s} = {}
  BY <1>1, FS_EmptySet
<1> QED
  BY <1>2

\* What is said of a guest stays true while nothing about it changes.
LEMMA Undisturbed ==
  ASSUME NEW g \in Guest, GuestInv(g),
         state'[g] = state[g], connected'[g] = connected[g],
         prev_state'[g] = prev_state[g], client_ips'[g] = client_ips[g],
         leaked'[g] = leaked[g], Holders(g)' = Holders(g),
         \A s \in Holders(g) : /\ session'[s].ip = session[s].ip
                               /\ session[s].phase = "freeing" => session'[s].phase = "freeing",
         g \in dirty' => g \in dirty, g \in stray <=> g \in stray',
         gaveBack \subseteq gaveBack', unhealthy \subseteq unhealthy'
  PROVE  GuestInv(g)'
<1>1. (g \in Listed)' <=> g \in Listed
  BY DEF Listed
<1> QED
  BY <1>1 DEF GuestInv, Untouched, Counted, Resting, FirstClient

\* No address gets another guest.
LEMMA UniqueKept ==
  ASSUME UniqueInv, client_ips' = client_ips, gaveBack \subseteq gaveBack',
         unhealthy \subseteq unhealthy', stray \subseteq stray',
         \A g \in Guest : g \in Listed' => g \in Listed \/ client_ips[g] = {}
  PROVE  UniqueInv'
<1>1. \A g \in Sound' : g \in Guest /\ (g \in Sound \/ client_ips[g] = {})
  BY DEF Sound, Listed
<1> QED
  BY <1>1 DEF UniqueInv

-----------------------------------------------------------------------------
(* The steps that leave every guest's list entry alone.                    *)

\* While guests and sessions are left alone, so is what is said of them.
LEMMA GuestsKept ==
  ASSUME IInv, UNCHANGED <<guestVars, sessionVars, markVars>>
  PROVE  SessionInv' /\ (\A g \in Guest : GuestInv(g)') /\ UniqueInv' /\ Listed' = Listed
<1>1. Listed' = Listed /\ \A g : Holders(g)' = Holders(g)
  BY DEF Listed, Holders, guestVars, sessionVars
<1>2. SessionInv'
  BY DEF IInv, SessionInv, guestVars, sessionVars
<1>3. UniqueInv'
  BY <1>1, UniqueKept DEF IInv, guestVars, sessionVars, markVars
<1>4. ASSUME NEW g \in Guest PROVE GuestInv(g)'
  BY <1>1, Undisturbed DEF IInv, guestVars, sessionVars, markVars
<1> QED
  BY <1>1, <1>2, <1>3, <1>4

\* The sessions' steps that serve and free nobody.
LEMMA SessionsKept ==
  ASSUME IInv, UNCHANGED <<guestVars, leaked, dirty, stray, markVars>>,
         NEW s \in Sessions, session'[s].vm = session[s].vm,
         session'[s].ip = session[s].ip \/ session[s].vm = 0,
         session[s].phase # "freeing",
         \A t \in Sessions : t # s => session'[t] = session[t]
  PROVE  (\A g \in Guest : GuestInv(g)') /\ UniqueInv' /\ Listed' = Listed
<1>1. Listed' = Listed /\ \A g \in Guest : Holders(g)' = Holders(g)
  BY DEF Listed, Holders, guestVars
<1>3. UniqueInv'
  BY <1>1, UniqueKept DEF IInv, guestVars, markVars
<1>4. ASSUME NEW g \in Guest PROVE GuestInv(g)'
  <2>1. \A t \in Holders(g) : /\ session'[t].ip = session[t].ip
                              /\ session[t].phase = "freeing" => session'[t].phase = "freeing"
    BY BoundsAssumption DEF Holders, Guest
  <2> QED
    BY <1>1, <2>1, Undisturbed DEF IInv, guestVars, markVars
<1> QED
  BY <1>1, <1>3, <1>4

LEMMA SendVmRequestKeeps ==
  ASSUME IInv, NEW s \in Sessions, NEW ip \in Ips, send_vm_request(s, ip)
  PROVE  IInv'
<1> USE DEF IInv
<1>1. /\ session[s].phase = "closed" /\ session[s].vm = 0
      /\ session' = [session EXCEPT ![s].phase = "requested", ![s].ip = ip]
  BY DEF send_vm_request, SessionInv, Serving
<1>2. TypeOK'
  <2>1. /\ requests' \in 0 .. MaxRequests
        /\ UNCHANGED <<guestVars, producerVars, configured, leaked, dirty, markVars, stray>>
    BY BoundsAssumption DEF TypeOK, send_vm_request
  <2>2. session' \in [Sessions -> SessionRecord]
    <3> DEFINE asked == [session EXCEPT ![s].phase = "requested"]
    <3>1. asked \in [Sessions -> SessionRecord]
      BY DEF TypeOK, SessionRecord
    <3>2. session' = [asked EXCEPT ![s].ip = ip]
      BY <1>1
    <3> HIDE DEF asked
    <3> QED
      BY <3>1, <3>2 DEF SessionRecord
  <2> QED
    BY <2>1, <2>2 DEF TypeOK, guestVars, producerVars, markVars, get_guest_states
<1>3. /\ session'[s].vm = 0 /\ session'[s].phase = "requested" /\ session'[s].ip = ip
      /\ \A t \in Sessions : t # s => session'[t] = session[t]
  BY <1>1 DEF TypeOK, SessionRecord
<1>4. SessionInv'
  BY <1>3 DEF SessionInv, Serving, send_vm_request, guestVars
<1>5. (\A g \in Guest : GuestInv(g)') /\ UniqueInv' /\ Listed' = Listed
  BY <1>1, <1>3, SessionsKept DEF send_vm_request
<1>6. ProducerInv' /\ SizeInv'
  BY <1>5 DEF ProducerInv, SizeInv, send_vm_request, producerVars
<1> QED
  BY <1>2, <1>4, <1>5, <1>6

LEMMA ReceivedPoolDataKeeps ==
  ASSUME IInv, NEW s \in Sessions, received_pool_data(s)
  PROVE  IInv'
<1> USE DEF IInv
<1>1. session[s].phase = "answered" /\ session' = [session EXCEPT ![s].phase = "holding"]
  BY DEF received_pool_data, Phase
<1>2. TypeOK'
  <2>1. session' \in [Sessions -> SessionRecord]
    BY <1>1 DEF TypeOK, SessionRecord
  <2> QED
    BY <2>1 DEF TypeOK, received_pool_data, guestVars, producerVars, markVars, get_guest_states
<1>3. /\ session'[s].phase = "holding"
      /\ session'[s].vm = session[s].vm /\ session'[s].ip = session[s].ip
      /\ \A t \in Sessions : t # s => session'[t] = session[t]
  BY <1>1 DEF TypeOK, SessionRecord
<1>4. SessionInv'
  BY <1>1, <1>3 DEF SessionInv, Serving, received_pool_data, guestVars
<1>5. (\A g \in Guest : GuestInv(g)') /\ UniqueInv' /\ Listed' = Listed
  BY <1>1, <1>3, SessionsKept DEF received_pool_data
<1>6. ProducerInv' /\ SizeInv'
  BY <1>5 DEF ProducerInv, SizeInv, received_pool_data, producerVars
<1> QED
  BY <1>2, <1>4, <1>5, <1>6

LEMMA NoAvailableVMsKeeps ==
  ASSUME IInv, NEW s \in Sessions, NoAvailableVMs(s)
  PROVE  IInv'
<1> USE DEF IInv
<1>1. /\ session[s].phase \in {"requested", "abandoned"} /\ session[s].vm = 0
      /\ \/ session' = [session EXCEPT ![s].phase = "hung"]
         \/ session' = [session EXCEPT ![s] = Closed]
      /\ ready' \in BOOLEAN /\ loop_next_call' \in {"None", "active", "spent"}
      /\ UNCHANGED <<guestVars, any_vm_up, producer, to_create, created_guests, recycling,
                     configured, requests, leaked, dirty, markVars, stray>>
  BY DEF NoAvailableVMs, SessionInv, Serving, Phase, Close, Cancelled, TypeOK
<1>2. TypeOK'
  BY <1>1 DEF TypeOK, SessionRecord, Closed, guestVars, markVars, get_guest_states
<1>3. /\ session'[s].phase \in {"hung", "closed"} /\ session'[s].vm = session[s].vm
      /\ session'[s].phase = "hung" => session'[s].ip = session[s].ip
      /\ \A t \in Sessions : t # s => session'[t] = session[t]
  BY <1>1 DEF TypeOK, SessionRecord, Closed
<1>4. SessionInv'
  BY <1>1, <1>3 DEF SessionInv, Serving, guestVars
<1>5. (\A g \in Guest : GuestInv(g)') /\ UniqueInv' /\ Listed' = Listed
  BY <1>1, <1>3, SessionsKept
<1>6. ProducerInv' /\ SizeInv'
  BY <1>1, <1>5 DEF ProducerInv, SizeInv
<1> QED
  BY <1>2, <1>4, <1>5, <1>6

\* Only a session that is holding its guest logs in to it; an answer that comes
\* too late stays counted.
LEMMA ConnectionLostKeeps ==
  ASSUME IInv, NEW s \in Sessions, connectionLost(s)
  PROVE  IInv'
<1> USE DEF IInv
<1> DEFINE v == session[s].vm
<1>1. /\ UNCHANGED <<guestVars, producerVars, configured, requests, markVars, stray>>
      /\ v \in Guest \cup {0}
      /\ \/ /\ session[s].phase = "requested"
            /\ session' = [session EXCEPT ![s].phase = "abandoned"]
            /\ UNCHANGED <<leaked, dirty>>
         \/ /\ session[s].phase = "hung" /\ session' = [session EXCEPT ![s] = Closed]
            /\ UNCHANGED <<leaked, dirty>>
         \/ /\ session[s].phase = "answered" /\ session' = [session EXCEPT ![s] = Closed]
            /\ leaked' = [leaked EXCEPT ![v] = @ + 1]
            /\ UNCHANGED dirty
         \/ /\ session[s].phase = "holding"
            /\ session' = [session EXCEPT ![s].phase = "freeing"]
            /\ dirty' = dirty \cup {v}
            /\ UNCHANGED leaked
         \/ /\ session[s].phase = "holding"
            /\ session' = [session EXCEPT ![s].phase = "reusing"]
            /\ UNCHANGED <<leaked, dirty>>
  BY DEF connectionLost, Phase, Close, TypeOK, SessionRecord
<1>2. v # 0 <=> session[s].phase \in Serving
  BY DEF SessionInv
<1>3. TypeOK'
  <2>1. session' \in [Sessions -> SessionRecord]
    <3>1. PICK old, new, last : old = session /\ new = session' /\ last = Closed
      OBVIOUS
    <3>2. old \in [Sessions -> SessionRecord] /\ last \in SessionRecord
      BY <3>1 DEF TypeOK, SessionRecord, Closed
    <3>3. \/ \E p \in {"abandoned", "freeing", "reusing"} : new = [old EXCEPT ![s].phase = p]
          \/ new = [old EXCEPT ![s] = last]
      BY <1>1, <3>1
    <3>4. ASSUME NEW p \in {"abandoned", "freeing", "reusing"}, new = [old EXCEPT ![s].phase = p]
          PROVE  new \in [Sessions -> SessionRecord]
      BY ONLY <3>2, <3>4, s \in Sessions DEF SessionRecord
    <3> QED
      BY ONLY <3>1, <3>2, <3>3, <3>4, s \in Sessions
  <2>2. dirty \subseteq Guest /\ leaked \in [Guest -> Nat]
    BY DEF TypeOK
  <2>3. session[s].phase \in {"answered", "holding"} => v \in Guest
    BY <1>1, <1>2 DEF Serving
  <2>4. dirty' \subseteq Guest
    BY <1>1, <2>2, <2>3
  <2>5. leaked' \in [Guest -> Nat]
    BY <1>1, <2>2, <2>3
  <2> QED
    BY <1>1, <2>1, <2>4, <2>5 DEF TypeOK, guestVars, producerVars, markVars, get_guest_states
<1>4. /\ \A t \in Sessions : t # s => session'[t] = session[t]
      /\ \/ session'[s].vm = session[s].vm /\ session'[s].ip = session[s].ip
         \/ session'[s] = Closed /\ session[s].phase \in {"hung", "answered"}
      /\ session[s].phase \in {"hung", "answered"} => session'[s] = Closed
      /\ session[s].phase = "requested" => session'[s].phase = "abandoned"
      /\ session[s].phase = "holding" => session'[s].phase \in {"freeing", "reusing"}
      /\ session[s].phase \in {"requested", "hung", "answered", "holding"}
  BY <1>1 DEF TypeOK, SessionRecord
<1>5. SessionInv'
  <2>1. client_ips' = client_ips
    BY <1>1 DEF guestVars
  <2> QED
    BY <1>4, <2>1 DEF SessionInv, Serving, Closed
<1>6. Listed' = Listed
  BY <1>1 DEF Listed, guestVars
<1>7. UniqueInv'
  BY <1>1, <1>6, UniqueKept DEF guestVars, markVars
<1>8. ASSUME NEW g \in Guest PROVE GuestInv(g)'
  <2>1. /\ state' = state /\ connected' = connected /\ prev_state' = prev_state
        /\ client_ips' = client_ips /\ gaveBack' = gaveBack /\ unhealthy' = unhealthy
        /\ stray' = stray
    BY <1>1 DEF guestVars, markVars
  <2>2. CASE session[s].phase \in {"requested", "hung"} \/ v # g
    <3>1. Holders(g)' = Holders(g) /\ s \notin Holders(g)
      BY <1>2, <1>4, <2>2, BoundsAssumption DEF Holders, Guest, Serving, Closed
    <3>2. leaked'[g] = leaked[g] /\ (g \in dirty' => g \in dirty)
      BY <1>1, <1>2, <2>2 DEF TypeOK, Serving
    <3>3. \A t \in Holders(g) : t \in Sessions /\ t # s
      BY <3>1 DEF Holders
    <3> QED
      BY <1>4, <2>1, <3>1, <3>2, <3>3, Undisturbed
  <2>3. CASE session[s].phase = "answered" /\ v = g
    <3>1. session'[s].vm = 0
      BY <1>4, <2>3, <1>1, BoundsAssumption DEF Closed, TypeOK
    <3>2. /\ Holders(g)' = Holders(g) \ {s} /\ s \in Holders(g)
          /\ Cardinality(Holders(g)) \in Nat \ {0}
          /\ Cardinality(Holders(g)') = Cardinality(Holders(g)) - 1
      BY <1>4, <2>3, <3>1, HolderGone
    <3>3. leaked'[g] = leaked[g] + 1 /\ dirty' = dirty /\ leaked[g] \in Nat
      BY <1>1, <2>3 DEF TypeOK
    <3>4. \A t \in Holders(g)' : session'[t] = session[t] /\ t \in Holders(g)
      BY <1>4, <3>2 DEF Holders
    <3>5. GuestInv(g)
      OBVIOUS
    <3>6. Untouched(g)' /\ Counted(g)' /\ Resting(g)'
      BY <2>1, <3>2, <3>3, <3>5 DEF GuestInv, Untouched, Counted, Resting, TypeOK
    <3>7. FirstClient(g)'
      <4> SUFFICES ASSUME g \in Listed \ stray, prev_state[g] = "available"
                   PROVE  FirstClient(g)'
        BY <1>6, <2>1 DEF FirstClient
      <4>1. connected[g] = Cardinality(Holders(g)) + leaked[g]
        BY <3>5 DEF GuestInv, Counted, Listed, States
      <4>2. connected[g] <= 1 /\ (g \in dirty => \E t \in Holders(g) : session[t].phase = "freeing")
        BY <3>2, <3>3, <3>5, <4>1 DEF GuestInv, FirstClient
      <4>3. Holders(g) = {s}
        BY <3>2, <3>3, <4>1, <4>2, OneHolder
      <4> QED
        BY <1>6, <2>1, <2>3, <3>3, <4>2, <4>3 DEF FirstClient
    <3> QED
      BY <2>1, <3>5, <3>6, <3>7 DEF GuestInv
  <2>4. CASE session[s].phase = "holding" /\ v = g
    <3>1. Holders(g)' = Holders(g) /\ s \in Holders(g) /\ leaked' = leaked
      BY <1>1, <1>4, <2>4 DEF Holders, Closed
    <3>2. \A t \in Holders(g) : /\ session'[t].ip = session[t].ip
                                /\ session[t].phase = "freeing" => session'[t].phase = "freeing"
      BY <1>4, <2>4 DEF Holders
    <3>3. CASE g \in dirty' => g \in dirty
      BY <2>1, <3>1, <3>2, <3>3, Undisturbed
    <3>4. CASE g \in dirty' /\ g \notin dirty
      <4>1. session'[s].phase = "freeing"
        BY <1>1, <2>4, <3>4 DEF TypeOK, SessionRecord
      <4>2. Holders(g) # {} /\ Cardinality(Holders(g)) \in Nat \ {0} /\ leaked[g] \in Nat
        BY <3>1, FiniteHolders, FS_EmptySet DEF TypeOK
      <4>3. Untouched(g)' /\ Counted(g)'
        BY <2>1, <3>1, <4>2 DEF GuestInv, Untouched, Counted
      <4>4. Resting(g)'
        <5>1. g \notin stray => state[g] # "available"
          BY <4>2 DEF GuestInv, Counted, Resting
        <5> QED
          BY <2>1, <3>1, <4>2, <5>1 DEF GuestInv, Resting
      <4>5. FirstClient(g)'
        BY <1>6, <2>1, <3>1, <3>2, <4>1 DEF GuestInv, FirstClient
      <4> QED
        BY <2>1, <4>3, <4>4, <4>5 DEF GuestInv
    <3> QED
      BY <3>3, <3>4
  <2> QED
    BY <1>4, <2>2, <2>3, <2>4
<1>9. ProducerInv' /\ SizeInv'
  BY <1>1, <1>6 DEF ProducerInv, SizeInv, producerVars
<1> QED
  BY <1>3, <1>5, <1>7, <1>8, <1>9

-----------------------------------------------------------------------------
(* The steps that serve a guest and free one.                              *)

\* No sound guest but the one that is served has the address, unless it gave one back.
LEMMA CandidateUnique ==
  ASSUME IInv, NEW ip, NEW g \in Candidates(ip), g \in Sound,
         NEW h \in Sound, ip \in client_ips[h], ip \notin gaveBack
  PROVE  g = h
<1> DEFINE before == {k \in get_guest_states({"used", "using"}) : ip \in client_ips[k]}
<1>1. h \in before
  <2>1. h \in Guest /\ GuestInv(h) /\ h \notin stray /\ h \notin unhealthy /\ state[h] \in States
    BY DEF IInv, Sound, Listed
  <2>2. state[h] \notin {"created", "available", "unavailable"}
    BY <2>1 DEF GuestInv, Untouched, Resting
  <2> QED
    BY <2>1, <2>2 DEF States, get_guest_states
<1>2. g \in FirstOf(before)
  BY <1>1 DEF Candidates
<1>3. g \in before
  BY <1>2, FirstOfOne DEF get_guest_states
<1> QED
  BY <1>3 DEF IInv, UniqueInv

LEMMA RequestVmKeeps ==
  ASSUME IInv, NEW s \in Sessions, request_vm(s)
  PROVE  IInv'
<1> USE DEF IInv
<1> DEFINE ip == session[s].ip
<1>1. PICK g \in Candidates(ip) :
        /\ Serve(g, ip)
        /\ \/ /\ session[s].phase = "requested"
              /\ session' = [session EXCEPT ![s].phase = "answered", ![s].vm = g]
              /\ leaked' = leaked
           \/ /\ session[s].phase = "abandoned"
              /\ session' = [session EXCEPT ![s] = Closed]
              /\ leaked' = [leaked EXCEPT ![g] = @ + 1]
  BY DEF request_vm, Close
<1>2. /\ g \in Guest /\ state[g] \in {"available", "using", "used"} /\ g # 0
      /\ ip \in Ips /\ session[s].vm = 0 /\ GuestInv(g)
      /\ session[s].phase \in {"requested", "abandoned"}
  BY CandidatesServed, BoundsAssumption DEF request_vm, SessionInv, Serving, Guest
<1>3. UNCHANGED <<guest_id, created, next_id, producerVars, configured, requests,
                  dirty, markVars, stray>>
  BY DEF request_vm
<1>4. /\ state'[g] = "using" /\ prev_state'[g] = state[g]
      /\ connected'[g] = connected[g] + 1 /\ client_ips'[g] = client_ips[g] \cup {ip}
      /\ \A h \in Guest : h # g =>
           /\ state'[h] = state[h] /\ prev_state'[h] = prev_state[h]
           /\ connected'[h] = connected[h] /\ client_ips'[h] = client_ips[h]
      /\ state' \in [Guest -> States \cup {"none", "removed"}]
      /\ prev_state' \in [Guest -> {"None", "available", "using", "used"}]
      /\ connected' \in [Guest -> Int]
      /\ client_ips' \in [Guest -> SUBSET Ips]
  BY <1>1, <1>2 DEF Serve, TypeOK, States
<1>5. /\ \A t \in Sessions : t # s => session'[t] = session[t]
      /\ \/ /\ session'[s].phase = "answered" /\ session'[s].vm = g /\ session'[s].ip = ip
            /\ leaked' = leaked
         \/ /\ session'[s] = Closed
            /\ leaked'[g] = leaked[g] + 1
            /\ \A h \in Guest : h # g => leaked'[h] = leaked[h]
      /\ leaked' \in [Guest -> Nat]
      /\ session' \in [Sessions -> SessionRecord]
  <2>1. CASE session[s].phase = "requested"
    <3> DEFINE answered == [session EXCEPT ![s].phase = "answered"]
    <3>1. /\ answered \in [Sessions -> SessionRecord] /\ answered[s].ip = ip
          /\ answered[s].phase = "answered"
          /\ \A t \in Sessions : t # s => answered[t] = session[t]
      BY <1>1 DEF TypeOK, SessionRecord
    <3>2. session' = [answered EXCEPT ![s].vm = g] /\ leaked' = leaked
      BY <1>1, <2>1
    <3> HIDE DEF answered
    <3> QED
      BY <1>2, <3>1, <3>2 DEF SessionRecord, TypeOK
  <2>2. CASE session[s].phase = "abandoned"
    BY <1>1, <1>2, <2>2 DEF TypeOK, SessionRecord, Closed
  <2> QED
    BY <1>2, <2>1, <2>2
<1>6. TypeOK'
  <2>1. created_guests' \subseteq {h \in Guest : state'[h] = "created"}
    BY <1>2, <1>3, <1>4 DEF TypeOK, producerVars, get_guest_states
  <2>2. \A h \in Guest : state'[h] = "none" <=> h > created'
    BY <1>2, <1>3, <1>4 DEF TypeOK
  <2> QED
    BY <1>3, <1>4, <1>5, <2>1, <2>2 DEF TypeOK, producerVars, markVars, get_guest_states
<1>7. SessionInv'
  <2> SUFFICES ASSUME NEW t \in Sessions
               PROVE  /\ session'[t].vm # 0 <=> session'[t].phase \in Serving
                      /\ session'[t].phase # "closed" => session'[t].ip \in Ips
                      /\ session'[t].vm # 0 => session'[t].ip \in client_ips'[session'[t].vm]
    BY DEF SessionInv
  <2>1. CASE t = s
    <3>1. Closed.vm = 0 /\ Closed.phase = "closed"
      BY DEF Closed
    <3> QED
      BY <1>2, <1>4, <1>5, <2>1, <3>1 DEF Serving
  <2>2. CASE t # s
    <3>1. PICK x : x = session[t]
      OBVIOUS
    <3>2. x = session'[t] /\ x.vm \in Guest \cup {0}
      BY <1>5, <2>2, <3>1 DEF TypeOK, SessionRecord
    <3>3. /\ x.vm # 0 <=> x.phase \in Serving
          /\ x.phase # "closed" => x.ip \in Ips
          /\ x.vm # 0 => x.ip \in client_ips[x.vm]
      BY <3>1 DEF SessionInv
    <3>4. \A h \in Guest : client_ips[h] \subseteq client_ips'[h]
      BY <1>4
    <3> QED
      BY ONLY <3>2, <3>3, <3>4
  <2> QED
    BY <2>1, <2>2
<1>8. Listed' = Listed
  BY <1>2, <1>4 DEF Listed, States
<1>9. UniqueInv'
  <2> SUFFICES ASSUME NEW h \in Sound, NEW k \in Sound, NEW a \in Ips,
                      a \in client_ips'[h], a \in client_ips'[k], a \notin gaveBack, h # k
               PROVE  FALSE
    BY <1>3, <1>4, <1>8 DEF UniqueInv, Sound, Listed, markVars
  <2>1. h \in Guest /\ k \in Guest
    BY DEF Sound, Listed
  <2>2. CASE a \in client_ips[h] /\ a \in client_ips[k]
    BY <2>2 DEF UniqueInv
  <2>3. CASE a \notin client_ips[h]
    BY <1>4, <2>1, <2>3, CandidateUnique
  <2>4. CASE a \notin client_ips[k]
    BY <1>4, <2>1, <2>4, CandidateUnique
  <2> QED
    BY <2>2, <2>3, <2>4
<1>10. Holders(g)' = Holders(g) \cup {s} \/ Holders(g)' = Holders(g)
  BY <1>2, <1>5 DEF Holders, Closed
<1>11. ASSUME NEW h \in Guest, h # g PROVE GuestInv(h)'
  <2>1. Holders(h)' = Holders(h) /\ s \notin Holders(h)
    BY <1>2, <1>5, <1>11, BoundsAssumption DEF Holders, Closed, Guest
  <2>2. \A t \in Holders(h) : session'[t] = session[t]
    BY <1>5, <2>1 DEF Holders
  <2> QED
    BY <1>3, <1>4, <1>5, <1>11, <2>1, <2>2, Undisturbed DEF markVars
<1>12. GuestInv(g)'
  <2>1. Untouched(g)' /\ Resting(g)' /\ (state[g] = "unavailable" => g \in unhealthy)'
    BY <1>4 DEF Untouched, Resting
  <2>2. g \notin stray => connected'[g] = Cardinality(Holders(g)') + leaked'[g]
    <3>1. g \notin stray => connected[g] = Cardinality(Holders(g)) + leaked[g]
      BY <1>2 DEF GuestInv, Counted
    <3>2. CASE session'[s].vm = g /\ leaked' = leaked
      BY <1>2, <1>4, <1>5, <3>1, <3>2, HolderAdded, FiniteHolders DEF TypeOK
    <3>3. CASE session'[s] = Closed /\ leaked'[g] = leaked[g] + 1
      <4>1. Holders(g)' = Holders(g)
        BY <1>2, <1>5, <3>3 DEF Holders, Closed
      <4> QED
        BY <1>2, <1>4, <3>1, <3>3, <4>1, FiniteHolders DEF TypeOK
    <3> QED
      BY <1>5, <3>2, <3>3
  <2>3. Counted(g)'
    BY <1>2, <1>3, <1>4, <2>2 DEF Counted
  <2>4. FirstClient(g)'
    <3> SUFFICES ASSUME g \notin stray, state[g] = "available" PROVE FirstClient(g)'
      BY <1>3, <1>4 DEF FirstClient
    <3>1. connected[g] = 0 /\ g \notin dirty /\ client_ips[g] \subseteq gaveBack
      BY <1>2 DEF GuestInv, Resting
    <3>2. leaked'[g] > 0 \/ (s \in Holders(g)' /\ session'[s].ip = ip)
      BY <1>2, <1>5 DEF Holders, TypeOK
    <3> QED
      BY <1>3, <1>4, <3>1, <3>2 DEF FirstClient, markVars
  <2> QED
    BY <2>1, <2>3, <2>4 DEF GuestInv
<1>13. ProducerInv' /\ SizeInv'
  BY <1>3, <1>8 DEF ProducerInv, SizeInv, producerVars
<1> QED
  BY <1>6, <1>7, <1>9, <1>11, <1>12, <1>13

\* What free_vm and reuse_vm have in common: the session loses its guest, the guest
\* found by its id has one session fewer and, with its last one, a next state.
LEMMA DisconnectKeeps ==
  ASSUME IInv, NEW s \in Sessions, session[s].phase \in {"freeing", "reusing"},
         NEW freed \in SUBSET Listed, \A g, h \in freed : g = h,
         session[s].vm \in Listed => freed # {},
         Disconnect(s, freed),
         NEW next \in [Guest -> {"available", "using", "used", "None"}],
         \A g \in Guest : connected[g] > 0 => next[g] # "None",
         \A g \in Guest \ stray : g \in freed /\ next[g] = "available" =>
           session[s].phase = "reusing" /\ prev_state[g] = "available",
         state' = [g \in Guest |-> IF g \in freed /\ connected[g] = 1
                                  THEN next[g] ELSE state[g]],
         prev_state' \in [Guest -> {"None", "available", "using", "used"}],
         \A g \in Guest : \/ prev_state'[g] = prev_state[g]
                          \/ g \in freed /\ connected[g] = 1
  PROVE  IInv'
<1>0. TypeOK /\ SessionInv /\ (\A g \in Guest : GuestInv(g)) /\ UniqueInv /\ ProducerInv /\ SizeInv
  BY DEF IInv
<1>1. PICK v \in Guest :
      /\ v = session[s].vm /\ session[s].ip \in Ips /\ session[s].ip \in client_ips[v]
  BY <1>0, BoundsAssumption DEF SessionInv, Serving, TypeOK, SessionRecord
<1>3. /\ session' = [session EXCEPT ![s] = Closed]
      /\ connected' = [g \in Guest |-> connected[g] - (IF g \in freed THEN 1 ELSE 0)]
      /\ stray' = IF freed \subseteq {v} THEN stray ELSE stray \cup freed \cup {v}
      /\ gaveBack' = IF session[s].phase = "reusing" THEN gaveBack \cup {session[s].ip}
                     ELSE gaveBack
      /\ UNCHANGED <<client_ips, guest_id, created, next_id, producerVars, configured,
                     requests, leaked, dirty, unhealthy>>
  BY <1>1 DEF Disconnect, Close
<1>4. /\ session'[s] = Closed /\ session'[s].vm = 0
      /\ \A t \in Sessions : t # s => session'[t] = session[t]
      /\ session' \in [Sessions -> SessionRecord]
  BY <1>0, <1>3 DEF TypeOK, SessionRecord, Closed
<1>5. /\ Holders(v)' = Holders(v) \ {s} /\ s \in Holders(v)
      /\ Cardinality(Holders(v)) \in Nat \ {0}
      /\ Cardinality(Holders(v)') = Cardinality(Holders(v)) - 1
      /\ \A h \in Guest : h # v => Holders(h)' = Holders(h)
  <2>1. session[s].vm = v /\ session'[s].vm = 0
    BY <1>1, <1>4
  <2>2. \A t \in Sessions : t # s => session'[t] = session[t]
    BY <1>4
  <2> QED
    BY ONLY <2>1, <2>2, s \in Sessions, v \in Guest, HolderGone
<1>6. /\ freed \subseteq Guest
      /\ \A g \in freed : state[g] \in States
      /\ \A g \in Guest : connected[g] = 1 => state[g] # "created" /\ next[g] \in States
  <2>1. ASSUME NEW g \in Guest, connected[g] = 1 PROVE state[g] # "created" /\ next[g] \in States
    BY <1>0, <2>1 DEF GuestInv, Untouched, States
  <2> QED
    BY <2>1 DEF Listed
<1>7. TypeOK'
  <2>1. state' \in [Guest -> States \cup {"none", "removed"}] /\ connected' \in [Guest -> Int]
    BY <1>0, <1>3, <1>6 DEF TypeOK
  <2>2. \A g \in Guest : state'[g] = "none" <=> g > created
    BY <1>0, <1>6 DEF TypeOK, States
  <2>3. created_guests \subseteq {g \in Guest : state'[g] = "created"}
    BY <1>0, <1>6 DEF TypeOK, get_guest_states
  <2>4. stray' \subseteq Guest /\ gaveBack' \subseteq Ips
    BY <1>0, <1>1, <1>3, <1>6 DEF TypeOK
  <2> QED
    BY <1>0, <1>3, <1>4, <2>1, <2>2, <2>3, <2>4 DEF TypeOK, producerVars, get_guest_states
<1>8. SessionInv'
  BY <1>0, <1>3, <1>4 DEF SessionInv, Closed, Serving
<1>9. Listed' = Listed
  BY <1>6 DEF Listed
<1>10. UniqueInv'
  BY <1>0, <1>3, <1>9, UniqueKept
<1>11. ASSUME NEW g \in Guest PROVE GuestInv(g)'
  <2>1. /\ client_ips' = client_ips /\ leaked' = leaked /\ dirty' = dirty
        /\ unhealthy' = unhealthy /\ gaveBack \subseteq gaveBack'
        /\ leaked[g] \in Nat /\ connected[g] \in Int
    BY <1>0, <1>3 DEF TypeOK
  <2>2. /\ GuestInv(g)
        /\ \A t \in Holders(g)' : t \in Holders(g) /\ session'[t] = session[t]
    BY <1>0, <1>4, <1>5 DEF Holders
  <2>3. CASE g \notin freed
    <3>1. /\ state'[g] = state[g] /\ connected'[g] = connected[g]
          /\ prev_state'[g] = prev_state[g]
      BY <1>3, <2>1, <2>3
    <3>2. CASE g # v
      <4>1. \A t \in Holders(g) : session'[t] = session[t]
        BY <1>1, <1>4, <3>2 DEF Holders
      <4>2. Holders(g)' = Holders(g) /\ (g \in stray <=> g \in stray')
        BY <1>3, <1>5, <2>3, <3>2
      <4> QED
        BY <2>1, <2>2, <3>1, <4>1, <4>2, Undisturbed
    <3>3. CASE g = v
      <4>1. state[g] \notin {"none", "created"}
        BY <1>5, <2>2, <3>3 DEF GuestInv, Untouched
      <4>2. g \in stray' \/ state[g] \notin States
        BY <1>1, <1>3, <2>3, <3>3 DEF Listed
      <4>3. g \in stray' \/ state[g] = "removed"
        BY <1>0, <4>1, <4>2 DEF TypeOK
      <4> QED
        BY <2>1, <2>2, <3>1, <4>1, <4>3
        DEF GuestInv, Untouched, Counted, Resting, FirstClient, Listed, States
    <3> QED
      BY <3>2, <3>3
  <2>4. CASE g \in freed
    <3>1. /\ connected'[g] = connected[g] - 1 /\ state[g] \in States /\ state'[g] \in States
          /\ connected[g] # 1 => state'[g] = state[g] /\ prev_state'[g] = prev_state[g]
          /\ connected[g] = 1 => state'[g] = next[g] /\ next[g] # "created"
          /\ next[g] # "unavailable"
      BY <1>3, <1>6, <2>4
    <3>2. Untouched(g)'
      BY <1>6, <2>1, <2>2, <2>4, <3>1 DEF GuestInv, Untouched, States
    <3>3. (connected[g] > 0 => prev_state[g] # "None")'
      BY <2>1, <2>2, <3>1 DEF GuestInv, Counted
    <3>4. (state[g] = "unavailable" => g \in unhealthy)'
      BY <2>1, <2>2, <3>1 DEF GuestInv
    <3>5. CASE g \in stray'
      BY <3>2, <3>3, <3>4, <3>5 DEF GuestInv, Counted, Resting, FirstClient
    <3>6. CASE g \notin stray'
      <4>1. g = v /\ g \notin stray /\ state[g] # "removed"
        BY <1>3, <2>4, <3>1, <3>6 DEF States
      <4>2. /\ connected[g] = Cardinality(Holders(g)) + leaked[g]
            /\ s \in Holders(g) /\ Cardinality(Holders(g)) \in Nat \ {0}
            /\ Holders(g)' = Holders(g) \ {s}
            /\ Cardinality(Holders(g)') = Cardinality(Holders(g)) - 1
        <5>1. connected[g] = Cardinality(Holders(g)) + leaked[g]
          BY <2>2, <4>1 DEF GuestInv, Counted
        <5> QED
          BY <1>5, <4>1, <5>1
      <4>3. Counted(g)'
        BY <2>1, <3>1, <3>3, <4>2 DEF Counted
      <4>4. CASE connected[g] = 1
        <5>1. leaked[g] = 0 /\ Cardinality(Holders(g)) = 1
          BY <2>1, <4>2, <4>4
        <5>2. Holders(g) = {s} /\ Holders(g)' = {}
          BY <4>2, <5>1, OneHolder
        <5>3. FirstClient(g)'
          BY <3>1, <4>4 DEF FirstClient
        <5>4. Resting(g)'
          <6> SUFFICES ASSUME next[g] = "available"
                       PROVE  g \notin dirty /\ client_ips[g] \subseteq gaveBack'
            BY <2>1, <3>1, <4>4, <5>2 DEF Resting
          <6>1. session[s].phase = "reusing" /\ prev_state[g] = "available"
            BY <2>4, <4>1
          <6>2. /\ g \notin dirty
                /\ \A a \in client_ips[g] : a \in gaveBack \/ a = session[s].ip
            BY <2>2, <4>1, <4>4, <5>1, <5>2, <6>1, <3>1 DEF GuestInv, FirstClient, Listed
          <6> QED
            BY <1>3, <6>1, <6>2
        <5> QED
          BY <3>2, <3>4, <4>3, <5>3, <5>4 DEF GuestInv
      <4>5. CASE connected[g] # 1
        <5>1. Resting(g)'
          BY <2>1, <2>2, <3>1, <4>1, <4>2, <4>5 DEF GuestInv, Resting
        <5>2. FirstClient(g)'
          BY <2>1, <2>2, <3>1, <4>1, <4>2, <4>5 DEF GuestInv, FirstClient, Listed
        <5> QED
          BY <3>2, <3>4, <4>3, <5>1, <5>2 DEF GuestInv
      <4> QED
        BY <4>4, <4>5
    <3> QED
      BY <3>5, <3>6
  <2> QED
    BY <2>3, <2>4
<1>12. ProducerInv' /\ SizeInv'
  BY <1>0, <1>3, <1>9 DEF ProducerInv, SizeInv, producerVars
<1> QED
  BY <1>7, <1>8, <1>10, <1>11, <1>12 DEF IInv

LEMMA FreeVmKeeps ==
  ASSUME IInv, NEW s \in Sessions, free_vm(s)
  PROVE  IInv'
<1>1. PICK freed : freed = ById(guest_id[session[s].vm])
  OBVIOUS
<1>2. PICK next : next = [g \in Guest |-> "used"]
  OBVIOUS
<1>3. /\ freed \in SUBSET Listed /\ (\A g, h \in freed : g = h)
      /\ session[s].vm \in Listed => freed # {}
  BY <1>1, ByIdOne
<1>4. /\ session[s].phase = "freeing" /\ Disconnect(s, freed) /\ prev_state' = prev_state
      /\ state' = [g \in Guest |-> IF g \in freed /\ connected[g] = 1
                                   THEN next[g] ELSE state[g]]
  BY <1>1, <1>2 DEF free_vm
<1>5. prev_state \in [Guest -> {"None", "available", "using", "used"}]
  BY DEF IInv, TypeOK
<1>6. /\ next \in [Guest -> {"available", "using", "used", "None"}]
      /\ \A g \in Guest : next[g] = "used"
  BY <1>2
<1> QED
  BY <1>3, <1>4, <1>5, <1>6, DisconnectKeeps

LEMMA ReuseVmKeeps ==
  ASSUME IInv, NEW s \in Sessions, reuse_vm(s)
  PROVE  IInv'
<1>1. PICK freed : freed = ById(guest_id[session[s].vm])
  OBVIOUS
<1>2. PICK next : next = prev_state
  OBVIOUS
<1>3. /\ freed \in SUBSET Listed /\ (\A g, h \in freed : g = h)
      /\ session[s].vm \in Listed => freed # {}
  BY <1>1, ByIdOne
<1>4. /\ session[s].phase = "reusing" /\ Disconnect(s, freed)
      /\ state' = [g \in Guest |-> IF g \in freed /\ connected[g] = 1
                                   THEN next[g] ELSE state[g]]
      /\ prev_state' = [g \in Guest |-> IF g \in freed /\ connected[g] = 1
                                        THEN "None" ELSE prev_state[g]]
  BY <1>1, <1>2 DEF reuse_vm
<1>5. /\ next \in [Guest -> {"available", "using", "used", "None"}]
      /\ prev_state' \in [Guest -> {"None", "available", "using", "used"}]
      /\ \A g \in Guest : connected[g] > 0 => next[g] # "None"
      /\ \A g \in Guest : prev_state'[g] = prev_state[g] \/ (g \in freed /\ connected[g] = 1)
  BY <1>2, <1>4 DEF IInv, TypeOK, GuestInv, Counted
<1>6. \A g \in Guest \ stray : g \in freed /\ next[g] = "available" =>
        session[s].phase = "reusing" /\ prev_state[g] = "available"
  BY <1>2, <1>4
<1> QED
  BY <1>3, <1>4, <1>5, <1>6, DisconnectKeeps

-----------------------------------------------------------------------------
(* The producer's steps.                                                   *)

\* How the producer changes a guest's state.
Moves(g) ==
  \/ state'[g] = state[g]
  \/ state'[g] = "removed" /\ state[g] # "none"
  \/ state'[g] = "unavailable" /\ g \in unhealthy'
     /\ state[g] \in {"available", "using", "used"}
  \/ state'[g] \in {"created", "available"} /\ state[g] \in {"none", "created"}

\* Whatever it does, no session and no count changes.
LEMMA ProducerKeeps ==
  ASSUME IInv, unhealthy \subseteq unhealthy', \A g \in Guest : Moves(g),
         UNCHANGED <<prev_state, connected, client_ips, sessionVars, gaveBack>>
  PROVE  SessionInv' /\ (\A g \in Guest : GuestInv(g)') /\ UniqueInv'
<1>0. TypeOK /\ SessionInv /\ (\A g \in Guest : GuestInv(g)) /\ UniqueInv
  BY DEF IInv
<1>1. SessionInv'
  BY <1>0 DEF SessionInv, sessionVars
<1>2. ASSUME NEW g \in Guest PROVE GuestInv(g)'
  <2>1. Holders(g)' = Holders(g)
    BY DEF Holders, sessionVars
  <2>2. /\ connected'[g] = connected[g] /\ prev_state'[g] = prev_state[g]
        /\ client_ips'[g] = client_ips[g] /\ leaked' = leaked /\ dirty' = dirty
        /\ stray' = stray /\ session' = session /\ gaveBack' = gaveBack
    BY DEF sessionVars
  <2>3. GuestInv(g) /\ Moves(g)
    BY <1>0
  <2>4. CASE state'[g] = state[g]
    BY <2>1, <2>2, <2>3, <2>4, Undisturbed
  <2>5. CASE state'[g] = "removed"
    BY <2>1, <2>2, <2>3, <2>5
    DEF GuestInv, Untouched, Counted, Resting, FirstClient, Listed, States
  <2>6. CASE state'[g] = "unavailable" /\ state[g] \in {"available", "using", "used"} /\ g \in unhealthy'
    BY <2>1, <2>2, <2>3, <2>6
    DEF GuestInv, Untouched, Counted, Resting, FirstClient, Listed, States
  <2>7. CASE state'[g] \in {"created", "available"} /\ state[g] \in {"none", "created"}
    <3>1. /\ Holders(g) = {} /\ leaked[g] = 0 /\ client_ips[g] = {} /\ g \notin dirty
          /\ connected[g] <= 0 /\ connected[g] \in Int
      BY <1>0, <2>3, <2>7 DEF GuestInv, Untouched, TypeOK
    <3>2. g \notin stray => connected[g] = 0
      BY <2>3, <2>7, <3>1, FS_EmptySet DEF GuestInv, Counted
    <3>3. Untouched(g)' /\ Resting(g)' /\ FirstClient(g)'
      BY <2>1, <2>2, <2>7, <3>1, <3>2 DEF Untouched, Resting, FirstClient
    <3>4. Counted(g)'
      BY <2>1, <2>2, <3>1, <3>2, FS_EmptySet DEF Counted
    <3> QED
      BY <2>7, <3>3, <3>4 DEF GuestInv
  <2> QED
    BY <2>3, <2>4, <2>5, <2>6, <2>7 DEF Moves
<1>3. UniqueInv'
  <2>1. \A g \in Guest : g \in Listed' => g \in Listed \/ client_ips[g] = {}
    <3> SUFFICES ASSUME NEW g \in Guest, g \in Listed', g \notin Listed PROVE client_ips[g] = {}
      OBVIOUS
    <3>1. state[g] \in {"none", "created"}
      BY DEF Moves, Listed, States
    <3> QED
      BY <1>0, <3>1 DEF GuestInv, Untouched
  <2> QED
    BY <1>0, <2>1, UniqueKept DEF sessionVars
<1> QED
  BY <1>1, <1>2, <1>3

LEMMA ListedFinite == IsFiniteSet(Listed) /\ Cardinality(Listed) \in Nat
BY FiniteGuests, FS_Subset, FS_CardinalityType DEF Listed

\* The first loop's steps that touch no guest, and cowrie's configuration.
LEMMA LocalStepsKeep ==
  ASSUME IInv,
         \/ set_configs \/ StartCreating \/ CreateFails \/ StartMarking
         \/ NoConnectivity \/ MarkUp \/ ScheduleLoop
  PROVE  IInv'
<1>0. TypeOK /\ ProducerInv /\ SizeInv
  BY DEF IInv
<1>1. UNCHANGED <<guestVars, sessionVars, markVars>>
  BY DEF set_configs, StartCreating, CreateFails, StartMarking, NoConnectivity, MarkUp, ScheduleLoop
<1>2. SessionInv' /\ (\A g \in Guest : GuestInv(g)') /\ UniqueInv' /\ Listed' = Listed
  BY <1>1, GuestsKept
<1>3. /\ existing_pool_size(state) = Cardinality(Listed)
      /\ max_vm \in Nat /\ max_vm <= Limit /\ Limit \in Nat
  BY ConfigAssumption DEF existing_pool_size, Listed, max_vm, Limit
<1>4. /\ configured' \in BOOLEAN /\ any_vm_up' \in BOOLEAN /\ ready' \in BOOLEAN
      /\ loop_next_call' \in {"None", "active", "spent"}
      /\ producer' \in {"starting", "creating", "marking", "up", "idle", "dead"}
      /\ created_guests' \subseteq get_guest_states({"created"})
      /\ recycling' \in BOOLEAN /\ to_create' \in Nat
      /\ ProducerInv' /\ SizeInv'
  <2> USE DEF producerVars
  <2>1. CASE set_configs
    BY <1>0, <1>2, <2>1 DEF set_configs, TypeOK, ProducerInv, SizeInv
  <2>2. CASE StartCreating
    <3>1. /\ to_create' \in Nat /\ Cardinality(Listed) + to_create' <= Limit
      BY <1>0, <1>3, <2>2, ListedFinite DEF StartCreating, SizeInv, TypeOK
    <3> QED
      BY <1>0, <1>2, <2>2, <3>1 DEF StartCreating, TypeOK, ProducerInv, SizeInv
  <2>3. CASE CreateFails
    <3>1. /\ to_create' \in Nat /\ Cardinality(Listed) + to_create' <= Limit
      BY <1>0, <1>3, <2>3, ListedFinite DEF CreateFails, SizeInv, TypeOK
    <3> QED
      BY <1>0, <1>2, <2>3, <3>1 DEF CreateFails, TypeOK, ProducerInv, SizeInv
  <2>4. CASE StartMarking
    BY <1>0, <1>2, <2>4 DEF StartMarking, TypeOK, ProducerInv, SizeInv
  <2>5. CASE NoConnectivity
    BY <1>0, <1>2, <2>5 DEF NoConnectivity, TypeOK, ProducerInv, SizeInv
  <2>6. CASE MarkUp
    BY <1>0, <1>2, <2>6 DEF MarkUp, TypeOK, ProducerInv, SizeInv
  <2>7. CASE ScheduleLoop
    BY <1>0, <1>2, <2>7 DEF ScheduleLoop, TypeOK, ProducerInv, SizeInv
  <2> QED
    BY <2>1, <2>2, <2>3, <2>4, <2>5, <2>6, <2>7
<1>5. TypeOK'
  BY <1>0, <1>1, <1>4 DEF TypeOK, guestVars, sessionVars, markVars, get_guest_states
<1> QED
  BY <1>2, <1>4, <1>5 DEF IInv

\* n new guests are listed: the ids are in range, the list is n longer.
LEMMA CreateGuestsTypes ==
  ASSUME TypeOK, NEW n \in 0 .. (MaxGuests - created), create_guests(n)
  PROVE  /\ created' \in 0 .. MaxGuests /\ created' = created + n
         /\ next_id' \in 0 .. (IdModulus - 1)
         /\ guest_id' \in [Guest -> 0 .. (IdModulus - 1)]
         /\ New(n) \subseteq Guest
         /\ \A g \in New(n) : state[g] = "none"
         /\ \A g \in Guest : g > created + n => state[g] = "none" /\ g \notin New(n)
         /\ IsFiniteSet(New(n)) /\ Cardinality(New(n)) = n
<1>1. created \in 0 .. MaxGuests /\ n \in Nat /\ MaxGuests \in Nat /\ created + n <= MaxGuests
  BY BoundsAssumption DEF TypeOK
<1>2. New(n) \subseteq Guest
  BY <1>1 DEF New, Guest
<1>3. ASSUME NEW g \in New(n) PROVE state[g] = "none" /\ next_id + g - created - 1 \in Nat
  BY <1>1, <1>2, BoundsAssumption DEF New, TypeOK, Guest
<1>4. next_id' \in 0 .. (IdModulus - 1)
  <2>1. next_id + n \in Nat
    BY <1>1, BoundsAssumption DEF TypeOK
  <2> QED
    BY <2>1, ModRange DEF create_guests
<1>5. guest_id' \in [Guest -> 0 .. (IdModulus - 1)]
  <2>1. \A g \in New(n) : (next_id + g - created - 1) % IdModulus \in 0 .. (IdModulus - 1)
    BY <1>3, ModRange
  <2> QED
    BY <2>1 DEF create_guests, TypeOK
<1>6. IsFiniteSet(New(n)) /\ Cardinality(New(n)) = n
  BY <1>1, FS_Interval DEF New
<1>7. \A g \in Guest : g > created + n => state[g] = "none" /\ g \notin New(n)
  BY <1>1 DEF TypeOK, New, Guest
<1> QED
  BY <1>1, <1>2, <1>3, <1>4, <1>5, <1>6, <1>7 DEF create_guests

LEMMA CreateGuestKeeps ==
  ASSUME IInv, CreateGuest
  PROVE  IInv'
<1>0. TypeOK /\ ProducerInv /\ SizeInv
  BY DEF IInv
<1>1. /\ producer = "creating" /\ to_create \in Nat \ {0} /\ to_create' = to_create - 1
      /\ created \in Nat /\ created < MaxGuests /\ 1 \in 0 .. (MaxGuests - created)
      /\ create_guests(1)
      /\ state' = [state EXCEPT ![created + 1] = "created"]
      /\ UNCHANGED <<prev_state, connected, client_ips, any_vm_up, ready, loop_next_call,
                 producer, created_guests, recycling, configured, sessionVars, markVars>>
  BY <1>0, BoundsAssumption DEF CreateGuest, TypeOK
<1>2. /\ created' \in 0 .. MaxGuests /\ created' = created + 1
      /\ next_id' \in 0 .. (IdModulus - 1)
      /\ guest_id' \in [Guest -> 0 .. (IdModulus - 1)]
      /\ created + 1 \in Guest /\ state[created + 1] = "none"
  BY <1>0, <1>1, CreateGuestsTypes DEF New
<1>3. /\ state'[created + 1] = "created"
      /\ \A g \in Guest : g # created + 1 => state'[g] = state[g]
      /\ state' \in [Guest -> States \cup {"none", "removed"}]
  BY <1>0, <1>1, <1>2 DEF TypeOK, States
<1>4. SessionInv' /\ (\A g \in Guest : GuestInv(g)') /\ UniqueInv'
  <2>1. \A g \in Guest : Moves(g)
    BY <1>2, <1>3 DEF Moves
  <2> QED
    BY <1>1, <2>1, ProducerKeeps DEF markVars
<1>5. Listed' = Listed \cup {created + 1} /\ created + 1 \notin Listed
  BY <1>2, <1>3 DEF Listed, States
<1>6. Cardinality(Listed') = Cardinality(Listed) + 1
  BY <1>5, ListedFinite, FS_AddElement
<1>7. ProducerInv' /\ SizeInv'
  BY <1>0, <1>1, <1>6, ListedFinite DEF ProducerInv, SizeInv
<1>8. TypeOK'
  <2>1. \A g \in Guest : state'[g] = "none" <=> g > created'
    BY <1>0, <1>1, <1>2, <1>3 DEF TypeOK, Guest
  <2>2. created_guests' \subseteq {g \in Guest : state'[g] = "created"}
    BY <1>0, <1>1, <1>2, <1>3 DEF TypeOK, get_guest_states
  <2> QED
    BY <1>0, <1>1, <1>2, <1>3, <2>1, <2>2 DEF TypeOK, sessionVars, markVars, get_guest_states
<1> QED
  BY <1>4, <1>7, <1>8 DEF IInv

LEMMA MarkAvailableKeeps ==
  ASSUME IInv, MarkAvailable
  PROVE  IInv'
<1>0. TypeOK /\ ProducerInv /\ SizeInv
  BY DEF IInv
<1>1. PICK g \in FirstOf(created_guests) :
        /\ state' = [state EXCEPT ![g] = "available"]
        /\ created_guests' = created_guests \ {g}
  BY DEF MarkAvailable
<1>2. /\ producer' = "marking" /\ to_create' = to_create /\ producer = "up"
      /\ UNCHANGED <<prev_state, connected, client_ips, guest_id, created, next_id, any_vm_up,
                 ready, loop_next_call, recycling, configured, sessionVars, markVars>>
  BY DEF MarkAvailable
<1>3. g \in Guest /\ state[g] = "created"
  <2>1. created_guests \subseteq Guest
    BY <1>0 DEF TypeOK, get_guest_states
  <2>2. g \in created_guests
    BY <2>1, FirstOfOne
  <2> QED
    BY <1>0, <2>2 DEF TypeOK, get_guest_states
<1>4. /\ state'[g] = "available"
      /\ \A h \in Guest : h # g => state'[h] = state[h]
      /\ state' \in [Guest -> States \cup {"none", "removed"}]
  BY <1>0, <1>1, <1>3 DEF TypeOK, States
<1>5. SessionInv' /\ (\A h \in Guest : GuestInv(h)') /\ UniqueInv'
  <2>1. \A h \in Guest : Moves(h)
    BY <1>3, <1>4 DEF Moves
  <2> QED
    BY <1>2, <2>1, ProducerKeeps DEF markVars
<1>6. Listed' = Listed
  BY <1>3, <1>4 DEF Listed, States
<1>7. ProducerInv' /\ SizeInv'
  BY <1>0, <1>2, <1>6 DEF ProducerInv, SizeInv
<1>8. TypeOK'
  <2>1. \A h \in Guest : state'[h] = "none" <=> h > created'
    BY <1>0, <1>2, <1>3, <1>4 DEF TypeOK
  <2>2. created_guests' \subseteq {h \in Guest : state'[h] = "created"}
    BY <1>0, <1>1, <1>4 DEF TypeOK, get_guest_states
  <2> QED
    BY <1>0, <1>2, <1>4, <2>1, <2>2 DEF TypeOK, sessionVars, markVars, get_guest_states
<1> QED
  BY <1>5, <1>7, <1>8 DEF IInv

\* Cleaning destroys guests and marks guests unavailable, no more.
LEMMA CleanedMoves ==
  ASSUME TypeOK, NEW timed \in SUBSET get_guest_states({"used"}),
         NEW failing \in SUBSET get_guest_states({"available", "using", "used"}),
         NEW g \in Guest
  PROVE  \/ Cleaned(timed, failing)[g] = state[g]
         \/ Cleaned(timed, failing)[g] = "removed" /\ state[g] \in States \ {"created"}
         \/ Cleaned(timed, failing)[g] = "unavailable" /\ state[g] \in {"available", "using", "used"}
<1> DEFINE destroyed == IF existing_pool_size(state) > 1
                        THEN timed \cup get_guest_states({"unavailable"}) ELSE {}
<1>1. g \in destroyed => state[g] \in {"used", "unavailable"}
  BY DEF get_guest_states
<1>2. g \in failing => state[g] \in {"available", "using", "used"}
  BY DEF get_guest_states
<1>3. Cleaned(timed, failing)[g] = CASE g \in destroyed -> "removed"
                                     [] g \in failing \ destroyed -> "unavailable"
                                     [] OTHER -> state[g]
  BY DEF Cleaned
<1> HIDE DEF destroyed
<1> QED
  BY <1>1, <1>2, <1>3 DEF States

LEMMA ProducerLoopKeeps ==
  ASSUME IInv, producer_loop
  PROVE  IInv'
<1>0. TypeOK /\ ProducerInv /\ SizeInv /\ \A g \in Guest : GuestInv(g)
  BY DEF IInv
<1>1. PICK timed \in SUBSET get_guest_states({"used"}),
           failing \in SUBSET get_guest_states({"available", "using", "used"}),
           n \in 0 .. (IF ready THEN MaxGuests - created ELSE 0) :
       LET kept    == Cleaned(timed, failing)
           wanted  == max_vm - existing_pool_size(kept)
           grown   == [g \in Guest |-> IF g \in New(n) THEN "created" ELSE kept[g]]
       IN /\ create_guests(n)
          /\ unhealthy' = unhealthy \cup {g \in Guest : kept[g] = "unavailable"}
          /\ \/ /\ n >= wanted /\ (n = 0 \/ n = wanted)
                /\ \E Up \in SUBSET {g \in Guest : grown[g] = "created"} :
                     /\ state' = [g \in Guest |-> IF g \in Up THEN "available" ELSE grown[g]]
                     /\ any_vm_up' = (any_vm_up \/ Up # {})
                /\ UNCHANGED <<loop_next_call, producer>>
             \/ /\ n < wanted
                /\ state' = grown
                /\ loop_next_call' = "spent"
                /\ producer' = "dead"
                /\ UNCHANGED any_vm_up
  BY DEF producer_loop
<1>2. PICK kept : kept = Cleaned(timed, failing)
  OBVIOUS
<1>3. PICK grown : grown = [g \in Guest |-> IF g \in New(n) THEN "created" ELSE kept[g]]
  OBVIOUS
<1>4. /\ create_guests(n)
      /\ unhealthy' = unhealthy \cup {g \in Guest : kept[g] = "unavailable"}
      /\ n = 0 \/ n <= max_vm - existing_pool_size(kept)
      /\ any_vm_up' \in BOOLEAN /\ loop_next_call' \in {"active", "spent"}
      /\ producer' \in {"idle", "dead"}
      /\ \E Up \in SUBSET {g \in Guest : grown[g] = "created"} :
           state' = [g \in Guest |-> IF g \in Up THEN "available" ELSE grown[g]]
  <2>1. existing_pool_size(kept) \in Nat /\ max_vm \in Nat
    BY FiniteGuests, FS_Subset, FS_CardinalityType, ConfigAssumption DEF existing_pool_size, max_vm
  <2>2. any_vm_up \in BOOLEAN /\ producer = "idle" /\ loop_next_call = "active"
    BY <1>0 DEF TypeOK, producer_loop
  <2>3. CASE n < max_vm - existing_pool_size(kept) /\ state' = grown
    <3>1. state' = [g \in Guest |-> IF g \in {} THEN "available" ELSE grown[g]]
      BY <1>3, <2>3
    <3>2. \E Up \in SUBSET {g \in Guest : grown[g] = "created"} :
            state' = [g \in Guest |-> IF g \in Up THEN "available" ELSE grown[g]]
      <4> WITNESS {} \in SUBSET {g \in Guest : grown[g] = "created"}
      <4> QED
        BY ONLY <3>1
    <3>3. /\ create_guests(n)
          /\ unhealthy' = unhealthy \cup {g \in Guest : kept[g] = "unavailable"}
          /\ any_vm_up' \in BOOLEAN /\ loop_next_call' \in {"active", "spent"}
          /\ producer' \in {"idle", "dead"}
      BY <1>1, <1>2, <2>2
    <3>4. n <= max_vm - existing_pool_size(kept)
      BY <2>1, <2>3
    <3> QED
      BY <3>2, <3>3, <3>4
  <2>4. CASE ~ (n < max_vm - existing_pool_size(kept) /\ state' = grown)
    BY <1>1, <1>2, <1>3, <2>1, <2>2, <2>4
  <2> QED
    BY <2>3, <2>4
<1>5. PICK Up \in SUBSET {g \in Guest : grown[g] = "created"} :
        state' = [g \in Guest |-> IF g \in Up THEN "available" ELSE grown[g]]
  BY <1>4
<1>6. /\ producer = "idle" /\ created_guests = {} /\ to_create = 0
      /\ UNCHANGED <<prev_state, connected, client_ips, ready, to_create, created_guests,
                     recycling, configured, sessionVars, gaveBack>>
  BY <1>0 DEF producer_loop, ProducerInv
<1>7. n \in 0 .. (MaxGuests - created)
  BY <1>0, BoundsAssumption DEF TypeOK
<1>8. /\ created' \in 0 .. MaxGuests /\ created' = created + n
      /\ next_id' \in 0 .. (IdModulus - 1)
      /\ guest_id' \in [Guest -> 0 .. (IdModulus - 1)]
      /\ New(n) \subseteq Guest
      /\ \A g \in New(n) : state[g] = "none"
      /\ \A g \in Guest : g > created + n => state[g] = "none" /\ g \notin New(n)
      /\ IsFiniteSet(New(n)) /\ Cardinality(New(n)) = n
  BY <1>0, <1>4, <1>7, CreateGuestsTypes
<1>9. \A g \in Guest :
        /\ \/ kept[g] = state[g]
           \/ kept[g] = "removed" /\ state[g] \in States \ {"created"}
           \/ kept[g] = "unavailable" /\ state[g] \in {"available", "using", "used"}
        /\ kept[g] \in States \cup {"none", "removed"}
  <2> SUFFICES ASSUME NEW g \in Guest
               PROVE  /\ \/ kept[g] = state[g]
                         \/ kept[g] = "removed" /\ state[g] \in States \ {"created"}
                         \/ kept[g] = "unavailable" /\ state[g] \in {"available", "using", "used"}
                      /\ kept[g] \in States \cup {"none", "removed"}
    OBVIOUS
  <2>1. \/ kept[g] = state[g]
        \/ kept[g] = "removed" /\ state[g] \in States \ {"created"}
        \/ kept[g] = "unavailable" /\ state[g] \in {"available", "using", "used"}
    BY <1>0, <1>2, CleanedMoves
  <2> QED
    BY <1>0, <2>1 DEF TypeOK, States
<1>10. \A g \in Guest :
        /\ g \in New(n) => state[g] = "none" /\ state'[g] \in {"created", "available"}
        /\ g \notin New(n) => \/ state'[g] = kept[g]
                              \/ state'[g] = "available" /\ kept[g] = "created"
        /\ state'[g] \in States \cup {"none", "removed"}
  BY <1>3, <1>5, <1>8, <1>9 DEF States
<1>11. SessionInv' /\ (\A g \in Guest : GuestInv(g)') /\ UniqueInv'
  <2>1. ASSUME NEW g \in Guest PROVE Moves(g)
    <3>1. /\ g \in New(n) => state[g] = "none" /\ state'[g] \in {"created", "available"}
          /\ g \notin New(n) => \/ state'[g] = kept[g]
                                \/ state'[g] = "available" /\ kept[g] = "created"
      BY <1>10
    <3>2. \/ kept[g] = state[g]
          \/ kept[g] = "removed" /\ state[g] \in States \ {"created"}
          \/ kept[g] = "unavailable" /\ state[g] \in {"available", "using", "used"}
      BY <1>9
    <3>3. kept[g] = "unavailable" => g \in unhealthy'
      BY <1>4
    <3> QED
      BY <3>1, <3>2, <3>3 DEF Moves, States
  <2>2. unhealthy \subseteq unhealthy'
    BY <1>4
  <2> QED
    BY <1>6, <2>1, <2>2, ProducerKeeps
<1>12. SizeInv'
  <2> DEFINE Kept == {g \in Guest : kept[g] \in States}
  <2>1. Listed' = Kept \cup New(n) /\ Kept \subseteq Listed /\ Kept \cap New(n) = {}
    BY <1>8, <1>9, <1>10 DEF Listed, States
  <2>2. IsFiniteSet(Kept) /\ Cardinality(Kept) \in Nat /\ Cardinality(Kept) <= Cardinality(Listed)
    BY <2>1, ListedFinite, FS_Subset, FS_CardinalityType
  <2>3. Cardinality(Listed') = Cardinality(Kept) + n
    <3> HIDE DEF Kept
    <3>1. Cardinality(Kept \cap New(n)) = 0
      BY <2>1, FS_EmptySet
    <3>2. Cardinality(New(n)) = n /\ n \in Int /\ IsFiniteSet(New(n))
      BY <1>7, <1>8
    <3>3. Cardinality(Kept \cup New(n)) = Cardinality(Kept) + n
      <4>1. Cardinality(Kept \cup New(n)) =
              Cardinality(Kept) + Cardinality(New(n)) - Cardinality(Kept \cap New(n))
        BY ONLY <2>2, <3>2, FS_Union
      <4> QED
        BY ONLY <2>2, <3>1, <3>2, <4>1
    <3> QED
      BY <2>1, <3>3
  <2>4. existing_pool_size(kept) = Cardinality(Kept)
    BY DEF existing_pool_size
  <2>5. max_vm \in Nat /\ Limit \in Nat /\ max_vm <= Limit
    BY ConfigAssumption DEF max_vm, Limit
  <2> HIDE DEF Kept
  <2>6. Cardinality(Listed') <= Limit
    BY <1>0, <1>4, <1>6, <1>7, <2>2, <2>3, <2>4, <2>5, ListedFinite DEF SizeInv
  <2> QED
    BY <1>6, <1>7, <2>2, <2>3, <2>6 DEF SizeInv
<1>13. ProducerInv'
  BY <1>4, <1>6 DEF ProducerInv
<1>14. TypeOK'
  <2>1. state' \in [Guest -> States \cup {"none", "removed"}]
    BY <1>5, <1>10
  <2>2. \A g \in Guest : state'[g] = "none" <=> g > created'
    <3> SUFFICES ASSUME NEW g \in Guest PROVE state'[g] = "none" <=> g > created'
      OBVIOUS
    <3>1. state[g] = "none" <=> g > created
      BY <1>0 DEF TypeOK
    <3>2. created \in Int /\ n \in Int /\ g \in Int
      BY <1>0, <1>7, BoundsAssumption DEF TypeOK, Guest
    <3>3. g \in New(n) <=> g > created /\ g <= created + n
      BY ONLY <3>2 DEF New
    <3>4. kept[g] = "none" <=> state[g] = "none"
      BY <1>9 DEF States
    <3>5. state'[g] = "none" <=> state[g] = "none" /\ g \notin New(n)
      BY <1>10, <3>4
    <3>6. created' = created + n /\ n >= 0
      BY <1>7, <1>8
    <3> QED
      BY ONLY <3>1, <3>2, <3>3, <3>5, <3>6
  <2>3. unhealthy' \subseteq Guest
    BY <1>0, <1>4 DEF TypeOK
  <2> QED
    BY <1>0, <1>4, <1>6, <1>8, <2>1, <2>2, <2>3 DEF TypeOK, sessionVars, get_guest_states
<1> QED
  BY <1>11, <1>12, <1>13, <1>14 DEF IInv

LEMMA RestartPoolKeeps ==
  ASSUME IInv, restart_pool
  PROVE  IInv'
<1>0. TypeOK /\ ProducerInv /\ SizeInv
  BY DEF IInv
<1>1. /\ producer \in {"idle", "dead"} /\ created_guests = {} /\ to_create = 0
      /\ UNCHANGED <<prev_state, connected, client_ips, guest_id, created, to_create,
                     created_guests, configured, sessionVars, markVars>>
  BY <1>0 DEF restart_pool, ProducerInv
<1>2. /\ \A g \in Guest : state'[g] = state[g] \/ (state'[g] = "removed" /\ state[g] \in States)
      /\ state' \in [Guest -> States \cup {"none", "removed"}]
      /\ next_id' \in 0 .. (IdModulus - 1) /\ any_vm_up' \in BOOLEAN /\ ready' \in BOOLEAN
      /\ loop_next_call' \in {"None", "active", "spent"} /\ recycling' \in BOOLEAN
      /\ producer' \in {"starting", "idle", "dead"}
  <2>1. CASE StopRaises
    BY <1>0, <1>1, <2>1 DEF restart_pool, TypeOK
  <2>2. CASE ~ StopRaises
    <3>1. 0 \in 0 .. (IdModulus - 1)
      BY BoundsAssumption
    <3> QED
      BY <1>0, <1>1, <2>2, <3>1 DEF restart_pool, TypeOK, Listed, Cancelled
  <2> QED
    BY <2>1, <2>2
<1>3. SessionInv' /\ (\A g \in Guest : GuestInv(g)') /\ UniqueInv'
  <2>1. \A g \in Guest : Moves(g)
    BY <1>2 DEF Moves, States
  <2> QED
    BY <1>1, <2>1, ProducerKeeps DEF markVars
<1>4. SizeInv'
  <2>1. Listed' \subseteq Listed
    BY <1>2 DEF Listed, States
  <2>2. Cardinality(Listed') <= Cardinality(Listed) /\ Cardinality(Listed') \in Nat
    BY <2>1, ListedFinite, FS_Subset, FS_CardinalityType
  <2>3. Limit \in Nat
    BY ConfigAssumption DEF Limit
  <2> QED
    BY <1>0, <1>1, <2>2, <2>3, ListedFinite DEF SizeInv
<1>5. ProducerInv'
  BY <1>1, <1>2 DEF ProducerInv
<1>6. TypeOK'
  <2>1. \A g \in Guest : state'[g] = "none" <=> g > created'
    BY <1>0, <1>1, <1>2 DEF TypeOK, States
  <2> QED
    BY <1>0, <1>1, <1>2, <2>1 DEF TypeOK, sessionVars, markVars, get_guest_states
<1> QED
  BY <1>3, <1>4, <1>5, <1>6 DEF IInv

-----------------------------------------------------------------------------
(* The theorems.                                                           *)

LEMMA InitIInv == Init => IInv
<1> SUFFICES ASSUME Init PROVE IInv
  OBVIOUS
<1>1. \A g \in Guest : Holders(g) = {} /\ Cardinality(Holders(g)) = 0
  <2>1. \A s \in Sessions : session[s].vm = 0
    BY DEF Init, Closed
  <2>2. \A g \in Guest : g # 0
    BY BoundsAssumption DEF Guest
  <2>3. \A g \in Guest : Holders(g) = {}
    BY <2>1, <2>2 DEF Holders
  <2> QED
    BY <2>3, FS_EmptySet
<1>2. Listed = {} /\ Cardinality(Listed) = 0
  BY FS_EmptySet DEF Init, Listed, States
<1>3. TypeOK
  <2>1. \A g \in Guest : g > 0
    BY BoundsAssumption DEF Guest
  <2>2. session \in [Sessions -> SessionRecord]
    BY DEF Init, Closed, SessionRecord
  <2>3. 0 \in 0 .. (IdModulus - 1) /\ 0 \in 0 .. MaxGuests /\ 0 \in 0 .. MaxRequests
    BY BoundsAssumption
  <2>4. recycling \in BOOLEAN
    BY ConfigAssumption DEF Init
  <2>5. /\ state \in [Guest -> States \cup {"none", "removed"}]
        /\ prev_state \in [Guest -> {"None", "available", "using", "used"}]
        /\ connected \in [Guest -> Int] /\ client_ips \in [Guest -> SUBSET Ips]
        /\ guest_id \in [Guest -> 0 .. (IdModulus - 1)] /\ leaked \in [Guest -> Nat]
        /\ \A g \in Guest : state[g] = "none" <=> g > created
    BY <2>1, <2>3 DEF Init
  <2> QED
    BY <2>2, <2>3, <2>4, <2>5 DEF Init, TypeOK
<1>4. SessionInv
  BY DEF Init, SessionInv, Closed, Serving
<1>5. ASSUME NEW g \in Guest PROVE GuestInv(g)
  BY <1>1 DEF Init, GuestInv, Untouched, Counted, Resting, FirstClient
<1>6. UniqueInv
  BY DEF Init, UniqueInv, Sound, Listed
<1>7. ProducerInv /\ SizeInv
  BY <1>2, ConfigAssumption DEF Init, ProducerInv, SizeInv, Limit
<1> QED
  BY <1>3, <1>4, <1>5, <1>6, <1>7 DEF IInv

LEMMA NextIInv == IInv /\ [Next]_vars => IInv'
<1> SUFFICES ASSUME IInv, [Next]_vars PROVE IInv'
  OBVIOUS
<1>1. ASSUME NEW s \in Sessions, Session(s) PROVE IInv'
  BY <1>1, SendVmRequestKeeps, ReceivedPoolDataKeeps, ConnectionLostKeeps, RequestVmKeeps,
     NoAvailableVMsKeeps, FreeVmKeeps, ReuseVmKeeps DEF Session
<1>2. CASE set_configs \/ FirstLoop
  BY <1>2, LocalStepsKeep, CreateGuestKeeps, MarkAvailableKeeps DEF FirstLoop
<1>3. CASE producer_loop
  BY <1>3, ProducerLoopKeeps
<1>4. CASE restart_pool
  BY <1>4, RestartPoolKeeps
<1>5. CASE UNCHANGED vars
  <2>1. UNCHANGED <<guestVars, sessionVars, markVars, producerVars, configured>>
    BY <1>5 DEF vars
  <2>2. SessionInv' /\ (\A g \in Guest : GuestInv(g)') /\ UniqueInv' /\ Listed' = Listed
    BY <2>1, GuestsKept
  <2> QED
    BY <2>1, <2>2 DEF IInv, TypeOK, ProducerInv, SizeInv, guestVars, sessionVars, markVars,
                      producerVars, get_guest_states
<1> QED
  BY <1>1, <1>2, <1>3, <1>4, <1>5 DEF Next

\* The inductive invariant holds in every reachable state.
THEOREM Invariance == Spec => []IInv
BY InitIInv, NextIInv, PTL DEF Spec

\* The variables have their types: a guest is in the list once it was created and until
\* it is removed, and the producer marks only guests that were created.
THEOREM TypeCorrect == Spec => []TypeOK
<1>1. IInv => TypeOK
  BY DEF IInv
<1> QED
  BY <1>1, Invariance, PTL

\* request_vm, free_vm and reuse_vm keep the count of a guest's clients, whatever the
\* order of late answers, health checks and recycling.
THEOREM AccountingKept == Spec => []Accounting
<1>1. IInv => Accounting
  BY DEF IInv, GuestInv, Counted, Accounting, Listed, States
<1> QED
  BY <1>1, Invariance, PTL

\* A guest that mark_timed_out may destroy has no client, unless it was freed for
\* another, or another for it, by an id they share.
THEOREM UsedIsFree == Spec => []UsedHasNoClient
<1>1. IInv => UsedHasNoClient
  BY DEF IInv, GuestInv, Resting, UsedHasNoClient, get_guest_states
<1> QED
  BY <1>1, Invariance, PTL

\* reuse_vm never hands out as fresh a guest that an attacker logged in to, with the
\* same exception.
THEOREM AvailableIsPristine == Spec => []Pristine
<1>1. IInv => Pristine
  BY DEF IInv, GuestInv, Resting, Pristine, get_guest_states
<1> QED
  BY <1>1, Invariance, PTL

\* request_vm serves all sessions of an address that gave no guest back with one guest.
THEOREM OneGuestPerAddress == Spec => []SameGuest
<1>1. IInv => SameGuest
  <2> SUFFICES ASSUME IInv, NEW s \in Sessions, NEW t \in Sessions, NEW g \in Sound, NEW h \in Sound,
                      s \in Holders(g), t \in Holders(h),
                      session[s].ip = session[t].ip, session[s].ip \notin gaveBack
               PROVE  g = h
    BY DEF SameGuest, Sound
  <2>1. session[s].vm = g /\ session[t].vm = h /\ g # 0 /\ h # 0
    BY BoundsAssumption DEF Holders, Sound, Listed, Guest
  <2>2. session[s].ip \in client_ips[g] /\ session[s].ip \in client_ips[h]
    BY <2>1 DEF IInv, SessionInv
  <2> QED
    BY <2>2 DEF IInv, UniqueInv
<1> QED
  BY <1>1, Invariance, PTL

\* __producer_create_guests never creates more guests than the larger of the pool's two
\* configurations, whichever creations fail.
THEOREM PoolBounded == Spec => []Bounded
<1>1. IInv => Bounded
  BY ListedFinite, ConfigAssumption DEF IInv, SizeInv, TypeOK, Bounded, Limit
<1> QED
  BY <1>1, Invariance, PTL
=============================================================================
