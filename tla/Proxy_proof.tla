---------------------------- MODULE Proxy_proof ----------------------------
(***************************************************************************)
(* For any numbers of channels and packets and any settings, in either     *)
(* proxy: that each prompt is answered at most once, that no packet is     *)
(* lost, that what is handed on of either end's packets is what the Relay  *)
(* promises, what a guest given back as unused was used for, and that the  *)
(* SSH proxy's list of channels agrees with the two ends.                  *)
(***************************************************************************)
EXTENDS MCProxy, WellFoundedInduction, TLAPS

\* A prompt that awaits its answer is one more than were answered.
PromptInv ==
  /\ inputing \subseteq Sorts
  /\ prompts \in [Sorts -> Nat] /\ lines \in [Sorts -> Nat]
  /\ \A s \in Sorts : /\ lines[s] <= prompts[s]
                      /\ s \in inputing => lines[s] < prompts[s]

\* A finished line answers one prompt and ends the waiting for both.
LEMMA FinishLineAnswers ==
  ASSUME PromptInv, inputing # {}, NEW n, NEW granted, FinishLine(n, granted), prompts' = prompts
  PROVE  PromptInv'
<1> DEFINE asked == IF "login" \in inputing THEN "login" ELSE "password"
<1>1. asked \in inputing /\ asked \in Sorts
  BY DEF PromptInv, Sorts
<1>2. lines' = [lines EXCEPT ![asked] = @ + 1] /\ inputing' = {}
  BY DEF FinishLine
<1> HIDE DEF asked
<1>3. lines' \in [Sorts -> Nat]
  BY <1>1, <1>2 DEF PromptInv
<1>4. \A s \in Sorts : lines'[s] <= prompts'[s]
  BY <1>1, <1>2 DEF PromptInv
<1> QED
  BY <1>2, <1>3, <1>4 DEF PromptInv

\* Each step preserves the invariant.
LEMMA PromptStep == PromptInv /\ [Next]_proxyvars => PromptInv'
<1> SUFFICES ASSUME PromptInv, [Next]_proxyvars PROVE PromptInv'
  OBVIOUS
<1>1. CASE UNCHANGED <<inputing, prompts, lines>>
  BY <1>1 DEF PromptInv
<1>2. ASSUME NEW input \in Inputs, NEW granted \in BOOLEAN, FrontendData(input, granted) PROVE PromptInv'
  <2>1. prompts' = prompts
    BY <1>2 DEF FrontendData
  <2>2. CASE inputing # {} /\ FinishLine(packets["frontend"] + 1, granted)
    BY <2>1, <2>2, FinishLineAnswers
  <2>3. CASE UNCHANGED <<inputing, lines>>
    BY <2>1, <2>3, <1>1
  <2> QED
    BY <1>2, <2>2, <2>3 DEF FrontendData, CutLine
<1>3. ASSUME NEW output \in Outputs, BackendData(output) PROVE PromptInv'
  <2>1. lines' = lines
    BY <1>3 DEF BackendData
  <2>2. CASE UNCHANGED <<inputing, prompts>>
    BY <2>1, <2>2, <1>1
  <2>3. CASE /\ inputing' = inputing \cup output.prompts
             /\ prompts' = [s \in Sorts |-> prompts[s] + IF s \in output.prompts THEN 1 ELSE 0]
    BY <2>1, <2>3 DEF PromptInv, Outputs
  <2> QED
    BY <1>3, <2>2, <2>3 DEF BackendData
<1> QED
  BY <1>1, <1>2, <1>3 DEF Next, TelnetNext, proxyvars, telnetvars

\* No login or password goes to a guest that did not ask for one more.
THEOREM AnswersWereAskedFor == Spec => []LinePerPrompt
<1>1. Init => PromptInv
  BY DEF Init, TelnetStart, PromptInv
<1>2. PromptInv => LinePerPrompt
  BY DEF PromptInv, LinePerPrompt
<1> QED
  BY <1>1, <1>2, PromptStep, PTL DEF Spec

-----------------------------------------------------------------------------
(* What parse_packet and the flush of held packets do.                     *)

\* A nonempty set of numbers has a least one.
LEMMA LeastNumber ==
  ASSUME NEW S, S \subseteq Nat, S # {}
  PROVE  \E m \in S : \A k \in S : m <= k
<1> DEFINE R == OpToRel(<, Nat)
<1>1. \E x \in S : \A y \in S : ~ (<<y, x>> \in R)
  <2> HIDE DEF R
  <2> SUFFICES IsWellFoundedOn(R, Nat)
    BY WFMin
  <2> QED
    BY NatLessThanWellFounded DEF R
<1>2. PICK x \in S : \A y \in S : <<y, x>> \notin R
  BY <1>1
<1>3. ASSUME NEW y \in S PROVE x <= y
  <2>1. ~ (y < x)
    BY <1>2 DEF OpToRel
  <2> QED
    BY <2>1
<1> QED
  BY <1>3

\* The packets that end e sends, what the proxy may keep of them, and what the
\* handling of a packet may leave behind.
Sent(e) == {p \in Packet : /\ p.kind = "userauth" => e = "backend"
                           /\ p.kind = "sftp request" => e = "frontend"}

Keeping == {k \in [Ends -> SUBSET [kind : Kinds, number : 1 .. MaxPackets]] :
              \A e \in Ends : \A p \in k[e] : p.kind \in Private(e)}

Outcome == [channels : Seq(Channel), passed : [Ends -> Seq(1 .. MaxPackets)],
            kept : Keeping, timer : BOOLEAN, raised : Causes]

\* The two say that the numbers handed on, and the packets kept, are the same.
SameOut(new, old) == new.passed = old.passed /\ new.kept = old.kept

\* A set of numbers that is not empty has a least one.
LEMMA LeastOf ==
  ASSUME NEW S, S \subseteq Nat, S # {}
  PROVE  Min(S) \in S
<1>1. \E m \in S : \A k \in S : m <= k
  BY LeastNumber
<1> QED
  BY <1>1 DEF Min

\* A search for a channel finds a place in the list, or none.
LEMMA PositionFits ==
  ASSUME NEW chs \in Seq(Channel), NEW chan, NEW e
  PROVE  Position(chs, chan, e) \in 0 .. Len(chs)
<1> DEFINE I == {i \in 1 .. Len(chs) : NumberedBy(chs[i], e) = chan}
<1>1. Position(chs, chan, e) = IF I # {} THEN Min(I) ELSE 0
  BY DEF Position, SelectInSeq
<1>2. I \subseteq Nat /\ I \subseteq 0 .. Len(chs) /\ Len(chs) \in Nat
  OBVIOUS
<1>3. I # {} => Min(I) \in I
  <2> HIDE DEF I
  <2> QED
    BY <1>2, LeastOf
<1>4. CASE I = {}
  BY <1>1, <1>2, <1>4
<1>5. CASE I # {}
  <2>1. Position(chs, chan, e) = Min(I)
    BY <1>1, <1>5
  <2> HIDE DEF I
  <2> QED
    BY <1>2, <1>3, <1>5, <2>1
<1> QED
  BY <1>4, <1>5

\* get_channel finds a place in the list, or raises.
LEMMA GetChannelFits ==
  ASSUME NEW chs \in Seq(Channel), NEW chan, NEW e
  PROVE  /\ get_channel(chs, chan, e).raised \in Causes
         /\ get_channel(chs, chan, e).raised = "no" => get_channel(chs, chan, e).at \in 1 .. Len(chs)
<1>1. Position(chs, chan, e) \in 0 .. Len(chs)
  BY PositionFits
<1> QED
  BY <1>1 DEF get_channel, Causes

\* A list of channels without one of them is a list of channels.
LEMMA RemoveAtFits ==
  ASSUME NEW chs \in Seq(Channel), NEW at \in 1 .. Len(chs)
  PROVE  RemoveAt(chs, at) \in Seq(Channel)
<1>1. SubSeq(chs, 1, at - 1) \in Seq(Channel) /\ SubSeq(chs, at + 1, Len(chs)) \in Seq(Channel)
  OBVIOUS
<1> QED
  BY <1>1 DEF RemoveAt

\* CHANNEL_OPEN hands nothing on by itself, and leaves a list of channels.
LEMMA OpenFits ==
  ASSUME NEW st \in Outcome, NEW e \in Ends, NEW p \in Packet
  PROVE  OpenChannel(st, e, p) \in Outcome /\ SameOut(OpenChannel(st, e, p), st)
<1> DEFINE c == NewChannel(e, p.chan, p.kind = "open tcpip")
           chs == Append(st.channels, c)
           t == st.timer \/ p.kind = "open"
           r == IF p.kind = "open" THEN "no" ELSE get_channel(chs, p.chan, Other(e)).raised
<1>1. c \in Channel
  BY DEF NewChannel, Channel, Packet
<1>2. chs \in Seq(Channel)
  <2> HIDE DEF c
  <2> QED
    BY <1>1 DEF Outcome, SameOut
<1>3. r \in Causes
  <2> HIDE DEF chs
  <2> QED
    BY <1>2, GetChannelFits DEF Causes
<1> DEFINE st1 == [st EXCEPT !.channels = chs]
           st2 == [st1 EXCEPT !.timer = t]
           st3 == [st2 EXCEPT !.raised = r]
<1>4. OpenChannel(st, e, p) = st3
  BY DEF OpenChannel, Outcome
<1>5. st1 \in Outcome /\ SameOut(st1, st)
  <2> HIDE DEF chs
  <2> QED
    BY <1>2 DEF Outcome, SameOut
<1>6. t \in BOOLEAN
  BY DEF Outcome, SameOut
<1> HIDE DEF chs, r, t
<1>7. st2 \in Outcome /\ SameOut(st2, st)
  <2> HIDE DEF st1
  <2> QED
    BY <1>5, <1>6 DEF Outcome, SameOut
<1>8. st3 \in Outcome /\ SameOut(st3, st)
  <2> HIDE DEF st2
  <2> QED
    BY <1>3, <1>7 DEF Outcome, SameOut
<1> QED
  BY <1>4, <1>8

\* What a confirmation leaves in the place of a channel is one.
LEMMA ConfirmFits ==
  ASSUME NEW c \in Channel, NEW e \in Ends, NEW p \in Packet
  PROVE  Confirm(c, e, p) \in Channel
BY DEF Confirm, Channel, Packet

\* A list in which a channel was replaced is a list of channels.
LEMMA PutFits ==
  ASSUME NEW chs \in Seq(Channel), NEW at \in 1 .. Len(chs), NEW c \in Channel
  PROVE  [chs EXCEPT ![at] = c] \in Seq(Channel)
OBVIOUS

\* CHANNEL_CLOSE marks a channel or takes it off the list.
LEMMA CloseFits ==
  ASSUME NEW chs \in Seq(Channel), NEW at \in 1 .. Len(chs), NEW e \in Ends
  PROVE  CloseChannel(chs, at, e) \in Seq(Channel)
<1> DEFINE c == [chs[at] EXCEPT !.closed = @ \cup {e}]
<1>1. c \in Channel
  <2>1. PICK d \in Channel : d = chs[at]
    OBVIOUS
  <2>2. [d EXCEPT !.closed = @ \cup {e}] \in Channel
    BY DEF Channel
  <2> QED
    BY <2>1, <2>2
<1>2. [chs EXCEPT ![at] = c] \in Seq(Channel)
  <2> HIDE DEF c
  <2> QED
    BY <1>1, PutFits
<1>3. [chs EXCEPT ![at].closed = @ \cup {e}] = [chs EXCEPT ![at] = c]
  OBVIOUS
<1> HIDE DEF c
<1> QED
  BY <1>2, <1>3, RemoveAtFits DEF CloseChannel

\* So do all packets about a channel that is in the list.
LEMMA OnChannelFits ==
  ASSUME NEW st \in Outcome, NEW e \in Ends, NEW p \in Packet
  PROVE  OnChannel(st, e, p) \in Outcome /\ SameOut(OnChannel(st, e, p), st)
<1> DEFINE found == get_channel(st.channels, p.chan, e)
           at == found.at
<1>1. st.channels \in Seq(Channel)
  BY DEF Outcome, SameOut
<1>2. found.raised \in Causes /\ (found.raised = "no" => at \in 1 .. Len(st.channels))
  BY <1>1, GetChannelFits
<1>3. CASE found.raised # "no"
  BY <1>2, <1>3 DEF OnChannel, Outcome, SameOut
<1>4. CASE found.raised = "no"
  <2>0. at \in 1 .. Len(st.channels) /\ st.channels[at] \in Channel
    BY <1>1, <1>2, <1>4
  <2>1. CASE p.kind = "confirm"
    <3>1. OnChannel(st, e, p) = [st EXCEPT !.channels[at] = Confirm(@, e, p)]
      BY <1>4, <2>1 DEF OnChannel
    <3>2. [st.channels EXCEPT ![at] = Confirm(@, e, p)] \in Seq(Channel)
      BY <1>1, <2>0, ConfirmFits, PutFits
    <3> HIDE DEF at
    <3> QED
      BY <3>1, <3>2 DEF Outcome, SameOut
  <2>2. CASE p.kind = "open failure"
    <3>1. OnChannel(st, e, p) = [st EXCEPT !.channels = RemoveAt(@, at)]
      BY <1>4, <2>2 DEF OnChannel
    <3>2. RemoveAt(st.channels, at) \in Seq(Channel)
      BY <1>1, <2>0, RemoveAtFits
    <3> HIDE DEF at
    <3> QED
      BY <3>1, <3>2 DEF Outcome, SameOut
  <2>3. CASE p.kind \in {"session request", "sftp request"}
    <3>1. OnChannel(st, e, p) = IF Withheld(p) THEN st ELSE [st EXCEPT !.channels[at].session = TRUE]
      BY <1>4, <2>3 DEF OnChannel
    <3>2. [st.channels[at] EXCEPT !.session = TRUE] \in Channel
      BY <2>0 DEF Channel
    <3>3. [st.channels EXCEPT ![at].session = TRUE] \in Seq(Channel)
      BY <1>1, <2>0, <3>2, PutFits
    <3> HIDE DEF at
    <3> QED
      BY <3>1, <3>3 DEF Outcome, SameOut
  <2>4. CASE p.kind = "close"
    <3>1. OnChannel(st, e, p) = [st EXCEPT !.channels = CloseChannel(@, at, e)]
      BY <1>4, <2>4 DEF OnChannel
    <3>2. CloseChannel(st.channels, at, e) \in Seq(Channel)
      BY <1>1, <2>0, CloseFits
    <3> HIDE DEF at
    <3> QED
      BY <3>1, <3>2 DEF Outcome, SameOut
  <2>5. CASE p.kind = "data"
    <3>1. OnChannel(st, e, p) =
            [st EXCEPT !.raised = IF st.channels[at].session THEN "no" ELSE "no such channel"]
      BY <1>4, <2>5 DEF OnChannel
    <3> HIDE DEF at
    <3> QED
      BY <3>1 DEF Outcome, SameOut, Causes
  <2>6. CASE p.kind \notin {"confirm", "open failure", "session request", "sftp request", "close", "data"}
    BY <1>4, <2>6 DEF OnChannel, SameOut
  <2> QED
    BY <2>1, <2>2, <2>3, <2>4, <2>5, <2>6
<1> QED
  BY <1>3, <1>4

\* new is old after the packet with number n came from e: handed on, or kept.
Took(old, new, e, n) ==
  \/ new.passed = [old.passed EXCEPT ![e] = Append(@, n)] /\ new.kept = old.kept
  \/ /\ new.passed = old.passed
     /\ \E k : k.number = n /\ new.kept = [old.kept EXCEPT ![e] = @ \cup {k}]

\* A packet that does not raise is handed on, after those before it, or kept.
LEMMA ParseFits ==
  ASSUME NEW st \in Outcome, NEW e \in Ends, NEW p \in Sent(e)
  PROVE  /\ parse_packet(st, e, p) \in Outcome
         /\ parse_packet(st, e, p).raised = "no" =>
              st.raised = "no" /\ Took(st, parse_packet(st, e, p), e, p.number)
<1>0. p \in Packet
  BY DEF Sent
<1> DEFINE read == Parsed(st, e, p)
<1>1. read \in Outcome /\ SameOut(read, st)
  <2>1. CASE p.kind \in {"open", "open tcpip"}
    BY <1>0, <2>1, OpenFits DEF Parsed, SameOut
  <2>2. CASE p.kind = "tcpip-forward"
    BY <2>2 DEF Parsed, Outcome, Causes, SameOut
  <2>3. CASE p.kind \in {"ignore", "userauth"}
    BY <2>3 DEF Parsed, SameOut
  <2>4. CASE p.kind \notin {"open", "open tcpip", "tcpip-forward", "ignore", "userauth"}
    BY <1>0, <2>4, OnChannelFits DEF Parsed
  <2> QED
    BY <2>1, <2>2, <2>3, <2>4
<1>2. CASE st.raised # "no"
  BY <1>2 DEF parse_packet, SentOn
<1>3. CASE st.raised = "no"
  <2>1. PICK k : k = [kind |-> p.kind, number |-> p.number]
    OBVIOUS
  <2>2. PICK s : s = read
    OBVIOUS
  <2> DEFINE gone == [s EXCEPT !.raised = "attacker gone"]
             mine == [s EXCEPT !.kept[e] = @ \cup {k}]
             out  == [s EXCEPT !.passed[e] = Append(@, p.number)]
  <2>3. \/ parse_packet(st, e, p) = s /\ s.raised # "no"
        \/ parse_packet(st, e, p) = gone
        \/ parse_packet(st, e, p) = mine /\ Withheld(p)
        \/ parse_packet(st, e, p) = out
    BY <1>3, <2>1, <2>2 DEF parse_packet, SentOn
  <2>4. s \in Outcome /\ SameOut(s, st)
    BY <1>1, <2>2
  <2>5. gone \in Outcome /\ gone.raised # "no"
    BY <2>4 DEF Outcome, Causes
  <2>6. CASE parse_packet(st, e, p) = mine /\ Withheld(p)
    <3>1. p.kind \in Private(e)
      BY <1>0, <2>6 DEF Withheld, Private, Sent, Ends
    <3>2. PICK ks : ks = s.kept
      OBVIOUS
    <3>3. ks \in Keeping /\ [ks EXCEPT ![e] = @ \cup {k}] \in Keeping
      <4>1. ks \in Keeping
        BY <2>4, <3>2 DEF Outcome
      <4>2. k \in [kind : Kinds, number : 1 .. MaxPackets] /\ k.kind \in Private(e)
        BY <1>0, <2>1, <3>1 DEF Packet
      <4> QED
        BY <4>1, <4>2 DEF Keeping
    <3>4. mine \in Outcome /\ mine.passed = s.passed /\ mine.kept = [ks EXCEPT ![e] = @ \cup {k}]
      BY <2>4, <3>2, <3>3 DEF Outcome
    <3>5. k.number = p.number /\ s.passed = st.passed /\ ks = st.kept
      BY <2>1, <2>4, <3>2 DEF SameOut
    <3>6. Took(st, mine, e, p.number)
      <4>1. \E l : l.number = p.number /\ mine.kept = [st.kept EXCEPT ![e] = @ \cup {l}]
        BY <3>4, <3>5
      <4> QED
        BY <3>4, <3>5, <4>1 DEF Took
    <3> QED
      BY <1>3, <2>6, <3>4, <3>6
  <2>7. CASE parse_packet(st, e, p) = out
    <3>1. [s.passed EXCEPT ![e] = Append(@, p.number)] \in [Ends -> Seq(1 .. MaxPackets)]
      BY <1>0, <2>4 DEF Outcome, Packet
    <3>2. out \in Outcome /\ out.passed = [s.passed EXCEPT ![e] = Append(@, p.number)] /\ out.kept = s.kept
      BY <2>4, <3>1 DEF Outcome
    <3>3. Took(st, out, e, p.number)
      BY <2>4, <3>2 DEF Took, SameOut
    <3> QED
      BY <1>3, <2>7, <3>2, <3>3
  <2> QED
    BY <2>3, <2>4, <2>5, <2>6, <2>7
<1> QED
  BY <1>2, <1>3

\* What parse_all computes is reached by one packet after the other.
LEMMA ParseAllRuns ==
  ASSUME NEW st \in Outcome, NEW e \in Ends, NEW ps \in Seq(Sent(e))
  PROVE  \E f \in [0 .. Len(ps) -> Outcome] :
           /\ f[0] = st
           /\ \A k \in 1 .. Len(ps) : f[k] = parse_packet(f[k - 1], e, ps[k])
           /\ parse_all(st, e, ps) = f[Len(ps)]
<1> DEFINE N == Len(ps)
           Is(f) == f = [n \in 0 .. N |-> IF n = 0 THEN st ELSE parse_packet(f[n - 1], e, ps[n])]
           Runs(f, n) == f[0] = st /\ \A k \in 1 .. n : f[k] = parse_packet(f[k - 1], e, ps[k])
           Upto(n) == \E f \in [0 .. n -> Outcome] : Runs(f, n)
           Missing == {n \in 0 .. N : ~ Upto(n)}
<1>1. N \in Nat /\ \A k \in 1 .. N : ps[k] \in Sent(e)
  OBVIOUS
<1>2. Upto(0)
  <2> DEFINE f == [k \in 0 .. 0 |-> st]
  <2>1. f \in [0 .. 0 -> Outcome] /\ Runs(f, 0)
    OBVIOUS
  <2> HIDE DEF f
  <2> QED
    BY <2>1
<1>3. ASSUME NEW m \in 1 .. N, Upto(m - 1) PROVE Upto(m)
  <2>1. PICK f \in [0 .. (m - 1) -> Outcome] : Runs(f, m - 1)
    BY <1>3
  <2> DEFINE s == parse_packet(f[m - 1], e, ps[m])
             g == [k \in 0 .. m |-> IF k = m THEN s ELSE f[k]]
  <2>2. m \in Nat \ {0} /\ f[m - 1] \in Outcome /\ s \in Outcome
    <3>1. m \in Nat \ {0} /\ m - 1 \in 0 .. (m - 1)
      BY ONLY <1>1, m \in 1 .. N
    <3>2. f[m - 1] \in Outcome
      BY ONLY <2>1, <3>1
    <3> QED
      BY <1>1, <3>1, <3>2, ParseFits
  <2> HIDE DEF s
  <2>3. g \in [0 .. m -> Outcome]
    <3>1. \A k \in 0 .. m : k = m \/ k \in 0 .. (m - 1)
      <4>1. m \in Nat
        BY ONLY <2>2
      <4> QED
        BY ONLY <4>1
    <3>2. \A k \in 0 .. m : (IF k = m THEN s ELSE f[k]) \in Outcome
      BY ONLY <2>1, <2>2, <3>1
    <3> QED
      BY ONLY <3>2
  <2>4. \A k \in 0 .. (m - 1) : g[k] = f[k]
    BY <2>2
  <2>5. g[m] = parse_packet(g[m - 1], e, ps[m])
    BY <2>2, <2>4 DEF s
  <2>6. \A k \in 1 .. (m - 1) : g[k] = parse_packet(g[k - 1], e, ps[k])
    BY <2>1, <2>2, <2>4
  <2>7. Runs(g, m)
    <3> HIDE DEF g, N
    <3>1. g[0] = st
      BY <2>1, <2>2, <2>4
    <3>2. ASSUME NEW k \in 1 .. m PROVE g[k] = parse_packet(g[k - 1], e, ps[k])
      <4>1. k = m \/ k \in 1 .. (m - 1)
        BY <2>2
      <4> QED
        BY <4>1, <2>5, <2>6
    <3> QED
      BY <3>1, <3>2
  <2> HIDE DEF g, Runs
  <2> QED
    BY <2>3, <2>7
<1>4. Upto(N)
  <2> HIDE DEF Upto
  <2> SUFFICES ASSUME Missing # {} PROVE FALSE
    BY <1>1
  <2>1. Missing \subseteq Nat
    BY <1>1
  <2>2. PICK m \in Missing : \A k \in Missing : m <= k
    BY <2>1, LeastNumber
  <2>3. m \in 1 .. N /\ m - 1 \in 0 .. N /\ m - 1 \notin Missing
    BY <1>1, <1>2, <2>2
  <2> QED
    BY <1>3, <2>2, <2>3
<1>a. PICK f \in [0 .. N -> Outcome] : Runs(f, N)
  BY <1>4
<1>5. Is(f)
  BY <1>1, <1>a
<1> DEFINE g == CHOOSE h : Is(h)
<1>6. Is(g)
  <2> HIDE DEF Is
  <2> QED
    BY <1>5
<1>7. parse_all(st, e, ps) = g[N]
  BY DEF parse_all
<1> HIDE DEF g
<1>8. \A k \in 0 .. N : g[k] = IF k = 0 THEN st ELSE parse_packet(g[k - 1], e, ps[k])
  BY <1>6
<1> DEFINE Bad == {n \in 0 .. N : g[n] # f[n]}
<1>9. Bad = {}
  <2> SUFFICES ASSUME Bad # {} PROVE FALSE
    OBVIOUS
  <2>1. PICK m \in Bad : \A k \in Bad : m <= k
    <3>1. Bad \subseteq Nat
      BY <1>1
    <3> HIDE DEF Bad
    <3> QED
      BY <3>1, LeastNumber
  <2>2. m # 0
    BY <1>1, <1>a, <1>8
  <2>3. m - 1 \in 0 .. N /\ m \in 1 .. N /\ g[m - 1] = f[m - 1]
    BY <1>1, <2>1, <2>2
  <2> QED
    BY <1>1, <1>a, <1>8, <2>1, <2>3
<1> QED
  BY <1>1, <1>a, <1>7, <1>9

-----------------------------------------------------------------------------
(* The packets in their order.                                             *)

\* Of count packets from one end those in out were handed on, those in mine kept,
\* and those in held not read yet; they wait in the order of their numbers, behind
\* all that were handed on.
Ordered(count, out, mine, held) ==
  /\ Relayed!HandedOn(out, count)
  /\ \A j \in 1 .. Len(held) : held[j].number \in 1 .. count
  /\ \A i, j \in 1 .. Len(held) : i < j => held[i].number < held[j].number
  /\ \A i \in 1 .. Len(out), j \in 1 .. Len(held) : out[i] < held[j].number
  /\ Range(out) \cup {k.number : k \in mine} \cup {held[j].number : j \in 1 .. Len(held)}
       = 1 .. count

\* One more number goes out, larger than all before it.
LEMMA HandOneOn ==
  ASSUME NEW out \in Seq(Nat), NEW count \in Nat, Relayed!HandedOn(out, count),
         NEW n \in 1 .. count, \A i \in 1 .. Len(out) : out[i] < n
  PROVE  /\ Relayed!HandedOn(Append(out, n), count)
         /\ Relayed!Extends(Append(out, n), out)
         /\ Range(Append(out, n)) = Range(out) \cup {n}
         /\ \A k \in Nat : n < k => \A i \in 1 .. Len(Append(out, n)) : Append(out, n)[i] < k
<1>1. PICK a : a = Append(out, n)
  OBVIOUS
<1>2. /\ Len(out) \in Nat /\ Len(a) = Len(out) + 1 /\ a[Len(out) + 1] = n
      /\ \A i \in 1 .. Len(out) : a[i] = out[i] /\ out[i] \in Nat
      /\ DOMAIN a = 1 .. Len(a) /\ DOMAIN out = 1 .. Len(out) /\ n \in Nat
  BY <1>1
<1>3. \A i \in 1 .. Len(a) : i \in 1 .. Len(out) \/ i = Len(out) + 1
  BY ONLY <1>2
<1>4. Len(out) + 1 \in 1 .. Len(a) /\ \A i \in 1 .. Len(out) : i \in 1 .. Len(a)
  BY ONLY <1>2
<1>5. \A i \in 1 .. Len(out) : out[i] \in 1 .. count /\ (i > 1 => out[i - 1] < out[i])
  BY DEF Relayed!HandedOn
<1>6. Relayed!HandedOn(a, count)
  <2>1. \A i \in 1 .. Len(a) : a[i] \in 1 .. count
    BY <1>2, <1>3, <1>5
  <2>2. ASSUME NEW i \in 1 .. Len(a), i > 1 PROVE a[i - 1] < a[i]
    <3>1. i - 1 \in 1 .. Len(out)
      BY ONLY <1>2, <2>2, i \in 1 .. Len(a)
    <3>2. CASE i = Len(out) + 1
      BY <1>2, <3>1, <3>2
    <3>3. CASE i \in 1 .. Len(out)
      BY <1>2, <1>5, <2>2, <3>1, <3>3
    <3> QED
      BY <1>3, <3>2, <3>3
  <2> QED
    BY <2>1, <2>2 DEF Relayed!HandedOn
<1>7. Relayed!Extends(a, out)
  BY <1>2 DEF Relayed!Extends
<1>8. Range(a) = Range(out) \cup {n}
  <2>1. Range(a) = {a[i] : i \in 1 .. Len(a)} /\ Range(out) = {out[i] : i \in 1 .. Len(out)}
    BY ONLY <1>2 DEF Range
  <2>2. ASSUME NEW x \in Range(a) PROVE x \in Range(out) \cup {n}
    BY ONLY <1>2, <1>3, <2>1, x \in Range(a)
  <2>3. ASSUME NEW x \in Range(out) \cup {n} PROVE x \in Range(a)
    BY ONLY <1>2, <1>4, <2>1, x \in Range(out) \cup {n}
  <2> QED
    BY ONLY <2>2, <2>3
<1>9. \A k \in Nat : n < k => \A i \in 1 .. Len(a) : a[i] < k
  <2> SUFFICES ASSUME NEW k \in Nat, n < k, NEW i \in 1 .. Len(a) PROVE a[i] < k
    OBVIOUS
  <2>1. CASE i = Len(out) + 1
    BY <1>2, <2>1
  <2>2. CASE i \in 1 .. Len(out)
    BY <1>2, <2>2
  <2> QED
    BY <1>3, <2>1, <2>2
<1> QED
  BY <1>1, <1>6, <1>7, <1>8, <1>9

\* Since old, end e has had packets handed on, and the other end none.
Since(old, new, e) ==
  /\ Relayed!Extends(new.passed[e], old.passed[e])
  /\ \A d \in Ends \ {e} : new.passed[d] = old.passed[d] /\ new.kept[d] = old.kept[d]

\* The numbers of the packets of end e that were handed on or kept.
Numbers(st, e) == Range(st.passed[e]) \cup {k.number : k \in st.kept[e]}

\* new is old after the first n of the packets ps came from e.
Handled(old, new, e, ps, n, count) ==
  /\ Since(old, new, e)
  /\ Relayed!HandedOn(new.passed[e], count)
  /\ \A i \in 1 .. Len(new.passed[e]), j \in n + 1 .. Len(ps) : new.passed[e][i] < ps[j].number
  /\ Numbers(new, e) = Numbers(old, e) \cup {ps[j].number : j \in 1 .. n}

\* Before the first of them nothing has changed.
LEMMA HandledNone ==
  ASSUME NEW st \in Outcome, NEW e \in Ends, NEW ps \in Seq(Packet), NEW count,
         Ordered(count, st.passed[e], st.kept[e], ps)
  PROVE  Handled(st, st, e, ps, 0, count)
<1>1. st.passed[e] \in Seq(1 .. MaxPackets)
  BY DEF Outcome
<1>2. Since(st, st, e)
  BY <1>1 DEF Since, Relayed!Extends
<1>3. {ps[j].number : j \in 1 .. 0} = {}
  OBVIOUS
<1>4. 0 + 1 .. Len(ps) = 1 .. Len(ps)
  OBVIOUS
<1> QED
  BY <1>2, <1>3, <1>4 DEF Handled, Ordered

\* One more is handed on or kept.
LEMMA HandledOne ==
  ASSUME NEW old \in Outcome, NEW mid \in Outcome, NEW new \in Outcome, NEW e \in Ends,
         NEW ps \in Seq(Packet), NEW count \in Nat, NEW n \in 1 .. Len(ps),
         \A j \in 1 .. Len(ps) : ps[j].number \in 1 .. count,
         \A i, j \in 1 .. Len(ps) : i < j => ps[i].number < ps[j].number,
         Handled(old, mid, e, ps, n - 1, count), Took(mid, new, e, ps[n].number)
  PROVE  Handled(old, new, e, ps, n, count)
<1>1. PICK a, b, c, x : a = old.passed[e] /\ b = mid.passed[e] /\ c = new.passed[e] /\ x = ps[n].number
  OBVIOUS
<1>2. /\ n \in Nat \ {0} /\ Len(ps) \in Nat /\ x \in 1 .. count /\ x \in Nat
      /\ \A j \in n + 1 .. Len(ps) : j \in 1 .. Len(ps) /\ n < j /\ j \in (n - 1) + 1 .. Len(ps)
      /\ n \in (n - 1) + 1 .. Len(ps)
  BY <1>1
<1>3. a \in Seq(Nat) /\ b \in Seq(Nat)
  <2>1. a \in Seq(1 .. MaxPackets) /\ b \in Seq(1 .. MaxPackets)
    BY <1>1 DEF Outcome
  <2> QED
    BY ONLY <2>1, PacketsAssumption
<1>4. /\ Since(old, mid, e) /\ Relayed!HandedOn(b, count)
      /\ \A i \in 1 .. Len(b), j \in (n - 1) + 1 .. Len(ps) : b[i] < ps[j].number
      /\ Numbers(mid, e) = Numbers(old, e) \cup {ps[j].number : j \in 1 .. (n - 1)}
  BY <1>1 DEF Handled
<1>5. \A i \in 1 .. Len(b) : b[i] < x
  BY <1>1, <1>2, <1>4
<1>6. \A j \in n + 1 .. Len(ps) : x < ps[j].number /\ ps[j].number \in Nat
  BY <1>1, <1>2
<1>7. {ps[j].number : j \in 1 .. n} = {ps[j].number : j \in 1 .. (n - 1)} \cup {x}
  <2>1. \A j \in 1 .. n : j = n \/ j \in 1 .. (n - 1)
    BY <1>2
  <2>2. n \in 1 .. n /\ \A j \in 1 .. (n - 1) : j \in 1 .. n
    BY <1>2
  <2> QED
    BY ONLY <1>1, <2>1, <2>2
<1>8. SUFFICES /\ Relayed!HandedOn(c, count) /\ Relayed!Extends(c, a)
               /\ \A i \in 1 .. Len(c), j \in n + 1 .. Len(ps) : c[i] < ps[j].number
               /\ Numbers(new, e) = Numbers(mid, e) \cup {x}
               /\ \A d \in Ends \ {e} : new.passed[d] = mid.passed[d] /\ new.kept[d] = mid.kept[d]
  <2> SUFFICES ASSUME /\ Relayed!HandedOn(c, count) /\ Relayed!Extends(c, a)
                      /\ \A i \in 1 .. Len(c), j \in n + 1 .. Len(ps) : c[i] < ps[j].number
                      /\ Numbers(new, e) = Numbers(mid, e) \cup {x}
                      /\ \A d \in Ends \ {e} : new.passed[d] = mid.passed[d] /\ new.kept[d] = mid.kept[d]
               PROVE  Handled(old, new, e, ps, n, count)
    OBVIOUS
  <2>1. Since(old, new, e)
    BY <1>1, <1>4 DEF Since
  <2>2. Numbers(new, e) = Numbers(old, e) \cup {ps[j].number : j \in 1 .. n}
    BY <1>4, <1>7
  <2> QED
    BY <1>1, <2>1, <2>2 DEF Handled
<1>9. Relayed!Extends(b, a)
  BY <1>1, <1>4 DEF Since
<1>10. CASE new.passed = [mid.passed EXCEPT ![e] = Append(@, x)] /\ new.kept = mid.kept
  <2>1. /\ c = Append(b, x)
        /\ \A d \in Ends \ {e} : new.passed[d] = mid.passed[d] /\ new.kept[d] = mid.kept[d]
    BY <1>1, <1>10 DEF Outcome
  <2>2. /\ Relayed!HandedOn(c, count) /\ Relayed!Extends(c, b) /\ Range(c) = Range(b) \cup {x}
        /\ \A k \in Nat : x < k => \A i \in 1 .. Len(c) : c[i] < k
    BY <1>2, <1>3, <1>4, <1>5, <2>1, HandOneOn
  <2>3. Relayed!Extends(c, a)
    <3>1. /\ Len(a) \in Nat /\ Len(b) \in Nat /\ Len(c) \in Nat
          /\ Len(a) <= Len(b) /\ Len(b) <= Len(c)
          /\ \A i \in 1 .. Len(a) : b[i] = a[i]
          /\ \A i \in 1 .. Len(b) : c[i] = b[i]
      BY <1>2, <1>3, <1>9, <2>1, <2>2 DEF Relayed!Extends
    <3>2. Len(a) <= Len(c) /\ \A i \in 1 .. Len(a) : i \in 1 .. Len(b)
      BY ONLY <3>1
    <3> QED
      BY ONLY <3>1, <3>2 DEF Relayed!Extends
  <2>4. Numbers(new, e) = Numbers(mid, e) \cup {x}
    BY <1>1, <1>10, <2>2 DEF Numbers
  <2> QED
    BY <1>6, <2>1, <2>2, <2>3, <2>4
<1>11. ASSUME NEW k, k.number = x, new.passed = mid.passed, new.kept = [mid.kept EXCEPT ![e] = @ \cup {k}]
       PROVE  /\ Relayed!HandedOn(c, count) /\ Relayed!Extends(c, a)
              /\ \A i \in 1 .. Len(c), j \in n + 1 .. Len(ps) : c[i] < ps[j].number
              /\ Numbers(new, e) = Numbers(mid, e) \cup {x}
              /\ \A d \in Ends \ {e} : new.passed[d] = mid.passed[d] /\ new.kept[d] = mid.kept[d]
  <2>1. c = b
    BY <1>1, <1>11
  <2>2. /\ new.kept[e] = mid.kept[e] \cup {k}
        /\ \A d \in Ends \ {e} : new.kept[d] = mid.kept[d]
    BY <1>11 DEF Outcome, Keeping
  <2>3. Numbers(new, e) = Numbers(mid, e) \cup {x}
    <3>1. {l.number : l \in new.kept[e]} = {l.number : l \in mid.kept[e]} \cup {x}
      BY <1>11, <2>2
    <3> QED
      BY <1>11, <3>1 DEF Numbers
  <2> QED
    BY <1>2, <1>4, <1>9, <1>11, <2>1, <2>2, <2>3
<1> QED
  BY <1>1, <1>10, <1>11 DEF Took

\* After the last of them none is left.
LEMMA HandledAll ==
  ASSUME NEW old \in Outcome, NEW new \in Outcome, NEW e \in Ends, NEW ps \in Seq(Packet),
         NEW count, Ordered(count, old.passed[e], old.kept[e], ps),
         Handled(old, new, e, ps, Len(ps), count)
  PROVE  Since(old, new, e) /\ Ordered(count, new.passed[e], new.kept[e], << >>)
<1>1. Numbers(new, e) = 1 .. count
  BY DEF Handled, Ordered, Numbers
<1>2. Len(<< >>) = 0 /\ {<< >>[j].number : j \in 1 .. 0} = {}
  OBVIOUS
<1> QED
  BY <1>1, <1>2 DEF Ordered, Handled, Numbers

\* The packets that an end sends are packets.
LEMMA SentArePackets == \A e : \A ps \in Seq(Sent(e)) : ps \in Seq(Packet) /\ Len(ps) \in Nat
<1> SUFFICES ASSUME NEW e, NEW ps \in Seq(Sent(e)) PROVE ps \in Seq(Packet) /\ Len(ps) \in Nat
  OBVIOUS
<1>1. Sent(e) \subseteq Packet
  BY DEF Sent
<1>2. \A i \in 1 .. Len(ps) : ps[i] \in Packet
  BY <1>1
<1> QED
  BY <1>2

\* If no packet raises, all are handed on or kept, in their order.
LEMMA ParseAllFits ==
  ASSUME NEW st \in Outcome, NEW e \in Ends, NEW ps \in Seq(Sent(e)),
         NEW r, r = parse_all(st, e, ps)
  PROVE  /\ r \in Outcome
         /\ \A count \in Nat : r.raised = "no" /\ Ordered(count, st.passed[e], st.kept[e], ps) =>
              Since(st, r, e) /\ Ordered(count, r.passed[e], r.kept[e], << >>)
<1>1. ps \in Seq(Packet) /\ Len(ps) \in Nat
  BY SentArePackets
<1>2. PICK f \in [0 .. Len(ps) -> Outcome] :
        /\ f[0] = st
        /\ \A k \in 1 .. Len(ps) : f[k] = parse_packet(f[k - 1], e, ps[k])
        /\ r = f[Len(ps)]
  BY ParseAllRuns
<1>3. r \in Outcome
  BY <1>1, <1>2
<1> SUFFICES ASSUME NEW count \in Nat, r.raised = "no", Ordered(count, st.passed[e], st.kept[e], ps)
             PROVE  Since(st, r, e) /\ Ordered(count, r.passed[e], r.kept[e], << >>)
  BY <1>3
<1> DEFINE Good(n) == f[n].raised = "no" => Handled(st, f[n], e, ps, n, count)
           Bad == {n \in 0 .. Len(ps) : ~ Good(n)}
<1>4. Good(0)
  BY <1>1, <1>2, HandledNone
<1>5. ASSUME NEW n \in 1 .. Len(ps), Good(n - 1) PROVE Good(n)
  <2> SUFFICES ASSUME f[n].raised = "no" PROVE Handled(st, f[n], e, ps, n, count)
    OBVIOUS
  <2>1. f[n - 1] \in Outcome /\ f[n] \in Outcome /\ ps[n] \in Sent(e) /\ f[n] = parse_packet(f[n - 1], e, ps[n])
    BY <1>1, <1>2
  <2>2. f[n - 1].raised = "no" /\ Took(f[n - 1], f[n], e, ps[n].number)
    <3>1. PICK s \in Outcome, p \in Sent(e) : s = f[n - 1] /\ p = ps[n]
      BY <2>1
    <3>2. parse_packet(s, e, p) = f[n]
      BY <2>1, <3>1
    <3>3. s.raised = "no" /\ Took(s, f[n], e, p.number)
      BY <3>2, ParseFits
    <3> QED
      BY <3>1, <3>3
  <2>3. Handled(st, f[n - 1], e, ps, n - 1, count)
    BY <1>5, <2>2
  <2>4. /\ \A j \in 1 .. Len(ps) : ps[j].number \in 1 .. count
        /\ \A i, j \in 1 .. Len(ps) : i < j => ps[i].number < ps[j].number
    BY DEF Ordered
  <2>5. PICK s, t : s = f[n - 1] /\ t = f[n]
    OBVIOUS
  <2>6. Handled(st, t, e, ps, n, count)
    BY ONLY <1>1, <2>1, <2>2, <2>3, <2>4, <2>5, st \in Outcome, e \in Ends, count \in Nat,
            n \in 1 .. Len(ps), HandledOne
  <2> QED
    BY <2>5, <2>6
<1> HIDE DEF Good
<1>6. Bad = {}
  <2> SUFFICES ASSUME Bad # {} PROVE FALSE
    OBVIOUS
  <2>1. Bad \subseteq Nat
    OBVIOUS
  <2>2. PICK m \in Bad : \A k \in Bad : m <= k
    <3> HIDE DEF Bad
    <3> QED
      BY <2>1, LeastNumber
  <2>3. m \in 1 .. Len(ps) /\ m - 1 \in 0 .. Len(ps) /\ m - 1 \notin Bad
    BY <1>1, <1>4, <2>2
  <2> QED
    BY <1>5, <2>2, <2>3
<1>7. Len(ps) \in 0 .. Len(ps)
  BY <1>1
<1>8. Handled(st, r, e, ps, Len(ps), count)
  BY <1>2, <1>6, <1>7 DEF Good
<1> QED
  BY <1>1, <1>3, <1>8, HandledAll

\* Until an exception the SSH proxy keeps or hands on all packets, and keeps none from a
\* guest that has a login.
SshInv ==
  protocol = "ssh" /\ dropped = "no" =>
    /\ \A e \in Ends : Ordered(packets[e], passed[e], kept[e], delayed[e])
    /\ authDone => backendConnected /\ delayed["frontend"] = << >>

\* It keeps what is not for the other end.
KeepInv == kept \in Keeping /\ \A e \in Ends : delayed[e] \in Seq(Sent(e))

\* The Telnet proxy leaves packets out, and hands the buffered ones on first.
TelnetInv ==
  protocol = "telnet" /\ dropped = "no" =>
    /\ Relayed!HandedOn(passed["frontend"] \o backend_buffer, 2 * packets["frontend"])
    /\ Relayed!HandedOn(passed["backend"], 2 * packets["backend"])

\* Prompts are found in packets.
PromptBound == \A s \in Sorts : prompts[s] <= packets["backend"]

\* The inductive invariant of both proxies.
IInv == TypeOK /\ PromptInv /\ PromptBound /\ KeepInv /\ SshInv /\ TelnetInv

\* What a step of a relay that is not broken does.
Grows ==
  dropped' = "no" =>
    /\ dropped = "no"
    /\ \A e \in Ends : /\ packets[e] <= packets'[e]
                        /\ Relayed!Extends(passed'[e], passed[e])

\* It holds of a connection that was just made.
LEMMA IInit == Init => IInv
<1> SUFFICES ASSUME Init PROVE IInv
  OBVIOUS
<1>0. /\ << >> \in Seq(1 .. Writes(MaxPackets)) /\ << >> \in Seq(Packet) /\ << >> \in Seq(Channel)
      /\ 0 \in 0 .. MaxPackets
  BY PacketsAssumption
<1>1. SessionTypeOK
  <2>1. packets \in [Ends -> 0 .. MaxPackets] /\ passed \in [Ends -> Seq(1 .. Writes(MaxPackets))]
    BY <1>0 DEF Init, ConnectionMade
  <2>2. front \in FrontStates /\ protocol \in Protocols
    BY DEF Init, ConnectionMade, Protocols, FrontStates
  <2>3. pool \in PoolStates /\ back \in BackStates
    BY DEF Init, ConnectionMade, PoolStates, BackStates
  <2>4. settings \subseteq Options(protocol)
    BY DEF Init, ConnectionMade
  <2> QED
    BY <2>1, <2>2, <2>3, <2>4 DEF Init, ConnectionMade, SessionTypeOK, Causes
<1>2. SshTypeOK
  BY <1>0 DEF Init, SshStart, SshTypeOK
<1>3. TelnetTypeOK
  BY <1>0 DEF Init, TelnetStart, TelnetTypeOK
<1>4. PromptInv
  BY DEF Init, TelnetStart, PromptInv
<1>5. PromptBound
  BY DEF Init, ConnectionMade, TelnetStart, PromptBound, Ends
<1>6. /\ packets = [e \in Ends |-> 0] /\ passed = [e \in Ends |-> << >>] /\ ~ authDone
      /\ delayed = [e \in Ends |-> << >>] /\ backend_buffer = << >>
      /\ kept = [e \in Ends |-> {}]
  BY DEF Init, ConnectionMade, SshStart, TelnetStart
<1>7. SshInv
  <2>1. Len(<< >>) = 0 /\ 1 .. 0 = {} /\ Range(<< >>) = {}
    BY DEF Range
  <2>2. Ordered(0, << >>, {}, << >>)
    BY <2>1 DEF Ordered, Relayed!HandedOn
  <2> QED
    BY <1>6, <2>2 DEF SshInv
<1>9. KeepInv
  <2>1. \A e \in Ends : << >> \in Seq(Sent(e))
    OBVIOUS
  <2> QED
    BY <1>6, <2>1 DEF KeepInv, Keeping
<1>8. TelnetInv
  <2>1. passed["frontend"] = << >> /\ passed["backend"] = << >>
    BY <1>6 DEF Ends
  <2>2. << >> \o << >> = << >> /\ Len(<< >>) = 0
    OBVIOUS
  <2> QED
    BY <1>6, <2>1, <2>2 DEF TelnetInv, Relayed!HandedOn
<1> QED
  BY <1>1, <1>2, <1>3, <1>4, <1>5, <1>7, <1>8, <1>9 DEF IInv, TypeOK

\* Steps that move no packet.
LEMMA StillGrows ==
  ASSUME IInv, UNCHANGED traffic
  PROVE  Grows
<1>1. \A e \in Ends : Relayed!Extends(passed[e], passed[e]) /\ packets[e] \in Nat
  BY DEF IInv, TypeOK, SessionTypeOK, Relayed!Extends
<1> QED
  BY <1>1 DEF traffic, Grows

\* What both proxies have in common moves no packet.
LEMMA SessionStep ==
  ASSUME IInv, SessionNext, UNCHANGED <<traffic, sshvars, telnetvars>>
  PROVE  IInv' /\ Grows
<1>1. UNCHANGED <<protocol, settings, authDone, traffic, sshvars, telnetvars>>
  BY DEF SessionNext, PoolConnectionSuccess, PoolConnectionError, PoolRefused, ReceivedPoolData,
         BackendConnectionSuccess, BackendConnectionError, TimeoutConnection,
         FrontConnectionLost, FrontGone, BackendConnectionLost
<1>2. SessionTypeOK'
  <2>1. SessionTypeOK
    BY DEF IInv, TypeOK
  <2>2. /\ front' \in FrontStates /\ pool' \in PoolStates /\ back' \in BackStates
        /\ timer' \in BOOLEAN /\ late' \in BOOLEAN /\ freed' \in {"no", "clean", "dirty"}
    <3> USE <2>1 DEF SessionTypeOK, LoseFront, LoseBack, Alive, FrontStates, PoolStates, BackStates
    <3>1. CASE PoolConnectionSuccess \/ PoolConnectionError \/ PoolRefused \/ ReceivedPoolData
      BY <3>1 DEF PoolConnectionSuccess, PoolConnectionError, PoolRefused, ReceivedPoolData
    <3>2. CASE BackendConnectionSuccess \/ BackendConnectionError
      BY <3>2 DEF BackendConnectionSuccess, BackendConnectionError
    <3>3. CASE TimeoutConnection \/ BackendConnectionLost
      BY <3>3 DEF TimeoutConnection, BackendConnectionLost
    <3>4. CASE FrontConnectionLost
      BY <3>4 DEF FrontConnectionLost, FrontGone
    <3> QED
      BY ONLY <3>1, <3>2, <3>3, <3>4, SessionNext DEF SessionNext
  <2> QED
    BY <1>1, <2>1, <2>2 DEF SessionTypeOK, Writes, traffic
<1>3. TypeOK'
  BY <1>1, <1>2 DEF IInv, TypeOK, SshTypeOK, TelnetTypeOK, Writes, sshvars, telnetvars
<1>4. PromptInv' /\ PromptBound' /\ SshInv' /\ TelnetInv'
  BY <1>1 DEF IInv, PromptInv, PromptBound, SshInv, TelnetInv, traffic, sshvars, telnetvars
<1>5. KeepInv'
  BY <1>1 DEF IInv, KeepInv, Keeping, Private, sshvars
<1> QED
  BY <1>3, <1>4, <1>5, StillGrows DEF IInv

-----------------------------------------------------------------------------
(* The steps of the SSH proxy.                                             *)

\* They leave the Telnet proxy's variables alone.
LEMMA SshFrame ==
  ASSUME IInv, protocol = "ssh", protocol' = protocol, UNCHANGED telnetvars,
         SessionTypeOK', SshTypeOK', KeepInv', SshInv', packets["backend"] <= packets'["backend"]
  PROVE  IInv'
<1>1. TypeOK'
  BY DEF IInv, TypeOK, TelnetTypeOK, telnetvars, Writes
<1>2. PromptInv' /\ TelnetInv'
  BY DEF IInv, PromptInv, TelnetInv, telnetvars
<1>3. PromptBound'
  <2> SUFFICES ASSUME NEW s \in Sorts PROVE prompts[s] <= packets'["backend"]
    BY DEF PromptBound, telnetvars
  <2>1. prompts[s] \in Nat /\ prompts[s] <= packets["backend"]
    BY DEF IInv, PromptInv, PromptBound
  <2>2. packets["backend"] \in Nat /\ packets'["backend"] \in Nat
    BY DEF IInv, TypeOK, SessionTypeOK, Ends
  <2> QED
    BY <2>1, <2>2
<1> QED
  BY <1>1, <1>2, <1>3 DEF IInv

\* The packets are parsed in a state of the session that has raised nothing.
LEMMA StateFits ==
  ASSUME IInv, protocol = "ssh"
  PROVE  /\ State \in Outcome /\ State.raised = "no"
         /\ State.passed = passed /\ State.kept = kept
         /\ State.timer = timer /\ State.channels = channels
BY DEF IInv, TypeOK, SessionTypeOK, SshTypeOK, KeepInv, State, Outcome, Causes, Writes

\* What went out keeps its order when one more packet comes.
LEMMA Later ==
  ASSUME NEW n \in Nat, NEW out, Relayed!HandedOn(out, n)
  PROVE  Relayed!HandedOn(out, n + 1)
<1>1. \A k \in 1 .. n : k \in 1 .. n + 1
  OBVIOUS
<1> QED
  BY <1>1 DEF Relayed!HandedOn

\* A packet that is held back is the last one.
LEMMA OrderedHeld ==
  ASSUME NEW n \in Nat, NEW out, NEW mine, NEW held \in Seq(Packet), Ordered(n, out, mine, held),
         NEW q \in Packet, q.number = n + 1
  PROVE  Ordered(n + 1, out, mine, Append(held, q))
<1>0. PICK all, l : all = Append(held, q) /\ l = Len(held)
  OBVIOUS
<1>1. /\ l \in Nat /\ Len(all) = l + 1 /\ all[l + 1] = q
      /\ \A j \in 1 .. l : all[j] = held[j]
  BY <1>0
<1>2. \A j \in 1 .. Len(all) : j = l + 1 \/ j \in 1 .. l
  BY ONLY <1>1
<1>3. l + 1 \in 1 .. Len(all) /\ \A j \in 1 .. l : j \in 1 .. Len(all)
  BY ONLY <1>1
<1>4. /\ Relayed!HandedOn(out, n)
      /\ \A j \in 1 .. l : held[j].number \in 1 .. n
      /\ \A i, j \in 1 .. l : i < j => held[i].number < held[j].number
      /\ \A i \in 1 .. Len(out), j \in 1 .. l : out[i] < held[j].number
      /\ Range(out) \cup {k.number : k \in mine} \cup {held[j].number : j \in 1 .. l} = 1 .. n
  BY <1>0 DEF Ordered
<1>5. /\ 1 .. n + 1 = (1 .. n) \cup {n + 1} /\ n + 1 \in 1 .. n + 1
      /\ \A k \in 1 .. n : k \in 1 .. n + 1 /\ k < n + 1
  OBVIOUS
<1>6. Relayed!HandedOn(out, n + 1)
  BY <1>4, Later
<1>7. \A j \in 1 .. Len(all) : all[j].number \in 1 .. n + 1
  BY <1>1, <1>2, <1>4, <1>5
<1>8. ASSUME NEW i \in 1 .. Len(all), NEW j \in 1 .. Len(all), i < j
      PROVE  all[i].number < all[j].number
  <2>1. i \in 1 .. l
    BY ONLY <1>1, <1>8, i \in 1 .. Len(all), j \in 1 .. Len(all)
  <2>2. CASE j = l + 1
    BY <1>1, <1>4, <1>5, <2>1, <2>2
  <2>3. CASE j \in 1 .. l
    BY <1>1, <1>4, <1>8, <2>1, <2>3
  <2> QED
    BY <1>2, <2>2, <2>3
<1>9. \A i \in 1 .. Len(out), j \in 1 .. Len(all) : out[i] < all[j].number
  <2> SUFFICES ASSUME NEW i \in 1 .. Len(out), NEW j \in 1 .. Len(all) PROVE out[i] < all[j].number
    OBVIOUS
  <2>1. out[i] \in 1 .. n
    BY <1>4 DEF Relayed!HandedOn
  <2>2. CASE j = l + 1
    BY <1>1, <1>5, <2>1, <2>2
  <2>3. CASE j \in 1 .. l
    BY <1>1, <1>4, <2>3
  <2> QED
    BY <1>2, <2>2, <2>3
<1>10. {all[j].number : j \in 1 .. Len(all)} = {held[j].number : j \in 1 .. l} \cup {n + 1}
  <2>1. ASSUME NEW x \in {all[j].number : j \in 1 .. Len(all)}
        PROVE  x \in {held[j].number : j \in 1 .. l} \cup {n + 1}
    BY <1>1, <1>2
  <2>2. ASSUME NEW x \in {held[j].number : j \in 1 .. l} \cup {n + 1}
        PROVE  x \in {all[j].number : j \in 1 .. Len(all)}
    BY <1>1, <1>3
  <2> QED
    BY ONLY <2>1, <2>2
<1>11. Ordered(n + 1, out, mine, all)
  <2>1. Range(out) \cup {k.number : k \in mine} \cup {all[j].number : j \in 1 .. Len(all)} = 1 .. n + 1
    BY ONLY <1>4, <1>5, <1>10
  <2> QED
    BY ONLY <1>6, <1>7, <1>8, <1>9, <2>1 DEF Ordered
<1> QED
  BY <1>0, <1>11

\* One that is kept at once does not disturb those that wait.
LEMMA OrderedKept ==
  ASSUME NEW n \in Nat, NEW out, NEW mine, NEW held, Ordered(n, out, mine, held),
         NEW k, k.number = n + 1
  PROVE  Ordered(n + 1, out, mine \cup {k}, held)
<1>1. 1 .. n + 1 = (1 .. n) \cup {n + 1} /\ \A j \in 1 .. n : j \in 1 .. n + 1
  OBVIOUS
<1>2. Relayed!HandedOn(out, n + 1)
  BY Later DEF Ordered
<1>3. {l.number : l \in mine \cup {k}} = {l.number : l \in mine} \cup {n + 1}
  OBVIOUS
<1> QED
  BY <1>1, <1>2, <1>3 DEF Ordered

\* A packet of a peer has a type, and the next number.
LEMMA LegalFits ==
  ASSUME IInv, NEW e \in Ends, NEW b, NEW p \in Legal(e, b), packets[e] < MaxPackets
  PROVE  Arrives(e, p) \in Sent(e) /\ Arrives(e, p).number = packets[e] + 1
<1>1. \A c \in Listed : NumberedBy(c, e) \in ChannelIds \cup {None}
  <2>1. channels \in Seq(Channel)
    BY DEF IInv, TypeOK, SshTypeOK
  <2>2. \A c \in Channel : NumberedBy(c, e) \in ChannelIds \cup {None}
    BY DEF NumberedBy, Channel
  <2>3. Listed \subseteq Channel
    BY <2>1 DEF Listed, Range
  <2> QED
    BY <2>2, <2>3
<1>2. \A cs, kinds : cs \subseteq Listed /\ kinds \subseteq Kinds =>
        \A q \in About(cs, e, kinds) :
          q.kind \in kinds /\ q.chan \in ChannelIds \cup {None} /\ q.peer = None
  BY <1>1 DEF About
<1>3. Unanswered(e) \subseteq Listed /\ Usable(e) \subseteq Listed /\ FreeNumbers(e) \subseteq ChannelIds
  BY DEF Unanswered, Usable, FreeNumbers
<1> DEFINE ignored  == {Bare("ignore")}
           refused  == About(Unanswered(e), e, {"open failure"})
           used     == About(Usable(e), e, {"other request", "close"})
           fed      == About({c \in Usable(e) : c.session}, e, {"data"})
           asked    == About(Usable(e), e, {"session request", "sftp request"})
           forward  == {Bare("tcpip-forward")}
           answered == {Bare("userauth")}
           Typed(q) == /\ q.kind \in Kinds /\ q.chan \in ChannelIds \cup {None}
                       /\ q.peer \in ChannelIds \cup {None}
                       /\ q.kind = "userauth" => e = "backend"
                       /\ q.kind = "sftp request" => e = "frontend"
<1>4. \/ p \in ignored \cup Opens(e) \cup Confirms(e) \cup refused \cup used \cup fed
      \/ e = "backend" /\ p \in answered
      \/ e = "frontend" /\ p \in asked \cup forward
  BY DEF Legal, Ends
<1>a. Typed(p)
  <2>1. CASE p \in ignored \cup forward
    <3>1. None \in ChannelIds \cup {None} /\ {"tcpip-forward", "ignore"} \subseteq Kinds
      BY DEF Kinds
    <3>2. p.kind \in {"tcpip-forward", "ignore"} /\ p.chan = None /\ p.peer = None
      BY <2>1 DEF Bare
    <3> QED
      BY ONLY <3>1, <3>2
  <2>2. CASE p \in Opens(e)
    <3>1. PICK k \in Openers(e), i \in FreeNumbers(e) :
            p = [kind |-> k, chan |-> i, peer |-> None]
      BY <2>2 DEF Opens
    <3>2. p.kind = k /\ p.chan = i /\ p.peer = None
      BY <3>1
    <3>3. i \in ChannelIds /\ k \in Kinds
      BY <1>3 DEF Kinds, Openers
    <3>4. k # "userauth" /\ k # "sftp request"
      BY DEF Openers
    <3> QED
      BY ONLY <3>2, <3>3, <3>4
  <2>3. CASE p \in Confirms(e)
    <3>1. PICK c \in Unanswered(e), i \in FreeNumbers(e) :
            p = [kind |-> "confirm", chan |-> NumberedBy(c, e), peer |-> i]
      BY <2>3 DEF Confirms
    <3>2. p.kind = "confirm" /\ p.chan = NumberedBy(c, e) /\ p.peer = i
      BY <3>1
    <3>3. i \in ChannelIds /\ "confirm" \in Kinds /\ NumberedBy(c, e) \in ChannelIds \cup {None}
      BY <1>1, <1>3 DEF Kinds
    <3> QED
      BY ONLY <3>2, <3>3
  <2>4. CASE p \in refused
    <3>1. {"open failure"} \subseteq Kinds
      BY DEF Kinds
    <3>2. p.kind \in {"open failure"} /\ p.chan \in ChannelIds \cup {None} /\ p.peer = None
      BY <1>2, <1>3, <2>4, <3>1
    <3>3. None \in ChannelIds \cup {None}
      OBVIOUS
    <3> QED
      BY ONLY <3>1, <3>2, <3>3
  <2>5. CASE p \in used
    <3>1. {"other request", "close"} \subseteq Kinds
      BY DEF Kinds
    <3>2. p.kind \in {"other request", "close"} /\ p.chan \in ChannelIds \cup {None} /\ p.peer = None
      BY <1>2, <1>3, <2>5, <3>1
    <3>3. None \in ChannelIds \cup {None}
      OBVIOUS
    <3> QED
      BY ONLY <3>1, <3>2, <3>3
  <2>6. CASE p \in fed
    <3>1. {"data"} \subseteq Kinds /\ {c \in Usable(e) : c.session} \subseteq Listed
      BY <1>3 DEF Kinds
    <3>2. p.kind \in {"data"} /\ p.chan \in ChannelIds \cup {None} /\ p.peer = None
      BY <1>2, <1>3, <2>6, <3>1
    <3>3. None \in ChannelIds \cup {None}
      OBVIOUS
    <3> QED
      BY ONLY <3>1, <3>2, <3>3
  <2>7. CASE e = "frontend" /\ p \in asked
    <3>1. {"session request", "sftp request"} \subseteq Kinds
      BY DEF Kinds
    <3>2. p.kind \in {"session request", "sftp request"} /\ p.chan \in ChannelIds \cup {None} /\ p.peer = None
      BY <1>2, <1>3, <2>7, <3>1
    <3>3. None \in ChannelIds \cup {None}
      OBVIOUS
    <3> QED
      BY ONLY <2>7, <3>1, <3>2, <3>3
  <2>8. CASE e = "backend" /\ p \in answered
    <3>1. "userauth" \in Kinds /\ None \in ChannelIds \cup {None}
      BY DEF Kinds
    <3>2. p.kind = "userauth" /\ p.chan = None /\ p.peer = None
      BY <2>8 DEF Bare
    <3> QED
      BY ONLY <2>8, <3>1, <3>2
  <2> HIDE DEF ignored, refused, used, fed, asked, forward, answered, Typed
  <2> QED
    BY <1>4, <2>1, <2>2, <2>3, <2>4, <2>5, <2>6, <2>7, <2>8
<1>5. packets[e] + 1 \in 1 .. MaxPackets
  BY PacketsAssumption DEF IInv, TypeOK, SessionTypeOK
<1> QED
  BY <1>5, <1>a DEF Arrives, Packet, Sent

-----------------------------------------------------------------------------
(* The steps of the SSH proxy that handle packets.                         *)

\* The packets that each end is kept waiting for.
Held(d) == d \in [Ends -> Seq(Packet)] /\ \A e \in Ends : d[e] \in Seq(Sent(e))

LEMMA SshTypes ==
  ASSUME IInv, protocol = "ssh"
  PROVE  /\ channels \in Seq(Channel) /\ passed \in [Ends -> Seq(1 .. MaxPackets)]
         /\ kept \in Keeping /\ Held(delayed) /\ packets \in [Ends -> 0 .. MaxPackets]
         /\ timer \in BOOLEAN /\ authDone \in BOOLEAN /\ late \in BOOLEAN
         /\ backendConnected \in BOOLEAN /\ canAuth \in BOOLEAN /\ frontendAuthenticated \in BOOLEAN
         /\ front \in FrontStates /\ back \in BackStates /\ pool \in PoolStates
         /\ freed \in {"no", "clean", "dirty"} /\ dropped \in Causes
BY DEF IInv, TypeOK, SessionTypeOK, SshTypeOK, KeepInv, Held, Writes

\* If they keep their types, so do the variables of the SSH proxy.
LEMMA SshTyped ==
  ASSUME IInv, protocol = "ssh", UNCHANGED <<protocol, settings, late>>,
         channels' \in Seq(Channel), passed' \in [Ends -> Seq(1 .. MaxPackets)],
         kept' \in Keeping, Held(delayed'), packets' \in [Ends -> 0 .. MaxPackets],
         timer' \in BOOLEAN, authDone' \in BOOLEAN, backendConnected' \in BOOLEAN,
         canAuth' \in BOOLEAN, frontendAuthenticated' \in BOOLEAN,
         front' \in FrontStates, back' \in BackStates, pool' \in PoolStates,
         freed' \in {"no", "clean", "dirty"}, dropped' \in Causes
  PROVE  SessionTypeOK' /\ SshTypeOK' /\ KeepInv'
<1>1. SessionTypeOK'
  BY DEF IInv, TypeOK, SessionTypeOK, Writes
<1>2. kept' \in [Ends -> SUBSET [kind : Kinds, number : 1 .. MaxPackets]]
  BY DEF Keeping
<1>3. SshTypeOK'
  BY <1>2 DEF SshTypeOK, Held
<1>4. KeepInv'
  <2>1. Keeping' = Keeping
    BY DEF Keeping, Private
  <2>2. \A e : Sent(e)' = Sent(e)
    BY DEF Sent
  <2> QED
    BY <2>1, <2>2 DEF KeepInv, Held
<1> QED
  BY <1>1, <1>3, <1>4

\* What was handled since leaves behind all that went out before.
LEMMA SinceExtends ==
  ASSUME NEW old \in Outcome, NEW new, NEW e \in Ends, Since(old, new, e)
  PROVE  \A d \in Ends : Relayed!Extends(new.passed[d], old.passed[d])
<1>1. \A d \in Ends : old.passed[d] \in Seq(1 .. MaxPackets)
  BY DEF Outcome
<1>2. \A d \in Ends : Relayed!Extends(old.passed[d], old.passed[d])
  BY <1>1 DEF Relayed!Extends
<1> QED
  BY <1>2 DEF Since

\* Nothing held back is what is held back after a flush.
LEMMA HeldNone ==
  ASSUME NEW d, Held(d), NEW e \in Ends, NEW n, n = [d EXCEPT ![e] = << >>]
  PROVE  Held(n) /\ n[e] = << >> /\ \A o \in Ends \ {e} : n[o] = d[o]
BY DEF Held

\* One more is held back.
LEMMA HeldMore ==
  ASSUME NEW d, Held(d), NEW e \in Ends, NEW q \in Sent(e), NEW s, s = Append(d[e], q)
  PROVE  /\ s \in Seq(Sent(e)) /\ s \in Seq(Packet)
         /\ \A n : n = [d EXCEPT ![e] = s] =>
              Held(n) /\ n[e] = s /\ \A o \in Ends \ {e} : n[o] = d[o]
<1>1. s \in Seq(Sent(e)) /\ s \in Seq(Packet)
  <2>1. d[e] \in Seq(Sent(e))
    BY DEF Held
  <2>2. s \in Seq(Sent(e))
    BY <2>1
  <2> QED
    BY <2>2, SentArePackets
<1> QED
  BY <1>1 DEF Held

\* All packets in ps, of end e, are read: what follows from it for both ends.
LEMMA ReadAll ==
  ASSUME IInv, protocol = "ssh", NEW e \in Ends, NEW ps \in Seq(Sent(e)),
         NEW count \in [Ends -> Nat], NEW r \in Outcome, r.raised = "no",
         Since(State, r, e), Ordered(count[e], r.passed[e], r.kept[e], << >>),
         NEW d, Held(d), d[e] = << >>, \A o \in Ends \ {e} : d[o] = delayed[o],
         \A o \in Ends \ {e} : count[o] = packets[o], dropped = "no"
  PROVE  \A o \in Ends : /\ Ordered(count[o], r.passed[o], r.kept[o], d[o])
                         /\ Relayed!Extends(r.passed[o], passed[o])
<1>1. State \in Outcome /\ State.passed = passed /\ State.kept = kept
  BY StateFits
<1>2. \A o \in Ends : Ordered(packets[o], passed[o], kept[o], delayed[o])
  BY DEF IInv, SshInv
<1>3. \A o \in Ends : Relayed!Extends(r.passed[o], passed[o])
  BY <1>1, SinceExtends
<1>4. \A o \in Ends \ {e} : r.passed[o] = passed[o] /\ r.kept[o] = kept[o]
  BY <1>1 DEF Since
<1>5. ASSUME NEW o \in Ends PROVE Ordered(count[o], r.passed[o], r.kept[o], d[o])
  <2>1. CASE o = e
    BY <2>1
  <2>2. CASE o # e
    BY <1>2, <1>4, <2>2
  <2> QED
    BY <2>1, <2>2
<1> QED
  BY <1>3, <1>5

\* The flush at a login, or none: what it leaves has its types, and if it did not
\* raise, all that was held back of the attacker's packets went out or was kept.
LEMMA FlushStep ==
  ASSUME IInv, protocol = "ssh", NEW a, NEW b, authenticateBackend(a, b), packets' = packets
  PROVE  /\ channels' \in Seq(Channel) /\ passed' \in [Ends -> Seq(1 .. MaxPackets)]
         /\ kept' \in Keeping /\ Held(delayed')
         /\ timer' \in BOOLEAN /\ authDone' \in BOOLEAN /\ backendConnected' \in BOOLEAN
         /\ dropped' \in Causes
         /\ dropped' = "no" =>
              /\ dropped = "no"
              /\ \A e \in Ends : /\ Ordered(packets[e], passed'[e], kept'[e], delayed'[e])
                                  /\ Relayed!Extends(passed'[e], passed[e])
              /\ authDone' => backendConnected' /\ delayed'["frontend"] = << >>
<1>1. /\ channels \in Seq(Channel) /\ passed \in [Ends -> Seq(1 .. MaxPackets)]
      /\ kept \in Keeping /\ Held(delayed)
      /\ timer \in BOOLEAN /\ authDone \in BOOLEAN /\ backendConnected \in BOOLEAN
      /\ dropped \in Causes /\ packets \in [Ends -> Nat]
  BY SshTypes
<1>2. dropped = "no" => /\ \A e \in Ends : Ordered(packets[e], passed[e], kept[e], delayed[e])
                        /\ authDone => backendConnected /\ delayed["frontend"] = << >>
  BY DEF IInv, SshInv
<1>3. "frontend" \in Ends
  BY DEF Ends
<1>4. CASE ~ (a /\ b)
  <2>1. UNCHANGED <<backendConnected, channels, passed, kept, timer, authDone, delayed, dropped>>
    BY <1>4 DEF authenticateBackend
  <2>2. \A e \in Ends : Relayed!Extends(passed[e], passed[e])
    BY <1>1 DEF Relayed!Extends
  <2> QED
    BY <1>1, <1>2, <2>1, <2>2
<1>5. CASE a /\ b
  <2>1. PICK st : st = parse_all(State, "frontend", delayed["frontend"])
    OBVIOUS
  <2>2. /\ backendConnected' = TRUE /\ channels' = st.channels /\ passed' = st.passed
        /\ kept' = st.kept
        /\ timer' = st.timer /\ dropped' = IF dropped = "no" THEN st.raised ELSE dropped
        /\ IF st.raised = "no"
           THEN authDone' = TRUE /\ delayed' = [delayed EXCEPT !["frontend"] = << >>]
           ELSE UNCHANGED <<authDone, delayed>>
    BY <1>5, <2>1 DEF authenticateBackend, Keep, Note
  <2>3. delayed["frontend"] \in Seq(Sent("frontend"))
    BY <1>1, <1>3 DEF Held
  <2>4. /\ st \in Outcome
        /\ \A count \in Nat :
             st.raised = "no" /\ Ordered(count, passed["frontend"], kept["frontend"], delayed["frontend"]) =>
               /\ Since(State, st, "frontend")
               /\ Ordered(count, st.passed["frontend"], st.kept["frontend"], << >>)
    <3>1. State \in Outcome /\ State.passed = passed /\ State.kept = kept
      BY StateFits
    <3>2. PICK s \in Outcome : s = State
      BY <3>1
    <3> QED
      BY <1>3, <2>1, <2>3, <3>1, <3>2, ParseAllFits
  <2>5. /\ st.channels \in Seq(Channel) /\ st.passed \in [Ends -> Seq(1 .. MaxPackets)]
        /\ st.kept \in Keeping /\ st.timer \in BOOLEAN /\ st.raised \in Causes
    BY <2>4 DEF Outcome
  <2>6. Held(delayed') /\ authDone' \in BOOLEAN
    <3>1. PICK d, n : d = delayed /\ n = [d EXCEPT !["frontend"] = << >>]
      OBVIOUS
    <3>2. Held(n)
      BY <1>1, <1>3, <3>1, HeldNone
    <3> QED
      BY <1>1, <2>2, <3>1, <3>2
  <2>7. ASSUME dropped' = "no"
        PROVE  /\ dropped = "no"
               /\ \A e \in Ends : /\ Ordered(packets[e], passed'[e], kept'[e], delayed'[e])
                                   /\ Relayed!Extends(passed'[e], passed[e])
               /\ delayed'["frontend"] = << >>
    <3>1. /\ dropped = "no" /\ st.raised = "no" /\ passed' = st.passed /\ kept' = st.kept
          /\ delayed' = [delayed EXCEPT !["frontend"] = << >>]
      BY <2>2, <2>7
    <3>2. PICK d, c : d = delayed' /\ c = delayed
      OBVIOUS
    <3>3. /\ Held(d) /\ d["frontend"] = << >>
          /\ \A o \in Ends \ {"frontend"} : d[o] = delayed[o]
      <4>1. PICK e \in Ends : e = "frontend"
        BY <1>3
      <4>2. Held(c) /\ d = [c EXCEPT ![e] = << >>]
        BY <1>1, <3>1, <3>2, <4>1
      <4>3. Held(d) /\ d[e] = << >> /\ \A o \in Ends \ {e} : d[o] = c[o]
        BY ONLY <4>2, e \in Ends DEF Held
      <4> QED
        BY <3>2, <4>1, <4>3
    <3>4. /\ Since(State, st, "frontend")
          /\ Ordered(packets["frontend"], st.passed["frontend"], st.kept["frontend"], << >>)
      BY <1>1, <1>2, <1>3, <2>4, <3>1
    <3>5. \A e \in Ends : /\ Ordered(packets[e], st.passed[e], st.kept[e], d[e])
                          /\ Relayed!Extends(st.passed[e], passed[e])
      BY <1>1, <1>3, <2>3, <2>4, <3>1, <3>3, <3>4, ReadAll
    <3> QED
      BY <3>1, <3>2, <3>3, <3>5
  <2> QED
    BY <1>1, <2>2, <2>5, <2>6, <2>7
<1> QED
  BY <1>4, <1>5

\* A login of the attacker, which may flush what was held back.
LEMMA UserauthStep ==
  ASSUME IInv, protocol = "ssh", NEW granted \in BOOLEAN, Userauth(granted), UNCHANGED telnetvars
  PROVE  IInv' /\ Grows
<1>1. /\ UNCHANGED <<protocol, settings, front, pool, back, freed, late, canAuth, packets>>
      /\ frontendAuthenticated' = granted
      /\ authenticateBackend(granted, canAuth /\ back \in {"up", "closing"})
  BY DEF Userauth
<1>2. /\ channels' \in Seq(Channel) /\ passed' \in [Ends -> Seq(1 .. MaxPackets)]
      /\ kept' \in Keeping /\ Held(delayed')
      /\ timer' \in BOOLEAN /\ authDone' \in BOOLEAN /\ backendConnected' \in BOOLEAN
      /\ dropped' \in Causes
      /\ dropped' = "no" =>
           /\ dropped = "no"
           /\ \A e \in Ends : /\ Ordered(packets[e], passed'[e], kept'[e], delayed'[e])
                               /\ Relayed!Extends(passed'[e], passed[e])
           /\ authDone' => backendConnected' /\ delayed'["frontend"] = << >>
  BY <1>1, FlushStep
<1>3. SessionTypeOK' /\ SshTypeOK' /\ KeepInv'
  <2>1. /\ packets' \in [Ends -> 0 .. MaxPackets] /\ canAuth' \in BOOLEAN
        /\ frontendAuthenticated' \in BOOLEAN
        /\ front' \in FrontStates /\ back' \in BackStates /\ pool' \in PoolStates
        /\ freed' \in {"no", "clean", "dirty"}
    BY <1>1, SshTypes
  <2> QED
    BY ONLY <1>1, <1>2, <2>1, IInv, protocol = "ssh", SshTyped
<1>4. SshInv' /\ Grows
  <2>1. \A e \in Ends : packets[e] \in Nat /\ packets'[e] = packets[e]
    BY <1>1, SshTypes
  <2> QED
    BY <1>2, <2>1 DEF SshInv, Grows
<1>5. packets["backend"] <= packets'["backend"]
  BY <1>1, SshTypes DEF Ends
<1> QED
  BY <1>1, <1>3, <1>4, <1>5, SshFrame

\* The guest's connection is encrypted, which may flush what was held back.
LEMMA ConnectionSecureStep ==
  ASSUME IInv, protocol = "ssh", ConnectionSecure, UNCHANGED telnetvars
  PROVE  IInv' /\ Grows
<1>1. /\ UNCHANGED <<protocol, settings, late, frontendAuthenticated, packets>>
      /\ canAuth' = TRUE
      /\ UNCHANGED <<front, back, pool, freed>> \/ BackendGone
      /\ authenticateBackend(frontendAuthenticated, TRUE)
  BY DEF ConnectionSecure
<1>2. /\ channels' \in Seq(Channel) /\ passed' \in [Ends -> Seq(1 .. MaxPackets)]
      /\ kept' \in Keeping /\ Held(delayed')
      /\ timer' \in BOOLEAN /\ authDone' \in BOOLEAN /\ backendConnected' \in BOOLEAN
      /\ dropped' \in Causes
      /\ dropped' = "no" =>
           /\ dropped = "no"
           /\ \A e \in Ends : /\ Ordered(packets[e], passed'[e], kept'[e], delayed'[e])
                               /\ Relayed!Extends(passed'[e], passed[e])
           /\ authDone' => backendConnected' /\ delayed'["frontend"] = << >>
  BY <1>1, FlushStep
<1>3. SessionTypeOK' /\ SshTypeOK' /\ KeepInv'
  <2>1. /\ front' \in FrontStates /\ back' \in BackStates /\ pool' \in PoolStates
        /\ freed' \in {"no", "clean", "dirty"}
    BY <1>1, SshTypes DEF BackendGone, LoseFront, Alive, FrontStates, BackStates
  <2>2. /\ packets' \in [Ends -> 0 .. MaxPackets] /\ canAuth' \in BOOLEAN
        /\ frontendAuthenticated' \in BOOLEAN
    BY <1>1, SshTypes
  <2> QED
    BY ONLY <1>1, <1>2, <2>1, <2>2, IInv, protocol = "ssh", SshTyped
<1>4. SshInv' /\ Grows
  <2>1. \A e \in Ends : packets[e] \in Nat /\ packets'[e] = packets[e]
    BY <1>1, SshTypes
  <2> QED
    BY <1>2, <2>1 DEF SshInv, Grows
<1>5. packets["backend"] <= packets'["backend"]
  BY <1>1, SshTypes DEF Ends
<1> QED
  BY <1>1, <1>3, <1>4, <1>5, SshFrame

\* The attacker's version string.
LEMMA VersionStep ==
  ASSUME IInv, protocol = "ssh", VersionReceived, UNCHANGED telnetvars
  PROVE  IInv' /\ Grows
<1>1. /\ UNCHANGED <<protocol, settings, pool, back, authDone, timer, freed, late>>
      /\ UNCHANGED traffic /\ UNCHANGED sshvars /\ front' \in FrontStates
  BY DEF VersionReceived, FrontStates
<1>2. SessionTypeOK' /\ SshTypeOK'
  BY <1>1 DEF IInv, TypeOK, SessionTypeOK, SshTypeOK, Writes, traffic, sshvars
<1>3. SshInv' /\ KeepInv'
  BY <1>1 DEF IInv, SshInv, KeepInv, Keeping, Private, traffic, sshvars
<1>4. packets["backend"] <= packets'["backend"]
  BY <1>1 DEF IInv, TypeOK, SessionTypeOK, traffic, Ends
<1> QED
  BY <1>1, <1>2, <1>3, <1>4, SshFrame, StillGrows

\* Where a packet that came from e leaves packets, and where the others stay.
LEMMA CountStep ==
  ASSUME IInv, NEW e \in Ends, packets[e] < MaxPackets, packets' = [packets EXCEPT ![e] = @ + 1]
  PROVE  /\ packets' \in [Ends -> 0 .. MaxPackets]
         /\ packets'[e] = packets[e] + 1
         /\ \A d \in Ends : packets[d] <= packets'[d] /\ (d # e => packets'[d] = packets[d])
<1>1. packets \in [Ends -> 0 .. MaxPackets]
  BY DEF IInv, TypeOK, SessionTypeOK
<1>2. packets[e] + 1 \in 0 .. MaxPackets
  BY <1>1, PacketsAssumption
<1>3. packets' \in [Ends -> 0 .. MaxPackets] /\ packets'[e] = packets[e] + 1
  BY <1>1, <1>2
<1>4. ASSUME NEW d \in Ends PROVE packets[d] <= packets'[d] /\ (d # e => packets'[d] = packets[d])
  <2>1. CASE d = e
    BY <1>1, <1>3, <2>1
  <2>2. CASE d # e
    BY <1>1, <1>3, <2>2
  <2> QED
    BY <2>1, <2>2
<1> QED
  BY <1>3, <1>4

\* A packet of the attacker: held back, or read alone.
LEMMA FrontendPacketStep ==
  ASSUME IInv, protocol = "ssh", NEW p \in Legal("frontend", frontendAuthenticated), FrontendPacket(p),
         UNCHANGED telnetvars
  PROVE  IInv' /\ Grows
<1>0. PICK f, q, st : f = "frontend" /\ q = Arrives(f, p) /\ st = parse_packet(State, f, q)
  OBVIOUS
<1>1. /\ packets[f] < MaxPackets /\ packets' = [packets EXCEPT ![f] = @ + 1]
      /\ UNCHANGED <<protocol, settings, authDone, late, frontendAuthenticated, canAuth, backendConnected>>
      /\ \/ /\ ~ backendConnected \/ delayed[f] # << >>
            /\ delayed' = [delayed EXCEPT ![f] = Append(@, q)]
            /\ UNCHANGED <<channels, passed, kept, dropped, timer, front, back, pool, freed>>
         \/ /\ backendConnected /\ delayed[f] = << >> /\ delayed' = delayed
            /\ channels' = st.channels /\ passed' = st.passed /\ kept' = st.kept
            /\ dropped' = IF dropped = "no" THEN st.raised ELSE dropped
            /\ IF st.raised = "no"
               THEN timer' = st.timer /\ UNCHANGED <<front, back, pool, freed>>
               ELSE FrontGone
  BY <1>0 DEF FrontendPacket, Keep, Note
<1>2. /\ channels \in Seq(Channel) /\ passed \in [Ends -> Seq(1 .. MaxPackets)]
      /\ kept \in Keeping /\ Held(delayed) /\ packets \in [Ends -> 0 .. MaxPackets]
      /\ timer \in BOOLEAN /\ authDone \in BOOLEAN /\ late \in BOOLEAN
      /\ backendConnected \in BOOLEAN /\ canAuth \in BOOLEAN /\ frontendAuthenticated \in BOOLEAN
      /\ front \in FrontStates /\ back \in BackStates /\ pool \in PoolStates
      /\ freed \in {"no", "clean", "dirty"} /\ dropped \in Causes
  BY SshTypes
<1>3. f \in Ends /\ "backend" \in Ends /\ q \in Sent(f) /\ q \in Packet /\ q.number = packets[f] + 1
  BY <1>0, <1>1, LegalFits DEF Ends, Sent
<1>4. /\ packets' \in [Ends -> 0 .. MaxPackets] /\ packets'[f] = packets[f] + 1
      /\ \A d \in Ends : packets[d] <= packets'[d] /\ (d # f => packets'[d] = packets[d])
  BY <1>1, <1>3, CountStep
<1>5. dropped = "no" => /\ \A e \in Ends : Ordered(packets[e], passed[e], kept[e], delayed[e])
                        /\ authDone => backendConnected /\ delayed[f] = << >>
  BY <1>0 DEF IInv, SshInv
<1>6. \A e \in Ends : Relayed!Extends(passed[e], passed[e])
  BY <1>2 DEF Relayed!Extends
<1>a. PICK held, all : held = delayed[f] /\ all = Append(held, q)
  OBVIOUS
<1>b. held \in Seq(Packet) /\ all \in Seq(Packet) /\ all \in Seq(Sent(f)) /\ packets[f] \in Nat
  BY <1>2, <1>3, <1>a, HeldMore DEF Held
<1>c. dropped = "no" => Ordered(packets'[f], passed[f], kept[f], all)
  BY <1>3, <1>4, <1>5, <1>a, <1>b, OrderedHeld
<1>7. CASE /\ ~ backendConnected \/ delayed[f] # << >>
           /\ delayed' = [delayed EXCEPT ![f] = Append(@, q)]
           /\ UNCHANGED <<channels, passed, kept, dropped, timer, front, back, pool, freed>>
  <2>1. PICK c, d : c = delayed /\ d = delayed'
    OBVIOUS
  <2>2. Held(d) /\ d[f] = all /\ \A o \in Ends \ {f} : d[o] = delayed[o]
    <3>1. Held(c) /\ d = [c EXCEPT ![f] = all]
      BY <1>2, <1>7, <1>a, <2>1
    <3>2. Held(d) /\ d[f] = all /\ \A o \in Ends \ {f} : d[o] = c[o]
      BY ONLY <1>3, <1>b, <3>1 DEF Held
    <3> QED
      BY <2>1, <3>2
  <2>3. SessionTypeOK' /\ SshTypeOK' /\ KeepInv'
    <3>1. /\ channels' \in Seq(Channel) /\ passed' \in [Ends -> Seq(1 .. MaxPackets)]
          /\ kept' \in Keeping /\ Held(delayed')
          /\ timer' \in BOOLEAN /\ authDone' \in BOOLEAN /\ backendConnected' \in BOOLEAN
          /\ canAuth' \in BOOLEAN /\ frontendAuthenticated' \in BOOLEAN
          /\ front' \in FrontStates /\ back' \in BackStates /\ pool' \in PoolStates
          /\ freed' \in {"no", "clean", "dirty"} /\ dropped' \in Causes
      BY <1>1, <1>2, <1>7, <2>1, <2>2
    <3> QED
      BY ONLY <1>1, <1>4, <3>1, IInv, protocol = "ssh", SshTyped
  <2>4. ASSUME dropped = "no", NEW e \in Ends
        PROVE  Ordered(packets'[e], passed'[e], kept'[e], delayed'[e])
    <3>1. CASE e = f
      BY <1>7, <1>c, <2>1, <2>2, <2>4, <3>1
    <3>2. CASE e # f
      BY <1>4, <1>5, <1>7, <2>1, <2>2, <2>4, <3>2
    <3> QED
      BY <3>1, <3>2
  <2>5. SshInv' /\ Grows
    BY <1>0, <1>1, <1>4, <1>5, <1>6, <1>7, <2>4 DEF SshInv, Grows
  <2> QED
    BY <1>1, <1>3, <1>4, <2>3, <2>5, SshFrame
<1>8. CASE /\ backendConnected /\ delayed[f] = << >> /\ delayed' = delayed
           /\ channels' = st.channels /\ passed' = st.passed /\ kept' = st.kept
           /\ dropped' = IF dropped = "no" THEN st.raised ELSE dropped
           /\ IF st.raised = "no"
              THEN timer' = st.timer /\ UNCHANGED <<front, back, pool, freed>>
              ELSE FrontGone
  <2>1. PICK s \in Outcome : s = State /\ s.passed = passed /\ s.kept = kept
    BY StateFits
  <2>2. st \in Outcome /\ (st.raised = "no" => Took(s, st, f, q.number))
    BY <1>0, <1>3, <2>1, ParseFits
  <2>3. /\ st.channels \in Seq(Channel) /\ st.passed \in [Ends -> Seq(1 .. MaxPackets)]
        /\ st.kept \in Keeping /\ st.timer \in BOOLEAN /\ st.raised \in Causes
    BY <2>2 DEF Outcome
  <2>4. SessionTypeOK' /\ SshTypeOK' /\ KeepInv'
    <3>1. /\ timer' \in BOOLEAN /\ front' \in FrontStates /\ back' \in BackStates
          /\ pool' \in PoolStates /\ freed' \in {"no", "clean", "dirty"} /\ dropped' \in Causes
      BY <1>2, <1>8, <2>3 DEF FrontGone, LoseBack, FrontStates, BackStates, PoolStates
    <3>2. /\ channels' \in Seq(Channel) /\ passed' \in [Ends -> Seq(1 .. MaxPackets)]
          /\ kept' \in Keeping /\ Held(delayed')
          /\ authDone' \in BOOLEAN /\ backendConnected' \in BOOLEAN
          /\ canAuth' \in BOOLEAN /\ frontendAuthenticated' \in BOOLEAN
      BY <1>1, <1>2, <1>8, <2>3
    <3> QED
      BY ONLY <1>1, <1>4, <3>1, <3>2, IInv, protocol = "ssh", SshTyped
  <2>5. ASSUME dropped' = "no"
        PROVE  /\ dropped = "no"
               /\ \A e \in Ends : /\ Ordered(packets'[e], passed'[e], kept'[e], delayed'[e])
                                   /\ Relayed!Extends(passed'[e], passed[e])
    <3>1. dropped = "no" /\ st.raised = "no" /\ Took(s, st, f, q.number)
      BY <1>8, <2>2, <2>5
    <3>2. /\ Len(all) = 1 /\ all[1] = q
      BY <1>8, <1>a
    <3>3. PICK count : count = packets'
      OBVIOUS
    <3>4. Ordered(count[f], s.passed[f], s.kept[f], all) /\ count \in [Ends -> Nat]
      BY <1>4, <1>c, <2>1, <3>1, <3>3
    <3>5. Since(s, st, f) /\ Ordered(count[f], st.passed[f], st.kept[f], << >>)
      <4>1. Handled(s, s, f, all, 0, count[f])
        BY <1>3, <1>b, <2>1, <3>4, HandledNone
      <4>2. /\ \A j \in 1 .. Len(all) : all[j].number \in 1 .. count[f]
            /\ \A i, j \in 1 .. Len(all) : i < j => all[i].number < all[j].number
        BY <3>4 DEF Ordered
      <4>3. 1 \in 1 .. Len(all) /\ 1 - 1 = 0 /\ count[f] \in Nat
        BY <1>3, <3>2, <3>4
      <4>4. Took(s, st, f, all[1].number) /\ Handled(s, s, f, all, 1 - 1, count[f])
        BY <3>1, <3>2, <4>1, <4>3
      <4>5. Handled(s, st, f, all, 1, count[f])
        BY ONLY <1>3, <1>b, <2>1, <2>2, <4>2, <4>3, <4>4, s \in Outcome, HandledOne
      <4> QED
        BY ONLY <1>3, <1>b, <2>2, <3>2, <3>4, <4>5, s \in Outcome, HandledAll
    <3>6. \A e \in Ends : /\ Ordered(count[e], st.passed[e], st.kept[e], delayed[e])
                          /\ Relayed!Extends(st.passed[e], passed[e])
      <4>1. PICK d : d = delayed
        OBVIOUS
      <4>2. Held(d) /\ d[f] = << >> /\ \A o \in Ends \ {f} : d[o] = delayed[o]
        BY <1>2, <1>8, <4>1
      <4>3. \A o \in Ends \ {f} : count[o] = packets[o]
        BY <1>4, <3>3
      <4>4. \A e \in Ends : /\ Ordered(count[e], st.passed[e], st.kept[e], d[e])
                            /\ Relayed!Extends(st.passed[e], passed[e])
        BY <1>3, <1>b, <2>1, <2>2, <3>1, <3>4, <3>5, <4>2, <4>3, ReadAll
      <4> QED
        BY <4>1, <4>4
    <3> QED
      BY <1>8, <3>1, <3>3, <3>6
  <2>6. SshInv' /\ Grows
    BY <1>0, <1>1, <1>4, <1>5, <1>8, <2>5 DEF SshInv, Grows
  <2> QED
    BY <1>1, <1>3, <1>4, <2>4, <2>6, SshFrame
<1> QED
  BY <1>1, <1>7, <1>8

\* A packet of the guest: held back, or read behind those that were.
LEMMA BackendPacketStep ==
  ASSUME IInv, protocol = "ssh", NEW p \in Legal("backend", authDone), BackendPacket(p),
         UNCHANGED telnetvars
  PROVE  IInv' /\ Grows
<1>0. PICK b, q, all, st : /\ b = "backend" /\ q = Arrives(b, p) /\ all = Append(delayed[b], q)
                           /\ st = parse_all(State, b, all)
  OBVIOUS
<1>1. /\ packets[b] < MaxPackets /\ packets' = [packets EXCEPT ![b] = @ + 1]
      /\ UNCHANGED <<protocol, settings, authDone, late, frontendAuthenticated, canAuth, backendConnected>>
      /\ \/ /\ delayed' = [delayed EXCEPT ![b] = all]
            /\ UNCHANGED <<channels, passed, kept, dropped, timer, front, back, pool, freed>>
         \/ /\ channels' = st.channels /\ passed' = st.passed /\ kept' = st.kept /\ timer' = st.timer
            /\ dropped' = IF dropped = "no" THEN st.raised ELSE dropped
            /\ IF st.raised = "no"
               THEN delayed' = [delayed EXCEPT ![b] = << >>] /\ UNCHANGED <<front, back, pool, freed>>
               ELSE BackendGone /\ delayed' = delayed
  BY <1>0 DEF BackendPacket, Keep, Note
<1>2. /\ channels \in Seq(Channel) /\ passed \in [Ends -> Seq(1 .. MaxPackets)]
      /\ kept \in Keeping /\ Held(delayed) /\ packets \in [Ends -> 0 .. MaxPackets]
      /\ timer \in BOOLEAN /\ authDone \in BOOLEAN /\ late \in BOOLEAN
      /\ backendConnected \in BOOLEAN /\ canAuth \in BOOLEAN /\ frontendAuthenticated \in BOOLEAN
      /\ front \in FrontStates /\ back \in BackStates /\ pool \in PoolStates
      /\ freed \in {"no", "clean", "dirty"} /\ dropped \in Causes
  BY SshTypes
<1>3. /\ b \in Ends /\ "frontend" \in Ends /\ "frontend" # b
      /\ q \in Sent(b) /\ q \in Packet /\ q.number = packets[b] + 1
  BY <1>0, <1>1, LegalFits DEF Ends, Sent
<1>4. /\ packets' \in [Ends -> 0 .. MaxPackets] /\ packets'[b] = packets[b] + 1
      /\ \A d \in Ends : packets[d] <= packets'[d] /\ (d # b => packets'[d] = packets[d])
  BY <1>1, <1>3, CountStep
<1>5. dropped = "no" => /\ \A e \in Ends : Ordered(packets[e], passed[e], kept[e], delayed[e])
                        /\ authDone => backendConnected /\ delayed["frontend"] = << >>
  BY DEF IInv, SshInv
<1>6. \A e \in Ends : Relayed!Extends(passed[e], passed[e])
  BY <1>2 DEF Relayed!Extends
<1>b. delayed[b] \in Seq(Packet) /\ all \in Seq(Packet) /\ all \in Seq(Sent(b)) /\ packets[b] \in Nat
  BY <1>0, <1>2, <1>3, HeldMore DEF Held
<1>c. dropped = "no" => Ordered(packets'[b], passed[b], kept[b], all)
  BY <1>0, <1>3, <1>4, <1>5, <1>b, OrderedHeld
<1>7. CASE /\ delayed' = [delayed EXCEPT ![b] = all]
           /\ UNCHANGED <<channels, passed, kept, dropped, timer, front, back, pool, freed>>
  <2>1. PICK c, d : c = delayed /\ d = delayed'
    OBVIOUS
  <2>2. Held(d) /\ d[b] = all /\ \A o \in Ends \ {b} : d[o] = delayed[o]
    <3>1. Held(c) /\ d = [c EXCEPT ![b] = all]
      BY <1>2, <1>7, <2>1
    <3>2. Held(d) /\ d[b] = all /\ \A o \in Ends \ {b} : d[o] = c[o]
      BY ONLY <1>3, <1>b, <3>1 DEF Held
    <3> QED
      BY <2>1, <3>2
  <2>3. SessionTypeOK' /\ SshTypeOK' /\ KeepInv'
    <3>1. /\ channels' \in Seq(Channel) /\ passed' \in [Ends -> Seq(1 .. MaxPackets)]
          /\ kept' \in Keeping /\ Held(delayed')
          /\ timer' \in BOOLEAN /\ authDone' \in BOOLEAN /\ backendConnected' \in BOOLEAN
          /\ canAuth' \in BOOLEAN /\ frontendAuthenticated' \in BOOLEAN
          /\ front' \in FrontStates /\ back' \in BackStates /\ pool' \in PoolStates
          /\ freed' \in {"no", "clean", "dirty"} /\ dropped' \in Causes
      BY <1>1, <1>2, <1>7, <2>1, <2>2
    <3> QED
      BY ONLY <1>1, <1>4, <3>1, IInv, protocol = "ssh", SshTyped
  <2>4. ASSUME dropped = "no", NEW e \in Ends
        PROVE  Ordered(packets'[e], passed'[e], kept'[e], delayed'[e])
    <3>1. CASE e = b
      BY <1>7, <1>c, <2>1, <2>2, <2>4, <3>1
    <3>2. CASE e # b
      BY <1>4, <1>5, <1>7, <2>1, <2>2, <2>4, <3>2
    <3> QED
      BY <3>1, <3>2
  <2>5. authDone' /\ dropped' = "no" => backendConnected' /\ delayed'["frontend"] = << >>
    BY <1>1, <1>3, <1>5, <1>7, <2>1, <2>2
  <2>6. SshInv' /\ Grows
    BY <1>1, <1>4, <1>6, <1>7, <2>4, <2>5 DEF SshInv, Grows
  <2> QED
    BY <1>0, <1>1, <1>3, <1>4, <2>3, <2>6, SshFrame
<1>8. CASE /\ channels' = st.channels /\ passed' = st.passed /\ kept' = st.kept /\ timer' = st.timer
           /\ dropped' = IF dropped = "no" THEN st.raised ELSE dropped
           /\ IF st.raised = "no"
              THEN delayed' = [delayed EXCEPT ![b] = << >>] /\ UNCHANGED <<front, back, pool, freed>>
              ELSE BackendGone /\ delayed' = delayed
  <2>1. PICK s \in Outcome : s = State /\ s.passed = passed /\ s.kept = kept
    BY StateFits
  <2>2. /\ st \in Outcome
        /\ \A count \in Nat : st.raised = "no" /\ Ordered(count, s.passed[b], s.kept[b], all) =>
             Since(s, st, b) /\ Ordered(count, st.passed[b], st.kept[b], << >>)
    BY <1>0, <1>3, <1>b, <2>1, ParseAllFits
  <2>3. /\ st.channels \in Seq(Channel) /\ st.passed \in [Ends -> Seq(1 .. MaxPackets)]
        /\ st.kept \in Keeping /\ st.timer \in BOOLEAN /\ st.raised \in Causes
    BY <2>2 DEF Outcome
  <2>4. PICK c, d : c = delayed /\ d = delayed'
    OBVIOUS
  <2>5. st.raised = "no" => Held(d) /\ d[b] = << >> /\ \A o \in Ends \ {b} : d[o] = delayed[o]
    <3> SUFFICES ASSUME st.raised = "no"
                 PROVE  Held(d) /\ d[b] = << >> /\ \A o \in Ends \ {b} : d[o] = delayed[o]
      OBVIOUS
    <3>1. Held(c) /\ d = [c EXCEPT ![b] = << >>]
      BY <1>2, <1>8, <2>4
    <3>2. Held(d) /\ d[b] = << >> /\ \A o \in Ends \ {b} : d[o] = c[o]
      BY ONLY <1>3, <3>1 DEF Held
    <3> QED
      BY <2>4, <3>2
  <2>6. SessionTypeOK' /\ SshTypeOK' /\ KeepInv'
    <3>1. /\ front' \in FrontStates /\ back' \in BackStates
          /\ pool' \in PoolStates /\ freed' \in {"no", "clean", "dirty"} /\ dropped' \in Causes
      BY <1>2, <1>8, <2>3 DEF BackendGone, LoseFront, Alive, FrontStates, BackStates
    <3>2. /\ channels' \in Seq(Channel) /\ passed' \in [Ends -> Seq(1 .. MaxPackets)]
          /\ kept' \in Keeping /\ Held(delayed') /\ timer' \in BOOLEAN
          /\ authDone' \in BOOLEAN /\ backendConnected' \in BOOLEAN
          /\ canAuth' \in BOOLEAN /\ frontendAuthenticated' \in BOOLEAN
      BY <1>1, <1>2, <1>8, <2>3, <2>4, <2>5
    <3> QED
      BY ONLY <1>1, <1>4, <3>1, <3>2, IInv, protocol = "ssh", SshTyped
  <2>7. ASSUME dropped' = "no"
        PROVE  /\ dropped = "no" /\ delayed'["frontend"] = delayed["frontend"]
               /\ \A e \in Ends : /\ Ordered(packets'[e], passed'[e], kept'[e], delayed'[e])
                                   /\ Relayed!Extends(passed'[e], passed[e])
    <3>1. dropped = "no" /\ st.raised = "no"
      BY <1>8, <2>7
    <3>2. PICK count : count = packets'
      OBVIOUS
    <3>3. count \in [Ends -> Nat] /\ count[b] \in Nat /\ \A o \in Ends \ {b} : count[o] = packets[o]
      BY <1>3, <1>4, <3>2
    <3>4. Since(s, st, b) /\ Ordered(count[b], st.passed[b], st.kept[b], << >>)
      BY <1>c, <2>1, <2>2, <3>1, <3>2, <3>3
    <3>5. Held(d) /\ d[b] = << >> /\ \A o \in Ends \ {b} : d[o] = delayed[o]
      BY <2>5, <3>1
    <3>6. \A e \in Ends : /\ Ordered(count[e], st.passed[e], st.kept[e], d[e])
                          /\ Relayed!Extends(st.passed[e], passed[e])
      BY <1>3, <1>b, <2>1, <2>2, <3>1, <3>3, <3>4, <3>5, ReadAll
    <3> QED
      BY <1>3, <1>8, <2>4, <3>1, <3>2, <3>5, <3>6
  <2>8. SshInv' /\ Grows
    BY <1>1, <1>4, <1>5, <2>7 DEF SshInv, Grows
  <2> QED
    BY <1>0, <1>1, <1>3, <1>4, <2>6, <2>8, SshFrame
<1> QED
  BY <1>1, <1>7, <1>8

\* The guest's answer to the proxy's login goes nowhere, whatever else waits.
LEMMA LoginAcceptedStep ==
  ASSUME IInv, protocol = "ssh", LoginAccepted, UNCHANGED telnetvars
  PROVE  IInv' /\ Grows
<1>0. PICK b, k : b = "backend" /\ k = [kind |-> "userauth", number |-> packets[b] + 1]
  OBVIOUS
<1>1. /\ packets[b] < MaxPackets /\ packets' = [packets EXCEPT ![b] = @ + 1]
      /\ kept' = [kept EXCEPT ![b] = @ \cup {k}]
      /\ UNCHANGED <<protocol, settings, front, pool, back, authDone, timer, freed, late, passed,
                     dropped, frontendAuthenticated, canAuth, backendConnected, delayed, channels>>
  BY <1>0 DEF LoginAccepted, session
<1>2. /\ channels \in Seq(Channel) /\ passed \in [Ends -> Seq(1 .. MaxPackets)]
      /\ kept \in Keeping /\ Held(delayed) /\ packets \in [Ends -> 0 .. MaxPackets]
      /\ timer \in BOOLEAN /\ authDone \in BOOLEAN /\ late \in BOOLEAN
      /\ backendConnected \in BOOLEAN /\ canAuth \in BOOLEAN /\ frontendAuthenticated \in BOOLEAN
      /\ front \in FrontStates /\ back \in BackStates /\ pool \in PoolStates
      /\ freed \in {"no", "clean", "dirty"} /\ dropped \in Causes
  BY SshTypes
<1>3. b \in Ends /\ packets[b] \in Nat /\ packets[b] + 1 \in 1 .. MaxPackets /\ k.number = packets[b] + 1
  BY <1>0, <1>1, <1>2, PacketsAssumption DEF Ends
<1>4. /\ packets' \in [Ends -> 0 .. MaxPackets] /\ packets'[b] = packets[b] + 1
      /\ \A d \in Ends : packets[d] <= packets'[d] /\ (d # b => packets'[d] = packets[d])
  BY <1>1, <1>3, CountStep
<1>5. /\ kept' \in Keeping /\ kept'[b] = kept[b] \cup {k}
      /\ \A o \in Ends \ {b} : kept'[o] = kept[o]
  <2>1. k \in [kind : Kinds, number : 1 .. MaxPackets] /\ k.kind \in Private(b)
    BY <1>0, <1>3 DEF Kinds, Private
  <2>2. PICK c, d : c = kept /\ d = kept'
    OBVIOUS
  <2>3. c \in Keeping /\ d = [c EXCEPT ![b] = @ \cup {k}]
    BY <1>1, <1>2, <2>2
  <2>4. d \in Keeping /\ d[b] = c[b] \cup {k} /\ \A o \in Ends \ {b} : d[o] = c[o]
    BY ONLY <1>3, <2>1, <2>3 DEF Keeping
  <2> QED
    BY <2>2, <2>4
<1>6. SessionTypeOK' /\ SshTypeOK' /\ KeepInv'
  <2>1. /\ channels' \in Seq(Channel) /\ passed' \in [Ends -> Seq(1 .. MaxPackets)] /\ Held(delayed')
        /\ timer' \in BOOLEAN /\ authDone' \in BOOLEAN /\ backendConnected' \in BOOLEAN
        /\ canAuth' \in BOOLEAN /\ frontendAuthenticated' \in BOOLEAN
        /\ front' \in FrontStates /\ back' \in BackStates /\ pool' \in PoolStates
        /\ freed' \in {"no", "clean", "dirty"} /\ dropped' \in Causes
    BY <1>1, <1>2
  <2> QED
    BY ONLY <1>1, <1>4, <1>5, <2>1, IInv, protocol = "ssh", SshTyped
<1>7. SshInv'
  <2> SUFFICES ASSUME dropped = "no"
               PROVE  /\ \A e \in Ends : Ordered(packets'[e], passed[e], kept'[e], delayed[e])
                      /\ authDone => backendConnected /\ delayed["frontend"] = << >>
    BY <1>1 DEF SshInv
  <2>1. /\ \A e \in Ends : Ordered(packets[e], passed[e], kept[e], delayed[e])
        /\ authDone => backendConnected /\ delayed["frontend"] = << >>
    BY DEF IInv, SshInv
  <2>2. Ordered(packets[b] + 1, passed[b], kept[b] \cup {k}, delayed[b])
    BY <1>3, <2>1, OrderedKept
  <2>3. ASSUME NEW e \in Ends PROVE Ordered(packets'[e], passed[e], kept'[e], delayed[e])
    <3>1. CASE e = b
      BY <1>4, <1>5, <2>2, <3>1
    <3>2. CASE e # b
      BY <1>4, <1>5, <2>1, <3>2
    <3> QED
      BY <3>1, <3>2
  <2> QED
    BY <2>1, <2>3
<1>8. Grows
  <2>1. \A e \in Ends : Relayed!Extends(passed[e], passed[e])
    BY <1>2 DEF Relayed!Extends
  <2> QED
    BY <1>1, <1>4, <2>1 DEF Grows
<1> QED
  BY <1>0, <1>1, <1>4, <1>6, <1>7, <1>8, SshFrame DEF Ends

-----------------------------------------------------------------------------
(* The steps of the Telnet proxy.                                          *)

\* The writes of the packet with number n + 1: one or two, or none.
Pieces(n) == {<< >>, << 2 * (n + 1) - 1 >>, << 2 * (n + 1) >>,
              << 2 * (n + 1) - 1 >> \o << 2 * (n + 1) >>}

LEMMA WritesOf ==
  \A n \in Nat : /\ Ahead(n + 1) \in Pieces(n) /\ Main(n + 1) \in Pieces(n)
                 /\ Ahead(n + 1) \o Main(n + 1) \in Pieces(n)
<1> SUFFICES ASSUME NEW n \in Nat
             PROVE  /\ Ahead(n + 1) \in Pieces(n) /\ Main(n + 1) \in Pieces(n)
                    /\ Ahead(n + 1) \o Main(n + 1) \in Pieces(n)
  OBVIOUS
<1>1. PICK b : b = 2 * (n + 1)
  OBVIOUS
<1>2. b \in Nat
  BY <1>1
<1>3. << >> \o << b >> = << b >>
  BY ONLY <1>2
<1> QED
  BY <1>1, <1>3 DEF Ahead, Main, Pieces

\* What goes out in one write, and in two.
LEMMA Sends ==
  ASSUME NEW a \in Nat, NEW b \in Nat, NEW out \in Seq(Nat)
  PROVE  /\ out \o << b >> = Append(out, b)
         /\ out \o (<< a >> \o << b >>) = Append(Append(out, a), b)
<1>1. \A s \in Seq(Nat), c \in Nat : s \o << c >> = Append(s, c)
  OBVIOUS
<1>2. << a >> \in Seq(Nat) /\ << b >> \in Seq(Nat)
  OBVIOUS
<1>3. PICK s : s = << a >> /\ s \in Seq(Nat)
  BY <1>2
<1>4. PICK r : r = << b >> /\ r \in Seq(Nat)
  BY <1>2
<1>5. out \o (s \o r) = (out \o s) \o r
  BY ONLY <1>3, <1>4, out \in Seq(Nat)
<1>6. out \o s = Append(out, a) /\ Append(out, a) \in Seq(Nat)
  BY <1>1, <1>3
<1>7. Append(out, a) \o r = Append(Append(out, a), b)
  BY <1>1, <1>4, <1>6
<1> QED
  BY <1>1, <1>3, <1>4, <1>5, <1>6, <1>7

\* The next number may go out after those that did.
LEMMA NextHandedOn ==
  ASSUME NEW out \in Seq(Nat), NEW m \in Nat, NEW count \in Nat, m < count, Relayed!HandedOn(out, m)
  PROVE  /\ Relayed!HandedOn(out, count)
         /\ \A k \in 1 .. count : m < k =>
              /\ Append(out, k) \in Seq(Nat) /\ Relayed!HandedOn(Append(out, k), count)
              /\ Relayed!HandedOn(Append(out, k), k)
<1>1. \A i \in 1 .. Len(out) : out[i] \in 1 .. m /\ (i > 1 => out[i - 1] < out[i])
  BY DEF Relayed!HandedOn
<1>2. \A k \in Nat : m < k => Relayed!HandedOn(out, k)
  <2>1. \A k \in Nat : m < k => \A i \in 1 .. m : i \in 1 .. k
    OBVIOUS
  <2> QED
    BY <1>1, <2>1 DEF Relayed!HandedOn
<1>3. ASSUME NEW k \in 1 .. count, m < k
      PROVE  /\ Append(out, k) \in Seq(Nat) /\ Relayed!HandedOn(Append(out, k), count)
             /\ Relayed!HandedOn(Append(out, k), k)
  <2>1. /\ \A i \in 1 .. m : i < k
        /\ k \in 1 .. k /\ k \in Nat
    BY <1>3
  <2>2. \A i \in 1 .. Len(out) : out[i] < k
    BY <1>1, <2>1
  <2>3. Relayed!HandedOn(out, k) /\ Relayed!HandedOn(out, count)
    BY <1>2, <1>3, <2>1
  <2>4. Relayed!HandedOn(Append(out, k), k) /\ Relayed!HandedOn(Append(out, k), count)
    BY <1>3, <2>1, <2>2, <2>3, HandOneOn
  <2> QED
    BY <2>1, <2>4
<1> QED
  BY <1>2, <1>3

\* So may all writes of the next packet.
LEMMA PiecesHandedOn ==
  ASSUME NEW n \in Nat, NEW out \in Seq(Nat), Relayed!HandedOn(out, 2 * n), NEW w \in Pieces(n)
  PROVE  out \o w \in Seq(Nat) /\ Relayed!HandedOn(out \o w, 2 * (n + 1))
<1>1. PICK m, a, b : m = 2 * n /\ a = 2 * (n + 1) - 1 /\ b = 2 * (n + 1)
  OBVIOUS
<1>2. /\ m \in Nat /\ a \in Nat /\ b \in Nat /\ m < a /\ a < b /\ m < b
      /\ a \in 1 .. b /\ b \in 1 .. b
  BY <1>1
<1>3. w \in {<< >>, << a >>, << b >>, << a >> \o << b >>}
  BY <1>1 DEF Pieces
<1>4. /\ out \o << >> = out
      /\ out \o << a >> = Append(out, a) /\ out \o << b >> = Append(out, b)
      /\ out \o (<< a >> \o << b >>) = Append(Append(out, a), b)
  <2>1. out \o << >> = out
    BY ONLY out \in Seq(Nat)
  <2> QED
    BY <1>2, <2>1, Sends
<1>5. /\ Relayed!HandedOn(out, b)
      /\ Append(out, a) \in Seq(Nat) /\ Relayed!HandedOn(Append(out, a), b)
      /\ Relayed!HandedOn(Append(out, a), a)
      /\ Append(out, b) \in Seq(Nat) /\ Relayed!HandedOn(Append(out, b), b)
  <2>1. Relayed!HandedOn(out, m)
    BY <1>1
  <2> QED
    BY ONLY <1>2, <2>1, out \in Seq(Nat), NextHandedOn
<1>6. Append(Append(out, a), b) \in Seq(Nat) /\ Relayed!HandedOn(Append(Append(out, a), b), b)
  <2>1. PICK c \in Seq(Nat) : c = Append(out, a)
    BY <1>5
  <2>2. Append(c, b) \in Seq(Nat) /\ Relayed!HandedOn(Append(c, b), b)
    BY ONLY <1>2, <1>5, <2>1, NextHandedOn
  <2> QED
    BY <2>1, <2>2
<1> QED
  BY <1>1, <1>3, <1>4, <1>5, <1>6

\* They are numbers of writes.
LEMMA PiecesTyped ==
  ASSUME NEW n \in 0 .. MaxPackets, n < MaxPackets, NEW w \in Pieces(n)
  PROVE  w \in Seq(1 .. 2 * MaxPackets)
<1>1. PICK a, b, t : a = 2 * (n + 1) - 1 /\ b = 2 * (n + 1) /\ t = 2 * MaxPackets
  OBVIOUS
<1>2. a \in 1 .. t /\ b \in 1 .. t
  BY <1>1, PacketsAssumption
<1>3. w \in {<< >>, << a >>, << b >>, << a >> \o << b >>}
  BY <1>1 DEF Pieces
<1>4. << >> \in Seq(1 .. t) /\ << a >> \in Seq(1 .. t) /\ << b >> \in Seq(1 .. t)
  BY ONLY <1>2
<1>5. << a >> \o << b >> \in Seq(1 .. t)
  BY ONLY <1>4
<1> QED
  BY ONLY <1>1, <1>3, <1>4, <1>5

\* What waits goes out behind what went out.
LEMMA Behind ==
  ASSUME NEW S, NEW out \in Seq(S), NEW held \in Seq(S), NEW w \in Seq(S)
  PROVE  /\ held \o w \in Seq(S) /\ out \o held \in Seq(S) /\ out \o (held \o w) \in Seq(S)
         /\ out \o (held \o w) = (out \o held) \o w
         /\ (out \o (held \o w)) \o << >> = out \o (held \o w)
         /\ Relayed!Extends(out \o (held \o w), out)
<1>1. held \o w \in Seq(S) /\ out \o held \in Seq(S)
  OBVIOUS
<1>2. PICK a : a = out \o (held \o w)
  OBVIOUS
<1>3. a \in Seq(S) /\ a \o << >> = a
  BY <1>1, <1>2
<1>4. Len(out) <= Len(a) /\ \A i \in 1 .. Len(out) : a[i] = out[i]
  BY <1>1, <1>2
<1>5. out \o (held \o w) = (out \o held) \o w
  OBVIOUS
<1> QED
  BY <1>1, <1>2, <1>3, <1>4, <1>5 DEF Relayed!Extends

\* What is a sequence of such numbers is one of numbers.
LEMMA NumbersAreNat == ASSUME NEW t \in Nat, NEW s \in Seq(1 .. t) PROVE s \in Seq(Nat)
<1>0. \A k \in 1 .. t : k \in Nat
  OBVIOUS
<1>1. \A i \in 1 .. Len(s) : s[i] \in Nat
  <2>1. \A i \in 1 .. Len(s) : s[i] \in 1 .. t
    OBVIOUS
  <2> QED
    BY <1>0, <2>1
<1>2. s = [i \in 1 .. Len(s) |-> s[i]] /\ Len(s) \in Nat
  OBVIOUS
<1>3. [i \in 1 .. Len(s) |-> s[i]] \in Seq(Nat)
  BY <1>1, <1>2
<1> QED
  BY <1>2, <1>3

\* What a piece of the attacker's data makes the proxy write goes to the guest, or waits for it.
LEMMA SendStep ==
  ASSUME TypeOK, protocol = "telnet", dropped = "no", TelnetInv,
         packets["frontend"] < MaxPackets,
         NEW w \in Pieces(packets["frontend"]), sendBackend(w)
  PROVE  /\ Relayed!HandedOn(passed'["frontend"] \o backend_buffer', 2 * (packets["frontend"] + 1))
         /\ passed'["backend"] = passed["backend"]
         /\ \A e \in Ends : Relayed!Extends(passed'[e], passed[e])
<1>0. PICK t : t = 2 * MaxPackets
  OBVIOUS
<1>1. /\ passed \in [Ends -> Seq(1 .. t)] /\ backend_buffer \in Seq(1 .. t)
      /\ packets["frontend"] \in 0 .. MaxPackets /\ t \in Nat
      /\ "frontend" \in Ends /\ "backend" \in Ends /\ "frontend" # "backend"
  BY <1>0, PacketsAssumption DEF TypeOK, SessionTypeOK, TelnetTypeOK, Ends, Writes
<1>2. PICK out, held, n : out = passed["frontend"] /\ held = backend_buffer /\ n = packets["frontend"]
  OBVIOUS
<1>3. out \in Seq(1 .. t) /\ held \in Seq(1 .. t) /\ n \in 0 .. MaxPackets /\ n < MaxPackets
  BY <1>1, <1>2
<1>4. w \in Pieces(n) /\ w \in Seq(1 .. t)
  BY <1>0, <1>2, <1>3, PiecesTyped
<1>5. Relayed!HandedOn((out \o held) \o w, 2 * (n + 1))
  <2>1. Relayed!HandedOn(out \o held, 2 * n)
    BY <1>2 DEF TelnetInv
  <2>2. out \o held \in Seq(1 .. t)
    BY <1>3
  <2>3. out \o held \in Seq(Nat)
    BY <1>1, <2>2, NumbersAreNat
  <2>4. n \in Nat
    BY <1>3
  <2> QED
    BY <1>4, <2>1, <2>3, <2>4, PiecesHandedOn
<1>6. PICK all : all = held \o w
  OBVIOUS
<1>7. /\ out \o all = (out \o held) \o w /\ (out \o all) \o << >> = out \o all
      /\ Relayed!Extends(out \o all, out)
  BY <1>3, <1>4, <1>6, Behind
<1>8. \A e \in Ends : Relayed!Extends(passed[e], passed[e])
  BY <1>1 DEF Relayed!Extends
<1>9. CASE passed' = [passed EXCEPT !["frontend"] = @ \o all] /\ backend_buffer' = << >>
  <2>1. /\ passed'["frontend"] = out \o all /\ passed'["backend"] = passed["backend"]
        /\ \A e \in Ends : e # "frontend" => passed'[e] = passed[e]
    BY <1>1, <1>2, <1>9
  <2>2. \A e \in Ends : Relayed!Extends(passed'[e], passed[e])
    BY <1>2, <1>7, <1>8, <2>1
  <2> QED
    BY <1>2, <1>5, <1>7, <1>9, <2>1, <2>2
<1>10. CASE backend_buffer' = all /\ UNCHANGED passed
  BY <1>2, <1>5, <1>7, <1>8, <1>10
<1> QED
  BY <1>2, <1>6, <1>9, <1>10 DEF sendBackend

\* However the session stands, what goes out is numbered.
LEMMA SendTyped ==
  ASSUME TypeOK, protocol = "telnet", packets["frontend"] < MaxPackets,
         NEW w \in Pieces(packets["frontend"]), sendBackend(w)
  PROVE  /\ passed' \in [Ends -> Seq(1 .. 2 * MaxPackets)]
         /\ backend_buffer' \in Seq(1 .. 2 * MaxPackets)
<1>0. PICK t : t = 2 * MaxPackets
  OBVIOUS
<1>1. /\ passed \in [Ends -> Seq(1 .. t)] /\ backend_buffer \in Seq(1 .. t)
      /\ packets["frontend"] \in 0 .. MaxPackets /\ "frontend" \in Ends
  BY <1>0 DEF TypeOK, SessionTypeOK, TelnetTypeOK, Ends, Writes
<1>2. PICK out, held, n : out = passed["frontend"] /\ held = backend_buffer /\ n = packets["frontend"]
  OBVIOUS
<1>3. out \in Seq(1 .. t) /\ held \in Seq(1 .. t) /\ w \in Seq(1 .. t)
  BY <1>0, <1>1, <1>2, PiecesTyped
<1>4. PICK all : all = held \o w
  OBVIOUS
<1>5. all \in Seq(1 .. t) /\ out \o all \in Seq(1 .. t) /\ << >> \in Seq(1 .. t)
  BY <1>3, <1>4, Behind
<1>6. CASE passed' = [passed EXCEPT !["frontend"] = @ \o all] /\ backend_buffer' = << >>
  BY <1>0, <1>1, <1>2, <1>5, <1>6
<1>7. CASE backend_buffer' = all /\ UNCHANGED passed
  BY <1>0, <1>1, <1>5, <1>7
<1> QED
  BY <1>2, <1>4, <1>6, <1>7 DEF sendBackend

\* The steps of Telnet leave the SSH proxy's variables alone.
LEMMA TelnetFrame ==
  ASSUME IInv, PromptInv', PromptBound', protocol = "telnet", protocol' = protocol,
         settings' = settings, late' = late, UNCHANGED sshvars,
         packets' \in [Ends -> 0 .. MaxPackets], passed' \in [Ends -> Seq(1 .. 2 * MaxPackets)],
         backend_buffer' \in Seq(1 .. 2 * MaxPackets),
         front' \in FrontStates, pool' \in PoolStates, back' \in BackStates,
         authDone' \in BOOLEAN, timer' \in BOOLEAN, freed' \in {"no", "clean", "dirty"},
         dropped' \in Causes, waitingLoginEcho' \in BOOLEAN, prePasswordData' \in BOOLEAN,
         entered' \in BOOLEAN, TelnetInv'
  PROVE  IInv'
<1>1. SshInv'
  BY DEF SshInv
<1>2. SshTypeOK'
  BY DEF IInv, TypeOK, SshTypeOK, sshvars
<1>3. SessionTypeOK'
  BY DEF IInv, TypeOK, SessionTypeOK, Protocols, Writes
<1>4. /\ packets'["backend"] \in 0 .. MaxPackets
      /\ \A s \in Sorts : /\ prompts'[s] \in Nat /\ lines'[s] \in Nat
                          /\ lines'[s] <= prompts'[s] /\ prompts'[s] <= packets'["backend"]
  BY DEF PromptInv, PromptBound, Ends
<1>5. \A s \in Sorts : prompts'[s] \in 0 .. MaxPackets /\ lines'[s] \in 0 .. MaxPackets
  BY <1>4, PacketsAssumption
<1>6. TelnetTypeOK'
  BY <1>5 DEF TelnetTypeOK, PromptInv, Writes
<1>7. KeepInv'
  BY DEF IInv, KeepInv, Keeping, Private, sshvars
<1> QED
  BY <1>1, <1>2, <1>3, <1>6, <1>7 DEF IInv, TypeOK

\* Data of the attacker.
LEMMA FrontendDataStep ==
  ASSUME IInv, protocol = "telnet", NEW input \in Inputs, NEW granted \in BOOLEAN,
         FrontendData(input, granted), UNCHANGED sshvars, PromptInv'
  PROVE  IInv' /\ Grows
<1> DEFINE f == "frontend"
<1>1. /\ packets[f] < MaxPackets /\ packets' = [packets EXCEPT ![f] = packets[f] + 1]
      /\ UNCHANGED <<protocol, settings, late, prompts>>
      /\ \/ CutLine(packets[f] + 1)
         \/ FinishLine(packets[f] + 1, granted)
         \/ /\ \/ Withhold(packets[f] + 1)
               \/ sendBackend(Main(packets[f] + 1)) /\ UNCHANGED prePasswordData
            /\ UNCHANGED <<front, back, pool, freed, timer, authDone, dropped, inputing,
                           waitingLoginEcho, lines, entered>>
  BY DEF FrontendData
<1>2. /\ TypeOK /\ PromptBound /\ TelnetInv /\ SessionTypeOK /\ TelnetTypeOK
      /\ timer \in BOOLEAN /\ authDone \in BOOLEAN /\ entered \in BOOLEAN
      /\ dropped \in Causes /\ front \in FrontStates /\ back \in BackStates
      /\ pool \in PoolStates /\ freed \in {"no", "clean", "dirty"}
      /\ waitingLoginEcho \in BOOLEAN /\ prePasswordData \in BOOLEAN
  BY DEF IInv, TypeOK, SessionTypeOK, TelnetTypeOK
<1>3. /\ packets' \in [Ends -> 0 .. MaxPackets] /\ packets'[f] = packets[f] + 1
      /\ \A d \in Ends : packets[d] <= packets'[d] /\ (d # f => packets'[d] = packets[d])
      /\ f \in Ends /\ "backend" \in Ends /\ packets[f] \in Nat
  BY <1>1, <1>2, CountStep DEF Ends, SessionTypeOK
<1>4. PromptBound'
  BY <1>1, <1>2, <1>3 DEF PromptBound
<1>5. \E w \in Pieces(packets[f]) : sendBackend(w)
  BY <1>1, <1>3, WritesOf DEF CutLine, FinishLine, Withhold
<1>6. PICK w \in Pieces(packets[f]) : sendBackend(w)
  BY <1>5
<1>7. passed' \in [Ends -> Seq(1 .. 2 * MaxPackets)] /\ backend_buffer' \in Seq(1 .. 2 * MaxPackets)
  BY <1>1, <1>2, <1>6, SendTyped
<1>8. /\ front' \in FrontStates /\ back' \in BackStates /\ timer' \in BOOLEAN
      /\ pool' \in PoolStates /\ freed' \in {"no", "clean", "dirty"}
      /\ dropped' \in Causes /\ authDone' \in BOOLEAN /\ entered' \in BOOLEAN
      /\ waitingLoginEcho' \in BOOLEAN /\ prePasswordData' \in BOOLEAN
      /\ dropped' = "no" => dropped = "no"
  <2>1. CASE CutLine(packets[f] + 1)
    <3>1. /\ dropped' = "cut line" /\ UNCHANGED <<authDone, waitingLoginEcho, entered>>
          /\ prePasswordData' \in BOOLEAN /\ FrontGone
      BY <1>2, <2>1 DEF CutLine, Withhold
    <3> QED
      BY <1>2, <3>1 DEF FrontGone, LoseBack, FrontStates, BackStates, PoolStates, Causes
  <2>2. CASE FinishLine(packets[f] + 1, granted)
    BY <1>2, <2>2 DEF FinishLine
  <2>3. CASE /\ \/ Withhold(packets[f] + 1)
                \/ sendBackend(Main(packets[f] + 1)) /\ UNCHANGED prePasswordData
             /\ UNCHANGED <<front, back, pool, freed, timer, authDone, dropped, inputing,
                            waitingLoginEcho, lines, entered>>
    BY <1>2, <2>3 DEF Withhold
  <2> QED
    BY <1>1, <2>1, <2>2, <2>3
<1>9. ASSUME dropped' = "no"
      PROVE  /\ Relayed!HandedOn(passed'[f] \o backend_buffer', 2 * (packets[f] + 1))
             /\ passed'["backend"] = passed["backend"]
             /\ \A e \in Ends : Relayed!Extends(passed'[e], passed[e])
  BY <1>1, <1>2, <1>6, <1>8, <1>9, SendStep
<1>10. TelnetInv'
  <2> SUFFICES ASSUME dropped' = "no"
               PROVE  /\ Relayed!HandedOn(passed'[f] \o backend_buffer', 2 * packets'[f])
                      /\ Relayed!HandedOn(passed'["backend"], 2 * packets'["backend"])
    BY DEF TelnetInv
  <2>1. Relayed!HandedOn(passed["backend"], 2 * packets["backend"])
    BY <1>2, <1>8 DEF TelnetInv
  <2> QED
    BY <1>3, <1>9, <2>1
<1>11. Grows
  BY <1>3, <1>8, <1>9 DEF Grows
<1> QED
  BY <1>1, <1>3, <1>4, <1>7, <1>8, <1>10, <1>11, TelnetFrame

\* Data of the guest: an echoed login is kept back.
LEMMA BackendDataStep ==
  ASSUME IInv, protocol = "telnet", NEW output \in Outputs,
         BackendData(output), UNCHANGED sshvars, PromptInv'
  PROVE  IInv' /\ Grows
<1> DEFINE b == "backend"
<1>0. PICK t : t = 2 * MaxPackets
  OBVIOUS
<1>1. /\ packets[b] < MaxPackets /\ packets' = [packets EXCEPT ![b] = packets[b] + 1]
      /\ UNCHANGED <<session, dropped, backend_buffer, lines, entered>>
      /\ passed' = passed \/ passed' = [passed EXCEPT ![b] = @ \o Main(packets[b] + 1)]
      /\ \/ /\ prompts' = [s \in Sorts |-> prompts[s] + IF s \in output.prompts THEN 1 ELSE 0]
            /\ prePasswordData' = output.pre /\ waitingLoginEcho' = FALSE
         \/ UNCHANGED <<prompts, prePasswordData, waitingLoginEcho>>
  BY DEF BackendData
<1>2. /\ PromptInv /\ PromptBound /\ TelnetInv /\ SessionTypeOK
      /\ passed \in [Ends -> Seq(1 .. t)] /\ backend_buffer \in Seq(1 .. t)
      /\ waitingLoginEcho \in BOOLEAN /\ prePasswordData \in BOOLEAN /\ output.pre \in BOOLEAN
      /\ entered \in BOOLEAN
  BY <1>0 DEF IInv, TypeOK, SessionTypeOK, TelnetTypeOK, Outputs, Writes
<1>3. /\ packets' \in [Ends -> 0 .. MaxPackets] /\ packets'[b] = packets[b] + 1
      /\ \A d \in Ends : packets[d] <= packets'[d] /\ (d # b => packets'[d] = packets[d])
      /\ b \in Ends /\ "frontend" \in Ends /\ "frontend" # b
  BY <1>1, <1>2, CountStep DEF Ends
<1>4. PromptBound'
  <2>1. packets[b] \in Nat /\ packets'[b] = packets[b] + 1
    BY <1>2, <1>3 DEF SessionTypeOK
  <2>2. \A s \in Sorts : prompts[s] \in Nat /\ prompts[s] <= packets[b]
    BY <1>2 DEF PromptInv, PromptBound
  <2> QED
    BY <1>1, <2>1, <2>2 DEF PromptBound
<1>5. PICK out, n, w : out = passed[b] /\ n = packets[b] /\ w = Main(n + 1)
  OBVIOUS
<1>6. out \in Seq(1 .. t) /\ n \in 0 .. MaxPackets /\ n < MaxPackets
  BY <1>1, <1>2, <1>3, <1>5 DEF SessionTypeOK
<1>7. w \in Pieces(n) /\ << >> \in Pieces(n) /\ w \in Seq(1 .. t)
  <2>1. n \in Nat
    BY <1>6
  <2>2. w \in Pieces(n) /\ << >> \in Pieces(n)
    BY <1>5, <2>1, WritesOf DEF Pieces
  <2> QED
    BY <1>0, <1>6, <2>2, PiecesTyped
<1>8. /\ out \o w \in Seq(1 .. t) /\ out \o << >> = out
      /\ Relayed!Extends(out, out) /\ Relayed!Extends(out \o w, out)
  <2>1. PICK a : a = out \o w
    OBVIOUS
  <2>2. a \in Seq(1 .. t) /\ Len(out) <= Len(a) /\ \A i \in 1 .. Len(out) : a[i] = out[i]
    BY ONLY <1>6, <1>7, <2>1
  <2>3. out \o << >> = out
    BY ONLY <1>6
  <2>4. Len(out) <= Len(out)
    BY ONLY <1>6
  <2> QED
    BY <2>1, <2>2, <2>3, <2>4 DEF Relayed!Extends
<1>9. /\ passed' \in [Ends -> Seq(1 .. t)]
      /\ \A e \in Ends : e # b => passed'[e] = passed[e]
      /\ passed'[b] = out \/ passed'[b] = out \o w
  BY <1>1, <1>2, <1>3, <1>5, <1>8
<1>10. Grows
  <2>1. \A e \in Ends : Relayed!Extends(passed[e], passed[e])
    BY <1>2 DEF Relayed!Extends
  <2> QED
    BY <1>1, <1>3, <1>5, <1>8, <1>9, <2>1 DEF Grows
<1>11. TelnetInv'
  <2> SUFFICES ASSUME dropped' = "no"
               PROVE  /\ Relayed!HandedOn(passed'["frontend"] \o backend_buffer', 2 * packets'["frontend"])
                      /\ Relayed!HandedOn(passed'[b], 2 * packets'[b])
    BY DEF TelnetInv
  <2>1. /\ Relayed!HandedOn(passed["frontend"] \o backend_buffer, 2 * packets["frontend"])
        /\ Relayed!HandedOn(out, 2 * n)
    BY <1>1, <1>2, <1>5 DEF TelnetInv
  <2>2. Relayed!HandedOn(out, 2 * (n + 1)) /\ Relayed!HandedOn(out \o w, 2 * (n + 1))
    <3>1. out \in Seq(Nat) /\ n \in Nat
      <4>1. t \in Nat
        BY <1>0, PacketsAssumption
      <4> QED
        BY <1>6, <4>1, NumbersAreNat
    <3>2. \A v \in Pieces(n) : Relayed!HandedOn(out \o v, 2 * (n + 1))
      BY <2>1, <3>1, PiecesHandedOn
    <3> QED
      BY <1>7, <1>8, <3>2
  <2> QED
    BY <1>1, <1>3, <1>5, <1>9, <2>1, <2>2
<1>12. /\ protocol' = protocol /\ settings' = settings /\ late' = late
       /\ front' \in FrontStates /\ pool' \in PoolStates /\ back' \in BackStates
       /\ authDone' \in BOOLEAN /\ timer' \in BOOLEAN /\ freed' \in {"no", "clean", "dirty"}
       /\ dropped' \in Causes /\ backend_buffer' \in Seq(1 .. t)
       /\ waitingLoginEcho' \in BOOLEAN /\ prePasswordData' \in BOOLEAN /\ entered' \in BOOLEAN
  BY <1>1, <1>2 DEF session, SessionTypeOK
<1> QED
  BY <1>0, <1>3, <1>4, <1>9, <1>10, <1>11, <1>12, TelnetFrame
-----------------------------------------------------------------------------
\* Each step preserves the invariant, and is a step of a relay.
LEMMA IStep == IInv /\ [Next]_proxyvars => IInv' /\ Grows
<1> SUFFICES ASSUME IInv, [Next]_proxyvars PROVE IInv' /\ Grows
  OBVIOUS
<1>1. PromptInv'
  BY PromptStep DEF IInv
<1>2. CASE SessionNext /\ UNCHANGED <<traffic, sshvars, telnetvars>>
  BY <1>2, SessionStep
<1>3. CASE protocol = "ssh" /\ SshNext /\ UNCHANGED telnetvars
  <2>1. CASE VersionReceived
    BY <1>3, <2>1, VersionStep
  <2>2. ASSUME NEW granted \in BOOLEAN, Userauth(granted) PROVE IInv' /\ Grows
    BY <1>3, <2>2, UserauthStep
  <2>3. CASE ConnectionSecure
    BY <1>3, <2>3, ConnectionSecureStep
  <2>4. ASSUME NEW p \in Legal("frontend", frontendAuthenticated), FrontendPacket(p)
        PROVE  IInv' /\ Grows
    BY <1>3, <2>4, FrontendPacketStep
  <2>5. ASSUME NEW p \in Legal("backend", authDone), BackendPacket(p) PROVE IInv' /\ Grows
    BY <1>3, <2>5, BackendPacketStep
  <2>6. CASE LoginAccepted
    BY <1>3, <2>6, LoginAcceptedStep
  <2> QED
    BY <1>3, <2>1, <2>2, <2>3, <2>4, <2>5, <2>6 DEF SshNext
<1>4. CASE protocol = "telnet" /\ TelnetNext /\ UNCHANGED sshvars
  <2>1. ASSUME NEW input \in Inputs, NEW granted \in BOOLEAN, FrontendData(input, granted)
        PROVE  IInv' /\ Grows
    BY <1>1, <1>4, <2>1, FrontendDataStep
  <2>2. ASSUME NEW output \in Outputs, BackendData(output) PROVE IInv' /\ Grows
    BY <1>1, <1>4, <2>2, BackendDataStep
  <2> QED
    BY <1>4, <2>1, <2>2 DEF TelnetNext
<1>5. CASE UNCHANGED proxyvars
  <2>1. UNCHANGED session /\ UNCHANGED traffic /\ UNCHANGED sshvars /\ UNCHANGED telnetvars
    BY <1>5 DEF proxyvars
  <2>2. TypeOK'
    BY <2>1 DEF session, traffic, sshvars, telnetvars, IInv, TypeOK, SessionTypeOK, SshTypeOK,
                TelnetTypeOK, Writes
  <2>3. PromptBound' /\ SshInv' /\ TelnetInv'
    BY <2>1 DEF session, traffic, sshvars, telnetvars, IInv, PromptBound, SshInv, TelnetInv
  <2>4. KeepInv'
    BY <2>1 DEF session, sshvars, IInv, KeepInv, Keeping, Private
  <2> QED
    BY <1>1, <2>1, <2>2, <2>3, <2>4, StillGrows DEF IInv
<1> QED
  BY <1>2, <1>3, <1>4, <1>5 DEF Next

\* The inductive invariant of the two proxies.
THEOREM Invariance == Spec => []IInv
<1>1. IInv /\ [Next]_proxyvars => IInv'
  BY IStep
<1> QED
  BY <1>1, IInit, PTL DEF Spec

\* The variables keep their types, whatever the ends send and whenever.
THEOREM TypeCorrect == Spec => []TypeOK
<1>1. IInv => TypeOK
  BY DEF IInv
<1> QED
  BY <1>1, Invariance, PTL

\* Each packet that came was handed on, is held back, or was kept by right, and
\* nothing is held back from a guest that has a login.
THEOREM NothingIsLost == Spec => []NoPacketLost
<1>1. IInv => NoPacketLost
  <2> SUFFICES ASSUME IInv, protocol = "ssh", dropped = "no"
               PROVE  /\ \A e \in Ends :
                           /\ Range(passed[e]) \cup {p.number : p \in Range(delayed[e]) \cup kept[e]}
                                = 1 .. packets[e]
                           /\ {p.kind : p \in kept[e]} \subseteq Private(e)
                      /\ authDone => delayed["frontend"] = << >>
    BY DEF NoPacketLost
  <2>1. /\ \A e \in Ends : Ordered(packets[e], passed[e], kept[e], delayed[e])
        /\ authDone => delayed["frontend"] = << >>
    BY DEF IInv, SshInv
  <2>2. ASSUME NEW e \in Ends
        PROVE  Range(passed[e]) \cup {p.number : p \in Range(delayed[e]) \cup kept[e]} = 1 .. packets[e]
    <3>1. PICK out, held, mine, n :
            out = passed[e] /\ held = delayed[e] /\ mine = kept[e] /\ n = packets[e]
      OBVIOUS
    <3>2. held \in Seq(Packet)
      BY <3>1 DEF IInv, TypeOK, SshTypeOK
    <3>3. Range(out) \cup {k.number : k \in mine} \cup {held[j].number : j \in 1 .. Len(held)} = 1 .. n
      BY <2>1, <3>1 DEF Ordered
    <3>4. {p.number : p \in Range(held)} = {held[j].number : j \in 1 .. Len(held)}
      BY <3>2 DEF Range
    <3>5. {p.number : p \in Range(held) \cup mine}
            = {p.number : p \in Range(held)} \cup {k.number : k \in mine}
      OBVIOUS
    <3> QED
      BY <3>1, <3>3, <3>4, <3>5
  <2>3. ASSUME NEW e \in Ends PROVE {p.kind : p \in kept[e]} \subseteq Private(e)
    BY DEF IInv, KeepInv, Keeping
  <2> QED
    BY <2>1, <2>2, <2>3
<1> QED
  BY <1>1, Invariance, PTL

\* What went out in the order of the packets is what a relay hands on.
LEMMA InOrder ==
  IInv /\ dropped = "no" => \A e \in Ends : Relayed!HandedOn(passed[e], Writes(packets[e]))
<1> SUFFICES ASSUME IInv, dropped = "no"
             PROVE  \A e \in Ends : Relayed!HandedOn(passed[e], Writes(packets[e]))
  OBVIOUS
<1>0. /\ passed \in [Ends -> Seq(1 .. Writes(MaxPackets))]
      /\ backend_buffer \in Seq(1 .. Writes(MaxPackets)) /\ protocol \in Protocols
  BY DEF IInv, TypeOK, SessionTypeOK, TelnetTypeOK
<1>1. CASE protocol = "ssh"
  BY <1>1 DEF IInv, SshInv, Ordered, Writes
<1>2. CASE protocol = "telnet"
  <2>1. PICK out, held, n, S : /\ out = passed["frontend"] /\ held = backend_buffer
                               /\ n = 2 * packets["frontend"] /\ S = 1 .. Writes(MaxPackets)
    OBVIOUS
  <2>2. out \in Seq(S) /\ held \in Seq(S)
    BY <1>0, <2>1 DEF Ends
  <2>3. PICK a : a = out \o held
    OBVIOUS
  <2>4. Len(out) <= Len(a) /\ (\A i \in 1 .. Len(out) : a[i] = out[i]) /\ Len(out) \in Nat /\ Len(a) \in Nat
    BY <2>2, <2>3
  <2>5. \A i \in 1 .. Len(a) : a[i] \in 1 .. n /\ (i > 1 => a[i - 1] < a[i])
    BY <1>2, <2>1, <2>3 DEF IInv, TelnetInv, Relayed!HandedOn
  <2>6. \A i \in 1 .. Len(out) : i \in 1 .. Len(a) /\ (i > 1 => i - 1 \in 1 .. Len(out))
    BY <2>4
  <2>7. Relayed!HandedOn(out, n)
    BY <2>4, <2>5, <2>6 DEF Relayed!HandedOn
  <2>8. Relayed!HandedOn(passed["backend"], 2 * packets["backend"])
    BY <1>2 DEF IInv, TelnetInv
  <2> QED
    BY <1>2, <2>1, <2>7, <2>8 DEF Ends, Writes
<1> QED
  BY <1>0, <1>1, <1>2 DEF Protocols

\* Each proxy implements the relay: until an exception what is handed on of
\* either end's packets goes out once, in order, and is never taken back.
THEOREM ProxyRelays == Spec => Relays
<1>1. Init => Relayed!Init
  <2>1. Writes(0) = 0
    BY DEF Writes
  <2> QED
    BY <2>1 DEF Init, ConnectionMade, Relayed!Init
<1> DEFINE Newest == dropped = "no" => \A e \in Ends : Relayed!HandedOn(passed[e], Writes(packets[e]))
<1>2. IInv => Newest
  BY InOrder
<1>3. [Next]_proxyvars => protocol' = protocol
  BY DEF Next, SessionNext, PoolConnectionSuccess, PoolConnectionError, PoolRefused, ReceivedPoolData,
         BackendConnectionSuccess, BackendConnectionError, TimeoutConnection, FrontConnectionLost,
         BackendConnectionLost, SshNext, VersionReceived, Userauth, ConnectionSecure,
         FrontendPacket, BackendPacket, LoginAccepted, TelnetNext, FrontendData, BackendData,
         session, proxyvars
<1>4. Newest' /\ IInv /\ IInv' /\ Grows /\ [Next]_proxyvars => [Relayed!Next]_(Relayed!relay)
  <2> SUFFICES ASSUME Newest', IInv, IInv', Grows, protocol' = protocol PROVE Relayed!Next
    BY <1>3
  <2>1. ASSUME dropped' = "no" PROVE Relayed!Work
    <3>1. /\ \A e \in Ends : packets[e] <= packets'[e] /\ Relayed!Extends(passed'[e], passed[e])
          /\ packets \in [Ends -> Nat] /\ packets' \in [Ends -> Nat]
      BY <2>1 DEF Grows, IInv, TypeOK, SessionTypeOK
    <3>2. \A e \in Ends : Relayed!HandedOn(passed'[e], Writes(packets[e])')
      BY <2>1
    <3>3. ASSUME NEW e \in Ends PROVE Writes(packets[e])' >= Writes(packets[e])
      <4>1. packets[e] \in Nat /\ packets'[e] \in Nat /\ packets[e] <= packets'[e]
        BY <3>1
      <4> QED
        BY <4>1 DEF Writes
    <3> QED
      BY <3>1, <3>2, <3>3 DEF Relayed!Work
  <2> QED
    BY <2>1 DEF Grows, Relayed!Next
<1> HIDE DEF Newest
<1> QED
  BY <1>1, <1>2, <1>4, Invariance, IStep, PTL DEF Spec, Relays, Relayed!Spec

-----------------------------------------------------------------------------
(* The guests that come back.                                              *)

\* A guest goes back when the attacker's connection is lost, which is for good;
\* a connection to a guest that is up by then was made afterwards.  A login on
\* the guest is known from authDone, or what it was to release is still held.
Noticed == LoggedIn /\ ~ authDone => delayed["frontend"] # << >>

CleanInv ==
  /\ freed # "no" => front = "lost"
  /\ late => front = "lost"
  /\ front = "lost" /\ back = "up" => late
  /\ Noticed
  /\ entered => authDone
  /\ CleanGuest

\* A connection that was just made has no guest.
LEMMA CleanInit == Init => CleanInv
BY DEF Init, ConnectionMade, SshStart, TelnetStart, CleanInv, CleanGuest, Noticed, LoggedIn

\* The steps that both proxies have.
LEMMA SessionClean ==
  ASSUME CleanInv, SessionNext, UNCHANGED <<sshvars, telnetvars>>
  PROVE  CleanInv'
<1> USE DEF CleanInv, CleanGuest, Noticed, LoggedIn, Unnoticed, sshvars, telnetvars
<1>1. CASE PoolConnectionSuccess \/ PoolConnectionError \/ PoolRefused \/ ReceivedPoolData
  BY <1>1 DEF PoolConnectionSuccess, PoolConnectionError, PoolRefused, ReceivedPoolData,
              LoseFront, Alive
<1>2. CASE BackendConnectionSuccess
  BY <1>2 DEF BackendConnectionSuccess
<1>3. CASE BackendConnectionError \/ BackendConnectionLost
  BY <1>3 DEF BackendConnectionError, BackendConnectionLost, LoseFront, Alive
<1>4. CASE TimeoutConnection
  BY <1>4 DEF TimeoutConnection, LoseFront, LoseBack, Alive
<1>5. CASE FrontConnectionLost
  BY <1>5 DEF FrontConnectionLost, FrontGone, LoseBack
<1> QED
  BY <1>1, <1>2, <1>3, <1>4, <1>5 DEF SessionNext

\* To read no packets at all leaves everything as it is.
LEMMA ParseNone == \A st, e : parse_all(st, e, << >>) = st
<1> SUFFICES ASSUME NEW st, NEW e PROVE parse_all(st, e, << >>) = st
  OBVIOUS
<1> DEFINE Is(f) == f = [n \in 0 .. Len(<< >>) |->
                           IF n = 0 THEN st ELSE parse_packet(f[n - 1], e, << >>[n])]
           g == CHOOSE f : Is(f)
<1>1. Len(<< >>) = 0 /\ 0 \in 0 .. 0 /\ \A n \in 0 .. 0 : n = 0
  OBVIOUS
<1>2. Is([n \in 0 .. 0 |-> st])
  BY <1>1
<1>3. Is(g)
  <2> HIDE DEF Is
  <2> QED
    BY <1>2
<1>4. g[0] = st
  <2> HIDE DEF g
  <2> QED
    BY <1>1, <1>3
<1> QED
  BY <1>1, <1>4 DEF parse_all

\* authenticateBackend sets authDone, unless what was held back raised.
LEMMA FlushNoticed ==
  ASSUME Noticed, entered => authDone, entered' = entered, NEW a, NEW b, authenticateBackend(a, b)
  PROVE  Noticed' /\ (entered => authDone')
<1>1. CASE ~ (a /\ b)
  BY <1>1 DEF authenticateBackend, Noticed, LoggedIn
<1>2. CASE a /\ b
  <2>1. PICK st : st = parse_all(State, "frontend", delayed["frontend"])
    OBVIOUS
  <2>2. IF st.raised = "no" THEN authDone' = TRUE ELSE UNCHANGED <<authDone, delayed>>
    BY <1>2, <2>1 DEF authenticateBackend
  <2>3. delayed["frontend"] = << >> => st.raised = "no"
    BY <2>1, ParseNone DEF State
  <2> QED
    BY <2>2, <2>3 DEF Noticed
<1> QED
  BY <1>1, <1>2

\* The packets of SSH.  The guest is logged in on by a login of an attacker who
\* is there, or when its connection, which is up, is encrypted.
LEMMA SshClean ==
  ASSUME IInv, CleanInv, SshNext, UNCHANGED telnetvars
  PROVE  CleanInv'
<1>0. /\ freed # "no" => front = "lost"
      /\ late => front = "lost"
      /\ front = "lost" /\ back = "up" => late
      /\ Noticed /\ (entered => authDone) /\ CleanGuest /\ entered' = entered
  BY DEF CleanInv, telnetvars
<1>1. CASE VersionReceived
  BY <1>0, <1>1 DEF VersionReceived, sshvars, CleanInv, CleanGuest, Noticed, LoggedIn, Unnoticed
<1>2. ASSUME NEW granted \in BOOLEAN, Userauth(granted) PROVE CleanInv'
  <2>1. front = "ready" /\ UNCHANGED <<front, back, freed, late>>
    BY <1>2 DEF Userauth
  <2>2. Noticed' /\ (entered => authDone')
    BY <1>0, <1>2, FlushNoticed DEF Userauth
  <2> QED
    BY <1>0, <2>1, <2>2 DEF CleanInv, CleanGuest
<1>3. CASE ConnectionSecure
  <2>1. /\ back = "up" /\ late' = late
        /\ UNCHANGED <<front, back, freed>> \/ BackendGone
    BY <1>3 DEF ConnectionSecure
  <2>2. Noticed' /\ (entered => authDone')
    BY <1>0, <1>3, FlushNoticed DEF ConnectionSecure
  <2> QED
    BY <1>0, <2>1, <2>2 DEF BackendGone, LoseFront, Alive, CleanInv, CleanGuest
<1>4. ASSUME NEW p \in Legal("frontend", frontendAuthenticated), FrontendPacket(p) PROVE CleanInv'
  <2>1. /\ front = "ready" /\ UNCHANGED <<authDone, late, backendConnected>>
        /\ UNCHANGED <<front, back, freed>> \/ FrontGone
    BY <1>4 DEF FrontendPacket
  <2>2. PICK q : q = Arrives("frontend", p)
    OBVIOUS
  <2>3. delayed["frontend"] # << >> => delayed'["frontend"] # << >>
    <3>1. delayed' = delayed \/ delayed' = [delayed EXCEPT !["frontend"] = Append(@, q)]
      BY <1>4, <2>2 DEF FrontendPacket
    <3>2. q \in Packet
      <4>1. /\ "frontend" \in Ends /\ packets["frontend"] < MaxPackets
            /\ p \in Legal("frontend", frontendAuthenticated)
        BY <1>4 DEF FrontendPacket, Ends
      <4>2. q \in Sent("frontend")
        BY <2>2, <4>1, LegalFits
      <4> QED
        BY <4>2 DEF Sent
    <3>3. delayed \in [Ends -> Seq(Packet)] /\ "frontend" \in Ends
      BY DEF IInv, TypeOK, SshTypeOK, Ends
    <3>4. PICK s : s = delayed["frontend"]
      OBVIOUS
    <3>5. Append(s, q) # << >>
      BY <3>2, <3>3, <3>4
    <3> QED
      BY <3>1, <3>3, <3>4, <3>5
  <2>4. Noticed'
    BY <1>0, <2>1, <2>3 DEF Noticed, LoggedIn
  <2> QED
    BY <1>0, <2>1, <2>4 DEF FrontGone, LoseBack, CleanInv, CleanGuest, Noticed, Unnoticed
<1>5. ASSUME NEW p, BackendPacket(p) PROVE CleanInv'
  <2>1. /\ UNCHANGED <<authDone, late, backendConnected>>
        /\ UNCHANGED <<front, back, freed>> \/ BackendGone
    BY <1>5 DEF BackendPacket
  <2>2. \/ delayed' = delayed
        \/ \E s : delayed' = [delayed EXCEPT !["backend"] = s]
    BY <1>5 DEF BackendPacket
  <2>3. delayed'["frontend"] = delayed["frontend"]
    <3>1. delayed \in [Ends -> Seq(Packet)] /\ "frontend" \in Ends /\ "frontend" # "backend"
      BY DEF IInv, TypeOK, SshTypeOK, Ends
    <3> QED
      BY <2>2, <3>1
  <2> QED
    BY <1>0, <2>1, <2>3 DEF BackendGone, LoseFront, Alive, CleanInv, CleanGuest, Noticed, LoggedIn,
                            Unnoticed
<1>6. CASE LoginAccepted
  BY <1>0, <1>6 DEF LoginAccepted, session, CleanInv, CleanGuest, Noticed, LoggedIn, Unnoticed
<1> QED
  BY <1>1, <1>2, <1>3, <1>4, <1>5, <1>6 DEF SshNext

\* The data of Telnet: only an attacker who is there logs in.
LEMMA TelnetClean ==
  ASSUME CleanInv, TelnetNext, UNCHANGED sshvars
  PROVE  CleanInv'
<1> USE DEF CleanInv, CleanGuest, Noticed, LoggedIn, Unnoticed, sshvars
<1>1. ASSUME NEW input \in Inputs, NEW granted \in BOOLEAN, FrontendData(input, granted) PROVE CleanInv'
  <2>1. /\ front = "ready" /\ late' = late
        /\ \/ FrontGone /\ UNCHANGED <<authDone, entered>>
           \/ UNCHANGED <<front, back, freed, authDone, entered>>
           \/ /\ UNCHANGED <<front, back, freed>>
              /\ authDone' = (authDone \/ ("password" \in inputing /\ granted))
              /\ entered' = (entered \/ (inputing = {"password"} /\ granted))
    BY <1>1 DEF FrontendData, CutLine, FinishLine
  <2>2. UNCHANGED <<backendConnected, delayed>>
    OBVIOUS
  <2>3. CASE FrontGone /\ UNCHANGED <<authDone, entered>>
    BY <2>1, <2>2, <2>3 DEF FrontGone, LoseBack
  <2>4. CASE UNCHANGED <<front, back, freed, authDone, entered>>
    BY <2>1, <2>2, <2>4
  <2>5. CASE /\ UNCHANGED <<front, back, freed>>
             /\ authDone' = (authDone \/ ("password" \in inputing /\ granted))
             /\ entered' = (entered \/ (inputing = {"password"} /\ granted))
    <3>1. (entered' => authDone') /\ (authDone => authDone')
      BY <2>5
    <3> QED
      BY <2>1, <2>2, <2>5, <3>1
  <2> QED
    BY <2>1, <2>3, <2>4, <2>5
<1>2. ASSUME NEW output \in Outputs, BackendData(output) PROVE CleanInv'
  <2>1. UNCHANGED <<front, back, freed, late, authDone, entered>>
    BY ONLY <1>2 DEF BackendData, session
  <2> QED
    BY <2>1
<1> QED
  BY <1>1, <1>2 DEF TelnetNext

\* A guest is given back as unused only if nobody was logged in on it, or if
\* its connection was made for an attacker who had left, or if the packets that
\* the login was to release are still held back.
THEOREM GuestsComeBackClean == Spec => []CleanGuest
<1>1. IInv /\ CleanInv /\ [Next]_proxyvars => CleanInv'
  <2> SUFFICES ASSUME IInv, CleanInv, [Next]_proxyvars PROVE CleanInv'
    OBVIOUS
  <2>1. CASE UNCHANGED proxyvars
    BY <2>1 DEF proxyvars, session, sshvars, telnetvars, CleanInv, CleanGuest, Noticed, LoggedIn,
                Unnoticed
  <2> QED
    BY <2>1, SessionClean, SshClean, TelnetClean DEF Next
<1>2. CleanInv => CleanGuest
  BY DEF CleanInv
<1> QED
  BY <1>1, <1>2, CleanInit, Invariance, PTL DEF Spec

-----------------------------------------------------------------------------
(* The list of channels.                                                   *)

\* The number that end e itself gave to a channel.
Own(c, e) == NumberedBy(c, Other(e))

\* Two channels that no number stands for both.
Apart(c, d) ==
  /\ c.serverID = d.serverID => c.serverID = None
  /\ c.clientID = d.clientID => c.clientID = None

Whole(c) == c.serverID # None \/ c.clientID # None

\* A list in which each channel has a number, and each number one channel.
Listing(chs) ==
  /\ \A i, j \in 1 .. Len(chs) : i # j => Apart(chs[i], chs[j])
  /\ \A i \in 1 .. Len(chs) : Whole(chs[i])

\* The channels of a list, and where they are.
LEMMA RangeOf ==
  ASSUME NEW chs \in Seq(Channel)
  PROVE  /\ Range(chs) \subseteq Channel
         /\ \A i \in 1 .. Len(chs) : chs[i] \in Range(chs)
         /\ \A c \in Range(chs) : \E i \in 1 .. Len(chs) : chs[i] = c
         /\ Len(chs) \in Nat
BY DEF Range

\* A channel behind the list.
LEMMA Appended ==
  ASSUME NEW chs \in Seq(Channel), Listing(chs), NEW c \in Channel, Whole(c),
         \A d \in Range(chs) : Apart(d, c)
  PROVE  Listing(Append(chs, c)) /\ Range(Append(chs, c)) = Range(chs) \cup {c}
<1> DEFINE all == Append(chs, c)
<1>1. /\ Len(all) = Len(chs) + 1 /\ Len(chs) \in Nat /\ all[Len(chs) + 1] = c
      /\ \A i \in 1 .. Len(chs) : all[i] = chs[i]
      /\ all \in Seq(Channel)
  OBVIOUS
<1> HIDE DEF all
<1>2. \A i \in 1 .. Len(all) : i = Len(chs) + 1 \/ i \in 1 .. Len(chs)
  BY <1>1
<1>3. \A i \in 1 .. Len(chs) : Apart(chs[i], c) /\ Apart(c, chs[i])
  BY RangeOf DEF Apart
<1>4. Listing(all)
  BY <1>1, <1>2, <1>3 DEF Listing
<1>5. Range(all) \subseteq Range(chs) \cup {c}
  BY <1>1, <1>2, RangeOf
<1>6. Range(chs) \cup {c} \subseteq Range(all)
  <2>1. \A i \in 1 .. Len(chs) : chs[i] \in Range(all)
    <3>1. \A i \in 1 .. Len(chs) : i \in 1 .. Len(all)
      BY <1>1
    <3> QED
      BY <1>1, <3>1, RangeOf
  <2>2. c \in Range(all)
    <3>1. Len(chs) + 1 \in 1 .. Len(all)
      BY <1>1
    <3> QED
      BY <1>1, <3>1, RangeOf
  <2> QED
    BY <2>1, <2>2, RangeOf
<1> QED
  BY <1>4, <1>5, <1>6 DEF all

\* Another channel in the place of one, that has no number of the others.
Replaces(c, old, chs) == Whole(c) /\ \A d \in Range(chs) \ {old} : Apart(d, c)

\* The list with c at one place.
PutAt(chs, at, c) == [chs EXCEPT ![at] = c]

\* A channel that is replaced by one that fits.
LEMMA Replaced ==
  ASSUME NEW chs \in Seq(Channel), Listing(chs), NEW at \in 1 .. Len(chs),
         NEW c \in Channel, Replaces(c, chs[at], chs)
  PROVE  /\ Listing(PutAt(chs, at, c))
         /\ Range(PutAt(chs, at, c)) = (Range(chs) \ {chs[at]}) \cup {c}
<1> DEFINE new == PutAt(chs, at, c)
<1>1. /\ new \in Seq(Channel) /\ Len(new) = Len(chs) /\ new[at] = c
      /\ \A i \in 1 .. Len(chs) : i # at => new[i] = chs[i]
  BY DEF PutAt
<1> HIDE DEF new
<1>2. \A i \in 1 .. Len(chs) : i # at => chs[i] # chs[at]
  BY DEF Listing, Apart, Whole
<1>3. \A i \in 1 .. Len(chs) : i # at => Apart(chs[i], c) /\ Apart(c, chs[i])
  BY <1>2, RangeOf DEF Apart, Replaces
<1>4. Listing(new)
  BY <1>1, <1>3 DEF Listing, Replaces
<1>5. Range(new) \subseteq (Range(chs) \ {chs[at]}) \cup {c}
  BY ONLY <1>1, <1>2, RangeOf, chs \in Seq(Channel), at \in 1 .. Len(chs)
<1>6. (Range(chs) \ {chs[at]}) \cup {c} \subseteq Range(new)
  BY ONLY <1>1, <1>2, RangeOf, chs \in Seq(Channel), at \in 1 .. Len(chs)
<1> QED
  BY <1>4, <1>5, <1>6 DEF new

\* One list after another.
LEMMA Joined ==
  ASSUME NEW x \in Seq(Channel), NEW y \in Seq(Channel)
  PROVE  /\ x \o y \in Seq(Channel) /\ Len(x \o y) = Len(x) + Len(y)
         /\ \A i \in 1 .. Len(x) : (x \o y)[i] = x[i]
         /\ \A i \in Len(x) + 1 .. Len(x) + Len(y) : (x \o y)[i] = y[i - Len(x)]
OBVIOUS

\* The list without one channel.
LEMMA Removed ==
  ASSUME NEW chs \in Seq(Channel), Listing(chs), NEW at \in 1 .. Len(chs)
  PROVE  Listing(RemoveAt(chs, at)) /\ Range(RemoveAt(chs, at)) = Range(chs) \ {chs[at]}
<1>1. PICK n \in Nat : n = Len(chs)
  OBVIOUS
<1>2. PICK new : new = RemoveAt(chs, at)
  OBVIOUS
<1>3. /\ new \in Seq(Channel) /\ Len(new) = n - 1
      /\ \A i \in 1 .. at - 1 : new[i] = chs[i]
      /\ \A i \in at .. n - 1 : new[i] = chs[i + 1]
  <2>1. PICK x, y : x = SubSeq(chs, 1, at - 1) /\ y = SubSeq(chs, at + 1, Len(chs))
    OBVIOUS
  <2>2. /\ x \in Seq(Channel) /\ Len(x) = at - 1 /\ \A i \in 1 .. at - 1 : x[i] = chs[i]
    BY <2>1
  <2>3. /\ y \in Seq(Channel) /\ Len(y) = n - at /\ \A i \in 1 .. n - at : y[i] = chs[i + at]
    BY <1>1, <2>1
  <2>4. new = x \o y
    BY <1>2, <2>1 DEF RemoveAt
  <2>5. at \in Nat \ {0} /\ at <= n
    BY <1>1
  <2>6. /\ new \in Seq(Channel) /\ Len(new) = Len(x) + Len(y)
        /\ \A i \in 1 .. Len(x) : new[i] = x[i]
        /\ \A i \in Len(x) + 1 .. Len(x) + Len(y) : new[i] = y[i - Len(x)]
    BY <2>2, <2>3, <2>4, Joined
  <2>7. Len(new) = n - 1 /\ \A i \in 1 .. at - 1 : new[i] = x[i]
    BY ONLY <1>1, <2>2, <2>3, <2>5, <2>6
  <2>8. \A i \in at .. n - 1 : new[i] = y[i - at + 1] /\ i - at + 1 \in 1 .. n - at /\ (i - at + 1) + at = i + 1
    BY ONLY <1>1, <2>2, <2>3, <2>5, <2>6
  <2>9. \A i \in at .. n - 1 : new[i] = chs[i + 1]
    BY <2>3, <2>8
  <2> QED
    BY <2>2, <2>6, <2>7, <2>9
<1> DEFINE old(i) == IF i < at THEN i ELSE i + 1
<1>4. \A i \in 1 .. n - 1 : old(i) \in (1 .. n) \ {at} /\ new[i] = chs[old(i)]
  BY <1>1, <1>3
<1>5. \A i, j \in 1 .. n - 1 : i # j => old(i) # old(j)
  BY <1>1
<1>6. \A k \in (1 .. n) \ {at} : \E i \in 1 .. n - 1 : old(i) = k
  <2> SUFFICES ASSUME NEW k \in (1 .. n) \ {at} PROVE \E i \in 1 .. n - 1 : old(i) = k
    OBVIOUS
  <2>1. CASE k < at
    <3>1. k \in 1 .. n - 1 /\ old(k) = k
      BY <1>1, <2>1
    <3> QED
      BY <3>1
  <2>2. CASE k > at
    <3>1. k - 1 \in 1 .. n - 1 /\ old(k - 1) = k
      BY <1>1, <2>2
    <3> QED
      BY <3>1
  <2> QED
    BY <1>1, <2>1, <2>2
<1> HIDE DEF old
<1>7. \A i \in 1 .. n : i # at => chs[i] # chs[at]
  BY <1>1 DEF Listing, Apart, Whole
<1>8. Listing(new)
  BY <1>1, <1>3, <1>4, <1>5 DEF Listing
<1>9. Range(new) \subseteq Range(chs) \ {chs[at]}
  BY <1>1, <1>3, <1>4, <1>7, RangeOf
<1>10. Range(chs) \ {chs[at]} \subseteq Range(new)
  <2> SUFFICES ASSUME NEW c \in Range(chs), c # chs[at] PROVE c \in Range(new)
    OBVIOUS
  <2>1. PICK k \in 1 .. n : chs[k] = c
    BY <1>1, RangeOf
  <2>2. PICK i \in 1 .. n - 1 : old(i) = k
    BY <1>6, <2>1
  <2>3. new[i] = c /\ i \in 1 .. Len(new)
    BY <1>3, <1>4, <2>1, <2>2
  <2> QED
    BY <1>3, <2>3, RangeOf
<1> QED
  BY <1>2, <1>8, <1>9, <1>10

\* A channel is found by its number, unless one before it has none.
LEMMA Found ==
  ASSUME NEW chs \in Seq(Channel), NEW e, NEW chan, NEW i \in 1 .. Len(chs), NumberedBy(chs[i], e) = chan
  PROVE  /\ get_channel(chs, chan, e).raised \in {"no", "unnumbered channel"}
         /\ Listing(chs) /\ chan # None /\ get_channel(chs, chan, e).raised = "no" =>
              get_channel(chs, chan, e).at = i
<1> DEFINE I == {j \in 1 .. Len(chs) : NumberedBy(chs[j], e) = chan}
<1>1. Position(chs, chan, e) = IF I # {} THEN Min(I) ELSE 0
  BY DEF Position, SelectInSeq
<1>2. I \subseteq Nat /\ i \in I
  OBVIOUS
<1>3. Min(I) \in I
  <2> HIDE DEF I
  <2> QED
    BY <1>2, LeastOf
<1>4. Position(chs, chan, e) \in I
  BY <1>1, <1>2, <1>3
<1>5. Position(chs, chan, e) # 0
  BY <1>4
<1>6. Listing(chs) /\ chan # None => \A j \in I : j = i
  BY DEF Listing, Apart, NumberedBy
<1> HIDE DEF I
<1> QED
  BY <1>4, <1>5, <1>6 DEF get_channel

-----------------------------------------------------------------------------
(* What a packet does to the channels.                                     *)

Answers == {"confirm", "open failure"}
Asks    == {"session request", "sftp request"}
Uses    == {"data", "close"} \cup Asks

\* The number that a packet gives to a channel.
Gives(p) == IF p.kind \in {"open", "open tcpip"} THEN {p.chan}
            ELSE IF p.kind = "confirm" THEN {p.peer} ELSE {}

\* The channels S are such that p keeps to the standard, coming from e.
Expected(S, e, p) ==
  /\ \A i \in Gives(p) : i # None /\ \A c \in S : Own(c, e) # i
  /\ p.kind \in Answers =>
       p.chan # None /\ \E c \in S : NumberedBy(c, e) = p.chan /\ Own(c, e) = None
  /\ p.kind \in Uses =>
       p.chan # None /\ \E c \in S :
         /\ NumberedBy(c, e) = p.chan /\ Own(c, e) # None
         /\ e \notin c.closed /\ (p.kind = "data" => c.session)

\* q may follow p: it gives another number, and uses no channel that p answered
\* for or closed.
Follows(p, q) ==
  /\ Gives(p) \cap Gives(q) = {}
  /\ p.kind \in Answers /\ q.kind \in Answers => p.chan # q.chan
  /\ p.kind = "close" /\ q.kind \in Uses => p.chan # q.chan

\* The channel that p opens, one with a session, and one that e closed.
Opened(e, p) == NewChannel(e, p.chan, p.kind = "open tcpip")
Asked(c)     == [c EXCEPT !.session = TRUE]
Shut(c, e)   == [c EXCEPT !.closed = @ \cup {e}]

\* Packets that may leave the channels alone: some of them when they are not sent on.
Leaves == {"ignore", "userauth", "other request", "data", "open tcpip", "sftp request"}

\* What p from e makes of the channels S is T.
Turns(S, T, e, p) ==
  \/ /\ p.kind \in {"open", "open tcpip"}
     /\ T = S \cup {Opened(e, p)}
  \/ p.kind \in Leaves /\ T = S
  \/ \E c \in S :
       /\ NumberedBy(c, e) = p.chan /\ p.chan # None
       /\ \/ /\ p.kind = "confirm" /\ Own(c, e) = None
             /\ T = (S \ {c}) \cup {Confirm(c, e, p)}
          \/ p.kind = "open failure" /\ Own(c, e) = None /\ T = S \ {c}
          \/ /\ p.kind \in Asks /\ Own(c, e) # None
             /\ T = (S \ {c}) \cup {Asked(c)}
          \/ /\ p.kind = "close" /\ Own(c, e) # None /\ Other(e) \in c.closed
             /\ T = S \ {c}
          \/ /\ p.kind = "close" /\ Own(c, e) # None /\ Other(e) \notin c.closed
             /\ T = (S \ {c}) \cup {Shut(c, e)}

\* A packet that turns a channel of S turns S.
LEMMA TurnsOne ==
  ASSUME NEW S, NEW T, NEW e, NEW p, NEW c \in S, NumberedBy(c, e) = p.chan, p.chan # None,
         \/ p.kind = "confirm" /\ Own(c, e) = None /\ T = (S \ {c}) \cup {Confirm(c, e, p)}
         \/ p.kind = "open failure" /\ Own(c, e) = None /\ T = S \ {c}
         \/ p.kind \in Asks /\ Own(c, e) # None /\ T = (S \ {c}) \cup {Asked(c)}
         \/ p.kind = "close" /\ Own(c, e) # None /\ Other(e) \in c.closed /\ T = S \ {c}
         \/ /\ p.kind = "close" /\ Own(c, e) # None /\ Other(e) \notin c.closed
            /\ T = (S \ {c}) \cup {Shut(c, e)}
  PROVE  Turns(S, T, e, p)
BY DEF Turns

\* What replaces a channel, and a new one: their numbers.
LEMMA Replacements ==
  ASSUME NEW c \in Channel, NEW e \in Ends, NEW p \in Packet
  PROVE  /\ /\ Confirm(c, e, p) \in Channel
            /\ NumberedBy(Confirm(c, e, p), e) = NumberedBy(c, e) /\ Own(Confirm(c, e, p), e) = p.peer
         /\ /\ Asked(c) \in Channel /\ NumberedBy(Asked(c), e) = NumberedBy(c, e)
            /\ Own(Asked(c), e) = Own(c, e) /\ Asked(c).session /\ Asked(c).closed = c.closed
         /\ /\ Shut(c, e) \in Channel /\ NumberedBy(Shut(c, e), e) = NumberedBy(c, e)
            /\ Own(Shut(c, e), e) = Own(c, e)
            /\ (Shut(c, e).session <=> c.session) /\ Shut(c, e).closed = c.closed \cup {e}
<1> USE DEF Asked, Shut
<1>1. e = "frontend" \/ e = "backend"
  BY DEF Ends
<1>2. CASE e = "frontend"
  BY <1>2 DEF Channel, Packet, Ends, Confirm, NumberedBy, Own, Other
<1>3. CASE e = "backend"
  BY <1>3 DEF Channel, Packet, Ends, Confirm, NumberedBy, Own, Other
<1> QED
  BY <1>1, <1>2, <1>3

\* The numbers of a channel that was just opened.
LEMMA OpenedFits ==
  ASSUME NEW e \in Ends, NEW p \in Packet
  PROVE  Opened(e, p) \in Channel /\ NumberedBy(Opened(e, p), e) = None /\ Own(Opened(e, p), e) = p.chan
BY DEF Opened, Channel, Packet, Ends, NumberedBy, Own, Other, NewChannel

\* Apart, by the numbers of one end.
LEMMA ApartBy ==
  ASSUME NEW c, NEW d, NEW e \in Ends
  PROVE  Apart(c, d) <=> (/\ NumberedBy(c, e) = NumberedBy(d, e) => NumberedBy(c, e) = None
                          /\ Own(c, e) = Own(d, e) => Own(c, e) = None)
BY DEF Apart, NumberedBy, Own, Other, Ends

\* So is being whole.
LEMMA WholeBy ==
  ASSUME NEW c, NEW e \in Ends
  PROVE  Whole(c) <=> (NumberedBy(c, e) # None \/ Own(c, e) # None)
BY DEF Whole, NumberedBy, Own, Other, Ends

\* A channel with the numbers of the one it replaces fits as that one did.
LEMMA SameNumbers ==
  ASSUME NEW c, NEW d, NEW chs, NEW e \in Ends, NumberedBy(d, e) = NumberedBy(c, e), Own(d, e) = Own(c, e),
         Whole(c), \A x \in Range(chs) \ {c} : Apart(x, c)
  PROVE  Replaces(d, c, chs)
<1>1. d.serverID = c.serverID /\ d.clientID = c.clientID
  BY DEF NumberedBy, Own, Other, Ends
<1> QED
  BY <1>1 DEF Replaces, Whole, Apart

\* What end e may still expect of its own later packets.
LEMMA OwnStays ==
  ASSUME NEW S \in SUBSET Channel, \A c, d \in S : c # d => Apart(c, d), NEW T, NEW e \in Ends,
         NEW p \in Packet, NEW q \in Packet,
         Expected(S, e, p), Expected(S, e, q), Follows(p, q), Turns(S, T, e, p)
  PROVE  Expected(T, e, q)
<1>1. \A c, d \in S : NumberedBy(c, e) = NumberedBy(d, e) /\ NumberedBy(c, e) # None => c = d
  BY ApartBy
<1>2. CASE /\ p.kind \in {"open", "open tcpip"}
           /\ T = S \cup {Opened(e, p)}
  <2>1. PICK n : n = Opened(e, p) /\ Own(n, e) = p.chan
    BY OpenedFits
  <2>2. p.chan \in Gives(p)
    BY <1>2 DEF Gives
  <2>3. \A i \in Gives(q) : \A c \in T : Own(c, e) # i
    BY <1>2, <2>1, <2>2 DEF Expected, Follows
  <2> QED
    BY <1>2, <2>3 DEF Expected
<1>3. CASE T = S
  BY <1>3
<1>4. ASSUME NEW c \in S, NumberedBy(c, e) = p.chan, p.chan # None,
             \/ /\ p.kind = "confirm" /\ Own(c, e) = None
                /\ T = (S \ {c}) \cup {Confirm(c, e, p)}
             \/ p.kind = "open failure" /\ Own(c, e) = None /\ T = S \ {c}
      PROVE  Expected(T, e, q)
  <2>1. PICK n : n = Confirm(c, e, p) /\ Own(n, e) = p.peer
    BY Replacements
  <2>2. T \subseteq S \cup {n} /\ S \ {c} \subseteq T /\ (n \in T => n \in S \/ p.kind = "confirm")
    BY <1>4, <2>1
  <2>3. \A i \in Gives(q) : \A d \in T : Own(d, e) # i
    <3>1. p.kind = "confirm" => p.peer \in Gives(p)
      BY DEF Gives
    <3> QED
      BY <2>1, <2>2, <3>1 DEF Expected, Follows
  <2>4. q.kind \in Answers => \E d \in T : NumberedBy(d, e) = q.chan /\ Own(d, e) = None
    <3>1. p.kind \in Answers
      BY <1>4 DEF Answers
    <3> QED
      BY <1>4, <2>2, <3>1 DEF Expected, Follows
  <2>5. q.kind \in Uses => \E d \in T :
          /\ NumberedBy(d, e) = q.chan /\ Own(d, e) # None
          /\ e \notin d.closed /\ (q.kind = "data" => d.session)
    BY <1>4, <2>2 DEF Expected
  <2> QED
    BY <2>3, <2>4, <2>5 DEF Expected
<1>5. ASSUME NEW c \in S, NumberedBy(c, e) = p.chan, p.chan # None, Own(c, e) # None,
             \/ /\ p.kind = "close"
                /\ T = S \ {c} \/ T = (S \ {c}) \cup {Shut(c, e)}
             \/ p.kind \in Asks /\ T = (S \ {c}) \cup {Asked(c)}
      PROVE  Expected(T, e, q)
  <2>1. PICK n, s : /\ n = Shut(c, e) /\ s = Asked(c)
                    /\ Own(n, e) = Own(c, e) /\ NumberedBy(n, e) = p.chan
                    /\ Own(s, e) = Own(c, e) /\ NumberedBy(s, e) = p.chan
                    /\ s.session /\ s.closed = c.closed
    <3>1. c \in Channel /\ NumberedBy(c, e) = p.chan
      BY <1>5
    <3> QED
      BY ONLY <3>1, e \in Ends, p \in Packet, Replacements
  <2>2. /\ T \subseteq S \cup {n, s} /\ S \ {c} \subseteq T
        /\ p.kind \in Asks => s \in T
        /\ p.kind \in {"close"} \cup Asks
    <3>1. CASE p.kind = "close" /\ (T = S \ {c} \/ T = (S \ {c}) \cup {Shut(c, e)})
      BY <2>1, <3>1 DEF Asks
    <3>2. CASE p.kind \in Asks /\ T = (S \ {c}) \cup {Asked(c)}
      BY <2>1, <3>2
    <3> QED
      BY <1>5, <3>1, <3>2
  <2>3. \A i \in Gives(q) : \A d \in T : Own(d, e) # i
    BY <2>1, <2>2 DEF Expected
  <2>4. q.kind \in Answers => \E d \in T : NumberedBy(d, e) = q.chan /\ Own(d, e) = None
    BY <1>5, <2>2 DEF Expected
  <2>5. ASSUME q.kind \in Uses
        PROVE  \E d \in T :
                 /\ NumberedBy(d, e) = q.chan /\ Own(d, e) # None
                 /\ e \notin d.closed /\ (q.kind = "data" => d.session)
    <3>1. PICK d \in S : /\ NumberedBy(d, e) = q.chan /\ Own(d, e) # None
                         /\ e \notin d.closed /\ (q.kind = "data" => d.session)
      BY <2>5 DEF Expected
    <3>2. CASE d # c
      BY <2>2, <3>1, <3>2
    <3>3. CASE d = c
      <4>1. p.kind # "close"
        BY <1>5, <2>5, <3>1, <3>3 DEF Follows
      <4> QED
        BY <1>5, <2>1, <2>2, <3>1, <3>3, <4>1
    <3> QED
      BY <3>2, <3>3
  <2> QED
    BY <2>3, <2>4, <2>5 DEF Expected
<1> QED
  BY <1>2, <1>3, <1>4, <1>5 DEF Turns

\* What the other end sends later is not disturbed.
LEMMA OtherStays ==
  ASSUME NEW S \in SUBSET Channel, \A c, d \in S : c # d => Apart(c, d), NEW T, NEW e \in Ends,
         NEW p \in Packet, NEW q \in Packet,
         Expected(S, Other(e), q), Turns(S, T, e, p)
  PROVE  Expected(T, Other(e), q)
<1> DEFINE o == Other(e)
<1>1. o \in Ends /\ Other(o) = e /\ o # e
  BY DEF Other, Ends
<1>2. \A c : NumberedBy(c, o) = Own(c, e) /\ Own(c, o) = NumberedBy(c, e)
  BY <1>1 DEF Own
<1>3. \A c, d \in S : NumberedBy(c, o) = NumberedBy(d, o) /\ NumberedBy(c, o) # None => c = d
  BY <1>1, ApartBy
<1> SUFFICES Expected(T, o, q)
  OBVIOUS
<1> HIDE DEF o
<1>a. Expected(S, o, q)
  BY DEF o
<1>4. CASE /\ p.kind \in {"open", "open tcpip"}
           /\ T = S \cup {Opened(e, p)}
  <2>1. PICK n : n = Opened(e, p) /\ NumberedBy(n, e) = None
    BY OpenedFits
  <2>2. \A i \in Gives(q) : \A c \in T : Own(c, o) # i
    BY <1>2, <1>4, <1>a, <2>1 DEF Expected
  <2> QED
    BY <1>4, <1>a, <2>2 DEF Expected
<1>5. CASE T = S
  BY <1>5, <1>a
<1>6. ASSUME NEW c \in S, NumberedBy(c, e) = p.chan, p.chan # None,
             \/ /\ p.kind = "confirm" /\ Own(c, e) = None
                /\ T = (S \ {c}) \cup {Confirm(c, e, p)}
             \/ p.kind = "open failure" /\ Own(c, e) = None /\ T = S \ {c}
      PROVE  Expected(T, o, q)
  <2>1. PICK n : n = Confirm(c, e, p) /\ NumberedBy(n, e) = NumberedBy(c, e)
    BY Replacements
  <2>2. T \subseteq S \cup {n} /\ S \ {c} \subseteq T
    BY <1>6, <2>1
  <2>3. \A i \in Gives(q) : \A d \in T : Own(d, o) # i
    BY <1>2, <1>a, <2>1, <2>2 DEF Expected
  <2> QED
    BY <1>2, <1>6, <1>a, <2>2, <2>3 DEF Expected
<1>7. ASSUME NEW c \in S, NumberedBy(c, e) = p.chan, p.chan # None, Own(c, e) # None,
             \/ p.kind = "close" /\ o \in c.closed /\ T = S \ {c}
             \/ T = (S \ {c}) \cup {Shut(c, e)}
             \/ T = (S \ {c}) \cup {Asked(c)}
      PROVE  Expected(T, o, q)
  <2>1. PICK n, s : /\ n = Shut(c, e) /\ s = Asked(c)
                    /\ Own(n, e) = Own(c, e) /\ NumberedBy(n, e) = p.chan
                    /\ Own(s, e) = Own(c, e) /\ NumberedBy(s, e) = p.chan
                    /\ s.session /\ s.closed = c.closed
                    /\ (n.session <=> c.session) /\ n.closed = c.closed \cup {e}
    BY <1>7, Replacements
  <2>2. /\ T \subseteq S \cup {n, s} /\ S \ {c} \subseteq T
        /\ s \in T \/ n \in T \/ o \in c.closed
    BY <1>7, <2>1
  <2>3. \A i \in Gives(q) : \A d \in T : Own(d, o) # i
    BY <1>2, <1>7, <1>a, <2>1, <2>2 DEF Expected
  <2>4. q.kind \in Answers => \E d \in T : NumberedBy(d, o) = q.chan /\ Own(d, o) = None
    BY <1>2, <1>7, <1>a, <2>2 DEF Expected
  <2>5. ASSUME q.kind \in Uses
        PROVE  \E d \in T :
                 /\ NumberedBy(d, o) = q.chan /\ Own(d, o) # None
                 /\ o \notin d.closed /\ (q.kind = "data" => d.session)
    <3>1. PICK d \in S : /\ NumberedBy(d, o) = q.chan /\ Own(d, o) # None
                         /\ o \notin d.closed /\ (q.kind = "data" => d.session)
      BY <1>a, <2>5 DEF Expected
    <3>2. CASE d # c
      BY <2>2, <3>1, <3>2
    <3>3. CASE d = c
      BY <1>1, <1>2, <1>7, <2>1, <2>2, <3>1, <3>3
    <3> QED
      BY <3>2, <3>3
  <2> QED
    BY <1>a, <2>3, <2>4, <2>5 DEF Expected
<1> QED
  BY <1>4, <1>5, <1>6, <1>7 DEF Turns, o

\* No two channels of a list have a number in common.
LEMMA ListingApart ==
  ASSUME NEW chs \in Seq(Channel), Listing(chs)
  PROVE  /\ \A c, d \in Range(chs) : c # d => Apart(c, d)
         /\ \A c \in Range(chs) : Whole(c)
BY RangeOf DEF Listing

\* CHANNEL_OPEN, with a number that is free.
LEMMA OpenTurns ==
  ASSUME NEW st \in Outcome, st.raised = "no", Listing(st.channels), NEW e \in Ends, NEW p \in Packet,
         p.kind \in {"open", "open tcpip"}, Expected(Range(st.channels), e, p),
         NEW r, r = OpenChannel(st, e, p)
  PROVE  /\ r.raised # "no such channel"
         /\ Listing(r.channels) /\ Turns(Range(st.channels), Range(r.channels), e, p)
<1>1. PICK chs, c, all : chs = st.channels /\ c = Opened(e, p) /\ all = Append(chs, c)
  OBVIOUS
<1>2. chs \in Seq(Channel) /\ c \in Channel /\ NumberedBy(c, e) = None /\ Own(c, e) = p.chan
  BY <1>1, OpenedFits DEF Outcome
<1>3. p.chan # None /\ \A d \in Range(chs) : Own(d, e) # p.chan
  BY <1>1 DEF Expected, Gives
<1>4. Whole(c) /\ \A d \in Range(chs) : Apart(d, c)
  BY <1>2, <1>3, ApartBy, WholeBy
<1>5. Listing(all) /\ Range(all) = Range(chs) \cup {c}
  BY <1>1, <1>2, <1>4, Appended
<1>6. /\ r.channels = all
      /\ r.raised = IF p.kind = "open" THEN "no" ELSE get_channel(all, p.chan, Other(e)).raised
  BY <1>1 DEF OpenChannel, Opened, Outcome
<1>7. get_channel(all, p.chan, Other(e)).raised \in {"no", "unnumbered channel"}
  <2>1. /\ all \in Seq(Channel) /\ Len(chs) + 1 \in 1 .. Len(all) /\ all[Len(chs) + 1] = c
    <3>1. /\ Append(chs, c) \in Seq(Channel) /\ Len(chs) + 1 \in 1 .. Len(Append(chs, c))
          /\ Append(chs, c)[Len(chs) + 1] = c
      BY ONLY <1>2
    <3> QED
      BY <1>1, <3>1
  <2>2. NumberedBy(all[Len(chs) + 1], Other(e)) = p.chan
    BY <1>2, <2>1 DEF Own
  <2> QED
    BY <2>1, <2>2, Found
<1> QED
  BY <1>1, <1>5, <1>6, <1>7 DEF Turns

\* A packet that answers for a channel or uses one.
LEMMA OnChannelTurns ==
  ASSUME NEW st \in Outcome, st.raised = "no", Listing(st.channels), NEW e \in Ends, NEW p \in Packet,
         p.kind \in Answers \cup Uses, Expected(Range(st.channels), e, p),
         NEW r, r = OnChannel(st, e, p)
  PROVE  /\ r.raised # "no such channel"
         /\ r.raised = "no" =>
              Listing(r.channels) /\ Turns(Range(st.channels), Range(r.channels), e, p)
<1>1. PICK chs : chs = st.channels
  OBVIOUS
<1>2. chs \in Seq(Channel) /\ Listing(chs) /\ p.kind # "other request"
  BY <1>1 DEF Outcome, Answers, Uses, Asks
<1>3. p.chan # None
  BY DEF Expected
<1>4. PICK i \in 1 .. Len(chs) :
        /\ NumberedBy(chs[i], e) = p.chan
        /\ p.kind \in Answers => Own(chs[i], e) = None
        /\ p.kind \in Uses => /\ Own(chs[i], e) # None /\ e \notin chs[i].closed
                              /\ p.kind = "data" => chs[i].session
  <2>1. PICK c \in Range(chs) :
          /\ NumberedBy(c, e) = p.chan
          /\ p.kind \in Answers => Own(c, e) = None
          /\ p.kind \in Uses => /\ Own(c, e) # None /\ e \notin c.closed
                                /\ p.kind = "data" => c.session
    <3>1. CASE p.kind \in Answers
      <4>1. p.kind \notin Uses
        BY <3>1 DEF Answers, Uses, Asks
      <4> QED
        BY <1>1, <3>1, <4>1 DEF Expected
    <3>2. CASE p.kind \in Uses
      <4>1. p.kind \notin Answers
        BY <3>2 DEF Answers, Uses, Asks
      <4> QED
        BY <1>1, <3>2, <4>1 DEF Expected
    <3> QED
      BY <3>1, <3>2
  <2>2. PICK i \in 1 .. Len(chs) : chs[i] = c
    BY <1>2, RangeOf
  <2> QED
    BY ONLY <2>1, <2>2, i \in 1 .. Len(chs)
<1>5. PICK c : c = chs[i]
  OBVIOUS
<1>6. c \in Range(chs) /\ c \in Channel
  BY <1>2, <1>5, RangeOf
<1>7. PICK found : found = get_channel(chs, p.chan, e)
  OBVIOUS
<1>t. PICK S, T : S = Range(chs) /\ T = Range(r.channels)
  OBVIOUS
<1>u. NumberedBy(c, e) = p.chan /\ p.chan # None /\ c \in S
  BY ONLY <1>3, <1>4, <1>5, <1>6, <1>t
<1>8. found.raised \in {"no", "unnumbered channel"} /\ (found.raised = "no" => found.at = i)
  BY <1>2, <1>3, <1>4, <1>7, Found
<1>9. CASE found.raised # "no"
  <2>1. r = [st EXCEPT !.raised = found.raised]
    BY <1>1, <1>2, <1>7, <1>8, <1>9 DEF OnChannel
  <2> QED
    BY <1>8, <1>9, <2>1 DEF Outcome
<1>10. CASE found.raised = "no"
  <2>0. found.at = i
    BY <1>8, <1>10
  <2>a. \A d \in Range(chs) \ {c} : Apart(d, c)
    BY <1>2, <1>6, ListingApart
  <2>b. Whole(c)
    BY <1>2, <1>6, ListingApart
  <2>1. CASE p.kind = "confirm"
    <3>1. PICK d : d = Confirm(c, e, p)
      OBVIOUS
    <3>2. d \in Channel /\ NumberedBy(d, e) = p.chan /\ Own(d, e) = p.peer
      BY <1>4, <1>5, <1>6, <3>1, Replacements
    <3>3. \A x \in Range(chs) : Own(x, e) # p.peer
      BY <1>1, <2>1 DEF Expected, Gives
    <3>4. Replaces(d, c, chs)
      BY <1>3, <1>4, <1>5, <2>a, <3>2, <3>3, ApartBy, WholeBy DEF Replaces
    <3>5. r = [st EXCEPT !.channels[i] = Confirm(@, e, p)]
      BY <1>1, <1>7, <1>10, <2>0, <2>1 DEF OnChannel
    <3>6. r.channels = PutAt(chs, i, d) /\ r.raised = "no"
      BY <1>1, <1>2, <1>5, <3>1, <3>5 DEF Outcome, PutAt
    <3>7. Listing(r.channels) /\ Range(r.channels) = (Range(chs) \ {c}) \cup {d}
      <4>1. Replaces(d, chs[i], chs) /\ d \in Channel
        BY <1>5, <3>2, <3>4
      <4>2. /\ Listing(PutAt(chs, i, d))
            /\ Range(PutAt(chs, i, d)) = (Range(chs) \ {chs[i]}) \cup {d}
        BY ONLY <1>2, <4>1, i \in 1 .. Len(chs), Replaced
      <4> QED
        BY <1>5, <3>6, <4>2
    <3>8. Own(c, e) = None
      BY <1>4, <1>5, <2>1 DEF Answers
    <3> QED
      <4>1. Turns(S, T, e, p)
        BY ONLY <1>t, <1>u, <2>1, <3>1, <3>7, <3>8, TurnsOne
      <4> QED
        BY ONLY <1>1, <1>t, <3>6, <3>7, <4>1
  <2>2. CASE p.kind = "open failure"
    <3>1. r = [st EXCEPT !.channels = RemoveAt(@, i)]
      BY <1>1, <1>7, <1>10, <2>0, <2>2 DEF OnChannel
    <3>2. r.channels = RemoveAt(chs, i) /\ r.raised = "no"
      BY <1>1, <3>1 DEF Outcome
    <3>3. Listing(r.channels) /\ Range(r.channels) = Range(chs) \ {c}
      BY <1>2, <1>5, <3>2, Removed
    <3>4. Own(c, e) = None
      BY <1>4, <1>5, <2>2 DEF Answers
    <3> QED
      <4>1. Turns(S, T, e, p)
        BY ONLY <1>t, <1>u, <2>2, <3>3, <3>4, TurnsOne
      <4> QED
        BY ONLY <1>1, <1>t, <3>2, <3>3, <4>1
  <2>3. CASE p.kind \in Asks
    <3>1. PICK d : d = Asked(c)
      OBVIOUS
    <3>2. d \in Channel /\ NumberedBy(d, e) = NumberedBy(c, e) /\ Own(d, e) = Own(c, e)
      BY <1>6, <3>1, Replacements
    <3>3. Replaces(d, c, chs)
      BY ONLY <2>a, <2>b, <3>2, e \in Ends, SameNumbers
    <3>4. r = IF Withheld(p) THEN st ELSE [st EXCEPT !.channels[i].session = TRUE]
      BY <1>1, <1>7, <1>10, <2>0, <2>3 DEF OnChannel, Asks
    <3>5. CASE Withheld(p)
      <4>1. r = st /\ p.kind \in Leaves
        BY <2>3, <3>4, <3>5 DEF Withheld, Asks, Leaves
      <4> QED
        BY <4>1 DEF Turns
    <3>6. CASE ~ Withheld(p)
      <4>1. r.channels = PutAt(chs, i, d) /\ r.raised = "no"
        BY <1>1, <1>2, <1>5, <3>1, <3>4, <3>6 DEF Outcome, Asked, PutAt
      <4>2. Listing(r.channels) /\ Range(r.channels) = (Range(chs) \ {c}) \cup {d}
        <5>1. Replaces(d, chs[i], chs) /\ d \in Channel
          BY <1>5, <3>2, <3>3
        <5>2. /\ Listing(PutAt(chs, i, d))
              /\ Range(PutAt(chs, i, d)) = (Range(chs) \ {chs[i]}) \cup {d}
          BY ONLY <1>2, <5>1, i \in 1 .. Len(chs), Replaced
        <5> QED
          BY <1>5, <4>1, <5>2
      <4>3. Own(c, e) # None
        BY <1>4, <1>5, <2>3 DEF Uses, Asks
      <4> QED
        <5>1. Turns(S, T, e, p)
          BY ONLY <1>t, <1>u, <2>3, <3>1, <4>2, <4>3, TurnsOne
        <5> QED
          BY ONLY <1>1, <1>t, <4>1, <4>2, <5>1
    <3> QED
      BY <3>5, <3>6
  <2>4. CASE p.kind = "close"
    <3>1. r = [st EXCEPT !.channels = CloseChannel(@, i, e)]
      BY <1>1, <1>7, <1>10, <2>0, <2>4 DEF OnChannel
    <3>2. r.channels = CloseChannel(chs, i, e) /\ r.raised = "no"
      BY <1>1, <3>1 DEF Outcome
    <3>3. Own(c, e) # None
      BY <1>4, <1>5, <2>4 DEF Uses, Asks
    <3>4. CASE Other(e) \in c.closed
      <4>1. r.channels = RemoveAt(chs, i)
        BY <1>5, <3>2, <3>4 DEF CloseChannel
      <4>2. Listing(r.channels) /\ Range(r.channels) = Range(chs) \ {c}
        BY <1>2, <1>5, <4>1, Removed
      <4> QED
        <5>1. Turns(S, T, e, p)
          BY ONLY <1>t, <1>u, <2>4, <3>3, <3>4, <4>2, TurnsOne
        <5> QED
          BY ONLY <1>1, <1>t, <3>2, <4>2, <5>1
    <3>5. CASE Other(e) \notin c.closed
      <4>1. PICK d : d = Shut(c, e)
        OBVIOUS
      <4>2. d \in Channel /\ NumberedBy(d, e) = NumberedBy(c, e) /\ Own(d, e) = Own(c, e)
        BY <1>6, <4>1, Replacements
      <4>3. Replaces(d, c, chs)
        BY ONLY <2>a, <2>b, <4>2, e \in Ends, SameNumbers
      <4>4. r.channels = PutAt(chs, i, d)
        BY <1>2, <1>5, <3>2, <3>5, <4>1 DEF CloseChannel, Shut, PutAt
      <4>5. Listing(r.channels) /\ Range(r.channels) = (Range(chs) \ {c}) \cup {d}
        <5>1. Replaces(d, chs[i], chs) /\ d \in Channel
          BY <1>5, <4>2, <4>3
        <5>2. /\ Listing(PutAt(chs, i, d))
              /\ Range(PutAt(chs, i, d)) = (Range(chs) \ {chs[i]}) \cup {d}
          BY ONLY <1>2, <5>1, i \in 1 .. Len(chs), Replaced
        <5> QED
          BY <1>5, <4>4, <5>2
      <4> QED
        <5>1. Turns(S, T, e, p)
          BY ONLY <1>t, <1>u, <2>4, <3>3, <3>5, <4>1, <4>5, TurnsOne
        <5> QED
          BY ONLY <1>1, <1>t, <3>2, <4>5, <5>1
    <3> QED
      BY <3>4, <3>5
  <2>5. CASE p.kind = "data"
    <3>1. r = [st EXCEPT !.raised = IF st.channels[i].session THEN "no" ELSE "no such channel"]
      BY <1>1, <1>7, <1>10, <2>0, <2>5 DEF OnChannel
    <3>2. chs[i].session
      BY <1>4, <2>5 DEF Uses, Asks
    <3>3. r.channels = chs /\ r.raised = "no"
      BY <1>1, <3>1, <3>2 DEF Outcome
    <3> QED
      BY <1>1, <1>2, <2>5, <3>3 DEF Turns, Leaves
  <2> QED
    BY <2>1, <2>2, <2>3, <2>4, <2>5 DEF Answers, Uses, Asks
<1> QED
  BY <1>9, <1>10

\* A packet that was to be expected finds its channel.
LEMMA ParseTurns ==
  ASSUME NEW st \in Outcome, st.raised = "no", Listing(st.channels), NEW e \in Ends, NEW p \in Packet,
         Expected(Range(st.channels), e, p), NEW r, r = parse_packet(st, e, p)
  PROVE  /\ r.raised # "no such channel"
         /\ r.raised = "no" =>
              Listing(r.channels) /\ Turns(Range(st.channels), Range(r.channels), e, p)
<1>1. PICK read : read = Parsed(st, e, p)
  OBVIOUS
<1>2. /\ read.raised # "no such channel"
      /\ read.raised = "no" =>
           Listing(read.channels) /\ Turns(Range(st.channels), Range(read.channels), e, p)
  <2>1. CASE p.kind \in {"open", "open tcpip"}
    <3>1. CASE Withheld(p)
      <4>1. read = st /\ p.kind \in Leaves
        BY <1>1, <2>1, <3>1 DEF Parsed, Withheld, Leaves
      <4> QED
        BY <4>1 DEF Turns
    <3>2. CASE ~ Withheld(p)
      <4>1. read = OpenChannel(st, e, p)
        BY <1>1, <2>1, <3>2 DEF Parsed
      <4> QED
        BY <2>1, <4>1, OpenTurns
    <3> QED
      BY <3>1, <3>2
  <2>2. CASE p.kind = "tcpip-forward"
    BY <1>1, <2>2 DEF Parsed, Outcome
  <2>3. CASE p.kind \in {"ignore", "userauth"}
    BY <1>1, <2>3 DEF Parsed, Turns, Leaves
  <2>4. CASE p.kind \in Answers \cup Uses
    <3>1. read = OnChannel(st, e, p)
      BY <1>1, <2>4 DEF Parsed, Answers, Uses, Asks
    <3> QED
      BY <2>4, <3>1, OnChannelTurns
  <2>5. CASE p.kind = "other request"
    <3>1. read = OnChannel(st, e, p)
      BY <1>1, <2>5 DEF Parsed
    <3>2. PICK found : found = get_channel(st.channels, p.chan, e)
      OBVIOUS
    <3>3. \/ read = st
          \/ found.raised \notin {"no", "no such channel"} /\ read = [st EXCEPT !.raised = found.raised]
      BY <2>5, <3>1, <3>2 DEF OnChannel
    <3> QED
      BY <2>5, <3>3 DEF Turns, Leaves, Outcome
  <2> QED
    BY <2>1, <2>2, <2>3, <2>4, <2>5 DEF Packet, Kinds, Answers, Uses, Asks
<1>3. read \in Outcome
  <2>1. CASE p.kind \in {"open", "open tcpip"}
    BY <1>1, <2>1, OpenFits DEF Parsed
  <2>2. CASE p.kind = "tcpip-forward"
    BY <1>1, <2>2 DEF Parsed, Outcome, Causes
  <2>3. CASE p.kind \in {"ignore", "userauth"}
    BY <1>1, <2>3 DEF Parsed
  <2>4. CASE p.kind \notin {"open", "open tcpip", "tcpip-forward", "ignore", "userauth"}
    BY <1>1, <2>4, OnChannelFits DEF Parsed
  <2> QED
    BY <2>1, <2>2, <2>3, <2>4
<1>4. \/ r = read
      \/ r = [read EXCEPT !.raised = "attacker gone"]
      \/ r = [read EXCEPT !.kept[e] = @ \cup {[kind |-> p.kind, number |-> p.number]}]
      \/ r = [read EXCEPT !.passed[e] = Append(@, p.number)]
  BY <1>1 DEF parse_packet, SentOn
<1>5. /\ r.raised \in {read.raised, "attacker gone"}
      /\ r.raised = "no" => read.raised = "no"
      /\ r.channels = read.channels
  <2>1. CASE r = read
    <3>1. r.raised = "no" => read.raised = "no"
      BY <2>1
    <3> QED
      BY <2>1
  <2>2. CASE r = [read EXCEPT !.raised = "attacker gone"]
    BY <1>3, <2>2 DEF Outcome
  <2>3. CASE r = [read EXCEPT !.passed[e] = Append(@, p.number)]
    BY <1>3, <2>3 DEF Outcome
  <2>4. CASE r = [read EXCEPT !.kept[e] = @ \cup {[kind |-> p.kind, number |-> p.number]}]
    BY <1>3, <2>4 DEF Outcome
  <2> QED
    BY <1>4, <2>1, <2>2, <2>3, <2>4
<1> QED
  BY <1>2, <1>5

-----------------------------------------------------------------------------
(* What is held back.                                                      *)

\* Of the packets ps from e those after the first n may still be parsed in their order.
Waiting(S, e, ps, n) ==
  /\ \A k \in n + 1 .. Len(ps) : Expected(S, e, ps[k])
  /\ \A k, m \in n + 1 .. Len(ps) : k < m => Follows(ps[k], ps[m])

\* Until an exception the list agrees with what both ends are still to be heard of.
ChannelInv ==
  protocol = "ssh" /\ dropped = "no" =>
    Listing(channels) /\ \A e \in Ends : Waiting(Range(channels), e, delayed[e], 0)

\* What is held back of the other end stays as good as it was.
LEMMA OtherHeld ==
  ASSUME NEW st \in Outcome, st.raised = "no", Listing(st.channels), NEW e \in Ends, NEW p \in Packet,
         Expected(Range(st.channels), e, p),
         NEW qs \in Seq(Packet), Waiting(Range(st.channels), Other(e), qs, 0),
         NEW r, r = parse_packet(st, e, p), r.raised = "no"
  PROVE  Waiting(Range(r.channels), Other(e), qs, 0)
<1>1. PICK S, T : S = Range(st.channels) /\ T = Range(r.channels)
  OBVIOUS
<1>2. S \in SUBSET Channel /\ \A c, d \in S : c # d => Apart(c, d)
  <2>1. st.channels \in Seq(Channel)
    BY DEF Outcome
  <2> QED
    BY <1>1, <2>1, RangeOf, ListingApart
<1>3. Turns(S, T, e, p)
  BY <1>1, ParseTurns
<1>4. \A k \in 1 .. Len(qs) : qs[k] \in Packet /\ Expected(S, Other(e), qs[k])
  BY <1>1 DEF Waiting
<1>5. \A k \in 1 .. Len(qs) : Expected(T, Other(e), qs[k])
  BY <1>2, <1>3, <1>4, OtherStays
<1> QED
  BY <1>1, <1>5 DEF Waiting

\* So does what is held back behind a packet.
LEMMA OwnHeld ==
  ASSUME NEW st \in Outcome, st.raised = "no", Listing(st.channels), NEW e \in Ends,
         NEW ps \in Seq(Packet), NEW n \in 1 .. Len(ps), Waiting(Range(st.channels), e, ps, n - 1),
         NEW r, r = parse_packet(st, e, ps[n])
  PROVE  /\ Expected(Range(st.channels), e, ps[n]) /\ r.raised # "no such channel"
         /\ r.raised = "no" => Listing(r.channels) /\ Waiting(Range(r.channels), e, ps, n)
<1>1. PICK S, T, p : S = Range(st.channels) /\ T = Range(r.channels) /\ p = ps[n]
  OBVIOUS
<1>2. S \in SUBSET Channel /\ \A c, d \in S : c # d => Apart(c, d)
  <2>1. st.channels \in Seq(Channel)
    BY DEF Outcome
  <2> QED
    BY <1>1, <2>1, RangeOf, ListingApart
<1>3. \A k \in n + 1 .. Len(ps) : k \in n .. Len(ps) /\ n < k /\ ps[k] \in Packet
  OBVIOUS
<1>4. n \in n .. Len(ps) /\ (n - 1) + 1 = n /\ p \in Packet
  BY <1>1
<1>5. Expected(S, e, p) /\ \A k \in n + 1 .. Len(ps) : Expected(S, e, ps[k]) /\ Follows(p, ps[k])
  BY <1>1, <1>3, <1>4 DEF Waiting
<1>6. /\ r.raised # "no such channel"
      /\ r.raised = "no" => Listing(r.channels) /\ Turns(S, T, e, p)
  BY <1>1, <1>4, <1>5, ParseTurns
<1>7. ASSUME r.raised = "no" PROVE Waiting(T, e, ps, n)
  <2>1. \A k \in n + 1 .. Len(ps) : Expected(T, e, ps[k])
    BY <1>2, <1>3, <1>4, <1>5, <1>6, <1>7, OwnStays
  <2>2. \A k, m \in n + 1 .. Len(ps) : k < m => Follows(ps[k], ps[m])
    BY <1>1, <1>3, <1>4 DEF Waiting
  <2> QED
    BY <2>1, <2>2 DEF Waiting
<1> QED
  BY <1>1, <1>5, <1>6, <1>7

\* All that is held back finds its channels.
LEMMA FlushTurns ==
  ASSUME NEW st \in Outcome, st.raised = "no", Listing(st.channels), NEW e \in Ends,
         NEW ps \in Seq(Sent(e)), Waiting(Range(st.channels), e, ps, 0),
         NEW qs \in Seq(Packet), Waiting(Range(st.channels), Other(e), qs, 0),
         NEW r, r = parse_all(st, e, ps)
  PROVE  /\ r.raised # "no such channel"
         /\ r.raised = "no" => Listing(r.channels) /\ Waiting(Range(r.channels), Other(e), qs, 0)
<1>1. ps \in Seq(Packet)
  BY SentArePackets
<1>2. PICK f \in [0 .. Len(ps) -> Outcome] :
        /\ f[0] = st
        /\ \A k \in 1 .. Len(ps) : f[k] = parse_packet(f[k - 1], e, ps[k])
        /\ r = f[Len(ps)]
  BY ParseAllRuns
<1> DEFINE Good(n) == /\ f[n].raised # "no such channel"
                      /\ f[n].raised = "no" => /\ Listing(f[n].channels)
                                               /\ Waiting(Range(f[n].channels), e, ps, n)
                                               /\ Waiting(Range(f[n].channels), Other(e), qs, 0)
           Bad == {n \in 0 .. Len(ps) : ~ Good(n)}
<1>3. Good(0)
  BY <1>2
<1>4. ASSUME NEW n \in 1 .. Len(ps), Good(n - 1) PROVE Good(n)
  <2>1. PICK s, t : s = f[n - 1] /\ t = f[n] /\ t = parse_packet(s, e, ps[n]) /\ s \in Outcome
    BY <1>2
  <2>2. CASE s.raised # "no"
    <3>1. t = s
      BY <2>1, <2>2 DEF parse_packet, SentOn
    <3> QED
      BY <1>4, <2>1, <2>2, <3>1
  <2>3. CASE s.raised = "no"
    <3>1. /\ Listing(s.channels) /\ Waiting(Range(s.channels), e, ps, n - 1)
          /\ Waiting(Range(s.channels), Other(e), qs, 0)
      BY <1>4, <2>1, <2>3
    <3>2. /\ Expected(Range(s.channels), e, ps[n]) /\ t.raised # "no such channel"
          /\ t.raised = "no" => Listing(t.channels) /\ Waiting(Range(t.channels), e, ps, n)
      BY <1>1, <2>1, <2>3, <3>1, OwnHeld
    <3>3. ps[n] \in Packet
      BY <1>1
    <3>4. t.raised = "no" => Waiting(Range(t.channels), Other(e), qs, 0)
      BY <2>1, <2>3, <3>1, <3>2, <3>3, OtherHeld
    <3> QED
      BY <2>1, <3>2, <3>4
  <2> QED
    BY <2>2, <2>3
<1> HIDE DEF Good
<1>5. Bad = {}
  <2> SUFFICES ASSUME Bad # {} PROVE FALSE
    OBVIOUS
  <2>1. Bad \subseteq Nat
    OBVIOUS
  <2>2. PICK m \in Bad : \A k \in Bad : m <= k
    <3> HIDE DEF Bad
    <3> QED
      BY <2>1, LeastNumber
  <2>3. m \in 1 .. Len(ps) /\ m - 1 \in 0 .. Len(ps) /\ m - 1 \notin Bad
    BY <1>3, <2>2
  <2> QED
    BY <1>4, <2>2, <2>3
<1>6. Len(ps) \in 0 .. Len(ps)
  OBVIOUS
<1> QED
  BY <1>2, <1>5, <1>6 DEF Good

\* q may be parsed next of e, once the packets ps that are held back were.
Awaits(S, e, ps, q) == Expected(S, e, q) /\ \A k \in 1 .. Len(ps) : Follows(ps[k], q)

\* A packet about one of some channels.
LEMMA AboutOne ==
  ASSUME NEW cs, NEW e, NEW kinds, NEW p \in About(cs, e, kinds)
  PROVE  \E c \in cs : p.kind \in kinds /\ p.chan = NumberedBy(c, e)
BY DEF About

\* What an end may send was to be expected, also behind what is held back of it.
LEMMA LegalExpected ==
  ASSUME IInv, NEW e \in Ends, Listing(channels), Waiting(Range(channels), e, delayed[e], 0),
         NEW b, NEW p \in Legal(e, b), NEW q, q = Arrives(e, p)
  PROVE  Awaits(Range(channels), e, delayed[e], q)
<1>1. PICK S, D : S = Range(channels) /\ D = delayed[e]
  OBVIOUS
<1>2. channels \in Seq(Channel) /\ D \in Seq(Packet)
  BY <1>1 DEF IInv, TypeOK, SshTypeOK
<1>3. Listed = S /\ \A c \in S : Whole(c)
  BY <1>1, <1>2, ListingApart DEF Listed
<1>4. \A k \in 1 .. Len(D) : D[k] \in Range(delayed[e])
  BY <1>1, <1>2 DEF Range
<1>5. \A i \in FreeNumbers(e) :
        /\ i # None /\ \A c \in S : Own(c, e) # i
        /\ \A k \in 1 .. Len(D) : i \notin Gives(D[k])
  <2> SUFFICES ASSUME NEW i \in FreeNumbers(e)
               PROVE  /\ i # None /\ \A c \in S : Own(c, e) # i
                      /\ \A k \in 1 .. Len(D) : i \notin Gives(D[k])
    OBVIOUS
  <2>1. i # None /\ \A c \in S : Own(c, e) # i
    BY <1>3, NoneAssumption DEF FreeNumbers, Own
  <2>2. ASSUME NEW k \in 1 .. Len(D) PROVE i \notin Gives(D[k])
    <3>1. D[k].kind \in {"open", "open tcpip"} => D[k].chan # i
      BY <1>4 DEF FreeNumbers, Awaited
    <3>2. D[k].peer # i
      BY <1>4 DEF FreeNumbers
    <3> QED
      BY <3>1, <3>2 DEF Gives
  <2> QED
    BY <2>1, <2>2
<1>6. \A c \in Unanswered(e) :
        /\ c \in S /\ Own(c, e) = None /\ NumberedBy(c, e) # None
        /\ \A k \in 1 .. Len(D) : D[k].kind \in Answers => D[k].chan # NumberedBy(c, e)
  <2> SUFFICES ASSUME NEW c \in Unanswered(e)
               PROVE  /\ c \in S /\ Own(c, e) = None /\ NumberedBy(c, e) # None
                      /\ \A k \in 1 .. Len(D) : D[k].kind \in Answers => D[k].chan # NumberedBy(c, e)
    OBVIOUS
  <2>1. c \in S /\ Own(c, e) = None
    BY <1>3 DEF Unanswered, Own
  <2>2. NumberedBy(c, e) # None
    BY <1>3, <2>1, WholeBy
  <2>3. \A k \in 1 .. Len(D) : D[k].kind \in Answers => D[k].chan # NumberedBy(c, e)
    BY <1>4 DEF Unanswered, Awaited, Answers
  <2> QED
    BY <2>1, <2>2, <2>3
<1>7. \A c \in Usable(e) :
        /\ c \in S /\ Own(c, e) # None /\ NumberedBy(c, e) # None /\ e \notin c.closed
        /\ \A k \in 1 .. Len(D) : D[k].kind = "close" => D[k].chan # NumberedBy(c, e)
  <2> SUFFICES ASSUME NEW c \in Usable(e)
               PROVE  /\ c \in S /\ Own(c, e) # None /\ NumberedBy(c, e) # None /\ e \notin c.closed
                      /\ \A k \in 1 .. Len(D) : D[k].kind = "close" => D[k].chan # NumberedBy(c, e)
    OBVIOUS
  <2>1. c \in S /\ e \notin c.closed /\ Own(c, e) # None /\ NumberedBy(c, e) # None
    BY <1>3 DEF Usable, Own, NumberedBy, Other
  <2>2. \A k \in 1 .. Len(D) : D[k].kind = "close" => D[k].chan # NumberedBy(c, e)
    BY <1>4 DEF Usable, Awaited
  <2> QED
    BY <2>1, <2>2
<1>8. q.kind = p.kind /\ q.chan = p.chan /\ q.peer = p.peer
  BY DEF Arrives
<1>9. ASSUME p.kind \in {"ignore", "tcpip-forward", "userauth", "other request"} PROVE Awaits(S, e, D, q)
  <2>1. Gives(q) = {} /\ q.kind \notin Answers /\ q.kind \notin Uses
    BY ONLY <1>8, <1>9 DEF Gives, Answers, Uses, Asks
  <2> QED
    BY ONLY <2>1 DEF Expected, Follows, Awaits
<1>10. ASSUME p \in Opens(e) PROVE Awaits(S, e, D, q)
  <2>1. PICK k \in Openers(e), i \in FreeNumbers(e) : p.kind = k /\ p.chan = i
    BY ONLY <1>10 DEF Opens
  <2>2. p.kind \in {"open", "open tcpip"}
    BY ONLY <2>1 DEF Openers
  <2>3. Gives(q) = {i} /\ q.kind \notin Answers /\ q.kind \notin Uses
    BY ONLY <1>8, <2>1, <2>2 DEF Gives, Answers, Uses, Asks
  <2>4. Expected(S, e, q)
    BY ONLY <1>5, <2>3, i \in FreeNumbers(e) DEF Expected
  <2>5. \A m \in 1 .. Len(D) : Follows(D[m], q)
    BY ONLY <1>5, <2>3, i \in FreeNumbers(e) DEF Follows
  <2> QED
    BY ONLY <2>4, <2>5 DEF Awaits
<1>11. ASSUME p \in Confirms(e) PROVE Awaits(S, e, D, q)
  <2>1. PICK c \in Unanswered(e), i \in FreeNumbers(e) :
          p.kind = "confirm" /\ p.chan = NumberedBy(c, e) /\ p.peer = i
    BY ONLY <1>11 DEF Confirms
  <2>2. Gives(q) = {i} /\ q.kind \in Answers /\ q.kind \notin Uses /\ q.chan = NumberedBy(c, e)
    BY ONLY <1>8, <2>1 DEF Gives, Answers, Uses, Asks
  <2>4. Expected(S, e, q)
    BY ONLY <1>5, <1>6, <2>2, i \in FreeNumbers(e), c \in Unanswered(e) DEF Expected
  <2>5. \A m \in 1 .. Len(D) : Follows(D[m], q)
    BY ONLY <1>5, <1>6, <2>2, i \in FreeNumbers(e), c \in Unanswered(e) DEF Follows
  <2> QED
    BY ONLY <2>4, <2>5 DEF Awaits
<1>12. ASSUME p \in About(Unanswered(e), e, {"open failure"}) PROVE Awaits(S, e, D, q)
  <2>1. PICK c \in Unanswered(e) : p.kind = "open failure" /\ p.chan = NumberedBy(c, e)
    <3>1. PICK cs, kinds : cs = Unanswered(e) /\ kinds = {"open failure"}
      OBVIOUS
    <3>2. p \in About(cs, e, kinds)
      BY ONLY <1>12, <3>1
    <3>3. PICK c \in cs : p.kind \in kinds /\ p.chan = NumberedBy(c, e)
      BY ONLY <3>2, AboutOne
    <3> QED
      BY ONLY <3>1, <3>3, c \in cs
  <2>2. Gives(q) = {} /\ q.kind \in Answers /\ q.kind \notin Uses /\ q.chan = NumberedBy(c, e)
    BY ONLY <1>8, <2>1 DEF Gives, Answers, Uses, Asks
  <2>4. Expected(S, e, q)
    BY ONLY <1>6, <2>2, c \in Unanswered(e) DEF Expected
  <2>5. \A m \in 1 .. Len(D) : Follows(D[m], q)
    BY ONLY <1>6, <2>2, c \in Unanswered(e) DEF Follows
  <2> QED
    BY ONLY <2>4, <2>5 DEF Awaits
<1>13. ASSUME NEW c \in Usable(e), p.kind \in Uses, p.chan = NumberedBy(c, e), p.kind = "data" => c.session
       PROVE  Awaits(S, e, D, q)
  <2>2. Gives(q) = {} /\ q.kind \notin Answers /\ q.kind \in Uses /\ q.chan = NumberedBy(c, e)
    BY ONLY <1>8, <1>13 DEF Gives, Answers, Uses, Asks
  <2>4. Expected(S, e, q)
    BY ONLY <1>7, <1>8, <1>13, <2>2 DEF Expected
  <2>5. \A m \in 1 .. Len(D) : Follows(D[m], q)
    BY ONLY <1>7, <1>13, <2>2 DEF Follows
  <2> QED
    BY ONLY <2>4, <2>5 DEF Awaits
<1>14. ASSUME p \in About(Usable(e), e, {"other request", "close"}) PROVE Awaits(S, e, D, q)
  <2>1. PICK c \in Usable(e) : p.kind \in {"other request", "close"} /\ p.chan = NumberedBy(c, e)
    <3>1. PICK cs, kinds : cs = Usable(e) /\ kinds = {"other request", "close"}
      OBVIOUS
    <3>2. p \in About(cs, e, kinds)
      BY ONLY <1>14, <3>1
    <3>3. PICK c \in cs : p.kind \in kinds /\ p.chan = NumberedBy(c, e)
      BY ONLY <3>2, AboutOne
    <3> QED
      BY ONLY <3>1, <3>3, c \in cs
  <2>2. CASE p.kind = "other request"
    BY ONLY <1>9, <2>2
  <2>3. CASE p.kind = "close"
    <3>1. p.kind \in Uses /\ p.kind # "data"
      BY ONLY <2>3 DEF Uses, Asks
    <3> QED
      BY ONLY <1>13, <2>1, <3>1
  <2> QED
    BY ONLY <2>1, <2>2, <2>3
<1>15. ASSUME p \in About({c \in Usable(e) : c.session}, e, {"data"}) PROVE Awaits(S, e, D, q)
  <2>1. PICK c \in Usable(e) : c.session /\ p.kind = "data" /\ p.chan = NumberedBy(c, e)
    <3>1. PICK cs, kinds : cs = {c \in Usable(e) : c.session} /\ kinds = {"data"}
      OBVIOUS
    <3>2. p \in About(cs, e, kinds)
      BY ONLY <1>15, <3>1
    <3>3. PICK c \in cs : p.kind \in kinds /\ p.chan = NumberedBy(c, e)
      BY ONLY <3>2, AboutOne
    <3> QED
      BY ONLY <3>1, <3>3, c \in cs
  <2>2. p.kind \in Uses
    BY ONLY <2>1 DEF Uses, Asks
  <2> QED
    BY ONLY <1>13, <2>1, <2>2
<1>16. ASSUME p \in About(Usable(e), e, Asks) PROVE Awaits(S, e, D, q)
  <2>1. PICK c \in Usable(e) : p.kind \in Asks /\ p.chan = NumberedBy(c, e)
    <3>1. PICK cs, kinds : cs = Usable(e) /\ kinds = Asks
      OBVIOUS
    <3>2. p \in About(cs, e, kinds)
      BY ONLY <1>16, <3>1
    <3>3. PICK c \in cs : p.kind \in kinds /\ p.chan = NumberedBy(c, e)
      BY ONLY <3>2, AboutOne
    <3> QED
      BY ONLY <3>1, <3>3, c \in cs
  <2>2. p.kind \in Uses /\ p.kind # "data"
    BY ONLY <2>1 DEF Uses, Asks
  <2> QED
    BY ONLY <1>13, <2>1, <2>2
<1> DEFINE bare     == {Bare("ignore"), Bare("userauth"), Bare("tcpip-forward")}
           refused  == About(Unanswered(e), e, {"open failure"})
           used     == About(Usable(e), e, {"other request", "close"})
           fed      == About({c \in Usable(e) : c.session}, e, {"data"})
           asked    == About(Usable(e), e, Asks)
<1>17. p \in bare \cup Opens(e) \cup Confirms(e) \cup refused \cup used \cup fed \cup asked
  BY DEF Legal, Asks
<1>a. p \in bare => Awaits(S, e, D, q)
  <2>1. \A k : Bare(k).kind = k
    BY DEF Bare
  <2> QED
    BY <1>9, <2>1
<1>b. p \in Opens(e) \/ p \in Confirms(e) => Awaits(S, e, D, q)
  BY ONLY <1>10, <1>11
<1>c. p \in refused => Awaits(S, e, D, q)
  BY ONLY <1>12
<1>d. p \in used => Awaits(S, e, D, q)
  BY ONLY <1>14
<1>e. p \in fed => Awaits(S, e, D, q)
  BY ONLY <1>15
<1>f. p \in asked => Awaits(S, e, D, q)
  BY ONLY <1>16
<1>18. Awaits(S, e, D, q)
  <2> HIDE DEF bare, refused, used, fed, asked
  <2>1. \/ p \in bare \/ p \in Opens(e) \/ p \in Confirms(e)
        \/ p \in refused \/ p \in used \/ p \in fed \/ p \in asked
    BY ONLY <1>17
  <2> QED
    BY ONLY <1>a, <1>b, <1>c, <1>d, <1>e, <1>f, <2>1
<1> QED
  BY <1>1, <1>18

-----------------------------------------------------------------------------
(* The steps.                                                              *)

\* What is proved to be inductive, given IInv.
CInv == ChannelInv /\ ChannelsKnown

\* A packet that may come next is held back behind the others.
LEMMA HeldBehind ==
  ASSUME NEW S, NEW e, NEW ps \in Seq(Packet), Waiting(S, e, ps, 0),
         NEW q \in Packet, Awaits(S, e, ps, q)
  PROVE  Waiting(S, e, Append(ps, q), 0)
<1>1. PICK all : all = Append(ps, q)
  OBVIOUS
<1>2. /\ Len(ps) \in Nat /\ Len(all) = Len(ps) + 1 /\ all[Len(ps) + 1] = q
      /\ \A k \in 1 .. Len(ps) : all[k] = ps[k]
  BY <1>1
<1>3. /\ \A k \in 1 .. Len(all) : k \in 1 .. Len(ps) \/ k = Len(ps) + 1
      /\ \A k, m \in 1 .. Len(all) : k < m => k \in 1 .. Len(ps)
      /\ 0 + 1 = 1
  BY <1>2
<1>4. /\ \A k \in 1 .. Len(ps) : Expected(S, e, ps[k])
      /\ \A k, m \in 1 .. Len(ps) : k < m => Follows(ps[k], ps[m])
      /\ Expected(S, e, q) /\ \A k \in 1 .. Len(ps) : Follows(ps[k], q)
  BY <1>3 DEF Waiting, Awaits
<1>5. \A k \in 1 .. Len(all) : Expected(S, e, all[k])
  BY ONLY <1>2, <1>3, <1>4
<1>6. \A k, m \in 1 .. Len(all) : k < m => Follows(all[k], all[m])
  BY ONLY <1>2, <1>3, <1>4
<1> QED
  BY <1>1, <1>3, <1>5, <1>6 DEF Waiting

\* Nothing is held back.
LEMMA NoneHeld == ASSUME NEW S, NEW e PROVE Waiting(S, e, << >>, 0)
BY DEF Waiting

\* Steps that parse nothing.
LEMMA ChannelsStay ==
  ASSUME CInv, UNCHANGED <<protocol, channels, delayed>>,
         dropped' \in {dropped, "cut line"}
  PROVE  CInv'
BY DEF CInv, ChannelInv, ChannelsKnown

\* What holds after packets of e were parsed and none of them is held back.
LEMMA Settled ==
  ASSUME CInv, NEW e \in Ends, NEW st,
         dropped = "no" =>
           /\ st.raised # "no such channel"
           /\ st.raised = "no" => /\ Listing(st.channels)
                                  /\ Waiting(Range(st.channels), Other(e), delayed[Other(e)], 0),
         channels' = st.channels, dropped' = IF dropped = "no" THEN st.raised ELSE dropped,
         dropped' = "no" => delayed'[e] = << >> /\ delayed'[Other(e)] = delayed[Other(e)]
  PROVE  CInv'
<1>1. ChannelsKnown'
  BY DEF CInv, ChannelsKnown
<1>2. ASSUME dropped' = "no"
      PROVE  Listing(channels') /\ \A d \in Ends : Waiting(Range(channels'), d, delayed'[d], 0)
  <2>1. dropped = "no" /\ st.raised = "no"
    BY <1>2
  <2>2. Listing(channels') /\ Waiting(Range(channels'), Other(e), delayed'[Other(e)], 0)
    BY <1>2, <2>1
  <2>3. Waiting(Range(channels'), e, delayed'[e], 0)
    <3>1. delayed'[e] = << >>
      BY <1>2
    <3> QED
      BY <3>1, NoneHeld
  <2>4. \A d \in Ends : d = e \/ d = Other(e)
    BY ONLY e \in Ends DEF Ends, Other
  <2> QED
    BY <2>2, <2>3, <2>4
<1> QED
  BY <1>1, <1>2 DEF CInv, ChannelInv

\* A login on the guest, with the flush of what was held back for it.
LEMMA FlushKnown ==
  ASSUME IInv, CInv, protocol = "ssh", protocol' = protocol, NEW a, NEW b, authenticateBackend(a, b)
  PROVE  CInv'
<1>1. CASE ~ (a /\ b)
  BY <1>1, ChannelsStay DEF authenticateBackend
<1>2. CASE a /\ b
  <2>1. PICK s, st, ps : s = State /\ ps = delayed["frontend"] /\ st = parse_all(s, "frontend", ps)
    OBVIOUS
  <2>2. /\ channels' = st.channels /\ dropped' = IF dropped = "no" THEN st.raised ELSE dropped
        /\ st.raised = "no" => delayed' = [delayed EXCEPT !["frontend"] = << >>]
    BY <1>2, <2>1 DEF authenticateBackend, Keep, Note
  <2>3. /\ delayed \in [Ends -> Seq(Packet)] /\ delayed["frontend"] \in Seq(Sent("frontend"))
        /\ "frontend" \in Ends /\ Other("frontend") = "backend" /\ "backend" \in Ends
    BY DEF IInv, KeepInv, TypeOK, SshTypeOK, Ends, Other
  <2>4. ASSUME dropped = "no"
        PROVE  /\ st.raised # "no such channel"
               /\ st.raised = "no" => /\ Listing(st.channels)
                                      /\ Waiting(Range(st.channels), "backend", delayed["backend"], 0)
    <3>1. s \in Outcome /\ s.raised = "no" /\ s.channels = channels
      BY <2>1, StateFits
    <3>2. /\ Listing(channels) /\ Waiting(Range(channels), "frontend", ps, 0)
          /\ Waiting(Range(channels), "backend", delayed["backend"], 0)
      BY <2>1, <2>3, <2>4 DEF CInv, ChannelInv
    <3>3. ps \in Seq(Sent("frontend")) /\ delayed["backend"] \in Seq(Packet)
      BY <2>1, <2>3
    <3> QED
      BY <2>1, <2>3, <3>1, <3>2, <3>3, FlushTurns
  <2>5. dropped' = "no" => delayed'["frontend"] = << >> /\ delayed'["backend"] = delayed["backend"]
    BY <2>2, <2>3
  <2> QED
    BY <2>2, <2>3, <2>4, <2>5, Settled
<1> QED
  BY <1>1, <1>2

\* A packet that is held back.
LEMMA KeptKnown ==
  ASSUME IInv, CInv, protocol = "ssh", protocol' = protocol, NEW e \in Ends, NEW b,
         NEW p \in Legal(e, b), packets[e] < MaxPackets, NEW q, q = Arrives(e, p),
         delayed' = [delayed EXCEPT ![e] = Append(@, q)], UNCHANGED <<channels, dropped>>
  PROVE  CInv'
<1>1. delayed \in [Ends -> Seq(Packet)] /\ q \in Packet
  <2>1. q \in Sent(e)
    BY LegalFits
  <2> QED
    BY <2>1 DEF Sent, IInv, TypeOK, SshTypeOK
<1>2. delayed'[e] = Append(delayed[e], q) /\ \A d \in Ends : d # e => delayed'[d] = delayed[d]
  BY <1>1
<1>3. ASSUME dropped = "no"
      PROVE  Listing(channels) /\ \A d \in Ends : Waiting(Range(channels), d, delayed'[d], 0)
  <2>1. Listing(channels) /\ \A d \in Ends : Waiting(Range(channels), d, delayed[d], 0)
    BY <1>3 DEF CInv, ChannelInv
  <2>2. Awaits(Range(channels), e, delayed[e], q)
    BY <2>1, LegalExpected
  <2>3. Waiting(Range(channels), e, delayed'[e], 0)
    BY <1>1, <1>2, <2>1, <2>2, HeldBehind
  <2> QED
    BY <1>2, <2>1, <2>3
<1> QED
  BY <1>3 DEF CInv, ChannelInv, ChannelsKnown

\* A packet of the attacker.
LEMMA FrontendKnown ==
  ASSUME IInv, CInv, protocol = "ssh", NEW p \in Legal("frontend", frontendAuthenticated),
         FrontendPacket(p)
  PROVE  CInv'
<1> DEFINE f == "frontend"
<1>0. PICK q, s, st : q = Arrives(f, p) /\ s = State /\ st = parse_packet(s, f, q)
  OBVIOUS
<1>1. /\ packets[f] < MaxPackets /\ protocol' = protocol
      /\ \/ /\ delayed' = [delayed EXCEPT ![f] = Append(@, q)]
            /\ UNCHANGED <<channels, dropped>>
         \/ /\ delayed[f] = << >> /\ delayed' = delayed /\ channels' = st.channels
            /\ dropped' = IF dropped = "no" THEN st.raised ELSE dropped
  BY <1>0 DEF FrontendPacket, Keep, Note
<1>2. /\ delayed \in [Ends -> Seq(Packet)] /\ f \in Ends /\ Other(f) = "backend" /\ "backend" \in Ends
      /\ q \in Packet
  <2>1. f \in Ends
    BY DEF Ends
  <2>2. q \in Sent(f)
    BY <1>0, <1>1, <2>1, LegalFits
  <2> QED
    BY <2>2 DEF Sent, IInv, TypeOK, SshTypeOK, Ends, Other
<1>3. CASE /\ delayed' = [delayed EXCEPT ![f] = Append(@, q)]
           /\ UNCHANGED <<channels, dropped>>
  BY <1>0, <1>1, <1>2, <1>3, KeptKnown
<1>4. CASE /\ delayed[f] = << >> /\ delayed' = delayed /\ channels' = st.channels
           /\ dropped' = IF dropped = "no" THEN st.raised ELSE dropped
  <2>1. ASSUME dropped = "no"
        PROVE  /\ st.raised # "no such channel"
               /\ st.raised = "no" => /\ Listing(st.channels)
                                      /\ Waiting(Range(st.channels), "backend", delayed["backend"], 0)
    <3>1. s \in Outcome /\ s.raised = "no" /\ s.channels = channels
      BY <1>0, StateFits
    <3>2. /\ Listing(channels) /\ Waiting(Range(channels), f, delayed[f], 0)
          /\ Waiting(Range(channels), "backend", delayed["backend"], 0)
      BY <1>2, <2>1 DEF CInv, ChannelInv
    <3>3. Expected(Range(channels), f, q)
      BY <1>0, <1>2, <3>2, LegalExpected DEF Awaits
    <3>4. st.raised # "no such channel" /\ (st.raised = "no" => Listing(st.channels))
      BY <1>0, <1>2, <3>1, <3>2, <3>3, ParseTurns
    <3>5. delayed["backend"] \in Seq(Packet)
      BY <1>2
    <3>6. st.raised = "no" => Waiting(Range(st.channels), "backend", delayed["backend"], 0)
      BY <1>0, <1>2, <3>1, <3>2, <3>3, <3>5, OtherHeld
    <3> QED
      BY <3>4, <3>6
  <2> QED
    BY <1>2, <1>4, <2>1, Settled
<1> QED
  BY <1>1, <1>3, <1>4

\* A packet of the guest.
LEMMA BackendKnown ==
  ASSUME IInv, CInv, protocol = "ssh", NEW p \in Legal("backend", authDone), BackendPacket(p)
  PROVE  CInv'
<1> DEFINE b == "backend"
<1>0. PICK q, s, all, st : /\ q = Arrives(b, p) /\ s = State /\ all = Append(delayed[b], q)
                           /\ st = parse_all(s, b, all)
  OBVIOUS
<1>1. /\ packets[b] < MaxPackets /\ protocol' = protocol
      /\ \/ /\ delayed' = [delayed EXCEPT ![b] = Append(@, q)]
            /\ UNCHANGED <<channels, dropped>>
         \/ /\ channels' = st.channels
            /\ dropped' = IF dropped = "no" THEN st.raised ELSE dropped
            /\ st.raised = "no" => delayed' = [delayed EXCEPT ![b] = << >>]
  BY <1>0 DEF BackendPacket, Keep, Note
<1>2. /\ delayed \in [Ends -> Seq(Packet)] /\ b \in Ends /\ Other(b) = "frontend" /\ "frontend" \in Ends
      /\ q \in Packet /\ q \in Sent(b) /\ delayed[b] \in Seq(Sent(b))
  <2>1. b \in Ends
    BY DEF Ends
  <2>2. q \in Sent(b)
    BY <1>0, <1>1, <2>1, LegalFits
  <2> QED
    BY <2>2 DEF Sent, IInv, KeepInv, TypeOK, SshTypeOK, Ends, Other
<1>3. CASE /\ delayed' = [delayed EXCEPT ![b] = Append(@, q)]
           /\ UNCHANGED <<channels, dropped>>
  BY <1>0, <1>1, <1>2, <1>3, KeptKnown
<1>4. CASE /\ channels' = st.channels
           /\ dropped' = IF dropped = "no" THEN st.raised ELSE dropped
           /\ st.raised = "no" => delayed' = [delayed EXCEPT ![b] = << >>]
  <2>1. ASSUME dropped = "no"
        PROVE  /\ st.raised # "no such channel"
               /\ st.raised = "no" => /\ Listing(st.channels)
                                      /\ Waiting(Range(st.channels), "frontend", delayed["frontend"], 0)
    <3>1. s \in Outcome /\ s.raised = "no" /\ s.channels = channels
      BY <1>0, StateFits
    <3>2. /\ Listing(channels) /\ Waiting(Range(channels), b, delayed[b], 0)
          /\ Waiting(Range(channels), "frontend", delayed["frontend"], 0)
      BY <1>2, <2>1 DEF CInv, ChannelInv
    <3>3. Awaits(Range(channels), b, delayed[b], q)
      BY <1>0, <1>2, <3>2, LegalExpected
    <3>4. delayed[b] \in Seq(Packet) /\ delayed["frontend"] \in Seq(Packet) /\ all \in Seq(Sent(b))
      BY <1>0, <1>2
    <3>5. Waiting(Range(channels), b, all, 0)
      BY <1>0, <1>2, <3>2, <3>3, <3>4, HeldBehind
    <3> QED
      BY <1>0, <1>2, <3>1, <3>2, <3>4, <3>5, FlushTurns
  <2>2. dropped' = "no" => delayed'[b] = << >> /\ delayed'["frontend"] = delayed["frontend"]
    BY <1>2, <1>4
  <2> QED
    BY <1>2, <1>4, <2>1, <2>2, Settled
<1> QED
  BY <1>1, <1>3, <1>4

\* Whatever the two peers send, in whatever order and however much of it is
\* held back, a packet that keeps to the standard finds its channel, and the
\* session of it, in the list that get_channel searches.
THEOREM ChannelsAgree == Spec => []ChannelsKnown
<1>1. Init => CInv
  <2> SUFFICES ASSUME Init PROVE CInv
    OBVIOUS
  <2>1. channels = << >> /\ delayed = [e \in Ends |-> << >>] /\ dropped = "no"
    BY DEF Init, SshStart, ConnectionMade
  <2>2. Listing(channels)
    BY <2>1 DEF Listing
  <2>3. \A e \in Ends : Waiting(Range(channels), e, delayed[e], 0)
    BY <2>1 DEF Waiting
  <2> QED
    BY <2>1, <2>2, <2>3 DEF CInv, ChannelInv, ChannelsKnown
<1>2. IInv /\ CInv /\ [Next]_proxyvars => CInv'
  <2> SUFFICES ASSUME IInv, CInv, [Next]_proxyvars PROVE CInv'
    OBVIOUS
  <2>1. CASE SessionNext /\ UNCHANGED <<traffic, sshvars, telnetvars>>
    <3>1. protocol' = protocol
      BY <2>1 DEF SessionNext, PoolConnectionSuccess, PoolConnectionError, PoolRefused, ReceivedPoolData,
                  BackendConnectionSuccess, BackendConnectionError, TimeoutConnection,
                  FrontConnectionLost, BackendConnectionLost
    <3> QED
      BY <2>1, <3>1, ChannelsStay DEF traffic, sshvars
  <2>2. CASE protocol = "ssh" /\ SshNext
    <3>1. CASE VersionReceived
      BY <3>1, ChannelsStay DEF VersionReceived, traffic, sshvars
    <3>2. ASSUME NEW granted \in BOOLEAN, Userauth(granted) PROVE CInv'
      <4>1. protocol' = protocol /\ authenticateBackend(granted, canAuth /\ back \in {"up", "closing"})
        BY <3>2 DEF Userauth
      <4> QED
        BY <2>2, <4>1, FlushKnown
    <3>3. CASE ConnectionSecure
      <4>1. protocol' = protocol /\ authenticateBackend(frontendAuthenticated, TRUE)
        BY <3>3 DEF ConnectionSecure
      <4> QED
        BY <2>2, <4>1, FlushKnown
    <3>4. ASSUME NEW p \in Legal("frontend", frontendAuthenticated), FrontendPacket(p) PROVE CInv'
      BY <2>2, <3>4, FrontendKnown
    <3>5. ASSUME NEW p \in Legal("backend", authDone), BackendPacket(p) PROVE CInv'
      BY <2>2, <3>5, BackendKnown
    <3>6. CASE LoginAccepted
      BY <3>6, ChannelsStay DEF LoginAccepted, session
    <3> QED
      BY <2>2, <3>1, <3>2, <3>3, <3>4, <3>5, <3>6 DEF SshNext
  <2>3. CASE protocol = "telnet" /\ TelnetNext /\ UNCHANGED sshvars
    <3>1. ASSUME NEW input \in Inputs, NEW granted \in BOOLEAN, FrontendData(input, granted)
          PROVE  protocol' = protocol /\ dropped' \in {dropped, "cut line"}
      BY <3>1 DEF FrontendData, CutLine, FinishLine
    <3>2. ASSUME NEW output \in Outputs, BackendData(output)
          PROVE  protocol' = protocol /\ dropped' \in {dropped, "cut line"}
      BY <3>2 DEF BackendData, session
    <3> QED
      BY <2>3, <3>1, <3>2, ChannelsStay DEF TelnetNext, sshvars
  <2>4. CASE UNCHANGED proxyvars
    BY <2>4, ChannelsStay DEF proxyvars, session, traffic, sshvars
  <2> QED
    BY <2>1, <2>2, <2>3, <2>4 DEF Next
<1>3. CInv => ChannelsKnown
  BY DEF CInv
<1> QED
  BY <1>1, <1>2, <1>3, Invariance, PTL DEF Spec
=============================================================================
