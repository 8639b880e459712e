-------------------------- MODULE SipServer_proof --------------------------
(***************************************************************************)
(* What the run of SipServer checks on three peers and two calls, for any  *)
(* peers, calls and combinations of headers: what the reports under a      *)
(* session say, and that a call is granted once.                           *)
(***************************************************************************)
EXTENDS SipServer, FiniteSetTheorems, SequenceTheorems, TLAPS

-----------------------------------------------------------------------------
(* What one message does.                                                  *)

\* The reports of one message grow the list at its end.
LEMMA AppendFacts ==
  ASSUME NEW q \in Seq(Report), NEW e \in Report
  PROVE  /\ Append(q, e) \in Seq(Report)
         /\ Len(Append(q, e)) = Len(q) + 1 /\ Len(q) \in Nat
         /\ \A i \in 1 .. Len(q) : q[i] \in Report /\ Append(q, e)[i] = q[i]
         /\ Append(q, e)[Len(q) + 1] = e
OBVIOUS

LEMMA ConcatOne ==
  ASSUME NEW q \in Seq(Report), NEW e \in Report
  PROVE  q \o <<e>> = Append(q, e)
OBVIOUS

LEMMA ConcatTwo ==
  ASSUME NEW q \in Seq(Report), NEW e \in Report, NEW f \in Report
  PROVE  q \o <<e, f>> = Append(Append(q, e), f)
OBVIOUS

Messages == [method : Methods, from : Peers, call : CallIds, has : HeaderSets,
             auth : Auths, cseq : {"INVITE", "other"}]

\* What bad_answer does.
LEMMA BadAnswer ==
  ASSUME NEW m, NEW c, NEW j, NEW code
  PROVE  \/ bad_answer(m, c, j, code) = Outcome(c, Append(j, CommandAccept(m, code)), code, FALSE)
         \/ bad_answer(m, c, j, code) = Raise(c, j)
BY DEF bad_answer

\* The ways a message can be handled: the method raises and leaves at most a refused
\* authorization; it reports nothing; it reports its answer; it refuses, or grants, an
\* authorization and reports its answer twice.
Raised(o, m, c, j) ==
  /\ o.raised /\ o.answer = NoAnswer
  /\ o.calls \in {c, [c EXCEPT ![m.call] = "none"]}
  /\ o.json_list \in {j, Append(j, Authorization(m, "refused"))}

Silent(o, m, c, j) ==
  ~ o.raised /\ o.answer = NoAnswer /\ o.calls = c /\ o.json_list = j

Reported(o, m, c, j) ==
  /\ ~ o.raised /\ o.answer \in Codes \cup {NoAnswer}
  /\ o.calls \in {c, [c EXCEPT ![m.call] = "none"], [c EXCEPT ![m.call] = "ended"]}
  /\ o.json_list = Append(j, CommandAccept(m, o.answer))

Twice(o, m, j, status) ==
  o.json_list = Append(Append(Append(j, Authorization(m, status)),
                              CommandAccept(m, o.answer)), CommandAccept(m, o.answer))

RefusedTwice(o, m, c, j) ==
  ~ o.raised /\ o.answer \in Codes /\ o.calls = c /\ Twice(o, m, j, "refused")

Granted(o, m, c, j) ==
  /\ ~ o.raised /\ o.answer = "180+200" /\ c[m.call] = "none"
  /\ o.calls = [c EXCEPT ![m.call] = "setup"] /\ Twice(o, m, j, "granted")

LEMMA ReportsTyped ==
  ASSUME NEW m \in Messages
  PROVE  /\ \A a \in Answers : CommandAccept(m, a) \in Report
         /\ Authorization(m, "granted") \in Report /\ Authorization(m, "refused") \in Report
BY DEF CommandAccept, Authorization, Report, Messages

LEMMA InviteOutcomes ==
  ASSUME NEW m \in Messages, NEW c \in [CallIds -> CallState], NEW j \in Seq(Report)
  PROVE  LET o == sip_INVITE(m, c, j)
         IN \/ Raised(o, m, c, j) \/ Reported(o, m, c, j)
            \/ RefusedTwice(o, m, c, j) \/ Granted(o, m, c, j)
<1> DEFINE k == check_invite(m, c, j)
           o == sip_INVITE(m, c, j)
           refused == Append(j, Authorization(m, "refused"))
<1>1. \/ k.raised /\ k.answer = NoAnswer /\ k.calls = c /\ k.json_list \in {j, refused}
      \/ k = Outcome(c, j, "401", FALSE)
      \/ \E a \in {"400", "403"} : k = Outcome(c, Append(refused, CommandAccept(m, a)), a, FALSE)
      \/ /\ c[m.call] = "none"
         /\ k = Outcome([c EXCEPT ![m.call] = "setup"],
                        Append(j, Authorization(m, "granted")), "180+200", FALSE)
  <2>1. m.auth \in Auths
    BY DEF Messages
  <2>2. CASE m.auth = "absent"
    BY <2>2 DEF check_invite, Outcome, Raise
  <2>3. CASE m.auth \in {"notDigest", "wrong"}
    <3>1. k = bad_answer(m, c, refused, "400")
      BY <2>3 DEF check_invite
    <3>2. \/ k = Outcome(c, Append(refused, CommandAccept(m, "400")), "400", FALSE)
          \/ k = Raise(c, refused)
      BY <3>1, BadAnswer
    <3>3. k = Raise(c, refused) => k.raised /\ k.answer = NoAnswer /\ k.calls = c /\ k.json_list = refused
      BY DEF Raise, Outcome
    <3> QED
      BY ONLY <3>2, <3>3
  <2>4. CASE m.auth = "partial"
    BY <2>4 DEF check_invite, Outcome, Raise
  <2>5. CASE m.auth = "right"
    <3>1. CASE ~ Has(m, {"m", "Call-ID"})
      BY <2>5, <3>1 DEF check_invite, Outcome, Raise
    <3>2. CASE Has(m, {"m", "Call-ID"}) /\ Known(m, c)
      <4>1. k = bad_answer(m, c, refused, "403")
        BY <2>5, <3>2 DEF check_invite
      <4>2. \/ k = Outcome(c, Append(refused, CommandAccept(m, "403")), "403", FALSE)
            \/ k = Raise(c, refused)
        BY <4>1, BadAnswer
      <4>3. k = Raise(c, refused) => k.raised /\ k.answer = NoAnswer /\ k.calls = c /\ k.json_list = refused
        BY DEF Raise, Outcome
      <4> QED
        BY ONLY <4>2, <4>3
    <3>3. CASE Has(m, {"m", "Call-ID"}) /\ ~ Known(m, c)
      <4>1. c[m.call] = "none"
        BY <3>3 DEF Known, Has
      <4> QED
        BY <2>5, <3>3, <4>1 DEF check_invite, Raise, Outcome
    <3> QED
      BY <3>1, <3>2, <3>3
  <2> QED
    BY <2>1, <2>2, <2>3, <2>4, <2>5 DEF Auths
<1>2. /\ refused \in Seq(Report) /\ Append(j, Authorization(m, "granted")) \in Seq(Report)
      /\ \A a \in Answers : CommandAccept(m, a) \in Report
      /\ \A a \in Answers : Append(refused, CommandAccept(m, a)) \in Seq(Report)
  <2>1. /\ \A a \in Answers : CommandAccept(m, a) \in Report
        /\ Authorization(m, "granted") \in Report /\ Authorization(m, "refused") \in Report
    BY ReportsTyped
  <2>2. refused \in Seq(Report) /\ Append(j, Authorization(m, "granted")) \in Seq(Report)
    BY <2>1, AppendFacts
  <2>3. ASSUME NEW a \in Answers PROVE Append(refused, CommandAccept(m, a)) \in Seq(Report)
    BY <2>1, <2>2, AppendFacts
  <2> QED
    BY <2>1, <2>2, <2>3
<1>3. /\ k.raised => o = k
      /\ ~ k.raised /\ k.answer = "180+200" =>
           o = [k EXCEPT !.json_list = k.json_list \o <<CommandAccept(m, "180+200"), CommandAccept(m, "180+200")>>]
      /\ ~ k.raised /\ k.answer # "180+200" =>
           o = [k EXCEPT !.json_list = k.json_list \o <<CommandAccept(m, k.answer)>>]
  BY DEF sip_INVITE
<1> HIDE DEF k, o
<1>4. CASE k.raised /\ k.answer = NoAnswer /\ k.calls = c /\ k.json_list \in {j, refused}
  BY <1>3, <1>4 DEF Raised, o
<1>5. CASE k = Outcome(c, j, "401", FALSE)
  <2>1. o = [k EXCEPT !.json_list = j \o <<CommandAccept(m, "401")>>]
    BY <1>3, <1>5 DEF Outcome
  <2>2. j \o <<CommandAccept(m, "401")>> = Append(j, CommandAccept(m, "401"))
    BY <1>2, ConcatOne DEF Answers, Codes
  <2> QED
    BY <1>5, <2>1, <2>2 DEF Reported, o, Outcome, Codes
<1>6. ASSUME NEW a \in {"400", "403"}, k = Outcome(c, Append(refused, CommandAccept(m, a)), a, FALSE)
      PROVE  RefusedTwice(o, m, c, j)
  <2>1. o = [k EXCEPT !.json_list = k.json_list \o <<CommandAccept(m, a)>>]
    BY <1>3, <1>6 DEF Outcome
  <2>2. k.json_list \o <<CommandAccept(m, a)>> = Append(k.json_list, CommandAccept(m, a))
    BY <1>2, <1>6, ConcatOne DEF Answers, Codes, Outcome
  <2> QED
    BY <1>6, <2>1, <2>2 DEF RefusedTwice, Twice, Outcome, Codes
<1>7. CASE /\ c[m.call] = "none"
           /\ k = Outcome([c EXCEPT ![m.call] = "setup"],
                          Append(j, Authorization(m, "granted")), "180+200", FALSE)
  <2> DEFINE ca == CommandAccept(m, "180+200")
  <2>1. o = [k EXCEPT !.json_list = k.json_list \o <<ca, ca>>]
    BY <1>3, <1>7 DEF Outcome
  <2>2. k.json_list \o <<ca, ca>> = Append(Append(k.json_list, ca), ca)
    BY <1>2, <1>7, ConcatTwo DEF Answers, Outcome
  <2> QED
    BY <1>7, <2>1, <2>2 DEF Granted, Twice, Outcome, o
<1> QED
  BY <1>1, <1>4, <1>5, <1>6, <1>7 DEF o

LEMMA HandleOutcomes ==
  ASSUME NEW m \in Messages, NEW c \in [CallIds -> CallState], NEW j \in Seq(Report)
  PROVE  LET o == Handle(m, c, j)
         IN \/ Raised(o, m, c, j) \/ Silent(o, m, c, j) \/ Reported(o, m, c, j)
            \/ RefusedTwice(o, m, c, j) \/ Granted(o, m, c, j)
<1> DEFINE o == Handle(m, c, j)
<1>1. CASE m.method = "INVITE"
  BY <1>1, InviteOutcomes DEF Handle
<1>2. CASE m.method = "OPTIONS"
  BY <1>2 DEF Handle, sip_OPTIONS, Raise, Outcome, Raised, Reported, Codes
<1>3. CASE m.method = "CANCEL"
  <2>1. \/ o \in {Raise(c, j), Raise([c EXCEPT ![m.call] = "none"], j)}
        \/ \E a \in Codes, d \in {c, [c EXCEPT ![m.call] = "none"]} :
             o = Outcome(d, Append(j, CommandAccept(m, a)), a, FALSE)
    BY <1>3, BadAnswer DEF Handle, sip_CANCEL, Codes
  <2>2. CASE o \in {Raise(c, j), Raise([c EXCEPT ![m.call] = "none"], j)}
    BY <2>2 DEF Raise, Outcome, Raised
  <2>3. CASE \E a \in Codes, d \in {c, [c EXCEPT ![m.call] = "none"]} :
               o = Outcome(d, Append(j, CommandAccept(m, a)), a, FALSE)
    BY <2>3 DEF Outcome, Reported
  <2> QED
    BY ONLY <2>1, <2>2, <2>3
<1>4. CASE m.method = "BYE"
  <2>1. \/ o = Raise(c, j)
        \/ \E a \in Codes, d \in {c, [c EXCEPT ![m.call] = "ended"]} :
             o = Outcome(d, Append(j, CommandAccept(m, a)), a, FALSE)
    BY <1>4, BadAnswer DEF Handle, sip_BYE, Codes
  <2> QED
    BY <2>1 DEF Raise, Outcome, Raised, Reported
<1>5. CASE m.method = "ACK"
  BY <1>5 DEF Handle, sip_ACK, Raise, Outcome, Raised, Reported
<1>6. CASE m.method = "GET"
  BY <1>6 DEF Handle, Outcome, Silent
<1>7. CASE m.method \in {"REGISTER", "RESPONSE", "other"}
  BY <1>7 DEF Handle, sip_Unanswered, Outcome, Reported
<1> QED
  BY <1>1, <1>2, <1>3, <1>4, <1>5, <1>6, <1>7 DEF Messages, Methods

-----------------------------------------------------------------------------
(* What is on the lists.                                                   *)

\* A refused authorization, all that a raising method can leave in json_list.
Refusal(r) == r.eventid = "authorization" /\ r.output = "refused"
RefusalsOnly(q) == \A i \in 1 .. Len(q) : Refusal(q[i])

GrantedIn(q) == {i \in DOMAIN q : q[i].output = "granted"}

\* One report more: what is on the list stays, and a grant is counted once.
LEMMA OneMore ==
  ASSUME NEW q \in Seq(Report), NEW e \in Report
  PROVE  /\ RefusalsOnly(q) /\ Refusal(e) => RefusalsOnly(Append(q, e))
         /\ e.output # "granted" => GrantedIn(Append(q, e)) = GrantedIn(q)
         /\ e.output = "granted" => GrantedIn(Append(q, e)) = GrantedIn(q) \cup {Len(q) + 1}
         /\ ToSet(Append(q, e)) = ToSet(q) \cup {e}
<1>1. /\ Len(Append(q, e)) = Len(q) + 1 /\ Len(q) \in Nat
      /\ \A i \in 1 .. Len(q) : Append(q, e)[i] = q[i]
      /\ Append(q, e)[Len(q) + 1] = e
      /\ DOMAIN q = 1 .. Len(q) /\ DOMAIN Append(q, e) = 1 .. Len(Append(q, e))
  BY AppendFacts
<1>2. 1 .. (Len(q) + 1) = (1 .. Len(q)) \cup {Len(q) + 1}
  BY <1>1
<1> QED
  BY <1>1, <1>2 DEF RefusalsOnly, GrantedIn, ToSet

LEMMA RefusalsGrantNothing ==
  ASSUME NEW q \in Seq(Report), RefusalsOnly(q)
  PROVE  GrantedIn(q) = {} /\ \A r \in ToSet(q) : Refusal(r)
BY DEF RefusalsOnly, GrantedIn, Refusal, ToSet

\* What a message makes of a list that holds refusals only.
LEMMA ListOutcomes ==
  ASSUME NEW m \in Messages, NEW c \in [CallIds -> CallState],
         NEW j \in Seq(Report), RefusalsOnly(j), NEW o
  PROVE  /\ Raised(o, m, c, j) =>
              o.json_list \in Seq(Report) /\ RefusalsOnly(o.json_list)
         /\ Silent(o, m, c, j) \/ Reported(o, m, c, j) \/ RefusedTwice(o, m, c, j) \/ Granted(o, m, c, j) =>
              /\ o.json_list \in Seq(Report)
              /\ \A r \in ToSet(o.json_list) : Refusal(r) \/ r.of = m.from
              /\ o.answer \in Codes => CommandAccept(m, o.answer) \in ToSet(o.json_list)
              /\ GrantedIn(o.json_list) = IF Granted(o, m, c, j) THEN {Len(j) + 1} ELSE {}
<1> DEFINE refused == Authorization(m, "refused")
           granted == Authorization(m, "granted")
           ca      == CommandAccept(m, o.answer)
<1>1. /\ \A a \in Answers : CommandAccept(m, a) \in Report
      /\ granted \in Report /\ refused \in Report
  BY ReportsTyped
<1>2. /\ Refusal(refused) /\ refused.output # "granted" /\ granted.output = "granted"
      /\ refused.of = m.from /\ granted.of = m.from /\ ca.of = m.from
      /\ o.answer \in Answers => ca.output # "granted"
  BY NoAnswerAssumption DEF Refusal, Authorization, CommandAccept, Answers, Codes
<1>3. GrantedIn(j) = {} /\ \A r \in ToSet(j) : Refusal(r)
  BY RefusalsGrantNothing
<1> HIDE DEF refused, granted, ca
<1>4. /\ Append(j, refused) \in Seq(Report) /\ RefusalsOnly(Append(j, refused))
      /\ GrantedIn(Append(j, refused)) = {} /\ ToSet(Append(j, refused)) = ToSet(j) \cup {refused}
  BY <1>1, <1>2, <1>3, AppendFacts, OneMore
<1>5. /\ Append(j, granted) \in Seq(Report) /\ ToSet(Append(j, granted)) = ToSet(j) \cup {granted}
      /\ GrantedIn(Append(j, granted)) = {Len(j) + 1}
  BY <1>1, <1>2, <1>3, AppendFacts, OneMore
<1>6. CASE Raised(o, m, c, j)
  BY <1>4, <1>6 DEF Raised, Silent, Reported, RefusedTwice, Granted, refused
<1>7. CASE Silent(o, m, c, j)
  BY <1>3, <1>7, NoAnswerAssumption DEF Raised, Silent, Granted
<1>8. ASSUME NEW q \in Seq(Report), o.answer \in Answers
      PROVE  /\ Append(q, ca) \in Seq(Report) /\ GrantedIn(Append(q, ca)) = GrantedIn(q)
             /\ ToSet(Append(q, ca)) = ToSet(q) \cup {ca}
  <2>1. ca \in Report
    BY <1>1, <1>8 DEF ca
  <2> QED
    BY <1>2, <1>8, <2>1, AppendFacts, OneMore
<1>9. CASE Reported(o, m, c, j)
  <2>1. o.answer \in Answers /\ o.json_list = Append(j, ca) /\ ~ o.raised /\ o.answer # "180+200"
    BY <1>9, NoAnswerAssumption DEF Reported, Answers, Codes, ca
  <2> QED
    BY <1>2, <1>3, <1>8, <2>1 DEF Raised, Granted, ca
<1>10. CASE RefusedTwice(o, m, c, j)
  <2>1. /\ o.answer \in Answers /\ o.json_list = Append(Append(Append(j, refused), ca), ca)
        /\ ~ o.raised /\ o.answer # "180+200"
    BY <1>10 DEF RefusedTwice, Twice, Answers, Codes, ca, refused
  <2>2. /\ Append(Append(j, refused), ca) \in Seq(Report)
        /\ o.json_list \in Seq(Report)
        /\ GrantedIn(o.json_list) = {}
        /\ ToSet(o.json_list) = ToSet(j) \cup {refused, ca}
    BY <1>4, <1>8, <2>1
  <2> QED
    BY <1>2, <1>3, <2>1, <2>2 DEF Raised, Granted, ca
<1>11. CASE Granted(o, m, c, j)
  <2>1. /\ o.answer \in Answers /\ o.json_list = Append(Append(Append(j, granted), ca), ca)
        /\ ~ o.raised /\ o.answer \notin Codes
    BY <1>11 DEF Granted, Twice, Answers, Codes, ca, granted
  <2>2. /\ Append(Append(j, granted), ca) \in Seq(Report)
        /\ o.json_list \in Seq(Report)
        /\ GrantedIn(o.json_list) = {Len(j) + 1}
        /\ ToSet(o.json_list) = ToSet(j) \cup {granted, ca}
    BY <1>5, <1>8, <2>1
  <2>3. \A r \in ToSet(o.json_list) : Refusal(r) \/ r.of = m.from
    BY ONLY <1>2, <1>3, <2>2
  <2>4. ~ Raised(o, m, c, j)
    BY ONLY <2>1 DEF Raised
  <2> QED
    BY ONLY <1>11, <2>1, <2>2, <2>3, <2>4
<1> QED
  BY <1>6, <1>7, <1>9, <1>10, <1>11

-----------------------------------------------------------------------------
(* The inductive invariant: what the last handler filed is its peer's, but *)
(* for the refusals that were left behind.                                 *)

FiledInv ==
  \A r \in ToSet(did.reports) : Refusal(r) \/ r.of = did.peer

IInv == TypeOK /\ RefusalsOnly(json_list) /\ FiledInv /\ AnswerReported

\* The set-up calls, and the ones a step sets up.
SetUp == {c \in CallIds : calls[c] = "none" /\ calls'[c] = "setup"}
NoneReturns == \A c \in CallIds : calls[c] # "none" => calls'[c] # "setup" \/ calls[c] = "setup"

\* What a step says of grants: no more reports than calls, as many unless the peer
\* lost its session, and none for a known call.
OnceInv ==
  /\ Cardinality(GrantedIn(did.reports)') <= Cardinality(SetUp)
  /\ did'.peer \notin sessions \ sessions' =>
       Cardinality(GrantedIn(did.reports)') = Cardinality(SetUp)
  /\ NoneReturns

\* The handlers that give a message to the worker.  An exception files nothing of it.
LEMMA WorkerStep ==
  ASSUME IInv, NEW m \in Message, NEW w, w = worker(m, calls, json_list),
         calls' = w.calls, json_list' = w.json_list
  PROVE  /\ calls' \in [CallIds -> CallState] /\ json_list' \in Seq(Report)
         /\ RefusalsOnly(json_list)' /\ NoneReturns
         /\ w.answer \in Answers /\ w.reports \in Seq(Report)
         /\ \A r \in ToSet(w.reports) : Refusal(r) \/ r.of = m.from
         /\ w.answer \in Codes => CommandAccept(m, w.answer) \in ToSet(w.reports)
         /\ Cardinality(GrantedIn(w.reports)) = Cardinality(SetUp)
         /\ GrantedIn(w.reports) = {} \/ \E i \in Nat : GrantedIn(w.reports) = {i}
         /\ w.raised => SetUp = {}
<1> DEFINE o == Handle(m, calls, json_list)
<1>1. /\ m \in Messages /\ calls \in [CallIds -> CallState] /\ json_list \in Seq(Report)
      /\ RefusalsOnly(json_list)
  BY DEF IInv, TypeOK, Message, Messages
<1>2. /\ w.calls = o.calls /\ w.answer = o.answer /\ w.raised = o.raised
      /\ w.reports = IF o.raised THEN << >> ELSE o.json_list
      /\ w.json_list = IF o.raised THEN o.json_list ELSE << >>
  BY DEF worker
<1>3. \/ Raised(o, m, calls, json_list) \/ Silent(o, m, calls, json_list)
      \/ Reported(o, m, calls, json_list) \/ RefusedTwice(o, m, calls, json_list)
      \/ Granted(o, m, calls, json_list)
  BY <1>1, HandleOutcomes
<1> HIDE DEF o
<1>4. m.call \in CallIds
  BY <1>1 DEF Messages
<1>5. << >> \in Seq(Report) /\ RefusalsOnly(<< >>) /\ ToSet(<< >>) = {} /\ GrantedIn(<< >>) = {}
  BY DEF RefusalsOnly, ToSet, GrantedIn
<1>6. CASE ~ Granted(o, m, calls, json_list)
  <2>1. /\ calls' \in [CallIds -> CallState] /\ SetUp = {} /\ NoneReturns
        /\ w.answer \in Answers
    <3>1. /\ \/ o.calls = calls \/ o.calls = [calls EXCEPT ![m.call] = "none"]
             \/ o.calls = [calls EXCEPT ![m.call] = "ended"]
          /\ o.answer \in Answers
      BY <1>3, <1>6 DEF Raised, Silent, Reported, RefusedTwice, Answers
    <3>2. PICK k : k = m.call
      OBVIOUS
    <3>3. /\ calls' \in [CallIds -> CallState]
          /\ \A c \in CallIds : calls'[c] = calls[c] \/ calls'[c] \in {"none", "ended"}
      <4>1. CASE calls' = calls
        BY <1>1, <4>1
      <4>2. CASE calls' = [calls EXCEPT ![k] = "none"]
        BY <1>1, <1>4, <3>2, <4>2 DEF CallState
      <4>3. CASE calls' = [calls EXCEPT ![k] = "ended"]
        BY <1>1, <1>4, <3>2, <4>3 DEF CallState
      <4> QED
        BY <1>2, <3>1, <3>2, <4>1, <4>2, <4>3
    <3>4. SetUp = {} /\ NoneReturns
      BY ONLY <3>3 DEF SetUp, NoneReturns
    <3> QED
      BY <1>2, <3>1, <3>3, <3>4
  <2>2. CASE Raised(o, m, calls, json_list)
    <3>1. o.json_list \in Seq(Report) /\ RefusalsOnly(o.json_list) /\ o.raised /\ o.answer \notin Codes
      BY <1>1, <2>2, ListOutcomes, NoAnswerAssumption DEF Raised
    <3> QED
      BY <1>2, <1>5, <2>1, <3>1
  <2>3. CASE ~ Raised(o, m, calls, json_list)
    <3>1. /\ o.json_list \in Seq(Report)
          /\ \A r \in ToSet(o.json_list) : Refusal(r) \/ r.of = m.from
          /\ o.answer \in Codes => CommandAccept(m, o.answer) \in ToSet(o.json_list)
          /\ GrantedIn(o.json_list) = {}
      BY <1>1, <1>3, <1>6, <2>3, ListOutcomes
    <3>2. ~ o.raised
      BY <1>3, <1>6, <2>3 DEF Silent, Reported, RefusedTwice
    <3> QED
      BY <1>2, <1>5, <2>1, <3>1, <3>2
  <2> QED
    BY <2>2, <2>3
<1>7. CASE Granted(o, m, calls, json_list)
  <2>1. /\ ~ o.raised /\ o.answer = "180+200" /\ calls[m.call] = "none"
        /\ o.calls = [calls EXCEPT ![m.call] = "setup"]
    BY <1>7 DEF Granted
  <2>2. SetUp = {m.call} /\ NoneReturns /\ calls' \in [CallIds -> CallState]
    BY <1>1, <1>2, <1>4, <2>1 DEF SetUp, NoneReturns, CallState
  <2>3. /\ o.json_list \in Seq(Report)
        /\ \A r \in ToSet(o.json_list) : Refusal(r) \/ r.of = m.from
        /\ GrantedIn(o.json_list) = {Len(json_list) + 1}
    BY <1>1, <1>7, ListOutcomes
  <2>4. Cardinality(GrantedIn(o.json_list)) = 1 /\ Cardinality(SetUp) = 1
    BY <2>2, <2>3, FS_Singleton
  <2>5. Len(json_list) + 1 \in Nat
    BY <1>1
  <2>6. \E i \in Nat : GrantedIn(o.json_list) = {i}
    BY <2>3, <2>5
  <2>7. w.reports = o.json_list /\ json_list' = << >> /\ w.answer = "180+200" /\ ~ w.raised
    BY <1>2, <2>1
  <2> QED
    BY <1>5, <2>2, <2>3, <2>4, <2>6, <2>7 DEF Answers, Codes
<1> QED
  BY <1>6, <1>7

\* An insertion moves what is behind it.
LEMMA Inserted ==
  ASSUME NEW q \in Seq(Report), NEW e \in Report, NEW i \in 1 .. Len(q)
  PROVE  LET s == InsertAt(q, i, e)
         IN /\ s \in Seq(Report) /\ Len(s) = Len(q) + 1
            /\ \A k \in 1 .. Len(s) :
                 s[k] = IF k < i THEN q[k] ELSE IF k = i THEN e ELSE q[k - 1]
BY DEF InsertAt

\* An insertion of something else keeps what is in the sequence, and the grants.
LEMMA InsertedReports ==
  ASSUME NEW q \in Seq(Report), NEW e \in Report, NEW i \in 1 .. Len(q), e.output # "granted",
         GrantedIn(q) = {} \/ \E g \in Nat : GrantedIn(q) = {g}
  PROVE  LET s == InsertAt(q, i, e)
         IN /\ s \in Seq(Report) /\ ToSet(s) = ToSet(q) \cup {e}
            /\ Cardinality(GrantedIn(s)) = Cardinality(GrantedIn(q))
<1>1. PICK s : s = InsertAt(q, i, e)
  OBVIOUS
<1>2. /\ s \in Seq(Report) /\ Len(s) = Len(q) + 1 /\ Len(q) \in Nat
      /\ \A k \in 1 .. Len(s) : s[k] = IF k < i THEN q[k] ELSE IF k = i THEN e ELSE q[k - 1]
  BY <1>1, Inserted
<1>3. DOMAIN s = 1 .. Len(q) + 1 /\ DOMAIN q = 1 .. Len(q) /\ i \in 1 .. Len(q)
  BY <1>2
<1> HIDE DEF InsertAt
<1>4. ToSet(s) = ToSet(q) \cup {e}
  <2>1. \A k \in 1 .. Len(q) + 1 : s[k] \in ToSet(q) \cup {e}
    <3> SUFFICES ASSUME NEW k \in 1 .. Len(q) + 1 PROVE s[k] \in ToSet(q) \cup {e}
      OBVIOUS
    <3>1. \A n \in 1 .. Len(q) : q[n] \in ToSet(q)
      BY <1>3 DEF ToSet
    <3>2. CASE k < i
      BY <1>2, <1>3, <3>1, <3>2
    <3>3. CASE k = i
      BY <1>2, <3>3
    <3>4. CASE k > i
      <4>1. s[k] = q[k - 1] /\ k - 1 \in 1 .. Len(q)
        BY <1>2, <1>3, <3>4
      <4> QED
        BY <3>1, <4>1
    <3> QED
      BY <1>3, <3>2, <3>3, <3>4
  <2>2. \A k \in 1 .. Len(q) : \E n \in 1 .. Len(q) + 1 : s[n] = q[k]
    <3> SUFFICES ASSUME NEW k \in 1 .. Len(q) PROVE \E n \in 1 .. Len(q) + 1 : s[n] = q[k]
      OBVIOUS
    <3>1. CASE k < i
      BY <1>2, <1>3, <3>1
    <3>2. CASE ~ k < i
      <4>1. k + 1 \in 1 .. Len(q) + 1 /\ ~ k + 1 < i /\ k + 1 # i /\ (k + 1) - 1 = k
        BY <1>2, <3>2
      <4> QED
        BY <1>2, <4>1
    <3> QED
      BY <3>1, <3>2
  <2>3. s[i] = e /\ i \in 1 .. Len(q) + 1
    BY <1>2, <1>3
  <2> QED
    BY <1>3, <2>1, <2>2, <2>3 DEF ToSet
<1>5. CASE GrantedIn(q) = {}
  <2>1. \A k \in 1 .. Len(q) : q[k].output # "granted"
    BY <1>3, <1>5 DEF GrantedIn
  <2>2. \A k \in 1 .. Len(q) + 1 : s[k].output # "granted"
    BY <1>2, <1>3, <2>1
  <2> QED
    BY <1>1, <1>2, <1>3, <1>4, <1>5, <2>2 DEF GrantedIn
<1>6. ASSUME NEW g \in Nat, GrantedIn(q) = {g}
      PROVE  Cardinality(GrantedIn(s)) = Cardinality(GrantedIn(q))
  <2>1. g \in 1 .. Len(q) /\ \A k \in 1 .. Len(q) : q[k].output = "granted" <=> k = g
    BY <1>3, <1>6 DEF GrantedIn
  <2>2. PICK h \in Nat : h = IF g < i THEN g ELSE g + 1
    OBVIOUS
  <2>3. h \in 1 .. Len(q) + 1 /\ s[h] = q[g]
    BY <1>2, <1>3, <2>1, <2>2
  <2>4. ASSUME NEW k \in 1 .. Len(q) + 1, s[k].output = "granted" PROVE k = h
    <3>1. CASE k < i
      BY <1>2, <1>3, <2>1, <2>2, <2>4, <3>1
    <3>2. k # i
      BY <1>2, <1>3, <2>4
    <3>3. CASE k > i
      <4>1. s[k] = q[k - 1] /\ k - 1 \in 1 .. Len(q)
        BY <1>2, <1>3, <3>3
      <4>2. k - 1 = g
        BY <2>1, <2>4, <4>1
      <4> QED
        BY <2>2, <3>3, <4>2
    <3> QED
      BY <1>3, <3>1, <3>2, <3>3
  <2>5. GrantedIn(s) = {h}
    BY <1>3, <2>1, <2>3, <2>4 DEF GrantedIn
  <2> QED
    BY <1>6, <2>5, FS_Singleton
<1> QED
  BY <1>1, <1>2, <1>4, <1>5, <1>6

\* Reports that are cut short hold no more grants.
LEMMA CutReports ==
  ASSUME NEW q \in Seq(Report), NEW i \in 1 .. Len(q),
         GrantedIn(q) = {} \/ \E g \in Nat : GrantedIn(q) = {g}
  PROVE  LET s == SubSeq(q, 1, i - 1)
         IN /\ s \in Seq(Report) /\ ToSet(s) \subseteq ToSet(q)
            /\ Cardinality(GrantedIn(s)) <= Cardinality(GrantedIn(q))
<1>1. PICK s : s = SubSeq(q, 1, i - 1)
  OBVIOUS
<1>2. /\ s \in Seq(Report) /\ Len(s) = i - 1 /\ Len(q) \in Nat
      /\ \A k \in 1 .. i - 1 : s[k] = q[k]
  BY <1>1
<1>3. DOMAIN s \subseteq DOMAIN q /\ \A k \in DOMAIN s : s[k] = q[k]
  BY <1>2
<1>4. ToSet(s) \subseteq ToSet(q) /\ GrantedIn(s) \subseteq GrantedIn(q)
  BY <1>3 DEF ToSet, GrantedIn
<1>5. IsFiniteSet(GrantedIn(q))
  BY FS_EmptySet, FS_Singleton
<1>6. Cardinality(GrantedIn(s)) <= Cardinality(GrantedIn(q))
  BY <1>4, <1>5, FS_Subset
<1> QED
  BY <1>1, <1>2, <1>4, <1>6

-----------------------------------------------------------------------------
(* The steps.                                                              *)

LEMMA IInit == Init => IInv
<1> SUFFICES ASSUME Init PROVE IInv
  OBVIOUS
<1>1. calls \in [CallIds -> CallState] /\ json_list = << >> /\ conn = {} /\ stuck = {} /\ sessions = {}
  BY DEF Init, CallState
<1>2. did.peer \in Peers /\ did.reports = << >> /\ did.sent = {}
  BY DEF Init
<1>3. << >> \in Seq(Report) /\ RefusalsOnly(<< >>) /\ ToSet(<< >>) = {}
  BY DEF RefusalsOnly, ToSet
<1> QED
  BY <1>1, <1>2, <1>3 DEF IInv, TypeOK, FiledInv, AnswerReported

\* Handlers that file one report of their own.
LEMMA OwnReport ==
  ASSUME IInv, NEW p \in Peers, NEW e \in Report, e.of = p, e.output # "granted",
         UNCHANGED <<calls, json_list>>, did' = Did(p, <<e>>, {}),
         conn' \subseteq TcpPeers, stuck' \subseteq conn', sessions' \subseteq UdpPeers
  PROVE  IInv' /\ OnceInv
<1>1. did'.peer = p /\ did'.reports = <<e>> /\ did'.sent = {}
  BY DEF Did
<1>2. <<e>> \in Seq(Report) /\ ToSet(<<e>>) = {e} /\ GrantedIn(<<e>>) = {}
  BY DEF ToSet, GrantedIn
<1>3. SetUp = {} /\ NoneReturns
  BY DEF SetUp, NoneReturns
<1>4. OnceInv
  <2>1. Cardinality({}) = 0
    BY FS_EmptySet
  <2>2. GrantedIn(did.reports)' = {}
    BY <1>1, <1>2 DEF GrantedIn
  <2>3. 0 <= 0
    OBVIOUS
  <2> QED
    BY ONLY <1>3, <2>1, <2>2, <2>3 DEF OnceInv
<1> QED
  BY <1>1, <1>2, <1>4 DEF IInv, TypeOK, FiledInv, AnswerReported, RefusalsOnly

LEMMA ServerReports ==
  ASSUME NEW p \in Peers
  PROVE  /\ Connection(p) \in Report /\ Connection(p).of = p /\ Connection(p).output # "granted"
         /\ Disconnection(p) \in Report /\ Disconnection(p).of = p
         /\ Disconnection(p).output # "granted"
         /\ LET r == [eventid |-> "command_accept", output |-> NoAnswer, of |-> p]
            IN r \in Report /\ r.of = p /\ r.output # "granted"
BY NoAnswerAssumption DEF Connection, Disconnection, Report, Answers

\* What comes of filing reports: those of them that are not lost, and a connection.
LEMMA FilingFacts ==
  ASSUME NEW p \in Peers, NEW q \in Seq(Report), NEW f \in Filings(p, q),
         GrantedIn(q) = {} \/ \E g \in Nat : GrantedIn(q) = {g}
  PROVE  /\ f.filed \in Seq(Report) /\ f.whole \in BOOLEAN
         /\ \A r \in ToSet(f.filed) : r \in ToSet(q) \/ r.of = p
         /\ Cardinality(GrantedIn(f.filed)) <= Cardinality(GrantedIn(q))
         /\ f.whole => /\ ToSet(q) \subseteq ToSet(f.filed)
                       /\ Cardinality(GrantedIn(f.filed)) = Cardinality(GrantedIn(q))
         /\ ~ f.whole => p \in sessions /\ q # << >>
<1>0. IsFiniteSet(GrantedIn(q)) /\ Cardinality(GrantedIn(q)) \in Nat
  BY FS_EmptySet, FS_Singleton, FS_CardinalityType
<1>1. PICK c \in Report : c = Connection(p) /\ c.of = p /\ c.output # "granted"
  BY ServerReports
<1>2. DOMAIN q = 1 .. Len(q) /\ Len(q) \in Nat /\ (q # << >> => 1 \in 1 .. Len(q))
  OBVIOUS
<1>3. \/ f = Filing(q, TRUE)
      \/ \E i \in 1 .. Len(q) : f = Filing(InsertAt(q, i, c), TRUE)
      \/ p \in sessions /\ q # << >> /\ \E i \in 1 .. Len(q) : f = Filing(SubSeq(q, 1, i - 1), FALSE)
  BY <1>1, <1>2 DEF Filings
<1>4. CASE f = Filing(q, TRUE)
  BY <1>0, <1>4 DEF Filing
<1>5. ASSUME NEW i \in 1 .. Len(q), f = Filing(InsertAt(q, i, c), TRUE)
      PROVE  /\ f.filed \in Seq(Report) /\ f.whole = TRUE /\ ToSet(f.filed) = ToSet(q) \cup {c}
             /\ Cardinality(GrantedIn(f.filed)) = Cardinality(GrantedIn(q))
  <2>1. f.filed = InsertAt(q, i, c) /\ f.whole = TRUE
    BY <1>5 DEF Filing
  <2> QED
    BY <1>1, <2>1, InsertedReports
<1>6. ASSUME NEW i \in 1 .. Len(q), f = Filing(SubSeq(q, 1, i - 1), FALSE)
      PROVE  /\ f.filed \in Seq(Report) /\ f.whole = FALSE /\ ToSet(f.filed) \subseteq ToSet(q)
             /\ Cardinality(GrantedIn(f.filed)) <= Cardinality(GrantedIn(q))
  <2>1. f.filed = SubSeq(q, 1, i - 1) /\ f.whole = FALSE
    BY <1>6 DEF Filing
  <2> QED
    BY <2>1, CutReports
<1>7. CASE p \in sessions /\ q # << >> /\ \E i \in 1 .. Len(q) : f = Filing(SubSeq(q, 1, i - 1), FALSE)
  BY <1>6, <1>7
<1>8. CASE \E i \in 1 .. Len(q) : f = Filing(InsertAt(q, i, c), TRUE)
  <2>1. /\ f.filed \in Seq(Report) /\ f.whole = TRUE /\ ToSet(f.filed) = ToSet(q) \cup {c}
        /\ Cardinality(GrantedIn(f.filed)) = Cardinality(GrantedIn(q))
    BY <1>5, <1>8
  <2>2. c.of = p
    BY <1>1
  <2>3. \A r \in ToSet(f.filed) : r \in ToSet(q) \/ r.of = p
    BY <2>1, <2>2
  <2>4. Cardinality(GrantedIn(f.filed)) <= Cardinality(GrantedIn(q))
    BY <1>0, <2>1
  <2>5. ToSet(q) \subseteq ToSet(f.filed)
    BY <2>1
  <2> QED
    BY ONLY <2>1, <2>3, <2>4, <2>5
<1> QED
  BY <1>3, <1>4, <1>7, <1>8

\* Handlers that file what the worker hands them, or as much of it as is not lost.
LEMMA WorkerReports ==
  ASSUME IInv, NEW m \in Message, NEW w, w = worker(m, calls, json_list),
         calls' = w.calls, json_list' = w.json_list, NEW filed \in Seq(Report), NEW sent,
         sent \in SUBSET Written(w.answer),
         \A r \in ToSet(filed) : r \in ToSet(w.reports) \/ r.of = m.from,
         sent # {} => ToSet(w.reports) \subseteq ToSet(filed),
         Cardinality(GrantedIn(filed)) <= Cardinality(GrantedIn(w.reports)),
         m.from \notin sessions \ sessions' =>
           Cardinality(GrantedIn(filed)) = Cardinality(GrantedIn(w.reports)),
         did' = Did(m.from, filed, sent),
         conn' \subseteq TcpPeers, stuck' \subseteq conn', sessions' \subseteq UdpPeers
  PROVE  IInv' /\ OnceInv
<1>1. did'.peer = m.from /\ did'.reports = filed /\ did'.sent = sent /\ m.from \in Peers
  BY DEF Did, Message
<1>2. /\ calls' \in [CallIds -> CallState] /\ json_list' \in Seq(Report)
      /\ RefusalsOnly(json_list)' /\ NoneReturns
      /\ w.answer \in Answers /\ w.reports \in Seq(Report)
      /\ \A r \in ToSet(w.reports) : Refusal(r) \/ r.of = m.from
      /\ w.answer \in Codes => CommandAccept(m, w.answer) \in ToSet(w.reports)
      /\ Cardinality(GrantedIn(w.reports)) = Cardinality(SetUp)
  BY WorkerStep
<1>3. \A a \in sent : a = w.answer /\ a \in Codes
  BY <1>2 DEF Written, Writable, Answers
<1>4. OnceInv
  BY <1>1, <1>2 DEF OnceInv, GrantedIn
<1>5. AnswerReported'
  <2>1. /\ CommandAccept(m, w.answer).eventid = "command_accept"
        /\ CommandAccept(m, w.answer).output = w.answer /\ CommandAccept(m, w.answer).of = m.from
    BY DEF CommandAccept
  <2>2. \A a \in sent : CommandAccept(m, w.answer) \in ToSet(filed)
    BY <1>2, <1>3
  <2> QED
    BY <1>1, <1>3, <2>1, <2>2 DEF AnswerReported
<1>6. TypeOK' /\ FiledInv'
  BY <1>1, <1>2, <1>3 DEF TypeOK, FiledInv
<1> QED
  BY <1>2, <1>4, <1>5, <1>6 DEF IInv

\* The table of sessions after the reports of a datagram were filed.
LEMMA SessionsAfter ==
  ASSUME sessions \subseteq UdpPeers, NEW p \in UdpPeers, NEW q \in Seq(Report),
         GrantedIn(q) = {} \/ \E g \in Nat : GrantedIn(q) = {g},
         NEW f \in Filings(p, q),
         sessions' = IF q = << >> THEN sessions
                     ELSE IF f.whole THEN sessions \cup {p} ELSE sessions \ {p}
  PROVE  sessions' \subseteq UdpPeers /\ (~ f.whole => p \in sessions \ sessions')
BY FilingFacts DEF Peers

LEMMA IStep == ASSUME IInv, Next PROVE IInv' /\ OnceInv
<1>0. conn \subseteq TcpPeers /\ stuck \subseteq conn /\ sessions \subseteq UdpPeers
  BY DEF IInv, TypeOK
<1>1. ASSUME NEW m \in Message, udp_datagramReceived(m) PROVE IInv' /\ OnceInv
  <2>1. PICK w : w = worker(m, calls, json_list)
    OBVIOUS
  <2>2. /\ calls' = w.calls /\ json_list' = w.json_list /\ UNCHANGED <<conn, stuck>>
        /\ m.from \in UdpPeers /\ UdpFiles(m.from, w.reports, Written(w.answer))
    BY <1>1, <2>1 DEF udp_datagramReceived
  <2>3. PICK f \in Filings(m.from, w.reports) :
          /\ did' = Did(m.from, f.filed, IF f.whole THEN Written(w.answer) ELSE {})
          /\ sessions' = IF w.reports = << >> THEN sessions
                         ELSE IF f.whole THEN sessions \cup {m.from} ELSE sessions \ {m.from}
    BY <2>2 DEF UdpFiles
  <2>4. /\ w.reports \in Seq(Report)
        /\ GrantedIn(w.reports) = {} \/ \E g \in Nat : GrantedIn(w.reports) = {g}
    BY <2>1, <2>2, WorkerStep
  <2>5. /\ f.filed \in Seq(Report) /\ f.whole \in BOOLEAN
        /\ \A r \in ToSet(f.filed) : r \in ToSet(w.reports) \/ r.of = m.from
        /\ Cardinality(GrantedIn(f.filed)) <= Cardinality(GrantedIn(w.reports))
        /\ f.whole => /\ ToSet(w.reports) \subseteq ToSet(f.filed)
                      /\ Cardinality(GrantedIn(f.filed)) = Cardinality(GrantedIn(w.reports))
    BY <2>2, <2>4, FilingFacts DEF Peers
  <2>6. sessions' \subseteq UdpPeers /\ (~ f.whole => m.from \in sessions \ sessions')
    BY <1>0, <2>2, <2>3, <2>4, SessionsAfter
  <2>7. PICK sent : sent = IF f.whole THEN Written(w.answer) ELSE {}
    OBVIOUS
  <2>8. /\ sent \in SUBSET Written(w.answer) /\ (sent # {} => f.whole)
        /\ did' = Did(m.from, f.filed, sent) /\ conn' \subseteq TcpPeers /\ stuck' \subseteq conn'
    BY <1>0, <2>2, <2>3, <2>7
  <2> HIDE DEF Filings, Written, worker, Did
  <2> QED
    BY <2>1, <2>2, <2>5, <2>6, <2>8, WorkerReports
<1>2. ASSUME NEW m \in Message, tcp_dataReceived(m) PROVE IInv' /\ OnceInv
  <2>1. PICK w : w = worker(m, calls, json_list)
    OBVIOUS
  <2>2. calls' = w.calls /\ json_list' = w.json_list /\ m.from \in Peers /\ m.from \in conn
    BY <1>2, <2>1 DEF tcp_dataReceived, Message
  <2>3. CASE w.raised
    <3>1. /\ did' = Did(m.from, <<Disconnection(m.from)>>, {})
          /\ conn' \subseteq TcpPeers /\ stuck' \subseteq conn' /\ sessions' = sessions
      BY <1>0, <1>2, <2>1, <2>3 DEF tcp_dataReceived
    <3>2. /\ Disconnection(m.from) \in Report /\ Disconnection(m.from).of = m.from
          /\ Disconnection(m.from).output # "granted"
      BY <2>2, ServerReports
    <3>3. /\ calls' \in [CallIds -> CallState] /\ json_list' \in Seq(Report)
          /\ RefusalsOnly(json_list)' /\ NoneReturns /\ SetUp = {}
      BY <2>1, <2>2, <2>3, WorkerStep
    <3>4. did'.peer = m.from /\ did'.reports = <<Disconnection(m.from)>> /\ did'.sent = {}
      BY <3>1 DEF Did
    <3>5. PICK e \in Report : e = Disconnection(m.from)
      BY <3>2
    <3>6. <<e>> \in Seq(Report) /\ ToSet(<<e>>) = {e} /\ GrantedIn(<<e>>) = {}
      BY <3>2, <3>5 DEF ToSet, GrantedIn
    <3>7. OnceInv
      <4>1. Cardinality({}) = 0
        BY FS_EmptySet
      <4>2. GrantedIn(did.reports)' = {}
        BY <3>4, <3>5, <3>6 DEF GrantedIn
      <4>3. 0 <= 0
        OBVIOUS
      <4> QED
        BY ONLY <3>3, <4>1, <4>2, <4>3 DEF OnceInv
    <3> QED
      BY <1>0, <2>2, <3>1, <3>2, <3>3, <3>4, <3>5, <3>6, <3>7 DEF IInv, TypeOK, FiledInv, AnswerReported
  <2>4. CASE ~ w.raised
    <3>1. PICK sent : sent = IF m.from \in stuck THEN {} ELSE Written(w.answer)
      OBVIOUS
    <3>2. /\ did' = Did(m.from, w.reports, sent) /\ sent \in SUBSET Written(w.answer)
          /\ conn' \subseteq TcpPeers /\ stuck' \subseteq conn' /\ sessions' \subseteq UdpPeers
      BY <1>0, <1>2, <2>1, <2>2, <2>4, <3>1 DEF tcp_dataReceived
    <3>3. w.reports \in Seq(Report)
      BY <2>1, <2>2, WorkerStep
    <3>4. Cardinality(GrantedIn(w.reports)) <= Cardinality(GrantedIn(w.reports))
      <4>1. Cardinality(GrantedIn(w.reports)) \in Nat
        BY <2>1, <2>2, WorkerStep, FS_EmptySet, FS_Singleton, FS_CardinalityType
      <4> QED
        BY <4>1
    <3> HIDE DEF Written, worker, Did
    <3> QED
      BY <2>1, <2>2, <3>2, <3>3, <3>4, WorkerReports
  <2> QED
    BY <2>3, <2>4
<1>3. ASSUME NEW p \in Peers, udp_undecodable(p) PROVE IInv' /\ OnceInv
  <2>1. PICK e \in Report : e = Undecodable(p) /\ e.of = p /\ e.output # "granted"
    BY ServerReports DEF Undecodable
  <2>2. p \in UdpPeers /\ UdpFiles(p, <<e>>, {}) /\ UNCHANGED <<calls, json_list, conn, stuck>>
    BY <1>3, <2>1 DEF udp_undecodable
  <2>3. PICK f \in Filings(p, <<e>>) :
          /\ did' = Did(p, f.filed, {})
          /\ sessions' = IF <<e>> = << >> THEN sessions
                         ELSE IF f.whole THEN sessions \cup {p} ELSE sessions \ {p}
    BY <2>2 DEF UdpFiles
  <2>4. PICK q \in Seq(Report) : q = <<e>> /\ ToSet(q) = {e} /\ GrantedIn(q) = {}
    <3>1. <<e>> \in Seq(Report) /\ ToSet(<<e>>) = {e} /\ GrantedIn(<<e>>) = {}
      BY <2>1 DEF ToSet, GrantedIn
    <3> QED
      BY <3>1
  <2>5. /\ f.filed \in Seq(Report)
        /\ \A r \in ToSet(f.filed) : r \in ToSet(q) \/ r.of = p
        /\ Cardinality(GrantedIn(f.filed)) <= Cardinality(GrantedIn(q))
    <3>1. f \in Filings(p, q) /\ GrantedIn(q) = {}
      <4>1. f \in Filings(p, q)
        BY <2>3, <2>4
      <4> QED
        BY <2>4, <4>1
    <3>2. GrantedIn(q) = {} \/ \E g \in Nat : GrantedIn(q) = {g}
      BY <3>1
    <3> QED
      BY ONLY <1>3, <2>4, <3>1, <3>2, FilingFacts, ZenonT(60)
  <2>6. sessions' \subseteq UdpPeers
    BY <1>0, <2>2, <2>3, <2>4, SessionsAfter
  <2>7. Cardinality(GrantedIn(f.filed)) = 0
    <3>1. GrantedIn(f.filed) \subseteq DOMAIN f.filed /\ IsFiniteSet(DOMAIN f.filed)
      <4>1. DOMAIN f.filed = 1 .. Len(f.filed) /\ Len(f.filed) \in Int
        BY <2>5
      <4>2. IsFiniteSet(1 .. Len(f.filed))
        BY <4>1, FS_Interval
      <4> QED
        BY <4>1, <4>2 DEF GrantedIn
    <3>2. Cardinality(GrantedIn(f.filed)) \in Nat
      BY <3>1, FS_Subset, FS_CardinalityType
    <3> QED
      <4>1. Cardinality(GrantedIn(q)) = 0
        BY <2>4, FS_EmptySet
      <4> QED
        BY <2>5, <3>2, <4>1
  <2>8. did'.peer = p /\ did'.reports = f.filed /\ did'.sent = {}
    BY <2>3 DEF Did
  <2>9. SetUp = {} /\ NoneReturns /\ Cardinality({}) = 0
    BY <2>2, FS_EmptySet DEF SetUp, NoneReturns
  <2>10. OnceInv
    BY <2>7, <2>8, <2>9 DEF OnceInv, GrantedIn
  <2> QED
    BY <1>0, <2>1, <2>2, <2>4, <2>5, <2>6, <2>8, <2>10
       DEF IInv, TypeOK, FiledInv, AnswerReported, RefusalsOnly
<1>4. ASSUME NEW p \in Peers, tcp_undecodable(p) PROVE IInv' /\ OnceInv
  <2>1. PICK e \in Report : e = Undecodable(p) /\ e.of = p /\ e.output # "granted"
    BY ServerReports DEF Undecodable
  <2>2. did' = Did(p, <<e>>, {}) /\ UNCHANGED <<calls, json_list, conn, stuck, sessions>>
    BY <1>4, <2>1 DEF tcp_undecodable
  <2> QED
    BY <1>0, <2>1, <2>2, OwnReport
<1>5. ASSUME NEW p \in Peers, check_conection(p) PROVE IInv' /\ OnceInv
  <2>1. sessions' \subseteq UdpPeers
    BY <1>0, <1>5 DEF check_conection
  <2> QED
    BY <1>0, <1>5, <2>1, ServerReports, OwnReport DEF check_conection
<1>6. ASSUME NEW p \in Peers, connectionMade(p) PROVE IInv' /\ OnceInv
  <2>1. conn' \subseteq TcpPeers /\ stuck' \subseteq conn' /\ sessions' = sessions
    BY <1>0, <1>6 DEF connectionMade
  <2> QED
    BY <1>0, <1>6, <2>1, ServerReports, OwnReport DEF connectionMade
<1>7. ASSUME NEW p \in Peers, connectionLost(p) PROVE IInv' /\ OnceInv
  <2>1. conn' \subseteq TcpPeers /\ stuck' \subseteq conn' /\ sessions' = sessions
    BY <1>0, <1>7 DEF connectionLost
  <2> QED
    BY <1>0, <1>7, <2>1, ServerReports, OwnReport DEF connectionLost
<1> QED
  BY <1>1, <1>2, <1>3, <1>4, <1>5, <1>6, <1>7 DEF Next

-----------------------------------------------------------------------------
(* The theorems.                                                           *)

\* The inductive invariant holds in every reachable state.
THEOREM Invariance == Spec => []IInv
<1>1. IInv /\ UNCHANGED vars => IInv'
  BY DEF IInv, TypeOK, RefusalsOnly, FiledInv, AnswerReported, vars
<1>2. IInv /\ [Next]_vars => IInv'
  BY <1>1, IStep
<1> QED
  BY IInit, <1>2, PTL DEF Spec

\* The variables have their types, whatever the messages lack.
THEOREM TypeCorrect == Spec => []TypeOK
<1>1. IInv => TypeOK
  BY DEF IInv
<1> QED
  BY <1>1, Invariance, PTL

\* Whatever a transport of either server writes, the handler that wrote it filed, as the
\* answer to a message of the same peer.
THEOREM AnswersAreReported == Spec => []AnswerReported
<1>1. IInv => AnswerReported
  BY DEF IInv
<1> QED
  BY <1>1, Invariance, PTL

\* Of the class-wide json_list, only refused authorizations of a raising method can end
\* up under another peer's session.
THEOREM OnlyRefusalsMisfiled == Spec => []MisfiledAreRefusals
<1>1. IInv => MisfiledAreRefusals
  <2> SUFFICES ASSUME IInv PROVE MisfiledAreRefusals
    OBVIOUS
  <2>1. \A r \in ToSet(json_list) : Refusal(r)
    BY RefusalsGrantNothing DEF IInv, TypeOK
  <2>2. \A r \in ToSet(did.reports) : Refusal(r) \/ r.of = did.peer
    BY DEF IInv, FiledInv
  <2> QED
    BY <2>1, <2>2 DEF MisfiledAreRefusals, Refusal
<1> QED
  BY <1>1, Invariance, PTL

\* handle_INVITE sets a call up at most once, and each grant on the log is a call that
\* was set up: neither a repeated INVITE nor one after the BYE is granted.  A call is
\* set up without its grant only if the caller's session was deleted meanwhile.
THEOREM GrantedOnce == Spec => AuthorizedOnce
<1>1. IInv /\ [Next]_vars =>
        [/\ Grants(did') <= CallsSetUp
         /\ did'.peer \notin sessions \ sessions' => Grants(did') = CallsSetUp
         /\ \A c \in CallIds : calls[c] # "none" => calls'[c] # "setup" \/ calls[c] = "setup"]_vars
  BY IStep DEF OnceInv, SetUp, NoneReturns, Grants, GrantedIn, CallsSetUp
<1> QED
  BY <1>1, Invariance, PTL DEF Spec, AuthorizedOnce
=============================================================================
