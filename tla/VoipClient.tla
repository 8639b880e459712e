----------------------------- MODULE VoipClient -----------------------------
(***************************************************************************)
(* VoipClient of src/voipclient.py: what one SIP message does to the table *)
(* of calls and to the class-wide list of reports, and how it is answered. *)
(* Each operator is a method; it is given the message m, the calls c and   *)
(* the reports j already in json_list, and returns what it leaves of them, *)
(* its answer, and whether it raised.  A header is a token; its text is    *)
(* left out.  Where a method reads a header that m lacks, it raises.       *)
(***************************************************************************)
EXTENDS Sequences

CONSTANTS CallIds,      \* the Call-IDs in use
          NoAnswer      \* None or '': nothing is sent

\* States of a call, and "none" for a Call-ID that is not in __sessions.  ACK does
\* not reach handle_ACK, so no call becomes active.
CallState == {"none", "setup", "ended"}

Headers == {"branch", "tag", "From", "Call-ID", "CSeq", "m"}
Methods == {"OPTIONS", "INVITE", "CANCEL", "BYE", "ACK", "REGISTER", "RESPONSE",
            "GET", "other"}

\* auth: the Authorization header.  "partial" is a Digest that lacks a parameter.
Auths == {"absent", "notDigest", "partial", "wrong", "right"}

Codes   == {"200", "400", "401", "403", "404", "481"}
Answers == Codes \cup {NoAnswer, "180+200"}

ASSUME NoAnswerAssumption == NoAnswer \notin Codes \cup {"180+200", "granted", "refused"}

Outcome(c, j, answer, raised) ==
  [calls |-> c, json_list |-> j, answer |-> answer, raised |-> raised]

Raise(c, j) == Outcome(c, j, NoAnswer, TRUE)

\* A report, and the peer whose message it is about.
CommandAccept(m, answer) ==
  [eventid |-> "command_accept", output |-> answer, of |-> m.from]
Authorization(m, status) ==
  [eventid |-> "authorization", output |-> status, of |-> m.from]

Has(m, names) == names \subseteq m.has

\* The headers every answer is made from.
Dialogue == {"From", "Call-ID", "CSeq"}

Known(m, c) == Has(m, {"Call-ID"}) /\ c[m.call] # "none"

-----------------------------------------------------------------------------
bad_answer(m, c, j, code) ==
  IF Has(m, Dialogue)
  THEN Outcome(c, Append(j, CommandAccept(m, code)), code, FALSE)
  ELSE Raise(c, j)

sip_OPTIONS(m, c, j) ==
  IF Has(m, Dialogue \cup {"branch", "tag"})
  THEN Outcome(c, Append(j, CommandAccept(m, "200")), "200", FALSE)
  ELSE Raise(c, j)

\* Faulty: a Call-ID that is in the table is not refused.
Faulty_check_invite(m, c, j) ==
  IF m.auth = "right" /\ Has(m, {"m", "Call-ID", "From"})
  THEN Outcome([c EXCEPT ![m.call] = "setup"],
               Append(j, Authorization(m, "granted")), "180+200", FALSE)
  ELSE Raise(c, j)

\* A refused authorization is put in json_list before the answer is made, so it
\* stays there if making the answer raises.
check_invite(m, c, j) ==
  LET refused == Append(j, Authorization(m, "refused"))
  IN CASE m.auth = "absent" ->
            IF Has(m, Dialogue) THEN Outcome(c, j, "401", FALSE) ELSE Raise(c, j)
       [] m.auth \in {"notDigest", "wrong"} -> bad_answer(m, c, refused, "400")
       [] m.auth = "partial" -> Raise(c, j)
       [] m.auth = "right" ->
            IF ~ Has(m, {"m", "Call-ID"}) THEN Raise(c, j)
            ELSE IF Known(m, c) THEN bad_answer(m, c, refused, "403")
            ELSE IF ~ Has(m, {"From"}) THEN Raise(c, j)
            ELSE Outcome([c EXCEPT ![m.call] = "setup"],
                         Append(j, Authorization(m, "granted")), "180+200", FALSE)

\* Each answer is reported here, those of bad_answer for the second time.
sip_INVITE(m, c, j) ==
  LET o == check_invite(m, c, j)
      also == IF o.answer = "180+200"
              THEN <<CommandAccept(m, "180+200"), CommandAccept(m, "180+200")>>
              ELSE <<CommandAccept(m, o.answer)>>
  IN IF o.raised THEN o ELSE [o EXCEPT !.json_list = o.json_list \o also]

\* For an unknown call bad_answer is given its arguments in the wrong order and
\* raises a TypeError.
sip_ACK(m, c, j) ==
  IF Known(m, c)
  THEN Outcome(c, Append(j, CommandAccept(m, NoAnswer)), NoAnswer, FALSE)
  ELSE Raise(c, j)

\* handle_BYE ends the call; its Call-ID stays in the table.
sip_BYE(m, c, j) ==
  IF Known(m, c)
  THEN Outcome([c EXCEPT ![m.call] = "ended"],
               Append(j, CommandAccept(m, "200")), "200", FALSE)
  ELSE bad_answer(m, c, j, "481")

\* Faulty: the answer is made but not reported.
Faulty_sip_CANCEL(m, c, j) ==
  IF Has(m, Dialogue) THEN Outcome(c, j, "200", FALSE) ELSE Raise(c, j)

\* A call is deleted before the answer is made, which may still raise.
sip_CANCEL(m, c, j) ==
  LET cancels == m.cseq \in {"INVITE", "ACK"}
      left    == IF cancels THEN [c EXCEPT ![m.call] = "none"] ELSE c
  IN IF ~ Has(m, {"Call-ID", "CSeq"}) THEN Raise(c, j)
     ELSE IF cancels /\ ~ Known(m, c) THEN bad_answer(m, c, j, "404")
     ELSE IF ~ Has(m, {"From"}) THEN Raise(left, j)
     ELSE Outcome(left, Append(j, CommandAccept(m, "200")), "200", FALSE)

\* REGISTER, RESPONSE and unknown methods are reported and not answered.
sip_Unanswered(m, c, j) ==
  Outcome(c, Append(j, CommandAccept(m, NoAnswer)), NoAnswer, FALSE)

Handle(m, c, j) ==
  CASE m.method = "OPTIONS" -> sip_OPTIONS(m, c, j)
    [] m.method = "INVITE"  -> sip_INVITE(m, c, j)
    [] m.method = "CANCEL"  -> sip_CANCEL(m, c, j)
    [] m.method = "BYE"     -> sip_BYE(m, c, j)
    [] m.method = "ACK"     -> sip_ACK(m, c, j)
    [] m.method = "GET"     -> Outcome(c, j, NoAnswer, FALSE)
    [] OTHER                -> sip_Unanswered(m, c, j)

\* The reports handed to the server: all of json_list, which is then emptied,
\* unless the method raised.
worker(m, c, j) ==
  LET o == Handle(m, c, j)
  IN [calls |-> o.calls, answer |-> o.answer, raised |-> o.raised,
      reports   |-> IF o.raised THEN << >> ELSE o.json_list,
      json_list |-> IF o.raised THEN o.json_list ELSE << >>]
=============================================================================
