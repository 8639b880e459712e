------------------------------- MODULE Relay -------------------------------
(***************************************************************************)
(* What a proxy between an attacker and a backend promises: what it hands  *)
(* on of what one end sent goes out once and in the order in which it was  *)
(* sent, and is never taken back.  What is sent is numbered piece by piece *)
(* in that order.  A proxy may keep some to itself, hand others on later,  *)
(* and break, after which it promises nothing.                             *)
(***************************************************************************)
EXTENDS Naturals, Sequences

CONSTANT Ends          \* the ends that packets come from

VARIABLES sent,        \* sent[e]: how many pieces end e has sent
          relayed,     \* relayed[e]: the numbers of those handed on
          broken       \* an exception has ended the session

relay == <<sent, relayed, broken>>

Init == /\ sent = [e \in Ends |-> 0]
        /\ relayed = [e \in Ends |-> << >>]
        /\ broken = FALSE

\* Each piece has been sent, and is newer than all that went out before it.
HandedOn(numbers, count) ==
  \A i \in 1 .. Len(numbers) :
    /\ numbers[i] \in 1 .. count
    /\ i > 1 => numbers[i - 1] < numbers[i]

Extends(new, old) ==
  /\ Len(old) <= Len(new)
  /\ \A i \in 1 .. Len(old) : new[i] = old[i]

Work == \A e \in Ends : /\ sent'[e] >= sent[e]
                        /\ Extends(relayed'[e], relayed[e])
                        /\ HandedOn(relayed'[e], sent'[e])

Next == /\ broken => broken'
        /\ ~ broken' => Work

Spec == Init /\ [][Next]_relay
=============================================================================
