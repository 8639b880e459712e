---------------------------- MODULE TelnetProxy ----------------------------
(***************************************************************************)
(* The Telnet proxy of cowrie: TelnetHandler reads the data of both ends,  *)
(* watches for the guest's login and password prompts, keeps what the      *)
(* attacker answers to them, and sends the configured login and password   *)
(* instead, or a wrong password if the attacker's was refused.  Each piece *)
(* of data is one delivery of TCP and is told apart by what the handler    *)
(* looks for in it.  TTY logs and logged commands are left out.            *)
(***************************************************************************)
EXTENDS ProxySession

VARIABLES
  inputing,          \* "login" and "password", while inputingLogin, inputingPassword
  waitingLoginEcho,  \* the guest's echo of the login is to be removed
  prePasswordData,   \* the guest's last data held the negotiation of echo
  backend_buffer,    \* numbers of the writes that wait for the guest's connection
  prompts,           \* history: prompts seen in the guest's data, by sort
  lines,             \* history: configured lines sent in answer, by sort
  entered            \* history: the guest was sent the configured password

telnetvars == <<inputing, waitingLoginEcho, prePasswordData, backend_buffer, prompts,
                lines, entered>>

Sorts == {"login", "password"}

\* The attacker's data: a whole line, the start of one, one cut between CR and
\* what follows it, or a negotiation with a user name in it.
Inputs == {"line", "part", "cut", "negotiation"}

\* The guest's data: the prompts in it, and whether it negotiates echo or only
\* echoes the login.
Outputs == [prompts : SUBSET Sorts, pre : BOOLEAN, echo : BOOLEAN]

TelnetTypeOK ==
  /\ inputing \subseteq Sorts
  /\ waitingLoginEcho \in BOOLEAN /\ prePasswordData \in BOOLEAN
  /\ backend_buffer \in Seq(1 .. Writes(MaxPackets))
  /\ prompts \in [Sorts -> 0 .. MaxPackets]
  /\ lines \in [Sorts -> 0 .. MaxPackets]
  /\ entered \in BOOLEAN

TelnetStart ==
  /\ inputing = {} /\ waitingLoginEcho = FALSE /\ prePasswordData = FALSE
  /\ backend_buffer = << >>
  /\ prompts = [s \in Sorts |-> 0] /\ lines = [s \in Sorts |-> 0]
  /\ entered = FALSE

-----------------------------------------------------------------------------
\* A piece of data goes out in the second of its two writes, whole or as what
\* is made of it, and the first three bytes of it, if need be, in the first.
Main(n) == << 2 * n >>
Ahead(n) == IF "password" \in inputing /\ prePasswordData THEN << 2 * n - 1 >> ELSE << >>

\* Mutant: the buffer is not emptied.
FaultySendBackend(writes) ==
  LET all == backend_buffer \o writes
  IN IF writes # << >> /\ back \in {"up", "closing"}
     THEN /\ passed' = [passed EXCEPT !["frontend"] = @ \o all]
          /\ backend_buffer' = all
     ELSE backend_buffer' = all /\ UNCHANGED passed

\* Before the guest's connection is made data waits in a buffer, and goes out
\* with the next data, not with the connection.
sendBackend(writes) ==
  LET all == backend_buffer \o writes
  IN IF writes # << >> /\ back \in {"up", "closing"}
     THEN /\ passed' = [passed EXCEPT !["frontend"] = @ \o all]
          /\ backend_buffer' = << >>
     ELSE backend_buffer' = all /\ UNCHANGED passed

\* Authentication is spoofed until the attacker was logged in.
Spoofing == "telnet_spoof_authentication" \in settings /\ ~ authDone

\* Of a line that is still being typed its first bytes alone may be sent.
Withhold(n) ==
  /\ sendBackend(Ahead(n))
  /\ prePasswordData' = (prePasswordData /\ "password" \notin inputing)

\* Mutant: inputingPassword is not reset.
FaultyFinishLine(n, granted) ==
  /\ prePasswordData' = (prePasswordData /\ "password" \notin inputing)
  /\ inputing' = inputing \ {"login"}
  /\ authDone' = (authDone \/ ("password" \in inputing /\ granted))
  /\ entered' = (entered \/ (inputing = {"password"} /\ granted))
  /\ timer' = (timer \/ authDone')
  /\ waitingLoginEcho' = (waitingLoginEcho \/ "login" \in inputing)
  /\ lines' = [lines EXCEPT ![IF "login" \in inputing THEN "login" ELSE "password"] = @ + 1]
  /\ sendBackend(Ahead(n) \o Main(n))
  /\ UNCHANGED <<front, back, pool, freed, dropped>>

\* processPasswordInput, then processUsernameInput, for a finished line.  Both
\* may be asked for at once: then the answer is the login, typed or not, after
\* the password was looked at.  The first bytes go ahead of it as they came.
FinishLine(n, granted) ==
  /\ prePasswordData' = (prePasswordData /\ "password" \notin inputing)
  /\ inputing' = {}
  /\ authDone' = (authDone \/ ("password" \in inputing /\ granted))
  /\ entered' = (entered \/ (inputing = {"password"} /\ granted))
  /\ timer' = (timer \/ authDone')
  /\ waitingLoginEcho' = (waitingLoginEcho \/ "login" \in inputing)
  /\ lines' = [lines EXCEPT ![IF "login" \in inputing THEN "login" ELSE "password"] = @ + 1]
  /\ sendBackend(Ahead(n) \o Main(n))
  /\ UNCHANGED <<front, back, pool, freed, dropped>>

\* The character after CR is looked up, after the first bytes were sent: data
\* that ends with CR raises IndexError, and the connection is lost.
CutLine(n) ==
  /\ FrontGone
  /\ dropped' = "cut line"
  /\ Withhold(n)
  /\ UNCHANGED <<authDone, inputing, waitingLoginEcho, lines, entered>>

\* addPacket('frontend', ...)
FrontendData(input, granted) ==
  LET n == packets["frontend"] + 1
  IN /\ front = "ready" /\ packets["frontend"] < MaxPackets
     /\ packets' = [packets EXCEPT !["frontend"] = n]
     /\ IF Spoofing /\ inputing # {} /\ input = "cut" THEN CutLine(n)
        ELSE IF Spoofing /\ inputing # {} /\ input = "line" THEN FinishLine(n, granted)
        ELSE /\ IF Spoofing /\ inputing # {} THEN Withhold(n)
                ELSE sendBackend(Main(n)) /\ UNCHANGED prePasswordData
             /\ UNCHANGED <<front, back, pool, freed, timer, authDone, dropped, inputing,
                            waitingLoginEcho, lines, entered>>
     /\ UNCHANGED <<protocol, settings, late, prompts>>

\* addPacket('backend', ...): the login's echo is removed, once.
BackendData(output) ==
  LET n == packets["backend"] + 1
  IN /\ back = "up" /\ packets["backend"] < MaxPackets
     /\ packets' = [packets EXCEPT !["backend"] = n]
     /\ passed' = IF Spoofing /\ waitingLoginEcho /\ output.echo THEN passed
                  ELSE [passed EXCEPT !["backend"] = @ \o Main(n)]
     /\ IF Spoofing
        THEN /\ inputing' = inputing \cup output.prompts
             /\ prompts' = [s \in Sorts |-> prompts[s] + IF s \in output.prompts THEN 1 ELSE 0]
             /\ prePasswordData' = output.pre
             /\ waitingLoginEcho' = FALSE
        ELSE UNCHANGED <<inputing, prompts, prePasswordData, waitingLoginEcho>>
     /\ UNCHANGED <<session, dropped, backend_buffer, lines, entered>>

TelnetNext ==
  \/ \E input \in Inputs, granted \in BOOLEAN : FrontendData(input, granted)
  \/ \E output \in Outputs : BackendData(output)

-----------------------------------------------------------------------------
\* The guest is sent a configured login or password at most once for each
\* prompt for it, so that no answer goes to a question that was not asked.
LinePerPrompt == \A s \in Sorts : lines[s] <= prompts[s]
=============================================================================
