----------------------------- MODULE Recording -----------------------------
(***************************************************************************)
(* What cowrie's own SSH and Telnet servers record of their sessions:      *)
(* LoggingServerProtocol keeps the standard input of an exec session and   *)
(* the files that commands were redirected to, which become files named    *)
(* by their hash when the session is over (as the TTY log does, which no   *)
(* other session touches and which is left out here); each event goes      *)
(* through Output.emit, which finds the session by the number of the       *)
(* connection that is in the log's prefix.                                 *)
(*                                                                         *)
(* A chunk is what one command or one packet writes; two chunks may have   *)
(* the same bytes, and a hash tells only the bytes apart.                  *)
(***************************************************************************)
EXTENDS Naturals, Sequences, FiniteSets, SequencesExt

CONSTANTS Conns,        \* connections that are made
          Endpoints,    \* the endpoints that the SSH server listens on
          Data,         \* the bytes of a chunk
          MaxChunks,    \* bound: chunks that are written
          MaxFiles,     \* bound: files that a session redirects to
          NoConn        \* "nobody"

ASSUME RecordAssumption ==
  IsFiniteSet(Conns) /\ NoConn \notin Conns /\ MaxFiles \in Nat /\ MaxChunks \in Nat

VARIABLES
  life,         \* "none", "login", "user" (authenticated), "lost"
  endpoint,     \* where it was accepted; Telnet is an endpoint of its own
  sessionno,    \* the endpoint's count of connections when it was accepted
  type,         \* its session's type: "no", "i" (interactive), "e" (exec);
                \* a Telnet one may outlive its connection
  stdin,        \* the chunks in the log of its standard input
  temp,         \* the redirected files by name: their chunks, if they exist
  writing,      \* the file that a running command of the session writes
  redirFiles,   \* LoggingServerProtocol.redirFiles: an attribute of the class
  store,        \* files that are named by session and hash
  sessions,     \* Output.sessions
  chunks,       \* history: how many chunks were written
  ended,        \* history: chunks of commands that exited in time
  reports,      \* history: what was reported, [by, chunks]
  mistaken,     \* history: an event reached the plugins as another session's
  overlap       \* history: two connections had one number at a time

recordvars == <<life, endpoint, sessionno, type, stdin, temp, writing, redirFiles,
                store, sessions, chunks, ended, reports, mistaken, overlap>>

Telnet == "telnet"
Ports == Endpoints \cup {Telnet}
Proto(port) == IF port = Telnet THEN "T" ELSE "S"

\* The number in the prefix: 'S' or 'T', and the count of the endpoint.
Key(c) == <<Proto(endpoint[c]), sessionno[c]>>
Open(c) == life[c] \in {"login", "user"}
Keys == {"S", "T"} \X (1 .. Cardinality(Conns))

\* The file of a redirection has the session and the time in its name.
FileNames == Conns \X (1 .. MaxFiles)

Bytes(content) == [i \in DOMAIN content |-> content[i].data]
Chunk(d) == [id |-> chunks + 1, data |-> d]

RecordTypeOK ==
  /\ life \in [Conns -> {"none", "login", "user", "lost"}]
  /\ endpoint \in [Conns -> Ports]
  /\ sessionno \in [Conns -> 0 .. Cardinality(Conns)]
  /\ type \in [Conns -> {"no", "i", "e"}]
  /\ \A f \in DOMAIN temp : f \in FileNames
  /\ writing \in [Conns -> 0 .. MaxFiles]
  /\ redirFiles \subseteq FileNames
  /\ sessions \in [Keys -> Conns \cup {NoConn}]
  /\ chunks \in 0 .. MaxChunks

RecordStart ==
  /\ life = [c \in Conns |-> "none"]
  /\ endpoint = [c \in Conns |-> Telnet]
  /\ sessionno = [c \in Conns |-> 0]
  /\ type = [c \in Conns |-> "no"]
  /\ stdin = [c \in Conns |-> << >>]
  /\ temp = << >>
  /\ writing = [c \in Conns |-> 0]
  /\ redirFiles = {}
  /\ store = {}
  /\ sessions = [k \in Keys |-> NoConn]
  /\ chunks = 0 /\ ended = {} /\ reports = {} /\ mistaken = FALSE /\ overlap = FALSE

-----------------------------------------------------------------------------
\* Output.emit of an event with a prefix: one whose number is not in the table
\* raises in the observer, and is lost.
emit(c) == mistaken' = (mistaken \/ sessions[Key(c)] \notin {NoConn, c})

\* Mutant: the table keeps what it had of a closed connection.
FaultyForget(c) == sessions

\* cowrie.session.closed, after it was written.
Forget(c) == [sessions EXCEPT ![Key(c)] = NoConn]

\* cowrie.session.connect puts the session in the table.
Connected(c, port) ==
  LET no == 1 + Cardinality({d \in Conns : life[d] # "none" /\ endpoint[d] = port})
      key == <<Proto(port), no>>
  IN /\ life[c] = "none"
     /\ life' = [life EXCEPT ![c] = "login"]
     /\ endpoint' = [endpoint EXCEPT ![c] = port]
     /\ sessionno' = [sessionno EXCEPT ![c] = no]
     /\ sessions' = [sessions EXCEPT ![key] = c]
     /\ overlap' = (overlap \/ sessions[key] # NoConn)
     /\ UNCHANGED <<mistaken, type, stdin, temp, writing, redirFiles, store, chunks, ended, reports>>

\* connectionMade of the two transports.
SshConnect(c) == \E port \in Endpoints : Connected(c, port)
TelnetConnect(c) == Connected(c, Telnet)

\* A login by password, by answers or by none; Login decides on a password.
SshLogin(c, granted) ==
  /\ life[c] = "login" /\ endpoint[c] # Telnet
  /\ life' = [life EXCEPT ![c] = IF granted THEN "user" ELSE "login"]
  /\ emit(c)
  /\ UNCHANGED <<endpoint, sessionno, type, stdin, temp, writing, redirFiles, store,
                 sessions, chunks, ended, reports, overlap>>

\* connectionMade of LoggingServerProtocol.
Opened(c, t) ==
  /\ type' = [type EXCEPT ![c] = t]
  /\ stdin' = [stdin EXCEPT ![c] = << >>]

\* openShell or execCommand, in SSH as often as one likes.
OpenSession(c, t) ==
  /\ life[c] = "user" /\ type[c] = "no" /\ endpoint[c] # Telnet
  /\ Opened(c, t)
  /\ emit(c)
  /\ UNCHANGED <<life, endpoint, sessionno, temp, writing, redirFiles, store, sessions,
                 chunks, ended, reports, overlap>>

\* A login that is granted replaces the dialogue by a session.
TelnetLogin(c, granted) ==
  /\ life[c] = "login" /\ endpoint[c] = Telnet
  /\ IF granted THEN life' = [life EXCEPT ![c] = "user"] /\ Opened(c, "i")
     ELSE UNCHANGED <<life, type, stdin>>
  /\ emit(c)
  /\ UNCHANGED <<endpoint, sessionno, temp, writing, redirFiles, store, sessions,
                 chunks, ended, reports, overlap>>

\* Data for a command that is executed; its terminal has no use for it.
StdinReceived(c, d) ==
  /\ type[c] = "e" /\ chunks < MaxChunks
  /\ stdin' = [stdin EXCEPT ![c] = Append(@, Chunk(d))]
  /\ chunks' = chunks + 1
  /\ UNCHANGED <<life, endpoint, sessionno, type, temp, writing, redirFiles, store,
                 sessions, ended, reports, mistaken, overlap>>

\* The files with one more, or with another content.
Put(f, content) == [g \in {f} \cup DOMAIN temp |-> IF g = f THEN content ELSE temp[g]]

\* A command with ">" or ">>" creates its file, or adds to one of that name,
\* which somebody may have taken away meanwhile, and writes to it or does not.
WriteRedirected(c, n, output) ==
  LET f == <<c, n>>
      old == IF f \in DOMAIN temp THEN temp[f] ELSE << >>
  IN /\ type[c] # "no" /\ writing[c] = 0
     /\ writing' = [writing EXCEPT ![c] = n]
     /\ IF output = << >> THEN temp' = Put(f, old) /\ UNCHANGED chunks
        ELSE /\ chunks < MaxChunks /\ chunks' = chunks + 1
             /\ temp' = Put(f, Append(old, Chunk(output[1])))
     /\ UNCHANGED <<life, endpoint, sessionno, type, stdin, redirFiles, store, sessions,
                    ended, reports, mistaken, overlap>>

\* exit() of that command: without a terminal the file is forgotten.
CommandExits(c) ==
  LET f == <<c, writing[c]>>
  IN /\ writing[c] # 0
     /\ writing' = [writing EXCEPT ![c] = 0]
     /\ IF type[c] = "no" THEN UNCHANGED <<redirFiles, ended>>
        ELSE /\ redirFiles' = redirFiles \cup {f}
             /\ ended' = ended \cup IF f \in DOMAIN temp THEN Range(temp[f]) ELSE {}
     /\ UNCHANGED <<life, endpoint, sessionno, type, stdin, temp, store, sessions,
                    chunks, reports, mistaken, overlap>>

\* Mutant: a file is stored only if its content was there before.
FaultyRename(c, contents) ==
  {f \in {[session |-> c, bytes |-> Bytes(content)] : content \in contents} : f \in store}

\* Renamed to session and hash, or removed as a duplicate: the name exists.
Rename(c, contents) == {[session |-> c, bytes |-> Bytes(content)] : content \in contents}

\* The files that were redirected to and are still there.
Redirected == redirFiles \cap DOMAIN temp

\* connectionLost of a session's LoggingServerProtocol: its standard input
\* and the redirected files of whoever.
Saved(c) ==
  LET contents == {temp[f] : f \in Redirected} \ {<< >>}
      input == IF stdin[c] = << >> THEN {} ELSE {stdin[c]}
  IN /\ store' = store \cup Rename(c, contents \cup input)
     /\ reports' = reports \cup {[by |-> c, chunks |-> content] : content \in contents \cup input}
     /\ temp' = [f \in DOMAIN temp \ Redirected |-> temp[f]]
     /\ redirFiles' = {}

\* The end of an SSH session: a logout, or the client closes the channel.
SessionClosed(c) ==
  /\ type[c] # "no" /\ endpoint[c] # Telnet
  /\ Saved(c)
  /\ type' = [type EXCEPT ![c] = "no"]
  /\ emit(c)
  /\ UNCHANGED <<life, endpoint, sessionno, stdin, writing, sessions, chunks, ended, overlap>>

\* The end of a connection: what is open is closed first.
Closed(c) ==
  /\ IF type[c] = "no" THEN UNCHANGED <<store, reports, temp, redirFiles>> ELSE Saved(c)
  /\ type' = [type EXCEPT ![c] = "no"]
  /\ emit(c)
  /\ sessions' = Forget(c)

\* In Telnet the name of a stored file cannot be made, as its transport has no
\* conn: the first file that is not empty raises AttributeError, before it is
\* moved and before the closing is logged.  The session keeps its terminal.
ClosedInVain(gone) ==
  /\ temp' = [f \in DOMAIN temp \ gone |-> temp[f]]
  /\ UNCHANGED <<type, store, reports, redirFiles, sessions, mistaken>>

\* The client leaves or the time is up.
SshConnectionLost(c) ==
  /\ Open(c) /\ endpoint[c] # Telnet
  /\ life' = [life EXCEPT ![c] = "lost"]
  /\ Closed(c)
  /\ UNCHANGED <<endpoint, sessionno, stdin, writing, chunks, ended, overlap>>

TelnetConnectionLost(c) ==
  LET empty == {f \in Redirected : temp[f] = << >>}
  IN /\ Open(c) /\ endpoint[c] = Telnet
     /\ life' = [life EXCEPT ![c] = "lost"]
     /\ IF type[c] # "no" /\ Redirected # empty THEN \E gone \in SUBSET empty : ClosedInVain(gone)
        ELSE Closed(c)
     /\ UNCHANGED <<endpoint, sessionno, stdin, writing, chunks, ended, overlap>>

RecordNext ==
  \E c \in Conns :
    \/ SshConnect(c) \/ TelnetConnect(c)
    \/ \E granted \in BOOLEAN : SshLogin(c, granted) \/ TelnetLogin(c, granted)
    \/ \E t \in {"i", "e"} : OpenSession(c, t)
    \/ \E d \in Data : StdinReceived(c, d)
    \/ \E n \in 1 .. MaxFiles, output \in {<< >>} \cup {<<d>> : d \in Data} : WriteRedirected(c, n, output)
    \/ CommandExits(c) \/ SessionClosed(c) \/ SshConnectionLost(c) \/ TelnetConnectionLost(c)

-----------------------------------------------------------------------------
TimesReported(chunk) == Cardinality({r \in reports : chunk \in Range(r.chunks)})

\* What a redirected command wrote is kept, whoever closes first: once the
\* command exited with its session alive, the bytes wait in a file that some
\* SSH session will take, or were reported exactly once, by a session in whose
\* name they are stored.
Kept ==
  /\ \A chunk \in ended :
       IF \E f \in Redirected : chunk \in Range(temp[f])
       THEN TimesReported(chunk) = 0
       ELSE TimesReported(chunk) = 1
  /\ \A r \in reports : [session |-> r.by, bytes |-> Bytes(r.chunks)] \in store

\* While no two open connections have the same number, which takes two
\* endpoints, each event is written under the session that it came from, and
\* the table holds the open connections and nothing else but the Telnet ones
\* whose closing was cut short.
Owned ==
  ~ overlap =>
    /\ ~ mistaken
    /\ \A c \in Conns : Open(c) => sessions[Key(c)] = c
    /\ \A k \in Keys : sessions[k] # NoConn =>
         LET c == sessions[k]
         IN Key(c) = k /\ (life[c] = "lost" => endpoint[c] = Telnet /\ type[c] # "no")
=============================================================================
