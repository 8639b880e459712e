# VoIPHoneypot: models, checks and proofs

TLA+ models of the VoIP honeypot in this repository, the TLC configurations that check
them on small instances, and TLAPS proofs of what matters most. Every definition is
translated from the source; `PROJECT.json` names the lines each one stands for.

## Running

    tlc -workers 2 -config UdpSafety.cfg MCUdpSessions.tla     # one run, see the table
    tlapm UdpSessions_proof.tla                                 # one module of proofs

## The system

The repository is three honeypots that share a log directory and little else.

| Part | Code | State | Operations |
|---|---|---|---|
| UDP SIP server | `src/sip_server.py` UDPServer | `sessions`, a dict from source address to session, last use and port; `self.addr` | `datagramReceived`, `report`, `get_session` on the reactor thread; `check_conection` on a thread of its own |
| TCP SIP server | `src/sip_server.py` TCPServer | one object per connection | `connectionMade`, `dataReceived`, `connectionLost` |
| SIP methods | `src/voipclient.py`, `src/sipsession.py` | the table of calls and `json_list`, both class attributes that all peers share | `worker`, one method per SIP request |
| Log writer | `src/logger/` | `log_q`, `process`, two files | `OutputLogger` puts, `OutputWriter.run` on its thread takes and writes, `stop` |
| Web honeypot | `server.js` | the sqlite table `attacks`, the request log | the request handler, the sweep of `setInterval` |
| Cowrie, backend pool | `cowrie/src/backend_pool/` | the list of guests, ids, the timer of the producer; NAT bindings | `request_vm`, `free_vm`, `reuse_vm`, `producer_loop`, `restart_pool`, `stop_pool` |
| Cowrie, proxies | `cowrie/src/cowrie/ssh_proxy`, `telnet_proxy`, `pool_interface` | two connections per session, packets held back, what is known of the login | packets from either side, answers of the pool, loss of either connection |
| Cowrie, login policy | `cowrie/src/cowrie/core/auth.py`, `checkers.py` | the lines of userdb.txt, or attempts per address and a cache of passwords in a json file | `checklogin` |
| Cowrie, shell | `shell/honeypot.py`, `protocol.py`, `command.py`, `commands/` | the stack of commands, the chain of a pipeline, the pipelines still to run | lines and keys, timers, `exit()`, end of the session |
| Cowrie, file system | `shell/fs.py`, `shell/filetransfer.py`, `commands/fs.py` | a tree of entries in lists, links, SFTP uploads | look-ups by path, the commands, SFTP requests |
| Cowrie, recording | `insults/`, `ssh/`, `telnet/`, `core/output.py` | standard input and redirected files of a session, files by hash, sessions by connection number | connections, logins, sessions, writes, their ends; `emit` |

`PROJECT.json` lists all components with what is left out of each and why. Not modelled
at all: OSfooler (a vendored packet rewriter), the dead code of `http_server.py`,
`rtp_stream.py` and `utils.js`, and scripts.

How they interact. A datagram goes through `VoipClient.worker`, which changes the
class-wide table of calls and returns an answer and the reports in `json_list`. The
server files each report under the session of the sender's address, made on the fly,
and puts it on `log_q`. The expiry thread reads and deletes the same sessions, with no
lock, and puts disconnection records on the same queue. The writer thread empties the
queue into a log file and a json file. The web honeypot does the same in one process
and thread, with rows in place of the dict. Cowrie's proxies ask the pool for a guest
when an attacker connects and give it back when the connection is lost; the pool's
producer creates, tests and destroys guests every five seconds. Cowrie's own servers
(`backend = shell`) need no guest: a connection is numbered by its endpoint, logs in by the
login policy, and runs a shell whose commands share one file system and whose output,
input and redirected files are recorded; each event is filed by the connection's number.

What is hard:

- two threads on one dict: an insertion while the other iterates, an entry that is
  refreshed after it was judged idle, one that is deleted after it was found
  (`sip_server.py` 135, 145, 174, 189): a handler may lose the reports and the answer of a
  call that is already set up;
- class attributes used as if they were an object's: a method that raises leaves its
  reports to the next peer (`voipclient.py` 128, 471);
- the queue's end: `stop()` against messages still arriving, and a failing write
  (`logwrite.py` 50, 67);
- reports and deletions that must agree though they are two statements
  (`server.js` 368);
- an SSH session in the proxy has three connections that come and go in any order, and
  each end may be ready first: packets are held back on both sides, the guest may be
  reached after the attacker has left (`client_transport.py` 70, 160);
- the Telnet proxy reads prompts and answers out of data cut anywhere (`handler.py` 128);
- what the proxies take for a login on the guest is set after what the login sets off, which
  may raise (`client_transport.py` 87, 96);
- `exit()` pops whatever is on top of the stack: pipelines, substitutions, commands that
  wait for a timer, and wrappers such as `sudo` pop for each other (`command.py` 170);
- the list of redirected files is an attribute of the class (`insults.py` 32), so that
  sessions close each other's files, and Telnet's closing fails on them (175);
- events are filed by a number that two endpoints give twice (`output.py` 200);
- guests whose state is changed by requests, frees, health checks, time-outs and
  recycling in any order, found again by an id that is reused (`pool_service.py` 363,
  375, 378, 393).

`PROJECT.json` has these as "hazards", each at its line and with the properties that
watch it.

## What makes each part correct

- Attack log (UDP and web): a session begins with one connection record, every record
  of it names the address that opened it, it has at most one disconnection, from a port
  it was active from, and an address gets no second session before that. This is
  `SessionLog`, the abstract specification.
- Expiry: what is deleted was reported, what was reported is deleted by the end of the
  pass, and a silent address is gone a minute after the limit.
- SIP: whatever is sent is reported under the peer it was sent to; a grant on the log is a
  call that was set up, once, and a call is set up without one only if its caller's session
  was deleted meanwhile; reports reach the wrong peer in one way only, and that one is known.
- Writer: nothing put is lost, doubled or reordered, the two outputs agree, and the
  thread ends after `stop()` with what had been put written.
- Pool: the count of a guest's clients is right, no guest with a client may time out, no
  guest is handed out as fresh after a login, an address keeps its guest, and the pool
  keeps its size.

- Proxies: until an exception breaks the session what is handed on of each end's packets goes
  out once and in order (`Relay`, the abstract specification), none is lost but for the
  answers to the proxy's own login and what its settings forbid, the list of channels agrees
  with the ends, each prompt is answered at most once, a guest that comes back as unused was
  logged in on by nobody unless it was reached late or the login's flush raised, and every
  guest's connection is closed in the end.
- Login policy: nobody gets in too early or is kept out too long, and a line of userdb.txt
  that refuses is obeyed.
- Shell: no command of a plain line (one pipeline, or a list without pipes), typed or
  executed, is lost, the shell gets its prompt back, and echo is off only while a password
  is asked for.
- File system: a path means one entry, whichever look-up is used.
- Recording: what a redirected command wrote is reported once and stored, whoever closes
  first; each event is filed under its own session, and the table of sessions is exact.

## Modules

| Module | Models | Notes |
|---|---|---|
| `SessionLog` | what every front end promises of the log | abstract; `Spec`, and `WellFormed`, the same as a predicate of a log |
| `UdpSessions` | UDPServer: table, handler and expiry thread | an action is a stretch between two accesses to the table that the other thread can tell apart; refines `SessionLog` |
| `VoipClient` | each SIP method as an operator on (message, calls, json_list) | no state of its own |
| `SipServer` | UDP and TCP handlers over `VoipClient`, and the expiry thread's deletion of a session | a handler is one step, as the reactor runs it, with an outcome for each place in it at which the other thread may delete the sender's entry |
| `LogWriter` | queue, writer thread, outputs | `output_log` and `output_json` are what each output's `write()` was given; the level filter of `logging` is left out |
| `WebSessions` | `server.js`: handler and sweep | uses `SessionLog!WellFormed`, since a request puts two records in one step |
| `BackendPool` | `PoolService`, requests of `PoolServer`, sessions of the proxies with their `PoolClient` | guests are named by creation; the id is a value, since ids are reused |
| `Relay` | what a proxy promises of either end's packets | abstract |
| `ProxySession` | what both proxies have in common: attacker, pool, guest, timer, the guest's return | refines `Relay`; `settings` are the options a session runs with |
| `SshProxy` | `ssh_proxy/`: authentication in either order, packets held back, packets kept (`kept`), channels | extends `ProxySession` |
| `TelnetProxy` | `TelnetHandler`: prompts, answers kept and replaced, echo, buffered data | extends `ProxySession` |
| `Commands` | what each class of `commands/` does to stack, timers, echo and connection, as a table of small programs | no state of its own |
| `Shell` | `HoneyPotShell`, the protocol's stack, `HoneyPotCommand.exit` | runs the programs of `Commands` |
| `FileSystem` | `fs.py` and every command and SFTP request that makes, moves or removes an entry, `tar` included | |
| `Login` | `UserDB`, `AuthRandom` and its file | |
| `Recording` | SSH and Telnet connections, `LoggingServerProtocol`, `Output.emit` | |
| `MCProxy` | one session of either proxy, and its fairness | |
| `MCEmulation` | `Shell`, `Recording`, `Login`, `FileSystem`, each with the others at rest | they share no variable |
| other `MC...` | instances for TLC | |
| `..._proof` | theorems and proofs | |

Correspondence worth knowing:

- `UdpSessions`: `handler` and `checker` are the two threads' places. `DatagramReceived`
  takes the number of reports from nowhere: `SipServer` shows what they are. `keys` and
  `todo` stand for the dict iterator, which compares sizes at each step, the last one
  too (`SizeChanged`). `Minutes` is `relativedelta(..).minutes`, with the hours cut off.
- `VoipClient`: `json_list` is what stays in the class attribute. Each operator keeps
  the order of the method: what is reported or deleted before a line that may raise
  stays so.
- `SipServer`: `sessions` are the peers with an entry in the UDP server's table. `Filings`
  lists what may come of the reports of one datagram when `check_conection` deletes that entry
  before one of them, which starts a session anew, or inside `get_session`, which raises. When
  the thread does so is in `UdpSessions`. `did` is what the last handler did; `stuck` are TCP
  connections whose buffer holds a tuple and is never written.
- `WebSessions`: the bound of the deletion is a Date where a text is needed;
  `DateExpired` is what sqlite makes of the comparison.
- `BackendPool`: the first `producer_loop` after a start runs in a thread, step by step,
  beside the requests; the later ones are timer calls in the reactor, one step each.
  `loop_next_call` is "spent" once called or cancelled, when `cancel()` raises.
  `leaked`, `dirty`, `unhealthy`, `gaveBack` and `stray` are history, read by no action.
  `gaveBack` holds the addresses that gave a guest back for reuse, and `stray` the guests
  one of which was freed for the other by an id they share: the properties exempt these, and
  guests without connectivity, only.

- `ProxySession`: `front`, `back` and `pool` are the three connections. "closing" lies between
  `loseConnection()` and `connectionLost`, when nothing is read. `late` is history: the
  endpoint's Deferred is never cancelled, so a guest may be reached for an attacker who has
  left, and its state on return was decided before. `FrontendSSHTransport` and
  `FrontendTelnetTransport` repeat these handlers; the map names the first one's lines.
  `settings` are the options that are on: the pool, and what changes what is handed on, forwarding
  and SFTP in SSH, the spoofed login in Telnet.
- `SshProxy`: the proxy's '[SERVER]' is the end "frontend", its '[CLIENT]' is "backend".
  `parse_packet` is a function on a record of what it may change, so that a flush is a fold
  of it and an exception keeps what was done before. `Withheld` is what clears `sendOn`: an
  open while forwarding is off, SFTP while it is disabled, and the guest's answer to the
  proxy's USERAUTH, whose numbers are in `kept`; `LoginAccepted` is such an answer dropped
  before it is parsed. The peers keep to the standard in which channels they open and use:
  `Legal`.
- `TelnetProxy`: the guest's data is the set of prompts found in it and what of the echo;
  the attacker's is a line, the start of one, one cut after CR, or a negotiation. A piece of
  data may go out in two writes, so that its writes have two numbers: `Ahead`, the first three
  bytes as they came, and `Main`, the whole or the configured line. `entered` is history: the
  guest was sent its password.
- `Shell`: `todo` is the Python stack, as a list of steps not yet taken: a call puts its
  own before the rest and an exception drops them. The reactor's next event comes when it
  is empty (`Idle`). Objects are named by creation, as a command may outlive its place on
  the stack. Lines are given parsed (`Stop` is where the parser gives up, at `(...)` or a syntax
  error); `spoilt` is history and names what excuses a property.
- `Commands`: each handler (call, lineReceived, handle_CTRL_C, handle_CTRL_D, a timer)
  is the sequence of its effects in the code's order, where branches on output or
  arguments are alternatives.
- `FileSystem`: an entry is in its parent's `contents`, a list, as in the code, where two
  entries may have one name and one entry may be in two lists. `get_path` takes the first
  match and `getfile` the last, as the code's loops do. `newcount` may start at 1: a shell whose
  user has no home makes a temporary one.
- `Login`: `auth_random.json` is read again by each login, so that its state is the file;
  a crash while it is written leaves no JSON, hence nothing. `Loads` says that `userdb.txt` can be
  read: a line without a password raises.
- `Recording`: a chunk is what one write wrote. `sessions` is `Output.sessions`; its key
  is what the prefix of the log has, 'S' or 'T' and the endpoint's count.

Faulty variants (`Faulty...`, `Lazy...`, `Untimed...`) stand before the definition they
distort. Each is a plausible bug that breaks one property, and `PROJECT.json` lists them as
mutants; they are part of no specification.

## Runs

| Run | Configuration | Asks | Result |
|---|---|---|---|
| `udp` | `UdpSafety.cfg` | all interleavings of handler and expiry thread; refinement of `SessionLog`; the thread ends after `stopProtocol` | holds |
| `udp_silent` | `UdpSilent.cfg` | is every silent address disconnected, as `check_conection`'s docstring says? | no: a new address during an iteration kills the thread |
| `sip` | `SipServer.cfg` | every message from every peer, complete or lacking headers | holds |
| `sip_invite` | `SipInviteAnswered.cfg` | is an authorized INVITE answered, as the README says? | no: the answer is a pair, which no transport writes |
| `log` | `LogWriter.cfg` | the writer against puts, `stop()` and a failing write | holds |
| `web` | `WebSessions.cfg` | the web log is a session log; reports and deletions agree | holds |
| `web_expiry` | `WebExpiry.cfg` | does a sweep delete only what expired? | no: it deletes every row |
| `pool` | `BackendPool.cfg` | sessions, time-outs, failing guests and creations, recycling, ids that wrap | holds |
| `pool_using` | `PoolUsing.cfg` | does a guest in use have a client, as the class's docstring says? | no: the second of two sessions that reverts leaves it "using" |
| `pool_share` | `PoolShare.cfg` | are guests not shared with `share_guests` off, as the docs say? | no: `reuse_vm` leaves the address on the guest |
| `proxy` | `Proxy.cfg` | either proxy: is it a relay (`Relay`), are channels, prompts and guests right, does every session end? | holds |
| `emulation` | `Emulation.cfg` | cowrie's own servers: shell with all commands, recording, logins, file system | holds |

Bounds, and why they suffice:

- `udp`: two addresses and two ports (one entry deleted while another is inserted; a
  record with the wrong one of two sources), limit 1 minute and an hour of 3 with a
  clock to 5, so that an idle time wraps; 2 reports per datagram, so that the table can
  change between them; no datagram after 4 records, which leaves room for a session that
  is closed and opened again. `MaxRecords` and `MaxNow` stop the environment, never the
  two threads.
- `sip`: two UDP peers and a TCP peer (a report that lands with another peer), two
  Call-IDs, and seven sets of headers, one for each way in which a method's reads can
  fail; at most 1 left-over report when a message comes, with more added by it, and the
  session of either UDP peer deleted before, between or while any of the reports are filed.
- `log`: 5 messages put: the loop goes round several times, with a record before and
  after a line.
- `web`: two addresses and ports, a time-out of 2 with a clock to 7: three sweeps.
- `pool`: two sessions, two addresses, two guests of three ever created, 3 requests, ids
  that wrap at 2, where the code has 252: two guests with one id come up with the third
  guest, and again after recycling. Addresses and sessions are symmetric sets: the
  specification treats them alike and the run checks invariants only.
- `proxy`: 3 packets from each end: one held back, one that goes with it and one after
  (and, of SSH, a channel opened, confirmed and used or closed); two channel numbers, so
  that one is used again and that the two ends give different ones; the options all on,
  with the pool, and all off, with the backend of the configuration, since each option bears on
  packets of its own.
- `emulation`, shell: two lines typed, or one executed, of 93 kinds: every command alone and
  pipelines, lists, substitutions, wrappers, `(...)` and errors. Two lines suffice for one
  command that waits while another is called, and for input that waits for it; a line needs
  fewer than 2 running timers. Recording: 2 connections to 2 endpoints or by Telnet, 2 chunks,
  1 redirected file each (a file shared by two closers, a file written anew after it was taken,
  a number given twice). Login: mintry 2, maxtry 3, a cache of 1 (so that it is full), 4 tries,
  every userdb.txt of up to 3 of 7 lines, one of them without a password. File system: a root
  with a directory and a link to it, 2 names, 2 more entries, an upload, archives of one
  directory. The connections are a symmetric set.

`CHECK_DEADLOCK FALSE` is set where the bounded environment may come to an end.

Assumed of time. `UdpSessions` counts minutes: a handler takes less than one, and a
checker that lives makes a pass in each (`TIME_SLEEP` is 30 seconds). Nothing is assumed
of the order within a minute. `WebSessions` fires its timer when it is due. `BackendPool`
has no clock: any used guest may be found timed out.

Fairness. `UdpSessions!FairSpec` has weak fairness of the handler and of the checker,
since both threads run for ever and neither waits for a lock. `LogWriter!FairSpec` has
weak fairness of the writer's steps, a thread that never blocks but on a queue with a
time-out. Datagrams, `stop()`, the clock and failures need never happen. `MCProxy` has weak
fairness of a timer that is set (Twisted's `callLater`) and of the closing of a connection
that is being closed (the reactor calls `connectionLost` after `loseConnection()`); nobody
need ever send, answer or leave. No other module states liveness.

## Observed on the way

SIP, web and pool:

- `check_conection`'s docstring says 5 minutes, the constant is 10 (`sip_server.py` 18).
- `stopProtocol` stops the writer before the checker, which may still put records that
  nobody writes.
- The reports of one datagram may be filed under two sessions, or some of them and the answer
  lost, when the checker deletes the sender's entry meanwhile (`sip_server.py` 174, 189). The
  call is set up all the same.
- A datagram may be filed under a session after its disconnection record: the handler
  read the entry first. `SessionLog` allows it.
- `README_eng.md` lists ACK among what is answered; ACK is never answered.
- `sip_CANCEL` has a comment on 403 beside a 404.
- `create_guest` returns None when qemu is not ready, which `__producer_create_guests`
  cannot unpack: the loop is not scheduled again. After that `stop_pool` raises, as its
  timer was spent.

SSH proxy:

- The pool is asked for a guest, or the guest connected to, though the attacker has left;
  only the time-out ends such a connection, and none runs before it is made.
- A channel that one end has not numbered yet makes `get_channel` raise KeyError for every
  channel behind it; the option of remote forwarding is read with an argument missing
  (`ssh.py` 324) and always raises.
- An exception in the flush after a login is taken for a failed login by its Deferred.
- `connectionLost` says that the "VM was used if we performed SSH authentication to the
  backend" (`server_transport.py` 348). It reads `authDone`, which is set after that flush:
  if the flush raises, as it does whenever a request for remote forwarding was held back, the
  attacker is logged in on a guest that goes back as unused. `CleanGuest` exempts this.
- A second login sends USERAUTH to the guest again.
- What was held back of the guest's packets goes out only with its next packet.
- `term.py` logs the attacker's keys as TYPE_OUTPUT.

Telnet proxy:

- Data that ends with CR while a prompt awaits its answer raises IndexError.
- Both prompts in one packet make the next line the login, and no password is awaited.
- What waits for the guest's connection goes out with the next data, not with it.
- When the guest negotiated echo with its prompt, the first three bytes of what the attacker
  types are sent to it as they are, ahead of the configured line (`handler.py` 227-229).
- With `telnet_spoof_authentication` off nobody is ever known to have logged in: a guest goes
  back as unused whatever was done on it. `CleanGuest` says nothing of this.

Login policy:

- A line of `userdb.txt` without a password makes reading the file raise IndexError
  (`auth.py` 101): nobody is let in.
- A cached combination sets the number needed to 1, so the address's next attempt succeeds
  with any password.
- After its success an address is refused for ever: bytes are compared with their `str`.
- A crash while `auth_random.json` is written loses all of it.

Shell:

- In `a | b ; c` b is never called: when a exits, c is called at once and replaces the chain
  that a would have handed on to. `sudo x; y` loses x and `sh -c x | cat` loses cat likewise.
  `PipelineRuns` is about the other lines, which `Plain` defines.
- The parser drops what follows a `(...)`: `(echo hi); cat` never calls cat. So does a syntax
  error.
- In exec, an exception is only logged: `mv -Z | cat` loses cat. After an unknown command, an
  assignment, an empty line or a syntax error the connection stays open until its time-out,
  though a comment says that the connection is closed (`honeypot.py` 212-214); `Prompted` says
  what does hold.
- `cat` and `scp` raise on binary data, `sudo` and `busybox` when input is piped to them, and
  `tar` on any archive with a file in it (`mkdir` of an empty name).
- In `sleep 5 | cat` and `busybox sleep 5` one command's exit pops the other; the second exit
  of `python a b` pops the shell itself, and all further input is discarded.
- `$(sleep 5)` leaves a shell without a terminal on the stack.
- CTRL-C in a password dialogue leaves echo off.
- `command_chattr` is dead code: its name is bound again to `command_nop`.

File system:

- `mv` never removes what is at its destination, and a directory moved into itself becomes
  a cycle that nothing leads to. Of a link it moves the target.
- `tar` makes the directories of an archive without looking for their names: unpacked twice,
  each is there twice. `OneMeaning` exempts this.
- SFTP's open makes the entry before the file on the host, which may fail.
- `mkdir` and SFTP's rename onto a link that leads nowhere add a second entry of the name.
- The test for the last piece of a path compares names and not positions.
- SFTP's rename takes the entry out before it looks for the new directory.
- A second upload of one name is deleted while its event is logged.

Recording:

- The closer of a session reports everybody's redirected files as its own.
- A Telnet session has no `conn`: its closing raises AttributeError when such a file waits,
  its end is not logged, and the table keeps its entry.
- The file of a command that still runs when its session ends is never reported.
- Two SSH endpoints count separately, so two connections may both be S1: the second takes
  over the first one's events, and the first to leave removes the entry of both.
- Events from timers have no prefix and are dropped. dest_ip and dest_port are those of the
  first connection ever.

## What is proved

By TLAPS, for every value of the constants that the assumptions allow. Each of these holds
in the code or in the meaning of the constant:

| Assumption | Says |
|---|---|
| `UdpSessions`: `MinutesAssumption`, `BoundsAssumption`, `SourcesAssumption` | a limit below the hour, bounds that are numbers, finitely many addresses; `Absent` is none of them and no entry |
| `LogWriter!BoundAssumption`, `WebSessions!BoundsAssumption`, `ProxySession!PacketsAssumption` | bounds are numbers |
| `SshProxy!NoneAssumption` | `None`, no number yet, is no number of a channel |
| `WebSessions`: `IpsAssumption`, `RowsAssumption`, `TimeoutAssumption` | finitely many addresses, `Absent` is none of them and no row, the time-out is positive |
| `SipServer`: `PeersAssumption`, `HeadersAssumption`, `LeftoverAssumption`; `VoipClient!NoAnswerAssumption` | a peer speaks UDP or TCP, messages have headers, the bound is a number, no answer is none of the answers |
| `BackendPool`: `ConfigAssumption`, `IpsAssumption`, `SessionsAssumption`, `BoundsAssumption` | a pool has a size, "None" is no address, finitely many sessions, bounds are numbers |
| `Login`: `LoginAssumption`, `FilesAssumption` | 1 <= mintry <= maxtry, a cache size; userdb.txt is a sequence of lines |
| `Shell!LinesAssumption` | a line is a sequence of pipelines; the arguments of sudo, busybox and sh are commands that exist and run no others, and a quotation that is not closed is all there is to parse |
| `Recording!RecordAssumption` | finitely many connections, `NoConn` is none of them, bounds are numbers |

No set of addresses, ports, calls, guests, packets or lines is fixed. The symmetry that
`pool` and `emulation` use plays no part in the proofs.

### The SIP server and its log

`UdpSessions_proof`. The invariants are not inductive by themselves: that a reported
session is deleted depends on where both threads are. `IInv` is the conjunction of

- `TypeOK`, and `LeftInv`: a report is pending wherever one may be put;
- `TableInv`: entries have sessions of their own, announced with their address and port,
  but for the one entry the handler is about to announce;
- `HandlerInv`: what the handler holds belongs to the address it serves;
- `CheckerInv`: only the checker deletes, so its keys stay in the table, and an entry has
  a disconnection record exactly when it is in `list_to_delete`;
- `LogInv`: sessions not given out yet are in no record.

One lemma per action shows that it is preserved. From it follow `ReportsMatchDeletions`
([]ReportedIsDeleted), `DeletionsReported` (the action property DeletedOnlyIfReported),
`Refinement` (each step is a step of `SessionLog` or a stutter), `SessionsFollow`
([]OneOpenSession, with a further invariant on the connection records) and
`ExpiryIsPrompt` ([]ExpiryPrompt, with an invariant on ages: while the checker lives no
entry grows old enough for the minutes to wrap).

`SipServer_proof`. Each operator of `VoipClient` returns an outcome of one of a few forms
(`InviteOutcomes` and its like): nothing was answered, an answer was reported, a refusal was
reported besides, or a call was granted. `IInv` is `TypeOK`, `RefusalsOnly(json_list)` (what a
method that raised leaves behind are refusals of an authorization), `FiledInv` (what the last
handler filed under its peer is that peer's, or such a refusal) and `AnswerReported`.
`WorkerReports` carries it through a handler of which only some reports are filed: whatever
is filed is the worker's or a connection record, an answer goes out only if all was filed,
and the grants filed are at most the worker's, and exactly those unless the peer's session
was deleted (`SessionsAfter`). From it `AnswersAreReported`, `OnlyRefusalsMisfiled` and, with
the number of grants of each outcome, `GrantedOnce` (the action property AuthorizedOnce).

`LogWriter_proof`. `IInv` is `TypeOK`, `NothingLost` itself and what the writer last saw
of the queue; from it `NothingIsLost` and `DrainedAtTheEnd`. `FilesHaveTheSame`
([]FilesAgree) is about the records of a log, which a recursive function picks: `Counts`
numbers them, and `RecordsAppend` says what one more message does to them. What is between
the two writes is then a record (`TakenInv`).

### The web honeypot

`WebSessions_proof`. `IInv` is `TypeOK`, `TableInv` (a row belongs to a session that was
opened for its address, was active from its port and is not closed, and no two rows share
one), `LogInv` (sessions not given out are in no record) and `WellFormedSeq`, the log is a
session log. A sweep appends as many records as rows it finds: what is proved of it holds of
any order they are reported in. From it `LogIsSessionLog` ([]SessionLogged, the
counterpart of `Refinement`) and `ReportsMatchDeletions`.

### The backend pool

`BackendPool_proof`. `IInv` is

- `SessionInv`: a session holds a guest exactly in the phases in which it is served, and
  its address is among that guest's;
- `GuestInv`, of each guest: one that was not created yet is held by nobody; `connected`
  counts the sessions that hold it and those that closed before their answer; what state it
  is in agrees with the count and with its history (`Resting`); its first client's address
  stays on it;
- `UniqueInv`: an address that was not given up is on one sound guest at most;
- `ProducerInv` and `SizeInv`: what the producer's thread is still to create fits.

`GuestInv` exempts guests mistaken for one another by an id they share, as the properties
do. From it `AccountingKept`, `UsedIsFree`, `AvailableIsPristine`, `OneGuestPerAddress` and
`PoolBounded`, whichever creations fail and however often the pool is recycled.

`SameGuest` is the one property that had to be corrected for its proof: it exempts
addresses that a guest gave back (`gaveBack`, history). Without that it held only within the
run's bounds: with 3 addresses, 3 sessions and 7 requests TLC finds an address that is on two
guests. The address gave its first guest back and stayed among that guest's clients; others
were given the guest meanwhile, and the address, when it came again, another one.

### Cowrie's proxies

`Proxy_proof`, about `MCProxy!Spec`, either proxy with any number of packets and channels.
`GuestsComeBackClean` ([]CleanGuest): `LoggedIn` is that USERAUTH was sent to an SSH guest, or
the configured password to a Telnet one, and not `authDone`, which the code sets afterwards.
`CleanInv` relates the two: a Telnet guest that was entered has `authDone`, and an SSH guest
that is logged in on without it still has packets to be flushed (`Noticed`), since only a flush
that raised leaves it so. A guest goes back when the attacker is lost for good, and after
that only a late connection can be up. `AnswersWereAskedFor` ([]LinePerPrompt):
a prompt that awaits an answer is one more than were answered.

That no packet is lost, doubled or reordered has an inductive invariant `IInv` of its own:
`TypeOK`, `PromptInv` and `PromptBound`, `KeepInv` (what is kept or held back may come from
its end, and only what may be kept is kept), and until an exception

- `SshInv`: of each end (`Ordered`) what was handed on is in order, what is held back is too
  and comes after it, and with what was kept these are all the numbers from 1; once the login
  is done nothing of the attacker's is held back;
- `TelnetInv`: the writes of the attacker's data that were made, and then those buffered for
  the guest, are in order, two numbers to a piece of data, and so are the writes of the
  guest's.

The flush of the SSH proxy handles what is held back one by one, as a recursive function;
`IInv` is carried through it by a step lemma on `parse_packet`, which may raise. From it
`TypeCorrect`, `NothingIsLost` ([]NoPacketLost) and `ProxyRelays`: every step of either
proxy is a step of `Relay` or a stutter.

`ChannelsAgree` ([]ChannelsKnown) rests on `IInv` and on `ChannelInv`, until an exception:

- `Listing`: each channel in the list has a number, and no number stands for two;
- `Held`, for either end: each packet that is held back is `Expected` of the list as it is
  (what it opens or confirms takes a free number, what it answers is unanswered, what it
  uses is open), and each `Follows` those before it (no number is given twice, nothing is
  answered twice, nothing is used once it was closed).

Packets that are held back are about a list that others go on changing, so `Turns` says what
a packet makes of the set of channels, `OtherStays` that this leaves alone what the other
end may be expected to send, and `OwnStays` that it leaves what follows from the same end.
`LegalExpected` shows that what the standard lets an end send is expected. The remaining
exceptions are the ones of the code: a channel without a number in the way
("unnumbered channel"), the option of remote forwarding and an attacker who is gone.

### Cowrie's own servers

`Emulation_proof`, about `Login` and `Recording`. With AuthRandom, `Fair(ip)` says of an
address that no cached combination helped that its counter counts the different combinations it
tried and stays below the number drawn until it is let in. With UserDB, each line is added to
the table in turn: `FromLines` (each entry is some line) and `FirstStaysFirst` (the first line
about a combination, if it is not given again, is the first entry about it) give `RightAnswer`.
From both `LoginsAreDeserved` ([]Deserved).

Of `Recording`, with any number of connections and endpoints:
`EventsFindTheirSession` ([]Owned): the table is right because endpoints count upwards
(`NumberFits`: the counts stay within the keys, which needs that the connections are
finite), because only the owner of an entry removes it while no two have one number, and
because a session belongs to a login. `RedirectedIsKept` ([]Kept): the invariant is that a
chunk is in one place at a time. `NumberedInv` (chunks are numbered in order, so that a new
one is nowhere yet), `OnePlaceInv` (no chunk is in two of: redirected files, inputs of open
sessions, reports), `SomewhereInv` (what a command wrote that exited in time is in a file
that will be taken, or in a report) and `StoredInv`. `SavedKept` is the heart of it: the
chunks a closing session takes move from files and input to one report each, in one step.

### The emulated shell

`Shell_proof`, for any lines and any of the commands. `PromptAlways` ([]Prompted): what a
handler may do is known of every class of `Commands` (`Behaviours`, `Handlers`), and the
property follows from the steps that are still on the stack. The invariant is `Prompting`,
while the session is open and neither an exception nor a pop of another's has spoilt it
(`Clean`):

- `Waits`: the shell of each `$(...)` or `sh -c` that is being run stands on the stack just
  above who runs it, no two steps pop the same, and who ran a `$(...)` reads on;
- `Firsts`: the steps that speak of the top of the stack, or of the chain of a pipeline,
  come where the top is theirs, and where somebody is left to call what they insert;
- `Bottom`: the session's own shell is at the bottom, and nobody is on the stack twice;
- `Chained`: what is left of a chain will be called by somebody;
- `Due`: while the shell is alone, it has prompted with nothing to run, or a step is left
  that brings a prompt, a command or the end.

`Prompted` is not inductive, as it says nothing between two calls of the reactor: there the
shell may be without its prompt, and is given it by a step that is still to come. Of an exec
session it says that the shell called `showPrompt()`, which shows nothing there, or that the
session ended.

`EchoBack` ([]EchoRestored): what `passwd`, `adduser` and `ssh` hide of what is typed they show
again before they leave, whatever else is on the stack. The invariant `Echoing` is about runs
that no exception, no CTRL-C and no pop of another's has spoilt (`Unspoilt`: CTRL-C leaves the
echo off in the code too, which is why the property excludes it):

- `Left`: an `adduser` that is no longer on the stack is at its last question, or left at once
  and set no timer, so that a late timer finds nothing to hide;
- either nobody is in the middle of a dialogue, and if echo is off a command that may have
  hidden it stands on the stack (`Calm`); or exactly one of the three is in the middle of one of
  fourteen `Scripts`, the steps still to be taken begin with it, and no step behind them hides
  or shows anything (`Within`). What each script may follow is `Allowed`: nobody hides who is
  not on the stack, and nobody exits between hiding and showing.

It needs `Prompting`, for who stands where: that the end of a `$(...)` or of an `sh -c` pops a
shell, never a command that hides, is `Waits`.

### How

TLC checked each inductive invariant on the instance of the module's run, a bound given to what
it quantifies without one. Induction over the length of a log, of a list of lines or of what is
held back takes the least number at which a claim fails: the set of such numbers, were it not
empty, would have a least one (`LeastNumber`, from the well-foundedness of the natural
numbers), and the step to it holds. What is proved about is therefore written with recursive
functions (`Records`, `load`, `parse_all`), whose definition the provers can use.

Only model-checked: liveness (`CheckerEnds`, `WriterEnds`, `TimesOut`), which is beyond the
prover; `OneMeaning`, as `FileSystem` has recursive operators, and with it
`MCEmulation!TypeOK`, which includes `FileSystem`'s; and `PipelineRuns`, which is about lines
laid end to end (`FlattenSeq`), an induction over data.

## Not modelled

- NAT of the backend pool (`nat.py`): ports that are opened and never closed; no guest's
  state depends on it.
- libvirt, qemu-img, nmap: what they return or raise is a choice in `BackendPool`.
- The pool interface's one master connection and the reading of configurations, whose
  effect `BackendPool` has as `set_configs`.
- Readers in the SSH proxy that only log (terminal, exec, SFTP); TTY logs and downloads of
  one session, which no other session touches; forwarding in the SSH server, which only logs.
- The order in which `server.js`'s writes to its request log complete, and a peer of the proxies
  that does not read, for which `loseConnection()` waits: `TimesOut` takes it that it reads.
- What commands print and how they read arguments; owners, modes, sizes, times and contents
  of files; TAB completion and the history of lines.
- Output plugins, which hand events to outside services.
- Web helpers, the HTTP handler and RTP: code nobody calls. OSfooler: a vendored packet
  rewriter. Start-up scripts and containers.

## What could come next

1. Proofs: `PipelineRuns` for lines of a given length.
2. `UdpSessions` put on `LogWriter`'s queue, to say what of the attack log is on disk after
   `stopProtocol`.
3. The NAT beside `BackendPool`, and what becomes of a session whose guest is destroyed.
