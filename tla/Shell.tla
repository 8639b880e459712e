------------------------------- MODULE Shell -------------------------------
(***************************************************************************)
(* One session of cowrie's emulated shell: HoneyPotShell, the protocol     *)
(* that holds the stack of running commands (cmdstack) and the chain of    *)
(* piped ones (pp), and HoneyPotCommand.  Nothing runs concurrently, but a *)
(* command may wait for input or for a timer while others are called, and  *)
(* exit() pops whatever is on top of the stack.                            *)
(*                                                                         *)
(* The Python stack is todo, a sequence of steps yet to be taken: a call   *)
(* puts its own steps before the rest, and an exception drops them.  The   *)
(* reactor's events come when todo is empty.                               *)
(***************************************************************************)
EXTENDS Commands, SequencesExt

CONSTANTS Lines,        \* bound: the lines that may be typed
          MaxLines,     \* bound: how many are typed to a shell or queued
          MaxTimers     \* bound: no line for a command that has more timers

VARIABLES
  kind,            \* "interactive" or "exec"
  conn,            \* "open", "ending" since processEnded, or "closed"
  objs,            \* every shell and command object made, by identity
  cmdstack,
  pp,              \* the stages that follow the command called last
  todo,
  turn,            \* what the reactor runs: "data", "timer" or "request"
  password_input,  \* what is typed is not echoed
  typed,           \* lines typed to a shell or queued
  prompted,        \* history: showPrompt() was called since the last line or command
  wanted, launched, \* history: the pipeline of the last line, what was called of it
  spoilt           \* history: "raised", "interrupted" (CTRL-C), and "crossed": a
                   \* pop() took something other than what it was meant for

shellvars == <<kind, conn, objs, cmdstack, pp, todo, turn, password_input, typed,
               prompted, wanted, launched, spoilt>>

\* A stage of a pipeline is a command and the pipeline in its arguments, for
\* sudo, busybox and sh.  A line is a sequence of pipelines, sub being the
\* $(...) that one holds.  What stands in (...) is a pipeline of its own, before
\* the one it is part of.  "unknown" is no command, as the "echo)" of (echo) is,
\* "missing" is the place between two bars, "quote" a quotation that is not
\* closed, "stop" what ends the reading: a ";" with nothing before it, also if
\* that is because (...) went before, and what follows the one word of (echo).
\* A pipeline without stages only assigns variables.
NoCommand == {"unknown", "missing", "quote", "stop"}

\* Bound: sudo, busybox and sh are given commands that exist and run no others.
\* What keeps the shell from going on is the whole of a pipeline.
Callable  == [cmd : Programs, arg : Seq([cmd : Programs, arg : {<< >>}])]
Word      == [cmd : Programs \cup {"unknown", "missing"}, arg : Seq([cmd : Programs, arg : {<< >>}])]
Quote     == <<[cmd |-> "quote", arg |-> << >>]>>
Stop      == <<[cmd |-> "stop", arg |-> << >>]>>
Pipelines == Seq(Word) \cup {Quote, Stop}

ASSUME LinesAssumption == Lines \subseteq Seq([sub : Pipelines, stages : Pipelines])

ShellTypeOK ==
  /\ kind \in {"interactive", "exec"}
  /\ conn \in {"open", "ending", "closed"}
  /\ \A i \in DOMAIN objs : /\ objs[i].cmd \in {"shell", "subshell"} \cup Programs
                            /\ objs[i].timers \in Nat
                            /\ objs[i].phase \in 0 .. 4
  /\ \A i \in DOMAIN cmdstack : cmdstack[i] \in DOMAIN objs
  /\ turn \in {"data", "timer", "request"}
  /\ password_input \in BOOLEAN /\ prompted \in BOOLEAN
  /\ typed \in 0 .. MaxLines
  /\ spoilt \subseteq {"raised", "interrupted", "crossed"}

New(cmd, arg) == [cmd |-> cmd, arg |-> arg, pending |-> << >>, timers |-> 0, phase |-> 0]
IsShell(id) == objs[id].cmd \in {"shell", "subshell"}
Item(do, by, with) == [do |-> do, by |-> by, with |-> with]
Script(id, steps, with) == [i \in DOMAIN steps |-> Item(steps[i], id, with)]

\* Lines whose commands must all be called; the others want nothing.  Plain lines
\* have no $(...), no (...), no syntax error and nothing that is no command, do
\* not start commands that start others, and are one pipeline or have no pipe:
\* the shell itself drops the rest of a pipeline that is followed by something
\* if its first command exits at once, and sudo is dropped likewise.
Names(pipelines) == [i \in DOMAIN FlattenSeq(pipelines) |-> FlattenSeq(pipelines)[i].cmd]
Stages(line) == [i \in DOMAIN line |-> line[i].stages]

Plain(line) ==
  /\ Len(line) = 1 \/ \A i \in DOMAIN line : Len(line[i].stages) = 1
  /\ \A i \in DOMAIN line : line[i].sub = << >>
  /\ Range(Names(Stages(line))) \cap (NoCommand \cup {"sudo", "busybox", "sh"}) = {}

Wanted(line) == IF Plain(line) THEN Names(Stages(line)) ELSE << >>

\* Only the shell of an interactive session shows a prompt when it is made.
ShellStart ==
  /\ kind \in {"interactive", "exec"}
  /\ conn = "open"
  /\ objs = <<New("shell", << >>)>>
  /\ cmdstack = <<1>>
  /\ pp = << >>
  /\ \/ kind = "interactive" /\ todo = << >> /\ typed = 0 /\ wanted = << >>
     \/ /\ kind = "exec" /\ typed = 1
        /\ \E line \in Lines : todo = <<Item("parse", 1, line)>> /\ wanted = Wanted(line)
  /\ turn = "request"
  /\ password_input = FALSE
  /\ prompted = (kind = "interactive")
  /\ launched = << >>
  /\ spoilt = {}

-----------------------------------------------------------------------------
(* The steps. *)

head == Head(todo)
rest == Tail(todo)
me == objs[head.by]

Doing(step) == todo # << >> /\ head.do = step
Then(items) == todo' = items \o rest
Raise == Item("raise", 1, << >>)

\* Mutant: the second command of a chain is skipped.
FaultyNext_command(stages) == SubSeq(stages, 3, Len(stages))

\* next_command of a chain of StdOutStdErrEmulationProtocols.
next_command(stages) == Tail(stages)

\* call_command: the environment is that of the bottom of the stack, which
\* must not be empty; after start() the rest of the chain is called.
call_command ==
  /\ Doing("call")
  /\ pp' = next_command(head.with)
  /\ LET stage == Head(head.with)
         id == Len(objs) + 1
     IN IF cmdstack = << >>
        THEN Then(<<Raise>>) /\ UNCHANGED <<objs, cmdstack, prompted, launched>>
        ELSE \E steps \in Behaviour(stage.cmd, 0).start :
               /\ objs' = Append(objs, New(stage.cmd, stage.arg))
               /\ cmdstack' = Append(cmdstack, id)
               /\ Then(Append(Script(id, steps, << >>), Item("lost", id, << >>)))
               /\ launched' = IF Len(launched) < Len(wanted)
                              THEN Append(launched, stage.cmd) ELSE launched
               /\ prompted' = FALSE
  /\ UNCHANGED <<kind, conn, turn, password_input, typed, wanted, spoilt>>

outConnectionLost ==
  /\ Doing("lost")
  /\ Then(IF pp = << >> THEN << >> ELSE <<Item("call", head.by, pp)>>)
  /\ UNCHANGED <<kind, conn, objs, cmdstack, pp, turn, password_input, typed,
                 prompted, wanted, launched, spoilt>>

processEnded == IF conn = "open" THEN "ending" ELSE conn

\* Mutant: a command that exits does not resume the shell under it.
FaultyResume(stack) == << >>

\* resume() of what is on top of the stack now.
Resume(stack) == IF stack # << >> /\ IsShell(Last(stack))
                 THEN <<Item("run", Last(stack), << >>)>> ELSE << >>

\* HoneyPotCommand.exit: the top of the stack goes, whoever it is.
ExitStep ==
  /\ Doing("exit")
  /\ IF cmdstack = << >>
     THEN Then(<< >>) /\ conn' = processEnded /\ UNCHANGED <<cmdstack, spoilt>>
     ELSE /\ cmdstack' = Front(cmdstack)
          /\ Then(Resume(Front(cmdstack)))
          /\ spoilt' = IF Last(cmdstack) = head.by THEN spoilt ELSE spoilt \cup {"crossed"}
          /\ UNCHANGED conn
  /\ UNCHANGED <<kind, objs, pp, turn, password_input, typed, prompted, wanted, launched>>

\* runCommand: the next pending pipeline, or, when there is none left, a prompt
\* or the end of the session.  One without a command, or with a word that is
\* none, is passed over, and after the last showPrompt() is called, which shows
\* nothing in an exec session and does not end it; a missing word raises.
runCommand ==
  /\ Doing("run")
  /\ IF me.pending = << >>
     THEN /\ Then(<< >>)
          /\ prompted' = (prompted \/ (kind # "exec" /\ pp = << >> /\ me.cmd = "shell"))
          /\ conn' = IF pp = << >> /\ Len(cmdstack) = 1 /\ (kind = "exec" \/ me.cmd = "subshell")
                     THEN processEnded ELSE conn
          /\ UNCHANGED objs
     ELSE LET pipeline == Head(me.pending)
              words == {pipeline[i].cmd : i \in DOMAIN pipeline}
              last == Len(me.pending) = 1
          IN /\ objs' = [objs EXCEPT ![head.by].pending = Tail(@)]
             /\ IF "missing" \in words THEN Then(<<Raise>>) /\ UNCHANGED prompted
                ELSE IF words = {} \/ "unknown" \in words
                     THEN /\ Then(IF last THEN << >> ELSE <<head>>)
                          /\ prompted' = (prompted \/ (last /\ me.cmd = "shell"))
                     ELSE Then(<<Item("call", head.by, pipeline)>>) /\ UNCHANGED prompted
             /\ UNCHANGED conn
  /\ UNCHANGED <<kind, cmdstack, pp, turn, password_input, typed, wanted, launched, spoilt>>

\* The next object to be made.
NewId == Len(objs) + 1

\* A shell of another's own, to run pipeline, and then what is to follow.
Subshell(pipeline, following) ==
  /\ objs' = Append(objs, New("subshell", << >>))
  /\ cmdstack' = Append(cmdstack, NewId)
  /\ Then(<<Item("parse", NewId, <<[sub |-> << >>, stages |-> pipeline]>>)>> \o following)

\* lineReceived of a shell reads a line pipeline by pipeline; the commands in
\* $(...) are run while it reads, the others when it is done.  It is done at the
\* end of the line or where the reading stops, and then runs what it has.
Parse ==
  /\ Doing("parse")
  /\ IF head.with = << >>
     THEN /\ Then(IF me.pending = << >> THEN << >> ELSE <<Item("run", head.by, << >>)>>)
          /\ prompted' = (prompted \/ (me.pending = << >> /\ me.cmd = "shell"))
          /\ UNCHANGED <<objs, cmdstack>>
     ELSE LET p == Head(head.with)
              more == Tail(head.with)
          IN IF p.sub # << >>
             THEN /\ Subshell(p.sub,
                       <<Item("unsub", head.by, <<NewId>>),
                         Item("parse", head.by, <<[sub |-> << >>, stages |-> p.stages]>> \o more)>>)
                  /\ UNCHANGED prompted
             ELSE IF p.stages # << >> /\ p.stages[1].cmd = "quote"
             THEN /\ objs' = [objs EXCEPT ![head.by].pending = << >>]
                  /\ prompted' = (prompted \/ me.cmd = "shell")
                  /\ Then(<< >>) /\ UNCHANGED cmdstack
             ELSE IF p.stages # << >> /\ p.stages[1].cmd = "stop"
             THEN Then(<<Item("parse", head.by, << >>)>>) /\ UNCHANGED <<objs, cmdstack, prompted>>
             ELSE /\ objs' = [objs EXCEPT ![head.by].pending = Append(@, p.stages)]
                  /\ Then(<<Item("parse", head.by, more)>>)
                  /\ UNCHANGED <<cmdstack, prompted>>
  /\ UNCHANGED <<kind, conn, pp, turn, password_input, typed, wanted, launched, spoilt>>

\* The shell of a $(...) is taken for the top of the stack, and the output for
\* that of the last command, if there was one.
SubstitutionDone ==
  /\ Doing("unsub")
  /\ IF cmdstack = << >> THEN todo' = <<Raise>> \o todo /\ UNCHANGED <<cmdstack, spoilt>>
     ELSE /\ cmdstack' = Front(cmdstack)
          /\ spoilt' = IF Last(cmdstack) = head.with[1] THEN spoilt ELSE spoilt \cup {"crossed"}
          /\ IF \E i \in DOMAIN objs : ~ IsShell(i) THEN Then(<< >>)
             ELSE todo' = <<Raise>> \o todo
  /\ UNCHANGED <<kind, conn, objs, pp, turn, password_input, typed, prompted, wanted, launched>>

\* sh -c: without a command to run it raises, or had no -c.
Sub ==
  /\ Doing("sub")
  /\ IF me.arg = << >>
     THEN todo' \in {rest, <<Raise>> \o rest} /\ UNCHANGED <<objs, cmdstack>>
     ELSE Subshell(me.arg, <<Item("unshell", NewId, << >>)>>)
  /\ UNCHANGED <<kind, conn, pp, turn, password_input, typed, prompted, wanted, launched, spoilt>>

ShDone ==
  /\ Doing("unshell")
  /\ IF cmdstack = << >> THEN Then(<<Raise>>) /\ UNCHANGED <<cmdstack, spoilt>>
     ELSE /\ cmdstack' = Front(cmdstack)
          /\ spoilt' = IF Last(cmdstack) = head.by THEN spoilt ELSE spoilt \cup {"crossed"}
          /\ Then(<< >>)
  /\ UNCHANGED <<kind, conn, objs, pp, turn, password_input, typed, prompted, wanted, launched>>

\* An exception: a shell that was reading $(...) takes it for a syntax error;
\* else what came from the network closes the connection, and what did not is
\* only logged.
Raised ==
  /\ Doing("raise")
  /\ spoilt' = spoilt \cup {"raised"}
  /\ LET at == SelectInSeq(todo, LAMBDA item : item.do = "unsub")
     IN IF at # 0
        THEN /\ todo' = SubSeq(todo, at + 2, Len(todo))
             /\ objs' = [objs EXCEPT ![todo[at].by].pending = << >>]
             /\ prompted' = (prompted \/ objs[todo[at].by].cmd = "shell")
             /\ UNCHANGED <<conn, cmdstack>>
        ELSE /\ todo' = << >>
             /\ IF turn = "data" THEN conn' = "closed" /\ cmdstack' = << >>
                ELSE UNCHANGED <<conn, cmdstack>>
             /\ UNCHANGED <<objs, prompted>>
  /\ UNCHANGED <<kind, pp, turn, password_input, typed, wanted, launched>>

\* lineReceived of HoneyPotCommand: one pipeline, whatever it holds, for the
\* bottom of the stack, which is to be a shell.
Queue ==
  /\ Doing("queue")
  /\ IF IsShell(cmdstack[1])
     THEN objs' = [objs EXCEPT ![cmdstack[1]].pending = Append(@, head.with)] /\ Then(<< >>)
     ELSE Then(<<Raise>>) /\ UNCHANGED objs
  /\ UNCHANGED <<kind, conn, cmdstack, pp, turn, password_input, typed, prompted,
                 wanted, launched, spoilt>>

\* The steps that touch one thing.
Small ==
  /\ todo # << >>
  /\ \/ /\ head.do \in {"later", "cancel", "next", "back"}
        /\ objs' = CASE head.do = "later" -> [objs EXCEPT ![head.by].timers = @ + 1]
                     [] head.do = "cancel" -> [objs EXCEPT ![head.by].timers = 0]
                     [] head.do = "next" -> [objs EXCEPT ![head.by].phase = @ + 1]
                     [] head.do = "back" -> [objs EXCEPT ![head.by].phase = @ - 1]
        /\ UNCHANGED <<conn, pp, password_input>>
     \/ /\ head.do \in {"hide", "show"}
        /\ password_input' = (head.do = "hide")
        /\ UNCHANGED <<objs, conn, pp>>
     \/ /\ head.do = "end"
        /\ conn' = processEnded
        /\ UNCHANGED <<objs, pp, password_input>>
     \/ /\ head.do = "insert"
        /\ pp' = me.arg \o pp
        /\ UNCHANGED <<objs, conn, password_input>>
  /\ Then(<< >>)
  /\ UNCHANGED <<kind, cmdstack, turn, typed, prompted, wanted, launched, spoilt>>

-----------------------------------------------------------------------------
(* What the reactor calls. *)

Idle == todo = << >>
Typing == Idle /\ kind = "interactive" /\ conn = "open"

\* shlex.split, for the shell on the bottom.
Words(line) == IF line = << >> THEN << >> ELSE line[1].stages
WordsOf(line) == {stage.cmd : stage \in Range(Words(line))}

\* Without a stack the line is discarded.
LineReceived ==
  /\ Typing
  /\ IF cmdstack = << >>
     THEN UNCHANGED <<todo, typed, wanted, launched, prompted>>
     ELSE LET top == objs[Last(cmdstack)]
          IN IF IsShell(Last(cmdstack))
             THEN /\ typed < MaxLines /\ typed' = typed + 1
                  /\ prompted' = FALSE
                  /\ \E line \in Lines :
                       /\ todo' = <<Item("parse", Last(cmdstack), line)>>
                       /\ wanted' = IF Len(cmdstack) = 1 /\ top.pending = << >>
                                    THEN Wanted(line) ELSE << >>
                       /\ launched' = << >>
             ELSE \E steps \in Behaviour(top.cmd, top.phase).line :
                    /\ top.timers < MaxTimers
                    /\ IF "queue" \in Range(steps)
                       THEN /\ typed < MaxLines /\ typed' = typed + 1
                            /\ \E line \in {l \in Lines : WordsOf(l) \cap {"quote", "stop"} = {}} :
                                 todo' = Script(Last(cmdstack), steps, Words(line))
                       ELSE todo' = Script(Last(cmdstack), steps, << >>) /\ UNCHANGED typed
                    /\ UNCHANGED <<wanted, launched, prompted>>
  /\ turn' = "data"
  /\ UNCHANGED <<kind, conn, objs, cmdstack, pp, password_input, spoilt>>

handle_CTRL_C ==
  /\ Typing /\ cmdstack # << >>
  /\ LET id == Last(cmdstack)
     IN IF IsShell(id)
        THEN UNCHANGED <<todo, spoilt>> /\ prompted' = (prompted \/ objs[id].cmd = "shell")
        ELSE /\ \E steps \in Behaviour(objs[id].cmd, objs[id].phase).interrupt :
                  todo' = Script(id, steps, << >>)
             /\ spoilt' = spoilt \cup {"interrupted"}
             /\ UNCHANGED prompted
  /\ turn' = "data"
  /\ UNCHANGED <<kind, conn, objs, cmdstack, pp, password_input, typed, wanted, launched>>

handle_CTRL_D ==
  /\ Typing /\ cmdstack # << >>
  /\ LET id == Last(cmdstack)
     IN IF IsShell(id) THEN todo' = <<Item("call", id, <<[cmd |-> "exit", arg |-> << >>]>>)>>
        ELSE \E steps \in Behaviour(objs[id].cmd, objs[id].phase).eof :
               todo' = Script(id, steps, << >>)
  /\ turn' = "data"
  /\ UNCHANGED <<kind, conn, objs, cmdstack, pp, password_input, typed, prompted,
                 wanted, launched, spoilt>>

\* A timer, or the end of a download.  It runs also while the session ends.
Fire ==
  /\ Idle /\ conn # "closed"
  /\ \E id \in DOMAIN objs :
       /\ objs[id].timers > 0
       /\ objs' = [objs EXCEPT ![id].timers = @ - 1]
       /\ \E steps \in Behaviour(objs[id].cmd, objs[id].phase).fire :
            todo' = Script(id, steps, << >>)
  /\ turn' = "timer"
  /\ UNCHANGED <<kind, conn, cmdstack, pp, password_input, typed, prompted,
                 wanted, launched, spoilt>>

\* timeoutConnection, and the client's end of file.
SessionEnds ==
  /\ Idle /\ conn = "open"
  /\ conn' = processEnded
  /\ UNCHANGED <<kind, objs, cmdstack, pp, todo, turn, password_input, typed, prompted,
                 wanted, launched, spoilt>>

ShellConnectionLost ==
  /\ Idle /\ conn # "closed"
  /\ conn' = "closed"
  /\ cmdstack' = << >>
  /\ pp' = << >>
  /\ UNCHANGED <<kind, objs, todo, turn, password_input, typed, prompted,
                 wanted, launched, spoilt>>

ShellNext ==
  \/ call_command \/ outConnectionLost \/ ExitStep \/ runCommand \/ Parse
  \/ SubstitutionDone \/ Sub \/ ShDone \/ Raised \/ Queue \/ Small
  \/ LineReceived \/ handle_CTRL_C \/ handle_CTRL_D \/ Fire
  \/ SessionEnds \/ ShellConnectionLost

-----------------------------------------------------------------------------
\* No command of a plain line, typed or run by exec, is lost: those of a pipeline
\* are called in order by the time the line has been read, those after a ";" then
\* or when the ones before are done, whatever the commands do to the stack.  The
\* exceptions are a connection that is closed, and an exception in an exec
\* session, which is only logged and takes the rest of the pipeline with it.
PipelineRuns ==
  Idle /\ conn # "closed" /\ (kind = "exec" => "raised" \notin spoilt) =>
    IsPrefix(wanted, launched \o Names(objs[1].pending))

\* The shell is never left without a prompt: while nobody pops for others, it
\* is at the bottom of the stack, and when it is alone there with nothing to
\* run it has shown a prompt since the last command.  An exec session has ended
\* then, unless the shell called showPrompt(), which shows nothing there: after
\* an unknown command or an assignment at the end, an empty line or a syntax
\* error it stays open until the time-out.
Prompted ==
  Idle /\ conn = "open" /\ spoilt \cap {"raised", "crossed"} = {} =>
    /\ cmdstack # << >> /\ cmdstack[1] = 1
    /\ cmdstack = <<1>> => prompted /\ objs[1].pending = << >>

\* Echo is off only while a command that asks for passwords runs, unless it
\* was interrupted.
EchoRestored ==
  Idle /\ password_input /\ conn = "open" /\ spoilt = {} =>
    \E i \in DOMAIN cmdstack : objs[cmdstack[i]].cmd \in {"passwd", "adduser", "ssh"}
=============================================================================
