------------------------------ MODULE Commands ------------------------------
(***************************************************************************)
(* The emulated commands, as the shell sees them: what the handlers of     *)
(* each class do to the stack of running commands, to the timers, to the   *)
(* echo of what is typed and to the connection, and in which order.  What  *)
(* a command prints, and the choice it makes by its arguments, its input   *)
(* and the file system, are abstracted: a handler is the set of the        *)
(* sequences of steps that it may take, and Shell carries the steps out.   *)
(* The file system's own state is the subject of FileSystem.               *)
(* Bound: no session makes 10000 entries and no path leads through a link  *)
(* that leads nowhere, either of which makes any redirection raise.        *)
(*                                                                         *)
(* The steps are "exit" (exit()), "later" (reactor.callLater, a Deferred   *)
(* of a download, or the like), "cancel" (of that timer), "hide" and "show"*)
(* (password_input), "end" (processEnded), "raise" (an uncaught exception),*)
(* "next" and "back" (the phase of a dialogue), "queue" (the line waits in *)
(* the bottom shell's cmdpending), "insert" (insert_command), "lost"       *)
(* (outConnectionLost) and "sub" (a shell of one's own for the argument).  *)
(***************************************************************************)
EXTENDS Naturals, Sequences

\* HoneyPotCommand: start() is call() and exit(), a line is queued for the
\* shell unless it cannot be split, CTRL-C exits and CTRL-D does nothing.
Base == [start     |-> {<<"exit">>},
         line      |-> {<<"queue">>, <<"raise">>},
         interrupt |-> {<<"exit">>},
         eof       |-> {<< >>},
         fire      |-> {}]

\* Commands that read lines until CTRL-D, unless they find nothing to wait for.
Reading == [Base EXCEPT !.start = {<<"exit">>, << >>}, !.line = {<< >>}, !.eof = {<<"exit">>}]

-----------------------------------------------------------------------------
(* base.py *)

command_whoami == Base
command_help == Base
command_w == Base
command_who == Base
command_echo == Base
command_clear == Base
command_hostname == Base
command_ps == Base
command_id == Base
command_history == Base
command_date == Base
command_chmod == Base
command_set == Base
command_nop == Base

\* The regular expression of an escape may be malformed.
command_printf == [Base EXCEPT !.start = {<<"exit">>, <<"raise">>}]

\* call() ends the session, and then start() pops the stack.
command_exit == [Base EXCEPT !.start = {<<"end", "exit">>}]

\* Mutant: the echo is not turned on again.
FaultyCommand_passwd(phase) ==
  [Base EXCEPT !.start = {<<"hide">>},
               !.line = {CASE phase = 0 -> <<"next">>
                           [] phase = 1 -> <<"next", "exit">>
                           [] OTHER -> <<"raise">>}]

\* Two questions, the new password and the new one again; the list of callbacks
\* is then empty, and a line more would raise IndexError.
command_passwd(phase) ==
  [Base EXCEPT !.start = {<<"hide">>},
               !.line = {CASE phase = 0 -> <<"next">>
                           [] phase = 1 -> <<"next", "show", "exit">>
                           [] OTHER -> <<"raise">>}]

command_shutdown == [Base EXCEPT !.start = {<<"exit">>, <<"later">>}, !.fire = {<<"end">>}]
command_reboot == [Base EXCEPT !.start = {<<"later">>}, !.fire = {<<"end">>}]

\* Prints for ever; the words are joined, which raises for none.
command_yes == [Base EXCEPT !.start = {<<"later">>, <<"raise">>}, !.fire = {<<"later">>},
                            !.interrupt = {<<"cancel", "exit">>}]

\* With -c the rest is run by a shell that is pushed and then popped.
command_sh == [Base EXCEPT !.start = {<<"sub", "exit">>, <<"exit">>}]

\* Its lineReceived is commented out.
command_php == [Base EXCEPT !.start = {<<"exit">>, << >>}, !.eof = {<<"exit">>}]

-----------------------------------------------------------------------------
(* Commands that print what the host is, or say that they could not. *)

command_du == Base
command_env == Base
command_ethtool == Base
command_free == Base
command_ifconfig == Base
command_last == Base
command_ls == Base
command_netstat == Base
command_nohup == Base
command_service == Base
command_ulimit == Base
command_uname == Base
command_uptime == Base
command_which == Base
command_iptables == Base

\* A directory that cannot be made, and any file of an archive, makes mkdir raise.
command_tar == [Base EXCEPT !.start = {<<"exit">>, <<"raise">>}]

-----------------------------------------------------------------------------
(* fs.py *)

command_grep == [Reading EXCEPT !.start = {<<"exit">>, <<"raise">>}]
command_tail == Reading
command_head == Reading
command_cd == Base
command_cp == Base
command_mkdir == Base
command_rmdir == Base
command_pwd == Base
command_touch == Base

\* A missing operand exits, and start() exits again.
command_rm == [Base EXCEPT !.start = {<<"exit">>, <<"exit", "exit">>}]

\* An option it cannot read exits, and the option is looked up all the same.
command_mv == [Base EXCEPT !.start = {<<"exit">>, <<"exit", "raise">>}]

-----------------------------------------------------------------------------
(* Filters and interpreters. *)

\* What it is to print may be no text: decode() raises.
command_cat == [Reading EXCEPT !.start = {<<"exit">>, << >>, <<"raise">>}]
command_wc == [Reading EXCEPT !.start = {<<"exit">>, <<"raise">>}]
command_base64 == [Base EXCEPT !.start = {<<"exit">>, <<"raise">>},
                               !.line = {<< >>, <<"raise">>}, !.eof = {<<"exit">>}]
command_chpasswd == [Reading EXCEPT !.start = {<<"exit">>, << >>, <<"exit", "exit">>}]
command_crontab == Reading
command_dd == [Reading EXCEPT !.start = {<< >>, <<"exit">>, <<"raise">>, <<"exit", "raise">>, <<"exit", "exit">>}]
command_perl == [Reading EXCEPT !.start = {<<"exit">>, << >>, <<"exit", "raise">>, <<"exit", "exit">>}]
command_python == [Reading EXCEPT !.start = {<<"exit">>, << >>, <<"exit", "exit">>}]
command_scp == [Reading EXCEPT !.start = {<<"exit">>, << >>, <<"raise">>}]

\* The compiler: it exits at once, twice, or at the end of a coroutine.
command_gcc == [Base EXCEPT !.start = {<<"exit">>, <<"exit", "exit">>, <<"raise">>},
                            !.interrupt = {<< >>}]

-----------------------------------------------------------------------------
(* Commands that take time. *)

\* CTRL-C exits and leaves the timer running.
command_sleep == [Base EXCEPT !.start = {<<"exit">>, <<"later">>}, !.fire = {<<"exit">>}]

command_ping(phase) ==
  [Base EXCEPT !.start = {<<"exit">>, <<"exit", "raise">>, <<"next", "later">>},
               !.fire = {<<"later">>, <<"exit">>},
               !.interrupt = {IF phase = 1 THEN <<"cancel", "exit">> ELSE <<"exit">>}]

\* apt-get and yum are coroutines that sleep between two pieces of text.
command_aptget == [Base EXCEPT !.start = {<<"exit">>, <<"later">>}, !.fire = {<<"later">>, <<"exit">>}]
command_faked_package_class_factory == Base

\* yum version never comes to its exit; yum install waits for an answer.
command_yum == [Base EXCEPT !.start = {<<"exit">>, <<"later">>, << >>},
                            !.fire = {<<"later">>, <<"exit">>, << >>},
                            !.line = {<<"later">>}]
command_faked_yum_class_factory == Base

\* Mutant: beyond the list the dialogue goes on instead of starting again.
FaultyCommand_adduser(phase) ==
  [Base EXCEPT !.start = {<<"exit">>, <<"later">>},
               !.fire = {<<"next", "later">>},
               !.line = {<<"later", "show">>}]

\* A dialogue of 27 items: to the name (phase 0), the two passwords (1), the
\* particulars (2), the last question (3), beyond the list (4).
command_adduser(phase) ==
  LET Answered == {<<"later", "show">>, <<"next", "later", "show">>}
  IN [Base EXCEPT
       !.start = {<<"exit">>, <<"later">>},
       !.fire = CASE phase = 0 -> {<<"later">>, <<"next", "later">>}
                  [] phase = 1 -> {<<"hide">>}
                  [] phase = 2 -> {<<"later">>, << >>, <<"next", "later">>}
                  [] phase = 3 -> {<< >>}
                  [] OTHER -> {<<"back", "back", "later">>, <<"raise">>},
       !.line = CASE phase < 3 -> Answered
                  [] phase = 3 -> Answered \cup {<<"exit">>}
                  [] OTHER -> {<<"raise">>, <<"later", "show">>}]

\* ssh to another host: the key is confirmed, a password asked for, and two
\* seconds later the shell has another name.
command_ssh(phase) ==
  [Base EXCEPT !.start = {<<"exit", "raise">>, <<"exit">>, <<"raise">>, << >>},
               !.line = {CASE phase = 0 -> <<"next", "hide">>
                           [] phase = 1 -> <<"next", "later">>
                           [] OTHER -> << >>},
               !.fire = {<<"show", "exit">>}]

-----------------------------------------------------------------------------
(* Commands that run another one, which becomes the rest of the pipeline.  *)
(* What was piped into them is bytes, and to write it raises.              *)

command_sudo == [Base EXCEPT !.start = {<<"exit">>, <<"insert", "exit">>, <<"insert", "raise">>}]

\* The applet is called before busybox exits.
command_busybox == [Base EXCEPT !.start = {<<"exit">>, <<"insert", "lost", "exit">>,
                                           <<"insert", "lost", "raise">>}]

-----------------------------------------------------------------------------
(* Commands that connect to somewhere. *)

\* CTRL-C stops a download, or raises if none was started.
command_wget == [Base EXCEPT !.start = {<<"exit">>, <<"later">>},
                             !.fire = {<<"exit">>, <<"exit", "exit">>},
                             !.interrupt = {<< >>, <<"raise">>}]
command_curl == [Base EXCEPT !.start = {<<"exit">>, <<"later">>},
                             !.fire = {<<"exit">>, <<"exit", "exit">>},
                             !.interrupt = {<< >>, <<"raise">>}]

\* These wait for the other side with the reactor standing still.
command_ftpget == [Base EXCEPT !.start = {<<"exit">>, <<"raise">>}]
command_tftp == [Base EXCEPT !.start = {<<"exit">>, <<"raise">>}]
command_nc == [Base EXCEPT !.start = {<<"exit">>, <<"raise">>}, !.line = {<< >>, <<"raise">>},
                           !.interrupt = {<< >>}]

-----------------------------------------------------------------------------
\* protocol.commands: a name and its class.
Commands ==
  [whoami |-> command_whoami, help |-> command_help, w |-> command_w, who |-> command_who,
   echo |-> command_echo, clear |-> command_clear, hostname |-> command_hostname,
   ps |-> command_ps, id |-> command_id, history |-> command_history, date |-> command_date,
   chmod |-> command_chmod, set |-> command_set, nop |-> command_nop,
   printf |-> command_printf, exit |-> command_exit, shutdown |-> command_shutdown,
   reboot |-> command_reboot, yes |-> command_yes, sh |-> command_sh, php |-> command_php,
   du |-> command_du, env |-> command_env, ethtool |-> command_ethtool, free |-> command_free,
   ifconfig |-> command_ifconfig, last |-> command_last, ls |-> command_ls,
   netstat |-> command_netstat, nohup |-> command_nohup, service |-> command_service,
   tar |-> command_tar, ulimit |-> command_ulimit, uname |-> command_uname,
   uptime |-> command_uptime, which |-> command_which, iptables |-> command_iptables,
   grep |-> command_grep, tail |-> command_tail, head |-> command_head, cd |-> command_cd,
   cp |-> command_cp, mkdir |-> command_mkdir, rmdir |-> command_rmdir, pwd |-> command_pwd,
   touch |-> command_touch, rm |-> command_rm, mv |-> command_mv, cat |-> command_cat,
   wc |-> command_wc, base64 |-> command_base64, chpasswd |-> command_chpasswd,
   crontab |-> command_crontab, dd |-> command_dd, perl |-> command_perl,
   python |-> command_python, scp |-> command_scp, gcc |-> command_gcc,
   sleep |-> command_sleep, aptget |-> command_aptget,
   faked |-> command_faked_package_class_factory, yum |-> command_yum,
   fakedyum |-> command_faked_yum_class_factory, sudo |-> command_sudo,
   busybox |-> command_busybox, wget |-> command_wget, curl |-> command_curl,
   ftpget |-> command_ftpget, tftp |-> command_tftp, nc |-> command_nc]

Dialogues == {"passwd", "ping", "adduser", "ssh"}
Programs == Dialogues \cup DOMAIN Commands

Behaviour(cmd, phase) ==
  CASE cmd = "passwd" -> command_passwd(phase)
    [] cmd = "ping" -> command_ping(phase)
    [] cmd = "adduser" -> command_adduser(phase)
    [] cmd = "ssh" -> command_ssh(phase)
    [] OTHER -> Commands[cmd]
=============================================================================
