----------------------------- MODULE Shell_proof -----------------------------
(***************************************************************************)
(* One session of the emulated shell, for any lines that may be typed and  *)
(* whatever the commands do to the stack: it is never left without having  *)
(* asked for a prompt, and what a command hides of what is typed it shows  *)
(* again before it leaves.                                                 *)
(***************************************************************************)
EXTENDS Shell, Integers, SequenceTheorems, TLAPS

-----------------------------------------------------------------------------
(* What the commands' handlers may do.                                     *)

\* What most handlers do: exit, wait, raise, or end the session.
Brief == {<< >>, <<"exit">>, <<"exit", "exit">>, <<"exit", "raise">>, <<"raise">>, <<"later">>,
          <<"end">>, <<"cancel", "exit">>}
\* What a command may do besides when it starts.
Opening == Brief \cup {<<"end", "exit">>, <<"sub", "exit">>, <<"insert", "exit">>,
                       <<"insert", "raise">>, <<"insert", "lost", "exit">>,
                       <<"insert", "lost", "raise">>}
\* The handlers of a command that is no dialogue.
Mild(b) == /\ b.start \subseteq Opening
           /\ b.line \subseteq Brief \cup {<<"queue">>}
           /\ b.interrupt \subseteq Brief /\ b.eof \subseteq Brief /\ b.fire \subseteq Brief

\* HoneyPotCommand's own handlers.
LEMMA BaseMild == Mild(Base)
BY DEF Base, Mild, Brief, Opening

\* Those of a command that reads lines.
LEMMA ReadingMild == Mild(Reading)
BY DEF Base, Reading, Mild, Brief, Opening

\* The classes that keep HoneyPotCommand's handlers.
PlainClasses == {command_whoami, command_help, command_w, command_who, command_echo,
                 command_clear, command_hostname, command_ps, command_id, command_history,
                 command_date, command_chmod, command_set, command_nop, command_du,
                 command_env, command_ethtool, command_free, command_ifconfig,
                 command_last, command_ls, command_netstat, command_nohup, command_service,
                 command_ulimit, command_uname, command_uptime, command_which,
                 command_iptables, command_cd, command_cp, command_mkdir, command_rmdir,
                 command_pwd, command_touch, command_faked_package_class_factory,
                 command_faked_yum_class_factory}
\* The classes that read lines.
ReadingClasses == {command_tail, command_head, command_crontab}

\* The first are as HoneyPotCommand is.
LEMMA PlainMild == \A b \in PlainClasses : Mild(b)
BY BaseMild DEF PlainClasses,
     command_whoami, command_help, command_w, command_who, command_echo, command_clear,
     command_hostname, command_ps, command_id, command_history, command_date,
     command_chmod, command_set, command_nop, command_du, command_env, command_ethtool,
     command_free, command_ifconfig, command_last, command_ls, command_netstat,
     command_nohup, command_service, command_ulimit, command_uname,
     command_uptime, command_which, command_iptables, command_cd, command_cp,
     command_mkdir, command_rmdir, command_pwd, command_touch,
     command_faked_package_class_factory, command_faked_yum_class_factory

\* The second read.
LEMMA ReadingClassesMild == \A b \in ReadingClasses : Mild(b)
BY ReadingMild DEF ReadingClasses,
     command_tail, command_head, command_crontab

\* base.py's others.
LEMMA OthersMild1 ==
  /\ Mild(command_printf)
  /\ Mild(command_exit)
  /\ Mild(command_shutdown)
  /\ Mild(command_reboot)
  /\ Mild(command_yes)
  /\ Mild(command_sh)
BY DEF Base, Reading, Mild, Brief, Opening,
     command_printf, command_exit, command_shutdown, command_reboot, command_yes, command_sh

\* Those that work on files and text.
LEMMA OthersMild2 ==
  /\ Mild(command_php)
  /\ Mild(command_grep)
  /\ Mild(command_rm)
  /\ Mild(command_mv)
  /\ Mild(command_wc)
  /\ Mild(command_base64)
BY DEF Base, Reading, Mild, Brief, Opening,
     command_php, command_grep, command_rm, command_mv, command_wc, command_base64

\* Interpreters and the like.
LEMMA OthersMild3 ==
  /\ Mild(command_chpasswd)
  /\ Mild(command_dd)
  /\ Mild(command_perl)
  /\ Mild(command_python)
  /\ Mild(command_gcc)
  /\ Mild(command_sleep)
BY DEF Base, Reading, Mild, Brief, Opening,
     command_chpasswd, command_dd, command_perl, command_python, command_gcc, command_sleep

\* Those that install, run others or fetch with HTTP.
LEMMA OthersMild4 ==
  /\ Mild(command_aptget)
  /\ Mild(command_yum)
  /\ Mild(command_sudo)
  /\ Mild(command_busybox)
  /\ Mild(command_wget)
  /\ Mild(command_curl)
BY DEF Base, Reading, Mild, Brief, Opening,
     command_aptget, command_yum, command_sudo, command_busybox, command_wget, command_curl

\* Those that fetch by other protocols, or read what may be no text.
LEMMA OthersMild5 ==
  /\ Mild(command_ftpget)
  /\ Mild(command_tftp)
  /\ Mild(command_nc)
  /\ Mild(command_cat)
  /\ Mild(command_scp)
  /\ Mild(command_tar)
BY DEF Base, Reading, Mild, Brief, Opening,
     command_ftpget, command_tftp, command_nc, command_cat, command_scp,
     command_tar

\* No command of the table is a dialogue.
LEMMA CommandsMild == \A c \in DOMAIN Commands : Mild(Commands[c])
<1> DEFINE Others ==
      {command_printf, command_exit, command_shutdown, command_reboot, command_yes, command_sh,
       command_php, command_grep, command_rm, command_mv, command_wc, command_base64,
       command_chpasswd, command_dd, command_perl, command_python, command_gcc, command_sleep,
       command_aptget, command_yum, command_sudo, command_busybox, command_wget, command_curl,
       command_ftpget, command_tftp, command_nc, command_cat, command_scp,
       command_tar}
<1>1. \A b \in Others : Mild(b)
  BY ONLY OthersMild1, OthersMild2, OthersMild3, OthersMild4, OthersMild5
<1>2. \A c \in DOMAIN Commands : Commands[c] \in PlainClasses \cup ReadingClasses \cup Others
  BY ONLY DEF Commands, PlainClasses, ReadingClasses
<1> HIDE DEF Others
<1> QED BY ONLY <1>1, <1>2, PlainMild, ReadingClassesMild
\* What the handlers of the dialogues do besides.
Talk == {<<"hide">>, <<"next">>, <<"next", "show", "exit">>, <<"next", "later">>,
         <<"back", "back", "later">>, <<"later", "show">>, <<"next", "later", "show">>,
         <<"next", "hide">>, <<"show", "exit">>}

\* The dialogues have scripts of their own, by their phases.
Wild(b) == /\ b.start \subseteq Brief \cup Talk
           /\ b.line \subseteq Brief \cup Talk \cup {<<"queue">>}
           /\ b.interrupt \subseteq Brief /\ b.eof \subseteq Brief
           /\ b.fire \subseteq Brief \cup Talk

\* passwd, in any phase.
LEMMA PasswdWild == ASSUME NEW p PROVE Wild(command_passwd(p))
<1> DEFINE L == {CASE p = 0 -> <<"next">>
                   [] p = 1 -> <<"next", "show", "exit">>
                   [] OTHER -> <<"raise">>}
<1>1. L \subseteq Brief \cup Talk
  BY ONLY DEF Brief, Talk
<1>2. command_passwd(p) = [Base EXCEPT !.start = {<<"hide">>}, !.line = L]
  BY ONLY DEF command_passwd
<1> HIDE DEF L
<1> QED BY ONLY <1>1, <1>2 DEF Wild, Base, Brief, Talk

\* ping, in any phase.
LEMMA PingWild == ASSUME NEW p PROVE Wild(command_ping(p))
<1> DEFINE I == {IF p = 1 THEN <<"cancel", "exit">> ELSE <<"exit">>}
<1>1. I \subseteq Brief
  BY ONLY DEF Brief
<1>2. command_ping(p) = [Base EXCEPT !.start = {<<"exit">>, <<"exit", "raise">>, <<"next", "later">>},
                                     !.fire = {<<"later">>, <<"exit">>}, !.interrupt = I]
  BY ONLY DEF command_ping
<1> HIDE DEF I
<1> QED BY ONLY <1>1, <1>2 DEF Wild, Base, Brief, Talk

\* adduser, phase by phase.
LEMMA AdduserFields ==
  ASSUME NEW p \in Int
  PROVE  LET b == command_adduser(p)
         IN /\ b.start = {<<"exit">>, <<"later">>}
            /\ b.interrupt = {<<"exit">>} /\ b.eof = {<< >>}
            /\ b.fire \subseteq Brief \cup Talk /\ b.line \subseteq Brief \cup Talk
            /\ p = 0 => b.fire = {<<"later">>, <<"next", "later">>}
            /\ p = 1 => b.fire = {<<"hide">>}
            /\ p = 2 => b.fire = {<<"later">>, << >>, <<"next", "later">>}
            /\ p = 3 => b.fire = {<< >>}
            /\ p > 3 => b.fire = {<<"back", "back", "later">>, <<"raise">>}
            /\ p < 3 => b.line = {<<"later", "show">>, <<"next", "later", "show">>}
            /\ p = 3 => b.line = {<<"later", "show">>, <<"next", "later", "show">>, <<"exit">>}
            /\ p > 3 => b.line = {<<"raise">>, <<"later", "show">>}
<1> DEFINE A == {<<"later", "show">>, <<"next", "later", "show">>}
           F == CASE p = 0 -> {<<"later">>, <<"next", "later">>}
                  [] p = 1 -> {<<"hide">>}
                  [] p = 2 -> {<<"later">>, << >>, <<"next", "later">>}
                  [] p = 3 -> {<< >>}
                  [] OTHER -> {<<"back", "back", "later">>, <<"raise">>}
           L == CASE p < 3 -> A
                  [] p = 3 -> A \cup {<<"exit">>}
                  [] OTHER -> {<<"raise">>, <<"later", "show">>}
<1>1. command_adduser(p) = [Base EXCEPT !.start = {<<"exit">>, <<"later">>}, !.fire = F, !.line = L]
  BY ONLY DEF command_adduser
<1>2. /\ F \subseteq Brief \cup Talk
      /\ p = 0 => F = {<<"later">>, <<"next", "later">>}
      /\ p = 1 => F = {<<"hide">>}
      /\ p = 2 => F = {<<"later">>, << >>, <<"next", "later">>}
      /\ p = 3 => F = {<< >>}
      /\ p > 3 => F = {<<"back", "back", "later">>, <<"raise">>}
  BY ONLY p \in Int DEF Brief, Talk
<1>3. /\ L \subseteq Brief \cup Talk
      /\ p < 3 => L = A
      /\ p = 3 => L = {<<"later", "show">>, <<"next", "later", "show">>, <<"exit">>}
      /\ p > 3 => L = {<<"raise">>, <<"later", "show">>}
  BY ONLY p \in Int DEF Brief, Talk
<1> HIDE DEF F, L
<1> QED BY ONLY <1>1, <1>2, <1>3 DEF Base

\* ssh, phase by phase.
LEMMA SshFields ==
  ASSUME NEW p \in Int
  PROVE  LET b == command_ssh(p)
         IN /\ b.start = {<<"exit", "raise">>, <<"exit">>, <<"raise">>, << >>}
            /\ b.interrupt = {<<"exit">>} /\ b.eof = {<< >>}
            /\ b.fire = {<<"show", "exit">>}
            /\ p = 0 => b.line = {<<"next", "hide">>}
            /\ p = 1 => b.line = {<<"next", "later">>}
            /\ p \notin {0, 1} => b.line = {<< >>}
<1> DEFINE L == {CASE p = 0 -> <<"next", "hide">>
                   [] p = 1 -> <<"next", "later">>
                   [] OTHER -> << >>}
<1>1. command_ssh(p) = [Base EXCEPT !.start = {<<"exit", "raise">>, <<"exit">>, <<"raise">>, << >>},
                                    !.line = L, !.fire = {<<"show", "exit">>}]
  BY ONLY DEF command_ssh
<1>2. /\ p = 0 => L = {<<"next", "hide">>}
      /\ p = 1 => L = {<<"next", "later">>}
      /\ p \notin {0, 1} => L = {<< >>}
  BY ONLY p \in Int
<1> HIDE DEF L
<1> QED BY ONLY <1>1, <1>2 DEF Base

\* adduser is a dialogue.
LEMMA AdduserWild == ASSUME NEW p \in Int PROVE Wild(command_adduser(p))
BY AdduserFields DEF Wild, Brief, Talk

\* ssh is a dialogue.
LEMMA SshWild == ASSUME NEW p \in Int PROVE Wild(command_ssh(p))
<1>1. CASE p = 0
  BY <1>1, SshFields DEF Wild, Brief, Talk
<1>2. CASE p = 1
  BY <1>2, SshFields DEF Wild, Brief, Talk
<1>3. CASE p \notin {0, 1}
  BY <1>3, SshFields DEF Wild, Brief, Talk
<1> QED BY ONLY <1>1, <1>2, <1>3

\* A command is a dialogue or is not one.
LEMMA Behaviours ==
  ASSUME NEW c \in Programs, NEW p \in Int
  PROVE  IF c \in Dialogues THEN Wild(Behaviour(c, p)) ELSE Mild(Behaviour(c, p))
<1>1. CASE c \in Dialogues
  BY <1>1, PasswdWild, PingWild, AdduserWild, SshWild DEF Behaviour, Dialogues
<1>2. CASE c \notin Dialogues
  <2>1. Behaviour(c, p) = Commands[c]
    BY ONLY <1>2 DEF Behaviour, Dialogues
  <2> QED BY ONLY <1>2, <2>1, CommandsMild DEF Programs
<1> QED BY ONLY <1>1, <1>2
\* The steps of all scripts.
Steps == {"exit", "later", "cancel", "hide", "show", "end", "raise", "next", "back",
          "insert", "lost", "sub"}
\* The steps of a script other than one that starts a command.
Doings == Steps \ {"insert", "lost", "sub"}

\* What start() may do, and what any other handler may.
Opens(s) == s \in Seq(Steps) /\ \A i \in 1 .. Len(s) : s[i] = "sub" => i = 1
\* The script of any other handler.
Acts(s) == s \in Seq(Doings)

\* The brief scripts are such.
LEMMA BriefActs == \A s \in Brief : Acts(s)
<1>1. Acts(<< >>)
  BY ONLY DEF Acts
<1>2. Acts(<<"exit">>) /\ Acts(<<"raise">>) /\ Acts(<<"later">>) /\ Acts(<<"end">>)
  BY ONLY DEF Acts, Doings, Steps
<1>3. Acts(<<"exit", "exit">>)
  BY ONLY DEF Acts, Doings, Steps
<1>4. Acts(<<"exit", "raise">>)
  BY ONLY DEF Acts, Doings, Steps
<1>5. Acts(<<"cancel", "exit">>)
  BY ONLY DEF Acts, Doings, Steps
<1> QED BY ONLY <1>1, <1>2, <1>3, <1>4, <1>5 DEF Brief

\* Those of the dialogues too.
LEMMA TalkActs == \A s \in Talk : Acts(s)
<1>1. Acts(<<"hide">>) /\ Acts(<<"next">>)
  BY ONLY DEF Acts, Doings, Steps
<1>2. Acts(<<"next", "show", "exit">>)
  BY ONLY DEF Acts, Doings, Steps
<1>3. Acts(<<"next", "later">>)
  BY ONLY DEF Acts, Doings, Steps
<1>4. Acts(<<"back", "back", "later">>)
  BY ONLY DEF Acts, Doings, Steps
<1>5. Acts(<<"later", "show">>)
  BY ONLY DEF Acts, Doings, Steps
<1>6. Acts(<<"next", "later", "show">>)
  BY ONLY DEF Acts, Doings, Steps
<1>7. Acts(<<"next", "hide">>)
  BY ONLY DEF Acts, Doings, Steps
<1>8. Acts(<<"show", "exit">>)
  BY ONLY DEF Acts, Doings, Steps
<1> QED BY ONLY <1>1, <1>2, <1>3, <1>4, <1>5, <1>6, <1>7, <1>8 DEF Talk

\* Either may start a command.
LEMMA ActsOpens == ASSUME NEW s, Acts(s) PROVE Opens(s)
<1>1. s \in Seq(Steps)
  BY SeqMonotonic DEF Acts, Doings
<1>2. \A i \in 1 .. Len(s) : s[i] \in Doings
  BY ElementOfSeq DEF Acts
<1> QED BY ONLY <1>1, <1>2 DEF Opens, Doings

\* So may those that only start one.
LEMMA OpeningOpens == \A s \in Opening : Opens(s)
<1>1. Opens(<<"end", "exit">>)
  BY ONLY DEF Opens, Steps
<1>2. Opens(<<"sub", "exit">>)
  BY ONLY DEF Opens, Steps
<1>3. Opens(<<"insert", "exit">>)
  BY ONLY DEF Opens, Steps
<1>4. Opens(<<"insert", "lost", "exit">>)
  BY ONLY DEF Opens, Steps
<1>5. \A s \in Brief : Opens(s)
  BY ONLY BriefActs, ActsOpens
<1>6. Opens(<<"insert", "raise">>) /\ Opens(<<"insert", "lost", "raise">>)
  BY ONLY DEF Opens, Steps
<1> QED BY ONLY <1>1, <1>2, <1>3, <1>4, <1>5, <1>6 DEF Opening

\* So the handlers of every program, in every phase.
LEMMA Handlers ==
  ASSUME NEW c \in Programs, NEW p \in Int
  PROVE  /\ \A s \in Behaviour(c, p).start : Opens(s)
         /\ \A s \in Behaviour(c, p).line : s = <<"queue">> \/ Acts(s)
         /\ \A s \in Behaviour(c, p).interrupt \cup Behaviour(c, p).eof \cup Behaviour(c, p).fire : Acts(s)
<1>0. PICK b : b = Behaviour(c, p)
  BY ONLY TRUE
<1>1. CASE c \in Dialogues
  <2>1. Wild(b)
    BY ONLY <1>0, <1>1, Behaviours, c \in Programs, p \in Int
  <2> QED BY ONLY <1>0, <2>1, BriefActs, TalkActs, ActsOpens DEF Wild
<1>2. CASE c \notin Dialogues
  <2>1. Mild(b)
    BY ONLY <1>0, <1>2, Behaviours, c \in Programs, p \in Int
  <2> QED BY ONLY <1>0, <2>1, BriefActs, OpeningOpens DEF Mild
<1> QED BY ONLY <1>1, <1>2

-----------------------------------------------------------------------------
(* Sequences. *)

\* Taking the first element away and putting others in its place.
Follows(q2, new, q) ==
  /\ Len(q) \in Nat \ {0} /\ Len(new) \in Nat
  /\ Len(q2) \in Nat /\ Len(q2) = Len(new) + Len(q) - 1
  /\ \A k \in 1 .. Len(new) : q2[k] = new[k]
  /\ \A k \in 2 .. Len(q) : Len(new) + k - 1 \in 1 .. Len(q2) /\ q2[Len(new) + k - 1] = q[k]
  /\ \A k \in 1 .. Len(q2) : k > Len(new) =>
       k - Len(new) + 1 \in 2 .. Len(q) /\ q2[k] = q[k - Len(new) + 1]

\* The head of a sequence replaced by another sequence.
LEMMA Replaced ==
  ASSUME NEW S, NEW q \in Seq(S), q # << >>, NEW new \in Seq(S),
         NEW q2, q2 = new \o Tail(q)
  PROVE  q2 \in Seq(S) /\ Follows(q2, new, q)
<1>1. PICK t : t = Tail(q)
  BY ONLY TRUE
<1>2. t \in Seq(S) /\ Len(t) = Len(q) - 1 /\ \A i \in 1 .. Len(t) : t[i] = q[i + 1]
  BY ONLY <1>1, HeadTailProperties, q \in Seq(S), q # << >>
<1>3. Len(q) \in Nat \ {0} /\ Len(new) \in Nat /\ Len(t) \in Nat
  BY ONLY <1>2, LenProperties, EmptySeq, q \in Seq(S), q # << >>, new \in Seq(S)
<1>4. /\ q2 \in Seq(S) /\ Len(q2) = Len(new) + Len(t)
      /\ \A i \in 1 .. Len(new) + Len(t) :
           q2[i] = IF i <= Len(new) THEN new[i] ELSE t[i - Len(new)]
  BY ONLY <1>1, <1>2, ConcatProperties, new \in Seq(S), q2 = new \o Tail(q)
<1>5. ASSUME NEW k \in 2 .. Len(q)
      PROVE  Len(new) + k - 1 \in 1 .. Len(q2) /\ q2[Len(new) + k - 1] = q[k]
  <2>1. PICK n \in Nat, m \in Nat \ {0} : n = Len(new) /\ m = Len(q)
    BY ONLY <1>3
  <2>2. PICK i \in 1 .. (m - 1) : i = k - 1
    BY ONLY <2>1, k \in 2 .. Len(q)
  <2>3. Len(t) = m - 1 /\ t[i] = q[k]
    BY ONLY <1>2, <2>1, <2>2, k \in 2 .. Len(q)
  <2>4. PICK j \in 1 .. n + Len(t) : j = n + i
    BY ONLY <2>1, <2>2, <2>3
  <2>5. q2[j] = t[i] /\ j \in 1 .. Len(q2)
    <3>1. ~ (j <= n) /\ j - n = i
      BY ONLY <2>1, <2>2, <2>4
    <3>2. q2[j] = IF j <= n THEN new[j] ELSE t[j - n]
      BY ONLY <1>4, <2>1, <2>4
    <3>3. j \in 1 .. Len(q2)
      BY ONLY <1>4, <2>1, <2>4
    <3> QED BY ONLY <3>1, <3>2, <3>3
  <2>6. j = Len(new) + k - 1
    BY ONLY <2>1, <2>2, <2>4, k \in 2 .. Len(q)
  <2> QED BY ONLY <2>3, <2>5, <2>6
<1>6. \A k \in 1 .. Len(q2) : k > Len(new) =>
        k - Len(new) + 1 \in 2 .. Len(q) /\ q2[k] = q[k - Len(new) + 1]
  BY ONLY <1>2, <1>3, <1>4
<1>7. Len(q2) \in Nat /\ Len(q2) = Len(new) + Len(q) - 1
  BY ONLY <1>2, <1>3, <1>4
<1>8. \A k \in 1 .. Len(new) : q2[k] = new[k]
  BY ONLY <1>3, <1>4
<1> QED BY ONLY <1>3, <1>4, <1>5, <1>6, <1>7, <1>8 DEF Follows

\* A sequence without its last element.
LEMMA Dropped ==
  ASSUME NEW S, NEW st \in Seq(S), st # << >>
  PROVE  /\ Front(st) \in Seq(S) /\ Len(st) \in Nat \ {0} /\ Len(Front(st)) = Len(st) - 1
         /\ \A i \in 1 .. (Len(st) - 1) : Front(st)[i] = st[i]
         /\ Last(st) = st[Len(st)]
<1>1. Len(st) \in Nat \ {0} /\ \A i \in 1 .. Len(st) : st[i] \in S
  BY LenProperties, EmptySeq, ElementOfSeq
<1>2. /\ SubSeq(st, 1, Len(st) - 1) \in Seq(S)
      /\ Len(SubSeq(st, 1, Len(st) - 1)) = IF 1 <= Len(st) - 1 THEN Len(st) - 1 - 1 + 1 ELSE 0
      /\ \A i \in 1 .. (Len(st) - 1 - 1 + 1) : SubSeq(st, 1, Len(st) - 1)[i] = st[1 + i - 1]
  <2>1. \A i \in 1 .. (Len(st) - 1) : st[i] \in S
    BY ONLY <1>1
  <2>2. 1 \in Int /\ Len(st) - 1 \in Int
    BY ONLY <1>1
  <2> QED BY ONLY <2>1, <2>2, SubSeqProperties
<1>3. PICK n, f : n = Len(st) /\ f = SubSeq(st, 1, Len(st) - 1)
  BY ONLY TRUE
<1>4. /\ n \in Nat \ {0} /\ f \in Seq(S) /\ Len(f) = n - 1
      /\ \A i \in 1 .. (n - 1) : f[i] = st[i]
  BY ONLY <1>1, <1>2, <1>3
<1> QED BY ONLY <1>3, <1>4 DEF Front, Last

\* A sequence with one element more.
LEMMA Added ==
  ASSUME NEW S, NEW st \in Seq(S), NEW x \in S
  PROVE  /\ Append(st, x) \in Seq(S) /\ Len(st) \in Nat /\ Len(Append(st, x)) = Len(st) + 1
         /\ \A i \in 1 .. Len(st) : Append(st, x)[i] = st[i]
         /\ Append(st, x)[Len(st) + 1] = x
BY AppendProperties, LenProperties

-----------------------------------------------------------------------------
(* What the state holds. *)

\* The kinds of shell.
Shells == {"shell", "subshell"}
\* The pipeline that a command is given.
Arguments == Seq([cmd : Programs, arg : {<< >>}])
\* Shells and commands.
Objects == [cmd : Shells \cup Programs, arg : Arguments, pending : Seq(Seq(Word)),
            timers : Nat, phase : Int]
\* A pipeline of a line, with the $(...) it holds.
Line == [sub : Pipelines, stages : Pipelines]
\* What a step is given: a chain, a line, a pipeline or a shell.
Withs == Seq(Callable) \cup Seq(Line) \cup Seq(Word) \cup Seq(Nat)
\* The steps that are left to be taken.
Items == [do : Steps \cup {"call", "parse", "queue", "unsub", "unshell", "run"},
          by : Nat, with : Withs]

\* A shell has no timer.
Quiet(o) == o.cmd \in Shells => o.timers = 0

\* The session's own shell is the first object.
ObjectsTyped(os) ==
  /\ os \in Seq(Objects) /\ Len(os) \in Nat \ {0} /\ os[1].cmd = "shell"
  /\ \A i \in 1 .. Len(os) : Quiet(os[i])

\* A step is taken by an object there is, and a command's step by a command.
Sound(item, os) ==
  /\ item.by \in 1 .. Len(os)
  /\ item.do \in Steps \ {"lost", "raise"} => os[item.by].cmd \in Programs
  /\ item.do = "call" => item.with \in Seq(Callable) \ {<< >>}
  /\ item.do = "parse" => item.with \in Seq(Line)
  /\ item.do = "queue" => item.with \in Seq(Word)
\* All steps that are left are sound.
TodoTyped(q, os) == q \in Seq(Items) /\ \A k \in 1 .. Len(q) : Sound(q[k], os)

\* The types that the proof needs: lines are kept apart from chains, and dialogues have
\* any phase.
Typed == /\ ObjectsTyped(objs)
         /\ cmdstack \in Seq(1 .. Len(objs))
         /\ pp \in Seq(Callable)
         /\ TodoTyped(todo, objs)

\* Objects stay, and stay what they are.
Kept(os, os2) == /\ Len(os) \in Nat /\ Len(os2) \in Nat /\ Len(os) <= Len(os2)
                 /\ \A i \in 1 .. Len(os) : os2[i].cmd = os[i].cmd

\* The head is replaced by sound steps.
LEMMA TodoGo ==
  ASSUME NEW q, NEW os, TodoTyped(q, os), q # << >>, NEW os2, Kept(os, os2),
         NEW new, TodoTyped(new, os2), NEW q2, q2 = new \o Tail(q)
  PROVE  TodoTyped(q2, os2) /\ Follows(q2, new, q)
<1>1. q2 \in Seq(Items) /\ Follows(q2, new, q)
  BY ONLY Replaced, TodoTyped(q, os), TodoTyped(new, os2), q # << >>, q2 = new \o Tail(q) DEF TodoTyped
<1>2. ASSUME NEW k \in 1 .. Len(q2) PROVE Sound(q2[k], os2)
  <2>1. Len(new) \in Nat /\ Len(q2) \in Nat
    BY ONLY <1>1, LenProperties, TodoTyped(new, os2) DEF TodoTyped
  <2>2. CASE k <= Len(new)
    BY ONLY <1>1, <2>1, <2>2, k \in 1 .. Len(q2), TodoTyped(new, os2) DEF TodoTyped, Follows
  <2>3. CASE k > Len(new)
    <3>0. /\ k - Len(new) + 1 \in 2 .. Len(q) /\ q2[k] = q[k - Len(new) + 1]
          /\ Len(q) \in Nat
      BY ONLY <1>1, <2>1, <2>3, k \in 1 .. Len(q2) DEF Follows
    <3>1. PICK j \in 1 .. Len(q) : q2[k] = q[j]
      BY ONLY <3>0
    <3>2. Sound(q[j], os)
      BY ONLY TodoTyped(q, os), j \in 1 .. Len(q) DEF TodoTyped
    <3>3. Sound(q[j], os2)
      BY ONLY <3>2, Kept(os, os2) DEF Sound, Kept
    <3> QED BY ONLY <3>1, <3>3
  <2> QED BY ONLY <2>1, <2>2, <2>3, k \in 1 .. Len(q2)
<1> QED BY ONLY <1>1, <1>2 DEF TodoTyped

\* Each kind may be given, and nothing too.
LEMMA Withs0 == << >> \in Withs /\ Seq(Nat) \subseteq Withs /\ Seq(Callable) \subseteq Withs
                /\ Seq(Line) \subseteq Withs /\ Seq(Word) \subseteq Withs
BY ONLY EmptySeq DEF Withs

\* One sound step.
LEMMA OneItem ==
  ASSUME NEW os, Len(os) \in Nat, NEW item \in Items, Sound(item, os)
  PROVE  TodoTyped(<<item>>, os) /\ Len(<<item>>) = 1 /\ <<item>>[1] = item
BY DEF TodoTyped

\* A script's items are its steps, by the one that runs it.
LEMMA Scripted ==
  ASSUME NEW s, NEW D, s \in Seq(D), D \subseteq Steps \cup {"queue"}, NEW id \in Nat, NEW w \in Withs
  PROVE  /\ Script(id, s, w) \in Seq(Items) /\ Len(Script(id, s, w)) = Len(s) /\ Len(s) \in Nat
         /\ \A k \in 1 .. Len(s) : /\ Script(id, s, w)[k] = [do |-> s[k], by |-> id, with |-> w]
                                   /\ s[k] \in D
<1>1. DOMAIN s = 1 .. Len(s) /\ Len(s) \in Nat /\ \A k \in 1 .. Len(s) : s[k] \in D
  BY ONLY LenProperties, ElementOfSeq, s \in Seq(D)
<1>2. PICK n, r : n = Len(s) /\ r = Script(id, s, w)
  BY ONLY TRUE
<1>3. r = [i \in 1 .. n |-> [do |-> s[i], by |-> id, with |-> w]]
  BY ONLY <1>1, <1>2 DEF Script, Item
<1>4. \A k \in 1 .. n : [do |-> s[k], by |-> id, with |-> w] \in Items
  BY ONLY <1>1, <1>2, D \subseteq Steps \cup {"queue"}, id \in Nat, w \in Withs DEF Items
<1>5. r \in [1 .. n -> Items]
  BY ONLY <1>3, <1>4
<1>6. r \in Seq(Items) /\ Len(r) = n
  BY ONLY <1>1, <1>2, <1>5
<1> QED BY ONLY <1>1, <1>2, <1>3, <1>6

\* The steps of a script are sound.
LEMMA ScriptTyped ==
  ASSUME NEW s, Opens(s), NEW os, NEW id \in 1 .. Len(os), Len(os) \in Nat, os[id].cmd \in Programs
  PROVE  /\ TodoTyped(Script(id, s, << >>), os) /\ Len(Script(id, s, << >>)) = Len(s) /\ Len(s) \in Nat
         /\ \A k \in 1 .. Len(s) :
              Script(id, s, << >>)[k] = [do |-> s[k], by |-> id, with |-> << >>] /\ s[k] \in Steps
<1>1. /\ Script(id, s, << >>) \in Seq(Items) /\ Len(Script(id, s, << >>)) = Len(s) /\ Len(s) \in Nat
      /\ \A k \in 1 .. Len(s) : /\ Script(id, s, << >>)[k] = [do |-> s[k], by |-> id, with |-> << >>]
                                /\ s[k] \in Steps
  <2>1. id \in Nat /\ s \in Seq(Steps) /\ Steps \subseteq Steps \cup {"queue"} /\ << >> \in Withs
    BY ONLY Opens(s), id \in 1 .. Len(os), Len(os) \in Nat, Withs0 DEF Opens
  <2> QED BY ONLY <2>1, Scripted
<1>2. ASSUME NEW k \in 1 .. Len(s) PROVE Sound([do |-> s[k], by |-> id, with |-> << >>], os)
  BY ONLY <1>1, k \in 1 .. Len(s), id \in 1 .. Len(os), os[id].cmd \in Programs DEF Sound, Steps
<1> QED BY ONLY <1>1, <1>2 DEF TodoTyped

-----------------------------------------------------------------------------
(* What the steps that are left say of the stack. *)

\* One is next to the other on the stack.
Above(st, a, b) == \E i \in 1 .. (Len(st) - 1) : st[i] = a /\ st[i + 1] = b
\* Neither at the bottom nor next to it.
Deep(st, a) == \E i \in 3 .. Len(st) : st[i] = a

\* The shell that is to be popped when a $(...) or an sh -c is done.
Pushed(item) == IF item.do = "unsub" THEN item.with[1] ELSE item.by
\* The steps that pop a shell that was pushed.
Pops(item) == item.do \in {"unsub", "unshell"}

\* That shell is on the stack: over the one that reads the $(...), and not
\* next to the session's own for an sh -c.
Stacked(item, st, os) ==
  /\ item.do = "unsub" => Above(st, item.by, item.with[1]) /\ os[item.with[1]].cmd = "subshell"
  /\ item.do = "unshell" => Deep(st, item.by) /\ os[item.by].cmd = "subshell"

\* Who ran a $(...) reads on.
Resumed(q, k) == k < Len(q) /\ q[k + 1].do = "parse" /\ q[k + 1].by = q[k].by

\* What was pushed for a $(...) or an sh -c is there when it is to be popped, and is
\* popped once.
Waits(q, st, os) ==
  /\ \A k \in 1 .. Len(q) : Stacked(q[k], st, os)
  /\ \A k \in 1 .. Len(q) : q[k].do = "unsub" => Resumed(q, k)
  /\ \A j, k \in 1 .. Len(q) : j # k /\ Pops(q[j]) /\ Pops(q[k]) => Pushed(q[j]) # Pushed(q[k])

\* Steps that pop no shell.
LEMMA NoPops ==
  ASSUME NEW q, NEW st, NEW os, \A k \in 1 .. Len(q) : ~ Pops(q[k])
  PROVE  Waits(q, st, os)
BY DEF Waits, Pops, Stacked

\* The head is replaced, the stack changed.
LEMMA WaitsGo ==
  ASSUME NEW q, NEW st, NEW os, Waits(q, st, os), NEW q2, NEW new, Follows(q2, new, q),
         NEW st2, NEW os2, Waits(new, st2, os2),
         \A k \in 2 .. Len(q) : Stacked(q[k], st2, os2),
         \A j \in 1 .. Len(new), k \in 2 .. Len(q) :
           Pops(new[j]) /\ Pops(q[k]) => Pushed(new[j]) # Pushed(q[k])
  PROVE  Waits(q2, st2, os2)
<1>0. PICK n \in Nat : n = Len(new)
  BY ONLY Follows(q2, new, q) DEF Follows
<1>1. PICK m \in Nat : m = Len(q)
  BY ONLY Follows(q2, new, q) DEF Follows
<1>2. PICK l \in Nat : l = Len(q2)
  BY ONLY Follows(q2, new, q) DEF Follows
<1>3. /\ l = n + m - 1 /\ m >= 1
      /\ \A k \in 1 .. n : q2[k] = new[k]
      /\ \A k \in 2 .. m : n + k - 1 \in 1 .. l /\ q2[n + k - 1] = q[k]
      /\ \A k \in 1 .. l : k > n => k - n + 1 \in 2 .. m /\ q2[k] = q[k - n + 1]
  BY ONLY <1>0, <1>1, <1>2, Follows(q2, new, q) DEF Follows
<1>4. \A k \in 1 .. l : Stacked(q2[k], st2, os2)
  <2>1. ASSUME NEW k \in 1 .. l, k <= n PROVE Stacked(q2[k], st2, os2)
    BY ONLY <1>0, <1>3, <2>1, Waits(new, st2, os2) DEF Waits
  <2>2. ASSUME NEW k \in 1 .. l, k > n PROVE Stacked(q2[k], st2, os2)
    BY ONLY <1>1, <1>3, <2>2, \A i \in 2 .. Len(q) : Stacked(q[i], st2, os2)
  <2> QED BY ONLY <2>1, <2>2
<1>5. ASSUME NEW k \in 1 .. l, q2[k].do = "unsub" PROVE Resumed(q2, k)
  <2>1. CASE k <= n
    <3>1. q2[k] = new[k] /\ k \in 1 .. n
      BY ONLY <1>3, <2>1, <1>5
    <3>2. Resumed(new, k)
      BY ONLY <1>0, <1>5, <3>1, Waits(new, st2, os2) DEF Waits
    <3>3. k < n /\ k + 1 \in 1 .. n /\ new[k + 1].do = "parse" /\ new[k + 1].by = new[k].by
      BY ONLY <1>0, <3>1, <3>2 DEF Resumed
    <3>4. q2[k + 1] = new[k + 1]
      BY ONLY <1>3, <3>3
    <3> QED BY ONLY <1>2, <1>3, <3>1, <3>3, <3>4 DEF Resumed
  <2>2. CASE k > n
    <3>1. PICK j \in 2 .. m : j = k - n + 1 /\ q2[k] = q[j]
      BY ONLY <1>3, <2>2, <1>5
    <3>2. Resumed(q, j)
      BY ONLY <1>1, <1>5, <3>1, Waits(q, st, os) DEF Waits
    <3>3. j < m /\ j + 1 \in 2 .. m /\ q[j + 1].do = "parse" /\ q[j + 1].by = q[j].by
      BY ONLY <1>1, <3>1, <3>2 DEF Resumed
    <3>4. k + 1 = n + (j + 1) - 1
      BY ONLY <3>1
    <3>5. k + 1 \in 1 .. l /\ q2[k + 1] = q[j + 1]
      BY ONLY <1>3, <3>3, <3>4
    <3> QED BY ONLY <1>2, <3>1, <3>3, <3>5 DEF Resumed
  <2> QED BY ONLY <2>1, <2>2, k \in 1 .. l
<1>6. ASSUME NEW j \in 1 .. l, NEW k \in 1 .. l, j < k, Pops(q2[j]), Pops(q2[k])
      PROVE  Pushed(q2[j]) # Pushed(q2[k])
  <2>1. CASE k <= n
    <3>1. j \in 1 .. n /\ k \in 1 .. n /\ j # k /\ q2[j] = new[j] /\ q2[k] = new[k]
      BY ONLY <1>3, <1>6, <2>1
    <3> QED BY ONLY <1>0, <1>6, <3>1, Waits(new, st2, os2) DEF Waits
  <2>2. CASE j <= n /\ k > n
    <3>1. PICK i \in 2 .. m : q2[k] = q[i]
      BY ONLY <1>3, <1>6, <2>2
    <3>2. j \in 1 .. n /\ q2[j] = new[j]
      BY ONLY <1>3, <1>6, <2>2
    <3> QED BY ONLY <1>0, <1>1, <1>6, <3>1, <3>2,
                    \A x \in 1 .. Len(new), y \in 2 .. Len(q) :
                      Pops(new[x]) /\ Pops(q[y]) => Pushed(new[x]) # Pushed(q[y])
  <2>3. CASE j > n
    <3>1. PICK i \in 2 .. m : i = k - n + 1 /\ q2[k] = q[i]
      BY ONLY <1>3, <1>6, <2>3
    <3>2. PICK h \in 2 .. m : h = j - n + 1 /\ q2[j] = q[h]
      BY ONLY <1>3, <1>6, <2>3
    <3>3. i # h /\ i \in 1 .. m /\ h \in 1 .. m
      BY ONLY <1>6, <3>1, <3>2
    <3> QED BY ONLY <1>1, <1>6, <3>1, <3>2, <3>3, Waits(q, st, os) DEF Waits
  <2> QED BY ONLY <2>1, <2>2, <2>3, j \in 1 .. l, k \in 1 .. l
<1>7. ASSUME NEW j \in 1 .. l, NEW k \in 1 .. l, j # k, Pops(q2[j]), Pops(q2[k])
      PROVE  Pushed(q2[j]) # Pushed(q2[k])
  BY ONLY <1>6, <1>7
<1> QED BY ONLY <1>2, <1>4, <1>5, <1>7 DEF Waits

\* The stack as it was, higher, or without a top that nobody waits for.
LEMMA StackedKept ==
  ASSUME NEW item, NEW os, NEW os2, Kept(os, os2), NEW st \in Seq(1 .. Len(os)), NEW st2,
         Len(st2) \in Nat, Len(st) <= Len(st2), \A i \in 1 .. Len(st) : st2[i] = st[i],
         Stacked(item, st, os)
  PROVE  Stacked(item, st2, os2)
<1>1. PICK n \in Nat : n = Len(st) /\ \A i \in 1 .. n : st[i] \in 1 .. Len(os)
  BY ONLY LenProperties, ElementOfSeq, st \in Seq(1 .. Len(os))
<1>2. ASSUME item.do = "unsub"
      PROVE  Above(st2, item.by, item.with[1]) /\ os2[item.with[1]].cmd = "subshell"
  <2>1. PICK i \in 1 .. (n - 1) : st[i] = item.by /\ st[i + 1] = item.with[1]
    BY ONLY <1>1, <1>2, Stacked(item, st, os) DEF Stacked, Above
  <2>2. i \in 1 .. (Len(st2) - 1) /\ st2[i] = item.by /\ st2[i + 1] = item.with[1]
    BY ONLY <1>1, <2>1, Len(st2) \in Nat, Len(st) <= Len(st2), \A j \in 1 .. Len(st) : st2[j] = st[j]
  <2>3. item.with[1] \in 1 .. Len(os)
    BY ONLY <1>1, <2>1
  <2> QED BY ONLY <1>2, <2>2, <2>3, Stacked(item, st, os), Kept(os, os2) DEF Stacked, Above, Kept
<1>3. ASSUME item.do = "unshell" PROVE Deep(st2, item.by) /\ os2[item.by].cmd = "subshell"
  <2>1. PICK i \in 3 .. n : st[i] = item.by
    BY ONLY <1>1, <1>3, Stacked(item, st, os) DEF Stacked, Deep
  <2>2. i \in 3 .. Len(st2) /\ st2[i] = item.by /\ item.by \in 1 .. Len(os)
    BY ONLY <1>1, <2>1, Len(st2) \in Nat, Len(st) <= Len(st2), \A j \in 1 .. Len(st) : st2[j] = st[j]
  <2> QED BY ONLY <1>3, <2>2, Stacked(item, st, os), Kept(os, os2) DEF Stacked, Deep, Kept
<1> QED BY ONLY <1>2, <1>3 DEF Stacked

\* Another one is popped.
LEMMA StackedFront ==
  ASSUME NEW item, NEW os, NEW S, NEW st \in Seq(S), st # << >>,
         Pops(item) => Pushed(item) # Last(st), Stacked(item, st, os)
  PROVE  Stacked(item, Front(st), os)
<1>1. PICK n, f : n = Len(st) /\ f = Front(st)
  BY ONLY TRUE
<1>2. n \in Nat \ {0} /\ Len(f) = n - 1 /\ Last(st) = st[n] /\ \A i \in 1 .. (n - 1) : f[i] = st[i]
  BY ONLY <1>1, Dropped, st \in Seq(S), st # << >>
<1>3. ASSUME item.do = "unsub" PROVE Above(f, item.by, item.with[1])
  <2>1. PICK i \in 1 .. (n - 1) : st[i] = item.by /\ st[i + 1] = item.with[1]
    BY ONLY <1>1, <1>3, Stacked(item, st, os) DEF Stacked, Above
  <2>2. i + 1 # n
    BY ONLY <1>2, <1>3, <2>1, Pops(item) => Pushed(item) # Last(st) DEF Pops, Pushed
  <2>3. i \in 1 .. (Len(f) - 1) /\ f[i] = item.by /\ f[i + 1] = item.with[1]
    BY ONLY <1>2, <2>1, <2>2
  <2> QED BY ONLY <2>3 DEF Above
<1>4. ASSUME item.do = "unshell" PROVE Deep(f, item.by)
  <2>1. PICK i \in 3 .. n : st[i] = item.by
    BY ONLY <1>1, <1>4, Stacked(item, st, os) DEF Stacked, Deep
  <2>2. i # n
    BY ONLY <1>2, <1>4, <2>1, Pops(item) => Pushed(item) # Last(st) DEF Pops, Pushed
  <2>3. i \in 3 .. Len(f) /\ f[i] = item.by
    BY ONLY <1>2, <2>1, <2>2
  <2> QED BY ONLY <2>3 DEF Deep
<1> QED BY ONLY <1>1, <1>3, <1>4, Stacked(item, st, os) DEF Stacked

\* What is read and queued is at the head; an insert_command is before the rest
\* of the chain is called.
Ahead(q, k) == \E m \in (k + 1) .. Len(q) : q[m].do = "lost"
\* The shell that reads is the top of the stack, or will be.
Reads(q, k, st) == IF k = 1 THEN q[k].by = st[Len(st)] ELSE q[k - 1].do = "unsub"

\* Who reads, queues or runs an argument does so at once.
Firsts(q, st) ==
  /\ \A k \in 1 .. Len(q) : q[k].do \in {"queue", "sub"} => k = 1 /\ Len(st) >= 2
  /\ \A k \in 1 .. Len(q) : q[k].do = "parse" => Reads(q, k, st)
  /\ \A k \in 1 .. Len(q) : q[k].do = "insert" => Ahead(q, k)

\* The session's own shell is at the bottom, and nobody is on the stack twice.
Bottom(st) == /\ Len(st) \in Nat \ {0} /\ st[1] = 1
              /\ \A i, j \in 1 .. Len(st) : i # j => st[i] # st[j]

\* The rest of a chain is to be called by somebody.
Chained(q, ch) == ch # << >> => \E k \in 1 .. Len(q) : q[k].do \in {"lost", "call"}

\* The steps that lead to a prompt, to another command or to the session's end.
Brings(item, ch) == \/ item.do \in {"run", "parse"} /\ item.by = 1
                    \/ item.do = "call"
                    \/ item.do = "lost" /\ ch # << >>
\* One of them is left.
Coming(q, ch) == \E k \in 1 .. Len(q) : Brings(q[k], ch)
\* The session's own shell, alone, has prompted or will.
Due(q, st, os, ch, pr) == st = <<1>> => (pr /\ os[1].pending = << >>) \/ Coming(q, ch)

\* The head is replaced.
LEMMA FirstsGo ==
  ASSUME NEW q, NEW st, Firsts(q, st), q[1].do # "unsub", NEW q2, NEW new, Follows(q2, new, q),
         NEW st2, Firsts(new, st2)
  PROVE  Firsts(q2, st2)
<1>0. PICK n \in Nat : n = Len(new)
  BY ONLY Follows(q2, new, q) DEF Follows
<1>1. PICK m \in Nat : m = Len(q)
  BY ONLY Follows(q2, new, q) DEF Follows
<1>2. PICK l \in Nat : l = Len(q2)
  BY ONLY Follows(q2, new, q) DEF Follows
<1>3. /\ l = n + m - 1 /\ m >= 1
      /\ \A k \in 1 .. n : q2[k] = new[k]
      /\ \A k \in 2 .. m : n + k - 1 \in 1 .. l /\ q2[n + k - 1] = q[k]
      /\ \A k \in 1 .. l : k > n => k - n + 1 \in 2 .. m /\ q2[k] = q[k - n + 1]
  BY ONLY <1>0, <1>1, <1>2, Follows(q2, new, q) DEF Follows
<1>4. ASSUME NEW k \in 1 .. l, k <= n
      PROVE  /\ q2[k].do \in {"queue", "sub"} => k = 1 /\ Len(st2) >= 2
             /\ q2[k].do = "parse" => Reads(q2, k, st2)
             /\ q2[k].do = "insert" => Ahead(q2, k)
  <2>1. k \in 1 .. n /\ q2[k] = new[k] /\ (k > 1 => k - 1 \in 1 .. n /\ q2[k - 1] = new[k - 1])
    BY ONLY <1>3, <1>4
  <2>2. q2[k].do \in {"queue", "sub"} => k = 1 /\ Len(st2) >= 2
    BY ONLY <1>0, <2>1, Firsts(new, st2) DEF Firsts
  <2>3. ASSUME q2[k].do = "parse" PROVE Reads(q2, k, st2)
    <3>1. Reads(new, k, st2)
      BY ONLY <1>0, <2>1, <2>3, Firsts(new, st2) DEF Firsts
    <3> QED BY ONLY <2>1, <3>1 DEF Reads
  <2>4. ASSUME q2[k].do = "insert" PROVE Ahead(q2, k)
    <3>1. Ahead(new, k)
      BY ONLY <1>0, <2>1, <2>4, Firsts(new, st2) DEF Firsts
    <3>2. PICK i \in (k + 1) .. n : new[i].do = "lost"
      BY ONLY <1>0, <3>1 DEF Ahead
    <3>3. i \in (k + 1) .. l /\ q2[i] = new[i]
      BY ONLY <1>3, <1>4, <3>2
    <3> QED BY ONLY <1>2, <3>2, <3>3 DEF Ahead
  <2> QED BY ONLY <2>2, <2>3, <2>4
<1>5. ASSUME NEW k \in 1 .. l, k > n
      PROVE  /\ q2[k].do \in {"queue", "sub"} => k = 1 /\ Len(st2) >= 2
             /\ q2[k].do = "parse" => Reads(q2, k, st2)
             /\ q2[k].do = "insert" => Ahead(q2, k)
  <2>1. PICK j \in 2 .. m : j = k - n + 1 /\ q2[k] = q[j]
    BY ONLY <1>3, <1>5
  <2>2. j \in 1 .. Len(q) /\ j # 1
    BY ONLY <1>1, <2>1
  <2>3. q[j].do \notin {"queue", "sub"}
    BY ONLY <2>2, Firsts(q, st) DEF Firsts
  <2>4. ASSUME q2[k].do = "parse" PROVE Reads(q2, k, st2)
    <3>1. q[j - 1].do = "unsub"
      BY ONLY <2>1, <2>2, <2>4, Firsts(q, st) DEF Firsts, Reads
    <3>2. j - 1 \in 2 .. m
      BY ONLY <2>1, <3>1, q[1].do # "unsub"
    <3>3. n + (j - 1) - 1 = k - 1 /\ k # 1
      BY ONLY <1>5, <2>1, <3>2
    <3>4. q2[k - 1] = q[j - 1]
      BY ONLY <1>3, <3>2, <3>3
    <3> QED BY ONLY <3>1, <3>3, <3>4 DEF Reads
  <2>5. ASSUME q2[k].do = "insert" PROVE Ahead(q2, k)
    <3>1. Ahead(q, j)
      BY ONLY <2>1, <2>2, <2>5, Firsts(q, st) DEF Firsts
    <3>2. PICK i \in (j + 1) .. m : q[i].do = "lost"
      BY ONLY <1>1, <3>1 DEF Ahead
    <3>3. i \in 2 .. m /\ n + i - 1 \in (k + 1) .. l
      BY ONLY <1>3, <1>5, <2>1, <3>2
    <3>4. q2[n + i - 1] = q[i]
      BY ONLY <1>3, <3>3
    <3> QED BY ONLY <1>2, <3>2, <3>3, <3>4 DEF Ahead
  <2> QED BY ONLY <2>1, <2>3, <2>4, <2>5
<1>6. \A k \in 1 .. l : k <= n \/ k > n
  BY ONLY TRUE
<1> QED BY ONLY <1>2, <1>4, <1>5, <1>6 DEF Firsts

\* After a $(...) the shell that read it reads on.
LEMMA FirstsPop ==
  ASSUME NEW q, NEW st, Firsts(q, st), q[1].do = "unsub", NEW q2, NEW new, Follows(q2, new, q),
         new = << >>, Resumed(q, 1), NEW st2, q[1].by = st2[Len(st2)]
  PROVE  Firsts(q2, st2)
<1>1. PICK m \in Nat : m = Len(q)
  BY ONLY Follows(q2, new, q) DEF Follows
<1>2. /\ Len(q2) = m - 1 /\ m >= 1
      /\ \A k \in 2 .. m : k - 1 \in 1 .. (m - 1) /\ q2[k - 1] = q[k]
      /\ \A k \in 1 .. (m - 1) : k + 1 \in 2 .. m /\ q2[k] = q[k + 1]
  BY ONLY <1>1, Follows(q2, new, q), new = << >> DEF Follows
<1>3. \A k \in 2 .. m : q[k].do \notin {"queue", "sub"}
  BY ONLY <1>1, Firsts(q, st) DEF Firsts
<1>4. ASSUME NEW k \in 1 .. (m - 1), q2[k].do = "parse" PROVE Reads(q2, k, st2)
  <2>1. CASE k = 1
    BY ONLY <1>2, <1>4, <2>1, Resumed(q, 1), q[1].by = st2[Len(st2)] DEF Resumed, Reads
  <2>2. CASE k # 1
    <3>0. k \in 2 .. m /\ k - 1 \in 1 .. (m - 1) /\ q2[k - 1] = q[k] /\ (k + 1) - 1 = k
      BY ONLY <1>2, <1>4, <2>2
    <3>1. k + 1 \in 1 .. m /\ k + 1 # 1 /\ q[k + 1].do = "parse" /\ q2[k - 1] = q[(k + 1) - 1]
      BY ONLY <1>2, <1>4, <2>2, <3>0
    <3>2. q[(k + 1) - 1].do = "unsub"
      BY ONLY <1>1, <3>1, Firsts(q, st) DEF Firsts, Reads
    <3> QED BY ONLY <2>2, <3>1, <3>2 DEF Reads
  <2> QED BY ONLY <2>1, <2>2
<1>5. ASSUME NEW k \in 1 .. (m - 1), q2[k].do = "insert" PROVE Ahead(q2, k)
  <2>1. k + 1 \in 1 .. m /\ q[k + 1].do = "insert"
    BY ONLY <1>1, <1>2, <1>5
  <2>2. Ahead(q, k + 1)
    BY ONLY <1>1, <2>1, Firsts(q, st) DEF Firsts
  <2>3. PICK i \in (k + 1 + 1) .. m : q[i].do = "lost"
    BY ONLY <1>1, <2>2 DEF Ahead
  <2>4. i \in 2 .. m /\ i - 1 \in (k + 1) .. (m - 1)
    BY ONLY <1>1, <1>5, <2>3
  <2>5. q2[i - 1] = q[i]
    BY ONLY <1>2, <2>4
  <2> QED BY ONLY <1>2, <2>3, <2>4, <2>5 DEF Ahead
<1> QED BY ONLY <1>2, <1>3, <1>4, <1>5 DEF Firsts

\* A new object is pushed.
LEMMA BottomPush ==
  ASSUME NEW S, NEW st \in Seq(S), Bottom(st), NEW x, x \notin S
  PROVE  /\ Bottom(Append(st, x)) /\ Append(st, x)[Len(Append(st, x))] = x
         /\ Len(Append(st, x)) = Len(st) + 1 /\ \A i \in 1 .. Len(st) : Append(st, x)[i] = st[i]
<1>1. /\ Len(st) \in Nat /\ Len(Append(st, x)) = Len(st) + 1
      /\ \A i \in 1 .. Len(st) : Append(st, x)[i] = st[i] /\ st[i] \in S
      /\ Append(st, x)[Len(st) + 1] = x
  <2>1. st \in Seq(S \cup {x}) /\ x \in S \cup {x}
    BY SeqMonotonic
  <2>2. \A i \in 1 .. Len(st) : st[i] \in S
    BY ONLY ElementOfSeq, st \in Seq(S)
  <2> QED BY ONLY <2>1, <2>2, Added
<1>2. PICK n, t : n = Len(st) /\ t = Append(st, x)
  BY ONLY TRUE
<1>3. n \in Nat \ {0} /\ st[1] = 1 /\ \A i, j \in 1 .. n : i # j => st[i] # st[j]
  BY ONLY <1>2, Bottom(st) DEF Bottom
<1>4. Len(t) = n + 1 /\ t[n + 1] = x /\ \A i \in 1 .. n : t[i] = st[i] /\ st[i] # x
  BY ONLY <1>1, <1>2, x \notin S
<1>5. \A i, j \in 1 .. (n + 1) : i # j => t[i] # t[j]
  BY ONLY <1>3, <1>4
<1>6. Bottom(t)
  BY ONLY <1>3, <1>4, <1>5 DEF Bottom
<1> QED BY ONLY <1>1, <1>2, <1>6

\* The top is popped, and is not the bottom.
LEMMA BottomPop ==
  ASSUME NEW S, NEW st \in Seq(S), Bottom(st), Len(st) >= 2
  PROVE  Bottom(Front(st)) /\ Front(st) # << >> /\ Len(Front(st)) = Len(st) - 1
<1>1. st # << >>
  BY ONLY EmptySeq, Len(st) >= 2
<1>2. PICK n, f : n = Len(st) /\ f = Front(st)
  BY ONLY TRUE
<1>3. n \in Nat \ {0} /\ Len(f) = n - 1 /\ f \in Seq(S) /\ \A i \in 1 .. (n - 1) : f[i] = st[i]
  BY ONLY <1>1, <1>2, Dropped, st \in Seq(S)
<1>4. n >= 2 /\ st[1] = 1 /\ \A i, j \in 1 .. n : i # j => st[i] # st[j]
  BY ONLY <1>2, Bottom(st), Len(st) >= 2 DEF Bottom
<1>5. \A i, j \in 1 .. (n - 1) : i # j => f[i] # f[j]
  BY ONLY <1>3, <1>4
<1>6. Bottom(f) /\ f # << >>
  BY ONLY <1>3, <1>4, <1>5, EmptySeq DEF Bottom
<1> QED BY ONLY <1>2, <1>3, <1>6

\* The head is replaced, and does not call the chain.
LEMMA ChainedGo ==
  ASSUME NEW q, NEW q2, NEW new, Follows(q2, new, q), NEW ch, Chained(q, ch),
         q[1].do \notin {"lost", "call"}
  PROVE  Chained(q2, ch)
<1>1. ASSUME ch # << >> PROVE \E k \in 1 .. Len(q2) : q2[k].do \in {"lost", "call"}
  <2>1. PICK k \in 1 .. Len(q) : q[k].do \in {"lost", "call"}
    BY ONLY <1>1, Chained(q, ch) DEF Chained
  <2>2. k \in 2 .. Len(q)
    BY ONLY <2>1, q[1].do \notin {"lost", "call"}, Follows(q2, new, q) DEF Follows
  <2> QED BY ONLY <2>1, <2>2, Follows(q2, new, q) DEF Follows
<1> QED BY ONLY <1>1 DEF Chained

\* The head is replaced, and does not bring a prompt.
LEMMA ComingGo ==
  ASSUME NEW q, NEW q2, NEW new, Follows(q2, new, q), NEW ch, NEW ch2, ch # << >> => ch2 # << >>,
         Coming(q, ch), ~ Brings(q[1], ch)
  PROVE  Coming(q2, ch2)
<1>1. PICK k \in 1 .. Len(q) : Brings(q[k], ch)
  BY ONLY Coming(q, ch) DEF Coming
<1>2. k \in 2 .. Len(q)
  BY ONLY <1>1, ~ Brings(q[1], ch), Follows(q2, new, q) DEF Follows
<1>3. PICK j \in 1 .. Len(q2) : q2[j] = q[k]
  BY ONLY <1>2, Follows(q2, new, q) DEF Follows
<1> QED BY ONLY <1>1, <1>3, ch # << >> => ch2 # << >> DEF Coming, Brings

\* What is put in front comes, and so does a chain that is still to be called.
LEMMA ComingFirst ==
  ASSUME NEW q, NEW q2, NEW new, Follows(q2, new, q), NEW ch, NEW k \in 1 .. Len(new),
         Brings(new[k], ch)
  PROVE  Coming(q2, ch)
<1>1. k \in 1 .. Len(q2) /\ q2[k] = new[k]
  BY ONLY Follows(q2, new, q), k \in 1 .. Len(new) DEF Follows
<1> QED BY ONLY <1>1, Brings(new[k], ch) DEF Coming

\* A chain that is left is yet to be called.
LEMMA ComingChain == ASSUME NEW q, NEW ch, Chained(q, ch), ch # << >> PROVE Coming(q, ch)
BY DEF Coming, Chained, Brings

-----------------------------------------------------------------------------
(* Lines, arguments and objects. *)

\* The words of a pipeline are words.
LEMMA WordsOfPipeline ==
  ASSUME NEW p \in Pipelines, ~ (p # << >> /\ p[1].cmd \in {"quote", "stop"})
  PROVE  p \in Seq(Word)
<1>1. Quote # << >> /\ Quote[1].cmd = "quote" /\ Stop # << >> /\ Stop[1].cmd = "stop"
  BY ONLY DEF Quote, Stop
<1> QED BY ONLY <1>1, p \in Pipelines, ~ (p # << >> /\ p[1].cmd \in {"quote", "stop"})
     DEF Pipelines

\* A pipeline without missing or unknown words can be called.
LEMMA CallablePipeline ==
  ASSUME NEW p \in Seq(Word), {p[i].cmd : i \in DOMAIN p} \cap {"missing", "unknown"} = {},
         {p[i].cmd : i \in DOMAIN p} # {}
  PROVE  p \in Seq(Callable) \ {<< >>}
<1>1. PICK n \in Nat : n = Len(p)
  BY ONLY LenProperties, p \in Seq(Word)
<1>2. DOMAIN p = 1 .. n /\ p \in [1 .. n -> Word]
  BY ONLY <1>1, LenProperties, p \in Seq(Word)
<1>3. ASSUME NEW i \in 1 .. n PROVE p[i] \in Callable
  <2>1. p[i] \in Word /\ p[i].cmd \notin {"missing", "unknown"}
    BY ONLY <1>2, i \in 1 .. n, {p[j].cmd : j \in DOMAIN p} \cap {"missing", "unknown"} = {}
  <2> QED BY ONLY <2>1 DEF Word, Callable
<1>4. p \in [1 .. n -> Callable]
  BY ONLY <1>2, <1>3
<1>5. p \in Seq(Callable)
  BY ONLY <1>4, n \in Nat
<1>6. p # << >>
  BY ONLY <1>2, {p[i].cmd : i \in DOMAIN p} # {}
<1> QED BY ONLY <1>5, <1>6

\* The argument of sudo, busybox or sh is a pipeline.
LEMMA ArgumentsCallable == Arguments \subseteq Seq(Callable) /\ Arguments \subseteq Seq(Word)
<1>1. << >> \in Seq([cmd : Programs, arg : {<< >>}])
  BY ONLY EmptySeq
<1>2. [cmd : Programs, arg : {<< >>}] \subseteq Callable
  BY ONLY <1>1 DEF Callable
<1>3. Callable \subseteq Word
  BY ONLY DEF Callable, Word
<1>4. [cmd : Programs, arg : {<< >>}] \subseteq Word
  BY ONLY <1>2, <1>3
<1> QED BY ONLY <1>2, <1>4, SeqMonotonic DEF Arguments

\* A chain can be pending.
LEMMA CallableWord == ASSUME NEW p \in Seq(Callable) PROVE p \in Seq(Word)
<1>1. Callable \subseteq Word
  BY ONLY DEF Callable, Word
<1> QED BY ONLY <1>1, SeqMonotonic, p \in Seq(Callable)

\* A stage is a command and its argument.
LEMMA CallableArguments == ASSUME NEW x \in Callable PROVE x.cmd \in Programs /\ x.arg \in Arguments
BY DEF Callable, Arguments

\* A pipeline by itself is a line.
LEMMA LineOf ==
  ASSUME NEW p \in Pipelines
  PROVE  /\ [sub |-> << >>, stages |-> p] \in Line
         /\ <<[sub |-> << >>, stages |-> p]>> \in Seq(Line)
<1>1. << >> \in Pipelines
  BY ONLY EmptySeq DEF Pipelines
<1>2. [sub |-> << >>, stages |-> p] \in Line
  BY ONLY <1>1, p \in Pipelines DEF Line
<1>3. PICK l \in Line : l = [sub |-> << >>, stages |-> p]
  BY ONLY <1>2
<1>4. <<l>> \in Seq(Line)
  BY ONLY l \in Line
<1> QED BY ONLY <1>2, <1>3, <1>4

\* The first pipeline of a line, and the others.
LEMMA LineParts ==
  ASSUME NEW w \in Seq(Line), w # << >>
  PROVE  /\ Head(w) = w[1] /\ Head(w).sub \in Pipelines /\ Head(w).stages \in Pipelines
         /\ Tail(w) \in Seq(Line)
         /\ <<[sub |-> << >>, stages |-> Head(w).stages]>> \o Tail(w) \in Seq(Line)
<1>1. Head(w) \in Line /\ Tail(w) \in Seq(Line) /\ Head(w) = w[1]
  BY ONLY HeadTailProperties, w \in Seq(Line), w # << >>
<1>2. Head(w).sub \in Pipelines /\ Head(w).stages \in Pipelines
  BY ONLY <1>1 DEF Line
<1>3. <<[sub |-> << >>, stages |-> Head(w).stages]>> \in Seq(Line)
  BY ONLY <1>2, LineOf
<1> QED BY ONLY <1>1, <1>2, <1>3, ConcatProperties

\* The fields of an object.
LEMMA ObjectFields ==
  ASSUME NEW os, ObjectsTyped(os), NEW i \in 1 .. Len(os)
  PROVE  /\ os[i] \in Objects /\ os[i].cmd \in Shells \cup Programs /\ os[i].arg \in Arguments
         /\ os[i].pending \in Seq(Seq(Word)) /\ os[i].timers \in Nat /\ os[i].phase \in Int
         /\ Quiet(os[i])
<1>1. os[i] \in Objects
  BY ONLY ElementOfSeq, ObjectsTyped(os), i \in 1 .. Len(os) DEF ObjectsTyped
<1>2. Quiet(os[i])
  BY ONLY ObjectsTyped(os), i \in 1 .. Len(os) DEF ObjectsTyped
<1> QED BY ONLY <1>1, <1>2 DEF Objects

\* A shell is no command.
LEMMA ShellsNoPrograms == Shells \cap Programs = {}
BY DEF Shells, Programs, Dialogues, Commands

\* One object replaced.
Put(os, i, r) == [os EXCEPT ![i] = r]

\* An object replaced by another of its class.
LEMMA Changed ==
  ASSUME NEW os, ObjectsTyped(os), NEW i \in 1 .. Len(os), NEW r \in Objects,
         r.cmd = os[i].cmd, Quiet(r), NEW os2, os2 = Put(os, i, r)
  PROVE  /\ ObjectsTyped(os2) /\ Kept(os, os2) /\ Len(os2) = Len(os) /\ os2[i] = r
         /\ \A j \in 1 .. Len(os) : j # i => os2[j] = os[j]
<1>1. os2 \in Seq(Objects) /\ Len(os2) = Len(os)
      /\ \A j \in 1 .. Len(os) : os2[j] = IF j = i THEN r ELSE os[j]
  BY ONLY ExceptSeq, ObjectsTyped(os), i \in 1 .. Len(os), r \in Objects, os2 = Put(os, i, r)
     DEF ObjectsTyped, Put
<1>2. Len(os) \in Nat \ {0} /\ os[1].cmd = "shell" /\ \A j \in 1 .. Len(os) : Quiet(os[j])
  BY ONLY ObjectsTyped(os) DEF ObjectsTyped
<1>3. \A j \in 1 .. Len(os) : os2[j].cmd = os[j].cmd /\ Quiet(os2[j])
  BY ONLY <1>1, <1>2, r.cmd = os[i].cmd, Quiet(r)
<1> QED BY ONLY <1>1, <1>2, <1>3, i \in 1 .. Len(os) DEF ObjectsTyped, Kept

\* A new object is one.
LEMMA Newborn ==
  ASSUME NEW c \in Shells \cup Programs, NEW a \in Arguments
  PROVE  New(c, a) \in Objects /\ Quiet(New(c, a))
<1>1. << >> \in Seq(Seq(Word))
  BY ONLY EmptySeq
<1> QED BY ONLY <1>1, c \in Shells \cup Programs, a \in Arguments DEF New, Objects, Quiet

\* A new object is appended.
LEMMA Made ==
  ASSUME NEW os, ObjectsTyped(os), NEW r \in Objects, Quiet(r), NEW os2, os2 = Append(os, r)
  PROVE  /\ ObjectsTyped(os2) /\ Kept(os, os2) /\ Len(os2) = Len(os) + 1
         /\ os2[Len(os) + 1] = r /\ \A j \in 1 .. Len(os) : os2[j] = os[j]
<1>3. Len(os) \in Nat \ {0} /\ os \in Seq(Objects) /\ os[1].cmd = "shell"
      /\ \A j \in 1 .. Len(os) : Quiet(os[j])
  BY ONLY ObjectsTyped(os) DEF ObjectsTyped
<1>4. /\ os2 \in Seq(Objects) /\ Len(os2) = Len(os) + 1
      /\ \A j \in 1 .. Len(os) : os2[j] = os[j]
      /\ os2[Len(os) + 1] = r
  BY ONLY <1>3, Added, r \in Objects, os2 = Append(os, r)
<1>5. \A j \in 1 .. (Len(os) + 1) : Quiet(os2[j])
  BY ONLY <1>3, <1>4, Quiet(r)
<1> QED BY ONLY <1>3, <1>4, <1>5 DEF ObjectsTyped, Kept

-----------------------------------------------------------------------------
(* The invariant of the prompts. *)

\* The runs the property is about, before they end or are spoilt.
Clean == /\ spoilt \cap {"raised", "crossed"} = {}
         /\ conn = "open"
         /\ ~ Doing("raise")

\* The inductive invariant: the types, the stack and the steps that are left.
Prompting == /\ Typed
             /\ Waits(todo, cmdstack, objs)
             /\ Firsts(todo, cmdstack)
             /\ Bottom(cmdstack)
             /\ Chained(todo, pp)
             /\ Due(todo, cmdstack, objs, pp, prompted)

\* The same of a state by its parts.
Prompts(os, st, ch, q, pr) ==
  /\ ObjectsTyped(os) /\ st \in Seq(1 .. Len(os)) /\ ch \in Seq(Callable) /\ TodoTyped(q, os)
  /\ Waits(q, st, os) /\ Firsts(q, st) /\ Bottom(st) /\ Chained(q, ch) /\ Due(q, st, os, ch, pr)

\* The same, with the state as parameters.
LEMMA PromptsNow == /\ Prompting <=> Prompts(objs, cmdstack, pp, todo, prompted)
                    /\ Prompting' <=> Prompts(objs', cmdstack', pp', todo', prompted')
BY DEF Prompting, Prompts, Typed

\* What the step at the head is.
LEMMA HeadItem ==
  ASSUME Typed, todo # << >>
  PROVE  /\ head = todo[1] /\ 1 \in 1 .. Len(todo) /\ Sound(head, objs) /\ head \in Items
         /\ head.by \in 1 .. Len(objs) /\ head.by \in Nat /\ Len(objs) \in Nat \ {0}
<1>1. todo \in Seq(Items) /\ \A k \in 1 .. Len(todo) : Sound(todo[k], objs)
  BY ONLY Typed DEF Typed, TodoTyped
<1>2. Len(todo) \in Nat \ {0} /\ head = todo[1] /\ head \in Items
  BY ONLY <1>1, todo # << >>, EmptySeq, HeadTailProperties DEF head
<1>3. Len(objs) \in Nat \ {0}
  BY ONLY Typed DEF Typed, ObjectsTyped
<1> QED BY ONLY <1>1, <1>2, <1>3 DEF Sound

\* A step that leaves the stack, or puts others on it.
LEMMA Carried ==
  ASSUME Typed, Waits(todo, cmdstack, objs), Firsts(todo, cmdstack), todo # << >>, ~ Pops(head),
         NEW os2, ObjectsTyped(os2), Kept(objs, os2),
         NEW st2, Len(st2) \in Nat, Len(cmdstack) <= Len(st2),
         \A i \in 1 .. Len(cmdstack) : st2[i] = cmdstack[i],
         NEW new, TodoTyped(new, os2), Waits(new, st2, os2), Firsts(new, st2),
         \A k \in 1 .. Len(new) : Pops(new[k]) => Pushed(new[k]) \notin 1 .. Len(objs),
         NEW q2, q2 = new \o rest
  PROVE  TodoTyped(q2, os2) /\ Follows(q2, new, todo) /\ Waits(q2, st2, os2) /\ Firsts(q2, st2)
<1>1. TodoTyped(q2, os2) /\ Follows(q2, new, todo)
  BY ONLY TodoGo, Typed, todo # << >>, Kept(objs, os2), TodoTyped(new, os2), q2 = new \o rest
     DEF Typed, rest
<1>2. cmdstack \in Seq(1 .. Len(objs))
  BY ONLY Typed DEF Typed
<1>3. ASSUME NEW k \in 2 .. Len(todo) PROVE Stacked(todo[k], st2, os2)
  <2>1. Stacked(todo[k], cmdstack, objs)
    BY ONLY k \in 2 .. Len(todo), Waits(todo, cmdstack, objs) DEF Waits
  <2> QED BY ONLY <1>2, <2>1, StackedKept, Kept(objs, os2), Len(st2) \in Nat,
                  Len(cmdstack) <= Len(st2), \A i \in 1 .. Len(cmdstack) : st2[i] = cmdstack[i]
<1>4. ASSUME NEW k \in 2 .. Len(todo), Pops(todo[k]) PROVE Pushed(todo[k]) \in 1 .. Len(objs)
  <2>1. Stacked(todo[k], cmdstack, objs)
    BY ONLY k \in 2 .. Len(todo), Waits(todo, cmdstack, objs) DEF Waits
  <2>2. PICK n \in Nat : n = Len(cmdstack) /\ \A i \in 1 .. n : cmdstack[i] \in 1 .. Len(objs)
    BY ONLY <1>2, LenProperties, ElementOfSeq
  <2>3. CASE todo[k].do = "unsub"
    <3>1. PICK i \in 1 .. (n - 1) : cmdstack[i + 1] = todo[k].with[1]
      BY ONLY <2>1, <2>2, <2>3 DEF Stacked, Above
    <3> QED BY ONLY <2>2, <2>3, <3>1 DEF Pushed
  <2>4. CASE todo[k].do = "unshell"
    <3>1. PICK i \in 3 .. n : cmdstack[i] = todo[k].by
      BY ONLY <2>1, <2>2, <2>4 DEF Stacked, Deep
    <3> QED BY ONLY <2>2, <2>4, <3>1 DEF Pushed
  <2> QED BY ONLY <1>4, <2>3, <2>4 DEF Pops
<1>5. Waits(q2, st2, os2)
  <2>1. \A j \in 1 .. Len(new), k \in 2 .. Len(todo) :
          Pops(new[j]) /\ Pops(todo[k]) => Pushed(new[j]) # Pushed(todo[k])
    BY ONLY <1>4, \A k \in 1 .. Len(new) : Pops(new[k]) => Pushed(new[k]) \notin 1 .. Len(objs)
  <2> QED BY ONLY <1>1, <1>3, <2>1, WaitsGo, Waits(todo, cmdstack, objs), Waits(new, st2, os2)
<1>6. todo[1].do # "unsub"
  BY ONLY HeadItem, Typed, todo # << >>, ~ Pops(head) DEF Pops
<1>7. Firsts(q2, st2)
  BY ONLY <1>1, <1>6, FirstsGo, Firsts(todo, cmdstack), Firsts(new, st2)
<1> QED BY ONLY <1>1, <1>5, <1>7

\* A step that pops what no other step waits for.
LEMMA Popped ==
  ASSUME Typed, Waits(todo, cmdstack, objs), todo # << >>, cmdstack # << >>,
         \A k \in 2 .. Len(todo) : Pops(todo[k]) => Pushed(todo[k]) # Last(cmdstack),
         NEW new, TodoTyped(new, objs), \A k \in 1 .. Len(new) : ~ Pops(new[k]),
         NEW q2, q2 = new \o rest
  PROVE  /\ TodoTyped(q2, objs) /\ Follows(q2, new, todo) /\ Waits(q2, Front(cmdstack), objs)
         /\ Front(cmdstack) \in Seq(1 .. Len(objs))
<1>1. Kept(objs, objs)
  BY ONLY Typed DEF Typed, ObjectsTyped, Kept
<1>2. TodoTyped(q2, objs) /\ Follows(q2, new, todo)
  BY ONLY <1>1, TodoGo, Typed, todo # << >>, TodoTyped(new, objs), q2 = new \o rest DEF Typed, rest
<1>3. cmdstack \in Seq(1 .. Len(objs)) /\ Front(cmdstack) \in Seq(1 .. Len(objs))
  BY ONLY Dropped, Typed, cmdstack # << >> DEF Typed
<1>4. ASSUME NEW k \in 2 .. Len(todo) PROVE Stacked(todo[k], Front(cmdstack), objs)
  <2>1. Stacked(todo[k], cmdstack, objs)
    BY ONLY k \in 2 .. Len(todo), Waits(todo, cmdstack, objs) DEF Waits
  <2> QED BY ONLY <1>3, <2>1, StackedFront, cmdstack # << >>, k \in 2 .. Len(todo),
                  \A j \in 2 .. Len(todo) : Pops(todo[j]) => Pushed(todo[j]) # Last(cmdstack)
<1>5. Waits(new, Front(cmdstack), objs)
  BY ONLY NoPops, \A k \in 1 .. Len(new) : ~ Pops(new[k])
<1>6. Waits(q2, Front(cmdstack), objs)
  BY ONLY <1>2, <1>4, <1>5, WaitsGo, Waits(todo, cmdstack, objs), \A k \in 1 .. Len(new) : ~ Pops(new[k])
<1> QED BY ONLY <1>2, <1>3, <1>6

\* No step in front, or one that is none of the special ones.
LEMMA NoneNew ==
  ASSUME NEW os, NEW st
  PROVE  TodoTyped(<< >>, os) /\ Waits(<< >>, st, os) /\ Firsts(<< >>, st) /\ Len(<< >>) = 0
<1>1. << >> \in Seq(Items) /\ Len(<< >>) = 0
  BY ONLY EmptySeq
<1> QED BY ONLY <1>1 DEF TodoTyped, Waits, Firsts

\* One sound step in front.
LEMMA OneNew ==
  ASSUME NEW os, Len(os) \in Nat, NEW st, NEW item \in Items, Sound(item, os),
         item.do \notin {"unsub", "unshell", "queue", "sub", "insert"},
         item.do = "parse" => item.by = st[Len(st)]
  PROVE  /\ TodoTyped(<<item>>, os) /\ Waits(<<item>>, st, os) /\ Firsts(<<item>>, st)
         /\ Len(<<item>>) = 1 /\ <<item>>[1] = item /\ \A k \in 1 .. Len(<<item>>) : ~ Pops(<<item>>[k])
<1>1. TodoTyped(<<item>>, os) /\ Len(<<item>>) = 1 /\ <<item>>[1] = item
  BY ONLY OneItem, Len(os) \in Nat, item \in Items, Sound(item, os)
<1>2. PICK q : q = <<item>>
  BY ONLY TRUE
<1>3. \A k \in 1 .. Len(q) : k = 1 /\ q[k] = item
  BY ONLY <1>1, <1>2
<1>4. \A k \in 1 .. Len(q) : ~ Pops(q[k])
  BY ONLY <1>3, item.do \notin {"unsub", "unshell", "queue", "sub", "insert"} DEF Pops
<1>5. Waits(q, st, os)
  BY ONLY <1>4, NoPops
<1>6. Firsts(q, st)
  BY ONLY <1>3, item.do \notin {"unsub", "unshell", "queue", "sub", "insert"},
          item.do = "parse" => item.by = st[Len(st)] DEF Firsts, Reads
<1> QED BY ONLY <1>1, <1>2, <1>4, <1>5, <1>6

-----------------------------------------------------------------------------
(* The steps, one by one. *)

\* A command's start(), and what calls the rest of the chain after it.
LEMMA Started ==
  ASSUME NEW s, Opens(s), NEW os, Len(os) \in Nat, NEW id \in 1 .. Len(os), os[id].cmd \in Programs,
         NEW st, Len(st) >= 2,
         NEW new, new = Append(Script(id, s, << >>), Item("lost", id, << >>))
  PROVE  /\ TodoTyped(new, os) /\ Waits(new, st, os) /\ Firsts(new, st)
         /\ \A k \in 1 .. Len(new) : ~ Pops(new[k])
         /\ Len(new) = Len(s) + 1 /\ Len(s) \in Nat
         /\ \A k \in 1 .. Len(s) : new[k] = [do |-> s[k], by |-> id, with |-> << >>]
         /\ new[Len(s) + 1] = [do |-> "lost", by |-> id, with |-> << >>]
<1>1. PICK r : r = Script(id, s, << >>)
  BY ONLY TRUE
<1>2. /\ TodoTyped(r, os) /\ Len(r) = Len(s) /\ Len(s) \in Nat
      /\ \A k \in 1 .. Len(s) : r[k] = [do |-> s[k], by |-> id, with |-> << >>] /\ s[k] \in Steps
  BY ONLY <1>1, ScriptTyped, Opens(s), id \in 1 .. Len(os), Len(os) \in Nat, os[id].cmd \in Programs
<1>3. PICK x : x = [do |-> "lost", by |-> id, with |-> << >>]
  BY ONLY TRUE
<1>4. x \in Items /\ Sound(x, os)
  BY ONLY <1>3, Withs0, id \in 1 .. Len(os), Len(os) \in Nat DEF Items, Sound, Steps
<1>5. new = Append(r, x)
  BY ONLY <1>1, <1>3, new = Append(Script(id, s, << >>), Item("lost", id, << >>)) DEF Item
<1>6. /\ new \in Seq(Items) /\ Len(new) = Len(s) + 1 /\ new[Len(s) + 1] = x
      /\ \A k \in 1 .. Len(s) : new[k] = r[k]
  BY ONLY <1>2, <1>4, <1>5, Added DEF TodoTyped
<1>7. TodoTyped(new, os)
  BY ONLY <1>2, <1>4, <1>6 DEF TodoTyped
<1>8. \A k \in 1 .. Len(new) : new[k].do \in Steps /\ (new[k].do = "sub" => k = 1)
                               /\ (k # Len(new) => k + 1 \in 1 .. Len(new))
  <2>1. \A k \in 1 .. Len(s) : new[k].do = s[k] /\ s[k] \in Steps /\ (s[k] = "sub" => k = 1)
    <3>1. \A k \in 1 .. Len(s) : s[k] = "sub" => k = 1
      BY ONLY Opens(s) DEF Opens
    <3>2. ASSUME NEW k \in 1 .. Len(s) PROVE new[k].do = s[k] /\ s[k] \in Steps
      <4>1. new[k] = [do |-> s[k], by |-> id, with |-> << >>] /\ s[k] \in Steps
        BY ONLY <1>2, <1>6, k \in 1 .. Len(s)
      <4> QED BY ONLY <4>1
    <3> QED BY ONLY <3>1, <3>2
  <2>2. new[Len(s) + 1].do = "lost"
    BY ONLY <1>3, <1>6
  <2> QED BY ONLY <1>2, <1>6, <2>1, <2>2 DEF Steps
<1>9. \A k \in 1 .. Len(new) : ~ Pops(new[k])
  BY ONLY <1>8 DEF Pops, Steps
<1>10. Waits(new, st, os)
  BY ONLY <1>9, NoPops
<1>11. ASSUME NEW k \in 1 .. Len(new), new[k].do = "insert" PROVE Ahead(new, k)
  <2>1. k # Len(s) + 1
    BY ONLY <1>3, <1>6, <1>11
  <2>2. Len(s) + 1 \in (k + 1) .. Len(new)
    BY ONLY <1>2, <1>6, <2>1, k \in 1 .. Len(new)
  <2>3. new[Len(s) + 1].do = "lost"
    BY ONLY <1>3, <1>6
  <2> QED BY ONLY <2>2, <2>3 DEF Ahead
<1>12. Firsts(new, st)
  BY ONLY <1>8, <1>11, Len(st) >= 2 DEF Firsts, Steps
<1> QED BY ONLY <1>2, <1>3, <1>6, <1>7, <1>9, <1>10, <1>12

\* A command is called.
LEMMA CallStep == ASSUME Prompting, call_command PROVE Prompting'
<1>1. Typed /\ Bottom(cmdstack) /\ Waits(todo, cmdstack, objs) /\ Firsts(todo, cmdstack)
  BY ONLY Prompting DEF Prompting
<1>2. todo # << >> /\ head.do = "call"
  BY ONLY call_command DEF call_command, Doing
<1>3. head.with \in Seq(Callable) \ {<< >>}
  BY ONLY <1>1, <1>2, HeadItem DEF Sound
<1>4. PICK stage : stage = Head(head.with)
  BY ONLY TRUE
<1>5. stage \in Callable /\ Tail(head.with) \in Seq(Callable)
  BY ONLY <1>3, <1>4, HeadTailProperties
<1>6. stage.cmd \in Programs /\ stage.arg \in Arguments
  BY ONLY <1>5, CallableArguments
<1>7. cmdstack # << >> /\ cmdstack \in Seq(1 .. Len(objs)) /\ ObjectsTyped(objs)
  BY ONLY <1>1, EmptySeq DEF Bottom, Typed
<1>8. PICK n \in Nat : n = Len(objs) + 1
  BY ONLY <1>7 DEF ObjectsTyped
<1>9. PICK s \in Behaviour(stage.cmd, 0).start :
        /\ objs' = Append(objs, New(stage.cmd, stage.arg))
        /\ cmdstack' = Append(cmdstack, n)
        /\ todo' = Append(Script(n, s, << >>), Item("lost", n, << >>)) \o rest
        /\ pp' = Tail(head.with)
  BY ONLY <1>4, <1>7, <1>8, call_command DEF call_command, Then, next_command
<1>10. Opens(s)
  <2>1. 0 \in Int
    BY ONLY TRUE
  <2>2. \A x \in Behaviour(stage.cmd, 0).start : Opens(x)
    BY ONLY <1>6, <2>1, Handlers
  <2> QED BY ONLY <1>9, <2>2
<1>11. /\ ObjectsTyped(objs') /\ Kept(objs, objs') /\ Len(objs') = n /\ objs'[n] = New(stage.cmd, stage.arg)
  <2>1. New(stage.cmd, stage.arg) \in Objects /\ Quiet(New(stage.cmd, stage.arg))
    BY ONLY <1>6, Newborn
  <2>2. PICK r \in Objects : r = New(stage.cmd, stage.arg) /\ Quiet(r)
    BY ONLY <2>1
  <2>3. objs' = Append(objs, r)
    BY ONLY <1>9, <2>2
  <2>4. /\ ObjectsTyped(objs') /\ Kept(objs, objs') /\ Len(objs') = Len(objs) + 1
        /\ objs'[Len(objs) + 1] = r
    <3>1. PICK os2 : os2 = objs'
      BY ONLY TRUE
    <3>2. /\ ObjectsTyped(os2) /\ Kept(objs, os2) /\ Len(os2) = Len(objs) + 1
          /\ os2[Len(objs) + 1] = r
      <4>1. ObjectsTyped(objs) /\ Quiet(r) /\ os2 = Append(objs, r)
        BY ONLY <1>7, <2>2, <2>3, <3>1
      <4> QED BY ONLY <4>1, r \in Objects, Made
    <3> QED BY ONLY <3>1, <3>2
  <2>5. Len(objs') = n
    BY ONLY <1>8, <2>4
  <2>6. objs'[n] = New(stage.cmd, stage.arg)
    BY ONLY <1>8, <2>2, <2>4
  <2> QED BY ONLY <2>4, <2>5, <2>6
<1>12. /\ Bottom(cmdstack') /\ Len(cmdstack') = Len(cmdstack) + 1 /\ Len(cmdstack) \in Nat \ {0}
       /\ \A i \in 1 .. Len(cmdstack) : cmdstack'[i] = cmdstack[i]
  <2>1. n \notin 1 .. Len(objs)
    BY ONLY <1>7, <1>8 DEF ObjectsTyped
  <2> QED BY ONLY <1>1, <1>7, <1>9, <2>1, BottomPush DEF Bottom
<1>13. cmdstack' \in Seq(1 .. Len(objs'))
  <2>1. 1 .. Len(objs) \subseteq 1 .. n /\ n \in 1 .. n
    BY ONLY <1>7, <1>8 DEF ObjectsTyped
  <2>2. cmdstack \in Seq(1 .. n)
    BY ONLY <1>7, <2>1, SeqMonotonic
  <2> QED BY ONLY <1>9, <1>11, <2>1, <2>2, Added
<1>14. PICK new : new = Append(Script(n, s, << >>), Item("lost", n, << >>))
  BY ONLY TRUE
<1>15. /\ TodoTyped(new, objs') /\ Waits(new, cmdstack', objs') /\ Firsts(new, cmdstack')
       /\ \A k \in 1 .. Len(new) : ~ Pops(new[k])
       /\ Len(s) + 1 \in 1 .. Len(new)
       /\ new[Len(s) + 1] = [do |-> "lost", by |-> n, with |-> << >>]
  <2>1. n \in 1 .. Len(objs') /\ Len(objs') \in Nat /\ objs'[n].cmd \in Programs /\ Len(cmdstack') >= 2
    BY ONLY <1>6, <1>7, <1>8, <1>11, <1>12 DEF ObjectsTyped, New
  <2>2. /\ TodoTyped(new, objs') /\ Waits(new, cmdstack', objs') /\ Firsts(new, cmdstack')
        /\ \A k \in 1 .. Len(new) : ~ Pops(new[k])
        /\ Len(new) = Len(s) + 1 /\ Len(s) \in Nat
        /\ new[Len(s) + 1] = [do |-> "lost", by |-> n, with |-> << >>]
    BY ONLY <1>10, <1>14, <2>1, Started
  <2> QED BY ONLY <2>2
<1>16. /\ TodoTyped(todo', objs') /\ Follows(todo', new, todo)
       /\ Waits(todo', cmdstack', objs') /\ Firsts(todo', cmdstack')
  <2>1. ~ Pops(head)
    BY ONLY <1>2 DEF Pops
  <2>2. todo' = new \o rest
    BY ONLY <1>9, <1>14
  <2>3. Len(cmdstack') \in Nat /\ Len(cmdstack) <= Len(cmdstack')
    BY ONLY <1>12
  <2> QED BY ONLY <1>1, <1>2, <1>11, <1>12, <1>15, <2>1, <2>2, <2>3, Carried
<1>17. Typed'
  BY ONLY <1>5, <1>9, <1>11, <1>13, <1>16 DEF Typed
<1>18. Chained(todo', pp')
  <2>1. Len(s) + 1 \in 1 .. Len(todo') /\ todo'[Len(s) + 1].do = "lost"
    BY ONLY <1>15, <1>16 DEF Follows
  <2> QED BY ONLY <2>1 DEF Chained
<1>19. Due(todo', cmdstack', objs', pp', prompted')
  <2>1. Len(cmdstack') # 1
    BY ONLY <1>12
  <2>2. Len(<<1>>) = 1
    BY ONLY TRUE
  <2> QED BY ONLY <2>1, <2>2 DEF Due
<1> QED BY ONLY <1>12, <1>16, <1>17, <1>18, <1>19 DEF Prompting

\* Why the rest of a chain will be called, and why a prompt is due.
Calls(new, ch2) == \/ head.do \notin {"lost", "call"} /\ ch2 = pp
                   \/ ch2 = << >>
                   \/ \E k \in 1 .. Len(new) : new[k].do \in {"lost", "call"}
\* A prompt, if the shell is alone, is due among the new steps.
Prompt(new, os2, ch2, pr2) ==
  \/ cmdstack = <<1>> => pr2 /\ os2[1].pending = << >>
  \/ \E k \in 1 .. Len(new) : Brings(new[k], ch2)
  \/ ~ Brings(head, pp) /\ (pp # << >> => ch2 # << >>) /\ (prompted => pr2)
     /\ os2[1].pending = objs[1].pending
  \/ ch2 # << >>

\* The invariant after a step, part by part.
LEMMA Concluded ==
  ASSUME Prompting, todo # << >>, ~ Pops(head), NEW os2, ObjectsTyped(os2), Kept(objs, os2),
         NEW new, TodoTyped(new, os2), Waits(new, cmdstack, os2), Firsts(new, cmdstack),
         \A k \in 1 .. Len(new) : ~ Pops(new[k]),
         NEW q2, q2 = new \o rest, NEW ch2 \in Seq(Callable), NEW pr2,
         Calls(new, ch2), Prompt(new, os2, ch2, pr2)
  PROVE  Prompts(os2, cmdstack, ch2, q2, pr2)
<1>1. /\ Typed /\ Bottom(cmdstack) /\ Waits(todo, cmdstack, objs) /\ Firsts(todo, cmdstack)
      /\ Chained(todo, pp) /\ Due(todo, cmdstack, objs, pp, prompted)
  BY ONLY Prompting DEF Prompting
<1>2. cmdstack \in Seq(1 .. Len(os2)) /\ Len(cmdstack) \in Nat
  <2>1. 1 .. Len(objs) \subseteq 1 .. Len(os2)
    BY ONLY Kept(objs, os2) DEF Kept
  <2> QED BY ONLY <1>1, <2>1, SeqMonotonic DEF Typed, Bottom
<1>3. TodoTyped(q2, os2) /\ Follows(q2, new, todo) /\ Waits(q2, cmdstack, os2) /\ Firsts(q2, cmdstack)
  <2>1. Len(cmdstack) <= Len(cmdstack)
    BY ONLY <1>2
  <2> QED BY ONLY <1>1, <1>2, <2>1, Carried, todo # << >>, ~ Pops(head), ObjectsTyped(os2),
                  Kept(objs, os2), TodoTyped(new, os2), Waits(new, cmdstack, os2),
                  Firsts(new, cmdstack), \A k \in 1 .. Len(new) : ~ Pops(new[k]), q2 = new \o rest
<1>4. head = todo[1]
  BY ONLY <1>1, HeadItem, todo # << >>
<1>5. Chained(q2, ch2)
  <2>1. ASSUME head.do \notin {"lost", "call"}, ch2 = pp PROVE Chained(q2, ch2)
    BY ONLY <1>1, <1>3, <1>4, <2>1, ChainedGo
  <2>2. ASSUME ch2 = << >> PROVE Chained(q2, ch2)
    BY ONLY <2>2 DEF Chained
  <2>3. ASSUME NEW k \in 1 .. Len(new), new[k].do \in {"lost", "call"} PROVE Chained(q2, ch2)
    <3>1. k \in 1 .. Len(q2) /\ q2[k] = new[k]
      BY ONLY <1>3, k \in 1 .. Len(new) DEF Follows
    <3> QED BY ONLY <2>3, <3>1 DEF Chained
  <2> QED BY ONLY <2>1, <2>2, <2>3, Calls(new, ch2) DEF Calls
<1>6. Due(q2, cmdstack, os2, ch2, pr2)
  <2>1. ASSUME cmdstack = << 1 >> => pr2 /\ os2[1].pending = << >>
        PROVE  Due(q2, cmdstack, os2, ch2, pr2)
    BY ONLY <2>1 DEF Due
  <2>2. ASSUME NEW k \in 1 .. Len(new), Brings(new[k], ch2) PROVE Due(q2, cmdstack, os2, ch2, pr2)
    BY ONLY <1>3, <2>2, ComingFirst DEF Due
  <2>3. ASSUME ~ Brings(head, pp), pp # << >> => ch2 # << >>, prompted => pr2,
               os2[1].pending = objs[1].pending
        PROVE  Due(q2, cmdstack, os2, ch2, pr2)
    <3>1. ASSUME Coming(todo, pp) PROVE Coming(q2, ch2)
      BY ONLY <1>3, <1>4, <2>3, <3>1, ComingGo
    <3> QED BY ONLY <1>1, <2>3, <3>1 DEF Due
  <2>4. ASSUME ch2 # << >> PROVE Due(q2, cmdstack, os2, ch2, pr2)
    BY ONLY <1>5, <2>4, ComingChain DEF Due
  <2> QED BY ONLY <2>1, <2>2, <2>3, <2>4, Prompt(new, os2, ch2, pr2) DEF Prompt
<1> QED BY ONLY <1>1, <1>2, <1>3, <1>5, <1>6, ObjectsTyped(os2), ch2 \in Seq(Callable) DEF Prompts

\* Objects that do not change.
LEMMA KeptSelf == ASSUME NEW os, ObjectsTyped(os) PROVE Kept(os, os)
BY DEF ObjectsTyped, Kept

\* The two forms in which it is used: no step in front, or one.
LEMMA ConcludedNone ==
  ASSUME Prompting, todo # << >>, ~ Pops(head), NEW os2, ObjectsTyped(os2), Kept(objs, os2),
         NEW q2, q2 = << >> \o rest, NEW ch2 \in Seq(Callable), NEW pr2,
         Calls(<< >>, ch2), Prompt(<< >>, os2, ch2, pr2)
  PROVE  Prompts(os2, cmdstack, ch2, q2, pr2)
<1>1. PICK new : new = << >>
  BY ONLY TRUE
<1>2. /\ TodoTyped(new, os2) /\ Waits(new, cmdstack, os2) /\ Firsts(new, cmdstack)
      /\ \A k \in 1 .. Len(new) : ~ Pops(new[k])
  BY ONLY <1>1, NoneNew
<1> QED BY ONLY <1>1, <1>2, Concluded, Prompting, todo # << >>, ~ Pops(head), ObjectsTyped(os2),
                Kept(objs, os2), q2 = << >> \o rest, ch2 \in Seq(Callable),
                Calls(<< >>, ch2), Prompt(<< >>, os2, ch2, pr2)

\* The same, for one new step.
LEMMA ConcludedOne ==
  ASSUME Prompting, todo # << >>, ~ Pops(head), NEW os2, ObjectsTyped(os2), Kept(objs, os2),
         NEW item \in Items, Sound(item, os2),
         item.do \notin {"unsub", "unshell", "queue", "sub", "insert"},
         item.do = "parse" => item.by = cmdstack[Len(cmdstack)],
         NEW q2, q2 = <<item>> \o rest, NEW ch2 \in Seq(Callable), NEW pr2,
         Calls(<<item>>, ch2), Prompt(<<item>>, os2, ch2, pr2)
  PROVE  Prompts(os2, cmdstack, ch2, q2, pr2)
<1>1. PICK new : new = <<item>>
  BY ONLY TRUE
<1>2. Len(os2) \in Nat
  BY ONLY ObjectsTyped(os2) DEF ObjectsTyped
<1>3. /\ TodoTyped(new, os2) /\ Waits(new, cmdstack, os2) /\ Firsts(new, cmdstack)
      /\ \A k \in 1 .. Len(new) : ~ Pops(new[k])
  BY ONLY <1>1, <1>2, OneNew, item \in Items, Sound(item, os2),
          item.do \notin {"unsub", "unshell", "queue", "sub", "insert"},
          item.do = "parse" => item.by = cmdstack[Len(cmdstack)]
<1> QED BY ONLY <1>1, <1>3, Concluded, Prompting, todo # << >>, ~ Pops(head), ObjectsTyped(os2),
                Kept(objs, os2), q2 = <<item>> \o rest, ch2 \in Seq(Callable),
                Calls(<<item>>, ch2), Prompt(<<item>>, os2, ch2, pr2)

\* The head, if it is not the step that calls the chain, is not the one that brings a
\* prompt.
LEMMA CallsPrompts ==
  ASSUME NEW item, NEW os2, NEW ch2, NEW pr2
  PROVE  /\ item.do \in {"lost", "call"} => Calls(<<item>>, ch2)
         /\ Brings(item, ch2) => Prompt(<<item>>, os2, ch2, pr2)
<1>1. 1 \in 1 .. Len(<<item>>) /\ <<item>>[1] = item
  BY ONLY TRUE
<1>2. PICK q : q = <<item>>
  BY ONLY TRUE
<1>3. item.do \in {"lost", "call"} => Calls(q, ch2)
  BY ONLY <1>1, <1>2 DEF Calls
<1>4. Brings(item, ch2) => Prompt(q, os2, ch2, pr2)
  BY ONLY <1>1, <1>2 DEF Prompt
<1> QED BY ONLY <1>2, <1>3, <1>4

\* The rest of a chain is called.
LEMMA LostStep == ASSUME Prompting, outConnectionLost PROVE Prompting'
<1>1. Typed
  BY ONLY Prompting DEF Prompting
<1>2. todo # << >> /\ head.do = "lost" /\ ~ Pops(head)
  BY ONLY outConnectionLost DEF outConnectionLost, Doing, Pops
<1>3. ObjectsTyped(objs) /\ pp \in Seq(Callable) /\ Kept(objs, objs)
  BY ONLY <1>1, KeptSelf DEF Typed
<1>4. objs' = objs /\ cmdstack' = cmdstack /\ pp' = pp /\ prompted' = prompted
  BY ONLY outConnectionLost DEF outConnectionLost
<1>5. CASE pp = << >>
  <2>1. todo' = << >> \o rest
    BY ONLY <1>5, outConnectionLost DEF outConnectionLost, Then
  <2>2. Calls(<< >>, pp) /\ Prompt(<< >>, objs, pp, prompted)
    <3>1. ~ Brings(head, pp)
      BY ONLY <1>2, <1>5 DEF Brings
    <3> QED BY ONLY <1>5, <3>1 DEF Calls, Prompt
  <2>3. Prompts(objs, cmdstack, pp, todo', prompted)
    BY ONLY <1>2, <1>3, <2>1, <2>2, ConcludedNone, Prompting
  <2> QED BY ONLY <1>4, <2>3, PromptsNow
<1>6. CASE pp # << >>
  <2>1. PICK item : item = [do |-> "call", by |-> head.by, with |-> pp]
    BY ONLY TRUE
  <2>2. todo' = <<item>> \o rest
    BY ONLY <1>6, <2>1, outConnectionLost DEF outConnectionLost, Then, Item
  <2>3. item \in Items /\ Sound(item, objs)
    <3>1. head.by \in 1 .. Len(objs) /\ head.by \in Nat
      BY ONLY <1>1, <1>2, HeadItem
    <3> QED BY ONLY <1>3, <1>6, <2>1, <3>1, Withs0 DEF Items, Sound, Steps
  <2>4. Calls(<<item>>, pp) /\ Prompt(<<item>>, objs, pp, prompted)
    BY ONLY <2>1, CallsPrompts DEF Brings
  <2>5. Prompts(objs, cmdstack, pp, todo', prompted)
    <3>1. item.do \notin {"unsub", "unshell", "queue", "sub", "insert", "parse"}
      BY ONLY <2>1
    <3> QED BY ONLY <1>2, <1>3, <2>2, <2>3, <2>4, <3>1, ConcludedOne, Prompting
  <2> QED BY ONLY <1>4, <2>5, PromptsNow
<1> QED BY ONLY <1>5, <1>6

\* What is on top of a stack of two or more is not the session's own shell.
LEMMA TopItem ==
  ASSUME Typed, Bottom(cmdstack), Last(cmdstack) # 1
  PROVE  /\ cmdstack # << >> /\ Len(cmdstack) >= 2 /\ Len(cmdstack) \in Nat
         /\ cmdstack \in Seq(1 .. Len(objs)) /\ Bottom(Front(cmdstack)) /\ Front(cmdstack) # << >>
         /\ Len(Front(cmdstack)) = Len(cmdstack) - 1
         /\ \A i \in 1 .. (Len(cmdstack) - 1) : Front(cmdstack)[i] = cmdstack[i]
         /\ Last(cmdstack) = cmdstack[Len(cmdstack)]
<1>1. cmdstack \in Seq(1 .. Len(objs)) /\ Len(cmdstack) \in Nat \ {0} /\ cmdstack[1] = 1
  BY ONLY Typed, Bottom(cmdstack) DEF Typed, Bottom
<1>2. cmdstack # << >>
  BY ONLY <1>1, EmptySeq
<1>3. Last(cmdstack) = cmdstack[Len(cmdstack)]
      /\ \A i \in 1 .. (Len(cmdstack) - 1) : Front(cmdstack)[i] = cmdstack[i]
  BY ONLY <1>1, <1>2, Dropped
<1>4. Len(cmdstack) >= 2
  BY ONLY <1>1, <1>3, Last(cmdstack) # 1
<1>5. Bottom(Front(cmdstack)) /\ Front(cmdstack) # << >> /\ Len(Front(cmdstack)) = Len(cmdstack) - 1
  BY ONLY <1>1, <1>4, Bottom(cmdstack), BottomPop
<1> QED BY ONLY <1>1, <1>2, <1>3, <1>4, <1>5

\* Nobody is on the stack twice.
LEMMA NotBottomTwice ==
  ASSUME NEW st, Len(st) # 1
  PROVE  st # <<1>>
BY ONLY Len(st) # 1

\* A command exits, and is the top of the stack.
LEMMA ExitingStep == ASSUME Prompting, ExitStep, Clean' PROVE Prompting'
<1>1. /\ Typed /\ Bottom(cmdstack) /\ Waits(todo, cmdstack, objs) /\ Firsts(todo, cmdstack)
      /\ Chained(todo, pp)
  BY ONLY Prompting DEF Prompting
<1>2. todo # << >> /\ head.do = "exit"
  BY ONLY ExitStep DEF ExitStep, Doing
<1>3. cmdstack # << >>
  BY ONLY <1>1, EmptySeq DEF Bottom
<1>4. /\ cmdstack' = Front(cmdstack) /\ todo' = Resume(Front(cmdstack)) \o rest
      /\ objs' = objs /\ pp' = pp /\ prompted' = prompted
      /\ Last(cmdstack) = head.by
  BY ONLY <1>3, ExitStep, Clean' DEF ExitStep, Then, Clean
<1>5. head.by \in 1 .. Len(objs) /\ objs[head.by].cmd \in Programs
  BY ONLY <1>1, <1>2, HeadItem DEF Sound, Steps
<1>6. ObjectsTyped(objs) /\ objs[1].cmd = "shell" /\ Len(objs) \in Nat
  BY ONLY <1>1 DEF Typed, ObjectsTyped
<1>7. Last(cmdstack) # 1
  BY ONLY <1>4, <1>5, <1>6, ShellsNoPrograms DEF Shells
<1>8. PICK f : f = Front(cmdstack)
  BY ONLY TRUE
<1>9. Bottom(f) /\ f # << >>
  BY ONLY <1>1, <1>7, <1>8, TopItem
<1>10. ASSUME NEW k \in 2 .. Len(todo), Pops(todo[k]) PROVE Pushed(todo[k]) # Last(cmdstack)
  <2>1. Stacked(todo[k], cmdstack, objs)
    BY ONLY <1>1, k \in 2 .. Len(todo) DEF Waits
  <2>2. objs[Pushed(todo[k])].cmd = "subshell"
    BY ONLY <1>10, <2>1 DEF Stacked, Pops, Pushed
  <2> QED BY ONLY <1>4, <1>5, <2>2, ShellsNoPrograms DEF Shells
<1>11. PICK new : new = Resume(f)
  BY ONLY TRUE
<1>12. /\ TodoTyped(new, objs) /\ Firsts(new, f) /\ \A k \in 1 .. Len(new) : ~ Pops(new[k])
       /\ f = <<1>> => 1 \in 1 .. Len(new) /\ Brings(new[1], pp)
  <2>1. CASE IsShell(Last(f))
    <3>1. PICK item : item = [do |-> "run", by |-> Last(f), with |-> << >>]
      BY ONLY TRUE
    <3>2. new = <<item>>
      BY ONLY <1>9, <1>11, <2>1, <3>1 DEF Resume, Item
    <3>3. Last(f) \in 1 .. Len(objs)
      <4>1. f \in Seq(1 .. Len(objs)) /\ Last(f) = f[Len(f)] /\ Len(f) \in Nat \ {0}
        BY ONLY <1>1, <1>3, <1>8, <1>9, Dropped DEF Typed
      <4> QED BY ONLY <4>1, ElementOfSeq
    <3>4. item \in Items /\ Sound(item, objs)
      BY ONLY <1>6, <3>1, <3>3, Withs0 DEF Items, Sound, Steps
    <3>5. /\ TodoTyped(<<item>>, objs) /\ Firsts(<<item>>, f)
          /\ \A k \in 1 .. Len(<<item>>) : ~ Pops(<<item>>[k])
          /\ Len(<<item>>) = 1 /\ <<item>>[1] = item
      <4>1. item.do \notin {"unsub", "unshell", "queue", "sub", "insert", "parse"}
        BY ONLY <3>1
      <4> QED BY ONLY <1>6, <3>4, <4>1, OneNew
    <3>6. f = <<1>> => item.by = 1
      BY ONLY <3>1 DEF Last
    <3>7. f = <<1>> => Brings(item, pp)
      BY ONLY <3>1, <3>6 DEF Brings
    <3> QED BY ONLY <3>2, <3>5, <3>7
  <2>2. CASE ~ IsShell(Last(f))
    <3>1. new = << >>
      BY ONLY <1>11, <2>2 DEF Resume
    <3>2. f # <<1>>
      BY ONLY <1>6, <2>2 DEF IsShell, Last
    <3> QED BY ONLY <3>1, <3>2, NoneNew
  <2> QED BY ONLY <2>1, <2>2
<1>13. /\ TodoTyped(todo', objs) /\ Follows(todo', new, todo) /\ Waits(todo', f, objs)
       /\ f \in Seq(1 .. Len(objs))
  <2>1. todo' = new \o rest
    BY ONLY <1>4, <1>8, <1>11
  <2>2. TodoTyped(new, objs) /\ \A k \in 1 .. Len(new) : ~ Pops(new[k])
    BY ONLY <1>12
  <2> QED BY ONLY <1>1, <1>2, <1>3, <1>8, <1>10, <2>1, <2>2, Popped
<1>14. head = todo[1]
  BY ONLY <1>1, <1>2, HeadItem
<1>15. Firsts(todo', f)
  BY ONLY <1>1, <1>2, <1>12, <1>13, <1>14, FirstsGo
<1>16. Chained(todo', pp)
  BY ONLY <1>1, <1>2, <1>13, <1>14, ChainedGo
<1>17. Due(todo', f, objs, pp, prompted)
  <2>1. ASSUME f = << 1 >> PROVE Coming(todo', pp)
    BY ONLY <1>12, <1>13, <2>1, ComingFirst
  <2> QED BY ONLY <2>1 DEF Due
<1>18. Prompts(objs, f, pp, todo', prompted)
  BY ONLY <1>1, <1>6, <1>9, <1>13, <1>15, <1>16, <1>17 DEF Prompts, Typed
<1> QED BY ONLY <1>4, <1>8, <1>18, PromptsNow

\* The steps that pop a shell of another's own.
LEMMA Unstacked ==
  ASSUME Prompting, todo # << >>, Pops(head), Pushed(head) = Last(cmdstack), Last(cmdstack) # 1,
         NEW q2, q2 = << >> \o rest
  PROVE  /\ TodoTyped(q2, objs) /\ Follows(q2, << >>, todo) /\ Waits(q2, Front(cmdstack), objs)
         /\ Front(cmdstack) \in Seq(1 .. Len(objs)) /\ Bottom(Front(cmdstack)) /\ Chained(q2, pp)
<1>1. /\ Typed /\ Bottom(cmdstack) /\ Waits(todo, cmdstack, objs) /\ Chained(todo, pp)
  BY ONLY Prompting DEF Prompting
<1>2. cmdstack # << >> /\ Bottom(Front(cmdstack))
  BY ONLY <1>1, TopItem, Last(cmdstack) # 1
<1>3. head = todo[1] /\ 1 \in 1 .. Len(todo)
  BY ONLY <1>1, HeadItem, todo # << >>
<1>4. ASSUME NEW k \in 2 .. Len(todo), Pops(todo[k]) PROVE Pushed(todo[k]) # Last(cmdstack)
  <2>1. k \in 1 .. Len(todo) /\ 1 # k
    BY ONLY k \in 2 .. Len(todo)
  <2>2. Pushed(todo[1]) # Pushed(todo[k])
    BY ONLY <1>1, <1>3, <1>4, <2>1, Pops(head) DEF Waits
  <2> QED BY ONLY <1>3, <2>2, Pushed(head) = Last(cmdstack)
<1>5. PICK new : new = << >>
  BY ONLY TRUE
<1>6. TodoTyped(new, objs) /\ \A k \in 1 .. Len(new) : ~ Pops(new[k])
  BY ONLY <1>5, NoneNew
<1>7. /\ TodoTyped(q2, objs) /\ Follows(q2, new, todo) /\ Waits(q2, Front(cmdstack), objs)
      /\ Front(cmdstack) \in Seq(1 .. Len(objs))
  BY ONLY <1>1, <1>2, <1>4, <1>5, <1>6, Popped, todo # << >>, q2 = << >> \o rest
<1>8. Chained(q2, pp)
  BY ONLY <1>1, <1>3, <1>7, ChainedGo, Pops(head) DEF Pops
<1> QED BY ONLY <1>2, <1>5, <1>7, <1>8

\* An sh -c is done.
LEMMA ShDoneStep == ASSUME Prompting, ShDone, Clean' PROVE Prompting'
<1>1. /\ Typed /\ Bottom(cmdstack) /\ Waits(todo, cmdstack, objs) /\ Firsts(todo, cmdstack)
  BY ONLY Prompting DEF Prompting
<1>2. todo # << >> /\ head.do = "unshell" /\ Pops(head)
  BY ONLY ShDone DEF ShDone, Doing, Pops
<1>3. cmdstack # << >>
  BY ONLY <1>1, EmptySeq DEF Bottom
<1>4. /\ cmdstack' = Front(cmdstack) /\ todo' = << >> \o rest
      /\ objs' = objs /\ pp' = pp /\ prompted' = prompted
      /\ Last(cmdstack) = head.by
  BY ONLY <1>3, ShDone, Clean' DEF ShDone, Then, Clean
<1>5. head = todo[1] /\ 1 \in 1 .. Len(todo)
  BY ONLY <1>1, <1>2, HeadItem
<1>6. PICK n \in Nat : n = Len(cmdstack)
  BY ONLY <1>1 DEF Bottom
<1>7. n >= 3 /\ Last(cmdstack) # 1
  <2>1. Stacked(head, cmdstack, objs)
    BY ONLY <1>1, <1>5 DEF Waits
  <2>2. PICK i \in 3 .. n : cmdstack[i] = head.by
    BY ONLY <1>2, <1>6, <2>1 DEF Stacked, Deep
  <2>3. cmdstack[1] = 1 /\ \A j, k \in 1 .. n : j # k => cmdstack[j] # cmdstack[k]
    BY ONLY <1>1, <1>6 DEF Bottom
  <2>4. 1 \in 1 .. n /\ i \in 1 .. n /\ i # 1 /\ n >= 3
    BY ONLY n \in Nat, i \in 3 .. n
  <2>5. head.by # 1
    BY ONLY <2>2, <2>3, <2>4
  <2> QED BY ONLY <1>4, <2>4, <2>5
<1>8. Pushed(head) = Last(cmdstack)
  BY ONLY <1>2, <1>4 DEF Pushed
<1>9. PICK f : f = Front(cmdstack)
  BY ONLY TRUE
<1>10. PICK new : new = << >>
  BY ONLY TRUE
<1>11. /\ TodoTyped(todo', objs) /\ Follows(todo', new, todo) /\ Waits(todo', f, objs)
       /\ f \in Seq(1 .. Len(objs)) /\ Bottom(f) /\ Chained(todo', pp)
  BY ONLY <1>2, <1>4, <1>7, <1>8, <1>9, <1>10, Unstacked, Prompting
<1>12. Len(f) = n - 1
  BY ONLY <1>1, <1>6, <1>7, <1>9, TopItem
<1>13. Firsts(todo', f)
  <2>1. Firsts(new, f)
    BY ONLY <1>10, NoneNew
  <2> QED BY ONLY <1>1, <1>2, <1>5, <1>11, <2>1, FirstsGo
<1>14. Due(todo', f, objs, pp, prompted)
  <2>1. Len(f) # 1
    BY ONLY <1>6, <1>7, <1>12
  <2> QED BY ONLY <2>1, NotBottomTwice DEF Due
<1>15. Prompts(objs, f, pp, todo', prompted)
  BY ONLY <1>1, <1>11, <1>13, <1>14 DEF Prompts, Typed
<1> QED BY ONLY <1>4, <1>9, <1>15, PromptsNow

\* A $(...) is done.
LEMMA SubstitutionStep == ASSUME Prompting, SubstitutionDone, Clean' PROVE Prompting'
<1>1. /\ Typed /\ Bottom(cmdstack) /\ Waits(todo, cmdstack, objs) /\ Firsts(todo, cmdstack)
  BY ONLY Prompting DEF Prompting
<1>2. todo # << >> /\ head.do = "unsub" /\ Pops(head)
  BY ONLY SubstitutionDone DEF SubstitutionDone, Doing, Pops
<1>3. cmdstack # << >>
  BY ONLY <1>1, EmptySeq DEF Bottom
<1>4. /\ cmdstack' = Front(cmdstack) /\ todo' = << >> \o rest
      /\ objs' = objs /\ pp' = pp /\ prompted' = prompted
      /\ Last(cmdstack) = head.with[1]
  <2>1. CASE \E i \in DOMAIN objs : ~ IsShell(i)
    BY ONLY <1>3, <2>1, SubstitutionDone, Clean' DEF SubstitutionDone, Then, Clean
  <2>2. CASE ~ \E i \in DOMAIN objs : ~ IsShell(i)
    <3>1. todo' = <<Raise>> \o todo
      BY ONLY <1>3, <2>2, SubstitutionDone DEF SubstitutionDone
    <3>2. Raise \in Items
      BY ONLY Withs0 DEF Raise, Item, Items, Steps
    <3>3. todo \in Seq(Items) /\ <<Raise>> \in Seq(Items) /\ Len(<<Raise>>) = 1 /\ <<Raise>>[1] = Raise
      BY ONLY <1>1, <3>2 DEF Typed, TodoTyped
    <3>4. PICK r, t : r = <<Raise>> /\ t = todo
      BY ONLY TRUE
    <3>5. Len(t) \in Nat \ {0} /\ t \in Seq(Items) /\ r \in Seq(Items) /\ Len(r) = 1 /\ r[1] = Raise
      BY ONLY <1>2, <3>3, <3>4, EmptySeq
    <3>6. /\ Len(r \o t) = Len(r) + Len(t) /\ r \o t \in Seq(Items)
          /\ \A i \in 1 .. Len(r) + Len(t) : (r \o t)[i] = IF i <= Len(r) THEN r[i] ELSE t[i - Len(r)]
      BY ONLY <3>5, ConcatProperties
    <3>7. (r \o t)[1] = Raise /\ r \o t # << >>
      BY ONLY <3>5, <3>6
    <3>8. todo' # << >> /\ Head(todo') = Raise
      BY ONLY <3>1, <3>4, <3>6, <3>7, HeadTailProperties, EmptySeq
    <3>9. Doing("raise")'
      BY ONLY <3>8 DEF Doing, head, Raise, Item
    <3> QED BY ONLY <3>9, Clean' DEF Clean
  <2> QED BY ONLY <2>1, <2>2
<1>5. head = todo[1] /\ 1 \in 1 .. Len(todo)
  BY ONLY <1>1, <1>2, HeadItem
<1>6. PICK n \in Nat : n = Len(cmdstack)
  BY ONLY <1>1 DEF Bottom
<1>7. n >= 2 /\ Last(cmdstack) # 1 /\ cmdstack[n - 1] = head.by
  <2>1. Stacked(head, cmdstack, objs)
    BY ONLY <1>1, <1>5 DEF Waits
  <2>2. PICK i \in 1 .. (n - 1) : cmdstack[i] = head.by /\ cmdstack[i + 1] = head.with[1]
    BY ONLY <1>2, <1>6, <2>1 DEF Stacked, Above
  <2>3. cmdstack[1] = 1 /\ \A j, k \in 1 .. n : j # k => cmdstack[j] # cmdstack[k]
    BY ONLY <1>1, <1>6 DEF Bottom
  <2>4. 1 \in 1 .. n /\ i + 1 \in 1 .. n /\ i + 1 # 1 /\ n \in 1 .. n /\ n >= 2
    BY ONLY n \in Nat, i \in 1 .. (n - 1)
  <2>5. head.with[1] # 1
    BY ONLY <2>2, <2>3, <2>4
  <2>6. Last(cmdstack) = cmdstack[n]
    BY ONLY <1>6 DEF Last
  <2>7. i + 1 = n
    BY ONLY <1>4, <2>2, <2>3, <2>4, <2>6
  <2>8. i = n - 1
    BY ONLY <2>7, n \in Nat, i \in 1 .. (n - 1)
  <2> QED BY ONLY <1>4, <2>2, <2>4, <2>5, <2>8
<1>8. Pushed(head) = Last(cmdstack)
  BY ONLY <1>2, <1>4 DEF Pushed
<1>9. PICK f : f = Front(cmdstack)
  BY ONLY TRUE
<1>10. PICK new : new = << >>
  BY ONLY TRUE
<1>11. /\ TodoTyped(todo', objs) /\ Follows(todo', new, todo) /\ Waits(todo', f, objs)
       /\ f \in Seq(1 .. Len(objs)) /\ Bottom(f) /\ Chained(todo', pp)
  BY ONLY <1>2, <1>4, <1>7, <1>8, <1>9, <1>10, Unstacked, Prompting
<1>12. Len(f) = n - 1 /\ f[n - 1] = cmdstack[n - 1]
  <2>1. Len(f) = n - 1 /\ \A i \in 1 .. (n - 1) : f[i] = cmdstack[i]
    BY ONLY <1>1, <1>6, <1>7, <1>9, TopItem
  <2>2. n - 1 \in 1 .. (n - 1)
    BY ONLY <1>7, n \in Nat
  <2> QED BY ONLY <2>1, <2>2
<1>13. Resumed(todo, 1)
  BY ONLY <1>1, <1>2, <1>5 DEF Waits
<1>14. Firsts(todo', f)
  <2>1. todo[1].by = f[Len(f)]
    BY ONLY <1>5, <1>7, <1>12
  <2> QED BY ONLY <1>1, <1>2, <1>5, <1>10, <1>11, <1>13, <2>1, FirstsPop
<1>15. Due(todo', f, objs, pp, prompted)
  <2>1. ASSUME f = << 1 >> PROVE Coming(todo', pp)
    <3>1. n - 1 = 1 /\ head.by = 1
      BY ONLY <1>7, <1>12, <2>1, n \in Nat
    <3>2. todo[1 + 1].do = "parse" /\ todo[1 + 1].by = 1 /\ 1 < Len(todo)
      BY ONLY <1>5, <1>13, <3>1 DEF Resumed
    <3>3. Len(new) + 2 - 1 \in 1 .. Len(todo') /\ todo'[Len(new) + 2 - 1] = todo[2]
      BY ONLY <1>11, <3>2 DEF Follows
    <3>4. PICK j \in 1 .. Len(todo') : todo'[j] = todo[2]
      BY ONLY <3>3
    <3> QED BY ONLY <3>2, <3>4 DEF Coming, Brings
  <2> QED BY ONLY <2>1 DEF Due
<1>16. Prompts(objs, f, pp, todo', prompted)
  BY ONLY <1>1, <1>11, <1>14, <1>15 DEF Prompts, Typed
<1> QED BY ONLY <1>4, <1>9, <1>16, PromptsNow

\* An exception is raised at once, and what it spoils is the runs' own.
LEMMA RaiseFirst ==
  ASSUME Typed, todo # << >>, todo' = <<Raise>> \o rest
  PROVE  ~ Clean'
<1>1. PICK r, t : r = <<Raise>> /\ t = rest
  BY ONLY TRUE
<1>2. Raise \in Items
  BY ONLY Withs0 DEF Raise, Item, Items, Steps
<1>3. t \in Seq(Items) /\ Len(t) \in Nat
  BY ONLY <1>1, HeadTailProperties, LenProperties, Typed, todo # << >> DEF Typed, TodoTyped, rest
<1>4. r \in Seq(Items) /\ Len(r) = 1 /\ r[1] = Raise
  BY ONLY <1>1, <1>2
<1>5. /\ Len(r \o t) = Len(r) + Len(t) /\ r \o t \in Seq(Items)
      /\ \A i \in 1 .. Len(r) + Len(t) : (r \o t)[i] = IF i <= Len(r) THEN r[i] ELSE t[i - Len(r)]
  BY ONLY <1>3, <1>4, ConcatProperties
<1>6. (r \o t)[1] = Raise /\ r \o t # << >>
  BY ONLY <1>3, <1>4, <1>5
<1>7. todo' # << >> /\ Head(todo') = Raise
  BY ONLY <1>1, <1>5, <1>6, HeadTailProperties, EmptySeq, todo' = <<Raise>> \o rest
<1>8. Doing("raise")'
  BY ONLY <1>7 DEF Doing, head, Raise, Item
<1> QED BY ONLY <1>8 DEF Clean

\* A shell runs what is pending.
LEMMA RunStep == ASSUME Prompting, runCommand, Clean' PROVE Prompting'
<1>1. Typed
  BY ONLY Prompting DEF Prompting
<1>2. todo # << >> /\ head.do = "run" /\ ~ Pops(head)
  BY ONLY runCommand DEF runCommand, Doing, Pops
<1>3. ObjectsTyped(objs) /\ pp \in Seq(Callable) /\ Kept(objs, objs) /\ objs[1].cmd = "shell"
  BY ONLY <1>1, KeptSelf DEF Typed, ObjectsTyped
<1>4. /\ head.by \in 1 .. Len(objs) /\ head.by \in Nat /\ head \in Items /\ Sound(head, objs)
      /\ Len(objs) \in Nat \ {0}
  BY ONLY <1>1, <1>2, HeadItem
<1>5. cmdstack' = cmdstack /\ pp' = pp
  BY ONLY runCommand DEF runCommand
<1>6. /\ me \in Objects /\ me.cmd \in Shells \cup Programs /\ me.pending \in Seq(Seq(Word)) /\ Quiet(me)
  BY ONLY <1>3, <1>4, ObjectFields DEF me
<1>7. head.by # 1 => ~ Brings(head, pp)
  BY ONLY <1>2 DEF Brings
<1>8. CASE me.pending = << >>
  <2>1. /\ todo' = << >> \o rest /\ objs' = objs
        /\ prompted' = (prompted \/ (kind # "exec" /\ pp = << >> /\ me.cmd = "shell"))
        /\ pp = << >> /\ Len(cmdstack) = 1 /\ kind = "exec" => conn' # "open"
    BY ONLY <1>8, runCommand DEF runCommand, Then, processEnded
  <2>2. Calls(<< >>, pp)
    BY ONLY <1>2 DEF Calls
  <2>3. Prompt(<< >>, objs, pp, prompted')
    <3>1. CASE head.by = 1 /\ kind # "exec"
      BY ONLY <1>3, <1>8, <2>1, <3>1 DEF Prompt, me
    <3>2. CASE kind = "exec" /\ pp = << >>
      <4>1. Len(cmdstack) # 1
        BY ONLY <2>1, <3>2, Clean' DEF Clean
      <4>2. cmdstack # << 1 >>
        BY ONLY <4>1
      <4> QED BY ONLY <4>2 DEF Prompt
    <3>3. CASE pp # << >>
      BY ONLY <3>3 DEF Prompt
    <3>4. CASE head.by # 1
      BY ONLY <1>7, <2>1, <3>4 DEF Prompt
    <3> QED BY ONLY <3>1, <3>2, <3>3, <3>4
  <2>4. Prompts(objs, cmdstack, pp, todo', prompted')
    BY ONLY <1>2, <1>3, <2>1, <2>2, <2>3, ConcludedNone, Prompting
  <2> QED BY ONLY <1>5, <2>1, <2>4, PromptsNow
<1>9. CASE me.pending # << >>
  <2>1. PICK left : left = Tail(me.pending)
    BY ONLY TRUE
  <2>2. left \in Seq(Seq(Word)) /\ Head(me.pending) \in Seq(Word) /\ Len(left) = Len(me.pending) - 1
        /\ Len(me.pending) \in Nat \ {0}
    BY ONLY <1>6, <1>9, <2>1, HeadTailProperties, EmptySeq
  <2>3. PICK o : o = [me EXCEPT !.pending = left]
    BY ONLY TRUE
  <2>4. o \in Objects /\ o.cmd = me.cmd /\ o.timers = me.timers /\ o.pending = left
    BY ONLY <1>6, <2>2, <2>3 DEF Objects
  <2>5. objs' = Put(objs, head.by, o)
    <3>1. objs' = [objs EXCEPT ![head.by].pending = Tail(objs[head.by].pending)]
      BY ONLY <1>9, runCommand DEF runCommand
    <3> QED BY ONLY <2>1, <2>3, <3>1 DEF me, Put
  <2>6. Quiet(o)
    BY ONLY <1>6, <2>4 DEF Quiet
  <2>7. /\ ObjectsTyped(objs') /\ Kept(objs, objs') /\ Len(objs') = Len(objs) /\ objs'[head.by] = o
        /\ \A j \in 1 .. Len(objs) : j # head.by => objs'[j] = objs[j]
    BY ONLY <1>3, <1>4, <2>4, <2>5, <2>6, Changed DEF me
  <2>8. head.by # 1 => objs'[1] = objs[1]
    BY ONLY <1>4, <2>7
  <2>9. PICK p : p = Head(me.pending)
    BY ONLY TRUE
  <2>10. PICK words : words = {p[i].cmd : i \in DOMAIN p}
    BY ONLY TRUE
  <2>11. CASE "missing" \in words
    <3>1. todo' = <<Raise>> \o rest
      BY ONLY <1>9, <2>9, <2>10, <2>11, runCommand DEF runCommand, Then
    <3> QED BY ONLY <1>1, <1>2, <3>1, RaiseFirst, Clean'
  <2>12. CASE "missing" \notin words /\ (words = {} \/ "unknown" \in words) /\ Len(me.pending) = 1
    <3>1. todo' = << >> \o rest /\ prompted' = (prompted \/ me.cmd = "shell")
      BY ONLY <1>9, <2>9, <2>10, <2>12, runCommand DEF runCommand, Then
    <3>2. left = << >>
      BY ONLY <2>2, <2>12, EmptySeq
    <3>3. Calls(<< >>, pp)
      BY ONLY <1>2 DEF Calls
    <3>4. Prompt(<< >>, objs', pp, prompted')
      <4>1. CASE head.by = 1
        BY ONLY <1>3, <2>4, <2>7, <3>1, <3>2, <4>1 DEF Prompt, me
      <4>2. CASE head.by # 1
        BY ONLY <1>7, <2>8, <3>1, <4>2 DEF Prompt
      <4> QED BY ONLY <4>1, <4>2
    <3>5. Prompts(objs', cmdstack, pp, todo', prompted')
      BY ONLY <1>2, <1>3, <2>7, <3>1, <3>3, <3>4, ConcludedNone, Prompting
    <3> QED BY ONLY <1>5, <3>5, PromptsNow
  <2>13. CASE "missing" \notin words /\ (words = {} \/ "unknown" \in words) /\ Len(me.pending) # 1
    <3>1. todo' = <<head>> \o rest /\ (prompted => prompted')
      BY ONLY <1>9, <2>9, <2>10, <2>13, runCommand DEF runCommand, Then
    <3>2. PICK item : item = head
      BY ONLY TRUE
    <3>3. item \in Items /\ Sound(item, objs')
      BY ONLY <1>2, <1>4, <2>7, <3>2 DEF Sound, Steps
    <3>4. item.do \notin {"unsub", "unshell", "queue", "sub", "insert", "parse"}
      BY ONLY <1>2, <3>2
    <3>5. Calls(<<item>>, pp)
      BY ONLY <1>2 DEF Calls
    <3>6. Prompt(<<item>>, objs', pp, prompted')
      <4>1. CASE head.by = 1
        <5>1. Brings(item, pp)
          BY ONLY <1>2, <3>2, <4>1 DEF Brings
        <5> QED BY ONLY <5>1, CallsPrompts
      <4>2. CASE head.by # 1
        BY ONLY <1>7, <2>8, <3>1, <4>2 DEF Prompt
      <4> QED BY ONLY <4>1, <4>2
    <3>7. Prompts(objs', cmdstack, pp, todo', prompted')
      BY ONLY <1>2, <1>3, <2>7, <3>1, <3>2, <3>3, <3>4, <3>5, <3>6, ConcludedOne, Prompting
    <3> QED BY ONLY <1>5, <3>7, PromptsNow
  <2>14. CASE "missing" \notin words /\ words # {} /\ "unknown" \notin words
    <3>1. PICK item : item = [do |-> "call", by |-> head.by, with |-> p]
      BY ONLY TRUE
    <3>2. todo' = <<item>> \o rest
      BY ONLY <1>9, <2>9, <2>10, <2>14, <3>1, runCommand DEF runCommand, Then, Item
    <3>3. p \in Seq(Callable) \ {<< >>}
      BY ONLY <2>2, <2>9, <2>10, <2>14, CallablePipeline
    <3>4. item \in Items /\ Sound(item, objs')
      BY ONLY <1>4, <2>7, <3>1, <3>3, Withs0 DEF Items, Sound, Steps
    <3>5. item.do \notin {"unsub", "unshell", "queue", "sub", "insert", "parse"}
      BY ONLY <3>1
    <3>6. Calls(<<item>>, pp) /\ Prompt(<<item>>, objs', pp, prompted')
      BY ONLY <3>1, CallsPrompts DEF Brings
    <3>7. Prompts(objs', cmdstack, pp, todo', prompted')
      BY ONLY <1>2, <1>3, <2>7, <3>2, <3>4, <3>5, <3>6, ConcludedOne, Prompting
    <3> QED BY ONLY <1>5, <3>7, PromptsNow
  <2> QED BY ONLY <2>11, <2>12, <2>13, <2>14
<1> QED BY ONLY <1>8, <1>9

\* A shell of another's own goes on top.
LEMMA Pushing ==
  ASSUME Typed, Bottom(cmdstack), NEW n, n = Len(objs) + 1,
         objs' = Append(objs, New("subshell", << >>)), cmdstack' = Append(cmdstack, n)
  PROVE  /\ ObjectsTyped(objs') /\ Kept(objs, objs') /\ Len(objs') = n /\ objs'[n].cmd = "subshell"
         /\ n \in Nat \ {0} /\ n \notin 1 .. Len(objs) /\ n \in 1 .. n
         /\ cmdstack' \in Seq(1 .. n) /\ Bottom(cmdstack') /\ Len(cmdstack) \in Nat \ {0}
         /\ Len(cmdstack') = Len(cmdstack) + 1 /\ cmdstack'[Len(cmdstack')] = n
         /\ \A i \in 1 .. Len(cmdstack) : cmdstack'[i] = cmdstack[i]
<1>1. /\ ObjectsTyped(objs) /\ Len(objs) \in Nat \ {0} /\ cmdstack \in Seq(1 .. Len(objs))
      /\ Len(cmdstack) \in Nat \ {0}
  BY ONLY Typed, Bottom(cmdstack) DEF Typed, ObjectsTyped, Bottom
<1>2. n \in Nat \ {0} /\ n \notin 1 .. Len(objs) /\ n \in 1 .. n /\ 1 .. Len(objs) \subseteq 1 .. n
  BY ONLY <1>1, n = Len(objs) + 1
<1>3. PICK r : r = New("subshell", << >>)
  BY ONLY TRUE
<1>4. r \in Objects /\ Quiet(r) /\ r.cmd = "subshell"
  <2>1. "subshell" \in Shells \cup Programs /\ << >> \in Arguments
    BY ONLY EmptySeq DEF Shells, Arguments
  <2>2. r \in Objects /\ Quiet(r)
    BY ONLY <1>3, <2>1, Newborn
  <2> QED BY ONLY <1>3, <2>2 DEF New
<1>5. /\ ObjectsTyped(objs') /\ Kept(objs, objs') /\ Len(objs') = Len(objs) + 1
      /\ objs'[Len(objs) + 1] = r
  <2>1. objs' = Append(objs, r)
    BY ONLY <1>3, objs' = Append(objs, New("subshell", << >>))
  <2> QED BY ONLY <1>1, <1>4, <2>1, Made
<1>6. /\ Bottom(cmdstack') /\ cmdstack'[Len(cmdstack')] = n /\ Len(cmdstack') = Len(cmdstack) + 1
      /\ \A i \in 1 .. Len(cmdstack) : cmdstack'[i] = cmdstack[i]
  BY ONLY <1>1, <1>2, BottomPush, Bottom(cmdstack), cmdstack' = Append(cmdstack, n)
<1>7. cmdstack' \in Seq(1 .. n)
  <2>1. cmdstack \in Seq(1 .. n)
    BY ONLY <1>1, <1>2, SeqMonotonic
  <2> QED BY ONLY <1>2, <2>1, Added, cmdstack' = Append(cmdstack, n)
<1> QED BY ONLY <1>1, <1>2, <1>4, <1>5, <1>6, <1>7, n = Len(objs) + 1

\* A shell of another's own is pushed.
LEMMA PushStep ==
  ASSUME Prompting, todo # << >>, ~ Pops(head), head.do \notin {"lost", "call"},
         NEW n, n = Len(objs) + 1,
         objs' = Append(objs, New("subshell", << >>)), cmdstack' = Append(cmdstack, n), pp' = pp,
         NEW new, TodoTyped(new, objs'), Waits(new, cmdstack', objs'), Firsts(new, cmdstack'),
         \A k \in 1 .. Len(new) : Pops(new[k]) => Pushed(new[k]) = n,
         todo' = new \o rest
  PROVE  Prompting'
<1>1. /\ Typed /\ Bottom(cmdstack) /\ Waits(todo, cmdstack, objs) /\ Firsts(todo, cmdstack)
      /\ Chained(todo, pp)
  BY ONLY Prompting DEF Prompting
<1>2. /\ ObjectsTyped(objs') /\ Kept(objs, objs') /\ Len(objs') = n
      /\ n \notin 1 .. Len(objs)
      /\ cmdstack' \in Seq(1 .. n) /\ Bottom(cmdstack') /\ Len(cmdstack) \in Nat \ {0}
      /\ Len(cmdstack') = Len(cmdstack) + 1
      /\ \A i \in 1 .. Len(cmdstack) : cmdstack'[i] = cmdstack[i]
  BY ONLY <1>1, Pushing, n = Len(objs) + 1, objs' = Append(objs, New("subshell", << >>)),
          cmdstack' = Append(cmdstack, n)
<1>3. /\ TodoTyped(todo', objs') /\ Follows(todo', new, todo)
      /\ Waits(todo', cmdstack', objs') /\ Firsts(todo', cmdstack')
  <2>1. Len(cmdstack') \in Nat /\ Len(cmdstack) <= Len(cmdstack')
    BY ONLY <1>2
  <2>2. \A k \in 1 .. Len(new) : Pops(new[k]) => Pushed(new[k]) \notin 1 .. Len(objs)
    BY ONLY <1>2, \A k \in 1 .. Len(new) : Pops(new[k]) => Pushed(new[k]) = n
  <2> QED BY ONLY <1>1, <1>2, <2>1, <2>2, Carried, todo # << >>, ~ Pops(head),
                  TodoTyped(new, objs'), Waits(new, cmdstack', objs'), Firsts(new, cmdstack'),
                  todo' = new \o rest
<1>4. Chained(todo', pp')
  <2>1. head = todo[1]
    BY ONLY <1>1, HeadItem, todo # << >>
  <2> QED BY ONLY <1>1, <1>3, <2>1, ChainedGo, head.do \notin {"lost", "call"}, pp' = pp
<1>5. Due(todo', cmdstack', objs', pp', prompted')
  <2>1. Len(cmdstack') # 1
    BY ONLY <1>2
  <2> QED BY ONLY <2>1, NotBottomTwice DEF Due
<1>6. pp' \in Seq(Callable)
  BY ONLY <1>1, pp' = pp DEF Typed
<1>7. Prompts(objs', cmdstack', pp', todo', prompted')
  BY ONLY <1>2, <1>3, <1>4, <1>5, <1>6 DEF Prompts
<1> QED BY ONLY <1>7, PromptsNow

\* What follows when a shell begins to read a $(...).
ReadingSteps(n, b, v, w) == <<[do |-> "parse", by |-> n, with |-> v],
                              [do |-> "unsub", by |-> b, with |-> <<n>>],
                              [do |-> "parse", by |-> b, with |-> w]>>

\* The steps of a $(...).
LEMMA ReadingNew ==
  ASSUME NEW os, ObjectsTyped(os), NEW st, Len(st) \in Nat, NEW n \in 1 .. Len(os), NEW b \in 1 .. Len(os),
         Len(st) >= 2, st[Len(st)] = n, st[Len(st) - 1] = b, os[n].cmd = "subshell",
         NEW v \in Seq(Line), NEW w \in Seq(Line),
         NEW new, new = ReadingSteps(n, b, v, w)
  PROVE  /\ TodoTyped(new, os) /\ Waits(new, st, os) /\ Firsts(new, st)
         /\ \A k \in 1 .. Len(new) : Pops(new[k]) => Pushed(new[k]) = n
<1>1. Len(os) \in Nat
  BY ONLY ObjectsTyped(os) DEF ObjectsTyped
<1>2. PICK x : x = [do |-> "parse", by |-> n, with |-> v] /\ x \in Items
  <2>1. PICK x0 : x0 = [do |-> "parse", by |-> n, with |-> v]
    BY ONLY TRUE
  <2>2. x0 \in Items
    BY ONLY <2>1, <1>1, Withs0, n \in 1 .. Len(os), v \in Seq(Line) DEF Items
  <2> QED BY ONLY <2>1, <2>2
<1>3. PICK y : y = [do |-> "unsub", by |-> b, with |-> <<n>>] /\ y \in Items
  <2>1. <<n>> \in Seq(Nat)
    BY ONLY <1>1, n \in 1 .. Len(os)
  <2>2. PICK u : u = <<n>>
    BY ONLY TRUE
  <2>3. PICK y0 : y0 = [do |-> "unsub", by |-> b, with |-> u]
    BY ONLY TRUE
  <2>4. u \in Withs /\ b \in Nat
    <3>1. u \in Seq(Nat)
      BY ONLY <2>1, <2>2
    <3>2. b \in Nat
      BY ONLY <1>1, b \in 1 .. Len(os)
    <3> QED BY ONLY <3>1, <3>2, Withs0
  <2>5. y0 \in Items
    BY ONLY <2>3, <2>4 DEF Items
  <2> QED BY ONLY <2>2, <2>3, <2>5
<1>4. PICK z : z = [do |-> "parse", by |-> b, with |-> w] /\ z \in Items
  <2>1. PICK z0 : z0 = [do |-> "parse", by |-> b, with |-> w]
    BY ONLY TRUE
  <2>2. z0 \in Items
    BY ONLY <2>1, <1>1, Withs0, b \in 1 .. Len(os), w \in Seq(Line) DEF Items
  <2> QED BY ONLY <2>1, <2>2
<1>5. /\ new \in Seq(Items) /\ Len(new) = 3 /\ new[1] = x /\ new[2] = y /\ new[3] = z
  <2>1. new = <<x, y, z>>
    BY ONLY <1>2, <1>3, <1>4, new = ReadingSteps(n, b, v, w) DEF ReadingSteps
  <2> QED BY ONLY <2>1, <1>2, <1>3, <1>4
<1>6. x.do = "parse" /\ x.by = n /\ y.do = "unsub" /\ y.by = b /\ y.with[1] = n /\ z.do = "parse" /\ z.by = b
  BY ONLY <1>2, <1>3, <1>4
<1>7. Sound(x, os) /\ Sound(y, os) /\ Sound(z, os)
  BY ONLY <1>2, <1>3, <1>4, n \in 1 .. Len(os), b \in 1 .. Len(os), v \in Seq(Line), w \in Seq(Line)
     DEF Sound, Steps
<1>8. \A k \in 1 .. Len(new) : k \in {1, 2, 3}
  BY ONLY <1>5
<1>9. TodoTyped(new, os)
  BY ONLY <1>5, <1>7, <1>8 DEF TodoTyped
<1>10. \A k \in 1 .. Len(new) : (Pops(new[k]) => k = 2) /\ (new[k].do = "unsub" => k = 2)
                                /\ new[k].do \in {"parse", "unsub"}
  BY ONLY <1>5, <1>6, <1>8 DEF Pops
<1>11. Stacked(y, st, os) /\ Stacked(x, st, os) /\ Stacked(z, st, os)
  <2>1. Above(st, b, n)
    <3>1. Len(st) - 1 \in 1 .. (Len(st) - 1) /\ (Len(st) - 1) + 1 = Len(st)
      BY ONLY Len(st) \in Nat, Len(st) >= 2
    <3> QED BY ONLY <3>1, st[Len(st)] = n, st[Len(st) - 1] = b DEF Above
  <2> QED BY ONLY <1>6, <2>1, os[n].cmd = "subshell" DEF Stacked
<1>12. Resumed(new, 2)
  BY ONLY <1>5, <1>6 DEF Resumed
<1>13. Waits(new, st, os)
  BY ONLY <1>5, <1>8, <1>10, <1>11, <1>12 DEF Waits
<1>14. Reads(new, 1, st) /\ Reads(new, 3, st)
  BY ONLY <1>5, <1>6, st[Len(st)] = n DEF Reads
<1>15. Firsts(new, st)
  <2>1. new[2].do # "parse"
    BY ONLY <1>5, <1>6
  <2> QED BY ONLY <1>8, <1>10, <1>14, <2>1 DEF Firsts
<1>16. \A k \in 1 .. Len(new) : Pops(new[k]) => Pushed(new[k]) = n
  BY ONLY <1>5, <1>6, <1>10 DEF Pushed
<1> QED BY ONLY <1>9, <1>13, <1>15, <1>16

\* And for an sh -c.
ShSteps(n, v) == <<[do |-> "parse", by |-> n, with |-> v], [do |-> "unshell", by |-> n, with |-> << >>]>>

\* The steps of an sh -c.
LEMMA SubNew ==
  ASSUME NEW os, ObjectsTyped(os), NEW st, Len(st) \in Nat, NEW n \in 1 .. Len(os),
         Len(st) >= 3, st[Len(st)] = n, os[n].cmd = "subshell", NEW v \in Seq(Line),
         NEW new, new = ShSteps(n, v)
  PROVE  /\ TodoTyped(new, os) /\ Waits(new, st, os) /\ Firsts(new, st)
         /\ \A k \in 1 .. Len(new) : Pops(new[k]) => Pushed(new[k]) = n
<1>1. Len(os) \in Nat
  BY ONLY ObjectsTyped(os) DEF ObjectsTyped
<1>2. PICK x : x = [do |-> "parse", by |-> n, with |-> v] /\ x \in Items
  <2>1. PICK x0 : x0 = [do |-> "parse", by |-> n, with |-> v]
    BY ONLY TRUE
  <2>2. x0 \in Items
    BY ONLY <2>1, <1>1, Withs0, n \in 1 .. Len(os), v \in Seq(Line) DEF Items
  <2> QED BY ONLY <2>1, <2>2
<1>3. PICK y : y = [do |-> "unshell", by |-> n, with |-> << >>] /\ y \in Items
  <2>1. PICK y0 : y0 = [do |-> "unshell", by |-> n, with |-> << >>]
    BY ONLY TRUE
  <2>2. y0 \in Items
    BY ONLY <2>1, <1>1, Withs0, n \in 1 .. Len(os) DEF Items
  <2> QED BY ONLY <2>1, <2>2
<1>4. new \in Seq(Items) /\ Len(new) = 2 /\ new[1] = x /\ new[2] = y
  <2>1. new = <<x, y>>
    BY ONLY <1>2, <1>3, new = ShSteps(n, v) DEF ShSteps
  <2> QED BY ONLY <2>1, <1>2, <1>3
<1>5. x.do = "parse" /\ x.by = n /\ y.do = "unshell" /\ y.by = n
  BY ONLY <1>2, <1>3
<1>6. Sound(x, os) /\ Sound(y, os)
  BY ONLY <1>2, <1>3, n \in 1 .. Len(os), v \in Seq(Line) DEF Sound, Steps
<1>7. \A k \in 1 .. Len(new) : k \in {1, 2}
  BY ONLY <1>4
<1>8. TodoTyped(new, os)
  BY ONLY <1>4, <1>6, <1>7 DEF TodoTyped
<1>9. \A k \in 1 .. Len(new) : (Pops(new[k]) => k = 2) /\ new[k].do \in {"parse", "unshell"}
                               /\ (new[k].do = "parse" => k = 1)
  BY ONLY <1>4, <1>5, <1>7 DEF Pops
<1>10. Stacked(x, st, os) /\ Stacked(y, st, os)
  <2>1. Deep(st, n)
    <3>1. Len(st) \in 3 .. Len(st)
      BY ONLY Len(st) \in Nat, Len(st) >= 3
    <3> QED BY ONLY <3>1, st[Len(st)] = n DEF Deep
  <2> QED BY ONLY <1>5, <2>1, os[n].cmd = "subshell" DEF Stacked
<1>11. Waits(new, st, os)
  BY ONLY <1>4, <1>7, <1>9, <1>10 DEF Waits
<1>12. Firsts(new, st)
  <2>1. Reads(new, 1, st)
    BY ONLY <1>4, <1>5, st[Len(st)] = n DEF Reads
  <2> QED BY ONLY <1>9, <2>1 DEF Firsts
<1>13. \A k \in 1 .. Len(new) : Pops(new[k]) => Pushed(new[k]) = n
  BY ONLY <1>4, <1>5, <1>9 DEF Pushed
<1> QED BY ONLY <1>8, <1>11, <1>12, <1>13

\* Two sequences of one.
LEMMA Two == ASSUME NEW x, NEW y PROVE <<x>> \o <<y>> = <<x, y>>
<1>1. PICK S, a, b, d : S = {x, y} /\ a = <<x>> /\ b = <<y>> /\ d = <<x, y>>
  BY ONLY TRUE
<1>2. a \in Seq(S) /\ b \in Seq(S) /\ Len(a) = 1 /\ a[1] = x /\ Len(b) = 1 /\ b[1] = y
  BY ONLY <1>1
<1>3. d \in Seq(S) /\ Len(d) = 2 /\ d[1] = x /\ d[2] = y
  BY ONLY <1>1
<1>4. /\ a \o b \in Seq(S) /\ Len(a \o b) = 1 + 1
      /\ \A i \in 1 .. 1 + 1 : (a \o b)[i] = IF i <= 1 THEN a[i] ELSE b[i - 1]
  BY ONLY <1>2, ConcatProperties
<1>5. \A i \in 1 .. 2 : (a \o b)[i] = d[i]
  BY ONLY <1>2, <1>3, <1>4
<1>6. a \o b = d
  <2>1. PICK c : c = a \o b
    BY ONLY TRUE
  <2>2. c \in Seq(S) /\ Len(c) = Len(d) /\ \A i \in 1 .. Len(c) : c[i] = d[i]
    BY ONLY <1>3, <1>4, <1>5, <2>1
  <2>3. c = d
    BY ONLY <1>3, <2>2, SeqEqual
  <2> QED BY ONLY <2>1, <2>3
<1> QED BY ONLY <1>1, <1>6

\* One and two.
LEMMA Three == ASSUME NEW x, NEW y, NEW z PROVE <<x>> \o <<y, z>> = <<x, y, z>>
<1>1. PICK S, a, b, d : S = {x, y, z} /\ a = <<x>> /\ b = <<y, z>> /\ d = <<x, y, z>>
  BY ONLY TRUE
<1>2. a \in Seq(S) /\ b \in Seq(S) /\ Len(a) = 1 /\ a[1] = x /\ Len(b) = 2 /\ b[1] = y /\ b[2] = z
  BY ONLY <1>1
<1>3. d \in Seq(S) /\ Len(d) = 3 /\ d[1] = x /\ d[2] = y /\ d[3] = z
  BY ONLY <1>1
<1>4. /\ a \o b \in Seq(S) /\ Len(a \o b) = 1 + 2
      /\ \A i \in 1 .. 1 + 2 : (a \o b)[i] = IF i <= 1 THEN a[i] ELSE b[i - 1]
  BY ONLY <1>2, ConcatProperties
<1>5. \A i \in 1 .. 3 : (a \o b)[i] = d[i]
  <2>1. PICK c : c = a \o b
    BY ONLY TRUE
  <2>2. \A i \in 1 .. 3 : c[i] = IF i <= 1 THEN a[i] ELSE b[i - 1]
    BY ONLY <1>4, <2>1
  <2>3. c[1] = a[1] /\ c[2] = b[1] /\ c[3] = b[2]
    BY ONLY <2>2
  <2>4. \A i \in 1 .. 3 : i = 1 \/ i = 2 \/ i = 3
    BY ONLY TRUE
  <2> QED BY ONLY <1>2, <1>3, <2>1, <2>3, <2>4
<1>6. a \o b = d
  <2>1. PICK c : c = a \o b
    BY ONLY TRUE
  <2>2. c \in Seq(S) /\ Len(c) = Len(d) /\ \A i \in 1 .. Len(c) : c[i] = d[i]
    BY ONLY <1>3, <1>4, <1>5, <2>1
  <2>3. c = d
    BY ONLY <1>3, <2>2, SeqEqual
  <2> QED BY ONLY <2>1, <2>3
<1> QED BY ONLY <1>1, <1>6

\* A shell reads a line.
LEMMA ParseStep == ASSUME Prompting, Parse, Clean' PROVE Prompting'
<1>1. Typed /\ Bottom(cmdstack) /\ Firsts(todo, cmdstack)
  BY ONLY Prompting DEF Prompting
<1>2. todo # << >> /\ head.do = "parse" /\ ~ Pops(head) /\ head.do \notin {"lost", "call"}
  BY ONLY Parse DEF Parse, Doing, Pops
<1>3. ObjectsTyped(objs) /\ pp \in Seq(Callable) /\ Kept(objs, objs) /\ objs[1].cmd = "shell"
  BY ONLY <1>1, KeptSelf DEF Typed, ObjectsTyped
<1>4. /\ head.by \in 1 .. Len(objs) /\ head.by \in Nat /\ head = todo[1] /\ 1 \in 1 .. Len(todo)
      /\ Len(objs) \in Nat \ {0} /\ head.with \in Seq(Line)
  BY ONLY <1>1, <1>2, HeadItem DEF Sound
<1>5. head.by = cmdstack[Len(cmdstack)]
  BY ONLY <1>1, <1>2, <1>4 DEF Firsts, Reads
<1>6. pp' = pp
  BY ONLY Parse DEF Parse
<1>7. /\ me \in Objects /\ me.cmd \in Shells \cup Programs /\ me.pending \in Seq(Seq(Word)) /\ Quiet(me)
  BY ONLY <1>3, <1>4, ObjectFields DEF me
<1>8. head.by # 1 => ~ Brings(head, pp)
  BY ONLY <1>2 DEF Brings
<1>9. \A new : Calls(new, pp)
  BY ONLY <1>2 DEF Calls
<1>10. CASE head.with = << >> /\ me.pending = << >>
  <2>1. /\ todo' = << >> \o rest /\ objs' = objs /\ cmdstack' = cmdstack
        /\ prompted' = (prompted \/ me.cmd = "shell")
    BY ONLY <1>10, Parse DEF Parse, Then
  <2>2. Prompt(<< >>, objs, pp, prompted')
    <3>1. CASE head.by = 1
      BY ONLY <1>3, <1>10, <2>1, <3>1 DEF Prompt, me
    <3>2. CASE head.by # 1
      BY ONLY <1>8, <2>1, <3>2 DEF Prompt
    <3> QED BY ONLY <3>1, <3>2
  <2>3. Prompts(objs, cmdstack, pp, todo', prompted')
    BY ONLY <1>2, <1>3, <1>9, <2>1, <2>2, ConcludedNone, Prompting
  <2> QED BY ONLY <1>6, <2>1, <2>3, PromptsNow
<1>11. CASE head.with = << >> /\ me.pending # << >>
  <2>1. PICK item : item = [do |-> "run", by |-> head.by, with |-> << >>]
    BY ONLY TRUE
  <2>2. todo' = <<item>> \o rest /\ objs' = objs /\ cmdstack' = cmdstack /\ (prompted => prompted')
    BY ONLY <1>11, <2>1, Parse DEF Parse, Then, Item
  <2>3. item \in Items /\ Sound(item, objs)
    BY ONLY <1>4, <2>1, Withs0 DEF Items, Sound, Steps
  <2>4. item.do \notin {"unsub", "unshell", "queue", "sub", "insert", "parse"}
    BY ONLY <2>1
  <2>5. Prompt(<<item>>, objs, pp, prompted')
    <3>1. CASE head.by = 1
      BY ONLY <2>1, <3>1, CallsPrompts DEF Brings
    <3>2. CASE head.by # 1
      BY ONLY <1>8, <2>2, <3>2 DEF Prompt
    <3> QED BY ONLY <3>1, <3>2
  <2>6. Prompts(objs, cmdstack, pp, todo', prompted')
    BY ONLY <1>2, <1>3, <1>9, <2>2, <2>3, <2>4, <2>5, ConcludedOne, Prompting
  <2> QED BY ONLY <1>6, <2>2, <2>6, PromptsNow
<1>12. CASE head.with # << >>
  <2>1. PICK p, more : p = Head(head.with) /\ more = Tail(head.with)
    BY ONLY TRUE
  <2>2. /\ p.sub \in Pipelines /\ p.stages \in Pipelines /\ more \in Seq(Line)
        /\ <<[sub |-> << >>, stages |-> p.stages]>> \o more \in Seq(Line)
    BY ONLY <1>4, <1>12, <2>1, LineParts
  <2>3. CASE p.sub # << >>
    <3>1. PICK n : n = Len(objs) + 1
      BY ONLY TRUE
    <3>2. PICK v, w : /\ v = <<[sub |-> << >>, stages |-> p.sub]>>
                      /\ w = <<[sub |-> << >>, stages |-> p.stages]>> \o more
      BY ONLY TRUE
    <3>3. v \in Seq(Line) /\ w \in Seq(Line)
      BY ONLY <2>2, <3>2, LineOf
    <3>4. Subshell(p.sub, <<Item("unsub", head.by, <<NewId>>), Item("parse", head.by, w)>>)
      BY ONLY <1>12, <2>1, <2>3, <3>2, Parse DEF Parse
    <3>5. PICK x, y, z : /\ x = [do |-> "parse", by |-> n, with |-> v]
                         /\ y = [do |-> "unsub", by |-> head.by, with |-> <<n>>]
                         /\ z = [do |-> "parse", by |-> head.by, with |-> w]
      BY ONLY TRUE
    <3>6. objs' = Append(objs, New("subshell", << >>)) /\ cmdstack' = Append(cmdstack, n)
          /\ todo' = (<<x>> \o <<y, z>>) \o rest
      BY ONLY <3>1, <3>2, <3>4, <3>5 DEF Subshell, NewId, Item, Then
    <3>7. PICK new : new = <<x, y, z>>
      BY ONLY TRUE
    <3>8. todo' = new \o rest
      <4>1. <<x>> \o <<y, z>> = <<x, y, z>>
        BY ONLY Three
      <4> QED BY ONLY <3>6, <3>7, <4>1
    <3>9. /\ ObjectsTyped(objs') /\ Kept(objs, objs') /\ Len(objs') = n /\ objs'[n].cmd = "subshell"
          /\ n \in Nat \ {0} /\ n \in 1 .. n
          /\ Len(cmdstack) \in Nat \ {0} /\ Len(cmdstack') = Len(cmdstack) + 1
          /\ cmdstack'[Len(cmdstack')] = n
          /\ \A i \in 1 .. Len(cmdstack) : cmdstack'[i] = cmdstack[i]
      BY ONLY <1>1, <3>1, <3>6, Pushing
    <3>10. /\ Len(cmdstack') \in Nat /\ Len(cmdstack') >= 2 /\ cmdstack'[Len(cmdstack') - 1] = head.by
           /\ head.by \in 1 .. Len(objs') /\ n \in 1 .. Len(objs')
      <4>1. Len(cmdstack) \in 1 .. Len(cmdstack) /\ Len(cmdstack') - 1 = Len(cmdstack)
        BY ONLY <3>9
      <4> QED BY ONLY <1>4, <1>5, <3>1, <3>9, <4>1
    <3>11. /\ TodoTyped(new, objs') /\ Waits(new, cmdstack', objs') /\ Firsts(new, cmdstack')
           /\ \A k \in 1 .. Len(new) : Pops(new[k]) => Pushed(new[k]) = n
      <4>1. PICK b, os, st : b = head.by /\ os = objs' /\ st = cmdstack'
        BY ONLY TRUE
      <4>2. new = ReadingSteps(n, b, v, w)
        BY ONLY <3>5, <3>7, <4>1 DEF ReadingSteps
      <4>3. /\ ObjectsTyped(os) /\ Len(st) \in Nat /\ n \in 1 .. Len(os) /\ b \in 1 .. Len(os)
            /\ Len(st) >= 2 /\ st[Len(st)] = n /\ st[Len(st) - 1] = b /\ os[n].cmd = "subshell"
        BY ONLY <3>9, <3>10, <4>1
      <4>4. /\ TodoTyped(new, os) /\ Waits(new, st, os) /\ Firsts(new, st)
            /\ \A k \in 1 .. Len(new) : Pops(new[k]) => Pushed(new[k]) = n
        BY ONLY <3>3, <4>2, <4>3, ReadingNew
      <4> QED BY ONLY <4>1, <4>4
    <3> QED BY ONLY <1>2, <1>6, <3>1, <3>6, <3>8, <3>11, PushStep, Prompting
  <2>4. CASE p.sub = << >> /\ p.stages # << >> /\ p.stages[1].cmd = "quote"
    <3>1. PICK o : o = [me EXCEPT !.pending = << >>]
      BY ONLY TRUE
    <3>2. o \in Objects /\ o.cmd = me.cmd /\ o.timers = me.timers /\ o.pending = << >>
      <4>1. << >> \in Seq(Seq(Word))
        BY ONLY EmptySeq
      <4> QED BY ONLY <1>7, <3>1, <4>1 DEF Objects
    <3>3. objs' = [objs EXCEPT ![head.by].pending = << >>]
          /\ prompted' = (prompted \/ me.cmd = "shell") /\ todo' = << >> \o rest /\ cmdstack' = cmdstack
      BY ONLY <1>12, <2>1, <2>4, Parse DEF Parse, Then
    <3>4. objs' = Put(objs, head.by, o)
      BY ONLY <3>1, <3>3 DEF me, Put
    <3>5. Quiet(o)
      BY ONLY <1>7, <3>2 DEF Quiet
    <3>6. /\ ObjectsTyped(objs') /\ Kept(objs, objs') /\ objs'[head.by] = o
          /\ \A j \in 1 .. Len(objs) : j # head.by => objs'[j] = objs[j]
      <4>1. PICK b : b = head.by
        BY ONLY TRUE
      <4>2. /\ b \in 1 .. Len(objs) /\ ObjectsTyped(objs) /\ o.cmd = objs[b].cmd
            /\ objs' = Put(objs, b, o)
        BY ONLY <1>3, <1>4, <3>2, <3>4, <4>1 DEF me
      <4>3. /\ ObjectsTyped(objs') /\ Kept(objs, objs') /\ objs'[b] = o
            /\ \A j \in 1 .. Len(objs) : j # b => objs'[j] = objs[j]
        BY ONLY <3>2, <3>5, <4>2, Changed
      <4> QED BY ONLY <4>1, <4>3
    <3>7. head.by # 1 => objs'[1] = objs[1]
      BY ONLY <1>4, <3>6
    <3>8. Prompt(<< >>, objs', pp, prompted')
      <4>1. CASE head.by = 1
        BY ONLY <1>3, <3>2, <3>3, <3>6, <4>1 DEF Prompt, me
      <4>2. CASE head.by # 1
        BY ONLY <1>8, <3>3, <3>7, <4>2 DEF Prompt
      <4> QED BY ONLY <4>1, <4>2
    <3>9. Prompts(objs', cmdstack, pp, todo', prompted')
      BY ONLY <1>2, <1>3, <1>9, <3>3, <3>6, <3>8, ConcludedNone, Prompting
    <3> QED BY ONLY <1>6, <3>3, <3>9, PromptsNow
  <2>6. CASE p.sub = << >> /\ p.stages # << >> /\ p.stages[1].cmd = "stop"
    <3>1. PICK item : item = [do |-> "parse", by |-> head.by, with |-> << >>]
      BY ONLY TRUE
    <3>2. todo' = <<item>> \o rest /\ objs' = objs /\ cmdstack' = cmdstack /\ prompted' = prompted
      BY ONLY <1>12, <2>1, <2>6, <3>1, Parse DEF Parse, Then, Item
    <3>3. item \in Items /\ Sound(item, objs) /\ item.by = cmdstack[Len(cmdstack)]
      <4>1. << >> \in Seq(Line)
        BY ONLY EmptySeq
      <4> QED BY ONLY <1>4, <1>5, <3>1, <4>1, Withs0 DEF Items, Sound, Steps
    <3>4. item.do \notin {"unsub", "unshell", "queue", "sub", "insert"}
      BY ONLY <3>1
    <3>5. Prompt(<<item>>, objs, pp, prompted')
      <4>1. CASE head.by = 1
        BY ONLY <3>1, <4>1, CallsPrompts DEF Brings
      <4>2. CASE head.by # 1
        BY ONLY <1>8, <3>2, <4>2 DEF Prompt
      <4> QED BY ONLY <4>1, <4>2
    <3>6. Prompts(objs, cmdstack, pp, todo', prompted')
      BY ONLY <1>2, <1>3, <1>9, <3>2, <3>3, <3>4, <3>5, ConcludedOne, Prompting
    <3> QED BY ONLY <1>6, <3>2, <3>6, PromptsNow
  <2>5. CASE p.sub = << >> /\ ~ (p.stages # << >> /\ p.stages[1].cmd \in {"quote", "stop"})
    <3>1. PICK left : left = Append(me.pending, p.stages)
      BY ONLY TRUE
    <3>2. left \in Seq(Seq(Word))
      <4>1. p.stages \in Seq(Word)
        BY ONLY <2>2, <2>5, WordsOfPipeline
      <4> QED BY ONLY <1>7, <3>1, <4>1, AppendProperties
    <3>3. PICK o : o = [me EXCEPT !.pending = left]
      BY ONLY TRUE
    <3>4. o \in Objects /\ o.cmd = me.cmd /\ o.timers = me.timers /\ o.pending = left
      BY ONLY <1>7, <3>2, <3>3 DEF Objects
    <3>5. PICK item : item = [do |-> "parse", by |-> head.by, with |-> more]
      BY ONLY TRUE
    <3>6. /\ objs' = [objs EXCEPT ![head.by].pending = Append(objs[head.by].pending, p.stages)]
          /\ prompted' = prompted /\ todo' = <<item>> \o rest /\ cmdstack' = cmdstack
      BY ONLY <1>12, <2>1, <2>5, <3>5, Parse DEF Parse, Then, Item
    <3>7. objs' = Put(objs, head.by, o)
      BY ONLY <3>1, <3>3, <3>6 DEF me, Put
    <3>8. Quiet(o)
      BY ONLY <1>7, <3>4 DEF Quiet
    <3>9. /\ ObjectsTyped(objs') /\ Kept(objs, objs') /\ Len(objs') = Len(objs)
          /\ \A j \in 1 .. Len(objs) : j # head.by => objs'[j] = objs[j]
      BY ONLY <1>3, <1>4, <3>4, <3>7, <3>8, Changed DEF me
    <3>10. head.by # 1 => objs'[1] = objs[1]
      BY ONLY <1>4, <3>9
    <3>11. item \in Items /\ Sound(item, objs') /\ item.by = cmdstack[Len(cmdstack)]
      <4>1. more \in Withs
        BY ONLY <2>2, Withs0
      <4> QED BY ONLY <1>4, <1>5, <2>2, <3>5, <3>9, <4>1 DEF Items, Sound, Steps
    <3>12. item.do \notin {"unsub", "unshell", "queue", "sub", "insert"}
      BY ONLY <3>5
    <3>13. Prompt(<<item>>, objs', pp, prompted')
      <4>1. CASE head.by = 1
        BY ONLY <3>5, <4>1, CallsPrompts DEF Brings
      <4>2. CASE head.by # 1
        BY ONLY <1>8, <3>6, <3>10, <4>2 DEF Prompt
      <4> QED BY ONLY <4>1, <4>2
    <3>14. Prompts(objs', cmdstack, pp, todo', prompted')
      BY ONLY <1>2, <1>3, <1>9, <3>6, <3>9, <3>11, <3>12, <3>13, ConcludedOne, Prompting
    <3> QED BY ONLY <1>6, <3>6, <3>14, PromptsNow
  <2> QED BY ONLY <2>3, <2>4, <2>5, <2>6
<1> QED BY ONLY <1>10, <1>11, <1>12

\* sh -c starts.
LEMMA SubStep == ASSUME Prompting, Sub, Clean' PROVE Prompting'
<1>1. Typed /\ Bottom(cmdstack) /\ Firsts(todo, cmdstack)
  BY ONLY Prompting DEF Prompting
<1>2. todo # << >> /\ head.do = "sub" /\ ~ Pops(head) /\ head.do \notin {"lost", "call"}
  BY ONLY Sub DEF Sub, Doing, Pops
<1>3. ObjectsTyped(objs) /\ pp \in Seq(Callable) /\ Kept(objs, objs)
  BY ONLY <1>1, KeptSelf DEF Typed
<1>4. /\ head.by \in 1 .. Len(objs) /\ head = todo[1] /\ 1 \in 1 .. Len(todo)
      /\ Len(objs) \in Nat \ {0}
  BY ONLY <1>1, <1>2, HeadItem
<1>5. pp' = pp /\ prompted' = prompted
  BY ONLY Sub DEF Sub
<1>6. ~ Brings(head, pp)
  BY ONLY <1>2 DEF Brings
<1>7. Calls(<< >>, pp) /\ Prompt(<< >>, objs, pp, prompted)
  BY ONLY <1>2, <1>6 DEF Calls, Prompt
<1>8. CASE me.arg = << >>
  <2>1. objs' = objs /\ cmdstack' = cmdstack /\ (todo' = rest \/ todo' = <<Raise>> \o rest)
    BY ONLY <1>8, Sub DEF Sub
  <2>2. todo' = rest
    BY ONLY <1>1, <1>2, <2>1, RaiseFirst, Clean'
  <2>3. todo' = << >> \o rest
    <3>1. rest \in Seq(Items)
      BY ONLY <1>1, <1>2, HeadTailProperties DEF Typed, TodoTyped, rest
    <3>2. << >> \o rest = rest
      BY ONLY <3>1, ConcatEmptySeq
    <3> QED BY ONLY <2>2, <3>2
  <2>4. Prompts(objs, cmdstack, pp, todo', prompted)
    BY ONLY <1>2, <1>3, <1>7, <2>3, ConcludedNone, Prompting
  <2> QED BY ONLY <1>5, <2>1, <2>4, PromptsNow
<1>9. CASE me.arg # << >>
  <2>1. PICK n : n = Len(objs) + 1
    BY ONLY TRUE
  <2>2. PICK v : v = <<[sub |-> << >>, stages |-> me.arg]>>
    BY ONLY TRUE
  <2>3. v \in Seq(Line)
    <3>1. me.arg \in Arguments
      BY ONLY <1>3, <1>4, ObjectFields DEF me
    <3>2. me.arg \in Pipelines
      BY ONLY <3>1, ArgumentsCallable DEF Pipelines
    <3> QED BY ONLY <2>2, <3>2, LineOf
  <2>4. Subshell(me.arg, <<Item("unshell", NewId, << >>)>>)
    BY ONLY <1>9, Sub DEF Sub
  <2>5. PICK x, y : /\ x = [do |-> "parse", by |-> n, with |-> v]
                    /\ y = [do |-> "unshell", by |-> n, with |-> << >>]
    BY ONLY TRUE
  <2>6. objs' = Append(objs, New("subshell", << >>)) /\ cmdstack' = Append(cmdstack, n)
        /\ todo' = (<<x>> \o <<y>>) \o rest
    BY ONLY <2>1, <2>2, <2>4, <2>5 DEF Subshell, NewId, Item, Then
  <2>7. PICK new : new = <<x, y>>
    BY ONLY TRUE
  <2>8. todo' = new \o rest
    <3>1. <<x>> \o <<y>> = <<x, y>>
      BY ONLY Two
    <3> QED BY ONLY <2>6, <2>7, <3>1
  <2>9. /\ ObjectsTyped(objs') /\ Len(objs') = n /\ objs'[n].cmd = "subshell"
        /\ n \in Nat \ {0} /\ n \in 1 .. n
        /\ Len(cmdstack) \in Nat \ {0} /\ Len(cmdstack') = Len(cmdstack) + 1
        /\ cmdstack'[Len(cmdstack')] = n
    BY ONLY <1>1, <2>1, <2>6, Pushing
  <2>10. Len(cmdstack) >= 2
    BY ONLY <1>1, <1>2, <1>4 DEF Firsts
  <2>11. Len(cmdstack') \in Nat /\ Len(cmdstack') >= 3 /\ n \in 1 .. Len(objs')
    BY ONLY <2>9, <2>10
  <2>12. /\ TodoTyped(new, objs') /\ Waits(new, cmdstack', objs') /\ Firsts(new, cmdstack')
         /\ \A k \in 1 .. Len(new) : Pops(new[k]) => Pushed(new[k]) = n
    <3>1. ObjectsTyped(objs') /\ objs'[n].cmd = "subshell" /\ cmdstack'[Len(cmdstack')] = n
      BY ONLY <2>9
    <3>2. new = ShSteps(n, v)
      BY ONLY <2>5, <2>7 DEF ShSteps
    <3> QED BY ONLY <2>3, <2>9, <2>11, <3>1, <3>2, SubNew
  <2> QED BY ONLY <1>2, <1>5, <2>1, <2>6, <2>8, <2>12, PushStep, Prompting
<1> QED BY ONLY <1>8, <1>9

\* A line is queued.
LEMMA QueueStep == ASSUME Prompting, Queue PROVE Prompting'
<1>1. Typed /\ Bottom(cmdstack) /\ Firsts(todo, cmdstack)
  BY ONLY Prompting DEF Prompting
<1>2. todo # << >> /\ head.do = "queue" /\ ~ Pops(head)
  BY ONLY Queue DEF Queue, Doing, Pops
<1>3. ObjectsTyped(objs) /\ pp \in Seq(Callable) /\ objs[1].cmd = "shell"
  BY ONLY <1>1 DEF Typed, ObjectsTyped
<1>4. /\ head = todo[1] /\ 1 \in 1 .. Len(todo) /\ head.with \in Seq(Word) /\ 1 \in 1 .. Len(objs)
  BY ONLY <1>1, <1>2, HeadItem DEF Sound
<1>5. cmdstack[1] = 1 /\ Len(cmdstack) >= 2
  BY ONLY <1>1, <1>2, <1>4 DEF Firsts, Bottom
<1>6. IsShell(cmdstack[1])
  BY ONLY <1>3, <1>5 DEF IsShell
<1>7. PICK left : left = Append(objs[1].pending, head.with)
  BY ONLY TRUE
<1>8. PICK me1 : me1 = objs[1]
  BY ONLY TRUE
<1>9. me1 \in Objects /\ me1.pending \in Seq(Seq(Word)) /\ Quiet(me1)
  BY ONLY <1>3, <1>4, <1>8, ObjectFields
<1>10. left \in Seq(Seq(Word))
  BY ONLY <1>4, <1>7, <1>8, <1>9, AppendProperties
<1>11. PICK o : o = [me1 EXCEPT !.pending = left]
  BY ONLY TRUE
<1>12. o \in Objects /\ o.cmd = me1.cmd /\ o.timers = me1.timers
  BY ONLY <1>9, <1>10, <1>11 DEF Objects
<1>13. Quiet(o)
  BY ONLY <1>9, <1>12 DEF Quiet
<1>14. /\ objs' = Put(objs, 1, o) /\ todo' = << >> \o rest
       /\ cmdstack' = cmdstack /\ pp' = pp /\ prompted' = prompted
  <2>1. objs' = [objs EXCEPT ![1].pending = Append(objs[1].pending, head.with)]
    BY ONLY <1>5, <1>6, Queue DEF Queue
  <2> QED BY ONLY <1>6, <1>7, <1>8, <1>11, <2>1, Queue DEF Queue, Put, Then
<1>15. ObjectsTyped(objs') /\ Kept(objs, objs')
  BY ONLY <1>3, <1>4, <1>8, <1>12, <1>13, <1>14, Changed
<1>16. Calls(<< >>, pp)
  BY ONLY <1>2 DEF Calls
<1>17. Prompt(<< >>, objs', pp, prompted)
  <2>1. Len(cmdstack) # 1
    BY ONLY <1>5
  <2> QED BY ONLY <2>1, NotBottomTwice DEF Prompt
<1>18. Prompts(objs', cmdstack, pp, todo', prompted)
  BY ONLY <1>2, <1>3, <1>14, <1>15, <1>16, <1>17, ConcludedNone, Prompting
<1> QED BY ONLY <1>14, <1>18, PromptsNow

\* A step that touches one field of the command that takes it.
LEMMA OwnStep ==
  ASSUME Prompting, todo # << >>, head.do \in {"later", "cancel", "next", "back"},
         NEW o \in Objects, o.cmd = me.cmd, objs' = Put(objs, head.by, o),
         cmdstack' = cmdstack, pp' = pp, prompted' = prompted, todo' = << >> \o rest
  PROVE  Prompting'
<1>1. Typed
  BY ONLY Prompting DEF Prompting
<1>2. /\ ObjectsTyped(objs) /\ objs[1].cmd = "shell" /\ pp \in Seq(Callable)
  BY ONLY <1>1 DEF Typed, ObjectsTyped
<1>3. head.by \in 1 .. Len(objs) /\ objs[head.by].cmd \in Programs /\ 1 \in 1 .. Len(objs)
  BY ONLY <1>1, HeadItem, todo # << >>, head.do \in {"later", "cancel", "next", "back"} DEF Sound, Steps
<1>4. o.cmd = objs[head.by].cmd
  BY ONLY o.cmd = me.cmd DEF me
<1>5. Quiet(o)
  BY ONLY <1>3, <1>4, ShellsNoPrograms DEF Quiet
<1>6. head.by # 1
  BY ONLY <1>2, <1>3, ShellsNoPrograms DEF Shells
<1>7. /\ ObjectsTyped(objs') /\ Kept(objs, objs')
      /\ \A j \in 1 .. Len(objs) : j # head.by => objs'[j] = objs[j]
  BY ONLY <1>2, <1>3, <1>4, <1>5, Changed, o \in Objects, objs' = Put(objs, head.by, o)
<1>8. objs'[1] = objs[1]
  BY ONLY <1>3, <1>6, <1>7
<1>9. ~ Pops(head) /\ ~ Brings(head, pp) /\ head.do \notin {"lost", "call"}
  BY ONLY head.do \in {"later", "cancel", "next", "back"} DEF Pops, Brings
<1>10. Calls(<< >>, pp)
  BY ONLY <1>9 DEF Calls
<1>11. Prompt(<< >>, objs', pp, prompted)
  BY ONLY <1>8, <1>9 DEF Prompt
<1>12. Prompts(objs', cmdstack, pp, todo', prompted)
  BY ONLY <1>2, <1>7, <1>9, <1>10, <1>11, ConcludedNone, Prompting, todo # << >>, todo' = << >> \o rest
<1> QED BY ONLY <1>12, PromptsNow, cmdstack' = cmdstack, pp' = pp, prompted' = prompted

\* What sudo and busybox insert before the rest of their chain.
LEMMA InsertStep ==
  ASSUME Prompting, todo # << >>, head.do = "insert", pp' = me.arg \o pp, objs' = objs,
         cmdstack' = cmdstack, prompted' = prompted, todo' = << >> \o rest
  PROVE  Prompting'
<1>1. /\ Typed /\ Bottom(cmdstack) /\ Waits(todo, cmdstack, objs) /\ Firsts(todo, cmdstack)
  BY ONLY Prompting DEF Prompting
<1>2. ObjectsTyped(objs) /\ pp \in Seq(Callable) /\ Kept(objs, objs) /\ cmdstack \in Seq(1 .. Len(objs))
  BY ONLY <1>1, KeptSelf DEF Typed
<1>3. head = todo[1] /\ 1 \in 1 .. Len(todo) /\ head.by \in 1 .. Len(objs)
  BY ONLY <1>1, HeadItem, todo # << >>
<1>4. ~ Pops(head) /\ ~ Brings(head, pp) /\ head.do \notin {"lost", "call"}
  BY ONLY head.do = "insert" DEF Pops, Brings
<1>5. PICK a, b, c : a = me.arg /\ b = pp /\ c = pp'
  BY ONLY TRUE
<1>6. a \in Seq(Callable) /\ b \in Seq(Callable)
  <2>1. me.arg \in Arguments
    BY ONLY <1>2, <1>3, ObjectFields DEF me
  <2> QED BY ONLY <1>2, <1>5, <2>1, ArgumentsCallable
<1>7. c \in Seq(Callable) /\ (c = << >> => b = << >>)
  <2>1. c = a \o b
    BY ONLY <1>5, pp' = me.arg \o pp
  <2>2. c \in Seq(Callable) /\ Len(c) = Len(a) + Len(b)
    BY ONLY <1>6, <2>1, ConcatProperties
  <2>3. Len(a) \in Nat /\ Len(b) \in Nat
    BY ONLY <1>6, LenProperties
  <2>4. c = << >> => Len(b) = 0
    <3>1. Len(<< >>) = 0
      BY ONLY TRUE
    <3> QED BY ONLY <2>2, <2>3, <3>1
  <2> QED BY ONLY <1>6, <2>2, <2>4, EmptySeq
<1>8. CASE c = << >>
  <2>1. Calls(<< >>, c)
    BY ONLY <1>8 DEF Calls
  <2>2. Prompt(<< >>, objs, c, prompted)
    BY ONLY <1>4, <1>5, <1>7, <1>8 DEF Prompt
  <2>3. Prompts(objs, cmdstack, c, todo', prompted)
    BY ONLY <1>2, <1>4, <1>7, <2>1, <2>2, ConcludedNone, Prompting, todo # << >>, todo' = << >> \o rest
  <2> QED BY ONLY <1>5, <2>3, PromptsNow, cmdstack' = cmdstack, objs' = objs, prompted' = prompted
<1>9. CASE c # << >>
  <2>1. PICK new : new = << >>
    BY ONLY TRUE
  <2>2. /\ TodoTyped(new, objs) /\ Waits(new, cmdstack, objs) /\ Firsts(new, cmdstack)
        /\ \A k \in 1 .. Len(new) : Pops(new[k]) => Pushed(new[k]) \notin 1 .. Len(objs)
    BY ONLY <2>1, NoneNew
  <2>3. /\ TodoTyped(todo', objs) /\ Follows(todo', new, todo)
        /\ Waits(todo', cmdstack, objs) /\ Firsts(todo', cmdstack)
    <3>1. Len(cmdstack) \in Nat /\ Len(cmdstack) <= Len(cmdstack)
      BY ONLY <1>1 DEF Bottom
    <3>2. todo' = new \o rest
      BY ONLY <2>1, todo' = << >> \o rest
    <3> QED BY ONLY <1>1, <1>2, <1>4, <2>2, <3>1, <3>2, Carried, todo # << >>
  <2>4. PICK m \in 2 .. Len(todo) : todo[m].do = "lost"
    <3>1. Ahead(todo, 1)
      BY ONLY <1>1, <1>3, head.do = "insert" DEF Firsts
    <3> QED BY ONLY <3>1 DEF Ahead
  <2>5. PICK j \in 1 .. Len(todo') : todo'[j] = todo[m]
    BY ONLY <2>3, <2>4 DEF Follows
  <2>6. Chained(todo', c)
    BY ONLY <2>4, <2>5 DEF Chained
  <2>7. Due(todo', cmdstack, objs, c, prompted)
    BY ONLY <1>9, <2>6, ComingChain DEF Due
  <2>8. Prompts(objs, cmdstack, c, todo', prompted)
    BY ONLY <1>1, <1>2, <1>7, <2>3, <2>6, <2>7 DEF Prompts
  <2> QED BY ONLY <1>5, <2>8, PromptsNow, cmdstack' = cmdstack, objs' = objs, prompted' = prompted
<1> QED BY ONLY <1>8, <1>9

\* A step that touches one thing.
LEMMA SmallStep == ASSUME Prompting, Small, Clean' PROVE Prompting'
<1>1. Typed
  BY ONLY Prompting DEF Prompting
<1>2. todo # << >> /\ cmdstack' = cmdstack /\ prompted' = prompted /\ todo' = << >> \o rest
  BY ONLY Small DEF Small, Then
<1>3. ObjectsTyped(objs) /\ pp \in Seq(Callable) /\ Kept(objs, objs)
  BY ONLY <1>1, KeptSelf DEF Typed
<1>4. PICK m : m = me
  BY ONLY TRUE
<1>5. m \in Objects /\ m.timers \in Nat /\ m.phase \in Int
  <2>1. head.by \in 1 .. Len(objs)
    BY ONLY <1>1, <1>2, HeadItem
  <2> QED BY ONLY <1>3, <1>4, <2>1, ObjectFields DEF me
<1>6. CASE head.do = "later"
  <2>1. PICK n : n = m.timers + 1
    BY ONLY TRUE
  <2>2. PICK o : o = [m EXCEPT !.timers = n]
    BY ONLY TRUE
  <2>3. n \in Nat
    BY ONLY <1>5, <2>1
  <2>4. o \in Objects /\ o.cmd = m.cmd
    BY ONLY <1>5, <2>2, <2>3 DEF Objects
  <2>5. objs' = [objs EXCEPT ![head.by].timers = objs[head.by].timers + 1] /\ pp' = pp
    BY ONLY <1>6, Small DEF Small
  <2>6. objs' = Put(objs, head.by, o)
    BY ONLY <1>4, <2>1, <2>2, <2>5 DEF Put, me
  <2> QED BY ONLY <1>2, <1>4, <1>6, <2>4, <2>5, <2>6, OwnStep, Prompting
<1>7. CASE head.do = "cancel"
  <2>2. PICK o : o = [m EXCEPT !.timers = 0]
    BY ONLY TRUE
  <2>4. o \in Objects /\ o.cmd = m.cmd
    BY ONLY <1>5, <2>2 DEF Objects
  <2>5. objs' = [objs EXCEPT ![head.by].timers = 0] /\ pp' = pp
    BY ONLY <1>7, Small DEF Small
  <2>6. objs' = Put(objs, head.by, o)
    BY ONLY <1>4, <2>2, <2>5 DEF Put, me
  <2> QED BY ONLY <1>2, <1>4, <1>7, <2>4, <2>5, <2>6, OwnStep, Prompting
<1>8. CASE head.do = "next"
  <2>1. PICK n : n = m.phase + 1
    BY ONLY TRUE
  <2>2. PICK o : o = [m EXCEPT !.phase = n]
    BY ONLY TRUE
  <2>3. n \in Int
    BY ONLY <1>5, <2>1
  <2>4. o \in Objects /\ o.cmd = m.cmd
    BY ONLY <1>5, <2>2, <2>3 DEF Objects
  <2>5. objs' = [objs EXCEPT ![head.by].phase = objs[head.by].phase + 1] /\ pp' = pp
    BY ONLY <1>8, Small DEF Small
  <2>6. objs' = Put(objs, head.by, o)
    BY ONLY <1>4, <2>1, <2>2, <2>5 DEF Put, me
  <2> QED BY ONLY <1>2, <1>4, <1>8, <2>4, <2>5, <2>6, OwnStep, Prompting
<1>9. CASE head.do = "back"
  <2>1. PICK n : n = m.phase - 1
    BY ONLY TRUE
  <2>2. PICK o : o = [m EXCEPT !.phase = n]
    BY ONLY TRUE
  <2>3. n \in Int
    BY ONLY <1>5, <2>1
  <2>4. o \in Objects /\ o.cmd = m.cmd
    BY ONLY <1>5, <2>2, <2>3 DEF Objects
  <2>5. objs' = [objs EXCEPT ![head.by].phase = objs[head.by].phase - 1] /\ pp' = pp
    BY ONLY <1>9, Small DEF Small
  <2>6. objs' = Put(objs, head.by, o)
    BY ONLY <1>4, <2>1, <2>2, <2>5 DEF Put, me
  <2> QED BY ONLY <1>2, <1>4, <1>9, <2>4, <2>5, <2>6, OwnStep, Prompting
<1>10. CASE head.do \in {"hide", "show"}
  <2>1. objs' = objs /\ pp' = pp
    BY ONLY <1>10, Small DEF Small
  <2>2. ~ Pops(head) /\ ~ Brings(head, pp) /\ head.do \notin {"lost", "call"}
    BY ONLY <1>10 DEF Pops, Brings
  <2>3. Calls(<< >>, pp) /\ Prompt(<< >>, objs, pp, prompted)
    BY ONLY <2>2 DEF Calls, Prompt
  <2>4. Prompts(objs, cmdstack, pp, todo', prompted)
    BY ONLY <1>2, <1>3, <2>2, <2>3, ConcludedNone, Prompting
  <2> QED BY ONLY <1>2, <2>1, <2>4, PromptsNow
<1>11. CASE head.do = "end"
  BY ONLY <1>11, Small, Clean' DEF Small, processEnded, Clean
<1>12. CASE head.do = "insert"
  <2>1. objs' = objs /\ pp' = me.arg \o pp
    BY ONLY <1>12, Small DEF Small
  <2> QED BY ONLY <1>2, <1>12, <2>1, InsertStep, Prompting
<1>13. head.do \in {"later", "cancel", "next", "back", "hide", "show", "end", "insert"}
  BY ONLY Small DEF Small
<1> QED BY ONLY <1>6, <1>7, <1>8, <1>9, <1>10, <1>11, <1>12, <1>13

-----------------------------------------------------------------------------
(* What the reactor calls. *)

\* What the invariant says when nothing is left to be done.
LEMMA AtRest ==
  ASSUME Prompting, Idle
  PROVE  /\ Typed /\ Bottom(cmdstack) /\ ObjectsTyped(objs) /\ Len(objs) \in Nat \ {0}
         /\ objs[1].cmd = "shell" /\ pp = << >> /\ pp \in Seq(Callable)
         /\ cmdstack = <<1>> => prompted /\ objs[1].pending = << >>
         /\ cmdstack # << >> /\ cmdstack \in Seq(1 .. Len(objs)) /\ Len(cmdstack) \in Nat \ {0}
         /\ Last(cmdstack) = cmdstack[Len(cmdstack)] /\ Last(cmdstack) \in 1 .. Len(objs)
         /\ (Len(cmdstack) = 1 => Last(cmdstack) = 1)
<1>1. /\ Typed /\ Bottom(cmdstack) /\ Chained(todo, pp) /\ Due(todo, cmdstack, objs, pp, prompted)
  BY ONLY Prompting DEF Prompting
<1>2. ObjectsTyped(objs) /\ pp \in Seq(Callable) /\ cmdstack \in Seq(1 .. Len(objs))
  BY ONLY <1>1 DEF Typed
<1>3. Len(objs) \in Nat \ {0} /\ objs[1].cmd = "shell"
  BY ONLY <1>2 DEF ObjectsTyped
<1>4. Len(todo) = 0
  BY ONLY Idle, EmptySeq DEF Idle
<1>5. pp = << >>
  BY ONLY <1>1, <1>4 DEF Chained
<1>6. ~ Coming(todo, pp)
  BY ONLY <1>4 DEF Coming
<1>7. Len(cmdstack) \in Nat \ {0} /\ cmdstack[1] = 1
  BY ONLY <1>1 DEF Bottom
<1>8. cmdstack # << >>
  BY ONLY <1>7, EmptySeq
<1>9. Last(cmdstack) = cmdstack[Len(cmdstack)]
  BY ONLY <1>2, <1>8, Dropped
<1>10. Last(cmdstack) \in 1 .. Len(objs)
  BY ONLY <1>2, <1>7, <1>9, ElementOfSeq
<1> QED BY ONLY <1>1, <1>2, <1>3, <1>5, <1>6, <1>7, <1>8, <1>9, <1>10 DEF Due

\* A command is called with what it does next.
LEMMA Handled ==
  ASSUME Prompting, Idle, NEW os2, ObjectsTyped(os2), Kept(objs, os2),
         os2[1].pending = objs[1].pending,
         NEW id \in 1 .. Len(objs), objs[id].cmd \in Programs, NEW s, Acts(s),
         NEW q2, q2 = Script(id, s, << >>), NEW pr2, prompted => pr2
  PROVE  Prompts(os2, cmdstack, pp, q2, pr2)
<1>1. /\ Bottom(cmdstack) /\ Len(objs) \in Nat \ {0} /\ pp = << >> /\ pp \in Seq(Callable)
      /\ cmdstack = <<1>> => prompted /\ objs[1].pending = << >>
      /\ cmdstack \in Seq(1 .. Len(objs))
  BY ONLY Prompting, Idle, AtRest
<1>2. Len(os2) \in Nat /\ id \in 1 .. Len(os2) /\ os2[id].cmd \in Programs
      /\ 1 .. Len(objs) \subseteq 1 .. Len(os2)
  BY ONLY <1>1, Kept(objs, os2), id \in 1 .. Len(objs), objs[id].cmd \in Programs DEF Kept
<1>3. cmdstack \in Seq(1 .. Len(os2))
  BY ONLY <1>1, <1>2, SeqMonotonic
<1>4. Opens(s)
  BY ONLY Acts(s), ActsOpens
<1>5. /\ TodoTyped(q2, os2) /\ Len(q2) = Len(s) /\ Len(s) \in Nat
      /\ \A k \in 1 .. Len(s) : q2[k] = [do |-> s[k], by |-> id, with |-> << >>]
  BY ONLY <1>2, <1>4, ScriptTyped, q2 = Script(id, s, << >>)
<1>6. \A k \in 1 .. Len(s) : s[k] \in Doings
  BY ONLY Acts(s), ElementOfSeq DEF Acts
<1>7. \A k \in 1 .. Len(q2) : q2[k].do \in Doings
  <2>1. ASSUME NEW k \in 1 .. Len(s) PROVE q2[k].do \in Doings
    <3>1. q2[k] = [do |-> s[k], by |-> id, with |-> << >>]
      BY ONLY <1>5, k \in 1 .. Len(s)
    <3> QED BY ONLY <1>6, <3>1
  <2> QED BY ONLY <1>5, <2>1
<1>8. \A k \in 1 .. Len(q2) : ~ Pops(q2[k])
  BY ONLY <1>7 DEF Doings, Steps, Pops
<1>9. Waits(q2, cmdstack, os2)
  BY ONLY <1>8, NoPops
<1>10. Firsts(q2, cmdstack)
  BY ONLY <1>7 DEF Doings, Steps, Firsts
<1>11. Chained(q2, pp)
  BY ONLY <1>1 DEF Chained
<1>12. Due(q2, cmdstack, os2, pp, pr2)
  BY ONLY <1>1, os2[1].pending = objs[1].pending, prompted => pr2 DEF Due
<1> QED BY ONLY <1>1, <1>3, <1>5, <1>9, <1>10, <1>11, <1>12, ObjectsTyped(os2) DEF Prompts

\* One step, for what is on top.
LEMMA Received ==
  ASSUME Prompting, Idle, NEW item \in Items, Sound(item, objs), NEW q2, q2 = <<item>>, NEW pr2,
         \/ item.do \in {"parse", "call"} /\ item.by = Last(cmdstack)
         \/ item.do = "queue" /\ Len(cmdstack) >= 2
  PROVE  Prompts(objs, cmdstack, pp, q2, pr2)
<1>1. /\ Bottom(cmdstack) /\ ObjectsTyped(objs) /\ Len(objs) \in Nat \ {0} /\ pp = << >>
      /\ pp \in Seq(Callable) /\ cmdstack \in Seq(1 .. Len(objs)) /\ Len(cmdstack) \in Nat \ {0}
      /\ Last(cmdstack) = cmdstack[Len(cmdstack)] /\ (Len(cmdstack) = 1 => Last(cmdstack) = 1)
  BY ONLY Prompting, Idle, AtRest
<1>2. TodoTyped(q2, objs) /\ Len(q2) = 1 /\ q2[1] = item
  BY ONLY <1>1, OneItem, item \in Items, Sound(item, objs), q2 = <<item>>
<1>3. \A k \in 1 .. Len(q2) : k = 1 /\ q2[k] = item
  BY ONLY <1>2
<1>4. \A k \in 1 .. Len(q2) : ~ Pops(q2[k])
  BY ONLY <1>3, item.do \in {"parse", "call"} \/ item.do = "queue" DEF Pops
<1>5. Waits(q2, cmdstack, objs)
  BY ONLY <1>4, NoPops
<1>6. Firsts(q2, cmdstack)
  BY ONLY <1>1, <1>3, \/ item.do \in {"parse", "call"} /\ item.by = Last(cmdstack)
                      \/ item.do = "queue" /\ Len(cmdstack) >= 2 DEF Firsts, Reads
<1>7. Chained(q2, pp)
  BY ONLY <1>1 DEF Chained
<1>8. Due(q2, cmdstack, objs, pp, pr2)
  <2>1. ASSUME cmdstack = << 1 >> PROVE Coming(q2, pp)
    <3>1. Len(cmdstack) = 1
      BY ONLY <2>1
    <3>2. item.do \in {"parse", "call"} /\ item.by = 1
      BY ONLY <1>1, <3>1, \/ item.do \in {"parse", "call"} /\ item.by = Last(cmdstack)
                          \/ item.do = "queue" /\ Len(cmdstack) >= 2
    <3>3. Brings(item, pp)
      BY ONLY <3>2 DEF Brings
    <3> QED BY ONLY <1>2, <3>3 DEF Coming
  <2> QED BY ONLY <2>1 DEF Due
<1> QED BY ONLY <1>1, <1>2, <1>5, <1>6, <1>7, <1>8 DEF Prompts

\* What may be typed is a line.
LEMMA LineTyped == ASSUME NEW line \in Lines PROVE line \in Seq(Line)
BY LinesAssumption DEF Line

\* Its words are words.
LEMMA WordsTyped ==
  ASSUME NEW line \in Lines, WordsOf(line) \cap {"quote", "stop"} = {}
  PROVE  Words(line) \in Seq(Word)
<1>1. line \in Seq(Line)
  BY LineTyped
<1>2. CASE line = << >>
  BY ONLY <1>2, EmptySeq DEF Words
<1>3. CASE line # << >>
  <2>1. PICK p : p = line[1].stages
    BY ONLY TRUE
  <2>2. p \in Pipelines
    <3>1. 1 \in 1 .. Len(line)
      BY ONLY <1>1, <1>3, EmptySeq, LenProperties
    <3>2. line[1] \in Line
      BY ONLY <1>1, <3>1, ElementOfSeq
    <3> QED BY ONLY <2>1, <3>2 DEF Line
  <2>3. Words(line) = p
    BY ONLY <1>3, <2>1 DEF Words
  <2>4. p # Quote /\ p # Stop
    <3>1. ASSUME p \in {Quote, Stop} PROVE FALSE
      <4>1. 1 \in DOMAIN p /\ p[1].cmd \in {"quote", "stop"}
        BY ONLY <3>1 DEF Quote, Stop
      <4>2. p[1] \in Range(p)
        BY ONLY <4>1 DEF Range
      <4> QED BY ONLY <2>3, <4>1, <4>2, WordsOf(line) \cap {"quote", "stop"} = {} DEF WordsOf
    <3> QED BY ONLY <3>1
  <2> QED BY ONLY <2>2, <2>3, <2>4 DEF Pipelines
<1> QED BY ONLY <1>2, <1>3

\* What is on top, if it is no shell, is a command, over the session's own shell.
LEMMA TopCommand ==
  ASSUME Prompting, Idle, ~ IsShell(Last(cmdstack))
  PROVE  /\ objs[Last(cmdstack)].cmd \in Programs /\ Len(cmdstack) >= 2
         /\ objs[Last(cmdstack)].phase \in Int
<1>1. /\ ObjectsTyped(objs) /\ Last(cmdstack) \in 1 .. Len(objs) /\ objs[1].cmd = "shell"
      /\ Len(cmdstack) \in Nat \ {0} /\ (Len(cmdstack) = 1 => Last(cmdstack) = 1)
  BY ONLY Prompting, Idle, AtRest
<1>2. objs[Last(cmdstack)].cmd \in Shells \cup Programs /\ objs[Last(cmdstack)].phase \in Int
  BY ONLY <1>1, ObjectFields
<1>3. objs[Last(cmdstack)].cmd \in Programs
  BY ONLY <1>2, ~ IsShell(Last(cmdstack)) DEF IsShell, Shells
<1>4. Last(cmdstack) # 1
  BY ONLY <1>1, ~ IsShell(Last(cmdstack)) DEF IsShell
<1>5. PICK n \in Nat \ {0} : n = Len(cmdstack) /\ n # 1
  BY ONLY <1>1, <1>4
<1>6. Len(cmdstack) >= 2
  BY ONLY <1>5
<1> QED BY ONLY <1>2, <1>3, <1>6

\* A line is typed.
LEMMA LineStep == ASSUME Prompting, LineReceived PROVE Prompting'
<1>1. Idle /\ objs' = objs /\ cmdstack' = cmdstack /\ pp' = pp
  BY ONLY LineReceived DEF LineReceived, Typing
<1>2. /\ ObjectsTyped(objs) /\ Last(cmdstack) \in 1 .. Len(objs) /\ cmdstack # << >>
      /\ Len(objs) \in Nat \ {0}
  BY ONLY Prompting, <1>1, AtRest
<1>3. PICK id : id = Last(cmdstack)
  BY ONLY TRUE
<1>4. id \in Nat /\ id \in 1 .. Len(objs)
  BY ONLY <1>2, <1>3
<1>5. CASE IsShell(id)
  <2>1. PICK line \in Lines : todo' = <<Item("parse", id, line)>>
    BY ONLY <1>2, <1>3, <1>5, LineReceived DEF LineReceived
  <2>2. PICK item : item = [do |-> "parse", by |-> id, with |-> line]
    BY ONLY TRUE
  <2>3. line \in Seq(Line) /\ line \in Withs
    BY ONLY LineTyped, Withs0
  <2>4. item \in Items /\ Sound(item, objs)
    BY ONLY <1>4, <2>2, <2>3 DEF Items, Sound, Steps
  <2>5. todo' = <<item>> /\ item.do = "parse" /\ item.by = Last(cmdstack)
    BY ONLY <1>3, <2>1, <2>2 DEF Item
  <2>6. Prompts(objs, cmdstack, pp, todo', prompted')
    BY ONLY <1>1, <2>4, <2>5, Received, Prompting
  <2> QED BY ONLY <1>1, <2>6, PromptsNow
<1>6. CASE ~ IsShell(id)
  <2>1. /\ objs[id].cmd \in Programs /\ Len(cmdstack) >= 2 /\ objs[id].phase \in Int
    BY ONLY <1>1, <1>3, <1>6, TopCommand, Prompting
  <2>2. PICK s \in Behaviour(objs[id].cmd, objs[id].phase).line :
          /\ IF "queue" \in Range(s)
             THEN \E line \in {l \in Lines : WordsOf(l) \cap {"quote", "stop"} = {}} : todo' = Script(id, s, Words(line))
             ELSE todo' = Script(id, s, << >>)
          /\ prompted' = prompted
    BY ONLY <1>2, <1>3, <1>6, LineReceived DEF LineReceived
  <2>3. s = <<"queue">> \/ Acts(s)
    BY ONLY <2>1, <2>2, Handlers
  <2>4. CASE s = <<"queue">>
    <3>1. "queue" \in Range(s)
      <4>1. 1 \in DOMAIN s /\ s[1] = "queue"
        BY ONLY <2>4
      <4> QED BY ONLY <4>1 DEF Range
    <3>2. PICK line \in Lines : /\ WordsOf(line) \cap {"quote", "stop"} = {}
                                /\ todo' = Script(id, s, Words(line))
      BY ONLY <2>2, <3>1
    <3>3. PICK w : w = Words(line)
      BY ONLY TRUE
    <3>4. w \in Seq(Word) /\ w \in Withs
      BY ONLY <3>2, <3>3, WordsTyped, Withs0
    <3>5. PICK item : item = [do |-> "queue", by |-> id, with |-> w]
      BY ONLY TRUE
    <3>6. item \in Items /\ Sound(item, objs)
      BY ONLY <1>4, <3>4, <3>5 DEF Items, Sound, Steps
    <3>7. todo' = <<item>>
      <4>1. todo' = [i \in {1} |-> [do |-> s[i], by |-> id, with |-> w]]
        <5>1. DOMAIN s = {1}
          BY ONLY <2>4
        <5> QED BY ONLY <3>2, <3>3, <5>1 DEF Script, Item
      <4>2. \A i \in {1} : [do |-> s[i], by |-> id, with |-> w] = item
        BY ONLY <2>4, <3>5
      <4>3. todo' = [i \in {1} |-> item]
        BY ONLY <4>1, <4>2
      <4> QED BY ONLY <4>3
    <3>8. Prompts(objs, cmdstack, pp, todo', prompted')
      <4>1. item.do = "queue"
        BY ONLY <3>5
      <4> QED BY ONLY <1>1, <2>1, <3>6, <3>7, <4>1, Received, Prompting
    <3> QED BY ONLY <1>1, <3>8, PromptsNow
  <2>5. CASE Acts(s)
    <3>1. "queue" \notin Range(s)
      <4>1. \A k \in DOMAIN s : s[k] \in Doings
        BY ONLY <2>5, ElementOfSeq, LenProperties DEF Acts
      <4> QED BY ONLY <4>1 DEF Range, Doings, Steps
    <3>2. todo' = Script(id, s, << >>) /\ prompted' = prompted
      BY ONLY <2>2, <3>1
    <3>3. Prompts(objs, cmdstack, pp, todo', prompted')
      <4>1. Kept(objs, objs)
        BY ONLY <1>2, KeptSelf
      <4> QED BY ONLY <1>1, <1>2, <1>4, <2>1, <2>5, <3>2, <4>1, Handled, Prompting
    <3> QED BY ONLY <1>1, <3>3, PromptsNow
  <2> QED BY ONLY <2>3, <2>4, <2>5
<1> QED BY ONLY <1>5, <1>6

\* CTRL-C.
LEMMA CtrlCStep == ASSUME Prompting, handle_CTRL_C PROVE Prompting'
<1>1. Idle /\ objs' = objs /\ cmdstack' = cmdstack /\ pp' = pp
  BY ONLY handle_CTRL_C DEF handle_CTRL_C, Typing
<1>2. /\ ObjectsTyped(objs) /\ Last(cmdstack) \in 1 .. Len(objs)
  BY ONLY Prompting, <1>1, AtRest
<1>3. PICK id : id = Last(cmdstack)
  BY ONLY TRUE
<1>4. CASE IsShell(id)
  <2>1. todo' = todo /\ (prompted => prompted')
    BY ONLY <1>3, <1>4, handle_CTRL_C DEF handle_CTRL_C
  <2>2. Prompts(objs, cmdstack, pp, todo, prompted)
    BY ONLY Prompting, PromptsNow
  <2>3. Prompts(objs, cmdstack, pp, todo, prompted')
    BY ONLY <2>1, <2>2 DEF Prompts, Due
  <2> QED BY ONLY <1>1, <2>1, <2>3, PromptsNow
<1>5. CASE ~ IsShell(id)
  <2>1. objs[id].cmd \in Programs /\ objs[id].phase \in Int
    BY ONLY <1>1, <1>3, <1>5, TopCommand, Prompting
  <2>2. PICK s \in Behaviour(objs[id].cmd, objs[id].phase).interrupt :
          todo' = Script(id, s, << >>) /\ prompted' = prompted
    BY ONLY <1>3, <1>5, handle_CTRL_C DEF handle_CTRL_C
  <2>3. Acts(s)
    BY ONLY <2>1, <2>2, Handlers
  <2>4. Prompts(objs, cmdstack, pp, todo', prompted')
    <3>1. Kept(objs, objs)
      BY ONLY <1>2, KeptSelf
    <3> QED BY ONLY <1>1, <1>2, <1>3, <2>1, <2>2, <2>3, <3>1, Handled, Prompting
  <2> QED BY ONLY <1>1, <2>4, PromptsNow
<1> QED BY ONLY <1>4, <1>5

\* CTRL-D.
LEMMA CtrlDStep == ASSUME Prompting, handle_CTRL_D PROVE Prompting'
<1>1. Idle /\ objs' = objs /\ cmdstack' = cmdstack /\ pp' = pp /\ prompted' = prompted
  BY ONLY handle_CTRL_D DEF handle_CTRL_D, Typing
<1>2. /\ ObjectsTyped(objs) /\ Last(cmdstack) \in 1 .. Len(objs) /\ Len(objs) \in Nat \ {0}
  BY ONLY Prompting, <1>1, AtRest
<1>3. PICK id : id = Last(cmdstack)
  BY ONLY TRUE
<1>4. CASE IsShell(id)
  <2>1. PICK c : c = [cmd |-> "exit", arg |-> << >>]
    BY ONLY TRUE
  <2>2. c \in Callable
    <3>1. "exit" \in Programs
      BY ONLY DEF Programs, Commands
    <3>2. << >> \in Seq([cmd : Programs, arg : {<< >>}])
      BY ONLY EmptySeq
    <3> QED BY ONLY <2>1, <3>1, <3>2 DEF Callable
  <2>3. PICK w : w = <<c>>
    BY ONLY TRUE
  <2>4. w \in Seq(Callable) /\ w # << >> /\ w \in Withs
    <3>1. w \in Seq(Callable) /\ w # << >>
      BY ONLY <2>2, <2>3
    <3> QED BY ONLY <3>1, Withs0
  <2>5. PICK item : item = [do |-> "call", by |-> id, with |-> w]
    BY ONLY TRUE
  <2>6. item \in Items /\ Sound(item, objs)
    <3>1. id \in Nat /\ id \in 1 .. Len(objs)
      BY ONLY <1>2, <1>3
    <3> QED BY ONLY <2>4, <2>5, <3>1 DEF Items, Sound, Steps
  <2>7. todo' = <<item>> /\ item.do = "call" /\ item.by = Last(cmdstack)
    BY ONLY <1>3, <1>4, <2>1, <2>3, <2>5, handle_CTRL_D DEF handle_CTRL_D, Item
  <2>8. Prompts(objs, cmdstack, pp, todo', prompted')
    BY ONLY <1>1, <2>6, <2>7, Received, Prompting
  <2> QED BY ONLY <1>1, <2>8, PromptsNow
<1>5. CASE ~ IsShell(id)
  <2>1. objs[id].cmd \in Programs /\ objs[id].phase \in Int
    BY ONLY <1>1, <1>3, <1>5, TopCommand, Prompting
  <2>2. PICK s \in Behaviour(objs[id].cmd, objs[id].phase).eof : todo' = Script(id, s, << >>)
    BY ONLY <1>3, <1>5, handle_CTRL_D DEF handle_CTRL_D
  <2>3. Acts(s)
    BY ONLY <2>1, <2>2, Handlers
  <2>4. Prompts(objs, cmdstack, pp, todo', prompted')
    <3>1. Kept(objs, objs)
      BY ONLY <1>2, KeptSelf
    <3> QED BY ONLY <1>1, <1>2, <1>3, <2>1, <2>2, <2>3, <3>1, Handled, Prompting
  <2> QED BY ONLY <1>1, <2>4, PromptsNow
<1> QED BY ONLY <1>4, <1>5

\* A timer, or the end of a download.
LEMMA FireStep == ASSUME Prompting, Fire PROVE Prompting'
<1>1. Idle /\ cmdstack' = cmdstack /\ pp' = pp /\ prompted' = prompted
  BY ONLY Fire DEF Fire
<1>2. /\ ObjectsTyped(objs) /\ Len(objs) \in Nat \ {0} /\ objs[1].cmd = "shell"
  BY ONLY Prompting, <1>1, AtRest
<1>3. DOMAIN objs = 1 .. Len(objs)
  BY ONLY <1>2, LenProperties DEF ObjectsTyped
<1>4. PICK id \in 1 .. Len(objs) :
        /\ objs[id].timers > 0
        /\ objs' = [objs EXCEPT ![id].timers = objs[id].timers - 1]
        /\ \E s \in Behaviour(objs[id].cmd, objs[id].phase).fire : todo' = Script(id, s, << >>)
  BY ONLY <1>3, Fire DEF Fire
<1>5. PICK m, n : m = objs[id] /\ n = objs[id].timers - 1
  BY ONLY TRUE
<1>6. m \in Objects /\ m.cmd \in Shells \cup Programs /\ m.timers \in Nat /\ m.phase \in Int /\ Quiet(m)
  BY ONLY <1>2, <1>5, ObjectFields
<1>7. m.cmd \in Programs /\ n \in Nat
  BY ONLY <1>4, <1>5, <1>6 DEF Quiet
<1>8. PICK o : o = [m EXCEPT !.timers = n]
  BY ONLY TRUE
<1>9. o \in Objects /\ o.cmd = m.cmd /\ o.pending = m.pending
  BY ONLY <1>6, <1>7, <1>8 DEF Objects
<1>10. Quiet(o)
  BY ONLY <1>7, <1>9, ShellsNoPrograms DEF Quiet
<1>11. objs' = Put(objs, id, o)
  BY ONLY <1>4, <1>5, <1>8 DEF Put
<1>12. /\ ObjectsTyped(objs') /\ Kept(objs, objs')
       /\ \A j \in 1 .. Len(objs) : j # id => objs'[j] = objs[j]
  BY ONLY <1>2, <1>5, <1>9, <1>10, <1>11, Changed
<1>13. objs'[1] = objs[1]
  <2>1. id # 1
    BY ONLY <1>2, <1>5, <1>7, ShellsNoPrograms DEF Shells
  <2> QED BY ONLY <1>2, <1>12, <2>1
<1>14. PICK s \in Behaviour(objs[id].cmd, objs[id].phase).fire : todo' = Script(id, s, << >>)
  BY ONLY <1>4
<1>15. Acts(s)
  BY ONLY <1>5, <1>6, <1>7, <1>14, Handlers
<1>16. Prompts(objs', cmdstack, pp, todo', prompted')
  BY ONLY <1>1, <1>5, <1>7, <1>12, <1>13, <1>14, <1>15, Handled, Prompting
<1> QED BY ONLY <1>1, <1>16, PromptsNow

\* Nothing that ends the session leads back, and nothing spoilt is mended.
LEMMA StaysClean == ASSUME [ShellNext]_shellvars, Clean' PROVE Clean
<1>1. CASE UNCHANGED shellvars
  BY ONLY <1>1, Clean' DEF shellvars, Clean, Doing, head
<1>2. CASE ShellNext
  <2>1. spoilt \subseteq spoilt' /\ (conn' = "open" => conn = "open")
    BY ONLY <1>2 DEF ShellNext, call_command, outConnectionLost, ExitStep, runCommand, Parse,
       SubstitutionDone, Sub, ShDone, Raised, Queue, Small, LineReceived, handle_CTRL_C,
       handle_CTRL_D, Fire, SessionEnds, ShellConnectionLost, processEnded
  <2>2. ~ Raised
    BY ONLY Clean' DEF Raised, Clean
  <2>3. ~ Doing("raise")
    BY ONLY <1>2, <2>2 DEF ShellNext, call_command, outConnectionLost, ExitStep, runCommand, Parse,
       SubstitutionDone, Sub, ShDone, Queue, Small, LineReceived, handle_CTRL_C, handle_CTRL_D,
       Fire, SessionEnds, ShellConnectionLost, Doing, Typing, Idle
  <2> QED BY ONLY <2>1, <2>3, Clean' DEF Clean
<1> QED BY ONLY <1>1, <1>2, [ShellNext]_shellvars

-----------------------------------------------------------------------------

\* The session by itself.
ShellSpec == ShellStart /\ [][ShellNext]_shellvars

\* The invariant holds at the start.
LEMMA PromptingStart == ASSUME ShellStart PROVE Prompting
<1>1. PICK r : r = New("shell", << >>)
  BY ONLY TRUE
<1>2. /\ objs = <<r>> /\ cmdstack = <<1>> /\ pp = << >> /\ prompted = (kind = "interactive")
      /\ kind \in {"interactive", "exec"}
  BY ONLY <1>1, ShellStart DEF ShellStart
<1>3. r \in Objects /\ Quiet(r) /\ r.cmd = "shell" /\ r.pending = << >>
  <2>1. "shell" \in Shells \cup Programs /\ << >> \in Arguments
    BY ONLY EmptySeq DEF Shells, Arguments
  <2>2. r \in Objects /\ Quiet(r)
    BY ONLY <1>1, <2>1, Newborn
  <2> QED BY ONLY <1>1, <2>2 DEF New
<1>4. Len(objs) = 1 /\ objs[1] = r /\ objs \in Seq(Objects)
  BY ONLY <1>2, <1>3
<1>5. ObjectsTyped(objs)
  BY ONLY <1>3, <1>4 DEF ObjectsTyped
<1>6. cmdstack \in Seq(1 .. Len(objs)) /\ Len(cmdstack) = 1 /\ cmdstack[1] = 1
  <2>1. 1 \in 1 .. Len(objs)
    BY ONLY <1>4
  <2> QED BY ONLY <1>2, <2>1
<1>7. pp \in Seq(Callable)
  BY ONLY <1>2, EmptySeq
<1>8. Bottom(cmdstack)
  BY ONLY <1>6 DEF Bottom
<1>9. Chained(todo, pp)
  BY ONLY <1>2 DEF Chained
<1>10. Due(todo, cmdstack, objs, pp, prompted)
  <2>1. CASE kind = "interactive"
    BY ONLY <1>2, <1>3, <1>4, <2>1 DEF Due
  <2>2. CASE kind = "exec"
    <3>1. PICK line \in Lines : todo = <<Item("parse", 1, line)>>
      BY ONLY <2>2, ShellStart DEF ShellStart
    <3>2. PICK item : item = Item("parse", 1, line)
      BY ONLY TRUE
    <3>3. Len(todo) = 1 /\ todo[1] = item
      BY ONLY <3>1, <3>2
    <3>4. Brings(item, pp)
      BY ONLY <3>2 DEF Brings, Item
    <3> QED BY ONLY <3>3, <3>4 DEF Due, Coming
  <2> QED BY ONLY <1>2, <2>1, <2>2
<1>11. TodoTyped(todo, objs) /\ Waits(todo, cmdstack, objs) /\ Firsts(todo, cmdstack)
  <2>1. CASE todo = << >>
    <3>1. PICK q : q = << >>
      BY ONLY TRUE
    <3>2. TodoTyped(q, objs) /\ Waits(q, cmdstack, objs) /\ Firsts(q, cmdstack)
      BY ONLY <3>1, NoneNew
    <3> QED BY ONLY <2>1, <3>1, <3>2
  <2>2. CASE todo # << >>
    <3>1. PICK line \in Lines : todo = <<Item("parse", 1, line)>>
      BY ONLY <2>2, ShellStart DEF ShellStart
    <3>2. PICK item : item = [do |-> "parse", by |-> 1, with |-> line]
      BY ONLY TRUE
    <3>3. line \in Seq(Line) /\ line \in Withs
      BY ONLY LineTyped, Withs0
    <3>4. item \in Items /\ Sound(item, objs)
      BY ONLY <1>4, <3>2, <3>3 DEF Items, Sound, Steps
    <3>5. todo = <<item>>
      BY ONLY <3>1, <3>2 DEF Item
    <3>6. /\ item.do \notin {"unsub", "unshell", "queue", "sub", "insert"}
          /\ item.by = cmdstack[Len(cmdstack)] /\ Len(objs) \in Nat
      BY ONLY <1>4, <1>6, <3>2
    <3> QED BY ONLY <3>4, <3>5, <3>6, OneNew
  <2> QED BY ONLY <2>1, <2>2
<1> QED BY ONLY <1>5, <1>6, <1>7, <1>8, <1>9, <1>10, <1>11 DEF Prompting, Typed

\* Every step preserves the invariant, as long as nobody popped for others.
LEMMA PromptingStep == ASSUME Clean => Prompting, [ShellNext]_shellvars PROVE (Clean => Prompting)'
<1> SUFFICES ASSUME Clean' PROVE Prompting'
  OBVIOUS
<1>1. Prompting /\ Clean
  BY ONLY Clean => Prompting, [ShellNext]_shellvars, Clean', StaysClean
<1>2. CASE UNCHANGED shellvars
  BY ONLY <1>1, <1>2 DEF shellvars, Prompting, Typed
<1>3. CASE call_command
  BY ONLY <1>1, <1>3, CallStep
<1>4. CASE outConnectionLost
  BY ONLY <1>1, <1>4, LostStep
<1>5. CASE ExitStep
  BY ONLY <1>1, <1>5, Clean', ExitingStep
<1>6. CASE runCommand
  BY ONLY <1>1, <1>6, Clean', RunStep
<1>7. CASE Parse
  BY ONLY <1>1, <1>7, Clean', ParseStep
<1>8. CASE SubstitutionDone
  BY ONLY <1>1, <1>8, Clean', SubstitutionStep
<1>9. CASE Sub
  BY ONLY <1>1, <1>9, Clean', SubStep
<1>10. CASE ShDone
  BY ONLY <1>1, <1>10, Clean', ShDoneStep
<1>11. CASE Raised
  BY ONLY <1>11, Clean' DEF Raised, Clean
<1>12. CASE Queue
  BY ONLY <1>1, <1>12, QueueStep
<1>13. CASE Small
  BY ONLY <1>1, <1>13, Clean', SmallStep
<1>14. CASE LineReceived
  BY ONLY <1>1, <1>14, LineStep
<1>15. CASE handle_CTRL_C
  BY ONLY <1>1, <1>15, CtrlCStep
<1>16. CASE handle_CTRL_D
  BY ONLY <1>1, <1>16, CtrlDStep
<1>17. CASE Fire
  BY ONLY <1>1, <1>17, FireStep
<1>18. CASE SessionEnds \/ ShellConnectionLost
  BY ONLY <1>18, Clean' DEF SessionEnds, ShellConnectionLost, processEnded, Clean
<1> QED BY ONLY <1>2, <1>3, <1>4, <1>5, <1>6, <1>7, <1>8, <1>9, <1>10, <1>11, <1>12, <1>13, <1>14,
                <1>15, <1>16, <1>17, <1>18, [ShellNext]_shellvars DEF ShellNext

\* The invariant says more than the property.
LEMMA PromptingShows == ASSUME Clean => Prompting PROVE Prompted
<1> SUFFICES ASSUME Idle, conn = "open", spoilt \cap {"raised", "crossed"} = {}
             PROVE  /\ cmdstack # << >> /\ cmdstack[1] = 1
                    /\ cmdstack = <<1>> => prompted /\ objs[1].pending = << >>
  BY DEF Prompted
<1>1. ~ Doing("raise")
  BY ONLY Idle DEF Idle, Doing
<1>2. Prompting
  BY ONLY <1>1, Clean => Prompting, conn = "open", spoilt \cap {"raised", "crossed"} = {} DEF Clean
<1>3. cmdstack[1] = 1
  BY ONLY <1>2 DEF Prompting, Bottom
<1> QED BY ONLY <1>2, <1>3, Idle, AtRest

\* Until an exception drops what is left to be done, somebody pops what is not its own or
\* the session ends, the invariant holds.
THEOREM PromptsKept == ShellSpec => [](Clean => Prompting)
<1>1. ShellStart => (Clean => Prompting)
  BY ONLY PromptingStart
<1>2. (Clean => Prompting) /\ [ShellNext]_shellvars => (Clean => Prompting)'
  BY ONLY PromptingStep
<1> QED BY <1>1, <1>2, PTL DEF ShellSpec

\* The shell is never left without a prompt: at rest it is at the bottom of the stack,
\* and when it is alone there nothing is left to be run and it has called showPrompt()
\* since the last command, whatever was typed, run by exec, queued or run in $(...) or
\* sh -c, and whenever timers fire (HoneyPotCommand.exit, resume and runCommand).  An
\* exec session has ended instead, but for what the comment of Prompted names.
THEOREM PromptAlways == ShellSpec => []Prompted
<1>1. (Clean => Prompting) => Prompted
  BY ONLY PromptingShows
<1> QED BY <1>1, PromptsKept, PTL

-----------------------------------------------------------------------------
(* The echo. *)

\* The commands that ask for passwords.
Asking == {"passwd", "adduser", "ssh"}

\* A command that may have hidden what is typed, and adduser when nothing it
\* still waits for hides it.
Hiding(o) == \/ o.cmd = "passwd" /\ o.phase \in {0, 1}
             \/ o.cmd = "adduser" /\ o.phase = 1
             \/ o.cmd = "ssh" /\ o.phase \in {1, 2}
Resting(o) == o.phase = 3 \/ (o.phase = 0 /\ o.timers = 0)

\* An object is on a stack.
Stands(st, id) == \E i \in 1 .. Len(st) : st[i] = id

\* What such a command may be in the middle of; on says that it is on the stack.
Showing == {<<"next", "show", "exit">>, <<"show", "exit">>, <<"later", "show">>,
            <<"next", "later", "show">>, <<"show">>}
Scripts == Showing \cup {<<"hide">>, <<"next", "hide">>, <<"next">>, <<"exit">>, <<"exit", "raise">>,
                          <<"next", "later">>, <<"later">>, <<"back", "back", "later">>, <<"back", "later">>}
\* Nobody hides what is typed who is not on the stack, and nobody exits before
\* it is shown.
Allowed(s, o, on, hidden) ==
  \/ s = <<"hide">> /\ on /\ Hiding(o)
  \/ s = <<"next", "hide">> /\ on /\ o.cmd = "ssh" /\ o.phase = 0
  \/ s = <<"next">> /\ o.cmd = "passwd" /\ o.phase = 0
  \/ s \in {<<"next", "show", "exit">>, <<"show", "exit">>} /\ o.cmd # "adduser"
  \/ s \in {<<"exit">>, <<"exit", "raise">>} /\ (Hiding(o) => ~ hidden) /\ (o.cmd = "adduser" => Resting(o))
  \/ s = <<"next", "later">> /\ o.cmd = "ssh" /\ o.phase = 1
  \/ s = <<"later">> /\ o.cmd # "passwd" /\ (o.cmd = "adduser" => on)
  \/ /\ o.cmd = "adduser" /\ on
     /\ \/ s = <<"next", "later">> /\ o.phase # 1
        \/ s \in {<<"later", "show">>, <<"next", "later", "show">>, <<"show">>}
        \/ s = <<"back", "back", "later">> /\ o.phase >= 4
        \/ s = <<"back", "later">> /\ o.phase >= 3

\* Nothing is in the middle of a dialogue after the first n steps.
Mellow(item, os) == /\ item.do \notin {"hide", "show"}
                    /\ os[item.by].cmd \in Asking => item.do \in {"lost", "raise", "call"}
Past(q, n, os) == \A k \in 1 .. Len(q) : k > n => Mellow(q[k], os)

\* The first steps to be taken are a script of one command's.
Acting(q, id, s) == /\ Len(s) <= Len(q)
                    /\ \A k \in 1 .. Len(s) : q[k].do = s[k] /\ q[k].by = id

\* adduser leaves when it has nothing to hide any more.
Left(os, st) == \A i \in 1 .. Len(os) :
  os[i].cmd = "adduser" => os[i].phase >= 0 /\ (Stands(st, i) \/ Resting(os[i]))
\* Some command that may have hidden what is typed is on the stack.
Hidden(os, st) == \E i \in 1 .. Len(os) : Stands(st, i) /\ Hiding(os[i])

\* A command that asks is in the middle of a script; if the echo is off, some
\* command on the stack has it so, or the script turns it on.
Within(id, s, q, os, st, hidden) ==
  /\ Acting(q, id, s) /\ Past(q, Len(s), os)
  /\ os[id].cmd \in Asking /\ Allowed(s, os[id], Stands(st, id), hidden)
  /\ hidden => Hidden(os, st) \/ s \in Showing
\* Nobody is.
Calm(q, os, st, hidden) == Past(q, 0, os) /\ (hidden => Hidden(os, st))

\* The invariant of the echo, of a state by its parts.
Echoes(q, os, st, hidden) ==
  /\ Left(os, st)
  /\ Calm(q, os, st, hidden) \/ \E id \in 1 .. Len(os), s \in Scripts : Within(id, s, q, os, st, hidden)

\* The other commands neither hide nor show what is typed.
Tame(s) == \A k \in 1 .. Len(s) : s[k] \notin {"hide", "show"}

\* The scripts of the commands that are no dialogues are tame.
LEMMA BriefTame == \A s \in Opening \cup {<<"queue">>, <<"next", "later">>} : Tame(s)
<1>1. Tame(<< >>) /\ Tame(<<"exit">>) /\ Tame(<<"raise">>) /\ Tame(<<"later">>) /\ Tame(<<"end">>)
      /\ Tame(<<"queue">>)
  BY ONLY DEF Tame
<1>2. Tame(<<"exit", "exit">>) /\ Tame(<<"exit", "raise">>)
  BY ONLY DEF Tame
<1>3. Tame(<<"cancel", "exit">>) /\ Tame(<<"end", "exit">>)
  BY ONLY DEF Tame
<1>4. Tame(<<"sub", "exit">>) /\ Tame(<<"insert", "exit">>)
  BY ONLY DEF Tame
<1>5. Tame(<<"insert", "lost", "exit">>)
  BY ONLY DEF Tame
<1>6. Tame(<<"next", "later">>)
  BY ONLY DEF Tame
<1>7. Tame(<<"insert", "raise">>) /\ Tame(<<"insert", "lost", "raise">>)
  BY ONLY DEF Tame
<1> QED BY ONLY <1>1, <1>2, <1>3, <1>4, <1>5, <1>6, <1>7 DEF Opening, Brief

\* ping, field by field.
LEMMA PingFields ==
  ASSUME NEW p
  PROVE  LET b == command_ping(p)
         IN /\ b.start \subseteq Brief \cup {<<"next", "later">>}
            /\ b.line \subseteq Brief \cup {<<"queue">>}
            /\ b.eof \subseteq Brief /\ b.fire \subseteq Brief
<1> DEFINE I == {IF p = 1 THEN <<"cancel", "exit">> ELSE <<"exit">>}
<1>1. command_ping(p) = [Base EXCEPT !.start = {<<"exit">>, <<"exit", "raise">>, <<"next", "later">>},
                                     !.fire = {<<"later">>, <<"exit">>}, !.interrupt = I]
  BY ONLY DEF command_ping
<1> HIDE DEF I
<1> QED BY ONLY <1>1 DEF Base, Brief

\* passwd, phase by phase.
LEMMA PasswdFields ==
  ASSUME NEW p \in Int
  PROVE  LET b == command_passwd(p)
         IN /\ b.start = {<<"hide">>} /\ b.eof = {<< >>} /\ b.fire = {}
            /\ p = 0 => b.line = {<<"next">>}
            /\ p = 1 => b.line = {<<"next", "show", "exit">>}
            /\ p \notin {0, 1} => b.line = {<<"raise">>}
<1> DEFINE L == {CASE p = 0 -> <<"next">>
                   [] p = 1 -> <<"next", "show", "exit">>
                   [] OTHER -> <<"raise">>}
<1>1. command_passwd(p) = [Base EXCEPT !.start = {<<"hide">>}, !.line = L]
  BY ONLY DEF command_passwd
<1>2. /\ p = 0 => L = {<<"next">>}
      /\ p = 1 => L = {<<"next", "show", "exit">>}
      /\ p \notin {0, 1} => L = {<<"raise">>}
  BY ONLY p \in Int
<1> HIDE DEF L
<1> QED BY ONLY <1>1, <1>2 DEF Base

\* A command that does not ask never touches the echo.
LEMMA Tamed ==
  ASSUME NEW c \in Programs, c \notin Asking, NEW p \in Int
  PROVE  LET b == Behaviour(c, p)
         IN \A s \in b.start \cup b.line \cup b.eof \cup b.fire : Tame(s)
<1>0. PICK b : b = Behaviour(c, p)
  BY ONLY TRUE
<1>1. CASE c \in Dialogues
  <2>1. c = "ping"
    BY ONLY <1>1, c \notin Asking DEF Dialogues, Asking
  <2>2. b = command_ping(p)
    BY ONLY <1>0, <2>1 DEF Behaviour
  <2>3. b.start \cup b.line \cup b.eof \cup b.fire \subseteq Brief \cup {<<"queue">>, <<"next", "later">>}
    BY ONLY <2>2, PingFields
  <2>4. Brief \subseteq Opening
    BY ONLY DEF Opening
  <2> QED BY ONLY <1>0, <2>3, <2>4, BriefTame
<1>2. CASE c \notin Dialogues
  <2>1. Mild(b)
    BY ONLY <1>0, <1>2, Behaviours, c \in Programs, p \in Int
  <2>2. Brief \subseteq Opening
    BY ONLY DEF Opening
  <2> QED BY ONLY <1>0, <2>1, <2>2, BriefTame DEF Mild
<1> QED BY ONLY <1>1, <1>2

-----------------------------------------------------------------------------
(* What a step leaves of a dialogue. *)

\* A step that brings nothing.
LEMMA FollowsNone ==
  ASSUME Typed, todo # << >>, NEW q2, q2 = << >> \o rest
  PROVE  Follows(q2, << >>, todo) /\ Len(<< >>) = 0
<1>1. PICK new : new = << >> /\ new \in Seq(Items) /\ Len(new) = 0
  BY ONLY EmptySeq
<1>2. Follows(q2, new, todo)
  BY ONLY <1>1, Replaced, Typed, todo # << >>, q2 = << >> \o rest DEF Typed, TodoTyped, rest
<1> QED BY ONLY <1>1, <1>2

\* A step that brings some steps.
LEMMA FollowsMany ==
  ASSUME Typed, todo # << >>, NEW S, NEW new \in Seq(S), NEW q2, q2 = new \o rest
  PROVE  Follows(q2, new, todo)
<1>1. PICK T : T = S \cup Items
  BY ONLY TRUE
<1>2. new \in Seq(T) /\ todo \in Seq(T)
  <2>1. S \subseteq T /\ Items \subseteq T
    BY ONLY <1>1
  <2>2. todo \in Seq(Items)
    BY ONLY Typed DEF Typed, TodoTyped
  <2> QED BY ONLY <2>1, <2>2, SeqMonotonic, new \in Seq(S)
<1> QED BY ONLY <1>2, Replaced, todo # << >>, q2 = new \o rest DEF rest

\* A step that brings one.
LEMMA FollowsOne ==
  ASSUME Typed, todo # << >>, NEW x, NEW q2, q2 = <<x>> \o rest
  PROVE  Follows(q2, <<x>>, todo) /\ Len(<<x>>) = 1 /\ <<x>>[1] = x
<1>1. PICK S, new : S = {x} /\ new = <<x>>
  BY ONLY TRUE
<1>2. new \in Seq(S) /\ Len(new) = 1 /\ new[1] = x
  BY ONLY <1>1
<1>3. Follows(q2, new, todo)
  BY ONLY <1>1, <1>2, FollowsMany, Typed, todo # << >>, q2 = <<x>> \o rest
<1> QED BY ONLY <1>1, <1>2, <1>3

\* The steps after the first n stay as they are, behind what is put in front.
LEMMA PastGo ==
  ASSUME NEW q, NEW os, TodoTyped(q, os), Past(q, 1, os), NEW os2, Kept(os, os2),
         NEW q2, NEW new, Follows(q2, new, q), NEW n \in 0 .. Len(new),
         \A k \in 1 .. Len(new) : k > n => Mellow(new[k], os2)
  PROVE  Past(q2, n, os2)
<1>1. PICK m \in Nat, l \in Nat : m = Len(new) /\ l = Len(q2)
  BY ONLY Follows(q2, new, q) DEF Follows
<1>2. ASSUME NEW k \in 1 .. l, k > n PROVE Mellow(q2[k], os2)
  <2>1. CASE k <= m
    <3>1. k \in 1 .. Len(new) /\ q2[k] = new[k]
      BY ONLY <1>1, <2>1, k \in 1 .. l, Follows(q2, new, q) DEF Follows
    <3> QED BY ONLY <1>2, <3>1, \A i \in 1 .. Len(new) : i > n => Mellow(new[i], os2)
  <2>2. CASE k > m
    <3>1. PICK j \in 2 .. Len(q) : q2[k] = q[j]
      BY ONLY <1>1, <2>2, k \in 1 .. l, Follows(q2, new, q) DEF Follows
    <3>2. j \in 1 .. Len(q) /\ j > 1
      BY ONLY j \in 2 .. Len(q)
    <3>3. Mellow(q[j], os) /\ q[j].by \in 1 .. Len(os)
      BY ONLY <3>2, Past(q, 1, os), TodoTyped(q, os) DEF Past, TodoTyped, Sound
    <3> QED BY ONLY <3>1, <3>3, Kept(os, os2) DEF Mellow, Kept
  <2> QED BY ONLY <1>1, <2>1, <2>2, k \in 1 .. l
<1> QED BY ONLY <1>1, <1>2 DEF Past

\* What is left of a script when its first step has been taken.
Shift(s2, s) == /\ Len(s) \in Nat \ {0} /\ Len(s2) = Len(s) - 1
                /\ \A k \in 1 .. Len(s2) : s2[k] = s[k + 1]

\* The first step of a script is taken, and leaves the others.
LEMMA ActingGo ==
  ASSUME NEW q, NEW os, TodoTyped(q, os), NEW s, NEW id, Acting(q, id, s), Past(q, Len(s), os),
         NEW os2, Kept(os, os2), NEW q2, Follows(q2, << >>, q), NEW s2, Shift(s2, s)
  PROVE  Acting(q2, id, s2) /\ Past(q2, Len(s2), os2)
<1>1. PICK m \in Nat, n \in Nat \ {0} : m = Len(q) /\ n = Len(s)
  BY ONLY Follows(q2, << >>, q), Shift(s2, s) DEF Follows, Shift
<1>2. /\ Len(q2) = m - 1 /\ m >= 1
      /\ \A k \in 1 .. (m - 1) : k + 1 \in 2 .. m /\ q2[k] = q[k + 1]
  <2>1. PICK e : e = << >> /\ Len(e) = 0
    BY ONLY EmptySeq
  <2>2. Follows(q2, e, q)
    BY ONLY <2>1, Follows(q2, << >>, q)
  <2> QED BY ONLY <1>1, <2>1, <2>2 DEF Follows
<1>3. /\ n <= m /\ Len(s2) = n - 1
      /\ \A k \in 1 .. n : q[k].do = s[k] /\ q[k].by = id
      /\ \A k \in 1 .. (n - 1) : s2[k] = s[k + 1]
  BY ONLY <1>1, Acting(q, id, s), Shift(s2, s) DEF Acting, Shift
<1>4. ASSUME NEW k \in 1 .. (n - 1) PROVE q2[k].do = s2[k] /\ q2[k].by = id
  <2>1. k + 1 \in 1 .. n /\ k \in 1 .. (m - 1)
    BY ONLY <1>3, k \in 1 .. (n - 1)
  <2> QED BY ONLY <1>2, <1>3, <2>1
<1>5. Acting(q2, id, s2)
  BY ONLY <1>2, <1>3, <1>4 DEF Acting
<1>6. ASSUME NEW k \in 1 .. (m - 1), k > n - 1 PROVE Mellow(q2[k], os2)
  <2>1. k + 1 \in 1 .. m /\ k + 1 > n /\ q2[k] = q[k + 1]
    BY ONLY <1>2, <1>6
  <2>2. PICK j \in 1 .. m : j = k + 1
    BY ONLY <2>1
  <2>3. Mellow(q[j], os) /\ q[j].by \in 1 .. Len(os)
    BY ONLY <1>1, <2>1, <2>2, Past(q, Len(s), os), TodoTyped(q, os) DEF Past, TodoTyped, Sound
  <2> QED BY ONLY <2>1, <2>2, <2>3, Kept(os, os2) DEF Mellow, Kept
<1>7. Past(q2, Len(s2), os2)
  BY ONLY <1>2, <1>3, <1>6 DEF Past
<1> QED BY ONLY <1>5, <1>7

-----------------------------------------------------------------------------
(* What a step leaves of the objects and of the stack. *)

\* Those that were there do not change what the echo depends on, and a new
\* adduser waits for nothing yet.
Alike(os, os2) ==
  /\ Kept(os, os2)
  /\ \A i \in 1 .. Len(os) : os[i].cmd \in Asking => os2[i].phase = os[i].phase /\ os2[i].timers = os[i].timers
  /\ \A i \in 1 .. Len(os2) : i > Len(os) /\ os2[i].cmd = "adduser" => os2[i].phase = 0 /\ os2[i].timers = 0
\* No command that asks leaves the stack.
StandsOn(st, st2, os) ==
  \A i \in 1 .. Len(os) : os[i].cmd \in Asking /\ Stands(st, i) => Stands(st2, i)

\* A step that leaves those that ask alone keeps Left.
LEMMA LeftGo ==
  ASSUME NEW os, NEW st, Left(os, st), NEW os2, Alike(os, os2), NEW st2, StandsOn(st, st2, os)
  PROVE  Left(os2, st2)
<1>1. Len(os) \in Nat /\ Len(os2) \in Nat /\ Len(os) <= Len(os2)
  BY ONLY Alike(os, os2) DEF Alike, Kept
<1>2. ASSUME NEW i \in 1 .. Len(os2), os2[i].cmd = "adduser"
      PROVE  os2[i].phase >= 0 /\ (Stands(st2, i) \/ Resting(os2[i]))
  <2>1. CASE i > Len(os)
    <3>1. os2[i].phase = 0 /\ os2[i].timers = 0
      BY ONLY <1>2, <2>1, Alike(os, os2) DEF Alike
    <3> QED BY ONLY <3>1 DEF Resting
  <2>2. CASE i \in 1 .. Len(os)
    <3>1. os[i].cmd = "adduser" /\ os[i].cmd \in Asking
      BY ONLY <1>2, <2>2, Alike(os, os2) DEF Alike, Kept, Asking
    <3>2. os2[i].phase = os[i].phase /\ os2[i].timers = os[i].timers
      BY ONLY <2>2, <3>1, Alike(os, os2) DEF Alike
    <3>3. os[i].phase >= 0 /\ (Stands(st, i) \/ Resting(os[i]))
      BY ONLY <2>2, <3>1, Left(os, st) DEF Left
    <3>4. Stands(st, i) => Stands(st2, i)
      BY ONLY <2>2, <3>1, StandsOn(st, st2, os) DEF StandsOn
    <3>5. Resting(os[i]) => Resting(os2[i])
      BY ONLY <3>2 DEF Resting
    <3> QED BY ONLY <3>2, <3>3, <3>4, <3>5
  <2> QED BY ONLY <1>1, <2>1, <2>2, i \in 1 .. Len(os2)
<1> QED BY ONLY <1>2 DEF Left

\* Only a command that asks hides what is typed.
LEMMA HidingAsks == ASSUME NEW o, Hiding(o) PROVE o.cmd \in Asking
BY DEF Hiding, Asking

\* A step that leaves those that ask alone keeps Hidden.
LEMMA HiddenGo ==
  ASSUME NEW os, NEW st, Hidden(os, st), NEW os2, Alike(os, os2), NEW st2, StandsOn(st, st2, os)
  PROVE  Hidden(os2, st2)
<1>1. PICK i \in 1 .. Len(os) : Stands(st, i) /\ Hiding(os[i])
  BY ONLY Hidden(os, st) DEF Hidden
<1>2. os[i].cmd \in Asking
  BY ONLY <1>1, HidingAsks
<1>3. Stands(st2, i)
  BY ONLY <1>1, <1>2, i \in 1 .. Len(os), StandsOn(st, st2, os) DEF StandsOn
<1>4. i \in 1 .. Len(os2) /\ os2[i].cmd = os[i].cmd /\ os2[i].phase = os[i].phase
  BY ONLY <1>2, i \in 1 .. Len(os), Alike(os, os2) DEF Alike, Kept
<1>5. Hiding(os2[i])
  BY ONLY <1>1, <1>4 DEF Hiding
<1> QED BY ONLY <1>3, <1>4, <1>5 DEF Hidden

\* A step of somebody who is in no dialogue.
LEMMA CalmGo ==
  ASSUME Typed, Left(objs, cmdstack), Calm(todo, objs, cmdstack, password_input),
         NEW os2, Alike(objs, os2), NEW st2, StandsOn(cmdstack, st2, objs),
         NEW q2, NEW new, Follows(q2, new, todo), \A k \in 1 .. Len(new) : Mellow(new[k], os2),
         NEW h, h = password_input
  PROVE  Echoes(q2, os2, st2, h)
<1>1. TodoTyped(todo, objs) /\ Kept(objs, os2)
  BY ONLY Typed, Alike(objs, os2) DEF Typed, Alike
<1>2. Past(todo, 1, objs)
  BY ONLY Calm(todo, objs, cmdstack, password_input) DEF Calm, Past
<1>3. 0 \in 0 .. Len(new) /\ \A k \in 1 .. Len(new) : k > 0 => Mellow(new[k], os2)
  BY ONLY Follows(q2, new, todo), \A k \in 1 .. Len(new) : Mellow(new[k], os2) DEF Follows
<1>4. Past(q2, 0, os2)
  BY ONLY <1>1, <1>2, <1>3, PastGo, Follows(q2, new, todo)
<1>5. Left(os2, st2)
  BY ONLY LeftGo, Left(objs, cmdstack), Alike(objs, os2), StandsOn(cmdstack, st2, objs)
<1>6. h => Hidden(os2, st2)
  BY ONLY HiddenGo, Calm(todo, objs, cmdstack, password_input), Alike(objs, os2),
          StandsOn(cmdstack, st2, objs), h = password_input DEF Calm
<1> QED BY ONLY <1>4, <1>5, <1>6 DEF Echoes, Calm

\* Nothing changes.
LEMMA AlikeSelf == ASSUME NEW os, ObjectsTyped(os) PROVE Alike(os, os)
<1>1. Kept(os, os) /\ Len(os) \in Nat
  BY ONLY ObjectsTyped(os), KeptSelf DEF ObjectsTyped
<1> QED BY ONLY <1>1 DEF Alike

\* What is pending is of no consequence.
Pend(os, i, w) == [os EXCEPT ![i].pending = w]

\* The lines of a shell change.
LEMMA AlikePend ==
  ASSUME NEW os, ObjectsTyped(os), NEW os2, ObjectsTyped(os2), NEW i, NEW w, os2 = Pend(os, i, w)
  PROVE  Alike(os, os2)
<1>1. PICK n \in Nat, n2 \in Nat : n = Len(os) /\ n2 = Len(os2)
  BY ONLY ObjectsTyped(os), ObjectsTyped(os2) DEF ObjectsTyped
<1>2. os \in [1 .. n -> Objects] /\ os2 \in [1 .. n2 -> Objects]
  BY ONLY <1>1, ObjectsTyped(os), ObjectsTyped(os2), LenProperties DEF ObjectsTyped
<1>3. DOMAIN os2 = DOMAIN os
  BY ONLY os2 = Pend(os, i, w) DEF Pend
<1>4. n2 = n
  BY ONLY <1>2, <1>3
<1>5. ASSUME NEW j \in 1 .. n
      PROVE  os2[j].cmd = os[j].cmd /\ os2[j].phase = os[j].phase /\ os2[j].timers = os[j].timers
  <2>1. CASE j = i
    <3>1. os2[j] = [os[j] EXCEPT !.pending = w]
      BY ONLY <1>2, <2>1, j \in 1 .. n, os2 = Pend(os, i, w) DEF Pend
    <3>2. os[j] \in Objects
      BY ONLY <1>2, j \in 1 .. n
    <3> QED BY ONLY <3>1, <3>2 DEF Objects
  <2>2. CASE j # i
    BY ONLY <1>2, <2>2, j \in 1 .. n, os2 = Pend(os, i, w) DEF Pend
  <2> QED BY ONLY <2>1, <2>2
<1> QED BY ONLY <1>1, <1>4, <1>5 DEF Alike, Kept

\* An object is made.
LEMMA AlikeMade ==
  ASSUME NEW os, ObjectsTyped(os), NEW r, r.cmd = "adduser" => r.phase = 0 /\ r.timers = 0,
         NEW os2, os2 = Append(os, r)
  PROVE  Alike(os, os2)
<1>0. PICK S : S = Objects \cup {r}
  BY ONLY TRUE
<1>1. PICK n \in Nat : n = Len(os)
  BY ONLY ObjectsTyped(os) DEF ObjectsTyped
<1>2. os \in Seq(S) /\ r \in S
  <2>1. Objects \subseteq S /\ r \in S
    BY ONLY <1>0
  <2> QED BY ONLY <2>1, SeqMonotonic, ObjectsTyped(os) DEF ObjectsTyped
<1>3. Len(os2) = n + 1 /\ (\A i \in 1 .. n : os2[i] = os[i]) /\ os2[n + 1] = r
  BY ONLY <1>1, <1>2, Added, os2 = Append(os, r)
<1>4. \A i \in 1 .. (n + 1) : i > n => i = n + 1
  BY ONLY n \in Nat
<1> QED BY ONLY <1>1, <1>3, <1>4, r.cmd = "adduser" => r.phase = 0 /\ r.timers = 0 DEF Alike, Kept

\* The stack stays as it is.
LEMMA StandsSelf == ASSUME NEW st, NEW os PROVE StandsOn(st, st, os)
BY DEF StandsOn

\* Something is pushed.
LEMMA StandsPush ==
  ASSUME NEW S, NEW st \in Seq(S), NEW x, NEW st2, st2 = Append(st, x), NEW os
  PROVE  StandsOn(st, st2, os) /\ Stands(st2, x)
<1>1. PICK T : T = S \cup {x}
  BY ONLY TRUE
<1>2. S \subseteq T /\ x \in T
  BY ONLY <1>1
<1>3. st \in Seq(T)
  BY ONLY <1>2, SeqMonotonic, st \in Seq(S)
<1>4. Len(st) \in Nat /\ Len(st2) = Len(st) + 1 /\ (\A i \in 1 .. Len(st) : st2[i] = st[i])
      /\ st2[Len(st) + 1] = x
  BY ONLY <1>2, <1>3, Added, st2 = Append(st, x)
<1>5. \A i : Stands(st, i) => Stands(st2, i)
  BY ONLY <1>4 DEF Stands
<1>6. Stands(st2, x)
  BY ONLY <1>4 DEF Stands
<1> QED BY ONLY <1>5, <1>6 DEF StandsOn

\* Only the top goes.
LEMMA StandsFront ==
  ASSUME NEW S, NEW st \in Seq(S), st # << >>, NEW i, Stands(st, i), i # Last(st)
  PROVE  Stands(Front(st), i)
<1>1. PICK n, f : n = Len(st) /\ f = Front(st)
  BY ONLY TRUE
<1>2. n \in Nat \ {0} /\ Len(f) = n - 1 /\ Last(st) = st[n] /\ \A j \in 1 .. (n - 1) : f[j] = st[j]
  BY ONLY <1>1, Dropped, st \in Seq(S), st # << >>
<1>3. PICK j \in 1 .. n : st[j] = i
  BY ONLY <1>1, Stands(st, i) DEF Stands
<1>4. j \in 1 .. (n - 1)
  BY ONLY <1>2, <1>3, i # Last(st)
<1>5. Stands(f, i)
  BY ONLY <1>2, <1>3, <1>4 DEF Stands
<1> QED BY ONLY <1>1, <1>5

\* Something that does not ask is popped.
LEMMA StandsPop ==
  ASSUME NEW S, NEW st \in Seq(S), st # << >>, NEW os, os[Last(st)].cmd \notin Asking
  PROVE  StandsOn(st, Front(st), os)
<1>1. ASSUME NEW i \in 1 .. Len(os), os[i].cmd \in Asking, Stands(st, i) PROVE Stands(Front(st), i)
  <2>1. i # Last(st)
    BY ONLY <1>1, os[Last(st)].cmd \notin Asking
  <2> QED BY ONLY <1>1, <2>1, StandsFront, st \in Seq(S), st # << >>
<1> QED BY ONLY <1>1 DEF StandsOn

-----------------------------------------------------------------------------
(* The steps, and the echo. *)

\* The start of a dialogue.
LEMMA StartGo ==
  ASSUME Typed, Left(objs, cmdstack), Calm(todo, objs, cmdstack, password_input),
         NEW os2, Alike(objs, os2), NEW st2, StandsOn(cmdstack, st2, objs),
         NEW q2, NEW new, Follows(q2, new, todo),
         NEW id \in 1 .. Len(os2), NEW s \in Scripts, Len(s) \in 0 .. Len(new),
         \A k \in 1 .. Len(s) : new[k].do = s[k] /\ new[k].by = id,
         \A k \in 1 .. Len(new) : k > Len(s) => Mellow(new[k], os2),
         os2[id].cmd \in Asking, NEW h, h = password_input, Allowed(s, os2[id], Stands(st2, id), h)
  PROVE  Echoes(q2, os2, st2, h)
<1>1. TodoTyped(todo, objs) /\ Kept(objs, os2)
  BY ONLY Typed, Alike(objs, os2) DEF Typed, Alike
<1>2. Past(todo, 1, objs)
  BY ONLY Calm(todo, objs, cmdstack, password_input) DEF Calm, Past
<1>3. Past(q2, Len(s), os2)
  BY ONLY <1>1, <1>2, PastGo, Follows(q2, new, todo), Len(s) \in 0 .. Len(new),
          \A k \in 1 .. Len(new) : k > Len(s) => Mellow(new[k], os2)
<1>4. Acting(q2, id, s)
  <2>1. Len(new) \in Nat /\ Len(new) <= Len(q2) /\ Len(q2) \in Nat
        /\ \A k \in 1 .. Len(new) : q2[k] = new[k]
    BY ONLY Follows(q2, new, todo) DEF Follows
  <2>2. Len(s) <= Len(q2) /\ 1 .. Len(s) \subseteq 1 .. Len(new)
    BY ONLY <2>1, Len(s) \in 0 .. Len(new)
  <2> QED BY ONLY <2>1, <2>2, \A k \in 1 .. Len(s) : new[k].do = s[k] /\ new[k].by = id DEF Acting
<1>5. Left(os2, st2)
  BY ONLY LeftGo, Left(objs, cmdstack), Alike(objs, os2), StandsOn(cmdstack, st2, objs)
<1>6. h => Hidden(os2, st2)
  BY ONLY HiddenGo, Calm(todo, objs, cmdstack, password_input), Alike(objs, os2),
          StandsOn(cmdstack, st2, objs), h = password_input DEF Calm
<1>7. Within(id, s, q2, os2, st2, h)
  BY ONLY <1>3, <1>4, <1>6, os2[id].cmd \in Asking, Allowed(s, os2[id], Stands(st2, id), h) DEF Within
<1> QED BY ONLY <1>5, <1>7 DEF Echoes

\* What passwd, adduser and ssh start with.
LEMMA StartAllowed ==
  ASSUME NEW c \in Asking, NEW s \in Behaviour(c, 0).start, NEW a, NEW h
  PROVE  s \in {<< >>, <<"raise">>} \/ (s \in Scripts /\ Allowed(s, New(c, a), TRUE, h))
<1>1. CASE c = "passwd"
  <2>1. s = <<"hide">>
    BY ONLY <1>1, PasswdFields, s \in Behaviour(c, 0).start DEF Behaviour
  <2> QED BY ONLY <1>1, <2>1 DEF Allowed, New, Hiding, Scripts
<1>2. CASE c = "adduser"
  <2>1. s \in {<<"exit">>, <<"later">>}
    BY ONLY <1>2, AdduserFields, s \in Behaviour(c, 0).start DEF Behaviour
  <2> QED BY ONLY <1>2, <2>1 DEF Allowed, New, Hiding, Resting, Scripts
<1>3. CASE c = "ssh"
  <2>1. s \in {<<"exit", "raise">>, <<"exit">>, <<"raise">>, << >>}
    BY ONLY <1>3, SshFields, s \in Behaviour(c, 0).start DEF Behaviour
  <2> QED BY ONLY <1>3, <2>1 DEF Allowed, New, Hiding, Scripts
<1> QED BY ONLY <1>1, <1>2, <1>3, c \in Asking DEF Asking

\* Scripts are sequences.
LEMMA ScriptLengths == ASSUME NEW s \in Scripts PROVE Len(s) \in Nat
BY DEF Scripts, Showing

\* No shell asks.
LEMMA AskingPrograms == Asking \subseteq Programs /\ "shell" \notin Asking /\ "subshell" \notin Asking
BY DEF Asking, Programs, Dialogues

\* A command that starts may hide what is typed, and then stands on the stack.
LEMMA EchoCall ==
  ASSUME Prompting, Prompting', Left(objs, cmdstack), Calm(todo, objs, cmdstack, password_input),
         call_command
  PROVE  Echoes(todo', objs', cmdstack', password_input')
<1>1. Typed /\ Bottom(cmdstack) /\ Typed' /\ Bottom(cmdstack')
  BY ONLY Prompting, Prompting' DEF Prompting
<1>2. todo # << >> /\ head.do = "call"
  BY ONLY call_command DEF call_command, Doing
<1>3. head.with \in Seq(Callable) \ {<< >>}
  BY ONLY <1>1, <1>2, HeadItem DEF Sound
<1>4. PICK stage : stage = Head(head.with)
  BY ONLY TRUE
<1>5. stage \in Callable
  BY ONLY <1>3, <1>4, HeadTailProperties
<1>6. stage.cmd \in Programs /\ stage.arg \in Arguments
  BY ONLY <1>5, CallableArguments
<1>7. /\ cmdstack # << >> /\ cmdstack \in Seq(1 .. Len(objs)) /\ ObjectsTyped(objs)
      /\ Len(objs) \in Nat \ {0} /\ Len(cmdstack) \in Nat \ {0}
  BY ONLY <1>1, EmptySeq DEF Bottom, Typed, ObjectsTyped
<1>8. PICK n \in Nat : n = Len(objs) + 1
  BY ONLY <1>7
<1>9. PICK s \in Behaviour(stage.cmd, 0).start :
        /\ objs' = Append(objs, New(stage.cmd, stage.arg))
        /\ cmdstack' = Append(cmdstack, n)
        /\ todo' = Append(Script(n, s, << >>), Item("lost", n, << >>)) \o rest
        /\ password_input' = password_input
  BY ONLY <1>4, <1>7, <1>8, call_command DEF call_command, Then
<1>10. PICK r : r = New(stage.cmd, stage.arg)
  BY ONLY TRUE
<1>11. r \in Objects /\ Quiet(r)
  BY ONLY <1>6, <1>10, Newborn
<1>12. r.cmd = stage.cmd /\ r.phase = 0 /\ r.timers = 0
  BY ONLY <1>10 DEF New
<1>13. objs' = Append(objs, r)
  BY ONLY <1>9, <1>10
<1>14. Len(objs') = n /\ objs'[n] = r /\ Len(objs') \in Nat /\ n \in 1 .. Len(objs')
  <2>1. Len(objs') = Len(objs) + 1 /\ objs'[Len(objs) + 1] = r
    BY ONLY <1>7, <1>11, <1>13, Made
  <2> QED BY ONLY <1>7, <1>8, <2>1
<1>15. Alike(objs, objs')
  BY ONLY <1>7, <1>12, <1>13, AlikeMade
<1>16. StandsOn(cmdstack, cmdstack', objs) /\ Stands(cmdstack', n)
  BY ONLY <1>7, <1>9, StandsPush
<1>17. PICK new : new = Append(Script(n, s, << >>), Item("lost", n, << >>))
  BY ONLY TRUE
<1>18. Opens(s)
  <2>1. 0 \in Int
    BY ONLY TRUE
  <2>2. \A x \in Behaviour(stage.cmd, 0).start : Opens(x)
    BY ONLY <1>6, <2>1, Handlers
  <2> QED BY ONLY <1>9, <2>2
<1>19. Len(cmdstack') >= 2
  <2>1. Len(cmdstack') = Len(cmdstack) + 1
    <3>1. 1 .. Len(objs) \subseteq Nat
      BY ONLY <1>7
    <3>2. cmdstack \in Seq(Nat)
      BY ONLY <1>7, <3>1, SeqMonotonic
    <3> QED BY ONLY <1>9, <3>2, Added
  <2> QED BY ONLY <1>7, <2>1
<1>20. /\ TodoTyped(new, objs') /\ Len(new) = Len(s) + 1 /\ Len(s) \in Nat
       /\ \A k \in 1 .. Len(s) : new[k] = [do |-> s[k], by |-> n, with |-> << >>]
       /\ new[Len(s) + 1] = [do |-> "lost", by |-> n, with |-> << >>]
  <2>1. objs'[n].cmd \in Programs
    BY ONLY <1>6, <1>12, <1>14
  <2>2. PICK os, st : os = objs' /\ st = cmdstack'
    BY ONLY TRUE
  <2>3. Len(os) \in Nat /\ n \in 1 .. Len(os) /\ os[n].cmd \in Programs /\ Len(st) >= 2
    BY ONLY <1>14, <1>19, <2>1, <2>2
  <2>4. /\ TodoTyped(new, os) /\ Len(new) = Len(s) + 1 /\ Len(s) \in Nat
        /\ \A k \in 1 .. Len(s) : new[k] = [do |-> s[k], by |-> n, with |-> << >>]
        /\ new[Len(s) + 1] = [do |-> "lost", by |-> n, with |-> << >>]
    BY ONLY <1>17, <1>18, <2>3, Started, ZenonT(60)
  <2> QED BY ONLY <2>2, <2>4
<1>21. Follows(todo', new, todo)
  <2>1. new \in Seq(Items) /\ todo' = new \o rest
    BY ONLY <1>9, <1>17, <1>20 DEF TodoTyped
  <2> QED BY ONLY <1>1, <1>2, <2>1, FollowsMany
<1>22. Mellow(new[Len(s) + 1], objs')
  <2>1. PICK x : x = new[Len(s) + 1]
    BY ONLY TRUE
  <2>2. x.do = "lost"
    BY ONLY <1>20, <2>1
  <2> QED BY ONLY <2>1, <2>2 DEF Mellow
<1>23. ASSUME NEW k \in 1 .. Len(s) PROVE new[k].do = s[k] /\ new[k].by = n
  <2>1. new[k] = [do |-> s[k], by |-> n, with |-> << >>]
    BY ONLY <1>20, k \in 1 .. Len(s)
  <2> QED BY ONLY <2>1
<1>24. \A k \in 1 .. Len(new) : k > Len(s) => k = Len(s) + 1
  BY ONLY <1>20
<1>25. Len(s) \in 0 .. Len(new)
  BY ONLY <1>20
<1>26. CASE stage.cmd \notin Asking \/ s \in {<< >>, <<"raise">>}
  <2>1. \A k \in 1 .. Len(s) : s[k] \notin {"hide", "show"} /\ (stage.cmd \in Asking => s[k] = "raise")
    <3>1. CASE s \in {<< >>, <<"raise">>}
      BY ONLY <3>1
    <3>2. CASE stage.cmd \notin Asking
      <4>1. 0 \in Int
        BY ONLY TRUE
      <4>2. Tame(s)
        BY ONLY <1>6, <1>9, <3>2, <4>1, Tamed
      <4> QED BY ONLY <3>2, <4>2 DEF Tame
    <3> QED BY ONLY <1>26, <3>1, <3>2
  <2>2. \A k \in 1 .. Len(s) : Mellow(new[k], objs')
    BY ONLY <1>12, <1>14, <1>23, <2>1 DEF Mellow
  <2>3. \A k \in 1 .. Len(new) : Mellow(new[k], objs')
    <3>1. \A k \in 1 .. Len(new) : k \in 1 .. Len(s) \/ k = Len(s) + 1
      BY ONLY <1>20
    <3> QED BY ONLY <1>22, <2>2, <3>1
  <2> QED BY ONLY <1>1, <1>9, <1>15, <1>16, <1>21, <2>3, CalmGo, Left(objs, cmdstack),
                  Calm(todo, objs, cmdstack, password_input)
<1>27. CASE stage.cmd \in Asking /\ s \notin {<< >>, <<"raise">>}
  <2>1. s \in Scripts /\ Allowed(s, r, TRUE, password_input')
    BY ONLY <1>9, <1>10, <1>27, StartAllowed
  <2>2. Allowed(s, objs'[n], Stands(cmdstack', n), password_input')
    BY ONLY <1>14, <1>16, <2>1 DEF Allowed
  <2>3. objs'[n].cmd \in Asking
    BY ONLY <1>12, <1>14, <1>27
  <2>4. \A k \in 1 .. Len(new) : k > Len(s) => Mellow(new[k], objs')
    BY ONLY <1>22, <1>24
  <2> QED BY ONLY <1>1, <1>9, <1>14, <1>15, <1>16, <1>21, <1>23, <1>25, <2>1, <2>2, <2>3, <2>4, StartGo,
                  Left(objs, cmdstack), Calm(todo, objs, cmdstack, password_input)
<1> QED BY ONLY <1>26, <1>27

\* No step in front.
LEMMA EchoNone ==
  ASSUME Typed, todo # << >>, Left(objs, cmdstack), Calm(todo, objs, cmdstack, password_input),
         NEW os2, Alike(objs, os2), NEW st2, StandsOn(cmdstack, st2, objs),
         NEW q2, q2 = << >> \o rest, NEW h, h = password_input
  PROVE  Echoes(q2, os2, st2, h)
<1>1. PICK new : new = << >>
  BY ONLY TRUE
<1>2. Follows(q2, new, todo) /\ Len(new) = 0
  BY ONLY <1>1, FollowsNone, Typed, todo # << >>, q2 = << >> \o rest
<1>3. 1 .. 0 = {}
  BY ONLY TRUE
<1>4. \A k \in 1 .. Len(new) : Mellow(new[k], os2)
  BY ONLY <1>2, <1>3
<1> QED BY ONLY <1>2, <1>4, CalmGo, Typed, Left(objs, cmdstack), Alike(objs, os2),
                Calm(todo, objs, cmdstack, password_input), StandsOn(cmdstack, st2, objs), h = password_input

\* One step in front, that begins no dialogue.
LEMMA EchoOne ==
  ASSUME Typed, todo # << >>, Left(objs, cmdstack), Calm(todo, objs, cmdstack, password_input),
         NEW os2, Alike(objs, os2), NEW st2, StandsOn(cmdstack, st2, objs), NEW item, Mellow(item, os2),
         NEW q2, q2 = <<item>> \o rest, NEW h, h = password_input
  PROVE  Echoes(q2, os2, st2, h)
<1>1. PICK new : new = <<item>>
  BY ONLY TRUE
<1>2. Follows(q2, new, todo) /\ Len(new) = 1 /\ new[1] = item
  BY ONLY <1>1, FollowsOne, Typed, todo # << >>, q2 = <<item>> \o rest
<1>3. \A k \in 1 .. 1 : k = 1
  BY ONLY TRUE
<1>4. \A k \in 1 .. Len(new) : Mellow(new[k], os2)
  BY ONLY <1>2, <1>3, Mellow(item, os2)
<1> QED BY ONLY <1>2, <1>4, CalmGo, Typed, Left(objs, cmdstack), Alike(objs, os2),
                Calm(todo, objs, cmdstack, password_input), StandsOn(cmdstack, st2, objs), h = password_input

\* Outside of a dialogue a command that asks takes few steps.
LEMMA CalmHead ==
  ASSUME Typed, todo # << >>, Calm(todo, objs, cmdstack, password_input)
  PROVE  /\ head.do \notin {"hide", "show"}
         /\ objs[head.by].cmd \in Asking => head.do \in {"lost", "raise", "call"}
<1>1. head = todo[1] /\ 1 \in 1 .. Len(todo)
  BY ONLY Typed, todo # << >>, HeadItem
<1>2. Mellow(head, objs)
  <2>1. 1 > 0
    BY ONLY TRUE
  <2> QED BY ONLY <1>1, <2>1, Calm(todo, objs, cmdstack, password_input) DEF Calm, Past
<1> QED BY ONLY <1>2 DEF Mellow

\* The rest of a chain is called.
LEMMA EchoLost ==
  ASSUME Prompting, Left(objs, cmdstack), Calm(todo, objs, cmdstack, password_input), outConnectionLost
  PROVE  Echoes(todo', objs', cmdstack', password_input')
<1>1. Typed /\ todo # << >> /\ objs' = objs /\ cmdstack' = cmdstack /\ password_input' = password_input
  BY ONLY Prompting, outConnectionLost DEF Prompting, outConnectionLost, Doing
<1>2. Alike(objs, objs) /\ StandsOn(cmdstack, cmdstack, objs)
  BY ONLY <1>1, AlikeSelf, StandsSelf DEF Typed
<1>3. CASE pp = << >>
  <2>1. todo' = << >> \o rest
    BY ONLY <1>3, outConnectionLost DEF outConnectionLost, Then
  <2> QED BY ONLY <1>1, <1>2, <2>1, EchoNone, Left(objs, cmdstack),
                  Calm(todo, objs, cmdstack, password_input)
<1>4. CASE pp # << >>
  <2>1. PICK item : item = [do |-> "call", by |-> head.by, with |-> pp]
    BY ONLY TRUE
  <2>2. todo' = <<item>> \o rest
    BY ONLY <1>4, <2>1, outConnectionLost DEF outConnectionLost, Then, Item
  <2>3. Mellow(item, objs)
    BY ONLY <2>1 DEF Mellow
  <2> QED BY ONLY <1>1, <1>2, <2>2, <2>3, EchoOne, Left(objs, cmdstack),
                  Calm(todo, objs, cmdstack, password_input)
<1> QED BY ONLY <1>3, <1>4

\* Who resumes is a shell.
LEMMA Resumes ==
  ASSUME NEW st
  PROVE  Resume(st) = << >> \/ \E item : Resume(st) = <<item>> /\ Mellow(item, objs)
<1>1. CASE st # << >> /\ IsShell(Last(st))
  <2>1. PICK item : item = [do |-> "run", by |-> Last(st), with |-> << >>]
    BY ONLY TRUE
  <2>2. Resume(st) = <<item>>
    BY ONLY <1>1, <2>1 DEF Resume, Item
  <2>3. objs[item.by].cmd \notin Asking
    BY ONLY <1>1, <2>1, AskingPrograms DEF IsShell
  <2>4. Mellow(item, objs)
    BY ONLY <2>1, <2>3 DEF Mellow
  <2> QED BY ONLY <2>2, <2>4
<1>2. CASE ~ (st # << >> /\ IsShell(Last(st)))
  BY ONLY <1>2 DEF Resume
<1> QED BY ONLY <1>1, <1>2

\* Who exits outside of a dialogue is no command that asks.
LEMMA EchoExit ==
  ASSUME Prompting, Left(objs, cmdstack), Calm(todo, objs, cmdstack, password_input), ExitStep, Clean'
  PROVE  Echoes(todo', objs', cmdstack', password_input')
<1>1. Typed /\ todo # << >> /\ Bottom(cmdstack) /\ head.do = "exit"
  BY ONLY Prompting, ExitStep DEF Prompting, ExitStep, Doing
<1>2. cmdstack # << >>
  BY ONLY <1>1, EmptySeq DEF Bottom
<1>3. /\ cmdstack' = Front(cmdstack) /\ todo' = Resume(Front(cmdstack)) \o rest
      /\ objs' = objs /\ Last(cmdstack) = head.by /\ password_input' = password_input
  BY ONLY <1>2, ExitStep, Clean' DEF ExitStep, Then, Clean
<1>4. objs[Last(cmdstack)].cmd \notin Asking
  BY ONLY <1>1, <1>3, CalmHead, Calm(todo, objs, cmdstack, password_input)
<1>5. cmdstack \in Seq(1 .. Len(objs)) /\ Alike(objs, objs)
  BY ONLY <1>1, AlikeSelf DEF Typed
<1>6. StandsOn(cmdstack, cmdstack', objs)
  BY ONLY <1>2, <1>3, <1>4, <1>5, StandsPop
<1>7. PICK new : new = Resume(Front(cmdstack))
  BY ONLY TRUE
<1>8. new = << >> \/ \E item : new = <<item>> /\ Mellow(item, objs)
  BY ONLY <1>7, Resumes
<1>9. CASE new = << >>
  <2>1. todo' = << >> \o rest
    BY ONLY <1>3, <1>7, <1>9
  <2> QED BY ONLY <1>1, <1>3, <1>5, <1>6, <2>1, EchoNone, Left(objs, cmdstack),
                  Calm(todo, objs, cmdstack, password_input)
<1>10. CASE \E item : new = <<item>> /\ Mellow(item, objs)
  <2>1. PICK item : new = <<item>> /\ Mellow(item, objs)
    BY ONLY <1>10
  <2>2. todo' = <<item>> \o rest
    BY ONLY <1>3, <1>7, <2>1
  <2> QED BY ONLY <1>1, <1>3, <1>5, <1>6, <2>1, <2>2, EchoOne, Left(objs, cmdstack),
                  Calm(todo, objs, cmdstack, password_input)
<1> QED BY ONLY <1>8, <1>9, <1>10

\* An exception before the step is taken spoils the run too.
LEMMA RaiseBefore ==
  ASSUME Typed, todo # << >>, todo' = <<Raise>> \o todo
  PROVE  ~ Clean'
<1>1. PICK r, t : r = <<Raise>> /\ t = todo
  BY ONLY TRUE
<1>2. Raise \in Items
  BY ONLY Withs0 DEF Raise, Item, Items, Steps
<1>3. t \in Seq(Items) /\ Len(t) \in Nat
  BY ONLY <1>1, LenProperties, Typed DEF Typed, TodoTyped
<1>4. r \in Seq(Items) /\ Len(r) = 1 /\ r[1] = Raise
  BY ONLY <1>1, <1>2
<1>5. /\ Len(r \o t) = Len(r) + Len(t) /\ r \o t \in Seq(Items)
      /\ \A i \in 1 .. Len(r) + Len(t) : (r \o t)[i] = IF i <= Len(r) THEN r[i] ELSE t[i - Len(r)]
  BY ONLY <1>3, <1>4, ConcatProperties
<1>6. (r \o t)[1] = Raise /\ r \o t # << >>
  BY ONLY <1>3, <1>4, <1>5
<1>7. todo' # << >> /\ Head(todo') = Raise
  BY ONLY <1>1, <1>5, <1>6, HeadTailProperties, EmptySeq, todo' = <<Raise>> \o todo
<1>8. Doing("raise")'
  BY ONLY <1>7 DEF Doing, head, Raise, Item
<1> QED BY ONLY <1>8 DEF Clean

\* The shell of a $(...) or an sh -c is popped.
LEMMA EchoPop ==
  ASSUME Prompting, Left(objs, cmdstack), Calm(todo, objs, cmdstack, password_input), Clean',
         SubstitutionDone \/ ShDone
  PROVE  Echoes(todo', objs', cmdstack', password_input')
<1>1. /\ Typed /\ todo # << >> /\ Bottom(cmdstack) /\ Waits(todo, cmdstack, objs)
      /\ head.do \in {"unsub", "unshell"} /\ objs' = objs /\ password_input' = password_input
  BY ONLY Prompting, SubstitutionDone \/ ShDone DEF Prompting, SubstitutionDone, ShDone, Doing
<1>2. cmdstack # << >>
  BY ONLY <1>1, EmptySeq DEF Bottom
<1>3. head = todo[1] /\ 1 \in 1 .. Len(todo)
  BY ONLY <1>1, HeadItem
<1>4. Stacked(head, cmdstack, objs)
  BY ONLY <1>1, <1>3 DEF Waits
<1>5. /\ cmdstack' = Front(cmdstack) /\ todo' = << >> \o rest
      /\ Last(cmdstack) = (IF head.do = "unsub" THEN head.with[1] ELSE head.by)
  <2>1. CASE ShDone
    BY ONLY <1>2, <2>1, Clean' DEF ShDone, Then, Doing, Clean
  <2>2. CASE SubstitutionDone
    <3>1. CASE \E i \in DOMAIN objs : ~ IsShell(i)
      BY ONLY <1>2, <2>2, <3>1, Clean' DEF SubstitutionDone, Then, Doing, Clean
    <3>2. CASE ~ \E i \in DOMAIN objs : ~ IsShell(i)
      <4>1. todo' = <<Raise>> \o todo
        BY ONLY <1>2, <2>2, <3>2 DEF SubstitutionDone
      <4> QED BY ONLY <1>1, <4>1, RaiseBefore, Clean'
    <3> QED BY ONLY <3>1, <3>2
  <2> QED BY ONLY <2>1, <2>2, SubstitutionDone \/ ShDone
<1>6. objs[Last(cmdstack)].cmd \notin Asking
  <2>1. objs[Last(cmdstack)].cmd = "subshell"
    BY ONLY <1>1, <1>4, <1>5 DEF Stacked
  <2> QED BY ONLY <2>1, AskingPrograms
<1>7. cmdstack \in Seq(1 .. Len(objs)) /\ Alike(objs, objs)
  BY ONLY <1>1, AlikeSelf DEF Typed
<1>8. StandsOn(cmdstack, cmdstack', objs)
  BY ONLY <1>2, <1>5, <1>6, <1>7, StandsPop
<1> QED BY ONLY <1>1, <1>5, <1>7, <1>8, EchoNone, Left(objs, cmdstack),
                Calm(todo, objs, cmdstack, password_input)

\* Who takes another step outside of a dialogue is no command that asks.
LEMMA NotAsked ==
  ASSUME Prompting, todo # << >>, Calm(todo, objs, cmdstack, password_input),
         head.do \notin {"lost", "raise", "call"}
  PROVE  /\ Typed /\ ObjectsTyped(objs) /\ cmdstack \in Seq(1 .. Len(objs))
         /\ Alike(objs, objs) /\ StandsOn(cmdstack, cmdstack, objs)
         /\ head.by \in 1 .. Len(objs) /\ objs[head.by].cmd \notin Asking
<1>1. Typed /\ ObjectsTyped(objs) /\ cmdstack \in Seq(1 .. Len(objs))
  BY ONLY Prompting DEF Prompting, Typed
<1>2. Alike(objs, objs) /\ StandsOn(cmdstack, cmdstack, objs)
  BY ONLY <1>1, AlikeSelf, StandsSelf
<1>3. head.by \in 1 .. Len(objs)
  BY ONLY <1>1, HeadItem, todo # << >>
<1>4. objs[head.by].cmd \notin Asking
  BY ONLY <1>1, CalmHead, todo # << >>, Calm(todo, objs, cmdstack, password_input),
          head.do \notin {"lost", "raise", "call"}
<1> QED BY ONLY <1>1, <1>2, <1>3, <1>4

\* A shell runs what is pending.
LEMMA EchoRun ==
  ASSUME Prompting, Prompting', Left(objs, cmdstack), Calm(todo, objs, cmdstack, password_input),
         runCommand, Clean'
  PROVE  Echoes(todo', objs', cmdstack', password_input')
<1>1. todo # << >> /\ head.do = "run" /\ cmdstack' = cmdstack /\ password_input' = password_input
  BY ONLY runCommand DEF runCommand, Doing
<1>2. /\ Typed /\ ObjectsTyped(objs) /\ Alike(objs, objs) /\ StandsOn(cmdstack, cmdstack, objs)
      /\ head.by \in 1 .. Len(objs) /\ objs[head.by].cmd \notin Asking
  BY ONLY <1>1, NotAsked, Prompting, Calm(todo, objs, cmdstack, password_input)
<1>3. ObjectsTyped(objs')
  BY ONLY Prompting' DEF Prompting, Typed
<1>4. CASE me.pending = << >>
  <2>1. todo' = << >> \o rest /\ objs' = objs
    BY ONLY <1>4, runCommand DEF runCommand, Then
  <2> QED BY ONLY <1>1, <1>2, <2>1, EchoNone, Left(objs, cmdstack),
                  Calm(todo, objs, cmdstack, password_input)
<1>5. CASE me.pending # << >>
  <2>1. PICK b \in 1 .. Len(objs) : b = head.by
    BY ONLY <1>2
  <2>2. PICK w, p : w = Tail(me.pending) /\ p = Head(me.pending)
    BY ONLY TRUE
  <2>3. objs' = Pend(objs, b, w)
    <3>1. objs' = [objs EXCEPT ![head.by].pending = Tail(objs[head.by].pending)]
      BY ONLY <1>5, runCommand DEF runCommand
    <3> QED BY ONLY <2>1, <2>2, <3>1 DEF me, Pend
  <2>4. Alike(objs, objs')
    BY ONLY <1>2, <1>3, <2>3, AlikePend
  <2>5. objs'[b].cmd \notin Asking
    BY ONLY <1>2, <2>1, <2>4, b \in 1 .. Len(objs) DEF Alike, Kept
  <2>6. PICK words : words = {p[i].cmd : i \in DOMAIN p}
    BY ONLY TRUE
  <2>7. CASE "missing" \in words
    <3>1. todo' = <<Raise>> \o rest
      BY ONLY <1>5, <2>2, <2>6, <2>7, runCommand DEF runCommand, Then
    <3> QED BY ONLY <1>1, <1>2, <3>1, RaiseFirst, Clean'
  <2>8. CASE "missing" \notin words /\ (words = {} \/ "unknown" \in words) /\ Len(me.pending) = 1
    <3>1. todo' = << >> \o rest
      BY ONLY <1>5, <2>2, <2>6, <2>8, runCommand DEF runCommand, Then
    <3> QED BY ONLY <1>1, <1>2, <2>4, <3>1, EchoNone, Left(objs, cmdstack),
                    Calm(todo, objs, cmdstack, password_input)
  <2>9. CASE "missing" \notin words /\ (words = {} \/ "unknown" \in words) /\ Len(me.pending) # 1
    <3>1. PICK item : item = head
      BY ONLY TRUE
    <3>2. todo' = <<item>> \o rest
      BY ONLY <1>5, <2>2, <2>6, <2>9, <3>1, runCommand DEF runCommand, Then
    <3>3. Mellow(item, objs')
      BY ONLY <1>1, <2>1, <2>5, <3>1 DEF Mellow
    <3> QED BY ONLY <1>1, <1>2, <2>4, <3>2, <3>3, EchoOne, Left(objs, cmdstack),
                    Calm(todo, objs, cmdstack, password_input)
  <2>10. CASE "missing" \notin words /\ words # {} /\ "unknown" \notin words
    <3>1. PICK item : item = [do |-> "call", by |-> head.by, with |-> p]
      BY ONLY TRUE
    <3>2. todo' = <<item>> \o rest
      BY ONLY <1>5, <2>2, <2>6, <2>10, <3>1, runCommand DEF runCommand, Then, Item
    <3>3. Mellow(item, objs')
      BY ONLY <3>1 DEF Mellow
    <3> QED BY ONLY <1>1, <1>2, <2>4, <3>2, <3>3, EchoOne, Left(objs, cmdstack),
                    Calm(todo, objs, cmdstack, password_input)
  <2> QED BY ONLY <2>7, <2>8, <2>9, <2>10
<1> QED BY ONLY <1>4, <1>5

\* A shell is pushed, with steps that begin no dialogue.
LEMMA EchoPush ==
  ASSUME Prompting, todo # << >>, Left(objs, cmdstack), Calm(todo, objs, cmdstack, password_input),
         head.do \notin {"lost", "raise", "call"}, NEW n, n = Len(objs) + 1,
         objs' = Append(objs, New("subshell", << >>)), cmdstack' = Append(cmdstack, n),
         NEW S, NEW new \in Seq(S), todo' = new \o rest,
         \A k \in 1 .. Len(new) : new[k].do \in {"parse", "unsub", "unshell"} /\ new[k].by \in {head.by, n},
         password_input' = password_input
  PROVE  Echoes(todo', objs', cmdstack', password_input')
<1>1. /\ Typed /\ ObjectsTyped(objs) /\ cmdstack \in Seq(1 .. Len(objs))
      /\ head.by \in 1 .. Len(objs) /\ objs[head.by].cmd \notin Asking
  BY ONLY NotAsked, Prompting, todo # << >>, Calm(todo, objs, cmdstack, password_input),
          head.do \notin {"lost", "raise", "call"}
<1>2. Bottom(cmdstack)
  BY ONLY Prompting DEF Prompting
<1>3. objs'[n].cmd = "subshell"
  BY ONLY <1>1, <1>2, Pushing, n = Len(objs) + 1, objs' = Append(objs, New("subshell", << >>)),
          cmdstack' = Append(cmdstack, n)
<1>4. PICK r : r = New("subshell", << >>)
  BY ONLY TRUE
<1>5. r.cmd # "adduser"
  BY ONLY <1>4 DEF New
<1>6. Alike(objs, objs')
  BY ONLY <1>1, <1>4, <1>5, AlikeMade, objs' = Append(objs, New("subshell", << >>))
<1>7. StandsOn(cmdstack, cmdstack', objs)
  BY ONLY <1>1, StandsPush, cmdstack' = Append(cmdstack, n)
<1>8. Follows(todo', new, todo)
  BY ONLY <1>1, FollowsMany, todo # << >>, new \in Seq(S), todo' = new \o rest
<1>9. objs'[head.by].cmd \notin Asking /\ objs'[n].cmd \notin Asking
  BY ONLY <1>1, <1>3, <1>6, AskingPrograms DEF Alike, Kept
<1>10. ASSUME NEW k \in 1 .. Len(new) PROVE Mellow(new[k], objs')
  BY ONLY <1>9, k \in 1 .. Len(new),
          \A i \in 1 .. Len(new) : new[i].do \in {"parse", "unsub", "unshell"} /\ new[i].by \in {head.by, n}
     DEF Mellow
<1> QED BY ONLY <1>1, <1>6, <1>7, <1>8, <1>10, CalmGo, Left(objs, cmdstack),
                Calm(todo, objs, cmdstack, password_input), password_input' = password_input

\* A shell reads a line.
LEMMA EchoParse ==
  ASSUME Prompting, Prompting', Left(objs, cmdstack), Calm(todo, objs, cmdstack, password_input), Parse
  PROVE  Echoes(todo', objs', cmdstack', password_input')
<1>1. todo # << >> /\ head.do = "parse" /\ password_input' = password_input
  BY ONLY Parse DEF Parse, Doing
<1>2. /\ Typed /\ ObjectsTyped(objs) /\ Alike(objs, objs) /\ StandsOn(cmdstack, cmdstack, objs)
      /\ head.by \in 1 .. Len(objs) /\ objs[head.by].cmd \notin Asking
  BY ONLY <1>1, NotAsked, Prompting, Calm(todo, objs, cmdstack, password_input)
<1>3. ObjectsTyped(objs')
  BY ONLY Prompting' DEF Prompting, Typed
<1>4. PICK b \in 1 .. Len(objs) : b = head.by
  BY ONLY <1>2
<1>5. CASE head.with = << >> /\ me.pending = << >>
  <2>1. todo' = << >> \o rest /\ objs' = objs /\ cmdstack' = cmdstack
    BY ONLY <1>5, Parse DEF Parse, Then
  <2> QED BY ONLY <1>1, <1>2, <2>1, EchoNone, Left(objs, cmdstack),
                  Calm(todo, objs, cmdstack, password_input)
<1>6. CASE head.with = << >> /\ me.pending # << >>
  <2>1. PICK item : item = [do |-> "run", by |-> b, with |-> << >>]
    BY ONLY TRUE
  <2>2. todo' = <<item>> \o rest /\ objs' = objs /\ cmdstack' = cmdstack
    BY ONLY <1>4, <1>6, <2>1, Parse DEF Parse, Then, Item
  <2>3. Mellow(item, objs)
    BY ONLY <1>2, <1>4, <2>1 DEF Mellow
  <2> QED BY ONLY <1>1, <1>2, <2>2, <2>3, EchoOne, Left(objs, cmdstack),
                  Calm(todo, objs, cmdstack, password_input)
<1>7. CASE head.with # << >>
  <2>1. PICK p, more : p = Head(head.with) /\ more = Tail(head.with)
    BY ONLY TRUE
  <2>2. CASE p.sub # << >>
    <3>1. PICK n : n = Len(objs) + 1
      BY ONLY TRUE
    <3>2. PICK v, w : /\ v = <<[sub |-> << >>, stages |-> p.sub]>>
                      /\ w = <<[sub |-> << >>, stages |-> p.stages]>> \o more
      BY ONLY TRUE
    <3>3. Subshell(p.sub, <<Item("unsub", head.by, <<NewId>>), Item("parse", head.by, w)>>)
      BY ONLY <1>7, <2>1, <2>2, <3>2, Parse DEF Parse
    <3>4. PICK x, y, z : /\ x = [do |-> "parse", by |-> n, with |-> v]
                         /\ y = [do |-> "unsub", by |-> head.by, with |-> <<n>>]
                         /\ z = [do |-> "parse", by |-> head.by, with |-> w]
      BY ONLY TRUE
    <3>5. objs' = Append(objs, New("subshell", << >>)) /\ cmdstack' = Append(cmdstack, n)
          /\ todo' = (<<x>> \o <<y, z>>) \o rest
      BY ONLY <3>1, <3>2, <3>3, <3>4 DEF Subshell, NewId, Item, Then
    <3>6. PICK S, new : S = {x, y, z} /\ new = <<x, y, z>>
      BY ONLY TRUE
    <3>7. new \in Seq(S) /\ Len(new) = 3 /\ new[1] = x /\ new[2] = y /\ new[3] = z
      BY ONLY <3>6
    <3>8. todo' = new \o rest
      <4>1. <<x>> \o <<y, z>> = <<x, y, z>>
        BY ONLY Three
      <4> QED BY ONLY <3>5, <3>6, <4>1
    <3>9. /\ x.do = "parse" /\ x.by = n /\ y.do = "unsub" /\ y.by = head.by
          /\ z.do = "parse" /\ z.by = head.by
      BY ONLY <3>4
    <3>10. \A k \in 1 .. Len(new) : new[k].do \in {"parse", "unsub", "unshell"}
                                    /\ new[k].by \in {head.by, n}
      <4>1. \A k \in 1 .. 3 : k = 1 \/ k = 2 \/ k = 3
        BY ONLY TRUE
      <4> QED BY ONLY <3>7, <3>9, <4>1
    <3>11. head.do \notin {"lost", "raise", "call"}
      BY ONLY <1>1
    <3> QED BY ONLY <1>1, <3>1, <3>5, <3>7, <3>8, <3>10, <3>11, EchoPush, Prompting,
                    Left(objs, cmdstack), Calm(todo, objs, cmdstack, password_input)
  <2>3. CASE p.sub = << >> /\ p.stages # << >> /\ p.stages[1].cmd = "quote"
    <3>1. PICK w : w = << >>
      BY ONLY TRUE
    <3>2. objs' = [objs EXCEPT ![head.by].pending = << >>] /\ todo' = << >> \o rest
          /\ cmdstack' = cmdstack
      BY ONLY <1>7, <2>1, <2>3, Parse DEF Parse, Then
    <3>3. objs' = Pend(objs, b, w)
      BY ONLY <1>4, <3>1, <3>2 DEF Pend
    <3>4. Alike(objs, objs')
      BY ONLY <1>2, <1>3, <3>3, AlikePend
    <3> QED BY ONLY <1>1, <1>2, <3>2, <3>4, EchoNone, Left(objs, cmdstack),
                    Calm(todo, objs, cmdstack, password_input)
  <2>5. CASE p.sub = << >> /\ p.stages # << >> /\ p.stages[1].cmd = "stop"
    <3>1. PICK item : item = [do |-> "parse", by |-> b, with |-> << >>]
      BY ONLY TRUE
    <3>2. todo' = <<item>> \o rest /\ objs' = objs /\ cmdstack' = cmdstack
      BY ONLY <1>4, <1>7, <2>1, <2>5, <3>1, Parse DEF Parse, Then, Item
    <3>3. Mellow(item, objs)
      BY ONLY <1>2, <1>4, <3>1 DEF Mellow
    <3> QED BY ONLY <1>1, <1>2, <3>2, <3>3, EchoOne, Left(objs, cmdstack),
                    Calm(todo, objs, cmdstack, password_input)
  <2>4. CASE p.sub = << >> /\ ~ (p.stages # << >> /\ p.stages[1].cmd \in {"quote", "stop"})
    <3>1. PICK w : w = Append(objs[head.by].pending, p.stages)
      BY ONLY TRUE
    <3>2. PICK item : item = [do |-> "parse", by |-> b, with |-> more]
      BY ONLY TRUE
    <3>3. /\ objs' = [objs EXCEPT ![head.by].pending = Append(objs[head.by].pending, p.stages)]
          /\ todo' = <<item>> \o rest /\ cmdstack' = cmdstack
      BY ONLY <1>4, <1>7, <2>1, <2>4, <3>2, Parse DEF Parse, Then, Item
    <3>4. objs' = Pend(objs, b, w)
      BY ONLY <1>4, <3>1, <3>3 DEF Pend
    <3>5. Alike(objs, objs')
      BY ONLY <1>2, <1>3, <3>4, AlikePend
    <3>6. objs'[b].cmd \notin Asking
      BY ONLY <1>2, <1>4, <3>5, b \in 1 .. Len(objs) DEF Alike, Kept
    <3>7. Mellow(item, objs')
      BY ONLY <3>2, <3>6 DEF Mellow
    <3> QED BY ONLY <1>1, <1>2, <3>3, <3>5, <3>7, EchoOne, Left(objs, cmdstack),
                    Calm(todo, objs, cmdstack, password_input)
  <2> QED BY ONLY <2>2, <2>3, <2>4, <2>5
<1> QED BY ONLY <1>5, <1>6, <1>7

\* sh -c starts.
LEMMA EchoSub ==
  ASSUME Prompting, Left(objs, cmdstack), Calm(todo, objs, cmdstack, password_input), Sub, Clean'
  PROVE  Echoes(todo', objs', cmdstack', password_input')
<1>1. todo # << >> /\ head.do = "sub" /\ password_input' = password_input
  BY ONLY Sub DEF Sub, Doing
<1>2. /\ Typed /\ Alike(objs, objs) /\ StandsOn(cmdstack, cmdstack, objs)
  BY ONLY <1>1, NotAsked, Prompting, Calm(todo, objs, cmdstack, password_input)
<1>3. CASE me.arg = << >>
  <2>1. objs' = objs /\ cmdstack' = cmdstack /\ (todo' = rest \/ todo' = <<Raise>> \o rest)
    BY ONLY <1>3, Sub DEF Sub
  <2>2. todo' = rest
    BY ONLY <1>1, <1>2, <2>1, RaiseFirst, Clean'
  <2>3. todo' = << >> \o rest
    <3>1. rest \in Seq(Items)
      BY ONLY <1>1, <1>2, HeadTailProperties DEF Typed, TodoTyped, rest
    <3>2. << >> \o rest = rest
      BY ONLY <3>1, ConcatEmptySeq
    <3> QED BY ONLY <2>2, <3>2
  <2> QED BY ONLY <1>1, <1>2, <2>1, <2>3, EchoNone, Left(objs, cmdstack),
                  Calm(todo, objs, cmdstack, password_input)
<1>4. CASE me.arg # << >>
  <2>1. PICK n : n = Len(objs) + 1
    BY ONLY TRUE
  <2>2. Subshell(me.arg, <<Item("unshell", NewId, << >>)>>)
    BY ONLY <1>4, Sub DEF Sub
  <2>3. PICK x, y : /\ x = [do |-> "parse", by |-> n, with |-> <<[sub |-> << >>, stages |-> me.arg]>>]
                    /\ y = [do |-> "unshell", by |-> n, with |-> << >>]
    BY ONLY TRUE
  <2>4. objs' = Append(objs, New("subshell", << >>)) /\ cmdstack' = Append(cmdstack, n)
        /\ todo' = (<<x>> \o <<y>>) \o rest
    BY ONLY <2>1, <2>2, <2>3 DEF Subshell, NewId, Item, Then
  <2>5. PICK S, new : S = {x, y} /\ new = <<x, y>>
    BY ONLY TRUE
  <2>6. new \in Seq(S) /\ Len(new) = 2 /\ new[1] = x /\ new[2] = y
    BY ONLY <2>5
  <2>7. todo' = new \o rest
    <3>1. <<x>> \o <<y>> = <<x, y>>
      BY ONLY Two
    <3> QED BY ONLY <2>4, <2>5, <3>1
  <2>8. x.do = "parse" /\ x.by = n /\ y.do = "unshell" /\ y.by = n
    BY ONLY <2>3
  <2>9. \A k \in 1 .. Len(new) : new[k].do \in {"parse", "unsub", "unshell"}
                                 /\ new[k].by \in {head.by, n}
    <3>1. \A k \in 1 .. 2 : k = 1 \/ k = 2
      BY ONLY TRUE
    <3> QED BY ONLY <2>6, <2>8, <3>1
  <2>10. head.do \notin {"lost", "raise", "call"}
    BY ONLY <1>1
  <2> QED BY ONLY <1>1, <2>1, <2>4, <2>6, <2>7, <2>9, <2>10, EchoPush, Prompting,
                  Left(objs, cmdstack), Calm(todo, objs, cmdstack, password_input)
<1> QED BY ONLY <1>3, <1>4

\* A line is queued.
LEMMA EchoQueue ==
  ASSUME Prompting, Prompting', Left(objs, cmdstack), Calm(todo, objs, cmdstack, password_input),
         Queue, Clean'
  PROVE  Echoes(todo', objs', cmdstack', password_input')
<1>1. todo # << >> /\ head.do = "queue" /\ cmdstack' = cmdstack /\ password_input' = password_input
  BY ONLY Queue DEF Queue, Doing
<1>2. Typed /\ ObjectsTyped(objs) /\ Alike(objs, objs) /\ StandsOn(cmdstack, cmdstack, objs)
  BY ONLY <1>1, NotAsked, Prompting, Calm(todo, objs, cmdstack, password_input)
<1>3. ObjectsTyped(objs')
  BY ONLY Prompting' DEF Prompting, Typed
<1>4. CASE IsShell(cmdstack[1])
  <2>1. PICK b, w : b = cmdstack[1] /\ w = Append(objs[cmdstack[1]].pending, head.with)
    BY ONLY TRUE
  <2>2. /\ objs' = [objs EXCEPT ![cmdstack[1]].pending = Append(objs[cmdstack[1]].pending, head.with)]
        /\ todo' = << >> \o rest
    BY ONLY <1>4, Queue DEF Queue, Then
  <2>3. objs' = Pend(objs, b, w)
    BY ONLY <2>1, <2>2 DEF Pend
  <2>4. Alike(objs, objs')
    BY ONLY <1>2, <1>3, <2>3, AlikePend
  <2> QED BY ONLY <1>1, <1>2, <2>2, <2>4, EchoNone, Left(objs, cmdstack),
                  Calm(todo, objs, cmdstack, password_input)
<1>5. CASE ~ IsShell(cmdstack[1])
  <2>1. todo' = <<Raise>> \o rest
    BY ONLY <1>5, Queue DEF Queue, Then
  <2> QED BY ONLY <1>1, <1>2, <2>1, RaiseFirst, Clean'
<1> QED BY ONLY <1>4, <1>5

-----------------------------------------------------------------------------
(* In the middle of a dialogue. *)

\* One object becomes another of its class, and all others stay.
Owned(os, os2, id, o) == /\ Kept(os, os2) /\ Len(os2) = Len(os) /\ os2[id] = o
                         /\ \A j \in 1 .. Len(os) : j # id => os2[j] = os[j]

\* Then Left holds if it does of that object.
LEMMA OwnedLeft ==
  ASSUME NEW os, NEW st, Left(os, st), NEW id, NEW o, NEW os2, Owned(os, os2, id, o),
         o.cmd = "adduser" => o.phase >= 0 /\ Stands(st, id)
  PROVE  Left(os2, st)
<1>1. ASSUME NEW i \in 1 .. Len(os2), os2[i].cmd = "adduser"
      PROVE  os2[i].phase >= 0 /\ (Stands(st, i) \/ Resting(os2[i]))
  <2>1. CASE i = id
    BY ONLY <1>1, <2>1, Owned(os, os2, id, o), o.cmd = "adduser" => o.phase >= 0 /\ Stands(st, id) DEF Owned
  <2>2. CASE i # id
    <3>1. i \in 1 .. Len(os) /\ os2[i] = os[i]
      BY ONLY <2>2, i \in 1 .. Len(os2), Owned(os, os2, id, o) DEF Owned
    <3> QED BY ONLY <1>1, <3>1, Left(os, st) DEF Left
  <2> QED BY ONLY <2>1, <2>2
<1> QED BY ONLY <1>1 DEF Left

\* And Hidden if that object hides, or hides if it did before.
LEMMA OwnedHidden ==
  ASSUME NEW os, NEW st, NEW id \in 1 .. Len(os), NEW o, NEW os2, Owned(os, os2, id, o),
         \/ Hiding(o) /\ Stands(st, id)
         \/ Hidden(os, st) /\ (Hiding(os[id]) => Hiding(o))
  PROVE  Hidden(os2, st)
<1>1. CASE Hiding(o) /\ Stands(st, id)
  BY ONLY <1>1, Owned(os, os2, id, o), id \in 1 .. Len(os) DEF Owned, Hidden
<1>2. CASE Hidden(os, st) /\ (Hiding(os[id]) => Hiding(o))
  <2>1. PICK i \in 1 .. Len(os) : Stands(st, i) /\ Hiding(os[i])
    BY ONLY <1>2 DEF Hidden
  <2>2. Hiding(os2[i])
    <3>1. CASE i = id
      BY ONLY <1>2, <2>1, <3>1, Owned(os, os2, id, o) DEF Owned
    <3>2. CASE i # id
      BY ONLY <2>1, <3>2, Owned(os, os2, id, o), i \in 1 .. Len(os) DEF Owned
    <3> QED BY ONLY <3>1, <3>2
  <2> QED BY ONLY <2>1, <2>2, Owned(os, os2, id, o), i \in 1 .. Len(os) DEF Owned, Hidden
<1> QED BY ONLY <1>1, <1>2, ((Hiding(o) /\ Stands(st, id))
                             \/ (Hidden(os, st) /\ (Hiding(os[id]) => Hiding(o))))

\* The last step of a script is taken.
LEMMA ActedLast ==
  ASSUME TodoTyped(todo, objs), Left(objs, cmdstack), NEW id \in 1 .. Len(objs), NEW s,
         Within(id, s, todo, objs, cmdstack, password_input), Len(s) = 1,
         NEW o, NEW os2, Owned(objs, os2, id, o), o.cmd = "adduser" => o.phase >= 0 /\ Stands(cmdstack, id),
         NEW q2, Follows(q2, << >>, todo),
         NEW h, h => \/ Hiding(o) /\ Stands(cmdstack, id)
                     \/ password_input /\ s \notin Showing /\ (Hiding(objs[id]) => Hiding(o))
  PROVE  Echoes(q2, os2, cmdstack, h)
<1>1. /\ Past(todo, 1, objs) /\ (password_input => Hidden(objs, cmdstack) \/ s \in Showing)
      /\ Kept(objs, os2)
  BY ONLY Within(id, s, todo, objs, cmdstack, password_input), Len(s) = 1, Owned(objs, os2, id, o)
     DEF Within, Owned
<1>2. PICK new : new = << >> /\ Len(new) = 0
  BY ONLY EmptySeq
<1>3. Follows(q2, new, todo)
  BY ONLY <1>2, Follows(q2, << >>, todo)
<1>4. 0 \in 0 .. Len(new) /\ \A k \in 1 .. Len(new) : k > 0 => Mellow(new[k], os2)
  <2>1. 1 .. 0 = {} /\ 0 \in 0 .. 0
    BY ONLY TRUE
  <2> QED BY ONLY <1>2, <2>1
<1>5. Past(q2, 0, os2)
  BY ONLY <1>1, <1>3, <1>4, PastGo, TodoTyped(todo, objs)
<1>6. Left(os2, cmdstack)
  BY ONLY OwnedLeft, Left(objs, cmdstack), Owned(objs, os2, id, o),
          o.cmd = "adduser" => o.phase >= 0 /\ Stands(cmdstack, id)
<1>7. ASSUME h PROVE Hidden(os2, cmdstack)
  <2>1. \/ Hiding(o) /\ Stands(cmdstack, id)
        \/ Hidden(objs, cmdstack) /\ (Hiding(objs[id]) => Hiding(o))
    BY ONLY <1>1, <1>7, (h => (Hiding(o) /\ Stands(cmdstack, id))
                              \/ (password_input /\ s \notin Showing /\ (Hiding(objs[id]) => Hiding(o))))
  <2> QED BY ONLY <2>1, OwnedHidden, id \in 1 .. Len(objs), Owned(objs, os2, id, o)
<1> QED BY ONLY <1>5, <1>6, <1>7 DEF Echoes, Calm

\* A step that is not the last.
LEMMA ActedOn ==
  ASSUME TodoTyped(todo, objs), Left(objs, cmdstack), NEW id \in 1 .. Len(objs), NEW s,
         Within(id, s, todo, objs, cmdstack, password_input),
         NEW o, NEW os2, Owned(objs, os2, id, o), o.cmd = "adduser" => o.phase >= 0 /\ Stands(cmdstack, id),
         NEW q2, Follows(q2, << >>, todo), NEW s2 \in Scripts, Shift(s2, s),
         NEW h, Allowed(s2, o, Stands(cmdstack, id), h),
         h => \/ s2 \in Showing
              \/ Hiding(o) /\ Stands(cmdstack, id)
              \/ password_input /\ s \notin Showing /\ (Hiding(objs[id]) => Hiding(o))
  PROVE  Echoes(q2, os2, cmdstack, h)
<1>1. /\ Acting(todo, id, s) /\ Past(todo, Len(s), objs) /\ objs[id].cmd \in Asking
      /\ (password_input => Hidden(objs, cmdstack) \/ s \in Showing)
  BY ONLY Within(id, s, todo, objs, cmdstack, password_input) DEF Within
<1>2. Kept(objs, os2) /\ Len(os2) = Len(objs) /\ os2[id] = o
  BY ONLY Owned(objs, os2, id, o) DEF Owned
<1>3. Acting(q2, id, s2) /\ Past(q2, Len(s2), os2)
  BY ONLY <1>1, <1>2, ActingGo, TodoTyped(todo, objs), Follows(q2, << >>, todo), Shift(s2, s)
<1>4. Left(os2, cmdstack)
  BY ONLY OwnedLeft, Left(objs, cmdstack), Owned(objs, os2, id, o),
          o.cmd = "adduser" => o.phase >= 0 /\ Stands(cmdstack, id)
<1>5. ASSUME h PROVE Hidden(os2, cmdstack) \/ s2 \in Showing
  <2>1. \/ s2 \in Showing
        \/ Hiding(o) /\ Stands(cmdstack, id)
        \/ Hidden(objs, cmdstack) /\ (Hiding(objs[id]) => Hiding(o))
    BY ONLY <1>1, <1>5, (h => s2 \in Showing \/ (Hiding(o) /\ Stands(cmdstack, id))
                              \/ (password_input /\ s \notin Showing /\ (Hiding(objs[id]) => Hiding(o))))
  <2> QED BY ONLY <2>1, OwnedHidden, id \in 1 .. Len(objs), Owned(objs, os2, id, o)
<1>6. os2[id].cmd \in Asking /\ Allowed(s2, os2[id], Stands(cmdstack, id), h)
  <2>1. os2[id].cmd = objs[id].cmd
    BY ONLY <1>2, id \in 1 .. Len(objs) DEF Kept
  <2> QED BY ONLY <1>1, <1>2, <2>1, Allowed(s2, o, Stands(cmdstack, id), h)
<1>7. Within(id, s2, q2, os2, cmdstack, h)
  BY ONLY <1>3, <1>5, <1>6 DEF Within
<1> QED BY ONLY <1>2, <1>4, <1>7, id \in 1 .. Len(objs), s2 \in Scripts DEF Echoes

\* What is left of the scripts.
LEMMA Shifts ==
  /\ Shift(<<"hide">>, <<"next", "hide">>) /\ Shift(<<"show", "exit">>, <<"next", "show", "exit">>)
  /\ Shift(<<"exit">>, <<"show", "exit">>) /\ Shift(<<"later">>, <<"next", "later">>)
  /\ Shift(<<"show">>, <<"later", "show">>) /\ Shift(<<"later", "show">>, <<"next", "later", "show">>)
  /\ Shift(<<"back", "later">>, <<"back", "back", "later">>) /\ Shift(<<"later">>, <<"back", "later">>)
BY DEF Shift

\* Which of them turn the echo on.
LEMMA Tellings ==
  /\ {<<"hide">>, <<"show", "exit">>, <<"exit">>, <<"later">>, <<"show">>, <<"later", "show">>,
      <<"back", "later">>} \subseteq Scripts
  /\ {<<"show", "exit">>, <<"show">>, <<"later", "show">>} \subseteq Showing
  /\ \A s \in {<<"hide">>, <<"next", "hide">>, <<"next">>, <<"next", "later">>, <<"later">>, <<"exit">>,
               <<"exit", "raise">>, <<"back", "back", "later">>, <<"back", "later">>} : s \notin Showing
BY DEF Scripts, Showing

\* What each script says of the one who is in the middle of it.
LEMMA Allowances ==
  ASSUME NEW o, NEW on, NEW h
  PROVE  /\ Allowed(<<"hide">>, o, on, h) => on /\ Hiding(o)
         /\ Allowed(<<"next", "hide">>, o, on, h) => on /\ o.cmd = "ssh" /\ o.phase = 0
         /\ Allowed(<<"next">>, o, on, h) => o.cmd = "passwd" /\ o.phase = 0
         /\ \A s \in {<<"next", "show", "exit">>, <<"show", "exit">>} : Allowed(s, o, on, h) => o.cmd # "adduser"
         /\ \A s \in {<<"exit">>, <<"exit", "raise">>} :
              Allowed(s, o, on, h) => (Hiding(o) => ~ h) /\ (o.cmd = "adduser" => Resting(o))
         /\ Allowed(<<"next", "later">>, o, on, h) =>
              (o.cmd = "ssh" /\ o.phase = 1) \/ (o.cmd = "adduser" /\ on /\ o.phase # 1)
         /\ Allowed(<<"later">>, o, on, h) => o.cmd # "passwd" /\ (o.cmd = "adduser" => on)
         /\ \A s \in {<<"later", "show">>, <<"next", "later", "show">>, <<"show">>} :
              Allowed(s, o, on, h) => o.cmd = "adduser" /\ on
         /\ Allowed(<<"back", "back", "later">>, o, on, h) => o.cmd = "adduser" /\ on /\ o.phase >= 4
         /\ Allowed(<<"back", "later">>, o, on, h) => o.cmd = "adduser" /\ on /\ o.phase >= 3
BY DEF Allowed

\* Who may be in the middle of the rest of a script.
LEMMA Allowing ==
  ASSUME NEW o, NEW on, NEW h
  PROVE  /\ on /\ Hiding(o) => Allowed(<<"hide">>, o, on, h)
         /\ o.cmd # "adduser" => Allowed(<<"show", "exit">>, o, on, h)
         /\ (Hiding(o) => ~ h) /\ (o.cmd = "adduser" => Resting(o)) => Allowed(<<"exit">>, o, on, h)
         /\ o.cmd # "passwd" /\ (o.cmd = "adduser" => on) => Allowed(<<"later">>, o, on, h)
         /\ o.cmd = "adduser" /\ on => Allowed(<<"later", "show">>, o, on, h) /\ Allowed(<<"show">>, o, on, h)
         /\ o.cmd = "adduser" /\ on /\ o.phase >= 3 => Allowed(<<"back", "later">>, o, on, h)
BY DEF Allowed

\* One field of a command changes.
LEMMA OwnedPut ==
  ASSUME Typed, NEW id \in 1 .. Len(objs), objs[id].cmd \in Programs, NEW o \in Objects,
         o.cmd = objs[id].cmd, objs' = Put(objs, id, o)
  PROVE  Owned(objs, objs', id, o)
<1>1. ObjectsTyped(objs)
  BY ONLY Typed DEF Typed
<1>2. Quiet(o)
  BY ONLY ShellsNoPrograms, objs[id].cmd \in Programs, o.cmd = objs[id].cmd DEF Quiet
<1> QED BY ONLY <1>1, <1>2, Changed, id \in 1 .. Len(objs), o \in Objects, o.cmd = objs[id].cmd,
                objs' = Put(objs, id, o) DEF Owned

\* What a command does to itself.
LEMMA OwnObject ==
  ASSUME Typed, todo # << >>, Small, head.do \in {"later", "cancel", "next", "back"}, NEW id, id = head.by
  PROVE  /\ password_input' = password_input
         /\ \E o \in Objects :
              /\ Owned(objs, objs', id, o) /\ o.cmd = objs[id].cmd
              /\ head.do \in {"later", "cancel"} => o.phase = objs[id].phase
              /\ head.do = "next" => o.phase = objs[id].phase + 1
              /\ head.do = "back" => o.phase = objs[id].phase - 1
<1>1. password_input' = password_input
  BY ONLY Small, head.do \in {"later", "cancel", "next", "back"} DEF Small
<1>2. id \in 1 .. Len(objs) /\ objs[id].cmd \in Programs
  BY ONLY Typed, todo # << >>, HeadItem, id = head.by, head.do \in {"later", "cancel", "next", "back"}
     DEF Sound, Steps
<1>3. PICK m : m = objs[id]
  BY ONLY TRUE
<1>4. m \in Objects /\ m.timers \in Nat /\ m.phase \in Int
  BY ONLY <1>2, <1>3, Typed, ObjectFields DEF Typed
<1>5. CASE head.do = "later"
  <2>1. PICK n : n = m.timers + 1
    BY ONLY TRUE
  <2>2. PICK o : o = [m EXCEPT !.timers = n]
    BY ONLY TRUE
  <2>3. n \in Nat
    BY ONLY <1>4, <2>1
  <2>4. o \in Objects /\ o.cmd = m.cmd /\ o.phase = m.phase
    BY ONLY <1>4, <2>2, <2>3 DEF Objects
  <2>5. objs' = [objs EXCEPT ![head.by].timers = objs[head.by].timers + 1]
    BY ONLY <1>5, Small DEF Small
  <2>6. objs' = Put(objs, id, o)
    BY ONLY <1>3, <2>1, <2>2, <2>5, id = head.by DEF Put
  <2>7. Owned(objs, objs', id, o)
    BY ONLY <1>2, <1>3, <2>4, <2>6, OwnedPut, Typed
  <2> QED BY ONLY <1>1, <1>3, <1>5, <2>4, <2>7
<1>6. CASE head.do = "cancel"
  <2>2. PICK o : o = [m EXCEPT !.timers = 0]
    BY ONLY TRUE
  <2>4. o \in Objects /\ o.cmd = m.cmd /\ o.phase = m.phase
    BY ONLY <1>4, <2>2 DEF Objects
  <2>5. objs' = [objs EXCEPT ![head.by].timers = 0]
    BY ONLY <1>6, Small DEF Small
  <2>6. objs' = Put(objs, id, o)
    BY ONLY <1>3, <2>2, <2>5, id = head.by DEF Put
  <2>7. Owned(objs, objs', id, o)
    BY ONLY <1>2, <1>3, <2>4, <2>6, OwnedPut, Typed
  <2> QED BY ONLY <1>1, <1>3, <1>6, <2>4, <2>7
<1>7. CASE head.do = "next"
  <2>1. PICK n : n = m.phase + 1
    BY ONLY TRUE
  <2>2. PICK o : o = [m EXCEPT !.phase = n]
    BY ONLY TRUE
  <2>3. n \in Int
    BY ONLY <1>4, <2>1
  <2>4. o \in Objects /\ o.cmd = m.cmd /\ o.phase = n
    BY ONLY <1>4, <2>2, <2>3 DEF Objects
  <2>5. objs' = [objs EXCEPT ![head.by].phase = objs[head.by].phase + 1]
    BY ONLY <1>7, Small DEF Small
  <2>6. objs' = Put(objs, id, o)
    BY ONLY <1>3, <2>1, <2>2, <2>5, id = head.by DEF Put
  <2>7. Owned(objs, objs', id, o)
    BY ONLY <1>2, <1>3, <2>4, <2>6, OwnedPut, Typed
  <2> QED BY ONLY <1>1, <1>3, <1>7, <2>1, <2>4, <2>7
<1>8. CASE head.do = "back"
  <2>1. PICK n : n = m.phase - 1
    BY ONLY TRUE
  <2>2. PICK o : o = [m EXCEPT !.phase = n]
    BY ONLY TRUE
  <2>3. n \in Int
    BY ONLY <1>4, <2>1
  <2>4. o \in Objects /\ o.cmd = m.cmd /\ o.phase = n
    BY ONLY <1>4, <2>2, <2>3 DEF Objects
  <2>5. objs' = [objs EXCEPT ![head.by].phase = objs[head.by].phase - 1]
    BY ONLY <1>8, Small DEF Small
  <2>6. objs' = Put(objs, id, o)
    BY ONLY <1>3, <2>1, <2>2, <2>5, id = head.by DEF Put
  <2>7. Owned(objs, objs', id, o)
    BY ONLY <1>2, <1>3, <2>4, <2>6, OwnedPut, Typed
  <2> QED BY ONLY <1>1, <1>3, <1>8, <2>1, <2>4, <2>7
<1> QED BY ONLY <1>5, <1>6, <1>7, <1>8, head.do \in {"later", "cancel", "next", "back"}

\* What somebody who does not ask does to itself is of no consequence.
LEMMA OwnedAlike ==
  ASSUME NEW os, NEW id \in 1 .. Len(os), os[id].cmd \notin Asking, NEW o, NEW os2, Owned(os, os2, id, o)
  PROVE  Alike(os, os2)
<1>1. Kept(os, os2) /\ Len(os2) = Len(os) /\ Len(os) \in Nat
      /\ \A j \in 1 .. Len(os) : j # id => os2[j] = os[j]
  BY ONLY Owned(os, os2, id, o) DEF Owned, Kept
<1>2. ASSUME NEW i \in 1 .. Len(os), os[i].cmd \in Asking
      PROVE  os2[i].phase = os[i].phase /\ os2[i].timers = os[i].timers
  <2>1. i # id
    BY ONLY <1>2, os[id].cmd \notin Asking
  <2> QED BY ONLY <1>1, <2>1, i \in 1 .. Len(os)
<1> QED BY ONLY <1>1, <1>2 DEF Alike

\* The small steps of those who do not ask.
LEMMA EchoSmall ==
  ASSUME Prompting, Left(objs, cmdstack), Calm(todo, objs, cmdstack, password_input), Small, Clean'
  PROVE  Echoes(todo', objs', cmdstack', password_input')
<1>1. todo # << >> /\ cmdstack' = cmdstack /\ todo' = << >> \o rest
      /\ head.do \in {"later", "cancel", "next", "back", "hide", "show", "end", "insert"}
  BY ONLY Small DEF Small, Then
<1>2. head.do \notin {"lost", "raise", "call"}
  BY ONLY <1>1
<1>3. /\ Typed /\ Alike(objs, objs) /\ StandsOn(cmdstack, cmdstack, objs)
      /\ head.by \in 1 .. Len(objs) /\ objs[head.by].cmd \notin Asking
  BY ONLY <1>1, <1>2, NotAsked, Prompting, Calm(todo, objs, cmdstack, password_input)
<1>4. head.do \notin {"hide", "show"}
  BY ONLY <1>1, <1>3, CalmHead, Calm(todo, objs, cmdstack, password_input)
<1>5. CASE head.do \in {"later", "cancel", "next", "back"}
  <2>1. PICK b \in 1 .. Len(objs) : b = head.by
    BY ONLY <1>3
  <2>2. /\ password_input' = password_input /\ \E o \in Objects : Owned(objs, objs', b, o)
    BY ONLY <1>1, <1>3, <1>5, <2>1, OwnObject, Small
  <2>3. Alike(objs, objs')
    BY ONLY <1>3, <2>1, <2>2, OwnedAlike, b \in 1 .. Len(objs)
  <2> QED BY ONLY <1>1, <1>3, <2>2, <2>3, EchoNone, Left(objs, cmdstack),
                  Calm(todo, objs, cmdstack, password_input)
<1>6. CASE head.do \in {"end", "insert"}
  <2>1. objs' = objs /\ password_input' = password_input
    BY ONLY <1>6, Small DEF Small
  <2> QED BY ONLY <1>1, <1>3, <2>1, EchoNone, Left(objs, cmdstack),
                  Calm(todo, objs, cmdstack, password_input)
<1> QED BY ONLY <1>1, <1>4, <1>5, <1>6

\* No script is empty.
LEMMA ScriptFirst == ASSUME NEW s \in Scripts PROVE Len(s) \in Nat \ {0}
<1>1. \A t \in Showing : Len(t) \in {1, 2, 3}
  BY ONLY DEF Showing
<1>2. \A t \in {<<"hide">>, <<"next", "hide">>, <<"next">>, <<"exit">>, <<"exit", "raise">>} : Len(t) \in {1, 2}
  BY ONLY TRUE
<1>3. \A t \in {<<"next", "later">>, <<"later">>, <<"back", "back", "later">>, <<"back", "later">>} :
        Len(t) \in {1, 2, 3}
  BY ONLY TRUE
<1> QED BY ONLY <1>1, <1>2, <1>3, s \in Scripts DEF Scripts

\* Who leaves in the middle of a script is at the end of it.
LEMMA ScriptExits == ASSUME NEW s \in Scripts, s[1] = "exit" PROVE s \in {<<"exit">>, <<"exit", "raise">>}
<1>1. \A t \in Showing : t[1] # "exit"
  BY ONLY DEF Showing
<1>2. \A t \in {<<"hide">>, <<"next", "hide">>, <<"next">>, <<"next", "later">>} : t[1] # "exit"
  BY ONLY TRUE
<1>3. \A t \in {<<"later">>, <<"back", "back", "later">>, <<"back", "later">>} : t[1] # "exit"
  BY ONLY TRUE
<1>4. s \notin Showing
  BY ONLY <1>1, s[1] = "exit"
<1>5. s \notin {<<"hide">>, <<"next", "hide">>, <<"next">>, <<"next", "later">>}
  BY ONLY <1>2, s[1] = "exit"
<1>6. s \notin {<<"later">>, <<"back", "back", "later">>, <<"back", "later">>}
  BY ONLY <1>3, s[1] = "exit"
<1> QED BY ONLY <1>4, <1>5, <1>6, s \in Scripts DEF Scripts

\* A step in the middle of a dialogue, other than exit: the dialogue goes on.
LEMMA EchoTell ==
  ASSUME Prompting, Left(objs, cmdstack), NEW id \in 1 .. Len(objs), NEW s \in Scripts,
         Within(id, s, todo, objs, cmdstack, password_input), Small
  PROVE  Echoes(todo', objs', cmdstack', password_input')
<1>1. Typed /\ TodoTyped(todo, objs) /\ ObjectsTyped(objs)
  BY ONLY Prompting DEF Prompting, Typed
<1>2. /\ todo # << >> /\ cmdstack' = cmdstack /\ todo' = << >> \o rest
      /\ head.do \in {"later", "cancel", "next", "back", "hide", "show", "end", "insert"}
  BY ONLY Small DEF Small, Then
<1>3. /\ Acting(todo, id, s) /\ objs[id].cmd \in Asking
      /\ Allowed(s, objs[id], Stands(cmdstack, id), password_input)
  BY ONLY Within(id, s, todo, objs, cmdstack, password_input) DEF Within
<1>4. head.do = s[1] /\ head.by = id
  <2>1. head = todo[1]
    BY ONLY <1>1, <1>2, HeadItem
  <2>2. Len(s) \in Nat \ {0}
    BY ONLY ScriptFirst, s \in Scripts
  <2>3. 1 \in 1 .. Len(s)
    BY ONLY <2>2
  <2> QED BY ONLY <1>3, <2>1, <2>3 DEF Acting
<1>5. PICK q2, os2, h : q2 = todo' /\ os2 = objs' /\ h = password_input'
  BY ONLY TRUE
<1>6. PICK m, on : m = objs[id] /\ on = Stands(cmdstack, id)
  BY ONLY TRUE
<1>7. Follows(q2, << >>, todo)
  BY ONLY <1>1, <1>2, <1>5, FollowsNone
<1>8. m.cmd \in Asking /\ m.phase \in Int /\ (m.cmd = "adduser" => m.phase >= 0) /\ Allowed(s, m, on, password_input)
  BY ONLY <1>1, <1>3, <1>6, ObjectFields, Left(objs, cmdstack), id \in 1 .. Len(objs) DEF Left
<1>9. ASSUME head.do \in {"later", "next", "back"}
      PROVE  /\ h = password_input
             /\ \E o \in Objects : /\ Owned(objs, os2, id, o) /\ o.cmd = m.cmd
                                   /\ head.do = "later" => o.phase = m.phase
                                   /\ head.do = "next" => o.phase = m.phase + 1
                                   /\ head.do = "back" => o.phase = m.phase - 1
  BY ONLY <1>1, <1>2, <1>4, <1>5, <1>6, <1>9, OwnObject, Small
<1>10. ASSUME head.do \in {"hide", "show"}
       PROVE  (h <=> head.do = "hide") /\ Owned(objs, os2, id, m)
  <2>1. objs' = objs /\ password_input' = (head.do = "hide")
    BY ONLY <1>10, Small DEF Small
  <2>2. Kept(objs, objs)
    BY ONLY <1>1, LenProperties DEF ObjectsTyped, Kept
  <2> QED BY ONLY <1>5, <1>6, <2>1, <2>2 DEF Owned
<1>11. CASE s = <<"next", "show", "exit">>
  <2>1. head.do = "next"
    BY ONLY <1>4, <1>11
  <2>2. m.cmd # "adduser"
    BY ONLY <1>8, <1>11, Allowances
  <2>3. PICK o \in Objects : Owned(objs, os2, id, o) /\ o.cmd = m.cmd /\ o.phase = m.phase + 1 /\ h = password_input
    BY ONLY <1>9, <2>1
  <2>4. o.cmd = "adduser" => o.phase >= 0 /\ on
    BY ONLY <1>8, <2>2, <2>3
  <2>5. PICK s2 \in Scripts : s2 = <<"show", "exit">>
    BY ONLY Tellings
  <2>6. Shift(s2, s)
    BY ONLY <1>11, <2>5, Shifts
  <2>7. Allowed(s2, o, on, h)
    BY ONLY <1>8, <2>2, <2>3, <2>4, <2>5, Allowing
  <2>8. h => \/ s2 \in Showing
             \/ Hiding(o) /\ on
             \/ password_input /\ s \notin Showing /\ (Hiding(m) => Hiding(o))
    BY ONLY <2>5, Tellings
  <2>9. Echoes(q2, os2, cmdstack, h)
    BY ONLY <1>1, <1>6, <1>7, <2>3, <2>4, <2>6, <2>7, <2>8, ActedOn, Left(objs, cmdstack), id \in 1 .. Len(objs),
            s2 \in Scripts, Within(id, s, todo, objs, cmdstack, password_input)
  <2> QED BY ONLY <1>2, <1>5, <2>9
<1>12. CASE s = <<"show", "exit">>
  <2>1. head.do = "show"
    BY ONLY <1>4, <1>12
  <2>2. m.cmd # "adduser"
    BY ONLY <1>8, <1>12, Allowances
  <2>3. (h <=> FALSE) /\ Owned(objs, os2, id, m)
    BY ONLY <1>10, <2>1
  <2>4. m.cmd = "adduser" => m.phase >= 0 /\ on
    BY ONLY <1>8, <2>2, <2>3
  <2>5. PICK s2 \in Scripts : s2 = <<"exit">>
    BY ONLY Tellings
  <2>6. Shift(s2, s)
    BY ONLY <1>12, <2>5, Shifts
  <2>7. Allowed(s2, m, on, h)
    BY ONLY <2>2, <2>3, <2>5, Allowing
  <2>8. h => \/ s2 \in Showing
             \/ Hiding(m) /\ on
             \/ password_input /\ s \notin Showing /\ (Hiding(m) => Hiding(m))
    BY ONLY <2>3
  <2>9. Echoes(q2, os2, cmdstack, h)
    BY ONLY <1>1, <1>6, <1>7, <2>3, <2>4, <2>6, <2>7, <2>8, ActedOn, Left(objs, cmdstack), id \in 1 .. Len(objs),
            s2 \in Scripts, Within(id, s, todo, objs, cmdstack, password_input)
  <2> QED BY ONLY <1>2, <1>5, <2>9
<1>13. CASE s = <<"later", "show">>
  <2>1. head.do = "later"
    BY ONLY <1>4, <1>13
  <2>2. m.cmd = "adduser" /\ on
    BY ONLY <1>8, <1>13, Allowances
  <2>3. PICK o \in Objects : Owned(objs, os2, id, o) /\ o.cmd = m.cmd /\ o.phase = m.phase /\ h = password_input
    BY ONLY <1>9, <2>1
  <2>4. o.cmd = "adduser" => o.phase >= 0 /\ on
    BY ONLY <1>8, <2>2, <2>3
  <2>5. PICK s2 \in Scripts : s2 = <<"show">>
    BY ONLY Tellings
  <2>6. Shift(s2, s)
    BY ONLY <1>13, <2>5, Shifts
  <2>7. Allowed(s2, o, on, h)
    BY ONLY <1>8, <2>2, <2>3, <2>4, <2>5, Allowing
  <2>8. h => \/ s2 \in Showing
             \/ Hiding(o) /\ on
             \/ password_input /\ s \notin Showing /\ (Hiding(m) => Hiding(o))
    BY ONLY <2>5, Tellings
  <2>9. Echoes(q2, os2, cmdstack, h)
    BY ONLY <1>1, <1>6, <1>7, <2>3, <2>4, <2>6, <2>7, <2>8, ActedOn, Left(objs, cmdstack), id \in 1 .. Len(objs),
            s2 \in Scripts, Within(id, s, todo, objs, cmdstack, password_input)
  <2> QED BY ONLY <1>2, <1>5, <2>9
<1>14. CASE s = <<"next", "later", "show">>
  <2>1. head.do = "next"
    BY ONLY <1>4, <1>14
  <2>2. m.cmd = "adduser" /\ on
    BY ONLY <1>8, <1>14, Allowances
  <2>3. PICK o \in Objects : Owned(objs, os2, id, o) /\ o.cmd = m.cmd /\ o.phase = m.phase + 1 /\ h = password_input
    BY ONLY <1>9, <2>1
  <2>4. o.cmd = "adduser" => o.phase >= 0 /\ on
    BY ONLY <1>8, <2>2, <2>3
  <2>5. PICK s2 \in Scripts : s2 = <<"later", "show">>
    BY ONLY Tellings
  <2>6. Shift(s2, s)
    BY ONLY <1>14, <2>5, Shifts
  <2>7. Allowed(s2, o, on, h)
    BY ONLY <1>8, <2>2, <2>3, <2>4, <2>5, Allowing
  <2>8. h => \/ s2 \in Showing
             \/ Hiding(o) /\ on
             \/ password_input /\ s \notin Showing /\ (Hiding(m) => Hiding(o))
    BY ONLY <2>5, Tellings
  <2>9. Echoes(q2, os2, cmdstack, h)
    BY ONLY <1>1, <1>6, <1>7, <2>3, <2>4, <2>6, <2>7, <2>8, ActedOn, Left(objs, cmdstack), id \in 1 .. Len(objs),
            s2 \in Scripts, Within(id, s, todo, objs, cmdstack, password_input)
  <2> QED BY ONLY <1>2, <1>5, <2>9
<1>15. CASE s = <<"show">>
  <2>1. head.do = "show"
    BY ONLY <1>4, <1>15
  <2>2. m.cmd = "adduser" /\ on
    BY ONLY <1>8, <1>15, Allowances
  <2>3. (h <=> FALSE) /\ Owned(objs, os2, id, m)
    BY ONLY <1>10, <2>1
  <2>4. m.cmd = "adduser" => m.phase >= 0 /\ on
    BY ONLY <1>8, <2>2, <2>3
  <2>5. ~ h
    BY ONLY <2>3
  <2>6. h => \/ Hiding(m) /\ on
             \/ password_input /\ s \notin Showing /\ (Hiding(m) => Hiding(m))
    BY ONLY <2>3, <2>5
  <2>7. Len(s) = 1
    BY ONLY <1>15
  <2>8. Echoes(q2, os2, cmdstack, h)
    BY ONLY <1>1, <1>6, <1>7, <2>3, <2>4, <2>6, <2>7, ActedLast, Left(objs, cmdstack), id \in 1 .. Len(objs),
            Within(id, s, todo, objs, cmdstack, password_input)
  <2> QED BY ONLY <1>2, <1>5, <2>8
<1>16. CASE s = <<"hide">>
  <2>1. head.do = "hide"
    BY ONLY <1>4, <1>16
  <2>2. on /\ Hiding(m)
    BY ONLY <1>8, <1>16, Allowances
  <2>3. (h <=> TRUE) /\ Owned(objs, os2, id, m)
    BY ONLY <1>10, <2>1
  <2>4. m.cmd = "adduser" => m.phase >= 0 /\ on
    BY ONLY <1>8, <2>2, <2>3
  <2>5. Hiding(m) /\ on
    BY ONLY <2>2
  <2>6. h => \/ Hiding(m) /\ on
             \/ password_input /\ s \notin Showing /\ (Hiding(m) => Hiding(m))
    BY ONLY <2>3, <2>5
  <2>7. Len(s) = 1
    BY ONLY <1>16
  <2>8. Echoes(q2, os2, cmdstack, h)
    BY ONLY <1>1, <1>6, <1>7, <2>3, <2>4, <2>6, <2>7, ActedLast, Left(objs, cmdstack), id \in 1 .. Len(objs),
            Within(id, s, todo, objs, cmdstack, password_input)
  <2> QED BY ONLY <1>2, <1>5, <2>8
<1>17. CASE s = <<"next", "hide">>
  <2>1. head.do = "next"
    BY ONLY <1>4, <1>17
  <2>2. on /\ m.cmd = "ssh" /\ m.phase = 0
    BY ONLY <1>8, <1>17, Allowances
  <2>3. PICK o \in Objects : Owned(objs, os2, id, o) /\ o.cmd = m.cmd /\ o.phase = m.phase + 1 /\ h = password_input
    BY ONLY <1>9, <2>1
  <2>4. o.cmd = "adduser" => o.phase >= 0 /\ on
    BY ONLY <1>8, <2>2, <2>3
  <2>5. PICK s2 \in Scripts : s2 = <<"hide">>
    BY ONLY Tellings
  <2>6. Shift(s2, s)
    BY ONLY <1>17, <2>5, Shifts
  <2>7. Hiding(o) /\ on
    BY ONLY <2>2, <2>3 DEF Hiding
  <2>8. Allowed(s2, o, on, h)
    BY ONLY <2>5, <2>7, Allowing
  <2>9. h => \/ s2 \in Showing
             \/ Hiding(o) /\ on
             \/ password_input /\ s \notin Showing /\ (Hiding(m) => Hiding(o))
    BY ONLY <2>7
  <2>10. Echoes(q2, os2, cmdstack, h)
    BY ONLY <1>1, <1>6, <1>7, <2>3, <2>4, <2>6, <2>8, <2>9, ActedOn, Left(objs, cmdstack), id \in 1 .. Len(objs),
            s2 \in Scripts, Within(id, s, todo, objs, cmdstack, password_input)
  <2> QED BY ONLY <1>2, <1>5, <2>10
<1>18. CASE s = <<"next">>
  <2>1. head.do = "next"
    BY ONLY <1>4, <1>18
  <2>2. m.cmd = "passwd" /\ m.phase = 0
    BY ONLY <1>8, <1>18, Allowances
  <2>3. PICK o \in Objects : Owned(objs, os2, id, o) /\ o.cmd = m.cmd /\ o.phase = m.phase + 1 /\ h = password_input
    BY ONLY <1>9, <2>1
  <2>4. o.cmd = "adduser" => o.phase >= 0 /\ on
    BY ONLY <1>8, <2>2, <2>3
  <2>5. s \notin Showing /\ (Hiding(m) => Hiding(o))
    BY ONLY <1>8, <1>18, <2>2, <2>3, Tellings DEF Hiding
  <2>6. h => \/ Hiding(o) /\ on
             \/ password_input /\ s \notin Showing /\ (Hiding(m) => Hiding(o))
    BY ONLY <2>3, <2>5
  <2>7. Len(s) = 1
    BY ONLY <1>18
  <2>8. Echoes(q2, os2, cmdstack, h)
    BY ONLY <1>1, <1>6, <1>7, <2>3, <2>4, <2>6, <2>7, ActedLast, Left(objs, cmdstack), id \in 1 .. Len(objs),
            Within(id, s, todo, objs, cmdstack, password_input)
  <2> QED BY ONLY <1>2, <1>5, <2>8
<1>19. CASE s = <<"next", "later">>
  <2>1. head.do = "next"
    BY ONLY <1>4, <1>19
  <2>2. (m.cmd = "ssh" /\ m.phase = 1) \/ (m.cmd = "adduser" /\ on /\ m.phase # 1)
    BY ONLY <1>8, <1>19, Allowances
  <2>3. PICK o \in Objects : Owned(objs, os2, id, o) /\ o.cmd = m.cmd /\ o.phase = m.phase + 1 /\ h = password_input
    BY ONLY <1>9, <2>1
  <2>4. o.cmd = "adduser" => o.phase >= 0 /\ on
    BY ONLY <1>8, <2>2, <2>3
  <2>5. PICK s2 \in Scripts : s2 = <<"later">>
    BY ONLY Tellings
  <2>6. Shift(s2, s)
    BY ONLY <1>19, <2>5, Shifts
  <2>7. Allowed(s2, o, on, h)
    BY ONLY <1>8, <2>2, <2>3, <2>4, <2>5, Allowing
  <2>8. h => \/ s2 \in Showing
             \/ Hiding(o) /\ on
             \/ password_input /\ s \notin Showing /\ (Hiding(m) => Hiding(o))
    BY ONLY <2>2, <2>3, <1>19, Tellings DEF Hiding
  <2>9. Echoes(q2, os2, cmdstack, h)
    BY ONLY <1>1, <1>6, <1>7, <2>3, <2>4, <2>6, <2>7, <2>8, ActedOn, Left(objs, cmdstack), id \in 1 .. Len(objs),
            s2 \in Scripts, Within(id, s, todo, objs, cmdstack, password_input)
  <2> QED BY ONLY <1>2, <1>5, <2>9
<1>20. CASE s = <<"later">>
  <2>1. head.do = "later"
    BY ONLY <1>4, <1>20
  <2>2. m.cmd # "passwd" /\ (m.cmd = "adduser" => on)
    BY ONLY <1>8, <1>20, Allowances
  <2>3. PICK o \in Objects : Owned(objs, os2, id, o) /\ o.cmd = m.cmd /\ o.phase = m.phase /\ h = password_input
    BY ONLY <1>9, <2>1
  <2>4. o.cmd = "adduser" => o.phase >= 0 /\ on
    BY ONLY <1>8, <2>2, <2>3
  <2>5. s \notin Showing /\ (Hiding(m) => Hiding(o))
    BY ONLY <1>8, <1>20, <2>2, <2>3, Tellings DEF Hiding
  <2>6. h => \/ Hiding(o) /\ on
             \/ password_input /\ s \notin Showing /\ (Hiding(m) => Hiding(o))
    BY ONLY <2>3, <2>5
  <2>7. Len(s) = 1
    BY ONLY <1>20
  <2>8. Echoes(q2, os2, cmdstack, h)
    BY ONLY <1>1, <1>6, <1>7, <2>3, <2>4, <2>6, <2>7, ActedLast, Left(objs, cmdstack), id \in 1 .. Len(objs),
            Within(id, s, todo, objs, cmdstack, password_input)
  <2> QED BY ONLY <1>2, <1>5, <2>8
<1>21. CASE s = <<"back", "back", "later">>
  <2>1. head.do = "back"
    BY ONLY <1>4, <1>21
  <2>2. m.cmd = "adduser" /\ on /\ m.phase >= 4
    BY ONLY <1>8, <1>21, Allowances
  <2>3. PICK o \in Objects : Owned(objs, os2, id, o) /\ o.cmd = m.cmd /\ o.phase = m.phase - 1 /\ h = password_input
    BY ONLY <1>9, <2>1
  <2>4. o.cmd = "adduser" => o.phase >= 0 /\ on
    BY ONLY <1>8, <2>2, <2>3
  <2>5. PICK s2 \in Scripts : s2 = <<"back", "later">>
    BY ONLY Tellings
  <2>6. Shift(s2, s)
    BY ONLY <1>21, <2>5, Shifts
  <2>7. Allowed(s2, o, on, h)
    <3>1. o.phase >= 3
      BY ONLY <1>8, <2>2, <2>3
    <3> QED BY ONLY <2>2, <2>3, <2>5, <3>1, Allowing
  <2>8. h => \/ s2 \in Showing
             \/ Hiding(o) /\ on
             \/ password_input /\ s \notin Showing /\ (Hiding(m) => Hiding(o))
    BY ONLY <1>8, <2>2, <2>3, <1>21, Tellings DEF Hiding
  <2>9. Echoes(q2, os2, cmdstack, h)
    BY ONLY <1>1, <1>6, <1>7, <2>3, <2>4, <2>6, <2>7, <2>8, ActedOn, Left(objs, cmdstack), id \in 1 .. Len(objs),
            s2 \in Scripts, Within(id, s, todo, objs, cmdstack, password_input)
  <2> QED BY ONLY <1>2, <1>5, <2>9
<1>22. CASE s = <<"back", "later">>
  <2>1. head.do = "back"
    BY ONLY <1>4, <1>22
  <2>2. m.cmd = "adduser" /\ on /\ m.phase >= 3
    BY ONLY <1>8, <1>22, Allowances
  <2>3. PICK o \in Objects : Owned(objs, os2, id, o) /\ o.cmd = m.cmd /\ o.phase = m.phase - 1 /\ h = password_input
    BY ONLY <1>9, <2>1
  <2>4. o.cmd = "adduser" => o.phase >= 0 /\ on
    BY ONLY <1>8, <2>2, <2>3
  <2>5. PICK s2 \in Scripts : s2 = <<"later">>
    BY ONLY Tellings
  <2>6. Shift(s2, s)
    BY ONLY <1>22, <2>5, Shifts
  <2>7. Allowed(s2, o, on, h)
    BY ONLY <1>8, <2>2, <2>3, <2>4, <2>5, Allowing
  <2>8. h => \/ s2 \in Showing
             \/ Hiding(o) /\ on
             \/ password_input /\ s \notin Showing /\ (Hiding(m) => Hiding(o))
    BY ONLY <1>8, <2>2, <2>3, <1>22, Tellings DEF Hiding
  <2>9. Echoes(q2, os2, cmdstack, h)
    BY ONLY <1>1, <1>6, <1>7, <2>3, <2>4, <2>6, <2>7, <2>8, ActedOn, Left(objs, cmdstack), id \in 1 .. Len(objs),
            s2 \in Scripts, Within(id, s, todo, objs, cmdstack, password_input)
  <2> QED BY ONLY <1>2, <1>5, <2>9
<1>23. s \notin {<<"exit">>, <<"exit", "raise">>}
  BY ONLY <1>2, <1>4
<1> QED BY ONLY <1>11, <1>12, <1>13, <1>14, <1>15, <1>16,
                <1>17, <1>18, <1>19, <1>20, <1>21, <1>22, <1>23, s \in Scripts DEF Scripts, Showing

\* The one that exits in the middle of a dialogue has nothing left to show.
LEMMA EchoLeave ==
  ASSUME Prompting, Left(objs, cmdstack), NEW id \in 1 .. Len(objs), NEW s \in Scripts,
         Within(id, s, todo, objs, cmdstack, password_input), ExitStep, Clean'
  PROVE  Echoes(todo', objs', cmdstack', password_input')
<1>1. Typed /\ todo # << >> /\ Bottom(cmdstack) /\ head.do = "exit"
      /\ TodoTyped(todo, objs) /\ ObjectsTyped(objs) /\ cmdstack \in Seq(1 .. Len(objs))
  BY ONLY Prompting, ExitStep DEF Prompting, ExitStep, Doing, Typed
<1>2. cmdstack # << >>
  BY ONLY <1>1, EmptySeq DEF Bottom
<1>3. /\ cmdstack' = Front(cmdstack) /\ todo' = Resume(Front(cmdstack)) \o rest
      /\ objs' = objs /\ Last(cmdstack) = head.by /\ password_input' = password_input
  BY ONLY <1>2, ExitStep, Clean' DEF ExitStep, Then, Clean
<1>4. /\ Acting(todo, id, s) /\ Past(todo, Len(s), objs) /\ objs[id].cmd \in Asking
      /\ Allowed(s, objs[id], Stands(cmdstack, id), password_input)
      /\ (password_input => Hidden(objs, cmdstack) \/ s \in Showing)
  BY ONLY Within(id, s, todo, objs, cmdstack, password_input) DEF Within
<1>5. Len(s) \in Nat \ {0}
  BY ONLY ScriptFirst, s \in Scripts
<1>6. head = todo[1] /\ head.do = s[1] /\ head.by = id
  <2>1. head = todo[1]
    BY ONLY <1>1, HeadItem
  <2>2. 1 \in 1 .. Len(s)
    BY ONLY <1>5
  <2> QED BY ONLY <1>4, <2>1, <2>2 DEF Acting
<1>7. s \in {<<"exit">>, <<"exit", "raise">>}
  BY ONLY <1>1, <1>6, ScriptExits, s \in Scripts
<1>8. /\ (Hiding(objs[id]) => ~ password_input) /\ (objs[id].cmd = "adduser" => Resting(objs[id]))
      /\ s \notin Showing
  <2>1. PICK o, on, h : o = objs[id] /\ on = Stands(cmdstack, id) /\ h = password_input
    BY ONLY TRUE
  <2>2. \A t \in {<<"exit">>, <<"exit", "raise">>} :
          Allowed(t, o, on, h) => (Hiding(o) => ~ h) /\ (o.cmd = "adduser" => Resting(o))
    BY ONLY Allowances
  <2>3. (Hiding(o) => ~ h) /\ (o.cmd = "adduser" => Resting(o))
    BY ONLY <1>4, <1>7, <2>1, <2>2
  <2>4. s \notin Showing
    BY ONLY <1>7, Tellings
  <2> QED BY ONLY <2>1, <2>3, <2>4
<1>9. PICK l \in Nat : l = Len(todo) /\ 1 <= l
  <2>1. Len(todo) \in Nat
    BY ONLY <1>1, LenProperties DEF TodoTyped
  <2> QED BY ONLY <1>4, <1>5, <2>1 DEF Acting
<1>10. Past(todo, 1, objs)
  <2>1. CASE s = <<"exit">>
    <3>1. Len(s) = 1
      BY ONLY <2>1
    <3> QED BY ONLY <1>4, <3>1
  <2>2. CASE s = <<"exit", "raise">>
    <3>1. Len(s) = 2 /\ s[2] = "raise" /\ 2 \in 1 .. Len(s)
      BY ONLY <2>2
    <3>2. todo[2].do = "raise"
      BY ONLY <1>4, <3>1 DEF Acting
    <3>3. Mellow(todo[2], objs)
      BY ONLY <3>2 DEF Mellow
    <3>4. \A k \in 1 .. l : k > 2 => Mellow(todo[k], objs)
      BY ONLY <1>4, <1>9, <3>1 DEF Past
    <3>5. \A k \in 1 .. l : k > 1 => k = 2 \/ k > 2
      BY ONLY TRUE
    <3> QED BY ONLY <1>9, <3>3, <3>4, <3>5 DEF Past
  <2> QED BY ONLY <1>7, <2>1, <2>2
<1>11. PICK new : new = Resume(Front(cmdstack))
  BY ONLY TRUE
<1>12. /\ Follows(todo', new, todo) /\ Len(new) \in Nat
       /\ \A k \in 1 .. Len(new) : Mellow(new[k], objs)
  <2>1. new = << >> \/ \E item : new = <<item>> /\ Mellow(item, objs)
    BY ONLY <1>11, Resumes
  <2>2. CASE new = << >>
    <3>1. Len(new) = 0
      BY ONLY <2>2, EmptySeq
    <3>2. Follows(todo', new, todo)
      BY ONLY <1>1, <1>3, <1>11, <2>2, FollowsNone
    <3>3. 1 .. 0 = {}
      BY ONLY TRUE
    <3> QED BY ONLY <3>1, <3>2, <3>3
  <2>3. CASE \E item : new = <<item>> /\ Mellow(item, objs)
    <3>1. PICK item : new = <<item>> /\ Mellow(item, objs)
      BY ONLY <2>3
    <3>2. Follows(todo', <<item>>, todo) /\ Len(<<item>>) = 1 /\ <<item>>[1] = item
      BY ONLY <1>1, <1>3, <1>11, <3>1, FollowsOne
    <3>3. \A k \in 1 .. 1 : k = 1
      BY ONLY TRUE
    <3>4. Follows(todo', new, todo) /\ Len(new) = 1 /\ new[1] = item
      BY ONLY <3>1, <3>2
    <3> QED BY ONLY <3>1, <3>3, <3>4
  <2> QED BY ONLY <2>1, <2>2, <2>3
<1>13. Past(todo', 0, objs)
  <2>1. 0 \in 0 .. Len(new) /\ \A k \in 1 .. Len(new) : k > 0 => Mellow(new[k], objs)
    BY ONLY <1>12
  <2>2. Kept(objs, objs)
    BY ONLY <1>1, KeptSelf
  <2> QED BY ONLY <1>1, <1>10, <1>12, <2>1, <2>2, PastGo
<1>14. \A i : Stands(cmdstack, i) /\ i # id => Stands(Front(cmdstack), i)
  BY ONLY <1>1, <1>2, <1>3, <1>6, StandsFront
<1>15. Left(objs, Front(cmdstack))
  BY ONLY <1>8, <1>14, Left(objs, cmdstack) DEF Left
<1>16. password_input => Hidden(objs, Front(cmdstack))
  BY ONLY <1>4, <1>8, <1>14 DEF Hidden
<1> QED BY ONLY <1>3, <1>13, <1>15, <1>16 DEF Echoes, Calm

\* The steps that are taken in the middle of a dialogue.
LEMMA EchoWithin ==
  ASSUME Prompting, Left(objs, cmdstack), NEW id \in 1 .. Len(objs), NEW s \in Scripts,
         Within(id, s, todo, objs, cmdstack, password_input), ShellNext, Clean'
  PROVE  Echoes(todo', objs', cmdstack', password_input')
<1>1. Len(s) \in Nat \ {0} /\ s[1] \in {"hide", "show", "next", "exit", "later", "back"}
  BY ONLY s \in Scripts DEF Scripts, Showing
<1>2. todo # << >>
  <2>1. Len(s) <= Len(todo)
    BY ONLY Within(id, s, todo, objs, cmdstack, password_input) DEF Within, Acting
  <2>2. CASE todo = << >>
    <3>1. Len(todo) = 0
      BY ONLY <2>2, EmptySeq
    <3> QED BY ONLY <1>1, <2>1, <3>1
  <2> QED BY ONLY <2>2
<1>3. head.do \in {"hide", "show", "next", "exit", "later", "back"}
  <2>1. Typed
    BY ONLY Prompting DEF Prompting
  <2>2. head = todo[1]
    BY ONLY <1>2, <2>1, HeadItem
  <2>3. 1 \in 1 .. Len(s)
    BY ONLY <1>1
  <2> QED BY ONLY <1>1, <2>2, <2>3, Within(id, s, todo, objs, cmdstack, password_input) DEF Within, Acting
<1>4. Small \/ ExitStep
  BY ONLY <1>2, <1>3, ShellNext DEF ShellNext, call_command, outConnectionLost, runCommand, Parse,
     SubstitutionDone, Sub, ShDone, Raised, Queue, LineReceived, handle_CTRL_C, handle_CTRL_D, Fire,
     SessionEnds, ShellConnectionLost, Doing, Typing, Idle
<1>5. CASE Small
  BY ONLY <1>5, EchoTell, Prompting, Left(objs, cmdstack),
          Within(id, s, todo, objs, cmdstack, password_input), s \in Scripts, id \in 1 .. Len(objs)
<1>6. CASE ExitStep
  BY ONLY <1>6, EchoLeave, Prompting, Left(objs, cmdstack), Clean',
          Within(id, s, todo, objs, cmdstack, password_input), s \in Scripts, id \in 1 .. Len(objs)
<1> QED BY ONLY <1>4, <1>5, <1>6

-----------------------------------------------------------------------------
(* The reactor's calls, and the echo. *)

\* What a handler does when it has nothing to do with the echo.
Unheard(s, asks) == \A k \in 1 .. Len(s) : s[k] \notin {"hide", "show"} /\ (asks => s[k] = "raise")

\* A handler is called between two steps of others: with a script that does not
\* touch the echo, or with one that is allowed.
LEMMA EchoHandled ==
  ASSUME NEW os, NEW st, Left(os, st), NEW h, h => Hidden(os, st), NEW id \in 1 .. Len(os), id \in Nat,
         NEW s, s = <<"queue">> \/ Acts(s), NEW w \in Withs, NEW q2, q2 = Script(id, s, w),
         \/ Unheard(s, os[id].cmd \in Asking)
         \/ s \in Scripts /\ os[id].cmd \in Asking /\ Allowed(s, os[id], Stands(st, id), h)
  PROVE  Echoes(q2, os, st, h)
<1>1. PICK D : D = Doings \cup {"queue"}
  BY ONLY TRUE
<1>2. D \subseteq Steps \cup {"queue"} /\ Doings \subseteq D
  BY ONLY <1>1 DEF Doings
<1>3. s \in Seq(D)
  <2>1. CASE s = <<"queue">>
    BY ONLY <1>1, <2>1
  <2>2. CASE Acts(s)
    BY ONLY <1>2, <2>2, SeqMonotonic DEF Acts
  <2> QED BY ONLY <2>1, <2>2, s = <<"queue">> \/ Acts(s)
<1>4. /\ Len(q2) = Len(s) /\ Len(s) \in Nat
      /\ \A k \in 1 .. Len(s) : q2[k] = [do |-> s[k], by |-> id, with |-> w]
  BY ONLY <1>2, <1>3, Scripted, id \in Nat, w \in Withs, q2 = Script(id, s, w)
<1>5. ASSUME NEW k \in 1 .. Len(s) PROVE q2[k].do = s[k] /\ q2[k].by = id
  <2>1. q2[k] = [do |-> s[k], by |-> id, with |-> w]
    BY ONLY <1>4, k \in 1 .. Len(s)
  <2> QED BY ONLY <2>1
<1>6. CASE Unheard(s, os[id].cmd \in Asking)
  <2>1. ASSUME NEW k \in 1 .. Len(s) PROVE Mellow(q2[k], os)
    BY ONLY <1>5, <1>6, k \in 1 .. Len(s) DEF Mellow, Unheard
  <2>2. Past(q2, 0, os)
    BY ONLY <1>4, <2>1 DEF Past
  <2> QED BY ONLY <2>2, Left(os, st), h => Hidden(os, st) DEF Echoes, Calm
<1>7. CASE s \in Scripts /\ os[id].cmd \in Asking /\ Allowed(s, os[id], Stands(st, id), h)
  <2>1. Acting(q2, id, s)
    BY ONLY <1>4, <1>5 DEF Acting
  <2>2. Past(q2, Len(s), os)
    BY ONLY <1>4 DEF Past
  <2>3. Within(id, s, q2, os, st, h)
    BY ONLY <1>7, <2>1, <2>2, h => Hidden(os, st) DEF Within
  <2> QED BY ONLY <1>7, <2>3, Left(os, st), id \in 1 .. Len(os) DEF Echoes
<1> QED BY ONLY <1>6, <1>7,
                (Unheard(s, os[id].cmd \in Asking)
                 \/ (s \in Scripts /\ os[id].cmd \in Asking /\ Allowed(s, os[id], Stands(st, id), h)))

\* A handler that does nothing, or raises.
LEMMA BarelyUnheard == ASSUME NEW s \in {<< >>, <<"raise">>}, NEW a PROVE Unheard(s, a)
BY DEF Unheard

\* What a command that asks does with a line, phase by phase.
LEMMA LineAllowed ==
  ASSUME NEW o, o.cmd \in Asking, o.phase \in Int, NEW s \in Behaviour(o.cmd, o.phase).line, NEW h
  PROVE  s \in {<< >>, <<"raise">>} \/ (s \in Scripts /\ Allowed(s, o, TRUE, h))
<1>0. PICK p \in Int : p = o.phase
  BY ONLY o.phase \in Int
<1>1. CASE o.cmd = "passwd"
  <2>1. s \in command_passwd(p).line
    BY ONLY <1>0, <1>1, s \in Behaviour(o.cmd, o.phase).line DEF Behaviour
  <2>2. CASE p = 0
    <3>1. s = <<"next">>
      BY ONLY <2>1, <2>2, PasswdFields
    <3> QED BY ONLY <1>0, <1>1, <2>2, <3>1 DEF Allowed, Scripts
  <2>3. CASE p = 1
    <3>1. s = <<"next", "show", "exit">>
      BY ONLY <2>1, <2>3, PasswdFields
    <3> QED BY ONLY <1>0, <1>1, <2>3, <3>1 DEF Allowed, Scripts, Showing
  <2>4. CASE p \notin {0, 1}
    BY ONLY <2>1, <2>4, PasswdFields
  <2> QED BY ONLY <2>2, <2>3, <2>4
<1>2. CASE o.cmd = "adduser"
  <2>1. s \in command_adduser(p).line
    BY ONLY <1>0, <1>2, s \in Behaviour(o.cmd, o.phase).line DEF Behaviour
  <2>2. CASE s \in {<<"later", "show">>, <<"next", "later", "show">>}
    BY ONLY <1>2, <2>2 DEF Allowed, Scripts, Showing
  <2>3. CASE s \notin {<<"later", "show">>, <<"next", "later", "show">>}
    <3>1. p < 3 \/ p = 3 \/ p > 3
      BY ONLY p \in Int
    <3>2. s = <<"raise">> \/ (p = 3 /\ s = <<"exit">>)
      <4>1. CASE p < 3
        BY ONLY <2>1, <2>3, <4>1, AdduserFields
      <4>2. CASE p = 3
        BY ONLY <2>1, <2>3, <4>2, AdduserFields
      <4>3. CASE p > 3
        BY ONLY <2>1, <2>3, <4>3, AdduserFields
      <4> QED BY ONLY <3>1, <4>1, <4>2, <4>3
    <3>3. CASE p = 3 /\ s = <<"exit">>
      BY ONLY <1>0, <1>2, <3>3 DEF Allowed, Scripts, Hiding, Resting
    <3> QED BY ONLY <3>2, <3>3
  <2> QED BY ONLY <2>2, <2>3
<1>3. CASE o.cmd = "ssh"
  <2>1. s \in command_ssh(p).line
    BY ONLY <1>0, <1>3, s \in Behaviour(o.cmd, o.phase).line DEF Behaviour
  <2>2. CASE p = 0
    <3>1. s = <<"next", "hide">>
      BY ONLY <2>1, <2>2, SshFields
    <3> QED BY ONLY <1>0, <1>3, <2>2, <3>1 DEF Allowed, Scripts
  <2>3. CASE p = 1
    <3>1. s = <<"next", "later">>
      BY ONLY <2>1, <2>3, SshFields
    <3> QED BY ONLY <1>0, <1>3, <2>3, <3>1 DEF Allowed, Scripts
  <2>4. CASE p \notin {0, 1}
    BY ONLY <2>1, <2>4, SshFields
  <2> QED BY ONLY <2>2, <2>3, <2>4
<1> QED BY ONLY <1>1, <1>2, <1>3, o.cmd \in Asking DEF Asking

\* What it does when its timer fires: an adduser that is not on the stack any
\* more is at its last question, and hides nothing.
LEMMA FireAllowed ==
  ASSUME NEW o, o.cmd \in Asking, o.phase \in Int, o.timers > 0, NEW on \in BOOLEAN,
         o.cmd = "adduser" => o.phase >= 0 /\ (on \/ Resting(o)),
         NEW s \in Behaviour(o.cmd, o.phase).fire, NEW o2, o2.cmd = o.cmd, o2.phase = o.phase, NEW h
  PROVE  s \in {<< >>, <<"raise">>} \/ (s \in Scripts /\ Allowed(s, o2, on, h))
<1>0. PICK p \in Int : p = o.phase /\ p = o2.phase
  BY ONLY o.phase \in Int, o2.phase = o.phase
<1>1. CASE o.cmd = "passwd"
  <2>1. s \in command_passwd(p).fire
    BY ONLY <1>0, <1>1, s \in Behaviour(o.cmd, o.phase).fire DEF Behaviour
  <2> QED BY ONLY <2>1, PasswdFields
<1>2. CASE o.cmd = "adduser"
  <2>1. s \in command_adduser(p).fire
    BY ONLY <1>0, <1>2, s \in Behaviour(o.cmd, o.phase).fire DEF Behaviour
  <2>2. p >= 0 /\ (p # 3 => on)
    <3>1. ~ (p = 0 /\ o.timers = 0)
      BY ONLY o.timers > 0
    <3> QED BY ONLY <1>0, <1>2, <3>1, o.cmd = "adduser" => o.phase >= 0 /\ (on \/ Resting(o)) DEF Resting
  <2>3. CASE p = 0
    <3>1. s \in {<<"later">>, <<"next", "later">>}
      BY ONLY <2>1, <2>3, AdduserFields
    <3> QED BY ONLY <1>0, <1>2, <2>2, <2>3, <3>1, o2.cmd = o.cmd DEF Allowed, Scripts
  <2>4. CASE p = 1
    <3>1. s = <<"hide">>
      BY ONLY <2>1, <2>4, AdduserFields
    <3> QED BY ONLY <1>0, <1>2, <2>2, <2>4, <3>1, o2.cmd = o.cmd DEF Allowed, Scripts, Hiding
  <2>5. CASE p = 2
    <3>1. s \in {<<"later">>, << >>, <<"next", "later">>}
      BY ONLY <2>1, <2>5, AdduserFields
    <3> QED BY ONLY <1>0, <1>2, <2>2, <2>5, <3>1, o2.cmd = o.cmd DEF Allowed, Scripts
  <2>6. CASE p = 3
    BY ONLY <2>1, <2>6, AdduserFields
  <2>7. CASE p > 3
    <3>1. s \in {<<"back", "back", "later">>, <<"raise">>}
      BY ONLY <2>1, <2>7, AdduserFields
    <3> QED BY ONLY <1>0, <1>2, <2>2, <2>7, <3>1, o2.cmd = o.cmd DEF Allowed, Scripts
  <2> QED BY ONLY <2>2, <2>3, <2>4, <2>5, <2>6, <2>7
<1>3. CASE o.cmd = "ssh"
  <2>1. s = <<"show", "exit">>
    BY ONLY <1>0, <1>3, SshFields, s \in Behaviour(o.cmd, o.phase).fire DEF Behaviour
  <2> QED BY ONLY <1>3, <2>1, o2.cmd = o.cmd DEF Allowed, Scripts, Showing
<1> QED BY ONLY <1>1, <1>2, <1>3, o.cmd \in Asking DEF Asking

\* Between two calls nobody is in the middle of anything.
LEMMA EchoAtRest ==
  ASSUME Idle, Echoes(todo, objs, cmdstack, password_input)
  PROVE  Left(objs, cmdstack) /\ (password_input => Hidden(objs, cmdstack))
<1>1. Len(todo) = 0
  BY ONLY Idle, EmptySeq DEF Idle
<1>2. ASSUME NEW id, NEW s \in Scripts PROVE ~ Within(id, s, todo, objs, cmdstack, password_input)
  <2>1. Len(s) \in Nat \ {0}
    BY ONLY s \in Scripts DEF Scripts, Showing
  <2> QED BY ONLY <1>1, <2>1 DEF Within, Acting
<1> QED BY ONLY <1>2, Echoes(todo, objs, cmdstack, password_input) DEF Echoes, Calm

\* One step that has nothing to do with the echo.
LEMMA EchoCalled ==
  ASSUME NEW os, NEW st, Left(os, st), NEW h, h => Hidden(os, st), NEW x, Mellow(x, os), NEW q2, q2 = <<x>>
  PROVE  Echoes(q2, os, st, h)
<1>1. Len(q2) = 1 /\ q2[1] = x
  BY ONLY q2 = <<x>>
<1>2. \A k \in 1 .. 1 : k = 1
  BY ONLY TRUE
<1>3. Past(q2, 0, os)
  BY ONLY <1>1, <1>2, Mellow(x, os) DEF Past
<1> QED BY ONLY <1>3, Left(os, st), h => Hidden(os, st) DEF Echoes, Calm

\* A line is for the shell or the command that is on top.
LEMMA EchoLine ==
  ASSUME Prompting, Echoes(todo, objs, cmdstack, password_input), LineReceived
  PROVE  Echoes(todo', objs', cmdstack', password_input')
<1>1. Idle /\ objs' = objs /\ cmdstack' = cmdstack /\ password_input' = password_input
  BY ONLY LineReceived DEF LineReceived, Typing
<1>2. Left(objs, cmdstack) /\ (password_input => Hidden(objs, cmdstack))
  BY ONLY <1>1, EchoAtRest, Echoes(todo, objs, cmdstack, password_input)
<1>3. /\ Last(cmdstack) \in 1 .. Len(objs) /\ cmdstack # << >> /\ Len(objs) \in Nat \ {0}
      /\ cmdstack \in Seq(1 .. Len(objs)) /\ Len(cmdstack) \in Nat \ {0}
      /\ Last(cmdstack) = cmdstack[Len(cmdstack)]
  BY ONLY Prompting, <1>1, AtRest
<1>4. PICK id : id = Last(cmdstack)
  BY ONLY TRUE
<1>5. id \in 1 .. Len(objs) /\ id \in Nat /\ Stands(cmdstack, id)
  BY ONLY <1>3, <1>4 DEF Stands
<1>6. CASE IsShell(id)
  <2>1. PICK line \in Lines : todo' = <<Item("parse", id, line)>>
    BY ONLY <1>3, <1>4, <1>6, LineReceived DEF LineReceived
  <2>2. PICK item : item = [do |-> "parse", by |-> id, with |-> line]
    BY ONLY TRUE
  <2>3. Mellow(item, objs)
    BY ONLY <1>6, <2>2, AskingPrograms DEF Mellow, IsShell
  <2>4. todo' = <<item>>
    BY ONLY <2>1, <2>2 DEF Item
  <2> QED BY ONLY <1>1, <1>2, <2>3, <2>4, EchoCalled
<1>7. CASE ~ IsShell(id)
  <2>1. objs[id].cmd \in Programs /\ objs[id].phase \in Int
    BY ONLY <1>1, <1>4, <1>7, TopCommand, Prompting
  <2>2. PICK s \in Behaviour(objs[id].cmd, objs[id].phase).line :
          IF "queue" \in Range(s)
          THEN \E line \in {l \in Lines : WordsOf(l) \cap {"quote", "stop"} = {}} : todo' = Script(id, s, Words(line))
          ELSE todo' = Script(id, s, << >>)
    BY ONLY <1>3, <1>4, <1>7, LineReceived DEF LineReceived
  <2>3. s = <<"queue">> \/ Acts(s)
    BY ONLY <2>1, <2>2, Handlers
  <2>4. PICK w \in Withs : todo' = Script(id, s, w)
    <3>1. CASE "queue" \in Range(s)
      <4>1. PICK line \in Lines : /\ WordsOf(line) \cap {"quote", "stop"} = {}
                                  /\ todo' = Script(id, s, Words(line))
        BY ONLY <2>2, <3>1
      <4>2. Words(line) \in Withs
        BY ONLY <4>1, WordsTyped, Withs0
      <4> QED BY ONLY <4>1, <4>2
    <3>2. CASE "queue" \notin Range(s)
      <4>1. << >> \in Withs
        BY ONLY Withs0
      <4> QED BY ONLY <2>2, <3>2, <4>1
    <3> QED BY ONLY <3>1, <3>2
  <2>5. \/ Unheard(s, objs[id].cmd \in Asking)
        \/ s \in Scripts /\ objs[id].cmd \in Asking
           /\ Allowed(s, objs[id], Stands(cmdstack, id), password_input)
    <3>1. CASE objs[id].cmd \in Asking
      <4>1. s \in {<< >>, <<"raise">>} \/ (s \in Scripts /\ Allowed(s, objs[id], TRUE, password_input))
        BY ONLY <2>1, <2>2, <3>1, LineAllowed
      <4>2. Allowed(s, objs[id], TRUE, password_input)
            => Allowed(s, objs[id], Stands(cmdstack, id), password_input)
        BY ONLY <1>5 DEF Allowed
      <4> QED BY ONLY <3>1, <4>1, <4>2, BarelyUnheard
    <3>2. CASE objs[id].cmd \notin Asking
      <4>1. Tame(s)
        BY ONLY <2>1, <2>2, <3>2, Tamed
      <4> QED BY ONLY <3>2, <4>1 DEF Tame, Unheard
    <3> QED BY ONLY <3>1, <3>2
  <2>6. Echoes(todo', objs, cmdstack, password_input)
    BY ONLY <1>2, <1>5, <2>3, <2>4, <2>5, EchoHandled
  <2> QED BY ONLY <1>1, <2>6
<1> QED BY ONLY <1>6, <1>7

\* CTRL-D ends the shell, and no command that asks takes notice.
LEMMA EchoCtrlD ==
  ASSUME Prompting, Echoes(todo, objs, cmdstack, password_input), handle_CTRL_D
  PROVE  Echoes(todo', objs', cmdstack', password_input')
<1>1. Idle /\ objs' = objs /\ cmdstack' = cmdstack /\ password_input' = password_input
  BY ONLY handle_CTRL_D DEF handle_CTRL_D, Typing
<1>2. Left(objs, cmdstack) /\ (password_input => Hidden(objs, cmdstack))
  BY ONLY <1>1, EchoAtRest, Echoes(todo, objs, cmdstack, password_input)
<1>3. Last(cmdstack) \in 1 .. Len(objs) /\ Len(objs) \in Nat \ {0}
  BY ONLY Prompting, <1>1, AtRest
<1>4. PICK id : id = Last(cmdstack)
  BY ONLY TRUE
<1>5. id \in 1 .. Len(objs) /\ id \in Nat
  BY ONLY <1>3, <1>4
<1>6. CASE IsShell(id)
  <2>1. PICK c : c = [cmd |-> "exit", arg |-> << >>]
    BY ONLY TRUE
  <2>2. PICK item : item = [do |-> "call", by |-> id, with |-> <<c>>]
    BY ONLY TRUE
  <2>3. Mellow(item, objs)
    BY ONLY <2>2 DEF Mellow
  <2>4. todo' = <<item>>
    BY ONLY <1>4, <1>6, <2>1, <2>2, handle_CTRL_D DEF handle_CTRL_D, Item
  <2> QED BY ONLY <1>1, <1>2, <2>3, <2>4, EchoCalled
<1>7. CASE ~ IsShell(id)
  <2>1. objs[id].cmd \in Programs /\ objs[id].phase \in Int
    BY ONLY <1>1, <1>4, <1>7, TopCommand, Prompting
  <2>2. PICK s \in Behaviour(objs[id].cmd, objs[id].phase).eof : todo' = Script(id, s, << >>)
    BY ONLY <1>4, <1>7, handle_CTRL_D DEF handle_CTRL_D
  <2>3. Acts(s) /\ << >> \in Withs
    BY ONLY <2>1, <2>2, Handlers, Withs0
  <2>4. Unheard(s, objs[id].cmd \in Asking)
    <3>1. CASE objs[id].cmd \in Asking
      <4>1. s = << >>
        BY ONLY <2>1, <2>2, <3>1, PasswdFields, AdduserFields, SshFields DEF Behaviour, Asking
      <4> QED BY ONLY <4>1, BarelyUnheard
    <3>2. CASE objs[id].cmd \notin Asking
      <4>1. Tame(s)
        BY ONLY <2>1, <2>2, <3>2, Tamed
      <4> QED BY ONLY <3>2, <4>1 DEF Tame, Unheard
    <3> QED BY ONLY <3>1, <3>2
  <2>5. Echoes(todo', objs, cmdstack, password_input)
    BY ONLY <1>2, <1>5, <2>2, <2>3, <2>4, EchoHandled
  <2> QED BY ONLY <1>1, <2>5
<1> QED BY ONLY <1>6, <1>7

\* A timer fires, of a command that is on the stack or has left it.
LEMMA EchoFire ==
  ASSUME Prompting, Echoes(todo, objs, cmdstack, password_input), Fire
  PROVE  Echoes(todo', objs', cmdstack', password_input')
<1>1. Idle /\ cmdstack' = cmdstack /\ password_input' = password_input
  BY ONLY Fire DEF Fire
<1>2. Left(objs, cmdstack) /\ (password_input => Hidden(objs, cmdstack))
  BY ONLY <1>1, EchoAtRest, Echoes(todo, objs, cmdstack, password_input)
<1>3. ObjectsTyped(objs) /\ Len(objs) \in Nat \ {0}
  BY ONLY Prompting, <1>1, AtRest
<1>4. DOMAIN objs = 1 .. Len(objs)
  BY ONLY <1>3, LenProperties DEF ObjectsTyped
<1>5. PICK id \in 1 .. Len(objs) :
        /\ objs[id].timers > 0
        /\ objs' = [objs EXCEPT ![id].timers = objs[id].timers - 1]
        /\ \E s \in Behaviour(objs[id].cmd, objs[id].phase).fire : todo' = Script(id, s, << >>)
  BY ONLY <1>4, Fire DEF Fire
<1>6. PICK m, n : m = objs[id] /\ n = objs[id].timers - 1
  BY ONLY TRUE
<1>7. m \in Objects /\ m.cmd \in Shells \cup Programs /\ m.timers \in Nat /\ m.phase \in Int /\ Quiet(m)
  BY ONLY <1>3, <1>6, ObjectFields
<1>8. m.cmd \in Programs /\ n \in Nat /\ m.timers > 0
  BY ONLY <1>5, <1>6, <1>7 DEF Quiet
<1>9. PICK o : o = [m EXCEPT !.timers = n]
  BY ONLY TRUE
<1>10. o \in Objects /\ o.cmd = m.cmd /\ o.phase = m.phase
  BY ONLY <1>7, <1>8, <1>9 DEF Objects
<1>11. Quiet(o)
  BY ONLY <1>8, <1>10, ShellsNoPrograms DEF Quiet
<1>12. objs' = Put(objs, id, o)
  BY ONLY <1>5, <1>6, <1>9 DEF Put
<1>13. /\ Len(objs') = Len(objs) /\ objs'[id] = o
       /\ \A j \in 1 .. Len(objs) : j # id => objs'[j] = objs[j]
  BY ONLY <1>3, <1>6, <1>10, <1>11, <1>12, Changed
<1>14. PICK s \in Behaviour(m.cmd, m.phase).fire : todo' = Script(id, s, << >>)
  BY ONLY <1>5, <1>6
<1>15. Acts(s) /\ << >> \in Withs
  BY ONLY <1>7, <1>8, <1>14, Handlers, Withs0
<1>16. PICK on \in BOOLEAN : on <=> Stands(cmdstack, id)
  BY ONLY TRUE
<1>17. m.cmd = "adduser" => m.phase >= 0 /\ (on \/ Resting(m))
  BY ONLY <1>2, <1>6, <1>16, id \in 1 .. Len(objs) DEF Left
<1>18. Left(objs', cmdstack)
  <2>1. ASSUME NEW i \in 1 .. Len(objs'), objs'[i].cmd = "adduser"
        PROVE  objs'[i].phase >= 0 /\ (Stands(cmdstack, i) \/ Resting(objs'[i]))
    <3>1. CASE i = id
      <4>1. Resting(m) => m.phase = 3
        BY ONLY <1>8 DEF Resting
      <4> QED BY ONLY <1>10, <1>13, <1>16, <1>17, <2>1, <3>1, <4>1 DEF Resting
    <3>2. CASE i # id
      BY ONLY <1>2, <1>13, <2>1, <3>2 DEF Left
    <3> QED BY ONLY <3>1, <3>2
  <2> QED BY ONLY <2>1 DEF Left
<1>19. password_input => Hidden(objs', cmdstack)
  <2>1. ASSUME NEW i \in 1 .. Len(objs), Hiding(objs[i]) PROVE Hiding(objs'[i])
    <3>1. objs'[i].cmd = objs[i].cmd /\ objs'[i].phase = objs[i].phase
      BY ONLY <1>6, <1>10, <1>13, i \in 1 .. Len(objs)
    <3> QED BY ONLY <2>1, <3>1 DEF Hiding
  <2> QED BY ONLY <1>2, <1>13, <2>1 DEF Hidden
<1>20. \/ Unheard(s, objs'[id].cmd \in Asking)
       \/ s \in Scripts /\ objs'[id].cmd \in Asking
          /\ Allowed(s, objs'[id], Stands(cmdstack, id), password_input)
  <2>1. CASE m.cmd \in Asking
    <3>1. s \in {<< >>, <<"raise">>} \/ (s \in Scripts /\ Allowed(s, o, on, password_input))
      BY ONLY <1>7, <1>8, <1>10, <1>14, <1>16, <1>17, <2>1, FireAllowed
    <3>2. Allowed(s, o, on, password_input) => Allowed(s, objs'[id], Stands(cmdstack, id), password_input)
      BY ONLY <1>13, <1>16 DEF Allowed
    <3> QED BY ONLY <1>10, <1>13, <2>1, <3>1, <3>2, BarelyUnheard
  <2>2. CASE m.cmd \notin Asking
    <3>1. Tame(s)
      BY ONLY <1>7, <1>8, <1>14, <2>2, Tamed
    <3> QED BY ONLY <1>10, <1>13, <2>2, <3>1 DEF Tame, Unheard
  <2> QED BY ONLY <2>1, <2>2
<1>21. id \in 1 .. Len(objs') /\ id \in Nat
  BY ONLY <1>3, <1>13, id \in 1 .. Len(objs)
<1>22. Echoes(todo', objs', cmdstack, password_input)
  BY ONLY <1>14, <1>15, <1>18, <1>19, <1>20, <1>21, EchoHandled
<1> QED BY ONLY <1>1, <1>22

\* Nobody has asked for anything yet.
LEMMA EchoStart == ASSUME ShellStart PROVE Echoes(todo, objs, cmdstack, password_input)
<1>1. PICK r : r = New("shell", << >>)
  BY ONLY TRUE
<1>2. objs = <<r>> /\ password_input = FALSE
  BY ONLY <1>1, ShellStart DEF ShellStart
<1>3. Len(objs) = 1 /\ objs[1] = r /\ r.cmd = "shell"
  BY ONLY <1>1, <1>2 DEF New
<1>4. Left(objs, cmdstack)
  <2>1. \A i \in 1 .. 1 : i = 1
    BY ONLY TRUE
  <2> QED BY ONLY <1>3, <2>1 DEF Left
<1>5. CASE todo = << >>
  <2>1. Len(todo) = 0
    BY ONLY <1>5, EmptySeq
  <2>2. Past(todo, 0, objs)
    BY ONLY <2>1 DEF Past
  <2> QED BY ONLY <1>2, <1>4, <2>2 DEF Echoes, Calm
<1>6. CASE todo # << >>
  <2>1. PICK line \in Lines : todo = <<Item("parse", 1, line)>>
    BY ONLY <1>6, ShellStart DEF ShellStart
  <2>2. PICK item : item = Item("parse", 1, line)
    BY ONLY TRUE
  <2>3. Mellow(item, objs)
    BY ONLY <1>3, <2>2, AskingPrograms DEF Item, Mellow
  <2> QED BY ONLY <1>2, <1>4, <2>1, <2>2, <2>3, EchoCalled
<1> QED BY ONLY <1>5, <1>6

\* The part of a run that EchoRestored is about.
Unspoilt == Clean /\ spoilt = {}

\* Nothing leads back to that part.
LEMMA StaysUnspoilt == ASSUME [ShellNext]_shellvars, Unspoilt' PROVE Unspoilt
<1>1. Clean
  BY ONLY [ShellNext]_shellvars, Unspoilt', StaysClean DEF Unspoilt
<1>2. spoilt \subseteq spoilt'
  <2>1. CASE UNCHANGED shellvars
    BY ONLY <2>1 DEF shellvars
  <2>2. CASE ShellNext
    BY ONLY <2>2 DEF ShellNext, call_command, outConnectionLost, ExitStep, runCommand, Parse,
       SubstitutionDone, Sub, ShDone, Raised, Queue, Small, LineReceived, handle_CTRL_C,
       handle_CTRL_D, Fire, SessionEnds, ShellConnectionLost
  <2> QED BY ONLY <2>1, <2>2, [ShellNext]_shellvars
<1> QED BY ONLY <1>1, <1>2, Unspoilt' DEF Unspoilt

\* A step keeps the invariant: in the middle of a dialogue the dialogue goes on,
\* and otherwise action by action.
LEMMA EchoStep ==
  ASSUME Prompting, Prompting', Echoes(todo, objs, cmdstack, password_input), ShellNext, Unspoilt'
  PROVE  Echoes(todo', objs', cmdstack', password_input')
<1>1. Clean' /\ spoilt' = {}
  BY ONLY Unspoilt' DEF Unspoilt
<1>2. Left(objs, cmdstack)
  BY ONLY Echoes(todo, objs, cmdstack, password_input) DEF Echoes
<1>3. CASE \E id \in 1 .. Len(objs), s \in Scripts : Within(id, s, todo, objs, cmdstack, password_input)
  BY ONLY <1>1, <1>2, <1>3, EchoWithin, Prompting, ShellNext
<1>4. CASE Calm(todo, objs, cmdstack, password_input)
  <2>1. CASE call_command
    BY ONLY <1>2, <1>4, <2>1, EchoCall, Prompting, Prompting'
  <2>2. CASE outConnectionLost
    BY ONLY <1>2, <1>4, <2>2, EchoLost, Prompting
  <2>3. CASE ExitStep
    BY ONLY <1>1, <1>2, <1>4, <2>3, EchoExit, Prompting
  <2>4. CASE runCommand
    BY ONLY <1>1, <1>2, <1>4, <2>4, EchoRun, Prompting, Prompting'
  <2>5. CASE Parse
    BY ONLY <1>2, <1>4, <2>5, EchoParse, Prompting, Prompting'
  <2>6. CASE SubstitutionDone \/ ShDone
    BY ONLY <1>1, <1>2, <1>4, <2>6, EchoPop, Prompting
  <2>7. CASE Sub
    BY ONLY <1>1, <1>2, <1>4, <2>7, EchoSub, Prompting
  <2>8. CASE Raised
    BY ONLY <1>1, <2>8 DEF Raised, Clean
  <2>9. CASE Queue
    BY ONLY <1>1, <1>2, <1>4, <2>9, EchoQueue, Prompting, Prompting'
  <2>10. CASE Small
    BY ONLY <1>1, <1>2, <1>4, <2>10, EchoSmall, Prompting
  <2>11. CASE LineReceived
    BY ONLY <2>11, EchoLine, Prompting, Echoes(todo, objs, cmdstack, password_input)
  <2>12. CASE handle_CTRL_C
    <3>1. CASE IsShell(Last(cmdstack))
      <4>1. todo' = todo /\ objs' = objs /\ cmdstack' = cmdstack /\ password_input' = password_input
        BY ONLY <2>12, <3>1 DEF handle_CTRL_C
      <4> QED BY ONLY <4>1, Echoes(todo, objs, cmdstack, password_input)
    <3>2. CASE ~ IsShell(Last(cmdstack))
      <4>1. spoilt' # {}
        BY ONLY <2>12, <3>2 DEF handle_CTRL_C
      <4> QED BY ONLY <1>1, <4>1
    <3> QED BY ONLY <3>1, <3>2
  <2>13. CASE handle_CTRL_D
    BY ONLY <2>13, EchoCtrlD, Prompting, Echoes(todo, objs, cmdstack, password_input)
  <2>14. CASE Fire
    BY ONLY <2>14, EchoFire, Prompting, Echoes(todo, objs, cmdstack, password_input)
  <2>15. CASE SessionEnds \/ ShellConnectionLost
    BY ONLY <1>1, <2>15 DEF SessionEnds, ShellConnectionLost, processEnded, Clean
  <2> QED BY ONLY <2>1, <2>2, <2>3, <2>4, <2>5, <2>6, <2>7, <2>8, <2>9, <2>10, <2>11, <2>12, <2>13,
                  <2>14, <2>15, ShellNext DEF ShellNext
<1> QED BY ONLY <1>3, <1>4, Echoes(todo, objs, cmdstack, password_input) DEF Echoes

\* The invariant of EchoKept.
Echoing == Unspoilt => Echoes(todo, objs, cmdstack, password_input)

\* The same of any step of the specification.
LEMMA EchoingStep ==
  ASSUME Clean => Prompting, (Clean => Prompting)', Echoing, [ShellNext]_shellvars
  PROVE  Echoing'
<1> SUFFICES ASSUME Unspoilt' PROVE Echoes(todo', objs', cmdstack', password_input')
  BY DEF Echoing
<1>1. Unspoilt
  BY ONLY [ShellNext]_shellvars, Unspoilt', StaysUnspoilt
<1>2. Prompting /\ Prompting'
  BY ONLY <1>1, Unspoilt', Clean => Prompting, (Clean => Prompting)' DEF Unspoilt
<1>3. Echoes(todo, objs, cmdstack, password_input)
  BY ONLY <1>1, Echoing DEF Echoing
<1>4. CASE UNCHANGED shellvars
  <2>1. todo' = todo /\ objs' = objs /\ cmdstack' = cmdstack /\ password_input' = password_input
    BY ONLY <1>4 DEF shellvars
  <2> QED BY ONLY <1>3, <2>1
<1>5. CASE ShellNext
  BY ONLY <1>2, <1>3, <1>5, Unspoilt', EchoStep
<1> QED BY ONLY <1>4, <1>5, [ShellNext]_shellvars

\* At rest, the invariant is the property.
LEMMA EchoShows == ASSUME Clean => Prompting, Echoing PROVE EchoRestored
<1> SUFFICES ASSUME Idle, password_input, conn = "open", spoilt = {}
             PROVE  \E i \in DOMAIN cmdstack : objs[cmdstack[i]].cmd \in {"passwd", "adduser", "ssh"}
  BY DEF EchoRestored
<1>1. Clean
  BY ONLY Idle, conn = "open", spoilt = {} DEF Idle, Doing, Clean
<1>2. Prompting /\ Echoes(todo, objs, cmdstack, password_input)
  BY ONLY <1>1, spoilt = {}, Clean => Prompting, Echoing DEF Echoing, Unspoilt
<1>3. Hidden(objs, cmdstack)
  BY ONLY <1>2, Idle, password_input, EchoAtRest
<1>4. PICK j \in 1 .. Len(objs) : Stands(cmdstack, j) /\ Hiding(objs[j])
  BY ONLY <1>3 DEF Hidden
<1>5. PICK i \in 1 .. Len(cmdstack) : cmdstack[i] = j
  BY ONLY <1>4 DEF Stands
<1>6. i \in DOMAIN cmdstack
  BY ONLY <1>2, <1>5, Idle, AtRest, LenProperties
<1>7. objs[cmdstack[i]].cmd \in Asking
  BY ONLY <1>4, <1>5, HidingAsks
<1> QED BY ONLY <1>6, <1>7 DEF Asking

\* While no exception, no CTRL-C and no pop of another's has spoilt the session,
\* echo is off only if a command that may hide what is typed stands on the stack,
\* or is in the middle of a script of passwd, adduser or ssh that turns it on
\* (HoneyPotCommand.exit, protocol.password_input).
THEOREM EchoKept == ShellSpec => []Echoing
<1>1. ShellStart => Echoing
  BY ONLY EchoStart DEF Echoing
<1>2. (Clean => Prompting) /\ (Clean => Prompting)' /\ Echoing /\ [ShellNext]_shellvars => Echoing'
  BY ONLY EchoingStep
<1> QED BY <1>1, <1>2, PromptsKept, PTL DEF ShellSpec

\* Echo is off only while passwd, adduser or ssh runs: what they hide they show
\* before they leave the stack, whatever else runs, and a timer of an adduser that
\* was left behind hides nothing (EchoRestored).
THEOREM EchoBack == ShellSpec => []EchoRestored
<1>1. (Clean => Prompting) /\ Echoing => EchoRestored
  BY ONLY EchoShows
<1> QED BY <1>1, PromptsKept, EchoKept, PTL
=============================================================================
