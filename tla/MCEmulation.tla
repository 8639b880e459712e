---------------------------- MODULE MCEmulation ----------------------------
\* The parts of cowrie's own servers that a single state cannot hold together:
\* they share nothing that their modules mention, so each is explored with
\* the others at rest.
EXTENDS Shell, Recording, Login, FileSystem

VARIABLE part

Cmd(c) == [cmd |-> c, arg |-> << >>]
Run(c, a) == [cmd |-> c, arg |-> <<Cmd(a)>>]
P(stages) == [sub |-> << >>, stages |-> stages]
MCLines ==
  {<<P(<<Cmd(c)>>)>> : c \in Programs} \cup
  {<<P(<<Cmd("echo"), Cmd("cat")>>)>>, <<P(<<Cmd("cat"), Cmd("wc"), Cmd("grep")>>)>>,
   <<P(<<Cmd("sleep"), Cmd("cat")>>)>>, <<P(<<Cmd("echo")>>), P(<<Cmd("sleep")>>)>>,
   <<P(<<Cmd("unknown")>>), P(<<Cmd("echo")>>)>>, <<P(<<Cmd("echo"), Cmd("missing")>>)>>,
   <<P(<< >>)>>, << >>, <<P(<<Cmd("quote")>>)>>, <<P(<<Cmd("stop")>>)>>,
   <<P(<<Cmd("echo")>>), P(<<Cmd("stop")>>), P(<<Cmd("cat")>>)>>,
   <<[sub |-> <<Cmd("echo")>>, stages |-> <<Cmd("echo")>>]>>,
   <<[sub |-> <<Cmd("sleep")>>, stages |-> <<Cmd("echo")>>]>>,
   <<[sub |-> <<Cmd("unknown")>>, stages |-> <<Cmd("echo")>>]>>,
   <<P(<<Run("sudo", "passwd")>>), P(<<Cmd("cat")>>)>>, <<P(<<Run("busybox", "cat")>>)>>,
   <<P(<<Run("busybox", "sleep")>>)>>, <<P(<<Run("sh", "echo")>>)>>, <<P(<<Run("sh", "sleep")>>)>>}

MCMatches == [star |-> {"root", "p", "q", "r"}, root |-> {"root"}, p |-> {"p"}, re |-> {"q", "r"}]
MCRules == {[login |-> "root", passwd |-> w, policy |-> b] : w \in {"star", "p", "re"}, b \in BOOLEAN}
           \cup {[login |-> "root", passwd |-> "", policy |-> TRUE]}
MCFiles == UNION {[1 .. n -> MCRules] : n \in 0 .. 3}

MCEntry(n, t, c, to) == [name |-> n, type |-> t, contents |-> c, target |-> to]
MCImage == 0 :> MCEntry("", "dir", <<1, 2>>, << >>) @@ 1 :> MCEntry("d", "dir", << >>, << >>)
        @@ 2 :> MCEntry("l", "link", << >>, <<"d">>)

Symmetry == Permutations(Conns)

Init ==
  /\ part \in {"shell", "record", "login", "fs"}
  /\ ShellStart /\ (part # "shell" => kind = "interactive")
  /\ RecordStart
  /\ FsStart /\ (part # "fs" => newcount = 0)
  /\ LoginStart /\ (part # "login" => auth_class = "AuthRandom")

Next ==
  /\ UNCHANGED part
  /\ \/ part = "shell" /\ ShellNext /\ UNCHANGED <<recordvars, loginvars, fsvars>>
     \/ part = "record" /\ RecordNext /\ UNCHANGED <<shellvars, loginvars, fsvars>>
     \/ part = "login" /\ LoginNext /\ UNCHANGED <<shellvars, recordvars, fsvars>>
     \/ part = "fs" /\ FsNext /\ UNCHANGED <<shellvars, recordvars, loginvars>>

Spec == Init /\ [][Next]_<<part, shellvars, recordvars, loginvars, fsvars>>

\* Every part keeps its types.
TypeOK == ShellTypeOK /\ RecordTypeOK /\ LoginTypeOK /\ FsTypeOK
=============================================================================
