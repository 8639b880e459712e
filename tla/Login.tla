------------------------------- MODULE Login -------------------------------
(***************************************************************************)
(* Who may log in to cowrie's own servers: HoneypotPasswordChecker makes a *)
(* new UserDB or AuthRandom for each password that is tried (core/auth.py).*)
(* UserDB reads the lines of userdb.txt, AuthRandom the counters that the  *)
(* last login left in auth_random.json.                                    *)
(***************************************************************************)
EXTENDS Naturals, Sequences, FiniteSets, SequencesExt, FiniteSetsExt

CONSTANTS Sources,              \* addresses that log in
          Matches,              \* the rules of userdb.txt: what each matches
          Logins, Passwords,    \* what is tried
          Files,                \* the contents of userdb.txt
          mintry, maxtry, maxcache,     \* auth_class_parameters
          MaxTries              \* bound: the tries counted for an address

ASSUME LoginAssumption ==
  /\ mintry \in Nat \ {0} /\ maxtry \in Nat /\ maxtry >= mintry /\ maxcache \in Nat

\* A line of userdb.txt: whom it is about, and whether it lets them in.  The
\* password may be missing.
NoPassword == ""
Line == [login : DOMAIN Matches, passwd : DOMAIN Matches \cup {NoPassword}, policy : BOOLEAN]

ASSUME FilesAssumption == Files # {} /\ Files \subseteq Seq(Line)

VARIABLES
  auth_class,   \* "UserDB" or "AuthRandom"
  userdb_txt,   \* lines [login, passwd, policy], of those that can be parsed
  uservar,      \* auth_random.json by address, without its cache
  cache,        \* combinations that logged in somewhere
  helped,       \* history: addresses that a cached combination let in
  counted,      \* history: the different combinations tried by an address
  granted,      \* history: addresses let in for their number of tries
  answers       \* history: UserDB's answers, [combo, answer]

loginvars == <<auth_class, userdb_txt, uservar, cache, helped, counted, granted, answers>>

Combos == Logins \X Passwords
Counters == [try : Nat, max : Nat, user : BOOLEAN, tried : SUBSET Combos]

LoginTypeOK ==
  /\ auth_class \in {"UserDB", "AuthRandom"} /\ userdb_txt \in Files
  /\ DOMAIN uservar \subseteq Sources
  /\ \A ip \in DOMAIN uservar : uservar[ip] \in Counters
  /\ cache \in Seq(Combos) /\ Len(cache) <= maxcache
  /\ helped \cup granted \subseteq Sources
  /\ counted \in [Sources -> SUBSET Combos]
  /\ answers \subseteq [combo : Combos, answer : BOOLEAN]

LoginStart ==
  /\ auth_class \in {"UserDB", "AuthRandom"}
  /\ userdb_txt \in IF auth_class = "UserDB" THEN Files ELSE {CHOOSE f \in Files : TRUE}
  /\ uservar = << >> /\ cache = << >>
  /\ helped = {} /\ counted = [ip \in Sources |-> {}] /\ granted = {} /\ answers = {}

-----------------------------------------------------------------------------
match_rule(rule, input) == input \in Matches[rule]

\* Adding a user anew changes its policy and not its place.
adduser(db, line) ==
  LET at == {i \in DOMAIN db : db[i].login = line.login /\ db[i].passwd = line.passwd}
  IN IF at = {} THEN Append(db, line) ELSE [i \in DOMAIN db |-> IF i \in at THEN line ELSE db[i]]

\* adduser looks at the first letter of the password, and raises if it has none.
Loads(lines) == \A i \in DOMAIN lines : lines[i].passwd # NoPassword

load(lines) ==
  LET db[n \in 0 .. Len(lines)] ==
        IF n = 0 THEN << >> ELSE adduser(db[n - 1], lines[n])
  IN db[Len(lines)]

\* The first rule that matches decides.
UserDBchecklogin(combo) ==
  LET db == load(userdb_txt)
      hits == {i \in DOMAIN db : match_rule(db[i].login, combo[1]) /\ match_rule(db[i].passwd, combo[2])}
  IN hits # {} /\ db[Min(hits)].policy

\* A password tried with UserDB: an exception out of load lets nobody in.
TryUserDB(ip, combo) ==
  /\ auth_class = "UserDB"
  /\ Loads(userdb_txt)
  /\ answers' = answers \cup {[combo |-> combo, answer |-> UserDBchecklogin(combo)]}
  /\ UNCHANGED <<auth_class, userdb_txt, uservar, cache, helped, counted, granted>>

\* Mutant: a combination that was tried before counts again.
FaultyFresh(ip, combo) == TRUE

\* "Don't count repeated username/password combinations"
Fresh(ip, combo) == ip \in DOMAIN uservar => combo \notin uservar[ip].tried

Known(ip) == IF ip \in DOMAIN uservar THEN {uservar[ip]}
             ELSE [try : {0}, max : mintry .. maxtry, user : {FALSE}, tried : {{}}]

\* self.uservar[src_ip] = info
Entered(ip, info) == [x \in DOMAIN uservar \cup {ip} |-> IF x = ip THEN info ELSE uservar[x]]

\* A cached combination: the address needs one try from now on, and one that
\* was not seen before has made none yet.
TryCached(ip, combo) ==
  /\ auth_class = "AuthRandom" /\ combo \in Range(cache)
  /\ uservar' = Entered(ip, IF ip \in DOMAIN uservar
                              THEN [uservar[ip] EXCEPT !.max = 1, !.user = TRUE]
                              ELSE [try |-> 0, max |-> 1, user |-> TRUE, tried |-> {}])
  /\ helped' = helped \cup {ip}
  /\ UNCHANGED <<auth_class, userdb_txt, cache, counted, granted, answers>>

\* One more combination is counted.  At the number that was drawn the address is
\* let in, and after it never again: the name is kept as str(bytes), and is
\* compared with bytes.
Attempt(info, combo) ==
  LET attempts == info.try + 1
      tried == info.tried \cup {combo}
  IN CASE attempts < info.max -> [info EXCEPT !.try = attempts, !.tried = tried]
       [] attempts = info.max -> [info EXCEPT !.try = attempts, !.user = TRUE]
       [] attempts > info.max /\ info.user -> [info EXCEPT !.try = attempts]
       [] attempts > info.max /\ ~ info.user -> [info EXCEPT !.try = 1, !.tried = tried]

\* A combination that is not cached counts if the address did not try it before.
TryCounted(ip, combo) ==
  /\ auth_class = "AuthRandom" /\ combo \notin Range(cache)
  /\ \E info \in Known(ip) :
       /\ info.try < MaxTries
       /\ IF ~ Fresh(ip, combo) THEN UNCHANGED <<uservar, cache, granted>>
          ELSE /\ uservar' = Entered(ip, Attempt(info, combo))
               /\ IF info.try + 1 # info.max THEN UNCHANGED <<cache, granted>>
                  ELSE LET all == Append(cache, combo)
                       IN /\ cache' = IF Len(all) > maxcache THEN Tail(all) ELSE all
                          /\ granted' = granted \cup {ip}
  /\ counted' = IF ip \in granted THEN counted ELSE [counted EXCEPT ![ip] = @ \cup {combo}]
  /\ UNCHANGED <<auth_class, userdb_txt, helped, answers>>

\* A crash between opening auth_random.json and filling it: the next login
\* finds no JSON there, and starts with nothing.
LoginCrash ==
  /\ auth_class = "AuthRandom"
  /\ uservar' = << >> /\ cache' = << >>
  /\ helped' = {} /\ counted' = [ip \in Sources |-> {}] /\ granted' = {}
  /\ UNCHANGED <<auth_class, userdb_txt, answers>>

LoginNext ==
  \/ \E ip \in Sources, combo \in Combos :
       TryUserDB(ip, combo) \/ TryCached(ip, combo) \/ TryCounted(ip, combo)
  \/ LoginCrash

-----------------------------------------------------------------------------
Refusing(i) == ~ userdb_txt[i].policy
About(i, combo) == match_rule(userdb_txt[i].login, combo[1]) /\ match_rule(userdb_txt[i].passwd, combo[2])

\* Nobody gets in too early or is kept out too long. An address that no cached
\* combination helped is let in by AuthRandom after at least mintry different
\* combinations and at most maxtry ones, and not kept out after maxtry. With
\* UserDB a combination is let in by some line, and not if the first line
\* about it refuses it and is not given again.
Deserved ==
  /\ \A ip \in Sources \ helped :
       /\ ip \in granted => Cardinality(counted[ip]) \in mintry .. maxtry
       /\ Cardinality(counted[ip]) >= maxtry => ip \in granted
  /\ \A a \in answers :
       LET lines == {i \in DOMAIN userdb_txt : About(i, a.combo)}
       IN a.answer =>
            /\ \E i \in lines : userdb_txt[i].policy
            /\ ~ (/\ Refusing(Min(lines))
                  /\ \A i \in DOMAIN userdb_txt \ {Min(lines)} :
                       [userdb_txt[i] EXCEPT !.policy = FALSE] # userdb_txt[Min(lines)])
=============================================================================
