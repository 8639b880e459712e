--------------------------- MODULE Emulation_proof ---------------------------
(***************************************************************************)
(* The parts of the emulation that stand by themselves.  Who is let in,    *)
(* for any addresses, rules, lines of userdb.txt and parameters of         *)
(* AuthRandom: nobody too early, and nobody kept out for too long.  And    *)
(* recording, for any finite set of connections, any endpoints and any     *)
(* bounds: events find their session, and what commands were redirected to *)
(* is kept.                                                                *)
(***************************************************************************)
EXTENDS Login, Recording, FiniteSetTheorems, SequenceTheorems, WellFoundedInduction, TLAPS

\* Logins, with either policy.
LoginSpec == LoginStart /\ [][LoginNext]_loginvars

-----------------------------------------------------------------------------
(* AuthRandom.                                                             *)

\* Of an address that no cached combination helped the counter counts the different
\* combinations it tried, and stays below the number drawn until it is let in.
Fair(ip) ==
  /\ IsFiniteSet(counted[ip])
  /\ ip \in granted => Cardinality(counted[ip]) \in mintry .. maxtry
  /\ ip \notin granted /\ ip \notin DOMAIN uservar => counted[ip] = {}
  /\ ip \notin granted /\ ip \in DOMAIN uservar =>
       /\ ~ uservar[ip].user /\ uservar[ip].tried = counted[ip]
       /\ uservar[ip].try = Cardinality(counted[ip])
       /\ uservar[ip].max \in mintry .. maxtry /\ uservar[ip].try < uservar[ip].max

\* UserDB answers alike whenever it is asked.
AnswersInv == \A a \in answers : a.answer = UserDBchecklogin(a.combo)

IInv == LoginTypeOK /\ (\A ip \in Sources \ helped : Fair(ip)) /\ AnswersInv

\* Nobody has tried anything yet.
LEMMA IInit == LoginStart => IInv
<1> SUFFICES ASSUME LoginStart PROVE IInv
  OBVIOUS
<1>1. /\ auth_class \in {"UserDB", "AuthRandom"} /\ uservar = << >> /\ cache = << >>
      /\ helped = {} /\ counted = [ip \in Sources |-> {}] /\ granted = {} /\ answers = {}
  BY DEF LoginStart
<1>2. userdb_txt \in Files
  BY FilesAssumption DEF LoginStart
<1>3. << >> \in Seq(Combos) /\ Len(<< >>) = 0 /\ DOMAIN << >> = {}
  OBVIOUS
<1>4. LoginTypeOK
  BY <1>1, <1>2, <1>3, LoginAssumption DEF LoginTypeOK
<1>5. \A ip \in Sources : Fair(ip)
  BY <1>1, <1>3, FS_EmptySet DEF Fair
<1> QED
  BY <1>1, <1>4, <1>5 DEF IInv, AnswersInv

\* A password tried with UserDB.
LEMMA UserDBStep ==
  ASSUME IInv, NEW ip \in Sources, NEW combo \in Combos, TryUserDB(ip, combo)
  PROVE  IInv'
<1>1. /\ answers' = answers \cup {[combo |-> combo, answer |-> UserDBchecklogin(combo)]}
      /\ UNCHANGED <<auth_class, userdb_txt, uservar, cache, helped, counted, granted>>
  BY DEF TryUserDB
<1>2. \A c : UserDBchecklogin(c)' = UserDBchecklogin(c)
  BY <1>1 DEF UserDBchecklogin
<1>3. UserDBchecklogin(combo) \in BOOLEAN
  BY DEF UserDBchecklogin
<1>4. PICK a : a = [combo |-> combo, answer |-> UserDBchecklogin(combo)]
  OBVIOUS
<1>5. a \in [combo : Combos, answer : BOOLEAN] /\ answers' = answers \cup {a}
  BY <1>1, <1>3, <1>4
<1>6. LoginTypeOK'
  BY <1>1, <1>5 DEF IInv, LoginTypeOK
<1>7. \A x \in Sources \ helped : Fair(x)'
  BY <1>1 DEF IInv, Fair
<1>8. AnswersInv'
  <2>1. a.answer = UserDBchecklogin(a.combo)
    BY <1>4
  <2>2. \A b \in answers' : b.answer = UserDBchecklogin(b.combo)
    BY <1>5, <2>1 DEF IInv, AnswersInv
  <2> QED
    BY <1>2, <2>2 DEF AnswersInv
<1> QED
  BY <1>1, <1>6, <1>7, <1>8 DEF IInv

\* An entry of uservar is set.
LEMMA SetEntry ==
  ASSUME LoginTypeOK, NEW ip \in Sources, NEW info \in Counters, uservar' = Entered(ip, info)
  PROVE  /\ DOMAIN uservar' \subseteq Sources /\ ip \in DOMAIN uservar' /\ uservar'[ip] = info
         /\ \A x \in DOMAIN uservar' : uservar'[x] \in Counters
         /\ \A x \in Sources \ {ip} : /\ (x \in DOMAIN uservar' <=> x \in DOMAIN uservar)
                                      /\ (x \in DOMAIN uservar => uservar'[x] = uservar[x])
<1>1. PICK old, new : old = uservar /\ new = uservar'
  OBVIOUS
<1>2. new = [x \in DOMAIN old \cup {ip} |-> IF x = ip THEN info ELSE old[x]]
  BY <1>1 DEF Entered
<1>3. DOMAIN old \subseteq Sources /\ \A x \in DOMAIN old : old[x] \in Counters
  BY <1>1 DEF LoginTypeOK
<1>4. /\ DOMAIN new = DOMAIN old \cup {ip} /\ new[ip] = info
      /\ \A x \in DOMAIN old : x # ip => new[x] = old[x]
  BY <1>2
<1>5. /\ DOMAIN new \subseteq Sources /\ ip \in DOMAIN new
      /\ \A x \in DOMAIN new : new[x] \in Counters
      /\ \A x \in Sources \ {ip} : /\ (x \in DOMAIN new <=> x \in DOMAIN old)
                                   /\ (x \in DOMAIN old => new[x] = old[x])
  BY <1>3, <1>4
<1> QED
  BY <1>1, <1>4, <1>5

\* An address of which nothing changes.
LEMMA FairStays ==
  ASSUME NEW x, Fair(x), counted'[x] = counted[x], x \in granted' <=> x \in granted,
         x \in DOMAIN uservar' <=> x \in DOMAIN uservar,
         x \in DOMAIN uservar => uservar'[x] = uservar[x]
  PROVE  Fair(x)'
BY DEF Fair

\* A cached combination sets the entry of an address that counts as helped from then on.
LEMMA CachedStep ==
  ASSUME IInv, NEW ip \in Sources, NEW combo \in Combos, TryCached(ip, combo)
  PROVE  IInv'
<1>1. PICK info : info = IF ip \in DOMAIN uservar
                         THEN [uservar[ip] EXCEPT !.max = 1, !.user = TRUE]
                         ELSE [try |-> 0, max |-> 1, user |-> TRUE, tried |-> {}]
  OBVIOUS
<1>2. /\ uservar' = Entered(ip, info) /\ helped' = helped \cup {ip}
      /\ UNCHANGED <<auth_class, userdb_txt, cache, counted, granted, answers>>
  BY <1>1 DEF TryCached
<1>3. LoginTypeOK
  BY DEF IInv
<1>4. info \in Counters
  <2>1. CASE ip \in DOMAIN uservar
    <3>1. uservar[ip] \in Counters
      BY <1>3, <2>1 DEF LoginTypeOK
    <3> QED
      BY <1>1, <2>1, <3>1 DEF Counters
  <2>2. CASE ip \notin DOMAIN uservar
    BY <1>1, <2>2 DEF Counters
  <2> QED
    BY <2>1, <2>2
<1>5. /\ DOMAIN uservar' \subseteq Sources /\ \A x \in DOMAIN uservar' : uservar'[x] \in Counters
      /\ \A x \in Sources \ {ip} : /\ (x \in DOMAIN uservar' <=> x \in DOMAIN uservar)
                                   /\ (x \in DOMAIN uservar => uservar'[x] = uservar[x])
  BY <1>2, <1>3, <1>4, SetEntry
<1>6. LoginTypeOK'
  BY <1>2, <1>3, <1>5 DEF LoginTypeOK
<1>7. ASSUME NEW x \in Sources \ helped' PROVE Fair(x)'
  <2>1. x \in Sources \ {ip} /\ x \in Sources \ helped
    BY <1>2, <1>7
  <2>2. Fair(x)
    BY <2>1 DEF IInv
  <2>3. /\ counted'[x] = counted[x] /\ (x \in granted' <=> x \in granted)
        /\ (x \in DOMAIN uservar' <=> x \in DOMAIN uservar)
        /\ (x \in DOMAIN uservar => uservar'[x] = uservar[x])
    BY <1>2, <1>5, <2>1
  <2> QED
    BY <2>2, <2>3, FairStays
<1>8. AnswersInv'
  BY <1>2 DEF IInv, AnswersInv, UserDBchecklogin
<1> QED
  BY <1>6, <1>7, <1>8 DEF IInv

\* A combination is counted and remembered until the number that was drawn.
LEMMA AttemptFits ==
  ASSUME NEW info \in Counters, NEW combo \in Combos
  PROVE  /\ info.try + 1 \in Nat /\ Attempt(info, combo) \in Counters
         /\ Attempt(info, combo).max = info.max
         /\ info.try + 1 < info.max =>
              /\ Attempt(info, combo).try = info.try + 1
              /\ Attempt(info, combo).user = info.user
              /\ Attempt(info, combo).tried = info.tried \cup {combo}
<1>1. PICK n, tried : n = info.try + 1 /\ tried = info.tried \cup {combo}
  OBVIOUS
<1>2. /\ n \in Nat /\ info.max \in Nat /\ info.user \in BOOLEAN /\ tried \in SUBSET Combos
  BY <1>1 DEF Counters
<1>3. CASE n < info.max
  <2>1. Attempt(info, combo) = [info EXCEPT !.try = n, !.tried = tried]
    BY <1>1, <1>2, <1>3 DEF Attempt
  <2>2. [info EXCEPT !.try = n, !.tried = tried] \in Counters
    BY <1>2 DEF Counters
  <2>3. [info EXCEPT !.try = n, !.tried = tried].max = info.max
    BY DEF Counters
  <2>4. /\ [info EXCEPT !.try = n, !.tried = tried].try = n /\ [info EXCEPT !.try = n, !.tried = tried].tried = tried
        /\ [info EXCEPT !.try = n, !.tried = tried].user = info.user
    BY DEF Counters
  <2> QED
    BY <1>1, <1>2, <2>1, <2>2, <2>3, <2>4
<1>4. CASE n = info.max
  <2>1. Attempt(info, combo) = [info EXCEPT !.try = n, !.user = TRUE]
    BY <1>1, <1>2, <1>4 DEF Attempt
  <2>2. [info EXCEPT !.try = n, !.user = TRUE] \in Counters
    BY <1>2 DEF Counters
  <2>3. [info EXCEPT !.try = n, !.user = TRUE].max = info.max
    BY DEF Counters
  <2>4. ~ (n < info.max)
    BY <1>2, <1>4
  <2> QED
    BY <1>1, <1>2, <2>1, <2>2, <2>3, <2>4
<1>5. CASE n > info.max /\ info.user
  <2>1. Attempt(info, combo) = [info EXCEPT !.try = n]
    BY <1>1, <1>2, <1>5 DEF Attempt
  <2>2. [info EXCEPT !.try = n] \in Counters
    BY <1>2 DEF Counters
  <2>3. [info EXCEPT !.try = n].max = info.max
    BY DEF Counters
  <2>4. ~ (n < info.max)
    BY <1>2, <1>5
  <2> QED
    BY <1>1, <1>2, <2>1, <2>2, <2>3, <2>4
<1>6. CASE n > info.max /\ ~ info.user
  <2>1. Attempt(info, combo) = [info EXCEPT !.try = 1, !.tried = tried]
    BY <1>1, <1>2, <1>6 DEF Attempt
  <2>2. [info EXCEPT !.try = 1, !.tried = tried] \in Counters
    BY <1>2 DEF Counters
  <2>3. [info EXCEPT !.try = 1, !.tried = tried].max = info.max
    BY DEF Counters
  <2>4. ~ (n < info.max)
    BY <1>2, <1>6
  <2> QED
    BY <1>1, <1>2, <2>1, <2>2, <2>3, <2>4
<1> QED
  BY <1>2, <1>3, <1>4, <1>5, <1>6

\* Another combination counts if it is new, and lets the address in at the number drawn.
LEMMA CountedStep ==
  ASSUME IInv, NEW ip \in Sources, NEW combo \in Combos, TryCounted(ip, combo)
  PROVE  IInv'
<1>1. PICK info \in Known(ip) :
        IF ~ Fresh(ip, combo) THEN UNCHANGED <<uservar, cache, granted>>
        ELSE /\ uservar' = Entered(ip, Attempt(info, combo))
             /\ IF info.try + 1 # info.max THEN UNCHANGED <<cache, granted>>
                ELSE LET all == Append(cache, combo)
                     IN /\ cache' = IF Len(all) > maxcache THEN Tail(all) ELSE all
                        /\ granted' = granted \cup {ip}
  BY DEF TryCounted
<1>2. /\ counted' = IF ip \in granted THEN counted ELSE [counted EXCEPT ![ip] = @ \cup {combo}]
      /\ UNCHANGED <<auth_class, userdb_txt, helped, answers>>
  BY DEF TryCounted
<1>3. LoginTypeOK
  BY DEF IInv
<1>4. AnswersInv'
  BY <1>2 DEF IInv, AnswersInv, UserDBchecklogin
<1>5. counted' \in [Sources -> SUBSET Combos] /\ \A x \in Sources \ {ip} : counted'[x] = counted[x]
  BY <1>2, <1>3 DEF LoginTypeOK
<1>6. CASE ~ Fresh(ip, combo)
  <2>1. ip \in DOMAIN uservar /\ combo \in uservar[ip].tried
    BY <1>6 DEF Fresh
  <2>2. UNCHANGED <<uservar, cache, granted>>
    BY <1>1, <1>6
  <2>3. ip \notin helped => counted' = counted
    BY <1>2, <1>3, <2>1 DEF IInv, Fair, LoginTypeOK
  <2>4. \A x \in Sources \ helped : counted'[x] = counted[x]
    BY <1>5, <2>3
  <2> QED
    BY <1>2, <1>3, <1>4, <1>5, <2>2, <2>4 DEF IInv, LoginTypeOK, Fair
<1>7. CASE Fresh(ip, combo)
  <2>1. PICK n, next, all :
          n = info.try + 1 /\ next = Attempt(info, combo) /\ all = Append(cache, combo)
    OBVIOUS
  <2>2. /\ uservar' = Entered(ip, next)
        /\ cache' = IF n # info.max THEN cache ELSE IF Len(all) > maxcache THEN Tail(all) ELSE all
        /\ granted' = IF n = info.max THEN granted \cup {ip} ELSE granted
    BY <1>1, <1>7, <2>1
  <2>3. info \in Counters
    <3>1. CASE ip \in DOMAIN uservar
      BY <1>3, <3>1 DEF Known, LoginTypeOK
    <3>2. CASE ip \notin DOMAIN uservar
      <4>1. info \in [try : {0}, max : mintry .. maxtry, user : {FALSE}, tried : {{}}]
        BY <3>2 DEF Known
      <4>2. \A k \in mintry .. maxtry : k \in Nat
        BY LoginAssumption
      <4> QED
        <5>1. info \in [try : {0}, max : mintry .. maxtry, user : BOOLEAN, tried : {{}}]
          BY <4>1
        <5> QED
          BY <4>2, <5>1 DEF Counters
    <3> QED
      BY <3>1, <3>2
  <2>5. /\ n \in Nat /\ next \in Counters /\ next.max = info.max
        /\ n < info.max => next.try = n /\ next.user = info.user /\ next.tried = info.tried \cup {combo}
    BY <2>1, <2>3, AttemptFits
  <2>6. /\ DOMAIN uservar' \subseteq Sources /\ ip \in DOMAIN uservar' /\ uservar'[ip] = next
        /\ \A x \in DOMAIN uservar' : uservar'[x] \in Counters
        /\ \A x \in Sources \ {ip} : /\ (x \in DOMAIN uservar' <=> x \in DOMAIN uservar)
                                     /\ (x \in DOMAIN uservar => uservar'[x] = uservar[x])
    BY <1>3, <2>2, <2>5, SetEntry
  <2>7. cache' \in Seq(Combos) /\ Len(cache') <= maxcache
    <3>1. PICK old : old = cache
      OBVIOUS
    <3>2. old \in Seq(Combos) /\ Len(old) <= maxcache /\ maxcache \in Nat
      BY <1>3, <3>1, LoginAssumption DEF LoginTypeOK
    <3>3. all \in Seq(Combos) /\ Len(all) = Len(old) + 1 /\ all # << >>
      BY <2>1, <3>1, <3>2
    <3>4. Tail(all) \in Seq(Combos) /\ Len(Tail(all)) = Len(old) /\ Len(old) \in Nat
      BY <3>2, <3>3
    <3> QED
      BY <2>2, <3>1, <3>2, <3>3, <3>4
  <2>8. LoginTypeOK'
    BY <1>2, <1>3, <1>5, <2>2, <2>6, <2>7 DEF LoginTypeOK
  <2>9. ASSUME ip \notin helped PROVE Fair(ip)'
    <3>1. Fair(ip) /\ counted[ip] \in SUBSET Combos
      BY <1>3, <2>9 DEF IInv, LoginTypeOK
    <3>2. CASE ip \in granted
      <4>1. counted' = counted /\ ip \in granted'
        BY <1>2, <2>2, <3>2
      <4> QED
        BY <3>1, <3>2, <4>1 DEF Fair
    <3>3. CASE ip \notin granted
      <4>1. counted'[ip] = counted[ip] \cup {combo}
        BY <1>2, <1>3, <3>3 DEF LoginTypeOK
      <4>2. /\ ~ info.user /\ info.tried = counted[ip] /\ info.try = Cardinality(counted[ip])
            /\ info.max \in mintry .. maxtry /\ info.try < info.max /\ combo \notin counted[ip]
        <5>1. CASE ip \in DOMAIN uservar
          BY <1>7, <3>1, <3>3, <5>1 DEF Known, Fair, Fresh
        <5>2. CASE ip \notin DOMAIN uservar
          <6>1. info \in [try : {0}, max : mintry .. maxtry, user : {FALSE}, tried : {{}}]
            BY <5>2 DEF Known
          <6>2. counted[ip] = {}
            BY <3>1, <3>3, <5>2 DEF Fair
          <6>3. Cardinality(counted[ip]) = 0
            BY <6>2, FS_EmptySet
          <6>4. 0 < info.max
            BY <6>1, LoginAssumption
          <6> QED
            BY <6>1, <6>2, <6>3, <6>4
        <5> QED
          BY <5>1, <5>2
      <4>3. IsFiniteSet(counted'[ip]) /\ Cardinality(counted'[ip]) = n
        <5>1. IsFiniteSet(counted[ip])
          BY <3>1 DEF Fair
        <5> QED
          BY <2>1, <4>1, <4>2, <5>1, FS_AddElement
      <4>4. CASE n = info.max
        BY <2>2, <4>2, <4>3, <4>4 DEF Fair
      <4>5. CASE n # info.max
        <5>1. n < info.max /\ granted' = granted
          BY <2>1, <2>2, <2>3, <4>2, <4>5 DEF Counters
        <5> QED
          BY <2>5, <2>6, <3>3, <4>1, <4>2, <4>3, <5>1 DEF Fair
      <4> QED
        BY <4>4, <4>5
    <3> QED
      BY <3>2, <3>3
  <2>10. ASSUME NEW x \in Sources \ helped, x # ip PROVE Fair(x)'
    <3>1. Fair(x) /\ counted'[x] = counted[x] /\ (x \in granted' <=> x \in granted)
      BY <1>5, <2>2, <2>10 DEF IInv
    <3>2. /\ (x \in DOMAIN uservar' <=> x \in DOMAIN uservar)
          /\ (x \in DOMAIN uservar => uservar'[x] = uservar[x])
      BY <2>6, <2>10
    <3> QED
      BY <3>1, <3>2, FairStays
  <2> QED
    BY <1>2, <1>4, <2>8, <2>9, <2>10 DEF IInv
<1> QED
  BY <1>6, <1>7

\* A crash forgets everybody.
LEMMA CrashStep == ASSUME IInv, LoginCrash PROVE IInv'
<1>1. /\ uservar' = << >> /\ cache' = << >> /\ helped' = {} /\ counted' = [ip \in Sources |-> {}]
      /\ granted' = {} /\ UNCHANGED <<auth_class, userdb_txt, answers>>
  BY DEF LoginCrash
<1>2. << >> \in Seq(Combos) /\ Len(<< >>) = 0 /\ DOMAIN << >> = {}
  OBVIOUS
<1>3. LoginTypeOK'
  BY <1>1, <1>2, LoginAssumption DEF IInv, LoginTypeOK
<1>4. \A ip \in Sources : Fair(ip)'
  BY <1>1, <1>2, FS_EmptySet DEF Fair
<1>5. AnswersInv'
  BY <1>1 DEF IInv, AnswersInv, UserDBchecklogin
<1> QED
  BY <1>1, <1>3, <1>4, <1>5 DEF IInv

-----------------------------------------------------------------------------
(* UserDB.                                                                 *)

\* A nonempty set of numbers has a least one.
LEMMA LeastNumber ==
  ASSUME NEW S, S \subseteq Nat, S # {}
  PROVE  \E m \in S : \A k \in S : m <= k
<1> DEFINE R == OpToRel(<, Nat)
<1>1. \E x \in S : \A y \in S : ~ (<<y, x>> \in R)
  <2> HIDE DEF R
  <2> SUFFICES IsWellFoundedOn(R, Nat)
    BY WFMin
  <2> QED
    BY NatLessThanWellFounded DEF R
<1>2. PICK x \in S : \A y \in S : <<y, x>> \notin R
  BY <1>1
<1>3. ASSUME NEW y \in S PROVE x <= y
  <2>1. ~ (y < x)
    BY <1>2 DEF OpToRel
  <2> QED
    BY <2>1
<1> QED
  BY <1>3

\* Min finds it.
LEMMA LeastOf ==
  ASSUME NEW S, S \subseteq Nat, S # {}
  PROVE  Min(S) \in S /\ \A k \in S : Min(S) <= k
<1>1. \E m \in S : \A k \in S : m <= k
  BY LeastNumber
<1> QED
  BY <1>1 DEF Min

\* Two lines about the same login and password.
Same(a, b) == a.login = b.login /\ a.passwd = b.passwd

\* new is db after line: it takes the place of the one that is the same, or is the last.
After(db, line, new) ==
  /\ \A i \in 1 .. Len(db) : new[i] = IF Same(db[i], line) THEN line ELSE db[i]
  /\ \/ Len(new) = Len(db) /\ \E i \in 1 .. Len(db) : Same(db[i], line)
     \/ /\ Len(new) = Len(db) + 1 /\ new[Len(db) + 1] = line
        /\ \A i \in 1 .. Len(db) : ~ Same(db[i], line)

\* That is what adduser computes.
LEMMA AddUser ==
  ASSUME NEW db \in Seq(Line), NEW line \in Line
  PROVE  adduser(db, line) \in Seq(Line) /\ After(db, line, adduser(db, line))
<1> DEFINE at == {i \in DOMAIN db : db[i].login = line.login /\ db[i].passwd = line.passwd}
<1>1. Len(db) \in Nat /\ DOMAIN db = 1 .. Len(db) /\ \A i \in 1 .. Len(db) : db[i] \in Line
  OBVIOUS
<1>2. \A i \in 1 .. Len(db) : i \in at <=> Same(db[i], line)
  BY <1>1 DEF Same
<1>a. PICK new : new = adduser(db, line)
  OBVIOUS
<1>3. CASE at = {}
  <2>1. new = Append(db, line)
    BY <1>3, <1>a DEF adduser
  <2>2. /\ new \in Seq(Line) /\ Len(new) = Len(db) + 1 /\ new[Len(db) + 1] = line
        /\ \A i \in 1 .. Len(db) : new[i] = db[i]
    BY <1>1, <2>1
  <2>3. \A i \in 1 .. Len(db) : ~ Same(db[i], line)
    BY <1>2, <1>3
  <2> HIDE DEF at
  <2> QED
    BY <1>a, <2>2, <2>3 DEF After
<1>4. CASE at # {}
  <2>1. new = [i \in DOMAIN db |-> IF i \in at THEN line ELSE db[i]]
    BY <1>4, <1>a DEF adduser
  <2>2. /\ DOMAIN new = 1 .. Len(db)
        /\ \A i \in 1 .. Len(db) : new[i] = IF i \in at THEN line ELSE db[i]
    BY <1>1, <2>1
  <2>3. /\ new = [i \in 1 .. Len(db) |-> new[i]]
        /\ \A i \in 1 .. Len(db) : new[i] \in Line
    BY <1>1, <2>1, <2>2
  <2> HIDE DEF at
  <2>4. new \in Seq(Line) /\ Len(new) = Len(db)
    BY <1>1, <2>2, <2>3
  <2>5. \E i \in 1 .. Len(db) : Same(db[i], line)
    <3>1. PICK i \in at : TRUE
      BY <1>4
    <3> QED
      BY <1>1, <1>2, <3>1 DEF at
  <2>6. \A i \in 1 .. Len(db) : new[i] = IF Same(db[i], line) THEN line ELSE db[i]
    BY <1>2, <2>2
  <2> QED
    BY <1>a, <2>4, <2>5, <2>6 DEF After
<1> QED
  BY <1>3, <1>4

\* f runs through the lines one by one.
Runs(f, lines) ==
  /\ f \in [0 .. Len(lines) -> Seq(Line)]
  /\ f[0] = << >>
  /\ \A k \in 1 .. Len(lines) : f[k] = adduser(f[k - 1], lines[k])

\* So does load.
LEMMA LoadRuns ==
  ASSUME NEW lines \in Seq(Line)
  PROVE  \E f : Runs(f, lines) /\ load(lines) = f[Len(lines)]
<1> DEFINE N == Len(lines)
           Is(f) == f = [n \in 0 .. N |-> IF n = 0 THEN << >> ELSE adduser(f[n - 1], lines[n])]
           Upto(n) == \E f \in [0 .. n -> Seq(Line)] :
                        /\ f[0] = << >>
                        /\ \A k \in 1 .. n : f[k] = adduser(f[k - 1], lines[k])
           Missing == {n \in 0 .. N : ~ Upto(n)}
<1>1. N \in Nat /\ \A k \in 1 .. N : lines[k] \in Line
  OBVIOUS
<1>2. Upto(0)
  <2> DEFINE f == [k \in 0 .. 0 |-> << >>]
  <2>1. << >> \in Seq(Line)
    OBVIOUS
  <2>2. f \in [0 .. 0 -> Seq(Line)] /\ f[0] = << >> /\ \A k \in 1 .. 0 : FALSE
    BY <2>1
  <2> HIDE DEF f
  <2> QED
    BY <2>2
<1>3. ASSUME NEW m \in 1 .. N, Upto(m - 1) PROVE Upto(m)
  <2>1. PICK f \in [0 .. (m - 1) -> Seq(Line)] :
          /\ f[0] = << >> /\ \A k \in 1 .. (m - 1) : f[k] = adduser(f[k - 1], lines[k])
    BY <1>3
  <2>2. PICK r : r = adduser(f[m - 1], lines[m])
    OBVIOUS
  <2>3. m \in Nat \ {0} /\ f[m - 1] \in Seq(Line) /\ lines[m] \in Line
    BY <1>1
  <2>4. r \in Seq(Line)
    BY <2>2, <2>3, AddUser
  <2> DEFINE g == [k \in 0 .. m |-> IF k = m THEN r ELSE f[k]]
  <2>5. g \in [0 .. m -> Seq(Line)]
    BY <2>3, <2>4
  <2>6. g[m] = r /\ \A k \in 0 .. (m - 1) : g[k] = f[k]
    BY <2>3
  <2> HIDE DEF g, N
  <2>7. g[0] = << >>
    BY <2>1, <2>3, <2>6
  <2>8. ASSUME NEW k \in 1 .. m PROVE g[k] = adduser(g[k - 1], lines[k])
    <3>1. CASE k = m
      BY <2>2, <2>3, <2>6, <3>1
    <3>2. CASE k # m
      <4>1. k \in 1 .. (m - 1) /\ k \in 0 .. (m - 1) /\ k - 1 \in 0 .. (m - 1)
        BY <2>3, <3>2
      <4> QED
        BY <2>1, <2>6, <4>1
    <3> QED
      BY <3>1, <3>2
  <2> QED
    BY <2>5, <2>7, <2>8
<1>4. Upto(N)
  <2> HIDE DEF Upto
  <2> SUFFICES ASSUME Missing # {} PROVE FALSE
    BY <1>1
  <2>1. Missing \subseteq Nat
    BY <1>1
  <2>2. PICK m \in Missing : \A k \in Missing : m <= k
    BY <2>1, LeastNumber
  <2>3. m \in 1 .. N /\ m - 1 \in 0 .. N /\ m - 1 \notin Missing
    BY <1>1, <1>2, <2>2
  <2> QED
    BY <1>3, <2>2, <2>3
<1>a. PICK h \in [0 .. N -> Seq(Line)] :
        h[0] = << >> /\ \A k \in 1 .. N : h[k] = adduser(h[k - 1], lines[k])
  BY <1>4
<1>5. Is(h)
  <2>1. \A n \in 0 .. N : n = 0 \/ n \in 1 .. N
    BY <1>1
  <2> QED
    BY <1>a, <2>1
<1> DEFINE f == CHOOSE g : Is(g)
<1>6. Is(f)
  <2> HIDE DEF Is
  <2> QED
    BY <1>5
<1>7. load(lines) = f[N]
  BY DEF load
<1> HIDE DEF f
<1>8. /\ f = [k \in 0 .. N |-> f[k]] /\ DOMAIN f = 0 .. N
      /\ f[0] = << >> /\ \A k \in 1 .. N : f[k] = adduser(f[k - 1], lines[k])
  <2>1. \A k \in 0 .. N : f[k] = IF k = 0 THEN << >> ELSE adduser(f[k - 1], lines[k])
    BY <1>6
  <2>2. f = [k \in 0 .. N |-> f[k]] /\ DOMAIN f = 0 .. N
    BY <1>6
  <2>3. 0 \in 0 .. N /\ \A k \in 1 .. N : k \in 0 .. N /\ k # 0
    BY <1>1
  <2> HIDE DEF Is, N
  <2> QED
    BY <2>1, <2>2, <2>3
<1> DEFINE Bad == {k \in 0 .. N : f[k] # h[k]}
<1>9. ASSUME Bad # {} PROVE FALSE
  <2>1. Bad \subseteq Nat
    BY <1>1
  <2>2. PICK n \in Bad : \A k \in Bad : n <= k
    <3> HIDE DEF Bad
    <3> QED
      BY <1>9, <2>1, LeastNumber
  <2>3. n \in 0 .. N /\ n # 0
    BY <1>8, <1>a, <2>2
  <2>4. n \in 1 .. N /\ n - 1 \in 0 .. N /\ ~ (n <= n - 1)
    BY <1>1, <2>3
  <2>5. f[n - 1] = h[n - 1]
    BY <2>2, <2>4
  <2> QED
    BY <1>8, <1>a, <2>2, <2>4, <2>5
<1>10. \A k \in 0 .. N : f[k] = h[k]
  BY <1>9
<1>11. N \in 0 .. N
  BY <1>1
<1> QED
  BY <1>7, <1>10, <1>11, <1>a DEF Runs

\* A line that matches what is tried.
Fits(line, combo) == match_rule(line.login, combo[1]) /\ match_rule(line.passwd, combo[2])

\* Each entry is some line.
LEMMA FromLines ==
  ASSUME NEW lines \in Seq(Line), NEW f, Runs(f, lines)
  PROVE  \A k \in 0 .. Len(lines) : \A i \in 1 .. Len(f[k]) : \E j \in 1 .. k : f[k][i] = lines[j]
<1> DEFINE Found(k) == \A i \in 1 .. Len(f[k]) : \E j \in 1 .. k : f[k][i] = lines[j]
           Bad == {k \in 0 .. Len(lines) : ~ Found(k)}
<1>1. Len(lines) \in Nat /\ \A k \in 1 .. Len(lines) : lines[k] \in Line
  OBVIOUS
<1>2. Found(0)
  BY DEF Runs
<1>3. ASSUME NEW k \in 1 .. Len(lines), Found(k - 1) PROVE Found(k)
  <2>1. PICK old, new, line : old = f[k - 1] /\ new = f[k] /\ line = lines[k]
    OBVIOUS
  <2>2. old \in Seq(Line) /\ line \in Line /\ new = adduser(old, line) /\ k - 1 \in Nat /\ k \in Nat
    BY <1>1, <2>1 DEF Runs
  <2>3. After(old, line, new) /\ new \in Seq(Line)
    BY <2>2, AddUser
  <2> SUFFICES ASSUME NEW i \in 1 .. Len(new) PROVE \E j \in 1 .. k : new[i] = lines[j]
    BY <2>1
  <2>4. k \in 1 .. k /\ \A j \in 1 .. k - 1 : j \in 1 .. k
    BY <2>2
  <2>5. CASE i \in 1 .. Len(old)
    <3>1. new[i] = line \/ new[i] = old[i]
      BY <2>3, <2>5 DEF After
    <3>2. \E j \in 1 .. k - 1 : old[i] = lines[j]
      BY <1>3, <2>1, <2>5
    <3> QED
      BY <2>1, <2>4, <3>1, <3>2
  <2>6. CASE i \notin 1 .. Len(old)
    <3>1. Len(old) \in Nat /\ Len(new) \in Nat
      BY <2>2, <2>3
    <3>2. Len(new) = Len(old) + 1 /\ new[Len(old) + 1] = line
      BY <2>3, <2>6, <3>1 DEF After
    <3>3. i = Len(old) + 1
      BY <2>6, <3>1, <3>2
    <3> QED
      BY <2>1, <2>4, <3>2, <3>3
  <2> QED
    BY <2>5, <2>6
<1>4. ASSUME Bad # {} PROVE FALSE
  <2>1. Bad \subseteq Nat
    BY <1>1
  <2>2. PICK n \in Bad : \A k \in Bad : n <= k
    <3> HIDE DEF Bad
    <3> QED
      BY <1>4, <2>1, LeastNumber
  <2> HIDE DEF Found
  <2>3. n \in 1 .. Len(lines) /\ n - 1 \in 0 .. Len(lines) /\ ~ (n <= n - 1)
    BY <1>1, <1>2, <2>2
  <2> QED
    BY <1>3, <2>2, <2>3
<1> QED
  BY <1>4

\* Line m is the first that matches, and is not given again.
OnlyFirst(lines, m, combo) ==
  /\ Fits(lines[m], combo)
  /\ \A j \in 1 .. m - 1 : ~ Fits(lines[j], combo)
  /\ \A j \in 1 .. Len(lines) : j # m => ~ Same(lines[m], lines[j])

\* line is the first entry of db that matches.
Leads(db, line, combo) ==
  \E p \in 1 .. Len(db) : db[p] = line /\ \A i \in 1 .. p - 1 : ~ Fits(db[i], combo)

\* The first line that matches, if it is given once, is the first entry that does.
LEMMA FirstStaysFirst ==
  ASSUME NEW lines \in Seq(Line), NEW f, Runs(f, lines), NEW combo,
         NEW m \in 1 .. Len(lines), OnlyFirst(lines, m, combo)
  PROVE  \A k \in m .. Len(lines) : Leads(f[k], lines[m], combo)
<1> DEFINE First(k) == \E p \in 1 .. Len(f[k]) :
                         f[k][p] = lines[m] /\ \A i \in 1 .. p - 1 : ~ Fits(f[k][i], combo)
           Bad == {k \in m .. Len(lines) : ~ First(k)}
<1> USE DEF OnlyFirst
<1>1. /\ Len(lines) \in Nat /\ m \in Nat \ {0} /\ m <= Len(lines)
      /\ \A k \in 1 .. Len(lines) : lines[k] \in Line
  OBVIOUS
<1>2. First(m)
  <2>1. PICK old, new, line : old = f[m - 1] /\ new = f[m] /\ line = lines[m]
    OBVIOUS
  <2>2. old \in Seq(Line) /\ line \in Line /\ new = adduser(old, line)
    <3>1. m \in 1 .. Len(lines) /\ m - 1 \in 0 .. Len(lines)
      BY ONLY <1>1
    <3>2. /\ \A k \in 0 .. Len(lines) : f[k] \in Seq(Line)
          /\ \A k \in 1 .. Len(lines) : f[k] = adduser(f[k - 1], lines[k])
      BY DEF Runs
    <3> QED
      BY ONLY <1>1, <2>1, <3>1, <3>2
  <2>3. After(old, line, new) /\ new \in Seq(Line) /\ Len(old) \in Nat
    BY <2>2, AddUser
  <2>4. ASSUME NEW i \in 1 .. Len(old) PROVE ~ Fits(old[i], combo)
    <3>1. m - 1 \in 0 .. Len(lines)
      BY <1>1
    <3>2. PICK j \in 1 .. m - 1 : old[i] = lines[j]
      BY <2>1, <3>1, FromLines
    <3> QED
      BY <3>2
  <2>5. \A i \in 1 .. Len(old) : ~ Same(old[i], line)
    BY <2>1, <2>4 DEF Same, Fits
  <2>6. /\ Len(new) = Len(old) + 1 /\ new[Len(old) + 1] = line
        /\ \A i \in 1 .. Len(old) : new[i] = old[i]
    BY <2>3, <2>5 DEF After
  <2>7. /\ Len(old) + 1 \in 1 .. Len(new)
        /\ \A i \in 1 .. (Len(old) + 1) - 1 : i \in 1 .. Len(old)
    BY <2>3, <2>6
  <2>8. \A i \in 1 .. (Len(old) + 1) - 1 : ~ Fits(new[i], combo)
    BY <2>4, <2>6, <2>7
  <2> QED
    BY <2>1, <2>6, <2>7, <2>8
<1>3. ASSUME NEW k \in m + 1 .. Len(lines), First(k - 1) PROVE First(k)
  <2>1. PICK old, new, line : old = f[k - 1] /\ new = f[k] /\ line = lines[k]
    OBVIOUS
  <2>2. k \in 1 .. Len(lines) /\ k # m /\ k - 1 \in 0 .. Len(lines)
    BY <1>1
  <2>3. old \in Seq(Line) /\ line \in Line /\ new = adduser(old, line)
    BY <1>1, <2>1, <2>2 DEF Runs
  <2>4. After(old, line, new) /\ new \in Seq(Line) /\ Len(old) \in Nat
    BY <2>3, AddUser
  <2>5. PICK p \in 1 .. Len(old) : old[p] = lines[m] /\ \A i \in 1 .. p - 1 : ~ Fits(old[i], combo)
    BY <1>3, <2>1
  <2>6. ~ Same(old[p], line)
    BY <2>1, <2>2, <2>5
  <2>7. new[p] = lines[m] /\ p \in 1 .. Len(new)
    <3>1. Len(new) = Len(old) \/ Len(new) = Len(old) + 1
      BY <2>4 DEF After
    <3>2. p \in 1 .. Len(new)
      BY <2>4, <3>1
    <3> QED
      BY <2>4, <2>5, <2>6, <3>2 DEF After
  <2>8. ASSUME NEW i \in 1 .. p - 1 PROVE ~ Fits(new[i], combo)
    <3>1. i \in 1 .. Len(old) /\ ~ Fits(old[i], combo)
      BY <2>4, <2>5
    <3>2. new[i] = IF Same(old[i], line) THEN line ELSE old[i]
      BY <2>4, <3>1 DEF After
    <3> QED
      BY <3>1, <3>2 DEF Same, Fits
  <2> QED
    BY <2>1, <2>7, <2>8
<1>4. ASSUME Bad # {} PROVE FALSE
  <2>1. Bad \subseteq Nat
    BY <1>1
  <2>2. PICK n \in Bad : \A k \in Bad : n <= k
    <3> HIDE DEF Bad
    <3> QED
      BY <1>4, <2>1, LeastNumber
  <2> HIDE DEF First
  <2>3. n \in m .. Len(lines) /\ n # m
    BY <1>2, <2>2
  <2>4. n \in m + 1 .. Len(lines) /\ n - 1 \in m .. Len(lines) /\ ~ (n <= n - 1)
    BY <1>1, <2>3
  <2> QED
    BY <1>3, <2>2, <2>4
<1> QED
  BY <1>4 DEF Leads

\* Whom UserDB lets in some line allows, and the first line about it does not refuse
\* for good.
LEMMA RightAnswer ==
  ASSUME userdb_txt \in Seq(Line), NEW combo, UserDBchecklogin(combo)
  PROVE  /\ \E i \in 1 .. Len(userdb_txt) : Fits(userdb_txt[i], combo) /\ userdb_txt[i].policy
         /\ \A m \in 1 .. Len(userdb_txt) :
              ~ (/\ Fits(userdb_txt[m], combo) /\ ~ userdb_txt[m].policy
                 /\ \A j \in 1 .. m - 1 : ~ Fits(userdb_txt[j], combo)
                 /\ \A j \in 1 .. Len(userdb_txt) : j # m => ~ Same(userdb_txt[m], userdb_txt[j]))
<1>1. PICK lines : lines = userdb_txt
  OBVIOUS
<1>2. lines \in Seq(Line) /\ Len(lines) \in Nat
  BY <1>1
<1>3. PICK f : Runs(f, lines) /\ load(lines) = f[Len(lines)]
  BY <1>2, LoadRuns
<1>4. PICK db : db = f[Len(lines)]
  OBVIOUS
<1>5. db \in Seq(Line) /\ DOMAIN db = 1 .. Len(db) /\ Len(db) \in Nat
  BY <1>2, <1>3, <1>4 DEF Runs
<1>6. PICK hits : hits = {i \in 1 .. Len(db) : Fits(db[i], combo)}
  OBVIOUS
<1>7. hits # {} /\ db[Min(hits)].policy
  <2>1. UserDBchecklogin(combo) <=>
          LET all == {i \in DOMAIN db : match_rule(db[i].login, combo[1]) /\ match_rule(db[i].passwd, combo[2])}
          IN all # {} /\ db[Min(all)].policy
    BY <1>1, <1>3, <1>4 DEF UserDBchecklogin
  <2>2. hits = {i \in DOMAIN db : match_rule(db[i].login, combo[1]) /\ match_rule(db[i].passwd, combo[2])}
    BY <1>5, <1>6 DEF Fits
  <2> QED
    BY <2>1, <2>2
<1>8. PICK p : p = Min(hits)
  OBVIOUS
<1>9. p \in hits /\ \A i \in hits : p <= i
  <2>1. hits \subseteq Nat
    BY <1>5, <1>6
  <2> QED
    BY <1>7, <1>8, <2>1, LeastOf
<1>10. p \in 1 .. Len(db) /\ Fits(db[p], combo) /\ db[p].policy
  BY <1>6, <1>7, <1>8, <1>9
<1>11. \E i \in 1 .. Len(lines) : Fits(lines[i], combo) /\ lines[i].policy
  <2>1. Len(lines) \in 0 .. Len(lines)
    BY <1>2
  <2>2. PICK j \in 1 .. Len(lines) : db[p] = lines[j]
    BY <1>2, <1>3, <1>4, <1>10, <2>1, FromLines
  <2> QED
    BY <1>10, <2>2
<1>12. ASSUME NEW m \in 1 .. Len(lines), Fits(lines[m], combo), ~ lines[m].policy,
              \A j \in 1 .. m - 1 : ~ Fits(lines[j], combo),
              \A j \in 1 .. Len(lines) : j # m => ~ Same(lines[m], lines[j])
       PROVE  FALSE
  <2>1. Len(lines) \in m .. Len(lines)
    BY <1>2
  <2>2. PICK q \in 1 .. Len(db) : db[q] = lines[m] /\ \A i \in 1 .. q - 1 : ~ Fits(db[i], combo)
    <3>1. OnlyFirst(lines, m, combo)
      BY <1>12 DEF OnlyFirst
    <3>2. Leads(db, lines[m], combo)
      BY <1>2, <1>3, <1>4, <2>1, <3>1, FirstStaysFirst
    <3> QED
      BY <3>2 DEF Leads
  <2>3. q \in hits /\ p <= q
    BY <1>6, <1>9, <1>12, <2>2
  <2>4. ~ (p \in 1 .. q - 1)
    BY <1>10, <2>2
  <2>5. p = q
    BY <1>5, <1>10, <2>3, <2>4
  <2> QED
    BY <1>10, <1>12, <2>2, <2>5
<1> QED
  BY <1>1, <1>11, <1>12

-----------------------------------------------------------------------------
\* The inductive invariant of the two policies.
THEOREM Invariance == LoginSpec => []IInv
<1>1. IInv /\ [LoginNext]_loginvars => IInv'
  <2> SUFFICES ASSUME IInv, [LoginNext]_loginvars PROVE IInv'
    OBVIOUS
  <2>1. CASE UNCHANGED loginvars
    BY <2>1 DEF loginvars, IInv, LoginTypeOK, Fair, AnswersInv, UserDBchecklogin
  <2> QED
    BY <2>1, UserDBStep, CachedStep, CountedStep, CrashStep DEF LoginNext
<1> QED
  BY <1>1, IInit, PTL DEF LoginSpec

\* The counters, the cache and the answers keep their types, and the cache its bound.
THEOREM TypeCorrect == LoginSpec => []LoginTypeOK
<1>1. IInv => LoginTypeOK
  BY DEF IInv
<1> QED
  BY <1>1, Invariance, PTL

\* Nobody gets in too early or is kept out for too long, with either policy.
THEOREM LoginsAreDeserved == LoginSpec => []Deserved
<1>1. IInv => Deserved
  <2> SUFFICES ASSUME IInv PROVE Deserved
    OBVIOUS
  <2>1. ASSUME NEW ip \in Sources \ helped
        PROVE  /\ ip \in granted => Cardinality(counted[ip]) \in mintry .. maxtry
               /\ Cardinality(counted[ip]) >= maxtry => ip \in granted
    <3>1. Fair(ip)
      BY DEF IInv
    <3>2. ASSUME ip \notin granted PROVE ~ (Cardinality(counted[ip]) >= maxtry)
      <4>1. CASE ip \in DOMAIN uservar
        <5>1. PICK n, k : n = uservar[ip].try /\ k = uservar[ip].max
          OBVIOUS
        <5>2. n = Cardinality(counted[ip]) /\ k \in mintry .. maxtry /\ n < k
          BY <3>1, <3>2, <4>1, <5>1 DEF Fair
        <5>3. n \in Nat
          BY <4>1, <5>1 DEF IInv, LoginTypeOK, Counters
        <5> QED
          BY <5>2, <5>3, LoginAssumption
      <4>2. CASE ip \notin DOMAIN uservar
        <5>1. Cardinality(counted[ip]) = 0
          BY <3>1, <3>2, <4>2, FS_EmptySet DEF Fair
        <5> QED
          BY <5>1, LoginAssumption
      <4> QED
        BY <4>1, <4>2
    <3> QED
      BY <3>1, <3>2 DEF Fair
  <2>2. ASSUME NEW a \in answers, a.answer,
               NEW lines, lines = {i \in DOMAIN userdb_txt : About(i, a.combo)}
        PROVE  /\ \E i \in lines : userdb_txt[i].policy
               /\ ~ (/\ Refusing(Min(lines))
                     /\ \A i \in DOMAIN userdb_txt \ {Min(lines)} :
                          [userdb_txt[i] EXCEPT !.policy = FALSE] # userdb_txt[Min(lines)])
    <3>1. PICK txt : txt = userdb_txt
      OBVIOUS
    <3>2. txt \in Seq(Line)
      BY <3>1, FilesAssumption DEF IInv, LoginTypeOK
    <3>3. Len(txt) \in Nat /\ DOMAIN txt = 1 .. Len(txt) /\ \A i \in 1 .. Len(txt) : txt[i] \in Line
      BY <3>2
    <3>4. UserDBchecklogin(a.combo)
      BY <2>2 DEF IInv, AnswersInv
    <3>5. lines = {i \in 1 .. Len(txt) : Fits(txt[i], a.combo)}
      BY <2>2, <3>1, <3>3 DEF About, Fits
    <3>6. /\ \E i \in 1 .. Len(txt) : Fits(txt[i], a.combo) /\ txt[i].policy
          /\ \A m \in 1 .. Len(txt) :
               ~ (/\ Fits(txt[m], a.combo) /\ ~ txt[m].policy
                  /\ \A j \in 1 .. m - 1 : ~ Fits(txt[j], a.combo)
                  /\ \A j \in 1 .. Len(txt) : j # m => ~ Same(txt[m], txt[j]))
      BY <3>1, <3>2, <3>4, RightAnswer
    <3>7. \E i \in lines : txt[i].policy
      BY <3>5, <3>6
    <3>8. PICK m : m = Min(lines)
      OBVIOUS
    <3>9. m \in lines /\ \A i \in lines : m <= i
      <4>1. lines \subseteq Nat /\ lines # {}
        BY <3>3, <3>5, <3>7
      <4> QED
        BY <3>8, <4>1, LeastOf
    <3>10. m \in 1 .. Len(txt) /\ Fits(txt[m], a.combo)
      BY <3>5, <3>9
    <3>11. \A j \in 1 .. m - 1 : ~ Fits(txt[j], a.combo)
      <4>1. \A j \in 1 .. m - 1 : j \in 1 .. Len(txt) /\ ~ (m <= j)
        BY <3>3, <3>10
      <4> QED
        BY <3>5, <3>9, <4>1
    <3>12. ASSUME ~ txt[m].policy,
                  \A i \in 1 .. Len(txt) : i # m => [txt[i] EXCEPT !.policy = FALSE] # txt[m]
           PROVE  FALSE
      <4>1. ASSUME NEW j \in 1 .. Len(txt), Same(txt[m], txt[j]) PROVE [txt[j] EXCEPT !.policy = FALSE] = txt[m]
        <5>1. PICK x, y : x = txt[m] /\ y = txt[j]
          OBVIOUS
        <5>2. x \in Line /\ y \in Line /\ x.login = y.login /\ x.passwd = y.passwd
          BY <3>3, <3>10, <4>1, <5>1 DEF Same
        <5>3. x.policy = FALSE
          BY <3>12, <5>1, <5>2 DEF Line
        <5>4. [y EXCEPT !.policy = FALSE] = x
          BY <5>2, <5>3 DEF Line
        <5> QED
          BY <5>1, <5>4
      <4> QED
        BY <3>6, <3>10, <3>11, <3>12, <4>1
    <3>13. Refusing(m) <=> ~ txt[m].policy
      BY <3>1 DEF Refusing
    <3> QED
      BY <3>1, <3>3, <3>7, <3>8, <3>12, <3>13
  <2> QED
    BY <2>1, <2>2 DEF Deserved
<1> QED
  BY <1>1, Invariance, PTL

-----------------------------------------------------------------------------
(* Recording.                                                              *)

RecordSpec == RecordStart /\ [][RecordNext]_recordvars

\* Whoever was accepted has a number; a session belongs to a login, and only one that came by
\* Telnet outlives it.
SessionInv ==
  \A c \in Conns :
    /\ life[c] # "none" => sessionno[c] # 0
    /\ type[c] # "no" => life[c] = "user" \/ (life[c] = "lost" /\ endpoint[c] = Telnet)

\* A Telnet session whose closing failed.
CutShort(c) == life[c] = "lost" /\ endpoint[c] = Telnet /\ type[c] # "no"

\* The table of sessions: whoever is open is under its number, and whoever is
\* in it was accepted with that number and is open, or was cut short.
TableInv ==
  /\ \A c \in Conns : Open(c) => sessions[Key(c)] = c
  /\ \A k \in Keys, c \in Conns : sessions[k] = c =>
       Key(c) = k /\ (Open(c) \/ CutShort(c))

OwnedInv == RecordTypeOK /\ SessionInv /\ (~ overlap => ~ mistaken /\ TableInv)

\* Nobody is connected at the start.
LEMMA OwnedInit == RecordStart => OwnedInv
<1> SUFFICES ASSUME RecordStart PROVE OwnedInv
  OBVIOUS
<1>1. RecordTypeOK
  <2>1. Cardinality(Conns) \in Nat
    BY FS_CardinalityType, RecordAssumption
  <2> QED
    BY <2>1, RecordAssumption DEF RecordStart, RecordTypeOK, Ports, Telnet
<1>2. SessionInv
  BY DEF RecordStart, SessionInv
<1>3. ~ mistaken /\ TableInv
  BY RecordAssumption DEF RecordStart, TableInv, Open
<1> QED
  BY <1>1, <1>2, <1>3 DEF OwnedInv

\* The number of a connection that is accepted is one of the numbers.
LEMMA NumberFits ==
  ASSUME NEW port \in Ports, NEW c \in Conns, life[c] = "none"
  PROVE  LET no == 1 + Cardinality({d \in Conns : life[d] # "none" /\ endpoint[d] = port})
         IN no \in 1 .. Cardinality(Conns)
<1> DEFINE S == {d \in Conns : life[d] # "none" /\ endpoint[d] = port}
<1>1. S \in SUBSET Conns /\ S # Conns
  OBVIOUS
<1>2. /\ IsFiniteSet(S)
      /\ Cardinality(S) <= Cardinality(Conns)
      /\ Cardinality(S) # Cardinality(Conns)
  BY <1>1, FS_Subset, RecordAssumption
<1>3. Cardinality(S) \in Nat /\ Cardinality(Conns) \in Nat
  BY <1>2, FS_CardinalityType, RecordAssumption
<1> HIDE DEF S
<1>4. 1 + Cardinality(S) \in 1 .. Cardinality(Conns)
  BY <1>2, <1>3
<1> QED
  BY <1>4 DEF S

\* The name of a file is one of the names.
LEMMA NamesFit == ASSUME NEW c \in Conns, NEW n \in 1 .. MaxFiles PROVE <<c, n>> \in FileNames
  BY RecordAssumption DEF FileNames

\* Accepting a connection adds it to the table, at a number that nobody has.
LEMMA ConnectedInv ==
  ASSUME OwnedInv, NEW c \in Conns, NEW port \in Ports, Connected(c, port)
  PROVE  OwnedInv'
<1> DEFINE no == 1 + Cardinality({d \in Conns : life[d] # "none" /\ endpoint[d] = port})
           key == <<Proto(port), no>>
<1>1. /\ life[c] = "none"
      /\ life' = [life EXCEPT ![c] = "login"]
      /\ endpoint' = [endpoint EXCEPT ![c] = port]
      /\ sessionno' = [sessionno EXCEPT ![c] = no]
      /\ sessions' = [sessions EXCEPT ![key] = c]
      /\ overlap' = (overlap \/ sessions[key] # NoConn)
      /\ UNCHANGED <<mistaken, type, temp, writing, redirFiles, chunks>>
  BY DEF Connected
<1>2. no \in 1 .. Cardinality(Conns)
  BY <1>1, NumberFits
<1>3. key \in Keys
  BY <1>2 DEF Keys, Proto
<1> HIDE DEF no
<1>4. Cardinality(Conns) \in Nat
  BY FS_CardinalityType, RecordAssumption
<1>5. RecordTypeOK'
  BY <1>1, <1>2, <1>3, <1>4 DEF OwnedInv, RecordTypeOK
<1>6. SessionInv'
  BY <1>1, <1>2 DEF OwnedInv, RecordTypeOK, SessionInv
<1>7. ASSUME ~ overlap' PROVE ~ mistaken' /\ TableInv'
  <2>1. /\ ~ overlap /\ ~ mistaken /\ TableInv
        /\ sessions[key] = NoConn
    BY <1>1, <1>7 DEF OwnedInv
  <2>2. Key(c)' = key
    BY <1>1 DEF Key, OwnedInv, RecordTypeOK
  <2>3. \A d \in Conns \ {c} : /\ Key(d)' = Key(d)
                               /\ Open(d)' = Open(d)
                               /\ life'[d] = life[d] /\ endpoint'[d] = endpoint[d]
    BY <1>1 DEF Key, Open, OwnedInv, RecordTypeOK
  <2>4. /\ sessions'[key] = c
        /\ \A k \in Keys \ {key} : sessions'[k] = sessions[k]
    BY <1>1, <1>3 DEF OwnedInv, RecordTypeOK
  <2>5. ASSUME NEW d \in Conns, Open(d)' PROVE sessions'[Key(d)'] = d
    <3>1. CASE d = c
      BY <2>2, <2>4, <3>1
    <3>2. CASE d # c
      <4>1. Open(d) /\ sessions[Key(d)] = d
        BY <2>1, <2>3, <2>5, <3>2 DEF TableInv
      <4>2. Key(d) \in Keys
        BY <4>1, <1>4 DEF OwnedInv, RecordTypeOK, SessionInv, Open, Key, Keys, Proto
      <4> QED
        BY <2>1, <2>3, <2>4, <3>2, <4>1, <4>2, RecordAssumption
    <3> QED
      BY <3>1, <3>2
  <2>6. ASSUME NEW k \in Keys, NEW d \in Conns, sessions'[k] = d
        PROVE  Key(d)' = k /\ (Open(d)' \/ CutShort(d)')
    <3>1. CASE k = key
      <4>1. d = c
        BY <2>4, <2>6, <3>1
      <4> QED
        BY <1>1, <2>2, <3>1, <4>1 DEF OwnedInv, RecordTypeOK, Open
    <3>2. CASE k # key
      <4>1. sessions[k] = d
        BY <2>4, <2>6, <3>2
      <4>2. Key(d) = k /\ (Open(d) \/ CutShort(d))
        BY <2>1, <4>1 DEF TableInv
      <4>3. d # c
        BY <1>1, <4>2 DEF Open, CutShort
      <4> QED
        BY <1>1, <2>3, <4>2, <4>3 DEF CutShort
    <3> QED
      BY <3>1, <3>2
  <2>7. TableInv'
    BY <2>5, <2>6 DEF TableInv
  <2> QED
    BY <1>1, <2>1, <2>7
<1> QED
  BY <1>5, <1>6, <1>7 DEF OwnedInv

\* Steps that neither accept a connection nor log its end leave the table as
\* it is, and an event of an open connection finds it there.
LEMMA TableStays ==
  ASSUME OwnedInv, RecordTypeOK', NEW c \in Conns, Open(c),
         UNCHANGED <<endpoint, sessionno, overlap, sessions>>,
         UNCHANGED mistaken \/ emit(c),
         \A d \in Conns \ {c} : life'[d] = life[d] /\ type'[d] = type[d],
         Open(c)' \/ CutShort(c)',
         type'[c] # "no" => life'[c] = "user" \/ CutShort(c)'
  PROVE  OwnedInv'
<1>1. SessionInv'
  BY DEF OwnedInv, SessionInv, Open, CutShort
<1>2. ASSUME ~ overlap' PROVE ~ mistaken' /\ TableInv'
  <2>1. ~ overlap /\ ~ mistaken /\ TableInv
    BY <1>2 DEF OwnedInv
  <2>2. sessions[Key(c)] = c
    BY <2>1 DEF TableInv
  <2>3. ~ mistaken'
    BY <2>1, <2>2 DEF emit
  <2>4. \A d \in Conns : Key(d)' = Key(d)
    BY DEF Key
  <2>5. \A d \in Conns \ {c} : /\ Open(d)' = Open(d)
                               /\ CutShort(d)' = CutShort(d)
    BY DEF Open, CutShort
  <2>6. TableInv'
    BY <2>1, <2>4, <2>5 DEF TableInv
  <2> QED
    BY <2>3, <2>6
<1> QED
  BY <1>1, <1>2 DEF OwnedInv

\* Steps that only write files.
LEMMA NothingNew ==
  ASSUME OwnedInv, RecordTypeOK',
         UNCHANGED <<life, endpoint, sessionno, type, overlap, sessions, mistaken>>
  PROVE  OwnedInv'
<1>1. SessionInv'
  BY DEF OwnedInv, SessionInv
<1>2. TableInv => TableInv'
  BY DEF TableInv, Key, Open, CutShort
<1> QED
  BY <1>1, <1>2 DEF OwnedInv

\* A login, granted or not, and a session.
LEMMA LoginInv ==
  ASSUME OwnedInv, NEW c \in Conns, NEW ok \in BOOLEAN, NEW t \in {"i", "e"},
         SshLogin(c, ok) \/ TelnetLogin(c, ok) \/ OpenSession(c, t)
  PROVE  OwnedInv'
<1>1. /\ Open(c)
      /\ emit(c)
      /\ UNCHANGED <<endpoint, sessionno, overlap, sessions, temp, writing, redirFiles, chunks>>
      /\ \E l \in {"login", "user"}, u \in {"no", "i", "e"} :
           /\ life' = [life EXCEPT ![c] = l]
           /\ type' = [type EXCEPT ![c] = u]
           /\ u # "no" => l = "user"
  <2>1. CASE SshLogin(c, ok)
    BY <2>1 DEF SshLogin, Open, OwnedInv, RecordTypeOK, SessionInv
  <2>2. CASE TelnetLogin(c, ok)
    BY <2>2 DEF TelnetLogin, Opened, Open, OwnedInv, RecordTypeOK, SessionInv
  <2>3. CASE OpenSession(c, t)
    BY <2>3 DEF OpenSession, Opened, Open, OwnedInv, RecordTypeOK, SessionInv
  <2> QED
    BY <2>1, <2>2, <2>3
<1>2. RecordTypeOK'
  BY <1>1 DEF OwnedInv, RecordTypeOK
<1>3. /\ Open(c)'
      /\ type'[c] # "no" => life'[c] = "user"
      /\ \A d \in Conns \ {c} : life'[d] = life[d] /\ type'[d] = type[d]
  BY <1>1 DEF OwnedInv, RecordTypeOK, Open
<1> QED
  BY <1>1, <1>2, <1>3, TableStays

\* A chunk of standard input.
LEMMA StdinReceivedInv ==
  ASSUME OwnedInv, NEW c \in Conns, NEW d \in Data, StdinReceived(c, d) PROVE OwnedInv'
<1>1. UNCHANGED <<life, endpoint, sessionno, type, overlap, sessions, mistaken>>
  BY DEF StdinReceived
<1>2. RecordTypeOK'
  BY RecordAssumption DEF StdinReceived, OwnedInv, RecordTypeOK
<1> QED
  BY <1>1, <1>2, NothingNew

\* A command that is redirected.
LEMMA WriteRedirectedInv ==
  ASSUME OwnedInv, NEW c \in Conns, NEW n \in 1 .. MaxFiles, NEW output, WriteRedirected(c, n, output)
  PROVE  OwnedInv'
<1>1. UNCHANGED <<life, endpoint, sessionno, type, overlap, sessions, mistaken>>
  BY DEF WriteRedirected
<1>2. <<c, n>> \in FileNames
  BY NamesFit
<1>3. DOMAIN temp' = {<<c, n>>} \cup DOMAIN temp
  BY DEF WriteRedirected, Put
<1>4. chunks' \in 0 .. MaxChunks /\ writing' = [writing EXCEPT ![c] = n] /\ UNCHANGED redirFiles
  BY RecordAssumption DEF WriteRedirected, OwnedInv, RecordTypeOK
<1>5. RecordTypeOK'
  BY <1>1, <1>2, <1>3, <1>4, RecordAssumption DEF OwnedInv, RecordTypeOK
<1> QED
  BY <1>1, <1>5, NothingNew

\* Its end.
LEMMA CommandExitsInv == ASSUME OwnedInv, NEW c \in Conns, CommandExits(c) PROVE OwnedInv'
<1>1. UNCHANGED <<life, endpoint, sessionno, type, overlap, sessions, mistaken>>
  BY DEF CommandExits
<1>2. writing[c] \in 1 .. MaxFiles
  BY RecordAssumption DEF CommandExits, OwnedInv, RecordTypeOK
<1>3. redirFiles' \subseteq FileNames
  BY <1>2, NamesFit DEF CommandExits, OwnedInv, RecordTypeOK
<1>4. writing' = [writing EXCEPT ![c] = 0] /\ UNCHANGED <<temp, chunks>>
  BY DEF CommandExits
<1>5. RecordTypeOK'
  BY <1>1, <1>3, <1>4, RecordAssumption DEF OwnedInv, RecordTypeOK
<1> QED
  BY <1>1, <1>5, NothingNew

\* What is saved leaves no file of another sort behind.
LEMMA SavedFits ==
  ASSUME RecordTypeOK, NEW c \in Conns, Saved(c)
  PROVE  (\A f \in DOMAIN temp' : f \in FileNames) /\ redirFiles' \subseteq FileNames
  BY DEF Saved, RecordTypeOK

\* The end of an SSH session on a connection that stays.
LEMMA SessionClosedInv == ASSUME OwnedInv, NEW c \in Conns, SessionClosed(c) PROVE OwnedInv'
<1>1. /\ life[c] = "user" /\ Open(c)
      /\ type' = [type EXCEPT ![c] = "no"]
      /\ emit(c)
      /\ UNCHANGED <<life, endpoint, sessionno, writing, sessions, chunks, overlap>>
  BY DEF SessionClosed, Open, OwnedInv, SessionInv
<1>2. RecordTypeOK'
  BY <1>1, SavedFits DEF SessionClosed, OwnedInv, RecordTypeOK
<1>3. /\ Open(c)' /\ type'[c] = "no"
      /\ \A d \in Conns \ {c} : life'[d] = life[d] /\ type'[d] = type[d]
  BY <1>1 DEF OwnedInv, RecordTypeOK, Open
<1> QED
  BY <1>1, <1>2, <1>3, TableStays

\* The end of a connection that is logged takes it, and only it, off the table.
LEMMA ClosedInv ==
  ASSUME OwnedInv, NEW c \in Conns, Open(c), Closed(c),
         life' = [life EXCEPT ![c] = "lost"],
         UNCHANGED <<endpoint, sessionno, stdin, writing, chunks, ended, overlap>>
  PROVE  OwnedInv'
<1>1. /\ type' = [type EXCEPT ![c] = "no"]
      /\ sessions' = [sessions EXCEPT ![Key(c)] = NoConn]
      /\ emit(c)
  BY DEF Closed, Forget
<1>2. RecordTypeOK'
  <2>1. (\A f \in DOMAIN temp' : f \in FileNames) /\ redirFiles' \subseteq FileNames
    BY SavedFits DEF Closed, OwnedInv, RecordTypeOK
  <2> QED
    BY <1>1, <2>1 DEF OwnedInv, RecordTypeOK
<1>3. SessionInv'
  BY <1>1 DEF OwnedInv, RecordTypeOK, SessionInv, Open
<1>4. ASSUME ~ overlap' PROVE ~ mistaken' /\ TableInv'
  <2>1. ~ overlap /\ ~ mistaken /\ TableInv
    BY <1>4 DEF OwnedInv
  <2>2. sessions[Key(c)] = c
    BY <2>1 DEF TableInv
  <2>3. ~ mistaken'
    BY <1>1, <2>1, <2>2 DEF emit
  <2>4. \A d \in Conns : Key(d)' = Key(d)
    BY DEF Key
  <2>5. \A d \in Conns \ {c} : /\ Open(d)' = Open(d)
                               /\ CutShort(d)' = CutShort(d)
    BY <1>1 DEF Open, CutShort, OwnedInv, RecordTypeOK
  <2>6. ~ Open(c)'
    BY DEF Open, OwnedInv, RecordTypeOK
  <2>7. ASSUME NEW d \in Conns, Open(d)' PROVE sessions'[Key(d)'] = d
    <3>1. d # c /\ sessions[Key(d)] = d
      BY <2>1, <2>5, <2>6, <2>7 DEF TableInv
    <3>2. Key(d) # Key(c)
      BY <2>2, <3>1
    <3> QED
      BY <1>1, <2>4, <3>1, <3>2 DEF OwnedInv, RecordTypeOK
  <2>8. ASSUME NEW k \in Keys, NEW d \in Conns, sessions'[k] = d
        PROVE  Key(d)' = k /\ (Open(d)' \/ CutShort(d)')
    <3>1. k # Key(c) /\ sessions[k] = d
      BY <1>1, <2>8, RecordAssumption DEF OwnedInv, RecordTypeOK
    <3>2. Key(d) = k /\ (Open(d) \/ CutShort(d))
      BY <2>1, <3>1 DEF TableInv
    <3> QED
      BY <2>4, <2>5, <3>1, <3>2
  <2>9. TableInv'
    BY <2>7, <2>8 DEF TableInv
  <2> QED
    BY <2>3, <2>9
<1> QED
  BY <1>2, <1>3, <1>4 DEF OwnedInv

\* The end of a connection, logged or cut short.
LEMMA LostInv ==
  ASSUME OwnedInv, NEW c \in Conns, SshConnectionLost(c) \/ TelnetConnectionLost(c)
  PROVE  OwnedInv'
<1>1. /\ Open(c)
      /\ life' = [life EXCEPT ![c] = "lost"]
      /\ UNCHANGED <<endpoint, sessionno, stdin, writing, chunks, ended, overlap>>
  BY DEF SshConnectionLost, TelnetConnectionLost
<1>2. CASE Closed(c)
  BY <1>1, <1>2, ClosedInv
<1>3. CASE endpoint[c] = Telnet /\ type[c] # "no" /\ \E gone : ClosedInVain(gone)
  <2>1. UNCHANGED <<type, redirFiles, sessions, mistaken>> /\ DOMAIN temp' \subseteq DOMAIN temp
    BY <1>3 DEF ClosedInVain
  <2>2. RecordTypeOK'
    BY <1>1, <2>1 DEF OwnedInv, RecordTypeOK
  <2>3. /\ CutShort(c)'
        /\ \A d \in Conns \ {c} : life'[d] = life[d] /\ type'[d] = type[d]
    BY <1>1, <1>3, <2>1 DEF CutShort, OwnedInv, RecordTypeOK
  <2> QED
    BY <1>1, <2>1, <2>2, <2>3, TableStays
<1> QED
  BY <1>2, <1>3 DEF SshConnectionLost, TelnetConnectionLost

\* Every step preserves the invariant.
LEMMA OwnedStep == OwnedInv /\ [RecordNext]_recordvars => OwnedInv'
<1> SUFFICES ASSUME OwnedInv, [RecordNext]_recordvars PROVE OwnedInv'
  OBVIOUS
<1>1. CASE UNCHANGED recordvars
  <2>1. RecordTypeOK'
    BY <1>1 DEF OwnedInv, RecordTypeOK, recordvars
  <2> QED
    BY <1>1, <2>1, NothingNew DEF recordvars
<1>2. CASE RecordNext
  <2> PICK c \in Conns :
        \/ SshConnect(c) \/ TelnetConnect(c)
        \/ \E ok \in BOOLEAN : SshLogin(c, ok) \/ TelnetLogin(c, ok)
        \/ \E t \in {"i", "e"} : OpenSession(c, t)
        \/ \E d \in Data : StdinReceived(c, d)
        \/ \E n \in 1 .. MaxFiles, output \in {<< >>} \cup {<<d>> : d \in Data} : WriteRedirected(c, n, output)
        \/ CommandExits(c) \/ SessionClosed(c) \/ SshConnectionLost(c) \/ TelnetConnectionLost(c)
    BY <1>2 DEF RecordNext
  <2>1. ASSUME SshConnect(c) \/ TelnetConnect(c) PROVE OwnedInv'
    BY <2>1, ConnectedInv DEF SshConnect, TelnetConnect, Ports
  <2>2. ASSUME NEW ok \in BOOLEAN, SshLogin(c, ok) \/ TelnetLogin(c, ok) PROVE OwnedInv'
    BY <2>2, LoginInv
  <2>3. ASSUME NEW t \in {"i", "e"}, OpenSession(c, t) PROVE OwnedInv'
    BY <2>3, LoginInv
  <2> QED
    BY <2>1, <2>2, <2>3, StdinReceivedInv, WriteRedirectedInv, CommandExitsInv, SessionClosedInv, LostInv
<1> QED
  BY <1>1, <1>2

\* The table of sessions tells whose an event is, however many connect, as
\* long as no two open connections have one number.
THEOREM EventsFindTheirSession == RecordSpec => []Owned
<1>1. OwnedInv => Owned
  <2> SUFFICES ASSUME OwnedInv, ~ overlap
               PROVE  ~ mistaken /\ (\A c \in Conns : Open(c) => sessions[Key(c)] = c)
                      /\ \A k \in Keys : sessions[k] # NoConn =>
                           LET c == sessions[k]
                           IN Key(c) = k /\ (life[c] = "lost" => endpoint[c] = Telnet /\ type[c] # "no")
    BY DEF Owned
  <2>1. ~ mistaken /\ TableInv
    BY DEF OwnedInv
  <2>2. \A k \in Keys : sessions[k] \in Conns \cup {NoConn}
    BY DEF OwnedInv, RecordTypeOK
  <2> QED
    BY <2>1, <2>2 DEF TableInv, Open, CutShort
<1> QED
  BY <1>1, OwnedInit, OwnedStep, PTL DEF RecordSpec

-----------------------------------------------------------------------------
(* What is recorded is kept: a chunk is in one place at a time.            *)

Chunks == [id : Nat, data : Data]

\* The places: a redirected file, the input of a session that is open, a report.
InFile(f, x) == f \in DOMAIN temp /\ x \in Range(temp[f])
InInput(c, x) == c \in Conns /\ type[c] # "no" /\ x \in Range(stdin[c])
InReport(r, x) == r \in reports /\ x \in Range(r.chunks)

ContentsInv ==
  /\ chunks \in Nat
  /\ type \in [Conns -> {"no", "i", "e"}]
  /\ \A f \in DOMAIN temp : temp[f] \in Seq(Chunks)
  /\ stdin \in [Conns -> Seq(Chunks)]
  /\ \A r \in reports : r = [by |-> r.by, chunks |-> r.chunks]

\* Numbers are given out in order.
NumberedInv ==
  /\ \A f, x : InFile(f, x) => x.id \in 0 .. chunks
  /\ \A c, x : InInput(c, x) => x.id \in 0 .. chunks
  /\ \A r, x : InReport(r, x) => x.id \in 0 .. chunks

OnePlaceInv ==
  /\ \A f, g, x : InFile(f, x) /\ InFile(g, x) => f = g
  /\ \A f, c, x : ~ (InFile(f, x) /\ InInput(c, x))
  /\ \A f, r, x : ~ (InFile(f, x) /\ InReport(r, x))
  /\ \A c, d, x : InInput(c, x) /\ InInput(d, x) => c = d
  /\ \A c, r, x : ~ (InInput(c, x) /\ InReport(r, x))
  /\ \A r, s, x : InReport(r, x) /\ InReport(s, x) => r = s

SomewhereInv ==
  \A x \in ended : (\E f \in redirFiles : InFile(f, x)) \/ (\E r : InReport(r, x))

StoredInv == \A r \in reports : [session |-> r.by, bytes |-> Bytes(r.chunks)] \in store

KeptInv == ContentsInv /\ NumberedInv /\ OnePlaceInv /\ SomewhereInv /\ StoredInv

\* A sequence that is longer by one element has one element more.
LEMMA RangeAppend ==
  ASSUME NEW S, NEW s \in Seq(S), NEW y \in S
  PROVE  Range(Append(s, y)) = Range(s) \cup {y}
<1> DEFINE t == Append(s, y)
<1>1. DOMAIN s = 1 .. Len(s) /\ Len(s) \in Nat
  BY LenProperties
<1>2. t \in Seq(S) /\ Len(t) = Len(s) + 1
  BY AppendProperties
<1>3. DOMAIN t = 1 .. Len(s) + 1
  BY <1>2, LenProperties
<1>4. t[Len(s) + 1] = y /\ \A i \in 1 .. Len(s) : t[i] = s[i]
  BY AppendProperties
<1> HIDE DEF t
<1>5. Range(t) = Range(s) \cup {y}
  BY <1>1, <1>3, <1>4 DEF Range
<1> QED
  BY <1>5 DEF t

\* Nothing is recorded at the start.
LEMMA KeptInit == RecordStart => KeptInv
<1> SUFFICES ASSUME RecordStart PROVE KeptInv
  OBVIOUS
<1>1. \A f, x : ~ InFile(f, x)
  BY DEF RecordStart, InFile
<1>2. \A c, x : ~ InInput(c, x)
  BY DEF RecordStart, InInput
<1>3. \A r, x : ~ InReport(r, x)
  BY DEF RecordStart, InReport
<1>4. ContentsInv
  BY DEF RecordStart, ContentsInv
<1> QED
  BY <1>1, <1>2, <1>3, <1>4 DEF RecordStart, KeptInv, NumberedInv, OnePlaceInv, SomewhereInv, StoredInv

\* Steps that move no chunk, and that may empty or close an input.
LEMMA NoChunkMoves ==
  ASSUME KeptInv, ContentsInv',
         \A f, x : InFile(f, x)' = InFile(f, x),
         \A c, x : InInput(c, x)' => InInput(c, x),
         UNCHANGED <<reports, store, chunks, ended>>,
         redirFiles \subseteq redirFiles'
  PROVE  KeptInv'
<1>1. \A r, x : InReport(r, x)' = InReport(r, x)
  BY DEF InReport
<1>2. NumberedInv'
  BY <1>1 DEF KeptInv, NumberedInv
<1>3. OnePlaceInv'
  BY <1>1 DEF KeptInv, OnePlaceInv
<1>4. SomewhereInv'
  BY <1>1 DEF KeptInv, SomewhereInv
<1>5. StoredInv'
  BY DEF KeptInv, StoredInv
<1> QED
  BY <1>2, <1>3, <1>4, <1>5 DEF KeptInv

\* Logins and connections.
LEMMA ConnectKept ==
  ASSUME KeptInv, NEW c \in Conns,
         SshConnect(c) \/ TelnetConnect(c) \/ \E ok \in BOOLEAN : SshLogin(c, ok)
  PROVE  KeptInv'
<1>1. UNCHANGED <<type, stdin, temp, redirFiles, store, chunks, ended, reports>>
  BY DEF SshConnect, TelnetConnect, SshLogin, Connected
<1>2. ContentsInv'
  BY <1>1 DEF KeptInv, ContentsInv
<1>3. /\ \A f, x : InFile(f, x)' = InFile(f, x)
      /\ \A d, x : InInput(d, x)' => InInput(d, x)
  BY <1>1 DEF InFile, InInput
<1> QED
  BY <1>1, <1>2, <1>3, NoChunkMoves

\* A session that is opened has no input yet.
LEMMA OpenedKept ==
  ASSUME KeptInv, NEW c \in Conns, NEW ok \in BOOLEAN, NEW t \in {"i", "e"},
         OpenSession(c, t) \/ TelnetLogin(c, ok)
  PROVE  KeptInv'
<1>1. UNCHANGED <<temp, redirFiles, store, chunks, ended, reports>>
  BY DEF OpenSession, TelnetLogin
<1>2. \/ UNCHANGED <<type, stdin>>
      \/ \E u \in {"i", "e"} : /\ type' = [type EXCEPT ![c] = u]
                               /\ stdin' = [stdin EXCEPT ![c] = << >>]
  BY DEF OpenSession, TelnetLogin, Opened
<1>3. ContentsInv'
  <2>1. /\ type \in [Conns -> {"no", "i", "e"}] /\ stdin \in [Conns -> Seq(Chunks)]
        /\ << >> \in Seq(Chunks)
    BY EmptySeq DEF KeptInv, ContentsInv
  <2>2. type' \in [Conns -> {"no", "i", "e"}]
    BY ONLY <1>2, <2>1
  <2>3. stdin' \in [Conns -> Seq(Chunks)]
    BY ONLY <1>2, <2>1
  <2> QED
    BY <1>1, <2>2, <2>3 DEF KeptInv, ContentsInv
<1>4. \A f, x : InFile(f, x)' = InFile(f, x)
  BY <1>1 DEF InFile
<1>5. \A d, x : InInput(d, x)' => InInput(d, x)
  <2>1. Range(<< >>) = {}
    BY DEF Range
  <2> QED
    BY <1>2, <2>1 DEF InInput, KeptInv, ContentsInv
<1> QED
  BY <1>1, <1>3, <1>4, <1>5, NoChunkMoves

\* A chunk that is written gets the next number, so it is nowhere else.
LEMMA NewChunk ==
  ASSUME KeptInv, ContentsInv', NEW y, y.id = chunks + 1, chunks' = chunks + 1,
         UNCHANGED <<reports, store, ended, redirFiles>>,
         \/ /\ \A c, x : InInput(c, x)' => InInput(c, x)
            /\ \E g : \A f, x : InFile(f, x)' <=> InFile(f, x) \/ (f = g /\ x = y)
         \/ /\ \A f, x : InFile(f, x)' = InFile(f, x)
            /\ \E d : \A c, x : InInput(c, x)' => InInput(c, x) \/ (c = d /\ x = y)
  PROVE  KeptInv'
<1>1. \A r, x : InReport(r, x)' = InReport(r, x)
  BY DEF InReport
<1>2. \A f, c, r : ~ InFile(f, y) /\ ~ InInput(c, y) /\ ~ InReport(r, y)
  BY DEF KeptInv, ContentsInv, NumberedInv
<1>3. NumberedInv'
  <2>1. chunks \in Nat /\ y.id \in 0 .. chunks' /\ 0 .. chunks \subseteq 0 .. chunks'
    BY DEF KeptInv, ContentsInv
  <2>2. NumberedInv
    BY DEF KeptInv
  <2> QED
    BY <1>1, <2>1, <2>2 DEF NumberedInv
<1>4. OnePlaceInv'
  BY <1>1, <1>2 DEF KeptInv, OnePlaceInv
<1>5. SomewhereInv'
  BY <1>1 DEF KeptInv, SomewhereInv
<1>6. StoredInv'
  BY DEF KeptInv, StoredInv
<1> QED
  BY <1>3, <1>4, <1>5, <1>6 DEF KeptInv

\* Input goes to the log of the session that it came for.
LEMMA StdinReceivedKept ==
  ASSUME KeptInv, NEW c \in Conns, NEW d \in Data, StdinReceived(c, d) PROVE KeptInv'
<1> DEFINE y == Chunk(d)
<1>1. /\ type[c] = "e"
      /\ stdin' = [stdin EXCEPT ![c] = Append(@, y)]
      /\ chunks' = chunks + 1
      /\ UNCHANGED <<type, temp, redirFiles, store, ended, reports>>
  BY DEF StdinReceived
<1>2. y \in Chunks /\ y.id = chunks + 1
  BY DEF Chunk, Chunks, KeptInv, ContentsInv
<1> HIDE DEF y
<1>3. /\ stdin[c] \in Seq(Chunks) /\ Append(stdin[c], y) \in Seq(Chunks)
      /\ Range(Append(stdin[c], y)) = Range(stdin[c]) \cup {y}
  BY <1>2, AppendProperties, RangeAppend DEF KeptInv, ContentsInv
<1>4. ContentsInv'
  BY <1>1, <1>3 DEF KeptInv, ContentsInv
<1>5. \A f, x : InFile(f, x)' = InFile(f, x)
  BY <1>1 DEF InFile
<1>6. \A e, x : InInput(e, x)' => InInput(e, x) \/ (e = c /\ x = y)
  BY <1>1, <1>3 DEF InInput, KeptInv, ContentsInv
<1> QED
  BY <1>1, <1>2, <1>4, <1>5, <1>6, NewChunk

\* A redirected command adds to its own file, or creates it.
LEMMA WriteRedirectedKept ==
  ASSUME KeptInv, NEW c \in Conns, NEW n \in 1 .. MaxFiles,
         NEW output \in {<< >>} \cup {<<d>> : d \in Data}, WriteRedirected(c, n, output)
  PROVE  KeptInv'
<1> DEFINE g == <<c, n>>
           old == IF g \in DOMAIN temp THEN temp[g] ELSE << >>
<1>1. UNCHANGED <<type, stdin, redirFiles, store, ended, reports>>
  BY DEF WriteRedirected
<1>2. old \in Seq(Chunks)
  BY EmptySeq DEF KeptInv, ContentsInv
<1>3. Range(<< >>) = {}
  BY DEF Range
<1>4. \A x : InFile(g, x) <=> x \in Range(old)
  BY <1>3 DEF InFile
<1>5. \A d, x : InInput(d, x)' => InInput(d, x)
  BY <1>1 DEF InInput
<1>6. CASE output = << >>
  <2>1. temp' = Put(g, old) /\ UNCHANGED chunks
    BY <1>6 DEF WriteRedirected
  <2> HIDE DEF g, old
  <2>2. ContentsInv'
    BY <1>1, <1>2, <2>1 DEF KeptInv, ContentsInv, Put
  <2>3. \A f, x : InFile(f, x)' = InFile(f, x)
    BY <1>4, <2>1 DEF InFile, Put
  <2> QED
    BY <1>1, <1>5, <2>1, <2>2, <2>3, NoChunkMoves
<1>7. CASE output # << >>
  <2> DEFINE y == Chunk(output[1])
             new == Append(old, y)
  <2>1. temp' = Put(g, new) /\ chunks' = chunks + 1
    BY <1>7 DEF WriteRedirected
  <2>2. y \in Chunks /\ y.id = chunks + 1
    BY <1>7 DEF Chunk, Chunks, KeptInv, ContentsInv
  <2> HIDE DEF g, old, y
  <2>3. new \in Seq(Chunks) /\ Range(new) = Range(old) \cup {y}
    BY <1>2, <2>2, AppendProperties, RangeAppend
  <2> HIDE DEF new
  <2>4. ContentsInv'
    BY <1>1, <2>1, <2>3 DEF KeptInv, ContentsInv, Put
  <2>5. \A f, x : InFile(f, x)' <=> InFile(f, x) \/ (f = g /\ x = y)
    BY <1>4, <2>1, <2>3 DEF InFile, Put
  <2> QED
    BY <1>1, <1>5, <2>1, <2>2, <2>4, <2>5, NewChunk
<1> QED
  BY <1>6, <1>7

\* The file of a command that exits is one that will be taken.
LEMMA CommandExitsKept == ASSUME KeptInv, NEW c \in Conns, CommandExits(c) PROVE KeptInv'
<1> DEFINE g == <<c, writing[c]>>
<1>1. UNCHANGED <<type, stdin, temp, store, chunks, reports>>
  BY DEF CommandExits
<1>2. \/ UNCHANGED <<redirFiles, ended>>
      \/ /\ redirFiles' = redirFiles \cup {g}
         /\ \A x \in ended' : x \in ended \/ InFile(g, x)
  BY DEF CommandExits, InFile
<1> HIDE DEF g
<1>3. ContentsInv'
  BY <1>1 DEF KeptInv, ContentsInv
<1>4. /\ \A f, x : InFile(f, x)' = InFile(f, x)
      /\ \A d, x : InInput(d, x)' = InInput(d, x)
      /\ \A r, x : InReport(r, x)' = InReport(r, x)
  BY <1>1 DEF InFile, InInput, InReport
<1>5. NumberedInv' /\ OnePlaceInv'
  BY <1>1, <1>4 DEF KeptInv, NumberedInv, OnePlaceInv
<1>6. SomewhereInv'
  BY <1>1, <1>2, <1>4 DEF KeptInv, SomewhereInv
<1>7. StoredInv'
  BY <1>1 DEF KeptInv, StoredInv
<1> QED
  BY <1>3, <1>5, <1>6, <1>7 DEF KeptInv

\* What a session that ends takes: redirected files of anybody, and its input.
Taken(c, r, x) ==
  \/ \E f \in redirFiles : InFile(f, x) /\ r = [by |-> c, chunks |-> temp[f]]
  \/ InInput(c, x) /\ r = [by |-> c, chunks |-> stdin[c]]

\* The chunks that a session takes as it ends go from where they were into one
\* report each, whose bytes are stored.
LEMMA SavedKept ==
  ASSUME KeptInv, NEW c \in Conns, type[c] # "no", Saved(c),
         type' = [type EXCEPT ![c] = "no"], UNCHANGED <<stdin, chunks, ended>>
  PROVE  KeptInv'
<1> DEFINE taken == ({temp[f] : f \in Redirected} \ {<< >>})
                      \cup (IF stdin[c] = << >> THEN {} ELSE {stdin[c]})
<1>1. /\ store' = store \cup Rename(c, taken)
      /\ reports' = reports \cup {[by |-> c, chunks |-> content] : content \in taken}
      /\ temp' = [f \in DOMAIN temp \ Redirected |-> temp[f]]
      /\ redirFiles' = {}
  BY DEF Saved
<1>2. Range(<< >>) = {}
  BY DEF Range
<1>3. \A f, x : InFile(f, x)' <=> InFile(f, x) /\ f \notin redirFiles
  BY <1>1 DEF InFile, Redirected
<1>4. \A d, x : InInput(d, x)' <=> InInput(d, x) /\ d # c
  BY DEF InInput, KeptInv, ContentsInv
<1>5. ASSUME NEW r, NEW x PROVE InReport(r, x)' <=> InReport(r, x) \/ Taken(c, r, x)
  <2>1. ASSUME InReport(r, x)', r \notin reports PROVE Taken(c, r, x)
    <3>1. PICK content \in taken : r = [by |-> c, chunks |-> content]
      BY <1>1, <2>1 DEF InReport
    <3>2. x \in Range(content)
      BY <2>1, <3>1 DEF InReport
    <3> QED
      BY <3>1, <3>2 DEF Taken, InFile, InInput, Redirected
  <2>2. ASSUME NEW content \in taken, x \in Range(content), r = [by |-> c, chunks |-> content]
        PROVE  InReport(r, x)'
    BY <1>1, <2>2 DEF InReport
  <2>3. ASSUME NEW f \in redirFiles, InFile(f, x) PROVE temp[f] \in taken /\ x \in Range(temp[f])
    BY <1>2, <2>3 DEF InFile, Redirected
  <2>4. ASSUME InInput(c, x) PROVE stdin[c] \in taken /\ x \in Range(stdin[c])
    BY <1>2, <2>4 DEF InInput
  <2>5. Taken(c, r, x) => InReport(r, x)'
    BY <2>2, <2>3, <2>4 DEF Taken
  <2>6. InReport(r, x) => InReport(r, x)'
    BY <1>1 DEF InReport
  <2>7. InReport(r, x)' => InReport(r, x) \/ Taken(c, r, x)
    BY <2>1 DEF InReport
  <2> QED
    BY <2>5, <2>6, <2>7
<1>6. ContentsInv'
  <2>1. \A r \in reports' : r = [by |-> r.by, chunks |-> r.chunks]
    BY <1>1 DEF KeptInv, ContentsInv
  <2>2. \A f \in DOMAIN temp' : temp'[f] \in Seq(Chunks)
    BY <1>1 DEF KeptInv, ContentsInv
  <2> QED
    BY <2>1, <2>2 DEF KeptInv, ContentsInv
<1>7. NumberedInv'
  BY <1>3, <1>4, <1>5 DEF KeptInv, NumberedInv, Taken
<1>8. OnePlaceInv'
  <2>1. ASSUME NEW r, NEW s, NEW x, InReport(r, x)', InReport(s, x)' PROVE r = s
    <3>1. InReport(r, x) \/ Taken(c, r, x)
      BY <1>5, <2>1
    <3>2. InReport(s, x) \/ Taken(c, s, x)
      BY <1>5, <2>1
    <3> QED
      BY <3>1, <3>2 DEF KeptInv, OnePlaceInv, Taken
  <2>2. \A f, r, x : ~ (InFile(f, x)' /\ InReport(r, x)')
    BY <1>3, <1>5 DEF KeptInv, OnePlaceInv, Taken
  <2>3. \A d, r, x : ~ (InInput(d, x)' /\ InReport(r, x)')
    BY <1>4, <1>5 DEF KeptInv, OnePlaceInv, Taken
  <2> QED
    BY <1>3, <1>4, <2>1, <2>2, <2>3 DEF KeptInv, OnePlaceInv
<1>9. SomewhereInv'
  BY <1>5 DEF KeptInv, SomewhereInv, Taken
<1>10. StoredInv'
  BY <1>1 DEF KeptInv, StoredInv, Rename
<1> QED
  BY <1>6, <1>7, <1>8, <1>9, <1>10 DEF KeptInv

\* The end of an SSH session.
LEMMA SessionClosedKept == ASSUME KeptInv, NEW c \in Conns, SessionClosed(c) PROVE KeptInv'
  BY SavedKept DEF SessionClosed

\* The end of a connection: one that has no session takes nothing, and a Telnet
\* one that is cut short removes files in which there is nothing.
LEMMA LostKept ==
  ASSUME KeptInv, NEW c \in Conns, SshConnectionLost(c) \/ TelnetConnectionLost(c)
  PROVE  KeptInv'
<1>1. UNCHANGED <<stdin, chunks, ended>>
  BY DEF SshConnectionLost, TelnetConnectionLost
<1>2. CASE Closed(c) /\ type[c] # "no"
  BY <1>1, <1>2, SavedKept DEF Closed
<1>3. CASE Closed(c) /\ type[c] = "no"
  <2>1. UNCHANGED <<store, reports, temp, redirFiles>> /\ type' = type
    BY <1>3 DEF Closed, KeptInv, ContentsInv
  <2>2. ContentsInv'
    BY <1>1, <2>1 DEF KeptInv, ContentsInv
  <2>3. /\ \A f, x : InFile(f, x)' = InFile(f, x)
        /\ \A d, x : InInput(d, x)' => InInput(d, x)
    BY <1>1, <2>1 DEF InFile, InInput
  <2> QED
    BY <1>1, <2>1, <2>2, <2>3, NoChunkMoves
<1>4. CASE \E gone \in SUBSET {f \in Redirected : temp[f] = << >>} : ClosedInVain(gone)
  <2> PICK gone \in SUBSET {f \in Redirected : temp[f] = << >>} : ClosedInVain(gone)
    BY <1>4
  <2>1. /\ temp' = [f \in DOMAIN temp \ gone |-> temp[f]]
        /\ UNCHANGED <<type, store, reports, redirFiles>>
    BY DEF ClosedInVain
  <2>2. ContentsInv'
    BY <1>1, <2>1 DEF KeptInv, ContentsInv
  <2>3. \A f \in gone : Range(temp[f]) = {}
    BY DEF Range
  <2>4. /\ \A f, x : InFile(f, x)' = InFile(f, x)
        /\ \A d, x : InInput(d, x)' => InInput(d, x)
    BY <1>1, <2>1, <2>3 DEF InFile, InInput
  <2> QED
    BY <1>1, <2>1, <2>2, <2>4, NoChunkMoves
<1> QED
  BY <1>2, <1>3, <1>4 DEF SshConnectionLost, TelnetConnectionLost

\* Every step preserves the invariant.
LEMMA KeptStep == KeptInv /\ [RecordNext]_recordvars => KeptInv'
<1> SUFFICES ASSUME KeptInv, [RecordNext]_recordvars PROVE KeptInv'
  OBVIOUS
<1>1. CASE UNCHANGED recordvars
  <2>1. ContentsInv'
    BY <1>1 DEF KeptInv, ContentsInv, recordvars
  <2>2. /\ \A f, x : InFile(f, x)' = InFile(f, x)
        /\ \A d, x : InInput(d, x)' => InInput(d, x)
    BY <1>1 DEF InFile, InInput, recordvars
  <2> QED
    BY <1>1, <2>1, <2>2, NoChunkMoves DEF recordvars
<1>2. CASE RecordNext
  <2> PICK c \in Conns :
        \/ SshConnect(c) \/ TelnetConnect(c)
        \/ \E ok \in BOOLEAN : SshLogin(c, ok) \/ TelnetLogin(c, ok)
        \/ \E t \in {"i", "e"} : OpenSession(c, t)
        \/ \E d \in Data : StdinReceived(c, d)
        \/ \E n \in 1 .. MaxFiles, output \in {<< >>} \cup {<<d>> : d \in Data} : WriteRedirected(c, n, output)
        \/ CommandExits(c) \/ SessionClosed(c) \/ SshConnectionLost(c) \/ TelnetConnectionLost(c)
    BY <1>2 DEF RecordNext
  <2>1. ASSUME NEW ok \in BOOLEAN, TelnetLogin(c, ok) PROVE KeptInv'
    BY <2>1, OpenedKept
  <2>2. ASSUME NEW t \in {"i", "e"}, OpenSession(c, t) PROVE KeptInv'
    BY <2>2, OpenedKept
  <2> QED
    BY <2>1, <2>2, ConnectKept, StdinReceivedKept, WriteRedirectedKept, CommandExitsKept,
       SessionClosedKept, LostKept
<1> QED
  BY <1>1, <1>2

\* Where a chunk was reported, it was reported once, and elsewhere never.
LEMMA ReportedOnce ==
  ASSUME KeptInv, NEW x
  PROVE  /\ (\E r : InReport(r, x)) => TimesReported(x) = 1
         /\ ~ (\E r : InReport(r, x)) => TimesReported(x) = 0
<1> DEFINE them == {r \in reports : x \in Range(r.chunks)}
<1>1. TimesReported(x) = Cardinality(them)
  BY DEF TimesReported
<1>2. ASSUME NEW r, InReport(r, x) PROVE Cardinality(them) = 1
  <2>1. them = {r}
    BY <1>2 DEF KeptInv, OnePlaceInv, InReport
  <2> QED
    BY <2>1, FS_Singleton
<1>3. ASSUME ~ \E r : InReport(r, x) PROVE Cardinality(them) = 0
  <2>1. them = {}
    BY <1>3 DEF InReport
  <2> QED
    BY <2>1, FS_EmptySet
<1> QED
  BY <1>1, <1>2, <1>3

\* What a command was redirected to, and exited in time, waits or is reported
\* and stored once, whichever session of however many closes first.
THEOREM RedirectedIsKept == RecordSpec => []Kept
<1>1. KeptInv => Kept
  <2> SUFFICES ASSUME KeptInv PROVE Kept
    OBVIOUS
  <2>1. ASSUME NEW x \in ended, NEW f \in Redirected, x \in Range(temp[f])
        PROVE  TimesReported(x) = 0
    <3>1. InFile(f, x)
      BY <2>1 DEF InFile, Redirected
    <3> QED
      BY <3>1, ReportedOnce DEF KeptInv, OnePlaceInv
  <2>2. ASSUME NEW x \in ended, ~ \E f \in Redirected : x \in Range(temp[f])
        PROVE  TimesReported(x) = 1
    <3>1. ~ \E f \in redirFiles : InFile(f, x)
      BY <2>2 DEF InFile, Redirected
    <3> QED
      BY <3>1, ReportedOnce DEF KeptInv, SomewhereInv
  <2> QED
    BY <2>1, <2>2 DEF Kept, KeptInv, StoredInv
<1> QED
  BY <1>1, KeptInit, KeptStep, PTL DEF RecordSpec
=============================================================================
