--------------------------- MODULE LogWriter_proof ---------------------------
(***************************************************************************)
(* Proofs about LogWriter, for any number of messages: the types, that     *)
(* nothing put on the queue is lost or reordered, that the two files have  *)
(* the same records, and that the writer which has ended had drained the   *)
(* queue when it last looked.                                              *)
(***************************************************************************)
EXTENDS LogWriter, SequenceTheorems, WellFoundedInduction, TLAPS

\* A writer about to read process, or that has ended on what it read, has nothing
\* in its hands and had found the queue empty: output_log got what was put by then.
Looked == writer \in {"process", "ended"} => Len(output_log) = checked

IInv == TypeOK /\ NothingLost /\ Looked

\* Initially nothing was put and nothing is written.
LEMMA IInit == Init => IInv
  BY DEF Init, IInv, TypeOK, NothingLost, InHand, Looked

\* A message put on the queue becomes the last of all that is on its way.
LEMMA PutInv == ASSUME IInv, NEW kind \in Kinds, Put(kind) PROVE IInv'
<1> DEFINE m == [kind |-> kind, nr |-> Len(put) + 1]
<1> USE DEF IInv
<1>1. m \in Message
  <2>1. Len(put) \in Nat
    BY LenProperties DEF TypeOK
  <2> QED
    BY <2>1 DEF Message
<1>2. /\ log_q' = Append(log_q, m)
      /\ put' = Append(put, m)
      /\ UNCHANGED <<process, writer, taken, output_log, output_json, checked>>
  BY DEF Put
<1>3. TypeOK'
  BY <1>1, <1>2, AppendProperties DEF TypeOK
<1>4. NothingLost'
  <2> DEFINE done == output_log \o InHand
  <2>1. done \in Seq(Message)
    BY ConcatProperties, EmptySeq DEF TypeOK, InHand
  <2>2. Append(done \o log_q, m) = done \o Append(log_q, m)
    <3>1. /\ done \o log_q \in Seq(Message)
          /\ <<m>> \in Seq(Message)
      BY <1>1, <2>1, ConcatProperties DEF TypeOK
    <3>2. /\ Append(done \o log_q, m) = (done \o log_q) \o <<m>>
          /\ Append(log_q, m) = log_q \o <<m>>
      BY <1>1, <3>1, AppendIsConcat DEF TypeOK
    <3>3. (done \o log_q) \o <<m>> = done \o (log_q \o <<m>>)
      <4>1. log_q \in Seq(Message)
        BY DEF TypeOK
      <4> HIDE DEF done, m
      <4> QED
        BY ONLY <2>1, <3>1, <4>1, ConcatAssociative
    <3> HIDE DEF done, m
    <3> QED
      BY <3>2, <3>3
  <2> QED
    BY <1>2, <2>2 DEF NothingLost, InHand
<1>5. Looked'
  BY <1>2 DEF Looked
<1> QED
  BY <1>3, <1>4, <1>5

\* stop() and the tests of the loop move no message.  The one that finds the queue
\* empty sees that everything put is with output_log.
LEMMA LoopInv ==
  ASSUME IInv, stop \/ FindQueued \/ FindEmpty \/ SeeProcess \/ GetTimeout
  PROVE  IInv'
<1> USE DEF IInv
<1>1. UNCHANGED <<log_q, put, taken, output_log, output_json>>
  BY DEF stop, FindQueued, FindEmpty, SeeProcess, GetTimeout
<1>2. Len(put) \in Nat
  BY LenProperties DEF TypeOK
<1>3. TypeOK'
  BY <1>1, <1>2 DEF stop, FindQueued, FindEmpty, SeeProcess, GetTimeout, TypeOK
<1>4. InHand' = InHand
  BY <1>1 DEF stop, FindQueued, FindEmpty, SeeProcess, GetTimeout, InHand
<1>5. NothingLost'
  BY <1>1, <1>4 DEF NothingLost
<1>6. Looked'
  <2>1. CASE FindEmpty
    <3>1. put = output_log
      <4>1. InHand = << >> /\ log_q = << >>
        BY <2>1 DEF FindEmpty, TypeOK, InHand
      <4> QED
        BY <4>1, ConcatEmptySeq DEF NothingLost, TypeOK
    <3> QED
      BY <2>1, <3>1 DEF FindEmpty, Looked
  <2>2. CASE stop \/ FindQueued \/ SeeProcess \/ GetTimeout
    BY <2>2 DEF stop, FindQueued, SeeProcess, GetTimeout, Looked
  <2> QED
    BY <2>1, <2>2
<1> QED
  BY <1>3, <1>5, <1>6

\* The head of the queue goes into the writer's empty hands.
LEMMA GetInv == ASSUME IInv, Get PROVE IInv'
<1> USE DEF IInv
<1>1. /\ log_q \in Seq(Message) /\ log_q # << >>
      /\ taken = << >> /\ InHand = << >>
      /\ taken' = <<Head(log_q)>> /\ log_q' = Tail(log_q) /\ writer' = "log"
      /\ UNCHANGED <<process, put, output_log, output_json, checked>>
  BY DEF Get, TypeOK, InHand
<1>2. /\ Head(log_q) \in Message
      /\ Tail(log_q) \in Seq(Message)
      /\ log_q = <<Head(log_q)>> \o Tail(log_q)
  BY <1>1, HeadTailProperties, SMT
<1>3. TypeOK'
  BY <1>1, <1>2 DEF TypeOK
<1>4. NothingLost'
  <2>1. InHand' = <<Head(log_q)>>
    BY <1>1 DEF InHand
  <2>2. /\ <<Head(log_q)>> \in Seq(Message)
        /\ output_log \in Seq(Message)
    BY <1>2 DEF TypeOK
  <2>3. put = output_log \o log_q
    BY <1>1, <2>2, ConcatEmptySeq DEF NothingLost
  <2>4. output_log \o (<<Head(log_q)>> \o Tail(log_q))
          = (output_log \o <<Head(log_q)>>) \o Tail(log_q)
    BY <1>2, <2>2, ConcatAssociative
  <2> QED
    BY <1>1, <1>2, <2>1, <2>3, <2>4 DEF NothingLost
<1>5. Looked'
  BY <1>1 DEF Looked
<1> QED
  BY <1>3, <1>4, <1>5

\* What output_log is given has left the writer's hands.
LEMMA WriteLogInv == ASSUME IInv, WriteLog PROVE IInv'
<1> USE DEF IInv
<1>1. /\ taken \in Seq(Message) /\ Len(taken) = 1 /\ InHand = taken
      /\ output_log \in Seq(Message)
      /\ output_log' = output_log \o taken
      /\ \/ writer' = "json" /\ taken' = taken
         \/ writer' = "test" /\ taken' = << >>
      /\ UNCHANGED <<log_q, process, put, output_json, checked>>
  BY DEF WriteLog, TypeOK, InHand
<1>2. output_log' \in Seq(Message)
  BY <1>1, ConcatProperties
<1>3. TypeOK'
  BY <1>1, <1>2 DEF TypeOK
<1>4. NothingLost'
  <2>1. InHand' = << >>
    BY <1>1 DEF InHand
  <2>2. output_log' \o InHand' = output_log'
    BY <1>2, <2>1, ConcatEmptySeq
  <2> QED
    BY <1>1, <2>2 DEF NothingLost
<1>5. Looked'
  BY <1>1 DEF Looked
<1> QED
  BY <1>3, <1>4, <1>5

\* output_json is given a message that output_log has been given already.
LEMMA WriteJsonInv == ASSUME IInv, WriteJson PROVE IInv'
<1> USE DEF IInv
<1>1. /\ taken \in Seq(Message) /\ InHand = << >> /\ InHand' = << >>
      /\ output_json' = output_json \o taken
      /\ writer' = "test" /\ taken' = << >>
      /\ UNCHANGED <<log_q, process, put, output_log, checked>>
  BY DEF WriteJson, TypeOK, InHand
<1>2. TypeOK'
  BY <1>1, ConcatProperties DEF TypeOK
<1>3. NothingLost' /\ Looked'
  BY <1>1 DEF NothingLost, Looked
<1> QED
  BY <1>2, <1>3

\* A writer that dies keeps what it had in its hands.
LEMMA WriteErrorInv == ASSUME IInv, WriteError PROVE IInv'
  BY DEF WriteError, IInv, TypeOK, NothingLost, InHand, Looked

\* The inductive invariant: the types, where each message is, and how much of it
\* was written when the writer last looked.
THEOREM Invariance == Spec => []IInv
<1>1. ASSUME IInv, [Next]_vars PROVE IInv'
  <2>1. CASE \E kind \in Kinds : Put(kind)
    BY <1>1, <2>1, PutInv
  <2>2. CASE stop
    BY <1>1, <2>2, LoopInv
  <2>3. CASE Write
    BY <1>1, <2>3, LoopInv, GetInv, WriteLogInv, WriteJsonInv DEF Write
  <2>4. CASE WriteError
    BY <1>1, <2>4, WriteErrorInv
  <2>5. CASE UNCHANGED vars
    BY <1>1, <2>5 DEF vars, IInv, TypeOK, NothingLost, InHand, Looked
  <2> QED
    BY <1>1, <2>1, <2>2, <2>3, <2>4, <2>5 DEF Next
<1> QED
  BY <1>1, IInit, PTL DEF Spec

\* The writer has a message in its hands exactly while it is to write one, so no
\* message is written twice or dropped between queue.get and the files.
THEOREM TypeCorrect == Spec => []TypeOK
<1>1. IInv => TypeOK
  BY DEF IInv
<1> QED
  BY <1>1, Invariance, PTL

\* Nothing put on log_q is lost, doubled or reordered on its way to output_log, not
\* even when a write to the json file fails.
THEOREM NothingIsLost == Spec => []NothingLost
<1>1. IInv => NothingLost
  BY DEF IInv
<1> QED
  BY <1>1, Invariance, PTL

\* stop() loses only what is put after the writer last found the queue empty.
THEOREM DrainedAtTheEnd == Spec => []EndsDrained
<1>1. IInv => EndsDrained
  BY DEF IInv, Looked, EndsDrained
<1> QED
  BY <1>1, Invariance, PTL
-----------------------------------------------------------------------------
(* The records of a log.                                                   *)

\* A nonempty set of numbers has a least one.
LEMMA LeastNumber ==
  ASSUME NEW S, S \subseteq Nat, S # {}
  PROVE  \E m \in S : \A k \in S : m <= k
<1> DEFINE R == OpToRel(<, Nat)
<1>1. \E x \in S : \A y \in S : ~ (<<y, x>> \in R)
  <2> HIDE DEF R
  <2> SUFFICES IsWellFoundedOn(R, Nat)
    BY WFMin
  <2> QED
    BY NatLessThanWellFounded DEF R
<1>2. PICK x \in S : \A y \in S : <<y, x>> \notin R
  BY <1>1
<1>3. ASSUME NEW y \in S PROVE x <= y
  <2>1. ~ (y < x)
    BY <1>2 DEF OpToRel
  <2> QED
    BY <2>1
<1> QED
  BY <1>3

\* One more message of a log, after the records kept so far.
Keeping(kept, m) == IF IsRecord(m) THEN Append(kept, m) ELSE kept

\* f counts up the records of s.
Counts(f, s) == /\ f \in [0 .. Len(s) -> Seq(Message)]
                /\ f[0] = << >>
                /\ \A k \in 1 .. Len(s) : f[k] = Keeping(f[k - 1], s[k])

\* Whatever counts up the records of a log and those of the log before its last
\* message agrees on the latter.
LEMMA CountsAgree ==
  ASSUME NEW s \in Seq(Message), NEW m \in Message, NEW f, Counts(f, s),
         NEW g, Counts(g, Append(s, m))
  PROVE  \A k \in 0 .. Len(s) : f[k] = g[k]
<1>1. PICK t : t = Append(s, m)
  OBVIOUS
<1>2. /\ Len(s) \in Nat /\ Len(t) = Len(s) + 1 /\ t[Len(s) + 1] = m
      /\ \A k \in 1 .. Len(s) : t[k] = s[k]
  BY <1>1
<1>3. /\ f[0] = << >> /\ \A k \in 1 .. Len(s) : f[k] = Keeping(f[k - 1], s[k])
      /\ g[0] = << >> /\ \A k \in 1 .. Len(t) : g[k] = Keeping(g[k - 1], t[k])
  BY <1>1 DEF Counts
<1> DEFINE Bad == {k \in 0 .. Len(s) : f[k] # g[k]}
<1>4. Bad \subseteq Nat
  BY <1>2
<1>5. ASSUME Bad # {} PROVE FALSE
  <2>1. PICK n \in Bad : \A k \in Bad : n <= k
    <3> HIDE DEF Bad
    <3> QED
      BY <1>4, <1>5, LeastNumber
  <2>2. n # 0
    BY <1>3, <2>1
  <2>3. n \in 1 .. Len(s) /\ n \in 1 .. Len(t) /\ n - 1 \in 0 .. Len(s) /\ ~ (n <= n - 1)
    BY <1>2, <2>1, <2>2
  <2>4. f[n - 1] = g[n - 1]
    BY <2>1, <2>3
  <2>5. f[n] = g[n]
    BY <1>2, <1>3, <2>3, <2>4
  <2> QED
    BY <2>1, <2>5
<1> QED
  BY <1>5

\* A log can be counted up.
LEMMA Countable ==
  ASSUME NEW s \in Seq(Message)
  PROVE  \E f : Counts(f, s)
<1> DEFINE N == Len(s)
           Upto(n) == \E f \in [0 .. n -> Seq(Message)] :
                        /\ f[0] = << >>
                        /\ \A k \in 1 .. n : f[k] = Keeping(f[k - 1], s[k])
           Missing == {n \in 0 .. N : ~ Upto(n)}
<1>1. N \in Nat /\ \A k \in 1 .. N : s[k] \in Message
  OBVIOUS
<1>2. Upto(0)
  <2> DEFINE f == [k \in 0 .. 0 |-> << >>]
  <2>1. << >> \in Seq(Message)
    OBVIOUS
  <2>2. f \in [0 .. 0 -> Seq(Message)] /\ f[0] = << >> /\ \A k \in 1 .. 0 : FALSE
    BY <2>1
  <2> HIDE DEF f
  <2> QED
    BY <2>2
<1>3. ASSUME NEW m \in 1 .. N, Upto(m - 1) PROVE Upto(m)
  <2>1. PICK f \in [0 .. (m - 1) -> Seq(Message)] :
          /\ f[0] = << >> /\ \A k \in 1 .. (m - 1) : f[k] = Keeping(f[k - 1], s[k])
    BY <1>3
  <2>2. PICK r : r = Keeping(f[m - 1], s[m])
    OBVIOUS
  <2>3. m \in Nat \ {0} /\ f[m - 1] \in Seq(Message) /\ s[m] \in Message
    BY <1>1
  <2>4. r \in Seq(Message)
    BY <2>2, <2>3 DEF Keeping
  <2> DEFINE g == [k \in 0 .. m |-> IF k = m THEN r ELSE f[k]]
  <2>5. g \in [0 .. m -> Seq(Message)]
    BY <2>3, <2>4
  <2>6. g[m] = r /\ \A k \in 0 .. (m - 1) : g[k] = f[k]
    BY <2>3
  <2> HIDE DEF g, N
  <2>7. g[0] = << >>
    BY <2>1, <2>3, <2>6
  <2>8. ASSUME NEW k \in 1 .. m PROVE g[k] = Keeping(g[k - 1], s[k])
    <3>1. CASE k = m
      BY <2>2, <2>3, <2>6, <3>1
    <3>2. CASE k # m
      <4>1. k \in 1 .. (m - 1) /\ k \in 0 .. (m - 1) /\ k - 1 \in 0 .. (m - 1)
        BY <2>3, <3>2
      <4> QED
        BY <2>1, <2>6, <4>1
    <3> QED
      BY <3>1, <3>2
  <2> QED
    BY <2>5, <2>7, <2>8
<1>4. Upto(N)
  <2> HIDE DEF Upto
  <2> SUFFICES ASSUME Missing # {} PROVE FALSE
    BY <1>1
  <2>1. Missing \subseteq Nat
    BY <1>1
  <2>2. PICK m \in Missing : \A k \in Missing : m <= k
    BY <2>1, LeastNumber
  <2>3. m \in 1 .. N /\ m - 1 \in 0 .. N /\ m - 1 \notin Missing
    BY <1>1, <1>2, <2>2
  <2> QED
    BY <1>3, <2>2, <2>3
<1> QED
  BY <1>4 DEF Counts

\* Records is where the counting ends.
LEMMA RecordsCounted ==
  ASSUME NEW s \in Seq(Message)
  PROVE  \E f : Counts(f, s) /\ Records(s) = f[Len(s)]
<1> DEFINE Is(f) == f = [n \in 0 .. Len(s) |->
                           IF n = 0 THEN << >>
                           ELSE IF IsRecord(s[n]) THEN Append(f[n - 1], s[n]) ELSE f[n - 1]]
<1>0. Len(s) \in Nat
  OBVIOUS
<1>1. PICK h : Counts(h, s)
  BY Countable
<1>2. Is(h)
  <2>1. /\ h \in [0 .. Len(s) -> Seq(Message)] /\ h[0] = << >>
        /\ \A k \in 1 .. Len(s) : h[k] = IF IsRecord(s[k]) THEN Append(h[k - 1], s[k]) ELSE h[k - 1]
    BY <1>1 DEF Counts, Keeping
  <2>2. \A n \in 0 .. Len(s) : n = 0 \/ n \in 1 .. Len(s)
    BY <1>0
  <2> QED
    BY <2>1, <2>2
<1> DEFINE f == CHOOSE g : Is(g)
<1>3. Is(f)
  <2> HIDE DEF Is
  <2> QED
    BY <1>2
<1>4. Records(s) = f[Len(s)]
  BY DEF Records
<1> HIDE DEF f
<1>5. /\ DOMAIN f = 0 .. Len(s) /\ f = [k \in 0 .. Len(s) |-> f[k]] /\ f[0] = << >>
      /\ \A k \in 1 .. Len(s) : f[k] = Keeping(f[k - 1], s[k])
  <2>1. DOMAIN f = 0 .. Len(s) /\ f = [k \in 0 .. Len(s) |-> f[k]]
    BY <1>3
  <2>2. \A k \in 0 .. Len(s) :
          f[k] = IF k = 0 THEN << >>
                 ELSE IF IsRecord(s[k]) THEN Append(f[k - 1], s[k]) ELSE f[k - 1]
    BY <1>3
  <2>3. 0 \in 0 .. Len(s) /\ \A k \in 1 .. Len(s) : k \in 0 .. Len(s) /\ k # 0
    BY <1>0
  <2> HIDE DEF Is
  <2> QED
    BY <2>1, <2>2, <2>3 DEF Keeping
<1> HIDE DEF Is
<1>6. \A k \in 0 .. Len(s) : f[k] \in Seq(Message)
  <2> DEFINE Bad == {k \in 0 .. Len(s) : f[k] \notin Seq(Message)}
  <2>1. Bad \subseteq Nat
    BY <1>0
  <2>2. ASSUME Bad # {} PROVE FALSE
    <3>1. PICK n \in Bad : \A k \in Bad : n <= k
      <4> HIDE DEF Bad
      <4> QED
        BY <2>1, <2>2, LeastNumber
    <3>2. << >> \in Seq(Message)
      OBVIOUS
    <3>3. n \in 1 .. Len(s) /\ n - 1 \in 0 .. Len(s) /\ ~ (n <= n - 1)
      <4>1. n \in 0 .. Len(s) /\ n # 0
        BY <1>5, <3>1, <3>2
      <4> QED
        BY <1>0, <4>1
    <3>4. f[n - 1] \in Seq(Message) /\ s[n] \in Message
      BY <3>1, <3>3
    <3>5. f[n] \in Seq(Message)
      <4>1. PICK old, m : old = f[n - 1] /\ m = s[n]
        OBVIOUS
      <4>2. f[n] = IF IsRecord(m) THEN Append(old, m) ELSE old
        BY ONLY <1>5, <3>3, <4>1 DEF Keeping
      <4> QED
        BY ONLY <3>4, <4>1, <4>2
    <3>6. n \in Bad
      BY <3>1
    <3> QED
      BY ONLY <3>5, <3>6
  <2> QED
    BY <2>2
<1>7. f \in [0 .. Len(s) -> Seq(Message)]
  BY <1>5, <1>6
<1>8. Counts(f, s)
  BY <1>5, <1>7 DEF Counts
<1> QED
  BY <1>4, <1>8

\* A log without messages has no records.
LEMMA NoRecords == Records(<< >>) = << >>
<1>1. << >> \in Seq(Message) /\ Len(<< >>) = 0
  OBVIOUS
<1>2. PICK f : Counts(f, << >>) /\ Records(<< >>) = f[0]
  BY <1>1, RecordsCounted
<1> QED
  BY <1>2 DEF Counts

\* A further message adds itself, if it is a record, behind those there are.
LEMMA RecordsAppend ==
  ASSUME NEW s \in Seq(Message), NEW m \in Message
  PROVE  /\ Records(s) \in Seq(Message)
         /\ Records(Append(s, m)) = Keeping(Records(s), m)
<1>1. PICK t : t = Append(s, m)
  OBVIOUS
<1>2. t \in Seq(Message) /\ Len(t) = Len(s) + 1 /\ Len(s) \in Nat /\ t[Len(s) + 1] = m
  BY <1>1
<1>3. PICK f : Counts(f, s) /\ Records(s) = f[Len(s)]
  BY RecordsCounted
<1>4. PICK g : Counts(g, t) /\ Records(t) = g[Len(t)]
  BY <1>2, RecordsCounted
<1>5. f[Len(s)] = g[Len(s)]
  BY <1>1, <1>2, <1>3, <1>4, CountsAgree
<1>6. g[Len(s) + 1] = Keeping(g[Len(s)], m)
  <2>1. Len(s) + 1 \in 1 .. Len(t) /\ (Len(s) + 1) - 1 = Len(s)
    BY <1>2
  <2>2. \A k \in 1 .. Len(t) : g[k] = Keeping(g[k - 1], t[k])
    BY <1>4 DEF Counts
  <2> QED
    BY <1>2, <2>1, <2>2
<1>7. f[Len(s)] \in Seq(Message)
  BY <1>2, <1>3 DEF Counts
<1> QED
  BY <1>1, <1>2, <1>3, <1>4, <1>5, <1>6, <1>7

-----------------------------------------------------------------------------
(* The two files.                                                          *)

\* Only a record goes on to output_json.
TakenInv == Between # << >> => IsRecord(taken[1])

FilesInv == TypeOK /\ TakenInv /\ FilesAgree

\* Steps that write to neither file, and take none in between.
LEMMA FilesUnchanged ==
  ASSUME FilesInv, TypeOK', UNCHANGED <<output_log, output_json>>,
         Between' = Between, Between # << >> => taken' = taken
  PROVE  FilesInv'
BY DEF FilesInv, TakenInv, FilesAgree

\* A record goes to both files, and a line to the first alone.
LEMMA WriteLogFiles == ASSUME FilesInv, TypeOK', WriteLog PROVE FilesInv'
<1>1. /\ output_log \in Seq(Message) /\ output_json \in Seq(Message) /\ taken \in Seq(Message)
      /\ Len(taken) = 1 /\ Between = << >> /\ Records(output_log) = output_json \o << >>
      /\ output_log' = output_log \o taken /\ output_json' = output_json
      /\ IF IsRecord(taken[1]) THEN writer' = "json" /\ taken' = taken
                               ELSE writer' = "test" /\ taken' = << >>
  BY DEF FilesInv, TypeOK, WriteLog, FilesAgree, Between
<1>a. PICK held, m : held = taken /\ m = held[1]
  OBVIOUS
<1>b. held \in Seq(Message) /\ Len(held) = 1
  BY <1>1, <1>a
<1>2. m = taken[1]
  BY <1>a
<1>3. m \in Message /\ taken = <<m>>
  <2>1. m \in Message /\ held = <<m>>
    BY <1>a, <1>b
  <2> QED
    BY <1>a, <2>1
<1>4. output_log' = Append(output_log, m) /\ output_json \o << >> = output_json
  BY <1>1, <1>3
<1>5. Records(output_log') = Keeping(output_json, m)
  <2>1. Records(Append(output_log, m)) = Keeping(Records(output_log), m)
    BY <1>1, <1>3, RecordsAppend
  <2> QED
    BY <1>1, <1>4, <2>1
<1>6. CASE IsRecord(m)
  <2>1. Between' = <<m>> /\ taken' = <<m>>
    BY <1>1, <1>2, <1>3, <1>6 DEF Between
  <2>2. Append(output_json, m) = output_json \o <<m>>
    BY <1>1, <1>3
  <2> QED
    BY <1>1, <1>3, <1>5, <1>6, <2>1, <2>2 DEF FilesInv, TakenInv, FilesAgree, Keeping
<1>7. CASE ~ IsRecord(m)
  <2>1. Between' = << >>
    BY <1>1, <1>2, <1>7 DEF Between
  <2> QED
    BY <1>1, <1>4, <1>5, <1>7, <2>1 DEF FilesInv, TakenInv, FilesAgree, Keeping
<1> QED
  BY <1>6, <1>7

\* The record in between arrives.
LEMMA WriteJsonFiles == ASSUME FilesInv, TypeOK', WriteJson PROVE FilesInv'
<1>1. /\ output_json' \in Seq(Message) /\ Between = taken /\ output_json' = output_json \o taken
      /\ output_log' = output_log /\ Between' = << >>
  BY DEF FilesInv, TypeOK, WriteJson, Between
<1>2. output_json' \o << >> = output_json'
  BY <1>1
<1> QED
  BY <1>1, <1>2 DEF FilesInv, TakenInv, FilesAgree

\* The json file has each record that the log has, once and in the order of the
\* log, but for the one in between, which a writer that died will never write.
THEOREM FilesHaveTheSame == Spec => []FilesAgree
<1>1. Init => FilesInv
  <2> SUFFICES ASSUME Init PROVE FilesInv
    OBVIOUS
  <2>1. TypeOK /\ Between = << >> /\ output_log = << >> /\ output_json = << >>
    BY IInit DEF Init, IInv, Between
  <2>2. << >> \o << >> = << >>
    OBVIOUS
  <2> QED
    BY <2>1, <2>2, NoRecords DEF FilesInv, TakenInv, FilesAgree
<1>2. FilesInv /\ TypeOK' /\ [Next]_vars => FilesInv'
  <2> SUFFICES ASSUME FilesInv, TypeOK', [Next]_vars PROVE FilesInv'
    OBVIOUS
  <2>1. CASE WriteLog
    BY <2>1, WriteLogFiles
  <2>2. CASE WriteJson
    BY <2>2, WriteJsonFiles
  <2>3. CASE \/ (\E kind \in Kinds : Put(kind)) \/ stop \/ FindQueued \/ FindEmpty
             \/ SeeProcess \/ Get \/ GetTimeout \/ WriteError \/ UNCHANGED vars
    <3>1. UNCHANGED <<output_log, output_json>>
      BY <2>3 DEF Put, stop, FindQueued, FindEmpty, SeeProcess, Get, GetTimeout, WriteError, vars
    <3>2. Between' = Between /\ (Between # << >> => taken' = taken)
      BY <2>3 DEF Put, stop, FindQueued, FindEmpty, SeeProcess, Get, GetTimeout, WriteError, vars,
                  Between, FilesInv, TypeOK
    <3> QED
      BY <3>1, <3>2, FilesUnchanged
  <2> QED
    BY <2>1, <2>2, <2>3 DEF Next, Write
<1>3. FilesInv => FilesAgree
  BY DEF FilesInv
<1> QED
  BY <1>1, <1>2, <1>3, TypeCorrect, PTL DEF Spec
=============================================================================
