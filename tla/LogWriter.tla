----------------------------- MODULE LogWriter -----------------------------
(***************************************************************************)
(* src/logger/logwrite.py: threads put log lines and attack records on     *)
(* log_q, and the OutputWriter thread takes them off and writes lines to   *)
(* the log file and records to the log and the json file, until stop() is  *)
(* called and it finds the queue empty.  Which levels output_log then      *)
(* leaves out of its file is not modelled.                                 *)
(***************************************************************************)
EXTENDS Naturals, Sequences

CONSTANT MaxPuts   \* bound: messages put, by whichever thread

ASSUME BoundAssumption == MaxPuts \in Nat

\* A message is a line (a tuple on the queue) or a record (a dict).
Kinds == {"line", "record"}
Message == [kind : Kinds, nr : Nat]

VARIABLES
  log_q,      \* the queue
  process,    \* cleared by stop()
  put,        \* history: all that was put, in order
  writer,     \* where OutputWriter.run is
  taken,      \* the message it has taken off the queue, in a sequence
  output_log, output_json,  \* what each output's write() was given
  checked     \* history: how much had been put when it last asked log_q.empty()

vars == <<log_q, process, put, writer, taken, output_log, output_json, checked>>

IsRecord(m) == m.kind = "record"

-----------------------------------------------------------------------------
(* Faulty variants.                                                        *)

\* Put: a LIFO queue.
FaultyPut(kind) ==
  LET m == [kind |-> kind, nr |-> Len(put) + 1]
  IN /\ Len(put) < MaxPuts
     /\ log_q' = <<m>> \o log_q
     /\ put' = Append(put, m)
     /\ UNCHANGED <<process, writer, taken, output_log, output_json, checked>>

\* FindQueued: `while not log_q.empty() and self.process', found out at the test.
FaultyFindQueued ==
  /\ writer = "test"
  /\ log_q # << >>
  /\ checked' = Len(put)
  /\ writer' = IF process THEN "get" ELSE "ended"
  /\ UNCHANGED <<log_q, process, put, taken, output_log, output_json>>

\* WriteLog: lines go to both files.
FaultyWriteLog ==
  /\ writer = "log"
  /\ output_log' = output_log \o taken
  /\ writer' = "json"
  /\ UNCHANGED <<log_q, process, put, taken, output_json, checked>>

\* GetTimeout: `pass' where the loop has `continue'.
FaultyGetTimeout ==
  /\ writer = "get"
  /\ log_q = << >>
  /\ writer' = "log"
  /\ UNCHANGED <<log_q, process, put, taken, output_log, output_json, checked>>

\* SeeProcess: `while True'.
FaultySeeProcess ==
  /\ writer = "process"
  /\ writer' = "get"
  /\ UNCHANGED <<log_q, process, put, taken, output_log, output_json, checked>>

-----------------------------------------------------------------------------
(* OutputLogger, called by any thread: debug, info, error, write.          *)

Put(kind) ==
  LET m == [kind |-> kind, nr |-> Len(put) + 1]
  IN /\ Len(put) < MaxPuts
     /\ log_q' = Append(log_q, m)
     /\ put' = Append(put, m)
     /\ UNCHANGED <<process, writer, taken, output_log, output_json, checked>>

stop ==
  /\ process
  /\ process' = FALSE
  /\ UNCHANGED <<log_q, put, writer, taken, output_log, output_json, checked>>

-----------------------------------------------------------------------------
(* OutputWriter.run.  The loop's condition reads the queue, then process.  *)

FindQueued ==
  /\ writer = "test"
  /\ log_q # << >>
  /\ checked' = Len(put)
  /\ writer' = "get"
  /\ UNCHANGED <<log_q, process, put, taken, output_log, output_json>>

FindEmpty ==
  /\ writer = "test"
  /\ log_q = << >>
  /\ checked' = Len(put)
  /\ writer' = "process"
  /\ UNCHANGED <<log_q, process, put, taken, output_log, output_json>>

SeeProcess ==
  /\ writer = "process"
  /\ writer' = IF process THEN "get" ELSE "ended"
  /\ UNCHANGED <<log_q, process, put, taken, output_log, output_json, checked>>

Get ==
  /\ writer = "get"
  /\ log_q # << >>
  /\ taken' = <<Head(log_q)>>
  /\ log_q' = Tail(log_q)
  /\ writer' = "log"
  /\ UNCHANGED <<process, put, output_log, output_json, checked>>

\* get(timeout=.1) finds nothing in time: Queue.Empty.
GetTimeout ==
  /\ writer = "get"
  /\ log_q = << >>
  /\ writer' = "test"
  /\ UNCHANGED <<log_q, process, put, taken, output_log, output_json, checked>>

\* output_log is the first of the writers; only a record goes on to output_json.
WriteLog ==
  /\ writer = "log"
  /\ output_log' = output_log \o taken
  /\ IF IsRecord(taken[1])
     THEN writer' = "json" /\ taken' = taken
     ELSE writer' = "test" /\ taken' = << >>
  /\ UNCHANGED <<log_q, process, put, output_json, checked>>

WriteJson ==
  /\ writer = "json"
  /\ output_json' = output_json \o taken
  /\ writer' = "test"
  /\ taken' = << >>
  /\ UNCHANGED <<log_q, process, put, output_log, checked>>

\* Opening or writing the json file raises: nothing catches it and the thread is
\* gone.  Errors of the log file are swallowed by the logging package.
WriteError ==
  /\ writer = "json"
  /\ writer' = "dead"
  /\ UNCHANGED <<log_q, process, put, taken, output_log, output_json, checked>>

-----------------------------------------------------------------------------
Init ==
  /\ log_q = << >> /\ put = << >>
  /\ process = TRUE
  /\ writer = "test" /\ taken = << >> /\ checked = 0
  /\ output_log = << >> /\ output_json = << >>

Write == FindQueued \/ FindEmpty \/ SeeProcess \/ Get \/ GetTimeout
           \/ WriteLog \/ WriteJson

Next == \/ \E kind \in Kinds : Put(kind)
        \/ stop
        \/ Write
        \/ WriteError

Spec == Init /\ [][Next]_vars

\* The writer's thread runs; nobody has to log or to stop it.
FairSpec == Spec /\ WF_vars(Write)

-----------------------------------------------------------------------------
TypeOK ==
  /\ log_q \in Seq(Message)
  /\ put \in Seq(Message)
  /\ output_log \in Seq(Message)
  /\ output_json \in Seq(Message)
  /\ process \in BOOLEAN
  /\ checked \in Nat
  /\ \/ writer \in {"test", "process", "get", "ended"} /\ taken = << >>
     \/ /\ writer \in {"log", "json", "dead"}
        /\ taken \in Seq(Message) /\ Len(taken) = 1

\* What was taken off the queue and not yet given to output_log.
InHand == IF writer \in {"json", "dead"} THEN << >> ELSE taken

\* Nothing put is lost, doubled or reordered on its way to output_log: what it was
\* given, what is in the writer's hands and on the queue is what was put, in order.
NothingLost == put = output_log \o InHand \o log_q

\* The records in s, in their order.
Records(s) ==
  LET upTo[n \in 0 .. Len(s)] ==
        IF n = 0 THEN << >>
        ELSE IF IsRecord(s[n]) THEN Append(upTo[n - 1], s[n]) ELSE upTo[n - 1]
  IN upTo[Len(s)]

\* A record that output_log has and output_json has not.
Between == IF writer \in {"json", "dead"} THEN taken ELSE << >>

\* output_json was given the records output_log was, except the one in between.
FilesAgree == Records(output_log) = output_json \o Between

\* A writer that has ended has written all that was put when it last looked; what
\* it leaves on the queue came in between that look and its reading of process.
EndsDrained == writer = "ended" => Len(output_log) = checked

\* Once stopped, the writer ends, or has died of a write error.
WriterEnds == ~ process ~> writer \in {"ended", "dead"}
=============================================================================
