------------------------------ MODULE ClientLog ------------------------------
(***************************************************************************)
(* What one run of the line client promises whoever writes its commands    *)
(* and reads its output (semantic-shell, README.md and shell.go:56-102):   *)
(* one numbered log that tells what came of every operation, and a result  *)
(* that can be read off the log.  Nothing is said of goroutines, queues,   *)
(* the mutex or the context: SemanticShell implements this with them.      *)
(***************************************************************************)
EXTENDS Naturals, Sequences

CONSTANTS
  Lanes,         \* the lanes of operations
  Operations,    \* numbers of operations
  Revisions      \* revisions of what the session sends

Answers      == {"result", "perform_failed", "invalid_result"}
StreamErrors == {"receive_failed", "invalid_update"}
LastWords    == {"quit", "input_failed"}

VARIABLES
  log,          \* the records written
  attempted,    \* [Lanes -> the operations the session was asked for]
  broken,       \* the output has failed
  result        \* what the run returned

logVars == <<log, attempted, broken, result>>

Init ==
  /\ log = << >> /\ broken = FALSE /\ result = "running"
  /\ attempted = [lane \in Lanes |-> << >>]

Tells(types)        == \E i \in DOMAIN log : log[i].type \in types
TellsOf(types, of)  == \E i \in DOMAIN log : log[i].type \in types /\ log[i].of = of
IsAbove(of, type)   == \A i \in DOMAIN log : log[i].type = type => log[i].of < of
Attempted(lane, op) == \E k \in DOMAIN attempted[lane] : attempted[lane][k] = op

(* Every record has the next number, also the one that is cut short. *)
Numbered(type, of) ==
  log' = Append(log, [type |-> type, of |-> of, sequence |-> Len(log) + 1])

Write(type, of) ==
  /\ result = "running" /\ ~broken
  /\ Numbered(type, of)
  /\ UNCHANGED <<attempted, broken, result>>

(* The session is asked for an operation, after the earlier ones of the     *)
(* lane and only when the log has told of them; never for one that was      *)
(* refused, and never twice.                                                *)
Attempt(lane, op) ==
  /\ result = "running"
  /\ \A other \in Lanes : ~Attempted(other, op)
  /\ ~TellsOf({"queue_full"}, op)
  /\ \A k \in DOMAIN attempted[lane] :
       attempted[lane][k] < op /\ (broken \/ TellsOf(Answers, attempted[lane][k]))
  /\ attempted' = [attempted EXCEPT ![lane] = Append(@, op)]
  /\ UNCHANGED <<log, broken, result>>

(* What came of the last attempt of the lane is told once. *)
Answer(lane, op, type) ==
  /\ attempted[lane] # << >> /\ op = attempted[lane][Len(attempted[lane])]
  /\ ~TellsOf(Answers, op)
  /\ Write(type, op)

(* A view is newer than all before it, and the stream has not failed. *)
Show(revision) ==
  /\ ~Tells(StreamErrors)
  /\ IsAbove(revision, "view")
  /\ Write("view", revision)

StreamFails(type) == ~Tells(StreamErrors) /\ Write(type, 0)

(* Commands are commented until the last word: a quit or a failed input. *)
Listening == ~Tells(LastWords)

Refuse(op) ==
  /\ Listening
  /\ IsAbove(op, "queue_full")
  /\ \A lane \in Lanes : ~Attempted(lane, op)
  /\ Write("queue_full", op)

Complain == Listening /\ Write("invalid_command", 0)

Conclude(type) == Listening /\ Write(type, 0)

(* The output fails, at once or in the middle of a record. *)
Break ==
  /\ result = "running" /\ ~broken
  /\ broken' = TRUE
  /\ \/ UNCHANGED log
     \/ \E of \in Operations \cup Revisions \cup {0} : Numbered("cut", of)
  /\ UNCHANGED <<attempted, result>>

(* The result is what the log says. *)
Verdict ==
  IF broken THEN "ErrOutput"
  ELSE IF Tells(StreamErrors) THEN "ErrSessionReceive"
  ELSE IF Tells({"input_failed"}) THEN "ErrInput"
  ELSE "nil"

Return ==
  /\ result = "running"
  /\ result' = Verdict
  /\ UNCHANGED <<log, attempted, broken>>

Next ==
  \/ \E lane \in Lanes, op \in Operations :
       Attempt(lane, op) \/ \E type \in Answers : Answer(lane, op, type)
  \/ \E revision \in Revisions : Show(revision)
  \/ \E type \in StreamErrors : StreamFails(type)
  \/ \E op \in Operations : Refuse(op)
  \/ Complain
  \/ \E type \in LastWords : Conclude(type)
  \/ Break
  \/ Return

Spec == Init /\ [][Next]_logVars
=============================================================================
