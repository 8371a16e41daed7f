---------------------------- MODULE SemanticShell ----------------------------
(***************************************************************************)
(* One call of Shell.Run of the line-oriented client (semantic-shell,      *)
(* shell.go): four goroutines around one Session.                          *)
(*                                                                         *)
(*   "input"     readCommands, in the goroutine of Run itself              *)
(*   "receive"   receiveLoop, the only caller of Session.Receive           *)
(*   "ordinary"  performLoop for submit and respond                        *)
(*   "cancels"   performLoop for cancel                                    *)
(*                                                                         *)
(* They share the context of the run, the two bounded queues and the       *)
(* record emitter with its mutex, which is held while a record is written. *)
(* Session, input and output may fail, panic or stall at any call.         *)
(***************************************************************************)
EXTENDS Naturals, Sequences, SequencesExt

CONSTANTS
  Depth,          \* [Lanes -> the capacity of the queue]
  MaxLines,       \* bound: lines the input delivers
  Updates,        \* what Session.Receive may return: kind and revision
  InputPanics,    \* the reader may panic
  Replies         \* how a call of Perform may end: records of it

Lanes   == {"ordinary", "cancels"}
Workers == {"input", "receive"} \cup Lanes

(* Records that answer an operation, and errors that end the run. *)
Answers == {"result", "perform_failed", "invalid_result"}
Fatal   == {"input_failed", "receive_failed", "invalid_update"}

ASSUME SemanticShellAssumption ==
  /\ Depth \in [Lanes -> Nat \ {0}]
  /\ MaxLines \in Nat
  /\ Updates \subseteq {"snapshot", "change", "invalid"} \X Nat
  /\ InputPanics \in BOOLEAN
  /\ Replies \subseteq Answers

VARIABLES
  ctx,          \* the context of the run is done
  closed,       \* the input was closed, so that a blocked read returns
  lines,        \* lines read
  operationID,  \* the number of the last command that named an operation
  queue,        \* [Lanes -> operations waiting]
  calls,        \* [Lanes -> operations Session.Perform was called with]
  shown,        \* semanticState: its revision, 0 before the first snapshot
  pc,           \* [Workers -> where the goroutine stands]
  record,       \* [Workers -> the record it is about to emit]
  lock,         \* who holds the mutex of the emitter
  failure,      \* the emitter has failed
  sequence,     \* the number of the last record
  output,       \* the records written; the last one may be cut short
  terminal,     \* the error in the channel of that name
  inputErr,     \* what readCommands returned
  outcome       \* what Run returned

emitVars  == <<lock, failure, sequence, output>>
inputVars == <<closed, lines, operationID, inputErr>>
vars == <<ctx, inputVars, queue, calls, shown, pc, record, emitVars, terminal, outcome>>

NoOne == "none"

Types   == Answers \cup Fatal \cup {"view", "quit", "invalid_command", "queue_full", "cut"}

(* `of' is the operation or the revision the record is about. *)
Record(type, of) == [type |-> type, of |-> of, sequence |-> 0]

TypeOK ==
  /\ ctx \in BOOLEAN /\ closed \in BOOLEAN /\ failure \in BOOLEAN
  /\ lines \in 0..MaxLines /\ operationID \in 0..lines /\ sequence \in Nat
  /\ queue \in [Lanes -> Seq(Nat)] /\ calls \in [Lanes -> Seq(Nat)]
  /\ \A lane \in Lanes : Len(queue[lane]) <= Depth[lane]
  /\ shown \in Nat
  /\ pc \in [Workers -> {"ready", "calling", "emit", "write", "signal", "stop", "join", "done"}]
  /\ record \in [Workers -> [type : Types, of : Nat, sequence : Nat]]
  /\ output \in Seq([type : Types, of : Nat, sequence : Nat])
  /\ lock \in Workers \cup {NoOne}
  /\ terminal \in {"nil", "ErrSessionReceive"} /\ inputErr \in {"nil", "ErrInput"}
  /\ outcome \in {"running", "nil", "ErrOutput", "ErrSessionReceive", "ErrInput"}

Init ==
  /\ ctx = FALSE /\ closed = FALSE /\ lines = 0 /\ operationID = 0
  /\ queue = [lane \in Lanes |-> << >>] /\ calls = [lane \in Lanes |-> << >>]
  /\ shown = 0
  /\ pc = [w \in Workers |-> "ready"]
  /\ record = [w \in Workers |-> Record("view", 0)]
  /\ lock = NoOne /\ failure = FALSE /\ sequence = 0 /\ output = << >>
  /\ terminal = "nil" /\ inputErr = "nil" /\ outcome = "running"

Goto(w, place) == pc' = [pc EXCEPT ![w] = place]

-----------------------------------------------------------------------------
(* The record emitter *)

(* The goroutine asks for the mutex of the emitter. *)
Emit(w, type, of) ==
  /\ Goto(w, "emit")
  /\ record' = [record EXCEPT ![w] = Record(type, of)]

(* A seeded defect: quit prints its record and reads on. *)
AfterReading(type) ==
  CASE type = "input_failed"                        -> "stop"
    [] type \in {"receive_failed", "invalid_update"} -> "signal"
    [] OTHER                                         -> "ready"

(* A seeded defect: an update that is refused is passed over. *)
AfterReceiving(type) ==
  CASE type \in {"quit", "input_failed"} -> "stop"
    [] type = "receive_failed"           -> "signal"
    [] OTHER                             -> "ready"

(* Where a goroutine goes on after it has emitted a record. *)
After(type) ==
  CASE type \in {"quit", "input_failed"}            -> "stop"
    [] type \in {"receive_failed", "invalid_update"} -> "signal"
    [] OTHER                                         -> "ready"

(* A seeded defect: the failure of the output is not looked at. *)
LockAnyway(w) ==
  /\ pc[w] = "emit" /\ lock = NoOne
  /\ Goto(w, "write")
  /\ lock' = w
  /\ sequence' = sequence + 1
  /\ record' = [record EXCEPT ![w].sequence = sequence']
  /\ UNCHANGED <<ctx, inputVars, queue, calls, shown, failure, output, terminal, outcome>>

(* With the mutex: nothing more is written once the emitter has failed. *)
Lock(w) ==
  /\ pc[w] = "emit" /\ lock = NoOne
  /\ IF failure
     THEN /\ Goto(w, After(record[w].type))
          /\ UNCHANGED <<record, lock, sequence>>
     ELSE /\ Goto(w, "write")
          /\ lock' = w
          /\ sequence' = sequence + 1
          /\ record' = [record EXCEPT ![w].sequence = sequence']
  /\ UNCHANGED <<ctx, inputVars, queue, calls, shown, failure, output, terminal, outcome>>

Written(w) ==
  /\ pc[w] = "write"
  /\ output' = Append(output, record[w])
  /\ lock' = NoOne
  /\ Goto(w, After(record[w].type))
  /\ UNCHANGED <<ctx, inputVars, queue, calls, shown, record, failure, sequence, terminal, outcome>>

(* A failed write may leave a part of the record; a record that is too long *)
(* leaves nothing.                                                          *)
WriteFails(w) ==
  /\ pc[w] = "write"
  /\ \/ output' = Append(output, [record[w] EXCEPT !.type = "cut"])
     \/ UNCHANGED output
  /\ failure' = TRUE /\ ctx' = TRUE
  /\ lock' = NoOne
  /\ Goto(w, After(record[w].type))
  /\ UNCHANGED <<inputVars, queue, calls, shown, record, sequence, terminal, outcome>>

-----------------------------------------------------------------------------
(* readCommands and the rest of Run *)

Reading == pc["input"] = "ready"

ReadLine ==
  /\ Reading
  /\ lines < MaxLines
  /\ lines' = lines + 1
  /\ UNCHANGED <<ctx, closed, inputErr, calls, shown, emitVars, terminal, outcome>>

InvalidCommand ==
  /\ ReadLine
  /\ Emit("input", "invalid_command", 0)
  /\ UNCHANGED <<operationID, queue>>

Quit ==
  /\ ReadLine
  /\ Emit("input", "quit", 0)
  /\ UNCHANGED <<operationID, queue>>

HasRoom(lane) == Len(queue[lane]) < Depth[lane]

(* A seeded defect: a refused command still waits for its turn. *)
CommandKeepsRefused(lane) ==
  /\ ReadLine
  /\ operationID' = operationID + 1
  /\ queue' = [queue EXCEPT ![lane] = Append(@, operationID')]
  /\ IF HasRoom(lane)
     THEN UNCHANGED <<pc, record>>
     ELSE Emit("input", "queue_full", operationID')

(* A command for one of the lanes; the select takes any branch that is ready. *)
Command(lane) ==
  /\ ReadLine
  /\ operationID' = operationID + 1
  /\ \/ /\ HasRoom(lane)
        /\ queue' = [queue EXCEPT ![lane] = Append(@, operationID')]
        /\ UNCHANGED <<pc, record>>
     \/ /\ ctx
        /\ Goto("input", "stop")
        /\ UNCHANGED <<queue, record>>
     \/ /\ ~HasRoom(lane) /\ ~ctx
        /\ Emit("input", "queue_full", operationID')
        /\ UNCHANGED queue

(* End of file, or any read error once the context is done. *)
EndOfInput ==
  /\ Reading
  /\ Goto("input", "stop")
  /\ UNCHANGED <<ctx, inputVars, queue, calls, shown, record, emitVars, terminal, outcome>>

(* A read error, a line too long, or a panic of the reader. *)
InputFails ==
  /\ Reading
  /\ ~ctx \/ InputPanics
  /\ Emit("input", "input_failed", 0)
  /\ inputErr' = "ErrInput"
  /\ UNCHANGED <<ctx, closed, lines, operationID, queue, calls, shown, emitVars, terminal, outcome>>

(* Run cancels its context and waits for the three workers. *)
StopWorkers ==
  /\ pc["input"] = "stop"
  /\ ctx' = TRUE
  /\ Goto("input", "join")
  /\ UNCHANGED <<inputVars, queue, calls, shown, record, emitVars, terminal, outcome>>

WorkersDone == \A w \in Workers \ {"input"} : pc[w] = "done"

(* A seeded defect: Run does not wait for its workers. *)
ReturnEarly ==
  /\ pc["input"] = "join"
  /\ outcome' = IF failure THEN "ErrOutput"
                ELSE IF terminal # "nil" THEN terminal ELSE inputErr
  /\ closed' = TRUE
  /\ Goto("input", "done")
  /\ UNCHANGED <<ctx, lines, operationID, inputErr, queue, calls, shown, record, emitVars, terminal>>

Return ==
  /\ pc["input"] = "join" /\ WorkersDone
  /\ outcome' = IF failure THEN "ErrOutput"
                ELSE IF terminal # "nil" THEN terminal ELSE inputErr
  /\ closed' = TRUE
  /\ Goto("input", "done")
  /\ UNCHANGED <<ctx, lines, operationID, inputErr, queue, calls, shown, record, emitVars, terminal>>

(* A seeded defect: the input is only closed when Run has returned. *)
CloseInputLate ==
  /\ outcome # "running" /\ ~closed
  /\ closed' = TRUE
  /\ UNCHANGED <<ctx, lines, operationID, inputErr, queue, calls, shown, pc, record,
                 emitVars, terminal, outcome>>

(* context.AfterFunc of the run's context. *)
CloseInput ==
  /\ ctx /\ ~closed
  /\ closed' = TRUE
  /\ UNCHANGED <<ctx, lines, operationID, inputErr, queue, calls, shown, pc, record,
                 emitVars, terminal, outcome>>

CallerCancels ==
  /\ outcome = "running" /\ ~ctx
  /\ ctx' = TRUE
  /\ UNCHANGED <<inputVars, queue, calls, shown, pc, record, emitVars, terminal, outcome>>

-----------------------------------------------------------------------------
(* receiveLoop *)

(* A seeded defect: a revision may come twice. *)
AcceptsTwice(kind, revision) ==
  /\ kind # "invalid"
  /\ revision >= shown
  /\ kind = "snapshot" \/ shown > 0

(* semanticState.apply: whether it accepts the update. *)
Accepts(kind, revision) ==
  /\ kind # "invalid"
  /\ revision > shown
  /\ kind = "snapshot" \/ shown > 0

CallReceive ==
  /\ pc["receive"] = "ready"
  /\ Goto("receive", "calling")
  /\ UNCHANGED <<ctx, inputVars, queue, calls, shown, record, emitVars, terminal, outcome>>

Receive(kind, revision) ==
  /\ pc["receive"] = "calling"
  /\ IF Accepts(kind, revision)
     THEN /\ shown' = revision
          /\ Emit("receive", "view", revision)
     ELSE /\ Emit("receive", "invalid_update", 0)
          /\ UNCHANGED shown
  /\ UNCHANGED <<ctx, inputVars, queue, calls, emitVars, terminal, outcome>>

ReceiveFails ==
  /\ pc["receive"] = "calling"
  /\ IF ctx
     THEN Goto("receive", "done") /\ UNCHANGED record
     ELSE Emit("receive", "receive_failed", 0)
  /\ UNCHANGED <<ctx, inputVars, queue, calls, shown, emitVars, terminal, outcome>>

Signal ==
  /\ pc["receive"] = "signal"
  /\ terminal' = "ErrSessionReceive"
  /\ Goto("receive", "stop")
  /\ UNCHANGED <<ctx, inputVars, queue, calls, shown, record, emitVars, outcome>>

StopReceiving ==
  /\ pc["receive"] = "stop"
  /\ ctx' = TRUE
  /\ Goto("receive", "done")
  /\ UNCHANGED <<inputVars, queue, calls, shown, record, emitVars, terminal, outcome>>

-----------------------------------------------------------------------------
(* performLoop *)

(* A seeded defect: one goroutine serves both queues. *)
TakeInTurn(lane) ==
  /\ \A other \in Lanes : pc[other] \in {"ready", "done"}
  /\ queue[lane] # << >>
  /\ calls' = [calls EXCEPT ![lane] = Append(@, Head(queue[lane]))]
  /\ queue' = [queue EXCEPT ![lane] = Tail(@)]
  /\ Goto(lane, "calling")
  /\ UNCHANGED <<ctx, inputVars, shown, record, emitVars, terminal, outcome>>

Take(lane) ==
  /\ pc[lane] = "ready"
  /\ queue[lane] # << >>
  /\ calls' = [calls EXCEPT ![lane] = Append(@, Head(queue[lane]))]
  /\ queue' = [queue EXCEPT ![lane] = Tail(@)]
  /\ Goto(lane, "calling")
  /\ UNCHANGED <<ctx, inputVars, shown, record, emitVars, terminal, outcome>>

Leave(lane) ==
  /\ pc[lane] = "ready"
  /\ ctx
  /\ Goto(lane, "done")
  /\ UNCHANGED <<ctx, inputVars, queue, calls, shown, record, emitVars, terminal, outcome>>

(* A seeded defect: a failed call is passed over in silence. *)
AnsweredQuietly(lane) ==
  /\ pc[lane] = "calling"
  /\ \/ Goto(lane, IF ctx THEN "done" ELSE "ready") /\ UNCHANGED record
     \/ ~ctx /\ Emit(lane, "result", Last(calls[lane]))
  /\ UNCHANGED <<ctx, inputVars, queue, calls, shown, emitVars, terminal, outcome>>

(* The call came back; nobody is told once the context is done. *)
Answered(lane) ==
  /\ pc[lane] = "calling"
  /\ IF ctx
     THEN Goto(lane, "done") /\ UNCHANGED record
     ELSE \E type \in Replies : Emit(lane, type, Last(calls[lane]))
  /\ UNCHANGED <<ctx, inputVars, queue, calls, shown, emitVars, terminal, outcome>>

-----------------------------------------------------------------------------
Finished == outcome # "running" /\ closed /\ UNCHANGED vars

Next ==
  \/ \E w \in Workers : Lock(w) \/ Written(w) \/ WriteFails(w)
  \/ InvalidCommand \/ Quit \/ (\E lane \in Lanes : Command(lane))
  \/ EndOfInput \/ InputFails \/ StopWorkers \/ Return \/ CloseInput \/ CallerCancels
  \/ CallReceive \/ \E update \in Updates : Receive(update[1], update[2])
  \/ ReceiveFails \/ Signal \/ StopReceiving
  \/ \E lane \in Lanes : Take(lane) \/ Leave(lane) \/ Answered(lane)
  \/ Finished

Spec == Init /\ [][Next]_vars

(* What the runtime, a writable output and a session that honours the       *)
(* context bring about.  Goroutines that can go on do, a mutex is handed on *)
(* to those that wait, a closed input ends a blocked read, and calls of     *)
(* Receive and Perform return once the context is done.  Before that, no    *)
(* call need ever return.                                                   *)
Fairness ==
  /\ \A w \in Workers : WF_vars(Lock(w)) /\ WF_vars(Written(w) \/ WriteFails(w))
  /\ WF_vars(StopWorkers) /\ WF_vars(Return) /\ WF_vars(CloseInput)
  /\ WF_vars(CallReceive) /\ WF_vars(Signal) /\ WF_vars(StopReceiving)
  /\ WF_vars(closed /\ EndOfInput)
  /\ WF_vars(ctx /\ ReceiveFails)
  /\ \A lane \in Lanes : WF_vars(Take(lane) \/ Leave(lane)) /\ WF_vars(ctx /\ Answered(lane))

(* The session answers a request to cancel, a submission perhaps never. *)
AnswersCancels == WF_vars(Answered("cancels"))

FairSpec == Spec /\ Fairness /\ AnswersCancels

-----------------------------------------------------------------------------
(* Records numbered without a gap, also when two goroutines emit at once    *)
(* and after an output failure (README.md of the experiment: "a strictly    *)
(* increasing sequence"; shell.go:351-371).                                 *)
SequenceIsContiguous == \A i \in DOMAIN output : output[i].sequence = i

(* The views that reach the output carry strictly increasing revisions      *)
(* whatever the session sends (state.go:43-45).                             *)
ViewsIncrease ==
  \A i, j \in DOMAIN output :
    i < j /\ output[i].type = "view" /\ output[j].type = "view" => output[i].of < output[j].of

(* What a reader of the output may rely on. *)
OutputIsOrdered == SequenceIsContiguous /\ ViewsIncrease

(* Where the records stand that tell what came of an operation. *)
AnswersIn(out, op) == {i \in DOMAIN out : out[i].type \in Answers /\ out[i].of = op}

(* A call of the session has at most one record, after those of the calls   *)
(* of its lane before it, and none is passed over: when the next call of    *)
(* the lane is made the record is there, unless the output has failed, also *)
(* when the call failed, panicked or gave an invalid result                 *)
(* (shell.go:259-287).                                                      *)
CallsAreAnswered ==
  /\ \A i \in DOMAIN output : output[i].type \in Answers =>
       \E lane \in Lanes : output[i].of \in Range(calls[lane])
  /\ \A lane \in Lanes : \A k \in DOMAIN calls[lane] :
       /\ k < Len(calls[lane]) /\ ~failure => AnswersIn(output, calls[lane][k]) # {}
       /\ \A i \in AnswersIn(output, calls[lane][k]) :
            /\ AnswersIn(output, calls[lane][k]) = {i}
            /\ \A l \in 1..(k - 1) : \E j \in AnswersIn(output, calls[lane][l]) : j < i

Refused == {output[i].of : i \in {k \in DOMAIN output : output[k].type = "queue_full"}}

Known(lane) == calls[lane] \o queue[lane]

(* An operation is attempted at most once, in the order of the commands, by *)
(* its own lane, and never after it was refused (shell.go:146-157).         *)
OperationsAreDistinct ==
  /\ \A lane \in Lanes : \A i, j \in DOMAIN Known(lane) : i < j => Known(lane)[i] < Known(lane)[j]
  /\ Range(Known("ordinary")) \cap Range(Known("cancels")) = {}
  /\ \A lane \in Lanes : Range(Known(lane)) \cap Refused = {}

(* Run reports a failure exactly when one was met: a fatal record in the    *)
(* output, or an output that failed (shell.go:86-102).                      *)
OutcomeIsHonest ==
  outcome # "running" =>
    /\ outcome = "ErrOutput" <=> failure
    /\ outcome = "nil" <=> ~failure /\ \A i \in DOMAIN output : output[i].type \notin Fatal

(* Once Run has returned the session is left alone and nothing is written   *)
(* (shell.go:86-87).                                                        *)
QuietAfterReturn == [][outcome # "running" => UNCHANGED <<calls, output>>]_vars

(* What Run returns is true, and is its last word. *)
ReturnIsFinal == []OutcomeIsHonest /\ QuietAfterReturn

(* The line client keeps the contract of its session as the shell does: one *)
(* call of a lane at a time, none without a request, and no Receive after   *)
(* one that failed or whose update was refused (session.go:11-16).          *)
PhaseOf(w) ==
  CASE pc[w] = "calling"                                       -> "calling"
    [] pc[w] = "ready" /\ (w = "receive" \/ queue[w] # << >>) -> "requested"
    [] OTHER                                                   -> "idle"

StreamOpen ==
  \/ pc["receive"] \in {"ready", "calling"}
  \/ pc["receive"] \in {"emit", "write"} /\ record["receive"].type = "view"

Contract == INSTANCE SessionContract WITH
  Lanes <- {"receive"} \cup Lanes,
  phase <- [w \in {"receive"} \cup Lanes |-> PhaseOf(w)],
  open  <- StreamOpen

KeepsContract == Contract!Spec

(* Seen from outside, the run is one numbered log: each operation is        *)
(* attempted at most once and after its elders, what came of it is told     *)
(* once, nothing follows a last word, and the result can be read off the    *)
(* log (shell.go:56-102; README.md of the experiment: "Every output record  *)
(* has ... a strictly increasing sequence").                                *)
Log == INSTANCE ClientLog WITH
  Operations <- 1..MaxLines,
  Revisions  <- {update[2] : update \in Updates},
  log        <- output,
  attempted  <- calls,
  broken     <- failure,
  result     <- outcome

KeepsLog == Log!Spec

(* shell.go:56-57: Run ends on "caller cancellation, or a terminal          *)
(* receive/output failure", though calls of the session and a read of the   *)
(* input may be blocked at that moment.                                     *)
RunEnds == ctx ~> outcome # "running"

(* quit ends the run, whatever the session does. *)
QuitIsObeyed == pc["input"] = "emit" /\ record["input"].type = "quit" ~> outcome # "running"

(* README.md of the experiment: "a blocked submission cannot prevent        *)
(* cancellation": a cancel that was accepted reaches the session.           *)
CancelGetsThrough ==
  \A op \in 1..MaxLines :
    op \in Range(queue["cancels"]) ~> op \in Range(calls["cancels"]) \/ ctx
=============================================================================
