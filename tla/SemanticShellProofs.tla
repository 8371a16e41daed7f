------------------------- MODULE SemanticShellProofs -------------------------
(***************************************************************************)
(* What the line client guarantees for queues of any depth, any number of  *)
(* lines and any updates of the session, and what becomes of it when the   *)
(* session is the Agent adapter.                                           *)
(***************************************************************************)
EXTENDS AgentClient, TLAPS

Places  == {"ready", "calling", "emit", "write", "signal", "stop", "join", "done"}
Records == [type : Types, of : Nat, sequence : Nat]

Emitting(w) == pc[w] \in {"emit", "write"}

(* Where each goroutine can be, and what it can have to say. *)
PlacesOf(w) ==
  CASE w = "input"   -> Places \ {"calling", "signal"}
    [] w = "receive" -> Places \ {"join"}
    [] OTHER         -> Places \ {"signal", "stop", "join"}

TypesOf(w) ==
  CASE w = "input"   -> {"invalid_command", "quit", "queue_full", "input_failed"}
    [] w = "receive" -> {"view", "invalid_update", "receive_failed"}
    [] OTHER         -> Answers

(* A goroutine is where its own code can be; a lane that calls the session  *)
(* or tells what came of it has made a call.                                *)
PlaceInv ==
  /\ \A w \in Workers : pc[w] \in PlacesOf(w)
  /\ \A w \in Workers : Emitting(w) => record[w].type \in TypesOf(w)
  /\ \A lane \in Lanes : pc[lane] \in {"calling", "emit", "write"} => calls[lane] # << >>

TypeInv == TypeOK /\ PlaceInv

(* Who writes holds the mutex and the number after the last record; after   *)
(* a failed write nobody writes.                                            *)
EmitInv ==
  /\ \A w \in Workers : pc[w] = "write" <=> lock = w
  /\ failure => lock = NoOne
  /\ ~failure => sequence = Len(output) + (IF lock = NoOne THEN 0 ELSE 1)
  /\ lock # NoOne => record[lock].sequence = sequence
  /\ SequenceIsContiguous

(* The view on its way to the output is the newest. *)
ViewInv ==
  /\ \A i \in DOMAIN output : output[i].type = "view" => output[i].of <= shown
  /\ Emitting("receive") /\ record["receive"].type = "view" =>
       /\ record["receive"].of = shown
       /\ \A i \in DOMAIN output : output[i].type = "view" => output[i].of < shown
  /\ ViewsIncrease

(* A number drawn for a command is in one place: in a lane, with the input  *)
(* goroutine that is about to refuse it, or in the record that refused it.  *)
NumberInv ==
  /\ \A lane \in Lanes : \A k \in DOMAIN Known(lane) : Known(lane)[k] <= operationID
  /\ Emitting("input") /\ record["input"].type = "queue_full" =>
       /\ record["input"].of <= operationID
       /\ \A lane \in Lanes : record["input"].of \notin Range(Known(lane))
  /\ \A i \in DOMAIN output : output[i].type = "queue_full" =>
       /\ output[i].of <= operationID
       /\ \A lane \in Lanes : output[i].of \notin Range(Known(lane))
  /\ OperationsAreDistinct

(* The last call of a lane has no record until the lane has written it, and *)
(* it has one before the lane is ready again.                               *)
AnswerInv ==
  /\ \A lane \in Lanes : Emitting(lane) => record[lane].of = Last(calls[lane])
  /\ \A lane \in Lanes : pc[lane] \in {"calling", "emit", "write"} =>
       AnswersIn(output, Last(calls[lane])) = {}
  /\ \A lane \in Lanes : pc[lane] = "ready" /\ ~failure =>
       \A k \in DOMAIN calls[lane] : AnswersIn(output, calls[lane][k]) # {}
  /\ CallsAreAnswered

Met(types) == \E i \in DOMAIN output : output[i].type \in types

ReceiveErrors == {"receive_failed", "invalid_update"}

(* An error that Run is to return has been told to the output, unless the   *)
(* output has failed, and conversely.                                       *)
ErrorInv ==
  /\ terminal # "nil" => failure \/ Met(ReceiveErrors)
  /\ pc["receive"] = "signal" => failure \/ Met(ReceiveErrors)
  /\ Met(ReceiveErrors) => pc["receive"] = "signal" \/ terminal # "nil"
  /\ inputErr # "nil" =>
       \/ failure \/ Met({"input_failed"})
       \/ Emitting("input") /\ record["input"].type = "input_failed"
  /\ Emitting("input") /\ record["input"].type = "input_failed" => inputErr # "nil"
  /\ Met({"input_failed"}) => inputErr # "nil"

(* Run returns once, after its workers, what the errors tell. *)
EndInv ==
  /\ outcome # "running" => \A w \in Workers : pc[w] = "done"
  /\ outcome # "running" =>
       outcome = IF failure THEN "ErrOutput" ELSE IF terminal # "nil" THEN terminal ELSE inputErr

-----------------------------------------------------------------------------
(* Where goroutines go, and what they are about to emit *)

LEMMA Constants ==
  /\ Workers = {"input", "receive", "ordinary", "cancels"}
  /\ Lanes = {"ordinary", "cancels"}
  /\ NoOne \notin Workers /\ Lanes \subseteq Workers
BY DEF Workers, Lanes, NoOne

LEMMA MovesOne ==
  ASSUME TypeInv, NEW w \in Workers, NEW place \in PlacesOf(w), Goto(w, place)
  PROVE  /\ pc' \in [Workers -> Places]
         /\ pc'[w] = place
         /\ \A other \in Workers \ {w} : pc'[other] = pc[other]
         /\ \A other \in Workers : pc'[other] \in PlacesOf(other)
<1>1. PlacesOf(w) \subseteq Places
  BY DEF PlacesOf, Places
<1>2. pc \in [Workers -> Places]
  BY DEF TypeInv, TypeOK, Places
<1> QED
  BY <1>1, <1>2 DEF Goto, TypeInv, PlaceInv

LEMMA EmitsOne ==
  ASSUME TypeInv, NEW w \in Workers, NEW type \in TypesOf(w), NEW of \in Nat, Emit(w, type, of)
  PROVE  /\ pc' \in [Workers -> Places] /\ record' \in [Workers -> Records]
         /\ pc'[w] = "emit" /\ record'[w].type = type /\ record'[w].of = of
         /\ \A other \in Workers \ {w} : pc'[other] = pc[other] /\ record'[other] = record[other]
         /\ \A other \in Workers : pc'[other] \in PlacesOf(other)
<1>1. "emit" \in PlacesOf(w)
  BY DEF PlacesOf, Places
<1>2. Goto(w, "emit")
  BY DEF Emit
<1>3. TypesOf(w) \subseteq Types
  BY DEF TypesOf, Types, Answers, Fatal
<1>4. Record(type, of) \in Records /\ Record(type, of).type = type /\ Record(type, of).of = of
  BY <1>3 DEF Record, Records
<1>5. record \in [Workers -> Records]
  BY DEF TypeInv, TypeOK, Records
<1>6. record' = [record EXCEPT ![w] = Record(type, of)]
  BY DEF Emit
<1> QED
  BY <1>1, <1>2, <1>4, <1>5, <1>6, MovesOne

LEMMA AfterAllowed ==
  ASSUME NEW w \in Workers, NEW type \in TypesOf(w)
  PROVE  /\ After(type) \in PlacesOf(w)
         /\ After(type) \notin {"emit", "write", "calling", "join", "done"}
BY Constants DEF After, TypesOf, PlacesOf, Places, Answers

-----------------------------------------------------------------------------
(* Types *)

LEMMA InitTypes == Init => TypeInv
<1> SUFFICES ASSUME Init PROVE TypeInv
  OBVIOUS
<1>1. Record("view", 0) \in Records
  BY DEF Record, Records, Types
<1>2. record \in [Workers -> Records] /\ pc \in [Workers -> Places]
  BY <1>1 DEF Init, Places
<1>3. \A lane \in Lanes : Len(queue[lane]) <= Depth[lane]
  BY SemanticShellAssumption DEF Init
<1>4. \A w \in Workers : pc[w] = "ready"
  BY DEF Init
<1>5. PlaceInv
  BY <1>4, Constants DEF PlaceInv, Emitting, PlacesOf, Places
<1>6. lines \in 0..MaxLines /\ operationID \in 0..lines
  BY SemanticShellAssumption DEF Init
<1>7. queue \in [Lanes -> Seq(Nat)] /\ calls \in [Lanes -> Seq(Nat)] /\ output \in Seq(Records)
  BY DEF Init
<1>8. ctx \in BOOLEAN /\ closed \in BOOLEAN /\ failure \in BOOLEAN
  BY DEF Init
<1> QED
  BY <1>2, <1>3, <1>5, <1>6, <1>7, <1>8 DEF Init, TypeInv, TypeOK, Records, Places

LEMMA EmitterTypes ==
  ASSUME TypeInv, NEW w \in Workers, Lock(w) \/ Written(w) \/ WriteFails(w)
  PROVE  TypeInv'
<1>1. pc[w] \in {"emit", "write"} /\ record[w].type \in TypesOf(w)
  BY DEF Lock, Written, WriteFails, TypeInv, PlaceInv, Emitting
<1>2. After(record[w].type) \in PlacesOf(w) /\ After(record[w].type) \notin {"emit", "write", "calling"}
  BY <1>1, AfterAllowed
<1>3. "write" \in PlacesOf(w)
  BY DEF PlacesOf, Places
<1>4. pc' \in [Workers -> Places] /\ (\A other \in Workers : pc'[other] \in PlacesOf(other))
  BY <1>2, <1>3, MovesOne DEF Lock, Written, WriteFails
<1>5. record' \in [Workers -> Records]
  <2>1. record \in [Workers -> Records] /\ sequence \in Nat
    BY DEF TypeInv, TypeOK, Records
  <2>2. [record EXCEPT ![w].sequence = sequence + 1] \in [Workers -> Records]
    BY <2>1 DEF Records
  <2>3. record' \in {record, [record EXCEPT ![w].sequence = sequence + 1]}
    BY DEF Lock, Written, WriteFails
  <2> QED
    BY <2>1, <2>2, <2>3
<1>6. record[w] \in Records /\ [record[w] EXCEPT !.type = "cut"] \in Records
  BY DEF TypeInv, TypeOK, Records, Types
<1>7. output' \in Seq(Records)
  <2>1. output \in Seq(Records)
    BY DEF TypeInv, TypeOK, Records
  <2>2. \/ output' = output
        \/ output' = Append(output, record[w])
        \/ output' = Append(output, [record[w] EXCEPT !.type = "cut"])
    BY DEF Lock, Written, WriteFails
  <2> QED
    BY <1>6, <2>1, <2>2
<1>8. sequence' \in Nat /\ lock' \in Workers \cup {NoOne} /\ failure' \in BOOLEAN /\ ctx' \in BOOLEAN
  <2>1. sequence' \in Nat /\ lock' \in Workers \cup {NoOne}
    BY DEF Lock, Written, WriteFails, TypeInv, TypeOK
  <2>2. failure' \in {failure, TRUE} /\ ctx' \in {ctx, TRUE}
    BY DEF Lock, Written, WriteFails
  <2>3. failure \in BOOLEAN /\ ctx \in BOOLEAN
    BY DEF TypeInv, TypeOK
  <2> QED
    BY <2>1, <2>2, <2>3
<1>9. \A other \in Workers : pc'[other] \in {"emit", "write"} =>
        pc[other] \in {"emit", "write"} /\ record'[other].type = record[other].type
  <2>1. \A other \in Workers : other # w => pc'[other] = pc[other] /\ record'[other].type = record[other].type
    BY DEF Lock, Written, WriteFails, Goto, TypeInv, TypeOK
  <2>2. record'[w].type = record[w].type
    BY DEF Lock, Written, WriteFails, TypeInv, TypeOK
  <2> QED
    BY <1>1, <2>1, <2>2
<1>10. PlaceInv'
  <2>1. \A lane \in Lanes : pc'[lane] \in {"calling", "emit", "write"} => pc[lane] \in {"calling", "emit", "write"}
    BY <1>1, <1>2, <1>3, Constants, MovesOne DEF Lock, Written, WriteFails
  <2>2. calls' = calls
    BY DEF Lock, Written, WriteFails
  <2> QED
    BY <1>4, <1>9, <2>1, <2>2 DEF TypeInv, PlaceInv, Emitting
<1> QED
  BY <1>4, <1>5, <1>7, <1>8, <1>10
     DEF TypeInv, TypeOK, Lock, Written, WriteFails, Places, Records, inputVars

(* Steps that leave the emitter, the queues and the calls alone. *)
LEMMA InputTypes ==
  ASSUME TypeInv, InvalidCommand \/ Quit \/ EndOfInput \/ InputFails \/ StopWorkers \/ Return
                    \/ CloseInput \/ CallerCancels
  PROVE  TypeInv'
<1>1. "input" \in Workers /\ "input" \notin Lanes
  BY Constants
<1>2. {"stop", "join", "done"} \subseteq PlacesOf("input") /\ 0 \in Nat
      /\ {"invalid_command", "quit", "input_failed"} \subseteq TypesOf("input")
  BY DEF PlacesOf, Places, TypesOf
<1>3. CASE InvalidCommand \/ Quit \/ InputFails
  <2>1. /\ pc' \in [Workers -> Places] /\ record' \in [Workers -> Records]
        /\ pc'["input"] = "emit" /\ record'["input"].type \in TypesOf("input")
        /\ \A other \in Workers \ {"input"} :
             pc'[other] = pc[other] /\ record'[other] = record[other]
        /\ \A other \in Workers : pc'[other] \in PlacesOf(other)
    BY <1>1, <1>2, <1>3, EmitsOne DEF InvalidCommand, Quit, InputFails
  <2>2. PlaceInv'
    BY <1>1, <1>3, <2>1, Constants DEF TypeInv, PlaceInv, Emitting, InvalidCommand, Quit, InputFails, ReadLine
  <2>3. lines' \in 0..MaxLines /\ operationID' \in 0..lines' /\ inputErr' \in {"nil", "ErrInput"}
    BY <1>3, SemanticShellAssumption
       DEF InvalidCommand, Quit, InputFails, ReadLine, TypeInv, TypeOK
  <2> QED
    BY <1>3, <2>1, <2>2, <2>3
       DEF TypeInv, TypeOK, Places, Records, InvalidCommand, Quit, InputFails, ReadLine, emitVars
<1>4. CASE EndOfInput \/ StopWorkers \/ Return
  <2>1. /\ pc' \in [Workers -> Places]
        /\ pc'["input"] \in {"stop", "join", "done"}
        /\ \A other \in Workers \ {"input"} : pc'[other] = pc[other]
        /\ \A other \in Workers : pc'[other] \in PlacesOf(other)
    BY <1>1, <1>2, <1>4, MovesOne DEF EndOfInput, StopWorkers, Return
  <2>2. PlaceInv'
    BY <1>1, <1>4, <2>1, Constants DEF TypeInv, PlaceInv, Emitting, EndOfInput, StopWorkers, Return
  <2>3. outcome' \in {"running", "nil", "ErrOutput", "ErrSessionReceive", "ErrInput"}
        /\ ctx' \in BOOLEAN /\ closed' \in BOOLEAN
    BY <1>4 DEF EndOfInput, StopWorkers, Return, TypeInv, TypeOK, inputVars
  <2> QED
    BY <1>4, <2>1, <2>2, <2>3
       DEF TypeInv, TypeOK, Places, EndOfInput, StopWorkers, Return, emitVars, inputVars
<1>5. CASE CloseInput \/ CallerCancels
  BY <1>5 DEF CloseInput, CallerCancels, TypeInv, TypeOK, PlaceInv, Emitting, emitVars, inputVars
<1> QED
  BY <1>3, <1>4, <1>5

LEMMA CommandTypes ==
  ASSUME TypeInv, NEW lane \in Lanes, Command(lane)
  PROVE  TypeInv'
<1>1. lines' \in 0..MaxLines /\ operationID' \in 0..lines' /\ operationID' \in Nat
  BY SemanticShellAssumption DEF Command, ReadLine, TypeInv, TypeOK
<1>2. "input" \in Workers /\ "input" \notin Lanes /\ pc["input"] = "ready"
  BY Constants DEF Command, ReadLine, Reading
<1>3. queue' \in [Lanes -> Seq(Nat)] /\ \A l \in Lanes : Len(queue'[l]) <= Depth[l]
  <2>1. CASE queue' = queue
    BY <2>1 DEF TypeInv, TypeOK
  <2>2. CASE queue' = [queue EXCEPT ![lane] = Append(@, operationID')] /\ HasRoom(lane)
    <3>1. queue \in [Lanes -> Seq(Nat)] /\ Depth[lane] \in Nat /\ Len(queue[lane]) \in Nat
      BY SemanticShellAssumption DEF TypeInv, TypeOK
    <3>2. Append(queue[lane], operationID') \in Seq(Nat)
          /\ Len(Append(queue[lane], operationID')) = Len(queue[lane]) + 1
      BY <1>1, <3>1
    <3>3. Len(queue[lane]) + 1 <= Depth[lane]
      BY <2>2, <3>1 DEF HasRoom
    <3> QED
      BY <2>2, <3>1, <3>2, <3>3 DEF TypeInv, TypeOK
  <2> QED
    BY <2>1, <2>2 DEF Command
<1>4. /\ pc' \in [Workers -> Places] /\ record' \in [Workers -> Records]
      /\ \A other \in Workers \ {"input"} : pc'[other] = pc[other] /\ record'[other] = record[other]
      /\ \/ pc'["input"] \in {"ready", "stop"}
         \/ pc'["input"] = "emit" /\ record'["input"].type \in TypesOf("input")
      /\ \A other \in Workers : pc'[other] \in PlacesOf(other)
  <2>1. CASE UNCHANGED <<pc, record>>
    <3>1. pc' = pc /\ record' = record
      BY <2>1
    <3>2. pc \in [Workers -> Places] /\ record \in [Workers -> Records]
      BY DEF TypeInv, TypeOK, Places, Records
    <3>3. \A other \in Workers : pc'[other] \in PlacesOf(other)
      BY <3>1 DEF TypeInv, PlaceInv
    <3> QED
      BY <1>2, <3>1, <3>2, <3>3
  <2>2. CASE Goto("input", "stop") /\ UNCHANGED record
    <3>1. "stop" \in PlacesOf("input")
      BY DEF PlacesOf, Places
    <3>2. record \in [Workers -> Records]
      BY DEF TypeInv, TypeOK, Records
    <3>3. /\ pc' \in [Workers -> Places] /\ pc'["input"] = "stop"
          /\ \A other \in Workers \ {"input"} : pc'[other] = pc[other]
          /\ \A other \in Workers : pc'[other] \in PlacesOf(other)
      BY <1>2, <2>2, <3>1, MovesOne
    <3> QED
      BY <2>2, <3>2, <3>3
  <2>3. CASE Emit("input", "queue_full", operationID')
    <3>1. "queue_full" \in TypesOf("input")
      BY DEF TypesOf
    <3> QED
      BY <1>1, <1>2, <2>3, <3>1, EmitsOne
  <2> QED
    BY <2>1, <2>2, <2>3 DEF Command
<1>5. PlaceInv'
  BY <1>2, <1>4, Constants DEF TypeInv, PlaceInv, Emitting, Command, ReadLine
<1> QED
  BY <1>1, <1>3, <1>4, <1>5
     DEF TypeInv, TypeOK, Places, Records, Command, ReadLine, emitVars

LEMMA ReceiveTypes ==
  ASSUME TypeInv,
         \/ CallReceive \/ (\E update \in Updates : Receive(update[1], update[2]))
         \/ ReceiveFails \/ Signal \/ StopReceiving
  PROVE  TypeInv'
<1>1. "receive" \in Workers /\ "receive" \notin Lanes
  BY Constants
<1>2. {"calling", "stop", "done"} \subseteq PlacesOf("receive") /\ 0 \in Nat
      /\ {"view", "invalid_update", "receive_failed"} \subseteq TypesOf("receive")
  BY DEF PlacesOf, Places, TypesOf
<1>3. shown' \in Nat
  <2>1. \A update \in Updates : update[2] \in Nat
    BY SemanticShellAssumption
  <2> QED
    BY <2>1 DEF CallReceive, Receive, ReceiveFails, Signal, StopReceiving, TypeInv, TypeOK
<1>4. \/ \E place \in {"calling", "stop", "done"} : Goto("receive", place) /\ UNCHANGED record
      \/ \E type \in TypesOf("receive") : \E of \in Nat : Emit("receive", type, of)
  BY <1>2, <1>3 DEF CallReceive, Receive, ReceiveFails, Signal, StopReceiving
<1>5. /\ pc' \in [Workers -> Places] /\ record' \in [Workers -> Records]
      /\ \A other \in Workers \ {"receive"} :
           pc'[other] = pc[other] /\ record'[other] = record[other]
      /\ \/ pc'["receive"] \in {"calling", "stop", "done"}
         \/ pc'["receive"] = "emit" /\ record'["receive"].type \in TypesOf("receive")
      /\ \A other \in Workers : pc'[other] \in PlacesOf(other)
  <2>1. record \in [Workers -> Records]
    BY DEF TypeInv, TypeOK, Records
  <2>2. CASE \E place \in {"calling", "stop", "done"} : Goto("receive", place) /\ UNCHANGED record
    BY <1>1, <1>2, <2>1, <2>2, MovesOne
  <2>3. CASE \E type \in TypesOf("receive") : \E of \in Nat : Emit("receive", type, of)
    BY <1>1, <2>3, EmitsOne
  <2> QED
    BY <1>4, <2>2, <2>3
<1>6. /\ UNCHANGED <<inputVars, queue, calls, emitVars, outcome>>
      /\ terminal' \in {terminal, "ErrSessionReceive"} /\ ctx' \in {ctx, TRUE}
  BY DEF CallReceive, Receive, ReceiveFails, Signal, StopReceiving
<1>7. PlaceInv'
  BY <1>1, <1>5, <1>6, Constants DEF TypeInv, PlaceInv, Emitting
<1>8. ctx' \in BOOLEAN
  BY <1>6 DEF TypeInv, TypeOK
<1> QED
  BY <1>3, <1>5, <1>6, <1>7, <1>8 DEF TypeInv, TypeOK, Places, Records, inputVars, emitVars

LEMMA AppendedSeq ==
  ASSUME NEW S, NEW s \in Seq(S), NEW x \in S
  PROVE  /\ Append(s, x) \in Seq(S) /\ Append(s, x) # << >>
         /\ Len(Append(s, x)) = Len(s) + 1 /\ Len(s) \in Nat
         /\ DOMAIN Append(s, x) = 1..(Len(s) + 1) /\ DOMAIN s = 1..Len(s)
         /\ \A i \in 1..Len(s) : Append(s, x)[i] = s[i]
         /\ Append(s, x)[Len(s) + 1] = x
OBVIOUS

LEMMA LastInSeq ==
  ASSUME NEW s \in Seq(Nat), s # << >>
  PROVE  Last(s) \in Nat /\ Last(s) = s[Len(s)] /\ Len(s) \in 1..Len(s)
BY DEF Last

LEMMA LaneTypes ==
  ASSUME TypeInv, NEW lane \in Lanes, Take(lane) \/ Leave(lane) \/ Answered(lane)
  PROVE  TypeInv'
<1>1. lane \in Workers /\ lane \notin {"input", "receive"}
  BY Constants
<1>2. {"calling", "done"} \subseteq PlacesOf(lane) /\ Replies \subseteq TypesOf(lane)
  BY <1>1, SemanticShellAssumption DEF PlacesOf, Places, TypesOf
<1>3. queue \in [Lanes -> Seq(Nat)] /\ calls \in [Lanes -> Seq(Nat)] /\ record \in [Workers -> Records]
  BY DEF TypeInv, TypeOK, Records
<1>4. CASE Take(lane)
  <2>1. Head(queue[lane]) \in Nat /\ Tail(queue[lane]) \in Seq(Nat)
        /\ Len(Tail(queue[lane])) = Len(queue[lane]) - 1 /\ Len(queue[lane]) \in Nat
    BY <1>3, <1>4 DEF Take
  <2>2. Append(calls[lane], Head(queue[lane])) \in Seq(Nat) \ {<< >>}
    BY <1>3, <2>1, AppendedSeq
  <2>3. queue' \in [Lanes -> Seq(Nat)] /\ calls' \in [Lanes -> Seq(Nat)]
    BY <1>3, <1>4, <2>1, <2>2 DEF Take
  <2>4. \A l \in Lanes : Len(queue'[l]) <= Depth[l]
    <3>1. Depth[lane] \in Nat /\ Len(queue[lane]) <= Depth[lane]
      BY SemanticShellAssumption DEF TypeInv, TypeOK
    <3>2. queue'[lane] = Tail(queue[lane]) /\ \A l \in Lanes \ {lane} : queue'[l] = queue[l]
      BY <1>3, <1>4 DEF Take
    <3>3. Len(queue'[lane]) <= Depth[lane]
      BY <2>1, <3>1, <3>2
    <3> QED
      BY <3>2, <3>3 DEF TypeInv, TypeOK
  <2>5. /\ pc' \in [Workers -> Places] /\ pc'[lane] = "calling"
        /\ \A other \in Workers \ {lane} : pc'[other] = pc[other]
        /\ \A other \in Workers : pc'[other] \in PlacesOf(other)
    BY <1>1, <1>2, <1>4, MovesOne DEF Take
  <2>6. calls'[lane] # << >> /\ \A l \in Lanes \ {lane} : calls'[l] = calls[l]
    BY <1>3, <1>4, <2>2 DEF Take
  <2>7. PlaceInv'
    BY <1>4, <2>5, <2>6, Constants DEF TypeInv, PlaceInv, Emitting, Take
  <2> QED
    BY <1>4, <2>3, <2>4, <2>5, <2>7 DEF TypeInv, TypeOK, Places, Take, inputVars, emitVars
<1>5. CASE Leave(lane) \/ Answered(lane)
  <2>1. pc[lane] = "calling" => Last(calls[lane]) \in Nat
    BY <1>3, LastInSeq DEF TypeInv, PlaceInv
  <2>2. \/ Goto(lane, "done") /\ UNCHANGED record
        \/ pc[lane] = "calling" /\ \E type \in TypesOf(lane) : Emit(lane, type, Last(calls[lane]))
    BY <1>2, <1>5 DEF Leave, Answered
  <2>3. /\ pc' \in [Workers -> Places] /\ record' \in [Workers -> Records]
        /\ \A other \in Workers \ {lane} : pc'[other] = pc[other] /\ record'[other] = record[other]
        /\ \/ pc'[lane] = "done"
           \/ pc[lane] = "calling" /\ pc'[lane] = "emit" /\ record'[lane].type \in TypesOf(lane)
        /\ \A other \in Workers : pc'[other] \in PlacesOf(other)
    <3>1. CASE Goto(lane, "done") /\ UNCHANGED record
      BY <1>1, <1>2, <1>3, <3>1, MovesOne
    <3>2. CASE pc[lane] = "calling" /\ \E type \in TypesOf(lane) : Emit(lane, type, Last(calls[lane]))
      BY <1>1, <2>1, <3>2, EmitsOne
    <3> QED
      BY <2>2, <3>1, <3>2
  <2>4. UNCHANGED <<ctx, inputVars, queue, calls, shown, emitVars, terminal, outcome>>
    BY <1>5 DEF Leave, Answered
  <2>5. PlaceInv'
    BY <2>3, <2>4, Constants DEF TypeInv, PlaceInv, Emitting
  <2> QED
    BY <2>3, <2>4, <2>5 DEF TypeInv, TypeOK, Places, Records, inputVars, emitVars
<1> QED
  BY <1>4, <1>5

LEMMA TypesKept ==
  ASSUME TypeInv, [Next]_vars
  PROVE  TypeInv'
<1>1. CASE UNCHANGED vars
  BY <1>1 DEF vars, inputVars, emitVars, TypeInv, TypeOK, PlaceInv, Emitting
<1>2. CASE Next
  BY <1>1, <1>2, EmitterTypes, InputTypes, CommandTypes, ReceiveTypes, LaneTypes DEF Next, Finished
<1> QED
  BY <1>1, <1>2

(* Every variable of the line client keeps its type: no queue exceeds its  *)
(* depth, no goroutine is where its code has no place (shell.go:58-310).   *)
THEOREM ClientTypeCorrect == Spec => []TypeInv
BY InitTypes, TypesKept, PTL DEF Spec

-----------------------------------------------------------------------------
(* The emitter *)

EmitterStep == \E w \in Workers : Lock(w) \/ Written(w) \/ WriteFails(w)

InputStep ==
  \/ InvalidCommand \/ Quit \/ (\E lane \in Lanes : Command(lane))
  \/ EndOfInput \/ InputFails \/ StopWorkers \/ Return

ReceiveStep ==
  \/ CallReceive \/ (\E update \in Updates : Receive(update[1], update[2]))
  \/ ReceiveFails \/ Signal \/ StopReceiving

LaneStep(lane) == Take(lane) \/ Leave(lane) \/ Answered(lane)

(* A goroutine goes on outside the emitter, the others stay as they are. *)
Elsewhere(w) ==
  /\ UNCHANGED emitVars
  /\ pc[w] \notin {"emit", "write"} /\ pc'[w] # "write"
  /\ \A other \in Workers \ {w} : pc'[other] = pc[other] /\ record'[other] = record[other]
  /\ pc'[w] # "emit" => record' = record

Still == UNCHANGED <<pc, record, emitVars, lines, operationID, inputErr, queue, calls, shown,
                     terminal, outcome>>

LEMMA StepKinds ==
  ASSUME [Next]_vars
  PROVE  \/ EmitterStep \/ InputStep \/ ReceiveStep \/ (\E lane \in Lanes : LaneStep(lane)) \/ Still
BY DEF Next, vars, EmitterStep, InputStep, ReceiveStep, LaneStep, Still, CloseInput, CallerCancels,
       Finished, inputVars

LEMMA MovesElsewhere ==
  ASSUME TypeInv, NEW w \in Workers, pc[w] \notin {"emit", "write"}, UNCHANGED emitVars,
         \/ \E place \in Places \ {"emit", "write"} : Goto(w, place) /\ UNCHANGED record
         \/ \E type, of : Emit(w, type, of)
         \/ UNCHANGED <<pc, record>>
  PROVE  Elsewhere(w)
<1>1. pc \in [Workers -> Places] /\ record \in [Workers -> Records]
  BY DEF TypeInv, TypeOK, Places, Records
<1> QED
  BY <1>1 DEF Elsewhere, Goto, Emit

LEMMA InputElsewhere ==
  ASSUME TypeInv, InputStep
  PROVE  Elsewhere("input")
<1>1. "input" \in Workers
  BY Constants
<1>2. pc["input"] \in {"ready", "stop", "join"} /\ UNCHANGED emitVars
  BY DEF InputStep, InvalidCommand, Quit, Command, ReadLine, Reading, EndOfInput, InputFails,
         StopWorkers, Return
<1>3. \/ \E place \in Places \ {"emit", "write"} : Goto("input", place) /\ UNCHANGED record
      \/ \E type, of : Emit("input", type, of)
      \/ UNCHANGED <<pc, record>>
  BY DEF InputStep, InvalidCommand, Quit, Command, ReadLine, EndOfInput, InputFails,
         StopWorkers, Return, Places
<1> QED
  BY <1>1, <1>2, <1>3, MovesElsewhere

LEMMA ReceiveElsewhere ==
  ASSUME TypeInv, ReceiveStep
  PROVE  Elsewhere("receive")
<1>1. "receive" \in Workers
  BY Constants
<1>2. pc["receive"] \in {"ready", "calling", "signal", "stop"} /\ UNCHANGED emitVars
  BY DEF ReceiveStep, CallReceive, Receive, ReceiveFails, Signal, StopReceiving
<1>3. \/ \E place \in Places \ {"emit", "write"} : Goto("receive", place) /\ UNCHANGED record
      \/ \E type, of : Emit("receive", type, of)
  BY DEF ReceiveStep, CallReceive, Receive, ReceiveFails, Signal, StopReceiving, Places
<1> QED
  BY <1>1, <1>2, <1>3, MovesElsewhere

LEMMA LaneElsewhere ==
  ASSUME TypeInv, NEW lane \in Lanes, LaneStep(lane)
  PROVE  Elsewhere(lane)
<1>1. lane \in Workers
  BY Constants
<1>2. pc[lane] \in {"ready", "calling"} /\ UNCHANGED emitVars
  BY DEF LaneStep, Take, Leave, Answered
<1>3. \/ \E place \in Places \ {"emit", "write"} : Goto(lane, place) /\ UNCHANGED record
      \/ \E type, of : Emit(lane, type, of)
  BY DEF LaneStep, Take, Leave, Answered, Places
<1> QED
  BY <1>1, <1>2, <1>3, MovesElsewhere

(* What the three steps of the emitter do to the goroutine and the output. *)
LEMMA EmitterEffect ==
  ASSUME TypeInv, EmitInv, NEW w \in Workers, Lock(w) \/ Written(w) \/ WriteFails(w)
  PROVE  /\ UNCHANGED <<inputVars, queue, calls, shown, terminal, outcome>>
         /\ Emitting(w) /\ (lock = NoOne \/ lock = w)
         /\ \A other \in Workers \ {w} : pc'[other] = pc[other] /\ record'[other] = record[other]
         /\ record'[w].type = record[w].type /\ record'[w].of = record[w].of
         /\ \/ /\ pc'[w] = "write" /\ lock = NoOne /\ lock' = w /\ ~failure /\ failure' = failure
               /\ output' = output /\ sequence' = sequence + 1 /\ record'[w].sequence = sequence'
            \/ /\ pc'[w] = After(record[w].type) /\ lock' = NoOne /\ sequence' = sequence
               /\ \/ failure /\ failure' = failure /\ output' = output
                  \/ /\ lock = w /\ ~failure /\ failure' = failure
                     /\ output' = Append(output, record[w])
                  \/ /\ lock = w /\ failure'
                     /\ \/ output' = output
                        \/ output' = Append(output, [record[w] EXCEPT !.type = "cut"])
<1>1. pc \in [Workers -> Places] /\ record \in [Workers -> Records]
  BY DEF TypeInv, TypeOK, Places, Records
<1>2. pc[w] = "write" => lock = w /\ ~failure
  BY Constants DEF EmitInv
<1>3. CASE Lock(w)
  <2>1. CASE failure
    BY <1>1, <1>3, <2>1 DEF Lock, Goto, Emitting
  <2>2. CASE ~failure
    <3>1. record[w] \in Records
      BY <1>1
    <3>2. [record[w] EXCEPT !.sequence = sequence'].type = record[w].type
          /\ [record[w] EXCEPT !.sequence = sequence'].of = record[w].of
          /\ [record[w] EXCEPT !.sequence = sequence'].sequence = sequence'
      BY <3>1 DEF Records
    <3>3. record'[w] = [record[w] EXCEPT !.sequence = sequence']
          /\ \A other \in Workers \ {w} : record'[other] = record[other]
      BY <1>1, <1>3, <2>2 DEF Lock
    <3> QED
      BY <1>1, <1>3, <2>2, <3>2, <3>3 DEF Lock, Goto, Emitting
  <2> QED
    BY <2>1, <2>2
<1>4. CASE Written(w)
  BY <1>1, <1>2, <1>4 DEF Written, Goto, Emitting
<1>5. CASE WriteFails(w)
  BY <1>1, <1>2, <1>5 DEF WriteFails, Goto, Emitting
<1> QED
  BY <1>3, <1>4, <1>5

LEMMA AfterEmitter ==
  ASSUME TypeInv, NEW w \in Workers, Emitting(w)
  PROVE  /\ After(record[w].type) \in PlacesOf(w)
         /\ After(record[w].type) \in {"ready", "signal", "stop"}
<1>1. record[w].type \in TypesOf(w)
  BY DEF TypeInv, PlaceInv
<1> QED
  BY <1>1, AfterAllowed DEF After

(* One goroutine moves at every step, and which one. *)
LEMMA StepCases ==
  ASSUME TypeInv, [Next]_vars
  PROVE  \/ \E w \in Workers : Lock(w) \/ Written(w) \/ WriteFails(w)
         \/ InputStep /\ Elsewhere("input")
         \/ ReceiveStep /\ Elsewhere("receive")
         \/ \E lane \in Lanes : LaneStep(lane) /\ Elsewhere(lane)
         \/ Still
BY StepKinds, InputElsewhere, ReceiveElsewhere, LaneElsewhere DEF EmitterStep

LEMMA ElsewhereMoves ==
  ASSUME TypeInv, [Next]_vars
  PROVE  \/ \E w \in Workers : Lock(w) \/ Written(w) \/ WriteFails(w)
         \/ \E w \in Workers : Elsewhere(w)
         \/ Still
BY StepCases, Constants

LEMMA InitEmit == Init => EmitInv
<1> SUFFICES ASSUME Init PROVE EmitInv
  OBVIOUS
<1>1. \A w \in Workers : pc[w] = "ready" /\ lock # w
  BY Constants DEF Init
<1>2. output = << >> /\ lock = NoOne /\ failure = FALSE /\ sequence = 0
  BY DEF Init
<1> QED
  BY <1>1, <1>2 DEF EmitInv, SequenceIsContiguous

LEMMA EmitKeptByEmitter ==
  ASSUME TypeInv, EmitInv, NEW w \in Workers, Lock(w) \/ Written(w) \/ WriteFails(w)
  PROVE  EmitInv'
<1> DEFINE n == Len(output)
<1>1. output \in Seq(Records) /\ sequence \in Nat /\ record[w] \in Records
      /\ [record[w] EXCEPT !.type = "cut"] \in Records
      /\ [record[w] EXCEPT !.type = "cut"].sequence = record[w].sequence
      /\ failure \in BOOLEAN
  BY DEF TypeInv, TypeOK, Records, Types
<1>2. /\ Emitting(w) /\ (lock = NoOne \/ lock = w)
      /\ \A other \in Workers \ {w} : pc'[other] = pc[other] /\ record'[other] = record[other]
  BY EmitterEffect
<1>3. \A other \in Workers : pc[other] = "write" <=> lock = other
  BY DEF EmitInv
<1>4. n \in Nat /\ DOMAIN output = 1..n /\ \A i \in 1..n : output[i].sequence = i
  BY <1>1 DEF EmitInv, SequenceIsContiguous
<1> HIDE DEF n
<1>5. CASE /\ pc'[w] = "write" /\ lock = NoOne /\ lock' = w /\ ~failure /\ failure' = failure
           /\ output' = output /\ sequence' = sequence + 1 /\ record'[w].sequence = sequence'
  <2>1. sequence = n
    BY <1>5, Constants DEF EmitInv, n
  <2>2. \A other \in Workers : pc'[other] = "write" <=> lock' = other
    BY <1>2, <1>3, <1>5, Constants
  <2>3. sequence' = Len(output') + 1 /\ lock' # NoOne
    BY <1>5, <2>1, Constants DEF n
  <2>4. SequenceIsContiguous'
    BY <1>5 DEF EmitInv, SequenceIsContiguous
  <2> QED
    BY <1>5, <2>2, <2>3, <2>4 DEF EmitInv
<1>6. CASE /\ pc'[w] = After(record[w].type) /\ lock' = NoOne /\ sequence' = sequence
           /\ \/ failure /\ failure' = failure /\ output' = output
              \/ /\ lock = w /\ ~failure /\ failure' = failure
                 /\ output' = Append(output, record[w])
              \/ /\ lock = w /\ failure'
                 /\ \/ output' = output
                    \/ output' = Append(output, [record[w] EXCEPT !.type = "cut"])
  <2>1. pc'[w] # "write"
    BY <1>2, <1>6, AfterEmitter
  <2>2. \A other \in Workers : pc'[other] = "write" <=> lock' = other
    BY <1>2, <1>3, <1>6, <2>1, Constants
  <2>3. CASE output' = output /\ failure'
    BY <1>6, <2>2, <2>3 DEF EmitInv, SequenceIsContiguous
  <2>4. CASE lock = w /\ \E r \in Records : /\ output' = Append(output, r)
                                            /\ r.sequence = record[w].sequence
    <3>1. PICK r \in Records : output' = Append(output, r) /\ r.sequence = record[w].sequence
      BY <2>4
    <3>2. ~failure /\ sequence = n + 1 /\ record[w].sequence = sequence
      BY <2>4, Constants DEF EmitInv, n
    <3>3. /\ DOMAIN output' = 1..(n + 1) /\ Len(output') = n + 1
          /\ \A i \in 1..n : output'[i] = output[i]
          /\ output'[n + 1] = r
      BY <1>1, <3>1, AppendedSeq DEF n
    <3>4. \A i \in DOMAIN output' : output'[i].sequence = i
      <4> SUFFICES ASSUME NEW i \in DOMAIN output' PROVE output'[i].sequence = i
        OBVIOUS
      <4>1. CASE i = n + 1
        BY <3>1, <3>2, <3>3, <4>1
      <4>2. CASE i # n + 1
        <5>1. i \in 1..n
          BY <1>4, <3>3, <4>2
        <5> QED
          BY <1>4, <3>3, <5>1
      <4> QED
        BY <4>1, <4>2
    <3>5. sequence' = Len(output')
      BY <1>6, <3>2, <3>3
    <3>6. sequence' = Len(output') + (IF lock' = NoOne THEN 0 ELSE 1)
      BY <1>1, <1>6, <3>5
    <3> QED
      BY <1>6, <2>2, <3>4, <3>6 DEF EmitInv, SequenceIsContiguous
  <2> QED
    BY <1>1, <1>6, <2>3, <2>4
<1> QED
  BY <1>5, <1>6, EmitterEffect

LEMMA EmitKept ==
  ASSUME TypeInv, EmitInv, [Next]_vars
  PROVE  EmitInv'
<1>1. CASE \E w \in Workers : Lock(w) \/ Written(w) \/ WriteFails(w)
  BY <1>1, EmitKeptByEmitter
<1>2. CASE \E w \in Workers : Elsewhere(w)
  <2>1. PICK w \in Workers : Elsewhere(w)
    BY <1>2
  <2>2. UNCHANGED <<lock, failure, sequence, output>> /\ pc[w] # "write" /\ pc'[w] # "write"
    BY <2>1 DEF Elsewhere, emitVars
  <2>3. \A other \in Workers : pc'[other] = "write" <=> pc[other] = "write"
    BY <2>1, <2>2 DEF Elsewhere
  <2>4. lock # NoOne => lock \in Workers \ {w} /\ record'[lock] = record[lock]
    <3>1. lock \in Workers \cup {NoOne}
      BY DEF TypeInv, TypeOK
    <3> QED
      BY <2>1, <2>2, <3>1 DEF EmitInv, Elsewhere
  <2> QED
    BY <2>2, <2>3, <2>4 DEF EmitInv, SequenceIsContiguous
<1>3. CASE Still
  BY <1>3 DEF Still, emitVars, EmitInv, SequenceIsContiguous
<1> QED
  BY <1>1, <1>2, <1>3, ElsewhereMoves

-----------------------------------------------------------------------------
(* What a step adds to the output *)

(* The goroutine ends its write, which leaves the record, a part or nothing. *)
Leaves(w, r) ==
  /\ pc[w] = "write" /\ ~failure
  /\ output' = Append(output, r)
  /\ r.of = record[w].of
  /\ r.type \in {record[w].type, "cut"}
  /\ r.type = "cut" => failure'

EmitterOnly(w) ==
  /\ UNCHANGED <<inputVars, queue, calls, shown, terminal, outcome>>
  /\ Emitting(w)
  /\ \A other \in Workers \ {w} : pc'[other] = pc[other] /\ record'[other] = record[other]
  /\ record'[w].type = record[w].type /\ record'[w].of = record[w].of

(* The goroutine w gets the mutex, or is past its record. *)
EmitterMoves(w) ==
  \/ /\ pc'[w] = "write" /\ output' = output /\ failure' = failure
  \/ /\ pc'[w] = After(record[w].type)
     /\ \/ failure' /\ output' = output
        \/ \E r \in Records : Leaves(w, r)

LEMMA EmitterMovesOn ==
  ASSUME TypeInv, EmitInv, NEW w \in Workers, Lock(w) \/ Written(w) \/ WriteFails(w)
  PROVE  EmitterOnly(w) /\ EmitterMoves(w)
<1>1. /\ record[w] \in Records /\ [record[w] EXCEPT !.type = "cut"] \in Records
      /\ [record[w] EXCEPT !.type = "cut"].of = record[w].of
      /\ [record[w] EXCEPT !.type = "cut"].type = "cut"
      /\ failure \in BOOLEAN
  BY DEF TypeInv, TypeOK, Records, Types
<1>2. EmitterOnly(w)
  BY EmitterEffect DEF EmitterOnly
<1>3. lock = w => pc[w] = "write" /\ ~failure
  BY Constants DEF EmitInv
<1>4. record[w].type # "cut"
  BY <1>2, Constants DEF EmitterOnly, TypeInv, PlaceInv, TypesOf, Answers
<1>5. CASE lock = w /\ ~failure /\ failure' = failure /\ output' = Append(output, record[w])
  <2>1. Leaves(w, record[w])
    BY <1>1, <1>3, <1>4, <1>5 DEF Leaves
  <2>2. pc'[w] = "write" \/ pc'[w] = After(record[w].type)
    BY EmitterEffect
  <2>3. pc'[w] # "write"
    <3>1. Append(output, record[w]) # output
      BY <1>1, AppendedSeq DEF TypeInv, TypeOK, Records
    <3> QED
      BY <1>5, <3>1, EmitterEffect, EmitKeptByEmitter, Constants DEF EmitInv
  <2> QED
    BY <1>1, <1>2, <2>1, <2>2, <2>3 DEF EmitterMoves
<1>6. CASE lock = w /\ failure' /\ output' = Append(output, [record[w] EXCEPT !.type = "cut"])
  <2>1. Leaves(w, [record[w] EXCEPT !.type = "cut"])
    BY <1>1, <1>3, <1>6 DEF Leaves
  <2>2. pc'[w] = After(record[w].type)
    BY <1>3, <1>6, EmitterEffect
  <2> QED
    BY <1>1, <1>2, <2>1, <2>2 DEF EmitterMoves
<1>7. CASE pc'[w] = "write" /\ output' = output /\ failure' = failure
  BY <1>2, <1>7 DEF EmitterMoves
<1>8. CASE pc'[w] = After(record[w].type) /\ failure' /\ output' = output
  BY <1>2, <1>8 DEF EmitterMoves
<1> QED
  BY <1>5, <1>6, <1>7, <1>8, EmitterEffect

LEMMA Added ==
  ASSUME TypeInv, NEW r \in Records, output' = Append(output, r)
  PROVE  /\ Len(output) \in Nat
         /\ DOMAIN output = 1..Len(output)
         /\ DOMAIN output' = DOMAIN output \cup {Len(output) + 1}
         /\ \A i \in DOMAIN output : output'[i] = output[i] /\ i < Len(output) + 1
         /\ output'[Len(output) + 1] = r
         /\ Len(output) + 1 \notin DOMAIN output
<1>1. output \in Seq(Records)
  BY DEF TypeInv, TypeOK, Records
<1> QED
  BY <1>1, AppendedSeq

LEMMA RecordsWritten ==
  ASSUME TypeInv
  PROVE  /\ output \in Seq(Records)
         /\ \A i \in DOMAIN output : output[i] \in Records /\ output[i].of \in Nat
<1>1. output \in Seq(Records)
  BY DEF TypeInv, TypeOK, Records
<1>2. \A i \in DOMAIN output : output[i] \in Records
  BY <1>1
<1> QED
  BY <1>1, <1>2 DEF Records

-----------------------------------------------------------------------------
(* Views *)

LEMMA InitViews == Init => ViewInv
<1> SUFFICES ASSUME Init PROVE ViewInv
  OBVIOUS
<1>1. output = << >> /\ pc["receive"] = "ready"
  BY Constants DEF Init
<1> QED
  BY <1>1 DEF ViewInv, ViewsIncrease, Emitting

LEMMA ViewsKeptByEmitter ==
  ASSUME TypeInv, ViewInv, NEW w \in Workers, EmitterOnly(w), EmitterMoves(w)
  PROVE  ViewInv'
<1>1. shown' = shown /\ "receive" \in Workers
  BY Constants DEF EmitterOnly
<1>2. pc'[w] \in {"emit", "write"} => output' = output
  BY AfterEmitter DEF EmitterMoves, EmitterOnly
<1>3. /\ Emitting("receive")' => Emitting("receive")
      /\ record'["receive"].type = record["receive"].type
      /\ record'["receive"].of = record["receive"].of
  BY <1>1, Constants DEF EmitterOnly, Emitting
<1>4. CASE output' = output
  BY <1>1, <1>3, <1>4 DEF ViewInv, ViewsIncrease
<1>5. CASE \E r \in Records : Leaves(w, r)
  <2>1. PICK r \in Records : Leaves(w, r)
    BY <1>5
  <2> DEFINE n == Len(output) + 1
  <2>2. /\ DOMAIN output' = DOMAIN output \cup {n} /\ DOMAIN output = 1..Len(output)
        /\ \A i \in DOMAIN output : output'[i] = output[i] /\ i < n
        /\ output'[n] = r /\ Len(output) \in Nat /\ n \notin DOMAIN output
    BY <2>1, Added DEF Leaves
  <2> HIDE DEF n
  <2>3. r.type = "view" => w = "receive" /\ record["receive"].type = "view" /\ r.of = shown
    <3>1. Emitting(w) /\ record[w].type \in TypesOf(w)
      BY DEF EmitterOnly, TypeInv, PlaceInv
    <3>2. r.type = "view" => record[w].type = "view" /\ r.of = record[w].of
      BY <2>1 DEF Leaves
    <3>3. record[w].type = "view" => w = "receive"
      BY <3>1, Constants DEF TypesOf, Answers
    <3> QED
      BY <3>1, <3>2, <3>3 DEF ViewInv
  <2>4. r.type = "view" => \A i \in DOMAIN output : output[i].type = "view" => output[i].of < shown
    BY <2>3 DEF ViewInv, EmitterOnly
  <2>5. \A i \in DOMAIN output' : output'[i].type = "view" => output'[i].of <= shown'
    <3>1. \A i \in DOMAIN output : output'[i].type = "view" => output'[i].of <= shown'
      BY <1>1, <2>2 DEF ViewInv
    <3>2. output'[n].type = "view" => output'[n].of <= shown'
      BY <1>1, <2>2, <2>3 DEF TypeInv, TypeOK
    <3> QED
      BY <2>2, <3>1, <3>2
  <2>6. ViewsIncrease'
    <3> SUFFICES ASSUME NEW i \in DOMAIN output', NEW j \in DOMAIN output', i < j,
                        output'[i].type = "view", output'[j].type = "view"
                 PROVE  output'[i].of < output'[j].of
      BY DEF ViewsIncrease
    <3>1. i \in DOMAIN output
      <4>1. j <= n /\ n \in Nat /\ i \in Nat /\ j \in Nat
        BY <2>2 DEF n
      <4> QED
        BY <2>2, <4>1
    <3>2. CASE j \in DOMAIN output
      BY <2>2, <3>1, <3>2 DEF ViewInv, ViewsIncrease
    <3>3. CASE j = n
      BY <2>2, <2>3, <2>4, <3>1, <3>3
    <3> QED
      BY <2>2, <3>2, <3>3
  <2>7. ~(Emitting("receive")' /\ record'["receive"].type = "view")
        \/ \A i \in DOMAIN output' : output'[i].type = "view" => output'[i].of < shown'
    <3>1. CASE w = "receive"
      <4>1. pc'[w] \notin {"emit", "write"}
        <5>1. output' # output
          BY <2>2
        <5> QED
          BY <1>2, <5>1
      <4> QED
        BY <3>1, <4>1 DEF Emitting
    <3>2. CASE w # "receive"
      <4>1. r.type # "view"
        BY <2>3, <3>2
      <4>2. Emitting("receive")' /\ record'["receive"].type = "view" =>
              \A i \in DOMAIN output : output[i].type = "view" => output[i].of < shown
        BY <1>3 DEF ViewInv
      <4> QED
        BY <1>1, <2>2, <4>1, <4>2
    <3> QED
      BY <3>1, <3>2
  <2> QED
    BY <1>1, <1>3, <2>5, <2>6, <2>7 DEF ViewInv
<1> QED
  BY <1>4, <1>5 DEF EmitterMoves

LEMMA ViewsKept ==
  ASSUME TypeInv, EmitInv, ViewInv, [Next]_vars
  PROVE  ViewInv'
<1>1. CASE \E w \in Workers : Lock(w) \/ Written(w) \/ WriteFails(w)
  BY <1>1, EmitterMovesOn, ViewsKeptByEmitter
<1>2. CASE \/ InputStep /\ Elsewhere("input")
           \/ \E lane \in Lanes : LaneStep(lane) /\ Elsewhere(lane)
  <2>1. UNCHANGED <<output, shown>>
    BY <1>2 DEF Elsewhere, emitVars, InputStep, InvalidCommand, Quit, Command, ReadLine, EndOfInput,
                InputFails, StopWorkers, Return, LaneStep, Take, Leave, Answered
  <2>2. pc'["receive"] = pc["receive"] /\ record'["receive"] = record["receive"]
    BY <1>2, Constants DEF Elsewhere
  <2> QED
    BY <2>1, <2>2 DEF ViewInv, ViewsIncrease, Emitting
<1>3. CASE ReceiveStep /\ Elsewhere("receive")
  <2>1. output' = output /\ shown \in Nat /\ \A i \in DOMAIN output : output[i].of \in Nat
    <3>1. output' = output
      BY <1>3 DEF Elsewhere, emitVars
    <3> QED
      BY <3>1, RecordsWritten DEF TypeInv, TypeOK
  <2>2. CASE \E update \in Updates : Receive(update[1], update[2]) /\ Accepts(update[1], update[2])
    <3>1. PICK update \in Updates : Receive(update[1], update[2]) /\ Accepts(update[1], update[2])
      BY <2>2
    <3>2. update[2] \in Nat /\ "receive" \in Workers /\ "view" \in TypesOf("receive")
      BY SemanticShellAssumption, Constants DEF TypesOf
    <3>3. shown' = update[2] /\ shown < shown' /\ record'["receive"].of = shown'
      BY <3>1, <3>2, EmitsOne DEF Receive, Accepts, TypeInv, TypeOK
    <3>4. \A i \in DOMAIN output : output[i].type = "view" => output[i].of < shown'
      BY <2>1, <3>2, <3>3 DEF ViewInv
    <3> QED
      BY <2>1, <3>2, <3>3, <3>4 DEF ViewInv, ViewsIncrease
  <2>3. CASE shown' = shown /\ (Emitting("receive")' => record'["receive"].type # "view")
    BY <2>1, <2>3 DEF ViewInv, ViewsIncrease
  <2>4. \/ \E update \in Updates : Receive(update[1], update[2]) /\ Accepts(update[1], update[2])
        \/ shown' = shown /\ (Emitting("receive")' => record'["receive"].type # "view")
    <3>1. CASE CallReceive \/ Signal \/ StopReceiving \/ (ReceiveFails /\ ctx)
      <4>1. shown' = shown /\ \E place \in {"calling", "stop", "done"} : Goto("receive", place)
        BY <3>1 DEF CallReceive, Signal, StopReceiving, ReceiveFails
      <4> QED
        BY <4>1, Constants DEF Goto, Emitting, TypeInv, TypeOK
    <3>2. CASE \/ ReceiveFails /\ ~ctx
               \/ \E update \in Updates : Receive(update[1], update[2]) /\ ~Accepts(update[1], update[2])
      <4>1. shown' = shown /\ \E type \in {"invalid_update", "receive_failed"} : Emit("receive", type, 0)
        BY <3>2 DEF ReceiveFails, Receive
      <4>2. record'["receive"].type \in {"invalid_update", "receive_failed"}
        BY <4>1, Constants, EmitsOne DEF TypesOf
      <4> QED
        BY <4>1, <4>2
    <3> QED
      BY <1>3, <3>1, <3>2 DEF ReceiveStep
  <2> QED
    BY <2>2, <2>3, <2>4
<1>4. CASE Still
  BY <1>4 DEF Still, emitVars, ViewInv, ViewsIncrease, Emitting
<1> QED
  BY <1>1, <1>2, <1>3, <1>4, StepCases

(* What the line client writes is numbered without a gap and the revisions *)
(* of its views increase, whatever goroutines emit at once, whenever the   *)
(* output fails and whatever the session sends (shell.go:351-371,          *)
(* state.go:40-75).                                                        *)
THEOREM OutputOrderKept == Spec => []OutputIsOrdered
<1>1. Init => TypeInv /\ EmitInv /\ ViewInv
  BY InitTypes, InitEmit, InitViews
<1>2. TypeInv /\ EmitInv /\ ViewInv /\ [Next]_vars => (TypeInv /\ EmitInv /\ ViewInv)'
  BY TypesKept, EmitKept, ViewsKept
<1>3. TypeInv /\ EmitInv /\ ViewInv => OutputIsOrdered
  BY DEF EmitInv, ViewInv, OutputIsOrdered
<1> QED
  BY <1>1, <1>2, <1>3, PTL DEF Spec

-----------------------------------------------------------------------------
(* Operations *)

LEMMA AppendLast ==
  ASSUME NEW s \in Seq(Nat), NEW t \in Seq(Nat), NEW x \in Nat
  PROVE  s \o Append(t, x) = Append(s \o t, x)
OBVIOUS

LEMMA HeadMoves ==
  ASSUME NEW s \in Seq(Nat), NEW t \in Seq(Nat), t # << >>
  PROVE  Append(s, Head(t)) \o Tail(t) = s \o t
OBVIOUS

LEMMA KnownTypes ==
  ASSUME TypeInv, NEW lane \in Lanes
  PROVE  /\ calls[lane] \in Seq(Nat) /\ queue[lane] \in Seq(Nat)
         /\ Known(lane) \in Seq(Nat)
         /\ operationID \in Nat
         /\ \A k \in DOMAIN Known(lane) : Known(lane)[k] \in Nat
BY DEF TypeInv, TypeOK, Known

LEMMA RefusedAreUnknown ==
  ASSUME \A i \in DOMAIN output : output[i].type = "queue_full" =>
           \A lane \in Lanes : output[i].of \notin Range(Known(lane))
  PROVE  \A lane \in Lanes : Range(Known(lane)) \cap Refused = {}
BY DEF Refused

LEMMA InitNumbers == Init => NumberInv
<1> SUFFICES ASSUME Init PROVE NumberInv
  OBVIOUS
<1>1. output = << >> /\ pc["input"] = "ready"
  BY Constants DEF Init
<1>2. \A lane \in Lanes : Known(lane) = << >>
  BY DEF Init, Known
<1>3. \A lane \in Lanes : Range(Known(lane)) = {}
  BY <1>2 DEF Range
<1> QED
  BY <1>1, <1>2, <1>3, Constants DEF NumberInv, OperationsAreDistinct, Refused, Emitting

(* The lanes keep what they know, and at most one new number is drawn. *)
LEMMA NumbersKeptIfKnown ==
  ASSUME TypeInv, TypeInv', NumberInv, output' = output,
         operationID' \in {operationID, operationID + 1},
         \A lane \in Lanes : Known(lane)' = Known(lane),
         Emitting("input")' /\ record'["input"].type = "queue_full" =>
           \/ Emitting("input") /\ record'["input"] = record["input"]
           \/ operationID' = operationID + 1 /\ record'["input"].of = operationID'
  PROVE  NumberInv'
<1>1. \A lane \in Lanes : /\ \A k \in DOMAIN Known(lane) : Known(lane)[k] <= operationID
                          /\ \A k \in DOMAIN Known(lane) : Known(lane)[k] \in Nat
                          /\ operationID \in Nat /\ operationID <= operationID'
  BY KnownTypes DEF NumberInv
<1>2. \A lane \in Lanes : \A k \in DOMAIN Known(lane)' : Known(lane)'[k] <= operationID'
  BY <1>1
<1>3. operationID + 1 \notin UNION {Range(Known(lane)) : lane \in Lanes}
  BY <1>1 DEF Range
<1>4. Emitting("input")' /\ record'["input"].type = "queue_full" =>
        /\ record'["input"].of <= operationID'
        /\ \A lane \in Lanes : record'["input"].of \notin Range(Known(lane)')
  <2> SUFFICES ASSUME Emitting("input")', record'["input"].type = "queue_full"
               PROVE  /\ record'["input"].of <= operationID'
                      /\ \A lane \in Lanes : record'["input"].of \notin Range(Known(lane)')
    OBVIOUS
  <2>1. operationID \in Nat
    BY DEF TypeInv, TypeOK
  <2>2. CASE Emitting("input") /\ record'["input"] = record["input"]
    <3>1. record["input"].of \in Nat
      BY Constants DEF TypeInv, TypeOK
    <3>2. record["input"].of <= operationID
          /\ \A lane \in Lanes : record["input"].of \notin Range(Known(lane))
      BY <2>2 DEF NumberInv
    <3> QED
      BY <2>1, <2>2, <3>1, <3>2
  <2>3. CASE operationID' = operationID + 1 /\ record'["input"].of = operationID'
    BY <1>3, <2>1, <2>3
  <2> QED
    BY <2>2, <2>3
<1>5. \A i \in DOMAIN output' : output'[i].type = "queue_full" =>
        /\ output'[i].of <= operationID'
        /\ \A lane \in Lanes : output'[i].of \notin Range(Known(lane)')
  <2>1. \A i \in DOMAIN output : output[i].of \in Nat
    BY RecordsWritten
  <2>2. operationID \in Nat
    BY DEF TypeInv, TypeOK
  <2> QED
    BY <2>1, <2>2 DEF NumberInv
<1>6. OperationsAreDistinct'
  <2>1. Refused' = Refused
    BY DEF Refused
  <2> QED
    BY <2>1, Constants DEF NumberInv, OperationsAreDistinct
<1> QED
  BY <1>2, <1>4, <1>5, <1>6 DEF NumberInv

(* A lane is given the number just drawn. *)
LEMMA NumbersKeptByQueueing ==
  ASSUME TypeInv, TypeInv', NumberInv, NEW lane \in Lanes,
         UNCHANGED <<output, calls, pc, record>>,
         pc["input"] = "ready",
         operationID' = operationID + 1,
         queue' = [queue EXCEPT ![lane] = Append(@, operationID')]
  PROVE  NumberInv'
<1> DEFINE n == Len(Known(lane)) + 1
<1>1. operationID \in Nat /\ calls[lane] \in Seq(Nat) /\ queue[lane] \in Seq(Nat) /\ Known(lane) \in Seq(Nat)
  BY KnownTypes
<1>2. Known(lane)' = Append(Known(lane), operationID')
  <2>1. queue'[lane] = Append(queue[lane], operationID')
    BY DEF TypeInv, TypeOK
  <2>2. calls'[lane] = calls[lane] /\ operationID' \in Nat
    BY <1>1
  <2>3. calls[lane] \o Append(queue[lane], operationID') = Append(calls[lane] \o queue[lane], operationID')
    BY <1>1, <2>2, AppendLast
  <2> QED
    BY <2>1, <2>2, <2>3 DEF Known
<1>3. \A other \in Lanes \ {lane} : Known(other)' = Known(other)
  BY DEF Known, TypeInv, TypeOK
<1>4. /\ DOMAIN Known(lane) = 1..(n - 1) /\ DOMAIN Known(lane)' = 1..n /\ n \in Nat
      /\ \A k \in 1..(n - 1) : Known(lane)'[k] = Known(lane)[k]
      /\ Known(lane)'[n] = operationID'
  BY <1>1, <1>2, AppendedSeq
<1> HIDE DEF n
<1>5. \A l \in Lanes : \A k \in DOMAIN Known(l) : Known(l)[k] <= operationID /\ Known(l)[k] \in Nat
  BY KnownTypes DEF NumberInv
<1>6. \A l \in Lanes : \A k \in DOMAIN Known(l)' : Known(l)'[k] <= operationID'
  <2>1. \A k \in DOMAIN Known(lane)' : Known(lane)'[k] <= operationID'
    <3> SUFFICES ASSUME NEW k \in DOMAIN Known(lane)' PROVE Known(lane)'[k] <= operationID'
      OBVIOUS
    <3>1. CASE k = n
      BY <1>1, <1>4, <3>1
    <3>2. CASE k \in 1..(n - 1)
      <4>1. Known(lane)'[k] = Known(lane)[k] /\ Known(lane)[k] <= operationID /\ Known(lane)[k] \in Nat
        BY <1>4, <1>5, <3>2
      <4> QED
        BY <1>1, <4>1
    <3> QED
      BY <1>4, <3>1, <3>2
  <2>2. \A l \in Lanes \ {lane} : \A k \in DOMAIN Known(l)' : Known(l)'[k] <= operationID'
    BY <1>1, <1>3, <1>5
  <2> QED
    BY <2>1, <2>2
<1>7. Range(Known(lane)') = Range(Known(lane)) \cup {operationID'}
  <2>1. \A x \in Range(Known(lane)) : \E k \in 1..(n - 1) : x = Known(lane)'[k]
    BY <1>4 DEF Range
  <2>2. \A k \in 1..n : k \in 1..(n - 1) \/ k = n
    BY <1>4
  <2>3. 1..(n - 1) \subseteq 1..n /\ n \in 1..n
    BY <1>4 DEF n
  <2>4. \A k \in DOMAIN Known(lane)' : Known(lane)'[k] \in Range(Known(lane)) \cup {operationID'}
    BY <1>4, <2>2 DEF Range
  <2>5. \A x \in Range(Known(lane)) \cup {operationID'} : \E k \in DOMAIN Known(lane)' : x = Known(lane)'[k]
    BY <1>4, <2>1, <2>3
  <2> QED
    BY <2>4, <2>5 DEF Range
<1>8. \A i \in DOMAIN output : output[i].type = "queue_full" =>
        /\ output[i].of <= operationID' /\ output[i].of # operationID'
        /\ \A l \in Lanes : output[i].of \notin Range(Known(l)')
  <2> SUFFICES ASSUME NEW i \in DOMAIN output, output[i].type = "queue_full"
               PROVE  /\ output[i].of <= operationID' /\ output[i].of # operationID'
                      /\ \A l \in Lanes : output[i].of \notin Range(Known(l)')
    OBVIOUS
  <2>1. output[i].of <= operationID /\ \A l \in Lanes : output[i].of \notin Range(Known(l))
    BY DEF NumberInv
  <2>2. output[i].of \in Nat
    BY RecordsWritten
  <2>3. output[i].of <= operationID' /\ output[i].of # operationID'
    BY <1>1, <2>1, <2>2
  <2> QED
    BY <1>3, <1>7, <2>1, <2>3
<1>9. OperationsAreDistinct'
  <2>1. \A l \in Lanes : Range(Known(l)') \cap Refused' = {}
    BY <1>8, RefusedAreUnknown DEF Refused
  <2>2. \A i, j \in DOMAIN Known(lane)' : i < j => Known(lane)'[i] < Known(lane)'[j]
    <3> SUFFICES ASSUME NEW i \in DOMAIN Known(lane)', NEW j \in DOMAIN Known(lane)', i < j
                 PROVE  Known(lane)'[i] < Known(lane)'[j]
      OBVIOUS
    <3>1. i \in 1..(n - 1)
      BY <1>4
    <3>2. CASE j = n
      <4>1. Known(lane)'[i] = Known(lane)[i] /\ Known(lane)[i] <= operationID /\ Known(lane)[i] \in Nat
        BY <1>4, <1>5, <3>1
      <4> QED
        BY <1>1, <1>4, <3>2, <4>1
    <3>3. CASE j \in 1..(n - 1)
      <4>1. Known(lane)[i] < Known(lane)[j]
        BY <1>4, <3>1, <3>3 DEF NumberInv, OperationsAreDistinct
      <4> QED
        BY <1>4, <3>1, <3>3, <4>1
    <3> QED
      BY <1>4, <3>2, <3>3
  <2>3. \A l \in Lanes : \A i, j \in DOMAIN Known(l)' : i < j => Known(l)'[i] < Known(l)'[j]
    BY <1>3, <2>2 DEF NumberInv, OperationsAreDistinct
  <2>4. \A l \in Lanes : operationID' \notin Range(Known(l))
    BY <1>1, <1>5 DEF Range
  <2>5. Range(Known("ordinary")') \cap Range(Known("cancels")') = {}
    <3>1. Range(Known("ordinary")) \cap Range(Known("cancels")) = {}
      BY DEF NumberInv, OperationsAreDistinct
    <3>2. CASE lane = "ordinary"
      <4>1. Known("cancels")' = Known("cancels")
        BY <1>3, <3>2, Constants
      <4> QED
        BY <1>7, <2>4, <3>1, <3>2, <4>1, Constants
    <3>3. CASE lane = "cancels"
      <4>1. Known("ordinary")' = Known("ordinary")
        BY <1>3, <3>3, Constants
      <4> QED
        BY <1>7, <2>4, <3>1, <3>3, <4>1, Constants
    <3> QED
      BY <3>2, <3>3, Constants
  <2> QED
    BY <2>1, <2>3, <2>5 DEF OperationsAreDistinct
<1> QED
  BY <1>6, <1>8, <1>9 DEF NumberInv, Emitting

LEMMA NumbersKept ==
  ASSUME TypeInv, TypeInv', EmitInv, NumberInv, [Next]_vars
  PROVE  NumberInv'
<1>1. CASE \E w \in Workers : Lock(w) \/ Written(w) \/ WriteFails(w)
  <2>1. PICK w \in Workers : Lock(w) \/ Written(w) \/ WriteFails(w)
    BY <1>1
  <2>2. EmitterOnly(w) /\ EmitterMoves(w)
    BY <2>1, EmitterMovesOn
  <2>3. /\ UNCHANGED operationID
        /\ \A lane \in Lanes : Known(lane)' = Known(lane)
    BY <2>2 DEF EmitterOnly, inputVars, Known
  <2>4. Emitting("input")' => Emitting("input") /\ record'["input"].type = record["input"].type
                                                /\ record'["input"].of = record["input"].of
    BY <2>2, Constants DEF EmitterOnly, Emitting
  <2>5. \A i \in DOMAIN output' : output'[i].type = "queue_full" =>
          /\ output'[i].of <= operationID
          /\ \A lane \in Lanes : output'[i].of \notin Range(Known(lane))
    <3>1. CASE output' = output
      BY <3>1 DEF NumberInv
    <3>2. CASE \E r \in Records : Leaves(w, r)
      <4>1. PICK r \in Records : Leaves(w, r)
        BY <3>2
      <4>2. /\ DOMAIN output' = DOMAIN output \cup {Len(output) + 1}
            /\ \A i \in DOMAIN output : output'[i] = output[i]
            /\ output'[Len(output) + 1] = r
        BY <4>1, Added DEF Leaves
      <4>3. r.type = "queue_full" => record[w].type = "queue_full" /\ r.of = record[w].of
        BY <4>1 DEF Leaves
      <4>4. record[w].type = "queue_full" => w = "input"
        BY <2>2, Constants DEF EmitterOnly, TypeInv, PlaceInv, TypesOf, Answers
      <4>5. r.type = "queue_full" => /\ r.of <= operationID
                                     /\ \A lane \in Lanes : r.of \notin Range(Known(lane))
        BY <2>2, <4>3, <4>4 DEF NumberInv, EmitterOnly
      <4> QED
        BY <4>2, <4>5 DEF NumberInv
    <3> QED
      BY <2>2, <3>1, <3>2 DEF EmitterMoves
  <2>6. OperationsAreDistinct'
    <3>1. \A lane \in Lanes : Range(Known(lane)') \cap Refused' = {}
      BY <2>3, <2>5 DEF Refused
    <3> QED
      BY <2>3, <3>1, Constants DEF NumberInv, OperationsAreDistinct
  <2> QED
    BY <2>3, <2>4, <2>5, <2>6 DEF NumberInv
<1>2. CASE InputStep /\ Elsewhere("input")
  <2>1. output' = output /\ calls' = calls /\ "input" \in Workers
    BY <1>2, Constants DEF Elsewhere, emitVars, InputStep, InvalidCommand, Quit, Command, ReadLine,
                EndOfInput, InputFails, StopWorkers, Return
  <2>2. CASE \E lane \in Lanes : /\ Command(lane)
                                 /\ queue' = [queue EXCEPT ![lane] = Append(@, operationID')]
                                 /\ UNCHANGED <<pc, record>>
    BY <2>1, <2>2, NumbersKeptByQueueing DEF Command, ReadLine, Reading
  <2>3. CASE \E lane \in Lanes : /\ Command(lane) /\ queue' = queue
                                 /\ \/ Goto("input", "stop")
                                    \/ Emit("input", "queue_full", operationID')
    <3>1. operationID' = operationID + 1 /\ operationID' \in Nat
      BY <2>3 DEF Command, TypeInv, TypeOK
    <3>2. \A lane \in Lanes : Known(lane)' = Known(lane)
      BY <2>1, <2>3 DEF Known
    <3>3. Emitting("input")' => record'["input"].of = operationID'
      <4>1. CASE Goto("input", "stop")
        <5>1. pc'["input"] = "stop"
          BY <2>1, <4>1 DEF Goto, TypeInv, TypeOK
        <5> QED
          BY <5>1 DEF Emitting
      <4>2. CASE Emit("input", "queue_full", operationID')
        BY <2>1, <3>1, <4>2, EmitsOne DEF TypesOf
      <4> QED
        BY <2>3, <4>1, <4>2
    <3> QED
      BY <2>1, <3>1, <3>2, <3>3, NumbersKeptIfKnown
  <2>4. CASE \/ InvalidCommand \/ Quit \/ EndOfInput \/ InputFails \/ StopWorkers \/ Return
    <3>1. operationID' = operationID /\ \A lane \in Lanes : Known(lane)' = Known(lane)
      BY <2>4 DEF InvalidCommand, Quit, ReadLine, EndOfInput, InputFails, StopWorkers, Return, inputVars, Known
    <3>2. Emitting("input")' => record'["input"].type # "queue_full"
      <4>1. CASE \E type \in {"invalid_command", "quit", "input_failed"} : Emit("input", type, 0)
        <5>1. record'["input"].type \in {"invalid_command", "quit", "input_failed"}
          BY <2>1, <4>1, EmitsOne DEF TypesOf
        <5> QED
          BY <5>1
      <4>2. CASE \E place \in {"stop", "join", "done"} : Goto("input", place)
        BY <2>1, <4>2 DEF Goto, Emitting, TypeInv, TypeOK
      <4>3. \/ \E type \in {"invalid_command", "quit", "input_failed"} : Emit("input", type, 0)
            \/ \E place \in {"stop", "join", "done"} : Goto("input", place)
        BY <2>4 DEF InvalidCommand, Quit, EndOfInput, InputFails, StopWorkers, Return
      <4> QED
        BY <4>1, <4>2, <4>3
    <3> QED
      BY <2>1, <3>1, <3>2, NumbersKeptIfKnown
  <2>5. \A lane \in Lanes : Command(lane) =>
          \/ queue' = [queue EXCEPT ![lane] = Append(@, operationID')] /\ UNCHANGED <<pc, record>>
          \/ queue' = queue /\ (Goto("input", "stop") \/ Emit("input", "queue_full", operationID'))
    BY DEF Command
  <2> QED
    BY <1>2, <2>2, <2>3, <2>4, <2>5 DEF InputStep
<1>3. CASE \/ ReceiveStep /\ Elsewhere("receive")
           \/ \E lane \in Lanes : LaneStep(lane) /\ Elsewhere(lane)
           \/ Still
  <2>1. output' = output /\ operationID' = operationID
        /\ pc'["input"] = pc["input"] /\ record'["input"] = record["input"]
    <3>1. CASE ReceiveStep /\ Elsewhere("receive")
      BY <3>1, Constants DEF Elsewhere, emitVars, inputVars, ReceiveStep, CallReceive, Receive, ReceiveFails,
                             Signal, StopReceiving
    <3>2. CASE \E lane \in Lanes : LaneStep(lane) /\ Elsewhere(lane)
      BY <3>2, Constants DEF Elsewhere, emitVars, inputVars, LaneStep, Take, Leave, Answered
    <3>3. CASE Still
      BY <3>3 DEF Still, emitVars
    <3> QED
      BY <1>3, <3>1, <3>2, <3>3
  <2>2. \A lane \in Lanes : Known(lane)' = Known(lane)
    <3>1. CASE ReceiveStep \/ Still \/ \E lane \in Lanes : Leave(lane) \/ Answered(lane)
      BY <3>1 DEF ReceiveStep, CallReceive, Receive, ReceiveFails, Signal, StopReceiving, Still, Known,
                  Leave, Answered
    <3>2. ASSUME NEW lane \in Lanes, Take(lane)
          PROVE  \A l \in Lanes : Known(l)' = Known(l)
      <4>1. calls'[lane] = Append(calls[lane], Head(queue[lane])) /\ queue'[lane] = Tail(queue[lane])
            /\ queue[lane] # << >>
            /\ \A l \in Lanes \ {lane} : calls'[l] = calls[l] /\ queue'[l] = queue[l]
        BY <3>2 DEF Take, TypeInv, TypeOK
      <4>2. Known(lane)' = Known(lane)
        BY <4>1, HeadMoves, KnownTypes DEF Known
      <4> QED
        BY <4>1, <4>2 DEF Known
    <3> QED
      BY <1>3, <3>1, <3>2 DEF LaneStep
  <2> QED
    BY <2>1, <2>2, NumbersKeptIfKnown DEF Emitting
<1> QED
  BY <1>1, <1>2, <1>3, StepCases

(* An operation of the line client is attempted at most once, in the order *)
(* of the commands and by its own lane, and never once it was refused: the *)
(* numbers in both queues, in the calls and in the refusals are disjoint   *)
(* and grow, whatever the select in readCommands chooses                   *)
(* (shell.go:113-164, 259-287).                                            *)
THEOREM OperationsKeptDistinct == Spec => []OperationsAreDistinct
<1>1. Init => TypeInv /\ EmitInv /\ NumberInv
  BY InitTypes, InitEmit, InitNumbers
<1>2. TypeInv /\ EmitInv /\ NumberInv /\ [Next]_vars => (TypeInv /\ EmitInv /\ NumberInv)'
  BY TypesKept, EmitKept, NumbersKept
<1>3. NumberInv => OperationsAreDistinct
  BY DEF NumberInv
<1> QED
  BY <1>1, <1>2, <1>3, PTL DEF Spec

-----------------------------------------------------------------------------
(* Answers *)

LEMMA Concatenated ==
  ASSUME NEW s \in Seq(Nat), NEW t \in Seq(Nat)
  PROVE  /\ \A k \in DOMAIN s : k \in DOMAIN (s \o t) /\ (s \o t)[k] = s[k] /\ k \in 1..Len(s)
         /\ t # << >> => /\ Len(s) + 1 \in DOMAIN (s \o t) /\ Len(s) \in Nat
                         /\ (s \o t)[Len(s) + 1] = Head(t)
OBVIOUS

LEMMA CallsDiffer ==
  ASSUME TypeInv, NumberInv
  PROVE  /\ \A lane \in Lanes : \A k, l \in DOMAIN calls[lane] : k # l => calls[lane][k] # calls[lane][l]
         /\ \A a, b \in Lanes : a # b => Range(calls[a]) \cap Range(calls[b]) = {}
         /\ \A lane \in Lanes : queue[lane] # << >> =>
              \A other \in Lanes : Head(queue[lane]) \notin Range(calls[other])
<1>1. \A lane \in Lanes :
        /\ calls[lane] \in Seq(Nat) /\ queue[lane] \in Seq(Nat) /\ Known(lane) \in Seq(Nat)
        /\ \A i, j \in DOMAIN Known(lane) : i < j => Known(lane)[i] < Known(lane)[j]
        /\ \A i \in DOMAIN Known(lane) : Known(lane)[i] \in Nat
  BY KnownTypes DEF NumberInv, OperationsAreDistinct
<1>2. \A lane \in Lanes : \A k \in DOMAIN calls[lane] :
        k \in DOMAIN Known(lane) /\ Known(lane)[k] = calls[lane][k] /\ k \in 1..Len(calls[lane])
  BY <1>1, Concatenated DEF Known
<1>3. \A lane \in Lanes : queue[lane] # << >> =>
        /\ Len(calls[lane]) + 1 \in DOMAIN Known(lane) /\ Len(calls[lane]) \in Nat
        /\ Known(lane)[Len(calls[lane]) + 1] = Head(queue[lane])
  BY <1>1, Concatenated DEF Known
<1>4. \A lane \in Lanes : Range(calls[lane]) \subseteq Range(Known(lane))
  BY <1>2 DEF Range
<1>5. ASSUME NEW lane \in Lanes, NEW k \in DOMAIN calls[lane], NEW l \in DOMAIN calls[lane], k # l
      PROVE  calls[lane][k] # calls[lane][l]
  <2>1. (k < l \/ l < k) /\ Known(lane)[k] \in Nat /\ Known(lane)[l] \in Nat
    BY <1>1, <1>2, <1>5
  <2>2. Known(lane)[k] < Known(lane)[l] \/ Known(lane)[l] < Known(lane)[k]
    BY <1>1, <1>2, <2>1
  <2> QED
    BY <1>2, <2>1, <2>2
<1>6. ASSUME NEW a \in Lanes, NEW b \in Lanes, a # b
      PROVE  Range(Known(a)) \cap Range(Known(b)) = {}
  BY <1>6, Constants DEF NumberInv, OperationsAreDistinct
<1>7. ASSUME NEW lane \in Lanes, queue[lane] # << >>, NEW other \in Lanes
      PROVE  Head(queue[lane]) \notin Range(calls[other])
  <2>1. CASE other = lane
    <3> SUFFICES ASSUME NEW k \in DOMAIN calls[lane] PROVE calls[lane][k] # Head(queue[lane])
      BY <2>1 DEF Range
    <3>1. k < Len(calls[lane]) + 1
      BY <1>2, <1>3, <1>7
    <3>2. Known(lane)[k] < Known(lane)[Len(calls[lane]) + 1]
      BY <1>1, <1>2, <1>3, <1>7, <3>1
    <3> QED
      BY <1>1, <1>2, <1>3, <1>7, <3>2
  <2>2. CASE other # lane
    <3>1. Head(queue[lane]) \in Range(Known(lane))
      BY <1>3, <1>7 DEF Range
    <3> QED
      BY <1>4, <1>6, <2>2, <3>1
  <2> QED
    BY <2>1, <2>2
<1>8. \A a, b \in Lanes : a # b => Range(calls[a]) \cap Range(calls[b]) = {}
  BY <1>4, <1>6
<1> QED
  BY <1>5, <1>7, <1>8

LEMMA InitAnswers == Init => AnswerInv
<1> SUFFICES ASSUME Init PROVE AnswerInv
  OBVIOUS
<1>1. output = << >> /\ \A lane \in Lanes : pc[lane] = "ready" /\ calls[lane] = << >>
  BY Constants DEF Init
<1> QED
  BY <1>1 DEF AnswerInv, CallsAreAnswered, Emitting

(* No call is made and no answer written. *)
LEMMA AnswersKeptIfNone ==
  ASSUME TypeInv, AnswerInv, calls' = calls, failure => failure',
         \A op : AnswersIn(output', op) = AnswersIn(output, op),
         \A lane \in Lanes :
           /\ Emitting(lane)' => record'[lane].of = Last(calls[lane])
           /\ pc'[lane] \in {"calling", "emit", "write"} => pc[lane] \in {"calling", "emit", "write"}
           /\ pc'[lane] = "ready" => pc[lane] = "ready" \/ failure'
  PROVE  AnswerInv'
<1>1. \A i \in DOMAIN output' : output'[i].type \in Answers =>
        \E lane \in Lanes : output'[i].of \in Range(calls'[lane])
  <2> SUFFICES ASSUME NEW i \in DOMAIN output', output'[i].type \in Answers
               PROVE  \E lane \in Lanes : output'[i].of \in Range(calls'[lane])
    OBVIOUS
  <2>1. i \in AnswersIn(output', output'[i].of)
    BY DEF AnswersIn
  <2>2. i \in AnswersIn(output, output'[i].of)
    BY <2>1
  <2>3. i \in DOMAIN output /\ output[i].type \in Answers /\ output[i].of = output'[i].of
    BY <2>2 DEF AnswersIn
  <2> QED
    BY <2>3 DEF AnswerInv, CallsAreAnswered
<1>2. ASSUME NEW lane \in Lanes, NEW k \in DOMAIN calls[lane]
      PROVE  /\ k < Len(calls[lane]) /\ ~failure' => AnswersIn(output', calls[lane][k]) # {}
             /\ \A i \in AnswersIn(output', calls[lane][k]) :
                  /\ AnswersIn(output', calls[lane][k]) = {i}
                  /\ \A l \in 1..(k - 1) : \E j \in AnswersIn(output', calls[lane][l]) : j < i
  <2>1. /\ k < Len(calls[lane]) /\ ~failure => AnswersIn(output, calls[lane][k]) # {}
        /\ \A i \in AnswersIn(output, calls[lane][k]) :
             /\ AnswersIn(output, calls[lane][k]) = {i}
             /\ \A l \in 1..(k - 1) : \E j \in AnswersIn(output, calls[lane][l]) : j < i
    BY DEF AnswerInv, CallsAreAnswered
  <2>2. \A l : AnswersIn(output', calls[lane][l]) = AnswersIn(output, calls[lane][l])
    OBVIOUS
  <2> QED
    BY <2>1, <2>2
<1>3. CallsAreAnswered'
  BY <1>1, <1>2 DEF CallsAreAnswered
<1> QED
  BY <1>3 DEF AnswerInv

LEMMA AnswersAdded ==
  ASSUME TypeInv, NEW r \in Records, output' = Append(output, r)
  PROVE  /\ r.type \notin Answers => \A op : AnswersIn(output', op) = AnswersIn(output, op)
         /\ \A op : op # r.of => AnswersIn(output', op) = AnswersIn(output, op)
         /\ r.type \in Answers =>
              AnswersIn(output', r.of) = AnswersIn(output, r.of) \cup {Len(output) + 1}
         /\ \A op : \A i \in AnswersIn(output, op) : i < Len(output) + 1
BY Added DEF AnswersIn

(* A lane has written what came of its last call. *)
LEMMA AnswersKeptByAnswer ==
  ASSUME TypeInv, AnswerInv, NumberInv, NEW lane \in Lanes, NEW r \in Records,
         pc[lane] = "write", ~failure, calls' = calls,
         output' = Append(output, r), r.type \in Answers, r.of = Last(calls[lane]),
         pc'[lane] = "ready",
         \A other \in Lanes \ {lane} : pc'[other] = pc[other] /\ record'[other] = record[other]
  PROVE  AnswerInv'
<1> DEFINE n == Len(calls[lane])
           op == Last(calls[lane])
           new == Len(output) + 1
<1>1. calls[lane] \in Seq(Nat) /\ calls[lane] # << >>
  BY DEF TypeInv, TypeOK, PlaceInv
<1>2. op = calls[lane][n] /\ n \in DOMAIN calls[lane] /\ DOMAIN calls[lane] = 1..n /\ n \in Nat
  BY <1>1, LastInSeq
<1>3. /\ \A other : other # op => AnswersIn(output', other) = AnswersIn(output, other)
      /\ AnswersIn(output', op) = AnswersIn(output, op) \cup {new}
      /\ \A other : \A i \in AnswersIn(output, other) : i < new
  BY AnswersAdded
<1>4. AnswersIn(output, op) = {}
  BY DEF AnswerInv
<1>5. \A l \in Lanes : \A k \in DOMAIN calls[l] : l # lane \/ k # n => calls[l][k] # op
  <2>1. op \in Range(calls[lane])
    BY <1>2 DEF Range
  <2>2. ASSUME NEW l \in Lanes, l # lane, NEW k \in DOMAIN calls[l] PROVE calls[l][k] # op
    <3>1. calls[l][k] \in Range(calls[l])
      BY DEF Range
    <3>2. Range(calls[l]) \cap Range(calls[lane]) = {}
      BY <2>2, CallsDiffer
    <3> QED
      BY <2>1, <3>1, <3>2
  <2>3. \A k \in DOMAIN calls[lane] : k # n => calls[lane][k] # op
    BY <1>2, CallsDiffer
  <2> QED
    BY <2>2, <2>3
<1> HIDE DEF n, op, new
<1>6. \A i \in DOMAIN output' : output'[i].type \in Answers =>
        \E l \in Lanes : output'[i].of \in Range(calls'[l])
  <2>1. \A i \in DOMAIN output : output'[i] = output[i]
    BY Added
  <2>2. DOMAIN output' = DOMAIN output \cup {new} /\ output'[new] = r
    BY Added DEF new
  <2>3. r.of \in Range(calls[lane])
    BY <1>2 DEF Range, op
  <2> QED
    BY <2>1, <2>2, <2>3 DEF AnswerInv, CallsAreAnswered
<1>7. ASSUME NEW l \in Lanes, NEW k \in DOMAIN calls[l]
      PROVE  /\ k < Len(calls[l]) => AnswersIn(output', calls[l][k]) # {}
             /\ \A i \in AnswersIn(output', calls[l][k]) :
                  /\ AnswersIn(output', calls[l][k]) = {i}
                  /\ \A m \in 1..(k - 1) : \E j \in AnswersIn(output', calls[l][m]) : j < i
  <2>0. calls[l] \in Seq(Nat) /\ k \in 1..Len(calls[l]) /\ DOMAIN calls[l] = 1..Len(calls[l])
    BY DEF TypeInv, TypeOK
  <2>1. /\ k < Len(calls[l]) => AnswersIn(output, calls[l][k]) # {}
        /\ \A i \in AnswersIn(output, calls[l][k]) :
             /\ AnswersIn(output, calls[l][k]) = {i}
             /\ \A m \in 1..(k - 1) : \E j \in AnswersIn(output, calls[l][m]) : j < i
    BY DEF AnswerInv, CallsAreAnswered
  <2>2. CASE l = lane /\ k = n
    <3>1. AnswersIn(output', calls[l][k]) = {new}
      BY <1>2, <1>3, <1>4, <2>2
    <3>2. ASSUME NEW m \in 1..(k - 1) PROVE \E j \in AnswersIn(output', calls[l][m]) : j < new
      <4>1. m \in DOMAIN calls[lane] /\ m < Len(calls[lane]) /\ m # n
        BY <1>2, <2>0, <2>2 DEF n
      <4>2. AnswersIn(output, calls[lane][m]) # {}
        BY <4>1 DEF AnswerInv, CallsAreAnswered
      <4>3. AnswersIn(output', calls[lane][m]) = AnswersIn(output, calls[lane][m])
        BY <1>3, <1>5, <4>1
      <4> QED
        BY <1>3, <2>2, <4>2, <4>3
    <3>3. ~(k < Len(calls[l]))
      BY <1>2, <2>2 DEF n
    <3> QED
      BY <3>1, <3>2, <3>3
  <2>3. CASE l # lane \/ k # n
    <3>1. \A m \in 1..(k - 1) : m \in DOMAIN calls[l] /\ (l # lane \/ m # n)
      <4>1. l = lane => k \in 1..n
        BY <1>2
      <4> QED
        BY <1>2, <2>0, <4>1
    <3>2. AnswersIn(output', calls[l][k]) = AnswersIn(output, calls[l][k])
      BY <1>3, <1>5, <2>3
    <3>3. \A m \in 1..(k - 1) : AnswersIn(output', calls[l][m]) = AnswersIn(output, calls[l][m])
      BY <1>3, <1>5, <3>1
    <3> QED
      BY <2>1, <3>2, <3>3
  <2> QED
    BY <2>2, <2>3
<1>8. CallsAreAnswered'
  BY <1>6, <1>7 DEF CallsAreAnswered
<1>9. \A l \in Lanes : Emitting(l)' => record'[l].of = Last(calls[l])
  BY DEF AnswerInv, Emitting
<1>10. ASSUME NEW l \in Lanes, pc'[l] \in {"calling", "emit", "write"}
       PROVE  AnswersIn(output', Last(calls[l])) = {}
  <2>1. l # lane /\ pc[l] \in {"calling", "emit", "write"}
    BY <1>10
  <2>2. AnswersIn(output, Last(calls[l])) = {} /\ calls[l] # << >> /\ calls[l] \in Seq(Nat)
    BY <2>1 DEF AnswerInv, TypeInv, TypeOK, PlaceInv
  <2>3. Last(calls[l]) # op
    BY <1>5, <2>1, <2>2, LastInSeq
  <2> QED
    BY <1>3, <2>2, <2>3
<1>11. ASSUME NEW l \in Lanes, pc'[l] = "ready", ~failure', NEW k \in DOMAIN calls[l]
       PROVE  AnswersIn(output', calls[l][k]) # {}
  <2>1. CASE l = lane
    <3>1. CASE k = n
      BY <1>2, <1>3, <2>1, <3>1
    <3>2. CASE k # n
      <4>1. k < Len(calls[l])
        BY <1>2, <2>1, <3>2 DEF n
      <4> QED
        BY <1>7, <4>1
    <3> QED
      BY <3>1, <3>2
  <2>2. CASE l # lane
    <3>1. AnswersIn(output, calls[l][k]) # {}
      BY <1>11, <2>2 DEF AnswerInv
    <3> QED
      BY <1>3, <1>5, <2>2, <3>1
  <2> QED
    BY <2>1, <2>2
<1> QED
  BY <1>8, <1>9, <1>10, <1>11 DEF AnswerInv

(* A lane makes a call that nothing was said about yet. *)
LEMMA AnswersKeptByTake ==
  ASSUME TypeInv, AnswerInv, NumberInv, NEW lane \in Lanes, Take(lane)
  PROVE  AnswerInv'
<1> DEFINE n == Len(calls[lane])
           op == Head(queue[lane])
<1>1. calls[lane] \in Seq(Nat) /\ queue[lane] \in Seq(Nat) /\ queue[lane] # << >> /\ op \in Nat
  <2>1. calls[lane] \in Seq(Nat) /\ queue[lane] \in Seq(Nat) /\ queue[lane] # << >>
    BY DEF Take, TypeInv, TypeOK
  <2> QED
    BY <2>1
<1>2. /\ UNCHANGED <<output, failure, record>> /\ pc[lane] = "ready"
      /\ calls'[lane] = Append(calls[lane], op)
      /\ \A other \in Lanes \ {lane} : calls'[other] = calls[other]
      /\ pc'[lane] = "calling" /\ \A other \in Workers \ {lane} : pc'[other] = pc[other]
  BY Constants DEF Take, emitVars, Goto, TypeInv, TypeOK
<1>3. /\ n \in Nat /\ DOMAIN calls[lane] = 1..n /\ DOMAIN calls'[lane] = 1..(n + 1)
      /\ \A k \in 1..n : calls'[lane][k] = calls[lane][k]
      /\ calls'[lane][n + 1] = op
      /\ Len(calls'[lane]) = n + 1 /\ Last(calls'[lane]) = op
  <2>1. calls'[lane] \in Seq(Nat) /\ calls'[lane] # << >>
    BY <1>1, <1>2, AppendedSeq
  <2>2. /\ n \in Nat /\ DOMAIN calls[lane] = 1..n /\ DOMAIN calls'[lane] = 1..(n + 1)
        /\ \A k \in 1..n : calls'[lane][k] = calls[lane][k]
        /\ calls'[lane][n + 1] = op /\ Len(calls'[lane]) = n + 1
    BY <1>1, <1>2, AppendedSeq
  <2>3. Last(calls'[lane]) = calls'[lane][n + 1]
    BY <2>1, <2>2, LastInSeq
  <2> QED
    BY <2>2, <2>3
<1>4. \A other \in Lanes : op \notin Range(calls[other])
  BY <1>1, CallsDiffer
<1> HIDE DEF n, op
<1>5. AnswersIn(output, op) = {}
  <2>1. \A i \in DOMAIN output : output[i].type \in Answers => output[i].of # op
    BY <1>4 DEF AnswerInv, CallsAreAnswered
  <2> QED
    BY <2>1 DEF AnswersIn
<1>6. ASSUME NEW i \in DOMAIN output, output[i].type \in Answers
      PROVE  \E l \in Lanes : output[i].of \in Range(calls'[l])
  <2>1. PICK l \in Lanes : output[i].of \in Range(calls[l])
    BY <1>6 DEF AnswerInv, CallsAreAnswered
  <2>2. Range(calls[l]) \subseteq Range(calls'[l])
    <3>1. 1..n \subseteq 1..(n + 1)
      BY <1>3
    <3> QED
      BY <1>2, <1>3, <3>1 DEF Range
  <2> QED
    BY <2>1, <2>2
<1>7. ASSUME NEW l \in Lanes, NEW k \in DOMAIN calls'[l]
      PROVE  /\ k < Len(calls'[l]) /\ ~failure => AnswersIn(output, calls'[l][k]) # {}
             /\ \A i \in AnswersIn(output, calls'[l][k]) :
                  /\ AnswersIn(output, calls'[l][k]) = {i}
                  /\ \A m \in 1..(k - 1) : \E j \in AnswersIn(output, calls'[l][m]) : j < i
  <2>1. CASE l # lane
    <3>1. calls'[l] = calls[l] /\ k \in DOMAIN calls[l]
      BY <1>2, <2>1
    <3>2. /\ k < Len(calls[l]) /\ ~failure => AnswersIn(output, calls[l][k]) # {}
          /\ \A i \in AnswersIn(output, calls[l][k]) :
               /\ AnswersIn(output, calls[l][k]) = {i}
               /\ \A m \in 1..(k - 1) : \E j \in AnswersIn(output, calls[l][m]) : j < i
      BY <3>1 DEF AnswerInv, CallsAreAnswered
    <3> QED
      BY <3>1, <3>2
  <2>2. CASE l = lane /\ k = n + 1
    BY <1>3, <1>5, <2>2
  <2>3. CASE l = lane /\ k # n + 1
    <3>1. k \in 1..n /\ \A m \in 1..(k - 1) : m \in 1..n
      BY <1>3, <2>3
    <3>2. /\ ~failure => AnswersIn(output, calls[lane][k]) # {}
          /\ \A i \in AnswersIn(output, calls[lane][k]) :
               /\ AnswersIn(output, calls[lane][k]) = {i}
               /\ \A m \in 1..(k - 1) : \E j \in AnswersIn(output, calls[lane][m]) : j < i
      <4>1. k \in DOMAIN calls[lane] /\ (~failure => AnswersIn(output, calls[lane][k]) # {})
        BY <1>2, <1>3, <3>1 DEF AnswerInv
      <4> QED
        BY <4>1 DEF AnswerInv, CallsAreAnswered
    <3> QED
      BY <1>3, <2>3, <3>1, <3>2
  <2> QED
    BY <2>1, <2>2, <2>3
<1>8. CallsAreAnswered'
  BY <1>2, <1>6, <1>7 DEF CallsAreAnswered
<1>9. \A l \in Lanes : Emitting(l)' => l # lane /\ Emitting(l) /\ calls'[l] = calls[l]
  BY <1>2, Constants DEF Emitting
<1>10. \A l \in Lanes : pc'[l] \in {"calling", "emit", "write"} => AnswersIn(output, Last(calls'[l])) = {}
  <2>1. AnswersIn(output, Last(calls'[lane])) = {}
    BY <1>3, <1>5
  <2>2. \A l \in Lanes \ {lane} : pc'[l] \in {"calling", "emit", "write"} =>
          AnswersIn(output, Last(calls'[l])) = {}
    BY <1>2, Constants DEF AnswerInv
  <2> QED
    BY <2>1, <2>2
<1>11. \A l \in Lanes : pc'[l] = "ready" => l # lane /\ pc[l] = "ready" /\ calls'[l] = calls[l]
  BY <1>2, Constants
<1> QED
  BY <1>2, <1>8, <1>9, <1>10, <1>11 DEF AnswerInv

LEMMA AnswersKept ==
  ASSUME TypeInv, EmitInv, NumberInv, AnswerInv, [Next]_vars
  PROVE  AnswerInv'
<1>1. CASE \E w \in Workers : Lock(w) \/ Written(w) \/ WriteFails(w)
  <2>1. PICK w \in Workers : Lock(w) \/ Written(w) \/ WriteFails(w)
    BY <1>1
  <2>2. EmitterOnly(w) /\ EmitterMoves(w) /\ (failure => failure')
    <3>1. failure' = failure \/ failure' = TRUE
      BY <2>1 DEF Lock, Written, WriteFails
    <3> QED
      BY <2>1, <3>1, EmitterMovesOn
  <2>3. Emitting(w) /\ record[w].type \in TypesOf(w) /\ calls' = calls
    BY <2>2 DEF EmitterOnly, TypeInv, PlaceInv
  <2>4. w \in Lanes => After(record[w].type) = "ready"
    BY <2>3, Constants DEF TypesOf, After, Answers
  <2>5. w \notin Lanes => record[w].type \notin Answers
    BY <2>3, Constants DEF TypesOf, Answers
  <2>6. CASE \A op : AnswersIn(output', op) = AnswersIn(output, op)
    <3>1. \A lane \in Lanes : Emitting(lane)' => Emitting(lane) /\ record'[lane].of = record[lane].of
      BY <2>2, <2>3, Constants DEF EmitterOnly, Emitting
    <3>2. ASSUME NEW lane \in Lanes, pc'[lane] \in {"calling", "emit", "write"}
          PROVE  pc[lane] \in {"calling", "emit", "write"}
      BY <2>2, <2>3, <3>2, Constants DEF EmitterOnly, Emitting
    <3>3. ASSUME NEW lane \in Lanes, pc'[lane] = "ready", ~failure'
          PROVE  pc[lane] = "ready"
      <4>1. CASE lane = w
        <5>1. PICK r \in Records : Leaves(w, r)
          BY <2>2, <3>3, <4>1 DEF EmitterMoves
        <5>2. r.type \in Answers /\ r.of = record[w].of /\ output' = Append(output, r)
          BY <2>3, <3>3, <4>1, <5>1, Constants DEF Leaves, TypesOf
        <5>3. Len(output) + 1 \in AnswersIn(output', r.of)
          BY <5>2, AnswersAdded
        <5>4. Len(output) + 1 \notin AnswersIn(output, r.of)
          BY <5>2, Added DEF AnswersIn
        <5> QED
          BY <2>6, <5>3, <5>4
      <4>2. CASE lane # w
        BY <2>2, <3>3, <4>2, Constants DEF EmitterOnly
      <4> QED
        BY <4>1, <4>2
    <3>4. \A lane \in Lanes : Emitting(lane)' => record'[lane].of = Last(calls[lane])
      BY <3>1 DEF AnswerInv
    <3> QED
      BY <2>2, <2>3, <2>6, <3>2, <3>3, <3>4, AnswersKeptIfNone
  <2>7. CASE w \in Lanes /\ \E r \in Records : Leaves(w, r) /\ r.type \in Answers
    <3>1. PICK r \in Records : Leaves(w, r) /\ r.type \in Answers
      BY <2>7
    <3>2. r.of = Last(calls[w]) /\ pc[w] = "write" /\ ~failure /\ output' = Append(output, r)
      BY <2>3, <2>7, <3>1 DEF Leaves, AnswerInv
    <3>3. pc'[w] = "ready"
      <4>1. output' # output
        BY <3>2, Added
      <4> QED
        BY <2>2, <2>4, <2>7, <4>1 DEF EmitterMoves
    <3>4. \A other \in Lanes \ {w} : pc'[other] = pc[other] /\ record'[other] = record[other]
      BY <2>2, Constants DEF EmitterOnly
    <3> QED
      BY <2>3, <2>7, <3>1, <3>2, <3>3, <3>4, AnswersKeptByAnswer
  <2>8. \/ \A op : AnswersIn(output', op) = AnswersIn(output, op)
        \/ w \in Lanes /\ \E r \in Records : Leaves(w, r) /\ r.type \in Answers
    <3>1. CASE output' = output
      BY <3>1
    <3>2. ASSUME NEW r \in Records, Leaves(w, r), r.type \notin Answers
          PROVE  \A op : AnswersIn(output', op) = AnswersIn(output, op)
      BY <3>2, AnswersAdded DEF Leaves
    <3>3. ASSUME NEW r \in Records, Leaves(w, r), r.type \in Answers
          PROVE  w \in Lanes
      BY <2>5, <3>3 DEF Leaves, Answers
    <3> QED
      BY <2>2, <3>1, <3>2, <3>3 DEF EmitterMoves
  <2> QED
    BY <2>6, <2>7, <2>8
<1>2. CASE \/ InputStep /\ Elsewhere("input")
           \/ ReceiveStep /\ Elsewhere("receive")
           \/ Still
  <2>1. output' = output /\ failure' = failure /\ calls' = calls
    BY <1>2 DEF Elsewhere, emitVars, InputStep, InvalidCommand, Quit, Command, ReadLine, EndOfInput,
                InputFails, StopWorkers, Return, ReceiveStep, CallReceive, Receive, ReceiveFails,
                Signal, StopReceiving, Still
  <2>2. \A lane \in Lanes : pc'[lane] = pc[lane] /\ record'[lane] = record[lane]
    BY <1>2, Constants DEF Elsewhere, Still
  <2>3. \A lane \in Lanes : Emitting(lane)' => record'[lane].of = Last(calls[lane])
    BY <2>2 DEF AnswerInv, Emitting
  <2> QED
    BY <2>1, <2>2, <2>3, AnswersKeptIfNone
<1>3. ASSUME NEW lane \in Lanes, Leave(lane) \/ Answered(lane), Elsewhere(lane)
      PROVE  AnswerInv'
  <2>1. output' = output /\ failure' = failure /\ calls' = calls /\ lane \in Workers
    BY <1>3, Constants DEF Elsewhere, emitVars, Leave, Answered
  <2>2. \A other \in Lanes \ {lane} : pc'[other] = pc[other] /\ record'[other] = record[other]
    BY <1>3, Constants DEF Elsewhere
  <2>3. \/ pc'[lane] = "done"
        \/ pc[lane] = "calling" /\ pc'[lane] = "emit" /\ record'[lane].of = Last(calls[lane])
    <3>1. CASE Goto(lane, "done")
      BY <2>1, <3>1 DEF Goto, TypeInv, TypeOK
    <3>2. ASSUME NEW type \in Replies, pc[lane] = "calling", Emit(lane, type, Last(calls[lane]))
          PROVE  pc[lane] = "calling" /\ pc'[lane] = "emit" /\ record'[lane].of = Last(calls[lane])
      <4>1. Last(calls[lane]) \in Nat
        BY <3>2, LastInSeq DEF TypeInv, TypeOK, PlaceInv
      <4>2. type \in TypesOf(lane)
        BY <3>2, SemanticShellAssumption, Constants DEF TypesOf
      <4> QED
        BY <2>1, <3>2, <4>1, <4>2, EmitsOne
    <3> QED
      BY <1>3, <3>1, <3>2 DEF Leave, Answered
  <2>4. \A l \in Lanes : Emitting(l)' => record'[l].of = Last(calls[l])
    BY <2>2, <2>3 DEF AnswerInv, Emitting
  <2>5. \A l \in Lanes : pc'[l] \in {"calling", "emit", "write"} => pc[l] \in {"calling", "emit", "write"}
    BY <2>2, <2>3
  <2>6. \A l \in Lanes : pc'[l] = "ready" => pc[l] = "ready"
    BY <2>2, <2>3
  <2> QED
    BY <2>1, <2>4, <2>5, <2>6, AnswersKeptIfNone
<1> QED
  BY <1>1, <1>2, <1>3, AnswersKeptByTake, StepCases DEF LaneStep

(* A call of the session has at most one record, after those of the calls  *)
(* of its lane before it, and has it when the next call of the lane is     *)
(* made, unless the output has failed: whatever the other goroutines emit  *)
(* in between and whether the call failed, panicked or gave a result that  *)
(* makes no sense (shell.go:259-287, 351-371).                             *)
THEOREM AnswersGiven == Spec => []CallsAreAnswered
<1>1. Init => TypeInv /\ EmitInv /\ NumberInv /\ AnswerInv
  BY InitTypes, InitEmit, InitNumbers, InitAnswers
<1>2. TypeInv /\ EmitInv /\ NumberInv /\ AnswerInv /\ [Next]_vars => (TypeInv /\ EmitInv /\ NumberInv /\ AnswerInv)'
  BY TypesKept, EmitKept, NumbersKept, AnswersKept
<1>3. AnswerInv => CallsAreAnswered
  BY DEF AnswerInv
<1> QED
  BY <1>1, <1>2, <1>3, PTL DEF Spec

-----------------------------------------------------------------------------
(* Errors and the end *)

LEMMA Meets ==
  ASSUME TypeInv, NEW types, NEW r \in Records, output' = Append(output, r)
  PROVE  Met(types)' <=> Met(types) \/ r.type \in types
BY Added DEF Met

LEMMA InitErrors == Init => ErrorInv /\ EndInv
<1> SUFFICES ASSUME Init PROVE ErrorInv /\ EndInv
  OBVIOUS
<1>1. /\ output = << >> /\ pc["receive"] = "ready" /\ pc["input"] = "ready"
      /\ terminal = "nil" /\ inputErr = "nil" /\ outcome = "running"
  BY Constants DEF Init
<1> QED
  BY <1>1 DEF ErrorInv, EndInv, Met, Emitting

LEMMA ErrorsKeptByEmitter ==
  ASSUME TypeInv, ErrorInv, NEW w \in Workers, EmitterOnly(w), EmitterMoves(w), failure => failure'
  PROVE  ErrorInv'
<1>1. /\ Emitting(w) /\ record[w].type \in TypesOf(w) /\ UNCHANGED <<terminal, inputErr>>
      /\ "input" \in Workers /\ "receive" \in Workers
  BY Constants DEF EmitterOnly, inputVars, TypeInv, PlaceInv
<1>2. /\ w = "receive" => record[w].type \in {"view", "invalid_update", "receive_failed"}
      /\ w = "input" => record[w].type \in {"invalid_command", "quit", "queue_full", "input_failed"}
      /\ w \notin {"input", "receive"} => record[w].type \in Answers
  BY <1>1 DEF TypesOf
<1>3. /\ record[w].type \in ReceiveErrors <=> w = "receive" /\ After(record[w].type) = "signal"
      /\ record[w].type = "input_failed" => w = "input"
  BY <1>2 DEF After, Answers, ReceiveErrors
<1>4. \A other \in Workers \ {w} : pc'[other] = pc[other] /\ record'[other].type = record[other].type
  BY DEF EmitterOnly
<1>5. record'[w].type = record[w].type
  BY DEF EmitterOnly
<1>6. CASE pc'[w] = "write" /\ output' = output /\ failure' = failure
  <2>1. Met(ReceiveErrors)' = Met(ReceiveErrors) /\ Met({"input_failed"})' = Met({"input_failed"})
    BY <1>6 DEF Met, ReceiveErrors
  <2>2. pc'["receive"] = "signal" <=> pc["receive"] = "signal"
    BY <1>1, <1>4, <1>6 DEF Emitting
  <2>3. Emitting("input")' <=> Emitting("input")
    BY <1>1, <1>4, <1>6 DEF Emitting
  <2>4. record'["input"].type = record["input"].type
    BY <1>1, <1>4, <1>5
  <2> QED
    BY <1>1, <1>6, <2>1, <2>2, <2>3, <2>4 DEF ErrorInv
<1>7. CASE pc'[w] = After(record[w].type) /\ (failure' \/ \E r \in Records : Leaves(w, r))
           /\ (output' = output \/ \E r \in Records : Leaves(w, r))
  <2>1. /\ Met(ReceiveErrors) => Met(ReceiveErrors)'
        /\ Met({"input_failed"}) => Met({"input_failed"})'
    BY <1>7, Meets DEF Met, Leaves, ReceiveErrors
  <2>2. /\ record[w].type \in ReceiveErrors => failure' \/ Met(ReceiveErrors)'
        /\ record[w].type = "input_failed" => failure' \/ Met({"input_failed"})'
    BY <1>7, Meets DEF Leaves, ReceiveErrors
  <2>3. /\ Met(ReceiveErrors)' => Met(ReceiveErrors) \/ record[w].type \in ReceiveErrors
        /\ Met({"input_failed"})' => Met({"input_failed"}) \/ record[w].type = "input_failed"
    <3>1. CASE output' = output
      BY <3>1 DEF Met, ReceiveErrors
    <3>2. ASSUME NEW r \in Records, Leaves(w, r)
          PROVE  /\ Met(ReceiveErrors)' => Met(ReceiveErrors) \/ record[w].type \in ReceiveErrors
                 /\ Met({"input_failed"})' => Met({"input_failed"}) \/ record[w].type = "input_failed"
      <4>1. r.type \in {record[w].type, "cut"} /\ output' = Append(output, r)
        BY <3>2 DEF Leaves
      <4> QED
        BY <4>1, Meets DEF ReceiveErrors
    <3> QED
      BY <1>7, <3>1, <3>2
  <2>4. terminal' # "nil" => failure' \/ Met(ReceiveErrors)'
    BY <1>1, <2>1 DEF ErrorInv
  <2>5. pc'["receive"] = "signal" => failure' \/ Met(ReceiveErrors)'
    <3>1. CASE w = "receive"
      BY <1>3, <1>7, <2>2, <3>1
    <3>2. CASE w # "receive"
      BY <1>1, <1>4, <2>1, <3>2 DEF ErrorInv
    <3> QED
      BY <3>1, <3>2
  <2>6. Met(ReceiveErrors)' => pc'["receive"] = "signal" \/ terminal' # "nil"
    <3>1. CASE record[w].type \in ReceiveErrors
      BY <1>3, <1>7, <3>1
    <3>2. CASE Met(ReceiveErrors)
      <4>1. pc["receive"] = "signal" => pc'["receive"] = "signal"
        BY <1>1, <1>4 DEF Emitting
      <4> QED
        BY <1>1, <3>2, <4>1 DEF ErrorInv
    <3> QED
      BY <2>3, <3>1, <3>2
  <2>7. inputErr' # "nil" =>
          \/ failure' \/ Met({"input_failed"})'
          \/ Emitting("input")' /\ record'["input"].type = "input_failed"
    <3>1. CASE w = "input"
      BY <1>1, <2>1, <2>2, <3>1 DEF ErrorInv
    <3>2. CASE w # "input"
      BY <1>1, <1>4, <2>1, <3>2 DEF ErrorInv, Emitting
    <3> QED
      BY <3>1, <3>2
  <2>8. Emitting("input")' /\ record'["input"].type = "input_failed" => inputErr' # "nil"
    <3>1. Emitting("input")' => Emitting("input")
      BY <1>1, <1>4 DEF Emitting
    <3> QED
      BY <1>1, <1>4, <1>5, <3>1 DEF ErrorInv
  <2>9. Met({"input_failed"})' => inputErr' # "nil"
    BY <1>1, <1>3, <2>3 DEF ErrorInv
  <2> QED
    BY <2>4, <2>5, <2>6, <2>7, <2>8, <2>9 DEF ErrorInv
<1> QED
  BY <1>6, <1>7 DEF EmitterMoves

LEMMA ErrorsKept ==
  ASSUME TypeInv, EmitInv, ErrorInv, [Next]_vars
  PROVE  ErrorInv'
<1>1. CASE \E w \in Workers : Lock(w) \/ Written(w) \/ WriteFails(w)
  <2>1. PICK w \in Workers : Lock(w) \/ Written(w) \/ WriteFails(w)
    BY <1>1
  <2>2. failure' = failure \/ failure' = TRUE
    BY <2>1 DEF Lock, Written, WriteFails
  <2> QED
    BY <2>1, <2>2, EmitterMovesOn, ErrorsKeptByEmitter
<1>2. CASE \/ \E lane \in Lanes : LaneStep(lane) /\ Elsewhere(lane)
           \/ Still
  <2>1. UNCHANGED <<output, failure, terminal, inputErr>>
    BY <1>2 DEF Elsewhere, emitVars, inputVars, LaneStep, Take, Leave, Answered, Still
  <2>2. \A w \in {"input", "receive"} : pc'[w] = pc[w] /\ record'[w] = record[w]
    BY <1>2, Constants DEF Elsewhere, Still
  <2> QED
    BY <2>1, <2>2 DEF ErrorInv, Met, ReceiveErrors, Emitting
<1>3. CASE InputStep /\ Elsewhere("input")
  <2>1. UNCHANGED <<output, failure, terminal>> /\ ~Emitting("input") /\ "input" \in Workers
    BY <1>3, Constants DEF Elsewhere, emitVars, Emitting, InputStep, InvalidCommand, Quit, Command,
                           ReadLine, EndOfInput, InputFails, StopWorkers, Return
  <2>2. pc'["receive"] = pc["receive"] /\ record'["receive"] = record["receive"]
    BY <1>3, Constants DEF Elsewhere
  <2>3. CASE InputFails
    <3>1. inputErr' = "ErrInput" /\ Emit("input", "input_failed", 0)
      BY <2>3 DEF InputFails
    <3>2. Emitting("input")' /\ record'["input"].type = "input_failed"
      BY <2>1, <3>1, EmitsOne DEF Emitting, TypesOf
    <3> QED
      BY <2>1, <2>2, <3>1, <3>2 DEF ErrorInv, Met, ReceiveErrors
  <2>4. CASE InputStep /\ ~InputFails
    <3>1. inputErr' = inputErr
      BY <2>4 DEF InputStep, InvalidCommand, Quit, Command, ReadLine, EndOfInput, StopWorkers, Return, inputVars
    <3>2. Emitting("input")' => record'["input"].type # "input_failed"
      <4>1. \/ \E type \in {"invalid_command", "quit"} : Emit("input", type, 0)
            \/ Emit("input", "queue_full", operationID') /\ operationID' = operationID + 1
            \/ \E place \in {"stop", "join", "done"} : Goto("input", place)
            \/ pc' = pc
        BY <2>4 DEF InputStep, InvalidCommand, Quit, Command, EndOfInput, StopWorkers, Return
      <4>2. CASE \E type \in {"invalid_command", "quit"} : Emit("input", type, 0)
        <5>1. record'["input"].type \in {"invalid_command", "quit"}
          BY <2>1, <4>2, EmitsOne DEF TypesOf
        <5> QED
          BY <5>1
      <4>3. CASE Emit("input", "queue_full", operationID') /\ operationID' = operationID + 1
        <5>1. operationID' \in Nat
          BY <4>3 DEF TypeInv, TypeOK
        <5>2. record'["input"].type = "queue_full"
          BY <2>1, <4>3, <5>1, EmitsOne DEF TypesOf
        <5> QED
          BY <5>2
      <4>4. CASE (\E place \in {"stop", "join", "done"} : Goto("input", place)) \/ pc' = pc
        BY <2>1, <4>4 DEF Goto, Emitting, TypeInv, TypeOK
      <4> QED
        BY <4>1, <4>2, <4>3, <4>4
    <3> QED
      BY <2>1, <2>2, <3>1, <3>2 DEF ErrorInv, Met, ReceiveErrors
  <2> QED
    BY <1>3, <2>3, <2>4
<1>4. CASE ReceiveStep /\ Elsewhere("receive")
  <2>1. UNCHANGED <<output, failure, inputErr>> /\ "receive" \in Workers
    BY <1>4, Constants DEF Elsewhere, emitVars, inputVars, ReceiveStep, CallReceive, Receive, ReceiveFails,
                           Signal, StopReceiving
  <2>2. pc'["input"] = pc["input"] /\ record'["input"] = record["input"]
    BY <1>4, Constants DEF Elsewhere
  <2>3. CASE Signal
    <3>1. pc["receive"] = "signal" /\ pc'["receive"] = "stop" /\ terminal' = "ErrSessionReceive"
      BY <2>1, <2>3 DEF Signal, Goto, TypeInv, TypeOK
    <3> QED
      BY <2>1, <2>2, <3>1 DEF ErrorInv, Met, ReceiveErrors, Emitting
  <2>4. CASE ReceiveStep /\ ~Signal
    <3>1. terminal' = terminal /\ pc["receive"] # "signal"
      BY <2>4 DEF ReceiveStep, CallReceive, Receive, ReceiveFails, StopReceiving
    <3>2. pc'["receive"] # "signal"
      BY <2>1, <2>4 DEF ReceiveStep, CallReceive, Receive, ReceiveFails, StopReceiving, Goto, Emit,
                        TypeInv, TypeOK
    <3> QED
      BY <2>1, <2>2, <3>1, <3>2 DEF ErrorInv, Met, ReceiveErrors, Emitting
  <2> QED
    BY <1>4, <2>3, <2>4
<1> QED
  BY <1>1, <1>2, <1>3, <1>4, StepCases

(* Before Run has returned it has not returned; afterwards all are done. *)
LEMMA EndKept ==
  ASSUME TypeInv, EmitInv, EndInv, [Next]_vars
  PROVE  EndInv' /\ (outcome # "running" => UNCHANGED <<calls, output>>)
<1>1. ASSUME NEW w \in Workers, pc[w] # "done", outcome' = outcome
      PROVE  EndInv' /\ (outcome # "running" => UNCHANGED <<calls, output>>)
  BY <1>1 DEF EndInv
<1>2. CASE \E w \in Workers : Lock(w) \/ Written(w) \/ WriteFails(w)
  BY <1>1, <1>2 DEF Lock, Written, WriteFails
<1>3. CASE ReceiveStep \/ \E lane \in Lanes : LaneStep(lane)
  BY <1>1, <1>3, Constants DEF ReceiveStep, CallReceive, Receive, ReceiveFails, Signal, StopReceiving,
                               LaneStep, Take, Leave, Answered
<1>4. CASE InputStep /\ ~Return
  BY <1>1, <1>4, Constants DEF InputStep, InvalidCommand, Quit, Command, ReadLine, Reading, EndOfInput,
                               InputFails, StopWorkers
<1>5. CASE Return
  <2>1. \A w \in Workers : pc'[w] = "done"
    BY <1>5, Constants DEF Return, WorkersDone, Goto, TypeInv, TypeOK
  <2>2. /\ UNCHANGED <<failure, terminal, inputErr, calls, output>>
        /\ outcome' = IF failure THEN "ErrOutput" ELSE IF terminal # "nil" THEN terminal ELSE inputErr
    BY <1>5 DEF Return, emitVars
  <2> QED
    BY <2>1, <2>2 DEF EndInv
<1>6. CASE Still
  BY <1>6 DEF Still, emitVars, EndInv
<1> QED
  BY <1>2, <1>3, <1>4, <1>5, <1>6, StepKinds DEF EmitterStep

LEMMA HonestEnd ==
  ASSUME TypeInv, ErrorInv, EndInv
  PROVE  OutcomeIsHonest
<1> SUFFICES ASSUME outcome # "running"
             PROVE  /\ outcome = "ErrOutput" <=> failure
                    /\ outcome = "nil" <=> ~failure /\ \A i \in DOMAIN output : output[i].type \notin Fatal
  BY DEF OutcomeIsHonest
<1>1. pc["receive"] = "done" /\ pc["input"] = "done"
  BY Constants DEF EndInv
<1>2. outcome = IF failure THEN "ErrOutput" ELSE IF terminal # "nil" THEN terminal ELSE inputErr
  BY DEF EndInv
<1>3. terminal \in {"nil", "ErrSessionReceive"} /\ inputErr \in {"nil", "ErrInput"}
  BY DEF TypeInv, TypeOK
<1>4. ~failure => (terminal # "nil" <=> Met(ReceiveErrors)) /\ (inputErr # "nil" <=> Met({"input_failed"}))
  BY <1>1 DEF ErrorInv, Emitting
<1>5. (\A i \in DOMAIN output : output[i].type \notin Fatal) <=> ~Met(ReceiveErrors) /\ ~Met({"input_failed"})
  BY DEF Met, ReceiveErrors, Fatal
<1> QED
  BY <1>2, <1>3, <1>4, <1>5

(* Run returns a failure exactly when one was met, once its workers are    *)
(* done, and then neither the session nor the output is touched again      *)
(* (shell.go:58-103).                                                      *)
THEOREM ReturnKept == Spec => ReturnIsFinal
<1>1. Init => TypeInv /\ EmitInv /\ ErrorInv /\ EndInv
  BY InitTypes, InitEmit, InitErrors
<1>2. /\ TypeInv /\ EmitInv /\ ErrorInv /\ EndInv /\ [Next]_vars => (TypeInv /\ EmitInv /\ ErrorInv /\ EndInv)'
      /\ TypeInv /\ EmitInv /\ EndInv /\ [Next]_vars =>
           [outcome # "running" => UNCHANGED <<calls, output>>]_vars
  BY TypesKept, EmitKept, ErrorsKept, EndKept
<1>3. TypeInv /\ ErrorInv /\ EndInv => OutcomeIsHonest
  BY HonestEnd
<1> QED
  BY <1>1, <1>2, <1>3, PTL DEF Spec, ReturnIsFinal, QuietAfterReturn

-----------------------------------------------------------------------------
(* The contract of the session *)

Parties == {"receive"} \cup Lanes

phases == [w \in Parties |-> PhaseOf(w)]

ContractStep == [Contract!Next]_(Contract!contractVars)

LEMMA ContractActs ==
  /\ UNCHANGED Contract!contractVars <=> UNCHANGED <<phases, StreamOpen>>
  /\ \A w : Contract!Request(w) <=>
       /\ phases[w] = "idle" /\ (w = "receive" => StreamOpen)
       /\ phases' = [phases EXCEPT ![w] = "requested"]
       /\ UNCHANGED StreamOpen
  /\ \A w : Contract!Call(w) <=>
       /\ phases[w] = "requested"
       /\ phases' = [phases EXCEPT ![w] = "calling"]
       /\ UNCHANGED StreamOpen
  /\ \A w : Contract!Answer(w) <=>
       /\ phases[w] = "calling"
       /\ phases' = [phases EXCEPT ![w] = "idle"]
       /\ UNCHANGED StreamOpen
  /\ \A w : Contract!Fail(w) <=>
       /\ phases[w] # "idle"
       /\ phases' = [phases EXCEPT ![w] = "idle"]
       /\ StreamOpen' = (StreamOpen /\ w # "receive")
BY DEF phases, Parties, Contract!contractVars, Contract!Request, Contract!Call, Contract!Answer,
       Contract!Fail

LEMMA ContractDoes ==
  ASSUME \/ UNCHANGED <<phases, StreamOpen>>
         \/ \E w \in Parties : \/ Contract!Request(w) \/ Contract!Call(w)
                               \/ Contract!Answer(w) \/ Contract!Fail(w)
  PROVE  ContractStep
<1>1. CASE UNCHANGED <<phases, StreamOpen>>
  BY <1>1, ContractActs DEF ContractStep
<1>2. CASE \E w \in Parties : \/ Contract!Request(w) \/ Contract!Call(w)
                              \/ Contract!Answer(w) \/ Contract!Fail(w)
  BY <1>2 DEF ContractStep, Contract!Next, Parties
<1> QED
  BY <1>1, <1>2

(* The phase of one party is what changes. *)
LEMMA PhaseMoves ==
  ASSUME NEW w \in Parties,
         \A other \in Parties \ {w} : pc'[other] = pc[other] /\ queue'[other] = queue[other]
  PROVE  /\ \A p : PhaseOf(w)' = p => phases' = [phases EXCEPT ![w] = p]
         /\ PhaseOf(w)' = PhaseOf(w) => phases' = phases
         /\ phases[w] = PhaseOf(w)
<1>1. ASSUME NEW other \in Parties \ {w} PROVE PhaseOf(other)' = PhaseOf(other)
  BY <1>1 DEF PhaseOf
<1> QED
  BY <1>1 DEF phases

LEMMA StreamStays ==
  ASSUME pc'["receive"] = pc["receive"], record'["receive"].type = record["receive"].type
  PROVE  StreamOpen' = StreamOpen
BY DEF StreamOpen

(* A lane goes round: a request, a call, an answer. *)
LEMMA LaneGoesRound ==
  ASSUME NEW lane \in Lanes,
         \A other \in Parties \ {lane} : pc'[other] = pc[other] /\ queue'[other] = queue[other],
         record'["receive"] = record["receive"],
         \/ PhaseOf(lane)' = PhaseOf(lane)
         \/ PhaseOf(lane) = "idle" /\ PhaseOf(lane)' = "requested"
         \/ PhaseOf(lane) = "requested" /\ PhaseOf(lane)' \in {"calling", "idle"}
         \/ PhaseOf(lane) = "calling" /\ PhaseOf(lane)' = "idle"
  PROVE  ContractStep
<1>1. lane \in Parties /\ lane # "receive" /\ "receive" \in Parties \ {lane}
  BY Constants DEF Parties
<1>2. StreamOpen' = StreamOpen /\ StreamOpen \in BOOLEAN
  BY <1>1, StreamStays DEF StreamOpen
<1>3. /\ \A p : PhaseOf(lane)' = p => phases' = [phases EXCEPT ![lane] = p]
      /\ PhaseOf(lane)' = PhaseOf(lane) => phases' = phases
      /\ phases[lane] = PhaseOf(lane)
  BY <1>1, PhaseMoves
<1>4. CASE PhaseOf(lane)' = PhaseOf(lane)
  BY <1>2, <1>3, <1>4, ContractDoes
<1>5. CASE PhaseOf(lane) = "idle" /\ PhaseOf(lane)' = "requested"
  <2>1. Contract!Request(lane)
    BY <1>1, <1>2, <1>3, <1>5, ContractActs
  <2> QED
    BY <1>1, <2>1, ContractDoes
<1>6. CASE PhaseOf(lane) = "requested" /\ PhaseOf(lane)' = "calling"
  <2>1. Contract!Call(lane)
    BY <1>1, <1>2, <1>3, <1>6, ContractActs
  <2> QED
    BY <1>1, <2>1, ContractDoes
<1>7. CASE PhaseOf(lane) = "requested" /\ PhaseOf(lane)' = "idle"
  <2>1. Contract!Fail(lane)
    BY <1>1, <1>2, <1>3, <1>7, ContractActs
  <2> QED
    BY <1>1, <2>1, ContractDoes
<1>8. CASE PhaseOf(lane) = "calling" /\ PhaseOf(lane)' = "idle"
  <2>1. Contract!Answer(lane)
    BY <1>1, <1>2, <1>3, <1>8, ContractActs
  <2> QED
    BY <1>1, <2>1, ContractDoes
<1> QED
  BY <1>4, <1>5, <1>6, <1>7, <1>8

(* The receive lane goes round too, and may end. *)
LEMMA ReceiveGoesRound ==
  ASSUME \A lane \in Lanes : pc'[lane] = pc[lane] /\ queue'[lane] = queue[lane],
         \/ PhaseOf("receive")' = PhaseOf("receive") /\ StreamOpen' = StreamOpen
         \/ PhaseOf("receive") = "idle" /\ PhaseOf("receive")' = "requested" /\ StreamOpen /\ StreamOpen'
         \/ PhaseOf("receive") = "requested" /\ PhaseOf("receive")' = "calling" /\ StreamOpen /\ StreamOpen'
         \/ PhaseOf("receive") = "calling" /\ PhaseOf("receive")' = "idle" /\ StreamOpen /\ StreamOpen'
         \/ PhaseOf("receive") = "calling" /\ PhaseOf("receive")' = "idle" /\ ~StreamOpen'
  PROVE  ContractStep
<1>1. "receive" \in Parties /\ Parties \ {"receive"} = Lanes
  BY Constants DEF Parties
<1>2. StreamOpen \in BOOLEAN /\ StreamOpen' \in BOOLEAN
  BY DEF StreamOpen
<1>3. /\ \A p : PhaseOf("receive")' = p => phases' = [phases EXCEPT !["receive"] = p]
      /\ PhaseOf("receive")' = PhaseOf("receive") => phases' = phases
      /\ phases["receive"] = PhaseOf("receive")
  BY <1>1, PhaseMoves
<1>4. CASE PhaseOf("receive")' = PhaseOf("receive") /\ StreamOpen' = StreamOpen
  BY <1>3, <1>4, ContractDoes
<1>5. CASE PhaseOf("receive") = "idle" /\ PhaseOf("receive")' = "requested" /\ StreamOpen /\ StreamOpen'
  <2>1. Contract!Request("receive")
    BY <1>2, <1>3, <1>5, ContractActs
  <2> QED
    BY <1>1, <2>1, ContractDoes
<1>6. CASE PhaseOf("receive") = "requested" /\ PhaseOf("receive")' = "calling" /\ StreamOpen /\ StreamOpen'
  <2>1. Contract!Call("receive")
    BY <1>2, <1>3, <1>6, ContractActs
  <2> QED
    BY <1>1, <2>1, ContractDoes
<1>7. CASE PhaseOf("receive") = "calling" /\ PhaseOf("receive")' = "idle" /\ StreamOpen /\ StreamOpen'
  <2>1. Contract!Answer("receive")
    BY <1>2, <1>3, <1>7, ContractActs
  <2> QED
    BY <1>1, <2>1, ContractDoes
<1>8. CASE PhaseOf("receive") = "calling" /\ PhaseOf("receive")' = "idle" /\ ~StreamOpen'
  <2>1. Contract!Fail("receive")
    BY <1>2, <1>3, <1>8, ContractActs
  <2> QED
    BY <1>1, <2>1, ContractDoes
<1> QED
  BY <1>4, <1>5, <1>6, <1>7, <1>8

LEMMA PhaseByPlace ==
  ASSUME NEW w \in Parties
  PROVE  /\ pc[w] = "calling" => PhaseOf(w) = "calling"
         /\ pc[w] \notin {"calling", "ready"} => PhaseOf(w) = "idle"
         /\ pc[w] = "ready" /\ w = "receive" => PhaseOf(w) = "requested"
         /\ pc[w] = "ready" /\ w # "receive" =>
              PhaseOf(w) = IF queue[w] # << >> THEN "requested" ELSE "idle"
BY DEF PhaseOf

LEMMA PartiesAreWorkers ==
  /\ Parties = Workers \ {"input"} /\ "receive" \in Parties /\ Lanes = Parties \ {"receive"}
  /\ "input" \notin Parties /\ "receive" \in Workers /\ Lanes \subseteq Workers
BY Constants DEF Parties, Workers

LEMMA EmitterKeepsContract ==
  ASSUME TypeInv, EmitInv, NEW w \in Workers, Lock(w) \/ Written(w) \/ WriteFails(w)
  PROVE  ContractStep
<1>1. EmitterOnly(w) /\ EmitterMoves(w)
  BY EmitterMovesOn
<1>2. /\ queue' = queue /\ Emitting(w) /\ record[w].type \in TypesOf(w)
      /\ \A other \in Workers \ {w} : pc'[other] = pc[other] /\ record'[other] = record[other]
      /\ record'[w].type = record[w].type
      /\ pc'[w] \in {"write", After(record[w].type)}
  BY <1>1 DEF EmitterOnly, EmitterMoves, TypeInv, PlaceInv
<1>3. CASE w = "input"
  <2>1. \A other \in Lanes : pc'[other] = pc[other] /\ queue'[other] = queue[other]
    BY <1>2, <1>3, PartiesAreWorkers
  <2>2. pc'["receive"] = pc["receive"] /\ record'["receive"] = record["receive"]
    BY <1>2, <1>3, PartiesAreWorkers
  <2>3. PhaseOf("receive")' = PhaseOf("receive") /\ StreamOpen' = StreamOpen
    BY <2>2, StreamStays DEF PhaseOf
  <2> QED
    BY <2>1, <2>3, ReceiveGoesRound
<1>4. CASE w \in Lanes
  <2>1. pc[w] \in {"emit", "write"} /\ pc'[w] \in {"write", "ready"}
    BY <1>2, <1>4, Constants DEF Emitting, TypesOf, After, Answers
  <2>2. PhaseOf(w) = "idle" /\ PhaseOf(w)' \in {"idle", "requested"}
    BY <1>4, <2>1, PartiesAreWorkers DEF PhaseOf
  <2>3. \A other \in Parties \ {w} : pc'[other] = pc[other] /\ queue'[other] = queue[other]
    BY <1>2, PartiesAreWorkers
  <2>4. record'["receive"] = record["receive"]
    BY <1>2, <1>4, PartiesAreWorkers
  <2> QED
    BY <1>4, <2>2, <2>3, <2>4, LaneGoesRound
<1>5. CASE w = "receive"
  <2>1. \A other \in Lanes : pc'[other] = pc[other] /\ queue'[other] = queue[other]
    BY <1>2, <1>5, PartiesAreWorkers
  <2>2. pc["receive"] \in {"emit", "write"} /\ PhaseOf("receive") = "idle"
    BY <1>2, <1>5, PartiesAreWorkers, PhaseByPlace DEF Emitting
  <2>3. CASE pc'["receive"] = "write"
    <3>1. PhaseOf("receive")' = "idle" /\ StreamOpen' = StreamOpen
      BY <1>2, <1>5, <2>2, <2>3 DEF PhaseOf, StreamOpen
    <3> QED
      BY <2>1, <2>2, <3>1, ReceiveGoesRound
  <2>4. CASE pc'["receive"] = After(record["receive"].type) /\ record["receive"].type = "view"
    <3>1. pc'["receive"] = "ready"
      BY <2>4 DEF After
    <3>2. PhaseOf("receive")' = "requested" /\ StreamOpen /\ StreamOpen'
      BY <2>2, <2>4, <3>1 DEF PhaseOf, StreamOpen
    <3> QED
      BY <2>1, <2>2, <3>2, ReceiveGoesRound
  <2>5. CASE pc'["receive"] = After(record["receive"].type) /\ record["receive"].type # "view"
    <3>1. pc'["receive"] = "signal"
      BY <1>2, <1>5, <2>5 DEF After, TypesOf
    <3>2. PhaseOf("receive")' = "idle" /\ StreamOpen' = StreamOpen
      BY <2>2, <2>5, <3>1 DEF PhaseOf, StreamOpen
    <3> QED
      BY <2>1, <2>2, <3>2, ReceiveGoesRound
  <2> QED
    BY <1>2, <1>5, <2>3, <2>4, <2>5
<1> QED
  BY <1>3, <1>4, <1>5, Constants

LEMMA InputKeepsContract ==
  ASSUME TypeInv, InputStep, Elsewhere("input")
  PROVE  ContractStep
<1>1. \A other \in Parties : pc'[other] = pc[other] /\ record'[other] = record[other]
  BY PartiesAreWorkers DEF Elsewhere
<1>2. ASSUME NEW lane \in Lanes, queue' = [queue EXCEPT ![lane] = Append(@, operationID')],
             operationID' = operationID + 1
      PROVE  ContractStep
  <2>1. queue'[lane] = Append(queue[lane], operationID') /\ queue[lane] \in Seq(Nat)
        /\ \A other \in Lanes \ {lane} : queue'[other] = queue[other]
    BY <1>2 DEF TypeInv, TypeOK
  <2>2. queue'[lane] # << >>
    BY <1>2, <2>1, AppendedSeq DEF TypeInv, TypeOK
  <2>3. pc'[lane] = pc[lane] /\ record'["receive"] = record["receive"] /\ lane # "receive"
    BY <1>1, PartiesAreWorkers
  <2>4. PhaseOf(lane)' = PhaseOf(lane) \/ (PhaseOf(lane) = "idle" /\ PhaseOf(lane)' = "requested")
    BY <2>2, <2>3 DEF PhaseOf
  <2>5. ASSUME NEW other \in Parties \ {lane}
        PROVE  pc'[other] = pc[other] /\ queue'[other] = queue[other]
    <3>1. CASE other = "receive"
      <4>1. DOMAIN queue = Lanes /\ DOMAIN queue' = Lanes /\ "receive" \notin Lanes
        BY <1>2, Constants DEF TypeInv, TypeOK
      <4> QED
        BY <1>1, <1>2, <3>1, <4>1
    <3>2. CASE other \in Lanes
      BY <1>1, <2>1, <3>2
    <3> QED
      BY <3>1, <3>2, PartiesAreWorkers
  <2> QED
    BY <2>3, <2>4, <2>5, LaneGoesRound
<1>3. ASSUME queue' = queue PROVE ContractStep
  <2>1. \A other \in Lanes : pc'[other] = pc[other] /\ queue'[other] = queue[other]
    BY <1>1, <1>3, PartiesAreWorkers
  <2>2. PhaseOf("receive")' = PhaseOf("receive") /\ StreamOpen' = StreamOpen
    BY <1>1, PartiesAreWorkers, StreamStays DEF PhaseOf
  <2> QED
    BY <2>1, <2>2, ReceiveGoesRound
<1> QED
  BY <1>2, <1>3 DEF InputStep, InvalidCommand, Quit, Command, ReadLine, EndOfInput, InputFails,
                    StopWorkers, Return

LEMMA ReceiveKeepsContract ==
  ASSUME TypeInv, ReceiveStep, Elsewhere("receive")
  PROVE  ContractStep
<1>1. \A lane \in Lanes : pc'[lane] = pc[lane] /\ queue'[lane] = queue[lane]
  BY Constants DEF Elsewhere, ReceiveStep, CallReceive, Receive, ReceiveFails, Signal, StopReceiving
<1>2. "receive" \in Workers /\ "receive" \in Parties /\ pc \in [Workers -> Places]
  BY PartiesAreWorkers DEF TypeInv, TypeOK, Places
<1>3. CASE CallReceive
  <2>1. pc["receive"] = "ready" /\ pc'["receive"] = "calling"
    BY <1>2, <1>3 DEF CallReceive, Goto
  <2>2. PhaseOf("receive") = "requested" /\ PhaseOf("receive")' = "calling" /\ StreamOpen /\ StreamOpen'
    BY <2>1 DEF PhaseOf, StreamOpen
  <2> QED
    BY <1>1, <2>2, ReceiveGoesRound
<1>4. CASE ReceiveFails \/ \E update \in Updates : Receive(update[1], update[2])
  <2>1. pc["receive"] = "calling" /\ PhaseOf("receive") = "calling" /\ StreamOpen
    BY <1>4 DEF ReceiveFails, Receive, PhaseOf, StreamOpen
  <2>2. pc'["receive"] \in {"done", "emit"}
    BY <1>2, <1>4 DEF ReceiveFails, Receive, Goto, Emit
  <2>3. PhaseOf("receive")' = "idle"
    BY <2>2 DEF PhaseOf
  <2> QED
    BY <1>1, <2>1, <2>3, ReceiveGoesRound
<1>5. CASE Signal \/ StopReceiving
  <2>1. pc["receive"] \in {"signal", "stop"} /\ pc'["receive"] \in {"stop", "done"}
    BY <1>2, <1>5 DEF Signal, StopReceiving, Goto
  <2>2. PhaseOf("receive") = "idle" /\ PhaseOf("receive")' = "idle" /\ StreamOpen' = StreamOpen
    BY <2>1 DEF PhaseOf, StreamOpen
  <2> QED
    BY <1>1, <2>2, ReceiveGoesRound
<1> QED
  BY <1>3, <1>4, <1>5 DEF ReceiveStep

LEMMA LaneKeepsContract ==
  ASSUME TypeInv, NEW lane \in Lanes, LaneStep(lane), Elsewhere(lane)
  PROVE  ContractStep
<1>1. lane \in Workers /\ lane # "receive" /\ "receive" \in Workers \ {lane} /\ pc \in [Workers -> Places]
  BY Constants DEF TypeInv, TypeOK, Places
<1>2. record'["receive"] = record["receive"] /\ \A other \in Workers \ {lane} : pc'[other] = pc[other]
  BY <1>1 DEF Elsewhere
<1>3. \A other \in Parties \ {lane} : queue'[other] = queue[other]
  <2>1. \A other : other # lane => queue'[other] = queue[other]
    <3>1. CASE Take(lane)
      <4>1. queue' = [queue EXCEPT ![lane] = Tail(@)] /\ DOMAIN queue = Lanes
        BY <3>1 DEF Take, TypeInv, TypeOK
      <4>2. DOMAIN queue' = Lanes /\ \A other \in Lanes : other # lane => queue'[other] = queue[other]
        BY <4>1
      <4> QED
        BY <4>1
    <3>2. CASE Leave(lane) \/ Answered(lane)
      BY <3>2 DEF Leave, Answered
    <3> QED
      BY <3>1, <3>2 DEF LaneStep
  <2> QED
    BY <2>1
<1>4. \A other \in Parties \ {lane} : pc'[other] = pc[other]
  BY <1>2, PartiesAreWorkers
<1>5. CASE Take(lane)
  <2>1. PhaseOf(lane) = "requested" /\ pc'[lane] = "calling"
    BY <1>1, <1>5 DEF Take, PhaseOf, Goto
  <2>2. PhaseOf(lane)' = "calling"
    BY <2>1 DEF PhaseOf
  <2> QED
    BY <1>2, <1>3, <1>4, <2>1, <2>2, LaneGoesRound
<1>6. CASE Leave(lane)
  <2>1. PhaseOf(lane) \in {"requested", "idle"} /\ pc'[lane] = "done"
    BY <1>1, <1>6 DEF Leave, PhaseOf, Goto
  <2>2. PhaseOf(lane)' = "idle"
    BY <2>1 DEF PhaseOf
  <2> QED
    BY <1>2, <1>3, <1>4, <2>1, <2>2, LaneGoesRound
<1>7. CASE Answered(lane)
  <2>1. PhaseOf(lane) = "calling" /\ pc'[lane] \in {"done", "emit"}
    BY <1>1, <1>7 DEF Answered, PhaseOf, Goto, Emit
  <2>2. PhaseOf(lane)' = "idle"
    BY <2>1 DEF PhaseOf
  <2> QED
    BY <1>2, <1>3, <1>4, <2>1, <2>2, LaneGoesRound
<1> QED
  BY <1>5, <1>6, <1>7 DEF LaneStep

LEMMA StepKeepsContract ==
  ASSUME TypeInv, EmitInv, [Next]_vars
  PROVE  ContractStep
<1>1. CASE Still
  <2>1. /\ \A lane \in Lanes : pc'[lane] = pc[lane] /\ queue'[lane] = queue[lane]
        /\ PhaseOf("receive")' = PhaseOf("receive") /\ StreamOpen' = StreamOpen
    BY <1>1 DEF Still, PhaseOf, StreamOpen
  <2> QED
    BY <2>1, ReceiveGoesRound
<1> QED
  BY <1>1, StepCases, EmitterKeepsContract, InputKeepsContract, ReceiveKeepsContract, LaneKeepsContract

LEMMA InitKeepsContract == Init => Contract!Init
<1> SUFFICES ASSUME Init PROVE Contract!Init
  OBVIOUS
<1>1. \A w \in Parties : pc[w] = "ready" /\ (w # "receive" => queue[w] = << >>)
  BY PartiesAreWorkers, Constants DEF Init
<1>2. \A w \in Parties : PhaseOf(w) = IF w = "receive" THEN "requested" ELSE "idle"
  BY <1>1 DEF PhaseOf
<1>3. phases = [w \in Parties |-> IF w = "receive" THEN "requested" ELSE "idle"]
  BY <1>2 DEF phases
<1>4. StreamOpen = TRUE
  BY <1>1, PartiesAreWorkers DEF StreamOpen
<1> QED
  BY <1>3, <1>4 DEF Contract!Init, phases, Parties

(* Seen from the session, the line client keeps the contract that the      *)
(* shell keeps: one call of a lane at a time, none without a request, and  *)
(* no Receive after one that failed or whose update was refused, whatever  *)
(* its goroutines interleave (session.go:11-16, shell.go:220-310).         *)
THEOREM ClientImplementsContract == Spec => KeepsContract
<1>1. Init => TypeInv /\ EmitInv /\ Contract!Init
  BY InitTypes, InitEmit, InitKeepsContract
<1>2. TypeInv /\ EmitInv /\ [Next]_vars => (TypeInv /\ EmitInv)'
  BY TypesKept, EmitKept
<1>3. TypeInv /\ EmitInv /\ [Next]_vars => [Contract!Next]_(Contract!contractVars)
  BY StepKeepsContract DEF ContractStep
<1> QED
  BY <1>1, <1>2, <1>3, PTL DEF Spec, KeepsContract, Contract!Spec

-----------------------------------------------------------------------------
(* The log *)

LogStep == [Log!Next]_(Log!logVars)

Revisions == {update[2] : update \in Updates}

(* What a record of the input or of the stream can be about. *)
SubjectsOf(type) ==
  CASE type = "view"       -> Revisions
    [] type = "queue_full" -> 1..MaxLines
    [] OTHER               -> {0}

(* A record about to be emitted is about the operation just refused, newer  *)
(* than all refused before, or about an update of the session.              *)
SubjectInv ==
  /\ \A w \in {"input", "receive"} : Emitting(w) => record[w].of \in SubjectsOf(record[w].type)
  /\ Emitting("input") /\ record["input"].type = "queue_full" =>
       \A i \in DOMAIN output : output[i].type = "queue_full" => output[i].of < record["input"].of
  /\ \A lane \in Lanes : \A k \in DOMAIN Known(lane) : Known(lane)[k] > 0

(* Who has written its last record does not come back to write another. *)
FinalInv ==
  /\ Met(ReceiveErrors) => pc["receive"] \in {"signal", "stop", "done"}
  /\ Met({"quit", "input_failed"}) => pc["input"] \in {"stop", "join", "done"}

LEMMA InitSubjects == Init => SubjectInv /\ FinalInv
<1> SUFFICES ASSUME Init PROVE SubjectInv /\ FinalInv
  OBVIOUS
<1>1. output = << >> /\ pc["input"] = "ready" /\ pc["receive"] = "ready"
  BY Constants DEF Init
<1>2. \A lane \in Lanes : Known(lane) = << >>
  BY DEF Init, Known
<1> QED
  BY <1>1, <1>2 DEF SubjectInv, FinalInv, Met, Emitting

LEMMA SubjectsKeptByEmitter ==
  ASSUME TypeInv, SubjectInv, NEW w \in Workers, EmitterOnly(w), EmitterMoves(w)
  PROVE  SubjectInv'
<1>1. /\ \A lane \in Lanes : Known(lane)' = Known(lane)
      /\ record[w].type \in TypesOf(w) /\ "input" \in Workers /\ "receive" \in Workers
  BY Constants DEF EmitterOnly, Known, TypeInv, PlaceInv
<1>2. \A v \in Workers : /\ Emitting(v)' => Emitting(v)
                         /\ record'[v].type = record[v].type /\ record'[v].of = record[v].of
  BY DEF EmitterOnly, Emitting
<1>3. \A v \in {"input", "receive"} : Emitting(v)' => record'[v].of \in SubjectsOf(record'[v].type)
  BY <1>1, <1>2 DEF SubjectInv
<1>4. ASSUME Emitting("input")', record'["input"].type = "queue_full",
             NEW i \in DOMAIN output', output'[i].type = "queue_full"
      PROVE  output'[i].of < record'["input"].of
  <2>1. Emitting("input") /\ record["input"].type = "queue_full" /\ record'["input"].of = record["input"].of
    BY <1>1, <1>2, <1>4
  <2>2. CASE output' = output
    BY <1>4, <2>1, <2>2 DEF SubjectInv
  <2>3. ASSUME NEW r \in Records, Leaves(w, r), pc'[w] = After(record[w].type)
        PROVE  output'[i].of < record'["input"].of
    <3>1. w # "input"
      BY <1>1, <1>4, <2>3, AfterAllowed DEF Emitting
    <3>2. r.type # "queue_full"
      BY <1>1, <2>3, <3>1 DEF TypesOf, Leaves, Answers
    <3>3. i \in DOMAIN output /\ output'[i] = output[i]
      BY <1>4, <2>3, <3>2, Added DEF Leaves
    <3> QED
      BY <1>4, <2>1, <3>3 DEF SubjectInv
  <2> QED
    BY <2>2, <2>3 DEF EmitterMoves
<1> QED
  BY <1>1, <1>3, <1>4 DEF SubjectInv

(* The input goroutine goes on and no lane is given a command. *)
LEMMA SubjectsKeptByInput ==
  ASSUME TypeInv, NumberInv, SubjectInv, InputStep, Elsewhere("input"),
         \A lane \in Lanes : Known(lane)' = Known(lane)
  PROVE  SubjectInv'
<1>1. /\ output' = output /\ "input" \in Workers /\ "receive" \in Workers \ {"input"} /\ ~Emitting("input")
      /\ pc \in [Workers -> Places]
  BY Constants DEF Elsewhere, emitVars, Emitting, TypeInv, TypeOK, Places
<1>2. Emitting("receive")' = Emitting("receive") /\ record'["receive"] = record["receive"]
  BY <1>1 DEF Elsewhere, Emitting
<1>3. CASE \E type \in {"invalid_command", "quit", "input_failed"} : Emit("input", type, 0)
  <2>1. record'["input"].type \in {"invalid_command", "quit", "input_failed"} /\ record'["input"].of = 0
    BY <1>1, <1>3, EmitsOne DEF TypesOf
  <2> QED
    BY <1>1, <1>2, <2>1 DEF SubjectInv, SubjectsOf
<1>4. CASE \E lane \in Lanes : Command(lane) /\ Emit("input", "queue_full", operationID')
  <2>1. operationID' = operationID + 1 /\ operationID \in 0..lines /\ lines < MaxLines
        /\ lines \in Nat /\ MaxLines \in Nat
    BY <1>4, SemanticShellAssumption DEF Command, ReadLine, TypeInv, TypeOK
  <2>2. record'["input"].type = "queue_full" /\ record'["input"].of = operationID'
    BY <1>1, <1>4, <2>1, EmitsOne DEF TypesOf
  <2>3. operationID' \in 1..MaxLines
    BY <2>1
  <2>4. \A i \in DOMAIN output : output[i].type = "queue_full" => output[i].of < operationID'
    <3>1. \A i \in DOMAIN output : output[i].of \in Nat
      BY RecordsWritten
    <3> QED
      BY <2>1, <3>1 DEF NumberInv
  <2> QED
    BY <1>1, <1>2, <2>2, <2>3, <2>4 DEF SubjectInv, SubjectsOf
<1>5. CASE (\E place \in {"stop", "join", "done"} : Goto("input", place)) \/ UNCHANGED pc
  <2>1. ~Emitting("input")'
    BY <1>1, <1>5 DEF Goto, Emitting
  <2> QED
    BY <1>1, <1>2, <2>1 DEF SubjectInv
<1> QED
  BY <1>3, <1>4, <1>5 DEF InputStep, InvalidCommand, Quit, Command, EndOfInput, InputFails, StopWorkers, Return

LEMMA SubjectsKeptByQueueing ==
  ASSUME TypeInv, TypeInv', SubjectInv, UNCHANGED <<calls, output, pc, record>>, NEW lane \in Lanes,
         operationID' = operationID + 1, queue' = [queue EXCEPT ![lane] = Append(@, operationID')]
  PROVE  SubjectInv'
<1>1. /\ Known(lane)' = Append(Known(lane), operationID') /\ Known(lane) \in Seq(Nat)
      /\ operationID' \in Nat /\ operationID' > 0
  <2>1. calls[lane] \in Seq(Nat) /\ queue[lane] \in Seq(Nat) /\ operationID' \in Nat /\ operationID' > 0
        /\ Known(lane) \in Seq(Nat)
    BY KnownTypes
  <2>2. queue'[lane] = Append(queue[lane], operationID')
    BY DEF TypeInv, TypeOK
  <2>3. Known(lane)' = calls[lane] \o Append(queue[lane], operationID')
    BY <2>2 DEF Known
  <2>4. calls[lane] \o Append(queue[lane], operationID') = Append(calls[lane] \o queue[lane], operationID')
    BY <2>1, AppendLast
  <2> QED
    BY <2>1, <2>3, <2>4 DEF Known
<1>2. \A other \in Lanes \ {lane} : Known(other)' = Known(other)
  BY DEF Known, TypeInv, TypeOK
<1>3. \A k \in DOMAIN Known(lane)' :
         \/ k \in DOMAIN Known(lane) /\ Known(lane)'[k] = Known(lane)[k]
         \/ Known(lane)'[k] = operationID'
  BY <1>1
<1>4. \A other \in Lanes : \A k \in DOMAIN Known(other)' : Known(other)'[k] > 0
  BY <1>1, <1>2, <1>3 DEF SubjectInv
<1> QED
  BY <1>4 DEF SubjectInv, Emitting

LEMMA KnownStays ==
  ASSUME TypeInv, \/ ReceiveStep \/ Still \/ \E lane \in Lanes : LaneStep(lane)
  PROVE  \A l \in Lanes : Known(l)' = Known(l)
<1>1. CASE ReceiveStep \/ Still \/ \E lane \in Lanes : Leave(lane) \/ Answered(lane)
  BY <1>1 DEF ReceiveStep, CallReceive, Receive, ReceiveFails, Signal, StopReceiving, Still, Known,
              Leave, Answered
<1>2. ASSUME NEW lane \in Lanes, Take(lane)
      PROVE  \A l \in Lanes : Known(l)' = Known(l)
  <2>1. calls'[lane] = Append(calls[lane], Head(queue[lane])) /\ queue'[lane] = Tail(queue[lane])
        /\ queue[lane] # << >>
        /\ \A l \in Lanes \ {lane} : calls'[l] = calls[l] /\ queue'[l] = queue[l]
    BY <1>2 DEF Take, TypeInv, TypeOK
  <2>2. Known(lane)' = Known(lane)
    BY <2>1, HeadMoves, KnownTypes DEF Known
  <2> QED
    BY <2>1, <2>2 DEF Known
<1> QED
  BY <1>1, <1>2 DEF LaneStep

LEMMA SubjectsKept ==
  ASSUME TypeInv, TypeInv', EmitInv, NumberInv, SubjectInv, [Next]_vars
  PROVE  SubjectInv'
<1>1. CASE \E w \in Workers : Lock(w) \/ Written(w) \/ WriteFails(w)
  BY <1>1, EmitterMovesOn, SubjectsKeptByEmitter
<1>2. CASE InputStep /\ Elsewhere("input")
  <2>1. CASE \E lane \in Lanes : /\ Command(lane)
                                 /\ queue' = [queue EXCEPT ![lane] = Append(@, operationID')]
                                 /\ UNCHANGED <<pc, record>>
    BY <2>1, SubjectsKeptByQueueing DEF Command, ReadLine, emitVars
  <2>2. CASE queue' = queue /\ calls' = calls
    <3>1. \A lane \in Lanes : Known(lane)' = Known(lane)
      BY <2>2 DEF Known
    <3> QED
      BY <1>2, <3>1, SubjectsKeptByInput
  <2> QED
    BY <1>2, <2>1, <2>2 DEF InputStep, InvalidCommand, Quit, Command, ReadLine, EndOfInput, InputFails,
                            StopWorkers, Return
<1>3. CASE ReceiveStep /\ Elsewhere("receive")
  <2>1. /\ \A lane \in Lanes : Known(lane)' = Known(lane)
        /\ output' = output /\ "receive" \in Workers /\ "input" \in Workers \ {"receive"}
        /\ pc \in [Workers -> Places] /\ ~Emitting("receive")
    BY <1>3, KnownStays, Constants DEF Elsewhere, emitVars, Emitting, TypeInv, TypeOK, Places
  <2>2. Emitting("input")' = Emitting("input") /\ record'["input"] = record["input"]
    BY <1>3, <2>1 DEF Elsewhere, Emitting
  <2>3. ASSUME NEW update \in Updates, Receive(update[1], update[2])
        PROVE  record'["receive"].of \in SubjectsOf(record'["receive"].type)
    <3>1. update[2] \in Nat
      BY SemanticShellAssumption
    <3>2. CASE Emit("receive", "view", update[2])
      <4>1. record'["receive"].type = "view" /\ record'["receive"].of = update[2]
        BY <2>1, <3>1, <3>2, EmitsOne DEF TypesOf
      <4> QED
        BY <4>1 DEF SubjectsOf, Revisions
    <3>3. CASE Emit("receive", "invalid_update", 0)
      <4>1. record'["receive"].type = "invalid_update" /\ record'["receive"].of = 0
        BY <2>1, <3>3, EmitsOne DEF TypesOf
      <4> QED
        BY <4>1 DEF SubjectsOf
    <3> QED
      BY <2>3, <3>2, <3>3 DEF Receive
  <2>4. CASE ReceiveFails /\ Emit("receive", "receive_failed", 0)
    <3>1. record'["receive"].type = "receive_failed" /\ record'["receive"].of = 0
      BY <2>1, <2>4, EmitsOne DEF TypesOf
    <3> QED
      BY <2>1, <2>2, <3>1 DEF SubjectInv, SubjectsOf
  <2>5. CASE \E place \in {"calling", "stop", "done"} : Goto("receive", place)
    <3>1. ~Emitting("receive")'
      BY <2>1, <2>5 DEF Goto, Emitting
    <3> QED
      BY <2>1, <2>2, <3>1 DEF SubjectInv
  <2>6. CASE \E update \in Updates : Receive(update[1], update[2])
    BY <2>1, <2>2, <2>3, <2>6 DEF SubjectInv
  <2> QED
    BY <1>3, <2>4, <2>5, <2>6 DEF ReceiveStep, CallReceive, ReceiveFails, Signal, StopReceiving
<1>4. CASE (\E lane \in Lanes : LaneStep(lane) /\ Elsewhere(lane)) \/ Still
  <2>1. \A lane \in Lanes : Known(lane)' = Known(lane)
    BY <1>4, KnownStays
  <2>2. output' = output /\ \A w \in {"input", "receive"} : pc'[w] = pc[w] /\ record'[w] = record[w]
    BY <1>4, Constants DEF Elsewhere, emitVars, Still
  <2> QED
    BY <2>1, <2>2 DEF SubjectInv, Emitting
<1> QED
  BY <1>1, <1>2, <1>3, <1>4, StepCases

LEMMA FinalKept ==
  ASSUME TypeInv, EmitInv, FinalInv, [Next]_vars
  PROVE  FinalInv'
<1>1. "input" \in Workers /\ "receive" \in Workers /\ "input" # "receive" /\ pc \in [Workers -> Places]
  BY Constants DEF TypeInv, TypeOK, Places
<1>2. CASE \E w \in Workers : Lock(w) \/ Written(w) \/ WriteFails(w)
  <2>1. PICK w \in Workers : EmitterOnly(w) /\ EmitterMoves(w)
    BY <1>2, EmitterMovesOn
  <2>2. /\ Emitting(w) /\ record[w].type \in TypesOf(w)
        /\ \A other \in Workers \ {w} : pc'[other] = pc[other]
    BY <2>1 DEF EmitterOnly, TypeInv, PlaceInv
  <2>3. CASE output' = output
    <3>1. /\ Met(ReceiveErrors)' = Met(ReceiveErrors)
          /\ Met({"quit", "input_failed"})' = Met({"quit", "input_failed"})
      BY <2>3 DEF Met, ReceiveErrors
    <3> QED
      BY <1>1, <2>2, <3>1 DEF FinalInv, Emitting
  <2>4. ASSUME NEW r \in Records, Leaves(w, r), pc'[w] = After(record[w].type)
        PROVE  FinalInv'
    <3>1. r.type \in {record[w].type, "cut"} /\ output' = Append(output, r)
      BY <2>4 DEF Leaves
    <3>2. /\ Met(ReceiveErrors)' <=> Met(ReceiveErrors) \/ r.type \in ReceiveErrors
          /\ Met({"quit", "input_failed"})' <=>
               Met({"quit", "input_failed"}) \/ r.type \in {"quit", "input_failed"}
      BY <3>1, Meets DEF ReceiveErrors
    <3>3. /\ r.type \in ReceiveErrors => w = "receive" /\ pc'[w] = "signal"
          /\ r.type \in {"quit", "input_failed"} => w = "input" /\ pc'[w] = "stop"
      BY <2>2, <2>4, <3>1 DEF TypesOf, After, Answers, ReceiveErrors
    <3> QED
      BY <1>1, <2>2, <3>2, <3>3 DEF FinalInv, Emitting
  <2> QED
    BY <2>1, <2>3, <2>4 DEF EmitterMoves
<1>3. ASSUME NEW w \in Workers, Elsewhere(w),
             w = "receive" => pc[w] \notin {"signal", "stop", "done"} \/ pc'[w] \in {"stop", "done"},
             w = "input" => pc[w] \notin {"stop", "join", "done"} \/ pc'[w] \in {"join", "done"}
      PROVE  FinalInv'
  <2>1. output' = output /\ \A other \in Workers \ {w} : pc'[other] = pc[other]
    BY <1>3 DEF Elsewhere, emitVars
  <2> QED
    BY <1>1, <1>3, <2>1 DEF FinalInv, Met
<1>4. CASE InputStep /\ Elsewhere("input")
  <2>1. pc["input"] \notin {"stop", "join", "done"} \/ pc'["input"] \in {"join", "done"}
    BY <1>1, <1>4 DEF InputStep, InvalidCommand, Quit, Command, ReadLine, Reading, EndOfInput, InputFails,
                      StopWorkers, Return, Goto
  <2> QED
    BY <1>1, <1>3, <1>4, <2>1
<1>5. CASE ReceiveStep /\ Elsewhere("receive")
  <2>1. pc["receive"] \notin {"signal", "stop", "done"} \/ pc'["receive"] \in {"stop", "done"}
    BY <1>1, <1>5 DEF ReceiveStep, CallReceive, Receive, ReceiveFails, Signal, StopReceiving, Goto
  <2> QED
    BY <1>1, <1>3, <1>5, <2>1
<1>6. CASE \E lane \in Lanes : Elsewhere(lane)
  BY <1>3, <1>6, Constants
<1>7. CASE Still
  BY <1>7 DEF Still, emitVars, FinalInv, Met
<1> QED
  BY <1>2, <1>4, <1>5, <1>6, <1>7, StepCases

(* The words of the log in those of the client. *)
LEMMA LogWords ==
  /\ \A types : Log!Tells(types) <=> Met(types)
  /\ \A types, of : Log!TellsOf(types, of) <=> \E i \in DOMAIN output : output[i].type \in types /\ output[i].of = of
  /\ \A of, type : Log!IsAbove(of, type) <=> \A i \in DOMAIN output : output[i].type = type => output[i].of < of
  /\ \A lane, op : Log!Attempted(lane, op) <=> \E k \in DOMAIN calls[lane] : calls[lane][k] = op
  /\ Log!Answers = Answers /\ Log!StreamErrors = ReceiveErrors /\ Log!LastWords = {"quit", "input_failed"}
BY DEF Log!Tells, Log!TellsOf, Log!IsAbove, Log!Attempted, Met, Log!Answers, Answers, Log!StreamErrors,
       ReceiveErrors, Log!LastWords

LEMMA LogStays ==
  ASSUME UNCHANGED <<output, calls, failure, outcome>>
  PROVE  LogStep
BY DEF LogStep, Log!logVars

(* Nothing but the log changes when a record is written. *)
LEMMA LogWrites ==
  ASSUME TypeInv, EmitInv, EndInv, NEW w \in Workers, Written(w)
  PROVE  Log!Write(record[w].type, record[w].of)
<1>1. pc[w] = "write" /\ record[w] \in Records /\ failure \in BOOLEAN
  BY DEF Written, TypeInv, TypeOK, Records
<1>2. lock = w /\ lock # NoOne /\ ~failure
  BY <1>1, Constants DEF EmitInv
<1>3. record[w].sequence = Len(output) + 1
  BY <1>2 DEF EmitInv
<1>4. record[w] = [type |-> record[w].type, of |-> record[w].of, sequence |-> Len(output) + 1]
  BY <1>1, <1>3 DEF Records
<1>5. outcome = "running"
  BY <1>1 DEF EndInv
<1>6. output' = Append(output, record[w]) /\ UNCHANGED <<calls, failure, outcome>>
  BY DEF Written
<1> QED
  BY <1>2, <1>4, <1>5, <1>6 DEF Log!Write, Log!Numbered

LEMMA LogDoes ==
  ASSUME \/ \E lane \in Lanes, op \in 1..MaxLines :
              Log!Attempt(lane, op) \/ \E type \in Answers : Log!Answer(lane, op, type)
         \/ \E r \in Revisions : Log!Show(r)
         \/ \E type \in ReceiveErrors : Log!StreamFails(type)
         \/ \E op \in 1..MaxLines : Log!Refuse(op)
         \/ Log!Complain
         \/ \E type \in {"quit", "input_failed"} : Log!Conclude(type)
         \/ Log!Break
         \/ Log!Return
  PROVE  LogStep
BY LogWords DEF LogStep, Log!Next, Revisions

LEMMA OperationsAreNumbers ==
  ASSUME TypeInv, NumberInv, SubjectInv, NEW lane \in Lanes
  PROVE  \A k \in DOMAIN Known(lane) : Known(lane)[k] \in 1..MaxLines
<1>1. operationID \in 0..MaxLines /\ MaxLines \in Nat
  BY SemanticShellAssumption DEF TypeInv, TypeOK
<1>2. \A k \in DOMAIN Known(lane) : Known(lane)[k] \in Nat /\ Known(lane)[k] <= operationID /\ Known(lane)[k] > 0
  BY KnownTypes DEF NumberInv, SubjectInv
<1> QED
  BY <1>1, <1>2

LEMMA CallsAreKnown ==
  ASSUME TypeInv, NEW lane \in Lanes
  PROVE  /\ \A k \in DOMAIN calls[lane] :
              k \in DOMAIN Known(lane) /\ Known(lane)[k] = calls[lane][k] /\ k \in 1..Len(calls[lane])
         /\ queue[lane] # << >> =>
              /\ Len(calls[lane]) + 1 \in DOMAIN Known(lane) /\ Len(calls[lane]) \in Nat
              /\ Known(lane)[Len(calls[lane]) + 1] = Head(queue[lane])
BY KnownTypes, Concatenated DEF Known

LEMMA LastCall ==
  ASSUME TypeInv, NumberInv, SubjectInv, NEW lane \in Lanes, calls[lane] # << >>
  PROVE  Last(calls[lane]) = calls[lane][Len(calls[lane])] /\ Last(calls[lane]) \in 1..MaxLines
<1>1. calls[lane] \in Seq(Nat)
  BY KnownTypes
<1>2. Len(calls[lane]) \in DOMAIN calls[lane]
  BY <1>1
<1>3. Last(calls[lane]) = calls[lane][Len(calls[lane])]
  BY DEF Last
<1> QED
  BY <1>2, <1>3, CallsAreKnown, OperationsAreNumbers

(* A whole record is one of the things the log may tell. *)
LEMMA RecordIsLogged ==
  ASSUME TypeInv, EmitInv, ViewInv, NumberInv, AnswerInv, EndInv, SubjectInv, FinalInv,
         NEW w \in Workers, Written(w)
  PROVE  LogStep
<1> DEFINE type == record[w].type
           of   == record[w].of
<1>1. Log!Write(type, of) /\ pc[w] = "write" /\ Emitting(w) /\ type \in TypesOf(w)
  BY LogWrites DEF Written, Emitting, TypeInv, PlaceInv
<1> HIDE DEF type, of
<1>2. CASE w = "receive"
  <2>1. type \in {"view"} \cup ReceiveErrors /\ of \in SubjectsOf(type) /\ ~Met(ReceiveErrors)
    BY <1>1, <1>2 DEF TypesOf, ReceiveErrors, SubjectInv, FinalInv, type, of
  <2>2. CASE type = "view"
    <3>1. of \in Revisions /\ Log!Write("view", of)
      BY <1>1, <2>1, <2>2 DEF SubjectsOf
    <3>2. \A i \in DOMAIN output : output[i].type = "view" => output[i].of < of
      BY <1>1, <1>2, <2>2 DEF ViewInv, type, of
    <3>3. Log!Show(of)
      BY <2>1, <3>1, <3>2, LogWords DEF Log!Show
    <3> QED
      BY <3>1, <3>3, LogDoes
  <2>3. CASE type \in ReceiveErrors
    <3>1. of = 0
      BY <2>1, <2>3 DEF SubjectsOf, ReceiveErrors
    <3>2. Log!StreamFails(type)
      BY <1>1, <2>1, <3>1, LogWords DEF Log!StreamFails
    <3> QED
      BY <2>3, <3>2, LogDoes
  <2> QED
    BY <2>1, <2>2, <2>3
<1>3. CASE w = "input"
  <2>1. /\ type \in {"invalid_command", "quit", "queue_full", "input_failed"} /\ of \in SubjectsOf(type)
        /\ Log!Listening
    BY <1>1, <1>3, LogWords DEF TypesOf, SubjectInv, FinalInv, type, of, Log!Listening
  <2>2. CASE type = "queue_full"
    <3>1. of \in 1..MaxLines /\ Log!Write("queue_full", of)
      BY <1>1, <2>1, <2>2 DEF SubjectsOf
    <3>2. \A i \in DOMAIN output : output[i].type = "queue_full" => output[i].of < of
      BY <1>1, <1>3, <2>2 DEF SubjectInv, type, of
    <3>3. ASSUME NEW lane \in Lanes, NEW k \in DOMAIN calls[lane] PROVE calls[lane][k] # of
      <4>1. of \notin Range(Known(lane))
        BY <1>1, <1>3, <2>2 DEF NumberInv, type, of
      <4> QED
        BY <4>1, CallsAreKnown DEF Range
    <3>4. Log!Refuse(of)
      BY <2>1, <3>1, <3>2, <3>3, LogWords DEF Log!Refuse
    <3> QED
      BY <3>1, <3>4, LogDoes
  <2>3. CASE type # "queue_full"
    <3>1. of = 0
      BY <2>1, <2>3 DEF SubjectsOf
    <3>2. Log!Complain \/ (type \in {"quit", "input_failed"} /\ Log!Conclude(type))
      BY <1>1, <2>1, <2>3, <3>1 DEF Log!Complain, Log!Conclude
    <3> QED
      BY <3>2, LogDoes
  <2> QED
    BY <2>2, <2>3
<1>4. CASE w \in Lanes
  <2>1. type \in Answers /\ calls[w] # << >> /\ of = Last(calls[w]) /\ AnswersIn(output, of) = {}
    BY <1>1, <1>4, Constants DEF TypesOf, TypeInv, PlaceInv, AnswerInv, type, of
  <2>2. of = calls[w][Len(calls[w])] /\ of \in 1..MaxLines
    BY <1>4, <2>1, LastCall
  <2>3. ~Log!TellsOf(Answers, of)
    BY <2>1, LogWords DEF AnswersIn
  <2>4. Log!Answer(w, of, type)
    BY <1>1, <2>1, <2>2, <2>3, LogWords DEF Log!Answer
  <2> QED
    BY <1>4, <2>1, <2>2, <2>4, LogDoes
<1> QED
  BY <1>2, <1>3, <1>4, Constants

(* A write that fails breaks the log, perhaps in the middle of a record. *)
LEMMA FailureIsLogged ==
  ASSUME TypeInv, EmitInv, NumberInv, AnswerInv, EndInv, SubjectInv, NEW w \in Workers, WriteFails(w)
  PROVE  LogStep
<1>1. pc[w] = "write" /\ record[w] \in Records /\ failure \in BOOLEAN /\ Emitting(w)
      /\ record[w].type \in TypesOf(w)
  BY DEF WriteFails, TypeInv, TypeOK, PlaceInv, Records, Emitting
<1>2. lock = w /\ lock # NoOne /\ ~failure /\ outcome = "running"
  BY <1>1, Constants DEF EmitInv, EndInv
<1>3. record[w].sequence = Len(output) + 1
  BY <1>2 DEF EmitInv
<1>4. [record[w] EXCEPT !.type = "cut"] = [type |-> "cut", of |-> record[w].of, sequence |-> Len(output) + 1]
  BY <1>1, <1>3 DEF Records
<1>5. record[w].of \in 1..MaxLines \cup Revisions \cup {0}
  <2>1. CASE w \in {"input", "receive"}
    BY <1>1, <2>1 DEF SubjectInv, SubjectsOf
  <2>2. CASE w \in Lanes
    <3>1. record[w].of = Last(calls[w]) /\ calls[w] # << >>
      BY <1>1, <2>2 DEF AnswerInv, TypeInv, PlaceInv
    <3> QED
      BY <2>2, <3>1, LastCall
  <2> QED
    BY <2>1, <2>2, Constants
<1>6. /\ failure' = TRUE /\ UNCHANGED <<calls, outcome>>
      /\ output' = Append(output, [record[w] EXCEPT !.type = "cut"]) \/ output' = output
  BY DEF WriteFails
<1>7. output' = output \/ \E of \in 1..MaxLines \cup Revisions \cup {0} : Log!Numbered("cut", of)
  BY <1>4, <1>5, <1>6 DEF Log!Numbered
<1>8. Log!Break
  BY <1>2, <1>6, <1>7 DEF Log!Break, Revisions
<1> QED
  BY <1>8, LogDoes

(* A lane asks the session for the next operation of its queue. *)
LEMMA CallIsLogged ==
  ASSUME TypeInv, NumberInv, AnswerInv, EndInv, SubjectInv, NEW lane \in Lanes, Take(lane)
  PROVE  LogStep
<1> DEFINE op == Head(queue[lane])
<1>1. /\ pc[lane] = "ready" /\ queue[lane] # << >> /\ calls' = [calls EXCEPT ![lane] = Append(@, op)]
      /\ UNCHANGED <<output, failure, outcome>>
  BY DEF Take, emitVars
<1>2. outcome = "running"
  BY <1>1, Constants DEF EndInv
<1>3. \A other \in Lanes : ~Log!Attempted(other, op)
  <2>1. \A other \in Lanes : op \notin Range(calls[other])
    BY <1>1, CallsDiffer
  <2> QED
    BY <2>1, LogWords DEF Range
<1>4. /\ Len(calls[lane]) + 1 \in DOMAIN Known(lane) /\ Len(calls[lane]) \in Nat
      /\ Known(lane)[Len(calls[lane]) + 1] = op
  BY <1>1, CallsAreKnown
<1> HIDE DEF op
<1>5. op \in 1..MaxLines
  BY <1>4, OperationsAreNumbers
<1>6. ~Log!TellsOf({"queue_full"}, op)
  <2>1. op \in Range(Known(lane))
    BY <1>4 DEF Range
  <2>2. \A i \in DOMAIN output : output[i].type = "queue_full" => output[i].of # op
    BY <2>1 DEF NumberInv
  <2> QED
    BY <2>2, LogWords
<1>7. ASSUME NEW k \in DOMAIN calls[lane]
      PROVE  calls[lane][k] < op /\ (failure \/ Log!TellsOf(Answers, calls[lane][k]))
  <2>1. k \in DOMAIN Known(lane) /\ Known(lane)[k] = calls[lane][k] /\ k < Len(calls[lane]) + 1
    BY <1>4, CallsAreKnown
  <2>2. calls[lane][k] < op
    BY <1>4, <2>1 DEF NumberInv, OperationsAreDistinct
  <2>3. ~failure => AnswersIn(output, calls[lane][k]) # {}
    BY <1>1 DEF AnswerInv
  <2> QED
    BY <2>2, <2>3, LogWords DEF AnswersIn
<1>8. Log!Attempt(lane, op)
  BY <1>1, <1>2, <1>3, <1>6, <1>7, LogWords DEF Log!Attempt
<1> QED
  BY <1>5, <1>8, LogDoes

(* What Run returns is the verdict of the log. *)
LEMMA ReturnIsLogged ==
  ASSUME TypeInv, ErrorInv, EndInv, Return
  PROVE  LogStep
<1>1. /\ pc["input"] = "join" /\ pc["receive"] = "done" /\ UNCHANGED <<output, calls, failure>>
      /\ outcome' = IF failure THEN "ErrOutput" ELSE IF terminal # "nil" THEN terminal ELSE inputErr
  BY Constants DEF Return, WorkersDone, emitVars
<1>2. outcome = "running"
  BY <1>1, Constants DEF EndInv
<1>3. terminal \in {"nil", "ErrSessionReceive"} /\ inputErr \in {"nil", "ErrInput"}
  BY DEF TypeInv, TypeOK
<1>4. ~failure => (terminal # "nil" <=> Met(ReceiveErrors)) /\ (inputErr # "nil" <=> Met({"input_failed"}))
  BY <1>1 DEF ErrorInv, Emitting
<1>5. Log!Verdict = IF failure THEN "ErrOutput" ELSE IF Met(ReceiveErrors) THEN "ErrSessionReceive"
                    ELSE IF Met({"input_failed"}) THEN "ErrInput" ELSE "nil"
  BY LogWords DEF Log!Verdict
<1>6. outcome' = Log!Verdict
  BY <1>1, <1>3, <1>4, <1>5
<1> QED
  BY <1>1, <1>2, <1>6, LogDoes DEF Log!Return

ClientInv ==
  TypeInv /\ EmitInv /\ ViewInv /\ NumberInv /\ AnswerInv /\ ErrorInv /\ EndInv /\ SubjectInv /\ FinalInv

LEMMA StepIsLogged ==
  ASSUME ClientInv, [Next]_vars
  PROVE  LogStep
<1> USE DEF ClientInv
<1>1. CASE \E w \in Workers : Lock(w) \/ Written(w) \/ WriteFails(w)
  <2>1. ASSUME NEW w \in Workers, Lock(w) PROVE LogStep
    BY <2>1, LogStays DEF Lock
  <2> QED
    BY <1>1, <2>1, RecordIsLogged, FailureIsLogged
<1>2. CASE InputStep
  <2>1. CASE InputStep /\ ~Return
    BY <2>1, LogStays DEF InputStep, InvalidCommand, Quit, Command, ReadLine, EndOfInput, InputFails,
                          StopWorkers, emitVars
  <2> QED
    BY <1>2, <2>1, ReturnIsLogged
<1>3. CASE ReceiveStep
  BY <1>3, LogStays DEF ReceiveStep, CallReceive, Receive, ReceiveFails, Signal, StopReceiving, emitVars
<1>4. ASSUME NEW lane \in Lanes, LaneStep(lane) PROVE LogStep
  <2>1. CASE Leave(lane) \/ Answered(lane)
    BY <2>1, LogStays DEF Leave, Answered, emitVars
  <2> QED
    BY <1>4, <2>1, CallIsLogged DEF LaneStep
<1>5. CASE Still
  BY <1>5, LogStays DEF Still, emitVars
<1> QED
  BY <1>1, <1>2, <1>3, <1>4, <1>5, StepKinds DEF EmitterStep

LEMMA ClientInvKept == Spec => []ClientInv
<1>1. Init => ClientInv
  BY InitTypes, InitEmit, InitViews, InitNumbers, InitAnswers, InitErrors, InitSubjects DEF ClientInv
<1>2. ClientInv /\ [Next]_vars => ClientInv'
  BY TypesKept, EmitKept, ViewsKept, NumbersKept, AnswersKept, ErrorsKept, EndKept, SubjectsKept, FinalKept
     DEF ClientInv
<1> QED
  BY <1>1, <1>2, PTL DEF Spec

(* Whatever its goroutines interleave, a run of the line client is one     *)
(* numbered log: every operation is attempted at most once and after its   *)
(* elders, what came of it is told once, views get newer, nothing follows  *)
(* a last word, and the result is the verdict of the log (shell.go:56-102, *)
(* 104-164, 220-310, 351-371).                                             *)
THEOREM ClientImplementsLog == Spec => KeepsLog
<1>1. Init => Log!Init
  BY DEF Init, Log!Init
<1>2. ClientInv /\ [Next]_vars => [Log!Next]_(Log!logVars)
  BY StepIsLogged DEF LogStep
<1> QED
  BY <1>1, <1>2, ClientInvKept, PTL DEF Spec, KeepsLog, Log!Spec

(* What may be appended to the log by one step of its specification. *)
LEMMA LogGrows ==
  ASSUME LogStep
  PROVE  \/ output' = output
         \/ \E type \in Types, of \in Nat :
              /\ Log!Numbered(type, of)
              /\ type = "view" => Log!IsAbove(of, "view")
<1>1. ASSUME NEW type, NEW of, Log!Write(type, of)
      PROVE  Log!Numbered(type, of)
  BY <1>1 DEF Log!Write
<1>2. 1..MaxLines \subseteq Nat /\ Revisions \subseteq Nat /\ 0 \in Nat
  BY SemanticShellAssumption DEF Revisions
<1>3. Answers \cup ReceiveErrors \cup {"quit", "input_failed", "queue_full", "view", "invalid_command", "cut"}
        \subseteq Types
  BY DEF Types, Fatal, ReceiveErrors
<1>4. "view" \notin Answers \cup ReceiveErrors \cup {"quit", "input_failed"}
  BY DEF Answers, ReceiveErrors
<1>5. CASE \/ UNCHANGED Log!logVars \/ Log!Return
           \/ \E lane \in Lanes, op \in 1..MaxLines : Log!Attempt(lane, op)
  BY <1>5 DEF Log!logVars, Log!Return, Log!Attempt
<1>6. CASE \E lane \in Lanes, op \in 1..MaxLines, type \in Answers : Log!Answer(lane, op, type)
  BY <1>1, <1>2, <1>3, <1>4, <1>6 DEF Log!Answer
<1>7. CASE \E r \in Revisions : Log!Show(r)
  BY <1>1, <1>2, <1>3, <1>7 DEF Log!Show
<1>8. CASE \/ \E type \in ReceiveErrors : Log!StreamFails(type)
           \/ \E type \in {"quit", "input_failed"} : Log!Conclude(type)
           \/ Log!Complain
  BY <1>1, <1>2, <1>3, <1>4, <1>8 DEF Log!StreamFails, Log!Conclude, Log!Complain
<1>9. CASE \E op \in 1..MaxLines : Log!Refuse(op)
  BY <1>1, <1>2, <1>3, <1>9 DEF Log!Refuse
<1>10. CASE Log!Break
  BY <1>2, <1>3, <1>10 DEF Log!Break, Revisions
<1> QED
  BY <1>5, <1>6, <1>7, <1>8, <1>9, <1>10, LogWords DEF LogStep, Log!Next, Revisions

(* The specification of the log says what OutputIsOrdered says, and more:  *)
(* records numbered without a gap, views with increasing revisions         *)
(* (shell.go:351-371, state.go:43-45).                                     *)
THEOREM LogIsOrdered == KeepsLog => []OutputIsOrdered
<1> DEFINE Ordered == output \in Seq(Records) /\ OutputIsOrdered
<1>1. Log!Init => Ordered
  BY DEF Log!Init, OutputIsOrdered, SequenceIsContiguous, ViewsIncrease
<1>2. Ordered /\ [Log!Next]_(Log!logVars) => Ordered'
  <2> SUFFICES ASSUME Ordered, LogStep PROVE Ordered'
    BY DEF LogStep
  <2>1. CASE output' = output
    BY <2>1 DEF OutputIsOrdered, SequenceIsContiguous, ViewsIncrease
  <2>2. ASSUME NEW type \in Types, NEW of \in Nat, Log!Numbered(type, of),
               type = "view" => Log!IsAbove(of, "view")
        PROVE  Ordered'
    <3> DEFINE r == [type |-> type, of |-> of, sequence |-> Len(output) + 1]
    <3>1. output' = Append(output, r) /\ r \in Records
          /\ r.type = type /\ r.of = of /\ r.sequence = Len(output) + 1
      BY <2>2 DEF Log!Numbered, Records
    <3> HIDE DEF r
    <3>2. /\ output' \in Seq(Records) /\ Len(output) \in Nat
          /\ DOMAIN output = 1..Len(output) /\ DOMAIN output' = DOMAIN output \cup {Len(output) + 1}
          /\ \A i \in DOMAIN output : output'[i] = output[i]
          /\ output'[Len(output) + 1] = r
      BY <3>1
    <3>3. SequenceIsContiguous'
      BY <3>1, <3>2 DEF OutputIsOrdered, SequenceIsContiguous
    <3>4. ASSUME NEW i \in DOMAIN output', NEW j \in DOMAIN output', i < j,
                 output'[i].type = "view", output'[j].type = "view"
          PROVE  output'[i].of < output'[j].of
      <4>1. i \in DOMAIN output
        BY <3>2, <3>4
      <4>2. CASE j \in DOMAIN output
        BY <3>2, <3>4, <4>1, <4>2 DEF OutputIsOrdered, ViewsIncrease
      <4>3. CASE j = Len(output) + 1
        BY <2>2, <3>1, <3>2, <3>4, <4>1, <4>3, LogWords
      <4> QED
        BY <3>2, <4>2, <4>3
    <3>5. ViewsIncrease'
      BY <3>4 DEF ViewsIncrease
    <3> QED
      BY <3>2, <3>3, <3>5 DEF OutputIsOrdered
  <2> QED
    BY <2>1, <2>2, LogGrows
<1>3. Ordered => OutputIsOrdered
  OBVIOUS
<1> QED
  BY <1>1, <1>2, <1>3, PTL DEF KeepsLog, Log!Spec

(* The four things a step of the log can do to calls and answers. *)
LEMMA LogMoves ==
  ASSUME LogStep
  PROVE  \/ UNCHANGED <<output, calls>> /\ (failure => failure')
         \/ /\ UNCHANGED calls /\ (failure => failure')
            /\ \E type \in Types \ Answers, of \in Nat : Log!Numbered(type, of)
         \/ \E lane \in Lanes, op \in Nat, type \in Answers : Log!Answer(lane, op, type)
         \/ \E lane \in Lanes, op \in Nat : Log!Attempt(lane, op)
<1>1. ASSUME NEW type, NEW of, Log!Write(type, of)
      PROVE  Log!Numbered(type, of) /\ UNCHANGED <<calls, failure>>
  BY <1>1 DEF Log!Write
<1>2. 1..MaxLines \subseteq Nat /\ Revisions \subseteq Nat /\ 0 \in Nat
  BY SemanticShellAssumption DEF Revisions
<1>3. ReceiveErrors \cup {"quit", "input_failed", "queue_full", "view", "invalid_command", "cut"}
        \subseteq Types \ Answers
  BY DEF Types, Fatal, ReceiveErrors, Answers
<1>4. CASE \E lane \in Lanes, op \in 1..MaxLines : Log!Attempt(lane, op)
  BY <1>2, <1>4
<1>5. CASE \E lane \in Lanes, op \in 1..MaxLines, type \in Answers : Log!Answer(lane, op, type)
  BY <1>2, <1>5
<1>6. CASE \E r \in Revisions : Log!Show(r)
  BY <1>1, <1>2, <1>3, <1>6 DEF Log!Show
<1>7. CASE \/ \E type \in ReceiveErrors : Log!StreamFails(type)
           \/ \E type \in {"quit", "input_failed"} : Log!Conclude(type)
           \/ Log!Complain
  BY <1>1, <1>2, <1>3, <1>7 DEF Log!StreamFails, Log!Conclude, Log!Complain
<1>8. CASE \E op \in 1..MaxLines : Log!Refuse(op)
  BY <1>1, <1>2, <1>3, <1>8 DEF Log!Refuse
<1>9. CASE Log!Break
  BY <1>2, <1>3, <1>9 DEF Log!Break, Revisions
<1>10. CASE Log!Return \/ UNCHANGED Log!logVars
  BY <1>10 DEF Log!Return, Log!logVars
<1> QED
  BY <1>4, <1>5, <1>6, <1>7, <1>8, <1>9, <1>10, LogWords DEF LogStep, Log!Next, Revisions

(* What the log keeps true of the calls it attempted. *)
LogCalls ==
  /\ output \in Seq(Records) /\ calls \in [Lanes -> Seq(Nat)]
  /\ \A lane \in Lanes : \A i, j \in DOMAIN calls[lane] : i < j => calls[lane][i] < calls[lane][j]
  /\ \A l1, l2 \in Lanes : l1 # l2 => Range(calls[l1]) \cap Range(calls[l2]) = {}
  /\ CallsAreAnswered

LEMMA LogAppended ==
  ASSUME output \in Seq(Records), NEW type \in Types, NEW of \in Nat, Log!Numbered(type, of)
  PROVE  /\ output' \in Seq(Records)
         /\ DOMAIN output' = DOMAIN output \cup {Len(output) + 1}
         /\ \A i \in DOMAIN output : output'[i] = output[i] /\ i < Len(output) + 1
         /\ output'[Len(output) + 1].type = type /\ output'[Len(output) + 1].of = of
         /\ \A op : \A i \in AnswersIn(output, op) : i < Len(output) + 1
         /\ type \notin Answers => \A op : AnswersIn(output', op) = AnswersIn(output, op)
         /\ \A op : op # of => AnswersIn(output', op) = AnswersIn(output, op)
         /\ type \in Answers =>
              AnswersIn(output', of) = AnswersIn(output, of) \cup {Len(output) + 1}
<1> DEFINE r == [type |-> type, of |-> of, sequence |-> Len(output) + 1]
<1>1. output' = Append(output, r) /\ r \in Records /\ r.type = type /\ r.of = of
  BY DEF Log!Numbered, Records
<1> HIDE DEF r
<1>2. /\ output' \in Seq(Records) /\ Len(output) \in Nat
      /\ DOMAIN output = 1..Len(output) /\ DOMAIN output' = DOMAIN output \cup {Len(output) + 1}
      /\ \A i \in DOMAIN output : output'[i] = output[i] /\ i < Len(output) + 1
      /\ output'[Len(output) + 1] = r
      /\ Len(output) + 1 \notin DOMAIN output
  BY <1>1
<1> QED
  BY <1>1, <1>2 DEF AnswersIn

(* Neither a call nor an answer. *)
LEMMA LogCallsStay ==
  ASSUME LogCalls, calls' = calls, failure => failure', output' \in Seq(Records),
         \A op : AnswersIn(output', op) = AnswersIn(output, op)
  PROVE  LogCalls'
<1>1. ASSUME NEW i \in DOMAIN output', output'[i].type \in Answers
      PROVE  \E lane \in Lanes : output'[i].of \in Range(calls'[lane])
  <2>1. i \in AnswersIn(output, output'[i].of)
    BY <1>1 DEF AnswersIn
  <2>2. i \in DOMAIN output /\ output[i].type \in Answers /\ output[i].of = output'[i].of
    BY <2>1 DEF AnswersIn
  <2> QED
    BY <2>2 DEF LogCalls, CallsAreAnswered
<1>2. ASSUME NEW lane \in Lanes, NEW k \in DOMAIN calls'[lane]
      PROVE  /\ k < Len(calls'[lane]) /\ ~failure' => AnswersIn(output', calls'[lane][k]) # {}
             /\ \A i \in AnswersIn(output', calls'[lane][k]) :
                  /\ AnswersIn(output', calls'[lane][k]) = {i}
                  /\ \A l \in 1..(k - 1) : \E j \in AnswersIn(output', calls'[lane][l]) : j < i
  <2>1. /\ k < Len(calls[lane]) /\ ~failure => AnswersIn(output, calls[lane][k]) # {}
        /\ \A i \in AnswersIn(output, calls[lane][k]) :
             /\ AnswersIn(output, calls[lane][k]) = {i}
             /\ \A l \in 1..(k - 1) : \E j \in AnswersIn(output, calls[lane][l]) : j < i
    BY DEF LogCalls, CallsAreAnswered
  <2>2. \A l : AnswersIn(output', calls[lane][l]) = AnswersIn(output, calls[lane][l])
    OBVIOUS
  <2> QED
    BY <2>1, <2>2
<1>3. CallsAreAnswered'
  BY <1>1, <1>2 DEF CallsAreAnswered
<1> QED
  BY <1>3 DEF LogCalls

(* The last call of a lane is answered: the calls before it are, since the *)
(* output has not failed.                                                   *)
LEMMA LogCallsAnswer ==
  ASSUME LogCalls, NEW lane \in Lanes, NEW op \in Nat, NEW type \in Answers,
         Log!Answer(lane, op, type)
  PROVE  LogCalls'
<1> DEFINE n == Len(calls[lane])
           new == Len(output) + 1
<1>1. /\ calls[lane] # << >> /\ op = calls[lane][n] /\ calls' = calls
      /\ Log!Numbered(type, op) /\ failure = FALSE /\ failure' = failure
      /\ ~ \E i \in DOMAIN output : output[i].type \in Answers /\ output[i].of = op
  BY LogWords DEF Log!Answer, Log!Write
<1>2. calls[lane] \in Seq(Nat) /\ n \in Nat \ {0} /\ DOMAIN calls[lane] = 1..n
  BY <1>1 DEF LogCalls
<1>3. /\ output' \in Seq(Records) /\ DOMAIN output' = DOMAIN output \cup {new}
      /\ \A i \in DOMAIN output : output'[i] = output[i]
      /\ output'[new].of = op
      /\ \A other : \A i \in AnswersIn(output, other) : i < new
      /\ \A other : other # op => AnswersIn(output', other) = AnswersIn(output, other)
      /\ AnswersIn(output', op) = AnswersIn(output, op) \cup {new}
  <2>1. type \in Types /\ output \in Seq(Records)
    BY DEF Types, Answers, LogCalls
  <2> QED
    BY <1>1, <2>1, LogAppended
<1>4. AnswersIn(output, op) = {}
  BY <1>1 DEF AnswersIn
<1>5. \A l \in Lanes : \A k \in DOMAIN calls[l] : l # lane \/ k # n => calls[l][k] # op
  <2>1. op \in Range(calls[lane])
    <3>1. n \in DOMAIN calls[lane]
      BY <1>2
    <3> QED
      BY <1>1, <3>1 DEF Range
  <2>2. ASSUME NEW l \in Lanes, l # lane, NEW k \in DOMAIN calls[l] PROVE calls[l][k] # op
    BY <2>1, <2>2 DEF LogCalls, Range
  <2>3. ASSUME NEW k \in DOMAIN calls[lane], k # n PROVE calls[lane][k] # op
    <3>1. k \in 1..n /\ k < n /\ n \in DOMAIN calls[lane]
      BY <1>2, <2>3
    <3>2. calls[lane][k] < calls[lane][n]
      BY <3>1 DEF LogCalls
    <3>3. calls[lane][k] \in Nat /\ calls[lane][n] \in Nat
      <4>1. \A m \in DOMAIN calls[lane] : calls[lane][m] \in Nat
        <5>1. calls[lane] \in Seq(Nat)
          BY <1>2
        <5> QED
          BY <5>1
      <4> QED
        BY <3>1, <4>1
    <3> QED
      BY <1>1, <3>2, <3>3
  <2> QED
    BY <2>2, <2>3
<1> HIDE DEF n, new
<1>6. \A i \in DOMAIN output' : output'[i].type \in Answers =>
        \E l \in Lanes : output'[i].of \in Range(calls'[l])
  <2>1. op \in Range(calls[lane])
    BY <1>1, <1>2 DEF Range, n
  <2>2. ASSUME NEW i \in DOMAIN output, output'[i].type \in Answers
        PROVE  \E l \in Lanes : output'[i].of \in Range(calls[l])
    <3>1. output'[i] = output[i]
      BY <1>3
    <3> QED
      BY <2>2, <3>1 DEF LogCalls, CallsAreAnswered
  <2> QED
    BY <1>1, <1>3, <2>1, <2>2
<1>7. ASSUME NEW l \in Lanes, NEW k \in DOMAIN calls[l]
      PROVE  /\ k < Len(calls[l]) => AnswersIn(output', calls[l][k]) # {}
             /\ \A i \in AnswersIn(output', calls[l][k]) :
                  /\ AnswersIn(output', calls[l][k]) = {i}
                  /\ \A m \in 1..(k - 1) : \E j \in AnswersIn(output', calls[l][m]) : j < i
  <2>0. k \in 1..Len(calls[l]) /\ Len(calls[l]) \in Nat /\ DOMAIN calls[l] = 1..Len(calls[l])
    BY DEF LogCalls
  <2>1. /\ k < Len(calls[l]) => AnswersIn(output, calls[l][k]) # {}
        /\ \A i \in AnswersIn(output, calls[l][k]) :
             /\ AnswersIn(output, calls[l][k]) = {i}
             /\ \A m \in 1..(k - 1) : \E j \in AnswersIn(output, calls[l][m]) : j < i
    BY <1>1 DEF LogCalls, CallsAreAnswered
  <2>2. CASE l = lane /\ k = n
    <3>1. AnswersIn(output', calls[l][k]) = {new}
      BY <1>1, <1>3, <1>4, <2>2
    <3>2. ASSUME NEW m \in 1..(k - 1) PROVE \E j \in AnswersIn(output', calls[l][m]) : j < new
      <4>1. m \in DOMAIN calls[lane] /\ m < Len(calls[lane]) /\ m # n
        BY <1>2, <2>0, <2>2 DEF n
      <4>2. AnswersIn(output, calls[lane][m]) # {}
        BY <1>1, <4>1 DEF LogCalls, CallsAreAnswered
      <4>3. AnswersIn(output', calls[lane][m]) = AnswersIn(output, calls[lane][m])
        BY <1>3, <1>5, <4>1
      <4> QED
        BY <1>3, <2>2, <4>2, <4>3
    <3>3. ~(k < Len(calls[l]))
      BY <1>2, <2>2 DEF n
    <3> QED
      BY <3>1, <3>2, <3>3
  <2>3. CASE l # lane \/ k # n
    <3>1. \A m \in 1..(k - 1) : m \in DOMAIN calls[l] /\ (l # lane \/ m # n)
      <4>1. l = lane => k \in 1..n
        BY <1>2
      <4> QED
        BY <1>2, <2>0, <4>1
    <3>2. AnswersIn(output', calls[l][k]) = AnswersIn(output, calls[l][k])
      BY <1>3, <1>5, <2>3
    <3>3. \A m \in 1..(k - 1) : AnswersIn(output', calls[l][m]) = AnswersIn(output, calls[l][m])
      BY <1>3, <1>5, <3>1
    <3> QED
      BY <2>1, <3>2, <3>3
  <2> QED
    BY <2>2, <2>3
<1>8. CallsAreAnswered'
  BY <1>1, <1>6, <1>7 DEF CallsAreAnswered
<1> QED
  BY <1>1, <1>3, <1>8 DEF LogCalls

(* A call is made that nothing was said about, after its elders.            *)
LEMMA LogCallsAttempt ==
  ASSUME LogCalls, NEW lane \in Lanes, NEW op \in Nat, Log!Attempt(lane, op)
  PROVE  LogCalls'
<1> DEFINE n == Len(calls[lane])
<1>1. /\ UNCHANGED <<output, failure>>
      /\ calls' = [calls EXCEPT ![lane] = Append(@, op)]
      /\ \A other \in Lanes : ~ \E k \in DOMAIN calls[other] : calls[other][k] = op
      /\ \A k \in DOMAIN calls[lane] :
           /\ calls[lane][k] < op
           /\ \/ failure
              \/ \E i \in DOMAIN output : output[i].type \in Answers /\ output[i].of = calls[lane][k]
  BY LogWords DEF Log!Attempt
<1>2. /\ calls' \in [Lanes -> Seq(Nat)]
      /\ calls'[lane] = Append(calls[lane], op)
      /\ \A other \in Lanes \ {lane} : calls'[other] = calls[other]
  BY <1>1 DEF LogCalls
<1>3. /\ n \in Nat /\ DOMAIN calls[lane] = 1..n /\ DOMAIN calls'[lane] = 1..(n + 1)
      /\ \A k \in 1..n : calls'[lane][k] = calls[lane][k] /\ calls[lane][k] \in Nat
      /\ calls'[lane][n + 1] = op /\ Len(calls'[lane]) = n + 1
  <2>1. calls[lane] \in Seq(Nat)
    BY DEF LogCalls
  <2>2. \A k \in DOMAIN calls[lane] : calls[lane][k] \in Nat
    BY <2>1
  <2>3. /\ n \in Nat /\ DOMAIN calls[lane] = 1..n
        /\ DOMAIN Append(calls[lane], op) = 1..(n + 1)
        /\ \A k \in 1..n : Append(calls[lane], op)[k] = calls[lane][k]
        /\ Append(calls[lane], op)[n + 1] = op /\ Len(Append(calls[lane], op)) = n + 1
    BY <2>1, AppendedSeq
  <2> HIDE DEF n
  <2> QED
    BY <1>2, <2>2, <2>3
<1> HIDE DEF n
<1>4. AnswersIn(output, op) = {}
  <2>1. \A i \in DOMAIN output : output[i].type \in Answers => output[i].of # op
    BY <1>1 DEF LogCalls, CallsAreAnswered, Range
  <2> QED
    BY <2>1 DEF AnswersIn
<1>5. Range(calls'[lane]) = Range(calls[lane]) \cup {op}
  <2>1. 1..(n + 1) = 1..n \cup {n + 1}
    BY <1>3
  <2>2. Range(calls'[lane]) = {calls'[lane][k] : k \in 1..n} \cup {calls'[lane][n + 1]}
    BY <1>3, <2>1 DEF Range
  <2>3. {calls'[lane][k] : k \in 1..n} = Range(calls[lane])
    BY <1>3 DEF Range
  <2> QED
    BY <1>3, <2>2, <2>3
<1>6. \A l1, l2 \in Lanes : l1 # l2 => Range(calls'[l1]) \cap Range(calls'[l2]) = {}
  <2>1. \A other \in Lanes : op \notin Range(calls[other])
    BY <1>1 DEF Range
  <2>2. \A other \in Lanes \ {lane} : Range(calls'[other]) = Range(calls[other])
    BY <1>2
  <2>3. \A l1, l2 \in Lanes : l1 # l2 => Range(calls[l1]) \cap Range(calls[l2]) = {}
    BY DEF LogCalls
  <2>4. ASSUME NEW l1 \in Lanes, NEW l2 \in Lanes, l1 # l2
        PROVE  Range(calls'[l1]) \cap Range(calls'[l2]) = {}
    <3>1. CASE l1 = lane
      BY <1>5, <2>1, <2>2, <2>3, <2>4, <3>1
    <3>2. CASE l2 = lane
      BY <1>5, <2>1, <2>2, <2>3, <2>4, <3>2
    <3>3. CASE l1 # lane /\ l2 # lane
      BY <2>2, <2>3, <2>4, <3>3
    <3> QED
      BY <3>1, <3>2, <3>3
  <2> QED
    BY <2>4
<1>7. ASSUME NEW l \in Lanes, NEW i \in DOMAIN calls'[l], NEW j \in DOMAIN calls'[l], i < j
      PROVE  calls'[l][i] < calls'[l][j]
  <2>1. CASE l # lane
    BY <1>2, <1>7, <2>1 DEF LogCalls
  <2>2. CASE l = lane /\ j \in 1..n
    <3>1. i \in 1..n
      BY <1>3, <1>7, <2>2
    <3> QED
      BY <1>3, <1>7, <2>2, <3>1 DEF LogCalls
  <2>3. CASE l = lane /\ j = n + 1
    <3>1. i \in 1..n
      BY <1>3, <1>7, <2>3
    <3> QED
      BY <1>1, <1>3, <2>3, <3>1
  <2> QED
    BY <1>3, <2>1, <2>2, <2>3
<1>8. ASSUME NEW i \in DOMAIN output, output[i].type \in Answers
      PROVE  \E l \in Lanes : output[i].of \in Range(calls'[l])
  <2>1. PICK l \in Lanes : output[i].of \in Range(calls[l])
    BY <1>8 DEF LogCalls, CallsAreAnswered
  <2> QED
    BY <1>2, <1>5, <2>1
<1>9. ASSUME NEW l \in Lanes, NEW k \in DOMAIN calls'[l]
      PROVE  /\ k < Len(calls'[l]) /\ ~failure => AnswersIn(output, calls'[l][k]) # {}
             /\ \A i \in AnswersIn(output, calls'[l][k]) :
                  /\ AnswersIn(output, calls'[l][k]) = {i}
                  /\ \A m \in 1..(k - 1) : \E j \in AnswersIn(output, calls'[l][m]) : j < i
  <2>1. CASE l # lane
    <3>1. calls'[l] = calls[l] /\ k \in DOMAIN calls[l]
      BY <1>2, <2>1
    <3>2. /\ k < Len(calls[l]) /\ ~failure => AnswersIn(output, calls[l][k]) # {}
          /\ \A i \in AnswersIn(output, calls[l][k]) :
               /\ AnswersIn(output, calls[l][k]) = {i}
               /\ \A m \in 1..(k - 1) : \E j \in AnswersIn(output, calls[l][m]) : j < i
      BY <3>1 DEF LogCalls, CallsAreAnswered
    <3> QED
      BY <3>1, <3>2
  <2>2. CASE l = lane /\ k = n + 1
    BY <1>3, <1>4, <2>2
  <2>3. CASE l = lane /\ k # n + 1
    <3>1. k \in 1..n /\ \A m \in 1..(k - 1) : m \in 1..n
      BY <1>3, <2>3
    <3>2. /\ ~failure => AnswersIn(output, calls[lane][k]) # {}
          /\ \A i \in AnswersIn(output, calls[lane][k]) :
               /\ AnswersIn(output, calls[lane][k]) = {i}
               /\ \A m \in 1..(k - 1) : \E j \in AnswersIn(output, calls[lane][m]) : j < i
      <4>1. k \in DOMAIN calls[lane] /\ (~failure => AnswersIn(output, calls[lane][k]) # {})
        BY <1>1, <1>3, <3>1 DEF AnswersIn
      <4> QED
        BY <4>1 DEF LogCalls, CallsAreAnswered
    <3> QED
      BY <1>3, <2>3, <3>1, <3>2
  <2> QED
    BY <2>1, <2>2, <2>3
<1>10. CallsAreAnswered'
  <2>1. output' = output /\ failure' = failure
    BY <1>1
  <2>2. \A op2 : AnswersIn(output', op2) = AnswersIn(output, op2)
    BY <2>1
  <2> QED
    BY <1>8, <1>9, <2>1, <2>2 DEF CallsAreAnswered
<1>11. output' \in Seq(Records)
  BY <1>1 DEF LogCalls
<1> QED
  BY <1>2, <1>6, <1>7, <1>10, <1>11 DEF LogCalls

(* The specification of the log says what CallsAreAnswered says, and more:  *)
(* a call has one record, after those of the calls of its lane before it,   *)
(* and none is passed over (shell.go:259-287).                              *)
THEOREM LogIsAnswered == KeepsLog => []CallsAreAnswered
<1>1. Log!Init => LogCalls
  <2> SUFFICES ASSUME Log!Init PROVE LogCalls
    OBVIOUS
  <2>1. output = << >> /\ calls = [lane \in Lanes |-> << >>]
    BY DEF Log!Init
  <2> QED
    BY <2>1 DEF LogCalls, CallsAreAnswered, Range
<1>2. LogCalls /\ [Log!Next]_(Log!logVars) => LogCalls'
  <2> SUFFICES ASSUME LogCalls, LogStep PROVE LogCalls'
    BY DEF LogStep
  <2>1. CASE UNCHANGED <<output, calls>> /\ (failure => failure')
    <3>1. output' \in Seq(Records) /\ \A op : AnswersIn(output', op) = AnswersIn(output, op)
      BY <2>1 DEF LogCalls
    <3> QED
      BY <2>1, <3>1, LogCallsStay
  <2>2. ASSUME NEW type \in Types \ Answers, NEW of \in Nat, Log!Numbered(type, of),
               UNCHANGED calls, failure => failure'
        PROVE  LogCalls'
    <3>1. output' \in Seq(Records) /\ \A op : AnswersIn(output', op) = AnswersIn(output, op)
      BY <2>2, LogAppended DEF LogCalls
    <3> QED
      BY <2>2, <3>1, LogCallsStay
  <2> QED
    BY <2>1, <2>2, LogMoves, LogCallsAnswer, LogCallsAttempt
<1>3. LogCalls => CallsAreAnswered
  BY DEF LogCalls
<1> QED
  BY <1>1, <1>2, <1>3, PTL DEF KeepsLog, Log!Spec

-----------------------------------------------------------------------------
(* Over the Agent adapter *)

AdapterProofs == INSTANCE AgentAdapterProofs

(* What the adapter assumes of its constants, and that what it may send is *)
(* among what the client expects of a session.                             *)
ServesClient ==
  /\ QueueDepth \in Nat \ {0} /\ MaxOperation \in Nat
  /\ {"snapshot", "change"} \X Nat \subseteq Updates

LEMMA SameLanes == Adapter!Callers = Lanes /\ AdapterProofs!Callers = Lanes
BY DEF Adapter!Callers, AdapterProofs!Callers, Lanes

LEMMA AdapterMoves ==
  ASSUME ClientNext
  PROVE  Adapter!AdapterNext \/ UNCHANGED adapterVars
<1>1. CASE ClientSteps \/ ReceiveEnds \/ ClientFinished
  BY <1>1 DEF ClientSteps, ReceiveEnds, ClientFinished
<1>2. CASE AdapterSteps
  BY <1>2, SameLanes DEF AdapterSteps, Adapter!AdapterNext
<1>3. ASSUME NEW lane \in Lanes, CallPerform(lane) \/ PerformReturns(lane)
      PROVE  Adapter!AdapterNext
  BY <1>3, SameLanes DEF CallPerform, PerformReturns, Adapter!AdapterNext
<1>4. CASE ReceiveUpdate
  BY <1>4 DEF ReceiveUpdate, Adapter!AdapterNext
<1> QED
  BY <1>1, <1>2, <1>3, <1>4 DEF ClientNext

(* Seen from the adapter, the line client is one of the callers the adapter *)
(* was written for: what is proved of AdapterSpec holds in the composition  *)
(* (shell.go:253-291, adapter.go:95-125).                                   *)
THEOREM AdapterIsServed == ClientSpec => Adapter!AdapterSpec
<1>1. ClientInit => Adapter!InitAdapter
  BY DEF ClientInit
<1>2. [ClientNext]_clientVars => [Adapter!AdapterNext]_(Adapter!adapterVars)
  <2>1. UNCHANGED clientVars => UNCHANGED adapterVars
    BY DEF clientVars
  <2>2. UNCHANGED adapterVars => UNCHANGED Adapter!adapterVars
    BY DEF adapterVars, Adapter!adapterVars, Adapter!stateVars
  <2> QED
    BY <2>1, <2>2, AdapterMoves
<1> QED
  BY <1>1, <1>2, PTL DEF ClientSpec, Adapter!AdapterSpec

LEMMA ClientMoves ==
  ASSUME ServesClient, AdapterProofs!TypeInv, ClientNext
  PROVE  [Next]_vars
<1>1. CASE ClientSteps
  BY <1>1 DEF ClientSteps, Next
<1>2. CASE AdapterSteps \/ ClientFinished
  BY <1>2 DEF AdapterSteps, ClientFinished, Finished
<1>3. ASSUME NEW lane \in Lanes, CallPerform(lane) \/ PerformReturns(lane)
      PROVE  Next
  BY <1>3 DEF CallPerform, PerformReturns, Next
<1>4. CASE ReceiveUpdate
  <2>1. channel # << >> /\ channel \in Seq(Nat)
    BY <1>4 DEF ReceiveUpdate, Adapter!TakeUpdate, AdapterProofs!TypeInv
  <2> DEFINE update == <<IF Head(channel) = 1 THEN "snapshot" ELSE "change", Head(channel)>>
  <2>2. update \in Updates
    BY <2>1 DEF ServesClient
  <2>3. Receive(update[1], update[2])
    BY <1>4 DEF ReceiveUpdate
  <2> HIDE DEF update
  <2> QED
    BY <2>2, <2>3 DEF Next
<1>5. CASE ReceiveEnds
  BY <1>5 DEF ReceiveEnds, Next
<1> QED
  BY <1>1, <1>2, <1>3, <1>4, <1>5 DEF ClientNext

(* Both instances of the adapter are one. *)
LEMMA SameStep ==
  ASSUME Adapter!AdapterNext
  PROVE  AdapterProofs!AdapterNext
<1> USE SameLanes DEF Adapter!At, AdapterProofs!At, 
           Adapter!stateVars, AdapterProofs!stateVars, 
           Adapter!Free, AdapterProofs!Free
<1>1. ASSUME NEW lane \in Lanes, NEW intent \in Adapter!IntentsOf(lane), Adapter!Perform(lane, intent)
      PROVE  AdapterProofs!AdapterNext
  <2>1. intent \in AdapterProofs!IntentsOf(lane)
    BY DEF Adapter!IntentsOf, AdapterProofs!IntentsOf
  <2>2. AdapterProofs!Perform(lane, intent)
    BY <1>1, Zenon DEF Adapter!Perform, AdapterProofs!Perform, Adapter!Callers, AdapterProofs!Callers,
                       Adapter!Cardinality, AdapterProofs!Cardinality
  <2> QED
    BY <2>1, <2>2 DEF AdapterProofs!AdapterNext
<1>2. ASSUME NEW lane \in Lanes, Adapter!Work(lane)
      PROVE  AdapterProofs!AdapterNext
  <2>1. Adapter!Number(lane) => AdapterProofs!Number(lane)
    BY DEF Adapter!Number, AdapterProofs!Number
  <2>2. Adapter!Start(lane) => AdapterProofs!Start(lane)
    BY DEF Adapter!Start, AdapterProofs!Start, Adapter!AskAbout, AdapterProofs!AskAbout
  <2>3. Adapter!ForRun(lane) => AdapterProofs!ForRun(lane)
    BY DEF Adapter!ForRun, AdapterProofs!ForRun, Adapter!AskAbout, AdapterProofs!AskAbout
  <2>4. Adapter!NoRun(lane) \/ Adapter!Unbuilt(lane) => AdapterProofs!NoRun(lane) \/ AdapterProofs!Unbuilt(lane)
    BY DEF Adapter!NoRun, AdapterProofs!NoRun, Adapter!Unbuilt, AdapterProofs!Unbuilt
  <2>5. Adapter!StoreRun(lane) => AdapterProofs!StoreRun(lane)
    BY DEF Adapter!StoreRun, AdapterProofs!StoreRun
  <2>6. Adapter!Announce(lane) => AdapterProofs!Announce(lane)
    BY DEF Adapter!Announce, AdapterProofs!Announce
  <2>7. Adapter!Send(lane) => AdapterProofs!Send(lane)
    BY DEF Adapter!Send, AdapterProofs!Send
  <2>8. AdapterProofs!Work(lane)
    BY <1>2, <2>1, <2>2, <2>3, <2>4, <2>5, <2>6, <2>7 DEF Adapter!Work, AdapterProofs!Work
  <2> QED
    BY <2>8 DEF AdapterProofs!AdapterNext
<1>3. ASSUME NEW lane \in Lanes, Adapter!Daemon(lane)
      PROVE  AdapterProofs!AdapterNext
  <2>1. Adapter!CallFails(lane) => AdapterProofs!CallFails(lane)
    BY DEF Adapter!CallFails, AdapterProofs!CallFails
  <2>2. Adapter!CallSucceeds(lane) => AdapterProofs!CallSucceeds(lane)
    BY DEF Adapter!CallSucceeds, AdapterProofs!CallSucceeds
  <2>3. AdapterProofs!Daemon(lane)
    BY <1>3, <2>1, <2>2 DEF Adapter!Daemon, AdapterProofs!Daemon
  <2> QED
    BY <2>3 DEF AdapterProofs!AdapterNext
<1>4. ASSUME NEW lane \in Lanes, Adapter!Back(lane)
      PROVE  AdapterProofs!AdapterNext
  <2>1. AdapterProofs!Back(lane)
    BY <1>4 DEF Adapter!Back, AdapterProofs!Back
  <2> QED
    BY <2>1 DEF AdapterProofs!AdapterNext
<1>5. CASE Adapter!TakeUpdate
  BY <1>5 DEF Adapter!TakeUpdate, AdapterProofs!TakeUpdate, AdapterProofs!AdapterNext
<1>6. CASE Adapter!AllCalled
  <2>1. AdapterProofs!AllCalled
    BY <1>6 DEF Adapter!AllCalled, AdapterProofs!AllCalled, Adapter!adapterVars, AdapterProofs!adapterVars
  <2> QED
    BY <2>1 DEF AdapterProofs!AdapterNext
<1> QED
  BY <1>1, <1>2, <1>3, <1>4, <1>5, <1>6 DEF Adapter!AdapterNext

LEMMA SameAdapter == Adapter!AdapterSpec => AdapterProofs!AdapterSpec
<1>1. Adapter!InitAdapter => AdapterProofs!InitAdapter
  BY DEF Adapter!InitAdapter, AdapterProofs!InitAdapter, Adapter!Callers, AdapterProofs!Callers,
         Adapter!Free, AdapterProofs!Free
<1>2. UNCHANGED Adapter!adapterVars => UNCHANGED AdapterProofs!adapterVars
  BY DEF Adapter!adapterVars, AdapterProofs!adapterVars, Adapter!stateVars, AdapterProofs!stateVars
<1>3. [Adapter!AdapterNext]_(Adapter!adapterVars) => [AdapterProofs!AdapterNext]_(AdapterProofs!adapterVars)
  BY <1>2, SameStep
<1> QED
  BY <1>1, <1>3, PTL DEF Adapter!AdapterSpec, AdapterProofs!AdapterSpec

(* Seen from the client, the adapter is one of its sessions: what is proved *)
(* of Spec holds in the composition (session.go:11-16, adapter.go:77-93).   *)
THEOREM ClientIsKept == ServesClient => (ClientSpec => Spec)
<1> SUFFICES ASSUME ServesClient PROVE ClientSpec => Spec
  OBVIOUS
<1>1. AdapterProofs!AdapterSpec => []AdapterProofs!AdapterInv
  BY AdapterProofs!AdapterInvariant DEF ServesClient
<1>2. AdapterProofs!AdapterInv => AdapterProofs!TypeInv
  BY DEF AdapterProofs!AdapterInv
<1>3. ClientInit => Init
  BY DEF ClientInit
<1>4. AdapterProofs!TypeInv /\ [ClientNext]_clientVars => [Next]_vars
  <2>1. UNCHANGED clientVars => UNCHANGED vars
    BY DEF clientVars
  <2> QED
    BY <2>1, ClientMoves
<1> QED
  BY <1>1, <1>2, <1>3, <1>4, AdapterIsServed, SameAdapter, PTL DEF ClientSpec, Spec

(* Without its session the client neither begins a call nor ends one. *)
LEMMA CallsStay ==
  ASSUME TypeInv, EmitInv, ClientSteps, NEW lane \in Lanes
  PROVE  pc'[lane] = "calling" <=> pc[lane] = "calling"
<1>1. lane \in Workers /\ lane # "input" /\ lane # "receive" /\ pc \in [Workers -> Places]
  BY Constants DEF TypeInv, TypeOK, Places
<1>2. CASE \E w \in Workers : Lock(w) \/ Written(w) \/ WriteFails(w)
  <2>1. PICK w \in Workers : Lock(w) \/ Written(w) \/ WriteFails(w)
    BY <1>2
  <2>2. /\ Emitting(w) /\ (pc'[w] = "write" \/ pc'[w] = After(record[w].type))
        /\ \A other \in Workers \ {w} : pc'[other] = pc[other]
    BY <2>1, EmitterEffect
  <2>3. After(record[w].type) # "calling"
    BY <2>2, AfterEmitter
  <2> QED
    BY <1>1, <2>2, <2>3 DEF Emitting
<1>3. CASE InputStep
  BY <1>1, <1>3, InputElsewhere DEF Elsewhere
<1>4. CASE CallReceive \/ Signal \/ StopReceiving
  BY <1>1, <1>4 DEF CallReceive, Signal, StopReceiving, Goto
<1>5. CASE CloseInput \/ CallerCancels
  BY <1>5 DEF CloseInput, CallerCancels
<1>6. CASE \E other \in Lanes : Leave(other)
  BY <1>1, <1>6 DEF Leave, Goto
<1> QED
  BY <1>2, <1>3, <1>4, <1>5, <1>6 DEF ClientSteps, InputStep

CallInv == \A lane \in Lanes : pc[lane] = "calling" <=> stage[lane] # "idle"

LEMMA CallsKept ==
  ASSUME TypeInv, EmitInv, AdapterProofs!TypeInv, CallInv, [ClientNext]_clientVars
  PROVE  CallInv'
<1>1. /\ pc \in [Workers -> Places] /\ Lanes \subseteq Workers
      /\ stage \in [Lanes -> AdapterProofs!Stages]
  BY SameLanes, Constants DEF TypeInv, TypeOK, Places, AdapterProofs!TypeInv
<1>2. CASE ClientSteps
  <2>1. stage' = stage
    BY <1>2 DEF ClientSteps, adapterVars
  <2> QED
    BY <1>2, <2>1, CallsStay DEF CallInv
<1>3. CASE AdapterSteps
  <2>1. pc' = pc
    BY <1>3 DEF AdapterSteps, vars
  <2>2. PICK lane \in Lanes : Adapter!Work(lane) \/ Adapter!Daemon(lane)
    BY <1>3 DEF AdapterSteps
  <2>3. \E from, to \in Adapter!Stages \ {"idle"} : Adapter!At(lane, from, to)
    BY <2>2 DEF Adapter!Work, Adapter!Daemon, Adapter!Number, Adapter!Start, Adapter!ForRun,
                Adapter!NoRun, Adapter!Unbuilt, Adapter!StoreRun, Adapter!Announce, Adapter!Send,
                Adapter!CallFails, Adapter!CallSucceeds, Adapter!AskAbout, Adapter!Stages
  <2>4. \A l \in Lanes : stage'[l] # "idle" <=> stage[l] # "idle"
    BY <1>1, <2>3 DEF Adapter!At
  <2> QED
    BY <2>1, <2>4 DEF CallInv
<1>4. ASSUME NEW lane \in Lanes, CallPerform(lane)
      PROVE  CallInv'
  <2>1. stage' = [stage EXCEPT ![lane] = "begun"]
    BY <1>4 DEF CallPerform, Adapter!Perform, Adapter!At
  <2>2. pc' = [pc EXCEPT ![lane] = "calling"]
    BY <1>4 DEF CallPerform, Take, Goto
  <2> QED
    BY <1>1, <2>1, <2>2 DEF CallInv
<1>5. ASSUME NEW lane \in Lanes, PerformReturns(lane)
      PROVE  CallInv'
  <2>1. stage' = [stage EXCEPT ![lane] = "idle"]
    BY <1>5 DEF PerformReturns, Adapter!Back, Adapter!At
  <2>2. pc' = [pc EXCEPT ![lane] = "done"] \/ pc' = [pc EXCEPT ![lane] = "emit"]
    BY <1>5 DEF PerformReturns, Answered, Goto, Emit
  <2> QED
    BY <1>1, <2>1, <2>2 DEF CallInv
<1>6. CASE ReceiveUpdate
  <2>1. stage' = stage /\ pc' = [pc EXCEPT !["receive"] = "emit"]
    BY <1>6 DEF ReceiveUpdate, Adapter!TakeUpdate, Receive, Emit, Goto
  <2> QED
    BY <1>1, <2>1 DEF CallInv, Lanes
<1>7. CASE ReceiveEnds
  <2>1. stage' = stage /\ pc' = [pc EXCEPT !["receive"] = "done"]
    BY <1>7 DEF ReceiveEnds, ReceiveFails, Goto, adapterVars
  <2> QED
    BY <1>1, <2>1 DEF CallInv, Lanes
<1>8. CASE ClientFinished \/ UNCHANGED clientVars
  <2>1. stage' = stage /\ pc' = pc
    BY <1>8 DEF ClientFinished, Finished, clientVars, vars, adapterVars
  <2> QED
    BY <2>1 DEF CallInv
<1> QED
  BY <1>2, <1>3, <1>4, <1>5, <1>6, <1>7, <1>8 DEF ClientNext

(* What holds of the two parts, each for itself, holds in the composition. *)
LEMMA PartsAreKept ==
  ServesClient =>
    (ClientSpec => []AdapterProofs!AdapterInv /\ []TypeInv /\ []EmitInv /\ []EndInv)
<1> SUFFICES ASSUME ServesClient
             PROVE  ClientSpec => []AdapterProofs!AdapterInv /\ []TypeInv /\ []EmitInv /\ []EndInv
  OBVIOUS
<1>1. AdapterProofs!AdapterSpec => []AdapterProofs!AdapterInv
  BY AdapterProofs!AdapterInvariant DEF ServesClient
<1>2. Init => TypeInv /\ EmitInv /\ EndInv
  BY InitTypes, InitEmit, InitErrors
<1>3. TypeInv /\ EmitInv /\ EndInv /\ [Next]_vars => (TypeInv /\ EmitInv /\ EndInv)'
  BY TypesKept, EmitKept, EndKept
<1> QED
  BY <1>1, <1>2, <1>3, ClientIsKept, AdapterIsServed, SameAdapter, PTL DEF Spec

(* The adapter serves a lane exactly while that lane of the client waits   *)
(* for Perform, and none once Run has returned, whatever the goroutines of *)
(* the client and the calls of the daemon interleave (shell.go:253-291).   *)
THEOREM CallsOfBothAgree == ServesClient => (ClientSpec => []CallsAgree)
<1> SUFFICES ASSUME ServesClient PROVE ClientSpec => []CallsAgree
  OBVIOUS
<1>1. ClientInit => CallInv
  BY SameLanes, Constants DEF ClientInit, Init, Adapter!InitAdapter, CallInv
<1>2. AdapterProofs!AdapterInv => AdapterProofs!TypeInv
  BY DEF AdapterProofs!AdapterInv
<1>3. CallInv /\ TypeInv /\ EmitInv /\ AdapterProofs!TypeInv /\ [ClientNext]_clientVars => CallInv'
  BY CallsKept
<1>4. CallInv /\ EndInv => CallsAgree
  <2>1. SUFFICES ASSUME CallInv, EndInv, outcome # "running", NEW lane \in Lanes
                 PROVE  stage[lane] = "idle"
    BY DEF CallInv, CallsAgree
  <2>2. pc[lane] = "done"
    BY <2>1, Constants DEF EndInv
  <2> QED
    BY <2>1, <2>2 DEF CallInv
<1> QED
  BY <1>1, <1>2, <1>3, <1>4, PartsAreKept, PTL DEF ClientSpec

(* The next update is the one the client waits for, so that the goroutine  *)
(* that receives has only views to emit and no reason to end the run.      *)
StreamInv ==
  /\ shown = Len(delivered)
  /\ record["receive"].type = "view"
  /\ pc["receive"] \notin {"signal", "stop"}
  /\ terminal = "nil"
  /\ ~Met(ReceiveErrors)

(* Whoever emits, the output has no error of the stream. *)
LEMMA StreamKeptByEmitter ==
  ASSUME TypeInv, EmitInv, StreamInv, delivered' = delivered,
         NEW w \in Workers, Lock(w) \/ Written(w) \/ WriteFails(w)
  PROVE  StreamInv'
<1>1. EmitterOnly(w) /\ EmitterMoves(w)
  BY EmitterMovesOn
<1>2. shown' = shown /\ terminal' = terminal
  BY <1>1 DEF EmitterOnly
<1>3. record'["receive"].type = "view"
  BY <1>1, Constants DEF EmitterOnly, StreamInv
<1>4. pc'["receive"] \notin {"signal", "stop"}
  <2>1. CASE w = "receive"
    <3>1. After(record[w].type) = "ready"
      BY <2>1 DEF StreamInv, After
    <3> QED
      BY <1>1, <2>1, <3>1 DEF EmitterMoves
  <2>2. CASE w # "receive"
    BY <1>1, <2>2, Constants DEF EmitterOnly, StreamInv
  <2> QED
    BY <2>1, <2>2
<1>5. ~Met(ReceiveErrors)'
  <2>1. CASE output' = output
    BY <2>1 DEF StreamInv, Met
  <2>2. ASSUME NEW r \in Records, Leaves(w, r)
        PROVE  ~Met(ReceiveErrors)'
    <3>1. Met(ReceiveErrors)' <=> Met(ReceiveErrors) \/ r.type \in ReceiveErrors
      BY <2>2, Meets DEF Leaves
    <3>2. record[w].type \in TypesOf(w)
      BY <1>1 DEF EmitterOnly, TypeInv, PlaceInv
    <3>3. w # "receive" => record[w].type \notin ReceiveErrors
      BY <3>2, Constants DEF TypesOf, Answers, ReceiveErrors
    <3>4. w = "receive" => record[w].type \notin ReceiveErrors
      BY DEF StreamInv, ReceiveErrors
    <3>5. r.type \notin ReceiveErrors
      BY <2>2, <3>3, <3>4 DEF Leaves, ReceiveErrors
    <3> QED
      BY <3>1, <3>5 DEF StreamInv
  <2> QED
    BY <1>1, <2>1, <2>2 DEF EmitterMoves
<1> QED
  BY <1>2, <1>3, <1>4, <1>5 DEF StreamInv

(* The client accepts what the adapter sends next. *)
LEMMA StreamKeptByUpdate ==
  ASSUME TypeInv, AdapterProofs!TypeInv, AdapterProofs!InPlace, StreamInv, ReceiveUpdate
  PROVE  StreamInv'
<1>1. /\ channel \in Seq(Nat) /\ delivered \in Seq(Nat) /\ channel # << >>
      /\ delivered' = Append(delivered, Head(channel))
  BY DEF AdapterProofs!TypeInv, ReceiveUpdate, Adapter!TakeUpdate
<1> DEFINE next == Head(channel)
           kind == IF next = 1 THEN "snapshot" ELSE "change"
<1>2. next = Len(delivered) + 1 /\ Len(delivered) \in Nat /\ Len(delivered') = Len(delivered) + 1
  <2>1. Head(channel) = channel[1] /\ 1 \in 1..Len(channel)
    BY <1>1
  <2>2. channel[1] = Len(delivered) + 1
    BY <2>1 DEF AdapterProofs!InPlace
  <2> QED
    BY <1>1, <2>1, <2>2
<1>3. Receive(kind, next)
  BY DEF ReceiveUpdate
<1> HIDE DEF next
<1>4. Accepts(kind, next)
  BY <1>2 DEF Accepts, StreamInv
<1> HIDE DEF kind
<1>5. /\ shown' = next /\ Emit("receive", "view", next)
      /\ UNCHANGED <<output, terminal>>
  BY <1>3, <1>4 DEF Receive, emitVars
<1>6. /\ "receive" \in Workers /\ "view" \in TypesOf("receive") /\ next \in Nat
  BY <1>2, Constants DEF TypesOf
<1>7. pc'["receive"] = "emit" /\ record'["receive"].type = "view"
  BY <1>5, <1>6, EmitsOne
<1> QED
  BY <1>2, <1>5, <1>7 DEF StreamInv, Met

LEMMA StreamKept ==
  ASSUME TypeInv, EmitInv, AdapterProofs!TypeInv, AdapterProofs!InPlace, StreamInv,
         [ClientNext]_clientVars
  PROVE  StreamInv'
<1>1. /\ pc \in [Workers -> Places] /\ record \in [Workers -> Records]
      /\ "receive" \in Workers /\ "input" \in Workers
  BY Constants DEF TypeInv, TypeOK, Places, Records
<1>2. ASSUME NEW w \in Workers, w # "receive", Elsewhere(w),
             UNCHANGED <<shown, terminal, delivered>>
      PROVE  StreamInv'
  <2>1. pc'["receive"] = pc["receive"] /\ record'["receive"] = record["receive"] /\ output' = output
    BY <1>1, <1>2 DEF Elsewhere, emitVars
  <2> QED
    BY <1>2, <2>1 DEF StreamInv, Met
<1>3. CASE ClientSteps
  <2>1. delivered' = delivered
    BY <1>3 DEF ClientSteps, adapterVars
  <2>2. CASE \E w \in Workers : Lock(w) \/ Written(w) \/ WriteFails(w)
    BY <2>1, <2>2, StreamKeptByEmitter
  <2>3. CASE InputStep
    <3>1. UNCHANGED <<shown, terminal>>
      BY <2>3 DEF InputStep, InvalidCommand, Quit, Command, ReadLine, EndOfInput, InputFails,
                  StopWorkers, Return
    <3> QED
      BY <1>1, <1>2, <2>1, <2>3, <3>1, InputElsewhere
  <2>4. CASE CallReceive
    BY <1>1, <2>1, <2>4 DEF CallReceive, Goto, emitVars, StreamInv, Met
  <2>5. ~Signal /\ ~StopReceiving
    BY DEF Signal, StopReceiving, StreamInv
  <2>6. CASE CloseInput \/ CallerCancels
    BY <2>1, <2>6 DEF CloseInput, CallerCancels, emitVars, StreamInv, Met
  <2>7. ASSUME NEW lane \in Lanes, Leave(lane)
        PROVE  StreamInv'
    <3>1. UNCHANGED <<shown, terminal>> /\ LaneStep(lane) /\ lane \in Workers /\ lane # "receive"
      BY <2>7, Constants DEF Leave, LaneStep
    <3> QED
      BY <1>2, <2>1, <3>1, LaneElsewhere
  <2> QED
    BY <1>3, <2>2, <2>3, <2>4, <2>5, <2>6, <2>7 DEF ClientSteps, InputStep
<1>4. ASSUME NEW lane \in Lanes, CallPerform(lane) \/ PerformReturns(lane)
      PROVE  StreamInv'
  <2>1. LaneStep(lane) /\ lane \in Workers /\ lane # "receive"
    BY <1>4, Constants DEF CallPerform, PerformReturns, LaneStep
  <2>2. UNCHANGED <<shown, terminal, delivered>>
    BY <1>4 DEF CallPerform, PerformReturns, Take, Answered, Adapter!Perform, Adapter!Back
  <2> QED
    BY <1>2, <2>1, <2>2, LaneElsewhere
<1>5. CASE ReceiveUpdate
  BY <1>5, StreamKeptByUpdate
<1>6. CASE ReceiveEnds
  <2>1. /\ pc' = [pc EXCEPT !["receive"] = "done"]
        /\ UNCHANGED <<record, shown, output, terminal, delivered>>
    BY <1>6 DEF ReceiveEnds, ReceiveFails, Goto, emitVars, adapterVars
  <2> QED
    BY <1>1, <2>1 DEF StreamInv, Met
<1>7. CASE AdapterSteps
  <2>1. delivered' = delivered
    BY <1>7 DEF AdapterSteps, Adapter!Work, Adapter!Daemon, Adapter!Number, Adapter!Start, Adapter!ForRun,
                Adapter!NoRun, Adapter!Unbuilt, Adapter!StoreRun, Adapter!Announce, Adapter!Send,
                Adapter!CallFails, Adapter!CallSucceeds, Adapter!AskAbout
  <2> QED
    BY <1>7, <2>1 DEF AdapterSteps, vars, emitVars, StreamInv, Met
<1>8. CASE ClientFinished \/ UNCHANGED clientVars
  BY <1>8 DEF ClientFinished, Finished, clientVars, vars, emitVars, adapterVars, StreamInv, Met
<1> QED
  BY <1>3, <1>4, <1>5, <1>6, <1>7, <1>8 DEF ClientNext

(* However the lanes of the client and the calls of the daemon interleave, *)
(* the client accepts every update the adapter numbers: the revisions it   *)
(* shows have no gap, and the stream never ends the run (state.go:35-60,   *)
(* adapter.go:247-263).                                                    *)
THEOREM AdapterStreamIsAccepted == ServesClient => (ClientSpec => []StreamIsAccepted)
<1> SUFFICES ASSUME ServesClient PROVE ClientSpec => []StreamIsAccepted
  OBVIOUS
<1>1. ClientInit => StreamInv
  <2> SUFFICES ASSUME ClientInit PROVE StreamInv
    OBVIOUS
  <2>1. record["receive"] = Record("view", 0) /\ pc["receive"] = "ready" /\ output = << >>
    BY Constants DEF ClientInit, Init
  <2>2. Len(delivered) = 0 /\ shown = 0 /\ terminal = "nil"
    BY DEF ClientInit, Init, Adapter!InitAdapter
  <2> QED
    BY <2>1, <2>2 DEF StreamInv, Record, Met
<1>2. AdapterProofs!AdapterInv => AdapterProofs!TypeInv /\ AdapterProofs!InPlace
  BY DEF AdapterProofs!AdapterInv, AdapterProofs!UpdateInv
<1>3. StreamInv /\ TypeInv /\ EmitInv /\ AdapterProofs!TypeInv /\ AdapterProofs!InPlace
        /\ [ClientNext]_clientVars => StreamInv'
  BY StreamKept
<1>4. StreamInv /\ TypeInv /\ EndInv => StreamIsAccepted
  <2>1. SUFFICES ASSUME StreamInv, TypeInv, EndInv
                 PROVE  outcome # "ErrSessionReceive"
    BY DEF StreamInv, StreamIsAccepted, Met, ReceiveErrors
  <2>2. inputErr \in {"nil", "ErrInput"}
    BY <2>1 DEF TypeInv, TypeOK
  <2> QED
    BY <2>1, <2>2 DEF StreamInv, EndInv
<1> QED
  BY <1>1, <1>2, <1>3, <1>4, PartsAreKept, PTL DEF ClientSpec

=============================================================================
