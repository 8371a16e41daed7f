---------------------------- MODULE TestKitProofs ----------------------------
(***************************************************************************)
(* The test kit for every model, every set of bindings and events and      *)
(* every bound: the bindings the driver sends its strokes through, its     *)
(* books, the reference of a replay, the agreement of two replays, and the *)
(* canonical JSON of a trace.                                              *)
(***************************************************************************)
EXTENDS TraceJson, KeyBindings, PromptEditorTheorems, TLAPS

-----------------------------------------------------------------------------
(* What the model and the driver may rely on once a set of bindings has     *)
(* been accepted, whatever the set: no order of the bindings matters, and   *)
(* the driver reaches every action that is bound.                           *)

Sources == Seq([action : STRING, keys : Seq(STRING)])

(* A stroke that matches a binding stands at a place of that binding. *)
LEMMA MatchHasPlace ==
  ASSUME NEW bindings \in Sources, NEW stroke,
         NEW i \in 1..Len(bindings), Matches(bindings[i], stroke)
  PROVE  \E k \in 1..MaxKeys :
           <<i, k>> \in Places(bindings) /\ StrokeAt(bindings, <<i, k>>) = stroke
<1>1. PICK k \in 1..Len(bindings[i].keys) : bindings[i].keys[k] = stroke
  BY DEF Matches
<1>2. Len(bindings[i].keys) \in 1..MaxKeys
  BY DEF Matches, ValidBinding
<1>3. k \in 1..MaxKeys
  <2> DEFINE n == Len(bindings[i].keys)
  <2>1. n \in 1..MaxKeys /\ k \in 1..n
    BY <1>2
  <2> HIDE DEF n
  <2> QED
    BY <2>1 DEF MaxKeys
<1>4. <<i, k>> \in Places(bindings)
  BY <1>3 DEF Places
<1>5. StrokeAt(bindings, <<i, k>>) = stroke
  BY <1>1 DEF StrokeAt
<1> QED
  BY <1>3, <1>4, <1>5

(* A stroke belongs to one binding of a set that normalizeBindings accepts  *)
(* (model.go:469-474), so updateKey, which takes the first that matches     *)
(* (model.go:140-145), does the same in any order of the bindings.          *)
THEOREM StrokeHasOneBinding ==
  ASSUME NEW bindings \in Sources, Normalizes(bindings), NEW stroke,
         NEW i \in 1..Len(bindings), NEW j \in 1..Len(bindings),
         Matches(bindings[i], stroke), Matches(bindings[j], stroke)
  PROVE  i = j
<1>1. PICK k \in 1..MaxKeys :
        <<i, k>> \in Places(bindings) /\ StrokeAt(bindings, <<i, k>>) = stroke
  BY MatchHasPlace
<1>2. PICK l \in 1..MaxKeys :
        <<j, l>> \in Places(bindings) /\ StrokeAt(bindings, <<j, l>>) = stroke
  BY MatchHasPlace
<1>3. <<i, k>> = <<j, l>>
  BY <1>1, <1>2 DEF Normalizes
<1> QED
  BY <1>3

(* So the first match is any match. *)
LEMMA ActionOfTheMatch ==
  ASSUME NEW bindings \in Sources, Normalizes(bindings), NEW stroke,
         NEW i \in 1..Len(bindings), Matches(bindings[i], stroke)
  PROVE  ActionOf(bindings, stroke) = bindings[i].action
<1>1. Len(bindings) \in Nat
  BY DEF Sources
<1>2. \A j \in 1..(i - 1) : ~Matches(bindings[j], stroke)
  <2>1. SUFFICES ASSUME NEW j \in 1..(i - 1), Matches(bindings[j], stroke)
                 PROVE  FALSE
    OBVIOUS
  <2>2. j \in 1..Len(bindings) /\ j # i
    BY <1>1
  <2> QED
    BY <2>1, <2>2, StrokeHasOneBinding
<1>3. IsFirstMatch(bindings, stroke, i)
  BY <1>2 DEF IsFirstMatch
<1>4. ASSUME NEW j \in 1..Len(bindings), IsFirstMatch(bindings, stroke, j)
      PROVE  j = i
  <2>1. Matches(bindings[j], stroke)
    BY <1>4 DEF IsFirstMatch
  <2> QED
    BY <2>1, StrokeHasOneBinding
<1>5. (CHOOSE j \in 1..Len(bindings) : IsFirstMatch(bindings, stroke, j)) = i
  BY <1>3, <1>4
<1> QED
  BY <1>5 DEF ActionOf

(* The scripted driver sends the first stroke of an action                  *)
(* (tuittest/driver.go:224-233): it is a stroke of that action, and the     *)
(* model answers it with that action and no other.                          *)
THEOREM DriverReachesTheAction ==
  ASSUME NEW bindings \in Sources, Normalizes(bindings),
         NEW action \in DOMAIN FirstStrokes(bindings)
  PROVE  LET stroke == FirstStrokes(bindings)[action]
         IN  /\ stroke \in DOMAIN KeyMap(bindings)
             /\ KeyMap(bindings)[stroke] = action
<1> DEFINE stroke == FirstStrokes(bindings)[action]
<1>1. PICK i \in 1..Len(bindings) : bindings[i].action = action
  BY DEF FirstStrokes
<1>2. ASSUME NEW j \in 1..Len(bindings), bindings[j].action = action
      PROVE  j = i
  BY <1>1, <1>2 DEF Normalizes
<1>3. Len(bindings) \in Nat
  BY DEF Sources
<1>4. IsLastOf(bindings, action, i)
  <2>1. \A j \in (i + 1)..Len(bindings) : bindings[j].action # action
    BY <1>2, <1>3
  <2> QED
    BY <1>1, <2>1 DEF IsLastOf
<1>5. (CHOOSE j \in 1..Len(bindings) : IsLastOf(bindings, action, j)) = i
  <2>1. \A j \in 1..Len(bindings) : IsLastOf(bindings, action, j) => j = i
    BY <1>2 DEF IsLastOf
  <2> QED
    BY <1>4, <2>1
<1>6. stroke = bindings[i].keys[1]
  BY <1>5 DEF FirstStrokes
<1>7. ValidBinding(bindings[i])
  BY DEF Normalizes
<1>8. Matches(bindings[i], stroke)
  <2> DEFINE n == Len(bindings[i].keys)
  <2>1. n \in 1..MaxKeys
    BY <1>7 DEF ValidBinding
  <2>2. 1 \in 1..n
    <3> HIDE DEF n
    <3> QED
      BY <2>1 DEF MaxKeys
  <2> QED
    BY <1>6, <1>7, <2>2 DEF Matches
<1>9. stroke \in DOMAIN KeyMap(bindings)
  <2>1. PICK k \in 1..MaxKeys :
          <<i, k>> \in Places(bindings) /\ StrokeAt(bindings, <<i, k>>) = stroke
    BY <1>8, MatchHasPlace
  <2> QED
    BY <2>1 DEF KeyMap, BoundStrokes
<1>10. KeyMap(bindings)[stroke] = ActionOf(bindings, stroke)
  BY <1>9 DEF KeyMap
<1>11. ActionOf(bindings, stroke) = action
  BY <1>1, <1>8, ActionOfTheMatch
<1> QED
  BY <1>9, <1>10, <1>11

-----------------------------------------------------------------------------
(* What the handlers of the model do to what the driver relies on *)

CallKinds == {"submit", "respond"}

LanesTyped ==
  /\ operationToken \in Nat /\ cancelToken \in Nat
  /\ operationActive \in BOOLEAN /\ cancelActive \in BOOLEAN

LanesStay == UNCHANGED <<operationToken, operationActive, cancelToken, cancelActive>>

(* A key takes at most one lane into use, and only a key bound to quit      *)
(* returns the command that quits (internal/presentation/model.go:135-191).  *)
LEMMA KeyTakesOneLane ==
  ASSUME NEW key, UpdateKey(key)
  PROVE  /\ UNCHANGED <<viewVars, size, lastResult>>
         /\ \/ /\ command'.kind = "none"
               /\ LanesStay
            \/ /\ command'.kind = "quit"
               /\ key \in QuitStrokes
               /\ LanesStay
            \/ /\ command'.kind \in CallKinds
               /\ ~operationActive /\ operationActive' = TRUE
               /\ operationToken' = operationToken + 1
               /\ command'.token = operationToken'
               /\ UNCHANGED cancelVars
            \/ /\ command'.kind = "cancel"
               /\ ~cancelActive /\ cancelActive' = TRUE
               /\ cancelToken' = cancelToken + 1
               /\ command'.token = cancelToken'
               /\ UNCHANGED operationVars
<1>1. UNCHANGED size
  BY DEF UpdateKey
<1>2. CASE key \in DOMAIN Bindings
  <2> DEFINE action == Bindings[key]
  <2>1. ApplyAction(action)
    BY <1>2 DEF UpdateKey
  <2>2. CASE action = "quit" /\ Quit
    <3>1. key \in QuitStrokes
      BY <1>2, <2>2, DriverAssumption
    <3> QED
      BY <1>1, <2>2, <3>1
      DEF Quit, Command, LanesStay, viewVars, operationVars, cancelVars
  <2>3. CASE action \in PromptActions /\ IssuePrompt(action)
    BY <1>1, <2>3
    DEF IssuePrompt, Command, PromptActions, CallKinds, OperationFree, viewVars, cancelVars
  <2>4. CASE action = "cancel-active-run" /\ IssueCancel
    BY <1>1, <2>4 DEF IssueCancel, Command, CancelFree, viewVars, operationVars
  <2>5. CASE \/ action \in CursorActions /\ MoveCursor(action)
             \/ action = "history-previous" /\ HistoryPrevious
             \/ action = "history-next" /\ HistoryNext
             \/ action = "backspace" /\ DeleteBack
    <3>1. Edit
      BY <2>5 DEF MoveCursor, HistoryPrevious, HistoryNext, DeleteBack
    <3> QED
      BY <1>1, <3>1
      DEF Edit, NoCommand, Command, LanesStay, viewVars, operationVars, cancelVars
  <2>6. CASE Refused(action) /\ Ignore
    BY <1>1, <2>6
    DEF Ignore, NoCommand, Command, LanesStay, viewVars, operationVars, cancelVars
  <2> HIDE DEF action
  <2> QED
    BY <2>1, <2>2, <2>3, <2>4, <2>5, <2>6 DEF ApplyAction
<1>3. CASE key \notin DOMAIN Bindings
  <2>1. Edit \/ Ignore
    BY <1>3 DEF UpdateKey, TypeText
  <2> QED
    BY <1>1, <2>1
    DEF Edit, Ignore, NoCommand, Command, LanesStay, viewVars, operationVars, cancelVars
<1> QED
  BY <1>2, <1>3

(* No answer changes what an update or a resize sets (model.go:364-419). *)
LEMMA AnswersLeaveTheView ==
  ASSUME NEW token, NEW result,
         CompleteOperation(token, result) \/ CompleteCancel(token, result)
  PROVE  UNCHANGED <<revision, size>>
<1>1. CASE CompleteOperation(token, result)
  <2>1. CASE Ignore
    BY <1>1, <2>1 DEF CompleteOperation, Ignore, viewVars
  <2>2. CASE FailOperation \/ CommitOperation(result)
    BY <1>1, <2>2 DEF CompleteOperation, FailOperation, CommitOperation, viewVars
  <2> QED
    BY <1>1, <2>1, <2>2 DEF CompleteOperation
<1>2. CASE CompleteCancel(token, result)
  BY <1>2 DEF CompleteCancel, Ignore, viewVars
<1> QED
  BY <1>1, <1>2

(* The answer to the current call of a lane frees that lane, and only it. *)
LEMMA OperationAnswerFreesItsLane ==
  ASSUME NEW token, NEW result, CompleteOperation(token, result),
         operationActive, token = operationToken
  PROVE  operationActive' = FALSE /\ UNCHANGED <<operationToken, cancelToken, cancelActive>>
BY DEF CompleteOperation, StaleOperation, cancelVars

LEMMA CancelAnswerFreesItsLane ==
  ASSUME NEW token, NEW result, CompleteCancel(token, result),
         cancelActive, token = cancelToken
  PROVE  cancelActive' = FALSE /\ UNCHANGED <<cancelToken, operationToken, operationActive>>
BY DEF CompleteCancel, StaleCancel, operationVars

-----------------------------------------------------------------------------
(* The books of the driver *)

IsSequence(s) == \E S : s \in Seq(S)

LEMMA AppendSequence ==
  ASSUME NEW s, IsSequence(s), NEW x
  PROVE  IsSequence(Append(s, x)) /\ Len(Append(s, x)) = Len(s) + 1 /\ Len(s) \in Nat
<1>1. PICK S : s \in Seq(S)
  BY DEF IsSequence
<1>2. s \in Seq(S \cup {x})
  BY <1>1
<1>3. Append(s, x) \in Seq(S \cup {x}) /\ Len(Append(s, x)) = Len(s) + 1
  BY <1>2
<1> QED
  BY <1>1, <1>3 DEF IsSequence

LEMMA EmptySequence == IsSequence(<< >>) /\ Len(<< >>) = 0
<1>1. << >> \in Seq({})
  OBVIOUS
<1> QED
  BY <1>1 DEF IsSequence

(* A command that was issued and not answered yet. *)
InFlight(task) ==
  \/ /\ task.kind \in CallKinds
     /\ operationActive /\ ~cancelActive
     /\ task.token = operationToken
  \/ /\ task.kind = "cancel"
     /\ cancelActive /\ ~operationActive
     /\ task.token = cancelToken

Issued == operationToken + cancelToken

WorkerTyped == worker = [at |-> worker.at, task |-> worker.task, answer |-> worker.answer]

(* A closed driver drains nothing, and between two calls nothing is drained. *)
CallInv ==
  /\ drain \in {"none", "next", "wait"}
  /\ closed => drain = "none"
  /\ contextDone => closed
  /\ ~applied => Returned

(* Where the drain of an open driver stands tells how far the session is    *)
(* behind the commands the model has issued.                                *)
BooksInv ==
  ~closed =>
    /\ drain = "none" =>
         /\ worker.at = "none"
         /\ ~operationActive /\ ~cancelActive
         /\ Len(intents) = Issued
    /\ drain = "next" =>
         /\ worker.at = "none"
         /\ InFlight(command)
         /\ Len(intents) + 1 = Issued
    /\ drain = "wait" =>
         /\ InFlight(worker.task)
         /\ \/ worker.at = "answered" /\ Len(intents) = Issued
            \/ worker.at \in {"called", "checked"} /\ Len(intents) + 1 = Issued

DriverInv == LanesTyped /\ IsSequence(intents) /\ WorkerTyped /\ CallInv /\ BooksInv

BooksVars ==
  <<operationToken, operationActive, cancelToken, cancelActive, command, closed, contextDone,
    keys, drain, worker, intents, applied>>

LEMMA DriverInvStable ==
  ASSUME DriverInv, UNCHANGED BooksVars
  PROVE  DriverInv'
BY DEF DriverInv, LanesTyped, IsSequence, WorkerTyped, CallInv, BooksInv, InFlight, Issued,
       Returned, BooksVars

(* A driver that was just made has issued nothing. *)
JustMade ==
  /\ operationToken = 0 /\ cancelToken = 0
  /\ operationActive = FALSE /\ cancelActive = FALSE
  /\ closed = FALSE /\ contextDone = FALSE
  /\ Returned /\ worker = NoWorker /\ intents = << >>

LEMMA NewDriverInv == JustMade => DriverInv
<1> SUFFICES ASSUME JustMade
             PROVE  DriverInv
  OBVIOUS
<1> USE DEF JustMade
<1>1. LanesTyped
  BY DEF LanesTyped
<1>2. IsSequence(intents) /\ Len(intents) = 0
  BY EmptySequence
<1>3. WorkerTyped /\ worker.at = "none"
  BY DEF WorkerTyped, NoWorker
<1>4. CallInv
  BY DEF CallInv, Returned
<1>5. BooksInv
  BY <1>2, <1>3 DEF BooksInv, Issued, Returned
<1> QED
  BY <1>1, <1>2, <1>3, <1>4, <1>5 DEF DriverInv

(* Only what stays put of the books when the model answers no command. *)
LEMMA DriverInvBetweenCalls ==
  ASSUME DriverInv, drain = "none", drain' = "none", LanesStay,
         UNCHANGED <<closed, contextDone, worker, intents>>,
         ~applied' => keys' = << >>
  PROVE  DriverInv'
BY DEF DriverInv, LanesTyped, LanesStay, IsSequence, WorkerTyped, CallInv, BooksInv, InFlight,
       Issued, Returned

LEMMA DriverInvByPress ==
  ASSUME DriverInv, Press, UNCHANGED replayVars
  PROVE  DriverInv'
<1>1. /\ keys # << >> /\ drain = "none" /\ ~closed
      /\ UpdateKey(Head(keys))
      /\ UNCHANGED <<worker, intents, applied>>
  BY DEF Press, sessionVars, replayVars
<1>2. applied
  BY <1>1 DEF DriverInv, CallInv, Returned
<1> DEFINE quits == command'.kind # "none" /\ Head(keys) \in QuitStrokes
<1>3. /\ closed' = quits
      /\ contextDone' = (contextDone \/ quits)
      /\ drain' = IF command'.kind = "none" \/ quits THEN "none" ELSE "next"
  BY DEF Press
<1>4. /\ worker.at = "none" /\ ~operationActive /\ ~cancelActive /\ ~contextDone
      /\ Len(intents) = operationToken + cancelToken
      /\ operationToken \in Nat /\ cancelToken \in Nat
  BY <1>1, Zenon DEF DriverInv, LanesTyped, CallInv, BooksInv, Issued
<1>5. /\ worker'.at = "none" /\ Len(intents') = operationToken + cancelToken
      /\ IsSequence(intents') /\ WorkerTyped'
  BY <1>1, <1>4 DEF DriverInv, IsSequence, WorkerTyped
<1>6. CallInv'
  BY <1>1, <1>2, <1>3, <1>4 DEF CallInv
<1>7. CASE command'.kind \in {"none", "quit"} /\ LanesStay /\ closed' = FALSE
  <2>1. CASE command'.kind = "none"
    BY <1>3, <1>4, <1>5, <1>6, <1>7, <2>1, DriverInvBetweenCalls, Zenon
    DEF DriverInv, LanesTyped, LanesStay, BooksInv, Issued
  <2>2. CASE command'.kind = "quit"
    <3>1. Head(keys) \in QuitStrokes
      BY <1>1, <2>2, KeyTakesOneLane DEF CallKinds
    <3> QED
      BY <1>3, <1>7, <2>2, <3>1
  <2> QED
    BY <1>7, <2>1, <2>2
<1>8. LanesTyped'
  <2>1. CASE LanesStay
    BY <2>1, Zenon DEF DriverInv, LanesTyped, LanesStay
  <2>2. CASE operationActive' = TRUE /\ operationToken' = operationToken + 1 /\ UNCHANGED cancelVars
    BY <1>4, <2>2 DEF DriverInv, LanesTyped, cancelVars
  <2>3. CASE cancelActive' = TRUE /\ cancelToken' = cancelToken + 1 /\ UNCHANGED operationVars
    BY <1>4, <2>3 DEF DriverInv, LanesTyped, operationVars
  <2> QED
    BY <1>1, <2>1, <2>2, <2>3, KeyTakesOneLane
<1>9. CASE closed' = TRUE
  BY <1>5, <1>6, <1>8, <1>9 DEF DriverInv, BooksInv
<1>10. CASE closed' = FALSE /\ command'.kind \in CallKinds \cup {"cancel"}
  <2>1. drain' = "next"
    BY <1>3, <1>10 DEF CallKinds
  <2>2. InFlight(command)' /\ Issued' = Issued + 1
    <3>1. CASE command'.kind \in CallKinds
      <4>1. /\ operationActive' = TRUE /\ cancelActive' = cancelActive
            /\ operationToken' = operationToken + 1 /\ cancelToken' = cancelToken
            /\ command'.token = operationToken'
        BY <1>1, <3>1, KeyTakesOneLane DEF CallKinds, cancelVars
      <4>2. InFlight(command)'
        BY <1>4, <3>1, <4>1, Zenon DEF InFlight
      <4> QED
        BY <1>4, <4>1, <4>2 DEF Issued
    <3>2. CASE command'.kind = "cancel"
      <4>1. /\ cancelActive' = TRUE /\ operationActive' = operationActive
            /\ cancelToken' = cancelToken + 1 /\ operationToken' = operationToken
            /\ command'.token = cancelToken'
        BY <1>1, <3>2, KeyTakesOneLane DEF CallKinds, operationVars
      <4>2. InFlight(command)'
        BY <1>4, <3>2, <4>1, Zenon DEF InFlight
      <4> QED
        BY <1>4, <4>1, <4>2 DEF Issued
    <3> QED
      BY <1>10, <3>1, <3>2
  <2>3. Len(intents') + 1 = Issued'
    BY <1>5, <2>2 DEF Issued
  <2>4. BooksInv'
    BY <1>5, <2>1, <2>2, <2>3 DEF BooksInv
  <2> QED
    BY <1>5, <1>6, <1>8, <2>4 DEF DriverInv
<1>11. closed' \in BOOLEAN
  BY <1>3
<1> QED
  BY <1>1, <1>7, <1>9, <1>10, <1>11, KeyTakesOneLane

LEMMA DriverInvByDrain ==
  ASSUME DriverInv, UNCHANGED replayVars,
         PressClosed \/ StartWorker \/ TimeOut \/ ApplyAnswer \/ CheckContext \/ PerformScripted
  PROVE  DriverInv'
<1> USE DEF DriverInv
<1>0. UNCHANGED applied
  BY DEF replayVars
<1>1. CASE PressClosed
  BY <1>0, <1>1
  DEF PressClosed, LanesTyped, IsSequence, WorkerTyped, CallInv, BooksInv, Returned,
      modelVars, operationVars, cancelVars, sessionVars
<1>2. CASE StartWorker
  <2>1. /\ drain = "next" /\ drain' = "wait"
        /\ worker' = [at |-> "called", task |-> command, answer |-> NoResult]
        /\ LanesStay /\ UNCHANGED <<closed, contextDone, keys, intents>>
    BY <1>2 DEF StartWorker, modelVars, operationVars, cancelVars, sessionVars, LanesStay
  <2>2. InFlight(command) => InFlight(worker.task)'
    BY <2>1 DEF InFlight, LanesStay
  <2>3. BooksInv'
    BY <2>1, <2>2 DEF BooksInv, CallInv, Issued, LanesStay
  <2>4. LanesTyped' /\ IsSequence(intents)' /\ WorkerTyped' /\ CallInv'
    BY <1>0, <2>1 DEF LanesTyped, LanesStay, IsSequence, WorkerTyped, CallInv, Returned
  <2> QED
    BY <2>3, <2>4
<1>3. CASE TimeOut
  BY <1>0, <1>3
  DEF TimeOut, LanesTyped, IsSequence, WorkerTyped, CallInv, BooksInv, Returned,
      modelVars, operationVars, cancelVars, sessionVars
<1>4. CASE ApplyAnswer
  <2>1. /\ drain = "wait" /\ worker.at = "answered" /\ drain' = "none"
        /\ worker' = NoWorker
        /\ UNCHANGED <<closed, contextDone, keys, intents>>
    BY <1>4 DEF ApplyAnswer, sessionVars
  <2>2. InFlight(worker.task) /\ Len(intents) = Issued /\ ~closed
    BY <2>1 DEF CallInv, BooksInv
  <2>3. ~operationActive' /\ ~cancelActive' /\ UNCHANGED <<operationToken, cancelToken>>
    <3>1. CASE worker.task.kind = "cancel"
      <4>1. CompleteCancel(worker.task.token, worker.answer)
        BY <1>4, <3>1 DEF ApplyAnswer
      <4>2. cancelActive /\ ~operationActive /\ worker.task.token = cancelToken
        BY <2>2, <3>1 DEF InFlight, CallKinds
      <4> QED
        BY <4>1, <4>2, CancelAnswerFreesItsLane
    <3>2. CASE worker.task.kind # "cancel"
      <4>1. CompleteOperation(worker.task.token, worker.answer)
        BY <1>4, <3>2 DEF ApplyAnswer
      <4>2. operationActive /\ ~cancelActive /\ worker.task.token = operationToken
        BY <2>2, <3>2 DEF InFlight
      <4> QED
        BY <4>1, <4>2, OperationAnswerFreesItsLane
    <3> QED
      BY <3>1, <3>2
  <2>4. operationActive' \in BOOLEAN /\ cancelActive' \in BOOLEAN
    BY <1>4, <2>2, OperationAnswerFreesItsLane, CancelAnswerFreesItsLane
    DEF ApplyAnswer, InFlight, CallKinds, LanesTyped
  <2>5. BooksInv'
    BY <2>1, <2>2, <2>3 DEF BooksInv, NoWorker, Issued
  <2>6. LanesTyped' /\ IsSequence(intents)' /\ WorkerTyped' /\ CallInv'
    BY <1>0, <2>1, <2>2, <2>3, <2>4
    DEF LanesTyped, IsSequence, WorkerTyped, CallInv, Returned, NoWorker
  <2> QED
    BY <2>5, <2>6
<1>5. CASE CheckContext
  <2>1. /\ worker.at = "called"
        /\ worker' = [worker EXCEPT !.at = IF contextDone THEN "answered" ELSE "checked"]
        /\ LanesStay /\ UNCHANGED <<command, closed, contextDone, keys, drain, intents>>
    BY <1>5
    DEF CheckContext, modelVars, operationVars, cancelVars, sessionVars, callVars, LanesStay
  <2>2. /\ WorkerTyped' /\ worker'.task = worker.task
        /\ ~contextDone => worker'.at = "checked"
    BY <2>1 DEF WorkerTyped
  <2>3. InFlight(worker.task) => InFlight(worker.task)'
    BY <2>1, <2>2 DEF InFlight, LanesStay
  <2>4. BooksInv'
    BY <2>1, <2>2, <2>3 DEF BooksInv, CallInv, Issued, LanesStay
  <2>5. LanesTyped' /\ IsSequence(intents)' /\ CallInv'
    BY <1>0, <2>1 DEF LanesTyped, LanesStay, IsSequence, CallInv, Returned
  <2> QED
    BY <2>2, <2>4, <2>5
<1>6. CASE PerformScripted
  <2>1. /\ worker.at = "checked"
        /\ intents' = Append(intents, <<worker.task.kind, worker.task.prompt>>)
        /\ worker' = [worker EXCEPT !.at = "answered", !.answer = performResult]
        /\ LanesStay /\ UNCHANGED <<command, closed, contextDone, keys, drain>>
    BY <1>6
    DEF PerformScripted, modelVars, operationVars, cancelVars, callVars, LanesStay
  <2>2. WorkerTyped' /\ worker'.task = worker.task /\ worker'.at = "answered"
    BY <2>1 DEF WorkerTyped
  <2>3. InFlight(worker.task) => InFlight(worker.task)'
    BY <2>1, <2>2 DEF InFlight, LanesStay
  <2>4. IsSequence(intents') /\ Len(intents') = Len(intents) + 1 /\ Len(intents) \in Nat
    BY <2>1, AppendSequence
  <2>5. BooksInv'
    BY <2>1, <2>2, <2>3, <2>4 DEF BooksInv, CallInv, Issued, LanesStay
  <2>6. LanesTyped' /\ IsSequence(intents)' /\ CallInv'
    BY <1>0, <2>1, <2>4 DEF LanesTyped, LanesStay, IsSequence, CallInv, Returned
  <2> QED
    BY <2>2, <2>5, <2>6
<1> QED
  BY <1>1, <1>2, <1>3, <1>4, <1>5, <1>6

LEMMA DriverInvByReplay ==
  ASSUME DriverInv,
         \/ ApplyKeys \/ ApplyClosed \/ ApplyUpdate \/ ApplyResize \/ ApplyOther
         \/ Fail \/ Capture \/ ReplayAgain \/ Compare
  PROVE  DriverInv'
<1>1. CASE ApplyKeys \/ ApplyClosed \/ ApplyUpdate \/ ApplyResize \/ ApplyOther
  <2>1. drain = "none" /\ keys = << >> /\ ~applied
    BY <1>1
    DEF ApplyKeys, ApplyClosed, ApplyUpdate, ApplyResize, ApplyOther, Idle, DriverInv,
        CallInv, Returned
  <2>2. UNCHANGED <<drain, closed, contextDone, worker, intents>> /\ applied'
    BY <1>1
    DEF ApplyKeys, ApplyClosed, ApplyUpdate, ApplyResize, ApplyOther, driverVars, callVars,
        sessionVars
  <2>3. LanesStay
    <3>1. CASE ApplyKeys \/ ApplyClosed \/ ApplyOther
      BY <3>1
      DEF ApplyKeys, ApplyClosed, ApplyOther, LanesStay, modelVars, operationVars, cancelVars
    <3>2. CASE ApplyUpdate
      BY <3>2
      DEF ApplyUpdate, InjectUpdate, Ignore, LanesStay, operationVars, cancelVars
    <3>3. CASE ApplyResize
      BY <3>3 DEF ApplyResize, Resize, Ignore, LanesStay, operationVars, cancelVars
    <3> QED
      BY <1>1, <3>1, <3>2, <3>3
  <2> QED
    BY <2>1, <2>2, <2>3, DriverInvBetweenCalls
<1>2. CASE Fail \/ Compare
  <2>1. UNCHANGED BooksVars
    BY <1>2
    DEF Fail, Compare, BooksVars, modelVars, operationVars, cancelVars, driverVars, callVars,
        sessionVars
  <2> QED
    BY <2>1, DriverInvStable
<1>3. CASE Capture
  <2>1. /\ drain = "none" /\ keys = << >>
        /\ LanesStay /\ UNCHANGED <<closed, contextDone, keys, drain, worker, intents>>
    BY <1>3
    DEF Capture, Called, Returned, LanesStay, modelVars, operationVars, cancelVars,
        driverVars, callVars, sessionVars
  <2> QED
    BY <2>1, DriverInvBetweenCalls
<1>4. CASE ReplayAgain
  <2>1. DriverInv'
    <3>1. JustMade'
      BY <1>4 DEF ReplayAgain, AnotherDriver, JustMade, Returned, NoWorker
    <3> QED
      BY <3>1, NewDriverInv, PTL
  <2> QED
    BY <2>1
<1> QED
  BY <1>1, <1>2, <1>3, <1>4

THEOREM DriverInvHolds == Spec => []DriverInv
<1>1. Init => DriverInv
  BY NewDriverInv DEF Init, FreshReplay, NewDriver, NewModel, JustMade, Returned
<1>2. DriverInv /\ [Next]_vars => DriverInv'
  <2> SUFFICES ASSUME DriverInv, [Next]_vars
               PROVE  DriverInv'
    OBVIOUS
  <2>1. CASE DriverStep /\ UNCHANGED replayVars
    BY <2>1, DriverInvByPress, DriverInvByDrain DEF DriverStep
  <2>2. CASE \/ ApplyKeys \/ ApplyClosed \/ ApplyUpdate \/ ApplyResize \/ ApplyOther
             \/ Fail \/ Capture \/ ReplayAgain \/ Compare
    BY <2>2, DriverInvByReplay
  <2>3. CASE UNCHANGED vars
    <3>1. UNCHANGED BooksVars
      BY <2>3
      DEF vars, modelVars, operationVars, cancelVars, driverVars, callVars, sessionVars,
          replayVars, BooksVars
    <3> QED
      BY <3>1, DriverInvStable
  <2> QED
    BY <2>1, <2>2, <2>3 DEF Next, Finished
<1> QED
  BY <1>1, <1>2, PTL DEF Spec

(* Between two calls of an open driver every operation has been settled and *)
(* has been recorded by the session exactly once (docs/tuittest.md): a      *)
(* timeout is never reported as success.                                    *)
THEOREM OperationsAreRecorded == Spec => []EveryOperationIsRecorded
<1>1. DriverInv => EveryOperationIsRecorded
  BY DEF DriverInv, BooksInv, Issued, Returned, EveryOperationIsRecorded
<1> QED
  BY <1>1, DriverInvHolds, PTL

(* Once the driver is closed, by a quit or by a timeout, the worker it left *)
(* behind cannot change the model any more (tuittest/driver.go:342-381).    *)
THEOREM ClosedStaysClosed == Spec => ClosedIsFinal
<1>1. DriverInv /\ [Next]_vars => [closed /\ round' = round => UNCHANGED modelVars]_vars
  <2> SUFFICES ASSUME DriverInv, Next, closed, round' = round
               PROVE  UNCHANGED modelVars
    OBVIOUS
  <2>1. drain = "none"
    BY DEF DriverInv, CallInv
  <2>2. CASE DriverStep
    BY <2>1, <2>2
    DEF DriverStep, Press, PressClosed, StartWorker, TimeOut, ApplyAnswer, CheckContext,
        PerformScripted
  <2>3. CASE ApplyKeys \/ ApplyClosed \/ ApplyUpdate \/ ApplyResize \/ ApplyOther
    BY <2>3 DEF ApplyKeys, ApplyClosed, ApplyUpdate, ApplyResize, ApplyOther
  <2>4. CASE Fail \/ Capture \/ Compare
    BY <2>4 DEF Fail, Capture, Compare
  <2>5. CASE ReplayAgain
    <3>1. round = 1 /\ round' = 2
      BY <2>5 DEF ReplayAgain
    <3> QED
      BY <3>1
  <2>6. CASE Finished
    BY <2>6 DEF Finished, vars
  <2> QED
    BY <2>2, <2>3, <2>4, <2>5, <2>6 DEF Next
<1> QED
  BY <1>1, DriverInvHolds, PTL DEF Spec, ClosedIsFinal

-----------------------------------------------------------------------------
(* The reference of a replay *)

(* Still to come in this round. *)
Ahead(i) == i > next \/ (i = next /\ ~applied)

(* The model stands where the reference does, and every update that is      *)
(* still to come is newer: none of them can be stale.                       *)
ReferenceInv ==
  /\ trace \in Traces
  /\ next \in Nat \ {0}
  /\ reference = [size |-> size, revision |-> revision]
  /\ \A i \in DOMAIN trace :
       trace[i].kind = "update" /\ Ahead(i) => revision < trace[i].update.revision
  /\ ReferenceIsFollowed

(* What is known of a trace: its events, and the order of its updates. *)
LEMMA TraceShape ==
  ASSUME NEW events \in Traces
  PROVE  /\ \A i \in DOMAIN events : i \in Nat \ {0} /\ events[i] \in Events
         /\ Len(events) \in Nat /\ DOMAIN events = 1..Len(events)
         /\ \A i \in DOMAIN events : events[i].kind = "update" =>
              /\ events[i].update.revision \in Nat
              /\ events[i].update.revision > 0
              /\ \A j \in 1..(i - 1) : events[j].kind = "update" =>
                   events[j].update.revision < events[i].update.revision
<1>1. PICK n \in 1..MaxEvents : events \in [1..n -> Events]
  BY DEF Traces
<1>2. n \in Nat /\ n > 0
  BY <1>1, ReplayAssumption
<1>3. DOMAIN events = 1..n /\ \A i \in 1..n : events[i] \in Events
  BY <1>1
<1>4. events \in Seq(Events) /\ Len(events) = n
  BY <1>1, <1>2
<1>5. \A i \in DOMAIN events : events[i].kind = "update" =>
        /\ events[i].update.revision > 0
        /\ \A j \in 1..(i - 1) : events[j].kind = "update" =>
             events[j].update.revision < events[i].update.revision
  BY DEF Traces, ValidTrace, ValidUpdate
<1>6. \A i \in DOMAIN events : events[i].kind = "update" => events[i].update.revision \in Nat
  BY <1>3, ReplayAssumption
<1> QED
  BY <1>2, <1>3, <1>4, <1>5, <1>6

ReferenceVars == <<trace, next, applied, reference, size, revision, outcome>>

LEMMA ReferenceInvStable ==
  ASSUME ReferenceInv, UNCHANGED ReferenceVars
  PROVE  ReferenceInv'
BY DEF ReferenceInv, ReferenceIsFollowed, Ahead, ReferenceVars

(* The steps that leave the model's revision and size alone. *)
LEMMA ReferenceInvByCall ==
  ASSUME ReferenceInv, UNCHANGED <<trace, next, reference, size, revision, outcome>>,
         applied' = applied \/ applied' = TRUE
  PROVE  ReferenceInv'
BY DEF ReferenceInv, ReferenceIsFollowed, Ahead

LEMMA DriverKeepsReference ==
  ASSUME DriverStep
  PROVE  UNCHANGED <<size, revision>>
<1>1. CASE Press
  BY <1>1, KeyTakesOneLane DEF Press, viewVars
<1>2. CASE ApplyAnswer
  BY <1>2, AnswersLeaveTheView DEF ApplyAnswer
<1>3. CASE PressClosed \/ StartWorker \/ TimeOut \/ CheckContext \/ PerformScripted
  BY <1>3
  DEF PressClosed, StartWorker, TimeOut, CheckContext, PerformScripted, modelVars, viewVars
<1> QED
  BY <1>1, <1>2, <1>3 DEF DriverStep

LEMMA ReferenceInvByUpdate ==
  ASSUME ReferenceInv, ApplyUpdate
  PROVE  ReferenceInv'
<1> DEFINE update == trace[next].update
<1>1. /\ trace \in Traces /\ next \in Nat /\ ~applied /\ next <= Len(trace)
      /\ trace[next].kind = "update"
      /\ InjectUpdate(update)
      /\ reference' = [reference EXCEPT !.revision = update.revision]
      /\ applied' = TRUE
      /\ UNCHANGED <<trace, next, outcome>>
  BY DEF ApplyUpdate, Idle, Event, ReferenceInv
<1>2. next \in DOMAIN trace
  <2>1. DOMAIN trace = 1..Len(trace) /\ Len(trace) \in Nat
    BY <1>1, TraceShape
  <2>2. next # 0
    BY DEF ReferenceInv
  <2> QED
    BY <1>1, <2>1, <2>2
<1>3. revision < update.revision
  BY <1>1, <1>2 DEF ReferenceInv, Ahead
<1>4. Fresh(update)
  BY <1>3 DEF Fresh
<1>5. revision' = update.revision /\ size' = size
  BY <1>1, <1>4 DEF InjectUpdate, ApplySessionUpdate
<1>6. reference' = [size |-> size', revision |-> revision']
  BY <1>1, <1>5 DEF ReferenceInv
<1>7. ASSUME NEW i \in DOMAIN trace, trace[i].kind = "update", i > next
      PROVE  revision' < trace[i].update.revision
  <2>1. i \in Nat /\ next \in 1..(i - 1)
    BY <1>1, <1>2, <1>7, TraceShape
  <2> QED
    BY <1>1, <1>5, <1>7, <2>1, TraceShape
<1> QED
  BY <1>1, <1>6, <1>7 DEF ReferenceInv, ReferenceIsFollowed, Ahead

LEMMA ReferenceInvByResize ==
  ASSUME ReferenceInv, ApplyResize
  PROVE  ReferenceInv'
<1>1. /\ trace \in Traces /\ next \in Nat /\ next # 0 /\ next <= Len(trace)
      /\ trace[next].kind = "resize"
      /\ size' = BoundedSize(trace[next].width, trace[next].height)
      /\ reference' = [reference EXCEPT !.size = [width |-> trace[next].width,
                                                  height |-> trace[next].height]]
      /\ applied' = TRUE
      /\ UNCHANGED <<trace, next, outcome, revision>>
  BY DEF ApplyResize, Resize, Ignore, viewVars, Idle, Event, ReferenceInv
<1>2. trace[next] \in Events
  <2>1. next \in DOMAIN trace
    BY <1>1, TraceShape
  <2> QED
    BY <1>1, <2>1, TraceShape
<1>3. trace[next].width \in 1..MaxWidth /\ trace[next].height \in 1..MaxHeight
  BY <1>1, <1>2, ReplayAssumption
<1>4. MaxWidth \in Nat /\ MaxHeight \in Nat
  BY PresentationAssumption
<1>5. size' = [width |-> trace[next].width, height |-> trace[next].height]
  BY <1>1, <1>3, <1>4 DEF BoundedSize, Clamp
<1>6. reference' = [size |-> size', revision |-> revision']
  BY <1>1, <1>5 DEF ReferenceInv
<1> QED
  BY <1>1, <1>6 DEF ReferenceInv, ReferenceIsFollowed, Ahead

LEMMA ReferenceInvByCapture ==
  ASSUME ReferenceInv, Capture
  PROVE  ReferenceInv'
<1>1. /\ outcome' = Verdict
      /\ UNCHANGED <<trace, reference, size, revision>>
      /\ \/ UNCHANGED <<next, applied>>
         \/ next' = next + 1 /\ applied' = FALSE
  BY DEF Capture, modelVars, viewVars
<1>2. applied /\ reference.revision = revision /\ reference.size = size
  BY DEF Capture, Called, ReferenceInv
<1>8. next \in Nat \ {0}
  BY DEF ReferenceInv
<1>3. ReferenceIsFollowed'
  BY <1>1, <1>2 DEF Verdict, ReferenceIsFollowed
<1>4. \A i \in DOMAIN trace : Ahead(i)' => Ahead(i)
  <2>1. \A i \in DOMAIN trace : i \in Nat
    BY TraceShape DEF ReferenceInv
  <2>2. TAKE i \in DOMAIN trace
  <2>3. CASE UNCHANGED <<next, applied>>
    BY <2>3 DEF Ahead
  <2>4. CASE next' = next + 1
    BY <1>8, <2>1, <2>4 DEF Ahead
  <2> QED
    BY <1>1, <2>3, <2>4
<1>5. next' \in Nat \ {0}
  BY <1>1, <1>8
<1>6. \A i \in DOMAIN trace' :
        trace'[i].kind = "update" /\ Ahead(i)' => revision' < trace'[i].update.revision
  BY <1>1, <1>4, Zenon DEF ReferenceInv
<1>7. trace' \in Traces /\ reference' = [size |-> size', revision |-> revision']
  BY <1>1 DEF ReferenceInv
<1> QED
  BY <1>3, <1>5, <1>6, <1>7 DEF ReferenceInv, Ahead

(* A round starts where the reference of a fresh driver does. *)
FreshReference ==
  /\ trace \in Traces
  /\ next = 1 /\ applied = FALSE
  /\ reference = [size |-> size, revision |-> 0] /\ revision = 0
  /\ outcome = "running"

LEMMA ReferenceInvAtStart == FreshReference => ReferenceInv
<1> SUFFICES ASSUME FreshReference
             PROVE  ReferenceInv
  OBVIOUS
<1> USE DEF FreshReference
<1>1. \A i \in DOMAIN trace :
        trace[i].kind = "update" => revision < trace[i].update.revision
  BY TraceShape
<1>2. next \in Nat \ {0} /\ ReferenceIsFollowed
  BY DEF ReferenceIsFollowed
<1> QED
  BY <1>1, <1>2, Zenon DEF ReferenceInv

THEOREM ReferenceInvHolds == Spec => []ReferenceInv
<1>1. Init => ReferenceInv
  <2>1. Init => FreshReference
    BY DEF Init, FreshReplay, NewDriver, NewModel, NewReference, FreshReference
  <2> QED
    BY <2>1, ReferenceInvAtStart
<1>2. DriverInv /\ ReferenceInv /\ [Next]_vars => ReferenceInv'
  <2> SUFFICES ASSUME DriverInv, ReferenceInv, [Next]_vars
               PROVE  ReferenceInv'
    OBVIOUS
  <2>1. CASE DriverStep /\ UNCHANGED replayVars
    BY <2>1, DriverKeepsReference, ReferenceInvByCall DEF replayVars
  <2>2. CASE ApplyKeys \/ ApplyClosed \/ ApplyOther
    <3>1. UNCHANGED <<trace, next, reference, size, revision, outcome>> /\ applied' = TRUE
      BY <2>2 DEF ApplyKeys, ApplyClosed, ApplyOther, modelVars, viewVars
    <3> QED
      BY <3>1, ReferenceInvByCall
  <2>3. CASE ApplyUpdate
    BY <2>3, ReferenceInvByUpdate
  <2>4. CASE ApplyResize
    BY <2>4, ReferenceInvByResize
  <2>5. CASE Fail \/ Compare
    <3>1. /\ UNCHANGED <<trace, next, applied, reference, size, revision>>
          /\ outcome' \in {"failed", "agreed", "nondeterministic"}
      BY <2>5 DEF Fail, Compare, modelVars, viewVars
    <3> QED
      BY <3>1 DEF ReferenceInv, ReferenceIsFollowed, Ahead
  <2>6. CASE Capture
    BY <2>6, ReferenceInvByCapture
  <2>7. CASE ReplayAgain
    <3>1. FreshReference'
      BY <2>7
      DEF ReplayAgain, AnotherDriver, Ended, NewReference, FreshReference, ReferenceInv
    <3> QED
      BY <3>1, ReferenceInvAtStart, PTL
  <2>8. CASE UNCHANGED vars
    <3>1. UNCHANGED ReferenceVars
      BY <2>8 DEF vars, modelVars, viewVars, replayVars, ReferenceVars
    <3> QED
      BY <3>1, ReferenceInvStable
  <2> QED
    BY <2>1, <2>2, <2>3, <2>4, <2>5, <2>6, <2>7, <2>8 DEF Next, Finished
<1> QED
  BY <1>1, <1>2, DriverInvHolds, PTL DEF Spec

(* What Trace.validate accepts keeps the model and the reference of a       *)
(* replay at the same revision and size (tuittest/trace.go:147-191).        *)
THEOREM ReferenceNeverDrifts == Spec => []ReferenceIsFollowed
<1>1. ReferenceInv => ReferenceIsFollowed
  BY DEF ReferenceInv
<1> QED
  BY <1>1, ReferenceInvHolds, PTL

-----------------------------------------------------------------------------
(* A replay as a function of its trace: the model and the session between   *)
(* two commands, and what a key, an event and a capture make of them.       *)

View(ws, st, items, rev, sz) ==
  [workspace |-> ws, status |-> st, activity |-> items, revision |-> rev, size |-> sz]

Prompt(ed, history, i, draft) ==
  [editor |-> ed, history |-> history, index |-> i, draft |-> draft]

Lanes(operations, cancels) == [operations |-> operations, cancels |-> cancels]

Session(script, kept) == [script |-> script, intents |-> kept]

ModelState ==
  [view    |-> View(workspace, status, activity, revision, size),
   prompt  |-> Prompt(editor, promptHistory, historyIndex, historyDraft),
   lanes   |-> Lanes(operationToken, cancelToken),
   session |-> Session(performResult, intents)]

FreshState ==
  [view    |-> View(InitialWorkspace, InitialStatus, << >>, 0, BoundedSize(Width, Height)),
   prompt  |-> Prompt(ZeroEditor, << >>, -1, ZeroEditor),
   lanes   |-> Lanes(0, 0),
   session |-> Session(NoResult, << >>)]

(* The prompt: edited, recalled from the history, committed. *)
Detached(p, ed) == Prompt(ed, p.history, -1, ed)

Recalled(p, i, draft) == Prompt(NewEditor(p.history[i + 1]), p.history, i, draft)

Back(p) ==
  IF p.history = << >> THEN p
  ELSE IF p.index < 0 THEN Recalled(p, Len(p.history) - 1, p.editor)
  ELSE Recalled(p, IF p.index = 0 THEN 0 ELSE p.index - 1, p.draft)

Forth(p) ==
  IF p.history = << >> \/ p.index < 0 THEN p
  ELSE IF p.index + 1 >= Len(p.history) THEN Prompt(p.draft, p.history, -1, p.draft)
  ELSE Recalled(p, p.index + 1, p.draft)

Edited(p, action) ==
  IF action \in CursorActions
  THEN Prompt(Move(p.editor, Direction(action)), p.history, p.index, p.draft)
  ELSE IF action = "history-previous" THEN Back(p)
  ELSE IF action = "history-next" THEN Forth(p)
  ELSE IF action = "backspace" THEN Detached(p, Backspace(p.editor))
  ELSE p

Typed(p, text) ==
  IF text # << >> /\ CanInsert(p.editor, text) THEN Detached(p, Insert(p.editor, text)) ELSE p

Committed(p, text) ==
  IF p.editor.value = text THEN Prompt(ZeroEditor, Remember(p.history, text), -1, ZeroEditor)
  ELSE Prompt(p.editor, Remember(p.history, text), p.index, p.draft)

(* A command: the session records it, the model takes what the script says. *)
Completed(s, kind, text) ==
  IF s.session.script = NoResult
  THEN [s EXCEPT !.view = View(s.view.workspace, ErrorStatus, s.view.activity,
                               s.view.revision, s.view.size)]
  ELSE IF kind = "cancel" THEN s
  ELSE [s EXCEPT !.prompt = Committed(s.prompt, text)]

Performed(s, kind, text) ==
  [s EXCEPT !.session = Session(s.session.script, Append(s.session.intents, <<kind, text>>))]

Drained(s, kind, text) == Completed(Performed(s, kind, text), kind, text)

Prompted(s, kind) ==
  IF s.prompt.editor.value = << >> \/ s.lanes.operations = MaxToken THEN s
  ELSE Drained([s EXCEPT !.lanes = Lanes(s.lanes.operations + 1, s.lanes.cancels)],
               kind, s.prompt.editor.value)

Cancelled(s) ==
  IF s.lanes.cancels = MaxToken THEN s
  ELSE Drained([s EXCEPT !.lanes = Lanes(s.lanes.operations, s.lanes.cancels + 1)],
               "cancel", << >>)

Acted(s, action) ==
  IF action \in PromptActions THEN Prompted(s, action)
  ELSE IF action = "cancel-active-run" THEN Cancelled(s)
  ELSE [s EXCEPT !.prompt = Edited(s.prompt, action)]

Keyed(s, key) ==
  IF key \in DOMAIN Bindings THEN Acted(s, Bindings[key])
  ELSE [s EXCEPT !.prompt = Typed(s.prompt, KeyText[key])]

-----------------------------------------------------------------------------
(* Keys *)

(* What the model needs to have for a key to have one outcome. *)
HistoryTyped == IsSequence(promptHistory) /\ historyIndex \in Int

CurrentPrompt == Prompt(editor, promptHistory, historyIndex, historyDraft)

LEMMA PromptFields ==
  /\ CurrentPrompt.editor = editor /\ CurrentPrompt.history = promptHistory
  /\ CurrentPrompt.index = historyIndex /\ CurrentPrompt.draft = historyDraft
BY DEF CurrentPrompt, Prompt

LEMMA StateFields ==
  /\ ModelState.prompt = CurrentPrompt
  /\ ModelState.view = View(workspace, status, activity, revision, size)
  /\ ModelState.lanes = Lanes(operationToken, cancelToken)
  /\ ModelState.session = Session(performResult, intents)
  /\ [ModelState EXCEPT !.prompt = CurrentPrompt] = ModelState
BY DEF ModelState, CurrentPrompt

(* A key that changes the prompt only. *)
LEMMA EditIsFunction ==
  ASSUME Edit, UNCHANGED <<size, sessionVars>>
  PROVE  command' = NoCommand /\ ModelState' = [ModelState EXCEPT !.prompt = CurrentPrompt']
<1>1. /\ command' = NoCommand
      /\ UNCHANGED <<workspace, status, activity, revision, promptHistory, operationToken,
                     cancelToken, size, performResult, intents>>
  BY DEF Edit, viewVars, operationVars, cancelVars, sessionVars
<1>2. ModelState' =
        [view    |-> View(workspace, status, activity, revision, size),
         prompt  |-> CurrentPrompt',
         lanes   |-> Lanes(operationToken, cancelToken),
         session |-> Session(performResult, intents)]
  BY <1>1 DEF ModelState, CurrentPrompt
<1> QED
  BY <1>1, <1>2 DEF ModelState

LEMMA IgnoreIsFunction ==
  ASSUME Ignore, UNCHANGED <<size, sessionVars>>
  PROVE  /\ command' = NoCommand /\ ModelState' = ModelState
         /\ ModelState' = [ModelState EXCEPT !.prompt = CurrentPrompt]
<1>1. command' = NoCommand /\ ModelState' = ModelState
  BY DEF Ignore, ModelState, viewVars, promptVars, operationVars, cancelVars, sessionVars
<1> QED
  BY <1>1, StateFields

LEMMA BackIsFunction ==
  ASSUME HistoryPrevious PROVE CurrentPrompt' = Back(CurrentPrompt)
<1>1. promptHistory' = promptHistory /\ promptHistory # << >>
  BY DEF HistoryPrevious, Edit
<1> HIDE DEF Prompt
<1>2. CASE historyIndex < 0
  BY <1>1, <1>2, PromptFields DEF HistoryPrevious, RecallEntry, Back, Recalled, CurrentPrompt
<1>3. CASE ~(historyIndex < 0)
  BY <1>1, <1>3, PromptFields DEF HistoryPrevious, RecallEntry, Back, Recalled, CurrentPrompt
<1> QED
  BY <1>2, <1>3

LEMMA ForthIsFunction ==
  ASSUME HistoryNext, HistoryTyped PROVE CurrentPrompt' = Forth(CurrentPrompt)
<1>1. /\ promptHistory' = promptHistory /\ promptHistory # << >>
      /\ historyDraft' = historyDraft /\ ~(historyIndex < 0)
  BY DEF HistoryNext, Edit, HistoryTyped
<1>2. CASE historyIndex + 1 >= Len(promptHistory)
  BY <1>1, <1>2, PromptFields DEF HistoryNext, Forth, CurrentPrompt
<1>3. CASE ~(historyIndex + 1 >= Len(promptHistory))
  BY <1>1, <1>3, PromptFields DEF HistoryNext, RecallEntry, Forth, Recalled, CurrentPrompt
<1> QED
  BY <1>2, <1>3

(* What a command that was just issued has the session and the model do. *)
LEMMA PromptIsFunction ==
  ASSUME NEW kind, IssuePrompt(kind), UNCHANGED <<size, sessionVars>>
  PROVE  /\ command'.kind = kind /\ command'.prompt = pendingPrompt'
         /\ Drained(ModelState', kind, command'.prompt) = Prompted(ModelState, kind)
<1>1. /\ editor.value # << >> /\ operationToken # MaxToken
      /\ command' = Command(kind, operationToken + 1, editor.value)
      /\ pendingPrompt' = editor.value
      /\ operationToken' = operationToken + 1
      /\ UNCHANGED <<workspace, status, activity, revision, editor, promptHistory, historyIndex,
                     historyDraft, cancelToken, size, performResult, intents>>
  BY DEF IssuePrompt, OperationFree, viewVars, promptVars, cancelVars, sessionVars
<1>2. command'.kind = kind /\ command'.prompt = editor.value
  BY <1>1 DEF Command
<1>3. ModelState' = [ModelState EXCEPT !.lanes = Lanes(operationToken + 1, cancelToken)]
  <2>1. ModelState' =
          [view    |-> View(workspace, status, activity, revision, size),
           prompt  |-> CurrentPrompt,
           lanes   |-> Lanes(operationToken + 1, cancelToken),
           session |-> Session(performResult, intents)]
    BY <1>1 DEF ModelState, CurrentPrompt
  <2> QED
    BY <2>1 DEF ModelState, CurrentPrompt
<1>4. /\ ModelState.lanes.operations = operationToken /\ ModelState.lanes.cancels = cancelToken
      /\ ModelState.prompt.editor = editor
  BY StateFields, PromptFields DEF Lanes
<1>5. Prompted(ModelState, kind)
        = Drained([ModelState EXCEPT !.lanes = Lanes(operationToken + 1, cancelToken)],
                  kind, editor.value)
  BY <1>1, <1>4 DEF Prompted
<1> QED
  BY <1>1, <1>2, <1>3, <1>5

LEMMA CancelIsFunction ==
  ASSUME IssueCancel, UNCHANGED <<size, sessionVars>>
  PROVE  /\ command'.kind = "cancel"
         /\ Drained(ModelState', "cancel", command'.prompt) = Cancelled(ModelState)
<1>1. /\ cancelToken # MaxToken
      /\ command' = Command("cancel", cancelToken + 1, << >>)
      /\ cancelToken' = cancelToken + 1
      /\ UNCHANGED <<workspace, status, activity, revision, editor, promptHistory, historyIndex,
                     historyDraft, operationToken, size, performResult, intents>>
  BY DEF IssueCancel, CancelFree, viewVars, promptVars, operationVars, sessionVars
<1>2. command'.kind = "cancel" /\ command'.prompt = << >>
  BY <1>1 DEF Command
<1>3. ModelState' = [ModelState EXCEPT !.lanes = Lanes(operationToken, cancelToken + 1)]
  <2>1. ModelState' =
          [view    |-> View(workspace, status, activity, revision, size),
           prompt  |-> CurrentPrompt,
           lanes   |-> Lanes(operationToken, cancelToken + 1),
           session |-> Session(performResult, intents)]
    BY <1>1 DEF ModelState, CurrentPrompt
  <2> QED
    BY <2>1 DEF ModelState, CurrentPrompt
<1>4. ModelState.lanes.operations = operationToken /\ ModelState.lanes.cancels = cancelToken
  BY StateFields DEF Lanes
<1>5. Cancelled(ModelState)
        = Drained([ModelState EXCEPT !.lanes = Lanes(operationToken, cancelToken + 1)],
                  "cancel", << >>)
  BY <1>1, <1>4 DEF Cancelled
<1> QED
  BY <1>2, <1>3, <1>5

(* What a key makes of the state, once its command has been drained. *)
Outcome(after) ==
  \/ command'.kind \in {"none", "quit"} /\ ModelState' = after
  \/ /\ command'.kind \in CallKinds \cup {"cancel"}
     /\ Drained(ModelState', command'.kind, command'.prompt) = after
     /\ command'.kind \in CallKinds => command'.prompt = pendingPrompt'

LEMMA RefusalIsFunction ==
  ASSUME NEW action, Refused(action), HistoryTyped, ~operationActive, ~cancelActive
  PROVE  Acted(ModelState, action) = ModelState
<1>1. CASE action \in PromptActions /\ ~(editor.value # << >> /\ OperationFree)
  <2>1. /\ ModelState.lanes.operations = operationToken
        /\ ModelState.prompt.editor = editor
    BY StateFields, PromptFields DEF Lanes
  <2> QED
    BY <1>1, <2>1 DEF Acted, Prompted, OperationFree
<1>2. CASE action = "cancel-active-run" /\ ~CancelFree
  <2>1. ModelState.lanes.cancels = cancelToken
    BY StateFields DEF Lanes
  <2> QED
    BY <1>2, <2>1 DEF Acted, Cancelled, CancelFree, PromptActions
<1>3. CASE action = "history-previous" /\ promptHistory = << >>
  <2>1. Edited(CurrentPrompt, action) = CurrentPrompt
    BY <1>3, PromptFields DEF Edited, Back, CursorActions
  <2>2. Acted(ModelState, action) = [ModelState EXCEPT !.prompt = CurrentPrompt]
    BY <1>3, <2>1, StateFields DEF Acted, PromptActions
  <2> QED
    BY <2>2, StateFields
<1>4. CASE action = "history-next" /\ (promptHistory = << >> \/ historyIndex < 0)
  <2>1. Edited(CurrentPrompt, action) = CurrentPrompt
    BY <1>4, PromptFields DEF Edited, Forth, CursorActions
  <2>2. Acted(ModelState, action) = [ModelState EXCEPT !.prompt = CurrentPrompt]
    BY <1>4, <2>1, StateFields DEF Acted, PromptActions
  <2> QED
    BY <2>2, StateFields
<1> QED
  BY <1>1, <1>2, <1>3, <1>4 DEF Refused

LEMMA ActionIsFunction ==
  ASSUME NEW action, ApplyAction(action), UNCHANGED <<size, sessionVars>>,
         HistoryTyped, ~operationActive, ~cancelActive
  PROVE  Outcome(Acted(ModelState, action))
<1>1. CASE action = "quit" /\ Quit
  <2>1. command'.kind = "quit" /\ ModelState' = ModelState
    BY <1>1
    DEF Quit, Command, ModelState, viewVars, promptVars, operationVars, cancelVars, sessionVars
  <2>2. Acted(ModelState, action) = [ModelState EXCEPT !.prompt = CurrentPrompt]
    BY <1>1, StateFields DEF Acted, Edited, PromptActions, CursorActions
  <2>3. Acted(ModelState, action) = ModelState
    BY <2>2, StateFields
  <2> QED
    BY <2>1, <2>3 DEF Outcome
<1>2. CASE action \in PromptActions /\ IssuePrompt(action)
  <2>1. action \in CallKinds
    BY <1>2 DEF PromptActions, CallKinds
  <2>2. Acted(ModelState, action) = Prompted(ModelState, action)
    BY <1>2 DEF Acted
  <2> QED
    BY <1>2, <2>1, <2>2, PromptIsFunction DEF Outcome
<1>3. CASE action = "cancel-active-run" /\ IssueCancel
  <2>1. Acted(ModelState, action) = Cancelled(ModelState)
    BY <1>3 DEF Acted, PromptActions
  <2> QED
    BY <1>3, <2>1, CancelIsFunction DEF Outcome, CallKinds
<1>4. ASSUME Edit, CurrentPrompt' = Edited(CurrentPrompt, action),
             action \notin PromptActions, action # "cancel-active-run"
      PROVE  Outcome(Acted(ModelState, action))
  <2>1. Acted(ModelState, action) = [ModelState EXCEPT !.prompt = CurrentPrompt']
    BY <1>4, StateFields DEF Acted
  <2>2. command'.kind = "none"
    BY <1>4, EditIsFunction DEF NoCommand, Command
  <2> QED
    BY <1>4, <2>1, <2>2, EditIsFunction DEF Outcome
<1>5. CASE action \in CursorActions /\ MoveCursor(action)
  <2>1. CurrentPrompt' = Edited(CurrentPrompt, action)
    BY <1>5, PromptFields DEF MoveCursor, Edit, Edited, CurrentPrompt
  <2> QED
    BY <1>4, <1>5, <2>1 DEF MoveCursor, CursorActions, PromptActions
<1>6. CASE action = "history-previous" /\ HistoryPrevious
  <2>1. CurrentPrompt' = Edited(CurrentPrompt, action)
    BY <1>6, BackIsFunction DEF Edited, CursorActions
  <2> QED
    BY <1>4, <1>6, <2>1 DEF HistoryPrevious, PromptActions
<1>7. CASE action = "history-next" /\ HistoryNext
  <2>1. CurrentPrompt' = Edited(CurrentPrompt, action)
    BY <1>7, ForthIsFunction DEF Edited, CursorActions
  <2> QED
    BY <1>4, <1>7, <2>1 DEF HistoryNext, PromptActions
<1>8. CASE action = "backspace" /\ DeleteBack
  <2>1. CurrentPrompt' = Edited(CurrentPrompt, action)
    BY <1>8, PromptFields
    DEF DeleteBack, DetachHistory, Edit, Edited, Detached, CurrentPrompt, CursorActions
  <2> QED
    BY <1>4, <1>8, <2>1 DEF DeleteBack, PromptActions
<1>9. CASE Refused(action) /\ Ignore
  <2>1. command'.kind = "none" /\ ModelState' = ModelState
    BY <1>9, IgnoreIsFunction DEF NoCommand, Command
  <2> QED
    BY <1>9, <2>1, RefusalIsFunction DEF Outcome
<1> QED
  BY <1>1, <1>2, <1>3, <1>5, <1>6, <1>7, <1>8, <1>9 DEF ApplyAction

LEMMA KeyIsFunction ==
  ASSUME NEW key, UpdateKey(key), UNCHANGED sessionVars,
         HistoryTyped, ~operationActive, ~cancelActive
  PROVE  Outcome(Keyed(ModelState, key))
<1>1. UNCHANGED size
  BY DEF UpdateKey
<1>2. CASE key \in DOMAIN Bindings
  BY <1>1, <1>2, ActionIsFunction DEF UpdateKey, Keyed
<1>3. CASE key \notin DOMAIN Bindings
  <2> DEFINE text == KeyText[key]
  <2>1. Keyed(ModelState, key) = [ModelState EXCEPT !.prompt = Typed(CurrentPrompt, text)]
    BY <1>3, StateFields DEF Keyed
  <2>2. CASE TypeText(text)
    <3>1. CurrentPrompt' = Typed(CurrentPrompt, text)
      BY <2>2, PromptFields DEF TypeText, DetachHistory, Edit, Typed, Detached, CurrentPrompt
    <3>2. Edit
      BY <2>2 DEF TypeText
    <3> QED
      BY <1>1, <2>1, <3>1, <3>2, EditIsFunction DEF Outcome, NoCommand, Command
  <2>3. CASE ~(text # << >> /\ CanInsert(editor, text)) /\ Ignore
    <3>1. Typed(CurrentPrompt, text) = CurrentPrompt
      BY <2>3, PromptFields DEF Typed
    <3> QED
      BY <1>1, <2>1, <2>3, <3>1, IgnoreIsFunction DEF Outcome, NoCommand, Command
  <2> HIDE DEF text
  <2> QED
    BY <1>3, <2>2, <2>3 DEF UpdateKey, text
<1> QED
  BY <1>2, <1>3

-----------------------------------------------------------------------------
(* Events, captures and the whole replay *)

FittingIn(v, ed, items) ==
  LET fits == {k \in 0..Len(items) :
                 \/ k = Len(items)
                 \/ ViewFits(v.workspace, v.status, ed, SubSeq(items, k + 1, Len(items)))}
      dropped == CHOOSE k \in fits : \A j \in fits : k <= j
  IN  SubSeq(items, dropped + 1, Len(items))

UpdatedView(v, ed, update) ==
  CASE update.kind = "snapshot" ->
         View(update.workspace, update.status, update.activity, update.revision, v.size)
    [] update.kind = "activity" ->
         View(v.workspace, v.status, FittingIn(v, ed, Append(v.activity, update.item)),
              update.revision, v.size)
    [] update.kind = "prompt-history" ->
         View(v.workspace, v.status, v.activity, update.revision, v.size)

UpdatedPrompt(p, update) ==
  IF update.kind = "activity" THEN p ELSE Prompt(p.editor, update.history, -1, p.editor)

Updated(s, update) ==
  IF update.revision > s.view.revision
  THEN [view    |-> UpdatedView(s.view, s.prompt.editor, update),
        prompt  |-> UpdatedPrompt(s.prompt, update),
        lanes   |-> s.lanes,
        session |-> s.session]
  ELSE s

Resized(s, width, height) ==
  [s EXCEPT !.view = View(s.view.workspace, s.view.status, s.view.activity, s.view.revision,
                          BoundedSize(width, height))]

Scripted(s, result) == [s EXCEPT !.session = Session(result, s.session.intents)]

Happened(s, event) ==
  IF event.kind = "update" THEN Updated(s, event.update)
  ELSE IF event.kind = "resize" THEN Resized(s, event.width, event.height)
  ELSE IF event.kind = "perform-result" THEN Scripted(s, event.result)
  ELSE s

Picture(s) ==
  [workspace |-> s.view.workspace, status |-> s.view.status, activity |-> s.view.activity,
   editor |-> s.prompt.editor, size |-> s.view.size, revision |-> s.view.revision]

(* Where a replay stands: the next event, whether it was applied, the keys  *)
(* still to press, the evidence so far, and the state.                      *)
Standing(i, done, left, taken, s) ==
  [next |-> i, applied |-> done, keys |-> left, steps |-> taken, state |-> s]

IsOver(events, c) == ~c.applied /\ ~(c.next <= Len(events))

KeyEvent(event) == event.kind \in {"type", "key", "action"}

(* One step of a replay that nothing interrupts. *)
Advanced(events, c) ==
  IF IsOver(events, c) THEN c
  ELSE IF ~c.applied
  THEN Standing(c.next, TRUE,
                IF KeyEvent(events[c.next]) THEN KeysOf(events[c.next]) ELSE << >>,
                c.steps, Happened(c.state, events[c.next]))
  ELSE IF c.keys # << >>
  THEN Standing(c.next, TRUE, Tail(c.keys), c.steps, Keyed(c.state, Head(c.keys)))
  ELSE Standing(c.next + 1, FALSE, << >>, Append(c.steps, Picture(c.state)), c.state)

Beginning == Standing(1, FALSE, << >>, << >>, FreshState)

(* The state as it will be once the command in flight has been drained. *)
SettledState ==
  IF drain = "none" THEN ModelState
  ELSE IF drain = "next" THEN Drained(ModelState, command.kind, command.prompt)
  ELSE IF worker.at = "answered" THEN Completed(ModelState, worker.task.kind, worker.task.prompt)
  ELSE Drained(ModelState, worker.task.kind, worker.task.prompt)

ReplayStanding == Standing(next, applied, keys, steps, SettledState)

-----------------------------------------------------------------------------
(* Updates, resizes and results *)

LEMMA ViewFields ==
  /\ ModelState.view.workspace = workspace /\ ModelState.view.status = status
  /\ ModelState.view.activity = activity /\ ModelState.view.revision = revision
  /\ ModelState.view.size = size
  /\ ModelState.prompt.editor = editor /\ ModelState.prompt.history = promptHistory
  /\ ModelState.prompt.index = historyIndex /\ ModelState.prompt.draft = historyDraft
  /\ ModelState.session.script = performResult /\ ModelState.session.intents = intents
BY DEF ModelState, View, Prompt, Session

LEMMA UpdateIsFunction ==
  ASSUME NEW update, InjectUpdate(update), UNCHANGED sessionVars
  PROVE  ModelState' = Updated(ModelState, update)
<1>1. CASE Fresh(update) /\ ApplySessionUpdate(update)
  <2>1. /\ revision' = update.revision
        /\ UNCHANGED <<operationToken, cancelToken, size, performResult, intents>>
    <3>1. revision' = update.revision
      BY <1>1 DEF ApplySessionUpdate
    <3>2. UNCHANGED <<operationToken, cancelToken, size, performResult, intents>>
      BY <1>1 DEF InjectUpdate, Ignore, operationVars, cancelVars, sessionVars
    <3> QED
      BY <3>1, <3>2
  <2>2. Updated(ModelState, update)
          = [view    |-> UpdatedView(ModelState.view, editor, update),
             prompt  |-> UpdatedPrompt(ModelState.prompt, update),
             lanes   |-> Lanes(operationToken, cancelToken),
             session |-> Session(performResult, intents)]
    BY <1>1, StateFields, ViewFields DEF Updated, Fresh
  <2>3. /\ View(workspace, status, activity, revision, size)'
             = UpdatedView(ModelState.view, editor, update)
        /\ CurrentPrompt' = UpdatedPrompt(ModelState.prompt, update)
    <3>1. CASE update.kind = "snapshot"
      <4>1. /\ workspace' = update.workspace /\ status' = update.status
            /\ activity' = update.activity /\ promptHistory' = update.history
            /\ historyIndex' = -1 /\ historyDraft' = editor /\ editor' = editor
        BY <1>1, <3>1 DEF ApplySessionUpdate, ReplaceHistory
      <4> QED
        BY <2>1, <3>1, <4>1, ViewFields DEF UpdatedView, UpdatedPrompt, View, CurrentPrompt
    <3>2. CASE update.kind = "activity"
      <4>1. /\ activity' = FittingActivity(Append(activity, update.item))
            /\ UNCHANGED <<workspace, status, editor, promptHistory, historyIndex, historyDraft>>
        BY <1>1, <3>2 DEF ApplySessionUpdate, promptVars
      <4>2. FittingActivity(Append(activity, update.item))
              = FittingIn(ModelState.view, editor, Append(activity, update.item))
        BY ViewFields DEF FittingActivity, FittingIn
      <4>3. CurrentPrompt' = UpdatedPrompt(ModelState.prompt, update)
        BY <3>2, <4>1, StateFields DEF UpdatedPrompt, CurrentPrompt
      <4> QED
        BY <2>1, <3>2, <4>1, <4>2, <4>3, ViewFields DEF UpdatedView, View
    <3>3. CASE update.kind = "prompt-history"
      <4>1. /\ promptHistory' = update.history
            /\ historyIndex' = -1 /\ historyDraft' = editor /\ editor' = editor
            /\ UNCHANGED <<workspace, status, activity>>
        BY <1>1, <3>3 DEF ApplySessionUpdate, ReplaceHistory
      <4> QED
        BY <2>1, <3>3, <4>1, ViewFields DEF UpdatedView, UpdatedPrompt, View, CurrentPrompt
    <3> QED
      BY <1>1, <3>1, <3>2, <3>3 DEF ApplySessionUpdate
  <2> QED
    BY <2>1, <2>2, <2>3 DEF ModelState, CurrentPrompt
<1>2. CASE ~Fresh(update) /\ Ignore
  <2>1. ModelState' = ModelState
    BY <1>2, IgnoreIsFunction DEF InjectUpdate
  <2> QED
    BY <1>2, <2>1, ViewFields DEF Updated, Fresh
<1> QED
  BY <1>1, <1>2 DEF InjectUpdate

LEMMA ResizeIsFunction ==
  ASSUME NEW width, NEW height, Resize(width, height), UNCHANGED sessionVars
  PROVE  ModelState' = Resized(ModelState, width, height)
<1>1. /\ size' = BoundedSize(width, height)
      /\ UNCHANGED <<workspace, status, activity, revision, editor, promptHistory, historyIndex,
                     historyDraft, operationToken, cancelToken, performResult, intents>>
  BY DEF Resize, Ignore, viewVars, promptVars, operationVars, cancelVars, sessionVars
<1> DEFINE view == View(workspace, status, activity, revision, BoundedSize(width, height))
<1>2. ModelState' = [view    |-> view,
                     prompt  |-> CurrentPrompt,
                     lanes   |-> Lanes(operationToken, cancelToken),
                     session |-> Session(performResult, intents)]
  BY <1>1 DEF ModelState, CurrentPrompt
<1>3. Resized(ModelState, width, height) = [ModelState EXCEPT !.view = view]
  BY ViewFields DEF Resized
<1> HIDE DEF view
<1> QED
  BY <1>2, <1>3 DEF ModelState, CurrentPrompt

LEMMA ResultIsFunction ==
  ASSUME NEW result, performResult' = result, UNCHANGED <<modelVars, intents>>
  PROVE  ModelState' = Scripted(ModelState, result)
<1>1. UNCHANGED <<workspace, status, activity, revision, editor, promptHistory, historyIndex,
                  historyDraft, operationToken, cancelToken, size>>
  BY DEF modelVars, viewVars, promptVars, operationVars, cancelVars
<1>2. ModelState' = [view    |-> View(workspace, status, activity, revision, size),
                     prompt  |-> CurrentPrompt,
                     lanes   |-> Lanes(operationToken, cancelToken),
                     session |-> Session(result, intents)]
  BY <1>1 DEF ModelState, CurrentPrompt
<1>3. Scripted(ModelState, result) = [ModelState EXCEPT !.session = Session(result, intents)]
  BY ViewFields DEF Scripted
<1> QED
  BY <1>2, <1>3 DEF ModelState, CurrentPrompt

LEMMA QuietStateStays ==
  ASSUME UNCHANGED <<modelVars, sessionVars>>
  PROVE  ModelState' = ModelState
BY DEF ModelState, modelVars, viewVars, promptVars, operationVars, cancelVars, sessionVars

-----------------------------------------------------------------------------
(* Answers *)

(* The command being drained is the one the model waits for, and what its   *)
(* worker was told is what the script says.                                 *)
SentPrompt(task) == task.kind \in CallKinds => task.prompt = pendingPrompt

FlightInv ==
  failure = "none" =>
    /\ drain = "none" => worker.at = "none"
    /\ drain = "next" => SentPrompt(command)
    /\ drain = "wait" =>
         /\ SentPrompt(worker.task)
         /\ worker.at = "answered" => worker.answer = performResult

LEMMA FailureIsFunction ==
  ASSUME status' = ErrorStatus,
         UNCHANGED <<workspace, activity, revision, size, promptVars, operationToken,
                     cancelToken, sessionVars>>,
         NEW kind, NEW text, performResult = NoResult
  PROVE  ModelState' = Completed(ModelState, kind, text)
<1> DEFINE view == View(workspace, ErrorStatus, activity, revision, size)
<1>1. ModelState' = [view    |-> view,
                     prompt  |-> CurrentPrompt,
                     lanes   |-> Lanes(operationToken, cancelToken),
                     session |-> Session(performResult, intents)]
  BY DEF ModelState, CurrentPrompt, promptVars, sessionVars
<1>2. Completed(ModelState, kind, text) = [ModelState EXCEPT !.view = view]
  BY ViewFields DEF Completed
<1> HIDE DEF view
<1> QED
  BY <1>1, <1>2 DEF ModelState, CurrentPrompt

LEMMA CommitIsFunction ==
  ASSUME NEW result, CommitOperation(result),
         UNCHANGED <<size, operationToken, cancelToken, sessionVars>>,
         NEW kind \in CallKinds, performResult # NoResult
  PROVE  ModelState' = Completed(ModelState, kind, pendingPrompt)
<1>1. CurrentPrompt' = Committed(CurrentPrompt, pendingPrompt)
  <2>1. promptHistory' = Remember(promptHistory, pendingPrompt) /\ ClearSentPrompt
    BY DEF CommitOperation
  <2>2. CASE editor.value = pendingPrompt
    BY <2>1, <2>2, PromptFields DEF ClearSentPrompt, DetachHistory, Committed, CurrentPrompt
  <2>3. CASE editor.value # pendingPrompt
    BY <2>1, <2>3, PromptFields DEF ClearSentPrompt, Committed, CurrentPrompt
  <2> QED
    BY <2>2, <2>3
<1>2. UNCHANGED <<workspace, status, activity, revision, performResult, intents>>
  BY DEF CommitOperation, viewVars, sessionVars
<1>3. ModelState' = [view    |-> View(workspace, status, activity, revision, size),
                     prompt  |-> CurrentPrompt',
                     lanes   |-> Lanes(operationToken, cancelToken),
                     session |-> Session(performResult, intents)]
  BY <1>2 DEF ModelState, CurrentPrompt
<1>4. Completed(ModelState, kind, pendingPrompt) = [ModelState EXCEPT !.prompt = CurrentPrompt']
  BY <1>1, StateFields, ViewFields DEF Completed, CallKinds
<1> QED
  BY <1>3, <1>4 DEF ModelState

LEMMA AnswerIsFunction ==
  ASSUME DriverInv, FlightInv, failure = "none", ApplyAnswer
  PROVE  ModelState' = Completed(ModelState, worker.task.kind, worker.task.prompt)
<1>1. drain = "wait" /\ worker.at = "answered" /\ UNCHANGED sessionVars
  BY DEF ApplyAnswer
<1>2. InFlight(worker.task) /\ SentPrompt(worker.task) /\ worker.answer = performResult
  BY <1>1 DEF DriverInv, CallInv, BooksInv, FlightInv
<1>3. CASE worker.task.kind = "cancel"
  <2>1. CompleteCancel(worker.task.token, worker.answer) /\ ~StaleCancel(worker.task.token)
    BY <1>2, <1>3 DEF ApplyAnswer, InFlight, CallKinds, StaleCancel
  <2>2. UNCHANGED <<workspace, activity, revision, size, promptVars, operationToken, cancelToken>>
    BY <2>1 DEF CompleteCancel, operationVars
  <2>3. CASE performResult = NoResult
    <3>1. status' = ErrorStatus
      BY <1>2, <2>1, <2>3 DEF CompleteCancel
    <3> QED
      BY <1>1, <2>2, <2>3, <3>1, FailureIsFunction
  <2>4. CASE performResult # NoResult
    <3>1. status' = status
      BY <1>2, <2>1, <2>4 DEF CompleteCancel
    <3>2. ModelState' = ModelState
      BY <1>1, <2>2, <3>1 DEF ModelState, promptVars, sessionVars
    <3> QED
      BY <1>3, <2>4, <3>2, ViewFields DEF Completed
  <2> QED
    BY <2>3, <2>4
<1>4. CASE worker.task.kind # "cancel"
  <2>1. /\ CompleteOperation(worker.task.token, worker.answer)
        /\ ~StaleOperation(worker.task.token)
        /\ worker.task.kind \in CallKinds
    BY <1>2, <1>4 DEF ApplyAnswer, InFlight, StaleOperation
  <2>2. worker.task.prompt = pendingPrompt /\ UNCHANGED <<size, operationToken, cancelToken>>
    BY <1>2, <2>1 DEF SentPrompt, CompleteOperation, cancelVars
  <2>3. CASE performResult = NoResult
    <3>1. FailOperation
      BY <1>2, <2>1, <2>3 DEF CompleteOperation
    <3> QED
      BY <1>1, <2>2, <2>3, <3>1, FailureIsFunction DEF FailOperation
  <2>4. CASE performResult # NoResult
    <3>1. CommitOperation(worker.answer)
      BY <1>2, <2>1, <2>4 DEF CompleteOperation
    <3> QED
      BY <1>1, <2>1, <2>2, <2>4, <3>1, CommitIsFunction
  <2> QED
    BY <2>3, <2>4
<1> QED
  BY <1>3, <1>4

-----------------------------------------------------------------------------
(* The drain of a command does not change what it comes to *)

LEMMA WorkerStaysOnItsWay ==
  ASSUME DriverInv, FlightInv, failure = "none",
         \/ StartWorker \/ CheckContext \/ PerformScripted \/ ApplyAnswer
  PROVE  SettledState' = SettledState
<1>1. CASE StartWorker
  <2>1. /\ drain = "next" /\ drain' = "wait"
        /\ worker' = [at |-> "called", task |-> command, answer |-> NoResult]
        /\ ModelState' = ModelState
    BY <1>1, QuietStateStays DEF StartWorker
  <2>2. worker'.at = "called" /\ worker'.task = command
    BY <2>1
  <2> QED
    BY <2>1, <2>2 DEF SettledState
<1>2. CASE CheckContext
  <2>1. /\ worker.at = "called" /\ UNCHANGED drain
        /\ worker' = [worker EXCEPT !.at = IF contextDone THEN "answered" ELSE "checked"]
        /\ ModelState' = ModelState
    BY <1>2, QuietStateStays DEF CheckContext, callVars
  <2>2. drain = "wait" /\ ~contextDone
    BY <2>1 DEF DriverInv, CallInv, BooksInv, FlightInv
  <2>3. worker'.at = "checked" /\ worker'.task = worker.task
    BY <2>1, <2>2 DEF DriverInv, WorkerTyped
  <2> QED
    BY <2>1, <2>2, <2>3 DEF SettledState
<1>3. CASE PerformScripted
  <2>1. /\ worker.at = "checked" /\ UNCHANGED <<drain, performResult>>
        /\ worker' = [worker EXCEPT !.at = "answered", !.answer = performResult]
        /\ intents' = Append(intents, <<worker.task.kind, worker.task.prompt>>)
        /\ UNCHANGED modelVars
    BY <1>3 DEF PerformScripted, callVars
  <2>2. drain = "wait"
    BY <2>1 DEF DriverInv, CallInv, BooksInv, FlightInv
  <2>3. worker'.at = "answered" /\ worker'.task = worker.task
    BY <2>1 DEF DriverInv, WorkerTyped
  <2>4. ModelState' = Performed(ModelState, worker.task.kind, worker.task.prompt)
    <3>1. UNCHANGED <<workspace, status, activity, revision, editor, promptHistory,
                      historyIndex, historyDraft, operationToken, cancelToken, size>>
      BY <2>1 DEF modelVars, viewVars, promptVars, operationVars, cancelVars
    <3>2. ModelState' = [view    |-> View(workspace, status, activity, revision, size),
                         prompt  |-> CurrentPrompt,
                         lanes   |-> Lanes(operationToken, cancelToken),
                         session |-> Session(performResult, intents')]
      BY <2>1, <3>1 DEF ModelState, CurrentPrompt
    <3>3. Performed(ModelState, worker.task.kind, worker.task.prompt)
            = [ModelState EXCEPT !.session = Session(performResult, intents')]
      BY <2>1, ViewFields DEF Performed
    <3> QED
      BY <3>2, <3>3 DEF ModelState, CurrentPrompt
  <2> QED
    BY <2>1, <2>2, <2>3, <2>4 DEF SettledState, Drained
<1>4. CASE ApplyAnswer
  BY <1>4, AnswerIsFunction DEF ApplyAnswer, SettledState
<1> QED
  BY <1>1, <1>2, <1>3, <1>4

-----------------------------------------------------------------------------
(* Every step of a replay that does not fail is a step of the function *)

LEMMA StandingFields ==
  /\ ReplayStanding.next = next /\ ReplayStanding.applied = applied
  /\ ReplayStanding.keys = keys /\ ReplayStanding.steps = steps
  /\ ReplayStanding.state = SettledState
BY DEF ReplayStanding, Standing

LEMMA QuietStandingStays ==
  ASSUME UNCHANGED <<next, applied, keys, steps, drain, worker, modelVars, sessionVars>>
  PROVE  ReplayStanding' = ReplayStanding
<1>1. ModelState' = ModelState /\ command' = command
  BY QuietStateStays DEF modelVars
<1> QED
  BY <1>1 DEF ReplayStanding, SettledState

LEMMA EventAdvances ==
  ASSUME DriverInv, failure' = "none",
         ApplyKeys \/ ApplyClosed \/ ApplyUpdate \/ ApplyResize \/ ApplyOther
  PROVE  ReplayStanding' = Advanced(trace, ReplayStanding)
<1> DEFINE event == trace[next]
           left  == IF KeyEvent(event) THEN KeysOf(event) ELSE << >>
<1>1. /\ ~applied /\ next <= Len(trace) /\ applied' = TRUE
      /\ UNCHANGED <<next, steps, drain>>
  BY DEF ApplyKeys, ApplyClosed, ApplyUpdate, ApplyResize, ApplyOther, Idle, driverVars, callVars
<1>2. drain = "none" /\ keys = << >>
  BY <1>1 DEF DriverInv, CallInv, Returned
<1>3. Advanced(trace, ReplayStanding)
        = Standing(next, TRUE, left, steps, Happened(ModelState, event))
  <2>1. ReplayStanding.state = ModelState
    BY <1>2, StandingFields DEF SettledState
  <2>2. ~IsOver(trace, ReplayStanding) /\ ~ReplayStanding.applied
    BY <1>1, StandingFields DEF IsOver
  <2> QED
    BY <2>1, <2>2, StandingFields DEF Advanced
<1>4. ReplayStanding' = Standing(next, TRUE, keys', steps, ModelState')
  BY <1>1, <1>2 DEF ReplayStanding, SettledState
<1>5. keys' = left /\ ModelState' = Happened(ModelState, event)
  <2>1. CASE ApplyKeys
    <3>1. /\ KeyEvent(event) /\ keys' = KeysOf(event)
          /\ event.kind \notin {"update", "resize", "perform-result"}
          /\ UNCHANGED <<modelVars, sessionVars>>
      BY <2>1 DEF ApplyKeys, Event, KeyEvent
    <3> QED
      BY <3>1, QuietStateStays DEF Happened
  <2>2. CASE ApplyClosed
    BY <2>2 DEF ApplyClosed
  <2>3. CASE ApplyUpdate
    <3>1. /\ event.kind = "update" /\ keys' = keys
          /\ InjectUpdate(event.update) /\ UNCHANGED sessionVars
      BY <2>3 DEF ApplyUpdate, Event, callVars
    <3> QED
      BY <1>2, <3>1, UpdateIsFunction DEF Happened, KeyEvent
  <2>4. CASE ApplyResize
    <3>1. /\ event.kind = "resize" /\ keys' = keys
          /\ Resize(event.width, event.height) /\ UNCHANGED sessionVars
      BY <2>4 DEF ApplyResize, Event, driverVars, callVars
    <3> QED
      BY <1>2, <3>1, ResizeIsFunction DEF Happened, KeyEvent
  <2>5. CASE ApplyOther /\ event.kind = "snapshot"
    <3>1. UNCHANGED <<keys, modelVars, sessionVars>>
      BY <2>5 DEF ApplyOther, Event, callVars, sessionVars
    <3> QED
      BY <1>2, <2>5, <3>1, QuietStateStays DEF Happened, KeyEvent
  <2>6. CASE ApplyOther /\ event.kind = "perform-result"
    <3>1. performResult' = event.result /\ UNCHANGED <<keys, modelVars, intents>>
      BY <2>6 DEF ApplyOther, Event, callVars
    <3> QED
      BY <1>2, <2>6, <3>1, ResultIsFunction DEF Happened, KeyEvent
  <2>7. ApplyOther => event.kind \in {"snapshot", "perform-result"}
    BY DEF ApplyOther, Event
  <2> QED
    BY <2>1, <2>2, <2>3, <2>4, <2>5, <2>6, <2>7
<1> HIDE DEF event, left
<1> QED
  BY <1>3, <1>4, <1>5

(* A quit stroke never issues a command that would have to be drained. *)
LEMMA QuitKeysQuit ==
  ASSUME NEW key, UpdateKey(key), key \in QuitStrokes
  PROVE  command'.kind \in {"none", "quit"}
<1>1. CASE key \in DOMAIN Bindings
  <2>1. Bindings[key] = "quit"
    BY <1>1, DriverAssumption
  <2>2. ApplyAction("quit")
    BY <1>1, <2>1 DEF UpdateKey
  <2>3. Quit \/ Edit \/ Ignore
    BY <2>2 DEF ApplyAction, PromptActions, CursorActions
  <2> QED
    BY <2>3 DEF Quit, Edit, Ignore, NoCommand, Command
<1>2. CASE key \notin DOMAIN Bindings
  <2>1. Edit \/ Ignore
    BY <1>2 DEF UpdateKey, TypeText
  <2> QED
    BY <2>1 DEF Edit, Ignore, NoCommand, Command
<1> QED
  BY <1>1, <1>2

LEMMA PressAdvances ==
  ASSUME DriverInv, HistoryTyped, Press, UNCHANGED replayVars
  PROVE  ReplayStanding' = Advanced(trace, ReplayStanding)
<1>1. /\ keys # << >> /\ drain = "none" /\ ~closed
      /\ UpdateKey(Head(keys)) /\ keys' = Tail(keys)
      /\ drain' = IF \/ command'.kind = "none"
                     \/ command'.kind # "none" /\ Head(keys) \in QuitStrokes
                  THEN "none" ELSE "next"
      /\ UNCHANGED <<sessionVars, next, steps, applied>>
  BY DEF Press, replayVars
<1>2. applied = TRUE /\ ~operationActive /\ ~cancelActive
  BY <1>1, Zenon DEF DriverInv, CallInv, BooksInv, Returned, LanesTyped
<1> DEFINE after == Keyed(ModelState, Head(keys))
<1>3. Outcome(after)
  BY <1>1, <1>2, KeyIsFunction
<1>4. Advanced(trace, ReplayStanding) = Standing(next, TRUE, Tail(keys), steps, after)
  BY <1>1, <1>2, StandingFields DEF Advanced, IsOver, SettledState
<1> HIDE DEF after
<1>5. SettledState' = after
  <2>1. CASE command'.kind \in {"none", "quit"} /\ ModelState' = after
    <3>1. command'.kind = "quit" => Head(keys) \in QuitStrokes
      BY <1>1, KeyTakesOneLane DEF CallKinds
    <3> QED
      BY <1>1, <2>1, <3>1 DEF SettledState
  <2>2. CASE /\ command'.kind \in CallKinds \cup {"cancel"}
             /\ Drained(ModelState', command'.kind, command'.prompt) = after
    <3>1. Head(keys) \notin QuitStrokes
      BY <1>1, <2>2, QuitKeysQuit DEF CallKinds
    <3> QED
      BY <1>1, <2>2, <3>1 DEF SettledState, CallKinds
  <2> QED
    BY <1>3, <2>1, <2>2 DEF Outcome
<1> QED
  BY <1>1, <1>2, <1>4, <1>5 DEF ReplayStanding

LEMMA CaptureAdvances ==
  ASSUME Capture
  PROVE  ReplayStanding' \in {ReplayStanding, Advanced(trace, ReplayStanding)}
<1>1. /\ applied /\ drain = "none" /\ keys = << >>
      /\ UNCHANGED <<keys, drain, worker, modelVars, sessionVars>>
  BY DEF Capture, Called, Returned, driverVars, callVars
<1>2. CASE Verdict # "running"
  BY <1>1, <1>2, QuietStandingStays DEF Capture
<1>3. CASE Verdict = "running"
  <2>1. steps' = Append(steps, Screen) /\ next' = next + 1 /\ applied' = FALSE
    BY <1>3 DEF Capture
  <2>2. ReplayStanding' = Standing(next + 1, FALSE, << >>, Append(steps, Screen), ModelState)
    BY <1>1, <2>1, QuietStateStays DEF ReplayStanding, SettledState
  <2>3. Picture(ModelState) = Screen
    BY ViewFields DEF Picture, Screen
  <2>4. Advanced(trace, ReplayStanding)
          = Standing(next + 1, FALSE, << >>, Append(steps, Picture(ModelState)), ModelState)
    BY <1>1, StandingFields DEF Advanced, IsOver, SettledState
  <2> QED
    BY <2>2, <2>3, <2>4
<1> QED
  BY <1>2, <1>3

LEMMA StepAdvances ==
  ASSUME DriverInv, FlightInv, HistoryTyped, [Next]_vars, ~ReplayAgain, failure' = "none"
  PROVE  /\ failure = "none"
         /\ ReplayStanding' \in {ReplayStanding, Advanced(trace, ReplayStanding)}
<1>1. CASE Press /\ UNCHANGED replayVars
  BY <1>1, PressAdvances DEF Press
<1>2. CASE PressClosed \/ TimeOut
  BY <1>2 DEF PressClosed, TimeOut
<1>3. CASE /\ StartWorker \/ CheckContext \/ PerformScripted \/ ApplyAnswer
           /\ UNCHANGED replayVars
  <2>1. UNCHANGED <<failure, next, applied, keys, steps>>
    BY <1>3
    DEF StartWorker, CheckContext, PerformScripted, ApplyAnswer, callVars, replayVars
  <2>2. failure = "none"
    BY <2>1
  <2>3. SettledState' = SettledState
    BY <1>3, <2>2, WorkerStaysOnItsWay
  <2>4. ReplayStanding' = ReplayStanding
    BY <2>1, <2>3 DEF ReplayStanding
  <2> QED
    BY <2>2, <2>4
<1>4. CASE ApplyKeys \/ ApplyClosed \/ ApplyUpdate \/ ApplyResize \/ ApplyOther
  <2>1. failure = "none"
    BY <1>4
    DEF ApplyKeys, ApplyClosed, ApplyUpdate, ApplyResize, ApplyOther, driverVars, callVars
  <2> QED
    BY <1>4, <2>1, EventAdvances
<1>5. CASE Fail
  BY <1>5 DEF Fail, driverVars, callVars
<1>6. CASE Capture
  BY <1>6, CaptureAdvances DEF Capture
<1>7. CASE Compare \/ UNCHANGED vars
  <2>1. UNCHANGED <<failure, next, applied, keys, steps, drain, worker, modelVars, sessionVars>>
    BY <1>7 DEF Compare, vars, driverVars, callVars, replayVars
  <2> QED
    BY <2>1, QuietStandingStays
<1> QED
  BY <1>1, <1>2, <1>3, <1>4, <1>5, <1>6, <1>7 DEF Next, DriverStep, Finished

-----------------------------------------------------------------------------
(* What keeps those steps those of the function *)

LEMMA FlightInvByStep ==
  ASSUME DriverInv, FlightInv, HistoryTyped, [Next]_vars
  PROVE  FlightInv'
<1> SUFFICES ASSUME failure' = "none"
             PROVE  /\ drain' = "none" => worker'.at = "none"
                    /\ drain' = "next" => SentPrompt(command)'
                    /\ drain' = "wait" =>
                         /\ SentPrompt(worker.task)'
                         /\ worker'.at = "answered" => worker'.answer = performResult'
  BY DEF FlightInv
<1>1. CASE ReplayAgain
  BY <1>1 DEF ReplayAgain, AnotherDriver, NoWorker
<1>2. CASE ~ReplayAgain
  <2>0. /\ failure = "none"
        /\ drain = "none" => worker.at = "none"
        /\ drain = "next" => SentPrompt(command)
        /\ drain = "wait" =>
             /\ SentPrompt(worker.task)
             /\ worker.at = "answered" => worker.answer = performResult
    BY <1>2, StepAdvances DEF FlightInv
  <2>1. CASE Press
    <3>1. /\ drain = "none" /\ UpdateKey(Head(keys)) /\ UNCHANGED <<worker, sessionVars>>
          /\ ~closed /\ drain' \in {"none", "next"}
      BY <2>1 DEF Press
    <3>2. ~operationActive /\ ~cancelActive
      BY <3>1 DEF DriverInv, BooksInv
    <3>3. Outcome(Keyed(ModelState, Head(keys)))
      BY <3>1, <3>2, KeyIsFunction
    <3>4. command'.kind \in CallKinds => command'.prompt = pendingPrompt'
      BY <3>3 DEF Outcome, CallKinds
    <3> QED
      BY <2>0, <3>1, <3>4 DEF SentPrompt
  <2>2. CASE PressClosed \/ TimeOut
    BY <2>2 DEF PressClosed, TimeOut
  <2>3. CASE StartWorker
    <3>1. /\ drain = "next" /\ drain' = "wait" /\ UNCHANGED pendingPrompt
          /\ worker' = [at |-> "called", task |-> command, answer |-> NoResult]
      BY <2>3 DEF StartWorker, modelVars, operationVars
    <3> QED
      BY <2>0, <3>1 DEF SentPrompt
  <2>4. CASE CheckContext
    <3>1. /\ worker.at = "called" /\ UNCHANGED <<drain, pendingPrompt>>
          /\ worker' = [worker EXCEPT !.at = IF contextDone THEN "answered" ELSE "checked"]
      BY <2>4 DEF CheckContext, callVars, modelVars, operationVars
    <3>2. drain = "wait" /\ ~contextDone
      BY <2>0, <3>1 DEF DriverInv, CallInv, BooksInv
    <3>3. worker'.at = "checked" /\ worker'.task = worker.task
      BY <3>1, <3>2 DEF DriverInv, WorkerTyped
    <3> QED
      BY <2>0, <3>1, <3>2, <3>3 DEF SentPrompt
  <2>5. CASE PerformScripted
    <3>1. /\ worker.at = "checked" /\ UNCHANGED <<drain, pendingPrompt, performResult>>
          /\ worker' = [worker EXCEPT !.at = "answered", !.answer = performResult]
      BY <2>5 DEF PerformScripted, callVars, modelVars, operationVars
    <3>2. drain = "wait"
      BY <2>0, <3>1 DEF DriverInv, CallInv, BooksInv
    <3>3. worker'.task = worker.task /\ worker'.answer = performResult
      BY <3>1 DEF DriverInv, WorkerTyped
    <3> QED
      BY <2>0, <3>1, <3>2, <3>3 DEF SentPrompt
  <2>6. CASE ApplyAnswer
    BY <2>6 DEF ApplyAnswer, NoWorker
  <2>7. CASE ApplyKeys \/ ApplyClosed \/ ApplyUpdate \/ ApplyResize \/ ApplyOther
    <3>1. ~applied /\ UNCHANGED <<drain, worker>>
      BY <2>7
      DEF ApplyKeys, ApplyClosed, ApplyUpdate, ApplyResize, ApplyOther, Idle, driverVars,
          callVars
    <3>2. drain = "none"
      BY <3>1 DEF DriverInv, CallInv, Returned
    <3> QED
      BY <2>0, <3>1, <3>2
  <2>8. CASE Fail \/ Capture \/ Compare \/ UNCHANGED vars
    <3>1. UNCHANGED <<drain, worker, command, pendingPrompt, performResult>>
      BY <2>8
      DEF Fail, Capture, Compare, vars, driverVars, callVars, sessionVars, modelVars,
          operationVars
    <3> QED
      BY <2>0, <3>1 DEF SentPrompt
  <2> QED
    BY <1>2, <2>1, <2>2, <2>3, <2>4, <2>5, <2>6, <2>7, <2>8 DEF Next, DriverStep, Finished
<1> QED
  BY <1>1, <1>2

(* A failed replay takes no further event. *)
HaltInv == applied \in BOOLEAN /\ (failure # "none" => applied = TRUE)

LEMMA HaltInvByStep ==
  ASSUME DriverInv, HaltInv, [Next]_vars
  PROVE  HaltInv'
<1>1. CASE DriverStep /\ UNCHANGED replayVars
  <2>1. CASE PressClosed \/ TimeOut
    <3>1. applied
      BY <2>1 DEF PressClosed, TimeOut, DriverInv, CallInv, Returned
    <3>2. applied = TRUE
      BY <3>1 DEF HaltInv
    <3> QED
      BY <1>1, <3>2 DEF HaltInv, replayVars
  <2>2. CASE ~(PressClosed \/ TimeOut)
    <3>1. UNCHANGED <<failure, applied>>
      BY <1>1, <2>2
      DEF DriverStep, Press, StartWorker, ApplyAnswer, CheckContext, PerformScripted, callVars,
          replayVars
    <3> QED
      BY <3>1 DEF HaltInv
  <2> QED
    BY <2>1, <2>2
<1>2. CASE ApplyKeys \/ ApplyClosed \/ ApplyUpdate \/ ApplyResize \/ ApplyOther
  <2>1. applied' = TRUE
    BY <1>2 DEF ApplyKeys, ApplyClosed, ApplyUpdate, ApplyResize, ApplyOther
  <2> QED
    BY <2>1 DEF HaltInv
<1>3. CASE Fail \/ Compare \/ UNCHANGED vars
  <2>1. UNCHANGED <<failure, applied>>
    BY <1>3 DEF Fail, Compare, vars, driverVars, callVars, replayVars
  <2> QED
    BY <2>1 DEF HaltInv
<1>4. CASE Capture \/ ReplayAgain
  <2>1. failure' = "none" /\ (applied' = applied \/ applied' = FALSE)
    BY <1>4 DEF Capture, ReplayAgain, AnotherDriver, driverVars, callVars
  <2> QED
    BY <2>1 DEF HaltInv
<1> QED
  BY <1>1, <1>2, <1>3, <1>4 DEF Next, Finished

LEMMA RememberedSequence ==
  ASSUME NEW history, IsSequence(history), NEW text
  PROVE  IsSequence(Remember(history, text))
<1> DEFINE longer == Append(history, text)
<1>1. IsSequence(longer) /\ Len(longer) \in Nat
  BY AppendSequence
<1>2. PICK S : longer \in Seq(S)
  BY <1>1 DEF IsSequence
<1>3. MaxHistory \in Nat \ {0}
  BY PresentationAssumption
<1> HIDE DEF longer
<1>4. CASE Len(longer) <= MaxHistory
  BY <1>1, <1>4 DEF Remember, longer
<1>5. CASE ~(Len(longer) <= MaxHistory)
  <2> DEFINE from == Len(longer) - MaxHistory + 1
  <2>1. from \in 1..Len(longer)
    BY <1>1, <1>3, <1>5
  <2> HIDE DEF from
  <2>2. \A i \in from..Len(longer) : longer[i] \in S
    BY <1>1, <1>2, <2>1, ElementOfSeq
  <2>3. SubSeq(longer, from, Len(longer)) \in Seq(S)
    BY <1>1, <1>2, <2>1, <2>2, SubSeqProperties
  <2>4. Remember(history, text) = SubSeq(longer, from, Len(longer))
    BY <1>5 DEF Remember, longer, from
  <2> QED
    BY <2>3, <2>4 DEF IsSequence
<1> QED
  BY <1>4, <1>5

LEMMA HistoryTypedByKey ==
  ASSUME NEW key, UpdateKey(key), HistoryTyped
  PROVE  HistoryTyped'
<1>1. promptHistory' = promptHistory
  <2>1. CASE key \in DOMAIN Bindings
    BY <2>1
    DEF UpdateKey, ApplyAction, Quit, IssuePrompt, IssueCancel, MoveCursor, HistoryPrevious,
        HistoryNext, DeleteBack, Edit, Ignore, promptVars
  <2>2. CASE key \notin DOMAIN Bindings
    BY <2>2 DEF UpdateKey, TypeText, Edit, Ignore, promptVars
  <2> QED
    BY <2>1, <2>2
<1>2. Len(promptHistory) \in Nat
  BY DEF HistoryTyped, IsSequence
<1>3. ASSUME HistoryPrevious \/ HistoryNext PROVE historyIndex' \in Int
  BY <1>2, <1>3 DEF HistoryPrevious, HistoryNext, RecallEntry, HistoryTyped
<1>4. historyIndex' \in Int
  <2>1. CASE key \in DOMAIN Bindings
    BY <1>3, <2>1
    DEF UpdateKey, ApplyAction, Quit, IssuePrompt, IssueCancel, MoveCursor,
        DeleteBack, DetachHistory, Ignore, promptVars, HistoryTyped
  <2>2. CASE key \notin DOMAIN Bindings
    BY <2>2 DEF UpdateKey, TypeText, DetachHistory, Ignore, promptVars, HistoryTyped
  <2> QED
    BY <2>1, <2>2
<1> QED
  BY <1>1, <1>4 DEF HistoryTyped, IsSequence

LEMMA HistoryTypedByAnswer ==
  ASSUME ApplyAnswer, HistoryTyped
  PROVE  HistoryTyped'
<1>1. CASE UNCHANGED <<promptHistory, historyIndex>>
  BY <1>1 DEF HistoryTyped, IsSequence
<1>2. CASE CommitOperation(worker.answer)
  <2>1. promptHistory' = Remember(promptHistory, pendingPrompt)
    BY <1>2 DEF CommitOperation
  <2>2. IsSequence(promptHistory') /\ historyIndex' \in Int
    BY <1>2, <2>1, RememberedSequence
    DEF CommitOperation, ClearSentPrompt, DetachHistory, HistoryTyped
  <2> QED
    BY <2>2 DEF HistoryTyped, IsSequence
<1>3. \/ UNCHANGED <<promptHistory, historyIndex>>
      \/ CommitOperation(worker.answer)
  BY DEF ApplyAnswer, CompleteCancel, CompleteOperation, FailOperation, Ignore, promptVars
<1> QED
  BY <1>1, <1>2, <1>3

LEMMA HistoryTypedByUpdate ==
  ASSUME ReferenceInv, ApplyUpdate, HistoryTyped
  PROVE  HistoryTyped'
<1> DEFINE update == trace[next].update
<1>1. trace[next].kind = "update" /\ trace[next] \in Events /\ InjectUpdate(update)
  <2>1. trace \in Traces /\ next \in Nat /\ next # 0 /\ next <= Len(trace)
    BY DEF ReferenceInv, ApplyUpdate, Idle
  <2>2. next \in DOMAIN trace
    BY <2>1, TraceShape
  <2> QED
    BY <2>1, <2>2, TraceShape DEF ApplyUpdate, Event
<1>2. update.kind # "activity" => IsSequence(update.history)
  <2>1. update.kind # "activity" => update.history \in Seq(Text)
    BY <1>1, ReplayAssumption
  <2> QED
    BY <2>1 DEF IsSequence
<1> HIDE DEF update
<1>3. \/ UNCHANGED <<promptHistory, historyIndex>>
      \/ update.kind # "activity" /\ promptHistory' = update.history /\ historyIndex' = -1
  BY <1>1 DEF InjectUpdate, Ignore, ApplySessionUpdate, ReplaceHistory, promptVars
<1> QED
  BY <1>2, <1>3 DEF HistoryTyped, IsSequence

LEMMA HistoryTypedByStep ==
  ASSUME ReferenceInv, HistoryTyped, [Next]_vars
  PROVE  HistoryTyped'
<1>1. CASE Press
  BY <1>1, HistoryTypedByKey DEF Press
<1>2. CASE ApplyAnswer
  BY <1>2, HistoryTypedByAnswer
<1>3. CASE ApplyUpdate
  BY <1>3, HistoryTypedByUpdate
<1>4. CASE ReplayAgain
  <2>1. promptHistory' = << >> /\ historyIndex' = -1
    BY <1>4 DEF ReplayAgain, AnotherDriver
  <2> QED
    BY <2>1, EmptySequence DEF HistoryTyped, IsSequence
<1>5. CASE ApplyResize
  BY <1>5 DEF ApplyResize, Resize, Ignore, promptVars, HistoryTyped, IsSequence
<1>6. CASE \/ PressClosed \/ StartWorker \/ TimeOut \/ CheckContext \/ PerformScripted
           \/ ApplyKeys \/ ApplyClosed \/ ApplyOther
           \/ Fail \/ Capture \/ Compare \/ UNCHANGED vars
  <2>1. UNCHANGED modelVars
    BY <1>6
    DEF PressClosed, StartWorker, TimeOut, CheckContext, PerformScripted, ApplyKeys,
        ApplyClosed, ApplyOther, Fail, Capture, Compare, vars
  <2> QED
    BY <2>1 DEF modelVars, promptVars, HistoryTyped, IsSequence
<1> QED
  BY <1>1, <1>2, <1>3, <1>4, <1>5, <1>6 DEF Next, DriverStep, Finished

-----------------------------------------------------------------------------
(* A function has one outcome *)

(* The steps of the function from the beginning of a replay. *)
IsJourney(events, n, g) ==
  /\ g[0] = Beginning
  /\ \A j \in 0..(n - 1) : g[j + 1] = Advanced(events, g[j])

Reached(events, c) == \E n \in Nat : \E g : IsJourney(events, n, g) /\ g[n] = c

LEMMA BeginningIsReached ==
  ASSUME NEW events
  PROVE  Reached(events, Beginning)
<1> DEFINE g == [j \in {0} |-> Beginning]
<1>1. IsJourney(events, 0, g) /\ g[0] = Beginning
  BY DEF IsJourney
<1> QED
  BY <1>1 DEF Reached

LEMMA NextIsReached ==
  ASSUME NEW events, NEW c, Reached(events, c)
  PROVE  Reached(events, Advanced(events, c))
<1>1. PICK n \in Nat : \E g : IsJourney(events, n, g) /\ g[n] = c
  BY DEF Reached
<1>2. PICK g : IsJourney(events, n, g) /\ g[n] = c
  BY <1>1
<1> DEFINE h == [j \in 0..(n + 1) |-> IF j = n + 1 THEN Advanced(events, c) ELSE g[j]]
<1>3. h[0] = g[0] /\ h[n + 1] = Advanced(events, c)
  OBVIOUS
<1>4. ASSUME NEW j \in 0..n PROVE h[j + 1] = Advanced(events, h[j])
  <2>1. h[j] = g[j]
    OBVIOUS
  <2>2. CASE j = n
    BY <1>2, <1>3, <2>1, <2>2
  <2>3. CASE j # n
    <3>1. j \in 0..(n - 1) /\ h[j + 1] = g[j + 1]
      BY <2>3
    <3> QED
      BY <1>2, <2>1, <3>1 DEF IsJourney
  <2> QED
    BY <2>2, <2>3
<1> HIDE DEF h
<1>5. IsJourney(events, n + 1, h)
  <2>1. h[0] = Beginning
    BY <1>2, <1>3 DEF IsJourney
  <2>2. \A j \in 0..(n + 1 - 1) : h[j + 1] = Advanced(events, h[j])
    BY <1>4
  <2> QED
    BY <2>1, <2>2 DEF IsJourney
<1> QED
  BY <1>3, <1>5 DEF Reached

(* Two journeys agree as far as both go. *)
LEMMA JourneysAgree ==
  ASSUME NEW events, NEW m \in Nat, NEW n \in Nat, m <= n,
         NEW g, IsJourney(events, m, g), NEW h, IsJourney(events, n, h)
  PROVE  g[m] = h[m]
<1> DEFINE Bad == {j \in 0..m : g[j] # h[j]}
<1>1. ASSUME Bad # {} PROVE FALSE
  <2>1. PICK j \in Bad : \A k \in Bad : j <= k
    <3>1. Bad \in SUBSET Nat
      OBVIOUS
    <3> QED
      BY <1>1, <3>1, LeastNatural
  <2>2. j # 0
    BY <2>1 DEF IsJourney
  <2>3. j - 1 \in 0..(m - 1) /\ j - 1 \in 0..(n - 1) /\ j - 1 \notin Bad /\ (j - 1) + 1 = j
    BY <2>1, <2>2
  <2>4. g[j - 1] = h[j - 1]
    BY <2>3
  <2>5. g[(j - 1) + 1] = Advanced(events, g[j - 1])
    BY <2>3 DEF IsJourney
  <2>6. h[(j - 1) + 1] = Advanced(events, h[j - 1])
    BY <2>3 DEF IsJourney
  <2>7. g[j] = h[j]
    BY <2>3, <2>4, <2>5, <2>6
  <2> QED
    BY <2>1, <2>7
<1> QED
  BY <1>1

(* A journey that is over does not move. *)
LEMMA OverStays ==
  ASSUME NEW events, NEW m \in Nat, NEW n \in Nat, m <= n,
         NEW h, IsJourney(events, n, h), IsOver(events, h[m])
  PROVE  h[n] = h[m]
<1> DEFINE Bad == {j \in m..n : h[j] # h[m]}
<1>1. ASSUME Bad # {} PROVE FALSE
  <2>1. PICK j \in Bad : \A k \in Bad : j <= k
    <3>1. Bad \in SUBSET Nat
      OBVIOUS
    <3> QED
      BY <1>1, <3>1, LeastNatural
  <2>2. j # m
    BY <2>1
  <2>3. j - 1 \in m..n /\ j - 1 \in 0..(n - 1) /\ j - 1 \notin Bad /\ (j - 1) + 1 = j
    BY <2>1, <2>2
  <2>4. h[j - 1] = h[m]
    BY <2>3
  <2>5. h[(j - 1) + 1] = Advanced(events, h[j - 1])
    BY <2>3 DEF IsJourney
  <2>6. Advanced(events, h[m]) = h[m]
    BY DEF Advanced
  <2>7. h[j] = h[m]
    BY <2>3, <2>4, <2>5, <2>6
  <2> QED
    BY <2>1, <2>7
<1> QED
  BY <1>1

LEMMA OneOutcome ==
  ASSUME NEW events, NEW c, NEW d,
         Reached(events, c), Reached(events, d), IsOver(events, c), IsOver(events, d)
  PROVE  c = d
<1>1. PICK m \in Nat : \E g : IsJourney(events, m, g) /\ g[m] = c
  BY DEF Reached
<1>2. PICK g : IsJourney(events, m, g) /\ g[m] = c
  BY <1>1
<1>3. PICK n \in Nat : \E h : IsJourney(events, n, h) /\ h[n] = d
  BY DEF Reached
<1>4. PICK h : IsJourney(events, n, h) /\ h[n] = d
  BY <1>3
<1>5. CASE m <= n
  <2>1. g[m] = h[m]
    BY <1>2, <1>4, <1>5, JourneysAgree
  <2>2. h[n] = h[m]
    BY <1>2, <1>4, <1>5, <2>1, OverStays
  <2> QED
    BY <1>2, <1>4, <2>1, <2>2
<1>6. CASE n <= m
  <2>1. h[n] = g[n]
    BY <1>2, <1>4, <1>6, JourneysAgree
  <2>2. g[m] = g[n]
    BY <1>2, <1>4, <1>6, <2>1, OverStays
  <2> QED
    BY <1>2, <1>4, <2>1, <2>2
<1>7. m <= n \/ n <= m
  OBVIOUS
<1> QED
  BY <1>5, <1>6, <1>7

-----------------------------------------------------------------------------
(* Two rounds agree *)

EvidenceOf(c) == [steps |-> c.steps, intents |-> c.state.session.intents]

(* This round is on a journey of the function, and the evidence of the      *)
(* first round is that of a journey that is over.                           *)
JourneyInv ==
  /\ failure = "none" => Reached(trace, ReplayStanding)
  /\ round = 2 =>
       \E c : Reached(trace, c) /\ IsOver(trace, c) /\ first = EvidenceOf(c)
  /\ outcome # "nondeterministic"

(* The start of a round is where every journey begins. *)
FreshRound ==
  /\ next = 1 /\ applied = FALSE /\ keys = << >> /\ steps = << >> /\ drain = "none"
  /\ workspace = InitialWorkspace /\ status = InitialStatus /\ activity = << >>
  /\ revision = 0 /\ size = BoundedSize(Width, Height)
  /\ editor = ZeroEditor /\ promptHistory = << >>
  /\ historyIndex = -1 /\ historyDraft = ZeroEditor
  /\ operationToken = 0 /\ cancelToken = 0
  /\ performResult = NoResult /\ intents = << >>

LEMMA RoundBegins == FreshRound => ReplayStanding = Beginning
BY DEF FreshRound, ReplayStanding, Beginning, SettledState, ModelState, FreshState

LEMMA EndedIsOver ==
  ASSUME Ended, DriverInv, ReferenceInv
  PROVE  IsOver(trace, ReplayStanding) /\ Evidence = EvidenceOf(ReplayStanding)
<1>1. ~applied /\ next > Len(trace) /\ drain = "none"
  BY DEF Ended, DriverInv, CallInv, Returned
<1>2. ReplayStanding.state = ModelState
  BY <1>1, StandingFields DEF SettledState
<1>3. ~(next <= Len(trace))
  <2>1. next \in Nat /\ Len(trace) \in Nat
    BY TraceShape DEF ReferenceInv
  <2> QED
    BY <1>1, <2>1
<1> QED
  BY <1>1, <1>2, <1>3, StandingFields, ViewFields DEF IsOver, Evidence, EvidenceOf

LEMMA JourneyInvByStep ==
  ASSUME DriverInv, ReferenceInv, FlightInv, HistoryTyped, HaltInv, JourneyInv, [Next]_vars
  PROVE  JourneyInv'
<1>1. CASE ReplayAgain
  <2>1. Ended /\ first' = Evidence /\ UNCHANGED <<trace, outcome>>
    BY <1>1 DEF ReplayAgain
  <2>2. failure = "none"
    BY <2>1 DEF Ended, HaltInv
  <2>3. Reached(trace, ReplayStanding) /\ IsOver(trace, ReplayStanding)
          /\ first' = EvidenceOf(ReplayStanding)
    BY <2>1, <2>2, EndedIsOver DEF JourneyInv
  <2>4. ReplayStanding' = Beginning
    <3>1. FreshRound'
      <4>1. applied' = FALSE
        <5>1. applied' = applied /\ ~applied
          BY <1>1 DEF ReplayAgain, Ended
        <5> QED
          BY <5>1 DEF HaltInv
      <4> QED
        BY <1>1, <4>1 DEF ReplayAgain, AnotherDriver, FreshRound
    <3>2. (ReplayStanding = Beginning)'
      BY <3>1, RoundBegins, PTL
    <3> QED
      BY <3>2 
      DEF Beginning, Standing, FreshState, View, Prompt, Lanes, Session, BoundedSize, Clamp,
          ZeroEditor
  <2>5. Reached(trace, ReplayStanding')
    BY <2>4, BeginningIsReached
  <2>6. \E c : Reached(trace', c) /\ IsOver(trace', c) /\ first' = EvidenceOf(c)
    BY <2>1, <2>3
  <2> QED
    BY <2>1, <2>5, <2>6 DEF JourneyInv
<1>2. CASE ~ReplayAgain
  <2>1. UNCHANGED <<trace, round, first>>
    BY <1>2
    DEF Next, ApplyKeys, ApplyClosed, ApplyUpdate, ApplyResize, ApplyOther, Fail, Capture,
        Compare, Finished, vars, replayVars
  <2>2. failure' = "none" => Reached(trace', ReplayStanding')
    <3>1. SUFFICES ASSUME failure' = "none"
                   PROVE  Reached(trace, ReplayStanding')
      BY <2>1
    <3>2. /\ failure = "none"
          /\ ReplayStanding' \in {ReplayStanding, Advanced(trace, ReplayStanding)}
      BY <1>2, <3>1, StepAdvances
    <3>3. Reached(trace, ReplayStanding)
      BY <3>2 DEF JourneyInv
    <3> QED
      BY <3>2, <3>3, NextIsReached
  <2>3. outcome' # "nondeterministic"
    <3>1. CASE Compare
      <4>1. Ended /\ round = 2 /\ failure = "none"
        BY <3>1 DEF Compare, Ended, HaltInv
      <4>2. PICK c : Reached(trace, c) /\ IsOver(trace, c) /\ first = EvidenceOf(c)
        BY <4>1 DEF JourneyInv
      <4>3. /\ Reached(trace, ReplayStanding) /\ IsOver(trace, ReplayStanding)
            /\ Evidence = EvidenceOf(ReplayStanding)
        BY <4>1, EndedIsOver DEF JourneyInv
      <4>4. c = ReplayStanding
        BY <4>2, <4>3, OneOutcome
      <4>5. first = Evidence
        BY <4>2, <4>3, <4>4
      <4> QED
        BY <3>1, <4>5 DEF Compare
    <3>2. CASE Fail
      BY <3>2 DEF Fail
    <3>3. CASE Capture
      BY <3>3 DEF Capture, Verdict
    <3>4. CASE ~(Compare \/ Fail \/ Capture)
      <4>1. outcome' = outcome
        BY <1>2, <3>4
        DEF Next, ApplyKeys, ApplyClosed, ApplyUpdate, ApplyResize, ApplyOther, Finished, vars,
            replayVars
      <4> QED
        BY <4>1 DEF JourneyInv
    <3> QED
      BY <3>1, <3>2, <3>3, <3>4
  <2>4. round' = 2 => \E c : /\ Reached(trace', c) /\ IsOver(trace', c)
                             /\ first' = EvidenceOf(c)
    BY <2>1, Zenon DEF JourneyInv
  <2> QED
    BY <2>2, <2>3, <2>4 DEF JourneyInv
<1> QED
  BY <1>1, <1>2

(* Two replays that both end never disagree, whatever the timing of the     *)
(* workers and whatever the trace: between two commands a replay is a       *)
(* function of the events, and a drain that is not cut off by its timeout   *)
(* has one result (tuittest/replay.go:61-80).                               *)
THEOREM ReplaysAgree == Spec => []ReplayIsDeterministic
<1> DEFINE Inv == FlightInv /\ HistoryTyped /\ HaltInv /\ JourneyInv
<1>1. Init => Inv
  <2> SUFFICES ASSUME Init
               PROVE  Inv
    OBVIOUS
  <2>1. /\ FreshRound /\ failure = "none" /\ worker = NoWorker
        /\ round = 1 /\ outcome = "running"
    BY DEF Init, FreshReplay, NewDriver, NewModel, FreshRound
  <2>2. FlightInv
    BY <2>1 DEF FlightInv, FreshRound, NoWorker
  <2>3. HistoryTyped
    BY <2>1, EmptySequence DEF HistoryTyped, FreshRound
  <2>4. HaltInv
    BY <2>1 DEF HaltInv, FreshRound
  <2>5. JourneyInv
    BY <2>1, RoundBegins, BeginningIsReached DEF JourneyInv
  <2> QED
    BY <2>2, <2>3, <2>4, <2>5
<1>2. DriverInv /\ ReferenceInv /\ Inv /\ [Next]_vars => Inv'
  <2> SUFFICES ASSUME DriverInv, ReferenceInv, Inv, [Next]_vars
               PROVE  Inv'
    OBVIOUS
  <2>1. FlightInv'
    BY FlightInvByStep
  <2>2. HistoryTyped'
    BY HistoryTypedByStep
  <2>3. HaltInv'
    BY HaltInvByStep
  <2>4. JourneyInv'
    BY JourneyInvByStep
  <2> QED
    BY <2>1, <2>2, <2>3, <2>4
<1>3. ReferenceInv /\ Inv => ReplayIsDeterministic
  BY DEF ReferenceInv, JourneyInv, ReplayIsDeterministic
<1> QED
  BY <1>1, <1>2, <1>3, DriverInvHolds, ReferenceInvHolds, PTL DEF Spec

-----------------------------------------------------------------------------
(* The canonical JSON of a trace *)

(* The event that arrives: the texts of a key have been escaped and read.  *)
Reread(event) ==
  IF event.kind = "key"
  THEN [kind |-> "key", stroke |-> Decoded(Encoded(event.stroke)),
        text |-> Decoded(Encoded(event.text))]
  ELSE event

(* A text that JSON carries arrives as it was; any other arrives as one     *)
(* that JSON carries, hence never in the form it was sent in.               *)
LEMMA TextsArrive ==
  ASSUME NEW text
  PROVE  /\ text \in Sendable => Encoded(text) = text /\ Decoded(Encoded(text)) = text
         /\ text \notin Sendable => /\ Encoded(text) = Escaped
                                    /\ Decoded(Encoded(text)) = Changed
                                    /\ Encoded(Decoded(Encoded(text))) # Encoded(text)
         /\ Decoded(Encoded(text)) = NoText <=> text = NoText
         /\ NoText \in Sendable
<1>1. /\ Changed \in Sendable \ {NoText} /\ NoText \in Sendable /\ Escaped \notin Sendable
  BY TraceJsonAssumption
<1> QED
  BY <1>1 DEF Encoded, Decoded

LEMMA UpdateRoundTrip ==
  ASSUME NEW update, UpdateShape(update)
  PROVE  updateFromWire(updateToWire(update)) = {update}
<1> DEFINE wire == updateToWire(update)
<1> SUFFICES updateFromWire(wire) = {update}
  OBVIOUS
<1>1. CASE update.kind = "snapshot"
  <2>1. wire = [kind |-> "snapshot", revision |-> update.revision,
                payload |-> [snapshot |->
                  [workspace |-> update.workspace, status |-> update.status,
                   activity |-> update.activity, history |-> update.history]]]
    BY <1>1 DEF updateToWire
  <2>2. /\ update = [kind |-> "snapshot", revision |-> update.revision,
                     workspace |-> update.workspace, status |-> update.status,
                     activity |-> update.activity, history |-> update.history]
        /\ update.activity # Null /\ update.history # Null
    BY <1>1 DEF UpdateShape
  <2>3. HasFields(wire.payload, {"snapshot"}, {})
    BY <2>1 DEF HasFields
  <2> HIDE DEF wire
  <2> QED
    BY <2>1, <2>2, <2>3 DEF updateFromWire, Listed
<1>2. CASE update.kind = "activity"
  <2>1. wire = [kind |-> "activity", revision |-> update.revision,
                payload |-> [activity |-> update.item]]
    BY <1>2 DEF updateToWire
  <2>2. update = [kind |-> "activity", revision |-> update.revision, item |-> update.item]
    BY <1>2 DEF UpdateShape
  <2>3. HasFields(wire.payload, {"activity"}, {})
    BY <2>1 DEF HasFields
  <2> HIDE DEF wire
  <2> QED
    BY <2>1, <2>2, <2>3 DEF updateFromWire, Listed
<1>3. CASE update.kind = "prompt-history"
  <2>1. wire = [kind |-> "prompt-history", revision |-> update.revision,
                payload |-> [history |-> update.history]]
    BY <1>3 DEF updateToWire
  <2>2. /\ update = [kind |-> "prompt-history", revision |-> update.revision,
                     history |-> update.history]
        /\ update.history # Null
    BY <1>3 DEF UpdateShape
  <2>3. HasFields(wire.payload, {"history"}, {})
    BY <2>1 DEF HasFields
  <2> HIDE DEF wire
  <2> QED
    BY <2>1, <2>2, <2>3 DEF updateFromWire, Listed
<1> QED
  BY <1>1, <1>2, <1>3 DEF UpdateShape

StorableEvent(event) ==
  event.kind = "key" => event.stroke \in Sendable /\ event.text \in Sendable

LEMMA StorableArrives ==
  ASSUME NEW event, EventShape(event), StorableEvent(event)
  PROVE  Reread(event) = event
<1>1. CASE event.kind = "key"
  <2>1. event = [kind |-> "key", stroke |-> event.stroke, text |-> event.text]
    BY <1>1 DEF EventShape
  <2>2. /\ Decoded(Encoded(event.stroke)) = event.stroke
        /\ Decoded(Encoded(event.text)) = event.text
    BY <1>1, TextsArrive DEF StorableEvent
  <2> QED
    BY <1>1, <2>1, <2>2 DEF Reread
<1>2. CASE event.kind # "key"
  BY <1>2 DEF Reread
<1> QED
  BY <1>1, <1>2

(* What arrives of any other event has another JSON. *)
LEMMA OthersAreSeen ==
  ASSUME NEW event, EventShape(event), ~StorableEvent(event)
  PROVE  eventToWire(Reread(event)) # eventToWire(event)
<1> DEFINE there == Reread(event)
<1>1. event.kind = "key" /\ (event.stroke \notin Sendable \/ event.text \notin Sendable)
  BY DEF StorableEvent
<1>2. /\ there.kind = "key"
      /\ there.stroke = Decoded(Encoded(event.stroke))
      /\ there.text = Decoded(Encoded(event.text))
  BY <1>1 DEF Reread
<1>3. there.text = NoText <=> event.text = NoText
  BY <1>2, TextsArrive
<1> HIDE DEF there
<1>4. \A key \in {event, there} :
        eventToWire(key).fields = IF key.text = NoText THEN [stroke |-> Encoded(key.stroke)]
                                  ELSE [stroke |-> Encoded(key.stroke), text |-> Encoded(key.text)]
  BY <1>1, <1>2 DEF eventToWire
<1>5. \A key \in {event, there} :
        /\ eventToWire(key).fields.stroke = Encoded(key.stroke)
        /\ key.text # NoText => eventToWire(key).fields.text = Encoded(key.text)
  BY <1>4
<1>6. CASE event.stroke \notin Sendable
  <2>1. Encoded(there.stroke) # Encoded(event.stroke)
    BY <1>2, <1>6, TextsArrive
  <2> QED
    BY <1>5, <2>1 DEF there
<1>7. CASE event.text \notin Sendable
  <2>1. Encoded(there.text) # Encoded(event.text) /\ event.text # NoText
    BY <1>2, <1>7, TextsArrive
  <2> QED
    BY <1>3, <1>5, <2>1 DEF there
<1> QED
  BY <1>1, <1>6, <1>7

(* An event is read back as what arrives, if that is valid, and as nothing *)
(* else.                                                                    *)
LEMMA EventRoundTrip ==
  ASSUME NEW event, EventShape(event)
  PROVE  eventFromWire(eventToWire(event)) = {e \in {Reread(event)} : ValidEvent(e)}
<1> DEFINE wire == eventToWire(event)
<1> SUFFICES eventFromWire(wire) = {e \in {Reread(event)} : ValidEvent(e)}
  OBVIOUS
<1>1. CASE event.kind = "type"
  <2>1. wire = [type |-> "type", fields |-> [text |-> event.keys]]
    BY <1>1 DEF eventToWire
  <2>2. event = [kind |-> "type", keys |-> event.keys] /\ Reread(event) = event
    BY <1>1 DEF EventShape, Reread
  <2>3. HasFields(wire.fields, {"text"}, {})
    BY <2>1 DEF HasFields
  <2> HIDE DEF wire
  <2> QED
    BY <2>1, <2>2, <2>3 DEF eventFromWire
<1>2. CASE event.kind = "key"
  <2>1. event = [kind |-> "key", stroke |-> event.stroke, text |-> event.text]
    BY <1>2 DEF EventShape
  <2>2. CASE event.text = NoText
    <3>1. wire = [type |-> "key", fields |-> [stroke |-> Encoded(event.stroke)]]
      BY <1>2, <2>2 DEF eventToWire
    <3>2. HasFields(wire.fields, {"stroke"}, {"text"}) /\ "text" \notin DOMAIN wire.fields
      BY <3>1 DEF HasFields
    <3>3. keyEventFromWire(wire.fields) = Reread(event)
      <4>1. Decoded(Encoded(event.text)) = NoText
        BY <2>2, TextsArrive
      <4> QED
        BY <1>2, <3>1, <3>2, <4>1 DEF keyEventFromWire, Reread
    <3> HIDE DEF wire
    <3> QED
      BY <3>1, <3>2, <3>3 DEF eventFromWire
  <2>3. CASE event.text # NoText
    <3>1. wire = [type |-> "key",
                  fields |-> [stroke |-> Encoded(event.stroke),
                              text |-> Encoded(event.text)]]
      BY <1>2, <2>3 DEF eventToWire
    <3>2. HasFields(wire.fields, {"stroke"}, {"text"}) /\ "text" \in DOMAIN wire.fields
      BY <3>1 DEF HasFields
    <3>3. keyEventFromWire(wire.fields) = Reread(event)
      BY <1>2, <2>3, <3>1, <3>2 DEF keyEventFromWire, Reread
    <3> HIDE DEF wire
    <3> QED
      BY <3>1, <3>2, <3>3 DEF eventFromWire
  <2> QED
    BY <2>2, <2>3
<1>3. CASE event.kind = "action"
  <2>1. wire = [type |-> "action", fields |-> [action |-> event.action]]
    BY <1>3 DEF eventToWire
  <2>2. event = [kind |-> "action", action |-> event.action] /\ Reread(event) = event
    BY <1>3 DEF EventShape, Reread
  <2>3. HasFields(wire.fields, {"action"}, {})
    BY <2>1 DEF HasFields
  <2> HIDE DEF wire
  <2> QED
    BY <2>1, <2>2, <2>3 DEF eventFromWire
<1>4. CASE event.kind = "update"
  <2>1. wire = [type |-> "update", fields |-> [update |-> updateToWire(event.update)]]
    BY <1>4 DEF eventToWire
  <2>2. /\ event = [kind |-> "update", update |-> event.update]
        /\ UpdateShape(event.update) /\ Reread(event) = event
    BY <1>4 DEF EventShape, Reread
  <2>3. HasFields(wire.fields, {"update"}, {})
    BY <2>1 DEF HasFields
  <2>4. updateFromWire(wire.fields.update) = {event.update}
    BY <2>1, <2>2, UpdateRoundTrip
  <2> HIDE DEF wire
  <2>5. {[kind |-> "update", update |-> u] : u \in updateFromWire(wire.fields.update)} = {event}
    BY <2>2, <2>4
  <2> QED
    BY <2>1, <2>2, <2>3, <2>5 DEF eventFromWire
<1>5. CASE event.kind = "resize"
  <2>1. wire = [type |-> "resize", fields |-> [width |-> event.width, height |-> event.height]]
    BY <1>5 DEF eventToWire
  <2>2. /\ event = [kind |-> "resize", width |-> event.width, height |-> event.height]
        /\ Reread(event) = event
    BY <1>5 DEF EventShape, Reread
  <2>3. HasFields(wire.fields, {"width", "height"}, {})
    BY <2>1 DEF HasFields
  <2> HIDE DEF wire
  <2> QED
    BY <2>1, <2>2, <2>3 DEF eventFromWire
<1>6. CASE event.kind = "snapshot"
  <2>1. wire = [type |-> "snapshot", fields |-> [name |-> event.name]]
    BY <1>6 DEF eventToWire
  <2>2. event = [kind |-> "snapshot", name |-> event.name] /\ Reread(event) = event
    BY <1>6 DEF EventShape, Reread
  <2>3. HasFields(wire.fields, {"name"}, {})
    BY <2>1 DEF HasFields
  <2> HIDE DEF wire
  <2> QED
    BY <2>1, <2>2, <2>3 DEF eventFromWire
<1>7. CASE event.kind = "perform-result"
  <2>1. wire = [type |-> "perform-result", fields |-> [result_message |-> event.result]]
    BY <1>7 DEF eventToWire
  <2>2. event = [kind |-> "perform-result", result |-> event.result] /\ Reread(event) = event
    BY <1>7 DEF EventShape, Reread
  <2>3. HasFields(wire.fields, {"result_message"}, {})
    BY <2>1 DEF HasFields
  <2> HIDE DEF wire
  <2> QED
    BY <2>1, <2>2, <2>3 DEF eventFromWire
<1> QED
  BY <1>1, <1>2, <1>3, <1>4, <1>5, <1>6, <1>7 DEF EventShape

(* Filling in the defaults of options that validate a second time changes   *)
(* nothing (tuittest/trace.go:134-145).                                     *)
LEMMA OptionsAreSettled ==
  ASSUME NEW options \in TraceOptions,
         normalizeTraceOptions(options).width \in 1..MaxWidth,
         normalizeTraceOptions(options).height \in 1..MaxHeight,
         normalizeTraceOptions(options).theme \in ThemeModes
  PROVE  /\ normalizeTraceOptions(options) \in TraceOptions
         /\ normalizeTraceOptions(normalizeTraceOptions(options)) = normalizeTraceOptions(options)
<1> DEFINE chosen == normalizeTraceOptions(options)
<1>1. chosen = [width |-> chosen.width, height |-> chosen.height, theme |-> chosen.theme]
  <2>1. /\ chosen \in [{"width", "height", "theme"} -> Nat \cup STRING \cup {Width, Height, DarkMode}]
        /\ DOMAIN chosen = {"width", "height", "theme"}
    BY DEF normalizeTraceOptions, TraceOptions
  <2> HIDE DEF chosen
  <2> QED
    BY <2>1
<1>2. /\ chosen.width \in 1..MaxWidth /\ chosen.height \in 1..MaxHeight
      /\ chosen.theme \in ThemeModes
  OBVIOUS
<1>3. MaxWidth \in Nat /\ MaxHeight \in Nat
  BY PresentationAssumption
<1> HIDE DEF chosen
<1>4. chosen.width \in Nat \ {0} /\ chosen.height \in Nat \ {0}
  BY <1>2, <1>3
<1>5. chosen.theme \in STRING /\ chosen.theme # NoText
  BY <1>2, TraceJsonAssumption, Zenon
<1>6. chosen \in TraceOptions
  BY <1>1, <1>4, <1>5 DEF TraceOptions
<1>7. normalizeTraceOptions(chosen) = chosen
  BY <1>1, <1>4, <1>5 DEF normalizeTraceOptions
<1> QED
  BY <1>6, <1>7 DEF chosen

(* The JSON of a recorded trace is read back as that trace, unless a key    *)
(* has a text that is not valid UTF-8: then it is refused, never read as a  *)
(* different trace.  No other spelling of a document is read as the trace   *)
(* (tuittest/trace_json.go:71-97, keys.go:90-104).                          *)
THEOREM CanonicalJsonIsExact ==
  ASSUME NEW options \in TraceOptions,
         NEW S, NEW events \in Seq(S),
         \A i \in DOMAIN events : EventShape(events[i]),
         NEW t \in NewTrace(options, events)
  PROVE  JsonIsExact(t)
<1> DEFINE chosen   == normalizeTraceOptions(options)
           document == CanonicalJSON(t)
           wire     == [i \in DOMAIN events |-> eventToWire(events[i])]
           read     == [i \in DOMAIN wire |-> eventFromWire(wire[i])]
           chosenEvents == [i \in DOMAIN read |-> CHOOSE e \in read[i] : TRUE]
<1>1. /\ t = [options |-> chosen, events |-> events]
      /\ chosen.width \in 1..MaxWidth /\ chosen.height \in 1..MaxHeight
      /\ chosen.theme \in ThemeModes
      /\ \A i \in DOMAIN events : ValidEvent(events[i])
      /\ ValidTrace(events)
  BY DEF NewTrace
<1>2. normalizeTraceOptions(chosen) = chosen
  BY <1>1, OptionsAreSettled
<1> HIDE DEF chosen
<1>3. document = [schema |-> Schema, options |-> chosen, events |-> wire,
                  spelling |-> "canonical", unknown |-> FALSE, trailing |-> FALSE]
  BY <1>1 DEF CanonicalJSON
<1>4. /\ document.schema = Schema /\ document.options = chosen /\ document.events = wire
      /\ document.unknown = FALSE /\ document.trailing = FALSE
  BY <1>3
<1>5. /\ DOMAIN read = DOMAIN events
      /\ \A i \in DOMAIN events : read[i] = {e \in {Reread(events[i])} : ValidEvent(e)}
  BY EventRoundTrip
<1>6. traceFromWire(document) =
        IF \E i \in DOMAIN read : read[i] = {} THEN {} ELSE NewTrace(chosen, chosenEvents)
  BY <1>4 DEF traceFromWire
<1>7. CASE Storable(t)
  <2>1. \A i \in DOMAIN events : read[i] = {events[i]}
    <3> SUFFICES ASSUME NEW i \in DOMAIN events
                 PROVE  read[i] = {events[i]}
      OBVIOUS
    <3>1. StorableEvent(events[i])
      BY <1>1, <1>7 DEF Storable, StorableEvent
    <3>2. Reread(events[i]) = events[i]
      BY <3>1, StorableArrives
    <3> HIDE DEF read
    <3> QED
      BY <1>1, <1>5, <3>2
  <2>2. chosenEvents = events /\ ~ \E i \in DOMAIN read : read[i] = {}
    <3> HIDE DEF read
    <3>1. \A i \in DOMAIN events : (CHOOSE e \in read[i] : TRUE) = events[i]
      BY <2>1
    <3>2. DOMAIN events = 1..Len(events) /\ events = [i \in DOMAIN events |-> events[i]]
      OBVIOUS
    <3> QED
      BY <1>5, <2>1, <3>1, <3>2
  <2>3. NewTrace(chosen, events) = {t}
    BY <1>1, <1>2 DEF NewTrace
  <2>4. traceFromWire(document) = {t}
    <3> HIDE DEF read, chosenEvents, document
    <3> QED
      BY <1>6, <2>2, <2>3
  <2> QED
    <3> HIDE DEF read, chosenEvents
    <3>1. ParseTrace(document) = {t}
      BY <1>4, <2>4 DEF ParseTrace
    <3> QED
      BY <1>7, <3>1 DEF JsonIsExact, ParseTrace
<1>8. CASE ~Storable(t)
  <2>1. PICK i \in DOMAIN events : ~StorableEvent(events[i])
    BY <1>1, <1>8 DEF Storable, StorableEvent
  <2>2. ASSUME NEW u \in ParseTrace(document) PROVE FALSE
    <3>1. u \in traceFromWire(document) /\ CanonicalJSON(u) = document
      BY <1>4, <2>2 DEF ParseTrace
    <3>2. read[i] = {Reread(events[i])}
      <4>1. read[i] # {}
        BY <1>5, <1>6, <3>1
      <4> HIDE DEF read
      <4> QED
        BY <1>5, <4>1
    <3>3. chosenEvents[i] = Reread(events[i]) /\ DOMAIN chosenEvents = DOMAIN events
      <4> HIDE DEF read
      <4> QED
        BY <1>5, <3>2
    <3>4. u.events = chosenEvents
      <4> HIDE DEF chosenEvents, document
      <4> QED
        BY <1>6, <3>1 DEF NewTrace
    <3>5. CanonicalJSON(u).events[i] = eventToWire(chosenEvents[i])
      <4> HIDE DEF chosenEvents
      <4> QED
        BY <3>3, <3>4 DEF CanonicalJSON
    <3>6. document.events[i] = eventToWire(events[i])
      BY <1>4
    <3>7. eventToWire(Reread(events[i])) # eventToWire(events[i])
      BY <2>1, OthersAreSeen
    <3> HIDE DEF document, chosenEvents
    <3> QED
      BY <3>1, <3>3, <3>5, <3>6, <3>7
  <2>3. ParseTrace(document) = {}
    BY <2>2
  <2> HIDE DEF document
  <2> QED
    BY <1>8, <2>3 DEF JsonIsExact, ParseTrace, document
<1> QED
  BY <1>7, <1>8

-----------------------------------------------------------------------------
(* Traces that are stored and read back *)

(* The trace at hand is one that NewTrace made, whoever called it: it is    *)
(* what JsonIsExact rests on, and ParseTrace ends in NewTrace as well.      *)
MadeByNewTrace(t) ==
  /\ t \in NewTrace(t.options, t.events)
  /\ t.options \in TraceOptions
  /\ t.events \in Seq({t.events[i] : i \in DOMAIN t.events})
  /\ \A i \in DOMAIN t.events : EventShape(t.events[i])

RecordedInv == \A t \in recorded : MadeByNewTrace(t)

(* What NewTrace returns for events of the right shape is valid again, its  *)
(* defaults being filled in (tuittest/trace.go:113-145).                    *)
LEMMA NewTraceIsMade ==
  ASSUME NEW options \in TraceOptions,
         NEW S, NEW events \in Seq(S),
         \A i \in DOMAIN events : EventShape(events[i]),
         NEW t \in NewTrace(options, events)
  PROVE  MadeByNewTrace(t)
<1> DEFINE chosen == normalizeTraceOptions(options)
<1>1. /\ t = [options |-> chosen, events |-> events]
      /\ chosen.width \in 1..MaxWidth /\ chosen.height \in 1..MaxHeight
      /\ chosen.theme \in ThemeModes
      /\ \A i \in DOMAIN events : ValidEvent(events[i])
      /\ ValidTrace(events)
  BY DEF NewTrace
<1>2. chosen \in TraceOptions /\ normalizeTraceOptions(chosen) = chosen
  BY <1>1, OptionsAreSettled
<1> HIDE DEF chosen
<1>3. t.options = chosen /\ t.events = events
  BY <1>1
<1>4. t \in NewTrace(chosen, events)
  BY <1>1, <1>2 DEF NewTrace
<1>5. events \in Seq({events[i] : i \in DOMAIN events})
  OBVIOUS
<1> QED
  BY <1>2, <1>3, <1>4, <1>5 DEF MadeByNewTrace

(* Whatever an object says, what is read from it has the fields of its kind *)
(* and no nil list (tuittest/trace_json.go).                                *)
LEMMA ReadUpdateHasShape ==
  ASSUME NEW wire, NEW update \in updateFromWire(wire)
  PROVE  UpdateShape(update)
<1>1. \A list : Listed(list) # Null
  BY TraceJsonAssumption DEF Listed
<1> DEFINE p == wire.payload
<1>2. \/ update = [kind |-> "snapshot", revision |-> wire.revision,
                   workspace |-> p.snapshot.workspace, status |-> p.snapshot.status,
                   activity |-> Listed(p.snapshot.activity),
                   history |-> Listed(p.snapshot.history)]
      \/ update = [kind |-> "activity", revision |-> wire.revision, item |-> p.activity]
      \/ update = [kind |-> "prompt-history", revision |-> wire.revision,
                   history |-> Listed(p.history)]
  BY DEF updateFromWire
<1> QED
  BY <1>1, <1>2 DEF UpdateShape

LEMMA ReadEventHasShape ==
  ASSUME NEW wire, NEW event \in eventFromWire(wire)
  PROVE  EventShape(event)
<1> DEFINE f == wire.fields
<1>1. \/ event = [kind |-> "type", keys |-> f.text]
      \/ event = keyEventFromWire(f)
      \/ event = [kind |-> "action", action |-> f.action]
      \/ \E u \in updateFromWire(f.update) : event = [kind |-> "update", update |-> u]
      \/ event = [kind |-> "resize", width |-> f.width, height |-> f.height]
      \/ event = [kind |-> "snapshot", name |-> f.name]
      \/ event = [kind |-> "perform-result", result |-> f.result_message]
  BY DEF eventFromWire
<1>2. CASE \E u \in updateFromWire(f.update) : event = [kind |-> "update", update |-> u]
  <2>1. PICK u \in updateFromWire(f.update) : event = [kind |-> "update", update |-> u]
    BY <1>2
  <2>2. UpdateShape(u)
    BY ReadUpdateHasShape
  <2> QED
    BY <2>1, <2>2 DEF EventShape
<1>3. CASE event = keyEventFromWire(f)
  BY <1>3 DEF keyEventFromWire, EventShape
<1> QED
  BY <1>1, <1>2, <1>3 DEF EventShape

(* A document respelled in one place still lists its events. *)
LEMMA DocumentsListEvents ==
  ASSUME NEW t, MadeByNewTrace(t), NEW d \in Documents(t)
  PROVE  d.options \in TraceOptions /\ \E n \in Nat : DOMAIN d.events = 1..n
<1> DEFINE document == CanonicalJSON(t)
           wires    == [i \in DOMAIN t.events |-> eventToWire(t.events[i])]
           Good(c)  == c.options \in TraceOptions /\ \E n \in Nat : DOMAIN c.events = 1..n
<1>1. document = [schema |-> Schema, options |-> t.options, events |-> wires,
                  spelling |-> "canonical", unknown |-> FALSE, trailing |-> FALSE]
  BY DEF CanonicalJSON
<1>2. t.options \in TraceOptions /\ \E n \in Nat : DOMAIN wires = 1..n
  BY DEF MadeByNewTrace
<1>3. \/ d = document
      \/ d \in {[document EXCEPT !.spelling = "other"], [document EXCEPT !.unknown = TRUE],
                [document EXCEPT !.trailing = TRUE], [document EXCEPT !.schema = NoText]}
      \/ d = [document EXCEPT !.events = << >>]
      \/ d = [document EXCEPT !.options.width = 0]
      \/ d = [document EXCEPT !.options.theme = NoText]
      \/ \E i \in DOMAIN document.events : \E e : d = [document EXCEPT !.events[i] = e]
  <2> HIDE DEF document
  <2>1. d = document \/ d \in Respelled(document)
    BY DEF Documents, document
  <2>2. ASSUME d \in UNION {{[document EXCEPT !.events[i] = e] :
                              e \in RespelledEvents(document.events[i])} :
                              i \in DOMAIN document.events}
        PROVE  \E i \in DOMAIN document.events : \E e : d = [document EXCEPT !.events[i] = e]
    BY <2>2
  <2> QED
    BY <2>1, <2>2 DEF Respelled
<1> HIDE DEF document, wires
<1>4. CASE \/ d = document
           \/ d \in {[document EXCEPT !.spelling = "other"], [document EXCEPT !.unknown = TRUE],
                     [document EXCEPT !.trailing = TRUE], [document EXCEPT !.schema = NoText]}
  <2>1. d.options = t.options /\ d.events = wires
    BY <1>1, <1>4
  <2> QED
    BY <1>2, <2>1
<1>5. CASE d = [document EXCEPT !.events = << >>]
  <2>1. d.options = t.options /\ d.events = << >>
    BY <1>1, <1>5
  <2>2. DOMAIN d.events = 1..0
    BY <2>1
  <2> QED
    BY <1>2, <2>1, <2>2
<1>6. CASE \/ d = [document EXCEPT !.options.width = 0]
           \/ d = [document EXCEPT !.options.theme = NoText]
  <2>1. d.events = wires /\ d.options \in {[t.options EXCEPT !.width = 0],
                                          [t.options EXCEPT !.theme = NoText]}
    BY <1>1, <1>6
  <2>2. NoText \in STRING
    BY TraceJsonAssumption, Zenon
  <2> QED
    BY <1>2, <2>1, <2>2 DEF TraceOptions
<1>7. CASE \E i \in DOMAIN document.events : \E e : d = [document EXCEPT !.events[i] = e]
  <2>1. d.options = t.options /\ DOMAIN d.events = DOMAIN wires
    BY <1>1, <1>7
  <2> QED
    BY <1>2, <2>1
<1> QED
  BY <1>3, <1>4, <1>5, <1>6, <1>7

(* What is read back from any such document was made by NewTrace as well.   *)
LEMMA ReadTraceIsMade ==
  ASSUME NEW d, d.options \in TraceOptions,
         NEW n \in Nat, DOMAIN d.events = 1..n,
         NEW t \in ParseTrace(d)
  PROVE  MadeByNewTrace(t)
<1> DEFINE read   == [i \in DOMAIN d.events |-> eventFromWire(d.events[i])]
           events == [i \in DOMAIN read |-> CHOOSE e \in read[i] : TRUE]
<1>1. t \in traceFromWire(d)
  BY DEF ParseTrace
<1>2. t \in NewTrace(d.options, events) /\ \A i \in 1..n : read[i] # {}
  BY <1>1 DEF traceFromWire
<1>3. \A i \in 1..n : EventShape(events[i])
  <2> SUFFICES ASSUME NEW i \in 1..n
               PROVE  EventShape(events[i])
    OBVIOUS
  <2>1. read[i] = eventFromWire(d.events[i]) /\ events[i] = CHOOSE e \in read[i] : TRUE
    OBVIOUS
  <2>2. events[i] \in eventFromWire(d.events[i])
    BY <1>2, <2>1
  <2> QED
    BY <2>2, ReadEventHasShape
<1>4. DOMAIN events = 1..n
  OBVIOUS
<1> HIDE DEF events
<1>5. events \in Seq({events[i] : i \in 1..n})
  <2>1. events = [i \in 1..n |-> events[i]]
    BY DEF events
  <2> QED
    BY <2>1
<1> QED
  BY <1>2, <1>3, <1>4, <1>5, NewTraceIsMade

(* However often a trace is stored and read back, and wherever its document *)
(* was respelled meanwhile, its document is read back as that very trace,   *)
(* or refused if a key of it has a text that is not valid UTF-8, and no     *)
(* other spelling is read as that trace (tuittest/trace.go:113-117,         *)
(* trace_json.go:71-97).                                                    *)
THEOREM StoredTracesAreExact == JsonSpec => []TraceJsonIsExact
<1>1. JsonInit => RecordedInv
  BY DEF JsonInit, RecordedInv
<1>2. RecordedInv /\ [JsonNext]_recorded => RecordedInv'
  <2> SUFFICES ASSUME RecordedInv, [JsonNext]_recorded
               PROVE  RecordedInv'
    OBVIOUS
  <2>1. CASE Record
    <3>1. PICK recording \in Recordings :
            recorded' = NewTrace(recording.options, recording.events)
      BY <2>1 DEF Record
    <3>2. /\ recording.options \in TraceOptions /\ recording.events \in Seq(Recordable)
          /\ \A i \in DOMAIN recording.events : EventShape(recording.events[i])
      BY RecordingAssumption
    <3>3. \A t \in recorded' : MadeByNewTrace(t)
      BY <3>1, <3>2, NewTraceIsMade
    <3> QED
      BY <3>3 DEF RecordedInv
  <2>2. CASE Reload
    <3>1. PICK t \in recorded : \E d \in Documents(t) : recorded' = ParseTrace(d)
      BY <2>2 DEF Reload
    <3>2. PICK d \in Documents(t) : recorded' = ParseTrace(d)
      BY <3>1
    <3>3. MadeByNewTrace(t)
      BY DEF RecordedInv
    <3>4. d.options \in TraceOptions /\ \E n \in Nat : DOMAIN d.events = 1..n
      BY <3>3, DocumentsListEvents
    <3>5. \A u \in recorded' : MadeByNewTrace(u)
      BY <3>2, <3>4, ReadTraceIsMade
    <3> QED
      BY <3>5 DEF RecordedInv
  <2>3. CASE UNCHANGED recorded
    BY <2>3 DEF RecordedInv
  <2> QED
    BY <2>1, <2>2, <2>3 DEF JsonNext
<1>3. RecordedInv => TraceJsonIsExact
  <2> SUFFICES ASSUME RecordedInv, NEW t \in recorded
               PROVE  JsonIsExact(t)
    BY DEF TraceJsonIsExact
  <2>1. MadeByNewTrace(t)
    BY DEF RecordedInv
  <2> QED
    BY <2>1, CanonicalJsonIsExact DEF MadeByNewTrace
<1> QED
  BY <1>1, <1>2, <1>3, PTL DEF JsonSpec

=============================================================================
