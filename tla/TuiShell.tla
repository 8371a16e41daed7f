------------------------------ MODULE TuiShell ------------------------------
(***************************************************************************)
(* One run of the terminal shell: bubbleShell.Run (presentation/shell.go), *)
(* the session adapter (presentation/effects.go), the session itself and   *)
(* the Bubble Tea program that drives PresentationModel.                   *)
(*                                                                         *)
(* The program handles one message at a time.  Every command runs in a     *)
(* goroutine of its own, calls the session there, and sends its message    *)
(* when it is done: messages arrive in any order, late ones are dropped    *)
(* once the program's context is done.  The session is free to answer late *)
(* or never, to fail, and to break the order of revisions.                 *)
(* The command of Model.Init is handed over beside the loop, so it is      *)
(* started from the beginning.  One goroutine of the program listens for   *)
(* SIGINT and SIGTERM; Program.Run does not return before it has ended.    *)
(***************************************************************************)
EXTENDS PresentationModel

CONSTANTS
  Keys,        \* the keys the user presses
  Sizes,       \* the terminal sizes reported, <<width, height>>
  Updates      \* what Session.Receive may return

ASSUME TuiShellAssumption ==
  /\ Keys \subseteq DOMAIN KeyText
  /\ Sizes \subseteq Int \X Int
  /\ Updates \subseteq
       [kind : {"snapshot"}, revision : Nat, workspace : Workspace, status : Status,
        activity : Seq(Item), history : Seq(Text)]
       \cup [kind : {"activity"}, revision : Nat, item : Item]
       \cup [kind : {"prompt-history"}, revision : Nat, history : Seq(Text)]

VARIABLES
  tasks,        \* the goroutines of the commands that were started
  callerDone,   \* the caller of Run cancelled its context
  runDone,      \* the context of this run is done, for program and session
  signal,       \* the listener for signals: waiting, what it has to send, or done
  loop,         \* the event loop: running, or why it ended
  programErr,   \* what Program.Run is going to return
  callerErr,    \* what the caller's context said once Program.Run had returned
  result,       \* what bubbleShell.Run returned
  quitAsked     \* history: the quit command has run

endVars     == <<callerDone, runDone, signal, loop, programErr, callerErr, result, quitAsked>>
runtimeVars == <<tasks, endVars>>
vars == <<modelVars, runtimeVars>>

-----------------------------------------------------------------------------
(* Goroutines *)

(* A task is cleared once the adapter has looked at its context. *)
Stages == {"started", "cleared", "calling", "returned"}

Task(kind, token, prompt, stage, reply) ==
  [kind |-> kind, token |-> token, prompt |-> prompt, stage |-> stage, reply |-> reply]

LaneOf(kind) ==
  CASE kind = "receive"       -> "receive"
    [] kind \in PromptActions -> "ordinary"
    [] kind = "cancel"        -> "cancel"
    [] OTHER                  -> "none"

Lanes == {"receive", "ordinary", "cancel"}

InLane(lane) == {t \in tasks : LaneOf(t.kind) = lane}

(* The reply of a call that failed, for any reason the model does not see. *)
Failure(kind) == IF kind = "receive" THEN NoUpdate ELSE NoResult

(* What a call may come back with.  The adapter turns a panic, an invalid   *)
(* update and an invalid or nested result into an error; a value returned   *)
(* with no error is passed on even when the context is done by then.        *)
Replies(kind) ==
  {Failure(kind)} \cup
  (IF kind = "receive" THEN {u \in Updates : ValidUpdate(u)} ELSE Result)

Replace(task, stage, reply) ==
  tasks' = (tasks \ {task}) \cup {Task(task.kind, task.token, task.prompt, stage, reply)}

TaskOf(cmd) == Task(cmd.kind, cmd.token, cmd.prompt, "started", Failure(cmd.kind))

-----------------------------------------------------------------------------
Init ==
  /\ InitModel
  /\ tasks = {TaskOf(InitCommand)}
  /\ callerDone = FALSE /\ runDone = FALSE /\ quitAsked = FALSE
  /\ signal = "waiting"
  /\ loop = "running" /\ programErr = "none" /\ callerErr = "unread" /\ result = "none"

(* The loop takes no message before it has handed over the last command.   *)
Accepting == loop = "running" /\ command = NoCommand

-----------------------------------------------------------------------------
(* The event loop *)

(* handleCommands starts a goroutine for the command Update returned. *)
StartCommand ==
  /\ loop = "running" /\ command # NoCommand
  /\ tasks' = tasks \cup {TaskOf(command)}
  /\ command' = NoCommand
  /\ UNCHANGED <<viewVars, promptVars, receiveVars, operationVars, cancelVars,
                 lastResult, size, endVars>>

Press(key) ==
  /\ Accepting
  /\ UpdateKey(key)
  /\ UNCHANGED runtimeVars

TerminalResized(width, height) ==
  /\ Accepting
  /\ Resize(width, height)
  /\ UNCHANGED runtimeVars

(* The message of a finished command reaches Update. *)
Deliver(task) ==
  /\ Accepting
  /\ task.stage = "returned"
  /\ \/ /\ LaneOf(task.kind) = "receive"
        /\ CompleteReceive(task.token, task.reply)
        /\ UNCHANGED loop
     \/ /\ LaneOf(task.kind) = "ordinary"
        /\ CompleteOperation(task.token, task.reply)
        /\ UNCHANGED loop
     \/ /\ LaneOf(task.kind) = "cancel"
        /\ CompleteCancel(task.token, task.reply)
        /\ UNCHANGED loop
     \/ /\ task.kind = "quit"
        /\ loop' = "quit"
        /\ UNCHANGED modelVars
  /\ tasks' = tasks \ {task}
  /\ UNCHANGED <<callerDone, runDone, signal, programErr, callerErr, result, quitAsked>>

(* Ways out of the loop that no command brings. *)
EndLoop(reason) ==
  /\ loop' = reason
  /\ UNCHANGED <<modelVars, tasks, callerDone, runDone, programErr, callerErr, result, quitAsked>>

(* A seeded defect: the loop waits for the commands before it gives up. *)
ContextEndsIdleLoop ==
  loop = "running" /\ runDone /\ tasks = {} /\ EndLoop("context") /\ UNCHANGED signal

ContextEndsLoop == loop = "running" /\ runDone /\ EndLoop("context") /\ UNCHANGED signal

(* A read error of the terminal, or a panic of Update or View; an error the *)
(* loop did not come to is found when it has ended without one.             *)
ProgramFails ==
  /\ Accepting \/ (loop \in {"quit", "context"} /\ programErr = "none")
  /\ EndLoop("failed")
  /\ UNCHANGED signal

(* The context of the program, a child of the run's. *)
ProgramDone == runDone \/ programErr # "none"

-----------------------------------------------------------------------------
(* Signals: the listener takes one, and sends its message with no way out.  *)

SignalMessages == {"interrupt", "terminate"}

SignalArrives(message) ==
  /\ signal = "waiting"
  /\ signal' = message
  /\ UNCHANGED <<modelVars, tasks, callerDone, runDone, loop, programErr, callerErr,
                 result, quitAsked>>

(* SIGINT is an error of the program, SIGTERM a plain quit. *)
TakeSignal ==
  /\ Accepting
  /\ signal \in SignalMessages
  /\ signal' = "done"
  /\ EndLoop(IF signal = "interrupt" THEN "interrupted" ELSE "quit")

ListenerEnds ==
  /\ signal = "waiting" /\ ProgramDone
  /\ signal' = "done"
  /\ UNCHANGED <<modelVars, tasks, callerDone, runDone, loop, programErr, callerErr,
                 result, quitAsked>>

(* It holds a signal that no loop will take any more. *)
ListenerStuck == signal \in SignalMessages /\ loop # "running"

-----------------------------------------------------------------------------
(* Command goroutines and the session *)

(* The adapter refuses to call once the context is done. *)
MayCall == ~runDone

(* The look at the context; the call is a step of its own. *)
Check(task) ==
  /\ task.stage = "started" /\ task.kind # "quit"
  /\ Replace(task, IF MayCall THEN "cleared" ELSE "returned", task.reply)
  /\ UNCHANGED <<modelVars, endVars>>

Call(task) ==
  /\ task.stage = "cleared"
  /\ Replace(task, "calling", task.reply)
  /\ UNCHANGED <<modelVars, endVars>>

SessionReturns(task, reply) ==
  /\ task.stage = "calling"
  /\ Replace(task, "returned", reply)
  /\ UNCHANGED <<modelVars, endVars>>

(* quitCommand cancels the run, then asks the program to quit. *)
QuitRuns(task) ==
  /\ task.stage = "started" /\ task.kind = "quit"
  /\ runDone' = TRUE /\ quitAsked' = TRUE
  /\ Replace(task, "returned", task.reply)
  /\ UNCHANGED <<modelVars, callerDone, signal, loop, programErr, callerErr, result>>

(* Program.Send gives up once the program's context is done, and so does   *)
(* the hand-over of the first command.                                     *)
Drop(task) ==
  /\ ProgramDone
  /\ task.stage = "returned" \/ task = TaskOf(InitCommand)
  /\ tasks' = tasks \ {task}
  /\ UNCHANGED <<modelVars, endVars>>

-----------------------------------------------------------------------------
(* Shutdown *)

CallerCancels ==
  /\ result = "none" /\ ~callerDone
  /\ callerDone' = TRUE
  /\ UNCHANGED <<modelVars, tasks, runDone, signal, loop, programErr, callerErr, result, quitAsked>>

(* The cancellation of the caller's context reaches the derived one. *)
CancellationSpreads ==
  /\ callerDone /\ ~runDone
  /\ runDone' = TRUE
  /\ UNCHANGED <<modelVars, tasks, callerDone, signal, loop, programErr, callerErr, result, quitAsked>>

(* Anything but a plain quit of a live program is a kill.  The program's    *)
(* own context ends here, before its handlers are waited for.               *)
ShutDown ==
  /\ loop # "running" /\ programErr = "none"
  /\ programErr' = IF loop = "quit" /\ ~runDone THEN "nil" ELSE "killed"
  /\ UNCHANGED <<modelVars, tasks, callerDone, runDone, signal, loop, callerErr, result, quitAsked>>

(* A seeded defect: the goroutines of the commands are waited for, too. *)
CommandsDone == signal = "done" /\ tasks = {}

(* The other handlers end with the context of the program. *)
HandlersDone == signal = "done"

(* Program.Run returns, and Run looks at the context of its caller first. *)
ProgramReturns ==
  /\ programErr # "none" /\ HandlersDone
  /\ callerErr = "unread"
  /\ callerErr' = IF callerDone THEN "done" ELSE "none"
  /\ UNCHANGED <<modelVars, tasks, callerDone, runDone, signal, loop, programErr, result, quitAsked>>

(* A seeded defect: the run's own cancellation is looked at first. *)
OutcomeByRun ==
  IF runDone /\ programErr = "killed" THEN "nil"
  ELSE IF callerErr = "done" THEN "caller" ELSE IF programErr = "nil" THEN "nil" ELSE "error"

(* A seeded defect: a killed program is always an error. *)
OutcomeStrict ==
  IF callerErr = "done" THEN "caller" ELSE IF programErr = "nil" THEN "nil" ELSE "error"

(* A seeded defect: a killed program is never an error. *)
OutcomeQuiet == IF callerErr = "done" THEN "caller" ELSE "nil"

Outcome ==
  IF callerErr = "done" THEN "caller"
  ELSE IF programErr = "nil" \/ runDone THEN "nil"
  ELSE "error"

(* A seeded defect: the run's context outlives the run. *)
ReturnWithoutCancel ==
  /\ callerErr # "unread" /\ result = "none"
  /\ result' = Outcome
  /\ UNCHANGED <<modelVars, tasks, callerDone, runDone, signal, loop, programErr, callerErr, quitAsked>>

(* bubbleShell.Run looks at the run's context, which may have been          *)
(* cancelled since, and returns; its deferred cancel ends that context.     *)
ShellReturns ==
  /\ callerErr # "unread" /\ result = "none"
  /\ result' = Outcome
  /\ runDone' = TRUE
  /\ UNCHANGED <<modelVars, tasks, callerDone, signal, loop, programErr, callerErr, quitAsked>>

-----------------------------------------------------------------------------
User == \/ \E key \in Keys : Press(key)
        \/ \E s \in Sizes : TerminalResized(s[1], s[2])

Outside == CallerCancels \/ ProgramFails \/ \E message \in SignalMessages : SignalArrives(message)

Program ==
  \/ StartCommand \/ ContextEndsLoop \/ CancellationSpreads
  \/ TakeSignal \/ ListenerEnds \/ ShutDown \/ ProgramReturns \/ ShellReturns
  \/ \E task \in tasks :
       Check(task) \/ Call(task) \/ QuitRuns(task) \/ Deliver(task) \/ Drop(task)

SessionAnswers ==
  \E task \in tasks : \E reply \in Replies(task.kind) : SessionReturns(task, reply)

(* No command is left behind, and Run has returned or never will. *)
Finished ==
  /\ result # "none" \/ ListenerStuck
  /\ tasks = {}
  /\ UNCHANGED vars

Next == User \/ Outside \/ Program \/ SessionAnswers \/ Finished

Spec == Init /\ [][Next]_vars

(* The same shell while nobody ends it, for runs that look at long sessions. *)
OpenSpec == Init /\ [][User \/ Program \/ SessionAnswers]_vars

-----------------------------------------------------------------------------
(* Fairness: the Go scheduler runs every goroutine, and a goroutine blocked *)
(* in a send is served in order of arrival by the channel, however many     *)
(* keys compete with it; a signal and a quit end the loop alike, so one of  *)
(* them is enough.  Nothing is asked of the user.                           *)
ProgramFairness ==
  /\ WF_vars(StartCommand) /\ WF_vars(ContextEndsLoop) /\ WF_vars(CancellationSpreads)
  /\ WF_vars(ListenerEnds)
  /\ WF_vars(ShutDown) /\ WF_vars(ProgramReturns) /\ WF_vars(ShellReturns)
  /\ WF_vars(\E task \in tasks : QuitRuns(task))
  /\ WF_vars(\E task \in tasks : Drop(task))
  /\ \A lane \in Lanes : WF_vars(\E task \in InLane(lane) : Check(task) \/ Call(task))
  /\ \A lane \in Lanes : SF_vars(\E task \in InLane(lane) : Deliver(task))
  /\ SF_vars(TakeSignal \/ \E task \in InLane("none") : Deliver(task))

(* A session that honours its context answers once it is cancelled. *)
HonoursCancellation ==
  WF_vars(runDone /\ SessionAnswers)

(* A session that answers every operation, though perhaps never an update. *)
AnswersOperations ==
  \A lane \in {"ordinary", "cancel"} :
    WF_vars(\E task \in InLane(lane) : \E reply \in Replies(task.kind) :
              SessionReturns(task, reply))

FairSpec == Spec /\ ProgramFairness

-----------------------------------------------------------------------------
(* Properties *)

Loops == {"running", "quit", "interrupted", "failed", "context"}

Kinds == {"receive", "cancel", "quit"} \cup PromptActions

Commands == {NoCommand} \cup [kind : Kinds, token : 0..MaxToken, prompt : Text]

ViewTypes ==
  /\ workspace \in Workspace /\ status \in Status /\ activity \in Seq(Item)
  /\ revision \in Nat
  /\ lastResult \in Result \cup {NoResult}
  /\ size \in [width : 1..MaxWidth, height : 1..MaxHeight]

PromptTypes ==
  /\ editor \in Editor /\ historyDraft \in Editor
  /\ promptHistory \in Seq(Text) /\ historyIndex \in Int
  /\ pendingPrompt \in Text

LaneTypes ==
  /\ {receiveToken, operationToken, cancelToken} \subseteq 0..MaxToken
  /\ {receiveArmed, operationActive, cancelActive} \subseteq BOOLEAN
  /\ command \in Commands

TaskTypes ==
  \A t \in tasks :
    /\ t = Task(t.kind, t.token, t.prompt, t.stage, t.reply)
    /\ t.kind \in Kinds /\ t.token \in 0..MaxToken /\ t.prompt \in Text
    /\ t.stage \in Stages /\ t.reply \in Replies(t.kind)

RunTypes ==
  /\ callerDone \in BOOLEAN /\ runDone \in BOOLEAN /\ quitAsked \in BOOLEAN
  /\ signal \in {"waiting", "done"} \cup SignalMessages
  /\ loop \in Loops
  /\ programErr \in {"none", "nil", "killed"}
  /\ callerErr \in {"unread", "none", "done"}
  /\ result \in {"none", "nil", "caller", "error"}

TypeOK == ViewTypes /\ PromptTypes /\ LaneTypes /\ TaskTypes /\ RunTypes

(* What is in flight in a lane: goroutines and the command about to start. *)
Requests(lane) == InLane(lane) \cup {c \in {command} : LaneOf(c.kind) = lane}

Current(lane) ==
  CASE lane = "receive"  -> [active |-> receiveArmed, token |-> receiveToken]
    [] lane = "ordinary" -> [active |-> operationActive, token |-> operationToken]
    [] lane = "cancel"   -> [active |-> cancelActive, token |-> cancelToken]

(* At most one request of each lane is in flight, and it is the one the     *)
(* model is waiting for: no call overlaps another of its lane and no answer *)
(* is ever taken for the answer of a later request (session.go:13-16).      *)
LanesSerialized ==
  \A lane \in Lanes :
    /\ \A r1, r2 \in Requests(lane) : r1 = r2
    /\ \A r \in Requests(lane) : Current(lane).active /\ r.token = Current(lane).token

(* While the program lives, a lane that waits has something to wait for: no *)
(* order of keys, answers and failures leaves Enter, Escape or the receive  *)
(* loop blocked for good (model.go:339, 352, 422).                          *)
NoLostLane ==
  loop = "running" /\ ~runDone =>
    \A lane \in Lanes : Current(lane).active => Requests(lane) # {}

(* The history is capped, and the place in it is one of its entries         *)
(* whatever replaced or trimmed it meanwhile: promptHistory[historyIndex]   *)
(* never panics (model.go:307, 386).                                        *)
HistoryIndexInRange ==
  /\ Len(promptHistory) <= MaxHistory
  /\ historyIndex \in -1..(Len(promptHistory) - 1)

(* What the user edits, and the draft kept while browsing the history, is   *)
(* bounded and has its cursor on a boundary, whatever was typed, recalled,  *)
(* replaced or cleared: an editor that is not refuses every further text    *)
(* and hides the view (editor.go:47, 59; values.go:420).                    *)
PromptIsUsable == ValidEditor(editor) /\ ValidEditor(historyDraft)

(* The activity window stays within its bounds whatever is appended to it    *)
(* and whatever snapshot it starts from (values.go:423-441, model.go:264).  *)
WindowIsBounded ==
  /\ Len(activity) <= MaxActivity
  /\ Weight[workspace] + ActivityWeight(activity) <= MaxView

(* Both lists the model keeps, whatever trims or replaces them. *)
ListsAreBounded == HistoryIndexInRange /\ WindowIsBounded

(* SECURITY.md:16: the oldest activity is evicted before the bounds of the  *)
(* view can be exceeded, so that there is always a view to render.          *)
ViewIsRenderable == ViewFits(workspace, status, editor, activity)

(* editor.go:171: the history key selects the entry before the one shown.   *)
PreviousIsBefore ==
  [][\A key \in Keys \cap DOMAIN Bindings : \A k \in 2..Len(promptHistory) :
       /\ Bindings[key] = "history-previous" /\ Press(key)
       /\ historyIndex >= 0
       /\ {i \in DOMAIN promptHistory : promptHistory[i] = editor.value} = {k}
       => editor'.value = promptHistory[k - 1]]_vars

(* A receive loop that has stopped says so: until the program ends the      *)
(* status is the error, whatever else completes (model.go:425-436).         *)
StopIsVisible == ~receiveArmed /\ receiveToken < MaxToken => status = ErrorStatus

(* What the user typed: the prompt, or the draft kept while a text of the  *)
(* history is shown in its place.                                           *)
OwnText == IF historyIndex < 0 THEN editor.value ELSE historyDraft.value

(* The answer of a call that succeeded clears the prompt it was made with. *)
ClearsAccepted ==
  \E task \in InLane("ordinary") :
    /\ Deliver(task) /\ task.reply # NoResult
    /\ editor.value = task.prompt /\ editor'.value = << >>

EditsText ==
  \E key \in Keys :
    Press(key) /\ (key \in DOMAIN Bindings => Bindings[key] = "backspace")

(* A new history takes what is shown of the old one for the user's own. *)
AdoptsShownEntry ==
  \E task \in InLane("receive") :
    /\ Deliver(task) /\ task.reply.kind \in {"snapshot", "prompt-history"}
    /\ historyIndex >= 0 /\ OwnText' = editor.value

(* No failure, update or late answer loses what was typed: the prompt       *)
(* changes only under the user's keys, or when the session has accepted the *)
(* very text it shows; and browsing the history and coming back finds the   *)
(* draft as it was left, unless the history was replaced meanwhile or the   *)
(* entry shown was the accepted text (model.go:258, 279, 289-312, 364-400). *)
DraftIsKept ==
  [][/\ editor'.value # editor.value => (\E key \in Keys : Press(key)) \/ ClearsAccepted
     /\ OwnText' # OwnText => EditsText \/ ClearsAccepted \/ AdoptsShownEntry]_vars

(* The history gains the prompt that the session accepted, the one its call *)
(* was made with, once and at its end; a call that failed adds nothing, and *)
(* only an update of the session changes the history otherwise              *)
(* (model.go:256, 277, 371-396).                                            *)
AddsAccepted ==
  \E task \in InLane("ordinary") :
    /\ Deliver(task) /\ task.reply # NoResult
    /\ promptHistory' = Remember(promptHistory, task.prompt)

TakesHistory ==
  \E task \in InLane("receive") :
    /\ Deliver(task) /\ task.reply.kind \in {"snapshot", "prompt-history"}
    /\ promptHistory' = task.reply.history

HistoryFollowsSession ==
  [][/\ \A task \in InLane("ordinary") :
          Deliver(task) =>
            promptHistory' = IF task.reply = NoResult THEN promptHistory
                             ELSE Remember(promptHistory, task.prompt)
     /\ promptHistory' # promptHistory => AddsAccepted \/ TakesHistory]_vars

(* Everything shown from the session is from one update newer than all that *)
(* were shown before (session.go:11-13, model.go:244).                      *)
ShownRevisionsIncrease ==
  [][<<workspace, activity, revision>>' # <<workspace, activity, revision>> =>
       revision' > revision]_vars

(* An error is a failure of the terminal or an interrupt, never a normal    *)
(* quit or a cancellation (shell.go:47-55).                                 *)
ErrorMeansFailure == result = "error" => loop \in {"failed", "interrupted"}

(* A failure is reported as one, unless a quit had been asked for or the    *)
(* caller had cancelled before Run looked at its own context: the code then *)
(* takes the failure for a consequence and returns nil, or the caller's     *)
(* error (shell.go:49-54).                                                  *)
FailureIsReported ==
  /\ result # "none" /\ loop \in {"failed", "interrupted"}
  /\ ~quitAsked /\ ~callerDone
  => result = "error"

(* A run that only the caller ended returns the error of its context. *)
CallerIsTold ==
  result # "none" /\ loop = "context" /\ ~quitAsked => result = "caller"

(* What Run returns tells a failure, a cancellation and a quit apart, where *)
(* they do not race each other.                                             *)
ReturnIsHonest ==
  /\ ErrorMeansFailure /\ FailureIsReported /\ CallerIsTold
  /\ result = "caller" => callerDone
  /\ result = "nil" => loop = "quit" \/ quitAsked \/ callerDone

(* The operations whose call may be in progress or may yet begin. *)
MayStillCall(set) ==
  {<<t.kind, t.token>> : t \in {u \in set : u.stage \in {"cleared", "calling"}}}

(* Once Run has returned nothing more passes the adapter's look at the      *)
(* context: the goroutines of the run that are left behind begin no call,   *)
(* but for those that had passed it before (shell.go:41; effects.go:48,     *)
(* 80).                                                                     *)
NoCallAfterRun ==
  [][result # "none" => MayStillCall(tasks') \subseteq MayStillCall(tasks)]_vars

(* The shell implements the contract of its session. *)
PhaseOf(lane) ==
  IF \E t \in InLane(lane) : t.stage = "calling" THEN "calling"
  ELSE IF \E r \in Requests(lane) : r.kind # "quit" /\ ~(r \in tasks /\ r.stage = "returned")
       THEN "requested" ELSE "idle"

(* The stream is open while a receive is in flight that has not failed. *)
StreamOpen ==
  \E r \in Requests("receive") : ~(r \in tasks /\ r.stage = "returned" /\ r.reply = NoUpdate)

Contract == INSTANCE SessionContract WITH
  phase <- [lane \in Lanes |-> PhaseOf(lane)],
  open  <- StreamOpen

ImplementsContract == Contract!Spec

(* What must bring Run to its end. *)
Ending ==
  \/ callerDone \/ loop # "running" \/ signal \in SignalMessages
  \/ \E task \in tasks : task.kind = "quit"

(* Quitting works however busy the session is: once the quit command runs,  *)
(* a signal is taken, the program fails or the caller cancels, Run returns, *)
(* even if no call of the session ever does, unless the listener is stuck   *)
(* with a signal that came too late (model.go:184, shell.go:40-44).         *)
RunReturns == Ending ~> (result # "none" \/ ListenerStuck)

(* contracts.go:5: "Implementations must honor cancellation". *)
CancellationIsHonoured == callerDone ~> result # "none"

(* Every operation sent is settled while the program lives, if the session  *)
(* answers its operations (model.go:370).                                   *)
OperationSettles ==
  AnswersOperations => (operationActive ~> (~operationActive \/ loop # "running"))

(* No goroutine outlives the run for ever, given a session that honours its *)
(* context (effects.go:47, 80).                                             *)
GoroutinesEnd == HonoursCancellation => ((result # "none") ~> (tasks = {}))

=============================================================================
