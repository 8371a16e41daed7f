----------------------------- MODULE TestDriver -----------------------------
(***************************************************************************)
(* The scripted driver of tuittest (driver.go), over the model of          *)
(* PresentationModel and the scripted session of tuittest/session.go.      *)
(*                                                                         *)
(* The driver is called by one goroutine.  A key may return a command; the *)
(* driver then runs it in a goroutine of its own, the worker, and waits    *)
(* for its message or for the drain timeout, whichever select sees first.  *)
(* After a timeout the driver is closed and the worker is left behind.     *)
(*                                                                         *)
(* Receive is not part of the driver, which never runs Model.Init.  Quit   *)
(* strokes are recognised by name before their command is run; the         *)
(* bindings are assumed to bind them to quit, and no other key.            *)
(***************************************************************************)
EXTENDS PresentationModel

CONSTANTS
  QuitStrokes,     \* "ctrl+c" and "ctrl+q" in Driver.apply
  Lowered,         \* [spelling of a stroke -> the stroke], trimmed and lowered
  KeyOf,           \* [stroke that names a key -> that key]
  TextStrokes,     \* strokes that ask for a text
  KeyTyping,       \* [text that textKey accepts -> the key that types it]
  FirstStroke      \* [action -> the first stroke bound to it]

ASSUME DriverAssumption ==
  /\ \A key \in DOMAIN Bindings : Bindings[key] = "quit" <=> key \in QuitStrokes
  /\ \A s \in DOMAIN KeyOf : KeyOf[s] \in DOMAIN KeyText
  /\ \A text \in DOMAIN KeyTyping : KeyTyping[text] \in DOMAIN KeyText
  /\ DOMAIN FirstStroke = BoundActions
  /\ \A act \in BoundActions : FirstStroke[act] \in DOMAIN Bindings

NoText == ""

VARIABLES
  closed, lastQuit, contextDone,   \* Driver, and its lifecycle context
  keys,                            \* keys of the current call, still to press
  drain,                           \* where the drain of a command is
  failure,                         \* the error of the current call
  worker,                          \* the goroutine that runs the command
  performResult, intents           \* ScriptSession

sessionVars == <<performResult, intents>>
callVars    == <<keys, drain, failure>>
driverVars  == <<closed, lastQuit, contextDone, callVars, worker, sessionVars>>

Returned == keys = << >> /\ drain = "none"

NoWorker == [at |-> "none", task |-> NoCommand, answer |-> NoResult]

(* NewDriver over a NewScriptSession, for a terminal of the given size. *)
NewDriver(width, height) ==
  /\ NewModel /\ size = BoundedSize(width, height)
  /\ closed = FALSE /\ lastQuit = FALSE /\ contextDone = FALSE
  /\ keys = << >> /\ drain = "none" /\ failure = "none"
  /\ worker = NoWorker
  /\ performResult = NoResult /\ intents = << >>

(* The same, as the step that builds another driver and session. *)
AnotherDriver(width, height) ==
  /\ workspace' = InitialWorkspace /\ status' = InitialStatus
  /\ activity' = << >> /\ revision' = 0
  /\ editor' = ZeroEditor /\ promptHistory' = << >>
  /\ historyIndex' = -1 /\ historyDraft' = ZeroEditor
  /\ receiveToken' = 1 /\ receiveArmed' = TRUE
  /\ operationToken' = 0 /\ operationActive' = FALSE /\ pendingPrompt' = << >>
  /\ cancelToken' = 0 /\ cancelActive' = FALSE
  /\ lastResult' = NoResult /\ command' = NoCommand
  /\ size' = BoundedSize(width, height)
  /\ closed' = FALSE /\ lastQuit' = FALSE /\ contextDone' = FALSE
  /\ keys' = << >> /\ drain' = "none" /\ failure' = "none"
  /\ worker' = NoWorker

-----------------------------------------------------------------------------
(* Calls of the driver *)

(* keyPress and teaKey: a stroke that names a key presses it, whatever the  *)
(* text; "text" types the text; any other stroke types the text it has or,  *)
(* without one, itself.                                                     *)
TextOf(stroke, text) == IF text = NoText /\ stroke \notin TextStrokes THEN stroke ELSE text

ValidKey(spelling, text) ==
  /\ spelling \in DOMAIN Lowered
  /\ \/ Lowered[spelling] \in DOMAIN KeyOf
     \/ TextOf(Lowered[spelling], text) \in DOMAIN KeyTyping \ {NoText}

KeyPress(spelling, text) ==
  LET stroke == Lowered[spelling]
  IN  IF stroke \in DOMAIN KeyOf THEN KeyOf[stroke] ELSE KeyTyping[TextOf(stroke, text)]

(* One key of Type, Key or Action.  A quit stroke closes the driver and its *)
(* command is dropped; any other command is drained.                       *)
Press ==
  /\ keys # << >> /\ drain = "none"
  /\ ~closed
  /\ UpdateKey(Head(keys))
  /\ LET quits == command'.kind # "none" /\ Head(keys) \in QuitStrokes
     IN  /\ lastQuit' = quits
         /\ closed' = quits
         /\ contextDone' = (contextDone \/ quits)
         /\ drain' = IF command'.kind = "none" \/ quits THEN "none" ELSE "next"
  /\ keys' = Tail(keys)
  /\ UNCHANGED <<failure, worker, sessionVars>>

(* ErrDriverClosed ends the call. *)
PressClosed ==
  /\ keys # << >> /\ drain = "none"
  /\ closed
  /\ failure' = "closed"
  /\ keys' = << >>
  /\ UNCHANGED <<modelVars, closed, lastQuit, contextDone, drain, worker, sessionVars>>

(* InjectUpdate: an update that is not newer is taken and changes nothing. *)
InjectUpdate(update) ==
  /\ \/ /\ Fresh(update)
        /\ ApplySessionUpdate(update)
        /\ UNCHANGED <<receiveVars, operationVars, cancelVars, lastResult>>
        /\ command' = NoCommand
     \/ ~Fresh(update) /\ Ignore
  /\ lastQuit' = FALSE
  /\ UNCHANGED size

-----------------------------------------------------------------------------
(* The drain and its worker *)

StartWorker ==
  /\ drain = "next"
  /\ drain' = "wait"
  /\ worker' = [at |-> "called", task |-> command, answer |-> NoResult]
  /\ UNCHANGED <<modelVars, closed, lastQuit, contextDone, keys, failure, sessionVars>>

(* A seeded defect: the timeout is not returned. *)
SwallowTimeout ==
  /\ drain \in {"next", "wait"}
  /\ drain' = "none"
  /\ UNCHANGED <<modelVars, closed, contextDone, failure, keys, lastQuit, worker, sessionVars>>

(* The drain timeout, before the command was started or while it runs. *)
TimeOut ==
  /\ drain \in {"next", "wait"}
  /\ drain' = "none"
  /\ closed' = TRUE /\ contextDone' = TRUE
  /\ failure' = "timeout"
  /\ keys' = << >>
  /\ UNCHANGED <<modelVars, lastQuit, worker, sessionVars>>

(* A seeded defect: an answer is applied whether or not the drain waits. *)
ApplyLateAnswer ==
  /\ worker.at = "answered"
  /\ IF worker.task.kind = "cancel"
     THEN CompleteCancel(worker.task.token, worker.answer)
     ELSE CompleteOperation(worker.task.token, worker.answer)
  /\ drain' = "none"
  /\ worker' = NoWorker
  /\ UNCHANGED <<closed, lastQuit, contextDone, keys, failure, sessionVars>>

(* The message of the worker, applied to the model; none has a command. *)
ApplyAnswer ==
  /\ drain = "wait" /\ worker.at = "answered"
  /\ IF worker.task.kind = "cancel"
     THEN CompleteCancel(worker.task.token, worker.answer)
     ELSE CompleteOperation(worker.task.token, worker.answer)
  /\ drain' = "none"
  /\ worker' = NoWorker
  /\ UNCHANGED <<closed, lastQuit, contextDone, keys, failure, sessionVars>>

(* Perform of the effects and of the session look at the context first. *)
CheckContext ==
  /\ worker.at = "called"
  /\ worker' = [worker EXCEPT !.at = IF contextDone THEN "answered" ELSE "checked"]
  /\ UNCHANGED <<modelVars, closed, lastQuit, contextDone, callVars, sessionVars>>

(* ScriptSession.Perform under its lock; no configured result is an error. *)
PerformScripted ==
  /\ worker.at = "checked"
  /\ intents' = Append(intents, <<worker.task.kind, worker.task.prompt>>)
  /\ worker' = [worker EXCEPT !.at = "answered", !.answer = performResult]
  /\ UNCHANGED <<modelVars, closed, lastQuit, contextDone, callVars, performResult>>

DriverStep ==
  \/ Press \/ PressClosed
  \/ StartWorker \/ TimeOut \/ ApplyAnswer
  \/ CheckContext \/ PerformScripted
=============================================================================
