-------------------------- MODULE PresentationModel --------------------------
(***************************************************************************)
(* The Bubble Tea model of internal/presentation/model.go: its fields are  *)
(* the variables, and each handler of Model.Update is an action.  The      *)
(* command a handler returns is left in the variable command, for the      *)
(* program that runs the model (TuiShell) to pick up.                      *)
(*                                                                         *)
(* Three lanes talk to the session: receive, the ordinary operation        *)
(* (submit or respond) and cancel.  Each has a token and an in-flight flag. *)
(* Empty texts stand for Go's unset fields: an empty prompt is never sent. *)
(***************************************************************************)
EXTENDS PromptEditor, SequencesExt

CONSTANTS
  Workspace, Status, Item,  \* what a snapshot shows; an item of activity
  Weight,                   \* bytes of each of them in a view
  InitialWorkspace, InitialStatus,
  ErrorStatus,              \* effectErrorStatus: "operation failed; ..."
  Result, NoResult,         \* command results
  MaxView, MaxActivity, MaxHistory,   \* MaximumViewBytes, -ActivityItems, ...
  MaxToken,                 \* math.MaxUint64, where a lane stops
  Bindings,                 \* [key -> action], the collision-free bindings
  KeyText,                  \* [key -> text a key types, empty for none]
  MaxWidth, MaxHeight       \* MaximumWidth, MaximumHeight of a terminal

PromptActions == {"submit", "respond"}
CursorActions == {"cursor-left", "cursor-right", "cursor-start", "cursor-end"}
BoundActions  == PromptActions \cup CursorActions \cup
  {"quit", "cancel-active-run", "history-previous", "history-next", "backspace"}

ASSUME PresentationAssumption ==
  /\ ErrorStatus \in Status /\ InitialStatus \in Status
  /\ InitialWorkspace \in Workspace
  /\ Weight \in [Workspace \cup Status \cup Item -> Nat]
  /\ Weight[InitialWorkspace] + Weight[InitialStatus] <= MaxView   \* NewModel checks its first view
  /\ NoResult \notin Result
  /\ {MaxView, MaxActivity} \subseteq Nat
  /\ {MaxHistory, MaxToken} \subseteq Nat \ {0}
  /\ \A key \in DOMAIN Bindings : Bindings[key] \in BoundActions
  /\ \A key \in DOMAIN KeyText : KeyText[key] \in Text
  /\ {MaxWidth, MaxHeight} \subseteq Nat \ {0}

VARIABLES
  workspace, status, activity, revision,       \* what the session last said
  editor, promptHistory, historyIndex, historyDraft,
  receiveToken, receiveArmed,                  \* the receive lane
  operationToken, operationActive, pendingPrompt,   \* the ordinary lane
  cancelToken, cancelActive,                   \* the cancel lane
  lastResult,
  size,
  command                                      \* the tea.Cmd just returned

viewVars      == <<workspace, status, activity, revision>>
promptVars    == <<editor, promptHistory, historyIndex, historyDraft>>
receiveVars   == <<receiveToken, receiveArmed>>
operationVars == <<operationToken, operationActive, pendingPrompt>>
cancelVars    == <<cancelToken, cancelActive>>
modelVars     == <<viewVars, promptVars, receiveVars, operationVars, cancelVars,
                   lastResult, size, command>>

-----------------------------------------------------------------------------
(* Commands and updates *)

Command(kind, token, prompt) == [kind |-> kind, token |-> token, prompt |-> prompt]
NoCommand == Command("none", 0, << >>)

(* ViewData.Validate: the view is bounded in items and in bytes. *)
ActivityWeight(items) == FoldLeft(LAMBDA sum, item : sum + Weight[item], 0, items)

ViewFits(ws, st, ed, items) ==
  /\ ValidEditor(ed)
  /\ Len(items) <= MaxActivity
  /\ Weight[ws] + Weight[st] + Len(ed.value) + ActivityWeight(items) <= MaxView

ValidHistory(history) ==
  /\ Len(history) <= MaxHistory
  /\ \A i \in DOMAIN history : ValidPrompt(history[i])

NoUpdate == [kind |-> "none", revision |-> 0]

(* SessionUpdate.Validate.  A snapshot is sized with an empty prompt. *)
ValidUpdate(update) ==
  /\ update.revision > 0
  /\ update.kind = "snapshot" =>
       /\ ViewFits(update.workspace, update.status, ZeroEditor, update.activity)
       /\ ValidHistory(update.history)
  /\ update.kind = "prompt-history" => ValidHistory(update.history)

(* A seeded defect: an update of the current revision is taken again. *)
FreshOrCurrent(update) == update.revision >= revision

Fresh(update) == update.revision > revision

(* A seeded defect: the window is bounded in items only. *)
NewestActivity(items) ==
  IF Len(items) <= MaxActivity THEN items
  ELSE SubSeq(items, Len(items) - MaxActivity + 1, Len(items))

(* The longest suffix of the activity window that still fits the view. *)
FittingActivity(items) ==
  LET fits == {k \in 0..Len(items) :
                 \/ k = Len(items)
                 \/ ViewFits(workspace, status, editor, SubSeq(items, k + 1, Len(items)))}
      dropped == CHOOSE k \in fits : \A j \in fits : k <= j
  IN  SubSeq(items, dropped + 1, Len(items))

(* The history with an accepted prompt, cut to its newest entries. *)
Remember(history, prompt) ==
  LET longer == Append(history, prompt)
  IN  IF Len(longer) <= MaxHistory THEN longer
      ELSE SubSeq(longer, Len(longer) - MaxHistory + 1, Len(longer))

Clamp(n, limit) == IF n < 1 THEN 1 ELSE IF n > limit THEN limit ELSE n

BoundedSize(width, height) ==
  [width |-> Clamp(width, MaxWidth), height |-> Clamp(height, MaxHeight)]

-----------------------------------------------------------------------------
(* NewModel and Init *)

InitCommand == Command("receive", 1, << >>)

NewModel ==
  /\ workspace = InitialWorkspace /\ status = InitialStatus
  /\ activity = << >> /\ revision = 0
  /\ editor = ZeroEditor /\ promptHistory = << >>
  /\ historyIndex = -1 /\ historyDraft = ZeroEditor
  /\ receiveToken = 1 /\ receiveArmed = TRUE
  /\ operationToken = 0 /\ operationActive = FALSE /\ pendingPrompt = << >>
  /\ cancelToken = 0 /\ cancelActive = FALSE
  /\ lastResult = NoResult
  /\ command = NoCommand

InitModel == NewModel /\ size = BoundedSize(80, 24)

-----------------------------------------------------------------------------
(* Prompt history *)

(* The message or key is not for the model in its present state. *)
Ignore == UNCHANGED <<viewVars, promptVars, receiveVars, operationVars, cancelVars, lastResult>>
          /\ command' = NoCommand

(* Every change of the prompt that is only the editor's business. *)
Edit ==
  /\ UNCHANGED <<viewVars, promptHistory, receiveVars, operationVars, cancelVars, lastResult>>
  /\ command' = NoCommand

DetachHistory ==
  /\ historyIndex' = -1
  /\ historyDraft' = editor'

RecallEntry(index) ==
  /\ historyIndex' = index
  /\ editor' = NewEditor(promptHistory[index + 1])

(* A seeded defect: the draft is saved at every step back. *)
PreviousSaves ==
  /\ promptHistory # << >>
  /\ historyDraft' = editor
  /\ RecallEntry(IF historyIndex < 0 THEN Len(promptHistory) - 1
                 ELSE IF historyIndex = 0 THEN 0 ELSE historyIndex - 1)
  /\ Edit

HistoryPrevious ==
  /\ promptHistory # << >>
  /\ IF historyIndex < 0
     THEN /\ historyDraft' = editor
          /\ RecallEntry(Len(promptHistory) - 1)
     ELSE /\ RecallEntry(IF historyIndex = 0 THEN 0 ELSE historyIndex - 1)
          /\ UNCHANGED historyDraft
  /\ Edit

HistoryNext ==
  /\ promptHistory # << >>
  /\ historyIndex >= 0
  /\ IF historyIndex + 1 >= Len(promptHistory)
     THEN historyIndex' = -1 /\ editor' = historyDraft
     ELSE RecallEntry(historyIndex + 1)
  /\ UNCHANGED historyDraft
  /\ Edit

-----------------------------------------------------------------------------
(* Keys *)

(* A seeded defect: Enter is taken while an operation is in flight. *)
AlwaysFree == operationToken # MaxToken

OperationFree == ~operationActive /\ operationToken # MaxToken

(* A seeded defect: the cancel tokens are not bounded. *)
CancelUnbounded == ~cancelActive

CancelFree == ~cancelActive /\ cancelToken # MaxToken

(* Submit or respond: the prompt stays in the editor until it is accepted. *)
IssuePrompt(kind) ==
  /\ editor.value # << >>
  /\ OperationFree
  /\ operationToken' = operationToken + 1
  /\ operationActive' = TRUE
  /\ pendingPrompt' = editor.value
  /\ command' = Command(kind, operationToken + 1, editor.value)
  /\ UNCHANGED <<viewVars, promptVars, receiveVars, cancelVars, lastResult>>

IssueCancel ==
  /\ CancelFree
  /\ cancelToken' = cancelToken + 1
  /\ cancelActive' = TRUE
  /\ command' = Command("cancel", cancelToken + 1, << >>)
  /\ UNCHANGED <<viewVars, promptVars, receiveVars, operationVars, lastResult>>

Quit ==
  /\ UNCHANGED <<viewVars, promptVars, receiveVars, operationVars, cancelVars, lastResult>>
  /\ command' = Command("quit", 0, << >>)

Direction(action) ==
  CASE action = "cursor-left"  -> "left"
    [] action = "cursor-right" -> "right"
    [] action = "cursor-start" -> "start"
    [] action = "cursor-end"   -> "end"

MoveCursor(action) ==
  /\ editor' = Move(editor, Direction(action))
  /\ UNCHANGED <<historyIndex, historyDraft>>
  /\ Edit

DeleteBack ==
  /\ editor' = Backspace(editor)
  /\ DetachHistory
  /\ Edit

TypeText(text) ==
  /\ text # << >>
  /\ CanInsert(editor, text)
  /\ editor' = Insert(editor, text)
  /\ DetachHistory
  /\ Edit

(* Actions with an early return: the key that meets it changes nothing. *)
Refused(action) ==
  \/ action \in PromptActions /\ ~(editor.value # << >> /\ OperationFree)
  \/ action = "cancel-active-run" /\ ~CancelFree
  \/ action = "history-previous" /\ promptHistory = << >>
  \/ action = "history-next" /\ (promptHistory = << >> \/ historyIndex < 0)

ApplyAction(action) ==
  \/ action = "quit" /\ Quit
  \/ action \in PromptActions /\ IssuePrompt(action)
  \/ action = "cancel-active-run" /\ IssueCancel
  \/ action \in CursorActions /\ MoveCursor(action)
  \/ action = "history-previous" /\ HistoryPrevious
  \/ action = "history-next" /\ HistoryNext
  \/ action = "backspace" /\ DeleteBack
  \/ Refused(action) /\ Ignore

(* updateKey: a bound key acts; any other types its text if there is room. *)
UpdateKey(key) ==
  /\ IF key \in DOMAIN Bindings
     THEN ApplyAction(Bindings[key])
     ELSE \/ TypeText(KeyText[key])
          \/ ~(KeyText[key] # << >> /\ CanInsert(editor, KeyText[key])) /\ Ignore
  /\ UNCHANGED size

Resize(width, height) ==
  /\ size' = BoundedSize(width, height)
  /\ Ignore

-----------------------------------------------------------------------------
(* Messages from the session *)

(* A seeded defect: a committed prompt replaces whatever was typed since. *)
ClearAlways == editor' = ZeroEditor /\ DetachHistory

(* The prompt is cleared only if it is still the one that was sent. *)
ClearSentPrompt ==
  IF editor.value = pendingPrompt
  THEN editor' = ZeroEditor /\ DetachHistory
  ELSE UNCHANGED <<editor, historyIndex, historyDraft>>

(* A seeded defect: the answer is matched with the token before it. *)
StaleByOne(token) == ~operationActive \/ token + 1 # operationToken

(* A late answer of an operation that is no longer the current one. *)
StaleOperation(token) == ~operationActive \/ token # operationToken
StaleCancel(token)    == ~cancelActive \/ token # cancelToken
StaleReceive(token)   == ~receiveArmed \/ token # receiveToken

(* A seeded defect: a failed operation is remembered like an accepted one. *)
FailOptimistically ==
  /\ status' = ErrorStatus
  /\ promptHistory' = Remember(promptHistory, pendingPrompt)
  /\ UNCHANGED <<workspace, activity, revision, editor, historyIndex, historyDraft, lastResult>>

(* A seeded defect: a failed operation takes the prompt it was sent with. *)
FailAndClear ==
  /\ status' = ErrorStatus
  /\ ClearSentPrompt
  /\ UNCHANGED <<workspace, activity, revision, promptHistory, lastResult>>

FailOperation ==
  /\ status' = ErrorStatus
  /\ UNCHANGED <<workspace, activity, revision, promptVars, lastResult>>

(* A seeded defect: a success also takes the error off the status. *)
CommitAndRecover(result) ==
  /\ promptHistory' = Remember(promptHistory, pendingPrompt)
  /\ ClearSentPrompt
  /\ lastResult' = result
  /\ status' = InitialStatus
  /\ UNCHANGED <<workspace, activity, revision>>

CommitOperation(result) ==
  /\ promptHistory' = Remember(promptHistory, pendingPrompt)
  /\ ClearSentPrompt
  /\ lastResult' = result
  /\ UNCHANGED viewVars

(* completeEffect for submit and respond; result NoResult is an error. *)
CompleteOperation(token, result) ==
  /\ IF StaleOperation(token) THEN Ignore
     ELSE /\ operationActive' = FALSE
          /\ pendingPrompt' = << >>
          /\ IF result = NoResult THEN FailOperation ELSE CommitOperation(result)
          /\ command' = NoCommand
          /\ UNCHANGED <<operationToken, receiveVars, cancelVars>>
  /\ UNCHANGED size

(* completeCancelEffect. *)
CompleteCancel(token, result) ==
  /\ IF StaleCancel(token) THEN Ignore
     ELSE /\ cancelActive' = FALSE
          /\ IF result = NoResult
             THEN status' = ErrorStatus /\ UNCHANGED lastResult
             ELSE lastResult' = result /\ UNCHANGED status
          /\ command' = NoCommand
          /\ UNCHANGED <<workspace, activity, revision, promptVars, receiveVars,
                         operationVars, cancelToken>>
  /\ UNCHANGED size

(* A seeded defect: the place in the old history is kept. *)
ReplaceHistoryOnly(history) ==
  /\ promptHistory' = history
  /\ UNCHANGED <<editor, historyIndex, historyDraft>>

ReplaceHistory(history) ==
  /\ promptHistory' = history
  /\ historyIndex' = -1
  /\ historyDraft' = editor
  /\ UNCHANGED editor

ApplySessionUpdate(update) ==
  /\ revision' = update.revision
  /\ \/ /\ update.kind = "snapshot"
        /\ workspace' = update.workspace
        /\ status' = update.status
        /\ activity' = update.activity
        /\ ReplaceHistory(update.history)
     \/ /\ update.kind = "activity"
        /\ activity' = FittingActivity(Append(activity, update.item))
        /\ UNCHANGED <<workspace, status, promptVars>>
     \/ /\ update.kind = "prompt-history"
        /\ ReplaceHistory(update.history)
        /\ UNCHANGED <<workspace, status, activity>>

(* Seeded defects: the lane is still marked as armed; the failed receive is *)
(* tried again.                                                             *)
StopButArmed ==
  /\ status' = ErrorStatus
  /\ command' = NoCommand
  /\ UNCHANGED <<workspace, activity, revision, promptVars, receiveVars>>

RetryReceiving ==
  /\ status' = ErrorStatus
  /\ IF receiveToken = MaxToken
     THEN receiveArmed' = FALSE /\ command' = NoCommand /\ UNCHANGED receiveToken
     ELSE /\ receiveToken' = receiveToken + 1
          /\ command' = Command("receive", receiveToken + 1, << >>)
          /\ UNCHANGED receiveArmed
  /\ UNCHANGED <<workspace, activity, revision, promptVars>>

(* The lane stays stopped, and says so in the status. *)
StopReceiving ==
  /\ receiveArmed' = FALSE
  /\ status' = ErrorStatus
  /\ command' = NoCommand
  /\ UNCHANGED <<workspace, activity, revision, promptVars, receiveToken>>

(* The next receive, unless the tokens are used up. *)
RearmReceive ==
  IF receiveToken = MaxToken
  THEN /\ receiveArmed' = FALSE
       /\ command' = NoCommand
       /\ UNCHANGED receiveToken
  ELSE /\ receiveArmed' = TRUE
       /\ receiveToken' = receiveToken + 1
       /\ command' = Command("receive", receiveToken + 1, << >>)

(* completeReceive.  NoUpdate is an error of the session or of its adapter; *)
(* like an update out of sequence it is never fresh, and both stop the lane. *)
CompleteReceive(token, update) ==
  /\ IF StaleReceive(token) THEN Ignore
     ELSE /\ \/ /\ ~Fresh(update)
              /\ StopReceiving
           \/ /\ Fresh(update)
              /\ ApplySessionUpdate(update)
              /\ RearmReceive
          /\ UNCHANGED <<operationVars, cancelVars, lastResult>>
  /\ UNCHANGED size

=============================================================================
