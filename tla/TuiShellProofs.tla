--------------------------- MODULE TuiShellProofs ---------------------------
(***************************************************************************)
(* What TuiShell guarantees for every set of keys, updates and texts, and  *)
(* every bound: the types of its state with the prompt and its history,    *)
(* then the lanes, the errors, the end of the run, and the contract of the *)
(* session.                                                                *)
(***************************************************************************)
EXTENDS TuiShell, PromptEditorTheorems

-----------------------------------------------------------------------------
(* The prompt and its history *)

Prompts ==
  /\ editor \in Editor /\ historyDraft \in Editor
  /\ promptHistory \in Seq(Text) /\ ValidHistory(promptHistory)
  /\ historyIndex \in -1..(Len(promptHistory) - 1)
  /\ ValidPrompt(editor.value) /\ ValidPrompt(historyDraft.value)
  /\ GluedByRight => OnBoundary(editor) /\ OnBoundary(historyDraft)

Pending == pendingPrompt \in Text /\ ValidPrompt(pendingPrompt)

(* An accepted prompt is remembered within the bound of the history. *)
LEMMA RememberProperties ==
  ASSUME NEW history \in Seq(Text), ValidHistory(history),
         NEW prompt \in Text, ValidPrompt(prompt)
  PROVE  /\ Remember(history, prompt) \in Seq(Text)
         /\ ValidHistory(Remember(history, prompt))
         /\ Len(history) <= Len(Remember(history, prompt))
<1> DEFINE longer == Append(history, prompt)
           start  == Len(longer) - MaxHistory + 1
           kept   == SubSeq(longer, start, Len(longer))
<1>1. /\ longer \in Seq(Text) /\ Len(longer) = Len(history) + 1
      /\ Len(history) \in Nat /\ Len(history) <= MaxHistory /\ MaxHistory \in Nat \ {0}
      /\ \A i \in 1..Len(longer) : longer[i] \in Text /\ ValidPrompt(longer[i])
  <2>1. longer \in Seq(Text) /\ Len(longer) = Len(history) + 1 /\ Len(history) \in Nat
    OBVIOUS
  <2>2. \A i \in 1..Len(history) : longer[i] = history[i]
    OBVIOUS
  <2>3. longer[Len(history) + 1] = prompt
    OBVIOUS
  <2>4. Len(history) <= MaxHistory /\ \A i \in 1..Len(history) : ValidPrompt(history[i])
    BY DEF ValidHistory
  <2>5. \A i \in 1..Len(history) : history[i] \in Text
    BY ElementOfSeq
  <2>6. MaxHistory \in Nat \ {0}
    BY PresentationAssumption
  <2> HIDE DEF longer
  <2> QED
    BY <2>1, <2>2, <2>3, <2>4, <2>5, <2>6
<1> HIDE DEF longer
<1>2. CASE Len(longer) <= MaxHistory
  <2>1. Remember(history, prompt) = longer
    BY <1>2 DEF Remember, longer
  <2> QED
    BY <1>1, <1>2, <2>1 DEF ValidHistory
<1>3. CASE ~(Len(longer) <= MaxHistory)
  <2>1. Remember(history, prompt) = kept
    BY <1>3 DEF Remember, longer
  <2>2. start \in 1..Len(longer) /\ Len(longer) - start + 1 = MaxHistory
    BY <1>1, <1>3
  <2> HIDE DEF start
  <2>3. \A i \in start..Len(longer) : longer[i] \in Text
    BY <1>1, <2>2
  <2>4. /\ kept \in Seq(Text) /\ Len(kept) = MaxHistory
        /\ \A i \in 1..MaxHistory : kept[i] = longer[start + i - 1]
    BY <1>1, <2>2, <2>3, SubSeqProperties
  <2> HIDE DEF kept
  <2>5. \A i \in 1..MaxHistory : start + i - 1 \in 1..Len(longer)
    BY <1>1, <2>2
  <2>6. \A i \in DOMAIN kept : ValidPrompt(kept[i])
    BY <1>1, <2>4, <2>5
  <2> QED
    BY <1>1, <2>1, <2>4, <2>6 DEF ValidHistory
<1> QED
  BY <1>2, <1>3

LEMMA RecalledEntry ==
  ASSUME Prompts, NEW index \in 0..(Len(promptHistory) - 1), RecallEntry(index),
         historyDraft' \in {historyDraft, editor}, UNCHANGED promptHistory
  PROVE  Prompts'
<1> DEFINE entry == promptHistory[index + 1]
<1>1. index + 1 \in 1..Len(promptHistory)
  BY DEF Prompts
<1>2. entry \in Text /\ ValidPrompt(entry)
  BY <1>1, ElementOfSeq DEF Prompts, ValidHistory
<1>3. editor' = NewEditor(entry) /\ historyIndex' = index
  BY DEF RecallEntry
<1> HIDE DEF entry
<1>4. editor' \in Editor /\ ValidEditor(editor')
  BY <1>2, <1>3, NewEditorSound
<1>5. /\ historyDraft' \in Editor /\ ValidPrompt(historyDraft'.value)
      /\ GluedByRight => OnBoundary(historyDraft')
  BY DEF Prompts
<1> QED
  BY <1>3, <1>4, <1>5 DEF Prompts, ValidEditor

(* The prompt is replaced by another usable one and leaves the history. *)
LEMMA EditedPrompt ==
  ASSUME Prompts, editor' \in Editor, ValidPrompt(editor'.value),
         GluedByRight => OnBoundary(editor'), UNCHANGED promptHistory,
         DetachHistory \/ UNCHANGED <<historyIndex, historyDraft>>
  PROVE  Prompts'
<1>1. Len(promptHistory) \in Nat
  BY DEF Prompts
<1> QED
  BY <1>1 DEF Prompts, DetachHistory

(* Every key keeps the prompt usable. *)
LEMMA KeyKeepsPrompt ==
  ASSUME Prompts, NEW key \in Keys, UpdateKey(key)
  PROVE  Prompts'
<1>0. /\ key \in DOMAIN KeyText /\ KeyText[key] \in Text
      /\ key \in DOMAIN Bindings => Bindings[key] \in BoundActions
      /\ Len(promptHistory) \in Nat
  BY PresentationAssumption, TuiShellAssumption DEF Prompts
<1>1. ASSUME UNCHANGED promptVars PROVE Prompts'
  BY <1>1 DEF Prompts, promptVars
<1>2. ASSUME NEW action \in CursorActions, MoveCursor(action)
      PROVE  Prompts'
  <2>1. Direction(action) \in Moves
    BY <1>2 DEF Direction, CursorActions, Moves
  <2>2. /\ editor' = Move(editor, Direction(action)) /\ UNCHANGED promptHistory
        /\ UNCHANGED <<historyIndex, historyDraft>>
    BY <1>2 DEF MoveCursor, Edit
  <2>3. editor' \in Editor /\ ValidEditor(editor')
    BY <2>1, <2>2, MoveSound DEF Prompts
  <2> QED
    BY <2>2, <2>3, EditedPrompt DEF ValidEditor
<1>3. ASSUME DeleteBack PROVE Prompts'
  <2>1. editor' = Backspace(editor) /\ UNCHANGED promptHistory /\ DetachHistory
    BY <1>3 DEF DeleteBack, Edit
  <2>2. /\ editor' \in Editor /\ Len(editor'.value) <= Len(editor.value)
        /\ GluedByRight /\ ValidEditor(editor) => ValidEditor(editor')
    BY <2>1, BackspaceSound DEF Prompts
  <2>3. /\ Len(editor'.value) \in Nat /\ Len(editor.value) \in Nat /\ MaxPrompt \in Nat
        /\ Len(editor.value) <= MaxPrompt
    BY <2>2, PromptEditorAssumption DEF Prompts, Editor, Text, ValidPrompt
  <2>4. ValidPrompt(editor'.value)
    BY <2>2, <2>3 DEF ValidPrompt
  <2> QED
    BY <2>1, <2>2, <2>4, EditedPrompt DEF ValidEditor, Prompts
<1>4. ASSUME TypeText(KeyText[key]) PROVE Prompts'
  <2>1. /\ editor' = Insert(editor, KeyText[key]) /\ CanInsert(editor, KeyText[key])
        /\ UNCHANGED promptHistory /\ DetachHistory
    BY <1>4 DEF TypeText, Edit
  <2>2. editor' \in Editor /\ ValidEditor(editor')
    BY <1>0, <2>1, InsertSound DEF Prompts
  <2> QED
    BY <2>1, <2>2, EditedPrompt DEF ValidEditor
<1>5. ASSUME HistoryPrevious PROVE Prompts'
  <2>1. promptHistory # << >> /\ UNCHANGED promptHistory
    BY <1>5 DEF HistoryPrevious, Edit
  <2>2. Len(promptHistory) > 0 /\ historyIndex \in -1..(Len(promptHistory) - 1)
    BY <1>0, <2>1, EmptySeq DEF Prompts
  <2>3. CASE historyIndex < 0
    BY <1>5, <1>0, <2>1, <2>2, <2>3, RecalledEntry DEF HistoryPrevious
  <2>4. CASE ~(historyIndex < 0)
    <3>1. PICK index \in 0..(Len(promptHistory) - 1) :
            RecallEntry(index) /\ UNCHANGED historyDraft
      BY <1>5, <1>0, <2>2, <2>4 DEF HistoryPrevious
    <3> QED
      BY <2>1, <3>1, RecalledEntry
  <2> QED
    BY <2>3, <2>4
<1>6. ASSUME HistoryNext PROVE Prompts'
  <2>1. /\ UNCHANGED <<promptHistory, historyDraft>>
        /\ historyIndex \in 0..(Len(promptHistory) - 1)
    BY <1>6, <1>0 DEF HistoryNext, Edit, Prompts
  <2>2. CASE historyIndex + 1 >= Len(promptHistory)
    BY <1>0, <1>6, <2>1, <2>2 DEF HistoryNext, Prompts
  <2>3. CASE ~(historyIndex + 1 >= Len(promptHistory))
    <3>1. historyIndex + 1 \in 0..(Len(promptHistory) - 1) /\ RecallEntry(historyIndex + 1)
      BY <1>0, <1>6, <2>1, <2>3 DEF HistoryNext
    <3> QED
      BY <2>1, <3>1, RecalledEntry
  <2> QED
    BY <2>2, <2>3
<1>7. ASSUME NEW action \in BoundActions, ApplyAction(action) PROVE Prompts'
  BY <1>1, <1>2, <1>3, <1>5, <1>6, <1>7
     DEF ApplyAction, Quit, IssuePrompt, IssueCancel, Ignore
<1> QED
  BY <1>0, <1>1, <1>4, <1>7 DEF UpdateKey, Ignore

LEMMA SettledPrompt ==
  ASSUME Prompts, Pending, NEW answer, CommitOperation(answer)
  PROVE  Prompts'
<1>1. promptHistory' = Remember(promptHistory, pendingPrompt) /\ ClearSentPrompt
  BY DEF CommitOperation
<1>2. /\ promptHistory' \in Seq(Text) /\ ValidHistory(promptHistory')
      /\ Len(promptHistory) <= Len(promptHistory')
  BY <1>1, RememberProperties DEF Prompts, Pending
<1>3. Len(promptHistory) \in Nat /\ Len(promptHistory') \in Nat
  BY <1>2 DEF Prompts
<1>4. CASE editor' = ZeroEditor /\ DetachHistory
  BY <1>2, <1>3, <1>4, ZeroEditorSound DEF Prompts, DetachHistory, ValidEditor
<1>5. CASE UNCHANGED <<editor, historyIndex, historyDraft>>
  BY <1>2, <1>3, <1>5 DEF Prompts
<1> QED
  BY <1>1, <1>4, <1>5 DEF ClearSentPrompt

LEMMA ReplacedHistory ==
  ASSUME Prompts, NEW history \in Seq(Text), ValidHistory(history), ReplaceHistory(history)
  PROVE  Prompts'
<1>1. Len(history) \in Nat
  OBVIOUS
<1> QED
  BY <1>1 DEF Prompts, ReplaceHistory

(* An update that is shown is one of those Receive returns, and valid. *)
LEMMA ShownUpdate ==
  ASSUME revision \in Nat, NEW update \in Replies("receive"), Fresh(update)
  PROVE  /\ update \in Updates /\ ValidUpdate(update) /\ update.revision \in Nat
         /\ update.kind = "snapshot" =>
              /\ update.workspace \in Workspace /\ update.status \in Status
              /\ update.activity \in Seq(Item)
              /\ update.history \in Seq(Text) /\ ValidHistory(update.history)
         /\ update.kind = "activity" => update.item \in Item
         /\ update.kind = "prompt-history" =>
              update.history \in Seq(Text) /\ ValidHistory(update.history)
<1>1. update # NoUpdate
  BY DEF Fresh, NoUpdate
<1>2. update \in Updates /\ ValidUpdate(update)
  BY <1>1 DEF Replies, Failure
<1> QED
  BY <1>2, TuiShellAssumption DEF ValidUpdate

LEMMA FittingActivityIsActivity ==
  ASSUME NEW items \in Seq(Item)
  PROVE  /\ FittingActivity(items) \in Seq(Item)
         /\ \/ FittingActivity(items) = << >>
            \/ ViewFits(workspace, status, editor, FittingActivity(items))
<1> DEFINE fits == {k \in 0..Len(items) :
                 \/ k = Len(items)
                 \/ ViewFits(workspace, status, editor, SubSeq(items, k + 1, Len(items)))}
           dropped == CHOOSE k \in fits : \A j \in fits : k <= j
<1>1. Len(items) \in fits /\ fits \subseteq Nat /\ Len(items) \in Nat
  OBVIOUS
<1>2. FittingActivity(items) = SubSeq(items, dropped + 1, Len(items))
  BY DEF FittingActivity
<1>3. dropped \in fits
  <2> HIDE DEF fits
  <2>1. \E k \in fits : \A j \in fits : k <= j
    BY <1>1, LeastNatural
  <2> QED
    BY <2>1
<1>4. dropped \in 0..Len(items)
  BY <1>3
<1> HIDE DEF dropped
<1>5. \A i \in (dropped + 1)..Len(items) : items[i] \in Item
  <2>1. \A i \in 1..Len(items) : items[i] \in Item
    BY ElementOfSeq
  <2> QED
    BY <1>1, <1>4, <2>1
<1>6. FittingActivity(items) \in Seq(Item)
  BY <1>1, <1>2, <1>4, <1>5, SubSeqProperties
<1>7. CASE dropped = Len(items)
  <2>1. SubSeq(items, Len(items) + 1, Len(items)) = << >>
    BY <1>1, SubSeqProperties, EmptySeq
  <2> QED
    BY <1>2, <1>6, <1>7, <2>1
<1>8. CASE dropped # Len(items)
  BY <1>2, <1>3, <1>6, <1>8
<1> QED
  BY <1>6, <1>7, <1>8

-----------------------------------------------------------------------------
(* The whole state *)

ShellInv ==
  /\ ViewTypes /\ Prompts /\ Pending /\ LaneTypes /\ TaskTypes /\ RunTypes
  /\ StopIsVisible

LEMMA ShellInit == Init => ShellInv
<1> SUFFICES ASSUME Init PROVE ShellInv
  OBVIOUS
<1>1. /\ MaxToken \in Nat \ {0} /\ MaxHistory \in Nat \ {0}
      /\ MaxWidth \in Nat \ {0} /\ MaxHeight \in Nat \ {0} /\ MaxPrompt \in Nat
  BY PresentationAssumption, PromptEditorAssumption
<1>2. /\ << >> \in Text /\ ValidPrompt(<< >>) /\ << >> \in Seq(Text) /\ << >> \in Seq(Item)
      /\ ValidHistory(<< >>)
  BY <1>1, EmptySeq DEF Text, ValidPrompt, ValidHistory
<1>3. ViewTypes
  <2>1. size \in [width : 1..MaxWidth, height : 1..MaxHeight]
    BY <1>1 DEF Init, InitModel, NewModel, BoundedSize, Clamp
  <2> QED
    BY <1>2, <2>1, PresentationAssumption DEF Init, InitModel, NewModel, ViewTypes
<1>4. Prompts
  BY <1>2, ZeroEditorSound DEF Init, InitModel, NewModel, Prompts, ValidEditor
<1>5. Pending
  BY <1>2 DEF Init, InitModel, NewModel, Pending
<1>6. LaneTypes
  <2>1. command \in Commands
    BY <1>1, <1>2 DEF Init, InitModel, NewModel, Commands
  <2>2. {receiveToken, operationToken, cancelToken} \subseteq 0..MaxToken
    BY <1>1 DEF Init, InitModel, NewModel
  <2>3. {receiveArmed, operationActive, cancelActive} \subseteq BOOLEAN
    BY DEF Init, InitModel, NewModel
  <2> QED
    BY <2>1, <2>2, <2>3 DEF LaneTypes
<1>7. TaskTypes
  BY <1>1, <1>2
     DEF Init, TaskTypes, TaskOf, Task, InitCommand, Command, Kinds, Stages, Replies, Failure
<1>8. RunTypes
  BY DEF Init, RunTypes, Loops
<1>9. StopIsVisible
  BY DEF Init, InitModel, NewModel, StopIsVisible
<1> QED
  BY <1>3, <1>4, <1>5, <1>6, <1>7, <1>8, <1>9 DEF ShellInv

(* A key changes nothing of what is shown of the session, and issues at most *)
(* one request, with the next token of its lane.                             *)
LEMMA KeyKeepsTypes ==
  ASSUME ShellInv, NEW key \in Keys, UpdateKey(key)
  PROVE  ViewTypes' /\ Pending' /\ LaneTypes' /\ StopIsVisible'
<1>0. /\ key \in DOMAIN Bindings => Bindings[key] \in BoundActions
      /\ MaxToken \in Nat
  BY PresentationAssumption
<1>1. /\ editor.value \in Text /\ ValidPrompt(editor.value)
      /\ << >> \in Text
  BY EmptySeq DEF ShellInv, Prompts, Editor, Text
<1>2. UNCHANGED <<viewVars, lastResult, size, receiveVars>>
  BY DEF UpdateKey, ApplyAction, Quit, IssuePrompt, IssueCancel, MoveCursor, HistoryPrevious,
         HistoryNext, DeleteBack, TypeText, Ignore, Edit
<1>3. ViewTypes' /\ StopIsVisible'
  BY <1>2 DEF ShellInv, ViewTypes, StopIsVisible, viewVars, receiveVars
<1>4. ASSUME UNCHANGED <<operationVars, cancelVars>>,
             command' \in Commands
      PROVE  Pending' /\ LaneTypes'
  BY <1>2, <1>4 DEF ShellInv, Pending, LaneTypes, receiveVars, operationVars, cancelVars
<1>5. ASSUME Edit \/ Ignore \/ Quit PROVE Pending' /\ LaneTypes'
  <2>1. UNCHANGED <<operationVars, cancelVars>>
    BY <1>5 DEF Edit, Ignore, Quit
  <2>2. command' \in Commands
    BY <1>0, <1>1, <1>5 DEF Edit, Ignore, Quit, Commands, Command, Kinds
  <2> QED
    BY <2>1, <2>2, <1>4
<1>6. ASSUME NEW kind \in PromptActions, IssuePrompt(kind) PROVE Pending' /\ LaneTypes'
  <2>1. operationToken + 1 \in 0..MaxToken
    BY <1>0, <1>6 DEF IssuePrompt, OperationFree, ShellInv, LaneTypes
  <2> QED
    BY <1>1, <1>2, <1>6, <2>1
       DEF IssuePrompt, ShellInv, Pending, LaneTypes, receiveVars, cancelVars, Commands, Command, Kinds
<1>7. ASSUME IssueCancel PROVE Pending' /\ LaneTypes'
  <2>1. cancelToken + 1 \in 0..MaxToken
    BY <1>0, <1>7 DEF IssueCancel, CancelFree, ShellInv, LaneTypes
  <2> QED
    BY <1>1, <1>2, <1>7, <2>1
       DEF IssueCancel, ShellInv, Pending, LaneTypes, receiveVars, operationVars, Commands, Command, Kinds
<1>8. ASSUME NEW action, ApplyAction(action) PROVE Pending' /\ LaneTypes'
  BY <1>5, <1>6, <1>7, <1>8
     DEF ApplyAction, MoveCursor, HistoryPrevious, HistoryNext, DeleteBack
<1> QED
  BY <1>3, <1>5, <1>8 DEF UpdateKey, TypeText

(* Every answer keeps the types, and a receive lane that stops says so. *)
LEMMA ReceiveKeepsTypes ==
  ASSUME ShellInv, NEW token, NEW update \in Replies("receive"), CompleteReceive(token, update)
  PROVE  ViewTypes' /\ Prompts' /\ Pending' /\ LaneTypes' /\ StopIsVisible'
<1>0. /\ MaxToken \in Nat \ {0} /\ << >> \in Text /\ ErrorStatus \in Status
      /\ receiveToken \in 0..MaxToken
  BY PresentationAssumption, EmptySeq DEF Text, ShellInv, LaneTypes
<1>1. CASE Ignore /\ UNCHANGED size
  <2>1. command' \in Commands
    BY <1>0, <1>1 DEF Ignore, Commands
  <2> QED
    BY <1>1, <2>1
       DEF ShellInv, ViewTypes, Prompts, Pending, LaneTypes, StopIsVisible, Ignore,
           viewVars, promptVars, receiveVars, operationVars, cancelVars
<1>2. CASE /\ StopReceiving /\ UNCHANGED <<operationVars, cancelVars, lastResult, size>>
  <2>1. command' \in Commands
    BY <1>0, <1>2 DEF StopReceiving, Commands
  <2> QED
    BY <1>0, <1>2, <2>1
       DEF ShellInv, ViewTypes, Prompts, Pending, LaneTypes, StopIsVisible, StopReceiving,
           promptVars, operationVars, cancelVars
<1>3. CASE /\ Fresh(update) /\ ApplySessionUpdate(update) /\ RearmReceive
           /\ UNCHANGED <<operationVars, cancelVars, lastResult, size>>
  <2>1. /\ update \in Updates /\ ValidUpdate(update) /\ update.revision \in Nat
        /\ update.kind = "snapshot" =>
             /\ update.workspace \in Workspace /\ update.status \in Status
             /\ update.activity \in Seq(Item)
             /\ update.history \in Seq(Text) /\ ValidHistory(update.history)
        /\ update.kind = "activity" => update.item \in Item
        /\ update.kind = "prompt-history" =>
             update.history \in Seq(Text) /\ ValidHistory(update.history)
    BY <1>3, ShownUpdate DEF ShellInv, ViewTypes
  <2>2. LaneTypes'
    <3>1. CASE receiveToken = MaxToken
      <4>1. command' \in Commands
        BY <1>0, <1>3, <3>1 DEF RearmReceive, Commands
      <4> QED
        BY <1>3, <3>1, <4>1
           DEF RearmReceive, ShellInv, LaneTypes, operationVars, cancelVars
    <3>2. CASE receiveToken # MaxToken
      <4>1. receiveToken + 1 \in 0..MaxToken
        BY <1>0, <3>2
      <4> QED
        BY <1>0, <1>3, <3>2, <4>1
           DEF RearmReceive, ShellInv, LaneTypes, operationVars, cancelVars, Commands, Command, Kinds
    <3> QED
      BY <3>1, <3>2
  <2>3. StopIsVisible'
    BY <1>0, <1>3 DEF RearmReceive, StopIsVisible
  <2>4. Pending'
    BY <1>3 DEF ShellInv, Pending, operationVars
  <2>5. CASE update.kind = "snapshot"
    <3>1. /\ workspace' = update.workspace /\ status' = update.status
          /\ activity' = update.activity /\ revision' = update.revision
          /\ ReplaceHistory(update.history)
      BY <1>3, <2>5 DEF ApplySessionUpdate
    <3>2. ViewTypes'
      BY <1>3, <2>1, <2>5, <3>1 DEF ShellInv, ViewTypes
    <3>3. Prompts'
      BY <2>1, <2>5, <3>1, ReplacedHistory DEF ShellInv
    <3> QED
      BY <2>2, <2>3, <2>4, <3>2, <3>3
  <2>6. CASE update.kind = "activity"
    <3>1. /\ activity' = FittingActivity(Append(activity, update.item))
          /\ revision' = update.revision
          /\ UNCHANGED <<workspace, status, promptVars>>
      BY <1>3, <2>6 DEF ApplySessionUpdate
    <3>2. Append(activity, update.item) \in Seq(Item)
      BY <2>1, <2>6 DEF ShellInv, ViewTypes
    <3>3. activity' \in Seq(Item)
      BY <3>1, <3>2, FittingActivityIsActivity
    <3>4. ViewTypes'
      BY <1>3, <2>1, <3>1, <3>3 DEF ShellInv, ViewTypes
    <3>5. Prompts'
      BY <3>1 DEF ShellInv, Prompts, promptVars
    <3> QED
      BY <2>2, <2>3, <2>4, <3>4, <3>5
  <2>7. CASE update.kind = "prompt-history"
    <3>1. /\ revision' = update.revision /\ UNCHANGED <<workspace, status, activity>>
          /\ ReplaceHistory(update.history)
      BY <1>3, <2>7 DEF ApplySessionUpdate
    <3>2. ViewTypes'
      BY <1>3, <2>1, <3>1 DEF ShellInv, ViewTypes
    <3>3. Prompts'
      BY <2>1, <2>7, <3>1, ReplacedHistory DEF ShellInv
    <3> QED
      BY <2>2, <2>3, <2>4, <3>2, <3>3
  <2> QED
    BY <1>3, <2>5, <2>6, <2>7 DEF ApplySessionUpdate
<1> QED
  BY <1>1, <1>2, <1>3 DEF CompleteReceive

LEMMA OperationKeepsTypes ==
  ASSUME ShellInv, NEW token, NEW answer \in Result \cup {NoResult},
         CompleteOperation(token, answer)
  PROVE  ViewTypes' /\ Prompts' /\ Pending' /\ LaneTypes' /\ StopIsVisible'
<1>0. /\ 0 \in 0..MaxToken /\ << >> \in Text /\ ValidPrompt(<< >>) /\ ErrorStatus \in Status
  BY PresentationAssumption, PromptEditorAssumption, EmptySeq DEF Text, ValidPrompt
<1>1. NoCommand \in Commands
  BY <1>0 DEF Commands
<1>2. CASE Ignore /\ UNCHANGED size
  BY <1>1, <1>2
     DEF ShellInv, ViewTypes, Prompts, Pending, LaneTypes, StopIsVisible, Ignore,
         viewVars, promptVars, receiveVars, operationVars, cancelVars
<1>3. CASE /\ operationActive' = FALSE /\ pendingPrompt' = << >> /\ command' = NoCommand
           /\ IF answer = NoResult THEN FailOperation ELSE CommitOperation(answer)
           /\ UNCHANGED <<operationToken, receiveVars, cancelVars, size>>
  <2>1. Pending' /\ LaneTypes'
    BY <1>0, <1>1, <1>3 DEF ShellInv, Pending, LaneTypes, receiveVars, cancelVars
  <2>2. CASE FailOperation
    BY <1>0, <1>3, <2>1, <2>2
       DEF FailOperation, ShellInv, ViewTypes, Prompts, StopIsVisible, promptVars, receiveVars
  <2>3. CASE CommitOperation(answer)
    <3>1. Prompts'
      BY <2>3, SettledPrompt DEF ShellInv
    <3>2. ViewTypes' /\ StopIsVisible'
      BY <1>3, <2>3 DEF CommitOperation, ShellInv, ViewTypes, StopIsVisible, viewVars, receiveVars
    <3> QED
      BY <2>1, <3>1, <3>2
  <2> QED
    BY <1>3, <2>2, <2>3
<1> QED
  BY <1>2, <1>3 DEF CompleteOperation

LEMMA CancelKeepsTypes ==
  ASSUME ShellInv, NEW token, NEW answer \in Result \cup {NoResult},
         CompleteCancel(token, answer)
  PROVE  ViewTypes' /\ Prompts' /\ Pending' /\ LaneTypes' /\ StopIsVisible'
<1>0. 0 \in 0..MaxToken /\ << >> \in Text /\ ErrorStatus \in Status
  BY PresentationAssumption, EmptySeq DEF Text
<1>1. NoCommand \in Commands
  BY <1>0 DEF Commands
<1>2. CASE Ignore /\ UNCHANGED size
  BY <1>1, <1>2
     DEF ShellInv, ViewTypes, Prompts, Pending, LaneTypes, StopIsVisible, Ignore,
         viewVars, promptVars, receiveVars, operationVars, cancelVars
<1>3. CASE /\ cancelActive' = FALSE /\ command' = NoCommand
           /\ IF answer = NoResult
              THEN status' = ErrorStatus /\ UNCHANGED lastResult
              ELSE lastResult' = answer /\ UNCHANGED status
           /\ UNCHANGED <<workspace, activity, revision, promptVars, receiveVars,
                          operationVars, cancelToken, size>>
  <2>1. Pending' /\ LaneTypes' /\ Prompts'
    BY <1>1, <1>3
       DEF ShellInv, Pending, LaneTypes, Prompts, promptVars, receiveVars, operationVars
  <2>2. ViewTypes' /\ StopIsVisible'
    BY <1>0, <1>3 DEF ShellInv, ViewTypes, StopIsVisible, receiveVars
  <2> QED
    BY <2>1, <2>2
<1> QED
  BY <1>2, <1>3 DEF CompleteCancel

LEMMA ReplaceKeepsTasks ==
  ASSUME TaskTypes, NEW task \in tasks, NEW stage \in Stages, NEW reply \in Replies(task.kind),
         Replace(task, stage, reply)
  PROVE  TaskTypes'
<1> DEFINE new == Task(task.kind, task.token, task.prompt, stage, reply)
<1>1. /\ new.kind = task.kind /\ new.token = task.token /\ new.prompt = task.prompt
      /\ new.stage = stage /\ new.reply = reply
  BY DEF Task
<1>2. new = Task(new.kind, new.token, new.prompt, new.stage, new.reply)
  BY <1>1
<1> HIDE DEF new
<1>3. tasks' = (tasks \ {task}) \cup {new}
  BY DEF Replace, new
<1>4. /\ task.kind \in Kinds /\ task.token \in 0..MaxToken /\ task.prompt \in Text
  BY DEF TaskTypes
<1> QED
  BY <1>1, <1>2, <1>3, <1>4 DEF TaskTypes, Replies

LEMMA UnchangedModel ==
  ASSUME ShellInv, UNCHANGED modelVars
  PROVE  ViewTypes' /\ Prompts' /\ Pending' /\ LaneTypes' /\ StopIsVisible'
BY DEF ShellInv, ViewTypes, Prompts, Pending, LaneTypes, StopIsVisible, modelVars,
       viewVars, promptVars, receiveVars, operationVars, cancelVars

LEMMA DeliveryKeepsTypes ==
  ASSUME ShellInv, NEW task \in tasks, Deliver(task)
  PROVE  ShellInv'
<1>1. TaskTypes'
  BY DEF Deliver, ShellInv, TaskTypes, Replies
<1>2. RunTypes'
  BY DEF Deliver, ShellInv, RunTypes, Loops
<1>3. task.kind \in Kinds /\ task.reply \in Replies(task.kind)
  BY DEF ShellInv, TaskTypes
<1>4. CASE LaneOf(task.kind) = "receive" /\ CompleteReceive(task.token, task.reply)
  <2>1. task.kind = "receive"
    BY <1>3, <1>4 DEF LaneOf, Kinds
  <2> QED
    BY <1>1, <1>2, <1>3, <1>4, <2>1, ReceiveKeepsTypes DEF ShellInv
<1>5. CASE LaneOf(task.kind) = "ordinary" /\ CompleteOperation(task.token, task.reply)
  <2>1. task.kind # "receive"
    BY <1>5 DEF LaneOf, PromptActions
  <2>2. task.reply \in Result \cup {NoResult}
    BY <1>3, <2>1 DEF Replies, Failure
  <2> QED
    BY <1>1, <1>2, <1>5, <2>2, OperationKeepsTypes DEF ShellInv
<1>6. CASE LaneOf(task.kind) = "cancel" /\ CompleteCancel(task.token, task.reply)
  <2>1. task.kind # "receive"
    BY <1>6 DEF LaneOf
  <2>2. task.reply \in Result \cup {NoResult}
    BY <1>3, <2>1 DEF Replies, Failure
  <2> QED
    BY <1>1, <1>2, <1>6, <2>2, CancelKeepsTypes DEF ShellInv
<1>7. CASE UNCHANGED modelVars
  BY <1>1, <1>2, <1>7, UnchangedModel DEF ShellInv
<1> QED
  BY <1>4, <1>5, <1>6, <1>7 DEF Deliver

(* The steps of the program's end: they start and end no goroutine and say *)
(* nothing to the model.                                                   *)
RunStep ==
  \/ CallerCancels \/ ProgramFails \/ ContextEndsLoop \/ CancellationSpreads
  \/ TakeSignal \/ ListenerEnds \/ ShutDown \/ ProgramReturns \/ ShellReturns
  \/ \E message \in SignalMessages : SignalArrives(message)
  \/ UNCHANGED vars

LEMMA RunStepIsQuiet ==
  ASSUME RunStep
  PROVE  UNCHANGED <<modelVars, tasks>>
BY DEF RunStep, CallerCancels, ProgramFails, ContextEndsLoop, CancellationSpreads, TakeSignal,
       ListenerEnds, ShutDown, ProgramReturns, ShellReturns, SignalArrives, EndLoop,
       vars, runtimeVars

(* A goroutine goes on by itself: its answer stays what it was. *)
LEMMA MovesOn ==
  ASSUME NEW task, Check(task) \/ Call(task) \/ QuitRuns(task)
  PROVE  /\ \E stage \in Stages : Replace(task, stage, task.reply)
         /\ UNCHANGED modelVars
         /\ UNCHANGED endVars \/ QuitRuns(task)
<1>1. CASE Check(task)
  BY <1>1 DEF Check, Stages
<1>2. CASE Call(task)
  BY <1>2 DEF Call, Stages
<1>3. CASE QuitRuns(task)
  BY <1>3 DEF QuitRuns, Stages
<1> QED
  BY <1>1, <1>2, <1>3

LEMMA StepCases ==
  ASSUME [Next]_vars
  PROVE  \/ \E key \in Keys : Press(key)
         \/ \E s \in Sizes : TerminalResized(s[1], s[2])
         \/ StartCommand
         \/ \E task \in tasks : Check(task) \/ Call(task) \/ QuitRuns(task)
         \/ \E task \in tasks : \E reply \in Replies(task.kind) : SessionReturns(task, reply)
         \/ \E task \in tasks : Deliver(task)
         \/ \E task \in tasks : Drop(task)
         \/ RunStep
BY DEF Next, User, Outside, Program, SessionAnswers, Finished, RunStep

LEMMA ShellStep == ShellInv /\ [Next]_vars => ShellInv'
<1> SUFFICES ASSUME ShellInv, [Next]_vars PROVE ShellInv'
  OBVIOUS
<1>0. ViewTypes /\ Prompts /\ Pending /\ LaneTypes /\ TaskTypes /\ RunTypes /\ StopIsVisible
  BY DEF ShellInv
<1>1. ASSUME UNCHANGED runtimeVars PROVE TaskTypes' /\ RunTypes'
  BY <1>0, <1>1 DEF runtimeVars, endVars, TaskTypes, Replies, RunTypes
<1>2. ASSUME NEW key \in Keys, Press(key) PROVE ShellInv'
  BY <1>1, <1>2, KeyKeepsTypes, KeyKeepsPrompt DEF Press, ShellInv
<1>3. ASSUME NEW s \in Sizes, TerminalResized(s[1], s[2]) PROVE ShellInv'
  <2>1. /\ UNCHANGED <<viewVars, promptVars, receiveVars, operationVars, cancelVars, lastResult>>
        /\ UNCHANGED command /\ size' = BoundedSize(s[1], s[2])
    BY <1>3 DEF TerminalResized, Accepting, Resize, Ignore
  <2>2. s[1] \in Int /\ s[2] \in Int
    BY TuiShellAssumption
  <2>3. size' \in [width : 1..MaxWidth, height : 1..MaxHeight]
    BY <2>1, <2>2, PresentationAssumption DEF BoundedSize, Clamp
  <2>4. ViewTypes'
    BY <1>0, <2>1, <2>3 DEF ViewTypes, viewVars
  <2>5. Prompts' /\ Pending' /\ LaneTypes' /\ StopIsVisible'
    BY <1>0, <2>1 DEF Prompts, Pending, LaneTypes, StopIsVisible,
                      viewVars, promptVars, receiveVars, operationVars, cancelVars
  <2> QED
    BY <1>1, <1>3, <2>4, <2>5 DEF TerminalResized, ShellInv
<1>4. ASSUME StartCommand PROVE ShellInv'
  <2>1. /\ UNCHANGED <<viewVars, promptVars, receiveVars, operationVars, cancelVars,
                        lastResult, size, endVars>>
        /\ command' = NoCommand /\ command # NoCommand
        /\ tasks' = tasks \cup {TaskOf(command)}
    BY <1>4 DEF StartCommand
  <2>2. ViewTypes' /\ Prompts' /\ Pending' /\ StopIsVisible' /\ RunTypes'
    BY <1>0, <2>1 DEF ViewTypes, Prompts, Pending, StopIsVisible, RunTypes,
                      viewVars, promptVars, receiveVars, operationVars, endVars
  <2>3. LaneTypes'
    <3>1. NoCommand \in Commands
      BY PresentationAssumption, EmptySeq DEF Commands
    <3> QED
      BY <1>0, <2>1, <3>1 DEF LaneTypes, receiveVars, operationVars, cancelVars
  <2>4. TaskTypes'
    <3>1. command.kind \in Kinds
      BY <1>0, <2>1 DEF LaneTypes, Commands
    <3> QED
      BY <1>0, <2>1, <3>1 DEF TaskTypes, TaskOf, Task, LaneTypes, Commands, Stages, Replies
  <2> QED
    BY <2>2, <2>3, <2>4 DEF ShellInv
<1>5. ASSUME NEW task \in tasks, NEW stage \in Stages, NEW reply \in Replies(task.kind),
             Replace(task, stage, reply), UNCHANGED modelVars, RunTypes'
      PROVE  ShellInv'
  BY <1>0, <1>5, ReplaceKeepsTasks, UnchangedModel DEF ShellInv
<1>6. ASSUME UNCHANGED modelVars, tasks' \subseteq tasks, RunTypes' PROVE ShellInv'
  <2>1. TaskTypes'
    BY <1>0, <1>6 DEF TaskTypes, Replies
  <2> QED
    BY <1>6, <2>1, UnchangedModel DEF ShellInv
<1>7. ASSUME NEW task \in tasks, Check(task) \/ Call(task) \/ QuitRuns(task) PROVE ShellInv'
  <2>1. task.reply \in Replies(task.kind)
    BY <1>0 DEF TaskTypes
  <2>2. RunTypes'
    BY <1>0, <1>7, MovesOn DEF QuitRuns, RunTypes, endVars
  <2> QED
    BY <1>5, <1>7, <2>1, <2>2, MovesOn
<1>8. ASSUME NEW task \in tasks, NEW reply \in Replies(task.kind), SessionReturns(task, reply)
      PROVE  ShellInv'
  <2>1. RunTypes' /\ UNCHANGED modelVars /\ Replace(task, "returned", reply)
    BY <1>0, <1>8 DEF SessionReturns, RunTypes, endVars
  <2> QED
    BY <1>5, <1>8, <2>1 DEF Stages
<1>9. ASSUME NEW task \in tasks, Drop(task) PROVE ShellInv'
  BY <1>0, <1>6, <1>9 DEF Drop, RunTypes, endVars
<1>10. ASSUME RunStep PROVE ShellInv'
  <2>1. CASE ContextEndsLoop \/ ProgramFails \/ TakeSignal \/ ListenerEnds
             \/ \E message \in SignalMessages : SignalArrives(message)
    <3>1. RunTypes'
      BY <1>0, <2>1 DEF ContextEndsLoop, ProgramFails, TakeSignal, ListenerEnds, SignalArrives,
                        EndLoop, RunTypes, Loops, SignalMessages
    <3> QED
      BY <1>6, <1>10, <3>1, RunStepIsQuiet
  <2>2. CASE CallerCancels \/ CancellationSpreads \/ ShutDown \/ ProgramReturns \/ ShellReturns
             \/ UNCHANGED vars
    <3>1. RunTypes'
      BY <1>0, <2>2 DEF CallerCancels, CancellationSpreads, ShutDown, ProgramReturns,
                        ShellReturns, Outcome, RunTypes, vars, runtimeVars, endVars
    <3> QED
      BY <1>6, <1>10, <3>1, RunStepIsQuiet
  <2> QED
    BY <1>10, <2>1, <2>2 DEF RunStep
<1> QED
  BY <1>2, <1>3, <1>4, <1>7, <1>8, <1>9, <1>10, StepCases, DeliveryKeepsTypes

LEMMA ShellInvHolds == Spec => []ShellInv
BY ShellInit, ShellStep, PTL DEF Spec

-----------------------------------------------------------------------------
(* Every variable keeps its type, and every session answer its own. *)
THEOREM ShellTypeCorrect == Spec => []TypeOK
<1>1. ShellInv => TypeOK
  BY DEF ShellInv, Prompts, Pending, TypeOK, PromptTypes
<1> QED
  BY <1>1, ShellInvHolds, PTL

(* promptHistory[historyIndex] never panics, whatever trims or replaces the *)
(* history while the user browses it.                                       *)
THEOREM HistoryIsIndexed == Spec => []HistoryIndexInRange
<1>1. ShellInv => HistoryIndexInRange
  BY DEF ShellInv, Prompts, ValidHistory, HistoryIndexInRange
<1> QED
  BY <1>1, ShellInvHolds, PTL

(* The receive lane never stops without an error in the status. *)
THEOREM StoppedLaneShows == Spec => []StopIsVisible
<1>1. ShellInv => StopIsVisible
  BY DEF ShellInv
<1> QED
  BY <1>1, ShellInvHolds, PTL

(* With runes that join the one before them because of what they are, no    *)
(* mix of keys, recalls, updates and answers leaves a prompt that cannot be *)
(* edited or shown any more.                                                *)
THEOREM PromptsAreUsable == GluedByRight => (Spec => []PromptIsUsable)
<1> SUFFICES ASSUME GluedByRight PROVE Spec => []PromptIsUsable
  OBVIOUS
<1>1. ShellInv => PromptIsUsable
  BY DEF ShellInv, Prompts, PromptIsUsable, ValidEditor
<1> QED
  BY <1>1, ShellInvHolds, PTL

(* What is shown from the session changes only with a newer update. *)
THEOREM RevisionsIncrease == Spec => ShownRevisionsIncrease
<1> DEFINE shown == <<workspace, activity, revision>>
           A == shown' # shown => revision' > revision
<1>1. [Next]_vars => A
  <2> SUFFICES ASSUME [Next]_vars, shown' # shown
               PROVE  revision' > revision
    OBVIOUS
  <2>1. ASSUME NEW key, Press(key) PROVE FALSE
    <3>1. UpdateKey(key)
      BY <2>1 DEF Press
    <3>2. UNCHANGED viewVars
      BY <3>1 DEF UpdateKey, ApplyAction, Quit, IssuePrompt, IssueCancel, MoveCursor,
                  HistoryPrevious, HistoryNext, DeleteBack, TypeText, Ignore, Edit
    <3> QED
      BY <3>2 DEF viewVars
  <2>2. ASSUME NEW task \in tasks, Deliver(task) PROVE revision' > revision
    <3>1. ~UNCHANGED <<workspace, activity, revision>>
      OBVIOUS
    <3>2. ~CompleteOperation(task.token, task.reply) /\ ~CompleteCancel(task.token, task.reply)
      BY <3>1 DEF CompleteOperation, CompleteCancel, Ignore, FailOperation, CommitOperation, viewVars
    <3>3. CompleteReceive(task.token, task.reply)
      BY <2>2, <3>1, <3>2 DEF Deliver, modelVars, viewVars
    <3> QED
      BY <3>1, <3>3
         DEF CompleteReceive, Ignore, StopReceiving, ApplySessionUpdate, Fresh, viewVars
  <2>3. ASSUME UNCHANGED modelVars PROVE FALSE
    BY <2>3 DEF modelVars, viewVars
  <2>4. ASSUME NEW width, NEW height, TerminalResized(width, height) PROVE FALSE
    BY <2>4 DEF TerminalResized, Resize, Ignore, viewVars
  <2>5. ~StartCommand
    BY DEF StartCommand, viewVars
  <2> QED
    BY <2>1, <2>2, <2>3, <2>4, <2>5, StepCases, MovesOn, RunStepIsQuiet DEF Drop, SessionReturns
<1>2. [Next]_vars => [A]_vars
  BY <1>1
<1> QED
  BY <1>2, PTL DEF Spec, ShownRevisionsIncrease

-----------------------------------------------------------------------------
(* The weight of the window, a fold over it *)

LEMMA WeightIsNatural ==
  ASSUME NEW items \in Seq(Item)
  PROVE  ActivityWeight(items) \in Nat /\ (items = << >> => ActivityWeight(items) = 0)
<1>1. Weight \in [DOMAIN Weight -> Nat] /\ items \in Seq(DOMAIN Weight)
  BY PresentationAssumption, SeqMonotonic
<1>2. ActivityWeight(items) = FoldSum(Weight, items)
  BY DEF ActivityWeight, FoldSum
<1> QED
  BY <1>1, <1>2, FoldSumIsNatural

-----------------------------------------------------------------------------
(* The window of the activity *)

LEMMA FittingView ==
  ASSUME NEW ws \in Workspace, NEW st \in Status, NEW ed \in Editor, NEW items \in Seq(Item),
         ViewFits(ws, st, ed, items)
  PROVE  Len(items) <= MaxActivity /\ Weight[ws] + ActivityWeight(items) <= MaxView
<1>1. /\ Weight[ws] \in Nat /\ Weight[st] \in Nat /\ MaxView \in Nat
      /\ Len(ed.value) \in Nat /\ ActivityWeight(items) \in Nat
  BY WeightIsNatural, PresentationAssumption DEF Editor, Text
<1>2. /\ Len(items) <= MaxActivity
      /\ Weight[ws] + Weight[st] + Len(ed.value) + ActivityWeight(items) <= MaxView
  BY DEF ViewFits
<1>3. \A a, b, c, d, max \in Nat : a + b + c + d <= max => a + d <= max
  OBVIOUS
<1> QED
  BY <1>1, <1>2, <1>3, Zenon

(* What was shown leaves room for the workspace alone. *)
LEMMA WorkspaceFits ==
  ASSUME ViewTypes, WindowIsBounded
  PROVE  Weight[workspace] <= MaxView
<1>1. /\ Weight[workspace] \in Nat /\ ActivityWeight(activity) \in Nat /\ MaxView \in Nat
  BY WeightIsNatural, PresentationAssumption DEF ViewTypes
<1> QED
  BY <1>1 DEF WindowIsBounded

LEMMA WindowByUpdate ==
  ASSUME ShellInv, WindowIsBounded, NEW update \in Replies("receive"), Fresh(update),
         ApplySessionUpdate(update)
  PROVE  WindowIsBounded'
<1>1. /\ ValidUpdate(update) /\ ViewTypes /\ editor \in Editor
      /\ update.kind = "snapshot" =>
           /\ update.workspace \in Workspace /\ update.status \in Status
           /\ update.activity \in Seq(Item)
      /\ update.kind = "activity" => update.item \in Item
  BY ShownUpdate DEF ShellInv, ViewTypes, Prompts
<1>2. CASE update.kind = "snapshot"
  <2>1. workspace' = update.workspace /\ activity' = update.activity
    BY <1>2 DEF ApplySessionUpdate
  <2>2. ViewFits(update.workspace, update.status, ZeroEditor, update.activity)
    BY <1>1, <1>2 DEF ValidUpdate
  <2>3. /\ Len(update.activity) <= MaxActivity
        /\ Weight[update.workspace] + ActivityWeight(update.activity) <= MaxView
    BY <1>1, <1>2, <2>2, FittingView, ZeroEditorSound
  <2> QED
    BY <2>1, <2>3 DEF WindowIsBounded
<1>3. CASE update.kind = "activity"
  <2> DEFINE fitting == FittingActivity(Append(activity, update.item))
  <2>1. workspace' = workspace /\ activity' = fitting
    BY <1>3 DEF ApplySessionUpdate
  <2>2. /\ Append(activity, update.item) \in Seq(Item)
        /\ workspace \in Workspace /\ status \in Status
    BY <1>1, <1>3 DEF ViewTypes
  <2>3. /\ fitting \in Seq(Item)
        /\ fitting = << >> \/ ViewFits(workspace, status, editor, fitting)
    BY <2>2, FittingActivityIsActivity
  <2> HIDE DEF fitting
  <2>4. Len(fitting) <= MaxActivity /\ Weight[workspace] + ActivityWeight(fitting) <= MaxView
    <3>1. CASE fitting = << >>
      <4>1. ActivityWeight(fitting) = 0 /\ Len(fitting) = 0
        BY <2>3, <3>1, WeightIsNatural
      <4>2. Weight[workspace] <= MaxView
        BY <1>1, WorkspaceFits
      <4>3. Weight[workspace] \in Nat /\ MaxView \in Nat /\ MaxActivity \in Nat
        BY <2>2, PresentationAssumption
      <4> QED
        BY <4>1, <4>2, <4>3
    <3>2. CASE ViewFits(workspace, status, editor, fitting)
      BY <1>1, <2>2, <2>3, <3>2, FittingView
    <3> QED
      BY <2>3, <3>1, <3>2
  <2> QED
    BY <2>1, <2>4 DEF WindowIsBounded
<1>4. CASE update.kind = "prompt-history"
  BY <1>4 DEF ApplySessionUpdate, WindowIsBounded
<1> QED
  BY <1>2, <1>3, <1>4 DEF ApplySessionUpdate

LEMMA WindowStep == ShellInv /\ WindowIsBounded /\ [Next]_vars => WindowIsBounded'
<1> SUFFICES ASSUME ShellInv, WindowIsBounded, [Next]_vars PROVE WindowIsBounded'
  OBVIOUS
<1>1. ASSUME UNCHANGED <<workspace, activity>> PROVE WindowIsBounded'
  BY <1>1 DEF WindowIsBounded
<1>2. ASSUME UNCHANGED viewVars \/ UNCHANGED modelVars \/ UNCHANGED vars PROVE WindowIsBounded'
  BY <1>1, <1>2 DEF viewVars, modelVars, vars
<1>3. ASSUME NEW key, Press(key) PROVE WindowIsBounded'
  <2>1. UpdateKey(key)
    BY <1>3 DEF Press
  <2>2. UNCHANGED viewVars
    BY <2>1 DEF UpdateKey, ApplyAction, Quit, IssuePrompt, IssueCancel, MoveCursor,
                HistoryPrevious, HistoryNext, DeleteBack, TypeText, Ignore, Edit
  <2> QED
    BY <1>2, <2>2
<1>4. ASSUME NEW task \in tasks, Deliver(task) PROVE WindowIsBounded'
  <2>1. CASE CompleteOperation(task.token, task.reply) \/ CompleteCancel(task.token, task.reply)
    BY <1>1, <2>1 DEF CompleteOperation, CompleteCancel, Ignore, FailOperation, CommitOperation,
                      viewVars
  <2>2. CASE LaneOf(task.kind) = "receive" /\ CompleteReceive(task.token, task.reply)
    <3>1. task.reply \in Replies("receive")
      <4>1. task.kind = "receive"
        BY <2>2 DEF LaneOf
      <4> QED
        BY <4>1 DEF ShellInv, TaskTypes
    <3>2. CASE Ignore \/ StopReceiving
      BY <1>1, <3>2 DEF Ignore, StopReceiving, viewVars
    <3>3. CASE Fresh(task.reply) /\ ApplySessionUpdate(task.reply)
      BY <3>1, <3>3, WindowByUpdate
    <3> QED
      BY <2>2, <3>2, <3>3 DEF CompleteReceive
  <2>3. CASE UNCHANGED modelVars
    BY <1>2, <2>3
  <2> QED
    BY <1>4, <2>1, <2>2, <2>3 DEF Deliver
<1>5. ASSUME NEW width, NEW height, TerminalResized(width, height) PROVE WindowIsBounded'
  BY <1>2, <1>5 DEF TerminalResized, Resize, Ignore
<1> QED
  BY <1>2, <1>3, <1>4, <1>5, StepCases, MovesOn, RunStepIsQuiet
     DEF StartCommand, Drop, SessionReturns

(* The window of the activity never exceeds its items nor, with the         *)
(* workspace, the bytes of a view, whatever is appended and whatever        *)
(* snapshot replaces it, and the history stays within its bound with its    *)
(* place inside it (model.go:253-283, 364-400; values.go:416-442).          *)
THEOREM ListsStayBounded == Spec => []ListsAreBounded
<1>1. Init => WindowIsBounded
  <2>1. ActivityWeight(<< >>) = 0 /\ Len(<< >>) = 0
    BY WeightIsNatural, EmptySeq
  <2>2. Weight[InitialWorkspace] \in Nat /\ Weight[InitialStatus] \in Nat
    BY PresentationAssumption
  <2>3. Weight[InitialWorkspace] <= MaxView /\ {MaxView, MaxActivity} \subseteq Nat
    BY <2>2, PresentationAssumption
  <2>4. Init => workspace = InitialWorkspace /\ activity = << >>
    BY DEF Init, InitModel, NewModel
  <2> QED
    BY <2>1, <2>2, <2>3, <2>4 DEF WindowIsBounded
<1>2. HistoryIndexInRange /\ WindowIsBounded => ListsAreBounded
  BY DEF ListsAreBounded
<1> QED
  BY <1>1, <1>2, WindowStep, ShellInvHolds, HistoryIsIndexed, PTL DEF Spec

-----------------------------------------------------------------------------
(* The lanes *)

(* At most one goroutine of a lane, none while its command waits for one,  *)
(* and both carry the token the model waits for.                           *)
LaneInv(lane) ==
  /\ \A t1, t2 \in InLane(lane) : t1 = t2
  /\ \A t \in InLane(lane) : Current(lane).active /\ t.token = Current(lane).token
  /\ LaneOf(command.kind) = lane =>
       /\ InLane(lane) = {}
       /\ Current(lane).active /\ command.token = Current(lane).token

(* What a key does to the lanes: it issues one operation or one cancel in a *)
(* lane that is free, asks to quit, or leaves them alone.                   *)
IssuesOperation ==
  /\ ~operationActive /\ operationActive'
  /\ LaneOf(command'.kind) = "ordinary" /\ command'.token = operationToken'
  /\ UNCHANGED <<receiveVars, cancelVars>>

IssuesCancel ==
  /\ ~cancelActive /\ cancelActive'
  /\ LaneOf(command'.kind) = "cancel" /\ command'.token = cancelToken'
  /\ UNCHANGED <<receiveVars, operationVars>>

LeavesLanes ==
  /\ LaneOf(command'.kind) = "none"
  /\ UNCHANGED <<receiveVars, operationVars, cancelVars>>

LEMMA LanesOfKinds ==
  /\ LaneOf("receive") = "receive" /\ LaneOf("cancel") = "cancel"
  /\ LaneOf("quit") = "none" /\ LaneOf("none") = "none"
  /\ \A kind \in PromptActions : LaneOf(kind) = "ordinary"
  /\ LaneOf(NoCommand.kind) = "none"
BY DEF LaneOf, PromptActions, NoCommand, Command

LEMMA KeyEffect ==
  ASSUME NEW key, UpdateKey(key)
  PROVE  IssuesOperation \/ IssuesCancel \/ LeavesLanes
<1>1. ASSUME NEW kind \in PromptActions, IssuePrompt(kind)
      PROVE  IssuesOperation
  BY <1>1, LanesOfKinds DEF IssuePrompt, OperationFree, IssuesOperation, Command
<1>2. ASSUME IssueCancel PROVE IssuesCancel
  BY <1>2, LanesOfKinds DEF IssueCancel, CancelFree, IssuesCancel, Command
<1>3. ASSUME Quit PROVE LeavesLanes
  BY <1>3, LanesOfKinds DEF Quit, LeavesLanes, Command
<1>4. ASSUME Edit PROVE LeavesLanes
  BY <1>4, LanesOfKinds DEF Edit, LeavesLanes
<1>5. ASSUME Ignore PROVE LeavesLanes
  BY <1>5, LanesOfKinds DEF Ignore, LeavesLanes
<1>6. ASSUME NEW action, ApplyAction(action)
      PROVE  IssuesOperation \/ IssuesCancel \/ LeavesLanes
  BY <1>6, <1>1, <1>2, <1>3, <1>4, <1>5
     DEF ApplyAction, MoveCursor, HistoryPrevious, HistoryNext, DeleteBack
<1> QED
  BY <1>4, <1>5, <1>6 DEF UpdateKey, TypeText

(* The receive lane asks for the next update. *)
Rearms ==
  /\ receiveArmed' /\ LaneOf(command'.kind) = "receive" /\ command'.token = receiveToken'

LEMMA ReceiveEffect ==
  ASSUME NEW token, NEW update, CompleteReceive(token, update),
         receiveArmed, token = receiveToken
  PROVE  /\ (~receiveArmed' /\ LaneOf(command'.kind) = "none") \/ Rearms
         /\ UNCHANGED <<operationVars, cancelVars>>
<1>1. ASSUME StopReceiving PROVE ~receiveArmed' /\ LaneOf(command'.kind) = "none"
  BY <1>1, LanesOfKinds DEF StopReceiving
<1>2. ASSUME RearmReceive
      PROVE  (~receiveArmed' /\ LaneOf(command'.kind) = "none") \/ Rearms
  BY <1>2, LanesOfKinds DEF RearmReceive, Rearms, Command
<1> QED
  BY <1>1, <1>2 DEF CompleteReceive, StaleReceive

LEMMA OperationEffect ==
  ASSUME NEW token, NEW answer, CompleteOperation(token, answer),
         operationActive, token = operationToken
  PROVE  /\ ~operationActive' /\ LaneOf(command'.kind) = "none"
         /\ UNCHANGED <<receiveVars, cancelVars>>
BY LanesOfKinds DEF CompleteOperation, StaleOperation

LEMMA CancelEffect ==
  ASSUME NEW token, NEW answer, CompleteCancel(token, answer),
         cancelActive, token = cancelToken
  PROVE  /\ ~cancelActive' /\ LaneOf(command'.kind) = "none"
         /\ UNCHANGED <<receiveVars, operationVars>>
BY LanesOfKinds DEF CompleteCancel, StaleCancel

-----------------------------------------------------------------------------
(* The steps that leave the requests of every lane as they are, up to the   *)
(* stage they are in.                                                       *)

LEMMA CurrentOf ==
  /\ Current("receive") = [active |-> receiveArmed, token |-> receiveToken]
  /\ Current("ordinary") = [active |-> operationActive, token |-> operationToken]
  /\ Current("cancel") = [active |-> cancelActive, token |-> cancelToken]
  /\ Current("receive")' = [active |-> receiveArmed', token |-> receiveToken']
  /\ Current("ordinary")' = [active |-> operationActive', token |-> operationToken']
  /\ Current("cancel")' = [active |-> cancelActive', token |-> cancelToken']
BY DEF Current

LEMMA CurrentUnchanged ==
  ASSUME NEW lane \in Lanes, UNCHANGED <<receiveVars, operationVars, cancelVars>>
  PROVE  Current(lane)' = Current(lane)
BY DEF Current, Lanes, receiveVars, operationVars, cancelVars

LEMMA FewerTasks ==
  ASSUME NEW lane \in Lanes, LaneInv(lane), tasks' \subseteq tasks,
         UNCHANGED <<receiveVars, operationVars, cancelVars>>,
         LaneOf(command'.kind) = "none" \/ command' = command
  PROVE  LaneInv(lane)'
<1>1. Current(lane)' = Current(lane)
  BY CurrentUnchanged
<1>2. InLane(lane)' \subseteq InLane(lane)
  BY DEF InLane
<1> QED
  BY <1>1, <1>2 DEF LaneInv, Lanes

LEMMA ReplacedTask ==
  ASSUME NEW lane \in Lanes, LaneInv(lane), NEW task \in tasks, NEW stage, NEW reply,
         Replace(task, stage, reply), UNCHANGED modelVars
  PROVE  /\ LaneInv(lane)'
         /\ InLane(lane) # {} => InLane(lane)' # {}
<1> DEFINE new == Task(task.kind, task.token, task.prompt, stage, reply)
<1>1. Current(lane)' = Current(lane) /\ command' = command
  BY CurrentUnchanged DEF modelVars
<1>2. new.kind = task.kind /\ new.token = task.token
  BY DEF Task
<1>3. tasks' = (tasks \ {task}) \cup {new}
  BY DEF Replace
<1> HIDE DEF new
<1>4. CASE LaneOf(task.kind) = lane
  <2>1. InLane(lane) = {task}
    BY <1>4 DEF InLane, LaneInv
  <2>2. InLane(lane)' = {new}
    BY <1>2, <1>3, <1>4, <2>1 DEF InLane
  <2> QED
    BY <1>1, <1>2, <2>1, <2>2 DEF LaneInv
<1>5. CASE LaneOf(task.kind) # lane
  <2>1. InLane(lane)' = InLane(lane)
    BY <1>2, <1>3, <1>5 DEF InLane
  <2> QED
    BY <1>1, <2>1 DEF LaneInv
<1> QED
  BY <1>4, <1>5

LEMMA StartedCommand ==
  ASSUME NEW lane \in Lanes, LaneInv(lane), StartCommand
  PROVE  /\ LaneInv(lane)'
         /\ Requests(lane) # {} => Requests(lane)' # {}
<1> DEFINE new == TaskOf(command)
<1>1. /\ Current(lane)' = Current(lane) /\ tasks' = tasks \cup {new}
      /\ LaneOf(command'.kind) = "none"
  BY CurrentUnchanged, LanesOfKinds DEF StartCommand
<1>2. new.kind = command.kind /\ new.token = command.token
  BY DEF TaskOf, Task
<1> HIDE DEF new
<1>3. CASE LaneOf(command.kind) = lane
  <2>1. InLane(lane)' = {new}
    BY <1>1, <1>2, <1>3 DEF InLane, LaneInv
  <2> QED
    BY <1>1, <1>2, <1>3, <2>1 DEF LaneInv, Lanes, Requests
<1>4. CASE LaneOf(command.kind) # lane
  <2>1. InLane(lane)' = InLane(lane)
    BY <1>1, <1>2, <1>4 DEF InLane
  <2> QED
    BY <1>1, <1>4, <2>1 DEF LaneInv, Lanes, Requests
<1> QED
  BY <1>3, <1>4

LEMMA PressedKey ==
  ASSUME NEW lane \in Lanes, LaneInv(lane), NEW key, Press(key)
  PROVE  /\ LaneInv(lane)'
         /\ Current(lane)'.active => Current(lane).active \/ Requests(lane)' # {}
         /\ InLane(lane)' = InLane(lane)
<1>1. /\ command = NoCommand /\ InLane(lane)' = InLane(lane)
      /\ IssuesOperation \/ IssuesCancel \/ LeavesLanes
  BY KeyEffect DEF Press, Accepting, runtimeVars, InLane
<1>2. CASE LeavesLanes
  BY <1>1, <1>2, CurrentUnchanged DEF LaneInv, LeavesLanes, Lanes
<1>3. CASE IssuesOperation
  <2>1. CASE lane = "ordinary"
    <3>1. InLane(lane) = {}
      BY <1>3, <2>1, CurrentOf DEF LaneInv, IssuesOperation
    <3> QED
      BY <1>1, <1>3, <2>1, <3>1, CurrentOf DEF LaneInv, IssuesOperation, Requests
  <2>2. CASE lane # "ordinary"
    BY <1>1, <1>3, <2>2 DEF LaneInv, IssuesOperation, Lanes, Current, receiveVars, cancelVars
  <2> QED
    BY <2>1, <2>2
<1>4. CASE IssuesCancel
  <2>1. CASE lane = "cancel"
    <3>1. InLane(lane) = {}
      BY <1>4, <2>1, CurrentOf DEF LaneInv, IssuesCancel
    <3> QED
      BY <1>1, <1>4, <2>1, <3>1, CurrentOf DEF LaneInv, IssuesCancel, Requests
  <2>2. CASE lane # "cancel"
    BY <1>1, <1>4, <2>2
       DEF LaneInv, IssuesCancel, Lanes, Current, receiveVars, operationVars
  <2> QED
    BY <2>1, <2>2
<1> QED
  BY <1>1, <1>2, <1>3, <1>4

LEMMA DeliveredAnswer ==
  ASSUME NEW lane \in Lanes, \A l \in Lanes : LaneInv(l), NEW task \in tasks, Deliver(task)
  PROVE  /\ LaneInv(lane)'
         /\ Current(lane)'.active =>
              Requests(lane)' # {} \/ (Current(lane).active /\ task \notin InLane(lane))
<1>1. tasks' = tasks \ {task} /\ command = NoCommand
  BY DEF Deliver, Accepting
<1>2. \A l \in Lanes : InLane(l)' = InLane(l) \ {task}
  BY <1>1 DEF InLane
<1>3. \A l \in Lanes : task \in InLane(l) =>
        InLane(l) = {task} /\ Current(l).active /\ task.token = Current(l).token
  BY DEF LaneInv
<1>4. CASE LaneOf(task.kind) = "receive" /\ CompleteReceive(task.token, task.reply)
  <2>1. /\ InLane("receive") = {task} /\ receiveArmed /\ task.token = receiveToken
    BY <1>3, <1>4, CurrentOf DEF InLane, Lanes
  <2>2. /\ (~receiveArmed' /\ LaneOf(command'.kind) = "none") \/ Rearms
        /\ UNCHANGED <<operationVars, cancelVars>>
    BY <1>4, <2>1, ReceiveEffect
  <2>3. CASE lane = "receive"
    BY <1>2, <2>1, <2>2, <2>3, CurrentOf DEF LaneInv, Rearms, Requests, Lanes
  <2>4. CASE lane # "receive"
    <3>1. task \notin InLane(lane)
      BY <1>4, <2>4 DEF InLane
    <3> QED
      BY <1>2, <2>2, <2>4, <3>1
         DEF LaneInv, Rearms, Lanes, Current, operationVars, cancelVars
  <2> QED
    BY <2>3, <2>4
<1>5. CASE LaneOf(task.kind) = "ordinary" /\ CompleteOperation(task.token, task.reply)
  <2>1. /\ InLane("ordinary") = {task} /\ operationActive /\ task.token = operationToken
    BY <1>3, <1>5, CurrentOf DEF InLane, Lanes
  <2>2. /\ ~operationActive' /\ LaneOf(command'.kind) = "none"
        /\ UNCHANGED <<receiveVars, cancelVars>>
    BY <1>5, <2>1, OperationEffect
  <2>3. CASE lane = "ordinary"
    BY <1>2, <2>1, <2>2, <2>3, CurrentOf DEF LaneInv, Lanes
  <2>4. CASE lane # "ordinary"
    <3>1. task \notin InLane(lane)
      BY <1>5, <2>4 DEF InLane
    <3> QED
      BY <1>2, <2>2, <2>4, <3>1 DEF LaneInv, Lanes, Current, receiveVars, cancelVars
  <2> QED
    BY <2>3, <2>4
<1>6. CASE LaneOf(task.kind) = "cancel" /\ CompleteCancel(task.token, task.reply)
  <2>1. /\ InLane("cancel") = {task} /\ cancelActive /\ task.token = cancelToken
    BY <1>3, <1>6, CurrentOf DEF InLane, Lanes
  <2>2. /\ ~cancelActive' /\ LaneOf(command'.kind) = "none"
        /\ UNCHANGED <<receiveVars, operationVars>>
    BY <1>6, <2>1, CancelEffect
  <2>3. CASE lane = "cancel"
    BY <1>2, <2>1, <2>2, <2>3, CurrentOf DEF LaneInv, Lanes
  <2>4. CASE lane # "cancel"
    <3>1. task \notin InLane(lane)
      BY <1>6, <2>4 DEF InLane
    <3> QED
      BY <1>2, <2>2, <2>4, <3>1 DEF LaneInv, Lanes, Current, receiveVars, operationVars
  <2> QED
    BY <2>3, <2>4
<1>7. CASE task.kind = "quit" /\ UNCHANGED modelVars
  <2>1. task \notin InLane(lane)
    BY <1>7, LanesOfKinds DEF InLane, Lanes
  <2>2. Current(lane)' = Current(lane) /\ command' = command
    BY <1>7, CurrentUnchanged DEF modelVars
  <2> QED
    BY <1>2, <2>1, <2>2 DEF LaneInv
<1> QED
  BY <1>4, <1>5, <1>6, <1>7 DEF Deliver

-----------------------------------------------------------------------------
(* The end of a run: what the loop, the signals, the contexts and what is   *)
(* returned say of each other.                                              *)
EndInv ==
  /\ programErr # "none" => loop # "running"
  /\ programErr = "killed" => loop # "quit" \/ runDone
  /\ programErr = "nil" => loop = "quit"
  /\ loop = "context" => runDone
  /\ callerErr # "unread" => programErr # "none"
  /\ callerErr = "done" => callerDone
  /\ callerErr = "none" /\ loop = "context" => quitAsked
  /\ runDone /\ result = "none" => callerDone \/ quitAsked
  /\ result # "none" => runDone /\ callerErr # "unread"
  /\ ReturnIsHonest

LaneIInv ==
  /\ \A lane \in Lanes : LaneInv(lane)
  /\ NoLostLane
  /\ EndInv

LEMMA LaneInit == Init => LaneIInv
<1> SUFFICES ASSUME Init PROVE LaneIInv
  OBVIOUS
<1> DEFINE first == TaskOf(InitCommand)
<1>1. /\ first.kind = "receive" /\ first.token = 1 /\ tasks = {first}
      /\ LaneOf(command.kind) = "none"
      /\ receiveArmed /\ receiveToken = 1 /\ ~operationActive /\ ~cancelActive
  BY LanesOfKinds DEF Init, InitModel, NewModel, InitCommand, TaskOf, Task, Command
<1> HIDE DEF first
<1>2. /\ InLane("receive") = {first} /\ InLane("ordinary") = {} /\ InLane("cancel") = {}
  BY <1>1, LanesOfKinds DEF InLane
<1>3. \A lane \in Lanes : LaneInv(lane)
  BY <1>1, <1>2, CurrentOf DEF LaneInv, Lanes
<1>4. NoLostLane
  BY <1>1, <1>2, CurrentOf DEF NoLostLane, Lanes, Requests
<1>5. EndInv
  BY DEF Init, EndInv, ReturnIsHonest, ErrorMeansFailure, FailureIsReported, CallerIsTold
<1> QED
  BY <1>3, <1>4, <1>5 DEF LaneIInv

(* The steps that touch no lane at all. *)
LEMMA LanesUntouched ==
  ASSUME LaneIInv, UNCHANGED <<modelVars, tasks>>,
         loop' = "running" /\ ~runDone' => loop = "running" /\ ~runDone
  PROVE  (\A lane \in Lanes : LaneInv(lane)') /\ NoLostLane'
<1>1. /\ UNCHANGED <<receiveVars, operationVars, cancelVars>> /\ command' = command
  BY DEF modelVars
<1>2. \A lane \in Lanes : Current(lane)' = Current(lane)
  BY <1>1, CurrentUnchanged
<1>3. \A lane : InLane(lane)' = InLane(lane)
  BY DEF InLane
<1> QED
  BY <1>1, <1>2, <1>3 DEF LaneIInv, LaneInv, NoLostLane, Requests

LEMMA EndStep ==
  ASSUME EndInv, RunTypes, [Next]_vars
  PROVE  EndInv'
<1> USE DEF EndInv, ReturnIsHonest, ErrorMeansFailure, FailureIsReported, CallerIsTold
<1>1. CASE UNCHANGED endVars
  BY <1>1 DEF endVars
<1>2. ASSUME NEW task, QuitRuns(task) PROVE EndInv'
  BY <1>2 DEF QuitRuns
<1>3. ASSUME NEW task, Deliver(task) PROVE EndInv'
  <2>1. UNCHANGED <<callerDone, runDone, programErr, callerErr, result, quitAsked>>
    BY <1>3 DEF Deliver
  <2>2. loop = "running" /\ loop' \in {"running", "quit"}
    BY <1>3 DEF Deliver, Accepting
  <2> QED
    BY <2>1, <2>2
<1>4. ASSUME NEW reason \in Loops, EndLoop(reason), loop = "running" \/ programErr = "none",
             reason = "context" => runDone
      PROVE  EndInv'
  BY <1>4 DEF EndLoop, RunTypes
<1>5. CASE ContextEndsLoop \/ ProgramFails \/ TakeSignal
  BY <1>4, <1>5 DEF ContextEndsLoop, ProgramFails, TakeSignal, Accepting, Loops
<1>6. CASE ListenerEnds \/ \E message \in SignalMessages : SignalArrives(message)
  BY <1>6 DEF ListenerEnds, SignalArrives
<1>7. CASE CallerCancels
  BY <1>7 DEF CallerCancels
<1>8. CASE CancellationSpreads
  BY <1>8 DEF CancellationSpreads
<1>9. CASE ShutDown
  BY <1>9 DEF ShutDown, RunTypes
<1>10. CASE ProgramReturns
  BY <1>10 DEF ProgramReturns, RunTypes
<1>11. CASE ShellReturns
  BY <1>11 DEF ShellReturns, Outcome, RunTypes, Loops
<1>12. UNCHANGED vars => UNCHANGED endVars
  BY DEF vars, runtimeVars
<1>13. CASE RunStep
  BY <1>1, <1>5, <1>6, <1>7, <1>8, <1>9, <1>10, <1>11, <1>12, <1>13 DEF RunStep
<1>14. CASE \/ StartCommand
            \/ \E task \in tasks : Drop(task)
            \/ \E task \in tasks : \E reply \in Replies(task.kind) : SessionReturns(task, reply)
  BY <1>1, <1>14 DEF StartCommand, Drop, SessionReturns
<1>15. CASE \/ \E key \in Keys : Press(key)
            \/ \E s \in Sizes : TerminalResized(s[1], s[2])
  BY <1>1, <1>15 DEF Press, TerminalResized, runtimeVars
<1> QED
  BY <1>1, <1>2, <1>3, <1>13, <1>14, <1>15, StepCases, MovesOn

LEMMA LaneStep == LaneIInv /\ ShellInv /\ [Next]_vars => LaneIInv'
<1> SUFFICES ASSUME LaneIInv, ShellInv, [Next]_vars PROVE LaneIInv'
  OBVIOUS
<1> EndInv'
  BY EndStep DEF LaneIInv, ShellInv
<1>0. (\A lane \in Lanes : LaneInv(lane)) /\ NoLostLane /\ EndInv
  BY DEF LaneIInv
<1>1. ASSUME NEW key, Press(key) PROVE LaneIInv'
  <2>1. UNCHANGED <<runDone, loop>>
    BY <1>1 DEF Press, runtimeVars, endVars
  <2>2. \A lane \in Lanes : LaneInv(lane)'
    BY <1>0, <1>1, PressedKey
  <2>3. ASSUME loop' = "running", ~runDone', NEW lane \in Lanes, Current(lane)'.active
        PROVE  Requests(lane)' # {}
    <3>1. CASE Requests(lane)' # {}
      BY <3>1
    <3>2. CASE Current(lane).active
      <4>1. Requests(lane) # {}
        BY <1>0, <2>1, <2>3, <3>2 DEF NoLostLane
      <4>2. Requests(lane) = InLane(lane)
        BY <1>1, LanesOfKinds DEF Press, Accepting, Requests, Lanes
      <4> QED
        BY <1>0, <1>1, <4>1, <4>2, PressedKey DEF Requests
    <3> QED
      BY <1>0, <1>1, <2>3, <3>1, <3>2, PressedKey
  <2> QED
    BY <2>2, <2>3 DEF LaneIInv, NoLostLane
<1>2. ASSUME NEW width, NEW height, TerminalResized(width, height) PROVE LaneIInv'
  <2>1. /\ UNCHANGED <<runDone, loop, tasks, command>>
        /\ UNCHANGED <<receiveVars, operationVars, cancelVars>>
    BY <1>2 DEF TerminalResized, Accepting, Resize, Ignore, runtimeVars, endVars
  <2>2. \A lane \in Lanes : LaneInv(lane)'
    BY <1>0, <2>1, FewerTasks
  <2>3. \A lane \in Lanes : Requests(lane)' = Requests(lane)
    BY <2>1 DEF Requests, InLane
  <2>4. \A lane \in Lanes : Current(lane)' = Current(lane)
    BY <2>1, CurrentUnchanged
  <2> QED
    BY <1>0, <2>1, <2>2, <2>3, <2>4 DEF LaneIInv, NoLostLane
<1>3. ASSUME StartCommand PROVE LaneIInv'
  <2>1. UNCHANGED <<runDone, loop, receiveVars, operationVars, cancelVars>>
    BY <1>3 DEF StartCommand, endVars
  <2>2. \A lane \in Lanes :
          LaneInv(lane)' /\ (Requests(lane) # {} => Requests(lane)' # {})
    BY <1>0, <1>3, StartedCommand
  <2>3. \A lane \in Lanes : Current(lane)' = Current(lane)
    BY <2>1, CurrentUnchanged
  <2> QED
    BY <1>0, <2>1, <2>2, <2>3 DEF LaneIInv, NoLostLane
<1>4. ASSUME NEW task \in tasks, Deliver(task) PROVE LaneIInv'
  <2>1. /\ runDone' = runDone /\ loop = "running"
        /\ command = NoCommand /\ tasks' = tasks \ {task}
    BY <1>4 DEF Deliver, Accepting
  <2>2. \A lane \in Lanes : LaneInv(lane)'
    BY <1>0, <1>4, DeliveredAnswer
  <2>3. ASSUME loop' = "running", ~runDone', NEW lane \in Lanes, Current(lane)'.active
        PROVE  Requests(lane)' # {}
    <3>1. CASE Requests(lane)' # {}
      BY <3>1
    <3>2. CASE Current(lane).active /\ task \notin InLane(lane)
      <4>1. Requests(lane) # {}
        BY <1>0, <2>1, <2>3, <3>2 DEF NoLostLane
      <4>2. Requests(lane) = InLane(lane)
        BY <2>1, LanesOfKinds DEF Requests, Lanes
      <4>3. InLane(lane)' = InLane(lane)
        BY <2>1, <3>2 DEF InLane
      <4> QED
        BY <4>1, <4>2, <4>3 DEF Requests
    <3> QED
      BY <1>0, <1>4, <2>3, <3>1, <3>2, DeliveredAnswer
  <2> QED
    BY <2>2, <2>3 DEF LaneIInv, NoLostLane
<1>5. ASSUME NEW task \in tasks, NEW stage, NEW reply, Replace(task, stage, reply),
             UNCHANGED <<modelVars, loop>>, runDone => runDone'
      PROVE  LaneIInv'
  <2>1. \A lane \in Lanes : LaneInv(lane)' /\ (InLane(lane) # {} => InLane(lane)' # {})
    BY <1>0, <1>5, ReplacedTask
  <2>2. /\ UNCHANGED <<receiveVars, operationVars, cancelVars>> /\ command' = command
    BY <1>5 DEF modelVars
  <2>3. \A lane \in Lanes : Current(lane)' = Current(lane)
    BY <2>2, CurrentUnchanged
  <2>4. \A lane \in Lanes : Requests(lane) # {} => Requests(lane)' # {}
    BY <2>1, <2>2 DEF Requests
  <2>5. NoLostLane'
    BY <1>0, <1>5, <2>3, <2>4 DEF NoLostLane
  <2> QED
    BY <2>1, <2>5 DEF LaneIInv
<1>6. ASSUME NEW task \in tasks, Drop(task) PROVE LaneIInv'
  <2>1. /\ UNCHANGED <<receiveVars, operationVars, cancelVars, command>>
        /\ UNCHANGED <<runDone, loop>>
        /\ tasks' \subseteq tasks
    BY <1>6 DEF Drop, modelVars, endVars
  <2>2. \A lane \in Lanes : LaneInv(lane)'
    BY <1>0, <2>1, FewerTasks
  <2>3. ~(loop' = "running" /\ ~runDone')
    BY <1>0, <1>6, <2>1 DEF Drop, ProgramDone, EndInv
  <2> QED
    BY <2>2, <2>3 DEF LaneIInv, NoLostLane
<1>7. ASSUME RunStep PROVE LaneIInv'
  <2>1. loop' = "running" /\ ~runDone' => loop = "running" /\ ~runDone
    BY <1>7 DEF RunStep, CallerCancels, ProgramFails, ContextEndsLoop, CancellationSpreads,
                TakeSignal, ListenerEnds, ShutDown, ProgramReturns, ShellReturns, SignalArrives,
                EndLoop, vars, runtimeVars, endVars
  <2>2. (\A lane \in Lanes : LaneInv(lane)') /\ NoLostLane'
    BY <1>7, <2>1, LanesUntouched, RunStepIsQuiet
  <2> QED
    BY <2>2 DEF LaneIInv
<1>8. ASSUME NEW task \in tasks, Check(task) \/ Call(task) \/ QuitRuns(task) PROVE LaneIInv'
  <2>1. loop' = loop /\ (runDone => runDone')
    BY <1>8, MovesOn DEF QuitRuns, endVars
  <2> QED
    BY <1>5, <1>8, <2>1, MovesOn
<1>9. ASSUME NEW task \in tasks, NEW reply, SessionReturns(task, reply) PROVE LaneIInv'
  BY <1>5, <1>9 DEF SessionReturns, endVars
<1> QED
  BY <1>1, <1>2, <1>3, <1>4, <1>6, <1>7, <1>8, <1>9, StepCases

LEMMA LaneIInvHolds == Spec => []LaneIInv
BY LaneInit, LaneStep, ShellInvHolds, PTL DEF Spec

(* Whatever the user types and whatever the session answers, in whatever    *)
(* order: the calls of a lane never overlap and no answer is taken for the  *)
(* answer of another request.                                               *)
THEOREM LanesAreSerialized == Spec => []LanesSerialized
<1>1. LaneIInv => LanesSerialized
  <2> SUFFICES ASSUME LaneIInv, NEW lane \in Lanes
               PROVE  /\ \A r1, r2 \in Requests(lane) : r1 = r2
                      /\ \A r \in Requests(lane) :
                           Current(lane).active /\ r.token = Current(lane).token
    BY DEF LanesSerialized
  <2>1. LaneInv(lane)
    BY DEF LaneIInv
  <2>2. CASE LaneOf(command.kind) = lane
    BY <2>1, <2>2 DEF LaneInv, Requests
  <2>3. CASE LaneOf(command.kind) # lane
    BY <2>1, <2>3 DEF LaneInv, Requests
  <2> QED
    BY <2>2, <2>3
<1> QED
  BY <1>1, LaneIInvHolds, PTL

(* No lane waits for an answer that cannot come while the program lives. *)
THEOREM NoLaneIsLost == Spec => []NoLostLane
<1>1. LaneIInv => NoLostLane
  BY DEF LaneIInv
<1> QED
  BY <1>1, LaneIInvHolds, PTL

(* What Run returns tells a failure, a cancellation and a quit apart where  *)
(* they do not race: a failure or an interrupt is returned as an error      *)
(* unless a quit was asked for or the caller cancelled by then, and nothing *)
(* else is; a run that only the caller ended returns the caller's error;    *)
(* and a caller that did not cancel is never told that it did, nor nil when *)
(* nobody asked for the end (shell.go:47-55).                               *)
THEOREM ReturnsAreHonest == Spec => []ReturnIsHonest
<1>1. LaneIInv => ReturnIsHonest
  BY DEF LaneIInv, EndInv
<1> QED
  BY <1>1, LaneIInvHolds, PTL

(* Once Run has returned no goroutine of it passes the adapter's look at    *)
(* the context any more: the calls that may still be made, or be under way, *)
(* are some of those that had passed it before (effects.go:48, 80).         *)
THEOREM NoCallOutlivesRun == Spec => NoCallAfterRun
<1> DEFINE A == result # "none" => MayStillCall(tasks') \subseteq MayStillCall(tasks)
<1>1. LaneIInv /\ [Next]_vars => A
  <2> SUFFICES ASSUME LaneIInv, [Next]_vars, result # "none"
               PROVE  MayStillCall(tasks') \subseteq MayStillCall(tasks)
    OBVIOUS
  <2>1. runDone /\ loop # "running"
    BY DEF LaneIInv, EndInv
  <2>2. ASSUME NEW task, NEW reply, Replace(task, "returned", reply)
        PROVE  MayStillCall(tasks') \subseteq MayStillCall(tasks)
    BY <2>2 DEF Replace, Task, MayStillCall
  <2>3. ASSUME tasks' \subseteq tasks
        PROVE  MayStillCall(tasks') \subseteq MayStillCall(tasks)
    BY <2>3 DEF MayStillCall
  <2>4. ASSUME NEW task \in tasks, Check(task) \/ QuitRuns(task)
        PROVE  MayStillCall(tasks') \subseteq MayStillCall(tasks)
    BY <2>1, <2>2, <2>4 DEF Check, MayCall, QuitRuns
  <2>5. ASSUME NEW task \in tasks, Call(task)
        PROVE  MayStillCall(tasks') \subseteq MayStillCall(tasks)
    <3> DEFINE new == Task(task.kind, task.token, task.prompt, "calling", task.reply)
    <3>1. /\ new.kind = task.kind /\ new.token = task.token
          /\ tasks' = (tasks \ {task}) \cup {new}
      BY <2>5 DEF Call, Replace, Task
    <3>2. task.stage = "cleared"
      BY <2>5 DEF Call
    <3> HIDE DEF new
    <3> QED
      BY <3>1, <3>2 DEF MayStillCall
  <2>6. ASSUME NEW task \in tasks, Deliver(task) \/ Drop(task)
        PROVE  MayStillCall(tasks') \subseteq MayStillCall(tasks)
    BY <2>3, <2>6 DEF Deliver, Drop
  <2>7. ASSUME NEW task \in tasks, NEW reply, SessionReturns(task, reply)
        PROVE  MayStillCall(tasks') \subseteq MayStillCall(tasks)
    BY <2>2, <2>7 DEF SessionReturns
  <2>8. ~StartCommand /\ ~\E key \in Keys : Press(key)
    BY <2>1 DEF StartCommand, Press, Accepting
  <2>9. ~\E s \in Sizes : TerminalResized(s[1], s[2])
    BY <2>1 DEF TerminalResized, Accepting
  <2>10. CASE RunStep
    BY <2>3, <2>10, RunStepIsQuiet
  <2> QED
    BY <2>4, <2>5, <2>6, <2>7, <2>8, <2>9, <2>10, StepCases
<1>2. LaneIInv /\ [Next]_vars => [A]_vars
  BY <1>1
<1> QED
  BY <1>2, LaneIInvHolds, PTL DEF Spec, NoCallAfterRun

-----------------------------------------------------------------------------
(* The prompt that was sent *)

(* What is in flight in the ordinary lane carries the text the model will   *)
(* remember when it is accepted.                                            *)
SentInv ==
  /\ \A t \in InLane("ordinary") : t.prompt = pendingPrompt
  /\ LaneOf(command.kind) = "ordinary" => command.prompt = pendingPrompt

LEMMA SentByKey ==
  ASSUME SentInv, LaneInv("ordinary"), NEW key, Press(key)
  PROVE  SentInv'
<1>1. InLane("ordinary")' = InLane("ordinary") /\ UpdateKey(key)
  BY DEF Press, runtimeVars, InLane
<1>2. CASE LeavesLanes \/ IssuesCancel
  BY <1>1, <1>2 DEF SentInv, LeavesLanes, IssuesCancel, operationVars
<1>3. CASE IssuesOperation
  <2>1. InLane("ordinary") = {}
    BY <1>3, CurrentOf DEF LaneInv, IssuesOperation
  <2>2. LaneOf(command'.kind) = "ordinary"
    BY <1>3 DEF IssuesOperation
  <2>3. ~Edit /\ ~Ignore /\ ~Quit /\ ~IssueCancel
    BY <2>2, LanesOfKinds DEF Edit, Ignore, Quit, IssueCancel, Command
  <2>4. PICK kind \in PromptActions : IssuePrompt(kind)
    BY <1>1, <2>3 DEF UpdateKey, ApplyAction, TypeText, MoveCursor, HistoryPrevious,
                      HistoryNext, DeleteBack
  <2> QED
    BY <1>1, <2>1, <2>4 DEF SentInv, IssuePrompt, Command
<1> QED
  BY <1>1, <1>2, <1>3, KeyEffect

LEMMA SentStep == SentInv /\ LaneIInv /\ [Next]_vars => SentInv'
<1> SUFFICES ASSUME SentInv, LaneIInv, [Next]_vars PROVE SentInv'
  OBVIOUS
<1>0. \A lane \in Lanes : LaneInv(lane)
  BY DEF LaneIInv
<1>1. ASSUME NEW key, Press(key) PROVE SentInv'
  BY <1>0, <1>1, SentByKey DEF Lanes
<1>2. ASSUME StartCommand PROVE SentInv'
  <2>1. tasks' = tasks \cup {TaskOf(command)} /\ command' = NoCommand
        /\ pendingPrompt' = pendingPrompt
    BY <1>2 DEF StartCommand, operationVars
  <2>2. TaskOf(command).kind = command.kind /\ TaskOf(command).prompt = command.prompt
    BY DEF TaskOf, Task
  <2> QED
    BY <2>1, <2>2, LanesOfKinds DEF SentInv, InLane
<1>3. ASSUME NEW task \in tasks, Deliver(task) PROVE SentInv'
  <2>1. InLane("ordinary")' = InLane("ordinary") \ {task} /\ command = NoCommand
    BY <1>3 DEF Deliver, Accepting, InLane
  <2>2. CASE UNCHANGED operationVars /\ LaneOf(command'.kind) # "ordinary"
    BY <2>1, <2>2 DEF SentInv, operationVars
  <2>3. CASE LaneOf(task.kind) = "receive" /\ CompleteReceive(task.token, task.reply)
    <3>1. UNCHANGED operationVars
      BY <2>3 DEF CompleteReceive, Ignore
    <3>2. command' = NoCommand \/ command'.kind = "receive"
      BY <2>3 DEF CompleteReceive, Ignore, StopReceiving, RearmReceive, Command
    <3> QED
      BY <2>2, <3>1, <3>2, LanesOfKinds
  <2>4. CASE LaneOf(task.kind) = "ordinary" /\ CompleteOperation(task.token, task.reply)
    <3>1. InLane("ordinary") = {task}
      BY <1>0, <2>4 DEF InLane, LaneInv, Lanes
    <3>2. command' = NoCommand
      BY <2>4 DEF CompleteOperation, Ignore
    <3> QED
      BY <2>1, <3>1, <3>2, LanesOfKinds DEF SentInv
  <2>5. CASE LaneOf(task.kind) = "cancel" /\ CompleteCancel(task.token, task.reply)
    <3>1. UNCHANGED operationVars /\ command' = NoCommand
      BY <2>5 DEF CompleteCancel, Ignore
    <3> QED
      BY <2>2, <3>1, LanesOfKinds
  <2>6. CASE task.kind = "quit" /\ UNCHANGED modelVars
    BY <2>1, <2>2, <2>6, LanesOfKinds DEF modelVars
  <2> QED
    BY <1>3, <2>3, <2>4, <2>5, <2>6 DEF Deliver
<1>4. ASSUME NEW task \in tasks, NEW stage, NEW reply, Replace(task, stage, reply),
             UNCHANGED modelVars
      PROVE  SentInv'
  <2>1. UNCHANGED <<command, pendingPrompt>>
    BY <1>4 DEF modelVars, operationVars
  <2> QED
    BY <1>4, <2>1 DEF SentInv, InLane, Replace, Task
<1>5. ASSUME tasks' \subseteq tasks, UNCHANGED operationVars,
             command' = command \/ command' = NoCommand
      PROVE  SentInv'
  BY <1>5, LanesOfKinds DEF SentInv, InLane, operationVars
<1>6. ASSUME NEW width, NEW height, TerminalResized(width, height) PROVE SentInv'
  BY <1>5, <1>6 DEF TerminalResized, Resize, Ignore, runtimeVars
<1>7. ASSUME UNCHANGED modelVars, tasks' \subseteq tasks PROVE SentInv'
  BY <1>5, <1>7 DEF modelVars
<1>8. ASSUME NEW task \in tasks, Check(task) \/ Call(task) \/ QuitRuns(task) PROVE SentInv'
  BY <1>4, <1>8, MovesOn
<1>9. ASSUME NEW task \in tasks, NEW reply, SessionReturns(task, reply) PROVE SentInv'
  BY <1>4, <1>9 DEF SessionReturns
<1>10. ASSUME NEW task \in tasks, Drop(task) PROVE SentInv'
  BY <1>7, <1>10 DEF Drop
<1>11. ASSUME RunStep PROVE SentInv'
  BY <1>7, <1>11, RunStepIsQuiet
<1> QED
  BY <1>1, <1>2, <1>3, <1>6, <1>8, <1>9, <1>10, <1>11, StepCases

LEMMA SentInvHolds == Spec => []SentInv
<1>1. Init => SentInv
  BY LanesOfKinds DEF Init, InitModel, NewModel, InitCommand, SentInv, InLane, TaskOf, Task, Command
<1> QED
  BY <1>1, SentStep, LaneIInvHolds, PTL DEF Spec

(* What a step that is neither a key nor an answer does to the prompt.      *)
LEMMA PromptUntouched ==
  ASSUME [Next]_vars, ~\E key \in Keys : Press(key), ~\E task \in tasks : Deliver(task)
  PROVE  UNCHANGED promptVars
<1>1. UNCHANGED modelVars => UNCHANGED promptVars
  BY DEF modelVars
<1>2. StartCommand => UNCHANGED promptVars
  BY DEF StartCommand
<1>3. (\E s \in Sizes : TerminalResized(s[1], s[2])) => UNCHANGED promptVars
  BY DEF TerminalResized, Resize, Ignore
<1>4. (\E task \in tasks : Drop(task)) => UNCHANGED promptVars
  BY <1>1 DEF Drop
<1>5. (\E task \in tasks : \E reply \in Replies(task.kind) : SessionReturns(task, reply))
        => UNCHANGED promptVars
  BY <1>1 DEF SessionReturns
<1> QED
  BY <1>1, <1>2, <1>3, <1>4, <1>5, StepCases, MovesOn, RunStepIsQuiet

(* An answer in the ordinary lane is the one of the prompt that was sent.   *)
LEMMA AnswerOfSent ==
  ASSUME SentInv, LaneIInv, NEW task \in InLane("ordinary"), Deliver(task)
  PROVE  /\ task.prompt = pendingPrompt
         /\ IF task.reply = NoResult THEN UNCHANGED promptVars
            ELSE promptHistory' = Remember(promptHistory, pendingPrompt) /\ ClearSentPrompt
<1>1. LaneOf(task.kind) = "ordinary" /\ task.prompt = pendingPrompt
  BY DEF SentInv, InLane
<1>2. operationActive /\ task.token = operationToken
  BY CurrentOf DEF LaneIInv, LaneInv, Lanes
<1>3. CompleteOperation(task.token, task.reply)
  BY <1>1, LanesOfKinds DEF Deliver
<1> QED
  BY <1>1, <1>2, <1>3 DEF CompleteOperation, StaleOperation, FailOperation, CommitOperation

(* What an answer does to the prompt and its history. *)
LEMMA DeliveredPrompt ==
  ASSUME SentInv, LaneIInv, NEW task \in tasks, Deliver(task), ~UNCHANGED promptVars
  PROVE  \/ /\ task \in InLane("ordinary") /\ task.reply # NoResult
            /\ promptHistory' = Remember(promptHistory, task.prompt)
            /\ ClearSentPrompt /\ task.prompt = pendingPrompt
         \/ /\ task \in InLane("receive")
            /\ task.reply.kind \in {"snapshot", "prompt-history"}
            /\ ReplaceHistory(task.reply.history)
<1>1. CASE LaneOf(task.kind) = "ordinary"
  BY <1>1, AnswerOfSent DEF InLane
<1>2. CASE LaneOf(task.kind) # "ordinary"
  <2>1. ~CompleteCancel(task.token, task.reply) /\ ~UNCHANGED modelVars
    BY DEF CompleteCancel, Ignore, modelVars
  <2>2. LaneOf(task.kind) = "receive" /\ CompleteReceive(task.token, task.reply)
    BY <1>2, <2>1 DEF Deliver
  <2>3. ApplySessionUpdate(task.reply)
    BY <2>2 DEF CompleteReceive, Ignore, StopReceiving
  <2> QED
    BY <2>2, <2>3 DEF ApplySessionUpdate, InLane
<1> QED
  BY <1>1, <1>2

(* No key touches the history. *)
LEMMA KeysLeaveHistory ==
  ASSUME NEW key, Press(key)
  PROVE  promptHistory' = promptHistory
<1>1. UpdateKey(key)
  BY DEF Press
<1> QED
  BY <1>1 DEF UpdateKey, ApplyAction, Quit, IssuePrompt, IssueCancel, MoveCursor, HistoryPrevious,
              HistoryNext, DeleteBack, TypeText, Ignore, Edit, promptVars

(* The history gains exactly the prompt an accepted call was made with,     *)
(* once and at its end, and nothing from a call that failed, whatever was   *)
(* typed, recalled or received while the call was under way; and no step    *)
(* changes it but such an answer and an update that brings a history        *)
(* (model.go:256, 277, 364-400).                                            *)
THEOREM HistoryIsOfTheSession == Spec => HistoryFollowsSession
<1> DEFINE Gains == \A task \in InLane("ordinary") :
                      Deliver(task) =>
                        promptHistory' = IF task.reply = NoResult THEN promptHistory
                                         ELSE Remember(promptHistory, task.prompt)
           Source == promptHistory' # promptHistory => AddsAccepted \/ TakesHistory
<1>1. SentInv /\ LaneIInv => Gains
  <2> SUFFICES ASSUME SentInv, LaneIInv, NEW task \in InLane("ordinary"), Deliver(task)
               PROVE  promptHistory' = IF task.reply = NoResult THEN promptHistory
                                       ELSE Remember(promptHistory, task.prompt)
    OBVIOUS
  <2> QED
    BY AnswerOfSent DEF promptVars
<1>2. SentInv /\ LaneIInv /\ [Next]_vars => Source
  <2> SUFFICES ASSUME SentInv, LaneIInv, [Next]_vars, promptHistory' # promptHistory
               PROVE  AddsAccepted \/ TakesHistory
    OBVIOUS
  <2>1. ~UNCHANGED promptVars /\ ~\E key \in Keys : Press(key)
    BY KeysLeaveHistory DEF promptVars
  <2>2. PICK task \in tasks : Deliver(task)
    BY <2>1, PromptUntouched
  <2> QED
    BY <2>1, <2>2, DeliveredPrompt DEF AddsAccepted, TakesHistory, ReplaceHistory
<1>3. SentInv /\ LaneIInv /\ [Next]_vars => [Gains /\ Source]_vars
  BY <1>1, <1>2
<1> QED
  BY <1>3, SentInvHolds, LaneIInvHolds, PTL DEF Spec, HistoryFollowsSession

(* A key that is not one of the editing keys leaves the user's own text:    *)
(* moving the cursor, browsing the history and coming back.                 *)
LEMMA KeysKeepOwnText ==
  ASSUME GluedByRight, Prompts, NEW key \in Keys, Press(key), OwnText' # OwnText
  PROVE  EditsText
<1>1. UpdateKey(key)
  BY DEF Press
<1>2. CASE key \notin DOMAIN Bindings
  BY <1>2 DEF EditsText
<1>3. CASE key \in DOMAIN Bindings
  <2> DEFINE action == Bindings[key]
  <2>1. ApplyAction(action)
    BY <1>1, <1>3 DEF UpdateKey
  <2>2. UNCHANGED promptVars => OwnText' = OwnText
    BY DEF OwnText, promptVars
  <2>3. ~Quit /\ ~IssueCancel /\ ~Ignore /\ \A kind : ~IssuePrompt(kind)
    BY <2>2 DEF Quit, IssueCancel, Ignore, IssuePrompt
  <2>4. ~MoveCursor(action)
    <3>1. MoveCursor(action) => editor'.value = editor.value
      BY DEF MoveCursor, Move, Prompts, Editor, ValidEditor
    <3> QED
      BY <3>1 DEF MoveCursor, OwnText
  <2>5. /\ historyIndex \in Int /\ (historyIndex < 0 => historyIndex = -1)
        /\ Len(promptHistory) \in Nat /\ (promptHistory # << >> => Len(promptHistory) > 0)
    BY EmptySeq DEF Prompts, ValidHistory
  <2>6. ~HistoryPrevious
    BY <2>5 DEF HistoryPrevious, RecallEntry, OwnText
  <2>7. ~HistoryNext
    BY <2>5 DEF HistoryNext, RecallEntry, OwnText
  <2>8. action = "backspace"
    BY <2>1, <2>3, <2>4, <2>6, <2>7 DEF ApplyAction
  <2> QED
    BY <1>3, <2>8 DEF EditsText
<1> QED
  BY <1>2, <1>3

(* No failure, update or late answer loses what was typed: the text shown   *)
(* changes under a key of the user, or by the answer of a call that was     *)
(* accepted with this very text; and the text the user typed, which is the  *)
(* draft while an entry of the history is shown, changes under the editing  *)
(* keys only, by such an answer, or when a new history arrives while an     *)
(* entry is shown: browsing and coming back finds the draft as it was left  *)
(* (model.go:258, 279, 289-312, 364-400).  As for PromptsAreUsable, runes   *)
(* join the one before them because of what they are: a move in a prompt    *)
(* with its cursor off a boundary erases it.                                *)
THEOREM DraftsAreKept == GluedByRight => (Spec => DraftIsKept)
<1> SUFFICES ASSUME GluedByRight PROVE Spec => DraftIsKept
  OBVIOUS
<1> DEFINE Shown == editor'.value # editor.value =>
                      (\E key \in Keys : Press(key)) \/ ClearsAccepted
           Own   == OwnText' # OwnText => EditsText \/ ClearsAccepted \/ AdoptsShownEntry
<1>1. ASSUME SentInv, LaneIInv, [Next]_vars, ~\E key \in Keys : Press(key), ~UNCHANGED promptVars
      PROVE  \E task \in tasks :
               /\ Deliver(task)
               /\ \/ /\ task \in InLane("ordinary") /\ task.reply # NoResult
                     /\ ClearSentPrompt /\ task.prompt = pendingPrompt
                  \/ /\ task \in InLane("receive")
                     /\ task.reply.kind \in {"snapshot", "prompt-history"}
                     /\ ReplaceHistory(task.reply.history)
  <2>1. PICK task \in tasks : Deliver(task)
    BY <1>1, PromptUntouched
  <2> QED
    BY <1>1, <2>1, DeliveredPrompt
<1>2. ASSUME NEW task \in InLane("ordinary"), Deliver(task), task.reply # NoResult,
             ClearSentPrompt, task.prompt = pendingPrompt,
             UNCHANGED <<editor, historyIndex, historyDraft>> => FALSE
      PROVE  ClearsAccepted
  BY <1>2 DEF ClearsAccepted, ClearSentPrompt, ZeroEditor
<1>3. SentInv /\ LaneIInv /\ [Next]_vars => Shown
  <2> SUFFICES ASSUME SentInv, LaneIInv, [Next]_vars, editor'.value # editor.value,
                      ~\E key \in Keys : Press(key)
               PROVE  ClearsAccepted
    OBVIOUS
  <2>1. editor' # editor /\ ~UNCHANGED promptVars
    BY DEF promptVars
  <2> QED
    BY <1>1, <1>2, <2>1 DEF ReplaceHistory
<1>4. SentInv /\ LaneIInv /\ ShellInv /\ [Next]_vars => Own
  <2> SUFFICES ASSUME SentInv, LaneIInv, ShellInv, [Next]_vars, OwnText' # OwnText
               PROVE  EditsText \/ ClearsAccepted \/ AdoptsShownEntry
    OBVIOUS
  <2>1. ~UNCHANGED <<editor, historyIndex, historyDraft>> /\ ~UNCHANGED promptVars
    BY DEF OwnText, promptVars
  <2>2. CASE \E key \in Keys : Press(key)
    BY <2>2, KeysKeepOwnText DEF ShellInv
  <2>3. CASE ~\E key \in Keys : Press(key)
    <3>1. PICK task \in tasks :
            /\ Deliver(task)
            /\ \/ /\ task \in InLane("ordinary") /\ task.reply # NoResult
                  /\ ClearSentPrompt /\ task.prompt = pendingPrompt
               \/ /\ task \in InLane("receive")
                  /\ task.reply.kind \in {"snapshot", "prompt-history"}
                  /\ ReplaceHistory(task.reply.history)
      BY <1>1, <2>1, <2>3
    <3>2. CASE ReplaceHistory(task.reply.history)
      <4>1. historyIndex' < 0 /\ editor' = editor /\ OwnText' = editor.value
        BY <3>2 DEF ReplaceHistory, OwnText
      <4>2. ~(historyIndex < 0)
        BY <4>1 DEF OwnText
      <4>3. historyIndex >= 0
        BY <4>2 DEF ShellInv, Prompts, ValidHistory
      <4> QED
        BY <1>2, <2>1, <3>1, <4>1, <4>3 DEF AdoptsShownEntry
    <3> QED
      BY <1>2, <2>1, <3>1, <3>2
  <2> QED
    BY <2>2, <2>3
<1>5. SentInv /\ LaneIInv /\ ShellInv /\ [Next]_vars => [Shown /\ Own]_vars
  BY <1>3, <1>4
<1> QED
  BY <1>5, SentInvHolds, LaneIInvHolds, ShellInvHolds, PTL DEF Spec, DraftIsKept

-----------------------------------------------------------------------------
(* The shell implements the contract of its session (SessionContract). *)

(* A call that has not come back carries no reply yet. *)
NoEarlyReply == \A t \in tasks : t.stage # "returned" => t.reply = Failure(t.kind)

ContractInv == LaneIInv /\ ShellInv /\ NoEarlyReply

LEMMA NoEarlyReplyStep ==
  ASSUME NoEarlyReply, [Next]_vars
  PROVE  NoEarlyReply'
<1>1. ASSUME tasks' \subseteq tasks PROVE NoEarlyReply'
  BY <1>1 DEF NoEarlyReply, Failure
<1>2. ASSUME NEW task \in tasks, Check(task) \/ Call(task) \/ QuitRuns(task) PROVE NoEarlyReply'
  <2>1. task.stage # "returned"
    BY <1>2 DEF Check, Call, QuitRuns
  <2>2. PICK stage \in Stages : Replace(task, stage, task.reply)
    BY <1>2, MovesOn
  <2> QED
    BY <2>1, <2>2 DEF NoEarlyReply, Replace, Task, Failure
<1>3. ASSUME NEW task \in tasks, NEW reply, SessionReturns(task, reply) PROVE NoEarlyReply'
  BY <1>3 DEF NoEarlyReply, SessionReturns, Replace, Task, Failure
<1>4. ASSUME StartCommand PROVE NoEarlyReply'
  BY <1>4 DEF NoEarlyReply, StartCommand, TaskOf, Task, Failure
<1>5. ASSUME NEW task \in tasks, Deliver(task) \/ Drop(task) PROVE NoEarlyReply'
  BY <1>1, <1>5 DEF Deliver, Drop
<1>6. ASSUME RunStep PROVE NoEarlyReply'
  BY <1>1, <1>6, RunStepIsQuiet
<1>7. ASSUME \/ \E key \in Keys : Press(key)
             \/ \E s \in Sizes : TerminalResized(s[1], s[2])
      PROVE  NoEarlyReply'
  BY <1>1, <1>7 DEF Press, TerminalResized, runtimeVars
<1> QED
  BY <1>2, <1>3, <1>4, <1>5, <1>6, <1>7, StepCases

LEMMA ContractInvHolds == Spec => []ContractInv
<1>1. Init => NoEarlyReply
  BY DEF Init, NoEarlyReply, TaskOf, Task
<1>2. NoEarlyReply /\ [Next]_vars => NoEarlyReply'
  BY NoEarlyReplyStep
<1> QED
  BY <1>1, <1>2, LaneIInvHolds, ShellInvHolds, PTL DEF Spec, ContractInv

-----------------------------------------------------------------------------
(* What the phase of a lane is, by the one request it has. *)

LEMMA PhaseByRequest ==
  ASSUME NEW lane \in Lanes, LaneInv(lane)
  PROVE  /\ LaneOf(command.kind) = lane => PhaseOf(lane) = "requested"
         /\ LaneOf(command.kind) # lane /\ InLane(lane) = {} => PhaseOf(lane) = "idle"
         /\ \A t \in InLane(lane) :
              PhaseOf(lane) = IF t.stage = "calling" THEN "calling"
                              ELSE IF t.stage = "returned" THEN "idle" ELSE "requested"
<1>1. \A r \in Requests(lane) : r.kind # "quit"
  BY LanesOfKinds DEF Requests, InLane, Lanes
<1>2. CASE LaneOf(command.kind) = lane
  <2>1. InLane(lane) = {} /\ Requests(lane) = {command} /\ command \notin tasks
    BY <1>2 DEF LaneInv, Requests, InLane
  <2> QED
    BY <1>1, <1>2, <2>1 DEF PhaseOf
<1>3. CASE LaneOf(command.kind) # lane /\ InLane(lane) = {}
  <2>1. Requests(lane) = {}
    BY <1>3 DEF Requests
  <2> QED
    BY <1>3, <2>1 DEF PhaseOf
<1>4. CASE InLane(lane) # {}
  <2>1. PICK t \in InLane(lane) : InLane(lane) = {t}
    BY <1>4 DEF LaneInv
  <2>2. Requests(lane) = {t} /\ t \in tasks /\ LaneOf(command.kind) # lane
    BY <2>1 DEF Requests, InLane, LaneInv
  <2> QED
    BY <1>1, <2>1, <2>2 DEF PhaseOf
<1> QED
  BY <1>2, <1>3, <1>4

LEMMA OpenByRequest ==
  ASSUME LaneInv("receive")
  PROVE  /\ LaneOf(command.kind) = "receive" => StreamOpen
         /\ LaneOf(command.kind) # "receive" /\ InLane("receive") = {} => ~StreamOpen
         /\ \A t \in InLane("receive") :
              StreamOpen <=> ~(t.stage = "returned" /\ t.reply = NoUpdate)
<1>1. CASE LaneOf(command.kind) = "receive"
  <2>1. InLane("receive") = {} /\ Requests("receive") = {command} /\ command \notin tasks
    BY <1>1 DEF LaneInv, Requests, InLane
  <2> QED
    BY <1>1, <2>1 DEF StreamOpen
<1>2. CASE LaneOf(command.kind) # "receive" /\ InLane("receive") = {}
  BY <1>2 DEF StreamOpen, Requests
<1>3. CASE InLane("receive") # {}
  <2>1. PICK t \in InLane("receive") : InLane("receive") = {t}
    BY <1>3 DEF LaneInv
  <2>2. /\ Requests("receive") = {t} /\ t \in tasks
        /\ LaneOf(command.kind) # "receive"
    BY <2>1 DEF Requests, InLane, LaneInv
  <2> QED
    BY <2>1, <2>2 DEF StreamOpen
<1> QED
  BY <1>1, <1>2, <1>3

RequestFacts ==
  /\ \A lane \in Lanes :
       /\ LaneOf(command.kind) = lane => PhaseOf(lane) = "requested"
       /\ LaneOf(command.kind) # lane /\ InLane(lane) = {} => PhaseOf(lane) = "idle"
       /\ \A t \in InLane(lane) :
            /\ InLane(lane) = {t} /\ LaneOf(command.kind) # lane
            /\ PhaseOf(lane) = IF t.stage = "calling" THEN "calling"
                               ELSE IF t.stage = "returned" THEN "idle" ELSE "requested"
  /\ LaneOf(command.kind) = "receive" => StreamOpen
  /\ LaneOf(command.kind) # "receive" /\ InLane("receive") = {} => ~StreamOpen
  /\ \A t \in InLane("receive") : StreamOpen <=> ~(t.stage = "returned" /\ t.reply = NoUpdate)
  /\ StreamOpen \in BOOLEAN

LEMMA RequestFactsHold == ContractInv => RequestFacts
<1> SUFFICES ASSUME ContractInv PROVE RequestFacts
  OBVIOUS
<1>1. \A lane \in Lanes : LaneInv(lane)
  BY DEF ContractInv, LaneIInv
<1>2. LaneInv("receive")
  BY <1>1 DEF Lanes
<1>3. \A lane \in Lanes : \A t \in InLane(lane) :
        InLane(lane) = {t} /\ LaneOf(command.kind) # lane
  BY <1>1 DEF LaneInv
<1>4. StreamOpen \in BOOLEAN
  BY DEF StreamOpen
<1> QED
  BY <1>1, <1>2, <1>3, <1>4, PhaseByRequest, OpenByRequest DEF RequestFacts

abstractPhase == [lane \in Lanes |-> PhaseOf(lane)]

(* Nothing the contract speaks of changes. *)
LEMMA ContractStutters ==
  ASSUME \A lane \in Lanes : PhaseOf(lane)' = PhaseOf(lane), StreamOpen' = StreamOpen
  PROVE  UNCHANGED <<abstractPhase, StreamOpen>>
BY DEF abstractPhase

(* One lane moves to another phase. *)
LEMMA PhaseMoves ==
  ASSUME NEW moved \in Lanes, NEW phase, PhaseOf(moved)' = phase,
         \A lane \in Lanes \ {moved} : PhaseOf(lane)' = PhaseOf(lane)
  PROVE  abstractPhase' = [abstractPhase EXCEPT ![moved] = phase]
BY DEF abstractPhase

LEMMA SamePhase ==
  ASSUME RequestFacts, RequestFacts', NEW lane \in Lanes, InLane(lane)' = InLane(lane),
         LaneOf(command.kind) = lane <=> LaneOf(command'.kind) = lane
  PROVE  PhaseOf(lane)' = PhaseOf(lane)
BY DEF RequestFacts

LEMMA SameOpen ==
  ASSUME RequestFacts, RequestFacts', InLane("receive")' = InLane("receive"),
         LaneOf(command.kind) = "receive" <=> LaneOf(command'.kind) = "receive"
  PROVE  StreamOpen' = StreamOpen
BY DEF RequestFacts

LEMMA ContractSteps ==
  /\ UNCHANGED Contract!contractVars <=> UNCHANGED <<abstractPhase, StreamOpen>>
  /\ \A lane : Contract!Request(lane) <=>
       /\ abstractPhase[lane] = "idle" /\ (lane = "receive" => StreamOpen)
       /\ abstractPhase' = [abstractPhase EXCEPT ![lane] = "requested"]
       /\ UNCHANGED StreamOpen
  /\ \A lane : Contract!Call(lane) <=>
       /\ abstractPhase[lane] = "requested"
       /\ abstractPhase' = [abstractPhase EXCEPT ![lane] = "calling"]
       /\ UNCHANGED StreamOpen
  /\ \A lane : Contract!Answer(lane) <=>
       /\ abstractPhase[lane] = "calling"
       /\ abstractPhase' = [abstractPhase EXCEPT ![lane] = "idle"]
       /\ UNCHANGED StreamOpen
  /\ \A lane : Contract!Fail(lane) <=>
       /\ abstractPhase[lane] # "idle"
       /\ abstractPhase' = [abstractPhase EXCEPT ![lane] = "idle"]
       /\ StreamOpen' = (StreamOpen /\ lane # "receive")
  /\ Contract!Close <=>
       /\ abstractPhase["receive"] = "idle"
       /\ StreamOpen' = FALSE
       /\ UNCHANGED abstractPhase
BY DEF abstractPhase, Contract!contractVars, Contract!Request, Contract!Call, Contract!Answer,
       Contract!Fail, Contract!Close

ContractStep == [Contract!Next]_(Contract!contractVars)

LEMMA PressRefines ==
  ASSUME LaneIInv, RequestFacts, RequestFacts', NEW key, Press(key)
  PROVE  ContractStep
<1>1. /\ command = NoCommand /\ \A lane \in Lanes : InLane(lane)' = InLane(lane)
      /\ LaneOf(command.kind) = "none" /\ InLane("receive")' = InLane("receive")
      /\ IssuesOperation \/ IssuesCancel \/ LeavesLanes
  BY KeyEffect, LanesOfKinds DEF Press, Accepting, runtimeVars, InLane
<1>2. CASE LeavesLanes
  <2>1. \A lane \in Lanes : PhaseOf(lane)' = PhaseOf(lane)
    BY <1>1, <1>2, SamePhase DEF LeavesLanes, Lanes
  <2>2. StreamOpen' = StreamOpen
    BY <1>1, <1>2, SameOpen DEF LeavesLanes
  <2> QED
    BY <2>1, <2>2, ContractStutters, ContractSteps DEF ContractStep
<1>3. ASSUME NEW lane \in {"ordinary", "cancel"}, LaneOf(command'.kind) = lane,
             InLane(lane) = {}
      PROVE  ContractStep
  <2>1. lane \in Lanes /\ lane # "receive" /\ LaneOf(command'.kind) # "receive"
    BY <1>3 DEF Lanes
  <2>2. PhaseOf(lane) = "idle" /\ PhaseOf(lane)' = "requested"
    BY <1>1, <1>3, <2>1 DEF RequestFacts, Lanes
  <2>3. \A l \in Lanes \ {lane} : PhaseOf(l)' = PhaseOf(l)
    BY <1>1, <1>3, SamePhase DEF Lanes
  <2>4. StreamOpen' = StreamOpen
    BY <1>1, <2>1, SameOpen
  <2>5. Contract!Request(lane)
    <3>1. abstractPhase[lane] = "idle"
      BY <2>1, <2>2 DEF abstractPhase
    <3> QED
      BY <2>1, <2>2, <2>3, <2>4, <3>1, PhaseMoves, ContractSteps
  <2> QED
    BY <2>1, <2>5 DEF ContractStep, Contract!Next
<1>4. CASE IssuesOperation
  <2>1. InLane("ordinary") = {}
    BY <1>4, CurrentOf DEF LaneIInv, LaneInv, IssuesOperation, Lanes
  <2> QED
    BY <1>3, <1>4, <2>1 DEF IssuesOperation
<1>5. CASE IssuesCancel
  <2>1. InLane("cancel") = {}
    BY <1>5, CurrentOf DEF LaneIInv, LaneInv, IssuesCancel, Lanes
  <2> QED
    BY <1>3, <1>5, <2>1 DEF IssuesCancel
<1> QED
  BY <1>1, <1>2, <1>4, <1>5

LEMMA StartRefines ==
  ASSUME RequestFacts, RequestFacts', StartCommand
  PROVE  ContractStep
<1> DEFINE new == TaskOf(command)
<1>1. /\ tasks' = tasks \cup {new} /\ LaneOf(command'.kind) = "none"
      /\ new.kind = command.kind /\ new.stage = "started"
  BY LanesOfKinds DEF StartCommand, TaskOf, Task
<1> HIDE DEF new
<1>2. \A lane \in Lanes : IF LaneOf(command.kind) = lane THEN new \in InLane(lane)'
                          ELSE InLane(lane)' = InLane(lane)
  BY <1>1 DEF InLane
<1>3. \A lane \in Lanes : PhaseOf(lane)' = PhaseOf(lane)
  <2> SUFFICES ASSUME NEW lane \in Lanes PROVE PhaseOf(lane)' = PhaseOf(lane)
    OBVIOUS
  <2>1. CASE LaneOf(command.kind) = lane
    <3>1. PhaseOf(lane) = "requested"
      BY <2>1 DEF RequestFacts
    <3>2. PhaseOf(lane)' = "requested"
      BY <1>1, <1>2, <2>1 DEF RequestFacts
    <3> QED
      BY <3>1, <3>2
  <2>2. CASE LaneOf(command.kind) # lane
    BY <1>1, <1>2, <2>2, SamePhase DEF Lanes
  <2> QED
    BY <2>1, <2>2
<1>4. StreamOpen' = StreamOpen
  <2>1. CASE LaneOf(command.kind) = "receive"
    <3>1. StreamOpen
      BY <2>1 DEF RequestFacts
    <3>2. new \in InLane("receive")'
      BY <1>2, <2>1 DEF Lanes
    <3>3. StreamOpen'
      BY <1>1, <3>2 DEF RequestFacts
    <3> QED
      BY <3>1, <3>3 DEF RequestFacts
  <2>2. CASE LaneOf(command.kind) # "receive"
    BY <1>1, <1>2, <2>2, SameOpen DEF Lanes
  <2> QED
    BY <2>1, <2>2
<1> QED
  BY <1>3, <1>4, ContractStutters, ContractSteps DEF ContractStep

(* A goroutine that goes on to another stage moves its lane on. *)
LEMMA StageRefines ==
  ASSUME RequestFacts, RequestFacts', NEW task \in tasks, NEW stage, NEW reply,
         Replace(task, stage, reply), UNCHANGED command
  PROVE  /\ task.kind = "quit" => ContractStep
         /\ \A lane \in Lanes : LaneOf(task.kind) = lane =>
              /\ PhaseOf(lane) = IF task.stage = "calling" THEN "calling"
                                 ELSE IF task.stage = "returned" THEN "idle" ELSE "requested"
              /\ abstractPhase' = [abstractPhase EXCEPT ![lane] =
                    IF stage = "calling" THEN "calling"
                    ELSE IF stage = "returned" THEN "idle" ELSE "requested"]
              /\ StreamOpen' = IF lane = "receive"
                               THEN ~(stage = "returned" /\ reply = NoUpdate)
                               ELSE StreamOpen
<1> DEFINE new == Task(task.kind, task.token, task.prompt, stage, reply)
<1>1. /\ new.kind = task.kind /\ new.stage = stage /\ new.reply = reply
      /\ tasks' = (tasks \ {task}) \cup {new}
  BY DEF Replace, Task
<1> HIDE DEF new
<1>2. \A lane \in Lanes :
        IF LaneOf(task.kind) = lane THEN new \in InLane(lane)' /\ task \in InLane(lane)
        ELSE InLane(lane)' = InLane(lane)
  BY <1>1 DEF InLane
<1>3. \A lane \in Lanes : LaneOf(task.kind) # lane => PhaseOf(lane)' = PhaseOf(lane)
  BY <1>2, SamePhase
<1>4. LaneOf(task.kind) # "receive" => StreamOpen' = StreamOpen
  BY <1>2, SameOpen DEF Lanes
<1>5. ASSUME task.kind = "quit" PROVE ContractStep
  BY <1>3, <1>4, <1>5, LanesOfKinds, ContractStutters, ContractSteps DEF ContractStep, Lanes
<1>6. ASSUME NEW lane \in Lanes, LaneOf(task.kind) = lane
      PROVE  /\ PhaseOf(lane) = IF task.stage = "calling" THEN "calling"
                                ELSE IF task.stage = "returned" THEN "idle" ELSE "requested"
             /\ PhaseOf(lane)' = IF stage = "calling" THEN "calling"
                                ELSE IF stage = "returned" THEN "idle" ELSE "requested"
             /\ StreamOpen' = IF lane = "receive"
                              THEN ~(stage = "returned" /\ reply = NoUpdate)
                              ELSE StreamOpen
  <2>1. task \in InLane(lane) /\ new \in InLane(lane)'
    BY <1>2, <1>6
  <2>2. PhaseOf(lane) = IF task.stage = "calling" THEN "calling"
                        ELSE IF task.stage = "returned" THEN "idle" ELSE "requested"
    BY <2>1 DEF RequestFacts
  <2>3. PhaseOf(lane)' = IF stage = "calling" THEN "calling"
                         ELSE IF stage = "returned" THEN "idle" ELSE "requested"
    BY <1>1, <2>1 DEF RequestFacts
  <2>4. lane = "receive" => StreamOpen' = ~(stage = "returned" /\ reply = NoUpdate)
    BY <1>1, <2>1 DEF RequestFacts
  <2> QED
    BY <1>4, <1>6, <2>2, <2>3, <2>4
<1>7. ASSUME NEW lane \in Lanes, LaneOf(task.kind) = lane
      PROVE  abstractPhase' = [abstractPhase EXCEPT ![lane] =
                    IF stage = "calling" THEN "calling"
                    ELSE IF stage = "returned" THEN "idle" ELSE "requested"]
  BY <1>3, <1>6, <1>7, PhaseMoves
<1> QED
  BY <1>5, <1>6, <1>7

LEMMA KindsHaveLanes ==
  \A kind \in Kinds : kind = "quit" \/ LaneOf(kind) \in Lanes
BY LanesOfKinds DEF Kinds, PromptActions, Lanes

LEMMA ActsOfContract ==
  ASSUME NEW lane \in Lanes,
         \/ Contract!Request(lane) \/ Contract!Call(lane) \/ Contract!Answer(lane)
         \/ Contract!Fail(lane) \/ Contract!Close
  PROVE  ContractStep
BY DEF ContractStep, Contract!Next

(* A goroutine looks at the run's context, gives up if it is done, and      *)
(* calls the session.                                                       *)
LEMMA CallRefines ==
  ASSUME ContractInv, RequestFacts, RequestFacts', NEW task \in tasks,
         Check(task) \/ Call(task) \/ QuitRuns(task)
  PROVE  ContractStep
<1>0. /\ task.kind \in Kinds /\ task.stage \in {"started", "cleared"}
      /\ task.reply = Failure(task.kind) /\ UNCHANGED command
  BY DEF ContractInv, ShellInv, TaskTypes, NoEarlyReply, Check, Call, QuitRuns, modelVars
<1>1. PICK stage \in {"cleared", "calling", "returned"} : Replace(task, stage, task.reply)
  BY DEF Check, Call, QuitRuns
<1>2. CASE task.kind = "quit"
  BY <1>0, <1>1, <1>2, StageRefines
<1>3. CASE task.kind # "quit"
  <2> DEFINE lane == LaneOf(task.kind)
  <2>1. lane \in Lanes /\ (lane = "receive" => task.reply = NoUpdate)
    BY <1>0, <1>3, KindsHaveLanes DEF LaneOf, Failure, PromptActions
  <2> HIDE DEF lane
  <2>2. LaneOf(task.kind) = lane
    BY DEF lane
  <2>3. /\ PhaseOf(lane) = "requested" /\ abstractPhase[lane] = "requested"
        /\ abstractPhase' = [abstractPhase EXCEPT ![lane] =
              IF stage = "calling" THEN "calling"
              ELSE IF stage = "returned" THEN "idle" ELSE "requested"]
        /\ StreamOpen' = IF lane = "receive" THEN stage # "returned" ELSE StreamOpen
    BY <1>0, <1>1, <2>1, <2>2, StageRefines DEF abstractPhase
  <2>4. lane = "receive" => StreamOpen
    <3> SUFFICES ASSUME lane = "receive" PROVE StreamOpen
      OBVIOUS
    <3>1. task \in InLane("receive")
      BY <2>2 DEF InLane
    <3> QED
      BY <1>0, <3>1 DEF RequestFacts
  <2>5. CASE stage # "returned"
    <3>1. UNCHANGED StreamOpen
      BY <2>3, <2>4, <2>5 DEF RequestFacts
    <3>2. CASE stage = "calling"
      <4>1. Contract!Call(lane)
        BY <2>3, <3>1, <3>2, ContractSteps
      <4> QED
        BY <2>1, <4>1, ActsOfContract
    <3>3. CASE stage = "cleared"
      <4>1. abstractPhase' = abstractPhase
        BY <2>1, <2>3, <3>3 DEF abstractPhase
      <4> QED
        BY <3>1, <4>1, ContractSteps DEF ContractStep
    <3> QED
      BY <2>5, <3>2, <3>3
  <2>6. CASE stage = "returned"
    <3>1. Contract!Fail(lane)
      <4>1. StreamOpen' = (StreamOpen /\ lane # "receive")
        BY <2>3, <2>6 DEF RequestFacts
      <4> QED
        BY <2>3, <2>6, <4>1, ContractSteps
    <3> QED
      BY <2>1, <3>1, ActsOfContract
  <2> QED
    BY <2>5, <2>6
<1> QED
  BY <1>2, <1>3

(* The session answers, or fails, which closes the receive lane. *)
LEMMA ReturnRefines ==
  ASSUME ContractInv, RequestFacts, RequestFacts', NEW task \in tasks, NEW reply,
         SessionReturns(task, reply)
  PROVE  ContractStep
<1>0. /\ task.kind \in Kinds /\ task.stage = "calling" /\ UNCHANGED command
      /\ Replace(task, "returned", reply)
  BY DEF ContractInv, ShellInv, TaskTypes, SessionReturns, modelVars
<1>1. CASE task.kind = "quit"
  BY <1>0, <1>1, StageRefines
<1>2. CASE task.kind # "quit"
  <2> DEFINE lane == LaneOf(task.kind)
  <2>1. lane \in Lanes
    BY <1>0, <1>2, KindsHaveLanes
  <2> HIDE DEF lane
  <2>2. LaneOf(task.kind) = lane
    BY DEF lane
  <2>3. /\ PhaseOf(lane) = "calling" /\ abstractPhase[lane] = "calling"
        /\ abstractPhase' = [abstractPhase EXCEPT ![lane] = "idle"]
        /\ StreamOpen' = IF lane = "receive" THEN reply # NoUpdate ELSE StreamOpen
    BY <1>0, <2>1, <2>2, StageRefines DEF abstractPhase
  <2>4. lane = "receive" => StreamOpen
    <3> SUFFICES ASSUME lane = "receive" PROVE StreamOpen
      OBVIOUS
    <3>1. task \in InLane("receive")
      BY <2>2 DEF InLane
    <3> QED
      BY <1>0, <3>1 DEF RequestFacts
  <2>5. CASE lane = "receive" /\ reply = NoUpdate
    <3>1. StreamOpen' = (StreamOpen /\ lane # "receive")
      BY <2>3, <2>5
    <3>2. Contract!Fail(lane)
      BY <2>3, <3>1, ContractSteps
    <3> QED
      BY <2>1, <3>2, ActsOfContract
  <2>6. CASE ~(lane = "receive" /\ reply = NoUpdate)
    <3>1. UNCHANGED StreamOpen
      BY <2>3, <2>4, <2>6 DEF RequestFacts
    <3>2. Contract!Answer(lane)
      BY <2>3, <3>1, ContractSteps
    <3> QED
      BY <2>1, <3>2, ActsOfContract
  <2> QED
    BY <2>5, <2>6
<1> QED
  BY <1>1, <1>2

(* A goroutine that has come back, or never called, is forgotten. *)
LEMMA RemovalRefines ==
  ASSUME RequestFacts, RequestFacts', NEW task \in tasks, tasks' = tasks \ {task},
         task.stage # "calling", LaneOf(command'.kind) = LaneOf(command.kind)
  PROVE  ContractStep
<1>1. \A lane \in Lanes :
        IF LaneOf(task.kind) = lane THEN task \in InLane(lane)
        ELSE InLane(lane)' = InLane(lane)
  BY DEF InLane
<1>2. \A lane \in Lanes : LaneOf(task.kind) # lane => PhaseOf(lane)' = PhaseOf(lane)
  BY <1>1, SamePhase
<1>3. LaneOf(task.kind) # "receive" => StreamOpen' = StreamOpen
  BY <1>1, SameOpen DEF Lanes
<1>4. ASSUME NEW lane \in Lanes, LaneOf(task.kind) = lane
      PROVE  /\ PhaseOf(lane) = (IF task.stage = "returned" THEN "idle" ELSE "requested")
             /\ PhaseOf(lane)' = "idle"
             /\ lane = "receive" => StreamOpen' = FALSE
  <2>1. /\ InLane(lane) = {task} /\ LaneOf(command.kind) # lane
        /\ PhaseOf(lane) = (IF task.stage = "returned" THEN "idle" ELSE "requested")
    BY <1>1, <1>4 DEF RequestFacts
  <2>2. InLane(lane)' = {}
    BY <2>1 DEF InLane
  <2>3. PhaseOf(lane)' = "idle"
    BY <2>1, <2>2 DEF RequestFacts
  <2>4. lane = "receive" => StreamOpen' = FALSE
    BY <2>1, <2>2 DEF RequestFacts
  <2> QED
    BY <2>1, <2>3, <2>4
<1>5. CASE LaneOf(task.kind) \notin Lanes
  <2>1. \A lane \in Lanes : PhaseOf(lane)' = PhaseOf(lane)
    BY <1>2, <1>5
  <2>2. StreamOpen' = StreamOpen
    BY <1>3, <1>5 DEF Lanes
  <2> QED
    BY <2>1, <2>2, ContractStutters, ContractSteps DEF ContractStep
<1>6. ASSUME NEW lane \in Lanes, LaneOf(task.kind) = lane PROVE ContractStep
  <2>0. lane # "receive" => StreamOpen' = StreamOpen
    BY <1>3, <1>6
  <2>1. CASE task.stage = "returned"
    <3>1. \A l \in Lanes : PhaseOf(l)' = PhaseOf(l)
      BY <1>2, <1>4, <1>6, <2>1
    <3>2. UNCHANGED abstractPhase
      BY <3>1 DEF abstractPhase
    <3>3. CASE StreamOpen' = StreamOpen
      BY <3>1, <3>3, ContractStutters, ContractSteps DEF ContractStep
    <3>4. CASE StreamOpen' # StreamOpen
      <4>1. lane = "receive" /\ StreamOpen' = FALSE /\ PhaseOf("receive") = "idle"
        BY <1>4, <1>6, <2>0, <2>1, <3>4
      <4>2. abstractPhase["receive"] = "idle"
        BY <4>1 DEF abstractPhase, Lanes
      <4>3. Contract!Close
        BY <3>2, <4>1, <4>2, ContractSteps
      <4> QED
        BY <4>3, ActsOfContract
    <3> QED
      BY <3>3, <3>4
  <2>2. CASE task.stage # "returned"
    <3>1. abstractPhase[lane] = "requested"
      BY <1>4, <1>6, <2>2 DEF abstractPhase
    <3>2. abstractPhase' = [abstractPhase EXCEPT ![lane] = "idle"]
      BY <1>2, <1>4, <1>6, PhaseMoves
    <3>3. StreamOpen' = (StreamOpen /\ lane # "receive")
      BY <1>4, <1>6, <2>0 DEF RequestFacts
    <3>4. Contract!Fail(lane)
      BY <3>1, <3>2, <3>3, ContractSteps
    <3> QED
      BY <3>4, ActsOfContract
  <2> QED
    BY <2>1, <2>2
<1> QED
  BY <1>5, <1>6

(* An answer is taken in; a fresh update is followed by the next request. *)
LEMMA DeliverRefines ==
  ASSUME ContractInv, RequestFacts, RequestFacts', NEW task \in tasks, Deliver(task)
  PROVE  ContractStep
<1>0. /\ tasks' = tasks \ {task} /\ task.stage = "returned" /\ command = NoCommand
      /\ LaneOf(command.kind) = "none"
      /\ \A lane \in Lanes : LaneInv(lane)
      /\ revision \in Nat /\ task.kind \in Kinds
  BY LanesOfKinds
     DEF Deliver, Accepting, ContractInv, LaneIInv, ShellInv, ViewTypes, TaskTypes
<1>1. \A lane \in Lanes : task \in InLane(lane) =>
        InLane(lane) = {task} /\ Current(lane).active /\ task.token = Current(lane).token
  BY <1>0 DEF LaneInv
<1>2. CASE LaneOf(command'.kind) = "none"
  BY <1>0, <1>2, RemovalRefines
<1>3. CASE LaneOf(command'.kind) # "none"
  <2>1. ~(LaneOf(task.kind) = "ordinary" /\ CompleteOperation(task.token, task.reply))
    BY <1>1, <1>3, OperationEffect, CurrentOf DEF InLane, Lanes
  <2>2. ~(LaneOf(task.kind) = "cancel" /\ CompleteCancel(task.token, task.reply))
    BY <1>1, <1>3, CancelEffect, CurrentOf DEF InLane, Lanes
  <2>3. ~(task.kind = "quit" /\ UNCHANGED modelVars)
    BY <1>0, <1>3 DEF modelVars
  <2>4. LaneOf(task.kind) = "receive" /\ CompleteReceive(task.token, task.reply)
    BY <2>1, <2>2, <2>3 DEF Deliver
  <2>5. InLane("receive") = {task} /\ receiveArmed /\ task.token = receiveToken
    BY <1>1, <2>4, CurrentOf DEF InLane, Lanes
  <2>6. LaneOf(command'.kind) = "receive"
    BY <1>3, <2>4, <2>5, ReceiveEffect DEF Rearms
  <2>7. Fresh(task.reply)
    BY <2>4, <2>5, <2>6, LanesOfKinds DEF CompleteReceive, StaleReceive, StopReceiving
  <2>8. task.reply # NoUpdate
    BY <1>0, <2>7 DEF Fresh, NoUpdate
  <2>9. StreamOpen /\ PhaseOf("receive") = "idle"
    <3>1. task \in InLane("receive") /\ task.stage = "returned"
      BY <1>0, <2>5
    <3> QED
      BY <2>8, <3>1 DEF RequestFacts, Lanes
  <2>10. StreamOpen' /\ PhaseOf("receive")' = "requested"
    BY <2>6 DEF RequestFacts, Lanes
  <2>11. \A lane \in Lanes \ {"receive"} : PhaseOf(lane)' = PhaseOf(lane)
    <3> SUFFICES ASSUME NEW lane \in Lanes \ {"receive"}
                 PROVE  PhaseOf(lane)' = PhaseOf(lane)
      OBVIOUS
    <3>1. InLane(lane)' = InLane(lane)
      BY <1>0, <2>4 DEF InLane
    <3>2. LaneOf(command.kind) # lane /\ LaneOf(command'.kind) # lane
      BY <1>0, <2>6 DEF Lanes
    <3> QED
      BY <3>1, <3>2, SamePhase
  <2>12. Contract!Request("receive")
    <3>1. "receive" \in Lanes
      BY DEF Lanes
    <3>2. abstractPhase["receive"] = "idle"
      BY <2>9, <3>1 DEF abstractPhase
    <3>3. UNCHANGED StreamOpen
      BY <2>9, <2>10 DEF RequestFacts
    <3> QED
      BY <2>9, <2>10, <2>11, <3>1, <3>2, <3>3, PhaseMoves, ContractSteps
  <2> QED
    BY <2>12, ActsOfContract DEF Lanes
<1> QED
  BY <1>2, <1>3

LEMMA StepRefines ==
  ASSUME ContractInv, RequestFacts, RequestFacts', [Next]_vars
  PROVE  ContractStep
<1>1. ASSUME UNCHANGED <<tasks, command>> PROVE ContractStep
  <2>1. \A lane : InLane(lane)' = InLane(lane)
    BY <1>1 DEF InLane
  <2>2. (\A lane \in Lanes : PhaseOf(lane)' = PhaseOf(lane)) /\ StreamOpen' = StreamOpen
    BY <1>1, <2>1, SamePhase, SameOpen
  <2> QED
    BY <2>2, ContractStutters, ContractSteps DEF ContractStep
<1>2. ASSUME NEW key, Press(key) PROVE ContractStep
  BY <1>2, PressRefines DEF ContractInv
<1>3. ASSUME NEW task \in tasks, Drop(task) PROVE ContractStep
  <2>1. /\ tasks' = tasks \ {task} /\ command' = command
        /\ task.stage = "returned" \/ task = TaskOf(InitCommand)
    BY <1>3 DEF Drop, modelVars
  <2>2. task.stage # "calling"
    BY <2>1 DEF TaskOf, Task
  <2> QED
    BY <2>1, <2>2, RemovalRefines
<1>4. ASSUME NEW width, NEW height, TerminalResized(width, height) PROVE ContractStep
  BY <1>1, <1>4 DEF TerminalResized, Accepting, Resize, Ignore, runtimeVars
<1>5. ASSUME RunStep PROVE ContractStep
  BY <1>1, <1>5, RunStepIsQuiet DEF modelVars
<1> QED
  BY <1>2, <1>3, <1>4, <1>5, StepCases, StartRefines, CallRefines, ReturnRefines, DeliverRefines

LEMMA InitRefines == Init /\ RequestFacts => Contract!Init
<1> SUFFICES ASSUME Init, RequestFacts PROVE Contract!Init
  OBVIOUS
<1> DEFINE first == TaskOf(InitCommand)
<1>1. /\ tasks = {first} /\ LaneOf(command.kind) = "none"
      /\ first.kind = "receive" /\ first.stage = "started"
  BY LanesOfKinds DEF Init, InitModel, NewModel, TaskOf, Task, InitCommand, Command
<1> HIDE DEF first
<1>2. InLane("receive") = {first} /\ InLane("ordinary") = {} /\ InLane("cancel") = {}
  BY <1>1, LanesOfKinds DEF InLane
<1>3. PhaseOf("receive") = "requested" /\ StreamOpen
  BY <1>1, <1>2 DEF RequestFacts, Lanes
<1>4. PhaseOf("ordinary") = "idle" /\ PhaseOf("cancel") = "idle"
  BY <1>1, <1>2 DEF RequestFacts, Lanes
<1>5. abstractPhase = [lane \in Lanes |-> IF lane = "receive" THEN "requested" ELSE "idle"]
  BY <1>3, <1>4 DEF abstractPhase, Lanes
<1>6. StreamOpen = TRUE
  BY <1>3 DEF RequestFacts
<1> QED
  BY <1>5, <1>6 DEF Contract!Init, abstractPhase

(* Seen from the session, a run of the shell is a run of the contract: one  *)
(* call at a time in each lane, none repeated, and none in the receive lane *)
(* once that has failed or delivered something out of sequence.             *)
THEOREM ShellImplementsContract == Spec => ImplementsContract
<1>1. ContractInv => RequestFacts
  BY RequestFactsHold
<1>2. ContractInv /\ RequestFacts /\ RequestFacts' /\ [Next]_vars
        => [Contract!Next]_(Contract!contractVars)
  BY StepRefines DEF ContractStep
<1>3. Init /\ RequestFacts => Contract!Init
  BY InitRefines
<1> QED
  BY <1>1, <1>2, <1>3, ContractInvHolds, PTL DEF Spec, ImplementsContract, Contract!Spec

=============================================================================
