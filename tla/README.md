# Verification of spice-agent-tui

TLA+ models of the terminal shell, of the line-oriented client, of the test kit and of the quality
gate of this repository, the TLC runs that check them on small instances, and proofs that TLAPS checks for
every value of the constants. All paths below are relative to the repository.

- [The system](#the-system)
- [Modules and the code they model](#modules-and-the-code-they-model)
- [The runs](#the-runs)
- [Fairness](#fairness)
- [What is proved](#what-is-proved)
- [Findings](#findings)
- [What is not modelled](#what-is-not-modelled)
- [Plan](#plan)

`tlc -workers 2 -config X.cfg M` repeats a run, `tlapm M.tla` the proofs of a module.

## The system

The shell is a terminal user interface for an agent. It owns no agent: everything it shows comes
from a `Session` (`session.go`), an interface with a blocking `Receive` for a stream of updates
and a blocking `Perform` for commands. Three programs sit on top of that interface: the terminal
shell (`internal/presentation`, on Bubble Tea), a line-oriented client
(`experiments/semantic-shell`), and the test kit (`tuittest`), which drives the model of the
terminal shell without a terminal. Beside them the quality gate (`internal/qualitygate`) runs the
checks of the repository as a sequence of processes.

| Component | State it keeps | Operations | What makes it correct |
| --- | --- | --- | --- |
| Prompt editor, `editor.go` | the text and a cursor in runes | `Insert`, `Move`, `Backspace`, `Clear` | the cursor never stands inside a character (a grapheme cluster) |
| Presentation model, `internal/presentation/model.go` | what the session last said, the prompt and its history, three lanes (receive, ordinary, cancel) with a token and an in-flight flag each, the size | one handler per message: keys, resize, the three completions | lanes neither overlap nor get lost, the history and its index agree, the draft is not lost, the window stays bounded, an answer settles its own operation |
| Session adapter, `internal/presentation/effects.go` | none | `receive`, `perform`: a look at the context and a call of the session, in a goroutine of its own | nothing passes the look after the run, every failure becomes a message |
| Shell run, `internal/presentation/shell.go` and the vendored Bubble Tea program | the context of the run, the event loop, the goroutines of commands, the listener for signals | `Run`, the loop, `Send`, signals, the shutdown | a quit or a cancellation ends the run however the session behaves; the outcome is honest |
| Session contract, comment of `Session` | which calls are in flight, whether the stream is open | `Receive`, `Perform` | one call of a lane at a time, nothing is asked twice, nothing after the stream has failed |
| Line client, `experiments/semantic-shell/shell.go`, `state.go` | two queues, the emitter with its mutex and sequence number, the view, the terminal error | four goroutines: input, receive loop, two perform loops | contiguous records, each call has one answer, the run ends, the outcome is honest |
| Agent adapter, `experiments/semantic-shell/internal/agentcompat/adapter.go` | a bounded channel of updates; revision, operation and run under a mutex | `Perform` (submit, respond, cancel), `Receive` | updates in order, operation numbers unique, no lane waits for the other |
| Scripted driver and session, `tuittest/driver.go`, `session.go`, `keys.go`, `internal/presentation/test_hooks.go` | a model, a closed flag, the worker of a command, the scripted result and the recorded intents | `Press`, `InjectUpdate`, `Resize`, drain of a command, `Close` | what is reported as done has happened, and what is closed stays closed |
| Traces, `tuittest/trace.go`, `trace_json.go`, `replay.go` | a trace, two replays, a reference | `validate`, `CanonicalJSON`, `ParseTrace`, `Replay`, `compareReplay` | a valid trace follows its reference, two replays agree, one document stands for one trace |
| Virtual terminal, receive side of the scripted session, `tuittest/virtual_terminal.go`, `session.go` | a transcript split by sizes, a queue, goroutines that wait on a channel closed at each change | `Write`, `Resize`, `WaitFor`, `PushUpdate`, `Receive`, `Close` | no wake-up is lost, every wait ends when it can |
| Values, bindings, themes: `values.go`, `application_values.go`, `editor.go` | immutable values | constructors and `Validate` | bounds, revisions, collision-free bindings |
| Renderer, `internal/presentation/renderer.go` | none | `Render` | a frame is exactly as large as the terminal, the cursor stands after the text before it |
| Quality gate, `internal/qualitygate` | a mode, its steps, temporary trees, deferred calls, a context of 15 minutes | seven modes of one to fourteen steps | a pass means that every step passed and no error was lost, nothing temporary is left unsaid, the network is used only where allowed |
| Golden files, PNG, contrast, autoconfiguration, annotations | none or files | pure functions and generators | output format |

How they interact. The event loop of Bubble Tea handles one message at a time and hands every
command that `Update` returns to a goroutine. The goroutine calls the session and sends one
message back; messages of different goroutines arrive in any order and are dropped once the
context of the program is done. The run has one context, derived from the caller's: the quit
command, the caller and the end of `Run` cancel it. The line client has the same session but no
event loop: its goroutines share a context, two channels and a mutex that is held while a record
is written. The driver of the test kit runs the same model in lock step: it applies a key, runs
the returned command in a worker and waits for its message or for a timeout.

What is hard: any order of keys, answers, failures and cancellations (lanes, tokens, shutdown);
state that is kept while a call is in flight and is stale when its answer arrives (prompt, draft,
place in the history, window); queues at their limits; a write that fails half way or blocks with
the mutex held; the timeout of a drain racing the answer; calls of the session that never return; a change between
looking at something and going to sleep over it; the errors of steps and of the cleanups deferred
behind them.
`PROJECT.json` lists these hazards at their lines, each with the properties aimed at it.

## Modules and the code they model

| Module | Models | Notes |
| --- | --- | --- |
| `PromptEditor` | `editor.go` | the functions as operators on `[value, cursor]` |
| `PromptEditing` | every sequence of those calls | a machine with one variable, the editor |
| `Renderer` | `FixedRenderer.Render` | operators on lines of runes with a width in cells |
| `PromptScreen`, `MCPromptEditing` | every prompt that editing reaches, drawn at every size | extends `PromptEditing` and `Renderer` |
| `PresentationModel` | `Model` and `Model.Update` | the fields are the variables, each handler is an action, the returned `tea.Cmd` is the variable `command` |
| `TuiShell`, `MCTuiShell`, `MCTuiShellOpen` | `bubbleShell.Run`, the adapter, the goroutines, the program | extends `PresentationModel`; `MCTuiShellOpen` has two instances in one run, told by `subject` |
| `SessionContract` | the comment of `Session` | the abstract specification; `TuiShell` and `SemanticShell` implement it, each under its mapping `Contract` |
| `ClientLog` | the output and the result of the line client, as its README and `shell.go:56-102` state them | an abstract specification without goroutines; `SemanticShell` implements it under its mapping `Log` |
| `SemanticShell`, `MCSemanticShell` | `Shell.Run` of the line client | one value of `pc` per goroutine |
| `AgentAdapter` | `Adapter.Perform` and `Receive` | usable alone (`AdapterSpec`) or composed; the run `tools` checks it |
| `AgentClient`, `MCAgentClient` | line client over adapter | extends the one, instantiates the other; calls are joint actions; its two properties are proved, not run |
| `KeyBindings` | standard bindings, `normalizeBindings`, the match of a key, first strokes of the driver | operators; the instances take their bindings from it |
| `TestDriver` | `Driver`, the hooks and `ScriptSession.Perform` | extends `PresentationModel` |
| `TraceReplay` | `Trace.validate`, `Trace.Replay` | extends `TestDriver` |
| `TraceJson` | `NewTrace`, `CanonicalJSON`, `ParseTrace` | extends `TraceReplay`; documents are records; in `JsonSpec` traces are stored and read back any number of times |
| `ScriptSession` | `PushUpdate`, `Receive`, `Close` of the scripted session | sections under the mutex are steps |
| `VirtualTerminal` | `Write`, `Resize`, `WaitFor`, `Close` of the virtual terminal | the same |
| `TestBench` | both, with a program that shows what it receives | extends the two |
| `QualityGate` | `run` of the quality gate and its steps | a step is a list of instructions |
| `MCTools` | small instances of replay, JSON, gate, bench and adapter | one of them in each behaviour, told by `subject` |
| `PromptEditorTheorems`, `PromptEditingProofs`, `TuiShellProofs`, `SemanticShellProofs`, `AgentAdapterProofs`, `TestKitProofs`, `TestBenchProofs`, `QualityGateProofs` | proofs only | |

**Prompt editor.** A text is a sequence of runes. The grapheme library is the constant relation
`Glued`: two neighbouring runes in it belong to one character. Every rune weighs one byte, so the
byte bound of a prompt is a bound on its length. `Insert` refuses what would exceed the bound or an
editor that is not valid; `Move` of an invalid editor yields the zero editor, as `editor.go:80` does.

**Presentation model.** One action per handler: `UpdateKey` (with `ApplyAction` for bound keys and
`TypeText` for the others), `Resize`, `CompleteReceive`, `CompleteOperation`, `CompleteCancel`.
Early returns are guards: a second submit while an operation is in flight, an exhausted token, a
stale token, an invalid update, a revision that does not increase. `MaxToken` stands for
`math.MaxUint64`: a lane at its last token makes no further request. Items and statuses have a
weight in bytes (`Weight`), so that the eviction of old activity is decided as in the code. Of the
frame this module has only `ViewFits`: whether `View` can be built at all.

**Renderer.** A rune takes no cell (a combining mark), one, or two (a wide rune); escape sequences of
colours take none and are left out. `Truncate` and `TruncateLeft` are those of charmbracelet's `ansi`, which
keep a wide rune whole that straddles the cut on the left and drop it on the right. The body, title and
status are fixed, the prompt is whatever editing has made of it.

**Shell run.** A command that was started is a record in `tasks`, in one of four stages: started,
cleared, calling the session, returned. `Check` is the adapter's look at its context and `Call` the call of
the session: two steps, as nothing keeps them together in the code, so that `Run` may return in between. A call can thus begin
after `Run` has returned, with a context that is done; what the code excludes, and `NoCallAfterRun` says,
is that a goroutine still passes the look. `Deliver` is the loop taking a message, `Drop` the message given
up because the context is done. `runDone` is the context of the run, `callerDone` the caller's,
and the cancellation spreads from one to the other in a step of its own. A session may answer with
any value or failure, at any time, or never.

The end of a run has the steps of the code. `ShutDown` is the program judging how its loop ended and
cancelling its own context, `ProgramReturns` the return of `Program.Run` once all handlers are done, with `Run`
reading the context of its caller, `ShellReturns` the rest of `bubbleShell.Run`, which reads the context of
the run: a quit can come between the two readings. `signal` is the listener for SIGINT and SIGTERM.
It takes one signal (`SignalArrives`), and its send has no way out: the loop takes the message
(`TakeSignal`), or the loop has ended, the listener is stuck (`ListenerStuck`), and `ProgramReturns` is
never possible. The listener ends with the program's context only while it waits (`ListenerEnds`).

**Line client.** `pc[w]` says where goroutine `w` stands: ready, calling the session, about to
emit, writing with the mutex held, and for the input goroutine, which is `Run` itself, stopping
and joining the others. A record is written in two steps with the mutex held, so a failed or
blocked write is possible at any record. A view is its revision.

`ClientLog` says what this amounts to for whoever reads the output: a log to which an answer, a view, a
refusal, a last word or half a record is appended under conditions on the log itself, and a result that is
the `Verdict` of the log. Under the mapping `Log` the log is `output`, an operation is attempted when
`Perform` is called, and all else that the goroutines do is a stutter.

**Key bindings.** `Normalizes` says which sets of bindings the model accepts, `KeyMap` what it then does
with a stroke. TLC checks that the standard bindings are accepted, and that `Bindings` of the instances
is their `KeyMap`; `DriverAssumption` is checked with their first strokes and the driver's quit strokes.

**Agent adapter.** `Perform` is split where the code unlocks the mutex: number the operation, read
the run, call the daemon, store the run, announce. `result` keeps the mutex while it sends to the
channel of updates; `Announce` and `Send` are therefore two steps with `mu` held in between. The run that a
call is about is read with the mutex (`ForRun`) and used without it, while a submission may replace it. The
daemon is external: its calls fail, succeed, or never come back.

**Driver and replay.** Keys of one driver call are pressed one by one. A command is run by the
worker; the drain ends with its message or with the timeout, whichever is first, and the timeout
closes the driver. A trace is any valid one of at most `MaxEvents` events; it is played twice over
fresh drivers, and both plays may time out at different moments.

**JSON of traces.** A document is a record: the schema, the options, the events with the fields they
have, and three flags for what the shape does not tell: other spelling, unknown fields, trailing text.
A key has a stroke and a text, and `Sendable` are those that are valid UTF-8. `keyPress` refuses a text
only when its first rune is invalid, and looks at no text when the stroke names a key, so recorded traces have texts
JSON cannot carry: such a text is written with the replacement character as an escape, and what that is read as is
written back without the escape.
A document is read, validated, encoded again, and refused when the result is another document.
`Respelled` changes a canonical document in one place. A trace comes from `NewTrace` (`Record`) or from
`ParseTrace` of what a trace at hand was written as, respelled or not (`Reload`); `recorded` is all of them.

**Test bench.** A receiver of the scripted session and a waiter of the terminal look under the mutex,
let go of it, and sleep on a channel that the next change closes and replaces. All that matters of a
channel is whether it is the one still open, hence the sets `onOpenChannel` and `onOpenNotify`. A screen is the
size of the terminal and what the emulator shows. A waiter
judges the screen it took without the mutex, while others write, resize or close. The program in between
is external: it writes each update it receives. The emulator shows the last chunk written.

**Quality gate.** A mode is a list of steps (`Steps`), a step a list of instructions (`Body`): a check of
files, a process without or with network, a temporary file or tree, a deferred call, a function entered
and left, a place where it may return early. Any instruction may fail, and a process cannot succeed once
the context has expired. A failing function runs what it has deferred, last first; a cleanup may fail in
turn, and its error is joined or only warned of, as in the code. What a check looks for is left to chance.

Definitions whose comment begins with "A seeded defect" are not part of any specification: each is a
plausible bug that a property must detect when it takes the place of the definition it varies.

## The runs

| Run | Instance | Question |
| --- | --- | --- |
| `prompt_marks` | a letter, a wide rune and a combining mark, prompts of 5 | does any sequence of keys leave the cursor inside a character, do steps right and left cancel out, does backspace take exactly one character? Drawn at every size up to 12 by 8 over a body with wide runes: is the frame as large as the terminal, and is the cursor after the text before it? |
| `prompt_hangul` (violation) | letter, Hangul consonant and vowel | the same, where the left rune matters too: see Findings |
| `prompt_runes` (violation) | a letter and a mark | does backspace take one rune? See Findings |
| `shell`: lanes | keys to type, send and cancel; 1 update; a caller that may cancel; tokens to 2 | with every order of keys, answers, failures and a cancellation: are lanes serialised, is none lost, is a dead stream visible, and is the contract implemented? |
| `shell`: sessions | history keys, two sizes, four updates, history of 2, window of 2 items and 5 bytes, tokens to 2 | in a session nobody ends: bounds of window and history, usable prompt, monotonic revisions, what was typed kept, history equal to what the session accepted |
| `shell_progress` | a quit key, tokens to 2, failures, cancellations and signals at any moment, with fairness | does a quit, a signal or a cancellation end the run, unless the listener is stuck; does nothing pass the look at the context after it; is every operation settled, do goroutines end, is the result honest? |
| `shell_browse` (violation) | full history of 3 | does the previous-key show the entry before the one shown? |
| `shell_view` (violation) | a window that fills | can the view always be built? |
| `shell_signal` (violation) | no key, one token, signals and a cancellation | does a cancelled run always return? |
| `client` | 2 lines, queues of 1, snapshot, change and invalid updates, calls that fail, a reader that panics, with fairness | is the run one numbered log (contiguous records, newer views, one answer to each call, nothing after a last word, a result that is the verdict of the log), is an operation attempted once, is the result honest and `Run` quiet after its return, is the contract of the session kept? Does the run end, is quit obeyed, does a cancel pass a blocked submission? |
| `client_over_full_adapter` (violation) | channel of 1 | does the composition end when it is cancelled? |
| `tools`: traces | all valid traces of up to 4 of 11 events, tokens never used up | are operations recorded, do replays agree and keep to the reference, is closed final? |
| `tools`: JSON | recorded traces of 1 or 2 of 20 events, keys with texts JSON cannot carry among them, set or unset options, and each document respelled in one place | and what is read back recorded again: does a document read back as its trace or not at all, and only that document? |
| `trace_text` (violation) | the same | is every document that was written read? |
| `tools`: gate | seven modes and an unknown one, every failure of every instruction and cleanup, the context expiring at any moment | is a pass earned, is nothing left behind unsaid, is the network used only where allowed? |
| `tools`: bench, with fairness | two receivers, one waiter, two updates, one of which the emulator fails on, a transcript of 2 bytes that the second does not fit in after the first, one resize | is whoever sleeps up to date, does every wait end when it can, does every update get to the screen? |
| `tools`: adapter, with fairness | 3 operations, channel of 2 | order and loss of updates, uniqueness of numbers, does a call about a run name one that was started, independence of the lanes |

The bounds, and why they are enough:

- `MaxToken` (2 requests of a lane): a stale answer needs two requests of one lane, and the last
  token itself is one of the cases. In `tools` the bound is larger than any trace can reach.
- `MaxPrompt`, `MaxHistory`, `MaxActivity`, `MaxView`: each is reached and pushed against in the run
  that asks about it, with one entry more than fits.
- `MaxLines = 2` with queues of one: the second command finds the queue full when the first is
  still waiting, and both lanes are busy when they differ.
- `QueueDepth = 2` with three operations and the snapshot: the channel fills and drains several times.
  The code has 16; the properties do not depend on the depth, and the three about safety are
  proved for every depth.
- Sizes up to 12 by 8, where the widest prompt and the whole body just fit: every prompt is cut at every
  cell, and every line of the body is the last one shown once.
- Two receivers and two updates: a receiver sleeps while the other takes what was pushed; a third of
  either repeats that. The waiter is alone: waiters share nothing they write.
- `MaxEvents = 4` with 11 events: the shortest trace in which an operation can be prepared,
  performed, timed out and followed by another event has four.

Deadlock is checked in every run but the ones that look for a violation of `RunEnds`; runs that end
do so in an explicit step (`Finished`, `AllCalled`, `GateDone`, `BenchFinished`). A run of the shell that has a stuck listener has ended, too: it waits
for ever, which `Finished` allows and `shell_signal` shows. In the sessions of `shell` and in `OpenSpec`
nobody ends the shell and there is always a key to press. `shell_view` and `shell_browse` stop at their first counterexample.

## Fairness

- `ProgramFairness` (`TuiShell`): the Go scheduler runs every goroutine, so its own steps are weakly
  fair. Delivery of a message is strongly fair for each lane: a sender blocked on the channel of
  messages is queued in order of arrival by the runtime, so it is served however many keys compete
  with it. `Check` and `Call` of a lane are weakly fair, `TakeSignal` and the delivery of a quit together strongly: either ends the
  loop, which leaves the other where it is. The listener ends once it waits and the context is done. Nothing is assumed of
  the user, of the arrival of signals or of the caller.
- `HonoursCancellation` (a session that answers once its context is done) and `AnswersOperations` (a
  session that answers its operations) are premises of `GoroutinesEnd` and `OperationSettles` only. The
  end of the run, `RunReturns`, is claimed for any session, and for any signal but one that comes too late.
- `Fairness` (`SemanticShell`): goroutines run, a locked mutex is handed on to one that waits, the
  output takes or fails a write, and calls of the session return once the context is done. The last is what the comment of `Session` demands. `Run` waits for its workers, so unlike the
  terminal shell it does not return without that. `AnswersCancels` adds a session that returns from
  cancels, as a second cancel waits for the first.
- `AdapterFairness`: updates are received, the lanes take their steps, and the cancel lane, if it waits
  for the mutex, is served again and again (strong fairness, as above). The daemon answers the calls of the cancel
  lane; it may leave those of the ordinary lane unanswered for ever. It is asked in the behaviours of
  the adapter only.
- `Fairness` (`TestBench`): receivers, waiters and the program take the steps they can. Nothing is
  asked of the test: it need not push, close or cancel anything. It is asked in the behaviours of the
  bench only.
- `ClientFairness`: the same for the composition, with a daemon that answers once the context is done.

## What is proved

TLAPS proves these for every value of the constants that satisfies the named assumptions
of the modules, `PromptEditorAssumption` to `RecordingAssumption`. They say what the code takes for granted:
sizes are numbers, bindings name actions, updates are of the three kinds, the first view of the model fits its bound (`NewModel`
refuses one that does not), a rune is at most two cells wide, the label of the prompt takes two cells, an
event or an update of a trace has the fields its constructor gives it (`RecordingAssumption`). Every invariant and
every property of steps that a passing run checks is the subject of a theorem; what is left to TLC alone is named at the end.

- `EditingTypeCorrect`, `CursorStaysOnBoundary`, `MovesReturn`, `BackspaceIsExact`
  (`PromptEditingProofs`). All but the first assume
  `GluedByRight`: whether two runes join depends on the right one, as with combining marks. Without it a
  cursor can end up inside a character, as `prompt_hangul` shows. The lemmas of `PromptEditorTheorems` say what each
  editing function does to boundaries. Two steps cancel out because the boundary a step goes to is the
  nearest one, and nothing lies between it and the place the cursor came from. Backspace takes one
  character because the boundaries of the shorter text are those of the longer one, but for the one at the
  cursor, moved by the length of the cut: a bijection, so that their numbers differ by one.
- `FramesAreExact`, `CursorIsShownAtText` (`PromptEditingProofs`), for every prompt, body and size. Cells
  are a fold over the runes; what a fold does to an appended or joined sequence is shown by the least
  counterexample among its prefixes (`FoldSumOfAppend`, `FoldSumOfConcat`), as induction cannot be cited.
  `Fitting` is the longest prefix that fits, so a line is filled up to its last cell with blanks. Neither
  theorem needs `GluedByRight`: it is enough that the cursor stays inside the text.
- `LanesAreSerialized`, `NoLaneIsLost`, `ReturnsAreHonest`, `NoCallOutlivesRun`
  (`TuiShellProofs`). Serialisation is not inductive: a second request could be born while the command
  of the first has not been started. `LaneInv` therefore adds that a command waiting for its goroutine is
  the only request of its lane and carries the lane's token; `LaneIInv` joins it with `NoLostLane` and with
  `EndInv`, which says what the loop, the contexts and the two results tell of each other at every stage
  of the shutdown. `ReturnsAreHonest` is all of `ReturnIsHonest`: an error only for a failure or an interrupt; an error for
  every failure, unless a quit had been asked for or the caller had cancelled; the caller's error for a run that only
  the caller ended, and only if it did cancel; nil only if somebody asked for the end. A failure that
  races a quit is not reported, as `shell.go:52` takes it for the kill of the quit; the property says so.
  `NoCallOutlivesRun` speaks of the look at the context, not of the call: see Shell run.
- `ShellTypeCorrect`, `HistoryIsIndexed`, `StoppedLaneShows`, `PromptsAreUsable`, `RevisionsIncrease`
  (`TuiShellProofs`). `ShellInv` strengthens the types by the validity of every text that can become
  the prompt (`Prompts`: editor, draft and history; `Pending`: the text in flight) and by `StopIsVisible`.
  `PromptsAreUsable` needs `GluedByRight` for the same reason as above.
- `ListsStayBounded` (`TuiShellProofs`): the history and the window with its weight in bytes stay within
  their limits. The window is cut by dropping its oldest items until the rest fits; the rest is the least
  such suffix, and its weight is a fold treated as above. That the loop of the code ends at all needs that an
  empty window fits, which is why the first view must.
- `HistoryIsOfTheSession`, `DraftsAreKept` (`TuiShellProofs`), two properties of steps. The first: of all
  steps only two change the history, an update that brings another and the answer of a call that succeeded,
  which adds the prompt the call was made with; the answer of one that failed adds nothing. The second, under
  `GluedByRight` like `PromptsAreUsable` (a move in a prompt with its cursor inside a character erases it): the prompt
  changes only under a key or by the acceptance of the text it shows, and what the user typed, which is the draft while he
  browses, only under the editing keys, by such an acceptance, or when another history replaces the one
  he browses. `SentInv` ties the text in flight to the request that carries it, so that what the model compares the
  prompt with is what the session has accepted; `StepCases` sorts the steps by what they touch.
- `ShellImplementsContract` (`TuiShellProofs`): initial states map to initial states and every
  step to a step of `SessionContract` or a stutter. It rests on both invariants and on `NoEarlyReply`:
  a goroutine carries the failed reply until its call has returned, so the stream counts as open till
  then.
- `UpdatesStayInOrder`, `OperationNumbersAreUnique` (together `NumbersStayRight`),
  `AnnouncementsComeFirst` (`AgentAdapterProofs`).
  The invariant `UpdateInv` says that every update sent carries the number of its place, that the lane
  which sends holds the mutex, and that the revision is the number of updates sent, or one more while a
  lane is sending. Order alone is not inductive: it says nothing about the update that was numbered and
  not yet sent. `OperationInv` keeps the numbers that wait in a lane apart from those already asked.
- `RunsStayKnown` (`AgentAdapterProofs`): a call about a run, made with what was read before the mutex was let
  go, names a run the daemon has started; a response names the latest, a cancel perhaps one that was
  replaced since. `RunInv` adds why: only the ordinary lane stores runs, one at a time, and while it starts
  another its number is above that of the run at hand (`RunIsNumbered`).
- `StrokeHasOneBinding`, `DriverReachesTheAction` (`TestKitProofs`), for any set of bindings that
  `normalizeBindings` accepts: the first binding that matches a stroke is the only one, and the stroke the
  driver sends for an action is answered with that action. `PresentationModel` takes `Bindings` as a
  function of the stroke; the first theorem is why it may.
- `OperationsAreRecorded`, `ClosedStaysClosed`, `ReferenceNeverDrifts` (`TestKitProofs`), for every valid
  trace, with workers that answer late or never. `DriverInv` says which worker there can be at each stage of
  a call (`CallInv`), and that tokens issued, requests in the air and intents recorded add up (`BooksInv`);
  a worker that was left behind belongs to a closed driver. `ReferenceInv` keeps revision and size of model and
  reference together, and the revisions that are still to come above both.
- `ReplaysAgree` (`TestKitProofs`): the two rounds of a replay never disagree, for every valid trace,
  model and set of bindings, however the workers and the timeouts fall. The second round is compared with
  the evidence of the first, not with its states, so the proof needs what a round is besides its
  interleaving: a function. `Advanced` takes a replay from one event, key or capture to the next over a
  record of what the model and the session keep (`ModelState`), and drains a command at once. The
  state of a round is read as it will be when the command in flight has been drained (`SettledState`):
  the worker's steps then change nothing (`WorkerStaysOnItsWay`), for which `FlightInv` says that the
  command in flight carries the prompt the model waits for and that its worker was told what the script
  says; every other step of a round that has not failed is a step of the function (`StepAdvances`), and a
  timeout fails the round. `JourneyInv` keeps each round on a sequence of such steps, and two such
  sequences that are over end alike (`OneOutcome`, by the least counterexample). It rests on `DriverInv`
  and on the events of a trace being typed (`ReplayAssumption`), as decoding leaves them.
- `CanonicalJsonIsExact`, `StoredTracesAreExact` (`TestKitProofs`): the document of a recorded trace
  is read back as that very trace if the texts of its keys can be stored, and refused otherwise, never read as
  another; and no respelling of it is read as that trace. Each kind of event
  is shown to survive the way there and back; the rest is that maps of sequences compose. The first
  theorem is about a trace `NewTrace` made; the second about every trace that storing and reading can
  lead to, with `MadeByNewTrace` as the invariant: whatever is read, of whatever spelling, `ParseTrace` ends
  in the checks of `NewTrace` (`ReadTraceIsMade`), on events that have the shape their constructors give them
  (`ReadEventHasShape`) and on options in which nothing is unset any more (`OptionsAreSettled`).
- `ClientTypeCorrect`, `OutputOrderKept`, `OperationsKeptDistinct`, `AnswersGiven`, `ReturnKept`,
  `ClientImplementsContract` (`SemanticShellProofs`). `TypeInv` joins the types with `PlaceInv`: which
  stages a goroutine can be in, and that who writes holds the mutex. Each property has an invariant of
  its own on top of it. `EmitInv` and `ViewInv`: the records written are the numbers given out, but for
  the one that is being written, and a view that waits for the mutex is newer than all written.
  `NumberInv`: the numbers drawn by the input goroutine, in calls, queue and refusals, are apart from
  each other and from the record it is about to emit. `AnswerInv`: a lane has answered all its calls but
  the one it is in or whose record it holds. `ErrorInv` and `EndInv` tie every error variable to the
  record that told of it, and what `Run` returns to those variables. The line client
  is the second program shown to implement `SessionContract`, under a mapping that reads the phase of a
  lane from the stage of its goroutine.
- `ClientImplementsLog`, `LogIsOrdered`, `LogIsAnswered` (`SemanticShellProofs`). The first is the refinement
  of `ClientLog`, step by step. Two invariants are new in it: `SubjectInv`, a refusal about to be written is of
  an operation newer than all refused before, and `FinalInv`, a goroutine that has written its last word is on
  its way out. Without them a stage `emit` could append a record the log does not allow. The other two
  show that a log of this kind is contiguous with newer views (`OutputIsOrdered`) and answers each call once
  (`CallsAreAnswered`), which is why the run checks `KeepsLog` and neither of them.
- `AdapterIsServed`, `ClientIsKept`, `CallsOfBothAgree`, `AdapterStreamIsAccepted` (`SemanticShellProofs`),
  about the line client over the Agent adapter. Every step of the composition is a step of the adapter's
  specification and one of the client's, or leaves the part alone, so all theorems about either hold of
  both together. On top of them two properties of the composition: `CallsAgree`, the adapter serves
  a lane exactly while the client waits in it, and `StreamIsAccepted`, the client refuses no update
  of the adapter and shows all that it was delivered. The premise `ServesClient` is that the constants
  are those the adapter assumes and that `Updates`, what the client expects of a session, has all the
  adapter can send. The theorems are about safety: `client_over_full_adapter` shows that the
  composition need not end.
- `NoWakeUpIsLost` (`TestBenchProofs`), for any number of goroutines. `SleepersAreUpToDate` is inductive
  once it also speaks of a waiter that has the mutex behind it and has yet to judge: it has seen the
  present screen, or the channel it holds is closed (`WaiterInv`, `ReceiverInv`).
- `PassesAreEarned`, `LeftoversAreReported`, `OfflineKept` (`QualityGateProofs`), for every outcome of
  every instruction of every mode. The first part proves of the scripts that every temporary is followed
  at once by the deferred call that removes it, with only the closing of the file between, that the scripts of the modes without
  network hold no instruction with network, and that the bootstrap defers its comparison before the
  first download. The second part is an induction over the run: `StackInv` (an error stays until the
  functions are left), `PassInv` (what passed is what was begun, but for the step that runs),
  `TemporaryInv` (what exists is deferred in some frame, about to be, or reported), `BootstrapInv` (a
  changed repository is watched or has failed) and `NetworkInv`.

Only model-checked: everything under fairness (`RunReturns`, `NobodyIsForgotten`, `OperationSettles`,
`GoroutinesEnd`, `RunEnds`, `QuitIsObeyed`, `CancelGetsThrough`, `CancelsAreIndependent`), which is out of
the prover's reach.

## Findings

Seven statements of the repository that the code does not keep, each with a run that shows it:

1. **Backspace between Hangul letters** (`prompt_hangul`). Deleting the letter between a consonant and a
   vowel joins the two, and the cursor stays between them. The editor is then invalid: it refuses
   text, the next cursor key empties it, and the view shows the failure text. `editor.go:43` promises a
   cursor at a boundary.
2. **The place in the history after a trim** (`shell_browse`). When an accepted prompt pushes the
   oldest entry out of a full history while the user browses it, the index keeps its value and now names
   the entry after the one shown; the next previous-key shows the same entry again.
3. **The view over its bound** (`shell_view`). Activity is evicted only when an item arrives, with the
   prompt and the status of that moment. Typing, a recall or an error status can exceed
   `MaximumViewBytes` later, and nothing of the view is rendered then. `SECURITY.md:15` promises the
   eviction before the bound can be exceeded.
4. **A full channel of the Agent adapter** (`client_over_full_adapter`). `result` sends without
   looking at the context and with the mutex held. When the channel is full at the moment of a
   cancellation, the receive loop leaves, the send blocks for ever, and `Run` does not return, although
   `shell.go:56` lists caller cancellation as an end. Two lanes each produce an update per record they
   write, while one goroutine takes updates and writes a record for each through the same emitter, so a
   backlog can grow to the depth of the channel. The run uses a channel of one to keep the trace short.
5. **What backspace removes** (`prompt_runes`). `editor.go:99` says "the rune immediately before the
   cursor". The code removes the whole character, mark and letter together, as `editor.go:175` says. The code does
   what the property `BackspaceTakesOneCharacter` of `prompt_marks` demands; the first comment is out of date.
6. **A signal that comes too late** (`shell_signal`). The listener of Bubble Tea sends its message
   without looking at the context (`tea.go:671`, `tea.go:673`). When the loop ends for another reason after the
   signal was taken, the send blocks for ever, `Program.shutdown` waits for the listener, and `Run` does not
   return, though `contracts.go:5` demands that a shell honours cancellation. `RunReturns` names the case as the only exception.
7. **A stored trace that cannot be read** (`trace_text`). `textKey` checks the first rune only
   (`keys.go:94`), and the text of a named key is not looked at. A text with an invalid byte later is recorded;
   `encoding/json` writes the byte as the escape of the replacement character, the reader writes that character as itself, and `ParseTrace` refuses the
   document because it is no longer the same. `trace_json.go:70` promises to accept what `CanonicalJSON` emits.

## What is not modelled

- Of rendering: colours, the text for screen readers (`renderAccessible`), pictures and golden files. They
  are pure functions of values without a decision that other code depends on.
- Of the quality gate: what its checks of files look for (pins, digests, workflows, metadata). They read
  and compare fixed texts; each is an instruction that passes or fails.
- The terminal itself: raw mode, mouse, clipboard, suspension, and the wait of the shutdown for its reader (half a second at most).
- Two runs of one shell at once. The model is copied for each run; they share the session only.
- Branches of `completeEffect` for a result that is invalid: the adapter has turned it into an error before.
- In the line client: the texts of records and views and their trimming. A quit or the end of the input
  drops operations that are still queued, as the code does; `KeepsLog` speaks of calls made, and
  "attempted exactly once" (`shell.go:57`) is shown as at most once, and once for each operation a lane takes.
- In the adapter: `Close`, and the mapping of the daemon's texts. In `peer.go`: everything, it is a test
  server in a process of its own.
- In the driver: bindings that give the quit strokes another meaning. `Driver.apply` recognises a quit by
  the names `ctrl+c` and `ctrl+q` whatever the bindings say; `DriverAssumption` excludes the
  difference. Also `Close` between two calls, and accessible mode in replays.
- Generated code, autoconfiguration and annotations: no state of their own.

## Plan

In order of importance:

1. `SessionValues`: the validation of workspaces, statuses and updates as operators, and the limits they
   share with the window of the model.
2. Semantic views of the line client (`state.go`): the accumulated activity and its trim.
