------------------------------ MODULE MCTools ------------------------------
(***************************************************************************)
(* Small instances of the tools of tests and verification, one of them in  *)
(* each behaviour: the replay of a trace, the JSON of a trace, a run of    *)
(* the quality gate, the test bench, and the adapter of the conformance    *)
(* test.  They share nothing; what a behaviour is not about keeps one      *)
(* fixed value.                                                            *)
(***************************************************************************)
EXTENDS TraceJson, QualityGate, TestBench, AgentAdapter, KeyBindings

CONSTANTS r1, r2, w1, a, item, ws, ready, failed, done

Runes   == {a}
NoGlue  == {}
Weights == [x \in {ws, ready, failed, item} |-> 1]

Actions == KeyMap(StandardKeyBindings)
Typing  == [key \in DOMAIN Actions \cup {"a", "rejected"} |-> IF key = "a" THEN <<a>> ELSE << >>]

(* "Enter" is lowered to the key enter; only the spelling "enter" is known *)
(* to traceEventMayPerform.  The text "invalid" is no UTF-8 from its first *)
(* byte on, "a+invalid" only after a letter: the prompt rejects it.        *)
Spellings == [enter |-> "enter", Enter |-> "enter", A |-> "a", text |-> "text", invalid |-> "changed"]
Named     == [enter |-> "enter"]
TextKeys  == [t \in {"a", "changed", "a+invalid"} |-> IF t = "a+invalid" THEN "rejected" ELSE "a"]
Performs  == {"enter"}
Strokes   == FirstStrokes(StandardKeyBindings)
QuitKeys  == {"ctrl+c", "ctrl+q"}

Act(action)    == [kind |-> "action", action |-> action]
Stroke(stroke) == [kind |-> "key", stroke |-> stroke, text |-> NoText]
Typed(stroke, text) == [kind |-> "key", stroke |-> stroke, text |-> text]
Update(update) == [kind |-> "update", update |-> update]

Sample ==
  {Stroke("A"), [kind |-> "type", keys |-> <<"a", "a">>],
   Stroke("enter"), Stroke("Enter"),
   Act("cancel-active-run"), Act("quit"),
   Update([kind |-> "activity", revision |-> 1, item |-> item]),
   Update([kind |-> "prompt-history", revision |-> 2, history |-> <<<<a>>>>]),
   [kind |-> "resize", width |-> 2, height |-> 1],
   [kind |-> "snapshot", name |-> "shown"],
   [kind |-> "perform-result", result |-> done]}
(* Events for the JSON of traces: two of them make a trace.                  *)
Recorder ==
  Sample \cup
  {Typed("text", "a"), Typed("text", "a+invalid"), Typed("Enter", "invalid"),
   Typed("A", "changed"), Typed("invalid", "a"), Typed("text", "invalid"), Stroke("text"),
   Update([kind |-> "activity", revision |-> 3, item |-> item]),
   Update([kind |-> "snapshot", revision |-> 2, workspace |-> ws, status |-> failed,
           activity |-> <<item>>, history |-> << >>])}

Recorded ==
  [options : [width : {0, 2}, height : {2}, theme : {"dark", "light"}],
   events  : [1..1 -> Recorder] \cup [1..2 -> Recorder]]

Pictures == 1..MaxPushed
Lengths  == [u \in Pictures |-> IF u = 2 THEN 2 ELSE 1]
Wants    == [w \in Waiters |-> [size |-> 2, shown |-> 1]]

-----------------------------------------------------------------------------
VARIABLE subject

toolVars == <<vars, gateVars, benchVars, adapterVars, subject, recorded>>

NoReplay == trace = <<[kind |-> "snapshot", name |-> "shown"]>> /\ FreshReplay
NoGate   == mode = "fmt" /\ GateStart

(* A bench whose program has failed. *)
NoBench ==
  /\ updates = << >> /\ pushed = 0 /\ sessionClosed = FALSE
  /\ receiving = [r \in Receivers |-> "failed"] /\ got = [r \in Receivers |-> 0]
  /\ onOpenChannel = {} /\ impatient = {}
  /\ TerminalInit

(* An adapter whose snapshot has been received and that nobody calls. *)
NoAdapter ==
  /\ channel = << >> /\ delivered = <<1>>
  /\ latest = 1 /\ operation = 0 /\ run = 0 /\ mu = Free /\ asked = << >>
  /\ stage = [lane \in Callers |-> "idle"]
  /\ call = [lane \in Callers |-> [intent |-> "submit", operation |-> 0, run |-> 0, update |-> 0]]

ToolsInit ==
  /\ JsonInit
  /\ \/ subject = "replay" /\ Init /\ NoGate /\ NoBench /\ NoAdapter
     \/ subject = "json" /\ NoReplay /\ NoGate /\ NoBench /\ NoAdapter
     \/ subject = "gate" /\ GateInit /\ NoReplay /\ NoBench /\ NoAdapter
     \/ subject = "bench" /\ BenchInit /\ NoReplay /\ NoGate /\ NoAdapter
     \/ subject = "adapter" /\ InitAdapter /\ NoReplay /\ NoGate /\ NoBench

ToolsNext ==
  \/ subject = "replay" /\ Next /\ UNCHANGED <<gateVars, benchVars, adapterVars, subject, recorded>>
  \/ subject = "json" /\ JsonNext /\ UNCHANGED <<vars, gateVars, benchVars, adapterVars, subject>>
  \/ subject = "gate" /\ GateNext /\ UNCHANGED <<vars, benchVars, adapterVars, subject, recorded>>
  \/ subject = "bench" /\ BenchNext /\ UNCHANGED <<vars, gateVars, adapterVars, subject, recorded>>
  \/ subject = "adapter" /\ AdapterNext /\ UNCHANGED <<vars, gateVars, benchVars, subject, recorded>>

(* What rests takes no step, so that the fairness asks nothing of it. *)
ToolsSpec == ToolsInit /\ [][ToolsNext]_toolVars /\ Fairness /\ AdapterFairness
=============================================================================
