---------------------------- MODULE TraceReplay -----------------------------
(***************************************************************************)
(* Trace.Replay of tuittest (trace.go, replay.go): a validated trace is    *)
(* played twice, each time over a fresh driver and a fresh session, and    *)
(* its evidence is returned only if both runs agree.                       *)
(*                                                                         *)
(* The trace is chosen at the start from all valid ones of at most         *)
(* MaxEvents events, each valid by itself.  A screen, in normal mode, is   *)
(* the state of the model it is rendered from.                             *)
(***************************************************************************)
EXTENDS TestDriver

CONSTANTS
  Events,          \* events a trace may hold
  MaxEvents,       \* maximumTraceEvents
  PerformStrokes,  \* spellings that traceEventMayPerform knows
  Width, Height    \* TraceOptions

ASSUME ReplayAssumption ==
  /\ MaxEvents \in Nat
  /\ Width \in 1..MaxWidth /\ Height \in 1..MaxHeight
  /\ \A event \in Events :   \* TraceEvent.validate
       /\ event.kind = "update" =>
            /\ event.update.revision \in Nat
            /\ event.update.kind # "activity" => event.update.history \in Seq(Text)
       /\ event.kind = "resize" =>
            event.width \in 1..MaxWidth /\ event.height \in 1..MaxHeight

VARIABLES
  trace, next,     \* the trace and the index of its next event
  round,           \* first or second replay
  applied,         \* the event has been applied, its screen not captured
  reference,       \* replayReference
  steps,           \* evidence of this round
  first,           \* evidence of the first round
  outcome          \* how the replay stands

replayVars == <<trace, next, round, applied, reference, steps, first, outcome>>
vars       == <<modelVars, driverVars, replayVars>>

-----------------------------------------------------------------------------
(* Trace.validate *)

PerformingActions == {"submit", "respond", "cancel-active-run"}

MayPerform(event) ==
  \/ event.kind = "action" /\ event.action \in PerformingActions
  \/ event.kind = "key" /\ event.stroke \in PerformStrokes

(* A seeded defect: the revisions of a trace may repeat. *)
ValidInAnyOrder(events) ==
  /\ events # << >> /\ Len(events) <= MaxEvents
  /\ \A i \in DOMAIN events :
       /\ MayPerform(events[i]) =>
            \E j \in 1..(i - 1) : events[j].kind = "perform-result"
       /\ events[i].kind = "update" => ValidUpdate(events[i].update)

ValidTrace(events) ==
  /\ events # << >> /\ Len(events) <= MaxEvents
  /\ \A i \in DOMAIN events :
       /\ MayPerform(events[i]) =>
            \E j \in 1..(i - 1) : events[j].kind = "perform-result"
       /\ events[i].kind = "update" =>
            /\ ValidUpdate(events[i].update)
            /\ \A j \in 1..(i - 1) : events[j].kind = "update" =>
                 events[j].update.revision < events[i].update.revision
       /\ events[i].kind = "snapshot" =>
            \A j \in 1..(i - 1) : events[j] # events[i]

Traces == {events \in UNION {[1..n -> Events] : n \in 1..MaxEvents} : ValidTrace(events)}

-----------------------------------------------------------------------------
(* Screens and the reference they are held against *)

Renderable == ViewFits(workspace, status, editor, activity)

Screen ==
  [workspace |-> workspace, status |-> status, activity |-> activity, editor |-> editor,
   size |-> size, revision |-> revision]

NewReference == [size |-> BoundedSize(Width, Height), revision |-> 0]

(* replayReference.validate: the failure text shows no cursor. *)
Verdict ==
  IF revision # reference.revision THEN "revision"
  ELSE IF ~Renderable THEN "no cursor"
  ELSE IF size # reference.size THEN "size"
  ELSE "running"

-----------------------------------------------------------------------------
(* replayOnce *)

NoEvidence == [steps |-> << >>, intents |-> << >>]

FreshReplay ==
  /\ next = 1 /\ round = 1 /\ applied = FALSE
  /\ NewDriver(Width, Height)
  /\ reference = NewReference
  /\ steps = << >> /\ first = NoEvidence
  /\ outcome = "running"

Init == trace \in Traces /\ FreshReplay

Event == trace[next]

Idle == outcome = "running" /\ ~applied /\ next <= Len(trace)

(* Type presses each character, Key one key, Action the first stroke. *)
KeysOf(event) ==
  CASE event.kind = "type"   -> event.keys
    [] event.kind = "key"    -> <<KeyPress(event.stroke, event.text)>>
    [] event.kind = "action" -> <<FirstStroke[event.action]>>

ApplyKeys ==
  /\ Idle
  /\ Event.kind \in {"type", "key", "action"}
  /\ keys' = KeysOf(Event)
  /\ applied' = TRUE
  /\ UNCHANGED <<modelVars, closed, lastQuit, contextDone, drain, failure, worker,
                 sessionVars, trace, next, round, reference, steps, first, outcome>>

(* InjectUpdate and Resize refuse a closed driver. *)
ApplyClosed ==
  /\ Idle
  /\ Event.kind \in {"update", "resize"} /\ closed
  /\ failure' = "closed"
  /\ applied' = TRUE
  /\ UNCHANGED <<modelVars, closed, lastQuit, contextDone, keys, drain, worker, sessionVars,
                 trace, next, round, reference, steps, first, outcome>>

ApplyUpdate ==
  /\ Idle
  /\ Event.kind = "update" /\ ~closed
  /\ InjectUpdate(Event.update)
  /\ reference' = [reference EXCEPT !.revision = Event.update.revision]
  /\ applied' = TRUE
  /\ UNCHANGED <<closed, contextDone, callVars, worker, sessionVars,
                 trace, next, round, steps, first, outcome>>

ApplyResize ==
  /\ Idle
  /\ Event.kind = "resize" /\ ~closed
  /\ Resize(Event.width, Event.height)
  /\ reference' = [reference EXCEPT !.size = [width |-> Event.width, height |-> Event.height]]
  /\ applied' = TRUE
  /\ UNCHANGED <<driverVars, trace, next, round, steps, first, outcome>>

(* A snapshot only captures; a perform-result is set in the session. *)
ApplyOther ==
  /\ Idle
  /\ Event.kind \in {"snapshot", "perform-result"}
  /\ performResult' = IF Event.kind = "snapshot" THEN performResult ELSE Event.result
  /\ applied' = TRUE
  /\ UNCHANGED <<modelVars, closed, lastQuit, contextDone, callVars, worker, intents,
                 trace, next, round, reference, steps, first, outcome>>

Called == outcome = "running" /\ applied /\ Returned

(* An error of the call ends the replay. *)
Fail ==
  /\ Called
  /\ failure # "none"
  /\ outcome' = "failed"
  /\ UNCHANGED <<modelVars, driverVars, trace, next, round, applied, reference, steps, first>>

(* So does a screen that is off the reference. *)
Capture ==
  /\ Called
  /\ failure = "none"
  /\ outcome' = Verdict
  /\ IF Verdict # "running" THEN UNCHANGED <<steps, next, applied>>
     ELSE /\ steps' = Append(steps, Screen)
          /\ next' = next + 1
          /\ applied' = FALSE
  /\ UNCHANGED <<modelVars, driverVars, trace, round, reference, first>>

-----------------------------------------------------------------------------
(* Replay *)

Ended == outcome = "running" /\ ~applied /\ next > Len(trace)

Evidence == [steps |-> steps, intents |-> intents]

(* A seeded defect: the session of the second round is still scripted. *)
ReplayScripted ==
  /\ Ended /\ round = 1
  /\ round' = 2 /\ next' = 1
  /\ first' = Evidence
  /\ AnotherDriver(Width, Height)
  /\ reference' = NewReference
  /\ steps' = << >>
  /\ intents' = << >>
  /\ UNCHANGED <<trace, applied, outcome, performResult>>

ReplayAgain ==
  /\ Ended /\ round = 1
  /\ round' = 2 /\ next' = 1
  /\ first' = Evidence
  /\ AnotherDriver(Width, Height)
  /\ performResult' = NoResult /\ intents' = << >>
  /\ reference' = NewReference
  /\ steps' = << >>
  /\ UNCHANGED <<trace, applied, outcome>>

(* compareReplay. *)
Compare ==
  /\ Ended /\ round = 2
  /\ outcome' = IF first = Evidence THEN "agreed" ELSE "nondeterministic"
  /\ UNCHANGED <<modelVars, driverVars, trace, next, round, reference, steps, first, applied>>

Finished == outcome # "running" /\ UNCHANGED vars

Next ==
  \/ ApplyKeys \/ ApplyClosed \/ ApplyUpdate \/ ApplyResize \/ ApplyOther
  \/ DriverStep /\ UNCHANGED replayVars
  \/ Fail \/ Capture
  \/ ReplayAgain \/ Compare
  \/ Finished

Spec == Init /\ [][Next]_vars

-----------------------------------------------------------------------------
(* Properties *)

(* Between two calls of a driver that is still open every operation has    *)
(* been settled and has been recorded by the session exactly once: a       *)
(* timeout is never reported as success (docs/tuittest.md).                *)
EveryOperationIsRecorded ==
  Returned /\ ~closed =>
    /\ ~operationActive /\ ~cancelActive
    /\ Len(intents) = operationToken + cancelToken

(* Once the driver is closed, by a quit or by a timeout, the worker it left *)
(* behind cannot change the model any more (Driver.Close).                 *)
ClosedIsFinal == [][closed /\ round' = round => UNCHANGED modelVars]_vars

(* What Trace.validate accepts keeps the model and the reference of a       *)
(* replay at the same revision and size (tuittest/replay.go:162-236).      *)
ReferenceIsFollowed == outcome \notin {"revision", "size"}

(* Two replays that both end never disagree: whatever the timing of the    *)
(* workers, compareReplay finds the same screens and the same intents.     *)
ReplayIsDeterministic == outcome # "nondeterministic" /\ ReferenceIsFollowed
=============================================================================
