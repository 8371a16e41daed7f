------------------------------ MODULE TraceJson ------------------------------
(***************************************************************************)
(* The canonical JSON of traces (tuittest/trace_json.go) and what makes an *)
(* event valid by itself (trace.go).                                       *)
(*                                                                         *)
(* A document is a tree of objects together with how it is spelled: field  *)
(* order, white space, doubled fields and the final LF are one value,      *)
(* "canonical" or not.  An object is a record of the fields it has.  A     *)
(* list that is missing or null is Null; the activity and the prompt       *)
(* history of a snapshot stand for its sections and hints as well.         *)
(* What is decoded is the set of at most one value it may be.              *)
(***************************************************************************)
EXTENDS TraceReplay

CONSTANTS
  Null,
  Schema,          \* traceSchema
  ThemeModes, DarkMode,
  Sendable,        \* strings that are valid UTF-8: JSON carries them as they are
  Escaped,         \* what it carries for the others: the replacement character, escaped
  Changed,         \* what that is read as: the replacement character, which is valid
  SnapshotNames,   \* names validateTraceName accepts
  Recordable,      \* events that their constructors make, valid or not
  Recordings       \* the options and events NewTrace is called with

-----------------------------------------------------------------------------
(* TraceEvent.validate *)

ASSUME TraceJsonAssumption ==
  /\ Changed \in Sendable \ {NoText} /\ NoText \in Sendable /\ Escaped \notin Sendable
  /\ NoText \in STRING \ ThemeModes /\ ThemeModes \subseteq STRING    \* also an unset theme
  /\ Null # << >>

(* An update and an event as their constructors make them: each kind has    *)
(* its own fields and no other; a nil list is an empty one.                 *)
UpdateShape(update) ==
  \/ /\ update.kind = "snapshot"
     /\ update = [kind |-> "snapshot", revision |-> update.revision,
                  workspace |-> update.workspace, status |-> update.status,
                  activity |-> update.activity, history |-> update.history]
     /\ update.activity # Null /\ update.history # Null
  \/ /\ update.kind = "activity"
     /\ update = [kind |-> "activity", revision |-> update.revision, item |-> update.item]
  \/ /\ update.kind = "prompt-history"
     /\ update = [kind |-> "prompt-history", revision |-> update.revision,
                  history |-> update.history]
     /\ update.history # Null

EventShape(event) ==
  \/ event.kind = "type" /\ event = [kind |-> "type", keys |-> event.keys]
  \/ /\ event.kind = "key"
     /\ event = [kind |-> "key", stroke |-> event.stroke, text |-> event.text]
  \/ event.kind = "action" /\ event = [kind |-> "action", action |-> event.action]
  \/ /\ event.kind = "update" /\ event = [kind |-> "update", update |-> event.update]
     /\ UpdateShape(event.update)
  \/ /\ event.kind = "resize"
     /\ event = [kind |-> "resize", width |-> event.width, height |-> event.height]
  \/ event.kind = "snapshot" /\ event = [kind |-> "snapshot", name |-> event.name]
  \/ event.kind = "perform-result" /\ event = [kind |-> "perform-result", result |-> event.result]

TraceOptions == [width : Nat, height : Nat, theme : STRING]

ASSUME RecordingAssumption ==
  /\ \A event \in Recordable : EventShape(event)
  /\ Recordings \subseteq [options : TraceOptions, events : Seq(Recordable)]

ValidEvent(event) ==
  CASE event.kind = "type"     -> /\ event.keys # << >> /\ Len(event.keys) <= MaxPrompt
                                  /\ \A i \in DOMAIN event.keys : event.keys[i] \in DOMAIN KeyText
    [] event.kind = "key"      -> ValidKey(event.stroke, event.text)
    [] event.kind = "action"   -> event.action \in BoundActions
    [] event.kind = "update"   -> ValidUpdate(event.update)
    [] event.kind = "resize"   -> event.width \in 1..MaxWidth /\ event.height \in 1..MaxHeight
    [] event.kind = "snapshot" -> event.name \in SnapshotNames
    [] event.kind = "perform-result" -> event.result \in Result

(* NewTrace: unset options have defaults, whatever is recorded is valid.    *)
normalizeTraceOptions(options) ==
  [options EXCEPT !.width  = IF @ = 0 THEN Width ELSE @,
                  !.height = IF @ = 0 THEN Height ELSE @,
                  !.theme  = IF @ = NoText THEN DarkMode ELSE @]

NewTrace(options, events) ==
  {t \in {[options |-> normalizeTraceOptions(options), events |-> events]} :
     /\ t.options.width \in 1..MaxWidth /\ t.options.height \in 1..MaxHeight
     /\ t.options.theme \in ThemeModes
     /\ \A i \in DOMAIN events : ValidEvent(events[i])
     /\ ValidTrace(events)}

-----------------------------------------------------------------------------
(* traceToWire *)

Encoded(text) == IF text \in Sendable THEN text ELSE Escaped

updateToWire(update) ==
  [kind |-> update.kind, revision |-> update.revision,
   payload |->
     CASE update.kind = "snapshot" ->
            [snapshot |-> [workspace |-> update.workspace, status |-> update.status,
                           activity |-> update.activity, history |-> update.history]]
       [] update.kind = "activity"       -> [activity |-> update.item]
       [] update.kind = "prompt-history" -> [history |-> update.history]]

eventToWire(event) ==
  [type |-> event.kind,
   fields |->
     CASE event.kind = "type"   -> [text |-> event.keys]
       [] event.kind = "key"    -> IF event.text = NoText THEN [stroke |-> Encoded(event.stroke)]
                                   ELSE [stroke |-> Encoded(event.stroke), text |-> Encoded(event.text)]
       [] event.kind = "action" -> [action |-> event.action]
       [] event.kind = "update" -> [update |-> updateToWire(event.update)]
       [] event.kind = "resize" -> [width |-> event.width, height |-> event.height]
       [] event.kind = "snapshot"       -> [name |-> event.name]
       [] event.kind = "perform-result" -> [result_message |-> event.result]]

CanonicalJSON(t) ==
  [schema |-> Schema, options |-> t.options,
   events |-> [i \in DOMAIN t.events |-> eventToWire(t.events[i])],
   spelling |-> "canonical", unknown |-> FALSE, trailing |-> FALSE]

-----------------------------------------------------------------------------
(* traceFromWire *)

(* hasEventFields: these fields, perhaps those, and no other. *)
HasFields(fields, needed, optional) ==
  needed \subseteq DOMAIN fields /\ DOMAIN fields \subseteq needed \cup optional

Decoded(string) == IF string = Escaped THEN Changed ELSE string

Listed(list) == IF list = Null THEN << >> ELSE list

updateFromWire(wire) ==
  LET p == wire.payload
  IN  CASE wire.kind = "snapshot" /\ HasFields(p, {"snapshot"}, {}) ->
             {[kind |-> "snapshot", revision |-> wire.revision,
               workspace |-> p.snapshot.workspace, status |-> p.snapshot.status,
               activity |-> Listed(p.snapshot.activity), history |-> Listed(p.snapshot.history)]}
        [] wire.kind = "activity" /\ HasFields(p, {"activity"}, {}) ->
             {[kind |-> "activity", revision |-> wire.revision, item |-> p.activity]}
        [] wire.kind = "prompt-history" /\ HasFields(p, {"history"}, {}) ->
             {[kind |-> "prompt-history", revision |-> wire.revision,
               history |-> Listed(p.history)]}
        [] OTHER -> {}

(* A seeded defect: the text of a key is not read back. *)
keyWithoutText(f) == [kind |-> "key", stroke |-> Decoded(f.stroke), text |-> NoText]

keyEventFromWire(f) ==
  [kind |-> "key", stroke |-> Decoded(f.stroke),
   text |-> IF "text" \in DOMAIN f THEN Decoded(f.text) ELSE NoText]

eventFromWire(wire) ==
  LET f     == wire.fields
      event ==
        CASE wire.type = "type" /\ HasFields(f, {"text"}, {}) ->
               {[kind |-> "type", keys |-> f.text]}
          [] wire.type = "key" /\ HasFields(f, {"stroke"}, {"text"}) -> {keyEventFromWire(f)}
          [] wire.type = "action" /\ HasFields(f, {"action"}, {}) ->
               {[kind |-> "action", action |-> f.action]}
          [] wire.type = "update" /\ HasFields(f, {"update"}, {}) ->
               {[kind |-> "update", update |-> u] : u \in updateFromWire(f.update)}
          [] wire.type = "resize" /\ HasFields(f, {"width", "height"}, {}) ->
               {[kind |-> "resize", width |-> f.width, height |-> f.height]}
          [] wire.type = "snapshot" /\ HasFields(f, {"name"}, {}) ->
               {[kind |-> "snapshot", name |-> f.name]}
          [] wire.type = "perform-result" /\ HasFields(f, {"result_message"}, {}) ->
               {[kind |-> "perform-result", result |-> f.result_message]}
          [] OTHER -> {}
  IN  {e \in event : ValidEvent(e)}

traceFromWire(document) ==
  LET read == [i \in DOMAIN document.events |-> eventFromWire(document.events[i])]
  IN  IF document.schema # Schema \/ \E i \in DOMAIN read : read[i] = {} THEN {}
      ELSE NewTrace(document.options, [i \in DOMAIN read |-> CHOOSE e \in read[i] : TRUE])

(* A seeded defect: what is read is not compared with what it stands for.   *)
ParseTraceLeniently(document) ==
  IF document.unknown \/ document.trailing THEN {} ELSE traceFromWire(document)

ParseTrace(document) ==
  IF document.unknown \/ document.trailing THEN {}
  ELSE {t \in traceFromWire(document) : CanonicalJSON(t) = document}

-----------------------------------------------------------------------------
(* Documents that are not what CanonicalJSON makes of a trace *)

(* One event with a field more, a field less, an empty text, or a null list. *)
RespelledEvents(wire) ==
  LET fields(f) == [wire EXCEPT !.fields = f]
      less      == {fields([n \in DOMAIN wire.fields \ {name} |-> wire.fields[n]]) :
                      name \in DOMAIN wire.fields}
      more      == {fields([n \in DOMAIN wire.fields \cup {name} |->
                              IF n \in DOMAIN wire.fields THEN wire.fields[n] ELSE NoText]) :
                      name \in {"text", "name"}}
      null      == IF wire.type # "update" THEN {}
                   ELSE {[wire EXCEPT !.fields.update.payload = p] :
                           p \in {[history |-> Null], [snapshot |-> Null, history |-> << >>]}}
  IN  less \cup more \cup null

(* A document respelled in one place. *)
Respelled(document) ==
  {[document EXCEPT !.spelling = "other"], [document EXCEPT !.unknown = TRUE],
   [document EXCEPT !.trailing = TRUE], [document EXCEPT !.schema = NoText],
   [document EXCEPT !.events = << >>],
   [document EXCEPT !.options.width = 0], [document EXCEPT !.options.theme = NoText]}
  \cup UNION {{[document EXCEPT !.events[i] = e] : e \in RespelledEvents(document.events[i])} :
                i \in DOMAIN document.events}

(* Keys of a trace whose texts JSON can carry.  textKey looks for invalid   *)
(* UTF-8 in the first rune only, and not at all at the text of a named key. *)
Storable(t) ==
  \A i \in DOMAIN t.events : t.events[i].kind = "key" =>
    t.events[i].stroke \in Sendable /\ t.events[i].text \in Sendable

(* The JSON of a recorded trace is read back as that trace, unless a key    *)
(* has a text that is not valid UTF-8: then it is refused, never read as a  *)
(* different trace.  No other spelling of a document is read as the trace   *)
(* (trace_json.go:71-97).                                                   *)
JsonIsExact(t) ==
  LET document == CanonicalJSON(t)
  IN  /\ ParseTrace(document) = IF Storable(t) THEN {t} ELSE {}
      /\ \A d \in Respelled(document) : d # document => t \notin ParseTrace(d)

-----------------------------------------------------------------------------
(* A trace that is recorded, stored and read back, any number of times, its *)
(* document possibly respelled in between.                                  *)
VARIABLE recorded      \* the trace at hand, if there is one

JsonInit == recorded = {}

Record ==
  /\ recorded = {}
  /\ \E recording \in Recordings :
       recorded' = NewTrace(recording.options, recording.events)

Documents(t) == {CanonicalJSON(t)} \cup Respelled(CanonicalJSON(t))

Reload == \E t \in recorded : \E d \in Documents(t) : recorded' = ParseTrace(d)

JsonNext == Record \/ Reload

JsonSpec == JsonInit /\ [][JsonNext]_recorded

(* Every trace that can be at hand has an exact document: see JsonIsExact.  *)
TraceJsonIsExact == \A t \in recorded : JsonIsExact(t)

(* trace_json.go:70: "ParseTrace accepts only the exact canonical JSON       *)
(* representation emitted by Trace.CanonicalJSON": it accepts that one.     *)
StoredTracesAreRead == \A t \in recorded : ParseTrace(CanonicalJSON(t)) # {}
=============================================================================
