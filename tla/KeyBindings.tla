----------------------------- MODULE KeyBindings -----------------------------
(***************************************************************************)
(* How a terminal application binds strokes to actions (editor.go), and    *)
(* what the presentation model makes of the bindings it is given           *)
(* (normalizeBindings, updateKey).  A key is its stroke, trimmed and       *)
(* lowered by NewKey; the help texts are left out.                         *)
(***************************************************************************)
EXTENDS Integers, Sequences, FiniteSets

MaxKeys == 8

SupportedActions ==
  {"quit", "submit", "cancel-active-run", "respond", "cursor-left", "cursor-right",
   "cursor-start", "cursor-end", "history-previous", "history-next", "backspace"}

Binding(action, keys) == [action |-> action, keys |-> keys]

(* The bindings a composition root injects unless it has its own. *)
StandardKeyBindings ==
  << Binding("submit", <<"enter">>),
     Binding("cancel-active-run", <<"esc", "ctrl+x">>),
     Binding("respond", <<"alt+enter">>),
     Binding("quit", <<"ctrl+c", "ctrl+q">>),
     Binding("cursor-left", <<"left">>),
     Binding("cursor-right", <<"right">>),
     Binding("cursor-start", <<"home", "ctrl+a">>),
     Binding("cursor-end", <<"end", "ctrl+e">>),
     Binding("history-previous", <<"up">>),
     Binding("history-next", <<"down">>),
     Binding("backspace", <<"backspace">>) >>

(* Binding.Validate; a key without a stroke is none. *)
ValidBinding(binding) ==
  /\ binding.action \in SupportedActions
  /\ Len(binding.keys) \in 1..MaxKeys
  /\ \A k \in 1..Len(binding.keys) : binding.keys[k] # ""

Places(bindings) ==
  {p \in (1..Len(bindings)) \X (1..MaxKeys) : p[2] <= Len(bindings[p[1]].keys)}

StrokeAt(bindings, place) == bindings[place[1]].keys[place[2]]

(* normalizeBindings accepts: there is a binding, each is valid, and neither *)
(* an action nor a stroke occurs twice, be it within one binding.            *)
Normalizes(bindings) ==
  /\ bindings # << >>
  /\ \A i \in 1..Len(bindings) : ValidBinding(bindings[i])
  /\ \A i, j \in 1..Len(bindings) : bindings[i].action = bindings[j].action => i = j
  /\ \A p, q \in Places(bindings) : StrokeAt(bindings, p) = StrokeAt(bindings, q) => p = q

(* Binding.Matches *)
Matches(binding, stroke) ==
  /\ ValidBinding(binding)
  /\ \E k \in 1..Len(binding.keys) : binding.keys[k] = stroke

IsFirstMatch(bindings, stroke, i) ==
  /\ i \in 1..Len(bindings)
  /\ Matches(bindings[i], stroke)
  /\ \A j \in 1..(i - 1) : ~Matches(bindings[j], stroke)

(* updateKey takes the first binding in their order that matches. *)
ActionOf(bindings, stroke) ==
  bindings[CHOOSE i \in 1..Len(bindings) : IsFirstMatch(bindings, stroke, i)].action

BoundStrokes(bindings) == {StrokeAt(bindings, place) : place \in Places(bindings)}

(* The bindings as the model uses them. *)
KeyMap(bindings) ==
  [stroke \in BoundStrokes(bindings) |-> ActionOf(bindings, stroke)]

(* firstStrokes of the scripted driver: the stroke it sends for an action; *)
(* a later binding of the same action would replace an earlier one.        *)
IsLastOf(bindings, action, i) ==
  /\ i \in 1..Len(bindings)
  /\ bindings[i].action = action
  /\ \A j \in (i + 1)..Len(bindings) : bindings[j].action # action

FirstStrokes(bindings) ==
  [action \in {bindings[i].action : i \in 1..Len(bindings)} |->
     bindings[CHOOSE i \in 1..Len(bindings) : IsLastOf(bindings, action, i)].keys[1]]
=============================================================================
