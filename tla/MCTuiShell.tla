----------------------------- MODULE MCTuiShell -----------------------------
(***************************************************************************)
(* Small instances of TuiShell.                                            *)
(***************************************************************************)
EXTENDS TuiShell, KeyBindings

CONSTANTS a, b, i1, i2, ws, ready, failed, done

Runes  == {a, b}
NoGlue == {}
Weights == [x \in {ws, ready, failed, i1, i2} |->
              CASE x = failed -> 2 [] x = i2 -> 3 [] OTHER -> 1]

(* The standard bindings as a table, which TLC looks up faster. *)
Standard ==
  [enter |-> "submit", esc |-> "cancel-active-run", left |-> "cursor-left",
   right |-> "cursor-right", home |-> "cursor-start", end |-> "cursor-end",
   up |-> "history-previous", down |-> "history-next", backspace |-> "backspace"] @@
  "ctrl+x" :> "cancel-active-run" @@ "alt+enter" :> "respond" @@
  "ctrl+c" :> "quit" @@ "ctrl+q" :> "quit" @@
  "ctrl+a" :> "cursor-start" @@ "ctrl+e" :> "cursor-end"

ASSUME StandardIsAccepted ==
  Normalizes(StandardKeyBindings) /\ Standard = KeyMap(StandardKeyBindings)

Typing == [x \in {"a", "b"} \cup DOMAIN Standard |->
             CASE x = "a" -> <<a>> [] x = "b" -> <<b>> [] OTHER -> << >>]

ShutdownKeys == {"a", "enter", "ctrl+c"}
SameSize     == {<<80, 24>>}

Snapshot(r, history) ==
  [kind |-> "snapshot", revision |-> r, workspace |-> ws, status |-> ready,
   activity |-> << >>, history |-> history]
Activity(r) == [kind |-> "activity", revision |-> r, item |-> i1]
History(r, history) == [kind |-> "prompt-history", revision |-> r, history |-> history]

HistoryKeys == {"a", "enter", "up", "down", "backspace"}
BrowseUpdates == {History(1, <<<<b>>, <<a>>, <<b, a>>>>)}
ViewKeys == {"a", "enter", "backspace"}
ViewUpdates == {Activity(1), Activity(2), Activity(3),
                [Snapshot(2, << >>) EXCEPT !.activity = <<i1, i1>>]}
=============================================================================
