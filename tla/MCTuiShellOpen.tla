--------------------------- MODULE MCTuiShellOpen ---------------------------
(***************************************************************************)
(* One small instance of TuiShell for two questions, each behaviour about  *)
(* one of them: the lanes, until the caller cancels, and long sessions     *)
(* that nobody ends.                                                       *)
(***************************************************************************)
EXTENDS MCTuiShell

VARIABLE subject

LaneKeys    == {"a", "enter", "esc"}
LaneUpdates == {Activity(1)}

SessionUpdates == {History(1, <<<<b>>, <<a>>>>), [Activity(1) EXCEPT !.item = i2],
                   [Snapshot(2, <<<<b>>>>) EXCEPT !.activity = <<i1, i1>>],
                   [Activity(3) EXCEPT !.item = i2]}
Resizes == {<<0, 2>>, <<9, 2>>}

AllKeys    == LaneKeys \cup HistoryKeys
AllUpdates == LaneUpdates \cup SessionUpdates

Answers(offered) ==
  \E task \in tasks :
    \E reply \in Replies(task.kind) \ (Updates \ offered) : SessionReturns(task, reply)

OneInit == Init /\ subject \in {"lanes", "session"}

OneNext ==
  /\ \/ /\ subject = "lanes"
        /\ (\E key \in LaneKeys : Press(key)) \/ CallerCancels \/ Answers(LaneUpdates)
     \/ /\ subject = "session"
        /\ \/ \E key \in HistoryKeys : Press(key)
           \/ \E s \in Sizes : TerminalResized(s[1], s[2])
           \/ Answers(SessionUpdates)
     \/ Program \/ Finished
  /\ UNCHANGED subject

OneSpec == OneInit /\ [][OneNext]_<<vars, subject>>
=============================================================================
