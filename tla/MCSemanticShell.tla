--------------------------- MODULE MCSemanticShell ---------------------------
(***************************************************************************)
(* One small instance of SemanticShell.  A behaviour is about one of two   *)
(* subjects: two lines to read while the session sends no update, or one   *)
(* line and all kinds of updates.  The queues take one operation each.     *)
(***************************************************************************)
EXTENDS SemanticShell

VARIABLE subject

Shallow == [lane \in Lanes |-> 1]

Invalid == {<<"invalid", 0>>}
Stream  == {<<"snapshot", 1>>, <<"change", 1>>} \cup Invalid

NoUpdates == shown' = 0 /\ record'["receive"].type # "invalid_update"

ClientInit == Init /\ subject \in {"lines", "updates"}

ClientNext ==
  /\ Next
  /\ subject = "lines" => NoUpdates
  /\ subject = "updates" => lines' <= 1
  /\ UNCHANGED subject

(* What is left out are inputs: no goroutine waits for one of them. *)
ClientSpec ==
  ClientInit /\ [][ClientNext]_<<vars, subject>> /\ Fairness /\ AnswersCancels
=============================================================================
