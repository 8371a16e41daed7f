--------------------------- MODULE SessionContract ---------------------------
(***************************************************************************)
(* What a shell promises the Session it is given (session.go, the comment  *)
(* of the Session interface): calls are serialised within each lane, a     *)
(* call answers one request and is never retried, and after the receive    *)
(* lane has closed Receive is not called again.                            *)
(***************************************************************************)
CONSTANT Lanes     \* "receive" and the lanes of operations

VARIABLES
  phase,     \* [lane -> idle | requested | calling]
  open       \* the receive lane may still make requests

contractVars == <<phase, open>>

Phases == {"idle", "requested", "calling"}

Init ==
  /\ phase = [lane \in Lanes |-> IF lane = "receive" THEN "requested" ELSE "idle"]
  /\ open = TRUE

(* The user, or the stream of updates, asks for one call. *)
Request(lane) ==
  /\ phase[lane] = "idle"
  /\ lane = "receive" => open
  /\ phase' = [phase EXCEPT ![lane] = "requested"]
  /\ UNCHANGED open

Call(lane) ==
  /\ phase[lane] = "requested"
  /\ phase' = [phase EXCEPT ![lane] = "calling"]
  /\ UNCHANGED open

(* The call came back with a value. *)
Answer(lane) ==
  /\ phase[lane] = "calling"
  /\ phase' = [phase EXCEPT ![lane] = "idle"]
  /\ UNCHANGED open

(* The call failed, or was given up before it was made: the receive lane *)
(* is then closed, the others may make another request.                  *)
Fail(lane) ==
  /\ phase[lane] # "idle"
  /\ phase' = [phase EXCEPT ![lane] = "idle"]
  /\ open' = (open /\ lane # "receive")

(* What was received ends the stream: it is out of sequence. *)
Close ==
  /\ phase["receive"] = "idle"
  /\ open' = FALSE
  /\ UNCHANGED phase

Next ==
  \/ \E lane \in Lanes : Request(lane) \/ Call(lane) \/ Answer(lane) \/ Fail(lane)
  \/ Close

Spec == Init /\ [][Next]_contractVars

TypeOK == phase \in [Lanes -> Phases] /\ open \in BOOLEAN

=============================================================================
