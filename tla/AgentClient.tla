----------------------------- MODULE AgentClient -----------------------------
(***************************************************************************)
(* The line client with the Agent adapter as its session, as the           *)
(* conformance test composes them (protocol_adapter_test.go): calls of the *)
(* client are calls of the adapter, and both have the same context.        *)
(***************************************************************************)
EXTENDS SemanticShell

CONSTANTS QueueDepth, MaxOperation

VARIABLES channel, mu, latest, operation, run, stage, call, asked, delivered

Adapter == INSTANCE AgentAdapter

adapterVars == <<channel, mu, latest, operation, run, stage, call, asked, delivered>>
clientVars == <<vars, adapterVars>>

ClientInit == Init /\ Adapter!InitAdapter

(* performLoop hands an operation to Perform. *)
CallPerform(lane) ==
  /\ Take(lane)
  /\ \E intent \in Adapter!IntentsOf(lane) : Adapter!Perform(lane, intent)

(* Perform is back with a result that is valid, or with an error. *)
PerformReturns(lane) ==
  /\ Answered(lane)
  /\ ~ctx => record'[lane].type = IF stage[lane] = "returned" THEN "result" ELSE "perform_failed"
  /\ Adapter!Back(lane)

(* The first update is the snapshot of Dial, the others are activities. *)
ReceiveUpdate ==
  /\ Adapter!TakeUpdate
  /\ LET next == Head(channel)
     IN  Receive(IF next = 1 THEN "snapshot" ELSE "change", next)

(* Receive of the adapter fails for its context only. *)
ReceiveEnds == ctx /\ ReceiveFails /\ UNCHANGED adapterVars

AdapterSteps == \E lane \in Lanes : (Adapter!Work(lane) \/ Adapter!Daemon(lane)) /\ UNCHANGED vars

(* What the client does without its session. *)
ClientSteps ==
  /\ \/ \E w \in Workers : Lock(w) \/ Written(w) \/ WriteFails(w)
     \/ InvalidCommand \/ Quit \/ (\E lane \in Lanes : Command(lane))
     \/ EndOfInput \/ InputFails \/ StopWorkers \/ Return \/ CloseInput \/ CallerCancels
     \/ CallReceive \/ Signal \/ StopReceiving
     \/ \E lane \in Lanes : Leave(lane)
  /\ UNCHANGED adapterVars

(* Run has returned: Close gives up what the adapter still holds. *)
ClientFinished == Finished /\ UNCHANGED adapterVars

ClientNext ==
  \/ ClientSteps \/ AdapterSteps
  \/ \E lane \in Lanes : CallPerform(lane) \/ PerformReturns(lane)
  \/ ReceiveUpdate \/ ReceiveEnds
  \/ ClientFinished

ClientSpec == ClientInit /\ [][ClientNext]_clientVars

(* As for the client, with a daemon that answers once the context is done. *)
ClientFairness ==
  /\ \A w \in Workers :
       WF_clientVars((Lock(w) \/ Written(w) \/ WriteFails(w)) /\ UNCHANGED adapterVars)
  /\ WF_clientVars(ClientSteps /\ (StopWorkers \/ Return \/ CloseInput \/ CallReceive \/ Signal \/ StopReceiving))
  /\ WF_clientVars(closed /\ EndOfInput /\ UNCHANGED adapterVars)
  /\ WF_clientVars(ReceiveEnds)
  /\ \A lane \in Lanes :
       /\ WF_clientVars(CallPerform(lane) \/ (Leave(lane) /\ UNCHANGED adapterVars))
       /\ WF_clientVars(PerformReturns(lane))
       /\ WF_clientVars(Adapter!Work(lane) /\ UNCHANGED vars)
       /\ WF_clientVars(ctx /\ Adapter!Daemon(lane) /\ UNCHANGED vars)

FairClient == ClientSpec /\ ClientFairness

-----------------------------------------------------------------------------
(* Properties *)

(* The two sides agree about the calls: the adapter serves a lane exactly   *)
(* while that lane of the client waits for Perform, so that it never has    *)
(* two calls of a lane, and none once Run has returned (shell.go:253-291).  *)
CallsAgree ==
  /\ \A lane \in Lanes : pc[lane] = "calling" <=> stage[lane] # "idle"
  /\ outcome # "running" => \A lane \in Lanes : stage[lane] = "idle"

(* However the lanes interleave, the client accepts every update that the   *)
(* adapter numbers: the stream has no gap, and it never ends the run        *)
(* (state.go:35-60 with adapter.go:247-263).                                *)
StreamIsAccepted ==
  /\ shown = Len(delivered)
  /\ \A i \in DOMAIN output : output[i].type \notin {"invalid_update", "receive_failed"}
  /\ outcome # "ErrSessionReceive"
=============================================================================
