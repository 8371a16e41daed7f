---------------------------- MODULE MCAgentClient ----------------------------
(***************************************************************************)
(* Small instances of AgentClient: queues of one operation each.           *)
(***************************************************************************)
EXTENDS AgentClient

Shallow == [lane \in Lanes |-> 1]
=============================================================================
