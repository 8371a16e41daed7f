---------------------------- MODULE ScriptSession ----------------------------
(***************************************************************************)
(* The scripted Session of tests (tuittest/session.go) as the goroutines   *)
(* that call it see it: a queue of updates behind a mutex, and a channel   *)
(* that is closed and replaced at every change so that receivers blocked   *)
(* on it look again.                                                       *)
(*                                                                         *)
(* A section under the mutex is one step; what a receiver does between two *)
(* of them is a step of its own.  Of the channels only one matters: a      *)
(* receiver either holds the channel that is still open or one that has    *)
(* been closed since.                                                      *)
(***************************************************************************)
EXTENDS Naturals, Sequences

CONSTANTS
  Receivers,     \* goroutines that call Receive
  MaxPushed      \* bound: updates the test pushes, numbered in that order

ASSUME ScriptSessionAssumption == MaxPushed \in Nat /\ Receivers # {}

VARIABLES
  updates,       \* the queue
  pushed,        \* updates accepted so far
  sessionClosed,
  receiving,     \* [Receivers -> where its call stands]
  got,           \* [Receivers -> the update its last call returned, 0: none]
  onOpenChannel, \* receivers that hold the channel not closed yet
  impatient      \* callers, also those of the terminal, whose context is done

queueVars   == <<updates, pushed, sessionClosed>>
scriptVars == <<queueVars, receiving, got, onOpenChannel>>

SessionInit ==
  /\ updates = << >> /\ pushed = 0 /\ sessionClosed = FALSE
  /\ receiving = [r \in Receivers |-> "idle"]
  /\ got = [r \in Receivers |-> 0]
  /\ onOpenChannel = {}
  /\ impatient = {}

ReceiverAt(r, place) == receiving' = [receiving EXCEPT ![r] = place]

(* Close the channel and make another: nobody holds that one yet. *)
SignalReceivers == onOpenChannel' = {}

PushUpdate ==
  /\ pushed < MaxPushed
  /\ ~sessionClosed
  /\ pushed' = pushed + 1
  /\ updates' = Append(updates, pushed')
  /\ SignalReceivers
  /\ UNCHANGED <<sessionClosed, receiving, got, impatient>>

CloseSession ==
  /\ ~sessionClosed
  /\ sessionClosed' = TRUE
  /\ SignalReceivers
  /\ UNCHANGED <<updates, pushed, receiving, got, impatient>>

(* Receive gives up at once when its context is done. *)
StartReceive(r) ==
  /\ receiving[r] = "idle"
  /\ ReceiverAt(r, IF r \in impatient THEN "failed" ELSE "look")
  /\ UNCHANGED <<queueVars, got, onOpenChannel, impatient>>

(* A seeded defect: the channel is taken after the mutex was given back. *)
LookThenHold(r) ==
  /\ \/ /\ receiving[r] = "look"
        /\ IF sessionClosed THEN ReceiverAt(r, "failed") /\ UNCHANGED <<updates, got>>
           ELSE IF updates = << >> THEN ReceiverAt(r, "unheld") /\ UNCHANGED <<updates, got>>
           ELSE /\ ReceiverAt(r, "got")
                /\ got' = [got EXCEPT ![r] = Head(updates)]
                /\ updates' = Tail(updates)
        /\ UNCHANGED onOpenChannel
     \/ /\ receiving[r] = "unheld"
        /\ ReceiverAt(r, "asleep")
        /\ onOpenChannel' = onOpenChannel \cup {r}
        /\ UNCHANGED <<updates, got>>
  /\ UNCHANGED <<pushed, sessionClosed, impatient>>

(* One pass of the loop of Receive, under the mutex.  A closed session      *)
(* fails even while updates are queued.                                     *)
LookForUpdate(r) ==
  /\ receiving[r] = "look"
  /\ \/ sessionClosed /\ ReceiverAt(r, "failed") /\ UNCHANGED <<updates, got, onOpenChannel>>
     \/ /\ ~sessionClosed /\ updates # << >>
        /\ got' = [got EXCEPT ![r] = Head(updates)]
        /\ updates' = Tail(updates)
        /\ ReceiverAt(r, "got")
        /\ UNCHANGED onOpenChannel
     \/ /\ ~sessionClosed /\ updates = << >>
        /\ onOpenChannel' = onOpenChannel \cup {r}
        /\ ReceiverAt(r, "asleep")
        /\ UNCHANGED <<updates, got>>
  /\ UNCHANGED <<pushed, sessionClosed, impatient>>

(* The select of Receive: whichever branch is ready. *)
ReceiverWakes(r) ==
  /\ receiving[r] = "asleep"
  /\ \/ r \notin onOpenChannel /\ ReceiverAt(r, "look")
     \/ r \in impatient /\ ReceiverAt(r, "failed")
  /\ onOpenChannel' = onOpenChannel \ {r}
  /\ UNCHANGED <<queueVars, got, impatient>>

Receiver(r) == StartReceive(r) \/ LookForUpdate(r) \/ ReceiverWakes(r)

(* The context of a call ends at any moment. *)
LosePatience(x) ==
  /\ x \notin impatient
  /\ impatient' = impatient \cup {x}
  /\ UNCHANGED scriptVars
=============================================================================
