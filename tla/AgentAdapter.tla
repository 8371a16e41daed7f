----------------------------- MODULE AgentAdapter -----------------------------
(***************************************************************************)
(* The Session that the conformance test puts between the line client and  *)
(* an Agent daemon (semantic-shell/internal/agentcompat, adapter.go): a    *)
(* bounded channel of updates, filled once by Dial and then by every       *)
(* operation that succeeds, and a mutex around revision, operation and     *)
(* run, which `result' still holds while it sends to the channel.          *)
(*                                                                         *)
(* The client of the daemon is external: its calls may fail, and return    *)
(* late or never.                                                          *)
(***************************************************************************)
EXTENDS Naturals, Sequences, FiniteSets, SequencesExt

CONSTANTS
  QueueDepth,     \* updateQueueDepth
  MaxOperation    \* bound: operations that are begun

ASSUME AgentAdapterAssumption == QueueDepth \in Nat \ {0} /\ MaxOperation \in Nat

VARIABLES
  channel,     \* `updates': revisions waiting in it
  mu,          \* the lane that holds the mutex, or free
  latest,      \* `revision': of the last update
  operation,   \* the number of the last operation
  run,         \* the run the last submission started, 0 for none
  stage,       \* [Callers -> where the call of Perform stands]
  call,        \* [Callers -> its intent, operation number, run and update]
  asked,       \* the operation numbers taken to the daemon
  delivered    \* the revisions Receive has returned

stateVars   == <<channel, mu, latest, operation, run>>
adapterVars == <<stateVars, stage, call, asked, delivered>>

(* The shell has one call of Perform in flight in each of its lanes. *)
Callers == {"ordinary", "cancels"}
IntentsOf(lane) == IF lane = "cancels" THEN {"cancel"} ELSE {"submit", "respond"}
Free == "free"
Stages == {"idle", "begun", "numbered", "calling", "started", "succeeded", "sending",
          "returned", "failed"}

(* Dial leaves the snapshot with revision 1 in the channel. *)
InitAdapter ==
  /\ channel = <<1>> /\ latest = 1 /\ operation = 0 /\ run = 0
  /\ mu = Free
  /\ stage = [lane \in Callers |-> "idle"]
  /\ call = [lane \in Callers |-> [intent |-> "submit", operation |-> 0, run |-> 0, update |-> 0]]
  /\ asked = << >> /\ delivered = << >>

At(lane, from, to) == stage[lane] = from /\ stage' = [stage EXCEPT ![lane] = to]

-----------------------------------------------------------------------------
(* Perform *)

Perform(lane, intent) ==
  /\ operation + Cardinality({l \in Callers : stage[l] = "begun"}) < MaxOperation
  /\ At(lane, "idle", "begun")
  /\ call' = [call EXCEPT ![lane].intent = intent]
  /\ UNCHANGED <<stateVars, asked, delivered>>

(* A seeded defect: the number is read after the mutex was released. *)
NumberTwice(lane) ==
  /\ mu = Free
  /\ \/ /\ At(lane, "begun", "counted")
        /\ operation' = operation + 1
        /\ UNCHANGED call
     \/ /\ At(lane, "counted", "numbered")
        /\ call' = [call EXCEPT ![lane].operation = operation]
        /\ UNCHANGED operation
  /\ UNCHANGED <<channel, mu, latest, run, asked, delivered>>

(* A seeded defect: one mutex around all of Perform. *)
NumberInTurn(lane) ==
  /\ \A other \in Callers : stage[other] \in {"idle", "begun"}
  /\ At(lane, "begun", "numbered")
  /\ operation' = operation + 1
  /\ call' = [call EXCEPT ![lane].operation = operation']
  /\ UNCHANGED <<channel, mu, latest, run, asked, delivered>>

Number(lane) ==
  /\ mu = Free
  /\ At(lane, "begun", "numbered")
  /\ operation' = operation + 1
  /\ call' = [call EXCEPT ![lane].operation = operation']
  /\ UNCHANGED <<channel, mu, latest, run, asked, delivered>>

(* submit goes to the daemon at once, respond and cancel read the run first *)
(* and fail if there is none.                                               *)
AskAbout(lane, target) ==
  /\ At(lane, "numbered", "calling")
  /\ call' = [call EXCEPT ![lane].run = target]
  /\ asked' = Append(asked, call[lane].operation)
  /\ UNCHANGED <<stateVars, delivered>>

(* A seeded defect: the run is stored before the daemon has started it. *)
StartEarly(lane) ==
  /\ call[lane].intent = "submit" /\ mu = Free
  /\ At(lane, "numbered", "calling")
  /\ run' = call[lane].operation
  /\ call' = [call EXCEPT ![lane].run = 0]
  /\ asked' = Append(asked, call[lane].operation)
  /\ UNCHANGED <<channel, mu, latest, operation, delivered>>

Start(lane) == call[lane].intent = "submit" /\ AskAbout(lane, 0)

(* A seeded defect: hasRun is not looked at. *)
ForAnyRun(lane) == call[lane].intent # "submit" /\ mu = Free /\ AskAbout(lane, run)

ForRun(lane) == call[lane].intent # "submit" /\ mu = Free /\ run # 0 /\ AskAbout(lane, run)

NoRun(lane) ==
  /\ call[lane].intent # "submit" /\ mu = Free /\ run = 0
  /\ At(lane, "numbered", "failed")
  /\ UNCHANGED <<stateVars, call, asked, delivered>>

(* The request could not be built from the value. *)
Unbuilt(lane) ==
  /\ At(lane, "numbered", "failed")
  /\ UNCHANGED <<stateVars, call, asked, delivered>>

CallFails(lane) ==
  /\ At(lane, "calling", "failed")
  /\ UNCHANGED <<stateVars, call, asked, delivered>>

CallSucceeds(lane) ==
  /\ At(lane, "calling", IF call[lane].intent = "submit" THEN "started" ELSE "succeeded")
  /\ UNCHANGED <<stateVars, call, asked, delivered>>

(* A run is named after the operation that started it. *)
StoreRun(lane) ==
  /\ mu = Free
  /\ At(lane, "started", "succeeded")
  /\ run' = call[lane].operation
  /\ UNCHANGED <<channel, mu, latest, operation, call, asked, delivered>>

(* A seeded defect: the mutex is released before the update is sent. *)
AnnounceUnlocked(lane) ==
  /\ mu = Free
  /\ At(lane, "succeeded", "sending")
  /\ latest' = latest + 1
  /\ call' = [call EXCEPT ![lane].update = latest']
  /\ UNCHANGED <<channel, mu, operation, run, asked, delivered>>

Announce(lane) ==
  /\ mu = Free
  /\ At(lane, "succeeded", "sending")
  /\ mu' = lane
  /\ latest' = latest + 1
  /\ call' = [call EXCEPT ![lane].update = latest']
  /\ UNCHANGED <<channel, operation, run, asked, delivered>>

(* A seeded defect: an update that finds the channel full is dropped. *)
SendOrDrop(lane) ==
  /\ At(lane, "sending", "returned")
  /\ channel' = IF Len(channel) < QueueDepth THEN Append(channel, call[lane].update) ELSE channel
  /\ mu' = Free
  /\ UNCHANGED <<latest, operation, run, call, asked, delivered>>

(* The mutex is held until the channel has taken the update. *)
Send(lane) ==
  /\ At(lane, "sending", "returned")
  /\ Len(channel) < QueueDepth
  /\ channel' = Append(channel, call[lane].update)
  /\ mu' = Free
  /\ UNCHANGED <<latest, operation, run, call, asked, delivered>>

(* Perform is back at its caller, with a result or with an error. *)
Back(lane) ==
  /\ \E ending \in {"returned", "failed"} : At(lane, ending, "idle")
  /\ UNCHANGED <<stateVars, call, asked, delivered>>

Work(lane) ==
  \/ Number(lane) \/ Start(lane) \/ ForRun(lane) \/ NoRun(lane) \/ Unbuilt(lane)
  \/ StoreRun(lane) \/ Announce(lane) \/ Send(lane)

Daemon(lane) == CallFails(lane) \/ CallSucceeds(lane)

(* Receive returns the oldest update. *)
TakeUpdate ==
  /\ channel # << >>
  /\ channel' = Tail(channel)
  /\ delivered' = Append(delivered, Head(channel))
  /\ UNCHANGED <<mu, latest, operation, run, stage, call, asked>>

-----------------------------------------------------------------------------
(* The adapter under any caller that keeps to one call in each lane. *)

AllCalled == operation = MaxOperation /\ (\A lane \in Callers : stage[lane] = "idle")
             /\ UNCHANGED adapterVars

AdapterNext ==
  \/ \E lane \in Callers :
       \/ \E intent \in IntentsOf(lane) : Perform(lane, intent)
       \/ Work(lane) \/ Daemon(lane) \/ Back(lane)
  \/ TakeUpdate
  \/ AllCalled

AdapterSpec == InitAdapter /\ [][AdapterNext]_adapterVars

(* The adapter's own steps are taken, updates are received, and the daemon  *)
(* answers the calls of the cancel lane.  A mutex is handed on to the lane  *)
(* that waits for it: asked here of the cancel lane, the only one that is   *)
(* claimed to get through.                                                  *)
AdapterFairness ==
  /\ WF_adapterVars(TakeUpdate)
  /\ WF_adapterVars(Work("ordinary")) /\ SF_adapterVars(Work("cancels"))
  /\ \A lane \in Callers : WF_adapterVars(Back(lane))
  /\ WF_adapterVars(Daemon("cancels"))

FairAdapter == AdapterSpec /\ AdapterFairness

-----------------------------------------------------------------------------
(* session.go:12: "Receive must return updates in strictly increasing       *)
(* positive revision order": here even without a gap, though two lanes      *)
(* number and send them (adapter.go:252-262).                               *)
UpdatesInOrder ==
  LET sent == delivered \o channel IN \A i \in DOMAIN sent : sent[i] = i

(* No two calls of the daemon carry the same operation number, which it     *)
(* would take for a repetition (adapter.go:171-174).                        *)
OperationsAreUnique == \A i, j \in DOMAIN asked : asked[i] = asked[j] => i = j

(* The two counters of the adapter, each under one mutex section. *)
NumbersAreRight == UpdatesInOrder /\ OperationsAreUnique

(* When Perform returns a result its activity is on its way (adapter.go:    *)
(* 260-261): an update is never lost, however full the channel.             *)
AnnouncedBeforeAnswered ==
  \A lane \in Callers :
    stage[lane] = "returned" => call[lane].update \in Range(delivered \o channel)

(* A call about a run names one the daemon has started, though the run is   *)
(* read in one section of the mutex and used after it (adapter.go:208,      *)
(* 236).  A response names the latest: submissions have the same lane.  A   *)
(* cancel may name a run that was replaced since, but none whose submission *)
(* the daemon has not answered.                                             *)
AboutRun(lane) ==
  /\ call[lane].intent # "submit"
  /\ stage[lane] \in {"calling", "succeeded", "sending", "returned"}

RunsAreKnown ==
  \A lane \in Callers : AboutRun(lane) =>
    /\ call[lane].run \in Range(asked) /\ call[lane].run <= run
    /\ lane = "ordinary" => call[lane].run = run
    /\ stage["ordinary"] \in {"calling", "started"} /\ call["ordinary"].intent = "submit" =>
         call[lane].run # call["ordinary"].operation

(* session.go:14: a cancel-run Perform executes although the ordinary one   *)
(* never returns.                                                           *)
CancelsAreIndependent == stage["cancels"] = "begun" ~> stage["cancels"] = "idle"
=============================================================================
