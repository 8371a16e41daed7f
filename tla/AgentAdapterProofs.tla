------------------------- MODULE AgentAdapterProofs -------------------------
(***************************************************************************)
(* What AgentAdapter guarantees for every depth of the channel and every   *)
(* number of operations.                                                   *)
(***************************************************************************)
EXTENDS AgentAdapter, TLAPS

Calls == [intent : {"submit", "respond", "cancel"}, operation : Nat, run : Nat, update : Nat]

TypeInv ==
  /\ channel \in Seq(Nat) /\ delivered \in Seq(Nat) /\ asked \in Seq(Nat)
  /\ mu \in Callers \cup {Free}
  /\ latest \in Nat /\ operation \in Nat /\ run \in Nat
  /\ stage \in [Callers -> Stages]
  /\ call \in [Callers -> Calls]

-----------------------------------------------------------------------------
(* Updates *)

Sent == Len(delivered) + Len(channel)

(* Every update carries the number of its place in the stream. *)
InPlace ==
  /\ \A i \in 1..Len(delivered) : delivered[i] = i
  /\ \A i \in 1..Len(channel) : channel[i] = Len(delivered) + i

(* The lane that sends holds the mutex, and the number after the last sent. *)
OneSender ==
  /\ \A lane \in Callers : stage[lane] = "sending" <=> mu = lane
  /\ mu = Free => latest = Sent
  /\ mu # Free => latest = Sent + 1 /\ call[mu].update = latest

OnItsWay == \A lane \in Callers : stage[lane] = "returned" => call[lane].update \in 1..Sent

UpdateInv == InPlace /\ OneSender /\ OnItsWay

-----------------------------------------------------------------------------
(* Operation numbers *)

(* A number that was taken to the daemon is not waiting in a lane as well. *)
OperationInv ==
  /\ \A i \in DOMAIN asked : asked[i] <= operation
  /\ \A lane \in Callers : stage[lane] = "numbered" =>
       /\ call[lane].operation <= operation
       /\ \A i \in DOMAIN asked : asked[i] # call[lane].operation
  /\ \A l1, l2 \in Callers :
       stage[l1] = "numbered" /\ stage[l2] = "numbered" /\ l1 # l2 =>
         call[l1].operation # call[l2].operation
  /\ OperationsAreUnique

AdapterInv == TypeInv /\ UpdateInv /\ OperationInv

-----------------------------------------------------------------------------
(* Runs *)

(* A run is stored under a number that was taken to the daemon, by the      *)
(* ordinary lane only, whose numbers grow: while it starts another run, its *)
(* number is above that of the run at hand.                                 *)
RunInv ==
  /\ run # 0 => run \in Range(asked)
  /\ \A lane \in Callers :
       /\ stage[lane] # "idle" => call[lane].intent \in IntentsOf(lane)
       /\ stage[lane] = "started" => call[lane].intent = "submit"
       /\ stage[lane] \in {"calling", "started"} => call[lane].operation \in Range(asked)
  /\ stage["ordinary"] \in {"numbered", "calling", "started"} => run < call["ordinary"].operation
  /\ RunsAreKnown

-----------------------------------------------------------------------------
(* Lemmas about sequences of numbers *)

LEMMA AppendedSeq ==
  ASSUME NEW s \in Seq(Nat), NEW n \in Nat
  PROVE  /\ Append(s, n) \in Seq(Nat)
         /\ Len(Append(s, n)) = Len(s) + 1
         /\ DOMAIN Append(s, n) = 1..(Len(s) + 1)
         /\ \A i \in 1..Len(s) : Append(s, n)[i] = s[i]
         /\ Append(s, n)[Len(s) + 1] = n
OBVIOUS

LEMMA TakenSeq ==
  ASSUME NEW s \in Seq(Nat), s # << >>
  PROVE  /\ Tail(s) \in Seq(Nat) /\ Head(s) \in Nat /\ Head(s) = s[1]
         /\ Len(s) \in Nat \ {0} /\ Len(Tail(s)) = Len(s) - 1
         /\ \A i \in 1..(Len(s) - 1) : Tail(s)[i] = s[i + 1]
OBVIOUS

LEMMA StepAt ==
  ASSUME TypeInv, NEW lane \in Callers, NEW from, NEW to \in Stages, At(lane, from, to)
  PROVE  /\ stage[lane] = from
         /\ stage' \in [Callers -> Stages]
         /\ stage'[lane] = to
         /\ \A other \in Callers \ {lane} : stage'[other] = stage[other]
BY DEF TypeInv, At

LEMMA StepsAndCallers ==
  /\ {"idle", "begun", "numbered", "calling", "started", "succeeded", "sending",
      "returned", "failed"} = Stages
  /\ Free \notin Callers
BY DEF Stages, Callers, Free

-----------------------------------------------------------------------------
(* The steps keep the types *)

LEMMA InitTypes == InitAdapter => TypeInv
BY DEF InitAdapter, TypeInv, Calls, Callers, Free, Stages

LEMMA TypesKept ==
  ASSUME TypeInv, [AdapterNext]_adapterVars
  PROVE  TypeInv'
<1>1. ASSUME NEW lane \in Callers, NEW intent \in IntentsOf(lane), Perform(lane, intent)
      PROVE  TypeInv'
  <2>1. intent \in {"submit", "respond", "cancel"}
    BY DEF IntentsOf
  <2>2. stage' \in [Callers -> Stages]
    BY <1>1, StepAt, StepsAndCallers DEF Perform
  <2>3. call' \in [Callers -> Calls]
    BY <1>1, <2>1 DEF Perform, TypeInv, Calls
  <2>4. QED
    BY <1>1, <2>2, <2>3 DEF Perform, TypeInv, stateVars
<1>2. ASSUME NEW lane \in Callers, Number(lane)
      PROVE  TypeInv'
  <2>1. stage' \in [Callers -> Stages]
    BY <1>2, StepAt, StepsAndCallers DEF Number
  <2>2. operation' \in Nat
    BY <1>2 DEF Number, TypeInv
  <2>3. call' \in [Callers -> Calls]
    BY <1>2, <2>2 DEF Number, TypeInv, Calls
  <2>4. QED
    BY <1>2, <2>1, <2>2, <2>3 DEF Number, TypeInv
<1>3. ASSUME NEW lane \in Callers, NEW target \in Nat, AskAbout(lane, target)
      PROVE  TypeInv'
  <2>1. stage' \in [Callers -> Stages]
    BY <1>3, StepAt, StepsAndCallers DEF AskAbout
  <2>2. call' \in [Callers -> Calls]
    BY <1>3 DEF AskAbout, TypeInv, Calls
  <2>3. asked' \in Seq(Nat)
    BY <1>3, AppendedSeq DEF AskAbout, TypeInv, Calls
  <2>4. QED
    BY <1>3, <2>1, <2>2, <2>3 DEF AskAbout, TypeInv, stateVars
<1>4. ASSUME NEW lane \in Callers, NoRun(lane) \/ Unbuilt(lane) \/ Daemon(lane) \/ Back(lane)
      PROVE  TypeInv'
  <2>1. stage' \in [Callers -> Stages]
    BY <1>4, StepAt, StepsAndCallers
       DEF NoRun, Unbuilt, Daemon, CallFails, CallSucceeds, Back
  <2>2. UNCHANGED <<stateVars, call, asked, delivered>>
    BY <1>4 DEF NoRun, Unbuilt, Daemon, CallFails, CallSucceeds, Back
  <2>3. QED
    BY <2>1, <2>2 DEF TypeInv, stateVars
<1>5. ASSUME NEW lane \in Callers, StoreRun(lane)
      PROVE  TypeInv'
  <2>1. stage' \in [Callers -> Stages]
    BY <1>5, StepAt, StepsAndCallers DEF StoreRun
  <2>2. QED
    BY <1>5, <2>1 DEF StoreRun, TypeInv, Calls
<1>6. ASSUME NEW lane \in Callers, Announce(lane)
      PROVE  TypeInv'
  <2>1. stage' \in [Callers -> Stages]
    BY <1>6, StepAt, StepsAndCallers DEF Announce
  <2>2. latest' \in Nat
    BY <1>6 DEF Announce, TypeInv
  <2>3. call' \in [Callers -> Calls]
    BY <1>6, <2>2 DEF Announce, TypeInv, Calls
  <2>4. QED
    BY <1>6, <2>1, <2>2, <2>3 DEF Announce, TypeInv
<1>7. ASSUME NEW lane \in Callers, Send(lane)
      PROVE  TypeInv'
  <2>1. stage' \in [Callers -> Stages]
    BY <1>7, StepAt, StepsAndCallers DEF Send
  <2>2. channel' \in Seq(Nat)
    BY <1>7, AppendedSeq DEF Send, TypeInv, Calls
  <2>3. QED
    BY <1>7, <2>1, <2>2 DEF Send, TypeInv
<1>8. ASSUME TakeUpdate
      PROVE  TypeInv'
  <2>1. channel' \in Seq(Nat) /\ delivered' \in Seq(Nat)
    BY <1>8, TakenSeq, AppendedSeq DEF TakeUpdate, TypeInv
  <2>2. QED
    BY <1>8, <2>1 DEF TakeUpdate, TypeInv
<1>9. CASE UNCHANGED adapterVars
  BY <1>9 DEF adapterVars, stateVars, TypeInv
<1>10. ASSUME NEW lane \in Callers, Start(lane) \/ ForRun(lane)
       PROVE  TypeInv'
  BY <1>3, <1>10 DEF Start, ForRun, TypeInv
<1>11. QED
  BY <1>1, <1>2, <1>4, <1>5, <1>6, <1>7, <1>8, <1>9, <1>10 DEF AdapterNext, Work, AllCalled

-----------------------------------------------------------------------------
(* The steps keep the updates in order *)

LEMMA InitUpdates == InitAdapter => UpdateInv
BY DEF InitAdapter, UpdateInv, InPlace, OneSender, OnItsWay, Sent, Callers, Free

(* A step that neither announces, sends nor receives. *)
LEMMA UpdatesUntouched ==
  ASSUME TypeInv, UpdateInv, UNCHANGED <<channel, delivered, latest, mu>>,
         \A lane \in Callers :
           /\ call'[lane].update = call[lane].update
           /\ stage'[lane] = "sending" <=> stage[lane] = "sending"
           /\ stage'[lane] = "returned" => stage[lane] = "returned"
  PROVE  UpdateInv'
<1>1. InPlace' /\ Sent' = Sent
  BY DEF UpdateInv, InPlace, Sent
<1>2. OneSender'
  BY <1>1 DEF UpdateInv, OneSender, TypeInv
<1>3. OnItsWay'
  BY <1>1 DEF UpdateInv, OnItsWay
<1>4. QED
  BY <1>1, <1>2, <1>3 DEF UpdateInv

LEMMA UpdatesKept ==
  ASSUME TypeInv, UpdateInv, [AdapterNext]_adapterVars
  PROVE  UpdateInv'
<1>1. ASSUME NEW lane \in Callers, NEW intent \in IntentsOf(lane), Perform(lane, intent)
      PROVE  UpdateInv'
  <2>1. \A other \in Callers : call'[other].update = call[other].update
    BY <1>1 DEF Perform, TypeInv, Calls
  <2>2. QED
    BY <1>1, <2>1, StepAt, StepsAndCallers, UpdatesUntouched DEF Perform, stateVars
<1>2. ASSUME NEW lane \in Callers, Number(lane)
      PROVE  UpdateInv'
  <2>1. \A other \in Callers : call'[other].update = call[other].update
    BY <1>2 DEF Number, TypeInv, Calls
  <2>2. QED
    BY <1>2, <2>1, StepAt, StepsAndCallers, UpdatesUntouched DEF Number
<1>3. ASSUME NEW lane \in Callers, NEW target \in Nat, AskAbout(lane, target)
      PROVE  UpdateInv'
  <2>1. \A other \in Callers : call'[other].update = call[other].update
    BY <1>3 DEF AskAbout, TypeInv, Calls
  <2>2. QED
    BY <1>3, <2>1, StepAt, StepsAndCallers, UpdatesUntouched DEF AskAbout, stateVars
<1>4. ASSUME NEW lane \in Callers,
             NoRun(lane) \/ Unbuilt(lane) \/ Daemon(lane) \/ Back(lane) \/ StoreRun(lane)
      PROVE  UpdateInv'
  <2>1. UNCHANGED <<channel, delivered, latest, mu, call>>
    BY <1>4 DEF NoRun, Unbuilt, Daemon, CallFails, CallSucceeds, Back, StoreRun, stateVars
  <2>2. PICK from \in Stages \ {"sending"}, to \in Stages \ {"sending", "returned"} :
          At(lane, from, to)
    BY <1>4, StepsAndCallers
       DEF NoRun, Unbuilt, Daemon, CallFails, CallSucceeds, Back, StoreRun
  <2>3. QED
    BY <2>1, <2>2, StepAt, UpdatesUntouched
<1>5. ASSUME NEW lane \in Callers, Announce(lane)
      PROVE  UpdateInv'
  <2>1. /\ stage'[lane] = "sending"
        /\ \A other \in Callers \ {lane} : stage'[other] = stage[other]
    BY <1>5, StepAt, StepsAndCallers DEF Announce
  <2>2. /\ call'[lane].update = latest'
        /\ \A other \in Callers \ {lane} : call'[other] = call[other]
    BY <1>5 DEF Announce, TypeInv, Calls
  <2>3. InPlace' /\ Sent' = Sent /\ latest' = Sent + 1
    BY <1>5 DEF Announce, UpdateInv, InPlace, OneSender, Sent
  <2>4. \A other \in Callers : stage[other] # "sending"
    BY <1>5, StepsAndCallers DEF Announce, UpdateInv, OneSender
  <2>5. OneSender'
    BY <1>5, <2>1, <2>2, <2>3, <2>4, StepsAndCallers DEF Announce, OneSender
  <2>6. OnItsWay'
    BY <2>1, <2>2, <2>3 DEF UpdateInv, OnItsWay
  <2>7. QED
    BY <2>3, <2>5, <2>6 DEF UpdateInv
<1>6. ASSUME NEW lane \in Callers, Send(lane)
      PROVE  UpdateInv'
  <2>1. /\ stage[lane] = "sending" /\ stage'[lane] = "returned"
        /\ \A other \in Callers \ {lane} : stage'[other] = stage[other]
    BY <1>6, StepAt, StepsAndCallers DEF Send
  <2>2. mu = lane /\ mu # Free /\ call[lane].update = Sent + 1 /\ latest = Sent + 1
    BY <2>1, StepsAndCallers DEF UpdateInv, OneSender
  <2>3. call[lane].update \in Nat
    BY DEF TypeInv, Calls
  <2>4. /\ Len(channel') = Len(channel) + 1
        /\ \A i \in 1..Len(channel) : channel'[i] = channel[i]
        /\ channel'[Len(channel) + 1] = Sent + 1
    BY <1>6, <2>2, <2>3, AppendedSeq DEF Send, TypeInv
  <2>5. Len(channel) \in Nat /\ Len(delivered) \in Nat
    BY DEF TypeInv
  <2>6. Sent' = Sent + 1
    BY <1>6, <2>4, <2>5 DEF Send, Sent
  <2>7. InPlace'
    <3>1. delivered' = delivered
      BY <1>6 DEF Send
    <3>2. ASSUME NEW i \in 1..(Len(channel) + 1)
          PROVE  channel'[i] = Len(delivered) + i
      <4>1. CASE i \in 1..Len(channel)
        BY <2>4, <4>1 DEF UpdateInv, InPlace
      <4>2. CASE i = Len(channel) + 1
        BY <2>4, <2>5, <4>2 DEF Sent
      <4>3. QED
        BY <2>5, <4>1, <4>2
    <3>3. QED
      BY <2>4, <3>1, <3>2 DEF UpdateInv, InPlace
  <2>8. OneSender'
    BY <1>6, <2>1, <2>2, <2>6, StepsAndCallers DEF Send, UpdateInv, OneSender
  <2>9. OnItsWay'
    BY <1>6, <2>1, <2>2, <2>5, <2>6 DEF Send, UpdateInv, OnItsWay, Sent
  <2>10. QED
    BY <2>7, <2>8, <2>9 DEF UpdateInv
<1>7. ASSUME TakeUpdate
      PROVE  UpdateInv'
  <2>1. /\ Head(channel) \in Nat /\ Head(channel) = channel[1]
        /\ Len(channel) \in Nat \ {0} /\ Len(channel') = Len(channel) - 1
        /\ \A i \in 1..(Len(channel) - 1) : channel'[i] = channel[i + 1]
    BY <1>7, TakenSeq DEF TakeUpdate, TypeInv
  <2>2. /\ Len(delivered') = Len(delivered) + 1
        /\ \A i \in 1..Len(delivered) : delivered'[i] = delivered[i]
        /\ delivered'[Len(delivered) + 1] = Head(channel)
    BY <1>7, <2>1, AppendedSeq DEF TakeUpdate, TypeInv
  <2>3. Len(delivered) \in Nat
    BY DEF TypeInv
  <2>4. Sent' = Sent
    BY <2>1, <2>2, <2>3 DEF Sent
  <2>5. InPlace'
    <3>1. ASSUME NEW i \in 1..(Len(delivered) + 1)
          PROVE  delivered'[i] = i
      <4>1. CASE i \in 1..Len(delivered)
        BY <2>2, <4>1 DEF UpdateInv, InPlace
      <4>2. CASE i = Len(delivered) + 1
        BY <2>1, <2>2, <2>3, <4>2 DEF UpdateInv, InPlace
      <4>3. QED
        BY <2>3, <4>1, <4>2
    <3>2. ASSUME NEW i \in 1..(Len(channel) - 1)
          PROVE  channel'[i] = Len(delivered) + 1 + i
      <4>1. i + 1 \in 1..Len(channel)
        BY <2>1
      <4>2. QED
        BY <2>1, <2>3, <4>1 DEF UpdateInv, InPlace
    <3>3. QED
      BY <2>1, <2>2, <3>1, <3>2 DEF InPlace
  <2>6. OneSender' /\ OnItsWay'
    BY <1>7, <2>4 DEF TakeUpdate, UpdateInv, OneSender, OnItsWay
  <2>7. QED
    BY <2>5, <2>6 DEF UpdateInv
<1>8. CASE UNCHANGED adapterVars
  BY <1>8, UpdatesUntouched DEF adapterVars, stateVars
<1>9. ASSUME NEW lane \in Callers, Start(lane) \/ ForRun(lane)
      PROVE  UpdateInv'
  BY <1>3, <1>9 DEF Start, ForRun, TypeInv
<1>10. QED
  BY <1>1, <1>2, <1>4, <1>5, <1>6, <1>7, <1>8, <1>9 DEF AdapterNext, Work, AllCalled

-----------------------------------------------------------------------------
(* The steps keep the operation numbers apart *)

LEMMA InitOperations == InitAdapter => OperationInv
BY DEF InitAdapter, OperationInv, OperationsAreUnique, Callers

(* A step that neither draws a number nor takes one to the daemon. *)
LEMMA OperationsUntouched ==
  ASSUME OperationInv, UNCHANGED <<operation, asked>>,
         \A lane \in Callers :
           /\ call'[lane].operation = call[lane].operation
           /\ stage'[lane] = "numbered" => stage[lane] = "numbered"
  PROVE  OperationInv'
BY DEF OperationInv, OperationsAreUnique

LEMMA OperationsKept ==
  ASSUME TypeInv, OperationInv, [AdapterNext]_adapterVars
  PROVE  OperationInv'
<1>1. ASSUME NEW lane \in Callers, NEW intent \in IntentsOf(lane), Perform(lane, intent)
      PROVE  OperationInv'
  <2>1. \A other \in Callers : call'[other].operation = call[other].operation
    BY <1>1 DEF Perform, TypeInv, Calls
  <2>2. QED
    BY <1>1, <2>1, StepAt, StepsAndCallers, OperationsUntouched DEF Perform, stateVars
<1>2. ASSUME NEW lane \in Callers, Number(lane)
      PROVE  OperationInv'
  <2>1. \A other \in Callers \ {lane} : stage'[other] = stage[other]
    BY <1>2, StepAt, StepsAndCallers DEF Number
  <2>2. operation \in Nat /\ operation' = operation + 1
    BY <1>2 DEF Number, TypeInv
  <2>3. /\ call'[lane].operation = operation'
        /\ \A other \in Callers \ {lane} : call'[other] = call[other]
    BY <1>2 DEF Number, TypeInv, Calls
  <2>4. asked' = asked /\ \A i \in DOMAIN asked : asked[i] \in Nat
    BY <1>2 DEF Number, TypeInv
  <2>5. \A other \in Callers : call[other].operation \in Nat
    BY DEF TypeInv, Calls
  <2>6. OperationsAreUnique'
    BY <2>4 DEF OperationInv, OperationsAreUnique
  <2>7. QED
    BY <2>1, <2>2, <2>3, <2>4, <2>5, <2>6 DEF OperationInv
<1>3. ASSUME NEW lane \in Callers, NEW target \in Nat, AskAbout(lane, target)
      PROVE  OperationInv'
  <2>1. /\ stage[lane] = "numbered" /\ stage'[lane] = "calling"
        /\ \A other \in Callers \ {lane} : stage'[other] = stage[other]
    BY <1>3, StepAt, StepsAndCallers DEF AskAbout
  <2>2. \A other \in Callers :
          call'[other].operation = call[other].operation /\ call[other].operation \in Nat
    BY <1>3 DEF AskAbout, TypeInv, Calls
  <2>3. operation' = operation
    BY <1>3 DEF AskAbout, stateVars
  <2>4. /\ Len(asked) \in Nat /\ DOMAIN asked = 1..Len(asked)
        /\ DOMAIN asked' = 1..(Len(asked) + 1)
        /\ \A i \in 1..Len(asked) : asked'[i] = asked[i]
        /\ asked'[Len(asked) + 1] = call[lane].operation
    BY <1>3, <2>2, AppendedSeq DEF AskAbout, TypeInv
  <2>5. /\ call[lane].operation <= operation
        /\ \A i \in DOMAIN asked : asked[i] # call[lane].operation
    BY <2>1 DEF OperationInv
  <2>6. OperationsAreUnique'
    BY <2>4, <2>5 DEF OperationInv, OperationsAreUnique
  <2>7. QED
    BY <2>1, <2>2, <2>3, <2>4, <2>5, <2>6 DEF OperationInv
<1>4. ASSUME NEW lane \in Callers,
             \/ NoRun(lane) \/ Unbuilt(lane) \/ Daemon(lane)
             \/ Back(lane) \/ StoreRun(lane) \/ Send(lane)
      PROVE  OperationInv'
  <2>1. UNCHANGED <<operation, asked, call>>
    BY <1>4 DEF NoRun, Unbuilt, Daemon, CallFails, CallSucceeds, Back, StoreRun, Send, stateVars
  <2>2. PICK from \in Stages, to \in Stages \ {"numbered"} : At(lane, from, to)
    BY <1>4, StepsAndCallers
       DEF NoRun, Unbuilt, Daemon, CallFails, CallSucceeds, Back, StoreRun, Send
  <2>3. QED
    BY <2>1, <2>2, StepAt, OperationsUntouched
<1>5. ASSUME NEW lane \in Callers, Announce(lane)
      PROVE  OperationInv'
  <2>1. \A other \in Callers : call'[other].operation = call[other].operation
    BY <1>5 DEF Announce, TypeInv, Calls
  <2>2. QED
    BY <1>5, <2>1, StepAt, StepsAndCallers, OperationsUntouched DEF Announce
<1>6. CASE TakeUpdate \/ UNCHANGED adapterVars
  BY <1>6, OperationsUntouched DEF TakeUpdate, adapterVars, stateVars
<1>7. ASSUME NEW lane \in Callers, Start(lane) \/ ForRun(lane)
      PROVE  OperationInv'
  BY <1>3, <1>7 DEF Start, ForRun, TypeInv
<1>8. QED
  BY <1>1, <1>2, <1>4, <1>5, <1>6, <1>7 DEF AdapterNext, Work, AllCalled

-----------------------------------------------------------------------------
(* The steps keep the runs known *)

LEMMA LanesAreTwo ==
  /\ Callers = {"ordinary", "cancels"}
  /\ \A intent \in IntentsOf("cancels") : intent = "cancel"
BY DEF Callers, IntentsOf

LEMMA AskedGrows ==
  ASSUME TypeInv, NEW n \in Nat
  PROVE  Range(Append(asked, n)) = Range(asked) \cup {n}
<1>1. asked \in Seq(Nat)
  BY DEF TypeInv
<1>2. /\ Len(asked) \in Nat /\ DOMAIN asked = 1..Len(asked)
      /\ DOMAIN Append(asked, n) = 1..Len(asked) \cup {Len(asked) + 1}
      /\ \A i \in 1..Len(asked) : Append(asked, n)[i] = asked[i]
      /\ Append(asked, n)[Len(asked) + 1] = n
  BY <1>1
<1>3. Range(Append(asked, n)) =
        {Append(asked, n)[i] : i \in 1..Len(asked)} \cup {Append(asked, n)[Len(asked) + 1]}
  BY <1>2 DEF Range
<1>4. {Append(asked, n)[i] : i \in 1..Len(asked)} = Range(asked)
  BY <1>2 DEF Range
<1>5. QED
  BY <1>2, <1>3, <1>4

LEMMA RunIsNumbered ==
  ASSUME TypeInv, OperationInv, RunInv
  PROVE  run <= operation
<1>1. CASE run = 0
  BY <1>1 DEF TypeInv
<1>2. CASE run # 0
  <2>1. PICK i \in DOMAIN asked : asked[i] = run
    BY <1>2 DEF RunInv, Range
  <2>2. QED
    BY <2>1 DEF OperationInv
<1>3. QED
  BY <1>1, <1>2

LEMMA InitRuns == InitAdapter => RunInv
BY DEF InitAdapter, RunInv, RunsAreKnown, AboutRun, Callers

(* The lane goes on with its call, or ends it: what the call is about stays. *)
GoesOn(lane) ==
  /\ stage'[lane] # "idle" =>
       /\ stage[lane] # "idle"
       /\ call'[lane].intent = call[lane].intent /\ call'[lane].run = call[lane].run
       /\ call'[lane].operation = call[lane].operation
  /\ stage'[lane] = "numbered" => stage[lane] = "numbered"
  /\ stage'[lane] = "calling" => stage[lane] = "calling"
  /\ stage'[lane] = "started" =>
       \/ stage[lane] = "started"
       \/ stage[lane] = "calling" /\ call[lane].intent = "submit"
  /\ stage'[lane] \in {"succeeded", "sending", "returned"} =>
       \/ stage[lane] \in {"succeeded", "sending", "returned"}
       \/ stage[lane] = "calling" /\ call[lane].intent # "submit"

(* A step that leaves the run and what was asked alone. *)
LEMMA RunsUntouched ==
  ASSUME TypeInv, RunInv, UNCHANGED <<run, asked>>, \A lane \in Callers : GoesOn(lane)
  PROVE  RunInv'
<1>1. \A lane \in Callers :
        /\ AboutRun(lane)' => AboutRun(lane) /\ stage'[lane] # "idle"
        /\ stage'[lane] \in {"calling", "started"} => stage[lane] \in {"calling", "started"}
  BY DEF AboutRun, GoesOn
<1>2. RunsAreKnown'
  BY <1>1, LanesAreTwo DEF RunInv, RunsAreKnown, GoesOn
<1>3. QED
  BY <1>2, LanesAreTwo DEF RunInv, GoesOn

LEMMA RunsKept ==
  ASSUME TypeInv, OperationInv, RunInv, [AdapterNext]_adapterVars
  PROVE  RunInv'
<1>1. ASSUME NEW lane \in Callers, NEW intent \in IntentsOf(lane), Perform(lane, intent)
      PROVE  RunInv'
  <2>1. /\ stage'[lane] = "begun"
        /\ \A other \in Callers \ {lane} : stage'[other] = stage[other]
    BY <1>1, StepAt, StepsAndCallers DEF Perform
  <2>2. /\ call'[lane].intent = intent
        /\ \A other \in Callers \ {lane} : call'[other] = call[other]
    BY <1>1 DEF Perform, TypeInv, Calls
  <2>3. UNCHANGED <<run, asked>>
    BY <1>1 DEF Perform, stateVars
  <2>4. \A l \in Callers : AboutRun(l)' => l # lane /\ AboutRun(l)
    BY <2>1, <2>2 DEF AboutRun
  <2>5. RunsAreKnown'
    BY <2>1, <2>2, <2>3, <2>4, LanesAreTwo DEF RunInv, RunsAreKnown
  <2>6. QED
    BY <2>1, <2>2, <2>3, <2>5, LanesAreTwo DEF RunInv
<1>2. ASSUME NEW lane \in Callers, Number(lane)
      PROVE  RunInv'
  <2>1. /\ stage[lane] = "begun" /\ stage'[lane] = "numbered"
        /\ \A other \in Callers \ {lane} : stage'[other] = stage[other]
    BY <1>2, StepAt, StepsAndCallers DEF Number
  <2>2. /\ call'[lane].operation = operation + 1 /\ call'[lane].intent = call[lane].intent
        /\ \A other \in Callers \ {lane} : call'[other] = call[other]
    BY <1>2 DEF Number, TypeInv, Calls
  <2>3. UNCHANGED <<run, asked>>
    BY <1>2 DEF Number
  <2>4. run < operation + 1
    BY RunIsNumbered DEF TypeInv
  <2>5. \A l \in Callers : AboutRun(l)' => l # lane /\ AboutRun(l)
    BY <2>1, <2>2 DEF AboutRun
  <2>6. RunsAreKnown'
    BY <2>1, <2>2, <2>3, <2>5, LanesAreTwo DEF RunInv, RunsAreKnown
  <2>7. QED
    BY <2>1, <2>2, <2>3, <2>4, <2>6, LanesAreTwo DEF RunInv
<1>3. ASSUME NEW lane \in Callers, NEW target \in Nat, AskAbout(lane, target),
             \/ call[lane].intent = "submit"
             \/ call[lane].intent # "submit" /\ target = run /\ run # 0
      PROVE  RunInv'
  <2>1. /\ stage[lane] = "numbered" /\ stage'[lane] = "calling"
        /\ \A other \in Callers \ {lane} : stage'[other] = stage[other]
    BY <1>3, StepAt, StepsAndCallers DEF AskAbout
  <2>2. /\ call'[lane].operation = call[lane].operation
        /\ call'[lane].intent = call[lane].intent /\ call'[lane].run = target
        /\ \A other \in Callers \ {lane} : call'[other] = call[other]
        /\ call[lane].operation \in Nat
    BY <1>3 DEF AskAbout, TypeInv, Calls
  <2>3. run' = run /\ run \in Nat /\ Range(asked') = Range(asked) \cup {call[lane].operation}
    BY <1>3, <2>2, AskedGrows DEF AskAbout, stateVars, TypeInv
  <2>4. \A l \in Callers : l # lane => (AboutRun(l)' <=> AboutRun(l))
    BY <2>1, <2>2 DEF AboutRun
  <2>5. stage["ordinary"] = "numbered" => run < call["ordinary"].operation
    BY DEF RunInv
  <2>6. \A l \in Callers : AboutRun(l) => call[l].run \in Nat /\ call[l].run <= run
    BY DEF RunInv, RunsAreKnown, TypeInv, Calls
  <2>7. ASSUME NEW l \in Callers, AboutRun(l)'
        PROVE  /\ call'[l].run \in Range(asked') /\ call'[l].run <= run'
               /\ l = "ordinary" => call'[l].run = run'
               /\ stage'["ordinary"] \in {"calling", "started"} /\ call'["ordinary"].intent = "submit" =>
                    call'[l].run # call'["ordinary"].operation
    <3>1. CASE l = lane
      <4>1. target = run /\ run # 0 /\ call[lane].intent # "submit"
        BY <1>3, <2>2, <2>7, <3>1 DEF AboutRun
      <4>2. run \in Range(asked)
        BY <4>1 DEF RunInv
      <4>3. ASSUME stage'["ordinary"] \in {"calling", "started"}, call'["ordinary"].intent = "submit"
            PROVE  run # call'["ordinary"].operation
        <5>1. lane # "ordinary" /\ stage["ordinary"] \in {"calling", "started"}
              /\ call'["ordinary"] = call["ordinary"]
          BY <2>1, <2>2, <4>1, <4>3, LanesAreTwo
        <5>2. run < call["ordinary"].operation
          BY <5>1 DEF RunInv
        <5>3. call["ordinary"].operation \in Nat
          BY LanesAreTwo DEF TypeInv, Calls
        <5>4. QED
          BY <2>3, <5>1, <5>2, <5>3
      <4>4. QED
        BY <2>2, <2>3, <3>1, <4>1, <4>2, <4>3
    <3>2. CASE l # lane
      <4>1. AboutRun(l) /\ call'[l] = call[l]
        BY <2>2, <2>4, <2>7, <3>2
      <4>2. /\ call[l].run \in Range(asked) /\ call[l].run <= run
            /\ l = "ordinary" => call[l].run = run
        BY <4>1 DEF RunInv, RunsAreKnown
      <4>3. ASSUME stage'["ordinary"] \in {"calling", "started"}, call'["ordinary"].intent = "submit"
            PROVE  call[l].run # call'["ordinary"].operation
        <5>1. CASE lane = "ordinary"
          <6>1. run < call["ordinary"].operation /\ call["ordinary"].operation \in Nat
            BY <2>1, <2>2, <2>5, <5>1
          <6>2. call'["ordinary"].operation = call["ordinary"].operation
            BY <2>2, <5>1
          <6>3. QED
            BY <2>3, <2>6, <4>1, <6>1, <6>2
        <5>2. CASE lane # "ordinary"
          BY <2>1, <2>2, <4>1, <4>3, <5>2, LanesAreTwo DEF RunInv, RunsAreKnown
        <5>3. QED
          BY <5>1, <5>2
      <4>4. QED
        BY <2>3, <4>1, <4>2, <4>3
    <3>3. QED
      BY <3>1, <3>2
  <2>8. RunsAreKnown'
    BY <2>7 DEF RunsAreKnown
  <2>9. QED
    BY <2>1, <2>2, <2>3, <2>5, <2>8, LanesAreTwo DEF RunInv
<1>4. ASSUME NEW lane \in Callers,
             \/ NoRun(lane) \/ Unbuilt(lane) \/ CallFails(lane) \/ Back(lane) \/ Send(lane)
      PROVE  RunInv'
  <2>1. UNCHANGED <<run, asked, call>>
    BY <1>4 DEF NoRun, Unbuilt, CallFails, Back, Send, stateVars
  <2>2. \/ stage'[lane] \in {"failed", "idle"} /\ stage[lane] # "idle"
        \/ stage'[lane] = "returned" /\ stage[lane] = "sending"
    BY <1>4, StepAt, StepsAndCallers DEF NoRun, Unbuilt, CallFails, Back, Send
  <2>3. \A other \in Callers \ {lane} : stage'[other] = stage[other]
    BY <1>4, StepAt, StepsAndCallers DEF NoRun, Unbuilt, CallFails, Back, Send
  <2>4. \A l \in Callers : GoesOn(l)
    BY <2>1, <2>2, <2>3 DEF GoesOn
  <2>5. QED
    BY <2>1, <2>4, RunsUntouched
<1>5. ASSUME NEW lane \in Callers, CallSucceeds(lane)
      PROVE  RunInv'
  <2>1. UNCHANGED <<run, asked, call>>
    BY <1>5 DEF CallSucceeds, stateVars
  <2>2. /\ stage[lane] = "calling"
        /\ stage'[lane] = IF call[lane].intent = "submit" THEN "started" ELSE "succeeded"
        /\ \A other \in Callers \ {lane} : stage'[other] = stage[other]
    BY <1>5, StepAt, StepsAndCallers DEF CallSucceeds
  <2>3. \A l \in Callers : GoesOn(l)
    BY <2>1, <2>2 DEF GoesOn
  <2>4. QED
    BY <2>1, <2>3, RunsUntouched
<1>6. ASSUME NEW lane \in Callers, Announce(lane)
      PROVE  RunInv'
  <2>1. UNCHANGED <<run, asked>>
    BY <1>6 DEF Announce
  <2>2. \A other \in Callers :
          /\ call'[other].intent = call[other].intent /\ call'[other].run = call[other].run
          /\ call'[other].operation = call[other].operation
    BY <1>6 DEF Announce, TypeInv, Calls
  <2>3. /\ stage[lane] = "succeeded" /\ stage'[lane] = "sending"
        /\ \A other \in Callers \ {lane} : stage'[other] = stage[other]
    BY <1>6, StepAt, StepsAndCallers DEF Announce
  <2>4. \A l \in Callers : GoesOn(l)
    BY <2>2, <2>3 DEF GoesOn
  <2>5. QED
    BY <2>1, <2>4, RunsUntouched
<1>7. ASSUME NEW lane \in Callers, StoreRun(lane)
      PROVE  RunInv'
  <2>1. /\ stage[lane] = "started" /\ stage'[lane] = "succeeded"
        /\ \A other \in Callers \ {lane} : stage'[other] = stage[other]
    BY <1>7, StepAt, StepsAndCallers DEF StoreRun
  <2>2. run' = call[lane].operation /\ UNCHANGED <<asked, call>>
    BY <1>7 DEF StoreRun
  <2>3. lane = "ordinary" /\ call[lane].intent = "submit"
    BY <2>1, LanesAreTwo DEF RunInv
  <2>4. run < run' /\ run' \in Range(asked) /\ run \in Nat /\ run' \in Nat
    BY <2>1, <2>2, <2>3, LanesAreTwo DEF RunInv, TypeInv, Calls
  <2>5. ASSUME NEW l \in Callers, AboutRun(l)'
        PROVE  /\ l # "ordinary"
               /\ call[l].run \in Range(asked) /\ call[l].run <= run'
    <3>1. l # "ordinary" /\ AboutRun(l)
      BY <2>1, <2>2, <2>3, <2>5 DEF AboutRun
    <3>2. call[l].run \in Range(asked) /\ call[l].run <= run /\ call[l].run \in Nat
      BY <3>1 DEF RunInv, RunsAreKnown, TypeInv, Calls
    <3>3. QED
      BY <2>4, <3>1, <3>2
  <2>6. RunsAreKnown'
    BY <2>1, <2>2, <2>3, <2>5 DEF RunsAreKnown
  <2>7. QED
    BY <2>1, <2>2, <2>3, <2>4, <2>6, LanesAreTwo DEF RunInv
<1>8. CASE TakeUpdate \/ UNCHANGED adapterVars
  <2>1. UNCHANGED <<run, asked, stage, call>>
    BY <1>8 DEF TakeUpdate, adapterVars, stateVars
  <2>2. \A l \in Callers : GoesOn(l)
    BY <2>1 DEF GoesOn
  <2>3. QED
    BY <2>1, <2>2, RunsUntouched
<1>9. ASSUME NEW lane \in Callers, Start(lane) \/ ForRun(lane)
      PROVE  RunInv'
  BY <1>3, <1>9 DEF Start, ForRun, TypeInv
<1>10. QED
  BY <1>1, <1>2, <1>4, <1>5, <1>6, <1>7, <1>8, <1>9
     DEF AdapterNext, Work, Daemon, AllCalled

-----------------------------------------------------------------------------
(* What holds in every state *)

(* What adapter.go keeps true between any two steps of its two lanes. *)
THEOREM AdapterInvariant == AdapterSpec => []AdapterInv
<1>1. InitAdapter => AdapterInv
  BY InitTypes, InitUpdates, InitOperations DEF AdapterInv
<1>2. AdapterInv /\ [AdapterNext]_adapterVars => AdapterInv'
  BY TypesKept, UpdatesKept, OperationsKept DEF AdapterInv
<1>3. QED
  BY <1>1, <1>2, PTL DEF AdapterSpec

LEMMA SentInOrder ==
  ASSUME TypeInv, UpdateInv
  PROVE  LET sent == delivered \o channel
         IN  DOMAIN sent = 1..Sent /\ \A i \in 1..Sent : sent[i] = i
<1> DEFINE sent == delivered \o channel
<1>1. Len(delivered) \in Nat /\ Len(channel) \in Nat /\ DOMAIN sent = 1..Sent
  BY DEF TypeInv, Sent
<1>2. ASSUME NEW i \in 1..Sent
      PROVE  sent[i] = i
  <2>1. CASE i <= Len(delivered)
    <3>1. sent[i] = delivered[i]
      BY <1>1, <2>1 DEF TypeInv, Sent
    <3>2. QED
      BY <1>1, <2>1, <3>1 DEF UpdateInv, InPlace, Sent
  <2>2. CASE i > Len(delivered)
    <3>1. sent[i] = channel[i - Len(delivered)]
      BY <1>1, <2>2 DEF TypeInv, Sent
    <3>2. i - Len(delivered) \in 1..Len(channel)
      BY <1>1, <2>2 DEF Sent
    <3>3. QED
      BY <1>1, <3>1, <3>2 DEF UpdateInv, InPlace, Sent
  <2>3. QED
    BY <1>1, <2>1, <2>2 DEF Sent
<1>3. QED
  BY <1>1, <1>2

(* Two lanes number and send updates, and Receive still returns 1, 2, 3 ... *)
(* (adapter.go:252-262): the mutex is held until the channel has the update. *)
THEOREM UpdatesStayInOrder == AdapterSpec => []UpdatesInOrder
<1>1. AdapterInv => UpdatesInOrder
  BY SentInOrder DEF AdapterInv, UpdatesInOrder
<1>2. QED
  BY <1>1, AdapterInvariant, PTL

(* A result is returned after its update was sent (adapter.go:260-261).  *)
THEOREM AnnouncementsComeFirst == AdapterSpec => []AnnouncedBeforeAnswered
<1>1. AdapterInv => AnnouncedBeforeAnswered
  BY SentInOrder DEF AdapterInv, UpdateInv, OnItsWay, AnnouncedBeforeAnswered, Range
<1>2. QED
  BY <1>1, AdapterInvariant, PTL

(* The daemon never sees an operation number twice (adapter.go:171-174). *)
THEOREM OperationNumbersAreUnique == AdapterSpec => []OperationsAreUnique
<1>1. AdapterInv => OperationsAreUnique
  BY DEF AdapterInv, OperationInv
<1>2. QED
  BY <1>1, AdapterInvariant, PTL

(* Updates in order and operations numbered once: both counters are drawn  *)
(* from and used in one section of the mutex (adapter.go:159, 252).         *)
THEOREM NumbersStayRight == AdapterSpec => []NumbersAreRight
<1>1. UpdatesInOrder /\ OperationsAreUnique => NumbersAreRight
  BY DEF NumbersAreRight
<1>2. QED
  BY <1>1, UpdatesStayInOrder, OperationNumbersAreUnique, PTL

(* The run is read under the mutex and used after it, and still a call of   *)
(* the daemon names a run it has started: the latest one for a response,    *)
(* perhaps an older one for a cancel (adapter.go:200, 208, 236).            *)
THEOREM RunsStayKnown == AdapterSpec => []RunsAreKnown
<1>1. AdapterInv /\ RunInv /\ [AdapterNext]_adapterVars => RunInv'
  BY RunsKept DEF AdapterInv
<1>2. RunInv => RunsAreKnown
  BY DEF RunInv
<1>3. QED
  BY <1>1, <1>2, InitRuns, AdapterInvariant, PTL DEF AdapterSpec
=============================================================================
