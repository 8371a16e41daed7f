--------------------------- MODULE TestBenchProofs ---------------------------
(***************************************************************************)
(* No wake-up of the test bench is lost, for any number of receivers,      *)
(* waiters and updates, and any output.                                    *)
(***************************************************************************)
EXTENDS TestBench, TLAPS

(* What a waiter has taken and holds the open channel for is still so; it   *)
(* does not sleep on what it has seen closed.                               *)
UpToDate(w) == seen[w] = ScreenNow /\ (w \in sawClosed <=> terminalClosed)

WaiterInv ==
  /\ waiting \in [Waiters -> {"idle", "look", "judge", "asleep", "found", "failed"}]
  /\ DOMAIN seen = Waiters
  /\ \A w \in onOpenNotify \cap Waiters : waiting[w] \in {"judge", "asleep"} => UpToDate(w)
  /\ \A w \in onOpenNotify : w \in Waiters /\ (waiting[w] = "asleep" => w \notin sawClosed)

ReceiverInv == \A r \in onOpenChannel : updates = << >> /\ ~sessionClosed

BenchInv == ReceiverInv /\ WaiterInv

LEMMA BenchStarts == BenchInit => BenchInv
BY DEF BenchInit, SessionInit, TerminalInit, BenchInv, ReceiverInv, WaiterInv

-----------------------------------------------------------------------------
(* The session *)

LEMMA SessionKeeps ==
  ASSUME ReceiverInv, SessionStep
  PROVE  ReceiverInv'
<1>1. CASE PushUpdate \/ CloseSession
  BY <1>1 DEF PushUpdate, CloseSession, SignalReceivers, ReceiverInv
<1>2. ASSUME NEW r \in Receivers, StartReceive(r) \/ ReceiverWakes(r) PROVE ReceiverInv'
  BY <1>2 DEF StartReceive, ReceiverWakes, ReceiverInv, queueVars
<1>3. ASSUME NEW r \in Receivers, LookForUpdate(r) PROVE ReceiverInv'
  <2>1. CASE sessionClosed \/ updates = << >>
    BY <1>3, <2>1 DEF LookForUpdate, ReceiverInv
  <2>2. CASE ~sessionClosed /\ updates # << >>
    BY <1>3, <2>2 DEF LookForUpdate, ReceiverInv
  <2> QED
    BY <2>1, <2>2
<1> QED
  BY <1>1, <1>2, <1>3 DEF SessionStep, Receiver

-----------------------------------------------------------------------------
(* The terminal *)

(* After a change nobody holds the open channel. *)
LEMMA ChangesAreSignalled ==
  ASSUME WaiterInv, onOpenNotify' = {}, UNCHANGED waiterVars
  PROVE  WaiterInv'
BY DEF WaiterInv, waiterVars

(* One waiter moves, and what it took, if anything, is as it is now. *)
LEMMA OneWaiterMoves ==
  ASSUME WaiterInv, NEW w \in Waiters, UNCHANGED outputVars,
         waiting' \in [Waiters -> {"idle", "look", "judge", "asleep", "found", "failed"}],
         DOMAIN seen' = Waiters,
         onOpenNotify' \subseteq onOpenNotify \cup {w},
         \A other \in Waiters \ {w} :
           /\ waiting'[other] = waiting[other] /\ seen'[other] = seen[other]
           /\ other \in sawClosed' <=> other \in sawClosed,
         w \in onOpenNotify' /\ waiting'[w] \in {"judge", "asleep"} =>
           seen'[w] = ScreenNow /\ (w \in sawClosed' <=> terminalClosed),
         waiting'[w] = "asleep" => w \notin sawClosed'
  PROVE  WaiterInv'
<1>1. ScreenNow' = ScreenNow /\ terminalClosed' = terminalClosed
  BY DEF outputVars, ScreenNow
<1>2. ASSUME NEW other \in onOpenNotify' \cap Waiters, waiting'[other] \in {"judge", "asleep"}
      PROVE  UpToDate(other)'
  <2>1. CASE other = w
    BY <1>1, <1>2, <2>1 DEF UpToDate
  <2>2. CASE other # w
    BY <1>1, <1>2, <2>2 DEF WaiterInv, UpToDate
  <2> QED
    BY <2>1, <2>2
<1>3. ASSUME NEW other \in onOpenNotify'
      PROVE  other \in Waiters /\ (waiting'[other] = "asleep" => other \notin sawClosed')
  BY <1>3 DEF WaiterInv
<1> QED
  BY <1>2, <1>3 DEF WaiterInv

LEMMA TerminalKeeps ==
  ASSUME WaiterInv, TerminalStep
  PROVE  WaiterInv'
<1>1. CASE ResizeTerminal \/ CloseTerminal
  BY <1>1, ChangesAreSignalled DEF ResizeTerminal, CloseTerminal, SignalWaiters
<1>2. ASSUME NEW w \in Waiters, StartWait(w) \/ WaiterWakes(w, w \in impatient)
      PROVE  WaiterInv'
  <2>1. /\ UNCHANGED <<outputVars, seen, sawClosed, onOpenNotify>>
        /\ \E place \in {"look", "failed"} : WaiterAt(w, place)
    BY <1>2 DEF StartWait, WaiterWakes
  <2>2. /\ waiting' \in [Waiters -> {"idle", "look", "judge", "asleep", "found", "failed"}]
        /\ waiting'[w] \in {"look", "failed"}
        /\ \A other \in Waiters \ {w} : waiting'[other] = waiting[other]
    BY <2>1 DEF WaiterAt, WaiterInv
  <2> QED
    BY <2>1, <2>2, OneWaiterMoves DEF WaiterInv
<1>3. ASSUME NEW w \in Waiters, TakeScreen(w) PROVE WaiterInv'
  <2>1. CASE CaptureFails
    <3>1. UNCHANGED <<outputVars, seen, sawClosed, onOpenNotify>> /\ WaiterAt(w, "failed")
      BY <1>3, <2>1 DEF TakeScreen
    <3>2. /\ waiting' \in [Waiters -> {"idle", "look", "judge", "asleep", "found", "failed"}]
          /\ waiting'[w] = "failed"
          /\ \A other \in Waiters \ {w} : waiting'[other] = waiting[other]
      BY <3>1 DEF WaiterAt, WaiterInv
    <3> QED
      BY <3>1, <3>2, OneWaiterMoves DEF WaiterInv
  <2>2. CASE ~CaptureFails
    <3>1. /\ UNCHANGED outputVars /\ WaiterAt(w, "judge")
          /\ seen' = [seen EXCEPT ![w] = ScreenNow]
          /\ sawClosed' = IF terminalClosed THEN sawClosed \cup {w} ELSE sawClosed \ {w}
          /\ onOpenNotify' = onOpenNotify \cup {w}
      BY <1>3, <2>2 DEF TakeScreen
    <3>2. /\ waiting' \in [Waiters -> {"idle", "look", "judge", "asleep", "found", "failed"}]
          /\ waiting'[w] = "judge"
          /\ \A other \in Waiters \ {w} : waiting'[other] = waiting[other]
      BY <3>1 DEF WaiterAt, WaiterInv
    <3>3. /\ DOMAIN seen' = Waiters /\ seen'[w] = ScreenNow
          /\ \A other \in Waiters \ {w} : seen'[other] = seen[other]
      BY <3>1 DEF WaiterInv
    <3>4. /\ w \in sawClosed' <=> terminalClosed
          /\ \A other \in Waiters \ {w} : other \in sawClosed' <=> other \in sawClosed
      BY <3>1
    <3> QED
      BY <3>1, <3>2, <3>3, <3>4, OneWaiterMoves
  <2> QED
    BY <2>1, <2>2
<1>4. ASSUME NEW w \in Waiters, Judge(w) PROVE WaiterInv'
  <2>1. /\ UNCHANGED <<outputVars, seen, sawClosed, onOpenNotify>> /\ waiting[w] = "judge"
        /\ \E place \in {"found", "failed", "asleep"} :
             WaiterAt(w, place) /\ (place = "asleep" => w \notin sawClosed)
    BY <1>4 DEF Judge
  <2>2. /\ waiting' \in [Waiters -> {"idle", "look", "judge", "asleep", "found", "failed"}]
        /\ waiting'[w] = "asleep" => w \notin sawClosed
        /\ \A other \in Waiters \ {w} : waiting'[other] = waiting[other]
    BY <2>1 DEF WaiterAt, WaiterInv
  <2>3. w \in onOpenNotify => seen[w] = ScreenNow /\ (w \in sawClosed <=> terminalClosed)
    BY <2>1 DEF WaiterInv, UpToDate
  <2> QED
    BY <2>1, <2>2, <2>3, OneWaiterMoves DEF WaiterInv
<1> QED
  BY <1>1, <1>2, <1>3, <1>4 DEF TerminalStep, Waiter

(* What the program writes is signalled too. *)
LEMMA ShowKeeps ==
  ASSUME BenchInv, NEW r \in Receivers, Show(r)
  PROVE  BenchInv'
<1>1. ReceiverInv'
  BY DEF Show, queueVars, BenchInv, ReceiverInv
<1>2. CASE Write(got[r])
  BY <1>1, <1>2, ChangesAreSignalled DEF Write, SignalWaiters, BenchInv
<1>3. CASE UNCHANGED terminalVars
  BY <1>1, <1>3 DEF terminalVars, outputVars, waiterVars, BenchInv, WaiterInv, UpToDate, ScreenNow
<1> QED
  BY <1>2, <1>3 DEF Show, WriteFails

LEMMA BenchStep == BenchInv /\ [BenchNext]_benchVars => BenchInv'
<1> SUFFICES ASSUME BenchInv, [BenchNext]_benchVars PROVE BenchInv'
  OBVIOUS
<1>1. ASSUME UNCHANGED terminalVars PROVE WaiterInv'
  BY <1>1 DEF terminalVars, outputVars, waiterVars, BenchInv, WaiterInv, UpToDate, ScreenNow
<1>2. ASSUME UNCHANGED scriptVars PROVE ReceiverInv'
  BY <1>2 DEF scriptVars, queueVars, BenchInv, ReceiverInv
<1>3. CASE SessionStep /\ UNCHANGED terminalVars
  BY <1>1, <1>3, SessionKeeps DEF BenchInv
<1>4. CASE TerminalStep /\ UNCHANGED <<scriptVars, impatient>>
  BY <1>2, <1>4, TerminalKeeps DEF BenchInv
<1>5. ASSUME NEW x, LosePatience(x), UNCHANGED terminalVars PROVE BenchInv'
  BY <1>1, <1>2, <1>5 DEF LosePatience, BenchInv
<1>6. CASE UNCHANGED benchVars
  BY <1>1, <1>2, <1>6 DEF benchVars, BenchInv
<1> QED
  BY <1>3, <1>4, <1>5, <1>6, ShowKeeps DEF BenchNext, BenchFinished

(* Whoever sleeps on the channel that is still open has seen all there is: *)
(* taking the channel and the state in one section under the mutex, and    *)
(* replacing the channel at every change, loses no wake-up, for any number *)
(* of goroutines (session.go:36-142, virtual_terminal.go:71-176).          *)
THEOREM NoWakeUpIsLost == BenchSpec => []SleepersAreUpToDate
<1>1. BenchInv => SleepersAreUpToDate
  BY DEF BenchInv, ReceiverInv, WaiterInv, UpToDate, SleepersAreUpToDate
<1> QED
  BY <1>1, BenchStarts, BenchStep, PTL DEF BenchSpec

=============================================================================
