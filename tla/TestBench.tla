------------------------------ MODULE TestBench ------------------------------
(***************************************************************************)
(* A test of a terminal program, put together from the two halves of the   *)
(* harness: the test pushes updates to a ScriptSession; the program        *)
(* receives them one after the other and writes what it shows to a         *)
(* VirtualTerminal; the test waits for screens.  The test may resize,      *)
(* close either half or give up a call at any moment.                      *)
(***************************************************************************)
EXTENDS ScriptSession, VirtualTerminal

benchVars == <<scriptVars, impatient, terminalVars>>

BenchInit == SessionInit /\ TerminalInit

(* The program shows the update it has got, and receives again; it stops    *)
(* when the write fails.                                                    *)
Show(r) ==
  /\ receiving[r] = "got"
  /\ \/ Write(got[r]) /\ ReceiverAt(r, "idle")
     \/ WriteFails(got[r]) /\ ReceiverAt(r, "failed")
  /\ UNCHANGED <<queueVars, got, onOpenChannel, impatient>>

SessionStep ==
  \/ PushUpdate \/ CloseSession
  \/ \E r \in Receivers : Receiver(r)

TerminalStep ==
  \/ ResizeTerminal \/ CloseTerminal
  \/ \E w \in Waiters : StartWait(w) \/ Waiter(w, w \in impatient)

Settled == {"found", "failed"}

BenchFinished ==
  /\ sessionClosed /\ terminalClosed
  /\ \A r \in Receivers : receiving[r] = "failed"
  /\ \A w \in Waiters : waiting[w] \in Settled
  /\ UNCHANGED benchVars

BenchNext ==
  \/ SessionStep /\ UNCHANGED terminalVars
  \/ TerminalStep /\ UNCHANGED <<scriptVars, impatient>>
  \/ \E x \in Receivers \cup Waiters : LosePatience(x) /\ UNCHANGED terminalVars
  \/ \E r \in Receivers : Show(r)
  \/ BenchFinished

BenchSpec == BenchInit /\ [][BenchNext]_benchVars

(* Goroutines that can go on do; nothing is asked of the test.              *)
Fairness ==
  /\ \A r \in Receivers :
       /\ WF_benchVars(Receiver(r) /\ UNCHANGED terminalVars)
       /\ WF_benchVars(Show(r))
  /\ \A w \in Waiters :
       WF_benchVars(Waiter(w, w \in impatient) /\ UNCHANGED <<scriptVars, impatient>>)

BenchFairSpec == BenchSpec /\ Fairness

-----------------------------------------------------------------------------
(* No wake-up is lost: whoever sleeps on the channel that is still open has *)
(* seen all there is, however a change fell between its look and its sleep  *)
(* (session.go:133-138, virtual_terminal.go:141-161).                       *)
SleepersAreUpToDate ==
  /\ \A r \in onOpenChannel : updates = << >> /\ ~sessionClosed
  /\ \A w \in onOpenNotify : waiting[w] = "asleep" => seen[w] = ScreenNow /\ ~terminalClosed

(* A wait for a screen ends once the terminal is closed, its context is     *)
(* done or the screen shows, unless the screen goes away again before the   *)
(* waiter has looked (virtual_terminal.go:127, 166).                        *)
WaitsEnd ==
  \A w \in Waiters :
    LET due == terminalClosed \/ w \in impatient \/ Accepts(w, ScreenNow)
    IN  waiting[w] \notin Settled \cup {"idle"} /\ due ~> waiting[w] \in Settled \/ ~due

(* An update pushed to a session that somebody receives from gets to the    *)
(* screen, unless the session or the program stops first (session.go:14-15).*)
PushedIsShown ==
  \A u \in 1..MaxPushed :
    u <= pushed ~> \/ sessionClosed \/ u \in {transcript[i] : i \in DOMAIN transcript}
                   \/ \E r \in Receivers : receiving[r] = "failed"

(* Both halves of the harness: no call of them waits for what has happened. *)
NobodyIsForgotten == WaitsEnd /\ PushedIsShown
=============================================================================
