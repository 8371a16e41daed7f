--------------------------- MODULE VirtualTerminal ---------------------------
(***************************************************************************)
(* The output-only terminal of tests (tuittest/virtual_terminal.go): what  *)
(* was written to it, and the goroutines that wait for a screen.           *)
(*                                                                         *)
(* A waiter takes the screen, the channel of the next change and the       *)
(* closed flag in one section under the mutex, and then judges that screen *)
(* without it.  As in ScriptSession only the channel not closed yet is     *)
(* told from the others.  Writes are chunks of output with a length; the   *)
(* emulator, which is not part of this repository, shows the last one.     *)
(* Every resize gives a size of its own.                                   *)
(***************************************************************************)
EXTENDS Naturals, Sequences, SequencesExt

CONSTANTS
  Waiters,         \* goroutines that call WaitFor
  Chunk,           \* what is written
  ByteLength,      \* [Chunk -> bytes]
  Unreadable,      \* chunks the emulator fails on
  Wanted,          \* [Waiters -> the screen its predicate accepts]
  MaxTranscript,   \* transcriptMax: bytes kept
  MaxSegments,     \* maximumVirtualTerminalResizes + 1
  Blank            \* what is shown before any output

ASSUME VirtualTerminalAssumption ==
  /\ ByteLength \in [Chunk -> Nat]
  /\ Wanted \in [Waiters -> [size : 1..MaxSegments, shown : Chunk]]
  /\ Unreadable \subseteq Chunk /\ Blank \notin Chunk
  /\ MaxTranscript \in Nat \ {0} /\ MaxSegments \in Nat \ {0}

VARIABLES
  transcript,      \* the chunks kept
  segments,        \* their split by size: each the chunks written at that size
  terminalClosed,
  waiting,         \* [Waiters -> where WaitFor stands]
  seen,            \* [Waiters -> the screen it took]
  sawClosed,       \* waiters that found the terminal closed when they took it
  onOpenNotify     \* waiters that hold the channel not closed yet

outputVars   == <<transcript, segments, terminalClosed>>
waiterVars   == <<waiting, seen, sawClosed>>
terminalVars == <<outputVars, waiterVars, onOpenNotify>>

TerminalInit ==
  /\ transcript = << >> /\ segments = << << >> >> /\ terminalClosed = FALSE
  /\ waiting = [w \in Waiters |-> "idle"]
  /\ seen = [w \in Waiters |-> [size |-> 0, shown |-> Blank]]
  /\ sawClosed = {} /\ onOpenNotify = {}

Bytes(chunks) == FoldLeft(LAMBDA sum, chunk : sum + ByteLength[chunk], 0, chunks)

(* The emulator is fed every segment anew and has the size of the last;    *)
(* nothing written, nothing shown.                                         *)
ScreenNow ==
  LET written == FlattenSeq(segments)
  IN  [size |-> Len(segments), shown |-> IF written = << >> THEN Blank ELSE Last(written)]

CaptureFails == \E i \in DOMAIN transcript : transcript[i] \in Unreadable

SignalWaiters == onOpenNotify' = {}

Fits(chunk) == ByteLength[chunk] <= MaxTranscript - Bytes(transcript)

(* A write that is refused keeps nothing of the chunk. *)
Write(chunk) ==
  /\ ~terminalClosed /\ Fits(chunk)
  /\ transcript' = Append(transcript, chunk)
  /\ segments' = [segments EXCEPT ![Len(segments)] = Append(@, chunk)]
  /\ SignalWaiters
  /\ UNCHANGED <<terminalClosed, waiterVars>>

WriteFails(chunk) ==
  /\ terminalClosed \/ ~Fits(chunk)
  /\ UNCHANGED terminalVars

(* A seeded defect: a resize wakes nobody. *)
ResizeQuietly ==
  /\ ~terminalClosed /\ Len(segments) < MaxSegments
  /\ segments' = Append(segments, << >>)
  /\ UNCHANGED <<transcript, terminalClosed, waiterVars, onOpenNotify>>

(* A resize within the limits; another changes nothing. *)
ResizeTerminal ==
  /\ ~terminalClosed /\ Len(segments) < MaxSegments
  /\ segments' = Append(segments, << >>)
  /\ SignalWaiters
  /\ UNCHANGED <<transcript, terminalClosed, waiterVars>>

CloseTerminal ==
  /\ ~terminalClosed
  /\ terminalClosed' = TRUE
  /\ SignalWaiters
  /\ UNCHANGED <<transcript, segments, waiterVars>>

WaiterAt(w, place) == waiting' = [waiting EXCEPT ![w] = place]

StartWait(w) ==
  /\ waiting[w] = "idle"
  /\ WaiterAt(w, "look")
  /\ UNCHANGED <<outputVars, seen, sawClosed, onOpenNotify>>

(* The section under the mutex: screen, channel and closed at one moment. *)
TakeScreen(w) ==
  /\ waiting[w] = "look"
  /\ IF CaptureFails
     THEN WaiterAt(w, "failed") /\ UNCHANGED <<seen, sawClosed, onOpenNotify>>
     ELSE /\ WaiterAt(w, "judge")
          /\ seen' = [seen EXCEPT ![w] = ScreenNow]
          /\ sawClosed' = IF terminalClosed THEN sawClosed \cup {w} ELSE sawClosed \ {w}
          /\ onOpenNotify' = onOpenNotify \cup {w}
  /\ UNCHANGED outputVars

Accepts(w, screen) == screen = Wanted[w]

(* A seeded defect: the channel is read when the waiter goes to sleep. *)
JudgeThenHold(w) ==
  /\ waiting[w] = "judge"
  /\ WaiterAt(w, IF Accepts(w, seen[w]) THEN "found"
                 ELSE IF w \in sawClosed THEN "failed" ELSE "asleep")
  /\ onOpenNotify' = onOpenNotify \cup {w}
  /\ UNCHANGED <<outputVars, seen, sawClosed>>

(* The predicate, without the mutex; it may panic.  A screen that matches   *)
(* is returned even when the terminal was closed.                           *)
Judge(w) ==
  /\ waiting[w] = "judge"
  /\ \/ /\ Accepts(w, seen[w])
        /\ WaiterAt(w, "found")
     \/ /\ ~Accepts(w, seen[w])
        /\ WaiterAt(w, IF w \in sawClosed THEN "failed" ELSE "asleep")
     \/ WaiterAt(w, "failed")
  /\ UNCHANGED <<outputVars, seen, sawClosed, onOpenNotify>>

WaiterWakes(w, cancelled) ==
  /\ waiting[w] = "asleep"
  /\ \/ w \notin onOpenNotify /\ WaiterAt(w, "look")
     \/ cancelled /\ WaiterAt(w, "failed")
  /\ UNCHANGED <<outputVars, seen, sawClosed, onOpenNotify>>

Waiter(w, cancelled) == TakeScreen(w) \/ Judge(w) \/ WaiterWakes(w, cancelled)
=============================================================================
