----------------------------- MODULE QualityGate -----------------------------
(***************************************************************************)
(* One run of the repository's verification command (internal/qualitygate) *)
(* in one of its modes.  The mode is a list of steps; a step is a function *)
(* whose body is told here as a list of instructions, each of which may    *)
(* fail and leave the function, after the calls it has deferred, last one  *)
(* first.  The instructions are                                            *)
(*                                                                         *)
(*   check     read or compare files of the repository                     *)
(*   offline   run a process without network (command, capture)            *)
(*   online    run a process with network (networkCommand, skew commands)  *)
(*   temp      create a temporary file or tree                             *)
(*   defer     arrange what is done when the function is left              *)
(*   maybe     the function may return here, with an error or without       *)
(*   call, return   enter and leave a function of its own                  *)
(*   snapshot  take the digests of the repository                          *)
(***************************************************************************)
EXTENDS Naturals, Sequences, SequencesExt

VARIABLES
  mode,         \* what the gate was started with
  step,         \* the step it is at, 0 before the first
  pc,           \* the instruction of that step
  frames,       \* what the functions entered have deferred, innermost last
  leaving,      \* the innermost function is being left
  failing,      \* with an error
  expired,      \* the context of 15 minutes is done
  temporaries,  \* temporary files and trees that exist
  altered,      \* changes a download has made to the repository
  baseline,     \* the changes that were there when the digests were taken
  passed,       \* the steps reported as passed
  online,       \* a process with network access was started
  fault,        \* something failed whose error is not to be lost
  reported,     \* what was said not to have been removed, in an error or a warning
  exit          \* how the run ended

stepVars == <<step, pc, frames, leaving>>
gateVars == <<mode, stepVars, failing, expired, temporaries, altered, baseline,
              passed, online, fault, reported, exit>>

-----------------------------------------------------------------------------
(* The scripts *)

Do(op, of) == <<[op |-> op, of |-> of]>>

Check(of)   == Do("check", of)
Offline(of) == Do("offline", of)
Online(of)  == Do("online", of)

(* A cleanup is joined to the error of the function, or only warned of. *)
TempTree(of, how) == Do("temp", of) \o Do("defer", <<how, of>>)

(* A file: it is closed before its removal is deferred. *)
TempFile(of) == Do("temp", of) \o Check("close") \o Do("defer", <<"join", of>>)

Each(op, sequence) == [i \in DOMAIN sequence |-> [op |-> op, of |-> sequence[i]]]

Tool(name) == Offline(name) \o Check("tool-path")

Identity ==
  Each("check", <<"go.mod", "compatibility", "tool-pins", "style-contract", "portability",
                  "skew-manifest", "skew-workflow", "release-workflow", "release-metadata">>)

(* A seeded defect: the digests are taken when the graphs are loaded. *)
BootstrapLate(graphs) == graphs \o Do("snapshot", "before") \o Do("defer", <<"compare", "before">>)

Guarded(graphs) == Do("snapshot", "before") \o Do("defer", <<"compare", "before">>) \o graphs

(* bootstrapModuleGraph, with its copy of the module files. *)
ModuleGraph(of) ==
  Do("call", of)
    \o (IF of = "tools" THEN Do("maybe", of) ELSE << >>) \o Check("read-go.mod")
    \o TempTree(of, "join") \o Check("open-root") \o Do("defer", <<"join", "root">>)
    \o Check("copy-go.mod") \o Check("copy-go.sum")
    \o Online("mod-download") \o Do("return", of)

Bootstrap == Guarded(ModuleGraph("root") \o ModuleGraph("tools") \o ModuleGraph("semantic-shell"))

FormatWith(name, write) ==
  Tool(name) \o Offline("format") \o (IF write THEN << >> ELSE Check("nothing-to-format"))

Format(write) ==
  Check("go-files") \o FormatWith("goimports", write) \o FormatWith("gofumpt", write)

(* A vendor tree made anew and compared with the one that is checked in. *)
FreshVendor(of) ==
  TempTree(of, "warn") \o Offline("mod-vendor")
    \o Each("check", <<"current-digests", "expected-digests", "same-vendor">>)

Modules == Offline("tidy") \o Offline("tidy-tools") \o FreshVendor("vendor")

Composition == Check("arguments") \o Offline("spice-verify") \o Offline("spice-generate-check")

Style == Check("style-contract") \o Tool("spicestyle") \o Offline("spicestyle")

Lint == Tool("golangci-lint") \o Offline("lint") \o Tool("nilaway") \o Offline("nilaway")

Security == Tool("gosec") \o Offline("gosec") \o Tool("govulncheck") \o Offline("govulncheck")

Packages == Offline("go-list") \o Check("some-package")

Tests == Packages \o Offline("test") \o Offline("test-of-the-gate")

Fuzz == Each("offline", <<"FuzzTraceCanonicalReplay", "FuzzVirtualTerminalChunking",
                          "FuzzAccessibleUnicodeCorpus">>)

Covered == Offline("cover") \o Check("total") \o Check("print") \o Check("enough-covered")

(* A profile without statements is enough. *)
Coverage ==
  Packages \o Check("handwritten-packages") \o TempFile("profile")
    \o Offline("test-with-coverage") \o Check("read-profile")
    \o Do("maybe", "no-statements") \o Covered

OfflineVendor ==
  Packages \o Offline("test") \o Offline("build") \o Offline("annotation-tool")

SemanticShellExperiment(in) ==
  (IF in = "fast" THEN << >>
   ELSE Offline("tidy") \o Do("call", "vendor") \o FreshVendor("shell-vendor")
          \o Do("return", "vendor") \o Offline("vet"))
    \o Offline("test")
    \o (IF in # "verify" THEN << >>
        ELSE Offline("test-race") \o TempFile("shell-profile")
               \o Offline("test-with-coverage") \o Covered \o Offline("build"))

(* verifyReleasedDownload: version, sums and commit as recorded. *)
VerifiedDownload(of) == Online("download") \o Check(of)

(* copyReleasedVersionSkewRunner, between two opened roots. *)
CopyRunner ==
  Do("call", "copy") \o Check("make-module")
    \o Check("open-source") \o Do("defer", <<"join", "source">>)
    \o Check("open-module") \o Do("defer", <<"join", "module">>)
    \o Check("copy-files") \o Do("return", "copy")

ReleasedVersionSkew ==
  Each("check", <<"skew-manifest", "skew-workflow", "lane", "platform">>)
    \o TempTree("skew", "join") \o CopyRunner
    \o Check("no-replacement") \o Check("write-go.mod")
    \o VerifiedDownload("client") \o VerifiedDownload("peer")
    \o Online("test-of-the-lane") \o Check("print")

Body(name, in) ==
  CASE name = "identity" -> Identity            [] name = "bootstrap" -> Bootstrap
    [] name = "skew" -> ReleasedVersionSkew     [] name = "formatting" -> Format(FALSE)
    [] name = "formatting-write" -> Format(TRUE) [] name = "modules" -> Modules
    [] name = "composition" -> Composition      [] name = "style" -> Style
    [] name = "vet" -> Offline("vet")           [] name = "lint" -> Lint
    [] name = "security" -> Security            [] name \in {"tests", "race-tests"} -> Tests
    [] name = "fuzz" -> Fuzz                    [] name = "coverage" -> Coverage
    [] name = "offline" -> OfflineVendor        [] name = "benchmarks" -> Offline("benchmarks")
    [] name = "semantic-shell-benchmarks" -> Offline("benchmarks")
    [] name = "semantic-shell" -> SemanticShellExperiment(in)

Modes == {"tools-bootstrap", "released-version-skew", "fast", "check", "fmt", "benchmark", "verify"}

(* A seeded defect: what is missing is downloaded wherever it is missing. *)
StepsWithBootstrap(in) ==
  IF in = "check" THEN <<"identity", "bootstrap", "modules", "tests">> ELSE <<"identity", "tests">>

Steps(in) ==
  CASE in = "tools-bootstrap"       -> <<"identity", "bootstrap">>
    [] in = "released-version-skew" -> <<"identity", "skew">>
    [] in = "fast"      -> <<"identity", "tests", "semantic-shell">>
    [] in = "check"     -> <<"identity", "formatting", "modules", "composition", "style",
                             "vet", "tests", "semantic-shell">>
    [] in = "fmt"       -> <<"identity", "formatting-write">>
    [] in = "benchmark" -> <<"identity", "benchmarks", "semantic-shell-benchmarks">>
    [] in = "verify"    -> <<"identity", "formatting", "modules", "composition", "style", "vet",
                             "lint", "security", "tests", "fuzz", "race-tests", "coverage",
                             "offline", "semantic-shell">>
    [] OTHER            -> << >>

networkAllowed(in) == in \in {"tools-bootstrap", "released-version-skew"}

-----------------------------------------------------------------------------
(* The run *)

GateStart ==
  /\ step = 0 /\ pc = 1 /\ frames = << >> /\ leaving = FALSE
  /\ failing = FALSE /\ expired = FALSE /\ temporaries = {}
  /\ altered = 0 /\ baseline = 0
  /\ passed = << >> /\ online = FALSE /\ fault = FALSE /\ reported = {}
  /\ exit = "running"

GateInit == mode \in Modes \cup {"unknown"} /\ GateStart

Running == exit = "running"

Script      == Body(Steps(mode)[step], mode)
Instruction == Script[pc]

InBody == Running /\ frames # << >> /\ ~leaving

(* Another version of Go, an unknown mode, or a report that cannot be       *)
(* written, between two steps or after the last.                            *)
GateFails ==
  /\ Running /\ frames = << >>
  /\ exit' = "failed"
  /\ UNCHANGED <<mode, stepVars, failing, expired, temporaries, altered, baseline,
                 passed, online, fault, reported>>

BeginStep ==
  /\ Running /\ frames = << >>
  /\ step < Len(Steps(mode))
  /\ step' = step + 1 /\ pc' = 1
  /\ frames' = << << >> >>
  /\ UNCHANGED <<mode, leaving, failing, expired, temporaries, altered, baseline,
                 passed, online, fault, reported, exit>>

AllPassed ==
  /\ Running /\ frames = << >>
  /\ mode \in Modes /\ step = Len(Steps(mode))
  /\ exit' = "passed"
  /\ UNCHANGED <<mode, stepVars, failing, expired, temporaries, altered, baseline,
                 passed, online, fault, reported>>

ContextExpires ==
  /\ Running /\ ~expired
  /\ expired' = TRUE
  /\ UNCHANGED <<mode, stepVars, failing, temporaries, altered, baseline,
                 passed, online, fault, reported, exit>>

Fallible == {"check", "offline", "online", "temp", "snapshot", "maybe"}
Process  == {"offline", "online"}

(* Where a process finds modules. *)
environment(network) == IF network THEN "proxy.golang.org" ELSE "off"

(* A download runs in the repository and may leave changes there, also when *)
(* it fails; the other processes with network run in a tree of their own.   *)
Download ==
  /\ LET network == Instruction.op = "online"
     IN  online' = IF Instruction.op \in Process /\ environment(network) # "off" THEN TRUE
                   ELSE online
  /\ altered' \in IF Instruction.of = "mod-download" THEN {altered, 1} ELSE {altered}

Succeed ==
  /\ InBody /\ pc <= Len(Script)
  /\ Instruction.op \in Fallible
  /\ ~(expired /\ Instruction.op \in Process)
  /\ pc' = pc + 1
  /\ temporaries' = IF Instruction.op = "temp" THEN temporaries \cup {Instruction.of}
                    ELSE temporaries
  /\ baseline' = IF Instruction.op = "snapshot" THEN altered ELSE baseline
  /\ Download
  /\ UNCHANGED <<mode, step, frames, leaving, failing, expired, passed, fault, reported, exit>>

(* An instruction fails: the function returns its error. *)
FailInstruction ==
  /\ InBody /\ pc <= Len(Script)
  /\ Instruction.op \in Fallible
  /\ leaving' = TRUE /\ failing' = TRUE /\ fault' = TRUE
  /\ reported' = IF Instruction.of = "close" THEN reported \cup {Script[pc - 1].of} ELSE reported
  /\ Download
  /\ UNCHANGED <<mode, step, pc, frames, expired, temporaries, baseline, passed, exit>>

Defer ==
  /\ InBody /\ pc <= Len(Script) /\ Instruction.op = "defer"
  /\ frames' = [frames EXCEPT ![Len(frames)] = Append(@, Instruction.of)]
  /\ pc' = pc + 1
  /\ UNCHANGED <<mode, step, leaving, failing, expired, temporaries, altered, baseline,
                 passed, online, fault, reported, exit>>

CallFunction ==
  /\ InBody /\ pc <= Len(Script) /\ Instruction.op = "call"
  /\ frames' = Append(frames, << >>)
  /\ pc' = pc + 1
  /\ UNCHANGED <<mode, step, leaving, failing, expired, temporaries, altered, baseline,
                 passed, online, fault, reported, exit>>

(* Where a function that returns early ends. *)
EndOfFunction ==
  SelectInSubSeq(Script, pc, Len(Script), LAMBDA i : i.op = "return")

MayReturn ==
  /\ InBody /\ pc <= Len(Script) /\ Instruction.op = "maybe"
  /\ leaving' = TRUE
  /\ pc' = IF EndOfFunction = 0 THEN Len(Script) + 1 ELSE EndOfFunction
  /\ UNCHANGED <<mode, step, frames, failing, expired, temporaries, altered, baseline,
                 passed, online, fault, reported, exit>>

(* The end of a body: the function leaves without an error of its own. *)
EndOfBody ==
  /\ InBody
  /\ IF pc > Len(Script) THEN TRUE ELSE Instruction.op = "return"
  /\ leaving' = TRUE
  /\ UNCHANGED <<mode, step, pc, frames, failing, expired, temporaries, altered, baseline,
                 passed, online, fault, reported, exit>>

Deferred == Last(Last(frames))

PopDeferred == frames' = [frames EXCEPT ![Len(frames)] = Front(@)]

Cleaning(how) ==
  Running /\ leaving /\ frames # << >> /\ Last(frames) # << >> /\ Deferred[1] = how

(* A seeded defect: what the cleanup returns replaces the error. *)
CleanupReplaces ==
  /\ Cleaning("join") \/ Cleaning("warn")
  /\ PopDeferred
  /\ temporaries' = temporaries \ {Deferred[2]}
  /\ failing' = FALSE
  /\ UNCHANGED <<mode, step, pc, leaving, expired, altered, baseline,
                 passed, online, fault, reported, exit>>

Cleanup ==
  /\ Cleaning("join") \/ Cleaning("warn")
  /\ PopDeferred
  /\ temporaries' = temporaries \ {Deferred[2]}
  /\ UNCHANGED <<mode, step, pc, leaving, failing, expired, altered, baseline,
                 passed, online, fault, reported, exit>>

(* What fails may yet have removed the tree (released_version_skew.go:427). *)
CleanupFails ==
  /\ Cleaning("join") \/ Cleaning("warn")
  /\ PopDeferred
  /\ reported' = reported \cup {Deferred[2]}
  /\ temporaries' \in {temporaries, temporaries \ {Deferred[2]}}
  /\ IF Deferred[1] = "join"
     THEN failing' = TRUE /\ fault' = TRUE
     ELSE UNCHANGED <<failing, fault>>
  /\ UNCHANGED <<mode, step, pc, leaving, expired, altered, baseline,
                 passed, online, exit>>

(* The digests are taken again; they cannot be read, or they differ. *)
CompareSources ==
  /\ Cleaning("compare")
  /\ PopDeferred
  /\ \/ altered = baseline /\ UNCHANGED <<failing, fault>>
     \/ failing' = TRUE /\ fault' = TRUE
  /\ UNCHANGED <<mode, step, pc, leaving, expired, temporaries, altered, baseline,
                 passed, online, reported, exit>>

(* A seeded defect: an error leaves the function before what was deferred. *)
LeaveAtOnce ==
  /\ Running /\ leaving /\ frames # << >> /\ (failing \/ Last(frames) = << >>)
  /\ frames' = Front(frames)
  /\ leaving' = (failing /\ Len(frames) > 1)
  /\ pc' = pc + 1
  /\ passed' = IF Len(frames) = 1 /\ ~failing THEN Append(passed, Steps(mode)[step]) ELSE passed
  /\ exit' = IF Len(frames) = 1 /\ failing THEN "failed" ELSE exit
  /\ UNCHANGED <<mode, step, failing, expired, temporaries, altered, baseline,
                 online, fault, reported>>

(* The function is left: its caller goes on, or fails in turn; the step has *)
(* passed, or the run has failed.                                           *)
LeaveFunction ==
  /\ Running /\ leaving /\ frames # << >> /\ Last(frames) = << >>
  /\ frames' = Front(frames)
  /\ leaving' = (failing /\ Len(frames) > 1)
  /\ pc' = pc + 1
  /\ passed' = IF Len(frames) = 1 /\ ~failing THEN Append(passed, Steps(mode)[step]) ELSE passed
  /\ exit' = IF Len(frames) = 1 /\ failing THEN "failed" ELSE exit
  /\ UNCHANGED <<mode, step, failing, expired, temporaries, altered, baseline,
                 online, fault, reported>>

GateStep ==
  \/ GateFails \/ BeginStep \/ AllPassed \/ ContextExpires
  \/ Succeed \/ FailInstruction \/ Defer \/ CallFunction \/ MayReturn \/ EndOfBody
  \/ Cleanup \/ CleanupFails \/ CompareSources \/ LeaveFunction

GateDone == ~Running /\ UNCHANGED gateVars

GateNext == GateStep \/ GateDone

-----------------------------------------------------------------------------
(* A run passes only when each step of its mode has passed, in order, and   *)
(* no error was lost on the way: not that of an instruction behind a        *)
(* cleanup that worked, not that of a cleanup, not a bootstrap that has     *)
(* changed the repository (main.go:130-142, 532-541, 792).                  *)
PassIsEarned ==
  exit = "passed" =>
    /\ passed = Steps(mode) /\ ~fault
    /\ mode = "tools-bootstrap" => altered = 0

(* However a run ends, a temporary file or tree that still exists is one     *)
(* whose removal was tried and failed, or a profile that could not be       *)
(* closed, and the run says so (main.go:569, 650, 789-792;                  *)
(* released_version_skew.go:369).                                           *)
NothingIsLeftBehind == ~Running => temporaries \subseteq reported

(* Modules are downloaded only in the two modes that say so, and only once the *)
(* identity of the repository has been checked (main.go:226-228).           *)
OfflineStaysOffline ==
  online => networkAllowed(mode) /\ "identity" \in {passed[i] : i \in DOMAIN passed}
=============================================================================
