-------------------------- MODULE QualityGateProofs --------------------------
(***************************************************************************)
(* What a run of the quality gate keeps, for every outcome of every        *)
(* instruction.  The first part shows what the scripts have in common; the *)
(* rest knows no script but the one of the bootstrap.                      *)
(***************************************************************************)
EXTENDS QualityGate, SequenceTheorems, WellFoundedInduction, TLAPS

GateSpec == GateInit /\ [][GateNext]_gateVars

-----------------------------------------------------------------------------
(* What scripts are made of *)

Arrangements ==
  {"join", "warn", "compare"} \X
    {"root", "tools", "semantic-shell", "before", "vendor", "shell-vendor",
     "profile", "shell-profile", "skew", "source", "module"}

AllOps == {"check", "offline", "online", "temp", "defer", "maybe", "call", "return", "snapshot"}

(* Instructions that need no network and take no digests. *)
LocalOps == AllOps \ {"online", "snapshot"}

(* The instruction arranges the removal of a temporary. *)
Removes(instruction, of) ==
  instruction.op = "defer" /\ instruction.of \in {<<"join", of>>, <<"warn", of>>}

Closes(instruction) == instruction.op = "check" /\ instruction.of = "close"

(* The removal of each temporary is arranged right after it was created, or *)
(* after one closing of it.                                                 *)
TidyAt(script, p) ==
  script[p].op = "temp" =>
    /\ p + 1 <= Len(script)
    /\ \/ Removes(script[p + 1], script[p].of)
       \/ /\ Closes(script[p + 1])
          /\ p + 2 <= Len(script)
          /\ Removes(script[p + 2], script[p].of)

IsSequence(s) == \E elements : s \in Seq(elements)

(* An instruction of one of these kinds; only those with network download. *)
LegalAt(script, p, ops) ==
  /\ script[p].op \in ops
  /\ script[p].op = "defer" => script[p].of \in Arrangements
  /\ script[p].op \in LocalOps \ {"defer"} => script[p].of # "mod-download"

(* A script of such instructions that leaves no temporary unarranged. *)
Sound(script, ops) ==
  /\ IsSequence(script)
  /\ \A p \in 1..Len(script) : LegalAt(script, p, ops) /\ TidyAt(script, p)

-----------------------------------------------------------------------------
(* The invariants *)

Reportable(in) == {Steps(in)[k] : k \in 1..Len(Steps(in))}

GateTypes ==
  /\ mode \in Modes \cup {"unknown"}
  /\ step \in 0..Len(Steps(mode))
  /\ pc \in Nat \ {0}
  /\ frames \in Seq(Seq(Arrangements))
  /\ leaving \in BOOLEAN /\ failing \in BOOLEAN /\ expired \in BOOLEAN
  /\ online \in BOOLEAN /\ fault \in BOOLEAN
  /\ altered \in {0, 1} /\ baseline \in {0, 1}
  /\ passed \in Seq(Reportable(mode))
  /\ exit \in {"running", "passed", "failed"}

(* A function is entered only within a step, what is left is a function, *)
(* and an error is never forgotten before the run has failed.             *)
StackInv ==
  /\ frames # << >> => Running /\ step >= 1
  /\ leaving => frames # << >>
  /\ failing => leaving \/ exit = "failed"
  /\ fault => failing

(* The steps reported are the steps done, in the order of the mode. *)
PassInv ==
  /\ \A i \in 1..Len(passed) : i <= step /\ passed[i] = Steps(mode)[i]
  /\ frames # << >> => Len(passed) = step - 1
  /\ frames = << >> /\ exit # "failed" => Len(passed) = step
  /\ step <= Len(passed) + 1
  /\ exit = "passed" => mode \in Modes /\ step = Len(Steps(mode))

(* The comparison of the digests is what bootstrapDependencies does last. *)
Watched == frames # << >> /\ frames[1] # << >> /\ frames[1][1] = <<"compare", "before">>

(* The bootstrap is watched from before its first download until the       *)
(* digests have been compared.                                             *)
BootstrapInv ==
  mode = "tools-bootstrap" =>
    /\ baseline = 0
    /\ altered # 0 => failing \/ Watched
    /\ step = 2 /\ frames # << >> /\ (leaving => Len(frames) > 1) =>
         \/ pc <= 2 /\ frames = << << >> >>
         \/ pc > 2 /\ Watched

(* Some function entered has deferred the removal. *)
Arranged(of) ==
  \E k \in 1..Len(frames) : \E j \in 1..Len(frames[k]) :
    frames[k][j] \in {<<"join", of>>, <<"warn", of>>}

(* The removal is about to be deferred: nothing else can come before it but *)
(* the failure to close the file, and that is reported.                     *)
AboutToArrange(of) ==
  /\ frames # << >> /\ ~leaving /\ pc <= Len(Script)
  /\ \/ Removes(Script[pc], of)
     \/ /\ Closes(Script[pc])
        /\ Script[pc - 1].of = of
        /\ pc + 1 <= Len(Script)
        /\ Removes(Script[pc + 1], of)

TemporaryInv == \A of \in temporaries : of \in reported \/ Arranged(of) \/ AboutToArrange(of)

(* Whoever may use the network has checked the identity first. *)
NetworkInv == online => networkAllowed(mode) /\ step >= 2

-----------------------------------------------------------------------------
(* The scripts are sound *)

LEMMA Joined ==
  ASSUME NEW s, NEW t, IsSequence(s), IsSequence(t)
  PROVE  /\ IsSequence(s \o t)
         /\ Len(s \o t) = Len(s) + Len(t)
         /\ \A p \in 1..Len(s) : (s \o t)[p] = s[p]
         /\ \A p \in 1..Len(t) : (s \o t)[p + Len(s)] = t[p]
         /\ Len(s) \in Nat /\ Len(t) \in Nat
<1>1. PICK S : s \in Seq(S)
  BY DEF IsSequence
<1>2. PICK T : t \in Seq(T)
  BY DEF IsSequence
<1>3. s \in Seq(S \cup T) /\ t \in Seq(S \cup T)
  BY <1>1, <1>2
<1> QED
  BY <1>3, ConcatProperties, LenProperties DEF IsSequence

LEMMA SingletonSequence ==
  ASSUME NEW x
  PROVE  IsSequence(<<x>>) /\ Len(<<x>>) = 1 /\ <<x>>[1] = x
<1>1. <<x>> \in Seq({x}) /\ Len(<<x>>) = 1 /\ <<x>>[1] = x
  OBVIOUS
<1> QED
  BY <1>1 DEF IsSequence

LEMMA Extended ==
  ASSUME NEW s, NEW t, NEW x, IsSequence(s), IsSequence(t), Len(t) = 1, t[1] = x
  PROVE  /\ IsSequence(s \o t) /\ Len(s \o t) = Len(s) + 1 /\ Len(s) \in Nat
         /\ \A p \in 1..Len(s) : (s \o t)[p] = s[p]
         /\ (s \o t)[Len(s) + 1] = x
<1>1. /\ IsSequence(s \o t) /\ Len(s \o t) = Len(s) + Len(t) /\ Len(s) \in Nat
      /\ \A p \in 1..Len(s) : (s \o t)[p] = s[p]
      /\ \A p \in 1..Len(t) : (s \o t)[p + Len(s)] = t[p]
  BY Joined
<1>2. 1 \in 1..Len(t)
  OBVIOUS
<1>3. (s \o t)[1 + Len(s)] = t[1]
  BY <1>1, <1>2, Zenon
<1> QED
  BY <1>1, <1>3

LEMMA PairSequence ==
  ASSUME NEW x, NEW y
  PROVE  /\ IsSequence(<<x>> \o <<y>>) /\ Len(<<x>> \o <<y>>) = 2
         /\ (<<x>> \o <<y>>)[1] = x /\ (<<x>> \o <<y>>)[2] = y
<1> DEFINE s == <<x>>
           t == <<y>>
<1>1. /\ IsSequence(s) /\ Len(s) = 1 /\ s[1] = x
      /\ IsSequence(t) /\ Len(t) = 1 /\ t[1] = y
  BY SingletonSequence
<1> HIDE DEF s, t
<1>2. /\ IsSequence(s \o t) /\ Len(s \o t) = Len(s) + 1
      /\ \A p \in 1..Len(s) : (s \o t)[p] = s[p]
      /\ (s \o t)[Len(s) + 1] = y
  BY <1>1, Extended
<1>3. IsSequence(s \o t) /\ Len(s \o t) = 2 /\ (s \o t)[1] = x /\ (s \o t)[2] = y
  BY <1>1, <1>2
<1> QED
  BY <1>3 DEF s, t

(* What is said of a place depends on what follows it. *)
LEMMA SamePlace ==
  ASSUME NEW ops, NEW s, NEW p, NEW w, NEW q,
         w[q] = s[p],
         p + 1 <= Len(s) => q + 1 <= Len(w) /\ w[q + 1] = s[p + 1],
         p + 2 <= Len(s) => q + 2 <= Len(w) /\ w[q + 2] = s[p + 2],
         LegalAt(s, p, ops), TidyAt(s, p)
  PROVE  LegalAt(w, q, ops) /\ TidyAt(w, q)
<1>1. LegalAt(w, q, ops)
  BY DEF LegalAt
<1>2. TidyAt(w, q)
  BY DEF TidyAt
<1> QED
  BY <1>1, <1>2

(* One script after another is sound when both are. *)
LEMMA SoundSequence ==
  ASSUME NEW ops, NEW s, NEW t, Sound(s, ops), Sound(t, ops)
  PROVE  Sound(s \o t, ops)
<1>1. IsSequence(s) /\ IsSequence(t)
  BY DEF Sound
<1>2. /\ IsSequence(s \o t)
      /\ Len(s \o t) = Len(s) + Len(t)
      /\ \A p \in 1..Len(s) : (s \o t)[p] = s[p]
      /\ \A p \in 1..Len(t) : (s \o t)[p + Len(s)] = t[p]
      /\ Len(s) \in Nat /\ Len(t) \in Nat
  BY <1>1, Joined
<1>3. ASSUME NEW p \in 1..Len(s \o t) PROVE LegalAt(s \o t, p, ops) /\ TidyAt(s \o t, p)
  <2>1. CASE p <= Len(s)
    <3>1. LegalAt(s, p, ops) /\ TidyAt(s, p)
      BY <2>1, <1>2 DEF Sound
    <3>2. (s \o t)[p] = s[p]
      BY <2>1, <1>2
    <3>3. p + 1 <= Len(s) => p + 1 <= Len(s \o t) /\ (s \o t)[p + 1] = s[p + 1]
      BY <2>1, <1>2
    <3>4. p + 2 <= Len(s) => p + 2 <= Len(s \o t) /\ (s \o t)[p + 2] = s[p + 2]
      BY <2>1, <1>2
    <3> QED
      BY <3>1, <3>2, <3>3, <3>4, SamePlace
  <2>2. CASE p > Len(s)
    <3> DEFINE q == p - Len(s)
    <3>0. q \in 1..Len(t) /\ p = q + Len(s)
      BY <2>2, <1>2
    <3>1. LegalAt(t, q, ops) /\ TidyAt(t, q)
      BY <3>0 DEF Sound
    <3>2. (s \o t)[p] = t[q]
      BY <3>0, <1>2
    <3>3. q + 1 <= Len(t) => p + 1 <= Len(s \o t) /\ (s \o t)[p + 1] = t[q + 1]
      <4> SUFFICES ASSUME q + 1 <= Len(t)
                   PROVE  p + 1 <= Len(s \o t) /\ (s \o t)[p + 1] = t[q + 1]
        OBVIOUS
      <4>1. q + 1 \in 1..Len(t) /\ p + 1 = (q + 1) + Len(s)
        BY <3>0, <1>2
      <4> QED
        BY <4>1, <1>2
    <3>4. q + 2 <= Len(t) => p + 2 <= Len(s \o t) /\ (s \o t)[p + 2] = t[q + 2]
      <4> SUFFICES ASSUME q + 2 <= Len(t)
                   PROVE  p + 2 <= Len(s \o t) /\ (s \o t)[p + 2] = t[q + 2]
        OBVIOUS
      <4>1. q + 2 \in 1..Len(t) /\ p + 2 = (q + 2) + Len(s)
        BY <3>0, <1>2
      <4> QED
        BY <4>1, <1>2
    <3> HIDE DEF q
    <3> QED
      BY <3>1, <3>2, <3>3, <3>4, SamePlace
  <2> QED
    BY <2>1, <2>2, <1>2
<1> QED
  BY <1>2, <1>3 DEF Sound

LEMMA SoundEmpty == \A ops : Sound(<< >>, ops)
BY DEF Sound, IsSequence

(* A single instruction that creates nothing is sound. *)
LEMMA SoundInstruction ==
  ASSUME NEW ops, NEW op \in ops, NEW of, op # "temp",
         op = "defer" => of \in Arrangements,
         op \in LocalOps \ {"defer"} => of # "mod-download"
  PROVE  Sound(Do(op, of), ops)
<1> DEFINE instruction == [op |-> op, of |-> of]
           script == <<instruction>>
<1>1. Do(op, of) = script
  BY DEF Do
<1>2. instruction.op = op /\ instruction.of = of
  OBVIOUS
<1> HIDE DEF instruction
<1>3. IsSequence(script) /\ Len(script) = 1 /\ script[1] = instruction
  BY SingletonSequence
<1> HIDE DEF script
<1>4. LegalAt(script, 1, ops)
  BY <1>2, <1>3 DEF LegalAt
<1>5. TidyAt(script, 1)
  BY <1>2, <1>3 DEF TidyAt
<1>6. \A p \in 1..Len(script) : p = 1
  BY <1>3
<1> QED
  BY <1>1, <1>3, <1>4, <1>5, <1>6 DEF Sound

LEMMA SoundLocal ==
  ASSUME NEW of, of # "mod-download"
  PROVE  /\ Sound(Check(of), LocalOps) /\ Sound(Offline(of), LocalOps)
         /\ Sound(Do("maybe", of), LocalOps)
         /\ Sound(Do("call", of), LocalOps) /\ Sound(Do("return", of), LocalOps)
<1>1. ASSUME NEW op \in {"check", "offline", "maybe", "call", "return"}
      PROVE  Sound(Do(op, of), LocalOps)
  <2>1. op \in LocalOps /\ op # "temp" /\ op # "defer"
    BY DEF LocalOps, AllOps
  <2> QED
    BY <2>1, SoundInstruction
<1> QED
  BY <1>1 DEF Check, Offline

LEMMA SoundDefer ==
  ASSUME NEW arrangement \in Arrangements
  PROVE  Sound(Do("defer", arrangement), LocalOps)
<1>1. "defer" \in LocalOps /\ "defer" # "temp" /\ "defer" \notin LocalOps \ {"defer"}
  BY DEF LocalOps, AllOps
<1> QED
  BY <1>1, SoundInstruction

(* Several instructions of one kind. *)
LEMMA SoundEach ==
  ASSUME NEW op \in {"check", "offline"}, NEW n \in Nat, NEW names,
         DOMAIN names = 1..n, \A p \in 1..n : names[p] # "mod-download"
  PROVE  Sound(Each(op, names), LocalOps)
<1> DEFINE instruction(p) == [op |-> op, of |-> names[p]]
           script == [p \in 1..n |-> instruction(p)]
<1>1. op \in LocalOps /\ op # "temp" /\ op # "defer"
  BY DEF LocalOps, AllOps
<1>2. Each(op, names) = script
  BY DEF Each
<1>3. \A p \in 1..n : instruction(p).op = op /\ instruction(p).of = names[p]
  OBVIOUS
<1> HIDE DEF instruction
<1> DEFINE from == {instruction(p) : p \in 1..n}
<1>4. script \in Seq(from) /\ Len(script) = n /\ \A p \in 1..n : script[p] = instruction(p)
  <2>1. \A p \in 1..n : instruction(p) \in from
    OBVIOUS
  <2> HIDE DEF from
  <2> QED
    BY <2>1
<1> HIDE DEF script
<1>5. \A p \in 1..n : LegalAt(script, p, LocalOps) /\ TidyAt(script, p)
  BY <1>1, <1>3, <1>4 DEF LegalAt, TidyAt
<1> QED
  BY <1>2, <1>4, <1>5 DEF Sound, IsSequence

LEMMA SoundTempTree ==
  ASSUME NEW of, of # "mod-download", NEW how \in {"join", "warn"}, <<how, of>> \in Arrangements
  PROVE  Sound(TempTree(of, how), LocalOps)
<1> DEFINE first == [op |-> "temp", of |-> of]
           second == [op |-> "defer", of |-> <<how, of>>]
           script == <<first>> \o <<second>>
<1>1. TempTree(of, how) = script
  BY DEF TempTree, Do
<1>2. /\ first.op = "temp" /\ first.of = of
      /\ second.op = "defer" /\ second.of = <<how, of>>
  OBVIOUS
<1> HIDE DEF first, second
<1>3. IsSequence(script) /\ Len(script) = 2 /\ script[1] = first /\ script[2] = second
  BY PairSequence
<1> HIDE DEF script
<1>4. Removes(second, of)
  BY <1>2 DEF Removes
<1>5. TidyAt(script, 1)
  <2>1. 1 + 1 <= Len(script) /\ script[1 + 1] = second
    BY <1>3
  <2> QED
    BY <1>2, <1>3, <1>4, <2>1 DEF TidyAt
<1>6. TidyAt(script, 2)
  BY <1>2, <1>3 DEF TidyAt
<1>7. LegalAt(script, 1, LocalOps) /\ LegalAt(script, 2, LocalOps)
  BY <1>2, <1>3 DEF LegalAt, LocalOps, AllOps
<1>8. \A p \in 1..Len(script) : p = 1 \/ p = 2
  BY <1>3
<1> QED
  BY <1>1, <1>3, <1>5, <1>6, <1>7, <1>8 DEF Sound

LEMMA SoundTempFile ==
  ASSUME NEW of, of # "mod-download", <<"join", of>> \in Arrangements
  PROVE  Sound(TempFile(of), LocalOps)
<1> DEFINE first == [op |-> "temp", of |-> of]
           second == [op |-> "check", of |-> "close"]
           third == [op |-> "defer", of |-> <<"join", of>>]
           opened == <<first>> \o <<second>>
           script == opened \o <<third>>
<1>1. TempFile(of) = script
  BY DEF TempFile, Check, Do
<1>2. /\ first.op = "temp" /\ first.of = of
      /\ second.op = "check" /\ second.of = "close"
      /\ third.op = "defer" /\ third.of = <<"join", of>>
  OBVIOUS
<1> HIDE DEF first, second, third
<1>3. IsSequence(opened) /\ Len(opened) = 2 /\ opened[1] = first /\ opened[2] = second
  BY PairSequence
<1> DEFINE last == <<third>>
<1>4. IsSequence(last) /\ Len(last) = 1 /\ last[1] = third
  BY SingletonSequence
<1> HIDE DEF opened, last
<1>5. /\ IsSequence(opened \o last) /\ Len(opened \o last) = Len(opened) + 1
      /\ \A p \in 1..Len(opened) : (opened \o last)[p] = opened[p]
      /\ (opened \o last)[Len(opened) + 1] = third
  BY <1>3, <1>4, Extended
<1>6. 1 \in 1..Len(opened) /\ 2 \in 1..Len(opened)
  BY <1>3
<1>7. script = opened \o last
  BY DEF last
<1> HIDE DEF script
<1>8. /\ IsSequence(script) /\ Len(script) = 3
      /\ script[1] = first /\ script[2] = second /\ script[3] = third
  BY <1>3, <1>5, <1>6, <1>7
<1>9. Removes(third, of) /\ Closes(second)
  BY <1>2 DEF Removes, Closes
<1>10. TidyAt(script, 1)
  <2>1. /\ 1 + 1 <= Len(script) /\ script[1 + 1] = second
        /\ 1 + 2 <= Len(script) /\ script[1 + 2] = third
    BY <1>8
  <2> QED
    BY <1>2, <1>8, <1>9, <2>1 DEF TidyAt
<1>11. TidyAt(script, 2) /\ TidyAt(script, 3)
  BY <1>2, <1>8 DEF TidyAt
<1>12. LegalAt(script, 1, LocalOps)
  BY <1>2, <1>8 DEF LegalAt, LocalOps, AllOps
<1>13. LegalAt(script, 2, LocalOps)
  BY <1>2, <1>8 DEF LegalAt, LocalOps, AllOps
<1>14. LegalAt(script, 3, LocalOps)
  BY <1>2, <1>8 DEF LegalAt, LocalOps, AllOps
<1>15. \A p \in 1..Len(script) : p = 1 \/ p = 2 \/ p = 3
  BY <1>8
<1> QED
  BY <1>1, <1>8, <1>10, <1>11, <1>12, <1>13, <1>14, <1>15 DEF Sound

-----------------------------------------------------------------------------
(* The scripts of the steps that work offline *)

LEMMA SoundTool ==
  ASSUME NEW name, name # "mod-download"
  PROVE  Sound(Tool(name), LocalOps)
<1>1. Sound(Offline(name), LocalOps) /\ Sound(Check("tool-path"), LocalOps)
  BY SoundLocal
<1> QED
  BY <1>1, SoundSequence DEF Tool

LEMMA SoundIdentity == Sound(Identity, LocalOps)
<1> DEFINE names == <<"go.mod", "compatibility", "tool-pins", "style-contract", "portability",
                      "skew-manifest", "skew-workflow", "release-workflow", "release-metadata">>
<1>1. DOMAIN names = 1..9 /\ \A p \in 1..9 : names[p] # "mod-download"
  OBVIOUS
<1>2. Identity = Each("check", names)
  BY DEF Identity
<1> HIDE DEF names
<1> QED
  BY <1>1, <1>2, SoundEach

LEMMA SoundFormat ==
  ASSUME NEW write \in BOOLEAN
  PROVE  Sound(Format(write), LocalOps)
<1>1. ASSUME NEW name \in {"goimports", "gofumpt"}
      PROVE  Sound(FormatWith(name, write), LocalOps)
  <2>1. Sound(Tool(name), LocalOps)
    BY SoundTool
  <2>2. Sound(Offline("format"), LocalOps) /\ Sound(Check("nothing-to-format"), LocalOps)
    BY SoundLocal
  <2>3. Sound(IF write THEN << >> ELSE Check("nothing-to-format"), LocalOps)
    BY <2>2, SoundEmpty
  <2> QED
    BY <2>1, <2>2, <2>3, SoundSequence DEF FormatWith
<1>2. Sound(Check("go-files"), LocalOps)
  BY SoundLocal
<1> QED
  BY <1>1, <1>2, SoundSequence DEF Format

LEMMA SoundFreshVendor ==
  ASSUME NEW of \in {"vendor", "shell-vendor"}
  PROVE  Sound(FreshVendor(of), LocalOps)
<1> DEFINE names == <<"current-digests", "expected-digests", "same-vendor">>
<1>1. DOMAIN names = 1..3 /\ \A p \in 1..3 : names[p] # "mod-download"
  OBVIOUS
<1>2. Sound(Each("check", names), LocalOps)
  BY <1>1, SoundEach
<1>3. Sound(Offline("mod-vendor"), LocalOps)
  BY SoundLocal
<1>4. <<"warn", of>> \in Arrangements
  BY DEF Arrangements
<1>5. Sound(TempTree(of, "warn"), LocalOps)
  BY <1>4, SoundTempTree
<1>6. FreshVendor(of) = TempTree(of, "warn") \o Offline("mod-vendor") \o Each("check", names)
  BY DEF FreshVendor
<1> QED
  BY <1>2, <1>3, <1>5, <1>6, SoundSequence

LEMMA SoundCovered == Sound(Covered, LocalOps)
<1>1. /\ Sound(Offline("cover"), LocalOps) /\ Sound(Check("total"), LocalOps)
      /\ Sound(Check("print"), LocalOps) /\ Sound(Check("enough-covered"), LocalOps)
  BY SoundLocal
<1> QED
  BY <1>1, SoundSequence DEF Covered

LEMMA SoundPackages == Sound(Packages, LocalOps)
<1>1. Sound(Offline("go-list"), LocalOps) /\ Sound(Check("some-package"), LocalOps)
  BY SoundLocal
<1> QED
  BY <1>1, SoundSequence DEF Packages

LEMMA SoundCoverage == Sound(Coverage, LocalOps)
<1>1. /\ Sound(Check("handwritten-packages"), LocalOps)
      /\ Sound(Offline("test-with-coverage"), LocalOps)
      /\ Sound(Check("read-profile"), LocalOps)
      /\ Sound(Do("maybe", "no-statements"), LocalOps)
  BY SoundLocal
<1>2. <<"join", "profile">> \in Arrangements
  BY DEF Arrangements
<1>3. Sound(TempFile("profile"), LocalOps)
  BY <1>2, SoundTempFile
<1> QED
  BY <1>1, <1>3, SoundPackages, SoundCovered, SoundSequence DEF Coverage

LEMMA SoundTests == Sound(Tests, LocalOps)
<1>1. Sound(Offline("test"), LocalOps) /\ Sound(Offline("test-of-the-gate"), LocalOps)
  BY SoundLocal
<1> QED
  BY <1>1, SoundPackages, SoundSequence DEF Tests

LEMMA SoundSmallSteps ==
  /\ Sound(Modules, LocalOps) /\ Sound(Composition, LocalOps) /\ Sound(Style, LocalOps)
  /\ Sound(Lint, LocalOps) /\ Sound(Security, LocalOps)
<1>1. Sound(Modules, LocalOps)
  <2>1. Sound(Offline("tidy"), LocalOps) /\ Sound(Offline("tidy-tools"), LocalOps)
    BY SoundLocal
  <2> QED
    BY <2>1, SoundFreshVendor, SoundSequence DEF Modules
<1>2. Sound(Composition, LocalOps)
  <2>1. /\ Sound(Check("arguments"), LocalOps)
        /\ Sound(Offline("spice-verify"), LocalOps)
        /\ Sound(Offline("spice-generate-check"), LocalOps)
    BY SoundLocal
  <2> QED
    BY <2>1, SoundSequence DEF Composition
<1>3. Sound(Style, LocalOps)
  <2>1. Sound(Check("style-contract"), LocalOps) /\ Sound(Offline("spicestyle"), LocalOps)
    BY SoundLocal
  <2>2. Sound(Tool("spicestyle"), LocalOps)
    BY SoundTool
  <2> QED
    BY <2>1, <2>2, SoundSequence DEF Style
<1>4. Sound(Lint, LocalOps)
  <2>1. Sound(Offline("lint"), LocalOps) /\ Sound(Offline("nilaway"), LocalOps)
    BY SoundLocal
  <2>2. Sound(Tool("golangci-lint"), LocalOps) /\ Sound(Tool("nilaway"), LocalOps)
    BY SoundTool
  <2> QED
    BY <2>1, <2>2, SoundSequence DEF Lint
<1>5. Sound(Security, LocalOps)
  <2>1. Sound(Offline("gosec"), LocalOps) /\ Sound(Offline("govulncheck"), LocalOps)
    BY SoundLocal
  <2>2. Sound(Tool("gosec"), LocalOps) /\ Sound(Tool("govulncheck"), LocalOps)
    BY SoundTool
  <2> QED
    BY <2>1, <2>2, SoundSequence DEF Security
<1> QED
  BY <1>1, <1>2, <1>3, <1>4, <1>5

LEMMA SoundFuzz == Sound(Fuzz, LocalOps)
<1> DEFINE names == <<"FuzzTraceCanonicalReplay", "FuzzVirtualTerminalChunking",
                      "FuzzAccessibleUnicodeCorpus">>
<1>1. DOMAIN names = 1..3 /\ \A p \in 1..3 : names[p] # "mod-download"
  OBVIOUS
<1>2. Fuzz = Each("offline", names)
  BY DEF Fuzz
<1> HIDE DEF names
<1> QED
  BY <1>1, <1>2, SoundEach

LEMMA SoundOfflineVendor == Sound(OfflineVendor, LocalOps)
<1>1. /\ Sound(Offline("test"), LocalOps) /\ Sound(Offline("build"), LocalOps)
      /\ Sound(Offline("annotation-tool"), LocalOps)
  BY SoundLocal
<1> QED
  BY <1>1, SoundPackages, SoundSequence DEF OfflineVendor

LEMMA SoundSemanticShellExperiment ==
  ASSUME NEW in
  PROVE  Sound(SemanticShellExperiment(in), LocalOps)
<1>1. /\ Sound(Offline("tidy"), LocalOps) /\ Sound(Offline("vet"), LocalOps)
      /\ Sound(Do("call", "vendor"), LocalOps) /\ Sound(Do("return", "vendor"), LocalOps)
      /\ Sound(Offline("test"), LocalOps) /\ Sound(Offline("test-race"), LocalOps)
      /\ Sound(Offline("test-with-coverage"), LocalOps) /\ Sound(Offline("build"), LocalOps)
  BY SoundLocal
<1>2. Sound(FreshVendor("shell-vendor"), LocalOps)
  BY SoundFreshVendor
<1>3. <<"join", "shell-profile">> \in Arrangements
  BY DEF Arrangements
<1>4. Sound(TempFile("shell-profile"), LocalOps)
  BY <1>3, SoundTempFile
<1> DEFINE first == Offline("tidy") \o Do("call", "vendor") \o FreshVendor("shell-vendor")
                      \o Do("return", "vendor") \o Offline("vet")
           last == Offline("test-race") \o TempFile("shell-profile")
                     \o Offline("test-with-coverage") \o Covered \o Offline("build")
           before == IF in = "fast" THEN << >> ELSE first
           after == IF in # "verify" THEN << >> ELSE last
<1>5. Sound(first, LocalOps)
  BY <1>1, <1>2, SoundSequence
<1>6. Sound(last, LocalOps)
  BY <1>1, <1>4, SoundCovered, SoundSequence
<1>7. SemanticShellExperiment(in) = before \o Offline("test") \o after
  BY DEF SemanticShellExperiment
<1> HIDE DEF first, last
<1>8. Sound(before, LocalOps) /\ Sound(after, LocalOps)
  BY <1>5, <1>6, SoundEmpty
<1> HIDE DEF before, after
<1> QED
  BY <1>1, <1>7, <1>8, SoundSequence

(* All steps but the two that have the network. *)
LocalNames ==
  {"identity", "formatting", "formatting-write", "modules", "composition", "style", "vet", "lint",
   "security", "tests", "race-tests", "fuzz", "coverage", "offline", "benchmarks",
   "semantic-shell-benchmarks", "semantic-shell"}

LEMMA SoundLocalBody ==
  ASSUME NEW name \in LocalNames, NEW in
  PROVE  Sound(Body(name, in), LocalOps)
<1>1. Sound(Offline("vet"), LocalOps) /\ Sound(Offline("benchmarks"), LocalOps)
  BY SoundLocal
<1>2. CASE name \in {"identity", "formatting", "formatting-write", "modules"}
  BY <1>2, SoundIdentity, SoundFormat, SoundSmallSteps DEF Body
<1>3. CASE name \in {"composition", "style", "vet", "lint"}
  BY <1>1, <1>3, SoundSmallSteps DEF Body
<1>4. CASE name \in {"security", "tests", "race-tests", "fuzz"}
  BY <1>4, SoundSmallSteps, SoundTests, SoundFuzz DEF Body
<1>5. CASE name \in {"coverage", "offline", "benchmarks"}
  BY <1>1, <1>5, SoundCoverage, SoundOfflineVendor DEF Body
<1>6. CASE name \in {"semantic-shell-benchmarks", "semantic-shell"}
  BY <1>1, <1>6, SoundSemanticShellExperiment DEF Body
<1> QED
  BY <1>2, <1>3, <1>4, <1>5, <1>6 DEF LocalNames

-----------------------------------------------------------------------------
(* The two scripts with network *)

(* A module graph downloads, but takes no digests. *)
GraphOps == AllOps \ {"snapshot"}

LEMMA SoundWider ==
  ASSUME NEW s
  PROVE  /\ Sound(s, LocalOps) => Sound(s, GraphOps)
         /\ Sound(s, GraphOps) => Sound(s, AllOps)
<1>1. LocalOps \subseteq GraphOps /\ GraphOps \subseteq AllOps
  BY DEF LocalOps, GraphOps, AllOps
<1> QED
  BY <1>1 DEF Sound, LegalAt

LEMMA SoundOnline ==
  ASSUME NEW of
  PROVE  Sound(Online(of), GraphOps)
<1>1. "online" \in GraphOps /\ "online" # "temp" /\ "online" # "defer" /\ "online" \notin LocalOps
  BY DEF GraphOps, LocalOps, AllOps
<1> QED
  BY <1>1, SoundInstruction DEF Online

LEMMA SoundModuleGraph ==
  ASSUME NEW of \in {"root", "tools", "semantic-shell"}
  PROVE  Sound(ModuleGraph(of), GraphOps)
<1>1. /\ Sound(Do("call", of), GraphOps) /\ Sound(Do("return", of), GraphOps)
      /\ Sound(Do("maybe", of), GraphOps) /\ Sound(Check("read-go.mod"), GraphOps)
      /\ Sound(Check("open-root"), GraphOps) /\ Sound(Check("copy-go.mod"), GraphOps)
      /\ Sound(Check("copy-go.sum"), GraphOps)
  BY SoundLocal, SoundWider
<1>2. <<"join", of>> \in Arrangements /\ <<"join", "root">> \in Arrangements
  BY DEF Arrangements
<1>3. Sound(TempTree(of, "join"), GraphOps) /\ Sound(Do("defer", <<"join", "root">>), GraphOps)
  <2>1. Sound(TempTree(of, "join"), LocalOps)
    BY <1>2, SoundTempTree
  <2>2. Sound(Do("defer", <<"join", "root">>), LocalOps)
    BY <1>2, SoundDefer
  <2> QED
    BY <2>1, <2>2, SoundWider
<1> DEFINE early == IF of = "tools" THEN Do("maybe", of) ELSE << >>
<1>4. Sound(early, GraphOps)
  BY <1>1, SoundEmpty
<1>5. Sound(Online("mod-download"), GraphOps)
  BY SoundOnline
<1>6. ModuleGraph(of) =
        Do("call", of) \o early \o Check("read-go.mod")
          \o TempTree(of, "join") \o Check("open-root") \o Do("defer", <<"join", "root">>)
          \o Check("copy-go.mod") \o Check("copy-go.sum")
          \o Online("mod-download") \o Do("return", of)
  BY DEF ModuleGraph
<1> HIDE DEF early
<1> QED
  BY <1>1, <1>3, <1>4, <1>5, <1>6, SoundSequence

LEMMA JoinedAt ==
  ASSUME NEW s, NEW t, IsSequence(s), IsSequence(t), NEW p \in 1..Len(s \o t)
  PROVE  IF p <= Len(s) THEN (s \o t)[p] = s[p]
         ELSE p - Len(s) \in 1..Len(t) /\ (s \o t)[p] = t[p - Len(s)]
<1>1. /\ Len(s \o t) = Len(s) + Len(t)
      /\ \A q \in 1..Len(s) : (s \o t)[q] = s[q]
      /\ \A q \in 1..Len(t) : (s \o t)[q + Len(s)] = t[q]
      /\ Len(s) \in Nat /\ Len(t) \in Nat
  BY Joined
<1>2. CASE p <= Len(s)
  BY <1>1, <1>2
<1>3. CASE p > Len(s)
  <2> DEFINE q == p - Len(s)
  <2>1. q \in 1..Len(t) /\ p = q + Len(s)
    BY <1>1, <1>3
  <2> HIDE DEF q
  <2>2. (s \o t)[p] = t[q]
    BY <1>1, <2>1
  <2> QED
    BY <1>1, <1>3, <2>1, <2>2 DEF q
<1> QED
  BY <1>1, <1>2, <1>3

LEMMA GuardedShape ==
  ASSUME NEW guard, NEW graphs, NEW first, NEW second,
         IsSequence(guard), Len(guard) = 2, guard[1] = first, guard[2] = second,
         second.op # "snapshot", Sound(graphs, GraphOps)
  PROVE  /\ Len(guard \o graphs) >= 2
         /\ (guard \o graphs)[1] = first /\ (guard \o graphs)[2] = second
         /\ \A p \in 1..Len(guard \o graphs) : p # 1 => (guard \o graphs)[p].op # "snapshot"
<1>1. IsSequence(graphs)
  BY DEF Sound
<1>2. Len(guard \o graphs) = Len(guard) + Len(graphs) /\ Len(graphs) \in Nat
  BY <1>1, Joined
<1>3. 1 \in 1..Len(guard \o graphs) /\ 2 \in 1..Len(guard \o graphs)
  BY <1>2
<1> DEFINE At(p) == IF p <= Len(guard) THEN (guard \o graphs)[p] = guard[p]
                    ELSE /\ p - Len(guard) \in 1..Len(graphs)
                         /\ (guard \o graphs)[p] = graphs[p - Len(guard)]
<1>a. \A p \in 1..Len(guard \o graphs) : At(p)
  BY <1>1, JoinedAt, Zenon
<1>b. At(1) /\ At(2)
  BY <1>3, <1>a
<1>4. (guard \o graphs)[1] = first
  BY <1>b
<1>5. (guard \o graphs)[2] = second
  BY <1>b
<1>6. ASSUME NEW p \in 1..Len(guard \o graphs), p # 1
      PROVE  (guard \o graphs)[p].op # "snapshot"
  <2>1. CASE p = 2
    BY <2>1, <1>5
  <2>2. CASE p # 2
    <3>1. p - 2 \in 1..Len(graphs) /\ (guard \o graphs)[p] = graphs[p - 2]
      BY <2>2, <1>a, <1>6
    <3>2. graphs[p - 2].op \in GraphOps
      BY <3>1 DEF Sound, LegalAt
    <3> QED
      BY <3>1, <3>2 DEF GraphOps
  <2> QED
    BY <2>1, <2>2
<1> QED
  BY <1>2, <1>4, <1>5, <1>6

(* The bootstrap takes the digests, arranges their comparison, and goes on; *)
(* it takes them once.                                                       *)
LEMMA BootstrapShape ==
  /\ Sound(Bootstrap, AllOps) /\ Len(Bootstrap) >= 2
  /\ Bootstrap[1] = [op |-> "snapshot", of |-> "before"]
  /\ Bootstrap[2] = [op |-> "defer", of |-> <<"compare", "before">>]
  /\ \A p \in 1..Len(Bootstrap) : p # 1 => Bootstrap[p].op # "snapshot"
<1> DEFINE guard == Do("snapshot", "before") \o Do("defer", <<"compare", "before">>)
           graphs == ModuleGraph("root") \o ModuleGraph("tools") \o ModuleGraph("semantic-shell")
           first == [op |-> "snapshot", of |-> "before"]
           second == [op |-> "defer", of |-> <<"compare", "before">>]
<1>1. Bootstrap = guard \o graphs
  <2>1. Bootstrap = Guarded(graphs)
    BY DEF Bootstrap
  <2> HIDE DEF graphs
  <2> QED
    BY <2>1 DEF Guarded
<1>2. Sound(graphs, GraphOps)
  BY SoundModuleGraph, SoundSequence
<1>3. Sound(guard, AllOps)
  <2>1. <<"compare", "before">> \in Arrangements
    BY DEF Arrangements
  <2>2. Sound(Do("defer", <<"compare", "before">>), AllOps)
    BY <2>1, SoundDefer, SoundWider
  <2>3. "snapshot" \in AllOps /\ "snapshot" # "temp" /\ "snapshot" # "defer" /\ "snapshot" \notin LocalOps
    BY DEF LocalOps, AllOps
  <2>4. Sound(Do("snapshot", "before"), AllOps)
    BY <2>3, SoundInstruction
  <2> QED
    BY <2>2, <2>4, SoundSequence
<1>4. guard = <<first>> \o <<second>>
  BY DEF Do
<1>5. second.op # "snapshot"
  OBVIOUS
<1> HIDE DEF graphs, first, second
<1> DEFINE pair == <<first>> \o <<second>>
<1>6. IsSequence(guard) /\ Len(guard) = 2 /\ guard[1] = first /\ guard[2] = second
  <2>1. IsSequence(pair) /\ Len(pair) = 2 /\ pair[1] = first /\ pair[2] = second
    BY PairSequence
  <2>2. guard = pair
    BY <1>4
  <2> HIDE DEF guard, pair
  <2> QED
    BY <2>1, <2>2
<1> HIDE DEF guard
<1>7. Sound(Bootstrap, AllOps)
  BY <1>1, <1>2, <1>3, SoundWider, SoundSequence
<1>8. /\ Len(guard \o graphs) >= 2
      /\ (guard \o graphs)[1] = first /\ (guard \o graphs)[2] = second
      /\ \A p \in 1..Len(guard \o graphs) : p # 1 => (guard \o graphs)[p].op # "snapshot"
  BY <1>2, <1>5, <1>6, GuardedShape
<1> QED
  BY <1>1, <1>7, <1>8 DEF first, second

LEMMA SoundSkew == Sound(ReleasedVersionSkew, GraphOps)
<1> DEFINE names == <<"skew-manifest", "skew-workflow", "lane", "platform">>
           checks == Each("check", names)
<1>1. Sound(checks, GraphOps)
  <2>1. DOMAIN names = 1..4 /\ \A p \in 1..4 : names[p] # "mod-download"
    OBVIOUS
  <2> HIDE DEF names
  <2>2. Sound(Each("check", names), LocalOps)
    BY <2>1, SoundEach
  <2> QED
    BY <2>2, SoundWider
<1>2. Sound(TempTree("skew", "join"), GraphOps)
  <2>1. <<"join", "skew">> \in Arrangements
    BY DEF Arrangements
  <2> QED
    BY <2>1, SoundTempTree, SoundWider
<1>3. Sound(CopyRunner, GraphOps)
  <2>1. /\ Sound(Do("call", "copy"), GraphOps) /\ Sound(Check("make-module"), GraphOps)
        /\ Sound(Check("open-source"), GraphOps) /\ Sound(Check("open-module"), GraphOps)
        /\ Sound(Check("copy-files"), GraphOps) /\ Sound(Do("return", "copy"), GraphOps)
    BY SoundLocal, SoundWider
  <2>2. <<"join", "source">> \in Arrangements /\ <<"join", "module">> \in Arrangements
    BY DEF Arrangements
  <2>3. /\ Sound(Do("defer", <<"join", "source">>), GraphOps)
        /\ Sound(Do("defer", <<"join", "module">>), GraphOps)
    BY <2>2, SoundDefer, SoundWider
  <2> QED
    BY <2>1, <2>3, SoundSequence DEF CopyRunner
<1>4. /\ Sound(Check("no-replacement"), GraphOps) /\ Sound(Check("write-go.mod"), GraphOps)
      /\ Sound(Check("print"), GraphOps) /\ Sound(Online("test-of-the-lane"), GraphOps)
  BY SoundLocal, SoundOnline, SoundWider
<1>5. ASSUME NEW of \in {"client", "peer"} PROVE Sound(VerifiedDownload(of), GraphOps)
  <2>1. Sound(Online("download"), GraphOps)
    BY SoundOnline
  <2>2. Sound(Check(of), GraphOps)
    BY SoundLocal, SoundWider
  <2> QED
    BY <2>1, <2>2, SoundSequence DEF VerifiedDownload
<1>6. ReleasedVersionSkew =
        checks \o TempTree("skew", "join") \o CopyRunner
          \o Check("no-replacement") \o Check("write-go.mod")
          \o VerifiedDownload("client") \o VerifiedDownload("peer")
          \o Online("test-of-the-lane") \o Check("print")
  BY DEF ReleasedVersionSkew
<1> HIDE DEF checks
<1> QED
  BY <1>1, <1>2, <1>3, <1>4, <1>5, <1>6, SoundSequence

-----------------------------------------------------------------------------
(* The steps of the modes *)

LEMMA StepsOfModes ==
  ASSUME NEW in \in Modes \cup {"unknown"}
  PROVE  /\ Steps(in) \in Seq(Reportable(in)) /\ Len(Steps(in)) \in Nat
         /\ Steps(in) # << >> => Steps(in)[1] = "identity"
         /\ in = "tools-bootstrap" => Steps(in) = <<"identity", "bootstrap">>
         /\ \A k \in 1..Len(Steps(in)) :
              \/ Steps(in)[k] \in LocalNames
              \/ k = 2 /\ in = "tools-bootstrap" /\ Steps(in)[k] = "bootstrap"
              \/ k = 2 /\ in = "released-version-skew" /\ Steps(in)[k] = "skew"
<1> DEFINE Fact(n) ==
      /\ Steps(in) = [k \in 1..n |-> Steps(in)[k]] /\ Len(Steps(in)) = n /\ n >= 0
      /\ n > 0 => Steps(in)[1] = "identity"
      /\ \A k \in 1..n :
           \/ Steps(in)[k] \in LocalNames
           \/ k = 2 /\ in = "tools-bootstrap" /\ Steps(in)[k] = "bootstrap"
           \/ k = 2 /\ in = "released-version-skew" /\ Steps(in)[k] = "skew"
<1>1. \E n \in Nat : Fact(n)
  <2>1. CASE in = "tools-bootstrap"
    <3>1. Steps(in) = <<"identity", "bootstrap">>
      BY <2>1 DEF Steps
    <3> QED
      BY <3>1, <2>1 DEF LocalNames
  <2>2. CASE in = "released-version-skew"
    <3>1. Steps(in) = <<"identity", "skew">>
      BY <2>2 DEF Steps
    <3> QED
      BY <3>1, <2>2 DEF LocalNames
  <2>3. CASE in = "fast"
    <3>1. Steps(in) = <<"identity", "tests", "semantic-shell">>
      BY <2>3 DEF Steps
    <3> QED
      BY <3>1, <2>3 DEF LocalNames
  <2>4. CASE in = "check"
    <3>1. Steps(in) = <<"identity", "formatting", "modules", "composition", "style",
                        "vet", "tests", "semantic-shell">>
      BY <2>4 DEF Steps
    <3> QED
      BY <3>1, <2>4 DEF LocalNames
  <2>5. CASE in = "fmt"
    <3>1. Steps(in) = <<"identity", "formatting-write">>
      BY <2>5 DEF Steps
    <3> QED
      BY <3>1, <2>5 DEF LocalNames
  <2>6. CASE in = "benchmark"
    <3>1. Steps(in) = <<"identity", "benchmarks", "semantic-shell-benchmarks">>
      BY <2>6 DEF Steps
    <3> QED
      BY <3>1, <2>6 DEF LocalNames
  <2>7. CASE in = "verify"
    <3>1. Steps(in) = <<"identity", "formatting", "modules", "composition", "style", "vet",
                        "lint", "security", "tests", "fuzz", "race-tests", "coverage",
                        "offline", "semantic-shell">>
      BY <2>7 DEF Steps
    <3> QED
      BY <3>1, <2>7 DEF LocalNames
  <2>8. CASE in = "unknown"
    <3>1. Steps(in) = << >>
      BY <2>8 DEF Steps
    <3> QED
      BY <3>1, <2>8
  <2> QED
    BY <2>1, <2>2, <2>3, <2>4, <2>5, <2>6, <2>7, <2>8 DEF Modes
<1>2. in = "tools-bootstrap" => Steps(in) = <<"identity", "bootstrap">>
  BY DEF Steps
<1>3. PICK n \in Nat : Fact(n)
  BY <1>1
<1>4. Steps(in) \in Seq(Reportable(in))
  BY <1>3 DEF Reportable
<1> QED
  BY <1>2, <1>3, <1>4

LEMMA ScriptsAreSound ==
  ASSUME NEW in \in Modes \cup {"unknown"}, NEW k \in 1..Len(Steps(in))
  PROVE  /\ Sound(Body(Steps(in)[k], in), AllOps)
         /\ k = 1 \/ ~networkAllowed(in) => Sound(Body(Steps(in)[k], in), LocalOps)
         /\ in = "tools-bootstrap" /\ k = 2 => Body(Steps(in)[k], in) = Bootstrap
<1>1. CASE Steps(in)[k] \in LocalNames
  <2>1. Sound(Body(Steps(in)[k], in), LocalOps)
    BY <1>1, SoundLocalBody
  <2>2. Sound(Body(Steps(in)[k], in), AllOps)
    BY <2>1, SoundWider
  <2>3. in = "tools-bootstrap" /\ k = 2 => FALSE
    BY <1>1, StepsOfModes DEF LocalNames
  <2> QED
    BY <2>1, <2>2, <2>3
<1>2. CASE k = 2 /\ in = "tools-bootstrap" /\ Steps(in)[k] = "bootstrap"
  <2>1. Body("bootstrap", in) = Bootstrap
    BY DEF Body
  <2> QED
    BY <1>2, <2>1, BootstrapShape DEF networkAllowed
<1>3. CASE k = 2 /\ in = "released-version-skew" /\ Steps(in)[k] = "skew"
  <2>1. Body("skew", in) = ReleasedVersionSkew
    BY DEF Body
  <2>2. Sound(ReleasedVersionSkew, AllOps)
    BY SoundSkew, SoundWider
  <2> QED
    BY <1>3, <2>1, <2>2 DEF networkAllowed
<1> QED
  BY <1>1, <1>2, <1>3, StepsOfModes

-----------------------------------------------------------------------------
(* The stack of functions *)

LEMMA Popped ==
  ASSUME NEW S, NEW top \in Seq(S), top # << >>
  PROVE  /\ Len(top) \in Nat \ {0}
         /\ Last(top) = top[Len(top)] /\ Last(top) \in S
         /\ Front(top) \in Seq(S) /\ Len(Front(top)) = Len(top) - 1
         /\ \A k \in 1..(Len(top) - 1) : Front(top)[k] = top[k]
<1> DEFINE n == Len(top) - 1
<1>1. Len(top) \in Nat \ {0} /\ n \in Nat /\ \A k \in 1..Len(top) : top[k] \in S
  OBVIOUS
<1>2. Front(top) = [k \in 1..n |-> top[k]]
  BY DEF Front
<1>3. \A k \in 1..n : top[k] \in S
  BY <1>1
<1> HIDE DEF n
<1>4. Front(top) \in Seq(S) /\ Len(Front(top)) = n /\ \A k \in 1..n : Front(top)[k] = top[k]
  BY <1>1, <1>2, <1>3
<1>5. Last(top) = top[Len(top)] /\ Last(top) \in S
  BY <1>1 DEF Last
<1> QED
  BY <1>1, <1>4, <1>5 DEF n

LEMMA Stack ==
  ASSUME NEW S, NEW fs \in Seq(Seq(S)), fs # << >>
  PROVE  /\ Len(fs) \in Nat \ {0}
         /\ Last(fs) = fs[Len(fs)] /\ Last(fs) \in Seq(S)
         /\ Front(fs) \in Seq(Seq(S)) /\ Len(Front(fs)) = Len(fs) - 1
         /\ Front(fs) = << >> <=> Len(fs) = 1
         /\ \A k \in 1..(Len(fs) - 1) : Front(fs)[k] = fs[k]
<1>1. /\ Len(fs) \in Nat \ {0}
      /\ Last(fs) = fs[Len(fs)] /\ Last(fs) \in Seq(S)
      /\ Front(fs) \in Seq(Seq(S)) /\ Len(Front(fs)) = Len(fs) - 1
      /\ \A k \in 1..(Len(fs) - 1) : Front(fs)[k] = fs[k]
  BY Popped, Zenon
<1>2. Front(fs) = << >> <=> Len(Front(fs)) = 0
  BY <1>1, EmptySeq
<1> QED
  BY <1>1, <1>2

(* The innermost function changes what it has deferred. *)
LEMMA TopChanged ==
  ASSUME NEW S, NEW fs \in Seq(Seq(S)), fs # << >>, NEW top \in Seq(S)
  PROVE  LET new == [fs EXCEPT ![Len(fs)] = top]
         IN  /\ new \in Seq(Seq(S)) /\ new # << >> /\ Len(new) = Len(fs)
             /\ new[Len(fs)] = top
             /\ \A k \in 1..(Len(fs) - 1) : new[k] = fs[k]
OBVIOUS

LEMMA Pushed ==
  ASSUME NEW S, NEW top \in Seq(S), NEW x \in S
  PROVE  /\ Append(top, x) \in Seq(S) /\ Append(top, x) # << >>
         /\ Len(Append(top, x)) = Len(top) + 1
         /\ Append(top, x)[Len(top) + 1] = x
         /\ \A k \in 1..Len(top) : Append(top, x)[k] = top[k]
BY AppendProperties

(* A function that returns early goes on at a later instruction. *)
LEMMA LeastIndex ==
  ASSUME NEW S \in SUBSET Nat, S # {}
  PROVE  Min(S) \in S
<1>1. PICK m \in S : \A k \in S : ~ (<<k, m>> \in OpToRel(<, Nat))
  BY NatLessThanWellFounded, WFMin, Zenon
<1>2. \A k \in S : k \in Nat /\ m \in Nat /\ ~(k < m)
  BY <1>1 DEF OpToRel
<1>3. \E x \in S : \A y \in S : x <= y
  BY <1>2
<1> QED
  BY <1>3 DEF Min

LEMMA EarlyReturnIsLater ==
  ASSUME pc \in Nat \ {0}, Len(Script) \in Nat
  PROVE  EndOfFunction = 0 \/ (EndOfFunction \in Nat \ {0} /\ EndOfFunction >= pc)
<1> DEFINE I == {p \in pc..Len(Script) : Script[p].op = "return"}
<1>1. EndOfFunction = IF I # {} THEN Min(I) ELSE 0
  BY DEF EndOfFunction, SelectInSubSeq
<1>2. I \in SUBSET Nat /\ \A p \in I : p >= pc
  OBVIOUS
<1> HIDE DEF I
<1>3. I # {} => Min(I) \in I
  BY <1>2, LeastIndex
<1> QED
  BY <1>1, <1>2, <1>3

-----------------------------------------------------------------------------
(* Types, the stack of functions, and the steps passed *)

GateInv == GateTypes /\ StackInv /\ PassInv

(* Within a step its script is one of the sound ones. *)
LEMMA ScriptHere ==
  ASSUME GateTypes, StackInv, frames # << >>
  PROVE  /\ step \in 1..Len(Steps(mode)) /\ Len(Steps(mode)) \in Nat
         /\ Sound(Script, AllOps) /\ Len(Script) \in Nat
         /\ step = 1 \/ ~networkAllowed(mode) => Sound(Script, LocalOps)
         /\ mode = "tools-bootstrap" /\ step = 2 => Script = Bootstrap
<1>1. mode \in Modes \cup {"unknown"} /\ step \in 0..Len(Steps(mode)) /\ step >= 1
  BY DEF GateTypes, StackInv
<1>2. step \in 1..Len(Steps(mode)) /\ Len(Steps(mode)) \in Nat
  BY <1>1, StepsOfModes
<1>3. /\ Sound(Script, AllOps)
      /\ step = 1 \/ ~networkAllowed(mode) => Sound(Script, LocalOps)
      /\ mode = "tools-bootstrap" /\ step = 2 => Script = Bootstrap
  BY <1>1, <1>2, ScriptsAreSound DEF Script
<1>4. Len(Script) \in Nat
  <2>1. PICK S : Script \in Seq(S)
    BY <1>3 DEF Sound, IsSequence
  <2> QED
    BY <2>1
<1> QED
  BY <1>2, <1>3, <1>4

(* What an instruction defers is an arrangement. *)
LEMMA InstructionHere ==
  ASSUME GateTypes, StackInv, frames # << >>, pc <= Len(Script)
  PROVE  /\ pc \in 1..Len(Script)
         /\ Instruction.op \in AllOps
         /\ Instruction.op = "defer" => Instruction.of \in Arrangements
         /\ TidyAt(Script, pc)
<1>1. Sound(Script, AllOps) /\ Len(Script) \in Nat
  BY ScriptHere
<1>2. pc \in 1..Len(Script)
  BY <1>1 DEF GateTypes
<1>3. LegalAt(Script, pc, AllOps) /\ TidyAt(Script, pc)
  BY <1>1, <1>2 DEF Sound
<1> QED
  BY <1>2, <1>3 DEF LegalAt, Instruction

LEMMA DeferredHere ==
  ASSUME GateTypes, frames # << >>, Last(frames) # << >>
  PROVE  Deferred \in Arrangements /\ Front(Last(frames)) \in Seq(Arrangements)
<1>1. frames \in Seq(Seq(Arrangements))
  BY DEF GateTypes
<1>2. Last(frames) \in Seq(Arrangements)
  BY <1>1, Stack
<1> QED
  BY <1>2, Popped DEF Deferred

(* How the stack changes when something is deferred, or done in its turn. *)
LEMMA StackChanges ==
  ASSUME GateTypes, frames # << >>
  PROVE  /\ \A x \in Arrangements :
              frames' = [frames EXCEPT ![Len(frames)] = Append(@, x)]
                => frames' = [frames EXCEPT ![Len(frames)] = Append(Last(frames), x)]
         /\ PopDeferred => frames' = [frames EXCEPT ![Len(frames)] = Front(Last(frames))]
<1>1. frames \in Seq(Seq(Arrangements))
  BY DEF GateTypes
<1>2. Last(frames) = frames[Len(frames)]
  BY <1>1, Stack
<1> QED
  BY <1>2 DEF PopDeferred

(* The stack after each kind of step. *)
LEMMA StackAfter ==
  ASSUME GateInv
  PROVE  /\ Defer => frames' \in Seq(Seq(Arrangements)) /\ frames' # << >>
         /\ CallFunction => frames' \in Seq(Seq(Arrangements)) /\ frames' # << >>
         /\ Cleanup \/ CleanupFails \/ CompareSources =>
              frames # << >> /\ frames' \in Seq(Seq(Arrangements)) /\ frames' # << >>
         /\ LeaveFunction => /\ frames' \in Seq(Seq(Arrangements))
                             /\ Len(frames) \in Nat \ {0}
                             /\ frames' = << >> <=> Len(frames) = 1
<1>0. GateTypes /\ StackInv /\ frames \in Seq(Seq(Arrangements))
  BY DEF GateInv, GateTypes
<1>1. ASSUME Defer PROVE frames' \in Seq(Seq(Arrangements)) /\ frames' # << >>
  <2>1. frames # << >> /\ pc <= Len(Script) /\ Instruction.op = "defer"
    BY <1>1 DEF Defer, InBody
  <2>2. Instruction.of \in Arrangements
    BY <1>0, <2>1, InstructionHere
  <2>3. Last(frames) \in Seq(Arrangements)
    BY <1>0, <2>1, Stack
  <2> DEFINE top == Append(Last(frames), Instruction.of)
  <2>4. top \in Seq(Arrangements)
    BY <2>2, <2>3, Pushed
  <2>5. frames' = [frames EXCEPT ![Len(frames)] = top]
    BY <1>0, <1>1, <2>1, <2>2, StackChanges DEF Defer
  <2> HIDE DEF top
  <2> QED
    BY <1>0, <2>1, <2>4, <2>5, TopChanged
<1>2. ASSUME CallFunction PROVE frames' \in Seq(Seq(Arrangements)) /\ frames' # << >>
  <2>1. << >> \in Seq(Arrangements) /\ frames' = Append(frames, << >>)
    BY <1>2 DEF CallFunction
  <2> QED
    BY <1>0, <2>1, Pushed
<1>3. ASSUME Cleanup \/ CleanupFails \/ CompareSources
      PROVE  frames # << >> /\ frames' \in Seq(Seq(Arrangements)) /\ frames' # << >>
  <2>1. frames # << >> /\ Last(frames) # << >> /\ PopDeferred
    BY <1>3 DEF Cleanup, CleanupFails, CompareSources, Cleaning
  <2> DEFINE top == Front(Last(frames))
  <2>2. top \in Seq(Arrangements)
    BY <1>0, <2>1, DeferredHere
  <2>3. frames' = [frames EXCEPT ![Len(frames)] = top]
    BY <1>0, <2>1, StackChanges
  <2> HIDE DEF top
  <2> QED
    BY <1>0, <2>1, <2>2, <2>3, TopChanged
<1>4. ASSUME LeaveFunction
      PROVE  /\ frames' \in Seq(Seq(Arrangements)) /\ Len(frames) \in Nat \ {0}
             /\ frames' = << >> <=> Len(frames) = 1
  <2>1. frames # << >> /\ frames' = Front(frames)
    BY <1>4 DEF LeaveFunction
  <2> QED
    BY <1>0, <2>1, Stack
<1> QED
  BY <1>1, <1>2, <1>3, <1>4

LEMMA TypesInit ==
  ASSUME GateInit
  PROVE  GateInv
<1>1. mode \in Modes \cup {"unknown"} /\ GateStart
  BY DEF GateInit
<1>2. Len(Steps(mode)) \in Nat
  BY <1>1, StepsOfModes
<1>3. GateTypes
  <2>1. << >> \in Seq(Seq(Arrangements)) /\ << >> \in Seq(Reportable(mode))
    BY EmptySeq
  <2>2. 0 \in 0..Len(Steps(mode)) /\ 1 \in Nat \ {0}
    BY <1>2
  <2> QED
    BY <1>1, <2>1, <2>2 DEF GateStart, GateTypes
<1>4. StackInv
  BY <1>1 DEF GateStart, StackInv
<1>5. PassInv
  BY <1>1, <1>2 DEF GateStart, PassInv
<1> QED
  BY <1>3, <1>4, <1>5 DEF GateInv

LEMMA TypesNext ==
  ASSUME GateInv, [GateNext]_gateVars
  PROVE  GateTypes'
<1> USE DEF GateInv
<1>0. GateTypes /\ StackInv
  OBVIOUS
<1>1. CASE GateFails \/ AllPassed \/ ContextExpires \/ EndOfBody
  BY <1>0, <1>1 DEF GateTypes, GateFails, AllPassed, ContextExpires, EndOfBody, stepVars
<1>2. CASE BeginStep
  <2>1. << << >> >> \in Seq(Seq(Arrangements))
    OBVIOUS
  <2>2. step' \in 0..Len(Steps(mode))
    BY <1>0, <1>2, StepsOfModes DEF GateTypes, BeginStep
  <2> QED
    BY <1>0, <1>2, <2>1, <2>2 DEF GateTypes, BeginStep
<1>3. CASE Succeed \/ FailInstruction
  <2>1. online' \in BOOLEAN /\ altered' \in {0, 1}
    BY <1>0, <1>3 DEF GateTypes, Succeed, FailInstruction, Download
  <2>2. baseline' \in {0, 1}
    BY <1>0, <1>3 DEF GateTypes, Succeed, FailInstruction
  <2>3. pc' \in Nat \ {0}
    BY <1>0, <1>3 DEF GateTypes, Succeed, FailInstruction
  <2> QED
    BY <1>0, <1>3, <2>1, <2>2, <2>3 DEF GateTypes, Succeed, FailInstruction
<1>4. CASE Defer \/ CallFunction
  <2>1. frames' \in Seq(Seq(Arrangements))
    BY <1>4, StackAfter
  <2>2. pc' \in Nat \ {0}
    BY <1>0, <1>4 DEF GateTypes, Defer, CallFunction
  <2> QED
    BY <1>0, <1>4, <2>1, <2>2 DEF GateTypes, Defer, CallFunction
<1>5. CASE MayReturn
  <2>1. Len(Script) \in Nat /\ pc \in Nat \ {0}
    BY <1>0, <1>5, ScriptHere DEF MayReturn, InBody, GateTypes
  <2>2. pc' \in Nat \ {0}
    BY <1>5, <2>1, EarlyReturnIsLater DEF MayReturn
  <2> QED
    BY <1>0, <1>5, <2>2 DEF GateTypes, MayReturn
<1>6. CASE Cleanup \/ CleanupFails \/ CompareSources
  <2>1. frames' \in Seq(Seq(Arrangements))
    BY <1>6, StackAfter
  <2> QED
    BY <1>0, <1>6, <2>1 DEF GateTypes, Cleanup, CleanupFails, CompareSources
<1>7. CASE LeaveFunction
  <2>1. frames' \in Seq(Seq(Arrangements))
    BY <1>7, StackAfter
  <2>2. step \in 1..Len(Steps(mode))
    BY <1>0, <1>7, ScriptHere DEF LeaveFunction
  <2>3. Steps(mode)[step] \in Reportable(mode)
    BY <2>2 DEF Reportable
  <2>4. passed' \in Seq(Reportable(mode))
    BY <1>0, <1>7, <2>3, Pushed DEF GateTypes, LeaveFunction
  <2>5. leaving' \in BOOLEAN /\ exit' \in {"running", "passed", "failed"} /\ pc' \in Nat \ {0}
    BY <1>0, <1>7 DEF GateTypes, LeaveFunction
  <2> QED
    BY <1>0, <1>7, <2>1, <2>4, <2>5 DEF GateTypes, LeaveFunction
<1>8. CASE GateDone \/ UNCHANGED gateVars
  BY <1>0, <1>8 DEF GateTypes, GateDone, gateVars, stepVars
<1> QED
  BY <1>1, <1>2, <1>3, <1>4, <1>5, <1>6, <1>7, <1>8 DEF GateNext, GateStep

LEMMA StackNext ==
  ASSUME GateInv, [GateNext]_gateVars
  PROVE  StackInv'
<1>0. GateTypes /\ StackInv
  BY DEF GateInv
<1>1. CASE GateFails \/ AllPassed \/ ContextExpires \/ EndOfBody \/ MayReturn
  BY <1>0, <1>1 DEF GateTypes, StackInv, Running, GateFails, AllPassed, ContextExpires,
                    EndOfBody, MayReturn, InBody, stepVars
<1>2. CASE BeginStep
  BY <1>0, <1>2 DEF GateTypes, StackInv, Running, BeginStep
<1>3. CASE Succeed \/ FailInstruction
  BY <1>0, <1>3 DEF GateTypes, StackInv, Running, InBody, Succeed, FailInstruction
<1>4. CASE Defer \/ CallFunction
  <2>1. frames' # << >> /\ frames # << >>
    BY <1>4, StackAfter DEF Defer, CallFunction, InBody
  <2> QED
    BY <1>0, <1>4, <2>1 DEF StackInv, Running, Defer, CallFunction
<1>5. CASE Cleanup \/ CleanupFails \/ CompareSources
  <2>1. frames' # << >> /\ frames # << >> /\ leaving
    BY <1>5, StackAfter DEF Cleanup, CleanupFails, CompareSources, Cleaning
  <2>2. /\ Running /\ step >= 1 /\ leaving' = leaving /\ exit' = exit /\ step' = step
        /\ \/ failing' = failing /\ fault' = fault
           \/ failing' = TRUE /\ fault' = TRUE
    BY <1>0, <1>5, <2>1 DEF StackInv, Cleanup, CleanupFails, CompareSources
  <2>3. (failing => leaving \/ exit = "failed")' /\ (leaving => frames # << >>)'
    BY <2>1, <2>2
  <2>4. (fault => failing)'
    <3>1. CASE failing' = failing /\ fault' = fault
      BY <1>0, <3>1 DEF StackInv
    <3>2. CASE failing' = TRUE
      BY <3>2
    <3> QED
      BY <2>2, <3>1, <3>2, Zenon
  <2>5. (frames # << >> => Running /\ step >= 1)'
    BY <2>2 DEF Running
  <2> QED
    BY <2>3, <2>4, <2>5 DEF StackInv
<1>6. CASE LeaveFunction
  <2>1. /\ frames # << >> /\ Len(frames) \in Nat \ {0}
        /\ frames' = << >> <=> Len(frames) = 1
    BY <1>6, StackAfter DEF LeaveFunction
  <2>2. /\ leaving' = (failing /\ Len(frames) > 1) /\ failing' = failing /\ fault' = fault
        /\ exit' = IF Len(frames) = 1 /\ failing THEN "failed" ELSE exit
        /\ step' = step /\ exit = "running"
    BY <1>6 DEF LeaveFunction, Running
  <2>3. failing \in BOOLEAN
    BY <1>0 DEF GateTypes
  <2>4. (frames # << >> => Running /\ step >= 1)'
    BY <1>0, <2>1, <2>2 DEF StackInv, Running
  <2>5. (leaving => frames # << >>)' /\ (failing => leaving \/ exit = "failed")'
    <3>1. leaving' <=> failing /\ Len(frames) > 1
      BY <2>2, Zenon
    <3>a. Len(frames) > 1 <=> Len(frames) # 1
      <4>1. \A n \in Nat \ {0} : n > 1 <=> n # 1
        OBVIOUS
      <4> QED
        BY <2>1, <4>1, Zenon
    <3>2. Len(frames) > 1 => frames' # << >>
      BY <2>1, <3>a, Zenon
    <3>3. failing' => failing
      BY <2>2
    <3>4. ~(Len(frames) > 1) /\ failing => exit' = "failed"
      BY <2>2, <3>a, Zenon
    <3> QED
      BY <3>1, <3>2, <3>3, <3>4, Zenon
  <2>7. (fault => failing)'
    BY <1>0, <2>2 DEF StackInv
  <2> QED
    BY <2>4, <2>5, <2>7 DEF StackInv
<1>7. CASE GateDone \/ UNCHANGED gateVars
  BY <1>0, <1>7 DEF StackInv, Running, GateDone, gateVars, stepVars
<1> QED
  BY <1>1, <1>2, <1>3, <1>4, <1>5, <1>6, <1>7 DEF GateNext, GateStep

LEMMA PassNext ==
  ASSUME GateInv, [GateNext]_gateVars
  PROVE  PassInv'
<1>0. GateTypes /\ StackInv /\ PassInv
  BY DEF GateInv
<1>1. CASE \/ ContextExpires \/ EndOfBody \/ MayReturn \/ Succeed \/ FailInstruction
           \/ GateDone \/ UNCHANGED gateVars
  <2>1. UNCHANGED <<mode, step, frames, passed, exit>>
    BY <1>1 DEF ContextExpires, EndOfBody, MayReturn, Succeed, FailInstruction, GateDone,
                gateVars, stepVars
  <2> QED
    BY <1>0, <2>1 DEF PassInv
<1>2. CASE GateFails \/ AllPassed
  <2>1. /\ UNCHANGED <<mode, step, frames, passed>> /\ exit = "running"
        /\ exit' = "passed" => mode \in Modes /\ step = Len(Steps(mode))
    BY <1>2 DEF GateFails, AllPassed, stepVars, Running
  <2> QED
    BY <1>0, <2>1 DEF PassInv
<1>3. CASE BeginStep
  <2>1. /\ step' = step + 1 /\ frames' # << >> /\ frames = << >> /\ exit = "running"
        /\ UNCHANGED <<mode, passed, exit>> /\ step \in Nat
    BY <1>0, <1>3, StepsOfModes DEF BeginStep, Running, GateTypes
  <2> QED
    BY <1>0, <2>1 DEF PassInv, GateTypes
<1>4. CASE Defer \/ CallFunction \/ Cleanup \/ CleanupFails \/ CompareSources
  <2>1. /\ frames # << >> /\ frames' # << >>
        /\ UNCHANGED <<mode, step, passed, exit>>
    BY <1>4, StackAfter DEF Defer, CallFunction, InBody, Cleanup, CleanupFails, CompareSources
  <2> QED
    BY <1>0, <2>1 DEF PassInv
<1>5. CASE LeaveFunction
  <2>1. /\ frames # << >> /\ Len(frames) \in Nat \ {0}
        /\ frames' = << >> <=> Len(frames) = 1
    BY <1>5, StackAfter DEF LeaveFunction
  <2>2. /\ passed' = IF Len(frames) = 1 /\ ~failing THEN Append(passed, Steps(mode)[step]) ELSE passed
        /\ exit' = IF Len(frames) = 1 /\ failing THEN "failed" ELSE exit
        /\ UNCHANGED <<mode, step>> /\ exit = "running"
    BY <1>5 DEF LeaveFunction, Running
  <2>3. step \in 1..Len(Steps(mode)) /\ Len(passed) = step - 1 /\ passed \in Seq(Reportable(mode))
    BY <1>0, <2>1, ScriptHere DEF PassInv, GateTypes
  <2>4. CASE Len(frames) = 1 /\ ~failing
    <3>1. frames' = << >> /\ exit' = "running" /\ passed' = Append(passed, Steps(mode)[step])
      BY <2>1, <2>2, <2>4
    <3>2. Steps(mode)[step] \in Reportable(mode)
      BY <2>3 DEF Reportable
    <3>3. /\ Len(passed') = step /\ passed'[step] = Steps(mode)[step]
          /\ \A i \in 1..(step - 1) : passed'[i] = passed[i]
      BY <2>3, <3>1, <3>2, Pushed
    <3>4. \A i \in 1..Len(passed') : i <= step /\ passed'[i] = Steps(mode)[i]
      BY <1>0, <2>3, <3>3 DEF PassInv
    <3> QED
      BY <2>2, <2>3, <3>1, <3>3, <3>4 DEF PassInv
  <2>5. CASE Len(frames) = 1 /\ failing
    <3>1. frames' = << >> /\ exit' = "failed" /\ passed' = passed
      BY <2>1, <2>2, <2>5
    <3> QED
      BY <1>0, <2>2, <2>3, <3>1 DEF PassInv
  <2>6. CASE Len(frames) # 1
    <3>1. frames' # << >> /\ exit' = "running" /\ passed' = passed
      BY <2>1, <2>2, <2>6
    <3> QED
      BY <1>0, <2>2, <2>3, <3>1 DEF PassInv
  <2> QED
    BY <2>4, <2>5, <2>6
<1> QED
  BY <1>1, <1>2, <1>3, <1>4, <1>5 DEF GateNext, GateStep

-----------------------------------------------------------------------------
(* The network, and what it downloads *)

(* A process has the network, or changes the repository, only where the    *)
(* script says so.                                                          *)
LEMMA DownloadHere ==
  ASSUME GateInv, Succeed \/ FailInstruction
  PROVE  /\ frames # << >> /\ pc \in 1..Len(Script) /\ ~leaving
         /\ online' # online => networkAllowed(mode) /\ step >= 2
         /\ altered' # altered =>
              Script[pc].op \notin LocalOps /\ Script[pc].of = "mod-download"
<1>0. GateTypes /\ StackInv
  BY DEF GateInv
<1>1. frames # << >> /\ pc <= Len(Script) /\ ~leaving /\ Instruction.op \in Fallible /\ Download
  BY DEF Succeed, FailInstruction, InBody
<1>2. /\ pc \in 1..Len(Script) /\ step \in 1..Len(Steps(mode)) /\ Len(Steps(mode)) \in Nat
      /\ Sound(Script, AllOps)
      /\ step = 1 \/ ~networkAllowed(mode) => Sound(Script, LocalOps)
  BY <1>0, <1>1, InstructionHere, ScriptHere
<1>3. online' # online => networkAllowed(mode) /\ step >= 2
  <2> SUFFICES ASSUME online' # online PROVE networkAllowed(mode) /\ step >= 2
    OBVIOUS
  <2>1. Instruction.op = "online"
    <3> SUFFICES ASSUME Instruction.op # "online" PROVE FALSE
      OBVIOUS
    <3>1. environment(Instruction.op = "online") = "off"
      BY DEF environment
    <3> QED
      BY <1>1, <3>1 DEF Download
  <2>2. ~Sound(Script, LocalOps)
    BY <1>2, <2>1 DEF Sound, LegalAt, LocalOps, Instruction
  <2>3. networkAllowed(mode) /\ step # 1
    BY <1>2, <2>2
  <2> QED
    BY <1>2, <2>3
<1>4. altered' # altered =>
        Script[pc].op \notin LocalOps /\ Script[pc].of = "mod-download"
  <2> SUFFICES ASSUME altered' # altered
               PROVE  Script[pc].op \notin LocalOps /\ Script[pc].of = "mod-download"
    OBVIOUS
  <2>1. Instruction.of = "mod-download"
    BY <1>1 DEF Download
  <2>2. LegalAt(Script, pc, AllOps)
    BY <1>2 DEF Sound
  <2> QED
    BY <1>1, <2>1, <2>2 DEF LegalAt, Instruction, Fallible
<1> QED
  BY <1>1, <1>2, <1>3, <1>4

LEMMA NetworkNext ==
  ASSUME GateInv, NetworkInv, [GateNext]_gateVars
  PROVE  NetworkInv'
<1>1. CASE Succeed \/ FailInstruction
  <2>1. mode' = mode /\ step' = step
    BY <1>1 DEF Succeed, FailInstruction
  <2> QED
    BY <1>1, <2>1, DownloadHere DEF NetworkInv
<1>2. CASE BeginStep
  <2>1. step' = step + 1 /\ mode' = mode /\ online' = online
    BY <1>2 DEF BeginStep
  <2>2. step \in Nat
    BY StepsOfModes DEF GateInv, GateTypes
  <2> QED
    BY <2>1, <2>2 DEF NetworkInv
<1>3. CASE ~(Succeed \/ FailInstruction \/ BeginStep)
  <2>1. UNCHANGED <<mode, step, online>>
    BY <1>3 DEF GateNext, GateStep, GateDone, gateVars, stepVars, GateFails, AllPassed,
                ContextExpires, Defer, CallFunction, MayReturn, EndOfBody, Cleanup, CleanupFails,
                CompareSources, LeaveFunction
  <2> QED
    BY <2>1 DEF NetworkInv
<1> QED
  BY <1>1, <1>2, <1>3

(* The first entry stays when something is deferred or done after it. *)
LEMMA WatchedTop ==
  ASSUME GateTypes, frames # << >>, Watched, NEW top \in Seq(Arrangements),
         frames' = [frames EXCEPT ![Len(frames)] = top],
         Len(frames) = 1 => top # << >> /\ top[1] = frames[1][1]
  PROVE  Watched'
<1>1. frames \in Seq(Seq(Arrangements)) /\ Len(frames) \in Nat \ {0}
  BY Stack DEF GateTypes
<1>2. /\ frames' # << >> /\ frames'[Len(frames)] = top
      /\ \A k \in 1..(Len(frames) - 1) : frames'[k] = frames[k]
  BY <1>1, TopChanged
<1>3. CASE Len(frames) = 1
  BY <1>2, <1>3 DEF Watched
<1>4. CASE Len(frames) # 1
  <2>1. 1 \in 1..(Len(frames) - 1)
    <3>1. \A n \in Nat \ {0} : n # 1 => 1 \in 1..(n - 1)
      OBVIOUS
    <3> QED
      BY <1>1, <1>4, <3>1, Zenon
  <2>2. frames'[1] = frames[1]
    BY <1>2, <2>1
  <2> QED
    BY <1>2, <2>2 DEF Watched
<1> QED
  BY <1>3, <1>4

(* What a bootstrap does before it is watched. *)
LEMMA BootstrapHere ==
  ASSUME GateInv, BootstrapInv, mode = "tools-bootstrap", frames # << >>, ~leaving
  PROVE  /\ ~failing /\ step \in {1, 2} /\ pc \in Nat \ {0}
         /\ step = 1 => Sound(Script, LocalOps)
         /\ step = 2 => /\ Script = Bootstrap
                        /\ \/ pc <= 2 /\ frames = << << >> >>
                           \/ pc > 2 /\ Watched
         /\ altered # 0 => Watched
         /\ baseline = 0
<1>0. GateTypes /\ StackInv
  BY DEF GateInv
<1>1. ~failing
  BY <1>0 DEF StackInv, Running
<1>2. step \in 1..Len(Steps(mode)) /\ Steps(mode) = <<"identity", "bootstrap">>
  BY <1>0, ScriptHere, StepsOfModes DEF GateTypes
<1>3. step \in {1, 2}
  <2>1. Len(<<"identity", "bootstrap">>) = 2
    OBVIOUS
  <2>2. step \in 1..2
    BY <1>2, <2>1, Zenon
  <2> QED
    BY <2>2
<1>4. /\ step = 1 => Sound(Script, LocalOps)
      /\ step = 2 => Script = Bootstrap
  BY <1>0, ScriptHere
<1>5. pc \in Nat \ {0}
  BY <1>0 DEF GateTypes
<1> QED
  BY <1>1, <1>3, <1>4, <1>5 DEF BootstrapInv

LEMMA BootstrapSucceeds ==
  ASSUME GateInv, BootstrapInv, mode = "tools-bootstrap", Succeed
  PROVE  BootstrapInv'
<1>1. frames # << >> /\ ~leaving /\ pc \in 1..Len(Script)
  BY DownloadHere
<1>2. /\ UNCHANGED <<mode, step, frames, leaving, failing>> /\ pc' = pc + 1
      /\ baseline' = IF Script[pc].op = "snapshot" THEN altered ELSE baseline
      /\ Script[pc].op \in Fallible
  BY DEF Succeed, Instruction
<1>3. Watched' <=> Watched
  BY <1>2 DEF Watched
<1>4. CASE step = 1
  <2>1. Script[pc].op \in LocalOps
    BY <1>1, <1>4, BootstrapHere DEF Sound, LegalAt
  <2>2. baseline' = baseline /\ altered' = altered
    BY <1>2, <2>1, DownloadHere DEF LocalOps, AllOps
  <2> QED
    BY <1>2, <1>3, <1>4, <2>2 DEF BootstrapInv
<1>5. CASE step = 2 /\ pc <= 2 /\ frames = << << >> >>
  <2>1. Script = Bootstrap /\ pc \in {1, 2} /\ ~Watched /\ altered = 0
    <3>1. Script = Bootstrap /\ pc \in {1, 2}
      BY <1>1, <1>5, BootstrapHere
    <3>2. ~Watched
      BY <1>5 DEF Watched
    <3> QED
      BY <1>1, <3>1, <3>2, BootstrapHere
  <2>2. pc = 1
    BY <1>2, <2>1, BootstrapShape DEF Fallible
  <2>3. Script[pc].of = "before"
    BY <2>1, <2>2, BootstrapShape
  <2>4. altered' = 0 /\ baseline' = 0
    BY <1>1, <1>2, <2>1, <2>3, DownloadHere, BootstrapHere
  <2> QED
    BY <1>2, <1>5, <2>2, <2>4 DEF BootstrapInv
<1>6. CASE step = 2 /\ pc > 2 /\ Watched
  <2>1. Script = Bootstrap /\ baseline = 0 /\ pc \in Nat \ {0}
    BY <1>1, <1>6, BootstrapHere
  <2>2. Script[pc].op # "snapshot"
    BY <1>1, <1>6, <2>1, BootstrapShape
  <2>3. baseline' = 0 /\ pc' > 2
    BY <1>2, <1>6, <2>1, <2>2
  <2> QED
    BY <1>2, <1>3, <1>6, <2>3 DEF BootstrapInv
<1> QED
  BY <1>1, <1>4, <1>5, <1>6, BootstrapHere

LEMMA BootstrapDefers ==
  ASSUME GateInv, BootstrapInv, mode = "tools-bootstrap", Defer
  PROVE  BootstrapInv'
<1>0. GateTypes /\ StackInv /\ frames \in Seq(Seq(Arrangements))
  BY DEF GateInv, GateTypes
<1>1. /\ frames # << >> /\ ~leaving /\ pc <= Len(Script) /\ Instruction.op = "defer"
      /\ frames' = [frames EXCEPT ![Len(frames)] = Append(@, Instruction.of)]
      /\ UNCHANGED <<mode, step, leaving, failing, altered, baseline>> /\ pc' = pc + 1
  BY DEF Defer, InBody
<1>2. Instruction.of \in Arrangements /\ pc \in 1..Len(Script)
  BY <1>0, <1>1, InstructionHere
<1> DEFINE top == Append(Last(frames), Instruction.of)
<1>3. frames' = [frames EXCEPT ![Len(frames)] = top]
  BY <1>0, <1>1, <1>2, StackChanges
<1>4. Last(frames) = frames[Len(frames)] /\ Last(frames) \in Seq(Arrangements)
  BY <1>0, <1>1, Stack
<1>5. /\ top \in Seq(Arrangements) /\ top # << >> /\ Len(top) = Len(Last(frames)) + 1
      /\ top[Len(Last(frames)) + 1] = Instruction.of
      /\ \A k \in 1..Len(Last(frames)) : top[k] = Last(frames)[k]
  BY <1>2, <1>4, Pushed
<1>6. Watched => Watched'
  <2> SUFFICES ASSUME Watched PROVE Watched'
    OBVIOUS
  <2>1. Len(frames) = 1 => top # << >> /\ top[1] = frames[1][1]
    <3> SUFFICES ASSUME Len(frames) = 1 PROVE top[1] = frames[1][1]
      BY <1>5
    <3>1. Last(frames) = frames[1] /\ frames[1] # << >>
      BY <1>4 DEF Watched
    <3>2. 1 \in 1..Len(Last(frames))
      BY <1>4, <3>1, EmptySeq, LenProperties
    <3> QED
      BY <1>5, <3>1, <3>2
  <2> HIDE DEF top
  <2> QED
    BY <1>0, <1>1, <1>3, <1>5, <2>1, WatchedTop
<1>7. CASE step = 1
  BY <1>1, <1>6, <1>7 DEF BootstrapInv
<1>8. CASE step = 2 /\ pc > 2 /\ Watched
  <2>1. pc' > 2
    BY <1>1, <1>2, <1>8, BootstrapHere
  <2> QED
    BY <1>1, <1>6, <1>8, <2>1 DEF BootstrapInv
<1>9. CASE step = 2 /\ pc <= 2 /\ frames = << << >> >>
  <2>1. Script = Bootstrap /\ pc \in {1, 2}
    BY <1>1, <1>9, BootstrapHere
  <2>2. pc = 2 /\ Instruction.of = <<"compare", "before">>
    BY <1>1, <2>1, BootstrapShape DEF Instruction
  <2>3. Len(frames) = 1 /\ Last(frames) = << >>
    BY <1>4, <1>9
  <2>4. top[1] = <<"compare", "before">>
    <3>1. Len(Last(frames)) = 0
      BY <2>3
    <3> QED
      BY <1>5, <2>2, <3>1
  <2> HIDE DEF top
  <2>5. frames' # << >> /\ frames'[1] = top
    BY <1>0, <1>1, <1>3, <1>5, <2>3, TopChanged
  <2>6. Watched' /\ pc' > 2
    BY <1>1, <1>5, <2>2, <2>4, <2>5 DEF Watched
  <2> QED
    BY <1>1, <1>9, <2>6 DEF BootstrapInv
<1> QED
  BY <1>1, <1>7, <1>8, <1>9, BootstrapHere

LEMMA SeveralFunctions ==
  ASSUME NEW fs, Len(fs) > 1
  PROVE  fs # << << >> >>
<1>1. Len(<< << >> >>) = 1
  OBVIOUS
<1>2. ~(1 > 1)
  OBVIOUS
<1> QED
  BY <1>1, <1>2, Zenon

LEMMA BootstrapCleans ==
  ASSUME GateInv, BootstrapInv, mode = "tools-bootstrap",
         Cleanup \/ CleanupFails \/ CompareSources
  PROVE  BootstrapInv'
<1>0. GateTypes /\ StackInv /\ frames \in Seq(Seq(Arrangements))
  BY DEF GateInv, GateTypes
<1>1. /\ frames # << >> /\ leaving /\ PopDeferred /\ Last(frames) # << >>
      /\ UNCHANGED <<mode, step, leaving, pc, altered, baseline>>
      /\ failing => failing'
  BY DEF Cleanup, CleanupFails, CompareSources, Cleaning
<1> DEFINE top == Front(Last(frames))
<1>2. frames' = [frames EXCEPT ![Len(frames)] = top] /\ top \in Seq(Arrangements)
  BY <1>0, <1>1, StackChanges, DeferredHere
<1>3. /\ Last(frames) = frames[Len(frames)] /\ Last(frames) \in Seq(Arrangements)
      /\ Len(frames) \in Nat \ {0}
  BY <1>0, <1>1, Stack
<1>4. /\ Len(Last(frames)) \in Nat \ {0} /\ Len(top) = Len(Last(frames)) - 1
      /\ Deferred = Last(frames)[Len(Last(frames))]
      /\ \A k \in 1..(Len(Last(frames)) - 1) : top[k] = Last(frames)[k]
  BY <1>1, <1>3, Popped DEF Deferred
<1> HIDE DEF top
<1>5. Len(frames') = Len(frames) /\ frames' # << >>
  BY <1>0, <1>1, <1>2, TopChanged
<1>6. ASSUME Watched, Len(frames) > 1 \/ Deferred # <<"compare", "before">>
      PROVE  Watched'
  <2>1. Len(frames) = 1 => top # << >> /\ top[1] = frames[1][1]
    <3> SUFFICES ASSUME Len(frames) = 1 PROVE top # << >> /\ top[1] = frames[1][1]
      OBVIOUS
    <3>1. Last(frames) = frames[1] /\ frames[1][1] = <<"compare", "before">>
      BY <1>3, <1>6 DEF Watched
    <3>2. Deferred # <<"compare", "before">>
      BY <1>6
    <3>3. Len(Last(frames)) # 1
      BY <1>4, <3>1, <3>2
    <3>4. \A n \in Nat \ {0} : n # 1 => 1 \in 1..(n - 1) /\ n - 1 # 0
      OBVIOUS
    <3>5. 1 \in 1..(Len(Last(frames)) - 1) /\ Len(top) # 0
      BY <1>4, <3>3, <3>4, Zenon
    <3>6. top[1] = Last(frames)[1]
      BY <1>4, <3>5, Zenon
    <3>7. top # << >>
      BY <1>2, <3>5, EmptySeq
    <3> QED
      BY <3>1, <3>6, <3>7
  <2> QED
    BY <1>0, <1>1, <1>2, <1>6, <2>1, WatchedTop
<1>7. baseline' = 0
  BY <1>1 DEF BootstrapInv
<1>8. altered' # 0 => failing' \/ Watched'
  <2>1. CASE Cleanup \/ CleanupFails
    <3>1. Deferred # <<"compare", "before">>
      BY <2>1 DEF Cleanup, CleanupFails, Cleaning
    <3> QED
      BY <1>1, <1>6, <3>1 DEF BootstrapInv
  <2>2. CASE CompareSources
    <3>1. altered = baseline \/ failing'
      BY <2>2 DEF CompareSources
    <3> QED
      BY <1>1, <1>7, <3>1
  <2> QED
    BY <2>1, <2>2
<1>9. ASSUME step' = 2, leaving' => Len(frames') > 1
      PROVE  pc' > 2 /\ Watched'
  <2>1. Len(frames) > 1 /\ step = 2
    BY <1>1, <1>5, <1>9
  <2>2. frames # << << >> >>
    BY <2>1, SeveralFunctions
  <2>3. pc > 2 /\ Watched
    BY <1>1, <2>1, <2>2 DEF BootstrapInv
  <2> QED
    BY <1>1, <1>6, <2>1, <2>3
<1> QED
  BY <1>7, <1>8, <1>9 DEF BootstrapInv

LEMMA BootstrapLeaves ==
  ASSUME GateInv, BootstrapInv, mode = "tools-bootstrap", LeaveFunction
  PROVE  BootstrapInv'
<1>0. GateTypes /\ StackInv /\ frames \in Seq(Seq(Arrangements))
  BY DEF GateInv, GateTypes
<1>1. /\ frames # << >> /\ leaving /\ Last(frames) = << >> /\ frames' = Front(frames)
      /\ UNCHANGED <<mode, step, failing, altered, baseline>> /\ pc' = pc + 1
  BY DEF LeaveFunction
<1>2. /\ Last(frames) = frames[Len(frames)] /\ Len(frames) \in Nat \ {0}
      /\ Len(frames') = Len(frames) - 1
      /\ frames' = << >> <=> Len(frames) = 1
      /\ \A k \in 1..(Len(frames) - 1) : frames'[k] = frames[k]
  BY <1>0, <1>1, Stack
<1>3. ASSUME Watched PROVE Watched'
  <2>1. Len(frames) # 1
    BY <1>1, <1>2, <1>3 DEF Watched
  <2>2. \A n \in Nat \ {0} : n # 1 => 1 \in 1..(n - 1)
    OBVIOUS
  <2>3. frames' # << >>
    BY <1>2, <2>1
  <2>4. 1 \in 1..(Len(frames) - 1)
    BY <1>2, <2>1, <2>2, Zenon
  <2>5. frames'[1] = frames[1]
    BY <1>2, <2>4, Zenon
  <2> QED
    BY <1>3, <2>3, <2>5 DEF Watched
<1>4. altered' # 0 => failing' \/ Watched'
  BY <1>1, <1>3 DEF BootstrapInv
<1>5. ASSUME step' = 2, frames' # << >> PROVE pc' > 2 /\ Watched'
  <2>1. step = 2 /\ Len(frames) # 1
    BY <1>1, <1>2, <1>5
  <2>2. \A n \in Nat \ {0} : n # 1 => n > 1
    OBVIOUS
  <2>3. Len(frames) > 1
    BY <1>2, <2>1, <2>2, Zenon
  <2>4. frames # << << >> >>
    BY <2>3, SeveralFunctions
  <2>5. pc > 2 /\ Watched
    BY <1>1, <2>1, <2>3, <2>4 DEF BootstrapInv
  <2>6. pc \in Nat
    BY <1>0 DEF GateTypes
  <2> QED
    BY <1>1, <1>3, <2>5, <2>6
<1> QED
  BY <1>1, <1>4, <1>5 DEF BootstrapInv

LEMMA BootstrapNext ==
  ASSUME GateInv, BootstrapInv, [GateNext]_gateVars
  PROVE  BootstrapInv'
<1>0. GateTypes /\ StackInv
  BY DEF GateInv
<1>a. mode' = mode
  BY DEF GateNext, GateStep, GateDone, gateVars, GateFails, BeginStep, AllPassed, ContextExpires,
         Succeed, FailInstruction, Defer, CallFunction, MayReturn, EndOfBody, Cleanup,
         CleanupFails, CompareSources, LeaveFunction
<1> SUFFICES ASSUME mode = "tools-bootstrap" PROVE BootstrapInv'
  BY <1>a DEF BootstrapInv
<1>1. CASE GateFails \/ AllPassed \/ ContextExpires \/ GateDone \/ UNCHANGED gateVars
  <2>1. UNCHANGED <<mode, step, pc, frames, leaving, failing, altered, baseline>>
    BY <1>1 DEF GateFails, AllPassed, ContextExpires, GateDone, gateVars, stepVars
  <2> QED
    BY <2>1 DEF BootstrapInv, Watched
<1>2. CASE EndOfBody \/ MayReturn
  <2>1. /\ frames # << >> /\ ~leaving /\ leaving'
        /\ UNCHANGED <<mode, step, frames, failing, altered, baseline>>
    BY <1>2 DEF EndOfBody, MayReturn, InBody
  <2>2. pc' >= pc /\ pc \in Nat /\ pc' \in Nat
    <3>1. Len(Script) \in Nat /\ pc \in Nat \ {0}
      BY <1>0, <2>1, ScriptHere DEF GateTypes
    <3>2. CASE EndOfBody
      BY <3>1, <3>2 DEF EndOfBody
    <3>3. CASE MayReturn
      BY <3>1, <3>3, EarlyReturnIsLater DEF MayReturn
    <3> QED
      BY <1>2, <3>2, <3>3
  <2>3. Watched' <=> Watched
    BY <2>1 DEF Watched
  <2>4. ASSUME step' = 2, leaving' => Len(frames') > 1
        PROVE  pc' > 2 /\ Watched'
    <3>1. frames # << << >> >> /\ step = 2
      BY <2>1, <2>4, SeveralFunctions
    <3>2. pc > 2 /\ Watched
      BY <2>1, <3>1 DEF BootstrapInv
    <3> QED
      BY <2>2, <2>3, <3>2
  <2> QED
    BY <2>1, <2>3, <2>4 DEF BootstrapInv
<1>3. CASE BeginStep
  <2>1. /\ frames = << >> /\ frames' = << << >> >> /\ pc' = 1
        /\ UNCHANGED <<failing, altered, baseline>> /\ Running
    BY <1>3 DEF BeginStep
  <2>2. altered = 0 /\ baseline = 0
    BY <1>0, <2>1 DEF BootstrapInv, Watched, StackInv, Running
  <2> QED
    BY <2>1, <2>2 DEF BootstrapInv
<1>4. CASE Succeed
  BY <1>4, BootstrapSucceeds
<1>5. CASE FailInstruction
  <2>1. /\ frames # << >> /\ ~leaving /\ leaving' /\ failing'
        /\ UNCHANGED <<mode, step, pc, frames, baseline>>
    BY <1>5 DEF FailInstruction, InBody
  <2>2. ASSUME step' = 2, leaving' => Len(frames') > 1
        PROVE  pc' > 2 /\ Watched'
    <3>1. frames # << << >> >> /\ step = 2
      BY <2>1, <2>2, SeveralFunctions
    <3>2. pc > 2 /\ Watched
      BY <2>1, <3>1 DEF BootstrapInv
    <3> QED
      BY <2>1, <3>2 DEF Watched
  <2> QED
    BY <2>1, <2>2 DEF BootstrapInv
<1>6. CASE Defer
  BY <1>6, BootstrapDefers
<1>7. CASE CallFunction
  <2>1. /\ frames # << >> /\ ~leaving /\ pc <= Len(Script) /\ Instruction.op = "call"
        /\ frames' = Append(frames, << >>) /\ pc' = pc + 1
        /\ UNCHANGED <<mode, step, leaving, failing, altered, baseline>>
    BY <1>7 DEF CallFunction, InBody
  <2>2. frames \in Seq(Seq(Arrangements)) /\ Len(frames) \in Nat \ {0}
    BY <1>0, <2>1, Stack DEF GateTypes
  <2>3. frames' # << >> /\ frames'[1] = frames[1]
    BY <2>1, <2>2
  <2>4. Watched => Watched'
    BY <2>3 DEF Watched
  <2>5. pc \in 1..Len(Script)
    BY <1>0, <2>1, InstructionHere
  <2>6. ~(step = 2 /\ pc <= 2)
    <3> SUFFICES ASSUME step = 2, pc <= 2 PROVE FALSE
      OBVIOUS
    <3>1. Script = Bootstrap /\ pc \in {1, 2}
      BY <2>1, <2>5, BootstrapHere
    <3> QED
      BY <2>1, <3>1, BootstrapShape DEF Instruction
  <2>7. step = 2 => pc > 2 /\ Watched /\ pc' > 2
    BY <2>1, <2>6, BootstrapHere
  <2> QED
    BY <2>1, <2>4, <2>7 DEF BootstrapInv
<1>8. CASE Cleanup \/ CleanupFails \/ CompareSources
  BY <1>8, BootstrapCleans
<1>9. CASE LeaveFunction
  BY <1>9, BootstrapLeaves
<1> QED
  BY <1>1, <1>2, <1>3, <1>4, <1>5, <1>6, <1>7, <1>8, <1>9 DEF GateNext, GateStep

-----------------------------------------------------------------------------
(* Temporary files and trees *)

Removals(of) == {<<"join", of>>, <<"warn", of>>}

(* An arrangement stays while the entry of its function keeps one. *)
LEMMA ArrangedTop ==
  ASSUME GateTypes, frames # << >>, NEW top \in Seq(Arrangements), NEW of,
         frames' = [frames EXCEPT ![Len(frames)] = top],
         Arranged(of),
         (\E j \in 1..Len(Last(frames)) : Last(frames)[j] \in Removals(of))
           => \E j \in 1..Len(top) : top[j] \in Removals(of)
  PROVE  Arranged(of)'
<1>1. /\ frames \in Seq(Seq(Arrangements)) /\ Len(frames) \in Nat \ {0}
      /\ Last(frames) = frames[Len(frames)]
  BY Stack DEF GateTypes
<1>2. /\ Len(frames') = Len(frames) /\ frames'[Len(frames)] = top
      /\ \A k \in 1..(Len(frames) - 1) : frames'[k] = frames[k]
  BY <1>1, TopChanged
<1>3. PICK k \in 1..Len(frames) : \E j \in 1..Len(frames[k]) : frames[k][j] \in Removals(of)
  BY DEF Arranged, Removals
<1>4. \E i \in 1..Len(frames') : \E j \in 1..Len(frames'[i]) : frames'[i][j] \in Removals(of)
  <2>1. CASE k = Len(frames)
    <3>1. \E j \in 1..Len(top) : top[j] \in Removals(of)
      BY <1>1, <1>3, <2>1
    <3>2. \A n \in Nat \ {0} : n \in 1..n
      OBVIOUS
    <3>3. Len(frames) \in 1..Len(frames')
      BY <1>1, <1>2, <3>2, Zenon
    <3> QED
      BY <1>2, <3>1, <3>3
  <2>2. CASE k # Len(frames)
    <3>a. \A n \in Nat \ {0} : \A i \in 1..n : i # n => i \in 1..(n - 1)
      OBVIOUS
    <3>1. k \in 1..(Len(frames) - 1) /\ k \in 1..Len(frames')
      BY <1>1, <1>2, <2>2, <3>a, Zenon
    <3>2. frames'[k] = frames[k]
      BY <1>2, <3>1
    <3> QED
      BY <1>3, <3>1, <3>2
  <2> QED
    BY <2>1, <2>2
<1> QED
  BY <1>4 DEF Arranged, Removals

(* What was done in its turn is the only arrangement that is gone. *)
LEMMA ArrangedPopped ==
  ASSUME GateTypes, frames # << >>, Last(frames) # << >>, PopDeferred,
         NEW of, Arranged(of), Deferred \notin Removals(of)
  PROVE  Arranged(of)'
<1> DEFINE top == Front(Last(frames))
<1>1. frames \in Seq(Seq(Arrangements)) /\ Last(frames) \in Seq(Arrangements)
  BY Stack DEF GateTypes
<1>2. frames' = [frames EXCEPT ![Len(frames)] = top] /\ top \in Seq(Arrangements)
  BY StackChanges, DeferredHere
<1>3. /\ Len(Last(frames)) \in Nat \ {0} /\ Len(top) = Len(Last(frames)) - 1
      /\ Deferred = Last(frames)[Len(Last(frames))]
      /\ \A k \in 1..(Len(Last(frames)) - 1) : top[k] = Last(frames)[k]
  BY <1>1, Popped DEF Deferred
<1> HIDE DEF top
<1>4. ASSUME NEW j \in 1..Len(Last(frames)), Last(frames)[j] \in Removals(of)
      PROVE  \E i \in 1..Len(top) : top[i] \in Removals(of)
  <2>1. j # Len(Last(frames))
    BY <1>3, <1>4
  <2>2. j \in 1..(Len(Last(frames)) - 1)
    BY <1>3, <2>1
  <2> QED
    BY <1>3, <1>4, <2>2
<1> QED
  BY <1>2, <1>4, ArrangedTop

(* Nothing else is about to be arranged at an instruction of another kind. *)
LEMMA AboutHere ==
  ASSUME NEW of, AboutToArrange(of)
  PROVE  /\ frames # << >> /\ ~leaving /\ pc <= Len(Script)
         /\ \/ Instruction.op = "defer" /\ Instruction.of \in Removals(of)
            \/ /\ Instruction.op = "check" /\ Instruction.of = "close"
               /\ Script[pc - 1].of = of
               /\ pc + 1 <= Len(Script) /\ Removes(Script[pc + 1], of)
BY DEF AboutToArrange, Removes, Closes, Instruction, Removals

LEMMA TemporarySucceeds ==
  ASSUME GateInv, TemporaryInv, Succeed
  PROVE  TemporaryInv'
<1>0. GateTypes /\ StackInv
  BY DEF GateInv
<1>1. /\ frames # << >> /\ ~leaving /\ pc <= Len(Script) /\ Instruction.op \in Fallible
      /\ pc' = pc + 1 /\ UNCHANGED <<mode, step, frames, leaving, reported>>
      /\ temporaries' = IF Instruction.op = "temp" THEN temporaries \cup {Instruction.of}
                        ELSE temporaries
  BY DEF Succeed, InBody
<1>2. Script' = Script
  BY <1>1 DEF Script
<1>3. pc \in 1..Len(Script) /\ Len(Script) \in Nat /\ TidyAt(Script, pc)
  BY <1>0, <1>1, InstructionHere, ScriptHere
<1>4. ASSUME NEW of, AboutToArrange(of)
      PROVE  AboutToArrange(of)'
  <2>1. pc + 1 <= Len(Script) /\ Removes(Script[pc + 1], of)
    BY <1>1, <1>4, AboutHere DEF Fallible
  <2> QED
    BY <1>1, <1>2, <2>1 DEF AboutToArrange
<1>5. ASSUME Instruction.op = "temp"
      PROVE  \A of : of = Instruction.of => AboutToArrange(of)'
  <2>1. Script[pc].op = "temp" /\ Instruction.of = Script[pc].of
    BY <1>5 DEF Instruction
  <2> DEFINE q == pc + 1
  <2>2. /\ q <= Len(Script)
        /\ \/ Removes(Script[q], Instruction.of)
           \/ /\ Closes(Script[q]) /\ q + 1 <= Len(Script)
              /\ Removes(Script[q + 1], Instruction.of)
    <3>1. pc + 2 = q + 1
      BY <1>3
    <3> QED
      BY <1>3, <2>1, <3>1 DEF TidyAt
  <2>3. Script[q - 1].of = Instruction.of
    <3>1. q - 1 = pc
      BY <1>3
    <3> QED
      BY <2>1, <3>1
  <2>4. pc' = q /\ frames' # << >> /\ ~leaving'
    BY <1>1
  <2> HIDE DEF q
  <2> QED
    BY <1>2, <2>2, <2>3, <2>4 DEF AboutToArrange
<1>6. ASSUME NEW of \in temporaries' PROVE (of \in reported \/ Arranged(of) \/ AboutToArrange(of))'
  <2>1. CASE of \in temporaries
    <3>1. of \in reported \/ Arranged(of) \/ AboutToArrange(of)
      BY <2>1 DEF TemporaryInv
    <3>2. Arranged(of) => Arranged(of)'
      BY <1>1 DEF Arranged
    <3> QED
      BY <1>1, <1>4, <3>1, <3>2
  <2>2. CASE of \notin temporaries
    BY <1>1, <1>5, <1>6, <2>2
  <2> QED
    BY <2>1, <2>2
<1> QED
  BY <1>6 DEF TemporaryInv

LEMMA TemporaryDefers ==
  ASSUME GateInv, TemporaryInv, Defer
  PROVE  TemporaryInv'
<1>0. GateTypes /\ StackInv /\ frames \in Seq(Seq(Arrangements))
  BY DEF GateInv, GateTypes
<1>1. /\ frames # << >> /\ ~leaving /\ pc <= Len(Script) /\ Instruction.op = "defer"
      /\ frames' = [frames EXCEPT ![Len(frames)] = Append(@, Instruction.of)]
      /\ UNCHANGED <<temporaries, reported>>
  BY DEF Defer, InBody
<1>2. Instruction.of \in Arrangements
  BY <1>0, <1>1, InstructionHere
<1> DEFINE top == Append(Last(frames), Instruction.of)
<1>3. frames' = [frames EXCEPT ![Len(frames)] = top]
  BY <1>0, <1>1, <1>2, StackChanges
<1>4. Last(frames) \in Seq(Arrangements) /\ Len(frames) \in Nat \ {0}
  BY <1>0, <1>1, Stack
<1>5. /\ top \in Seq(Arrangements) /\ Len(top) = Len(Last(frames)) + 1
      /\ top[Len(Last(frames)) + 1] = Instruction.of
      /\ \A k \in 1..Len(Last(frames)) : top[k] = Last(frames)[k]
      /\ Len(Last(frames)) \in Nat
  BY <1>2, <1>4, Pushed, LenProperties
<1> HIDE DEF top
<1>6. ASSUME NEW of, Arranged(of) PROVE Arranged(of)'
  <2>1. ASSUME NEW j \in 1..Len(Last(frames)), Last(frames)[j] \in Removals(of)
        PROVE  \E i \in 1..Len(top) : top[i] \in Removals(of)
    <3>1. j \in 1..Len(top) /\ top[j] = Last(frames)[j]
      BY <1>5
    <3> QED
      BY <2>1, <3>1
  <2> QED
    BY <1>0, <1>1, <1>3, <1>5, <1>6, <2>1, ArrangedTop
<1>7. ASSUME NEW of, AboutToArrange(of) PROVE Arranged(of)'
  <2>1. Instruction.of \in Removals(of)
    BY <1>1, <1>7, AboutHere
  <2>2. frames'[Len(frames)] = top /\ Len(frames') = Len(frames)
    BY <1>0, <1>1, <1>3, <1>5, TopChanged
  <2> DEFINE j == Len(Last(frames)) + 1
  <2>3. j \in 1..Len(top) /\ top[j] \in Removals(of)
    BY <1>5, <2>1
  <2>4. \A n \in Nat \ {0} : n \in 1..n
    OBVIOUS
  <2>5. Len(frames) \in 1..Len(frames')
    BY <1>4, <2>2, <2>4, Zenon
  <2> HIDE DEF j
  <2> QED
    BY <2>2, <2>3, <2>5 DEF Arranged, Removals
<1>8. ASSUME NEW of \in temporaries' PROVE (of \in reported \/ Arranged(of) \/ AboutToArrange(of))'
  BY <1>1, <1>6, <1>7, <1>8 DEF TemporaryInv
<1> QED
  BY <1>8 DEF TemporaryInv

LEMMA TemporaryCleans ==
  ASSUME GateInv, TemporaryInv, Cleanup \/ CleanupFails \/ CompareSources
  PROVE  TemporaryInv'
<1>0. GateTypes
  BY DEF GateInv
<1>1. frames # << >> /\ leaving /\ Last(frames) # << >> /\ PopDeferred
  BY DEF Cleanup, CleanupFails, CompareSources, Cleaning
<1>2. \A of : ~AboutToArrange(of)
  BY <1>1 DEF AboutToArrange
<1>3. \A of : Arranged(of) /\ Deferred \notin Removals(of) => Arranged(of)'
  BY <1>0, <1>1, ArrangedPopped
<1>4. ASSUME NEW of \in temporaries' PROVE of \in reported' \/ Arranged(of)'
  <2>1. of \in temporaries /\ reported \subseteq reported'
    BY <1>4 DEF Cleanup, CleanupFails, CompareSources
  <2>2. of \in reported \/ Arranged(of)
    BY <1>2, <2>1 DEF TemporaryInv
  <2>3. CASE Deferred \notin Removals(of)
    BY <1>3, <2>1, <2>2, <2>3
  <2>4. CASE Deferred \in Removals(of)
    <3>1. Deferred[1] \in {"join", "warn"} /\ Deferred[2] = of
      BY <2>4 DEF Removals
    <3>2. ~CompareSources
      BY <3>1 DEF CompareSources, Cleaning
    <3>3. ~Cleanup
      BY <1>4, <3>1 DEF Cleanup
    <3>4. CleanupFails
      BY <3>2, <3>3
    <3> QED
      BY <3>1, <3>4 DEF CleanupFails
  <2> QED
    BY <2>3, <2>4
<1> QED
  BY <1>4 DEF TemporaryInv

LEMMA TemporaryNext ==
  ASSUME GateInv, TemporaryInv, [GateNext]_gateVars
  PROVE  TemporaryInv'
<1>0. GateTypes /\ StackInv /\ frames \in Seq(Seq(Arrangements))
  BY DEF GateInv, GateTypes
<1>1. CASE GateFails \/ AllPassed \/ ContextExpires \/ GateDone \/ UNCHANGED gateVars
  <2>1. UNCHANGED <<mode, step, pc, frames, leaving, temporaries, reported>>
    BY <1>1 DEF GateFails, AllPassed, ContextExpires, GateDone, gateVars, stepVars
  <2>2. Script' = Script
    BY <2>1 DEF Script
  <2> QED
    BY <2>1, <2>2 DEF TemporaryInv, Arranged, AboutToArrange
<1>2. CASE BeginStep
  <2>1. frames = << >> /\ UNCHANGED <<temporaries, reported>>
    BY <1>2 DEF BeginStep
  <2>2. \A of : ~Arranged(of) /\ ~AboutToArrange(of)
    BY <2>1 DEF Arranged, AboutToArrange
  <2> QED
    BY <2>1, <2>2 DEF TemporaryInv
<1>3. CASE Succeed
  BY <1>3, TemporarySucceeds
<1>4. CASE FailInstruction
  <2>1. /\ Instruction.op \in Fallible /\ UNCHANGED <<frames, temporaries>>
        /\ reported' = IF Instruction.of = "close" THEN reported \cup {Script[pc - 1].of}
                       ELSE reported
    BY <1>4 DEF FailInstruction
  <2>2. \A of : AboutToArrange(of) => of \in reported'
    BY <2>1, AboutHere DEF Fallible
  <2>3. \A of : Arranged(of) => Arranged(of)'
    BY <2>1 DEF Arranged
  <2>4. ASSUME NEW of \in temporaries' PROVE of \in reported' \/ Arranged(of)'
    BY <2>1, <2>2, <2>3 DEF TemporaryInv
  <2> QED
    BY <2>4 DEF TemporaryInv
<1>5. CASE Defer
  BY <1>5, TemporaryDefers
<1>6. CASE CallFunction
  <2>1. /\ frames # << >> /\ Instruction.op = "call" /\ frames' = Append(frames, << >>)
        /\ UNCHANGED <<temporaries, reported>>
    BY <1>6 DEF CallFunction, InBody
  <2>2. \A of : ~AboutToArrange(of)
    BY <2>1, AboutHere
  <2>3. /\ << >> \in Seq(Arrangements) /\ Len(frames) \in Nat
        /\ Len(frames') = Len(frames) + 1
        /\ \A k \in 1..Len(frames) : frames'[k] = frames[k]
    BY <1>0, <2>1, Pushed, EmptySeq, LenProperties
  <2>4. \A k \in 1..Len(frames) : k \in 1..Len(frames') /\ frames'[k] = frames[k]
    BY <2>3
  <2>5. \A of : Arranged(of) => Arranged(of)'
    BY <2>4 DEF Arranged
  <2>6. ASSUME NEW of \in temporaries' PROVE of \in reported' \/ Arranged(of)'
    BY <2>1, <2>2, <2>5 DEF TemporaryInv
  <2> QED
    BY <2>6 DEF TemporaryInv
<1>7. CASE MayReturn \/ EndOfBody
  <2>1. /\ UNCHANGED <<frames, temporaries, reported>>
        /\ pc <= Len(Script) => Instruction.op \in {"maybe", "return"}
    <3>1. CASE MayReturn
      BY <3>1 DEF MayReturn
    <3>2. CASE EndOfBody
      <4>1. UNCHANGED <<frames, temporaries, reported>>
        BY <3>2 DEF EndOfBody
      <4>2. pc \in Nat /\ Len(Script) \in Nat
        BY <1>0, <3>2, ScriptHere DEF EndOfBody, InBody, GateTypes
      <4>3. pc <= Len(Script) => ~(pc > Len(Script))
        BY <4>2
      <4> QED
        BY <3>2, <4>1, <4>3 DEF EndOfBody
    <3> QED
      BY <1>7, <3>1, <3>2
  <2>2. \A of : ~AboutToArrange(of)
    BY <2>1, AboutHere
  <2>3. \A of : Arranged(of) => Arranged(of)'
    BY <2>1 DEF Arranged
  <2>4. ASSUME NEW of \in temporaries' PROVE of \in reported' \/ Arranged(of)'
    BY <2>1, <2>2, <2>3 DEF TemporaryInv
  <2> QED
    BY <2>4 DEF TemporaryInv
<1>8. CASE Cleanup \/ CleanupFails \/ CompareSources
  BY <1>8, TemporaryCleans
<1>9. CASE LeaveFunction
  <2>1. /\ frames # << >> /\ leaving /\ Last(frames) = << >> /\ frames' = Front(frames)
        /\ UNCHANGED <<temporaries, reported>>
    BY <1>9 DEF LeaveFunction
  <2>2. \A of : ~AboutToArrange(of)
    BY <2>1 DEF AboutToArrange
  <2>3. /\ Last(frames) = frames[Len(frames)] /\ Len(frames) \in Nat \ {0}
        /\ Len(frames') = Len(frames) - 1
        /\ \A k \in 1..(Len(frames) - 1) : frames'[k] = frames[k]
    BY <1>0, <2>1, Stack
  <2>4. ASSUME NEW of, Arranged(of) PROVE Arranged(of)'
    <3>1. PICK k \in 1..Len(frames) : \E j \in 1..Len(frames[k]) :
                 frames[k][j] \in {<<"join", of>>, <<"warn", of>>}
      BY <2>4 DEF Arranged
    <3>2. k # Len(frames)
      BY <2>1, <2>3, <3>1
    <3>3. k \in 1..(Len(frames) - 1) /\ k \in 1..Len(frames')
      BY <2>3, <3>2
    <3>4. frames'[k] = frames[k]
      BY <2>3, <3>3
    <3> QED
      BY <3>1, <3>3, <3>4 DEF Arranged
  <2>5. ASSUME NEW of \in temporaries' PROVE of \in reported' \/ Arranged(of)'
    BY <2>1, <2>2, <2>4 DEF TemporaryInv
  <2> QED
    BY <2>5 DEF TemporaryInv
<1> QED
  BY <1>1, <1>2, <1>3, <1>4, <1>5, <1>6, <1>7, <1>8, <1>9 DEF GateNext, GateStep

-----------------------------------------------------------------------------
(* The theorems *)

LEMMA OthersInit ==
  ASSUME GateInit
  PROVE  NetworkInv /\ BootstrapInv /\ TemporaryInv
<1>1. GateStart
  BY DEF GateInit
<1> QED
  BY <1>1 DEF GateStart, NetworkInv, BootstrapInv, TemporaryInv

(* Types, the stack of functions and the steps passed are kept together. *)
LEMMA GateKept == GateSpec => []GateInv
<1>1. GateInit => GateInv
  BY TypesInit
<1>2. GateInv /\ [GateNext]_gateVars => GateInv'
  BY TypesNext, StackNext, PassNext DEF GateInv
<1> QED
  BY <1>1, <1>2, PTL DEF GateSpec

(* A run passes only when every step of its mode has passed, in order, and *)
(* nothing failed on the way whose error was lost: not behind a deferred   *)
(* cleanup that worked, not in a cleanup that failed, and a bootstrap that *)
(* has passed has left the repository as it was, whichever instructions    *)
(* fail and whenever the context ends (main.go:130-142, 532-541, 792).     *)
THEOREM PassesAreEarned == GateSpec => []PassIsEarned
<1>1. GateInit => BootstrapInv
  BY OthersInit
<1>2. GateInv /\ BootstrapInv /\ [GateNext]_gateVars => BootstrapInv'
  BY BootstrapNext
<1>3. GateInv /\ BootstrapInv => PassIsEarned
  <2> SUFFICES ASSUME GateInv, BootstrapInv, exit = "passed"
               PROVE  /\ passed = Steps(mode) /\ ~fault
                      /\ mode = "tools-bootstrap" => altered = 0
    BY DEF PassIsEarned
  <2>1. frames = << >> /\ ~leaving /\ ~failing /\ ~fault
    BY DEF GateInv, StackInv, Running
  <2>2. mode = "tools-bootstrap" => altered = 0
    BY <2>1 DEF BootstrapInv, Watched
  <2>3. /\ mode \in Modes /\ Len(passed) = Len(Steps(mode))
        /\ \A i \in 1..Len(passed) : passed[i] = Steps(mode)[i]
    BY <2>1 DEF GateInv, PassInv
  <2>4. passed \in Seq(Reportable(mode)) /\ Steps(mode) \in Seq(Reportable(mode))
    BY StepsOfModes DEF GateInv, GateTypes
  <2>5. passed = Steps(mode)
    BY <2>3, <2>4, SeqEqual
  <2> QED
    BY <2>1, <2>2, <2>5
<1> QED
  BY <1>1, <1>2, <1>3, GateKept, PTL DEF GateSpec

(* However a run ends, a temporary file or tree that still exists is one   *)
(* the run has said it could not remove: what a function creates, its own  *)
(* deferred cleanup or that of a caller removes, on every way out of it    *)
(* (main.go:569, 650, 789-792; released_version_skew.go:369).              *)
THEOREM LeftoversAreReported == GateSpec => []NothingIsLeftBehind
<1>1. GateInit => TemporaryInv
  BY OthersInit
<1>2. GateInv /\ TemporaryInv /\ [GateNext]_gateVars => TemporaryInv'
  BY TemporaryNext
<1>3. GateInv /\ TemporaryInv => NothingIsLeftBehind
  <2> SUFFICES ASSUME GateInv, TemporaryInv, ~Running, NEW of \in temporaries
               PROVE  of \in reported
    BY DEF NothingIsLeftBehind
  <2>1. frames = << >>
    BY DEF GateInv, StackInv
  <2>2. ~Arranged(of) /\ ~AboutToArrange(of)
    BY <2>1 DEF Arranged, AboutToArrange
  <2> QED
    BY <2>2 DEF TemporaryInv
<1> QED
  BY <1>1, <1>2, <1>3, GateKept, PTL DEF GateSpec

(* A process is given the network only in the two modes made for it, and   *)
(* after the identity of the repository was found as recorded              *)
(* (main.go:226-228).                                                      *)
THEOREM OfflineKept == GateSpec => []OfflineStaysOffline
<1>1. GateInit => NetworkInv
  BY OthersInit
<1>2. GateInv /\ NetworkInv /\ [GateNext]_gateVars => NetworkInv'
  BY NetworkNext
<1>3. GateInv /\ NetworkInv => OfflineStaysOffline
  <2> SUFFICES ASSUME GateInv, NetworkInv, online
               PROVE  /\ networkAllowed(mode)
                      /\ "identity" \in {passed[i] : i \in DOMAIN passed}
    BY DEF OfflineStaysOffline
  <2>1. networkAllowed(mode) /\ step >= 2 /\ step \in 0..Len(Steps(mode))
    BY DEF NetworkInv, GateInv, GateTypes
  <2>2. /\ passed \in Seq(Reportable(mode)) /\ mode \in Modes \cup {"unknown"}
        /\ step <= Len(passed) + 1
        /\ \A i \in 1..Len(passed) : passed[i] = Steps(mode)[i]
    BY DEF GateInv, GateTypes, PassInv
  <2>3. Len(Steps(mode)) \in Nat /\ (Steps(mode) # << >> => Steps(mode)[1] = "identity")
    BY <2>2, StepsOfModes
  <2>4. Steps(mode) # << >>
    BY <2>1, <2>3
  <2>5. 1 \in 1..Len(passed) /\ DOMAIN passed = 1..Len(passed)
    BY <2>1, <2>2, <2>3
  <2> QED
    BY <2>1, <2>2, <2>3, <2>4, <2>5
<1> QED
  BY <1>1, <1>2, <1>3, GateKept, PTL DEF GateSpec

=============================================================================
