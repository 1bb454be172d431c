-------------------------- MODULE RealRunProofs ---------------------------
(***************************************************************************)
(* Theorems about run_real and the callback, for every set of plays, hosts *)
(* and patterns.                                                           *)
(***************************************************************************)
EXTENDS RealRun, TLAPS

\* The failures of either source, and what they are made of.
Shaped ==
  {Undefined(v, h, t) : v \in Variables, h \in Hosts \cup {Nil}, t \in Tasks \cup {Nil}}
    \cup {Removed(m) : m \in Modules}
    \cup {NoHosts(x) : x \in Patterns}
    \cup {Unreachable(h, t) : h \in Hosts, t \in Tasks \cup {Nil}}
    \cup {TaskFailed(h, t) : h \in Hosts, t \in Tasks}

LEMMA ShapedTypes == Shaped \subseteq Failure
  BY DEF Shaped, Failure, Types, Undefined, Removed, NoHosts, Unreachable,
         TaskFailed

LEMMA ShapesMade ==
  /\ \A v \in Variables, h \in Hosts \cup {Nil}, t \in Tasks \cup {Nil} :
       Undefined(v, h, t) \in Shaped
  /\ \A m \in Modules : Removed(m) \in Shaped
  /\ \A x \in Patterns : NoHosts(x) \in Shaped
  /\ \A h \in Hosts, t \in Tasks \cup {Nil} : Unreachable(h, t) \in Shaped
  /\ \A h \in Hosts, t \in Tasks : TaskFailed(h, t) \in Shaped
<1>1. \A v \in Variables, h \in Hosts \cup {Nil}, t \in Tasks \cup {Nil} :
        Undefined(v, h, t) \in Shaped
  BY DEF Shaped
<1>2. (\A m \in Modules : Removed(m) \in Shaped)
      /\ (\A x \in Patterns : NoHosts(x) \in Shaped)
  BY DEF Shaped
<1>3. \A h \in Hosts, t \in Tasks \cup {Nil} : Unreachable(h, t) \in Shaped
  BY DEF Shaped
<1>4. \A h \in Hosts, t \in Tasks : TaskFailed(h, t) \in Shaped
  BY DEF Shaped
<1> QED
  BY <1>1, <1>2, <1>3, <1>4

LEMMA ScanShaped ==
  ASSUME log \in Logs
  PROVE  Scan \subseteq Shaped
<1>1. /\ log.module \subseteq Modules /\ log.no_hosts \subseteq Patterns
      /\ log.unreachable \subseteq Hosts /\ log.undefined \subseteq Variables
  BY DEF Logs
<1>2. /\ {Removed(m) : m \in log.module} \subseteq Shaped
      /\ {NoHosts(x) : x \in log.no_hosts} \subseteq Shaped
  BY <1>1, ShapesMade
<1>3. {Unreachable(h, Nil) : h \in log.unreachable} \subseteq Shaped
  BY <1>1, ShapesMade
<1>4. {Undefined(v, Nil, Nil) : v \in log.undefined} \subseteq Shaped
  BY <1>1, ShapesMade
<1> QED
  BY <1>2, <1>3, <1>4 DEF Scan

----------------------------------------------------------------------------
\* The merge

\* What is merged comes from one of the sources, and every failure of them is
\* there under its key.
LEMMA MergeKeeps ==
  ASSUME NEW primary, NEW extra
  PROVE  /\ Merge(primary, extra) \subseteq primary \cup extra
         /\ \A f \in primary \cup extra :
              \E g \in Merge(primary, extra) : Key(g) = Key(f)
<1> DEFINE Pick(S, k) == CHOOSE f \in S : Key(f) = k
           known == {Key(f) : f \in primary}
           new == {Key(f) : f \in extra} \ known
<1>1. \A k \in known : Pick(primary, k) \in primary /\ Key(Pick(primary, k)) = k
  OBVIOUS
<1>2. \A k \in new : Pick(extra, k) \in extra /\ Key(Pick(extra, k)) = k
  OBVIOUS
<1>3. Merge(primary, extra) =
        {Pick(primary, k) : k \in known} \cup {Pick(extra, k) : k \in new}
  BY DEF Merge
<1> HIDE DEF Pick
<1>4. Merge(primary, extra) \subseteq primary \cup extra
  BY <1>1, <1>2, <1>3
<1>5. ASSUME NEW f \in primary \cup extra
      PROVE  \E g \in Merge(primary, extra) : Key(g) = Key(f)
  <2>1. Key(f) \in known \/ Key(f) \in new
    OBVIOUS
  <2>2. CASE Key(f) \in known
    <3>1. Pick(primary, Key(f)) \in Merge(primary, extra)
      BY <1>3, <2>2
    <3> QED
      BY <1>1, <2>2, <3>1
  <2>3. CASE Key(f) \in new
    <3>1. Pick(extra, Key(f)) \in Merge(primary, extra)
      BY <1>3, <2>3
    <3> QED
      BY <1>2, <2>3, <3>1
  <2> QED
    BY <2>1, <2>2, <2>3
<1> QED
  BY <1>4, <1>5

\* No key is there twice.
LEMMA MergeOnce ==
  ASSUME NEW primary, NEW extra,
         NEW f \in Merge(primary, extra), NEW g \in Merge(primary, extra),
         Key(f) = Key(g)
  PROVE  f = g
<1> DEFINE Pick(S, k) == CHOOSE x \in S : Key(x) = k
           known == {Key(x) : x \in primary}
           new == {Key(x) : x \in extra} \ known
<1>1. \A k \in known : Key(Pick(primary, k)) = k
  OBVIOUS
<1>2. \A k \in new : Key(Pick(extra, k)) = k
  OBVIOUS
<1>3. Merge(primary, extra) =
        {Pick(primary, k) : k \in known} \cup {Pick(extra, k) : k \in new}
  BY DEF Merge
<1> HIDE DEF Pick
<1>4. \/ Key(f) \in known /\ f = Pick(primary, Key(f))
      \/ Key(f) \in new /\ f = Pick(extra, Key(f))
  BY <1>1, <1>2, <1>3
<1>5. \/ Key(g) \in known /\ g = Pick(primary, Key(g))
      \/ Key(g) \in new /\ g = Pick(extra, Key(g))
  BY <1>1, <1>2, <1>3
<1> QED
  BY <1>4, <1>5

\* The key of _merge_failures tells failures apart as their remedies do.
LEMMA KeyIsAbout ==
  ASSUME NEW f \in Shaped, NEW g \in Shaped
  PROVE  Key(f) = Key(g) <=> About(f) = About(g)
  BY RunAssumption
  DEF RunAssumption, Shaped, Key, About, Undefined, Removed, NoHosts,
      Unreachable, TaskFailed

LEMMA UnclassifiedTyped == Unclassified \in Failure
  BY DEF Unclassified, Failure, Types

----------------------------------------------------------------------------
\* Types

Shapes ==
  /\ recorded \subseteq Shaped
  /\ wrong \subseteq Shaped
  /\ sidecar.holds \subseteq Shaped

\* Opening the sidecar keeps it well typed.
LEMMA FlushTyped ==
  ASSUME TypeOK, Shapes, ~flushing, Flush
  PROVE  /\ sidecar' \in Sidecars /\ sidecar'.holds \subseteq Shaped
         /\ flushing' \in BOOLEAN /\ (flushing' => sidecar' = Cut)
<1>1. Cut \in Sidecars /\ Cut.holds = {}
  BY DEF Cut, Sidecars
<1>2. CASE flushing' = TRUE /\ sidecar' = Cut
  BY <1>1, <1>2
<1>3. CASE UNCHANGED <<flushing, sidecar>>
  BY <1>3 DEF TypeOK, Shapes
<1> QED
  BY <1>2, <1>3 DEF Flush

\* Every variable keeps its type, and both sources report failures of a known
\* shape (_record, extract_failures).
THEOREM Typed == Spec => [](TypeOK /\ Shapes)
<1>1. Init => TypeOK /\ Shapes
  <2> SUFFICES ASSUME Init PROVE TypeOK /\ Shapes
    OBVIOUS
  <2>1. sidecar \in Sidecars /\ sidecar.holds \subseteq Shaped
    <3>1. Absent \in Sidecars /\ Absent.holds = {}
      BY DEF Absent, Sidecars
    <3>2. ASSUME NEW x \in Patterns
          PROVE  /\ Whole({NoHosts(x)}) \in Sidecars
                 /\ Whole({NoHosts(x)}).holds \subseteq Shaped
      <4>1. NoHosts(x) \in Shaped /\ NoHosts(x) \in Failure
        BY ShapesMade, ShapedTypes
      <4> QED
        BY <4>1 DEF Whole, Sidecars
    <3> QED
      BY <3>1, <3>2 DEF Init
  <2>2. log \in Logs
    BY DEF Init, Silence, Logs
  <2> QED
    BY <2>1, <2>2 DEF Init, TypeOK, Shapes
<1>2. TypeOK /\ Shapes /\ [Next]_vars => (TypeOK /\ Shapes)'
  <2> SUFFICES ASSUME TypeOK, Shapes, [Next]_vars
               PROVE  (TypeOK /\ Shapes)'
    OBVIOUS
  <2> USE DEF process, callback
  <2>a. Cut \in Sidecars /\ Cut.holds = {} /\ Absent \in Sidecars /\ Absent.holds = {}
    BY DEF Cut, Absent, Sidecars
  <2>b. /\ Whole(recorded) \in Sidecars
        /\ Whole(recorded).holds \subseteq Shaped
    BY DEF TypeOK, Shapes, Whole, Sidecars
  <2>1. CASE Start
    BY <2>1, <2>a DEF Start, TypeOK, Shapes
  <2>2. ASSUME NEW n \in Modules, ParseError(n) PROVE (TypeOK /\ Shapes)'
    <3>1. Removed(n) \in Shaped
      BY ShapesMade
    <3>2. log' \in Logs
      BY <2>2 DEF ParseError, TypeOK, Logs
    <3> QED
      BY <2>2, <3>1, <3>2, ShapedTypes DEF ParseError, Free, TypeOK, Shapes
  <2>3. ASSUME NEW p \in left, BeginPlay(p) PROVE (TypeOK /\ Shapes)'
    <3>1. p \in Plays /\ Asks[p] \subseteq Patterns
      BY RunAssumption DEF RunAssumption, TypeOK
    <3>2. log' \in Logs
      BY <2>3, <3>1 DEF BeginPlay, TypeOK, Logs
    <3>3. queue' \subseteq Patterns /\ running' \in BOOLEAN
      BY <2>3, <3>1 DEF BeginPlay, Skipped
    <3> QED
      BY <2>3, <3>2, <3>3 DEF BeginPlay, Free, TypeOK, Shapes
  <2>4. ASSUME NEW x \in queue, NoHostsMatched(x) PROVE (TypeOK /\ Shapes)'
    <3>1. x \in Patterns
      BY DEF TypeOK
    <3>2. NoHosts(x) \in Shaped
      BY <3>1, ShapesMade
    <3>3. ~flushing /\ Flush
      BY <2>4 DEF NoHostsMatched, Record
    <3>4. recorded' = recorded \cup {NoHosts(x)}
      BY <2>4 DEF NoHostsMatched, Record
    <3> QED
      BY <2>4, <3>2, <3>3, <3>4, FlushTyped, ShapedTypes
      DEF NoHostsMatched, TypeOK, Shapes
  <2>5. ASSUME NEW h \in Hosts, NEW t \in Tasks, NEW v \in Variables \cup {Nil},
               NEW way, Fail(h, t, v, way)
        PROVE  (TypeOK /\ Shapes)'
    <3> DEFINE failure == IF v = Nil THEN TaskFailed(h, t) ELSE Undefined(v, h, t)
    <3>1. failure \in Shaped
      BY ShapesMade
    <3>2. log' \in Logs
      BY <2>5 DEF Fail, TypeOK, Logs
    <3>3. UNCHANGED callback \/ Record(failure)
      BY <2>5 DEF Fail
    <3>4. \/ UNCHANGED <<lost, nonzero, wrong>>
          \/ /\ lost' = lost \cup {h} /\ nonzero' = TRUE
             /\ wrong' = wrong \cup {failure}
      BY <2>5 DEF Fail
    <3>5. /\ pc = "plays" /\ ~flushing
          /\ UNCHANGED <<pc, left, running, queue, result>>
      BY <2>5 DEF Fail, Free
    <3> HIDE DEF failure
    <3>6. /\ recorded' \subseteq Shaped
          /\ sidecar' \in Sidecars /\ sidecar'.holds \subseteq Shaped
          /\ flushing' \in BOOLEAN /\ (flushing' => sidecar' = Cut)
      <4>1. CASE UNCHANGED callback
        BY <3>5, <4>1 DEF TypeOK, Shapes
      <4>2. CASE Record(failure)
        <5>1. Flush /\ recorded' = recorded \cup {failure}
          BY <4>2 DEF Record
        <5> QED
          BY <3>1, <3>5, <5>1, FlushTyped DEF Shapes
      <4> QED
        BY <3>3, <4>1, <4>2
    <3>7. wrong' \subseteq Shaped /\ lost' \subseteq Hosts /\ nonzero' \in BOOLEAN
      <4>1. CASE UNCHANGED <<lost, nonzero, wrong>>
        BY <4>1 DEF TypeOK, Shapes
      <4>2. CASE /\ lost' = lost \cup {h} /\ nonzero' = TRUE
                 /\ wrong' = wrong \cup {failure}
        BY <3>1, <4>2 DEF TypeOK, Shapes
      <4> QED
        BY <3>4, <4>1, <4>2
    <3> QED
      BY <3>2, <3>5, <3>6, <3>7, ShapedTypes DEF TypeOK, Shapes
  <2>6. ASSUME NEW h \in Hosts, NEW t \in Tasks, Lose(h, t)
        PROVE  (TypeOK /\ Shapes)'
    <3>1. Unreachable(h, t) \in Shaped
      BY ShapesMade
    <3>2. log' \in Logs
      BY <2>6 DEF Lose, TypeOK, Logs
    <3>3. ~flushing /\ Flush /\ recorded' = recorded \cup {Unreachable(h, t)}
      BY <2>6 DEF Lose, Free, Record
    <3> QED
      BY <2>6, <3>1, <3>2, <3>3, FlushTyped, ShapedTypes
      DEF Lose, Free, TypeOK, Shapes
  <2>7. CASE Ok
    BY <2>7, FlushTyped DEF Ok, Free, TypeOK, Shapes
  <2>8. CASE Write
    BY <2>8, <2>a, <2>b DEF Write, TypeOK, Shapes
  <2>9. CASE Stats
    BY <2>9, FlushTyped DEF Stats, Free, TypeOK, Shapes
  <2>10. CASE Exit
    BY <2>10 DEF Exit, TypeOK, Shapes
  <2>11. CASE Die
    BY <2>11 DEF Die, TypeOK, Shapes
  <2>12. CASE Collect
    <3> DEFINE failures == Merge(ReadSidecar, TextFailures)
    <3>1. failures \subseteq Failure
      <4>1. TextFailures \subseteq Scan /\ ReadSidecar \subseteq Shaped
        BY DEF TextFailures, ReadSidecar, Shapes
      <4>2. Scan \subseteq Shaped
        BY ScanShaped DEF TypeOK
      <4>3. failures \subseteq ReadSidecar \cup TextFailures
        BY MergeKeeps
      <4> HIDE DEF failures
      <4> QED
        BY <4>1, <4>2, <4>3, ShapedTypes
    <3>2. /\ pc = "exited" /\ pc' = "done"
          /\ result' = [red |-> nonzero \/ failures # {},
                        failures |-> failures
                          \cup {f \in {Unclassified} : nonzero /\ failures = {}}]
          /\ UNCHANGED <<left, running, queue, lost, wrong, log, nonzero, callback>>
      BY <2>12 DEF Collect
    <3> HIDE DEF failures
    <3>3. result' \in [red : BOOLEAN, failures : SUBSET Failure]
      BY <3>1, <3>2, UnclassifiedTyped DEF TypeOK
    <3> QED
      BY <3>2, <3>3 DEF TypeOK, Shapes
  <2>13. CASE UNCHANGED vars
    BY <2>13 DEF vars, TypeOK, Shapes
  <2> QED
    BY <2>1, <2>2, <2>3, <2>4, <2>5, <2>6, <2>7, <2>8, <2>9, <2>10, <2>11,
       <2>12, <2>13
    DEF Next, Ansible, Done
<1> QED
  BY <1>1, <1>2, PTL DEF Spec

----------------------------------------------------------------------------
\* The result

LEMMA SourcesShaped ==
  ASSUME TypeOK, Shapes
  PROVE  /\ ReadSidecar \cup TextFailures \subseteq Shaped
         /\ Merge(ReadSidecar, TextFailures) \subseteq Shaped
<1>1. TextFailures \subseteq Scan /\ ReadSidecar \subseteq Shaped
  BY DEF TextFailures, ReadSidecar, Shapes
<1>2. Scan \subseteq Shaped
  BY ScanShaped DEF TypeOK
<1>3. Merge(ReadSidecar, TextFailures) \subseteq ReadSidecar \cup TextFailures
  BY MergeKeeps
<1> QED
  BY <1>1, <1>2, <1>3

\* Only run_real's last step makes a result.
LEMMA ResultSteps ==
  ASSUME TypeOK, [Next]_vars
  PROVE  \/ Collect
         \/ UNCHANGED result /\ (pc' = "done" => pc = "done" /\ UNCHANGED vars)
<1> DEFINE Quiet == UNCHANGED result /\ (pc' = "done" => pc = "done" /\ UNCHANGED vars)
<1>1. ASSUME Ansible PROVE Quiet
  <2> USE DEF process, callback
  <2>1. ASSUME NEW n \in Modules, ParseError(n) PROVE Quiet
    BY <2>1 DEF ParseError
  <2>2. ASSUME NEW p \in left, BeginPlay(p) PROVE Quiet
    BY <2>2 DEF BeginPlay, Free
  <2>3. ASSUME NEW x \in queue, NoHostsMatched(x) PROVE Quiet
    BY <2>3 DEF NoHostsMatched
  <2>4. ASSUME NEW h \in Hosts, NEW t \in Tasks, NEW v \in Variables \cup {Nil},
               NEW way, Fail(h, t, v, way)
        PROVE  Quiet
    <3>1. pc = "plays" /\ UNCHANGED <<pc, result>>
      BY <2>4 DEF Fail, Free
    <3> QED
      BY <3>1
  <2>5. ASSUME NEW h \in Hosts, NEW t \in Tasks, Lose(h, t) PROVE Quiet
    BY <2>5 DEF Lose, Free
  <2>6. CASE Start \/ Stats \/ Exit \/ Die
    BY <2>6 DEF Start, Stats, Exit, Die
  <2>7. CASE Ok
    BY <2>7 DEF Ok, Free
  <2>8. CASE Write
    <3>1. UNCHANGED <<pc, result>>
      BY <2>8 DEF Write
    <3>2. flushing /\ flushing' = FALSE
      BY <2>8 DEF Write
    <3> QED
      BY <3>1, <3>2 DEF TypeOK
  <2> QED
    BY <1>1, <2>1, <2>2, <2>3, <2>4, <2>5, <2>6, <2>7, <2>8 DEF Ansible
<1>2. ASSUME Done \/ UNCHANGED vars PROVE Quiet
  BY <1>2 DEF Done, vars, process
<1> HIDE DEF Quiet
<1>3. Collect \/ Quiet
  <2>1. CASE Next
    BY <1>1, <1>2, <2>1 DEF Next
  <2>2. CASE UNCHANGED vars
    BY <1>2, <2>2
  <2> QED
    BY <2>1, <2>2
<1> QED
  BY <1>3 DEF Quiet

\* Two failures of a result are never about the same thing: whatever the
\* callback recorded and the scan found again is reported once
\* (_merge_failures).
THEOREM MergedOnce == Spec => []OneProposalPerFix
<1>1. Init => OneProposalPerFix
  BY DEF Init, OneProposalPerFix
<1>2. TypeOK /\ Shapes /\ OneProposalPerFix /\ [Next]_vars => OneProposalPerFix'
  <2> SUFFICES ASSUME TypeOK, Shapes, OneProposalPerFix, [Next]_vars
               PROVE  OneProposalPerFix'
    OBVIOUS
  <2>1. CASE UNCHANGED result
    BY <2>1 DEF OneProposalPerFix, About
  <2>2. CASE Collect
    <3> DEFINE failures == Merge(ReadSidecar, TextFailures)
    <3>1. \A f, g \in failures : About(f) = About(g) => f = g
      BY MergeOnce, KeyIsAbout, SourcesShaped
    <3>2. result'.failures =
            failures \cup {f \in {Unclassified} : nonzero /\ failures = {}}
      BY <2>2 DEF Collect
    <3> HIDE DEF failures
    <3> QED
      BY <3>1, <3>2 DEF OneProposalPerFix
  <2> QED
    BY <2>1, <2>2, ResultSteps
<1> QED
  BY <1>1, <1>2, Typed, PTL DEF Spec

\* The color of a run and its failures always agree, so a red run has
\* something to heal and a green one nothing (run_real, runner.py:1177-1190).
THEOREM ColorTold == Spec => []RedIffFailures
<1>1. Init => RedIffFailures
  BY DEF Init, RedIffFailures
<1>2. TypeOK /\ RedIffFailures /\ [Next]_vars => RedIffFailures'
  <2> SUFFICES ASSUME TypeOK, RedIffFailures, [Next]_vars
               PROVE  RedIffFailures'
    OBVIOUS
  <2>1. CASE UNCHANGED result /\ (pc' = "done" => pc = "done" /\ UNCHANGED vars)
    BY <2>1 DEF RedIffFailures
  <2>2. CASE Collect
    <3> DEFINE failures == Merge(ReadSidecar, TextFailures)
    <3>1. result' = [red |-> nonzero \/ failures # {},
                     failures |-> failures
                       \cup {f \in {Unclassified} : nonzero /\ failures = {}}]
      BY <2>2 DEF Collect
    <3> HIDE DEF failures
    <3> QED
      BY <3>1 DEF RedIffFailures
  <2> QED
    BY <2>1, <2>2, ResultSteps
<1> QED
  BY <1>1, <1>2, Typed, PTL DEF Spec

----------------------------------------------------------------------------
\* Skipped plays

\* Some play that has begun matched nothing, and asked for x.
Gone(x) == \E p \in Plays \ left : Skipped(p) /\ x \in Asks[p]

Real(f) == f.type = "no_hosts_matched" => Gone(f.name)

\* Whatever the callback has recorded, or is about to, is of a skipped play.
SkipsKnown ==
  /\ \A f \in recorded : Real(f)
  /\ \A x \in queue : Gone(x)
  /\ pc # "start" => \A f \in sidecar.holds : Real(f)

LEMMA OtherTypes ==
  /\ \A v, h, t : Undefined(v, h, t).type # "no_hosts_matched"
  /\ \A h, t : /\ Unreachable(h, t).type # "no_hosts_matched"
               /\ TaskFailed(h, t).type # "no_hosts_matched"
  /\ \A x : NoHosts(x).name = x
  /\ Unclassified.type # "no_hosts_matched"
  BY DEF Undefined, Unreachable, TaskFailed, NoHosts, Unclassified

LEMMA RealKept ==
  ASSUME left' \subseteq left
  PROVE  /\ \A f : Real(f) => Real(f)'
         /\ \A x : Gone(x) => Gone(x)'
<1>1. \A x : Gone(x) => Gone(x)'
  BY DEF Gone, Skipped
<1> QED
  BY <1>1 DEF Real

\* An event of the callback that adds what is real keeps everything real.
LEMMA RecordReal ==
  ASSUME SkipsKnown, pc = "plays", pc' = pc, left' = left, queue' \subseteq queue,
         NEW f, Real(f), Record(f)
  PROVE  SkipsKnown'
<1>1. /\ \A g : Real(g) => Real(g)'
      /\ \A x : Gone(x) => Gone(x)'
  BY RealKept
<1>2. \A g \in recorded' : Real(g)'
  BY <1>1 DEF Record, SkipsKnown
<1>3. sidecar' = Cut \/ sidecar' = sidecar
  BY DEF Record, Flush
<1>4. \A g \in sidecar'.holds : Real(g)'
  BY <1>1, <1>3 DEF SkipsKnown, Cut
<1> QED
  BY <1>1, <1>2, <1>4 DEF SkipsKnown

\* When there is a sidecar, a pattern is reported only if a play of this run
\* asked for it and matched nothing, whatever the process warned of
\* (run_real, runner.py:1151-1166).
THEOREM OnlySkippedPlays == Spec => []SkipsAreReal
<1>1. Init => SkipsKnown /\ SkipsAreReal
  BY DEF Init, SkipsKnown, SkipsAreReal
<1>2. TypeOK /\ Shapes /\ SkipsKnown /\ SkipsAreReal /\ [Next]_vars
        => (SkipsKnown /\ SkipsAreReal)'
  <2> SUFFICES ASSUME TypeOK, Shapes, SkipsKnown, SkipsAreReal, [Next]_vars
               PROVE  (SkipsKnown /\ SkipsAreReal)'
    OBVIOUS
  <2>1. SkipsKnown'
    <3> USE DEF process, callback
    <3>0. ASSUME UNCHANGED <<recorded, sidecar>>, left' \subseteq left,
                 queue' \subseteq queue, pc # "start"
          PROVE  SkipsKnown'
      BY <3>0, RealKept DEF SkipsKnown
    <3>1. CASE Start
      BY <3>1, RealKept DEF Start, SkipsKnown, Absent
    <3>2. ASSUME NEW n \in Modules, ParseError(n) PROVE SkipsKnown'
      BY <3>0, <3>2 DEF ParseError, Free
    <3>3. ASSUME NEW p \in left, BeginPlay(p) PROVE SkipsKnown'
      <4>1. /\ left' = left \ {p} /\ pc = "plays" /\ pc' = pc
            /\ UNCHANGED <<recorded, sidecar>>
            /\ queue' = {x \in Asks[p] : Skipped(p)}
        BY <3>3 DEF BeginPlay, Free
      <4>2. \A x \in queue' : Gone(x)'
        BY <4>1 DEF Gone, Skipped, TypeOK
      <4> QED
        BY <4>1, <4>2, RealKept DEF SkipsKnown
    <3>4. ASSUME NEW x \in queue, NoHostsMatched(x) PROVE SkipsKnown'
      <4>1. Real(NoHosts(x))
        BY OtherTypes DEF SkipsKnown, Real
      <4>2. /\ pc = "plays" /\ UNCHANGED <<pc, left>>
            /\ queue' \subseteq queue /\ Record(NoHosts(x))
        BY <3>4 DEF NoHostsMatched
      <4> QED
        BY <4>1, <4>2, RecordReal
    <3>5. ASSUME NEW h \in Hosts, NEW t \in Tasks, NEW v \in Variables \cup {Nil},
                 NEW way, Fail(h, t, v, way)
          PROVE  SkipsKnown'
      <4> DEFINE failure == IF v = Nil THEN TaskFailed(h, t)
                                       ELSE Undefined(v, h, t)
      <4>1. Real(failure)
        BY OtherTypes DEF Real
      <4>2. pc = "plays" /\ UNCHANGED <<pc, left, queue>>
        BY <3>5 DEF Fail, Free
      <4>3. UNCHANGED callback \/ Record(failure)
        BY <3>5 DEF Fail
      <4> HIDE DEF failure
      <4> QED
        BY <3>0, <4>1, <4>2, <4>3, RecordReal
    <3>6. ASSUME NEW h \in Hosts, NEW t \in Tasks, Lose(h, t) PROVE SkipsKnown'
      <4>1. Real(Unreachable(h, t))
        BY OtherTypes DEF Real
      <4> QED
        BY <3>6, <4>1, RecordReal DEF Lose, Free
    <3>7. CASE Ok \/ Stats
      <4>1. /\ pc = "plays" /\ UNCHANGED <<left, queue, recorded>>
            /\ sidecar' = Cut \/ sidecar' = sidecar
        BY <3>7 DEF Ok, Stats, Free, Flush
      <4> QED
        BY <4>1, RealKept DEF SkipsKnown, Cut
    <3>8. CASE Write
      <4>1. /\ pc # "start" /\ UNCHANGED <<left, queue, recorded>>
            /\ sidecar' = Cut \/ sidecar' = Whole(recorded)
        BY <3>8 DEF Write, TypeOK
      <4> QED
        BY <4>1, RealKept DEF SkipsKnown, Cut, Whole
    <3>9. CASE Exit \/ Die
      BY <3>0, <3>9 DEF Exit, Die
    <3>10. CASE Collect
      BY <3>0, <3>10 DEF Collect
    <3>11. CASE UNCHANGED vars
      BY <3>11, RealKept DEF vars, SkipsKnown
    <3> QED
      BY <3>1, <3>2, <3>3, <3>4, <3>5, <3>6, <3>7, <3>8, <3>9, <3>10, <3>11
      DEF Next, Ansible, Done
  <2>2. SkipsAreReal'
    <3>1. CASE UNCHANGED result /\ (pc' = "done" => pc = "done" /\ UNCHANGED vars)
      BY <3>1 DEF SkipsAreReal, Skipped, vars, process, callback
    <3>2. CASE Collect
      <4> DEFINE failures == Merge(ReadSidecar, TextFailures)
      <4>1. /\ pc = "exited" /\ UNCHANGED <<left, sidecar>>
            /\ result'.failures =
                 failures \cup {f \in {Unclassified} : nonzero /\ failures = {}}
        BY <3>2 DEF Collect, callback
      <4>2. ASSUME sidecar.is # "absent", NEW f \in failures,
                   f.type = "no_hosts_matched"
            PROVE  Gone(f.name)
        <5>1. f \in ReadSidecar \cup TextFailures
          BY MergeKeeps
        <5>2. f \in ReadSidecar
          BY <4>2, <5>1 DEF TextFailures
        <5>3. f \in sidecar.holds
          BY <5>2 DEF ReadSidecar
        <5> QED
          BY <4>1, <4>2, <5>3 DEF SkipsKnown, Real
      <4> HIDE DEF failures
      <4>3. ASSUME sidecar.is # "absent", NEW f \in result'.failures,
                   f.type = "no_hosts_matched"
            PROVE  Gone(f.name)
        BY <4>1, <4>2, <4>3, OtherTypes
      <4> QED
        BY <4>1, <4>3 DEF SkipsAreReal, Gone, Skipped
    <3> QED
      BY <3>1, <3>2, ResultSteps
  <2> QED
    BY <2>1, <2>2
<1> QED
  BY <1>1, <1>2, Typed, PTL DEF Spec

----------------------------------------------------------------------------
\* What the callback saw, when the sidecar can be written

\* Between two writes the sidecar holds all the callback recorded, or nothing
\* was recorded yet.
UpToDate == sidecar = Whole(recorded) \/ (sidecar.is = "absent" /\ recorded = {})

InStep ==
  /\ pc = "start" => left = Plays /\ recorded = {} /\ ~flushing
  /\ pc = "plays" /\ ~flushing => UpToDate
  /\ pc = "stats" /\ ~flushing => sidecar = Whole(recorded)
  /\ pc = "exited" /\ ~nonzero => sidecar = Whole(recorded)

\* The patterns of a skipped play are recorded or about to be, or else the
\* process has died.
Told ==
  \A p \in Plays \ left : Skipped(p) =>
    nonzero \/ \A x \in Asks[p] : NoHosts(x) \in recorded \/ x \in queue

LEMMA InStepKept ==
  ASSUME ~WritesFail, TypeOK, InStep, [Next]_vars
  PROVE  InStep'
<1> USE DEF process, callback
<1>0. ASSUME Flush PROVE flushing' = TRUE
  BY <1>0 DEF Flush
<1>1. CASE Start
  BY <1>1 DEF Start, InStep, UpToDate, Absent
<1>2. ASSUME NEW n \in Modules, ParseError(n) PROVE InStep'
  BY <1>2 DEF ParseError, InStep
<1>3. ASSUME NEW p \in left, BeginPlay(p) PROVE InStep'
  BY <1>3 DEF BeginPlay, Free, InStep, UpToDate
<1>4. ASSUME NEW x \in queue, NoHostsMatched(x) PROVE InStep'
  BY <1>0, <1>4 DEF NoHostsMatched, Record, InStep
<1>5. ASSUME NEW h \in Hosts, NEW t \in Tasks, NEW v \in Variables \cup {Nil},
             NEW way, Fail(h, t, v, way)
      PROVE  InStep'
  <2> DEFINE failure == IF v = Nil THEN TaskFailed(h, t) ELSE Undefined(v, h, t)
  <2>1. /\ pc = "plays" /\ ~flushing /\ pc' = pc
        /\ UNCHANGED callback \/ Record(failure)
    BY <1>5 DEF Fail, Free
  <2> HIDE DEF failure
  <2> QED
    BY <1>0, <2>1 DEF Record, InStep, UpToDate
<1>6. ASSUME NEW h \in Hosts, NEW t \in Tasks, Lose(h, t) PROVE InStep'
  BY <1>0, <1>6 DEF Lose, Free, Record, InStep
<1>7. CASE Ok
  BY <1>0, <1>7 DEF Ok, Free, InStep
<1>8. CASE Write
  <2>1. /\ sidecar' = Whole(recorded) /\ UNCHANGED <<pc, recorded>>
        /\ pc \in {"plays", "stats"}
    BY <1>8 DEF Write, TypeOK
  <2> QED
    BY <2>1 DEF InStep, UpToDate
<1>9. CASE Stats
  BY <1>0, <1>9 DEF Stats, InStep
<1>10. CASE Exit
  BY <1>10 DEF Exit, InStep
<1>11. CASE Die
  BY <1>11 DEF Die, InStep
<1>12. CASE Collect
  BY <1>12 DEF Collect, InStep
<1>13. CASE UNCHANGED vars
  BY <1>13 DEF vars, InStep, UpToDate
<1> QED
  BY <1>1, <1>2, <1>3, <1>4, <1>5, <1>6, <1>7, <1>8, <1>9, <1>10, <1>11,
     <1>12, <1>13
  DEF Next, Ansible, Done

LEMMA ToldKept ==
  ASSUME TypeOK, Told, [Next]_vars
  PROVE  Told'
<1> USE DEF process, callback
<1>0. ASSUME left' = left, queue' = queue, recorded \subseteq recorded',
             nonzero => nonzero'
      PROVE  Told'
  BY <1>0 DEF Told, Skipped
<1>1. CASE Start
  BY <1>0, <1>1 DEF Start
<1>2. ASSUME NEW n \in Modules, ParseError(n) PROVE Told'
  BY <1>2 DEF ParseError, Told
<1>3. ASSUME NEW p \in left, BeginPlay(p) PROVE Told'
  <2>1. /\ left' = left \ {p} /\ queue = {} /\ UNCHANGED <<recorded, nonzero>>
        /\ queue' = {x \in Asks[p] : Skipped(p)}
    BY <1>3 DEF BeginPlay, Free
  <2> QED
    BY <2>1 DEF Told, Skipped
<1>4. ASSUME NEW x \in queue, NoHostsMatched(x) PROVE Told'
  <2>1. /\ queue' = queue \ {x} /\ recorded' = recorded \cup {NoHosts(x)}
        /\ UNCHANGED <<left, nonzero>>
    BY <1>4 DEF NoHostsMatched, Record
  <2> QED
    BY <2>1 DEF Told, Skipped
<1>5. ASSUME NEW h \in Hosts, NEW t \in Tasks, NEW v \in Variables \cup {Nil},
             NEW way, Fail(h, t, v, way)
      PROVE  Told'
  <2> DEFINE failure == IF v = Nil THEN TaskFailed(h, t) ELSE Undefined(v, h, t)
  <2>1. /\ UNCHANGED <<left, queue>>
        /\ UNCHANGED callback \/ Record(failure)
    BY <1>5 DEF Fail
  <2>2. nonzero' = TRUE \/ nonzero' = nonzero
    BY <1>5 DEF Fail
  <2> HIDE DEF failure
  <2> QED
    BY <1>0, <2>1, <2>2 DEF Record
<1>6. ASSUME NEW h \in Hosts, NEW t \in Tasks, Lose(h, t) PROVE Told'
  BY <1>6 DEF Lose, Told
<1>7. CASE Ok \/ Write \/ Stats \/ Exit \/ Collect
  BY <1>0, <1>7 DEF Ok, Write, Stats, Exit, Collect
<1>8. CASE Die
  BY <1>8 DEF Die, Told
<1>9. CASE UNCHANGED vars
  BY <1>0, <1>9 DEF vars
<1> QED
  BY <1>1, <1>2, <1>3, <1>4, <1>5, <1>6, <1>7, <1>8, <1>9
  DEF Next, Ansible, Done

\* A play that was begun and matched no host makes the run red, as long as
\* the sidecar can be written (run_real, runner.py:1177-1180).
THEOREM SkippedPlayTold ==
  ASSUME ~WritesFail
  PROVE  Spec => []SkippedPlayIsRed
<1>1. Init => InStep /\ Told /\ SkippedPlayIsRed
  BY DEF Init, InStep, Told, SkippedPlayIsRed
<1>2. TypeOK /\ Shapes /\ InStep /\ Told /\ SkippedPlayIsRed /\ [Next]_vars
        => (InStep /\ Told /\ SkippedPlayIsRed)'
  <2> SUFFICES ASSUME TypeOK, Shapes, InStep, Told, SkippedPlayIsRed,
                      [Next]_vars
               PROVE  (InStep /\ Told /\ SkippedPlayIsRed)'
    OBVIOUS
  <2>1. InStep' /\ Told'
    BY InStepKept, ToldKept
  <2>2. SkippedPlayIsRed'
    <3>1. CASE UNCHANGED result /\ (pc' = "done" => pc = "done" /\ UNCHANGED vars)
      BY <3>1 DEF SkippedPlayIsRed, Skipped, vars, process
    <3>2. CASE Collect
      <4>1. /\ pc = "exited" /\ left' = left
            /\ result'.red = (nonzero \/ Merge(ReadSidecar, TextFailures) # {})
        BY <3>2 DEF Collect
      <4>2. ASSUME NEW p \in Plays \ left, Skipped(p), ~nonzero
            PROVE  Merge(ReadSidecar, TextFailures) # {}
        <5>1. PICK x \in Asks[p] : TRUE
          BY RunAssumption DEF RunAssumption
        <5>2. NoHosts(x) \in recorded
          BY <4>1, <4>2, <5>1 DEF Told, TypeOK
        <5>3. sidecar = Whole(recorded)
          BY <4>1, <4>2 DEF InStep
        <5>4. NoHosts(x) \in ReadSidecar
          BY <5>2, <5>3 DEF ReadSidecar, Whole
        <5> QED
          BY <5>4, MergeKeeps
      <4> QED
        BY <4>1, <4>2 DEF SkippedPlayIsRed, Skipped
    <3> QED
      BY <3>1, <3>2, ResultSteps
  <2> QED
    BY <2>1, <2>2
<1> QED
  BY <1>1, <1>2, Typed, PTL DEF Spec

----------------------------------------------------------------------------
\* What went wrong, when the process does not die while it writes

Kept ==
  /\ pc = "exited" => UpToDate
  /\ \A w \in wrong : w \in recorded \/ \E m \in log.module : w = Removed(m)

LEMMA KeptKept ==
  ASSUME ~WritesFail, ~CutShort, TypeOK, InStep, Kept, [Next]_vars
  PROVE  Kept'
<1> USE DEF process, callback
<1>0. ASSUME UNCHANGED <<wrong, log>>, recorded \subseteq recorded', pc' # "exited"
      PROVE  Kept'
  BY <1>0 DEF Kept
<1>1. CASE Start
  BY <1>0, <1>1 DEF Start
<1>2. ASSUME NEW n \in Modules, ParseError(n) PROVE Kept'
  <2>1. /\ UpToDate /\ UNCHANGED <<recorded, sidecar>>
        /\ wrong' = wrong \cup {Removed(n)}
        /\ log'.module = log.module \cup {n}
    BY <1>2 DEF ParseError, Free, InStep, TypeOK, Logs
  <2> QED
    BY <2>1 DEF Kept, UpToDate
<1>3. ASSUME NEW p \in left, BeginPlay(p) PROVE Kept'
  <2>1. /\ UNCHANGED <<recorded, wrong>> /\ log'.module = log.module
        /\ pc' # "exited"
    BY <1>3 DEF BeginPlay, Free, TypeOK, Logs
  <2> QED
    BY <2>1 DEF Kept
<1>4. ASSUME NEW x \in queue, NoHostsMatched(x) PROVE Kept'
  BY <1>0, <1>4 DEF NoHostsMatched, Record
<1>5. ASSUME NEW h \in Hosts, NEW t \in Tasks, NEW v \in Variables \cup {Nil},
             NEW way, Fail(h, t, v, way)
      PROVE  Kept'
  <2> DEFINE failure == IF v = Nil THEN TaskFailed(h, t) ELSE Undefined(v, h, t)
  <2>1. pc' # "exited" /\ log'.module = log.module
    BY <1>5 DEF Fail, Free, TypeOK, Logs
  <2>2. /\ IF way = "ignored" THEN UNCHANGED callback ELSE Record(failure)
        /\ IF way = "fatal" THEN wrong' = wrong \cup {failure}
                            ELSE wrong' = wrong
    BY <1>5 DEF Fail
  <2> HIDE DEF failure
  <2>3. /\ recorded' = recorded \/ recorded' = recorded \cup {failure}
        /\ \/ wrong' = wrong
           \/ /\ wrong' = wrong \cup {failure}
              /\ recorded' = recorded \cup {failure}
    BY <2>2 DEF Record
  <2> QED
    BY <2>1, <2>3 DEF Kept
<1>6. ASSUME NEW h \in Hosts, NEW t \in Tasks, Lose(h, t) PROVE Kept'
  <2>1. /\ pc' # "exited" /\ log'.module = log.module
        /\ recorded' = recorded \cup {Unreachable(h, t)}
        /\ wrong' = wrong \cup {Unreachable(h, t)}
    BY <1>6 DEF Lose, Free, Record, TypeOK, Logs
  <2> QED
    BY <2>1 DEF Kept
<1>7. CASE Ok \/ Stats \/ Collect
  BY <1>0, <1>7 DEF Ok, Free, Stats, Collect
<1>8. CASE Write
  BY <1>0, <1>8 DEF Write, TypeOK
<1>9. CASE Exit \/ Die
  <2>1. ~flushing /\ pc \in {"plays", "stats"}
    BY <1>9 DEF Exit, Die
  <2>2. UpToDate
    BY <2>1 DEF InStep, UpToDate
  <2>3. UNCHANGED <<recorded, sidecar, wrong, log>>
    BY <1>9 DEF Exit, Die
  <2> QED
    BY <2>2, <2>3 DEF Kept, UpToDate
<1>10. CASE UNCHANGED vars
  BY <1>10 DEF vars, Kept, UpToDate
<1> QED
  BY <1>1, <1>2, <1>3, <1>4, <1>5, <1>6, <1>7, <1>8, <1>9, <1>10
  DEF Next, Ansible, Done

\* Whatever went wrong in the run is in its result, from the sidecar or from
\* the log, when writing the sidecar neither fails nor is cut short (_flush,
\* run_real and _merge_failures together).
THEOREM AllReported ==
  ASSUME ~WritesFail, ~CutShort
  PROVE  Spec => []NothingLost
<1>1. Init => InStep /\ Kept /\ NothingLost
  BY DEF Init, InStep, Kept, NothingLost
<1>2. TypeOK /\ Shapes /\ InStep /\ Kept /\ NothingLost /\ [Next]_vars
        => (InStep /\ Kept /\ NothingLost)'
  <2> SUFFICES ASSUME TypeOK, Shapes, InStep, Kept, NothingLost, [Next]_vars
               PROVE  (InStep /\ Kept /\ NothingLost)'
    OBVIOUS
  <2>1. InStep' /\ Kept'
    BY InStepKept, KeptKept
  <2>2. NothingLost'
    <3>1. CASE UNCHANGED result /\ (pc' = "done" => pc = "done" /\ UNCHANGED vars)
      BY <3>1 DEF NothingLost, vars, process
    <3>2. CASE Collect
      <4> DEFINE failures == Merge(ReadSidecar, TextFailures)
      <4>1. pc = "exited" /\ wrong' = wrong /\ failures \subseteq result'.failures
        BY <3>2 DEF Collect
      <4>2. ASSUME NEW w \in wrong
            PROVE  \E f \in failures : About(f) = About(w)
        <5>1. w \in ReadSidecar \cup TextFailures
          <6>1. CASE w \in recorded
            <7>1. sidecar = Whole(recorded)
              BY <4>1, <6>1 DEF Kept, UpToDate
            <7> QED
              BY <6>1, <7>1 DEF ReadSidecar, Whole
          <6>2. ASSUME NEW m \in log.module, w = Removed(m)
                PROVE  w \in TextFailures
            BY <6>2 DEF TextFailures, Scan, Removed
          <6> QED
            BY <6>1, <6>2 DEF Kept
        <5>2. PICK f \in failures : Key(f) = Key(w)
          BY <5>1, MergeKeeps
        <5>3. f \in Shaped /\ w \in Shaped
          BY <5>1, <5>2, SourcesShaped
        <5> QED
          BY <5>2, <5>3, KeyIsAbout
      <4> HIDE DEF failures
      <4> QED
        BY <4>1, <4>2 DEF NothingLost
    <3> QED
      BY <3>1, <3>2, ResultSteps
  <2> QED
    BY <2>1, <2>2
<1> QED
  BY <1>1, <1>2, Typed, PTL DEF Spec
============================================================================
