----------------------------- MODULE RealRun ------------------------------
(***************************************************************************)
(* A run of the real ansible-playbook: the callback plugin rewrites a      *)
(* sidecar of failures at every event (heal_json.py), what the process     *)
(* prints is kept as a log, and run_real puts the two together             *)
(* (pipeline/runner.py, agent/log_scanner.py).                             *)
(***************************************************************************)
EXTENDS Naturals

CONSTANTS
  Plays, Hosts, Tasks, Variables,
  Modules,     \* modules that ansible-core no longer resolves
  Patterns,
  Asks,        \* Asks[p]: the entries of the hosts: of play p
  Unmatched,   \* the patterns that match no host
  CutShort,    \* TRUE: the process may die while it writes the sidecar
  WritesFail,  \* TRUE: opening or writing the sidecar may fail
  Nil

ASSUME RunAssumption ==
  /\ Asks \in [Plays -> SUBSET Patterns]
  /\ \A p \in Plays : Asks[p] # {}
  /\ Unmatched \subseteq Patterns
  /\ CutShort \in BOOLEAN /\ WritesFail \in BOOLEAN
  /\ Nil \notin Hosts \cup Tasks \cup Variables \cup Modules \cup Patterns

VARIABLES
  pc,          \* "start", "plays", "stats", "exited" or "done"
  left,        \* the plays not begun
  running,     \* the play begun last has hosts
  queue,       \* patterns v2_playbook_on_no_hosts_matched has yet to record
  lost,        \* the hosts that failed or were unreachable
  wrong,       \* what went wrong, each as the callback would record it
  log,         \* the names in the lines the scanner reads, by kind of line
  nonzero,     \* the exit code of ansible-playbook is not 0
  recorded,    \* self.failures of the callback
  flushing,    \* between the open and the write of _flush
  sidecar,     \* the file
  result

process == <<pc, left, running, queue, lost, wrong, log, nonzero>>
callback == <<recorded, flushing, sidecar>>
vars == <<process, callback, result>>

\* A failure.  name is the variable, the module or the pattern; the message,
\* the playbook and the wording of a log line are left out.
Types == {"undefined_variable", "removed_module", "no_hosts_matched",
          "unreachable_host", "task_failed", "unclassified"}

Failure == [type : Types, host : Hosts \cup Patterns \cup {Nil},
            task : Tasks \cup {Nil},
            name : Variables \cup Modules \cup Patterns \cup {Nil}]

Undefined(v, h, t) ==
  [type |-> "undefined_variable", host |-> h, task |-> t, name |-> v]
Removed(m) ==
  [type |-> "removed_module", host |-> Nil, task |-> Nil, name |-> m]
NoHosts(x) ==
  [type |-> "no_hosts_matched", host |-> x, task |-> Nil, name |-> x]
Unreachable(h, t) ==
  [type |-> "unreachable_host", host |-> h, task |-> t, name |-> Nil]
TaskFailed(h, t) ==
  [type |-> "task_failed", host |-> h, task |-> t, name |-> Nil]
Unclassified ==
  [type |-> "unclassified", host |-> Nil, task |-> Nil, name |-> Nil]

\* The file is whole, cut (not JSON), or absent.
Sidecars == [is : {"absent", "cut", "whole"}, holds : SUBSET Failure]
Absent == [is |-> "absent", holds |-> {}]
Cut == [is |-> "cut", holds |-> {}]
Whole(failures) == [is |-> "whole", holds |-> failures]

Logs == [module : SUBSET Modules, no_hosts : SUBSET Patterns,
         unreachable : SUBSET Hosts, undefined : SUBSET Variables]
Silence == [module |-> {}, no_hosts |-> {}, unreachable |-> {}, undefined |-> {}]

Skipped(p) == Asks[p] \subseteq Unmatched

\* The sidecar of another run of the same second may be there: the run id is
\* a time in seconds.
Init ==
  /\ pc = "start" /\ left = Plays /\ running = FALSE /\ queue = {}
  /\ lost = {} /\ wrong = {} /\ log = Silence /\ nonzero = FALSE
  /\ recorded = {} /\ flushing = FALSE
  /\ sidecar \in {Absent} \cup {Whole({NoHosts(x)}) : x \in Patterns}
  /\ result = [red |-> FALSE, failures |-> {}]

----------------------------------------------------------------------------
\* The callback plugin

\* _flush, as far as open(..., "w"), which empties the file.
Flush ==
  \/ flushing' = TRUE /\ sidecar' = Cut
  \/ WritesFail /\ UNCHANGED <<flushing, sidecar>>

\* The rest of _flush; an OSError is passed over.
Write ==
  /\ flushing
  /\ flushing' = FALSE
  /\ sidecar' \in {Whole(recorded)} \cup {c \in {Cut} : WritesFail}
  /\ UNCHANGED <<process, recorded, result>>

BugFlushLate(f) ==
  recorded' = recorded \cup {f} /\ UNCHANGED <<flushing, sidecar>>

\* _record
Record(f) == recorded' = recorded \cup {f} /\ Flush

\* The process goes on to its next event when the callback has returned.
Free == pc = "plays" /\ ~flushing /\ queue = {}

----------------------------------------------------------------------------
\* ansible-playbook

\* run_real removes an old sidecar and starts the process.
Start ==
  /\ pc = "start"
  /\ pc' = "plays"
  /\ sidecar' = Absent
  /\ UNCHANGED <<left, running, queue, lost, wrong, log, nonzero, recorded,
                 flushing, result>>

\* A module that does not resolve ends the run before any callback.
ParseError(m) ==
  /\ Free
  /\ left = Plays
  /\ log' = [log EXCEPT !.module = @ \cup {m}]
  /\ wrong' = wrong \cup {Removed(m)}
  /\ nonzero' = TRUE
  /\ pc' = "exited"
  /\ UNCHANGED <<left, running, queue, lost, callback, result>>

\* Each entry that matches nothing is warned of, and a play all of whose
\* entries match nothing is skipped.
BeginPlay(p) ==
  /\ Free
  /\ left' = left \ {p}
  /\ log' = [log EXCEPT !.no_hosts = @ \cup (Asks[p] \cap Unmatched)]
  /\ running' = ~Skipped(p)
  /\ queue' = {x \in Asks[p] : Skipped(p)}
  /\ UNCHANGED <<pc, lost, wrong, nonzero, callback, result>>

\* v2_playbook_on_no_hosts_matched, one record for each pattern.
NoHostsMatched(x) ==
  /\ pc = "plays" /\ ~flushing
  /\ queue' = queue \ {x}
  /\ Record(NoHosts(x))
  /\ UNCHANGED <<pc, left, running, lost, wrong, log, nonzero, result>>

\* A task fails, over an undefined variable or not.  An ignored failure is
\* printed and not recorded; a rescued one is recorded, and the exit code
\* stays as it is.
Fail(h, t, v, way) ==
  LET failure == IF v = Nil THEN TaskFailed(h, t) ELSE Undefined(v, h, t) IN
  /\ Free /\ running /\ h \notin lost
  /\ log' = [log EXCEPT !.undefined = @ \cup ({v} \ {Nil})]
  /\ IF way = "ignored" THEN UNCHANGED callback ELSE Record(failure)
  /\ IF way = "fatal"
     THEN /\ lost' = lost \cup {h} /\ nonzero' = TRUE
          /\ wrong' = wrong \cup {failure}
     ELSE UNCHANGED <<lost, nonzero, wrong>>
  /\ UNCHANGED <<pc, left, running, queue, result>>

\* v2_runner_on_unreachable
Lose(h, t) ==
  /\ Free /\ running /\ h \notin lost
  /\ log' = [log EXCEPT !.unreachable = @ \cup {h}]
  /\ Record(Unreachable(h, t))
  /\ lost' = lost \cup {h}
  /\ nonzero' = TRUE
  /\ wrong' = wrong \cup {Unreachable(h, t)}
  /\ UNCHANGED <<pc, left, running, queue, result>>

\* v2_runner_on_ok
Ok ==
  /\ Free /\ running
  /\ Flush
  /\ UNCHANGED <<process, recorded, result>>

\* v2_playbook_on_stats, after the last play or when hosts were lost.
Stats ==
  /\ Free
  /\ left = {} \/ lost # {}
  /\ Flush
  /\ pc' = "stats"
  /\ UNCHANGED <<left, running, queue, lost, wrong, log, nonzero, recorded,
                 result>>

Exit ==
  /\ pc = "stats" /\ ~flushing
  /\ pc' = "exited"
  /\ UNCHANGED <<left, running, queue, lost, wrong, log, nonzero, callback,
                 result>>

\* A kill, or an error that ends the process at once.
Die ==
  /\ pc \in {"plays", "stats"}
  /\ flushing => CutShort
  /\ pc' = "exited" /\ queue' = {} /\ flushing' = FALSE
  /\ nonzero' = TRUE
  /\ UNCHANGED <<left, running, lost, wrong, log, recorded, sidecar, result>>

----------------------------------------------------------------------------
\* run_real, when the process has ended

\* extract_failures(text_only=True), line by line.
Scan ==
  {Removed(m) : m \in log.module} \cup
  {NoHosts(x) : x \in log.no_hosts} \cup
  {Unreachable(h, Nil) : h \in log.unreachable} \cup
  {Undefined(v, Nil, Nil) : v \in log.undefined}

BugScanWarnings == Scan

\* Where there is a sidecar the callback decides which plays were skipped.
TextFailures ==
  {f \in Scan : sidecar.is = "absent" \/ f.type # "no_hosts_matched"}

\* read_sidecar: nothing, unless the file is JSON.
ReadSidecar == IF sidecar.is = "whole" THEN sidecar.holds ELSE {}

BugFlatKey(f) == [type |-> f.type, name |-> f.host, task |-> f.task]

\* key, in _merge_failures.
Key(f) ==
  [type |-> f.type,
   name |-> CASE f.type \in {"undefined_variable", "removed_module"} -> f.name
              [] f.type \in {"no_hosts_matched", "unreachable_host"} ->
                   IF f.name # Nil THEN f.name ELSE f.host
              [] OTHER -> f.host,
   task |-> IF f.type \in {"task_failed", "unclassified"} THEN f.task ELSE Nil]

\* One failure of each key, of primary before extra.  The code keeps the first
\* in order; which one of a list does not matter here.
Merge(primary, extra) ==
  LET OneOfEach(S, keys) == {CHOOSE f \in S : Key(f) = k : k \in keys}
      known == {Key(f) : f \in primary}
  IN  OneOfEach(primary, known)
        \cup OneOfEach(extra, {Key(f) : f \in extra} \ known)

BugCollectQuietly ==
  LET failures == Merge(ReadSidecar, TextFailures) IN
  /\ pc = "exited"
  /\ pc' = "done"
  /\ result' = [red |-> nonzero, failures |-> failures]
  /\ UNCHANGED <<left, running, queue, lost, wrong, log, nonzero, callback>>

\* A run that reports a failure is red, and a red run reports one.
Collect ==
  LET failures == Merge(ReadSidecar, TextFailures) IN
  /\ pc = "exited"
  /\ pc' = "done"
  /\ result' = [red |-> nonzero \/ failures # {},
                failures |-> failures
                  \cup {f \in {Unclassified} : nonzero /\ failures = {}}]
  /\ UNCHANGED <<left, running, queue, lost, wrong, log, nonzero, callback>>

Done == pc = "done" /\ UNCHANGED vars

Ansible ==
  \/ Start
  \/ \E m \in Modules : ParseError(m)
  \/ \E p \in left : BeginPlay(p)
  \/ \E x \in queue : NoHostsMatched(x)
  \/ \E h \in Hosts, t \in Tasks :
       \/ \E v \in Variables \cup {Nil}, way \in {"fatal", "ignored", "rescued"} :
            Fail(h, t, v, way)
       \/ Lose(h, t)
  \/ Ok \/ Write \/ Stats \/ Exit \/ Die

Next == Ansible \/ Collect \/ Done

Spec == Init /\ [][Next]_vars

----------------------------------------------------------------------------
TypeOK ==
  /\ pc \in {"start", "plays", "stats", "exited", "done"}
  /\ left \subseteq Plays /\ running \in BOOLEAN /\ nonzero \in BOOLEAN
  /\ queue \subseteq Patterns /\ (queue # {} => pc = "plays")
  /\ lost \subseteq Hosts /\ wrong \subseteq Failure
  /\ log \in Logs
  /\ recorded \subseteq Failure
  /\ sidecar \in Sidecars
  /\ flushing \in BOOLEAN
  /\ flushing => sidecar = Cut /\ pc \in {"plays", "stats"}
  /\ result \in [red : BOOLEAN, failures : SUBSET Failure]

\* A play that matched no host makes the run red, though ansible-playbook
\* exits 0 (run_real: "a play skipped because its host pattern matched nothing
\* is not a healthy pipeline").
SkippedPlayIsRed ==
  pc = "done" /\ (\E p \in Plays \ left : Skipped(p)) => result.red

\* When the callback wrote a sidecar, a pattern is only reported if a play of
\* this run matched nothing at all (run_real: scraping the warnings "turned a
\* green run into a destructive rename of a host that was working").
SkipsAreReal ==
  pc = "done" /\ sidecar.is # "absent" =>
    \A f \in result.failures :
      f.type = "no_hosts_matched" =>
        \E p \in Plays \ left : Skipped(p) /\ f.name \in Asks[p]

\* What a failure is about, whichever source reports it and on whatever host.
About(f) ==
  CASE f.type \in {"undefined_variable", "removed_module", "no_hosts_matched"} ->
         <<f.type, f.name>>
    [] f.type = "unreachable_host" -> <<f.type, f.host>>
    [] OTHER -> <<f.type, f.host, f.task>>

\* Whatever went wrong is reported, by the callback or by the scan, also when
\* the process died later (_flush: "Write after every event so a crashed run
\* still leaves usable data").
NothingLost ==
  pc = "done" =>
    \A w \in wrong : \E f \in result.failures : About(f) = About(w)

\* No two failures ask for the same fix (_merge_failures: "they must not both
\* be reported").
OneProposalPerFix ==
  \A f, g \in result.failures : About(f) = About(g) => f = g

\* A red run names a failure and a green one none, as the heal loop needs.
RedIffFailures == pc = "done" => (result.red <=> result.failures # {})
============================================================================
