----------------------------- MODULE HealApply -----------------------------
(***************************************************************************)
(* The heal loop in apply mode, _heal_apply of agent/core.py: run the      *)
(* pipeline, handle each reported failure, re-run, until it is green, the  *)
(* retry budget is spent, or a round brings nothing new.                   *)
(***************************************************************************)
EXTENDS PatchStep, FiniteSets

CONSTANT MaxRetries  \* heal(max_retries=...)

ASSUME LoopAssumption == MaxRetries \in Nat

VARIABLES
  stage,       \* "run": before _run_once; "round": over its failures; "done"
  iter,        \* i
  todo,        \* the failures of this run still to handle
  applied,     \* signatures of the fixes already applied
  progressed,  \* a fix new to applied landed in this round
  before,      \* commits landed before this round
  outcome      \* how the run ended

loopVars == <<stage, iter, todo, applied, progressed, before, outcome>>
vars     == <<stepVars, loopVars>>

BugSignatureOfActionOnly(fix) == <<fix.action, NoFile, NoFile>>

\* _fix_signature: the action, the file, and the values under the keys old /
\* search / key and new / replace / value.  replace_module and
\* declare_collection keep theirs under other names.
Signature(fix) ==
  IF fix.action \in {"replace_module", "declare_collection", "none"}
  THEN <<fix.action, fix.target, NoFile>>
  ELSE <<fix.action, fix.target, fix.remedy>>

Init ==
  /\ StepInit
  /\ stage = "run" /\ iter = 0 /\ todo = {}
  /\ applied = {} /\ progressed = FALSE /\ before = 0
  /\ outcome = "none"

Stop(how) == stage' = "done" /\ outcome' = how

Green ==
  /\ stage = "run"
  /\ Broken = {}
  /\ Stop("green")
  /\ UNCHANGED <<stepVars, iter, todo, applied, progressed, before>>

GiveUp ==
  /\ stage = "run"
  /\ Broken # {}
  /\ iter = MaxRetries
  /\ Stop("gave_up")
  /\ UNCHANGED <<stepVars, iter, todo, applied, progressed, before>>

\* A red run names some of what is broken: ansible-playbook stops a play at
\* its first fatal error, the simulator goes on to the next task.
Collect ==
  /\ stage = "run"
  /\ iter < MaxRetries
  /\ \E s \in (SUBSET Broken) \ {{}} : todo' = s
  /\ stage' = "round"
  /\ progressed' = FALSE
  /\ before' = Len(log)
  /\ UNCHANGED <<stepVars, iter, applied, outcome>>

TakeFailure ==
  /\ stage = "round"
  /\ \E p \in todo :
       /\ Diagnose(p)
       /\ todo' = todo \ {p}
  /\ UNCHANGED <<stage, iter, applied, progressed, before, outcome>>

BugEveryCommitIsProgress ==
  /\ progressed' = TRUE
  /\ applied' = applied \cup {Signature(cur.fix)}
  /\ UNCHANGED <<stage, iter, todo, before, outcome>>

\* A fix already applied in this run is not progress, though it landed.
NoteProgress ==
  /\ progressed' = (progressed \/ Signature(cur.fix) \notin applied)
  /\ applied' = applied \cup {Signature(cur.fix)}
  /\ UNCHANGED <<stage, iter, todo, before, outcome>>

Commit == (CommitLands \/ CommitNothing) /\ NoteProgress

\* An exception out of the patcher ends heal().
Raise ==
  /\ DecodeError
  /\ Stop("raised")
  /\ UNCHANGED <<iter, todo, applied, progressed, before>>

BugRetryStalledRound ==
  /\ stage = "round"
  /\ pc = "idle"
  /\ todo = {}
  /\ iter' = iter + (IF progressed THEN 1 ELSE 0)
  /\ stage' = "run"
  /\ UNCHANGED <<stepVars, todo, applied, progressed, before, outcome>>

EndRound ==
  /\ stage = "round"
  /\ pc = "idle"
  /\ todo = {}
  /\ \/ /\ progressed
        /\ iter' = iter + 1
        /\ stage' = "run"
        /\ UNCHANGED outcome
     \/ /\ ~progressed
        /\ Stop("stalled")
        /\ UNCHANGED iter
  /\ UNCHANGED <<stepVars, todo, applied, progressed, before>>

Agent ==
  \/ Green \/ GiveUp \/ Collect \/ TakeFailure
  \/ (HandleFailure /\ UNCHANGED loopVars)
  \/ Commit \/ Raise \/ EndRound

Operator ==
  /\ stage # "done"
  /\ \E f \in Files : OperatorEdit(f) \/ OperatorCommit(f)
  /\ UNCHANGED loopVars

Ended == stage = "done" /\ UNCHANGED vars

Next == Agent \/ Operator \/ Ended

Spec     == Init /\ [][Next]_vars
\* Every pipeline run, LLM call and git command of the agent returns.
FairSpec == Spec /\ WF_vars(Agent)

----------------------------------------------------------------------------
TypeOK ==
  /\ StepTypeOK
  /\ stage \in {"run", "round", "done"}
  /\ iter \in 0..MaxRetries
  /\ todo \subseteq Failures
  /\ applied \subseteq {Signature(x) : x \in Fix \cup {NoFix}}
  /\ progressed \in BOOLEAN
  /\ before \in Nat
  /\ outcome \in {"none", "green", "gave_up", "stalled", "raised"}

\* Every round that did not end the run applied a fix the run had not applied
\* before, so two failures fighting over one edit cannot spend the budget
\* (core._heal_apply, the comment above signature).
EveryRoundBringsANewFix == iter <= Cardinality(applied)

\* A run stopped for lack of progress landed nothing in its last round that
\* it had not landed before (core._fix_signature: "a fix the agent has
\* already applied").
StallMeansNothingNew ==
  outcome = "stalled" =>
    \A i \in DOMAIN log : i > before =>
      \E j \in 1..before : /\ log[j].target = log[i].target
                           /\ log[j].remedy = log[i].remedy

\* The run always ends (max_retries, the stall detector, one fallback).
Terminates == <>(stage = "done")
============================================================================
