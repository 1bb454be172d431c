------------------------------ MODULE HealPr ------------------------------
(***************************************************************************)
(* The heal loop in pull-request mode, _heal_pr of agent/core.py: one      *)
(* pipeline run, the fixes committed onto a fresh heal/<ts> branch, the    *)
(* branch pushed, and the operator's branch checked out again.             *)
(***************************************************************************)
EXTENDS PatchStep

VARIABLES
  stage,   \* where _heal_pr is
  todo,    \* the failures of the run still to handle
  head,    \* the branch checked out: "base" or "heal"
  differ,  \* files whose blobs differ between the two branches
  result   \* HealResult: success, branch, pushed, push_error

prVars == <<stage, todo, head, differ, result>>
vars   == <<stepVars, prVars>>

Result == [success : BOOLEAN, branch : BOOLEAN, pushed : BOOLEAN,
           push_error : BOOLEAN]

Init ==
  /\ StepInit
  /\ stage = "run" /\ todo = {}
  /\ head = "base" /\ differ = {}
  /\ result = [success |-> FALSE, branch |-> FALSE, pushed |-> FALSE,
               push_error |-> FALSE]

\* Green; or HEAD is unborn, so there is no base to come back to; or patch.
Run ==
  /\ stage = "run"
  /\ \/ /\ Broken = {}
        /\ stage' = "done"
        /\ result' = [result EXCEPT !.success = TRUE]
        /\ UNCHANGED todo
     \/ /\ Broken # {}
        /\ stage' = "done"
        /\ result' = [result EXCEPT !.push_error = TRUE]
        /\ UNCHANGED todo
     \/ /\ \E s \in (SUBSET Broken) \ {{}} : todo' = s
        /\ stage' = "branch"
        /\ UNCHANGED result
  /\ UNCHANGED <<stepVars, head, differ>>

\* git checkout -b: the working tree, dirty files included, comes along.
CreateBranch ==
  /\ stage = "branch"
  /\ \/ /\ stage' = "patch"
        /\ head' = "heal"
        /\ result' = [result EXCEPT !.branch = TRUE]
     \/ /\ stage' = "done"
        /\ result' = [result EXCEPT !.push_error = TRUE]
        /\ UNCHANGED head
  /\ UNCHANGED <<stepVars, todo, differ>>

TakeFailure ==
  /\ stage = "patch"
  /\ \E p \in todo : Diagnose(p) /\ todo' = todo \ {p}
  /\ UNCHANGED <<stage, head, differ, result>>

\* commit_fix on the branch checked out, and rec.commits.append(sha).
Commit ==
  /\ \/ CommitLands /\ differ' = differ \cup {cur.fix.target}
     \/ CommitNothing /\ UNCHANGED differ
  /\ UNCHANGED <<stage, todo, head, result>>

BugStopAtARefusedCommit ==
  /\ stage = "patch"
  /\ pc = "idle"
  /\ todo = {} \/ \E r \in declined : r.why = "commit"
  /\ stage' = "publish"
  /\ UNCHANGED <<stepVars, todo, head, differ, result>>

EndPatching ==
  /\ stage = "patch"
  /\ pc = "idle" /\ todo = {}
  /\ stage' = "publish"
  /\ UNCHANGED <<stepVars, todo, head, differ, result>>

BugPublishAlways ==
  /\ stage = "publish"
  /\ \E ok \in BOOLEAN :
       result' = [result EXCEPT !.success = TRUE, !.pushed = ok,
                                !.push_error = ~ok]
  /\ stage' = "return"
  /\ UNCHANGED <<stepVars, todo, head, differ>>

\* Nothing to open a pull request for; or push, which fails or has no remote
\* to push to, and call it a success either way.
Publish ==
  /\ stage = "publish"
  /\ \/ /\ commits = <<>>
        /\ result' = [result EXCEPT !.push_error = TRUE]
     \/ /\ commits # <<>>
        /\ \E ok \in BOOLEAN :
             result' = [result EXCEPT !.success = TRUE, !.pushed = ok,
                                      !.push_error = ~ok]
  /\ stage' = "return"
  /\ UNCHANGED <<stepVars, todo, head, differ>>

\* git refuses to switch over a local change to a file the branches differ in.
Conflict == \E f \in differ : IsDirty(f)

BugStayOnBranch(after) ==
  /\ stage' = after
  /\ UNCHANGED <<stepVars, head, todo, differ, result>>

\* git_helper.checkout(base), whose result nobody looks at.  What the base
\* branch holds in the files that differ is not tracked.
CheckoutBase(after) ==
  /\ \/ Conflict /\ UNCHANGED <<tree, head>>
     \/ /\ ~Conflict
        /\ head' = "base"
        /\ \E was \in SUBSET UNION {RemediesOn(f) : f \in differ} :
             tree' = [f \in Files |->
                        IF f \in differ
                        THEN [by |-> {}, has |-> was \cap RemediesOn(f)]
                        ELSE tree[f]]
  /\ stage' = after
  /\ UNCHANGED <<clean, log, reportVars, pc, cur, seen, todo, differ, result>>

Return == stage = "return" /\ CheckoutBase("done")

\* An exception out of the patch loop: back to the base branch, re-raise.
Raise == DecodeError /\ stage' = "raise"
                     /\ UNCHANGED <<todo, head, differ, result>>
Reraise == stage = "raise" /\ CheckoutBase("done")

Agent ==
  \/ Run \/ CreateBranch \/ TakeFailure
  \/ (HandleFailure /\ UNCHANGED prVars)
  \/ Commit \/ EndPatching \/ Publish \/ Return \/ Raise \/ Reraise

Operator ==
  /\ stage # "done"
  /\ \E f \in Files :
       \/ OperatorEdit(f) /\ UNCHANGED differ
       \/ /\ OperatorCommit(f)
          /\ differ' = IF head = "heal" THEN differ \cup {f} ELSE differ
  /\ UNCHANGED <<stage, todo, head, result>>

Ended == stage = "done" /\ UNCHANGED vars

Next == Agent \/ Operator \/ Ended

Spec     == Init /\ [][Next]_vars
\* Every pipeline run, LLM call, push and git command of the agent returns.
FairSpec == Spec /\ WF_vars(Agent)

----------------------------------------------------------------------------
TypeOK ==
  /\ StepTypeOK
  /\ stage \in {"run", "branch", "patch", "publish", "return", "raise",
                "done"}
  /\ todo \subseteq Failures
  /\ head \in {"base", "heal"}
  /\ differ \subseteq Files
  /\ result \in Result

\* When heal() is over the operator is on their own branch again, unless they
\* edited, while it ran, a file that the heal branch had changed (core: being
\* left on the heal branch "is the one thing PR mode promises not to do").
BackOnBase ==
  stage = "done" => \/ head = "base"
                    \/ \E f \in differ : "operator" \in tree[f].by

\* A run that claims success after branching, or that pushed, produced at
\* least one commit to review (core: "a reviewable change was produced").
SuccessIsReviewable ==
  result.branch /\ (result.success \/ result.pushed) => log # <<>>

\* A failure whose rule patches a file that nobody else works on and that
\* neither the patcher nor git refuses.
InTheClear(p) ==
  Rule[p].target \in Allowed \ (Sealed \cup Undecodable \cup Hooked
                                 \cup Ignored \cup OperatorFiles)

\* What is in the way of the other failures of a run (the operator's work, a
\* refused patch, a refused commit, no rule) does not stop the loop short of
\* such a one, unless an exception does (core._pr_patch_loop).
OthersAreNotInTheWay ==
  \A p \in Failures : InTheClear(p) =>
    (stage = "patch" /\ p \in todo)
      ~> (pc = "raised" \/ \E i \in DOMAIN log : log[i].remedy = p)
============================================================================
