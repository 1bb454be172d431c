---------------------------- MODULE HealPrProofs ----------------------------
(***************************************************************************)
(* Theorems about pull-request mode, for every repository and every set of *)
(* rules.                                                                  *)
(***************************************************************************)
EXTENDS HealPr, PatchStepProofs

\* The loop adds its bookkeeping to the steps of a failure, and a checkout.
LEMMA LoopSteps ==
  ASSUME todo \subseteq Failures, [Next]_vars
  PROVE  PatchNext \/ CheckoutBase("done") \/ UNCHANGED stepVars
<1>1. CASE TakeFailure
  BY <1>1 DEF TakeFailure, PatchNext
<1>2. CASE HandleFailure \/ Commit \/ Raise \/ Operator
  BY <1>2 DEF Commit, Raise, Operator, PatchNext
<1>3. CASE Return \/ Reraise
  BY <1>3 DEF Return, Reraise
<1>4. CASE Run \/ CreateBranch \/ EndPatching \/ Publish \/ Ended
           \/ UNCHANGED vars
  BY <1>4 DEF Run, CreateBranch, EndPatching, Publish, Ended, vars
<1> QED
  BY <1>1, <1>2, <1>3, <1>4 DEF Next, Agent

\* What a checkout leaves in a file: nothing uncommitted, or what was there.
LEMMA CheckoutTree ==
  ASSUME StepTypeOK, differ \subseteq Files, CheckoutBase("done")
  PROVE  /\ tree' \in [Files -> Content]
         /\ \A f \in Files : tree'[f].by = {} \/ tree'[f] = tree[f]
         /\ UNCHANGED <<clean, log, commits, declined, blocked, pc, cur, seen>>
<1>1. CASE UNCHANGED tree
  BY <1>1 DEF CheckoutBase, reportVars, StepTypeOK
<1>2. CASE \E was \in SUBSET UNION {RemediesOn(f) : f \in differ} :
             tree' = [f \in Files |->
                        IF f \in differ
                        THEN [by |-> {}, has |-> was \cap RemediesOn(f)]
                        ELSE tree[f]]
  <2>1. PICK was : tree' = [f \in Files |->
                              IF f \in differ
                              THEN [by |-> {}, has |-> was \cap RemediesOn(f)]
                              ELSE tree[f]]
    BY <1>2
  <2> DEFINE base(f) == [by |-> {}, has |-> was \cap RemediesOn(f)]
  <2>2. \A f \in Files : base(f) \in Content /\ base(f).by = {}
    BY DEF Content, Edits, RemediesOn
  <2>3. \A f \in Files : tree'[f] = IF f \in differ THEN base(f) ELSE tree[f]
    BY <2>1
  <2> HIDE DEF base
  <2>4. \A f \in Files : tree'[f].by = {} \/ tree'[f] = tree[f]
    BY <2>2, <2>3
  <2>5. tree' \in [Files -> Content]
    BY <2>1, <2>2 DEF StepTypeOK, base
  <2> QED
    BY <2>4, <2>5 DEF CheckoutBase, reportVars
<1> QED
  BY <1>1, <1>2 DEF CheckoutBase

----------------------------------------------------------------------------
\* Types

LEMMA InitTypes == Init => TypeOK
<1>1. Init => result \in Result
  BY DEF Init, Result
<1> QED
  BY <1>1, StepInitTypes DEF Init, TypeOK

LEMMA NextTypes == TypeOK /\ [Next]_vars => TypeOK'
<1> SUFFICES ASSUME TypeOK, [Next]_vars
             PROVE  TypeOK'
  OBVIOUS
<1> USE DEF TypeOK
<1>1. StepTypeOK'
  <2>1. CASE PatchNext
    BY <2>1, StepTypes
  <2>2. CASE CheckoutBase("done")
    BY <2>2, CheckoutTree DEF StepTypeOK
  <2>3. CASE UNCHANGED stepVars
    BY <2>3 DEF StepTypeOK, stepVars
  <2> QED
    BY <2>1, <2>2, <2>3, LoopSteps
<1>2. CASE Run
  <2>1. todo' \subseteq Failures
    BY <1>2, PatchAssumption DEF Run, Broken, PatchAssumption
  <2>2. result' \in Result
    BY <1>2 DEF Run, Result
  <2> QED
    BY <1>1, <1>2, <2>1, <2>2 DEF Run
<1>3. CASE CreateBranch
  <2>1. result' \in Result
    BY <1>3 DEF CreateBranch, Result
  <2> QED
    BY <1>1, <1>3, <2>1 DEF CreateBranch
<1>4. CASE TakeFailure
  BY <1>1, <1>4 DEF TakeFailure
<1>5. CASE HandleFailure /\ UNCHANGED prVars
  BY <1>1, <1>5 DEF prVars
<1>6. CASE Commit
  <2>1. CommitLands => cur.fix.target \in Files
    BY DEF CommitLands
  <2> QED
    BY <1>1, <1>6, <2>1 DEF Commit
<1>7. CASE EndPatching
  BY <1>1, <1>7 DEF EndPatching
<1>8. CASE Publish
  <2>1. result' \in Result
    BY <1>8 DEF Publish, Result
  <2> QED
    BY <1>1, <1>8, <2>1 DEF Publish
<1>9. CASE Return \/ Reraise
  BY <1>1, <1>9 DEF Return, Reraise, CheckoutBase
<1>10. CASE Raise
  BY <1>1, <1>10 DEF Raise
<1>11. CASE Operator
  BY <1>1, <1>11 DEF Operator
<1>12. CASE Ended \/ UNCHANGED vars
  BY <1>1, <1>12 DEF Ended, vars, prVars
<1> QED
  BY <1>2, <1>3, <1>4, <1>5, <1>6, <1>7, <1>8, <1>9, <1>10, <1>11, <1>12
  DEF Next, Agent

\* The state of pull-request mode is always well-typed (core._heal_pr).
THEOREM Typed == Spec => []TypeOK
  BY InitTypes, NextTypes, PTL DEF Spec

----------------------------------------------------------------------------
\* The operator's files

\* No edit of the agent's is left in the tree unreported, the checkout back
\* to the base branch included (core._pr_patch_loop, the GitStateError path).
THEOREM StrandedReported == Spec => []StrandedIsReported
<1>1. Init => StrandedIsReported
  BY InitTree DEF Init, StrandedIsReported
<1>2. TypeOK /\ StrandedIsReported /\ [Next]_vars => StrandedIsReported'
  <2> SUFFICES ASSUME TypeOK, StrandedIsReported, [Next]_vars
               PROVE  StrandedIsReported'
    OBVIOUS
  <2>1. CASE PatchNext
    BY <2>1, StepStranded DEF TypeOK
  <2>2. CASE CheckoutBase("done")
    BY <2>2, CheckoutTree DEF TypeOK, StrandedIsReported
  <2>3. CASE UNCHANGED stepVars
    BY <2>3 DEF stepVars, StrandedIsReported
  <2> QED
    BY <2>1, <2>2, <2>3, LoopSteps DEF TypeOK
<1> QED
  BY <1>1, <1>2, Typed, PTL DEF Spec

\* Outside the patch loop no file is in hand.
NothingInHand ==
  stage # "patch" => pc \in {"idle", "raised"}

\* The branches differ in what was committed, and git commits no ignored file.
DifferIsTracked == differ \cap Ignored = {}

\* A checkout leaves the work in progress as it is, and all else of a step.
LEMMA CheckoutWork ==
  ASSUME TypeOK, NothingInHand, DifferIsTracked, Return \/ Reraise
  PROVE  /\ \A f \in Files : tree'[f].by = {} \/ tree'[f] = tree[f]
         /\ \A f \in Files : tree'[f].by = tree[f].by
         /\ UNCHANGED <<clean, log, commits, declined, blocked, pc, cur, seen>>
         /\ pc \in {"idle", "raised"}
<1>1. CheckoutBase("done") /\ pc \in {"idle", "raised"}
  BY DEF Return, Reraise, NothingInHand
<1>2. /\ \A f \in Files : tree'[f].by = {} \/ tree'[f] = tree[f]
      /\ UNCHANGED <<clean, log, commits, declined, blocked, pc, cur, seen>>
  BY <1>1, CheckoutTree DEF TypeOK
<1>3. ASSUME NEW f \in Files
      PROVE  tree'[f].by = tree[f].by
  <2>1. CASE UNCHANGED tree
    BY <2>1
  <2>2. CASE /\ ~Conflict
             /\ \E was \in SUBSET UNION {RemediesOn(g) : g \in differ} :
                  tree' = [g \in Files |->
                             IF g \in differ
                             THEN [by |-> {}, has |-> was \cap RemediesOn(g)]
                             ELSE tree[g]]
    <3>1. CASE f \in differ
      <4>1. tree'[f].by = {}
        BY <2>2, <3>1
      <4>2. f \notin Ignored
        BY <3>1 DEF DifferIsTracked
      <4> QED
        BY <2>2, <3>1, <4>1, <4>2 DEF Conflict, IsDirty
    <3>2. CASE f \notin differ
      BY <2>2, <3>2
    <3> QED
      BY <3>1, <3>2
  <2> QED
    BY <1>1, <2>1, <2>2 DEF CheckoutBase
<1> QED
  BY <1>1, <1>2, <1>3

\* Which leaves every step of a failure, a checkout, or nothing.
LEMMA PrSteps ==
  ASSUME TypeOK, [Next]_vars
  PROVE  PatchNext \/ Return \/ Reraise \/ UNCHANGED stepVars
<1>1. CheckoutBase("done") => Return \/ Reraise \/ PatchNext \/ UNCHANGED stepVars
  BY DEF Next, Agent, Run, CreateBranch, TakeFailure, Commit, EndPatching,
     Publish, Raise, Operator, Ended, vars, PatchNext, TypeOK
<1> QED
  BY <1>1, LoopSteps DEF TypeOK

LEMMA InHandInvariant == Spec => [](TypeOK /\ NothingInHand /\ DifferIsTracked)
<1>1. Init => NothingInHand
  BY DEF Init, StepInit, NothingInHand
<1>2. TypeOK /\ NothingInHand /\ [Next]_vars => NothingInHand'
  BY DEF Next, Agent, Run, CreateBranch, TakeFailure, Diagnose, Commit,
     CommitLands, CommitNothing, Finish, EndPatching, Publish, Return,
     Reraise, Raise, DecodeError, CheckoutBase, Operator, OperatorEdit,
     OperatorCommit, Ended, vars, stepVars, prVars, NothingInHand,
     HandleFailure, DeclineDirty, DeclineNoFix, NoteClean, PatchBlocked,
     PatchFailed, FallBack, RetryRefused, RetryNoFix, ReadTarget,
     WriteTarget, CommitRefused
<1>3. Init => DifferIsTracked
  BY DEF Init, DifferIsTracked
<1>4. TypeOK /\ DifferIsTracked /\ [Next]_vars => DifferIsTracked'
  <2> SUFFICES ASSUME TypeOK, DifferIsTracked, [Next]_vars
               PROVE  DifferIsTracked'
    OBVIOUS
  <2>1. CASE Commit
    <3>1. CommitLands => cur.fix.target \notin Ignored
      BY DEF CommitLands, IsDirty
    <3> QED
      BY <2>1, <3>1 DEF Commit, DifferIsTracked
  <2>2. CASE Operator
    <3>1. \A f \in Files : OperatorCommit(f) => f \notin Ignored
      BY DEF OperatorCommit, IsDirty
    <3> QED
      BY <2>2, <3>1 DEF Operator, DifferIsTracked
  <2>3. CASE UNCHANGED differ
    BY <2>3 DEF DifferIsTracked
  <2> QED
    BY <2>1, <2>2, <2>3
    DEF Next, Agent, Run, CreateBranch, TakeFailure, EndPatching, Publish,
        Return, Reraise, Raise, CheckoutBase, Ended, vars, prVars
<1> QED
  BY <1>1, <1>2, <1>3, <1>4, Typed, PTL DEF Spec

HandInv == TypeOK /\ NothingInHand /\ DifferIsTracked /\ StepInv

LEMMA HandInvariant == ASSUME RulesAlone PROVE Spec => []HandInv
<1>1. Init => StepInv
  BY StepInitInv DEF Init
<1>2. HandInv /\ [Next]_vars => StepInv'
  <2> SUFFICES ASSUME HandInv, [Next]_vars
               PROVE  StepInv'
    OBVIOUS
  <2> USE DEF HandInv
  <2>1. CASE PatchNext
    BY <2>1, StepKeepsInv
  <2>2. CASE Return \/ Reraise
    <3>1. StepTypeOK'
      BY <2>2, CheckoutTree DEF Return, Reraise, TypeOK, StepTypeOK
    <3>2. IgnoredIsOwn'
      BY <2>2, CheckoutWork, PatchAssumption
      DEF StepInv, IgnoredIsOwn, PatchAssumption
    <3> QED
      BY <2>2, <3>1, <3>2, CheckoutWork
      DEF StepInv, InHandIsClean, CommitsOnlyAgentWork, RecordedAreLanded
  <2>3. CASE UNCHANGED stepVars
    BY <2>3 DEF stepVars, StepInv, StepTypeOK, IgnoredIsOwn, InHandIsClean,
                CommitsOnlyAgentWork, RecordedAreLanded
  <2> QED
    BY <2>1, <2>2, <2>3, PrSteps
<1> QED
  BY <1>1, <1>2, InHandInvariant, PTL DEF Spec, HandInv

\* With the rules alone, a commit on the heal branch holds the agent's change
\* and none of the operator's, whose work in progress came along onto it.
THEOREM OwnWorkOnly ==
  ASSUME RulesAlone PROVE Spec => []CommitsOnlyAgentWork
<1>1. HandInv => CommitsOnlyAgentWork
  BY DEF HandInv, StepInv
<1> QED
  BY <1>1, HandInvariant, PTL

\* With the LLM too, whatever it answers: only the rule's fix that follows a
\* failed patch of the LLM's goes into a file with uncommitted work, or is
\* committed with it (core._pr_patch_loop, through _diagnose_and_patch).
THEOREM RetriesOnly ==
  ASSUME OperatorInSight PROVE Spec => OnlyRetriesAreUnchecked
<1> DEFINE OwnInv == IgnoredIsOwn /\ InHandIsClean
<1> DEFINE Checked ==
      cur.source # "retry" =>
        /\ \A f \in Files :
             "agent" \in tree'[f].by \ tree[f].by => tree[f].by = {}
        /\ \A i \in DOMAIN log' : i > Len(log) => log'[i].by = {"agent"}
<1>1. Init => OwnInv
  BY StepInitInHand DEF Init
<1>2. TypeOK /\ NothingInHand /\ DifferIsTracked /\ OwnInv /\ [Next]_vars
        => OwnInv'
  <2> SUFFICES ASSUME TypeOK, NothingInHand, DifferIsTracked, OwnInv,
                      [Next]_vars
               PROVE  OwnInv'
    OBVIOUS
  <2>1. CASE PatchNext
    BY <2>1, StepIgnored, StepInHand DEF TypeOK
  <2>2. CASE Return \/ Reraise
    BY <2>2, CheckoutWork, PatchAssumption
    DEF IgnoredIsOwn, InHandIsClean, PatchAssumption
  <2>3. CASE UNCHANGED stepVars
    BY <2>3 DEF stepVars, IgnoredIsOwn, InHandIsClean
  <2> QED
    BY <2>1, <2>2, <2>3, PrSteps
<1>3. TypeOK /\ NothingInHand /\ DifferIsTracked /\ OwnInv /\ [Next]_vars
        => [Checked]_stepVars
  <2> SUFFICES ASSUME TypeOK, NothingInHand, DifferIsTracked, OwnInv,
                      [Next]_vars,
                      ~UNCHANGED stepVars, cur.source # "retry"
               PROVE  /\ \A f \in Files :
                           "agent" \in tree'[f].by \ tree[f].by
                             => tree[f].by = {}
                      /\ \A i \in DOMAIN log' :
                           i > Len(log) => log'[i].by = {"agent"}
    OBVIOUS
  <2>1. \A i \in DOMAIN log : i <= Len(log)
    BY DEF TypeOK, StepTypeOK
  <2>2. CASE PatchNext
    BY <2>1, <2>2, StepNeverOverWip, StepOwnWork DEF TypeOK
  <2>3. CASE Return \/ Reraise
    BY <2>1, <2>3, CheckoutWork
  <2> QED
    BY <2>2, <2>3, PrSteps
<1> QED
  BY <1>1, <1>2, <1>3, InHandInvariant, PTL DEF Spec, OnlyRetriesAreUnchecked

\* The loop keeps SafeHealer's promise: what it does to the operator's work in
\* several steps looks like one, and a branch and the checkouts like none.
THEOREM KeepsThePromise ==
  ASSUME RulesAlone PROVE Spec => ImplementsSafeHealer
<1>1. Init => Safe!Init
  BY InitMaps DEF Init
<1>2. HandInv /\ [Next]_vars => [Safe!Next]_<<Work, History>>
  <2> SUFFICES ASSUME HandInv, [Next]_vars
               PROVE  Safe!Next \/ UNCHANGED <<Work, History>>
    OBVIOUS
  <2> USE DEF HandInv
  <2>1. CASE PatchNext
    BY <2>1, StepMaps
  <2>2. CASE Return \/ Reraise
    BY <2>2, CheckoutWork DEF Work, History
  <2>3. CASE UNCHANGED stepVars
    BY <2>3 DEF stepVars, Work, History
  <2> QED
    BY <2>1, <2>2, <2>3, PrSteps
<1> QED
  BY <1>1, <1>2, HandInvariant, PTL
  DEF Spec, ImplementsSafeHealer, Safe!Spec, Safe!vars

----------------------------------------------------------------------------
\* The way back

\* Git refuses at most one commit per file: no other rule patches a file whose
\* commits it may refuse, and the operator is not at work in it.
RefusedOnce ==
  \A f \in Hooked :
    /\ f \notin OperatorFiles
    /\ \A p, q \in Failures : Rule[p].target = f /\ Rule[q].target = f => p = q

\* A file the branches differ in holds no edit of the agent's, for a commit of
\* it landed and no rule is left that would patch it again.
BaseInv ==
  /\ stage \in {"run", "branch"} => head = "base" /\ differ = {} /\ pc = "idle"
  /\ pc # "idle" => cur.failure \notin todo
  /\ \A f \in differ \cap Hooked :
       /\ "agent" \notin tree[f].by
       /\ \A p \in todo : Rule[p].target # f
       /\ pc # "idle" => cur.fix.target # f
  /\ BackOnBase

LEMMA InitBase == Init => BaseInv
  BY DEF Init, StepInit, BaseInv, BackOnBase

\* Steps that touch no file and pick up no failure.
LEMMA QuietBase ==
  ASSUME BaseInv, UNCHANGED <<tree, todo, differ, head>>,
         pc' = "idle" \/ UNCHANGED <<pc, cur>> \/ (pc # "idle" /\ cur' = cur),
         stage' \in {"run", "branch"} => stage = "run" /\ pc' = pc,
         stage' = "done" => stage = "done" \/ head = "base"
  PROVE  BaseInv'
  BY DEF BaseInv, BackOnBase

LEMMA NextBase ==
  ASSUME RulesAlone, RefusedOnce, HandInv, StrandInv, BaseInv, [Next]_vars
  PROVE  BaseInv'
<1> USE DEF HandInv
<1>1. CASE Run \/ CreateBranch
  BY <1>1 DEF Run, CreateBranch, stepVars, BaseInv, BackOnBase
<1>2. CASE TakeFailure
  <2>1. PICK p \in todo : Diagnose(p) /\ todo' = todo \ {p}
    BY <1>2 DEF TakeFailure
  <2>2. cur'.failure = p /\ cur'.fix = Rule[p] /\ pc' = "check" /\ pc = "idle"
    BY <2>1 DEF Diagnose, FallbackDiagnose, RulesAlone
  <2>3. UNCHANGED <<tree, stage, head, differ>> /\ stage = "patch"
    BY <1>2, <2>1 DEF TakeFailure, Diagnose, repoVars
  <2> QED
    BY <2>1, <2>2, <2>3 DEF BaseInv, BackOnBase
<1>3. CASE HandleFailure /\ UNCHANGED prVars
  <2>1. stage \notin {"run", "branch"} /\ pc # "idle"
    BY <1>3 DEF HandleFailure, DeclineDirty, DeclineNoFix, NoteClean,
       PatchBlocked, PatchFailed, FallBack, RetryRefused, RetryNoFix,
       ReadTarget, WriteTarget, CommitRefused, BaseInv
  <2>2. CASE WriteTarget
    <3>1. /\ pc' = "commit" /\ cur' = cur
          /\ \A f \in Files : f # cur.fix.target => tree'[f] = tree[f]
      BY <2>2 DEF WriteTarget, TypeOK, StepTypeOK
    <3>2. stage = "patch"
      BY <2>2 DEF WriteTarget, NothingInHand
    <3> QED
      BY <1>3, <2>1, <3>1, <3>2 DEF prVars, BaseInv, BackOnBase, TypeOK
  <2>3. CASE ~WriteTarget /\ ~FallBack
    <3>1. /\ UNCHANGED tree
          /\ pc' = "idle" \/ cur' = cur
      BY <1>3, <2>3 DEF HandleFailure, DeclineDirty, DeclineNoFix, NoteClean,
         PatchBlocked, PatchFailed, RetryRefused, RetryNoFix, ReadTarget,
         CommitRefused, Finish, repoVars
    <3> QED
      BY <1>3, <2>1, <3>1 DEF prVars, BaseInv, BackOnBase
  <2>4. CASE FallBack
    BY <2>4 DEF FallBack, StepInv
  <2> QED
    BY <2>2, <2>3, <2>4
<1>4. CASE Commit
  <2>1. CASE CommitLands
    <3>1. /\ pc = "commit" /\ pc' = "idle"
          /\ differ' = differ \cup {cur.fix.target}
          /\ UNCHANGED <<stage, todo, head>>
      BY <1>4, <2>1, PatchAssumption
      DEF Commit, CommitLands, CommitNothing, Finish, NoFix, PatchAssumption
    <3>2. /\ tree'[cur.fix.target].by = {}
          /\ \A f \in Files : f # cur.fix.target => tree'[f] = tree[f]
      BY <2>1 DEF CommitLands, TypeOK, StepTypeOK, Content
    <3>3. cur.fix.target \in Hooked =>
            \A p \in todo : Rule[p].target # cur.fix.target
      <4>1. cur.failure \in Failures /\ cur.fix = Rule[cur.failure]
        BY <3>1 DEF TypeOK, StepTypeOK, Case, StrandInv
      <4> QED
        BY <3>1, <4>1 DEF RefusedOnce, BaseInv, TypeOK
    <3>4. stage = "patch"
      BY <3>1 DEF NothingInHand
    <3> QED
      BY <3>1, <3>2, <3>3, <3>4 DEF BaseInv, BackOnBase, TypeOK
  <2>2. CASE CommitNothing
    BY <2>2, PatchAssumption
    DEF CommitNothing, StepInv, InHandIsClean, NoFix, PatchAssumption
  <2> QED
    BY <1>4, <2>1, <2>2 DEF Commit
<1>5. CASE EndPatching \/ Publish
  BY <1>5, QuietBase DEF EndPatching, Publish, stepVars
<1>6. CASE Return \/ Reraise
  <2>1. /\ UNCHANGED <<pc, cur, todo, differ>> /\ stage' = "done"
        /\ \A f \in Files : tree'[f].by = tree[f].by
        /\ pc \in {"idle", "raised"}
    BY <1>6, CheckoutWork DEF Return, Reraise, CheckoutBase
  <2>2. head' = "base" \/ Conflict
    BY <1>6 DEF Return, Reraise, CheckoutBase
  <2>3. ASSUME NEW f \in differ, IsDirty(f)
        PROVE  "operator" \in tree[f].by
    <3>1. "agent" \notin tree[f].by
      BY <2>1, <2>3 DEF BaseInv, StrandInv, TypeOK, IsDirty
    <3>2. tree[f].by \subseteq {"agent", "operator"}
      BY DEF TypeOK, StepTypeOK, Content, Authors
    <3> QED
      BY <2>3, <3>1, <3>2 DEF IsDirty
  <2> QED
    BY <2>1, <2>2, <2>3 DEF BaseInv, BackOnBase, Conflict, TypeOK
<1>7. CASE Raise
  <2>1. UNCHANGED <<tree, todo, head, differ, cur>> /\ pc # "idle"
        /\ stage' = "raise"
    BY <1>7 DEF Raise, DecodeError, repoVars
  <2> QED
    BY <2>1, QuietBase
<1>8. CASE Operator
  <2>1. PICK f \in Files :
          \/ OperatorEdit(f) /\ UNCHANGED differ
          \/ /\ OperatorCommit(f)
             /\ differ' = IF head = "heal" THEN differ \cup {f} ELSE differ
    BY <1>8 DEF Operator
  <2>2. /\ f \notin Hooked
        /\ UNCHANGED <<pc, cur, stage, todo, head>> /\ stage # "done"
        /\ \A g \in Files : g # f => tree'[g] = tree[g]
    BY <1>8, <2>1
    DEF Operator, OperatorEdit, OperatorCommit, MayTouch, RefusedOnce,
        TypeOK, StepTypeOK
  <2> QED
    BY <2>1, <2>2 DEF BaseInv, BackOnBase, TypeOK
<1>9. CASE Ended \/ UNCHANGED vars
  BY <1>9 DEF Ended, vars, stepVars, prVars, BaseInv, BackOnBase
<1> QED
  BY <1>1, <1>2, <1>3, <1>4, <1>5, <1>6, <1>7, <1>8, <1>9 DEF Next, Agent

\* The operator is on their own branch again when heal() is over, unless an
\* edit of theirs is in the way or git refused a commit on a file that another
\* commit of the run had changed (core._heal_pr, checkout(base_ref)).
THEOREM Back ==
  ASSUME RulesAlone, RefusedOnce PROVE Spec => []BackOnBase
<1>1. Init => StrandInv
  BY StepInitStrand DEF Init
<1>2. HandInv /\ StrandInv /\ [Next]_vars => StrandInv'
  <2> SUFFICES ASSUME HandInv, StrandInv, [Next]_vars
               PROVE  StrandInv'
    OBVIOUS
  <2> USE DEF HandInv
  <2>1. CASE PatchNext
    BY <2>1, StepStrand
  <2>2. CASE Return \/ Reraise
    BY <2>2, CheckoutWork DEF StrandInv
  <2>3. CASE UNCHANGED stepVars
    BY <2>3 DEF stepVars, StrandInv
  <2> QED
    BY <2>1, <2>2, <2>3, PrSteps
<1>3. BaseInv => BackOnBase
  BY DEF BaseInv
<1> QED
  BY <1>1, <1>2, <1>3, InitBase, NextBase, HandInvariant, PTL DEF Spec

----------------------------------------------------------------------------
\* The report

\* With the rules alone every failure that is handled without a commit is
\* accounted for on HealResult (core._pr_patch_loop, declined and blocked).
THEOREM Reported ==
  ASSUME RulesAlone PROVE Spec => RefusalReported
<1>1. HandInv /\ [Next]_vars =>
        [pc # "idle" /\ pc' = "idle" /\ log' = log =>
           \E r \in declined' \cup blocked' :
             r.about \in {cur.failure, cur.fix.target}]_stepVars
  <2> SUFFICES ASSUME HandInv, [Next]_vars, ~UNCHANGED stepVars,
                      pc # "idle", pc' = "idle", log' = log
               PROVE  \E r \in declined' \cup blocked' :
                        r.about \in {cur.failure, cur.fix.target}
    OBVIOUS
  <2>1. ~(Return \/ Reraise)
    BY CheckoutWork DEF HandInv
  <2> QED
    BY <2>1, StepReported, PrSteps DEF HandInv
<1> QED
  BY <1>1, HandInvariant, PTL DEF Spec, RefusalReported

\* Success and a push are only ever claimed for a branch once commits exist.
ClaimInv ==
  /\ stage \in {"run", "branch"} => ~result.branch
  /\ stage \in {"run", "branch", "patch", "publish"} =>
       ~result.success /\ ~result.pushed
  /\ SuccessIsReviewable

\* With the rules alone, a branch that is pushed or called a success has a
\* commit on it (core._heal_pr, "a reviewable change was produced").
THEOREM Reviewable ==
  ASSUME RulesAlone PROVE Spec => []SuccessIsReviewable
<1>1. Init => ClaimInv
  BY DEF Init, ClaimInv, SuccessIsReviewable
<1>2. HandInv /\ ClaimInv /\ [Next]_vars => ClaimInv'
  <2> SUFFICES ASSUME HandInv, ClaimInv, [Next]_vars
               PROVE  ClaimInv'
    OBVIOUS
  <2> USE DEF ClaimInv, SuccessIsReviewable
  <2>1. log # <<>> => log' # <<>>
    <3>1. CASE CommitLands
      BY <3>1 DEF CommitLands, HandInv, TypeOK, StepTypeOK
    <3>2. CASE ~CommitLands
      BY <3>2, LoopSteps, CheckoutTree
      DEF HandInv, TypeOK, PatchNext, HandleFailure, Diagnose, DeclineDirty,
          DeclineNoFix, NoteClean, PatchBlocked, PatchFailed, FallBack,
          RetryRefused, RetryNoFix, ReadTarget, WriteTarget, CommitRefused,
          CommitNothing, DecodeError, OperatorEdit, OperatorCommit, repoVars,
          stepVars
    <3> QED
      BY <3>1, <3>2
  <2>2. CASE Run
    <3>1. /\ result'.branch = result.branch /\ ~result.branch
          /\ stage' # "publish" /\ stage' # "patch"
          /\ stage' = "branch" => result' = result
      BY <2>2 DEF Run, HandInv, TypeOK, Result
    <3> QED
      BY <2>2, <3>1 DEF Run
  <2>3. CASE CreateBranch
    BY <2>3 DEF CreateBranch, HandInv, TypeOK, Result
  <2>4. CASE Publish
    <3>1. commits # <<>> => log # <<>>
      BY DEF HandInv, StepInv, RecordedAreLanded, TypeOK, StepTypeOK
    <3>2. /\ result'.branch = result.branch /\ stage' = "return"
          /\ log' = log
          /\ commits = <<>> => /\ result'.success = result.success
                               /\ result'.pushed = result.pushed
      BY <2>4 DEF Publish, HandInv, TypeOK, Result, stepVars
    <3> QED
      BY <2>4, <3>1, <3>2 DEF Publish
  <2>5. CASE UNCHANGED result /\ stage \notin {"run", "branch"}
             /\ stage' \notin {"run", "branch"}
             /\ (stage \notin {"patch", "publish"} =>
                   stage' \notin {"patch", "publish"})
    BY <2>1, <2>5
  <2>6. CASE UNCHANGED <<result, stage>>
    BY <2>1, <2>6
  <2>7. CASE EndPatching \/ Return \/ Reraise \/ Raise
    <3>1. Raise => stage = "patch"
      BY DEF Raise, DecodeError, HandInv, NothingInHand
    <3> QED
      BY <2>5, <2>7, <3>1
      DEF EndPatching, Return, Reraise, Raise, CheckoutBase
  <2> QED
    BY <2>2, <2>3, <2>4, <2>6, <2>7
    DEF Next, Agent, TakeFailure, Commit, Operator, Ended, vars, prVars
<1>3. ClaimInv => SuccessIsReviewable
  BY DEF ClaimInv
<1> QED
  BY <1>1, <1>2, <1>3, HandInvariant, PTL DEF Spec
============================================================================
