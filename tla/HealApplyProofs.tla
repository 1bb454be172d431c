-------------------------- MODULE HealApplyProofs --------------------------
(***************************************************************************)
(* Theorems about the apply loop, for every repository, every set of rules *)
(* and every retry budget.                                                 *)
(***************************************************************************)
EXTENDS HealApply, PatchStepProofs, FiniteSetTheorems

\* The loop adds its bookkeeping to the steps of a failure, and nothing else.
LEMMA LoopSteps ==
  ASSUME TypeOK, [Next]_vars
  PROVE  PatchNext \/ UNCHANGED stepVars
<1>1. CASE TakeFailure
  BY <1>1 DEF TakeFailure, TypeOK, PatchNext
<1>2. CASE HandleFailure \/ Commit \/ Raise \/ Operator
  BY <1>2 DEF Commit, Raise, Operator, PatchNext
<1>3. CASE Green \/ GiveUp \/ Collect \/ EndRound \/ Ended \/ UNCHANGED vars
  BY <1>3 DEF Green, GiveUp, Collect, EndRound, Ended, vars
<1> QED
  BY <1>1, <1>2, <1>3 DEF Next, Agent

----------------------------------------------------------------------------
\* Types

\* A round is only begun inside the budget, so its end cannot overrun it.
TypeInv == TypeOK /\ (stage = "round" => iter < MaxRetries)

LEMMA InitTypes == Init => TypeInv
<1>1. Init => iter \in 0..MaxRetries /\ applied = {} /\ stage = "run"
  BY LoopAssumption DEF Init, LoopAssumption
<1>2. Init => StepTypeOK /\ todo \subseteq Failures /\ outcome = "none"
  BY StepInitTypes DEF Init
<1>3. Init => before \in Nat
  BY DEF Init
<1>4. Init => progressed \in BOOLEAN
  BY DEF Init
<1> QED
  BY <1>1, <1>2, <1>3, <1>4 DEF TypeInv, TypeOK

LEMMA SignatureTypes ==
  ASSUME StepTypeOK
  PROVE  Signature(cur.fix) \in {Signature(x) : x \in Fix \cup {NoFix}}
  BY CurTypes DEF StepTypeOK

LEMMA StepTypesKept ==
  ASSUME StepTypeOK, UNCHANGED stepVars
  PROVE  StepTypeOK'
  BY DEF StepTypeOK, stepVars

LEMMA NextTypes ==
  ASSUME TypeInv, [Next]_vars
  PROVE  TypeInv'
<1>1. StepTypeOK'
  BY LoopSteps, StepTypes, StepTypesKept DEF TypeInv, TypeOK
<1> USE LoopAssumption DEF TypeInv, TypeOK, LoopAssumption
<1>2. CASE Green
  BY <1>1, <1>2 DEF Green, Stop
<1>3. CASE GiveUp
  BY <1>1, <1>3 DEF GiveUp, Stop
<1>4. CASE Collect
  <2>1. todo' \subseteq Failures
    BY <1>4, PatchAssumption DEF Collect, Broken, PatchAssumption
  <2>2. before' \in Nat
    BY <1>4 DEF Collect, StepTypeOK
  <2> QED
    BY <1>1, <1>4, <2>1, <2>2 DEF Collect
<1>5. CASE TakeFailure
  BY <1>1, <1>5 DEF TakeFailure
<1>6. CASE HandleFailure /\ UNCHANGED loopVars
  BY <1>1, <1>6 DEF loopVars
<1>7. CASE Commit
  <2>1. progressed' \in BOOLEAN
    BY <1>7 DEF Commit, NoteProgress
  <2>2. applied' \subseteq {Signature(x) : x \in Fix \cup {NoFix}}
    BY <1>7, SignatureTypes DEF Commit, NoteProgress
  <2> QED
    BY <1>1, <1>7, <2>1, <2>2 DEF Commit, NoteProgress
<1>8. CASE Raise
  BY <1>1, <1>8 DEF Raise, Stop
<1>9. CASE EndRound
  <2>1. iter' \in 0..MaxRetries
    BY <1>9 DEF EndRound
  <2> QED
    BY <1>1, <1>9, <2>1 DEF EndRound, Stop
<1>10. CASE Operator
  BY <1>1, <1>10 DEF Operator, loopVars
<1>11. CASE Ended \/ UNCHANGED vars
  BY <1>1, <1>11 DEF Ended, vars, loopVars
<1> QED
  BY <1>2, <1>3, <1>4, <1>5, <1>6, <1>7, <1>8, <1>9, <1>10, <1>11
  DEF Next, Agent

\* The state of the loop is always well-typed, for every repository, whatever
\* the LLM answers, however the operator interferes (core._heal_apply).
THEOREM Typed == Spec => []TypeOK
<1>1. TypeInv => TypeOK
  BY DEF TypeInv
<1> QED
  BY InitTypes, NextTypes, <1>1, PTL DEF Spec

----------------------------------------------------------------------------
\* What the loop does to the operator's files

\* An edit of the agent's that it could not commit is always reported: with
\* the LLM, with its fallback, with an operator who races (core._heal_apply,
\* the GitStateError branch, and every path that leaves a failure alone).
THEOREM StrandedReported == Spec => []StrandedIsReported
<1>1. Init => StrandedIsReported
  BY InitTree DEF Init, StrandedIsReported
<1>2. TypeOK /\ StrandedIsReported /\ [Next]_vars => StrandedIsReported'
  <2> SUFFICES ASSUME TypeOK, StrandedIsReported, [Next]_vars
               PROVE  StrandedIsReported'
    OBVIOUS
  <2>1. CASE PatchNext
    BY <2>1, StepStranded DEF TypeOK
  <2>2. CASE UNCHANGED stepVars
    BY <2>2 DEF stepVars, StrandedIsReported
  <2> QED
    BY <2>1, <2>2, LoopSteps
<1> QED
  BY <1>1, <1>2, Typed, PTL DEF Spec

LEMMA HandInvariant == ASSUME RulesAlone PROVE Spec => []StepInv
<1>1. Init => StepInv
  BY StepInitInv DEF Init
<1>2. TypeOK /\ StepInv /\ [Next]_vars => StepInv'
  <2> SUFFICES ASSUME TypeOK, StepInv, [Next]_vars
               PROVE  StepInv'
    OBVIOUS
  <2>1. CASE PatchNext
    BY <2>1, StepKeepsInv
  <2>2. CASE UNCHANGED stepVars
    BY <2>2 DEF stepVars, StepInv, StepTypeOK, IgnoredIsOwn, InHandIsClean,
                CommitsOnlyAgentWork, RecordedAreLanded
  <2> QED
    BY <2>1, <2>2, LoopSteps
<1> QED
  BY <1>1, <1>2, Typed, PTL DEF Spec

\* With the deterministic rules no commit of the agent's holds a change of
\* the operator's, over any number of rounds, as long as the operator keeps
\* off the one file in hand and off the files git is told to ignore
\* (git_helper.check_and_note_clean / was_dirty).
THEOREM OwnWorkOnly ==
  ASSUME RulesAlone PROVE Spec => []CommitsOnlyAgentWork
<1>1. StepInv => CommitsOnlyAgentWork
  BY DEF StepInv
<1> QED
  BY <1>1, HandInvariant, PTL

\* Under the same conditions every SHA the loop records is a commit and every
\* commit is recorded (core._heal_apply, rec.commits.append).
THEOREM Recorded ==
  ASSUME RulesAlone PROVE Spec => []RecordedAreLanded
<1>1. StepInv => RecordedAreLanded
  BY DEF StepInv
<1> QED
  BY <1>1, HandInvariant, PTL

\* And no write of the agent's goes into a file with uncommitted changes
\* (core._diagnose_and_patch, the check before apply_fix).
THEOREM NeverOverWip ==
  ASSUME RulesAlone PROVE Spec => NeverWritesOverWip
<1>1. TypeOK /\ StepInv /\ [Next]_vars =>
        [\A f \in Files : "agent" \in tree'[f].by \ tree[f].by
                            => tree[f].by = {}]_stepVars
  <2> SUFFICES ASSUME TypeOK, StepInv, [Next]_vars, ~UNCHANGED stepVars,
                      NEW f \in Files, "agent" \in tree'[f].by \ tree[f].by
               PROVE  tree[f].by = {}
    OBVIOUS
  <2>1. PatchNext
    BY LoopSteps
  <2> QED
    BY <2>1, StepNeverOverWip DEF StepInv
<1> QED
  BY <1>1, HandInvariant, Typed, PTL DEF Spec, NeverWritesOverWip

\* With the LLM too, whatever it answers: only the rule's fix that follows a
\* failed patch of the LLM's goes into a file with uncommitted work, or is
\* committed with it (core._diagnose_and_patch).
THEOREM RetriesOnly ==
  ASSUME OperatorInSight PROVE Spec => OnlyRetriesAreUnchecked
<1> DEFINE HandInv == IgnoredIsOwn /\ InHandIsClean
<1>1. Init => HandInv
  BY StepInitInHand DEF Init
<1>2. TypeOK /\ HandInv /\ [Next]_vars => HandInv'
  <2> SUFFICES ASSUME TypeOK, HandInv, [Next]_vars
               PROVE  HandInv'
    OBVIOUS
  <2>1. CASE PatchNext
    BY <2>1, StepIgnored, StepInHand DEF TypeOK
  <2>2. CASE UNCHANGED stepVars
    BY <2>2 DEF stepVars, IgnoredIsOwn, InHandIsClean
  <2> QED
    BY <2>1, <2>2, LoopSteps
<1>3. TypeOK /\ HandInv /\ [Next]_vars =>
        [cur.source # "retry" =>
           /\ \A f \in Files :
                "agent" \in tree'[f].by \ tree[f].by => tree[f].by = {}
           /\ \A i \in DOMAIN log' :
                i > Len(log) => log'[i].by = {"agent"}]_stepVars
  <2> SUFFICES ASSUME TypeOK, HandInv, [Next]_vars,
                      ~UNCHANGED stepVars, cur.source # "retry"
               PROVE  /\ \A f \in Files :
                           "agent" \in tree'[f].by \ tree[f].by
                             => tree[f].by = {}
                      /\ \A i \in DOMAIN log' :
                           i > Len(log) => log'[i].by = {"agent"}
    OBVIOUS
  <2>1. PatchNext
    BY LoopSteps
  <2>2. \A i \in DOMAIN log' : i > Len(log) => i \notin DOMAIN log
    BY DEF TypeOK, StepTypeOK
  <2> QED
    BY <2>1, <2>2, StepNeverOverWip, StepOwnWork DEF TypeOK
<1> QED
  BY <1>1, <1>2, <1>3, Typed, PTL DEF Spec, OnlyRetriesAreUnchecked

----------------------------------------------------------------------------
\* What a run leaves in the tree

LEMMA StrandInvariant == ASSUME RulesAlone PROVE Spec => []StrandInv
<1>1. Init => StrandInv
  BY StepInitStrand DEF Init
<1>2. TypeOK /\ StepInv /\ StrandInv /\ [Next]_vars => StrandInv'
  <2> SUFFICES ASSUME TypeOK, StepInv, StrandInv, [Next]_vars
               PROVE  StrandInv'
    OBVIOUS
  <2>1. CASE PatchNext
    BY <2>1, StepStrand
  <2>2. CASE UNCHANGED stepVars
    BY <2>2 DEF stepVars, StrandInv
  <2> QED
    BY <2>1, <2>2, LoopSteps
<1> QED
  BY <1>1, <1>2, Typed, HandInvariant, PTL DEF Spec

\* With the rules alone an edit that stays uncommitted is one that git itself
\* would not commit, and heal() names its file, over any number of rounds and
\* however the run ends, a green end included (core._heal_apply returns on a
\* green run without looking at the tree; the GitStateError branch).
THEOREM GitAloneStrands ==
  ASSUME RulesAlone PROVE Spec => []OnlyGitStrands
<1>1. StrandInv /\ StrandedIsReported => OnlyGitStrands
  BY DEF StrandInv, StrandedIsReported, OnlyGitStrands
<1> QED
  BY <1>1, StrandInvariant, StrandedReported, PTL

----------------------------------------------------------------------------
\* The budget

\* A round in which something new landed has already paid for its successor.
BudgetInv ==
  /\ IsFiniteSet(applied)
  /\ iter <= Cardinality(applied)
  /\ stage = "round" /\ progressed => iter < Cardinality(applied)

\* Every round but the last applies a fix that no earlier round did, with any
\* rules, any LLM and any operator (core._heal_apply, _fix_signature).
THEOREM NewFixEveryRound == Spec => []EveryRoundBringsANewFix
<1>1. Init => BudgetInv
  BY FS_EmptySet DEF Init, BudgetInv
<1>2. TypeOK /\ BudgetInv /\ [Next]_vars => BudgetInv'
  <2> SUFFICES ASSUME TypeOK, BudgetInv, [Next]_vars
               PROVE  BudgetInv'
    OBVIOUS
  <2>1. iter \in Nat /\ Cardinality(applied) \in Nat
    BY FS_CardinalityType, LoopAssumption
    DEF TypeOK, BudgetInv, LoopAssumption
  <2>2. CASE Commit
    <3> DEFINE s == Signature(cur.fix)
    <3>1. /\ applied' = applied \cup {s}
          /\ progressed' = (progressed \/ s \notin applied)
          /\ UNCHANGED <<stage, iter>>
      BY <2>2 DEF Commit, NoteProgress
    <3>2. CASE s \in applied
      <4>1. applied' = applied
        BY <3>1, <3>2
      <4> QED
        BY <3>1, <3>2, <4>1 DEF BudgetInv
    <3>3. CASE s \notin applied
      <4>1. /\ IsFiniteSet(applied')
            /\ Cardinality(applied') = Cardinality(applied) + 1
        BY <3>1, <3>3, FS_AddElement DEF BudgetInv
      <4> QED
        BY <2>1, <3>1, <4>1 DEF BudgetInv
    <3> QED
      BY <3>2, <3>3
  <2>3. CASE Collect
    BY <2>3 DEF Collect, BudgetInv
  <2>4. CASE EndRound
    BY <2>1, <2>4 DEF EndRound, Stop, BudgetInv
  <2>5. CASE Green \/ GiveUp \/ Raise
    BY <2>5 DEF Green, GiveUp, Raise, Stop, BudgetInv
  <2>6. CASE UNCHANGED <<stage, iter, applied, progressed>>
    BY <2>6 DEF BudgetInv
  <2> QED
    BY <2>2, <2>3, <2>4, <2>5, <2>6
    DEF Next, Agent, TakeFailure, Operator, Ended, vars, loopVars
<1>3. BudgetInv => EveryRoundBringsANewFix
  BY DEF BudgetInv, EveryRoundBringsANewFix
<1> QED
  BY <1>1, <1>2, <1>3, Typed, PTL DEF Spec

----------------------------------------------------------------------------
\* What a stalled run has done

\* No two fixes of the rules differ in nothing but what _fix_signature leaves
\* out: it reads no key of a module's successor or of a collection's name.
SignaturesTell ==
  \A p, q \in Failures :
    Signature(Rule[p]) = Signature(Rule[q]) => Rule[p].remedy = Rule[q].remedy

\* One of the first n commits of l carries a fix of this signature.
Landed(l, s, n) ==
  \E j \in 1..n : \E x \in Fix :
    /\ Known(x) /\ s = Signature(x)
    /\ l[j].target = x.target /\ l[j].remedy = x.remedy

Repeats(l, i, n) ==
  \E j \in 1..n : l[j].target = l[i].target /\ l[j].remedy = l[i].remedy

Stalling == (stage = "round" /\ ~progressed) \/ outcome = "stalled"

\* In a round without progress every signature applied is that of a commit
\* from before the round.
StallInv ==
  /\ before <= Len(log)
  /\ \A s \in applied :
       \/ s = Signature(NoFix)
       \/ Landed(log, s, IF Stalling THEN before ELSE Len(log))
  /\ Stalling => \A i \in DOMAIN log : i > before => Repeats(log, i, before)

\* A signature tells the fix, under that assumption.
LEMMA TellsRemedy ==
  ASSUME SignaturesTell,
         NEW x \in Fix, NEW y \in Fix, Known(x), Known(y),
         Signature(x) = Signature(y)
  PROVE  x.target = y.target /\ x.remedy = y.remedy
<1>1. x.action = y.action /\ x.target = y.target
  BY DEF Signature
<1>2. CASE x.action \in {"replace_module", "declare_collection"}
  <2>1. /\ \E p \in Failures : x = Rule[p]
        /\ \E q \in Failures : y = Rule[q]
    BY <1>1, <1>2 DEF Known
  <2> QED
    BY <1>1, <2>1 DEF SignaturesTell
<1>3. CASE x.action \notin {"replace_module", "declare_collection"}
  BY <1>1, <1>3 DEF Signature, Fix
<1> QED
  BY <1>1, <1>2, <1>3

LEMMA NoFixIsApart ==
  ASSUME NEW x \in Fix
  PROVE  Signature(x) # Signature(NoFix)
  BY DEF Signature, NoFix, Fix

\* A commit leaves what has landed landed.
LEMMA LandedStays ==
  ASSUME NEW l, NEW k, NEW s, NEW n \in Nat, NEW m \in Nat, n <= m,
         \A j \in 1..n : k[j] = l[j], Landed(l, s, n)
  PROVE  Landed(k, s, m)
<1>1. PICK j \in 1..n : \E x \in Fix :
        /\ Known(x) /\ s = Signature(x)
        /\ l[j].target = x.target /\ l[j].remedy = x.remedy
  BY DEF Landed
<1>2. j \in 1..m /\ k[j] = l[j]
  BY <1>1
<1> QED
  BY <1>1, <1>2 DEF Landed

\* Between the rounds, and after the last one, no failure is in hand.
LoopInv ==
  /\ stage # "round" => pc \in {"idle", "raised"}
  /\ outcome # "none" => stage = "done"

LEMMA InitLoop == Init => LoopInv
  BY DEF Init, StepInit, LoopInv

LEMMA NextLoop ==
  ASSUME TypeOK, LoopInv, [Next]_vars
  PROVE  LoopInv'
<1> USE DEF LoopInv
<1>1. CASE Green \/ GiveUp \/ EndRound
  <2>1. pc' = pc
    BY <1>1 DEF Green, GiveUp, EndRound, stepVars
  <2>2. pc \in {"idle", "raised"} /\ (stage' = "done" \/ outcome' = outcome)
    BY <1>1 DEF Green, GiveUp, EndRound, Stop
  <2>3. outcome' # "none" => stage' = "done"
    BY <1>1 DEF Green, GiveUp, EndRound, Stop
  <2> QED
    BY <2>1, <2>2, <2>3
<1>2. CASE Collect \/ TakeFailure \/ Raise
  BY <1>2 DEF Collect, TakeFailure, Raise, DecodeError, Stop
<1>3. CASE HandleFailure /\ UNCHANGED loopVars
  <2>1. pc \notin {"idle", "raised"}
    BY <1>3
    DEF HandleFailure, DeclineDirty, DeclineNoFix, NoteClean, PatchBlocked,
        PatchFailed, FallBack, RetryRefused, RetryNoFix, ReadTarget,
        WriteTarget, CommitRefused
  <2> QED
    BY <1>3, <2>1 DEF loopVars
<1>4. CASE Commit
  BY <1>4 DEF Commit, CommitLands, CommitNothing, Finish, NoteProgress
<1>5. CASE Operator
  <2>1. UNCHANGED <<pc, stage, outcome>>
    BY <1>5 DEF Operator, OperatorEdit, OperatorCommit, loopVars
  <2> QED
    BY <2>1
<1>6. CASE Ended \/ UNCHANGED vars
  BY <1>6 DEF Ended, vars, stepVars, loopVars
<1> QED
  BY <1>1, <1>2, <1>3, <1>4, <1>5, <1>6 DEF Next, Agent

LEMMA NextStall ==
  ASSUME SignaturesTell, TypeOK, LoopInv, FixIsKnown, StallInv, [Next]_vars
  PROVE  StallInv'
<1> DEFINE Far == IF Stalling THEN before ELSE Len(log)
<1>0. /\ before \in Nat /\ Len(log) \in Nat /\ Far \in Nat
      /\ Far <= Len(log) /\ before <= Len(log) /\ DOMAIN log = 1..Len(log)
  BY DEF TypeOK, StepTypeOK, StallInv
<1>1. \A s : Landed(log, s, before) => Landed(log, s, Len(log))
  BY <1>0 DEF Landed
<1>2. CASE Commit /\ CommitLands
  <2> DEFINE e == [target |-> cur.fix.target, remedy |-> cur.fix.remedy,
                   by |-> tree[cur.fix.target].by]
             g == Signature(cur.fix)
  <2>1. /\ cur.fix \in Fix /\ Known(cur.fix) /\ pc = "commit" /\ e \in Entry
        /\ cur.fix # NoFix
    <3>1. pc = "commit" /\ cur.fix.target \in Files
      BY <1>2 DEF CommitLands
    <3>2. cur.fix \in Fix /\ cur.fix.remedy \in Edits
      BY <3>1, CurTypes DEF TypeOK, StepTypeOK
    <3>3. cur.fix # NoFix
      BY <3>1, PatchAssumption DEF NoFix, PatchAssumption
    <3>4. tree[cur.fix.target].by \in SUBSET Authors
      BY <3>1 DEF TypeOK, StepTypeOK, Content
    <3> QED
      BY <3>1, <3>2, <3>3, <3>4 DEF FixIsKnown, Entry
  <2>2. /\ log' = Append(log, e)
        /\ applied' = applied \cup {g}
        /\ progressed' = (progressed \/ g \notin applied)
        /\ UNCHANGED <<stage, before, outcome>>
    BY <1>2 DEF Commit, CommitLands, NoteProgress
  <2>3. /\ Len(log') = Len(log) + 1 /\ log'[Len(log) + 1] = e
        /\ \A i \in 1..Len(log) : log'[i] = log[i]
        /\ DOMAIN log' = 1..(Len(log) + 1)
    BY <2>1, <2>2 DEF TypeOK, StepTypeOK
  <2>4. stage = "round" /\ outcome = "none"
    BY <2>1 DEF LoopInv
  <2>5. CASE g \notin applied \/ progressed
    <3>1. ~Stalling'
      BY <2>2, <2>4, <2>5 DEF Stalling
    <3>2. Landed(log', g, Len(log'))
      BY <2>1, <2>3, <1>0 DEF Landed
    <3>3. \A s : Landed(log, s, Far) => Landed(log', s, Len(log'))
      <4> SUFFICES ASSUME NEW s, Landed(log, s, Far)
                   PROVE  Landed(log', s, Len(log'))
        OBVIOUS
      <4>1. /\ Len(log') \in Nat /\ Far <= Len(log')
            /\ \A j \in 1..Far : log'[j] = log[j]
        BY <1>0, <2>3
      <4> HIDE DEF Far
      <4> QED
        BY <1>0, <4>1, LandedStays
    <3>4. \A s \in applied' : s = Signature(NoFix) \/ Landed(log', s, Len(log'))
      BY <2>2, <3>2, <3>3 DEF StallInv
    <3>5. before' <= Len(log')
      BY <1>0, <2>2, <2>3
    <3> QED
      BY <3>1, <3>4, <3>5 DEF StallInv
  <2>6. CASE g \in applied /\ ~progressed
    <3>1. Stalling /\ Stalling' /\ applied' = applied
      BY <2>2, <2>4, <2>6 DEF Stalling
    <3>2. \A s : Landed(log, s, before) => Landed(log', s, before)
      <4>1. \A j \in 1..before : log'[j] = log[j]
        BY <1>0, <2>3
      <4> QED
        BY <1>0, <4>1, LandedStays
    <3>3. Landed(log, g, before)
      BY <2>1, <2>6, <3>1, NoFixIsApart DEF StallInv
    <3>4. PICK j \in 1..before : \E x \in Fix :
            /\ Known(x) /\ g = Signature(x)
            /\ log[j].target = x.target /\ log[j].remedy = x.remedy
      BY <3>3 DEF Landed
    <3>5. log[j].target = e.target /\ log[j].remedy = e.remedy
      BY <2>1, <3>4, TellsRemedy
    <3>6. \A i \in DOMAIN log' : i > before => Repeats(log', i, before)
      <4> SUFFICES ASSUME NEW i \in DOMAIN log', i > before
                   PROVE  Repeats(log', i, before)
        OBVIOUS
      <4>1. CASE i = Len(log) + 1
        BY <1>0, <2>3, <3>4, <3>5, <4>1 DEF Repeats
      <4>2. CASE i \in DOMAIN log
        <5>1. PICK k \in 1..before : log[k].target = log[i].target
                                     /\ log[k].remedy = log[i].remedy
          BY <3>1, <4>2 DEF StallInv, Repeats
        <5>2. log'[k] = log[k] /\ log'[i] = log[i]
          BY <1>0, <2>3, <4>2, <5>1
        <5> QED
          BY <5>1, <5>2 DEF Repeats
      <4> QED
        BY <1>0, <2>3, <4>1, <4>2
    <3>7. \A s \in applied' : s = Signature(NoFix) \/ Landed(log', s, before')
      BY <2>2, <3>1, <3>2 DEF StallInv
    <3>8. before' = before /\ before' <= Len(log')
      BY <1>0, <2>2, <2>3
    <3> QED
      BY <3>1, <3>6, <3>7, <3>8 DEF StallInv
  <2> QED
    BY <2>5, <2>6
<1> HIDE DEF Far
<1>3. CASE Commit /\ CommitNothing
  <2>1. /\ cur.fix = NoFix /\ UNCHANGED <<log, stage, before, outcome>>
        /\ applied' = applied \cup {Signature(NoFix)}
        /\ progressed' = (progressed \/ Signature(NoFix) \notin applied)
    BY <1>3 DEF Commit, CommitNothing, NoteProgress, repoVars
  <2>2. Stalling' => Stalling
    BY <2>1 DEF Stalling
  <2> QED
    BY <1>0, <1>1, <2>1, <2>2 DEF StallInv
<1>4. CASE Collect
  <2>1. /\ UNCHANGED <<log, applied>> /\ before' = Len(log)
        /\ ~Stalling /\ Stalling'
    BY <1>4 DEF Collect, stepVars, Stalling, LoopInv
  <2> QED
    BY <1>0, <2>1 DEF StallInv
<1>5. CASE ~Commit /\ ~Collect
  <2>1. /\ UNCHANGED <<log, applied, before>>
        /\ Stalling' => Stalling
    BY <1>5
    DEF Next, Agent, Green, GiveUp, TakeFailure, Diagnose, Raise, EndRound,
        Stop, Operator, OperatorEdit, OperatorCommit, Ended, HandleFailure,
        DeclineDirty, DeclineNoFix, NoteClean, PatchBlocked, PatchFailed,
        FallBack, RetryRefused, RetryNoFix, ReadTarget, WriteTarget,
        CommitRefused, DecodeError, repoVars, reportVars, stepVars, loopVars,
        vars, Stalling
  <2> QED
    BY <1>0, <1>1, <2>1 DEF StallInv
<1> QED
  BY <1>2, <1>3, <1>4, <1>5 DEF Commit

\* A run that stops for lack of progress has landed nothing in its last round
\* that it had not landed before, with any LLM and any operator, wherever the
\* signatures tell the rules' fixes apart (core._fix_signature).
THEOREM StallNothingNew ==
  ASSUME SignaturesTell PROVE Spec => []StallMeansNothingNew
<1>1. Init => FixIsKnown /\ StallInv
  BY DEF Init, StepInit, FixIsKnown, StallInv, Stalling
<1>2. TypeOK /\ FixIsKnown /\ [Next]_vars => FixIsKnown'
  <2> SUFFICES ASSUME TypeOK, FixIsKnown, [Next]_vars
               PROVE  FixIsKnown'
    OBVIOUS
  <2>1. CASE PatchNext
    BY <2>1, StepKnown DEF TypeOK
  <2>2. CASE UNCHANGED stepVars
    BY <2>2 DEF stepVars, FixIsKnown, Known
  <2> QED
    BY <2>1, <2>2, LoopSteps
<1>3. StallInv => StallMeansNothingNew
  BY DEF StallInv, Stalling, Repeats, StallMeansNothingNew
<1> QED
  BY <1>1, <1>2, <1>3, InitLoop, NextLoop, NextStall, Typed, PTL DEF Spec

----------------------------------------------------------------------------
\* The loop implements SafeHealer

\* Over any number of failures and rounds, with the rules alone and the
\* operator off the file in hand, the loop keeps SafeHealer's promise: what it
\* does in several steps (check, write, add, commit) looks like one.
THEOREM KeepsThePromise ==
  ASSUME RulesAlone PROVE Spec => ImplementsSafeHealer
<1>1. Init => Safe!Init
  BY InitMaps DEF Init
<1>2. TypeOK /\ StepInv /\ [Next]_vars => [Safe!Next]_<<Work, History>>
  <2> SUFFICES ASSUME TypeOK, StepInv, [Next]_vars
               PROVE  Safe!Next \/ UNCHANGED <<Work, History>>
    OBVIOUS
  <2>1. CASE PatchNext
    BY <2>1, StepMaps
  <2>2. CASE UNCHANGED stepVars
    BY <2>2 DEF stepVars, Work, History
  <2> QED
    BY <2>1, <2>2, LoopSteps
<1> QED
  BY <1>1, <1>2, HandInvariant, Typed, PTL
  DEF Spec, ImplementsSafeHealer, Safe!Spec, Safe!vars
============================================================================
