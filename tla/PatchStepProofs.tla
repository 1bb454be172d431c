-------------------------- MODULE PatchStepProofs --------------------------
(***************************************************************************)
(* What each step of PatchStep preserves, for every repository: lemmas the *)
(* proofs about the two heal loops are built from.                         *)
(***************************************************************************)
EXTENDS PatchStep, TLAPS

\* Any of the steps, the loops' own part of them left aside.
PatchNext ==
  \/ \E p \in Failures : Diagnose(p)
  \/ HandleFailure
  \/ CommitLands \/ CommitNothing \/ DecodeError
  \/ \E f \in Files : OperatorEdit(f) \/ OperatorCommit(f)

----------------------------------------------------------------------------
\* Types

\* A fix the rules derive, and an LLM edit the guards let through, is a fix.
LEMMA FixTypes ==
  /\ \A p \in Failures : Rule[p] \in Fix \cup {NoFix}
  /\ \A p \in Failures : \A x \in LlmFixes(p) :
       Guarded(p, x) \in Fix \cup {NoFix}
<1>1. \A p \in Failures : Rule[p] \in Fix \cup {NoFix}
  BY PatchAssumption DEF PatchAssumption
<1>2. \A p \in Failures : \A x \in LlmFixes(p) : x \in Fix
  BY DEF LlmFixes, Fix, Edits
<1> QED
  BY <1>1, <1>2 DEF Guarded

\* Every fix edits at most one file of the repository and carries an edit.
LEMMA CurTypes ==
  ASSUME cur \in Case \cup {NoCase}
  PROVE  /\ cur.fix \in Fix \cup {NoFix}
         /\ cur.fix.remedy \in Edits
         /\ cur.fix.target \in Files \cup {NoFile}
         /\ cur.fix.target \in Files => cur.fix \in Fix
         /\ cur.fix # NoFix => cur.fix.target \in Files
         /\ cur.source \in Sources
<1>1. cur.fix \in Fix \cup {NoFix} /\ cur.source \in Sources
  BY DEF Case, NoCase, Sources
<1>2. /\ cur.fix.remedy \in Edits
      /\ cur.fix.target \in Files \cup {NoFile}
      /\ cur.fix.target \in Files => cur.fix \in Fix
      /\ cur.fix # NoFix => cur.fix.target \in Files
  BY <1>1, PatchAssumption DEF Fix, NoFix, Edits, PatchAssumption
<1> QED
  BY <1>1, <1>2

\* The initial states are well-typed.
LEMMA InitTree ==
  ASSUME StepInit
  PROVE  /\ tree \in [Files -> Content]
         /\ \A f \in Files : tree[f].by # {} =>
              f \in OperatorFiles /\ tree[f].by = {"operator"}
<1>1. PICK wip \in SUBSET OperatorFiles, done \in SUBSET Failures :
        tree = [f \in Files |->
                  [by  |-> IF f \in wip THEN {"operator"} ELSE {},
                   has |-> done \cap RemediesOn(f)]]
  BY DEF StepInit
<1> DEFINE wips(f) == IF f \in wip THEN {"operator"} ELSE {}
<1>2. ASSUME NEW f \in Files
      PROVE  /\ tree[f] \in Content
             /\ tree[f].by # {} =>
                  f \in OperatorFiles /\ tree[f].by = {"operator"}
  <2>1. tree[f] = [by |-> wips(f), has |-> done \cap RemediesOn(f)]
    BY <1>1
  <2>2. /\ wips(f) \in SUBSET Authors
        /\ wips(f) # {} => f \in OperatorFiles /\ wips(f) = {"operator"}
        /\ done \cap RemediesOn(f) \in SUBSET Edits
    BY DEF Edits, Authors
  <2> HIDE DEF wips
  <2> QED
    BY <2>1, <2>2 DEF Content
<1> QED
  BY <1>1, <1>2

LEMMA StepInitTypes == StepInit => StepTypeOK
<1> SUFFICES ASSUME StepInit PROVE StepTypeOK
  OBVIOUS
<1>1. tree \in [Files -> Content]
  BY InitTree
<1>2. /\ clean = {} /\ log = <<>> /\ commits = <<>> /\ declined = {}
      /\ blocked = {} /\ pc = "idle" /\ cur = NoCase /\ seen = Blank
  BY DEF StepInit
<1> QED
  BY <1>1, <1>2 DEF StepTypeOK, Blank, Content

\* Every step keeps the types.
LEMMA StepTypes ==
  ASSUME StepTypeOK, PatchNext
  PROVE  StepTypeOK'
<1> USE DEF StepTypeOK
<1>1. ASSUME NEW p \in Failures, Diagnose(p)
      PROVE  StepTypeOK'
  <2>1. cur' \in Case
    BY <1>1, FixTypes
    DEF Diagnose, FallbackDiagnose, LlmAnswers, LlmFails, Case, Sources
  <2> QED
    BY <1>1, <2>1 DEF Diagnose, repoVars, reportVars
<1>2. ASSUME HandleFailure
      PROVE  StepTypeOK'
  <2> USE CurTypes
  <2>1. CASE DeclineDirty
    BY <2>1 DEF DeclineDirty, Finish, repoVars, Blank, Content, Because, Reason
  <2>2. CASE DeclineNoFix
    <3>1. cur \in Case
      BY <2>2 DEF DeclineNoFix
    <3> QED
      BY <2>2, <3>1 DEF DeclineNoFix, Finish, repoVars, Blank, Content,
                        Because, Reason, Case
  <2>3. CASE NoteClean
    BY <2>3 DEF NoteClean, repoVars, reportVars
  <2>4. CASE PatchBlocked
    BY <2>4 DEF PatchBlocked, Denied, Finish, repoVars, Blank, Content,
                Because, Reason
  <2>5. CASE PatchFailed
    BY <2>5, PatchAssumption
    DEF PatchFailed, Inapplicable, Finish, repoVars, Blank, Content, Because,
        Reason, PatchAssumption
  <2>6. CASE FallBack
    BY <2>6, FixTypes DEF FallBack, Case, Sources, repoVars, reportVars
  <2>7. CASE RetryRefused
    BY <2>7 DEF RetryRefused, Finish, repoVars, reportVars, Blank, Content
  <2>8. CASE RetryNoFix
    BY <2>8 DEF RetryNoFix, repoVars, reportVars
  <2>9. CASE ReadTarget
    BY <2>9, PatchAssumption
    DEF ReadTarget, CanRead, repoVars, reportVars, PatchAssumption
  <2>10. CASE WriteTarget
    <3>1. Patched(seen, cur.fix) \in Content
      BY DEF Patched, Content, Edits, Authors
    <3> QED
      BY <2>10, <3>1 DEF WriteTarget, reportVars
  <2>11. CASE CommitRefused
    BY <2>11 DEF CommitRefused, Finish, repoVars, Blank, Content, Because,
                 Reason
  <2> QED
    BY <1>2, <2>1, <2>2, <2>3, <2>4, <2>5, <2>6, <2>7, <2>8, <2>9, <2>10,
       <2>11 DEF HandleFailure
<1>3. ASSUME CommitLands
      PROVE  StepTypeOK'
  <2> DEFINE f == cur.fix.target
             e == [target |-> f, remedy |-> cur.fix.remedy,
                   by |-> tree[f].by]
  <2>1. f \in Files /\ cur.fix.remedy \in Edits
    BY <1>3, CurTypes DEF CommitLands
  <2>2. e \in Entry
    BY <2>1 DEF Entry, Content
  <2>3. log' \in Seq(Entry) /\ commits' \in Seq(Nat)
    BY <1>3, <2>2 DEF CommitLands
  <2>4. tree' \in [Files -> Content]
    BY <1>3, <2>1 DEF CommitLands, Content
  <2> QED
    BY <1>3, <2>3, <2>4 DEF CommitLands, Finish, Blank, Content
<1>4. ASSUME CommitNothing
      PROVE  StepTypeOK'
  BY <1>4 DEF CommitNothing, Finish, repoVars, Blank, Content
<1>5. ASSUME DecodeError
      PROVE  StepTypeOK'
  BY <1>5 DEF DecodeError, repoVars, reportVars
<1>6. ASSUME NEW f \in Files, OperatorEdit(f)
      PROVE  StepTypeOK'
  BY <1>6 DEF OperatorEdit, reportVars, Content, Authors, Edits, RemediesOn
<1>7. ASSUME NEW f \in Files, OperatorCommit(f)
      PROVE  StepTypeOK'
  <2>1. [tree[f] EXCEPT !.by = {}] \in Content
    BY DEF Content
  <2> QED
    BY <1>7, <2>1 DEF OperatorCommit, reportVars
<1> QED
  BY <1>1, <1>2, <1>3, <1>4, <1>5, <1>6, <1>7 DEF PatchNext

----------------------------------------------------------------------------
\* The agent's edits

\* Whatever the fix, wherever it came from and whoever races: an edit of the
\* agent's that is not in a commit is in hand or reported.
LEMMA StepStranded ==
  ASSUME StepTypeOK, StrandedIsReported, PatchNext
  PROVE  StrandedIsReported'
<1> USE DEF StrandedIsReported, StepTypeOK
<1>1. ASSUME NEW f \in Files, "agent" \in tree'[f].by
      PROVE  \/ pc' = "commit" /\ cur'.fix.target = f
             \/ Because("commit", f) \in declined'
  <2>1. CASE \E p \in Failures : Diagnose(p)
    BY <1>1, <2>1 DEF Diagnose, repoVars, reportVars
  <2>2. CASE UNCHANGED tree /\ pc # "commit" /\ declined \subseteq declined'
    BY <1>1, <2>2
  <2>3. CASE WriteTarget
    <3>1. CASE cur.fix.target = f
      BY <2>3, <3>1 DEF WriteTarget
    <3>2. CASE cur.fix.target # f
      BY <1>1, <2>3, <3>2 DEF WriteTarget, reportVars
    <3> QED
      BY <3>1, <3>2
  <2>4. CASE CommitRefused
    BY <1>1, <2>4 DEF CommitRefused, repoVars
  <2>5. CASE CommitLands
    <3>1. f # cur.fix.target
      <4>1. ASSUME f = cur.fix.target
            PROVE  tree'[f].by = {}
        BY <2>5, <4>1 DEF CommitLands, Content
      <4> QED
        BY <1>1, <4>1
    <3>2. tree'[f] = tree[f]
      BY <2>5, <3>1 DEF CommitLands
    <3> QED
      BY <1>1, <2>5, <3>1, <3>2 DEF CommitLands
  <2>6. CASE CommitNothing
    <3>1. cur.fix.target # f
      BY <2>6, PatchAssumption DEF CommitNothing, NoFix, PatchAssumption
    <3> QED
      BY <1>1, <2>6, <3>1 DEF CommitNothing, repoVars
  <2>7. ASSUME NEW g \in Files, OperatorEdit(g)
        PROVE  "agent" \in tree[f].by
    <3>1. CASE f = g
      <4>1. tree'[g].by = tree[g].by \cup {"operator"}
        BY <2>7 DEF OperatorEdit, Content
      <4> QED
        BY <1>1, <3>1, <4>1
    <3>2. CASE f # g
      BY <1>1, <2>7, <3>2 DEF OperatorEdit
    <3> QED
      BY <3>1, <3>2
  <2>8. ASSUME NEW g \in Files, OperatorCommit(g)
        PROVE  "agent" \in tree[f].by
    <3>1. CASE f = g
      <4>1. tree'[g].by = {}
        BY <2>8 DEF OperatorCommit, Content
      <4> QED
        BY <1>1, <3>1, <4>1
    <3>2. CASE f # g
      BY <1>1, <2>8, <3>2 DEF OperatorCommit
    <3> QED
      BY <3>1, <3>2
  <2>9. CASE \E g \in Files : OperatorEdit(g) \/ OperatorCommit(g)
    BY <2>7, <2>8, <2>9 DEF OperatorEdit, OperatorCommit, reportVars
  <2>10. CASE RetryNoFix
    BY <1>1, <2>10 DEF RetryNoFix, repoVars, reportVars
  <2>11. CASE \/ DeclineDirty \/ DeclineNoFix \/ NoteClean \/ PatchBlocked
              \/ PatchFailed \/ FallBack \/ RetryRefused \/ ReadTarget
              \/ DecodeError
    BY <2>2, <2>11
    DEF DeclineDirty, DeclineNoFix, NoteClean, PatchBlocked, PatchFailed,
        FallBack, RetryRefused, ReadTarget, DecodeError, repoVars, reportVars
  <2> QED
    BY <2>1, <2>3, <2>4, <2>5, <2>6, <2>9, <2>10, <2>11
    DEF PatchNext, HandleFailure
<1> QED
  BY <1>1

----------------------------------------------------------------------------
\* What is in hand, with the operator off that file

\* The operator stays off the file in hand, and off the files in which git
\* shows no one's work.
OperatorInSight == ~OperatorRaces /\ Ignored \cap OperatorFiles = {}

\* So what an ignored file holds, and what was read from one, is the agent's.
IgnoredIsOwn ==
  /\ \A f \in Ignored : tree[f].by \in {{}, {"agent"}}
  /\ pc = "write" /\ cur.fix.target \in Ignored => seen.by \in {{}, {"agent"}}

LEMMA StepIgnored ==
  ASSUME StepTypeOK, OperatorInSight, IgnoredIsOwn, PatchNext
  PROVE  IgnoredIsOwn'
<1> USE PatchAssumption DEF IgnoredIsOwn, StepTypeOK, PatchAssumption
<1>1. CASE ReadTarget
  BY <1>1 DEF ReadTarget, repoVars
<1>2. CASE WriteTarget
  <2>1. Patched(seen, cur.fix).by = seen.by \cup {"agent"}
    BY DEF Patched
  <2>2. \A f \in Ignored : tree'[f].by = IF f = cur.fix.target
                                        THEN seen.by \cup {"agent"}
                                        ELSE tree[f].by
    BY <1>2, <2>1 DEF WriteTarget
  <2> QED
    BY <1>2, <2>2 DEF WriteTarget
<1>3. CASE CommitLands
  <2>1. \A f \in Ignored : tree'[f] = tree[f]
    BY <1>3 DEF CommitLands, IsDirty
  <2> QED
    BY <1>3, <2>1 DEF CommitLands, Finish
<1>4. ASSUME NEW f \in Files, OperatorEdit(f) \/ OperatorCommit(f)
      PROVE  IgnoredIsOwn'
  <2>1. UNCHANGED <<pc, cur, seen>> /\ f \notin Ignored
    BY <1>4 DEF OperatorEdit, OperatorCommit, MayTouch, OperatorInSight
  <2>2. \A g \in Ignored : tree'[g] = tree[g]
    BY <1>4, <2>1 DEF OperatorEdit, OperatorCommit
  <2> QED
    BY <2>1, <2>2
<1>5. CASE /\ ~ReadTarget /\ ~WriteTarget /\ ~CommitLands
           /\ ~\E f \in Files : OperatorEdit(f) \/ OperatorCommit(f)
  <2>1. UNCHANGED tree /\ pc' # "write"
    BY <1>5 DEF PatchNext, HandleFailure, Diagnose, DeclineDirty,
       DeclineNoFix, NoteClean, PatchBlocked, PatchFailed, FallBack,
       RetryRefused, RetryNoFix, CommitRefused, CommitNothing, DecodeError,
       Finish, repoVars
  <2> QED
    BY <2>1
<1> QED
  BY <1>1, <1>2, <1>3, <1>4, <1>5

\* Without the LLM no fix is a second try.
LEMMA StepRule ==
  ASSUME StepTypeOK, ~UseLlm, cur.source = "rule", PatchNext
  PROVE  cur'.source = "rule"
BY DEF PatchNext, HandleFailure, Diagnose, FallbackDiagnose, LlmAnswers,
   LlmFails, DeclineDirty, DeclineNoFix, NoteClean, PatchBlocked, PatchFailed,
   FallBack, RetryRefused, RetryNoFix, ReadTarget, WriteTarget, CommitRefused,
   CommitLands, CommitNothing, DecodeError, OperatorEdit, OperatorCommit,
   Finish, NoCase

\* The check holds to the commit: nobody but the agent touches the file, and
\* a second fix, which is not checked, is marked as one.
LEMMA StepInHand ==
  ASSUME StepTypeOK, OperatorInSight, IgnoredIsOwn, InHandIsClean, PatchNext
  PROVE  InHandIsClean'
<1> USE DEF InHandIsClean, CheckedClean, StepTypeOK
<1>1. CASE \E p \in Failures : Diagnose(p)
  BY <1>1 DEF Diagnose
<1>2. CASE \/ DeclineDirty \/ DeclineNoFix \/ PatchBlocked \/ PatchFailed
           \/ RetryRefused \/ CommitRefused \/ CommitLands \/ CommitNothing
  BY <1>2 DEF DeclineDirty, DeclineNoFix, PatchBlocked, PatchFailed,
              RetryRefused, CommitRefused, CommitLands, CommitNothing, Finish,
              NoCase, Blank
<1>3. CASE FallBack \/ RetryNoFix
  <2>1. FallBack => cur'.source = "retry"
    BY DEF FallBack, Case, NoCase
  <2> QED
    BY <1>3, <2>1 DEF RetryNoFix
<1>4. CASE NoteClean
  <2>1. /\ cur.fix.target \in Files /\ pc' = "read"
        /\ UNCHANGED <<tree, cur>> /\ ~IsDirty(cur.fix.target)
    BY <1>4 DEF NoteClean, repoVars
  <2>2. tree[cur.fix.target].by \in CheckedClean(cur.fix.target)
    BY <2>1 DEF IsDirty, IgnoredIsOwn
  <2> QED
    BY <2>1, <2>2
<1>5. CASE ReadTarget
  BY <1>5 DEF ReadTarget, repoVars
<1>6. CASE WriteTarget
  <2>1. /\ pc = "write" /\ pc' = "commit" /\ UNCHANGED <<cur, seen>>
        /\ tree' = [tree EXCEPT ![cur.fix.target] = Patched(seen, cur.fix)]
    BY <1>6 DEF WriteTarget
  <2>2. Patched(seen, cur.fix).by = seen.by \cup {"agent"}
    BY DEF Patched
  <2>3. cur.source # "retry" =>
          /\ cur.fix.target \in Files
          /\ seen.by \in CheckedClean(cur.fix.target)
    BY <2>1
  <2>4. cur.source # "retry" => tree'[cur.fix.target].by = {"agent"}
    BY <2>1, <2>2, <2>3
  <2> QED
    BY <2>1, <2>3, <2>4
<1>7. CASE DecodeError
  BY <1>7 DEF DecodeError
<1>8. ASSUME NEW f \in Files, OperatorEdit(f) \/ OperatorCommit(f)
      PROVE  InHandIsClean'
  <2>1. ~InHand(f) /\ UNCHANGED <<pc, cur, seen>>
    BY <1>8 DEF OperatorEdit, OperatorCommit, MayTouch, OperatorInSight
  <2>2. \A g \in Files : g # f => tree'[g] = tree[g]
    BY <1>8 DEF OperatorEdit, OperatorCommit
  <2>3. pc \in {"read", "write", "commit"} => cur.fix.target # f
    BY <2>1 DEF InHand
  <2> QED
    BY <2>1, <2>2, <2>3
<1> QED
  BY <1>1, <1>2, <1>3, <1>4, <1>5, <1>6, <1>7, <1>8
  DEF PatchNext, HandleFailure

\* Only CommitLands adds a commit, and the tree it commits is the agent's.
LEMMA StepOwnWork ==
  ASSUME StepTypeOK, InHandIsClean, cur.source # "retry", PatchNext,
         NEW i \in DOMAIN log', i \notin DOMAIN log \/ log'[i] # log[i]
  PROVE  log'[i].by = {"agent"}
<1> USE DEF StepTypeOK
<1>1. CASE CommitLands
  <2>1. tree[cur.fix.target].by = {"agent"}
    BY <1>1 DEF CommitLands, InHandIsClean
  <2>2. log' = Append(log, [target |-> cur.fix.target,
                            remedy |-> cur.fix.remedy, by |-> {"agent"}])
    BY <1>1, <2>1 DEF CommitLands
  <2> QED
    BY <2>2
<1>2. CASE ~CommitLands
  <2>1. log' = log
    BY <1>2 DEF PatchNext, HandleFailure, Diagnose, DeclineDirty,
       DeclineNoFix, NoteClean, PatchBlocked, PatchFailed, FallBack,
       RetryRefused, RetryNoFix, ReadTarget, WriteTarget, CommitRefused,
       CommitNothing, DecodeError, OperatorEdit, OperatorCommit, repoVars
  <2> QED
    BY <2>1
<1> QED
  BY <1>1, <1>2

\* Only WriteTarget adds an edit of the agent's, and the file is clean then.
LEMMA StepNeverOverWip ==
  ASSUME StepTypeOK, IgnoredIsOwn, InHandIsClean, cur.source # "retry", PatchNext,
         NEW f \in Files, "agent" \in tree'[f].by \ tree[f].by
  PROVE  tree[f].by = {}
<1> USE DEF StepTypeOK
<1>1. CASE WriteTarget
  <2>1. f = cur.fix.target
    BY <1>1 DEF WriteTarget
  <2> QED
    BY <1>1, <2>1 DEF WriteTarget, InHandIsClean, CheckedClean
<1>2. CASE CommitLands
  <2>1. cur.fix.target = f => tree'[f].by = {}
    BY <1>2 DEF CommitLands, Content
  <2>2. cur.fix.target # f => tree'[f] = tree[f]
    BY <1>2 DEF CommitLands
  <2> QED
    BY <2>1, <2>2
<1>3. ASSUME NEW g \in Files, OperatorEdit(g)
      PROVE  FALSE
  <2>1. g = f => tree'[f].by = tree[f].by \cup {"operator"}
    BY <1>3 DEF OperatorEdit, Content
  <2>2. g # f => tree'[f] = tree[f]
    BY <1>3 DEF OperatorEdit
  <2> QED
    BY <2>1, <2>2
<1>4. ASSUME NEW g \in Files, OperatorCommit(g)
      PROVE  FALSE
  <2>1. g = f => tree'[f].by = {}
    BY <1>4 DEF OperatorCommit, Content
  <2>2. g # f => tree'[f] = tree[f]
    BY <1>4 DEF OperatorCommit
  <2> QED
    BY <2>1, <2>2
<1>5. CASE UNCHANGED tree
  BY <1>5
<1> QED
  BY <1>1, <1>2, <1>3, <1>4, <1>5
  DEF PatchNext, HandleFailure, Diagnose, DeclineDirty, DeclineNoFix,
      NoteClean, PatchBlocked, PatchFailed, FallBack, RetryRefused,
      RetryNoFix, ReadTarget, CommitRefused, CommitNothing, DecodeError,
      repoVars

\* Every fix in hand has a file, so commit_fix either lands or raises, and
\* the SHA the caller appends is the one of the commit just made.
LEMMA StepRecorded ==
  ASSUME StepTypeOK, InHandIsClean, cur.source # "retry", RecordedAreLanded,
         PatchNext
  PROVE  RecordedAreLanded'
<1> USE DEF RecordedAreLanded, StepTypeOK
<1>1. CASE CommitLands
  <2>1. /\ commits' = Append(commits, Len(log) + 1)
        /\ Len(log') = Len(log) + 1
        /\ Len(commits) = Len(log)
    BY <1>1 DEF CommitLands
  <2>2. commits' = [i \in 1..Len(log) + 1 |-> i]
    BY <2>1
  <2> QED
    BY <2>1, <2>2
<1>2. CASE CommitNothing
  BY <1>2, PatchAssumption
  DEF CommitNothing, InHandIsClean, NoFix, PatchAssumption
<1>3. CASE ~CommitLands /\ ~CommitNothing
  BY <1>3
  DEF PatchNext, HandleFailure, Diagnose, DeclineDirty, DeclineNoFix,
      NoteClean, PatchBlocked, PatchFailed, FallBack, RetryRefused,
      RetryNoFix, ReadTarget, WriteTarget, CommitRefused, DecodeError,
      OperatorEdit, OperatorCommit, repoVars, reportVars
<1> QED
  BY <1>1, <1>2, <1>3

----------------------------------------------------------------------------
\* The deterministic rules alone

RulesAlone == ~UseLlm /\ OperatorInSight

\* Inductive under the rules alone: the check, the commits and the record of
\* them depend on what is in hand between the check and the commit.
StepInv ==
  /\ StepTypeOK /\ cur.source = "rule" /\ IgnoredIsOwn
  /\ InHandIsClean /\ CommitsOnlyAgentWork /\ RecordedAreLanded

LEMMA StepInitInHand ==
  ASSUME StepInit, OperatorInSight
  PROVE  IgnoredIsOwn /\ InHandIsClean
<1>1. \A f \in Ignored : tree[f].by = {}
  BY InitTree, PatchAssumption DEF OperatorInSight, PatchAssumption
<1> QED
  BY <1>1 DEF StepInit, NoCase, InHandIsClean, IgnoredIsOwn

LEMMA StepInitInv == ASSUME RulesAlone, StepInit PROVE StepInv
<1>1. /\ cur.source = "rule" /\ log = <<>> /\ commits = <<>>
  BY DEF StepInit, NoCase
<1>2. CommitsOnlyAgentWork /\ RecordedAreLanded
  BY <1>1 DEF CommitsOnlyAgentWork, RecordedAreLanded
<1> QED
  BY <1>1, <1>2, StepInitTypes, StepInitInHand DEF RulesAlone, StepInv

LEMMA StepKeepsInv ==
  ASSUME RulesAlone, StepInv, PatchNext
  PROVE  StepInv'
<1> USE DEF RulesAlone, StepInv
<1>1. CommitsOnlyAgentWork'
  <2>1. \A i \in DOMAIN log' : i \notin DOMAIN log \/ log'[i] # log[i]
                               => log'[i].by = {"agent"}
    BY StepOwnWork
  <2> QED
    BY <2>1 DEF CommitsOnlyAgentWork
<1> QED
  BY <1>1, StepTypes, StepRule, StepIgnored, StepInHand, StepRecorded

\* A failure that is let go of without a commit leaves its reason: only a
\* retry, or a fix without a file, would go unreported.
LEMMA StepReported ==
  ASSUME StepInv, PatchNext, pc # "idle", pc' = "idle", log' = log
  PROVE  \E r \in declined' \cup blocked' :
           r.about \in {cur.failure, cur.fix.target}
<1> USE DEF StepInv
<1>1. CASE DeclineDirty \/ DeclineNoFix \/ PatchBlocked \/ PatchFailed
           \/ CommitRefused
  <2>1. \E why, about :
          /\ Because(why, about) \in declined' \cup blocked'
          /\ about \in {cur.failure, cur.fix.target}
    BY <1>1 DEF DeclineDirty, DeclineNoFix, PatchBlocked, PatchFailed,
                CommitRefused
  <2>2. \A why, about : Because(why, about).about = about
    BY DEF Because
  <2> QED
    BY <2>1, <2>2
<1>2. CASE RetryRefused \/ CommitNothing
  BY <1>2, PatchAssumption
  DEF RetryRefused, CommitNothing, InHandIsClean, NoFix, PatchAssumption
<1>3. CASE CommitLands
  BY <1>3 DEF CommitLands, StepTypeOK
<1>4. ASSUME NEW f \in Files, OperatorEdit(f) \/ OperatorCommit(f)
      PROVE  FALSE
  BY <1>4 DEF OperatorEdit, OperatorCommit
<1> QED
  BY <1>1, <1>2, <1>3, <1>4
  DEF PatchNext, Diagnose, HandleFailure, NoteClean, FallBack, RetryNoFix,
      ReadTarget, WriteTarget, DecodeError

----------------------------------------------------------------------------
\* Where an edit can be left behind

\* Only git keeps an edit of the rules' out of a commit: the file in hand was
\* noted clean, and holds the edit.
StrandInv ==
  /\ pc # "idle" => cur.fix = Rule[cur.failure]
  /\ pc \in {"read", "write", "commit"} => cur.fix.target \in clean
  /\ \A f \in Files : "agent" \in tree[f].by =>
       \/ pc = "commit" /\ cur.fix.target = f
       \/ f \in Hooked \cup Ignored /\ \E p \in Failures : Rule[p].target = f

LEMMA StepInitStrand == StepInit => StrandInv
  BY InitTree DEF StepInit, StrandInv

LEMMA StepStrand ==
  ASSUME RulesAlone, StepInv, StrandInv, PatchNext
  PROVE  StrandInv'
<1> USE DEF StrandInv, StepInv, StepTypeOK
<1>1. CASE \E p \in Failures : Diagnose(p)
  BY <1>1 DEF Diagnose, FallbackDiagnose, RulesAlone, repoVars
<1>2. CASE \/ DeclineDirty \/ DeclineNoFix \/ PatchBlocked \/ PatchFailed
           \/ RetryRefused
  <2>1. pc \in {"check", "read"} /\ pc' = "idle" /\ UNCHANGED <<tree, clean>>
    BY <1>2 DEF DeclineDirty, DeclineNoFix, PatchBlocked, PatchFailed,
                RetryRefused, Finish, repoVars
  <2> QED
    BY <2>1
<1>3. CASE NoteClean \/ ReadTarget \/ DecodeError
  <2>1. /\ pc \in {"check", "read"} /\ pc' # "commit"
        /\ UNCHANGED <<tree, cur>> /\ clean \subseteq clean'
        /\ pc' \in {"read", "write"} => cur.fix.target \in clean'
    BY <1>3 DEF NoteClean, ReadTarget, DecodeError, repoVars
  <2> QED
    BY <2>1
<1>4. CASE WriteTarget
  BY <1>4 DEF WriteTarget
<1>5. CASE CommitRefused
  <2>1. /\ cur.fix.target \in Hooked \cup Ignored
        /\ cur.failure \in Failures
        /\ Rule[cur.failure].target = cur.fix.target
    BY <1>5 DEF CommitRefused, WasDirty, IsDirty, InHandIsClean, Case
  <2>2. pc' = "idle" /\ UNCHANGED <<tree, clean>>
    BY <1>5 DEF CommitRefused, Finish, repoVars
  <2> QED
    BY <2>1, <2>2
<1>6. CASE CommitLands
  <2>1. /\ pc' = "idle" /\ clean' = clean
        /\ tree'[cur.fix.target].by = {}
        /\ \A f \in Files : f # cur.fix.target => tree'[f] = tree[f]
    BY <1>6 DEF CommitLands, Finish, Content
  <2> QED
    BY <2>1
<1>7. CASE CommitNothing \/ FallBack \/ RetryNoFix
  BY <1>7, PatchAssumption
  DEF CommitNothing, FallBack, RetryNoFix, InHandIsClean, NoFix,
      PatchAssumption
<1>8. ASSUME NEW f \in Files, OperatorEdit(f) \/ OperatorCommit(f)
      PROVE  StrandInv'
  <2>1. UNCHANGED <<pc, cur, clean>>
    BY <1>8 DEF OperatorEdit, OperatorCommit
  <2>2. \A g \in Files : g # f => tree'[g] = tree[g]
    BY <1>8 DEF OperatorEdit, OperatorCommit
  <2>3. "agent" \in tree'[f].by => "agent" \in tree[f].by
    <3>1. CASE OperatorEdit(f)
      <4>1. tree'[f].by = tree[f].by \cup {"operator"}
        BY <3>1 DEF OperatorEdit, Content
      <4> QED
        BY <4>1
    <3>2. CASE OperatorCommit(f)
      <4>1. tree'[f].by = {}
        BY <3>2 DEF OperatorCommit, Content
      <4> QED
        BY <4>1
    <3> QED
      BY <1>8, <3>1, <3>2
  <2>4. \A g \in Files : "agent" \in tree'[g].by => "agent" \in tree[g].by
    BY <2>2, <2>3
  <2> QED
    BY <2>1, <2>4
<1> QED
  BY <1>1, <1>2, <1>3, <1>4, <1>5, <1>6, <1>7, <1>8
  DEF PatchNext, HandleFailure

\* Every fix is one of the rules' or an edit of the LLM's.
Known(fix) == fix.action = "edit_file" \/ \E p \in Failures : fix = Rule[p]

FixIsKnown == pc # "idle" => cur.fix = NoFix \/ Known(cur.fix)

LEMMA StepKnown ==
  ASSUME StepTypeOK, FixIsKnown, PatchNext
  PROVE  FixIsKnown'
<1> USE DEF FixIsKnown, Known
<1>1. ASSUME NEW p \in Failures, Diagnose(p)
      PROVE  FixIsKnown'
  BY <1>1 DEF Diagnose, FallbackDiagnose, LlmAnswers, LlmFails, LlmFixes,
              Guarded
<1>2. CASE FallBack
  BY <1>2 DEF FallBack, StepTypeOK, Case
<1>3. CASE ~FallBack /\ ~\E p \in Failures : Diagnose(p)
  <2>1. pc' = "idle" \/ (pc # "idle" /\ cur' = cur) \/ UNCHANGED <<pc, cur>>
    BY <1>3 DEF PatchNext, HandleFailure, DeclineDirty, DeclineNoFix,
       NoteClean, PatchBlocked, PatchFailed, RetryRefused, RetryNoFix,
       ReadTarget, WriteTarget, CommitRefused, CommitLands, CommitNothing,
       DecodeError, OperatorEdit, OperatorCommit, Finish
  <2> QED
    BY <2>1
<1> QED
  BY <1>1, <1>2, <1>3

----------------------------------------------------------------------------
\* The steps implement SafeHealer

\* An operator's step on a file that is not in hand shows as it is.
LEMMA OperatorMaps ==
  ASSUME StepTypeOK, RulesAlone, NEW f \in Files,
         OperatorEdit(f) \/ OperatorCommit(f)
  PROVE  Safe!Next
<1>0. UNCHANGED <<pc, cur, seen>>
  BY DEF OperatorEdit, OperatorCommit
<1>1. /\ ~InHand(f)
      /\ UNCHANGED <<log, pc, cur>>
  BY DEF OperatorEdit, OperatorCommit, MayTouch, RulesAlone, OperatorInSight
<1>2. /\ ~(pc = "commit" /\ cur.fix.target = f)
      /\ \A g \in Files : g # f => tree'[g] = tree[g]
  BY <1>1 DEF InHand, OperatorEdit, OperatorCommit, StepTypeOK
<1>3. History' = History
  BY <1>1 DEF History
<1>4. CASE OperatorEdit(f)
  <2>1. tree'[f].by = tree[f].by \cup {"operator"}
    BY <1>4 DEF OperatorEdit, StepTypeOK, Content
  <2>2. Work' = [Work EXCEPT ![f] = @ \cup {"operator"}]
    BY <1>0, <1>1, <1>2, <2>1 DEF Work
  <2> QED
    BY <1>3, <2>2 DEF Safe!Next, Safe!OperatorEdits
<1>5. CASE OperatorCommit(f)
  <2>1. tree'[f].by = {}
    BY <1>5 DEF OperatorCommit, StepTypeOK, Content
  <2>2. Work' = [Work EXCEPT ![f] = {}]
    BY <1>0, <1>1, <1>2, <2>1 DEF Work
  <2> QED
    BY <1>3, <2>2 DEF Safe!Next, Safe!OperatorCommits
<1> QED
  BY <1>4, <1>5

\* A commit is one step of the abstraction.
LEMMA CommitMaps == ASSUME StepInv, CommitLands PROVE Safe!Next
<1> DEFINE f == cur.fix.target
<1> USE DEF StepInv, StepTypeOK
<1>1. /\ f \in Files /\ pc = "commit" /\ pc' = "idle"
      /\ tree[f].by = {"agent"} /\ seen.by = {}
      /\ \A g \in Files : g # f => tree'[g] = tree[g]
  BY DEF CommitLands, IsDirty, InHandIsClean, CheckedClean, Finish
<1>2. tree'[f].by = {}
  BY DEF CommitLands, Content
<1>3. Work[f] = {} /\ Work' = Work
  BY <1>1, <1>2 DEF Work
<1>4. History' = Append(History, [agent |-> "agent", target |-> f,
                                  by |-> {"agent"}])
  <2> DEFINE e == [target |-> f, remedy |-> cur.fix.remedy,
                   by |-> {"agent"}]
  <2>1. log' = Append(log, e) /\ log \in Seq(Entry)
    BY <1>1 DEF CommitLands
  <2>2. /\ Len(log) \in Nat /\ Len(log') = Len(log) + 1
        /\ \A i \in 1..Len(log) : log'[i] = log[i]
        /\ log'[Len(log) + 1] = e
    BY <2>1
  <2> DEFINE S == [agent : {"agent"}, target : Files, by : SUBSET Authors]
             x == [agent |-> "agent", target |-> f, by |-> {"agent"}]
             row(entry) == [agent |-> "agent", target |-> entry.target,
                            by |-> entry.by]
             longer == [i \in 1..Len(log) + 1 |->
                          IF i = Len(log) + 1 THEN x ELSE row(log[i])]
  <2>3. \A i \in 1..Len(log) : log[i] \in Entry
    BY <2>1
  <2>4. \A i \in 1..Len(log) : row(log[i]) \in S
    BY <2>3 DEF Entry
  <2>5. History \in Seq(S) /\ Len(History) = Len(log)
    BY <2>2, <2>4 DEF History
  <2>6. Append(History, x) = longer
    BY <2>2, <2>5 DEF History
  <2>7. row(e) = x
    OBVIOUS
  <2>8. History' = [i \in 1..Len(log) + 1 |-> row(log'[i])]
    BY <2>2 DEF History
  <2>9. \A i \in 1..Len(log) + 1 :
          row(log'[i]) = IF i = Len(log) + 1 THEN x ELSE row(log[i])
    <3>1. \A i \in 1..Len(log) :
            i # Len(log) + 1 /\ row(log'[i]) = row(log[i])
      BY <2>2
    <3>2. row(log'[Len(log) + 1]) = x
      BY <2>2, <2>7
    <3>3. \A i \in 1..Len(log) + 1 : i \in 1..Len(log) \/ i = Len(log) + 1
      BY <2>2
    <3> HIDE DEF row, x
    <3> QED
      BY <3>1, <3>2, <3>3
  <2>10. History' = longer
    BY <2>8, <2>9
  <2> QED
    BY <2>6, <2>10
<1> QED
  BY <1>1, <1>3, <1>4 DEF Safe!Next, Safe!AgentCommits

\* So is an edit that git would not commit, which stays in the tree; a second
\* one in an ignored file changes nothing more.
LEMMA RefusalMaps ==
  ASSUME StepInv, CommitRefused
  PROVE  Safe!Next \/ UNCHANGED <<Work, History>>
<1> DEFINE f == cur.fix.target
<1>1. /\ f \in Files /\ pc = "commit" /\ pc' = "idle"
      /\ tree[f].by = {"agent"} /\ UNCHANGED <<tree, log>>
      /\ seen.by \in {{}, {"agent"}}
  BY DEF StepInv, CommitRefused, InHandIsClean, CheckedClean, Finish, repoVars
<1>2. Work[f] = seen.by /\ Work' = [Work EXCEPT ![f] = {"agent"}]
  BY <1>1 DEF Work
<1>3. History' = History
  BY <1>1 DEF History
<1>4. CASE seen.by = {}
  BY <1>1, <1>2, <1>3, <1>4 DEF Safe!Next, Safe!AgentStrands
<1>5. CASE seen.by = {"agent"}
  <2>1. Work' = Work
    BY <1>2, <1>5 DEF Work
  <2> QED
    BY <1>3, <2>1
<1> QED
  BY <1>1, <1>4, <1>5

\* Everything else the agent does is not visible there: the edit itself is
\* hidden until it is committed or refused.
LEMMA QuietSteps ==
  ASSUME StepInv, PatchNext, ~CommitLands, ~CommitRefused,
         ~(\E f \in Files : OperatorEdit(f) \/ OperatorCommit(f))
  PROVE  UNCHANGED <<Work, History>>
<1> USE DEF StepInv, StepTypeOK
<1>1. log' = log
  BY DEF PatchNext, HandleFailure, Diagnose, DeclineDirty, DeclineNoFix,
     NoteClean, PatchBlocked, PatchFailed, FallBack, RetryRefused,
     RetryNoFix, ReadTarget, WriteTarget, CommitNothing, DecodeError,
     repoVars
<1>2. CASE WriteTarget
  <2>1. /\ cur.fix.target \in Files /\ pc = "write" /\ pc' = "commit"
        /\ UNCHANGED <<cur, seen>> /\ tree[cur.fix.target].by = seen.by
        /\ \A g \in Files : g # cur.fix.target => tree'[g] = tree[g]
    BY <1>2 DEF WriteTarget, InHandIsClean
  <2> QED
    BY <1>1, <2>1 DEF Work, History
<1>3. CASE CommitNothing \/ RetryNoFix
  BY <1>3, PatchAssumption
  DEF CommitNothing, RetryNoFix, InHandIsClean, NoFix, PatchAssumption
<1>4. CASE ~WriteTarget /\ ~CommitNothing /\ ~RetryNoFix
  <2>1. pc # "commit" /\ pc' # "commit" /\ tree' = tree
    BY <1>4 DEF PatchNext, HandleFailure, Diagnose, DeclineDirty,
       DeclineNoFix, NoteClean, PatchBlocked, PatchFailed, FallBack,
       RetryRefused, ReadTarget, DecodeError, Finish, repoVars
  <2> QED
    BY <1>1, <2>1 DEF Work, History
<1> QED
  BY <1>2, <1>3, <1>4

\* What a step does in the repository is a step of SafeHealer, or nothing.
LEMMA StepMaps ==
  ASSUME RulesAlone, StepInv, PatchNext
  PROVE  Safe!Next \/ UNCHANGED <<Work, History>>
BY OperatorMaps, CommitMaps, RefusalMaps, QuietSteps DEF StepInv

LEMMA InitMaps == StepInit => Safe!Init
<1> SUFFICES ASSUME StepInit PROVE Safe!Init
  OBVIOUS
<1>1. \A f \in Files : tree[f].by \in SUBSET {"operator"}
  BY InitTree
<1>2. pc = "idle" /\ log = <<>>
  BY DEF StepInit
<1>3. Work \in [Files -> SUBSET {"operator"}]
  BY <1>1, <1>2 DEF Work
<1>4. History = <<>>
  BY <1>2 DEF History
<1> QED
  BY <1>3, <1>4 DEF Safe!Init
============================================================================
