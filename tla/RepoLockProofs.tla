--------------------------- MODULE RepoLockProofs ---------------------------
(***************************************************************************)
(* Theorems about any number of heal() runs on one repository.             *)
(***************************************************************************)
EXTENDS RepoLock, TLAPS

OperatorStep ==
  \/ \E f \in Files : OperatorEdit(f) \/ OperatorAdd(f) \/ OperatorCommit(f)
  \/ OperatorGit

----------------------------------------------------------------------------
\* Types

LEMMA InitTypes == Init => TypeOK
  BY LockAssumption
  DEF Init, TypeOK, FileInHand, Stages, LockAssumption

LEMMA NextTypes == TypeOK /\ [Next]_vars => TypeOK'
<1> SUFFICES ASSUME TypeOK, [Next]_vars
             PROVE  TypeOK'
  OBVIOUS
<1> USE LockAssumption DEF TypeOK, FileInHand, LockAssumption
<1>1. ASSUME NEW r \in Runs, Guard(r) \/ Acquire(r) \/ TimeOut(r)
      PROVE  TypeOK'
  BY <1>1 DEF Guard, Acquire, TimeOut, Move, Stages, repo
<1>2. ASSUME NEW r \in Runs, Check(r)
      PROVE  TypeOK'
  BY <1>2 DEF Check, Move, Stages, repo
<1>3. ASSUME NEW r \in Runs, Write(r) \/ Add(r)
      PROVE  TypeOK'
  BY <1>3 DEF Write, Add, Move, Stages
<1>4. ASSUME NEW r \in Runs, Refused(r)
      PROVE  TypeOK'
  BY <1>4 DEF Refused, Move, Drop, Stages, repo
<1>5. ASSUME NEW r \in Runs, Commit(r)
      PROVE  TypeOK'
  <2>1. file[r] \in Files /\ edits[file[r]] \in SUBSET (Runs \cup {Operator})
    BY <1>5 DEF Commit, Move
  <2>2. Entry(r, edits[file[r]]) \in Entries
    BY <2>1 DEF Entry, Entries
  <2>3. history' \in Seq(Entries)
    BY <1>5, <2>2 DEF Commit
  <2> QED
    BY <1>5, <2>1, <2>3 DEF Commit, Move, Drop, Stages
<1>6. ASSUME NEW r \in Runs, Release(r)
      PROVE  TypeOK'
  BY <1>6 DEF Release, Move, Stages, repo
<1>7. ASSUME NEW r \in Runs, Kill(r)
      PROVE  TypeOK'
  BY <1>7 DEF Kill, Drop, Stages, repo
<1>8. CASE OperatorStep
  BY <1>8 DEF OperatorStep, OperatorEdit, OperatorAdd, OperatorCommit,
              OperatorGit
<1>9. CASE UNCHANGED vars
  BY <1>9 DEF vars
<1> QED
  BY <1>1, <1>2, <1>3, <1>4, <1>5, <1>6, <1>7, <1>8, <1>9
  DEF Next, Run, Environment, OperatorStep

\* Any number of runs, on any set of files, keep the state well-typed, and a
\* run has a file in hand exactly between its check and its commit.
THEOREM Typed == Spec => []TypeOK
  BY InitTypes, NextTypes, PTL DEF Spec

----------------------------------------------------------------------------
\* The lock

\* The lock names exactly the run that has entered it.
LockInv == \A r \in Runs : stage[r] \in Inside <=> lock = r

LEMMA InitLock == Init => LockInv
  BY LockAssumption DEF Init, LockInv, Inside, LockAssumption

LEMMA NextLock == TypeOK /\ LockInv /\ [Next]_vars => LockInv'
<1> SUFFICES ASSUME TypeOK, LockInv, [Next]_vars
             PROVE  LockInv'
  OBVIOUS
<1> USE LockAssumption DEF TypeOK, LockInv, Inside, LockAssumption
<1>1. ASSUME NEW r \in Runs, Guard(r) \/ TimeOut(r) \/ Check(r) \/ Write(r)
                               \/ Add(r) \/ Refused(r) \/ Commit(r)
      PROVE  LockInv'
  BY <1>1 DEF Guard, TimeOut, Check, Write, Add, Refused, Commit, Move
<1>2. ASSUME NEW r \in Runs, Acquire(r)
      PROVE  LockInv'
  BY <1>2 DEF Acquire, Move
<1>3. ASSUME NEW r \in Runs, Release(r)
      PROVE  LockInv'
  BY <1>3 DEF Release, Move
<1>4. ASSUME NEW r \in Runs, Kill(r)
      PROVE  LockInv'
  BY <1>4 DEF Kill
<1>5. CASE OperatorStep \/ UNCHANGED vars
  BY <1>5 DEF OperatorStep, OperatorEdit, OperatorAdd, OperatorCommit,
              OperatorGit, vars
<1> QED
  BY <1>1, <1>2, <1>3, <1>4, <1>5 DEF Next, Run, Environment, OperatorStep

LEMMA LockInvariant == Spec => [](TypeOK /\ LockInv)
  BY InitTypes, NextTypes, InitLock, NextLock, PTL DEF Spec

\* However many runs there are and whenever one is killed, no two are inside
\* the lock together (git_helper.exclusive_lock).
THEOREM Exclusive == Spec => []OneWriter
<1>1. LockInv => OneWriter
  BY DEF LockInv, OneWriter
<1> QED
  BY <1>1, LockInvariant, PTL

----------------------------------------------------------------------------
\* The commits

\* From its check to its commit a run's file holds that run's edit only.
OwnEdit ==
  \A r \in Runs :
    /\ stage[r] = "checked" => edits[file[r]] = {}
    /\ stage[r] \in {"written", "added"} => edits[file[r]] = {r}

WorkInv == TypeOK /\ LockInv /\ OwnEdit /\ CommitsOwnWork

LEMMA NextOwnEdit == WorkInv /\ [Next]_vars => OwnEdit'
<1> SUFFICES ASSUME WorkInv, [Next]_vars, NEW s \in Runs
             PROVE  /\ stage'[s] = "checked" => edits'[file'[s]] = {}
                    /\ stage'[s] \in {"written", "added"}
                         => edits'[file'[s]] = {s}
  BY DEF OwnEdit
<1> USE LockAssumption DEF WorkInv, TypeOK, FileInHand, LockInv,
                           OwnEdit, Inside, LockAssumption
<1>1. ASSUME NEW r \in Runs, Run(r) \/ Kill(r), r # s, lock # s
      PROVE  stage'[s] = stage[s] /\ stage[s] \notin Inside
  BY <1>1 DEF Run, Guard, Acquire, TimeOut, Check, Write, Add, Refused,
              Commit, Release, Kill, Move
<1>2. ASSUME NEW r \in Runs, Run(r) \/ Kill(r), r # s, lock = s
      PROVE  UNCHANGED edits /\ file'[s] = file[s] /\ stage'[s] = stage[s]
  BY <1>2 DEF Run, Guard, Acquire, TimeOut, Check, Write, Add, Refused,
              Commit, Release, Kill, Move, repo, Drop
<1>3. CASE Guard(s) \/ Acquire(s) \/ TimeOut(s) \/ Refused(s) \/ Commit(s)
           \/ Release(s) \/ Kill(s)
  BY <1>3 DEF Guard, Acquire, TimeOut, Refused, Commit, Release, Kill, Move
<1>4. CASE Check(s)
  BY <1>4 DEF Check, Move, repo
<1>5. CASE Write(s) \/ Add(s)
  BY <1>5 DEF Write, Add, Move
<1>6. CASE OperatorStep
  BY <1>6 DEF OperatorStep, OperatorEdit, OperatorAdd, OperatorCommit,
              OperatorGit, InHand
<1>7. CASE UNCHANGED vars
  BY <1>7 DEF vars
<1> QED
  BY <1>1, <1>2, <1>3, <1>4, <1>5, <1>6, <1>7
  DEF Next, Run, Environment, OperatorStep

LEMMA NextCommits == WorkInv /\ [Next]_vars => CommitsOwnWork'
<1> SUFFICES ASSUME WorkInv, [Next]_vars
             PROVE  CommitsOwnWork'
  OBVIOUS
<1> USE DEF WorkInv, TypeOK, FileInHand, OwnEdit, CommitsOwnWork
<1>1. ASSUME NEW r \in Runs, Commit(r)
      PROVE  CommitsOwnWork'
  <2> DEFINE e == Entry(r, edits[file[r]])
  <2>1. e.by = {r} /\ e.agent = r /\ history' = Append(history, e)
    BY <1>1 DEF Commit, Move, Entry
  <2>2. /\ Len(history') = Len(history) + 1 /\ Len(history) \in Nat
        /\ \A i \in 1..Len(history) : history'[i] = history[i]
        /\ history'[Len(history) + 1] = e
        /\ DOMAIN history = 1..Len(history)
        /\ DOMAIN history' = 1..Len(history) + 1
    BY <2>1
  <2> QED
    BY <2>1, <2>2
<1>2. CASE UNCHANGED history
  BY <1>2
<1> QED
  BY <1>1, <1>2
  DEF Next, Run, Environment, Guard, Acquire, TimeOut, Check, Write, Add,
      Refused, Release, Kill, OperatorEdit, OperatorAdd, OperatorCommit,
      OperatorGit, repo, vars

LEMMA WorkInvariant == Spec => []WorkInv
<1>1. Init => OwnEdit /\ CommitsOwnWork
  BY DEF Init, OwnEdit, CommitsOwnWork
<1> QED
  BY <1>1, InitTypes, InitLock, NextTypes, NextLock, NextOwnEdit,
     NextCommits, PTL DEF Spec, WorkInv

\* However many runs share the index, whoever is killed with an edit made or
\* staged, and whatever the operator stages, a commit holds its own run's
\* change alone (git_helper.commit, check_and_note_clean, exclusive_lock).
THEOREM OwnWork == Spec => []CommitsOwnWork
<1>1. WorkInv => CommitsOwnWork
  BY DEF WorkInv
<1> QED
  BY <1>1, WorkInvariant, PTL

----------------------------------------------------------------------------
\* All the runs together implement SafeHealer

\* Only the holder of the lock has a file in hand.
LEMMA HandOfHolder ==
  ASSUME TypeOK, LockInv, NEW r \in Runs, lock = r
  PROVE  /\ \A s \in Runs : file[s] \in Files => s = r
         /\ \A f \in Files : InHand(f) <=> file[r] = f
  BY DEF TypeOK, FileInHand, LockInv, InHand, Inside

\* What SafeHealer sees of the files: everything but the edit in hand.
LEMMA WorkOf ==
  ASSUME WorkInv
  PROVE  \A f \in Files :
           Work[f] = IF InHand(f) THEN {} ELSE edits[f]
<1> SUFFICES ASSUME NEW f \in Files, InHand(f)
             PROVE  edits[f] \ {r \in Runs : file[r] = f} = {}
  BY DEF Work
<1>1. PICK r \in Runs : stage[r] \in Inside /\ file[r] = f
  BY DEF InHand
<1>2. stage[r] \in {"checked", "written", "added"}
  BY <1>1 DEF WorkInv, TypeOK, FileInHand
<1> QED
  BY <1>1, <1>2 DEF WorkInv, OwnEdit

\* A commit is one step of the abstraction.
LEMMA CommitMaps ==
  ASSUME WorkInv, WorkInv', NEW r \in Runs, Commit(r)
  PROVE  Safe!Next
<1> DEFINE f == file[r]
<1> USE DEF WorkInv, TypeOK, FileInHand
<1>1. /\ f \in Files /\ stage[r] = "added" /\ lock = r /\ lock' = r
      /\ edits[f] = {r} /\ file'[r] = NoFile
      /\ edits' = [edits EXCEPT ![f] = {}]
  BY DEF Commit, Move, Drop, LockInv, Inside, OwnEdit
<1>2. InHand(f) /\ \A g \in Files : g # f => ~InHand(g)
  BY <1>1, HandOfHolder
<1>3. \A g \in Files : ~InHand(g)'
  BY <1>1, HandOfHolder, LockAssumption DEF LockAssumption, LockInv,
     InHand, Inside
<1>4. Work[f] = {}
  BY <1>1, <1>2, WorkOf
<1>5. Work' = Work
  <2>1. \A g \in Files : Work'[g] = edits'[g]
    BY <1>3 DEF Work
  <2>2. \A g \in Files : Work'[g] = Work[g]
    BY <1>1, <1>2, <2>1, WorkOf
  <2> QED
    BY <2>2 DEF Work
<1>6. History' = Append(History, [agent |-> r, target |-> f, by |-> {r}])
  <2> DEFINE S == [agent : Runs, target : Files,
                   by : SUBSET (Runs \cup {Operator})]
             x == [agent |-> r, target |-> f, by |-> {r}]
             row(e) == [agent |-> e.agent, target |-> e.target,
                        by |-> e.by]
             longer == [i \in 1..Len(history) + 1 |->
                          IF i = Len(history) + 1 THEN x
                                                  ELSE row(history[i])]
  <2>1. /\ history' = Append(history, Entry(r, {r}))
        /\ row(Entry(r, {r})) = x
    BY <1>1 DEF Commit, Entry
  <2>2. /\ Len(history) \in Nat /\ Len(history') = Len(history) + 1
        /\ \A i \in 1..Len(history) : history'[i] = history[i]
        /\ history'[Len(history) + 1] = Entry(r, {r})
    BY <2>1
  <2>3. \A i \in 1..Len(history) : row(history[i]) \in S
    <3>1. \A i \in 1..Len(history) : history[i] \in Entries
      BY <2>2
    <3>2. \A e \in Entries : row(e) \in S
      BY DEF Entries
    <3> QED
      BY <3>1, <3>2
  <2>4. History \in Seq(S) /\ Len(History) = Len(history)
    BY <2>2, <2>3 DEF History
  <2>5. Append(History, x) = longer
    BY <2>2, <2>4 DEF History
  <2>6. History' = [i \in 1..Len(history) + 1 |-> row(history'[i])]
    BY <2>2 DEF History
  <2>7. \A i \in 1..Len(history) + 1 :
          row(history'[i]) = IF i = Len(history) + 1 THEN x
                                                     ELSE row(history[i])
    <3>1. \A i \in 1..Len(history) :
            i # Len(history) + 1 /\ row(history'[i]) = row(history[i])
      BY <2>2
    <3>2. row(history'[Len(history) + 1]) = x
      BY <2>1, <2>2
    <3>3. \A i \in 1..Len(history) + 1 :
            i \in 1..Len(history) \/ i = Len(history) + 1
      BY <2>2
    <3> HIDE DEF row, x
    <3> QED
      BY <3>1, <3>2, <3>3
  <2>8. History' = longer
    BY <2>6, <2>7
  <2> QED
    BY <2>5, <2>8
<1> QED
  BY <1>1, <1>4, <1>5, <1>6 DEF Safe!Next, Safe!AgentCommits

\* The run lets go of a file that holds its edit, or has not been written.
LEMMA LetGoMaps ==
  ASSUME WorkInv, NEW r \in Runs, lock = r, UNCHANGED <<edits, history>>,
         file' = [file EXCEPT ![r] = NoFile],
         \A s \in Runs : s # r => stage'[s] = stage[s],
         stage'[r] \notin {"checked", "written", "added"}
  PROVE  Safe!Next \/ UNCHANGED <<Work, History>>
<1> DEFINE f == file[r]
<1> USE DEF WorkInv, TypeOK, FileInHand
<1>1. History' = History
  BY DEF History
<1>2. \A g \in Files : ~InHand(g)'
  <2>1. \A s \in Runs : file'[s] \notin Files
    BY HandOfHolder, LockAssumption DEF LockAssumption
  <2> QED
    BY <2>1 DEF InHand
<1>3. \A g \in Files : Work'[g] = edits[g]
  BY <1>2 DEF Work
<1>4. CASE stage[r] \in {"written", "added"}
  <2>1. f \in Files /\ edits[f] = {r} /\ InHand(f)
    BY <1>4, HandOfHolder DEF OwnEdit
  <2>2. Work[f] = {} /\ \A g \in Files : g # f => Work[g] = edits[g]
    BY <2>1, WorkOf, HandOfHolder
  <2>3. Work' = [Work EXCEPT ![f] = {r}]
    BY <1>3, <2>1, <2>2 DEF Work
  <2> QED
    BY <1>1, <2>1, <2>2, <2>3 DEF Safe!Next, Safe!AgentStrands
<1>5. CASE stage[r] = "checked"
  <2>1. f \in Files /\ edits[f] = {}
    BY <1>5 DEF OwnEdit
  <2>2. \A g \in Files : Work[g] = edits[g]
    BY <2>1, WorkOf, HandOfHolder
  <2>3. Work' = Work
    BY <1>3, <2>2 DEF Work
  <2> QED
    BY <1>1, <2>3
<1>6. CASE stage[r] \notin {"checked", "written", "added"}
  <2>1. \A g \in Files : Work[g] = edits[g]
    BY <1>6, WorkOf, HandOfHolder
  <2>2. Work' = Work
    BY <1>3, <2>1 DEF Work
  <2> QED
    BY <1>1, <2>2
<1> QED
  BY <1>4, <1>5, <1>6

\* Steps that touch no file, no commit and nobody's hand do not show.
LEMMA QuietMaps ==
  ASSUME WorkInv, UNCHANGED <<edits, history, file>>,
         \A s \in Runs : file[s] \in Files =>
           (stage'[s] \in Inside <=> stage[s] \in Inside)
  PROVE  UNCHANGED <<Work, History>>
<1>1. \A f \in Files : InHand(f)' <=> InHand(f)
  BY DEF InHand
<1> QED
  BY <1>1 DEF Work, History

\* Checking a clean file and writing it only take it in hand.
LEMMA TakeMaps ==
  ASSUME WorkInv, NEW r \in Runs, Check(r) \/ Write(r)
  PROVE  UNCHANGED <<Work, History>>
<1> USE DEF WorkInv, TypeOK, FileInHand
<1>1. CASE Check(r)
  <2>1. PICK f \in todo[r] :
          \/ /\ edits[f] = {} /\ file' = [file EXCEPT ![r] = f]
             /\ UNCHANGED <<edits, history>>
          \/ UNCHANGED <<edits, history, file, stage>>
    BY <1>1 DEF Check, repo
  <2>2. lock = r /\ f \in Files /\ file[r] \notin Files
    BY <1>1, <2>1 DEF Check, Move, LockInv, Inside
  <2>3. \A g \in Files : ~InHand(g)
    BY <2>2, HandOfHolder
  <2>4. CASE edits[f] = {} /\ file' = [file EXCEPT ![r] = f]
             /\ UNCHANGED <<edits, history>>
    <3>1. \A g \in Files : g # f => ~InHand(g)'
      BY <2>2, <2>4, HandOfHolder DEF InHand
    <3>2. \A g \in Files : Work'[g] = edits[g] /\ Work[g] = edits[g]
      BY <2>3, <2>4, <3>1 DEF Work
    <3> QED
      BY <2>4, <3>2 DEF Work, History
  <2>5. CASE UNCHANGED <<edits, history, file, stage>>
    BY <2>5, QuietMaps
  <2> QED
    BY <2>1, <2>4, <2>5
<1>2. CASE Write(r)
  <2> DEFINE f == file[r]
  <2>1. /\ lock = r /\ f \in Files /\ edits[f] = {} /\ edits'[f] = {r}
        /\ \A g \in Files : g # f => edits'[g] = edits[g]
        /\ stage' = [stage EXCEPT ![r] = "written"]
        /\ stage[r] = "checked" /\ UNCHANGED <<file, history>>
    BY <1>2 DEF Write, Move, LockInv, Inside, OwnEdit
  <2>2. \A g \in Files : InHand(g)' <=> InHand(g)
    BY <2>1 DEF InHand, Inside
  <2>3. InHand(f)
    BY <2>1, HandOfHolder
  <2>4. Work'[f] = {} /\ Work[f] = {}
    BY <2>1, <2>2, <2>3 DEF Work
  <2>5. \A g \in Files : Work'[g] = Work[g]
    BY <2>1, <2>2, <2>4 DEF Work
  <2> QED
    BY <2>1, <2>5 DEF Work, History
<1> QED
  BY <1>1, <1>2

\* An operator's step on a file that is in nobody's hand shows as it is.
LEMMA OperatorMaps ==
  ASSUME WorkInv, OperatorStep
  PROVE  Safe!Next \/ UNCHANGED <<Work, History>>
<1> USE DEF WorkInv, TypeOK
<1>1. ASSUME NEW f \in Files, OperatorEdit(f)
      PROVE  Safe!Next
  <2>1. Work' = [Work EXCEPT ![f] = @ \cup {Operator}]
    BY <1>1 DEF OperatorEdit, Work, InHand
  <2> QED
    BY <1>1, <2>1 DEF OperatorEdit, History, Safe!Next, Safe!OperatorEdits
<1>2. ASSUME NEW f \in Files, OperatorCommit(f)
      PROVE  Safe!Next
  <2>1. Work' = [Work EXCEPT ![f] = {}]
    BY <1>2 DEF OperatorCommit, Work, InHand
  <2> QED
    BY <1>2, <2>1
    DEF OperatorCommit, History, Safe!Next, Safe!OperatorCommits
<1>3. CASE OperatorGit \/ \E f \in Files : OperatorAdd(f)
  BY <1>3, QuietMaps DEF OperatorGit, OperatorAdd
<1> QED
  BY <1>1, <1>2, <1>3 DEF OperatorStep

\* Whatever the number of runs, their interleaving and who is killed where,
\* together they keep the promise made to the operator of one run: a commit
\* of one change on a file nobody else had work in, or that change left
\* alone in the tree (core.heal under git_helper.exclusive_lock).
THEOREM KeepThePromise == Spec => ImplementsSafeHealer
<1>1. Init => Safe!Init
  BY LockAssumption
  DEF Init, Safe!Init, Work, History, InHand, Inside, LockAssumption
<1>2. WorkInv /\ WorkInv' /\ [Next]_vars => [Safe!Next]_<<Work, History>>
  <2> SUFFICES ASSUME WorkInv, WorkInv', [Next]_vars
               PROVE  Safe!Next \/ UNCHANGED <<Work, History>>
    OBVIOUS
  <2> USE DEF WorkInv, TypeOK, FileInHand, LockInv, Inside
  <2>1. ASSUME NEW r \in Runs, \/ Guard(r) \/ Acquire(r) \/ TimeOut(r)
                               \/ Release(r) \/ Add(r)
        PROVE  UNCHANGED <<Work, History>>
    BY <2>1, QuietMaps
    DEF Guard, Acquire, TimeOut, Release, Add, Move, repo
  <2>2. ASSUME NEW r \in Runs, Check(r) \/ Write(r)
        PROVE  UNCHANGED <<Work, History>>
    BY <2>2, TakeMaps
  <2>3. ASSUME NEW r \in Runs, Commit(r)
        PROVE  Safe!Next
    BY <2>3, CommitMaps
  <2>4. ASSUME NEW r \in Runs, Refused(r)
        PROVE  Safe!Next \/ UNCHANGED <<Work, History>>
    BY <2>4, LetGoMaps DEF Refused, Move, Drop, repo
  <2>5. ASSUME NEW r \in Runs, Kill(r)
        PROVE  Safe!Next \/ UNCHANGED <<Work, History>>
    <3>1. CASE lock = r
      BY <2>5, <3>1, LetGoMaps DEF Kill, Drop, repo
    <3>2. CASE lock # r
      <4>1. stage[r] = "waiting" /\ file' = file
        BY <2>5, <3>2, LockAssumption DEF Kill, Drop, LockAssumption
      <4> QED
        BY <2>5, <4>1, QuietMaps DEF Kill, repo
    <3> QED
      BY <3>1, <3>2
  <2>6. CASE OperatorStep
    BY <2>6, OperatorMaps
  <2>7. CASE UNCHANGED vars
    BY <2>7, QuietMaps DEF vars
  <2> QED
    BY <2>1, <2>2, <2>3, <2>4, <2>5, <2>6, <2>7
    DEF Next, Run, Environment, OperatorStep
<1> QED
  BY <1>1, <1>2, WorkInvariant, PTL
  DEF Spec, ImplementsSafeHealer, Safe!Spec, Safe!vars
============================================================================
