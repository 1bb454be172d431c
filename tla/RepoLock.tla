----------------------------- MODULE RepoLock -----------------------------
(***************************************************************************)
(* Several heal() runs on one repository: the guard heal() checks, the     *)
(* lock file it then waits for, and the add / commit pairs that share one  *)
(* git index (pipeline/git_helper.py, agent/committer.py, core.heal).  The *)
(* operator may begin a git operation of their own at any time, and a run  *)
(* may be killed at any step.                                              *)
(***************************************************************************)
EXTENDS Naturals, Sequences

CONSTANTS
  Runs,      \* the heal() processes
  Files,     \* the files they may patch, none of which git ignores
  Operator,  \* the operator
  Nobody,    \* the lock is free
  NoFile     \* no file in hand

ASSUME LockAssumption ==
  Operator \notin Runs /\ Nobody \notin Runs /\ NoFile \notin Files

VARIABLES
  stage,    \* where each run is
  todo,     \* todo[r]: the files run r still has a fix for
  file,     \* file[r]: the file run r has in hand
  lock,     \* who holds ansible-heal.lock
  edits,    \* edits[f]: whose uncommitted changes are in file f
  staged,   \* staged[f]: whose changes the index holds for file f
  gitop,    \* the repository: "idle", "merging" or "detached"
  history   \* the agents' commits

vars == <<stage, todo, file, lock, edits, staged, gitop, history>>
repo == <<edits, staged, gitop, history>>

Stages == {"start", "waiting", "holding", "checked", "written", "added",
           "ended", "killed"}

Entries == [agent : Runs, target : Files, by : SUBSET (Runs \cup {Operator}),
            detached : BOOLEAN]

\* The stages in which exclusive_lock() has been entered and not left.
Inside == {"holding", "checked", "written", "added"}

Init ==
  /\ stage = [r \in Runs |-> "start"]
  /\ todo \in [Runs -> SUBSET Files]
  /\ file = [r \in Runs |-> NoFile]
  /\ lock = Nobody
  /\ edits \in [Files -> SUBSET {Operator}]
  /\ staged = [f \in Files |-> {}]
  /\ gitop = "idle"
  /\ history = <<>>

Move(r, from, to) == stage[r] = from /\ stage' = [stage EXCEPT ![r] = to]

----------------------------------------------------------------------------
\* A run

\* commit_guard(): a merge, rebase, ... in progress, or a detached HEAD.
\* reset_write_tracking() empties the run's own record only.
Guard(r) ==
  /\ \/ gitop = "idle" /\ Move(r, "start", "waiting")
     \/ gitop # "idle" /\ Move(r, "start", "ended")
  /\ UNCHANGED <<todo, file, lock, repo>>

BugAcquireHeld(r) ==
  /\ Move(r, "waiting", "holding")
  /\ lock' = r
  /\ UNCHANGED <<todo, file, repo>>

\* flock(LOCK_EX | LOCK_NB) succeeds.
Acquire(r) ==
  /\ lock = Nobody
  /\ Move(r, "waiting", "holding")
  /\ lock' = r
  /\ UNCHANGED <<todo, file, repo>>

\* The deadline passed with the lock still held elsewhere: GitStateError.
TimeOut(r) ==
  /\ lock # Nobody
  /\ Move(r, "waiting", "ended")
  /\ UNCHANGED <<todo, file, lock, repo>>

BugCheckNothing(r) ==
  \E f \in todo[r] :
    /\ todo' = [todo EXCEPT ![r] = @ \ {f}]
    /\ Move(r, "holding", "checked")
    /\ file' = [file EXCEPT ![r] = f]
    /\ UNCHANGED <<lock, repo>>

BugCheckUntilClean(r) ==
  \E f \in todo[r] :
    /\ edits[f] = {}
    /\ todo' = [todo EXCEPT ![r] = @ \ {f}]
    /\ Move(r, "holding", "checked")
    /\ file' = [file EXCEPT ![r] = f]
    /\ UNCHANGED <<lock, repo>>

\* check_and_note_clean(): the next file, unless somebody's work is in it.
Check(r) ==
  \E f \in todo[r] :
    /\ todo' = [todo EXCEPT ![r] = @ \ {f}]
    /\ \/ /\ edits[f] = {}
          /\ Move(r, "holding", "checked")
          /\ file' = [file EXCEPT ![r] = f]
       \/ /\ edits[f] # {}
          /\ stage[r] = "holding"
          /\ UNCHANGED <<stage, file>>
    /\ UNCHANGED <<lock, repo>>

\* patcher.apply_fix
Write(r) ==
  /\ Move(r, "checked", "written")
  /\ edits' = [edits EXCEPT ![file[r]] = @ \cup {r}]
  /\ UNCHANGED <<todo, file, lock, staged, gitop, history>>

\* git_helper.add: the index takes the file as it is in the working tree.
Add(r) ==
  /\ Move(r, "written", "added")
  /\ staged' = [staged EXCEPT ![file[r]] = edits[file[r]]]
  /\ UNCHANGED <<todo, file, lock, edits, gitop, history>>

Drop(r) == file' = [file EXCEPT ![r] = NoFile]

\* A hook refuses, or git will not make a partial commit during a merge; the
\* edit stays in the tree and in the index.
Refused(r) ==
  /\ Move(r, "added", "holding")
  /\ Drop(r)
  /\ UNCHANGED <<todo, lock, repo>>

Entry(r, whose) == [agent |-> r, target |-> file[r], by |-> whose,
                    detached |-> gitop = "detached"]

BugCommitWholeIndex(r) ==
  /\ gitop # "merging"
  /\ Move(r, "added", "holding")
  /\ Drop(r)
  /\ history' = Append(history, Entry(r, UNION {staged[f] : f \in Files}))
  /\ edits' = [f \in Files |-> IF staged[f] = {} THEN edits[f] ELSE {}]
  /\ staged' = [f \in Files |-> {}]
  /\ UNCHANGED <<todo, lock, gitop>>

\* git commit -- <path>: that path only, as it is in the working tree.
Commit(r) ==
  /\ gitop # "merging"
  /\ Move(r, "added", "holding")
  /\ Drop(r)
  /\ history' = Append(history, Entry(r, edits[file[r]]))
  /\ edits' = [edits EXCEPT ![file[r]] = {}]
  /\ staged' = [staged EXCEPT ![file[r]] = {}]
  /\ UNCHANGED <<todo, lock, gitop>>

\* The loop is over: exclusive_lock's finally.
Release(r) ==
  /\ todo[r] = {}
  /\ Move(r, "holding", "ended")
  /\ lock' = Nobody
  /\ UNCHANGED <<todo, file, repo>>

\* SIGKILL: the kernel drops the flock, the working tree stays as it is.
Kill(r) ==
  /\ stage[r] \in Inside \cup {"waiting"}
  /\ stage' = [stage EXCEPT ![r] = "killed"]
  /\ Drop(r)
  /\ lock' = IF lock = r THEN Nobody ELSE lock
  /\ UNCHANGED <<todo, repo>>

Run(r) ==
  \/ Guard(r) \/ Acquire(r) \/ TimeOut(r) \/ Check(r) \/ Write(r)
  \/ Add(r) \/ Refused(r) \/ Commit(r) \/ Release(r)

----------------------------------------------------------------------------
\* The operator

\* A run has the file in hand: between its check and its commit.
InHand(f) == \E r \in Runs : stage[r] \in Inside /\ file[r] = f

OperatorEdit(f) ==
  /\ ~InHand(f)
  /\ edits' = [edits EXCEPT ![f] = @ \cup {Operator}]
  /\ UNCHANGED <<stage, todo, file, lock, staged, gitop, history>>

\* git add of the operator's own change, for a commit they have in mind.
OperatorAdd(f) ==
  /\ ~InHand(f)
  /\ edits[f] = {Operator}
  /\ staged' = [staged EXCEPT ![f] = edits[f]]
  /\ UNCHANGED <<stage, todo, file, lock, edits, gitop, history>>

\* git commit of the file, an edit a run left behind included.
OperatorCommit(f) ==
  /\ ~InHand(f)
  /\ edits[f] # {}
  /\ edits' = [edits EXCEPT ![f] = {}]
  /\ staged' = [staged EXCEPT ![f] = {}]
  /\ UNCHANGED <<stage, todo, file, lock, gitop, history>>

\* git merge stops on a conflict, or git checkout --detach; and its end.
OperatorGit ==
  /\ \/ gitop = "idle" /\ gitop' \in {"merging", "detached"}
     \/ gitop # "idle" /\ gitop' = "idle"
  /\ UNCHANGED <<stage, todo, file, lock, edits, staged, history>>

Over == \A r \in Runs : stage[r] \in {"ended", "killed"}

Environment ==
  \/ \E r \in Runs : Kill(r)
  \/ \E f \in Files : OperatorEdit(f) \/ OperatorAdd(f) \/ OperatorCommit(f)
  \/ OperatorGit

Next == (\E r \in Runs : Run(r)) \/ Environment \/ (Over /\ UNCHANGED vars)

Spec == Init /\ [][Next]_vars
\* A run that is not killed keeps stepping: it polls the lock every 100 ms,
\* and each git command and pipeline run it makes returns.
FairSpec == Spec /\ \A r \in Runs : WF_vars(Run(r))

----------------------------------------------------------------------------
\* A run has a file in hand exactly between its check and its commit.
FileInHand ==
  \A r \in Runs : file[r] \in Files <=> stage[r] \in {"checked", "written",
                                                      "added"}

TypeOK ==
  /\ stage \in [Runs -> Stages]
  /\ todo \in [Runs -> SUBSET Files]
  /\ file \in [Runs -> Files \cup {NoFile}]
  /\ lock \in Runs \cup {Nobody}
  /\ edits \in [Files -> SUBSET (Runs \cup {Operator})]
  /\ staged \in [Files -> SUBSET (Runs \cup {Operator})]
  /\ gitop \in {"idle", "merging", "detached"}
  /\ history \in Seq(Entries)
  /\ FileInHand

\* Two runs are never both between taking the lock and giving it back
\* (git_helper.exclusive_lock: "Serialise agent runs against one repository").
OneWriter ==
  \A r, s \in Runs : stage[r] \in Inside /\ stage[s] \in Inside => r = s

\* A commit holds the change of the run that made it and nothing else: not
\* another run's, live or killed, and not the operator's, staged or not
\* (git_helper.commit's pathspec, check_and_note_clean, the lock).
CommitsOwnWork == \A i \in DOMAIN history : history[i].by = {history[i].agent}

\* No commit is made on a detached HEAD, where no branch would reach it
\* (committer.commit_guard).
CommitsReachable == \A i \in DOMAIN history : ~history[i].detached

\* Every run ends, however long another one holds the lock and whatever it
\* finds in the tree (the lock's timeout, a dirty file declined and not
\* waited for).
EveryRunEnds == \A r \in Runs : <>(stage[r] \in {"ended", "killed"})

\* The edit of a run that is still at work is its own affair until it is
\* committed or left behind.
Work == [f \in Files |->
           IF InHand(f) THEN edits[f] \ {r \in Runs : file[r] = f}
                        ELSE edits[f]]

History == [i \in 1..Len(history) |->
              [agent |-> history[i].agent, target |-> history[i].target,
               by |-> history[i].by]]

Safe == INSTANCE SafeHealer WITH Agents <- Runs, work <- Work,
                                 history <- History

\* All the runs together keep the promise of one.
ImplementsSafeHealer == Safe!Spec
===========================================================================
