------------------------------ MODULE Patcher ------------------------------
(***************************************************************************)
(* How a fix reaches the disk: the dirty check, the gates and the atomic   *)
(* write of apply_fix (agent/patcher.py), and the commit, each of which    *)
(* works out for itself which file the path in the fix stands for.  Paths  *)
(* may go through symlinks, files may be hardlinked, a write may fail      *)
(* half-way, the process may be killed at any step and run again, and the  *)
(* power may be cut before what was written is on the disk.                *)
(***************************************************************************)
EXTENDS Naturals, FiniteSets

CONSTANTS
  Real,        \* the real paths of the repository
  FileLinks,   \* paths that are symlinks themselves
  DirLinks,    \* paths below a symlinked directory
  Target,      \* Target[n]: the real path n resolves to, or Outside
  Outside,
  Surface,     \* the paths the write surface matches
  Shared,      \* inodes that more than one real path may name
  CreatesFiles,\* real paths a declare_collection fix may create
  Ignored      \* real paths git does not track and is told to ignore

Names == Real \cup FileLinks \cup DirLinks
Inodes == Real \cup Shared

ASSUME PathAssumption ==
  /\ FileLinks \cap DirLinks = {} /\ Real \cap (FileLinks \cup DirLinks) = {}
  /\ Shared \cap Real = {} /\ Outside \notin Names
  /\ Target \in [Names -> Real \cup {Outside}]
  /\ \A n \in Real : Target[n] = n
  /\ Surface \subseteq Names /\ IsFiniteSet(Real)
  /\ CreatesFiles \subseteq Real /\ Ignored \subseteq Real

Authors == {"agent", "operator"}

\* What a file holds: plain text, vault ciphertext, text that is whole but not
\* on the disk yet, or part of a text; and whose changes to it are not in HEAD.
Content == [text : {"plain", "vault", "unsynced", "cut"}, by : SUBSET Authors]

VARIABLES
  exists,   \* the real paths there are
  inode,    \* inode[n]: the inode path n names; a file of one name has its own
  data,     \* data[i]: the content of an inode
  clean,    \* _CONFIRMED_CLEAN_AT_WRITE, as real paths
  pc,       \* where the fix is
  name,     \* the path in the fix
  buffer,   \* what apply_fix read
  temp      \* the temporary file beside the target

disk == <<exists, inode, data>>
vars == <<exists, inode, data, clean, pc, name, buffer, temp>>

Plain == [text |-> "plain", by |-> {}]

\* Inodes of real paths are their own unless two of them share one.
Init ==
  /\ exists \in SUBSET Real
  /\ Real \ CreatesFiles \subseteq exists
  /\ inode \in [Real -> Inodes]
  /\ \A n \in Real : inode[n] \in Real => inode[n] = n
  /\ data \in [Inodes -> [text : {"plain", "vault"}, by : {{}}]]
  /\ \A n \in Real \ exists : inode[n] = n
  /\ \A i \in Inodes : (\A n \in exists : inode[n] # i) => data[i] = Plain
  /\ clean = {}
  /\ pc = "idle" /\ name = Outside /\ buffer = Plain /\ temp = Plain

File(n) == data[inode[n]]
Links(n) == {m \in exists : inode[m] = inode[n]}

----------------------------------------------------------------------------
\* What each step takes the path to mean

BugCheckedAsDeclared(n) == n

\* committer.resolved_target: a symlink is followed if the last component of
\* the path is one, and what it points to is in the repository.
CheckedPath(n) ==
  IF n \in FileLinks /\ Target[n] # Outside THEN Target[n] ELSE n

\* git status of a path: a path that is a symlink, or below one, has no
\* change of its own to show, nor has an ignored file; an untracked one has.
StatusShows(n) == n \in exists \ Ignored /\ File(n).by # {}

\* git add / git commit -- <path> refuse a path beyond a symbolic link, and an
\* ignored one.
CommitReaches(n) == n \in exists \ Ignored

----------------------------------------------------------------------------
Start(n) ==
  /\ pc = "idle"
  /\ pc' = "check" /\ name' = n
  /\ UNCHANGED <<disk, clean, buffer, temp>>

Go(how) == pc' = how /\ UNCHANGED <<name, buffer, temp>>
Done    == pc' = "idle" /\ name' = Outside /\ buffer' = Plain /\ temp' = Plain

\* check_and_note_clean(): the record is of the fully resolved path.
Check ==
  /\ pc = "check"
  /\ IF StatusShows(CheckedPath(name))
     THEN Done /\ UNCHANGED clean
     ELSE Go("gates") /\ clean' = clean \cup ({Target[name]} \cap Real)
  /\ UNCHANGED disk

\* is_path_allowed
IsPathAllowed(n) == n \in Surface

\* resolve_in_repo
EscapesRepo(n) == Target[n] = Outside

BugGateOnDeclaredPath == ~IsPathAllowed(name)

\* check_allowed on the path as declared and as resolved; traversal.
NotAllowed ==
  ~IsPathAllowed(name) \/ EscapesRepo(name) \/ ~IsPathAllowed(Target[name])

\* The gates on the file itself: absent, a hardlink.
Refused(n) ==
  \/ n \notin exists /\ n \notin CreatesFiles
  \/ n \in exists /\ Cardinality(Links(n)) > 1

Gates ==
  /\ pc = "gates"
  /\ IF NotAllowed \/ Refused(Target[name]) THEN Done
     ELSE /\ pc' = "compute"
          /\ buffer' = IF Target[name] \in exists THEN File(Target[name])
                                                  ELSE Plain
          /\ UNCHANGED <<name, temp>>
  /\ UNCHANGED <<disk, clean>>

BugComputeOverVault ==
  /\ pc = "compute"
  /\ pc' = "temp"
  /\ buffer' = [buffer EXCEPT !.text = "plain"]
  /\ UNCHANGED <<disk, clean, name, temp>>

\* A vault file is refused; the action may not apply, change nothing or give
\* invalid YAML; otherwise the patched text is ready.
Compute ==
  /\ pc = "compute"
  /\ \/ Done
     \/ buffer.text = "plain" /\ Go("temp")
  /\ UNCHANGED <<disk, clean>>

\* mkstemp gives an empty file, or fails.
MakeTemp ==
  /\ pc = "temp"
  /\ \/ /\ temp' = [text |-> "cut", by |-> {}]
        /\ pc' = "write"
        /\ UNCHANGED <<name, buffer>>
     \/ Done
  /\ UNCHANGED <<disk, clean>>

Patched == [buffer EXCEPT !.by = @ \cup {"agent"}]

\* write and flush: the text is with the kernel, not yet on the disk.  From an
\* error (no space, a quota) on the temporary file is unlinked.
Write ==
  /\ pc = "write"
  /\ \/ /\ temp' = [Patched EXCEPT !.text = "unsynced"]
        /\ pc' = "sync"
        /\ UNCHANGED <<name, buffer>>
     \/ Done
  /\ UNCHANGED <<disk, clean>>

BugSyncLeftOut ==
  /\ pc = "sync"
  /\ Go("replace") \/ Done
  /\ UNCHANGED <<disk, clean>>

\* fsync and copymode, or an error.
Sync ==
  /\ pc = "sync"
  /\ \/ /\ temp' = [temp EXCEPT !.text = "plain"]
        /\ pc' = "replace"
        /\ UNCHANGED <<name, buffer>>
     \/ Done
  /\ UNCHANGED <<disk, clean>>

\* The target's entry comes to name a new inode.
Put(n, content) ==
  /\ exists' = exists \cup {n}
  /\ inode' = [inode EXCEPT ![n] = n]
  /\ data' = [data EXCEPT ![n] = content]

\* os.replace
Replace ==
  /\ pc = "replace"
  /\ \/ Put(Target[name], temp) /\ Go("commit")
     \/ UNCHANGED disk /\ Done
  /\ UNCHANGED clean

\* commit_fix: refused if not confirmed clean or not reachable for git, or
\* by a hook.
Commit ==
  LET n == CheckedPath(name) IN
  /\ pc = "commit"
  /\ \/ /\ Target[name] \in clean
        /\ CommitReaches(n)
        /\ data' = [data EXCEPT ![inode[n]].by = {}]
     \/ UNCHANGED data
  /\ Done
  /\ UNCHANGED <<exists, inode, clean>>

\* SIGKILL, and the next run.
Kill ==
  /\ pc # "idle"
  /\ clean' = {}
  /\ Done
  /\ UNCHANGED disk

\* A power cut, in a fix or later: of a text that is not on the disk it leaves
\* a part.
PowerCut ==
  /\ data' = [i \in Inodes |-> IF data[i].text = "unsynced"
                               THEN [data[i] EXCEPT !.text = "cut"]
                               ELSE data[i]]
  /\ clean' = {}
  /\ Done
  /\ UNCHANGED <<exists, inode>>

Agent ==
  \/ \E n \in Names : Start(n)
  \/ Check \/ Gates \/ Compute \/ MakeTemp \/ Write \/ Sync
  \/ Replace \/ Commit

\* The operator edits, encrypts or commits a file that is not in hand.
Operator(n) ==
  /\ n \in exists /\ (pc # "idle" => Links(n) \cap {Target[name]} = {})
  /\ \/ \E text \in {"plain", "vault"} :
          data' = [data EXCEPT ![inode[n]] =
                     [text |-> text, by |-> @.by \cup {"operator"}]]
     \/ data' = [data EXCEPT ![inode[n]].by = {}]
  /\ UNCHANGED <<exists, inode, clean, pc, name, buffer, temp>>

Next == Agent \/ Kill \/ PowerCut \/ \E n \in Real : Operator(n)

Spec == Init /\ [][Next]_vars

----------------------------------------------------------------------------
TypeOK ==
  /\ exists \subseteq Real
  /\ inode \in [Real -> Inodes]
  /\ data \in [Inodes -> Content]
  /\ clean \subseteq Real
  /\ pc \in {"idle", "check", "gates", "compute", "temp", "write", "sync",
             "replace", "commit"}
  /\ name \in Names \cup {Outside}
  /\ buffer \in Content
  /\ temp \in Content

\* A file is always the whole old or the whole new one, whatever write fails,
\* wherever the process dies, and whenever the power goes, after the fix too
\* (patcher._write_atomically: all of the text, on the disk, then the rename).
OldOrNew == \A n \in exists : File(n).text # "cut"

\* The agent never replaces a file that holds uncommitted work, however the
\* fix spells its path (core._diagnose_and_patch, committer.resolved_target).
NeverReplacesWip ==
  [][\A n \in Real :
       "agent" \in data'[inode'[n]].by \ data[inode[n]].by
         => n \notin exists \/ File(n).by = {}]_vars

\* A real path outside the write surface keeps its inode, and the names that
\* share it, whatever links lead there (apply_fix, gates 1, 2b and 2c).
OutsideUntouched ==
  [][\A n \in Real \ Surface :
       /\ inode'[n] = inode[n]
       /\ "agent" \in data'[inode[n]].by => "agent" \in data[inode[n]].by
       /\ n \in exists => {m \in exists' : inode'[m] = inode'[n]} = Links(n)
     ]_vars

\* No plaintext is put over an encrypted file by the agent (gate 2d).
VaultStaysVault ==
  [][\A n \in exists :
       File(n).text = "vault" /\ data'[inode'[n]].text # "vault"
         => "operator" \in data'[inode'[n]].by]_vars
============================================================================
