----------------------------- MODULE PatchStep -----------------------------
(***************************************************************************)
(* One failure handled by the agent: diagnose it, check the target file    *)
(* for the operator's uncommitted work, patch the file, commit it.  This   *)
(* is _diagnose_and_patch (agent/core.py) followed by commit_fix           *)
(* (agent/committer.py), shared by the apply and the pull-request loops.   *)
(*                                                                         *)
(* A file's content is abstracted to the two things the properties tell    *)
(* apart: whose changes in it are not in HEAD yet, and which failures it   *)
(* holds the remedy of.  The operator works in the same tree meanwhile.    *)
(***************************************************************************)
EXTENDS Naturals, Sequences

CONSTANTS
  Files,          \* the files of the target repository
  Failures,       \* the problems the pipeline may report
  Rule,           \* Rule[p]: the fix the deterministic rules derive for p
  Undoes,         \* Undoes[p]: remedies that the remedy of p overwrites
  Allowed,        \* the write surface, ANSIBLE_HEAL_ALLOWED_PATHS
  Sealed,         \* files the patcher refuses: vault, unreadable, read-only
  Undecodable,    \* files whose bytes are not UTF-8
  Inventories,    \* files the repository configures as inventory sources
  Hooked,         \* files git may refuse to commit: a hook, a submodule
  Ignored,        \* untracked files that .gitignore names
  OperatorFiles,  \* files the operator works on during the run
  OperatorRaces,  \* TRUE: also on the very file the agent is patching
  UseLlm,         \* heal(use_llm=...)
  Stubborn,       \* failures whose remedy alone does not turn the run green
  ModuleFailures, \* the failures of type removed_module
  NoFile, Junk    \* no target; an edit that is the remedy of nothing

Authors == {"agent", "operator"}

Edits == Failures \cup {Junk}

Content == [by : SUBSET Authors, has : SUBSET Edits]

\* The actions of patcher.ACTIONS, with what the fix edits and where.
Fix == [action : {"edit_file", "set_yaml_key", "rename_host",
                  "replace_module", "declare_collection"},
        target : Files, remedy : Edits]

NoFix == [action |-> "none", target |-> NoFile, remedy |-> Junk]

ASSUME PatchAssumption ==
  /\ NoFile \notin Files
  /\ Junk \notin Failures
  /\ Rule \in [Failures -> Fix \cup {NoFix}]
  /\ Undoes \in [Failures -> SUBSET Failures]
  /\ Allowed \subseteq Files
  /\ Sealed \subseteq Files
  /\ Undecodable \subseteq Files
  /\ Inventories \subseteq Files
  /\ ModuleFailures \subseteq Failures
  /\ Hooked \subseteq Files
  /\ Ignored \subseteq Files
  /\ OperatorFiles \subseteq Files
  /\ OperatorRaces \in BOOLEAN
  /\ UseLlm \in BOOLEAN
  /\ Stubborn \subseteq Failures

VARIABLES
  tree,      \* the working tree, each file against HEAD
  clean,     \* git_helper._CONFIRMED_CLEAN_AT_WRITE
  log,       \* the commits the agent has made
  commits,   \* rec.commits over the run: places in log, 0 is the empty SHA
  declined,  \* HealResult.declined
  blocked,   \* HealResult.blocked
  pc,        \* where _diagnose_and_patch / commit_fix is, "idle" outside
  cur,       \* the failure in hand, its fix and where the fix came from
  seen       \* the content apply_fix read and will write back patched

repoVars   == <<tree, log>>
reportVars == <<commits, declined, blocked>>
stepVars   == <<tree, clean, log, commits, declined, blocked, pc, cur, seen>>

Blank == [by |-> {}, has |-> {}]

\* "rule": no LLM; "llm": its diagnosis; "fallback": the LLM call failed;
\* "retry": the LLM's patch failed and the rules are asked instead.
Sources == {"rule", "llm", "fallback", "retry"}

Case   == [failure : Failures, fix : Fix \cup {NoFix}, source : Sources]
NoCase == [failure |-> Junk, fix |-> NoFix, source |-> "rule"]

Reason == [why : {"dirty", "no_fix", "blocked", "failed", "commit"},
           about : Files \cup Failures]

Because(why, about) == [why |-> why, about |-> about]

\* Commits: the file, the edit it carries and whose changes it contains.
Entry == [target : Files, remedy : Edits, by : SUBSET Authors]

\* A remedy on a file whose rule points there.
RemediesOn(f) == {p \in Failures : Rule[p].target = f}

StepInit ==
  /\ \E wip \in SUBSET OperatorFiles, done \in SUBSET Failures :
       tree = [f \in Files |->
                 [by  |-> IF f \in wip THEN {"operator"} ELSE {},
                  has |-> done \cap RemediesOn(f)]]
  /\ clean = {} /\ log = <<>> /\ commits = <<>>
  /\ declined = {} /\ blocked = {}
  /\ pc = "idle" /\ cur = NoCase /\ seen = Blank

\* What a run of the pipeline fails on, for the tree as it stands.
Broken == Stubborn \cup
          {p \in Failures : \A f \in Files : p \notin tree[f].has}

----------------------------------------------------------------------------
\* The agent.  An operator named Bug... is the definition below it with a
\* plausible mistake in it; nothing uses it but the mutants of PROJECT.json.

Finish == pc' = "idle" /\ cur' = NoCase /\ seen' = Blank

\* What the LLM may answer: its schema admits free-text edits only.
LlmFixes(p) == [action : {"edit_file"}, target : Files, remedy : {p, Junk}]

\* _is_inventory_target, for every spelling of the path.
IsInventory(f) == f \in Inventories

\* _guard_inventory_fix and _guard_module_fix on such an edit.
Guarded(p, fix) ==
  IF IsInventory(fix.target) \/ p \in ModuleFailures THEN NoFix ELSE fix

FallbackDiagnose(p, source) ==
  cur' = [failure |-> p, fix |-> Rule[p], source |-> source]

\* chat_json gives an object that the schema admits, or an error.
LlmAnswers(p) ==
  \E x \in LlmFixes(p) :
    cur' = [failure |-> p, fix |-> Guarded(p, x), source |-> "llm"]

\* No provider, the attempts used up, or an answer that is not of the schema:
\* whatever the error, the rules are asked.
LlmFails(p) == FallbackDiagnose(p, "fallback")

Diagnose(p) ==
  /\ pc = "idle"
  /\ pc' = "check"
  /\ \/ ~UseLlm /\ FallbackDiagnose(p, "rule")
     \/ UseLlm /\ (LlmAnswers(p) \/ LlmFails(p))
  /\ UNCHANGED <<repoVars, clean, reportVars, seen>>

\* git status --porcelain shows something for the path.
IsDirty(f) == f \notin Ignored /\ tree[f].by # {}

\* check_and_note_clean() says the operator is in the middle of this file.
DeclineDirty ==
  /\ pc = "check"
  /\ cur.fix.target \in Files
  /\ IsDirty(cur.fix.target)
  /\ declined' = declined \cup {Because("dirty", cur.fix.target)}
  /\ Finish
  /\ UNCHANGED <<repoVars, clean, commits, blocked>>

\* An honest refusal: the diagnosis carries no fix.
DeclineNoFix ==
  /\ pc = "check"
  /\ cur.fix = NoFix
  /\ declined' = declined \cup {Because("no_fix", cur.failure)}
  /\ Finish
  /\ UNCHANGED <<repoVars, clean, commits, blocked>>

BugNoteCleanUnchecked ==
  /\ pc = "check"
  /\ cur.fix.target \in Files
  /\ clean' = clean \cup {cur.fix.target}
  /\ pc' = "read"
  /\ UNCHANGED <<repoVars, reportVars, cur, seen>>

BugNoteCleanForgotten ==
  /\ pc = "check"
  /\ cur.fix.target \in Files
  /\ ~IsDirty(cur.fix.target)
  /\ pc' = "read"
  /\ UNCHANGED <<repoVars, clean, reportVars, cur, seen>>

\* The target is clean now, and is remembered as clean for the whole run.
NoteClean ==
  /\ pc = "check"
  /\ cur.fix.target \in Files
  /\ ~IsDirty(cur.fix.target)
  /\ clean' = clean \cup {cur.fix.target}
  /\ pc' = "read"
  /\ UNCHANGED <<repoVars, reportVars, cur, seen>>

Denied(fix) == fix # NoFix /\ fix.target \notin Allowed

Inapplicable(fix) ==
  /\ fix.target \in Allowed
  /\ fix.target \in Sealed \/ fix.remedy \in tree[fix.target].has

\* PathNotAllowed: a policy decision, reported and never retried.
PatchBlocked ==
  /\ pc = "read"
  /\ cur.source # "retry"
  /\ Denied(cur.fix)
  /\ blocked' = blocked \cup {Because("blocked", cur.fix.target)}
  /\ Finish
  /\ UNCHANGED <<repoVars, clean, commits, declined>>

\* PatchError with no LLM diagnosis to fall back from.
PatchFailed ==
  /\ pc = "read"
  /\ cur.source \in {"rule", "fallback"}
  /\ Inapplicable(cur.fix)
  /\ declined' = declined \cup {Because("failed", cur.fix.target)}
  /\ Finish
  /\ UNCHANGED <<repoVars, clean, commits, blocked>>

\* The LLM's patch failed (or its anchor is not in the file): the rules are
\* asked once.  Their fix goes straight to apply_fix.
FallBack ==
  /\ pc = "read"
  /\ cur.source = "llm"
  /\ cur.fix.target \in Allowed
  /\ cur' = [cur EXCEPT !.fix = Rule[cur.failure], !.source = "retry"]
  /\ UNCHANGED <<repoVars, clean, reportVars, pc, seen>>

\* apply_fix refuses the second fix too; nothing is reported.
RetryRefused ==
  /\ pc = "read"
  /\ cur.source = "retry"
  /\ Denied(cur.fix) \/ Inapplicable(cur.fix)
  /\ Finish
  /\ UNCHANGED <<repoVars, clean, reportVars>>

\* apply_fix of action "none" is a no-op that returns ok.
RetryNoFix ==
  /\ pc = "read"
  /\ cur.source = "retry"
  /\ cur.fix = NoFix
  /\ pc' = "commit"
  /\ UNCHANGED <<repoVars, clean, reportVars, cur, seen>>

CanRead(fix) == fix.target \in Allowed /\ ~Inapplicable(fix)

ReadTarget ==
  /\ pc = "read"
  /\ CanRead(cur.fix)
  /\ cur.fix.target \notin Undecodable
  /\ seen' = tree[cur.fix.target]
  /\ pc' = "write"
  /\ UNCHANGED <<repoVars, clean, reportVars, cur>>

\* raw.decode("utf-8") raises, and no handler of the loop catches it.
DecodeError ==
  /\ pc = "read"
  /\ CanRead(cur.fix)
  /\ cur.fix.target \in Undecodable
  /\ pc' = "raised"
  /\ UNCHANGED <<repoVars, clean, reportVars, cur, seen>>

Patched(content, fix) ==
  [by  |-> content.by \cup {"agent"},
   has |-> {fix.remedy} \cup
           (IF fix.remedy \in Failures THEN content.has \ Undoes[fix.remedy]
                                       ELSE content.has)]

\* os.replace: the file becomes what was read, patched.
WriteTarget ==
  /\ pc = "write"
  /\ tree' = [tree EXCEPT ![cur.fix.target] = Patched(seen, cur.fix)]
  /\ pc' = "commit"
  /\ UNCHANGED <<clean, log, reportVars, cur, seen>>

\* commit_fix returns "" for a fix without a target; the caller keeps it.
CommitNothing ==
  /\ pc = "commit"
  /\ cur.fix = NoFix
  /\ commits' = Append(commits, 0)
  /\ Finish
  /\ UNCHANGED <<repoVars, clean, declined, blocked>>

WasDirty(f) == f \notin clean

BugCommitRefusedAsEmptySha ==
  /\ pc = "commit"
  /\ cur.fix.target \in Files
  /\ \/ WasDirty(cur.fix.target)
     \/ ~IsDirty(cur.fix.target)
     \/ cur.fix.target \in Hooked
  /\ commits' = Append(commits, 0)
  /\ Finish
  /\ UNCHANGED <<repoVars, clean, declined, blocked>>

\* GitStateError: was_dirty(), nothing to commit, or git refused.
CommitRefused ==
  /\ pc = "commit"
  /\ cur.fix.target \in Files
  /\ \/ WasDirty(cur.fix.target)
     \/ ~IsDirty(cur.fix.target)
     \/ cur.fix.target \in Hooked
  /\ declined' = declined \cup {Because("commit", cur.fix.target)}
  /\ Finish
  /\ UNCHANGED <<repoVars, clean, commits, blocked>>

\* git commit -- <path> commits the working tree of that path, whoever wrote
\* it.
CommitLands ==
  LET f == cur.fix.target IN
  /\ pc = "commit"
  /\ f \in Files
  /\ ~WasDirty(f)
  /\ IsDirty(f)
  /\ log' = Append(log, [target |-> f, remedy |-> cur.fix.remedy,
                         by |-> tree[f].by])
  /\ commits' = Append(commits, Len(log) + 1)
  /\ tree' = [tree EXCEPT ![f].by = {}]
  /\ Finish
  /\ UNCHANGED <<clean, declined, blocked>>

\* The steps of one failure that the loops leave as they are.
HandleFailure ==
  \/ DeclineDirty \/ DeclineNoFix \/ NoteClean
  \/ PatchBlocked \/ PatchFailed \/ FallBack \/ RetryRefused \/ RetryNoFix
  \/ ReadTarget \/ WriteTarget \/ CommitRefused

----------------------------------------------------------------------------
\* The operator, in another terminal

\* The file the agent has checked and not finished with.
InHand(f) == pc \in {"read", "write", "commit"} /\ cur.fix.target = f

MayTouch(f) == f \in OperatorFiles /\ (OperatorRaces \/ ~InHand(f))

\* An edit of the operator's own, which may also add or drop remedies.
OperatorEdit(f) ==
  /\ MayTouch(f)
  /\ \E s \in SUBSET RemediesOn(f) :
       tree' = [tree EXCEPT ![f] =
                  [by  |-> @.by \cup {"operator"},
                   has |-> (@.has \ RemediesOn(f)) \cup s]]
  /\ UNCHANGED <<clean, log, reportVars, pc, cur, seen>>

\* git commit of the file, an edit the agent left behind included.
OperatorCommit(f) ==
  /\ MayTouch(f)
  /\ IsDirty(f)
  /\ tree' = [tree EXCEPT ![f].by = {}]
  /\ UNCHANGED <<clean, log, reportVars, pc, cur, seen>>

----------------------------------------------------------------------------
\* Properties of one handled failure

StepTypeOK ==
  /\ tree \in [Files -> Content]
  /\ clean \subseteq Files
  /\ log \in Seq(Entry)
  /\ commits \in Seq(Nat)
  /\ declined \subseteq Reason
  /\ blocked \subseteq Reason
  /\ pc \in {"idle", "check", "read", "write", "commit", "raised"}
  /\ cur \in Case \cup {NoCase}
  /\ pc # "idle" => cur \in Case
  /\ seen \in Content

\* What the check lets pass: a file without uncommitted changes, or an
\* ignored one that nobody but the agent works on.
CheckedClean(f) == IF f \in Ignored THEN {{}, {"agent"}} ELSE {{}}

\* Between the check and the commit the file in hand holds nothing but the
\* agent's own edits, and a fix that was checked has a file (what the check
\* of _diagnose_and_patch is worth at commit_fix, several steps later).
InHandIsClean ==
  LET f == cur.fix.target IN
  cur.source # "retry" =>
    /\ pc \in {"read", "write", "commit"} => f \in Files
    /\ pc \in {"read", "write"} => tree[f].by \in CheckedClean(f)
    /\ pc = "write" => seen.by = tree[f].by
    /\ pc = "commit" => tree[f].by = {"agent"} /\ seen.by \in CheckedClean(f)

\* No commit of the agent's contains a change the operator had not committed
\* (committer.commit_fix, git_helper.check_and_note_clean / was_dirty).
CommitsOnlyAgentWork == \A i \in DOMAIN log : log[i].by = {"agent"}

\* The agent never writes into a file that holds uncommitted changes, so it
\* neither mixes its edit with the operator's nor replaces an edit it has not
\* read (core._diagnose_and_patch refuses before apply_fix, not after).
NeverWritesOverWip ==
  [][\A f \in Files :
       "agent" \in tree'[f].by \ tree[f].by => tree[f].by = {}]_stepVars

\* The one fix that goes to apply_fix unchecked is the rule's, after the LLM's
\* patch failed; whatever the LLM answers, any other goes into a clean file and
\* is committed without work of the operator's (core._diagnose_and_patch).
OnlyRetriesAreUnchecked ==
  [][cur.source # "retry" =>
       /\ \A f \in Files :
            "agent" \in tree'[f].by \ tree[f].by => tree[f].by = {}
       /\ \A i \in DOMAIN log' : i > Len(log) => log'[i].by = {"agent"}]_stepVars

\* Every entry of rec.commits is a commit of the repository, and every commit
\* the agent made is in it (the loops append what commit_fix returns).
RecordedAreLanded == commits = [i \in 1..Len(log) |-> i]

\* A failure handled without a commit leaves a reason on HealResult: about
\* its target file, or about the failure itself.
RefusalReported ==
  [][pc # "idle" /\ pc' = "idle" /\ log' = log =>
       \E r \in declined' \cup blocked' :
         r.about \in {cur.failure, cur.fix.target}]_stepVars

\* An agent's edit that is in the tree and not in a commit is either about to
\* be committed or named in HealResult.declined (core: "patched ... but ...").
StrandedIsReported ==
  \A f \in Files : "agent" \in tree[f].by =>
    \/ pc = "commit" /\ cur.fix.target = f
    \/ Because("commit", f) \in declined

\* With the rules alone it is named there, and git is the only one that keeps
\* an edit out of a commit: the file is one whose commits git may refuse, not
\* one the agent's own record of clean files forgot (core: the GitStateError
\* branch; git_helper.was_dirty).
OnlyGitStrands ==
  \A f \in Files : "agent" \in tree[f].by =>
    \/ pc = "commit" /\ cur.fix.target = f
    \/ f \in Hooked \cup Ignored /\ Because("commit", f) \in declined

----------------------------------------------------------------------------
\* What the operator is promised

\* The operator's view of the tree: the agent's edit is not there until it is
\* committed or left behind.
Work == [f \in Files |-> IF pc = "commit" /\ cur.fix.target = f
                         THEN seen.by ELSE tree[f].by]

History == [i \in 1..Len(log) |->
              [agent |-> "agent", target |-> log[i].target, by |-> log[i].by]]

Safe == INSTANCE SafeHealer WITH Agents <- {"agent"}, Operator <- "operator",
                                 work <- Work, history <- History

\* Without the LLM, and with the operator off the file in hand and off ignored
\* files, both loops do what SafeHealer promises (check, patch, commit as one
\* step; a branch and the checkouts as none).
ImplementsSafeHealer == Safe!Spec
============================================================================
