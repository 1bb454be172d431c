# Verification of ansible-heal-agent

TLA+ models of the agent that repairs a failing Ansible pipeline: what it
may do to the operator's repository, whether it ends, and whether what it
reports is what happened. TLC checks the models on small repositories; TLAPS
proves the most important results for every repository.

Paths are relative to `src/`. Every definition that stands for code is listed
with its lines under "map" in `PROJECT.json`.

## 1. The system

```
cli / mcp_server ──► core.heal ──► runner.run_pipeline ──► simulator | ansible-playbook
                        │                                        (callback plugin → sidecar, log)
                        ├──► diagnoser.diagnose ──► llm.chat_json | rules
                        ├──► patcher.apply_fix  ──► yaml_edit, the file
                        └──► committer.commit_fix ──► git_helper ──► git
```

One process is sequential: `heal()` calls everything and nothing calls back.
It may call `heal()` many times, and what a call may do hangs on settings of the
whole process. Concurrency comes from outside it: an operator edits, stages and commits in
the same working tree, other `heal()` processes want the same repository, and
any of them can be killed.

| Component | State | Operations | What makes it correct |
|---|---|---|---|
| Heal loop, `agent/core.py` | round counter, signatures applied, `HealResult`, branch checked out | `_heal_apply`, `_heal_pr`, `_diagnose_and_patch` | ends; touches only clean files; commits only its own change; every refusal has a reason and holds up nobody else; what is not committed is named; PR mode comes back |
| Committer, `agent/committer.py` | none | `commit_guard`, `commit_fix`, `resolved_target` | a commit holds one fix, on a branch |
| git helper, `pipeline/git_helper.py` | `_CONFIRMED_CLEAN_AT_WRITE`, the lock file, the index | `exclusive_lock`, `check_and_note_clean`, `was_dirty`, `add`, `commit`, `checkout`, `init_if_needed` | one writer; the index of others is left alone; the lock comes free |
| Patcher, `agent/patcher.py` | the file, a temp file | `apply_fix`, `_write_atomically` | old or new; nothing outside the surface; vault stays vault |
| YAML edits, `agent/yaml_edit.py` | none | `set_key`, `rename_host`, `replace_module`, `find_module_use` | nothing is overwritten; every use is changed; comments and order survive |
| Diagnoser, `agent/diagnoser.py` | `_TRUST_REPO` | rules for hosts, variables, collections and modules; LLM prompt, two guards | no destructive rename; a repair is needed and comes from the repository; guards have the last word |
| LLM client, `agent/llm.py` | none | providers, retry loop, schema validation | transient errors retried, fatal ones not; a question ends |
| Configuration, `agent/config.py` | the overrides of repository and output root, the environment | `set_*`, `repo_root_override`, `is_path_allowed` | back to what they were after each call |
| Runner, `pipeline/runner.py` | the inventory index of a run | simulator, `run_real`, merge of failures | a red run names a failure, a green one has none to name; groups and host patterns as Ansible reads them |
| Callback plugin, log scanner | `self.failures`, the sidecar file | one event each, `_flush`; `read_sidecar`, `extract_failures` | no failure lost, doubled or made up |
| MCP server, `agent/mcp_server.py` | process settings swapped per call | JSON-RPC loop | read-only; settings restored; every request answered |
| Evaluation, `agent/evaluation.py` | process settings swapped per case | `run_case`, scores | a case is measured by itself |
| Command line, `agent/cli.py` | the settings of its process | `run`, `eval`, `mcp` | a dry run writes outside the repository |
| SARIF, telemetry, demo, seeds | none that outlives a call | formatting, fixtures | - |

The hard behaviours, each at its line under "hazards" in `PROJECT.json`:

- The dirty check, the write and the commit are separate steps, and the
  answer of the check is remembered for the rest of the run.
- The fallback from an LLM's failed patch to the rules takes a short cut past
  that check.
- git may refuse a commit or a checkout at any time: a hook, an ignored file,
  a merge in progress, local changes. Of an ignored file it also shows no change.
- The guard on git's state, the wait for the lock, and the commits are far
  apart in time.
- Fixes can undo each other; the loop must notice.
- One file has many names: symlinks, symlinked directories, hardlinks.
- Writes fail half-way; processes are killed between any two steps, or the power
  goes.
- A real run is told by two sources that overlap: a sidecar rewritten at every
  event of a process that may die, and the text the process printed. Its exit
  code agrees with neither.
- Whether a host may be renamed is decided from the spelling of other plays,
  and from an inventory that earlier renames of the same round have changed.
- The simulator decides what is broken by a simpler reading of the repository
  than Ansible's; a repair of what only looks broken overrides what worked, and
  a green run that overlooks something ends the loop.
- A process that heals, answers requests and measures itself does all of that
  under one set of global settings.

## 2. Modules

| Module | What it is |
|---|---|
| `PatchStep` | one failure: diagnose, dirty check, patch, fallback, commit; and the operator |
| `HealApply` | the apply loop over `PatchStep` |
| `HealPr` | pull-request mode over `PatchStep` |
| `RepoLock` | several runs on one repository: guard, lock, index, kills |
| `SafeHealer` | the abstract promise: a fix is one step on a clean file |
| `Patcher` | how one fix reaches the disk through links, failing writes and kills |
| `HostRename` | the host-rename rule over several rounds: patterns, probes, guards, the rename |
| `RealRun` | ansible-playbook's events, the callback's sidecar, the log, and what `run_real` makes of them |
| `Inventory` | the group index of an inventory, and what it ought to be |
| `TaskRules` | what the simulator finds wrong with tasks, and the rules for variables, collections and modules, over several rounds |
| `LlmChat` | one question to an LLM: provider, attempts, reply |
| `Session` | the calls one process makes, one after the other, and the settings each runs under |
| `MCRules`, `MC*` | the small repositories TLC checks them on |
| `WriteProofs` | the theorems about `Patcher`, `Session` and `LlmChat`: what a call writes, and where |
| other `*Proofs` | the theorems about the module of the same name |

`HealApply` and `HealPr` both EXTEND `PatchStep`, as both loops call
`_diagnose_and_patch`. Both (one run, every step of it) and `RepoLock` (many
runs, coarse steps) are shown to implement `SafeHealer`: the loops by the
mapping of `PatchStep` that hides an edit between its write and its commit,
`RepoLock` by the same mapping for every run at once. `Patcher` opens up the one
`WriteTarget` step of `PatchStep`, where a path is a name of a file and not the
file. `HostRename` opens up one of the rules that `PatchStep` has as the constant
`Rule`, and leaves the dirty check, the commit and the retry budget to it.
`TaskRules` opens up the others, EXTENDS `Inventory`, and is at the same time
the simulator's half of a pipeline run. `Session` EXTENDS `LlmChat`: it looks at
the same calls from the outside, where a heal loop is a sequence of runs,
diagnoses and edits, and an LLM answer is what `LlmAnswers` and `LlmFails` of
`PatchStep` are. `RealRun` opens up the pipeline run, which the loops see as a set of failures
and a color; `RedIffFailures` is what they take for granted of it.

### State and actions against the code

**PatchStep.** A file is `[by, has]`: whose changes to it are not in HEAD, and
which failures it holds the remedy of. That is all the properties tell apart.
`clean` is `_CONFIRMED_CLEAN_AT_WRITE`. `pc` follows one failure through
`_diagnose_and_patch` and `commit_fix`: `check` (before
`check_and_note_clean`), `read` (in `apply_fix`, before the file is read),
`write` (read, before `os.replace`), `commit` (before `commit_fix`). The
operator may act between any two. `cur.source` records how the diagnosis was
reached, because the code treats a failed patch differently for each:
`rule`, `llm`, `fallback` (the LLM call failed) and `retry` (the LLM's patch
failed, the rules were asked again; core.py:281-298). The rules are the
constant `Rule`, one fix for each failure, so the theorems hold for every
set of rules. The LLM is any answer its schema admits, after the two guards.
`Hooked` are the files whose commit git may refuse, `Ignored` those git does not
track: it refuses their commit always and never shows a change in them, so
`IsDirty` is false of them whatever they hold.

**HealApply.** `stage` is the place in the `while` loop, `iter` its counter,
`applied` the set of signatures. `Signature` is what `_fix_signature` keeps of
a fix, no more. A red run reports any nonempty subset of what is broken:
`ansible-playbook` stops a host at its first error, and a red run without a
readable failure reports a synthetic one (runner.py:1181-1189), so the set is
never empty.

**HealPr.** `head` is the branch checked out and `differ` the files whose
blobs differ between the two: `git checkout` refuses when one of them has
local changes, and carries all other changes across.

**RepoLock.** `staged` is the shared index and `edits` the working tree, by
author. `gitop` is what `commit_guard` asks about. `Kill` is SIGKILL: the
kernel drops the flock, the edit stays behind.

**Patcher.** A path is a name; `Target` resolves it. A `FileLink` is itself a
symlink (which `resolved_target` follows), a `DirLink` is a path below a
symlinked directory (which it does not). An inode may have two names. `temp` is
the temporary file of `_write_atomically`: empty (`MakeTemp`), written but with
the kernel (`Write`), on the disk (`Sync`), and then what the path names
(`Replace`). `PowerCut` may come at any time, after the fix too, and leaves a part
of every text that is not on the disk; `Kill` leaves the text and ends the run.
A file that is cut short is an outcome of these steps; what
rules it out is that the `fsync` comes before the rename.
`CheckedPath`, `NotAllowed`/`Refused` and `Commit` each use the spelling the
code uses at that place.

**HostRename.** `name` is the inventory: which key stands for which machine, so
that a rename is seen from the machine's side. A `hosts:` pattern is the three
sets of names it adds, excludes and intersects, and how it is spelled, which is
what the guards look at: "apart" (one name, or a YAML list of terms), "comma" or
"joined" in one string. Either runner is given the first inventory source alone
(runner.py:1147), so both find a play without hosts by the same
`MatchesNothing`; what differs is how they report it. `Match` is `_hosts_in_inventory`, the semantics
ansible-core has too. `Rename` is `_diagnose_host` with each guard in turn,
`rename_host`, and the entry in `applied` that the loop makes; `Decline` is any
refusal, and is always possible, since a probe may not answer, and the dirty
check or git may refuse. An LLM never renames: its schema has only `edit_file`,
and the guard refuses that on an inventory. Not modelled: `localhost`, globs,
regular expressions and ranges (no guard takes one for a hostname), list
elements that are themselves unions, and a pattern whose first term is an
exclusion although it also has a bare one. `Created` and `HasVarsFile` see no
more than the code does: an `add_host` in a block, a role or `pre_tasks`
(`AddedIn`), and a directory under `host_vars` (`VarsIn`), keep nothing from
being renamed.

**RealRun.** `recorded` is `self.failures`. `Flush` opens the sidecar, which
empties it, and `Write` fills it; the process may die between them, and the
next event waits for both. `log` keeps the names in the lines the scanner
reads. `Start` is `run_real` up to `subprocess.run`, `Collect` all of it after
that. What ansible-core does between two callbacks (`ParseError`, `Exit`,
`Die`) is external: a module that does not resolve ends the run before any
callback; each entry of a pattern that matches nothing is warned of, and a
play all of whose entries match nothing is skipped with exit code 0. A failure
drops its message; `Key` is the key of `_merge_failures`, `About` what the
remedy of a failure depends on. Not modelled: `ignore_unreachable`, `ok_hosts`.

**Inventory.** A group is a name; the file says which hosts it lists (`own`),
which groups are defined under it (`nested`) and which it names that are defined
elsewhere (`named`). `Collected` is the recursion of `collect`, as a function on
the depth it can reach; `Pass` is one turn of the loop over `_group_refs`, which
grows the table in place, parent by parent, in the order of the file; `Passes` is
the code's bound. The other half of the loop, for a host that is called like a
group, is assumed away. `MembersOf` is the reference: the hosts of every group in
the least set closed under children.

**TaskRules.** `sites` is every place a variable is defined, `module` and `args`
the tasks, `all` the group_vars file a default is written to, `declared` the
requirements file. `Defined`, `Bound`, `Narrow` and `DefinedForAll` are the
simulator's reading, one operator per function of runner.py; `Reaches` and `Sees`
are Ansible's. `TaskFailures` is Phase A: a module first, then the first missing
variable only. A rule, its patch and its commit are one action (`Fill`,
`Declare`, `Migrate`): what can go wrong between them is `PatchStep`'s subject,
and a file that cannot be committed to is in `held`. `args[t]` names the task the
arguments of `t` were written for. Whether a module resolves and a collection is
installed are constants, as the probes ask ansible-core and ansible-galaxy.

**LlmChat.** `chat.replies` is what the service did so far; a reply is one of nine
kinds, and `Reading` is how each backend classifies it. The attempts are counted
by the replies. The wait between two is a state of its own (`Backoff`).

**Session.** Its `SessionInit` and `SessionNext` carry the module's name so that
one module can reason about it and `Patcher`. `settings` is what `config`, the environment and `_TRUST_REPO` hold;
`saved` what the call in progress found and restores in its `finally` clauses.
`Library`, `CommandLine`, `Request` and `Case` are the four entries. `deeds` is
what the call did, where, and under which surface; that a call ends by an exception
out of any step (`Raise`) leads through the same `Return`. A diagnosis in a trusted
repository counts as running its inventory plugins, whether the rule asked or not.
A pipeline run with the real runner leaves the deed "playbook", in every mode:
`run_real` has ansible-playbook load the repository's inventory, plugins and all,
and run its tasks there, without `--check`.

## 3. What TLC checks

Passing runs:

| Run | Question | Instance |
|---|---|---|
| `HealRules` | Does the apply loop on the rules ever touch, commit or lose anybody's work? What can it leave behind, and when does it give up? Is it `SafeHealer`? | 2 files, 3 failures, two plays undoing each other's rename, a hooked file, an operator on both files, 2 rounds |
| `HealLlm` | What holds whatever the LLM answers? Which fix may go unchecked? | 3 files, one outside the surface, one undecodable, one hooked; 2 failures, any answer, 2 rounds |
| `PrRules` | Does PR mode come back, is its success reviewable, does each refusal have a reason and hold up nobody else? Is it `SafeHealer`? | 5 files, 6 failures: a hooked file, an ignored one, an undecodable one, one with an operator on it and one in the clear, and a failure without a fix |
| `LockRuns` | One writer, own work only, do runs end, are all the runs together `SafeHealer`? | 2 runs, 2 files, kills, merges, detached HEADs |
| `PatcherGates` | Do the gates hold for every spelling of a path? | 3 real paths, one of them ignored by git, 3 symlinks, a hardlinked pair, failing writes, kills, power cuts |
| `HostRename` | Does a rename ever take a machine from a play that worked, give two things one name, or get undone? | 2 machines under every naming, 8 plays, 3 groups (one empty, one elsewhere), a host elsewhere |
| `RealRun` | Is everything that went wrong in a real run reported, once, and nothing else? | 3 plays (one skipped, one matching in part, one asking twice in vain), 2 hosts, failures fatal, ignored and rescued, deaths |
| `TaskRules` | Is only what is broken repaired, from what the repository says, is green green, and is what can be repaired repaired? | 2 playbooks, 4 tasks, 3 variables, 6 modules; 5 x 9 x 3 ways to define the variables, 3 choices of modules and 3 inventories; and all inventories of 3 groups and 2 hosts in which a host is listed once and at most two children are named |
| `Session` | Does a call leave the process as it was, does a read-only call only read, is a case sealed off, does every call end, and are retries right? | 2 repositories, every configuration, 12 LLM environments, 3 attempts, 3 runs of up to 2 failures |

Bounds. Two files are enough for each property that relates a file to another
one (a fallback to another file, two runs on two files, a stranded edit beside
a committed one); `HealLlm` has a third for the
file a guard or the surface keeps out, and `PrRules` one for each thing that can be
in the way of a failure, and one with nothing in the way. `MaxRetries` is 2 or 3
where the default of `heal()` and of the command line is 3 (core.py:111, cli.py:40):
a stall needs one round that brings something and one that does not, a stale clean
record needs two rounds. Two runs are enough for the lock:
its state is who holds it. The logs grow by at most one entry per failure and
round and need no bound of their own. Operator actions are unbounded
in number; they only move between finitely many contents.

For the renames, two machines are the least with which a rename can collide.
The names come in two families that resemble each other only within, the order
being `Rank`, and there is a play for each case a guard knows: a stale name, a
list, a group, an empty group, a host and a group of another source, an
exclusion, a name made by `add_host`. The rounds are not bounded.

For a real run, two hosts are the least with which one failure comes twice, and
with a variable, a task and a module there is one failure of every type. A play
that matches in part and one that matches nothing share a pattern, since
telling them apart is what the sidecar is for.

For the rules on tasks, a task with two variables, a variable of two plays, and
a variable before and after the task that registers it are the cases in which a
scan by play and a lookup by host differ. Three groups are the least in which a
chain of children can stand against the order of the file. `MaxRetries` is 3: one
round more than the variables of a task. For a session, a second failure and a
second run are where a call can leave something behind for the next step.

The type invariants are proved (section 5) and not run again. Neither is
`CommitsOnlyAgentWork`, which follows from `ImplementsSafeHealer`; the proofs need
it as a part of their invariant.

In the passing runs the operator stays off the one file the agent has between
its check and its commit (`OperatorRaces = FALSE`, `InHand`), and off the files git
ignores. Section 4 says what happens without that.

`OnlyGitStrands` and `StallMeansNothingNew` are checked where they can fail: in
`HealRules` git refuses the commits on one of the two files, a run may end green
over an edit that is in no commit, and two renames that undo each other stall the
loop, in rounds in which a fix landed too.

Fairness. `WF_vars(Agent)` for the loops: one process whose git commands,
pipeline runs and LLM calls return (the LLM client has a timeout;
`run_real` has none, so that is an assumption about the playbooks). Nothing is
assumed of the operator. In `RepoLock` each run is fair on its own; it polls
the lock every 100 ms and gives up at a deadline. Kills are never required.
`TaskRules` has the fairness of the loops. In `Session` it is `WF_vars(Working)`:
a call that was made goes on until it returns, and nobody has to make one.

The violation runs, each a disagreement between the code and a sentence of its
own docs, comments or tests (quoted under "findings"):

| Run | What happens |
|---|---|
| `FallbackOverWip` | the rule's fix after a failed LLM patch is written into a file that was never checked |
| `RequestRealRunner` | the MCP tool `diagnose` with `runner="real"` has ansible-playbook run in the repository, which loads the inventory plugins that "do not run" (mcp_server.py:127) |
| `SharedArguments` | two tasks of a playbook use a removed module; the second gets the first one's arguments |

## 4. Known limits of the code

The passing runs exclude the following, by the constant or the instance named.
Changing it makes TLC produce the trace.

| Where | Without the exclusion | What fails |
|---|---|---|
| `HealRules`, `OperatorRaces = FALSE` | an edit saved between the check and `git commit -- <path>` is committed with the fix (git_helper.py:180) | `ImplementsSafeHealer`, and `OnlyRetriesAreUnchecked` of `HealLlm` |
| `HealRules`, `UseLlm = FALSE` | the fallback fix goes into a file found clean rounds ago and edited since (git_helper.py:210) | `ImplementsSafeHealer`; `OnlyRetriesAreUnchecked` says it is the only such fix |
| `PrRules`, `UseLlm = FALSE` | the fallback fix is refused too and the result does not say so (core.py:298) | `RefusalReported` |
| `PrRules`, `UseLlm = FALSE` | a fallback diagnosis of action "none" is a no-op that `apply_fix` calls ok; `commit_fix` answers "" and the loop counts a commit: an empty branch is pushed and success reported (core.py:288; tests/test_safety.py:143 "A declined diagnosis is not a commit") | `SuccessIsReviewable` |
| `HealRules`, no two removed modules in one playbook | with two of them in `Rule`, reported in different runs: two replacements in one playbook have one signature (core.py:334), and the second passes for a repetition | `StallMeansNothingNew`; `SignaturesTell` is the hypothesis of the theorem |
| `HealRules`, `Ignored = {}` | with an ignored inventory that the operator works in too: git status shows none of their changes and the fix is written over them; no commit follows, as git refuses it (git_helper.py:176) | `NeverWritesOverWip`, `ImplementsSafeHealer`; in `PatcherGates`, with an ignored file in `Surface`, `NeverReplacesWip` |
| `PrRules`, one fix for each hooked file | a second fix stranded in a file the branch changed makes git refuse the checkout back (core.py:521) | `BackOnBase` |
| `PatcherGates`, `DirLinks = {}` | with `DirLinks = {below}` the dirty check asks git about a path below a symlinked directory, where git shows nothing (committer.py:57) | `NeverReplacesWip` |
| `HostRename`, `RealRunner = FALSE` | with `TRUE` and the plays `{site, joined}`: the callback reports "web01,db1" in two halves, each a single name that no play claims; a host is renamed to one of them and away again (heal_json.py:89) | `RenamedOnce` |
| `RealRun`, `CutShort = FALSE` | with `TRUE` the process dies between the `open(..., "w")` that empties the sidecar and the write: every failure only the callback saw is gone, and with it "usable data" (heal_json.py:104-108) | `NothingLost` |
| `RealRun`, `WritesFail = FALSE` | with `TRUE` an OSError is passed over, and a skipped play, of which only the sidecar tells, leaves the run green (heal_json.py:111) | `SkippedPlayIsRed`, `NothingLost` |
| `LockRuns`, `CommitsReachable` not listed | `commit_guard` runs before a wait of up to a minute for the lock; a HEAD detached meanwhile is committed onto (core.py:161; src/README.md:296 lists "a detached HEAD, where commits would be unreachable from any branch" among what is refused) | `CommitsReachable` |
| `HostRename`, no play `joined` | a play on "web01,db1" claims neither name, and another play's rename takes a machine away from it (diagnoser.py:735; diagnoser.py:716 "only safe if no *other* play depends on the name") | `PlaysKeepTheirMachines` |
| `TaskRules`, `Layouts <- Inline` | a variable beside a host of the inventory is not read; a default for it is committed | `DefaultsFillHoles` |
| `TaskRules`, `Layouts <- OtherRole` | the variables of any role count for every play (runner.py:771) | `GreenIsSound` |
| `TaskRules`, `Layouts <- Directory` | a file in `group_vars/<group>/` makes a variable narrow (runner.py:308) but is not looked at for the hosts (runner.py:223), so the pipeline stays red | `CurableHeals` |
| `TaskRules`, `Layouts <- Masked` | a task is judged by its first missing variable; a narrow one that every host has hides the next (runner.py:902) | `GreenIsSound` |
| `HostRename`, `lab` has a member and `Plugin = FALSE` | an empty group of another source, or any group of it when the probe may not run a source's plugin, is taken for a stale host (diagnoser.py:825) | `NamesStayApart` |

The layouts of `TaskRules` also leave out a fact or a registered variable used
before the task that sets it, one of `pre_tasks` or of an earlier play, and a
`vars:` block of a group the play's hosts are not in: the simulator takes a name
for bound, or not, by the play and not by the place. Of `Session`: `_isolated` does
not give the trust in the repository back, which the next entry sets anyway; an
evaluation case keeps the caller's `PIPELINE_RUNNER` (the command `eval` sets it);
the serve loop itself ends on parameters that are no object (mcp_server.py:231,
outside the `try`); and a conforming reply that quotes ``` may be refused
(llm.py:532; the model allows either). The command `eval` writes its report into the
current directory when its cases are over (cli.py:176), which is no part of a case.
A dry run of the library with `PIPELINE_RUNNER=real` runs the playbook in the
repository as the request of `RequestRealRunner` does; `ReadOnlyWritesNothing`
allows it to callers that asked for that runner.

A success of the apply loop does not mean that all of its work is committed. With a
refused fix beside a committed one the next run is green on the uncommitted edit and
success is reported (core.py:351; the comment of core.py:383-385 calls saying
'success' there the way "the agent used to leave work stranded in the index"). `HealRules` has such runs;
`OnlyGitStrands` says what is left of the promise: only a commit that git refused
leaves an edit behind, and the result names its file.

Two things of a real run that no property states, since the repository does not
say what should be: an undefined variable whose failure is ignored is left out
by the callback (heal_json.py:117) and found again by the scan
(log_scanner.py:137), so a green run turns red; and a rescued failure is
recorded, with the same effect. Where the process dies before its first flush,
warnings of patterns matched in part count as skipped plays, as without a
sidecar nobody can tell; `SkipsAreReal` is stated for runs with one.

## 5. What is proved

Every theorem holds for every set of files, failures, rules, every surface and
every retry budget, under the assumptions on constants in the modules.

- `HealApplyProofs`. `Typed` and `StrandedReported` hold with or without the
  LLM and whatever the operator does. `OwnWorkOnly`, `Recorded`,
  `NeverOverWip` and `KeepsThePromise` assume `RulesAlone`: no LLM, and
  `OperatorInSight`, an operator who stays off the file in hand and off the files
  git ignores (`IgnoredIsOwn`: those then hold no change but the agent's). They rest on `StepInv`, whose heart
  is `InHandIsClean`: between the check and the commit the file in hand holds
  no change but the agent's, and what was read is what is there. Neither
  "commits are the agent's" nor "writes go to clean files" is inductive
  without it, since both are decided steps after the check.
  Under `OperatorInSight` `InHandIsClean` holds with the LLM as well, of every fix but the one that
  follows a failed patch of the LLM's. `RetriesOnly` draws the conclusion: the
  operator's race, that fallback and the ignored files (section 4) are the only
  ways for work of the operator's into a write or a commit of the agent's.
  `NewFixEveryRound` bounds the rounds by the number of different fixes
  applied, and needs no assumption; its invariant counts the round under way.
  `GitAloneStrands` assumes `RulesAlone`, and nothing of what git refuses. `StrandInv`
  says where an edit of the agent's may be: in hand before its commit, or left in a
  file whose commit git refuses; it also needs that a fix in hand was noted clean, or
  the commit could be refused for that. With `StrandedReported` it follows that the
  result names the file, a green end included.
  `StallNothingNew` assumes `SignaturesTell`: no two fixes of the rules differ
  in nothing but what `_fix_signature` leaves out, which two removed modules in
  one playbook do (section 4). It needs neither `RulesAlone` nor a bound on what
  the LLM answers. `LoopInv` says that nothing is in hand when a round is over,
  `FixIsKnown` says that a fix that is committed is a rule's or
  carries no remedy, and `StallInv` that every signature noted as applied is that
  of a commit, while the round is without progress of one from before the round;
  a repeated signature then tells a repeated fix (`TellsRemedy`).
- `HealPrProofs`. `Typed`, `StrandedReported`, `OwnWorkOnly`, `RetriesOnly` and
  `KeepsThePromise` as above, with the checkouts, which replace the content of
  clean files only; `DifferIsTracked` says that no ignored file is among those. `Reviewable`: on the rules a success after branching has a
  commit. `Reported`: on the rules each refusal has a reason. `Back` assumes
  `RulesAlone` and `RefusedOnce`: a file git may refuse a commit of is patched by
  one rule only, and the operator is not at work in it (section 4 has the trace
  for two rules; a commit of the operator's on the heal branch makes the branches
  differ in it just as well). A checkout fails on an edit in a file the two
  branches differ in. `BaseInv` says that such a file, where git may refuse,
  holds no edit of the agent's and that no failure still to be handled has a fix
  for it.
- `RepoLockProofs`. `Exclusive` from the invariant that whoever is inside is
  the holder; `OwnWork` from that and "a file in hand holds nothing but the
  edit of the run that has it"; `KeepThePromise`, the refinement of
  `SafeHealer`, for any number of runs, kills included. A run's write is a
  stutter, and its commit, refusal or death the abstract step.
- `WriteProofs`, on `Patcher`. `Typed`, and `NeverCutShort`: no path of the repository
  ever names a half-written file. Its invariant `Whole` is about the temporary file
  as well: before the rename it is on the disk, and whatever a path names has been,
  so a power cut finds nothing to spoil, then or later. `OutsideSafe` and `VaultSafe` rest on
  `HandInv`: past the gates the file in hand is a real path in the surface,
  shares its inode with no other, and is still what `apply_fix` read.
  `WipSafe` assumes `DirLinks = {}` and no ignored file in the surface, and adds that the answer of the dirty
  check still holds when the file is replaced. The lemma `OnlyReplace` is
  where the steps are told apart: one of them changes inodes, and only of the
  file in hand.
- `WriteProofs`, on `Session` and `LlmChat`, for any set of repositories,
  configurations and LLM environments and any number of attempts, with no
  assumption. `SettingsBack`, `ReadOnly` and `EvaluationSealed` rest on
  `CallInv`: what `Restored` gives back during a call is what the user had
  configured, for every entry but the command line, which ends its process; a
  dry run has its output outside the repository and no trust, and runs the playbook
  only where its caller asked for the real runner; a case has the
  root and the surface of its own. The lemma `NextDeeds` is where the steps that
  leave something behind are told apart. `RetriesFit` rests on `ChatInv`: while a
  question is open no reply has settled it and an attempt is left, and outside
  of a diagnosis there is none.
- `HostRenameProofs`. `NamesApart` assumes `GroupsAnswer`: the groups of the
  other sources are known to the agent only by what ansible resolves. `Once`
  assumes `AllScanned` and rests on `OnceInv`: a name a failure asks for alone is
  claimed by the play that asks, so a rename's new name is claimed and its old
  one is not; `RenamedOnce` by itself says nothing of the failures still to
  handle. `PlaysKept` assumes `GroupsAnswer` and `HostsAreClaimed`, which is what
  the comment of `_play_host_patterns` takes for granted; the lemma `TermKept`
  says which names a rename leaves as they were.
- `RealRunProofs`. `MergedOnce` and `ColorTold` need no assumption, and
  `OnlySkippedPlays` none but that a sidecar is there; its invariant
  `SkipsKnown` says that whatever the callback holds, in `recorded`, in the
  queue or in the file, is of a skipped play, whether writes fail or not.
  `SkippedPlayTold` assumes that the sidecar can be written, `AllReported` also
  that no write is cut short. They rest on `InStep`: between two writes the file
  holds all that was recorded. `Told` and `Kept` carry a skipped pattern and a
  failure from the event to the file. The lemma `KeyIsAbout` says that the key
  of `_merge_failures` tells failures of either source apart exactly as their
  remedies do.
- `TaskRulesProofs`. `IndexIsTransitive` is about the code's bound: after
  `Passes` passes the table is that of `MembersOf`, for every inventory of finitely
  many groups. `Rows` are the tables in which no group has a
  host that is not below it; every step stays among them. For one host, the groups
  that have it only grow from pass to pass (`PassRows`), and a set of groups that
  grows at every step has at most as many steps as there are groups
  (`ChainStops`): some pass adds none, and then no group above is left out.
  Induction is by the least counterexample of a set of numbers (`Least`,
  from the well-foundedness of the naturals). `HolesOnly` assumes `PlainSites` (no
  variable beside a host, none registered where the scan does not look), which
  `Inline` breaks; its invariant says of every failure in hand that its variable
  is a hole. `GreenSound` assumes `BoundIsSeen`, which `OtherRole` breaks, and
  `NarrowIsLast`, which `Masked` breaks. `Faithful` assumes `OneOfAKind`: no playbook holds two tasks
  that one short name would find, before or after a migration, which
  `SharedArguments` shows to be needed; `CoreIsApart`, that a module that resolves
  shares its short name with none that is renamed; and `SuccessorsStay`, that no
  migration leads on to another, which holds for the entries of
  `MODULE_REPLACEMENTS`. `FaithInv` says that a task goes by a name of the module
  it was written with and has its own arguments; the playbook a rule finds is
  then the one of the task that failed. TLC confirms the three assumptions on the
  instance of `TaskRules`.
- `PatchStepProofs` holds the lemmas on one failure that both loops use.

The loops share a step, so each lemma on `PatchNext` is proved once and the
loop's proof adds its own bookkeeping.

Left to TLC: liveness (`Terminates`, `OthersAreNotInTheWay`, `EveryRunEnds`, `CurableHeals`,
`EveryCallReturns`), which this prover does not reach. Every other property of
the passing runs is a theorem. Where a theorem has an assumption, it is a condition
on the constants or on what the repository holds, and section 4 has the trace
for most of what it leaves out.

## 6. Not modelled, and the plan

Next, in this order:

1. Weaker assumptions where the code would allow them: `Back` for a hooked file
   with several rules as long as no earlier one lands.
2. The guard on HEAD between the lock and the first commit, for runs whose
   operator does not detach it while they wait.
3. `init_if_needed`, which makes a repository before the lock is taken, and
   inputs that cannot be read (`unreadable_input`).

Out of scope: what the round-trip library preserves, `import_playbook`, SARIF,
telemetry, transcript wording, argument parsing, scores and reports of the
evaluation, demo and seeds. `_open_pull_request` only sets a URL. While an LLM
answers, the guards turn a removed module or an inventory rename into a final
refusal without asking the rules (diagnoser.py:1262, 1361): `CurableHeals`
is stated for the rules.
