------------------------------ MODULE Session ------------------------------
(***************************************************************************)
(* The life of one process: calls of heal() by a library user, requests to *)
(* the MCP server, cases of the evaluation and a run of the command line,  *)
(* one after the other.  What a call may do hangs on settings of the whole *)
(* process (agent/config.py, diagnoser._TRUST_REPO, the environment), which *)
(* each entry sets and gives back in its own way.                          *)
(***************************************************************************)
EXTENDS LlmChat

CONSTANTS
  Home,        \* the repository the process is configured for
  Others,      \* repositories named in requests, and those of cases
  MaxRounds,   \* pipeline runs of a call after the first
  MaxFailures  \* failures of a run

ASSUME SessionAssumption ==
  /\ Home \notin Others
  /\ MaxRounds \in Nat /\ MaxFailures \in Nat

Repos == Others \cup {Home}
Modes == {"apply", "pr", "dry-run"}

\* repo_root, output_root, PIPELINE_RUNNER, ANSIBLE_HEAL_ALLOWED_PATHS.
Settings == [root : Repos, output : {"repo", "kept", "scratch"},
             runner : {"mock", "real"}, surface : {"default", "narrowed"}]

\* What a caller asks for; runs is FALSE for explain_decline.
Calls == [by : {"library", "cli", "server", "eval"}, mode : Modes, repo : Repos,
          runner : {"mock", "real"}, llm : BOOLEAN, runs : BOOLEAN]

VARIABLES
  configured,  \* the settings before the first call
  settings,    \* the settings now
  saved,       \* those the call in progress found
  trusted,     \* the repository's own inventory plugins may be run
  call, step,  \* the call in progress and where it is
  left, round, \* failures of the run still to handle; pipeline runs so far
  deeds        \* what the call in progress did, and where

callVars == <<configured, settings, saved, trusted, call, step, left, round, deeds>>
sessionVars == <<callVars, chat>>

\* A log written, ansible-playbook run on the repository (its inventory plugins
\* and its tasks with it), its inventory plugins run for a diagnosis, an edit.
Whats == {"log", "playbook", "plugins", "edit"}

Deeds == [by : {"library", "cli", "server", "eval"}, mode : Modes, repo : Repos,
          runner : {"mock", "real"}, what : Whats,
          where : Repos \cup {"outside"}, surface : {"default", "narrowed"}]

Deed(what, where) == [by |-> call.by, mode |-> call.mode, repo |-> call.repo,
                      runner |-> call.runner, what |-> what, where |-> where,
                      surface |-> settings.surface]

Did(done) == deeds' = deeds \cup done

SessionInit ==
  /\ configured \in [root : {Home}, output : {"repo", "kept"},
                     runner : {"mock", "real"}, surface : {"default", "narrowed"}]
  /\ settings = configured /\ saved = configured
  /\ trusted = FALSE
  /\ call = [by |-> "library", mode |-> "apply", repo |-> Home,
             runner |-> "mock", llm |-> FALSE, runs |-> TRUE]
  /\ step = "start" /\ left = 0 /\ round = 0
  /\ deeds = {} /\ chat = NoChat

----------------------------------------------------------------------------
\* The entries

Begin(new) ==
  /\ step \in {"start", "idle"}
  /\ call' = new
  /\ saved' = settings /\ deeds' = {}
  /\ step' = IF new.runs THEN "run" ELSE "diagnose"
  /\ left' = IF new.runs THEN 0 ELSE 1
  /\ round' = 0
  /\ UNCHANGED <<configured, chat>>

BugDryRunInPlace(mode) == settings

\* _dry_run_artefacts, unless the output is redirected already.
DryRunSettings(mode) ==
  IF mode = "dry-run" /\ settings.output = "repo"
  THEN [settings EXCEPT !.output = "scratch"] ELSE settings

\* heal(): only a dry run leaves the repository untrusted.
Library ==
  \E mode \in Modes, llm \in BOOLEAN :
    /\ Begin([by |-> "library", mode |-> mode, repo |-> settings.root,
              runner |-> settings.runner, llm |-> llm, runs |-> TRUE])
    /\ settings' = DryRunSettings(mode)
    /\ trusted' = (mode # "dry-run")

\* `ansible-heal run`, which sets the process up for itself alone.
CommandLine ==
  \E mode \in Modes, llm \in BOOLEAN, repo \in Repos,
     surface \in {settings.surface, "narrowed"} :
    /\ step = "start"
    /\ Begin([by |-> "cli", mode |-> mode, repo |-> repo,
              runner |-> settings.runner, llm |-> llm, runs |-> TRUE])
    /\ settings' = [root |-> repo, surface |-> surface, runner |-> settings.runner,
                    output |-> IF mode = "dry-run" THEN "scratch" ELSE "repo"]
    /\ trusted' = (mode # "dry-run")

\* tool_diagnose, and tool_explain_decline which asks the rules alone, inside
\* _isolated.  A request that names no repository or no tool changes nothing.
Request ==
  \E repo \in Repos, diagnose \in BOOLEAN, runner \in {"mock", "real"} :
    /\ diagnose \/ runner = "mock"
    /\ Begin([by |-> "server", mode |-> "dry-run", repo |-> repo,
              runner |-> runner, llm |-> FALSE, runs |-> diagnose])
    /\ settings' = [settings EXCEPT !.root = repo, !.output = "scratch",
                                    !.runner = runner]
    /\ trusted' = FALSE

BugCaseKeepsSurface(repo) == [settings EXCEPT !.root = repo, !.output = "repo"]

\* Whatever the calling process configured, but for the runner.
CaseSettings(repo) ==
  [settings EXCEPT !.root = repo, !.output = "repo", !.surface = "default"]

\* run_case, in a repository made for the case.
Case ==
  \E repo \in Others, llm \in BOOLEAN :
    /\ Begin([by |-> "eval", mode |-> "apply", repo |-> repo,
              runner |-> settings.runner, llm |-> llm, runs |-> TRUE])
    /\ settings' = CaseSettings(repo)
    /\ trusted' = TRUE

----------------------------------------------------------------------------
\* heal() from the outside

\* The run writes its log under output_root().  The simulator only reads the
\* repository; run_real has ansible-playbook run in it, in every mode.
RunPipeline ==
  /\ step = "run"
  /\ Did({Deed("log", IF settings.output = "repo" THEN settings.root
                                                 ELSE "outside")}
         \cup (IF settings.runner = "real"
               THEN {Deed("playbook", settings.root)} ELSE {}))
  /\ \E n \in 0..MaxFailures :
       /\ left' = n
       /\ step' = IF n = 0 THEN "over" ELSE "diagnose"
  /\ UNCHANGED <<configured, settings, saved, trusted, call, round, chat>>

\* diagnose(), where a rule may ask ansible for the inventory.
Diagnose ==
  /\ step = "diagnose"
  /\ IF trusted THEN Did({Deed("plugins", settings.root)}) ELSE UNCHANGED deeds
  /\ \/ ~call.llm /\ step' = "patch" /\ UNCHANGED chat
     \/ call.llm /\ step' = "ask" /\ chat' = [NoChat EXCEPT !.stage = "resolve"]
  /\ UNCHANGED <<configured, settings, saved, trusted, call, left, round>>

Ask ==
  /\ step = "ask"
  /\ ChatNext
  /\ UNCHANGED callVars

\* An answer the guards look at, or the rules after an error.
Asked ==
  /\ step = "ask"
  /\ chat.stage = "over"
  /\ step' = "patch" /\ chat' = NoChat
  /\ UNCHANGED <<configured, settings, saved, trusted, call, left, round, deeds>>

\* apply_fix and commit_fix, in a dry run a diff; then the next failure, the
\* next run of apply mode, or the end.
Patch ==
  /\ step = "patch"
  /\ \/ call.mode # "dry-run" /\ Did({Deed("edit", settings.root)})
     \/ UNCHANGED deeds
  /\ left' = left - 1
  /\ \/ left > 1 /\ step' = "diagnose" /\ UNCHANGED round
     \/ left = 1 /\ step' = "over" /\ UNCHANGED round
     \/ /\ left = 1 /\ call.mode = "apply" /\ round < MaxRounds
        /\ step' = "run" /\ round' = round + 1
  /\ UNCHANGED <<configured, settings, saved, trusted, call, chat>>

\* An exception out of any of them.
Raise ==
  /\ step \in {"run", "diagnose", "patch"}
  /\ step' = "over"
  /\ UNCHANGED <<configured, settings, saved, trusted, call, left, round, deeds, chat>>

BugRestoreOutputOnly == [settings EXCEPT !.output = saved.output]

\* The finally clauses of _dry_run_artefacts, _isolated, run_case and
\* repo_root_override.
Restored ==
  CASE call.by = "library" -> [settings EXCEPT !.output = saved.output]
    [] call.by = "server" -> [settings EXCEPT !.output = saved.output,
                                              !.runner = saved.runner,
                                              !.root = saved.root]
    [] call.by = "eval" -> [settings EXCEPT !.output = saved.output,
                                            !.surface = saved.surface,
                                            !.root = saved.root]
    [] OTHER -> settings

Return ==
  /\ step = "over"
  /\ settings' = Restored
  /\ step' = IF call.by = "cli" THEN "exited" ELSE "idle"
  /\ UNCHANGED <<configured, saved, trusted, call, left, round, deeds, chat>>

Exited == step = "exited" /\ UNCHANGED sessionVars

Working == RunPipeline \/ Diagnose \/ Ask \/ Asked \/ Patch \/ Raise \/ Return

SessionNext == Library \/ CommandLine \/ Request \/ Case \/ Working \/ Exited

\* A call goes on until it returns; nobody has to make one.
SessionSpec == SessionInit /\ [][SessionNext]_sessionVars /\ WF_sessionVars(Working)

----------------------------------------------------------------------------
SessionTypeOK ==
  /\ configured \in Settings /\ settings \in Settings /\ saved \in Settings
  /\ trusted \in BOOLEAN
  /\ call \in Calls
  /\ step \in {"start", "idle", "run", "diagnose", "ask", "patch", "over", "exited"}
  /\ left \in 0..(MaxFailures + 1) /\ round \in 0..MaxRounds
  /\ step = "patch" => left > 0
  /\ deeds \subseteq Deeds
  /\ ChatTypeOK

\* Between calls the process is set up as its user set it up, however the last
\* call ended (_isolated: "then restore"; run_case).
SettingsRestored == step = "idle" => settings = configured

\* A dry run and a request edit nothing, keep their logs out of the repository
\* and its inventory plugins out of the diagnosis, and run its playbook only if
\* the caller asked for the real runner, whatever calls came before and whatever
\* the process is configured for (core._dry_run_artefacts, mcp_server._isolated).
ReadOnlyWritesNothing ==
  \A d \in deeds : d.mode = "dry-run" =>
    /\ d.what \notin {"plugins", "edit"}
    /\ d.what = "log" => d.where = "outside"
    /\ d.what = "playbook" => d.runner = "real"

\* "the repo's own inventory plugins do not run" for a request (mcp_server
\* ._isolated).  ansible-playbook runs them, and diagnose offers runner="real".
RequestRunsNoPlugins ==
  \A d \in deeds : d.by = "server" => d.what \notin {"plugins", "playbook"}

\* A case is measured in its own repository and on the default surface,
\* whatever the calling process configured (evaluation.run_case).  The report
\* that cli.eval_cmd writes afterwards, into the current directory, is no part
\* of a case.
EvaluationIsSealed ==
  \A d \in deeds : d.by = "eval" => d.where = d.repo /\ d.surface = "default"

\* Every call returns, and every request is answered.
EveryCallReturns ==
  step \notin {"start", "idle", "exited"} ~> step \in {"idle", "exited"}
============================================================================
