----------------------------- MODULE TaskRules -----------------------------
(***************************************************************************)
(* What the simulator finds wrong with the tasks of a playbook             *)
(* (pipeline/runner.py, run, Phase A) and what the rules for variables and *)
(* modules (agent/diagnoser.py) do about it, over the rounds of the apply  *)
(* loop.  Each repair must come from what the repository says, which the   *)
(* simulator reads in its own simplified way.                              *)
(***************************************************************************)
EXTENDS Inventory

CONSTANTS
  Vars,
  Plays, PlayOrder,  \* the plays, in the order they run
  Target,            \* Target[p]: the hosts and groups play p asks for
  Tasks, TasksOf,    \* TasksOf[p]: the tasks: of p, in order
  Playbooks,         \* the files of ansible/playbooks/*.yml, sorted
  TasksIn,           \* TasksIn[b]: every task of b, handlers included
  Refs,              \* Refs[t]: the variables task t mentions, in order
  Modules,
  Short,             \* Short[m]: the last part of the name of m
  Core,              \* what ansible-doc resolves
  CollectionOf,      \* CollectionOf[m]: of a three-part name outside core
  Installed,         \* the collections that are installed
  NoCollection,
  Replacement,       \* MODULE_REPLACEMENTS, by short name
  NoModule,
  Layouts,           \* the repositories: inventory, where the variables are
                     \* defined, the module of each task
  Holdable,          \* targets that may be dirty, or that git may refuse
  MaxRetries

\* "dir" is a file in a directory of group_vars or host_vars, "block" a vars:
\* block of the inventory, "inline" a variable beside a host of it; "play" is
\* vars: or vars_files:, "outside" registered in pre_tasks or in a block.
Kinds == {"group_vars", "host_vars", "dir", "block", "inline", "role",
          "play", "task", "fact", "outside"}

Sites == [var : Vars, kind : Kinds, at : Groups \cup Hosts \cup Plays \cup Tasks]

Elements(seq) == {seq[i] : i \in DOMAIN seq}

FirstIn(S, seq) ==
  seq[CHOOSE i \in DOMAIN seq : /\ seq[i] \in S
                               /\ \A j \in DOMAIN seq : seq[j] \in S => i <= j]

ASSUME TaskAssumption ==
  /\ PlayOrder \in Seq(Plays) /\ Elements(PlayOrder) = Plays
  /\ Target \in [Plays -> SUBSET (Hosts \cup Groups)]
  /\ TasksOf \in [Plays -> Seq(Tasks)]
  /\ Playbooks \in Seq(DOMAIN TasksIn)
  /\ \A b \in DOMAIN TasksIn : TasksIn[b] \in Seq(Tasks)
  /\ Refs \in [Tasks -> Seq(Vars)]
  /\ Core \subseteq Modules /\ NoModule \notin Modules
  /\ DOMAIN Short = Modules
  /\ DOMAIN CollectionOf = Modules /\ NoCollection \notin Installed
  /\ Replacement \in [Elements(Short) -> Modules \cup {NoModule}]
  /\ \A l \in Layouts : /\ l.inv \in Inventories
                          /\ l.sites \subseteq Sites /\ l.all \subseteq Vars
                          /\ l.uses \in [Tasks -> Modules]
  /\ MaxRetries \in Nat

VARIABLES
  inv, sites,  \* the inventory, and where each variable is defined
  held,        \* the targets that no fix can be committed to
  groups,      \* the index of inv
  module, args,  \* of each task; args[t] names the task they were written for
  all,         \* the variables of the group_vars/all file
  declared,    \* the collections of the requirements file
  written,     \* the failures whose variable the agent defined
  stage, iter, todo, applied, progressed, outcome  \* as in HealApply

repo     == <<inv, sites, held, groups>>
content  == <<module, args, all, declared, written>>
progress == <<applied, progressed>>
vars == <<repo, content, progress, stage, iter, todo, outcome>>

\* Where it is, and what it names.
Failure ==
  [type : {"narrowly_defined_variable", "undefined_variable"},
   play : Plays, at : Tasks, what : Vars] \cup
  [type : {"removed_module"}, play : Plays, at : Tasks, what : Modules] \cup
  [type : {"unreachable_host"}, play : Plays, at : Plays, what : {"hosts"}]

Init ==
  /\ \E l \in Layouts : /\ inv = l.inv /\ sites = l.sites
                      /\ all = l.all /\ module = l.uses
  /\ held \in SUBSET Holdable
  /\ groups = GroupIndex(inv)
  /\ args = [t \in Tasks |-> t]
  /\ declared = {} /\ written = {}
  /\ stage = "run" /\ iter = 0 /\ todo = {} /\ outcome = "none"
  /\ applied = {} /\ progressed = FALSE

----------------------------------------------------------------------------
\* What the simulator takes for defined

At(kinds, places) ==
  {s.var : s \in {s \in sites : s.kind \in kinds /\ s.at \in places}}

AnyPlace == Groups \cup Hosts \cup Plays \cup Tasks

\* _load_group_vars, and the vars: of the play and of the task.
Defined(p, t) == all \cup At({"play"}, {p}) \cup At({"task"}, {t})

\* _names_bound_by_play and _referenced_vars_files: any of its tasks.
NamesBoundByPlay(p) ==
  At({"play"}, {p}) \cup At({"task", "fact"}, Elements(TasksOf[p]))

\* Those of any role, whoever uses it, and of any group.
RoleDefinedNames == At({"role"}, AnyPlace)
InventoryVars == At({"block"}, AnyPlace)

BugBoundWithoutInventory(p) == NamesBoundByPlay(p) \cup RoleDefinedNames

Bound(p) == NamesBoundByPlay(p) \cup RoleDefinedNames \cup InventoryVars

\* _load_narrow_vars.
Narrow == At({"group_vars", "host_vars", "dir"}, AnyPlace)

HostsOf(p) == (Target[p] \cap Hosts) \cup UNION {groups[g] : g \in Target[p] \cap Groups}

BugDefinedForSome(v, p) ==
  \E h \in HostsOf(p) :
    v \in At({"group_vars"}, {g \in Groups : h \in groups[g]}) \cup At({"host_vars"}, {h})

\* _defined_for_all reads host_vars/<host>.yml and group_vars/<group>.yml.
DefinedForAll(v, p) ==
  /\ HostsOf(p) # {}
  /\ \A h \in HostsOf(p) :
       \/ v \in At({"host_vars"}, {h})
       \/ v \in At({"group_vars"}, {g \in Groups : h \in groups[g]})

Undefined(p, t) == Elements(Refs[t]) \ (Defined(p, t) \cup Bound(p))

----------------------------------------------------------------------------
\* A run

BugResolvedByTable(m) == Replacement[Short[m]] = NoModule

\* module_resolves, as the simulator and the rule ask it.
Resolves(m) == m \in Core

\* A task is reported for its module or for the first variable it lacks, and
\* not at all if that one is narrow but defined for every host.
TaskFailures(p, t) ==
  LET missing == FirstIn(Undefined(p, t), Refs[t])
      report(type, what) == {[type |-> type, play |-> p, at |-> t, what |-> what]}
  IN  IF ~Resolves(module[t]) THEN report("removed_module", module[t])
      ELSE IF Undefined(p, t) = {} THEN {}
      ELSE IF missing \notin Narrow THEN report("undefined_variable", missing)
      ELSE IF DefinedForAll(missing, p) THEN {}
           ELSE report("narrowly_defined_variable", missing)

PlayFailures(p) ==
  (UNION {TaskFailures(p, t) : t \in Elements(TasksOf[p])}) \cup
  (IF HostsOf(p) = {}
   THEN {[type |-> "unreachable_host", play |-> p, at |-> p, what |-> "hosts"]}
   ELSE {})

Failures == UNION {PlayFailures(p) : p \in Plays}

Stop(how) == stage' = "done" /\ outcome' = how

Green ==
  /\ stage = "run"
  /\ Failures = {}
  /\ Stop("green")
  /\ UNCHANGED <<repo, content, progress, iter, todo>>

GiveUp ==
  /\ stage = "run"
  /\ Failures # {}
  /\ iter = MaxRetries
  /\ Stop("gave_up")
  /\ UNCHANGED <<repo, content, progress, iter, todo>>

Collect ==
  /\ stage = "run"
  /\ Failures # {}
  /\ iter < MaxRetries
  /\ todo' = Failures
  /\ stage' = "round" /\ progressed' = FALSE
  /\ UNCHANGED <<repo, content, applied, iter, outcome>>

----------------------------------------------------------------------------
\* A round: each failure by its rule, the patch and the commit

BugSignatureOfTarget(action, target, key) == <<action, target>>

\* _fix_signature: the key of set_yaml_key, nothing of the others.
Signature(action, target, key) ==
  IF action = "set_yaml_key" THEN <<action, target, key>> ELSE <<action, target>>

Landed(f, action, target, key) ==
  /\ progressed' = (progressed \/ Signature(action, target, key) \notin applied)
  /\ applied' = applied \cup {Signature(action, target, key)}
  /\ todo' = todo \ {f}
  /\ UNCHANGED <<repo, stage, iter, outcome>>

\* _diagnose_variable; set_key refuses a key that is there.
Fillable(f) ==
  /\ f.type = "undefined_variable"
  /\ "group_vars" \notin held
  /\ f.what \notin all

Fill(f) ==
  /\ Fillable(f)
  /\ all' = all \cup {f.what}
  /\ written' = written \cup {f}
  /\ UNCHANGED <<module, args, declared>>
  /\ Landed(f, "set_yaml_key", "group_vars", f.what)

\* _diagnose_missing_collection: declared, never installed.
Declarable(f) ==
  /\ f.type = "removed_module"
  /\ CollectionOf[f.what] \notin Installed \cup declared \cup {NoCollection}
  /\ "requirements" \notin held

Declare(f) ==
  /\ Declarable(f)
  /\ declared' = declared \cup {CollectionOf[f.what]}
  /\ UNCHANGED <<module, args, all, written>>
  /\ Landed(f, "declare_collection", "requirements", f.what)

\* find_module_use, by the short name.
UsersOf(m, b) == {t \in Elements(TasksIn[b]) : Short[module[t]] = Short[m]}

\* _find_playbook_using: the first, whatever play the failure names.
Using(m) == {b \in Elements(Playbooks) : UsersOf(m, b) # {}}
PlaybookUsing(m) == FirstIn(Using(m), Playbooks)

\* _existing_args: those of the first task of it that uses the module.
ExistingArgs(m, b) == args[FirstIn(UsersOf(m, b), TasksIn[b])]

\* replace_module puts them on every user; a patch that changes nothing is
\* refused.
Migratable(f) ==
  /\ f.type = "removed_module"
  /\ ~Resolves(f.what)
  /\ CollectionOf[f.what] = NoCollection
  /\ Replacement[Short[f.what]] # NoModule
  /\ Using(f.what) # {}
  /\ LET b == PlaybookUsing(f.what) IN
       /\ b \notin held
       /\ \E t \in UsersOf(f.what, b) : \/ module[t] # Replacement[Short[f.what]]
                                       \/ args[t] # ExistingArgs(f.what, b)

Migrate(f) ==
  /\ Migratable(f)
  /\ LET b == PlaybookUsing(f.what)
         users == UsersOf(f.what, b)
     IN  /\ module' = [t \in Tasks |-> IF t \in users
                                       THEN Replacement[Short[f.what]] ELSE module[t]]
         /\ args' = [t \in Tasks |-> IF t \in users
                                     THEN ExistingArgs(f.what, b) ELSE args[t]]
         /\ UNCHANGED <<all, declared, written>>
         /\ Landed(f, "replace_module", b, f.what)

\* No rule, a rule that finds no fix, a dirty file, a patch or a commit that
\* is refused.  A pattern that matches nothing names a group here, and no host
\* is renamed to one (HostRename).
Decline(f) ==
  /\ ~Fillable(f) /\ ~Declarable(f) /\ ~Migratable(f)
  /\ todo' = todo \ {f}
  /\ UNCHANGED <<repo, content, progress, stage, iter, outcome>>

Handle(f) ==
  /\ stage = "round"
  /\ Fill(f) \/ Declare(f) \/ Migrate(f) \/ Decline(f)

EndRound ==
  /\ stage = "round"
  /\ todo = {}
  /\ \/ /\ progressed
        /\ iter' = iter + 1
        /\ stage' = "run"
        /\ UNCHANGED outcome
     \/ /\ ~progressed
        /\ Stop("stalled")
        /\ UNCHANGED iter
  /\ UNCHANGED <<repo, content, progress, todo>>

Agent == Green \/ GiveUp \/ Collect \/ (\E f \in todo : Handle(f)) \/ EndRound

Ended == stage = "done" /\ UNCHANGED vars

Next == Agent \/ Ended

Spec == Init /\ [][Next]_vars /\ WF_vars(Agent)

----------------------------------------------------------------------------
\* What Ansible makes of the same repository

Reaches(s, p, i, h) ==
  \/ /\ s.kind \in {"group_vars", "dir", "block"} /\ s.at \in Groups
     /\ h \in MembersOf(inv, s.at)
  \/ s.kind \in {"host_vars", "dir", "inline"} /\ s.at = h
  \/ s.kind \in {"role", "play", "outside"} /\ s.at = p
  \/ s.kind = "task" /\ s.at = TasksOf[p][i]
  \/ s.kind = "fact" /\ \E j \in 1..(i - 1) : s.at = TasksOf[p][j]
  \/ /\ s.kind = "fact"
     /\ \E k, n \in DOMAIN PlayOrder :
          /\ k < n /\ PlayOrder[n] = p
          /\ s.at \in Elements(TasksOf[PlayOrder[k]])
          /\ h \in HostsOf(PlayOrder[k])

Sees(p, i, h, v) == v \in all \/ \E s \in sites : s.var = v /\ Reaches(s, p, i, h)

\* A repository the rules can repair: each play has hosts, each variable is
\* there for all of them or is defined nowhere, each module resolves or has a
\* successor that does, and no task needs more rounds than there are.
Curable ==
  /\ held = {}
  /\ \A p \in Plays :
       /\ HostsOf(p) # {}
       /\ \A i \in DOMAIN TasksOf[p] :
            LET t == TasksOf[p][i] IN
            /\ \A v \in Elements(Refs[t]) :
                 \/ \A h \in HostsOf(p) : Sees(p, i, h, v)
                 \/ \A s \in sites : s.var # v
            /\ \/ module[t] \in Core
               \/ /\ CollectionOf[module[t]] = NoCollection
                  /\ Replacement[Short[module[t]]] \in Core
                  /\ \E b \in Elements(Playbooks) : t \in Elements(TasksIn[b])
            /\ Len(Refs[t]) < MaxRetries

----------------------------------------------------------------------------
TypeOK ==
  /\ inv \in Inventories /\ sites \subseteq Sites /\ held \subseteq Holdable
  /\ groups \in [Groups -> SUBSET Hosts]
  /\ module \in [Tasks -> Modules] /\ args \in [Tasks -> Tasks]
  /\ all \subseteq Vars
  /\ declared \cap Installed = {}
  /\ written \subseteq Failure /\ todo \subseteq Failure
  /\ stage \in {"run", "round", "done"}
  /\ iter \in 0..MaxRetries
  /\ stage = "round" => iter < MaxRetries
  /\ progressed \in BOOLEAN
  /\ outcome \in {"none", "green", "gave_up", "stalled"}

\* The table has, for every group, the hosts of all groups below it, in
\* whatever order and nesting the file has them (_inventory_index: "Iterate
\* BOTH relations to a fixpoint together").
GroupsAreTransitive == groups = [g \in Groups |-> MembersOf(inv, g)]

\* A default is written only for a variable that no host of the play sees
\* where the task needs it, and never for one that a role or the inventory
\* defines: the default would outrank it (README.md: "a variable is added only
\* when it is defined nowhere Ansible would look").
DefaultsFillHoles ==
  \A w \in written :
    /\ \A s \in sites : s.var = w.what =>
         /\ s.kind \notin {"role", "block"}
         /\ \A i \in DOMAIN TasksOf[w.play], h \in HostsOf(w.play) :
              TasksOf[w.play][i] = w.at => ~Reaches(s, w.play, i, h)

\* When the loop ends green, ansible-playbook would find every module and
\* every variable on every host (README.md: "a false green is worse than a
\* false failure").
GreenIsSound ==
  outcome = "green" =>
    \A p \in Plays :
      /\ HostsOf(p) # {}
      /\ \A i \in DOMAIN TasksOf[p] :
           /\ module[TasksOf[p][i]] \in Core
           /\ \A v \in Elements(Refs[TasksOf[p][i]]), h \in HostsOf(p) :
                Sees(p, i, h, v)

\* A task gets another module only if its own does not resolve, and keeps the
\* arguments written for it (README.md: "a module is migrated only if
\* ansible-doc says ansible-core cannot resolve it"; "the docker mappings pass
\* the task's arguments through unchanged").
MigrationsAreFaithful ==
  [][\A t \in Tasks :
       /\ module'[t] # module[t] => module[t] \notin Core
       /\ args'[t] = args[t]]_vars

\* What the rules can repair ends green within the retry budget, however many
\* variables one task lacks.
CurableHeals == Curable => <>(outcome = "green")
============================================================================
