----------------------------- MODULE MCRules -----------------------------
(* Small repositories for the heal loops: their files, their failures, and *)
(* what the rules derive for each.                                         *)
EXTENDS PatchStep, TLC

CONSTANTS
  playbook, role, group_vars,                   \* files
  inventory, local_inventory,                   \* and inventories
  module_a, module_b, variable, host_a, host_b,
  task_error                                    \* failures

MCFix(action, target, remedy) ==
  [action |-> action, target |-> target, remedy |-> remedy]

ModuleFix(p) == MCFix("replace_module", playbook, p)
HostFix(p)   == MCFix("rename_host", inventory, p)
VariableFix  == MCFix("set_yaml_key", group_vars, variable)

\* Two plays wanting one inventory host, and an undefined variable.
TwoPlaysOneHost ==
  host_a :> HostFix(host_a) @@ host_b :> HostFix(host_b) @@
  variable :> VariableFix

\* A failure of each kind of file.
OneOfEach ==
  module_a :> ModuleFix(module_a) @@
  module_b :> MCFix("replace_module", role, module_b) @@
  variable :> VariableFix @@
  host_a :> HostFix(host_a) @@
  host_b :> MCFix("rename_host", local_inventory, host_b) @@
  task_error :> NoFix

\* An undefined variable, and an error of a class that has no rule.
VariableAndError == variable :> VariableFix @@ task_error :> NoFix

NothingUndone == [p \in Failures |-> {}]

\* Each rename takes the name the other play needs.
HostsContend ==
  [p \in Failures |-> CASE p = host_a -> {host_b}
                        [] p = host_b -> {host_a}
                        [] OTHER -> {}]
==========================================================================
