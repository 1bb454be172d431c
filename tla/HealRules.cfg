SPECIFICATION Spec
CONSTANTS
  playbook = playbook
  role = role
  group_vars = group_vars
  inventory = inventory
  local_inventory = local_inventory
  module_a = module_a
  module_b = module_b
  variable = variable
  host_a = host_a
  host_b = host_b
  task_error = task_error
  NoFile = NoFile
  Junk = Junk
  Files = {group_vars, inventory}
  Failures = {host_a, host_b, variable}
  Rule <- TwoPlaysOneHost
  Undoes <- HostsContend
  Allowed = {group_vars, inventory}
  Sealed = {}
  Undecodable = {}
  Inventories = {inventory}
  ModuleFailures = {}
  Hooked = {group_vars}
  Ignored = {}
  OperatorFiles = {group_vars, inventory}
  OperatorRaces = FALSE
  UseLlm = FALSE
  Stubborn = {}
  MaxRetries = 2
INVARIANTS
  RecordedAreLanded
  EveryRoundBringsANewFix
  OnlyGitStrands
  StallMeansNothingNew
PROPERTIES
  NeverWritesOverWip
  ImplementsSafeHealer
