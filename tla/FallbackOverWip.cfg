SPECIFICATION Spec
CONSTANTS
  playbook = playbook
  role = role
  group_vars = group_vars
  inventory = inventory
  local_inventory = local_inventory
  module_a = module_a
  module_b = module_b
  variable = variable
  host_a = host_a
  host_b = host_b
  task_error = task_error
  NoFile = NoFile
  Junk = Junk
  Files = {playbook, group_vars}
  Failures = {variable, task_error}
  Rule <- VariableAndError
  Undoes <- NothingUndone
  Allowed = {playbook, group_vars}
  Sealed = {}
  Undecodable = {}
  Inventories = {}
  ModuleFailures = {}
  Hooked = {}
  Ignored = {}
  OperatorFiles = {playbook, group_vars}
  OperatorRaces = FALSE
  UseLlm = TRUE
  Stubborn = {}
  MaxRetries = 1
PROPERTIES
  NeverWritesOverWip
