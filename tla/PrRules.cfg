SPECIFICATION FairSpec
CONSTANTS
  playbook = playbook
  role = role
  group_vars = group_vars
  inventory = inventory
  local_inventory = local_inventory
  module_a = module_a
  module_b = module_b
  variable = variable
  host_a = host_a
  host_b = host_b
  task_error = task_error
  NoFile = NoFile
  Junk = Junk
  Files = {playbook, role, group_vars, inventory, local_inventory}
  Failures = {module_a, module_b, variable, host_a, host_b, task_error}
  Rule <- OneOfEach
  Undoes <- NothingUndone
  Allowed = {playbook, role, group_vars, inventory, local_inventory}
  Sealed = {}
  Undecodable = {inventory}
  Inventories = {inventory, local_inventory}
  ModuleFailures = {module_a, module_b}
  Hooked = {group_vars}
  Ignored = {local_inventory}
  OperatorFiles = {playbook}
  OperatorRaces = FALSE
  UseLlm = FALSE
  Stubborn = {}
INVARIANTS
  BackOnBase
  SuccessIsReviewable
PROPERTIES
  RefusalReported
  ImplementsSafeHealer
  OthersAreNotInTheWay
