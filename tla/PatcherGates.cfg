SPECIFICATION Spec
CONSTANTS
  vars_file = vars_file
  requirements = requirements
  secret = secret
  alias = alias
  escape = escape
  wanders = wanders
  below = below
  twin = twin
  Outside = Outside
  Real = {vars_file, requirements, secret}
  FileLinks = {alias, escape, wanders}
  DirLinks = {}
  Target <- PlainTarget
  Surface = {vars_file, requirements, alias, escape, wanders}
  Shared = {twin}
  CreatesFiles = {requirements}
  Ignored = {secret}
INVARIANTS
  OldOrNew
PROPERTIES
  NeverReplacesWip
  OutsideUntouched
  VaultStaysVault
