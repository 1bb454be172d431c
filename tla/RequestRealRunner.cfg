SPECIFICATION SessionSpec
CONSTANTS
  home = home
  other = other
  Setups <- AllSetups
  Attempts = 3
  Home = home
  Others = {other}
  MaxRounds = 2
  MaxFailures = 2
INVARIANTS
  RequestRunsNoPlugins
