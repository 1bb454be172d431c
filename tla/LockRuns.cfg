SPECIFICATION FairSpec
CONSTANTS
  r1 = r1
  r2 = r2
  f1 = f1
  f2 = f2
  Runs = {r1, r2}
  Files = {f1, f2}
  Operator = Operator
  Nobody = Nobody
  NoFile = NoFile
INVARIANTS
  OneWriter
  CommitsOwnWork
PROPERTIES
  EveryRunEnds
  ImplementsSafeHealer
