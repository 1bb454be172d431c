SPECIFICATION Spec
CONSTANTS
  p1 = p1
  p2 = p2
  p3 = p3
  stale = stale
  gone = gone
  web = web
  h1 = h1
  h2 = h2
  t1 = t1
  v1 = v1
  docker = docker
  Nil = Nil
  Plays = {p1, p2, p3}
  Hosts = {h1, h2}
  Tasks = {t1}
  Variables = {v1}
  Modules = {docker}
  Patterns = {stale, gone, web}
  Asks <- AsksOfPlays
  Unmatched = {stale, gone}
  CutShort = FALSE
  WritesFail = FALSE
INVARIANTS
  SkippedPlayIsRed
  SkipsAreReal
  NothingLost
  OneProposalPerFix
  RedIffFailures
