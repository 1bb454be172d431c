SPECIFICATION Spec
CONSTANTS
  m1 = m1
  m2 = m2
  web_1 = web_1
  web01 = web01
  web1 = web1
  web2 = web2
  db_1 = db_1
  db9 = db9
  db1 = db1
  far1 = far1
  webs = webs
  spare = spare
  lab = lab
  site = site
  tier = tier
  pair = pair
  scaled = scaled
  remote = remote
  bench = bench
  off_web = off_web
  fresh = fresh
  joined = joined
  All = All
  Machines = {m1, m2}
  Names = {web_1, web01, web1, web2, db_1, db1, db9, far1, webs, spare, lab, All}
  Groups = {webs, spare}
  Elsewhere = {far1}
  ElseGroups = {lab}
  Members <- MCMembers
  Plugin = FALSE
  Plays = {site, tier, pair, scaled, remote, bench, off_web, fresh}
  Pattern <- PatternOfPlays
  Scanned = {site, tier, pair, scaled, remote, bench, off_web, fresh}
  AddedIn <- MCAddedIn
  VarsIn <- MCVarsIn
  Likeness <- MCLikeness
  RealRunner = FALSE
INVARIANTS
  NamesStayApart
  RenamedOnce
PROPERTIES
  PlaysKeepTheirMachines
