SPECIFICATION Spec
CONSTANTS
  h1 = h1
  h2 = h2
  g1 = g1
  g2 = g2
  g3 = g3
  p1 = p1
  p2 = p2
  t1 = t1
  t2 = t2
  t3 = t3
  notify_t = notify_t
  site_yml = site_yml
  db_yml = db_yml
  v1 = v1
  v2 = v2
  v3 = v3
  apt_key = apt_key
  get_url = get_url
  docker = docker
  docker_container = docker_container
  community_docker = community_docker
  acl = acl
  NoCollection = NoCollection
  NoModule = NoModule
  Hosts = {h1, h2}
  Groups = {g1, g2, g3}
  Vars = {v1, v2, v3}
  Plays = {p1, p2}
  PlayOrder <- MCPlayOrder
  Target <- MCTarget
  Tasks = {t1, t2, t3, notify_t}
  TasksOf <- MCTasksOf
  Playbooks <- MCPlaybooks
  TasksIn <- MCTasksIn
  Refs <- MCRefs
  Modules = {apt_key, get_url, docker, docker_container, community_docker, acl}
  Short <- MCShort
  Core = {get_url, docker_container}
  CollectionOf <- MCCollectionOf
  Installed = {}
  Replacement <- MCReplacement
  Layouts <- MCLayouts
  Holdable = {"group_vars", "requirements"}
  MaxRetries = 3
INVARIANTS
  GroupsAreTransitive
  DefaultsFillHoles
  GreenIsSound
PROPERTIES
  MigrationsAreFaithful
  CurableHeals
