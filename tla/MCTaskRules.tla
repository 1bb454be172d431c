---------------------------- MODULE MCTaskRules ----------------------------
(* Two playbooks of one play each, over every way their variables may be   *)
(* defined, and over every inventory of three groups and two hosts.        *)
EXTENDS TaskRules, TLC
LOCAL INSTANCE SequencesExt

CONSTANTS
  h1, h2, g1, g2, g3, p1, p2,
  t1, t2, t3, notify_t,            \* tasks; notify_t is a handler of p1
  site_yml, db_yml,
  v1, v2, v3,
  apt_key, get_url, docker, docker_container, community_docker, acl

Site(v, kind, at) == [var |-> v, kind |-> kind, at |-> at]

MCPlayOrder == <<p1, p2>>
MCPlaybooks == <<db_yml, site_yml>>
MCTarget  == p1 :> {g1} @@ p2 :> {g2}
MCTasksOf == p1 :> <<t1, t2>> @@ p2 :> <<t3>>
MCTasksIn == site_yml :> <<t1, t2, notify_t>> @@ db_yml :> <<t3>>
MCRefs == t1 :> <<v1>> @@ t2 :> <<v3, v2>> @@ t3 :> <<v2>> @@ notify_t :> <<>>

MCShort ==
  apt_key :> "apt_key" @@ get_url :> "get_url" @@ docker :> "docker" @@
  docker_container :> "docker_container" @@
  community_docker :> "docker_container" @@ acl :> "acl"
MCReplacement ==
  "apt_key" :> get_url @@ "get_url" :> NoModule @@ "acl" :> NoModule @@
  "docker" :> community_docker @@ "docker_container" :> community_docker
MCCollectionOf ==
  [m \in Modules |-> IF m = acl THEN "posix"
                     ELSE IF m = community_docker THEN "docker" ELSE NoCollection]

----------------------------------------------------------------------------
\* Every inventory in which each host is listed in one group.
Edges == {e \in Groups \X Groups : e[1] # e[2]}
InventoryOf(own, nested, named, parents) ==
  [own |-> own, nested |-> nested, named |-> named, parents |-> parents]

Owners == {[g \in Groups |-> {h \in Hosts : of[h] = g}] : of \in [Hosts -> Groups]}

\* A group is defined in one place, and not inside itself.
Forests ==
  {n \in SUBSET Edges :
     /\ \A e, d \in n : e[2] = d[2] => e = d
     /\ \E top \in Groups : \A e \in n : e[2] # top
     /\ \A e \in n : <<e[2], e[1]>> \notin n}

AllInventories ==
  UNION {{InventoryOf(own, nested, named, parents) :
            own \in Owners,
            parents \in SetToSeqs({e[1] : e \in nested \cup named})} :
           nested \in Forests, named \in {m \in SUBSET Edges : Cardinality(m) <= 2}}

\* g1 above both hosts; g2 beside g3, or above it and read first or last.
Sample ==
  LET own == g1 :> {} @@ g2 :> {h1} @@ g3 :> {h2}
  IN  {InventoryOf(own, {<<g1, g2>>, <<g1, g3>>}, {}, <<g1>>),
       InventoryOf(own, {<<g1, g2>>}, {<<g2, g3>>}, <<g1, g2>>),
       InventoryOf(own, {}, {<<g1, g2>>, <<g2, g3>>}, <<g2, g1>>)}

----------------------------------------------------------------------------
\* Where the variables may be defined.  A role is used by both plays, and a
\* block is that of the group of every host.
InRole(v)  == {Site(v, "role", p1), Site(v, "role", p2)}
InBlock(v) == {Site(v, "block", g1)}

First == {{}, {Site(v1, "play", p1)}, {Site(v1, "task", t1)}, InRole(v1), InBlock(v1)}
Shared ==
  {{}, {Site(v2, "group_vars", g1)}, {Site(v2, "group_vars", g2)},
   {Site(v2, "group_vars", g3), Site(v2, "host_vars", h1)},
   {Site(v2, "host_vars", h2)}, {Site(v2, "host_vars", h1)},
   {Site(v2, "play", p1), Site(v2, "play", p2)}, InRole(v2), InBlock(v2)}
Later == {{}, {Site(v3, "fact", t1)}, {Site(v3, "task", t2)}}

Module(a, b, c) == t1 :> a @@ t2 :> b @@ t3 :> c @@ notify_t :> get_url

Layout(i, s, a, u) == [inv |-> i, sites |-> s, all |-> a, uses |-> u]

ByVariable ==
  {Layout(i, a \cup b \cup c, {}, u) :
     i \in Sample, a \in First, b \in Shared, c \in Later,
     u \in {Module(apt_key, docker_container, apt_key),
            Module(docker, docker_container, get_url), Module(get_url, apt_key, acl)}}

ByInventory == {Layout(i, {}, {v2}, Module(get_url, get_url, get_url)) : i \in AllInventories}

MCLayouts == ByVariable \cup ByInventory

\* What the simulator reads otherwise than Ansible.
Plain(s) == {Layout(i, s, {v3}, Module(get_url, get_url, get_url)) : i \in Sample}

\* A variable beside each host; one of a role the other play uses; one in a
\* directory of group_vars.
Inline    == Plain({Site(v1, "inline", h1), Site(v1, "inline", h2)})
OtherRole == Plain({Site(v1, "role", p2)})
Directory == Plain({Site(v1, "dir", g1)})

\* One that every host has, in front of one that is missing.
Masked ==
  {Layout(i, {Site(v3, "group_vars", g1), Site(v2, "play", p2)}, {v1},
          Module(get_url, get_url, get_url)) : i \in Sample}

\* Two tasks of one playbook on one removed module.
Twins ==
  {Layout(i, {}, {v1, v2, v3}, Module(docker, docker, get_url)) : i \in Sample}
============================================================================
