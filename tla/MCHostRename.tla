--------------------------- MODULE MCHostRename ----------------------------
(* Two inventory hosts, names of two families that resemble each other,    *)
(* and a play for each way of asking for hosts.                            *)
EXTENDS HostRename, TLC

CONSTANTS
  m1, m2,                            \* machines
  web_1, web01, web1, web2, db_1, db1, db9,  \* host names
  far1,                              \* a host of another source
  webs, spare, lab,                  \* groups: of m1, of nobody, of far1
  site, tier, pair, scaled, remote, bench, off_web, fresh, joined  \* plays

Web == {web_1, web01, web1, web2}

MCMembers == webs :> {m1} @@ spare :> {} @@ lab :> {far1}

\* A name resembles its family, the nearer the later in this order; an empty
\* group and a far host resemble the databases.
Rank == web1 :> 1 @@ web01 :> 2 @@ web_1 :> 3 @@ web2 :> 4 @@
        db9 :> 1 @@ db1 :> 1 @@ db_1 :> 2 @@
        far1 :> 1 @@ webs :> 1 @@ spare :> 1 @@ lab :> 1 @@ All :> 1

MCLikeness ==
  [e \in Names |-> [n \in Names |->
     IF (e \in Web) = (n \in Web) THEN Rank[n] ELSE 0]]

Ask(spelled, bare, except, within) ==
  [spelled |-> spelled, bare |-> bare, except |-> except, within |-> within]

MCPattern ==
  site :> Ask("apart", {web_1}, {}, {}) @@
  tier :> Ask("apart", {webs}, {}, {}) @@
  pair :> Ask("apart", {web01, db_1}, {}, {webs}) @@
  scaled :> Ask("apart", {spare}, {}, {}) @@
  remote :> Ask("apart", {far1}, {}, {}) @@
  bench :> Ask("apart", {lab}, {}, {}) @@
  off_web :> Ask("joined", {All}, {webs}, {}) @@
  fresh :> Ask("apart", {db9}, {}, {}) @@
  joined :> Ask("comma", {web01, db1}, {}, {})

MCAddedIn == [n \in Names |-> IF n = db9 THEN {"tasks"}
                              ELSE IF n = db_1 THEN {"deeper"} ELSE {}]
MCVarsIn == [n \in Names |-> IF n = web2 THEN {"file"}
                             ELSE IF n = db1 THEN {"directory"} ELSE {}]

PatternOfPlays == [p \in Plays |-> MCPattern[p]]
============================================================================
