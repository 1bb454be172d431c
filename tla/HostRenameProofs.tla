------------------------- MODULE HostRenameProofs --------------------------
(***************************************************************************)
(* Theorems about the rename rule, for every inventory, every set of plays *)
(* and every measure of likeness.                                          *)
(***************************************************************************)
EXTENDS HostRename, TLAPS

\* The effect of a rename on the inventory, apart from the rest of the step.
LEMMA RenameEffect ==
  ASSUME TypeOK, NEW f \in todo, NEW old \in Names, Rename(f, old)
  PROVE  /\ f.expected \in Names /\ f.expected # old
         /\ \E m \in Machines : name[m] = old
         /\ \A m \in Machines :
              name'[m] = IF name[m] = old THEN f.expected ELSE name[m]
  BY DEF TypeOK, Failure, Rename, Known, Hosts, Closest

----------------------------------------------------------------------------
\* Types

LEMMA ReportedTypes ==
  ASSUME NEW p \in Plays
  PROVE  Reported(p) \subseteq Failure
<1>1. Pattern[p] \in Patterns
  BY HostAssumption DEF HostAssumption
<1> DEFINE marked == {[expected |-> n, alone |-> FALSE] :
             n \in Pattern[p].except \cup Pattern[p].within}
<1>2. /\ Pattern[p].bare \subseteq Names
      /\ Pattern[p].except \cup Pattern[p].within \subseteq Names
  BY <1>1 DEF Patterns
<1>3. \A n \in Names, b \in BOOLEAN : [expected |-> n, alone |-> b] \in Failure
  BY DEF Failure
<1>4. marked \subseteq Failure
  BY <1>2, <1>3
<1>5. \A n \in Pattern[p].bare, b \in BOOLEAN :
        [expected |-> n, alone |-> b] \in Failure
  BY <1>2, <1>3
<1> DEFINE single == \/ Pattern[p].spelled = "apart"
                     \/ Pattern[p].spelled = "comma" /\ RealRunner
           plain == {[expected |-> n, alone |-> single] : n \in Pattern[p].bare}
<1>6. single \in BOOLEAN
  OBVIOUS
<1>7. plain \subseteq Failure
  <2> HIDE DEF single
  <2> QED
    BY <1>5, <1>6
<1>8. Reported(p) = plain \cup marked
  BY Zenon DEF Reported
<1> QED
  BY <1>4, <1>7, <1>8

LEMMA NextTypes == TypeOK /\ [Next]_vars => TypeOK'
<1> SUFFICES ASSUME TypeOK, [Next]_vars
             PROVE  TypeOK'
  OBVIOUS
<1>1. CASE Run
  <2>1. todo' \subseteq Failure
    BY <1>1, ReportedTypes DEF Run
  <2> QED
    BY <1>1, <2>1 DEF Run, TypeOK
<1>2. ASSUME NEW f \in todo, Decline(f)
      PROVE  TypeOK'
  BY <1>2 DEF Decline, TypeOK
<1>3. ASSUME NEW f \in todo, NEW old \in Names, Rename(f, old)
      PROVE  TypeOK'
  <2>1. f.expected \in Names
    BY <1>3, RenameEffect
  <2>2. name' \in [Machines -> Names]
    BY <1>3, <2>1 DEF Rename, TypeOK
  <2>3. applied' \subseteq Renames
    BY <1>3, <2>1 DEF Rename, TypeOK, Renames
  <2> QED
    BY <1>3, <2>2, <2>3 DEF Rename, TypeOK
<1>4. CASE EndRound
  BY <1>4 DEF EndRound, TypeOK
<1>5. CASE Ended \/ UNCHANGED vars
  BY <1>5 DEF Ended, vars, TypeOK
<1> QED
  BY <1>1, <1>2, <1>3, <1>4, <1>5 DEF Next

\* The inventory, the failures of a run and the renames keep their types.
THEOREM Typed == Spec => []TypeOK
<1>1. Init => TypeOK
  BY DEF Init, TypeOK
<1> QED
  BY <1>1, NextTypes, PTL DEF Spec

----------------------------------------------------------------------------
\* Names

\* Every group of the other sources has a host, and ansible may be asked.
GroupsAnswer == ~Plugin /\ \A g \in ElseGroups : Members[g] # {}

\* A rename never takes a name that a host or a group of any source has.  The
\* other sources' groups are only known by what ansible resolves, so an empty
\* one would go unseen (ansible_resolves, yaml_edit.inventory_groups).
THEOREM NamesApart ==
  ASSUME GroupsAnswer
  PROVE  Spec => []NamesStayApart
<1>1. Init => TypeOK /\ Apart
  BY DEF Init, TypeOK
<1>2. ASSUME TypeOK, Apart, [Next]_vars
      PROVE  Apart'
  <2>1. ASSUME NEW f \in todo, NEW old \in Names, Rename(f, old)
        PROVE  Apart'
    <3>1. f.expected \notin Hosts \cup Elsewhere \cup Groups \cup {All}
      BY <2>1 DEF Rename, Known, InventoryGroups
    <3>2. f.expected \notin ElseGroups
      BY <2>1, <3>1, GroupsAnswer
      DEF Rename, Resolves, Term, GroupsAnswer, AllGroups
    <3>3. \A m \in Machines :
            name'[m] = IF name[m] = old THEN f.expected ELSE name[m]
      BY <1>2, <2>1, RenameEffect
    <3>4. \A m, k \in Machines : name'[m] = name'[k] => m = k
      BY <1>2, <3>1, <3>3 DEF Apart, Hosts
    <3>5. \A m \in Machines : name'[m] \notin Elsewhere \cup AllGroups
      BY <1>2, <3>1, <3>2, <3>3 DEF Apart, Hosts, AllGroups
    <3> QED
      BY <3>4, <3>5 DEF Apart, Hosts
  <2>2. CASE UNCHANGED name
    BY <1>2, <2>2 DEF Apart, Hosts
  <2>3. CASE Run \/ (\E f \in todo : Decline(f)) \/ EndRound \/ Ended
    BY <2>2, <2>3 DEF Run, Decline, EndRound, Ended, vars
  <2>4. CASE UNCHANGED vars
    BY <2>2, <2>4 DEF vars
  <2> QED
    BY <1>2, <2>1, <2>3, <2>4 DEF Next
<1> QED
  BY <1>1, <1>2, NextTypes, PTL DEF Spec, NamesStayApart

----------------------------------------------------------------------------
\* Renames back and forth

\* The simulator runs the plays the agent scans, so a name a failure asks for
\* alone is one that a scanned play claims.
AllScanned == Scanned = Plays /\ ~RealRunner

OnceInv == /\ \A f \in todo : f.alone => f.expected \in Claimed
           /\ \A x \in applied : x.new \in Claimed /\ x.old \notin Claimed

LEMMA ReportedClaimed ==
  ASSUME AllScanned, NEW p \in Plays, NEW f \in Reported(p), f.alone
  PROVE  f.expected \in Claimed
  BY DEF AllScanned, Reported, Claimed

\* No name a rename introduced is renamed away: it is claimed by the play that
\* asked for it.
THEOREM Once ==
  ASSUME AllScanned
  PROVE  Spec => []RenamedOnce
<1>1. Init => OnceInv
  BY DEF Init, OnceInv
<1>2. ASSUME OnceInv, [Next]_vars
      PROVE  OnceInv'
  <2>1. Claimed' = Claimed
    BY DEF Claimed
  <2>2. CASE Run
    BY <1>2, <2>2, ReportedClaimed, AllScanned DEF Run, OnceInv, Claimed
  <2>3. ASSUME NEW f \in todo, NEW old \in Names, Rename(f, old)
        PROVE  OnceInv'
    BY <1>2, <2>3 DEF Rename, SingleHostname, OnceInv, Claimed
  <2>4. ASSUME NEW f \in todo, Decline(f)
        PROVE  OnceInv'
    BY <1>2, <2>4 DEF Decline, OnceInv, Claimed
  <2>5. CASE EndRound \/ Ended \/ UNCHANGED vars
    BY <1>2, <2>5 DEF EndRound, Ended, vars, OnceInv, Claimed
  <2> QED
    BY <1>2, <2>2, <2>3, <2>4, <2>5 DEF Next
<1>3. OnceInv => RenamedOnce
  BY DEF OnceInv, RenamedOnce
<1> QED
  BY <1>1, <1>2, <1>3, PTL DEF Spec

----------------------------------------------------------------------------
\* Plays that work

\* Every host a play names, it names by itself, in a playbook that is scanned.
HostsAreClaimed == \A p \in Plays : NamesOf(p) \subseteq Claimed \cup AllGroups

\* A name other than the old and the new one stands for the same hosts.
LEMMA TermKept ==
  ASSUME TypeOK, Apart, NEW f \in todo, NEW old \in Names, Rename(f, old),
         NEW n, n # old, n # f.expected
  PROVE  Term(n)' = Term(n)
<1>1. \A m \in Machines :
        name'[m] = IF name[m] = old THEN f.expected ELSE name[m]
  BY RenameEffect
<1>2. n \in Hosts' <=> n \in Hosts
  BY <1>1 DEF Hosts
<1>3. {m \in Machines : name'[m] = n} = {m \in Machines : name[m] = n}
  BY <1>1
<1> QED
  BY <1>2, <1>3 DEF Term

\* A rename leaves every play that ran its machines, if the plays name hosts
\* where the agent looks for them (_play_host_patterns).
THEOREM PlaysKept ==
  ASSUME GroupsAnswer, HostsAreClaimed
  PROVE  Spec => PlaysKeepTheirMachines
<1>1. ASSUME TypeOK, Apart, [Next]_vars
      PROVE  [\A p \in Plays :
                /\ Match(p) # {}
                /\ \A m \in Machines :
                     name'[m] # name[m] => name'[m] \notin NamesOf(p)
                => Match(p)' = Match(p)]_vars
  <2>1. ASSUME NEW f \in todo, NEW old \in Names, Rename(f, old),
               NEW p \in Plays,
               \A m \in Machines :
                 name'[m] # name[m] => name'[m] \notin NamesOf(p)
        PROVE  Match(p)' = Match(p)
    <3>1. old \in Hosts /\ old \notin AllGroups
      BY <1>1, <2>1, RenameEffect DEF Hosts, Apart
    <3>2. old \notin NamesOf(p)
      BY <2>1, <3>1, HostsAreClaimed DEF HostsAreClaimed, Rename
    <3>3. f.expected \notin NamesOf(p)
      BY <1>1, <2>1, RenameEffect
    <3>4. f.expected # All /\ old # All
      BY <2>1, <3>1 DEF Rename, SingleHostname, AllGroups
    <3>5. \A n \in NamesOf(p) \cup {All} : Term(n)' = Term(n)
      BY <1>1, <2>1, <3>2, <3>3, <3>4, TermKept
    <3> DEFINE start == IF Pattern[p].bare = {} THEN {All}
                                                ELSE Pattern[p].bare
    <3>6. UNION {Term(n)' : n \in start} = UNION {Term(n) : n \in start}
      BY <3>5 DEF NamesOf
    <3>7. Pattern[p].except \subseteq NamesOf(p)
          /\ Pattern[p].within \subseteq NamesOf(p)
      BY DEF NamesOf
    <3> QED
      BY <3>5, <3>6, <3>7 DEF Match
  <2>2. ASSUME UNCHANGED name, NEW p \in Plays
        PROVE  Match(p)' = Match(p)
    <3>1. Hosts' = Hosts
      BY <2>2 DEF Hosts
    <3>2. \A n : Term(n)' = Term(n)
      BY <2>2, <3>1 DEF Term
    <3> QED
      BY <3>2 DEF Match
  <2>3. CASE Run \/ (\E f \in todo : Decline(f)) \/ EndRound \/ Ended
    BY <2>2, <2>3 DEF Run, Decline, EndRound, Ended, vars
  <2> QED
    BY <1>1, <2>1, <2>3 DEF Next
<1>2. TypeOK /\ Apart /\ [Next]_vars =>
        [\A p \in Plays :
           /\ Match(p) # {}
           /\ \A m \in Machines :
                name'[m] # name[m] => name'[m] \notin NamesOf(p)
           => Match(p)' = Match(p)]_vars
  BY <1>1
<1>3. Spec => []NamesStayApart
  BY NamesApart
<1> QED
  BY <1>2, <1>3, Typed, PTL DEF Spec, PlaysKeepTheirMachines, NamesStayApart
============================================================================
