----------------------------- MODULE Inventory -----------------------------
(***************************************************************************)
(* The groups of a YAML inventory as the simulator reads them              *)
(* (pipeline/runner.py, _inventory_index), and what they mean.  A group is *)
(* defined in one place of the file and may be named as a child in others. *)
(***************************************************************************)
EXTENDS Naturals, Sequences, FiniteSets

CONSTANTS
  Hosts,
  Groups  \* but "all", which has every host

\* A host named like a group is taken for its hosts by the index and by
\* nothing else.
ASSUME InventoryAssumption == Hosts \cap Groups = {} /\ IsFiniteSet(Groups)

\* own: the hosts a group lists; nested: the children defined under their
\* parent; named: the children defined elsewhere; parents: the groups with
\* children in the order the file is read.
Inventories ==
  {inv \in [own : [Groups -> SUBSET Hosts], nested : SUBSET (Groups \X Groups),
            named : SUBSET (Groups \X Groups), parents : Seq(Groups)] :
     \A e \in inv.nested \cup inv.named : \E i \in DOMAIN inv.parents : inv.parents[i] = e[1]}

Children(inv, g) == {c \in Groups : <<g, c>> \in inv.nested \cup inv.named}

\* collect: a group starts with the hosts of what is defined under it.
AddNested(inv, table) ==
  [g \in Groups |->
     inv.own[g] \cup UNION {table[c] : c \in {c \in Groups : <<g, c>> \in inv.nested}}]

Collected(inv) ==
  LET below[n \in 0..Cardinality(Groups)] ==
        IF n = 0 THEN inv.own ELSE AddNested(inv, below[n - 1])
  IN  below[Cardinality(Groups)]

\* The rows of the table grow in place, one parent after the other.
AddChildren(inv, table, g) ==
  [table EXCEPT ![g] = @ \cup UNION {table[c] : c \in Children(inv, g)}]

Pass(inv, table) ==
  LET upTo[i \in 0..Len(inv.parents)] ==
        IF i = 0 THEN table
                 ELSE AddChildren(inv, upTo[i - 1], inv.parents[i])
  IN  upTo[Len(inv.parents)]

BugOnePass(inv) == 1

\* The bound of the loop over passes, "all" being a group too.
Passes(inv) == Cardinality(Groups) + 1 + Len(inv.parents) + 1

GroupIndex(inv) ==
  LET after[n \in 0..Passes(inv)] ==
        IF n = 0 THEN Collected(inv) ELSE Pass(inv, after[n - 1])
  IN  after[Passes(inv)]

----------------------------------------------------------------------------
\* What a group means: the hosts of every group reachable from it.

Closed(inv, S) == \A g \in S : Children(inv, g) \subseteq S

Below(inv, g) ==
  {c \in Groups : \A S \in SUBSET Groups : g \in S /\ Closed(inv, S) => c \in S}

MembersOf(inv, g) == UNION {inv.own[c] : c \in Below(inv, g)}
============================================================================
