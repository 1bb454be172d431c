--------------------------- MODULE TaskRulesProofs ---------------------------
(***************************************************************************)
(* The index of groups is complete for every inventory; the state of the   *)
(* task rules keeps its type; a default is only written where nothing is   *)
(* defined, and a green end is a sound one, in the repositories the        *)
(* simulator reads as Ansible does; a migrated task keeps its arguments    *)
(* where the short names of modules tell the tasks of a playbook apart.    *)
(***************************************************************************)
EXTENDS TaskRules, TLAPS, WellFoundedInduction, NaturalsInduction, FiniteSetTheorems

----------------------------------------------------------------------------
\* Induction up to a bound, and functions defined by it

\* A nonempty set of naturals has a least element.
LEMMA Least ==
  ASSUME NEW S \in SUBSET Nat, S # {}
  PROVE  \E m \in S : \A k \in S : m <= k
<1> DEFINE R == {ss \in Nat \X Nat : ss[1] < ss[2]}
<1>1. IsWellFoundedOn(R, Nat)
  BY NatLessThanWellFounded DEF OpToRel
<1>2. PICK x \in S : \A y \in S : <<y, x>> \notin R
  <2> HIDE DEF R
  <2> QED BY <1>1, WFMin
<1>3. ASSUME NEW y \in S PROVE x <= y
  <2>1. <<y, x>> \notin R
    BY <1>2
  <2>2. <<y, x>> \in Nat \X Nat /\ <<y, x>>[1] = y /\ <<y, x>>[2] = x
    OBVIOUS
  <2> QED BY <2>1, <2>2
<1> QED BY <1>3

LEMMA UpTo ==
  ASSUME NEW N \in Nat, NEW S, 0 \in S,
         \A n \in 1..N : n - 1 \in S => n \in S
  PROVE  0..N \subseteq S
<1> DEFINE Out == (0..N) \ S
<1> SUFFICES ASSUME Out # {} PROVE FALSE
  OBVIOUS
<1>1. PICK m \in Out : \A k \in Out : m <= k
  <2>1. Out \in SUBSET Nat
    OBVIOUS
  <2> HIDE DEF Out
  <2> QED BY <2>1, Least
<1>2. m \in 1..N /\ m - 1 \in 0..N /\ m - 1 \notin Out
  BY <1>1
<1> QED BY <1>1, <1>2

\* What a function defined from its value one before satisfies.
Iterates(f, N, T, a, h) ==
  /\ f \in [0..N -> T]
  /\ f[0] = a
  /\ \A n \in 1..N : f[n] = h[<<n, f[n - 1]>>]

LEMMA IteratesExist ==
  ASSUME NEW N \in Nat, NEW T, NEW a \in T, NEW h \in [(1..N) \X T -> T]
  PROVE  \E f : Iterates(f, N, T, a, h)
<1> DEFINE S == {n \in 0..N : \E f : Iterates(f, n, T, a, h)}
<1>1. 0 \in S
  <2>1. Iterates([i \in 0..0 |-> a], 0, T, a, h)
    BY DEF Iterates
  <2> QED BY <2>1
<1>2. ASSUME NEW n \in 1..N, n - 1 \in S PROVE n \in S
  <2>1. PICK f : Iterates(f, n - 1, T, a, h)
    BY <1>2
  <2> DEFINE b == h[<<n, f[n - 1]>>]
             g == [i \in 0..n |-> IF i = n THEN b ELSE f[i]]
  <2>2. f \in [0..(n - 1) -> T] /\ f[0] = a
        /\ \A i \in 1..(n - 1) : f[i] = h[<<i, f[i - 1]>>]
    BY <2>1 DEF Iterates
  <2>3. n - 1 \in 0..(n - 1) /\ f[n - 1] \in T /\ b \in T
    BY <2>2
  <2>4. \A i \in 0..(n - 1) : f[i] \in T
    BY <2>2
  <2>5. g \in [0..n -> T] /\ g[0] = a
    <3> HIDE DEF b
    <3>1. \A i \in 0..n : i # n => i \in 0..(n - 1)
      OBVIOUS
    <3> QED BY <2>2, <2>3, <2>4, <3>1
  <2>6. \A i \in 1..n : g[i] = h[<<i, g[i - 1]>>]
    <3> SUFFICES ASSUME NEW i \in 1..n PROVE g[i] = h[<<i, g[i - 1]>>]
      OBVIOUS
    <3>1. i - 1 \in 0..n /\ i - 1 # n /\ i \in 0..n
      OBVIOUS
    <3>2. g[i - 1] = f[i - 1]
      BY <3>1
    <3>3. CASE i = n
      BY <3>1, <3>2, <3>3
    <3>4. CASE i # n
      <4>1. i \in 1..(n - 1) /\ g[i] = f[i]
        BY <3>1, <3>4
      <4> HIDE DEF g, b
      <4> QED BY <4>1, <3>2, <2>2
    <3> QED BY <3>3, <3>4
  <2>7. Iterates(g, n, T, a, h)
    <3> HIDE DEF g, b
    <3> QED BY <2>5, <2>6 DEF Iterates
  <2>8. n \in 0..N
    OBVIOUS
  <2> HIDE DEF g, b
  <2> QED BY <2>7, <2>8
<1>3. 0..N \subseteq S
  <2> HIDE DEF S
  <2> QED BY <1>1, <1>2, UpTo
<1>4. N \in S
  BY <1>3
<1> QED BY <1>4

----------------------------------------------------------------------------
\* The index of groups

Table == [Groups -> SUBSET Hosts]

LEMMA NestedTyped ==
  ASSUME NEW i \in Inventories, NEW t \in Table
  PROVE  AddNested(i, t) \in Table
<1>1. \A g \in Groups : i.own[g] \subseteq Hosts /\ t[g] \subseteq Hosts
  BY DEF Inventories, Table
<1>2. ASSUME NEW g \in Groups
      PROVE  i.own[g] \cup UNION {t[c] : c \in {c \in Groups : <<g, c>> \in i.nested}} \in SUBSET Hosts
  <2>1. \A S \in {t[c] : c \in {c \in Groups : <<g, c>> \in i.nested}} : S \subseteq Hosts
    BY <1>1
  <2> QED BY <1>1, <2>1, Zenon
<1> QED BY <1>2 DEF AddNested, Table

LEMMA ChildrenTyped ==
  ASSUME NEW i \in Inventories, NEW t \in Table, NEW g \in Groups
  PROVE  /\ AddChildren(i, t, g) \in Table
         /\ \A c \in Groups : t[c] \subseteq AddChildren(i, t, g)[c]
         /\ \A c \in Children(i, g) : t[c] \subseteq AddChildren(i, t, g)[g]
         /\ AddChildren(i, t, g)[g] = t[g] \cup UNION {t[c] : c \in Children(i, g)}
         /\ \A c \in Groups : c # g => AddChildren(i, t, g)[c] = t[c]
<1> DEFINE row == t[g] \cup UNION {t[c] : c \in Children(i, g)}
<1>1. \A c \in Groups : t[c] \subseteq Hosts
  BY DEF Table
<1>2. Children(i, g) \subseteq Groups
  BY DEF Children
<1>3. row \in SUBSET Hosts
  <2>1. \A S \in {t[c] : c \in Children(i, g)} : S \subseteq Hosts
    BY <1>1, <1>2
  <2> QED BY <1>1, <2>1, Zenon
<1>4. AddChildren(i, t, g) = [t EXCEPT ![g] = row]
  BY DEF AddChildren
<1>5. \A c \in Children(i, g) : t[c] \subseteq row
  OBVIOUS
<1>6. t[g] \subseteq row
  OBVIOUS
<1>7. /\ AddChildren(i, t, g) \in Table
      /\ AddChildren(i, t, g)[g] = row
      /\ \A c \in Groups : c # g => AddChildren(i, t, g)[c] = t[c]
  <2> HIDE DEF row
  <2> QED BY <1>3, <1>4 DEF Table
<1>8. \A c \in Groups : t[c] \subseteq AddChildren(i, t, g)[c]
  <2> HIDE DEF row
  <2> QED BY <1>6, <1>7
<1> QED BY <1>5, <1>7, <1>8

\* The tables between what a group lists and what it means.
Rows(i) ==
  {t \in Table : \A g \in Groups : i.own[g] \subseteq t[g] /\ t[g] \subseteq MembersOf(i, g)}

LEMMA BelowRises ==
  ASSUME NEW i \in Inventories, NEW g \in Groups
  PROVE  /\ g \in Below(i, g)
         /\ \A c \in Children(i, g) : c \in Groups /\ Below(i, c) \subseteq Below(i, g)
<1>1. g \in Below(i, g)
  BY DEF Below
<1>2. ASSUME NEW c \in Children(i, g) PROVE Below(i, c) \subseteq Below(i, g)
  BY DEF Below, Closed
<1> QED BY <1>1, <1>2 DEF Children

LEMMA MembersRise ==
  ASSUME NEW i \in Inventories, NEW g \in Groups
  PROVE  /\ i.own[g] \subseteq MembersOf(i, g)
         /\ MembersOf(i, g) \subseteq Hosts
         /\ \A c \in Children(i, g) : MembersOf(i, c) \subseteq MembersOf(i, g)
<1>1. i.own[g] \subseteq MembersOf(i, g)
  BY BelowRises DEF MembersOf
<1>2. MembersOf(i, g) \subseteq Hosts
  <2>1. \A c \in Groups : i.own[c] \subseteq Hosts
    BY DEF Inventories
  <2> QED BY <2>1 DEF MembersOf, Below
<1>3. \A c \in Children(i, g) : MembersOf(i, c) \subseteq MembersOf(i, g)
  BY BelowRises DEF MembersOf
<1> QED BY <1>1, <1>2, <1>3

LEMMA OwnRows ==
  ASSUME NEW i \in Inventories
  PROVE  i.own \in Rows(i)
<1>1. i.own \in Table
  BY DEF Inventories, Table
<1> QED BY <1>1, MembersRise DEF Rows

LEMMA NestedRows ==
  ASSUME NEW i \in Inventories, NEW t \in Rows(i)
  PROVE  AddNested(i, t) \in Rows(i)
<1>1. t \in Table /\ \A c \in Groups : t[c] \subseteq MembersOf(i, c)
  BY DEF Rows
<1>2. AddNested(i, t) \in Table
  BY <1>1, NestedTyped
<1>3. ASSUME NEW g \in Groups
      PROVE  i.own[g] \subseteq AddNested(i, t)[g] /\ AddNested(i, t)[g] \subseteq MembersOf(i, g)
  <2>1. AddNested(i, t)[g] =
          i.own[g] \cup UNION {t[c] : c \in {c \in Groups : <<g, c>> \in i.nested}}
    BY DEF AddNested
  <2>2. \A c \in {c \in Groups : <<g, c>> \in i.nested} : t[c] \subseteq MembersOf(i, g)
    BY <1>1, MembersRise DEF Children
  <2> QED BY <2>1, <2>2, MembersRise
<1> QED BY <1>2, <1>3 DEF Rows

LEMMA ChildrenRows ==
  ASSUME NEW i \in Inventories, NEW t \in Rows(i), NEW g \in Groups
  PROVE  AddChildren(i, t, g) \in Rows(i)
<1>1. t \in Table
      /\ \A c \in Groups : i.own[c] \subseteq t[c] /\ t[c] \subseteq MembersOf(i, c)
  BY DEF Rows
<1> DEFINE u == AddChildren(i, t, g)
<1>2. /\ u \in Table
      /\ \A c \in Groups : t[c] \subseteq u[c]
      /\ u[g] = t[g] \cup UNION {t[c] : c \in Children(i, g)}
      /\ \A c \in Groups : c # g => u[c] = t[c]
  BY <1>1, ChildrenTyped
<1>3. u[g] \subseteq MembersOf(i, g)
  <2>1. \A c \in Children(i, g) : t[c] \subseteq MembersOf(i, g)
    BY <1>1, BelowRises, MembersRise
  <2> QED BY <1>1, <1>2, <2>1
<1> HIDE DEF u
<1>4. \A c \in Groups : i.own[c] \subseteq u[c] /\ u[c] \subseteq MembersOf(i, c)
  BY <1>1, <1>2, <1>3
<1>5. u \in Rows(i)
  BY <1>2, <1>4 DEF Rows
<1> QED BY <1>5 DEF u

LEMMA CollectedRows ==
  ASSUME NEW i \in Inventories
  PROVE  Collected(i) \in Rows(i)
<1> DEFINE N == Cardinality(Groups)
           h == [nt \in (1..N) \X Rows(i) |-> AddNested(i, nt[2])]
           Is(f) == f = [n \in 0..N |-> IF n = 0 THEN i.own ELSE AddNested(i, f[n - 1])]
           F == CHOOSE f : Is(f)
<1>1. N \in Nat
  BY InventoryAssumption, FS_CardinalityType
<1>2. i.own \in Rows(i) /\ h \in [(1..N) \X Rows(i) -> Rows(i)]
  BY OwnRows, NestedRows
<1>3. PICK f : Iterates(f, N, Rows(i), i.own, h)
  <2> HIDE DEF N, h
  <2> QED BY <1>1, <1>2, IteratesExist
<1>4. Is(f)
  <2>1. f \in [0..N -> Rows(i)] /\ f[0] = i.own
    BY <1>3 DEF Iterates
  <2>2. ASSUME NEW n \in 1..N PROVE f[n] = AddNested(i, f[n - 1])
    <3>1. f[n - 1] \in Rows(i)
      BY <1>1, <2>1
    <3>2. f[n] = h[<<n, f[n - 1]>>]
      BY <1>3 DEF Iterates
    <3> QED BY <3>1, <3>2
  <2>3. \A n \in 0..N : n # 0 => n \in 1..N
    BY <1>1
  <2> HIDE DEF N
  <2> QED BY <2>1, <2>2, <2>3
<1>5. Is(F)
  <2> HIDE DEF Is
  <2> QED BY <1>4
<1>6. F[0] = i.own /\ \A n \in 1..N : F[n] = AddNested(i, F[n - 1])
  <2>1. 0 \in 0..N /\ \A n \in 1..N : n \in 0..N /\ n # 0
    BY <1>1
  <2> HIDE DEF N, F
  <2> QED BY <1>5, <2>1
<1>7. N \in {n \in 0..N : F[n] \in Rows(i)}
  <2> DEFINE S == {n \in 0..N : F[n] \in Rows(i)}
  <2>1. 0 \in S
    BY <1>1, <1>2, <1>6
  <2>2. ASSUME NEW n \in 1..N, n - 1 \in S PROVE n \in S
    <3> HIDE DEF F
    <3> QED BY <1>6, <2>2, NestedRows
  <2>3. 0..N \subseteq S
    <3> HIDE DEF S, N
    <3> QED BY <1>1, <2>1, <2>2, UpTo
  <2>4. N \in 0..N
    BY <1>1
  <2> QED BY <2>3, <2>4
<1>8. Collected(i) = F[N]
  BY Zenon DEF Collected
<1> HIDE DEF F
<1> QED BY <1>7, <1>8

\* After a pass every row holds what it held, and each row of a child.
LEMMA PassRows ==
  ASSUME NEW i \in Inventories, NEW t \in Rows(i)
  PROVE  /\ Pass(i, t) \in Rows(i)
         /\ \A c \in Groups : t[c] \subseteq Pass(i, t)[c]
         /\ \A g \in Groups : \A c \in Children(i, g) : t[c] \subseteq Pass(i, t)[g]
<1> DEFINE N == Len(i.parents)
           h == [nt \in (1..N) \X Rows(i) |-> AddChildren(i, nt[2], i.parents[nt[1]])]
           Is(f) == f = [n \in 0..N |-> IF n = 0 THEN t
                                         ELSE AddChildren(i, f[n - 1], i.parents[n])]
           F == CHOOSE f : Is(f)
<1>1. N \in Nat /\ DOMAIN i.parents = 1..N /\ \A n \in 1..N : i.parents[n] \in Groups
  BY DEF Inventories
<1>2. h \in [(1..N) \X Rows(i) -> Rows(i)]
  <2>1. ASSUME NEW nt \in (1..N) \X Rows(i)
        PROVE  AddChildren(i, nt[2], i.parents[nt[1]]) \in Rows(i)
    <3>1. nt[1] \in 1..N /\ nt[2] \in Rows(i)
      OBVIOUS
    <3> QED BY <1>1, <3>1, ChildrenRows
  <2> QED BY <2>1
<1>3. PICK f : Iterates(f, N, Rows(i), t, h)
  <2> HIDE DEF N, h
  <2> QED BY <1>1, <1>2, IteratesExist
<1>4. Is(f)
  <2>1. f \in [0..N -> Rows(i)] /\ f[0] = t
    BY <1>3 DEF Iterates
  <2>2. ASSUME NEW n \in 1..N PROVE f[n] = AddChildren(i, f[n - 1], i.parents[n])
    <3>1. f[n - 1] \in Rows(i)
      BY <1>1, <2>1
    <3>2. f[n] = h[<<n, f[n - 1]>>]
      BY <1>3 DEF Iterates
    <3> QED BY <3>1, <3>2
  <2>3. \A n \in 0..N : n # 0 => n \in 1..N
    BY <1>1
  <2> HIDE DEF N
  <2> QED BY <2>1, <2>2, <2>3
<1>5. Is(F)
  <2> HIDE DEF Is
  <2> QED BY <1>4
<1>6. F[0] = t /\ \A n \in 1..N : F[n] = AddChildren(i, F[n - 1], i.parents[n])
  <2>1. 0 \in 0..N /\ \A n \in 1..N : n \in 0..N /\ n # 0
    BY <1>1
  <2> HIDE DEF N, F
  <2> QED BY <1>5, <2>1
<1>7. Pass(i, t) = F[N]
  BY Zenon DEF Pass
<1> HIDE DEF F, N, h
<1> DEFINE S == {n \in 0..N : /\ F[n] \in Rows(i)
                              /\ \A c \in Groups : t[c] \subseteq F[n][c]
                              /\ \A k \in 1..n : \A c \in Children(i, i.parents[k]) :
                                   t[c] \subseteq F[n][i.parents[k]]}
<1>8. 0 \in S
  BY <1>1, <1>6
<1>9. ASSUME NEW n \in 1..N, n - 1 \in S PROVE n \in S
  <2> DEFINE g == i.parents[n]
             u == F[n - 1]
             w == F[n]
  <2>1. /\ u \in Rows(i) /\ u \in Table
        /\ \A c \in Groups : t[c] \subseteq u[c]
        /\ \A k \in 1..(n - 1) : \A c \in Children(i, i.parents[k]) :
             t[c] \subseteq u[i.parents[k]]
    BY <1>9 DEF Rows
  <2>2. g \in Groups /\ w = AddChildren(i, u, g) /\ n \in 0..N
    BY <1>1, <1>6
  <2> HIDE DEF g, u, w
  <2>3. w \in Rows(i)
    BY <2>1, <2>2, ChildrenRows
  <2>4. /\ \A c \in Groups : u[c] \subseteq w[c]
        /\ \A c \in Children(i, g) : u[c] \subseteq w[g]
    BY <2>1, <2>2, ChildrenTyped
  <2>5. \A c \in Groups : t[c] \subseteq w[c]
    BY <2>1, <2>4
  <2>6. ASSUME NEW k \in 1..n, NEW c \in Children(i, i.parents[k])
        PROVE  t[c] \subseteq w[i.parents[k]]
    <3>1. k \in 1..N /\ i.parents[k] \in Groups /\ c \in Groups
      BY <1>1 DEF Children
    <3>2. CASE k = n
      BY <2>1, <2>4, <3>1, <3>2 DEF g
    <3>3. CASE k # n
      <4>1. k \in 1..(n - 1)
        BY <3>3
      <4> QED BY <2>1, <2>4, <3>1, <4>1
    <3> QED BY <3>2, <3>3
  <2> QED BY <2>2, <2>3, <2>5, <2>6 DEF w
<1>10. N \in S
  <2>1. 0..N \subseteq S
    <3> HIDE DEF S
    <3> QED BY <1>1, <1>8, <1>9, UpTo
  <2>2. N \in 0..N
    BY <1>1
  <2> HIDE DEF S
  <2> QED BY <2>1, <2>2
<1>11. ASSUME NEW g \in Groups, NEW c \in Children(i, g) PROVE t[c] \subseteq F[N][g]
  <2>1. <<g, c>> \in i.nested \cup i.named
    BY DEF Children
  <2>2. PICK k \in DOMAIN i.parents : i.parents[k] = <<g, c>>[1]
    BY <2>1 DEF Inventories
  <2>3. k \in 1..N /\ i.parents[k] = g
    BY <1>1, <2>2
  <2> QED BY <1>10, <2>3
<1> QED BY <1>7, <1>10, <1>11

LEMMA IndexPasses ==
  ASSUME NEW i \in Inventories
  PROVE  \E f \in [0..Passes(i) -> Rows(i)] :
           /\ GroupIndex(i) = f[Passes(i)]
           /\ \A n \in 1..Passes(i) : f[n] = Pass(i, f[n - 1])
<1> DEFINE N == Passes(i)
           a == Collected(i)
           h == [nt \in (1..N) \X Rows(i) |-> Pass(i, nt[2])]
           Is(f) == f = [n \in 0..N |-> IF n = 0 THEN Collected(i) ELSE Pass(i, f[n - 1])]
           F == CHOOSE f : Is(f)
<1>1. N \in Nat
  <2>1. Cardinality(Groups) \in Nat /\ Len(i.parents) \in Nat
    BY InventoryAssumption, FS_CardinalityType DEF Inventories
  <2> QED BY <2>1 DEF Passes
<1>2. a \in Rows(i) /\ h \in [(1..N) \X Rows(i) -> Rows(i)]
  BY CollectedRows, PassRows
<1>3. PICK f : Iterates(f, N, Rows(i), a, h)
  <2> HIDE DEF N, h, a
  <2> QED BY <1>1, <1>2, IteratesExist
<1>4. Is(f)
  <2>1. f \in [0..N -> Rows(i)] /\ f[0] = a
    BY <1>3 DEF Iterates
  <2>2. ASSUME NEW n \in 1..N PROVE f[n] = Pass(i, f[n - 1])
    <3>1. f[n - 1] \in Rows(i)
      <4> HIDE DEF N
      <4> QED BY <1>1, <2>1
    <3>2. f[n] = h[<<n, f[n - 1]>>]
      BY <1>3 DEF Iterates
    <3> QED BY <3>1, <3>2
  <2>3. \A n \in 0..N : n # 0 => n \in 1..N
    <3> HIDE DEF N
    <3> QED BY <1>1
  <2> HIDE DEF N
  <2> QED BY <2>1, <2>2, <2>3
<1>5. Is(F)
  <2> HIDE DEF Is
  <2> QED BY <1>4
<1>6. F[0] = a /\ \A n \in 1..N : F[n] = Pass(i, F[n - 1])
  <2> HIDE DEF N, F
  <2>1. 0 \in 0..N /\ \A n \in 1..N : n \in 0..N /\ n # 0
    BY <1>1
  <2> QED BY <1>5, <2>1
<1>7. GroupIndex(i) = F[N]
  BY Zenon DEF GroupIndex
<1> HIDE DEF F, N, h, a
<1>8. 0..N \subseteq {n \in 0..N : F[n] \in Rows(i)}
  <2> DEFINE S == {n \in 0..N : F[n] \in Rows(i)}
  <2>1. 0 \in S
    BY <1>1, <1>2, <1>6
  <2>2. ASSUME NEW n \in 1..N, n - 1 \in S PROVE n \in S
    BY <1>6, <2>2, PassRows
  <2> HIDE DEF S
  <2>3. 0..N \subseteq S
    BY <1>1, <2>1, <2>2, UpTo
  <2> QED BY <2>3 DEF S
<1>9. F \in [0..N -> Rows(i)]
  <2>1. F = [n \in 0..N |-> F[n]]
    BY <1>5
  <2> QED BY <1>8, <2>1
<1> QED BY <1>6, <1>7, <1>9 DEF N

\* A strictly growing chain of sets of groups has at most as many steps as
\* there are groups.
LEMMA ChainStops ==
  ASSUME NEW N \in Nat, N > Cardinality(Groups),
         NEW S, \A n \in 0..N : S[n] \subseteq Groups,
         \A n \in 1..N : S[n - 1] \subseteq S[n]
  PROVE  \E n \in 1..N : S[n] = S[n - 1]
<1> SUFFICES ASSUME \A n \in 1..N : S[n] # S[n - 1] PROVE FALSE
  OBVIOUS
<1>1. \A n \in 0..N : IsFiniteSet(S[n]) /\ Cardinality(S[n]) \in Nat
                    /\ Cardinality(S[n]) <= Cardinality(Groups)
  BY InventoryAssumption, FS_Subset, FS_CardinalityType
<1> DEFINE Tall == {n \in 0..N : Cardinality(S[n]) >= n}
<1>2. 0 \in Tall
  BY <1>1
<1>3. ASSUME NEW n \in 1..N, n - 1 \in Tall PROVE n \in Tall
  <2>1. n - 1 \in 0..N /\ n \in 0..N /\ S[n - 1] \subseteq S[n] /\ S[n] # S[n - 1]
    OBVIOUS
  <2>2. Cardinality(S[n - 1]) < Cardinality(S[n])
    <3>1. Cardinality(S[n - 1]) <= Cardinality(S[n])
          /\ (Cardinality(S[n - 1]) = Cardinality(S[n]) => S[n - 1] = S[n])
      BY <1>1, <2>1, FS_Subset
    <3> QED BY <1>1, <2>1, <3>1
  <2> QED BY <1>1, <1>3, <2>1, <2>2
<1>4. N \in Tall
  <2>1. 0..N \subseteq Tall
    <3> HIDE DEF Tall
    <3> QED BY <1>2, <1>3, UpTo
  <2> QED BY <2>1
<1>5. Cardinality(Groups) \in Nat
  BY InventoryAssumption, FS_CardinalityType
<1> QED BY <1>1, <1>4, <1>5

\* The index of every inventory has, for each group, its hosts and those of
\* every group below it: the bound of the loop is never too small
\* (runner._inventory_index).
THEOREM IndexIsTransitive ==
  ASSUME NEW i \in Inventories
  PROVE  GroupIndex(i) = [g \in Groups |-> MembersOf(i, g)]
<1> DEFINE N == Passes(i)
<1>1. PICK f \in [0..N -> Rows(i)] :
        GroupIndex(i) = f[N] /\ \A n \in 1..N : f[n] = Pass(i, f[n - 1])
  BY IndexPasses
<1>2. N \in Nat /\ N > Cardinality(Groups)
  <2>1. Cardinality(Groups) \in Nat /\ Len(i.parents) \in Nat
    BY InventoryAssumption, FS_CardinalityType DEF Inventories
  <2> QED BY <2>1 DEF Passes
<1> HIDE DEF N
<1>3. \A n \in 0..N : f[n] \in Rows(i)
  BY <1>1
<1>4. \A n \in 1..N :
        /\ \A c \in Groups : f[n - 1][c] \subseteq f[n][c]
        /\ \A g \in Groups : \A c \in Children(i, g) : f[n - 1][c] \subseteq f[n][g]
  BY <1>1, <1>2, PassRows
<1>5. ASSUME NEW g \in Groups, NEW x \in MembersOf(i, g) PROVE x \in f[N][g]
  <2> DEFINE S == [n \in 0..N |-> {c \in Groups : x \in f[n][c]}]
  <2>1. \A n \in 1..N : n \in 0..N /\ n - 1 \in 0..N
    BY <1>2
  <2>2. \A n \in 0..N : S[n] \subseteq Groups
    OBVIOUS
  <2>3. \A n \in 1..N : S[n - 1] \subseteq S[n]
    BY <1>4, <2>1
  <2>4. PICK k \in 1..N : S[k] = S[k - 1]
    <3> HIDE DEF S
    <3> QED BY <1>2, <2>2, <2>3, ChainStops
  <2>5. \A n \in 0..N : n >= k => S[k] \subseteq S[n]
    <3> DEFINE Later == {n \in 0..N : n >= k => S[k] \subseteq S[n]}
    <3> HIDE DEF S
    <3>1. 0 \in Later
      BY <1>2
    <3>2. ASSUME NEW n \in 1..N, n - 1 \in Later PROVE n \in Later
      <4>1. CASE n <= k
        BY <2>1, <4>1
      <4>2. CASE n > k
        BY <2>1, <2>3, <3>2, <4>2
      <4> QED BY <4>1, <4>2
    <3> HIDE DEF Later
    <3>3. 0..N \subseteq Later
      BY <1>2, <3>1, <3>2, UpTo
    <3> QED BY <3>3 DEF Later
  <2>6. g \in S[k]
    <3> SUFFICES ASSUME g \notin S[k] PROVE FALSE
      OBVIOUS
    <3> DEFINE Rest == Groups \ S[k]
    <3>1. Closed(i, Rest)
      <4> SUFFICES ASSUME NEW b \in Rest, NEW c \in Children(i, b), c \in S[k] PROVE FALSE
        BY DEF Closed, Children
      <4>1. c \in Groups /\ x \in f[k - 1][c]
        BY <2>1, <2>4
      <4>2. x \in f[k][b]
        BY <1>4, <4>1
      <4> QED BY <2>1, <4>2
    <3>2. PICK c \in Below(i, g) : x \in i.own[c]
      BY DEF MembersOf
    <3>3. c \in Rest
      <4>1. Rest \in SUBSET Groups /\ g \in Rest
        OBVIOUS
      <4> HIDE DEF Rest
      <4> QED BY <3>1, <3>2, <4>1 DEF Below
    <3>4. x \in f[k][c]
      BY <1>3, <2>1, <3>2, <3>3 DEF Rows
    <3> QED BY <2>1, <3>3, <3>4
  <2>7. g \in S[N]
    <3>1. N \in 0..N /\ N >= k
      BY <1>2
    <3> HIDE DEF S
    <3> QED BY <2>5, <2>6, <3>1
  <2>8. N \in 0..N
    BY <1>2
  <2> QED BY <2>7, <2>8
<1>6. f[N] \in Table /\ \A g \in Groups : f[N][g] \subseteq MembersOf(i, g)
  BY <1>2, <1>3 DEF Rows
<1>7. \A g \in Groups : f[N][g] = MembersOf(i, g)
  BY <1>5, <1>6
<1> QED BY <1>1, <1>6, <1>7 DEF Table

----------------------------------------------------------------------------
\* Types

LEMMA FirstInIs ==
  ASSUME NEW X, NEW seq \in Seq(X), NEW S, S \cap Elements(seq) # {}
  PROVE  \E i \in DOMAIN seq : /\ FirstIn(S, seq) = seq[i] /\ seq[i] \in S
                              /\ \A j \in DOMAIN seq : seq[j] \in S => i <= j
<1> DEFINE At_ == {i \in DOMAIN seq : seq[i] \in S}
<1>1. At_ \in SUBSET Nat /\ At_ # {}
  BY DEF Elements
<1>2. PICK m \in At_ : \A k \in At_ : m <= k
  <2> HIDE DEF At_
  <2> QED BY <1>1, Least
<1> DEFINE First(i) == seq[i] \in S /\ \A j \in DOMAIN seq : seq[j] \in S => i <= j
           c == CHOOSE i \in DOMAIN seq : First(i)
<1>3. m \in DOMAIN seq /\ First(m)
  BY <1>2
<1>4. c \in DOMAIN seq /\ First(c)
  <2> HIDE DEF First
  <2> QED BY <1>3
<1>5. FirstIn(S, seq) = seq[c]
  BY DEF FirstIn
<1> HIDE DEF c
<1> QED BY <1>4, <1>5

LEMMA TaskTyped ==
  ASSUME NEW p \in Plays, NEW t \in Elements(TasksOf[p])
  PROVE  t \in Tasks /\ Refs[t] \in Seq(Vars)
BY TaskAssumption DEF Elements

\* A variable that is reported is one the task mentions and the play lacks.
LEMMA MissingIs ==
  ASSUME NEW p \in Plays, NEW t \in Elements(TasksOf[p]), Undefined(p, t) # {}
  PROVE  \E i \in DOMAIN Refs[t] :
           /\ FirstIn(Undefined(p, t), Refs[t]) = Refs[t][i]
           /\ Refs[t][i] \in Undefined(p, t) /\ Refs[t][i] \in Vars
           /\ \A j \in DOMAIN Refs[t] : Refs[t][j] \in Undefined(p, t) => i <= j
<1>1. Refs[t] \in Seq(Vars)
  BY TaskTyped
<1>2. Undefined(p, t) \cap Elements(Refs[t]) # {}
  BY DEF Undefined
<1>3. PICK i \in DOMAIN Refs[t] :
           /\ FirstIn(Undefined(p, t), Refs[t]) = Refs[t][i]
           /\ Refs[t][i] \in Undefined(p, t)
           /\ \A j \in DOMAIN Refs[t] : Refs[t][j] \in Undefined(p, t) => i <= j
  BY <1>1, <1>2, FirstInIs
<1>4. Refs[t][i] \in Vars
  BY <1>1
<1> QED BY <1>3, <1>4

\* What a reported undefined variable is.
Hole(f) ==
  /\ f.at \in Elements(TasksOf[f.play])
  /\ f.what \in Elements(Refs[f.at])
  /\ f.what \notin Bound(f.play) \cup Narrow

LEMMA FailuresAre ==
  ASSUME TypeOK, NEW f \in Failures
  PROVE  f \in Failure /\ (f.type = "undefined_variable" => Hole(f))
<1>1. PICK p \in Plays : f \in PlayFailures(p)
  BY DEF Failures
<1>2. CASE f = [type |-> "unreachable_host", play |-> p, at |-> p, what |-> "hosts"]
  BY <1>2 DEF Failure
<1>3. ASSUME NEW t \in Elements(TasksOf[p]), f \in TaskFailures(p, t)
      PROVE  f \in Failure /\ (f.type = "undefined_variable" => Hole(f))
  <2> DEFINE missing == FirstIn(Undefined(p, t), Refs[t])
  <2>1. t \in Tasks /\ module[t] \in Modules
    BY TaskTyped DEF TypeOK
  <2>2. CASE f = [type |-> "removed_module", play |-> p, at |-> t, what |-> module[t]]
    BY <2>1, <2>2 DEF Failure
  <2>3. CASE /\ Undefined(p, t) # {} /\ missing \notin Narrow
             /\ f = [type |-> "undefined_variable", play |-> p, at |-> t, what |-> missing]
    <3>1. missing \in Undefined(p, t) /\ missing \in Vars
      BY <2>3, MissingIs
    <3> HIDE DEF missing
    <3>2. missing \in Elements(Refs[t]) /\ missing \notin Bound(p)
      BY <3>1 DEF Undefined
    <3>3. f \in Failure
      BY <2>1, <2>3, <3>1 DEF Failure
    <3>4. Hole(f)
      BY <2>3, <3>2 DEF Hole
    <3> QED BY <3>3, <3>4
  <2>4. CASE /\ Undefined(p, t) # {}
             /\ f = [type |-> "narrowly_defined_variable", play |-> p, at |-> t,
                     what |-> missing]
    <3>1. missing \in Vars
      BY <2>4, MissingIs
    <3> HIDE DEF missing
    <3> QED BY <2>1, <2>4, <3>1 DEF Failure
  <2> QED BY <1>3, <2>2, <2>3, <2>4 DEF TaskFailures
<1> QED BY <1>1, <1>2, <1>3 DEF PlayFailures

\* The first playbook that uses a module is one of the playbooks.
LEMMA FirstPlaybook ==
  ASSUME NEW m, Using(m) # {}
  PROVE  /\ PlaybookUsing(m) \in Using(m) /\ PlaybookUsing(m) \in Elements(Playbooks)
         /\ TasksIn[PlaybookUsing(m)] \in Seq(Tasks)
<1>1. Using(m) \cap Elements(Playbooks) # {}
  BY DEF Using
<1>2. PICK i \in DOMAIN Playbooks : PlaybookUsing(m) = Playbooks[i] /\ Playbooks[i] \in Using(m)
  <2>1. Playbooks \in Seq(DOMAIN TasksIn)
    BY TaskAssumption
  <2> DEFINE S == Using(m)
  <2> HIDE DEF S
  <2>2. S \cap Elements(Playbooks) # {}
    BY <1>1 DEF S
  <2>3. \E i \in DOMAIN Playbooks :
          FirstIn(S, Playbooks) = Playbooks[i] /\ Playbooks[i] \in S
    BY <2>1, <2>2, FirstInIs
  <2> QED BY <2>3 DEF PlaybookUsing, S
<1>3. PlaybookUsing(m) \in Elements(Playbooks)
  BY <1>2 DEF Elements
<1>4. PlaybookUsing(m) \in DOMAIN TasksIn
  BY <1>3, TaskAssumption DEF Elements
<1> QED BY <1>2, <1>3, <1>4, TaskAssumption

LEMMA MigrateTyped ==
  ASSUME TypeOK, NEW f \in todo, Migratable(f)
  PROVE  /\ Replacement[Short[f.what]] \in Modules
         /\ ExistingArgs(f.what, PlaybookUsing(f.what)) \in Tasks
<1> DEFINE m == f.what
           b == PlaybookUsing(m)
<1>1. m \in Modules /\ Replacement[Short[m]] # NoModule /\ Using(m) # {}
  <2>1. f \in Failure /\ f.type = "removed_module"
    BY DEF TypeOK, Migratable
  <2> QED BY <2>1 DEF Failure, Migratable
<1>2. Replacement[Short[m]] \in Modules
  <2>1. Short[m] \in Elements(Short)
    BY <1>1, TaskAssumption DEF Elements
  <2>2. Replacement[Short[m]] \in Modules \cup {NoModule}
    <3> HIDE DEF m
    <3> QED BY <2>1, TaskAssumption
  <2> QED BY <1>1, <2>2
<1> HIDE DEF m
<1>3. b \in Using(m) /\ b \in Elements(Playbooks)
  BY <1>1, FirstPlaybook
<1>4. TasksIn[b] \in Seq(Tasks)
  BY <1>1, FirstPlaybook
<1> HIDE DEF b
<1>5. UsersOf(m, b) \cap Elements(TasksIn[b]) # {}
  BY <1>3 DEF Using, UsersOf
<1>6. PICK i \in DOMAIN TasksIn[b] : FirstIn(UsersOf(m, b), TasksIn[b]) = TasksIn[b][i]
  BY <1>4, <1>5, FirstInIs
<1>7. TasksIn[b][i] \in Tasks
  BY <1>4
<1>8. ExistingArgs(m, b) \in Tasks
  BY <1>6, <1>7 DEF ExistingArgs, TypeOK
<1> QED BY <1>2, <1>8 DEF m, b

LEMMA GroupsTyped ==
  ASSUME NEW i \in Inventories
  PROVE  GroupIndex(i) \in [Groups -> SUBSET Hosts]
BY IndexIsTransitive, MembersRise

LEMMA InitTyped == Init => TypeOK
<1> SUFFICES ASSUME Init PROVE TypeOK
  OBVIOUS
<1>1. PICK l \in Layouts : inv = l.inv /\ sites = l.sites /\ all = l.all /\ module = l.uses
  BY DEF Init
<1>2. inv \in Inventories /\ sites \subseteq Sites /\ all \subseteq Vars
      /\ module \in [Tasks -> Modules] /\ MaxRetries \in Nat
  BY <1>1, TaskAssumption
<1>3. groups \in [Groups -> SUBSET Hosts]
  BY <1>2, GroupsTyped DEF Init
<1>4. args \in [Tasks -> Tasks] /\ held \subseteq Holdable
  BY DEF Init
<1>5. /\ declared \cap Installed = {} /\ written \subseteq Failure /\ todo \subseteq Failure
      /\ progressed \in BOOLEAN
  BY DEF Init
<1>6. /\ stage \in {"run", "round", "done"} /\ iter \in 0..MaxRetries /\ stage # "round"
      /\ outcome \in {"none", "green", "gave_up", "stalled"}
  BY <1>2 DEF Init
<1> QED BY <1>2, <1>3, <1>4, <1>5, <1>6 DEF TypeOK

LEMMA HandleTyped ==
  ASSUME TypeOK, NEW f \in todo, Handle(f)
  PROVE  TypeOK'
<1>1. f \in Failure /\ todo \subseteq Failure
  BY DEF TypeOK
<1>2. ASSUME NEW action, NEW target, NEW key, Landed(f, action, target, key)
      PROVE  /\ UNCHANGED <<inv, sites, held, groups, stage, iter, outcome>>
             /\ todo' \subseteq Failure /\ progressed' \in BOOLEAN
  <2>1. progressed' = (progressed \/ Signature(action, target, key) \notin applied)
        /\ progressed \in BOOLEAN
    BY <1>2 DEF Landed, TypeOK
  <2>2. progressed' \in BOOLEAN
    BY <2>1
  <2> QED BY <1>1, <1>2, <2>2 DEF Landed, repo
<1>3. CASE Fill(f)
  <2>1. f.what \in Vars
    BY <1>1, <1>3 DEF Fill, Fillable, Failure
  <2>2. all' \subseteq Vars /\ written' \subseteq Failure
        /\ UNCHANGED <<module, args, declared>>
    BY <1>1, <1>3, <2>1 DEF Fill, TypeOK
  <2>3. Landed(f, "set_yaml_key", "group_vars", f.what)
    BY <1>3 DEF Fill
  <2> QED BY <2>2, <1>2, <2>3 DEF TypeOK
<1>4. CASE Declare(f)
  <2>1. declared' \cap Installed = {} /\ UNCHANGED <<module, args, all, written>>
    BY <1>4 DEF Declare, Declarable, TypeOK
  <2>2. Landed(f, "declare_collection", "requirements", f.what)
    BY <1>4 DEF Declare
  <2> QED BY <1>2, <2>1, <2>2 DEF TypeOK
<1>5. CASE Migrate(f)
  <2>1. /\ Replacement[Short[f.what]] \in Modules
        /\ ExistingArgs(f.what, PlaybookUsing(f.what)) \in Tasks
    BY <1>5, MigrateTyped DEF Migrate
  <2>2. module' \in [Tasks -> Modules] /\ args' \in [Tasks -> Tasks]
        /\ UNCHANGED <<all, declared, written>>
    BY <1>5, <2>1 DEF Migrate, TypeOK
  <2>3. Landed(f, "replace_module", PlaybookUsing(f.what), f.what)
    BY <1>5 DEF Migrate
  <2> QED BY <1>2, <2>2, <2>3 DEF TypeOK
<1>6. CASE Decline(f)
  BY <1>6 DEF Decline, TypeOK, repo, content, progress
<1> QED BY <1>3, <1>4, <1>5, <1>6 DEF Handle

LEMMA NextTyped == TypeOK /\ [Next]_vars => TypeOK'
<1> SUFFICES ASSUME TypeOK, [Next]_vars PROVE TypeOK'
  OBVIOUS
<1>1. CASE Green
  BY <1>1 DEF Green, Stop, TypeOK, repo, content, progress
<1>2. CASE GiveUp
  BY <1>2 DEF GiveUp, Stop, TypeOK, repo, content, progress
<1>3. CASE Collect
  <2>1. Failures \subseteq Failure
    BY FailuresAre
  <2> QED BY <1>3, <2>1 DEF Collect, TypeOK, repo, content
<1>4. CASE \E f \in todo : Handle(f)
  BY <1>4, HandleTyped
<1>5. CASE EndRound
  <2>1. iter' \in 0..MaxRetries
    BY <1>5, TaskAssumption DEF EndRound, TypeOK
  <2> QED BY <1>5, <2>1 DEF EndRound, Stop, TypeOK, repo, content, progress
<1>6. CASE UNCHANGED vars
  BY <1>6 DEF TypeOK, vars, repo, content, progress
<1> QED BY <1>1, <1>2, <1>3, <1>4, <1>5, <1>6 DEF Next, Agent, Ended

\* Every failure, index and repair is of the kind the rules take it for.
THEOREM Typed == Spec => []TypeOK
BY InitTyped, NextTyped, PTL DEF Spec

----------------------------------------------------------------------------
\* The index, and what is written

LEMMA RepoStays == [Next]_vars => UNCHANGED <<inv, sites, groups>>
<1> SUFFICES ASSUME [Next]_vars PROVE UNCHANGED <<inv, sites, groups>>
  OBVIOUS
<1>1. CASE \E f \in todo : Handle(f)
  BY <1>1 DEF Handle, Fill, Declare, Migrate, Decline, Landed, repo
<1>2. CASE Green \/ GiveUp \/ Collect \/ EndRound \/ UNCHANGED vars
  BY <1>2 DEF Green, GiveUp, Collect, EndRound, vars, repo
<1> QED BY <1>1, <1>2 DEF Next, Agent, Ended

LEMMA InitTransitive == Init => GroupsAreTransitive
<1>1. Init => inv \in Inventories /\ groups = GroupIndex(inv)
  BY InitTyped DEF Init, TypeOK
<1> QED BY <1>1, IndexIsTransitive DEF GroupsAreTransitive

\* Every group has the hosts of all groups below it, throughout a run and in
\* every inventory (runner._inventory_index).
THEOREM Transitive == Spec => []GroupsAreTransitive
<1>1. GroupsAreTransitive /\ [Next]_vars => GroupsAreTransitive'
  <2> SUFFICES ASSUME GroupsAreTransitive, [Next]_vars PROVE GroupsAreTransitive'
    OBVIOUS
  <2>1. UNCHANGED <<inv, sites, groups>>
    BY RepoStays
  <2> QED BY <2>1 DEF GroupsAreTransitive, MembersOf
<1> QED BY <1>1, InitTransitive, PTL DEF Spec

\* What the simulator and Ansible read alike: no variable beside a host, in
\* pre_tasks or in a block, and no fact another play relies on.
PlainSites ==
  \A s \in sites :
    /\ s.kind \notin {"inline", "outside"}
    /\ s.kind = "fact" =>
         \A p \in Plays : \A t \in Elements(TasksOf[p]) :
           s.var \in Elements(Refs[t]) => s.at \in Elements(TasksOf[p])

Holes == \A f \in todo \cup written : f.type = "undefined_variable" => Hole(f)

WrittenHoles ==
  /\ TypeOK /\ PlainSites /\ Holes
  /\ \A f \in written : f.type = "undefined_variable"

LEMMA HandleHoles ==
  ASSUME WrittenHoles, NEW f \in todo, Handle(f)
  PROVE  /\ todo' \subseteq todo /\ written' \subseteq written \cup {f}
         /\ \A w \in written' : w.type = "undefined_variable"
<1>1. CASE Fill(f)
  BY <1>1 DEF Fill, Fillable, Landed, WrittenHoles
<1>2. CASE Declare(f) \/ Migrate(f) \/ Decline(f)
  BY <1>2 DEF Declare, Migrate, Decline, Landed, content, WrittenHoles
<1> QED BY <1>1, <1>2 DEF Handle

LEMMA NextHoles == WrittenHoles /\ [Next]_vars => WrittenHoles'
<1> SUFFICES ASSUME WrittenHoles, [Next]_vars PROVE WrittenHoles'
  OBVIOUS
<1>1. TypeOK' /\ UNCHANGED <<inv, sites, groups>>
  BY NextTyped, RepoStays DEF WrittenHoles
<1>2. PlainSites' /\ \A f : Hole(f) => Hole(f)'
  BY <1>1 DEF PlainSites, WrittenHoles, Hole, Bound, NamesBoundByPlay, RoleDefinedNames, InventoryVars, Narrow, At
<1>3. CASE \E f \in todo : Handle(f)
  BY <1>1, <1>2, <1>3, HandleHoles DEF WrittenHoles, Holes
<1>4. CASE Collect
  <2>1. \A f \in todo' : f.type = "undefined_variable" => Hole(f)
    BY <1>4, FailuresAre DEF Collect, WrittenHoles
  <2>2. written' = written
    BY <1>4 DEF Collect, content
  <2> QED BY <1>1, <1>2, <2>1, <2>2 DEF WrittenHoles, Holes
<1>5. CASE Green \/ GiveUp \/ EndRound \/ UNCHANGED vars
  <2>1. written' = written /\ todo' = todo
    BY <1>5 DEF Green, GiveUp, EndRound, vars, content
  <2> QED BY <1>1, <1>2, <2>1 DEF WrittenHoles, Holes
<1> QED BY <1>3, <1>4, <1>5 DEF Next, Agent, Ended

LEMMA HolesAreSeenByNone == WrittenHoles => DefaultsFillHoles
<1> SUFFICES ASSUME WrittenHoles, NEW w \in written, NEW s \in sites, s.var = w.what
             PROVE  /\ s.kind \notin {"role", "block"}
                    /\ \A i \in DOMAIN TasksOf[w.play], h \in HostsOf(w.play) :
                         TasksOf[w.play][i] = w.at => ~Reaches(s, w.play, i, h)
  BY DEF DefaultsFillHoles
<1> DEFINE p == w.play
           mine == Elements(TasksOf[p])
<1>1. Hole(w) /\ w \in Failure /\ w.type = "undefined_variable"
  BY DEF WrittenHoles, Holes, TypeOK
<1>2. p \in Plays /\ w.at \in mine /\ w.what \in Elements(Refs[w.at])
  BY <1>1 DEF Hole, Failure
<1>3. s.at \in AnyPlace
  BY DEF WrittenHoles, TypeOK, Sites, AnyPlace
<1>4. s.kind \notin {"role", "block", "group_vars", "host_vars", "dir"}
  BY <1>1, <1>3 DEF Hole, Bound, NamesBoundByPlay, RoleDefinedNames, InventoryVars, Narrow, At
<1>5. ~(s.kind = "play" /\ s.at = p) /\ ~(s.kind \in {"task", "fact"} /\ s.at \in mine)
  BY <1>1 DEF Hole, Bound, NamesBoundByPlay, RoleDefinedNames, InventoryVars, At
<1>6. s.kind \notin {"inline", "outside"}
      /\ (s.kind = "fact" => s.at \in mine)
  BY <1>2 DEF WrittenHoles, PlainSites
<1>7. \A i \in DOMAIN TasksOf[p] : TasksOf[p][i] \in mine
  BY DEF Elements
<1>8. s.kind # "fact"
  BY <1>5, <1>6
<1>9. ASSUME NEW i \in DOMAIN TasksOf[p], NEW h PROVE ~Reaches(s, p, i, h)
  BY <1>4, <1>5, <1>6, <1>7, <1>8 DEF Reaches
<1> QED BY <1>4, <1>9

\* In a plain repository a default only ever fills a hole
\* (diagnoser._diagnose_variable, runner._names_bound_by_play).
THEOREM HolesOnly == Spec => (PlainSites => []DefaultsFillHoles)
<1>1. Init /\ PlainSites => WrittenHoles
  BY InitTyped DEF Init, WrittenHoles, Holes
<1> QED BY <1>1, NextHoles, HolesAreSeenByNone, PTL DEF Spec

----------------------------------------------------------------------------
\* Green

\* What the simulator takes for bound is there: the roles are the play's own,
\* vars: of a task are used in it, a fact is set before it is used.
BoundIsSeen ==
  \A p \in Plays : \A i \in DOMAIN TasksOf[p] :
    \A v \in Elements(Refs[TasksOf[p][i]]) : v \in Bound(p) =>
      \A h \in HostsOf(p) : \E s \in sites : s.var = v /\ Reaches(s, p, i, h)

\* A task mentions no variable after one of group_vars or host_vars.
NarrowIsLast ==
  \A t \in Tasks : \A i, j \in DOMAIN Refs[t] : i < j => Refs[t][i] \notin Narrow

Sound ==
  \A p \in Plays :
    /\ HostsOf(p) # {}
    /\ \A i \in DOMAIN TasksOf[p] :
         /\ module[TasksOf[p][i]] \in Core
         /\ \A v \in Elements(Refs[TasksOf[p][i]]), h \in HostsOf(p) : Sees(p, i, h, v)

LEMMA DefinedForAllIsSeen ==
  ASSUME TypeOK, GroupsAreTransitive, NEW p \in Plays, NEW i \in DOMAIN TasksOf[p],
         NEW v, DefinedForAll(v, p), NEW h \in HostsOf(p)
  PROVE  Sees(p, i, h, v)
<1>1. CASE v \in At({"host_vars"}, {h})
  BY <1>1 DEF At, Sees, Reaches
<1>2. CASE v \in At({"group_vars"}, {g \in Groups : h \in groups[g]})
  <2>1. PICK s \in sites : s.var = v /\ s.kind = "group_vars" /\ s.at \in Groups
                           /\ h \in groups[s.at]
    BY <1>2 DEF At
  <2>2. h \in MembersOf(inv, s.at)
    BY <2>1 DEF GroupsAreTransitive
  <2> QED BY <2>1, <2>2 DEF Sees, Reaches
<1> QED BY <1>1, <1>2 DEF DefinedForAll

LEMMA NoFailuresIsSound ==
  ASSUME TypeOK, GroupsAreTransitive, BoundIsSeen, NarrowIsLast, Failures = {}
  PROVE  Sound
<1> SUFFICES ASSUME NEW p \in Plays
             PROVE  /\ HostsOf(p) # {}
                    /\ \A i \in DOMAIN TasksOf[p] :
                         /\ module[TasksOf[p][i]] \in Core
                         /\ \A v \in Elements(Refs[TasksOf[p][i]]), h \in HostsOf(p) :
                              Sees(p, i, h, v)
  BY DEF Sound
<1>1. PlayFailures(p) = {}
  BY DEF Failures
<1>2. HostsOf(p) # {}
  BY <1>1 DEF PlayFailures
<1>3. ASSUME NEW i \in DOMAIN TasksOf[p]
      PROVE  /\ module[TasksOf[p][i]] \in Core
             /\ \A v \in Elements(Refs[TasksOf[p][i]]), h \in HostsOf(p) : Sees(p, i, h, v)
  <2> DEFINE t == TasksOf[p][i]
             first == FirstIn(Undefined(p, t), Refs[t])
  <2>1. t \in Elements(TasksOf[p]) /\ t \in Tasks
    BY TaskTyped DEF Elements
  <2> HIDE DEF t
  <2>2. TaskFailures(p, t) = {}
    BY <1>1, <2>1 DEF PlayFailures
  <2>3. module[t] \in Core
    BY <2>2 DEF TaskFailures, Resolves
  <2>4. Undefined(p, t) # {} => first \in Narrow /\ DefinedForAll(first, p)
    BY <2>2 DEF TaskFailures
  <2>5. ASSUME NEW v \in Elements(Refs[t]), NEW h \in HostsOf(p) PROVE Sees(p, i, h, v)
    <3>1. CASE v \in all
      BY <3>1 DEF Sees
    <3>2. CASE v \in At({"play"}, {p}) \cup At({"task"}, {t})
      BY <3>2 DEF At, Sees, Reaches, t
    <3>3. CASE v \in Bound(p)
      BY <3>3 DEF BoundIsSeen, Sees, t
    <3>4. CASE v \in Undefined(p, t)
      <4>1. PICK a \in DOMAIN Refs[t] :
              /\ first = Refs[t][a]
              /\ \A j \in DOMAIN Refs[t] : Refs[t][j] \in Undefined(p, t) => a <= j
        BY <2>1, <3>4, MissingIs
      <4>2. PICK b \in DOMAIN Refs[t] : v = Refs[t][b]
        BY DEF Elements
      <4>3. a <= b /\ a \in Nat /\ b \in Nat
        BY <3>4, <4>1, <4>2, <2>1, TaskTyped
      <4>4. ~(a < b)
        BY <2>1, <2>4, <3>4, <4>1 DEF NarrowIsLast
      <4>5. v = first
        <5>1. a = b
          BY <4>3, <4>4
        <5> QED BY <4>1, <4>2, <5>1
      <4>6. DefinedForAll(v, p)
        BY <2>4, <3>4, <4>5
      <4> QED BY <4>6, DefinedForAllIsSeen
    <3> QED BY <3>1, <3>2, <3>3, <3>4 DEF Undefined, Defined
  <2> QED BY <2>3, <2>5 DEF t
<1> QED BY <1>2, <1>3

GreenInv ==
  /\ TypeOK /\ GroupsAreTransitive /\ BoundIsSeen /\ NarrowIsLast
  /\ stage # "done" => outcome = "none"
  /\ outcome = "green" => Sound

LEMMA NextGreen == GreenInv /\ [Next]_vars => GreenInv'
<1> SUFFICES ASSUME GreenInv, [Next]_vars PROVE GreenInv'
  OBVIOUS
<1>1. TypeOK' /\ UNCHANGED <<inv, sites, groups>>
  BY NextTyped, RepoStays DEF GreenInv
<1>2. GroupsAreTransitive'
  BY <1>1 DEF GreenInv, GroupsAreTransitive, MembersOf
<1>3. \A p : HostsOf(p)' = HostsOf(p) /\ Bound(p)' = Bound(p)
  BY <1>1 DEF HostsOf, Bound, NamesBoundByPlay, RoleDefinedNames, InventoryVars, At
<1>4. \A s, p, i, h : Reaches(s, p, i, h)' = Reaches(s, p, i, h)
  BY <1>1, <1>3 DEF Reaches, MembersOf
<1>5. BoundIsSeen'
  BY <1>1, <1>3, <1>4 DEF GreenInv, BoundIsSeen
<1>6. NarrowIsLast'
  BY <1>1 DEF GreenInv, NarrowIsLast, Narrow, At
<1>7. ASSUME UNCHANGED <<module, all>>, Sound PROVE Sound'
  BY <1>1, <1>3, <1>4, <1>7 DEF Sound, Sees
<1>8. (stage' # "done" => outcome' = "none") /\ (outcome' = "green" => Sound')
  <2>1. CASE Green
    BY <2>1, <1>7, NoFailuresIsSound DEF Green, Stop, GreenInv, content
  <2>2. CASE GiveUp \/ Collect \/ EndRound
    BY <2>2 DEF GiveUp, Collect, EndRound, Stop, GreenInv, content
  <2>3. CASE \E f \in todo : Handle(f)
    BY <2>3 DEF Handle, Fill, Declare, Migrate, Decline, Landed, GreenInv
  <2>4. CASE UNCHANGED vars
    BY <2>4, <1>7 DEF vars, GreenInv, content
  <2> QED BY <2>1, <2>2, <2>3, <2>4 DEF Next, Agent, Ended
<1> QED BY <1>1, <1>2, <1>5, <1>6, <1>8 DEF GreenInv

\* Where names bound for a play are there and a narrow one comes last, a loop
\* that ends green ends sound (runner.run, runner._defined_for_all).
THEOREM GreenSound == Spec => (BoundIsSeen /\ NarrowIsLast => []GreenIsSound)
<1>1. Init /\ BoundIsSeen /\ NarrowIsLast => GreenInv
  BY InitTyped, InitTransitive DEF Init, GreenInv
<1>2. GreenInv => GreenIsSound
  BY DEF GreenInv, GreenIsSound, Sound
<1> QED BY <1>1, <1>2, NextGreen, PTL DEF Spec

----------------------------------------------------------------------------
\* What a migration does to a task

Renamed(m) ==
  ~Resolves(m) /\ CollectionOf[m] = NoCollection /\ Replacement[Short[m]] # NoModule

\* The short names by which _diagnose_module looks for users.
Sought == {Short[m] : m \in {n \in Modules : Renamed(n)}}

\* The names a module goes by before and after its migration.
Names(m) ==
  {Short[m]} \cup (IF Short[m] \in Sought THEN {Short[Replacement[Short[m]]]} ELSE {})

\* No migration leads on to another: so it is for every entry of
\* MODULE_REPLACEMENTS.
SuccessorsStay ==
  \A m \in Modules :
    LET r == Replacement[Short[m]]
    IN  Renamed(m) /\ Short[r] \in Sought => Short[Replacement[Short[r]]] = Short[r]

\* A module that resolves does not share its short name with one that is renamed.
CoreIsApart ==
  \A m, n \in Modules : Renamed(m) /\ Short[n] = Short[m] => n \notin Core

\* No playbook holds two tasks that a sought name would find at any time: what
\* SharedArguments shows to be needed.
OneOfAKind ==
  \A l \in Layouts : \A b \in Elements(Playbooks) : \A t, u \in Elements(TasksIn[b]) :
    Names(l.uses[t]) \cap Names(l.uses[u]) \cap Sought # {} => t = u

\* A task goes by a name of the module it was written with, and has its own
\* arguments.
FaithInv ==
  /\ TypeOK
  /\ \A t \in Tasks : args[t] = t
  /\ \E l \in Layouts : \A t \in Tasks : Short[module[t]] \in Names(l.uses[t])

LEMMA SuccessorOf ==
  ASSUME NEW m \in Modules, Renamed(m)
  PROVE  Replacement[Short[m]] \in Modules
<1>1. Short[m] \in Elements(Short)
  BY TaskAssumption DEF Elements
<1> QED BY <1>1, TaskAssumption DEF Renamed

LEMMA NamesFollow ==
  ASSUME SuccessorsStay, NEW m \in Modules, Renamed(m), NEW n \in Modules,
         Short[m] \in Names(n)
  PROVE  Short[Replacement[Short[m]]] \in Names(n)
<1>1. Short[m] \in Sought
  BY DEF Sought
<1>2. CASE Short[n] = Short[m]
  BY <1>1, <1>2 DEF Names
<1>3. CASE Short[n] \in Sought /\ Short[m] = Short[Replacement[Short[n]]]
  <2>1. PICK k \in Modules : Renamed(k) /\ Short[k] = Short[n]
    BY <1>3 DEF Sought
  <2>2. Short[Replacement[Short[m]]] = Short[m]
    BY <1>1, <1>3, <2>1 DEF SuccessorsStay
  <2> QED BY <2>2
<1> QED BY <1>2, <1>3 DEF Names

\* The task whose module is renamed is the only user of it in its playbook.
LEMMA NextFaith ==
  ASSUME SuccessorsStay, CoreIsApart, OneOfAKind, FaithInv, [Next]_vars
  PROVE  /\ FaithInv'
         /\ \A t \in Tasks : /\ module'[t] # module[t] => module[t] \notin Core
                           /\ args'[t] = args[t]
<1>1. TypeOK'
  BY NextTyped DEF FaithInv
<1>2. ASSUME NEW f \in todo, Migrate(f)
      PROVE  /\ FaithInv'
             /\ \A t \in Tasks : /\ module'[t] # module[t] => module[t] \notin Core
                               /\ args'[t] = args[t]
  <2> DEFINE m == f.what
             b == PlaybookUsing(m)
             users == UsersOf(m, b)
             r == Replacement[Short[m]]
  <2>1. m \in Modules /\ Renamed(m) /\ Using(m) # {}
    <3>1. f \in Failure /\ f.type = "removed_module" /\ Migratable(f)
      BY <1>2 DEF FaithInv, TypeOK, Migrate, Migratable
    <3> QED BY <3>1 DEF Failure, Migratable, Renamed
  <2>2. r \in Modules
    BY <2>1, SuccessorOf
  <2>3. /\ module' = [t \in Tasks |-> IF t \in users THEN r ELSE module[t]]
        /\ args' = [t \in Tasks |-> IF t \in users THEN ExistingArgs(m, b) ELSE args[t]]
    BY <1>2 DEF Migrate
  <2> HIDE DEF m
  <2>4. b \in Elements(Playbooks) /\ users # {} /\ TasksIn[b] \in Seq(Tasks)
    BY <2>1, FirstPlaybook DEF Using
  <2> HIDE DEF b, r
  <2>5. \A t \in users : /\ t \in Elements(TasksIn[b]) /\ t \in Tasks
                         /\ Short[module[t]] = Short[m]
    BY <2>4 DEF UsersOf, Elements
  <2>6. PICK l \in Layouts : \A t \in Tasks : Short[module[t]] \in Names(l.uses[t])
    BY DEF FaithInv
  <2>7. Short[m] \in Sought
    BY <2>1 DEF Sought
  <2>8. \A t, u \in users : t = u
    <3> SUFFICES ASSUME NEW t \in users, NEW u \in users
                 PROVE  t = u
      OBVIOUS
    <3>1. Short[m] \in Names(l.uses[t]) \cap Names(l.uses[u]) \cap Sought
      BY <2>5, <2>6, <2>7
    <3> QED BY <2>4, <2>5, <3>1 DEF OneOfAKind
  <2>9. ExistingArgs(m, b) \in users
    <3>1. users \cap Elements(TasksIn[b]) # {}
      BY <2>4, <2>5
    <3> DEFINE S == users
    <3> HIDE DEF S
    <3>2. FirstIn(S, TasksIn[b]) \in S
      BY <2>4, <3>1, FirstInIs DEF S
    <3>3. FirstIn(users, TasksIn[b]) \in users
      BY <3>2 DEF S
    <3> QED BY <2>5, <3>3 DEF ExistingArgs, FaithInv
  <2> HIDE DEF users
  <2>10. \A t \in Tasks : args'[t] = t
    BY <2>3, <2>8, <2>9 DEF FaithInv
  <2>11. \A t \in Tasks : module'[t] # module[t] => module[t] \notin Core
    <3> SUFFICES ASSUME NEW t \in users, t \in Tasks
                 PROVE  module[t] \notin Core
      BY <2>3
    <3>1. module[t] \in Modules
      BY DEF FaithInv, TypeOK
    <3> QED BY <2>1, <2>5, <3>1 DEF CoreIsApart
  <2>12. \A t \in Tasks : Short[module'[t]] \in Names(l.uses[t])
    <3> SUFFICES ASSUME NEW t \in users, t \in Tasks
                 PROVE  Short[r] \in Names(l.uses[t])
      BY <2>3, <2>6
    <3>1. l.uses[t] \in Modules
      BY TaskAssumption
    <3>2. Short[m] \in Names(l.uses[t])
      BY <2>5, <2>6
    <3> QED BY <2>1, <3>1, <3>2, NamesFollow DEF r
  <2> QED BY <1>1, <2>10, <2>11, <2>12 DEF FaithInv
<1>3. CASE UNCHANGED <<module, args>>
  BY <1>1, <1>3 DEF FaithInv
<1>4. (\E f \in todo : Migrate(f)) \/ UNCHANGED <<module, args>>
  BY DEF Next, Agent, Green, GiveUp, Collect, EndRound, Handle, Fill, Declare,
         Decline, Ended, vars, content
<1> QED BY <1>2, <1>3, <1>4

\* Where no playbook holds two tasks that one short name finds, only a module
\* that does not resolve is replaced, and its task keeps its arguments, over any
\* number of rounds (diagnoser._diagnose_module, _existing_args).
THEOREM Faithful ==
  ASSUME SuccessorsStay, CoreIsApart, OneOfAKind
  PROVE  Spec => MigrationsAreFaithful
<1>1. Init => FaithInv
  <2> SUFFICES ASSUME Init PROVE FaithInv
    OBVIOUS
  <2>1. PICK l \in Layouts : module = l.uses
    BY DEF Init
  <2>2. \A t \in Tasks : Short[module[t]] \in Names(l.uses[t])
    BY <2>1 DEF Names
  <2> QED BY <2>2, InitTyped DEF Init, FaithInv
<1>2. FaithInv /\ [Next]_vars => FaithInv'
  BY NextFaith
<1>3. FaithInv /\ [Next]_vars =>
        [\A t \in Tasks :
           /\ module'[t] # module[t] => module[t] \notin Core
           /\ args'[t] = args[t]]_vars
  BY NextFaith
<1> QED BY <1>1, <1>2, <1>3, PTL DEF Spec, MigrationsAreFaithful
============================================================================
