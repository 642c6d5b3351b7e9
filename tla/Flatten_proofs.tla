--------------------------- MODULE Flatten_proofs ---------------------------
(***************************************************************************)
(* Proofs about what Bind does to the sequence of providers before it      *)
(* looks at them: the sort of Reorder.tla, for any chains and types, and   *)
(* the edits of Replace.tla, for any collections and names.                *)
(***************************************************************************)
EXTENDS Reorder, Replace, FiniteSetTheorems, NaturalsInduction, WellFoundedInduction, TLAPS

(* Before the sort runs, nothing is in its data.                           *)
Fresh ==
  /\ nodes = <<>> /\ unblocked = {} /\ unblockedTypes = {} /\ weakBlocked = {} /\ cannotReorder = {}
  /\ released = {} /\ releasedTypes = {} /\ reorderedFuncs = <<>> /\ cannotInclude = {}

(* The graph stays as built; the sort's data are about its nodes.          *)
Graph ==
  /\ Fixed # Places /\ nodes = Nodes
  /\ unblocked \subseteq Places /\ weakBlocked \subseteq Places
  /\ unblockedTypes \subseteq HasNode /\ releasedTypes \subseteq HasNode
  /\ cannotReorder \subseteq Fixed /\ reorderedFuncs \in Seq(Places) /\ cannotInclude = {}
  /\ IsInjective(reorderedFuncs) /\ released \subseteq ToSet(reorderedFuncs)

(* What is in a heap could be placed, and a type in one is available.      *)
Ready ==
  /\ \A i \in unblocked \cup weakBlocked : ~AfterIn(i, released, releasedTypes) /\ Startable(i)
  /\ unblockedTypes \cup releasedTypes \subseteq Available(released)

(* What could be placed is in a heap or has been placed.                   *)
NoneForgotten ==
  /\ \A i \in Places :
       ~AfterIn(i, released, releasedTypes) /\ (nodes[i].after # {} \/ nodes[i].types # {}) =>
         i \in unblocked \cup weakBlocked \/ Placed(i)
  /\ Available(released) \cap HasNode \subseteq unblockedTypes \cup releasedTypes

(* Those not marked Reorder keep their order, and are forced out in it.    *)
FixedInOrder ==
  /\ \A i, j \in Fixed : i < j => /\ Placed(j) => Placed(i)
                                  /\ j \in released => i \in released
                                  /\ ~Before(j, i)
  /\ \A i \in Fixed : i \in cannotReorder \/ Placed(i)

(* Once one of them had to be forced out, nothing more can be released.    *)
Stuck ==
  (\E i \in Places : Placed(i) /\ i \notin released) =>
    /\ unblocked = {} /\ weakBlocked = {} /\ unblockedTypes = {}
    /\ \A i \in Places : Placed(i) /\ i \notin released => i \in Fixed
    /\ \A i \in Fixed : i \in released \/ AfterIn(i, released, releasedTypes)

(* Nothing was released that some order could not release.                 *)
Sound == \A S \in SUBSET Places : Complete(S) => released \subseteq S

Running == Graph /\ Ready /\ NoneForgotten /\ InputsFirst /\ FixedInOrder /\ Stuck /\ Sound

IInv ==
  /\ funcs \in Chains /\ phase \in {"build", "run", "done", "panic"}
  /\ phase \in {"build", "panic"} => Fresh
  /\ phase = "run" => Running
  /\ phase = "done" => TypeOK /\ InputsFirst /\ AllThatCan

-----------------------------------------------------------------------------
(* The least and the greatest of places. *)
LEMMA MinExists ==
  ASSUME NEW S, S \subseteq Nat, S # {}
  PROVE  Min(S) \in S /\ \A x \in S : Min(S) <= x
<1>1. PICK h \in S : \A k \in S : ~(<<k, h>> \in OpToRel(<, Nat))
  BY NatLessThanWellFounded, WFMin
<1>2. ASSUME NEW k \in S PROVE h <= k
  <2>1. ~(<<k, h>> \in OpToRel(<, Nat))
    BY <1>1
  <2>2. ~(k < h)
    BY <2>1 DEF OpToRel
  <2> QED
    BY <2>2
<1> QED
  BY <1>2 DEF Min

LEMMA MaxExists ==
  ASSUME NEW S, NEW b \in Nat, S \subseteq 0 .. b, S # {}
  PROVE  \E m \in S : \A x \in S : x <= m
<1> DEFINE T == {b - x : x \in S}
<1>1. T \subseteq Nat /\ T # {}
  <2>1. \A x \in S : b - x \in Nat
    OBVIOUS
  <2> QED
    BY <2>1
<1>2. Min(T) \in T /\ \A y \in T : Min(T) <= y
  BY <1>1, MinExists
<1>3. PICK m \in S : Min(T) = b - m
  BY <1>2
<1>4. \A x \in S : b - m <= b - x
  BY <1>2, <1>3
<1> QED
  BY <1>4

(* The places of a chain. *)
LEMMA PlacesType ==
  ASSUME funcs \in Chains
  PROVE  /\ Len(funcs) \in Nat /\ Places = 1 .. Len(funcs) /\ Fixed \subseteq Places
         /\ IsFiniteSet(Places) /\ funcs \in Seq(Providers)
         /\ \E i \in Fixed : funcs[i].group = "static"
         /\ \A i \in Fixed : i \in 0 .. Len(funcs) /\ i \in Nat
<1>1. funcs \in Seq(Providers) /\ Len(funcs) > 0 /\ funcs[1].group = "static" /\ ~funcs[1].reorder
  BY ReorderAssumption
<1>2. Len(funcs) \in Nat /\ Places = 1 .. Len(funcs)
  BY <1>1 DEF Places
<1>3. IsFiniteSet(Places)
  BY <1>2, FS_Interval
<1>4. 1 \in Fixed
  BY <1>1, <1>2 DEF Fixed
<1>5. \A i \in Places : i \in 0 .. Len(funcs) /\ i \in Nat
  BY <1>2
<1> QED
  BY <1>1, <1>2, <1>3, <1>4, <1>5 DEF Fixed

(* A provider that is not marked Reorder comes after the one before it.    *)
LEMMA PrevExists ==
  ASSUME funcs \in Chains, NEW i \in Fixed, NEW j \in Fixed, i < j
  PROVE  \E p \in MustFuncs(j) : p \in Fixed /\ i <= p /\ p < j
<1>1. Len(funcs) \in Nat /\ Places = 1 .. Len(funcs) /\ Fixed \subseteq Places
  BY PlacesType
<1> DEFINE S == {k \in Fixed : k < j}
<1>2. S \subseteq 0 .. Len(funcs) /\ i \in S
  BY PlacesType
<1>3. PICK p \in S : \A x \in S : x <= p
  BY <1>1, <1>2, MaxExists
<1>4. p \in MustFuncs(j)
  BY <1>3 DEF MustFuncs, Fixed
<1> QED
  BY <1>2, <1>3, <1>4

(* What is built has its types. *)
LEMMA MustFuncsType ==
  ASSUME funcs \in Chains, NEW i \in Places
  PROVE  MustFuncs(i) \subseteq Places
<1>1. Len(funcs) \in Nat /\ Places = 1 .. Len(funcs) /\ Fixed \subseteq Places
  BY PlacesType
<1>2. LastStatic \in Places
  <2> DEFINE S == {k \in Fixed : funcs[k].group = "static"}
  <2>1. S \subseteq 0 .. Len(funcs) /\ S # {}
    BY PlacesType
  <2>2. \E m \in S : \A x \in S : x <= m
    BY <1>1, <2>1, MaxExists
  <2>3. Max(S) \in S
    BY <2>2 DEF Max
  <2> QED
    BY <1>1, <2>3 DEF LastStatic
<1> QED
  BY <1>1, <1>2 DEF MustFuncs

LEMMA ShouldFuncsType ==
  ASSUME NEW i
  PROVE  ShouldFuncs(i) \subseteq Places
BY DEF ShouldFuncs, Desired, Sources

LEMMA NodesFacts ==
  ASSUME funcs \in Chains, nodes = Nodes
  PROVE  /\ DOMAIN nodes = Places
         /\ \A i \in Places : nodes[i].after = MustFuncs(i) /\ nodes[i].types = MustTypes(i)
         /\ \A i \in Places : nodes[i].after \cup nodes[i].weakAfter \subseteq Places
         /\ \A i \in Places : nodes[i].types \subseteq HasNode
<1>1. /\ DOMAIN nodes = Places
      /\ \A i \in Places : nodes[i] = [after |-> MustFuncs(i), types |-> MustTypes(i), weakAfter |-> ShouldFuncs(i)]
  BY DEF Nodes
<1>2. \A i \in Places : nodes[i].types \subseteq HasNode
  BY <1>1 DEF HasNode
<1> QED
  BY <1>1, <1>2, MustFuncsType, ShouldFuncsType

-----------------------------------------------------------------------------
(* Sequences of places. *)
BeforeIn(s, i, j) == \E m, h \in DOMAIN s : m < h /\ s[m] = i /\ s[h] = j

LEMMA SeqFacts ==
  ASSUME NEW P, NEW s \in Seq(P)
  PROVE  /\ Len(s) \in Nat /\ DOMAIN s = 1 .. Len(s) /\ ToSet(s) \subseteq P
         /\ \A x : x \in ToSet(s) <=> \E h \in DOMAIN s : s[h] = x
BY DEF ToSet

LEMMA AppendFacts ==
  ASSUME NEW P, NEW s \in Seq(P), NEW x \in P, x \notin ToSet(s), IsInjective(s)
  PROVE  /\ Append(s, x) \in Seq(P)
         /\ ToSet(Append(s, x)) = ToSet(s) \cup {x}
         /\ IsInjective(Append(s, x))
         /\ \A i, j : BeforeIn(Append(s, x), i, j) <=> BeforeIn(s, i, j) \/ (j = x /\ i \in ToSet(s))
<1> DEFINE a == Append(s, x)
           l == Len(s)
<1>1. /\ a \in Seq(P) /\ DOMAIN a = 1 .. l + 1 /\ DOMAIN s = 1 .. l /\ l \in Nat
      /\ a[l + 1] = x /\ \A h \in 1 .. l : a[h] = s[h]
  OBVIOUS
<1>2. \A y : y \in ToSet(s) <=> \E h \in 1 .. l : s[h] = y
  BY <1>1 DEF ToSet
<1>3. \A y : y \in ToSet(a) <=> \E h \in 1 .. l + 1 : a[h] = y
  BY <1>1 DEF ToSet
<1> HIDE DEF a, l
<1>4. \A h \in 1 .. l + 1 : h \in 1 .. l \/ h = l + 1
  BY <1>1
<1>5. \A h \in 1 .. l : h \in 1 .. l + 1 /\ h < l + 1 /\ h # l + 1
  BY <1>1
<1>6. l + 1 \in 1 .. l + 1
  BY <1>1
<1>7. ToSet(a) = ToSet(s) \cup {x}
  BY <1>1, <1>2, <1>3, <1>4, <1>5, <1>6
<1>8. IsInjective(a)
  <2> SUFFICES ASSUME NEW m \in 1 .. l + 1, NEW h \in 1 .. l + 1, a[m] = a[h]
               PROVE  m = h
    BY <1>1 DEF IsInjective
  <2> QED
    BY <1>1, <1>2, <1>4 DEF IsInjective
<1>9. ASSUME NEW i, NEW j PROVE BeforeIn(a, i, j) <=> BeforeIn(s, i, j) \/ (j = x /\ i \in ToSet(s))
  <2>1. ASSUME BeforeIn(a, i, j) PROVE BeforeIn(s, i, j) \/ (j = x /\ i \in ToSet(s))
    <3>1. PICK m \in 1 .. l + 1, h \in 1 .. l + 1 : m < h /\ a[m] = i /\ a[h] = j
      BY <1>1, <2>1 DEF BeforeIn
    <3>2. m \in 1 .. l
      BY <1>1, <3>1
    <3>3. CASE h \in 1 .. l
      BY <1>1, <3>1, <3>2, <3>3 DEF BeforeIn
    <3>4. CASE h = l + 1
      BY <1>1, <1>2, <3>1, <3>2, <3>4
    <3> QED
      BY <1>4, <3>3, <3>4
  <2>2. ASSUME BeforeIn(s, i, j) PROVE BeforeIn(a, i, j)
    <3>1. PICK m \in 1 .. l, h \in 1 .. l : m < h /\ s[m] = i /\ s[h] = j
      BY <1>1, <2>2 DEF BeforeIn
    <3> QED
      BY <1>1, <1>5, <3>1 DEF BeforeIn
  <2>3. ASSUME j = x, i \in ToSet(s) PROVE BeforeIn(a, i, j)
    <3>1. PICK m \in 1 .. l : s[m] = i
      BY <1>2, <2>3
    <3> QED
      BY <1>1, <1>5, <1>6, <2>3, <3>1 DEF BeforeIn
  <2> QED
    BY <2>1, <2>2, <2>3
<1> QED
  BY <1>1, <1>7, <1>8, <1>9 DEF a

LEMMA ConcatFacts ==
  ASSUME NEW P, NEW s \in Seq(P), NEW t \in Seq(P), IsInjective(s), IsInjective(t),
         \A x \in ToSet(s) : x \notin ToSet(t)
  PROVE  /\ s \o t \in Seq(P)
         /\ ToSet(s \o t) = ToSet(s) \cup ToSet(t)
         /\ IsInjective(s \o t)
         /\ \A i, j : BeforeIn(s, i, j) => BeforeIn(s \o t, i, j)
         /\ \A i, j : BeforeIn(s \o t, i, j) /\ i \notin ToSet(t) /\ j \notin ToSet(t) => BeforeIn(s, i, j)
<1> DEFINE a == s \o t
           l == Len(s)
           k == Len(t)
<1>1. /\ a \in Seq(P) /\ DOMAIN a = 1 .. l + k /\ DOMAIN s = 1 .. l /\ DOMAIN t = 1 .. k
      /\ l \in Nat /\ k \in Nat
      /\ \A h \in 1 .. l + k : a[h] = IF h <= l THEN s[h] ELSE t[h - l]
  OBVIOUS
<1>2. \A y : y \in ToSet(s) <=> \E h \in 1 .. l : s[h] = y
  BY <1>1 DEF ToSet
<1>3. \A y : y \in ToSet(t) <=> \E h \in 1 .. k : t[h] = y
  BY <1>1 DEF ToSet
<1>4. \A y : y \in ToSet(a) <=> \E h \in 1 .. l + k : a[h] = y
  BY <1>1 DEF ToSet
<1> HIDE DEF a, l, k
<1>5. \A h \in 1 .. l : h \in 1 .. l + k /\ a[h] = s[h]
  BY <1>1
<1>6. \A h \in 1 .. k : l + h \in 1 .. l + k /\ a[l + h] = t[h]
  <2> SUFFICES ASSUME NEW h \in 1 .. k PROVE l + h \in 1 .. l + k /\ a[l + h] = t[h]
    OBVIOUS
  <2>1. l + h \in 1 .. l + k /\ ~(l + h <= l) /\ (l + h) - l = h
    BY <1>1
  <2> QED
    BY <1>1, <2>1
<1>7. ASSUME NEW h \in 1 .. l + k
      PROVE  \/ h \in 1 .. l /\ a[h] = s[h] /\ a[h] \in ToSet(s)
             \/ h - l \in 1 .. k /\ h = l + (h - l) /\ a[h] = t[h - l] /\ a[h] \in ToSet(t)
  <2>1. CASE h <= l
    BY <1>1, <1>2, <2>1
  <2>2. CASE ~(h <= l)
    <3>1. h - l \in 1 .. k /\ h = l + (h - l)
      BY <1>1, <2>2
    <3>2. a[h] = t[h - l]
      BY <1>1, <2>2
    <3> QED
      BY <1>3, <3>1, <3>2
  <2> QED
    BY <2>1, <2>2
<1>8. ToSet(a) = ToSet(s) \cup ToSet(t)
  <2>1. ToSet(a) \subseteq ToSet(s) \cup ToSet(t)
    BY <1>4, <1>7
  <2>2. ToSet(s) \subseteq ToSet(a)
    BY <1>2, <1>4, <1>5
  <2>3. ToSet(t) \subseteq ToSet(a)
    BY <1>3, <1>4, <1>6
  <2> QED
    BY <2>1, <2>2, <2>3
<1>9. IsInjective(a)
  <2> SUFFICES ASSUME NEW m \in 1 .. l + k, NEW h \in 1 .. l + k, a[m] = a[h]
               PROVE  m = h
    BY <1>1 DEF IsInjective
  <2>1. CASE m \in 1 .. l /\ a[m] = s[m] /\ a[m] \in ToSet(s)
    <3>1. h \in 1 .. l /\ a[h] = s[h]
      BY <2>1, <1>7
    <3> QED
      BY <2>1, <3>1, <1>1 DEF IsInjective
  <2>2. CASE m - l \in 1 .. k /\ m = l + (m - l) /\ a[m] = t[m - l] /\ a[m] \in ToSet(t)
    <3>1. h - l \in 1 .. k /\ h = l + (h - l) /\ a[h] = t[h - l]
      BY <2>2, <1>7
    <3>2. m - l = h - l
      BY <2>2, <3>1, <1>1 DEF IsInjective
    <3> QED
      BY <2>2, <3>1, <3>2
  <2> QED
    BY <2>1, <2>2, <1>7
<1>10. ASSUME NEW i, NEW j, BeforeIn(s, i, j) PROVE BeforeIn(a, i, j)
  <2>1. PICK m \in 1 .. l, h \in 1 .. l : m < h /\ s[m] = i /\ s[h] = j
    BY <1>1, <1>10 DEF BeforeIn
  <2> QED
    BY <1>1, <1>5, <2>1 DEF BeforeIn
<1>11. ASSUME NEW i, NEW j, BeforeIn(a, i, j), i \notin ToSet(t), j \notin ToSet(t)
       PROVE  BeforeIn(s, i, j)
  <2>1. PICK m \in 1 .. l + k, h \in 1 .. l + k : m < h /\ a[m] = i /\ a[h] = j
    BY <1>1, <1>11 DEF BeforeIn
  <2>2. m \in 1 .. l /\ a[m] = s[m] /\ h \in 1 .. l /\ a[h] = s[h]
    BY <1>7, <1>11, <2>1
  <2> QED
    BY <1>1, <2>1, <2>2 DEF BeforeIn
<1> QED
  BY <1>1, <1>8, <1>9, <1>10, <1>11 DEF a

(* Ascending puts each place of a set once, and no other.                  *)
LEMMA AscendingFacts ==
  ASSUME NEW S, IsFiniteSet(S), S \subseteq Nat
  PROVE  Ascending(S) \in Seq(S) /\ IsInjective(Ascending(S)) /\ ToSet(Ascending(S)) = S
<1> DEFINE N == Cardinality(S)
           UpTo(i) == {j \in S : j <= i}
           rank == [i \in S |-> Cardinality(UpTo(i))]
<1>1. N \in Nat /\ IsFiniteSet(1 .. N) /\ Cardinality(1 .. N) = N
  BY FS_CardinalityType, FS_Interval
<1>2. \A i \in S : /\ IsFiniteSet(UpTo(i)) /\ UpTo(i) \subseteq S /\ i \in UpTo(i)
                   /\ Cardinality(UpTo(i)) \in 1 .. N
  <2> SUFFICES ASSUME NEW i \in S
               PROVE  /\ IsFiniteSet(UpTo(i)) /\ UpTo(i) \subseteq S /\ i \in UpTo(i)
                      /\ Cardinality(UpTo(i)) \in 1 .. N
    OBVIOUS
  <2>1. UpTo(i) \subseteq S /\ i \in UpTo(i)
    OBVIOUS
  <2>2. IsFiniteSet(UpTo(i)) /\ Cardinality(UpTo(i)) <= N
    BY <2>1, FS_Subset
  <2>3. Cardinality(UpTo(i)) \in Nat /\ Cardinality(UpTo(i)) # 0
    BY <2>1, <2>2, FS_CardinalityType, FS_EmptySet
  <2> QED
    BY <1>1, <2>1, <2>2, <2>3
<1>3. ASSUME NEW i \in S, NEW k \in S, Cardinality(UpTo(i)) = Cardinality(UpTo(k)) PROVE i = k
  <2>1. ASSUME NEW x \in S, NEW y \in S, x <= y, Cardinality(UpTo(x)) = Cardinality(UpTo(y)) PROVE x = y
    <3>1. UpTo(x) \in SUBSET UpTo(y)
      <4>1. \A z \in S : z <= x => z <= y
        BY <2>1
      <4> QED
        BY <4>1
    <3>2. UpTo(x) = UpTo(y)
      BY <1>2, <2>1, <3>1, FS_Subset
    <3>3. y <= x
      BY <3>2
    <3> QED
      BY <2>1, <3>3
  <2>2. i <= k \/ k <= i
    OBVIOUS
  <2> QED
    BY <1>3, <2>1, <2>2
<1> HIDE DEF UpTo, N
<1>4. rank \in Injection(S, 1 .. N)
  BY <1>2, <1>3 DEF Injection, IsInjective
<1>5. rank \in Surjection(S, 1 .. N)
  BY <1>1, <1>4, FS_Injection DEF N
<1>6. \A h \in 1 .. N : \E i \in S : Cardinality(UpTo(i)) = h
  BY <1>5 DEF Surjection
<1>7. Ascending(S) = [h \in 1 .. N |-> CHOOSE i \in S : Cardinality(UpTo(i)) = h]
  BY DEF Ascending, N, UpTo
<1> DEFINE a == Ascending(S)
<1>8. \A h \in 1 .. N : a[h] \in S /\ Cardinality(UpTo(a[h])) = h
  BY <1>6, <1>7
<1>9. DOMAIN a = 1 .. N /\ a \in [1 .. N -> S]
  BY <1>7, <1>8
<1> HIDE DEF a
<1>10. a \in Seq(S)
  BY <1>1, <1>9
<1>11. IsInjective(a)
  BY <1>8, <1>9 DEF IsInjective
<1>12. \A i \in S : a[Cardinality(UpTo(i))] = i
  BY <1>2, <1>3, <1>8
<1>13. ToSet(a) = S
  BY <1>2, <1>8, <1>9, <1>12 DEF ToSet
<1> QED
  BY <1>10, <1>11, <1>13 DEF a

-----------------------------------------------------------------------------
(* The more is released, the less is left to come after.                   *)
LEMMA AfterInShrinks ==
  ASSUME NEW i, NEW R, NEW T, NEW R2, NEW T2, R \subseteq R2, T \subseteq T2, ~AfterIn(i, R, T)
  PROVE  ~AfterIn(i, R2, T2)
BY DEF AfterIn

LEMMA AvailableGrows ==
  ASSUME NEW R, NEW S, R \subseteq S
  PROVE  Available(R) \subseteq Available(S)
BY DEF Available

LEMMA AvailableNext ==
  ASSUME NEW R, NEW i
  PROVE  Available(R \cup {i}) = Available(R) \cup Offers(i)
BY DEF Available

(* As long as the graph stays, so does what is computed from it.           *)
LEMMA GraphSame ==
  ASSUME funcs' = funcs, nodes' = nodes
  PROVE  /\ Places' = Places /\ Fixed' = Fixed /\ HasNode' = HasNode
         /\ InitOffers' = InitOffers /\ Nodes' = Nodes
         /\ \A i : Offers(i)' = Offers(i)
BY DEF Places, Fixed, HasNode, InitOffers, Offers, Releases, Nodes, MustFuncs, MustTypes, ShouldFuncs,
       LastStatic, Wants, Matches, Offering, Consumes, Desired, Sources

LEMMA BeforeIs ==
  ASSUME NEW i, NEW j
  PROVE  Before(i, j) <=> BeforeIn(reorderedFuncs, i, j)
BY DEF Before, BeforeIn

-----------------------------------------------------------------------------
(* A provider is taken from a heap, or forced out.                         *)
Takes(i, release, H, W) ==
  /\ i \in Places /\ release \in BOOLEAN
  /\ H \subseteq unblocked /\ W \subseteq weakBlocked /\ unblocked \cup weakBlocked \subseteq H \cup W \cup {i}
  /\ release => ~AfterIn(i, released, releasedTypes) /\ Startable(i)
  /\ ~release => /\ i \in Fixed /\ AfterIn(i, released, releasedTypes)
                 /\ unblocked = {} /\ weakBlocked = {} /\ unblockedTypes = {}
                 /\ \A j \in Fixed : j < i => Placed(j)
  /\ Process(i, release, H, W)
  /\ UNCHANGED <<funcs, nodes, releasedTypes, cannotInclude>>
  /\ cannotReorder' \subseteq cannotReorder /\ \A j \in cannotReorder : j \in cannotReorder' \/ j = i

Again(i) ==
  /\ Placed(i) /\ UNCHANGED <<released, unblockedTypes, reorderedFuncs>>
  /\ unblocked' \subseteq unblocked /\ weakBlocked' \subseteq weakBlocked
  /\ unblocked \cup weakBlocked \subseteq unblocked' \cup weakBlocked' \cup {i}
PutsLast(i) ==
  /\ ~Placed(i) /\ reorderedFuncs' = Append(reorderedFuncs, i)
PutsAndReleases(i) ==
  /\ PutsLast(i) /\ released' = released \cup {i}
  /\ unblockedTypes' = unblockedTypes \cup (HasNode \cap Offers(i))
  /\ unblocked' \cup weakBlocked' \subseteq unblocked \cup weakBlocked \cup Freed(released \cup {i}, releasedTypes)
  /\ Freed(released \cup {i}, releasedTypes) \subseteq unblocked' \cup weakBlocked'
  /\ unblocked \cup weakBlocked \subseteq unblocked' \cup weakBlocked' \cup {i}
PutsOnly(i) ==
  /\ PutsLast(i) /\ UNCHANGED <<released, unblockedTypes>>
  /\ unblocked' = {} /\ weakBlocked' = {}

LEMMA TakesEffect ==
  ASSUME NEW i, NEW release, NEW H, NEW W, Takes(i, release, H, W)
  PROVE  Again(i) \/ (release /\ PutsAndReleases(i)) \/ (~release /\ PutsOnly(i))
<1>1. CASE Placed(i)
  BY <1>1 DEF Takes, Process, Again
<1>2. CASE ~Placed(i) /\ release
  <2>1. PutsLast(i) /\ Release(i, H, W)
    BY <1>2 DEF Takes, Process, PutsLast
  <2> DEFINE freed == Freed(released \cup {i}, releasedTypes)
             weak == {h \in freed : WeakAfterIn(h, released \cup {i})}
  <2>2. /\ released' = released \cup {i}
        /\ unblocked' = H \cup (freed \ weak) /\ weakBlocked' = W \cup weak
        /\ unblockedTypes' = unblockedTypes \cup (HasNode \cap Offers(i))
    BY <2>1 DEF Release
  <2>3. weak \subseteq freed
    OBVIOUS
  <2> HIDE DEF freed, weak
  <2>4. PutsAndReleases(i)
    BY <2>1, <2>2, <2>3 DEF Takes, PutsAndReleases, freed
  <2> QED
    BY <1>2, <2>4
<1>3. CASE ~Placed(i) /\ ~release
  BY <1>3 DEF Takes, Process, PutsLast, PutsOnly
<1> QED
  BY <1>1, <1>2, <1>3 DEF Takes

(* Who comes after a provider that may be released has it released.        *)
LEMMA FixedBelow ==
  ASSUME funcs \in Chains, Running, NEW i \in Fixed, ~AfterIn(i, released, releasedTypes),
         NEW j \in Fixed, j < i
  PROVE  j \in released /\ Placed(j)
<1>1. PICK p \in MustFuncs(i) : p \in Fixed /\ j <= p /\ p < i
  BY PrevExists
<1>2. i \in Places /\ j \in Nat /\ p \in Nat
  BY <1>1, PlacesType
<1>3. p \in released
  BY <1>1, <1>2, NodesFacts DEF AfterIn, Running, Graph
<1>4. j \in released
  <2>1. CASE j = p
    BY <1>3, <2>1
  <2>2. CASE j < p
    BY <1>1, <1>3, <2>2 DEF Running, FixedInOrder
  <2> QED
    BY <1>1, <1>2, <2>1, <2>2
<1> QED
  BY <1>4 DEF Running, Graph, Placed

(* Placing one more, in a list that has each of them once. *)
LEMMA PlacesFacts ==
  ASSUME funcs \in Chains, Running, NEW i \in Places, PutsLast(i)
  PROVE  /\ reorderedFuncs' \in Seq(Places) /\ IsInjective(reorderedFuncs')
         /\ ToSet(reorderedFuncs') = ToSet(reorderedFuncs) \cup {i}
         /\ \A j : Placed(j)' <=> Placed(j) \/ j = i
         /\ \A j, k : Before(j, k)' <=> Before(j, k) \/ (k = i /\ Placed(j))
<1>1. reorderedFuncs \in Seq(Places) /\ i \notin ToSet(reorderedFuncs) /\ IsInjective(reorderedFuncs)
  BY DEF Running, Graph, PutsLast, Placed
<1>2. PICK s : s = Append(reorderedFuncs, i)
  OBVIOUS
<1>3. /\ s \in Seq(Places) /\ ToSet(s) = ToSet(reorderedFuncs) \cup {i} /\ IsInjective(s)
      /\ \A j, k : BeforeIn(s, j, k) <=> BeforeIn(reorderedFuncs, j, k) \/ (k = i /\ j \in ToSet(reorderedFuncs))
  BY <1>1, <1>2, AppendFacts
<1>4. reorderedFuncs' = s
  BY <1>2 DEF PutsLast
<1>5. \A j, k : Before(j, k)' <=> BeforeIn(s, j, k)
  BY <1>4 DEF Before, BeforeIn
<1>6. \A j, k : Before(j, k) <=> BeforeIn(reorderedFuncs, j, k)
  BY BeforeIs
<1> QED
  BY <1>3, <1>4, <1>5, <1>6 DEF Placed

-----------------------------------------------------------------------------
(* What a step that takes a provider leaves behind, part by part. *)
LEMMA TakesGraph ==
  ASSUME funcs \in Chains, Running, NEW i, NEW release, NEW H, NEW W, Takes(i, release, H, W)
  PROVE  Graph'
<1>1. /\ funcs' = funcs /\ nodes' = nodes /\ releasedTypes' = releasedTypes /\ cannotInclude' = cannotInclude
      /\ cannotReorder' \subseteq cannotReorder /\ i \in Places
  BY DEF Takes
<1>2. /\ Places' = Places /\ Fixed' = Fixed /\ HasNode' = HasNode /\ Nodes' = Nodes
  BY <1>1, GraphSame
<1>3. unblocked' \subseteq Places /\ weakBlocked' \subseteq Places /\ unblockedTypes' \subseteq HasNode
  <2>1. Freed(released \cup {i}, releasedTypes) \subseteq Places
    BY DEF Freed
  <2> QED
    BY <2>1, TakesEffect DEF Again, PutsAndReleases, PutsOnly, Running, Graph
<1>4. /\ reorderedFuncs' \in Seq(Places) /\ IsInjective(reorderedFuncs')
      /\ released' \subseteq ToSet(reorderedFuncs')
  <2>1. CASE Again(i)
    BY <2>1 DEF Again, Running, Graph
  <2>2. CASE PutsLast(i) /\ released' \subseteq released \cup {i}
    BY <1>1, <2>2, PlacesFacts DEF Running, Graph
  <2> QED
    BY <2>1, <2>2, TakesEffect DEF PutsAndReleases, PutsOnly
<1> QED
  BY <1>1, <1>2, <1>3, <1>4 DEF Graph, Running

LEMMA TakesReady ==
  ASSUME funcs \in Chains, Running, NEW i, NEW release, NEW H, NEW W, Takes(i, release, H, W)
  PROVE  Ready' /\ NoneForgotten'
<1>1. funcs' = funcs /\ nodes' = nodes /\ releasedTypes' = releasedTypes /\ i \in Places
  BY DEF Takes
<1>2. /\ Places' = Places /\ HasNode' = HasNode
      /\ \A R, T, j : AfterIn(j, R, T)' <=> AfterIn(j, R, T)
      /\ \A j : Startable(j)' <=> Startable(j)
      /\ \A R : Available(R)' = Available(R)
  BY <1>1, GraphSame DEF AfterIn, Startable, Available
<1> DEFINE R1 == released \cup {i}
           freed == Freed(R1, releasedTypes)
<1>3. /\ \A j \in freed : j \in Places /\ AfterIn(j, released, releasedTypes) /\ ~AfterIn(j, R1, releasedTypes)
      /\ \A j \in Places : AfterIn(j, released, releasedTypes) /\ ~AfterIn(j, R1, releasedTypes) => j \in freed
  BY DEF Freed
<1>4. \A j \in freed : Startable(j)
  BY <1>3 DEF AfterIn, Startable
<1>5. /\ \A j \in unblocked \cup weakBlocked : ~AfterIn(j, released, releasedTypes) /\ Startable(j)
      /\ unblockedTypes \cup releasedTypes \subseteq Available(released)
      /\ \A j \in Places :
           ~AfterIn(j, released, releasedTypes) /\ (nodes[j].after # {} \/ nodes[j].types # {}) =>
             j \in unblocked \cup weakBlocked \/ Placed(j)
      /\ Available(released) \cap HasNode \subseteq unblockedTypes \cup releasedTypes
  BY DEF Running, Ready, NoneForgotten
<1> HIDE DEF freed
<1>6. ASSUME released' = released, unblockedTypes' = unblockedTypes,
             unblocked' \cup weakBlocked' \subseteq unblocked \cup weakBlocked,
             unblocked \cup weakBlocked \subseteq unblocked' \cup weakBlocked' \cup {i},
             \A j \in Places : Placed(j) \/ j = i => Placed(j)'
      PROVE  Ready' /\ NoneForgotten'
  <2>1. Ready'
    BY <1>1, <1>2, <1>5, <1>6 DEF Ready
  <2>2. NoneForgotten'
    BY <1>1, <1>2, <1>5, <1>6 DEF NoneForgotten
  <2> QED
    BY <2>1, <2>2
<1>7. CASE Again(i)
  BY <1>6, <1>7 DEF Again, Placed
<1>8. CASE ~release /\ PutsOnly(i)
  BY <1>1, <1>6, <1>8, PlacesFacts DEF PutsOnly, Takes
<1>9. CASE PutsAndReleases(i)
  <2>1. /\ released' = R1 /\ unblockedTypes' = unblockedTypes \cup (HasNode \cap Offers(i))
        /\ unblocked' \cup weakBlocked' \subseteq unblocked \cup weakBlocked \cup freed
        /\ freed \subseteq unblocked' \cup weakBlocked'
        /\ unblocked \cup weakBlocked \subseteq unblocked' \cup weakBlocked' \cup {i}
        /\ \A j \in Places : Placed(j) \/ j = i => Placed(j)'
    BY <1>1, <1>9, PlacesFacts DEF PutsAndReleases, freed
  <2>2. Available(R1) = Available(released) \cup Offers(i)
    BY AvailableNext
  <2>3. \A j : ~AfterIn(j, released, releasedTypes) => ~AfterIn(j, R1, releasedTypes)
    BY AfterInShrinks
  <2> HIDE DEF R1
  <2>4. \A j \in unblocked' \cup weakBlocked' : ~AfterIn(j, R1, releasedTypes) /\ Startable(j)
    BY <1>3, <1>4, <1>5, <2>1, <2>3
  <2>5. Ready'
    BY <1>1, <1>2, <1>5, <2>1, <2>2, <2>4 DEF Ready
  <2>6. ASSUME NEW j \in Places, ~AfterIn(j, R1, releasedTypes), nodes[j].after # {} \/ nodes[j].types # {}
        PROVE  j \in unblocked' \cup weakBlocked' \/ Placed(j)'
    <3>1. CASE AfterIn(j, released, releasedTypes)
      BY <1>3, <2>1, <2>6, <3>1
    <3>2. CASE ~AfterIn(j, released, releasedTypes)
      BY <1>5, <2>1, <2>6, <3>2
    <3> QED
      BY <3>1, <3>2
  <2>7. NoneForgotten'
    BY <1>1, <1>2, <1>5, <2>1, <2>2, <2>6 DEF NoneForgotten
  <2> QED
    BY <2>5, <2>7
<1> QED
  BY <1>7, <1>8, <1>9, TakesEffect

LEMMA TakesInputsFirst ==
  ASSUME funcs \in Chains, Running, NEW i, NEW release, NEW H, NEW W, Takes(i, release, H, W)
  PROVE  InputsFirst'
<1>1. funcs' = funcs /\ nodes' = nodes /\ releasedTypes' = releasedTypes /\ i \in Places
  BY DEF Takes
<1>2. InitOffers' = InitOffers /\ \A j : Offers(j)' = Offers(j)
  BY <1>1, GraphSame
<1>3. \A k \in released : /\ \A j \in nodes[k].after : j \in released /\ Before(j, k)
                          /\ \A h \in nodes[k].types : (\E j \in released : h \in Offers(j) /\ Before(j, k))
                                                         \/ h \in InitOffers
  BY DEF Running, InputsFirst
<1>4. ASSUME released' = released, \A j, k : Before(j, k) => Before(j, k)'
      PROVE  InputsFirst'
  BY <1>1, <1>2, <1>3, <1>4 DEF InputsFirst
<1>5. CASE Again(i)
  BY <1>4, <1>5 DEF Again, Before
<1>6. CASE PutsOnly(i)
  BY <1>1, <1>4, <1>6, PlacesFacts DEF PutsOnly
<1>7. CASE release /\ PutsAndReleases(i)
  <2>1. released' = released \cup {i} /\ \A j, k : Before(j, k)' <=> Before(j, k) \/ (k = i /\ Placed(j))
    BY <1>1, <1>7, PlacesFacts DEF PutsAndReleases
  <2>2. \A j \in released : Placed(j)
    BY DEF Running, Graph, Placed
  <2>3. ~AfterIn(i, released, releasedTypes)
    BY <1>7 DEF Takes
  <2>4. \A j \in nodes[i].after : j \in released' /\ Before(j, i)'
    BY <2>1, <2>2, <2>3 DEF AfterIn
  <2>5. ASSUME NEW h \in nodes[i].types
        PROVE  (\E j \in released' : h \in Offers(j) /\ Before(j, i)') \/ h \in InitOffers
    <3>1. h \in Available(released)
      BY <2>3 DEF AfterIn, Running, Ready
    <3> QED
      BY <2>1, <2>2, <3>1 DEF Available
  <2>6. \A k \in released : /\ \A j \in nodes[k].after : j \in released' /\ Before(j, k)'
                            /\ \A h \in nodes[k].types : (\E j \in released' : h \in Offers(j) /\ Before(j, k)')
                                                           \/ h \in InitOffers
    BY <1>3, <2>1
  <2> QED
    BY <1>1, <1>2, <2>1, <2>4, <2>5, <2>6 DEF InputsFirst
<1> QED
  BY <1>5, <1>6, <1>7, TakesEffect

LEMMA TakesFixed ==
  ASSUME funcs \in Chains, Running, NEW i, NEW release, NEW H, NEW W, Takes(i, release, H, W)
  PROVE  FixedInOrder'
<1>1. /\ funcs' = funcs /\ nodes' = nodes /\ i \in Places
      /\ \A j \in cannotReorder : j \in cannotReorder' \/ j = i
  BY DEF Takes
<1>2. Fixed' = Fixed
  BY <1>1, GraphSame
<1>3. /\ \A k, j \in Fixed : k < j => /\ Placed(j) => Placed(k)
                                      /\ j \in released => k \in released
                                      /\ ~Before(j, k)
      /\ \A k \in Fixed : k \in cannotReorder \/ Placed(k)
  BY DEF Running, FixedInOrder
<1>4. CASE Again(i)
  <2>1. \A j, k : (Placed(j)' <=> Placed(j)) /\ (Before(j, k)' <=> Before(j, k))
    BY <1>4 DEF Again, Placed, Before
  <2> QED
    BY <1>1, <1>2, <1>3, <1>4, <2>1 DEF Again, FixedInOrder
<1>5. ASSUME PutsLast(i), released' = released \/ released' = released \cup {i},
             \A j \in Fixed : i \in Fixed /\ j < i => Placed(j),
             \A j \in Fixed : i \in Fixed /\ i \in released' /\ j < i => j \in released
      PROVE  FixedInOrder'
  <2>1. /\ \A j : Placed(j)' <=> Placed(j) \/ j = i
        /\ \A j, k : Before(j, k)' <=> Before(j, k) \/ (k = i /\ Placed(j))
        /\ ~Placed(i)
    BY <1>1, <1>5, PlacesFacts DEF PutsLast
  <2>2. ASSUME NEW k \in Fixed, NEW j \in Fixed, k < j
        PROVE  /\ Placed(j)' => Placed(k)'
               /\ j \in released' => k \in released'
               /\ ~Before(j, k)'
    <3>1. Placed(j)' => Placed(k)'
      BY <1>3, <1>5, <2>1, <2>2
    <3>2. j \in released' => k \in released'
      <4>1. CASE j = i
        BY <1>5, <2>2, <4>1
      <4>2. CASE j # i
        BY <1>3, <1>5, <2>2, <4>2
      <4> QED
        BY <4>1, <4>2
    <3>3. ~(k = i /\ Placed(j))
      BY <1>3, <2>1, <2>2
    <3> QED
      BY <1>3, <2>1, <2>2, <3>1, <3>2, <3>3
  <2>3. \A k \in Fixed : k \in cannotReorder' \/ Placed(k)'
    BY <1>1, <1>3, <2>1
  <2> QED
    BY <1>2, <2>2, <2>3 DEF FixedInOrder
<1>6. CASE release /\ PutsAndReleases(i)
  <2>1. \A j \in Fixed : i \in Fixed /\ j < i => Placed(j) /\ j \in released
    BY <1>6, FixedBelow DEF Takes
  <2> QED
    BY <1>5, <1>6, <2>1 DEF PutsAndReleases
<1>7. CASE ~release /\ PutsOnly(i)
  <2>1. i \notin released
    BY <1>7 DEF PutsOnly, PutsLast, Running, Graph, Placed
  <2> QED
    BY <1>5, <1>7, <2>1 DEF PutsOnly, Takes
<1> QED
  BY <1>4, <1>6, <1>7, TakesEffect

LEMMA TakesStuck ==
  ASSUME funcs \in Chains, Running, NEW i, NEW release, NEW H, NEW W, Takes(i, release, H, W)
  PROVE  Stuck'
<1>1. funcs' = funcs /\ nodes' = nodes /\ releasedTypes' = releasedTypes /\ i \in Places
  BY DEF Takes
<1>2. Places' = Places /\ Fixed' = Fixed /\ \A j, R, T : AfterIn(j, R, T)' <=> AfterIn(j, R, T)
  BY <1>1, GraphSame DEF AfterIn
<1>3. (\E j \in Places : Placed(j) /\ j \notin released) =>
        /\ unblocked = {} /\ weakBlocked = {} /\ unblockedTypes = {}
        /\ \A j \in Places : Placed(j) /\ j \notin released => j \in Fixed
        /\ \A j \in Fixed : j \in released \/ AfterIn(j, released, releasedTypes)
  BY DEF Running, Stuck
<1>4. \A j \in released : Placed(j)
  BY DEF Running, Graph, Placed
<1>5. CASE Again(i)
  <2>1. \A j : Placed(j)' <=> Placed(j)
    BY <1>5 DEF Again, Placed
  <2> QED
    BY <1>1, <1>2, <1>3, <1>5, <2>1 DEF Again, Stuck
<1>6. CASE release /\ PutsAndReleases(i)
  <2>1. released' = released \cup {i} /\ ~Placed(i) /\ \A j : Placed(j)' <=> Placed(j) \/ j = i
    BY <1>1, <1>6, PlacesFacts DEF PutsAndReleases, PutsLast
  <2>2. ~AfterIn(i, released, releasedTypes) /\ Startable(i)
    BY <1>6 DEF Takes
  <2>3. i \in Fixed \/ i \in unblocked \cup weakBlocked
    BY <1>1, <2>1, <2>2 DEF Running, NoneForgotten, Startable
  <2>4. ~\E j \in Places : Placed(j) /\ j \notin released
    BY <1>3, <1>4, <2>1, <2>2, <2>3
  <2> QED
    BY <1>2, <2>1, <2>4 DEF Stuck
<1>7. CASE ~release /\ PutsOnly(i)
  <2>1. /\ released' = released /\ ~Placed(i) /\ \A j : Placed(j)' <=> Placed(j) \/ j = i
        /\ unblocked' = {} /\ weakBlocked' = {} /\ unblockedTypes' = unblockedTypes
    BY <1>1, <1>7, PlacesFacts DEF PutsOnly, PutsLast
  <2>2. /\ i \in Fixed /\ AfterIn(i, released, releasedTypes) /\ unblockedTypes = {}
        /\ \A j \in Fixed : j < i => Placed(j)
    BY <1>7 DEF Takes
  <2>3. \A j \in Places : Placed(j)' /\ j \notin released => j \in Fixed
    BY <1>3, <2>1, <2>2
  <2>4. ASSUME NEW k \in Fixed, k \notin released, ~AfterIn(k, released, releasedTypes)
        PROVE  FALSE
    <3>1. k # i
      BY <2>2, <2>4
    <3>2. ~(i < k)
      BY <2>1, <2>2, <2>4, FixedBelow
    <3>3. k < i
      BY <2>2, <3>1, <3>2, PlacesType
    <3>4. k \in Places /\ Placed(k)
      BY <2>2, <3>3, PlacesType
    <3> QED
      BY <1>3, <2>4, <3>4
  <2> QED
    BY <1>1, <1>2, <2>1, <2>2, <2>3, <2>4 DEF Stuck
<1> QED
  BY <1>5, <1>6, <1>7, TakesEffect

LEMMA TakesSound ==
  ASSUME funcs \in Chains, Running, NEW i, NEW release, NEW H, NEW W, Takes(i, release, H, W)
  PROVE  Sound'
<1>1. funcs' = funcs /\ nodes' = nodes /\ i \in Places
  BY DEF Takes
<1>2. Places' = Places /\ Fixed' = Fixed /\ InitOffers' = InitOffers /\ \A j : Offers(j)' = Offers(j)
  BY <1>1, GraphSame
<1>3. \A S : Complete(S)' <=> Complete(S)
  BY <1>1, <1>2 DEF Complete, Available, AfterIn, Startable
<1>4. \A S \in SUBSET Places : Complete(S) => released \subseteq S
  BY DEF Running, Sound
<1>5. CASE released' = released
  BY <1>2, <1>3, <1>4, <1>5 DEF Sound
<1>6. CASE release /\ PutsAndReleases(i)
  <2>1. ~AfterIn(i, released, releasedTypes) /\ Startable(i) /\ releasedTypes \subseteq Available(released)
    BY <1>6 DEF Takes, Running, Ready
  <2>2. ASSUME NEW S \in SUBSET Places, Complete(S) PROVE i \in S
    <3>1. released \subseteq S /\ Available(released) \subseteq Available(S)
      BY <1>4, <2>2, AvailableGrows
    <3>2. ~AfterIn(i, S, Available(S))
      BY <2>1, <3>1, AfterInShrinks
    <3> QED
      BY <1>1, <2>1, <2>2, <3>2 DEF Complete
  <2> QED
    BY <1>2, <1>3, <1>4, <1>6, <2>2 DEF Sound, PutsAndReleases
<1> QED
  BY <1>5, <1>6, TakesEffect DEF Again, PutsOnly

LEMMA TakesRunning ==
  ASSUME funcs \in Chains, Running, NEW i, NEW release, NEW H, NEW W, Takes(i, release, H, W)
  PROVE  Running'
BY TakesGraph, TakesReady, TakesInputsFirst, TakesFixed, TakesStuck, TakesSound DEF Running

-----------------------------------------------------------------------------
(* What each step takes. *)
LEMMA FirstIn ==
  ASSUME funcs \in Chains, NEW S, S \subseteq Places, S # {}
  PROVE  First(S) \in S
<1>1. S \subseteq Nat /\ S \ Fixed \subseteq Nat
  BY PlacesType
<1>2. CASE S \ Fixed # {}
  BY <1>1, <1>2, MinExists DEF First
<1>3. CASE S \ Fixed = {}
  BY <1>1, <1>3, MinExists DEF First
<1> QED
  BY <1>2, <1>3

LEMMA PopUnblockedTakes ==
  ASSUME funcs \in Chains, Running, PopUnblocked
  PROVE  \E i, release, H, W : Takes(i, release, H, W)
<1>1. PICK i : i = First(unblocked)
  OBVIOUS
<1>2. i \in unblocked /\ i \in Places
  BY <1>1, FirstIn DEF PopUnblocked, Running, Graph
<1>3. ~AfterIn(i, released, releasedTypes) /\ Startable(i)
  BY <1>2 DEF Running, Ready
<1>4. Process(i, TRUE, unblocked \ {i}, weakBlocked)
  BY <1>1 DEF PopUnblocked
<1>5. Takes(i, TRUE, unblocked \ {i}, weakBlocked)
  BY <1>2, <1>3, <1>4 DEF Takes, PopUnblocked
<1> QED
  BY <1>5

LEMMA PopWeakBlockedTakes ==
  ASSUME funcs \in Chains, Running, PopWeakBlocked
  PROVE  \E i, release, H, W : Takes(i, release, H, W)
<1>1. PICK i : i = First(weakBlocked)
  OBVIOUS
<1>2. i \in weakBlocked /\ i \in Places
  BY <1>1, FirstIn DEF PopWeakBlocked, Running, Graph
<1>3. ~AfterIn(i, released, releasedTypes) /\ Startable(i)
  BY <1>2 DEF Running, Ready
<1>4. Process(i, TRUE, unblocked, weakBlocked \ {i})
  BY <1>1 DEF PopWeakBlocked
<1>5. Takes(i, TRUE, unblocked, weakBlocked \ {i})
  BY <1>2, <1>3, <1>4 DEF Takes, PopWeakBlocked
<1> QED
  BY <1>5

LEMMA ForceTakes ==
  ASSUME funcs \in Chains, Running, ForceOut
  PROVE  \E i, release, H, W : Takes(i, release, H, W)
<1>1. PICK i : i = Min(cannotReorder)
  OBVIOUS
<1>2. PICK release \in BOOLEAN : release <=> ~AfterIn(i, released, releasedTypes)
  OBVIOUS
<1>3. cannotReorder \subseteq Nat /\ cannotReorder \subseteq Fixed /\ cannotReorder # {}
  BY PlacesType DEF Running, Graph, ForceOut
<1>4. i \in Fixed /\ i \in Places /\ \A j \in cannotReorder : i <= j
  BY <1>1, <1>3, MinExists, PlacesType
<1>5. \A j \in Fixed : j < i => Placed(j)
  <2> SUFFICES ASSUME NEW j \in Fixed, j < i PROVE Placed(j)
    OBVIOUS
  <2>1. i \in Nat /\ j \in Nat
    BY <1>4, PlacesType
  <2>2. j \notin cannotReorder
    BY <1>4, <2>1
  <2> QED
    BY <2>2 DEF Running, FixedInOrder
<1>6. /\ Process(i, release, unblocked, weakBlocked) /\ cannotReorder' = cannotReorder \ {i}
      /\ unblocked = {} /\ weakBlocked = {} /\ unblockedTypes = {}
      /\ UNCHANGED <<funcs, nodes, releasedTypes, cannotInclude>>
  <2>1. release = ~AfterIn(i, released, releasedTypes)
    BY <1>2 DEF AfterIn
  <2> QED
    BY <1>1, <2>1 DEF ForceOut
<1>7. Startable(i)
  BY <1>4 DEF Startable
<1>8. Takes(i, release, unblocked, weakBlocked)
  BY <1>2, <1>4, <1>5, <1>6, <1>7 DEF Takes
<1> QED
  BY <1>8

(* A type becomes available. *)
LEMMA PopTypeRunning ==
  ASSUME funcs \in Chains, Running, NEW h, PopType(h)
  PROVE  Running'
<1>1. /\ funcs' = funcs /\ nodes' = nodes /\ released' = released /\ reorderedFuncs' = reorderedFuncs
      /\ cannotReorder' = cannotReorder /\ cannotInclude' = cannotInclude
      /\ unblocked = {} /\ h \in unblockedTypes
      /\ unblockedTypes' = unblockedTypes \ {h} /\ releasedTypes' = releasedTypes \cup {h}
  BY DEF PopType
<1>2. /\ Places' = Places /\ Fixed' = Fixed /\ HasNode' = HasNode /\ InitOffers' = InitOffers /\ Nodes' = Nodes
      /\ \A j : Offers(j)' = Offers(j)
  BY <1>1, GraphSame
<1>3. /\ \A j, R, T : AfterIn(j, R, T)' <=> AfterIn(j, R, T)
      /\ \A j : Startable(j)' <=> Startable(j)
      /\ \A R : Available(R)' = Available(R)
      /\ \A j : Placed(j)' <=> Placed(j)
      /\ \A j, k : Before(j, k)' <=> Before(j, k)
  BY <1>1, <1>2 DEF AfterIn, Startable, Available, Placed, Before
<1> DEFINE freed == Freed(released, releasedTypes \cup {h})
           weak == {i \in freed : WeakAfterIn(i, released)}
<1>4. unblocked' = freed \ weak /\ weakBlocked' = weakBlocked \cup weak
  BY DEF PopType
<1>5. unblocked' \cup weakBlocked' = weakBlocked \cup freed
  BY <1>4
<1>6. /\ \A j \in freed : j \in Places /\ AfterIn(j, released, releasedTypes) /\ ~AfterIn(j, released, releasedTypes')
      /\ \A j \in Places : AfterIn(j, released, releasedTypes) /\ ~AfterIn(j, released, releasedTypes') => j \in freed
  BY <1>1 DEF Freed
<1>7. \A j \in freed : Startable(j)
  BY <1>6 DEF AfterIn, Startable
<1> HIDE DEF freed, weak
<1>8. \A j : ~AfterIn(j, released, releasedTypes) => ~AfterIn(j, released, releasedTypes')
  BY <1>1, AfterInShrinks
<1>9. Graph'
  <2>1. unblocked' \subseteq Places /\ weakBlocked' \subseteq Places
    BY <1>5, <1>6 DEF Running, Graph
  <2> QED
    BY <1>1, <1>2, <2>1 DEF Running, Graph
<1>10. Ready'
  <2>1. \A j \in unblocked' \cup weakBlocked' : ~AfterIn(j, released, releasedTypes') /\ Startable(j)
    BY <1>5, <1>6, <1>7, <1>8 DEF Running, Ready
  <2>2. unblockedTypes' \cup releasedTypes' \subseteq Available(released)
    BY <1>1 DEF Running, Ready
  <2> QED
    BY <1>1, <1>3, <2>1, <2>2 DEF Ready
<1>11. NoneForgotten'
  <2>1. ASSUME NEW j \in Places, ~AfterIn(j, released, releasedTypes'), nodes[j].after # {} \/ nodes[j].types # {}
        PROVE  j \in unblocked' \cup weakBlocked' \/ Placed(j)
    <3>1. CASE AfterIn(j, released, releasedTypes)
      BY <1>5, <1>6, <2>1, <3>1
    <3>2. CASE ~AfterIn(j, released, releasedTypes)
      BY <1>1, <1>5, <2>1, <3>2 DEF Running, NoneForgotten
    <3> QED
      BY <3>1, <3>2
  <2>2. Available(released) \cap HasNode \subseteq unblockedTypes' \cup releasedTypes'
    BY <1>1 DEF Running, NoneForgotten
  <2> QED
    BY <1>1, <1>2, <1>3, <2>1, <2>2 DEF NoneForgotten
<1>12. InputsFirst'
  BY <1>1, <1>2, <1>3 DEF Running, InputsFirst
<1>13. FixedInOrder'
  BY <1>1, <1>2, <1>3 DEF Running, FixedInOrder
<1>14. Stuck'
  BY <1>1, <1>2, <1>3 DEF Running, Stuck
<1>15. Sound'
  <2>1. \A S : Complete(S)' <=> Complete(S)
    BY <1>2, <1>3 DEF Complete
  <2> QED
    BY <1>1, <1>2, <2>1 DEF Running, Sound
<1> QED
  BY <1>9, <1>10, <1>11, <1>12, <1>13, <1>14, <1>15 DEF Running

(* When the graph has been built, nothing has been placed. *)
LEMMA NothingPlaced ==
  ASSUME reorderedFuncs = <<>>
  PROVE  /\ IsInjective(reorderedFuncs) /\ ToSet(reorderedFuncs) = {} /\ \A S : reorderedFuncs \in Seq(S)
         /\ \A i : ~Placed(i)
         /\ \A i, j : ~Before(i, j)
<1>1. DOMAIN reorderedFuncs = {} /\ \A S : reorderedFuncs \in Seq(S)
  OBVIOUS
<1> QED
  BY <1>1 DEF IsInjective, ToSet, Placed, Before

LEMMA FuncsSame ==
  ASSUME funcs' = funcs
  PROVE  Places' = Places /\ Fixed' = Fixed /\ InitOffers' = InitOffers /\ Nodes' = Nodes
BY DEF Places, Fixed, InitOffers, Releases, Nodes, MustFuncs, MustTypes, ShouldFuncs,
       LastStatic, Wants, Matches, Offering, Consumes, Desired, Sources

LEMMA BuildRunning ==
  ASSUME funcs \in Chains, Fresh, Build
  PROVE  Running'
<1>1. /\ funcs' = funcs /\ nodes' = Nodes /\ unblocked' = {} /\ weakBlocked' = {} /\ Fixed # Places
      /\ released' = {} /\ releasedTypes' = {} /\ reorderedFuncs' = <<>> /\ cannotInclude' = {}
      /\ cannotReorder' = Fixed /\ unblockedTypes' = HasNode' \cap InitOffers
  BY DEF Build, Fresh
<1>2. Places' = Places /\ Fixed' = Fixed /\ InitOffers' = InitOffers /\ Nodes' = Nodes
  BY <1>1, FuncsSame
<1>3. /\ IsInjective(reorderedFuncs)' /\ ToSet(reorderedFuncs)' = {} /\ reorderedFuncs' \in Seq(Places)
      /\ \A i : ~Placed(i)'
      /\ \A i, j : ~Before(i, j)'
  <2>1. DOMAIN reorderedFuncs' = {} /\ reorderedFuncs' \in Seq(Places)
    BY <1>1
  <2> QED
    BY <2>1 DEF IsInjective, ToSet, Placed, Before
<1>4. Available(released)' = InitOffers
  BY <1>1, <1>2 DEF Available
<1>5. Graph'
  BY <1>1, <1>2, <1>3 DEF Graph, Fixed
<1>6. Ready'
  BY <1>1, <1>4 DEF Ready
<1>7. NoneForgotten'
  BY <1>1, <1>4 DEF NoneForgotten, AfterIn
<1>8. InputsFirst' /\ Sound'
  BY <1>1 DEF InputsFirst, Sound
<1>9. FixedInOrder' /\ Stuck'
  BY <1>1, <1>2, <1>3 DEF FixedInOrder, Stuck
<1> QED
  BY <1>5, <1>6, <1>7, <1>8, <1>9 DEF Running

-----------------------------------------------------------------------------
(* What is left when the sort stops.                                       *)
Stopped == unblocked = {} /\ unblockedTypes = {} /\ weakBlocked = {} /\ cannotReorder = {}
Left == {i \in Places : ~Placed(i)}

LEMMA SeqWider ==
  ASSUME NEW P, NEW Q, P \subseteq Q, NEW s \in Seq(P)
  PROVE  s \in Seq(Q)
<1>1. Len(s) \in Nat /\ s \in [1 .. Len(s) -> P]
  OBVIOUS
<1>2. s \in [1 .. Len(s) -> Q]
  BY <1>1
<1> QED
  BY <1>1, <1>2

LEMMA StoppedFacts ==
  ASSUME funcs \in Chains, Running, Stopped
  PROVE  /\ \A i \in Fixed : Placed(i)
         /\ released = Placeable
         /\ Left = (Places \ Fixed) \ released
<1>1. \A i \in Fixed : Placed(i)
  BY DEF Running, FixedInOrder, Stopped
<1>2. \A i \in Places : Placed(i) /\ i \notin released => i \in Fixed /\ AfterIn(i, released, releasedTypes)
  BY DEF Running, Stuck
<1>3. released \subseteq Places /\ \A i \in released : Placed(i)
  BY SeqFacts DEF Running, Graph, Placed
<1>4. ASSUME NEW i \in Places \ released, ~AfterIn(i, released, Available(released)), Startable(i)
      PROVE  FALSE
  <2>1. nodes[i].types \subseteq HasNode
    BY NodesFacts DEF Running, Graph
  <2>2. Available(released) \cap HasNode \subseteq releasedTypes
    BY DEF Running, NoneForgotten, Stopped
  <2>3. ~AfterIn(i, released, releasedTypes)
    BY <1>4, <2>1, <2>2 DEF AfterIn
  <2>4. Placed(i)
    BY <1>1, <1>4, <2>3 DEF Running, NoneForgotten, Stopped, Startable
  <2> QED
    BY <1>2, <1>4, <2>3, <2>4
<1>5. Complete(released)
  BY <1>4 DEF Complete
<1>6. released = Placeable
  BY <1>3, <1>5 DEF Placeable, Running, Sound
<1>7. Left = (Places \ Fixed) \ released
  BY <1>1, <1>2, <1>3 DEF Left
<1> QED
  BY <1>1, <1>6, <1>7

LEMMA FinishDone ==
  ASSUME funcs \in Chains, Running, Finish
  PROVE  TypeOK' /\ InputsFirst' /\ AllThatCan'
<1>1. Stopped /\ UNCHANGED <<funcs, nodes, unblocked, unblockedTypes, weakBlocked, cannotReorder, released, releasedTypes>>
  BY DEF Finish, Stopped
<1>2. PICK t : t = Ascending(Left)
  OBVIOUS
<1>3. cannotInclude' = Left /\ reorderedFuncs' = reorderedFuncs \o t /\ phase' = "done"
  BY <1>2 DEF Finish, Left
<1>4. /\ Places' = Places /\ Fixed' = Fixed /\ HasNode' = HasNode /\ InitOffers' = InitOffers
      /\ \A i : Offers(i)' = Offers(i)
      /\ \A S : Complete(S)' <=> Complete(S)
  <2>1. /\ Places' = Places /\ Fixed' = Fixed /\ HasNode' = HasNode /\ InitOffers' = InitOffers
        /\ \A i : Offers(i)' = Offers(i)
    BY <1>1, GraphSame
  <2> QED
    BY <1>1, <2>1 DEF Complete, Available, AfterIn, Startable
<1>5. Left \subseteq Places /\ Left \subseteq Nat /\ IsFiniteSet(Left)
  <2>1. Left \subseteq Places
    BY DEF Left
  <2> QED
    BY <2>1, PlacesType, FS_Subset
<1>6. t \in Seq(Left) /\ IsInjective(t) /\ ToSet(t) = Left
  BY <1>2, <1>5, AscendingFacts
<1>7. t \in Seq(Places)
  BY <1>5, <1>6, SeqWider
<1>8. reorderedFuncs \in Seq(Places) /\ IsInjective(reorderedFuncs) /\ \A x \in ToSet(reorderedFuncs) : x \notin ToSet(t)
  BY <1>6 DEF Running, Graph, Left, Placed
<1>9. PICK s : s = reorderedFuncs \o t
  OBVIOUS
<1>10. /\ s \in Seq(Places) /\ ToSet(s) = ToSet(reorderedFuncs) \cup Left /\ IsInjective(s)
       /\ \A i, j : BeforeIn(reorderedFuncs, i, j) => BeforeIn(s, i, j)
       /\ \A i, j : BeforeIn(s, i, j) /\ i \notin Left /\ j \notin Left => BeforeIn(reorderedFuncs, i, j)
  BY <1>6, <1>7, <1>8, <1>9, ConcatFacts
<1>11. reorderedFuncs' = s
  BY <1>3, <1>9
<1>12. /\ \A i, j : Before(i, j) => Before(i, j)'
       /\ \A i, j : Before(i, j)' /\ i \notin Left /\ j \notin Left => Before(i, j)
  BY <1>10, <1>11 DEF Before, BeforeIn
<1>13. ToSet(s) = Places
  <2>1. ToSet(reorderedFuncs) \subseteq Places
    BY <1>8, SeqFacts
  <2> QED
    BY <1>10, <2>1 DEF Left, Placed
<1>14. TypeOK'
  <2>1. funcs' \in Seq(Providers)
    BY <1>1, PlacesType
  <2>2. \A i \in DOMAIN nodes : nodes[i].after \cup nodes[i].weakAfter \subseteq Places
    BY NodesFacts DEF Running, Graph
  <2>3. ToSet(reorderedFuncs)' = ToSet(s) /\ released' \subseteq Places
    BY <1>1, <1>8, <1>11, SeqFacts DEF ToSet, Running, Graph
  <2>4. cannotInclude' \subseteq Places \ Fixed
    BY <1>1, <1>3, StoppedFacts
  <2> QED
    BY <1>1, <1>3, <1>4, <1>10, <1>11, <1>13, <2>1, <2>2, <2>3, <2>4 DEF TypeOK, Running, Graph
<1>15. InputsFirst'
  BY <1>1, <1>4, <1>12 DEF Running, InputsFirst
<1>16. AllThatCan'
  <2>1. IsInjective(reorderedFuncs)' /\ ToSet(reorderedFuncs)' = Places
    BY <1>10, <1>11, <1>13 DEF IsInjective, ToSet
  <2>2. ASSUME NEW i \in Fixed, NEW j \in Fixed, i < j PROVE ~Before(j, i)'
    <3>1. i \notin Left /\ j \notin Left
      BY <1>1, StoppedFacts DEF Left
    <3> QED
      BY <1>12, <2>2, <3>1 DEF Running, FixedInOrder
  <2>3. Placeable' = Placeable
    BY <1>4 DEF Placeable
  <2>4. released' = Placeable' /\ cannotInclude' = (Places' \ Fixed') \ released'
    BY <1>1, <1>3, <1>4, <2>3, StoppedFacts
  <2> QED
    BY <1>4, <2>1, <2>2, <2>4 DEF AllThatCan
<1> QED
  BY <1>14, <1>15, <1>16

LEMMA KeepDone ==
  ASSUME funcs \in Chains, Fresh, Keep
  PROVE  TypeOK' /\ InputsFirst' /\ AllThatCan'
<1>1. /\ Fixed = Places /\ phase' = "done"
      /\ funcs' = funcs /\ nodes' = <<>> /\ unblocked' = {} /\ unblockedTypes' = {} /\ weakBlocked' = {}
      /\ cannotReorder' = {} /\ released' = {} /\ releasedTypes' = {} /\ cannotInclude' = {}
  BY DEF Keep, Fresh
<1>2. Places' = Places /\ Fixed' = Fixed
  BY <1>1, FuncsSame
<1>3. PICK s : s = [i \in Places |-> i]
  OBVIOUS
<1>4. reorderedFuncs' = s
  BY <1>3 DEF Keep
<1>5. s \in Seq(Places) /\ DOMAIN s = Places /\ \A i \in Places : s[i] = i
  BY <1>3, PlacesType
<1>6. IsInjective(s) /\ ToSet(s) = Places
  BY <1>5 DEF IsInjective, ToSet
<1>7. ASSUME NEW i \in Fixed, NEW j \in Fixed, i < j PROVE ~BeforeIn(s, j, i)
  <2>1. i \in Places /\ j \in Places /\ Places = 1 .. Len(funcs) /\ Len(funcs) \in Nat
    BY PlacesType
  <2> QED
    BY <1>5, <1>7, <2>1 DEF BeforeIn
<1>8. \A i, j \in Fixed : i < j => ~Before(j, i)'
  BY <1>4, <1>7 DEF Before, BeforeIn
<1>9. IsInjective(reorderedFuncs)' /\ ToSet(reorderedFuncs)' = Places
  BY <1>4, <1>6 DEF IsInjective, ToSet
<1>10. TypeOK'
  BY <1>1, <1>2, <1>4, <1>5, PlacesType DEF TypeOK
<1>11. InputsFirst'
  BY <1>1 DEF InputsFirst
<1>12. AllThatCan'
  BY <1>1, <1>2, <1>8, <1>9 DEF AllThatCan
<1> QED
  BY <1>10, <1>11, <1>12

-----------------------------------------------------------------------------
LEMMA Initially == Init => IInv
<1> SUFFICES ASSUME Init PROVE IInv
  OBVIOUS
<1> QED
  BY DEF Init, IInv, Fresh

LEMMA Inductive == IInv /\ [Next]_vars => IInv'
<1> SUFFICES ASSUME IInv, [Next]_vars PROVE IInv'
  OBVIOUS
<1>1. funcs \in Chains
  BY DEF IInv
<1>2. CASE Keep
  <2>1. TypeOK' /\ InputsFirst' /\ AllThatCan'
    BY <1>1, <1>2, KeepDone DEF IInv, Keep
  <2> QED
    BY <1>1, <1>2, <2>1 DEF IInv, Keep
<1>3. CASE PanicOnWeakType
  <2>1. Fresh' /\ funcs' = funcs /\ phase' = "panic"
    BY <1>3 DEF IInv, Fresh, PanicOnWeakType
  <2> QED
    BY <1>1, <2>1 DEF IInv
<1>4. CASE Build
  <2>1. Running' /\ funcs' = funcs /\ phase' = "run"
    BY <1>1, <1>4, BuildRunning DEF IInv, Build
  <2> QED
    BY <1>1, <2>1 DEF IInv
<1>5. ASSUME Running, \E i, release, H, W : Takes(i, release, H, W), phase' = "run"
      PROVE  IInv'
  <2>1. Running' /\ funcs' = funcs
    BY <1>1, <1>5, TakesRunning DEF Takes
  <2> QED
    BY <1>1, <1>5, <2>1 DEF IInv
<1>6. CASE PopUnblocked
  <2>1. Running /\ phase' = "run"
    BY <1>6 DEF IInv, PopUnblocked
  <2> QED
    BY <1>1, <1>5, <1>6, <2>1, PopUnblockedTakes
<1>7. CASE PopWeakBlocked
  <2>1. Running /\ phase' = "run"
    BY <1>7 DEF IInv, PopWeakBlocked
  <2> QED
    BY <1>1, <1>5, <1>7, <2>1, PopWeakBlockedTakes
<1>8. CASE ForceOut
  <2>1. Running /\ phase' = "run"
    BY <1>8 DEF IInv, ForceOut
  <2> QED
    BY <1>1, <1>5, <1>8, <2>1, ForceTakes
<1>9. CASE Finish
  <2>1. TypeOK' /\ InputsFirst' /\ AllThatCan'
    BY <1>1, <1>9, FinishDone DEF IInv, Finish
  <2>2. phase' = "done" /\ funcs' = funcs
    BY <1>9 DEF Finish
  <2> QED
    BY <1>1, <2>1, <2>2 DEF IInv
<1>10. ASSUME NEW h \in TypeNodes, PopType(h) PROVE IInv'
  <2>1. Running' /\ funcs' = funcs /\ phase' = "run"
    BY <1>1, <1>10, PopTypeRunning DEF IInv, PopType
  <2> QED
    BY <1>1, <2>1 DEF IInv
<1>11. CASE UNCHANGED vars
  <2>1. /\ funcs' = funcs /\ phase' = phase /\ nodes' = nodes /\ unblocked' = unblocked
        /\ unblockedTypes' = unblockedTypes /\ weakBlocked' = weakBlocked
        /\ cannotReorder' = cannotReorder /\ released' = released /\ releasedTypes' = releasedTypes
        /\ reorderedFuncs' = reorderedFuncs /\ cannotInclude' = cannotInclude
    BY <1>11 DEF vars
  <2>2. /\ Places' = Places /\ Fixed' = Fixed /\ HasNode' = HasNode
        /\ InitOffers' = InitOffers /\ Nodes' = Nodes
        /\ \A i : Offers(i)' = Offers(i)
    BY <2>1, GraphSame
  <2>3. /\ \A j, R, T : AfterIn(j, R, T)' <=> AfterIn(j, R, T)
        /\ \A j : Startable(j)' <=> Startable(j)
        /\ \A R : Available(R)' = Available(R)
        /\ \A j : Placed(j)' <=> Placed(j)
        /\ \A j, k : Before(j, k)' <=> Before(j, k)
    BY <2>1, <2>2 DEF AfterIn, Startable, Available, Placed, Before
  <2>4. (\A S : Complete(S)' <=> Complete(S)) /\ Placeable' = Placeable
    BY <2>2, <2>3 DEF Complete, Placeable
  <2>5. InputsFirst' <=> InputsFirst
    BY <2>1, <2>2, <2>3 DEF InputsFirst
  <2>6. TypeOK => TypeOK'
    BY <2>1, <2>2 DEF TypeOK
  <2>7. AllThatCan => AllThatCan'
    BY <2>1, <2>2, <2>3, <2>4 DEF AllThatCan
  <2>8. Fresh => Fresh'
    BY <2>1 DEF Fresh
  <2>9. Graph /\ Ready /\ NoneForgotten => Graph' /\ Ready' /\ NoneForgotten'
    BY <2>1, <2>2, <2>3 DEF Graph, Ready, NoneForgotten
  <2>10. FixedInOrder /\ Stuck /\ Sound => FixedInOrder' /\ Stuck' /\ Sound'
    BY <2>1, <2>2, <2>3, <2>4 DEF FixedInOrder, Stuck, Sound
  <2> QED
    BY <2>1, <2>5, <2>6, <2>7, <2>8, <2>9, <2>10 DEF IInv, Running
<1> QED
  BY <1>2, <1>3, <1>4, <1>6, <1>7, <1>8, <1>9, <1>10, <1>11 DEF Next

LEMMA WhatHolds == IInv => TypeOK /\ InputsFirst /\ AllThatCan
<1> SUFFICES ASSUME IInv PROVE TypeOK /\ InputsFirst /\ AllThatCan
  OBVIOUS
<1>1. funcs \in Chains /\ phase \in {"build", "run", "done", "panic"} /\ funcs \in Seq(Providers)
  BY PlacesType DEF IInv
<1>2. CASE phase \in {"build", "panic"}
  <2>1. Fresh
    BY <1>2 DEF IInv
  <2>2. /\ IsInjective(reorderedFuncs) /\ \A S : reorderedFuncs \in Seq(S)
        /\ \A i, j : ~Before(i, j)
    BY <2>1, NothingPlaced DEF Fresh
  <2>3. TypeOK
    BY <1>1, <2>1, <2>2 DEF TypeOK, Fresh
  <2>4. InputsFirst
    BY <2>1 DEF InputsFirst, Fresh
  <2>5. AllThatCan
    BY <1>2, <2>2 DEF AllThatCan
  <2> QED
    BY <2>3, <2>4, <2>5
<1>3. CASE phase = "run"
  <2>1. Running
    BY <1>3 DEF IInv
  <2>2. \A i \in DOMAIN nodes : nodes[i].after \cup nodes[i].weakAfter \subseteq Places
    BY <1>1, <2>1, NodesFacts DEF Running, Graph
  <2>3. TypeOK
    BY <1>1, <2>1, <2>2 DEF TypeOK, Running, Graph
  <2>4. AllThatCan
    BY <1>3, <2>1 DEF AllThatCan, Running, Graph, FixedInOrder
  <2> QED
    BY <2>1, <2>3, <2>4 DEF Running
<1>4. CASE phase = "done"
  BY <1>4 DEF IInv
<1> QED
  BY <1>1, <1>2, <1>3, <1>4

(* The sort of reorder.go keeps its invariant: heaps, releases and what is *)
(* placed fit together at every step of run (reorder.go:291-345).          *)
THEOREM Invariance == Spec => []IInv
BY Initially, Inductive, PTL DEF Spec

(* The sort's data keep their types (reorder.go:269-288).                  *)
THEOREM TypeCorrectness == Spec => []TypeOK
BY Invariance, WhatHolds, PTL

(* Whatever the chain, a provider that was not forced out is "placed after *)
(* it's inputs are available" (reorder.go:8-10).                           *)
THEOREM PlacedAfterInputs == Spec => []InputsFirst
BY Invariance, WhatHolds, PTL

(* Whatever the chain, reorder loses and doubles no provider, keeps the    *)
(* order of those not marked Reorder, and leaves out those only that no    *)
(* order could place (reorder.go:144-145, 265, 340-345).                   *)
THEOREM PlacesAllThatCan == Spec => []AllThatCan
BY Invariance, WhatHolds, PTL

-----------------------------------------------------------------------------
(* The editor of Replace.tla.  A set of numbers has a least one.           *)
LEMMA NatMin ==
  ASSUME NEW T \in SUBSET Nat, T # {}
  PROVE  \E m \in T : \A n_1 \in T : m <= n_1
  BY MinExists

(* A walk along a function is one. *)
IsWalk(f, step, start, m, S) == f \in [0 .. m -> S] /\ f[0] = start /\ \A k \in 1 .. m : f[k] = step[f[k - 1]]
LEMMA WalkExists ==
  ASSUME NEW S, NEW step \in [S -> S], NEW start \in S, NEW N \in Nat
  PROVE  \E f : IsWalk(f, step, start, N, S)
<1> DEFINE Walks(f, m) == IsWalk(f, step, start, m, S)
           T == {m \in Nat : ~\E f : Walks(f, m)}
<1>1. T = {}
  <2> SUFFICES ASSUME T # {} PROVE FALSE
    OBVIOUS
  <2>1. PICK m \in T : \A j \in T : m <= j
    <3> HIDE DEF T
    <3>1. T \in SUBSET Nat
      BY DEF T
    <3> QED
      BY <3>1, NatMin
  <2>2. m # 0
    <3>1. Walks([k \in 0 .. 0 |-> start], 0)
      BY DEF IsWalk
    <3> QED
      BY <3>1, <2>1
  <2>3. PICK f : Walks(f, m - 1)
    <3>1. m - 1 \in Nat /\ m - 1 \notin T
      BY <2>1, <2>2
    <3> QED
      BY <3>1
  <2> DEFINE g == [k \in 0 .. m |-> IF k = m THEN step[f[m - 1]] ELSE f[k]]
  <2>4. Walks(g, m)
    <3>1. f[m - 1] \in S
      BY <2>2, <2>3 DEF IsWalk
    <3>2. g \in [0 .. m -> S]
      BY <2>2, <2>3, <3>1 DEF IsWalk
    <3>3. g[0] = start
      BY <2>2, <2>3 DEF IsWalk
    <3>4. ASSUME NEW k \in 1 .. m PROVE g[k] = step[g[k - 1]]
      BY <2>2, <2>3 DEF IsWalk
    <3> QED
      BY <3>2, <3>3, <3>4 DEF IsWalk
  <2> QED
    BY <2>4
<1> QED
  BY <1>1

(* What Run gives: the nodes from start on, as long as they are in S.      *)
IsRun(run, L, start, S) ==
  /\ run \in [0 .. Len(input) -> Positions] /\ run[0] = start
  /\ \A k \in 1 .. Len(input) :
       run[k] = IF L.next[run[k - 1]] \in S THEN L.next[run[k - 1]] ELSE run[k - 1]
LEMMA RunWalks ==
  ASSUME NEW L, NEW start \in Positions, NEW S \in SUBSET Positions, Len(input) \in Nat
  PROVE  IsRun(Run(L, start, S), L, start, S)
<1> DEFINE step == [e \in Positions |-> IF L.next[e] \in S THEN L.next[e] ELSE e]
           Walk(f) == f = [k \in 0 .. Len(input) |-> IF k = 0 THEN start ELSE step[f[k - 1]]]
           run == CHOOSE f : Walk(f)
<1>1. step \in [Positions -> Positions]
  OBVIOUS
<1>2. \E f \in [0 .. Len(input) -> Positions] : Walk(f)
  <2> HIDE DEF step, Walk, run
  <2>1. PICK f : IsWalk(f, step, start, Len(input), Positions)
    BY <1>1, WalkExists
  <2> USE DEF IsWalk
  <2>2. ASSUME NEW k \in 0 .. Len(input) PROVE f[k] = IF k = 0 THEN start ELSE step[f[k - 1]]
    BY <2>1
  <2>3. f = [k \in 0 .. Len(input) |-> f[k]]
    BY <2>1
  <2>4. Walk(f)
    BY <2>2, <2>3 DEF Walk
  <2> QED
    BY <2>1, <2>4
<1>3. Run(L, start, S) = run
  BY DEF Run
<1>4. Walk(run)
  <2> HIDE DEF Walk
  <2> QED
    BY <1>2
<1>5. run \in [0 .. Len(input) -> Positions]
  <2> HIDE DEF run
  <2>1. DOMAIN run = 0 .. Len(input)
    BY <1>4
  <2>2. ASSUME NEW k \in Nat, k \in 0 .. Len(input), \A j \in 0 .. Len(input) : j < k => run[j] \in Positions
        PROVE  run[k] \in Positions
    <3>1. CASE k = 0
      BY <3>1, <1>4
    <3>2. CASE k # 0
      <4>1. run[k - 1] \in Positions
        BY <3>2, <2>2
      <4>2. run[k] = step[run[k - 1]]
        <5> HIDE DEF step
        <5> QED
          BY <3>2, <2>2, <1>4
      <4> QED
        <5> HIDE DEF step
        <5> QED
          BY <4>1, <4>2, <1>1
    <3> QED
      BY <3>1, <3>2
  <2>3. \A k \in 0 .. Len(input) : run[k] \in Positions
    <3> DEFINE T == {k \in 0 .. Len(input) : run[k] \notin Positions}
    <3>1. T = {}
      <4> SUFFICES ASSUME T # {} PROVE FALSE
        OBVIOUS
      <4>1. PICK k \in T : \A j \in T : k <= j
        <5>1. T \in SUBSET Nat
          OBVIOUS
        <5> HIDE DEF T
        <5> QED
          BY <5>1, NatMin
      <4>2. \A j \in 0 .. Len(input) : j < k => run[j] \in Positions
        BY <4>1
      <4> QED
        BY <4>1, <4>2, <2>2
    <3> QED
      BY <3>1
  <2>4. run = [k \in 0 .. Len(input) |-> run[k]]
    <3> HIDE DEF step
    <3> QED
      BY <1>4
  <2> QED
    BY <2>3, <2>4
<1>6. \A k \in 1 .. Len(input) : run[k] = step[run[k - 1]]
  <2> HIDE DEF run, step
  <2> QED
    BY <1>4
<1>7. run[0] = start
  <2> HIDE DEF run, step
  <2> QED
    BY <1>4
<1>8. \A k \in 1 .. Len(input) : run[k - 1] \in Positions
  <2> HIDE DEF run
  <2> QED
    BY <1>5
<1> HIDE DEF run
<1> QED
  BY <1>3, <1>5, <1>6, <1>7, <1>8 DEF IsRun

-----------------------------------------------------------------------------
(* Lists: R is the order in which L links the nodes of E.                  *)
Leq(R, x, y) == x = y \/ <<x, y>> \in R
Orders(R, E) ==
  /\ \A x \in E : <<x, x>> \notin R
  /\ \A x, y \in E : x = y \/ <<x, y>> \in R \/ <<y, x>> \in R
  /\ \A x, y, z \in E : <<x, y>> \in R /\ <<y, z>> \in R => <<x, z>> \in R
Linked(L, E, R) ==
  /\ DOMAIN L.next = ListNodes /\ DOMAIN L.prev = ListNodes
  /\ \A x \in ListNodes \ {ListTail} : L.next[x] \in ListNodes
  /\ E \subseteq ListNodes /\ ListHead \in E /\ ListTail \in E
  /\ Orders(R, E)
  /\ \A x \in E : Leq(R, ListHead, x) /\ Leq(R, x, ListTail)
  /\ \A x \in E \ {ListTail} : /\ L.next[x] \in E /\ <<x, L.next[x]>> \in R
                                /\ \A z \in E : <<x, z>> \in R => Leq(R, L.next[x], z)
  /\ \A x \in E \ {ListHead, ListTail} : L.prev[x] \in E \ {ListTail} /\ L.next[L.prev[x]] = x
  /\ L.prev[ListTail] # None => L.prev[ListTail] \in E \ {ListTail} /\ L.next[L.prev[ListTail]] = ListTail

(* A run of the list from s to e. *)
Between(E, R, s, e) == {x \in E : Leq(R, s, x) /\ Leq(R, x, e)}
Chain(L, B, s, e, R) ==
  /\ s \in B /\ e \in B /\ B \subseteq Positions
  /\ \A x \in B : Leq(R, s, x) /\ Leq(R, x, e)
  /\ \A x \in B \ {e} : /\ L.next[x] \in B /\ <<x, L.next[x]>> \in R
                        /\ \A z \in B : <<x, z>> \in R => Leq(R, L.next[x], z)
  /\ \A x \in B \ {s} : L.prev[x] \in B \ {e} /\ L.next[L.prev[x]] = x

(* Two nodes of a list have different successors.                          *)
LEMMA NextTells ==
  ASSUME NEW L, NEW E, NEW R, Linked(L, E, R), NEW x \in E \ {ListTail}, NEW y \in E \ {ListTail},
         L.next[x] = L.next[y]
  PROVE  x = y
<1>1. <<x, L.next[x]>> \in R /\ <<y, L.next[y]>> \in R /\ L.next[x] \in E
  BY DEF Linked
<1>2. x = y \/ <<x, y>> \in R \/ <<y, x>> \in R
  BY DEF Linked, Orders
<1>3. ASSUME <<x, y>> \in R PROVE FALSE
  <2>1. Leq(R, L.next[x], y)
    BY <1>3 DEF Linked
  <2> QED
    BY <1>1, <2>1 DEF Linked, Orders, Leq
<1>4. ASSUME <<y, x>> \in R PROVE FALSE
  <2>1. Leq(R, L.next[y], x)
    BY <1>4 DEF Linked
  <2> QED
    BY <1>1, <2>1 DEF Linked, Orders, Leq
<1> QED
  BY <1>2, <1>3, <1>4

(* The nodes are the providers' positions and the two ends.                *)
LEMMA PlacesAreNodes ==
  ASSUME input \in Seq(ProviderRecords)
  PROVE  /\ Positions = 1 .. Len(input) /\ Len(input) \in Nat /\ ListHead \notin Positions /\ ListTail \notin Positions
         /\ Positions = ListNodes \ {ListHead, ListTail} /\ ListHead # ListTail
<1>1. Positions = 1 .. Len(input) /\ Len(input) \in Nat
  BY DEF Positions
<1> QED
  BY <1>1 DEF ListNodes, ListHead, ListTail

(* What is between two nodes of a list is linked as they are.              *)
LEMMA BlockIsChain ==
  ASSUME NEW L, NEW E, NEW R, Linked(L, E, R), NEW s \in E \ {ListHead, ListTail},
         NEW e \in E \ {ListHead, ListTail}, Leq(R, s, e), input \in Seq(ProviderRecords)
  PROVE  Chain(L, Between(E, R, s, e), s, e, R)
<1> DEFINE B == Between(E, R, s, e)
<1>1. s \in B /\ e \in B /\ B \subseteq E
  BY DEF Between, Leq
<1>2. ListHead \notin B /\ ListTail \notin B
  <2>1. ASSUME Leq(R, s, ListHead) PROVE FALSE
    BY <2>1 DEF Linked, Orders, Leq
  <2>2. ASSUME Leq(R, ListTail, e) PROVE FALSE
    BY <2>2 DEF Linked, Orders, Leq
  <2> QED
    BY <2>1, <2>2 DEF Between
<1>3. B \subseteq Positions
  BY <1>1, <1>2, PlacesAreNodes DEF Linked
<1>4. ASSUME NEW x \in B \ {e} PROVE L.next[x] \in B
  <2>1. <<x, e>> \in R /\ x \in E \ {ListTail} /\ Leq(R, s, x)
    BY <1>4, <1>2 DEF Between, Leq
  <2>2. L.next[x] \in E /\ <<x, L.next[x]>> \in R /\ Leq(R, L.next[x], e)
    BY <2>1 DEF Linked
  <2>3. Leq(R, s, L.next[x])
    BY <2>1, <2>2 DEF Linked, Orders, Leq
  <2> QED
    BY <2>2, <2>3 DEF Between
<1>5. ASSUME NEW x \in B \ {s} PROVE L.prev[x] \in B \ {e} /\ L.next[L.prev[x]] = x
  <2>1. <<s, x>> \in R /\ x \in E \ {ListHead, ListTail} /\ Leq(R, x, e)
    BY <1>5, <1>2, <1>1 DEF Between, Leq
  <2> DEFINE q == L.prev[x]
  <2>2. q \in E \ {ListTail} /\ L.next[q] = x
    BY <2>1 DEF Linked
  <2> HIDE DEF q
  <2>3. <<q, x>> \in R
    BY <2>2 DEF Linked
  <2>4. <<q, e>> \in R
    BY <2>1, <2>2, <2>3 DEF Linked, Orders, Leq
  <2>5. q # e
    BY <2>2, <2>4 DEF Linked, Orders
  <2>6. Leq(R, s, q)
    <3>1. ASSUME <<q, s>> \in R PROVE FALSE
      <4>1. Leq(R, x, s)
        BY <3>1, <2>2 DEF Linked
      <4> QED
        BY <4>1, <2>1 DEF Linked, Orders, Leq
    <3> QED
      BY <3>1, <2>2 DEF Linked, Orders, Leq
  <2>7. q \in B
    BY <2>2, <2>4, <2>6 DEF Between, Leq
  <2> QED
    BY <2>2, <2>5, <2>7 DEF q
<1>6. \A x \in B : Leq(R, s, x) /\ Leq(R, x, e)
  BY DEF Between
<1>7. \A x \in B \ {e} : <<x, L.next[x]>> \in R /\ \A z \in B : <<x, z>> \in R => Leq(R, L.next[x], z)
  BY <1>1, <1>2 DEF Linked
<1> HIDE DEF B
<1> QED
  BY <1>1, <1>3, <1>4, <1>5, <1>6, <1>7 DEF Chain, B

(* snip: what is left is a list, and what was taken out still hangs        *)
(* together.                                                               *)
Snipped(L, E, R, s, e) ==
  LET B == Between(E, R, s, e)
      M == Snip(L, s, e)
  IN /\ Linked(M, E \ B, R) /\ Chain(M, B, s, e, R)
     /\ L.prev[s] \in E \ (B \cup {ListTail}) /\ L.next[e] \in E \ (B \cup {ListHead})
     /\ L.next[L.prev[s]] = s /\ <<e, L.next[e]>> \in R
     /\ M.next = [L.next EXCEPT ![L.prev[s]] = L.next[e]]
     /\ M.prev[L.next[e]] # None
     /\ \A z \in E : z \in B \/ <<z, s>> \in R \/ Leq(R, L.next[e], z)
     /\ ListHead \notin B /\ ListTail \notin B /\ B \subseteq E /\ B \subseteq Positions
LEMMA SnipLinked ==
  ASSUME NEW L, NEW E, NEW R, Linked(L, E, R), NEW s \in E \ {ListHead, ListTail},
         NEW e \in E \ {ListHead, ListTail}, Leq(R, s, e), input \in Seq(ProviderRecords)
  PROVE  Snipped(L, E, R, s, e)
<1> DEFINE B == Between(E, R, s, e)
           F == E \ B
           p == L.prev[s]
           a == L.next[e]
           M == Snip(L, s, e)
<1>1. Chain(L, B, s, e, R)
  BY BlockIsChain
<1>2. B \subseteq E /\ s \in B /\ e \in B /\ B \subseteq Positions /\ ListHead \notin B /\ ListTail \notin B
  BY <1>1, PlacesAreNodes DEF Between, Chain
<1>3. /\ \A x \in E : <<x, x>> \notin R
      /\ \A x, y \in E : x = y \/ <<x, y>> \in R \/ <<y, x>> \in R
      /\ \A x, y, z \in E : <<x, y>> \in R /\ <<y, z>> \in R => <<x, z>> \in R
  BY DEF Linked, Orders
<1>4. \A x \in E : x \in B <=> (x = s \/ <<s, x>> \in R) /\ (x = e \/ <<x, e>> \in R)
  BY DEF Between, Leq
<1>5. \A x \in E \ {ListTail} : /\ L.next[x] \in E /\ <<x, L.next[x]>> \in R
                               /\ \A z \in E : <<x, z>> \in R => (L.next[x] = z \/ <<L.next[x], z>> \in R)
  BY DEF Linked, Leq
<1>6. \A x \in E \ {ListHead, ListTail} : L.prev[x] \in E \ {ListTail} /\ L.next[L.prev[x]] = x
  BY DEF Linked
<1>7. p \in E \ {ListTail} /\ L.next[p] = s /\ <<p, s>> \in R
  BY <1>5, <1>6
<1>8. a \in E /\ <<e, a>> \in R
  BY <1>5
<1> HIDE DEF B, p, a
<1>9. p \notin B
  BY <1>3, <1>4, <1>7
<1>10. a \notin B
  BY <1>3, <1>4, <1>8
<1>11. \A z \in E : z \in B \/ <<z, s>> \in R \/ a = z \/ <<a, z>> \in R
  <2>1. \A z \in E : <<e, z>> \in R => a = z \/ <<a, z>> \in R
    BY <1>5 DEF a
  <2> QED
    BY <2>1, <1>3, <1>4
<1>12. a # ListHead
  BY <1>3, <1>8 DEF Linked, Leq
<1>13. /\ M.next = [L.next EXCEPT ![p] = a] /\ M.prev = [L.prev EXCEPT ![a] = p]
  BY DEF Snip, p, a
<1>14. E \subseteq ListNodes /\ DOMAIN L.next = ListNodes /\ DOMAIN L.prev = ListNodes
  BY DEF Linked
<1> HIDE DEF M
<1>15. /\ \A x \in ListNodes : M.next[x] = IF x = p THEN a ELSE L.next[x]
       /\ \A x \in ListNodes : M.prev[x] = IF x = a THEN p ELSE L.prev[x]
  BY <1>13, <1>14
<1>16. ASSUME NEW x \in F \ {ListTail}
       PROVE  M.next[x] \in F /\ <<x, M.next[x]>> \in R /\ \A z \in F : <<x, z>> \in R => Leq(R, M.next[x], z)
  <2>1. CASE x = p
    <3>1. M.next[x] = a /\ a \in F
      BY <2>1, <1>15, <1>14, <1>8, <1>10
    <3>2. <<p, a>> \in R
      <4>1. <<p, e>> \in R
        BY <1>3, <1>4, <1>7, <1>2
      <4> QED
        BY <4>1, <1>3, <1>8, <1>7, <1>2
    <3>3. ASSUME NEW z \in F, <<p, z>> \in R PROVE a = z \/ <<a, z>> \in R
      <4>1. s = z \/ <<s, z>> \in R
        BY <3>3, <1>5, <1>7
      <4>2. <<z, s>> \notin R
        BY <4>1, <1>3, <3>3
      <4> QED
        BY <4>2, <1>11, <3>3
    <3> QED
      BY <2>1, <3>1, <3>2, <3>3 DEF Leq
  <2>2. CASE x # p
    <3>1. M.next[x] = L.next[x]
      BY <2>2, <1>15, <1>14
    <3>2. ASSUME L.next[x] \in B PROVE FALSE
      <4> DEFINE y == L.next[x]
      <4>1. y \in B /\ <<x, y>> \in R /\ y \in E /\ x \in E /\ x \notin B
        BY <3>2, <1>5, <1>2
      <4>2. y # s
        BY <2>2, <1>7, NextTells
      <4>3. \A z \in E : <<x, z>> \in R => y = z \/ <<y, z>> \in R
        BY <1>5
      <4> HIDE DEF y
      <4>4. <<s, y>> \in R /\ (y = e \/ <<y, e>> \in R)
        BY <4>1, <4>2, <1>4
      <4>5. <<x, s>> \notin R
        BY <4>3, <4>4, <1>3, <4>1
      <4>6. <<s, x>> \in R
        BY <4>5, <1>3, <4>1, <1>2
      <4>7. <<x, e>> \in R
        BY <4>1, <4>4, <1>3
      <4> QED
        BY <4>1, <4>6, <4>7, <1>4
    <3> QED
      BY <3>1, <3>2, <1>5 DEF Leq
  <2> QED
    BY <2>1, <2>2
<1>17. ASSUME NEW x \in E \ B, x # ListHead, L.prev[x] \in E \ {ListTail}, L.next[L.prev[x]] = x
       PROVE  M.prev[x] \in F \ {ListTail} /\ M.next[M.prev[x]] = x
  <2>1. CASE x = a
    BY <2>1, <1>15, <1>14, <1>7, <1>9, <1>8
  <2>2. CASE x # a
    <3> DEFINE q == L.prev[x]
    <3>1. M.prev[x] = q /\ q \in E \ {ListTail} /\ L.next[q] = x
      BY <2>2, <1>15, <1>14, <1>17
    <3>2. <<q, x>> \in R /\ \A z \in E : <<q, z>> \in R => x = z \/ <<x, z>> \in R
      BY <3>1, <1>5
    <3> HIDE DEF q
    <3>3. ASSUME q \in B PROVE FALSE
      <4>1. q # e
        BY <3>1, <2>2 DEF a
      <4>2. <<q, e>> \in R /\ (q = s \/ <<s, q>> \in R)
        BY <3>3, <4>1, <1>4, <3>1
      <4>3. x = e \/ <<x, e>> \in R
        BY <4>2, <3>2, <1>2
      <4>4. <<s, x>> \in R
        BY <4>2, <3>2, <1>3, <3>1, <1>2
      <4> QED
        BY <4>3, <4>4, <1>4
    <3>4. q # p
      BY <3>1, <1>7, <1>2
    <3> QED
      BY <3>1, <3>3, <3>4, <1>15, <1>14
  <2> QED
    BY <2>1, <2>2
<1>18. Orders(R, F)
  BY <1>3 DEF Orders
<1>19. /\ DOMAIN M.next = ListNodes /\ DOMAIN M.prev = ListNodes
       /\ \A x \in ListNodes \ {ListTail} : M.next[x] \in ListNodes
  BY <1>13, <1>14, <1>15, <1>8 DEF Linked
<1>20. /\ F \subseteq ListNodes /\ ListHead \in F /\ ListTail \in F
       /\ \A x \in F : Leq(R, ListHead, x) /\ Leq(R, x, ListTail)
  BY <1>2 DEF Linked
<1>21. \A x \in F \ {ListHead, ListTail} : M.prev[x] \in F \ {ListTail} /\ M.next[M.prev[x]] = x
  BY <1>17, <1>6
<1>22. M.prev[ListTail] # None => M.prev[ListTail] \in F \ {ListTail} /\ M.next[M.prev[ListTail]] = ListTail
  <2>1. CASE ListTail = a
    BY <2>1, <1>15, <1>14, <1>7, <1>9, <1>8
  <2>2. CASE ListTail # a
    <3>1. M.prev[ListTail] = L.prev[ListTail]
      BY <2>2, <1>15, <1>14, <1>20
    <3>2. L.prev[ListTail] # None => L.prev[ListTail] \in E \ {ListTail} /\ L.next[L.prev[ListTail]] = ListTail
      BY DEF Linked
    <3>3. ListTail # ListHead
      BY PlacesAreNodes
    <3> QED
      BY <3>1, <3>2, <3>3, <1>17, <1>20
  <2> QED
    BY <2>1, <2>2
<1>23. Linked(M, F, R)
  BY <1>16, <1>18, <1>19, <1>20, <1>21, <1>22 DEF Linked
<1>24. Chain(M, B, s, e, R)
  <2>1. \A x \in B : x \in ListNodes /\ x # p /\ x # a
    BY <1>2, <1>9, <1>10, <1>14
  <2>2. \A x \in B : M.next[x] = L.next[x] /\ M.prev[x] = L.prev[x]
    BY <2>1, <1>15
  <2> QED
    BY <2>2, <1>1 DEF Chain
<1>25. M.prev[a] # None
  <2>1. M.prev[a] = p
    BY <1>15, <1>14, <1>8
  <2>2. p # ListTail /\ p \in Nat
    BY <1>7, <1>14, PlacesAreNodes DEF ListNodes
  <2> QED
    BY <2>1, <2>2, ReplaceAssumption
<1> QED
  BY <1>2, <1>7, <1>8, <1>9, <1>10, <1>11, <1>12, <1>13, <1>23, <1>24, <1>25
     DEF Leq, B, p, a, M, Snipped

(* The order after the run B was put in front of t.                        *)
Moved(R, F, B, t) ==
  {p \in (F \cup B) \X (F \cup B) :
     \/ p[1] \in B /\ p[2] \in B /\ p \in R
     \/ p[1] \in B /\ p[2] \notin B /\ Leq(R, t, p[2])
     \/ p[1] \notin B /\ p[2] \in B /\ <<p[1], t>> \in R
     \/ p[1] \notin B /\ p[2] \notin B /\ p \in R}

LEMMA MovedIs ==
  ASSUME NEW R, NEW F, NEW B, NEW t, B \cap F = {}
  PROVE  /\ \A x, y \in B : <<x, y>> \in Moved(R, F, B, t) <=> <<x, y>> \in R
         /\ \A x \in B, y \in F : <<x, y>> \in Moved(R, F, B, t) <=> t = y \/ <<t, y>> \in R
         /\ \A x \in F, y \in B : <<x, y>> \in Moved(R, F, B, t) <=> <<x, t>> \in R
         /\ \A x, y \in F : <<x, y>> \in Moved(R, F, B, t) <=> <<x, y>> \in R
<1>1. \A x, y \in F \cup B :
        <<x, y>> \in Moved(R, F, B, t) <=>
          \/ x \in B /\ y \in B /\ <<x, y>> \in R
          \/ x \in B /\ y \notin B /\ Leq(R, t, y)
          \/ x \notin B /\ y \in B /\ <<x, t>> \in R
          \/ x \notin B /\ y \notin B /\ <<x, y>> \in R
  BY DEF Moved
<1> QED
  BY <1>1 DEF Leq

LEMMA MovedOrders ==
  ASSUME NEW R, NEW F, NEW B, NEW t \in F, B \cap F = {}, Orders(R, F \cup B)
  PROVE  Orders(Moved(R, F, B, t), F \cup B)
<1> DEFINE Q == Moved(R, F, B, t)
<1>1. /\ \A x, y \in B : <<x, y>> \in Q <=> <<x, y>> \in R
      /\ \A x \in B, y \in F : <<x, y>> \in Q <=> t = y \/ <<t, y>> \in R
      /\ \A x \in F, y \in B : <<x, y>> \in Q <=> <<x, t>> \in R
      /\ \A x, y \in F : <<x, y>> \in Q <=> <<x, y>> \in R
  BY MovedIs
<1> HIDE DEF Q
<1>2. /\ \A x \in F \cup B : <<x, x>> \notin R
      /\ \A x, y \in F \cup B : x = y \/ <<x, y>> \in R \/ <<y, x>> \in R
      /\ \A x, y, z \in F \cup B : <<x, y>> \in R /\ <<y, z>> \in R => <<x, z>> \in R
  BY DEF Orders
<1>3. \A x \in F \cup B : <<x, x>> \notin Q
  BY <1>1, <1>2
<1>4. \A x, y \in F \cup B : x = y \/ <<x, y>> \in Q \/ <<y, x>> \in Q
  BY <1>1, <1>2
<1>5. ASSUME NEW x \in F \cup B, NEW y \in F \cup B, NEW z \in F \cup B, <<x, y>> \in Q, <<y, z>> \in Q
      PROVE  <<x, z>> \in Q
  <2>1. CASE x \in B /\ y \in B
    BY <2>1, <1>1, <1>2, <1>5
  <2>2. CASE x \in B /\ y \in F
    BY <2>2, <1>1, <1>2, <1>5
  <2>3. CASE x \in F /\ y \in B
    BY <2>3, <1>1, <1>2, <1>5
  <2>4. CASE x \in F /\ y \in F
    BY <2>4, <1>1, <1>2, <1>5
  <2> QED
    BY <2>1, <2>2, <2>3, <2>4
<1> QED
  BY <1>3, <1>4, <1>5 DEF Orders, Q

(* insertBefore: the list with the run in front of t.                      *)
Inserted(L, F, B, R, s, e, t) ==
  LET M == InsertBefore(L, t, s, e)
      p == L.prev[t]
  IN /\ Linked(M, F \cup B, Moved(R, F, B, t))
     /\ M.next = [[L.next EXCEPT ![p] = s] EXCEPT ![e] = t]
     /\ p \in F \ {ListTail} /\ L.next[p] = t
     /\ \A x \in F : L.prev[x] # None => M.prev[x] # None
LEMMA InsertLinked ==
  ASSUME NEW L, NEW F, NEW B, NEW R, NEW s, NEW e, NEW t \in F \ {ListHead}, input \in Seq(ProviderRecords),
         Linked(L, F, R), Chain(L, B, s, e, R), Orders(R, F \cup B), B \cap F = {}, L.prev[t] # None
  PROVE  Inserted(L, F, B, R, s, e, t)
<1> DEFINE Q == Moved(R, F, B, t)
           p == L.prev[t]
           M == InsertBefore(L, t, s, e)
<1>1. /\ \A x, y \in B : <<x, y>> \in Q <=> <<x, y>> \in R
      /\ \A x \in B, y \in F : <<x, y>> \in Q <=> t = y \/ <<t, y>> \in R
      /\ \A x \in F, y \in B : <<x, y>> \in Q <=> <<x, t>> \in R
      /\ \A x, y \in F : <<x, y>> \in Q <=> <<x, y>> \in R
  BY MovedIs
<1>2. Orders(Q, F \cup B)
  BY MovedOrders
<1>3. /\ \A x \in F \cup B : <<x, x>> \notin R
      /\ \A x, y \in F \cup B : x = y \/ <<x, y>> \in R \/ <<y, x>> \in R
      /\ \A x, y, z \in F \cup B : <<x, y>> \in R /\ <<y, z>> \in R => <<x, z>> \in R
  BY DEF Orders
<1>4. p \in F \ {ListTail} /\ L.next[p] = t /\ <<p, t>> \in R
  <2>1. p \in F \ {ListTail} /\ L.next[p] = t
    BY DEF Linked
  <2> QED
    BY <2>1 DEF Linked
<1>5. /\ F \subseteq ListNodes /\ B \subseteq ListNodes /\ s \in B /\ e \in B
      /\ ListHead \in F /\ ListTail \in F /\ ListHead # ListTail /\ ListHead \notin B /\ ListTail \notin B
      /\ DOMAIN L.next = ListNodes /\ DOMAIN L.prev = ListNodes
  BY PlacesAreNodes DEF Linked, Chain
<1>6. \A x \in B : (s = x \/ <<s, x>> \in R) /\ (x = e \/ <<x, e>> \in R)
  BY DEF Chain, Leq
<1> HIDE DEF Q, p
<1>7. /\ M.next = [[L.next EXCEPT ![p] = s] EXCEPT ![e] = t]
      /\ M.prev = [[L.prev EXCEPT ![s] = p] EXCEPT ![t] = e]
  BY DEF InsertBefore, p
<1> HIDE DEF M
<1>8. /\ \A x \in ListNodes : M.next[x] = IF x = e THEN t ELSE IF x = p THEN s ELSE L.next[x]
      /\ \A x \in ListNodes : M.prev[x] = IF x = t THEN e ELSE IF x = s THEN p ELSE L.prev[x]
  BY <1>5, <1>7
<1>9. ASSUME NEW x \in (F \cup B) \ {ListTail}
      PROVE  /\ M.next[x] \in F \cup B /\ <<x, M.next[x]>> \in Q
             /\ \A z \in F \cup B : <<x, z>> \in Q => Leq(Q, M.next[x], z)
  <2>1. CASE x = p
    <3>1. M.next[x] = s /\ x \in F
      BY <2>1, <1>4, <1>5, <1>8
    <3>2. <<x, s>> \in Q
      BY <3>1, <2>1, <1>4, <1>1, <1>5
    <3>3. ASSUME NEW z \in F, <<x, z>> \in Q PROVE s = z \/ <<s, z>> \in Q
      <4>1. <<x, z>> \in R
        BY <3>3, <3>1, <1>1
      <4>2. t = z \/ <<t, z>> \in R
        BY <4>1, <2>1, <1>4 DEF Linked, Leq
      <4> QED
        BY <4>2, <1>1, <1>5
    <3>4. ASSUME NEW z \in B PROVE s = z \/ <<s, z>> \in Q
      BY <1>6, <1>1, <1>5
    <3> QED
      BY <3>1, <3>2, <3>3, <3>4, <1>5 DEF Leq
  <2>2. CASE x \in F /\ x # p
    <3> DEFINE y == L.next[x]
    <3>1. M.next[x] = y
      BY <2>2, <1>5, <1>8
    <3>2. y \in F /\ <<x, y>> \in R /\ \A z \in F : <<x, z>> \in R => y = z \/ <<y, z>> \in R
      BY <2>2 DEF Linked, Leq
    <3>3. y # t
      BY <2>2, <1>4, NextTells
    <3> HIDE DEF y
    <3>4. <<x, y>> \in Q
      BY <3>2, <2>2, <1>1
    <3>5. ASSUME NEW z \in F, <<x, z>> \in Q PROVE y = z \/ <<y, z>> \in Q
      BY <3>5, <3>2, <2>2, <1>1
    <3>6. ASSUME NEW z \in B, <<x, z>> \in Q PROVE <<y, z>> \in Q
      <4>1. <<x, t>> \in R
        BY <3>6, <2>2, <1>1
      <4>2. <<y, t>> \in R
        BY <4>1, <3>2, <3>3
      <4> QED
        BY <4>2, <3>2, <1>1
    <3> QED
      BY <3>1, <3>2, <3>4, <3>5, <3>6 DEF Leq
  <2>3. CASE x = e
    <3>1. M.next[x] = t
      BY <2>3, <1>5, <1>8
    <3>2. <<x, t>> \in Q
      BY <2>3, <1>1, <1>5
    <3>3. ASSUME NEW z \in F, <<x, z>> \in Q PROVE t = z \/ <<t, z>> \in Q
      BY <3>3, <2>3, <1>1, <1>5
    <3>4. ASSUME NEW z \in B, <<x, z>> \in Q PROVE FALSE
      <4>1. <<e, z>> \in R
        BY <3>4, <2>3, <1>1, <1>5
      <4> QED
        BY <4>1, <1>6, <1>3, <1>5
    <3> QED
      BY <3>1, <3>2, <3>3, <3>4 DEF Leq
  <2>4. CASE x \in B /\ x # e
    <3> DEFINE y == L.next[x]
    <3>1. M.next[x] = y
      BY <2>4, <1>4, <1>5, <1>8
    <3>2. y \in B /\ <<x, y>> \in R /\ \A z \in B : <<x, z>> \in R => y = z \/ <<y, z>> \in R
      BY <2>4 DEF Chain, Leq
    <3> HIDE DEF y
    <3>3. \A z \in F : <<x, z>> \in Q => <<y, z>> \in Q
      BY <3>2, <2>4, <1>1
    <3>4. \A z \in B : <<x, z>> \in Q => y = z \/ <<y, z>> \in Q
      BY <3>2, <2>4, <1>1
    <3> QED
      BY <3>1, <3>2, <3>3, <3>4, <2>4, <1>1 DEF Leq
  <2> QED
    BY <2>1, <2>2, <2>3, <2>4
<1>10. ASSUME NEW x \in F \ {ListHead}, L.prev[x] # None
       PROVE  M.prev[x] \in (F \cup B) \ {ListTail} /\ M.next[M.prev[x]] = x
  <2>1. CASE x = t
    BY <2>1, <1>8, <1>5
  <2>2. CASE x # t
    <3> DEFINE q == L.prev[x]
    <3>1. M.prev[x] = q
      BY <2>2, <1>8, <1>5
    <3>2. q \in F \ {ListTail} /\ L.next[q] = x
      BY <1>10 DEF Linked
    <3> HIDE DEF q
    <3>3. q # p /\ q # e
      BY <3>2, <2>2, <1>4, <1>5
    <3> QED
      BY <3>1, <3>2, <3>3, <1>8, <1>5
  <2> QED
    BY <2>1, <2>2
<1>11. ASSUME NEW x \in B
       PROVE  M.prev[x] \in (F \cup B) \ {ListTail} /\ M.next[M.prev[x]] = x
  <2>1. CASE x = s
    BY <2>1, <1>8, <1>5, <1>4
  <2>2. CASE x # s
    <3> DEFINE q == L.prev[x]
    <3>1. M.prev[x] = q
      BY <2>2, <1>8, <1>5
    <3>2. q \in B \ {e} /\ L.next[q] = x
      BY <2>2 DEF Chain
    <3> HIDE DEF q
    <3>3. q # p
      BY <3>2, <1>4
    <3> QED
      BY <3>1, <3>2, <3>3, <1>8, <1>5
  <2> QED
    BY <2>1, <2>2
<1>12. \A x \in F \ {ListHead, ListTail} : L.prev[x] # None
  <2>1. \A x \in F \ {ListHead, ListTail} : L.prev[x] \in Nat
    <3>1. ListNodes \subseteq Nat
      BY PlacesAreNodes DEF ListNodes
    <3>2. \A x \in F \ {ListHead, ListTail} : L.prev[x] \in F
      BY DEF Linked
    <3> QED
      BY <3>1, <3>2, <1>5
  <2> QED
    BY <2>1, ReplaceAssumption
<1>13. \A x \in (F \cup B) \ {ListHead, ListTail} : M.prev[x] \in (F \cup B) \ {ListTail} /\ M.next[M.prev[x]] = x
  BY <1>10, <1>11, <1>12
<1>14. M.prev[ListTail] # None => M.prev[ListTail] \in (F \cup B) \ {ListTail} /\ M.next[M.prev[ListTail]] = ListTail
  <2>1. CASE ListTail = t
    BY <2>1, <1>10, <1>5 DEF p
  <2>2. CASE ListTail # t
    <3>1. M.prev[ListTail] = L.prev[ListTail]
      BY <2>2, <1>8, <1>5
    <3> QED
      BY <3>1, <1>10, <1>5
  <2> QED
    BY <2>1, <2>2
<1>15. \A x \in F \cup B : Leq(Q, ListHead, x) /\ Leq(Q, x, ListTail)
  <2>1. \A x \in F : (ListHead = x \/ <<ListHead, x>> \in R) /\ (x = ListTail \/ <<x, ListTail>> \in R)
    BY DEF Linked, Leq
  <2>2. \A x \in F : Leq(Q, ListHead, x) /\ Leq(Q, x, ListTail)
    BY <2>1, <1>1, <1>5 DEF Leq
  <2>3. \A x \in B : <<ListHead, x>> \in Q /\ <<x, ListTail>> \in Q
    BY <2>1, <1>1, <1>5
  <2> QED
    BY <2>2, <2>3 DEF Leq
<1>16. /\ DOMAIN M.next = ListNodes /\ DOMAIN M.prev = ListNodes
       /\ \A x \in ListNodes \ {ListTail} : M.next[x] \in ListNodes
  BY <1>7, <1>8, <1>5 DEF Linked
<1>17. F \cup B \subseteq ListNodes /\ ListHead \in F \cup B /\ ListTail \in F \cup B
  BY <1>5
<1>18. Linked(M, F \cup B, Q)
  BY <1>2, <1>9, <1>13, <1>14, <1>15, <1>16, <1>17 DEF Linked
<1>19. ASSUME NEW x \in F, L.prev[x] # None PROVE M.prev[x] # None
  <2>1. M.prev[x] = e \/ M.prev[x] = L.prev[x]
    BY <1>8, <1>5
  <2>2. e # None
    BY <1>5, ReplaceAssumption DEF ListNodes
  <2> QED
    BY <2>1, <2>2, <1>19
<1> QED
  BY <1>18, <1>7, <1>4, <1>19 DEF Q, p, M, Inserted

-----------------------------------------------------------------------------
(* snip takes a run of the list out: what is between its ends.             *)
BlockRun(L, E, R, start, S) ==
  LET run == Run(L, start, S)
      end == SnipEnd(run)
  IN /\ run[0] = start /\ end \in E \ {ListHead, ListTail} /\ Leq(R, start, end)
     /\ SnipSet(run) = Between(E, R, start, end)
     /\ SnipSet(run) \subseteq S \cup {start}
LEMMA RunIsBlock ==
  ASSUME NEW L, NEW E, NEW R, Linked(L, E, R), NEW start \in E \ {ListHead, ListTail}, NEW S \in SUBSET Positions,
         input \in Seq(ProviderRecords)
  PROVE  BlockRun(L, E, R, start, S)
<1> DEFINE run == Run(L, start, S)
           N == Len(input)
           Fine(k) == /\ run[k] \in E \ {ListHead, ListTail} /\ Leq(R, start, run[k])
                      /\ \A z : z \in Between(E, R, start, run[k]) <=> \E j \in 0 .. k : z = run[j]
                      /\ \A j \in 0 .. k : run[j] \in S \cup {start}
           T == {k \in 0 .. N : ~Fine(k)}
<1>1. N \in Nat /\ Positions = ListNodes \ {ListHead, ListTail}
  BY PlacesAreNodes
<1>2. start \in Positions
  BY <1>1 DEF Linked
<1>3. /\ run \in [0 .. N -> Positions] /\ run[0] = start
      /\ \A k \in 1 .. N : run[k] = IF L.next[run[k - 1]] \in S THEN L.next[run[k - 1]] ELSE run[k - 1]
  <2>1. IsRun(run, L, start, S)
    BY <1>1, <1>2, RunWalks
  <2> HIDE DEF run
  <2> QED
    BY <2>1 DEF IsRun
<1> HIDE DEF run, N
<1>4. /\ \A x \in E : <<x, x>> \notin R
      /\ \A x, y \in E : x = y \/ <<x, y>> \in R \/ <<y, x>> \in R
      /\ \A x, y, z \in E : <<x, y>> \in R /\ <<y, z>> \in R => <<x, z>> \in R
  BY DEF Linked, Orders
<1>5. Fine(0)
  <2>1. run[0] = start
    BY <1>3
  <2>2. \A z : z \in Between(E, R, start, start) <=> z = start
    BY <1>4 DEF Between, Leq
  <2> QED
    BY <2>1, <2>2 DEF Leq
<1>6. ASSUME NEW k \in 1 .. N, Fine(k - 1) PROVE Fine(k)
  <2> DEFINE x == run[k - 1]
             y == L.next[x]
  <2>1. /\ x \in E \ {ListHead, ListTail} /\ (start = x \/ <<start, x>> \in R)
        /\ \A z : z \in Between(E, R, start, x) <=> \E j \in 0 .. k - 1 : z = run[j]
        /\ \A j \in 0 .. k - 1 : run[j] \in S \cup {start}
    BY <1>6 DEF Leq
  <2>2. y \in E /\ <<x, y>> \in R /\ \A z \in E : <<x, z>> \in R => y = z \/ <<y, z>> \in R
    BY <2>1 DEF Linked, Leq
  <2>3. run[k] = IF y \in S THEN y ELSE x
    BY <1>3
  <2>4. \A j \in 0 .. k : j \in 0 .. k - 1 \/ j = k
    OBVIOUS
  <2>7. \A j \in 0 .. k - 1 : j \in 0 .. k
    BY <1>1 DEF N
  <2>8. k \in 0 .. k /\ k - 1 \in 0 .. k - 1
    OBVIOUS
  <2> HIDE DEF x, y
  <2>5. CASE y \in S
    <3>1. run[k] = y
      BY <2>5, <2>3
    <3>2. y \in E \ {ListHead, ListTail}
      BY <2>5, <2>2, <1>1
    <3>3. <<start, y>> \in R
      BY <2>1, <2>2, <1>4
    <3>4. ASSUME NEW z PROVE z \in Between(E, R, start, y) <=> z \in Between(E, R, start, x) \/ z = y
      <4>1. \A w \in E : <<w, y>> \in R => w = x \/ <<w, x>> \in R
        BY <2>1, <2>2, <1>4
      <4>2. \A w \in E : w = x \/ <<w, x>> \in R => <<w, y>> \in R
        BY <2>1, <2>2, <1>4
      <4> QED
        BY <4>1, <4>2, <3>2, <3>3 DEF Between, Leq
    <3>5. \A z : z \in Between(E, R, start, y) <=> \E j \in 0 .. k : z = run[j]
      BY <3>1, <3>4, <2>1, <2>4, <2>7, <2>8
    <3>6. \A j \in 0 .. k : run[j] \in S \cup {start}
      BY <3>1, <2>5, <2>1, <2>4
    <3> QED
      BY <3>1, <3>2, <3>3, <3>5, <3>6 DEF Leq
  <2>6. CASE y \notin S
    <3>1. run[k] = x
      BY <2>6, <2>3
    <3>5. \A z : z \in Between(E, R, start, x) <=> \E j \in 0 .. k : z = run[j]
      <4>1. run[k] = run[k - 1]
        BY <3>1 DEF x
      <4> QED
        BY <4>1, <2>1, <2>4, <2>7, <2>8
    <3>6. \A j \in 0 .. k : run[j] \in S \cup {start}
      <4>1. run[k] = run[k - 1]
        BY <3>1 DEF x
      <4> QED
        BY <4>1, <2>1, <2>4, <2>8
    <3> QED
      BY <3>1, <3>5, <3>6, <2>1 DEF Leq
  <2> QED
    BY <2>5, <2>6
<1> HIDE DEF Fine
<1>7. T = {}
  <2> SUFFICES ASSUME T # {} PROVE FALSE
    OBVIOUS
  <2>1. PICK k \in T : \A j \in T : k <= j
    <3>1. T \in SUBSET Nat
      BY <1>1
    <3> HIDE DEF T
    <3> QED
      BY <3>1, NatMin
  <2>2. k # 0
    BY <1>5
  <2>3. k \in 1 .. N /\ k - 1 \in 0 .. N /\ k - 1 \notin T
    BY <2>1, <2>2, <1>1
  <2> QED
    BY <2>3, <1>6
<1>8. Fine(N)
  BY <1>7, <1>1
<1>9. SnipEnd(run) = run[N]
  BY DEF SnipEnd, N
<1>10. SnipSet(run) = {run[j] : j \in 0 .. N}
  BY <1>3 DEF SnipSet
<1> QED
  BY <1>3, <1>8, <1>9, <1>10 DEF Fine, run, BlockRun

(* The target's run goes from its first to its last provider.              *)
LEMMA TargetRun ==
  ASSUME NEW L, NEW t, NEW i \in Positions, NEW j \in i .. Len(input), Named(t) = i .. j,
         \A k \in i .. (j - 1) : L.next[k] = k + 1, L.next[j] \notin Named(t), input \in Seq(ProviderRecords)
  PROVE  SnipEnd(Run(L, i, Named(t))) = j
<1> DEFINE run == Run(L, i, Named(t))
           N == Len(input)
           T == {k \in 0 .. N : run[k] # IF i + k <= j THEN i + k ELSE j}
<1>1. Positions = 1 .. N /\ N \in Nat /\ Named(t) \subseteq Positions
  BY PlacesAreNodes DEF Named
<1>2. /\ run[0] = i
      /\ \A k \in 1 .. N : run[k] = IF L.next[run[k - 1]] \in Named(t) THEN L.next[run[k - 1]] ELSE run[k - 1]
  <2>1. IsRun(run, L, i, Named(t))
    BY <1>1, RunWalks
  <2> HIDE DEF run
  <2> QED
    BY <2>1 DEF IsRun
<1> HIDE DEF run, N
<1>3. T = {}
  <2> SUFFICES ASSUME T # {} PROVE FALSE
    OBVIOUS
  <2>1. PICK k \in T : \A l \in T : k <= l
    <3>1. T \in SUBSET Nat
      BY <1>1
    <3> HIDE DEF T
    <3> QED
      BY <3>1, NatMin
  <2>2. k # 0
    BY <1>2, <1>1, <2>1 DEF N
  <2>3. k \in 1 .. N /\ k - 1 \in 0 .. N /\ k - 1 \notin T
    BY <2>1, <2>2, <1>1
  <2>4. run[k - 1] = IF i + (k - 1) <= j THEN i + (k - 1) ELSE j
    BY <2>3
  <2>5. CASE i + k <= j
    <3>1. run[k - 1] = i + (k - 1) /\ i + (k - 1) \in i .. (j - 1)
      BY <2>4, <2>5, <2>3, <1>1 DEF N
    <3>2. L.next[run[k - 1]] = i + k /\ i + k \in i .. j
      <4>1. L.next[i + (k - 1)] = (i + (k - 1)) + 1
        BY <3>1
      <4> QED
        BY <4>1, <3>1, <2>5, <2>3, <1>1 DEF N
    <3>3. run[k] = i + k
      BY <3>2, <1>2, <2>3
    <3> QED
      BY <3>3, <2>5, <2>1
  <2>6. CASE ~(i + k <= j)
    <3>1. run[k - 1] = j
      BY <2>4, <2>6, <2>3, <1>1 DEF N
    <3>2. run[k] = j
      BY <3>1, <1>2, <2>3
    <3> QED
      BY <3>2, <2>6, <2>1
  <2> QED
    BY <2>5, <2>6
<1>4. run[N] = IF i + N <= j THEN i + N ELSE j
  BY <1>3, <1>1
<1>5. run[N] = j
  BY <1>4, <1>1 DEF N
<1> QED
  BY <1>5 DEF SnipEnd, run, N

(* A name that is in the index stands for the places from first to last.   *)
LEMMA IndexIs ==
  ASSUME NEW t \in Names, Index(input, t) # Missing, input \in Seq(ProviderRecords)
  PROVE  LET r == Index(input, t) IN
         r.first \in Positions /\ r.last \in r.first .. Len(input) /\ Named(t) = r.first .. r.last
<1> DEFINE starts == RunStarts(input, t)
           N == Len(input)
<1>1. Positions = 1 .. N /\ N \in Nat /\ DOMAIN input = 1 .. N
  BY PlacesAreNodes DEF Positions
<1>2. PICK i \in starts : starts = {i}
  BY DEF Index
<1>3. (CHOOSE x \in starts : TRUE) = i
  BY <1>2
<1> DEFINE Ends1(j) == (\A k \in i .. j : input[k].origin = t) /\ (j = N \/ input[j + 1].origin # t)
           e == CHOOSE j \in i .. N : Ends1(j)
<1>4. Index(input, t) = [first |-> i, last |-> e]
  <2>1. Index(input, t) = [first |-> i, last |-> RunEnd(input, t, i)]
    <3> HIDE DEF starts
    <3> QED
      BY <1>2, <1>3 DEF Index, starts
  <2>2. RunEnd(input, t, i) = e
    BY DEF RunEnd
  <2> QED
    BY <2>1, <2>2
<1> HIDE DEF e, N
<1>5. i \in 1 .. N /\ input[i].origin = t /\ \A k \in 1 .. N : input[k].origin = t /\ k # i => k > 1 /\ input[k - 1].origin = t
  <2>1. \A k : k \in starts <=> k \in 1 .. N /\ input[k].origin = t /\ (k = 1 \/ input[k - 1].origin # t)
    BY <1>1 DEF RunStarts
  <2>2. \A k : k \in starts <=> k = i
    BY <1>2
  <2> HIDE DEF starts
  <2>3. ASSUME NEW k \in 1 .. N, input[k].origin = t, k # i PROVE k > 1 /\ input[k - 1].origin = t
    <3>1. ~(k = 1 \/ input[k - 1].origin # t)
      BY <2>1, <2>2, <2>3
    <3> QED
      BY <3>1, <1>1
  <2> QED
    BY <2>1, <2>2, <2>3
<1> HIDE DEF starts
<1>6. \E j \in i .. N : Ends1(j)
  <2> DEFINE T == {j \in i .. N : j = N \/ input[j + 1].origin # t}
  <2>1. T \in SUBSET Nat /\ N \in T
    BY <1>1, <1>5
  <2>2. PICK j \in T : \A l \in T : j <= l
    <3> HIDE DEF T
    <3> QED
      BY <2>1, NatMin
  <2> DEFINE U == {k \in i .. j : input[k].origin # t}
  <2>3. U = {}
    <3> SUFFICES ASSUME U # {} PROVE FALSE
      OBVIOUS
    <3>1. PICK k \in U : \A l \in U : k <= l
      <4>1. U \in SUBSET Nat
        BY <1>1, <1>5
      <4> HIDE DEF U
      <4> QED
        BY <4>1, NatMin
    <3>2. k # i
      BY <1>5
    <3>3. k - 1 \in i .. N /\ input[(k - 1) + 1].origin # t
      BY <3>1, <3>2, <1>1, <1>5
    <3>4. k - 1 \in T
      BY <3>3
    <3> QED
      BY <3>4, <2>2, <1>1, <1>5
  <2> QED
    BY <2>2, <2>3
<1>7. e \in i .. N /\ Ends1(e)
  <2> HIDE DEF Ends1
  <2> QED
    BY <1>6 DEF e
<1>8. Named(t) \subseteq i .. e
  <2> DEFINE T == {k \in Named(t) : ~(k \in i .. e)}
  <2>1. T = {}
    <3> SUFFICES ASSUME T # {} PROVE FALSE
      OBVIOUS
    <3>1. PICK k \in T : \A l \in T : k <= l
      <4>1. T \in SUBSET Nat
        BY <1>1 DEF Named
      <4> HIDE DEF T
      <4> QED
        BY <4>1, NatMin
    <3>2. k \in 1 .. N /\ input[k].origin = t /\ k # i
      BY <1>1, <1>7 DEF Named
    <3>3. k - 1 \in Named(t)
      BY <3>2, <1>5, <1>1 DEF Named
    <3>4. k - 1 \in i .. e
      BY <3>1, <3>3, <3>2
    <3>5. k = e + 1
      <4>1. ~(k \in i .. e)
        BY <3>1
      <4>2. k \in Nat /\ i \in Nat /\ e \in Nat
        BY <3>2, <1>7, <1>5, <1>1
      <4> QED
        BY <4>1, <4>2, <3>4
    <3> QED
      BY <3>5, <3>2, <1>7, <1>1
  <2> QED
    BY <2>1
<1>9. i .. e \subseteq Named(t)
  BY <1>7, <1>1, <1>5 DEF Named
<1> QED
  <2> DEFINE r == Index(input, t)
  <2>1. r.first = i /\ r.last = e
    BY <1>4
  <2>2. Named(t) = i .. e /\ i \in Positions /\ e \in i .. Len(input)
    BY <1>5, <1>7, <1>8, <1>9, <1>1 DEF N
  <2> HIDE DEF r
  <2>3. r.first \in Positions /\ r.last \in r.first .. Len(input) /\ Named(t) = r.first .. r.last
    BY <2>1, <2>2
  <2> QED
    BY <2>3 DEF r

-----------------------------------------------------------------------------
(* What the walk keeps.  A provider whose name replace has met is gone;    *)
(* the list has all others.                                                *)
Ordering == {"replace", "before", "after"}
TargetsArePlain == \A in \in Inputs : PlainTargets(in)
OneSided == \A in \in Inputs : SameSide(in)

Gone == {i \in Positions : \E j \in processed : Op(j) = "replace" /\ Target(j) = input[i].origin}
Elems == {ListHead, ListTail} \cup (Positions \ Gone)
Targets == {Target(d) : d \in {e \in Positions : Op(e) \in Ordering}}

(* The index is as it was, but for the names that were replaced, and a     *)
(* target's providers are still next to each other.                        *)
Indexed ==
  \A t \in Targets :
    names[t] # Missing =>
      /\ names[t] = Index(input, t)
      /\ \A j \in processed : ~(Op(j) = "replace" /\ Target(j) = t)
      /\ \A k \in names[t].first .. (names[t].last - 1) : next[k] = k + 1

(* Whoever was moved is where it asked to be. *)
Unmarked == {z \in Elems \cap Positions : Op(z) = "none"}
Stands(R, d) ==
  LET t == Index(input, Target(d)) IN
  /\ Op(d) = "before" /\ t.first \in Elems =>
       <<d, t.first>> \in R /\ \A z \in Unmarked : ~(<<d, z>> \in R /\ <<z, t.first>> \in R)
  /\ Op(d) = "after" /\ t.last \in Elems =>
       <<t.last, d>> \in R /\ \A z \in Unmarked : ~(<<t.last, z>> \in R /\ <<z, d>> \in R)
  /\ Op(d) = "replace" =>
       \A z \in Unmarked : (z < t.first => <<z, d>> \in R) /\ (z > t.last => <<d, z>> \in R)

(* R is the order of the list. *)
Editing(R) ==
  /\ Linked(Links, Elems, R)
  /\ \A i, j \in Elems \ processed : <<i, j>> \in R <=> i < j
  /\ n \in Elems \ {ListHead}
  /\ \A x \in Elems \cap Positions : <<x, n>> \in R => x \in processed \/ Op(x) = "none"
  /\ \A d \in processed \cap Elems :
       Op(d) \in Ordering /\ Index(input, Target(d)) # Missing /\ Stands(R, d)

EditInv ==
  /\ input \in Inputs /\ processed \subseteq Positions /\ DOMAIN names = Names
  /\ stage = "walk" => /\ \A i \in Positions : Op(i) # "several"
                       /\ Indexed
                       /\ \E R : Editing(R)
  /\ stage = "done" => NothingLost /\ PlacedAsAsked

-----------------------------------------------------------------------------
(* What is known of a collection to edit.                                  *)
LEMMA InputIs ==
  ASSUME input \in Inputs
  PROVE  /\ input \in Seq(ProviderRecords)
         /\ Positions = 1 .. Len(input) /\ Len(input) \in Nat /\ ListHead \notin Positions /\ ListTail \notin Positions
         /\ Positions = ListNodes \ {ListHead, ListTail} /\ ListHead # ListTail
         /\ \A i \in Positions : Op(i) \in Ordering => Target(i) \in Names /\ Target(i) # None
         /\ \A i \in Positions : Op(i) \in Ops
<1>1. input \in Seq(ProviderRecords)
  BY ReplaceAssumption
<1>2. \A i \in Positions : Op(i) \in Ordering => Target(i) \in Names
  BY ReplaceAssumption DEF Op, Target, Ordering, Positions
<1>3. \A i \in Positions : Op(i) \in Ops
  <2>1. \A i \in Positions : input[i] \in ProviderRecords
    BY <1>1 DEF Positions
  <2> QED
    BY <2>1 DEF Op, ProviderRecords
<1> QED
  BY <1>1, <1>2, <1>3, PlacesAreNodes, ReplaceAssumption

(* What is to be known of an edit that puts the run B, whose providers it  *)
(* has processed, before t, for all that is not about B.                   *)
Unaffected(R, F, B, t) ==
  LET Q == Moved(R, F, B, t) IN
  /\ \A i, j \in (Elems \ processed)' : <<i, j>> \in Q <=> i < j
  /\ n' \in (Elems \ {ListHead})'
  /\ \A x \in (Elems \cap Positions)' : <<x, n'>> \in Q => x \in processed' \/ Op(x) = "none"
  /\ \A d \in processed' \cap F :
       Op(d) \in Ordering /\ Index(input, Target(d)) # Missing /\ Stands(R, d)
  /\ Unmarked' \subseteq Unmarked \cap F
  /\ \A d \in processed' \cap F : \A Q1 : Q1 = Q => Stands(Q1, d)'
LEMMA OthersStay ==
  ASSUME NEW R, NEW F, NEW B, NEW t \in F, NEW P, NEW a \in F \ {ListHead},
         EditInv, Editing(R), input' = input, n' = a, processed' = processed \cup P,
         Elems' = F \cup B, B \cap F = {}, F \subseteq Elems, B \subseteq P, P \cap F = {},
         \A z \in F : <<z, n>> \in R \/ Leq(R, a, z), Orders(R, F),
         \A d \in B : Op(d) \in Ordering, TargetsArePlain
  PROVE  Unaffected(R, F, B, t)
<1> DEFINE Q == Moved(R, F, B, t)
<1>1. /\ \A x, y \in B : <<x, y>> \in Q <=> <<x, y>> \in R
      /\ \A x \in B, y \in F : <<x, y>> \in Q <=> t = y \/ <<t, y>> \in R
      /\ \A x \in F, y \in B : <<x, y>> \in Q <=> <<x, t>> \in R
      /\ \A x, y \in F : <<x, y>> \in Q <=> <<x, y>> \in R
  BY MovedIs
<1> HIDE DEF Q
<1>2. Positions' = Positions /\ ListHead' = ListHead /\ ListTail' = ListTail
  BY DEF Positions, ListHead, ListTail
<1>3. \A i, j \in (Elems \ processed)' : <<i, j>> \in Q <=> i < j
  <2>1. (Elems \ processed)' \subseteq F \cap (Elems \ processed)
    OBVIOUS
  <2> QED
    BY <2>1, <1>1 DEF Editing
<1>4. n' \in (Elems \ {ListHead})'
  BY <1>2
<1>5. ASSUME NEW x \in (Elems \cap Positions)', <<x, n'>> \in Q PROVE x \in processed' \/ Op(x) = "none"
  <2>1. CASE x \in B
    BY <2>1
  <2>2. CASE x \in F
    <3>1. <<x, a>> \in R
      BY <2>2, <1>5, <1>1
    <3>2. <<x, n>> \in R
      BY <3>1, <2>2 DEF Orders, Leq
    <3>3. x \in Elems \cap Positions
      BY <2>2, <1>2
    <3>4. x \in processed \/ Op(x) = "none"
      BY <3>2, <3>3 DEF Editing
    <3> QED
      BY <3>4
  <2> QED
    BY <2>1, <2>2
<1>6. processed' \cap F \subseteq processed \cap Elems
  OBVIOUS
<1>7. \A d \in processed' \cap F :
        Op(d) \in Ordering /\ Index(input, Target(d)) # Missing /\ Stands(R, d)
  BY <1>6 DEF Editing
<1>8. Unmarked' \subseteq Unmarked \cap F
  <2>1. \A x \in Positions : Op(x)' = Op(x)
    BY DEF Op
  <2>2. ASSUME NEW z \in Unmarked' PROVE z \in Unmarked \cap F
    <3>1. z \in F \cup B /\ z \in Positions /\ Op(z)' = "none"
      BY <1>2 DEF Unmarked
    <3>2. Op(z) = "none"
      BY <3>1, <2>1
    <3>3. z \notin B
      BY <3>2 DEF Ordering
    <3> QED
      BY <3>1, <3>2, <3>3 DEF Unmarked
  <2> QED
    BY <2>2
<1>9. ASSUME NEW d \in processed' \cap F PROVE \A Q1 : Q1 = Q => Stands(Q1, d)'
  <2> SUFFICES ASSUME NEW Q1, Q1 = Q PROVE Stands(Q1, d)'
    OBVIOUS
  <2> DEFINE r == Index(input, Target(d))
  <2>1. /\ Op(d)' = Op(d) /\ Target(d)' = Target(d)
        /\ Index(input, Target(d))' = r
    BY DEF Op, Target, Index, RunStarts, RunEnd, Missing
  <2>2. /\ Op(d) \in Ordering /\ r # Missing /\ Stands(R, d) /\ d \in Elems /\ d \in Positions
    BY <1>7, <1>6 DEF EditInv
  <2>3. Target(d) \in Names /\ input \in Seq(ProviderRecords) /\ input \in Inputs
    BY <2>2, InputIs DEF EditInv
  <2>4. /\ r.first \in Positions /\ r.last \in r.first .. Len(input)
        /\ Named(Target(d)) = r.first .. r.last
    BY <2>2, <2>3, IndexIs
  <2>5. \A z \in Named(Target(d)) : z \notin B
    <3>1. \A z \in Named(Target(d)) : Op(z) = "none"
      BY <2>2, <2>3 DEF TargetsArePlain, PlainTargets, Ordering, Op, Target, Named, Positions
    <3> QED
      BY <3>1 DEF Ordering
  <2>6. r.first \notin B /\ r.last \notin B
    <3>1. Len(input) \in Nat /\ Positions \subseteq Nat
      BY InputIs DEF EditInv
    <3> DEFINE f == r.first
               l == r.last
    <3>3. f \in Nat /\ l \in f .. Len(input) /\ Named(Target(d)) = f .. l
      BY <2>4, <3>1
    <3> HIDE DEF f, l
    <3>4. f \in f .. l /\ l \in f .. l
      BY <3>3, <3>1
    <3>2. r.first \in Named(Target(d)) /\ r.last \in Named(Target(d))
      BY <3>3, <3>4 DEF f, l
    <3> QED
      BY <3>2, <2>5
  <2> HIDE DEF r
  <2>7. /\ Op(d) = "before" /\ r.first \in Elems =>
            <<d, r.first>> \in R /\ \A z \in Unmarked : ~(<<d, z>> \in R /\ <<z, r.first>> \in R)
        /\ Op(d) = "after" /\ r.last \in Elems =>
            <<r.last, d>> \in R /\ \A z \in Unmarked : ~(<<r.last, z>> \in R /\ <<z, d>> \in R)
        /\ Op(d) = "replace" =>
            \A z \in Unmarked : (z < r.first => <<z, d>> \in R) /\ (z > r.last => <<d, z>> \in R)
    BY <2>2 DEF Stands, r
  <2>8. ASSUME Op(d) = "before", r.first \in Elems'
        PROVE  <<d, r.first>> \in Q /\ \A z \in Unmarked' : ~(<<d, z>> \in Q /\ <<z, r.first>> \in Q)
    BY <2>8, <2>7, <2>6, <1>1, <1>8
  <2>9. ASSUME Op(d) = "after", r.last \in Elems'
        PROVE  <<r.last, d>> \in Q /\ \A z \in Unmarked' : ~(<<r.last, z>> \in Q /\ <<z, d>> \in Q)
    BY <2>9, <2>7, <2>6, <1>1, <1>8
  <2>10. ASSUME Op(d) = "replace"
         PROVE  \A z \in Unmarked' : (z < r.first => <<z, d>> \in Q) /\ (z > r.last => <<d, z>> \in Q)
    BY <2>10, <2>7, <1>1, <1>8
  <2> QED
    BY <2>1, <2>8, <2>9, <2>10 DEF Stands
<1> QED
  BY <1>3, <1>4, <1>5, <1>7, <1>8, <1>9 DEF Q, Unaffected

(* The move of a directive's run, unless it meets the nil link of the tail. *)
MovedLinks(L, F, B, R, e, t, a, moved) ==
  \/ stage' = "crash" /\ processed' = processed
  \/ /\ stage' = stage /\ n' = a /\ processed' = processed \cup moved
     /\ Linked([next |-> next', prev |-> prev'], F \cup B, Moved(R, F, B, t))
     /\ next' = [[L.next EXCEPT ![L.prev[t]] = n] EXCEPT ![e] = t]
     /\ L.prev[t] \in F \ {ListTail} /\ L.next[L.prev[t]] = t
LEMMA MoveLinks ==
  ASSUME NEW L, NEW F, NEW B, NEW R, NEW e, NEW t \in F \ {ListHead}, NEW a \in F \ {ListHead}, NEW moved,
         input \in Seq(ProviderRecords), Linked(L, F, R), Chain(L, B, n, e, R), Orders(R, F \cup B),
         B \cap F = {}, L.prev[a] # None, Move(L, t, n, e, a, moved)
  PROVE  MovedLinks(L, F, B, R, e, t, a, moved)
<1>1. CASE L.prev[t] = None
  BY <1>1 DEF Move, End, MovedLinks
<1>2. CASE L.prev[t] # None
  <2> DEFINE M == InsertBefore(L, t, n, e)
  <2>1. /\ next' = M.next /\ prev' = M.prev /\ processed' = processed \cup moved
        /\ n' = M.next[M.prev[a]] /\ stage' = stage
    <3> HIDE DEF M
    <3>1. \E K \in {M} : /\ next' = K.next /\ prev' = K.prev /\ processed' = processed \cup moved
                         /\ n' = K.next[K.prev[a]] /\ UNCHANGED <<stage, contents>>
      BY <1>2 DEF Move, M
    <3> QED
      BY <3>1
  <2>2. /\ Linked(M, F \cup B, Moved(R, F, B, t))
        /\ M.next = [[L.next EXCEPT ![L.prev[t]] = n] EXCEPT ![e] = t]
        /\ L.prev[t] \in F \ {ListTail} /\ L.next[L.prev[t]] = t
        /\ \A x \in F : L.prev[x] # None => M.prev[x] # None
    <3>1. t \in F \ {ListHead} /\ L.prev[t] # None
      BY <1>2
    <3>2. Inserted(L, F, B, R, n, e, t)
      BY <3>1, InsertLinked
    <3> QED
      BY <3>2 DEF Inserted
  <2>3. M = [next |-> next', prev |-> prev']
    BY <2>1 DEF InsertBefore
  <2> HIDE DEF M
  <2>4. M.next[M.prev[a]] = a
    BY <2>2 DEF Linked
  <2> QED
    BY <2>1, <2>2, <2>3, <2>4 DEF MovedLinks
<1> QED
  BY <1>1, <1>2

(* A link of a node that is not in the list does not matter.               *)
LEMMA Elsewhere ==
  ASSUME NEW L, NEW F, NEW B, NEW R, NEW s, NEW e, NEW x \in ListNodes \ (F \cup B), NEW v \in ListNodes,
         Linked(L, F, R), Chain(L, B, s, e, R), B \subseteq ListNodes
  PROVE  LET M == [L EXCEPT !.next[x] = v] IN
         /\ Linked(M, F, R) /\ Chain(M, B, s, e, R)
         /\ M.prev = L.prev /\ M.next = [L.next EXCEPT ![x] = v]
<1> DEFINE M == [L EXCEPT !.next[x] = v]
<1>1. M.prev = L.prev /\ M.next = [L.next EXCEPT ![x] = v]
  OBVIOUS
<1> HIDE DEF M
<1>2. F \subseteq ListNodes /\ DOMAIN L.next = ListNodes
  BY DEF Linked
<1>3. DOMAIN M.next = ListNodes /\ \A y \in ListNodes : M.next[y] = IF y = x THEN v ELSE L.next[y]
  BY <1>1, <1>2
<1>4. \A y \in F \cup B : M.next[y] = L.next[y]
  BY <1>2, <1>3
<1>5. Linked(M, F, R)
  BY <1>1, <1>3, <1>4, <1>2 DEF Linked
<1>6. Chain(M, B, s, e, R)
  BY <1>1, <1>4 DEF Chain
<1> QED
  BY <1>1, <1>5, <1>6 DEF M

(* What the index has of a target: the places of its providers, which are  *)
(* next to each other on the list.                                         *)
Entry(x) ==
  LET r == names[x] IN
  /\ x \in Names /\ r = Index(input, x)
  /\ r.first \in Positions /\ r.last \in r.first .. Len(input)
  /\ Named(x) = r.first .. r.last
  /\ r.first \in Named(x) /\ r.last \in Named(x)
  /\ \A k \in r.first .. (r.last - 1) :
       next[k] = k + 1 /\ k \in Named(x) /\ k + 1 \in Named(x) /\ k # r.last /\ k + 1 # r.first
  /\ \A k \in Named(x) : k \in Elems /\ k \in Positions /\ Op(k) = "none" /\ k \notin processed
  /\ \A j \in processed : ~(Op(j) = "replace" /\ Target(j) = x)
LEMMA IndexedIs ==
  ASSUME EditInv, TargetsArePlain, NEW R, Editing(R), stage = "walk", NEW x \in Targets, names[x] # Missing
  PROVE  Entry(x)
<1> DEFINE r == names[x]
<1>1. input \in Inputs /\ input \in Seq(ProviderRecords) /\ Len(input) \in Nat /\ Positions \subseteq Nat
  BY InputIs DEF EditInv
<1>2. PICK d \in Positions : Op(d) \in Ordering /\ Target(d) = x
  BY DEF Targets
<1>3. x \in Names
  BY <1>2, <1>1, InputIs
<1>4. /\ r = Index(input, x)
      /\ \A j \in processed : ~(Op(j) = "replace" /\ Target(j) = x)
      /\ \A k \in r.first .. (r.last - 1) : next[k] = k + 1
  BY DEF EditInv, Indexed
<1>6. /\ r.first \in Positions /\ r.last \in r.first .. Len(input) /\ Named(x) = r.first .. r.last
  <2>1. Index(input, x) # Missing
    BY <1>4
  <2> DEFINE q == Index(input, x)
  <2>2. q.first \in Positions /\ q.last \in q.first .. Len(input) /\ Named(x) = q.first .. q.last
    BY <2>1, <1>3, <1>1, IndexIs
  <2> HIDE DEF q
  <2>3. r = q
    BY <1>4 DEF q
  <2> QED
    BY <2>2, <2>3
<1> HIDE DEF r
<1>7. /\ r.first \in Named(x) /\ r.last \in Named(x)
      /\ \A k \in r.first .. (r.last - 1) : k \in Named(x) /\ k + 1 \in Named(x) /\ k # r.last /\ k + 1 # r.first
  <2> DEFINE f == r.first
             l == r.last
  <2>1. f \in Nat /\ l \in f .. Len(input) /\ Named(x) = f .. l
    BY <1>6, <1>1
  <2> HIDE DEF f, l
  <2>2. f \in f .. l /\ l \in f .. l
    BY <2>1, <1>1
  <2>3. \A k \in f .. (l - 1) : k \in f .. l /\ k + 1 \in f .. l /\ k # l /\ k + 1 # f
    BY <2>1, <1>1
  <2> QED
    BY <2>1, <2>2, <2>3 DEF f, l
<1>8. ASSUME NEW k \in Named(x) PROVE k \in Elems /\ k \in Positions /\ Op(k) = "none" /\ k \notin processed
  <2>1. k \in Positions /\ input[k].origin = x
    BY DEF Named
  <2>2. k \in Elems
    BY <2>1, <1>4 DEF Elems, Gone
  <2>3. Op(k) = "none"
    BY <2>1, <1>1, <1>2 DEF TargetsArePlain, PlainTargets, Ordering, Op, Target, Positions
  <2>4. k \notin processed
    <3>1. \A c \in processed \cap Elems : Op(c) \in Ordering
      BY DEF Editing
    <3> QED
      BY <3>1, <2>2, <2>3 DEF Ordering
  <2> QED
    BY <2>1, <2>2, <2>3, <2>4
<1> QED
  BY <1>3, <1>4, <1>6, <1>7, <1>8 DEF Entry, r

(* The directive at hand.                                                  *)
LEMMA TargetIs ==
  ASSUME EditInv, TargetsArePlain, NEW R, Editing(R), At(Ordering), names[Target(n)] # Missing
  PROVE  /\ n \in Elems /\ n \in Positions /\ n \notin processed /\ Op(n) \in Ordering /\ n # ListHead /\ n # ListTail
         /\ Target(n) \in Targets /\ Entry(Target(n))
<1>1. n \in Positions /\ n \notin processed /\ Op(n) \in Ordering /\ stage = "walk"
  BY DEF At
<1>2. n \in Elems /\ input \in Inputs /\ n # ListHead /\ n # ListTail
  BY <1>1, InputIs DEF Editing, EditInv
<1>3. Target(n) \in Targets
  BY <1>1 DEF Targets
<1>4. Entry(Target(n))
  BY <1>1, <1>3, IndexedIs
<1> QED
  BY <1>1, <1>2, <1>3, <1>4

(* A run of insertions goes where the directives ask for.                  *)
LEMMA Inserting ==
  ASSUME EditInv, TargetsArePlain, NEW R, Editing(R), DoInsert
  PROVE  EditInv'
<1> DEFINE T == Target(n)
           r == names[T]
           S == SameDirective
           run == Run(Links, n, S)
           e == SnipEnd(run)
           B == SnipSet(run)
           F == Elems \ B
           L == Snip(Links, n, e)
           a == L.next[e]
           t == Place(L, r)
<1>1. /\ stage = "walk" /\ n \in Positions /\ n \notin processed /\ Op(n) \in {"before", "after"}
      /\ r # Missing /\ input' = input /\ names' = names
  BY DEF DoInsert, At
<1>2. Move(L, t, n, e, a, B)
  <2>1. \E m \in {Run(Links, n, S)} : \E L1 \in {Snip(Links, n, SnipEnd(m))} :
          Move(L1, Place(L1, names[Target(n)]), n, SnipEnd(m), L1.next[SnipEnd(m)], SnipSet(m))
    BY DEF DoInsert
  <2> QED
    BY <2>1
<1>3. input \in Inputs /\ input \in Seq(ProviderRecords) /\ Positions \subseteq Nat
  BY InputIs DEF EditInv
<1>4. /\ n \in Elems /\ Op(n) \in Ordering /\ n # ListHead /\ n # ListTail
      /\ T \in Names /\ T \in Targets /\ r = Index(input, T)
      /\ r.first \in Positions /\ r.last \in r.first .. Len(input) /\ Named(T) = r.first .. r.last
      /\ r.first \in Named(T) /\ r.last \in Named(T)
      /\ \A k \in Named(T) : k \in Elems /\ k \in Positions /\ Op(k) = "none" /\ k \notin processed
  <2>1. At(Ordering)
    BY <1>1 DEF At, Ordering
  <2>2. /\ n \in Elems /\ Op(n) \in Ordering /\ n # ListHead /\ n # ListTail /\ T \in Targets /\ Entry(T)
    BY <2>1, <1>1, TargetIs
  <2> QED
    BY <2>2 DEF Entry
<1>5. Linked(Links, Elems, R)
  BY DEF Editing
<1> HIDE DEF run, e, L, t, a, T, r
<1>6. BlockRun(Links, Elems, R, n, S)
  BY <1>3, <1>4, <1>5, RunIsBlock DEF SameDirective
<1>7. /\ e \in Elems \ {ListHead, ListTail} /\ Leq(R, n, e) /\ B = Between(Elems, R, n, e)
      /\ B \subseteq S \cup {n}
  BY <1>6 DEF BlockRun, run, e
<1>8. Snipped(Links, Elems, R, n, e)
  BY <1>3, <1>4, <1>5, <1>7, SnipLinked
<1>9. /\ Linked(L, F, R) /\ Chain(L, B, n, e, R)
      /\ Links.next[e] \in F \ {ListHead} /\ L.prev[Links.next[e]] # None
      /\ L.next = [Links.next EXCEPT ![Links.prev[n]] = Links.next[e]]
      /\ Links.prev[n] \in F \ {ListTail} /\ Links.next[Links.prev[n]] = n
      /\ \A z \in Elems : z \in B \/ <<z, n>> \in R \/ Leq(R, Links.next[e], z)
      /\ B \subseteq Elems /\ B \subseteq Positions
  BY <1>7, <1>8 DEF Snipped, L
<1> HIDE DEF B
<1>10. n \in B /\ e \in B /\ F \subseteq Elems /\ B \cap F = {} /\ F \cup B = Elems
  BY <1>9 DEF Chain
<1>11. a = Links.next[e]
  <2>1. e # Links.prev[n] /\ e \in DOMAIN Links.next
    BY <1>9, <1>10, <1>5 DEF Linked
  <2> QED
    BY <2>1, <1>9 DEF a
<1>12. \A d \in B : Op(d) = Op(n) /\ Target(d) = T
  BY <1>7 DEF SameDirective, T
<1>13. \A k \in Named(T) : k \in F
  BY <1>4, <1>12, <1>1
<1>14. t \in F \ {ListHead} /\ (Op(n) = "before" => t = r.first) /\ (Op(n) = "after" => t = L.next[r.last])
  <2>1. CASE Op(n) = "before"
    <3>1. t = r.first
      BY <2>1 DEF t, Place
    <3> QED
      BY <3>1, <2>1, <1>4, <1>13, <1>3, InputIs DEF EditInv
  <2>2. CASE Op(n) = "after"
    <3>1. t = L.next[r.last]
      BY <2>2 DEF t, Place
    <3>2. r.last \in F \ {ListTail}
      BY <1>4, <1>13, InputIs DEF EditInv
    <3>3. t \in F /\ <<r.last, t>> \in R
      BY <3>1, <3>2, <1>9 DEF Linked
    <3>4. t # ListHead
      BY <3>2, <3>3, <1>9 DEF Linked, Orders, Leq
    <3> QED
      BY <3>1, <3>3, <3>4, <2>2
  <2> QED
    BY <2>1, <2>2, <1>1
<1>15. Orders(R, F \cup B) /\ Orders(R, F)
  <2>1. Orders(R, Elems)
    BY <1>5 DEF Linked
  <2> QED
    BY <2>1, <1>10 DEF Orders
<1>16. \/ stage' = "crash" /\ processed' = processed
       \/ /\ stage' = stage /\ n' = a /\ processed' = processed \cup B
          /\ Linked([next |-> next', prev |-> prev'], F \cup B, Moved(R, F, B, t))
          /\ next' = [[L.next EXCEPT ![L.prev[t]] = n] EXCEPT ![e] = t]
          /\ L.prev[t] \in F \ {ListTail} /\ L.next[L.prev[t]] = t
  <2>1. a \in F \ {ListHead} /\ L.prev[a] # None /\ t \in F \ {ListHead}
    BY <1>9, <1>11, <1>14
  <2>2. Linked(L, F, R) /\ Chain(L, B, n, e, R) /\ Orders(R, F \cup B) /\ B \cap F = {}
    BY <1>9, <1>10, <1>15
  <2> HIDE DEF F
  <2>3. MovedLinks(L, F, B, R, e, t, a, B)
    BY ONLY <2>1, <2>2, <1>2, <1>3, MoveLinks
  <2> QED
    BY ONLY <2>3 DEF MovedLinks
<1>17. Positions' = Positions /\ ListHead' = ListHead /\ ListTail' = ListTail /\ ListNodes' = ListNodes /\ Targets' = Targets
  BY <1>1 DEF Positions, ListHead, ListTail, ListNodes, Targets, Op, Target
<1>18. CASE stage' = "crash" /\ processed' = processed
  BY <1>18, <1>1, <1>17 DEF EditInv
<1>19. CASE /\ stage' = stage /\ n' = a /\ processed' = processed \cup B
            /\ Linked([next |-> next', prev |-> prev'], F \cup B, Moved(R, F, B, t))
            /\ next' = [[L.next EXCEPT ![L.prev[t]] = n] EXCEPT ![e] = t]
            /\ L.prev[t] \in F \ {ListTail} /\ L.next[L.prev[t]] = t
  <2>1. \A i : Op(i)' = Op(i) /\ Target(i)' = Target(i)
    BY <1>1 DEF Op, Target
  <2>2. \A x : Index(input, x)' = Index(input, x)
    BY <1>1 DEF Index, RunStarts, RunEnd, Missing
  <2>3. Elems' = Elems
    <3>1. \A j \in B : Op(j) # "replace"
      BY <1>12, <1>1
    <3>2. Gone' = Gone
      BY <3>1, <2>1, <1>19, <1>17, <1>1 DEF Gone
    <3> QED
      BY <3>2, <1>17 DEF Elems
  <2>4. Unaffected(R, F, B, t)
    <3>1. \A z \in F : <<z, n>> \in R \/ Leq(R, a, z)
      BY <1>9, <1>10, <1>11
    <3>2. \A d \in B : Op(d) \in Ordering
      BY <1>12, <1>4
    <3>3. a \in F \ {ListHead} /\ t \in F
      BY <1>9, <1>11, <1>14
    <3> HIDE DEF F
    <3> QED
      BY <3>1, <3>2, <3>3, <2>3, <1>1, <1>10, <1>15, <1>19, OthersStay
  <2>5. PICK Q : Q = Moved(R, F, B, t)
    OBVIOUS
  <2>6. /\ \A x \in B, y \in F : <<x, y>> \in Q <=> t = y \/ <<t, y>> \in R
        /\ \A x \in F, y \in B : <<x, y>> \in Q <=> <<x, t>> \in R
    BY <2>5, <1>10, MovedIs
  <2>7. ASSUME NEW d \in B PROVE Index(input, Target(d)) # Missing /\ Stands(Q, d)'
    <3>1. Target(d) = T /\ Op(d) = Op(n) /\ Index(input, Target(d)) = r
      BY <1>12, <1>4
    <3>2. Unmarked' \subseteq F /\ Unmarked' \subseteq Elems
      BY <2>4 DEF Unaffected, Unmarked
    <3>3. CASE Op(n) = "before"
      <4>1. t = r.first /\ <<d, t>> \in Q
        BY <3>3, <1>14, <2>6
      <4>2. ASSUME NEW z \in Unmarked', <<d, z>> \in Q, <<z, t>> \in Q PROVE FALSE
        <5>1. Leq(R, t, z) /\ <<z, t>> \in R
          <6>1. <<z, t>> \in Q <=> <<z, t>> \in R
            BY <2>5, <3>2, <1>10, <1>14, MovedIs
          <6> QED
            BY <6>1, <4>2, <2>6, <3>2 DEF Leq
        <5> QED
          BY <5>1, <3>2, <1>14, <1>15 DEF Orders, Leq
      <4> QED
        BY <4>1, <4>2, <3>1, <3>3, <2>1, <2>2, <1>1 DEF Stands
    <3>4. CASE Op(n) = "after"
      <4>1. t = L.next[r.last] /\ r.last \in F \ {ListTail}
        BY <3>4, <1>14, <1>4, <1>13, InputIs DEF EditInv
      <4>2. <<r.last, t>> \in R /\ \A z \in F : <<r.last, z>> \in R => Leq(R, t, z)
        BY <4>1, <1>9 DEF Linked
      <4>3. <<r.last, d>> \in Q
        BY <4>1, <4>2, <2>6
      <4>4. ASSUME NEW z \in Unmarked', <<r.last, z>> \in Q, <<z, d>> \in Q PROVE FALSE
        <5>1. <<r.last, z>> \in R /\ <<z, t>> \in R
          <6>1. <<r.last, z>> \in Q <=> <<r.last, z>> \in R
            BY <2>5, <3>2, <1>10, <4>1, MovedIs
          <6> QED
            BY <6>1, <4>4, <2>6, <3>2
        <5>2. Leq(R, t, z)
          BY <5>1, <4>2, <3>2
        <5> QED
          BY <5>1, <5>2, <3>2, <1>14, <1>15 DEF Orders, Leq
      <4> QED
        BY <4>3, <4>4, <3>1, <3>4, <2>1, <2>2, <1>1 DEF Stands
    <3>5. r # Missing
      BY <1>1
    <3> QED
      BY <3>1, <3>3, <3>4, <3>5, <1>1
  <2>8. ASSUME NEW x \in Targets', names'[x] # Missing
        PROVE  /\ names'[x] = Index(input, x)'
               /\ \A j \in processed' : ~(Op(j)' = "replace" /\ Target(j)' = x)
               /\ \A k \in names'[x].first .. (names'[x].last - 1) : next'[k] = k + 1
    <3> DEFINE q == names[x]
    <3>1. x \in Targets /\ names'[x] = q /\ q # Missing
      BY <2>8, <1>17, <1>1
    <3>2. Entry(x)
      BY <3>1, <1>1, IndexedIs
    <3>3. \A j \in processed' : ~(Op(j)' = "replace" /\ Target(j)' = x)
      BY <3>2, <2>1, <1>19, <1>12, <1>1 DEF Entry
    <3>7. \A k \in Named(x) : Op(k) = "none" /\ k \in Positions /\ k \in Elems
      BY <3>2 DEF Entry
    <3>8. ASSUME NEW k \in q.first .. (q.last - 1) PROVE next'[k] = k + 1
      <4>1. next[k] = k + 1 /\ k \in Named(x) /\ k + 1 \in Named(x) /\ k # q.last /\ k + 1 # q.first
        BY <3>2, <3>8 DEF Entry
      <4>2. k + 1 # n /\ k \notin B /\ k + 1 \notin B
        BY <4>1, <3>7, <1>12, <1>1
      <4>3. L.next[k] = k + 1
        <5>1. Links.next[k] = k + 1
          BY <4>1 DEF Links
        <5>2. k # Links.prev[n]
          BY <5>1, <4>2, <1>9
        <5>3. k \in DOMAIN Links.next
          BY <4>1, <3>7, <1>5 DEF Linked
        <5> QED
          BY <5>1, <5>2, <5>3, <1>9
      <4>4. k # L.prev[t]
        <5> SUFFICES ASSUME k = L.prev[t] PROVE FALSE
          OBVIOUS
        <5>1. t = k + 1
          BY <4>3, <1>19
        <5>2. CASE Op(n) = "before"
          <6>1. k + 1 = r.first /\ r.first \in Named(T)
            BY <5>1, <5>2, <1>14, <1>4
          <6>2. x = T
            BY <6>1, <4>1 DEF Named
          <6>3. q = r
            BY <6>2 DEF r
          <6> QED
            BY <6>1, <6>3, <4>1
        <5>3. CASE Op(n) = "after"
          <6>1. t = L.next[r.last] /\ r.last \in F \ {ListTail} /\ r.last \in Named(T)
            BY <5>3, <1>14, <1>4, <1>13, InputIs DEF EditInv
          <6>2. L.next[k] = L.next[r.last] /\ k \in F \ {ListTail}
            BY <6>1, <5>1, <4>3, <1>19
          <6>3. k = r.last
            BY <6>1, <6>2, <1>9, NextTells
          <6>4. x = T
            BY <6>3, <6>1, <4>1 DEF Named
          <6>5. q = r
            BY <6>4 DEF r
          <6> QED
            BY <6>3, <6>5, <4>1
        <5> QED
          BY <5>2, <5>3, <1>1
      <4>5. k # e /\ k \in DOMAIN L.next
        BY <4>1, <4>2, <3>7, <1>10, <1>9 DEF Linked
      <4> QED
        BY <4>3, <4>4, <4>5, <1>19
    <3>9. q = Index(input, x)
      BY <3>2 DEF Entry
    <3> HIDE DEF q
    <3> QED
      BY <3>1, <3>9, <3>3, <3>8, <2>2
  <2>9. Indexed'
    BY <2>8 DEF Indexed
  <2>10. Linked(Links, Elems, Q)'
    <3>1. Linked([next |-> next', prev |-> prev'], Elems, Q)
      BY <1>19, <2>5, <1>10
    <3> QED
      BY <3>1, <2>3, <1>17 DEF Linked, Links
  <2>11. Editing(Q)'
    <3>1. ASSUME NEW d \in (processed \cap Elems)'
          PROVE  Op(d)' \in Ordering /\ Index(input, Target(d))' # Missing /\ Stands(Q, d)'
      <4>1. CASE d \in B
        <5>1. Op(d) \in Ordering /\ Index(input, Target(d)) # Missing /\ Stands(Q, d)'
          BY <4>1, <2>7, <1>12, <1>4
        <5>2. Index(input, Target(d))' = Index(input, Target(d)) /\ Missing' = Missing
          BY <1>1 DEF Index, RunStarts, RunEnd, Missing, Target
        <5>3. Op(d)' = Op(d)
          BY <2>1
        <5> HIDE DEF B, F
        <5> QED
          BY ONLY <5>1, <5>2, <5>3 DEF Ordering
      <4>2. CASE d \notin B
        <5>1. d \in processed' \cap F
          BY <4>2, <2>3, <1>10
        <5>2. Op(d) \in Ordering /\ Index(input, Target(d)) # Missing /\ Stands(Q, d)'
          BY <5>1, <2>4, <2>5 DEF Unaffected
        <5>3. Index(input, Target(d))' = Index(input, Target(d)) /\ Missing' = Missing
          BY <1>1 DEF Index, RunStarts, RunEnd, Missing, Target
        <5>4. Op(d)' = Op(d)
          BY <2>1
        <5> HIDE DEF B, F
        <5> QED
          BY ONLY <5>2, <5>3, <5>4 DEF Ordering
      <4> QED
        BY <4>1, <4>2
    <3> QED
      BY <3>1, <2>10, <2>4, <2>5, <2>1 DEF Editing, Unaffected
  <2>12. /\ input' \in Inputs /\ processed' \subseteq Positions' /\ DOMAIN names' = Names
         /\ \A i \in Positions' : Op(i)' # "several"
    BY <1>1, <1>17, <1>19, <1>9, <2>1 DEF EditInv
  <2>13. stage' = "walk"
    BY <1>19, <1>1
  <2> QED
    BY <2>9, <2>11, <2>12, <2>13 DEF EditInv
<1> QED
  BY <1>16, <1>18, <1>19

(* Two runs are taken out, the target's and the directives', and the       *)
(* latter put where the former was.                                        *)
LEMMA Replacing ==
  ASSUME EditInv, TargetsArePlain, OneSided, NEW R, Editing(R), DoReplace
  PROVE  EditInv'
<1> DEFINE T == Target(n)
           r == names[T]
           S == SameDirective
           snipped == Run(Links, r.first, Named(T))
           last == SnipEnd(snipped)
           C == SnipSet(snipped)
           L1 == Snip(Links, snipped[0], last)
           F1 == Elems \ C
           run == Run(L1, n, S)
           e == SnipEnd(run)
           B == SnipSet(run)
           F == F1 \ B
           L2 == Snip(L1, n, e)
           L3 == IF L2.next[last] = n THEN [L2 EXCEPT !.next[last] = L2.next[e]] ELSE L2
           t == L3.next[last]
           b == Links.next[last]
           a == L1.next[e]
<1>1. /\ stage = "walk" /\ n \in Positions /\ n \notin processed /\ Op(n) = "replace"
      /\ r # Missing /\ input' = input /\ names' = [names EXCEPT ![T] = Missing]
  BY DEF DoReplace, At
<1>2. Move(L3, t, n, e, L3.next[e], C \cup B)
  <2>1. \E sn \in {Run(Links, names[Target(n)].first, Named(Target(n)))} :
        \E K1 \in {Snip(Links, sn[0], SnipEnd(sn))} :
        \E m \in {Run(K1, n, SameDirective)} :
        \E K2 \in {Snip(K1, n, SnipEnd(m))} :
          LET lastSnip == SnipEnd(sn)
              lastMove == SnipEnd(m)
              K3 == IF K2.next[lastSnip] = n
                    THEN [K2 EXCEPT !.next[lastSnip] = K2.next[lastMove]] ELSE K2
          IN Move(K3, K3.next[lastSnip], n, lastMove, K3.next[lastMove],
                  SnipSet(sn) \cup SnipSet(m))
    BY DEF DoReplace
  <2> QED
    BY <2>1
<1>3. input \in Inputs /\ input \in Seq(ProviderRecords) /\ Positions \subseteq Nat /\ Len(input) \in Nat
  BY InputIs DEF EditInv
<1>4. /\ n \in Elems /\ n # ListHead /\ n # ListTail /\ T \in Targets /\ Entry(T)
  <2>1. At(Ordering)
    BY <1>1 DEF At, Ordering
  <2> QED
    BY <2>1, <1>1, TargetIs
<1>5. Linked(Links, Elems, R) /\ \A i, j \in Elems \ processed : <<i, j>> \in R <=> i < j
  BY DEF Editing
<1> HIDE DEF snipped, last, L1, run, e, L2, L3, t, b, a, T, r
<1>6. /\ r.first \in Positions /\ r.last \in r.first .. Len(input) /\ Named(T) = r.first .. r.last
      /\ r.first \in Named(T) /\ r.last \in Named(T)
      /\ \A k \in r.first .. (r.last - 1) : next[k] = k + 1
      /\ \A k \in Named(T) : k \in Elems /\ k \in Positions /\ Op(k) = "none" /\ k \notin processed
      /\ \A j \in processed : ~(Op(j) = "replace" /\ Target(j) = T)
  BY <1>4 DEF Entry, r
<1>7. BlockRun(Links, Elems, R, r.first, Named(T))
  <2>1. r.first \in Elems \ {ListHead, ListTail}
    BY <1>6, InputIs DEF EditInv
  <2>2. Named(T) \in SUBSET Positions
    BY DEF Named
  <2> QED
    BY <2>1, <2>2, <1>3, <1>5, RunIsBlock
<1>8. /\ snipped[0] = r.first /\ last \in Elems \ {ListHead, ListTail} /\ Leq(R, r.first, last)
      /\ C = Between(Elems, R, r.first, last) /\ C \subseteq Named(T)
  BY <1>6, <1>7 DEF BlockRun, snipped, last
<1> HIDE DEF C
<1>9. last = r.last
  <2>1. Links.next[r.last] \notin Named(T)
    <3> SUFFICES ASSUME Links.next[r.last] \in Named(T) PROVE FALSE
      OBVIOUS
    <3> DEFINE y == Links.next[r.last]
    <3>1. r.last \in Elems \ {ListTail} /\ r.last \in Elems \ processed /\ y \in Elems \ processed
      BY <1>6, InputIs DEF EditInv
    <3>2. <<r.last, y>> \in R
      BY <3>1, <1>5 DEF Linked
    <3>3. r.last < y
      BY <3>1, <3>2, <1>5
    <3>4. y \in r.first .. r.last
      BY <1>6
    <3> HIDE DEF y
    <3>5. r.last \in Nat /\ r.first \in Nat
      BY <1>6, <1>3
    <3> QED
      BY <3>3, <3>4, <3>5
  <2>2. \A k \in r.first .. (r.last - 1) : Links.next[k] = k + 1
    BY <1>6 DEF Links
  <2> DEFINE f == r.first
             l == r.last
  <2>3. /\ f \in Positions /\ l \in f .. Len(input) /\ Named(T) = f .. l
        /\ \A k \in f .. (l - 1) : Links.next[k] = k + 1
        /\ Links.next[l] \notin Named(T)
    BY <1>6, <2>1, <2>2
  <2>4. snipped = Run(Links, f, Named(T))
    BY DEF snipped
  <2> HIDE DEF f, l
  <2>5. SnipEnd(Run(Links, f, Named(T))) = l
    BY <2>3, <1>3, TargetRun
  <2>6. last = l
    BY <2>4, <2>5 DEF last
  <2> QED
    BY <2>6 DEF l
<1>10. C = Named(T) /\ last \in C /\ r.first \in C
  <2>1. ASSUME NEW k \in Named(T) PROVE k \in C
    <3>1. k \in r.first .. r.last /\ k \in Elems \ processed
      BY <1>6
    <3>2. r.first \in Elems \ processed /\ r.last \in Elems \ processed /\ r.first \in Nat /\ r.last \in Nat
      BY <1>6, <1>3
    <3>3. Leq(R, r.first, k) /\ Leq(R, k, r.last)
      BY <3>1, <3>2, <1>5 DEF Leq
    <3> QED
      BY <3>1, <3>3, <1>8, <1>9 DEF Between
  <2> QED
    BY <2>1, <1>6, <1>8, <1>9
<1>11. L1 = Snip(Links, r.first, last)
  BY <1>8 DEF L1
<1>12. Snipped(Links, Elems, R, r.first, last)
  <2>1. r.first \in Elems \ {ListHead, ListTail}
    BY <1>6, InputIs DEF EditInv
  <2> QED
    BY <2>1, <1>3, <1>5, <1>8, SnipLinked
<1>13. /\ Linked(L1, F1, R)
       /\ Links.prev[r.first] \in F1 \ {ListTail} /\ b \in F1 \ {ListHead}
       /\ Links.next[Links.prev[r.first]] = r.first /\ <<last, b>> \in R
       /\ L1.next = [Links.next EXCEPT ![Links.prev[r.first]] = b]
       /\ C \subseteq Elems /\ C \subseteq Positions
  BY <1>8, <1>11, <1>12 DEF Snipped, b
<1>14. n \in F1 \ {ListHead, ListTail}
  <2>1. n \notin Named(T)
    BY <1>6, <1>1
  <2> QED
    BY <2>1, <1>10, <1>4
<1> HIDE DEF F1
<1>15. BlockRun(L1, F1, R, n, S)
  BY <1>3, <1>13, <1>14, RunIsBlock DEF SameDirective
<1>16. /\ e \in F1 \ {ListHead, ListTail} /\ Leq(R, n, e) /\ B = Between(F1, R, n, e) /\ B \subseteq S \cup {n}
  BY <1>15 DEF BlockRun, run, e
<1>17. Snipped(L1, F1, R, n, e)
  BY <1>3, <1>13, <1>14, <1>16, SnipLinked
<1>18. /\ Linked(L2, F, R) /\ Chain(L2, B, n, e, R)
       /\ a \in F \ {ListHead} /\ L2.prev[a] # None /\ <<e, a>> \in R
       /\ L2.next = [L1.next EXCEPT ![L1.prev[n]] = a]
       /\ L1.prev[n] \in F \ {ListTail} /\ L1.next[L1.prev[n]] = n
       /\ \A z \in F1 : z \in B \/ <<z, n>> \in R \/ Leq(R, a, z)
       /\ B \subseteq F1 /\ B \subseteq Positions
  BY <1>16, <1>17 DEF Snipped, L2, a
<1> HIDE DEF B
<1>19. n \in B /\ e \in B /\ B \cap F = {} /\ F \cup B = F1 /\ F \subseteq F1 /\ F \subseteq Elems
  BY <1>18 DEF Chain, F1
<1>20. \A d \in B : Op(d) = "replace" /\ Target(d) = T
  BY <1>16, <1>1 DEF SameDirective, T
<1>21. C \cap (F \cup B) = {} /\ last \in ListNodes \ (F \cup B) /\ Elems \subseteq ListNodes
  <2>1. Elems \subseteq ListNodes
    BY <1>5 DEF Linked
  <2> QED
    BY <2>1, <1>10, <1>13, <1>19 DEF F1
<1>22. /\ DOMAIN Links.next = ListNodes /\ DOMAIN L1.next = ListNodes /\ DOMAIN L2.next = ListNodes
       /\ F1 \subseteq ListNodes /\ F \subseteq ListNodes
  BY <1>5, <1>13, <1>18, <1>21, <1>19 DEF Linked
<1> HIDE DEF F
<1>23. L2.next[last] = b /\ L2.next[e] = a
  <2>1. last # Links.prev[r.first] /\ last # L1.prev[n] /\ e # L1.prev[n]
    BY <1>13, <1>18, <1>19, <1>21
  <2>2. L1.next[last] = b
    BY <2>1, <1>13, <1>21, <1>22 DEF b
  <2>3. L2.next[last] = b
    BY <2>1, <2>2, <1>18, <1>21, <1>22
  <2>4. L2.next[e] = L1.next[e]
    BY <2>1, <1>18, <1>16, <1>22
  <2> QED
    BY <2>3, <2>4 DEF a
<1>24. Orders(R, F \cup B) /\ Orders(R, F) /\ Orders(R, Elems)
  <2>1. Orders(R, Elems)
    BY <1>5 DEF Linked
  <2> QED
    BY <2>1, <1>19, <1>18 DEF Orders, F1
(* Replacements stand on one side of the target: what follows the target   *)
(* is not one of them, unless it is the directive at hand.                 *)
<1>25. b # n => b \notin B
  <2> SUFFICES ASSUME b # n, b \in B PROVE FALSE
    OBVIOUS
  <2>1. Op(b) = "replace" /\ Target(b) = T /\ b \in Positions /\ b \in Elems
    BY <1>20, <1>18, <1>19, <1>13 DEF F1
  <2>2. b \notin processed
    BY <2>1, <1>6
  <2>3. last \in Elems \ processed /\ n \in Elems \ processed /\ b \in Elems \ processed
    BY <2>1, <2>2, <1>1, <1>4, <1>6, <1>9
  <2>4. <<n, b>> \in R
    BY <1>18 DEF Chain, Leq
  <2>5. <<n, last>> \in R
    <3>1. last # n
      BY <1>10, <1>14 DEF F1
    <3>2. <<last, n>> \in R => Leq(R, b, n)
      BY <1>5, <1>8, <1>4 DEF b, Linked
    <3> QED
      BY <3>1, <3>2, <2>3, <2>4, <1>24 DEF Orders, Leq
  <2>6. n < last /\ last < b
    BY <2>3, <2>5, <1>13, <1>5
  <2>7. input[last].origin = T
    BY <1>6, <1>9 DEF Named
  <2> QED
    BY <2>1, <2>6, <2>7, <1>1, <1>3, <1>6, <1>9 DEF OneSided, SameSide, Op, Target, Positions, T
<1>26. /\ Linked(L3, F, R) /\ Chain(L3, B, n, e, R) /\ L3.prev = L2.prev
       /\ \A x \in ListNodes \ {last} : L3.next[x] = L2.next[x]
       /\ t = (IF b = n THEN a ELSE b) /\ L3.next[e] = a
  <2>1. e \in ListNodes \ {last}
    BY <1>21, <1>19, <1>22
  <2>2. CASE b = n
    <3> DEFINE K == [L2 EXCEPT !.next[last] = a]
    <3>1. L3 = K
      BY <2>2, <1>23 DEF L3
    <3>2. a \in ListNodes /\ B \subseteq ListNodes
      BY <1>18, <1>19, <1>22
    <3>3. Linked(K, F, R) /\ Chain(K, B, n, e, R) /\ K.prev = L2.prev /\ K.next = [L2.next EXCEPT ![last] = a]
      BY <3>2, <1>18, <1>21, Elsewhere
    <3> HIDE DEF K
    <3> QED
      BY <3>1, <3>3, <2>1, <2>2, <1>21, <1>22, <1>23 DEF t
  <2>3. CASE b # n
    BY <2>1, <2>3, <1>18, <1>23 DEF L3, t
  <2> QED
    BY <2>2, <2>3
<1>27. t \in F \ {ListHead}
  BY <1>26, <1>25, <1>18, <1>13, <1>19
<1>28. \/ stage' = "crash" /\ processed' = processed
       \/ /\ stage' = stage /\ n' = a /\ processed' = processed \cup (C \cup B)
          /\ Linked([next |-> next', prev |-> prev'], F \cup B, Moved(R, F, B, t))
          /\ next' = [[L3.next EXCEPT ![L3.prev[t]] = n] EXCEPT ![e] = t]
          /\ L3.prev[t] \in F \ {ListTail} /\ L3.next[L3.prev[t]] = t
  <2>1. a \in F \ {ListHead} /\ L3.prev[a] # None /\ Move(L3, t, n, e, a, C \cup B)
    BY <1>2, <1>18, <1>26
  <2>2. MovedLinks(L3, F, B, R, e, t, a, C \cup B)
    BY ONLY <2>1, <1>3, <1>19, <1>24, <1>26, <1>27, MoveLinks
  <2> QED
    BY ONLY <2>2 DEF MovedLinks
<1>29. Positions' = Positions /\ ListHead' = ListHead /\ ListTail' = ListTail /\ ListNodes' = ListNodes /\ Targets' = Targets
  BY <1>1 DEF Positions, ListHead, ListTail, ListNodes, Targets, Op, Target
<1>30. CASE stage' = "crash" /\ processed' = processed
  BY <1>30, <1>1, <1>29 DEF EditInv
<1>31. CASE /\ stage' = stage /\ n' = a /\ processed' = processed \cup (C \cup B)
            /\ Linked([next |-> next', prev |-> prev'], F \cup B, Moved(R, F, B, t))
            /\ next' = [[L3.next EXCEPT ![L3.prev[t]] = n] EXCEPT ![e] = t]
            /\ L3.prev[t] \in F \ {ListTail} /\ L3.next[L3.prev[t]] = t
  <2>1. \A i : Op(i)' = Op(i) /\ Target(i)' = Target(i)
    BY <1>1 DEF Op, Target
  <2>2. \A x : Index(input, x)' = Index(input, x)
    BY <1>1 DEF Index, RunStarts, RunEnd, Missing
  <2>3. Elems' = F \cup B
    <3>1. \A j \in C : Op(j) = "none"
      BY <1>6, <1>10
    <3>2. \A i : i \in Gone' <=> i \in Positions /\ \E j \in processed' : Op(j) = "replace" /\ Target(j) = input[i].origin
      BY <2>1, <1>29, <1>1 DEF Gone
    <3>3. \A i : i \in Gone' <=> i \in Gone \/ i \in C
      <4>1. \A i : i \in C <=> i \in Positions /\ input[i].origin = T
        BY <1>10 DEF Named
      <4>2. \A i : i \in Gone <=> i \in Positions /\ \E j \in processed : Op(j) = "replace" /\ Target(j) = input[i].origin
        BY DEF Gone
      <4>3. \A j : j \in processed' <=> j \in processed \/ j \in C \/ j \in B
        BY <1>31
      <4> QED
        BY ONLY <4>1, <4>2, <4>3, <3>1, <3>2, <1>20, <1>19
    <3>4. Elems' = Elems \ C
      <4>1. ListHead \notin C /\ ListTail \notin C
        BY <1>13, InputIs DEF EditInv
      <4> QED
        BY <3>3, <4>1, <1>29 DEF Elems
    <3> QED
      BY <3>4, <1>19 DEF F1
  <2>4. Unaffected(R, F, B, t)
    <3>1. \A z \in F : <<z, n>> \in R \/ Leq(R, a, z)
      BY <1>18, <1>19
    <3>2. \A d \in B : Op(d) \in Ordering
      BY <1>20 DEF Ordering
    <3>3. a \in F \ {ListHead} /\ t \in F
      BY <1>18, <1>27
    <3>4. (C \cup B) \cap F = {} /\ B \subseteq C \cup B
      BY <1>19, <1>21
    <3> QED
      BY ONLY <3>1, <3>2, <3>3, <3>4, <2>3, <1>1, <1>19, <1>24, <1>31, OthersStay, EditInv, TargetsArePlain, Editing(R)
  <2>5. PICK Q : Q = Moved(R, F, B, t)
    OBVIOUS
  <2>6. /\ \A x \in B, y \in F : <<x, y>> \in Q <=> t = y \/ <<t, y>> \in R
        /\ \A x \in F, y \in B : <<x, y>> \in Q <=> <<x, t>> \in R
    BY <2>5, <1>19, MovedIs
  <2>7. ASSUME NEW d \in B PROVE Index(input, Target(d)) # Missing /\ Stands(Q, d)'
    <3>1. Target(d) = T /\ Op(d) = "replace" /\ Index(input, Target(d)) = r
      BY <1>20, <1>4 DEF Entry, r
    <3>2. ASSUME NEW z \in Unmarked'
          PROVE  (z < r.first => <<z, d>> \in Q) /\ (z > r.last => <<d, z>> \in Q)
      <4>1. z \in F /\ z \in Elems /\ Op(z) = "none" /\ z \in Nat
        BY <2>4, <1>3 DEF Unaffected, Unmarked
      <4>2. z \in Elems \ processed
        <5>1. \A c \in processed \cap Elems : Op(c) \in Ordering
          BY DEF Editing
        <5> QED
          BY <5>1, <4>1 DEF Ordering
      <4>3. last \in Elems \ processed /\ r.first <= last /\ r.first \in Nat /\ last \in Nat
        BY <1>6, <1>9, <1>3
      <4>4. /\ <<last, z>> \in R => Leq(R, b, z)
        BY <4>1, <1>5, <1>8 DEF b, Linked
      <4>5. /\ n \in Elems /\ e \in Elems /\ a \in Elems /\ b \in Elems /\ Leq(R, n, e) /\ <<e, a>> \in R
        BY <1>4, <1>16, <1>18, <1>19, <1>13 DEF F1
      <4>6. <<n, a>> \in R
        BY <4>5, <1>24 DEF Orders, Leq
      <4>7. ASSUME z < r.first PROVE <<z, t>> \in R
        <5>1. <<z, last>> \in R
          BY <4>2, <4>3, <4>7, <1>5, <4>1
        <5>2. <<z, b>> \in R
          BY <5>1, <4>1, <4>3, <4>5, <1>13, <1>24 DEF Orders
        <5> QED
          BY <5>2, <4>1, <4>5, <4>6, <1>24, <1>26 DEF Orders
      <4>8. ASSUME z > r.last PROVE t = z \/ <<t, z>> \in R
        <5>1. <<last, z>> \in R
          BY <4>2, <4>3, <4>8, <1>5, <1>9
        <5>2. Leq(R, b, z)
          BY <5>1, <4>4
        <5>3. CASE b # n
          BY <5>2, <5>3, <1>26 DEF Leq
        <5>4. CASE b = n
          <6>1. z # n /\ z \notin B /\ z \in F1
            BY <4>1, <1>1, <1>19
          <6>2. <<n, z>> \in R
            BY <6>1, <5>2, <5>4 DEF Leq
          <6>3. <<z, n>> \notin R
            BY <6>2, <4>1, <4>5, <1>24 DEF Orders
          <6> QED
            BY <6>1, <6>3, <5>4, <1>18, <1>26 DEF Leq
        <5> QED
          BY <5>3, <5>4
      <4> QED
        BY <4>1, <4>7, <4>8, <2>6
    <3>3. /\ Op(d)' = "replace" /\ Index(input, Target(d))' = r
      <4>1. Index(input, Target(d))' = Index(input, Target(d))
        BY <1>1 DEF Index, RunStarts, RunEnd, Missing, Target
      <4>2. Op(d)' = "replace"
        BY <3>1, <2>1
      <4> QED
        BY ONLY <4>1, <4>2, <3>1
    <3>4. Stands(Q, d)'
      BY <3>2, <3>3 DEF Stands
    <3> QED
      BY <3>1, <3>4, <1>1
  <2>8. ASSUME NEW x \in Targets', names'[x] # Missing
        PROVE  /\ names'[x] = Index(input, x)'
               /\ \A j \in processed' : ~(Op(j)' = "replace" /\ Target(j)' = x)
               /\ \A k \in names'[x].first .. (names'[x].last - 1) : next'[k] = k + 1
    <3> DEFINE q == names[x]
    <3>1. x \in Targets /\ x \in Names /\ x # T /\ names'[x] = q /\ q # Missing
      <4>1. x \in Targets
        BY <1>29
      <4>2. x \in Names /\ DOMAIN names = Names
        BY <4>1, InputIs DEF EditInv, Targets
      <4> QED
        BY <4>1, <4>2, <2>8, <1>1
    <3>2. Entry(x)
      BY <3>1, <1>1, IndexedIs
    <3>3. \A j \in processed' : ~(Op(j)' = "replace" /\ Target(j)' = x)
      <4>1. \A j \in processed : ~(Op(j) = "replace" /\ Target(j) = x)
        BY <3>2 DEF Entry
      <4>2. \A j \in C : Op(j) = "none"
        BY <1>6, <1>10
      <4> QED
        BY <4>1, <4>2, <2>1, <1>31, <1>20, <3>1
    <3>7. \A k \in Named(x) : Op(k) = "none" /\ k \in Positions /\ k \in Elems /\ k \notin C /\ k \in F
      <4>1. \A k \in Named(x) : Op(k) = "none" /\ k \in Positions /\ k \in Elems
        BY <3>2 DEF Entry
      <4>2. \A k \in Named(x) : k \notin C
        BY <3>1, <1>10 DEF Named
      <4>3. \A k \in Named(x) : k \notin B
        BY <4>1, <1>20
      <4> QED
        BY <4>1, <4>2, <4>3, <1>19 DEF F1
    <3>8. ASSUME NEW k \in q.first .. (q.last - 1) PROVE next'[k] = k + 1
      <4>1. next[k] = k + 1 /\ k \in Named(x) /\ k + 1 \in Named(x)
        BY <3>2, <3>8 DEF Entry
      <4>2. k \in F /\ k + 1 \in F /\ k \in ListNodes /\ k + 1 # n /\ k \in F \ {ListTail} /\ k # e
        BY <4>1, <3>7, <1>1, <1>19, <1>22, InputIs DEF EditInv
      <4>3. Links.next[k] = k + 1
        BY <4>1 DEF Links
      <4>4. k # Links.prev[r.first]
        <5>1. k + 1 # r.first
          BY <4>1, <3>7, <1>10
        <5> QED
          BY <5>1, <4>3, <1>13
      <4>5. L1.next[k] = k + 1
        BY <4>2, <4>3, <4>4, <1>13, <1>22
      <4>6. L2.next[k] = k + 1
        <5>1. k # L1.prev[n]
          BY <4>2, <4>5, <1>18
        <5> QED
          BY <5>1, <4>2, <4>5, <1>18, <1>22
      <4>7. L3.next[k] = k + 1
        BY <4>2, <4>6, <1>21, <1>26
      <4>8. k # L3.prev[t]
        <5> SUFFICES ASSUME k = L3.prev[t] PROVE FALSE
          OBVIOUS
        <5>1. t = k + 1
          BY <4>7, <1>31
        <5>2. CASE b # n
          <6>1. Links.next[last] = Links.next[k]
            BY <5>1, <5>2, <4>3, <1>26 DEF b
          <6>2. last \in Elems \ {ListTail} /\ k \in Elems \ {ListTail}
            BY <1>8, <4>2, <1>19
          <6>3. k = last
            BY <6>1, <6>2, <1>5, NextTells
          <6> QED
            BY <6>3, <4>2, <1>21
        <5>3. CASE b = n
          <6>1. L1.next[e] = L1.next[k]
            BY <5>1, <5>3, <4>5, <1>26 DEF a
          <6>2. e \in F1 \ {ListTail} /\ k \in F1 \ {ListTail}
            BY <1>16, <4>2, <1>19
          <6> QED
            BY <6>1, <6>2, <1>13, <4>2, NextTells
        <5> QED
          BY <5>2, <5>3
      <4>9. DOMAIN L3.next = ListNodes
        BY <1>26 DEF Linked
      <4> QED
        BY <4>2, <4>7, <4>8, <4>9, <1>31
    <3>9. q = Index(input, x)
      BY <3>2 DEF Entry
    <3> HIDE DEF q
    <3> QED
      BY <3>1, <3>9, <3>3, <3>8, <2>2
  <2>9. Indexed'
    BY <2>8 DEF Indexed
  <2>10. Linked(Links, Elems, Q)'
    <3>1. Linked([next |-> next', prev |-> prev'], F \cup B, Q)
      BY <1>31, <2>5
    <3> QED
      BY <3>1, <2>3, <1>29 DEF Linked, Links
  <2>11. Editing(Q)'
    <3>1. ASSUME NEW d \in (processed \cap Elems)'
          PROVE  Op(d)' \in Ordering /\ Index(input, Target(d))' # Missing /\ Stands(Q, d)'
      <4>1. Op(d) \in Ordering /\ Index(input, Target(d)) # Missing /\ Stands(Q, d)'
        <5>1. CASE d \in B
          BY <5>1, <2>7, <1>20 DEF Ordering
        <5>2. CASE d \notin B
          <6>1. d \in processed' \cap F
            BY <5>2, <2>3
          <6> QED
            BY <6>1, <2>4, <2>5 DEF Unaffected
        <5> QED
          BY <5>1, <5>2
      <4>2. Index(input, Target(d))' = Index(input, Target(d)) /\ Missing' = Missing
        BY <1>1 DEF Index, RunStarts, RunEnd, Missing, Target
      <4>3. Op(d)' = Op(d)
        BY <2>1
      <4> QED
        BY ONLY <4>1, <4>2, <4>3 DEF Ordering
    <3> QED
      BY <3>1, <2>10, <2>4, <2>5, <2>1 DEF Editing, Unaffected
  <2>12. /\ input' \in Inputs /\ processed' \subseteq Positions' /\ DOMAIN names' = Names
         /\ \A i \in Positions' : Op(i)' # "several"
    BY <1>1, <1>29, <1>31, <1>18, <1>13, <2>1 DEF EditInv
  <2>13. stage' = "walk"
    BY <1>31, <1>1
  <2> QED
    BY <2>9, <2>11, <2>12, <2>13 DEF EditInv
<1> QED
  BY <1>28, <1>30, <1>31

-----------------------------------------------------------------------------
(* Reading the list back gives the providers on it, in its order.          *)
Reads(s, R) ==
  /\ \A k \in DOMAIN s : k \in Nat /\ s[k] \in Elems \cap Positions
  /\ \A x \in Elems \cap Positions : \E k \in DOMAIN s : s[k] = x
  /\ \A j, k \in DOMAIN s : j < k => <<s[j], s[k]>> \in R
LEMMA WalkedReads ==
  ASSUME EditInv, NEW R, Editing(R)
  PROVE  Reads(Walked, R)
<1> DEFINE N == Len(input)
           i == next[ListHead]
           step == [x \in 0 .. ListTail |-> IF x = ListTail THEN x ELSE next[x]]
           IsPath(p) == p = [k \in 1 .. N |-> IF k = 1 THEN i ELSE step[p[k - 1]]]
           path == CHOOSE p : IsPath(p)
<1>1. /\ Positions = 1 .. N /\ N \in Nat /\ ListHead \notin Positions /\ ListTail \notin Positions
      /\ Positions = ListNodes \ {ListHead, ListTail} /\ ListHead # ListTail
  BY InputIs DEF EditInv
<1>2. Linked(Links, Elems, R)
  BY DEF Editing
<1>3. /\ ListHead \in Elems /\ ListTail \in Elems /\ Elems \subseteq ListNodes
      /\ \A x \in ListNodes \ {ListTail} : next[x] \in ListNodes
      /\ \A x \in Elems \ {ListTail} : /\ next[x] \in Elems /\ <<x, next[x]>> \in R
                                       /\ \A z \in Elems : <<x, z>> \in R => next[x] = z \/ <<next[x], z>> \in R
      /\ \A x \in Elems : (ListHead = x \/ <<ListHead, x>> \in R) /\ (x = ListTail \/ <<x, ListTail>> \in R)
  BY <1>2 DEF Linked, Links, Leq
<1>4. /\ \A x \in Elems : <<x, x>> \notin R
      /\ \A x, y \in Elems : x = y \/ <<x, y>> \in R \/ <<y, x>> \in R
      /\ \A x, y, z \in Elems : <<x, y>> \in R /\ <<y, z>> \in R => <<x, z>> \in R
  BY <1>2 DEF Linked, Orders
<1>5. i \in Elems \ {ListHead} /\ i \in ListNodes
  BY <1>1, <1>3, <1>4
<1>6. step \in [ListNodes -> ListNodes]
  BY <1>3 DEF ListNodes
<1>7. \A x \in Elems : step[x] = IF x = ListTail THEN x ELSE next[x]
  BY <1>3 DEF ListNodes
<1> HIDE DEF i, step, N
<1>8. \E p : IsPath(p)
  <2>1. PICK f : IsWalk(f, step, i, N, ListNodes)
    BY <1>1, <1>5, <1>6, WalkExists
  <2> DEFINE p == [k \in 1 .. N |-> f[k - 1]]
  <2>2. ASSUME NEW k \in 1 .. N PROVE p[k] = IF k = 1 THEN i ELSE step[p[k - 1]]
    <3>1. CASE k = 1
      BY <3>1, <2>1 DEF IsWalk
    <3>2. CASE k # 1
      <4>1. k - 1 \in 1 .. N /\ (k - 1) - 1 = k - 2
        BY <3>2, <1>1
      <4>2. p[k] = f[k - 1] /\ p[k - 1] = f[(k - 1) - 1]
        BY <4>1
      <4>3. f[k - 1] = step[f[(k - 1) - 1]]
        BY <4>1, <2>1 DEF IsWalk
      <4> QED
        BY <4>2, <4>3, <3>2
    <3> QED
      BY <3>1, <3>2
  <2>3. IsPath(p)
    BY <2>2
  <2> QED
    BY <2>3
<1>9. IsPath(path)
  <2> HIDE DEF IsPath
  <2> QED
    BY <1>8
<1>10. Walked = [k \in {k \in DOMAIN path : path[k] # ListTail} |-> path[k]]
  BY DEF Walked, ReadFrom, i, step, N
<1> HIDE DEF path
<1>11. DOMAIN path = 1 .. N /\ (N > 0 => path[1] = i)
       /\ \A k \in 2 .. N : path[k] = step[path[k - 1]]
  BY <1>9, <1>1
<1> DEFINE Good(k) ==
      /\ \A j \in 1 .. k : path[j] \in Elems \ {ListHead}
      /\ \A j \in 1 .. k - 1 : path[k] # ListTail => <<path[j], path[k]>> \in R
      /\ \A x \in Elems \ {ListHead} : x = path[k] \/ <<x, path[k]>> \in R => \E j \in 1 .. k : path[j] = x
    U == {k \in 1 .. N : ~Good(k)}
<1>12. \A x \in Elems \ {ListHead} : i = x \/ <<i, x>> \in R
  <2>1. \A x \in Elems \ {ListHead} : <<ListHead, x>> \in R
    BY <1>3
  <2> QED
    BY <2>1, <1>1, <1>3 DEF i
<1>13. ASSUME N > 0 PROVE Good(1)
  <2>1. path[1] = i
    BY <1>13, <1>11
  <2>2. ASSUME NEW x \in Elems \ {ListHead}, x = i \/ <<x, i>> \in R PROVE x = i
    BY <2>2, <1>12, <1>4, <1>5
  <2>3. \A j \in 1 .. 1 : j = 1
    OBVIOUS
  <2> QED
    BY <2>1, <2>2, <2>3, <1>5
<1>14. ASSUME NEW k \in 2 .. N, Good(k - 1) PROVE Good(k)
  <2> DEFINE w == path[k - 1]
             y == path[k]
  <2>1. /\ y = (IF w = ListTail THEN w ELSE next[w]) /\ w \in Elems \ {ListHead} /\ k - 1 \in 1 .. N
    <3>1. k - 1 \in 1 .. N /\ k - 1 \in 1 .. k - 1
      BY <1>1
    <3> QED
      BY <3>1, <1>14, <1>11, <1>7
  <2>10. \A j \in 1 .. k : j \in 1 .. k - 1 \/ j = k
    BY <1>1
  <2>11. \A j \in 1 .. k - 1 : path[j] \in Elems \ {ListHead}
    BY <1>14
  <2>2. \A j \in 1 .. (k - 1) - 1 : w # ListTail => <<path[j], w>> \in R
    BY <1>14
  <2>3. \A x \in Elems \ {ListHead} : x = w \/ <<x, w>> \in R => \E j \in 1 .. k - 1 : path[j] = x
    BY <1>14
  <2>4. \A j \in 1 .. k - 1 : j \in 1 .. (k - 1) - 1 \/ j = k - 1
    BY <2>1, <1>1
  <2>5. (\A j \in 1 .. k - 1 : j \in 1 .. k) /\ k \in 1 .. k
    BY <2>1, <1>1
  <2>6. \A j \in 1 .. k - 1 : j = k - 1 => path[j] = w
    OBVIOUS
  <2>7. path[k] = y
    OBVIOUS
  <2> HIDE DEF w, y
  <2>8. CASE w = ListTail
    BY <2>1, <2>3, <2>5, <2>7, <2>8, <2>10, <2>11
  <2>9. CASE w # ListTail
    <3>1. y = next[w] /\ y \in Elems /\ <<w, y>> \in R /\ \A z \in Elems : <<w, z>> \in R => y = z \/ <<y, z>> \in R
      BY <2>1, <2>9, <1>3
    <3>2. y # ListHead
      BY <3>1, <2>1, <1>3, <1>4
    <3>3. ASSUME NEW j \in 1 .. k - 1, y # ListTail PROVE <<path[j], y>> \in R
      <4>1. CASE j = k - 1
        BY <4>1, <2>6, <3>1
      <4>2. CASE j \in 1 .. (k - 1) - 1
        <5>1. <<path[j], w>> \in R
          BY <4>2, <2>2, <2>9
        <5>2. path[j] \in Elems
          BY <2>11
        <5> QED
          BY <5>1, <5>2, <3>1, <2>1, <1>4
      <4> QED
        BY <4>1, <4>2, <2>4
    <3>4. ASSUME NEW x \in Elems \ {ListHead}, x = y \/ <<x, y>> \in R PROVE \E j \in 1 .. k : path[j] = x
      <4>1. CASE x = y
        BY <4>1, <2>5, <2>7
      <4>2. CASE <<x, y>> \in R
        <5>1. x = w \/ <<x, w>> \in R
          BY <4>2, <3>1, <2>1, <1>4
        <5> QED
          BY <5>1, <2>3, <2>5
      <4> QED
        BY <4>1, <4>2, <3>4
    <3> QED
      BY <2>7, <2>10, <2>11, <3>1, <3>2, <3>3, <3>4
  <2> QED
    BY <2>8, <2>9
<1> HIDE DEF Good
<1>15. U = {}
  <2> SUFFICES ASSUME U # {} PROVE FALSE
    OBVIOUS
  <2>1. PICK k \in U : \A j \in U : k <= j
    <3>1. U \in SUBSET Nat
      BY <1>1
    <3> HIDE DEF U
    <3> QED
      BY <3>1, NatMin
  <2>2. k # 1
    BY <1>13, <1>1
  <2>3. k \in 2 .. N /\ k - 1 \in 1 .. N /\ k - 1 \notin U
    BY <2>1, <2>2, <1>1
  <2> QED
    BY <2>3, <1>14
<1>16. \A k \in 1 .. N : Good(k)
  BY <1>15
<1> HIDE DEF U
<1>23. \A k \in 1 .. N : path[k] \in Elems \ {ListHead}
  <2>1. \A k \in 1 .. N : k \in 1 .. k
    BY <1>1
  <2> QED
    BY <2>1, <1>16 DEF Good
<1>17. ASSUME NEW j \in 1 .. N, NEW k \in 1 .. N, j < k, path[k] # ListTail PROVE <<path[j], path[k]>> \in R
  <2>1. j \in 1 .. k - 1
    BY <1>17, <1>1
  <2> QED
    BY <2>1, <1>16, <1>17 DEF Good
<1>18. ASSUME NEW x \in Elems \cap Positions PROVE \E k \in 1 .. N : path[k] = x
  <2>1. CASE \E k \in 1 .. N : path[k] = ListTail
    <3>1. PICK k \in 1 .. N : path[k] = ListTail
      BY <2>1
    <3>2. x # ListHead /\ <<x, ListTail>> \in R
      BY <1>1, <1>3
    <3>3. \E j \in 1 .. k : path[j] = x
      BY <3>1, <3>2, <1>16 DEF Good
    <3> QED
      BY <3>3, <1>1
  <2>2. CASE \A k \in 1 .. N : path[k] # ListTail
    <3> SUFFICES ASSUME \A k \in 1 .. N : path[k] # x PROVE FALSE
      OBVIOUS
    <3> DEFINE V == Positions \ {x}
    <3>1. \A k \in 1 .. N : path[k] \in V
      BY <2>2, <1>1, <1>3, <1>23
    <3>2. path \in [1 .. N -> V]
      <4>1. path = [k \in 1 .. N |-> path[k]]
        BY <1>9
      <4> QED
        BY <3>1, <4>1
    <3>3. IsFiniteSet(1 .. N) /\ Cardinality(1 .. N) = N
      <4>1. N > 0
        BY <1>1
      <4> QED
        BY <4>1, <1>1, FS_Interval
    <3>4. IsFiniteSet(V) /\ Cardinality(V) = N - 1
      BY <3>3, <1>1, FS_RemoveElement
    <3>5. \E j, k \in 1 .. N : j # k /\ path[j] = path[k]
      <4> HIDE DEF V
      <4>1. Cardinality(V) < Cardinality(1 .. N)
        BY <3>3, <3>4, <1>1
      <4> QED
        BY <4>1, <3>2, <3>3, <3>4, FS_PigeonHole
    <3>6. PICK j \in 1 .. N, k \in 1 .. N : j < k /\ path[j] = path[k]
      BY <3>5, <1>1
    <3>7. <<path[k], path[k]>> \in R
      BY <3>6, <2>2, <1>17
    <3> QED
      BY <3>7, <1>4, <1>23
  <2> QED
    BY <2>1, <2>2
<1>19. DOMAIN Walked = {k \in 1 .. N : path[k] # ListTail} /\ \A k \in DOMAIN Walked : Walked[k] = path[k]
  BY <1>10, <1>11
<1>20. \A k \in DOMAIN Walked : k \in Nat /\ Walked[k] \in Elems \cap Positions
  <2>1. \A k \in 1 .. N : k \in Nat
    BY <1>1
  <2> QED
    BY <2>1, <1>19, <1>23, <1>1, <1>3
<1>21. \A x \in Elems \cap Positions : \E k \in DOMAIN Walked : Walked[k] = x
  BY <1>18, <1>19, <1>1
<1>22. \A j, k \in DOMAIN Walked : j < k => <<Walked[j], Walked[k]>> \in R
  BY <1>17, <1>19
<1> QED
  BY <1>20, <1>21, <1>22 DEF Reads

-----------------------------------------------------------------------------
(* At the end every directive was met, so that those who are gone are the  *)
(* replaced ones.                                                          *)
LEMMA Finishing ==
  ASSUME EditInv, TargetsArePlain, NEW R, Editing(R), ReadBack
  PROVE  NothingLost' /\ PlacedAsAsked'
<1>1. /\ stage = "walk" /\ n \in {ListTail, None} /\ stage' = "done" /\ contents' = Walked
      /\ input' = input
  BY DEF ReadBack, End
<1>2. /\ input \in Inputs /\ input \in Seq(ProviderRecords) /\ Positions = 1 .. Len(input) /\ Len(input) \in Nat
      /\ ListHead \notin Positions /\ ListTail \notin Positions
      /\ Positions = ListNodes \ {ListHead, ListTail} /\ ListHead # ListTail
      /\ \A i \in Positions : Op(i) \in Ops
  BY InputIs DEF EditInv
<1>3. /\ ListTail \in Elems /\ Elems \subseteq ListNodes /\ Orders(R, Elems)
      /\ \A x \in Elems : Leq(R, x, ListTail)
  BY DEF Editing, Linked
<1>4. n = ListTail
  <2>1. n \in Elems /\ ListNodes \subseteq Nat
    BY <1>2 DEF Editing, ListNodes, ListTail
  <2> QED
    BY <2>1, <1>1, <1>3, ReplaceAssumption
<1>5. \A x \in Elems \cap Positions : x \in processed \/ Op(x) = "none"
  BY <1>2, <1>3, <1>4 DEF Editing, Leq
<1>6. \A i \in Positions : Op(i) # "several" /\ (Op(i) = "none" \/ Op(i) \in Ordering)
  BY <1>1, <1>2 DEF EditInv, Ops, Ordering
<1>7. \A d \in processed \cap Elems :
        Op(d) \in Ordering /\ Index(input, Target(d)) # Missing /\ Stands(R, d)
  BY DEF Editing
<1>8. ASSUME NEW i \in Positions PROVE i \in Gone <=> i \in Replaced
  <2>1. ASSUME NEW j \in Positions, Op(j) = "replace", Target(j) = input[i].origin PROVE j \in processed
    <3>1. j \in Elems
      <4> SUFFICES ASSUME j \in Gone PROVE FALSE
        BY DEF Elems
      <4>1. PICK c \in processed : Op(c) = "replace" /\ Target(c) = input[j].origin
        BY DEF Gone
      <4>2. c \in Positions
        BY DEF EditInv
      <4> QED
        BY <4>1, <4>2, <2>1, <1>2 DEF TargetsArePlain, PlainTargets, Ordering, Op, Target, Positions, Ordering
    <3> QED
      BY <3>1, <2>1, <1>5
  <2> QED
    BY <2>1 DEF Gone, Replaced, EditInv
<1>9. Elems \cap Positions = Positions \ Replaced
  BY <1>2, <1>8 DEF Elems
<1>10. Plain \subseteq Unmarked /\ Plain \subseteq Elems /\ Plain \subseteq Elems \ processed /\ Plain \subseteq Nat
  <2>1. ASSUME NEW p \in Plain PROVE p \in Unmarked /\ p \in Elems /\ p \notin processed
    <3>1. p \in Elems \cap Positions /\ Op(p) = "none"
      BY <1>9 DEF Plain
    <3> QED
      BY <3>1, <1>7 DEF Unmarked, Ordering
  <2> QED
    BY <2>1, <1>2 DEF Plain
<1>11. Reads(Walked, R)
  BY WalkedReads
<1> DEFINE s == Walked
           At1(i) == CHOOSE k \in DOMAIN s : s[k] = i
           Parted(i, j) == \E p \in Plain : At1(i) < At1(p) /\ At1(p) < At1(j)
<1>12. /\ \A k \in DOMAIN s : k \in Nat /\ s[k] \in Elems \cap Positions
       /\ \A x \in Elems \cap Positions : \E k \in DOMAIN s : s[k] = x
       /\ \A j, k \in DOMAIN s : j < k => <<s[j], s[k]>> \in R
  BY <1>11 DEF Reads
<1> HIDE DEF s
<1>13. /\ \A x \in Elems : <<x, x>> \notin R
       /\ \A x, y \in Elems : <<x, y>> \in R => <<y, x>> \notin R
  BY <1>3 DEF Orders
<1>14. ASSUME NEW j \in DOMAIN s, NEW k \in DOMAIN s, s[j] = s[k] PROVE j = k
  <2>1. j \in Nat /\ k \in Nat /\ s[j] \in Elems
    BY <1>12
  <2>2. ~(j < k) /\ ~(k < j)
    BY <2>1, <1>12, <1>13, <1>14
  <2> QED
    BY <2>1, <2>2
<1>15. \A x \in Elems \cap Positions : At1(x) \in DOMAIN s /\ s[At1(x)] = x
  BY <1>12
<1> HIDE DEF At1
<1>16. \A x, y \in Elems \cap Positions : At1(x) < At1(y) <=> <<x, y>> \in R
  <2>1. ASSUME NEW x \in Elems \cap Positions, NEW y \in Elems \cap Positions, At1(x) < At1(y) PROVE <<x, y>> \in R
    BY <2>1, <1>12, <1>15
  <2>2. ASSUME NEW x \in Elems \cap Positions, NEW y \in Elems \cap Positions, <<x, y>> \in R PROVE At1(x) < At1(y)
    <3>1. x # y /\ <<y, x>> \notin R
      BY <2>2, <1>13
    <3>2. At1(x) \in Nat /\ At1(y) \in Nat /\ At1(x) # At1(y)
      BY <3>1, <1>12, <1>15
    <3> QED
      BY <3>1, <3>2, <2>1
  <2> QED
    BY <2>1, <2>2
<1>17. /\ Positions' = Positions /\ Replaced' = Replaced /\ Plain' = Plain /\ contents' = s
       /\ \A i : Op(i)' = Op(i) /\ Target(i)' = Target(i)
       /\ \A x : Index(input, x)' = Index(input, x)
  BY <1>1 DEF Positions, Replaced, Plain, Op, Target, s, Index, RunStarts, RunEnd, Missing
<1>18. \A i : Where(i)' = At1(i)
  BY <1>17 DEF Where, At1
<1>19. NothingLost'
  <2>1. {s[k] : k \in DOMAIN s} = Positions \ Replaced
    BY <1>9, <1>12
  <2>2. ASSUME NEW j \in DOMAIN s, NEW k \in DOMAIN s, s[j] \in Plain, s[k] \in Plain, j < k PROVE s[j] < s[k]
    BY <2>2, <1>12, <1>10 DEF Editing
  <2> QED
    BY <2>1, <2>2, <1>14, <1>17 DEF NothingLost
<1>20. ASSUME NEW i \in Elems \cap Positions, NEW j \in Elems \cap Positions, Parted(i, j)
       PROVE  \E z \in Unmarked : <<i, z>> \in R /\ <<z, j>> \in R
  <2>1. PICK p \in Plain : At1(i) < At1(p) /\ At1(p) < At1(j)
    BY <1>20
  <2>2. p \in Unmarked /\ p \in Elems \cap Positions
    BY <1>10 DEF Unmarked
  <2> QED
    BY <2>1, <2>2, <1>16, <1>20
<1> HIDE DEF Parted
<1>21. ASSUME NEW d \in Positions \ Replaced
       PROVE  LET t == Index(input, Target(d)) IN
              CASE Op(d) = "before" /\ t.first \notin Replaced ->
                     At1(d) < At1(t.first) /\ ~Parted(d, t.first)
                [] Op(d) = "after" /\ t.last \notin Replaced ->
                     At1(t.last) < At1(d) /\ ~Parted(t.last, d)
                [] Op(d) = "replace" ->
                     \A p \in Plain : /\ p < t.first => At1(p) < At1(d)
                                      /\ p > t.last => At1(d) < At1(p)
                [] OTHER -> TRUE
  <2> DEFINE t == Index(input, Target(d))
             f == t.first
             l == t.last
  <2>1. CASE Op(d) = "none"
    BY <2>1
  <2>2. CASE Op(d) \in Ordering
    <3>1. d \in Elems \cap Positions /\ d \in processed
      BY <2>2, <1>5, <1>9 DEF Ordering
    <3>2. Target(d) \in Names /\ t # Missing /\ Stands(R, d)
      BY <3>1, <2>2, <1>2, <1>7, InputIs
    <3>3. f \in Positions /\ l \in Positions
      <4>1. f \in Positions /\ l \in f .. Len(input)
        BY <3>2, <1>2, IndexIs
      <4> HIDE DEF f, l
      <4> QED
        BY <4>1, <1>2
    <3>4. /\ Op(d) = "before" /\ f \in Elems =>
              <<d, f>> \in R /\ \A z \in Unmarked : ~(<<d, z>> \in R /\ <<z, f>> \in R)
          /\ Op(d) = "after" /\ l \in Elems =>
              <<l, d>> \in R /\ \A z \in Unmarked : ~(<<l, z>> \in R /\ <<z, d>> \in R)
          /\ Op(d) = "replace" =>
              \A z \in Unmarked : (z < f => <<z, d>> \in R) /\ (z > l => <<d, z>> \in R)
      BY <3>2 DEF Stands
    <3>5. ASSUME Op(d) = "before", f \notin Replaced PROVE At1(d) < At1(f) /\ ~Parted(d, f)
      <4> HIDE DEF f
      <4>1. f \in Elems \cap Positions
        BY <3>3, <3>5, <1>9
      <4>2. <<d, f>> \in R /\ \A z \in Unmarked : ~(<<d, z>> \in R /\ <<z, f>> \in R)
        BY <4>1, <3>4, <3>5
      <4>3. At1(d) < At1(f)
        BY <4>1, <4>2, <3>1, <1>16
      <4>4. ~Parted(d, f)
        BY <4>1, <4>2, <3>1, <1>20
      <4> QED
        BY <4>3, <4>4
    <3>6. ASSUME Op(d) = "after", l \notin Replaced PROVE At1(l) < At1(d) /\ ~Parted(l, d)
      <4> HIDE DEF l
      <4>1. l \in Elems \cap Positions
        BY <3>3, <3>6, <1>9
      <4>2. <<l, d>> \in R /\ \A z \in Unmarked : ~(<<l, z>> \in R /\ <<z, d>> \in R)
        BY <4>1, <3>4, <3>6
      <4>3. At1(l) < At1(d)
        BY <4>1, <4>2, <3>1, <1>16
      <4>4. ~Parted(l, d)
        BY <4>1, <4>2, <3>1, <1>20
      <4> QED
        BY <4>3, <4>4
    <3>7. ASSUME Op(d) = "replace", NEW p \in Plain
          PROVE  (p < f => At1(p) < At1(d)) /\ (p > l => At1(d) < At1(p))
      <4>1. p \in Unmarked /\ p \in Elems \cap Positions
        BY <1>10 DEF Unmarked
      <4> HIDE DEF f, l
      <4> QED
        BY <4>1, <3>1, <3>4, <3>7, <1>16
    <3>8. t.first = f /\ t.last = l
      OBVIOUS
    <3> HIDE DEF f, l, t
    <3>9. CASE Op(d) = "before"
      <4>1. f \notin Replaced => At1(d) < At1(f) /\ ~Parted(d, f)
        BY <3>5, <3>9
      <4> QED
        BY <4>1, <3>8, <3>9 DEF t
    <3>10. CASE Op(d) = "after"
      <4>1. l \notin Replaced => At1(l) < At1(d) /\ ~Parted(l, d)
        BY <3>6, <3>10
      <4> QED
        BY <4>1, <3>8, <3>10 DEF t
    <3>11. CASE Op(d) = "replace"
      <4>1. \A p \in Plain : (p < f => At1(p) < At1(d)) /\ (p > l => At1(d) < At1(p))
        BY <3>7, <3>11
      <4> QED
        BY <4>1, <3>8, <3>11 DEF t
    <3> QED
      BY <3>9, <3>10, <3>11, <2>2 DEF Ordering
  <2> QED
    BY <2>1, <2>2, <1>6
<1>22. PlacedAsAsked'
  <2> SUFFICES ASSUME NEW d \in (Positions \ Replaced)'
      PROVE  (LET t == Index(input, Target(d)) IN
              CASE Op(d) = "before" /\ t.first \notin Replaced ->
                     Where(d) < Where(t.first) /\ ~PlainBetween(d, t.first)
                [] Op(d) = "after" /\ t.last \notin Replaced ->
                     Where(t.last) < Where(d) /\ ~PlainBetween(t.last, d)
                [] Op(d) = "replace" ->
                     \A p \in Plain : /\ p < t.first => Where(p) < Where(d)
                                      /\ p > t.last => Where(d) < Where(p)
                [] OTHER -> TRUE)'
    BY DEF PlacedAsAsked
  <2>1. d \in Positions \ Replaced
    BY <1>17
  <2> QED
    BY <2>1, <1>17, <1>18, <1>21 DEF PlainBetween, Parted
<1> QED
  BY <1>19, <1>22

(* The cursor passes over a provider that has nothing to do any more.      *)
LEMMA PassingOver ==
  ASSUME EditInv, TargetsArePlain, NEW R, Editing(R), PassOver
  PROVE  EditInv'
<1>1. /\ stage = "walk" /\ n \in Positions /\ (n \in processed \/ Op(n) = "none") /\ n' = next[n]
      /\ input' = input /\ next' = next /\ prev' = prev /\ processed' = processed /\ names' = names
      /\ stage' = stage
  BY DEF PassOver
<1>2. /\ Linked(Links, Elems, R) /\ n \in Elems \ {ListHead}
      /\ \A i, j \in Elems \ processed : <<i, j>> \in R <=> i < j
      /\ \A x \in Elems \cap Positions : <<x, n>> \in R => x \in processed \/ Op(x) = "none"
      /\ \A d \in processed \cap Elems :
           Op(d) \in Ordering /\ Index(input, Target(d)) # Missing /\ Stands(R, d)
  BY DEF Editing
<1>3. n # ListTail
  BY <1>1, InputIs DEF EditInv
<1>4. next[n] \in Elems /\ <<n, next[n]>> \in R /\ \A z \in Elems : <<n, z>> \in R => Leq(R, next[n], z)
  BY <1>2, <1>3 DEF Linked, Links
<1>5. next[n] # ListHead
  BY <1>2, <1>4 DEF Linked, Orders, Leq
<1>6. ASSUME NEW x \in Elems \cap Positions, <<x, next[n]>> \in R PROVE x \in processed \/ Op(x) = "none"
  <2>1. Orders(R, Elems)
    BY <1>2 DEF Linked
  <2>2. x = n \/ <<x, n>> \in R
    BY <2>1, <1>2, <1>4, <1>6 DEF Orders, Leq
  <2> QED
    BY <2>2, <1>1, <1>2
<1>7. /\ Elems' = Elems /\ Positions' = Positions /\ ListHead' = ListHead /\ ListTail' = ListTail
      /\ ListNodes' = ListNodes /\ Links' = Links /\ Unmarked' = Unmarked
      /\ \A i : Op(i)' = Op(i) /\ Target(i)' = Target(i)
  BY <1>1 DEF Elems, Gone, Positions, ListHead, ListTail, ListNodes, Links, Unmarked, Op, Target
<1>8. Linked(Links, Elems, R)'
  BY <1>1, <1>2, <1>7 DEF Linked
<1>9. ASSUME NEW d \in (processed \cap Elems)'
      PROVE  Op(d)' \in Ordering /\ Index(input, Target(d))' # Missing /\ Stands(R, d)'
  <2>1. Op(d) \in Ordering /\ Index(input, Target(d)) # Missing /\ Stands(R, d)
    BY <1>1, <1>2, <1>7
  <2>2. Index(input, Target(d))' = Index(input, Target(d)) /\ Missing' = Missing
    BY <1>1 DEF Index, RunStarts, RunEnd, Missing, Target
  <2>3. Stands(R, d)'
    BY <2>1, <2>2, <1>7 DEF Stands
  <2>4. Op(d)' = Op(d)
    BY <1>7
  <2> QED
    BY ONLY <2>1, <2>2, <2>3, <2>4 DEF Ordering
<1>10. Editing(R)'
  <2>1. n' \in (Elems \ {ListHead})'
    BY <1>1, <1>4, <1>5, <1>7
  <2>2. \A i, j \in (Elems \ processed)' : <<i, j>> \in R <=> i < j
    BY <1>1, <1>2, <1>7
  <2>3. \A x \in (Elems \cap Positions)' : <<x, n'>> \in R => x \in processed' \/ Op(x)' = "none"
    BY <1>1, <1>6, <1>7
  <2> QED
    BY <2>1, <2>2, <2>3, <1>8, <1>9 DEF Editing
<1>11. Indexed'
  <2>1. Targets' = Targets
    BY <1>1 DEF Targets, Positions, Op, Target
  <2>2. \A x : Index(input, x)' = Index(input, x)
    BY <1>1 DEF Index, RunStarts, RunEnd, Missing
  <2>3. Indexed
    BY <1>1 DEF EditInv
  <2> QED
    BY <2>1, <2>2, <2>3, <1>1, <1>7 DEF Indexed, Missing
<1> QED
  BY <1>1, <1>7, <1>10, <1>11 DEF EditInv

(* Before the first step the list is the collection.                       *)
LEMMA Starting ==
  ASSUME EditInit
  PROVE  EditInv
<1> DEFINE R == {p \in ListNodes \X ListNodes : p[1] < p[2]}
           N == Len(input)
<1>1. /\ input \in Inputs /\ processed = {} /\ names = [x \in Names |-> Index(input, x)] /\ n = 1
      /\ next = [i \in 0 .. N + 1 |-> IF i = N + 1 THEN None ELSE i + 1]
      /\ prev = [i \in 0 .. N + 1 |-> IF i \in {0, N + 1} THEN None ELSE i - 1]
      /\ contents = [i \in Positions |-> i]
      /\ stage = IF \E i \in Positions : input[i].op = "several" THEN "error"
                 ELSE IF \A i \in Positions : input[i].op = "none" THEN "done" ELSE "walk"
  BY DEF EditInit, BackLinks, TailOf
<1>2. /\ Positions = 1 .. N /\ N \in Nat /\ ListHead \notin Positions /\ ListTail \notin Positions
      /\ Positions = ListNodes \ {ListHead, ListTail} /\ ListHead # ListTail /\ ListHead = 0 /\ ListTail = N + 1
      /\ ListNodes = 0 .. N + 1
      /\ \A i \in Positions : Op(i) \in Ordering => Target(i) \in Names
      /\ \A i \in Positions : Op(i) \in Ops
  BY <1>1, InputIs DEF ListHead, ListTail, ListNodes
<1>3. Elems = ListNodes
  BY <1>1, <1>2 DEF Elems, Gone
<1>4. ASSUME stage = "walk" PROVE N > 0
  <2>1. \E i \in Positions : input[i].op # "none"
    BY <1>1, <1>4
  <2> QED
    BY <2>1, <1>2
<1>5. \A i, j \in ListNodes : <<i, j>> \in R <=> i < j
  OBVIOUS
<1> HIDE DEF R, N
<1>6. Linked(Links, ListNodes, R)
  <2>1. DOMAIN next = ListNodes /\ DOMAIN prev = ListNodes
    BY <1>1, <1>2
  <2>2. \A x \in ListNodes \ {ListTail} : next[x] = x + 1 /\ x + 1 \in ListNodes
    BY <1>1, <1>2
  <2>3. \A x \in ListNodes \ {ListHead, ListTail} : prev[x] = x - 1 /\ x - 1 \in ListNodes \ {ListTail}
    BY <1>1, <1>2
  <2>4. prev[ListTail] = None
    BY <1>1, <1>2
  <2>5. Orders(R, ListNodes)
    BY <1>2, <1>5 DEF Orders
  <2>6. \A x \in ListNodes : Leq(R, ListHead, x) /\ Leq(R, x, ListTail)
    BY <1>2, <1>5 DEF Leq
  <2>7. \A x \in ListNodes \ {ListTail} : <<x, x + 1>> \in R /\ \A z \in ListNodes : <<x, z>> \in R => Leq(R, x + 1, z)
    BY <1>2, <1>5, <2>2 DEF Leq
  <2>8. \A x \in ListNodes \ {ListHead, ListTail} : next[x - 1] = x
    BY <2>2, <2>3, <1>2
  <2>9. ListHead \in ListNodes /\ ListTail \in ListNodes
    BY <1>2
  <2> QED
    BY <2>1, <2>2, <2>3, <2>4, <2>5, <2>6, <2>7, <2>8, <2>9 DEF Linked, Links
<1>7. ASSUME stage = "walk" PROVE Editing(R)
  <2>1. n \in Elems \ {ListHead}
    BY <1>1, <1>2, <1>3
  <2>2. \A x \in Elems \cap Positions : <<x, n>> \notin R
    BY <1>1, <1>2, <1>3, <2>1, <1>5
  <2> QED
    BY <2>1, <2>2, <1>1, <1>3, <1>5, <1>6 DEF Editing
<1>8. ASSUME stage = "walk" PROVE Indexed
  <2> SUFFICES ASSUME NEW t \in Targets, names[t] # Missing
      PROVE  /\ names[t] = Index(input, t)
             /\ \A k \in names[t].first .. (names[t].last - 1) : next[k] = k + 1
    BY <1>1 DEF Indexed
  <2> DEFINE r == Index(input, t)
  <2>1. t \in Names /\ names[t] = r
    BY <1>1, <1>2 DEF Targets
  <2>2. r.first \in Positions /\ r.last \in r.first .. Len(input)
    BY <2>1, <1>1, ReplaceAssumption, IndexIs
  <2> HIDE DEF r
  <2>3. ASSUME NEW k \in r.first .. (r.last - 1) PROVE next[k] = k + 1
    <3> DEFINE f == r.first
               l == r.last
    <3>1. f \in 1 .. N /\ l \in f .. N /\ k \in f .. (l - 1)
      BY <2>2, <2>3, <1>2 DEF N
    <3> HIDE DEF f, l
    <3>2. k \in 1 .. N
      BY <3>1, <1>2
    <3> QED
      BY <3>2, <1>1, <1>2
  <2> QED
    BY <2>1, <2>3 DEF r
<1>9. ASSUME stage = "done" PROVE NothingLost /\ PlacedAsAsked
  <2>1. \A i \in Positions : Op(i) = "none"
    BY <1>1, <1>9 DEF Op
  <2>2. Replaced = {}
    BY <2>1 DEF Replaced
  <2>3. NothingLost
    BY <2>2, <1>1, <1>2 DEF NothingLost, Plain
  <2>4. PlacedAsAsked
    BY <2>1 DEF PlacedAsAsked
  <2> QED
    BY <2>3, <2>4
<1>10. stage = "walk" => \A i \in Positions : Op(i) # "several"
  BY <1>1 DEF Op
<1>11. processed \subseteq Positions /\ DOMAIN names = Names
  BY <1>1
<1> QED
  BY <1>1, <1>7, <1>8, <1>9, <1>10, <1>11 DEF EditInv

(* While nothing happens the invariant stays.                              *)
LEMMA Resting ==
  ASSUME EditInv, UNCHANGED editVars
  PROVE  EditInv'
<1>1. /\ input' = input /\ next' = next /\ prev' = prev /\ processed' = processed /\ names' = names
      /\ n' = n /\ stage' = stage /\ contents' = contents
  BY DEF editVars
<1>2. /\ Elems' = Elems /\ Positions' = Positions /\ ListHead' = ListHead /\ ListTail' = ListTail
      /\ ListNodes' = ListNodes /\ Links' = Links /\ Unmarked' = Unmarked /\ Targets' = Targets
      /\ Replaced' = Replaced /\ Plain' = Plain /\ Missing' = Missing /\ Ordering' = Ordering
      /\ \A i : Op(i)' = Op(i) /\ Target(i)' = Target(i)
  BY <1>1 DEF Elems, Gone, Positions, ListHead, ListTail, ListNodes, Links, Unmarked, Targets, Replaced, Plain, Op, Target,
             Missing, Ordering
<1>3. \A x : Index(input, x)' = Index(input, x)
  BY <1>1 DEF Index, RunStarts, RunEnd, Missing
<1>4. Indexed => Indexed'
  BY <1>1, <1>2, <1>3 DEF Indexed
<1>5. ASSUME NEW R, Editing(R) PROVE Editing(R)'
  <2>1. Linked(Links, Elems, R)'
    BY <1>1, <1>2, <1>5 DEF Linked, Editing
  <2>2. ASSUME NEW d \in (processed \cap Elems)'
        PROVE  Op(d)' \in Ordering /\ Index(input, Target(d))' # Missing /\ Stands(R, d)'
    <3>1. Op(d) \in Ordering /\ Index(input, Target(d)) # Missing /\ Stands(R, d)
      BY <1>1, <1>2, <1>5 DEF Editing
    <3>2. Index(input, Target(d))' = Index(input, Target(d)) /\ Missing' = Missing
      BY <1>1 DEF Index, RunStarts, RunEnd, Missing, Target
    <3>3. Stands(R, d)'
      BY <3>1, <3>2, <1>2 DEF Stands
    <3>4. Op(d)' = Op(d)
      BY <1>2
    <3> QED
      BY ONLY <3>1, <3>2, <3>3, <3>4 DEF Ordering
  <2> QED
    BY <2>1, <2>2, <1>1, <1>2, <1>5 DEF Editing
<1>6. NothingLost => NothingLost'
  BY <1>1, <1>2 DEF NothingLost, Edits
<1>7. PlacedAsAsked => PlacedAsAsked'
  <2>1. \A i : Where(i)' = Where(i)
    BY <1>1 DEF Where
  <2>2. \A i, j : PlainBetween(i, j)' <=> PlainBetween(i, j)
    BY <2>1, <1>2 DEF PlainBetween
  <2> QED
    BY <1>1, <1>2, <1>3, <2>1, <2>2 DEF PlacedAsAsked, Edits
<1> QED
  BY <1>1, <1>2, <1>4, <1>5, <1>6, <1>7 DEF EditInv

(* The walk of handleReplaceByName along the list that it relinks as it    *)
(* goes (replace.go:162-245) keeps it a list of all providers but those    *)
(* whose name was replaced, in some order in which the providers not yet   *)
(* moved are as they were, those behind the cursor are done, and whoever   *)
(* was moved is where it asked to be; the index still tells the truth.     *)
(* For any collections and names; no directive is itself a target, and the *)
(* replacements of one target are on one side of it.                       *)
THEOREM Editor == TargetsArePlain /\ OneSided /\ EditSpec => []EditInv
<1>1. ASSUME TargetsArePlain, OneSided, EditInv, [EditNext]_editVars PROVE EditInv'
  <2>1. CASE UNCHANGED editVars
    BY <2>1, <1>1, Resting
  <2>2. CASE EditNext
    <3>1. stage = "walk"
      BY <2>2 DEF EditNext, NoTarget, DoReplace, DoInsert, PassOver, ReadBack, At
    <3>2. PICK R : Editing(R)
      BY <3>1, <1>1 DEF EditInv
    <3>3. CASE NoTarget
      <4>1. stage' = "error" /\ input' = input /\ processed' = processed /\ names' = names
        BY <3>3 DEF NoTarget, End
      <4>2. Positions' = Positions
        BY <4>1 DEF Positions
      <4> QED
        BY <4>1, <4>2, <1>1 DEF EditInv
    <3>4. CASE DoReplace
      BY <3>2, <3>4, <1>1, Replacing
    <3>5. CASE DoInsert
      BY <3>2, <3>5, <1>1, Inserting
    <3>6. CASE PassOver
      BY <3>2, <3>6, <1>1, PassingOver
    <3>7. CASE ReadBack
      <4>1. NothingLost' /\ PlacedAsAsked'
        BY <3>2, <3>7, <1>1, Finishing
      <4>2. stage' = "done" /\ input' = input /\ processed' = processed /\ names' = names
        BY <3>7 DEF ReadBack, End
      <4>3. Positions' = Positions
        BY <4>2 DEF Positions
      <4> QED
        BY <4>1, <4>2, <4>3, <1>1 DEF EditInv
    <3> QED
      BY <2>2, <3>3, <3>4, <3>5, <3>6, <3>7 DEF EditNext
  <2> QED
    BY <1>1, <2>1, <2>2
<1>2. EditInit => EditInv
  BY Starting
<1> SUFFICES ASSUME TargetsArePlain, OneSided PROVE EditSpec => []EditInv
  OBVIOUS
<1>3. EditInv /\ [EditNext]_editVars => EditInv'
  BY <1>1
<1> QED
  BY <1>2, <1>3, PTL DEF EditSpec

(* The edited collection (replace.go:246-252) has each provider once but   *)
(* for those that were replaced, and providers without a directive stay in *)
(* their order.                                                            *)
THEOREM EditLosesNothing == TargetsArePlain /\ OneSided /\ EditSpec => []NothingLost
<1>1. EditInv => NothingLost
  BY DEF EditInv, NothingLost, Edits
<1> QED
  BY <1>1, Editor, PTL

(* ReplaceNamed, InsertBeforeNamed and InsertAfterNamed (replace.go:7-41)  *)
(* put a provider where it asks to be: nothing but providers with          *)
(* directives is between it and its target, and a replacement stands where *)
(* the providers it replaces stood.                                        *)
THEOREM EditPlaces == TargetsArePlain /\ OneSided /\ EditSpec => []PlacedAsAsked
<1>1. EditInv => PlacedAsAsked
  BY DEF EditInv, PlacedAsAsked, Edits
<1> QED
  BY <1>1, Editor, PTL
=============================================================================
