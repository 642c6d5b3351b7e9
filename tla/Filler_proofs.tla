---------------------------- MODULE Filler_proofs ----------------------------
(***************************************************************************)
(* Proofs about Filler.tla, for any structs, tags and actions: the walk    *)
(* comes to every field that is to be looked at and to no other, once and  *)
(* with the actions in their order, and the struct ends as it was asked    *)
(* for.                                                                    *)
(***************************************************************************)
EXTENDS Filler, FiniteSetTheorems, SequenceTheorems, NaturalsInduction, WellFoundedInduction, TLAPS

WordOrNone == STRING \cup {""}
Step == [by : ActionSteps, word : WordOrNone, action : Actions]
          \cup [by : {"word"}, word : Reserved \ {"field"}] \cup [by : {"unknown"}, word : STRING]

-----------------------------------------------------------------------------
LEMMA NatMin ==
  ASSUME NEW T \in SUBSET Nat, T # {}
  PROVE  \E m \in T : \A n \in T : m <= n
<1>1. PICK m \in T : \A n \in T : ~(<<n, m>> \in OpToRel(<, Nat))
  BY NatLessThanWellFounded, WFMin
<1>2. ASSUME NEW n \in T PROVE m <= n
  <2>1. ~(<<n, m>> \in OpToRel(<, Nat))
    BY <1>1
  <2>2. ~(n < m)
    BY <2>1 DEF OpToRel
  <2> QED
    BY <2>2
<1> QED
  BY <1>2

(* A nonempty set of numbers up to N has a last one, which Max chooses.    *)
LEMMA MaxOfUpTo ==
  ASSUME NEW N \in Nat, NEW T \in SUBSET (1 .. N), T # {}
  PROVE  Max(T) \in T /\ \A n \in T : n <= Max(T)
<1> DEFINE R == {N - n : n \in T}
<1>1. \A n \in T : N - n \in Nat
  OBVIOUS
<1>2. R \in SUBSET Nat /\ R # {}
  BY <1>1
<1>3. PICK r \in R : \A q \in R : r <= q
  BY <1>2, NatMin
<1>4. PICK m \in T : r = N - m
  BY <1>3
<1>5. ASSUME NEW n \in T PROVE m >= n
  <2>1. N - m <= N - n
    BY <1>3, <1>4
  <2> QED
    BY <2>1
<1>6. Max(T) \in T /\ \A n \in T : Max(T) >= n
  <2>1. \E x \in T : \A y \in T : x >= y
    BY <1>5
  <2> QED
    BY <2>1, Zenon DEF Max
<1>7. \A n \in T : n \in Int
  OBVIOUS
<1> DEFINE x == Max(T)
<1>8. x \in T /\ \A n \in T : x >= n
  BY <1>6
<1> HIDE DEF x
<1>9. x \in T /\ \A n \in T : n <= x
  BY <1>7, <1>8
<1> QED
  BY <1>9 DEF x

LEMMA MaxIs ==
  ASSUME NEW N \in Nat, NEW T \in SUBSET (1 .. N), NEW m \in T, \A n \in T : n <= m
  PROVE  Max(T) = m
<1>1. Max(T) \in T /\ \A n \in T : n <= Max(T)
  BY MaxOfUpTo
<1> DEFINE x == Max(T)
<1>2. x \in T /\ m <= x /\ x <= m
  BY <1>1
<1> HIDE DEF x
<1>3. x = m
  BY <1>2
<1> QED
  BY <1>3 DEF x

(* The numbers of a set in their order: there is such a list, so that      *)
(* InOrder is one.                                                         *)
LEMMA Enumeration ==
  ASSUME NEW N \in Nat, NEW K \in SUBSET (1 .. N)
  PROVE  /\ Cardinality(K) \in Nat
         /\ InOrder(K) \in [1 .. Cardinality(K) -> K]
<1> DEFINE Listing(S, s) == \A i, j \in DOMAIN s : i < j => s[i] < s[j]
           Listed(S) == \E s \in [1 .. Cardinality(S) -> S] : Listing(S, s)
           T == {n \in Nat : \E S \in SUBSET (1 .. n) : ~Listed(S)}
<1>1. T = {}
  <2> SUFFICES ASSUME T # {} PROVE FALSE
    OBVIOUS
  <2>1. PICK m \in T : \A n \in T : m <= n
    <3> HIDE DEF T
    <3>1. T \in SUBSET Nat
      BY DEF T
    <3> QED
      BY <3>1, NatMin
  <2>2. PICK S \in SUBSET (1 .. m) : ~Listed(S)
    OBVIOUS
  <2>6. \A n \in Nat : n < m => \A R \in SUBSET (1 .. n) : Listed(R)
    <3> SUFFICES ASSUME NEW n \in Nat, n < m, NEW R \in SUBSET (1 .. n), ~Listed(R) PROVE FALSE
      OBVIOUS
    <3> HIDE DEF Listed
    <3>1. n \in T
      OBVIOUS
    <3> QED
      BY <3>1, <2>1
  <2>3. ASSUME m \notin S PROVE FALSE
    <3>1. CASE m = 0
      <4>1. S = {}
        BY <3>1
      <4>2. Cardinality(S) = 0
        BY <4>1, FS_EmptySet
      <4>3. <<>> \in [1 .. 0 -> S]
        OBVIOUS
      <4>4. Listing(S, <<>>)
        OBVIOUS
      <4> QED
        BY <2>2, <4>2, <4>3, <4>4
    <3>2. CASE m # 0
      <4>1. m - 1 \in Nat /\ S \in SUBSET (1 .. m - 1)
        BY <3>2, <2>3
      <4>2. Listed(S)
        <5> HIDE DEF Listed
        <5> QED
          BY <4>1, <2>6
      <4> QED
        BY <4>2, <2>2
    <3> QED
      BY <3>1, <3>2
  <2>4. ASSUME m \in S PROVE FALSE
    <3> DEFINE R == S \ {m}
               c == Cardinality(R)
    <3>1. m - 1 \in Nat /\ R \in SUBSET (1 .. m - 1)
      BY <2>4
    <3>2. Listed(R)
      <4> HIDE DEF Listed
      <4> QED
        BY <3>1, <2>6
    <3>3. PICK s \in [1 .. c -> R] : Listing(R, s)
      BY <3>2
    <3>4. IsFiniteSet(S) /\ IsFiniteSet(R)
      <4>1. IsFiniteSet(1 .. m)
        BY FS_Interval
      <4>2. IsFiniteSet(S)
        BY <4>1, FS_Subset
      <4> QED
        BY <4>2, FS_Subset
    <3>5. c \in Nat /\ Cardinality(S) = c + 1
      BY <3>4, FS_CardinalityType, FS_RemoveElement, <2>4
    <3> DEFINE u == [i \in 1 .. c + 1 |-> IF i = c + 1 THEN m ELSE s[i]]
    <3> HIDE DEF c
    <3>6. u \in [1 .. c + 1 -> S]
      <4>1. \A i \in 1 .. c + 1 : i # c + 1 => i \in 1 .. c
        BY <3>5
      <4> QED
        BY <4>1, <2>4
    <3>7. Listing(S, u)
      <4> SUFFICES ASSUME NEW i \in 1 .. c + 1, NEW j \in 1 .. c + 1, i < j PROVE u[i] < u[j]
        BY <3>6
      <4>1. i \in 1 .. c /\ u[i] = s[i] /\ s[i] \in R
        BY <3>5
      <4>2. CASE j = c + 1
        <5>1. u[j] = m
          BY <4>2
        <5>2. s[i] \in 1 .. m - 1
          BY <4>1, <3>1
        <5> QED
          BY <5>1, <5>2, <4>1
      <4>3. CASE j # c + 1
        <5>1. j \in 1 .. c /\ u[j] = s[j]
          BY <3>5, <4>3
        <5>2. DOMAIN s = 1 .. c
          OBVIOUS
        <5>3. s[i] < s[j]
          BY <5>1, <5>2, <4>1, <3>3
        <5> QED
          BY <5>1, <5>3, <4>1
      <4> QED
        BY <4>2, <4>3
    <3> QED
      BY <3>5, <3>6, <3>7, <2>2
  <2> QED
    BY <2>3, <2>4
<1>2. Listed(K)
  BY <1>1
<1>3. \E s \in [1 .. Cardinality(K) -> K] : \A i, j \in DOMAIN s : i < j => s[i] < s[j]
  BY <1>2
<1>4. IsFiniteSet(K)
  <2>1. IsFiniteSet(1 .. N)
    BY FS_Interval
  <2> QED
    BY <2>1, FS_Subset
<1> QED
  BY <1>3, <1>4, FS_CardinalityType DEF InOrder


-----------------------------------------------------------------------------
(* Paths: what is under a field, what is left of it.                       *)
Path == Seq(Nat \ {0}) \ {<<>>}
Pre(p, q) == Len(p) <= Len(q) /\ \A j \in 1 .. Len(p) : p[j] = q[j]
Left(p, q) == \E k \in 1 .. Len(p) : k <= Len(q) /\ (\A j \in 1 .. k - 1 : p[j] = q[j]) /\ p[k] < q[k]
Dom == DOMAIN b.fields

LEMMA PathLen ==
  ASSUME NEW p \in Path
  PROVE  /\ Len(p) \in Nat \ {0} /\ DOMAIN p = 1 .. Len(p) /\ p \in Seq(Nat)
         /\ \A k \in 1 .. Len(p) : p[k] \in Nat \ {0} /\ p[k] \in Nat
BY DEF Path

LEMMA PathsEqual ==
  ASSUME NEW p \in Path, NEW q \in Path, Pre(p, q), Len(p) = Len(q)
  PROVE  p = q
BY DEF Path, Pre

(* The first part of a path. *)
LEMMA SubPath ==
  ASSUME NEW p \in Path, NEW k \in 1 .. Len(p)
  PROVE  /\ SubSeq(p, 1, k) \in Path /\ Len(SubSeq(p, 1, k)) = k
         /\ \A j \in 1 .. k : SubSeq(p, 1, k)[j] = p[j]
         /\ Pre(SubSeq(p, 1, k), p)
<1>1. Len(p) \in Nat /\ k \in Int /\ \A j \in 1 .. k : p[j] \in Nat \ {0}
  BY PathLen
<1>2. /\ SubSeq(p, 1, k) \in Seq(Nat \ {0}) /\ Len(SubSeq(p, 1, k)) = k
      /\ \A j \in 1 .. k : SubSeq(p, 1, k)[j] = p[1 + j - 1]
  BY <1>1, SubSeqProperties
<1>3. \A j \in 1 .. k : 1 + j - 1 = j
  BY <1>1
<1>4. \A j \in 1 .. k : SubSeq(p, 1, k)[j] = p[j]
  BY <1>2, <1>3
<1>5. SubSeq(p, 1, k) # <<>>
  BY <1>1, <1>2
<1> QED
  BY <1>1, <1>2, <1>4, <1>5 DEF Path, Pre

LEMMA PreIsSub ==
  ASSUME NEW p \in Path, NEW q \in Path, Pre(p, q)
  PROVE  Len(p) \in 1 .. Len(q) /\ p = SubSeq(q, 1, Len(p))
<1>1. Len(p) \in 1 .. Len(q)
  BY PathLen DEF Pre
<1>2. Pre(p, SubSeq(q, 1, Len(p)))
  BY <1>1, SubPath, PathLen DEF Pre
<1> QED
  BY <1>1, <1>2, SubPath, PathsEqual

LEMMA PrefixIs ==
  ASSUME NEW p \in Path, NEW q \in Path
  PROVE  IsPrefix(p, q) <=> Pre(p, q)
<1>1. SubSeq(p, 1, Len(p)) = p
  BY SubSeqFull, PathLen
<1>2. CASE Len(p) <= Len(q)
  <2>1. Len(p) \in 1 .. Len(q)
    BY <1>2, PathLen
  <2>2. /\ SubSeq(q, 1, Len(p)) \in Path
        /\ Len(SubSeq(q, 1, Len(p))) = Len(p)
        /\ \A j \in 1 .. Len(p) : SubSeq(q, 1, Len(p))[j] = q[j]
    BY <2>1, SubPath
  <2>3. (p = SubSeq(q, 1, Len(p))) <=> Pre(p, q)
    BY <2>2, <1>2, PathsEqual, PathLen DEF Pre
  <2> QED
    BY <1>1, <1>2, <2>3 DEF IsPrefix
<1>3. CASE ~(Len(p) <= Len(q))
  BY <1>3 DEF IsPrefix, Pre
<1> QED
  BY <1>2, <1>3

LEMMA AboveIs ==
  ASSUME NEW p \in Path
  PROVE  /\ \A q \in Above(p) : q \in Path /\ Pre(q, p)
         /\ \A q \in Path : Pre(q, p) => q \in Above(p)
<1>1. ASSUME NEW q \in Above(p) PROVE q \in Path /\ Pre(q, p)
  <2>1. PICK k \in 1 .. Len(p) : q = SubSeq(p, 1, k)
    BY DEF Above
  <2> QED
    BY <2>1, SubPath
<1>2. ASSUME NEW q \in Path, Pre(q, p) PROVE q \in Above(p)
  <2>1. Len(q) \in 1 .. Len(p) /\ q = SubSeq(p, 1, Len(q))
    BY <1>2, PreIsSub
  <2> QED
    BY <2>1 DEF Above
<1> QED
  BY <1>1, <1>2

LEMMA PreOrder ==
  ASSUME NEW p \in Path, NEW q \in Path, NEW r \in Path
  PROVE  /\ Pre(p, p)
         /\ Pre(p, q) /\ Pre(q, r) => Pre(p, r)
         /\ Pre(p, q) /\ Pre(q, p) => p = q
         /\ Pre(p, r) /\ Pre(q, r) => Pre(p, q) \/ Pre(q, p)
<1>1. Len(p) \in Nat /\ Len(q) \in Nat /\ Len(r) \in Nat
  BY PathLen
<1>2. Pre(p, p)
  BY <1>1 DEF Pre
<1>3. Pre(p, q) /\ Pre(q, r) => Pre(p, r)
  BY <1>1 DEF Pre
<1>4. Pre(p, q) /\ Pre(q, p) => p = q
  <2> SUFFICES ASSUME Pre(p, q), Pre(q, p) PROVE p = q
    OBVIOUS
  <2>1. Len(p) = Len(q)
    BY <1>1 DEF Pre
  <2> QED
    BY <2>1, PathsEqual
<1>5. Pre(p, r) /\ Pre(q, r) => Pre(p, q) \/ Pre(q, p)
  BY <1>1 DEF Pre
<1> QED
  BY <1>2, <1>3, <1>4, <1>5

(* What is left of a field is not under it, and it is not under that.      *)
LEMMA LeftApart ==
  ASSUME NEW p \in Path, NEW q \in Path, NEW r \in Path, Left(p, q)
  PROVE  /\ ~Pre(p, q) /\ ~Pre(q, p)
         /\ Pre(q, r) => Left(p, r)
         /\ Pre(p, r) => Left(r, q)
<1>1. Len(p) \in Nat /\ Len(q) \in Nat /\ Len(r) \in Nat
  BY PathLen
<1>2. PICK k \in 1 .. Len(p) : k <= Len(q) /\ (\A j \in 1 .. k - 1 : p[j] = q[j]) /\ p[k] < q[k]
  BY DEF Left
<1>3. p[k] \in Nat /\ q[k] \in Nat /\ p[k] # q[k] /\ k \in 1 .. Len(q)
  BY <1>1, <1>2, PathLen
<1>4. ~Pre(p, q) /\ ~Pre(q, p)
  BY <1>1, <1>2, <1>3 DEF Pre
<1>5. ASSUME Pre(q, r) PROVE Left(p, r)
  <2>1. k <= Len(r) /\ (\A j \in 1 .. k - 1 : p[j] = r[j]) /\ p[k] < r[k]
    BY <1>1, <1>2, <1>3, <1>5 DEF Pre
  <2> QED
    BY <2>1 DEF Left
<1>6. ASSUME Pre(p, r) PROVE Left(r, q)
  <2>1. k \in 1 .. Len(r) /\ (\A j \in 1 .. k - 1 : r[j] = q[j]) /\ r[k] < q[k]
    BY <1>1, <1>2, <1>3, <1>6 DEF Pre
  <2> QED
    BY <2>1, <1>2 DEF Left
<1> QED
  BY <1>4, <1>5, <1>6


(* The fields before a field in its struct, and those it is a field of,    *)
(* are fields; the latter are structs.                                     *)
LEMMA FieldsAre ==
  ASSUME b \in Builders, NEW p \in Dom
  PROVE  /\ p \in Path /\ FieldAt(p) \in Fields /\ FieldAt(p).type \in DOMAIN PointerTo
         /\ \A q \in Path : Pre(q, p) => q \in Dom /\ (q # p => FieldAt(q).struct)
         /\ \A k \in 1 .. Len(p) : \A n \in 1 .. p[k] :
              \A q \in Path : Len(q) = k /\ (\A j \in 1 .. k - 1 : q[j] = p[j]) /\ q[k] = n => q \in Dom
<1>1. /\ p \in Path /\ FieldAt(p) \in Fields /\ FieldAt(p).type \in DOMAIN PointerTo
      /\ \A k \in DOMAIN p : \A n \in 1 .. p[k] : Append(SubSeq(p, 1, k - 1), n) \in Dom
      /\ \A k \in 1 .. Len(p) - 1 : FieldAt(SubSeq(p, 1, k)).struct
  BY FillerAssumption DEF FieldPaths, Path, FieldAt, Dom
<1>2. Len(p) \in Nat /\ DOMAIN p = 1 .. Len(p) /\ \A k \in 1 .. Len(p) : p[k] \in Nat \ {0}
  BY <1>1, PathLen
<1>3. ASSUME NEW k \in 1 .. Len(p), NEW n \in 1 .. p[k], NEW q \in Path,
             Len(q) = k, \A j \in 1 .. k - 1 : q[j] = p[j], q[k] = n
      PROVE  q \in Dom
  <2> DEFINE f == SubSeq(p, 1, k - 1)
  <2>1. k - 1 \in Nat /\ k - 1 \in Int /\ n \in Nat \ {0} /\ \A j \in 1 .. k - 1 : p[j] \in Nat \ {0}
    BY <1>2
  <2>2. /\ f \in Seq(Nat \ {0}) /\ Len(f) = k - 1
        /\ \A j \in 1 .. k - 1 : f[j] = p[1 + j - 1]
    BY <2>1, SubSeqProperties
  <2>3. \A j \in 1 .. k - 1 : f[j] = p[j]
    <3>1. \A j \in 1 .. k - 1 : 1 + j - 1 = j
      BY <2>1
    <3> QED
      BY <2>2, <3>1
  <2> HIDE DEF f
  <2>4. /\ Append(f, n) \in Seq(Nat \ {0}) /\ Len(Append(f, n)) = k
        /\ \A j \in 1 .. k - 1 : Append(f, n)[j] = p[j]
        /\ Append(f, n)[k] = n
    BY <2>1, <2>2, <2>3, AppendProperties
  <2>5. \A j \in 1 .. k : q[j] = Append(f, n)[j]
    BY <1>3, <2>4
  <2>6. q \in Seq(Nat \ {0}) /\ Len(q) = Len(Append(f, n))
    BY <1>3, <2>4 DEF Path
  <2>7. q = Append(f, n)
    BY <2>4, <2>5, <2>6, <1>3, SeqEqual
  <2>8. Append(SubSeq(p, 1, k - 1), n) \in Dom
    BY <1>1, <1>2
  <2> QED
    BY <2>7, <2>8 DEF f
<1>4. ASSUME NEW q \in Path, Pre(q, p) PROVE q \in Dom /\ (q # p => FieldAt(q).struct)
  <2>1. Len(q) \in 1 .. Len(p) /\ q = SubSeq(p, 1, Len(q))
    BY <1>1, <1>4, PreIsSub
  <2>2. q[Len(q)] = p[Len(q)] /\ \A j \in 1 .. Len(q) - 1 : q[j] = p[j]
    BY <2>1, <1>4, <1>2 DEF Pre
  <2>3. p[Len(q)] \in 1 .. p[Len(q)]
    BY <1>2, <2>1
  <2>4. q \in Dom
    BY <1>3, <2>1, <2>2, <2>3
  <2>5. ASSUME q # p PROVE FieldAt(q).struct
    <3>1. Len(q) # Len(p)
      BY <1>1, <1>4, <2>5, PathsEqual
    <3>2. Len(q) \in 1 .. Len(p) - 1
      <4>1. Len(q) \in 1 .. Len(p) /\ Len(p) \in Nat
        BY <2>1, <1>2
      <4> QED
        BY <4>1, <3>1
    <3> QED
      BY <3>2, <2>1, <1>1
  <2> QED
    BY <2>4, <2>5
<1> QED
  BY <1>1, <1>3, <1>4

(* From a field to the first one under it. *)
LEMMA Child ==
  ASSUME b \in Builders, NEW q \in Path
  PROVE  /\ Append(q, 1) \in Path /\ Len(Append(q, 1)) = Len(q) + 1 /\ Pre(q, Append(q, 1))
         /\ \A p \in Dom : Left(p, Append(q, 1)) <=> Left(p, q)
         /\ \A p \in Path : Pre(p, Append(q, 1)) /\ p # Append(q, 1) <=> Pre(p, q)
         /\ \A p \in Dom : Pre(q, p) /\ p # q => Append(q, 1) \in Dom
<1> DEFINE c == Append(q, 1)
<1>1. /\ c \in Seq(Nat \ {0}) /\ c # <<>> /\ Len(c) = Len(q) + 1
      /\ (\A i \in 1 .. Len(q) : c[i] = q[i]) /\ c[Len(q) + 1] = 1
  BY AppendProperties DEF Path
<1>2. c \in Path /\ Len(q) \in Nat \ {0}
  BY <1>1, PathLen DEF Path
<1> HIDE DEF c
<1>3. Pre(q, c)
  BY <1>1, <1>2 DEF Pre
<1>4. ASSUME NEW p \in Dom PROVE Left(p, c) <=> Left(p, q)
  <2>1. p \in Path /\ Len(p) \in Nat /\ \A k \in 1 .. Len(p) : p[k] \in Nat \ {0}
    BY FieldsAre, PathLen
  <2>2. ASSUME Left(p, c) PROVE Left(p, q)
    <3>1. PICK k \in 1 .. Len(p) : k <= Len(c) /\ (\A j \in 1 .. k - 1 : p[j] = c[j]) /\ p[k] < c[k]
      BY <2>2 DEF Left
    <3>2. k # Len(q) + 1
      BY <3>1, <1>1, <2>1
    <3>3. k \in 1 .. Len(q) /\ (\A j \in 1 .. k - 1 : p[j] = q[j]) /\ p[k] < q[k]
      BY <3>1, <3>2, <1>1, <1>2, <2>1
    <3> QED
      BY <3>3 DEF Left
  <2>3. ASSUME Left(p, q) PROVE Left(p, c)
    BY <2>3, <2>1, <1>2, <1>3, LeftApart
  <2> QED
    BY <2>2, <2>3
<1>5. ASSUME NEW p \in Path PROVE Pre(p, c) /\ p # c <=> Pre(p, q)
  <2>1. Len(p) \in Nat
    BY PathLen
  <2>2. ASSUME Pre(p, c), p # c PROVE Pre(p, q)
    <3>1. Len(p) # Len(c)
      BY <2>2, <1>2, PathsEqual
    <3> QED
      BY <2>1, <2>2, <3>1, <1>1, <1>2 DEF Pre
  <2>3. ASSUME Pre(p, q) PROVE Pre(p, c) /\ p # c
    <3>1. Pre(p, c)
      BY <2>3, <1>2, <1>3, PreOrder
    <3>2. Len(p) <= Len(q)
      BY <2>3 DEF Pre
    <3> QED
      BY <3>1, <3>2, <1>1, <1>2, <2>1
  <2> QED
    BY <2>2, <2>3
<1>6. ASSUME NEW p \in Dom, Pre(q, p), p # q PROVE c \in Dom
  <2>1. p \in Path /\ Len(p) \in Nat /\ \A k \in 1 .. Len(p) : p[k] \in Nat \ {0}
    BY FieldsAre, PathLen
  <2>2. Len(p) # Len(q)
    BY <1>6, <2>1, PathsEqual
  <2>3. Len(q) + 1 \in 1 .. Len(p) /\ 1 \in 1 .. p[Len(q) + 1]
    BY <2>1, <2>2, <1>2, <1>6 DEF Pre
  <2>4. Len(c) = Len(q) + 1 /\ (\A j \in 1 .. (Len(q) + 1) - 1 : c[j] = p[j]) /\ c[Len(q) + 1] = 1
    BY <1>1, <1>2, <1>6 DEF Pre
  <2> QED
    BY <2>3, <2>4, <1>2, FieldsAre
<1> QED
  BY <1>1, <1>2, <1>3, <1>4, <1>5, <1>6 DEF c

(* To the next field of the same struct. *)
Sib(q) == [q EXCEPT ![Len(q)] = @ + 1]
LEMMA Sibling ==
  ASSUME NEW q \in Path
  PROVE  /\ Sib(q) \in Path /\ Len(Sib(q)) = Len(q)
         /\ \A j \in 1 .. Len(q) - 1 : Sib(q)[j] = q[j]
         /\ Sib(q)[Len(q)] = q[Len(q)] + 1
         /\ \A p \in Path : Left(p, Sib(q)) <=> Left(p, q) \/ Pre(q, p)
         /\ \A p \in Path : Pre(p, Sib(q)) /\ p # Sib(q) <=> Pre(p, q) /\ p # q
<1> DEFINE c == Sib(q)
<1>1. Len(q) \in Nat \ {0} /\ DOMAIN q = 1 .. Len(q) /\ \A k \in 1 .. Len(q) : q[k] \in Nat \ {0}
  BY PathLen
<1>0. Len(q) \in Nat \ {0}
  BY <1>1
<1>2. q \in Seq(Nat \ {0}) /\ Len(q) \in 1 .. Len(q) /\ q[Len(q)] + 1 \in Nat \ {0}
  BY <1>1 DEF Path
<1>3. c = [q EXCEPT ![Len(q)] = q[Len(q)] + 1]
  BY DEF Sib
<1>4. /\ c \in Seq(Nat \ {0}) /\ Len(c) = Len(q)
      /\ \A j \in 1 .. Len(q) : c[j] = IF j = Len(q) THEN q[Len(q)] + 1 ELSE q[j]
  BY <1>2, <1>3, ExceptSeq
<1> HIDE DEF c
<1>10. Len(c) = Len(q)
  BY <1>4
<1>11. \A j \in 1 .. Len(q) : c[j] = IF j = Len(q) THEN q[Len(q)] + 1 ELSE q[j]
  BY <1>4
<1>5. c # <<>>
  BY <1>4, <1>1
<1>6. c \in Path /\ (\A j \in 1 .. Len(q) - 1 : c[j] = q[j]) /\ c[Len(q)] = q[Len(q)] + 1
  <2>1. c \in Path
    BY <1>4, <1>5 DEF Path
  <2>2. \A j \in 1 .. Len(q) - 1 : j \in 1 .. Len(q) /\ j # Len(q)
    BY <1>0
  <2>3. c[Len(q)] = q[Len(q)] + 1
    BY <1>2, <1>4
  <2> QED
    BY <1>4, <2>1, <2>2, <2>3
<1>13. q[Len(q)] \in Nat
  BY <1>1
<1>12. (\A j \in 1 .. Len(q) - 1 : c[j] = q[j]) /\ c[Len(q)] = q[Len(q)] + 1
  BY <1>6
<1>7. ASSUME NEW p \in Path PROVE Left(p, c) <=> Left(p, q) \/ Pre(q, p)
  <2>1. Len(p) \in Nat /\ \A k \in 1 .. Len(p) : p[k] \in Nat
    BY PathLen
  <2>2. ASSUME Left(p, c) PROVE Left(p, q) \/ Pre(q, p)
    <3>1. PICK k \in 1 .. Len(p) : k <= Len(c) /\ (\A j \in 1 .. k - 1 : p[j] = c[j]) /\ p[k] < c[k]
      BY <2>2 DEF Left
    <3>2. \A j \in 1 .. k - 1 : p[j] = q[j]
      BY <3>1, <1>0, <1>10, <1>12
    <3>3. CASE k # Len(q)
      <4>1. k \in 1 .. Len(q) - 1 /\ p[k] < q[k]
        BY <3>1, <3>3, <1>0, <1>10, <1>12
      <4> QED
        BY <3>2, <4>1, <1>1 DEF Left
    <3>4. CASE k = Len(q)
      <4>1. p[k] < q[k] \/ p[k] = q[k]
        BY <3>1, <3>4, <1>12, <1>13, <2>1
      <4>2. CASE p[k] < q[k]
        BY <4>2, <3>2, <3>4, <1>1 DEF Left
      <4>3. CASE p[k] = q[k]
        BY <4>3, <3>1, <3>2, <3>4, <1>1, <2>1 DEF Pre
      <4> QED
        BY <4>1, <4>2, <4>3
    <3> QED
      BY <3>3, <3>4
  <2>3. ASSUME Left(p, q) PROVE Left(p, c)
    <3>1. PICK k \in 1 .. Len(p) : k <= Len(q) /\ (\A j \in 1 .. k - 1 : p[j] = q[j]) /\ p[k] < q[k]
      BY <2>3 DEF Left
    <3>2. k <= Len(c) /\ (\A j \in 1 .. k - 1 : p[j] = c[j])
      BY <3>1, <1>0, <1>10, <1>12
    <3>3. p[k] < c[k]
      <4>1. k \in 1 .. Len(q) /\ p[k] \in Nat /\ q[k] \in Nat
        BY <3>1, <1>1, <2>1
      <4> QED
        BY <4>1, <3>1, <1>4
    <3> QED
      BY <3>1, <3>2, <3>3 DEF Left
  <2>4. ASSUME Pre(q, p) PROVE Left(p, c)
    <3>1. /\ Len(q) \in 1 .. Len(p) /\ p[Len(q)] = q[Len(q)]
          /\ \A j \in 1 .. Len(q) - 1 : p[j] = c[j]
      BY <2>4, <1>0, <1>12, <2>1 DEF Pre
    <3>2. p[Len(q)] < c[Len(q)]
      BY <3>1, <1>12, <1>13
    <3> QED
      BY <3>1, <3>2, <1>0, <1>10 DEF Left
  <2> QED
    BY <2>2, <2>3, <2>4
<1>8. ASSUME NEW p \in Path PROVE Pre(p, c) /\ p # c <=> Pre(p, q) /\ p # q
  <2>1. Len(p) \in Nat
    BY PathLen
  <2>2. ASSUME Pre(p, c), p # c PROVE Pre(p, q) /\ p # q
    <3>1. Len(p) # Len(c)
      BY <2>2, <1>6, PathsEqual
    <3> QED
      BY <2>1, <2>2, <3>1, <1>0, <1>10, <1>12 DEF Pre
  <2>3. ASSUME Pre(p, q), p # q PROVE Pre(p, c) /\ p # c
    <3>1. Len(p) # Len(q)
      BY <2>3, PathsEqual
    <3> QED
      BY <2>1, <2>3, <3>1, <1>0, <1>10, <1>12 DEF Pre
  <2> QED
    BY <2>2, <2>3
<1> QED
  BY <1>6, <1>10, <1>12, <1>7, <1>8 DEF c

(* After the last field of a struct, back to the field that it is. *)
LEMMA Parent ==
  ASSUME b \in Builders, NEW q \in Dom, Sib(q) \notin Dom
  PROVE  /\ Len(q) = 1 => \A p \in Dom : Left(p, q) \/ Pre(q, p)
         /\ Len(q) > 1 =>
              /\ Front(q) \in Dom /\ Front(q) \in Path /\ Pre(Front(q), q) /\ Front(q) # q
              /\ \A p \in Dom :
                   Left(p, Front(q)) \/ (Pre(p, Front(q)) /\ p # Front(q)) \/ Pre(Front(q), p)
                     <=> Left(p, q) \/ (Pre(p, q) /\ p # q) \/ Pre(q, p)
<1>1. q \in Path /\ Len(q) \in Nat \ {0} /\ \A k \in 1 .. Len(q) : q[k] \in Nat \ {0}
  BY FieldsAre, PathLen
<1>2. ASSUME NEW p \in Dom, Len(q) <= Len(p), \A j \in 1 .. Len(q) - 1 : p[j] = q[j]
      PROVE  Left(p, q) \/ Pre(q, p)
  <2>1. p \in Path /\ \A k \in 1 .. Len(p) : p[k] \in Nat \ {0} /\ Len(p) \in Nat
    BY FieldsAre, PathLen
  <2>2. Len(q) \in 1 .. Len(p) /\ p[Len(q)] \in Nat /\ q[Len(q)] \in Nat
    BY <1>1, <1>2, <2>1
  <2>3. CASE p[Len(q)] < q[Len(q)]
    BY <2>3, <2>2, <1>1, <1>2 DEF Left
  <2>4. CASE p[Len(q)] = q[Len(q)]
    BY <2>4, <2>2, <1>1, <1>2, <2>1 DEF Pre
  <2>5. CASE p[Len(q)] > q[Len(q)]
    <3>1. /\ Sib(q) \in Path /\ Len(Sib(q)) = Len(q) /\ \A j \in 1 .. Len(q) - 1 : Sib(q)[j] = q[j]
          /\ Sib(q)[Len(q)] = q[Len(q)] + 1
      BY <1>1, Sibling
    <3>2. q[Len(q)] + 1 \in 1 .. p[Len(q)]
      BY <2>2, <2>5
    <3>3. \A j \in 1 .. Len(q) - 1 : Sib(q)[j] = p[j]
      BY <3>1, <1>2
    <3>4. Sib(q) \in Dom
      BY <3>1, <3>2, <3>3, <2>2, FieldsAre
    <3> QED
      BY <3>4
  <2> QED
    BY <2>2, <2>3, <2>4, <2>5
<1>3. ASSUME Len(q) = 1 PROVE \A p \in Dom : Left(p, q) \/ Pre(q, p)
  <2> SUFFICES ASSUME NEW p \in Dom PROVE Left(p, q) \/ Pre(q, p)
    OBVIOUS
  <2>1. Len(p) \in Nat \ {0}
    BY FieldsAre, PathLen
  <2> QED
    BY <2>1, <1>2, <1>3
<1>4. ASSUME Len(q) > 1
      PROVE  /\ Front(q) \in Dom /\ Front(q) \in Path /\ Pre(Front(q), q) /\ Front(q) # q
             /\ \A p \in Dom :
                  Left(p, Front(q)) \/ (Pre(p, Front(q)) /\ p # Front(q)) \/ Pre(Front(q), p)
                    <=> Left(p, q) \/ (Pre(p, q) /\ p # q) \/ Pre(q, p)
  <2> DEFINE f == Front(q)
  <2>1. Len(q) - 1 \in 1 .. Len(q)
    BY <1>1, <1>4
  <2>2. /\ f \in Path /\ Pre(f, q) /\ Len(f) = Len(q) - 1 /\ \A j \in 1 .. Len(q) - 1 : f[j] = q[j]
    BY <1>1, <2>1, SubPath DEF Front
  <2> HIDE DEF f
  <2>3. f \in Dom /\ f # q
    BY <1>1, <2>2, FieldsAre
  <2>4. ASSUME NEW p \in Dom
        PROVE  Left(p, f) \/ (Pre(p, f) /\ p # f) \/ Pre(f, p) <=> Left(p, q) \/ (Pre(p, q) /\ p # q) \/ Pre(q, p)
    <3>1. p \in Path /\ Len(p) \in Nat
      BY FieldsAre, PathLen
    <3>2. Left(p, f) => Left(p, q)
      BY <3>1, <2>2, <1>1, LeftApart
    <3>3. ASSUME Pre(p, f) PROVE Pre(p, q) /\ p # q
      <4>1. Pre(p, q)
        BY <3>1, <3>3, <2>2, <1>1, PreOrder
      <4>2. Len(p) <= Len(f)
        BY <3>3 DEF Pre
      <4> QED
        BY <4>1, <4>2, <2>2, <1>1, <3>1
    <3>4. ASSUME Pre(f, p) PROVE Left(p, q) \/ (Pre(p, q) /\ p # q) \/ Pre(q, p)
      <4>1. CASE Len(p) >= Len(q)
        <5>1. Len(q) <= Len(p) /\ \A j \in 1 .. Len(q) - 1 : p[j] = q[j]
          BY <3>4, <4>1, <2>2, <1>1, <3>1 DEF Pre
        <5> QED
          BY <5>1, <1>2
      <4>2. CASE ~(Len(p) >= Len(q))
        <5>1. Len(p) = Len(f)
          BY <3>4, <4>2, <2>2, <1>1, <3>1 DEF Pre
        <5>2. p = f
          BY <5>1, <3>4, <3>1, <2>2, PathsEqual
        <5> QED
          BY <5>2, <2>2, <2>3
      <4> QED
        BY <4>1, <4>2
    <3>5. ASSUME Left(p, q) PROVE Left(p, f) \/ Pre(f, p)
      <4>1. PICK k \in 1 .. Len(p) : k <= Len(q) /\ (\A j \in 1 .. k - 1 : p[j] = q[j]) /\ p[k] < q[k]
        BY <3>5 DEF Left
      <4>2. CASE k = Len(q)
        BY <4>1, <4>2, <2>2, <1>1, <3>1 DEF Pre
      <4>3. CASE k # Len(q)
        <5>1. k <= Len(f) /\ (\A j \in 1 .. k - 1 : p[j] = f[j]) /\ p[k] < f[k]
          BY <4>1, <4>3, <2>2, <1>1
        <5> QED
          BY <5>1 DEF Left
      <4> QED
        BY <4>2, <4>3
    <3>6. ASSUME Pre(p, q), p # q PROVE Pre(p, f)
      <4>1. Len(p) # Len(q)
        BY <3>1, <3>6, <1>1, PathsEqual
      <4> QED
        BY <4>1, <3>1, <3>6, <2>2, <1>1 DEF Pre
    <3>7. Pre(q, p) => Pre(f, p)
      BY <3>1, <2>2, <1>1, PreOrder
    <3>8. Pre(p, f) /\ p = f => Pre(f, p)
      BY <2>2, PreOrder
    <3> QED
      BY <3>2, <3>3, <3>4, <3>5, <3>6, <3>7, <3>8
  <2> QED
    BY <2>2, <2>3, <2>4 DEF f
<1> QED
  BY <1>3, <1>4


-----------------------------------------------------------------------------
(* What is done for a field: actions by tag come before those by name and  *)
(* these before those by type.                                             *)
Ranked(s, lo, hi) ==
  /\ \A k \in 1 .. Len(s) : s[k].by \in ActionSteps => lo <= Rank(s[k].by) /\ Rank(s[k].by) <= hi
  /\ \A k, l \in 1 .. Len(s) :
       k < l /\ s[k].by \in ActionSteps /\ s[l].by \in ActionSteps => Rank(s[k].by) <= Rank(s[l].by)

LEMMA RankIs == Rank("tag") = 1 /\ Rank("name") = 2 /\ Rank("type") = 3
BY DEF Rank

LEMMA RankedJoin ==
  ASSUME NEW s \in Seq(Step), NEW u \in Seq(Step), NEW lo \in Nat, NEW mid \in Nat, NEW hi \in Nat,
         lo <= mid, mid <= hi, Ranked(s, lo, mid), Ranked(u, mid, hi)
  PROVE  s \o u \in Seq(Step) /\ Ranked(s \o u, lo, hi)
<1> DEFINE v == s \o u
           m == Len(s)
           n == Len(u)
<1>1. /\ v \in Seq(Step) /\ Len(v) = m + n
      /\ \A i \in 1 .. m + n : v[i] = IF i <= m THEN s[i] ELSE u[i - m]
  BY ConcatProperties
<1>2. m \in Nat /\ n \in Nat
  BY LenProperties
<1>3. \A k \in 1 .. m : s[k].by \in ActionSteps => lo <= Rank(s[k].by) /\ Rank(s[k].by) <= mid
  BY DEF Ranked
<1>4. \A k \in 1 .. n : u[k].by \in ActionSteps => mid <= Rank(u[k].by) /\ Rank(u[k].by) <= hi
  BY DEF Ranked
<1>5. \A x \in ActionSteps : Rank(x) \in Nat
  BY RankIs DEF ActionSteps
<1> HIDE DEF v, m, n
<1>6. \A k \in 1 .. m + n : k <= m => k \in 1 .. m
  BY <1>2
<1>7. \A k \in 1 .. m + n : ~(k <= m) => k - m \in 1 .. n
  BY <1>2
<1>8. ASSUME NEW k \in 1 .. Len(v), v[k].by \in ActionSteps
      PROVE  lo <= Rank(v[k].by) /\ Rank(v[k].by) <= hi
  <2>1. CASE k <= m
    <3>1. v[k] = s[k] /\ k \in 1 .. m
      BY <2>1, <1>1, <1>6
    <3>2. lo <= Rank(v[k].by) /\ Rank(v[k].by) <= mid /\ Rank(v[k].by) \in Nat
      BY <3>1, <1>3, <1>5, <1>8
    <3> QED
      BY <3>2
  <2>2. CASE ~(k <= m)
    <3>1. v[k] = u[k - m] /\ k - m \in 1 .. n
      BY <2>2, <1>1, <1>7
    <3>2. mid <= Rank(v[k].by) /\ Rank(v[k].by) <= hi /\ Rank(v[k].by) \in Nat
      BY <3>1, <1>4, <1>5, <1>8
    <3> QED
      BY <3>2
  <2> QED
    BY <2>1, <2>2
<1>9. ASSUME NEW k \in 1 .. Len(v), NEW l \in 1 .. Len(v), k < l, v[k].by \in ActionSteps, v[l].by \in ActionSteps
      PROVE  Rank(v[k].by) <= Rank(v[l].by)
  <2>1. CASE l <= m
    <3>1. k <= m /\ k \in 1 .. m /\ l \in 1 .. m
      BY <2>1, <1>1, <1>2, <1>9
    <3>2. v[k] = s[k] /\ v[l] = s[l]
      BY <2>1, <3>1, <1>1
    <3> QED
      BY <3>1, <3>2, <1>9 DEF Ranked, m
  <2>2. CASE ~(k <= m)
    <3>1. ~(l <= m) /\ k - m \in 1 .. n /\ l - m \in 1 .. n /\ k - m < l - m
      BY <2>2, <1>1, <1>2, <1>9
    <3>2. v[k] = u[k - m] /\ v[l] = u[l - m]
      BY <2>2, <3>1, <1>1
    <3> QED
      BY <3>1, <3>2, <1>9 DEF Ranked, n
  <2>3. CASE k <= m /\ ~(l <= m)
    <3>1. v[k] = s[k] /\ k \in 1 .. m /\ v[l] = u[l - m] /\ l - m \in 1 .. n
      BY <2>3, <1>1, <1>6, <1>7
    <3>2. Rank(v[k].by) <= mid /\ mid <= Rank(v[l].by) /\ Rank(v[k].by) \in Nat /\ Rank(v[l].by) \in Nat
      BY <3>1, <1>3, <1>4, <1>5, <1>9
    <3> QED
      BY <3>2
  <2> QED
    BY <2>1, <2>2, <2>3
<1>10. Ranked(v, lo, hi)
  BY <1>8, <1>9 DEF Ranked
<1> QED
  BY <1>1, <1>10 DEF v

LEMMA RankedFrom ==
  ASSUME NEW s \in Seq(Step), NEW lo \in Nat, NEW l \in Nat, NEW hi \in Nat, l <= lo, Ranked(s, lo, hi)
  PROVE  Ranked(s, l, hi)
<1>1. \A x \in ActionSteps : Rank(x) \in Nat
  BY RankIs DEF ActionSteps
<1>2. \A k \in 1 .. Len(s) : s[k].by \in ActionSteps => l <= Rank(s[k].by)
  <2> SUFFICES ASSUME NEW k \in 1 .. Len(s), s[k].by \in ActionSteps PROVE l <= Rank(s[k].by)
    OBVIOUS
  <2>1. lo <= Rank(s[k].by) /\ Rank(s[k].by) \in Nat
    BY <1>1 DEF Ranked
  <2> QED
    BY <2>1
<1> QED
  BY <1>2 DEF Ranked

LEMMA StepsAre ==
  ASSUME b \in Builders, NEW p \in Dom
  PROVE  /\ StepsOf(FieldAt(p)) \in Seq(Step)
         /\ Ranked(StepsOf(FieldAt(p)), 1, 3)
<1> DEFINE f == FieldAt(p)
           Of(t) == {k \in DOMAIN b.byType : b.byType[k].params[1] = t}
           First(t) == [j \in 1 .. Cardinality(Of(t)) |->
                          [by |-> "type", word |-> "", action |-> b.byType[InOrder(Of(t))[j]]]]
           W == [k \in DOMAIN f.words |-> WordStep(b, f.words[k])]
           N == IF f.name \in DOMAIN b.byName
                THEN <<[by |-> "name", word |-> "", action |-> b.byName[f.name]]>> ELSE <<>>
           P == IF b.pointer THEN First(PointerTo[f.type]) ELSE <<>>
<1>1. f \in Fields /\ f.words \in Seq(STRING)
  BY FieldsAre DEF Fields
<1>2. /\ b.byType \in Seq(Actions)
      /\ \A w \in DOMAIN b.byTag : b.byTag[w] \in Actions
      /\ \A w \in DOMAIN b.byName : b.byName[w] \in Actions
  BY FillerAssumption
<1>3. W \in Seq(Step) /\ Ranked(W, 1, 1)
  <2>1. Len(f.words) \in Nat /\ DOMAIN f.words = 1 .. Len(f.words) /\ \A k \in 1 .. Len(f.words) : f.words[k] \in STRING
    BY <1>1, LenProperties
  <2>2. ASSUME NEW w \in STRING PROVE WordStep(b, w) \in Step /\ WordStep(b, w).by \in {"tag", "word", "unknown"}
    <3>1. CASE w \in DOMAIN b.byTag
      <4>1. WordStep(b, w) = [by |-> "tag", word |-> w, action |-> b.byTag[w]]
        BY <3>1 DEF WordStep
      <4>2. "tag" \in ActionSteps /\ w \in WordOrNone /\ b.byTag[w] \in Actions
        BY <3>1, <1>2 DEF ActionSteps, WordOrNone
      <4>3. WordStep(b, w) \in [by : ActionSteps, word : WordOrNone, action : Actions] /\ WordStep(b, w).by = "tag"
        BY <4>1, <4>2
      <4> QED
        BY <4>3, Zenon DEF Step
    <3>2. CASE w \notin DOMAIN b.byTag
      <4>1. WordStep(b, w) = [by |-> IF w \in Reserved \ {"field"} THEN "word" ELSE "unknown", word |-> w]
        BY <3>2 DEF WordStep
      <4>2. \/ WordStep(b, w) \in [by : {"word"}, word : Reserved \ {"field"}]
            \/ WordStep(b, w) \in [by : {"unknown"}, word : STRING]
        BY <4>1
      <4>3. WordStep(b, w) \in Step
        BY <4>2, Zenon DEF Step
      <4> QED
        BY <4>2, <4>3
    <3> QED
      BY <3>1, <3>2
  <2>3. W \in [1 .. Len(f.words) -> Step]
    BY <2>1, <2>2
  <2>4. W \in Seq(Step) /\ Len(W) = Len(f.words)
    BY <2>1, <2>3, LenProperties
  <2>5. \A k \in 1 .. Len(f.words) : W[k].by \in {"tag", "word", "unknown"}
    BY <2>1, <2>2
  <2>6. \A k \in 1 .. Len(W) : W[k].by \in ActionSteps => W[k].by = "tag"
    BY <2>4, <2>5 DEF ActionSteps
  <2> HIDE DEF W
  <2> QED
    BY <2>4, <2>6, RankIs DEF Ranked
<1>4. N \in Seq(Step) /\ Ranked(N, 2, 2)
  <2>1. CASE f.name \in DOMAIN b.byName
    <3> DEFINE x == [by |-> "name", word |-> "", action |-> b.byName[f.name]]
    <3>4. N = <<x>> /\ x.by = "name"
      BY <2>1
    <3>5. b.byName[f.name] \in Actions /\ "name" \in ActionSteps /\ "" \in WordOrNone
      BY <2>1, <1>2 DEF ActionSteps, WordOrNone
    <3>6. x \in [by : ActionSteps, word : WordOrNone, action : Actions]
      BY <3>5
    <3>1. N = <<x>> /\ x \in Step /\ x.by = "name"
      BY <3>4, <3>6 DEF Step
    <3> HIDE DEF x, N
    <3>2. N \in Seq(Step) /\ Len(N) = 1 /\ N[1] = x
      BY <3>1
    <3>3. \A k \in 1 .. Len(N) : N[k].by = "name"
      BY <3>1, <3>2
    <3> QED
      BY <3>2, <3>3, RankIs DEF Ranked
  <2>2. CASE f.name \notin DOMAIN b.byName
    <3>1. N = <<>>
      BY <2>2
    <3> HIDE DEF N
    <3> QED
      BY <3>1 DEF Ranked
  <2> QED
    BY <2>1, <2>2
<1>5. ASSUME NEW t PROVE First(t) \in Seq(Step) /\ Ranked(First(t), 3, 3)
  <2>1. Len(b.byType) \in Nat /\ DOMAIN b.byType = 1 .. Len(b.byType)
        /\ \A k \in 1 .. Len(b.byType) : b.byType[k] \in Actions
    BY <1>2, LenProperties
  <2> DEFINE K == Of(t)
             c == Cardinality(K)
  <2>2. K \in SUBSET (1 .. Len(b.byType))
    BY <2>1
  <2>3. c \in Nat /\ InOrder(K) \in [1 .. c -> K]
    BY <2>1, <2>2, Enumeration
  <2>4. First(t) = [j \in 1 .. c |-> [by |-> "type", word |-> "", action |-> b.byType[InOrder(K)[j]]]]
    OBVIOUS
  <2> HIDE DEF K, c
  <2>5. \A j \in 1 .. c : b.byType[InOrder(K)[j]] \in Actions
    BY <2>1, <2>2, <2>3
  <2>6. First(t) \in [1 .. c -> Step] /\ \A j \in 1 .. c : First(t)[j].by = "type"
    <3> DEFINE X(j) == [by |-> "type", word |-> "", action |-> b.byType[InOrder(K)[j]]]
    <3>1. "type" \in ActionSteps /\ "" \in WordOrNone
      BY DEF ActionSteps, WordOrNone
    <3>2. \A j \in 1 .. c : X(j) \in [by : ActionSteps, word : WordOrNone, action : Actions]
      BY <3>1, <2>5
    <3>3. \A j : X(j).by = "type"
      OBVIOUS
    <3>4. First(t) = [j \in 1 .. c |-> X(j)]
      BY <2>4
    <3>5. \A j \in 1 .. c : X(j) \in Step
      BY <3>2 DEF Step
    <3> HIDE DEF X, First
    <3> QED
      BY <3>3, <3>4, <3>5
  <2> HIDE DEF First
  <2>7. First(t) \in Seq(Step) /\ Len(First(t)) = c
    BY <2>3, <2>6, LenProperties
  <2> QED
    BY <2>6, <2>7, RankIs DEF Ranked
<1>6. P \in Seq(Step) /\ Ranked(P, 3, 3)
  <2>1. CASE b.pointer
    <3>1. P = First(PointerTo[f.type])
      BY <2>1
    <3> HIDE DEF P, First
    <3> QED
      BY <3>1, <1>5
  <2>2. CASE ~b.pointer
    <3>1. P = <<>>
      BY <2>2
    <3> HIDE DEF P
    <3> QED
      BY <3>1 DEF Ranked
  <2> QED
    BY <2>1, <2>2
<1>7. First(f.type) \in Seq(Step) /\ Ranked(First(f.type), 3, 3)
  BY <1>5
<1> DEFINE T == First(f.type)
<1>8. StepsOf(f) = W \o N \o P \o T
  BY DEF StepsOf, StepsIn
<1>9. T \in Seq(Step) /\ Ranked(T, 3, 3)
  BY <1>7
<1> HIDE DEF W, N, P, T
<1>10. W \o N \in Seq(Step) /\ Ranked(W \o N, 1, 2)
  <2>1. Ranked(N, 1, 2)
    BY <1>4, RankedFrom
  <2> QED
    BY <2>1, <1>3, <1>4, RankedJoin
<1>11. W \o N \o P \in Seq(Step) /\ Ranked(W \o N \o P, 1, 3)
  <2> DEFINE X == W \o N
  <2>1. Ranked(P, 2, 3)
    BY <1>6, RankedFrom
  <2>2. X \in Seq(Step) /\ Ranked(X, 1, 2)
    BY <1>10
  <2> HIDE DEF X
  <2>3. X \o P \in Seq(Step) /\ Ranked(X \o P, 1, 3)
    BY <2>1, <2>2, <1>6, RankedJoin
  <2> QED
    BY <2>3 DEF X
<1>12. W \o N \o P \o T \in Seq(Step) /\ Ranked(W \o N \o P \o T, 1, 3)
  <2> DEFINE X == W \o N \o P
  <2>1. X \in Seq(Step) /\ Ranked(X, 1, 3)
    BY <1>11
  <2> HIDE DEF X
  <2>2. X \o T \in Seq(Step) /\ Ranked(X \o T, 1, 3)
    BY <2>1, <1>9, RankedJoin
  <2> QED
    BY <2>2 DEF X
<1> HIDE DEF f
<1>13. StepsOf(f) \in Seq(Step) /\ Ranked(StepsOf(f), 1, 3)
  BY <1>8, <1>12
<1> QED
  BY <1>13 DEF f


-----------------------------------------------------------------------------
(* What the properties are proved under: builders for which the code does  *)
(* as its documentation says.                                              *)
AsDocumented == \A m \in Builders : SkipLast(m) /\ NofillStands(m)

(* What is done with the fields depends only on b.                         *)
StepsAt(p) == StepsOf(FieldAt(p))
Entry(p, k) == [kind |-> "act", path |-> p, by |-> StepsAt(p)[k].by, id |-> StepsAt(p)[k].action.id,
                pointer |-> Pointed(p, k)]
Filled(p) == Reached(p) /\ Fills(p) /\ ~Opened(p)

(* What was said on filling, and on a struct as a whole, in the first n    *)
(* steps.                                                                  *)
Verdicts(p) ==
  {k \in DOMAIN StepsAt(p) : IsWord(StepsAt(p)[k], {"fill", "nofill", "-", "skip"})}
    \cup {k \in Applied(p) : /\ StepsAt(p)[k].action.fillSet \/ Pointed(p, k)
                             /\ \A l \in 1 .. k : ~IsWord(StepsAt(p)[l], {"fill"})}
Verdict(p, k) == IF k \in Applied(p) THEN StepsAt(p)[k].action.fillSet /\ StepsAt(p)[k].action.fill
                 ELSE IsWord(StepsAt(p)[k], {"fill"})
FillsTo(p, n) == Verdicts(p) \cap (1 .. n) # {} => Verdict(p, Max(Verdicts(p) \cap (1 .. n)))
Wholes(p) == {k \in DOMAIN StepsAt(p) : IsWord(StepsAt(p)[k], {"whole", "blob", "fields"})}
WholeTo(p, n) == Wholes(p) \cap (1 .. n) # {} /\ StepsAt(p)[Max(Wholes(p) \cap (1 .. n))].word # "fields"

-----------------------------------------------------------------------------
(* The walk: the fields before at have been looked at, and what is under   *)
(* those, when at is left; and the first Had steps for at.                 *)
Walking == {"field", "steps", "next"}
Later == {"chain", "run", "done"}
Past(p) ==
  \/ phase \in Later
  \/ phase \in Walking /\ (Left(p, at) \/ (Pre(p, at) /\ p # at) \/ (phase = "next" /\ Pre(at, p)))
Had == Len(StepsAt(at)) - Len(pending)
Seen(p, k) == Past(p) \/ (phase = "steps" /\ p = at /\ k <= Had)

Acts == [kind : {"act"}, path : Seq(Nat \ {0}), by : ActionSteps, id : STRING, pointer : BOOLEAN]
Dispositions == [type : Types \cup {"model", "ignore"}, mapping : Seq(Nat \ {0})]
Typed ==
  /\ b \in Builders /\ phase \in {"start", "error"} \cup Walking \cup Later
  /\ flags \in [skip : BOOLEAN, noSkip : BOOLEAN, whole : BOOLEAN, hardSkip : BOOLEAN]
  /\ inputs \in Seq(Dispositions) /\ reflectives \in Seq(Acts)

(* at is reached. *)
Walk ==
  /\ phase \in Walking => at \in Dom /\ \A q \in Above(at) \ {at} : Opened(q)
  /\ phase = "steps" => FieldAt(at).exported

(* The flags are what the steps that were done say. *)
Told ==
  phase = "steps" =>
    /\ Had \in 0 .. Len(StepsAt(at)) /\ pending = SubSeq(StepsAt(at), Had + 1, Len(StepsAt(at)))
    /\ flags.hardSkip <=> \E l \in 1 .. Had : IsWord(StepsAt(at)[l], {"-", "skip"})
    /\ flags.noSkip <=> \E l \in 1 .. Had : IsWord(StepsAt(at)[l], {"fill"})
    /\ flags.skip <=> ~FillsTo(at, Had)
    /\ flags.whole <=> WholeTo(at, Had)

(* The actions are those that apply, of the fields that are reached, in    *)
(* their order, and none of a field after one of a field under it.         *)
Numbered(step) ==
  /\ \A i \in DOMAIN reflectives : \E p \in Dom :
       /\ p = reflectives[i].path /\ Reached(p) /\ step[i] \in Applied(p) /\ Seen(p, step[i])
       /\ reflectives[i] = Entry(p, step[i])
  /\ \A i, j \in DOMAIN reflectives :
       i < j => LET p == reflectives[i].path
                    q == reflectives[j].path
                IN IF p = q THEN step[i] < step[j] ELSE ~Pre(q, p)
  /\ \A p \in Dom : Reached(p) =>
       \A k \in Applied(p) : Seen(p, k) => \E i \in DOMAIN reflectives : reflectives[i].path = p /\ step[i] = k
Acted == phase # "error" => \E step \in [DOMAIN reflectives -> Nat] : Numbered(step)

(* The inputs are for the fields that are to be filled. *)
Taking ==
  phase # "error" =>
    /\ \A i \in DOMAIN inputs :
         inputs[i].mapping # <<>> =>
           \E p \in Dom : p = inputs[i].mapping /\ Filled(p) /\ Past(p) /\ inputs[i].type = FieldAt(p).type
    /\ \A p \in Dom : Filled(p) /\ Past(p) => \E i \in DOMAIN inputs : inputs[i].mapping = p

(* The struct after the first n members of the chain. *)
Kept(leaf) == [from |-> IF b.create THEN "zero" ELSE "old"]
Loaded(leaf) == {k \in DOMAIN inputs : inputs[k].mapping # <<>> /\ leaf \in Under(inputs[k].mapping)}
Changing(n, leaf) == {k \in 1 .. n : chain[k].kind = "act" /\ chain[k].pointer /\ leaf \in Under(chain[k].path)}
HeldAfter(n, leaf) ==
  IF Changing(n, leaf) # {} THEN [from |-> chain[Max(Changing(n, leaf))].id]
  ELSE IF Loaded(leaf) # {} /\ \E k \in 1 .. n : chain[k].kind = "fill"
  THEN [from |-> "chain", type |-> inputs[Max(Loaded(leaf))].type]
  ELSE Kept(leaf)
Ignoring == IF AddIgnore THEN <<[kind |-> "ignore"]>> ELSE <<>>
Chained ==
  /\ phase \notin {"run", "done", "error"} => ran = <<>> /\ held = [leaf \in Leaves |-> Kept(leaf)]
  /\ phase \in {"run", "done"} =>
       /\ chain = Ignoring \o Assembled
       /\ Len(ran) \in 0 .. Len(chain) /\ ran = SubSeq(chain, 1, Len(ran))
       /\ held = [leaf \in Leaves |-> HeldAfter(Len(ran), leaf)]
  /\ phase = "done" => ran = chain

IInv == Typed /\ Walk /\ Told /\ Acted /\ Taking /\ Chained


-----------------------------------------------------------------------------
LEMMA BSame ==
  ASSUME b' = b
  PROVE  /\ Dom' = Dom /\ Leaves' = Leaves
         /\ \A p : /\ FieldAt(p)' = FieldAt(p) /\ StepsAt(p)' = StepsAt(p) /\ Applied(p)' = Applied(p)
                   /\ Opened(p)' = Opened(p) /\ Reached(p)' = Reached(p) /\ Fills(p)' = Fills(p)
                   /\ Filled(p)' = Filled(p) /\ Under(p)' = Under(p) /\ Kept(p)' = Kept(p)
         /\ \A p, n : /\ FillsTo(p, n)' = FillsTo(p, n) /\ WholeTo(p, n)' = WholeTo(p, n)
                      /\ Pointed(p, n)' = Pointed(p, n) /\ Entry(p, n)' = Entry(p, n)
<1>1. Dom' = Dom /\ \A p : FieldAt(p)' = FieldAt(p) /\ Kept(p)' = Kept(p)
  BY DEF Dom, FieldAt, Kept
<1>2. \A f : StepsOf(f)' = StepsOf(f)
  BY DEF StepsOf, StepsIn, WordStep
<1>3. \A p : StepsAt(p)' = StepsAt(p) /\ StepsOf(FieldAt(p))' = StepsOf(FieldAt(p))
  BY <1>1, <1>2 DEF StepsAt
<1>4. \A p : Applied(p)' = Applied(p)
  BY <1>3 DEF Applied
<1>5. \A p, n : Pointed(p, n)' = Pointed(p, n)
  BY <1>1, <1>3 DEF Pointed
<1>6. \A p : Fills(p)' = Fills(p)
  <2> SUFFICES ASSUME NEW p PROVE Fills(p)' = Fills(p)
    OBVIOUS
  <2> DEFINE s == StepsOf(FieldAt(p))
             words == {k \in DOMAIN s : IsWord(s[k], FillWords)}
             defaults == {k \in Applied(p) : s[k].action.fillSet \/ Pointed(p, k)}
             F == IF words # {} THEN IsWord(s[Max(words)], {"fill"})
                  ELSE defaults # {} => s[Max(defaults)].action.fillSet /\ s[Max(defaults)].action.fill
  <2>1. s' = s
    BY <1>3
  <2>2. Fills(p) = F /\ Fills(p)' = F'
    BY DEF Fills
  <2>3. words' = words
    BY <2>1
  <2>4. defaults' = defaults
    BY <2>1, <1>4, <1>5
  <2> HIDE DEF s, words, defaults
  <2>5. F' = F
    BY <2>1, <2>3, <2>4
  <2> HIDE DEF F
  <2> QED
    BY <2>2, <2>5
<1>7. \A p : Whole(p)' = Whole(p)
  BY <1>3 DEF Whole
<1>8. \A p : Opened(p)' = Opened(p)
  BY <1>1, <1>6, <1>7 DEF Opened
<1>9. \A p : Reached(p)' = Reached(p)
  BY <1>1, <1>8 DEF Reached
<1>10. \A p : Verdicts(p)' = Verdicts(p)
  BY <1>3, <1>4, <1>5 DEF Verdicts
<1>11. \A p, n : Verdict(p, n)' = Verdict(p, n)
  BY <1>3, <1>4 DEF Verdict
<1>12. \A p, n : FillsTo(p, n)' = FillsTo(p, n)
  BY <1>10, <1>11 DEF FillsTo
<1>13. \A p : Wholes(p)' = Wholes(p)
  BY <1>3 DEF Wholes
<1>14. \A p, n : WholeTo(p, n)' = WholeTo(p, n)
  BY <1>3, <1>13 DEF WholeTo
<1>15. \A p, n : Entry(p, n)' = Entry(p, n)
  BY <1>3, <1>5 DEF Entry
<1>16. \A p : Filled(p)' = Filled(p)
  BY <1>6, <1>8, <1>9 DEF Filled
<1>17. Leaves' = Leaves
  BY <1>1 DEF Leaves, Dom
<1>18. \A p : Under(p)' = Under(p)
  BY <1>17 DEF Under
<1> QED
  BY <1>1, <1>3, <1>4, <1>5, <1>6, <1>8, <1>9, <1>12, <1>14, <1>15, <1>16, <1>17, <1>18

(* What the steps of a field say, up to the last, and step by step.        *)
LEMMA ToldInAll ==
  ASSUME b \in Builders, NEW p \in Dom
  PROVE  /\ StepsAt(p) \in Seq(Step) /\ Len(StepsAt(p)) \in Nat
         /\ DOMAIN StepsAt(p) = 1 .. Len(StepsAt(p))
         /\ Applied(p) \subseteq 1 .. Len(StepsAt(p)) /\ Verdicts(p) \subseteq 1 .. Len(StepsAt(p))
         /\ Wholes(p) \subseteq 1 .. Len(StepsAt(p))
         /\ FillsTo(p, 0) /\ ~WholeTo(p, 0)
         /\ Whole(p) <=> WholeTo(p, Len(StepsAt(p)))
<1> DEFINE s == StepsAt(p)
           n == Len(s)
<1>1. s \in Seq(Step) /\ n \in Nat /\ DOMAIN s = 1 .. n
  BY StepsAre, LenProperties DEF StepsAt
<1>2. Applied(p) \subseteq 1 .. n
  BY <1>1 DEF Applied, StepsAt
<1>3. Verdicts(p) \subseteq 1 .. n /\ Wholes(p) \subseteq 1 .. n
  BY <1>1, <1>2 DEF Verdicts, Wholes
<1>4. Verdicts(p) \cap (1 .. 0) = {} /\ Wholes(p) \cap (1 .. 0) = {}
  OBVIOUS
<1>5. Wholes(p) \cap (1 .. n) = Wholes(p)
  BY <1>3
<1>6. Whole(p) <=> (Wholes(p) # {} /\ s[Max(Wholes(p))].word # "fields")
  BY DEF Whole, Wholes, StepsAt
<1>7. FillsTo(p, 0) /\ ~WholeTo(p, 0)
  BY <1>4 DEF FillsTo, WholeTo
<1>8. Whole(p) <=> WholeTo(p, n)
  BY <1>5, <1>6 DEF WholeTo
<1> QED
  BY <1>1, <1>2, <1>3, <1>7, <1>8

(* As the walk does it, an action applies if no "-" or "skip" was met.     *)
LEMMA AppliedInTurn ==
  ASSUME AsDocumented, b \in Builders, NEW p \in Dom
  PROVE  Applied(p) = {k \in DOMAIN StepsAt(p) : /\ StepsAt(p)[k].by \in ActionSteps
                                                  /\ \A l \in 1 .. k : ~IsWord(StepsAt(p)[l], {"-", "skip"})}
<1> DEFINE s == StepsAt(p)
           n == Len(s)
<1>1. n \in Nat /\ DOMAIN s = 1 .. n
  BY ToldInAll
<1>2. s = StepsIn(b, b.fields[p])
  BY DEF StepsAt, StepsOf, FieldAt
<1>3. \A k, l \in DOMAIN s : k < l /\ IsWord(s[k], {"-", "skip"}) => s[l].by # "tag"
  <2>1. p \in DOMAIN b.fields /\ SkipLast(b)
    BY DEF Dom, AsDocumented
  <2> HIDE DEF s
  <2> QED
    BY <1>2, <2>1 DEF SkipLast
<1>4. Applied(p) = {k \in DOMAIN s : \/ s[k].by = "tag"
                                     \/ /\ s[k].by \in {"name", "type"}
                                        /\ \A l \in 1 .. k : ~IsWord(s[l], {"-", "skip"})}
  BY DEF Applied, StepsAt
<1> HIDE DEF s, n
<1>5. ASSUME NEW k \in 1 .. n, s[k].by = "tag", NEW l \in 1 .. k PROVE ~IsWord(s[l], {"-", "skip"})
  <2>1. CASE l = k
    BY <1>5, <2>1 DEF IsWord
  <2>2. CASE l # k
    <3>1. l \in 1 .. n /\ l < k
      BY <1>1, <2>2
    <3> QED
      BY <1>1, <1>3, <1>5, <3>1
  <2> QED
    BY <2>1, <2>2
<1> QED
  BY <1>1, <1>4, <1>5 DEF ActionSteps, s

(* The last of what is said on filling is what the documentation lets      *)
(* decide: a word if there is one, as no action undoes it.                 *)
LEMMA FillsInAll ==
  ASSUME AsDocumented, b \in Builders, NEW p \in Dom
  PROVE  Fills(p) <=> FillsTo(p, Len(StepsAt(p)))
<1> DEFINE s == StepsAt(p)
           n == Len(s)
           V == Verdicts(p)
           words == {k \in DOMAIN s : IsWord(s[k], FillWords)}
           defaults == {k \in Applied(p) : s[k].action.fillSet \/ Pointed(p, k)}
<1>1. n \in Nat /\ DOMAIN s = 1 .. n /\ V \subseteq 1 .. n /\ Applied(p) \subseteq 1 .. n
  BY ToldInAll
<1>2. FillsTo(p, n) <=> (V # {} => Verdict(p, Max(V)))
  <2>1. V \cap (1 .. n) = V
    BY <1>1
  <2> QED
    BY <2>1 DEF FillsTo
<1>3. Fills(p) <=> IF words # {} THEN IsWord(s[Max(words)], {"fill"})
                   ELSE defaults # {} => s[Max(defaults)].action.fillSet /\ s[Max(defaults)].action.fill
  BY DEF Fills, StepsAt
<1>4. V = words \cup {k \in defaults : \A l \in 1 .. k : ~IsWord(s[l], {"fill"})}
  BY DEF Verdicts, FillWords
<1>5. /\ words \subseteq 1 .. n /\ \A k \in 1 .. n : k \in words <=> IsWord(s[k], FillWords)
      /\ defaults \subseteq Applied(p)
  BY <1>1
<1>6. \A k \in Applied(p) : k \in 1 .. n /\ s[k].by \in ActionSteps /\ \A l \in 1 .. k : ~IsWord(s[l], {"-", "skip"})
  BY <1>1, AppliedInTurn
<1>7. \A k \in 1 .. n : Verdict(p, k) <=> IF k \in Applied(p) THEN s[k].action.fillSet /\ s[k].action.fill
                                          ELSE IsWord(s[k], {"fill"})
  BY DEF Verdict
<1>8. \A k, l \in 1 .. n :
        k < l /\ IsWord(s[k], {"nofill"}) /\ s[l].by \in ActionSteps /\ s[l].action.fillSet /\ s[l].action.fill
          => \E j \in 1 .. n : IsWord(s[j], FillWords \ {"nofill"})
  <2>1. p \in DOMAIN b.fields /\ NofillStands(b) /\ s = StepsIn(b, b.fields[p])
    BY DEF Dom, AsDocumented, StepsAt, StepsOf, FieldAt
  <2> HIDE DEF s, n
  <2> QED
    BY <1>1, <2>1 DEF NofillStands
<1> SUFFICES Fills(p) <=> FillsTo(p, n)
  OBVIOUS
<1> HIDE DEF s, n, V, words, defaults
<1>9. \A k \in words : k \notin Applied(p)
  BY <1>5, <1>6 DEF IsWord, ActionSteps
<1>10. CASE words = {}
  <2>1. \A k \in 1 .. n : ~IsWord(s[k], {"fill"})
    BY <1>5, <1>10 DEF IsWord, FillWords
  <2>2. \A k \in defaults : \A l \in 1 .. k : l \in 1 .. n
    BY <1>1, <1>5, <1>6
  <2>3. V = defaults
    BY <1>4, <1>10, <2>1, <2>2
  <2>4. V # {} => Max(V) \in V
    BY <1>1, MaxOfUpTo
  <2> QED
    BY <1>1, <1>2, <1>3, <1>5, <1>7, <1>10, <2>3, <2>4
<1>11. CASE words # {}
  <2>1. PICK w \in words : w = Max(words) /\ \A k \in words : k <= w
    BY <1>1, <1>5, <1>11, MaxOfUpTo
  <2>2. PICK m \in V : m = Max(V) /\ \A k \in V : k <= m
    <3>1. V # {}
      BY <1>4, <1>11
    <3> QED
      BY <1>1, <3>1, MaxOfUpTo
  <2>3. w \in 1 .. n /\ m \in 1 .. n /\ w <= m
    BY <1>1, <1>4, <1>5, <2>2
  <2>4. Verdict(p, m) <=> IsWord(s[w], {"fill"})
    <3>1. CASE m \in words
      <4>1. m = w
        BY <2>1, <2>3, <3>1
      <4> QED
        BY <4>1, <1>7, <1>9, <2>3, <3>1
    <3>2. CASE m \notin words
      <4>1. m \in Applied(p) /\ \A l \in 1 .. m : ~IsWord(s[l], {"fill"})
        BY <1>4, <1>5, <3>2
      <4>2. w # m /\ w < m
        BY <2>1, <2>3, <3>2
      <4>3. \A j \in words : j \in 1 .. m
        BY <1>1, <1>5, <2>1, <2>3
      <4>4. \A j \in 1 .. n : ~IsWord(s[j], FillWords \ {"nofill"})
        <5> SUFFICES ASSUME NEW j \in 1 .. n, IsWord(s[j], FillWords \ {"nofill"}) PROVE FALSE
          OBVIOUS
        <5>1. j \in words
          BY <1>5 DEF IsWord
        <5>2. j \in 1 .. m
          BY <4>3, <5>1
        <5>3. ~IsWord(s[j], {"fill"}) /\ ~IsWord(s[j], {"-", "skip"})
          BY <1>6, <4>1, <5>2
        <5> QED
          BY <5>3 DEF IsWord, FillWords
      <4>5. IsWord(s[w], {"nofill"}) /\ ~IsWord(s[w], {"fill"})
        BY <1>5, <2>3, <4>4 DEF IsWord, FillWords
      <4>6. ~(s[m].action.fillSet /\ s[m].action.fill)
        BY <1>6, <1>8, <2>3, <4>1, <4>2, <4>4, <4>5
      <4> QED
        BY <1>7, <2>3, <4>1, <4>5, <4>6
    <3> QED
      BY <3>1, <3>2
  <2>5. (Fills(p) <=> IsWord(s[w], {"fill"})) /\ (FillsTo(p, n) <=> Verdict(p, m))
    BY <1>2, <1>3, <1>11, <2>1, <2>2
  <2> QED
    BY <2>4, <2>5
<1> QED
  BY <1>10, <1>11

LEMMA ToldNext ==
  ASSUME b \in Builders, NEW p \in Dom, NEW n \in Nat, n < Len(StepsAt(p))
  PROVE  /\ FillsTo(p, n + 1) <=> IF n + 1 \in Verdicts(p) THEN Verdict(p, n + 1) ELSE FillsTo(p, n)
         /\ WholeTo(p, n + 1) <=> IF n + 1 \in Wholes(p) THEN StepsAt(p)[n + 1].word # "fields" ELSE WholeTo(p, n)
<1> DEFINE N == n + 1
           V == Verdicts(p)
           W == Wholes(p)
<1>1. ASSUME NEW X, N \in X PROVE Max(X \cap (1 .. N)) = N /\ X \cap (1 .. N) # {}
  <2>1. X \cap (1 .. N) \in SUBSET (1 .. N) /\ N \in X \cap (1 .. N) /\ \A y \in X \cap (1 .. N) : y <= N
    BY <1>1
  <2>2. N \in Nat
    OBVIOUS
  <2> HIDE DEF N
  <2> QED
    BY <2>1, <2>2, MaxIs
<1>2. ASSUME NEW X, N \notin X PROVE X \cap (1 .. N) = X \cap (1 .. n)
  BY <1>2
<1> HIDE DEF N
<1>3. FillsTo(p, N) <=> IF N \in V THEN Verdict(p, N) ELSE FillsTo(p, n)
  BY <1>1, <1>2 DEF FillsTo
<1>4. WholeTo(p, N) <=> IF N \in W THEN StepsAt(p)[N].word # "fields" ELSE WholeTo(p, n)
  BY <1>1, <1>2 DEF WholeTo
<1> QED
  BY <1>3, <1>4 DEF N

(* What is left of the steps. *)
LEMMA Remaining ==
  ASSUME NEW s \in Seq(Step), NEW h \in 0 .. Len(s), NEW u, u = SubSeq(s, h + 1, Len(s))
  PROVE  /\ Len(u) = Len(s) - h
         /\ u = <<>> <=> h = Len(s)
         /\ u # <<>> => /\ h < Len(s) /\ h + 1 \in 1 .. Len(s) /\ Head(u) = s[h + 1]
                        /\ Tail(u) = SubSeq(s, h + 2, Len(s)) /\ Len(Tail(u)) = Len(s) - (h + 1)
<1>1. Len(s) \in Nat /\ h \in Nat /\ h + 1 \in Int /\ Len(s) \in Int /\ \A i \in h + 1 .. Len(s) : s[i] \in Step
  BY LenProperties
<1>2. u \in Seq(Step) /\ Len(u) = IF h + 1 <= Len(s) THEN Len(s) - (h + 1) + 1 ELSE 0
  BY <1>1, SubSeqProperties
<1>3. Len(u) = Len(s) - h
  BY <1>1, <1>2
<1>4. u = <<>> <=> Len(u) = 0
  BY <1>2, EmptySeq
<1>5. u = <<>> <=> h = Len(s)
  BY <1>1, <1>3, <1>4
<1>6. ASSUME u # <<>>
      PROVE  /\ h < Len(s) /\ h + 1 \in 1 .. Len(s) /\ Head(u) = s[h + 1]
             /\ Tail(u) = SubSeq(s, h + 2, Len(s)) /\ Len(Tail(u)) = Len(s) - (h + 1)
  <2>1. h < Len(s) /\ h + 1 \in 1 .. Len(s) /\ Len(s) \in h + 1 .. Len(s)
    BY <1>1, <1>5, <1>6
  <2>2. Head(u) = s[h + 1] /\ Tail(u) = SubSeq(s, (h + 1) + 1, Len(s))
    BY <2>1, HeadTailOfSubSeq
  <2>3. (h + 1) + 1 = h + 2
    BY <1>1
  <2>4. Len(Tail(u)) = Len(u) - 1
    BY <1>2, <1>6, HeadTailProperties
  <2>5. Len(Tail(u)) = Len(s) - (h + 1)
    BY <2>4, <1>1, <1>3
  <2> QED
    BY <2>1, <2>2, <2>3, <2>5
<1> QED
  BY <1>3, <1>5, <1>6


-----------------------------------------------------------------------------
(* The fields that are reached and have been looked at change only when    *)
(* the walk leaves one, which is then one of them.                         *)
Steady ==
  \A p \in Dom : Reached(p) => (Past(p)' <=> Past(p) \/ (p = at /\ phase = "steps" /\ phase' # "steps"))

LEMMA ReachedBelow ==
  ASSUME NEW p \in Path, NEW q \in Path, Reached(p), Pre(q, p), q # p
  PROVE  Opened(q)
BY AboveIs DEF Reached

LEMMA OpenedAbove ==
  ASSUME NEW p \in Path, \A q \in Above(p) \ {p} : Opened(q), NEW q \in Path, Pre(q, p), q # p
  PROVE  Opened(q)
BY AboveIs

(* What is decided about a field after its last step.                      *)
LEMMA AtEnd ==
  ASSUME AsDocumented, Typed, Walk, Told, phase = "steps", pending = <<>>
  PROVE  /\ at \in Dom /\ at \in Path /\ Had = Len(StepsAt(at))
         /\ (flags.skip <=> ~Fills(at)) /\ (flags.whole <=> Whole(at))
         /\ Opened(at) <=> FieldAt(at).struct /\ ~flags.skip /\ ~flags.whole
         /\ Reached(at)
<1>1. at \in Dom /\ FieldAt(at).exported /\ b \in Builders /\ \A q \in Above(at) \ {at} : Opened(q)
  BY DEF Typed, Walk, Walking
<1>2. at \in Path /\ StepsAt(at) \in Seq(Step)
  BY <1>1, FieldsAre, ToldInAll
<1>3. Had \in 0 .. Len(StepsAt(at)) /\ pending = SubSeq(StepsAt(at), Had + 1, Len(StepsAt(at)))
  BY DEF Told
<1>4. Had = Len(StepsAt(at))
  BY <1>2, <1>3, Remaining
<1>5. (flags.skip <=> ~Fills(at)) /\ (flags.whole <=> Whole(at))
  BY <1>1, <1>4, ToldInAll, FillsInAll DEF Told
<1> QED
  BY <1>1, <1>2, <1>4, <1>5 DEF Opened, Reached

LEMMA WalkStart ==
  ASSUME Typed, Start
  PROVE  Walk' /\ Steady
<1>1. /\ phase = "start" /\ at' = <<1>> /\ b' = b
      /\ phase' = IF <<1>> \in Dom THEN "field" ELSE "chain"
  BY DEF Start, Dom
<1>2. <<1>> \in Path /\ Len(<<1>>) = 1 /\ <<1>>[1] = 1
  BY DEF Path
<1> DEFINE r == <<1>>
<1> HIDE DEF r
<1>3. \A p \in Dom : r \in Dom /\ ~Left(p, r) /\ ~(Pre(p, r) /\ p # r)
  <2> SUFFICES ASSUME NEW p \in Dom PROVE r \in Dom /\ ~Left(p, r) /\ ~(Pre(p, r) /\ p # r)
    OBVIOUS
  <2>1. p \in Path /\ Len(p) \in Nat \ {0} /\ \A k \in 1 .. Len(p) : p[k] \in Nat \ {0}
    BY FieldsAre, PathLen DEF Typed
  <2>2. r \in Path /\ Len(r) = 1 /\ r[1] = 1
    BY <1>2 DEF r
  <2>3. ~Left(p, r)
    BY <2>1, <2>2 DEF Left
  <2>4. ASSUME Pre(p, r) PROVE p = r
    <3>1. Len(p) <= Len(r)
      BY <2>4 DEF Pre
    <3>2. Len(p) = Len(r)
      <4>1. Len(p) \in Nat \ {0} /\ Len(r) = 1
        BY <2>1, <2>2
      <4> QED
        BY <3>1, <4>1
    <3> QED
      BY <2>1, <2>2, <2>4, <3>2, PathsEqual
  <2>5. r \in Dom
    <3>1. 1 \in 1 .. Len(p) /\ 1 \in 1 .. p[1] /\ \A j \in 1 .. 1 - 1 : r[j] = p[j]
      BY <2>1
    <3>2. \A q \in Path : Len(q) = 1 /\ (\A j \in 1 .. 1 - 1 : q[j] = p[j]) /\ q[1] = 1 => q \in Dom
      BY <3>1, FieldsAre DEF Typed
    <3> QED
      BY <2>2, <3>1, <3>2
  <2> QED
    BY <2>3, <2>4, <2>5
<1>4. at' = r /\ phase' = (IF r \in Dom THEN "field" ELSE "chain") /\ r \in Path
  BY <1>1, <1>2 DEF r
<1>5. Steady
  BY <1>1, <1>3, <1>4 DEF Steady, Past, Walking, Later
<1>6. ASSUME phase' \in Walking PROVE at' \in Dom' /\ \A q \in (Above(at) \ {at})' : Opened(q)'
  <2>1. r \in Dom
    BY <1>4, <1>6 DEF Walking
  <2>2. \A q \in Above(r) \ {r} : q \in Path /\ Pre(q, r) /\ q # r
    BY <1>4, AboveIs
  <2>3. \A q \in Above(r) \ {r} : q \in Dom
    BY <2>1, <2>2, FieldsAre DEF Typed
  <2>4. Above(r) \ {r} = {}
    BY <2>2, <2>3, <1>3
  <2>5. (Above(at) \ {at})' = Above(r) \ {r}
    BY <1>4 DEF Above
  <2> QED
    BY <2>1, <2>4, <2>5, <1>1, <1>4, BSame
<1> QED
  BY <1>4, <1>5, <1>6 DEF Walk


LEMMA WalkEnter ==
  ASSUME Typed, Walk, EnterField
  PROVE  Walk' /\ Steady
<1>1. /\ phase = "field" /\ at' = at /\ b' = b
      /\ phase' = IF FieldAt(at).exported THEN "steps" ELSE "next"
  BY DEF EnterField
<1>2. at \in Dom /\ at \in Path /\ \A q \in Above(at) \ {at} : Opened(q)
  BY <1>1, FieldsAre DEF Walk, Walking, Typed
<1>3. Walk'
  <2>1. at' \in Dom' /\ (Above(at) \ {at})' = Above(at) \ {at} /\ \A q : Opened(q)' = Opened(q)
    BY <1>1, <1>2, BSame DEF Above
  <2>2. FieldAt(at)' = FieldAt(at)
    BY <1>1 DEF FieldAt
  <2> QED
    BY <1>1, <1>2, <2>1, <2>2 DEF Walk
<1>4. ASSUME NEW p \in Dom, Reached(p), Pre(at, p), phase' = "next" PROVE FALSE
  <2>1. ~FieldAt(at).exported /\ p \in Path
    BY <1>1, <1>4, FieldsAre DEF Typed
  <2>2. p # at
    BY <1>4, <2>1 DEF Reached
  <2>3. Opened(at)
    BY <1>2, <1>4, <2>1, <2>2, ReachedBelow
  <2> QED
    BY <2>1, <2>3 DEF Opened
<1>5. Steady
  BY <1>1, <1>4 DEF Steady, Past, Walking, Later
<1> QED
  BY <1>3, <1>5

LEMMA WalkLeave ==
  ASSUME Typed, Walk, Told, phase = "steps", phase' = "next", at' = at, b' = b, pending = <<>>,
         ~Opened(at) \/ Append(at, 1) \notin Dom
  PROVE  Walk' /\ Steady
<1>1. at \in Dom /\ at \in Path /\ \A q \in Above(at) \ {at} : Opened(q)
  BY FieldsAre DEF Walk, Walking, Typed
<1>2. Walk'
  <2>1. at' \in Dom' /\ (Above(at) \ {at})' = Above(at) \ {at} /\ \A q : Opened(q)' = Opened(q)
    BY <1>1, BSame DEF Above
  <2> QED
    BY <1>1, <2>1 DEF Walk
<1>3. ASSUME NEW p \in Dom, Reached(p), Pre(at, p), p # at PROVE FALSE
  <2>1. p \in Path
    BY FieldsAre DEF Typed
  <2>2. Opened(at)
    BY <1>1, <1>3, <2>1, ReachedBelow
  <2>3. Append(at, 1) \in Dom
    BY <1>1, <1>3, Child DEF Typed
  <2> QED
    BY <2>2, <2>3
<1>4. Pre(at, at)
  BY <1>1, PreOrder
<1>5. Steady
  BY <1>3, <1>4 DEF Steady, Past, Walking, Later
<1> QED
  BY <1>2, <1>5

LEMMA WalkDescend ==
  ASSUME AsDocumented, Typed, Walk, Told, Descend
  PROVE  Walk' /\ Steady
<1>1. /\ phase = "steps" /\ pending = <<>> /\ ~flags.skip /\ FieldAt(at).struct /\ ~flags.whole /\ b' = b
      /\ IF Append(at, 1) \in Dom
         THEN at' = Append(at, 1) /\ phase' = "field" ELSE phase' = "next" /\ at' = at
  BY DEF Descend, Dom
<1>2. at \in Dom /\ at \in Path /\ Opened(at) /\ \A q \in Above(at) \ {at} : Opened(q)
  BY <1>1, AtEnd DEF Walk, Walking
<1>3. CASE Append(at, 1) \notin Dom
  BY <1>1, <1>3, WalkLeave
<1>4. CASE Append(at, 1) \in Dom
  <2> DEFINE c == Append(at, 1)
  <2>1. at' = c /\ phase' = "field" /\ c \in Dom
    BY <1>1, <1>4
  <2>2. /\ c \in Path
        /\ \A p \in Dom : Left(p, c) <=> Left(p, at)
        /\ \A p \in Path : Pre(p, c) /\ p # c <=> Pre(p, at)
    BY <1>2, Child DEF Typed
  <2> HIDE DEF c
  <2>3. \A p \in Dom : p \in Path
    BY FieldsAre DEF Typed
  <2>4. Pre(at, at)
    BY <1>2, PreOrder
  <2>5. Steady
    BY <1>1, <2>1, <2>2, <2>3, <2>4 DEF Steady, Past, Walking, Later
  <2>6. ASSUME NEW q \in Above(c) \ {c} PROVE Opened(q)
    <3>1. q \in Path /\ Pre(q, c) /\ q # c
      BY <2>2, AboveIs
    <3>2. Pre(q, at)
      BY <2>2, <3>1
    <3>3. q # at => Opened(q)
      BY <1>2, <3>1, <3>2, OpenedAbove
    <3> QED
      BY <1>2, <3>3
  <2>7. (Above(at) \ {at})' = Above(c) \ {c} /\ Dom' = Dom /\ \A q : Opened(q)' = Opened(q)
    BY <1>1, <2>1, BSame DEF Above
  <2> QED
    BY <2>1, <2>5, <2>6, <2>7 DEF Walk
<1> QED
  BY <1>3, <1>4

LEMMA WalkMoveOn ==
  ASSUME Typed, Walk, MoveOn
  PROVE  Walk' /\ Steady
<1>1. /\ phase = "next" /\ b' = b
      /\ \/ Sib(at) \in Dom /\ at' = Sib(at) /\ phase' = "field"
         \/ Sib(at) \notin Dom /\ Len(at) > 1 /\ at' = Front(at) /\ phase' = phase
         \/ Sib(at) \notin Dom /\ ~(Len(at) > 1) /\ phase' = "chain" /\ at' = at
  BY DEF MoveOn, Dom, Sib
<1>2. at \in Dom /\ at \in Path /\ Len(at) \in Nat \ {0} /\ \A q \in Above(at) \ {at} : Opened(q)
  BY <1>1, FieldsAre, PathLen DEF Walk, Walking, Typed
<1>3. \A p \in Dom : p \in Path
  BY FieldsAre DEF Typed
<1>4. CASE Sib(at) \in Dom
  <2> DEFINE c == Sib(at)
  <2>1. at' = c /\ phase' = "field" /\ c \in Dom
    BY <1>1, <1>4
  <2>2. /\ c \in Path
        /\ \A p \in Path : Left(p, c) <=> Left(p, at) \/ Pre(at, p)
        /\ \A p \in Path : Pre(p, c) /\ p # c <=> Pre(p, at) /\ p # at
    BY <1>2, Sibling
  <2> HIDE DEF c
  <2>3. Steady
    BY <1>1, <1>3, <2>1, <2>2 DEF Steady, Past, Walking, Later
  <2>4. ASSUME NEW q \in Above(c) \ {c} PROVE Opened(q)
    <3>1. q \in Path /\ Pre(q, c) /\ q # c
      BY <2>2, AboveIs
    <3> QED
      BY <1>2, <2>2, <3>1, OpenedAbove
  <2>5. (Above(at) \ {at})' = Above(c) \ {c} /\ Dom' = Dom /\ \A q : Opened(q)' = Opened(q)
    BY <1>1, <2>1, BSame DEF Above
  <2> QED
    BY <2>1, <2>3, <2>4, <2>5 DEF Walk
<1>5. CASE Sib(at) \notin Dom /\ Len(at) > 1
  <2> DEFINE c == Front(at)
  <2>1. at' = c /\ phase' = "next"
    BY <1>1, <1>5
  <2>2. /\ c \in Dom /\ c \in Path /\ Pre(c, at) /\ c # at
        /\ \A p \in Dom : Left(p, c) \/ (Pre(p, c) /\ p # c) \/ Pre(c, p)
                            <=> Left(p, at) \/ (Pre(p, at) /\ p # at) \/ Pre(at, p)
    BY <1>2, <1>5, Parent DEF Typed
  <2> HIDE DEF c
  <2>3. Steady
    BY <1>1, <2>1, <2>2 DEF Steady, Past, Walking, Later
  <2>4. ASSUME NEW q \in Above(c) \ {c} PROVE Opened(q)
    <3>1. q \in Path /\ Pre(q, c) /\ q # c
      BY <2>2, AboveIs
    <3>2. Pre(q, at) /\ q # at
      BY <1>2, <2>2, <3>1, PreOrder
    <3> QED
      BY <1>2, <3>1, <3>2, OpenedAbove
  <2>5. (Above(at) \ {at})' = Above(c) \ {c} /\ Dom' = Dom /\ \A q : Opened(q)' = Opened(q)
    BY <1>1, <2>1, BSame DEF Above
  <2> QED
    BY <2>1, <2>2, <2>3, <2>4, <2>5 DEF Walk
<1>6. CASE Sib(at) \notin Dom /\ ~(Len(at) > 1)
  <2>1. phase' = "chain" /\ Len(at) = 1
    BY <1>1, <1>2, <1>6
  <2>2. \A p \in Dom : Left(p, at) \/ Pre(at, p)
    BY <1>2, <1>6, <2>1, Parent DEF Typed
  <2>3. Steady
    BY <1>1, <2>1, <2>2 DEF Steady, Past, Walking, Later
  <2> QED
    BY <2>1, <2>3 DEF Walk, Walking
<1> QED
  BY <1>1, <1>4, <1>5, <1>6


-----------------------------------------------------------------------------
(* The flags after a step.  It is h + 1, when h were done.                 *)
LEMMA AtStep ==
  ASSUME Typed, Walk, Told, phase = "steps", pending # <<>>
  PROVE  /\ at \in Dom /\ StepsAt(at) \in Seq(Step) /\ Had \in Nat /\ Had < Len(StepsAt(at))
         /\ Had + 1 \in 1 .. Len(StepsAt(at)) /\ Head1 = StepsAt(at)[Had + 1] /\ Head1 \in Step
         /\ (b' = b /\ at' = at /\ pending' = Tail(pending)) =>
              Had' = Had + 1 /\ pending' = SubSeq(StepsAt(at), Had + 2, Len(StepsAt(at)))
<1> DEFINE s == StepsAt(at)
           n == Len(s)
<1>1. at \in Dom /\ s \in Seq(Step) /\ n \in Nat
  BY ToldInAll DEF Walk, Walking, Typed
<1>2. Had \in 0 .. n /\ pending = SubSeq(s, Had + 1, n)
  BY DEF Told
<1>3. /\ Had < n /\ Had + 1 \in 1 .. n /\ Head(pending) = s[Had + 1]
      /\ Tail(pending) = SubSeq(s, Had + 2, n) /\ Len(Tail(pending)) = n - (Had + 1)
  BY <1>1, <1>2, Remaining
<1>4. s[Had + 1] \in Step
  BY <1>1, <1>3, ElementOfSeq
<1>5. ASSUME b' = b, at' = at, pending' = Tail(pending) PROVE Had' = Had + 1
  <2>1. StepsAt(at)' = StepsAt(at)
    BY <1>5, BSame
  <2>2. Had' = n - Len(Tail(pending))
    BY <2>1, <1>5 DEF Had
  <2> QED
    BY <1>1, <1>2, <1>3, <2>2
<1>6. Head1 = s[Had + 1] /\ Head1 \in Step
  BY <1>3, <1>4 DEF Head1
<1>7. Had \in Nat
  BY <1>1, <1>2
<1>8. (b' = b /\ at' = at /\ pending' = Tail(pending)) => Had' = Had + 1 /\ pending' = SubSeq(s, Had + 2, n)
  BY <1>3, <1>5
<1> QED
  BY <1>1, <1>3, <1>6, <1>7, <1>8

LEMMA ToldEnter ==
  ASSUME Typed, Walk, EnterField
  PROVE  Told'
<1> SUFFICES ASSUME phase' = "steps" PROVE Told'
  BY DEF Told
<1>1. at' = at /\ b' = b /\ phase = "field" /\ flags' = NoFlags /\ pending' = StepsAt(at)
  BY DEF EnterField, StepsAt
<1>2. /\ at \in Dom /\ StepsAt(at) \in Seq(Step) /\ Len(StepsAt(at)) \in Nat
      /\ FillsTo(at, 0) /\ ~WholeTo(at, 0)
  BY <1>1, ToldInAll DEF Walk, Walking, Typed
<1>3. /\ StepsAt(at)' = StepsAt(at)
      /\ \A n : FillsTo(at, n)' = FillsTo(at, n) /\ WholeTo(at, n)' = WholeTo(at, n)
  <2>1. \A p : StepsAt(p)' = StepsAt(p)
    BY <1>1, BSame
  <2>2. \A p, n : FillsTo(p, n)' = FillsTo(p, n) /\ WholeTo(p, n)' = WholeTo(p, n)
    BY <1>1, BSame
  <2> QED
    BY <1>1, <2>1, <2>2
<1>4. Had' = 0
  BY <1>1, <1>2, <1>3 DEF Had
<1>5. pending' = SubSeq(StepsAt(at), 1, Len(StepsAt(at)))
  BY <1>1, <1>2, SubSeqFull
<1>6. ~flags'.skip /\ ~flags'.noSkip /\ ~flags'.whole /\ ~flags'.hardSkip
  BY <1>1 DEF NoFlags
<1> QED
  BY <1>1, <1>2, <1>3, <1>4, <1>5, <1>6 DEF Told


LEMMA ToldStep ==
  ASSUME Typed, Walk, Told, phase = "steps", pending # <<>>, b' = b, at' = at, phase' = "steps", pending' = Tail(pending),
         flags'.hardSkip <=> flags.hardSkip \/ IsWord(Head1, {"-", "skip"}),
         flags'.noSkip <=> flags.noSkip \/ IsWord(Head1, {"fill"}),
         flags'.skip <=> IF Had + 1 \in Verdicts(at) THEN ~Verdict(at, Had + 1) ELSE flags.skip,
         flags'.whole <=> IF Had + 1 \in Wholes(at) THEN Head1.word # "fields" ELSE flags.whole
  PROVE  Told'
<1> DEFINE s == StepsAt(at)
           h == Had
<1>1. /\ at \in Dom /\ s \in Seq(Step) /\ h \in Nat /\ h < Len(s) /\ h + 1 \in 1 .. Len(s)
      /\ Head1 = s[h + 1] /\ Had' = h + 1 /\ pending' = SubSeq(s, h + 2, Len(s))
  BY AtStep
<1>2. /\ StepsAt(at)' = s
      /\ \A n : FillsTo(at, n)' = FillsTo(at, n) /\ WholeTo(at, n)' = WholeTo(at, n)
  <2>1. \A p : StepsAt(p)' = StepsAt(p)
    BY BSame
  <2>2. \A p, n : FillsTo(p, n)' = FillsTo(p, n) /\ WholeTo(p, n)' = WholeTo(p, n)
    BY BSame
  <2> QED
    BY <2>1, <2>2
<1>3. /\ flags.hardSkip <=> \E l \in 1 .. h : IsWord(s[l], {"-", "skip"})
      /\ flags.noSkip <=> \E l \in 1 .. h : IsWord(s[l], {"fill"})
      /\ flags.skip <=> ~FillsTo(at, h)
      /\ flags.whole <=> WholeTo(at, h)
  BY DEF Told
<1>4. /\ FillsTo(at, h + 1) <=> IF h + 1 \in Verdicts(at) THEN Verdict(at, h + 1) ELSE FillsTo(at, h)
      /\ WholeTo(at, h + 1) <=> IF h + 1 \in Wholes(at) THEN s[h + 1].word # "fields" ELSE WholeTo(at, h)
  BY <1>1, ToldNext DEF Typed
<1>5. \A l \in 1 .. h + 1 : l \in 1 .. h \/ l = h + 1
  BY <1>1
<1>6. \A l \in 1 .. h : l \in 1 .. h + 1
  BY <1>1
<1>7. h + 1 \in 1 .. h + 1 /\ h + 1 \in 0 .. Len(s) /\ h + 2 = (h + 1) + 1
  BY <1>1
<1> HIDE DEF s, h
<1>8. flags'.hardSkip <=> \E l \in 1 .. h + 1 : IsWord(s[l], {"-", "skip"})
  <2>1. IsWord(Head1, {"-", "skip"}) <=> IsWord(s[h + 1], {"-", "skip"})
    BY <1>1
  <2> QED
    BY <2>1, <1>3, <1>5, <1>6, <1>7
<1>9. flags'.noSkip <=> \E l \in 1 .. h + 1 : IsWord(s[l], {"fill"})
  <2>1. IsWord(Head1, {"fill"}) <=> IsWord(s[h + 1], {"fill"})
    BY <1>1
  <2> QED
    BY <2>1, <1>3, <1>5, <1>6, <1>7
<1>10. flags'.skip <=> ~FillsTo(at, h + 1)
  BY <1>3, <1>4 DEF h
<1>11. flags'.whole <=> WholeTo(at, h + 1)
  <2>1. Head1.word = s[h + 1].word
    BY <1>1
  <2> QED
    BY <2>1, <1>3, <1>4 DEF h
<1>12. pending' = SubSeq(s, (h + 1) + 1, Len(s))
  BY <1>1, <1>7
<1> QED
  BY <1>1, <1>2, <1>7, <1>8, <1>9, <1>10, <1>11, <1>12 DEF Told

(* Whether the next step is one that applies, and one that counts.         *)
LEMMA NextCounts ==
  ASSUME AsDocumented, Typed, Walk, Told, phase = "steps", pending # <<>>
  PROVE  /\ Had + 1 \in Applied(at) <=> Head1.by \in ActionSteps /\ ~flags.hardSkip
         /\ Head1.by \notin ActionSteps =>
              (Had + 1 \in Verdicts(at) <=> IsWord(Head1, {"fill", "nofill", "-", "skip"}))
         /\ Head1.by \in ActionSteps =>
              (Had + 1 \in Verdicts(at) <=> /\ ~flags.hardSkip /\ ~flags.noSkip
                                            /\ Head1.action.fillSet \/ Pointed(at, Had + 1))
         /\ Had + 1 \in Wholes(at) <=> IsWord(Head1, {"whole", "blob", "fields"})
<1> DEFINE s == StepsAt(at)
           h == Had
<1>1. /\ at \in Dom /\ s \in Seq(Step) /\ h \in Nat /\ h + 1 \in 1 .. Len(s) /\ Head1 = s[h + 1]
  BY AtStep
<1>2. DOMAIN s = 1 .. Len(s)
  BY <1>1, LenProperties
<1>3. /\ flags.hardSkip <=> \E l \in 1 .. h : IsWord(s[l], {"-", "skip"})
      /\ flags.noSkip <=> \E l \in 1 .. h : IsWord(s[l], {"fill"})
  BY DEF Told
<1>4. \A l \in 1 .. h + 1 : l \in 1 .. h \/ l = h + 1
  BY <1>1
<1>5. \A l \in 1 .. h : l \in 1 .. h + 1
  BY <1>1
<1>6. "word" \notin ActionSteps
  BY DEF ActionSteps
<1>7. Applied(at) = {k \in DOMAIN s : s[k].by \in ActionSteps /\ \A l \in 1 .. k : ~IsWord(s[l], {"-", "skip"})}
  BY <1>1, AppliedInTurn DEF Typed
<1> HIDE DEF s, h
<1>8. s[h + 1].by \in ActionSteps => \A w : ~IsWord(s[h + 1], w)
  BY <1>6 DEF IsWord
<1>9. h + 1 \in Applied(at) <=> Head1.by \in ActionSteps /\ ~flags.hardSkip
  <2>1. s[h + 1].by \in ActionSteps =>
          ((\A l \in 1 .. h + 1 : ~IsWord(s[l], {"-", "skip"})) <=> ~flags.hardSkip)
    BY <1>3, <1>4, <1>5, <1>8
  <2> QED
    BY <1>1, <1>2, <1>7, <2>1
<1>10. h + 1 \in Verdicts(at) <=>
         \/ IsWord(s[h + 1], {"fill", "nofill", "-", "skip"})
         \/ /\ h + 1 \in Applied(at)
            /\ s[h + 1].action.fillSet \/ Pointed(at, h + 1)
            /\ \A l \in 1 .. h + 1 : ~IsWord(s[l], {"fill"})
  BY <1>1, <1>2 DEF Verdicts, s
<1>11. s[h + 1].by \in ActionSteps =>
         ((\A l \in 1 .. h + 1 : ~IsWord(s[l], {"fill"})) <=> ~flags.noSkip)
  BY <1>3, <1>4, <1>5, <1>8
<1>12. h + 1 \in Wholes(at) <=> IsWord(s[h + 1], {"whole", "blob", "fields"})
  BY <1>1, <1>2 DEF Wholes, s
<1>13. Head1.by \notin ActionSteps =>
              (h + 1 \in Verdicts(at) <=> IsWord(Head1, {"fill", "nofill", "-", "skip"}))
  BY <1>1, <1>9, <1>10
<1>14. Head1.by \in ActionSteps =>
              (h + 1 \in Verdicts(at) <=> /\ ~flags.hardSkip /\ ~flags.noSkip
                                          /\ Head1.action.fillSet \/ Pointed(at, h + 1))
  BY <1>1, <1>8, <1>9, <1>10, <1>11
<1>15. h + 1 \in Wholes(at) <=> IsWord(Head1, {"whole", "blob", "fields"})
  BY <1>1, <1>12
<1> QED
  BY <1>9, <1>13, <1>14, <1>15 DEF h


LEMMA ToldRead ==
  ASSUME AsDocumented, Typed, Walk, Told, ReadWord
  PROVE  Told' /\ flags' \in [skip : BOOLEAN, noSkip : BOOLEAN, whole : BOOLEAN, hardSkip : BOOLEAN]
<1>1. /\ phase = "steps" /\ pending # <<>> /\ Head1.by = "word" /\ phase' = phase /\ at' = at /\ b' = b
      /\ pending' = Tail(pending)
      /\ flags' = CASE Head1.word = "nofill" -> [flags EXCEPT !.skip = TRUE]
                    [] Head1.word = "fill" -> [flags EXCEPT !.skip = FALSE, !.noSkip = TRUE]
                    [] Head1.word \in {"-", "skip"} -> [flags EXCEPT !.skip = TRUE, !.hardSkip = TRUE]
                    [] Head1.word \in {"whole", "blob"} -> [flags EXCEPT !.whole = TRUE]
                    [] Head1.word = "fields" -> [flags EXCEPT !.whole = FALSE]
  BY DEF ReadWord, At
<1>2. "word" \notin ActionSteps
  BY DEF ActionSteps
<1>3. Head1 \in Step
  BY <1>1, AtStep
<1>4. Head1.word \in {"nofill", "fill", "-", "skip", "whole", "blob", "fields"}
  <2>1. Head1 \in [by : {"word"}, word : Reserved \ {"field"}]
    BY <1>1, <1>2, <1>3 DEF Step
  <2> QED
    BY <2>1 DEF Reserved
<1>5. flags \in [skip : BOOLEAN, noSkip : BOOLEAN, whole : BOOLEAN, hardSkip : BOOLEAN]
  BY DEF Typed
<1>6. /\ Had + 1 \notin Applied(at)
      /\ Had + 1 \in Verdicts(at) <=> Head1.word \in {"fill", "nofill", "-", "skip"}
      /\ Had + 1 \in Wholes(at) <=> Head1.word \in {"whole", "blob", "fields"}
  BY <1>1, <1>2, NextCounts DEF IsWord
<1>7. Verdict(at, Had + 1) <=> Head1.word = "fill"
  <2>1. Head1 = StepsAt(at)[Had + 1]
    BY <1>1, AtStep
  <2> QED
    BY <1>1, <1>6, <2>1 DEF Verdict, IsWord
<1> DEFINE w == Head1.word
           g == flags'
<1> HIDE DEF w, g
<1>8. /\ w \in {"nofill", "fill", "-", "skip", "whole", "blob", "fields"}
      /\ g \in [skip : BOOLEAN, noSkip : BOOLEAN, whole : BOOLEAN, hardSkip : BOOLEAN]
      /\ g.hardSkip <=> flags.hardSkip \/ w \in {"-", "skip"}
      /\ g.noSkip <=> flags.noSkip \/ w = "fill"
      /\ g.skip <=> IF w \in {"fill", "nofill", "-", "skip"} THEN w # "fill" ELSE flags.skip
      /\ g.whole <=> IF w \in {"whole", "blob", "fields"} THEN w # "fields" ELSE flags.whole
  <2>1. /\ w \in {"nofill", "fill", "-", "skip", "whole", "blob", "fields"}
        /\ g = CASE w = "nofill" -> [flags EXCEPT !.skip = TRUE]
                 [] w = "fill" -> [flags EXCEPT !.skip = FALSE, !.noSkip = TRUE]
                 [] w \in {"-", "skip"} -> [flags EXCEPT !.skip = TRUE, !.hardSkip = TRUE]
                 [] w \in {"whole", "blob"} -> [flags EXCEPT !.whole = TRUE]
                 [] w = "fields" -> [flags EXCEPT !.whole = FALSE]
    BY <1>1, <1>4 DEF w, g
  <2>2. CASE w = "nofill"
    <3>1. g = [flags EXCEPT !.skip = TRUE]
      BY <2>1, <2>2
    <3> QED
      BY <3>1, <2>2, <1>5
  <2>3. CASE w = "fill"
    <3>1. g = [flags EXCEPT !.skip = FALSE, !.noSkip = TRUE]
      BY <2>1, <2>3
    <3> QED
      BY <3>1, <2>3, <1>5
  <2>4. CASE w \in {"-", "skip"}
    <3>1. g = [flags EXCEPT !.skip = TRUE, !.hardSkip = TRUE]
      BY <2>1, <2>4
    <3> QED
      BY <3>1, <2>4, <1>5
  <2>5. CASE w \in {"whole", "blob"}
    <3>1. g = [flags EXCEPT !.whole = TRUE]
      BY <2>1, <2>5
    <3> QED
      BY <3>1, <2>5, <1>5
  <2>6. CASE w = "fields"
    <3>1. g = [flags EXCEPT !.whole = FALSE]
      BY <2>1, <2>6
    <3> QED
      BY <3>1, <2>6, <1>5
  <2> QED
    BY <2>1, <2>2, <2>3, <2>4, <2>5, <2>6
<1>9. /\ IsWord(Head1, {"-", "skip"}) <=> w \in {"-", "skip"}
      /\ IsWord(Head1, {"fill"}) <=> w = "fill"
  BY <1>1 DEF IsWord, w
<1>10. /\ flags'.hardSkip <=> flags.hardSkip \/ IsWord(Head1, {"-", "skip"})
       /\ flags'.noSkip <=> flags.noSkip \/ IsWord(Head1, {"fill"})
  BY <1>8, <1>9 DEF g
<1>11. /\ flags'.skip <=> IF Had + 1 \in Verdicts(at) THEN ~Verdict(at, Had + 1) ELSE flags.skip
       /\ flags'.whole <=> IF Had + 1 \in Wholes(at) THEN Head1.word # "fields" ELSE flags.whole
  BY <1>6, <1>7, <1>8 DEF g, w
<1>12. Told'
  BY <1>1, <1>10, <1>11, ToldStep
<1> QED
  BY <1>8, <1>12 DEF g

LEMMA ToldPass ==
  ASSUME AsDocumented, Typed, Walk, Told, PassAction
  PROVE  Told' /\ Had + 1 \notin Applied(at)
<1>1. /\ phase = "steps" /\ pending # <<>> /\ Head1.by \in ActionSteps /\ phase' = phase /\ at' = at /\ b' = b
      /\ pending' = Tail(pending) /\ flags.hardSkip /\ flags' = flags
  BY DEF PassAction, At
<1>2. "word" \notin ActionSteps
  BY DEF ActionSteps
<1>3. \A w : ~IsWord(Head1, w)
  BY <1>1, <1>2 DEF IsWord
<1>4. Had + 1 \notin Applied(at) /\ Had + 1 \notin Verdicts(at) /\ Had + 1 \notin Wholes(at)
  BY <1>1, <1>3, NextCounts
<1> QED
  BY <1>1, <1>3, <1>4, ToldStep

LEMMA ToldAdd ==
  ASSUME AsDocumented, Typed, Walk, Told, AddAction
  PROVE  /\ Told' /\ Had + 1 \in Applied(at)
         /\ flags' \in [skip : BOOLEAN, noSkip : BOOLEAN, whole : BOOLEAN, hardSkip : BOOLEAN]
         /\ reflectives' = Append(reflectives, Entry(at, Had + 1))
         /\ Entry(at, Had + 1) \in Acts
<1> DEFINE pointer == Match(Head1.action, FieldAt(at)).pointer
<1>1. /\ phase = "steps" /\ pending # <<>> /\ Head1.by \in ActionSteps /\ phase' = phase /\ at' = at /\ b' = b
      /\ pending' = Tail(pending) /\ ~flags.hardSkip
      /\ flags' = [flags EXCEPT !.skip = SkipAfter(Head1.action, pointer)]
      /\ reflectives' = Append(reflectives,
           [kind |-> "act", path |-> at, by |-> Head1.by, id |-> Head1.action.id, pointer |-> pointer])
  BY DEF AddAction, At
<1>2. "word" \notin ActionSteps /\ "unknown" \notin ActionSteps
  BY DEF ActionSteps
<1>3. at \in Dom /\ at \in Path /\ Head1 \in Step /\ Head1 = StepsAt(at)[Had + 1]
  BY <1>1, AtStep, FieldsAre DEF Typed
<1>4. Head1.action \in Actions
  <2>1. Head1 \in [by : ActionSteps, word : WordOrNone, action : Actions]
    BY <1>1, <1>2, <1>3 DEF Step
  <2> QED
    BY <2>1
<1>5. pointer = Pointed(at, Had + 1) /\ pointer \in BOOLEAN
  <2>1. pointer = Pointed(at, Had + 1)
    BY <1>3 DEF Pointed, StepsAt
  <2>2. Match(Head1.action, FieldAt(at)).pointer \in BOOLEAN
    BY DEF Match
  <2> QED
    BY <2>1, <2>2
<1> HIDE DEF pointer
<1>6. \A w : ~IsWord(Head1, w)
  BY <1>1, <1>2 DEF IsWord
<1>7. /\ Had + 1 \in Applied(at) /\ Had + 1 \notin Wholes(at)
      /\ Had + 1 \in Verdicts(at) <=> ~flags.noSkip /\ (Head1.action.fillSet \/ pointer)
  BY <1>1, <1>5, <1>6, NextCounts
<1>8. Verdict(at, Had + 1) <=> Head1.action.fillSet /\ Head1.action.fill
  BY <1>3, <1>7 DEF Verdict
<1>9. flags \in [skip : BOOLEAN, noSkip : BOOLEAN, whole : BOOLEAN, hardSkip : BOOLEAN]
  BY DEF Typed
<1>10. Head1.action.fillSet \in BOOLEAN /\ Head1.action.fill \in BOOLEAN /\ Head1.action.id \in STRING
  BY <1>4 DEF Actions
<1>11. SkipAfter(Head1.action, pointer) \in BOOLEAN
  BY <1>5, <1>9, <1>10 DEF SkipAfter
<1>12. /\ flags' \in [skip : BOOLEAN, noSkip : BOOLEAN, whole : BOOLEAN, hardSkip : BOOLEAN]
       /\ flags'.skip = SkipAfter(Head1.action, pointer) /\ flags'.hardSkip = flags.hardSkip
       /\ flags'.noSkip = flags.noSkip /\ flags'.whole = flags.whole
  BY <1>1, <1>9, <1>11
<1>13. flags'.skip <=> IF Had + 1 \in Verdicts(at) THEN ~Verdict(at, Had + 1) ELSE flags.skip
  <2>1. SkipAfter(Head1.action, pointer) <=>
          IF flags.noSkip THEN flags.skip
          ELSE IF Head1.action.fillSet THEN ~Head1.action.fill ELSE flags.skip \/ pointer
    BY <1>5, <1>9, <1>10 DEF SkipAfter
  <2> QED
    BY <2>1, <1>7, <1>8, <1>12
<1>14. Told'
  BY <1>1, <1>6, <1>7, <1>12, <1>13, ToldStep
<1>15. Entry(at, Had + 1) =
         [kind |-> "act", path |-> at, by |-> Head1.by, id |-> Head1.action.id, pointer |-> pointer]
  BY <1>3, <1>5 DEF Entry
<1>16. Entry(at, Had + 1) \in Acts
  BY <1>1, <1>3, <1>5, <1>10, <1>15 DEF Acts, Path
<1> QED
  BY <1>1, <1>7, <1>12, <1>14, <1>15, <1>16


-----------------------------------------------------------------------------
(* The actions of a field that are there, or are to be there.              *)
SeenSame ==
  \A p \in Dom : Reached(p) => \A k \in Applied(p) : Seen(p, k)' <=> Seen(p, k)

LEMMA ActedKept ==
  ASSUME Acted, phase # "error", b' = b, reflectives' = reflectives, SeenSame
  PROVE  Acted'
<1>1. PICK step \in [DOMAIN reflectives -> Nat] : Numbered(step)
  BY DEF Acted
<1>2. /\ Dom' = Dom
      /\ \A p : Reached(p)' = Reached(p) /\ Applied(p)' = Applied(p)
      /\ \A p, k : Entry(p, k)' = Entry(p, k)
  BY BSame
<1>3. \A i \in DOMAIN reflectives : \E p \in Dom :
        /\ p = reflectives[i].path /\ Reached(p) /\ step[i] \in Applied(p) /\ Seen(p, step[i])
        /\ reflectives[i] = Entry(p, step[i])
  BY <1>1 DEF Numbered
<1>4. ASSUME NEW i \in DOMAIN reflectives
      PROVE  \E p \in Dom' : /\ p = reflectives[i].path /\ Reached(p)' /\ step[i] \in Applied(p)'
                              /\ Seen(p, step[i])' /\ reflectives[i] = Entry(p, step[i])'
  <2>1. PICK p \in Dom : /\ p = reflectives[i].path /\ Reached(p) /\ step[i] \in Applied(p) /\ Seen(p, step[i])
                         /\ reflectives[i] = Entry(p, step[i])
    BY <1>3
  <2>2. Seen(p, step[i])'
    BY <2>1 DEF SeenSame
  <2> QED
    BY <1>2, <2>1, <2>2
<1>5. \A p \in Dom : Reached(p) =>
        \A k \in Applied(p) : Seen(p, k)' => \E i \in DOMAIN reflectives : reflectives[i].path = p /\ step[i] = k
  BY <1>1 DEF Numbered, SeenSame
<1>6. Numbered(step)'
  <2>1. \A i, j \in DOMAIN reflectives' :
          i < j => LET p == reflectives'[i].path
                       q == reflectives'[j].path
                   IN IF p = q THEN step[i] < step[j] ELSE ~Pre(q, p)
    BY <1>1 DEF Numbered
  <2>2. \A p \in Dom' : Reached(p)' =>
          \A k \in Applied(p)' : Seen(p, k)' =>
            \E i \in DOMAIN reflectives' : reflectives'[i].path = p /\ step[i] = k
    BY <1>2, <1>5
  <2>3. \A i \in DOMAIN reflectives' : \E p \in Dom' :
          /\ p = reflectives'[i].path /\ Reached(p)' /\ step[i] \in Applied(p)' /\ Seen(p, step[i])'
          /\ reflectives'[i] = Entry(p, step[i])'
    BY <1>4
  <2> QED
    BY <2>1, <2>2, <2>3 DEF Numbered
<1> QED
  BY <1>6 DEF Acted

LEMMA AppliedFrom1 ==
  ASSUME b \in Builders, NEW p \in Dom, NEW k \in Applied(p)
  PROVE  k \in Nat /\ k >= 1 /\ k <= Len(StepsAt(p))
<1>1. Applied(p) \subseteq 1 .. Len(StepsAt(p)) /\ Len(StepsAt(p)) \in Nat
  BY ToldInAll
<1> QED
  BY <1>1

LEMMA SeenOutside ==
  ASSUME Steady, phase # "steps", phase' # "steps"
  PROVE  SeenSame
BY DEF Steady, SeenSame, Seen

LEMMA SeenLeft ==
  ASSUME AsDocumented, Typed, Walk, Told, Steady, phase = "steps", pending = <<>>, phase' # "steps"
  PROVE  SeenSame
<1>1. Had = Len(StepsAt(at)) /\ at \in Dom
  BY AtEnd
<1>2. \A k \in Applied(at) : k <= Had
  BY <1>1, AppliedFrom1 DEF Typed
<1> QED
  BY <1>1, <1>2 DEF Steady, SeenSame, Seen

LEMMA SeenEntered ==
  ASSUME Typed, Walk, EnterField, Steady
  PROVE  SeenSame
<1>1. /\ at' = at /\ b' = b /\ phase = "field"
      /\ pending' = (IF FieldAt(at).exported THEN StepsAt(at) ELSE <<>>)
      /\ phase' = (IF FieldAt(at).exported THEN "steps" ELSE "next")
  BY DEF EnterField, StepsAt
<1>2. CASE phase' # "steps"
  BY <1>1, <1>2, SeenOutside
<1>3. CASE phase' = "steps"
  <2>1. pending' = StepsAt(at) /\ at \in Dom
    BY <1>1, <1>3 DEF Walk, Walking
  <2>2. StepsAt(at)' = StepsAt(at) /\ Len(StepsAt(at)) \in Nat
    <3>1. \A p : StepsAt(p)' = StepsAt(p)
      BY <1>1, BSame
    <3>2. Len(StepsAt(at)) \in Nat
      BY <2>1, ToldInAll DEF Typed
    <3> QED
      BY <1>1, <3>1, <3>2
  <2>3. Had' = 0
    BY <2>1, <2>2 DEF Had
  <2>4. \A k \in Applied(at) : ~(k <= 0)
    BY <2>1, AppliedFrom1 DEF Typed
  <2> QED
    BY <1>1, <2>3, <2>4 DEF Steady, SeenSame, Seen
<1> QED
  BY <1>2, <1>3

LEMMA SeenPassed ==
  ASSUME Typed, Walk, Told, phase = "steps", pending # <<>>, b' = b, at' = at, phase' = "steps",
         pending' = Tail(pending), Had + 1 \notin Applied(at)
  PROVE  SeenSame
<1>1. at \in Dom /\ Had \in Nat /\ Had' = Had + 1
  BY AtStep
<1>2. \A p \in Dom : Past(p)' <=> Past(p)
  BY DEF Past
<1>3. \A k \in Applied(at) : k <= Had + 1 <=> k <= Had
  <2> SUFFICES ASSUME NEW k \in Applied(at) PROVE k <= Had + 1 <=> k <= Had
    OBVIOUS
  <2>1. k \in Nat /\ k # Had + 1
    BY <1>1, AppliedFrom1 DEF Typed
  <2> QED
    BY <1>1, <2>1
<1> QED
  BY <1>1, <1>2, <1>3 DEF SeenSame, Seen

LEMMA ActedAdded ==
  ASSUME AsDocumented, Typed, Walk, Told, Acted, AddAction
  PROVE  Acted'
<1>1. /\ phase = "steps" /\ pending # <<>> /\ phase' = "steps" /\ at' = at /\ b' = b /\ pending' = Tail(pending)
  BY DEF AddAction, At
<1>2. /\ Had + 1 \in Applied(at) /\ reflectives' = Append(reflectives, Entry(at, Had + 1))
      /\ Entry(at, Had + 1) \in Acts
  BY ToldAdd
<1>3. at \in Dom /\ at \in Path /\ Had \in Nat /\ Had' = Had + 1 /\ Reached(at)
  <2>1. at \in Dom /\ FieldAt(at).exported /\ \A q \in Above(at) \ {at} : Opened(q)
    BY <1>1 DEF Walk, Walking
  <2>2. at \in Path /\ Had \in Nat /\ Had' = Had + 1
    BY <1>1, <2>1, AtStep, FieldsAre DEF Typed
  <2> QED
    BY <2>1, <2>2 DEF Reached
<1>4. PICK step \in [DOMAIN reflectives -> Nat] : Numbered(step)
  BY <1>1 DEF Acted
<1>h. PICK h \in Nat : h = Had
  BY <1>3
<1>n. PICK n \in Nat : n = Len(reflectives)
  BY LenProperties DEF Typed
<1>s. PICK new : new = [i \in 1 .. n + 1 |-> IF i = n + 1 THEN h + 1 ELSE step[i]]
  OBVIOUS
<1>5. reflectives \in Seq(Acts) /\ n \in Nat /\ DOMAIN reflectives = 1 .. n
  BY <1>n, LenProperties DEF Typed
<1>6. /\ reflectives' \in Seq(Acts) /\ Len(reflectives') = n + 1 /\ DOMAIN reflectives' = 1 .. n + 1
      /\ \A i \in 1 .. n : reflectives'[i] = reflectives[i]
      /\ reflectives'[n + 1] = Entry(at, h + 1)
  BY <1>2, <1>5, <1>h, <1>n, AppendProperties, LenProperties
<1>7. Entry(at, h + 1).path = at
  BY <1>h DEF Entry
<1>8. \A i \in 1 .. n + 1 : i \in 1 .. n \/ i = n + 1
  BY <1>5
<1>9. n + 1 \in 1 .. n + 1 /\ \A i \in 1 .. n : i \in 1 .. n + 1 /\ i # n + 1
  BY <1>5
<1>10. new \in [1 .. n + 1 -> Nat]
  BY <1>4, <1>5, <1>8, <1>s
<1>11. new[n + 1] = h + 1 /\ \A i \in 1 .. n : new[i] = step[i]
  BY <1>9, <1>s
<1>12. /\ Dom' = Dom
       /\ \A p : Reached(p)' = Reached(p) /\ Applied(p)' = Applied(p)
       /\ \A p, k : Entry(p, k)' = Entry(p, k)
  BY <1>1, BSame
<1>13. \A p : Past(p)' <=> Past(p)
  BY <1>1 DEF Past
<1>14. ~Past(at)
  <2>1. ~Left(at, at)
    BY <1>3, PreOrder, LeftApart
  <2> QED
    BY <1>1, <2>1 DEF Past, Later
<1>15. \A p : \A k : Seen(p, k)' <=> Past(p) \/ (p = at /\ k <= h + 1)
  BY <1>1, <1>3, <1>h, <1>13 DEF Seen
<1>16. \A p : \A k : Seen(p, k) <=> Past(p) \/ (p = at /\ k <= h)
  BY <1>1, <1>h DEF Seen
<1>17. \A i \in 1 .. n : \E p \in Dom :
         /\ p = reflectives[i].path /\ Reached(p) /\ step[i] \in Applied(p) /\ step[i] \in Nat
         /\ (Past(p) \/ (p = at /\ step[i] <= h)) /\ reflectives[i] = Entry(p, step[i])
  BY <1>4, <1>5, <1>16 DEF Numbered
<1>18. ASSUME NEW i \in DOMAIN reflectives'
       PROVE  \E p \in Dom' : /\ p = reflectives'[i].path /\ Reached(p)' /\ new[i] \in Applied(p)'
                               /\ Seen(p, new[i])' /\ reflectives'[i] = Entry(p, new[i])'
  <2>1. CASE i \in 1 .. n
    <3>1. reflectives'[i] = reflectives[i] /\ new[i] = step[i]
      BY <2>1, <1>6, <1>11
    <3>2. PICK p \in Dom : /\ p = reflectives[i].path /\ Reached(p) /\ step[i] \in Applied(p) /\ step[i] \in Nat
                           /\ (Past(p) \/ (p = at /\ step[i] <= h)) /\ reflectives[i] = Entry(p, step[i])
      BY <2>1, <1>17
    <3>3. step[i] <= h => step[i] <= h + 1
      BY <3>2, <1>3
    <3>4. Seen(p, step[i])'
      BY <3>2, <3>3, <1>15
    <3> QED
      BY <3>1, <3>2, <3>4, <1>12
  <2>2. CASE i = n + 1
    <3>1. reflectives'[i] = Entry(at, h + 1) /\ new[i] = h + 1 /\ reflectives'[i].path = at
      BY <2>2, <1>h, <1>6, <1>7, <1>11
    <3>2. h + 1 <= h + 1
      BY <1>3
    <3>3. PICK p \in Dom : p = at
      BY <1>3
    <3>4. Seen(p, h + 1)'
      BY <3>2, <3>3, <1>15
    <3>5. Reached(p)' /\ h + 1 \in Applied(p)' /\ Entry(p, h + 1)' = Entry(p, h + 1)
      BY <3>3, <1>2, <1>h, <1>3, <1>12
    <3> QED
      BY <3>1, <3>3, <3>4, <3>5, <1>12
  <2> QED
    BY <1>6, <1>8, <2>1, <2>2
<1>19. ASSUME NEW i \in DOMAIN reflectives', NEW j \in DOMAIN reflectives', i < j
       PROVE  LET p == reflectives'[i].path
                  q == reflectives'[j].path
              IN IF p = q THEN new[i] < new[j] ELSE ~Pre(q, p)
  <2>1. i \in 1 .. n
    BY <1>5, <1>6, <1>8, <1>19
  <2>2. CASE j \in 1 .. n
    BY <2>1, <2>2, <1>4, <1>5, <1>6, <1>11, <1>19 DEF Numbered
  <2>3. CASE j = n + 1
    <3>1. reflectives'[i] = reflectives[i] /\ new[i] = step[i] /\ new[j] = h + 1 /\ reflectives'[j].path = at
      BY <2>1, <2>3, <1>6, <1>7, <1>11
    <3>2. PICK p \in Dom : p = reflectives[i].path /\ step[i] \in Nat /\ (Past(p) \/ (p = at /\ step[i] <= h))
      BY <2>1, <1>17
    <3>3. p \in Path
      BY <3>2, FieldsAre DEF Typed
    <3>4. CASE p = at
      <4>1. step[i] <= h
        BY <3>2, <3>4, <1>14
      <4>2. step[i] < h + 1
        BY <4>1, <3>2, <1>3
      <4> QED
        BY <3>1, <3>2, <3>4, <4>2
    <3>5. CASE p # at
      <4>1. Left(p, at) \/ Pre(p, at)
        BY <3>2, <3>5, <1>1 DEF Past, Later
      <4>2. ~Pre(at, p)
        BY <4>1, <3>3, <3>5, <1>3, LeftApart, PreOrder
      <4> QED
        BY <3>1, <3>2, <3>5, <4>2
    <3> QED
      BY <3>4, <3>5
  <2> QED
    BY <1>6, <1>8, <2>2, <2>3
<1>20. ASSUME NEW p \in Dom, Reached(p), NEW k \in Applied(p), Seen(p, k)'
       PROVE  \E i \in DOMAIN reflectives' : reflectives'[i].path = p /\ new[i] = k
  <2>1. CASE Seen(p, k)
    <3>1. PICK i \in 1 .. n : reflectives[i].path = p /\ step[i] = k
      BY <2>1, <1>20, <1>4, <1>5 DEF Numbered
    <3> QED
      BY <3>1, <1>6, <1>9, <1>11
  <2>2. CASE ~Seen(p, k)
    <3>1. p = at /\ k <= h + 1 /\ ~(k <= h)
      BY <2>2, <1>15, <1>16, <1>20
    <3>2. k \in Nat
      BY <1>20, AppliedFrom1 DEF Typed
    <3>3. k = h + 1
      BY <3>1, <3>2, <1>3
    <3> QED
      BY <3>1, <3>3, <1>6, <1>7, <1>9, <1>11
  <2> QED
    BY <2>1, <2>2
<1>21. Numbered(new)'
  <2>1. \A p \in Dom' : Reached(p)' =>
          \A k \in Applied(p)' : Seen(p, k)' =>
            \E i \in DOMAIN reflectives' : reflectives'[i].path = p /\ new[i] = k
    BY <1>12, <1>20
  <2> QED
    BY <2>1, <1>18, <1>19 DEF Numbered
<1>22. new \in [DOMAIN reflectives' -> Nat]
  BY <1>6, <1>10
<1> QED
  BY <1>21, <1>22 DEF Acted

-----------------------------------------------------------------------------
(* The inputs are those of the fields that are filled and were left.       *)
LEMMA TakingKept ==
  ASSUME Taking, phase # "error", b' = b, inputs' = inputs, Steady,
         phase = "steps" /\ phase' # "steps" => ~Filled(at)
  PROVE  Taking'
<1>1. /\ Dom' = Dom
      /\ \A p : Filled(p)' = Filled(p) /\ FieldAt(p)' = FieldAt(p)
  BY BSame
<1>2. \A p \in Dom : Filled(p) => (Past(p)' <=> Past(p))
  BY DEF Steady, Filled
<1>3. \A i \in DOMAIN inputs : inputs[i].mapping # <<>> =>
        \E p \in Dom : p = inputs[i].mapping /\ Filled(p) /\ Past(p) /\ inputs[i].type = FieldAt(p).type
  BY DEF Taking
<1>4. \A i \in DOMAIN inputs' : inputs'[i].mapping # <<>> =>
        \E p \in Dom' : p = inputs'[i].mapping /\ Filled(p)' /\ Past(p)' /\ inputs'[i].type = FieldAt(p)'.type
  <2> SUFFICES ASSUME NEW i \in DOMAIN inputs, inputs[i].mapping # <<>>
               PROVE  \E p \in Dom : p = inputs[i].mapping /\ Filled(p)' /\ Past(p)'
                                     /\ inputs[i].type = FieldAt(p)'.type
    BY <1>1
  <2>1. PICK p \in Dom : p = inputs[i].mapping /\ Filled(p) /\ Past(p) /\ inputs[i].type = FieldAt(p).type
    BY <1>3
  <2>2. Past(p)' /\ Filled(p)' /\ FieldAt(p)' = FieldAt(p)
    BY <1>1, <1>2, <2>1
  <2> QED
    BY <2>1, <2>2
<1>5. \A p \in Dom' : Filled(p)' /\ Past(p)' => \E i \in DOMAIN inputs' : inputs'[i].mapping = p
  BY <1>1, <1>2 DEF Taking
<1> QED
  BY <1>4, <1>5 DEF Taking

LEMMA TakingStart ==
  ASSUME Typed, Start, Steady
  PROVE  Taking' /\ inputs' \in Seq(Dispositions)
<1> DEFINE m == [type |-> "model", mapping |-> <<>>]
           g == [type |-> "ignore", mapping |-> <<>>]
<1>1. phase = "start" /\ b' = b /\ inputs' \in {<<m>>, <<g>>, <<>>}
  BY DEF Start
<1>2. m \in Dispositions /\ g \in Dispositions /\ m.mapping = <<>> /\ g.mapping = <<>>
  BY DEF Dispositions
<1> HIDE DEF m, g
<1>3. inputs' \in Seq(Dispositions) /\ \A i \in DOMAIN inputs' : inputs'[i].mapping = <<>>
  <2>1. \A x \in {m, g} : <<x>> \in Seq(Dispositions) /\ \A i \in DOMAIN <<x>> : <<x>>[i].mapping = <<>>
    BY <1>2
  <2>2. <<>> \in Seq(Dispositions) /\ DOMAIN <<>> = {}
    OBVIOUS
  <2>3. PICK u : u = inputs'
    OBVIOUS
  <2>4. u \in Seq(Dispositions) /\ \A i \in DOMAIN u : u[i].mapping = <<>>
    BY <1>1, <2>1, <2>2, <2>3, Zenon
  <2> QED
    BY <2>3, <2>4
<1>4. \A p \in Dom : Reached(p) => ~Past(p)'
  BY <1>1 DEF Steady, Past, Later, Walking
<1>5. Dom' = Dom /\ \A p : Filled(p)' = Filled(p)
  BY <1>1, BSame
<1>6. \A p \in Dom' : ~(Filled(p)' /\ Past(p)')
  BY <1>4, <1>5 DEF Filled
<1> QED
  BY <1>3, <1>6 DEF Taking

LEMMA TakingAdded ==
  ASSUME AsDocumented, Typed, Walk, Told, Taking, TakeInput, Steady
  PROVE  Taking' /\ inputs' \in Seq(Dispositions)
<1> DEFINE x == [type |-> FieldAt(at).type, mapping |-> at]
<1>1. /\ phase = "steps" /\ pending = <<>> /\ ~flags.skip /\ (FieldAt(at).struct => flags.whole)
      /\ inputs' = Append(inputs, x) /\ phase' = "next" /\ b' = b /\ at' = at
  BY DEF TakeInput
<1>2. at \in Dom /\ at \in Path /\ Filled(at) /\ FieldAt(at).type \in Types
  <2>1. at \in Dom /\ at \in Path /\ Reached(at) /\ Fills(at) /\ ~Opened(at)
    BY <1>1, AtEnd
  <2>2. FieldAt(at) \in Fields
    BY <2>1, FieldsAre DEF Typed
  <2> QED
    BY <2>1, <2>2 DEF Filled, Fields
<1>3. x \in Dispositions /\ x.mapping = at /\ x.type = FieldAt(at).type
  BY <1>2 DEF Dispositions, Path
<1> HIDE DEF x
<1>4. PICK n \in Nat : n = Len(inputs)
  BY LenProperties DEF Typed
<1>5. DOMAIN inputs = 1 .. n
  BY <1>4, LenProperties DEF Typed
<1>6. /\ inputs' \in Seq(Dispositions) /\ DOMAIN inputs' = 1 .. n + 1
      /\ \A i \in 1 .. n : inputs'[i] = inputs[i]
      /\ inputs'[n + 1] = x
  BY <1>1, <1>3, <1>4, AppendProperties, LenProperties DEF Typed
<1>7. /\ Dom' = Dom
      /\ \A p : Filled(p)' = Filled(p) /\ FieldAt(p)' = FieldAt(p)
  BY <1>1, BSame
<1>8. \A p \in Dom : Filled(p) => (Past(p)' <=> Past(p) \/ p = at)
  BY <1>1 DEF Steady, Filled
<1>9. \A i \in 1 .. n : inputs[i].mapping # <<>> =>
        \E p \in Dom : p = inputs[i].mapping /\ Filled(p) /\ Past(p) /\ inputs[i].type = FieldAt(p).type
  BY <1>1, <1>5 DEF Taking
<1>10. ASSUME NEW i \in DOMAIN inputs', inputs'[i].mapping # <<>>
       PROVE  \E p \in Dom' : p = inputs'[i].mapping /\ Filled(p)' /\ Past(p)' /\ inputs'[i].type = FieldAt(p)'.type
  <2>1. CASE i \in 1 .. n
    <3>1. inputs'[i] = inputs[i]
      BY <2>1, <1>6
    <3>2. PICK p \in Dom : p = inputs[i].mapping /\ Filled(p) /\ Past(p) /\ inputs[i].type = FieldAt(p).type
      BY <2>1, <3>1, <1>9, <1>10
    <3>3. Past(p)' /\ Filled(p)' /\ FieldAt(p)' = FieldAt(p)
      BY <3>2, <1>7, <1>8
    <3> QED
      BY <3>1, <3>2, <3>3, <1>7
  <2>2. CASE i = n + 1
    <3>1. PICK p \in Dom : p = at
      BY <1>2
    <3>2. Past(p)' /\ Filled(p)' /\ FieldAt(p)' = FieldAt(p)
      BY <3>1, <1>2, <1>7, <1>8
    <3> QED
      BY <2>2, <3>1, <3>2, <1>3, <1>6, <1>7
  <2> QED
    BY <2>1, <2>2, <1>6
<1>11. ASSUME NEW p \in Dom, Filled(p), Past(p)' PROVE \E i \in DOMAIN inputs' : inputs'[i].mapping = p
  <2>1. CASE Past(p)
    <3>1. PICK i \in 1 .. n : inputs[i].mapping = p
      BY <2>1, <1>11, <1>1, <1>5 DEF Taking
    <3> QED
      BY <3>1, <1>6
  <2>2. CASE ~Past(p)
    BY <2>2, <1>3, <1>6, <1>8, <1>11
  <2> QED
    BY <2>1, <2>2
<1>12. \A p \in Dom' : Filled(p)' /\ Past(p)' => \E i \in DOMAIN inputs' : inputs'[i].mapping = p
  BY <1>7, <1>11
<1> QED
  BY <1>6, <1>10, <1>12 DEF Taking

-----------------------------------------------------------------------------
(* The chain of the builder.                                               *)
Members == [kind : {"ignore", "fill"}] \cup Acts \cup [kind : {"method"}, id : STRING]

LEMMA Join ==
  ASSUME NEW S, NEW s \in Seq(S), NEW u \in Seq(S)
  PROVE  /\ s \o u \in Seq(S) /\ Len(s \o u) = Len(s) + Len(u) /\ Len(s) \in Nat /\ Len(u) \in Nat
         /\ \A i \in 1 .. Len(s) : (s \o u)[i] = s[i]
         /\ \A i \in 1 .. Len(u) : (s \o u)[Len(s) + i] = u[i]
BY ConcatProperties, LenProperties

LEMMA ChainIs ==
  ASSUME Typed
  PROVE  /\ Ignoring \o Assembled \in Seq(Members)
         /\ Len(Ignoring) \in 0 .. 1 /\ Len(reflectives) \in Nat /\ Len(Methods) \in Nat
         /\ DOMAIN reflectives = 1 .. Len(reflectives) /\ DOMAIN Methods = 1 .. Len(Methods)
         /\ Methods \in Seq(Members) /\ \A i \in 1 .. Len(Methods) : Methods[i].kind = "method"
         /\ Len(Ignoring \o Assembled) = Len(Ignoring) + 1 + Len(reflectives) + Len(Methods)
         /\ \A i \in 1 .. Len(Ignoring) : (Ignoring \o Assembled)[i].kind = "ignore"
         /\ (Ignoring \o Assembled)[Len(Ignoring) + 1].kind = "fill"
         /\ \A i \in 1 .. Len(reflectives) :
              (Ignoring \o Assembled)[Len(Ignoring) + 1 + i] = reflectives[i] /\ reflectives[i].kind = "act"
         /\ \A i \in 1 .. Len(Methods) :
              (Ignoring \o Assembled)[Len(Ignoring) + 1 + Len(reflectives) + i] = Methods[i]
<1>1. b.methods \in Seq(STRING)
  BY FillerAssumption DEF Typed
<1>2. Methods \in Seq(Members) /\ Len(Methods) \in Nat /\ \A i \in 1 .. Len(Methods) : Methods[i].kind = "method"
  <2>1. Len(b.methods) \in Nat /\ DOMAIN b.methods = 1 .. Len(b.methods)
        /\ \A i \in 1 .. Len(b.methods) : b.methods[i] \in STRING
    BY <1>1, LenProperties
  <2>2. \A i \in 1 .. Len(b.methods) :
          /\ [kind |-> "method", id |-> b.methods[i]] \in [kind : {"method"}, id : STRING]
          /\ [kind |-> "method", id |-> b.methods[i]].kind = "method"
    BY <2>1
  <2>3. /\ Methods \in [1 .. Len(b.methods) -> Members]
        /\ \A i \in 1 .. Len(b.methods) : Methods[i].kind = "method"
    BY <2>1, <2>2 DEF Methods, Members
  <2>4. Methods \in Seq(Members) /\ Len(Methods) = Len(b.methods)
    BY <2>1, <2>3, LenProperties
  <2> QED
    BY <2>1, <2>3, <2>4
<1>3. Filling \in Seq(Members) /\ Len(Filling) = 1 /\ Filling[1].kind = "fill"
  <2> DEFINE x == [kind |-> "fill"]
  <2>1. x \in [kind : {"ignore", "fill"}] /\ x.kind = "fill"
    OBVIOUS
  <2>2. x \in Members /\ x.kind = "fill"
    BY <2>1 DEF Members
  <2>3. Filling = <<x>>
    BY DEF Filling
  <2> HIDE DEF x
  <2> QED
    BY <2>2, <2>3
<1>4. /\ Ignoring \in Seq(Members) /\ Len(Ignoring) \in 0 .. 1
      /\ \A i \in 1 .. Len(Ignoring) : Ignoring[i].kind = "ignore"
  <2> DEFINE x == [kind |-> "ignore"]
  <2>1. x \in [kind : {"ignore", "fill"}] /\ x.kind = "ignore"
    OBVIOUS
  <2>2. x \in Members /\ x.kind = "ignore"
    BY <2>1 DEF Members
  <2>3. Ignoring = <<x>> \/ Ignoring = <<>>
    BY DEF Ignoring
  <2> HIDE DEF x
  <2>4. \A s : s = <<x>> => s \in Seq(Members) /\ Len(s) = 1 /\ s[1] = x
    BY <2>2
  <2>5. \A s : s = <<>> => s \in Seq(Members) /\ Len(s) = 0
    OBVIOUS
  <2> QED
    BY <2>2, <2>3, <2>4, <2>5
<1>5. /\ reflectives \in Seq(Members) /\ Len(reflectives) \in Nat /\ DOMAIN reflectives = 1 .. Len(reflectives)
      /\ \A i \in 1 .. Len(reflectives) : reflectives[i].kind = "act"
  <2>1. reflectives \in Seq(Acts) /\ Len(reflectives) \in Nat /\ DOMAIN reflectives = 1 .. Len(reflectives)
    BY LenProperties DEF Typed
  <2>2. \A i \in 1 .. Len(reflectives) : reflectives[i] \in Acts
    BY <2>1, ElementOfSeq
  <2>3. reflectives \in Seq(Members)
    BY <2>1, <2>2, LenProperties DEF Members
  <2> QED
    BY <2>1, <2>2, <2>3 DEF Acts
<1> DEFINE I == Ignoring
           F == Filling
           R == reflectives
           M == Methods
           X == F \o R
           Y == X \o M
           Z == I \o Y
<1>6. Z = Ignoring \o Assembled
  BY DEF Assembled
<1>0. \A s, u \in Seq(Members) :
        /\ s \o u \in Seq(Members) /\ Len(s \o u) = Len(s) + Len(u) /\ Len(s) \in Nat /\ Len(u) \in Nat
        /\ \A i \in 1 .. Len(s) : (s \o u)[i] = s[i]
        /\ \A i \in 1 .. Len(u) : (s \o u)[Len(s) + i] = u[i]
  BY Join
<1>7. /\ X \in Seq(Members) /\ Len(X) = 1 + Len(R) /\ X[1] = F[1]
      /\ \A i \in 1 .. Len(R) : X[1 + i] = R[i]
  <2> HIDE DEF F, R
  <2>1. /\ X \in Seq(Members) /\ Len(X) = Len(F) + Len(R)
        /\ \A i \in 1 .. Len(F) : X[i] = F[i]
        /\ \A i \in 1 .. Len(R) : X[Len(F) + i] = R[i]
    BY <1>0, <1>3, <1>5 DEF F, R
  <2> QED
    BY <2>1, <1>3 DEF F
<1> HIDE DEF X
<1>8. /\ Y \in Seq(Members) /\ Len(Y) = Len(X) + Len(M) /\ Len(X) \in Nat
      /\ \A i \in 1 .. Len(X) : Y[i] = X[i]
      /\ \A i \in 1 .. Len(M) : Y[Len(X) + i] = M[i]
  BY <1>0, <1>2, <1>7
<1> HIDE DEF Y
<1>9. /\ Z \in Seq(Members) /\ Len(Z) = Len(I) + Len(Y) /\ Len(Y) \in Nat
      /\ \A i \in 1 .. Len(I) : Z[i] = I[i]
      /\ \A i \in 1 .. Len(Y) : Z[Len(I) + i] = Y[i]
  BY <1>0, <1>4, <1>8
<1> HIDE DEF Z, I, M, R
<1>10. Len(I) \in Nat /\ Len(M) \in Nat /\ Len(R) \in Nat /\ Len(X) = 1 + Len(R) /\ Len(Y) = 1 + Len(R) + Len(M)
  BY <1>2, <1>4, <1>5, <1>7, <1>8 DEF I, M, R
<1>11. Len(Z) = Len(I) + 1 + Len(R) + Len(M)
  BY <1>9, <1>10
<1>12. Z[Len(I) + 1].kind = "fill"
  <2>1. 1 \in 1 .. Len(Y) /\ 1 \in 1 .. Len(X)
    BY <1>10
  <2>2. Z[Len(I) + 1] = Y[1] /\ Y[1] = X[1]
    BY <2>1, <1>8, <1>9
  <2> QED
    BY <2>2, <1>3, <1>7 DEF F
<1>13. ASSUME NEW i \in 1 .. Len(R) PROVE Z[Len(I) + 1 + i] = R[i]
  <2>1. 1 + i \in 1 .. Len(Y) /\ 1 + i \in 1 .. Len(X) /\ Len(I) + 1 + i = Len(I) + (1 + i)
    BY <1>10
  <2>2. Z[Len(I) + (1 + i)] = Y[1 + i] /\ Y[1 + i] = X[1 + i]
    BY <2>1, <1>8, <1>9
  <2> QED
    BY <2>1, <2>2, <1>7
<1>14. ASSUME NEW i \in 1 .. Len(M) PROVE Z[Len(I) + 1 + Len(R) + i] = M[i]
  <2>1. Len(X) + i \in 1 .. Len(Y) /\ Len(I) + 1 + Len(R) + i = Len(I) + (Len(X) + i)
    BY <1>10
  <2>2. Z[Len(I) + (Len(X) + i)] = Y[Len(X) + i] /\ Y[Len(X) + i] = M[i]
    BY <2>1, <1>8, <1>9
  <2> QED
    BY <2>1, <2>2
<1>15. DOMAIN Methods = 1 .. Len(Methods)
  BY <1>2, LenProperties
<1> QED
  BY <1>2, <1>4, <1>5, <1>6, <1>9, <1>11, <1>12, <1>13, <1>14, <1>15 DEF I, M, R

(* First what keeps a function from being first, then the filling, the     *)
(* actions, and the methods.                                               *)
ChainOf(g, r, m) ==
  /\ g = Len(Ignoring) /\ r = Len(reflectives) /\ m = Len(Methods) /\ DOMAIN reflectives = 1 .. r
  /\ chain \in Seq(Members) /\ Len(chain) = g + 1 + r + m /\ DOMAIN chain = 1 .. g + 1 + r + m
  /\ chain[g + 1].kind = "fill"
  /\ \A i \in 1 .. g : chain[i].kind = "ignore"
  /\ \A i \in 1 .. r : chain[g + 1 + i] = reflectives[i] /\ chain[g + 1 + i].kind = "act"
  /\ \A i \in 1 .. m : chain[g + 1 + r + i] = Methods[i] /\ chain[g + 1 + r + i].kind = "method"

LEMMA ChainKinds ==
  ASSUME Typed, chain = Ignoring \o Assembled
  PROVE  \E g \in 0 .. 1, r \in Nat, m \in Nat : ChainOf(g, r, m)
<1>1. PICK g \in 0 .. 1, r \in Nat, m \in Nat : g = Len(Ignoring) /\ r = Len(reflectives) /\ m = Len(Methods)
  BY ChainIs
<1>2. /\ chain \in Seq(Members) /\ DOMAIN reflectives = 1 .. r
      /\ Len(chain) = g + 1 + r + m
      /\ \A i \in 1 .. m : Methods[i].kind = "method"
      /\ \A i \in 1 .. g : chain[i].kind = "ignore"
      /\ chain[g + 1].kind = "fill"
      /\ \A i \in 1 .. r : chain[g + 1 + i] = reflectives[i] /\ reflectives[i].kind = "act"
      /\ \A i \in 1 .. m : chain[g + 1 + r + i] = Methods[i]
  BY <1>1, ChainIs
<1>3. DOMAIN chain = 1 .. g + 1 + r + m
  BY <1>2, LenProperties
<1>4. \A i \in 1 .. r : chain[g + 1 + i].kind = "act"
  BY <1>2
<1>5. \A i \in 1 .. m : chain[g + 1 + r + i].kind = "method"
  BY <1>2
<1>6. ChainOf(g, r, m)
  BY <1>1, <1>2, <1>3, <1>4, <1>5 DEF ChainOf
<1> QED
  BY <1>6

(* A member of it is one of these.                                         *)
LEMMA ChainMember ==
  ASSUME NEW g \in 0 .. 1, NEW r \in Nat, NEW m \in Nat, ChainOf(g, r, m), NEW k \in 1 .. g + 1 + r + m
  PROVE  \/ k <= g /\ chain[k].kind = "ignore"
         \/ k = g + 1 /\ chain[k].kind = "fill"
         \/ k > g + 1 /\ chain[k].kind = "act"
            /\ \E i \in 1 .. r : k = g + 1 + i /\ chain[k] = reflectives[i]
         \/ k > g + 1 + r /\ chain[k].kind = "method"
<1>1. CASE k <= g
  <2>1. k \in 1 .. g
    BY <1>1
  <2> QED
    BY <1>1, <2>1 DEF ChainOf
<1>2. CASE k = g + 1
  BY <1>2 DEF ChainOf
<1>3. CASE k > g + 1 /\ k <= g + 1 + r
  <2>1. PICK i \in 1 .. r : k = g + 1 + i
    <3>1. k - (g + 1) \in 1 .. r /\ k = g + 1 + (k - (g + 1))
      BY <1>3
    <3> QED
      BY <3>1
  <2>2. chain[k] = reflectives[i] /\ chain[k].kind = "act"
    BY <2>1 DEF ChainOf
  <2> QED
    BY <1>3, <2>1, <2>2
<1>4. CASE k > g + 1 + r
  <2>1. PICK i \in 1 .. m : k = g + 1 + r + i
    <3>1. k - (g + 1 + r) \in 1 .. m /\ k = g + 1 + r + (k - (g + 1 + r))
      BY <1>4
    <3> QED
      BY <3>1
  <2>2. chain[k].kind = "method"
    BY <2>1 DEF ChainOf
  <2> QED
    BY <1>4, <2>2
<1> QED
  BY <1>1, <1>2, <1>3, <1>4

(* What a member of the chain changes.                                     *)
LEMMA HeldNext ==
  ASSUME Typed, chain = Ignoring \o Assembled, NEW n \in Nat, n < Len(chain), NEW leaf
  PROVE  /\ chain[n + 1].kind = "fill" =>
              HeldAfter(n + 1, leaf) = IF Loaded(leaf) = {} THEN HeldAfter(n, leaf)
                                       ELSE [from |-> "chain", type |-> inputs[Max(Loaded(leaf))].type]
         /\ chain[n + 1].kind = "act" =>
              HeldAfter(n + 1, leaf) = IF chain[n + 1].pointer /\ leaf \in Under(chain[n + 1].path)
                                       THEN [from |-> chain[n + 1].id] ELSE HeldAfter(n, leaf)
         /\ chain[n + 1].kind \notin {"fill", "act"} => HeldAfter(n + 1, leaf) = HeldAfter(n, leaf)
<1> DEFINE C(k) == Changing(k, leaf)
           N == n + 1
           Is(k) == chain[k].kind = "act" /\ chain[k].pointer /\ leaf \in Under(chain[k].path)
           Full(k) == \E j \in 1 .. k : chain[j].kind = "fill"
<1>1. PICK g \in 0 .. 1, r \in Nat, m \in Nat :
           /\ Len(chain) = g + 1 + r + m
           /\ \A k \in 1 .. g + 1 + r + m :
                \/ k <= g /\ chain[k].kind = "ignore"
                \/ k = g + 1 /\ chain[k].kind = "fill"
                \/ k > g + 1 /\ chain[k].kind = "act"
                \/ k > g + 1 + r /\ chain[k].kind = "method"
  <2>1. PICK g \in 0 .. 1, r \in Nat, m \in Nat : ChainOf(g, r, m)
    BY ChainKinds
  <2>2. Len(chain) = g + 1 + r + m
    BY <2>1 DEF ChainOf
  <2>3. \A k \in 1 .. g + 1 + r + m :
                \/ k <= g /\ chain[k].kind = "ignore"
                \/ k = g + 1 /\ chain[k].kind = "fill"
                \/ k > g + 1 /\ chain[k].kind = "act"
                \/ k > g + 1 + r /\ chain[k].kind = "method"
    BY <2>1, ChainMember
  <2> QED
    BY <2>2, <2>3
<1>2. N \in Nat /\ N \in 1 .. g + 1 + r + m
  BY <1>1
<1>3. chain[N].kind = "fill" => C(n) = {}
  <2> SUFFICES ASSUME chain[N].kind = "fill", NEW k \in 1 .. n, chain[k].kind = "act" PROVE FALSE
    BY DEF Changing
  <2>1. N = g + 1
    BY <1>1, <1>2
  <2>2. k \in 1 .. g + 1 + r + m /\ ~(k > g + 1)
    BY <1>2, <2>1
  <2> QED
    BY <1>1, <2>2
<1>4. \A k \in 1 .. N : k \in 1 .. n \/ k = N
  OBVIOUS
<1>5. N \in 1 .. N /\ \A k \in 1 .. n : k \in 1 .. N
  OBVIOUS
<1>6. C(n) = {k \in 1 .. n : Is(k)} /\ C(N) = {k \in 1 .. N : Is(k)}
  BY DEF Changing
<1> HIDE DEF N, C
<1>7. Is(N) => C(N) # {} /\ Max(C(N)) = N
  <2> SUFFICES ASSUME Is(N) PROVE C(N) # {} /\ Max(C(N)) = N
    OBVIOUS
  <2>1. C(N) \in SUBSET (1 .. N) /\ N \in C(N) /\ \A k \in C(N) : k <= N
    <3>1. \A k \in 1 .. N : k <= N
      BY <1>2
    <3> QED
      BY <3>1, <1>5, <1>6
  <2> QED
    BY <1>2, <2>1, MaxIs
<1>8. ~Is(N) => C(N) = C(n)
  BY <1>4, <1>5, <1>6
<1>9. Full(N) <=> Full(n) \/ chain[N].kind = "fill"
  BY <1>4, <1>5
<1> HIDE DEF Full
<1>10. /\ HeldAfter(N, leaf) = IF C(N) # {} THEN [from |-> chain[Max(C(N))].id]
                               ELSE IF Loaded(leaf) # {} /\ Full(N)
                               THEN [from |-> "chain", type |-> inputs[Max(Loaded(leaf))].type]
                               ELSE Kept(leaf)
       /\ HeldAfter(n, leaf) = IF C(n) # {} THEN [from |-> chain[Max(C(n))].id]
                               ELSE IF Loaded(leaf) # {} /\ Full(n)
                               THEN [from |-> "chain", type |-> inputs[Max(Loaded(leaf))].type]
                               ELSE Kept(leaf)
  BY DEF HeldAfter, C, Full
<1>14. ASSUME C(N) = C(n), Full(N) <=> Full(n) PROVE HeldAfter(N, leaf) = HeldAfter(n, leaf)
  <2>1. CASE C(n) # {}
    <3>1. /\ HeldAfter(N, leaf) = [from |-> chain[Max(C(n))].id]
          /\ HeldAfter(n, leaf) = [from |-> chain[Max(C(n))].id]
      BY <2>1, <1>10, <1>14, Zenon
    <3> QED
      BY <3>1
  <2>2. CASE C(n) = {} /\ Full(n) /\ Loaded(leaf) # {}
    <3>1. /\ HeldAfter(N, leaf) = [from |-> "chain", type |-> inputs[Max(Loaded(leaf))].type]
          /\ HeldAfter(n, leaf) = [from |-> "chain", type |-> inputs[Max(Loaded(leaf))].type]
      BY <2>2, <1>10, <1>14, Zenon
    <3> QED
      BY <3>1
  <2>3. CASE C(n) = {} /\ ~(Full(n) /\ Loaded(leaf) # {})
    <3>1. HeldAfter(N, leaf) = Kept(leaf) /\ HeldAfter(n, leaf) = Kept(leaf)
      BY <2>3, <1>10, <1>14, Zenon
    <3> QED
      BY <3>1
  <2> QED
    BY <2>1, <2>2, <2>3
<1>11. ASSUME chain[N].kind = "fill"
       PROVE  HeldAfter(N, leaf) = IF Loaded(leaf) = {} THEN HeldAfter(n, leaf)
                                   ELSE [from |-> "chain", type |-> inputs[Max(Loaded(leaf))].type]
  <2>1. ~Is(N) /\ C(n) = {} /\ C(N) = {} /\ Full(N)
    BY <1>3, <1>8, <1>9, <1>11
  <2> QED
    BY <2>1, <1>10, Zenon
<1>12. ASSUME chain[N].kind = "act"
       PROVE  HeldAfter(N, leaf) = IF chain[N].pointer /\ leaf \in Under(chain[N].path)
                                   THEN [from |-> chain[N].id] ELSE HeldAfter(n, leaf)
  <2>1. CASE Is(N)
    <3>1. HeldAfter(N, leaf) = [from |-> chain[N].id]
      BY <2>1, <1>7, <1>10, Zenon
    <3> QED
      BY <3>1, <2>1
  <2>2. CASE ~Is(N)
    <3>1. C(N) = C(n) /\ (Full(N) <=> Full(n)) /\ ~(chain[N].pointer /\ leaf \in Under(chain[N].path))
      BY <2>2, <1>8, <1>9, <1>12
    <3>2. HeldAfter(N, leaf) = HeldAfter(n, leaf)
      BY <3>1, <1>14
    <3> QED
      BY <3>1, <3>2
  <2> QED
    BY <2>1, <2>2
<1>13. ASSUME chain[N].kind \notin {"fill", "act"} PROVE HeldAfter(N, leaf) = HeldAfter(n, leaf)
  <2>1. C(N) = C(n) /\ (Full(N) <=> Full(n))
    BY <1>8, <1>9, <1>13
  <2> QED
    BY <2>1, <1>14
<1> QED
  BY <1>11, <1>12, <1>13 DEF N

LEMMA ChainedSame ==
  ASSUME Chained, b' = b, ran' = ran, held' = held, phase \notin {"run", "done", "error"}, phase' \notin {"run", "done"}
  PROVE  Chained'
<1>1. Leaves' = Leaves /\ \A p : Kept(p)' = Kept(p)
  BY BSame
<1>2. held' = [leaf \in Leaves' |-> Kept(leaf)'] /\ ran' = <<>>
  BY <1>1 DEF Chained
<1> QED
  BY <1>2 DEF Chained

LEMMA ChainSame ==
  ASSUME b' = b, reflectives' = reflectives
  PROVE  Ignoring' = Ignoring /\ Assembled' = Assembled /\ Methods' = Methods
BY DEF Ignoring, AddIgnore, FieldAt, Assembled, Methods, Filling

LEMMA ChainedStart ==
  ASSUME Typed, Chained, Assemble
  PROVE  Chained'
<1>1. phase = "chain" /\ phase' = "run" /\ chain' = Ignoring \o Assembled /\ b' = b /\ reflectives' = reflectives
      /\ ran' = ran /\ held' = held
  BY DEF Assemble, walkVars, Ignoring
<1>2. ran = <<>> /\ held = [leaf \in Leaves |-> Kept(leaf)]
  BY <1>1 DEF Chained
<1>3. chain' = (Ignoring \o Assembled)'
  BY <1>1, ChainSame
<1>4. PICK c \in Seq(Members) : c = chain'
  BY <1>1, ChainIs
<1>5. Len(c) \in Nat /\ SubSeq(c, 1, 0) = <<>>
  BY SubSeqEmpty
<1>6. Len(ran') = 0 /\ ran' = SubSeq(chain', 1, Len(ran')) /\ Len(ran') \in 0 .. Len(chain')
  BY <1>1, <1>2, <1>4, <1>5
<1>7. Leaves' = Leaves /\ \A p : Kept(p)' = Kept(p)
  BY <1>1, BSame
<1>8. \A leaf : HeldAfter(0, leaf)' = Kept(leaf)'
  <2>1. \A leaf : Changing(0, leaf)' = {}
    BY DEF Changing
  <2>2. ~\E k \in 1 .. 0 : chain'[k].kind = "fill"
    OBVIOUS
  <2> QED
    BY <2>1, <2>2 DEF HeldAfter
<1>9. held' = [leaf \in Leaves' |-> HeldAfter(Len(ran), leaf)']
  BY <1>1, <1>2, <1>6, <1>7, <1>8
<1> QED
  BY <1>1, <1>3, <1>6, <1>9 DEF Chained

LEMMA HeldSame ==
  ASSUME b' = b, inputs' = inputs, chain' = chain
  PROVE  \A n, leaf : HeldAfter(n, leaf)' = HeldAfter(n, leaf)
<1>1. \A p : Under(p)' = Under(p) /\ Kept(p)' = Kept(p)
  BY BSame
<1>2. \A leaf : Loaded(leaf)' = Loaded(leaf)
  BY <1>1 DEF Loaded
<1>3. \A n, leaf : Changing(n, leaf)' = Changing(n, leaf)
  BY <1>1 DEF Changing
<1> QED
  BY <1>1, <1>2, <1>3 DEF HeldAfter

LEMMA ChainedRun ==
  ASSUME Typed, Chained, RunNext
  PROVE  Chained'
<1> DEFINE x == chain[Len(ran) + 1]
<1>1. /\ phase = "run" /\ Len(ran) < Len(chain) /\ phase' = "run" /\ b' = b /\ chain' = chain
      /\ inputs' = inputs /\ reflectives' = reflectives /\ ran' = Append(ran, x)
      /\ held' = CASE x.kind = "fill" -> Call
                   [] x.kind = "act" ->
                        [leaf \in Leaves |-> IF x.pointer /\ leaf \in Under(x.path)
                                             THEN [from |-> x.id] ELSE held[leaf]]
                   [] OTHER -> held
  BY DEF RunNext, walkVars
<1>2. /\ chain = Ignoring \o Assembled /\ ran = SubSeq(chain, 1, Len(ran))
      /\ held = [leaf \in Leaves |-> HeldAfter(Len(ran), leaf)]
  BY <1>1 DEF Chained
<1>3. chain \in Seq(Members) /\ Len(chain) \in Nat /\ \A i \in 1 .. Len(chain) : chain[i] \in Members
  BY <1>2, ChainIs, LenProperties
<1>4. PICK n \in Nat : n = Len(ran)
  BY <1>1 DEF Chained
<1>5. n < Len(chain) /\ n + 1 \in 1 .. Len(chain) /\ x = chain[n + 1]
  BY <1>1, <1>3, <1>4
<1>6. ran' = SubSeq(chain', 1, n + 1) /\ Len(ran') = n + 1
  <2>1. SubSeq(chain, 1, n + 1) = SubSeq(chain, 1, n) \o <<chain[n + 1]>>
    <3>1. 1 \in 1 .. Len(chain) /\ n + 1 \in 1 .. Len(chain) /\ (n + 1) - 1 = n
      BY <1>3, <1>5
    <3> QED
      BY <3>1, <1>3, SubSeqRecursiveSecond
  <2>2. SubSeq(chain, 1, n) \in Seq(Members) /\ chain[n + 1] \in Members /\ Len(SubSeq(chain, 1, n)) = n
    <3>1. \A i \in 1 .. n : chain[i] \in Members
      BY <1>3, <1>5
    <3>2. SubSeq(chain, 1, n) \in Seq(Members) /\ Len(SubSeq(chain, 1, n)) = IF 1 <= n THEN n - 1 + 1 ELSE 0
      BY <3>1, SubSeqProperties
    <3> QED
      BY <3>2, <1>3, <1>5
  <2>3. Append(SubSeq(chain, 1, n), chain[n + 1]) = SubSeq(chain, 1, n) \o <<chain[n + 1]>>
    BY <2>2, AppendIsConcat
  <2>4. ran' = SubSeq(chain, 1, n + 1)
    BY <1>1, <1>2, <1>4, <1>5, <2>1, <2>3
  <2>5. Len(Append(SubSeq(chain, 1, n), chain[n + 1])) = n + 1
    BY <2>2, AppendProperties
  <2> QED
    BY <1>1, <2>1, <2>3, <2>4, <2>5
<1> HIDE DEF x
<1>7. \A leaf \in Leaves : held[leaf] = HeldAfter(n, leaf)
  BY <1>2, <1>4
<1>8. /\ x.kind = "fill" => \A leaf :
           HeldAfter(n + 1, leaf) = IF Loaded(leaf) = {} THEN HeldAfter(n, leaf)
                                    ELSE [from |-> "chain", type |-> inputs[Max(Loaded(leaf))].type]
      /\ x.kind = "act" => \A leaf :
           HeldAfter(n + 1, leaf) = IF x.pointer /\ leaf \in Under(x.path)
                                    THEN [from |-> x.id] ELSE HeldAfter(n, leaf)
      /\ x.kind \notin {"fill", "act"} => \A leaf : HeldAfter(n + 1, leaf) = HeldAfter(n, leaf)
  BY <1>2, <1>5, HeldNext
<1>9. held' = [leaf \in Leaves |-> HeldAfter(n + 1, leaf)]
  <2>1. CASE x.kind = "fill"
    <3>1. held' = [leaf \in Leaves |-> IF Loaded(leaf) = {} THEN held[leaf]
                                       ELSE [from |-> "chain", type |-> inputs[Max(Loaded(leaf))].type]]
      BY <2>1, <1>1 DEF Call, Loaded
    <3>2. \A leaf \in Leaves :
            HeldAfter(n + 1, leaf) = IF Loaded(leaf) = {} THEN held[leaf]
                                     ELSE [from |-> "chain", type |-> inputs[Max(Loaded(leaf))].type]
      BY <2>1, <1>7, <1>8
    <3> QED
      BY <3>1, <3>2
  <2>2. CASE x.kind = "act"
    <3>1. held' = [leaf \in Leaves |-> IF x.pointer /\ leaf \in Under(x.path) THEN [from |-> x.id] ELSE held[leaf]]
      BY <2>2, <1>1
    <3>2. \A leaf \in Leaves :
            HeldAfter(n + 1, leaf) = IF x.pointer /\ leaf \in Under(x.path) THEN [from |-> x.id] ELSE held[leaf]
      BY <2>2, <1>7, <1>8
    <3> QED
      BY <3>1, <3>2
  <2>3. CASE x.kind \notin {"fill", "act"}
    <3>1. held' = held
      BY <2>3, <1>1
    <3>2. \A leaf \in Leaves : HeldAfter(n + 1, leaf) = HeldAfter(n, leaf)
      BY <2>3, <1>8
    <3> QED
      BY <3>1, <3>2, <1>2, <1>4
  <2> QED
    BY <2>1, <2>2, <2>3
<1>10. Leaves' = Leaves /\ \A k, leaf : HeldAfter(k, leaf)' = HeldAfter(k, leaf)
  BY <1>1, BSame, HeldSame
<1>11. held' = [leaf \in Leaves' |-> HeldAfter(Len(ran), leaf)']
  BY <1>6, <1>9, <1>10
<1>12. chain' = (Ignoring \o Assembled)'
  BY <1>1, <1>2, ChainSame
<1>13. Len(ran') \in 0 .. Len(chain') /\ ran' = SubSeq(chain', 1, Len(ran'))
  <2>1. Len(chain') = Len(chain) /\ n + 1 \in 0 .. Len(chain)
    BY <1>1, <1>3, <1>5
  <2>2. Len(ran') \in 0 .. Len(chain')
    BY <2>1, <1>6
  <2>3. ran' = SubSeq(chain', 1, Len(ran'))
    BY <1>6
  <2> QED
    BY <2>2, <2>3
<1> QED
  BY <1>1, <1>11, <1>12, <1>13 DEF Chained

LEMMA ChainedFinish ==
  ASSUME Typed, Chained, Finish
  PROVE  Chained'
<1>1. /\ phase = "run" /\ phase' = "done" /\ ran = chain /\ b' = b /\ chain' = chain
      /\ inputs' = inputs /\ reflectives' = reflectives /\ ran' = ran /\ held' = held
  BY DEF Finish, walkVars
<1>2. Leaves' = Leaves /\ \A k, leaf : HeldAfter(k, leaf)' = HeldAfter(k, leaf)
  BY <1>1, BSame, HeldSame
<1>3. chain' = (Ignoring \o Assembled)'
  BY <1>1, ChainSame DEF Chained
<1>4. held' = [leaf \in Leaves' |-> HeldAfter(Len(ran), leaf)']
  BY <1>1, <1>2 DEF Chained
<1> QED
  BY <1>1, <1>3, <1>4 DEF Chained

-----------------------------------------------------------------------------
LEMMA Initially ==
  ASSUME Init
  PROVE  IInv
<1>1. /\ b \in Builders /\ phase = "start" /\ flags = NoFlags /\ inputs = <<>> /\ reflectives = <<>>
      /\ held = [leaf \in Leaves |-> Kept(leaf)] /\ ran = <<>>
  BY DEF Init, Kept
<1>2. Typed
  <2>1. flags \in [skip : BOOLEAN, noSkip : BOOLEAN, whole : BOOLEAN, hardSkip : BOOLEAN]
    BY <1>1 DEF NoFlags
  <2>2. inputs \in Seq(Dispositions) /\ reflectives \in Seq(Acts)
    BY <1>1
  <2> QED
    BY <1>1, <2>1, <2>2 DEF Typed
<1>3. Walk /\ Told /\ Chained
  BY <1>1 DEF Walk, Told, Chained, Walking
<1>4. \A p : ~Past(p) /\ \A k : ~Seen(p, k)
  BY <1>1 DEF Past, Seen, Later, Walking
<1>5. DOMAIN reflectives = {} /\ DOMAIN inputs = {}
  BY <1>1
<1>6. Acted
  <2>1. PICK step : step = [i \in {} |-> 0]
    OBVIOUS
  <2>2. step \in [DOMAIN reflectives -> Nat]
    BY <2>1, <1>5
  <2>3. Numbered(step)
    BY <1>4, <1>5 DEF Numbered
  <2> QED
    BY <2>2, <2>3 DEF Acted
<1>7. Taking
  BY <1>4, <1>5 DEF Taking
<1> QED
  BY <1>2, <1>3, <1>6, <1>7 DEF IInv

(* Once the walk is over, nothing is looked at any more.                   *)
LEMMA LaterSteady ==
  ASSUME phase \in Later, phase' \in Later
  PROVE  Steady /\ SeenSame
<1>1. phase # "steps" /\ phase' # "steps"
  BY DEF Later
<1>2. Steady
  BY <1>1 DEF Steady, Past
<1> QED
  BY <1>1, <1>2, SeenOutside

LEMMA Failing ==
  ASSUME IInv, Fail
  PROVE  IInv'
<1>1. phase' = "error" /\ b' = b /\ flags' = flags /\ inputs' = inputs /\ reflectives' = reflectives
  BY DEF Fail, walkVars
<1>2. Typed'
  BY <1>1 DEF IInv, Typed
<1> QED
  BY <1>1, <1>2 DEF IInv, Walk, Told, Acted, Taking, Chained, Walking

(* A step of the walk.                                                     *)
LEMMA WalkStep ==
  ASSUME IInv, b' = b, ran' = ran, held' = held,
         phase \in {"start"} \cup Walking, phase' \in Walking \cup {"chain"},
         flags' \in [skip : BOOLEAN, noSkip : BOOLEAN, whole : BOOLEAN, hardSkip : BOOLEAN],
         inputs' \in Seq(Dispositions), reflectives' \in Seq(Acts), Walk', Told', Acted', Taking'
  PROVE  IInv'
<1>1. Typed'
  BY DEF IInv, Typed, Later
<1>2. Chained'
  BY ChainedSame DEF IInv, Walking
<1> QED
  BY <1>1, <1>2 DEF IInv

LEMMA Inductive ==
  ASSUME AsDocumented, IInv, [Next]_vars
  PROVE  IInv'
<1> USE DEF IInv
<1>0. flags \in [skip : BOOLEAN, noSkip : BOOLEAN, whole : BOOLEAN, hardSkip : BOOLEAN]
      /\ inputs \in Seq(Dispositions) /\ reflectives \in Seq(Acts)
  BY DEF Typed
<1>1. CASE Refuse
  BY <1>1, Failing DEF Refuse
<1>2. CASE Start
  <2>1. /\ phase = "start" /\ phase' \in {"field", "chain"} /\ b' = b /\ flags' = flags
        /\ reflectives' = reflectives /\ ran' = ran /\ held' = held
    BY <1>2 DEF Start
  <2>2. Walk' /\ Steady
    BY <1>2, WalkStart
  <2>3. Acted'
    BY <2>1, <2>2, SeenOutside, ActedKept
  <2>4. Taking' /\ inputs' \in Seq(Dispositions)
    BY <1>2, <2>2, TakingStart
  <2>5. Told'
    BY <2>1 DEF Told
  <2> QED
    BY <1>0, <2>1, <2>2, <2>3, <2>4, <2>5, WalkStep DEF Walking
<1>3. CASE EnterField
  <2>1. /\ phase = "field" /\ phase' \in {"steps", "next"} /\ b' = b /\ inputs' = inputs
        /\ reflectives' = reflectives /\ ran' = ran /\ held' = held /\ flags' = NoFlags
    BY <1>3 DEF EnterField
  <2>2. Walk' /\ Steady /\ Told'
    BY <1>3, WalkEnter, ToldEnter
  <2>3. Acted'
    BY <1>3, <2>1, <2>2, SeenEntered, ActedKept
  <2>4. Taking'
    BY <2>1, <2>2, TakingKept
  <2>5. flags' \in [skip : BOOLEAN, noSkip : BOOLEAN, whole : BOOLEAN, hardSkip : BOOLEAN]
    BY <2>1 DEF NoFlags
  <2> QED
    BY <1>0, <2>1, <2>2, <2>3, <2>4, <2>5, WalkStep DEF Walking
<1>4. CASE BadWord
  BY <1>4, Failing DEF BadWord
<1>5. ASSUME phase = "steps", phase' = "steps", pending # <<>>, pending' = Tail(pending), b' = b, at' = at
      PROVE  Walk' /\ Steady
  <2>1. Dom' = Dom /\ \A p : FieldAt(p)' = FieldAt(p) /\ Opened(p)' = Opened(p)
    BY <1>5, BSame
  <2>2. Above(at)' = Above(at)
    BY <1>5 DEF Above
  <2>3. Walk'
    BY <1>5, <2>1, <2>2 DEF Walk, Walking
  <2>4. Steady
    BY <1>5 DEF Steady, Past
  <2> QED
    BY <2>3, <2>4
<1>6. CASE ReadWord
  <2>1. /\ phase = "steps" /\ phase' = "steps" /\ pending # <<>> /\ pending' = Tail(pending) /\ b' = b /\ at' = at
        /\ inputs' = inputs /\ reflectives' = reflectives /\ ran' = ran /\ held' = held /\ Head1.by = "word"
    BY <1>6 DEF ReadWord, At
  <2>2. Told' /\ flags' \in [skip : BOOLEAN, noSkip : BOOLEAN, whole : BOOLEAN, hardSkip : BOOLEAN]
    BY <1>6, ToldRead
  <2>3. Had + 1 \notin Applied(at)
    BY <2>1, NextCounts DEF ActionSteps
  <2>4. Walk' /\ Steady
    BY <1>5, <2>1
  <2>5. Acted'
    BY <2>1, <2>3, SeenPassed, ActedKept
  <2>6. Taking'
    BY <2>1, <2>4, TakingKept
  <2> QED
    BY <1>0, <2>1, <2>2, <2>4, <2>5, <2>6, WalkStep DEF Walking
<1>7. CASE BadAction
  BY <1>7, Failing DEF BadAction
<1>8. CASE PassAction
  <2>1. /\ phase = "steps" /\ phase' = "steps" /\ pending # <<>> /\ pending' = Tail(pending) /\ b' = b /\ at' = at
        /\ inputs' = inputs /\ reflectives' = reflectives /\ ran' = ran /\ held' = held /\ flags' = flags
    BY <1>8 DEF PassAction, At
  <2>2. Told' /\ Had + 1 \notin Applied(at)
    BY <1>8, ToldPass
  <2>3. Walk' /\ Steady
    BY <1>5, <2>1
  <2>4. Acted'
    BY <2>1, <2>2, SeenPassed, ActedKept
  <2>5. Taking'
    BY <2>1, <2>3, TakingKept
  <2> QED
    BY <1>0, <2>1, <2>2, <2>3, <2>4, <2>5, WalkStep DEF Walking
<1>9. CASE AddAction
  <2>1. /\ phase = "steps" /\ phase' = "steps" /\ pending # <<>> /\ pending' = Tail(pending) /\ b' = b /\ at' = at
        /\ inputs' = inputs /\ ran' = ran /\ held' = held
    BY <1>9 DEF AddAction, At
  <2>2. /\ Told' /\ flags' \in [skip : BOOLEAN, noSkip : BOOLEAN, whole : BOOLEAN, hardSkip : BOOLEAN]
        /\ reflectives' = Append(reflectives, Entry(at, Had + 1)) /\ Entry(at, Had + 1) \in Acts
    BY <1>9, ToldAdd
  <2>3. reflectives' \in Seq(Acts)
    BY <1>0, <2>2, AppendProperties
  <2>4. Walk' /\ Steady
    BY <1>5, <2>1
  <2>5. Acted'
    BY <1>9, ActedAdded
  <2>6. Taking'
    BY <2>1, <2>4, TakingKept
  <2> QED
    BY <1>0, <2>1, <2>2, <2>3, <2>4, <2>5, <2>6, WalkStep DEF Walking
<1>10. CASE Skip
  <2>1. /\ phase = "steps" /\ phase' = "next" /\ pending = <<>> /\ flags.skip /\ b' = b /\ at' = at /\ flags' = flags
        /\ inputs' = inputs /\ reflectives' = reflectives /\ ran' = ran /\ held' = held
    BY <1>10 DEF Skip, walkVars
  <2>2. ~Fills(at) /\ ~Opened(at)
    BY <2>1, AtEnd DEF Opened
  <2>3. Walk' /\ Steady
    BY <2>1, <2>2, WalkLeave
  <2>4. Acted'
    BY <2>1, <2>3, SeenLeft, ActedKept
  <2>5. Taking'
    BY <2>1, <2>2, <2>3, TakingKept DEF Filled
  <2>6. Told'
    BY <2>1 DEF Told
  <2> QED
    BY <1>0, <2>1, <2>3, <2>4, <2>5, <2>6, WalkStep DEF Walking
<1>11. CASE Descend
  <2>1. /\ phase = "steps" /\ phase' \in {"field", "next"} /\ pending = <<>> /\ b' = b /\ flags' = flags
        /\ inputs' = inputs /\ reflectives' = reflectives /\ ran' = ran /\ held' = held
        /\ FieldAt(at).struct /\ ~flags.skip /\ ~flags.whole
    BY <1>11 DEF Descend
  <2>2. Opened(at)
    BY <2>1, AtEnd
  <2>3. Walk' /\ Steady
    BY <1>11, WalkDescend
  <2>4. Acted'
    BY <2>1, <2>3, SeenLeft, ActedKept
  <2>5. Taking'
    BY <2>1, <2>2, <2>3, TakingKept DEF Filled
  <2>6. Told'
    BY <2>1 DEF Told
  <2> QED
    BY <1>0, <2>1, <2>3, <2>4, <2>5, <2>6, WalkStep DEF Walking
<1>12. CASE TakeInput
  <2>1. /\ phase = "steps" /\ phase' = "next" /\ pending = <<>> /\ b' = b /\ at' = at /\ flags' = flags
        /\ reflectives' = reflectives /\ ran' = ran /\ held' = held /\ (FieldAt(at).struct => flags.whole)
    BY <1>12 DEF TakeInput
  <2>2. ~Opened(at)
    BY <2>1, AtEnd
  <2>3. Walk' /\ Steady
    BY <2>1, <2>2, WalkLeave
  <2>4. Acted'
    BY <2>1, <2>3, SeenLeft, ActedKept
  <2>5. Taking' /\ inputs' \in Seq(Dispositions)
    BY <1>12, <2>3, TakingAdded
  <2>6. Told'
    BY <2>1 DEF Told
  <2> QED
    BY <1>0, <2>1, <2>3, <2>4, <2>5, <2>6, WalkStep DEF Walking
<1>13. CASE MoveOn
  <2>1. /\ phase = "next" /\ phase' \in {"field", "next", "chain"} /\ b' = b /\ flags' = flags
        /\ inputs' = inputs /\ reflectives' = reflectives /\ ran' = ran /\ held' = held
    BY <1>13 DEF MoveOn
  <2>2. Walk' /\ Steady
    BY <1>13, WalkMoveOn
  <2>3. Acted'
    BY <2>1, <2>2, SeenOutside, ActedKept
  <2>4. Taking'
    BY <2>1, <2>2, TakingKept
  <2>5. Told'
    BY <2>1 DEF Told
  <2> QED
    BY <1>0, <2>1, <2>2, <2>3, <2>4, <2>5, WalkStep DEF Walking
<1>14. CASE NoMethod
  BY <1>14, Failing DEF NoMethod
<1>15. ASSUME phase \in Later, phase' \in Later, b' = b, flags' = flags, inputs' = inputs, reflectives' = reflectives
       PROVE  Typed' /\ Walk' /\ Told' /\ Acted' /\ Taking'
  <2>1. phase # "steps" /\ phase # "error" /\ phase' # "steps" /\ phase' \notin Walking /\ phase' # "error"
    BY <1>15 DEF Later, Walking
  <2>2. Steady /\ SeenSame
    BY <1>15, LaterSteady
  <2>3. Acted' /\ Taking'
    BY <1>15, <2>1, <2>2, ActedKept, TakingKept
  <2>4. Typed'
    BY <1>15 DEF Typed
  <2> QED
    BY <2>1, <2>3, <2>4 DEF Walk, Told
<1>16. CASE Assemble
  <2>1. /\ phase \in Later /\ phase' \in Later
        /\ b' = b /\ flags' = flags /\ inputs' = inputs /\ reflectives' = reflectives
    BY <1>16 DEF Assemble, walkVars, Later
  <2> QED
    BY <1>15, <1>16, <2>1, ChainedStart
<1>17. CASE RunNext
  <2>1. /\ phase \in Later /\ phase' \in Later
        /\ b' = b /\ flags' = flags /\ inputs' = inputs /\ reflectives' = reflectives
    BY <1>17 DEF RunNext, walkVars, Later
  <2> QED
    BY <1>15, <1>17, <2>1, ChainedRun
<1>18. CASE Finish
  <2>1. /\ phase \in Later /\ phase' \in Later
        /\ b' = b /\ flags' = flags /\ inputs' = inputs /\ reflectives' = reflectives
    BY <1>18 DEF Finish, walkVars, Later
  <2> QED
    BY <1>15, <1>18, <2>1, ChainedFinish
<1>19. CASE UNCHANGED vars
  <2>1. /\ b' = b /\ phase' = phase /\ at' = at /\ pending' = pending /\ flags' = flags /\ inputs' = inputs
        /\ reflectives' = reflectives /\ chain' = chain /\ held' = held /\ ran' = ran
    BY <1>19 DEF vars
  <2>2. \A p : (Past(p)' <=> Past(p)) /\ \A k : Seen(p, k)' <=> Seen(p, k)
    BY <2>1, BSame DEF Past, Seen, Had
  <2>3. Steady /\ SeenSame
    BY <2>1, <2>2 DEF Steady, SeenSame
  <2>4. CASE phase = "error"
    BY <2>1, <2>4 DEF Typed, Walk, Told, Acted, Taking, Chained, Walking
  <2>5. CASE phase # "error"
    <3>1. Acted' /\ Taking'
      BY <2>1, <2>3, <2>5, ActedKept, TakingKept
    <3>2. Typed'
      BY <2>1 DEF Typed
    <3>3. Walk'
      <4>1. Dom' = Dom /\ \A p : FieldAt(p)' = FieldAt(p) /\ Opened(p)' = Opened(p)
        BY <2>1, BSame
      <4>2. Above(at)' = Above(at)
        BY <2>1 DEF Above
      <4> QED
        BY <2>1, <4>1, <4>2 DEF Walk
    <3>4. Told'
      <4>1. StepsAt(at)' = StepsAt(at) /\ Had' = Had
        BY <2>1, BSame DEF Had
      <4>2. FillsTo(at, Had)' = FillsTo(at, Had) /\ WholeTo(at, Had)' = WholeTo(at, Had)
        BY <2>1, <4>1, BSame
      <4> QED
        BY <2>1, <4>1, <4>2 DEF Told
    <3>5. Chained'
      <4>1. Leaves' = Leaves /\ \A p : Kept(p)' = Kept(p)
        BY <2>1, BSame
      <4>2. \A n, leaf : HeldAfter(n, leaf)' = HeldAfter(n, leaf)
        BY <2>1, HeldSame
      <4>3. Ignoring' = Ignoring /\ Assembled' = Assembled
        BY <2>1, ChainSame
      <4> QED
        BY <2>1, <4>1, <4>2, <4>3 DEF Chained
    <3> QED
      BY <3>1, <3>2, <3>3, <3>4, <3>5
  <2> QED
    BY <2>4, <2>5
<1> QED
  BY <1>1, <1>2, <1>3, <1>4, <1>6, <1>7, <1>8, <1>9, <1>10, <1>11, <1>12, <1>13, <1>14, <1>16, <1>17, <1>18,
     <1>19 DEF Next

(* The walk and what it collects, at every moment of MakeStructBuilder:    *)
(* the flags for a field are what its tag and its actions say, the actions *)
(* and the inputs are those of the fields it came to (filler.go:202-328),  *)
(* and the struct is what was done to it.                                  *)
THEOREM Invariance == AsDocumented => (Spec => []IInv)
<1> SUFFICES ASSUME AsDocumented PROVE Spec => []IInv
  OBVIOUS
<1>1. Init => IInv
  BY Initially
<1>2. IInv /\ [Next]_vars => IInv'
  BY Inductive
<1> QED
  BY <1>1, <1>2, PTL DEF Spec

-----------------------------------------------------------------------------
(* What there is when the walk is over.                                    *)
ActsAre(r, step) ==
  /\ \A i \in 1 .. r : \E p \in Dom :
       p = reflectives[i].path /\ Reached(p) /\ step[i] \in Applied(p) /\ reflectives[i] = Entry(p, step[i])
  /\ \A i, j \in 1 .. r :
       i < j => IF reflectives[i].path = reflectives[j].path THEN step[i] < step[j]
                ELSE ~Pre(reflectives[j].path, reflectives[i].path)
  /\ \A p \in Dom : Reached(p) => \A k \in Applied(p) : \E i \in 1 .. r : reflectives[i].path = p /\ step[i] = k

LEMMA Collected ==
  ASSUME IInv, phase = "done"
  PROVE  /\ b \in Builders /\ ran = chain /\ held = [leaf \in Leaves |-> HeldAfter(Len(chain), leaf)]
         /\ \E g \in 0 .. 1, r \in Nat, m \in Nat : ChainOf(g, r, m) /\ \E step \in [1 .. r -> Nat] : ActsAre(r, step)
<1>1. Typed /\ ran = chain /\ chain = Ignoring \o Assembled /\ b \in Builders
      /\ held = [leaf \in Leaves |-> HeldAfter(Len(ran), leaf)]
  BY DEF IInv, Chained, Typed
<1>2. PICK g \in 0 .. 1, r \in Nat, m \in Nat : ChainOf(g, r, m)
  BY <1>1, ChainKinds
<1>3. DOMAIN reflectives = 1 .. r
  BY <1>2 DEF ChainOf
<1>4. PICK step \in [1 .. r -> Nat] : Numbered(step)
  BY <1>3 DEF IInv, Acted
<1>5. \A p, k : Seen(p, k)
  BY DEF Seen, Past, Later
<1>6. ActsAre(r, step)
  <2>1. \A i \in 1 .. r : \E p \in Dom :
          p = reflectives[i].path /\ Reached(p) /\ step[i] \in Applied(p) /\ reflectives[i] = Entry(p, step[i])
    BY <1>3, <1>4 DEF Numbered
  <2>2. \A i, j \in 1 .. r :
          i < j => IF reflectives[i].path = reflectives[j].path THEN step[i] < step[j]
                   ELSE ~Pre(reflectives[j].path, reflectives[i].path)
    BY <1>3, <1>4 DEF Numbered
  <2>3. \A p \in Dom : Reached(p) => \A k \in Applied(p) : \E i \in 1 .. r : reflectives[i].path = p /\ step[i] = k
    BY <1>3, <1>4, <1>5 DEF Numbered
  <2> QED
    BY <2>1, <2>2, <2>3 DEF ActsAre
<1> QED
  BY <1>1, <1>2, <1>6

(* The last members of the chain are the methods. *)
LEMMA MethodsLast ==
  ASSUME Typed, NEW g \in 0 .. 1, NEW r \in Nat, NEW m \in Nat, ChainOf(g, r, m)
  PROVE  SubSeq(chain, Len(chain) - Len(Methods) + 1, Len(chain)) = Methods
<1> DEFINE lo == g + 1 + r + 1
           hi == g + 1 + r + m
<1>1. Len(chain) - Len(Methods) + 1 = lo /\ Len(chain) = hi /\ lo \in Int /\ hi \in Int /\ lo \in Nat \ {0}
  BY DEF ChainOf
<1>2. chain \in Seq(Members) /\ Methods \in Seq(Members) /\ Len(Methods) = m
      /\ \A i \in 1 .. m : chain[g + 1 + r + i] = Methods[i]
  BY ChainIs DEF ChainOf
<1> DEFINE s == SubSeq(chain, lo, hi)
<1>3. /\ s \in Seq(Members) /\ Len(s) = (IF lo <= hi THEN hi - lo + 1 ELSE 0)
      /\ \A i \in 1 .. hi - lo + 1 : s[i] = chain[lo + i - 1]
  <2>1. \A i \in lo .. hi : i \in 1 .. Len(chain)
    BY <1>1
  <2>2. \A i \in lo .. hi : chain[i] \in Members
    BY <2>1, <1>2, ElementOfSeq
  <2> QED
    BY <1>1, <2>2, SubSeqProperties
<1>4. hi - lo + 1 = m /\ Len(s) = m
  BY <1>1, <1>3
<1>5. \A i \in 1 .. m : s[i] = Methods[i]
  <2> SUFFICES ASSUME NEW i \in 1 .. m PROVE s[i] = Methods[i]
    OBVIOUS
  <2>1. lo + i - 1 = g + 1 + r + i
    OBVIOUS
  <2>2. s[i] = chain[lo + i - 1]
    BY <1>3, <1>4
  <2> QED
    BY <2>1, <2>2, <1>2
<1> HIDE DEF s
<1>6. s = Methods
  BY <1>2, <1>3, <1>4, <1>5, SeqEqual
<1> QED
  BY <1>1, <1>6 DEF s

LEMMA Ordered ==
  ASSUME IInv
  PROVE  ActionsInOrder
<1> SUFFICES ASSUME phase = "done" PROVE ActionsInOrder
  BY DEF ActionsInOrder
<1>1. b \in Builders /\ ran = chain /\ Typed
  BY Collected DEF IInv
<1>2. PICK g \in 0 .. 1, r \in Nat, m \in Nat : ChainOf(g, r, m) /\ \E step \in [1 .. r -> Nat] : ActsAre(r, step)
  BY Collected
<1>3. PICK step \in [1 .. r -> Nat] : ActsAre(r, step)
  BY <1>2
<1> DEFINE N == g + 1 + r + m
           acts == {k \in DOMAIN ran : ran[k].kind = "act"}
           Of(p) == {k \in acts : ran[k].path = p}
<1>4. /\ DOMAIN ran = 1 .. N /\ Len(ran) = N /\ Len(Methods) = m
      /\ ran[g + 1].kind = "fill"
      /\ \A i \in 1 .. r : ran[g + 1 + i] = reflectives[i] /\ ran[g + 1 + i].kind = "act"
  BY <1>1, <1>2 DEF ChainOf
<1>5. ASSUME NEW k \in 1 .. N
      PROVE  /\ ran[k].kind = "act" => k > g + 1 /\ \E i \in 1 .. r : k = g + 1 + i /\ ran[k] = reflectives[i]
             /\ ran[k].kind = "method" => k > g + 1 + r
  BY <1>1, <1>2, <1>5, ChainMember
<1>6. ASSUME NEW k \in acts
      PROVE  /\ \E l \in 1 .. k : ran[l].kind = "fill"
             /\ \A l \in 1 .. k : ran[l].kind # "method"
  <2>1. k \in 1 .. N
    BY <1>4
  <2>2. PICK i \in 1 .. r : k = g + 1 + i
    BY <1>5, <2>1
  <2>3. g + 1 \in 1 .. k /\ \A l \in 1 .. k : l \in 1 .. N /\ ~(l > g + 1 + r)
    BY <2>2
  <2>4. \A l \in 1 .. k : ran[l].kind # "method"
    BY <2>3, <1>5
  <2> QED
    BY <2>3, <2>4, <1>4
<1>7. ASSUME NEW p \in Dom
      PROVE  /\ \A k, l \in Of(p) : k < l => Rank(ran[k].by) <= Rank(ran[l].by)
             /\ Cardinality(Of(p)) = IF Reached(p) THEN Cardinality(Applied(p)) ELSE 0
  <2>1. ASSUME NEW k \in Of(p)
        PROVE  \E i \in 1 .. r : /\ k = g + 1 + i /\ ran[k] = reflectives[i] /\ reflectives[i].path = p
                                 /\ Reached(p) /\ step[i] \in Applied(p) /\ reflectives[i] = Entry(p, step[i])
    <3>1. k \in 1 .. N /\ ran[k].path = p /\ ran[k].kind = "act"
      BY <1>4
    <3>2. PICK i \in 1 .. r : k = g + 1 + i /\ ran[k] = reflectives[i]
      BY <1>5, <3>1
    <3>3. PICK q \in Dom : q = reflectives[i].path /\ Reached(q) /\ step[i] \in Applied(q)
                           /\ reflectives[i] = Entry(q, step[i])
      BY <1>3 DEF ActsAre
    <3>4. q = p
      BY <3>1, <3>2, <3>3
    <3> QED
      BY <3>2, <3>3, <3>4
  <2>2. /\ StepsAt(p) \in Seq(Step) /\ Len(StepsAt(p)) \in Nat /\ Applied(p) \subseteq 1 .. Len(StepsAt(p))
        /\ Ranked(StepsAt(p), 1, 3)
    BY <1>1, ToldInAll, StepsAre DEF StepsAt
  <2>3. \A k \in Applied(p) : StepsAt(p)[k].by \in ActionSteps
    BY DEF Applied, StepsAt, ActionSteps
  <2>4. ASSUME NEW k \in Of(p), NEW l \in Of(p), k < l PROVE Rank(ran[k].by) <= Rank(ran[l].by)
    <3>1. PICK i \in 1 .. r : /\ k = g + 1 + i /\ ran[k] = reflectives[i] /\ reflectives[i].path = p
                              /\ step[i] \in Applied(p) /\ reflectives[i] = Entry(p, step[i])
      BY <2>1
    <3>2. PICK j \in 1 .. r : /\ l = g + 1 + j /\ ran[l] = reflectives[j] /\ reflectives[j].path = p
                              /\ step[j] \in Applied(p) /\ reflectives[j] = Entry(p, step[j])
      BY <2>1
    <3>3. i < j
      BY <2>4, <3>1, <3>2
    <3>4. step[i] < step[j]
      BY <1>3, <3>1, <3>2, <3>3 DEF ActsAre
    <3>5. ran[k].by = StepsAt(p)[step[i]].by /\ ran[l].by = StepsAt(p)[step[j]].by
      BY <3>1, <3>2 DEF Entry
    <3>6. Rank(StepsAt(p)[step[i]].by) <= Rank(StepsAt(p)[step[j]].by)
      <4>1. step[i] \in 1 .. Len(StepsAt(p)) /\ step[j] \in 1 .. Len(StepsAt(p))
        BY <2>2, <3>1, <3>2
      <4>2. StepsAt(p)[step[i]].by \in ActionSteps /\ StepsAt(p)[step[j]].by \in ActionSteps
        BY <2>3, <3>1, <3>2
      <4> QED
        BY <4>1, <4>2, <2>2, <3>4 DEF Ranked
    <3> QED
      BY <3>5, <3>6
  <2>5. ASSUME Reached(p) PROVE Cardinality(Of(p)) = Cardinality(Applied(p))
    <3> DEFINE S == Of(p)
               T == Applied(p)
    <3>1. PICK f : f = [k \in S |-> step[k - (g + 1)]]
      OBVIOUS
    <3>2. ASSUME NEW k \in S
          PROVE  \E i \in 1 .. r : k = g + 1 + i /\ f[k] = step[i] /\ reflectives[i].path = p /\ step[i] \in T
      <4>1. PICK i \in 1 .. r : k = g + 1 + i /\ reflectives[i].path = p /\ step[i] \in T
        BY <2>1
      <4>2. k - (g + 1) = i
        BY <4>1
      <4> QED
        BY <4>1, <4>2, <3>1
    <3>3. f \in [S -> T]
      BY <3>1, <3>2
    <3>4. ASSUME NEW k \in S, NEW l \in S, f[k] = f[l] PROVE k = l
      <4>1. PICK i \in 1 .. r : k = g + 1 + i /\ f[k] = step[i] /\ reflectives[i].path = p
        BY <3>2
      <4>2. PICK j \in 1 .. r : l = g + 1 + j /\ f[l] = step[j] /\ reflectives[j].path = p
        BY <3>2
      <4>3. ~(i < j) /\ ~(j < i)
        <5>1. step[i] = step[j] /\ step[i] \in Nat /\ reflectives[i].path = reflectives[j].path
          BY <3>4, <4>1, <4>2
        <5>2. i < j => step[i] < step[j]
          BY <1>3, <5>1 DEF ActsAre
        <5>3. j < i => step[j] < step[i]
          BY <1>3, <5>1 DEF ActsAre
        <5> QED
          BY <5>1, <5>2, <5>3
      <4> QED
        BY <4>1, <4>2, <4>3
    <3>5. ASSUME NEW t \in T PROVE \E k \in S : f[k] = t
      <4>1. PICK i \in 1 .. r : reflectives[i].path = p /\ step[i] = t
        BY <1>3, <2>5 DEF ActsAre
      <4>2. PICK k : k = g + 1 + i
        OBVIOUS
      <4>3. k \in 1 .. N /\ k - (g + 1) = i
        BY <4>2
      <4>4. k \in S
        BY <1>4, <4>1, <4>2, <4>3
      <4> QED
        BY <3>1, <4>1, <4>3, <4>4
    <3>6. IsFiniteSet(S)
      <4>1. S \subseteq 1 .. N
        BY <1>4
      <4>2. IsFiniteSet(1 .. N)
        BY FS_Interval
      <4> HIDE DEF S, N
      <4> QED
        BY <4>1, <4>2, FS_Subset
    <3> HIDE DEF S, T
    <3>7. ExistsBijection(S, T)
      <4>1. f \in Injection(S, T)
        BY <3>3, <3>4 DEF Injection, IsInjective
      <4>2. f \in Surjection(S, T)
        BY <3>3, <3>5 DEF Surjection
      <4> QED
        BY <4>1, <4>2 DEF Bijection, ExistsBijection
    <3>8. Cardinality(T) = Cardinality(S)
      BY <3>6, <3>7, FS_Bijection
    <3> QED
      BY <3>8 DEF S, T
  <2>6. ASSUME ~Reached(p) PROVE Cardinality(Of(p)) = 0
    <3>1. Of(p) = {}
      BY <2>1, <2>6
    <3> QED
      BY <3>1, FS_EmptySet
  <2> QED
    BY <2>4, <2>5, <2>6
<1>8. SubSeq(ran, Len(ran) - Len(Methods) + 1, Len(ran)) = Methods
  BY <1>1, <1>2, MethodsLast
<1>9. \A k \in DOMAIN ran : ran[k].kind = "method" => k > Len(ran) - Len(Methods)
  <2>1. N - m = g + 1 + r
    OBVIOUS
  <2> QED
    BY <2>1, <1>4, <1>5
<1> QED
  BY <1>6, <1>7, <1>8, <1>9 DEF ActionsInOrder, Dom

-----------------------------------------------------------------------------
(* What a leaf ends with.                                                  *)
ReachedOver(leaf) == {p \in Above(leaf) : Reached(p)}
PointedOver(leaf) == UNION {{<<Len(p), k>> : k \in {l \in Applied(p) : Pointed(p, l)}} : p \in ReachedOver(leaf)}
FilledOver(leaf) == {p \in ReachedOver(leaf) : Fills(p) /\ ~Opened(p)}
Latest(x, K) == \A y \in K : y[1] < x[1] \/ (y[1] = x[1] /\ y[2] <= x[2])

LEMMA OverIs ==
  ASSUME b \in Builders, NEW leaf \in Leaves
  PROVE  /\ leaf \in Path /\ leaf \in Dom
         /\ \A p : p \in ReachedOver(leaf) <=> p \in Dom /\ Pre(p, leaf) /\ Reached(p)
         /\ \A p \in Path : leaf \in Under(p) <=> Pre(p, leaf)
<1>1. leaf \in Path /\ leaf \in Dom
  BY FieldsAre DEF Leaves, Dom
<1>2. \A p : p \in ReachedOver(leaf) <=> p \in Dom /\ Pre(p, leaf) /\ Reached(p)
  <2>1. ASSUME NEW p \in ReachedOver(leaf) PROVE p \in Dom /\ Pre(p, leaf) /\ Reached(p)
    <3>1. p \in Path /\ Pre(p, leaf) /\ Reached(p)
      BY <1>1, AboveIs DEF ReachedOver
    <3> QED
      BY <3>1, <1>1, FieldsAre
  <2>2. ASSUME NEW p \in Dom, Pre(p, leaf), Reached(p) PROVE p \in ReachedOver(leaf)
    <3>1. p \in Path
      BY FieldsAre
    <3> QED
      BY <3>1, <2>2, <1>1, AboveIs DEF ReachedOver
  <2> QED
    BY <2>1, <2>2
<1>3. \A p \in Path : leaf \in Under(p) <=> Pre(p, leaf)
  BY <1>1, PrefixIs DEF Under
<1> QED
  BY <1>1, <1>2, <1>3

(* The last action that changes a leaf is the last one, of the innermost   *)
(* field, that got the address.                                            *)
LEMMA LastPointed ==
  ASSUME b \in Builders, NEW leaf \in Leaves,
         NEW g \in 0 .. 1, NEW r \in Nat, NEW m \in Nat, ChainOf(g, r, m),
         NEW step \in [1 .. r -> Nat], ActsAre(r, step)
  PROVE  /\ Changing(Len(chain), leaf) = {} <=> PointedOver(leaf) = {}
         /\ Changing(Len(chain), leaf) # {} =>
              \E p \in ReachedOver(leaf) : \E k \in Applied(p) :
                /\ Pointed(p, k) /\ chain[Max(Changing(Len(chain), leaf))] = Entry(p, k)
                /\ Latest(<<Len(p), k>>, PointedOver(leaf))
<1> DEFINE N == g + 1 + r + m
           C == Changing(Len(chain), leaf)
           K == PointedOver(leaf)
<1>1. Len(chain) = N /\ N \in Nat
  BY DEF ChainOf
<1>2. \A i \in 1 .. r : chain[g + 1 + i] = reflectives[i] /\ chain[g + 1 + i].kind = "act" /\ g + 1 + i \in 1 .. N
  BY DEF ChainOf
<1>3. ASSUME NEW k \in C
      PROVE  \E i \in 1 .. r : \E p \in ReachedOver(leaf) :
               /\ k = g + 1 + i /\ chain[k] = Entry(p, step[i]) /\ step[i] \in Applied(p) /\ Pointed(p, step[i])
               /\ reflectives[i].path = p
  <2>1. k \in 1 .. N /\ chain[k].kind = "act" /\ chain[k].pointer /\ leaf \in Under(chain[k].path)
    BY <1>1 DEF Changing
  <2>2. PICK i \in 1 .. r : k = g + 1 + i /\ chain[k] = reflectives[i]
    BY <2>1, ChainMember
  <2>3. PICK p \in Dom : p = reflectives[i].path /\ Reached(p) /\ step[i] \in Applied(p) /\ reflectives[i] = Entry(p, step[i])
    BY DEF ActsAre
  <2>4. p \in Path
    BY FieldsAre
  <2>5. p \in ReachedOver(leaf)
    BY <2>1, <2>2, <2>3, <2>4, OverIs
  <2>6. Pointed(p, step[i])
    BY <2>1, <2>2, <2>3 DEF Entry
  <2> QED
    BY <2>2, <2>3, <2>5, <2>6
<1>4. ASSUME NEW p \in ReachedOver(leaf), NEW k \in Applied(p), Pointed(p, k)
      PROVE  \E i \in 1 .. r : g + 1 + i \in C /\ reflectives[i].path = p /\ step[i] = k
  <2>1. p \in Dom /\ p \in Path /\ Pre(p, leaf) /\ Reached(p)
    BY OverIs, FieldsAre
  <2>2. PICK i \in 1 .. r : reflectives[i].path = p /\ step[i] = k
    BY <2>1 DEF ActsAre
  <2>3. PICK q \in Dom : q = reflectives[i].path /\ reflectives[i] = Entry(q, step[i])
    BY DEF ActsAre
  <2>4. reflectives[i].pointer
    BY <2>2, <2>3, <1>4 DEF Entry
  <2>5. leaf \in Under(p)
    BY <2>1, OverIs
  <2>6. g + 1 + i \in C
    BY <1>1, <1>2, <2>2, <2>4, <2>5 DEF Changing
  <2> QED
    BY <2>2, <2>6
<1>5. \A y : y \in K <=> \E p \in ReachedOver(leaf) : \E k \in Applied(p) : Pointed(p, k) /\ y = <<Len(p), k>>
  BY DEF PointedOver
<1>6. C = {} <=> K = {}
  <2>1. ASSUME C # {} PROVE K # {}
    <3>1. PICK k \in C : TRUE
      BY <2>1
    <3>2. PICK i \in 1 .. r, p \in ReachedOver(leaf) : step[i] \in Applied(p) /\ Pointed(p, step[i])
      BY <3>1, <1>3
    <3> QED
      BY <3>2, <1>5
  <2>2. ASSUME K # {} PROVE C # {}
    <3>1. PICK p \in ReachedOver(leaf) : \E k \in Applied(p) : Pointed(p, k)
      BY <2>2, <1>5
    <3> QED
      BY <3>1, <1>4
  <2> QED
    BY <2>1, <2>2
<1>7. ASSUME C # {}
      PROVE  \E p \in ReachedOver(leaf) : \E k \in Applied(p) :
                Pointed(p, k) /\ chain[Max(C)] = Entry(p, k) /\ Latest(<<Len(p), k>>, K)
  <2>1. C \in SUBSET (1 .. N)
    BY <1>1 DEF Changing
  <2>2. PICK top \in C : top = Max(C) /\ \A k \in C : k <= top
    <3> HIDE DEF C, N
    <3> QED
      BY <1>1, <1>7, <2>1, MaxOfUpTo
  <2>3. PICK i \in 1 .. r, p \in ReachedOver(leaf) :
          /\ top = g + 1 + i /\ chain[top] = Entry(p, step[i]) /\ step[i] \in Applied(p) /\ Pointed(p, step[i])
          /\ reflectives[i].path = p
    BY <2>2, <1>3
  <2>4. p \in Dom /\ p \in Path /\ Pre(p, leaf) /\ leaf \in Path
    BY OverIs, FieldsAre
  <2>5. ASSUME NEW q \in ReachedOver(leaf), NEW k \in Applied(q), Pointed(q, k)
        PROVE  Len(q) < Len(p) \/ (Len(q) = Len(p) /\ k <= step[i])
    <3>1. q \in Dom /\ q \in Path /\ Pre(q, leaf)
      BY OverIs, FieldsAre
    <3>2. PICK j \in 1 .. r : g + 1 + j \in C /\ reflectives[j].path = q /\ step[j] = k
      BY <2>5, <1>4
    <3>3. j <= i
      <4>1. g + 1 + j <= g + 1 + i
        BY <2>2, <2>3, <3>2
      <4> QED
        BY <4>1
    <3>4. CASE j = i
      <4>1. q = p /\ k = step[i] /\ step[i] \in Nat
        BY <2>3, <3>2, <3>4
      <4> QED
        BY <4>1
    <3>5. CASE j < i /\ q = p
      <4>1. reflectives[j].path = reflectives[i].path /\ step[i] \in Nat /\ step[j] \in Nat
        BY <2>3, <3>2, <3>5
      <4>2. step[j] < step[i]
        BY <4>1, <3>5 DEF ActsAre
      <4> QED
        BY <4>1, <4>2, <3>2, <3>5
    <3>6. CASE j < i /\ q # p
      <4>1. ~Pre(p, q)
        BY <2>3, <3>2, <3>6 DEF ActsAre
      <4>2. Pre(q, p)
        BY <4>1, <3>1, <2>4, PreOrder
      <4>3. Len(q) # Len(p) /\ Len(q) <= Len(p)
        BY <4>2, <3>1, <3>6, <2>4, PathsEqual DEF Pre
      <4>4. Len(q) \in Nat /\ Len(p) \in Nat
        BY <3>1, <2>4, PathLen
      <4> QED
        BY <4>3, <4>4
    <3> QED
      BY <3>3, <3>4, <3>5, <3>6
  <2>6. Latest(<<Len(p), step[i]>>, K)
    <3> SUFFICES ASSUME NEW y \in K
                 PROVE  y[1] < Len(p) \/ (y[1] = Len(p) /\ y[2] <= step[i])
      BY DEF Latest
    <3>0. PICK q \in ReachedOver(leaf) : \E k \in Applied(q) : Pointed(q, k) /\ y = <<Len(q), k>>
      BY <1>5
    <3>1. PICK k \in Applied(q) : Pointed(q, k) /\ y = <<Len(q), k>>
      BY <3>0
    <3>2. y[1] = Len(q) /\ y[2] = k
      BY <3>1
    <3> QED
      BY <3>1, <3>2, <2>5
  <2> QED
    BY <2>2, <2>3, <2>6
<1> QED
  BY <1>6, <1>7

LEMMA Asked ==
  ASSUME IInv
  PROVE  StructAsAsked
<1> SUFFICES ASSUME phase = "done", NEW leaf \in Leaves
             PROVE  held[leaf] =
               IF PointedOver(leaf) # {}
               THEN [from |-> StepsOf(FieldAt(SubSeq(leaf, 1, (CHOOSE x \in PointedOver(leaf) : Latest(x, PointedOver(leaf)))[1])))
                                [(CHOOSE x \in PointedOver(leaf) : Latest(x, PointedOver(leaf)))[2]].action.id]
               ELSE IF FilledOver(leaf) # {}
               THEN [from |-> "chain", type |-> FieldAt(CHOOSE p \in FilledOver(leaf) : TRUE).type]
               ELSE [from |-> IF b.create THEN "zero" ELSE "old"]
  BY DEF StructAsAsked, ReachedOver, PointedOver, FilledOver, Latest
<1>1. b \in Builders /\ held[leaf] = HeldAfter(Len(chain), leaf)
  BY Collected
<1>2. PICK g \in 0 .. 1, r \in Nat, m \in Nat : ChainOf(g, r, m) /\ \E step \in [1 .. r -> Nat] : ActsAre(r, step)
  BY Collected
<1>3. PICK step \in [1 .. r -> Nat] : ActsAre(r, step)
  BY <1>2
<1> DEFINE C == Changing(Len(chain), leaf)
           K == PointedOver(leaf)
           last == CHOOSE x \in K : Latest(x, K)
<1>4. leaf \in Path
  BY <1>1, OverIs
<1>5. C = {} <=> K = {}
  BY <1>1, <1>2, <1>3, LastPointed
<1>6. ASSUME C # {}
      PROVE  held[leaf] = [from |-> StepsOf(FieldAt(SubSeq(leaf, 1, last[1])))[last[2]].action.id]
  <2>0. PICK p \in ReachedOver(leaf) : \E k \in Applied(p) :
          Pointed(p, k) /\ chain[Max(C)] = Entry(p, k) /\ Latest(<<Len(p), k>>, K)
    BY <1>1, <1>2, <1>3, <1>6, LastPointed
  <2>1. PICK k \in Applied(p) : Pointed(p, k) /\ chain[Max(C)] = Entry(p, k) /\ Latest(<<Len(p), k>>, K)
    BY <2>0
  <2>2. p \in Dom /\ p \in Path /\ Pre(p, leaf)
    BY <1>1, OverIs, FieldsAre
  <2>3. k \in Nat /\ Len(p) \in Nat
    BY <1>1, <2>2, AppliedFrom1, PathLen
  <2>4. <<Len(p), k>> \in K
    BY <2>1 DEF PointedOver
  <2>5. \A q : \A l \in Applied(q) : q \in ReachedOver(leaf) => l \in Nat /\ Len(q) \in Nat
    <3> SUFFICES ASSUME NEW q \in ReachedOver(leaf), NEW l \in Applied(q) PROVE l \in Nat /\ Len(q) \in Nat
      OBVIOUS
    <3>1. q \in Dom /\ q \in Path
      BY <1>1, OverIs, FieldsAre
    <3> QED
      BY <1>1, <3>1, AppliedFrom1, PathLen
  <2>6. \A y \in K : \E n \in Nat, l \in Nat : y = <<n, l>>
    BY <2>5 DEF PointedOver
  <2>7. last \in K /\ Latest(last, K)
    <3> HIDE DEF K
    <3>1. \E x \in K : Latest(x, K)
      BY <2>1, <2>4
    <3> QED
      BY <3>1
  <2> HIDE DEF last, K
  <2>8. PICK n \in Nat, l \in Nat : last = <<n, l>>
    BY <2>6, <2>7
  <2>9. last[1] = Len(p) /\ last[2] = k
    <3>1. last[1] < Len(p) \/ (last[1] = Len(p) /\ last[2] <= k)
      BY <2>1, <2>7 DEF Latest
    <3>2. Len(p) < last[1] \/ (Len(p) = last[1] /\ k <= last[2])
      BY <2>4, <2>7 DEF Latest
    <3>3. last[1] = n /\ last[2] = l
      BY <2>8
    <3> QED
      BY <3>1, <3>2, <3>3, <2>3
  <2>10. SubSeq(leaf, 1, Len(p)) = p
    BY <2>2, <1>4, PreIsSub
  <2>11. held[leaf] = [from |-> chain[Max(C)].id]
    <3> HIDE DEF C
    <3>1. HeldAfter(Len(chain), leaf) = [from |-> chain[Max(C)].id]
      BY <1>6 DEF HeldAfter, C
    <3> QED
      BY <3>1, <1>1
  <2>12. chain[Max(C)].id = StepsOf(FieldAt(p))[k].action.id
    BY <2>1 DEF Entry, StepsAt
  <2> QED
    BY <2>9, <2>10, <2>11, <2>12
<1>7. Taking /\ (\A p : Past(p)) /\ inputs \in Seq(Dispositions) /\ phase # "error"
  BY DEF IInv, Typed, Past, Later
<1>8. \A p : p \in FilledOver(leaf) <=> p \in Dom /\ Pre(p, leaf) /\ Filled(p)
  BY <1>1, OverIs DEF FilledOver, Filled
<1>9. \A i \in Loaded(leaf) : \E p \in FilledOver(leaf) : inputs[i].type = FieldAt(p).type
  <2> SUFFICES ASSUME NEW i \in Loaded(leaf) PROVE \E p \in FilledOver(leaf) : inputs[i].type = FieldAt(p).type
    OBVIOUS
  <2>1. i \in DOMAIN inputs /\ inputs[i].mapping # <<>> /\ leaf \in Under(inputs[i].mapping)
    BY DEF Loaded
  <2>2. PICK p \in Dom : p = inputs[i].mapping /\ Filled(p) /\ inputs[i].type = FieldAt(p).type
    BY <1>7, <2>1 DEF Taking
  <2>3. p \in Path /\ Pre(p, leaf)
    BY <1>1, <2>1, <2>2, OverIs, FieldsAre
  <2> QED
    BY <1>8, <2>2, <2>3
<1>10. ASSUME NEW p \in FilledOver(leaf) PROVE Loaded(leaf) # {}
  <2>1. p \in Dom /\ p \in Path /\ Pre(p, leaf) /\ Filled(p)
    BY <1>1, <1>8, FieldsAre
  <2>2. PICK i \in DOMAIN inputs : inputs[i].mapping = p
    BY <1>7, <2>1 DEF Taking
  <2>3. p # <<>> /\ leaf \in Under(p)
    BY <1>1, <2>1, OverIs DEF Path
  <2> QED
    BY <2>2, <2>3 DEF Loaded
<1>11. \A p, q \in FilledOver(leaf) : p = q
  <2> SUFFICES ASSUME NEW p \in FilledOver(leaf), NEW q \in FilledOver(leaf), p # q PROVE FALSE
    OBVIOUS
  <2>1. p \in Path /\ q \in Path /\ Pre(p, leaf) /\ Pre(q, leaf) /\ Filled(p) /\ Filled(q)
    BY <1>1, <1>8, FieldsAre
  <2>2. Pre(p, q) \/ Pre(q, p)
    BY <2>1, <1>4, PreOrder
  <2>3. Opened(p) \/ Opened(q)
    BY <2>1, <2>2, ReachedBelow DEF Filled
  <2> QED
    BY <2>1, <2>3 DEF Filled
<1>12. \E j \in 1 .. Len(chain) : chain[j].kind = "fill"
  <2>1. g + 1 \in 1 .. Len(chain) /\ chain[g + 1].kind = "fill"
    BY <1>2 DEF ChainOf
  <2> QED
    BY <2>1
<1>13. ASSUME C = {}, FilledOver(leaf) # {}
       PROVE  held[leaf] = [from |-> "chain", type |-> FieldAt(CHOOSE p \in FilledOver(leaf) : TRUE).type]
  <2> DEFINE L == Loaded(leaf)
             f == CHOOSE p \in FilledOver(leaf) : TRUE
  <2>1. L # {}
    BY <1>10, <1>13
  <2>2. Max(L) \in L
    <3>1. Len(inputs) \in Nat /\ DOMAIN inputs = 1 .. Len(inputs)
      BY <1>7, LenProperties
    <3>2. L \in SUBSET (1 .. Len(inputs))
      BY <3>1 DEF Loaded
    <3> HIDE DEF L
    <3> QED
      BY <2>1, <3>1, <3>2, MaxOfUpTo
  <2>3. f \in FilledOver(leaf)
    BY <1>13
  <2> HIDE DEF f
  <2>4. inputs[Max(L)].type = FieldAt(f).type
    BY <2>2, <2>3, <1>9, <1>11
  <2>5. HeldAfter(Len(chain), leaf) = [from |-> "chain", type |-> inputs[Max(L)].type]
    <3> HIDE DEF C, L
    <3> QED
      BY <1>12, <1>13, <2>1 DEF HeldAfter, C, L
  <2> QED
    BY <1>1, <2>4, <2>5 DEF f
<1>14. ASSUME C = {}, FilledOver(leaf) = {}
       PROVE  held[leaf] = [from |-> IF b.create THEN "zero" ELSE "old"]
  <2>1. Loaded(leaf) = {}
    BY <1>9, <1>14
  <2>2. HeldAfter(Len(chain), leaf) = Kept(leaf)
    BY <1>14, <2>1 DEF HeldAfter
  <2> QED
    BY <1>1, <2>2 DEF Kept
<1> HIDE DEF C
<1> QED
  BY <1>5, <1>6, <1>13, <1>14

(* Who is called for a field, in which order and when (filler.go:268-304,  *)
(* 330-345): by tag before by name before by type, each that applies once, *)
(* after the struct is filled and before the methods of it, if code and    *)
(* documentation agree on what applies.                                    *)
THEOREM OrderOfActions == AsDocumented => (Spec => []ActionsInOrder)
<1> SUFFICES ASSUME AsDocumented PROVE Spec => []ActionsInOrder
  OBVIOUS
<1>1. IInv => ActionsInOrder
  BY Ordered
<1> QED
  BY <1>1, Invariance, PTL

(* What the parts of the struct are in the end (filler.go:202-328, 370-411 *)
(* and the calls of its actions), for any struct and whatever is said      *)
(* about it on which code and documentation agree.                         *)
THEOREM FilledAsAsked == AsDocumented => (Spec => []StructAsAsked)
<1> SUFFICES ASSUME AsDocumented PROVE Spec => []StructAsAsked
  OBVIOUS
<1>1. IInv => StructAsAsked
  BY Asked
<1> QED
  BY <1>1, Invariance, PTL
=============================================================================
