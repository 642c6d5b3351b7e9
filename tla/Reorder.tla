------------------------------ MODULE Reorder ------------------------------
(***************************************************************************)
(* Where the providers marked Reorder are put in a chain (reorder.go): a   *)
(* topological sort of the chain by what a provider must and should come   *)
(* after.  A provider is known by its place in the chain as bound.  Types  *)
(* are nodes of the sort as well: <<"down", t>> stands for some provider   *)
(* of t having been placed, <<"up", t>> for some receiver of returned t.   *)
(***************************************************************************)
EXTENDS Integers, Sequences, FiniteSets, FiniteSetsExt, SequencesExt

CONSTANTS
  Chains,      \* the chains to bind
  Types,       \* the types of their parameters
  Implements,  \* <<u, t>>: type u implements interface t
  Rank         \* bestMatch's order among types of one layer

Groups == {"invoke", "literal", "static", "run", "final"}
(* in, out: inputs and outputs, for the init and invoke functions what     *)
(* they hand down; recv, ret: return values received and returned;         *)
(* optional, loose: the types of ConsumptionOptional and Loose.            *)
Providers ==
  [group : Groups, init : BOOLEAN, reorder : BOOLEAN, in : SUBSET Types, out : SUBSET Types,
   recv : SUBSET Types, ret : SUBSET Types, optional : SUBSET Types, loose : SUBSET Types]

(* The first provider is doBind's static one of *Debugging. *)
ASSUME ReorderAssumption ==
  /\ Chains \subseteq Seq(Providers)
  /\ Implements \subseteq Types \X Types
  /\ Rank \in [Types -> Nat]
  /\ \A c \in Chains : Len(c) > 0 /\ c[1].group = "static" /\ ~c[1].reorder

VARIABLES
  funcs,          \* the chain as bound
  phase,          \* "build", "run", "done", or "panic"
  nodes,          \* x.nodes: what each provider comes after, as built
  unblocked,      \* x.unblocked, the providers in it
  unblockedTypes, \* x.unblocked, the type nodes in it
  weakBlocked,    \* x.weakBlocked
  cannotReorder,  \* x.cannotReorder, consumed in the order of the chain
  released,       \* providers whose releaseNode has run
  releasedTypes,  \* type nodes whose releaseNode has run
  reorderedFuncs, \* x.reorderedFuncs, a sequence of places
  cannotInclude   \* the providers marked "dependencies not met"

vars == <<funcs, phase, nodes, unblocked, unblockedTypes, weakBlocked, cannotReorder,
          released, releasedTypes, reorderedFuncs, cannotInclude>>

Places == DOMAIN funcs
Directions == {"down", "up"}
TypeNodes == Directions \X Types
Fixed == {i \in Places : ~funcs[i].reorder}

-----------------------------------------------------------------------------
(* What a provider comes after.                                            *)
Consumes(dir, i) == IF dir = "down" THEN funcs[i].in ELSE funcs[i].ret
Releases(dir, i) == IF dir = "down" THEN funcs[i].out ELSE funcs[i].recv
(* availableDown and availableUp; the latter has what is returned.         *)
Offering(dir, t) == {j \in Places : t \in IF dir = "down" THEN funcs[j].out ELSE funcs[j].ret}

(* bestMatch: the type itself, or else the best type that implements it if *)
(* one of its providers is Loose about it.                                 *)
Matches(dir, t) ==
  LET candidates == {u \in Types : <<u, t>> \in Implements /\ Offering(dir, u) # {}}
      Better(u, v) == \/ Min(Offering(dir, u)) > Min(Offering(dir, v))
                      \/ Min(Offering(dir, u)) = Min(Offering(dir, v)) /\ Rank[u] > Rank[v]
  IN IF Offering(dir, t) # {} THEN {t}
     ELSE {u \in candidates : /\ \A v \in candidates \ {u} : Better(u, v)
                              /\ \E j \in Offering(dir, u) : t \in funcs[j].loose}
Wants(dir, i) == UNION {Matches(dir, t) : t \in Consumes(dir, i)}

(* If you take a T you must be after some provider of T.  A type that may  *)
(* go unconsumed is only wanted.                                           *)
MustTypes(i) ==
  {<<"down", t>> : t \in Wants("down", i)} \cup {<<"up", t>> : t \in Wants("up", i) \ funcs[i].optional}
ShouldTypes(i) == {<<"up", t>> : t \in Wants("up", i) \cap funcs[i].optional}

(* provideByNotRequire and receviedNotReturned *)
Sources(dir, t) == {j \in Places : t \in Releases(dir, j) \ Consumes(dir, j)}

LastStatic == Max({i \in Fixed : funcs[i].group = "static"})
MustFuncs(i) ==
  IF funcs[i].reorder THEN (IF funcs[i].group = "run" THEN {LastStatic} ELSE {})
  ELSE {j \in Fixed : j < i /\ \A k \in Fixed : k < i => k <= j}

(* What should come first.  Of two that want each other first only the     *)
(* earlier one loses its wish: half of what the pair put into the graph is *)
(* deleted, and then the other pair is no longer found (reorder.go:223).   *)
Desired(i) == UNION {UNION {Sources(dir, t) : t \in Wants(dir, i)} : dir \in Directions}
ShouldFuncs(i) == {j \in Desired(i) : i \notin Desired(j) \/ j < i}

Nodes == [i \in Places |-> [after |-> MustFuncs(i), types |-> MustTypes(i), weakAfter |-> ShouldFuncs(i)]]

(* The type nodes, downTypes and upTypes; what releases them.              *)
HasNode == UNION {nodes[i].types : i \in DOMAIN nodes}
Offers(i) == UNION {{<<dir, t>> : t \in Releases(dir, i)} : dir \in Directions}
InitOffers == {<<"down", t>> : t \in UNION {funcs[i].out : i \in {i \in Places : funcs[i].init}}}

(* What is left in a node's after and weakAfter, once the nodes of R and T *)
(* are released.                                                           *)
AfterIn(i, R, T) == ~(nodes[i].after \subseteq R /\ nodes[i].types \subseteq T)
WeakAfterIn(i, R) == ~(nodes[i].weakAfter \subseteq R)
(* Mutant: the release of any of them. *)
FreedByAny(R, T) ==
  {i \in Places : \/ nodes[i].after \cap (R \ released) # {}
                  \/ nodes[i].types \cap (T \ releasedTypes) # {}}
(* Those that the release of the last of them puts in a heap.              *)
Freed(R, T) ==
  {i \in Places : AfterIn(i, released, releasedTypes) /\ ~AfterIn(i, R, T)}

-----------------------------------------------------------------------------
Init ==
  /\ funcs \in Chains
  /\ phase = "build"
  /\ nodes = <<>>
  /\ unblocked = {} /\ unblockedTypes = {} /\ weakBlocked = {}
  /\ cannotReorder = {} /\ reorderedFuncs = <<>>
  /\ released = {} /\ releasedTypes = {} /\ cannotInclude = {}

(* Nothing is marked Reorder. *)
Keep ==
  /\ phase = "build" /\ Fixed = Places
  /\ phase' = "done"
  /\ reorderedFuncs' = [i \in Places |-> i]
  /\ UNCHANGED <<funcs, nodes, unblocked, unblockedTypes, weakBlocked, cannotReorder,
                 released, releasedTypes, cannotInclude>>

(* Type nodes have no map for weak relationships: writing one panics. *)
PanicOnWeakType ==
  /\ phase = "build" /\ Fixed # Places
  /\ \E i \in Places : ShouldTypes(i) # {}
  /\ phase' = "panic"
  /\ UNCHANGED <<funcs, nodes, unblocked, unblockedTypes, weakBlocked, cannotReorder,
                 released, releasedTypes, reorderedFuncs, cannotInclude>>

(* The graph is built; what the init function hands down is available.     *)
Build ==
  /\ phase = "build" /\ Fixed # Places
  /\ \A i \in Places : ShouldTypes(i) = {}
  /\ phase' = "run"
  /\ nodes' = Nodes
  /\ cannotReorder' = Fixed
  /\ unblockedTypes' = HasNode' \cap InitOffers
  /\ UNCHANGED <<funcs, unblocked, weakBlocked, released, releasedTypes, reorderedFuncs, cannotInclude>>

(* pop: the providers marked Reorder first, in chain order, then the fixed *)
(* ones, then the type nodes, of which any may be next.                    *)
First(H) == IF H \ Fixed # {} THEN Min(H \ Fixed) ELSE Min(H)

Placed(i) == i \in ToSet(reorderedFuncs)

(* releaseNode and releaseProvider, H being the heaps without i.           *)
Release(i, H, W) ==
  LET freed == Freed(released \cup {i}, releasedTypes)
      weak == {n \in freed : WeakAfterIn(n, released \cup {i})} IN
  /\ released' = released \cup {i}
  /\ unblocked' = H \cup (freed \ weak)
  /\ weakBlocked' = W \cup weak
  /\ unblockedTypes' = unblockedTypes \cup (HasNode \cap Offers(i))

(* processOne of a provider. *)
Process(i, release, H, W) ==
  IF Placed(i)
  THEN unblocked' = H /\ weakBlocked' = W /\ UNCHANGED <<released, unblockedTypes, reorderedFuncs>>
  ELSE /\ reorderedFuncs' = Append(reorderedFuncs, i)
       /\ IF release THEN Release(i, H, W)
          ELSE unblocked' = H /\ weakBlocked' = W /\ UNCHANGED <<released, unblockedTypes>>

PopUnblocked ==
  /\ phase = "run" /\ unblocked # {}
  /\ LET i == First(unblocked) IN Process(i, TRUE, unblocked \ {i}, weakBlocked)
  /\ UNCHANGED <<funcs, phase, nodes, cannotReorder, releasedTypes, cannotInclude>>

(* processOne of a type node. *)
PopType(n) ==
  /\ phase = "run" /\ unblocked = {} /\ n \in unblockedTypes
  /\ LET freed == Freed(released, releasedTypes \cup {n})
         weak == {i \in freed : WeakAfterIn(i, released)} IN
     /\ unblocked' = freed \ weak
     /\ weakBlocked' = weakBlocked \cup weak
  /\ unblockedTypes' = unblockedTypes \ {n}
  /\ releasedTypes' = releasedTypes \cup {n}
  /\ UNCHANGED <<funcs, phase, nodes, cannotReorder, released, reorderedFuncs, cannotInclude>>

PopWeakBlocked ==
  /\ phase = "run" /\ unblocked = {} /\ unblockedTypes = {} /\ weakBlocked # {}
  /\ LET i == First(weakBlocked) IN Process(i, TRUE, unblocked, weakBlocked \ {i})
  /\ UNCHANGED <<funcs, phase, nodes, cannotReorder, releasedTypes, cannotInclude>>

(* Mutant: nothing is released. *)
ForceAlways ==
  /\ phase = "run" /\ unblocked = {} /\ unblockedTypes = {} /\ weakBlocked = {}
  /\ cannotReorder # {}
  /\ LET i == Min(cannotReorder) IN
       /\ Process(i, FALSE, unblocked, weakBlocked)
       /\ cannotReorder' = cannotReorder \ {i}
  /\ UNCHANGED <<funcs, phase, nodes, releasedTypes, cannotInclude>>
(* Nothing can be released: the next fixed provider is placed regardless.  *)
ForceOut ==
  /\ phase = "run" /\ unblocked = {} /\ unblockedTypes = {} /\ weakBlocked = {}
  /\ cannotReorder # {}
  /\ LET i == Min(cannotReorder) IN
       /\ Process(i, ~AfterIn(i, released, releasedTypes), unblocked, weakBlocked)
       /\ cannotReorder' = cannotReorder \ {i}
  /\ UNCHANGED <<funcs, phase, nodes, releasedTypes, cannotInclude>>

(* Places in the order of the chain: the n-th has n of them up to it. *)
Ascending(S) ==
  [n \in 1 .. Cardinality(S) |-> CHOOSE i \in S : Cardinality({j \in S : j <= i}) = n]

(* Whatever was not placed is put last and marked as excluded. *)
Finish ==
  /\ phase = "run" /\ unblocked = {} /\ unblockedTypes = {} /\ weakBlocked = {}
  /\ cannotReorder = {}
  /\ LET left == {i \in Places : ~Placed(i)} IN
     /\ cannotInclude' = left
     /\ reorderedFuncs' = reorderedFuncs \o Ascending(left)
  /\ phase' = "done"
  /\ UNCHANGED <<funcs, nodes, unblocked, unblockedTypes, weakBlocked, cannotReorder, released, releasedTypes>>

Next ==
  \/ Keep \/ PanicOnWeakType \/ Build \/ PopUnblocked \/ PopWeakBlocked \/ ForceOut \/ Finish
  \/ \E n \in TypeNodes : PopType(n)

Spec == Init /\ [][Next]_vars

-----------------------------------------------------------------------------
(* The sort's data keep their types (reorder.go:269-288). *)
TypeOK ==
  /\ funcs \in Seq(Providers) /\ phase \in {"build", "run", "done", "panic"}
  /\ \A i \in DOMAIN nodes : nodes[i].after \cup nodes[i].weakAfter \subseteq Places
  /\ unblocked \subseteq Places /\ weakBlocked \subseteq Places
  /\ unblockedTypes \subseteq HasNode /\ releasedTypes \subseteq HasNode
  /\ cannotReorder \subseteq Fixed /\ reorderedFuncs \in Seq(Places)
  /\ released \subseteq ToSet(reorderedFuncs)
  /\ cannotInclude \subseteq Places \ Fixed

Before(i, j) ==
  \E m, n \in DOMAIN reorderedFuncs : m < n /\ reorderedFuncs[m] = i /\ reorderedFuncs[n] = j

(* "placed after it's inputs are available" (reorder.go:8-10, 156): a      *)
(* provider that was not forced out comes after a provider of each type    *)
(* that it consumes which was not forced out either, or the init function  *)
(* provides it; and, if it is of the run group, "after the end of the      *)
(* static set" (reorder.go:138-139).                                       *)
InputsFirst ==
  \A i \in released :
    /\ \A j \in nodes[i].after : j \in released /\ Before(j, i)
    /\ \A n \in nodes[i].types :
         \/ \E j \in released : n \in Offers(j) /\ Before(j, i)
         \/ n \in InitOffers

(* The providers that some order could release, one after another, are     *)
(* those in every set that has whatever could be released after it.  What  *)
(* is marked Reorder and comes after nothing is never put in a heap.       *)
Available(S) == InitOffers \cup UNION {Offers(j) : j \in S}
Startable(i) == i \in Fixed \/ nodes[i].after # {} \/ nodes[i].types # {}
Complete(S) ==
  LET available == Available(S) IN
  \A i \in Places \ S : AfterIn(i, S, available) \/ ~Startable(i)
Placeable ==
  LET complete == {S \in SUBSET Places : Complete(S)} IN
  {i \in Places : \A S \in complete : i \in S}

(* Whatever can be placed after all that it must come after is so placed,  *)
(* nothing else is, and the rest of what is marked Reorder goes last, with *)
(* an exclusion mark (reorder.go:340-345).  Each provider is placed once,  *)
(* so that "count of funcs changed during reorder" (reorder.go:265) does   *)
(* not happen; and "providers that cannot be reordered will be forced out  *)
(* one after another" (reorder.go:144-145): they keep their order.         *)
AllThatCan ==
  /\ IsInjective(reorderedFuncs)
  /\ \A i, j \in Fixed : i < j => ~Before(j, i)
  /\ phase = "done" => ToSet(reorderedFuncs) = Places
  /\ phase = "done" /\ Fixed # Places =>
       released = Placeable /\ cannotInclude = (Places \ Fixed) \ released
=============================================================================
