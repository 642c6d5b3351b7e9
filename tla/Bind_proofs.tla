---------------------------- MODULE Bind_proofs ----------------------------
(***************************************************************************)
(* Proofs about Include.tla, Wire.tla and Condense.tla, for any chains of  *)
(* providers, types, implementation relation, ranking and collections:     *)
(* what a validation of the chain finds, in whatever order checkFlows      *)
(* goes, what a try decides and what is in the chain after all tries; what *)
(* Bind guarantees about the returned values of a chain that passed        *)
(* checkForShadowing, what DownFlows and UpFlows of a collection are, and  *)
(* that the slots are read as inclusion matched the types.                 *)
(***************************************************************************)
EXTENDS Condense, FiniteSetTheorems, NaturalsInduction, WellFoundedInduction, TLAPS


(* What every step leaves alone or keeps in bounds.                        *)
Typed ==
  /\ funcs \in Seq(Providers) /\ phase \in Phases
  /\ usesDetail \in [Directions -> [Places -> [Types -> SUBSET Places]]]
  /\ include \subseteq Places

(* The providers that some validation of those not excluded could keep.    *)
Greatest == GreatestIn(Places \ excluded)

(* During a validation nothing that could be kept is lost, what has a      *)
(* reason to go will be looked at again, and whoever is not on the work    *)
(* list has all that it needs among those still included.                  *)
Checking ==
  phase \in Validating =>
    /\ include \subseteq Places \ excluded
    /\ Greatest \subseteq include /\ cannot \cap Greatest = {}
    /\ include \cap cannot \subseteq todo
    /\ \A i \in include \ todo : ~Unsourced(i) /\ ~Unconsumed(i)

(* The first validation is about all providers; a try keeps what is        *)
(* required, and what must not go during a try.                            *)
Bounds ==
  /\ phase = "first" => excluded = {}
  /\ phase = "trying" => /\ \A i \in excluded \cap Places : ~funcs[i].required
                         /\ Demanded \subseteq include

(* Bind has failed because of a provider that cannot be kept.              *)
Rejected == phase = "invalid" => \E i \in Places \ GreatestIn(Places) : funcs[i].required

IInv == Typed /\ Checking /\ Bounds /\ Rejected

-----------------------------------------------------------------------------
(* The types of what a provider needs, and of what must be consumed.       *)
LEMMA FlowTypes ==
  ASSUME Typed, NEW i \in Places, NEW dir \in Directions
  PROVE  /\ Needs(dir, i) \subseteq Types /\ MustBeConsumed(dir, i) \subseteq Types
         /\ \A t \in Types : Sources(dir, i, t) \subseteq Places
<1>1. funcs[i] \in Providers
  BY DEF Typed, Places
<1>2. /\ funcs[i].in \subseteq Types /\ funcs[i].recv \subseteq Types
      /\ funcs[i].out \subseteq Types /\ funcs[i].ret \subseteq Types
  BY <1>1 DEF Providers
<1>3. Needs(dir, i) \subseteq Types /\ MustBeConsumed(dir, i) \subseteq Types
  BY <1>2 DEF Needs, MustBeConsumed
<1>4. \A t \in Types : Sources(dir, i, t) \subseteq Places
  BY DEF Typed, Sources
<1> QED
  BY <1>3, <1>4

(* Sets that support themselves are closed under union: the greatest one   *)
(* in A supports itself, and contains all the others.                      *)
LEMMA GreatestSupports ==
  ASSUME NEW A
  PROVE  /\ GreatestIn(A) \subseteq A
         /\ Supported(GreatestIn(A))
         /\ \A S \in SUBSET A : Supported(S) => S \subseteq GreatestIn(A)
<1>1. GreatestIn(A) \subseteq A
  BY DEF GreatestIn
<1>2. \A S \in SUBSET A : Supported(S) => S \subseteq GreatestIn(A)
  BY DEF GreatestIn
<1>3. Supported(GreatestIn(A))
  <2> SUFFICES ASSUME NEW i \in GreatestIn(A), NEW dir \in Directions
               PROVE  /\ \A t \in Needs(dir, i) : Sources(dir, i, t) \cap GreatestIn(A) # {}
                      /\ \A t \in MustBeConsumed(dir, i) : Consumers(dir, i, t) \cap GreatestIn(A) # {}
    BY DEF Supported
  <2>1. PICK S \in SUBSET A : Supported(S) /\ i \in S
    BY DEF GreatestIn
  <2>2. S \subseteq GreatestIn(A)
    BY <1>2, <2>1
  <2>3. /\ \A t \in Needs(dir, i) : Sources(dir, i, t) \cap S # {}
        /\ \A t \in MustBeConsumed(dir, i) : Consumers(dir, i, t) \cap S # {}
    BY <2>1 DEF Supported
  <2> QED
    BY <2>2, <2>3
<1> QED
  BY <1>1, <1>2, <1>3

(* A validation that has nothing left to look at has found the greatest.   *)
LEMMA CheckedIsGreatest ==
  ASSUME IInv, phase \in Validating, todo = {}
  PROVE  include = Greatest
<1>1. /\ include \subseteq Places \ excluded /\ Greatest \subseteq include
      /\ \A i \in include : ~Unsourced(i) /\ ~Unconsumed(i)
  BY DEF IInv, Checking
<1>2. Supported(include)
  BY <1>1 DEF Supported, Unsourced, Unconsumed
<1>3. include \subseteq Greatest
  BY <1>1, <1>2, GreatestSupports DEF Greatest
<1> QED
  BY <1>1, <1>3

(* As long as the flows are not calculated again, nothing computed from    *)
(* them changes.                                                           *)
LEMMA FlowsSame ==
  ASSUME UNCHANGED <<funcs, usesDetail>>
  PROVE  /\ Places' = Places
         /\ \A i \in Places, dir \in Directions :
              /\ Needs(dir, i)' = Needs(dir, i)
              /\ MustBeConsumed(dir, i)' = MustBeConsumed(dir, i)
              /\ \A t : /\ Sources(dir, i, t)' = Sources(dir, i, t)
                        /\ Consumers(dir, i, t)' = Consumers(dir, i, t)
         /\ \A A : GreatestIn(A)' = GreatestIn(A)
         /\ excluded' = excluded => Greatest' = Greatest
<1>1. Places' = Places
  BY DEF Places
<1>2. \A i, dir : /\ Needs(dir, i)' = Needs(dir, i)
                  /\ MustBeConsumed(dir, i)' = MustBeConsumed(dir, i)
  BY DEF Needs, MustBeConsumed, MustConsumeFlow
<1>3. \A i, dir, t : /\ Sources(dir, i, t)' = Sources(dir, i, t)
                     /\ Consumers(dir, i, t)' = Consumers(dir, i, t)
  BY <1>1 DEF Sources, Consumers
<1>4. \A S : Supported(S)' <=> Supported(S)
  BY <1>2, <1>3 DEF Supported
<1>5. \A A : GreatestIn(A)' = GreatestIn(A)
  BY <1>4 DEF GreatestIn
<1>6. excluded' = excluded => Greatest' = Greatest
  BY <1>1, <1>5 DEF Greatest
<1> QED
  BY <1>1, <1>2, <1>3, <1>5, <1>6

(* The sources of a type are among the providers looked at.                *)
LEMMA FlowsTyped ==
  ASSUME NEW L \in SUBSET Places
  PROVE  ProvidesReturns(L) \in [Directions -> [Places -> [Types -> SUBSET Places]]]
<1>1. \A dir, i, t : BestMatch(L, dir, i, t) \subseteq L
  BY DEF BestMatch, Offering
<1> QED
  BY <1>1 DEF ProvidesReturns

-----------------------------------------------------------------------------
(* A validation begins with all providers that are not excluded.           *)
LEMMA ValidationBegins ==
  ASSUME Places' = Places, include' = Places \ excluded',
         cannot' \cap Places \subseteq excluded', Places \ excluded' \subseteq todo'
  PROVE  Checking'
<1>1. Greatest' \subseteq Places \ excluded'
  BY GreatestSupports DEF Greatest, GreatestIn
<1>2. cannot' \cap Greatest' = {} /\ include' \cap cannot' = {} /\ include' \ todo' = {}
  BY <1>1
<1> QED
  BY <1>1, <1>2 DEF Checking

(* Before anything is decided everybody is included and to be looked at.   *)
LEMMA InitInv == Init => IInv
<1> SUFFICES ASSUME Init PROVE IInv
  OBVIOUS
<1>1. funcs \in Seq(Providers)
  BY IncludeAssumption DEF Init
<1>2. Typed
  BY <1>1, FlowsTyped DEF Init, Typed, Phases, Validating, Places
<1>3. Checking
  <2>1. Greatest \subseteq Places
    BY DEF Greatest, GreatestIn
  <2> QED
    BY <2>1 DEF Init, Checking, Places
<1>4. Bounds /\ Rejected
  BY DEF Init, Bounds, Rejected
<1> QED
  BY <1>2, <1>3, <1>4 DEF IInv

(* Steps outside of a validation, and those that end one well.             *)
LEMMA OutsideInv ==
  ASSUME IInv, UNCHANGED <<funcs, usesDetail>>, include' \subseteq Places,
         phase' \in Phases \ (Validating \cup {"invalid"})
  PROVE  IInv'
<1>1. Places' = Places
  BY DEF Places
<1>2. Typed'
  BY <1>1 DEF IInv, Typed
<1>3. Checking' /\ Bounds' /\ Rejected'
  BY DEF Checking, Bounds, Rejected, Validating
<1> QED
  BY <1>2, <1>3 DEF IInv

(* A visit that finds the provider supported takes it off the work list.   *)
LEMMA CheckHoldsInv ==
  ASSUME IInv, NEW i \in Places, CheckHolds(i)
  PROVE  IInv'
<1>1. /\ phase \in Validating /\ i \in todo /\ i \notin cannot /\ ~Unsourced(i) /\ ~Unconsumed(i)
      /\ todo' = todo \ {i}
      /\ UNCHANGED <<funcs, usesDetail, phase, excluded, cannot, include, wanted, without>>
  BY DEF CheckHolds, Visit
<1>2. Places' = Places /\ Greatest' = Greatest
  BY <1>1, FlowsSame
<1>3. \A j : Unsourced(j)' = Unsourced(j) /\ Unconsumed(j)' = Unconsumed(j)
  BY <1>1, <1>2 DEF Unsourced, Unconsumed, Sources, Consumers, Needs, MustBeConsumed, MustConsumeFlow
<1>4. Typed' /\ Bounds'
  BY <1>1, <1>2 DEF IInv, Typed, Bounds, Demanded
<1>5. Checking'
  BY <1>1, <1>2, <1>3 DEF IInv, Checking
<1>6. Rejected'
  BY <1>1 DEF Rejected, Validating
<1> QED
  BY <1>4, <1>5, <1>6 DEF IInv

(* One that finds something missing marks a provider that nothing can      *)
(* keep: what is left supports it no more than the greatest set does.      *)
LEMMA CheckFailsInv ==
  ASSUME IInv, NEW i \in Places, CheckFails(i)
  PROVE  IInv'
<1>1. /\ phase \in Validating /\ i \in todo /\ (Unsourced(i) \/ Unconsumed(i))
      /\ cannot' = cannot \cup {i}
      /\ UNCHANGED <<funcs, usesDetail, phase, excluded, include, wanted, todo, without>>
  BY DEF CheckFails, Visit
<1>2. Places' = Places /\ Greatest' = Greatest
  BY <1>1, FlowsSame
<1>3. Greatest \subseteq include /\ Supported(Greatest)
  BY <1>1, GreatestSupports DEF IInv, Checking, Greatest
<1>4. i \notin Greatest
  BY <1>1, <1>3 DEF Supported, Unsourced, Unconsumed
<1>5. \A j : Unsourced(j)' = Unsourced(j) /\ Unconsumed(j)' = Unconsumed(j)
  BY <1>1, <1>2 DEF Unsourced, Unconsumed, Sources, Consumers, Needs, MustBeConsumed, MustConsumeFlow
<1>6. Typed' /\ Bounds'
  BY <1>1, <1>2 DEF IInv, Typed, Bounds, Demanded
<1>7. Checking'
  BY <1>1, <1>2, <1>4, <1>5 DEF IInv, Checking
<1>8. Rejected'
  BY <1>1 DEF Rejected, Validating
<1> QED
  BY <1>6, <1>7, <1>8 DEF IInv

(* Whoever relied on a provider that is dropped is on the work list again. *)
LEMMA DropInv ==
  ASSUME IInv, NEW i \in Places, Drop(i)
  PROVE  IInv'
<1>1. /\ phase \in Validating /\ i \in todo /\ i \in cannot /\ ~Fatal(i)
      /\ include' = include \ {i}
      /\ todo' = IF i \in include THEN (todo \ {i}) \cup UsedBy(i) ELSE todo \ {i}
      /\ UNCHANGED <<funcs, usesDetail, phase, excluded, cannot, wanted, without>>
  BY DEF Drop, Visit
<1>2. Places' = Places /\ Greatest' = Greatest
  BY <1>1, FlowsSame
<1>3. i \notin Greatest /\ Greatest \subseteq include'
  BY <1>1 DEF IInv, Checking
<1>4. ASSUME NEW j \in include' \ todo' PROVE ~Unsourced(j)' /\ ~Unconsumed(j)'
  <2>1. j \in include \ todo /\ j \in Places
    BY <1>1, <1>4 DEF IInv, Typed
  <2>2. ~Unsourced(j) /\ ~Unconsumed(j)
    BY <1>1, <2>1 DEF IInv, Checking
  <2>3. CASE i \notin include
    <3>1. include' = include
      BY <1>1, <2>3
    <3> QED
      BY <1>1, <1>2, <2>2, <3>1
      DEF Unsourced, Unconsumed, Sources, Consumers, Needs, MustBeConsumed, MustConsumeFlow
  <2>4. CASE i \in include
    <3>1. j \notin UsedBy(i)
      BY <1>1, <2>1, <2>4, <1>4
    <3>2. ASSUME NEW dir \in Directions, NEW t \in Needs(dir, j)
          PROVE  Sources(dir, j, t) \cap include' # {}
      <4>1. t \in Types
        BY <2>1, FlowTypes DEF IInv
      <4>2. i \notin Sources(dir, j, t)
        BY <2>1, <3>1, <4>1 DEF UsedBy, Uses
      <4>3. Sources(dir, j, t) \cap include # {}
        BY <2>2, <3>2 DEF Unsourced
      <4> QED
        BY <1>1, <4>2, <4>3
    <3>3. ASSUME NEW dir \in Directions, NEW t \in MustBeConsumed(dir, j)
          PROVE  Consumers(dir, j, t) \cap include' # {}
      <4>1. t \in Types /\ MustConsumeFlow(dir, j)
        BY <2>1, <3>3, FlowTypes DEF IInv, MustBeConsumed
      <4>2. i \notin Consumers(dir, j, t)
        BY <2>1, <3>1, <4>1 DEF UsedBy, Consumers
      <4>3. Consumers(dir, j, t) \cap include # {}
        BY <2>2, <3>3 DEF Unconsumed
      <4> QED
        BY <1>1, <4>2, <4>3
    <3>4. ~Unsourced(j)'
      BY <1>1, <2>1, <3>2, FlowsSame DEF Unsourced
    <3>5. ~Unconsumed(j)'
      BY <1>1, <2>1, <3>3, FlowsSame DEF Unconsumed
    <3> QED
      BY <3>4, <3>5
  <2> QED
    BY <2>3, <2>4
<1>5. Typed'
  BY <1>1, <1>2 DEF IInv, Typed
<1>6. Checking'
  <2>1. include' \subseteq Places \ excluded /\ include' \cap cannot \subseteq todo'
    BY <1>1 DEF IInv, Checking
  <2> QED
    BY <1>1, <1>2, <1>3, <1>4, <2>1 DEF IInv, Checking
<1>7. Bounds'
  <2>1. phase = "trying" => Demanded \subseteq include \ {i}
    BY <1>1 DEF IInv, Bounds, Fatal, Strict, Demanded
  <2> QED
    BY <1>1, <1>2, <2>1 DEF IInv, Bounds, Demanded
<1>8. Rejected'
  BY <1>1 DEF Rejected, Validating
<1> QED
  BY <1>5, <1>6, <1>7, <1>8 DEF IInv

(* A validation that is refused has met a provider that nothing can keep.  *)
LEMMA RefuseInv ==
  ASSUME IInv, NEW i \in Places, Refuse(i)
  PROVE  IInv'
<1>1. /\ phase \in Validating /\ i \in cannot /\ Fatal(i)
      /\ phase' = CASE phase = "first" -> "invalid" [] Strict -> "try" [] OTHER -> "internal"
      /\ UNCHANGED <<funcs, usesDetail, include>>
  BY DEF Refuse, Visit
<1>2. CASE phase = "first"
  <2>1. phase' = "invalid" /\ funcs[i].required /\ excluded = {}
    BY <1>1, <1>2 DEF Fatal, Strict, IInv, Bounds
  <2>2. i \notin GreatestIn(Places)
    <3>1. Greatest = GreatestIn(Places)
      BY <2>1 DEF Greatest
    <3> QED
      BY <1>1, <3>1 DEF IInv, Checking
  <2>3. Places' = Places /\ GreatestIn(Places)' = GreatestIn(Places)
    BY <1>1, FlowsSame DEF GreatestIn
  <2>4. Rejected'
    BY <1>1, <2>1, <2>2, <2>3 DEF Rejected
  <2>5. Typed' /\ Checking' /\ Bounds'
    BY <1>1, <2>1, <2>3 DEF IInv, Typed, Checking, Bounds, Validating, Phases
  <2> QED
    BY <2>4, <2>5 DEF IInv
<1>3. CASE phase # "first"
  <2>1. phase' \in {"try", "internal"}
    BY <1>1, <1>3
  <2>2. phase' \in Phases \ (Validating \cup {"invalid"})
    BY <2>1 DEF Phases, Validating
  <2> QED
    BY <1>1, <2>2, OutsideInv DEF IInv, Typed
<1> QED
  BY <1>2, <1>3

(* A try begins with the chain as it is without those to be tried, or is   *)
(* over at once because one of them is required.                           *)
LEMMA TryWithoutInv ==
  ASSUME IInv, TryWithout
  PROVE  IInv'
<1> DEFINE all == excluded \cup ClusterOf(Head(proposals))
           barred == {i \in all : funcs[i].required}
           reached == {i \in Places : \A b \in barred : i < b}
<1>1. /\ phase = "try" /\ UNCHANGED <<funcs, usesDetail>>
      /\ include' = (include \ reached) \cup (reached \ all)
      /\ cannot' = (cannot \ reached) \cup (reached \cap all)
  BY DEF TryWithout, Mark
<1>2. Typed /\ Places' = Places
  BY <1>1, FlowsSame DEF IInv
<1>3. CASE barred # {}
  <2>1. phase' = "try" /\ include' \subseteq Places
    BY <1>1, <1>2, <1>3 DEF TryWithout, Typed
  <2> QED
    BY <1>1, <2>1, OutsideInv DEF Phases, Validating
<1>4. CASE barred = {}
  <2>1. phase' = "trying" /\ excluded' = all /\ todo' = Places \ all
    BY <1>4 DEF TryWithout
  <2>2. include' = Places \ all /\ cannot' \cap Places \subseteq all
    BY <1>1, <1>2, <1>4 DEF Typed
  <2>3. Checking'
    BY <1>2, <2>1, <2>2, ValidationBegins
  <2>4. Typed'
    BY <1>1, <1>2, <2>1, <2>2 DEF Typed, Phases, Validating
  <2>5. Bounds'
    BY <1>1, <1>2, <1>4, <2>1, <2>2 DEF Bounds, Demanded
  <2>6. Rejected'
    BY <2>1 DEF Rejected
  <2> QED
    BY <2>3, <2>4, <2>5, <2>6 DEF IInv
<1> QED
  BY <1>3, <1>4

(* The last validation is of other flows, calculated from what is left.    *)
LEMMA CalculateFinalFlowsInv ==
  ASSUME IInv, CalculateFinalFlows
  PROVE  IInv'
<1>1. /\ funcs' = funcs /\ excluded' = excluded
      /\ usesDetail' = ProvidesReturns(Places \ excluded)
      /\ cannot' = excluded /\ include' = Places \ excluded /\ todo' = Places \ excluded
      /\ phase' \in {"internal", "last"}
  BY DEF CalculateFinalFlows
<1>2. Places' = Places
  BY <1>1 DEF Places
<1>3. Typed'
  BY <1>1, <1>2, FlowsTyped DEF IInv, Typed, Phases, Validating
<1>4. Checking'
  BY <1>1, <1>2, ValidationBegins
<1>5. Bounds' /\ Rejected'
  BY <1>1 DEF Bounds, Rejected
<1> QED
  BY <1>3, <1>4, <1>5 DEF IInv

(* Every step keeps the invariant.                                         *)
LEMMA NextInv == IInv /\ [Next]_vars => IInv'
<1> SUFFICES ASSUME IInv, [Next]_vars PROVE IInv'
  OBVIOUS
<1>1. include \subseteq Places
  BY DEF IInv, Typed
<1>2. ASSUME NEW i \in Places, CheckHolds(i) PROVE IInv'
  BY <1>2, CheckHoldsInv
<1>3. ASSUME NEW i \in Places, CheckFails(i) PROVE IInv'
  BY <1>3, CheckFailsInv
<1>4. ASSUME NEW i \in Places, Drop(i) PROVE IInv'
  BY <1>4, DropInv
<1>5. ASSUME NEW i \in Places, Refuse(i) PROVE IInv'
  BY <1>5, RefuseInv
<1>6. ASSUME NEW i \in Places, KeepUsed(i) PROVE IInv'
  BY <1>1, <1>6, OutsideInv DEF KeepUsed, Phases, Validating
<1>7. ASSUME NEW i \in Places, EliminateUnused(i) PROVE IInv'
  BY <1>1, <1>7, OutsideInv DEF EliminateUnused, Phases, Validating
<1>8. CASE ExcludeImpossible
  BY <1>1, <1>8, OutsideInv DEF ExcludeImpossible, Phases, Validating
<1>9. CASE Propose
  BY <1>1, <1>9, OutsideInv DEF Propose, Phases, Validating
<1>10. CASE SkipProposal
  BY <1>1, <1>10, OutsideInv DEF SkipProposal, Phases, Validating
<1>11. CASE TryWithout
  BY <1>11, TryWithoutInv
<1>12. CASE ExcludeTried
  BY <1>1, <1>12, OutsideInv DEF ExcludeTried, Phases, Validating
<1>13. CASE CalculateFinalFlows
  BY <1>13, CalculateFinalFlowsInv
<1>14. CASE Finish
  BY <1>1, <1>14, OutsideInv DEF Finish, Phases, Validating
<1>15. CASE UNCHANGED vars
  <2>1. UNCHANGED <<funcs, phase, usesDetail, excluded, cannot, include, wanted, todo>>
    BY <1>15 DEF vars
  <2>2. Places' = Places /\ Greatest' = Greatest
    BY <2>1, FlowsSame
  <2>3. GreatestIn(Places)' = GreatestIn(Places)
    BY <2>1, <2>2, FlowsSame DEF GreatestIn
  <2>4. \A j : Unsourced(j)' = Unsourced(j) /\ Unconsumed(j)' = Unconsumed(j)
    BY <2>1, <2>2 DEF Unsourced, Unconsumed, Sources, Consumers, Needs, MustBeConsumed, MustConsumeFlow
  <2>5. Typed' /\ Bounds'
    BY <2>1, <2>2 DEF IInv, Typed, Bounds, Demanded
  <2>6. Checking' /\ Rejected'
    BY <2>1, <2>2, <2>3, <2>4 DEF IInv, Checking, Rejected
  <2> QED
    BY <2>5, <2>6 DEF IInv
<1> QED
  BY <1>2, <1>3, <1>4, <1>5, <1>6, <1>7, <1>8, <1>9, <1>10, <1>11, <1>12, <1>13,
     <1>14, <1>15 DEF Next

(* computeDependenciesAndInclusion keeps its work lists and marks in step  *)
(* with the flows, whatever order checkFlows visits the providers in.      *)
THEOREM Invariance == Spec => []IInv
<1> QED
  BY InitInv, NextInv, PTL DEF Spec

(* checkFlows finds the greatest set of providers that support each other, *)
(* in whatever order it goes, and Bind fails only for a required provider  *)
(* that is not in it.                                                      *)
LEMMA GreatestFound == IInv => GreatestSupported
  BY CheckedIsGreatest DEF IInv, Rejected, GreatestSupported, Greatest

THEOREM ValidationIsExact == Spec => []GreatestSupported
<1> QED
  BY Invariance, GreatestFound, PTL

-----------------------------------------------------------------------------
(* tryWithout: a provider goes exactly if all that has to stay is still    *)
(* supported without it.                                                   *)
LEMMA TryStep ==
  ASSUME IInv, Next, phase = "trying", phase' = "try"
  PROVE  IF Demanded \subseteq Greatest
         THEN excluded' = excluded ELSE excluded' = excluded \ without
<1>1. CASE ExcludeTried
  <2>1. include = Greatest
    BY <1>1, CheckedIsGreatest DEF ExcludeTried, Validating
  <2> QED
    BY <1>1, <2>1 DEF ExcludeTried, IInv, Bounds
<1>2. ASSUME NEW i \in Places, Refuse(i)
      PROVE  excluded' = excluded \ without /\ ~(Demanded \subseteq Greatest)
  <2>1. i \in cannot /\ Fatal(i) /\ excluded' = excluded \ without
    BY <1>2 DEF Refuse, Visit, Strict, Restore
  <2>2. i \notin Greatest
    BY <2>1 DEF IInv, Checking, Validating
  <2>3. i \notin excluded
    BY <2>1 DEF IInv, Bounds, Fatal
  <2>4. i \in Demanded
    BY <2>1, <2>3 DEF Fatal, Demanded
  <2> QED
    BY <2>1, <2>2, <2>4
<1>3. ASSUME NEW i \in Places, CheckHolds(i) \/ CheckFails(i) \/ Drop(i) PROVE FALSE
  BY <1>3 DEF CheckHolds, CheckFails, Drop
<1>4. ExcludeTried \/ \E i \in Places : Refuse(i)
  BY <1>3 DEF Next, KeepUsed, EliminateUnused, ExcludeImpossible, Propose, SkipProposal,
    TryWithout, CalculateFinalFlows, Finish
<1> QED
  BY <1>1, <1>2, <1>4

(* Of every try that eliminations are made of: nothing is dropped that the *)
(* rest needs, and nothing is kept that it does not.                       *)
THEOREM TriesDecideRightly == Spec => TryDecidesRightly
<1>1. IInv /\ [Next]_vars
        => [phase = "trying" /\ phase' = "try"
              => IF Demanded \subseteq GreatestIn(Places \ excluded)
                 THEN excluded' = excluded ELSE excluded' = excluded \ without]_vars
  BY TryStep DEF vars, Greatest
<1> QED
  BY <1>1, Invariance, PTL DEF Spec, TryDecidesRightly


-----------------------------------------------------------------------------
(* That the last validation cannot fail, and that desired providers stay.  *)

(* Each type asked for is matched in one way whichever providers are left: *)
(* either no provider is Loose about it, or the chain has one type that    *)
(* fits.  Otherwise a match may move to another type when the providers of *)
(* the first are eliminated.                                               *)
Given(c) == UNION {c[i].out \cup c[i].ret : i \in DOMAIN c}
MatchedOneWay ==
  \A c \in Chains : \A t \in Types :
    \/ \A i \in DOMAIN c : t \notin c[i].loose
    \/ \A u, v \in Given(c) \cap ({t} \cup {w \in Types : <<w, t>> \in Implements}) : u = v

(* Nobody asks for a provider with one annotation and against it with      *)
(* another, on it or on a cluster.                                         *)
DesiredPlainly ==
  \A c \in Chains : \A i \in DOMAIN c : c[i].desired => ~c[i].shun /\ c[i].cluster = 0

(* Who must be there in the end: what is required, and what is desired and *)
(* was possible.                                                           *)
Wished == {i \in Places : DesiredPlainly /\ funcs[i].desired /\ i \in possible}
Committed == {i \in Places : funcs[i].required} \cup Wished

(* What is committed is supported by what is left, at all times; and no    *)
(* elimination is proposed of what is desired.                             *)
Kernel ==
  /\ funcs \in Chains
  /\ excluded \subseteq Places /\ cannot \subseteq Places /\ possible \subseteq Places
  /\ phase \in {"first", "unused", "try", "trying"} => usesDetail = ProvidesReturns(Places)
  /\ phase = "first" => possible = {} /\ Committed \subseteq include
  /\ phase = "unused" => /\ Supported(include) /\ include \subseteq Places \ excluded
                         /\ Committed \subseteq include
  /\ phase \in {"try", "trying"} => proposals \in Seq(Places \ Wished)
  /\ phase = "trying" => /\ Committed \subseteq GreatestIn((Places \ excluded) \cup (Places \cap without))
                         /\ Committed \cap without = {}
  /\ phase \in {"try", "last"} => Committed \subseteq Greatest
  /\ phase = "done" => Committed \subseteq include
  /\ phase # "internal"

(* The best match among some of the providers is what is left among them   *)
(* of the best match among all.                                            *)
LEMMA MatchRestricts ==
  ASSUME MatchedOneWay, funcs \in Chains, Typed, NEW L \in SUBSET Places,
         NEW dir \in Directions, NEW i \in Places, NEW t \in Types
  PROVE  BestMatch(L, dir, i, t) = BestMatch(Places, dir, i, t) \cap L
<1> DEFINE cands(M) == {u \in Types : <<u, t>> \in Implements /\ Offering(M, dir, i, u) # {}}
<1>1. \A u : Offering(L, dir, i, u) = Offering(Places, dir, i, u) \cap L
  BY DEF Offering
<1>2. \A u : \A j \in Offering(Places, dir, i, u) : u \in Given(funcs)
  BY DEF Offering, Offers, Given, Places
<1>3. CASE \A j \in DOMAIN funcs : t \notin funcs[j].loose
  <2>1. ASSUME NEW M \in SUBSET Places
        PROVE  BestMatch(M, dir, i, t) = Offering(M, dir, i, t)
    <3>1. CASE BestType(M, dir, i, t) = t
      BY <3>1 DEF BestMatch
    <3>2. CASE BestType(M, dir, i, t) # t
      <4>1. Offering(M, dir, i, t) = {}
        BY <3>2 DEF BestType
      <4>2. BestMatch(M, dir, i, t) = {}
        BY <1>3, <3>2 DEF BestMatch, Offering, Places
      <4> QED
        BY <4>1, <4>2
    <3> QED
      BY <3>1, <3>2
  <2> QED
    BY <1>1, <2>1
<1>4. CASE \A u, v \in Given(funcs) \cap ({t} \cup {w \in Types : <<w, t>> \in Implements}) : u = v
  <2>1. CASE Offering(Places, dir, i, t) # {}
    <3>1. \A M \in SUBSET Places : cands(M) \subseteq {t}
      BY <1>2, <1>4, <2>1 DEF Offering
    <3>2. \A M \in SUBSET Places : cands(M) = {} \/ Offering(M, dir, i, t) # {}
      BY <3>1
    <3>3. \A M \in SUBSET Places : BestType(M, dir, i, t) = t
      BY <3>2 DEF BestType
    <3> QED
      BY <1>1, <3>3 DEF BestMatch
  <2>2. CASE Offering(Places, dir, i, t) = {} /\ cands(Places) = {}
    <3>1. Offering(L, dir, i, t) = {} /\ cands(L) = {}
      BY <1>1, <2>2
    <3>2. BestType(L, dir, i, t) = t /\ BestType(Places, dir, i, t) = t
      BY <2>2, <3>1 DEF BestType
    <3> QED
      BY <2>2, <3>1, <3>2 DEF BestMatch
  <2>3. CASE Offering(Places, dir, i, t) = {} /\ cands(Places) # {}
    <3>1. PICK u : u \in cands(Places)
      BY <2>3
    <3>2. cands(Places) = {u}
      BY <1>2, <1>4, <3>1
    <3>3. ASSUME NEW M \in SUBSET Places, cands(M) = {u}, Offering(M, dir, i, t) = {}
          PROVE  BestType(M, dir, i, t) = u
      BY <3>3 DEF BestType
    <3>4. BestType(Places, dir, i, t) = u
      BY <2>3, <3>2, <3>3
    <3>5. CASE cands(L) = {u}
      <4>1. BestType(L, dir, i, t) = u
        BY <1>1, <2>3, <3>3, <3>5
      <4> QED
        BY <1>1, <3>4, <4>1 DEF BestMatch
    <3>6. CASE cands(L) # {u}
      <4>1. cands(L) = {} /\ Offering(L, dir, i, u) = {} /\ Offering(L, dir, i, t) = {}
        BY <1>1, <2>3, <3>1, <3>2, <3>6
      <4>2. BestMatch(L, dir, i, t) = {}
        BY <4>1 DEF BestMatch, BestType
      <4>3. BestMatch(Places, dir, i, t) \cap L = {}
        BY <1>1, <3>4, <4>1 DEF BestMatch
      <4> QED
        BY <4>2, <4>3
    <3> QED
      BY <3>5, <3>6
  <2> QED
    BY <2>1, <2>2, <2>3
<1> QED
  BY <1>3, <1>4 DEF MatchedOneWay, Places


(* Ascending lists members of the set only.                                *)
LEMMA AscendingType ==
  ASSUME NEW S, IsFiniteSet(S), S \subseteq Nat
  PROVE  Ascending(S) \in Seq(S)
<1> DEFINE N == Cardinality(S)
           UpTo(i) == {j \in S : j <= i}
           rank == [i \in S |-> Cardinality(UpTo(i))]
<1>1. N \in Nat /\ IsFiniteSet(1 .. N) /\ Cardinality(1 .. N) = N
  BY FS_CardinalityType, FS_Interval
<1>2. ASSUME NEW i \in S
      PROVE  UpTo(i) \subseteq S /\ IsFiniteSet(UpTo(i)) /\ Cardinality(UpTo(i)) \in 1 .. N
  <2>1. UpTo(i) \subseteq S /\ i \in UpTo(i)
    OBVIOUS
  <2>2. IsFiniteSet(UpTo(i)) /\ Cardinality(UpTo(i)) <= N
    BY <2>1, FS_Subset
  <2>3. Cardinality(UpTo(i)) \in Nat /\ Cardinality(UpTo(i)) # 0
    BY <2>1, <2>2, FS_CardinalityType, FS_EmptySet
  <2> QED
    BY <1>1, <2>1, <2>2, <2>3
<1>3. ASSUME NEW x \in S, NEW y \in S, x < y PROVE Cardinality(UpTo(x)) # Cardinality(UpTo(y))
  <2>1. ~(y <= x) /\ y <= y /\ \A z \in S : z <= x => z <= y
    BY <1>3
  <2>2. UpTo(x) \subseteq UpTo(y) /\ y \in UpTo(y) /\ y \notin UpTo(x)
    BY <2>1
  <2> QED
    BY <1>2, <2>2, FS_Subset
<1>4. \A x, y \in S : x # y => x < y \/ y < x
  OBVIOUS
<1> HIDE DEF UpTo, N
<1>5. rank \in Injection(S, 1 .. N)
  BY <1>2, <1>3, <1>4 DEF Injection, IsInjective
<1>6. rank \in Surjection(S, 1 .. N)
  BY <1>1, <1>5, FS_Injection DEF N
<1>7. \A n \in 1 .. N : \E i \in S : Cardinality(UpTo(i)) = n
  BY <1>6 DEF Surjection
<1>8. Ascending(S) = [n \in 1 .. N |-> CHOOSE i \in S : Cardinality(UpTo(i)) = n]
  BY DEF Ascending, N, UpTo
<1> QED
  BY <1>1, <1>7, <1>8

(* What supports itself with all the flows does so with those of what is   *)
(* left, if it is left.                                                    *)
LEMMA FinalFlowsSupport ==
  ASSUME MatchedOneWay, IInv, Kernel, CalculateFinalFlows
  PROVE  Greatest \subseteq Greatest'
<1> DEFINE L == Places \ excluded
<1>1. /\ phase = "try" /\ funcs' = funcs /\ excluded' = excluded
      /\ usesDetail = ProvidesReturns(Places) /\ usesDetail' = ProvidesReturns(L)
      /\ funcs \in Chains /\ Typed
  BY DEF CalculateFinalFlows, Kernel, IInv
<1>2. Places' = Places
  BY <1>1 DEF Places
<1>3. Greatest \subseteq L /\ Supported(Greatest)
  BY GreatestSupports DEF Greatest
<1>4. ASSUME NEW dir \in Directions, NEW i \in L, NEW t \in Types
      PROVE  Sources(dir, i, t)' = Sources(dir, i, t) \cap L
  <2>1. BestMatch(L, dir, i, t) = BestMatch(Places, dir, i, t) \cap L
    BY <1>1, MatchRestricts
  <2>2. Sources(dir, i, t)' = IF t \in Needs(dir, i) THEN BestMatch(L, dir, i, t) ELSE {}
    BY <1>1, <1>4 DEF Sources, ProvidesReturns
  <2>3. Sources(dir, i, t) = IF t \in Needs(dir, i) THEN BestMatch(Places, dir, i, t) ELSE {}
    BY <1>1, <1>4 DEF Sources, ProvidesReturns
  <2> QED
    BY <2>1, <2>2, <2>3
<1>5. \A dir, i : Needs(dir, i)' = Needs(dir, i) /\ MustBeConsumed(dir, i)' = MustBeConsumed(dir, i)
  BY <1>1 DEF Needs, MustBeConsumed, MustConsumeFlow
<1>6. PICK H : H = Greatest
  OBVIOUS
<1>7. \A S : S = H => Supported(S)'
  <2>1. ASSUME NEW i \in H, NEW dir \in Directions
        PROVE  /\ \A t \in Needs(dir, i)' : Sources(dir, i, t)' \cap H # {}
               /\ \A t \in MustBeConsumed(dir, i)' : Consumers(dir, i, t)' \cap H # {}
    <3>1. i \in L /\ i \in Places /\ H \subseteq L
      BY <1>3, <1>6
    <3>2. Needs(dir, i) \subseteq Types /\ MustBeConsumed(dir, i) \subseteq Types
      BY <1>1, <3>1, FlowTypes
    <3>3. /\ \A t \in Needs(dir, i) : Sources(dir, i, t) \cap H # {}
          /\ \A t \in MustBeConsumed(dir, i) : Consumers(dir, i, t) \cap H # {}
      BY <1>3, <1>6 DEF Supported
    <3>4. \A t \in Needs(dir, i) : Sources(dir, i, t)' \cap H # {}
      BY <1>4, <3>1, <3>2, <3>3
    <3>5. ASSUME NEW t \in MustBeConsumed(dir, i) PROVE Consumers(dir, i, t)' \cap H # {}
      <4>1. PICK j : j \in Consumers(dir, i, t) \cap H
        BY <3>3
      <4>2. i \in Sources(dir, j, t) /\ j \in L /\ t \in Types
        BY <3>1, <3>2, <4>1 DEF Consumers
      <4>3. i \in Sources(dir, j, t)'
        BY <1>4, <3>1, <4>2
      <4> QED
        BY <1>2, <4>1, <4>2, <4>3 DEF Consumers
    <3> QED
      BY <1>5, <3>4, <3>5
  <2> QED
    BY <2>1 DEF Supported
<1>8. H \subseteq (Places \ excluded)'
  BY <1>1, <1>2, <1>3, <1>6
<1> QED
  BY <1>6, <1>7, <1>8 DEF Greatest, GreatestIn


-----------------------------------------------------------------------------
LEMMA CommittedSame ==
  ASSUME UNCHANGED <<funcs, possible>>
  PROVE  Wished' = Wished /\ Committed' = Committed
BY DEF Wished, Committed, Places

LEMMA FlowsOfChain ==
  ASSUME funcs' = funcs
  PROVE  \A L : ProvidesReturns(L)' = ProvidesReturns(L)
BY DEF ProvidesReturns, BestMatch, BestType, Offering, Layer, Precedes, Offers, Needs, Seat, Places

(* What supports itself in some of the places does so in more.             *)
LEMMA GreatestGrows ==
  ASSUME NEW A, NEW B, A \subseteq B
  PROVE  GreatestIn(A) \subseteq GreatestIn(B)
BY DEF GreatestIn

LEMMA InitKernel == Init => Kernel
<1> SUFFICES ASSUME Init PROVE Kernel
  OBVIOUS
<1>1. Places = DOMAIN funcs /\ include = Places /\ possible = {}
  BY DEF Init, Places
<1>2. Committed \subseteq include
  BY <1>1 DEF Committed, Wished
<1> QED
  BY <1>1, <1>2 DEF Init, Kernel

(* A visit during a validation drops nothing that is required.             *)
LEMMA VisitKernel ==
  ASSUME IInv, Kernel, NEW i \in Places, CheckHolds(i) \/ CheckFails(i) \/ Drop(i)
  PROVE  Kernel'
<1>1. /\ phase \in Validating
      /\ UNCHANGED <<funcs, usesDetail, phase, excluded, wanted, without, proposals, possible>>
      /\ cannot' \in {cannot, cannot \cup {i}}
      /\ include' = include \/ (include' = include \ {i} /\ ~Fatal(i))
  BY DEF CheckHolds, CheckFails, Drop, Visit
<1>2. /\ Places' = Places /\ Greatest' = Greatest /\ Wished' = Wished /\ Committed' = Committed
      /\ \A A : GreatestIn(A)' = GreatestIn(A)
      /\ ProvidesReturns(Places)' = ProvidesReturns(Places)
  BY <1>1, FlowsSame, CommittedSame, FlowsOfChain
<1>3. phase = "first" => Committed \subseteq include'
  BY <1>1 DEF Kernel, Committed, Wished, Fatal
<1>4. GreatestIn((Places \ excluded) \cup (Places \cap without))'
        = GreatestIn((Places \ excluded) \cup (Places \cap without))
  BY <1>1, <1>2 DEF GreatestIn
<1>5. funcs' \in Chains /\ excluded' \subseteq Places' /\ cannot' \subseteq Places' /\ possible' \subseteq Places'
  BY <1>1, <1>2 DEF Kernel
<1>6. phase # "unused" /\ phase # "done" /\ phase # "try" /\ phase # "internal"
  BY <1>1 DEF Validating
<1>7. phase \in {"first", "trying"} => usesDetail' = ProvidesReturns(Places)'
  BY <1>1, <1>2 DEF Kernel
<1>8. phase = "trying" => /\ proposals' \in Seq(Places' \ Wished')
                          /\ Committed' \subseteq GreatestIn((Places \ excluded) \cup (Places \cap without))'
                          /\ Committed' \cap without' = {}
  BY <1>1, <1>2, <1>4 DEF Kernel
<1>9. phase = "last" => Committed' \subseteq Greatest'
  BY <1>1, <1>2 DEF Kernel
<1>10. phase = "first" => possible' = {} /\ Committed' \subseteq include'
  BY <1>1, <1>2, <1>3 DEF Kernel
<1> QED
  BY <1>1, <1>5, <1>6, <1>7, <1>8, <1>9, <1>10 DEF Kernel

(* A refused try is taken back; the last validation is not refused.        *)
LEMMA RefuseKernel ==
  ASSUME IInv, Kernel, NEW i \in Places, Refuse(i)
  PROVE  Kernel'
<1>1. /\ phase \in Validating /\ i \in cannot /\ Fatal(i)
      /\ phase' = CASE phase = "first" -> "invalid" [] Strict -> "try" [] OTHER -> "internal"
      /\ UNCHANGED <<funcs, usesDetail, include, cannot, proposals, possible>>
      /\ IF Strict THEN Restore ELSE UNCHANGED <<excluded, wanted, without>>
  BY DEF Refuse, Visit
<1>2. /\ Places' = Places /\ Wished' = Wished /\ Committed' = Committed
      /\ \A A : GreatestIn(A)' = GreatestIn(A)
      /\ ProvidesReturns(Places)' = ProvidesReturns(Places)
  BY <1>1, FlowsSame, CommittedSame, FlowsOfChain
<1>3. CASE phase = "first"
  <2>1. phase' = "invalid" /\ excluded' = excluded
    BY <1>1, <1>3 DEF Strict
  <2> QED
    BY <1>1, <1>2, <2>1 DEF Kernel
<1>4. CASE phase = "trying"
  <2>1. phase' = "try" /\ excluded' = excluded \ without
    BY <1>1, <1>4 DEF Strict, Restore
  <2>2. Places \ excluded' = (Places \ excluded) \cup (Places \cap without)
    BY <2>1
  <2>3. Greatest' = GreatestIn((Places \ excluded) \cup (Places \cap without))
    BY <1>2, <2>2 DEF Greatest, GreatestIn
  <2>4. Committed' \subseteq Greatest'
    BY <1>2, <1>4, <2>3 DEF Kernel
  <2>5. /\ funcs' \in Chains /\ excluded' \subseteq Places' /\ cannot' \subseteq Places' /\ possible' \subseteq Places'
        /\ usesDetail' = ProvidesReturns(Places)' /\ proposals' \in Seq(Places' \ Wished')
    BY <1>1, <1>2, <1>4, <2>1 DEF Kernel
  <2> QED
    BY <2>1, <2>4, <2>5 DEF Kernel
<1>5. CASE phase = "last"
  <2>1. i \in Committed
    BY <1>1, <1>5 DEF Fatal, Strict, Committed
  <2>2. i \in Greatest
    BY <1>5, <2>1 DEF Kernel
  <2> QED
    BY <1>1, <2>2 DEF IInv, Checking
<1> QED
  BY <1>1, <1>3, <1>4, <1>5 DEF Validating

(* After the first validation what is included supports itself.            *)
LEMMA ExcludeImpossibleKernel ==
  ASSUME IInv, Kernel, ExcludeImpossible
  PROVE  Kernel'
<1>1. /\ phase = "first" /\ todo = {} /\ phase' = "unused" /\ excluded' = cannot
      /\ include' = include \ cannot /\ possible' = include'
      /\ UNCHANGED <<funcs, usesDetail, cannot>>
  BY DEF ExcludeImpossible
<1>2. include = Greatest /\ cannot \cap Greatest = {} /\ include \subseteq Places
  BY <1>1, CheckedIsGreatest DEF IInv, Checking, Validating, Typed
<1>3. include' = include
  BY <1>1, <1>2
<1>4. Supported(include)'
  <2>1. Supported(include)
    BY <1>2, GreatestSupports DEF Greatest
  <2> QED
    BY <1>1, <1>3, <2>1 DEF Supported, Needs, Sources, Consumers, MustBeConsumed, MustConsumeFlow, Places
<1>5. Places' = Places /\ ProvidesReturns(Places)' = ProvidesReturns(Places)
  BY <1>1, FlowsSame, FlowsOfChain
<1>6. Committed' \subseteq include'
  BY <1>1, <1>3, <1>5 DEF Committed, Wished, Kernel
<1>7. include' \subseteq (Places \ excluded)'
  BY <1>1, <1>2, <1>5
<1> QED
  BY <1>1, <1>4, <1>5, <1>6, <1>7 DEF Kernel

(* What nobody included uses is not missed by any of them.                 *)
LEMMA EliminateKernel ==
  ASSUME IInv, Kernel, NEW i \in Places, EliminateUnused(i)
  PROVE  Kernel'
<1>1. /\ phase = "unused" /\ phase' = "unused" /\ ~Spared(i) /\ UsedBy(i) \cap include = {}
      /\ include' = include \ {i} /\ cannot' = cannot \cup {i} /\ excluded' = excluded \cup {i}
      /\ UNCHANGED <<funcs, usesDetail, possible>>
  BY DEF EliminateUnused
<1>2. /\ Places' = Places /\ Wished' = Wished /\ Committed' = Committed
      /\ ProvidesReturns(Places)' = ProvidesReturns(Places)
  BY <1>1, FlowsSame, CommittedSame, FlowsOfChain
<1>3. i \notin Committed
  BY <1>1 DEF Committed, Wished, Spared
<1>4. ASSUME NEW j \in include', NEW dir \in Directions
      PROVE  /\ \A t \in Needs(dir, j) : Sources(dir, j, t) \cap include' # {}
             /\ \A t \in MustBeConsumed(dir, j) : Consumers(dir, j, t) \cap include' # {}
  <2>1. j \in include /\ j \in Places /\ j \notin UsedBy(i)
    BY <1>1, <1>4 DEF IInv, Typed
  <2>2. /\ \A t \in Needs(dir, j) : Sources(dir, j, t) \cap include # {}
        /\ \A t \in MustBeConsumed(dir, j) : Consumers(dir, j, t) \cap include # {}
    BY <1>1, <2>1 DEF Kernel, Supported
  <2>3. Needs(dir, j) \subseteq Types /\ MustBeConsumed(dir, j) \subseteq Types
    BY <2>1, FlowTypes DEF IInv
  <2>4. \A t \in Needs(dir, j) : i \notin Sources(dir, j, t)
    BY <2>1, <2>3 DEF UsedBy, Uses
  <2>5. \A t \in MustBeConsumed(dir, j) : MustConsumeFlow(dir, j)
    BY DEF MustBeConsumed
  <2>6. \A t \in MustBeConsumed(dir, j) : i \notin Consumers(dir, j, t)
    BY <2>1, <2>3, <2>5 DEF UsedBy, Consumers
  <2> QED
    BY <1>1, <2>2, <2>4, <2>6
<1>5. Supported(include)'
  <2>1. PICK S : S = include'
    OBVIOUS
  <2>2. Supported(S)
    BY <1>4, <2>1 DEF Supported
  <2>3. \A R : R = include' => (Supported(include)' <=> Supported(R))
    BY <1>1, <1>2 DEF Supported, Needs, Sources, Consumers, MustBeConsumed, MustConsumeFlow
  <2> QED
    BY <2>1, <2>2, <2>3
<1>6. include' \subseteq (Places \ excluded)' /\ Committed' \subseteq include'
  BY <1>1, <1>2, <1>3 DEF Kernel
<1>7. /\ funcs' \in Chains /\ excluded' \subseteq Places' /\ cannot' \subseteq Places' /\ possible' \subseteq Places'
      /\ usesDetail' = ProvidesReturns(Places)'
  BY <1>1, <1>2 DEF Kernel
<1> QED
  BY <1>1, <1>5, <1>6, <1>7 DEF Kernel


(* proposeEliminations proposes nothing that is desired.                   *)
LEMMA ProposeKernel ==
  ASSUME IInv, Kernel, Propose
  PROVE  Kernel'
<1> DEFINE shunned == {i \in Places : funcs[i].shun}
           kept == Kept("down") \cup Kept("up")
<1>1. /\ phase = "unused" /\ phase' = "try"
      /\ proposals' = Ascending(shunned) \o Ascending(Places \ (kept \cup shunned))
      /\ UNCHANGED <<funcs, usesDetail, excluded, cannot, possible>>
  BY DEF Propose
<1>2. /\ Places' = Places /\ Wished' = Wished /\ Committed' = Committed /\ Greatest' = Greatest
      /\ ProvidesReturns(Places)' = ProvidesReturns(Places)
  BY <1>1, FlowsSame, CommittedSame, FlowsOfChain
<1>3. Wished \subseteq kept
  <2>1. Wished \subseteq Roots
    BY <1>1 DEF Kernel, Committed, Wished, Roots
  <2>2. Roots \cap Places \subseteq Kept("down")
    BY DEF Kept
  <2> QED
    BY <2>1, <2>2 DEF Wished
<1>4. Wished \cap shunned = {}
  BY DEF Kernel, Wished, DesiredPlainly, Places
<1>5. IsFiniteSet(Places) /\ Places \subseteq Nat
  BY FS_Interval DEF IInv, Typed, Places
<1>6. Ascending(shunned) \in Seq(shunned)
  <2>1. IsFiniteSet(shunned)
    BY <1>5, FS_Subset
  <2> QED
    BY <1>5, <2>1, AscendingType
<1>7. Ascending(Places \ (kept \cup shunned)) \in Seq(Places \ (kept \cup shunned))
  <2>1. IsFiniteSet(Places \ (kept \cup shunned))
    BY <1>5, FS_Subset
  <2> QED
    BY <1>5, <2>1, AscendingType
<1>8. proposals' \in Seq(Places \ Wished)
  <2>1. /\ Ascending(shunned) \in Seq(Places \ Wished)
        /\ Ascending(Places \ (kept \cup shunned)) \in Seq(Places \ Wished)
    BY <1>3, <1>4, <1>6, <1>7
  <2> QED
    BY <1>1, <2>1
<1>9. Committed \subseteq Greatest
  BY <1>1, GreatestSupports DEF Kernel, Greatest
<1>10. /\ funcs' \in Chains /\ excluded' \subseteq Places' /\ cannot' \subseteq Places' /\ possible' \subseteq Places'
       /\ usesDetail' = ProvidesReturns(Places)' /\ proposals' \in Seq(Places' \ Wished')
       /\ Committed' \subseteq Greatest'
  BY <1>1, <1>2, <1>8, <1>9 DEF Kernel
<1> QED
  BY <1>1, <1>10 DEF Kernel

(* A try is of nobody that is required or desired.                         *)
LEMMA TryWithoutKernel ==
  ASSUME IInv, Kernel, TryWithout
  PROVE  Kernel'
<1> DEFINE i == Head(proposals)
           out == ClusterOf(i)
           barred == {j \in excluded \cup out : funcs[j].required}
           reached == {j \in Places : \A b \in barred : j < b}
<1>1. /\ phase = "try" /\ proposals # <<>> /\ ~Passed(i) /\ proposals' = Tail(proposals)
      /\ cannot' = (cannot \ reached) \cup (reached \cap (excluded \cup out))
      /\ UNCHANGED <<funcs, usesDetail, possible>>
  BY DEF TryWithout, Mark
<1>2. /\ Places' = Places /\ Wished' = Wished /\ Committed' = Committed
      /\ \A A : GreatestIn(A)' = GreatestIn(A)
      /\ ProvidesReturns(Places)' = ProvidesReturns(Places)
  BY <1>1, FlowsSame, CommittedSame, FlowsOfChain
<1>3. proposals \in Seq(Places \ Wished) /\ i \in Places \ Wished /\ proposals' \in Seq(Places \ Wished)
  BY <1>1 DEF Kernel
<1>4. out \subseteq Places \ excluded
  BY <1>1, <1>3 DEF ClusterOf, Passed
<1>5. out \cap Wished = {}
  <2>1. CASE funcs[i].cluster = 0
    BY <1>3, <2>1 DEF ClusterOf
  <2>2. CASE funcs[i].cluster # 0
    BY <2>2 DEF ClusterOf, Kernel, Wished, DesiredPlainly, Places
  <2> QED
    BY <2>1, <2>2
<1>6. /\ funcs' \in Chains /\ cannot' \subseteq Places' /\ possible' \subseteq Places' /\ usesDetail' = ProvidesReturns(Places)'
      /\ proposals' \in Seq(Places' \ Wished')
  BY <1>1, <1>2, <1>3 DEF Kernel
<1>7. CASE barred # {}
  <2>1. phase' = "try" /\ excluded' = excluded
    BY <1>1, <1>7 DEF TryWithout
  <2>2. Greatest' = Greatest
    BY <1>1, <2>1, FlowsSame
  <2> QED
    BY <1>1, <1>2, <1>6, <2>1, <2>2 DEF Kernel
<1>8. CASE barred = {}
  <2>1. phase' = "trying" /\ excluded' = excluded \cup out /\ without' = out
    BY <1>8 DEF TryWithout
  <2>2. (Places \ excluded') \cup (Places \cap without') = Places \ excluded
    BY <1>4, <2>1
  <2>3. GreatestIn((Places \ excluded) \cup (Places \cap without))' = GreatestIn(Places \ excluded)
    BY <1>2, <2>2 DEF GreatestIn
  <2>4. Committed' \subseteq GreatestIn((Places \ excluded) \cup (Places \cap without))'
    BY <1>1, <1>2, <2>3 DEF Kernel, Greatest
  <2>5. Committed' \cap without' = {}
    BY <1>2, <1>5, <1>8, <2>1 DEF Committed
  <2>6. excluded' \subseteq Places'
    BY <1>2, <1>4, <2>1 DEF Kernel
  <2> QED
    BY <1>6, <2>1, <2>4, <2>5, <2>6 DEF Kernel
<1> QED
  BY <1>7, <1>8

(* A try that stays has kept all that is committed.                        *)
LEMMA ExcludeTriedKernel ==
  ASSUME IInv, Kernel, ExcludeTried
  PROVE  Kernel'
<1>1. /\ phase = "trying" /\ todo = {} /\ phase' = "try"
      /\ UNCHANGED <<funcs, usesDetail, excluded, cannot, include, proposals, possible>>
  BY DEF ExcludeTried
<1>2. /\ Places' = Places /\ Wished' = Wished /\ Committed' = Committed /\ Greatest' = Greatest
      /\ ProvidesReturns(Places)' = ProvidesReturns(Places)
  BY <1>1, FlowsSame, CommittedSame, FlowsOfChain
<1>3. include = Greatest
  BY <1>1, CheckedIsGreatest DEF Validating
<1>4. Committed \subseteq (Places \ excluded) \cup (Places \cap without) /\ Committed \cap without = {}
  BY <1>1, GreatestSupports DEF Kernel
<1>5. Committed \subseteq Demanded
  BY <1>4 DEF Committed, Wished, Demanded
<1>6. Committed' \subseteq Greatest'
  BY <1>1, <1>2, <1>3, <1>5 DEF IInv, Bounds
<1>7. /\ funcs' \in Chains /\ excluded' \subseteq Places' /\ cannot' \subseteq Places' /\ possible' \subseteq Places'
      /\ usesDetail' = ProvidesReturns(Places)' /\ proposals' \in Seq(Places' \ Wished')
  BY <1>1, <1>2 DEF Kernel
<1> QED
  BY <1>1, <1>6, <1>7 DEF Kernel

(* Nobody that is required is excluded, and the last validation is of      *)
(* flows that support all that is committed.                               *)
LEMMA CalculateFinalFlowsKernel ==
  ASSUME MatchedOneWay, IInv, Kernel, CalculateFinalFlows
  PROVE  Kernel'
<1>1. /\ phase = "try" /\ cannot' = excluded
      /\ UNCHANGED <<funcs, excluded, proposals, possible>>
      /\ phase' = IF \E i \in excluded : funcs[i].required THEN "internal" ELSE "last"
  BY DEF CalculateFinalFlows
<1>2. Places' = Places /\ Committed' = Committed
  BY <1>1, CommittedSame DEF Places
<1>3. Committed \subseteq Greatest /\ excluded \subseteq Places
  BY <1>1 DEF Kernel
<1>4. ~\E i \in excluded : funcs[i].required
  BY <1>3, GreatestSupports DEF Committed, Greatest
<1>5. Committed' \subseteq Greatest'
  BY <1>2, <1>3, FinalFlowsSupport
<1> QED
  BY <1>1, <1>2, <1>4, <1>5 DEF Kernel

LEMMA NextKernel ==
  ASSUME MatchedOneWay, IInv, Kernel, [Next]_vars
  PROVE  Kernel'
<1>1. ASSUME NEW i \in Places, CheckHolds(i) \/ CheckFails(i) \/ Drop(i) PROVE Kernel'
  BY <1>1, VisitKernel
<1>2. ASSUME NEW i \in Places, Refuse(i) PROVE Kernel'
  BY <1>2, RefuseKernel
<1>3. ASSUME NEW i \in Places, EliminateUnused(i) PROVE Kernel'
  BY <1>3, EliminateKernel
<1>4. ASSUME UNCHANGED <<funcs, phase, usesDetail, excluded, cannot, include, possible, without>>,
             \/ proposals' = proposals
             \/ proposals # <<>> /\ proposals' = Tail(proposals)
      PROVE  Kernel'
  <2>1. /\ Places' = Places /\ Wished' = Wished /\ Committed' = Committed /\ Greatest' = Greatest
        /\ \A A : GreatestIn(A)' = GreatestIn(A)
        /\ ProvidesReturns(Places)' = ProvidesReturns(Places)
    BY <1>4, FlowsSame, CommittedSame, FlowsOfChain
  <2>2. GreatestIn((Places \ excluded) \cup (Places \cap without))'
          = GreatestIn((Places \ excluded) \cup (Places \cap without))
    BY <1>4, <2>1 DEF GreatestIn
  <2>3. Supported(include)' <=> Supported(include)
    BY <1>4 DEF Supported, Needs, Sources, Consumers, MustBeConsumed, MustConsumeFlow, Places
  <2>4. phase \in {"try", "trying"} => proposals' \in Seq(Places \ Wished)
    BY <1>4 DEF Kernel
  <2>5. /\ funcs' \in Chains /\ excluded' \subseteq Places' /\ cannot' \subseteq Places' /\ possible' \subseteq Places'
        /\ phase' \in {"first", "unused", "try", "trying"} => usesDetail' = ProvidesReturns(Places)'
        /\ phase' = "first" => possible' = {} /\ Committed' \subseteq include'
        /\ phase' # "internal"
    BY <1>4, <2>1 DEF Kernel
  <2>6. /\ phase' = "unused" => /\ Supported(include)' /\ include' \subseteq (Places \ excluded)'
                                /\ Committed' \subseteq include'
        /\ phase' \in {"try", "trying"} => proposals' \in Seq(Places' \ Wished')
        /\ phase' \in {"try", "last"} => Committed' \subseteq Greatest'
        /\ phase' = "done" => Committed' \subseteq include'
    BY <1>4, <2>1, <2>3, <2>4 DEF Kernel
  <2>7. phase' = "trying" =>
          /\ Committed' \subseteq GreatestIn((Places \ excluded) \cup (Places \cap without))'
          /\ Committed' \cap without' = {}
    BY <1>4, <2>1, <2>2 DEF Kernel
  <2> QED
    BY <2>5, <2>6, <2>7 DEF Kernel
<1>5. ASSUME NEW i \in Places, KeepUsed(i) PROVE Kernel'
  BY <1>4, <1>5 DEF KeepUsed
<1>6. CASE SkipProposal
  BY <1>4, <1>6 DEF SkipProposal
<1>7. CASE UNCHANGED vars
  BY <1>4, <1>7 DEF vars
<1>8. CASE Finish
  <2>1. /\ phase = "last" /\ todo = {} /\ phase' = "done"
        /\ UNCHANGED <<funcs, excluded, cannot, include, possible>>
    BY <1>8 DEF Finish
  <2>2. include = Greatest
    BY <2>1, CheckedIsGreatest DEF Validating
  <2>3. Places' = Places /\ Committed' = Committed
    BY <2>1, CommittedSame DEF Places
  <2> QED
    BY <2>1, <2>2, <2>3 DEF Kernel
<1> QED
  BY <1>1, <1>2, <1>3, <1>5, <1>6, <1>7, <1>8, ExcludeImpossibleKernel, ProposeKernel,
     TryWithoutKernel, ExcludeTriedKernel, CalculateFinalFlowsKernel DEF Next

(* "internal error: uh oh" is not reached: when the flows are calculated   *)
(* for the last time, nothing that is required has gone, and what is left  *)
(* still supports it, if each type is matched in one way.                  *)
THEOREM NeverInternal ==
  ASSUME MatchedOneWay
  PROVE  Spec => []NoInternalError
<1>1. Init => IInv /\ Kernel
  BY InitInv, InitKernel
<1>2. IInv /\ Kernel /\ [Next]_vars => (IInv /\ Kernel)'
  BY NextInv, NextKernel
<1>3. IInv /\ Kernel => NoInternalError
  BY DEF Kernel, NoInternalError
<1> QED
  BY <1>1, <1>2, <1>3, PTL DEF Spec

(* Desired(): a provider that is desired is in the final chain if the      *)
(* chain as a whole can support it, whatever else is tried and eliminated; *)
(* unless it is also to be shunned or stands and falls with a cluster.     *)
THEOREM DesiredStay ==
  ASSUME MatchedOneWay, DesiredPlainly
  PROVE  Spec => []DesiredKept
<1>1. Init => IInv /\ Kernel
  BY InitInv, InitKernel
<1>2. IInv /\ Kernel /\ [Next]_vars => (IInv /\ Kernel)'
  BY NextInv, NextKernel
<1>3. IInv /\ Kernel => DesiredKept
  BY DEF Kernel, DesiredKept, Committed, Wished
<1> QED
  BY <1>1, <1>2, <1>3, PTL DEF Spec

-----------------------------------------------------------------------------

(* Who receives and returns a type gets it from someone who returns that   *)
(* very type.  With a provider that is Loose about it and returns another  *)
(* type that implements it, checkForShadowing takes a returned value for   *)
(* one that is passed on, and misses that it is overridden.                *)
PassedOnIsReturned ==
  \A c \in Chains : \A i, j \in DOMAIN c : \A t \in c[i].recv \cap c[i].ret :
    t \in c[j].loose => c[j].ret \subseteq {t}

(* The flows are, from the last validation on, those of what was left, and *)
(* the chain is in the end one that supports itself and passed the check.  *)
Settled ==
  /\ funcs \in Chains
  /\ phase \in {"last", "done"} => usesDetail = ProvidesReturns(Places \ excluded)
  /\ phase = "done" => include \subseteq Places \ excluded /\ Supported(include)
  /\ wiring = "wired" => phase = "done" /\ Shadowing = {}

BindInv == IInv /\ Settled

-----------------------------------------------------------------------------
LEMMA NatMin ==
  ASSUME NEW T \in SUBSET Nat, T # {}
  PROVE  \E m \in T : \A n \in T : m <= n
<1>1. PICK m \in T : \A n \in T : ~(<<n, m>> \in OpToRel(<, Nat))
  BY NatLessThanWellFounded, WFMin
<1>2. ASSUME NEW n \in T PROVE m <= n
  <2>1. ~(<<n, m>> \in OpToRel(<, Nat))
    BY <1>1
  <2>2. ~(n < m)
    BY <2>1 DEF OpToRel
  <2> QED
    BY <2>2
<1> QED
  BY <1>2

(* A nonempty set of places has a last one.                                *)
LEMMA LastPlace ==
  ASSUME NEW N \in Nat, NEW T \in SUBSET (1 .. N), T # {}
  PROVE  \E m \in T : \A n \in T : n <= m
<1> DEFINE R == {N - n : n \in T}
<1>1. \A n \in T : N - n \in Nat
  OBVIOUS
<1>2. R \in SUBSET Nat /\ R # {}
  BY <1>1
<1>3. PICK r \in R : \A q \in R : r <= q
  BY <1>2, NatMin
<1>4. PICK m \in T : r = N - m
  BY <1>3
<1>5. ASSUME NEW n \in T PROVE n <= m
  <2>1. N - m <= N - n
    BY <1>3, <1>4
  <2> QED
    BY <2>1
<1> QED
  BY <1>5

-----------------------------------------------------------------------------
LEMMA BindInitInv == BindInit => BindInv
BY InitInv DEF BindInit, WireInit, Init, BindInv, Settled

(* computeDependenciesAndInclusion ends with a chain that supports itself. *)
LEMMA IncludeFinal ==
  ASSUME BindInv, Next, UNCHANGED wireVars
  PROVE  Settled'
<1>1. funcs' = funcs /\ wiring' = wiring /\ Places' = Places
  BY DEF Next, wireVars, CheckHolds, CheckFails, Drop, Refuse, Visit, KeepUsed, EliminateUnused,
    ExcludeImpossible, Propose, SkipProposal, TryWithout, ExcludeTried, CalculateFinalFlows,
    Finish, Places
<1>2. phase # "done"
  BY DEF Next, CheckHolds, CheckFails, Drop, Refuse, Visit, KeepUsed, EliminateUnused, Validating,
    ExcludeImpossible, Propose, SkipProposal, TryWithout, ExcludeTried, CalculateFinalFlows, Finish
<1>3. wiring' # "wired"
  BY <1>1, <1>2 DEF BindInv, Settled
<1>4. phase' = "last" => usesDetail' = ProvidesReturns(Places \ excluded)' /\ phase' # "done"
  <2>1. ASSUME phase' = "last", ~CalculateFinalFlows
        PROVE  phase = "last" /\ UNCHANGED <<usesDetail, excluded>>
    BY <2>1 DEF Next, CheckHolds, CheckFails, Drop, Refuse, Visit, KeepUsed, EliminateUnused,
      ExcludeImpossible, Propose, SkipProposal, TryWithout, ExcludeTried, Finish, Strict, Validating
  <2>2. \A L : ProvidesReturns(L)' = ProvidesReturns(L)
    BY <1>1
    DEF ProvidesReturns, BestMatch, BestType, Offering, Layer, Precedes, Offers, Needs, Seat, Places
  <2>3. CASE CalculateFinalFlows
    BY <1>1, <2>3, <2>2 DEF CalculateFinalFlows
  <2>4. ASSUME phase' = "last", ~CalculateFinalFlows
        PROVE  usesDetail' = ProvidesReturns(Places \ excluded)'
    BY <1>1, <2>1, <2>2, <2>4 DEF BindInv, Settled
  <2> QED
    BY <2>3, <2>4
<1>5. ASSUME phase' = "done"
      PROVE  /\ usesDetail' = ProvidesReturns(Places \ excluded)'
             /\ include' \subseteq Places \ excluded' /\ Supported(include)'
  <2>1. Finish
    BY <1>2, <1>5 DEF Next, CheckHolds, CheckFails, Drop, Refuse, Visit, KeepUsed, EliminateUnused,
      ExcludeImpossible, Propose, SkipProposal, TryWithout, ExcludeTried, CalculateFinalFlows, Strict
  <2>2. phase = "last" /\ todo = {} /\ UNCHANGED <<funcs, usesDetail, excluded, include>>
    BY <2>1 DEF Finish
  <2>3. include = Greatest
    BY <2>2, CheckedIsGreatest DEF BindInv, Validating
  <2>4. Supported(include) /\ include \subseteq Places \ excluded
    BY <2>3, GreatestSupports DEF Greatest
  <2>5. usesDetail = ProvidesReturns(Places \ excluded)
    BY <2>2 DEF BindInv, Settled
  <2>6. Supported(include)'
    BY <2>2, <2>4 DEF Supported, Needs, Sources, Consumers, MustBeConsumed, MustConsumeFlow, Places
  <2>7. ProvidesReturns(Places \ excluded)' = ProvidesReturns(Places \ excluded)
    BY <2>2
    DEF ProvidesReturns, BestMatch, BestType, Offering, Layer, Precedes, Offers, Needs, Seat, Places
  <2> QED
    BY <2>2, <2>4, <2>5, <2>6, <2>7
<1> QED
  BY <1>1, <1>3, <1>4, <1>5 DEF BindInv, Settled

(* What doBind does after inclusion changes nothing of what was decided.   *)
LEMMA WireFinal ==
  ASSUME BindInv, UNCHANGED vars, CheckForShadowing \/ MapTypes \/ UNCHANGED wireVars
  PROVE  Settled'
<1>1. UNCHANGED <<funcs, phase, usesDetail, excluded, include>>
  BY DEF vars
<1>2. Places' = Places /\ Shadowing' = Shadowing
  BY <1>1 DEF Places, Shadowing, Own, ShadowingExempt
<1>3. Supported(include)' = Supported(include)
  BY <1>1 DEF Supported, Needs, Sources, Consumers, MustBeConsumed, MustConsumeFlow, Places
<1>4. ProvidesReturns(Places \ excluded)' = ProvidesReturns(Places \ excluded)
  BY <1>1
  DEF ProvidesReturns, BestMatch, BestType, Offering, Layer, Precedes, Offers, Needs, Seat, Places
<1>5. wiring' = "wired" => phase = "done" /\ Shadowing = {}
  BY DEF BindInv, Settled, CheckForShadowing, MapTypes, wireVars
<1> QED
  BY <1>1, <1>2, <1>3, <1>4, <1>5 DEF BindInv, Settled

LEMMA BindNextInv == BindInv /\ [BindNext]_<<vars, wireVars>> => BindInv'
<1> SUFFICES ASSUME BindInv, [BindNext]_<<vars, wireVars>> PROVE BindInv'
  OBVIOUS
<1>1. CASE Next /\ UNCHANGED wireVars
  BY <1>1, NextInv, IncludeFinal DEF BindInv
<1>2. CASE UNCHANGED vars /\ (CheckForShadowing \/ MapTypes \/ UNCHANGED wireVars)
  BY <1>2, NextInv, WireFinal DEF BindInv
<1> QED
  BY <1>1, <1>2 DEF BindNext, CheckForShadowing, MapTypes

(* All of doBind up to the wiring keeps the marks of inclusion in step     *)
(* with the flows, and ends with a chain that supports itself.             *)
THEOREM BindInvariance == BindSpec => []BindInv
<1> QED
  BY BindInitInv, BindNextInv, PTL DEF BindSpec

-----------------------------------------------------------------------------
(* A chain in which checkForShadowing found nothing: somebody returns the  *)
(* type without receiving it, below whoever returns it at all.             *)
LEMMA SomebodyOwns ==
  ASSUME BindInv, PassedOnIsReturned, phase = "done",
         NEW t \in Types, NEW i \in include, t \in funcs[i].ret
  PROVE  \E l \in Places : l >= i /\ t \in Own(l)
<1> DEFINE Returning == {j \in include : t \in funcs[j].ret}
<1>1. /\ funcs \in Seq(Providers) /\ funcs \in Chains /\ include \subseteq Places
      /\ Places = 1 .. Len(funcs) /\ Len(funcs) \in Nat
  BY DEF BindInv, IInv, Typed, Settled, Places
<1>2. PICK l \in Returning : \A j \in Returning : j <= l
  BY <1>1, LastPlace
<1>3. l \in Places /\ l >= i /\ i \in Nat
  <2>1. i \in Returning /\ i <= l
    BY <1>2
  <2>2. i \in 1 .. Len(funcs) /\ l \in 1 .. Len(funcs) /\ Len(funcs) \in Nat
    BY <1>1, <1>2
  <2> QED
    BY <1>1, <2>1, <2>2
<1>4. ASSUME t \in funcs[l].recv PROVE FALSE
  <2>1. t \in Needs("up", l) /\ Sources("up", l, t) \cap include # {}
    BY <1>2, <1>4 DEF BindInv, Settled, Supported, Needs, Directions
  <2>2. PICK s \in include : s \in Sources("up", l, t)
    BY <2>1
  <2>3. Sources("up", l, t) \subseteq BestMatch(Places \ excluded, "up", l, t)
    <3>1. usesDetail = ProvidesReturns(Places \ excluded)
      BY DEF BindInv, Settled
    <3>2. usesDetail["up"][l][t] =
            IF l \in Places \ excluded /\ t \in Needs("up", l)
            THEN BestMatch(Places \ excluded, "up", l, t) ELSE {}
      BY <1>3, <3>1 DEF ProvidesReturns, Directions
    <3> QED
      BY <3>2 DEF Sources
  <2> DEFINE best == BestType(Places \ excluded, "up", l, t)
  <2>4. s > l /\ best \in funcs[s].ret /\ (best = t \/ t \in funcs[s].loose)
    BY <2>2, <2>3 DEF BestMatch, Offering, Precedes, Offers
  <2>5. s \in Places
    BY <1>1, <2>2
  <2>6. best = t
    BY <1>1, <1>2, <1>3, <1>4, <2>4, <2>5 DEF PassedOnIsReturned, Places
  <2>7. s \in Returning
    BY <2>4, <2>6
  <2> QED
    BY <1>1, <1>2, <2>4, <2>7
<1> QED
  BY <1>2, <1>3, <1>4 DEF Own

(* checkForShadowing: in a chain that was bound nobody overrides a value   *)
(* returned from below that he does not receive, except those who may.     *)
LEMMA NobodyOverrides ==
  ASSUME BindInv, PassedOnIsReturned
  PROVE  NothingOverridden
<1> SUFFICES ASSUME wiring = "wired", NEW i \in include, NEW j \in include,
                    NEW t \in funcs[i].ret \cap funcs[j].ret, i < j,
                    t \notin funcs[i].recv \cup funcs[i].shadow,
                    ~(funcs[i].class = "inject" /\ t = Error)
             PROVE  FALSE
  BY DEF NothingOverridden
<1>1. phase = "done" /\ Shadowing = {} /\ i \in Places /\ j \in Places
  BY DEF BindInv, Settled, IInv, Typed
<1>2. t \in Types /\ i \in Nat /\ j \in Nat
  <2>1. funcs[i] \in Providers /\ Places = 1 .. Len(funcs)
    BY <1>1 DEF BindInv, IInv, Typed, Places
  <2>2. funcs[i].ret \subseteq Types
    BY <2>1 DEF Providers
  <2> QED
    BY <1>1, <2>1, <2>2
<1>3. PICK l \in Places : l >= j /\ t \in Own(l)
  BY <1>1, <1>2, SomebodyOwns
<1>4. t \in Own(i) /\ ~ShadowingExempt(i, t)
  BY DEF Own, ShadowingExempt
<1>5. l \in Nat /\ l > i
  BY <1>2, <1>3 DEF BindInv, IInv, Typed, Places
<1> QED
  BY <1>1, <1>3, <1>4, <1>5 DEF Shadowing

(* "nject rejects chains with shadowing" (api.go:409), for all chains      *)
(* without a Loose provider of what a wrapper passes on.                   *)
THEOREM ReturnsArePreserved ==
  ASSUME PassedOnIsReturned
  PROVE  BindSpec => []NothingOverridden
<1>1. BindInv => NothingOverridden
  BY NobodyOverrides
<1> QED
  BY <1>1, BindInvariance, PTL

(* The validations of a whole Bind are as exact as those of Include alone. *)
THEOREM BindValidatesExactly == BindSpec => []GreatestSupported
<1>1. BindInv => GreatestSupported
  BY GreatestFound DEF BindInv
<1> QED
  BY <1>1, BindInvariance, PTL

(* What inclusion holds on to stays while the chain is checked and wired.  *)
LEMMA BindNextKernel ==
  ASSUME MatchedOneWay, BindInv, Kernel, [BindNext]_<<vars, wireVars>>
  PROVE  Kernel'
<1>1. [Next]_vars
  BY DEF BindNext, CheckForShadowing, MapTypes
<1> QED
  BY <1>1, NextKernel DEF BindInv

(* Bind as a whole does not fail with "internal error: uh oh" either.      *)
THEOREM BindNeverInternal ==
  ASSUME MatchedOneWay
  PROVE  BindSpec => []NoInternalError
<1>1. BindInit => BindInv /\ Kernel
  BY BindInitInv, InitKernel DEF BindInit
<1>2. BindInv /\ Kernel /\ [BindNext]_<<vars, wireVars>> => (BindInv /\ Kernel)'
  BY BindNextInv, BindNextKernel
<1>3. BindInv /\ Kernel => NoInternalError
  BY DEF Kernel, NoInternalError
<1> QED
  BY <1>1, <1>2, <1>3, PTL DEF BindSpec

(* Nor does what follows inclusion in doBind lose a desired provider.      *)
THEOREM BindKeepsDesired ==
  ASSUME MatchedOneWay, DesiredPlainly
  PROVE  BindSpec => []DesiredKept
<1>1. BindInit => BindInv /\ Kernel
  BY BindInitInv, InitKernel DEF BindInit
<1>2. BindInv /\ Kernel /\ [BindNext]_<<vars, wireVars>> => (BindInv /\ Kernel)'
  BY BindNextInv, BindNextKernel
<1>3. BindInv /\ Kernel => DesiredKept
  BY DEF Kernel, DesiredKept, Committed, Wished
<1> QED
  BY <1>1, <1>2, <1>3, PTL DEF BindSpec

-----------------------------------------------------------------------------
(* Greatest numbers of finite sets. *)
LEMMA FiniteMax ==
  ASSUME NEW S \in SUBSET Nat, IsFiniteSet(S), S # {}
  PROVE  \E m \in S : \A x \in S : x <= m
<1> DEFINE Bad(n) == \E T \in SUBSET Nat : /\ IsFiniteSet(T) /\ T # {} /\ Cardinality(T) = n
                                           /\ ~\E m \in T : \A x \in T : x <= m
           N == {n \in Nat : Bad(n)}
<1> SUFFICES ASSUME N # {} PROVE FALSE
  BY FS_CardinalityType
<1>1. PICK n \in N : \A l \in N : n <= l
  BY NatMin
<1>2. PICK T \in SUBSET Nat : /\ IsFiniteSet(T) /\ T # {} /\ Cardinality(T) = n
                              /\ ~\E m \in T : \A x \in T : x <= m
  BY <1>1
<1>3. PICK y \in T : TRUE
  BY <1>2
<1>4. /\ IsFiniteSet(T \ {y}) /\ Cardinality(T \ {y}) = n - 1 /\ T \ {y} \in SUBSET Nat
  BY <1>2, <1>3, FS_RemoveElement
<1>5. n - 1 \in Nat
  BY <1>4, FS_CardinalityType
<1>6. n - 1 \notin N
  BY <1>1, <1>5
<1>7. T \ {y} # {}
  BY <1>2, <1>3
<1>8. PICK m \in T \ {y} : \A x \in T \ {y} : x <= m
  BY <1>4, <1>5, <1>6, <1>7
<1>9. m \in Nat /\ y \in Nat
  BY <1>2, <1>3, <1>8
<1>10. CASE y <= m
  BY <1>2, <1>8, <1>10
<1>11. CASE ~(y <= m)
  <2>1. \A x \in T : x <= y
    BY <1>2, <1>8, <1>9, <1>11
  <2> QED
    BY <1>2, <1>3, <2>1
<1> QED
  BY <1>10, <1>11

LEMMA FiniteBest ==
  ASSUME NEW S, IsFiniteSet(S), S # {}, NEW f \in [S -> Nat]
  PROVE  \E m \in S : \A x \in S : f[x] <= f[m]
<1> DEFINE I == {f[x] : x \in S}
<1>1. I \in SUBSET Nat /\ I # {}
  OBVIOUS
<1>2. IsFiniteSet(I)
  <2>1. f \in Surjection(S, I)
    BY DEF Surjection
  <2> HIDE DEF I
  <2> QED
    BY <2>1, FS_Surjection
<1>3. PICK y \in I : \A x \in I : x <= y
  BY <1>1, <1>2, FiniteMax
<1> QED
  BY <1>3

-----------------------------------------------------------------------------
(* What netFlows has found when it comes to provider m: what is provided   *)
(* before, and what is taken before with nobody to provide it.             *)
GivenTo(flows, m) == UNION {flows[i].out : i \in {i \in DOMAIN flows : i < m}}
LackedTo(flows, m) == UNION {Lacked(flows, i) : i \in {i \in DOMAIN flows : i < m}}

IsRow(flows, n) == n \in Nat /\ DOMAIN flows = 1 .. n
Walking ==
  stage \in Walks =>
    /\ \E n \in Nat : IsRow(Flows(stage), n) /\ k \in 1 .. n + 1
    /\ seenIn = LackedTo(Flows(stage), k)
    /\ seenOut = GivenTo(Flows(stage), k) \ LackedTo(Flows(stage), k)
FlowsInv ==
  /\ stage \in Stages /\ nets = [walk \in Walks |-> nets[walk]]
  /\ stage \in Asking \cup {"begin"} => collection \in Seq(Signatures)
  /\ stage \in {"down", "up"} => \E n \in Nat : DOMAIN listed = 1 .. n
  /\ stage = "begin" => k = 1 /\ seenIn = {} /\ seenOut = {}
  /\ Walking
  /\ NetFlowsAreNet

(* bestMatch: a type is matched with itself or, if nobody provides it,     *)
(* with one that is provided.                                              *)
LEMMA MatchedFacts ==
  ASSUME NEW flows, NEW n, IsRow(flows, n), NEW i, NEW t
  PROVE  Matched(flows, i, t) # t => /\ Available(flows, i, t) = {}
                                    /\ Available(flows, i, Matched(flows, i, t)) # {}
<1> DEFINE candidates == {v \in Types : <<v, t>> \in Implements /\ Available(flows, i, v) # {}}
           Met(v) == Min(Available(flows, i, v))
           Better(v, w) == Met(v) > Met(w) \/ (Met(v) = Met(w) /\ Rank[v] > Rank[w])
           best == CHOOSE v \in candidates : \A w \in candidates \ {v} : Better(v, w)
<1>1. Matched(flows, i, t) =
        IF Available(flows, i, t) # {} \/ candidates = {} THEN t
        ELSE IF \E j \in Available(flows, i, best) : t \in flows[j].loose THEN best ELSE t
  BY DEF Matched
<1>2. ASSUME candidates # {} PROVE \E v \in candidates : \A w \in candidates \ {v} : Better(v, w)
  <2>1. IsFiniteSet(candidates) /\ candidates \subseteq Types
    <3>1. candidates \subseteq Types
      OBVIOUS
    <3> HIDE DEF candidates
    <3> QED
      BY <3>1, FS_Subset, IncludeAssumption
  <2>2. \A v \in candidates : Met(v) \in Nat
    <3> SUFFICES ASSUME NEW v \in candidates PROVE Met(v) \in Nat
      OBVIOUS
    <3>1. Available(flows, i, v) \in SUBSET Nat /\ Available(flows, i, v) # {}
      BY DEF Available, IsRow
    <3>2. PICK A \in SUBSET Nat : A = Available(flows, i, v)
      BY <3>1
    <3>3. \E m \in A : \A x \in A : m <= x
      BY <3>1, <3>2, NatMin
    <3>4. Min(A) \in A
      BY <3>3 DEF Min
    <3> QED
      BY <3>2, <3>4
  <2> HIDE DEF candidates, Met
  <2> DEFINE f == [v \in candidates |-> Met(v)]
  <2>3. PICK M \in candidates : \A x \in candidates : f[x] <= f[M]
    BY <1>2, <2>1, <2>2, FiniteBest
  <2> DEFINE Late == {v \in candidates : Met(v) = Met(M)}
             g == [v \in Late |-> Rank[v]]
  <2>4. IsFiniteSet(Late) /\ Late # {} /\ Late \subseteq candidates
    BY <2>1, <2>3, FS_Subset
  <2>5. g \in [Late -> Nat]
    BY <2>1, <2>4, IncludeAssumption
  <2>6. PICK v \in Late : \A x \in Late : g[x] <= g[v]
    BY <2>4, <2>5, FiniteBest
  <2>7. ASSUME NEW w \in candidates \ {v} PROVE Better(v, w)
    <3>1. Met(w) <= Met(v) /\ Met(v) \in Nat /\ Met(w) \in Nat /\ v \in candidates
      BY <2>2, <2>3, <2>6
    <3>2. CASE Met(w) = Met(v)
      <4>1. w \in Late /\ Rank[w] <= Rank[v]
        BY <2>6, <3>2
      <4>2. v \in Types /\ w \in Types /\ t \in Types /\ {<<v, t>>, <<w, t>>} \subseteq Implements
        BY <2>1, <3>1, IncludeAssumption DEF candidates
      <4>3. Rank[v] # Rank[w] /\ Rank[v] \in Nat /\ Rank[w] \in Nat
        BY <4>2, IncludeAssumption
      <4> QED
        BY <3>2, <4>1, <4>3
    <3>3. CASE Met(w) # Met(v)
      BY <3>1, <3>3
    <3> QED
      BY <3>2, <3>3
  <2> QED
    BY <2>6, <2>7
<1>3. candidates # {} => best \in candidates
  <2> HIDE DEF candidates, Better
  <2> QED
    BY <1>2
<1>4. candidates # {} => Available(flows, i, best) # {}
  <2> DEFINE B == best
  <2>1. candidates # {} => B \in candidates
    BY <1>3
  <2> HIDE DEF B
  <2>2. candidates # {} => Available(flows, i, B) # {}
    BY <2>1
  <2> QED
    BY <2>2 DEF B
<1> HIDE DEF candidates, best
<1> QED
  BY <1>1, <1>4

(* One provider more, or none at all, or all of them. *)
LEMMA NextProvider ==
  ASSUME NEW flows, NEW n, IsRow(flows, n), NEW m \in 1 .. n
  PROVE  /\ LackedTo(flows, m + 1) = LackedTo(flows, m) \cup Lacked(flows, m)
         /\ GivenTo(flows, m + 1) = GivenTo(flows, m) \cup flows[m].out
         /\ \A t : t \in GivenTo(flows, m) <=> Available(flows, m, t) # {}
<1>1. {i \in DOMAIN flows : i < m + 1} = {i \in DOMAIN flows : i < m} \cup {m}
  BY DEF IsRow
<1>2. \A t : t \in GivenTo(flows, m) <=> Available(flows, m, t) # {}
  BY DEF GivenTo, Available
<1> QED
  BY <1>1, <1>2 DEF LackedTo, GivenTo

LEMMA FirstProvider ==
  ASSUME NEW flows, NEW n, IsRow(flows, n)
  PROVE  LackedTo(flows, 1) = {} /\ GivenTo(flows, 1) = {}
<1>1. {i \in DOMAIN flows : i < 1} = {}
  BY DEF IsRow
<1> QED
  BY <1>1 DEF LackedTo, GivenTo

LEMMA AllProviders ==
  ASSUME NEW flows, NEW n, IsRow(flows, n)
  PROVE  LackedTo(flows, n + 1) = Unresolved(flows) /\ GivenTo(flows, n + 1) = Provided(flows)
<1>1. {i \in DOMAIN flows : i < n + 1} = DOMAIN flows
  BY DEF IsRow
<1> QED
  BY <1>1 DEF LackedTo, GivenTo, Unresolved, Provided

(* The flows of a collection change only with its listing.                 *)
LEMMA FlowsKept ==
  ASSUME collection' = collection, NEW walk, walk \in Asking \/ listed' = listed
  PROVE  Flows(walk)' = Flows(walk)
<1>1. CASE listed' = listed
  BY <1>1 DEF Flows
<1>2. CASE walk = "askDown"
  BY <1>2 DEF Flows
<1>3. CASE walk = "askUp"
  BY <1>3 DEF Flows
<1> QED
  BY <1>1, <1>2, <1>3 DEF Asking

LEMMA NetFlowsKeeps == FlowsInv /\ NetFlows => FlowsInv'
<1> SUFFICES ASSUME FlowsInv, NetFlows PROVE FlowsInv'
  OBVIOUS
<1>1. PICK flows : flows = Flows(stage)
  OBVIOUS
<1>2. PICK taken : taken = MatchedIn(flows, k)
  OBVIOUS
<1>3. /\ stage \in Walks /\ k \in DOMAIN flows /\ k' = k + 1
      /\ seenIn' = seenIn \cup (taken \ seenOut)
      /\ seenOut' = seenOut \cup (flows[k].out \ (taken \cup seenIn'))
      /\ UNCHANGED <<collection, stage, listed, nets>>
  BY <1>1, <1>2 DEF NetFlows
<1>4. PICK n \in Nat : IsRow(flows, n) /\ k \in 1 .. n + 1
  BY <1>1, <1>3 DEF FlowsInv, Walking
<1>5. k \in 1 .. n /\ k' \in 1 .. n + 1
  BY <1>3, <1>4 DEF IsRow
<1>6. seenIn = LackedTo(flows, k) /\ seenOut = GivenTo(flows, k) \ LackedTo(flows, k)
  BY <1>1, <1>3 DEF FlowsInv, Walking
<1>7. /\ LackedTo(flows, k + 1) = LackedTo(flows, k) \cup Lacked(flows, k)
      /\ GivenTo(flows, k + 1) = GivenTo(flows, k) \cup flows[k].out
      /\ \A t : t \in GivenTo(flows, k) <=> Available(flows, k, t) # {}
  BY <1>4, <1>5, NextProvider
<1>8. \A t : Matched(flows, k, t) # t => Matched(flows, k, t) \in GivenTo(flows, k) /\ t \notin GivenTo(flows, k)
  BY <1>4, <1>7, MatchedFacts
<1>9. /\ Lacked(flows, k) \subseteq taken /\ Lacked(flows, k) \cap GivenTo(flows, k) = {}
      /\ \A t \in taken : t \in Lacked(flows, k) \/ t \in GivenTo(flows, k)
  <2>1. \A t : t \in Lacked(flows, k) <=>
                 t \in flows[k].in /\ Matched(flows, k, t) = t /\ t \notin GivenTo(flows, k)
    BY <1>7 DEF Lacked
  <2>2. \A u : u \in taken <=> \E t \in flows[k].in : u = Matched(flows, k, t)
    BY <1>2 DEF MatchedIn
  <2> QED
    BY <1>8, <2>1, <2>2
<1>10. seenIn' = LackedTo(flows, k + 1)
  BY <1>3, <1>6, <1>7, <1>9
<1>11. seenOut' = GivenTo(flows, k + 1) \ LackedTo(flows, k + 1)
  BY <1>3, <1>6, <1>7, <1>9, <1>10
<1>12. Flows(stage)' = flows /\ Ended' = Ended /\ \A walk : Flows(walk)' = Flows(walk)
  BY <1>1, <1>3, FlowsKept DEF Ended
<1>13. Walking'
  BY <1>3, <1>4, <1>5, <1>10, <1>11, <1>12 DEF Walking
<1>14. NetFlowsAreNet'
  BY <1>3, <1>12 DEF FlowsInv, NetFlowsAreNet
<1> QED
  BY <1>3, <1>13, <1>14 DEF FlowsInv, Walks, Asking

(* A walk begins with nothing seen. *)
LEMMA WalkBegins ==
  ASSUME stage' \in Walks => \E n \in Nat : IsRow(Flows(stage)', n),
         k' = 1, seenIn' = {}, seenOut' = {}
  PROVE  Walking'
<1> SUFFICES ASSUME stage' \in Walks PROVE Walking'
  BY DEF Walking
<1>1. PICK flows : flows = Flows(stage)'
  OBVIOUS
<1>2. PICK n \in Nat : IsRow(flows, n)
  BY <1>1
<1>3. LackedTo(flows, 1) = {} /\ GivenTo(flows, 1) = {} /\ k' \in 1 .. n + 1
  BY <1>2, FirstProvider
<1> QED
  BY <1>1, <1>2, <1>3 DEF Walking

LEMMA AskedRow ==
  ASSUME collection \in Seq(Signatures), NEW walk \in Asking
  PROVE  \E n \in Nat : IsRow(Flows(walk), n)
<1>1. Len(collection) \in Nat /\ DOMAIN collection = 1 .. Len(collection)
  OBVIOUS
<1>2. DOMAIN Flows(walk) = DOMAIN collection
  <2>1. CASE walk = "askDown"
    BY <2>1 DEF Flows
  <2>2. CASE walk = "askUp"
    BY <2>2 DEF Flows
  <2> QED
    BY <2>1, <2>2 DEF Asking
<1> QED
  BY <1>1, <1>2 DEF IsRow

LEMMA ListedRow ==
  ASSUME \E n \in Nat : DOMAIN listed = 1 .. n, NEW walk \in {"down", "up"}
  PROVE  \E n \in Nat : IsRow(Flows(walk), n)
<1>1. DOMAIN Flows(walk) = DOMAIN listed
  <2>1. CASE walk = "down"
    BY <2>1 DEF Flows
  <2>2. CASE walk = "up"
    BY <2>2 DEF Flows
  <2> QED
    BY <2>1, <2>2
<1> QED
  BY <1>1 DEF IsRow

LEMMA EndNetFlowsKeeps == FlowsInv /\ EndNetFlows => FlowsInv'
<1> SUFFICES ASSUME FlowsInv, EndNetFlows PROVE FlowsInv'
  OBVIOUS
<1>1. PICK walk \in Walks : walk = stage
  BY DEF EndNetFlows
<1>2. /\ k \notin DOMAIN Flows(walk)
      /\ nets' = [nets EXCEPT ![walk] = [in |-> seenIn, out |-> seenOut]]
      /\ stage' = After(walk)
      /\ k' = 1 /\ seenIn' = {} /\ seenOut' = {}
      /\ UNCHANGED <<collection, listed>>
  BY <1>1 DEF EndNetFlows
<1>3. PICK flows : flows = Flows(walk)
  OBVIOUS
<1>4. PICK n \in Nat : IsRow(flows, n) /\ k \in 1 .. n + 1
  BY <1>1, <1>3 DEF FlowsInv, Walking
<1>5. k = n + 1
  BY <1>2, <1>3, <1>4 DEF IsRow
<1>6. seenIn = LackedTo(flows, k) /\ seenOut = GivenTo(flows, k) \ LackedTo(flows, k)
  BY <1>1, <1>3 DEF FlowsInv, Walking
<1>7. LackedTo(flows, n + 1) = Unresolved(flows) /\ GivenTo(flows, n + 1) = Provided(flows)
  BY <1>4, AllProviders
<1>8. seenIn = Unresolved(flows) /\ seenOut = Provided(flows) \ Unresolved(flows)
  BY <1>5, <1>6, <1>7
<1>9. /\ nets' = [w \in Walks |-> nets'[w]]
      /\ nets'[walk].in = seenIn /\ nets'[walk].out = seenOut
      /\ \A w \in Walks \ {walk} : nets'[w] = nets[w]
  BY <1>2 DEF FlowsInv
<1>10. \A w : Flows(w)' = Flows(w)
  BY <1>2, FlowsKept
<1>11. stage' \in Stages
  BY <1>2 DEF After, Walks, Asking, Stages
<1>12. Ended' \subseteq Ended \cup {walk}
  BY <1>1, <1>2 DEF Ended, After, Walks, Asking
<1>13. Ended \subseteq Walks
  BY DEF Ended, Walks, Asking
<1>14. NetFlowsAreNet'
  <2> SUFFICES ASSUME NEW w \in Ended'
               PROVE  /\ nets'[w].in = Unresolved(Flows(w))'
                      /\ nets'[w].out = (Provided(Flows(w)) \ Unresolved(Flows(w)))'
    BY DEF NetFlowsAreNet
  <2>1. Unresolved(Flows(w))' = Unresolved(Flows(w)) /\ Provided(Flows(w))' = Provided(Flows(w))
    BY <1>10
  <2>2. CASE w = walk
    BY <1>3, <1>8, <1>9, <2>1, <2>2
  <2>3. CASE w # walk
    BY <1>9, <1>12, <1>13, <2>1, <2>3 DEF FlowsInv, NetFlowsAreNet
  <2> QED
    BY <2>2, <2>3
<1>15. Walking'
  <2>1. ASSUME stage' \in Walks PROVE \E m \in Nat : IsRow(Flows(stage)', m)
    <3>1. CASE stage' = "askUp"
      <4>1. collection' \in Seq(Signatures) /\ Flows("askUp")' = Flows("askUp")
        BY <1>1, <1>2, <1>10, <3>1 DEF After, FlowsInv, Walks, Asking
      <4> QED
        BY <1>2, <3>1, <4>1, AskedRow DEF Asking
    <3>2. CASE stage' = "up"
      <4>1. (\E m \in Nat : DOMAIN listed = 1 .. m) /\ Flows("up")' = Flows("up")
        BY <1>1, <1>2, <1>10, <3>2 DEF After, FlowsInv, Walks, Asking
      <4> QED
        BY <1>2, <3>2, <4>1, ListedRow
    <3> QED
      BY <1>2, <2>1, <3>1, <3>2 DEF After, Walks, Asking
  <2> QED
    BY <1>2, <2>1, WalkBegins
<1>16. /\ stage' \in Asking \cup {"begin"} => collection' \in Seq(Signatures)
       /\ stage' \in {"down", "up"} => \E m \in Nat : DOMAIN listed' = 1 .. m
  BY <1>1, <1>2 DEF After, FlowsInv, Walks, Asking
<1> QED
  BY <1>2, <1>9, <1>11, <1>14, <1>15, <1>16 DEF FlowsInv

(* A characterized collection is listed without gaps.                      *)
LEMMA JoinedRow ==
  ASSUME NEW p \in Nat, NEW q \in Nat, NEW b, NEW a,
         b = [m \in 1 .. p |-> b[m]], a = [m \in 1 .. q |-> a[m]]
  PROVE  DOMAIN (b \o a) = 1 .. p + q
<1> DEFINE V == {b[m] : m \in 1 .. p} \cup {a[m] : m \in 1 .. q}
<1>1. b \in [1 .. p -> V] /\ a \in [1 .. q -> V]
  OBVIOUS
<1> HIDE DEF V
<1>2. b \in Seq(V) /\ a \in Seq(V) /\ Len(b) = p /\ Len(a) = q
  BY <1>1
<1>3. b \o a \in Seq(V) /\ Len(b \o a) = p + q
  BY <1>2
<1> QED
  BY <1>3

LEMMA FlattenedRow ==
  ASSUME NEW sigs \in Seq(Signatures), NEW types
  PROVE  LET flat == Flattened(sigs, types) IN \E n \in Nat : DOMAIN (flat.before \o flat.after) = 1 .. n
<1>1. PICK N \in Nat : N = Len(sigs)
  OBVIOUS
<1>2. \A S \in SUBSET (1 .. N) : Cardinality(S) \in Nat
  <2>1. IsFiniteSet(1 .. N)
    BY FS_Interval
  <2> SUFFICES ASSUME NEW S \in SUBSET (1 .. N) PROVE Cardinality(S) \in Nat
    OBVIOUS
  <2>2. IsFiniteSet(S)
    BY <2>1, FS_Subset
  <2> QED
    BY <2>2, FS_CardinalityType
<1> DEFINE flat == Flattened(sigs, types)
           before == flat.before
           after == flat.after
<1>3. \E all : \E early, late \in SUBSET (1 .. N) :
        before = InOrder(all, early) /\ after = InOrder(all, late)
  BY <1>1 DEF Flattened
<1>4. \A all, places : InOrder(all, places) = [m \in 1 .. Cardinality(places) |-> InOrder(all, places)[m]]
  BY DEF InOrder
<1> HIDE DEF before, after
<1>5. PICK p \in Nat, q \in Nat :
        before = [m \in 1 .. p |-> before[m]] /\ after = [m \in 1 .. q |-> after[m]]
  BY <1>2, <1>3, <1>4
<1>6. DOMAIN (before \o after) = 1 .. p + q /\ p + q \in Nat
  BY <1>5, JoinedRow
<1> QED
  BY <1>6 DEF before, after


LEMMA CharacterizeAllKeeps == FlowsInv /\ CharacterizeAll => FlowsInv'
<1> SUFFICES ASSUME FlowsInv, CharacterizeAll PROVE FlowsInv'
  OBVIOUS
<1>1. /\ stage = "begin" /\ stage' = "down"
      /\ UNCHANGED <<collection, k, seenIn, seenOut, nets>>
  BY DEF CharacterizeAll
<1>2. collection \in Seq(Signatures) /\ k = 1 /\ seenIn = {} /\ seenOut = {}
  BY <1>1 DEF FlowsInv, Asking
<1>3. \E n \in Nat : DOMAIN listed' = 1 .. n
  BY <1>2, FlattenedRow DEF CharacterizeAll
<1>4. \A walk \in Asking : Flows(walk)' = Flows(walk)
  BY <1>1, FlowsKept
<1>5. NetFlowsAreNet'
  <2>1. Ended = Asking /\ Ended' = Asking
    BY <1>1 DEF Ended, Asking
  <2> QED
    BY <1>1, <1>4, <2>1 DEF FlowsInv, NetFlowsAreNet
<1>6. \E n \in Nat : IsRow(Flows("down"), n)'
  <2>1. DOMAIN Flows("down")' = DOMAIN listed'
    BY DEF Flows
  <2> QED
    BY <1>3, <2>1 DEF IsRow
<1>7. Walking'
  BY <1>1, <1>2, <1>6, WalkBegins
<1> QED
  BY <1>1, <1>3, <1>5, <1>7 DEF FlowsInv, Stages, Walks, Asking

(* Nobody else sees what netFlows finds. *)
LEMMA OthersKeepFlows ==
  ASSUME FlowsInv, UNCHANGED <<collection, listed, k, seenIn, seenOut, nets>>,
         stage' = stage \/ stage' \in {"binding", "condensed", "refused"}
  PROVE  FlowsInv'
<1>1. \A walk : Flows(walk)' = Flows(walk)
  BY FlowsKept
<1>2. CASE stage' = stage
  <2>1. Ended' = Ended
    BY <1>2 DEF Ended
  <2>2. NetFlowsAreNet'
    BY <1>1, <2>1 DEF FlowsInv, NetFlowsAreNet
  <2>3. Walking'
    BY <1>1, <1>2 DEF FlowsInv, Walking
  <2> QED
    BY <1>2, <2>2, <2>3 DEF FlowsInv
<1>3. CASE stage' \in {"binding", "condensed", "refused"}
  <2>1. Ended' = {}
    BY <1>3 DEF Ended
  <2> QED
    BY <1>3, <2>1 DEF FlowsInv, NetFlowsAreNet, Walking, Walks, Asking, Stages
<1> QED
  BY <1>2, <1>3

LEMMA FlowsInit == CondenseInit => FlowsInv
<1> SUFFICES ASSUME CondenseInit PROVE FlowsInv
  OBVIOUS
<1>1. listed = <<>> /\ k = 1 /\ seenIn = {} /\ seenOut = {} /\ nets = NoFlows
  BY DEF CondenseInit
<1>2. nets = [walk \in Walks |-> nets[walk]]
  BY <1>1 DEF NoFlows
<1>3. CASE InitDirect
  BY <1>2, <1>3 DEF InitDirect, FlowsInv, Walking, NetFlowsAreNet, Ended, Stages, Walks, Asking
<1>4. CASE InitCondense
  <2>1. stage = "askDown" /\ collection \in Seq(Signatures)
    BY <1>4, CondenseAssumption DEF InitCondense
  <2>2. PICK flows : flows = Flows("askDown")
    OBVIOUS
  <2>3. PICK n \in Nat : IsRow(flows, n)
    BY <2>1, <2>2, AskedRow DEF Asking
  <2>4. LackedTo(flows, 1) = {} /\ GivenTo(flows, 1) = {} /\ k \in 1 .. n + 1
    BY <1>1, <2>3, FirstProvider
  <2>5. Walking
    BY <1>1, <2>1, <2>2, <2>3, <2>4 DEF Walking
  <2>6. Ended = {}
    BY <2>1 DEF Ended
  <2> QED
    BY <1>2, <2>1, <2>5, <2>6 DEF FlowsInv, NetFlowsAreNet, Stages, Walks, Asking
<1> QED
  BY <1>3, <1>4 DEF CondenseInit

LEMMA FlowsNext == FlowsInv /\ [CondenseNext]_allVars => FlowsInv'
<1> SUFFICES ASSUME FlowsInv, [CondenseNext]_allVars PROVE FlowsInv'
  OBVIOUS
<1>1. CASE BindNext /\ UNCHANGED condenseVars
  BY <1>1, OthersKeepFlows DEF condenseVars
<1>2. CASE NetFlows
  BY <1>2, NetFlowsKeeps
<1>3. CASE EndNetFlows
  BY <1>3, EndNetFlowsKeeps
<1>4. CASE RefuseLast
  BY <1>4, OthersKeepFlows DEF RefuseLast
<1>5. CASE CharacterizeAll
  BY <1>5, CharacterizeAllKeeps
<1>6. CASE BindInner
  BY <1>6, OthersKeepFlows DEF BindInner
<1>7. CASE Return
  BY <1>7, OthersKeepFlows DEF Return
<1>8. CASE RefuseBound
  BY <1>8, OthersKeepFlows DEF RefuseBound
<1>9. CASE UNCHANGED allVars
  BY <1>9, OthersKeepFlows DEF allVars, condenseVars
<1> QED
  BY <1>1, <1>2, <1>3, <1>4, <1>5, <1>6, <1>7, <1>8, <1>9 DEF CondenseNext

(* netFlows keeps two sets, what is taken with nobody to provide it and    *)
(* what is provided and never taken so, and they are exact at each         *)
(* provider that it comes to.                                              *)
THEOREM FlowsInvariance == CondenseSpec => []FlowsInv
<1> QED
  BY FlowsInit, FlowsNext, PTL DEF CondenseSpec

(* "DownFlows provides the net unresolved flows down the injection chain"  *)
(* (flows.go:110-112): so it is for every collection, whether or not it is *)
(* characterized, and so are the flows up.                                 *)
THEOREM NetFlowsFound == CondenseSpec => []NetFlowsAreNet
<1>1. FlowsInv => NetFlowsAreNet
  BY DEF FlowsInv
<1> QED
  BY <1>1, FlowsInvariance, PTL


-----------------------------------------------------------------------------
(* What the slots of types are in the end, and who is there then.          *)
WireInv ==
  /\ phase \in {"last", "done"} => \A i \in Places : funcs[i].required => i \in include
  /\ wiring # "open" => phase = "done"
  /\ wiring = "wired" => downVmap = DownMapped /\ upVmap = UpMapped
  /\ wiring = "initless" => \E i \in Places : funcs[i].class = "init" /\ ~(funcs[i].in \subseteq StaticMapped)

LEMMA WireInitInv == BindInit => WireInv
BY DEF BindInit, Init, WireInit, WireInv

(* Nothing that is required is dropped by the last validation.             *)
LEMMA RequiredStay ==
  ASSUME BindInv, WireInv, Next, phase' \in {"last", "done"}
  PROVE  \A i \in Places : funcs[i].required => i \in include'
<1>1. CASE CalculateFinalFlows
  BY <1>1 DEF CalculateFinalFlows
<1>2. CASE ~CalculateFinalFlows
  <2>1. \/ phase = "last" /\ (Finish \/ \E i \in Places : CheckHolds(i) \/ CheckFails(i) \/ Drop(i))
    BY <1>2 DEF Next, CheckHolds, CheckFails, Drop, Refuse, Visit, KeepUsed, EliminateUnused,
      ExcludeImpossible, Propose, SkipProposal, TryWithout, ExcludeTried, Finish, Strict, Validating
  <2>2. \A i \in Places : funcs[i].required => i \in include
    BY <2>1 DEF WireInv
  <2> QED
    BY <2>1, <2>2 DEF Finish, CheckHolds, CheckFails, Drop, Fatal
<1> QED
  BY <1>1, <1>2

(* The slots depend on what inclusion has decided, and nothing else.       *)
LEMMA MappedSame ==
  ASSUME UNCHANGED <<funcs, include, excluded>>
  PROVE  DownMapped' = DownMapped /\ UpMapped' = UpMapped /\ StaticMapped' = StaticMapped
<1>1. \A L, dir, i, t : BestMatch(L, dir, i, t)' = BestMatch(L, dir, i, t)
                        /\ BestType(L, dir, i, t)' = BestType(L, dir, i, t)
  BY DEF BestMatch, BestType, Offering, Layer, Precedes, Offers, Seat, Places
<1>2. \A dir, i, t : Rmap(dir, i, t)' = Rmap(dir, i, t)
  BY <1>1 DEF Rmap, Places
<1>3. \A dir, i, S : Remapped(dir, i, S)' = Remapped(dir, i, S)
  BY <1>2 DEF Remapped, Needs
<1>4. Flowing' = Flowing /\ InvokeIndex' = InvokeIndex
  BY DEF Flowing, InvokeIndex, Places
<1>5. StaticMapped' = StaticMapped
  BY <1>3, <1>4 DEF StaticMapped
<1>6. RunPlaces' = RunPlaces
  BY <1>4 DEF RunPlaces
<1>7. DownMapped' = DownMapped
  BY <1>3, <1>4, <1>5, <1>6 DEF DownMapped
<1>8. UpMapped' = UpMapped
  BY <1>3, <1>4, <1>6 DEF UpMapped
<1> QED
  BY <1>5, <1>7, <1>8

LEMMA WireNextInv ==
  ASSUME BindInv, WireInv, [BindNext]_<<vars, wireVars>>
  PROVE  WireInv'
<1>1. CASE Next /\ UNCHANGED wireVars
  <2>1. phase # "done" /\ Places' = Places /\ funcs' = funcs
    BY <1>1 DEF Next, CheckHolds, CheckFails, Drop, Refuse, Visit, KeepUsed, EliminateUnused, Validating,
      ExcludeImpossible, Propose, SkipProposal, TryWithout, ExcludeTried, CalculateFinalFlows, Finish, Places
  <2>2. wiring' = "open"
    BY <1>1, <2>1 DEF WireInv, wireVars
  <2>3. phase' \in {"last", "done"} => \A i \in Places' : funcs'[i].required => i \in include'
    BY <1>1, <2>1, RequiredStay
  <2> QED
    BY <2>2, <2>3 DEF WireInv
<1>2. CASE UNCHANGED vars /\ (CheckForShadowing \/ MapTypes \/ UNCHANGED wireVars)
  <2>1. UNCHANGED <<funcs, phase, include, excluded>> /\ Places' = Places
    BY <1>2 DEF vars, Places
  <2>2. DownMapped' = DownMapped /\ UpMapped' = UpMapped /\ StaticMapped' = StaticMapped
    BY <2>1, MappedSame
  <2>3. wiring' # "open" => phase' = "done"
    BY <1>2, <2>1 DEF WireInv, CheckForShadowing, MapTypes, wireVars
  <2>4. wiring' = "wired" => downVmap' = DownMapped /\ upVmap' = UpMapped
    BY <1>2 DEF WireInv, CheckForShadowing, MapTypes, wireVars
  <2>5. wiring' = "initless" => \E i \in Places : funcs[i].class = "init" /\ ~(funcs[i].in \subseteq StaticMapped)
    BY <1>2 DEF WireInv, CheckForShadowing, MapTypes, wireVars
  <2> QED
    BY <2>1, <2>2, <2>3, <2>4, <2>5 DEF WireInv
<1> QED
  BY <1>1, <1>2 DEF BindNext, CheckForShadowing, MapTypes

-----------------------------------------------------------------------------
(* Turns of literals, the init function, the static set and the run set.   *)
LEMMA TurnsByStage ==
  ASSUME Typed, NEW j \in Places, NEW l \in Places
  PROVE  /\ Turn(j) \in Nat
         /\ Stage(funcs[j]) < Stage(funcs[l]) => Turn(j) < Turn(l)
         /\ Stage(funcs[j]) = Stage(funcs[l]) => (j < l <=> Turn(j) < Turn(l))
<1>1. PICK N : N = Len(funcs)
  OBVIOUS
<1>2. N \in Nat /\ j \in 1 .. N /\ l \in 1 .. N
  BY <1>1 DEF Typed, Places
<1>3. \A p : Stage(p) \in {0, 1, 2, 3}
  BY DEF Stage
<1>4. \A s \in {0, 1, 2, 3} :
        s * N = IF s = 0 THEN 0 ELSE IF s = 1 THEN N ELSE IF s = 2 THEN N + N ELSE N + N + N
  BY <1>2
<1>5. PICK x, y : x = Stage(funcs[j]) /\ y = Stage(funcs[l])
  OBVIOUS
<1>6. x \in {0, 1, 2, 3} /\ y \in {0, 1, 2, 3}
  BY <1>3, <1>5
<1>7. PICK m, n : m = x * N /\ n = y * N
  OBVIOUS
<1>8. /\ m = IF x = 0 THEN 0 ELSE IF x = 1 THEN N ELSE IF x = 2 THEN N + N ELSE N + N + N
      /\ n = IF y = 0 THEN 0 ELSE IF y = 1 THEN N ELSE IF y = 2 THEN N + N ELSE N + N + N
  BY <1>4, <1>6, <1>7
<1>9. Turn(j) = m + j /\ Turn(l) = n + l
  BY <1>1, <1>5, <1>7 DEF Turn
<1>10. /\ m + j \in Nat
       /\ x < y => m + j < n + l
       /\ x = y => (j < l <=> m + j < n + l)
  BY <1>2, <1>6, <1>8
<1> QED
  BY <1>5, <1>9, <1>10


(* bestMatch: a type is matched with itself or with one that implements    *)
(* it: there is a best one among those that do.                            *)
LEMMA BestTypeFits ==
  ASSUME Typed, NEW L \in SUBSET Places, NEW dir \in Directions, NEW i, NEW t \in Types,
         BestType(L, dir, i, t) # t
  PROVE  BestType(L, dir, i, t) \in Types /\ <<BestType(L, dir, i, t), t>> \in Implements
<1> DEFINE candidates == {u \in Types : <<u, t>> \in Implements /\ Offering(L, dir, i, u) # {}}
           Lay(u) == Layer(L, dir, i, u)
           Better(u, v) == Lay(u) > Lay(v) \/ (Lay(u) = Lay(v) /\ Rank[u] > Rank[v])
           best == CHOOSE u \in candidates : \A v \in candidates \ {u} : Better(u, v)
<1>1. candidates # {} /\ BestType(L, dir, i, t) = best
  BY DEF BestType
<1>2. candidates \subseteq Types /\ IsFiniteSet(candidates)
  <2>1. candidates \subseteq Types
    OBVIOUS
  <2> HIDE DEF candidates
  <2> QED
    BY <2>1, FS_Subset, IncludeAssumption
<1>3. ASSUME NEW u \in candidates PROVE Lay(u) \in Nat
  <2>1. Offering(L, dir, i, u) \in SUBSET (1 .. Len(funcs)) /\ Offering(L, dir, i, u) # {} /\ Len(funcs) \in Nat
    BY DEF Offering, Typed, Places
  <2>2. PICK A \in SUBSET (1 .. Len(funcs)) : A = Offering(L, dir, i, u) /\ A # {}
    BY <2>1
  <2>3. Min(A) \in A
    <3>1. A \in SUBSET Nat /\ A # {}
      BY <2>1, <2>2
    <3>2. \E m \in A : \A x \in A : m <= x
      BY <3>1, NatMin
    <3> QED
      BY <3>2 DEF Min
  <2>4. Max(A) \in A
    <3>1. PICK m \in A : \A x \in A : x <= m
      BY <2>1, <2>2, LastPlace
    <3>2. \A x \in A : m >= x
      BY <2>1, <2>2, <3>1
    <3> QED
      BY <3>1, <3>2 DEF Max
  <2>5. Lay(u) \in {Min(A), Len(funcs) - Max(A)}
    BY <2>2 DEF Layer
  <2>6. Min(A) \in 1 .. Len(funcs) /\ Max(A) \in 1 .. Len(funcs)
    BY <2>2, <2>3, <2>4
  <2>7. \A x, y \in 1 .. Len(funcs) : x \in Nat /\ Len(funcs) - y \in Nat
    BY <2>1
  <2> QED
    BY <2>5, <2>6, <2>7
<1> HIDE DEF Lay
<1> DEFINE f == [u \in candidates |-> Lay(u)]
<1>4. PICK M \in candidates : \A x \in candidates : f[x] <= f[M]
  <2> HIDE DEF candidates
  <2> QED
    BY <1>1, <1>2, <1>3, FiniteBest
<1> DEFINE Late == {u \in candidates : Lay(u) = Lay(M)}
           g == [u \in Late |-> Rank[u]]
<1>5. IsFiniteSet(Late) /\ Late # {} /\ Late \subseteq candidates
  <2> HIDE DEF candidates
  <2> QED
    BY <1>2, <1>4, FS_Subset
<1>6. PICK u \in Late : \A x \in Late : g[x] <= g[u]
  <2>1. g \in [Late -> Nat]
    BY <1>2, <1>5, IncludeAssumption
  <2> HIDE DEF Late, g
  <2> QED
    BY <1>5, <2>1, FiniteBest
<1>7. ASSUME NEW v \in candidates \ {u} PROVE Better(u, v)
  <2>1. Lay(v) <= Lay(u) /\ Lay(u) \in Nat /\ Lay(v) \in Nat /\ u \in candidates
    BY <1>3, <1>4, <1>6
  <2>2. CASE Lay(v) = Lay(u)
    <3>1. v \in Late /\ Rank[v] <= Rank[u]
      BY <1>6, <2>2
    <3>2. u \in Types /\ v \in Types /\ {<<u, t>>, <<v, t>>} \subseteq Implements
      BY <1>2, <2>1
    <3>3. Rank[u] # Rank[v] /\ Rank[u] \in Nat /\ Rank[v] \in Nat
      BY <3>2, IncludeAssumption
    <3> QED
      BY <2>2, <3>1, <3>3
  <2>3. CASE Lay(v) # Lay(u)
    BY <2>1, <2>3
  <2> QED
    BY <2>2, <2>3
<1>8. \E x \in candidates : \A v \in candidates \ {x} : Better(x, v)
  <2>1. u \in candidates
    BY <1>5, <1>6
  <2> QED
    BY <1>7, <2>1
<1>9. best \in candidates
  <2> HIDE DEF candidates, Better
  <2> QED
    BY <1>8
<1> QED
  BY <1>1, <1>9


(* What inclusion matched with type t is exactly who gives, among those    *)
(* that are left and stand before i, the type that t is mapped to.         *)
LEMMA MatchedAreGivers ==
  ASSUME BindInv, phase = "done", LooseAlike(funcs),
         NEW dir \in Directions, NEW i \in include, NEW t \in Needs(dir, i)
  PROVE  LET u == Rmap(dir, i, t)
             S == Sources(dir, i, t) \cap include IN
         /\ S # {} /\ u \in Types
         /\ \A j \in include : j \in S <=> Precedes(dir, j, i) /\ u \in Offers(dir, j)
         /\ u = t \/ (<<u, t>> \in Implements /\ \E s \in S : t \in funcs[s].loose)
<1> DEFINE L == Places \ excluded
           u == Rmap(dir, i, t)
           S == Sources(dir, i, t) \cap include
<1>1. /\ Typed /\ include \subseteq L /\ i \in Places /\ i \in L /\ i \notin excluded
      /\ usesDetail = ProvidesReturns(L) /\ Supported(include)
  BY DEF BindInv, IInv, Settled
<1>2. t \in Types /\ S # {}
  BY <1>1, FlowTypes DEF Supported
<1>3. Sources(dir, i, t) = BestMatch(L, dir, i, t)
  BY <1>1, <1>2 DEF Sources, ProvidesReturns
<1>4. u = BestType(L, dir, i, t)
  BY <1>1, <1>2, <1>3 DEF Rmap
<1>5. u = t \/ (u \in Types /\ <<u, t>> \in Implements)
  BY <1>1, <1>2, <1>4, BestTypeFits
<1>6. \A j \in include :
        j \in S <=> Precedes(dir, j, i) /\ u \in Offers(dir, j) /\ (u = t \/ t \in funcs[j].loose)
  BY <1>1, <1>3, <1>4 DEF BestMatch, Offering
<1>7. PICK s : s \in S
  BY <1>2
<1>8. ASSUME u # t, NEW j \in include, u \in Offers(dir, j) PROVE t \in funcs[j].loose
  <2>1. s \in include /\ t \in funcs[s].loose /\ u \in Offers(dir, s)
    BY <1>6, <1>7, <1>8
  <2>2. s \in DOMAIN funcs /\ j \in DOMAIN funcs
    BY <1>1, <2>1 DEF Places
  <2>3. u \in (funcs[s].out \cap funcs[j].out) \cup (funcs[s].ret \cap funcs[j].ret)
    BY <1>8, <2>1 DEF Offers
  <2> QED
    BY <1>5, <1>8, <2>1, <2>2, <2>3 DEF LooseAlike
<1>9. \A j \in include : j \in S <=> Precedes(dir, j, i) /\ u \in Offers(dir, j)
  BY <1>6, <1>8
<1>10. u = t \/ (<<u, t>> \in Implements /\ \E x \in S : t \in funcs[x].loose)
  BY <1>5, <1>6, <1>7
<1> QED
  BY <1>2, <1>5, <1>9, <1>10

(* Where the invoke function stands.                                       *)
LEMMA InvokePlace ==
  ASSUME BindInv
  PROVE  \E p \in Places : /\ funcs[p].class = "invoke"
                           /\ p = CHOOSE i \in Places : funcs[i].class = "invoke"
                           /\ \A i \in Places : Seat(i) = IF funcs[i].class = "init" THEN p ELSE i
                           /\ InvokeIndex = IF funcs[1] = UnusedInput THEN p - 1 ELSE p
                           /\ Places = 1 .. Len(funcs) /\ Len(funcs) \in Nat
<1>1. funcs \in Chains /\ funcs \in Seq(Providers)
  BY DEF BindInv, Settled, IInv, Typed
<1>2. \E i \in Places : funcs[i].class = "invoke"
  BY <1>1, IncludeAssumption DEF Places
<1>3. PICK p : p = CHOOSE i \in Places : funcs[i].class = "invoke"
  OBVIOUS
<1>4. p \in Places /\ funcs[p].class = "invoke"
  BY <1>2, <1>3
<1>5. \A i \in Places : Seat(i) = IF funcs[i].class = "init" THEN p ELSE i
  BY <1>3 DEF Seat
<1>6. InvokeIndex = IF funcs[1] = UnusedInput THEN p - 1 ELSE p
  BY <1>3 DEF InvokeIndex
<1>7. Places = 1 .. Len(funcs) /\ Len(funcs) \in Nat
  BY <1>1 DEF Places
<1> QED
  BY <1>3, <1>4, <1>5, <1>6, <1>7

(* Which types get a slot.                                                 *)
LEMMA SlotsOf ==
  ASSUME NEW x \in Flowing, NEW j
  PROVE  /\ j \in RunPlaces /\ x \in Remapped("down", j, funcs[j].in) => x \in DownMapped
         /\ j \in RunPlaces /\ x \in Remapped("up", j, funcs[j].ret) => x \in UpMapped
         /\ j \in 1 .. InvokeIndex - 1 /\ x \in Remapped("down", j, funcs[j].out) => x \in StaticMapped
         /\ x \in StaticMapped => x \in DownMapped
<1>1. ASSUME j \in RunPlaces, x \in Remapped("down", j, funcs[j].in) PROVE x \in DownMapped
  <2> DEFINE R == {Remapped("down", i, funcs[i].in) : i \in RunPlaces}
  <2>1. Remapped("down", j, funcs[j].in) \in R
    BY <1>1
  <2>2. x \in UNION R
    BY <1>1, <2>1
  <2>3. x \in (UNION R) \cap Flowing
    BY <2>2
  <2> QED
    BY <2>3 DEF DownMapped
<1>2. ASSUME j \in RunPlaces, x \in Remapped("up", j, funcs[j].ret) PROVE x \in UpMapped
  <2> DEFINE R == {Remapped("up", i, funcs[i].ret) : i \in RunPlaces}
  <2>1. Remapped("up", j, funcs[j].ret) \in R
    BY <1>2
  <2>2. x \in UNION R
    BY <1>2, <2>1
  <2>3. x \in (UNION R) \cap Flowing
    BY <2>2
  <2> QED
    BY <2>3 DEF UpMapped
<1>3. ASSUME j \in 1 .. InvokeIndex - 1, x \in Remapped("down", j, funcs[j].out) PROVE x \in StaticMapped
  <2> DEFINE R == {Remapped("down", i, funcs[i].out) : i \in 1 .. InvokeIndex - 1}
  <2>1. Remapped("down", j, funcs[j].out) \in R
    BY <1>3
  <2>2. x \in UNION R
    BY <1>3, <2>1
  <2>3. x \in (UNION R) \cap Flowing
    BY <2>2
  <2> QED
    BY <2>3 DEF StaticMapped
<1>4. ASSUME x \in StaticMapped PROVE x \in DownMapped
  BY <1>4 DEF DownMapped
<1> QED
  BY <1>1, <1>2, <1>3, <1>4

(* The type that an input is mapped to has a slot.                         *)
LEMMA DownHasSlot ==
  ASSUME BindInv, phase = "done", Wireable(funcs), NEW i \in include, NEW t \in funcs[i].in
  PROVE  /\ Rmap("down", i, t) \in DownMapped
         /\ funcs[i].class = "init" => t \in StaticMapped
<1> DEFINE u == Rmap("down", i, t)
           S == Sources("down", i, t) \cap include
<1>1. Typed /\ include \subseteq Places /\ LooseAlike(funcs) /\ "down" \in Directions
  BY DEF BindInv, IInv, Typed, Wireable, Directions
<1>2. Needs("down", i) = funcs[i].in
  BY DEF Needs
<1>3. /\ \A j \in include : j \in S <=> j < Seat(i) /\ u \in funcs[j].out
      /\ u = t \/ \E s \in S : t \in funcs[s].loose
      /\ \E s \in S : s \in include
  <2>1. /\ S # {} /\ \A j \in include : j \in S <=> Precedes("down", j, i) /\ u \in Offers("down", j)
        /\ u = t \/ \E s \in S : t \in funcs[s].loose
    BY <1>1, <1>2, MatchedAreGivers
  <2> QED
    BY <2>1 DEF Precedes, Offers
<1>4. PICK p \in Places : /\ funcs[p].class = "invoke"
                          /\ Seat(i) = IF funcs[i].class = "init" THEN p ELSE i
                          /\ InvokeIndex = IF funcs[1] = UnusedInput THEN p - 1 ELSE p
                          /\ Places = 1 .. Len(funcs) /\ Len(funcs) \in Nat
  BY <1>1, InvokePlace
<1>5. PICK j \in include : j < Seat(i) /\ u \in funcs[j].out
  BY <1>3
<1>6. u \in Flowing
  BY <1>5 DEF Flowing
<1>7. i \in 1 .. Len(funcs) /\ j \in 1 .. Len(funcs) /\ p \in 1 .. Len(funcs) /\ InvokeIndex \in Int
  BY <1>1, <1>4, <1>5
<1>8. ASSUME i >= InvokeIndex, funcs[i].class # "init" PROVE u \in DownMapped
  <2>1. i \in RunPlaces
    BY <1>4, <1>7, <1>8 DEF RunPlaces
  <2>2. u \in Remapped("down", i, funcs[i].in)
    BY <1>2, <1>8 DEF Remapped
  <2> QED
    BY <1>6, <2>1, <2>2, SlotsOf
<1>9. u \in Remapped("down", j, funcs[j].out)
  <2>1. CASE u \in Needs("down", j) /\ funcs[j].class # "init"
    <3>1. \A s \in Places : u \notin funcs[s].loose
      BY <1>1, <1>5, <2>1 DEF Wireable, PassedOnAsSuch, Places, Needs
    <3>2. Rmap("down", j, u) = u
      BY <1>1, <2>1, <3>1, MatchedAreGivers
    <3> QED
      BY <1>5, <2>1, <3>2 DEF Remapped
  <2>2. CASE ~(u \in Needs("down", j) /\ funcs[j].class # "init")
    BY <1>5, <2>2 DEF Remapped
  <2> QED
    BY <2>1, <2>2
<1>10. ASSUME j < InvokeIndex PROVE u \in StaticMapped
  <2>1. j \in 1 .. InvokeIndex - 1
    BY <1>7, <1>10
  <2> QED
    BY <1>6, <1>9, <2>1, SlotsOf
<1>11. CASE funcs[i].class = "init"
  <2>1. funcs[1] # UnusedInput /\ \A s \in Places : t \notin funcs[s].loose
    BY <1>1, <1>11 DEF Wireable, PassedOnAsSuch, InvokeInPlace, Places
  <2>2. u = t
    BY <1>1, <1>3, <2>1
  <2>3. u \in StaticMapped
    BY <1>4, <1>5, <1>10, <1>11, <2>1
  <2> QED
    BY <2>2, <2>3 DEF DownMapped
<1>12. CASE funcs[i].class # "init" /\ i < InvokeIndex
  <2>1. j < InvokeIndex
    BY <1>4, <1>5, <1>7, <1>12
  <2> QED
    BY <1>10, <1>12, <2>1 DEF DownMapped
<1> QED
  BY <1>7, <1>8, <1>11, <1>12

(* The type that a received value is mapped to has a slot.                 *)
LEMMA UpHasSlot ==
  ASSUME BindInv, phase = "done", Wireable(funcs), NEW i \in include, NEW t \in funcs[i].recv
  PROVE  Rmap("up", i, t) \in UpMapped
<1> DEFINE u == Rmap("up", i, t)
           S == Sources("up", i, t) \cap include
<1>1. Typed /\ include \subseteq Places /\ LooseAlike(funcs) /\ "up" \in Directions /\ "up" # "down"
  BY DEF BindInv, IInv, Typed, Wireable, Directions
<1>2. Needs("up", i) = funcs[i].recv
  BY DEF Needs
<1>3. /\ \A j \in include : j \in S <=> j > i /\ u \in funcs[j].ret
      /\ \E s \in S : s \in include
  <2>1. S # {} /\ \A j \in include : j \in S <=> Precedes("up", j, i) /\ u \in Offers("up", j)
    BY <1>1, <1>2, MatchedAreGivers
  <2> QED
    BY <1>1, <2>1 DEF Precedes, Offers
<1>4. PICK p \in Places : /\ funcs[p].class = "invoke"
                          /\ InvokeIndex = IF funcs[1] = UnusedInput THEN p - 1 ELSE p
                          /\ Places = 1 .. Len(funcs) /\ Len(funcs) \in Nat
  BY InvokePlace
<1>5. PICK j \in include : j > i /\ u \in funcs[j].ret
  BY <1>3
<1>6. u \in Flowing
  BY <1>5 DEF Flowing
<1>7. i \in 1 .. Len(funcs) /\ j \in 1 .. Len(funcs) /\ p \in 1 .. Len(funcs) /\ InvokeIndex \in Int
  BY <1>1, <1>4, <1>5
<1>8. ~(i < p)
  BY <1>4, <1>7 DEF Wireable, InvokeInPlace, Places
<1>9. j \in RunPlaces
  BY <1>4, <1>5, <1>7, <1>8 DEF RunPlaces
<1>10. u \in Remapped("up", j, funcs[j].ret)
  <2>1. CASE u \in Needs("up", j) /\ funcs[j].class # "init"
    <3>1. \A s \in Places : u \notin funcs[s].loose
      BY <1>1, <1>5, <2>1 DEF Wireable, PassedOnAsSuch, Places, Needs
    <3>2. Rmap("up", j, u) = u
      BY <1>1, <2>1, <3>1, MatchedAreGivers
    <3> QED
      BY <1>5, <2>1, <3>2 DEF Remapped
  <2>2. CASE ~(u \in Needs("up", j) /\ funcs[j].class # "init")
    BY <1>5, <2>2 DEF Remapped
  <2> QED
    BY <2>1, <2>2
<1> QED
  BY <1>6, <1>9, <1>10, SlotsOf


(* Among the providers that are left, those of one type take their turns   *)
(* in the order of places, and each before those that it serves.           *)
LEMMA TurnsInOrder ==
  ASSUME BindInv, Wireable(funcs), NEW i \in Places, NEW j \in Places
  PROVE  /\ \A h \in Places : funcs[j].out \cap funcs[h].out # {} => (j <= h => Turn(j) <= Turn(h))
         /\ \A u \in funcs[j].out : u \in Fitting(funcs[i]) \/ funcs[i].class = "init"
              => (j < Seat(i) <=> Turn(j) < Turn(Seat(i)))
<1>1. Typed /\ StoredInOrder(funcs) /\ InvokeInPlace(funcs) /\ \A p : Stage(p) \in {0, 1, 2, 3}
  BY DEF BindInv, IInv, Wireable, Stage
<1>2. PICK p \in Places : /\ funcs[p].class = "invoke"
                          /\ Seat(i) = IF funcs[i].class = "init" THEN p ELSE i
                          /\ Places = 1 .. Len(funcs) /\ Len(funcs) \in Nat
  BY InvokePlace
<1>3. \A h \in Places : h \in Nat
  BY <1>2
<1>4. ASSUME NEW g \in Places, NEW h \in Places
      PROVE  /\ Turn(g) \in Nat
             /\ Stage(funcs[g]) < Stage(funcs[h]) => Turn(g) < Turn(h)
             /\ Stage(funcs[g]) = Stage(funcs[h]) => (g < h <=> Turn(g) < Turn(h))
             /\ Stage(funcs[g]) < Stage(funcs[h]) \/ Stage(funcs[g]) = Stage(funcs[h])
                  \/ Stage(funcs[h]) < Stage(funcs[g])
  BY <1>1, TurnsByStage
<1>5. ASSUME NEW h \in Places, funcs[j].out \cap funcs[h].out # {}, j <= h
      PROVE  Turn(j) <= Turn(h)
  <2>1. CASE j = h
    BY <1>4, <2>1
  <2>2. CASE j < h
    <3>1. ~(Stage(funcs[h]) < Stage(funcs[j]))
      BY <1>1, <1>5, <2>2 DEF StoredInOrder, Places
    <3>2. Turn(j) < Turn(h)
      BY <1>4, <2>2, <3>1
    <3> QED
      BY <1>4, <3>2
  <2> QED
    BY <1>3, <1>5, <2>1, <2>2
<1>6. ASSUME NEW u \in funcs[j].out, u \in Fitting(funcs[i]), funcs[i].class # "init"
      PROVE  j < i <=> Turn(j) < Turn(i)
  <2>1. CASE Stage(funcs[j]) = Stage(funcs[i])
    BY <1>4, <2>1
  <2>2. CASE Stage(funcs[j]) < Stage(funcs[i])
    <3>1. ~(i < j)
      BY <1>1, <1>6, <2>2 DEF StoredInOrder, Places
    <3>2. i # j
      BY <1>1, <2>2
    <3> QED
      BY <1>3, <1>4, <2>2, <3>1, <3>2
  <2>3. CASE Stage(funcs[i]) < Stage(funcs[j])
    <3>1. ~(j < i)
      BY <1>1, <1>6, <2>3 DEF StoredInOrder, Places
    <3>2. Turn(i) < Turn(j)
      BY <1>4, <2>3
    <3> QED
      BY <1>4, <3>1, <3>2
  <2> QED
    BY <1>4, <2>1, <2>2, <2>3
<1>7. j < p <=> Turn(j) < Turn(p)
  <2>1. Stage(funcs[p]) = 3
    BY <1>2 DEF Stage
  <2>2. CASE j < p
    <3>1. Stage(funcs[j]) < Stage(funcs[p]) \/ Stage(funcs[j]) = Stage(funcs[p])
      BY <1>1, <2>1
    <3> QED
      BY <1>4, <2>2, <3>1
  <2>3. CASE p < j
    <3>1. Stage(funcs[j]) = 3
      BY <1>1, <1>2, <2>3 DEF InvokeInPlace, Stage, Places
    <3>2. Turn(p) < Turn(j)
      BY <1>4, <2>1, <2>3, <3>1
    <3> QED
      BY <1>3, <1>4, <2>3, <3>2
  <2>4. CASE p = j
    BY <1>3, <1>4, <2>4
  <2> QED
    BY <1>3, <2>2, <2>3, <2>4
<1>8. \A u \in funcs[j].out : u \in Fitting(funcs[i]) \/ funcs[i].class = "init"
        => (j < Seat(i) <=> Turn(j) < Turn(Seat(i)))
  BY <1>2, <1>6, <1>7
<1> QED
  BY <1>5, <1>8

(* No two providers have the same turn.                                    *)
LEMMA SameTurn ==
  ASSUME Typed, NEW g \in Places, NEW h \in Places
  PROVE  Turn(g) \in Nat /\ (Turn(g) = Turn(h) => g = h)
<1>1. Turn(g) \in Nat /\ Turn(h) \in Nat /\ g \in Nat /\ h \in Nat
  BY TurnsByStage DEF Typed, Places
<1>2. Stage(funcs[g]) \in Nat /\ Stage(funcs[h]) \in Nat
  BY DEF Stage
<1>3. Stage(funcs[g]) < Stage(funcs[h]) => Turn(g) < Turn(h)
  BY TurnsByStage
<1>4. Stage(funcs[h]) < Stage(funcs[g]) => Turn(h) < Turn(g)
  BY TurnsByStage
<1>5. Stage(funcs[g]) = Stage(funcs[h]) => (g < h <=> Turn(g) < Turn(h)) /\ (h < g <=> Turn(h) < Turn(g))
  BY TurnsByStage
<1> QED
  BY <1>1, <1>2, <1>3, <1>4, <1>5

(* The slot that is read was last written by the closest of those that     *)
(* inclusion matched.                                                      *)
LEMMA ReadAsMatched ==
  ASSUME BindInv, WireInv, wiring = "wired", Wireable(funcs),
         NEW dir \in Directions, NEW i \in include, NEW t \in Needs(dir, i)
  PROVE  LET W == Writers(dir, i, Rmap(dir, i, t))
             S == Sources(dir, i, t) \cap include IN
         W # {} /\ LastWriter(dir, W) = IF dir = "down" THEN Max(S) ELSE Min(S)
<1> DEFINE S == Sources(dir, i, t) \cap include
<1>1. PICK u : u = Rmap(dir, i, t)
  OBVIOUS
<1>2. /\ phase = "done" /\ downVmap = DownMapped /\ upVmap = UpMapped /\ LooseAlike(funcs)
      /\ include \subseteq Places /\ i \in Places /\ Typed
  BY DEF WireInv, Wireable, BindInv, IInv, Typed
<1>3. /\ S # {} /\ u \in Types
      /\ \A j \in include : j \in S <=> Precedes(dir, j, i) /\ u \in Offers(dir, j)
      /\ u = t \/ <<u, t>> \in Implements
  BY <1>1, <1>2, MatchedAreGivers
<1>4. /\ S \subseteq Places /\ Places = 1 .. Len(funcs) /\ Len(funcs) \in Nat
  BY <1>2, InvokePlace
<1>5. CASE dir = "down"
  <2>1. t \in funcs[i].in /\ u \in downVmap
    BY <1>1, <1>2, <1>5, DownHasSlot DEF Needs
  <2>2. u \in Fitting(funcs[i]) \/ funcs[i].class = "init"
    BY <1>3, <2>1 DEF Fitting
  <2>3. \A j \in include : u \in funcs[j].out => (j < Seat(i) <=> Turn(j) < Turn(Seat(i)))
    BY <1>2, <2>2, TurnsInOrder
  <2>4. \A j \in include : j \in S <=> j < Seat(i) /\ u \in funcs[j].out
    BY <1>3, <1>5 DEF Precedes, Offers
  <2>5. Writers("down", i, u) = {j \in include : u \in funcs[j].out \cap downVmap /\ Turn(j) < Turn(Seat(i))}
    BY DEF Writers
  <2>6. Writers("down", i, u) = S
    BY <2>1, <2>3, <2>4, <2>5
  <2>7. PICK T \in SUBSET (1 .. Len(funcs)) : T = S
    BY <1>4
  <2>8. PICK m \in T : \A j \in T : j <= m
    BY <1>3, <1>4, <2>7, LastPlace
  <2>9. \A j \in T : j \in Nat /\ j \in Places /\ u \in funcs[j].out
    BY <1>4, <2>4, <2>7
  <2>10. Max(T) = m
    <3>1. \A x \in T : (\A y \in T : x >= y) <=> x = m
      BY <2>8, <2>9
    <3> QED
      BY <2>8, <3>1 DEF Max
  <2>11. \A g, h \in T : /\ Turn(g) \in Nat /\ (g <= h => Turn(g) <= Turn(h))
                         /\ Turn(g) = Turn(h) => g = h
    <3> SUFFICES ASSUME NEW g \in T, NEW h \in T
                 PROVE  /\ Turn(g) \in Nat /\ (g <= h => Turn(g) <= Turn(h))
                        /\ Turn(g) = Turn(h) => g = h
      OBVIOUS
    <3>1. g \in Places /\ h \in Places /\ funcs[g].out \cap funcs[h].out # {} /\ g \in Nat /\ h \in Nat
      BY <2>9
    <3>2. (g <= h => Turn(g) <= Turn(h)) /\ (h <= g => Turn(h) <= Turn(g))
      BY <3>1, TurnsInOrder
    <3>3. Turn(g) \in Nat /\ (Turn(g) = Turn(h) => g = h)
      BY <1>2, <3>1, SameTurn
    <3> QED
      BY <3>2, <3>3
  <2>12. LastWriter("down", T) = m
    <3>1. \A x \in T : (\A y \in T : Turn(y) <= Turn(x)) => x = m
      <4> SUFFICES ASSUME NEW x \in T, \A y \in T : Turn(y) <= Turn(x) PROVE x = m
        OBVIOUS
      <4>1. Turn(m) <= Turn(x) /\ Turn(x) <= Turn(m) /\ Turn(x) \in Nat /\ Turn(m) \in Nat
        BY <2>8, <2>11
      <4> QED
        BY <2>8, <2>11, <4>1
    <3>2. \A y \in T : Turn(y) <= Turn(m)
      BY <2>8, <2>11
    <3> QED
      BY <2>8, <3>1, <3>2 DEF LastWriter
  <2> QED
    BY <1>1, <1>3, <1>5, <2>6, <2>7, <2>10, <2>12
<1>6. CASE dir = "up"
  <2>1. t \in funcs[i].recv /\ u \in upVmap
    BY <1>1, <1>2, <1>6, UpHasSlot DEF Needs
  <2>2. \A j \in include : j \in S <=> j > i /\ u \in funcs[j].ret
    BY <1>3, <1>6 DEF Precedes, Offers
  <2>3. Writers("up", i, u) = {j \in include : u \in funcs[j].ret \cap upVmap /\ j > i}
    BY DEF Writers
  <2>4. Writers("up", i, u) = S
    BY <2>1, <2>2, <2>3
  <2>5. \A T : LastWriter("up", T) = Min(T)
    BY DEF LastWriter, Min
  <2> QED
    BY <1>1, <1>3, <1>6, <2>4, <2>5
<1> QED
  BY <1>5, <1>6 DEF Directions

(* Values are read as inclusion matched them, and what the init function   *)
(* returns has a slot: through all of doBind, from its marks to its maps   *)
(* of slots, for chains of which Wireable holds.                           *)
THEOREM ReadsAsMatched ==
  ASSUME \A c \in Chains : Wireable(c)
  PROVE  BindSpec => []ValuesAsMatched
<1>1. BindInit => BindInv /\ WireInv
  BY BindInitInv, WireInitInv
<1>2. BindInv /\ WireInv /\ [BindNext]_<<vars, wireVars>> => (BindInv /\ WireInv)'
  BY BindNextInv, WireNextInv
<1>3. BindInv /\ WireInv => ValuesAsMatched
  <2> SUFFICES ASSUME BindInv, WireInv PROVE ValuesAsMatched
    OBVIOUS
  <2>1. Wireable(funcs)
    BY DEF BindInv, Settled
  <2>2. ASSUME wiring = "initless" PROVE FALSE
    <3>1. PICK i \in Places : funcs[i].class = "init" /\ ~(funcs[i].in \subseteq StaticMapped)
      BY <2>2 DEF WireInv
    <3>2. phase = "done" /\ i \in include
      BY <2>1, <2>2, <3>1 DEF WireInv, Wireable, InvokeInPlace, Places
    <3> QED
      BY <2>1, <3>1, <3>2, DownHasSlot
  <2>3. wiring = "wired" =>
          \A dir \in Directions : \A i \in include : \A t \in Needs(dir, i) :
            LET W == Writers(dir, i, Rmap(dir, i, t))
                S == Sources(dir, i, t) \cap include IN
            W # {} /\ LastWriter(dir, W) = IF dir = "down" THEN Max(S) ELSE Min(S)
    BY <2>1, ReadAsMatched
  <2> QED
    BY <2>2, <2>3 DEF ValuesAsMatched
<1> QED
  BY <1>1, <1>2, <1>3, PTL DEF BindSpec
=============================================================================
